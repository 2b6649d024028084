----------------------------- MODULE TrayProofs -----------------------------
(***************************************************************************)
(* Tray, proved for any tokens and any number of recordings, ticks, clicks *)
(* and restarts of the panel.                                              *)
(*                                                                         *)
(* The invariant is about two queues.  Of what the main thread posted: run *)
(* in order it makes the tray say what the recorder is, no clock in it is  *)
(* run while the tray says that Klip is idle, and Terminate not while it   *)
(* says that Klip records.  Of what is on its way to the panel: each part  *)
(* the panel shows either becomes what the tray publishes once all of it   *)
(* has been heard, or is read again.                                       *)
(***************************************************************************)
EXTENDS Tray, SequenceTheorems, TLAPS

-----------------------------------------------------------------------------
(* What is on its way between the threads and the panel.                    *)
MenuOf(r) == [id \in MenuItems |-> MenuProperties(id, r)]

Orders ==
  [op : {"SetRecording"}, to : BOOLEAN] \cup [op : {"SetLabel", "SetDetail"}, to : Clocks]
    \cup [op : {"Terminate"}, to : {None}]

Reads == [op : {"Read"}, parts : SUBSET Parts]

Calls == Reads \cup [op : {"Toggle", "Show", "Quit"}, token : {None}]
           \cup [op : {"Show", "ActivationToken"}, token : Tokens]

Reply(P, r, l, d) == Carrying("Reply", [p \in P |-> Shown(r, l, d)[p]])

Signals ==
  {Signal(p) : p \in {"Icon", "Title", "ToolTip"}}
    \cup {Carrying("Label", l) : l \in Clocks}
    \cup {Carrying("Menu", MenuProperties("Toggle", r)) : r \in BOOLEAN}
    \cup {Reply(P, r, l, d) : P \in SUBSET Parts, r \in BOOLEAN, l \in Clocks, d \in Clocks}

Types ==
  /\ TypeOK
  /\ ticks \in Clocks
  /\ tasks \in Seq(Orders) /\ calls \in Seq(Calls) /\ out \in Seq(Signals)
  /\ view = [p \in Parts |-> view[p]]
  /\ view["Menu"] \in {None, MenuOf(TRUE), MenuOf(FALSE)}

-----------------------------------------------------------------------------
(* What the tray says of the recorder once it has run the first n of the    *)
(* tasks of queue, from saying it is.                                       *)
Tells(task) == task.op = "SetRecording"

Told(queue, is, n, then) ==
  \/ /\ is = then
     /\ \A i \in 1..n : ~Tells(queue[i])
  \/ \E i \in 1..n :
       /\ Tells(queue[i]) /\ queue[i].to = then
       /\ \A j \in (i + 1)..n : ~Tells(queue[j])

(* A queue that makes what the tray says of what it is said to be: a clock  *)
(* is posted while the tray is to say that Klip records, and its Terminate  *)
(* when it is to say that it does not.                                      *)
Steady(queue, is, then) ==
  /\ Told(queue, is, Len(queue), then)
  /\ \A n \in 1..Len(queue) :
       /\ queue[n].op \in {"SetLabel", "SetDetail"} => Told(queue, is, n, TRUE)
       /\ queue[n].op = "Terminate" => Told(queue, is, n, FALSE)

InStep == Steady(tasks, recording, state = "Recording")

-----------------------------------------------------------------------------
(* What the panel has of a part once it has heard all of queue, where it    *)
(* has had that.                                                            *)
Gives(signal, p) ==
  \/ signal.name = "Reply" /\ p \in DOMAIN signal.to
  \/ signal.name = p /\ p \in {"Label", "Menu"}

Given(signal, p) ==
  IF signal.name = "Reply" THEN signal.to[p]
  ELSE IF p = "Menu" THEN MenuOf(signal.to = "Stop") ELSE signal.to

Has(queue, p, had, then) ==
  \/ /\ had = then
     /\ \A i \in DOMAIN queue : ~Gives(queue[i], p)
  \/ \E i \in DOMAIN queue :
       /\ Gives(queue[i], p) /\ Given(queue[i], p) = then
       /\ \A j \in DOMAIN queue : j > i => ~Gives(queue[j], p)

(* The panel asks for a part, or is still to be told that it has changed.   *)
Reread(p) ==
  \/ \E i \in DOMAIN calls : calls[i].op = "Read" /\ p \in calls[i].parts
  \/ p \in {"Icon", "Title", "ToolTip"} /\ \E i \in DOMAIN out : out[i].name = p

(* It has a menu, or hears of one before of any change of it.               *)
MenuComes ==
  \/ view["Menu"] # None
  \/ \E i \in DOMAIN out : out[i].name = "Reply" /\ "Menu" \in DOMAIN out[i].to

Current(p) == Has(out, p, view[p], Shown(recording, label, detail)[p]) /\ (p = "Menu" => MenuComes)

CatchesUp == available => \A p \in Parts : Reread(p) \/ Current(p)

-----------------------------------------------------------------------------
(* An item that is gone hands nothing over any more.                        *)
Silent == at = "gone" => ~serving /\ ~available /\ handing = <<>> /\ ~waking

InductiveInvariant == Types /\ IdleShowsNoClock /\ InStep /\ CatchesUp /\ Silent

-----------------------------------------------------------------------------
(* What a queue becomes.                                                    *)

(* Behind the first n of a queue it does not matter what is posted.         *)
LEMMA ToldStaysLemma ==
  ASSUME NEW S, NEW q \in Seq(S), NEW s \in Seq(S), NEW is, NEW x,
         NEW n \in 0..Len(q), Told(q, is, n, x)
  PROVE  Told(q \o s, is, n, x)
<1>1. /\ \A i \in 1..n : (q \o s)[i] = q[i]
  BY ConcatProperties, LenProperties
<1> QED BY <1>1 DEF Told

(* What is posted is told after what was there.                             *)
LEMMA ToldOnLemma ==
  ASSUME NEW S, NEW q \in Seq(S), NEW s \in Seq(S), NEW is, NEW x, NEW y,
         NEW n \in 0..Len(s), Told(q, is, Len(q), y), Told(s, y, n, x)
  PROVE  Told(q \o s, is, Len(q) + n, x)
<1> DEFINE m == Len(q)  r == q \o s
<1>1. /\ m \in Nat /\ n \in Nat
      /\ \A i \in 1..m : r[i] = q[i]
      /\ \A i \in 1..n : r[m + i] = s[i]
  <2>1. /\ m \in Nat /\ Len(s) \in Nat /\ Len(r) = m + Len(s)
        /\ \A i \in 1..m : r[i] = q[i]
        /\ \A i \in 1..Len(r) : i > m => r[i] = s[i - m]
    BY ConcatProperties, LenProperties
  <2>2. ASSUME NEW i \in 1..n PROVE r[m + i] = s[i]
    <3>1. m + i \in 1..Len(r) /\ m + i > m /\ (m + i) - m = i
      BY <2>1
    <3> QED BY <2>1, <3>1
  <2> QED BY <2>1, <2>2
<1> HIDE DEF r, m
<1>2. CASE y = x /\ \A i \in 1..n : ~Tells(s[i])
  <2>1. \A i \in 1..(m + n) : i > m => ~Tells(r[i])
    <3> SUFFICES ASSUME NEW i \in 1..(m + n), i > m PROVE ~Tells(r[i])
      OBVIOUS
    <3>1. i - m \in 1..n /\ m + (i - m) = i
      BY <1>1
    <3> QED BY <1>1, <1>2, <3>1
  <2>2. Told(q, is, m, x)
    BY <1>2 DEF m
  <2>3. CASE is = x /\ \A i \in 1..m : ~Tells(q[i])
    <3>1. \A i \in 1..(m + n) : ~Tells(r[i])
      BY <1>1, <2>1, <2>3
    <3> QED BY <2>3, <3>1 DEF Told, r, m
  <2>4. ASSUME NEW i \in 1..m, Tells(q[i]), q[i].to = x, \A j \in (i + 1)..m : ~Tells(q[j])
        PROVE  Told(r, is, m + n, x)
    <3>1. i \in 1..(m + n) /\ Tells(r[i]) /\ r[i].to = x
      BY <1>1, <2>4
    <3>2. \A j \in (i + 1)..(m + n) : ~Tells(r[j])
      BY <1>1, <2>1, <2>4
    <3> QED BY <3>1, <3>2 DEF Told
  <2> QED BY <2>2, <2>3, <2>4 DEF Told, r, m
<1>3. ASSUME NEW i \in 1..n, Tells(s[i]), s[i].to = x, \A j \in (i + 1)..n : ~Tells(s[j])
      PROVE  Told(r, is, m + n, x)
  <2>1. m + i \in 1..(m + n) /\ Tells(r[m + i]) /\ r[m + i].to = x
    BY <1>1, <1>3
  <2>2. ASSUME NEW j \in (m + i + 1)..(m + n) PROVE ~Tells(r[j])
    <3>1. j - m \in (i + 1)..n /\ j - m \in 1..n /\ m + (j - m) = j
      BY <1>1
    <3> QED BY <1>1, <1>3, <3>1
  <2> QED BY <2>1, <2>2 DEF Told
<1> QED BY <1>2, <1>3 DEF Told, r, m

(* The task at the front has been run.                                      *)
LEMMA ToldTailLemma ==
  ASSUME NEW S, NEW q \in Seq(S), q # <<>>, NEW is, NEW x,
         NEW n \in 1..Len(q), Told(q, is, n, x)
  PROVE  Told(Tail(q), IF Tells(Head(q)) THEN Head(q).to ELSE is, n - 1, x)
<1> DEFINE r == Tail(q)
<1>1. /\ Len(q) \in Nat /\ n \in Nat \ {0} /\ Head(q) = q[1]
      /\ \A i \in 1..(n - 1) : r[i] = q[i + 1]
  <2>1. Len(q) \in Nat /\ Len(r) = Len(q) - 1 /\ \A i \in 1..Len(r) : r[i] = q[i + 1]
    BY HeadTailProperties, LenProperties
  <2> QED BY <2>1
<1> HIDE DEF r
<1>2. CASE is = x /\ \A i \in 1..n : ~Tells(q[i])
  BY <1>1, <1>2 DEF Told, r
<1>3. ASSUME NEW i \in 1..n, Tells(q[i]), q[i].to = x, \A j \in (i + 1)..n : ~Tells(q[j])
      PROVE  Told(r, IF Tells(q[1]) THEN q[1].to ELSE is, n - 1, x)
  <2>1. \A j \in i..(n - 1) : ~Tells(r[j])
    BY <1>1, <1>3
  <2>2. CASE i = 1
    BY <1>1, <1>3, <2>1, <2>2 DEF Told
  <2>3. CASE i # 1
    <3>1. i - 1 \in 1..(n - 1) /\ r[i - 1] = q[i]
      BY <1>1, <2>3
    <3>2. \A j \in ((i - 1) + 1)..(n - 1) : ~Tells(r[j])
      BY <2>1, <3>1
    <3> QED BY <1>3, <3>1, <3>2 DEF Told
  <2> QED BY <2>2, <2>3
<1> QED BY <1>1, <1>2, <1>3 DEF Told, r

-----------------------------------------------------------------------------
(* What more is sent is heard after what is on its way.                     *)
LEMMA HasOnLemma ==
  ASSUME NEW S, NEW q \in Seq(S), NEW s \in Seq(S), NEW p, NEW x, NEW y, NEW z,
         Has(q, p, x, y), Has(s, p, y, z)
  PROVE  Has(q \o s, p, x, z)
<1> DEFINE m == Len(q)  n == Len(s)  r == q \o s
<1>1. /\ m \in Nat /\ n \in Nat
      /\ DOMAIN q = 1..m /\ DOMAIN s = 1..n /\ DOMAIN r = 1..(m + n)
      /\ \A i \in 1..m : r[i] = q[i]
      /\ \A i \in 1..n : r[m + i] = s[i]
      /\ \A i \in 1..(m + n) : i > m => i - m \in 1..n /\ r[i] = s[i - m]
  <2>1. /\ m \in Nat /\ n \in Nat /\ Len(r) = m + n /\ r \in Seq(S)
        /\ DOMAIN q = 1..m /\ DOMAIN s = 1..n
        /\ \A i \in 1..m : r[i] = q[i]
        /\ \A i \in 1..Len(r) : i > m => r[i] = s[i - m]
    BY ConcatProperties, LenProperties
  <2>2. DOMAIN r = 1..(m + n)
    BY <2>1, LenProperties
  <2>3. ASSUME NEW i \in 1..n PROVE r[m + i] = s[i]
    <3>1. m + i \in 1..Len(r) /\ m + i > m /\ (m + i) - m = i
      BY <2>1
    <3> QED BY <2>1, <3>1
  <2> QED BY <2>1, <2>2, <2>3
<1> HIDE DEF r, m, n
<1>2. CASE y = z /\ \A i \in DOMAIN s : ~Gives(s[i], p)
  <2>1. \A i \in DOMAIN r : i > m => ~Gives(r[i], p)
    BY <1>1, <1>2
  <2>2. CASE x = y /\ \A i \in DOMAIN q : ~Gives(q[i], p)
    <3>1. \A i \in DOMAIN r : ~Gives(r[i], p)
      BY <1>1, <2>1, <2>2
    <3> QED BY <1>2, <2>2, <3>1 DEF Has
  <2>3. ASSUME NEW i \in DOMAIN q, Gives(q[i], p), Given(q[i], p) = y,
               \A j \in DOMAIN q : j > i => ~Gives(q[j], p)
        PROVE  Has(r, p, x, z)
    <3>1. i \in DOMAIN r /\ Gives(r[i], p) /\ Given(r[i], p) = z
      BY <1>1, <1>2, <2>3
    <3>2. \A j \in DOMAIN r : j > i => ~Gives(r[j], p)
      BY <1>1, <2>1, <2>3
    <3> QED BY <3>1, <3>2 DEF Has
  <2> QED BY <2>2, <2>3 DEF Has, r
<1>3. ASSUME NEW i \in DOMAIN s, Gives(s[i], p), Given(s[i], p) = z,
             \A j \in DOMAIN s : j > i => ~Gives(s[j], p)
      PROVE  Has(r, p, x, z)
  <2>1. m + i \in DOMAIN r /\ Gives(r[m + i], p) /\ Given(r[m + i], p) = z
    BY <1>1, <1>3
  <2>2. ASSUME NEW j \in DOMAIN r, j > m + i PROVE ~Gives(r[j], p)
    <3>1. j > m /\ j - m \in DOMAIN s /\ j - m > i /\ r[j] = s[j - m]
      BY <1>1, <2>2
    <3> QED BY <1>3, <3>1
  <2> QED BY <2>1, <2>2 DEF Has
<1> QED BY <1>2, <1>3 DEF Has, r

(* The panel has heard the signal at the front.                             *)
LEMMA HasTailLemma ==
  ASSUME NEW S, NEW q \in Seq(S), q # <<>>, NEW p, NEW x, NEW y, Has(q, p, x, y)
  PROVE  Has(Tail(q), p, IF Gives(Head(q), p) THEN Given(Head(q), p) ELSE x, y)
<1> DEFINE r == Tail(q)  n == Len(q)
<1>1. /\ n \in Nat \ {0} /\ Head(q) = q[1] /\ DOMAIN q = 1..n /\ DOMAIN r = 1..(n - 1)
      /\ \A i \in 1..(n - 1) : r[i] = q[i + 1]
  <2>1. Len(q) \in Nat \ {0} /\ DOMAIN q = 1..n
    BY LenProperties, EmptySeq
  <2>2. r \in Seq(S) /\ Len(r) = Len(q) - 1 /\ \A i \in 1..Len(r) : r[i] = q[i + 1]
    BY HeadTailProperties
  <2>3. DOMAIN r = 1..Len(r)
    BY <2>2, LenProperties
  <2> QED BY <2>1, <2>2, <2>3
<1> HIDE DEF r, n
<1>2. CASE x = y /\ \A i \in DOMAIN q : ~Gives(q[i], p)
  BY <1>1, <1>2 DEF Has, r
<1>3. ASSUME NEW i \in DOMAIN q, Gives(q[i], p), Given(q[i], p) = y,
             \A j \in DOMAIN q : j > i => ~Gives(q[j], p)
      PROVE  Has(r, p, IF Gives(q[1], p) THEN Given(q[1], p) ELSE x, y)
  <2>1. ASSUME NEW j \in DOMAIN r, j >= i PROVE ~Gives(r[j], p)
    <3>1. j + 1 \in DOMAIN q /\ j + 1 > i /\ r[j] = q[j + 1]
      BY <1>1, <2>1
    <3> QED BY <1>3, <3>1
  <2>2. CASE i = 1
    BY <1>1, <1>3, <2>1, <2>2 DEF Has
  <2>3. CASE i # 1
    <3>1. i - 1 \in DOMAIN r /\ r[i - 1] = q[i]
      BY <1>1, <2>3
    <3>2. \A j \in DOMAIN r : j > i - 1 => ~Gives(r[j], p)
      BY <1>1, <2>1, <3>1
    <3> QED BY <1>3, <3>1, <3>2 DEF Has
  <2> QED BY <2>2, <2>3
<1> QED BY <1>1, <1>2, <1>3 DEF Has, r

(* A queue behind another that leads to where it starts.                    *)
LEMMA SteadyOnLemma ==
  ASSUME NEW S, NEW q \in Seq(S), NEW s \in Seq(S), NEW is, NEW y, NEW x, Steady(q, is, y), Steady(s, y, x)
  PROVE  Steady(q \o s, is, x)
<1> DEFINE m == Len(q)  r == q \o s
<1>1. /\ m \in Nat /\ Len(s) \in Nat /\ Len(r) = m + Len(s)
      /\ \A i \in 1..m : r[i] = q[i]
      /\ \A i \in 1..Len(r) : i > m => r[i] = s[i - m]
  BY ConcatProperties, LenProperties
<1>2. \A n \in 0..Len(s) : \A z : Told(s, y, n, z) => Told(r, is, m + n, z)
  BY ToldOnLemma DEF Steady
<1>3. \A n \in 0..m : \A z : Told(q, is, n, z) => Told(r, is, n, z)
  BY ToldStaysLemma
<1> HIDE DEF m, r
<1>4. Told(r, is, Len(r), x)
  BY <1>1, <1>2 DEF Steady
<1>6. ASSUME NEW n \in 1..Len(r), r[n].op \in {"SetLabel", "SetDetail"} PROVE Told(r, is, n, TRUE)
  <2>1. CASE n <= m
    <3>1. n \in 1..m /\ q[n].op \in {"SetLabel", "SetDetail"}
      BY <1>1, <1>6, <2>1
    <3>2. Told(q, is, n, TRUE)
      BY <3>1, Zenon DEF Steady, m
    <3>3. n \in 0..m
      BY <1>1, <3>1
    <3> QED BY <1>3, <3>2, <3>3, Zenon
  <2>2. CASE n > m
    <3>1. n - m \in 1..Len(s) /\ s[n - m].op \in {"SetLabel", "SetDetail"} /\ m + (n - m) = n
      BY <1>1, <1>6, <2>2
    <3>2. Told(s, y, n - m, TRUE)
      BY <3>1 DEF Steady
    <3>3. n - m \in 0..Len(s)
      BY <3>1, <1>1
    <3> QED BY <1>2, <3>1, <3>2, <3>3, Zenon
  <2>3. n <= m \/ n > m
    BY <1>1
  <2> QED BY <2>1, <2>2, <2>3, Zenon
<1>7. ASSUME NEW n \in 1..Len(r), r[n].op = "Terminate" PROVE Told(r, is, n, FALSE)
  <2>1. CASE n <= m
    <3>1. n \in 1..m /\ q[n].op = "Terminate"
      BY <1>1, <1>7, <2>1
    <3>2. Told(q, is, n, FALSE)
      BY <3>1, Zenon DEF Steady, m
    <3>3. n \in 0..m
      BY <1>1, <3>1
    <3> QED BY <1>3, <3>2, <3>3, Zenon
  <2>2. CASE n > m
    <3>1. n - m \in 1..Len(s) /\ s[n - m].op = "Terminate" /\ m + (n - m) = n
      BY <1>1, <1>7, <2>2
    <3>2. Told(s, y, n - m, FALSE)
      BY <3>1 DEF Steady
    <3>3. n - m \in 0..Len(s)
      BY <3>1, <1>1
    <3> QED BY <1>2, <3>1, <3>2, <3>3, Zenon
  <2>3. n <= m \/ n > m
    BY <1>1
  <2> QED BY <2>1, <2>2, <2>3, Zenon
<1> QED BY <1>4, <1>6, <1>7 DEF Steady, r

(* A queue whose front has been run.                                        *)
LEMMA SteadyTailLemma ==
  ASSUME NEW S, NEW q \in Seq(S), q # <<>>, NEW is, NEW x, Steady(q, is, x)
  PROVE  /\ Steady(Tail(q), IF Tells(Head(q)) THEN Head(q).to ELSE is, x)
         /\ Head(q).op \in {"SetLabel", "SetDetail"} => Told(q, is, 1, TRUE)
         /\ Head(q).op = "Terminate" => Told(q, is, 1, FALSE)
<1> DEFINE r == Tail(q)  now == IF Tells(Head(q)) THEN Head(q).to ELSE is
<1>1. /\ Len(q) \in Nat \ {0} /\ Len(r) = Len(q) - 1 /\ Head(q) = q[1]
      /\ \A i \in 1..Len(r) : r[i] = q[i + 1]
  BY HeadTailProperties, EmptySeq
<1>2. \A n \in 1..Len(q) : \A z : Told(q, is, n, z) => Told(r, now, n - 1, z)
  BY ToldTailLemma
<1> HIDE DEF r, now
<1>3. Told(r, now, Len(r), x)
  BY <1>1, <1>2 DEF Steady
<1>4. ASSUME NEW n \in 1..Len(r)
      PROVE  /\ r[n].op \in {"SetLabel", "SetDetail"} => Told(r, now, n, TRUE)
             /\ r[n].op = "Terminate" => Told(r, now, n, FALSE)
  <2>1. n + 1 \in 1..Len(q) /\ r[n] = q[n + 1] /\ (n + 1) - 1 = n
    BY <1>1
  <2>2. \A z : Told(q, is, n + 1, z) => Told(r, now, n, z)
    BY <1>2, <2>1
  <2> QED BY <2>1, <2>2 DEF Steady
<1>5. 1 \in 1..Len(q)
  BY <1>1
<1> QED BY <1>1, <1>3, <1>4, <1>5 DEF Steady, r, now

(* What the main thread posts, piece by piece.                              *)
LEMMA PiecesLemma ==
  /\ \A b : Steady(<<>>, b, b)
  /\ \A b, r : Steady(<<SetRecording(r)>>, b, r)
  /\ \A l, d : Steady(<<SetLabel(l), SetDetail(d)>>, TRUE, TRUE)
  /\ Steady(<<[op |-> "Terminate", to |-> None]>>, FALSE, FALSE)
<1>1. ASSUME NEW b PROVE Steady(<<>>, b, b)
  BY DEF Steady, Told
<1>2. ASSUME NEW b, NEW r PROVE Steady(<<SetRecording(r)>>, b, r)
  <2> DEFINE q == <<SetRecording(r)>>
  <2>1. Len(q) = 1 /\ q[1] = SetRecording(r) /\ q[1].op = "SetRecording" /\ q[1].to = r
    BY DEF SetRecording
  <2> HIDE DEF q
  <2>2. Told(q, b, 1, r)
    BY <2>1 DEF Told, Tells
  <2>3. \A n \in 1..1 : q[n].op \notin {"SetLabel", "SetDetail", "Terminate"}
    BY <2>1
  <2>4. Steady(q, b, r)
    BY <2>1, <2>2, <2>3, Zenon DEF Steady
  <2> QED BY <2>4 DEF q
<1>3. ASSUME NEW l, NEW d PROVE Steady(<<SetLabel(l), SetDetail(d)>>, TRUE, TRUE)
  <2> DEFINE q == <<SetLabel(l), SetDetail(d)>>
  <2>1. Len(q) = 2 /\ q[1].op = "SetLabel" /\ q[2].op = "SetDetail"
    BY DEF SetLabel, SetDetail
  <2> HIDE DEF q
  <2>2. \A i \in 1..2 : ~Tells(q[i]) /\ q[i].op # "Terminate"
    BY <2>1 DEF Tells
  <2>3. \A n \in 1..2 : Told(q, TRUE, n, TRUE)
    BY <2>2 DEF Told
  <2>4. 2 \in 1..2
    OBVIOUS
  <2>5. Steady(q, TRUE, TRUE)
    BY <2>1, <2>2, <2>3, <2>4, Zenon DEF Steady
  <2> QED BY <2>5 DEF q
<1>4. Steady(<<[op |-> "Terminate", to |-> None]>>, FALSE, FALSE)
  <2> DEFINE q == <<[op |-> "Terminate", to |-> None]>>
  <2>1. Len(q) = 1 /\ q[1].op = "Terminate"
    OBVIOUS
  <2> HIDE DEF q
  <2>2. Told(q, FALSE, 1, FALSE)
    BY <2>1 DEF Told, Tells
  <2>3. \A n \in 1..1 : n = 1
    OBVIOUS
  <2>4. Steady(q, FALSE, FALSE)
    BY <2>1, <2>2, <2>3, Zenon DEF Steady
  <2> QED BY <2>4 DEF q
<1> QED BY <1>1, <1>2, <1>3, <1>4

(* They are orders.                                                         *)
LEMMA OrdersLemma ==
  /\ <<>> \in Seq(Orders)
  /\ \A r \in BOOLEAN : <<SetRecording(r)>> \in Seq(Orders)
  /\ \A l, d \in Clocks : <<SetLabel(l), SetDetail(d)>> \in Seq(Orders)
  /\ <<[op |-> "Terminate", to |-> None]>> \in Seq(Orders)
<1>1. /\ \A r \in BOOLEAN : SetRecording(r) \in Orders
      /\ \A l \in Clocks : SetLabel(l) \in Orders /\ SetDetail(l) \in Orders
      /\ [op |-> "Terminate", to |-> None] \in Orders
  BY DEF SetRecording, SetLabel, SetDetail, Orders
<1> QED BY <1>1

-----------------------------------------------------------------------------
(* Steps that post: the tray will say what the recorder will be.            *)
LEMMA PostStep ==
  ASSUME Types, InStep, NEW s \in Seq(Orders), Post(s), recording' = recording,
         Steady(s, state = "Recording", state' = "Recording")
  PROVE  InStep' /\ tasks' \in Seq(Orders)
<1>1. tasks \in Seq(Orders) /\ tasks' = tasks \o s
  BY DEF Types, Post
<1>2. Steady(tasks, recording, state = "Recording")
  BY DEF InStep
<1>3. Steady(tasks \o s, recording, state' = "Recording")
  BY <1>1, <1>2, SteadyOnLemma
<1>4. tasks \o s \in Seq(Orders)
  BY <1>1, ConcatProperties
<1> QED BY <1>1, <1>3, <1>4 DEF InStep

(* Steps that post nothing.                                                 *)
LEMMA NoPostStep ==
  ASSUME Types, InStep, UNCHANGED <<tasks, recording>>, (state' = "Recording") = (state = "Recording")
  PROVE  InStep' /\ tasks' \in Seq(Orders)
BY DEF InStep, Types

(* What the start flow does to the tray.                                    *)
LEMMA BegunStep ==
  ASSUME Types, InStep, recording' = recording, Begun
  PROVE  InStep' /\ tasks' \in Seq(Orders) /\ state' \in {"Idle", "Picking", "Starting", "Recording"}
<1> DEFINE s == <<SetRecording(TRUE)>>
<1>1. s \in Seq(Orders) /\ Post(s) /\ state' = "Recording"
  BY OrdersLemma DEF Begun
<1>2. (state' = "Recording") = TRUE
  BY <1>1
<1>3. Steady(s, state = "Recording", TRUE)
  BY PiecesLemma
<1> HIDE DEF s
<1>4. Steady(s, state = "Recording", state' = "Recording")
  BY <1>2, <1>3
<1> QED BY <1>1, <1>4, PostStep

(* A recording, or one on its way, ends.                                    *)
LEMMA StoppedStep ==
  ASSUME Types, InStep, recording' = recording, Stopped
  PROVE  InStep' /\ tasks' \in Seq(Orders) /\ state' \in {"Idle", "Picking", "Starting", "Recording"}
<1> DEFINE s == <<SetRecording(FALSE)>>
<1>1. s \in Seq(Orders) /\ Post(s) /\ state' = "Idle"
  BY OrdersLemma DEF Stopped
<1>2. (state' = "Recording") = FALSE
  BY <1>1
<1>3. Steady(s, state = "Recording", FALSE)
  BY PiecesLemma
<1> HIDE DEF s
<1>4. Steady(s, state = "Recording", state' = "Recording")
  BY <1>2, <1>3
<1> QED BY <1>1, <1>4, PostStep

(* A request to start or to stop.                                           *)
LEMMA ToggleStep ==
  ASSUME Types, InStep, recording' = recording, Toggle
  PROVE  /\ InStep' /\ tasks' \in Seq(Orders) /\ state' \in {"Idle", "Picking", "Starting", "Recording"}
         /\ window' \in {"shown", "hidden"}
<1>1. window' \in {"shown", "hidden"}
  BY DEF Toggle, Begin, Types, TypeOK
<1>2. CASE Stopped
  BY <1>1, <1>2, StoppedStep
<1>3. CASE UNCHANGED tasks /\ state # "Recording" /\ state' \in {"Picking", "Starting"}
  <2>1. (state' = "Recording") = (state = "Recording")
    BY <1>3
  <2> QED BY <1>1, <1>3, <2>1, NoPostStep
<1>4. CASE UNCHANGED <<tasks, state>>
  <2>1. (state' = "Recording") = (state = "Recording")
    BY <1>4
  <2> QED BY <1>1, <1>4, <2>1, NoPostStep DEF Types, TypeOK
<1> QED BY <1>2, <1>3, <1>4 DEF Toggle, Begin

(* What a pass does to it.                                                  *)
LEMMA UpdatesStep ==
  ASSUME Types, InStep, recording' = recording, Updates
  PROVE  /\ InStep' /\ tasks' \in Seq(Orders) /\ state' \in {"Idle", "Picking", "Starting", "Recording"}
         /\ window' \in {"shown", "hidden"} /\ ticks' \in Clocks
<1>1. window' \in {"shown", "hidden"} /\ ticks \in Clocks
  BY DEF Updates, OnTick, Toggle, Begin, Types, TypeOK
<1>2. CASE OnTick
  <2> DEFINE s == <<SetLabel(ticks'), SetDetail(ticks')>>
  <2>1. ticks' \in Clocks /\ state = "Recording" /\ state' = state /\ Post(s)
    BY <1>1, <1>2, BoundsAssumption DEF OnTick, Clocks
  <2>2. s \in Seq(Orders) /\ Steady(s, TRUE, TRUE)
    BY <2>1, OrdersLemma, PiecesLemma
  <2>3. (state = "Recording") = TRUE /\ (state' = "Recording") = TRUE
    BY <2>1
  <2> HIDE DEF s
  <2>4. Steady(s, state = "Recording", state' = "Recording")
    BY <2>2, <2>3
  <2>5. InStep' /\ tasks' \in Seq(Orders)
    BY <2>1, <2>2, <2>4, PostStep
  <2> QED BY <1>1, <2>1, <2>5
<1>3. CASE Begun /\ UNCHANGED ticks
  BY <1>1, <1>3, BegunStep
<1>4. CASE Stopped /\ UNCHANGED ticks
  BY <1>1, <1>4, StoppedStep
<1>5. CASE Toggle /\ UNCHANGED ticks
  BY <1>1, <1>5, ToggleStep
<1>6. CASE UNCHANGED <<tasks, ticks>> /\ (state' = state \/ (state = "Picking" /\ state' = "Starting"))
  <2>1. (state' = "Recording") = (state = "Recording")
    BY <1>6
  <2> QED BY <1>1, <1>6, <2>1, NoPostStep DEF Types, TypeOK
<1>7. CASE state = "Starting" /\ Begun /\ UNCHANGED <<window, starts, ticks>>
  <2>1. Begun /\ UNCHANGED ticks
    BY <1>7
  <2> QED BY <1>3, <2>1
<1>8. CASE state = "Picking" /\ Begin /\ UNCHANGED <<starts, ticks, tasks>>
  <2>1. UNCHANGED <<tasks, ticks>> /\ state = "Picking" /\ state' = "Starting"
    BY <1>8 DEF Begin
  <2> QED BY <1>6, <2>1
<1>9. CASE state # "Idle" /\ Stopped /\ window' = "shown" /\ UNCHANGED <<starts, ticks>>
  <2>1. Stopped /\ UNCHANGED ticks
    BY <1>9
  <2> QED BY <1>4, <2>1
<1>10. CASE window = "shown" /\ Toggle /\ UNCHANGED ticks
  BY <1>5, <1>10
<1>11. CASE UNCHANGED <<state, window, starts, ticks, tasks>>
  <2>1. UNCHANGED <<tasks, ticks>> /\ state' = state
    BY <1>11
  <2> QED BY <1>6, <2>1
<1> QED BY <1>2, <1>7, <1>8, <1>9, <1>10, <1>11, Zenon DEF Updates

-----------------------------------------------------------------------------
(* The steps of the main thread leave the tray and the panel alone.         *)
LEMMA MainStep ==
  ASSUME InductiveInvariant, UNCHANGED <<trayVars, panelVars>>, at' # "gone",
         InStep', tasks' \in Seq(Orders), requests' \in Seq(Requests), handing' = handing,
         at' \in {"initializing", "waiting", "taking", "terminating", "gone"},
         state' \in {"Idle", "Picking", "Starting", "Recording"}, window' \in {"shown", "hidden"},
         quitting' \in BOOLEAN, taken' \in BOOLEAN, woken' \in BOOLEAN, waking' = waking,
         token' \in Tokens \cup {None}, ticks' \in Clocks
  PROVE  InductiveInvariant'
<1>1. UNCHANGED <<serving, available, recording, label, detail, calls, out, view>>
  BY DEF trayVars, panelVars
<1>2. TypeOK'
  BY <1>1 DEF InductiveInvariant, Types, TypeOK
<1>3. Types'
  BY <1>1, <1>2 DEF InductiveInvariant, Types
<1>4. IdleShowsNoClock' /\ Silent'
  BY <1>1 DEF InductiveInvariant, IdleShowsNoClock, Silent
<1>5. CatchesUp'
  BY <1>1 DEF InductiveInvariant, CatchesUp, Reread, Current, MenuComes
<1> QED BY <1>3, <1>4, <1>5 DEF InductiveInvariant

(* Klip waits for an event, or takes one.                                   *)
LEMMA WaitStep == InductiveInvariant /\ (WaitForEvents \/ CloseWindow) => InductiveInvariant'
<1> SUFFICES ASSUME InductiveInvariant, WaitForEvents \/ CloseWindow PROVE InductiveInvariant'
  OBVIOUS
<1>1. /\ at' = "taking" /\ taken' = FALSE /\ woken' = FALSE
      /\ UNCHANGED <<state, token, ticks, requests, handing, waking, tasks, trayVars, panelVars>>
      /\ quitting' \in BOOLEAN /\ window' \in {"shown", "hidden"}
  BY DEF WaitForEvents, CloseWindow, InductiveInvariant, Types, TypeOK
<1>2. InStep' /\ tasks' \in Seq(Orders)
  <2>1. (state' = "Recording") = (state = "Recording") /\ UNCHANGED <<tasks, recording>>
    BY <1>1 DEF trayVars
  <2> QED BY <2>1, NoPostStep DEF InductiveInvariant
<1>3. /\ requests \in Seq(Requests) /\ state \in {"Idle", "Picking", "Starting", "Recording"}
      /\ token \in Tokens \cup {None} /\ ticks \in Clocks
  BY DEF InductiveInvariant, Types, TypeOK
<1> QED BY <1>1, <1>2, <1>3, MainStep

(* A request is taken.                                                      *)
LEMMA TakeStep == InductiveInvariant /\ TakeRequest => InductiveInvariant'
<1> SUFFICES ASSUME InductiveInvariant, TakeRequest PROVE InductiveInvariant'
  OBVIOUS
<1> DEFINE request == Head(requests)
<1>1. /\ request \in Requests /\ requests' \in Seq(Requests)
  BY HeadTailProperties DEF InductiveInvariant, Types, TypeOK, TakeRequest
<1>2. request.token \in Tokens \cup {None} /\ request.kind \in {"Toggle", "Quit", "Show", "ActivationToken"}
  BY <1>1 DEF Requests
<1>3. /\ at = "taking" /\ UNCHANGED <<at, ticks, woken, handing, waking, trayVars, panelVars>>
      /\ taken' = (taken \/ request.kind # "ActivationToken")
      /\ UNCHANGED recording
  BY DEF TakeRequest, trayVars
<1>4. TypeOK /\ ticks \in Clocks
  BY DEF InductiveInvariant, Types
<1>5. taken' \in BOOLEAN
  BY <1>3
<1>6. \/ /\ Toggle /\ UNCHANGED <<quitting, token>>
      \/ /\ UNCHANGED <<state, tasks>> /\ window' \in {"shown", "hidden"}
         /\ quitting' \in BOOLEAN /\ token' \in Tokens \cup {None}
  BY <1>2, <1>4 DEF TakeRequest, Show, TypeOK
<1>7. /\ InStep' /\ tasks' \in Seq(Orders) /\ state' \in {"Idle", "Picking", "Starting", "Recording"}
      /\ window' \in {"shown", "hidden"} /\ quitting' \in BOOLEAN /\ token' \in Tokens \cup {None}
  <2>1. CASE Toggle /\ UNCHANGED <<quitting, token>>
    BY <1>3, <1>4, <2>1, ToggleStep DEF InductiveInvariant, TypeOK
  <2>2. CASE /\ UNCHANGED <<state, tasks>> /\ window' \in {"shown", "hidden"}
             /\ quitting' \in BOOLEAN /\ token' \in Tokens \cup {None}
    <3>1. (state' = "Recording") = (state = "Recording")
      BY <2>2
    <3> QED BY <1>3, <1>4, <2>2, <3>1, NoPostStep DEF InductiveInvariant, TypeOK
  <2> QED BY <1>6, <2>1, <2>2
<1>8. woken' \in BOOLEAN /\ ticks' \in Clocks
  BY <1>3, <1>4 DEF TypeOK
<1> QED BY <1>1, <1>3, <1>5, <1>7, <1>8, MainStep

(* The pass ends.                                                           *)
LEMMA EndStep == InductiveInvariant /\ EndPass => InductiveInvariant'
<1> SUFFICES ASSUME InductiveInvariant, EndPass PROVE InductiveInvariant'
  OBVIOUS
<1>1. /\ at' = "waiting" /\ Updates /\ token' \in {None, token}
      /\ UNCHANGED <<quitting, taken, requests, woken, handing, waking, recording, trayVars, panelVars>>
  BY DEF EndPass, queueVars, trayVars
<1>2. /\ InStep' /\ tasks' \in Seq(Orders) /\ state' \in {"Idle", "Picking", "Starting", "Recording"}
      /\ window' \in {"shown", "hidden"} /\ ticks' \in Clocks
  BY <1>1, UpdatesStep DEF InductiveInvariant
<1>3. TypeOK
  BY DEF InductiveInvariant, Types
<1>4. /\ requests' \in Seq(Requests) /\ quitting' \in BOOLEAN /\ taken' \in BOOLEAN /\ woken' \in BOOLEAN
      /\ token' \in Tokens \cup {None}
  BY <1>1, <1>3 DEF TypeOK
<1> QED BY <1>1, <1>2, <1>4, MainStep

(* Klip ends.                                                               *)
LEMMA TerminateStep == InductiveInvariant /\ Terminate => InductiveInvariant'
<1> SUFFICES ASSUME InductiveInvariant, Terminate PROVE InductiveInvariant'
  OBVIOUS
<1> DEFINE first == IF state = "Recording" THEN <<SetRecording(FALSE)>> ELSE <<>>
           last == <<[op |-> "Terminate", to |-> None]>>
<1>1. /\ at' = "terminating" /\ state' = "Idle" /\ Post(first \o last)
      /\ UNCHANGED <<window, quitting, token, taken, ticks, requests, woken, handing, waking, recording,
                     trayVars, panelVars>>
  BY DEF Terminate, queueVars, trayVars
<1>2. first \in Seq(Orders) /\ last \in Seq(Orders)
  BY OrdersLemma
<1>3. Steady(first, state = "Recording", FALSE)
  <2>1. CASE state = "Recording"
    BY <2>1, PiecesLemma
  <2>2. CASE state # "Recording"
    <3>1. (state = "Recording") = FALSE /\ first = <<>>
      BY <2>2
    <3> HIDE DEF first
    <3> QED BY <3>1, PiecesLemma
  <2> QED BY <2>1, <2>2
<1>4. Steady(last, FALSE, FALSE)
  BY PiecesLemma
<1> HIDE DEF first, last
<1>5. Steady(first \o last, state = "Recording", FALSE)
  BY <1>2, <1>3, <1>4, SteadyOnLemma
<1>6. (state' = "Recording") = FALSE /\ first \o last \in Seq(Orders)
  BY <1>1, <1>2, ConcatProperties
<1>7. Steady(first \o last, state = "Recording", state' = "Recording")
  BY <1>5, <1>6
<1>8. InStep' /\ tasks' \in Seq(Orders)
  BY <1>1, <1>6, <1>7, PostStep DEF InductiveInvariant
<1>9. TypeOK /\ ticks \in Clocks
  BY DEF InductiveInvariant, Types
<1>10. /\ requests' \in Seq(Requests) /\ quitting' \in BOOLEAN /\ taken' \in BOOLEAN /\ woken' \in BOOLEAN
       /\ token' \in Tokens \cup {None} /\ window' \in {"shown", "hidden"} /\ ticks' \in Clocks
  BY <1>1, <1>9 DEF TypeOK
<1> QED BY <1>1, <1>8, <1>10, MainStep

(* A part of which the panel is told, so that it reads it again.            *)
HearsOf(queue, p) == p \in {"Icon", "Title", "ToolTip"} /\ \E i \in DOMAIN queue : queue[i].name = p

(* What brings a panel that shows that to show this.                        *)
Announced(queue, that, this) == \A p \in Parts : HearsOf(queue, p) \/ Has(queue, p, that[p], this[p])

-----------------------------------------------------------------------------
(* Everything in a queue is in one that is longer.                          *)
LEMMA StaysLemma ==
  ASSUME NEW S, NEW q \in Seq(S), NEW s \in Seq(S)
  PROVE  /\ \A i \in DOMAIN q : i \in DOMAIN (q \o s) /\ (q \o s)[i] = q[i]
         /\ \A i \in DOMAIN s : \E j \in DOMAIN (q \o s) : (q \o s)[j] = s[i]
<1> DEFINE m == Len(q)  n == Len(s)  r == q \o s
<1>1. /\ m \in Nat /\ n \in Nat /\ Len(r) = m + n /\ r \in Seq(S)
      /\ DOMAIN q = 1..m /\ DOMAIN s = 1..n
      /\ \A i \in 1..m : r[i] = q[i]
      /\ \A i \in 1..Len(r) : i > m => r[i] = s[i - m]
  BY ConcatProperties, LenProperties
<1>2. DOMAIN r = 1..(m + n)
  BY <1>1, LenProperties
<1> HIDE DEF m, n, r
<1>3. ASSUME NEW i \in DOMAIN s PROVE \E j \in DOMAIN r : r[j] = s[i]
  <2>1. m + i \in DOMAIN r /\ m + i > m /\ (m + i) - m = i
    BY <1>1, <1>2
  <2> QED BY <1>1, <1>2, <2>1
<1>4. \A i \in DOMAIN q : i \in DOMAIN r /\ r[i] = q[i]
  BY <1>1, <1>2
<1> QED BY <1>3, <1>4 DEF r

(* Everything but the front of a queue is behind it.                        *)
LEMMA BehindLemma ==
  ASSUME NEW S, NEW q \in Seq(S), q # <<>>
  PROVE  /\ Head(q) = q[1] /\ Head(q) \in S /\ Tail(q) \in Seq(S)
         /\ \A i \in DOMAIN q : i = 1 \/ \E j \in DOMAIN Tail(q) : Tail(q)[j] = q[i]
<1> DEFINE r == Tail(q)  n == Len(q)
<1>1. /\ n \in Nat /\ DOMAIN q = 1..n /\ Head(q) = q[1] /\ Head(q) \in S
      /\ r \in Seq(S) /\ Len(r) = n - 1 /\ \A i \in 1..Len(r) : r[i] = q[i + 1]
  BY HeadTailProperties, LenProperties
<1>2. DOMAIN r = 1..(n - 1)
  BY <1>1, LenProperties
<1> HIDE DEF r, n
<1>3. ASSUME NEW i \in DOMAIN q, i # 1 PROVE \E j \in DOMAIN r : r[j] = q[i]
  <2>1. i - 1 \in DOMAIN r /\ r[i - 1] = q[i]
    BY <1>1, <1>2, <1>3
  <2> QED BY <2>1
<1> QED BY <1>1, <1>3 DEF r

(* Where a value is given, what was had before does not matter.             *)
LEMMA GivenLemma ==
  ASSUME NEW q, NEW p, NEW x, NEW y, NEW z, Has(q, p, x, y), \E i \in DOMAIN q : Gives(q[i], p)
  PROVE  Has(q, p, z, y)
BY DEF Has

(* One announcement after another.                                          *)
LEMMA AnnouncedOnLemma ==
  ASSUME NEW q \in Seq(Signals), NEW s \in Seq(Signals), NEW a, NEW b, NEW c,
         Announced(q, a, b), Announced(s, b, c)
  PROVE  Announced(q \o s, a, c)
<1> SUFFICES ASSUME NEW p \in Parts PROVE HearsOf(q \o s, p) \/ Has(q \o s, p, a[p], c[p])
  BY DEF Announced
<1>1. /\ \A i \in DOMAIN q : i \in DOMAIN (q \o s) /\ (q \o s)[i] = q[i]
      /\ \A i \in DOMAIN s : \E j \in DOMAIN (q \o s) : (q \o s)[j] = s[i]
  BY StaysLemma
<1>2. CASE HearsOf(q, p)
  BY <1>1, <1>2 DEF HearsOf
<1>3. CASE HearsOf(s, p)
  BY <1>1, <1>3 DEF HearsOf
<1>4. CASE Has(q, p, a[p], b[p]) /\ Has(s, p, b[p], c[p])
  <2>1. Has(q \o s, p, a[p], c[p])
    BY <1>4, HasOnLemma
  <2> QED BY <2>1
<1> QED BY <1>2, <1>3, <1>4 DEF Announced

(* What the panel shows of the parts.                                       *)
LEMMA ShownLemma ==
  ASSUME NEW r, NEW l, NEW d
  PROVE  /\ Shown(r, l, d)["Icon"] = r /\ Shown(r, l, d)["Title"] = r
         /\ Shown(r, l, d)["ToolTip"] = <<r, d>> /\ Shown(r, l, d)["Label"] = l
         /\ Shown(r, l, d)["Menu"] = MenuOf(r)
BY DEF Shown, MenuOf

(* The tray says what changed: a label, a detail, the start or the end of a *)
(* recording.                                                               *)
LEMMA LabelLemma ==
  ASSUME NEW r, NEW d, NEW l \in Clocks
  PROVE  /\ LabelSignals(l) \in Seq(Signals)
         /\ Announced(LabelSignals(l), Shown(r, label, d), Shown(r, l, d))
<1>1. CASE l = label
  BY <1>1 DEF LabelSignals, Announced, Has
<1>2. CASE l # label
  <2> DEFINE q == <<Carrying("Label", l)>>
  <2>1. LabelSignals(l) = q /\ q \in Seq(Signals) /\ DOMAIN q = {1} /\ q[1].name = "Label" /\ q[1].to = l
    BY <1>2 DEF LabelSignals, Carrying, Signals
  <2> HIDE DEF q
  <2>2. Gives(q[1], "Label") /\ Given(q[1], "Label") = l
    BY <2>1 DEF Gives, Given
  <2>3. Has(q, "Label", label, l)
    BY <2>1, <2>2 DEF Has
  <2>4. ASSUME NEW p \in Parts, p # "Label" PROVE Has(q, p, Shown(r, label, d)[p], Shown(r, l, d)[p])
    <3>1. Shown(r, label, d)[p] = Shown(r, l, d)[p]
      BY <2>4, ShownLemma DEF Parts
    <3>2. ~Gives(q[1], p)
      BY <2>1, <2>4 DEF Gives
    <3> QED BY <2>1, <3>1, <3>2 DEF Has
  <2> QED BY <2>1, <2>3, <2>4, ShownLemma DEF Announced
<1> QED BY <1>1, <1>2

(* A detail is part of the tooltip, which is read again.                    *)
LEMMA DetailLemma ==
  ASSUME NEW r, NEW l, NEW d \in Clocks
  PROVE  /\ DetailSignals(d) \in Seq(Signals)
         /\ Announced(DetailSignals(d), Shown(r, l, detail), Shown(r, l, d))
<1>1. CASE d = detail
  BY <1>1 DEF DetailSignals, Announced, Has
<1>2. CASE d # detail
  <2> DEFINE q == <<Signal("ToolTip")>>
  <2>1. DetailSignals(d) = q /\ q \in Seq(Signals) /\ DOMAIN q = {1} /\ q[1].name = "ToolTip"
    BY <1>2 DEF DetailSignals, Signal, Signals
  <2> HIDE DEF q
  <2>2. HearsOf(q, "ToolTip")
    BY <2>1 DEF HearsOf
  <2>4. ASSUME NEW p \in Parts, p # "ToolTip" PROVE Has(q, p, Shown(r, l, detail)[p], Shown(r, l, d)[p])
    <3>1. Shown(r, l, detail)[p] = Shown(r, l, d)[p]
      BY <2>4, ShownLemma DEF Parts
    <3>2. ~Gives(q[1], p)
      BY <2>1 DEF Gives
    <3> QED BY <2>1, <3>1, <3>2 DEF Has
  <2> QED BY <2>1, <2>2, <2>4 DEF Announced
<1> QED BY <1>1, <1>2

(* A change of the recording itself changes all but the label.              *)
LEMMA RecordingLemma ==
  ASSUME NEW was, NEW r \in BOOLEAN, NEW l, NEW d
  PROVE  LET q == <<Signal("Icon"), Signal("Title"), Signal("ToolTip"),
                    Carrying("Menu", MenuProperties("Toggle", r))>>
         IN  q \in Seq(Signals) /\ Announced(q, Shown(was, l, d), Shown(r, l, d))
<1> DEFINE q == <<Signal("Icon"), Signal("Title"), Signal("ToolTip"),
                  Carrying("Menu", MenuProperties("Toggle", r))>>
<1>1. /\ DOMAIN q = 1..4 /\ q[1].name = "Icon" /\ q[2].name = "Title" /\ q[3].name = "ToolTip"
      /\ q[4].name = "Menu" /\ q[4].to = MenuProperties("Toggle", r)
  BY DEF Signal, Carrying
<1>2. q \in Seq(Signals)
  <2>1. /\ Signal("Icon") \in Signals /\ Signal("Title") \in Signals /\ Signal("ToolTip") \in Signals
        /\ Carrying("Menu", MenuProperties("Toggle", r)) \in Signals
    BY DEF Signals
  <2> QED BY <2>1
<1> HIDE DEF q
<1>3. \A p \in {"Icon", "Title", "ToolTip"} : HearsOf(q, p)
  BY <1>1 DEF HearsOf
<1>4. Has(q, "Label", l, l)
  <2>1. \A i \in 1..4 : ~Gives(q[i], "Label")
    BY <1>1 DEF Gives
  <2> QED BY <1>1, <2>1 DEF Has
<1>5. Has(q, "Menu", MenuOf(was), MenuOf(r))
  <2>1. (MenuProperties("Toggle", r) = "Stop") = r
    BY DEF MenuProperties
  <2>2. Gives(q[4], "Menu") /\ Given(q[4], "Menu") = MenuOf(r)
    BY <1>1, <2>1 DEF Gives, Given
  <2>3. 4 \in DOMAIN q /\ \A j \in DOMAIN q : ~(j > 4)
    BY <1>1
  <2> QED BY <2>2, <2>3 DEF Has
<1>6. Announced(q, Shown(was, l, d), Shown(r, l, d))
  BY <1>3, <1>4, <1>5, ShownLemma DEF Announced, Parts
<1> QED BY <1>2, <1>6 DEF q

(* A panel that catches up keeps doing so where what changes is announced.  *)
LEMMA AnnounceStep ==
  ASSUME Types, CatchesUp, UNCHANGED <<calls, view, available>>, NEW s \in Seq(Signals), Announce(s),
         Announced(s, Shown(recording, label, detail), Shown(recording', label', detail'))
  PROVE  CatchesUp' /\ out' \in Seq(Signals)
<1>1. out \in Seq(Signals) /\ out' \in {out, out \o s} /\ (available => out' = out \o s)
  BY DEF Types, Announce
<1>2. out' \in Seq(Signals)
  BY <1>1, ConcatProperties
<1>3. SUFFICES ASSUME available, NEW p \in Parts PROVE Reread(p)' \/ Current(p)'
  BY <1>2 DEF CatchesUp
<1>4. out' = out \o s
  BY <1>1, <1>3
<1>5. /\ \A i \in DOMAIN out : i \in DOMAIN out' /\ out'[i] = out[i]
      /\ \A i \in DOMAIN s : \E j \in DOMAIN out' : out'[j] = s[i]
  BY <1>1, <1>4, StaysLemma
<1>6. CASE Reread(p)
  <2>1. CASE \E i \in DOMAIN calls : calls[i].op = "Read" /\ p \in calls[i].parts
    BY <2>1 DEF Reread
  <2>2. CASE p \in {"Icon", "Title", "ToolTip"} /\ \E i \in DOMAIN out : out[i].name = p
    BY <1>5, <2>2 DEF Reread
  <2> QED BY <1>6, <2>1, <2>2 DEF Reread
<1>7. CASE HearsOf(s, p)
  BY <1>5, <1>7 DEF HearsOf, Reread
<1>8. CASE Current(p) /\ Has(s, p, Shown(recording, label, detail)[p], Shown(recording', label', detail')[p])
  <2>1. Has(out', p, view[p], Shown(recording', label', detail')[p])
    BY <1>1, <1>4, <1>8, HasOnLemma DEF Current
  <2>2. p = "Menu" => MenuComes'
    BY <1>5, <1>8 DEF Current, MenuComes
  <2> QED BY <2>1, <2>2 DEF Current
<1> QED BY <1>3, <1>6, <1>7, <1>8 DEF CatchesUp, Announced

-----------------------------------------------------------------------------
(* The steps of the bus thread.                                             *)

(* A recording is announced as begun or as ended.                           *)
LEMMA ApplyRecordingStep ==
  ASSUME Types, CatchesUp, IdleShowsNoClock, UNCHANGED <<calls, view, available>>,
         NEW r \in BOOLEAN, ApplyRecording(r)
  PROVE  /\ CatchesUp' /\ out' \in Seq(Signals) /\ IdleShowsNoClock'
         /\ recording' = r /\ label' \in Clocks /\ detail' \in Clocks
<1>1. recording \in BOOLEAN /\ label \in Clocks /\ detail \in Clocks /\ Idle \in Clocks /\ out \in Seq(Signals)
  BY BoundsAssumption DEF Types, TypeOK, Idle, Clocks
<1>2. CASE r = recording
  <2>1. UNCHANGED <<recording, label, detail, out>>
    BY <1>2 DEF ApplyRecording
  <2> QED
    BY <1>1, <1>2, <2>1 DEF CatchesUp, Reread, Current, MenuComes, IdleShowsNoClock
<1>3. CASE r # recording
  <2> DEFINE first == <<Signal("Icon"), Signal("Title"), Signal("ToolTip"),
                        Carrying("Menu", MenuProperties("Toggle", r))>>
             last == IF r THEN <<>> ELSE LabelSignals(Idle) \o DetailSignals(Idle)
  <2>1. /\ recording' = r /\ label' = (IF r THEN label ELSE Idle) /\ detail' = (IF r THEN detail ELSE Idle)
        /\ Announce(first \o last)
    BY <1>3 DEF ApplyRecording
  <2>2. first \in Seq(Signals) /\ Announced(first, Shown(recording, label, detail), Shown(r, label, detail))
    BY RecordingLemma
  <2>3. last \in Seq(Signals) /\ Announced(last, Shown(r, label, detail), Shown(r, label', detail'))
    <3>1. CASE r
      <4>1. last = <<>> /\ label' = label /\ detail' = detail
        BY <2>1, <3>1
      <4> HIDE DEF last
      <4>2. \A x : Announced(<<>>, x, x)
        BY DEF Announced, Has
      <4> QED BY <4>1, <4>2
    <3>2. CASE ~r
      <4>1. /\ LabelSignals(Idle) \in Seq(Signals)
            /\ Announced(LabelSignals(Idle), Shown(r, label, detail), Shown(r, Idle, detail))
        BY <1>1, LabelLemma
      <4>2. /\ DetailSignals(Idle) \in Seq(Signals)
            /\ Announced(DetailSignals(Idle), Shown(r, Idle, detail), Shown(r, Idle, Idle))
        BY <1>1, DetailLemma
      <4>3. last = LabelSignals(Idle) \o DetailSignals(Idle) /\ label' = Idle /\ detail' = Idle
        BY <2>1, <3>2
      <4> HIDE DEF last
      <4>4. LabelSignals(Idle) \o DetailSignals(Idle) \in Seq(Signals)
        BY <4>1, <4>2, ConcatProperties
      <4>5. Announced(LabelSignals(Idle) \o DetailSignals(Idle), Shown(r, label, detail), Shown(r, Idle, Idle))
        BY <4>1, <4>2, AnnouncedOnLemma
      <4> QED BY <4>3, <4>4, <4>5
    <3> QED BY <3>1, <3>2
  <2> HIDE DEF first, last
  <2>4. first \o last \in Seq(Signals)
    BY <2>2, <2>3, ConcatProperties
  <2>5. Announced(first \o last, Shown(recording, label, detail), Shown(recording', label', detail'))
    BY <2>1, <2>2, <2>3, AnnouncedOnLemma
  <2>6. CatchesUp' /\ out' \in Seq(Signals)
    BY <2>1, <2>4, <2>5, AnnounceStep
  <2>7. IdleShowsNoClock' /\ label' \in Clocks /\ detail' \in Clocks
    BY <1>1, <2>1 DEF IdleShowsNoClock
  <2> QED BY <2>1, <2>6, <2>7
<1> QED BY <1>2, <1>3

(* The types where only the tray and what it sends have changed.            *)
LEMMA TrayTypes ==
  ASSUME Types,
         UNCHANGED <<state, window, quitting, token, taken, ticks, requests, woken, handing, waking, calls, view>>,
         at' \in {"initializing", "waiting", "taking", "terminating", "gone"},
         tasks' \in Seq(Orders), out' \in Seq(Signals), serving' \in BOOLEAN, available' \in BOOLEAN,
         available' => serving', recording' \in BOOLEAN, label' \in Clocks, detail' \in Clocks
  PROVE  Types'
<1>1. TypeOK'
  BY DEF Types, TypeOK
<1> QED BY <1>1 DEF Types

(* A task is run.                                                           *)
LEMMA RunTaskStep == InductiveInvariant /\ RunTask => InductiveInvariant'
<1> SUFFICES ASSUME InductiveInvariant, RunTask PROVE InductiveInvariant'
  OBVIOUS
<1> DEFINE task == Head(tasks)
<1>1. /\ Types /\ CatchesUp /\ IdleShowsNoClock /\ InStep /\ Silent
      /\ tasks \in Seq(Orders) /\ tasks # <<>> /\ tasks' = Tail(tasks)
      /\ task = tasks[1] /\ task \in Orders /\ tasks' \in Seq(Orders)
  BY BehindLemma DEF InductiveInvariant, Types, RunTask
<1>2. /\ Steady(tasks', IF Tells(task) THEN task.to ELSE recording, state = "Recording")
      /\ task.op \in {"SetLabel", "SetDetail"} => Told(tasks, recording, 1, TRUE)
      /\ task.op = "Terminate" => Told(tasks, recording, 1, FALSE)
  BY <1>1, SteadyTailLemma, Zenon DEF InStep
<1>3. /\ BusIdle
      /\ UNCHANGED <<state, window, quitting, token, taken, ticks, requests, woken, handing, waking, calls, view>>
      /\ \/ task.op = "SetRecording" /\ ApplyRecording(task.to) /\ UNCHANGED <<at, serving, available>>
         \/ task.op = "SetLabel" /\ ApplyLabel(task.to) /\ UNCHANGED <<at, serving, available>>
         \/ task.op = "SetDetail" /\ ApplyDetail(task.to) /\ UNCHANGED <<at, serving, available>>
         \/ task.op = "Terminate" /\ Unpublish
  BY DEF RunTask, queueVars
<1>4. /\ task.op = "SetRecording" => task.to \in BOOLEAN
      /\ task.op \in {"SetLabel", "SetDetail"} => task.to \in Clocks
      /\ Tells(task) <=> task.op = "SetRecording"
  BY <1>1 DEF Orders, Tells
<1>5. \A x : Told(tasks, recording, 1, x) /\ ~Tells(task) => recording = x
  BY <1>1 DEF Told
<1>6. /\ recording \in BOOLEAN /\ label \in Clocks /\ detail \in Clocks /\ Idle \in Clocks /\ out \in Seq(Signals)
      /\ serving \in BOOLEAN /\ available \in BOOLEAN /\ (available => serving)
      /\ at \in {"initializing", "waiting", "taking", "terminating", "gone"}
  BY <1>1, BoundsAssumption DEF Types, TypeOK, Idle, Clocks
<1> HIDE DEF task
<1>7. ASSUME UNCHANGED <<at, serving, available>>, CatchesUp', IdleShowsNoClock', out' \in Seq(Signals),
             recording' = (IF Tells(task) THEN task.to ELSE recording),
             recording' \in BOOLEAN, label' \in Clocks, detail' \in Clocks
      PROVE  InductiveInvariant'
  <2>1. Types'
    BY <1>1, <1>3, <1>6, <1>7, TrayTypes
  <2>2. InStep'
    BY <1>2, <1>3, <1>7 DEF InStep
  <2>3. Silent'
    BY <1>1, <1>3, <1>7 DEF Silent
  <2> QED BY <1>7, <2>1, <2>2, <2>3 DEF InductiveInvariant
<1>8. CASE task.op = "SetRecording" /\ ApplyRecording(task.to) /\ UNCHANGED <<at, serving, available>>
  <2>1. task.to \in BOOLEAN /\ Tells(task) /\ UNCHANGED <<calls, view, available>>
    BY <1>3, <1>4, <1>8
  <2>2. /\ CatchesUp' /\ out' \in Seq(Signals) /\ IdleShowsNoClock'
        /\ recording' = task.to /\ label' \in Clocks /\ detail' \in Clocks
    BY <1>1, <1>8, <2>1, ApplyRecordingStep
  <2> QED BY <1>7, <1>8, <2>1, <2>2
<1>9. CASE task.op = "SetLabel" /\ ApplyLabel(task.to) /\ UNCHANGED <<at, serving, available>>
  <2>1. /\ task.to \in Clocks /\ ~Tells(task) /\ UNCHANGED <<calls, view, available>>
        /\ label' = task.to /\ Announce(LabelSignals(task.to)) /\ UNCHANGED <<recording, detail>>
    BY <1>3, <1>4, <1>9 DEF ApplyLabel
  <2>2. recording = TRUE
    BY <1>2, <1>5, <1>9, <2>1
  <2>3. /\ LabelSignals(task.to) \in Seq(Signals)
        /\ Announced(LabelSignals(task.to), Shown(recording, label, detail), Shown(recording', label', detail'))
    BY <2>1, LabelLemma
  <2>4. CatchesUp' /\ out' \in Seq(Signals)
    BY <1>1, <2>1, <2>3, AnnounceStep
  <2>5. IdleShowsNoClock'
    BY <2>1, <2>2 DEF IdleShowsNoClock
  <2> QED BY <1>6, <1>7, <1>9, <2>1, <2>4, <2>5
<1>10. CASE task.op = "SetDetail" /\ ApplyDetail(task.to) /\ UNCHANGED <<at, serving, available>>
  <2>1. /\ task.to \in Clocks /\ ~Tells(task) /\ UNCHANGED <<calls, view, available>>
        /\ detail' = task.to /\ Announce(DetailSignals(task.to)) /\ UNCHANGED <<recording, label>>
    BY <1>3, <1>4, <1>10 DEF ApplyDetail
  <2>2. recording = TRUE
    BY <1>2, <1>5, <1>10, <2>1
  <2>3. /\ DetailSignals(task.to) \in Seq(Signals)
        /\ Announced(DetailSignals(task.to), Shown(recording, label, detail), Shown(recording', label', detail'))
    BY <2>1, DetailLemma
  <2>4. CatchesUp' /\ out' \in Seq(Signals)
    BY <1>1, <2>1, <2>3, AnnounceStep
  <2>5. IdleShowsNoClock'
    BY <2>1, <2>2 DEF IdleShowsNoClock
  <2> QED BY <1>6, <1>7, <1>10, <2>1, <2>4, <2>5
<1>11. CASE task.op = "Terminate" /\ Unpublish
  <2>1. /\ serving' = FALSE /\ available' = FALSE /\ recording' = FALSE /\ label' = Idle /\ detail' = Idle
        /\ at' = "gone" /\ out' = out /\ ~Tells(task)
    BY <1>4, <1>11 DEF Unpublish
  <2>2. recording = FALSE
    BY <1>2, <1>5, <1>11, <2>1
  <2>3. Types'
    BY <1>1, <1>3, <1>6, <2>1, TrayTypes
  <2>4. InStep'
    BY <1>2, <1>3, <2>1, <2>2 DEF InStep
  <2>5. CatchesUp' /\ IdleShowsNoClock'
    BY <2>1 DEF CatchesUp, IdleShowsNoClock
  <2>6. Silent'
    BY <1>3, <2>1 DEF Silent, BusIdle
  <2> QED BY <2>3, <2>4, <2>5, <2>6 DEF InductiveInvariant
<1> QED BY <1>3, <1>8, <1>9, <1>10, <1>11

(* Steps that leave what the main thread and the tray say alone.            *)
LEMMA InStepStays == InStep /\ UNCHANGED <<state, tasks, recording>> => InStep'
BY DEF InStep

(* A request is handed over, and the main thread woken.                     *)
LEMMA HandingStep == InductiveInvariant /\ (OnActivate \/ Enqueue \/ Wake) => InductiveInvariant'
<1> SUFFICES ASSUME InductiveInvariant, OnActivate \/ Enqueue \/ Wake PROVE InductiveInvariant'
  OBVIOUS
<1>1. /\ TypeOK /\ Types /\ Silent /\ IdleShowsNoClock /\ InStep /\ CatchesUp
  BY DEF InductiveInvariant, Types
<1>2. UNCHANGED <<at, state, window, quitting, token, taken, ticks, tasks, serving, available,
                  recording, label, detail, calls, out, view>>
  BY DEF OnActivate, Enqueue, Wake, mainVars, trayVars, panelVars
<1>3. requests' \in Seq(Requests) /\ handing' \in Seq(Requests) /\ woken' \in BOOLEAN /\ waking' \in BOOLEAN
  <2>1. CASE OnActivate
    <3>1. UNCHANGED <<requests, woken, waking>>
      BY <2>1 DEF OnActivate
    <3>2. PICK t \in Tokens \cup {None} :
            handing' = (IF t = None THEN <<>> ELSE <<[kind |-> "ActivationToken", token |-> t]>>)
                         \o <<[kind |-> "Show", token |-> t]>>
      BY <2>1 DEF OnActivate
    <3>3. [kind |-> "ActivationToken", token |-> t] \in Requests /\ [kind |-> "Show", token |-> t] \in Requests
      BY DEF Requests
    <3>4. (IF t = None THEN <<>> ELSE <<[kind |-> "ActivationToken", token |-> t]>>) \in Seq(Requests)
          /\ <<[kind |-> "Show", token |-> t]>> \in Seq(Requests)
      BY <3>3
    <3>5. handing' \in Seq(Requests)
      BY <3>2, <3>4, ConcatProperties
    <3> QED BY <1>1, <3>1, <3>5 DEF TypeOK
  <2>2. CASE Enqueue
    <3>1. /\ handing \in Seq(Requests) /\ handing # <<>> /\ requests \in Seq(Requests)
          /\ requests' = Append(requests, Head(handing)) /\ handing' = Tail(handing)
          /\ waking' = TRUE /\ woken' = woken
      BY <1>1, <2>2 DEF Enqueue, TypeOK
    <3>2. Head(handing) \in Requests /\ handing' \in Seq(Requests)
      BY <3>1, BehindLemma
    <3>3. requests' \in Seq(Requests)
      BY <3>1, <3>2, AppendProperties
    <3> QED BY <1>1, <3>1, <3>2, <3>3 DEF TypeOK
  <2>3. CASE Wake
    BY <1>1, <2>3 DEF Wake, TypeOK
  <2> QED BY <2>1, <2>2, <2>3
<1>4. TypeOK'
  BY <1>1, <1>2, <1>3 DEF TypeOK
<1>5. Types'
  BY <1>1, <1>2, <1>4 DEF Types
<1>6. Silent'
  BY <1>1, <1>2 DEF Silent, OnActivate, Enqueue, Wake
<1>7. InStep' /\ IdleShowsNoClock' /\ CatchesUp'
  BY <1>1, <1>2, InStepStays DEF IdleShowsNoClock, CatchesUp, Reread, Current, MenuComes
<1> QED BY <1>5, <1>6, <1>7 DEF InductiveInvariant

-----------------------------------------------------------------------------
(* Steps that ask for parts, or hand clicks over.                           *)

(* What was asked for still is, where more calls follow.                    *)
LEMMA MoreCallsStep ==
  ASSUME Types, CatchesUp, NEW s \in Seq(Calls), calls' = calls \o s,
         UNCHANGED <<available, recording, label, detail, out, view>>
  PROVE  CatchesUp' /\ calls' \in Seq(Calls)
<1>1. calls \in Seq(Calls)
  BY DEF Types
<1>2. calls' \in Seq(Calls) /\ \A i \in DOMAIN calls : i \in DOMAIN calls' /\ calls'[i] = calls[i]
  BY <1>1, StaysLemma, ConcatProperties
<1>3. \A p \in Parts : Reread(p) => Reread(p)'
  BY <1>2 DEF Reread
<1>4. \A p \in Parts : Current(p) => Current(p)'
  BY DEF Current, MenuComes
<1> QED BY <1>2, <1>3, <1>4 DEF CatchesUp

(* An appended call, which is there.                                        *)
LEMMA AppendLemma ==
  ASSUME NEW S, NEW q \in Seq(S), NEW c \in S
  PROVE  /\ Append(q, c) = q \o <<c>> /\ <<c>> \in Seq(S) /\ Append(q, c) \in Seq(S)
         /\ \E i \in DOMAIN Append(q, c) : Append(q, c)[i] = c
<1>1. <<c>> \in Seq(S) /\ DOMAIN <<c>> = {1} /\ <<c>>[1] = c
  OBVIOUS
<1>2. Append(q, c) = q \o <<c>>
  BY AppendIsConcat
<1>3. \A i \in DOMAIN <<c>> : \E j \in DOMAIN (q \o <<c>>) : (q \o <<c>>)[j] = <<c>>[i]
  <2> DEFINE s == <<c>>
  <2> SUFFICES \A i \in DOMAIN s : \E j \in DOMAIN (q \o s) : (q \o s)[j] = s[i]
    OBVIOUS
  <2>1. s \in Seq(S)
    BY <1>1
  <2> HIDE DEF s
  <2> QED BY <2>1, StaysLemma
<1>4. q \o <<c>> \in Seq(S)
  BY <1>1, ConcatProperties
<1> QED BY <1>1, <1>2, <1>3, <1>4

(* The main thread has its tray, published or not.                          *)
LEMMA InitializeStep == InductiveInvariant /\ Initialize => InductiveInvariant'
<1> SUFFICES ASSUME InductiveInvariant, Initialize PROVE InductiveInvariant'
  OBVIOUS
<1> DEFINE c == [op |-> "Read", parts |-> Parts]
<1>1. /\ Types /\ TypeOK /\ IdleShowsNoClock /\ InStep
  BY DEF InductiveInvariant, Types
<1>2. /\ UNCHANGED <<state, window, quitting, token, taken, ticks, requests, woken, handing, waking, tasks,
                     recording, label, detail, out, view>>
      /\ at' = "waiting" /\ serving' \in BOOLEAN /\ available' \in BOOLEAN /\ (available' => serving')
      /\ calls' = IF available' THEN Append(calls, c) ELSE calls
  BY DEF Initialize, queueVars
<1>3. calls \in Seq(Calls) /\ c \in Calls
  BY <1>1 DEF Types, Calls, Reads
<1>4. calls' \in Seq(Calls)
  BY <1>2, <1>3, AppendLemma
<1>5. CatchesUp'
  <2>1. SUFFICES ASSUME available', NEW p \in Parts PROVE Reread(p)'
    BY DEF CatchesUp
  <2>2. \E i \in DOMAIN calls' : calls'[i] = c
    BY <1>2, <1>3, <2>1, AppendLemma
  <2> QED BY <2>2 DEF Reread
<1>6. TypeOK'
  BY <1>1, <1>2 DEF TypeOK
<1>7. Types'
  BY <1>1, <1>2, <1>4, <1>6 DEF Types
<1>8. IdleShowsNoClock' /\ InStep' /\ Silent'
  BY <1>1, <1>2, InStepStays DEF IdleShowsNoClock, Silent
<1> QED BY <1>5, <1>7, <1>8 DEF InductiveInvariant

(* The user clicks.                                                         *)
LEMMA UserStep == InductiveInvariant /\ UserActs => InductiveInvariant'
<1> SUFFICES ASSUME InductiveInvariant, UserActs PROVE InductiveInvariant'
  OBVIOUS
<1>1. /\ Types /\ TypeOK /\ CatchesUp /\ IdleShowsNoClock /\ InStep /\ Silent /\ calls \in Seq(Calls)
  BY DEF InductiveInvariant, Types
<1>2. UNCHANGED <<at, state, window, quitting, token, taken, ticks, requests, woken, handing, waking, tasks,
                  serving, available, recording, label, detail, out, view>>
  BY DEF UserActs, mainVars, queueVars, trayVars
<1>3. \E s \in Seq(Calls) : calls' = calls \o s
  <2>1. ASSUME NEW op \in {"Toggle", "Show", "Quit"}, calls' = Append(calls, Click(op, None))
        PROVE  \E s \in Seq(Calls) : calls' = calls \o s
    <3>1. Click(op, None) \in Calls
      BY DEF Click, Calls
    <3> QED BY <1>1, <2>1, <3>1, AppendLemma
  <2>2. ASSUME NEW t \in Tokens, calls' = calls \o <<Click("ActivationToken", t), Click("Show", t)>>
        PROVE  \E s \in Seq(Calls) : calls' = calls \o s
    <3>1. Click("ActivationToken", t) \in Calls /\ Click("Show", t) \in Calls
      BY DEF Click, Calls
    <3>2. <<Click("ActivationToken", t), Click("Show", t)>> \in Seq(Calls)
      BY <3>1
    <3> QED BY <2>2, <3>2
  <2> QED BY <2>1, <2>2 DEF UserActs
<1>4. CatchesUp' /\ calls' \in Seq(Calls)
  BY <1>1, <1>2, <1>3, MoreCallsStep
<1>5. TypeOK'
  BY <1>1, <1>2 DEF TypeOK
<1>6. Types'
  BY <1>1, <1>2, <1>4, <1>5 DEF Types
<1>7. IdleShowsNoClock' /\ InStep' /\ Silent'
  BY <1>1, <1>2, InStepStays DEF IdleShowsNoClock, Silent
<1> QED BY <1>4, <1>6, <1>7 DEF InductiveInvariant

(* The panel starts over and reads everything.                              *)
LEMMA RestartStep == InductiveInvariant /\ PanelRestarts => InductiveInvariant'
<1> SUFFICES ASSUME InductiveInvariant, PanelRestarts PROVE InductiveInvariant'
  OBVIOUS
<1> DEFINE c == [op |-> "Read", parts |-> Parts]
<1>1. /\ Types /\ TypeOK /\ IdleShowsNoClock /\ InStep /\ Silent /\ calls \in Seq(Calls) /\ c \in Calls
  BY DEF InductiveInvariant, Types, Calls, Reads
<1>2. /\ UNCHANGED <<at, state, window, quitting, token, taken, ticks, requests, woken, handing, waking, tasks,
                     serving, available, recording, label, detail>>
      /\ view' = [p \in Parts |-> None] /\ out' = <<>> /\ calls' = Append(calls, c)
  BY DEF PanelRestarts, mainVars, queueVars, trayVars
<1>3. calls' \in Seq(Calls) /\ \E i \in DOMAIN calls' : calls'[i] = c
  BY <1>1, <1>2, AppendLemma
<1>4. CatchesUp'
  BY <1>3 DEF CatchesUp, Reread
<1>5. TypeOK'
  BY <1>1, <1>2 DEF TypeOK
<1>6. Types'
  <2>1. view' = [p \in Parts |-> view'[p]] /\ view'["Menu"] = None
    BY <1>2 DEF Parts
  <2>2. out' \in Seq(Signals)
    BY <1>2
  <2> QED BY <1>1, <1>2, <1>3, <1>5, <2>1, <2>2 DEF Types
<1>7. IdleShowsNoClock' /\ InStep' /\ Silent'
  BY <1>1, <1>2, InStepStays DEF IdleShowsNoClock, Silent
<1> QED BY <1>4, <1>6, <1>7 DEF InductiveInvariant

(* The answer to a read gives the parts it asks for as they are published.  *)
LEMMA ReplyLemma ==
  ASSUME Types, NEW P \in SUBSET Parts, NEW reply, reply = Reply(P, recording, label, detail)
  PROVE  /\ reply \in Signals /\ <<reply>> \in Seq(Signals)
         /\ reply.name = "Reply" /\ DOMAIN reply.to = P
         /\ \A p \in P : Gives(reply, p) /\ Given(reply, p) = Shown(recording, label, detail)[p]
         /\ \A p \in Parts \ P : \A x : Has(<<reply>>, p, x, x)
<1> DEFINE to == [part \in P |-> Shown(recording, label, detail)[part]]
           q == <<reply>>
<1>1. reply \in Signals
  <2>1. recording \in BOOLEAN /\ label \in Clocks /\ detail \in Clocks
    BY DEF Types, TypeOK
  <2> QED BY <2>1 DEF Signals
<1>2. /\ q \in Seq(Signals) /\ DOMAIN q = {1} /\ q[1] = reply
      /\ reply.name = "Reply" /\ reply.to = to /\ DOMAIN to = P
      /\ \A part \in P : to[part] = Shown(recording, label, detail)[part]
  BY <1>1 DEF Carrying, Reply
<1> HIDE DEF q, to
<1>3. \A p \in Parts : Gives(reply, p) <=> p \in P
  BY <1>2 DEF Gives
<1>4. \A p \in P : Given(reply, p) = Shown(recording, label, detail)[p]
  BY <1>2 DEF Given
<1>5. \A p \in Parts \ P : \A x : Has(q, p, x, x)
  BY <1>2, <1>3 DEF Has
<1>6. \A p \in P : Gives(reply, p)
  BY <1>3
<1> QED BY <1>1, <1>2, <1>4, <1>5, <1>6 DEF q

(* What is given last is what the panel will have.                          *)
LEMMA LastLemma ==
  ASSUME NEW S, NEW q \in Seq(S), NEW c \in S, NEW p, Gives(c, p)
  PROVE  \A x : Has(Append(q, c), p, x, Given(c, p))
<1> DEFINE r == Append(q, c)  n == Len(q) + 1
<1>1. n \in Nat /\ n \in DOMAIN r /\ r[n] = c /\ \A j \in DOMAIN r : ~(j > n)
  <2>1. Len(q) \in Nat /\ r \in Seq(S) /\ Len(r) = n /\ r[n] = c
    BY AppendProperties, LenProperties
  <2>2. DOMAIN r = 1..n
    BY <2>1, LenProperties
  <2> QED BY <2>1, <2>2
<1> HIDE DEF r, n
<1> QED BY <1>1 DEF Has, r

(* What a signal may carry.                                                 *)
LEMMA SignalsLemma ==
  ASSUME NEW h \in Signals
  PROVE  /\ h.name \in {"Icon", "Title", "ToolTip", "Label", "Menu", "Reply"}
         /\ h.name = "Menu" => \E r \in BOOLEAN : h.to = MenuProperties("Toggle", r)
         /\ h.name = "Reply" =>
              /\ DOMAIN h.to \subseteq Parts
              /\ "Menu" \in DOMAIN h.to => \E r \in BOOLEAN : h.to["Menu"] = MenuOf(r)
<1>1. CASE \E p \in {"Icon", "Title", "ToolTip"} : h = Signal(p)
  BY <1>1 DEF Signal
<1>2. CASE \E l \in Clocks : h = Carrying("Label", l)
  BY <1>2 DEF Carrying
<1>3. CASE \E r \in BOOLEAN : h = Carrying("Menu", MenuProperties("Toggle", r))
  <2>1. PICK r \in BOOLEAN : h = Carrying("Menu", MenuProperties("Toggle", r))
    BY <1>3
  <2>2. h.name = "Menu" /\ h.to = MenuProperties("Toggle", r)
    BY <2>1 DEF Carrying
  <2> QED BY <2>2
<1>4. ASSUME NEW P \in SUBSET Parts, NEW r \in BOOLEAN, NEW l \in Clocks, NEW d \in Clocks, h = Reply(P, r, l, d)
      PROVE  /\ h.name = "Reply" /\ DOMAIN h.to \subseteq Parts
             /\ "Menu" \in DOMAIN h.to => \E x \in BOOLEAN : h.to["Menu"] = MenuOf(x)
  <2> DEFINE to == [p \in P |-> Shown(r, l, d)[p]]
  <2>1. h.name = "Reply" /\ h.to = to
    BY <1>4 DEF Reply, Carrying
  <2>2. DOMAIN to = P /\ \A p \in P : to[p] = Shown(r, l, d)[p]
    OBVIOUS
  <2> HIDE DEF to
  <2>3. "Menu" \in P => to["Menu"] = MenuOf(r)
    BY <2>2, ShownLemma
  <2> QED BY <2>1, <2>2, <2>3
<1> QED BY <1>1, <1>2, <1>3, <1>4 DEF Signals

(* A change of the menu's first item brings the menu to what it is to be.   *)
LEMMA MenuLemma ==
  ASSUME NEW x \in BOOLEAN, NEW r \in BOOLEAN
  PROVE  /\ [MenuOf(x) EXCEPT !["Toggle"] = MenuProperties("Toggle", r)] = MenuOf(r)
         /\ MenuOf(MenuProperties("Toggle", r) = "Stop") = MenuOf(r)
         /\ MenuOf(r) # None
<1>1. (MenuProperties("Toggle", r) = "Stop") = r
  BY DEF MenuProperties
<1>2. MenuOf(r) # None
  BY NoneAssumption DEF MenuOf
<1>3. ASSUME NEW id \in MenuItems
      PROVE  [MenuOf(x) EXCEPT !["Toggle"] = MenuProperties("Toggle", r)][id] = MenuOf(r)[id]
  BY DEF MenuOf, MenuProperties, MenuItems
<1>4. [MenuOf(x) EXCEPT !["Toggle"] = MenuProperties("Toggle", r)] = MenuOf(r)
  BY <1>3 DEF MenuOf
<1> QED BY <1>1, <1>2, <1>4

(* A call is handled.                                                       *)
LEMMA HandleCallStep == InductiveInvariant /\ HandleCall => InductiveInvariant'
<1> SUFFICES ASSUME InductiveInvariant, HandleCall PROVE InductiveInvariant'
  OBVIOUS
<1> DEFINE call == Head(calls)
           reply == Reply(call.parts, recording, label, detail)
<1>1. /\ Types /\ TypeOK /\ CatchesUp /\ IdleShowsNoClock /\ InStep /\ Silent
      /\ calls \in Seq(Calls) /\ calls # <<>> /\ out \in Seq(Signals) /\ calls' = Tail(calls)
      /\ recording \in BOOLEAN /\ label \in Clocks /\ detail \in Clocks /\ (available => serving)
  BY DEF InductiveInvariant, Types, TypeOK, HandleCall
<1>2. /\ call = calls[1] /\ call \in Calls /\ calls' \in Seq(Calls)
      /\ \A i \in DOMAIN calls : i = 1 \/ \E j \in DOMAIN calls' : calls'[j] = calls[i]
  BY <1>1, BehindLemma
<1>3. UNCHANGED <<at, state, window, quitting, token, taken, ticks, requests, woken, waking, tasks,
                  serving, available, recording, label, detail, view>>
  BY DEF HandleCall, mainVars, trayVars
<1>4. /\ call.op = "Read" => out' = (IF serving THEN Append(out, reply) ELSE out) /\ handing' = handing
      /\ call.op # "Read" => out' = out /\ handing' = (IF serving THEN Asked(call) ELSE <<>>)
  BY DEF HandleCall, Reply
<1> HIDE DEF call
<1>5. call.op = "Read" => call.parts \in SUBSET Parts
  BY <1>2 DEF Calls, Reads
<1>6. handing' \in Seq(Requests)
  <2>1. CASE call.op = "Read"
    BY <1>1, <1>4, <2>1 DEF TypeOK
  <2>2. CASE call.op # "Read"
    <3>1. [kind |-> call.op, token |-> call.token] \in Requests
      BY <1>2, <2>2 DEF Calls, Reads, Requests
    <3>2. Asked(call) \in Seq(Requests)
      BY <3>1 DEF Asked
    <3>3. CASE serving
      BY <1>4, <2>2, <3>2, <3>3
    <3>4. CASE ~serving
      <4>1. handing' = <<>>
        BY <1>4, <2>2, <3>4
      <4> QED BY <4>1
    <3> QED BY <3>3, <3>4
  <2> QED BY <2>1, <2>2
<1>7. CatchesUp' /\ out' \in Seq(Signals)
  <2>1. CASE call.op = "Read" /\ serving
    <3>1. reply \in Signals /\ out' = Append(out, reply)
      BY <1>1, <1>4, <1>5, <2>1, ReplyLemma DEF Parts
    <3>2. out' = out \o <<reply>> /\ <<reply>> \in Seq(Signals) /\ out' \in Seq(Signals)
          /\ \E i \in DOMAIN out' : out'[i] = reply
      BY <1>1, <3>1, AppendLemma
    <3>3. \A i \in DOMAIN out : i \in DOMAIN out' /\ out'[i] = out[i]
      BY <1>1, <3>2, StaysLemma
    <3>4. SUFFICES ASSUME available, NEW p \in Parts PROVE Reread(p)' \/ Current(p)'
      BY <1>3, <3>2 DEF CatchesUp
    <3> DEFINE shown == Shown(recording, label, detail)[p]
    <3>5. /\ reply.name = "Reply" /\ DOMAIN reply.to = call.parts
          /\ p \in call.parts => Gives(reply, p) /\ Given(reply, p) = shown
          /\ p \notin call.parts => \A x : Has(<<reply>>, p, x, x)
      <4>1. call.parts \in SUBSET Parts
        BY <1>5, <2>1
      <4>2. reply = Reply(call.parts, recording, label, detail)
        OBVIOUS
      <4> HIDE DEF reply
      <4>3. /\ reply.name = "Reply" /\ DOMAIN reply.to = call.parts
            /\ \A part \in call.parts : Gives(reply, part) /\ Given(reply, part) = Shown(recording, label, detail)[part]
            /\ \A part \in Parts \ call.parts : \A x : Has(<<reply>>, part, x, x)
        BY <1>1, <4>1, <4>2, ReplyLemma
      <4> QED BY <3>4, <4>3
    <3> HIDE DEF reply, shown
    <3>6. p = "Menu" /\ (p \in call.parts \/ MenuComes) => MenuComes'
      BY <1>3, <3>2, <3>3, <3>5 DEF MenuComes
    <3>7. \A x, y : Has(out, p, x, y) /\ Has(<<reply>>, p, y, shown) => Has(out', p, x, shown)
      BY <1>1, <3>2, HasOnLemma
    <3>8. CASE p \in call.parts
      <4>1. Has(out', p, view[p], shown)
        BY <1>1, <3>1, <3>5, <3>8, LastLemma
      <4> QED BY <1>3, <3>6, <3>8, <4>1 DEF Current, shown
    <3>9. CASE p \notin call.parts
      <4>1. CASE Reread(p)
        BY <1>2, <3>3, <3>9, <4>1 DEF Reread
      <4>2. CASE Current(p)
        BY <1>3, <3>5, <3>6, <3>7, <3>9, <4>2 DEF Current, shown
      <4> QED BY <1>1, <3>4, <4>1, <4>2 DEF CatchesUp
    <3> QED BY <3>8, <3>9
  <2>2. CASE ~(call.op = "Read" /\ serving)
    <3>1. out' = out
      BY <1>4, <2>2
    <3>2. SUFFICES ASSUME available, NEW p \in Parts PROVE Reread(p)' \/ Current(p)'
      BY <1>1, <1>3, <3>1 DEF CatchesUp
    <3>3. call.op # "Read"
      BY <1>1, <2>2, <3>2
    <3>4. Reread(p) => Reread(p)'
      BY <1>2, <3>1, <3>3 DEF Reread
    <3>5. Current(p) => Current(p)'
      BY <1>3, <3>1 DEF Current, MenuComes
    <3> QED BY <1>1, <3>2, <3>4, <3>5 DEF CatchesUp
  <2> QED BY <2>1, <2>2
<1>8. TypeOK'
  BY <1>1, <1>3, <1>6 DEF TypeOK
<1>9. Types'
  BY <1>1, <1>2, <1>3, <1>7, <1>8 DEF Types
<1>10. Silent'
  <2>1. at = "gone" => ~serving /\ ~available /\ handing = <<>> /\ ~waking
    BY <1>1 DEF Silent
  <2>2. at = "gone" => handing' = <<>>
    BY <1>4, <2>1
  <2> QED BY <1>3, <2>1, <2>2 DEF Silent
<1>11. IdleShowsNoClock' /\ InStep'
  BY <1>1, <1>3, InStepStays DEF IdleShowsNoClock
<1> QED BY <1>7, <1>9, <1>10, <1>11 DEF InductiveInvariant

(* What the panel makes of what it hears.                                   *)
LEMMA HeardLemma ==
  ASSUME Types, CatchesUp, available, PanelHears, NEW p \in Parts, Current(p)
  PROVE  LET heard == Head(out)
         IN  (p = "Menu" /\ heard.name = "Menu" => view["Menu"] # None)
               => view'[p] = IF Gives(heard, p) THEN Given(heard, p) ELSE view[p]
<1> DEFINE heard == Head(out)
<1>1. /\ out \in Seq(Signals) /\ out # <<>> /\ heard \in Signals
      /\ view = [part \in Parts |-> view[part]] /\ view["Menu"] \in {None, MenuOf(TRUE), MenuOf(FALSE)}
  BY BehindLemma DEF Types, PanelHears
<1>2. /\ heard.name = "Reply" =>
           view' = [part \in Parts |-> IF part \in DOMAIN heard.to THEN heard.to[part] ELSE view[part]]
      /\ heard.name = "Label" => view' = [view EXCEPT !["Label"] = heard.to]
      /\ heard.name = "Menu" =>
           view' = IF view["Menu"] = None THEN view ELSE [view EXCEPT !["Menu"]["Toggle"] = heard.to]
      /\ heard.name \notin {"Reply", "Label", "Menu"} => view' = view
  BY DEF PanelHears
<1>3. /\ heard.name \in {"Icon", "Title", "ToolTip", "Label", "Menu", "Reply"}
      /\ heard.name = "Menu" => \E r \in BOOLEAN : heard.to = MenuProperties("Toggle", r)
  BY <1>1, SignalsLemma
<1> HIDE DEF heard
<1> SUFFICES ASSUME p = "Menu" /\ heard.name = "Menu" => view["Menu"] # None
             PROVE  view'[p] = IF Gives(heard, p) THEN Given(heard, p) ELSE view[p]
  BY DEF heard
<1>4. CASE heard.name = "Reply"
  BY <1>2, <1>4 DEF Gives, Given
<1>5. CASE heard.name = "Label"
  BY <1>1, <1>2, <1>5 DEF Gives, Given, Parts
<1>6. CASE heard.name = "Menu"
  <2>1. CASE p = "Menu"
    <3>1. Gives(heard, p) /\ Given(heard, p) = MenuOf(heard.to = "Stop")
      BY <1>6, <2>1 DEF Gives, Given
    <3>2. PICK r \in BOOLEAN : heard.to = MenuProperties("Toggle", r)
      BY <1>3, <1>6
    <3>3. PICK x \in BOOLEAN : view["Menu"] = MenuOf(x)
      BY <1>1, <1>6, <2>1
    <3>4. view'["Menu"] = [view["Menu"] EXCEPT !["Toggle"] = heard.to]
      BY <1>1, <1>2, <1>6, <2>1
    <3>5. view'["Menu"] = MenuOf(r) /\ MenuOf(heard.to = "Stop") = MenuOf(r)
      BY <3>2, <3>3, <3>4, MenuLemma
    <3> QED BY <2>1, <3>1, <3>5
  <2>2. CASE p # "Menu"
    <3>1. ~Gives(heard, p)
      BY <1>6, <2>2 DEF Gives
    <3>2. view'[p] = view[p]
      BY <1>1, <1>2, <1>6, <2>2
    <3> QED BY <3>1, <3>2
  <2> QED BY <2>1, <2>2
<1>7. CASE heard.name \in {"Icon", "Title", "ToolTip"}
  <2>1. ~Gives(heard, p) /\ view' = view
    BY <1>2, <1>7 DEF Gives
  <2> QED BY <2>1
<1> QED BY <1>3, <1>4, <1>5, <1>6, <1>7

(* The panel keeps a menu it has, and its parts.                            *)
LEMMA ViewLemma ==
  ASSUME Types, PanelHears
  PROVE  /\ view' = [p \in Parts |-> view'[p]]
         /\ view'["Menu"] \in {None, MenuOf(TRUE), MenuOf(FALSE)}
         /\ view["Menu"] # None => view'["Menu"] # None
         /\ Head(out).name = "Reply" /\ "Menu" \in DOMAIN Head(out).to => view'["Menu"] # None
<1> DEFINE heard == Head(out)
<1>1. /\ out \in Seq(Signals) /\ out # <<>> /\ heard \in Signals
      /\ view = [part \in Parts |-> view[part]] /\ view["Menu"] \in {None, MenuOf(TRUE), MenuOf(FALSE)}
  BY BehindLemma DEF Types, PanelHears
<1>2. /\ heard.name = "Reply" =>
           view' = [part \in Parts |-> IF part \in DOMAIN heard.to THEN heard.to[part] ELSE view[part]]
      /\ heard.name = "Label" => view' = [view EXCEPT !["Label"] = heard.to]
      /\ heard.name = "Menu" =>
           view' = IF view["Menu"] = None THEN view ELSE [view EXCEPT !["Menu"]["Toggle"] = heard.to]
      /\ heard.name \notin {"Reply", "Label", "Menu"} => view' = view
  BY DEF PanelHears
<1>3. /\ heard.name \in {"Icon", "Title", "ToolTip", "Label", "Menu", "Reply"}
      /\ heard.name = "Menu" => \E r \in BOOLEAN : heard.to = MenuProperties("Toggle", r)
      /\ heard.name = "Reply" /\ "Menu" \in DOMAIN heard.to => \E r \in BOOLEAN : heard.to["Menu"] = MenuOf(r)
  BY <1>1, SignalsLemma
<1>4. "Menu" \in Parts /\ \A r \in BOOLEAN : MenuOf(r) # None /\ MenuOf(r) \in {MenuOf(TRUE), MenuOf(FALSE)}
  BY MenuLemma DEF Parts
<1> HIDE DEF heard
<1>5. CASE heard.name = "Reply"
  <2>1. CASE "Menu" \in DOMAIN heard.to
    <3>1. PICK r \in BOOLEAN : heard.to["Menu"] = MenuOf(r)
      BY <1>3, <1>5, <2>1
    <3>2. view'["Menu"] = MenuOf(r)
      BY <1>2, <1>4, <1>5, <2>1, <3>1
    <3>3. view' = [part \in Parts |-> view'[part]]
      BY <1>2, <1>5
    <3> QED BY <1>4, <3>2, <3>3
  <2>2. CASE "Menu" \notin DOMAIN heard.to
    <3>1. view'["Menu"] = view["Menu"]
      BY <1>2, <1>4, <1>5, <2>2
    <3>2. view' = [part \in Parts |-> view'[part]]
      BY <1>2, <1>5
    <3> QED BY <1>1, <2>2, <3>1, <3>2 DEF heard
  <2> QED BY <2>1, <2>2
<1>6. CASE heard.name = "Label"
  <2>1. view'["Menu"] = view["Menu"] /\ view' = [part \in Parts |-> view'[part]]
    BY <1>1, <1>2, <1>4, <1>6
  <2> QED BY <1>1, <1>6, <2>1 DEF heard
<1>7. CASE heard.name = "Menu" /\ view["Menu"] = None
  BY <1>1, <1>2, <1>7 DEF heard
<1>8. CASE heard.name = "Menu" /\ view["Menu"] # None
  <2>1. PICK r \in BOOLEAN : heard.to = MenuProperties("Toggle", r)
    BY <1>3, <1>8
  <2>2. PICK x \in BOOLEAN : view["Menu"] = MenuOf(x)
    BY <1>1, <1>8
  <2>3. view'["Menu"] = [view["Menu"] EXCEPT !["Toggle"] = heard.to]
    BY <1>1, <1>2, <1>4, <1>8
  <2>4. view'["Menu"] = MenuOf(r)
    BY <2>1, <2>2, <2>3, MenuLemma
  <2>5. view' = [part \in Parts |-> view'[part]]
    BY <1>1, <1>2, <1>8
  <2> QED BY <1>4, <2>4, <2>5
<1>9. CASE heard.name \in {"Icon", "Title", "ToolTip"}
  BY <1>1, <1>2, <1>9 DEF heard
<1> QED BY <1>3, <1>5, <1>6, <1>7, <1>8, <1>9

(* The panel hears a signal.                                                *)
LEMMA HearsStep == InductiveInvariant /\ PanelHears => InductiveInvariant'
<1> SUFFICES ASSUME InductiveInvariant, PanelHears PROVE InductiveInvariant'
  OBVIOUS
<1> DEFINE heard == Head(out)
           c == [op |-> "Read", parts |-> {heard.name}]
<1>1. /\ Types /\ TypeOK /\ CatchesUp /\ IdleShowsNoClock /\ InStep /\ Silent
      /\ calls \in Seq(Calls) /\ out \in Seq(Signals) /\ out # <<>> /\ out' = Tail(out)
  BY DEF InductiveInvariant, Types, PanelHears
<1>2. UNCHANGED <<at, state, window, quitting, token, taken, ticks, requests, woken, handing, waking, tasks,
                  serving, available, recording, label, detail>>
  BY DEF PanelHears, mainVars, queueVars, trayVars
<1>3. /\ heard = out[1] /\ heard \in Signals /\ out' \in Seq(Signals)
      /\ \A i \in DOMAIN out : i = 1 \/ \E j \in DOMAIN out' : out'[j] = out[i]
  BY <1>1, BehindLemma
<1>4. /\ heard.name \in {"Reply", "Label", "Menu"} => calls' = calls
      /\ heard.name \notin {"Reply", "Label", "Menu"} => calls' = Append(calls, c)
  BY DEF PanelHears
<1>5. heard.name \notin {"Reply", "Label", "Menu"} => heard.name \in {"Icon", "Title", "ToolTip"}
  BY <1>3, SignalsLemma
<1>6. heard.name \notin {"Reply", "Label", "Menu"} => c \in Calls
  BY <1>5 DEF Calls, Reads, Parts
<1>7. /\ calls' \in Seq(Calls) /\ \A i \in DOMAIN calls : i \in DOMAIN calls' /\ calls'[i] = calls[i]
      /\ heard.name \in {"Icon", "Title", "ToolTip"} => \E i \in DOMAIN calls' : calls'[i] = c
  <2>1. CASE heard.name \in {"Reply", "Label", "Menu"}
    BY <1>1, <1>4, <2>1
  <2>2. CASE heard.name \notin {"Reply", "Label", "Menu"}
    <3>1. c \in Calls /\ calls' = Append(calls, c)
      BY <1>4, <1>6, <2>2
    <3> HIDE DEF c
    <3>2. /\ calls' = calls \o <<c>> /\ <<c>> \in Seq(Calls) /\ calls' \in Seq(Calls)
          /\ \E i \in DOMAIN calls' : calls'[i] = c
      BY <1>1, <3>1, AppendLemma
    <3>3. \A i \in DOMAIN calls : i \in DOMAIN calls' /\ calls'[i] = calls[i]
      BY <1>1, <3>2, StaysLemma
    <3> QED BY <3>2, <3>3
  <2> QED BY <2>1, <2>2
<1>8. /\ view' = [p \in Parts |-> view'[p]] /\ view'["Menu"] \in {None, MenuOf(TRUE), MenuOf(FALSE)}
      /\ view["Menu"] # None => view'["Menu"] # None
      /\ heard.name = "Reply" /\ "Menu" \in DOMAIN heard.to => view'["Menu"] # None
  BY <1>1, ViewLemma
<1>9. MenuComes => MenuComes'
  <2>1. CASE view["Menu"] # None
    BY <1>8, <2>1 DEF MenuComes
  <2>2. CASE \E i \in DOMAIN out : out[i].name = "Reply" /\ "Menu" \in DOMAIN out[i].to
    <3>1. PICK i \in DOMAIN out : out[i].name = "Reply" /\ "Menu" \in DOMAIN out[i].to
      BY <2>2
    <3>2. CASE i = 1
      BY <1>3, <1>8, <3>1, <3>2 DEF MenuComes
    <3>3. CASE \E j \in DOMAIN out' : out'[j] = out[i]
      BY <3>1, <3>3 DEF MenuComes
    <3> QED BY <1>3, <3>2, <3>3
  <2> QED BY <2>1, <2>2 DEF MenuComes
<1>10. CatchesUp'
  <2>1. SUFFICES ASSUME available, NEW p \in Parts PROVE Reread(p)' \/ Current(p)'
    BY <1>2 DEF CatchesUp
  <2> DEFINE shown == Shown(recording, label, detail)[p]
  <2>2. CASE \E i \in DOMAIN calls : calls[i].op = "Read" /\ p \in calls[i].parts
    BY <1>7, <2>2 DEF Reread
  <2>3. CASE p \in {"Icon", "Title", "ToolTip"} /\ \E i \in DOMAIN out : out[i].name = p
    <3>1. PICK i \in DOMAIN out : out[i].name = p
      BY <2>3
    <3>2. CASE i = 1
      <4>1. heard.name = p
        BY <1>3, <3>1, <3>2
      <4>2. PICK k \in DOMAIN calls' : calls'[k] = c
        BY <1>7, <2>3, <4>1
      <4>3. calls'[k].op = "Read" /\ p \in calls'[k].parts
        BY <4>1, <4>2
      <4> QED BY <4>3 DEF Reread
    <3>3. CASE \E j \in DOMAIN out' : out'[j] = out[i]
      BY <2>3, <3>1, <3>3 DEF Reread
    <3> QED BY <1>3, <3>2, <3>3
  <2>4. CASE Current(p)
    <3>1. /\ Has(out, p, view[p], shown)
          /\ p = "Menu" => MenuComes /\ MenuComes'
      BY <1>9, <2>4 DEF Current
    <3> DEFINE had == IF Gives(heard, p) THEN Given(heard, p) ELSE view[p]
    <3> HIDE DEF shown
    <3>2. Has(out', p, had, shown)
      BY <1>1, <3>1, HasTailLemma
    <3>3. Has(out', p, view'[p], shown)
      <4>1. CASE ~(p = "Menu" /\ heard.name = "Menu" /\ view["Menu"] = None)
        <5>1. view'[p] = had
          BY <1>1, <2>1, <2>4, <4>1, HeardLemma
        <5> QED BY <3>2, <5>1
      <4>2. CASE p = "Menu" /\ heard.name = "Menu" /\ view["Menu"] = None
        <5>1. PICK i \in DOMAIN out : out[i].name = "Reply" /\ "Menu" \in DOMAIN out[i].to
          BY <3>1, <4>2 DEF MenuComes
        <5>2. PICK j \in DOMAIN out' : out'[j] = out[i]
          BY <1>3, <4>2, <5>1
        <5>3. Gives(out'[j], p)
          BY <4>2, <5>1, <5>2 DEF Gives
        <5> HIDE DEF had
        <5> QED BY <3>2, <5>3, GivenLemma
      <4> QED BY <4>1, <4>2
    <3> QED BY <1>2, <3>1, <3>3 DEF Current, shown
  <2> QED BY <1>1, <2>1, <2>2, <2>3, <2>4 DEF CatchesUp, Reread
<1>11. TypeOK'
  <2>1. DOMAIN view' = Parts
    BY <1>8
  <2> QED BY <1>1, <1>2, <2>1 DEF TypeOK
<1>12. Types'
  BY <1>1, <1>2, <1>3, <1>7, <1>8, <1>11 DEF Types
<1>13. IdleShowsNoClock' /\ InStep' /\ Silent'
  BY <1>1, <1>2, InStepStays DEF IdleShowsNoClock, Silent
<1> QED BY <1>10, <1>12, <1>13 DEF InductiveInvariant

-----------------------------------------------------------------------------
(* The invariant.                                                           *)

(* It holds at the start.                                                   *)
LEMMA InitLemma == Init => InductiveInvariant
<1> SUFFICES ASSUME Init PROVE InductiveInvariant
  OBVIOUS
<1>1. 0 \in Clocks /\ Idle = 0
  BY BoundsAssumption DEF Clocks, Idle
<1>2. TypeOK
  <2>1. requests \in Seq(Requests) /\ handing \in Seq(Requests)
    BY DEF Init
  <2>2. {quitting, taken, woken, waking, serving, available, recording} \subseteq BOOLEAN
    BY DEF Init
  <2>3. {label, detail} \subseteq Clocks /\ token \in Tokens \cup {None}
    BY <1>1 DEF Init
  <2>4. DOMAIN view = Parts /\ (available => serving)
    BY DEF Init
  <2> QED BY <2>1, <2>2, <2>3, <2>4, Zenon DEF Init, TypeOK
<1>3. Types
  <2>1. view = [p \in Parts |-> None] /\ view["Menu"] = None
    BY DEF Init, Parts
  <2>2. view = [p \in Parts |-> view[p]]
    BY <2>1
  <2>3. tasks \in Seq(Orders) /\ calls \in Seq(Calls) /\ out \in Seq(Signals) /\ ticks \in Clocks
    BY <1>1 DEF Init
  <2> QED BY <1>2, <2>1, <2>2, <2>3, Zenon DEF Types
<1>4. InStep
  <2>1. tasks = <<>> /\ recording = FALSE /\ (state = "Recording") = FALSE
    BY DEF Init
  <2> QED BY <2>1, PiecesLemma DEF InStep
<1> QED BY <1>3, <1>4 DEF Init, InductiveInvariant, IdleShowsNoClock, CatchesUp, Silent

(* Every step keeps it.                                                     *)
LEMMA NextLemma == InductiveInvariant /\ [Next]_vars => InductiveInvariant'
<1> SUFFICES ASSUME InductiveInvariant, [Next]_vars PROVE InductiveInvariant'
  OBVIOUS
<1>1. CASE UNCHANGED vars
  <2>1. /\ UNCHANGED <<at, state, window, quitting, token, taken, ticks, requests, woken, handing, waking, tasks>>
        /\ UNCHANGED <<serving, available, recording, label, detail, calls, out, view>>
    BY <1>1 DEF vars, mainVars, queueVars, trayVars, panelVars
  <2>2. TypeOK'
    BY <2>1 DEF InductiveInvariant, Types, TypeOK
  <2>3. Types'
    BY <2>1, <2>2 DEF InductiveInvariant, Types
  <2>4. IdleShowsNoClock' /\ Silent'
    BY <2>1 DEF InductiveInvariant, IdleShowsNoClock, Silent
  <2>5. InStep' /\ CatchesUp'
    BY <2>1, InStepStays DEF InductiveInvariant, CatchesUp, Reread, Current, MenuComes
  <2> QED BY <2>3, <2>4, <2>5 DEF InductiveInvariant
<1>2. CASE Initialize \/ CloseWindow \/ Main
  BY <1>2, InitializeStep, WaitStep, TakeStep, EndStep, TerminateStep DEF Main
<1>3. CASE Bus \/ PanelHears \/ PanelRestarts \/ UserActs \/ OnActivate
  BY <1>3, RunTaskStep, HandleCallStep, HandingStep, HearsStep, RestartStep, UserStep
     DEF Bus
<1> QED BY <1>1, <1>2, <1>3 DEF Next

(* The tray's own bookkeeping: what is posted leads what the tray says to   *)
(* what the recorder is, and what is on its way to the panel leads what the *)
(* panel shows to what the tray says.                                       *)
THEOREM InductiveInvariantHolds == Spec => []InductiveInvariant
<1>1. Init => InductiveInvariant
  BY InitLemma
<1>2. InductiveInvariant /\ [Next]_vars => InductiveInvariant'
  BY NextLemma
<1> QED BY <1>1, <1>2, PTL DEF Spec

-----------------------------------------------------------------------------
(* What follows.                                                            *)

(* A panel that has heard everything shows what the tray publishes.         *)
LEMMA PanelLemma == InductiveInvariant => PanelCatchesUp
<1> SUFFICES ASSUME InductiveInvariant, available, calls = <<>>, out = <<>>
             PROVE  view = Shown(recording, label, detail)
  BY DEF PanelCatchesUp
<1>1. CatchesUp /\ view = [p \in Parts |-> view[p]] /\ DOMAIN calls = {} /\ DOMAIN out = {}
  BY DEF InductiveInvariant, Types
<1>2. ASSUME NEW p \in Parts PROVE view[p] = Shown(recording, label, detail)[p]
  <2>1. ~Reread(p)
    BY <1>1 DEF Reread
  <2>2. Has(out, p, view[p], Shown(recording, label, detail)[p])
    BY <1>1, <2>1 DEF CatchesUp, Current
  <2> QED BY <1>1, <2>2 DEF Has
<1>3. Shown(recording, label, detail) = [p \in Parts |-> Shown(recording, label, detail)[p]]
  BY DEF Shown, Parts
<1> QED BY <1>1, <1>2, <1>3

(* A tray that has run everything posted says what the recorder is.         *)
LEMMA TrayLemma == InductiveInvariant => TrayIsRight
<1> SUFFICES ASSUME InductiveInvariant, tasks = <<>> PROVE recording = (state = "Recording")
  BY DEF TrayIsRight
<1>1. Told(tasks, recording, Len(tasks), state = "Recording") /\ Len(tasks) = 0
  BY DEF InductiveInvariant, InStep, Steady
<1>2. 1..0 = {}
  OBVIOUS
<1> QED BY <1>1, <1>2 DEF Told

(* Tray.tla's invariant: once everything posted has been run the tray says  *)
(* what the recorder is, it shows no clock without a recording, and a panel *)
(* that has heard everything shows what the tray publishes, whatever number *)
(* of recordings, restarts and clicks there were.                           *)
THEOREM TrayTellsTheStateHolds == Spec => []TrayTellsTheState
<1>1. InductiveInvariant => TrayTellsTheState
  BY PanelLemma, TrayLemma DEF InductiveInvariant, Types, TrayTellsTheState
<1> QED BY <1>1, InductiveInvariantHolds, PTL

(* Once Klip is quitting nothing is started any more, and once its tray is  *)
(* gone no request is queued and nothing is sent to the panel.              *)
THEOREM NothingComesTooLateHolds == Spec => NothingComesTooLate
<1> DEFINE Late == /\ quitting => starts' = starts
                   /\ at = "gone" => requests' = requests /\ Len(out') <= Len(out)
<1>1. InductiveInvariant /\ [Next]_vars => [Late]_vars
  <2> SUFFICES ASSUME InductiveInvariant, Next PROVE Late
    OBVIOUS
  <2>1. out \in Seq(Signals) /\ Len(out) \in Nat
    BY LenProperties DEF InductiveInvariant, Types
  <2>2. at = "gone" => ~serving /\ ~available /\ handing = <<>> /\ ~waking
    BY DEF InductiveInvariant, Silent
  <2>3. CASE Initialize \/ WaitForEvents \/ CloseWindow
    BY <2>1, <2>3 DEF Initialize, WaitForEvents, CloseWindow, queueVars, panelVars
  <2>4. CASE TakeRequest
    <3>1. ~quitting /\ at = "taking"
      BY <2>4 DEF TakeRequest
    <3> QED BY <3>1
  <2>5. CASE EndPass
    <3>1. ~quitting /\ at = "taking"
      BY <2>5 DEF EndPass
    <3> QED BY <3>1
  <2>6. CASE Terminate
    BY <2>1, <2>6 DEF Terminate
  <2>7. CASE RunTask
    <3>1. starts' = starts /\ requests' = requests
      BY <2>7 DEF RunTask, queueVars
    <3>2. at = "gone" => out' = out
      BY <2>2, <2>7 DEF RunTask, ApplyRecording, ApplyLabel, ApplyDetail, Unpublish,
         Announce
    <3> QED BY <2>1, <3>1, <3>2
  <2>8. CASE HandleCall
    <3>1. starts' = starts /\ requests' = requests
      BY <2>8 DEF HandleCall, mainVars
    <3>2. ~serving => out' = out
      BY <2>8 DEF HandleCall
    <3> QED BY <2>1, <2>2, <3>1, <3>2
  <2>9. CASE OnActivate \/ UserActs
    BY <2>1, <2>9 DEF OnActivate, UserActs, mainVars, queueVars
  <2>10. CASE Enqueue
    BY <2>1, <2>2, <2>10 DEF Enqueue, mainVars, panelVars
  <2>11. CASE Wake
    BY <2>1, <2>11 DEF Wake, mainVars, panelVars
  <2>12. CASE PanelHears
    <3>1. out # <<>> /\ out' = Tail(out) /\ starts' = starts /\ requests' = requests
      BY <2>12 DEF PanelHears, mainVars, queueVars
    <3>2. Len(out') = Len(out) - 1
      BY <2>1, <3>1, HeadTailProperties
    <3> QED BY <2>1, <3>1, <3>2
  <2>13. CASE PanelRestarts
    <3>1. out' = <<>> /\ starts' = starts /\ requests' = requests
      BY <2>13 DEF PanelRestarts, mainVars, queueVars
    <3> QED BY <2>1, <3>1
  <2> QED
    BY <2>3, <2>4, <2>5, <2>6, <2>7, <2>8, <2>9, <2>10, <2>11, <2>12, <2>13 DEF Next,
       Main, Bus
<1>2. NothingComesTooLate <=> [][Late]_vars
  BY PTL DEF NothingComesTooLate
<1> QED BY <1>1, <1>2, InductiveInvariantHolds, PTL DEF Spec
=============================================================================
