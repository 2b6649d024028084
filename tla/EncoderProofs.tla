---------------------------- MODULE EncoderProofs ----------------------------
(***************************************************************************)
(* What CEncoder's models promise: Encoder and CaptureRegion, for any       *)
(* number of recordings, frames and faults, any depth of codec, any clock, *)
(* and any region and crop; AudioMix, for any sources, sizes and times.    *)
(***************************************************************************)
EXTENDS MCEncoder, AudioMix, SequenceTheorems, FiniteSetTheorems, TLAPS

Packets == [pts : Nat, duration : Int]

(* The parts of two sequences in a row.                                     *)
LEMMA AppendedLemma ==
  ASSUME NEW S, NEW a \in Seq(S), NEW b \in Seq(S)
  PROVE  /\ a \o b \in Seq(S)
         /\ Len(a \o b) = Len(a) + Len(b)
         /\ \A i \in 1..Len(a) : (a \o b)[i] = a[i]
         /\ \A i \in 1..Len(b) : (a \o b)[Len(a) + i] = b[i]
<1>1. /\ a \o b \in Seq(S) /\ Len(a \o b) = Len(a) + Len(b)
      /\ \A i \in 1..Len(a) + Len(b) : (a \o b)[i] = IF i <= Len(a) THEN a[i] ELSE b[i - Len(a)]
  BY ConcatProperties
<1>2. Len(a) \in Nat /\ Len(b) \in Nat
  BY LenProperties
<1> DEFINE c == a \o b
<1> HIDE DEF c
<1>3. ASSUME NEW i \in 1..Len(a) PROVE c[i] = a[i]
  BY <1>1, <1>2 DEF c
<1>4. ASSUME NEW i \in 1..Len(b) PROVE c[Len(a) + i] = b[i]
  <2>1. PICK j \in Nat : j = Len(a) + i
    BY <1>2
  <2>2. j \in 1..Len(a) + Len(b) /\ ~ (j <= Len(a)) /\ j - Len(a) = i
    BY <1>2, <2>1
  <2>3. c[j] = b[j - Len(a)]
    BY <1>1, <2>2 DEF c
  <2> QED BY <2>1, <2>2, <2>3
<1> QED BY <1>1, <1>3, <1>4 DEF c

(* The pts of packets.                                                      *)
LEMMA PtsLemma ==
  ASSUME NEW f \in Seq(Packets)
  PROVE  Pts(f) \in Seq(Nat) /\ Len(Pts(f)) = Len(f) /\ \A i \in 1..Len(f) : Pts(f)[i] = f[i].pts
<1>1. Len(f) \in Nat /\ DOMAIN f = 1..Len(f)
  BY LenProperties
<1>2. \A i \in 1..Len(f) : f[i].pts \in Nat
  <2>1. \A i \in 1..Len(f) : f[i] \in Packets
    BY ElementOfSeq
  <2> QED BY <2>1 DEF Packets
<1>3. Pts(f) = [i \in 1..Len(f) |-> f[i].pts]
  BY <1>1 DEF Pts
<1> QED BY <1>1, <1>2, <1>3

(* A track: what is written, then what is held, then what the codec has.    *)
WholeTrack(f, h, c) == Pts(f) \o h \o c

(* Its length and its elements, part by part.                               *)
LEMMA TrackLemma ==
  ASSUME NEW f \in Seq(Packets), NEW h \in Seq(Nat), NEW c \in Seq(Nat)
  PROVE  /\ WholeTrack(f, h, c) \in Seq(Nat)
         /\ Len(WholeTrack(f, h, c)) = Len(f) + Len(h) + Len(c)
         /\ \A i \in 1..Len(f) : WholeTrack(f, h, c)[i] = f[i].pts
         /\ \A i \in 1..Len(h) : WholeTrack(f, h, c)[Len(f) + i] = h[i]
         /\ \A i \in 1..Len(c) : WholeTrack(f, h, c)[Len(f) + Len(h) + i] = c[i]
<1> DEFINE T == WholeTrack(f, h, c)
<1>1. Len(f) \in Nat /\ DOMAIN f = 1..Len(f) /\ Len(h) \in Nat /\ Len(c) \in Nat
  BY LenProperties
<1>2. Pts(f) \in Seq(Nat) /\ Len(Pts(f)) = Len(f) /\ \A i \in 1..Len(f) : Pts(f)[i] = f[i].pts
  BY PtsLemma
<1> DEFINE p == Pts(f)
           s == p \o h
           t == s \o c
<1> HIDE DEF p
<1>3. p \in Seq(Nat) /\ Len(p) = Len(f) /\ \A i \in 1..Len(f) : p[i] = f[i].pts
  BY <1>2 DEF p
<1>4. /\ s \in Seq(Nat) /\ Len(s) = Len(f) + Len(h)
      /\ \A i \in 1..Len(f) : s[i] = p[i]
      /\ \A i \in 1..Len(h) : s[Len(f) + i] = h[i]
  <2>1. p \in Seq(Nat)
    BY <1>3
  <2>2. /\ s \in Seq(Nat) /\ Len(s) = Len(p) + Len(h)
        /\ \A i \in 1..Len(p) : s[i] = p[i]
        /\ \A i \in 1..Len(h) : s[Len(p) + i] = h[i]
    BY <2>1, AppendedLemma
  <2> HIDE DEF s
  <2> QED BY <1>3, <2>2
<1> HIDE DEF s
<1>5. /\ t \in Seq(Nat) /\ Len(t) = Len(s) + Len(c)
      /\ \A i \in 1..Len(s) : t[i] = s[i]
      /\ \A i \in 1..Len(c) : t[Len(s) + i] = c[i]
  <2>1. s \in Seq(Nat)
    BY <1>4
  <2> QED BY <2>1, AppendedLemma
<1> HIDE DEF t
<1>6. /\ Len(t) = Len(f) + Len(h) + Len(c)
      /\ \A i \in 1..Len(f) : t[i] = f[i].pts
  BY <1>1, <1>3, <1>4, <1>5
<1>7. ASSUME NEW i \in 1..Len(h) PROVE t[Len(f) + i] = h[i]
  <2>1. Len(f) + i \in 1..Len(s)
    BY <1>1, <1>4
  <2> QED BY <1>4, <1>5, <2>1
<1>8. \A i \in 1..Len(c) : t[Len(f) + Len(h) + i] = c[i]
  BY <1>4, <1>5
<1>9. t = T
  BY DEF t, s, p, WholeTrack
<1> QED BY <1>5, <1>6, <1>7, <1>8, <1>9

(* Packets in a row.                                                        *)
LEMMA ChainLemma ==
  ASSUME NEW row \in Seq(Nat)
  PROVE  /\ Chain(row) \in Seq(Packets)
         /\ Len(Chain(row)) = IF row = <<>> THEN 0 ELSE Len(row) - 1
         /\ \A i \in 1..(Len(row) - 1) : Chain(row)[i] = [pts |-> row[i], duration |-> row[i + 1] - row[i]]
<1>1. Len(row) \in Nat /\ \A i \in 1..Len(row) : row[i] \in Nat
  BY LenProperties
<1>2. CASE row = <<>>
  <2>1. Len(row) = 0 /\ 1..(Len(row) - 1) = 1..0
    BY <1>2
  <2>2. Chain(row) = <<>>
    BY <2>1 DEF Chain
  <2> QED BY <2>1, <2>2, <1>2
<1>3. CASE row # <<>>
  <2>1. Len(row) - 1 \in Nat
    BY <1>1, <1>3, EmptySeq
  <2>2. \A i \in 1..(Len(row) - 1) : [pts |-> row[i], duration |-> row[i + 1] - row[i]] \in Packets
    BY <1>1, <2>1 DEF Packets
  <2> QED BY <1>3, <2>1, <2>2 DEF Chain
<1> QED BY <1>2, <1>3

(* The packets f, behind those written before, are the track t's, each to   *)
(* the next.                                                                *)
Chained(f, written, t) ==
  /\ Len(written) <= Len(f)
  /\ \A i \in 1..Len(f) :
       IF i <= Len(written) THEN f[i] = written[i]
       ELSE i < Len(t) /\ f[i] = [pts |-> t[i], duration |-> t[i + 1] - t[i]]

(* s is t without its k-th.                                                 *)
Without(t, k, s) ==
  /\ Len(s) = Len(t) - 1
  /\ \A i \in 1..Len(s) : s[i] = IF i < k THEN t[i] ELSE t[i + 1]

(* What waits in a row: what is held, and the first n of the queue.         *)
Row(h, q, n) == h \o SubSeq(q, 1, n)

(* f, h and q drained of n are g, held and left.                            *)
Drained(f, h, q, n, g, held, left) ==
  /\ left = SubSeq(q, n + 1, Len(q))
  /\ held = IF Row(h, q, n) = <<>> THEN <<>> ELSE <<Last(Row(h, q, n))>>
  /\ \/ g = f \o Chain(Row(h, q, n))
     \/ Len(Row(h, q, n)) > 1 /\ g = f \o Front(Chain(Row(h, q, n)))

(* What is taken out of the codec is written or held, in order, bar the one *)
(* packet whose write failed.                                               *)
Accounted(f, h, q, n, g, held, left) ==
  /\ g \in Seq(Packets) /\ held \in Seq(Nat) /\ Len(held) <= 1 /\ left \in Seq(Nat)
  /\ (f # <<>> => h # <<>>) => (g # <<>> => held # <<>>)
  /\ Chained(g, f, WholeTrack(f, h, q))
  /\ g = f \o Chain(Row(h, q, n)) => WholeTrack(g, held, left) = WholeTrack(f, h, q)
  /\ Len(Row(h, q, n)) > 1 /\ g = f \o Front(Chain(Row(h, q, n)))
       => /\ Len(g) + 1 \in 1..Len(WholeTrack(f, h, q))
          /\ Without(WholeTrack(f, h, q), Len(g) + 1, WholeTrack(g, held, left))

(* Draining moves frames along the track and loses none of them.            *)
LEMMA DrainedLemma ==
  ASSUME NEW f \in Seq(Packets), NEW h \in Seq(Nat), Len(h) <= 1, NEW q \in Seq(Nat), NEW n \in 0..Len(q),
         NEW g, NEW held, NEW left
  PROVE  Drained(f, h, q, n, g, held, left) => Accounted(f, h, q, n, g, held, left)
<1> DEFINE t == WholeTrack(f, h, q)
           taken == SubSeq(q, 1, n)
           row == Row(h, q, n)
           F == Len(f)
           H == Len(h)
           R == H + n
           Q == Len(q)
<1>A. SUFFICES ASSUME left = SubSeq(q, n + 1, Len(q)),
                      held = IF row = <<>> THEN <<>> ELSE <<Last(row)>>,
                      \/ g = f \o Chain(row)
                      \/ Len(row) > 1 /\ g = f \o Front(Chain(row))
               PROVE  /\ g \in Seq(Packets) /\ held \in Seq(Nat) /\ Len(held) <= 1 /\ left \in Seq(Nat)
                      /\ (f # <<>> => h # <<>>) => (g # <<>> => held # <<>>)
                      /\ Chained(g, f, t)
                      /\ g = f \o Chain(row) => WholeTrack(g, held, left) = t
                      /\ Len(row) > 1 /\ g = f \o Front(Chain(row))
                           => Len(g) + 1 \in 1..Len(t) /\ Without(t, Len(g) + 1, WholeTrack(g, held, left))
  BY DEF Drained, Accounted
<1>R. row = h \o taken
  BY DEF Row
<1>0. /\ F = Len(f) /\ F \in Nat /\ H = Len(h) /\ H \in Nat /\ H <= 1 /\ Q = Len(q) /\ Q \in Nat
      /\ R = H + n /\ n \in Nat /\ n <= Q
  BY LenProperties
<1>E. /\ \A i \in 1..F : f[i] \in Packets
      /\ \A i \in 1..Q : q[i] \in Nat
      /\ \A i \in 1..H : h[i] \in Nat
  BY ElementOfSeq
<1> HIDE DEF F, H, R, Q
<1>1. H \in 0..1 /\ R \in Nat
  BY <1>0
<1>2. t \in Seq(Nat) /\ Len(t) = F + H + Q
  BY <1>0, TrackLemma
<1>3. /\ \A i \in 1..F : t[i] = f[i].pts
      /\ \A i \in 1..H : t[F + i] = h[i]
      /\ \A i \in 1..Q : t[F + H + i] = q[i]
  BY <1>0, TrackLemma
<1>4. /\ taken \in Seq(Nat) /\ Len(taken) = n /\ \A i \in 1..n : taken[i] = q[i]
  <2>1. /\ taken \in Seq(Nat) /\ Len(taken) = IF 1 <= n THEN n - 1 + 1 ELSE 0
        /\ \A i \in 1..n - 1 + 1 : taken[i] = q[1 + i - 1]
    <3>1. 1 \in Int /\ n \in Int /\ \A i \in 1..n : q[i] \in Nat
      BY <1>0, <1>E
    <3> QED BY <3>1, SubSeqProperties
  <2> HIDE DEF taken
  <2>2. (IF 1 <= n THEN n - 1 + 1 ELSE 0) = n /\ n - 1 + 1 = n /\ \A i \in 1..n : 1 + i - 1 = i
    BY <1>0
  <2> QED BY <2>1, <2>2
<1> HIDE DEF taken, t
<1>5. row \in Seq(Nat) /\ Len(row) = R
  <2>1. h \o taken \in Seq(Nat) /\ Len(h \o taken) = Len(h) + Len(taken)
    BY <1>4, ConcatProperties
  <2> HIDE DEF row
  <2> QED BY <1>R, <1>0, <1>4, <2>1
<1>6. \A i \in 1..R : row[i] = t[F + i]
  <2>1. /\ \A i \in 1..H : row[i] = h[i]
        /\ \A i \in 1..n : row[H + i] = taken[i]
    BY <1>R, <1>0, <1>4, AppendedLemma
  <2> HIDE DEF row
  <2>2. ASSUME NEW i \in 1..R, i <= H PROVE row[i] = t[F + i]
    BY <1>0, <1>3, <2>1, <2>2
  <2>3. ASSUME NEW i \in 1..R, i > H PROVE row[i] = t[F + i]
    <3>1. PICK l \in 1..n : i = H + l
      <4>1. i - H \in 1..n /\ i = H + (i - H)
        BY <1>0, <2>3
      <4> QED BY <4>1
    <3>2. row[i] = q[l]
      BY <1>4, <2>1, <3>1
    <3>3. l \in 1..Q /\ F + i = F + H + l
      BY <1>0, <3>1
    <3>4. t[F + H + l] = q[l]
      BY <1>3, <3>3
    <3> QED BY <3>2, <3>3, <3>4
  <2> QED BY <1>0, <2>2, <2>3
<1> HIDE DEF row
<1>7. left \in Seq(Nat) /\ Len(left) = Q - n /\ Q - n \in Nat
  <2>1. left = SubSeq(q, n + 1, Q)
    BY <1>0, <1>A
  <2>2. \A i \in n + 1..Q : q[i] \in Nat
    BY <1>0, <1>E
  <2>3. n + 1 \in Int /\ Q \in Int
    BY <1>0
  <2>4. left \in Seq(Nat) /\ Len(left) = IF n + 1 <= Q THEN Q - (n + 1) + 1 ELSE 0
    BY <2>1, <2>2, <2>3, SubSeqProperties
  <2> QED BY <1>0, <2>4
<1>8. \A i \in 1..Q - n : left[i] = t[F + R + i]
  <2>1. left = SubSeq(q, n + 1, Q)
    BY <1>0, <1>A
  <2>2. \A i \in n + 1..Q : q[i] \in Nat
    BY <1>0, <1>E
  <2>3. n + 1 \in Int /\ Q \in Int
    BY <1>0
  <2>4. \A i \in 1..Q - (n + 1) + 1 : left[i] = q[n + 1 + i - 1]
    BY <2>1, <2>2, <2>3, SubSeqProperties
  <2> SUFFICES ASSUME NEW i \in 1..Q - n PROVE left[i] = t[F + R + i]
    OBVIOUS
  <2>5. PICK l \in 1..Q : l = n + i
    BY <1>0
  <2>6. left[i] = q[l]
    <3>1. i \in 1..Q - (n + 1) + 1 /\ n + 1 + i - 1 = l
      BY <1>0, <2>5
    <3> QED BY <2>4, <3>1
  <2>7. F + R + i = F + H + l
    BY <1>0, <2>5
  <2> QED BY <1>3, <2>6, <2>7
<1>9. R = 0 <=> row = <<>>
  BY <1>0, <1>5, EmptySeq
<1>10. /\ held \in Seq(Nat)
       /\ Len(held) = IF R = 0 THEN 0 ELSE 1
       /\ R # 0 => held[1] = t[F + R] /\ held # <<>>
  <2>1. held = IF row = <<>> THEN <<>> ELSE <<Last(row)>>
    BY <1>A DEF row
  <2>2. CASE R = 0
    BY <1>9, <2>1, <2>2, EmptySeq
  <2>3. CASE R # 0
    <3>1. R \in 1..R /\ R \in 1..Len(row)
      BY <1>0, <1>1, <1>5, <2>3
    <3>2. Last(row) = t[F + R] /\ Last(row) \in Nat
      BY <1>5, <1>6, <3>1, ElementOfSeq DEF Last
    <3>3. held = <<t[F + R]>> /\ t[F + R] \in Nat
      BY <1>9, <2>1, <2>3, <3>2
    <3> HIDE DEF F
    <3> QED BY <2>3, <3>3
  <2> QED BY <2>2, <2>3
<1> DEFINE G == Len(held)
<1>L. /\ G = Len(held) /\ G \in Nat /\ (R = 0 => G = 0) /\ (R # 0 => G = 1)
      /\ Len(left) = Q - n
  BY <1>7, <1>10
<1> HIDE DEF G
<1>N. /\ F \in Nat /\ H \in Nat /\ Q \in Nat /\ R \in Nat /\ n \in Nat /\ n <= Q /\ R = H + n
      /\ G \in Nat /\ (R = 0 => G = 0) /\ (R # 0 => G = 1)
  BY <1>0, <1>1, <1>L
<1> DEFINE c == Chain(row)
<1>11. /\ c \in Seq(Packets)
       /\ Len(c) = IF R = 0 THEN 0 ELSE R - 1
       /\ \A i \in 1..R - 1 : c[i] = [pts |-> t[F + i], duration |-> t[F + i + 1] - t[F + i]]
  <2>1. /\ c \in Seq(Packets)
        /\ Len(c) = IF row = <<>> THEN 0 ELSE Len(row) - 1
        /\ \A i \in 1..(Len(row) - 1) : c[i] = [pts |-> row[i], duration |-> row[i + 1] - row[i]]
    BY <1>5, ChainLemma
  <2> HIDE DEF c
  <2>2. \A i \in 1..R - 1 : i \in 1..R /\ i + 1 \in 1..R /\ F + (i + 1) = F + i + 1
    BY <1>0, <1>1
  <2>3. \A i \in 1..R - 1 : row[i] = t[F + i] /\ row[i + 1] = t[F + i + 1]
    BY <1>6, <2>2
  <2> QED BY <1>5, <1>9, <2>1, <2>3
<1> DEFINE T == WholeTrack(g, held, left)
<1> HIDE DEF c, T
(* Whatever part of the chain is written.                                   *)
<1>13. ASSUME NEW w \in Seq(Packets), g = f \o w, NEW W \in Nat, W = Len(w), W <= Len(c),
              \A i \in 1..W : w[i] = c[i]
       PROVE  /\ g \in Seq(Packets) /\ Len(g) = F + W
              /\ Chained(g, f, t)
              /\ T \in Seq(Nat)
              /\ Len(T) = F + W + G + (Q - n)
              /\ \A i \in 1..F + W : T[i] = t[i]
              /\ R # 0 => T[F + W + 1] = t[F + R]
              /\ \A i \in 1..Q - n : T[F + W + G + i] = t[F + R + i]
  <2>1. g \in Seq(Packets) /\ Len(g) = F + W
    BY <1>0, <1>13, ConcatProperties
  <2>2. \A i \in 1..Len(f) + Len(w) : g[i] = IF i <= Len(f) THEN f[i] ELSE w[i - Len(f)]
    BY <1>13, ConcatProperties
  <2>3. ASSUME NEW i \in 1..F + W
        PROVE  g[i] = IF i <= F THEN f[i] ELSE [pts |-> t[i], duration |-> t[i + 1] - t[i]]
    <3>1. CASE i <= F
      BY <1>0, <1>13, <2>2, <3>1
    <3>2. CASE i > F
      <4>1. i - F \in 1..W /\ i - F \in 1..R - 1 /\ F + (i - F) = i
        <5>1. W <= R - 1
          BY <1>0, <1>1, <1>11, <1>13, <3>2
        <5> QED BY <1>0, <1>1, <3>2, <5>1
      <4>2. g[i] = w[i - F]
        BY <1>0, <1>13, <2>2, <3>2
      <4>3. g[i] = c[i - F]
        BY <1>13, <4>1, <4>2
      <4>4. c[i - F] = [pts |-> t[F + (i - F)], duration |-> t[F + (i - F) + 1] - t[F + (i - F)]]
        BY <1>11, <4>1
      <4>5. ~ (i <= F)
        BY <1>0, <3>2
      <4> QED BY <4>1, <4>3, <4>4, <4>5
    <3> QED BY <1>0, <3>1, <3>2
  <2>4. Chained(g, f, t)
    <3>1. \A i \in 1..F + W : i > F => i < Len(t)
      <4> DEFINE L == Len(t)
                 C == Len(c)
      <4>1. L = F + H + Q
        BY <1>0, <1>2
      <4>2. W \in Nat /\ W <= C /\ C = IF R = 0 THEN 0 ELSE R - 1
        BY <1>11, <1>13
      <4> HIDE DEF L, C
      <4>3. \A i \in 1..F + W : i > F => i < L
        BY <1>N, <4>1, <4>2
      <4> QED BY <4>3 DEF L
    <3>2. Len(f) = F /\ F \in Nat /\ Len(f) <= Len(g)
      BY <1>0, <1>13, <2>1
    <3>3. \A i \in 1..Len(g) :
             IF i <= Len(f) THEN g[i] = f[i] ELSE i < Len(t) /\ g[i] = [pts |-> t[i], duration |-> t[i + 1] - t[i]]
      <4>1. Len(g) = F + W
        BY <2>1
      <4> SUFFICES ASSUME NEW i \in 1..F + W
                   PROVE  IF i <= F THEN g[i] = f[i]
                          ELSE i < Len(t) /\ g[i] = [pts |-> t[i], duration |-> t[i + 1] - t[i]]
        BY <4>1, <3>2
      <4>2. i <= F \/ i > F
        BY <1>N
      <4> QED BY <2>3, <3>1, <4>2
    <3> QED BY <3>2, <3>3 DEF Chained
  <2>5. ASSUME NEW i \in 1..F + W PROVE g[i].pts = t[i]
    <3>2. ASSUME i <= F PROVE t[i] = f[i].pts
      <4>1. i \in 1..F
        BY <1>N, <3>2
      <4> QED BY <1>3, <4>1
    <3>3. CASE i <= F
      BY <2>3, <3>2, <3>3
    <3>4. CASE ~ (i <= F)
      <4>1. g[i] = [pts |-> t[i], duration |-> t[i + 1] - t[i]]
        BY <2>3, <3>4
      <4> QED BY <4>1
    <3> QED BY <3>3, <3>4
  <2>6. /\ T \in Seq(Nat) /\ Len(T) = Len(g) + Len(held) + Len(left)
        /\ \A i \in 1..Len(g) : T[i] = g[i].pts
        /\ \A i \in 1..Len(held) : T[Len(g) + i] = held[i]
        /\ \A i \in 1..Len(left) : T[Len(g) + Len(held) + i] = left[i]
    <3>1. g \in Seq(Packets) /\ held \in Seq(Nat) /\ left \in Seq(Nat)
      BY <1>7, <1>10, <2>1
    <3>2. T \in Seq(Nat) /\ Len(T) = Len(g) + Len(held) + Len(left)
      BY <3>1, TrackLemma DEF T
    <3>3. \A i \in 1..Len(g) : T[i] = g[i].pts
      BY SMTT(30), <3>1, TrackLemma DEF T
    <3>4. \A i \in 1..Len(held) : T[Len(g) + i] = held[i]
      BY SMTT(30), <3>1, TrackLemma DEF T
    <3>5. \A i \in 1..Len(left) : T[Len(g) + Len(held) + i] = left[i]
      BY SMTT(30), <3>1, TrackLemma DEF T
    <3> QED BY <3>2, <3>3, <3>4, <3>5
  <2>7. Len(T) = F + W + G + (Q - n)
    BY <1>L, <2>1, <2>6
  <2>9. ASSUME NEW i \in 1..F + W PROVE T[i] = t[i]
    BY <2>1, <2>5, <2>6
  <2>10. ASSUME R # 0 PROVE T[F + W + 1] = t[F + R]
    <3>1. 1 \in 1..Len(held)
      BY <1>10, <2>10
    <3> QED BY <1>10, <2>1, <2>6, <2>10, <3>1
  <2>11. \A j \in 1..Q - n : T[F + W + G + j] = t[F + R + j]
    BY <1>L, <1>8, <2>1, <2>6
  <2> QED BY <2>1, <2>4, <2>6, <2>7, <2>9, <2>10, <2>11
<1>14. (f # <<>> => h # <<>>) => (g # <<>> => held # <<>>)
  <2>1. R = 0 => c = <<>> /\ h = <<>> /\ n = 0
    BY <1>0, <1>1, <1>11, EmptySeq
  <2>2. R = 0 => g = f \o c
    BY <1>A, <1>5, <2>1, EmptySeq DEF c, row
  <2>3. R = 0 => g = f
    BY <2>1, <2>2, ConcatEmptySeq
  <2> QED BY <1>10, <2>1, <2>3
<1>15. ASSUME g = f \o c
       PROVE  /\ g \in Seq(Packets) /\ Chained(g, f, t) /\ T = t
  <2> DEFINE W == Len(c)
  <2>1. W \in Nat /\ W <= Len(c) /\ (R # 0 => W + 1 = R) /\ (R = 0 => W = 0)
    BY <1>0, <1>1, <1>11
  <2> HIDE DEF W
  <2>2. W = Len(c)
    BY DEF W
  <2>3. /\ g \in Seq(Packets) /\ Chained(g, f, t) /\ T \in Seq(Nat)
        /\ Len(T) = F + W + G + (Q - n)
        /\ \A i \in 1..F + W : T[i] = t[i]
        /\ R # 0 => T[F + W + 1] = t[F + R]
        /\ \A i \in 1..Q - n : T[F + W + G + i] = t[F + R + i]
    BY <1>11, <1>13, <1>15, <2>1, <2>2
  <2>4. W + G = R
    BY <1>N, <2>1
  <2>5. Len(T) = Len(t)
    <3>1. Len(T) = F + W + G + (Q - n) /\ Len(t) = F + H + Q
      BY <1>2, <2>3
    <3>2. W \in Nat
      BY <2>1
    <3> QED BY <1>N, <2>4, <3>1, <3>2
  <2>N. Len(T) = F + H + Q
    BY <1>2, <2>5
  <2>6. ASSUME NEW i \in 1..Len(T) PROVE T[i] = t[i]
    <3>1. \/ i \in 1..F + W
          \/ R # 0 /\ i = F + W + 1 /\ i = F + R
          \/ i - (F + R) \in 1..Q - n /\ F + R + (i - (F + R)) = i
      BY <1>N, <2>1, <2>N
    <3>2. CASE i \in 1..F + W
      BY <2>3, <3>2
    <3>3. CASE R # 0 /\ i = F + W + 1 /\ i = F + R
      BY <2>3, <3>3
    <3>4. CASE i - (F + R) \in 1..Q - n /\ F + R + (i - (F + R)) = i
      <4>1. F + W + G + (i - (F + R)) = i
        BY <1>N, <2>1, <2>4
      <4> QED BY <2>3, <3>4, <4>1
    <3> QED BY <3>1, <3>2, <3>3, <3>4
  <2>7. T = t
    BY <1>2, <2>3, <2>5, <2>6, SeqEqual
  <2> QED BY <2>3, <2>7
<1>16. ASSUME Len(row) > 1, g = f \o Front(c)
       PROVE  /\ g \in Seq(Packets) /\ Chained(g, f, t)
              /\ Len(g) + 1 \in 1..Len(t) /\ Without(t, Len(g) + 1, T)
  <2> DEFINE w == Front(c)
             W == R - 2
  <2>1. R >= 2 /\ Len(c) = R - 1 /\ W \in Nat /\ W <= Len(c) /\ W + 2 = R
    BY SMTT(30), <1>0, <1>1, <1>5, <1>11, <1>16
  <2>2. w \in Seq(Packets) /\ W = Len(w) /\ \A i \in 1..W : w[i] = c[i]
    <3>1. \A i \in 1..W : c[i] \in Packets
      BY SMTT(30), <1>0, <1>1, <1>11, <2>1, ElementOfSeq
    <3>2. w = SubSeq(c, 1, W)
      BY <1>0, <1>1, <2>1 DEF Front
    <3>3. W \in Int /\ 1 \in Int /\ (IF 1 <= W THEN W - 1 + 1 ELSE 0) = W /\ W - 1 + 1 = W
          /\ \A i \in 1..W : 1 + i - 1 = i
      BY <2>1
    <3> HIDE DEF w, W
    <3>4. /\ w \in Seq(Packets)
          /\ Len(w) = IF 1 <= W THEN W - 1 + 1 ELSE 0
          /\ \A i \in 1..W - 1 + 1 : w[i] = c[1 + i - 1]
      BY <3>1, <3>2, <3>3, SubSeqProperties
    <3> QED BY <3>3, <3>4
  <2>3. g = f \o w
    BY <1>16
  <2> HIDE DEF w, W
  <2>4. /\ g \in Seq(Packets) /\ Len(g) = F + W
        /\ Chained(g, f, t) /\ T \in Seq(Nat)
        /\ Len(T) = F + W + G + (Q - n)
        /\ \A i \in 1..F + W : T[i] = t[i]
        /\ R # 0 => T[F + W + 1] = t[F + R]
        /\ \A i \in 1..Q - n : T[F + W + G + i] = t[F + R + i]
    BY <1>13, <2>1, <2>2, <2>3
  <2> DEFINE k == F + W + 1
  <2>5. G = 1 /\ R # 0 /\ F + R = k + 1
    <3>1. F \in Nat /\ W \in Nat /\ W + 2 = R
      BY <1>0, <2>1
    <3>2. R # 0
      BY <3>1
    <3>3. G = 1
      BY <1>L, <3>2
    <3>4. F + R = F + W + 1 + 1
      BY <3>1
    <3> QED BY <3>2, <3>3, <3>4
  <2>N. W \in Nat /\ W + 2 = R /\ k = F + W + 1
    BY <2>1
  <2> HIDE DEF k
  <2>6. Len(T) = F + H + Q - 1 /\ Len(T) = Len(t) - 1 /\ k \in 1..Len(t)
    <3>1. Len(T) = F + W + G + (Q - n) /\ Len(t) = F + H + Q
      BY <1>2, <2>4
    <3>3. F + W + G + (Q - n) = F + H + Q - 1 /\ k \in 1..F + H + Q
      BY <1>N, <2>5, <2>N
    <3> QED BY <1>N, <3>1, <3>3
  <2>7. ASSUME NEW i \in 1..Len(T) PROVE T[i] = IF i < k THEN t[i] ELSE t[i + 1]
    <3>1. CASE i < k
      <4>1. i \in 1..F + W
        BY <1>N, <2>N, <3>1
      <4> QED BY <2>4, <3>1, <4>1
    <3>2. CASE i = k
      <4>1. T[i] = t[F + R] /\ F + R = i + 1
        <5>1. T[F + W + 1] = t[F + R]
          BY <2>4, <2>5
        <5> QED BY <2>5, <2>N, <3>2, <5>1
      <4>2. ~ (i < k)
        BY <1>N, <2>N, <3>2
      <4> QED BY <4>1, <4>2
    <3>3. CASE i > k
      <4>1. /\ i - k \in 1..Q - n /\ F + W + G + (i - k) = i /\ F + R + (i - k) = i + 1 /\ ~ (i < k)
        BY <1>N, <2>5, <2>6, <2>N, <3>3
      <4> QED BY <2>4, <4>1
    <3>4. i \in Int /\ k \in Int
      BY <1>N, <2>6, <2>N
    <3> QED BY <3>1, <3>2, <3>3, <3>4
  <2>8. Without(t, k, T)
    BY <2>6, <2>7 DEF Without
  <2>9. Len(g) + 1 = k
    BY <2>4, <2>N
  <2> QED BY <2>4, <2>6, <2>8, <2>9
<1>18. Len(held) <= 1
  <2>1. R = 0 \/ R # 0
    OBVIOUS
  <2> QED BY <1>10, <2>1
<1>19. \/ g = f \o c
       \/ Len(row) > 1 /\ g = f \o Front(c)
  BY <1>A DEF c, row
<1>20. g = f \o c => T = t
  BY <1>15
<1>21. Len(row) > 1 /\ g = f \o Front(c) => Len(g) + 1 \in 1..Len(t) /\ Without(t, Len(g) + 1, T)
  BY <1>16
<1>22. Chained(g, f, t) /\ g \in Seq(Packets)
  BY <1>15, <1>16, <1>19
<1> QED BY <1>7, <1>10, <1>14, <1>18, <1>20, <1>21, <1>22 DEF t, T, c, row

(* And so for DrainPackets.                                                 *)
LEMMA DrainLemma ==
  ASSUME file \in Seq(Packets), heldPacket \in Seq(Nat), Len(heldPacket) <= 1, lost \in Nat,
         faults \in Nat, MaxFaults \in Nat,
         NEW q \in Seq(Nat), NEW n \in 0..Len(q), NEW ok \in BOOLEAN, DrainPackets(q, n, ok)
  PROVE  LET t == WholeTrack(file, heldPacket, q)
         IN  /\ file' \in Seq(Packets) /\ heldPacket' \in Seq(Nat) /\ Len(heldPacket') <= 1
             /\ codec' \in Seq(Nat) /\ faults' \in Nat
             /\ (file # <<>> => heldPacket # <<>>) => (file' # <<>> => heldPacket' # <<>>)
             /\ Chained(file', file, t)
             /\ \/ lost' = lost /\ Track' = t
                \/ lost' = lost + 1 /\ Len(file') + 1 \in 1..Len(t) /\ Without(t, Len(file') + 1, Track')
<1> DEFINE t == WholeTrack(file, heldPacket, q)
           row == Row(heldPacket, q, n)
           g == file'
           held == heldPacket'
           left == codec'
           T == WholeTrack(g, held, left)
<1>1. /\ left = SubSeq(q, n + 1, Len(q))
      /\ held = IF row = <<>> THEN <<>> ELSE <<Last(row)>>
      /\ faults' \in Nat
      /\ \/ g = file \o Chain(row) /\ lost' = lost
         \/ Len(row) > 1 /\ g = file \o Front(Chain(row)) /\ lost' = lost + 1
  <2>1. faults' \in Nat
    BY DEF DrainPackets, Fault
  <2> HIDE DEF row
  <2>2. /\ left = SubSeq(q, n + 1, Len(q))
        /\ held = IF row = <<>> THEN <<>> ELSE <<Last(row)>>
        /\ \/ g = file \o Chain(row) /\ lost' = lost
           \/ Len(row) > 1 /\ g = file \o Front(Chain(row)) /\ lost' = lost + 1
    BY Zenon DEF DrainPackets, row, Row
  <2> QED BY <2>1, <2>2
<1>2. T = Track'
  BY DEF Track, Pts, WholeTrack
<1> HIDE DEF g, held, left
<1>3. /\ g \in Seq(Packets) /\ held \in Seq(Nat) /\ Len(held) <= 1 /\ left \in Seq(Nat)
      /\ (file # <<>> => heldPacket # <<>>) => (g # <<>> => held # <<>>)
      /\ Chained(g, file, t)
      /\ g = file \o Chain(row) => T = t
      /\ Len(row) > 1 /\ g = file \o Front(Chain(row)) => Len(g) + 1 \in 1..Len(t) /\ Without(t, Len(g) + 1, T)
  <2> DEFINE h == heldPacket
             f == file
  <2>1. /\ left = SubSeq(q, n + 1, Len(q))
        /\ held = IF row = <<>> THEN <<>> ELSE <<Last(row)>>
        /\ \/ g = file \o Chain(row)
           \/ Len(row) > 1 /\ g = file \o Front(Chain(row))
    BY <1>1
  <2>2. f \in Seq(Packets) /\ h \in Seq(Nat) /\ Len(h) <= 1
    OBVIOUS
  <2>3. Drained(f, h, q, n, g, held, left)
    BY <2>1 DEF Drained
  <2> HIDE DEF f, h
  <2>4. Accounted(f, h, q, n, g, held, left)
    BY <2>2, <2>3, DrainedLemma
  <2> QED BY <2>4 DEF f, h, Accounted
<1>4. CASE g = file \o Chain(row) /\ lost' = lost
  BY <1>1, <1>2, <1>3, <1>4 DEF g, held, left
<1>5. CASE Len(row) > 1 /\ g = file \o Front(Chain(row)) /\ lost' = lost + 1
  BY <1>1, <1>2, <1>3, <1>5 DEF g, held, left
<1> QED BY <1>1, <1>4, <1>5

Memories == {"DmaBuf", "Mapped"}

-----------------------------------------------------------------------------
(* Later frames come later in a track.                                      *)
Ascending(t) == \A i, j \in 1..Len(t) : i < j => t[i] < t[j]

(* Every packet lasts exactly until the next frame of the track.            *)
Exact(f, t) == \A i \in 1..Len(f) : i < Len(t) => f[i].pts + f[i].duration = t[i + 1]

(* Every packet lasts some time, and at most until the next frame.          *)
Timely(f, t) ==
  \A i \in 1..Len(f) : f[i].duration > 0 /\ (i < Len(t) => f[i].pts + f[i].duration <= t[i + 1])

(* Packets chained to a track keep to it.                                   *)
LEMMA ChainedLemma ==
  ASSUME NEW f \in Seq(Packets), NEW g \in Seq(Packets), NEW t \in Seq(Nat), Chained(g, f, t)
  PROVE  /\ Exact(f, t) => Exact(g, t)
         /\ Timely(f, t) /\ Ascending(t) => Timely(g, t)
<1>1. /\ Len(f) \in Nat /\ Len(g) \in Nat /\ Len(t) \in Nat
      /\ \A i \in 1..Len(t) : t[i] \in Nat
  BY LenProperties, ElementOfSeq
<1>2. \A i \in 1..Len(g) :
         IF i <= Len(f) THEN g[i] = f[i] ELSE i < Len(t) /\ g[i] = [pts |-> t[i], duration |-> t[i + 1] - t[i]]
  BY DEF Chained
<1>3. ASSUME NEW i \in 1..Len(g), ~ (i <= Len(f))
      PROVE  /\ i < Len(t) /\ i \in 1..Len(t) /\ i + 1 \in 1..Len(t) /\ i < i + 1
             /\ g[i].pts = t[i] /\ g[i].duration = t[i + 1] - t[i]
             /\ t[i] \in Nat /\ t[i + 1] \in Nat
  <2>1. i < Len(t) /\ g[i] = [pts |-> t[i], duration |-> t[i + 1] - t[i]]
    BY <1>2, <1>3
  <2> DEFINE G == Len(g)
             T == Len(t)
  <2>2. G \in Nat /\ T \in Nat /\ i \in 1..G /\ i < T
    BY <1>1, <2>1
  <2> HIDE DEF G, T
  <2>3. i \in 1..T /\ i + 1 \in 1..T /\ i < i + 1
    BY <2>2
  <2>4. t[i] \in Nat /\ t[i + 1] \in Nat
    BY <1>1, <2>3 DEF T
  <2> QED BY <2>1, <2>3, <2>4 DEF T
<1>4. ASSUME NEW i \in 1..Len(g), i <= Len(f) PROVE i \in 1..Len(f) /\ g[i] = f[i]
  <2> DEFINE F == Len(f)
  <2>1. F \in Nat /\ i <= F
    BY <1>1, <1>4
  <2>2. g[i] = f[i]
    BY <1>2, <1>4
  <2> HIDE DEF F
  <2>3. i \in 1..F
    BY <2>1
  <2> QED BY <2>2, <2>3 DEF F
<1>5. ASSUME Exact(f, t), NEW i \in 1..Len(g), i < Len(t) PROVE g[i].pts + g[i].duration = t[i + 1]
  <2>1. CASE i <= Len(f)
    BY <1>4, <1>5, <2>1 DEF Exact
  <2>2. CASE ~ (i <= Len(f))
    <3> DEFINE a == t[i]
               b == t[i + 1]
    <3>1. a \in Nat /\ b \in Nat /\ g[i].pts = a /\ g[i].duration = b - a
      BY <1>3, <2>2
    <3> HIDE DEF a, b
    <3>2. a + (b - a) = b
      BY <3>1
    <3> QED BY <3>1, <3>2 DEF b
  <2> QED BY <2>1, <2>2
<1>6. ASSUME Timely(f, t), Ascending(t), NEW i \in 1..Len(g)
      PROVE  g[i].duration > 0 /\ (i < Len(t) => g[i].pts + g[i].duration <= t[i + 1])
  <2>1. CASE i <= Len(f)
    BY <1>4, <1>6, <2>1 DEF Timely
  <2>2. CASE ~ (i <= Len(f))
    <3>1. t[i] < t[i + 1]
      BY <1>3, <1>6, <2>2 DEF Ascending
    <3> QED BY SMTT(30), <1>3, <2>2, <3>1
  <2> QED BY <2>1, <2>2
<1> QED BY <1>5, <1>6 DEF Exact, Timely

(* Nor are they out of order where the frame behind the last one was lost.  *)
LEMMA WithoutLemma ==
  ASSUME NEW g, NEW t, NEW s
  PROVE  /\ g \in Seq(Packets) /\ t \in Seq(Nat) /\ s \in Seq(Nat) /\ Len(g) + 1 \in 1..Len(t)
         /\ Without(t, Len(g) + 1, s)
         => /\ \A i \in 1..Len(s) : \E j \in 1..Len(t) : s[i] = t[j]
            /\ Ascending(t) => Ascending(s)
            /\ Ascending(t) /\ Timely(g, t) => Timely(g, s)
<1>0. SUFFICES ASSUME g \in Seq(Packets), t \in Seq(Nat), s \in Seq(Nat), Len(g) + 1 \in 1..Len(t),
                      Without(t, Len(g) + 1, s)
               PROVE  /\ \A i \in 1..Len(s) : \E j \in 1..Len(t) : s[i] = t[j]
                      /\ Ascending(t) => Ascending(s)
                      /\ Ascending(t) /\ Timely(g, t) => Timely(g, s)
  OBVIOUS
<1> DEFINE At(i) == IF i < Len(g) + 1 THEN i ELSE i + 1
<1>1. /\ Len(g) \in Nat /\ Len(t) \in Nat /\ Len(s) \in Nat
      /\ \A i \in 1..Len(t) : t[i] \in Nat
      /\ \A i \in 1..Len(g) : g[i].pts \in Nat /\ g[i].duration \in Int
  <2>1. \A i \in 1..Len(g) : g[i] \in Packets
    BY <1>0, ElementOfSeq
  <2>2. \A i \in 1..Len(g) : g[i].pts \in Nat /\ g[i].duration \in Int
    BY <2>1 DEF Packets
  <2> QED BY <1>0, <2>2, LenProperties, ElementOfSeq
<1>2. Len(s) = Len(t) - 1 /\ \A i \in 1..Len(s) : At(i) \in 1..Len(t) /\ s[i] = t[At(i)] /\ i <= At(i)
  <2>1. Len(s) = Len(t) - 1 /\ \A i \in 1..Len(s) : s[i] = IF i < Len(g) + 1 THEN t[i] ELSE t[i + 1]
    BY <1>0 DEF Without
  <2>2. \A i \in 1..Len(s) : At(i) \in 1..Len(t) /\ i <= At(i)
    BY <1>0, <1>1, <2>1
  <2> QED BY <2>1, <2>2
<1>3. \A i, j \in 1..Len(s) : i < j => At(i) < At(j)
  BY <1>1
<1> HIDE DEF At
<1>4. \A i \in 1..Len(s) : \E j \in 1..Len(t) : s[i] = t[j]
  BY <1>2
<1>5. Ascending(t) => Ascending(s)
  BY <1>1, <1>2, <1>3 DEF Ascending
<1>6. ASSUME Ascending(t), Timely(g, t), NEW i \in 1..Len(g)
      PROVE  g[i].duration > 0 /\ (i < Len(s) => g[i].pts + g[i].duration <= s[i + 1])
  <2>1. g[i].duration > 0
    BY <1>6 DEF Timely
  <2>2. ASSUME i < Len(s) PROVE g[i].pts + g[i].duration <= s[i + 1]
    <3>1. i + 1 \in 1..Len(s) /\ i + 1 \in 1..Len(t) /\ i < Len(t)
      <4> DEFINE S == Len(s)
                 T == Len(t)
      <4>1. S = T - 1 /\ T \in Nat /\ i \in Nat /\ i >= 1 /\ i < S
        BY <1>1, <1>2, <2>2
      <4> HIDE DEF S, T
      <4>2. i + 1 \in 1..S /\ i + 1 \in 1..T /\ i < T
        BY <4>1
      <4> QED BY <4>2 DEF S, T
    <3>2. g[i].pts + g[i].duration <= t[i + 1]
      BY <1>6, <3>1 DEF Timely
    <3>3. PICK a \in 1..Len(t) : a = At(i + 1) /\ s[i + 1] = t[a] /\ i + 1 <= a
      BY <1>2, <3>1
    <3>4. t[i + 1] <= t[a]
      <4>1. i + 1 = a \/ i + 1 < a
        BY <3>3, <1>1
      <4>2. i + 1 < a => t[i + 1] < t[a]
        BY <1>6, <3>1 DEF Ascending
      <4> QED BY <1>1, <3>1, <4>1, <4>2
    <3>5. t[i + 1] \in Nat /\ t[a] \in Nat /\ g[i].pts \in Nat /\ g[i].duration \in Int
      BY <1>1, <3>1
    <3>6. g[i].pts + g[i].duration <= t[a]
      BY SMTT(30), <3>2, <3>4, <3>5
    <3> QED BY <3>3, <3>6
  <2> QED BY <2>1, <2>2
<1> QED BY <1>4, <1>5, <1>6 DEF Timely

-----------------------------------------------------------------------------
(* Arithmetic.                                                              *)
LEMMA ModLemma ==
  ASSUME NEW x \in Int, NEW m \in Nat \ {0}
  PROVE  x % m \in 0..(m - 1) /\ (x >= 0 => x % m <= x)
OBVIOUS

(* What the quotient by a tick can be.                                      *)
LEMMA DivLemma ==
  ASSUME NEW x \in Nat, NEW u \in Nat \ {0}
  PROVE  x \div u \in Nat /\ (x \div u) * u <= x /\ x \div u <= x
BY Z3

(* Where a frame's timestamp lies: no frame behind the one before it, and   *)
(* ahead of its stamp only by being moved there.                            *)
LEMMA TimestampLemma ==
  ASSUME nextPts \in Nat, numFramesEncoded \in Nat, first \in Nat, NEW time \in Nat
  PROVE  /\ Timestamp(time) \in Nat
         /\ numFramesEncoded > 0 => Timestamp(time) > nextPts - Nominal
         /\ \/ Timestamp(time) = nextPts
            \/ /\ time # 0 /\ Timestamp(time) < 2^ClockBits
               /\ first <= time => Timestamp(time) * Unit <= time - first
<1> DEFINE m == 2^ClockBits
           x == time - first
           p == (x % m) \div Unit
<1>1. m \in Nat \ {0} /\ Unit \in Nat \ {0} /\ Nominal \in Nat \ {0} /\ x \in Int
  BY ClockAssumption
<1> HIDE DEF m, x
<1>2. x % m \in Nat /\ x % m < m /\ (x >= 0 => x % m <= x)
  BY <1>1, ModLemma
<1>3. p \in Nat /\ p * Unit <= x % m /\ p <= x % m
  BY <1>1, <1>2, DivLemma
<1>4. Timestamp(time) = LET pts == IF time = 0 THEN nextPts ELSE p
                        IN  IF numFramesEncoded > 0 /\ pts <= nextPts - Nominal THEN nextPts ELSE pts
  BY DEF Timestamp, m, x
<1> HIDE DEF p
<1>5. p < m /\ (x >= 0 => p * Unit <= x) /\ p * Unit \in Nat
  BY <1>1, <1>2, <1>3
<1>6. first <= time => x >= 0
  BY DEF x
<1>7. CASE Timestamp(time) = nextPts
  BY <1>1, <1>7
<1>8. CASE Timestamp(time) # nextPts
  <2>1. time # 0 /\ Timestamp(time) = p /\ (numFramesEncoded > 0 => ~ (p <= nextPts - Nominal))
    BY <1>4, <1>8
  <2> QED BY <1>1, <1>3, <1>5, <1>6, <2>1 DEF m, x
<1> QED BY <1>7, <1>8

-----------------------------------------------------------------------------
(* What the codec holds, what is held and what is written.                  *)
TrackTypes ==
  /\ file \in Seq(Packets) /\ heldPacket \in Seq(Nat) /\ Len(heldPacket) <= 1 /\ codec \in Seq(Nat)
  /\ nextPts \in Nat /\ numFramesEncoded \in Nat /\ sent \in Nat /\ lost \in Nat /\ faults \in Nat
  /\ uncounted \in BOOLEAN

(* The track is in order as far as it goes.                                 *)
TrackInOrder ==
  /\ ~uncounted => Ascending(Track) /\ Timely(file, Track)
  /\ lost = 0 => Exact(file, Track)

(* While frames come in, every frame is there, and the next will be behind. *)
TrackGoesOn ==
  /\ Len(Track) = sent - lost
  /\ file # <<>> => heldPacket # <<>>
  /\ ~uncounted /\ Track # <<>> => numFramesEncoded > 0
  /\ ~uncounted => \A i \in 1..Len(Track) : Track[i] + Nominal <= nextPts

(* No frame of the track is ahead by more than e and k frames, and the next *)
(* is not by more than one.                                                 *)
InTime(e, k) ==
  /\ nextPts <= 2^ClockBits + Nominal * k
  /\ firstStamped => nextPts * Unit <= e + Nominal * Unit * k
  /\ firstStamped => \A i \in 1..Len(Track) : Track[i] * Unit <= e + Nominal * Unit * (k - 1)

(* The track is a sequence of timestamps.                                   *)
LEMMA TrackIsASequence ==
  ASSUME TrackTypes
  PROVE  /\ Track \in Seq(Nat) /\ Len(Track) \in Nat
         /\ Len(Track) = Len(file) + Len(heldPacket) + Len(codec)
         /\ \A i \in 1..Len(Track) : Track[i] \in Nat
<1>1. Track \in Seq(Nat) /\ Len(Track) = Len(file) + Len(heldPacket) + Len(codec)
  BY TrackLemma DEF TrackTypes, Track, WholeTrack
<1> QED BY <1>1, LenProperties, ElementOfSeq

(* And so after a step.                                                     *)
LEMMA TrackIsASequencePrimed ==
  ASSUME TrackTypes'
  PROVE  /\ Track' \in Seq(Nat) /\ Len(Track') \in Nat
         /\ Len(Track') = Len(file') + Len(heldPacket') + Len(codec')
         /\ \A i \in 1..Len(Track') : Track'[i] \in Nat
<1>1. Track' = WholeTrack(file', heldPacket', codec')
  BY DEF Track, Pts, WholeTrack
<1>2. Track' \in Seq(Nat) /\ Len(Track') = Len(file') + Len(heldPacket') + Len(codec')
  BY <1>1, TrackLemma DEF TrackTypes
<1> QED BY <1>2, LenProperties, ElementOfSeq

(* A frame sent to the codec goes behind the track.                         *)
LEMMA AppendedTrack ==
  ASSUME TrackTypes, NEW pts \in Nat
  PROVE  /\ WholeTrack(file, heldPacket, Append(codec, pts)) = Append(Track, pts)
         /\ Append(codec, pts) \in Seq(Nat)
<1> DEFINE s == Pts(file) \o heldPacket
<1>1. s \in Seq(Nat) /\ codec \in Seq(Nat) /\ <<pts>> \in Seq(Nat)
  <2>1. Pts(file) \in Seq(Nat)
    BY PtsLemma DEF TrackTypes
  <2> QED BY <2>1, ConcatProperties DEF TrackTypes
<1>2. Append(codec, pts) = codec \o <<pts>> /\ Append(codec, pts) \in Seq(Nat)
  BY <1>1, AppendIsConcat, AppendProperties
<1>3. Track = s \o codec /\ s \o codec \in Seq(Nat)
  BY <1>1, ConcatProperties DEF Track
<1> HIDE DEF s
<1>4. (s \o codec) \o <<pts>> = s \o (codec \o <<pts>>)
  BY SMTT(30), <1>1, ConcatAssociative
<1>5. Append(s \o codec, pts) = (s \o codec) \o <<pts>>
  BY <1>3, AppendIsConcat
<1>6. s \o Append(codec, pts) = Append(Track, pts)
  BY <1>2, <1>3, <1>4, <1>5
<1> QED BY <1>2, <1>6 DEF s, WholeTrack

(* The codec takes a frame or refuses it: the track stays whole, in order   *)
(* and in time.                                                             *)
LEMMA SendLemma ==
  ASSUME TrackTypes, TrackInOrder, TrackGoesOn, MaxFaults \in Nat, first \in Nat, firstStamped \in BOOLEAN,
         NEW time \in Nat, SendToEncoder(time), NEW k \in Nat, NEW e \in Int,
         InTime(e, k), firstStamped /\ time # 0 => first <= time /\ time - first <= e, firstStamped => e >= 0
  PROVE  /\ TrackTypes' /\ TrackInOrder' /\ TrackGoesOn'
         /\ nextPts' <= 2^ClockBits + Nominal * (k + 1)
         /\ firstStamped => nextPts' * Unit <= e + Nominal * Unit * (k + 1)
         /\ firstStamped => \A i \in 1..Len(Track') : Track'[i] * Unit <= e + Nominal * Unit * k
<1> DEFINE ts == Timestamp(time)
           m == 2^ClockBits
           q == Append(codec, ts)
           t == Append(Track, ts)
<1>0. nextPts' = ts + Nominal
  BY DEF SendToEncoder
<1>1. m \in Nat \ {0} /\ Unit \in Nat \ {0} /\ Nominal \in Nat \ {0}
  BY ClockAssumption
<1>2. /\ ts \in Nat
      /\ numFramesEncoded > 0 => ts > nextPts - Nominal
      /\ \/ ts = nextPts
         \/ /\ time # 0 /\ ts < m
            /\ first <= time => ts * Unit <= time - first
  BY TimestampLemma DEF TrackTypes
<1>3. nextPts \in Nat /\ numFramesEncoded \in Nat
  BY DEF TrackTypes
<1>4. Track \in Seq(Nat) /\ Len(Track) \in Nat /\ \A i \in 1..Len(Track) : Track[i] \in Nat
  BY TrackIsASequence
<1> HIDE DEF ts, m
<1>5. ts <= m + Nominal * k /\ (firstStamped => ts * Unit <= e + Nominal * Unit * k)
  <2>1. Nominal * k \in Nat /\ Nominal * Unit * k \in Nat
    BY <1>1
  <2>2. nextPts <= m + Nominal * k /\ (firstStamped => nextPts * Unit <= e + Nominal * Unit * k)
    BY DEF InTime, m
  <2>3. CASE ts = nextPts
    BY <2>2, <2>3
  <2>4. CASE time # 0 /\ ts < m /\ (first <= time => ts * Unit <= time - first)
    <3>1. ts <= m + Nominal * k
      BY <1>1, <1>2, <2>1, <2>4
    <3>2. firstStamped => ts * Unit <= e
      <4>1. ts * Unit \in Nat /\ time - first \in Int
        BY <1>1, <1>2
      <4> QED BY <2>4, <4>1
    <3>3. ts * Unit \in Nat
      BY <1>1, <1>2
    <3> QED BY <2>1, <3>1, <3>2, <3>3
  <2> QED BY <1>2, <2>3, <2>4
<1>6. /\ nextPts' <= m + Nominal * (k + 1)
      /\ firstStamped => nextPts' * Unit <= e + Nominal * Unit * (k + 1)
  <2>1. Nominal * (k + 1) = Nominal * k + Nominal /\ Nominal * Unit * (k + 1) = Nominal * Unit * k + Nominal * Unit
    BY <1>1
  <2>2. (ts + Nominal) * Unit = ts * Unit + Nominal * Unit
    BY <1>1, <1>2
  <2>3. Nominal * k \in Nat /\ Nominal * Unit * k \in Nat /\ Nominal * Unit \in Nat /\ ts * Unit \in Nat
    BY <1>1, <1>2
  <2> QED BY <1>0, <1>1, <1>2, <1>5, <2>1, <2>2, <2>3
<1>7. firstStamped => \A i \in 1..Len(Track) : Track[i] * Unit <= e + Nominal * Unit * k
  <2>1. Nominal * Unit * k \in Nat /\ Nominal * Unit * (k - 1) \in Int /\ Nominal * Unit * (k - 1) <= Nominal * Unit * k
    BY <1>1
  <2>2. \A i \in 1..Len(Track) : Track[i] * Unit \in Nat
    BY SMTT(30), <1>1, <1>4
  <2>3. firstStamped => \A i \in 1..Len(Track) : Track[i] * Unit <= e + Nominal * Unit * (k - 1)
    BY DEF InTime
  <2> QED BY <2>1, <2>2, <2>3
<1>8. CASE UNCHANGED <<numFramesEncoded, heldPacket, codec, file, sent, lost, uncounted>> /\ Fault
  <2>1. Track' = Track
    BY <1>8 DEF Track, Pts
  <2>2. TrackTypes'
    BY <1>0, <1>1, <1>2, <1>8 DEF TrackTypes, Fault
  <2>3. TrackInOrder'
    BY <1>8, <2>1 DEF TrackInOrder, Exact, Timely, Ascending
  <2>4. TrackGoesOn'
    <3>1. ~uncounted => \A i \in 1..Len(Track) : Track[i] + Nominal <= nextPts'
      <4>1. SUFFICES ASSUME ~uncounted, NEW i \in 1..Len(Track) PROVE Track[i] + Nominal <= nextPts'
        OBVIOUS
      <4>2. Track # <<>>
        BY <1>4, EmptySeq
      <4>3. numFramesEncoded > 0 /\ Track[i] + Nominal <= nextPts
        BY <4>1, <4>2 DEF TrackGoesOn
      <4> QED BY SMTT(30), <1>0, <1>1, <1>2, <1>3, <1>4, <4>3
    <3> QED BY <1>8, <2>1, <3>1 DEF TrackGoesOn
  <2>5. firstStamped => \A i \in 1..Len(Track') : Track'[i] * Unit <= e + Nominal * Unit * k
    BY <1>7, <2>1
  <2> QED BY <1>6, <2>2, <2>3, <2>4, <2>5 DEF m
<1>9. ASSUME NEW n \in 0..Len(q), NEW drained \in BOOLEAN, sent' = sent + 1, DrainPackets(q, n, drained),
             numFramesEncoded' = IF drained THEN numFramesEncoded + 1 ELSE numFramesEncoded,
             uncounted' = (uncounted \/ (~drained /\ numFramesEncoded = 0))
      PROVE  /\ TrackTypes' /\ TrackInOrder' /\ TrackGoesOn'
             /\ firstStamped => \A i \in 1..Len(Track') : Track'[i] * Unit <= e + Nominal * Unit * k
  <2>1. q \in Seq(Nat) /\ WholeTrack(file, heldPacket, q) = t
    BY <1>2, AppendedTrack
  <2>2. /\ t \in Seq(Nat) /\ Len(t) = Len(Track) + 1 /\ t[Len(Track) + 1] = ts
        /\ \A i \in 1..Len(Track) : t[i] = Track[i]
    BY <1>2, <1>4, AppendProperties
  <2> HIDE DEF q, t
  <2>3. /\ file' \in Seq(Packets) /\ heldPacket' \in Seq(Nat) /\ Len(heldPacket') <= 1
        /\ codec' \in Seq(Nat) /\ faults' \in Nat
        /\ (file # <<>> => heldPacket # <<>>) => (file' # <<>> => heldPacket' # <<>>)
        /\ Chained(file', file, t)
        /\ \/ lost' = lost /\ Track' = t
           \/ lost' = lost + 1 /\ Len(file') + 1 \in 1..Len(t) /\ Without(t, Len(file') + 1, Track')
    BY <1>9, <2>1, DrainLemma DEF TrackTypes
  <2>4. TrackTypes'
    BY SMTT(30), <1>0, <1>1, <1>2, <1>9, <2>3 DEF TrackTypes
  <2>5. Track' \in Seq(Nat) /\ Len(Track') \in Nat /\ \A i \in 1..Len(Track') : Track'[i] \in Nat
    BY <2>4, TrackIsASequencePrimed
  <2>6. uncounted' \in BOOLEAN /\ (~uncounted' => ~uncounted /\ (numFramesEncoded > 0 \/ numFramesEncoded' > 0))
    <3>1. uncounted' \in BOOLEAN
      BY <2>4 DEF TrackTypes
    <3>2. ~uncounted' => ~uncounted /\ (drained \/ numFramesEncoded # 0)
      BY <1>9
    <3>3. drained => numFramesEncoded' > 0
      BY <1>3, <1>9
    <3>4. numFramesEncoded # 0 => numFramesEncoded > 0
      BY <1>3
    <3> QED BY <3>1, <3>2, <3>3, <3>4
  <2>7. ~uncounted => \A i \in 1..Len(Track) : Track[i] < ts
    <3>1. SUFFICES ASSUME ~uncounted, NEW i \in 1..Len(Track) PROVE Track[i] < ts
      OBVIOUS
    <3>2. Track # <<>>
      BY <1>4, EmptySeq
    <3>3. numFramesEncoded > 0 /\ Track[i] + Nominal <= nextPts
      BY <3>1, <3>2 DEF TrackGoesOn
    <3> QED BY SMTT(30), <1>1, <1>2, <1>3, <1>4, <3>3
  <2>8. ~uncounted => Ascending(t)
    <3>1. SUFFICES ASSUME ~uncounted, NEW i \in 1..Len(t), NEW j \in 1..Len(t), i < j PROVE t[i] < t[j]
      BY DEF Ascending
    <3>2. i \in 1..Len(Track)
      BY <1>4, <2>2, <3>1
    <3>3. CASE j \in 1..Len(Track)
      BY <2>2, <3>1, <3>2, <3>3 DEF TrackInOrder, Ascending
    <3>4. CASE j = Len(Track) + 1
      BY <2>2, <2>7, <3>1, <3>2, <3>4
    <3> QED BY <1>4, <2>2, <3>3, <3>4
  <2>9. (~uncounted => Timely(file, t)) /\ (lost = 0 => Exact(file, t))
    <3>1. Len(file) \in Nat /\ (Len(file) # 0 => Len(file) < Len(Track))
      <4>1. file # <<>> => Len(heldPacket) >= 1
        BY EmptySeq, LenProperties DEF TrackGoesOn, TrackTypes
      <4>2. Len(file) \in Nat /\ Len(heldPacket) \in Nat /\ Len(codec) \in Nat /\ (Len(file) # 0 => file # <<>>)
        BY EmptySeq, LenProperties DEF TrackTypes
      <4> QED BY <4>1, <4>2, TrackIsASequence
    <3>2. \A i \in 1..Len(file) : i < Len(Track) /\ i + 1 \in 1..Len(Track)
      BY <1>4, <3>1
    <3>3. \A i \in 1..Len(file) : t[i + 1] = Track[i + 1]
      BY <2>2, <3>2
    <3>4. ~uncounted => Timely(file, t)
      BY <3>2, <3>3 DEF TrackInOrder, Timely
    <3>5. lost = 0 => Exact(file, t)
      BY <3>2, <3>3 DEF TrackInOrder, Exact
    <3> QED BY <3>4, <3>5
  <2>10. /\ file \in Seq(Packets) /\ file' \in Seq(Packets) /\ t \in Seq(Nat) /\ Track' \in Seq(Nat)
         /\ Chained(file', file, t)
    BY <2>2, <2>3, <2>5 DEF TrackTypes
  <2> DEFINE g == file'
             s == Track'
             T == t
  <2>c. /\ ~uncounted' => Timely(g, T)
        /\ lost = 0 => Exact(g, T)
    <3>1. g \in Seq(Packets) /\ T \in Seq(Nat) /\ Chained(g, file, T)
      BY <2>10
    <3> HIDE DEF g, T
    <3>2. /\ Exact(file, T) => Exact(g, T)
          /\ Timely(file, T) /\ Ascending(T) => Timely(g, T)
      BY <2>10, <3>1, ChainedLemma
    <3> QED BY <2>6, <2>8, <2>9, <3>2 DEF T
  <2>11. /\ ~uncounted' => Ascending(s) /\ Timely(g, s)
         /\ lost' = 0 => Exact(g, s)
         /\ \A i \in 1..Len(s) : \E j \in 1..Len(t) : s[i] = t[j]
    <3>1. g \in Seq(Packets) /\ T \in Seq(Nat) /\ s \in Seq(Nat)
      BY <2>10
    <3>2. lost \in Nat
      BY DEF TrackTypes
    <3>3. \/ lost' = lost /\ s = T
          \/ lost' = lost + 1 /\ Len(g) + 1 \in 1..Len(T) /\ Without(T, Len(g) + 1, s)
      BY <2>3
    <3>4. ~uncounted' => Ascending(T)
      BY <2>6, <2>8
    <3> HIDE DEF g, s, T
    <3>5. CASE lost' = lost /\ s = T
      BY <2>c, <3>4, <3>5 DEF T
    <3>6. CASE lost' = lost + 1 /\ Len(g) + 1 \in 1..Len(T) /\ Without(T, Len(g) + 1, s)
      <4>1. lost' # 0
        BY <3>2, <3>6
      <4>2. /\ \A i \in 1..Len(s) : \E j \in 1..Len(T) : s[i] = T[j]
            /\ Ascending(T) => Ascending(s)
            /\ Ascending(T) /\ Timely(g, T) => Timely(g, s)
        BY <3>1, <3>6, WithoutLemma
      <4> QED BY <2>c, <3>4, <4>1, <4>2 DEF T
    <3> QED BY <3>3, <3>5, <3>6
  <2> HIDE DEF T
  <2>12. TrackInOrder'
    BY <2>11 DEF TrackInOrder, Ascending, Timely, Exact
  <2>13. Len(Track') = sent' - lost'
    <3>1. Len(Track) = sent - lost /\ sent \in Nat /\ lost \in Nat
      BY DEF TrackGoesOn, TrackTypes
    <3>2. \/ lost' = lost /\ Len(Track') = Len(t)
          \/ lost' = lost + 1 /\ Len(Track') = Len(t) - 1
      BY <2>3 DEF Without
    <3>3. Len(t) = Len(Track) + 1 /\ sent' = sent + 1
      BY <1>9, <2>2
    <3> QED BY SMTT(30), <3>1, <3>2, <3>3
  <2>14. \A i \in 1..Len(t) : ~uncounted => t[i] <= ts
    <3>1. SUFFICES ASSUME NEW i \in 1..Len(t), ~uncounted PROVE t[i] <= ts
      OBVIOUS
    <3>2. i \in 1..Len(Track) \/ i = Len(Track) + 1
      BY <1>4, <2>2
    <3>3. CASE i \in 1..Len(Track)
      <4>1. t[i] = Track[i] /\ Track[i] < ts /\ Track[i] \in Nat
        BY <1>4, <2>2, <2>7, <3>1, <3>3
      <4> QED BY <1>2, <4>1
    <3>4. CASE i = Len(Track) + 1
      BY <1>2, <2>2, <3>4
    <3> QED BY <3>2, <3>3, <3>4
  <2>15. TrackGoesOn'
    <3>1. ~uncounted' => \A i \in 1..Len(Track') : Track'[i] + Nominal <= nextPts'
      <4>1. SUFFICES ASSUME ~uncounted', NEW i \in 1..Len(Track') PROVE Track'[i] + Nominal <= nextPts'
        OBVIOUS
      <4>2. Track'[i] <= ts
        <5>1. PICK j \in 1..Len(t) : Track'[i] = t[j]
          BY <2>11
        <5> QED BY <2>6, <2>14, <4>1, <5>1
      <4> QED BY SMTT(30), <1>0, <1>1, <1>2, <2>5, <4>2
    <3>2. ~uncounted' => numFramesEncoded' > 0
      BY <1>3, <1>9, <2>6
    <3>3. file' # <<>> => heldPacket' # <<>>
      BY <2>3 DEF TrackGoesOn
    <3> QED BY <2>13, <3>1, <3>2, <3>3 DEF TrackGoesOn
  <2>16. firstStamped => \A i \in 1..Len(t) : t[i] * Unit <= e + Nominal * Unit * k
    <3>1. SUFFICES ASSUME firstStamped, NEW i \in 1..Len(t) PROVE t[i] * Unit <= e + Nominal * Unit * k
      OBVIOUS
    <3>2. i \in 1..Len(Track) \/ i = Len(Track) + 1
      BY <1>4, <2>2
    <3>3. CASE i \in 1..Len(Track)
      BY <1>7, <2>2, <3>1, <3>3
    <3>4. CASE i = Len(Track) + 1
      BY <1>5, <2>2, <3>1, <3>4
    <3> QED BY <3>2, <3>3, <3>4
  <2>17. firstStamped => \A i \in 1..Len(Track') : Track'[i] * Unit <= e + Nominal * Unit * k
    BY <2>11, <2>16
  <2> QED BY <2>4, <2>12, <2>15, <2>17
<1>10. \/ UNCHANGED <<numFramesEncoded, heldPacket, codec, file, sent, lost, uncounted>> /\ Fault
       \/ \E n \in 0..Len(q), drained \in BOOLEAN :
             /\ sent' = sent + 1 /\ DrainPackets(q, n, drained)
             /\ numFramesEncoded' = IF drained THEN numFramesEncoded + 1 ELSE numFramesEncoded
             /\ uncounted' = (uncounted \/ (~drained /\ numFramesEncoded = 0))
  BY DEF SendToEncoder, ts
<1> QED BY <1>6, <1>8, <1>9, <1>10 DEF m

-----------------------------------------------------------------------------
(* The inductive invariant.                                                 *)

(* The steps of Initialize that each memory has.                            *)
Opening ==
  IF memory = "DmaBuf"
  THEN {"packets", "device", "drmDevice", "graph", "container", "codec", "sound", "stream", "soundStream", "output"}
  ELSE {"packets", "staging", "device", "pool", "container", "codec", "sound", "stream", "soundStream", "output"}

EncoderTypes ==
  /\ memory \in Memories
  /\ at \in Opening \cup {"closed", "running", "converted", "finished"}
  /\ owned \subseteq Resources
  /\ {headerWritten, trailer, reading, syncFailed, firstStamped} \subseteq BOOLEAN
  /\ first \in Nat /\ stamp \in Nat /\ lastStamp \in Nat /\ arrival \in Nat /\ now \in Nat
  /\ frames \in 0..MaxFrames /\ recordings \in Nat
  /\ at # "closed" => MaxFrames > 0

(* What is owned by the time each step is reached.                          *)
Opened ==
  /\ headerWritten <=> at \in {"running", "converted", "finished"}
  /\ at \in {"drmDevice", "graph", "pool"} => "device" \in owned
  /\ at \in {"container", "codec", "sound", "stream", "soundStream", "output", "running", "converted"}
       => "surfaces" \in owned
  /\ at \in {"codec", "sound", "stream", "soundStream", "output"} => "format" \in owned
  /\ at \in {"sound", "stream", "soundStream", "output", "running", "converted"} => "codec" \in owned
  /\ at \in {"soundStream", "output"} => "videoStream" \in owned
  /\ at \in {"running", "converted"} => "pb" \in owned
  /\ at = "converted" => memory = "DmaBuf" /\ frames > 0

(* Nothing of a track before there is one.                                  *)
Fresh ==
  /\ at \in Opening \cup {"closed"} =>
       /\ nextPts = 0 /\ numFramesEncoded = 0 /\ frames = 0
       /\ heldPacket = <<>> /\ codec = <<>>
  /\ at \in Opening => file = <<>> /\ sent = 0 /\ lost = 0 /\ ~trailer /\ ~uncounted
  /\ at = "closed" => owned = {} /\ first = 0

(* The clocks.                                                              *)
Clocks ==
  /\ now >= ClockAhead + MaxLatency
  /\ stamp <= now - ClockAhead
  /\ arrival <= now
  /\ at # "closed" /\ firstStamped => first <= now - ClockAhead /\ (stamp # 0 => first <= stamp)

(* The frames submitted so far: of the converted one only the buffer is.    *)
Submitted == IF at = "converted" THEN frames - 1 ELSE frames

Going == at \in Opening \cup {"running", "converted"}

(* While frames come in, and once they do not.                              *)
WhileItGoes ==
  Going => TrackGoesOn /\ InTime(now - ClockAhead - first, Submitted) /\ ~trailer

WhenStopped ==
  /\ trailer => heldPacket = <<>> /\ codec = <<>> /\ Len(file) = sent - lost
  /\ at = "finished" /\ firstStamped => \A i \in 1..Len(Track) : KeepsTime(Track[i])

InductiveInvariant ==
  /\ EncoderTypes
  /\ TrackTypes
  /\ Opened
  /\ OpenedInOrder
  /\ NotHandedBackWhileRead
  /\ Fresh
  /\ Clocks
  /\ TrackInOrder
  /\ WhileItGoes
  /\ WhenStopped
  /\ LastsUntilTheStop

-----------------------------------------------------------------------------
(* A track that goes on with one more of its packets written, or one lost.  *)
Kept(f, t, g, s) ==
  /\ \A i \in 1..Len(s) : \E j \in 1..Len(t) : s[i] = t[j]
  /\ Ascending(t) => Ascending(s)
  /\ Timely(f, t) /\ Ascending(t) => Timely(g, s)

(* Chaining packets, or losing the one behind, keeps a track as it was.     *)
LEMMA KeptLemma ==
  ASSUME NEW f \in Seq(Packets), NEW g \in Seq(Packets), NEW t \in Seq(Nat), NEW s \in Seq(Nat), Chained(g, f, t),
         s = t \/ (Len(g) + 1 \in 1..Len(t) /\ Without(t, Len(g) + 1, s))
  PROVE  Kept(f, t, g, s) /\ (s = t /\ Exact(f, t) => Exact(g, s))
<1>1. (Exact(f, t) => Exact(g, t)) /\ (Timely(f, t) /\ Ascending(t) => Timely(g, t))
  BY ChainedLemma
<1>2. CASE s = t
  BY <1>1, <1>2 DEF Kept
<1>3. CASE s # t
  <2>1. Len(g) + 1 \in 1..Len(t) /\ Without(t, Len(g) + 1, s)
    BY <1>3
  <2>2. /\ \A i \in 1..Len(s) : \E j \in 1..Len(t) : s[i] = t[j]
        /\ Ascending(t) => Ascending(s)
        /\ Ascending(t) /\ Timely(g, t) => Timely(g, s)
    BY <2>1, WithoutLemma
  <2> QED BY <1>1, <1>3, <2>2 DEF Kept
<1> QED BY <1>2, <1>3

(* What is held and what the codec has, all of it.                          *)
LEMMA RowLemma ==
  ASSUME TrackTypes, NEW row, row = heldPacket \o codec, row # <<>>, NEW g, g = file \o Chain(row)
  PROVE  /\ g \in Seq(Packets) /\ Last(row) \in Nat
         /\ Chained(g, file, Track)
         /\ Len(Track) = Len(g) + 1
         /\ \A i \in 1..Len(g) : Track[i] = g[i].pts
         /\ Track[Len(g) + 1] = Last(row)
<1> DEFINE h == heldPacket
           q == codec
           f == file
           n == Len(codec)
           held == <<Last(row)>>
           none == <<>>
<1>1. f \in Seq(Packets) /\ h \in Seq(Nat) /\ Len(h) <= 1 /\ q \in Seq(Nat) /\ n = Len(q) /\ n \in Nat
  BY LenProperties DEF TrackTypes
<1>2. Row(h, q, n) = row
  BY <1>1, SubSeqFull DEF Row
<1>3. SubSeq(q, n + 1, Len(q)) = <<>>
  BY <1>1, SubSeqEmpty
<1>4. Track = WholeTrack(f, h, q)
  BY DEF Track, WholeTrack
<1>5. row \in Seq(Nat)
  BY <1>1, ConcatProperties
<1> HIDE DEF h, q, f, n, held, none
<1>6. Drained(f, h, q, n, g, held, none)
  BY <1>2, <1>3 DEF Drained, f, held, none
<1>7. n \in 0..Len(q)
  BY <1>1
<1>8. Accounted(f, h, q, n, g, held, none)
  BY <1>1, <1>6, <1>7, DrainedLemma
<1>9. g \in Seq(Packets) /\ Chained(g, f, Track) /\ WholeTrack(g, held, none) = Track
  BY <1>2, <1>4, <1>8 DEF Accounted, f
<1>10. Last(row) \in Nat
  <2>1. Len(row) \in 1..Len(row)
    BY <1>5, EmptySeq, LenProperties
  <2> QED BY <1>5, <2>1, ElementOfSeq DEF Last
<1>11. /\ held \in Seq(Nat) /\ Len(held) = 1 /\ held[1] = Last(row)
       /\ none \in Seq(Nat) /\ Len(none) = 0
  <2>1. none \in Seq(Nat) /\ Len(none) = 0
    BY DEF none
  <2> DEFINE x == Last(row)
  <2>2. x \in Nat /\ held = <<x>>
    BY <1>10 DEF held
  <2> HIDE DEF x
  <2>3. held \in Seq(Nat) /\ Len(held) = 1 /\ held[1] = x
    BY <2>2
  <2> QED BY <2>1, <2>3 DEF x
<1>12. Len(g) \in Nat
  BY <1>9, LenProperties
<1>a. g \in Seq(Packets) /\ held \in Seq(Nat) /\ none \in Seq(Nat)
  BY <1>9, <1>11
<1>b. /\ WholeTrack(g, held, none) \in Seq(Nat)
      /\ Len(WholeTrack(g, held, none)) = Len(g) + Len(held) + Len(none)
      /\ \A i \in 1..Len(g) : WholeTrack(g, held, none)[i] = g[i].pts
      /\ \A i \in 1..Len(held) : WholeTrack(g, held, none)[Len(g) + i] = held[i]
      /\ \A i \in 1..Len(none) : WholeTrack(g, held, none)[Len(g) + Len(held) + i] = none[i]
  BY <1>a, TrackLemma, Zenon
<1>13. Len(Track) = Len(g) + 1
  BY <1>9, <1>11, <1>12, <1>b
<1>14. \A i \in 1..Len(g) : Track[i] = g[i].pts
  BY <1>9, <1>b, Zenon
<1>15. \A i \in 1..Len(held) : Track[Len(g) + i] = held[i]
  BY <1>9, <1>b, Zenon
<1>16. Track[Len(g) + 1] = Last(row)
  BY <1>11, <1>15
<1> QED BY <1>9, <1>10, <1>13, <1>14, <1>16 DEF f

(* The last packet behind the others.                                       *)
LEMMA LastPacketLemma ==
  ASSUME NEW g \in Seq(Packets), NEW p \in Packets, NEW t \in Seq(Nat), Len(t) = Len(g) + 1,
         \A i \in 1..Len(g) : t[i] = g[i].pts,
         t[Len(g) + 1] = p.pts
  PROVE  /\ Append(g, p) \in Seq(Packets) /\ Len(Append(g, p)) = Len(t) /\ Last(Append(g, p)) = p
         /\ WholeTrack(Append(g, p), <<>>, <<>>) = t
         /\ Exact(g, t) => Exact(Append(g, p), t)
         /\ p.duration > 0 /\ Timely(g, t) => Timely(Append(g, p), t)
<1> DEFINE a == Append(g, p)
<1>1. /\ a \in Seq(Packets) /\ Len(a) = Len(g) + 1 /\ Len(g) \in Nat
      /\ \A i \in 1..Len(g) : a[i] = g[i]
      /\ a[Len(g) + 1] = p
  BY AppendProperties, LenProperties
<1> HIDE DEF a
<1>2. \A i \in 1..Len(a) : i \in 1..Len(g) \/ i = Len(g) + 1
  BY <1>1
<1>3. \A i \in 1..Len(a) : a[i].pts = t[i]
  BY <1>1, <1>2
<1> DEFINE T == WholeTrack(a, <<>>, <<>>)
<1>4. /\ T \in Seq(Nat) /\ Len(T) = Len(a)
      /\ \A i \in 1..Len(a) : T[i] = a[i].pts
  <2> DEFINE e == <<>>
  <2>1. e \in Seq(Nat) /\ Len(e) = 0
    OBVIOUS
  <2> HIDE DEF e
  <2>a. a \in Seq(Packets) /\ e \in Seq(Nat)
    BY <1>1, <2>1
  <2>b. WholeTrack(a, e, e) \in Seq(Nat)
    BY <2>a, TrackLemma
  <2>c. Len(WholeTrack(a, e, e)) = Len(a) + Len(e) + Len(e)
    BY <2>a, TrackLemma
  <2>d. \A i \in 1..Len(a) : WholeTrack(a, e, e)[i] = a[i].pts
    BY <2>a, TrackLemma
  <2>2. /\ WholeTrack(a, e, e) \in Seq(Nat)
        /\ Len(WholeTrack(a, e, e)) = Len(a) + Len(e) + Len(e)
        /\ \A i \in 1..Len(a) : WholeTrack(a, e, e)[i] = a[i].pts
    BY <2>b, <2>c, <2>d
  <2> QED BY <1>1, <2>1, <2>2 DEF e
<1> HIDE DEF T
<1>5. T = t
  <2>1. Len(T) = Len(t)
    BY <1>1, <1>4
  <2>2. \A i \in 1..Len(T) : T[i] = t[i]
    BY <1>3, <1>4
  <2> QED BY <1>4, <2>1, <2>2, SeqEqual
<1>6. Last(a) = p
  BY <1>1 DEF Last
<1>7. Exact(g, t) => Exact(a, t)
  <2>1. ASSUME Exact(g, t), NEW i \in 1..Len(a), i < Len(t) PROVE a[i].pts + a[i].duration = t[i + 1]
    <3>1. i \in 1..Len(g)
      BY <1>1, <2>1
    <3> QED BY <1>1, <2>1, <3>1 DEF Exact
  <2> QED BY <2>1 DEF Exact
<1>8. p.duration > 0 /\ Timely(g, t) => Timely(a, t)
  <2>1. ASSUME p.duration > 0, Timely(g, t), NEW i \in 1..Len(a)
        PROVE  a[i].duration > 0 /\ (i < Len(t) => a[i].pts + a[i].duration <= t[i + 1])
    <3>1. CASE i \in 1..Len(g)
      BY <1>1, <2>1, <3>1 DEF Timely
    <3>2. CASE i = Len(g) + 1
      BY <1>1, <2>1, <3>2
    <3> QED BY <1>2, <3>1, <3>2
  <2> QED BY <2>1 DEF Timely
<1>9. Len(a) = Len(t)
  BY <1>1
<1> QED BY <1>1, <1>5, <1>6, <1>7, <1>8, <1>9 DEF a, T

(* What comes before the zero point has no positive tick.                   *)
LEMMA DivIntLemma ==
  ASSUME NEW x \in Int, NEW u \in Nat \ {0}
  PROVE  x \div u \in Int /\ (x <= 0 => x \div u <= 0)
BY Z3

(* The last frame lasts some time, and until the end where one is known.    *)
LEMMA LastDurationLemma ==
  ASSUME first \in Nat, NEW pts \in Nat, NEW end \in Int
  PROVE  /\ LastDuration(pts, end) \in Nat \ {0}
         /\ end # 0 => pts + LastDuration(pts, end) >= (end - first) \div Unit
<1> DEFINE x == end - first
           d == x \div Unit
<1>1. Unit \in Nat \ {0} /\ Nominal \in Nat \ {0} /\ x \in Int
  BY ClockAssumption
<1> HIDE DEF x
<1>2. d \in Int /\ (x <= 0 => d <= 0)
  BY <1>1, DivIntLemma
<1> HIDE DEF d
<1>3. LastDuration(pts, end) = IF end # 0 /\ end > first /\ d > pts THEN d - pts ELSE Nominal
  BY DEF LastDuration, d, x
<1>4. ~ (end > first) => x <= 0
  BY DEF x
<1>5. CASE end # 0 /\ end > first /\ d > pts
  <2>1. LastDuration(pts, end) = d - pts
    BY <1>3, <1>5
  <2>2. d - pts \in Nat \ {0} /\ pts + (d - pts) >= d
    BY <1>2, <1>5
  <2> QED BY <2>1, <2>2 DEF d, x
<1>6. CASE ~ (end # 0 /\ end > first /\ d > pts)
  <2>1. LastDuration(pts, end) = Nominal
    BY <1>3, <1>6
  <2>2. end # 0 => pts + Nominal >= d
    BY <1>1, <1>2, <1>4, <1>6
  <2> QED BY <1>1, <2>1, <2>2 DEF d, x
<1> QED BY <1>5, <1>6

(* A stamp is later the longer after it.                                    *)
LEMMA LaterLemma ==
  ASSUME NEW a \in Nat, NEW b \in Nat, NEW c \in Nat, c >= b
  PROVE  a # 0 => a + (c - b) # 0
OBVIOUS

(* The last duration, on top of the others.                                 *)
LEMMA RegroupLemma ==
  ASSUME NEW a \in Nat, NEW b \in Nat, NEW c \in Nat, NEW d \in Nat
  PROVE  (a + (c - b)) - d = a + ((c - b) - d)
OBVIOUS

(* Stop leaves the track as it is, or without the packet whose write failed;*)
(* a file that is complete has all of it.                                   *)
LEMMA FinishLemma ==
  ASSUME TrackTypes, TrackInOrder, TrackGoesOn, first \in Nat, lastStamp \in Nat, arrival \in Nat, now \in Nat,
         arrival <= now, Finish
  PROVE  /\ TrackTypes' /\ TrackInOrder'
         /\ \A i \in 1..Len(Track') : \E j \in 1..Len(Track) : Track'[i] = Track[j]
         /\ trailer' => heldPacket' = <<>> /\ codec' = <<>> /\ Len(file') = sent' - lost'
         /\ LastsUntilTheStop'
<1> DEFINE row == heldPacket \o codec
           end == EndTimestamp
           L == Last(row)
           last == [pts |-> L, duration |-> LastDuration(L, end)]
           g == file \o Chain(row)
<1>1. /\ MaxGap \in Nat /\ MaxFaults \in Nat
  BY BoundsAssumption
<1>2. now' \in Nat /\ now' >= arrival /\ end \in Int
  <2>1. now' \in Nat /\ now' >= arrival
    BY <1>1 DEF Finish
  <2> QED BY <2>1 DEF EndTimestamp
<1>3. UNCHANGED <<first, firstStamped, nextPts, numFramesEncoded, sent, uncounted, lastStamp, arrival>>
  BY DEF Finish, openVars
<1>4. /\ file \in Seq(Packets) /\ heldPacket \in Seq(Nat) /\ Len(heldPacket) <= 1 /\ codec \in Seq(Nat)
      /\ lost \in Nat /\ faults \in Nat /\ sent \in Nat
  BY DEF TrackTypes
<1>5. row \in Seq(Nat) /\ Len(row) = Len(heldPacket) + Len(codec)
  BY <1>4, ConcatProperties
<1>6. Track \in Seq(Nat) /\ Len(Track) = Len(file) + Len(heldPacket) + Len(codec) /\ Len(Track) = sent - lost
  BY TrackIsASequence DEF TrackGoesOn
<1>7. (faults' \in Nat) /\ (trailer' => faults' = faults)
  <2>1. faults' \in Nat
    <3>1. ASSUME NEW n \in 0..Len(codec), DrainPackets(codec, n, FALSE) PROVE faults' \in Nat
      BY <1>4, <3>1 DEF DrainPackets, Fault
    <3>2. faults' = faults \/ Fault \/ \E n \in 0..Len(codec) : DrainPackets(codec, n, FALSE)
      BY DEF Finish
    <3>3. Fault => faults' \in Nat
      BY <1>4 DEF Fault
    <3> QED BY <1>4, <3>1, <3>2, <3>3
  <2>2. trailer' => faults' = faults
    BY DEF Finish
  <2> QED BY <2>1, <2>2
<1> HIDE DEF row
(* Nothing was left to write.                                               *)
<1>8. CASE row = <<>> /\ UNCHANGED <<heldPacket, codec, file, lost>>
  <2>1. Len(heldPacket) = 0 /\ Len(codec) = 0
    <3>1. Len(row) = 0
      BY <1>8
    <3>2. Len(heldPacket) \in Nat /\ Len(codec) \in Nat /\ Len(heldPacket) + Len(codec) = 0
      BY <1>4, <1>5, <3>1, LenProperties
    <3> QED BY <3>2
  <2>2. heldPacket = <<>> /\ codec = <<>> /\ file = <<>>
    BY <1>4, <2>1, EmptySeq DEF TrackGoesOn
  <2>3. Track' = Track /\ Len(file) = sent - lost
    <3>1. Track' = Track
      BY <1>8 DEF Track, Pts
    <3>2. Len(file) = Len(Track)
      BY <1>4, <1>6, <2>1, LenProperties
    <3> QED BY <1>6, <3>1, <3>2
  <2>4. TrackTypes'
    BY <1>3, <1>7, <1>8 DEF TrackTypes
  <2>5. TrackInOrder'
    BY <1>3, <1>8, <2>3 DEF TrackInOrder, Exact, Timely, Ascending
  <2>6. LastsUntilTheStop'
    BY <1>8, <2>2 DEF LastsUntilTheStop
  <2> QED BY <1>3, <1>8, <2>2, <2>3, <2>4, <2>5, <2>6
(* The rest is written, the last packet until the end.                      *)
<1>9. CASE row # <<>> /\ file' = Append(g, last) /\ heldPacket' = <<>> /\ codec' = <<>> /\ UNCHANGED lost
  <2>1. /\ g \in Seq(Packets) /\ L \in Nat
        /\ Chained(g, file, Track)
        /\ Len(Track) = Len(g) + 1
        /\ \A i \in 1..Len(g) : Track[i] = g[i].pts
        /\ Track[Len(g) + 1] = L
    BY <1>9, RowLemma DEF row
  <2>2. LastDuration(L, end) \in Nat \ {0} /\ (end # 0 => L + LastDuration(L, end) >= (end - first) \div Unit)
    BY <1>2, <2>1, LastDurationLemma
  <2> HIDE DEF g, L, end
  <2>3. last \in Packets /\ last.pts = L /\ last.duration > 0
    BY <2>1, <2>2 DEF Packets
  <2> HIDE DEF last
  <2>4. (Exact(file, Track) => Exact(g, Track)) /\ (Timely(file, Track) /\ Ascending(Track) => Timely(g, Track))
    BY <1>4, <1>6, <2>1, ChainedLemma
  <2> DEFINE a == Append(g, last)
  <2>5. /\ a \in Seq(Packets) /\ Len(a) = Len(Track) /\ Last(a) = last
        /\ WholeTrack(a, <<>>, <<>>) = Track
        /\ Exact(g, Track) => Exact(a, Track)
        /\ last.duration > 0 /\ Timely(g, Track) => Timely(a, Track)
    BY <1>6, <2>1, <2>3, LastPacketLemma
  <2> HIDE DEF a
  <2>6. file' = a
    BY <1>9 DEF a
  <2>7. Track' = Track
    <3>1. Track' = WholeTrack(file', heldPacket', codec')
      BY DEF Track, Pts, WholeTrack
    <3> QED BY <1>9, <2>5, <2>6, <3>1
  <2>8. TrackTypes'
    BY <1>3, <1>7, <1>9, <2>5, <2>6 DEF TrackTypes
  <2>9. TrackInOrder'
    <3>1. ~uncounted => Ascending(Track) /\ Timely(a, Track)
      BY <2>3, <2>4, <2>5 DEF TrackInOrder
    <3>2. lost = 0 => Exact(a, Track)
      BY <2>4, <2>5 DEF TrackInOrder
    <3> QED BY <1>3, <1>9, <2>6, <2>7, <3>1, <3>2 DEF TrackInOrder, Exact, Timely, Ascending
  <2>10. LastsUntilTheStop'
    <3>1. lastStamp # 0 => end # 0 /\ end = lastStamp + (now' - arrival)
      <4>1. ASSUME lastStamp # 0 PROVE end = lastStamp + (now' - arrival)
        BY <4>1 DEF end, EndTimestamp
      <4>2. lastStamp # 0 => lastStamp + (now' - arrival) # 0
        <5>1. lastStamp \in Nat /\ now' \in Nat /\ arrival \in Nat /\ now' >= arrival
          BY <1>2
        <5> QED BY <5>1, LaterLemma
      <4> QED BY <4>1, <4>2
    <3>2. Last(file') = last
      BY <2>5, <2>6
    <3>3. last.pts = L /\ last.duration = LastDuration(L, end)
      BY DEF last
    <3>4. lastStamp # 0 => last.pts + last.duration >= (lastStamp + (now' - arrival) - first) \div Unit
      <4>1. lastStamp # 0 => L + LastDuration(L, end) >= (end - first) \div Unit
        BY <2>2, <3>1
      <4>2. last.pts + last.duration = L + LastDuration(L, end)
        BY <3>3
      <4>3. lastStamp # 0 => (end - first) \div Unit = (lastStamp + (now' - arrival) - first) \div Unit
        <5> DEFINE late == lastStamp + (now' - arrival)
        <5>1. lastStamp # 0 => end = late
          BY <3>1
        <5> HIDE DEF late
        <5>2. lastStamp # 0 => (end - first) \div Unit = (late - first) \div Unit
          BY <5>1
        <5>3. late - first = lastStamp + (now' - arrival) - first
          BY <1>2, RegroupLemma DEF late
        <5> QED BY <5>2, <5>3
      <4> QED BY <4>1, <4>2, <4>3, Zenon
    <3>5. lastStamp' = lastStamp /\ arrival' = arrival /\ first' = first
      BY <1>3
    <3> QED BY <3>2, <3>4, <3>5 DEF LastsUntilTheStop
  <2>11. Len(file') = sent' - lost'
    BY <1>3, <1>6, <1>9, <2>5, <2>6
  <2> QED BY <1>9, <2>7, <2>8, <2>9, <2>10, <2>11
(* The last packet is lost.                                                 *)
<1>10. CASE row # <<>> /\ file' = g /\ heldPacket' = <<>> /\ codec' = <<>> /\ lost' = lost + 1 /\ trailer' = FALSE
  <2>1. /\ g \in Seq(Packets)
        /\ Chained(g, file, Track)
        /\ Len(Track) = Len(g) + 1
        /\ \A i \in 1..Len(g) : Track[i] = g[i].pts
    BY <1>10, RowLemma DEF row
  <2> HIDE DEF g
  <2>2. TrackTypes'
    BY <1>3, <1>7, <1>10, <2>1 DEF TrackTypes
  <2> DEFINE s == Track'
  <2>3. /\ s \in Seq(Nat) /\ Len(s) = Len(g)
        /\ \A i \in 1..Len(s) : s[i] = g[i].pts
    <3> DEFINE e == <<>>
    <3>1. e \in Seq(Nat) /\ Len(e) = 0 /\ g \in Seq(Packets)
      BY <2>1
    <3>2. s = WholeTrack(g, e, e)
      BY <1>10 DEF Track, Pts, WholeTrack
    <3> HIDE DEF e
    <3>3. WholeTrack(g, e, e) \in Seq(Nat)
      BY <3>1, TrackLemma
    <3>4. Len(WholeTrack(g, e, e)) = Len(g) + Len(e) + Len(e)
      BY <3>1, TrackLemma
    <3>5. \A i \in 1..Len(g) : WholeTrack(g, e, e)[i] = g[i].pts
      BY <3>1, TrackLemma
    <3>6. Len(g) \in Nat
      BY <3>1, LenProperties
    <3> HIDE DEF s
    <3> QED BY <3>1, <3>2, <3>3, <3>4, <3>5, <3>6
  <2> HIDE DEF s
  <2>4. Without(Track, Len(g) + 1, s) /\ Len(g) + 1 \in 1..Len(Track)
    <3>1. Len(g) \in Nat
      BY <2>1, LenProperties
    <3> QED BY <2>1, <2>3, <3>1 DEF Without
  <2>5. Kept(file, Track, g, s)
    BY <1>4, <1>6, <2>1, <2>3, <2>4, KeptLemma
  <2>6. TrackInOrder'
    <3>1. ~uncounted => Ascending(s) /\ Timely(g, s)
      BY <2>5 DEF Kept, TrackInOrder
    <3>2. lost' # 0
      BY <1>4, <1>10
    <3>3. uncounted' = uncounted /\ file' = g
      BY <1>3, <1>10
    <3> QED BY <3>1, <3>2, <3>3 DEF TrackInOrder, Ascending, Timely, s
  <2>7. LastsUntilTheStop'
    BY <1>10 DEF LastsUntilTheStop
  <2> QED BY <1>10, <2>2, <2>5, <2>6, <2>7 DEF Kept, s
(* Emptying the codec failed.                                               *)
<1>11. ASSUME NEW n \in 0..Len(codec), DrainPackets(codec, n, FALSE), trailer' = FALSE
       PROVE  /\ TrackTypes' /\ TrackInOrder'
              /\ \A i \in 1..Len(Track') : \E j \in 1..Len(Track) : Track'[i] = Track[j]
              /\ LastsUntilTheStop'
  <2>1. /\ file' \in Seq(Packets) /\ heldPacket' \in Seq(Nat) /\ Len(heldPacket') <= 1 /\ codec' \in Seq(Nat)
        /\ Chained(file', file, Track)
        /\ \/ lost' = lost /\ Track' = Track
           \/ lost' = lost + 1 /\ Len(file') + 1 \in 1..Len(Track) /\ Without(Track, Len(file') + 1, Track')
    <3>1. Track = WholeTrack(file, heldPacket, codec)
      BY DEF Track, WholeTrack
    <3> QED BY <1>1, <1>4, <1>11, <3>1, DrainLemma
  <2>2. TrackTypes'
    BY <1>3, <1>4, <1>7, <2>1 DEF TrackTypes
  <2>3. Track' \in Seq(Nat)
    BY <2>2, TrackIsASequencePrimed
  <2> DEFINE s == Track'
             k == file'
  <2>4. Kept(file, Track, k, s) /\ (s = Track /\ Exact(file, Track) => Exact(k, s))
    <3>1. k \in Seq(Packets) /\ s \in Seq(Nat) /\ Chained(k, file, Track)
      BY <2>1, <2>3
    <3>2. s = Track \/ (Len(k) + 1 \in 1..Len(Track) /\ Without(Track, Len(k) + 1, s))
      BY <2>1
    <3> HIDE DEF s, k
    <3> QED BY <1>4, <1>6, <3>1, <3>2, KeptLemma
  <2>5. lost' = 0 => lost = 0 /\ s = Track
    BY <1>4, <2>1
  <2>6. /\ ~uncounted' => Ascending(s) /\ Timely(k, s)
        /\ lost' = 0 => Exact(k, s)
    <3> HIDE DEF s, k
    <3>1. ~uncounted' => Ascending(s) /\ Timely(k, s)
      BY <1>3, <2>4 DEF Kept, TrackInOrder
    <3>2. lost' = 0 => Exact(k, s)
      BY <2>4, <2>5 DEF TrackInOrder
    <3> QED BY <3>1, <3>2
  <2>7. TrackInOrder'
    BY <2>6 DEF TrackInOrder, Ascending, Timely, Exact
  <2>8. LastsUntilTheStop'
    BY <1>11 DEF LastsUntilTheStop
  <2> QED BY <2>2, <2>4, <2>7, <2>8 DEF Kept
<1>12. \/ row = <<>> /\ UNCHANGED <<heldPacket, codec, file, lost>>
       \/ row # <<>> /\ file' = Append(g, last) /\ heldPacket' = <<>> /\ codec' = <<>> /\ UNCHANGED lost
       \/ row # <<>> /\ file' = g /\ heldPacket' = <<>> /\ codec' = <<>> /\ lost' = lost + 1 /\ trailer' = FALSE
       \/ trailer' = FALSE /\ \E n \in 0..Len(codec) : DrainPackets(codec, n, FALSE)
  BY Zenon DEF Finish, row
<1> QED BY <1>8, <1>9, <1>10, <1>11, <1>12

(* Steps, one at a time.                                                    *)
LEMMA StepsLemma ==
  ASSUME NEW m
  PROVE  /\ DOMAIN Steps(m) = 1..10 /\ Len(Steps(m)) = 10
         /\ Steps(m)[1] = "packets"
         /\ Steps(m)[2] = IF m = "DmaBuf" THEN "device" ELSE "staging"
         /\ Steps(m)[3] = IF m = "DmaBuf" THEN "drmDevice" ELSE "device"
         /\ Steps(m)[4] = IF m = "DmaBuf" THEN "graph" ELSE "pool"
         /\ Steps(m)[5] = "container" /\ Steps(m)[6] = "codec" /\ Steps(m)[7] = "sound"
         /\ Steps(m)[8] = "stream" /\ Steps(m)[9] = "soundStream" /\ Steps(m)[10] = "output"
<1> DEFINE Names == {"packets", "staging", "device", "drmDevice", "graph", "pool", "container", "codec", "sound",
                     "stream", "soundStream", "output"}
           s == IF m = "DmaBuf" THEN <<"packets", "device", "drmDevice", "graph">>
                                ELSE <<"packets", "staging", "device", "pool">>
           t == <<"container", "codec", "sound", "stream", "soundStream", "output">>
<1>1. s \in Seq(Names) /\ Len(s) = 4 /\ t \in Seq(Names) /\ Len(t) = 6
  <2>1. t \in Seq(Names) /\ Len(t) = 6
    OBVIOUS
  <2>2. CASE m = "DmaBuf"
    BY <2>1, <2>2
  <2>3. CASE m # "DmaBuf"
    BY <2>1, <2>3
  <2> QED BY <2>2, <2>3
<1>2. /\ s[1] = "packets"
      /\ s[2] = IF m = "DmaBuf" THEN "device" ELSE "staging"
      /\ s[3] = IF m = "DmaBuf" THEN "drmDevice" ELSE "device"
      /\ s[4] = IF m = "DmaBuf" THEN "graph" ELSE "pool"
      /\ t[1] = "container" /\ t[2] = "codec" /\ t[3] = "sound"
      /\ t[4] = "stream" /\ t[5] = "soundStream" /\ t[6] = "output"
  OBVIOUS
<1>3. Steps(m) = s \o t
  BY DEF Steps
<1> HIDE DEF s, t, Names
<1>4. /\ Steps(m) \in Seq(Names) /\ Len(Steps(m)) = Len(s) + Len(t)
      /\ \A i \in 1..Len(s) + Len(t) : Steps(m)[i] = IF i <= Len(s) THEN s[i] ELSE t[i - Len(s)]
  <2>1. /\ s \o t \in Seq(Names) /\ Len(s \o t) = Len(s) + Len(t)
        /\ \A i \in 1..Len(s) + Len(t) : (s \o t)[i] = IF i <= Len(s) THEN s[i] ELSE t[i - Len(s)]
    BY <1>1, ConcatProperties
  <2> QED BY <1>3, <2>1, Zenon
<1>5. Len(Steps(m)) = 10 /\ DOMAIN Steps(m) = 1..10
  BY <1>1, <1>4, LenProperties
<1> QED BY <1>1, <1>2, <1>4, <1>5

(* Where Initialize goes from each of its steps.                            *)
LEMMA FollowingLemma ==
  ASSUME memory \in Memories
  PROVE  /\ Following("packets") = IF memory = "DmaBuf" THEN "device" ELSE "staging"
         /\ memory = "Mapped" => Following("staging") = "device"
         /\ Following("device") = IF memory = "DmaBuf" THEN "drmDevice" ELSE "pool"
         /\ memory = "DmaBuf" => Following("drmDevice") = "graph"
         /\ memory = "DmaBuf" => Following("graph") = "container"
         /\ memory = "Mapped" => Following("pool") = "container"
         /\ Following("container") = "codec" /\ Following("codec") = "sound"
         /\ Following("sound") = "stream" /\ Following("stream") = "soundStream"
         /\ Following("soundStream") = "output" /\ Following("output") = "running"
<1>1. ASSUME NEW k \in 1..10
      PROVE  Following(Steps(memory)[k]) = IF k = 10 THEN "running" ELSE Steps(memory)[k + 1]
  <2> DEFINE i == CHOOSE i \in DOMAIN Steps(memory) : Steps(memory)[i] = Steps(memory)[k]
  <2>1. i \in 1..10 /\ Steps(memory)[i] = Steps(memory)[k]
    BY StepsLemma
  <2>2. \A a, b \in 1..10 : Steps(memory)[a] = Steps(memory)[b] => a = b
    <3>1. ASSUME memory = "DmaBuf", NEW a \in 1..10, NEW b \in 1..10, Steps(memory)[a] = Steps(memory)[b] PROVE a = b
      BY <3>1, StepsLemma
    <3>2. ASSUME memory = "Mapped", NEW a \in 1..10, NEW b \in 1..10, Steps(memory)[a] = Steps(memory)[b] PROVE a = b
      BY <3>2, StepsLemma
    <3> QED BY <3>1, <3>2 DEF Memories
  <2>3. i = k
    BY <2>1, <2>2
  <2> HIDE DEF i
  <2> QED BY ZenonT(30), <2>3, StepsLemma DEF Following, i
<1> DEFINE F(k) == Following(Steps(memory)[k]) = IF k = 10 THEN "running" ELSE Steps(memory)[k + 1]
<1>2. F(1) /\ F(2) /\ F(3) /\ F(4) /\ F(5) /\ F(6) /\ F(7) /\ F(8) /\ F(9) /\ F(10)
  BY <1>1
<1> QED BY <1>2, StepsLemma DEF Memories

(* What the Open functions acquire.                                         *)
LEMMA AcquiresLemma ==
  /\ Acquires("packets") = <<"packets">> /\ Acquires("staging") = <<>> /\ Acquires("device") = <<"device">>
  /\ Acquires("drmDevice") = <<"drmDevice">> /\ Acquires("graph") = <<"drmFrames", "graph", "surfaces">>
  /\ Acquires("pool") = <<"surfaces">> /\ Acquires("container") = <<"format">> /\ Acquires("codec") = <<"codec">>
  /\ Acquires("sound") = <<"soundCodec", "soundFrames", "fifos">> /\ Acquires("stream") = <<"videoStream">>
  /\ Acquires("soundStream") = <<"soundStream">> /\ Acquires("output") = <<"pb">>
BY DEF Acquires, OpenDevice, OpenDrmDevice, OpenFilterGraph, OpenVaapiFrames, OpenContainer, OpenEncoder,
       OpenVideoStream, Sound

(* Their elements.                                                          *)
LEMMA ElementsLemma ==
  ASSUME NEW a
  PROVE  ToSet(<<>>) = {} /\ ToSet(<<a>>) = {a}
<1>1. ToSet(<<>>) = {}
  BY DEF ToSet
<1>2. ToSet(<<a>>) = {a}
  BY DEF ToSet
<1> QED BY <1>1, <1>2

(* And where there are three of them.                                       *)
LEMMA ThreeElementsLemma ==
  /\ ToSet(Acquires("graph")) = {"drmFrames", "graph", "surfaces"}
  /\ ToSet(Acquires("sound")) = {"soundCodec", "soundFrames", "fifos"}
<1>1. ASSUME NEW a, NEW b, NEW c PROVE ToSet(<<a, b, c>>) = {a, b, c}
  <2>1. ToSet(<<a, b, c>>) = {<<a, b, c>>[i] : i \in 1..3}
    BY DEF ToSet
  <2>2. 1..3 = {1, 2, 3}
    OBVIOUS
  <2> QED BY <2>1, <2>2
<1>2. ToSet(<<"drmFrames", "graph", "surfaces">>) = {"drmFrames", "graph", "surfaces"}
  BY <1>1, Zenon
<1>3. ToSet(<<"soundCodec", "soundFrames", "fifos">>) = {"soundCodec", "soundFrames", "fifos"}
  BY <1>1, Zenon
<1> QED BY <1>2, <1>3, AcquiresLemma

(* What each needs.                                                         *)
LEMMA RequiresLemma ==
  /\ DOMAIN Requires = Resources
  /\ Requires["codec"] = {"surfaces", "format"} /\ Requires["surfaces"] = {"device"}
  /\ Requires["soundCodec"] = {"format"} /\ Requires["videoStream"] = {"format", "codec"}
  /\ Requires["soundStream"] = {"format", "soundCodec"} /\ Requires["pb"] = {"format", "videoStream"}
  /\ \A r \in {"packets", "device", "drmDevice", "drmFrames", "graph", "format", "soundFrames", "fifos", "scaler"} :
        Requires[r] = {}
BY DEF Requires, Resources

(* One more step of Initialize keeps the order.                             *)
LEMMA OpeningLemma ==
  ASSUME EncoderTypes, Opened, OpenedInOrder, Open \/ OpenAudioEncoder \/ OpenAudioStream \/ OpenOutput
  PROVE  /\ at \in Opening /\ at' \in Opening \cup {"running"} /\ owned' \subseteq Resources
         /\ Opened' /\ OpenedInOrder'
<1> DEFINE Goal == /\ at' \in Opening \cup {"running"} /\ owned' \subseteq Resources
                   /\ Opened' /\ OpenedInOrder'
<1>1. at \in Opening /\ ~headerWritten
  <2>1. at \in {"packets", "staging", "device", "drmDevice", "graph", "pool", "container", "codec", "stream",
                "sound", "soundStream", "output"}
    BY DEF Open, OpenAudioEncoder, OpenAudioStream, OpenOutput
  <2>2. at \notin {"closed", "running", "converted", "finished"}
    BY <2>1
  <2> QED BY <2>2 DEF EncoderTypes, Opened
<1>2. memory \in Memories /\ memory' = memory /\ frames' = frames /\ owned \subseteq Resources
  BY DEF EncoderTypes, Open, OpenAudioEncoder, OpenAudioStream, OpenOutput, sessionVars
<1>3. at' = Following(at)
  BY DEF Open, OpenAudioEncoder, OpenAudioStream, OpenOutput
<1>4. ~headerWritten' \/ at = "output"
  BY <1>1 DEF Open, OpenAudioEncoder, OpenAudioStream, OpenOutput
<1>5. CASE at = "packets"
  <2>1. at' = (IF memory = "DmaBuf" THEN "device" ELSE "staging")
    BY <1>1, <1>2, <1>3, <1>5, FollowingLemma DEF Opening, Memories
  <2>2. owned' = owned \cup {"packets"}
    BY <1>5, AcquiresLemma, ElementsLemma DEF Open, OpenAudioEncoder, OpenAudioStream, OpenOutput
  <2>3. owned' \subseteq Resources
    BY <1>2, <2>2 DEF Resources
  <2>4. OpenedInOrder'
    BY <1>1, <1>2, <1>5, <2>2, RequiresLemma DEF OpenedInOrder, Opened, Resources
  <2>5. Opened'
    BY <1>1, <1>2, <1>4, <1>5, <2>1, <2>2 DEF Opened, Memories
  <2>6. at' \in Opening \cup {"running"}
    BY <1>1, <1>2, <1>5, <2>1 DEF Opening, Memories
  <2> QED BY <1>1, <2>3, <2>4, <2>5, <2>6
<1>6. CASE at = "staging"
  <2>1. at' = ("device") /\ memory = "Mapped"
    BY <1>1, <1>2, <1>3, <1>6, FollowingLemma DEF Opening, Memories
  <2>2. owned' = owned \cup {}
    BY <1>6, AcquiresLemma, ElementsLemma DEF Open, OpenAudioEncoder, OpenAudioStream, OpenOutput
  <2>3. owned' \subseteq Resources
    BY <1>2, <2>2 DEF Resources
  <2>4. OpenedInOrder'
    BY <1>1, <1>2, <1>6, <2>2, RequiresLemma DEF OpenedInOrder, Opened, Resources
  <2>5. Opened'
    BY <1>1, <1>2, <1>4, <1>6, <2>1, <2>2 DEF Opened, Memories
  <2>6. at' \in Opening \cup {"running"}
    BY <1>1, <1>2, <1>6, <2>1 DEF Opening, Memories
  <2> QED BY <1>1, <2>3, <2>4, <2>5, <2>6
<1>7. CASE at = "device"
  <2>1. at' = (IF memory = "DmaBuf" THEN "drmDevice" ELSE "pool")
    BY <1>1, <1>2, <1>3, <1>7, FollowingLemma DEF Opening, Memories
  <2>2. owned' = owned \cup {"device"}
    BY <1>7, AcquiresLemma, ElementsLemma DEF Open, OpenAudioEncoder, OpenAudioStream, OpenOutput
  <2>3. owned' \subseteq Resources
    BY <1>2, <2>2 DEF Resources
  <2>4. OpenedInOrder'
    BY <1>1, <1>2, <1>7, <2>2, RequiresLemma DEF OpenedInOrder, Opened, Resources
  <2>5. Opened'
    BY <1>1, <1>2, <1>4, <1>7, <2>1, <2>2 DEF Opened, Memories
  <2>6. at' \in Opening \cup {"running"}
    BY <1>1, <1>2, <1>7, <2>1 DEF Opening, Memories
  <2> QED BY <1>1, <2>3, <2>4, <2>5, <2>6
<1>8. CASE at = "drmDevice"
  <2>1. at' = ("graph") /\ memory = "DmaBuf"
    BY <1>1, <1>2, <1>3, <1>8, FollowingLemma DEF Opening, Memories
  <2>2. owned' = owned \cup {"drmDevice"}
    BY <1>8, AcquiresLemma, ElementsLemma DEF Open, OpenAudioEncoder, OpenAudioStream, OpenOutput
  <2>3. owned' \subseteq Resources
    BY <1>2, <2>2 DEF Resources
  <2>4. OpenedInOrder'
    BY <1>1, <1>2, <1>8, <2>2, RequiresLemma DEF OpenedInOrder, Opened, Resources
  <2>5. Opened'
    BY <1>1, <1>2, <1>4, <1>8, <2>1, <2>2 DEF Opened, Memories
  <2>6. at' \in Opening \cup {"running"}
    BY <1>1, <1>2, <1>8, <2>1 DEF Opening, Memories
  <2> QED BY <1>1, <2>3, <2>4, <2>5, <2>6
<1>9. CASE at = "graph"
  <2>1. at' = ("container") /\ memory = "DmaBuf"
    BY <1>1, <1>2, <1>3, <1>9, FollowingLemma DEF Opening, Memories
  <2>2. owned' = owned \cup {"drmFrames", "graph", "surfaces"}
    BY <1>9, ThreeElementsLemma DEF Open, OpenAudioEncoder, OpenAudioStream, OpenOutput
  <2>3. owned' \subseteq Resources
    BY <1>2, <2>2 DEF Resources
  <2>4. OpenedInOrder'
    BY <1>1, <1>2, <1>9, <2>2, RequiresLemma DEF OpenedInOrder, Opened, Resources
  <2>5. Opened'
    BY <1>1, <1>2, <1>4, <1>9, <2>1, <2>2 DEF Opened, Memories
  <2>6. at' \in Opening \cup {"running"}
    BY <1>1, <1>2, <1>9, <2>1 DEF Opening, Memories
  <2> QED BY <1>1, <2>3, <2>4, <2>5, <2>6
<1>10. CASE at = "pool"
  <2>1. at' = ("container") /\ memory = "Mapped"
    BY <1>1, <1>2, <1>3, <1>10, FollowingLemma DEF Opening, Memories
  <2>2. owned' = owned \cup {"surfaces"}
    BY <1>10, AcquiresLemma, ElementsLemma DEF Open, OpenAudioEncoder, OpenAudioStream, OpenOutput
  <2>3. owned' \subseteq Resources
    BY <1>2, <2>2 DEF Resources
  <2>4. OpenedInOrder'
    BY <1>1, <1>2, <1>10, <2>2, RequiresLemma DEF OpenedInOrder, Opened, Resources
  <2>5. Opened'
    BY <1>1, <1>2, <1>4, <1>10, <2>1, <2>2 DEF Opened, Memories
  <2>6. at' \in Opening \cup {"running"}
    BY <1>1, <1>2, <1>10, <2>1 DEF Opening, Memories
  <2> QED BY <1>1, <2>3, <2>4, <2>5, <2>6
<1>11. CASE at = "container"
  <2>1. at' = ("codec")
    BY <1>1, <1>2, <1>3, <1>11, FollowingLemma DEF Opening, Memories
  <2>2. owned' = owned \cup {"format"}
    BY <1>11, AcquiresLemma, ElementsLemma DEF Open, OpenAudioEncoder, OpenAudioStream, OpenOutput
  <2>3. owned' \subseteq Resources
    BY <1>2, <2>2 DEF Resources
  <2>4. OpenedInOrder'
    BY <1>1, <1>2, <1>11, <2>2, RequiresLemma DEF OpenedInOrder, Opened, Resources
  <2>5. Opened'
    BY <1>1, <1>2, <1>4, <1>11, <2>1, <2>2 DEF Opened, Memories
  <2>6. at' \in Opening \cup {"running"}
    BY <1>1, <1>2, <1>11, <2>1 DEF Opening, Memories
  <2> QED BY <1>1, <2>3, <2>4, <2>5, <2>6
<1>12. CASE at = "codec"
  <2>1. at' = ("sound")
    BY <1>1, <1>2, <1>3, <1>12, FollowingLemma DEF Opening, Memories
  <2>2. owned' = owned \cup {"codec"}
    BY <1>12, AcquiresLemma, ElementsLemma DEF Open, OpenAudioEncoder, OpenAudioStream, OpenOutput
  <2>3. owned' \subseteq Resources
    BY <1>2, <2>2 DEF Resources
  <2>4. OpenedInOrder'
    BY <1>1, <1>2, <1>12, <2>2, RequiresLemma DEF OpenedInOrder, Opened, Resources
  <2>5. Opened'
    BY <1>1, <1>2, <1>4, <1>12, <2>1, <2>2 DEF Opened, Memories
  <2>6. at' \in Opening \cup {"running"}
    BY <1>1, <1>2, <1>12, <2>1 DEF Opening, Memories
  <2> QED BY <1>1, <2>3, <2>4, <2>5, <2>6
<1>13. CASE at = "stream"
  <2>1. at' = ("soundStream")
    BY <1>1, <1>2, <1>3, <1>13, FollowingLemma DEF Opening, Memories
  <2>2. owned' = owned \cup {"videoStream"}
    BY <1>13, AcquiresLemma, ElementsLemma DEF Open, OpenAudioEncoder, OpenAudioStream, OpenOutput
  <2>3. owned' \subseteq Resources
    BY <1>2, <2>2 DEF Resources
  <2>4. OpenedInOrder'
    BY <1>1, <1>2, <1>13, <2>2, RequiresLemma DEF OpenedInOrder, Opened, Resources
  <2>5. Opened'
    BY <1>1, <1>2, <1>4, <1>13, <2>1, <2>2 DEF Opened, Memories
  <2>6. at' \in Opening \cup {"running"}
    BY <1>1, <1>2, <1>13, <2>1 DEF Opening, Memories
  <2> QED BY <1>1, <2>3, <2>4, <2>5, <2>6
<1>14. CASE at = "sound"
  <2>1. at' = ("stream")
    BY <1>1, <1>2, <1>3, <1>14, FollowingLemma DEF Opening, Memories
  <2>2. owned' = owned \/ owned' = owned \cup {"soundCodec", "soundFrames", "fifos"}
    BY <1>14, ThreeElementsLemma DEF Open, OpenAudioEncoder, OpenAudioStream, OpenOutput
  <2>3. owned' \subseteq Resources
    BY <1>2, <2>2 DEF Resources
  <2>4. OpenedInOrder'
    BY ZenonT(30), <1>1, <1>2, <1>14, <2>2, RequiresLemma DEF OpenedInOrder, Opened, Resources
  <2>5. Opened'
    BY <1>1, <1>2, <1>4, <1>14, <2>1, <2>2 DEF Opened, Memories
  <2>6. at' \in Opening \cup {"running"}
    BY <1>1, <1>2, <1>14, <2>1 DEF Opening, Memories
  <2> QED BY <1>1, <2>3, <2>4, <2>5, <2>6
<1>15. CASE at = "soundStream"
  <2>1. at' = ("output")
    BY <1>1, <1>2, <1>3, <1>15, FollowingLemma DEF Opening, Memories
  <2>2. owned' = owned \/ ("soundCodec" \in owned /\ owned' = owned \cup {"soundStream"})
    BY <1>15, AcquiresLemma, ElementsLemma DEF Open, OpenAudioEncoder, OpenAudioStream, OpenOutput
  <2>3. owned' \subseteq Resources
    BY <1>2, <2>2 DEF Resources
  <2>4. OpenedInOrder'
    <3>1. \A r \in owned : Requires[r] \subseteq owned'
      BY <2>2 DEF OpenedInOrder
    <3>2. "soundCodec" \in owned => Requires["soundStream"] \subseteq owned'
      <4>1. "format" \in owned
        BY <1>15 DEF Opened
      <4> QED BY <2>2, <4>1, RequiresLemma
    <3>3. \A r \in owned' : r \in owned \/ (r = "soundStream" /\ "soundCodec" \in owned)
      BY <2>2
    <3> QED BY <3>1, <3>2, <3>3 DEF OpenedInOrder
  <2>5. Opened'
    BY <1>1, <1>2, <1>4, <1>15, <2>1, <2>2 DEF Opened, Memories
  <2>6. at' \in Opening \cup {"running"}
    BY <1>1, <1>2, <1>15, <2>1 DEF Opening, Memories
  <2> QED BY <1>1, <2>3, <2>4, <2>5, <2>6
<1>16. CASE at = "output"
  <2>1. at' = ("running")
    BY <1>1, <1>2, <1>3, <1>16, FollowingLemma DEF Opening, Memories
  <2>2. owned' = owned \cup {"pb"}
    BY <1>16, AcquiresLemma, ElementsLemma DEF Open, OpenAudioEncoder, OpenAudioStream, OpenOutput
  <2>3. owned' \subseteq Resources
    BY <1>2, <2>2 DEF Resources
  <2>4. OpenedInOrder'
    BY <1>1, <1>2, <1>16, <2>2, RequiresLemma DEF OpenedInOrder, Opened, Resources
  <2>5. Opened'
    BY <1>1, <1>2, <1>4, <1>16, <2>1, <2>2 DEF Opened, Memories, OpenOutput, Open, OpenAudioEncoder, OpenAudioStream
  <2>6. at' \in Opening \cup {"running"}
    BY <1>1, <1>2, <1>16, <2>1 DEF Opening, Memories
  <2> QED BY <1>1, <2>3, <2>4, <2>5, <2>6
<1> QED BY <1>1, <1>2, <1>5, <1>6, <1>7, <1>8, <1>9, <1>10, <1>11, <1>12, <1>13, <1>14, <1>15, <1>16 DEF Opening

(* What is allowed at a time is allowed later, and after more frames.       *)
LEMMA AllowanceLemma ==
  ASSUME NEW e \in Int, NEW e2 \in Int, e <= e2, NEW k \in Int, NEW k2 \in Int, k <= k2
  PROVE  /\ Nominal * k <= Nominal * k2 /\ Nominal * k \in Int /\ Nominal * k2 \in Int
         /\ e + Nominal * Unit * k <= e2 + Nominal * Unit * k2
         /\ e + Nominal * Unit * k \in Int /\ e2 + Nominal * Unit * k2 \in Int
<1>1. Nominal \in Nat /\ Unit \in Nat /\ Nominal * Unit \in Nat
  BY ClockAssumption
<1>2. ASSUME NEW P \in Nat PROVE P * k <= P * k2 /\ P * k \in Int /\ P * k2 \in Int
  <2>1. P * k2 = P * k + P * (k2 - k) /\ P * (k2 - k) \in Nat
    OBVIOUS
  <2> QED BY <2>1
<1>3. Nominal * k <= Nominal * k2 /\ Nominal * k \in Int /\ Nominal * k2 \in Int
  BY <1>1, <1>2
<1> DEFINE P == Nominal * Unit
<1>4. P * k <= P * k2 /\ P * k \in Int /\ P * k2 \in Int
  BY <1>1, <1>2
<1> QED BY <1>3, <1>4

(* A track that is in time is so later, and after more frames.              *)
LEMMA StillInTime ==
  ASSUME TrackTypes, NEW e \in Int, NEW e2 \in Int, e <= e2, NEW k \in Int, NEW k2 \in Int, k <= k2, InTime(e, k)
  PROVE  InTime(e2, k2)
<1>1. Track \in Seq(Nat) /\ \A i \in 1..Len(Track) : Track[i] \in Nat
  BY TrackIsASequence
<1>2. nextPts \in Nat /\ Unit \in Nat /\ 2^ClockBits \in Nat
  BY ClockAssumption DEF TrackTypes
<1>3. nextPts <= 2^ClockBits + Nominal * k2
  <2>1. nextPts <= 2^ClockBits + Nominal * k
    BY DEF InTime
  <2>2. Nominal * k <= Nominal * k2 /\ Nominal * k \in Int /\ Nominal * k2 \in Int
    BY AllowanceLemma
  <2> DEFINE m == 2^ClockBits
             a == Nominal * k
             b == Nominal * k2
  <2>3. m \in Nat /\ a \in Int /\ b \in Int /\ a <= b /\ nextPts \in Nat /\ nextPts <= m + a
    BY <1>2, <2>1, <2>2
  <2> HIDE DEF m, a, b
  <2>4. nextPts <= m + b
    BY <2>3
  <2> QED BY <2>4 DEF m, b
<1>4. firstStamped => nextPts * Unit <= e2 + Nominal * Unit * k2
  <2>1. nextPts * Unit \in Nat
    BY <1>2
  <2>2. firstStamped => nextPts * Unit <= e + Nominal * Unit * k
    BY DEF InTime
  <2> QED BY SMTT(30), <2>1, <2>2, AllowanceLemma
<1>5. firstStamped => \A i \in 1..Len(Track) : Track[i] * Unit <= e2 + Nominal * Unit * (k2 - 1)
  <2>1. SUFFICES ASSUME firstStamped, NEW i \in 1..Len(Track)
                 PROVE  Track[i] * Unit <= e2 + Nominal * Unit * (k2 - 1)
    OBVIOUS
  <2>2. Track[i] * Unit \in Nat
    BY SMTT(30), <1>1, <1>2
  <2>3. Track[i] * Unit <= e + Nominal * Unit * (k - 1)
    BY <2>1 DEF InTime
  <2> DEFINE l == k - 1
             l2 == k2 - 1
  <2>4. l \in Int /\ l2 \in Int /\ l <= l2
    OBVIOUS
  <2> HIDE DEF l, l2
  <2>5. e + Nominal * Unit * l <= e2 + Nominal * Unit * l2
        /\ e + Nominal * Unit * l \in Int /\ e2 + Nominal * Unit * l2 \in Int
    BY <2>4, AllowanceLemma
  <2> QED BY <2>2, <2>3, <2>5 DEF l, l2
<1> QED BY <1>3, <1>4, <1>5 DEF InTime

-----------------------------------------------------------------------------
(* The clocks while frames arrive.                                          *)
LEMMA ArrivesLemma ==
  ASSUME EncoderTypes, Clocks, Arrives
  PROVE  /\ now' \in Nat /\ now' >= now /\ stamp' \in Nat
         /\ now' >= ClockAhead + MaxLatency /\ stamp' <= now' - ClockAhead
         /\ firstStamped /\ stamp' # 0 => first <= stamp'
         /\ frames < MaxFrames
<1>1. now \in Nat /\ now >= ClockAhead + MaxLatency /\ frames \in Nat /\ firstStamped \in BOOLEAN
  BY DEF EncoderTypes, Clocks
<1>2. ClockAhead \in Int /\ MaxLatency \in Nat /\ MaxGap \in Nat
  BY ClockAssumption, BoundsAssumption
<1>3. now' \in Nat /\ now' >= now /\ now' >= ClockAhead + MaxLatency
  BY <1>1, <1>2 DEF Arrives
<1>4. stamp' \in Nat /\ stamp' <= now' - ClockAhead /\ (firstStamped /\ stamp' # 0 => first <= stamp')
  <2>1. PICK latency \in 0..MaxLatency :
          \/ stamp' = 0
          \/ /\ stamp' = now' - ClockAhead - latency
             /\ firstStamped => stamp' >= first
    BY DEF Arrives
  <2> DEFINE n == now'
             s == stamp'
  <2>a. n \in Nat /\ n >= ClockAhead + MaxLatency /\ latency \in 0..MaxLatency
    BY <1>3
  <2> HIDE DEF n, s
  <2>2. CASE s = 0
    <3>1. s \in Nat /\ s <= n - ClockAhead
      BY <1>2, <2>a, <2>2
    <3> QED BY <2>2, <3>1 DEF n, s
  <2>3. CASE s = n - ClockAhead - latency /\ (firstStamped => s >= first)
    <3>1. s \in Nat /\ s <= n - ClockAhead
      BY <1>2, <2>a, <2>3
    <3>2. first \in Nat
      BY DEF EncoderTypes
    <3>3. firstStamped => first <= s
      BY <2>3, <3>1, <3>2
    <3> QED BY <3>1, <3>3 DEF n, s
  <2> QED BY <2>1, <2>2, <2>3 DEF n, s
<1>5. frames < MaxFrames
  BY DEF Arrives
<1> QED BY <1>3, <1>4, <1>5

(* So they are when a frame is submitted, be it the recording's first.      *)
LEMMA NextFrameLemma ==
  ASSUME EncoderTypes, Clocks, at = "running", first' = first, firstStamped' = firstStamped, NextFrame
  PROVE  /\ now' \in Nat /\ now' >= now /\ stamp' \in Nat /\ lastStamp' \in Nat /\ arrival' \in Nat
         /\ frames' = frames + 1 /\ frames' \in 0..MaxFrames
         /\ now' >= ClockAhead + MaxLatency /\ stamp' <= now' - ClockAhead /\ arrival' <= now'
         /\ firstStamped => first <= now' - ClockAhead /\ (stamp' # 0 => first <= stamp')
<1>1. /\ now \in Nat /\ stamp \in Nat /\ frames \in 0..MaxFrames /\ first \in Nat /\ firstStamped \in BOOLEAN
      /\ MaxFrames > 0 /\ MaxFrames \in Nat /\ ClockAhead \in Int /\ MaxLatency \in Nat
      /\ now >= ClockAhead + MaxLatency /\ stamp <= now - ClockAhead
      /\ firstStamped => first <= now - ClockAhead /\ (stamp # 0 => first <= stamp)
  BY ClockAssumption, BoundsAssumption DEF EncoderTypes, Clocks
<1>2. frames' = frames + 1 /\ lastStamp' = stamp' /\ arrival' = now'
  BY DEF NextFrame, Noted
<1>3. CASE frames = 0 /\ UNCHANGED <<now, stamp>>
  BY <1>1, <1>2, <1>3
<1>4. CASE Arrives
  <2>1. /\ now' \in Nat /\ now' >= now /\ stamp' \in Nat
        /\ now' >= ClockAhead + MaxLatency /\ stamp' <= now' - ClockAhead
        /\ firstStamped /\ stamp' # 0 => first <= stamp'
        /\ frames < MaxFrames
    BY <1>4, ArrivesLemma
  <2>2. frames' \in 0..MaxFrames
    BY <1>1, <1>2, <2>1
  <2>3. firstStamped => first <= now' - ClockAhead
    <3>1. ASSUME firstStamped PROVE first <= now' - ClockAhead
      <4> DEFINE n == now'
      <4>1. now \in Nat /\ n \in Nat /\ n >= now /\ first <= now - ClockAhead /\ ClockAhead \in Int /\ first \in Nat
        BY <1>1, <2>1, <3>1
      <4> HIDE DEF n
      <4>2. first <= n - ClockAhead
        BY <4>1
      <4> QED BY <4>2 DEF n
    <3> QED BY <3>1
  <2>4. arrival' \in Nat /\ lastStamp' \in Nat /\ arrival' <= now'
    BY <1>2, <2>1
  <2> QED BY <1>2, <2>1, <2>2, <2>3, <2>4
<1> QED BY <1>3, <1>4 DEF NextFrame

-----------------------------------------------------------------------------
(* A step that leaves the track alone.                                      *)
LEMMA TrackStays ==
  ASSUME TrackTypes, TrackInOrder, UNCHANGED trackVars, faults' \in Nat
  PROVE  TrackTypes' /\ TrackInOrder' /\ Track' = Track /\ (TrackGoesOn => TrackGoesOn')
<1>1. UNCHANGED <<nextPts, numFramesEncoded, heldPacket, codec, file, sent, lost, uncounted>>
  BY DEF trackVars
<1>2. Track' = Track
  BY <1>1 DEF Track, Pts
<1>3. TrackTypes'
  BY <1>1 DEF TrackTypes
<1>4. TrackInOrder'
  BY <1>1, <1>2 DEF TrackInOrder, Ascending, Timely, Exact
<1>5. TrackGoesOn => TrackGoesOn'
  BY <1>1, <1>2 DEF TrackGoesOn
<1> QED BY <1>2, <1>3, <1>4, <1>5

(* There is nothing left of the track but the file.                         *)
LEMMA TrackCleared ==
  ASSUME TrackTypes, TrackInOrder, heldPacket' = <<>>, codec' = <<>>, UNCHANGED <<file, lost, uncounted>>
  PROVE  TrackInOrder'
<1> DEFINE t == Track
           s == Track'
           f == file
<1>1. /\ f \in Seq(Packets) /\ heldPacket \in Seq(Nat) /\ codec \in Seq(Nat)
  BY DEF TrackTypes
<1>2. /\ Len(f) \in Nat /\ Len(t) \in Nat /\ Len(t) >= Len(f)
      /\ \A i \in 1..Len(f) : t[i] = f[i].pts
      /\ \A i \in 1..Len(t) : t[i] \in Nat
  <2>1. Track = WholeTrack(file, heldPacket, codec)
    BY DEF Track, WholeTrack
  <2>2. \A i \in 1..Len(f) : t[i] = f[i].pts
    BY <1>1, <2>1, TrackLemma
  <2>3. Len(f) \in Nat /\ Len(heldPacket) \in Nat /\ Len(codec) \in Nat
    BY <1>1, LenProperties
  <2>4. Len(t) = Len(f) + Len(heldPacket) + Len(codec) /\ Len(t) \in Nat /\ \A i \in 1..Len(t) : t[i] \in Nat
    BY TrackIsASequence
  <2> HIDE DEF t, f
  <2> QED BY <2>2, <2>3, <2>4
<1>3. Len(s) = Len(f) /\ \A i \in 1..Len(s) : s[i] = f[i].pts
  <2> DEFINE e == <<>>
  <2>1. e \in Seq(Nat) /\ Len(e) = 0
    OBVIOUS
  <2>2. s = WholeTrack(f, e, e)
    BY DEF Track, Pts, WholeTrack
  <2> HIDE DEF e, s, f
  <2>3. Len(WholeTrack(f, e, e)) = Len(f) + Len(e) + Len(e)
    BY <1>1, <2>1, TrackLemma
  <2>4. \A i \in 1..Len(f) : WholeTrack(f, e, e)[i] = f[i].pts
    BY ZenonT(30), <1>1, <2>1, TrackLemma
  <2> QED BY <1>2, <2>1, <2>2, <2>3, <2>4
<1>4. /\ ~uncounted => Ascending(t) /\ Timely(f, t)
      /\ lost = 0 => Exact(f, t)
  BY DEF TrackInOrder
<1>5. file' = f /\ uncounted' = uncounted /\ lost' = lost
  OBVIOUS
<1> HIDE DEF s, t, f
<1>6. \A i \in 1..Len(s) : i \in 1..Len(t) /\ s[i] = t[i] /\ (i < Len(s) => i < Len(t) /\ s[i + 1] = t[i + 1])
  <2>1. SUFFICES ASSUME NEW i \in 1..Len(s)
                 PROVE  i \in 1..Len(t) /\ s[i] = t[i] /\ (i < Len(s) => i < Len(t) /\ s[i + 1] = t[i + 1])
    OBVIOUS
  <2>2. i \in 1..Len(f) /\ i \in 1..Len(t) /\ (i < Len(s) => i < Len(t) /\ i + 1 \in 1..Len(f))
    BY <1>2, <1>3
  <2> QED BY <1>2, <1>3, <2>2
<1>7. ~uncounted => Ascending(s)
  BY <1>4, <1>6 DEF Ascending
<1>8. ~uncounted => Timely(f, s)
  BY <1>3, <1>4, <1>6 DEF Timely
<1>9. lost = 0 => Exact(f, s)
  BY <1>3, <1>4, <1>6 DEF Exact
<1>10. file' = f /\ Track' = s
  BY <1>5 DEF s
<1> QED BY <1>5, <1>7, <1>8, <1>9, <1>10 DEF TrackInOrder, Ascending, Timely, Exact

(* A step that leaves the track alone leaves it in time.                    *)
LEMMA StaysInTime ==
  ASSUME UNCHANGED <<nextPts, firstStamped>>, Track' = Track, NEW e, NEW k, InTime(e, k),
         e = now' - ClockAhead - first', k = Submitted'
  PROVE  InTime(now - ClockAhead - first, Submitted)'
BY DEF InTime

(* What the time allows is a number.                                        *)
LEMMA TimeTypes ==
  ASSUME EncoderTypes
  PROVE  now - ClockAhead - first \in Int /\ Submitted \in Int /\ (at = "running" => Submitted = frames)
BY ClockAssumption, BoundsAssumption DEF EncoderTypes, Submitted

(* A step that leaves the track and the clocks alone.                       *)
LEMMA QuietStep ==
  ASSUME InductiveInvariant, UNCHANGED <<trackVars, trailer, first, firstStamped, sessionVars, memory, recordings>>,
         faults' \in Nat, Going, Going', Submitted' = Submitted, at' # "finished", at' # "closed", at # "closed"
  PROVE  TrackTypes' /\ Clocks' /\ TrackInOrder' /\ WhileItGoes' /\ WhenStopped' /\ LastsUntilTheStop'
<1>1. TrackTypes' /\ TrackInOrder' /\ Track' = Track /\ TrackGoesOn'
  BY TrackStays DEF InductiveInvariant, WhileItGoes
<1>2. Clocks'
  BY DEF InductiveInvariant, Clocks, sessionVars
<1>3. WhileItGoes'
  <2>1. InTime(now - ClockAhead - first, Submitted) /\ ~trailer
    BY DEF InductiveInvariant, WhileItGoes
  <2>2. UNCHANGED <<nextPts, firstStamped, now, first>>
    BY DEF trackVars, sessionVars
  <2>3. InTime(now - ClockAhead - first, Submitted)'
    BY <1>1, <2>1, <2>2, StaysInTime
  <2> QED BY <1>1, <2>1, <2>3 DEF WhileItGoes
<1>4. WhenStopped'
  <2>1. ~trailer'
    BY DEF InductiveInvariant, WhileItGoes
  <2> QED BY <2>1 DEF WhenStopped
<1>5. LastsUntilTheStop'
  BY DEF LastsUntilTheStop
<1> QED BY <1>1, <1>2, <1>3, <1>4, <1>5

(* Initialize, step by step.                                                *)
LEMMA OpeningStep ==
  ASSUME InductiveInvariant, Open \/ OpenAudioEncoder \/ OpenAudioStream \/ OpenOutput
  PROVE  InductiveInvariant'
<1>1. /\ at \in Opening /\ at' \in Opening \cup {"running"} /\ owned' \subseteq Resources
      /\ Opened' /\ OpenedInOrder'
  BY OpeningLemma DEF InductiveInvariant
<1>2. UNCHANGED <<memory, first, firstStamped, trackVars, trailer, sessionVars, gpuVars, recordings, faults>>
  BY DEF Open, OpenAudioEncoder, OpenAudioStream, OpenOutput
<1>3. at # "closed" /\ at # "finished" /\ at # "converted" /\ at # "running"
      /\ at' # "closed" /\ at' # "finished" /\ at' # "converted"
  BY <1>1 DEF Opening
<1>4. frames' = frames /\ Opening' = Opening
  BY <1>2 DEF sessionVars, Opening
<1>5. TrackTypes' /\ Clocks' /\ TrackInOrder' /\ WhileItGoes' /\ WhenStopped' /\ LastsUntilTheStop'
  <2>1. Going /\ Going' /\ Submitted' = Submitted
    BY <1>1, <1>3, <1>4 DEF Going, Submitted
  <2>2. faults' \in Nat
    BY <1>2 DEF InductiveInvariant, TrackTypes
  <2> QED BY <1>2, <1>3, <2>1, <2>2, QuietStep
<1>6. EncoderTypes'
  <2>1. headerWritten' \in BOOLEAN
    BY DEF InductiveInvariant, EncoderTypes, Open, OpenAudioEncoder, OpenAudioStream, OpenOutput
  <2> QED BY <1>1, <1>2, <1>3, <1>4, <2>1 DEF InductiveInvariant, EncoderTypes, sessionVars, gpuVars
<1>7. NotHandedBackWhileRead'
  BY <1>2, <1>3 DEF InductiveInvariant, NotHandedBackWhileRead, gpuVars
<1>8. Fresh'
  BY <1>1, <1>2, <1>3, <1>4 DEF InductiveInvariant, Fresh, trackVars, sessionVars
<1> QED BY <1>1, <1>5, <1>6, <1>7, <1>8 DEF InductiveInvariant

-----------------------------------------------------------------------------
(* Whatever had been opened is given back.                                  *)
LEMMA GivenBackLemma ==
  ASSUME memory \in Memories, at \in Opening, NEW n \in 0..Len(Acquires(at))
  PROVE  ToSet(SubSeq(Acquires(at), 1, n)) \subseteq Resources
<1> DEFINE s == Acquires(at)
<1>1. s \in Seq(Resources)
  <2>1. at \in {"packets", "staging", "device", "drmDevice", "graph", "pool", "container", "codec", "stream",
                "sound", "soundStream", "output"}
    BY DEF Opening
  <2>2. {"packets", "device", "drmDevice", "drmFrames", "graph", "surfaces", "format", "codec", "soundCodec",
         "soundFrames", "fifos", "videoStream", "soundStream", "pb"} \subseteq Resources
    BY DEF Resources
  <2>3. \A r \in Resources : <<r>> \in Seq(Resources)
    OBVIOUS
  <2>4. \A a, b, c \in Resources : <<a, b, c>> \in Seq(Resources)
    OBVIOUS
  <2>5. <<>> \in Seq(Resources)
    OBVIOUS
  <2> HIDE DEF s
  <2>a. CASE at = "graph"
    <3>1. s = <<"drmFrames", "graph", "surfaces">>
      BY <2>a, AcquiresLemma DEF s
    <3> QED BY <2>2, <2>4, <3>1, Zenon
  <2>b. CASE at = "sound"
    <3>1. s = <<"soundCodec", "soundFrames", "fifos">>
      BY <2>b, AcquiresLemma DEF s
    <3> QED BY <2>2, <2>4, <3>1, Zenon
  <2>6. at \in {"graph", "sound"} => s \in Seq(Resources)
    BY <2>a, <2>b
  <2>7. CASE at = "staging"
    BY <2>5, <2>7, AcquiresLemma DEF s
  <2>8. CASE at \notin {"graph", "sound", "staging"}
    BY <2>1, <2>2, <2>3, <2>8, AcquiresLemma DEF s
  <2> QED BY <2>6, <2>7, <2>8
<1> DEFINE p == SubSeq(s, 1, n)
<1>2. p \in Seq(Resources)
  <2>1. \A i \in 1..n : s[i] \in Resources
    <3>1. Len(s) \in Nat
      BY <1>1, LenProperties
    <3> HIDE DEF s
    <3>2. \A i \in 1..n : i \in 1..Len(s)
      BY <3>1 DEF s
    <3> QED BY <1>1, <3>2, ElementOfSeq
  <2>2. 1 \in Int /\ n \in Int
    OBVIOUS
  <2> HIDE DEF s
  <2> QED BY <2>1, <2>2, SubSeqProperties
<1> HIDE DEF p
<1>3. \A i \in DOMAIN p : p[i] \in Resources
  BY <1>2
<1>4. ToSet(p) \subseteq Resources
  BY <1>3 DEF ToSet
<1> QED BY <1>4 DEF p

(* Initialize fails at one of its steps.                                    *)
LEMMA FailingStep ==
  ASSUME InductiveInvariant, OpenFails
  PROVE  InductiveInvariant'
<1>1. memory \in Memories /\ at \in Opening
  <2>1. memory \in Memories
    BY DEF InductiveInvariant, EncoderTypes
  <2>2. at \in ToSet(Steps(memory))
    BY DEF OpenFails
  <2>3. PICK i \in 1..10 : at = Steps(memory)[i]
    BY <2>2, StepsLemma DEF ToSet
  <2>4. at \notin {"closed", "running", "converted", "finished"}
    BY <2>3, StepsLemma
  <2> QED BY <2>1, <2>4 DEF InductiveInvariant, EncoderTypes
<1>2. PICK n \in 0..Len(Acquires(at)) : Terminated(ToSet(SubSeq(Acquires(at), 1, n)))
  BY DEF OpenFails
<1>3. /\ UNCHANGED <<memory, firstStamped, file, sent, lost, uncounted, trailer, sessionVars, gpuVars, recordings>>
      /\ faults' = faults + 1
  BY DEF OpenFails, Fault
<1>4. /\ headerWritten' = FALSE /\ first' = 0 /\ nextPts' = 0 /\ numFramesEncoded' = 0
      /\ heldPacket' = <<>> /\ codec' = <<>> /\ at' = "closed"
  BY <1>2 DEF Terminated
<1>5. owned' = {}
  <2>1. ToSet(SubSeq(Acquires(at), 1, n)) \subseteq Resources
    BY <1>1, GivenBackLemma
  <2>2. owned \subseteq Resources
    BY DEF InductiveInvariant, EncoderTypes
  <2> QED BY <1>2, <2>1, <2>2 DEF Terminated
<1>6. /\ nextPts = 0 /\ numFramesEncoded = 0 /\ frames = 0
      /\ heldPacket = <<>> /\ codec = <<>> /\ file = <<>> /\ sent = 0 /\ lost = 0 /\ ~trailer /\ ~uncounted
  BY <1>1 DEF InductiveInvariant, Fresh
<1>7. at' \notin Opening' /\ ~Going'
  BY <1>4 DEF Going, Opening
<1>8. UNCHANGED trackVars
  BY <1>3, <1>4, <1>6 DEF trackVars
<1>9. faults' \in Nat
  BY <1>3 DEF InductiveInvariant, TrackTypes
<1>10. TrackTypes' /\ TrackInOrder' /\ Track' = Track
  BY <1>8, <1>9, TrackStays DEF InductiveInvariant
<1>11. EncoderTypes'
  BY <1>3, <1>4, <1>5 DEF InductiveInvariant, EncoderTypes, sessionVars, gpuVars
<1>12. Opened' /\ OpenedInOrder'
  BY <1>4, <1>5 DEF Opened, OpenedInOrder
<1>13. NotHandedBackWhileRead'
  <2>1. at # "converted"
    BY <1>1 DEF Opening
  <2> QED BY <1>3, <2>1 DEF InductiveInvariant, NotHandedBackWhileRead, gpuVars
<1>14. Fresh'
  BY <1>3, <1>4, <1>5, <1>6, <1>7 DEF Fresh, sessionVars
<1>15. Clocks'
  BY <1>3, <1>4 DEF InductiveInvariant, Clocks, sessionVars
<1>16. WhileItGoes' /\ WhenStopped' /\ LastsUntilTheStop'
  BY <1>3, <1>4, <1>6, <1>7 DEF WhileItGoes, WhenStopped, LastsUntilTheStop
<1> QED BY <1>10, <1>11, <1>12, <1>13, <1>14, <1>15, <1>16 DEF InductiveInvariant

(* The recording is closed.                                                 *)
LEMMA TerminateStep ==
  ASSUME InductiveInvariant, Terminate
  PROVE  InductiveInvariant'
<1>3. /\ UNCHANGED <<memory, firstStamped, file, sent, lost, uncounted, trailer, stamp, lastStamp, arrival, now,
                     gpuVars, recordings, faults>>
      /\ frames' = 0 /\ at = "finished"
  BY DEF Terminate
<1>4. /\ headerWritten' = FALSE /\ first' = 0 /\ nextPts' = 0 /\ numFramesEncoded' = 0
      /\ heldPacket' = <<>> /\ codec' = <<>> /\ at' = "closed"
  BY DEF Terminate, Terminated
<1>5. owned' = {}
  BY DEF Terminate, Terminated, InductiveInvariant, EncoderTypes
<1>7. at' \notin Opening' /\ ~Going'
  BY <1>4 DEF Going, Opening
<1>9. TrackTypes'
  BY <1>3, <1>4 DEF InductiveInvariant, TrackTypes
<1>10. TrackInOrder'
  BY <1>3, <1>4, TrackCleared DEF InductiveInvariant
<1>11. EncoderTypes'
  <2>1. frames' \in 0..MaxFrames
    BY <1>3, BoundsAssumption
  <2> QED BY <1>3, <1>4, <1>5, <2>1 DEF InductiveInvariant, EncoderTypes, gpuVars
<1>12. Opened' /\ OpenedInOrder'
  BY <1>4, <1>5 DEF Opened, OpenedInOrder
<1>13. NotHandedBackWhileRead'
  BY <1>3 DEF InductiveInvariant, NotHandedBackWhileRead, gpuVars
<1>14. Fresh'
  BY <1>3, <1>4, <1>5, <1>7 DEF Fresh
<1>15. Clocks'
  BY <1>3, <1>4 DEF InductiveInvariant, Clocks
<1>16. WhileItGoes' /\ WhenStopped' /\ LastsUntilTheStop'
  BY <1>3, <1>4, <1>7 DEF InductiveInvariant, WhileItGoes, WhenStopped, LastsUntilTheStop
<1> QED BY <1>9, <1>10, <1>11, <1>12, <1>13, <1>14, <1>15, <1>16 DEF InductiveInvariant

(* The first frame of a recording.                                          *)
LEMMA StartStep ==
  ASSUME InductiveInvariant, StartEncoder
  PROVE  InductiveInvariant'
<1>1. /\ at = "closed" /\ at' = "packets" /\ recordings' = recordings + 1
      /\ memory' \in Memories /\ firstStamped' = (stamp' # 0)
      /\ first' = IF stamp' # 0 THEN stamp' ELSE now'
      /\ file' = <<>> /\ trailer' = FALSE /\ sent' = 0 /\ lost' = 0 /\ uncounted' = FALSE
      /\ UNCHANGED <<owned, headerWritten, nextPts, numFramesEncoded, heldPacket, codec, lastStamp, arrival, frames,
                     gpuVars, faults>>
  BY DEF StartEncoder, Memories
<1>2. /\ now' \in Nat /\ now' >= now /\ stamp' \in Nat
      /\ now' >= ClockAhead + MaxLatency /\ stamp' <= now' - ClockAhead
      /\ frames < MaxFrames
  BY ArrivesLemma DEF InductiveInvariant, StartEncoder
<1>3. /\ nextPts = 0 /\ numFramesEncoded = 0 /\ frames = 0 /\ heldPacket = <<>> /\ codec = <<>>
      /\ owned = {} /\ first = 0 /\ ~headerWritten
  BY <1>1 DEF InductiveInvariant, Fresh, Opened
<1>4. at' \in Opening' /\ Going' /\ Submitted' = 0
  BY <1>1, <1>3 DEF Opening, Going, Submitted
<1>5. EncoderTypes'
  <2>1. MaxFrames > 0 /\ MaxFrames \in Nat
    BY <1>2, <1>3, BoundsAssumption
  <2>2. first' \in Nat /\ firstStamped' \in BOOLEAN
    BY <1>1, <1>2
  <2>3. /\ reading' \in BOOLEAN /\ syncFailed' \in BOOLEAN /\ headerWritten' \in BOOLEAN /\ trailer' \in BOOLEAN
        /\ lastStamp' \in Nat /\ arrival' \in Nat /\ recordings' \in Nat /\ frames' \in 0..MaxFrames
        /\ owned' \subseteq Resources
    <3>1. /\ reading \in BOOLEAN /\ syncFailed \in BOOLEAN /\ headerWritten \in BOOLEAN
          /\ lastStamp \in Nat /\ arrival \in Nat /\ recordings \in Nat /\ frames \in 0..MaxFrames
          /\ owned \subseteq Resources
      BY DEF InductiveInvariant, EncoderTypes
    <3>2. UNCHANGED <<reading, syncFailed, headerWritten, lastStamp, arrival, frames, owned>>
      BY <1>1 DEF gpuVars
    <3>3. trailer' = FALSE /\ recordings' = recordings + 1
      BY <1>1
    <3>4. recordings' \in Nat
      BY <3>1, <3>3
    <3>5. trailer' \in BOOLEAN
      BY <3>3
    <3> QED BY <3>1, <3>2, <3>4, <3>5
  <2>4. stamp' \in Nat /\ now' \in Nat /\ memory' \in Memories /\ at' \in Opening'
    BY <1>1, <1>2, <1>4
  <2> QED BY <2>1, <2>2, <2>3, <2>4 DEF EncoderTypes
<1>6. TrackTypes'
  <2>1. <<>> \in Seq(Packets) /\ <<>> \in Seq(Nat) /\ Len(<<>>) = 0
    OBVIOUS
  <2>2. file' \in Seq(Packets) /\ heldPacket' \in Seq(Nat) /\ Len(heldPacket') <= 1 /\ codec' \in Seq(Nat)
    BY <1>1, <1>3, <2>1
  <2>3. /\ nextPts' \in Nat /\ numFramesEncoded' \in Nat /\ sent' \in Nat /\ lost' \in Nat /\ faults' \in Nat
        /\ uncounted' \in BOOLEAN
    BY <1>1 DEF InductiveInvariant, TrackTypes
  <2> QED BY <2>2, <2>3 DEF TrackTypes
<1>7. Opened' /\ OpenedInOrder'
  BY <1>1, <1>3 DEF Opened, OpenedInOrder
<1>8. NotHandedBackWhileRead'
  BY <1>1 DEF InductiveInvariant, NotHandedBackWhileRead, gpuVars
<1>9. Fresh'
  BY <1>1, <1>3 DEF Fresh
<1>10. Clocks'
  <2>1. arrival' <= now'
    BY <1>1, <1>2 DEF InductiveInvariant, Clocks, EncoderTypes
  <2>2. firstStamped' => first' = stamp'
    BY <1>1
  <2> QED BY <1>2, <2>1, <2>2 DEF Clocks
<1>11. Len(Track') = 0 /\ Len(file') = 0 /\ Track' = <<>>
  <2>1. Track' = <<>> \o <<>> \o <<>>
    <3>1. Pts(<<>>) = <<>>
      BY DEF Pts
    <3> QED BY <1>1, <1>3, <3>1 DEF Track, Pts
  <2>2. <<>> \o <<>> = <<>>
    BY ConcatEmptySeq
  <2> QED BY <1>1, <2>1, <2>2
<1>12. TrackInOrder'
  BY <1>11 DEF TrackInOrder, Ascending, Timely, Exact
<1>13. WhileItGoes'
  <2>1. TrackGoesOn'
    BY <1>1, <1>11 DEF TrackGoesOn
  <2> DEFINE e == now' - ClockAhead - first'
  <2>2. e \in Int /\ (firstStamped' => e >= 0)
    <3>1. ClockAhead \in Int /\ first' \in Nat
      BY <1>5, ClockAssumption DEF EncoderTypes
    <3>2. firstStamped' => first' <= now' - ClockAhead
      BY <1>1, <1>2
    <3> DEFINE n == now'
               f == first'
    <3>3. n \in Nat /\ f \in Nat /\ ClockAhead \in Int /\ (firstStamped' => f <= n - ClockAhead)
      BY <1>2, <3>1, <3>2
    <3> HIDE DEF n, f
    <3>4. n - ClockAhead - f \in Int /\ (f <= n - ClockAhead => n - ClockAhead - f >= 0)
      BY <3>3
    <3> QED BY <3>3, <3>4 DEF n, f
  <2>3. Nominal * 0 = 0 /\ Nominal * Unit * 0 = 0 /\ 2^ClockBits \in Nat /\ 0 * Unit = 0
    BY ClockAssumption
  <2>4. nextPts' = 0
    BY <1>1, <1>3
  <2> HIDE DEF e
  <2>5. /\ nextPts' <= 2^ClockBits + Nominal * 0
        /\ firstStamped' => nextPts' * Unit <= e + Nominal * Unit * 0
    BY <2>2, <2>3, <2>4
  <2>6. InTime(now - ClockAhead - first, Submitted)'
    BY <1>4, <1>11, <2>5 DEF InTime, e
  <2> QED BY <1>1, <2>1, <2>6 DEF WhileItGoes
<1>14. WhenStopped' /\ LastsUntilTheStop'
  BY <1>1 DEF WhenStopped, LastsUntilTheStop
<1> QED BY <1>5, <1>6, <1>7, <1>8, <1>9, <1>10, <1>12, <1>13, <1>14 DEF InductiveInvariant

(* Where nothing is opened or closed.                                       *)
LEMMA StillOpen ==
  ASSUME EncoderTypes, Opened, OpenedInOrder, at \in {"running", "converted"},
         at' \in {"running", "converted", "finished"}, at' = "converted" => memory = "DmaBuf" /\ frames' > 0,
         UNCHANGED <<memory, headerWritten>>, owned' = owned \/ owned' = owned \cup {"scaler"}
  PROVE  Opened' /\ OpenedInOrder' /\ owned' \subseteq Resources /\ Opening' = Opening /\ at' \notin Opening
<1>1. owned' \subseteq Resources
  BY DEF EncoderTypes, Resources
<1>2. OpenedInOrder'
  BY RequiresLemma DEF OpenedInOrder
<1>3. Opened'
  BY DEF Opened
<1>4. Opening' = Opening /\ at' \notin Opening
  BY DEF Opening
<1> QED BY <1>1, <1>2, <1>3, <1>4

(* What is true of the time when a frame is submitted.                      *)
LEMMA StampedTime ==
  ASSUME NEW f \in Nat, NEW n \in Nat, NEW c \in Int, NEW s \in Nat, s <= n - c
  PROVE  /\ n - c - f \in Int
         /\ f <= n - c => n - c - f >= 0
         /\ f <= s => s - f <= n - c - f
         /\ \A m \in Nat : m <= n => m - c - f <= n - c - f /\ m - c - f \in Int
OBVIOUS

(* A step while the recording goes on that leaves its track alone.          *)
LEMMA TrackIdle ==
  ASSUME InductiveInvariant, at \in {"running", "converted"}, at' \in {"running", "converted"},
         UNCHANGED <<first, firstStamped, trackVars, trailer>>,
         faults' \in Nat, now' \in Nat, now' >= now, EncoderTypes', Submitted <= Submitted'
  PROVE  TrackTypes' /\ TrackInOrder' /\ WhileItGoes' /\ WhenStopped' /\ LastsUntilTheStop' /\ Fresh'
<1>1. /\ TrackGoesOn /\ InTime(now - ClockAhead - first, Submitted) /\ ~trailer
      /\ TrackTypes /\ TrackInOrder /\ EncoderTypes
  BY DEF InductiveInvariant, WhileItGoes, Going
<1>2. TrackTypes' /\ TrackInOrder' /\ Track' = Track /\ TrackGoesOn'
  BY <1>1, TrackStays
<1> DEFINE e == now - ClockAhead - first
           e2 == now' - ClockAhead - first'
           k == Submitted
           k2 == Submitted'
<1>3. e \in Int /\ e2 \in Int /\ e <= e2
  <2>1. now \in Nat /\ ClockAhead \in Int /\ first \in Nat /\ first' = first
    BY <1>1, ClockAssumption DEF EncoderTypes
  <2> DEFINE n == now'
  <2>2. n \in Nat /\ n >= now /\ e2 = n - ClockAhead - first
    BY <2>1
  <2> HIDE DEF n, e2
  <2> QED BY <2>1, <2>2
<1>4. k \in Int /\ k2 \in Int
  <2>1. k \in Int
    BY <1>1, TimeTypes
  <2>2. frames' \in Nat
    BY BoundsAssumption DEF EncoderTypes
  <2> QED BY <2>1, <2>2 DEF Submitted
<1>5. InTime(e2, k2)
  <2>1. InTime(e, k) /\ k <= k2
    BY <1>1
  <2> HIDE DEF e, e2, k, k2
  <2> QED BY <1>1, <1>3, <1>4, <2>1, StillInTime
<1>6. InTime(now - ClockAhead - first, Submitted)'
  <2>1. UNCHANGED <<nextPts, firstStamped>>
    BY DEF trackVars
  <2> QED BY <1>2, <1>5, <2>1, StaysInTime
<1>7. WhileItGoes' /\ WhenStopped' /\ LastsUntilTheStop'
  BY <1>1, <1>2, <1>6 DEF WhileItGoes, WhenStopped, LastsUntilTheStop
<1>8. Fresh'
  BY DEF Fresh, Opening
<1> QED BY <1>2, <1>7, <1>8

(* A step in which the codec is sent a frame.                               *)
LEMMA TrackSent ==
  ASSUME InductiveInvariant, at \in {"running", "converted"}, at' = "running",
         UNCHANGED <<first, firstStamped, trailer>>,
         NEW time \in Nat, SendToEncoder(time), EncoderTypes', now' \in Nat, now' >= now, NEW k \in Nat,
         Submitted = k, frames' = k + 1, time <= now' - ClockAhead,
         firstStamped => first <= now' - ClockAhead /\ (time # 0 => first <= time)
  PROVE  TrackTypes' /\ TrackInOrder' /\ WhileItGoes' /\ WhenStopped' /\ LastsUntilTheStop' /\ Fresh'
<1> DEFINE e == now - ClockAhead - first
           e2 == now' - ClockAhead - first
<1>1. /\ TrackGoesOn /\ InTime(e, k) /\ ~trailer
      /\ TrackTypes /\ TrackInOrder /\ first \in Nat /\ now \in Nat /\ firstStamped \in BOOLEAN
      /\ MaxFaults \in Nat /\ ClockAhead \in Int
  BY ClockAssumption, BoundsAssumption DEF InductiveInvariant, WhileItGoes, Going, EncoderTypes
<1>2. /\ e \in Int /\ e2 \in Int /\ e <= e2
      /\ firstStamped => e2 >= 0
      /\ firstStamped /\ time # 0 => first <= time /\ time - first <= e2
  <2> DEFINE n == now'
  <2>1. n \in Nat /\ n >= now /\ time <= n - ClockAhead
        /\ (firstStamped => first <= n - ClockAhead /\ (time # 0 => first <= time)) /\ e2 = n - ClockAhead - first
    OBVIOUS
  <2> HIDE DEF n, e2
  <2>2. /\ n - ClockAhead - first \in Int
        /\ first <= n - ClockAhead => n - ClockAhead - first >= 0
        /\ first <= time => time - first <= n - ClockAhead - first
    BY <1>1, <2>1, StampedTime
  <2>3. now - ClockAhead - first \in Int /\ now - ClockAhead - first <= n - ClockAhead - first
    BY <1>1, <2>1
  <2> QED BY <2>1, <2>2, <2>3
<1> HIDE DEF e
<1>3. InTime(e2, k)
  <2> HIDE DEF e2
  <2> QED BY <1>1, <1>2, StillInTime
<1>4. /\ TrackTypes' /\ TrackInOrder' /\ TrackGoesOn'
      /\ nextPts' <= 2^ClockBits + Nominal * (k + 1)
      /\ firstStamped => nextPts' * Unit <= e2 + Nominal * Unit * (k + 1)
      /\ firstStamped => \A i \in 1..Len(Track') : Track'[i] * Unit <= e2 + Nominal * Unit * k
  <2> HIDE DEF e2
  <2> QED BY <1>1, <1>2, <1>3, SendLemma
<1>5. InTime(now - ClockAhead - first, Submitted)'
  <2>1. Submitted' = k + 1 /\ (k + 1) - 1 = k
    BY DEF Submitted
  <2>2. (now - ClockAhead - first)' = e2 /\ firstStamped' = firstStamped
    OBVIOUS
  <2> HIDE DEF e2
  <2> QED BY <1>4, <2>1, <2>2 DEF InTime
<1>6. WhileItGoes' /\ WhenStopped' /\ LastsUntilTheStop'
  BY <1>1, <1>4, <1>5 DEF WhileItGoes, WhenStopped, LastsUntilTheStop
<1>7. Fresh'
  BY DEF Fresh, Opening
<1> QED BY <1>4, <1>6, <1>7

(* A frame in the GPU's memory is taken, or cannot be.                      *)
LEMMA DmaBufStep ==
  ASSUME InductiveInvariant, SubmitDmaBuf
  PROVE  InductiveInvariant'
<1>1. /\ at = "running" /\ memory = "DmaBuf" /\ NextFrame
      /\ at' \in {"running", "converted"}
      /\ UNCHANGED <<memory, owned, headerWritten, first, firstStamped, trackVars, trailer, syncFailed, recordings>>
      /\ (at' = "converted" /\ reading' = TRUE) \/ (at' = at /\ reading' = reading)
      /\ faults' = faults \/ faults' = faults + 1
  BY DEF SubmitDmaBuf, openVars, Fault
<1>2. EncoderTypes /\ Clocks /\ TrackTypes /\ Opened /\ OpenedInOrder
  BY DEF InductiveInvariant
<1>3. /\ now' \in Nat /\ now' >= now /\ stamp' \in Nat /\ lastStamp' \in Nat /\ arrival' \in Nat
      /\ frames' = frames + 1 /\ frames' \in 0..MaxFrames
      /\ now' >= ClockAhead + MaxLatency /\ stamp' <= now' - ClockAhead /\ arrival' <= now'
      /\ firstStamped => first <= now' - ClockAhead /\ (stamp' # 0 => first <= stamp')
  BY <1>1, <1>2, NextFrameLemma
<1>4. frames \in Nat /\ frames' > 0
  BY <1>2, <1>3, BoundsAssumption DEF EncoderTypes
<1>5. Opened' /\ OpenedInOrder' /\ owned' \subseteq Resources /\ Opening' = Opening
  BY <1>1, <1>2, <1>4, StillOpen
<1>6. EncoderTypes'
  <2>1. reading' \in BOOLEAN
    BY <1>1, <1>2 DEF EncoderTypes
  <2> QED BY <1>1, <1>2, <1>3, <1>5, <2>1 DEF EncoderTypes
<1>7. NotHandedBackWhileRead'
  BY <1>1 DEF InductiveInvariant, NotHandedBackWhileRead
<1>8. Clocks'
  BY <1>1, <1>3 DEF Clocks
<1>9. TrackTypes' /\ TrackInOrder' /\ WhileItGoes' /\ WhenStopped' /\ LastsUntilTheStop' /\ Fresh'
  <2>1. faults' \in Nat
    BY <1>1, <1>2 DEF TrackTypes
  <2>2. Submitted <= Submitted'
    BY <1>1, <1>3, <1>4 DEF Submitted
  <2>3. UNCHANGED <<first, firstStamped, trackVars, trailer>>
    BY <1>1
  <2> QED BY <1>1, <1>3, <1>6, <2>1, <2>2, <2>3, TrackIdle
<1> QED BY <1>5, <1>6, <1>7, <1>8, <1>9 DEF InductiveInvariant

(* The GPU is done with the buffer.                                         *)
LEMMA GpuStep ==
  ASSUME InductiveInvariant, GpuDone
  PROVE  InductiveInvariant'
<1>1. /\ reading' = FALSE
      /\ UNCHANGED <<at, openVars, trackVars, trailer, sessionVars, syncFailed, recordings, faults>>
  BY DEF GpuDone
<1>2. Opening' = Opening /\ Submitted' = Submitted
  BY <1>1 DEF Opening, openVars, Submitted, sessionVars
<1>3. TrackTypes' /\ TrackInOrder' /\ Track' = Track /\ (TrackGoesOn => TrackGoesOn')
  <2>1. TrackTypes /\ TrackInOrder /\ faults' \in Nat
    BY <1>1 DEF InductiveInvariant, TrackTypes
  <2> QED BY <1>1, <2>1, TrackStays
<1>4. EncoderTypes'
  BY <1>1, <1>2 DEF InductiveInvariant, EncoderTypes, openVars, sessionVars
<1>5. Opened' /\ OpenedInOrder' /\ NotHandedBackWhileRead' /\ Fresh' /\ Clocks'
  <2>1. UNCHANGED <<at, memory, owned, headerWritten, first, firstStamped, nextPts, numFramesEncoded, heldPacket,
                    codec, file, sent, lost, uncounted, trailer, stamp, lastStamp, arrival, now, frames, syncFailed>>
    BY <1>1 DEF openVars, trackVars, sessionVars
  <2>2. Opened'
    BY <2>1 DEF InductiveInvariant, Opened
  <2>3. OpenedInOrder'
    BY <2>1 DEF InductiveInvariant, OpenedInOrder
  <2>4. NotHandedBackWhileRead'
    BY <1>1 DEF NotHandedBackWhileRead
  <2>5. Fresh'
    BY <1>2, <2>1 DEF InductiveInvariant, Fresh
  <2>6. Clocks'
    BY <2>1 DEF InductiveInvariant, Clocks
  <2> QED BY <2>2, <2>3, <2>4, <2>5, <2>6
<1>6. WhileItGoes'
  <2>1. SUFFICES ASSUME Going' PROVE TrackGoesOn' /\ InTime(now - ClockAhead - first, Submitted)' /\ ~trailer'
    BY DEF WhileItGoes
  <2>2. Going
    BY <1>1, <1>2, <2>1 DEF Going
  <2>3. TrackGoesOn /\ InTime(now - ClockAhead - first, Submitted) /\ ~trailer
    BY <2>2 DEF InductiveInvariant, WhileItGoes
  <2>4. UNCHANGED <<nextPts, firstStamped, now, first>>
    BY <1>1 DEF trackVars, sessionVars, openVars
  <2>5. InTime(now - ClockAhead - first, Submitted)'
    BY <1>2, <1>3, <2>3, <2>4, StaysInTime
  <2> QED BY <1>1, <1>3, <2>3, <2>5
<1>7. WhenStopped' /\ LastsUntilTheStop'
  <2>1. UNCHANGED <<at, first, firstStamped, heldPacket, codec, file, sent, lost, trailer, lastStamp, arrival, now,
                    frames>>
    BY <1>1 DEF openVars, trackVars, sessionVars
  <2>2. WhenStopped'
    BY <1>3, <2>1 DEF InductiveInvariant, WhenStopped, KeepsTime
  <2>3. LastsUntilTheStop'
    BY <2>1 DEF InductiveInvariant, LastsUntilTheStop
  <2> QED BY <2>2, <2>3
<1> QED BY <1>3, <1>4, <1>5, <1>6, <1>7 DEF InductiveInvariant

(* The converted frame goes to the codec.                                   *)
LEMMA ConvertedStep ==
  ASSUME InductiveInvariant, SubmitConverted
  PROVE  InductiveInvariant'
<1>1. /\ at = "converted" /\ at' = "running" /\ SendToEncoder(stamp)
      /\ (reading' = FALSE /\ syncFailed' = syncFailed) \/ (syncFailed' = TRUE /\ reading' = reading)
      /\ UNCHANGED <<memory, owned, headerWritten, first, firstStamped, trailer, stamp, lastStamp, arrival, now, frames,
                     recordings>>
  BY DEF SubmitConverted, openVars, sessionVars
<1>2. EncoderTypes /\ Clocks /\ Opened /\ OpenedInOrder
  BY DEF InductiveInvariant
<1>3. /\ frames \in Nat /\ frames > 0 /\ now \in Nat /\ stamp \in Nat
      /\ stamp <= now - ClockAhead
      /\ firstStamped => first <= now - ClockAhead /\ (stamp # 0 => first <= stamp)
  BY <1>1, <1>2, BoundsAssumption DEF EncoderTypes, Clocks, Opened
<1>4. Opened' /\ OpenedInOrder' /\ owned' \subseteq Resources /\ Opening' = Opening
  BY <1>1, <1>2, StillOpen
<1>5. EncoderTypes'
  <2>1. reading' \in BOOLEAN /\ syncFailed' \in BOOLEAN
    BY <1>1, <1>2 DEF EncoderTypes
  <2> QED BY <1>1, <1>2, <1>4, <2>1 DEF EncoderTypes
<1>6. NotHandedBackWhileRead'
  BY <1>1 DEF InductiveInvariant, NotHandedBackWhileRead
<1>7. Clocks'
  BY <1>1, <1>2 DEF Clocks
<1>8. TrackTypes' /\ TrackInOrder' /\ WhileItGoes' /\ WhenStopped' /\ LastsUntilTheStop' /\ Fresh'
  <2> DEFINE k == frames - 1
  <2>1. k \in Nat /\ Submitted = k /\ frames' = k + 1
    BY <1>1, <1>3 DEF Submitted
  <2>2. /\ now' \in Nat /\ now' >= now /\ stamp <= now' - ClockAhead
        /\ firstStamped => first <= now' - ClockAhead /\ (stamp # 0 => first <= stamp)
    BY <1>1, <1>3
  <2> HIDE DEF k
  <2> QED BY <1>1, <1>3, <1>5, <2>1, <2>2, TrackSent
<1> QED BY <1>4, <1>5, <1>6, <1>7, <1>8 DEF InductiveInvariant

(* A frame in our memory goes to the codec, or cannot.                      *)
LEMMA MappedStep ==
  ASSUME InductiveInvariant, SubmitMapped
  PROVE  InductiveInvariant'
<1>1. /\ at = "running" /\ at' = "running" /\ NextFrame
      /\ UNCHANGED <<memory, headerWritten, first, firstStamped, trailer, reading, syncFailed, recordings>>
      /\ owned' = owned \/ owned' = owned \cup {"scaler"}
      /\ SendToEncoder(stamp') \/ (Fault /\ UNCHANGED trackVars)
  BY DEF SubmitMapped, gpuVars
<1>2. EncoderTypes /\ Clocks /\ TrackTypes /\ Opened /\ OpenedInOrder
  BY DEF InductiveInvariant
<1>3. /\ now' \in Nat /\ now' >= now /\ stamp' \in Nat /\ lastStamp' \in Nat /\ arrival' \in Nat
      /\ frames' = frames + 1 /\ frames' \in 0..MaxFrames
      /\ now' >= ClockAhead + MaxLatency /\ stamp' <= now' - ClockAhead /\ arrival' <= now'
      /\ firstStamped => first <= now' - ClockAhead /\ (stamp' # 0 => first <= stamp')
  BY <1>1, <1>2, NextFrameLemma
<1>4. frames \in Nat
  BY <1>2, BoundsAssumption DEF EncoderTypes
<1>5. Opened' /\ OpenedInOrder' /\ owned' \subseteq Resources /\ Opening' = Opening
  BY <1>1, <1>2, StillOpen
<1>6. EncoderTypes'
  BY <1>1, <1>2, <1>3, <1>5 DEF EncoderTypes
<1>7. NotHandedBackWhileRead'
  BY <1>1 DEF InductiveInvariant, NotHandedBackWhileRead
<1>8. Clocks'
  BY <1>1, <1>3 DEF Clocks
<1>9. CASE SendToEncoder(stamp')
  <2> DEFINE time == stamp'
  <2>1. time \in Nat /\ SendToEncoder(time) /\ Submitted = frames /\ time <= now' - ClockAhead
        /\ (firstStamped => first <= now' - ClockAhead /\ (time # 0 => first <= time))
    BY <1>1, <1>3, <1>9 DEF Submitted
  <2> HIDE DEF time
  <2>2. TrackTypes' /\ TrackInOrder' /\ WhileItGoes' /\ WhenStopped' /\ LastsUntilTheStop' /\ Fresh'
    BY <1>1, <1>3, <1>4, <1>6, <2>1, TrackSent
  <2> QED BY <1>5, <1>6, <1>7, <1>8, <2>2 DEF InductiveInvariant
<1>10. CASE Fault /\ UNCHANGED trackVars
  <2>1. faults' \in Nat
    BY <1>2, <1>10 DEF TrackTypes, Fault
  <2>2. Submitted <= Submitted'
    BY <1>1, <1>3, <1>4 DEF Submitted
  <2>3. TrackTypes' /\ TrackInOrder' /\ WhileItGoes' /\ WhenStopped' /\ LastsUntilTheStop' /\ Fresh'
    BY <1>1, <1>3, <1>6, <1>10, <2>1, <2>2, TrackIdle
  <2> QED BY <1>5, <1>6, <1>7, <1>8, <2>3 DEF InductiveInvariant
<1> QED BY <1>1, <1>9, <1>10

(* A frame is dropped.                                                      *)
LEMMA DropStep ==
  ASSUME InductiveInvariant, DropFrame
  PROVE  InductiveInvariant'
<1>1. /\ at = "running" /\ at' = "running" /\ Arrives
      /\ frames' = frames + 1 /\ lastStamp' = stamp' /\ arrival' = now'
      /\ UNCHANGED <<memory, owned, headerWritten, first, firstStamped, trackVars, trailer, reading, syncFailed,
                     recordings, faults>>
  BY DEF DropFrame, Noted, openVars, gpuVars
<1>2. EncoderTypes /\ Clocks /\ TrackTypes /\ Opened /\ OpenedInOrder
  BY DEF InductiveInvariant
<1>3. /\ now' \in Nat /\ now' >= now /\ stamp' \in Nat
      /\ now' >= ClockAhead + MaxLatency /\ stamp' <= now' - ClockAhead
      /\ firstStamped /\ stamp' # 0 => first <= stamp'
      /\ frames < MaxFrames
  BY <1>1, <1>2, ArrivesLemma
<1>4. frames \in Nat /\ frames' \in 0..MaxFrames
  BY <1>1, <1>2, <1>3, BoundsAssumption DEF EncoderTypes
<1>5. Opened' /\ OpenedInOrder' /\ owned' \subseteq Resources /\ Opening' = Opening
  BY <1>1, <1>2, StillOpen
<1>6. EncoderTypes'
  BY <1>1, <1>2, <1>3, <1>4, <1>5 DEF EncoderTypes
<1>7. NotHandedBackWhileRead'
  BY <1>1 DEF InductiveInvariant, NotHandedBackWhileRead
<1>8. Clocks'
  <2> DEFINE n == now'
  <2>1. now \in Nat /\ first \in Nat /\ ClockAhead \in Int /\ (firstStamped => first <= now - ClockAhead)
        /\ n \in Nat /\ n >= now
    BY <1>1, <1>2, <1>3, ClockAssumption DEF EncoderTypes, Clocks
  <2> HIDE DEF n
  <2>2. firstStamped => first <= n - ClockAhead
    BY <2>1
  <2>3. firstStamped => first <= now' - ClockAhead
    BY <2>2 DEF n
  <2>4. arrival' <= now'
    BY <1>1, <1>3
  <2> QED BY <1>1, <1>3, <2>3, <2>4 DEF Clocks
<1>9. TrackTypes' /\ TrackInOrder' /\ WhileItGoes' /\ WhenStopped' /\ LastsUntilTheStop' /\ Fresh'
  <2>1. faults' \in Nat
    BY <1>1, <1>2 DEF TrackTypes
  <2>2. Submitted <= Submitted'
    BY <1>1, <1>3, <1>4 DEF Submitted
  <2> QED BY <1>1, <1>3, <1>6, <2>1, <2>2, TrackIdle
<1> QED BY <1>5, <1>6, <1>7, <1>8, <1>9 DEF InductiveInvariant

(* The recording is stopped.                                                *)
LEMMA FinishStep ==
  ASSUME InductiveInvariant, Finish
  PROVE  InductiveInvariant'
<1>1. /\ at = "running" /\ at' = "finished" /\ trailer' \in BOOLEAN
      /\ \E wait \in 0..MaxGap : now' = now + wait
      /\ UNCHANGED <<memory, owned, headerWritten, first, firstStamped, nextPts, numFramesEncoded, sent, uncounted,
                     stamp, lastStamp, arrival, frames, reading, syncFailed, recordings>>
  BY DEF Finish, openVars, gpuVars
<1>2. EncoderTypes /\ Clocks /\ TrackTypes /\ TrackInOrder /\ Opened /\ OpenedInOrder
      /\ TrackGoesOn /\ InTime(now - ClockAhead - first, Submitted)
  BY <1>1 DEF InductiveInvariant, WhileItGoes, Going
<1>3. /\ now \in Nat /\ now' \in Nat /\ now' >= now /\ arrival \in Nat /\ arrival <= now
      /\ first \in Nat /\ lastStamp \in Nat
      /\ ClockAhead \in Int /\ stamp \in Nat /\ frames \in Nat
  BY <1>1, <1>2, ClockAssumption, BoundsAssumption DEF EncoderTypes, Clocks
<1>4. Opened' /\ OpenedInOrder' /\ owned' \subseteq Resources /\ Opening' = Opening /\ at' \notin Opening
  BY <1>1, <1>2, StillOpen
<1>5. EncoderTypes'
  BY <1>1, <1>2, <1>3, <1>4 DEF EncoderTypes
<1>6. /\ TrackTypes' /\ TrackInOrder'
      /\ \A i \in 1..Len(Track') : \E j \in 1..Len(Track) : Track'[i] = Track[j]
      /\ trailer' => heldPacket' = <<>> /\ codec' = <<>> /\ Len(file') = sent' - lost'
      /\ LastsUntilTheStop'
  BY <1>2, <1>3, FinishLemma
<1>7. NotHandedBackWhileRead'
  BY <1>1 DEF InductiveInvariant, NotHandedBackWhileRead
<1>8. Fresh'
  BY <1>1, <1>4 DEF Fresh
<1>9. Clocks'
  <2> DEFINE n == now'
  <2>1. /\ n \in Nat /\ n >= now /\ now >= ClockAhead + MaxLatency /\ MaxLatency \in Nat /\ stamp <= now - ClockAhead
        /\ firstStamped => first <= now - ClockAhead /\ (stamp # 0 => first <= stamp)
    BY <1>1, <1>2, <1>3, ClockAssumption DEF Clocks
  <2> HIDE DEF n
  <2>2. n >= ClockAhead + MaxLatency /\ stamp <= n - ClockAhead /\ arrival <= n
        /\ (firstStamped => first <= n - ClockAhead /\ (stamp # 0 => first <= stamp))
    BY <1>3, <2>1
  <2> QED BY <1>1, <2>2 DEF Clocks, n
<1>10. WhileItGoes'
  BY <1>1, <1>4 DEF WhileItGoes, Going
<1>11. WhenStopped'
  <2> DEFINE e == now - ClockAhead - first
             e2 == now' - ClockAhead - first
  <2>1. e \in Int /\ e2 \in Int /\ e <= e2
    <3> DEFINE n == now'
    <3>1. n \in Nat /\ n >= now /\ e2 = n - ClockAhead - first
      BY <1>3
    <3> HIDE DEF n, e2
    <3> QED BY <1>3, <3>1
  <2>2. InTime(e, frames)
    BY <1>1, <1>2 DEF Submitted
  <2> HIDE DEF e, e2
  <2>3. InTime(e2, frames)
    BY <1>2, <1>3, <2>1, <2>2, StillInTime
  <2>4. firstStamped => \A i \in 1..Len(Track') : Track'[i] * Unit <= e2 + Nominal * Unit * (frames - 1)
    BY <1>6, <2>3 DEF InTime
  <2>5. firstStamped' => \A i \in 1..Len(Track') : KeepsTime(Track[i])'
    BY <1>1, <2>4 DEF KeepsTime, e2
  <2> QED BY <1>6, <2>5 DEF WhenStopped
<1> QED BY <1>4, <1>5, <1>6, <1>7, <1>8, <1>9, <1>10, <1>11 DEF InductiveInvariant

(* The program starts with nothing open.                                    *)
LEMMA Initially == Init => InductiveInvariant
<1> SUFFICES ASSUME Init PROVE InductiveInvariant
  OBVIOUS
<1>1. /\ at = "closed" /\ memory = "DmaBuf" /\ owned = {} /\ headerWritten = FALSE /\ first = 0
      /\ nextPts = 0 /\ numFramesEncoded = 0 /\ heldPacket = <<>> /\ codec = <<>> /\ file = <<>>
      /\ trailer = FALSE /\ stamp = 0 /\ lastStamp = 0 /\ arrival = 0 /\ reading = FALSE
      /\ now = ClockAhead + MaxLatency /\ recordings = 0 /\ frames = 0 /\ faults = 0 /\ sent = 0 /\ lost = 0
      /\ firstStamped = FALSE /\ uncounted = FALSE /\ syncFailed = FALSE
  BY DEF Init
<1>2. now \in Nat /\ now >= ClockAhead + MaxLatency /\ 0 <= now - ClockAhead /\ 0 <= now
  BY <1>1, ClockAssumption
<1>3. MaxFrames \in Nat
  BY BoundsAssumption
<1>4. EncoderTypes
  <2>1. {headerWritten, trailer, reading, syncFailed, firstStamped} \subseteq BOOLEAN
    BY <1>1, Zenon
  <2>2. /\ memory \in Memories /\ at \in Opening \cup {"closed", "running", "converted", "finished"}
        /\ owned \subseteq Resources
    BY <1>1 DEF Memories
  <2>3. /\ first \in Nat /\ stamp \in Nat /\ lastStamp \in Nat /\ arrival \in Nat
        /\ frames \in 0..MaxFrames /\ recordings \in Nat
    BY <1>1, <1>3
  <2> QED BY <1>1, <1>2, <2>1, <2>2, <2>3 DEF EncoderTypes
<1>5. TrackTypes
  <2>1. <<>> \in Seq(Packets) /\ <<>> \in Seq(Nat) /\ Len(<<>>) = 0
    OBVIOUS
  <2>2. uncounted \in BOOLEAN
    BY <1>1, Zenon
  <2>3. nextPts \in Nat /\ numFramesEncoded \in Nat /\ sent \in Nat /\ lost \in Nat /\ faults \in Nat
    BY <1>1
  <2> QED BY <1>1, <2>1, <2>2, <2>3 DEF TrackTypes
<1>6. at \notin Opening
  BY <1>1 DEF Opening
<1>7. Opened /\ OpenedInOrder /\ NotHandedBackWhileRead /\ Fresh /\ WhileItGoes
  BY <1>1, <1>6 DEF Opened, OpenedInOrder, NotHandedBackWhileRead, Fresh, WhileItGoes, Going
<1>8. Clocks
  BY <1>1, <1>2 DEF Clocks
<1>9. WhenStopped /\ LastsUntilTheStop
  BY <1>1 DEF WhenStopped, LastsUntilTheStop
<1>10. TrackInOrder
  <2>1. Len(Track) = 0 /\ Len(file) = 0
    <3>1. Pts(<<>>) = <<>>
      BY DEF Pts
    <3>2. <<>> \o <<>> = <<>>
      BY ConcatEmptySeq
    <3> QED BY <1>1, <3>1, <3>2 DEF Track
  <2> QED BY <2>1 DEF TrackInOrder, Ascending, Timely, Exact
<1> QED BY <1>4, <1>5, <1>7, <1>8, <1>9, <1>10 DEF InductiveInvariant

(* A step that changes nothing.                                             *)
LEMMA StutterStep ==
  ASSUME InductiveInvariant, UNCHANGED vars
  PROVE  InductiveInvariant'
<1>1. UNCHANGED <<at, memory, owned, headerWritten, first, firstStamped, nextPts, numFramesEncoded, heldPacket, codec,
                  file, sent, lost, uncounted, trailer, stamp, lastStamp, arrival, now, frames, reading, syncFailed,
                  recordings, faults>>
  BY DEF vars, openVars, trackVars, sessionVars, gpuVars
<1>2. Track' = Track
  BY <1>1 DEF Track, Pts
<1>3. Opening' = Opening /\ Submitted' = Submitted
  BY <1>1 DEF Opening, Submitted
<1>4. EncoderTypes' /\ TrackTypes'
  BY <1>1, <1>3 DEF InductiveInvariant, EncoderTypes, TrackTypes
<1>5. Opened' /\ OpenedInOrder' /\ NotHandedBackWhileRead' /\ Fresh' /\ Clocks'
  BY <1>1, <1>3 DEF InductiveInvariant, Opened, OpenedInOrder, NotHandedBackWhileRead, Fresh, Clocks
<1>6. TrackInOrder'
  BY <1>1, <1>2 DEF InductiveInvariant, TrackInOrder, Ascending, Timely, Exact
<1>7. WhileItGoes'
  BY <1>1, <1>2, <1>3 DEF InductiveInvariant, WhileItGoes, Going, TrackGoesOn, InTime
<1>8. WhenStopped' /\ LastsUntilTheStop'
  BY <1>1, <1>2 DEF InductiveInvariant, WhenStopped, KeepsTime, LastsUntilTheStop
<1> QED BY <1>4, <1>5, <1>6, <1>7, <1>8 DEF InductiveInvariant

(* Every step keeps the inductive invariant.                                *)
LEMMA Inductive == InductiveInvariant /\ [Next]_vars => InductiveInvariant'
<1> SUFFICES ASSUME InductiveInvariant, [Next]_vars PROVE InductiveInvariant'
  OBVIOUS
<1>1. CASE StartEncoder
  BY <1>1, StartStep
<1>2. CASE Open \/ OpenAudioEncoder \/ OpenAudioStream \/ OpenOutput
  BY <1>2, OpeningStep
<1>3. CASE OpenFails
  BY <1>3, FailingStep
<1>4. CASE SubmitDmaBuf
  BY <1>4, DmaBufStep
<1>5. CASE GpuDone
  BY <1>5, GpuStep
<1>6. CASE SubmitConverted
  BY <1>6, ConvertedStep
<1>7. CASE SubmitMapped
  BY <1>7, MappedStep
<1>8. CASE DropFrame
  BY <1>8, DropStep
<1>9. CASE Finish
  BY <1>9, FinishStep
<1>10. CASE Terminate
  BY <1>10, TerminateStep
<1>11. CASE UNCHANGED vars
  BY <1>11, StutterStep
<1> QED BY <1>1, <1>2, <1>3, <1>4, <1>5, <1>6, <1>7, <1>8, <1>9, <1>10, <1>11 DEF Next

(* The inductive invariant is one.                                          *)
THEOREM InductiveInvariantHolds == Spec => []InductiveInvariant
BY Initially, Inductive, PTL DEF Spec

-----------------------------------------------------------------------------
(* What the invariant says of the next timestamp: the clock's width and a   *)
(* nominal frame for each submitted bound it.                               *)
Bounded == nextPts \in 0..2^ClockBits + MaxFrames * Nominal

Finished == at = "finished"

(* While frames come in, and where there is no recording.                   *)
LEMMA BoundedLemma == InductiveInvariant /\ ~Finished => Bounded
<1> SUFFICES ASSUME InductiveInvariant, at # "finished" PROVE Bounded
  BY DEF Finished
<1> DEFINE m == 2^ClockBits
           a == Nominal * Submitted
           b == MaxFrames * Nominal
<1>1. m \in Nat /\ nextPts \in Nat /\ b \in Nat /\ MaxFrames \in Nat /\ Nominal \in Nat
  BY ClockAssumption, BoundsAssumption DEF InductiveInvariant, TrackTypes
<1>2. CASE at = "closed"
  <2>1. nextPts = 0
    BY <1>2 DEF InductiveInvariant, Fresh
  <2> HIDE DEF m, b
  <2>2. 0 \in 0..m + b
    BY <1>1
  <2> QED BY <2>1, <2>2 DEF Bounded, m, b
<1>3. CASE Going
  <2>1. nextPts <= m + a
    BY <1>3 DEF InductiveInvariant, WhileItGoes, InTime
  <2>2. Submitted \in Int /\ Submitted <= MaxFrames
    BY <1>1 DEF InductiveInvariant, EncoderTypes, Submitted
  <2> DEFINE k == Submitted
  <2>3. Nominal * k <= Nominal * MaxFrames /\ Nominal * k \in Int /\ Nominal * MaxFrames = b
    <3>1. k \in Int /\ MaxFrames \in Int /\ k <= MaxFrames
      BY <1>1, <2>2
    <3> HIDE DEF k
    <3>2. Nominal * k <= Nominal * MaxFrames /\ Nominal * k \in Int
      BY <3>1, AllowanceLemma
    <3>3. Nominal * MaxFrames = MaxFrames * Nominal
      BY <1>1
    <3> QED BY <3>2, <3>3
  <2>4. a <= b /\ a \in Int
    BY <2>3
  <2> HIDE DEF m, a, b
  <2>5. nextPts \in 0..m + b
    BY <1>1, <2>1, <2>4
  <2> QED BY <2>5 DEF Bounded, m, b
<1> QED BY <1>2, <1>3 DEF InductiveInvariant, EncoderTypes, Going

(* And it stays where Finish found it.                                      *)
LEMMA StaysBounded == InductiveInvariant /\ Bounded /\ [Next]_vars => (Finished' => Bounded')
<1> SUFFICES ASSUME InductiveInvariant, Bounded, [Next]_vars, at' = "finished" PROVE Bounded'
  BY DEF Finished
<1>1. SUFFICES nextPts' = nextPts
  BY DEF Bounded
<1>2. CASE StartEncoder
  BY <1>2 DEF StartEncoder
<1>3. CASE Open \/ OpenAudioEncoder \/ OpenAudioStream \/ OpenOutput
  BY <1>3 DEF Open, OpenAudioEncoder, OpenAudioStream, OpenOutput, trackVars
<1>4. CASE OpenFails
  BY <1>4 DEF OpenFails, Terminated
<1>5. CASE SubmitDmaBuf
  BY <1>5 DEF SubmitDmaBuf, trackVars
<1>6. CASE GpuDone
  BY <1>6 DEF GpuDone, trackVars
<1>7. CASE SubmitConverted
  BY <1>7 DEF SubmitConverted
<1>8. CASE SubmitMapped
  BY <1>8 DEF SubmitMapped
<1>9. CASE DropFrame
  BY <1>9 DEF DropFrame, trackVars
<1>10. CASE Finish
  BY <1>10 DEF Finish
<1>11. CASE Terminate
  BY <1>11 DEF Terminate, Terminated
<1>12. CASE UNCHANGED vars
  BY <1>12 DEF vars, trackVars
<1> QED BY <1>2, <1>3, <1>4, <1>5, <1>6, <1>7, <1>8, <1>9, <1>10, <1>11, <1>12 DEF Next

(* Each of the steps is one of Initialize.                                  *)
LEMMA StepsOfInitialize ==
  InductiveInvariant => at \in {"closed", "running", "converted", "finished"} \cup ToSet(Steps(memory))
<1> SUFFICES ASSUME InductiveInvariant, at \in Opening PROVE at \in ToSet(Steps(memory))
  BY DEF InductiveInvariant, EncoderTypes
<1> DEFINE s == Steps(memory)
<1>1. \E i \in 1..10 : s[i] = at
  <2>1. CASE memory = "DmaBuf"
    BY <2>1, StepsLemma DEF Opening
  <2>2. CASE memory # "DmaBuf"
    BY <2>2, StepsLemma DEF Opening
  <2> QED BY <2>1, <2>2
<1>2. DOMAIN s = 1..10
  BY StepsLemma
<1> HIDE DEF s
<1>3. at \in ToSet(s)
  BY <1>1, <1>2 DEF ToSet
<1> QED BY <1>3 DEF s

(* What Initialize opens and Terminate gives back is opened in order, is    *)
(* given back whole, and a buffer that is still read is not handed back     *)
(* (encoder.cpp:1355).                                                      *)
THEOREM EncoderInvariantHolds == Spec => []EncoderInvariant
<1>1. Init => Bounded
  BY Initially, BoundedLemma DEF Init, Finished
<1>2. InductiveInvariant /\ Bounded => EncoderInvariant
  <2> SUFFICES ASSUME InductiveInvariant, Bounded PROVE EncoderInvariant
    OBVIOUS
  <2>1. TypeOK
    <3>1. at \in {"closed", "running", "converted", "finished"} \cup ToSet(Steps(memory))
      BY StepsOfInitialize
    <3>2. owned \subseteq Resources /\ Len(heldPacket) <= 1
      BY DEF InductiveInvariant, EncoderTypes, TrackTypes
    <3>3. headerWritten \in BOOLEAN
      BY DEF InductiveInvariant, EncoderTypes
    <3>4. at \in {"running", "converted"} => headerWritten /\ {"codec", "pb", "surfaces"} \subseteq owned
      BY DEF InductiveInvariant, Opened
    <3>5. at = "converted" => memory = "DmaBuf"
      BY DEF InductiveInvariant, Opened
    <3> QED BY <3>1, <3>2, <3>3, <3>4, <3>5 DEF TypeOK, Bounded
  <2>2. NothingLeftBetween
    BY DEF InductiveInvariant, Fresh, Opened, NothingLeftBetween
  <2> QED BY <2>1, <2>2 DEF InductiveInvariant, EncoderInvariant
<1> QED BY <1>1, <1>2, BoundedLemma, StaysBounded, InductiveInvariantHolds, PTL DEF Spec

(* A complete file has every frame the codec took, bar those whose write    *)
(* failed, and each lasts until the next.                                   *)
THEOREM FileIsWholeHolds == Spec => []FileIsWhole
<1>1. InductiveInvariant => FileIsWhole
  <2> SUFFICES ASSUME InductiveInvariant, trailer PROVE FileIsWhole
    BY DEF FileIsWhole
  <2>1. heldPacket = <<>> /\ codec = <<>> /\ Len(file) = sent - lost
    BY DEF InductiveInvariant, WhenStopped
  <2>2. /\ file \in Seq(Packets) /\ Len(file) \in Nat /\ DOMAIN file = 1..Len(file)
        /\ Len(heldPacket) = 0 /\ Len(codec) = 0
    BY <2>1, LenProperties DEF InductiveInvariant, TrackTypes
  <2>3. Len(Track) = Len(file) /\ \A i \in 1..Len(file) : Track[i] = file[i].pts
    <3>1. TrackTypes
      BY DEF InductiveInvariant
    <3>2. Len(Track) = Len(file) + Len(heldPacket) + Len(codec)
      BY <3>1, TrackIsASequence
    <3>3. Len(Track) = Len(file)
      BY <2>2, <3>2
    <3>4. \A i \in 1..Len(file) : Track[i] = file[i].pts
      BY <3>1, TrackLemma DEF TrackTypes, Track, WholeTrack
    <3> QED BY <3>3, <3>4
  <2>4. \A i \in 1..(Len(file) - 1) : /\ i \in 1..Len(file) /\ i < Len(Track)
                                      /\ i + 1 \in 1..Len(file) /\ Track[i + 1] = file[i + 1].pts
    <3> DEFINE n == Len(file)
    <3>1. \A i \in 1..(n - 1) : i \in 1..n /\ i < n /\ i + 1 \in 1..n
      <4>1. n \in Nat
        BY <2>2
      <4> HIDE DEF n
      <4> QED BY <4>1
    <3> QED BY <2>3, <3>1
  <2>5. ~uncounted => \A i \in DOMAIN file : file[i].duration > 0
    BY <2>2 DEF InductiveInvariant, TrackInOrder, Timely
  <2>6. ~uncounted => \A i \in 1..(Len(file) - 1) : file[i].pts + file[i].duration <= file[i + 1].pts
    BY <2>4 DEF InductiveInvariant, TrackInOrder, Timely
  <2>7. lost = 0 => \A i \in 1..(Len(file) - 1) : file[i].pts + file[i].duration = file[i + 1].pts
    BY <2>4 DEF InductiveInvariant, TrackInOrder, Exact
  <2> QED BY <2>1, <2>5, <2>6, <2>7 DEF FileIsWhole
<1> QED BY <1>1, InductiveInvariantHolds, PTL

(* The track keeps the recording's time: a frame is where its stamp says, or*)
(* behind the frame before it, and the last lasts until the stop            *)
(* (encoder.cpp:1237, 1470).                                                *)
THEOREM TrackIsInTimeHolds == Spec => []TrackIsInTime
<1>1. InductiveInvariant => TrackIsInTime
  <2> SUFFICES ASSUME InductiveInvariant PROVE TrackIsInTime
    OBVIOUS
  <2>1. Track \in Seq(Nat) /\ Len(Track) \in Nat /\ DOMAIN Track = 1..Len(Track)
        /\ \A i \in 1..Len(Track) : Track[i] \in Nat
    BY TrackIsASequence, LenProperties DEF InductiveInvariant
  <2>2. TrackAdvances
    <3> DEFINE n == Len(Track)
    <3>1. \A i \in 1..(n - 1) : i \in 1..n /\ i + 1 \in 1..n /\ i < i + 1
      <4>1. n \in Nat
        BY <2>1
      <4> HIDE DEF n
      <4> QED BY <4>1
    <3>2. ~uncounted => Ascending(Track)
      BY DEF InductiveInvariant, TrackInOrder
    <3> QED BY <3>1, <3>2 DEF TrackAdvances, Ascending
  <2>3. TrackKeepsTime
    <3> SUFFICES ASSUME firstStamped, at # "closed", NEW i \in 1..Len(Track) PROVE KeepsTime(Track[i])
      BY <2>1 DEF TrackKeepsTime
    <3>1. CASE at = "finished"
      BY <3>1 DEF InductiveInvariant, WhenStopped
    <3>2. CASE Going
      <4> DEFINE e == now - ClockAhead - first
                 k == Submitted - 1
                 k2 == frames - 1
      <4>1. Track[i] * Unit <= e + Nominal * Unit * k
        BY <3>2 DEF InductiveInvariant, WhileItGoes, InTime
      <4>2. e \in Int /\ k \in Int /\ k2 \in Int /\ k <= k2
        BY ClockAssumption, BoundsAssumption DEF InductiveInvariant, EncoderTypes, Submitted
      <4>3. Track[i] * Unit \in Nat
        BY <2>1, ClockAssumption
      <4> HIDE DEF e, k, k2
      <4>4. /\ e + Nominal * Unit * k <= e + Nominal * Unit * k2
            /\ e + Nominal * Unit * k \in Int /\ e + Nominal * Unit * k2 \in Int
        <5>1. e <= e
          BY <4>2
        <5> QED BY <4>2, <5>1, AllowanceLemma
      <4>5. Track[i] * Unit <= e + Nominal * Unit * k2
        BY <4>1, <4>3, <4>4
      <4> QED BY <4>5 DEF KeepsTime, e, k2
    <3> QED BY <3>1, <3>2 DEF InductiveInvariant, EncoderTypes, Going
  <2> QED BY <2>2, <2>3 DEF TrackIsInTime, InductiveInvariant
<1> QED BY <1>1, InductiveInvariantHolds, PTL

-----------------------------------------------------------------------------
(* The region an encoder is opened on (CSession::StartEncoder).             *)

Rectangles == [x : Nat, y : Nat, width : Nat, height : Nat]

(* An even number at most one below (RoundDownToEven).                      *)
LEMMA EvenBelow ==
  ASSUME NEW n \in Nat
  PROVE  /\ RoundDownToEven(n) \in {n, n - 1}
         /\ RoundDownToEven(n) \in Nat
         /\ RoundDownToEven(n) % 2 = 0
         /\ n >= 2 => RoundDownToEven(n) >= 2
BY DEF RoundDownToEven

(* A sum that fits in the integer's width is what it is modulo that width. *)
LEMMA NoWrap ==
  ASSUME NEW m \in Nat, NEW n \in Nat, n < m
  PROVE  n % m = n
OBVIOUS

(* The last pixel of a part of the frame is in the frame's memory, whatever *)
(* the stride (SubmitMapped).                                               *)
LEMMA ReadsInside ==
  ASSUME NEW x \in Nat, NEW y \in Nat, NEW w \in Nat, NEW h \in Nat, h >= 1,
         NEW stride \in Nat, NEW height \in Nat,
         x + w <= stride, y + h <= height
  PROVE  (y + h - 1) * stride + x + w <= stride * height
<1> DEFINE k == height - (y + h)
<1>1. k \in Nat /\ height = (y + h - 1) + 1 + k /\ y + h - 1 \in Nat
  OBVIOUS
<1>2. stride * height = (y + h - 1) * stride + stride + stride * k
  <2> DEFINE r == y + h - 1
  <2>1. r \in Nat /\ height = r + (1 + k)
    BY <1>1
  <2> HIDE DEF r, k
  <2>2. stride * (r + (1 + k)) = r * stride + stride + stride * k
    BY <2>1, <1>1, Z3
  <2>3. stride * height = r * stride + stride + stride * k
    BY <2>1, <2>2
  <2> QED BY <2>3 DEF r
<1>3. stride * k \in Nat
  BY <1>1
<1>4. (y + h - 1) * stride \in Nat
  BY <1>1
<1> HIDE DEF k
<1> QED BY <1>2, <1>3, <1>4

-----------------------------------------------------------------------------
(* A frame is at least two pixels wide and high, and its sides are numbers  *)
(* that two more do not wrap.                                               *)
LEMMA FramesAreWide ==
  ASSUME NEW frame \in Frames
  PROVE  /\ frame.width \in Nat /\ frame.width >= 2 /\ frame.width + 2 < 2^Bits
         /\ frame.height \in Nat /\ frame.height >= 2 /\ frame.height + 2 < 2^Bits
         /\ frame.padding \in Nat
<1>1. frame.width \in Sides /\ frame.height \in Sides /\ frame.padding \in Padding
  BY DEF Frames
<1> QED BY <1>1, SideAssumption

(* What the selector lets through and what the stream reports are           *)
(* rectangles, some of them empty.                                          *)
LEMMA ChosenIsARectangle ==
  ASSUME NEW requested \in Regions, NEW crop \in Crops
  PROVE  Chosen(requested, crop) \in Rectangles
<1>1. requested \in Rectangles
  BY SideAssumption DEF Regions, Lengths, Rectangles
<1>2. crop \in Rectangles
  <2>1. 2^Bits \in Nat
    BY SideAssumption
  <2>2. Unsigned \subseteq Nat
    BY <2>1 DEF Unsigned
  <2>3. CropOrigins \subseteq Nat /\ CropSides \subseteq Nat
    BY <2>2, CropAssumption
  <2>4. NoRegion \in Rectangles
    BY DEF NoRegion, Rectangles
  <2>5. [x : CropOrigins, y : CropOrigins, width : CropSides, height : CropSides] \subseteq Rectangles
    BY <2>3 DEF Rectangles
  <2> QED BY <2>4, <2>5 DEF Crops
<1> QED BY <1>1, <1>2 DEF Chosen

(* What is taken of the frame before the rounding: what was asked for where *)
(* that fits or its sums wrap, else all of it.                              *)
Part(r, frame) == IF Fits(r, frame) \/ Slips(r, frame) THEN r ELSE Whole(frame)

(* The test of one side: as it should be where the sum does not wrap.       *)
LEMMA SideTest ==
  ASSUME NEW m \in Nat, NEW n \in Nat, NEW side \in Nat, side < m
  PROVE  n % m <= side <=> n <= side \/ (n >= m /\ n % m <= side)
<1>1. CASE n < m
  BY <1>1, NoWrap
<1>2. CASE n >= m
  BY <1>2
<1> QED BY <1>1, <1>2

(* ResolveRegion takes that part, its edges moved to even pixels.           *)
LEMMA TakesThePart ==
  ASSUME NEW frame \in Frames, NEW r \in Rectangles
  PROVE  ResolveRegion(r, frame)
           = [f \in {"x", "y", "width", "height"} |-> RoundDownToEven(Part(r, frame)[f])]
<1> DEFINE m == 2^Bits  h == r.x + r.width  v == r.y + r.height
<1>1. /\ frame.width \in Nat /\ frame.width < m
      /\ frame.height \in Nat /\ frame.height < m /\ m \in Nat
  BY FramesAreWide, SideAssumption
<1>2. DOMAIN r = {"x", "y", "width", "height"} /\ DOMAIN Whole(frame) = {"x", "y", "width", "height"}
  BY DEF Rectangles, Whole
<1>3. h \in Nat /\ v \in Nat
  BY DEF Rectangles
<1>4. /\ h % m <= frame.width <=> h <= frame.width \/ (h >= m /\ h % m <= frame.width)
      /\ v % m <= frame.height <=> v <= frame.height \/ (v >= m /\ v % m <= frame.height)
  <2> HIDE DEF m, h, v
  <2> QED BY <1>1, <1>3, SideTest
<1>5. /\ h % m \in Nat /\ v % m \in Nat
  <2> HIDE DEF m, h, v
  <2> QED BY <1>1, <1>3
<1>6. Fits(r, frame) <=>
        r.width # 0 /\ r.height # 0 /\ h <= frame.width /\ v <= frame.height
  BY DEF Fits
<1>7. Slips(r, frame) <=>
        /\ r.width # 0 /\ r.height # 0 /\ (h >= m \/ v >= m)
        /\ h % m <= frame.width /\ v % m <= frame.height
  BY DEF Slips
<1>8. /\ ~(h % m > frame.width) <=> h % m <= frame.width
      /\ ~(v % m > frame.height) <=> v % m <= frame.height
  <2> HIDE DEF m, h, v
  <2> QED BY <1>1, <1>5
<1>9. Fits(r, frame) \/ Slips(r, frame) <=>
        ~(r.width = 0 \/ r.height = 0 \/ h % m > frame.width \/ v % m > frame.height)
  <2> HIDE DEF m, h, v
  <2> QED BY <1>4, <1>6, <1>7, <1>8
<1>10. CASE Fits(r, frame) \/ Slips(r, frame)
  BY <1>2, <1>9, <1>10 DEF ResolveRegion, Part
<1>11. CASE ~(Fits(r, frame) \/ Slips(r, frame))
  BY <1>2, <1>9, <1>11 DEF ResolveRegion, Part
<1> QED BY <1>10, <1>11

(* Two numbers that are each at most one less add up to two less.           *)
LEMMA EndsALittleBefore ==
  ASSUME NEW x \in Nat, NEW n \in Nat, NEW even \in {x, x - 1}, NEW length \in {n, n - 1}
  PROVE  even + length + 2 >= x + n
OBVIOUS

(* What rounding leaves of a part: its sides are even, and it begins and    *)
(* ends where it did or a little before.                                    *)
LEMMA Rounded ==
  ASSUME NEW p \in Rectangles
  PROVE  LET region == [f \in {"x", "y", "width", "height"} |-> RoundDownToEven(p[f])]
         IN  /\ region \in Rectangles
             /\ region.x \in {p.x, p.x - 1} /\ region.y \in {p.y, p.y - 1}
             /\ region.width \in {p.width, p.width - 1}
             /\ region.height \in {p.height, p.height - 1}
             /\ p.width >= 2 => region.width >= 2
             /\ p.height >= 2 => region.height >= 2
             /\ p.width = 1 => region.width = 0
             /\ p.height = 1 => region.height = 0
             /\ IsEven(region)
             /\ Keeps(region, p)
<1> DEFINE region == [f \in {"x", "y", "width", "height"} |-> RoundDownToEven(p[f])]
<1>1. p.x \in Nat /\ p.y \in Nat /\ p.width \in Nat /\ p.height \in Nat
  BY DEF Rectangles
<1>2. /\ region.x = RoundDownToEven(p.x) /\ region.y = RoundDownToEven(p.y)
      /\ region.width = RoundDownToEven(p.width) /\ region.height = RoundDownToEven(p.height)
  OBVIOUS
<1>3. RoundDownToEven(1) = 0
  BY DEF RoundDownToEven
<1>4. /\ region.x \in {p.x, p.x - 1} /\ region.y \in {p.y, p.y - 1}
      /\ region.width \in {p.width, p.width - 1} /\ region.height \in {p.height, p.height - 1}
      /\ region.x \in Nat /\ region.y \in Nat /\ region.width \in Nat /\ region.height \in Nat
      /\ region.x % 2 = 0 /\ region.y % 2 = 0 /\ region.width % 2 = 0 /\ region.height % 2 = 0
      /\ p.width >= 2 => region.width >= 2
      /\ p.height >= 2 => region.height >= 2
  BY <1>1, <1>2, EvenBelow
<1>5. (p.width = 1 => region.width = 0) /\ (p.height = 1 => region.height = 0)
  BY <1>2, <1>3
<1>6. region \in Rectangles
  BY <1>4 DEF Rectangles
<1>7. IsEven(region)
  BY <1>4 DEF IsEven
<1> HIDE DEF region
<1>8. Keeps(region, p)
  <2>1. region.x + region.width + 2 >= p.x + p.width
    BY <1>1, <1>4, EndsALittleBefore
  <2>2. region.y + region.height + 2 >= p.y + p.height
    BY <1>1, <1>4, EndsALittleBefore
  <2> QED BY <1>4, <2>1, <2>2 DEF Keeps
<1> QED BY <1>4, <1>5, <1>6, <1>7, <1>8 DEF region

(* Of a part that fits it leaves one that fits and can be read, unless the  *)
(* part is a single row or column.                                          *)
LEMMA RoundingStaysIn ==
  ASSUME NEW frame \in Frames, NEW p \in Rectangles, Fits(p, frame)
  PROVE  StaysIn([f \in {"x", "y", "width", "height"} |-> RoundDownToEven(p[f])], frame)
           <=> p.width # 1 /\ p.height # 1
<1> DEFINE region == [f \in {"x", "y", "width", "height"} |-> RoundDownToEven(p[f])]
<1>1. /\ p.x \in Nat /\ p.y \in Nat /\ p.width \in Nat /\ p.height \in Nat
      /\ p.width # 0 /\ p.height # 0
      /\ p.x + p.width <= frame.width /\ p.y + p.height <= frame.height
  BY DEF Rectangles, Fits
<1>2. frame.width \in Nat /\ frame.height \in Nat /\ frame.padding \in Nat
  BY FramesAreWide
<1>3. /\ region \in Rectangles
      /\ region.x \in {p.x, p.x - 1} /\ region.y \in {p.y, p.y - 1}
      /\ region.width \in {p.width, p.width - 1}
      /\ region.height \in {p.height, p.height - 1}
      /\ p.width >= 2 => region.width >= 2
      /\ p.height >= 2 => region.height >= 2
      /\ p.width = 1 => region.width = 0
      /\ p.height = 1 => region.height = 0
  BY Rounded
<1> HIDE DEF region
<1>4. region.x \in Nat /\ region.y \in Nat /\ region.width \in Nat /\ region.height \in Nat
  BY <1>3 DEF Rectangles
<1>5. ASSUME p.width = 1 \/ p.height = 1
      PROVE  ~StaysIn(region, frame)
  BY <1>3, <1>5 DEF StaysIn, Fits
<1>6. ASSUME p.width # 1, p.height # 1
      PROVE  StaysIn(region, frame)
  <2>1. region.width >= 2 /\ region.height >= 2
    BY <1>1, <1>3, <1>6
  <2>2. Fits(region, frame)
    BY <1>1, <1>2, <1>3, <1>4, <2>1 DEF Fits
  <2>3. /\ Stride(frame) \in Nat /\ region.x + region.width <= Stride(frame)
        /\ region.y + region.height <= frame.height /\ region.height >= 1
    BY <1>2, <1>4, <2>1, <2>2 DEF Fits, Stride
  <2>4. (region.y + region.height - 1) * Stride(frame) + region.x + region.width
          <= Stride(frame) * frame.height
    BY <2>3, <1>2, <1>4, ReadsInside
  <2> QED BY <2>2, <2>4 DEF StaysIn, LastRead
<1> QED BY <1>5, <1>6 DEF region

(* Of a part whose sums wrap it leaves one outside the frame.               *)
LEMMA SlippingLeaves ==
  ASSUME NEW frame \in Frames, NEW p \in Rectangles, Slips(p, frame)
  PROVE  ~StaysIn([f \in {"x", "y", "width", "height"} |-> RoundDownToEven(p[f])], frame)
<1> DEFINE region == [f \in {"x", "y", "width", "height"} |-> RoundDownToEven(p[f])]
           m == 2^Bits
<1>1. /\ p.x \in Nat /\ p.y \in Nat /\ p.width \in Nat /\ p.height \in Nat
      /\ p.x + p.width >= m \/ p.y + p.height >= m
  BY DEF Rectangles, Slips
<1>2. /\ frame.width \in Nat /\ frame.height \in Nat /\ m \in Nat
      /\ frame.width + 2 < m /\ frame.height + 2 < m
  BY FramesAreWide, SideAssumption
<1>3. /\ region.x \in {p.x, p.x - 1} /\ region.y \in {p.y, p.y - 1}
      /\ region.width \in {p.width, p.width - 1}
      /\ region.height \in {p.height, p.height - 1}
  BY Rounded
<1> HIDE DEF region, m
<1>4. region.x + region.width > frame.width \/ region.y + region.height > frame.height
  BY <1>1, <1>2, <1>3
<1>5. /\ region.x \in Int /\ region.y \in Int /\ region.width \in Int /\ region.height \in Int
  BY <1>1, <1>3
<1>6. ~Fits(region, frame)
  BY <1>2, <1>4, <1>5 DEF Fits
<1> QED BY <1>6 DEF StaysIn, region

(* What is recorded is even, the user's where that fits, and in the frame   *)
(* but for the crops that wrap or vanish: for every set of sides, regions   *)
(* and strides, and every crop that the stream's numbers can say            *)
(* (CSession::StartEncoder, ResolveRegion).                                 *)
THEOREM RegionsAreRecorded == RegionIsRecorded
<1> SUFFICES ASSUME NEW frame \in Frames, NEW requested \in Regions, NEW crop \in Crops
             PROVE  LET r      == Chosen(requested, crop)
                        region == ResolveRegion(r, frame)
                    IN  /\ IsEven(region)
                        /\ Fits(requested, frame) => Keeps(region, requested)
                        /\ StaysIn(region, frame) <=> ~Slips(r, frame) /\ ~Vanishes(r, frame)
  BY DEF RegionIsRecorded
<1> DEFINE r == Chosen(requested, crop)
           p == Part(r, frame)
           region == [f \in {"x", "y", "width", "height"} |-> RoundDownToEven(p[f])]
<1>1. r \in Rectangles
  BY ChosenIsARectangle
<1>2. Fits(requested, frame) => r = requested /\ p = requested
  BY DEF Chosen, Fits, Part
<1> HIDE DEF r
<1>3. Whole(frame) \in Rectangles /\ Fits(Whole(frame), frame)
      /\ Whole(frame).width # 1 /\ Whole(frame).height # 1
  BY FramesAreWide DEF Whole, Rectangles, Fits
<1>4. p \in Rectangles
  BY <1>1, <1>3 DEF Part
<1>5. ResolveRegion(r, frame) = region
  BY <1>1, TakesThePart
<1>6. Slips(r, frame) => ~Fits(r, frame)
  <2>1. /\ r.x \in Nat /\ r.y \in Nat /\ r.width \in Nat /\ r.height \in Nat
    BY <1>1 DEF Rectangles
  <2>2. /\ frame.width \in Nat /\ frame.height \in Nat /\ 2^Bits \in Nat
        /\ frame.width < 2^Bits /\ frame.height < 2^Bits
    BY FramesAreWide, SideAssumption
  <2> QED BY <2>1, <2>2 DEF Slips, Fits
<1> HIDE DEF region
<1>7. IsEven(region) /\ Keeps(region, p)
  <2> HIDE DEF p
  <2> QED BY <1>4, Rounded DEF region
<1>8. StaysIn(region, frame) <=> ~Slips(r, frame) /\ ~Vanishes(r, frame)
  <2>1. CASE Slips(r, frame)
    <3>1. p = r
      BY <2>1 DEF Part
    <3>2. ~StaysIn(region, frame)
      <4> HIDE DEF p
      <4> QED BY <1>4, <2>1, <3>1, SlippingLeaves DEF region
    <3> QED BY <2>1, <3>2
  <2>2. CASE Fits(r, frame)
    <3>1. p = r
      BY <2>2 DEF Part
    <3>2. StaysIn(region, frame) <=> p.width # 1 /\ p.height # 1
      <4> HIDE DEF p
      <4> QED BY <1>4, <2>2, <3>1, RoundingStaysIn DEF region
    <3> QED BY <1>6, <2>2, <3>1, <3>2 DEF Vanishes
  <2>3. CASE ~Slips(r, frame) /\ ~Fits(r, frame)
    <3>1. p = Whole(frame)
      BY <2>3 DEF Part
    <3>2. StaysIn(region, frame)
      <4> HIDE DEF p
      <4> QED BY <1>3, <3>1, RoundingStaysIn DEF region
    <3> QED BY <2>3, <3>2 DEF Vanishes
  <2> QED BY <2>1, <2>2, <2>3
<1>9. Fits(requested, frame) => Keeps(region, requested)
  BY <1>2, <1>7
<1> QED BY <1>5, <1>7, <1>8, <1>9 DEF r

(* So an encoder that runs was opened on what was chosen and reads inside   *)
(* the frame, but for the crops that RegionIsRecorded names                 *)
(* (CEncoder::Initialize, SubmitMapped).                                    *)
THEOREM EncodersRecordTheRegion == Spec => []RecordsTheRegion
<1>1. RecordsTheRegion
  BY RegionsAreRecorded DEF RecordsTheRegion
<1> QED BY <1>1, PTL

-----------------------------------------------------------------------------
(* The sound: AudioMix, whose names are its own.                            *)

(* The least and the largest of finitely many numbers.                      *)
LEMMA ExtremesLemma ==
  ASSUME NEW S \in SUBSET Int, IsFiniteSet(S), S # {}
  PROVE  /\ Max(S) \in S /\ \A x \in S : Max(S) >= x
         /\ Min(S) \in S /\ \A x \in S : Min(S) <= x
<1> DEFINE Extremes(T) == /\ \E x \in T : \A y \in T : x >= y
                          /\ \E x \in T : \A y \in T : x <= y
           Others == {T \in FiniteSubsetsOf(S) : T # {} /\ ~Extremes(T)}
<1>1. ASSUME Others # {} PROVE FALSE
  <2>1. IsWellFoundedOn(StrictSubsetOrdering(S), FiniteSubsetsOf(S))
    BY FS_StrictSubsetOrderingWellFounded
  <2>2. PICK T \in Others : \A U \in Others : ~ (<<U, T>> \in StrictSubsetOrdering(S))
    <3> HIDE DEF Others
    <3>1. Others \subseteq FiniteSubsetsOf(S)
      BY DEF Others
    <3> QED BY <1>1, <2>1, <3>1, WFMin
  <2>3. T \subseteq S /\ IsFiniteSet(T) /\ T # {} /\ ~Extremes(T)
    BY <2>2 DEF FiniteSubsetsOf
  <2>4. PICK x \in T : TRUE
    BY <2>3
  <2> DEFINE U == T \ {x}
  <2>5. U \subseteq S /\ IsFiniteSet(U) /\ U \in SUBSET T /\ U # T
    BY <2>3, <2>4, FS_Subset
  <2>6. <<U, T>> \in StrictSubsetOrdering(S) /\ U \in FiniteSubsetsOf(S)
    BY <2>3, <2>5 DEF StrictSubsetOrdering, FiniteSubsetsOf
  <2>7. U = {} \/ Extremes(U)
    BY <2>2, <2>6
  <2>8. T = U \cup {x} /\ x \in Int /\ U \subseteq Int
    BY <2>3, <2>4
  <2> HIDE DEF U
  <2>9. CASE U = {}
    BY <2>3, <2>8, <2>9
  <2>10. CASE Extremes(U)
    <3>1. PICK a \in U, b \in U : (\A y \in U : a >= y) /\ (\A y \in U : b <= y)
      BY <2>10
    <3>2. \E z \in T : \A y \in T : z >= y
      <4>1. CASE a >= x
        BY <2>8, <3>1, <4>1
      <4>2. CASE ~(a >= x)
        <5>1. \A y \in T : x >= y
          BY <2>8, <3>1, <4>2
        <5> QED BY <2>4, <5>1
      <4> QED BY <4>1, <4>2
    <3>3. \E z \in T : \A y \in T : z <= y
      <4>1. CASE b <= x
        BY <2>8, <3>1, <4>1
      <4>2. CASE ~(b <= x)
        <5>1. \A y \in T : x <= y
          BY <2>8, <3>1, <4>2
        <5> QED BY <2>4, <5>1
      <4> QED BY <4>1, <4>2
    <3> QED BY <2>3, <3>2, <3>3
  <2> QED BY <2>7, <2>9, <2>10
<1>2. S \in FiniteSubsetsOf(S)
  BY DEF FiniteSubsetsOf
<1>3. Extremes(S)
  BY <1>1, <1>2
<1> QED BY <1>3 DEF Max, Min

(* Of two.                                                                  *)
LEMMA PairLemma ==
  ASSUME NEW a \in Int, NEW b \in Int
  PROVE  /\ Max({a, b}) = IF a >= b THEN a ELSE b
         /\ Min({a, b}) = IF a <= b THEN a ELSE b
<1>1. IsFiniteSet({a, b})
  <2>1. IsFiniteSet({a} \cup {b})
    BY FS_Singleton, FS_Union
  <2>2. {a} \cup {b} = {a, b}
    OBVIOUS
  <2> QED BY <2>1, <2>2
<1>2. {a, b} \in SUBSET Int /\ {a, b} # {}
  OBVIOUS
<1> DEFINE S == {a, b}  x == Max(S)  n == Min(S)
<1>3. (x = a \/ x = b) /\ x >= a /\ x >= b /\ (n = a \/ n = b) /\ n <= a /\ n <= b
  <2> HIDE DEF x, n
  <2>1. x \in S /\ n \in S /\ (\A y \in S : x >= y) /\ (\A y \in S : n <= y)
    BY <1>1, <1>2, ExtremesLemma DEF x, n
  <2> QED BY <2>1
<1> HIDE DEF x, n
<1>4. x = (IF a >= b THEN a ELSE b) /\ n = IF a <= b THEN a ELSE b
  BY <1>3
<1> QED BY <1>4 DEF x, n

(* The least and the largest over all sources.                              *)
LEMMA OverSourcesLemma ==
  ASSUME NEW f \in [Sources -> Int]
  PROVE  LET S == {f[s] : s \in Sources}
         IN  /\ Max(S) \in S /\ \A s \in Sources : Max(S) >= f[s]
             /\ Min(S) \in S /\ \A s \in Sources : Min(S) <= f[s]
<1> DEFINE S == {f[s] : s \in Sources}
<1>1. f \in Surjection(Sources, S)
  BY DEF Surjection
<1>2. IsFiniteSet(S) /\ S \in SUBSET Int /\ S # {}
  BY <1>1, FS_Surjection, SizesAssumption
<1>3. /\ Max(S) \in S /\ \A x \in S : Max(S) >= x
      /\ Min(S) \in S /\ \A x \in S : Min(S) <= x
  <2> HIDE DEF S
  <2> QED BY <1>2, ExtremesLemma
<1>4. \A s \in Sources : f[s] \in S
  OBVIOUS
<1> QED BY <1>3, <1>4

(* Whole frames.                                                            *)
LEMMA FramesOfLemma ==
  ASSUME NEW m \in Nat, NEW size \in Nat \ {0}
  PROVE  /\ m \div size \in Nat /\ (m \div size) * size <= m /\ m < (m \div size) * size + size
         /\ \A n \in 1..(m \div size) : n * size \in Nat /\ size <= n * size /\ n * size <= m
<1> DEFINE n == m \div size
<1>1. n \in Nat /\ n * size <= m /\ m < n * size + size
  OBVIOUS
<1> HIDE DEF n
<1>2. ASSUME NEW k \in 1..n PROVE k * size \in Nat /\ size <= k * size /\ k * size <= m
  <2>1. PICK i \in Nat, j \in Nat : k = 1 + i /\ n = k + j
    <3>1. k - 1 \in Nat /\ n - k \in Nat /\ k = 1 + (k - 1) /\ n = k + (n - k)
      BY <1>1
    <3> QED BY <3>1
  <2>2. k * size = size + i * size /\ n * size = k * size + j * size
    BY <2>1
  <2>3. i * size \in Nat /\ j * size \in Nat
    OBVIOUS
  <2> QED BY <1>1, <2>2, <2>3
<1> QED BY <1>1, <1>2 DEF n

(* What is on a track, or in the file.                                      *)
Sounds == Seq(Nat \cup {Silence})

(* Nothing on a track is from before the first frame, nor, where no count   *)
(* of samples wraps, too early.                                             *)
PlacedInTime(q) ==
  \A i \in DOMAIN q :
    q[i] # Silence => /\ q[i] >= First
                      /\ MaxTime <= Counter => q[i] <= First + (i - 1) + GapThreshold

(* A function of the first n numbers is a sequence.                         *)
LEMMA SequenceLemma ==
  ASSUME NEW n \in Nat, NEW S, NEW f \in [1..n -> S]
  PROVE  f \in Seq(S) /\ Len(f) = n
<1>1. f \in Seq(S)
  BY SeqDef
<1>2. DOMAIN f = 1..n /\ DOMAIN f = 1..Len(f) /\ Len(f) \in Nat
  BY <1>1, LenProperties
<1> QED BY <1>1, <1>2

(* n samples of silence.                                                    *)
LEMMA SilentLemma ==
  ASSUME NEW n \in Nat
  PROVE  Silent(n) \in Sounds /\ Len(Silent(n)) = n /\ \A i \in 1..n : Silent(n)[i] = Silence
<1>1. Silent(n) \in [1..n -> Nat \cup {Silence}]
  BY DEF Silent
<1>2. Silent(n) \in Sounds /\ Len(Silent(n)) = n
  BY <1>1, SequenceLemma DEF Sounds
<1> QED BY <1>2 DEF Silent

(* Silence behind a track moves nothing on it.                              *)
LEMMA SilenceLemma ==
  ASSUME NEW q \in Sounds, NEW n \in Nat
  PROVE  /\ q \o Silent(n) \in Sounds /\ Len(q \o Silent(n)) = Len(q) + n
         /\ PlacedInTime(q) => PlacedInTime(q \o Silent(n))
<1> DEFINE m == Len(q)  e == Silent(n)  r == q \o e
<1>1. /\ e \in Sounds /\ Len(e) = n /\ \A i \in 1..n : e[i] = Silence
      /\ m \in Nat /\ DOMAIN q = 1..m
  BY SilentLemma, LenProperties DEF Sounds
<1> HIDE DEF e
<1>2. /\ r \in Sounds /\ Len(r) = m + n
      /\ \A i \in 1..m : r[i] = q[i]
      /\ \A i \in 1..n : r[m + i] = e[i]
  <2>1. q \in Seq(Nat \cup {Silence}) /\ e \in Seq(Nat \cup {Silence})
    BY <1>1 DEF Sounds
  <2>2. /\ r \in Seq(Nat \cup {Silence}) /\ Len(r) = m + Len(e)
        /\ \A i \in 1..m : r[i] = q[i]
        /\ \A i \in 1..Len(e) : r[m + i] = e[i]
    BY <2>1, AppendedLemma
  <2> QED BY <1>1, <2>2 DEF Sounds
<1>3. DOMAIN r = 1..m + n
  BY <1>2, LenProperties DEF Sounds
<1> HIDE DEF r, m
<1>4. ASSUME PlacedInTime(q) PROVE PlacedInTime(r)
  <2>1. SUFFICES ASSUME NEW i \in 1..m + n, r[i] # Silence
                 PROVE  r[i] >= First /\ (MaxTime <= Counter => r[i] <= First + (i - 1) + GapThreshold)
    BY <1>3 DEF PlacedInTime
  <2>2. CASE i <= m
    <3>1. i \in 1..m /\ r[i] = q[i]
      BY <1>1, <1>2, <2>2, <2>1
    <3> QED BY <1>1, <1>4, <2>1, <3>1 DEF PlacedInTime
  <2>3. CASE ~(i <= m)
    <3>1. i - m \in 1..n /\ m + (i - m) = i
      BY <1>1, <2>1, <2>3
    <3>2. r[i] = Silence
      BY <1>1, <1>2, <3>1
    <3> QED BY <2>1, <3>2
  <2> QED BY <2>2, <2>3
<1> QED BY <1>2, <1>4 DEF r, e, m

(* What is left of a buffer begins with the first frame or later.           *)
LEMMA TrimmedLemma ==
  ASSUME NEW start \in Nat, NEW n \in Nat \ {0}, start + n > First
  PROVE  LET from == Max({start, First})
         IN  /\ from \in Nat /\ from >= First /\ from >= start /\ (from = start \/ from = First)
             /\ start + n - from \in Nat
             /\ Trimmed(start, n) \in Sounds /\ Len(Trimmed(start, n)) = start + n - from
             /\ \A i \in 1..(start + n - from) : Trimmed(start, n)[i] = from + i - 1
<1> DEFINE from == Max({start, First})
           cut == IF start < First THEN Min({First - start, n}) ELSE 0
<1>1. First \in Nat
  BY SizesAssumption
<1>2. from = IF start >= First THEN start ELSE First
  BY <1>1, PairLemma
<1>3. cut = IF start < First THEN First - start ELSE 0
  BY <1>1, PairLemma
<1>4. Trimmed(start, n) = [i \in 1..(n - cut) |-> start + cut + i - 1]
  BY DEF Trimmed
<1> HIDE DEF from, cut
<1>5. /\ start + cut = from /\ n - cut = start + n - from /\ n - cut \in Nat
      /\ from \in Nat /\ from >= First /\ from >= start /\ (from = start \/ from = First)
  BY <1>1, <1>2, <1>3
<1>6. Trimmed(start, n) = [i \in 1..(start + n - from) |-> from + i - 1]
  BY <1>4, <1>5
<1>7. [i \in 1..(start + n - from) |-> from + i - 1] \in [1..(start + n - from) -> Nat \cup {Silence}]
  BY <1>5
<1>8. Trimmed(start, n) \in Sounds /\ Len(Trimmed(start, n)) = start + n - from
  BY <1>5, <1>6, <1>7, SequenceLemma DEF Sounds
<1>9. \A i \in 1..(start + n - from) : Trimmed(start, n)[i] = from + i - 1
  BY <1>6
<1> QED BY <1>5, <1>8, <1>9 DEF from

(* A count that wraps.                                                      *)
LEMMA WrapLemma ==
  ASSUME NEW x \in Nat, NEW c \in Nat \ {0}
  PROVE  x % c \in Nat /\ x % c <= x /\ (x < c => x % c = x)
<1>1. x % c \in 0..(c - 1)
  OBVIOUS
<1>2. PICK q \in Int : x = c * q + (x % c)
  <2>1. x \div c \in Int /\ x = c * (x \div c) + (x % c)
    OBVIOUS
  <2> QED BY <2>1
<1> DEFINE r == x % c
<1> HIDE DEF r
<1>3. r \in Nat /\ r < c /\ x = c * q + r
  BY <1>1, <1>2 DEF r
<1>4. CASE q < 0
  <2>1. PICK k \in Nat : q = -1 - k
    <3>1. -1 - q \in Nat /\ q = -1 - (-1 - q)
      BY <1>4
    <3> QED BY <3>1
  <2>2. c * q = -c - c * k /\ c * k \in Nat
    BY <2>1
  <2> QED BY <1>3, <2>2
<1>5. CASE q = 0
  BY <1>3, <1>5 DEF r
<1>6. CASE q > 0
  <2>1. PICK k \in Nat : q = 1 + k
    <3>1. q - 1 \in Nat /\ q = 1 + (q - 1)
      BY <1>6
    <3> QED BY <3>1
  <2>2. c * q = c + c * k /\ c * k \in Nat
    BY <2>1
  <2> QED BY <1>3, <2>2 DEF r
<1> QED BY <1>4, <1>5, <1>6

(* How much silence is written before a buffer.                             *)
LEMMA HoleLemma ==
  ASSUME NEW start \in Nat, NEW s \in Sources, Len(track[s]) \in Nat
  PROVE  LET from == Max({start, First})
         IN  /\ Hole(start, s) \in Nat
             /\ Hole(start, s) > 0 /\ Len(track[s]) < Counter => from - First - Len(track[s]) > GapThreshold
             /\ from < Counter => from - First <= Len(track[s]) + Hole(start, s) + GapThreshold
<1> DEFINE from == Max({start, First})
           len == Len(track[s])
           drift == Drift(start, s)
           hole == Hole(start, s)
<1>1. First \in Nat /\ GapThreshold \in Nat /\ Counter \in Nat \ {0}
  BY SizesAssumption
<1>2. from \in Nat /\ from >= First
  BY <1>1, PairLemma
<1> HIDE DEF from
<1>3. /\ len % Counter \in Nat /\ len % Counter <= len
      /\ len < Counter => len % Counter = len
  BY <1>1, WrapLemma
<1>4. drift = (from - First) - (len % Counter)
  BY DEF Drift, NumSamples, from
<1> HIDE DEF len, drift
<1>5. drift \in Int
  BY <1>1, <1>2, <1>3, <1>4
<1>6. hole = IF drift > GapThreshold THEN drift % Counter ELSE 0
  BY DEF Hole, drift
<1> HIDE DEF hole
<1>7. drift > GapThreshold => drift % Counter \in Nat /\ (drift < Counter => drift % Counter = drift)
  <2>1. drift > GapThreshold => drift \in Nat
    BY <1>1, <1>5
  <2> QED BY <1>1, <2>1, WrapLemma
<1>8. hole \in Nat
  BY <1>6, <1>7
<1>9. hole > 0 /\ len < Counter => from - First - len > GapThreshold
  BY <1>1, <1>2, <1>3, <1>4, <1>6
<1>10. ASSUME from < Counter PROVE from - First <= len + hole + GapThreshold
  <2>1. len \in Nat
    BY DEF len
  <2>2. CASE drift > GapThreshold
    <3>1. hole = drift
      BY <1>1, <1>2, <1>3, <1>4, <1>5, <1>6, <1>7, <1>10, <2>2
    <3> QED BY <1>1, <1>2, <1>3, <1>4, <2>1, <3>1
  <2>3. CASE ~(drift > GapThreshold)
    <3>1. hole = 0
      BY <1>6, <2>3
    <3> QED BY <1>1, <1>2, <1>3, <1>4, <1>5, <2>1, <2>3, <3>1
  <2> QED BY <2>2, <2>3
<1> QED BY <1>8, <1>9, <1>10 DEF hole, len, from

(* A buffer is put where it belongs or later.                               *)
LEMMA PlacedLemma ==
  ASSUME track \in [Sources -> Sounds], NEW s \in Sources, NEW start \in Nat, NEW n \in Nat \ {0},
         start + n > First, start + n <= MaxTime
  PROVE  LET from == Max({start, First})
             t == Placed(s, start, n)
         IN  /\ t \in [Sources -> Sounds] /\ \A r \in Sources : r # s => t[r] = track[r]
             /\ Len(t[s]) = Len(track[s]) + Hole(start, s) + (start + n - from)
             /\ PlacedInTime(track[s]) => PlacedInTime(t[s])
<1> DEFINE from == Max({start, First})
           t == Placed(s, start, n)
           hole == Hole(start, s)
           e == Trimmed(start, n)
           a == track[s] \o Silent(hole)
           len == Len(track[s])
<1>1. /\ track[s] \in Sounds /\ len \in Nat
      /\ First \in Nat /\ GapThreshold \in Nat /\ Counter \in Nat \ {0} /\ MaxTime \in Nat
  BY SizesAssumption, LenProperties DEF Sounds
<1>2. /\ from \in Nat /\ from >= First /\ (from = start \/ from = First)
      /\ start + n - from \in Nat
      /\ e \in Sounds /\ Len(e) = start + n - from
      /\ \A i \in 1..(start + n - from) : e[i] = from + i - 1
  BY TrimmedLemma
<1>3. hole \in Nat /\ (from < Counter => from - First <= len + hole + GapThreshold)
  BY <1>1, HoleLemma
<1>4. t = [track EXCEPT ![s] = a \o e]
  BY DEF Placed
<1> HIDE DEF from, hole, e
<1>5. a \in Sounds /\ Len(a) = len + hole /\ (PlacedInTime(track[s]) => PlacedInTime(a))
  BY <1>1, <1>3, SilenceLemma
<1> HIDE DEF a, len
<1> DEFINE c == a \o e
           m == start + n - from
<1>6. /\ c \in Sounds /\ Len(c) = len + hole + m /\ DOMAIN c = 1..len + hole + m
      /\ \A i \in 1..(len + hole) : c[i] = a[i]
      /\ \A i \in 1..m : c[len + hole + i] = e[i]
  <2>1. a \in Seq(Nat \cup {Silence}) /\ e \in Seq(Nat \cup {Silence})
    BY <1>2, <1>5 DEF Sounds
  <2>2. /\ c \in Seq(Nat \cup {Silence}) /\ Len(c) = Len(a) + Len(e)
        /\ \A i \in 1..Len(a) : c[i] = a[i]
        /\ \A i \in 1..Len(e) : c[Len(a) + i] = e[i]
    BY <2>1, AppendedLemma
  <2>3. DOMAIN c = 1..Len(c)
    BY <2>2, LenProperties
  <2> HIDE DEF c
  <2> QED BY <1>2, <1>5, <2>2, <2>3 DEF Sounds
<1>7. from + m <= MaxTime /\ m \in Nat
  BY <1>2
<1> HIDE DEF c, m, t
<1>8. ASSUME PlacedInTime(track[s]) PROVE PlacedInTime(c)
  <2>1. SUFFICES ASSUME NEW i \in 1..len + hole + m, c[i] # Silence
                 PROVE  c[i] >= First /\ (MaxTime <= Counter => c[i] <= First + (i - 1) + GapThreshold)
    BY <1>6 DEF PlacedInTime
  <2>2. CASE i <= len + hole
    <3>1. i \in 1..(len + hole) /\ c[i] = a[i]
      BY <1>6, <2>2
    <3>2. i \in DOMAIN a
      BY <1>5, <3>1, LenProperties DEF Sounds
    <3> QED BY <1>5, <1>8, <2>1, <3>1, <3>2 DEF PlacedInTime
  <2>3. CASE ~(i <= len + hole)
    <3>1. PICK j \in 1..m : i = len + hole + j
      <4>1. len + hole \in Nat
        BY <1>1, <1>3 DEF len
      <4>2. i - (len + hole) \in 1..m /\ i = len + hole + (i - (len + hole))
        BY <1>7, <2>3, <4>1
      <4> QED BY <4>2
    <3>2. c[i] = from + j - 1
      BY <1>2, <1>6, <3>1 DEF m
    <3>3. MaxTime <= Counter => from < Counter
      BY <1>1, <1>2, <1>7, <3>1
    <3> QED BY <1>1, <1>2, <1>3, <1>7, <3>1, <3>2, <3>3 DEF len
  <2> QED BY <2>2, <2>3
<1>9. /\ t \in [Sources -> Sounds] /\ \A r \in Sources : r # s => t[r] = track[r]
      /\ t[s] = c
  BY <1>4, <1>6 DEF c
<1> QED BY <1>6, <1>8, <1>9 DEF t, from, hole, len, m

(* Levelled, no source is behind another by more than is tolerated, and     *)
(* only silence has been added.                                             *)
LEMMA LevelLemma ==
  ASSUME NEW t \in [Sources -> Sounds], NEW tolerance \in Nat
  PROVE  LET u == LevelSources(t, tolerance)
         IN  /\ u \in [Sources -> Sounds]
             /\ \A s \in Sources : Len(t[s]) <= Len(u[s]) /\ (PlacedInTime(t[s]) => PlacedInTime(u[s]))
             /\ \A r, s \in Sources : Len(u[r]) <= Len(u[s]) + tolerance
<1> DEFINE f == [s \in Sources |-> Len(t[s])]
           longest == Max({Len(t[s]) : s \in Sources})
           u == LevelSources(t, tolerance)
<1>1. \A s \in Sources : t[s] \in Sounds /\ Len(t[s]) \in Nat
  BY LenProperties DEF Sounds
<1>2. longest \in Nat /\ \A s \in Sources : Len(t[s]) <= longest
  <2>1. f \in [Sources -> Int] /\ {f[s] : s \in Sources} = {Len(t[s]) : s \in Sources}
    BY <1>1
  <2>2. Max({f[r] : r \in Sources}) \in {f[r] : r \in Sources} /\ \A r \in Sources : Max({f[q] : q \in Sources}) >= f[r]
    <3> HIDE DEF f
    <3> QED BY <2>1, OverSourcesLemma
  <2>3. longest \in {Len(t[s]) : s \in Sources} /\ \A s \in Sources : longest >= Len(t[s])
    BY <2>1, <2>2
  <2> HIDE DEF longest
  <2> QED BY <1>1, <2>3
<1>3. u = [s \in Sources |-> IF longest - Len(t[s]) > tolerance THEN t[s] \o Silent(longest - Len(t[s])) ELSE t[s]]
  BY DEF LevelSources
<1> HIDE DEF longest, u
<1>4. ASSUME NEW s \in Sources
      PROVE  /\ u[s] \in Sounds /\ Len(t[s]) <= Len(u[s]) /\ (PlacedInTime(t[s]) => PlacedInTime(u[s]))
             /\ Len(u[s]) \in Nat /\ Len(u[s]) <= longest /\ longest <= Len(u[s]) + tolerance
  <2>1. CASE longest - Len(t[s]) > tolerance
    <3>1. longest - Len(t[s]) \in Nat
      BY <1>1, <1>2
    <3>2. u[s] = t[s] \o Silent(longest - Len(t[s]))
      BY <1>3, <2>1
    <3>3. u[s] \in Sounds /\ Len(u[s]) = Len(t[s]) + (longest - Len(t[s])) /\ (PlacedInTime(t[s]) => PlacedInTime(u[s]))
      BY <1>1, <3>1, <3>2, SilenceLemma
    <3> QED BY <1>1, <1>2, <3>1, <3>3
  <2>2. CASE ~(longest - Len(t[s]) > tolerance)
    <3>1. u[s] = t[s]
      BY <1>3, <2>2
    <3> QED BY <1>1, <1>2, <2>2, <3>1
  <2> QED BY <2>1, <2>2
<1>5. u \in [Sources -> Sounds]
  <2>1. u = [s \in Sources |-> u[s]]
    BY <1>3
  <2> QED BY <1>4, <2>1
<1>6. ASSUME NEW r \in Sources, NEW s \in Sources PROVE Len(u[r]) <= Len(u[s]) + tolerance
  <2>1. /\ Len(u[r]) \in Nat /\ Len(u[r]) <= longest
        /\ Len(u[s]) \in Nat /\ longest <= Len(u[s]) + tolerance
    BY <1>4
  <2> QED BY <1>2, <2>1
<1> QED BY <1>4, <1>5, <1>6 DEF u

(* The first k samples of a mix.                                            *)
Count(k) == [i \in 1..k |-> i]

(* What the variables hold.                                                 *)
MixTypes ==
  /\ track \in [Sources -> Sounds] /\ sound \in Sounds
  /\ clock \in [Sources -> Nat] /\ filled \in [Sources -> Nat] /\ skipped \in [Sources -> Nat]
  /\ mixed \in Nat /\ encoded \in Nat /\ largest \in Nat /\ failures \in Nat
  /\ stage \in {"recording", "tail", "finished"}

(* The file is not ahead of the mix, nor the mix of a source.               *)
FileIsCounted == encoded <= mixed /\ Len(sound) = encoded
MixIsCounted  == \A s \in Sources : Len(track[s]) >= mixed

(* Unless a frame failed, what is mixed is in the file, in that order.      *)
MixIsKept ==
  failures = 0 => /\ encoded = mixed /\ sound = Count(mixed)
                  /\ largest <= FrameSize

(* The next k samples, m taken.                                             *)
IsMix(e, m, k) == e \in [1..k -> Nat] /\ \A i \in 1..k : e[i] = m + i

(* The samples of a mix, and those it is added to.                          *)
LEMMA SamplesLemma ==
  ASSUME NEW m \in Nat, NEW k \in Nat, NEW q \in Sounds, NEW e, IsMix(e, m, k)
  PROVE  /\ q \o e \in Sounds /\ Len(q \o e) = Len(q) + k
         /\ q = Count(m) => q \o e = Count(m + k)
<1> DEFINE r == q \o e
<1>1. e \in [1..k -> Nat \cup {Silence}] /\ \A i \in 1..k : e[i] = m + i
  BY DEF IsMix
<1>2. e \in Seq(Nat \cup {Silence}) /\ Len(e) = k
  BY <1>1, SequenceLemma
<1>3. q \in Seq(Nat \cup {Silence}) /\ Len(q) \in Nat
  BY LenProperties DEF Sounds
<1>4. /\ r \in Seq(Nat \cup {Silence}) /\ Len(r) = Len(q) + Len(e)
      /\ \A i \in 1..Len(q) : r[i] = q[i]
      /\ \A i \in 1..Len(e) : r[Len(q) + i] = e[i]
  <2>1. q \in Seq(Nat \cup {Silence}) /\ e \in Seq(Nat \cup {Silence})
    BY <1>2, <1>3
  <2> QED BY <2>1, AppendedLemma
<1> HIDE DEF r
<1>5. ASSUME q = Count(m) PROVE r = Count(m + k)
  <2>1. Len(q) = m /\ \A i \in 1..m : q[i] = i
    <3>1. q \in [1..m -> Nat] /\ \A i \in 1..m : q[i] = i
      BY <1>5 DEF Count
    <3>2. Len(q) = m
      BY <3>1, SequenceLemma
    <3> QED BY <3>1, <3>2
  <2>2. r \in [1..Len(r) -> Nat \cup {Silence}] /\ Len(r) = m + k
    <3>1. r \in [1..Len(r) -> Nat \cup {Silence}]
      BY <1>4, LenProperties
    <3> QED BY <1>2, <1>4, <2>1, <3>1
  <2>3. ASSUME NEW i \in 1..(m + k) PROVE r[i] = i
    <3>1. CASE i <= m
      <4>1. i \in 1..m
        BY <3>1
      <4> QED BY <1>4, <2>1, <4>1
    <3>2. CASE ~(i <= m)
      <4>1. i - m \in 1..k /\ m + (i - m) = i
        BY <3>2
      <4>2. r[m + (i - m)] = e[i - m]
        BY <1>2, <1>4, <2>1, <4>1
      <4> QED BY <1>1, <4>1, <4>2
    <3> QED BY <3>1, <3>2
  <2>4. r = [i \in 1..(m + k) |-> r[i]]
    BY <2>2
  <2> QED BY <2>3, <2>4 DEF Count
<1> QED BY <1>2, <1>4, <1>5 DEF r, Sounds

(* n frames of a mix, with what the last may do to it.                      *)
LEMMA MixedFramesLemma ==
  ASSUME MixTypes, FileIsCounted,
         NEW n \in Nat, NEW size \in Nat, NEW ok \in BOOLEAN,
         n * size \in Nat, n > 0 => size <= n * size,
         EncodeMixedFrames(n, size, ok)
  PROVE  /\ sound' \in Sounds /\ mixed' \in Nat /\ encoded' \in Nat /\ largest' \in Nat /\ failures' \in Nat
         /\ mixed' = mixed + n * size /\ encoded' <= mixed' /\ Len(sound') = encoded'
         /\ failures' = (IF ok THEN failures ELSE failures + 1)
         /\ ok /\ encoded = mixed /\ sound = Count(mixed) => encoded' = mixed' /\ sound' = Count(mixed')
         /\ (n > 0 => size <= FrameSize) /\ largest <= FrameSize => largest' <= FrameSize
<1> DEFINE taken == n * size
           kept == taken - size
           Samples(k) == [i \in 1..k |-> mixed + i]
<1>1. /\ sound \in Sounds /\ mixed \in Nat /\ encoded \in Nat /\ largest \in Nat /\ failures \in Nat
      /\ taken \in Nat /\ encoded <= mixed
  BY DEF MixTypes, FileIsCounted
<1>2. /\ mixed' = mixed + taken
      /\ largest' = (IF n > 0 THEN Max({largest, size}) ELSE largest)
      /\ \/ /\ ok /\ encoded' = encoded + taken /\ sound' = sound \o Samples(taken) /\ failures' = failures
         \/ /\ ~ok /\ n > 0 /\ failures' = failures + 1
            /\ \/ encoded' = encoded + kept /\ sound' = sound \o Samples(kept)
               \/ encoded' = encoded + taken /\ sound' = (sound \o Samples(kept)) \o Silent(size)
  BY DEF EncodeMixedFrames, Failure
<1> HIDE DEF Samples
<1>3. n > 0 => kept \in Nat /\ kept + size = taken
  BY <1>1
<1> HIDE DEF taken, kept
<1>4. largest' \in Nat /\ ((n > 0 => size <= FrameSize) /\ largest <= FrameSize => largest' <= FrameSize)
  <2>1. Max({largest, size}) = IF largest >= size THEN largest ELSE size
    BY <1>1, PairLemma
  <2> QED BY <1>1, <1>2, <2>1
<1>5. CASE ok
  <2>1. mixed' = mixed + taken /\ encoded' = encoded + taken /\ sound' = sound \o Samples(taken) /\ failures' = failures
    BY <1>2, <1>5
  <2>2. /\ sound' \in Sounds /\ Len(sound') = encoded + taken
        /\ sound = Count(mixed) => sound' = Count(mixed + taken)
    <3> DEFINE e == Samples(taken)
    <3>1. IsMix(e, mixed, taken)
      BY <1>1 DEF Samples, IsMix
    <3> HIDE DEF e
    <3>2. /\ sound \o e \in Sounds /\ Len(sound \o e) = Len(sound) + taken
          /\ sound = Count(mixed) => sound \o e = Count(mixed + taken)
      BY <1>1, <3>1, SamplesLemma
    <3> QED BY <2>1, <3>2 DEF e, FileIsCounted
  <2> QED BY <1>1, <1>4, <1>5, <2>1, <2>2 DEF taken
<1>6. CASE ~ok
  <2> DEFINE q == sound \o Samples(kept)
  <2>1. /\ n > 0 /\ failures' = failures + 1 /\ mixed' = mixed + taken
        /\ \/ encoded' = encoded + kept /\ sound' = q
           \/ encoded' = encoded + taken /\ sound' = q \o Silent(size)
    BY <1>2, <1>6
  <2>2. kept \in Nat /\ kept + size = taken
    BY <1>3, <2>1
  <2>3. q \in Sounds /\ Len(q) = encoded + kept
    <3> DEFINE e == Samples(kept)
    <3>1. IsMix(e, mixed, kept)
      BY <1>1, <2>2 DEF Samples, IsMix
    <3> HIDE DEF e
    <3>2. sound \o e \in Sounds /\ Len(sound \o e) = Len(sound) + kept
      BY <1>1, <2>2, <3>1, SamplesLemma
    <3> QED BY <3>2 DEF e, FileIsCounted
  <2> HIDE DEF q
  <2>4. q \o Silent(size) \in Sounds /\ Len(q \o Silent(size)) = encoded + kept + size
    BY <2>3, SilenceLemma
  <2>5. sound' \in Sounds /\ Len(sound') = encoded' /\ encoded' \in Nat /\ encoded' <= mixed'
    <3>1. CASE encoded' = encoded + kept /\ sound' = q
      BY <1>1, <2>1, <2>2, <2>3, <3>1
    <3>2. CASE encoded' = encoded + taken /\ sound' = q \o Silent(size)
      BY <1>1, <2>1, <2>2, <2>4, <3>2
    <3> QED BY <2>1, <3>1, <3>2
  <2> QED BY <1>1, <1>4, <1>6, <2>1, <2>5 DEF taken
<1> QED BY <1>5, <1>6

(* The frames every fifo holds: none is left if none fails.                 *)
LEMMA AudioFramesLemma ==
  ASSUME MixTypes, FileIsCounted, MixIsKept,
         NEW t \in [Sources -> Sounds], \A s \in Sources : Len(t[s]) >= mixed,
         EncodeAudioFrames(t)
  PROVE  /\ sound' \in Sounds /\ mixed' \in Nat /\ encoded' \in Nat /\ largest' \in Nat /\ failures' \in Nat
         /\ \A s \in Sources : Len(t[s]) >= mixed'
         /\ encoded' <= mixed' /\ Len(sound') = encoded'
         /\ failures' = 0 => /\ failures = 0 /\ \E s \in Sources : Len(t[s]) - mixed' < FrameSize
                             /\ encoded' = mixed' /\ sound' = Count(mixed') /\ largest' <= FrameSize
<1> DEFINE f == [s \in Sources |-> Fifo(t, s)]
           least == Min({Fifo(t, s) : s \in Sources})
<1>1. mixed \in Nat /\ failures \in Nat /\ FrameSize \in Nat \ {0}
  BY SizesAssumption DEF MixTypes
<1>2. \A s \in Sources : Len(t[s]) \in Nat /\ Fifo(t, s) = Len(t[s]) - mixed /\ Fifo(t, s) \in Nat
  <2>1. \A s \in Sources : Len(t[s]) \in Nat
    BY LenProperties DEF Sounds
  <2> QED BY <1>1, <2>1 DEF Fifo
<1>3. least \in Nat /\ (\A s \in Sources : least <= Fifo(t, s)) /\ \E s \in Sources : least = Fifo(t, s)
  <2>1. f \in [Sources -> Int] /\ {f[s] : s \in Sources} = {Fifo(t, s) : s \in Sources}
    BY <1>2
  <2>2. Min({f[s] : s \in Sources}) \in {f[s] : s \in Sources} /\ \A s \in Sources : Min({f[r] : r \in Sources}) <= f[s]
    <3> HIDE DEF f
    <3> QED BY <2>1, OverSourcesLemma
  <2>3. least \in {Fifo(t, s) : s \in Sources} /\ \A s \in Sources : least <= Fifo(t, s)
    BY <2>1, <2>2
  <2> HIDE DEF least
  <2> QED BY <1>2, <2>3
<1>4. Ready(t) = least \div FrameSize
  BY DEF Ready
<1> HIDE DEF f, least
<1> DEFINE ready == least \div FrameSize
<1>5. /\ ready \in Nat /\ ready * FrameSize <= least /\ least < ready * FrameSize + FrameSize
      /\ \A n \in 1..ready : n * FrameSize \in Nat /\ FrameSize <= n * FrameSize /\ n * FrameSize <= least
  BY <1>1, <1>3, FramesOfLemma
<1>6. PICK n \in 0..ready, ok \in BOOLEAN : EncodeMixedFrames(n, FrameSize, ok) /\ (ok => n = ready)
  <2>1. \/ EncodeMixedFrames(ready, FrameSize, TRUE)
        \/ \E n \in 1..ready : EncodeMixedFrames(n, FrameSize, FALSE)
    BY <1>4 DEF EncodeAudioFrames
  <2> HIDE DEF ready
  <2>2. CASE EncodeMixedFrames(ready, FrameSize, TRUE)
    <3>1. ready \in 0..ready /\ TRUE \in BOOLEAN
      BY <1>5
    <3> QED BY <2>2, <3>1
  <2>3. ASSUME NEW n \in 1..ready, EncodeMixedFrames(n, FrameSize, FALSE)
        PROVE  \E k \in 0..ready, ok \in BOOLEAN : EncodeMixedFrames(k, FrameSize, ok) /\ (ok => k = ready)
    <3>1. n \in 0..ready /\ FALSE \in BOOLEAN
      BY <1>5
    <3> QED BY <2>3, <3>1
  <2> QED BY <2>1, <2>2, <2>3
<1> HIDE DEF ready
<1>7. n \in Nat /\ n * FrameSize \in Nat /\ n * FrameSize <= least /\ (n > 0 => FrameSize <= n * FrameSize)
  <2>1. CASE n = 0
    <3>1. n * FrameSize = 0
      BY <1>1, <2>1
    <3> QED BY <1>3, <2>1, <3>1
  <2>2. CASE n # 0
    <3>1. n \in 1..ready
      BY <1>5, <2>2
    <3> QED BY <1>5, <3>1
  <2> QED BY <2>1, <2>2
<1>8. /\ sound' \in Sounds /\ mixed' \in Nat /\ encoded' \in Nat /\ largest' \in Nat /\ failures' \in Nat
      /\ mixed' = mixed + n * FrameSize /\ encoded' <= mixed' /\ Len(sound') = encoded'
      /\ failures' = (IF ok THEN failures ELSE failures + 1)
      /\ ok /\ encoded = mixed /\ sound = Count(mixed) => encoded' = mixed' /\ sound' = Count(mixed')
      /\ (n > 0 => FrameSize <= FrameSize) /\ largest <= FrameSize => largest' <= FrameSize
  BY <1>1, <1>6, <1>7, MixedFramesLemma
<1>9. \A s \in Sources : Len(t[s]) >= mixed'
  <2>1. ASSUME NEW s \in Sources PROVE Len(t[s]) >= mixed'
    <3>1. least <= Len(t[s]) - mixed /\ Len(t[s]) \in Nat
      BY <1>2, <1>3
    <3> QED BY <1>1, <1>3, <1>7, <1>8, <3>1
  <2> QED BY <2>1
<1>10. ASSUME failures' = 0
       PROVE  /\ failures = 0 /\ \E s \in Sources : Len(t[s]) - mixed' < FrameSize
              /\ encoded' = mixed' /\ sound' = Count(mixed') /\ largest' <= FrameSize
  <2>1. ok /\ failures = 0
    BY <1>1, <1>8, <1>10
  <2>2. encoded = mixed /\ sound = Count(mixed) /\ largest <= FrameSize
    BY <2>1 DEF MixIsKept
  <2>3. PICK s \in Sources : least = Len(t[s]) - mixed /\ Len(t[s]) \in Nat
    BY <1>2, <1>3
  <2>4. mixed' = mixed + ready * FrameSize
    BY <1>6, <1>8, <2>1
  <2>5. Len(t[s]) - mixed' < FrameSize
    <3> DEFINE taken == ready * FrameSize
    <3>1. taken \in Nat /\ least < taken + FrameSize /\ mixed' = mixed + taken
      BY <1>6, <1>7, <1>5, <2>1, <2>4
    <3> HIDE DEF taken
    <3> QED BY <1>1, <1>3, <2>3, <3>1
  <2>6. largest' <= FrameSize /\ encoded' = mixed' /\ sound' = Count(mixed')
    BY <1>1, <1>8, <2>1, <2>2
  <2> QED BY <2>1, <2>5, <2>6
<1> QED BY <1>8, <1>9, <1>10

(* No source has anything too early on its track.                           *)
TracksInTime == \A s \in Sources : PlacedInTime(track[s])

(* The sources stay together, and the mix with them.                        *)
Together ==
  /\ stage = "recording" /\ failures = 0 =>
       \A s \in Sources : Len(track[s]) - mixed < StallTolerance + FrameSize
  /\ stage # "recording" => \A r, s \in Sources : Len(track[r]) = Len(track[s])
  /\ stage = "tail" /\ failures = 0 => \A s \in Sources : Len(track[s]) - mixed < FrameSize
  /\ stage = "finished" /\ failures = 0 => \A s \in Sources : Len(track[s]) = mixed

(* No track is so long that its count wraps.                                *)
Unwrapped == \A s \in Sources : Len(track[s]) < Counter

(* A source's time is on its track, but for what it skipped; and silence was*)
(* put there only where it skipped more than is let pass.                   *)
TimeIsOnTrack ==
  \A s \in Sources :
    /\ clock[s] > First => clock[s] - First <= Len(track[s]) + skipped[s]
    /\ filled[s] > 0 => skipped[s] > GapThreshold
Skips == Unwrapped => TimeIsOnTrack

(* The inductive invariant.                                                 *)
MixInv ==
  MixTypes /\ FileIsCounted /\ MixIsCounted /\ MixIsKept /\ TracksInTime /\ Together /\ Skips

(* It holds when the recording starts.                                      *)
LEMMA MixStarts == MixInit => MixInv
<1> SUFFICES ASSUME MixInit PROVE MixInv
  OBVIOUS
<1>1. <<>> \in Sounds /\ Len(<<>>) = 0
  BY DEF Sounds
<1>2. <<>> = Count(0)
  BY DEF Count
<1>3. /\ FrameSize \in Nat \ {0} /\ StallTolerance \in Nat /\ First \in Nat
  BY SizesAssumption
<1>4. \A s \in Sources : track[s] = <<>>
  BY DEF MixInit
<1>5. MixTypes
  BY <1>1 DEF MixInit, MixTypes
<1>6. FileIsCounted /\ MixIsCounted
  BY <1>1, <1>4 DEF MixInit, FileIsCounted, MixIsCounted
<1>7. MixIsKept
  BY <1>2, <1>3 DEF MixInit, MixIsKept
<1>8. TracksInTime
  BY <1>4 DEF TracksInTime, PlacedInTime
<1>9. Together
  BY <1>1, <1>3, <1>4 DEF MixInit, Together
<1>10. Skips
  BY <1>3 DEF MixInit, Skips, TimeIsOnTrack
<1> QED BY <1>5, <1>6, <1>7, <1>8, <1>9, <1>10 DEF MixInv

(* What the frames of one call leave behind, whoever made the call.         *)
LEMMA FramesKeepLemma ==
  ASSUME MixInv, track' \in [Sources -> Sounds], \A s \in Sources : Len(track'[s]) >= Len(track[s]),
         EncodeAudioFrames(track')
  PROVE  /\ sound' \in Sounds /\ mixed' \in Nat /\ encoded' \in Nat /\ largest' \in Nat /\ failures' \in Nat
         /\ FileIsCounted' /\ MixIsCounted' /\ MixIsKept'
         /\ failures' = 0 => failures = 0 /\ \E s \in Sources : Len(track'[s]) - mixed' < FrameSize
<1>1. MixTypes /\ FileIsCounted /\ MixIsKept /\ MixIsCounted
  BY DEF MixInv
<1>2. \A s \in Sources : Len(track'[s]) >= mixed
  <2>1. ASSUME NEW s \in Sources PROVE Len(track'[s]) >= mixed
    <3>1. Len(track'[s]) \in Nat /\ Len(track[s]) \in Nat /\ mixed \in Nat /\ Len(track[s]) >= mixed
      BY <1>1, LenProperties DEF MixTypes, MixIsCounted, Sounds
    <3> QED BY <3>1
  <2> QED BY <2>1
<1> DEFINE t == track'
<1>3. t \in [Sources -> Sounds] /\ (\A s \in Sources : Len(t[s]) >= mixed) /\ EncodeAudioFrames(t)
  BY <1>2
<1> HIDE DEF t
<1>4. /\ sound' \in Sounds /\ mixed' \in Nat /\ encoded' \in Nat /\ largest' \in Nat /\ failures' \in Nat
      /\ \A s \in Sources : Len(t[s]) >= mixed'
      /\ encoded' <= mixed' /\ Len(sound') = encoded'
      /\ failures' = 0 => /\ failures = 0 /\ \E s \in Sources : Len(t[s]) - mixed' < FrameSize
                          /\ encoded' = mixed' /\ sound' = Count(mixed') /\ largest' <= FrameSize
  BY <1>1, <1>3, AudioFramesLemma
<1>5. FileIsCounted' /\ MixIsCounted' /\ MixIsKept'
  BY <1>4 DEF FileIsCounted, MixIsCounted, MixIsKept, t, Count
<1> QED BY <1>4, <1>5 DEF t

(* A buffer of one source.                                                  *)
LEMMA SubmitAudioLemma ==
  ASSUME MixInv, NEW s \in Sources, SubmitAudio(s)
  PROVE  MixInv'
<1>1. PICK n \in BufferSizes, start \in (clock[s] - MaxJitter)..(clock[s] + MaxHole) :
        /\ stage = "recording" /\ stage' = stage /\ start >= 0 /\ start + n <= MaxTime
        /\ clock' = [clock EXCEPT ![s] = start + n]
        /\ skipped' = [skipped EXCEPT ![s] = @ + Max({0, start - Max({clock[s], First})})]
        /\ IF start + n <= First
           THEN UNCHANGED <<track, mixed, encoded, sound, largest, filled, failures>>
           ELSE /\ track' = LevelSources(Placed(s, start, n), StallTolerance)
                /\ EncodeAudioFrames(track')
                /\ filled' = [filled EXCEPT ![s] = @ + Hole(start, s)]
  BY DEF SubmitAudio
<1>2. MixTypes /\ MixIsCounted /\ FileIsCounted /\ MixIsKept /\ TracksInTime /\ Together /\ Skips
  BY DEF MixInv
<1>3. /\ First \in Nat /\ MaxTime \in Nat /\ MaxJitter \in Nat /\ MaxHole \in Nat
      /\ StallTolerance \in Nat /\ GapThreshold \in Nat /\ FrameSize \in Nat \ {0} /\ n \in Nat \ {0}
  BY SizesAssumption
<1>4. start \in Nat /\ clock[s] \in Nat /\ skipped[s] \in Nat /\ filled[s] \in Nat
  <2>1. clock[s] \in Nat /\ skipped[s] \in Nat /\ filled[s] \in Nat
    BY <1>2 DEF MixTypes
  <2> QED BY <1>1, <1>3, <2>1
<1> DEFINE new == Max({0, start - Max({clock[s], First})})
<1>5. /\ new \in Nat /\ start - First <= new + (IF clock[s] > First THEN clock[s] - First ELSE 0)
  <2> DEFINE joined == Max({clock[s], First})
  <2>1. joined = IF clock[s] >= First THEN clock[s] ELSE First
    BY <1>3, <1>4, PairLemma
  <2>2. joined \in Nat
    BY <1>3, <1>4, <2>1
  <2>3. new = IF 0 >= start - joined THEN 0 ELSE start - joined
    <3> HIDE DEF joined
    <3>1. 0 \in Int /\ start - joined \in Int
      BY <1>4, <2>2
    <3>2. Max({0, start - joined}) = IF 0 >= start - joined THEN 0 ELSE start - joined
      BY <3>1, PairLemma
    <3> QED BY <3>2 DEF joined
  <2> HIDE DEF joined, new
  <2> QED BY <1>3, <1>4, <2>1, <2>2, <2>3
<1>6. /\ clock' = [clock EXCEPT ![s] = start + n] /\ skipped' = [skipped EXCEPT ![s] = @ + new]
  BY <1>1
<1> HIDE DEF new
<1>7. /\ clock' \in [Sources -> Nat] /\ skipped' \in [Sources -> Nat]
      /\ clock'[s] = start + n /\ skipped'[s] = skipped[s] + new
      /\ \A r \in Sources : r # s => clock'[r] = clock[r] /\ skipped'[r] = skipped[r]
  BY <1>2, <1>3, <1>4, <1>5, <1>6 DEF MixTypes
<1>8. CASE start + n <= First
  <2>1. UNCHANGED <<track, mixed, encoded, sound, largest, filled, failures, stage>>
    BY <1>1, <1>8
  <2>2. MixTypes'
    BY <1>2, <1>7, <2>1 DEF MixTypes
  <2>3. FileIsCounted' /\ MixIsCounted' /\ MixIsKept' /\ TracksInTime' /\ Together'
    BY <1>2, <2>1 DEF FileIsCounted, MixIsCounted, MixIsKept, TracksInTime, Together, PlacedInTime, Count
  <2>4. ASSUME Unwrapped' PROVE TimeIsOnTrack'
    <3>1. Unwrapped
      BY <2>1, <2>4 DEF Unwrapped
    <3>2. TimeIsOnTrack
      BY <1>2, <3>1 DEF Skips
    <3>3. ASSUME NEW r \in Sources
          PROVE  /\ clock'[r] > First => clock'[r] - First <= Len(track'[r]) + skipped'[r]
                 /\ filled'[r] > 0 => skipped'[r] > GapThreshold
      <4>1. /\ clock[r] > First => clock[r] - First <= Len(track[r]) + skipped[r]
            /\ filled[r] > 0 => skipped[r] > GapThreshold
        BY <3>2 DEF TimeIsOnTrack
      <4>2. track'[r] = track[r] /\ filled'[r] = filled[r]
        BY <2>1
      <4>3. CASE r # s
        BY <1>7, <4>1, <4>2, <4>3
      <4>4. CASE r = s
        <5>1. ~(clock'[r] > First)
          BY <1>3, <1>4, <1>7, <1>8, <4>4
        <5>2. skipped'[r] >= skipped[r]
          BY <1>4, <1>5, <1>7, <4>4
        <5> QED BY <1>3, <1>4, <1>5, <1>7, <4>1, <4>2, <4>4, <5>1, <5>2
      <4> QED BY <4>3, <4>4
    <3> QED BY <3>3 DEF TimeIsOnTrack
  <2> QED BY <2>2, <2>3, <2>4 DEF MixInv, Skips
<1>9. CASE ~(start + n <= First)
  <2> DEFINE p == Placed(s, start, n)
             hole == Hole(start, s)
             from == Max({start, First})
  <2>1. /\ track' = LevelSources(p, StallTolerance) /\ EncodeAudioFrames(track')
        /\ filled' = [filled EXCEPT ![s] = @ + hole]
        /\ stage = "recording" /\ stage' = stage
    BY <1>1, <1>9
  <2>2. track \in [Sources -> Sounds] /\ \A r \in Sources : Len(track[r]) \in Nat
    BY <1>2, LenProperties DEF MixTypes, Sounds
  <2>3. start + n > First
    BY <1>3, <1>4, <1>9
  <2>4. /\ p \in [Sources -> Sounds] /\ \A r \in Sources : r # s => p[r] = track[r]
        /\ Len(p[s]) = Len(track[s]) + hole + (start + n - from)
        /\ PlacedInTime(track[s]) => PlacedInTime(p[s])
    BY <1>1, <1>3, <1>4, <2>2, <2>3, PlacedLemma
  <2>5. /\ hole \in Nat
        /\ hole > 0 /\ Len(track[s]) < Counter => from - First - Len(track[s]) > GapThreshold
    BY <1>4, <2>2, HoleLemma
  <2>6. from \in Nat /\ start + n - from \in Nat /\ from = (IF start >= First THEN start ELSE First)
    <3>1. from = (IF start >= First THEN start ELSE First)
      BY <1>3, <1>4, PairLemma
    <3> HIDE DEF from
    <3> QED BY <1>3, <1>4, <2>3, <3>1
  <2> DEFINE t == LevelSources(p, StallTolerance)
  <2> HIDE DEF p, hole, from
  <2>7. /\ t \in [Sources -> Sounds]
        /\ \A r \in Sources : Len(p[r]) <= Len(t[r]) /\ (PlacedInTime(p[r]) => PlacedInTime(t[r]))
        /\ \A q, r \in Sources : Len(t[q]) <= Len(t[r]) + StallTolerance
    BY <1>3, <2>4, LevelLemma
  <2>8. track' = t
    BY <2>1
  <2> HIDE DEF t
  <2>9. \A r \in Sources : Len(t[r]) \in Nat /\ Len(p[r]) \in Nat
    BY <2>4, <2>7, LenProperties DEF Sounds
  <2>10. /\ Len(t[s]) >= Len(track[s]) + hole + (start + n - from)
         /\ \A r \in Sources : Len(t[r]) >= Len(track[r])
    <3>1. Len(t[s]) >= Len(track[s]) + hole + (start + n - from)
      BY <2>2, <2>4, <2>5, <2>6, <2>7, <2>9
    <3>2. ASSUME NEW r \in Sources, r # s PROVE Len(t[r]) >= Len(track[r])
      <4>1. p[r] = track[r] /\ Len(p[r]) <= Len(t[r])
        BY <2>4, <2>7, <3>2
      <4> QED BY <2>2, <2>9, <4>1
    <3>3. Len(t[s]) >= Len(track[s])
      BY <2>2, <2>5, <2>6, <2>9, <3>1
    <3> QED BY <3>1, <3>2, <3>3
  <2>11. /\ sound' \in Sounds /\ mixed' \in Nat /\ encoded' \in Nat /\ largest' \in Nat /\ failures' \in Nat
         /\ FileIsCounted' /\ MixIsCounted' /\ MixIsKept'
         /\ failures' = 0 => failures = 0 /\ \E r \in Sources : Len(track'[r]) - mixed' < FrameSize
    <3>1. track' \in [Sources -> Sounds] /\ \A r \in Sources : Len(track'[r]) >= Len(track[r])
      BY <2>7, <2>8, <2>10
    <3> QED BY <2>1, <3>1, FramesKeepLemma
  <2>12. MixTypes'
    <3>1. filled' \in [Sources -> Nat]
      BY <1>2, <1>4, <2>1, <2>5 DEF MixTypes
    <3> QED BY <1>7, <2>1, <2>7, <2>8, <2>11, <3>1 DEF MixTypes
  <2>13. TracksInTime'
    <3>1. ASSUME NEW r \in Sources PROVE PlacedInTime(t[r])
      <4>1. PlacedInTime(track[r])
        BY <1>2 DEF TracksInTime
      <4>2. PlacedInTime(p[r])
        BY <2>4, <4>1
      <4> QED BY <2>7, <4>2
    <3> QED BY <2>8, <3>1 DEF TracksInTime, PlacedInTime
  <2>14. Together'
    <3>1. stage' = "recording"
      BY <2>1
    <3>2. ASSUME failures' = 0, NEW r \in Sources PROVE Len(track'[r]) - mixed' < StallTolerance + FrameSize
      <4>1. PICK q \in Sources : Len(t[q]) - mixed' < FrameSize
        BY <2>8, <2>11, <3>2
      <4>2. Len(t[r]) <= Len(t[q]) + StallTolerance
        BY <2>7
      <4>3. ASSUME NEW a \in Nat, NEW b \in Nat, NEW m \in Nat, b - m < FrameSize, a <= b + StallTolerance
            PROVE  a - m < StallTolerance + FrameSize
        BY <1>3, <4>3
      <4>4. Len(t[r]) \in Nat /\ Len(t[q]) \in Nat /\ mixed' \in Nat
        BY <2>9, <2>11
      <4>5. Len(t[r]) - mixed' < StallTolerance + FrameSize
        BY <4>1, <4>2, <4>3, <4>4
      <4> QED BY <2>8, <4>5
    <3> QED BY <3>1, <3>2 DEF Together
  <2>15. ASSUME Unwrapped' PROVE TimeIsOnTrack'
    <3>1. \A r \in Sources : Len(track[r]) < Counter
      <4>1. ASSUME NEW r \in Sources PROVE Len(track[r]) < Counter
        <5>1. Len(t[r]) < Counter /\ Len(t[r]) >= Len(track[r]) /\ Counter \in Nat
          BY <2>8, <2>10, <2>15, SizesAssumption DEF Unwrapped
        <5> QED BY <2>2, <2>9, <5>1
      <4> QED BY <4>1
    <3>2. TimeIsOnTrack
      BY <1>2, <3>1 DEF Skips, Unwrapped
    <3>3. from - First <= Len(track[s]) + skipped'[s]
      <4>1. clock[s] > First => clock[s] - First <= Len(track[s]) + skipped[s]
        BY <3>2 DEF TimeIsOnTrack
      <4>2. Len(track[s]) \in Nat /\ skipped'[s] = skipped[s] + new
        BY <1>7, <2>2
      <4>3. from = IF start >= First THEN start ELSE First
        BY <2>6
      <4>4. CASE start >= First
        <5>1. from - First = start - First
          BY <4>3, <4>4
        <5>2. CASE clock[s] > First
          <6>1. start - First <= new + (clock[s] - First)
            BY <1>5, <5>2
          <6>2. clock[s] - First <= Len(track[s]) + skipped[s]
            BY <4>1, <5>2
          <6>3. ASSUME NEW a \in Nat, NEW b \in Nat, NEW c \in Nat, NEW d \in Nat,
                       a - First <= c + (b - First), b - First <= d + skipped[s]
                PROVE  a - First <= d + (skipped[s] + c)
            BY <1>3, <1>4, <6>3
          <6>4. start - First <= Len(track[s]) + (skipped[s] + new)
            BY <1>4, <1>5, <4>2, <6>1, <6>2, <6>3
          <6> QED BY <4>2, <5>1, <6>4
        <5>3. CASE ~(clock[s] > First)
          <6>1. start - First <= new
            BY <1>3, <1>4, <1>5, <5>3
          <6> QED BY <1>3, <1>4, <1>5, <4>2, <5>1, <6>1
        <5> QED BY <5>2, <5>3
      <4>5. CASE ~(start >= First)
        BY <1>3, <1>4, <1>5, <4>2, <4>3, <4>5
      <4> QED BY <4>4, <4>5
    <3>4. ASSUME NEW r \in Sources
          PROVE  /\ clock'[r] > First => clock'[r] - First <= Len(t[r]) + skipped'[r]
                 /\ filled'[r] > 0 => skipped'[r] > GapThreshold
      <4>1. /\ clock[r] > First => clock[r] - First <= Len(track[r]) + skipped[r]
            /\ filled[r] > 0 => skipped[r] > GapThreshold
        BY <3>2 DEF TimeIsOnTrack
      <4>2. CASE r # s
        <5>1. filled'[r] = filled[r] /\ clock'[r] = clock[r] /\ skipped'[r] = skipped[r]
          BY <1>2, <1>7, <2>1, <4>2 DEF MixTypes
        <5>2. /\ clock[r] \in Nat /\ skipped[r] \in Nat /\ Len(t[r]) \in Nat /\ Len(track[r]) \in Nat
              /\ Len(t[r]) >= Len(track[r])
          BY <1>2, <2>2, <2>9, <2>10 DEF MixTypes
        <5>3. ASSUME NEW a \in Nat, NEW b \in Nat, NEW c \in Nat, NEW d \in Nat,
                     a >= b, d - First <= b + c
              PROVE  d - First <= a + c
          BY <1>3, <5>3
        <5>4. ASSUME clock'[r] > First PROVE clock'[r] - First <= Len(t[r]) + skipped'[r]
          <6>1. clock[r] - First <= Len(track[r]) + skipped[r]
            BY <4>1, <5>1, <5>4
          <6>2. clock[r] - First <= Len(t[r]) + skipped[r]
            BY <5>2, <5>3, <6>1
          <6> QED BY <5>1, <6>2
        <5> QED BY <4>1, <5>1, <5>4
      <4>3. CASE r = s
        <5>1. clock'[s] = start + n /\ skipped'[s] = skipped[s] + new /\ filled'[s] = filled[s] + hole
          BY <1>2, <1>7, <2>1 DEF MixTypes
        <5>2. clock'[s] - First <= Len(t[s]) + skipped'[s]
          <6>1. /\ Len(track[s]) \in Nat /\ Len(t[s]) \in Nat /\ skipped'[s] \in Nat
                /\ Len(t[s]) >= Len(track[s]) + hole + (start + n - from)
            BY <1>7, <2>2, <2>9, <2>10
          <6>2. hole \in Nat /\ from \in Nat
            BY <2>5, <2>6
          <6>3. ASSUME NEW a \in Nat, NEW b \in Nat, NEW c \in Nat,
                       a >= b + hole + (start + n - from), from - First <= b + c
                PROVE  (start + n) - First <= a + c
            BY <1>3, <1>4, <6>2, <6>3
          <6> QED BY <3>3, <5>1, <6>1, <6>3
        <5>3. ASSUME filled'[s] > 0 PROVE skipped'[s] > GapThreshold
          <6>1. CASE hole = 0
            BY <1>3, <1>4, <1>5, <4>1, <4>3, <5>1, <5>3, <6>1
          <6>2. CASE hole # 0
            <7>1. from - First - Len(track[s]) > GapThreshold
              BY <2>5, <3>1, <6>2
            <7>2. Len(track[s]) \in Nat /\ skipped'[s] \in Nat
              BY <1>7, <2>2
            <7>3. ASSUME NEW d \in Int, NEW b \in Nat, NEW c \in Nat, d <= b + c, d - b > GapThreshold
                  PROVE  c > GapThreshold
              BY <1>3, <7>3
            <7>4. from - First \in Int
              BY <1>3, <2>6
            <7> QED BY <3>3, <7>1, <7>2, <7>3, <7>4
          <6> QED BY <6>1, <6>2
        <5> QED BY <4>3, <5>2, <5>3
      <4> QED BY <4>2, <4>3
    <3> QED BY <2>8, <3>4 DEF TimeIsOnTrack
  <2> QED BY <2>11, <2>12, <2>13, <2>14, <2>15 DEF MixInv, Skips
<1> QED BY <1>8, <1>9

(* The end of the recording: all sources come to one length.                *)
LEMMA FinishAudioLemma ==
  ASSUME MixInv, FinishAudio
  PROVE  MixInv'
<1>1. /\ stage = "recording" /\ stage' = "tail" /\ track' = LevelSources(track, 0) /\ EncodeAudioFrames(track')
      /\ clock' = clock /\ filled' = filled /\ skipped' = skipped
  BY DEF FinishAudio
<1>2. MixTypes /\ TracksInTime /\ Skips
  BY DEF MixInv
<1> DEFINE t == LevelSources(track, 0)
<1>3. /\ track \in [Sources -> Sounds] /\ t \in [Sources -> Sounds] /\ track' = t
      /\ \A r \in Sources : Len(track[r]) <= Len(t[r]) /\ (PlacedInTime(track[r]) => PlacedInTime(t[r]))
      /\ \A q, r \in Sources : Len(t[q]) <= Len(t[r]) + 0
  BY <1>1, <1>2, LevelLemma DEF MixTypes
<1> HIDE DEF t
<1>4. \A r \in Sources : Len(track[r]) \in Nat /\ Len(t[r]) \in Nat /\ Len(t[r]) >= Len(track[r])
  <2>1. \A r \in Sources : Len(track[r]) \in Nat /\ Len(t[r]) \in Nat
    BY <1>3, LenProperties DEF Sounds
  <2> QED BY <1>3, <2>1
<1>5. /\ sound' \in Sounds /\ mixed' \in Nat /\ encoded' \in Nat /\ largest' \in Nat /\ failures' \in Nat
      /\ FileIsCounted' /\ MixIsCounted' /\ MixIsKept'
      /\ failures' = 0 => failures = 0 /\ \E r \in Sources : Len(track'[r]) - mixed' < FrameSize
  <2>1. track' \in [Sources -> Sounds] /\ \A r \in Sources : Len(track'[r]) >= Len(track[r])
    BY <1>3, <1>4
  <2> QED BY <1>1, <2>1, FramesKeepLemma
<1>6. MixTypes'
  BY <1>1, <1>2, <1>3, <1>5 DEF MixTypes
<1>7. TracksInTime'
  BY <1>2, <1>3 DEF TracksInTime, PlacedInTime
<1>8. \A q, r \in Sources : Len(t[q]) = Len(t[r])
  <2>1. ASSUME NEW q \in Sources, NEW r \in Sources PROVE Len(t[q]) = Len(t[r])
    <3>1. /\ Len(t[q]) <= Len(t[r]) + 0 /\ Len(t[r]) <= Len(t[q]) + 0
          /\ Len(t[q]) \in Nat /\ Len(t[r]) \in Nat
      BY <1>3, <1>4
    <3> QED BY <3>1
  <2> QED BY <2>1
<1>9. Together'
  <2>1. ASSUME failures' = 0, NEW r \in Sources PROVE Len(track'[r]) - mixed' < FrameSize
    <3>1. PICK q \in Sources : Len(track'[q]) - mixed' < FrameSize
      BY <1>5, <2>1
    <3>2. Len(track'[r]) = Len(track'[q])
      BY <1>3, <1>8
    <3> QED BY <3>1, <3>2
  <2> QED BY <1>1, <1>3, <1>8, <2>1 DEF Together
<1>10. ASSUME Unwrapped' PROVE TimeIsOnTrack'
  <2>1. \A r \in Sources : Len(track[r]) < Counter
    <3>1. ASSUME NEW r \in Sources PROVE Len(track[r]) < Counter
      <4>1. Len(t[r]) < Counter /\ Counter \in Nat
        BY <1>3, <1>10, SizesAssumption DEF Unwrapped
      <4> QED BY <1>4, <4>1
    <3> QED BY <3>1
  <2>2. TimeIsOnTrack
    BY <1>2, <2>1 DEF Skips, Unwrapped
  <2>3. ASSUME NEW r \in Sources, clock[r] > First PROVE clock[r] - First <= Len(t[r]) + skipped[r]
    <3>1. clock[r] - First <= Len(track[r]) + skipped[r]
      BY <2>2, <2>3 DEF TimeIsOnTrack
    <3>2. clock[r] \in Nat /\ skipped[r] \in Nat /\ First \in Nat
      BY <1>2, SizesAssumption DEF MixTypes
    <3> QED BY <1>4, <3>1, <3>2
  <2> QED BY <1>1, <1>3, <2>2, <2>3 DEF TimeIsOnTrack
<1> QED BY <1>5, <1>6, <1>7, <1>9, <1>10 DEF MixInv, Skips

(* The tail: what is left of one source is left of all.                     *)
LEMMA EncodeTailLemma ==
  ASSUME MixInv, EncodeTail
  PROVE  MixInv'
<1>1. MixTypes /\ MixIsCounted /\ FileIsCounted /\ MixIsKept /\ TracksInTime /\ Together /\ Skips
  BY DEF MixInv
<1>2. PICK s \in Sources : s = CHOOSE r \in Sources : TRUE
  BY SizesAssumption
<1> DEFINE left == Fifo(track, s)
           n == IF left > 0 THEN 1 ELSE 0
<1>3. /\ stage = "tail" /\ stage' = "finished"
      /\ \E ok \in BOOLEAN : EncodeMixedFrames(n, left, ok)
      /\ clock' = clock /\ track' = track /\ filled' = filled /\ skipped' = skipped
  BY <1>2 DEF EncodeTail
<1>4. left \in Nat /\ left = Len(track[s]) - mixed /\ mixed \in Nat
  <2>1. Len(track[s]) \in Nat /\ mixed \in Nat /\ Len(track[s]) >= mixed
    BY <1>1, LenProperties DEF MixTypes, MixIsCounted, Sounds
  <2> QED BY <2>1 DEF Fifo
<1> HIDE DEF left
<1>5. n \in Nat /\ n * left = left /\ (n > 0 => left <= n * left)
  <2>1. CASE left > 0
    <3>1. n = 1 /\ left \in Nat
      BY <1>4, <2>1
    <3>2. 1 * left = left
      BY <3>1
    <3>3. n * left = left
      BY <3>1, <3>2
    <3> QED BY <3>1, <3>3
  <2>2. CASE ~(left > 0)
    <3>1. n = 0 /\ left = 0
      BY <1>4, <2>2
    <3> QED BY <3>1
  <2> QED BY <2>1, <2>2
<1> HIDE DEF n
<1>6. PICK ok \in BOOLEAN : EncodeMixedFrames(n, left, ok)
  BY <1>3
<1>7. /\ sound' \in Sounds /\ mixed' \in Nat /\ encoded' \in Nat /\ largest' \in Nat /\ failures' \in Nat
      /\ mixed' = mixed + n * left /\ encoded' <= mixed' /\ Len(sound') = encoded'
      /\ failures' = (IF ok THEN failures ELSE failures + 1)
      /\ ok /\ encoded = mixed /\ sound = Count(mixed) => encoded' = mixed' /\ sound' = Count(mixed')
      /\ (n > 0 => left <= FrameSize) /\ largest <= FrameSize => largest' <= FrameSize
  BY <1>1, <1>4, <1>5, <1>6, MixedFramesLemma
<1>8. \A r \in Sources : Len(track[r]) = mixed'
  <2>1. mixed' = mixed + left
    BY <1>5, <1>7
  <2>2. mixed' = Len(track[s])
    <3>1. Len(track[s]) \in Nat
      BY <1>1, LenProperties DEF MixTypes, Sounds
    <3> QED BY <1>4, <2>1, <3>1
  <2>3. \A r \in Sources : Len(track[r]) = Len(track[s])
    BY <1>1, <1>3 DEF Together
  <2> QED BY <2>2, <2>3
<1>9. ASSUME failures' = 0 PROVE encoded' = mixed' /\ sound' = Count(mixed') /\ largest' <= FrameSize
  <2>1. ok /\ failures = 0
    BY <1>1, <1>7, <1>9 DEF MixTypes
  <2>2. encoded = mixed /\ sound = Count(mixed) /\ largest <= FrameSize
    BY <1>1, <2>1 DEF MixIsKept
  <2>3. left < FrameSize
    BY <1>1, <1>3, <1>4, <2>1 DEF Together
  <2>4. left <= FrameSize
    BY <1>4, <2>3, SizesAssumption
  <2> QED BY <1>7, <2>1, <2>2, <2>4
<1>10. MixTypes'
  BY <1>1, <1>3, <1>7 DEF MixTypes
<1>11. FileIsCounted' /\ MixIsCounted' /\ MixIsKept'
  BY <1>3, <1>7, <1>8, <1>9 DEF FileIsCounted, MixIsCounted, MixIsKept, Count
<1>12. TracksInTime' /\ Skips'
  BY <1>1, <1>3 DEF TracksInTime, PlacedInTime, Skips, Unwrapped, TimeIsOnTrack
<1>13. Together'
  BY <1>3, <1>8 DEF Together
<1> QED BY <1>10, <1>11, <1>12, <1>13 DEF MixInv

(* All of it, at every step.                                                *)
LEMMA MixKeeps == MixInv /\ [MixNext]_mixVars => MixInv'
<1> SUFFICES ASSUME MixInv, [MixNext]_mixVars PROVE MixInv'
  OBVIOUS
<1>1. CASE \E s \in Sources : SubmitAudio(s)
  BY <1>1, SubmitAudioLemma
<1>2. CASE FinishAudio
  BY <1>2, FinishAudioLemma
<1>3. CASE EncodeTail
  BY <1>3, EncodeTailLemma
<1>4. CASE UNCHANGED mixVars
  <2>1. /\ clock' = clock /\ track' = track /\ mixed' = mixed /\ encoded' = encoded /\ sound' = sound
        /\ stage' = stage /\ largest' = largest /\ filled' = filled /\ skipped' = skipped /\ failures' = failures
    BY <1>4 DEF mixVars
  <2>2. MixTypes' /\ FileIsCounted' /\ MixIsCounted' /\ MixIsKept'
    BY <2>1 DEF MixInv, MixTypes, FileIsCounted, MixIsCounted, MixIsKept, Count
  <2>3. TracksInTime' /\ Together' /\ Skips'
    BY <2>1 DEF MixInv, TracksInTime, PlacedInTime, Together, Skips, Unwrapped, TimeIsOnTrack
  <2> QED BY <2>2, <2>3 DEF MixInv
<1> QED BY <1>1, <1>2, <1>3, <1>4 DEF MixNext

(* The inductive invariant of CEncoder's audio half, of SubmitAudio,        *)
(* FinishAudio and the tail (encoder.cpp).                                  *)
THEOREM MixStays == MixSpec => []MixInv
<1> QED BY MixStarts, MixKeeps, PTL DEF MixSpec

(* Where 64 bits count as many samples as a recording lasts, SubmitAudio    *)
(* and LevelSources put no sound of any source earlier than it was, but for *)
(* a hole that is let pass, and nothing from before the first frame.        *)
THEOREM NothingIsEarly ==
  ASSUME MaxTime <= Counter
  PROVE  MixSpec => []NeverHeardEarly
<1>1. MixInv => NeverHeardEarly
  <2> SUFFICES ASSUME MixInv PROVE NeverHeardEarly
    OBVIOUS
  <2>1. MixTypes /\ TracksInTime /\ MixIsKept /\ MixIsCounted
    BY DEF MixInv
  <2>2. ASSUME NEW s \in Sources
        PROVE  track[s] \in Sounds /\ Len(track[s]) \in Nat /\ DOMAIN track[s] = 1..Len(track[s])
               /\ PlacedInTime(track[s])
    BY <2>1, LenProperties DEF MixTypes, Sounds, TracksInTime
  <2>3. ASSUME NEW s \in Sources, NEW i \in DOMAIN track[s] PROVE track[s][i] = Silence \/ track[s][i] >= First
    BY <2>2 DEF PlacedInTime
  <2>4. ASSUME failures = 0, NEW i \in DOMAIN sound, NEW s \in Sources, Early(i, s) PROVE FALSE
    <3>1. sound = Count(mixed) /\ mixed \in Nat
      BY <2>1, <2>4 DEF MixIsKept, MixTypes
    <3>2. i \in 1..mixed /\ sound[i] = i
      BY <2>4, <3>1 DEF Count
    <3>3. i \in DOMAIN track[s]
      <4>1. Len(track[s]) >= mixed
        BY <2>1 DEF MixIsCounted
      <4> QED BY <2>2, <3>1, <3>2, <4>1
    <3>4. track[s][i] # Silence /\ track[s][i] - First > (i - 1) + GapThreshold
      BY <2>4, <3>2 DEF Early
    <3>5. track[s][i] <= First + (i - 1) + GapThreshold
      BY <2>2, <3>3, <3>4, MaxTime <= Counter DEF PlacedInTime
    <3>6. track[s][i] \in Nat
      <4>1. track[s][i] \in Nat \cup {Silence}
        BY <2>2, <3>3, ElementOfSeq DEF Sounds
      <4> QED BY <3>4, <4>1
    <3> QED BY <3>2, <3>4, <3>5, <3>6, SizesAssumption
  <2> QED BY <2>3, <2>4 DEF NeverHeardEarly, HeardEarly
<1> QED BY <1>1, MixStays, PTL

(* FinishAudio and LevelSources, without that: the fifos stay short, the    *)
(* file ends with all that every source sent, in the order it was mixed, and*)
(* no frame is larger than the codec's while none has failed.               *)
THEOREM MixIsWhole == MixSpec => [](MixTypeOK /\ BacklogBounded /\ TailIsNotLost /\ MixFitsUnlessOneFails)
<1>1. MixInv => MixTypeOK /\ BacklogBounded /\ TailIsNotLost /\ MixFitsUnlessOneFails
  <2> SUFFICES ASSUME MixInv PROVE MixTypeOK /\ BacklogBounded /\ TailIsNotLost /\ MixFitsUnlessOneFails
    OBVIOUS
  <2>1. MixTypeOK
    BY DEF MixInv, MixTypes, FileIsCounted, MixIsCounted, MixTypeOK
  <2>2. BacklogBounded
    BY DEF MixInv, Together, BacklogBounded, Fifo
  <2>3. TailIsNotLost
    BY DEF MixInv, Together, MixIsKept, TailIsNotLost, Count
  <2>4. MixFitsUnlessOneFails
    BY DEF MixInv, MixIsKept, MixFitsUnlessOneFails, MixFitsTheFrame
  <2> QED BY <2>1, <2>2, <2>3, <2>4
<1> QED BY <1>1, MixStays, PTL

(* And as long as no track is so long that its count wraps, WriteSilence    *)
(* fills none but real holes.                                               *)
THEOREM MixIsRight == MixSpec => [](Unwrapped => MixInvariant)
<1>1. MixInv /\ Unwrapped => OnlyRealHolesAreFilled
  BY DEF MixInv, Skips, TimeIsOnTrack, OnlyRealHolesAreFilled
<1>2. MixInv /\ MixTypeOK /\ BacklogBounded /\ TailIsNotLost /\ MixFitsUnlessOneFails => (Unwrapped => MixInvariant)
  BY <1>1 DEF MixInvariant
<1> QED BY <1>2, MixStays, MixIsWhole, PTL

=============================================================================
