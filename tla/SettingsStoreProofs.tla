---- MODULE SettingsStoreProofs ----
(***************************************************************************)
(* What TLAPS proves of SettingsStore: the state is what TypeOK says, the  *)
(* file has the tokens, no spent token is held, and a save keeps what the  *)
(* file has, whatever the tokens, the devices and the bounds. And of       *)
(* SettingsText: reading, writing and importing agree on every setting.    *)
(***************************************************************************)
EXTENDS MCSettingsStore, FiniteSetTheorems, SequenceTheorems, TLAPS

-----------------------------------------------------------------------------
(* What a setting may be, and what it is once it has been in the file.      *)
IsValue(f, v) ==
  /\ Reader[f] = "string" => v # "nul"
  /\ Reader[f] = "name"   => v \in DOMAIN SourceNames
  /\ Reader[f] = "bool"   => v \in BOOLEAN
  /\ Reader[f] = "rate"   => v \in FrameRateCaps
  /\ Reader[f] = "gain"   => v \in GainRange

Stored(f, v) == IF Reader[f] = "string" THEN Dumped(v) ELSE v

Valid(s) == DOMAIN s = Fields /\ \A f \in Fields : IsValue(f, s[f])

(* A value a reader takes, that is written back as it was.                  *)
IsWritten(f, j) == Accepts(f, j) /\ IsValue(f, Taken(f, j)) /\ Stored(f, Taken(f, j)) = Taken(f, j)

(* A document: every field holds a value, or nothing that a reader takes.   *)
IsText(t) ==
  /\ DOMAIN t = {"version", "field", "section", "unknown", "own"}
  /\ DOMAIN t.field = Fields
  /\ \A f \in Fields : t.field[f] = Null \/ IsWritten(f, t.field[f])

(* The setting a document has.                                              *)
Has(t, f) == Read(t).settings[f]

-----------------------------------------------------------------------------
(* The tokens there may be of a field.                                      *)
Issued == {"", OldToken, OldWindowToken} \cup {Tokens[i] : i \in 1..granted}

Of(f) ==
  {settings[f], written[f], IF f = "screenToken" THEN OldToken ELSE OldWindowToken}
    \cup (IF IsDocument(main) THEN {Has(main, f)} ELSE {})
    \cup (IF phase = "asked" /\ request.field = f /\ answer.granted THEN {answer.token} ELSE {})

Asked ==
  /\ phase # "asked" => answer = NoAnswer
  /\ phase = "asked" =>
       /\ request.field \in TokenFields /\ request.keeps \in BOOLEAN
       /\ request.token = settings[request.field]
       /\ ~request.keeps => request.token = ""
       /\ \/ answer = NoAnswer
          \/ answer = [token |-> "", granted |-> FALSE]
          \/ /\ answer.granted = TRUE
             /\ \/ answer.token = request.token
                \/ /\ request.keeps
                   /\ answer.token \in live \cap {Tokens[i] : i \in 1..granted}
                   /\ answer.token # request.token

(* The portal has spent the token of a field, and its answer has another.   *)
Spent(f) == phase = "asked" /\ request.field = f /\ answer.granted /\ answer.token # request.token

Types ==
  /\ phase \in {"off", "idle", "asked", "recording", "leaving"}
  /\ canSave \in BOOLEAN /\ held \in BOOLEAN
  /\ changes \in [{"choices", "screenToken", "windowToken"} -> BOOLEAN]
  /\ Valid(settings) /\ Valid(written) /\ writtenDevice # "nul"
  /\ \A i \in DOMAIN devices : devices[i] # "nul"
  /\ Running => settings["device"] \in {devices[i] : i \in DOMAIN devices} \cup {""}
  /\ edits \in Nat /\ granted \in 0..Len(Tokens)
  /\ main \in Broken \cup {Missing} \/ IsText(main)
  /\ legacy \in {Left, Missing}
  /\ edits = 0 => main \notin Broken
  /\ ~Running => changes = NoChanges
  /\ phase = "off" => kept = Missing

(* The store knows the file it may save over.                               *)
Known ==
  Running /\ canSave =>
    /\ kept = main /\ main \notin Broken
    /\ ~IsNewer(main)
    /\ IsDamaged(main) => bad = main
    /\ IsDocument(main) => \A f \in Fields : Has(main, f) = Stored(f, written[f])

(* What has not changed is as it is written.                                *)
Unchanged == Running /\ spared => \A f \in TokenFields : changes[f] \/ settings[f] = written[f]

Apart ==
  /\ \A f \in TokenFields : Of(f) \subseteq Issued
  /\ Of("screenToken") \cap Of("windowToken") \subseteq {""}

Good == spared /\ edits = 0 /\ ~dropped

(* While nothing has kept a change from the file, the tokens are live.      *)
Live ==
  Good =>
    /\ Running => \A f \in TokenFields : settings[f] \in live \cup {""} \/ Spent(f)
    /\ IsDocument(main) => \A f \in TokenFields :
         Has(main, f) \in live \cup {""} \/ (Running /\ changes[f]) \/ Spent(f)
    /\ main = Missing =>
         /\ {OldToken, OldWindowToken} \subseteq live \cup {""}
         /\ Running => \A f \in TokenFields : settings[f] = "" \/ settings[f] \notin {OldToken, OldWindowToken}

InductiveInvariant == Types /\ Known /\ Unchanged /\ Asked /\ Apart /\ Live

(* The readers of the settings the steps name.                              *)
LEMMA ReaderLemma ==
  /\ \A f \in Fields : Reader[f] \in {"string", "name", "bool", "rate", "gain"}
  /\ Reader["source"] = "name" /\ Reader["rememberWindow"] = "bool" /\ Reader["device"] = "string"
  /\ \A f \in TokenFields : Reader[f] = "string"
  /\ TokenFields \subseteq Fields /\ {"source", "rememberWindow", "device"} \subseteq Fields \ TokenFields
<1>1. Fields \subseteq {"directory", "source", "frameRate", "device", "rememberWindow", "gain",
                        "screenToken", "windowToken"}
  BY FieldsAreRead DEF Reader
<1>2. \A f \in Fields : Reader[f] \in {"string", "name", "bool", "rate", "gain"}
  BY <1>1 DEF Reader
<1>3. Reader["source"] = "name" /\ Reader["rememberWindow"] = "bool" /\ Reader["device"] = "string"
  BY DEF Reader
<1>4. \A f \in TokenFields : Reader[f] = "string"
  BY DEF Reader, TokenFields
<1> QED BY <1>2, <1>3, <1>4, TokensAssumption DEF TokenFields

(* What a value is written as is taken back, as far as JSON can hold it.    *)
LEMMA TakenLemma ==
  ASSUME NEW f \in Fields, NEW v, IsValue(f, v)
  PROVE  /\ Accepts(f, ToJson(f, v)) /\ ToJson(f, v) # Absent
         /\ Taken(f, ToJson(f, v)) = Stored(f, v)
         /\ IsValue(f, Stored(f, v)) /\ Stored(f, Stored(f, v)) = Stored(f, v)
<1> DEFINE r == Reader[f]
<1>1. r \in {"string", "name", "bool", "rate", "gain"}
  BY ReaderLemma
<1> HIDE DEF r
<1>2. CASE r = "string"
  <2>1. v # "nul" /\ Dumped(v) # "nul" /\ Dumped(Dumped(v)) = Dumped(v)
    BY <1>2 DEF IsValue, Dumped, r
  <2> DEFINE j == <<"string", Dumped(v)>>
  <2>2. j = ToJson(f, v)
    BY <1>2 DEF ToJson, r
  <2>3. j[1] = "string" /\ j[2] = Dumped(v)
    OBVIOUS
  <2>4. Absent[1] = "absent"
    BY DEF Absent
  <2> HIDE DEF j
  <2>5. Accepts(f, j) /\ Taken(f, j) = Dumped(v)
    BY <1>2, <2>1, <2>3 DEF Accepts, IsString, Taken, r
  <2> QED BY <1>2, <2>1, <2>2, <2>3, <2>4, <2>5 DEF Stored, IsValue, r
<1>3. CASE r = "name"
  <2>1. v \in DOMAIN SourceNames
    BY <1>3 DEF IsValue, r
  <2> DEFINE j == <<"string", SourceNames[v]>>
  <2>2. j = ToJson(f, v)
    BY <1>3 DEF ToJson, r
  <2>3. j[1] = "string" /\ j[2] = SourceNames[v]
    OBVIOUS
  <2>4. Absent[1] = "absent"
    BY DEF Absent
  <2>5. \A x \in DOMAIN SourceNames : SourceNames[x] = SourceNames[v] => x = v
    BY <2>1 DEF SourceNames
  <2> HIDE DEF j
  <2>6. Accepts(f, j)
    BY <1>3, <2>1, <2>3 DEF Accepts, IsName, r
  <2>7. (CHOOSE x \in DOMAIN SourceNames : SourceNames[x] = j[2]) = v
    BY <2>1, <2>3, <2>5
  <2>8. Taken(f, j) = v
    BY <1>3, <2>7 DEF Taken, r
  <2> QED BY <1>3, <2>1, <2>2, <2>3, <2>4, <2>6, <2>8 DEF Stored, IsValue, r
<1>4. CASE r = "bool"
  <2>1. v \in BOOLEAN
    BY <1>4 DEF IsValue, r
  <2> DEFINE j == <<"boolean", v>>
  <2>2. j = ToJson(f, v)
    BY <1>4 DEF ToJson, r
  <2>3. j[1] = "boolean" /\ j[2] = v
    OBVIOUS
  <2>4. Absent[1] = "absent"
    BY DEF Absent
  <2> HIDE DEF j
  <2>5. Accepts(f, j) /\ Taken(f, j) = v
    BY <1>4, <2>3 DEF Accepts, Taken, r
  <2> QED BY <1>4, <2>1, <2>2, <2>3, <2>4, <2>5 DEF Stored, IsValue, r
<1>5. CASE r \in {"rate", "gain"}
  <2>1. r = "gain" => v \in Int /\ v < 2 ^ (NumberBits - 1)
    BY NumbersAreWide DEF IsValue, GainRange, r
  <2>2. r = "rate" => v \in {30, 60, 0}
    BY <1>5 DEF IsValue, FrameRateCaps, r
  <2>3. r = "gain" => v \in GainRange
    BY <1>5 DEF IsValue, r
  <2> DEFINE j == Number(v)
  <2>4. j = ToJson(f, v)
    BY <1>5 DEF ToJson, r
  <2>5. j[2] = v /\ j[1] \in {"integer", "unsigned"} /\ (~ (v < 0) => j[1] = "unsigned")
    BY DEF Number
  <2>6. Absent[1] = "absent"
    BY DEF Absent
  <2> HIDE DEF j
  <2>7. CASE r = "rate"
    <3>1. ~ (v < 0)
      BY <2>2, <2>7
    <3>2. Accepts(f, j) /\ Taken(f, j) = v
      BY <2>2, <2>5, <2>7, <3>1 DEF Accepts, IsRate, FrameRateCaps, Taken, r
    <3> QED BY <2>2, <2>4, <2>5, <2>6, <2>7, <3>2 DEF Stored, IsValue, FrameRateCaps, r
  <2>8. CASE r = "gain"
    <3>1. ~ (v >= 2 ^ (NumberBits - 1))
      BY <2>1, <2>3, <2>8, NumbersAreWide DEF GainRange
    <3>2. Accepts(f, j)
      BY <2>3, <2>5, <2>8 DEF Accepts, IsIntegerInRange, r
    <3>3. Taken(f, j) = v
      BY <2>5, <2>8, <3>1 DEF Taken, Signed, r
    <3> QED BY <2>3, <2>4, <2>5, <2>6, <2>8, <3>2, <3>3 DEF Stored, IsValue, r
  <2> QED BY <1>5, <2>7, <2>8
<1> QED BY <1>1, <1>2, <1>3, <1>4, <1>5

(* SSettings as it is made is legal, and JSON holds it.                     *)
LEMMA DefaultsLemma ==
  /\ Valid(Defaults)
  /\ \A f \in Fields : Stored(f, Defaults[f]) = Defaults[f]
  /\ \A f \in TokenFields : Defaults[f] = ""
<1>1. Fields \subseteq {"directory", "source", "frameRate", "device", "rememberWindow", "gain",
                        "screenToken", "windowToken"}
  BY FieldsAreRead DEF Reader
<1>2. ASSUME NEW f \in Fields
      PROVE  IsValue(f, Defaults[f]) /\ Stored(f, Defaults[f]) = Defaults[f]
  <2>1. CASE f = "directory"
    <3>1. Defaults[f] = "videos" /\ Reader[f] = "string"
      BY <2>1 DEF Defaults, Reader
    <3> QED BY <3>1 DEF IsValue, Stored, Dumped
  <2>2. CASE f = "source"
    <3>1. Defaults[f] = "Screen" /\ Reader[f] = "name"
      BY <2>2 DEF Defaults, Reader
    <3> QED BY <3>1 DEF IsValue, Stored, SourceNames
  <2>3. CASE f = "rememberWindow"
    <3>1. Defaults[f] = FALSE /\ Reader[f] = "bool"
      BY <2>3 DEF Defaults, Reader
    <3> QED BY <3>1 DEF IsValue, Stored
  <2>4. CASE f = "frameRate"
    <3>1. Defaults[f] = 0 /\ Reader[f] = "rate"
      BY <2>4 DEF Defaults, Reader
    <3> QED BY <3>1 DEF IsValue, Stored, FrameRateCaps
  <2>5. CASE f = "gain"
    <3>1. Defaults[f] = 0 /\ Reader[f] = "gain"
      BY <2>5 DEF Defaults, Reader
    <3> QED BY <3>1 DEF IsValue, Stored, GainRange
  <2>6. CASE f \in {"device", "screenToken", "windowToken"}
    <3>1. Defaults[f] = ""
      BY <2>6 DEF Defaults
    <3>2. Reader["device"] = "string" /\ Reader["screenToken"] = "string" /\ Reader["windowToken"] = "string"
      BY DEF Reader
    <3>3. Reader[f] = "string"
      BY <2>6, <3>2
    <3> QED BY <3>1, <3>3 DEF IsValue, Stored, Dumped
  <2> QED BY <1>1, <2>1, <2>2, <2>3, <2>4, <2>5, <2>6
<1>3. \A f \in TokenFields : Defaults[f] = ""
  BY ReaderLemma DEF Defaults, TokenFields
<1> QED BY <1>2, <1>3 DEF Valid, Defaults

(* A document is one.                                                       *)
LEMMA DocumentLemma ==
  ASSUME NEW t, IsText(t)
  PROVE  IsDocument(t) /\ t \notin Broken /\ t # Missing
<1>1. "broken" \notin DOMAIN t
  BY DEF IsText
<1>2. "broken" \in DOMAIN NotJson /\ "broken" \in DOMAIN NotObject /\ "broken" \in DOMAIN Missing
  BY DEF NotJson, NotObject, Missing
<1> QED BY <1>1, <1>2 DEF IsDocument, Broken

(* What Klip reads from a document is legal, and is written as it was.      *)
LEMMA TextLemma ==
  ASSUME NEW t, IsText(t)
  PROVE  /\ Valid(Read(t).settings)
         /\ \A f \in Fields : Stored(f, Has(t, f)) = Has(t, f)
<1>1. ASSUME NEW f \in Fields
      PROVE  Has(t, f) = Defaults[f] \/ (IsWritten(f, t.field[f]) /\ Has(t, f) = Taken(f, t.field[f]))
  <2>1. Null # Absent => Accepts(f, Null) = FALSE
    <3>1. Null[1] = "null"
      BY DEF Null
    <3>2. Reader[f] \in {"string", "name", "bool", "rate", "gain"}
      BY ReaderLemma
    <3> QED BY <3>1, <3>2 DEF Accepts, IsString, IsName, IsRate, IsIntegerInRange
  <2>2. Has(t, f) = IF t.field[f] # Absent /\ Accepts(f, t.field[f]) THEN Taken(f, t.field[f]) ELSE Defaults[f]
    BY DEF Has, Read, ReadSettingsJson
  <2>3. t.field[f] = Null \/ IsWritten(f, t.field[f])
    BY DEF IsText
  <2> QED BY <2>1, <2>2, <2>3
<1>2. \A f \in Fields : IsValue(f, Has(t, f)) /\ Stored(f, Has(t, f)) = Has(t, f)
  BY <1>1, DefaultsLemma DEF IsWritten, Valid
<1>3. DOMAIN Read(t).settings = Fields
  BY DEF Read, ReadSettingsJson
<1> QED BY <1>2, <1>3 DEF Valid, Has

(* What Klip writes is a document of its own version with nothing in it to  *)
(* reject, has the settings it was made from, and the unknown keys of the   *)
(* text it was written over.                                                *)
LEMMA WriteLemma ==
  ASSUME NEW s, Valid(s), NEW over
  PROVE  LET w == WriteSettingsJson(s, over) IN
         /\ IsText(w)
         /\ Read(w).version = SettingsVersion
         /\ Read(w).numInvalid = 0
         /\ \A f \in Fields : Has(w, f) = Stored(f, s[f])
         /\ w.unknown = over.unknown
<1> DEFINE w == WriteSettingsJson(s, over)
           v == Number(SettingsVersion)
<1>1. /\ w.version = v /\ w.unknown = over.unknown
      /\ DOMAIN w = {"version", "field", "section", "unknown", "own"}
      /\ DOMAIN w.field = Fields /\ \A f \in Fields : w.field[f] = ToJson(f, s[f])
      /\ \A x \in Sections : w.section[x] = "object"
  BY DEF WriteSettingsJson
<1>2. v[1] = "unsigned" /\ v[2] = SettingsVersion
  BY DEF Number, SettingsVersion
<1> HIDE DEF w, v
<1>3. IsVersion(w.version)
  BY <1>1, <1>2, NumbersAreWide DEF IsVersion
<1>4. \A f \in Fields :
        /\ Accepts(f, w.field[f]) /\ w.field[f] # Absent
        /\ Taken(f, w.field[f]) = Stored(f, s[f])
        /\ IsWritten(f, w.field[f])
  BY <1>1, TakenLemma DEF Valid, IsWritten
<1>5. IsText(w)
  BY <1>1, <1>4 DEF IsText
<1>6. Rejected(w) = {}
  BY <1>1, <1>3, <1>4 DEF Rejected
<1>7. Read(w).numInvalid = 0
  BY <1>6, FS_EmptySet DEF Read, ReadSettingsJson
<1>8. Read(w).version = SettingsVersion
  BY <1>1, <1>2, <1>3 DEF Read, ReadSettingsJson
<1>9. \A f \in Fields : Has(w, f) = Stored(f, s[f])
  BY <1>4 DEF Has, Read, ReadSettingsJson
<1> QED BY <1>1, <1>5, <1>7, <1>8, <1>9 DEF w

(* An edit by hand makes a document of a document.                          *)
LEMMA EditLemma ==
  ASSUME NEW t, IsText(t), NEW u,
         \/ u = [t EXCEPT !.version = Number(SettingsVersion + 1)]
         \/ u = [t EXCEPT !.field["source"] = Null, !.own = FALSE]
         \/ u = [t EXCEPT !.unknown["root"] = TRUE, !.own = FALSE]
  PROVE  IsText(u) /\ \A f \in TokenFields : Has(u, f) = Has(t, f)
<1>1. /\ DOMAIN u = {"version", "field", "section", "unknown", "own"}
      /\ DOMAIN u.field = Fields
      /\ \A f \in Fields : u.field[f] = t.field[f] \/ (f = "source" /\ u.field[f] = Null)
  BY DEF IsText
<1>2. IsText(u)
  BY <1>1 DEF IsText
<1>3. \A f \in TokenFields : u.field[f] = t.field[f] /\ f \in Fields
  BY <1>1, ReaderLemma
<1> QED BY <1>2, <1>3 DEF Has, Read, ReadSettingsJson

-----------------------------------------------------------------------------
(* Every token passes JSON, and the next one is none of those before.       *)
LEMMA IssuedLemma ==
  ASSUME granted \in 0..Len(Tokens)
  PROVE  /\ \A t \in Issued : t # "nul" /\ Dumped(t) = t
         /\ granted < Len(Tokens) => Tokens[granted + 1] \notin Issued
         /\ \A i \in 1..granted : Tokens[i] \notin {"", OldToken, OldWindowToken}
<1>1. DOMAIN Tokens = 1..Len(Tokens) /\ Len(Tokens) \in Nat
  <2>1. Tokens \in Seq(STRING)
    BY TokensAssumption
  <2> QED BY <2>1, LenProperties, Zenon
<1>2. "" # "nul" /\ Dumped("") = ""
  BY DEF Dumped
<1>3. ASSUME NEW t \in Issued PROVE t # "nul" /\ Dumped(t) = t
  <2>1. \A x \in {OldToken, OldWindowToken} \cup {Tokens[i] : i \in DOMAIN Tokens} : x # "nul" /\ Dumped(x) = x
    BY TokensAssumption
  <2>2. 1..granted \subseteq DOMAIN Tokens
    BY <1>1
  <2>3. t = "" \/ t \in {OldToken, OldWindowToken} \cup {Tokens[i] : i \in DOMAIN Tokens}
    BY <2>2 DEF Issued
  <2> QED BY <1>2, <2>1, <2>3
<1>4. ASSUME granted < Len(Tokens) PROVE Tokens[granted + 1] \notin Issued
  <2>1. granted + 1 \in DOMAIN Tokens /\ \A i \in 1..granted : i \in DOMAIN Tokens /\ i # granted + 1
    BY <1>1, <1>4
  <2> QED BY <2>1, TokensAssumption DEF Issued
<1>5. ASSUME NEW i \in 1..granted PROVE Tokens[i] \notin {"", OldToken, OldWindowToken}
  <2>1. i \in DOMAIN Tokens
    BY <1>1
  <2> QED BY <2>1, TokensAssumption
<1> QED BY <1>3, <1>4, <1>5

(* Changes of nothing are that.                                             *)
LEMMA NoChangesLemma ==
  /\ NoChanges \in [{"choices", "screenToken", "windowToken"} -> BOOLEAN]
  /\ \A f \in TokenFields : ~NoChanges[f]
<1>1. ASSUME NEW b, NEW B, b \in B
      PROVE  [choices |-> b, screenToken |-> b, windowToken |-> b]
               \in [{"choices", "screenToken", "windowToken"} -> B]
  BY <1>1
<1>2. NoChanges \in [{"choices", "screenToken", "windowToken"} -> BOOLEAN]
  BY <1>1 DEF NoChanges
<1>3. NoChanges["screenToken"] = FALSE /\ NoChanges["windowToken"] = FALSE
  BY DEF NoChanges
<1> QED BY <1>2, <1>3 DEF TokenFields

(* The first of a list that is not empty.                                   *)
LEMMA HeadLemma ==
  ASSUME NEW S, NEW list \in Seq(S), list # <<>>
  PROVE  Head(list) = list[1] /\ 1 \in DOMAIN list
<1>1. Len(list) \in Nat /\ DOMAIN list = 1..Len(list) /\ Len(list) # 0
  BY LenProperties, EmptySeq
<1> QED BY <1>1, HeadTailProperties

(* The device that stands in is one there is.                               *)
LEMMA AvailableLemma ==
  ASSUME NEW wanted, wanted # "nul", NEW list, list \in DeviceLists
  PROVE  /\ IsValue("device", Available(wanted, list))
         /\ Available(wanted, list) \in {list[i] : i \in DOMAIN list} \cup {""}
         /\ \A i \in DOMAIN list : list[i] # "nul"
<1>1. \A i \in DOMAIN list : list[i] # "nul"
  BY TokensAssumption
<1>2. Available(wanted, list) \in {list[i] : i \in DOMAIN list} \cup {""}
  <2>1. CASE \E i \in DOMAIN list : list[i] = wanted
    BY <2>1 DEF Available
  <2>2. CASE ~ (\E i \in DOMAIN list : list[i] = wanted) /\ list # <<>>
    <3>1. list \in Seq(STRING)
      BY TokensAssumption
    <3>2. Head(list) = list[1] /\ 1 \in DOMAIN list
      BY <3>1, <2>2, HeadLemma, Zenon
    <3> QED BY <2>2, <3>2 DEF Available
  <2>3. CASE ~ (\E i \in DOMAIN list : list[i] = wanted) /\ list = <<>>
    BY <2>3 DEF Available
  <2> QED BY <2>1, <2>2, <2>3
<1> QED BY <1>1, <1>2, ReaderLemma DEF IsValue

-----------------------------------------------------------------------------
(* A step that leaves the file and the store alone.                         *)
Aside == UNCHANGED <<fileVars, storeVars>> /\ (Running' <=> Running)

(* Then the store knows the file as it did.                                 *)
LEMMA AsideKnown == InductiveInvariant /\ Aside => Known'
BY DEF InductiveInvariant, Known, Aside, fileVars, storeVars, IsNewer, IsDamaged,
   IsDocument, Has, Read

(* One of those that leaves the tokens and what is known of them alone too. *)
Still ==
  /\ Aside
  /\ \A f \in TokenFields : settings'[f] = settings[f] /\ changes'[f] = changes[f]
  /\ UNCHANGED <<request, answer, live, granted, edits, spared, dropped>>
  /\ phase' = phase \/ (phase = "recording" /\ phase' = "idle")

(* Then the tokens are what they were.                                      *)
LEMMA StillTokens == InductiveInvariant /\ Still => Unchanged' /\ Asked' /\ Apart' /\ Live'
<1> SUFFICES ASSUME InductiveInvariant, Still PROVE Unchanged' /\ Asked' /\ Apart' /\ Live'
  OBVIOUS
<1>1. Unchanged'
  BY DEF InductiveInvariant, Unchanged, Still, Aside, storeVars
<1>2. Asked'
  BY DEF InductiveInvariant, Asked, Still
<1>3. \A f \in TokenFields : Of(f)' = Of(f) /\ Spent(f)' = Spent(f)
  BY DEF Still, Aside, fileVars, storeVars, Of, Spent, IsDocument, Has, Read
<1>4. Issued' = Issued
  BY DEF Still, Issued
<1>5. Apart'
  BY <1>3, <1>4 DEF InductiveInvariant, Apart, TokenFields
<1>6. Live'
  BY <1>3 DEF InductiveInvariant, Live, Good, Still, Aside, fileVars, IsDocument, Has,
     Read
<1> QED BY <1>1, <1>2, <1>5, <1>6

-----------------------------------------------------------------------------
(* The step of each action. The user chooses a source, what to remember, or *)
(* a device.                                                                *)
LEMMA ChooseStep == InductiveInvariant /\ Choose => InductiveInvariant'
<1> SUFFICES ASSUME InductiveInvariant, Choose PROVE InductiveInvariant'
  OBVIOUS
<1>1. \/ \E v \in {"Screen", "Window"} : settings' = [settings EXCEPT !["source"] = v]
      \/ \E v \in BOOLEAN : settings' = [settings EXCEPT !["rememberWindow"] = v]
      \/ \E i \in DOMAIN devices : settings' = [settings EXCEPT !["device"] = devices[i]]
  BY DEF Choose
<1>2. Valid(settings) /\ \A i \in DOMAIN devices : devices[i] # "nul"
  BY DEF InductiveInvariant, Types
<1>3. /\ Valid(settings')
      /\ \A f \in TokenFields : settings'[f] = settings[f]
      /\ settings'["device"] \in {settings["device"]} \cup {devices[i] : i \in DOMAIN devices}
  <2>1. CASE \E v \in {"Screen", "Window"} : settings' = [settings EXCEPT !["source"] = v]
    <3>1. PICK v \in {"Screen", "Window"} : settings' = [settings EXCEPT !["source"] = v]
      BY <2>1
    <3>2. IsValue("source", v)
      BY ReaderLemma DEF IsValue, SourceNames
    <3> QED BY <1>2, <3>1, <3>2, ReaderLemma DEF Valid
  <2>2. CASE \E v \in BOOLEAN : settings' = [settings EXCEPT !["rememberWindow"] = v]
    <3>1. PICK v \in BOOLEAN : settings' = [settings EXCEPT !["rememberWindow"] = v]
      BY <2>2
    <3>2. IsValue("rememberWindow", v)
      BY ReaderLemma DEF IsValue
    <3> QED BY <1>2, <3>1, <3>2, ReaderLemma DEF Valid
  <2>3. CASE \E i \in DOMAIN devices : settings' = [settings EXCEPT !["device"] = devices[i]]
    <3>1. PICK i \in DOMAIN devices : settings' = [settings EXCEPT !["device"] = devices[i]]
      BY <2>3
    <3>2. IsValue("device", devices[i])
      BY <1>2, ReaderLemma DEF IsValue
    <3> QED BY <1>2, <3>1, <3>2, ReaderLemma DEF Valid
  <2> QED BY <1>1, <2>1, <2>2, <2>3
<1>4. changes \in [{"choices", "screenToken", "windowToken"} -> BOOLEAN]
  BY DEF InductiveInvariant, Types
<1>5. /\ changes' \in [{"choices", "screenToken", "windowToken"} -> BOOLEAN]
      /\ \A f \in TokenFields : changes'[f] = changes[f]
  BY <1>4 DEF Choose, TokenFields
<1>6a. settings'["device"] \in {devices'[i] : i \in DOMAIN devices'} \cup {""}
  <2>1. settings["device"] \in {devices[i] : i \in DOMAIN devices} \cup {""} /\ devices' = devices
    BY DEF InductiveInvariant, Types, Choose, Running
  <2> QED BY <1>3, <2>1
<1>6. Types'
  BY <1>3, <1>5, <1>6a DEF InductiveInvariant, Types, Choose, Act, fileVars, storeVars,
     portalVars, Running
<1>7. Still
  BY <1>3, <1>5 DEF Still, Aside, Choose, Act, fileVars, storeVars, portalVars, Running
<1> QED BY <1>6, <1>7, AsideKnown, StillTokens DEF InductiveInvariant, Still

(* The devices change under Klip.                                           *)
LEMMA RefreshStep == InductiveInvariant /\ RefreshAudioDevices => InductiveInvariant'
<1> SUFFICES ASSUME InductiveInvariant, RefreshAudioDevices PROVE InductiveInvariant'
  OBVIOUS
<1> DEFINE w == IF devices = <<>> THEN writtenDevice ELSE settings["device"]
           d == Available(w, devices')
<1>1. Valid(settings) /\ writtenDevice # "nul"
  BY DEF InductiveInvariant, Types
<1>2. w # "nul"
  BY <1>1, ReaderLemma DEF Valid, IsValue
<1>3. settings' = [settings EXCEPT !["device"] = d] /\ devices' \in DeviceLists
  BY DEF RefreshAudioDevices
<1> HIDE DEF w
<1>4. /\ IsValue("device", d) /\ d \in {devices'[i] : i \in DOMAIN devices'} \cup {""}
      /\ \A i \in DOMAIN devices' : devices'[i] # "nul"
  BY <1>2, <1>3, AvailableLemma
<1> HIDE DEF d
<1>5. Valid(settings') /\ settings'["device"] = d /\ \A f \in TokenFields : settings'[f] = settings[f]
  BY <1>1, <1>3, <1>4, ReaderLemma DEF Valid
<1>6. Types'
  BY <1>4, <1>5
     DEF InductiveInvariant, Types, RefreshAudioDevices, Act, fileVars, storeVars, portalVars, Running
<1>7. Still
  BY <1>5 DEF Still, Aside, RefreshAudioDevices, Act, fileVars, storeVars, portalVars,
     Running
<1> QED BY <1>6, <1>7, AsideKnown, StillTokens DEF InductiveInvariant, Still

(* A recording ends, the mouse is held or released, or nothing happens.     *)
LEMMA StillStep ==
  InductiveInvariant /\ (StopRecording \/ HoldMouse \/ ReleaseMouse \/ UNCHANGED vars) => InductiveInvariant'
<1> SUFFICES ASSUME InductiveInvariant, StopRecording \/ HoldMouse \/ ReleaseMouse \/ UNCHANGED vars
             PROVE  InductiveInvariant'
  OBVIOUS
<1>1. Still
  BY DEF Still, Aside, StopRecording, HoldMouse, ReleaseMouse, Act, vars, fileVars,
     storeVars, recorderVars,
         portalVars, countVars, Running
<1>2. held' \in BOOLEAN
  BY DEF InductiveInvariant, Types, StopRecording, HoldMouse, ReleaseMouse, vars
<1>3. /\ phase' \in {"off", "idle", "asked", "recording", "leaving"}
      /\ UNCHANGED <<settings, written, writtenDevice, devices, changes, canSave, kept, main, legacy>>
      /\ UNCHANGED <<edits, granted, spared, dropped>>
      /\ phase' = "off" => phase = "off"
  BY DEF InductiveInvariant, Types, StopRecording, HoldMouse, ReleaseMouse, Act, vars,
     fileVars, storeVars,
         recorderVars, portalVars, countVars
<1>4. Types'
  BY <1>1, <1>2, <1>3 DEF InductiveInvariant, Types, Still, Aside
<1> QED BY <1>1, <1>4, AsideKnown, StillTokens DEF InductiveInvariant, Still

-----------------------------------------------------------------------------
(* A capture is asked for, with the token of its source or without one.     *)
LEMMA RequestStep == InductiveInvariant /\ RequestCapture => InductiveInvariant'
<1> SUFFICES ASSUME InductiveInvariant, RequestCapture PROVE InductiveInvariant'
  OBVIOUS
<1> DEFINE f == TokenField(settings["source"])
           keeps == KeepsGrant(settings["source"], settings["rememberWindow"])
<1>1. f \in TokenFields
  BY DEF TokenField, TokenFields
<1>2. keeps \in BOOLEAN
  BY ReaderLemma DEF InductiveInvariant, Types, Valid, IsValue, KeepsGrant
<1>3. /\ settings' = IF keeps THEN settings ELSE [settings EXCEPT ![f] = ""]
      /\ changes' = IF keeps THEN changes ELSE [changes EXCEPT ![f] = TRUE]
      /\ request' = [field |-> f, keeps |-> keeps, token |-> settings'[f]]
      /\ answer' = NoAnswer /\ phase' = "asked" /\ phase = "idle"
      /\ UNCHANGED <<fileVars, storeVars, devices, writtenDevice, portalVars, held, edits, spared, dropped>>
  BY DEF RequestCapture, Act
<1> HIDE DEF f, keeps
<1>4. Aside
  BY <1>3 DEF Aside, Running
<1>5. Valid(settings) /\ changes \in [{"choices", "screenToken", "windowToken"} -> BOOLEAN]
  BY DEF InductiveInvariant, Types
<1>6. IsValue(f, "") /\ f \in Fields /\ f # "device"
  BY <1>1, ReaderLemma DEF IsValue
<1>7. /\ Valid(settings') /\ settings'["device"] = settings["device"]
      /\ ~keeps => settings'[f] = ""
      /\ \A g \in TokenFields : settings'[g] = settings[g] \/ (g = f /\ settings'[g] = "" /\ changes'[g])
  <2>1. CASE keeps
    BY <1>3, <1>5, <2>1
  <2>2. CASE ~keeps
    <3>1. settings' = [settings EXCEPT ![f] = ""] /\ changes' = [changes EXCEPT ![f] = TRUE]
      BY <1>3, <2>2
    <3>2. changes'[f] = TRUE
      BY <1>1, <1>5, <3>1 DEF TokenFields
    <3>3. /\ Valid(settings') /\ settings'[f] = ""
          /\ \A g \in Fields : g # f => settings'[g] = settings[g]
      BY <1>5, <1>6, <3>1 DEF Valid
    <3> QED BY <1>6, <3>2, <3>3, ReaderLemma
  <2> QED BY <1>2, <2>1, <2>2
<1>8. /\ changes' \in [{"choices", "screenToken", "windowToken"} -> BOOLEAN]
      /\ \A g \in TokenFields : changes[g] => changes'[g]
  BY <1>1, <1>2, <1>3, <1>5 DEF TokenFields
<1>9. Types'
  <2>1. /\ UNCHANGED <<main, legacy, kept, canSave, written, granted, edits, devices, writtenDevice, held>>
        /\ phase = "idle" /\ phase' = "asked" /\ Running /\ Running'
    BY <1>3 DEF fileVars, storeVars, portalVars, Running
  <2>2. settings'["device"] \in {devices'[i] : i \in DOMAIN devices'} \cup {""}
    BY <1>7, <2>1 DEF InductiveInvariant, Types
  <2>3. Valid(settings') /\ Valid(written')
    BY <1>7, <2>1 DEF InductiveInvariant, Types
  <2> QED BY <1>8, <2>1, <2>2, <2>3 DEF InductiveInvariant, Types
<1>10. Known'
  BY <1>4, AsideKnown
<1>11. Unchanged'
  BY <1>3, <1>7, <1>8 DEF InductiveInvariant, Unchanged, storeVars, Running
<1>12. Asked'
  BY <1>1, <1>2, <1>3, <1>7 DEF Asked
<1>13. Apart'
  <2>1. \A g \in TokenFields : Of(g)' \subseteq Of(g) \cup {""}
    BY <1>3, <1>7 DEF Of, fileVars, storeVars, IsDocument, Has, Read, NoAnswer
  <2>2. Issued' = Issued /\ "" \in Issued
    BY <1>3 DEF Issued, portalVars
  <2> QED BY <2>1, <2>2 DEF InductiveInvariant, Apart, TokenFields
<1>14. Live'
  <2>1. \A g \in TokenFields : ~Spent(g)
    BY <1>3 DEF Spent
  <2>2. Good' = Good /\ live' = live /\ main' = main /\ Running /\ Running'
    BY <1>3 DEF Good, portalVars, fileVars, Running
  <2>3. IsDocument(main)' = IsDocument(main) /\ \A g \in TokenFields : Has(main, g)' = Has(main, g)
    BY <2>2 DEF IsDocument, Has, Read
  <2> QED BY <1>7, <1>8, <2>1, <2>2, <2>3 DEF InductiveInvariant, Live
<1> QED BY <1>9, <1>10, <1>11, <1>12, <1>13, <1>14 DEF InductiveInvariant

(* The portal answers: it takes the token it was sent, or refuses.          *)
LEMMA AnswerStep == InductiveInvariant /\ (PortalGrants \/ PortalRefuses) => InductiveInvariant'
<1> SUFFICES ASSUME InductiveInvariant, PortalGrants \/ PortalRefuses PROVE InductiveInvariant'
  OBVIOUS
<1>0. PICK f, t : f = request.field /\ t = request.token
  OBVIOUS
<1>1. /\ phase = "asked" /\ answer = NoAnswer
      /\ UNCHANGED <<fileVars, storeVars, settings, changes, devices, writtenDevice, phase, request, held,
                     countVars>>
  BY DEF PortalGrants, PortalRefuses
<1>2. /\ f \in TokenFields /\ t = settings[f] /\ request.keeps \in BOOLEAN /\ (~request.keeps => t = "")
  BY <1>0, <1>1 DEF InductiveInvariant, Asked
<1>3. granted \in 0..Len(Tokens)
  BY DEF InductiveInvariant, Types
<1>4. Aside
  BY <1>1 DEF Aside, Running
<1>5. Known'
  BY <1>4, AsideKnown
<1>6. Unchanged'
  BY <1>1 DEF InductiveInvariant, Unchanged, storeVars, Running, countVars
<1>7. t \in Of(f) /\ Of(f) \subseteq Issued
  BY <1>0, <1>2 DEF InductiveInvariant, Apart, Of
<1>8. Good' = Good /\ main' = main
  BY <1>1 DEF Good, fileVars, countVars
<1>9. \A g \in TokenFields : Has(main, g)' = Has(main, g)
  BY <1>8 DEF Has, Read
<1>10. IsDocument(main)' = IsDocument(main) /\ Running' = Running /\ Running
  BY <1>1, <1>8 DEF IsDocument, Running
<1>11. CASE granted' = granted + 1 /\ granted < Len(Tokens) /\ request.keeps
            /\ live' = (live \ {t}) \cup {Tokens[granted']} /\ answer' = [token |-> Tokens[granted'], granted |-> TRUE]
  <2> DEFINE n == Tokens[granted + 1]
  <2>1. n \notin Issued /\ live' = (live \ {t}) \cup {n} /\ answer' = [token |-> n, granted |-> TRUE]
    BY <1>3, <1>11, IssuedLemma
  <2>2. Len(Tokens) \in Nat
    <3>1. Tokens \in Seq(STRING)
      BY TokensAssumption
    <3> QED BY <3>1, LenProperties, Zenon
  <2>3. granted' \in 0..Len(Tokens) /\ granted' \in 1..granted' /\ 1..granted \subseteq 1..granted'
    BY <1>3, <1>11, <2>2
  <2>4. Issued \subseteq Issued' /\ n \in Issued' /\ n \in {Tokens[i] : i \in 1..granted'}
    BY <1>11, <2>3 DEF Issued
  <2> HIDE DEF n
  <2>5. n # t /\ n # "" /\ n \notin {OldToken, OldWindowToken}
    BY <1>7, <2>1 DEF Issued
  <2>6. Types'
    BY <1>1, <1>10, <2>3 DEF InductiveInvariant, Types, fileVars, storeVars, countVars
  <2>7. Asked'
    <3>1. answer'.token = n /\ answer'.granted = TRUE /\ n \in live' /\ request' = request
      BY <1>1, <2>1
    <3>2. n \in live' \cap {Tokens[i] : i \in 1..granted'}
      BY <2>4, <3>1
    <3>3. request'.field \in TokenFields /\ request'.keeps = TRUE /\ request'.token = settings'[request'.field]
          /\ request'.token = t /\ phase' = "asked"
      BY <1>0, <1>1, <1>2, <1>11
    <3> QED BY <2>5, <3>1, <3>2, <3>3 DEF Asked
  <2>8. Spent(f)' /\ \A g \in TokenFields : ~Spent(g)
    BY <1>0, <1>1, <2>1, <2>5 DEF Spent, NoAnswer
  <2>9. Of(f)' = Of(f) \cup {n} /\ \A g \in TokenFields : g # f => Of(g)' = Of(g)
    BY <1>0, <1>1, <1>9, <1>10, <2>1 DEF Of, NoAnswer, fileVars, storeVars
  <2>10. Apart'
    <3>1. \A g \in TokenFields : Of(g)' \subseteq Issued'
      BY <1>2, <2>4, <2>9 DEF InductiveInvariant, Apart
    <3>2. \A g \in TokenFields : n \notin Of(g)
      BY <2>1 DEF InductiveInvariant, Apart
    <3>3. CASE f = "screenToken"
      <4>1. Of("screenToken")' = Of("screenToken") \cup {n} /\ Of("windowToken")' = Of("windowToken")
        BY <2>9, <3>3 DEF TokenFields
      <4> QED BY <3>1, <3>2, <4>1 DEF InductiveInvariant, Apart, TokenFields
    <3>4. CASE f = "windowToken"
      <4>1. Of("windowToken")' = Of("windowToken") \cup {n} /\ Of("screenToken")' = Of("screenToken")
        BY <2>9, <3>4 DEF TokenFields
      <4> QED BY <3>1, <3>2, <4>1 DEF InductiveInvariant, Apart, TokenFields
    <3> QED BY <1>2, <3>3, <3>4 DEF TokenFields
  <2>11. \A g \in TokenFields : g # f =>
           /\ settings[g] # t \/ settings[g] = ""
           /\ IsDocument(main) => Has(main, g) # t \/ Has(main, g) = ""
    BY <1>2, <1>7 DEF InductiveInvariant, Apart, Of, TokenFields
  <2>12. \A g \in TokenFields : settings'[g] = settings[g] /\ changes'[g] = changes[g]
    BY <1>1
  <2>13. Live'
    <3> SUFFICES ASSUME Good PROVE Live'
      BY <1>8 DEF Live
    <3>1. \A g \in TokenFields : settings'[g] \in live' \cup {""} \/ Spent(g)'
      BY <1>2, <1>10, <2>1, <2>8, <2>11, <2>12 DEF InductiveInvariant, Live
    <3>2. IsDocument(main) => \A g \in TokenFields :
            Has(main, g) \in live' \cup {""} \/ changes'[g] \/ Spent(g)'
      BY <1>2, <1>10, <2>1, <2>8, <2>11, <2>12 DEF InductiveInvariant, Live
    <3>3. main = Missing =>
            /\ {OldToken, OldWindowToken} \subseteq live' \cup {""}
            /\ \A g \in TokenFields : settings'[g] = "" \/ settings'[g] \notin {OldToken, OldWindowToken}
      BY <1>2, <1>10, <2>1, <2>12 DEF InductiveInvariant, Live
    <3> QED BY <1>8, <1>9, <1>10, <3>1, <3>2, <3>3 DEF Live
  <2> QED BY <1>5, <1>6, <2>6, <2>7, <2>10, <2>13 DEF InductiveInvariant
<1>12. CASE UNCHANGED portalVars
            /\ answer' \in {[token |-> t, granted |-> TRUE], [token |-> "", granted |-> FALSE]}
  <2>1. live' = live /\ granted' = granted
    BY <1>12 DEF portalVars
  <2>2. Types'
    BY <1>1, <1>10, <2>1 DEF InductiveInvariant, Types, fileVars, storeVars, countVars
  <2>2a. \/ answer' = [token |-> "", granted |-> FALSE]
         \/ answer'.granted = TRUE /\ answer'.token = t
    <3>1. answer' = [token |-> t, granted |-> TRUE] \/ answer' = [token |-> "", granted |-> FALSE]
      BY <1>12
    <3>2. CASE answer' = [token |-> t, granted |-> TRUE]
      BY <3>2
    <3> QED BY <3>1, <3>2
  <2>3. Asked'
    BY <1>0, <1>1, <1>2, <2>2a DEF Asked
  <2>4. \A g \in TokenFields : ~Spent(g)
    BY <1>1 DEF Spent, NoAnswer
  <2>5. \A g \in TokenFields : Of(g)' = Of(g)
    <3>1. \A g \in TokenFields :
            (IF phase' = "asked" /\ request'.field = g /\ answer'.granted THEN {answer'.token} ELSE {}) \subseteq {settings[g]}
      <4>1. ASSUME NEW a, a = [token |-> "", granted |-> FALSE] PROVE ~a.granted
        BY <4>1
      <4> QED BY <1>0, <1>1, <1>2, <2>2a, <4>1
    <3>2. answer.granted = FALSE
      BY <1>1 DEF NoAnswer
    <3> QED BY <1>1, <1>9, <1>10, <3>1, <3>2 DEF Of, fileVars, storeVars
  <2>6. Apart'
    BY <2>1, <2>5 DEF InductiveInvariant, Apart, Issued, TokenFields
  <2>7. Live'
    BY <1>1, <1>8, <1>9, <1>10, <2>1, <2>4 DEF InductiveInvariant, Live
  <2> QED BY <1>5, <1>6, <2>2, <2>3, <2>6, <2>7 DEF InductiveInvariant
<1> QED BY <1>0, <1>11, <1>12 DEF PortalGrants, PortalRefuses

(* The recorder hears of it, and takes the token there is a new one of.     *)
LEMMA OnStartedStep == InductiveInvariant /\ OnStarted => InductiveInvariant'
<1> SUFFICES ASSUME InductiveInvariant, OnStarted PROVE InductiveInvariant'
  OBVIOUS
<1>1. PICK f, t : f = request.field /\ t = answer.token
  OBVIOUS
<1>2. /\ phase = "asked" /\ answer # NoAnswer /\ answer' = NoAnswer
      /\ phase' \in {"idle", "recording"}
      /\ UNCHANGED <<fileVars, storeVars, devices, writtenDevice, portalVars, held, countVars>>
  BY DEF OnStarted
<1>3. \/ /\ request.keeps /\ t \notin {"", request.token}
         /\ settings' = [settings EXCEPT ![f] = t]
         /\ changes' = [changes EXCEPT ![f] = TRUE]
      \/ ~ (request.keeps /\ t \notin {"", request.token}) /\ UNCHANGED <<settings, changes>>
  BY <1>1 DEF OnStarted
<1>4. Aside
  BY <1>2 DEF Aside, Running
<1>5. Known'
  BY <1>4, AsideKnown
<1>6. f \in TokenFields
  BY <1>1, <1>2 DEF InductiveInvariant, Asked
<1>7. Valid(settings) /\ changes \in [{"choices", "screenToken", "windowToken"} -> BOOLEAN]
  BY DEF InductiveInvariant, Types
<1>8. Good' = Good /\ main' = main /\ live' = live /\ Issued' = Issued
  BY <1>2 DEF Good, fileVars, countVars, portalVars, Issued
<1>9. \A g \in TokenFields : Has(main, g)' = Has(main, g)
  BY <1>8 DEF Has, Read
<1>10. IsDocument(main)' = IsDocument(main) /\ Running' /\ Running
  BY <1>2, <1>8 DEF IsDocument, Running
<1>11. Asked'
  BY <1>2 DEF Asked
<1>12. \A g \in TokenFields : ~Spent(g)'
  BY <1>2 DEF Spent
<1>13. CASE /\ request.keeps /\ t \notin {"", request.token}
            /\ settings' = [settings EXCEPT ![f] = t]
            /\ changes' = [changes EXCEPT ![f] = TRUE]
  <2>1. answer.granted /\ t \in live /\ t \in {Tokens[i] : i \in 1..granted}
    <3>1. ASSUME NEW a, a = [token |-> "", granted |-> FALSE] PROVE a.token = ""
      BY <3>1
    <3> QED BY <1>1, <1>2, <1>13, <3>1 DEF InductiveInvariant, Asked
  <2>2. t \in Of(f) /\ t \in Issued
    BY <1>1, <1>2, <2>1 DEF Of, Issued
  <2>3. granted \in 0..Len(Tokens)
    BY DEF InductiveInvariant, Types
  <2>4. t # "nul"
    BY <2>2, <2>3, IssuedLemma
  <2>5. t \notin {OldToken, OldWindowToken}
    BY <2>1, <2>3, IssuedLemma
  <2>6. IsValue(f, t) /\ f \in Fields /\ f # "device"
    BY <1>6, <2>4, ReaderLemma DEF IsValue
  <2>7. /\ Valid(settings') /\ settings'[f] = t
        /\ \A g \in Fields : g # f => settings'[g] = settings[g]
    BY <1>7, <1>13, <2>6 DEF Valid
  <2>8. /\ changes' \in [{"choices", "screenToken", "windowToken"} -> BOOLEAN]
        /\ changes'[f] = TRUE
        /\ \A g \in TokenFields : changes[g] => changes'[g]
    BY <1>6, <1>7, <1>13 DEF TokenFields
  <2>9. settings'["device"] = settings["device"] /\ \A g \in TokenFields : g \in Fields
    BY <2>6, <2>7, ReaderLemma
  <2>10. Types'
    BY <1>2, <1>10, <2>7, <2>8, <2>9
       DEF InductiveInvariant, Types, fileVars, storeVars, portalVars, countVars, Running
  <2>11. Unchanged'
    BY <1>2, <1>10, <2>7, <2>8, <2>9 DEF InductiveInvariant, Unchanged, storeVars,
       countVars
  <2>12. \A g \in TokenFields : Of(g)' \subseteq Of(g)
    BY <1>2, <1>9, <1>10, <2>2, <2>7, <2>9 DEF Of, storeVars, NoAnswer
  <2>13. Apart'
    BY <1>8, <2>12 DEF InductiveInvariant, Apart, TokenFields
  <2>14. \A g \in TokenFields : Spent(g) => g = f
    BY <1>1 DEF Spent
  <2>15. Live'
    BY <1>6, <1>8, <1>9, <1>10, <2>1, <2>5, <2>7, <2>8, <2>9, <2>14
       DEF InductiveInvariant, Live
  <2> QED BY <1>5, <1>11, <2>10, <2>11, <2>13, <2>15 DEF InductiveInvariant
<1>14. CASE ~ (request.keeps /\ t \notin {"", request.token}) /\ UNCHANGED <<settings, changes>>
  <2>1. Types'
    BY <1>2, <1>10, <1>14 DEF InductiveInvariant, Types, fileVars, storeVars,
       portalVars, countVars
  <2>2. Unchanged'
    BY <1>2, <1>10, <1>14 DEF InductiveInvariant, Unchanged, storeVars, countVars
  <2>3. \A g \in TokenFields : Of(g)' \subseteq Of(g)
    BY <1>2, <1>9, <1>10, <1>14 DEF Of, storeVars, NoAnswer
  <2>4. Apart'
    BY <1>8, <2>3 DEF InductiveInvariant, Apart, TokenFields
  <2>5. \A g \in TokenFields : ~Spent(g)
    <3>1. ASSUME NEW a, a = [token |-> "", granted |-> FALSE] PROVE ~a.granted
      BY <3>1
    <3>2. \A i \in 1..granted : Tokens[i] # ""
      <4>1. granted \in 0..Len(Tokens)
        BY DEF InductiveInvariant, Types
      <4> QED BY <4>1, IssuedLemma
    <3> QED BY <1>1, <1>2, <1>14, <3>1, <3>2 DEF InductiveInvariant, Asked, Spent
  <2>6. Live'
    BY <1>8, <1>9, <1>10, <1>12, <1>14, <2>5 DEF InductiveInvariant, Live
  <2> QED BY <1>5, <1>11, <2>1, <2>2, <2>4, <2>6 DEF InductiveInvariant
<1> QED BY <1>3, <1>13, <1>14

-----------------------------------------------------------------------------
(* What a save may write: the changes, and what was written before.         *)
LEMMA MergedLemma ==
  ASSUME InductiveInvariant
  PROVE  /\ Valid(Merged)
         /\ \A f \in TokenFields : Merged[f] \in {settings[f], written[f]}
         /\ \A f \in TokenFields : Running /\ spared => Merged[f] = settings[f]
         /\ \A f \in TokenFields : Stored(f, Merged[f]) = Merged[f]
         /\ \A f \in Fields \ TokenFields : ~changes.choices => Merged[f] = written[f]
<1>1. /\ DOMAIN Merged = Fields
      /\ \A f \in Fields : Merged[f] =
           IF IF f \in TokenFields THEN changes[f] ELSE changes.choices THEN settings[f] ELSE written[f]
  BY DEF Merged
<1>2. Valid(Merged)
  BY <1>1 DEF InductiveInvariant, Types, Valid
<1>3. \A f \in TokenFields : f \in Fields /\ Merged[f] = IF changes[f] THEN settings[f] ELSE written[f]
  BY <1>1, ReaderLemma
<1>4. \A f \in TokenFields : Running /\ spared => Merged[f] = settings[f]
  BY <1>3 DEF InductiveInvariant, Unchanged
<1>5. \A f \in TokenFields : Merged[f] \in Issued
  BY <1>3 DEF InductiveInvariant, Apart, Of
<1>6. \A f \in TokenFields : Stored(f, Merged[f]) = Merged[f]
  <2>1. granted \in 0..Len(Tokens)
    BY DEF InductiveInvariant, Types
  <2> QED BY <1>5, <2>1, IssuedLemma DEF Stored
<1> QED BY <1>1, <1>2, <1>3, <1>4, <1>6

(* What a save does to the file and to what the store knows: one of three.  *)
Nothing == UNCHANGED <<main, kept, written>> /\ spared' = (spared /\ ~Changed) /\ (canSave => ~Changed)
Failed  == UNCHANGED <<main, kept, written>> /\ spared' = FALSE
Wrote   == canSave /\ main' = TextOf(Merged) /\ kept' = main' /\ written' = Merged /\ spared' = spared

(* Save is one of the three.                                                *)
LEMMA SaveLemma ==
  InductiveInvariant /\ Running /\ Save => Nothing \/ Failed \/ Wrote
<1> SUFFICES ASSUME InductiveInvariant, Running, Save PROVE Nothing \/ Failed \/ Wrote
  OBVIOUS
<1>1. CASE canSave /\ Changed
  <2>1. kept = main
    BY <1>1 DEF InductiveInvariant, Known
  <2>2. PICK stored \in BOOLEAN : Write(Merged, stored) /\ written' = IF stored THEN Merged ELSE written
    BY <1>1 DEF Save
  <2>3. CASE stored
    BY <1>1, <2>1, <2>2, <2>3 DEF Write, Wrote
  <2>4. CASE ~stored
    BY <1>1, <2>1, <2>2, <2>4 DEF Write, Failed
  <2> QED BY <2>3, <2>4
<1>2. CASE ~ (canSave /\ Changed)
  BY <1>2 DEF Save, Nothing
<1> QED BY <1>1, <1>2

(* What a save that wrote has left.                                         *)
LEMMA WroteLemma ==
  InductiveInvariant /\ Wrote =>
    /\ IsText(main') /\ main' # Missing /\ IsDocument(main)' /\ ~IsNewer(main)' /\ ~IsDamaged(main)'
    /\ main' \notin Broken
    /\ Valid(written') /\ kept' = main'
    /\ \A f \in Fields : Has(main, f)' = Stored(f, written'[f])
    /\ \A f \in TokenFields : Has(main, f)' = written'[f]
<1> SUFFICES ASSUME InductiveInvariant, Wrote
             PROVE  /\ IsText(main') /\ main' # Missing /\ IsDocument(main)' /\ ~IsNewer(main)' /\ ~IsDamaged(main)'
                    /\ main' \notin Broken
                    /\ Valid(written') /\ kept' = main'
                    /\ \A f \in Fields : Has(main, f)' = Stored(f, written'[f])
                    /\ \A f \in TokenFields : Has(main, f)' = written'[f]
  OBVIOUS
<1> DEFINE over == IF kept = Missing THEN Empty ELSE kept
           w == WriteSettingsJson(Merged, over)
<1>1. Valid(Merged)
  BY MergedLemma
<1>2. /\ IsText(w) /\ Read(w).version = SettingsVersion /\ Read(w).numInvalid = 0
      /\ \A f \in Fields : Has(w, f) = Stored(f, Merged[f])
  BY <1>1, WriteLemma
<1>3. main' = w /\ kept' = w /\ written' = Merged
  BY DEF Wrote, TextOf
<1> HIDE DEF w
<1>4. IsDocument(w) /\ w \notin Broken /\ w # Missing
  BY <1>2, DocumentLemma
<1>5. ~IsNewer(w) /\ ~IsDamaged(w)
  BY <1>2, <1>4 DEF IsNewer, IsDamaged, SettingsVersion
<1>6. IsDocument(main)' /\ ~IsNewer(main)' /\ ~IsDamaged(main)'
  BY <1>3, <1>4, <1>5 DEF IsDocument, IsNewer, IsDamaged, Read
<1>7. \A f \in Fields : Has(main, f)' = Stored(f, written'[f])
  BY <1>2, <1>3 DEF Has, Read
<1>8. \A f \in TokenFields : Has(main, f)' = written'[f]
  BY <1>3, <1>7, MergedLemma, ReaderLemma
<1> QED BY <1>1, <1>2, <1>3, <1>4, <1>6, <1>7, <1>8

(* A save, whether Klip goes on or leaves.                                  *)
Stays  == UNCHANGED <<phase, request, answer, dropped>>
Leaves == phase' = "leaving" /\ answer' = NoAnswer /\ dropped' = (dropped \/ answer.granted)

(* After it the invariant holds again.                                      *)
LEMMA SaveStep ==
  ASSUME InductiveInvariant, Running, Save, Stays \/ Leaves
  PROVE  InductiveInvariant'
<1>1. Nothing \/ Failed \/ Wrote
  BY SaveLemma
<1>2. /\ changes' = NoChanges
      /\ writtenDevice' = IF changes.choices THEN settings["device"] ELSE writtenDevice
      /\ UNCHANGED <<bad, legacy, canSave, settings, devices, live, granted, held, edits>>
  BY DEF Save, portalVars
<1>3. Issued' = Issued
  BY <1>2 DEF Issued
<1>4. Wrote \/ UNCHANGED <<main, kept, written>>
  BY <1>1 DEF Nothing, Failed, Wrote
<1>5. phase' = phase \/ phase' = "leaving"
  BY DEF Stays, Leaves
<1>6. Types'
  <2>1. (main' \in Broken \cup {Missing} \/ IsText(main')) /\ (edits' = 0 => main' \notin Broken) /\ Valid(written')
    BY <1>2, <1>4, WroteLemma DEF InductiveInvariant, Types
  <2>2. writtenDevice' # "nul"
    BY <1>2, ReaderLemma DEF InductiveInvariant, Types, Valid, IsValue
  <2>3. changes' \in [{"choices", "screenToken", "windowToken"} -> BOOLEAN]
    BY <1>2, NoChangesLemma
  <2>4. phase' \in {"off", "idle", "asked", "recording", "leaving"} /\ phase' # "off" /\ (Running' => Running)
    BY <1>5 DEF InductiveInvariant, Types, Running
  <2>5. NoChanges' = NoChanges
    BY DEF NoChanges
  <2> QED BY <1>2, <2>1, <2>2, <2>3, <2>4, <2>5 DEF InductiveInvariant, Types, Left
<1>7. Known'
  <2>1. CASE Wrote
    BY <2>1, WroteLemma DEF Known
  <2>2. CASE UNCHANGED <<main, kept, written>>
    BY <1>2, <2>2 DEF InductiveInvariant, Known, IsNewer, IsDamaged, IsDocument, Has,
       Read
  <2> QED BY <1>4, <2>1, <2>2
<1>8. spared' => spared /\ \A f \in TokenFields : settings[f] = written'[f]
  <2>1. CASE Nothing
    <3>1. spared' => spared /\ changes = NoChanges
      BY <2>1 DEF Nothing, Changed
    <3> QED BY <2>1, <3>1, NoChangesLemma DEF InductiveInvariant, Unchanged, Nothing
  <2>2. CASE Failed
    BY <2>2 DEF Failed
  <2>3. CASE Wrote
    BY <2>3, MergedLemma DEF Wrote
  <2> QED BY <1>1, <2>1, <2>2, <2>3
<1>9. Unchanged'
  BY <1>2, <1>8 DEF Unchanged
<1>10. Asked'
  <2>1. CASE Stays
    BY <1>2, <2>1 DEF InductiveInvariant, Asked, Stays, NoAnswer
  <2>2. CASE Leaves
    BY <2>2 DEF Leaves, Asked, NoAnswer
  <2> QED BY <2>1, <2>2
<1>11. \A f \in TokenFields : written'[f] \in {settings[f], written[f]}
  BY <1>4, MergedLemma DEF Wrote
<1>12. \A f \in TokenFields : IsDocument(main)' =>
         Has(main, f)' = written'[f] \/ (IsDocument(main) /\ Has(main, f)' = Has(main, f))
  <2>1. CASE Wrote
    BY <2>1, WroteLemma
  <2>2. CASE UNCHANGED <<main, kept, written>>
    BY <2>2 DEF IsDocument, Has, Read
  <2> QED BY <1>4, <2>1, <2>2
<1>13. Apart'
  <2>1. \A f \in TokenFields : Of(f)' \subseteq Of(f)
    BY <1>2, <1>11, <1>12 DEF Of, Stays, Leaves
  <2> QED BY <1>3, <2>1 DEF InductiveInvariant, Apart, TokenFields
<1>14. Live'
  <2> SUFFICES ASSUME Good' PROVE Live'
    BY DEF Live
  <2>1. Good /\ spared'
    <3>1. spared' /\ edits = 0 /\ ~dropped'
      BY <1>2 DEF Good
    <3>2. ~dropped
      BY <3>1, Zenon DEF Stays, Leaves
    <3> QED BY <1>8, <3>1, <3>2 DEF Good
  <2>2. \A f \in TokenFields : Spent(f) => Stays /\ Spent(f)'
    BY <1>2 DEF Good, Stays, Leaves, Spent
  <2>3. \A f \in TokenFields : settings'[f] \in live' \cup {""} \/ Spent(f)'
    BY <1>2, <2>1, <2>2 DEF InductiveInvariant, Live
  <2>4. IsDocument(main)' => \A f \in TokenFields : Has(main, f)' \in live' \cup {""} \/ Spent(f)'
    <3>1. CASE Wrote
      BY <1>2, <1>8, <2>1, <2>3, <3>1, WroteLemma
    <3>2. CASE Nothing
      <4>1. \A f \in TokenFields : ~changes[f]
        <5>1. changes = NoChanges
          BY <2>1, <3>2 DEF Nothing, Changed
        <5> QED BY <5>1, NoChangesLemma
      <4>2. main' = main /\ IsDocument(main)' = IsDocument(main)
            /\ \A f \in TokenFields : Has(main, f)' = Has(main, f)
        BY <3>2 DEF Nothing, IsDocument, Has, Read
      <4> QED BY <1>2, <2>1, <2>2, <4>1, <4>2 DEF InductiveInvariant, Live
    <3>3. CASE Failed
      BY <2>1, <3>3 DEF Failed
    <3> QED BY <1>1, <3>1, <3>2, <3>3
  <2>5. main' = Missing => main = Missing
    BY <1>4, WroteLemma
  <2>6. main' = Missing =>
          /\ {OldToken, OldWindowToken} \subseteq live' \cup {""}
          /\ \A f \in TokenFields : settings'[f] = "" \/ settings'[f] \notin {OldToken, OldWindowToken}
    BY <1>2, <2>1, <2>5 DEF InductiveInvariant, Live
  <2> QED BY <2>3, <2>4, <2>6 DEF Live
<1> QED BY <1>6, <1>7, <1>9, <1>10, <1>13, <1>14 DEF InductiveInvariant

(* Klip saves at the end of an iteration, or as it leaves.                  *)
LEMMA SavesStep == InductiveInvariant /\ (SaveSettings \/ Quit) => InductiveInvariant'
<1>1. ASSUME InductiveInvariant, SaveSettings PROVE InductiveInvariant'
  BY <1>1, SaveStep DEF SaveSettings, Stays
<1>2. ASSUME InductiveInvariant, Quit PROVE InductiveInvariant'
  BY <1>2, SaveStep DEF Quit, Leaves
<1> QED BY <1>1, <1>2

-----------------------------------------------------------------------------
(* Nothing is left of the process.                                          *)
LEMMA GoneStep == InductiveInvariant /\ (Exit \/ Die) => InductiveInvariant'
<1> SUFFICES ASSUME InductiveInvariant, Exit \/ Die PROVE InductiveInvariant'
  OBVIOUS
<1>1. /\ phase' = "off" /\ kept' = Missing /\ canSave' = FALSE /\ written' = Defaults /\ settings' = Defaults
      /\ changes' = NoChanges /\ devices' = <<>> /\ writtenDevice' = "" /\ answer' = NoAnswer /\ held' = FALSE
      /\ UNCHANGED <<main, bad, legacy, live, granted, edits>>
  BY DEF Exit, Die, Gone, fileVars, portalVars
<1>2. ~Running'
  BY <1>1 DEF Running
<1>3. Types'
  <2>1. changes' \in [{"choices", "screenToken", "windowToken"} -> BOOLEAN]
    BY <1>1, NoChangesLemma
  <2>2. Valid(settings') /\ Valid(written')
    BY <1>1, DefaultsLemma
  <2>3. \A i \in DOMAIN devices' : devices'[i] # "nul"
    <3>1. DOMAIN <<>> = {}
      OBVIOUS
    <3> QED BY <1>1, <3>1
  <2>4. NoChanges' = NoChanges
    BY DEF NoChanges
  <2> QED BY <1>1, <1>2, <2>1, <2>2, <2>3, <2>4 DEF InductiveInvariant, Types, Left
<1>4. Known' /\ Unchanged' /\ Asked'
  BY <1>1, <1>2 DEF Known, Unchanged, Asked
<1>5. \A f \in TokenFields : Has(main, f)' = Has(main, f)
  BY <1>1 DEF Has, Read
<1>6. IsDocument(main)' = IsDocument(main) /\ Issued' = Issued
  BY <1>1 DEF IsDocument, Issued
<1>7. \A f \in TokenFields : Of(f)' \subseteq Of(f) \cup {""}
  BY <1>1, <1>5, <1>6, DefaultsLemma DEF Of
<1>8. Apart'
  BY <1>6, <1>7 DEF InductiveInvariant, Apart, Issued, TokenFields
<1>9. Good' => Good /\ (\A f \in TokenFields : ~Spent(f)) /\ (Running => \A f \in TokenFields : ~changes[f])
  <2>1. CASE Exit
    BY <1>1, <2>1 DEF Exit, Good, Spent, Running
  <2>2. CASE Die
    <3>1. spared' = (spared /\ ~Changed) /\ dropped' = (dropped \/ answer.granted) /\ edits' = edits
      BY <1>1, <2>2 DEF Die
    <3>2. Good' => spared /\ changes = NoChanges /\ ~dropped /\ ~answer.granted /\ edits = 0
      BY <3>1, Zenon DEF Good, Changed
    <3>3. Good' => \A f \in TokenFields : ~changes[f]
      BY <3>2, NoChangesLemma
    <3> QED BY <3>2, <3>3 DEF Good, Spent
  <2> QED BY <2>1, <2>2
<1>10. Live'
  BY <1>1, <1>2, <1>5, <1>6, <1>9 DEF InductiveInvariant, Live
<1> QED BY <1>3, <1>4, <1>8, <1>10 DEF InductiveInvariant

-----------------------------------------------------------------------------
(* The file of an earlier run is a document with its tokens.                *)
LEMMA LeftLemma ==
  /\ IsText(Left)
  /\ Has(Left, "screenToken") = OldToken /\ Has(Left, "windowToken") = OldWindowToken
<1> DEFINE s == [Defaults EXCEPT !["screenToken"] = OldToken, !["windowToken"] = OldWindowToken,
                                 !["device"] = "speaker"]
<1>1. \A t \in {OldToken, OldWindowToken} : t # "nul" /\ Dumped(t) = t
  <2>1. \A t \in {OldToken, OldWindowToken} \cup {Tokens[i] : i \in DOMAIN Tokens} : t # "nul" /\ Dumped(t) = t
    BY TokensAssumption
  <2> QED BY <2>1
<1>2. /\ Valid(Defaults)
      /\ {"screenToken", "windowToken", "device"} \subseteq Fields
      /\ Reader["screenToken"] = "string" /\ Reader["windowToken"] = "string" /\ Reader["device"] = "string"
  BY DefaultsLemma, ReaderLemma DEF TokenFields
<1>3. IsValue("screenToken", OldToken) /\ IsValue("windowToken", OldWindowToken) /\ IsValue("device", "speaker")
  BY <1>1, <1>2 DEF IsValue
<1>4. /\ DOMAIN s = Fields
      /\ s["screenToken"] = OldToken /\ s["windowToken"] = OldWindowToken /\ s["device"] = "speaker"
      /\ \A f \in Fields : f \notin {"screenToken", "windowToken", "device"} => s[f] = Defaults[f]
  BY <1>2 DEF Valid
<1>5. Left = WriteSettingsJson(s, Empty)
  BY DEF Left
<1> HIDE DEF s
<1>6. Valid(s)
  BY <1>2, <1>3, <1>4 DEF Valid
<1>7. IsText(Left) /\ \A f \in Fields : Has(Left, f) = Stored(f, s[f])
  BY <1>5, <1>6, WriteLemma
<1> QED BY <1>1, <1>2, <1>4, <1>7 DEF Stored

(* What Load leaves, whichever file it found and whatever failed.           *)
Loads ==
  /\ Valid(written') /\ canSave' \in BOOLEAN
  /\ main' \in Broken \cup {Missing} \/ IsText(main')
  /\ edits = 0 => main' \notin Broken
  /\ canSave' =>
       /\ kept' = main' /\ main' \notin Broken
       /\ ~IsNewer(main)'
       /\ IsDamaged(main)' => bad' = main'
       /\ IsDocument(main)' => \A f \in Fields : Has(main, f)' = Stored(f, written'[f])
  /\ \A f \in TokenFields :
       written'[f] \in Of(f) \cup {""} /\ (IsDocument(main)' => Has(main, f)' \in Of(f) \cup {""})
  /\ spared' => spared
  /\ Good /\ spared' => \A f \in TokenFields :
       /\ written'[f] \in live \cup {""}
       /\ IsDocument(main)' => Has(main, f)' \in live \cup {""}
       /\ main' = Missing => main = Missing /\ written'[f] = ""

(* What holds of no file.                                                   *)
LEMMA MissingLemma == ~IsDocument(Missing) /\ ~IsNewer(Missing) /\ ~IsDamaged(Missing) /\ Missing \notin Broken
<1>1. Missing \notin Broken
  <2>1. Missing.broken = "no file" /\ NotJson.broken = "text" /\ NotObject.broken = "array"
    BY DEF Missing, NotJson, NotObject
  <2> QED BY <2>1 DEF Broken
<1> QED BY <1>1 DEF IsDocument, IsNewer, IsDamaged

(* So it does.                                                              *)
LEMMA LoadLemma == InductiveInvariant /\ phase = "off" /\ Load => Loads
<1> SUFFICES ASSUME InductiveInvariant, phase = "off", Load PROVE Loads
  OBVIOUS
<1>1. /\ ~Running /\ kept = Missing /\ \A f \in TokenFields : ~Spent(f)
      /\ legacy \in {Left, Missing}
      /\ main \in Broken \cup {Missing} \/ IsText(main)
      /\ edits = 0 => main \notin Broken
  BY DEF InductiveInvariant, Types, Running, Spent
<1>2. \A f \in TokenFields : f \in Fields /\ Defaults[f] = ""
  BY ReaderLemma, DefaultsLemma
<1>3. Good /\ IsDocument(main) => \A f \in TokenFields : Has(main, f) \in live \cup {""}
  BY <1>1 DEF InductiveInvariant, Live
<1>4. IsDocument(main) => \A f \in TokenFields : Has(main, f) \in Of(f)
  BY DEF Of
<1>5. CASE LoadDocument
  <2>1. /\ IsDocument(main) /\ kept' = main /\ main' = main /\ written' = Read(main).settings
        /\ \/ Read(main).numInvalid # 0 /\ KeepBackup(~IsNewer(main))
           \/ Read(main).numInvalid = 0 /\ canSave' = ~IsNewer(main) /\ UNCHANGED spared
    BY <1>5 DEF LoadDocument
  <2>2. IsText(main)
    BY <1>1, <2>1 DEF IsDocument
  <2>3. Valid(written') /\ main \notin Broken /\ main # Missing
    BY <2>1, <2>2, TextLemma, DocumentLemma
  <2>4. /\ canSave' \in BOOLEAN /\ spared' = spared
        /\ canSave' => ~IsNewer(main) /\ (Read(main).numInvalid # 0 => bad' = main)
    BY <2>1 DEF KeepBackup
  <2>5. IsNewer(main)' = IsNewer(main) /\ IsDamaged(main)' = IsDamaged(main) /\ IsDocument(main)' = IsDocument(main)
    BY <2>1 DEF IsNewer, IsDamaged, IsDocument, Read
  <2>6. \A f \in Fields : Has(main, f)' = written'[f] /\ Has(main, f) = written'[f] /\ Stored(f, written'[f]) = written'[f]
    BY <2>1, <2>2, TextLemma DEF Has, Read
  <2>7. canSave' => (IsDamaged(main)' => bad' = main')
    BY <2>1, <2>3, <2>4, <2>5 DEF IsDamaged
  <2> QED BY <1>2, <1>3, <1>4, <2>1, <2>2, <2>3, <2>4, <2>5, <2>6, <2>7 DEF Loads
<1>6. ASSUME main' \in {main, Missing}, kept' = Missing, written' = Defaults, canSave' \in BOOLEAN,
             canSave' => main' = Missing, spared' = spared, Good => main' = main
      PROVE  Loads
  <2>1. \A f \in TokenFields : IsDocument(main)' => IsDocument(main) /\ Has(main, f)' = Has(main, f)
    BY <1>6 DEF IsDocument, Has, Read
  <2>2. main' = Missing => ~IsNewer(main)' /\ ~IsDamaged(main)' /\ ~IsDocument(main)' /\ main' \notin Broken
    BY MissingLemma DEF IsNewer, IsDamaged, IsDocument, Read
  <2> QED BY <1>1, <1>2, <1>3, <1>4, <1>6, <2>1, <2>2, DefaultsLemma DEF Loads
<1>7. CASE MoveAside
  <2>1. Good => main \notin Broken
    BY <1>1 DEF Good
  <2> QED BY <1>6, <1>7, <2>1 DEF MoveAside
<1>8. CASE ImportNothing
  BY <1>6, <1>8 DEF ImportNothing
<1>9. CASE LoadUnreadable
  BY <1>6, <1>9 DEF LoadUnreadable
<1>10. CASE ImportLegacy
  <2>1. /\ main = Missing /\ legacy = Left /\ written' = Read(Left).settings /\ canSave' = TRUE
        /\ \E stored \in BOOLEAN : Write(written', stored)
    BY <1>1, <1>10 DEF ImportLegacy
  <2>2. /\ Valid(written') /\ \A f \in Fields : written'[f] = Has(Left, f) /\ Stored(f, written'[f]) = written'[f]
    BY <2>1, LeftLemma, TextLemma DEF Has
  <2>3. \A f \in TokenFields :
          /\ written'[f] = IF f = "screenToken" THEN OldToken ELSE OldWindowToken
          /\ written'[f] \in Of(f)
    BY <1>2, <2>2, LeftLemma DEF Of, TokenFields
  <2>4. Good => {OldToken, OldWindowToken} \subseteq live \cup {""}
    BY <2>1 DEF InductiveInvariant, Live
  <2> DEFINE w == WriteSettingsJson(written', Empty)
  <2>5. TextOf(written') = w
    BY <1>1 DEF TextOf
  <2>6. /\ IsText(w) /\ Read(w).version = SettingsVersion /\ Read(w).numInvalid = 0
        /\ \A f \in Fields : Has(w, f) = Stored(f, written'[f])
    BY <2>2, WriteLemma
  <2> HIDE DEF w
  <2>7. IsDocument(w) /\ w \notin Broken /\ w # Missing
    BY <2>6, DocumentLemma
  <2>8. ~IsNewer(w) /\ ~IsDamaged(w)
    BY <2>6, <2>7 DEF IsNewer, IsDamaged, SettingsVersion
  <2>9. \/ main' = w /\ kept' = w /\ spared' = spared
        \/ main' = Missing /\ kept' = Missing /\ spared' = FALSE
    <3>1. PICK stored \in BOOLEAN : Write(written', stored)
      BY <2>1
    <3> QED BY <1>1, <2>1, <2>5, <2>7, <3>1 DEF Write
  <2>10. CASE main' = w /\ kept' = w /\ spared' = spared
    <3>1. IsDocument(main)' /\ ~IsNewer(main)' /\ ~IsDamaged(main)'
      BY <2>7, <2>8, <2>10 DEF IsDocument, IsNewer, IsDamaged, Read
    <3>2. \A f \in Fields : Has(main, f)' = Stored(f, written'[f]) /\ Has(main, f)' = written'[f]
      BY <2>2, <2>6, <2>10 DEF Has, Read
    <3>3. canSave' =>
            /\ kept' = main' /\ main' \notin Broken
            /\ ~IsNewer(main)'
            /\ IsDamaged(main)' => bad' = main'
            /\ IsDocument(main)' => \A f \in Fields : Has(main, f)' = Stored(f, written'[f])
      BY <2>7, <2>10, <3>1, <3>2
    <3>4. \A f \in TokenFields :
            /\ written'[f] \in Of(f) \cup {""}
            /\ Has(main, f)' \in Of(f) \cup {""}
            /\ Good => written'[f] \in live \cup {""} /\ Has(main, f)' \in live \cup {""}
      BY <1>2, <2>3, <2>4, <3>2
    <3>5. canSave' \in BOOLEAN /\ main' \notin Broken /\ main' # Missing /\ IsText(main')
      BY <2>1, <2>6, <2>7, <2>10
    <3> QED BY <2>2, <2>10, <3>3, <3>4, <3>5 DEF Loads
  <2>11. CASE main' = Missing /\ kept' = Missing /\ spared' = FALSE
    <3>1. ~IsDocument(main)' /\ ~IsNewer(main)' /\ ~IsDamaged(main)' /\ main' \notin Broken
      BY <2>11, MissingLemma DEF IsDocument, IsNewer, IsDamaged, Read
    <3> QED BY <2>1, <2>2, <2>3, <2>11, <3>1 DEF Loads
  <2> QED BY <2>9, <2>10, <2>11
<1> QED BY <1>5, <1>7, <1>8, <1>9, <1>10 DEF Load

(* Klip starts.                                                             *)
LEMMA StartStep == InductiveInvariant /\ Start => InductiveInvariant'
<1> SUFFICES ASSUME InductiveInvariant, Start PROVE InductiveInvariant'
  OBVIOUS
<1> DEFINE d == Available(written'["device"], devices')
<1>1. /\ phase = "off" /\ phase' = "idle" /\ Load
      /\ writtenDevice' = written'["device"] /\ devices' \in DeviceLists
      /\ settings' = [written' EXCEPT !["device"] = d]
      /\ UNCHANGED <<legacy, changes, answer, live, granted, held, edits, dropped>>
  BY DEF Start, portalVars
<1>2. Loads
  BY <1>1, LoadLemma
<1>3. ~Running /\ Running' /\ changes = NoChanges /\ answer = NoAnswer
  BY <1>1 DEF InductiveInvariant, Types, Asked, Running
<1>4. Valid(written') /\ written'["device"] # "nul"
  BY <1>2, ReaderLemma DEF Loads, Valid, IsValue
<1>5. /\ IsValue("device", d) /\ d \in {devices'[i] : i \in DOMAIN devices'} \cup {""}
      /\ \A i \in DOMAIN devices' : devices'[i] # "nul"
  BY <1>1, <1>4, AvailableLemma
<1> HIDE DEF d
<1>6. Valid(settings') /\ settings'["device"] = d /\ \A f \in TokenFields : settings'[f] = written'[f]
  BY <1>1, <1>4, <1>5, ReaderLemma DEF Valid
<1>7. Types'
  <2>1. Left' = Left
    BY DEF Left
  <2> QED
    BY <1>1, <1>2, <1>3, <1>4, <1>5, <1>6, <2>1 DEF InductiveInvariant, Types, Loads
<1>8. Known'
  BY <1>2 DEF Known, Loads
<1>9. Unchanged' /\ Asked'
  BY <1>1, <1>3, <1>6 DEF Unchanged, Asked
<1>10. Apart'
  <2>1. \A f \in TokenFields : Of(f)' \subseteq Of(f) \cup {""}
    <3>1. \A f \in TokenFields :
            /\ settings'[f] \in Of(f) \cup {""} /\ written'[f] \in Of(f) \cup {""}
            /\ IsDocument(main)' => Has(main, f)' \in Of(f) \cup {""}
      BY <1>2, <1>6 DEF Loads
    <3>2. \A f \in TokenFields : (IF f = "screenToken" THEN OldToken ELSE OldWindowToken) \in Of(f)
      BY DEF Of
    <3>3. \A f \in TokenFields : Of(f)' =
            {settings'[f], written'[f], IF f = "screenToken" THEN OldToken ELSE OldWindowToken}
              \cup (IF IsDocument(main)' THEN {Has(main, f)'} ELSE {})
      BY <1>1 DEF Of
    <3>4. ASSUME NEW f \in TokenFields PROVE Of(f)' \subseteq Of(f) \cup {""}
      <4> DEFINE token == IF f = "screenToken" THEN OldToken ELSE OldWindowToken
      <4>1. {settings'[f], written'[f], token} \subseteq Of(f) \cup {""}
        BY <3>1, <3>2
      <4>2. (IF IsDocument(main)' THEN {Has(main, f)'} ELSE {}) \subseteq Of(f) \cup {""}
        BY <3>1
      <4>3. Of(f)' = {settings'[f], written'[f], token} \cup (IF IsDocument(main)' THEN {Has(main, f)'} ELSE {})
        BY <3>3, Zenon
      <4> QED BY <4>1, <4>2, <4>3, Zenon
    <3> QED BY <3>4
  <2>2. Issued' = Issued /\ "" \in Issued
    BY <1>1 DEF Issued
  <2> QED BY <2>1, <2>2 DEF InductiveInvariant, Apart, TokenFields
<1>11. Live'
  <2> SUFFICES ASSUME Good' PROVE Live'
    BY DEF Live
  <2>1. Good /\ spared'
    BY <1>1, <1>2 DEF Good, Loads
  <2>2. \A f \in TokenFields :
          /\ settings'[f] \in live' \cup {""}
          /\ IsDocument(main)' => Has(main, f)' \in live' \cup {""}
          /\ main' = Missing => main = Missing /\ settings'[f] = ""
    BY <1>1, <1>2, <1>6, <2>1 DEF Loads
  <2>3. main = Missing => {OldToken, OldWindowToken} \subseteq live \cup {""}
    BY <2>1 DEF InductiveInvariant, Live
  <2>4. "screenToken" \in TokenFields
    BY DEF TokenFields
  <2> QED BY <1>1, <2>2, <2>3, <2>4 DEF Live
<1> QED BY <1>7, <1>8, <1>9, <1>10, <1>11 DEF InductiveInvariant

(* The user edits the file.                                                 *)
LEMMA EditStep == InductiveInvariant /\ EditByHand => InductiveInvariant'
<1> SUFFICES ASSUME InductiveInvariant, EditByHand PROVE InductiveInvariant'
  OBVIOUS
<1>1. /\ phase = "off" /\ edits' = edits + 1
      /\ UNCHANGED <<bad, legacy, storeVars, recorderVars, portalVars, held, spared, dropped>>
      /\ main' \in Broken \/ (IsDocument(main) /\ (main' = [main EXCEPT !.version = Number(SettingsVersion + 1)]
                                \/ main' = [main EXCEPT !.field["source"] = Null, !.own = FALSE]
                                \/ main' = [main EXCEPT !.unknown["root"] = TRUE, !.own = FALSE]))
  BY DEF EditByHand
<1>2. edits \in Nat /\ ~Running /\ ~Running'
  BY <1>1 DEF InductiveInvariant, Types, Running, recorderVars
<1>3. main' \in Broken \/ (/\ IsDocument(main) /\ IsText(main')
                           /\ \A f \in TokenFields : Has(main, f)' = Has(main, f))
  <2>1. CASE main' \in Broken
    BY <2>1
  <2>2. CASE main' \notin Broken
    <3>1. IsText(main)
      BY <1>1, <2>2 DEF InductiveInvariant, Types, IsDocument
    <3>2. IsText(main') /\ \A f \in TokenFields : Has(main', f) = Has(main, f)
      BY <1>1, <2>2, <3>1, EditLemma
    <3> QED BY <1>1, <2>2, <3>2 DEF Has, Read
  <2> QED BY <2>1, <2>2
<1>4. edits' \in Nat /\ edits' # 0
  BY <1>1, <1>2
<1>5. Types'
  <2>1. Left' = Left /\ NoChanges' = NoChanges
    BY DEF Left, NoChanges
  <2> QED
    BY <1>1, <1>2, <1>3, <1>4, <2>1 DEF InductiveInvariant, Types, storeVars,
       recorderVars, portalVars
<1>6. Known' /\ Unchanged' /\ Asked'
  BY <1>1, <1>2 DEF InductiveInvariant, Known, Unchanged, Asked, recorderVars
<1>7. \A f \in TokenFields : Of(f)' \subseteq Of(f)
  <2>1. IsDocument(main)' => main' \notin Broken
    BY DEF IsDocument
  <2> QED BY <1>1, <1>3, <2>1 DEF Of, storeVars, recorderVars
<1>8. Apart'
  BY <1>1, <1>7 DEF InductiveInvariant, Apart, Issued, TokenFields, portalVars
<1>9. Live'
  BY <1>4 DEF Live, Good
<1> QED BY <1>5, <1>6, <1>8, <1>9 DEF InductiveInvariant

-----------------------------------------------------------------------------
(* It holds before anything has happened.                                   *)
LEMMA Initially == Init => InductiveInvariant
<1> SUFFICES ASSUME Init PROVE InductiveInvariant
  OBVIOUS
<1>1. /\ main \in {Left, Missing} /\ legacy \in {Left, Missing} /\ kept = Missing /\ canSave = FALSE
      /\ written = Defaults /\ settings = Defaults /\ changes = NoChanges /\ devices = <<>>
      /\ writtenDevice = "" /\ phase = "off" /\ answer = NoAnswer /\ held = FALSE
      /\ live = {OldToken, OldWindowToken} /\ granted = 0 /\ edits = 0 /\ spared = TRUE /\ dropped = FALSE
  BY DEF Init
<1>2. ~Running
  BY <1>1 DEF Running
<1>3. IsText(Left) /\ Left \notin Broken /\ Missing \notin Broken /\ ~IsDocument(Missing) /\ Left # Missing
  BY LeftLemma, DocumentLemma, MissingLemma
<1>4. Types
  <2>1. Valid(settings) /\ Valid(written)
    BY <1>1, DefaultsLemma
  <2>2. \A i \in DOMAIN devices : devices[i] # "nul"
    <3>1. DOMAIN <<>> = {}
      OBVIOUS
    <3> QED BY <1>1, <3>1
  <2>3. changes \in [{"choices", "screenToken", "windowToken"} -> BOOLEAN]
    BY <1>1, NoChangesLemma
  <2>4. granted \in 0..Len(Tokens)
    <3>1. Tokens \in Seq(STRING)
      BY TokensAssumption
    <3>2. Len(Tokens) \in Nat
      BY <3>1, LenProperties, Zenon
    <3>3. ASSUME NEW n \in Nat PROVE 0 \in 0..n
      OBVIOUS
    <3>4. 0 \in 0..Len(Tokens)
      BY <3>2, <3>3
    <3> QED BY <1>1, <3>4
  <2> QED BY <1>1, <1>2, <1>3, <2>1, <2>2, <2>3, <2>4 DEF Types
<1>5. Known /\ Unchanged /\ Asked
  BY <1>1, <1>2 DEF Known, Unchanged, Asked
<1>6. \A f \in TokenFields :
        IsDocument(main) => Has(main, f) = IF f = "screenToken" THEN OldToken ELSE OldWindowToken
  BY <1>1, <1>3, LeftLemma DEF TokenFields
<1>7. Apart
  <2>1. \A f \in TokenFields : Of(f) \subseteq {"", IF f = "screenToken" THEN OldToken ELSE OldWindowToken}
    BY <1>1, <1>6, DefaultsLemma DEF Of
  <2>2. OldToken = OldWindowToken => OldToken = ""
    BY TokensAssumption
  <2>3. Of("screenToken") \subseteq {"", OldToken} /\ Of("windowToken") \subseteq {"", OldWindowToken}
    BY <2>1 DEF TokenFields
  <2> QED BY <2>2, <2>3 DEF Apart, Issued, TokenFields
<1>8. Live
  BY <1>1, <1>2, <1>6, DefaultsLemma DEF Live
<1> QED BY <1>4, <1>5, <1>7, <1>8 DEF InductiveInvariant

(* Every step keeps it.                                                     *)
LEMMA Inductive == InductiveInvariant /\ [Next]_vars => InductiveInvariant'
<1> SUFFICES ASSUME InductiveInvariant, [Next]_vars PROVE InductiveInvariant'
  OBVIOUS
<1>1. CASE Start
  BY <1>1, StartStep
<1>2. CASE Choose
  BY <1>2, ChooseStep
<1>3. CASE RefreshAudioDevices
  BY <1>3, RefreshStep
<1>4. CASE RequestCapture
  BY <1>4, RequestStep
<1>5. CASE PortalGrants \/ PortalRefuses
  BY <1>5, AnswerStep
<1>6. CASE OnStarted
  BY <1>6, OnStartedStep
<1>7. CASE StopRecording \/ HoldMouse \/ ReleaseMouse \/ UNCHANGED vars
  BY <1>7, StillStep
<1>8. CASE SaveSettings \/ Quit
  BY <1>8, SavesStep
<1>9. CASE Exit \/ Die
  BY <1>9, GoneStep
<1>10. CASE EditByHand
  BY <1>10, EditStep
<1> QED BY <1>1, <1>2, <1>3, <1>4, <1>5, <1>6, <1>7, <1>8, <1>9, <1>10 DEF Next

(* The inductive invariant is one.                                          *)
THEOREM InductiveInvariantHolds == Spec => []InductiveInvariant
BY Initially, Inductive, PTL DEF Spec

-----------------------------------------------------------------------------
(* What SettingsStore's state is made of (settings_store.hpp, recorder.hpp).*)
THEOREM TypesHold == Spec => []TypeOK
<1>1. InductiveInvariant => TypeOK
  BY DEF InductiveInvariant, Types, TypeOK, Valid, Running
<1> QED BY <1>1, InductiveInvariantHolds, PTL

(* Unless something kept a change from it, the file has the tokens the      *)
(* recorder has once it is saved (CSettingsStore::Save), for any number of  *)
(* runs, tokens, edits and faults.                                          *)
THEOREM FileHasTheTokensHolds == Spec => []FileHasTheTokens
<1>1. InductiveInvariant => FileHasTheTokens
  <2> SUFFICES ASSUME InductiveInvariant, Running, canSave, spared, ~Changed, IsDocument(main), NEW f \in TokenFields
               PROVE  Read(main).settings[f] = settings[f]
    BY DEF FileHasTheTokens
  <2>1. settings[f] = written[f]
    BY NoChangesLemma DEF InductiveInvariant, Unchanged, Changed
  <2>2. Has(main, f) = Stored(f, written[f])
    BY ReaderLemma DEF InductiveInvariant, Known
  <2>3. settings[f] \in Issued /\ granted \in 0..Len(Tokens)
    BY DEF InductiveInvariant, Types, Apart, Of
  <2>4. Dumped(settings[f]) = settings[f]
    BY <2>3, IssuedLemma
  <2> QED BY <2>1, <2>2, <2>4 DEF Stored, Has
<1> QED BY <1>1, InductiveInvariantHolds, PTL

(* No token the portal has spent is held for the next start                 *)
(* (recorder.cpp:504), for any number of runs, tokens, edits and faults.    *)
THEOREM HeldTokenIsLiveHolds == Spec => []HeldTokenIsLive
<1>1. InductiveInvariant => HeldTokenIsLive
  BY DEF InductiveInvariant, Live, Good, Spent, HeldTokenIsLive, Running
<1> QED BY <1>1, InductiveInvariantHolds, PTL

-----------------------------------------------------------------------------
(* Who changes the file but the user: a save over the text that is in it,   *)
(* and a start that finds no settings there.                                *)
Saved   == Running /\ Wrote /\ kept = main /\ bad' = bad
Started == \/ main \in Broken /\ main' = Missing /\ bad' = main
           \/ main = Missing

(* There is nobody else.                                                    *)
LEMMA ChangesOfTheFile ==
  InductiveInvariant /\ [Next]_vars /\ edits' = edits /\ main' # main => Saved \/ Started
<1> SUFFICES ASSUME InductiveInvariant, [Next]_vars, edits' = edits, main' # main PROVE Saved \/ Started
  OBVIOUS
<1>1. CASE Start
  BY <1>1 DEF Start, Load, LoadDocument, MoveAside, ImportLegacy, ImportNothing,
     LoadUnreadable, Started
<1>2. CASE SaveSettings \/ Quit
  <2>1. Running /\ Save
    BY <1>2 DEF SaveSettings, Quit
  <2>2. Wrote
    BY <2>1, SaveLemma DEF Nothing, Failed
  <2>3. kept = main /\ bad' = bad
    BY <2>1, <2>2 DEF InductiveInvariant, Known, Wrote, Save
  <2> QED BY <2>1, <2>2, <2>3 DEF Saved
<1>3. CASE EditByHand
  <2>1. edits \in Nat /\ edits' = edits + 1
    BY <1>3 DEF InductiveInvariant, Types, EditByHand
  <2> QED BY <2>1
<1>4. Start \/ SaveSettings \/ Quit \/ EditByHand
  BY DEF Next, vars, Choose, RefreshAudioDevices, RequestCapture, PortalGrants,
     PortalRefuses, OnStarted, StopRecording,
         HoldMouse, ReleaseMouse, Exit, Die, Gone, fileVars
<1> QED BY <1>1, <1>2, <1>3, <1>4

(* A save writes over what it has read: a document, not a newer Klip's,     *)
(* whose replaced values are in the backup.                                 *)
LEMMA SavedLemma ==
  InductiveInvariant /\ Saved =>
    /\ ~IsNewer(main) /\ (IsDamaged(main) => bad' = main)
    /\ IsDocument(main)'
    /\ IsDocument(main) =>
         /\ main'.unknown = main.unknown
         /\ ~changes.choices => \A f \in Fields \ TokenFields : Has(main, f)' = Has(main, f)
<1> SUFFICES ASSUME InductiveInvariant, Saved
             PROVE  /\ ~IsNewer(main) /\ (IsDamaged(main) => bad' = main)
                    /\ IsDocument(main)'
                    /\ IsDocument(main) =>
                         /\ main'.unknown = main.unknown
                         /\ ~changes.choices => \A f \in Fields \ TokenFields : Has(main, f)' = Has(main, f)
  OBVIOUS
<1>1. Running /\ canSave /\ main' = TextOf(Merged) /\ kept = main /\ bad' = bad /\ written' = Merged
  BY DEF Saved, Wrote
<1>2. /\ ~IsNewer(main) /\ (IsDamaged(main) => bad = main)
      /\ IsDocument(main) => \A f \in Fields : Has(main, f) = Stored(f, written[f])
  BY <1>1 DEF InductiveInvariant, Known
<1>3. IsDocument(main)' /\ \A f \in Fields : Has(main, f)' = Stored(f, Merged[f])
  BY <1>1, WroteLemma DEF Saved
<1>4. IsDocument(main) => main'.unknown = main.unknown
  BY <1>1 DEF TextOf, WriteSettingsJson, IsDocument
<1>5. \A f \in Fields \ TokenFields : ~changes.choices => Merged[f] = written[f]
  BY MergedLemma
<1> QED BY <1>1, <1>2, <1>3, <1>4, <1>5

(* What a save never does to the file it is made over: a newer Klip's file  *)
(* is not touched, replaced values are in the backup, unknown keys survive, *)
(* and a token that arrives changes no choice (CSettingsStore::Load, Save), *)
(* for any number of runs, tokens, edits and faults.                        *)
THEOREM SavesKeepTheFileHolds == Spec => SavesKeepTheFile
<1>1. InductiveInvariant /\ [Next]_vars => [IsNewer(main) /\ edits' = edits => main' = main]_vars
  <2> SUFFICES ASSUME InductiveInvariant, [Next]_vars, IsNewer(main), edits' = edits, main' # main PROVE FALSE
    OBVIOUS
  <2>1. main \notin Broken \cup {Missing}
    BY DEF IsNewer, IsDocument
  <2> QED BY <2>1, ChangesOfTheFile, SavedLemma DEF Started
<1>2. InductiveInvariant /\ [Next]_vars
        => [IsDamaged(main) /\ edits' = edits /\ main' # main => bad' = main]_vars
  BY ChangesOfTheFile, SavedLemma, MissingLemma DEF Started
<1>3. InductiveInvariant /\ [Next]_vars
        => [IsDocument(main) /\ edits' = edits /\ main' # main
              => IsDocument(main') /\ main'.unknown = main.unknown]_vars
  <2> SUFFICES ASSUME InductiveInvariant, [Next]_vars, IsDocument(main), edits' = edits, main' # main
               PROVE  IsDocument(main') /\ main'.unknown = main.unknown
    OBVIOUS
  <2>1. Saved
    BY ChangesOfTheFile DEF Started, IsDocument
  <2>2. IsDocument(main)' /\ main'.unknown = main.unknown
    BY <2>1, SavedLemma
  <2> QED BY <2>2 DEF IsDocument
<1>4. InductiveInvariant /\ [Next]_vars
        => [IsDocument(main) /\ edits' = edits /\ ~changes.choices /\ main' # main
              => \A f \in ChoiceFields : Read(main').settings[f] = Read(main).settings[f]]_vars
  <2> SUFFICES ASSUME InductiveInvariant, [Next]_vars, IsDocument(main), edits' = edits, ~changes.choices,
                      main' # main, NEW f \in ChoiceFields
               PROVE  Read(main').settings[f] = Read(main).settings[f]
    OBVIOUS
  <2>1. Saved
    BY ChangesOfTheFile DEF Started, IsDocument
  <2>2. Has(main, f)' = Has(main, f)
    BY <2>1, SavedLemma DEF ChoiceFields
  <2> QED BY <2>2 DEF Has, Read
<1> QED BY <1>1, <1>2, <1>3, <1>4, InductiveInvariantHolds, PTL
        DEF Spec, SavesKeepTheFile, NewerIsNeverSavedOver, ReplacedValuesAreKept, UnknownKeysSurvive,
            TokenSaveKeepsChoices

-----------------------------------------------------------------------------
(* Reading and writing, whatever the text.                                  *)

(* A JSON value whose string, if it is one, is of a set. Invalid UTF-8      *)
(* never comes from a parser.                                               *)
IsJson(j, strings) ==
  \/ j \in {Absent, Null}
  \/ \E b \in BOOLEAN : j = <<"boolean", b>>
  \/ \E x \in strings \ {"latin1"} : j = <<"string", x>>
  \/ \E n : j = Number(n)

(* What the parser makes of a document.                                     *)
IsParsed(t, strings) ==
  /\ DOMAIN t = {"version", "field", "section", "unknown", "own"}
  /\ DOMAIN t.field = Fields
  /\ \A f \in Fields : IsJson(t.field[f], strings)

(* A value that is read is legal, and is written as it stood there.         *)
LEMMA AcceptedLemma ==
  ASSUME NEW f \in Fields, NEW j, NEW strings, IsJson(j, strings), Accepts(f, j)
  PROVE  /\ IsValue(f, Taken(f, j)) /\ ToJson(f, Taken(f, j)) = j
         /\ Reader[f] = "string" => Taken(f, j) \in strings
<1> DEFINE r == Reader[f]
<1>1. r \in {"string", "name", "bool", "rate", "gain"}
  BY ReaderLemma
<1>2. \/ j[1] \in {"absent", "null"}
      \/ j[1] = "boolean" /\ j[2] \in BOOLEAN /\ j = <<"boolean", j[2]>>
      \/ j[1] = "string" /\ j[2] \in strings \ {"latin1"} /\ j = <<"string", j[2]>>
      \/ j[1] \in {"unsigned", "integer"} /\ j = Number(j[2])
  <2>1. CASE j \in {Absent, Null}
    BY <2>1 DEF Absent, Null
  <2>2. ASSUME NEW b \in BOOLEAN, j = <<"boolean", b>>
        PROVE  j[1] = "boolean" /\ j[2] \in BOOLEAN /\ j = <<"boolean", j[2]>>
    <3>1. j[1] = "boolean" /\ j[2] = b
      BY <2>2
    <3>2. j = <<"boolean", j[2]>>
      BY <2>2, <3>1
    <3> QED BY <3>1, <3>2
  <2>3. CASE \E x \in strings \ {"latin1"} : j = <<"string", x>>
    BY <2>3
  <2>4. ASSUME NEW n, j = Number(n) PROVE j[1] \in {"unsigned", "integer"} /\ j = Number(j[2])
    <3>1. j[2] = n /\ j[1] \in {"unsigned", "integer"}
      BY <2>4 DEF Number
    <3> QED BY <2>4, <3>1
  <2> QED BY <2>1, <2>2, <2>3, <2>4 DEF IsJson
<1> HIDE DEF r
<1>3. CASE r = "string"
  <2>1. j[1] = "string" /\ j[2] # "nul"
    BY <1>3 DEF Accepts, IsString, r
  <2>2. j[2] \in strings \ {"latin1"} /\ j = <<"string", j[2]>>
    BY <1>2, <2>1
  <2>3. Taken(f, j) = j[2]
    BY <1>3 DEF Taken, r
  <2>4. ToJson(f, j[2]) = <<"string", j[2]>>
    BY <1>3, <2>2 DEF ToJson, Dumped, r
  <2> QED BY <1>3, <2>1, <2>2, <2>3, <2>4 DEF IsValue, r
<1>4. CASE r = "name"
  <2>1. j[1] = "string" /\ \E v \in DOMAIN SourceNames : SourceNames[v] = j[2]
    BY <1>4 DEF Accepts, IsName, r
  <2>2. j = <<"string", j[2]>>
    BY <1>2, <2>1
  <2> DEFINE c == CHOOSE v \in DOMAIN SourceNames : SourceNames[v] = j[2]
  <2>3. c \in DOMAIN SourceNames /\ SourceNames[c] = j[2]
    BY <2>1
  <2>4. Taken(f, j) = c
    BY <1>4 DEF Taken, r
  <2> HIDE DEF c
  <2>5. ToJson(f, c) = j
    BY <1>4, <2>2, <2>3 DEF ToJson, r
  <2> QED BY <1>4, <2>3, <2>4, <2>5 DEF IsValue, r
<1>5. CASE r = "bool"
  <2>1. j[1] = "boolean"
    BY <1>5 DEF Accepts, r
  <2>2. j[2] \in BOOLEAN /\ j = <<"boolean", j[2]>>
    BY <1>2, <2>1
  <2>3. Taken(f, j) = j[2]
    BY <1>5 DEF Taken, r
  <2>4. ToJson(f, j[2]) = <<"boolean", j[2]>>
    BY <1>5 DEF ToJson, r
  <2> QED BY <1>5, <2>2, <2>3, <2>4 DEF IsValue, r
<1>6. CASE r = "rate"
  <2>1. j[1] = "unsigned" /\ j[2] \in FrameRateCaps
    BY <1>6 DEF Accepts, IsRate, r
  <2>2. j = Number(j[2])
    BY <1>2, <2>1
  <2>3. Taken(f, j) = j[2]
    BY <1>6 DEF Taken, r
  <2>4. ToJson(f, j[2]) = Number(j[2])
    BY <1>6 DEF ToJson, r
  <2> QED BY <1>6, <2>1, <2>2, <2>3, <2>4 DEF IsValue, r
<1>7. CASE r = "gain"
  <2>1. j[1] \in {"unsigned", "integer"} /\ j[2] \in GainRange
    BY <1>7 DEF Accepts, IsIntegerInRange, r
  <2>2. j = Number(j[2])
    BY <1>2, <2>1
  <2>3. ~ (j[2] >= 2 ^ (NumberBits - 1))
    BY <2>1, NumbersAreWide DEF GainRange
  <2>4. Taken(f, j) = j[2]
    BY <1>7, <2>3 DEF Taken, Signed, r
  <2>5. ToJson(f, j[2]) = Number(j[2])
    BY <1>7 DEF ToJson, r
  <2> QED BY <1>7, <2>1, <2>2, <2>4, <2>5 DEF IsValue, r
<1> QED BY <1>1, <1>3, <1>4, <1>5, <1>6, <1>7 DEF r

(* What is counted is finite, so nothing is counted where nothing was       *)
(* rejected.                                                                *)
LEMMA RejectedLemma == ASSUME NEW t, Read(t).numInvalid = 0 PROVE Rejected(t) = {}
<1> DEFINE Names == {"directory", "source", "frameRate", "device"} \cup {"rememberWindow", "gain", "screenToken", "windowToken"}
           Places == {"output", "capture", "audio", "system"} \cup {"portal", "restoreTokens", "version"}
<1>1. \A a, b, c, d : IsFiniteSet({a, b, c, d})
  <2> TAKE a, b, c, d
  <2>1. IsFiniteSet({a}) /\ IsFiniteSet({b}) /\ IsFiniteSet({c}) /\ IsFiniteSet({d})
    BY FS_Singleton
  <2>2. IsFiniteSet({a} \cup {b}) /\ IsFiniteSet({c} \cup {d})
    BY <2>1, FS_Union
  <2>3. IsFiniteSet(({a} \cup {b}) \cup ({c} \cup {d}))
    BY <2>2, FS_Union
  <2>4. ({a} \cup {b}) \cup ({c} \cup {d}) = {a, b, c, d}
    OBVIOUS
  <2> QED BY <2>3, <2>4
<1>2. IsFiniteSet(Names)
  BY <1>1, FS_Union
<1>3. IsFiniteSet(Places)
  <2>1. IsFiniteSet({"portal", "restoreTokens", "version", "version"})
    BY <1>1
  <2>2. {"portal", "restoreTokens", "version", "version"} = {"portal", "restoreTokens", "version"}
    OBVIOUS
  <2> QED BY <1>1, <2>1, <2>2, FS_Union
<1>4. Fields \subseteq Names
  BY FieldsAreRead DEF Reader
<1>5. Sections \subseteq Places
  <2> SUFFICES ASSUME NEW f \in Fields PROVE Within(SectionOf[f]) \subseteq Places
    BY DEF Sections
  <2>1. SectionOf[f] \in {"output", "capture", "system", "restoreTokens"}
    BY <1>4 DEF SectionOf
  <2>2. \A s \in {"output", "capture", "system", "restoreTokens"} : Within(s) \subseteq Places
    BY DEF Within, Parent
  <2> QED BY <2>1, <2>2
<1>6. Rejected(t) \subseteq Names \cup Places
  BY <1>4, <1>5 DEF Rejected
<1>7. IsFiniteSet(Rejected(t))
  <2> HIDE DEF Names, Places
  <2>1. IsFiniteSet(Names \cup Places)
    BY <1>2, <1>3, FS_Union
  <2> QED BY <1>6, <2>1, FS_Subset
<1>8. Cardinality(Rejected(t)) = 0
  BY DEF Read, ReadSettingsJson
<1> QED BY <1>7, <1>8, FS_EmptySet

(* A text by any hand gives settings the recorder can use, and where        *)
(* nothing in it was rejected, so that no backup is made, writing over it   *)
(* keeps every value and every key of it (settings_store.cpp,               *)
(* settings_json.cpp).                                                      *)
THEOREM AnyTextIsSafe ==
  ASSUME NEW t, NEW strings, IsParsed(t, strings)
  PROVE  /\ \A f \in Fields : IsValue(f, Read(t).settings[f])
         /\ \A f \in Fields : Reader[f] = "string" => Read(t).settings[f] \in strings \cup {Defaults[f]}
         /\ Read(t).numInvalid = 0 =>
              LET saved == WriteSettingsJson(Read(t).settings, t) IN
              /\ \A f \in Fields : t.field[f] # Absent => saved.field[f] = t.field[f]
              /\ saved.unknown = t.unknown
<1> DEFINE saved == WriteSettingsJson(Read(t).settings, t)
<1>1. ASSUME NEW f \in Fields
      PROVE  Read(t).settings[f] =
               IF t.field[f] # Absent /\ Accepts(f, t.field[f]) THEN Taken(f, t.field[f]) ELSE Defaults[f]
  BY DEF Read, ReadSettingsJson
<1>2. \A f \in Fields : IsValue(f, Defaults[f])
  BY DefaultsLemma DEF Valid
<1>3. ASSUME NEW f \in Fields
      PROVE  /\ IsValue(f, Read(t).settings[f])
             /\ Reader[f] = "string" => Read(t).settings[f] \in strings \cup {Defaults[f]}
  BY <1>1, <1>2, AcceptedLemma DEF IsParsed
<1>4. ASSUME Read(t).numInvalid = 0, NEW f \in Fields, t.field[f] # Absent
      PROVE  saved.field[f] = t.field[f]
  <2>1. Accepts(f, t.field[f])
    BY <1>4, RejectedLemma DEF Rejected
  <2>2. Read(t).settings[f] = Taken(f, t.field[f])
    BY <1>1, <1>4, <2>1
  <2>3. saved.field[f] = ToJson(f, Read(t).settings[f])
    BY DEF WriteSettingsJson
  <2> QED BY <2>1, <2>2, <2>3, AcceptedLemma DEF IsParsed
<1>5. saved.unknown = t.unknown
  BY DEF WriteSettingsJson
<1> QED BY <1>3, <1>4, <1>5

(* The strings that a default, an edit by hand or a Klip.conf leaves.       *)
Hands == {"videos", "screen", "nul", ""}

(* Settings that can be used are legal.                                     *)
LEMMA LegalLemma ==
  ASSUME NEW f \in Fields, NEW v, IsValue(f, v),
         Reader[f] = "string" => v \in Hands \cup {Defaults[f]}
  PROVE  v \in Legal(f)
<1> DEFINE r == Reader[f]
<1>1. r \in {"string", "name", "bool", "rate", "gain"}
  BY ReaderLemma
<1>2. r = "string" => Defaults[f] \in {"videos", ""}
  <2>1. f \in {"directory", "source", "frameRate", "device", "rememberWindow", "gain", "screenToken", "windowToken"}
    BY FieldsAreRead DEF Reader
  <2>2. r = "string" => f \in {"directory", "device", "screenToken", "windowToken"}
    BY <2>1 DEF Reader
  <2> QED BY <2>2 DEF Defaults
<1> HIDE DEF r
<1>3. CASE r = "string"
  <2>1. v \in {"videos", "screen", ""}
    BY <1>2, <1>3 DEF Hands, IsValue, r
  <2> QED BY <1>3, <2>1 DEF Legal, r
<1>4. CASE r = "name"
  BY <1>4 DEF Legal, IsValue, r
<1>5. CASE r = "bool"
  BY <1>5 DEF Legal, IsValue, r
<1>6. CASE r = "rate"
  BY <1>6 DEF Legal, IsValue, r
<1>7. CASE r = "gain"
  BY <1>7 DEF Legal, IsValue, r
<1> QED BY <1>1, <1>3, <1>4, <1>5, <1>6, <1>7

(* A text with such strings is safe to save over.                           *)
LEMMA SafeLemma == ASSUME NEW t, IsParsed(t, Hands) PROVE SafeToSave(t)
<1>1. \A f \in Fields : Read(t).settings[f] \in Legal(f)
  BY AnyTextIsSafe, LegalLemma
<1> QED BY <1>1, AnyTextIsSafe DEF SafeToSave

(* What Klip writes of its defaults is parsed.                              *)
LEMMA FreshLemma == IsParsed(WrittenFresh(Defaults), Hands)
<1> DEFINE t == WrittenFresh(Defaults)
<1>1. /\ DOMAIN t = {"version", "field", "section", "unknown", "own"}
      /\ DOMAIN t.field = Fields /\ \A f \in Fields : t.field[f] = ToJson(f, Defaults[f])
  BY DEF WrittenFresh, WriteSettingsJson
<1> HIDE DEF t
<1>2. ASSUME NEW f \in Fields PROVE IsJson(ToJson(f, Defaults[f]), Hands)
  <2> DEFINE r == Reader[f]
             d == Defaults[f]
  <2>0. f \in {"directory", "source", "frameRate", "device", "rememberWindow", "gain", "screenToken", "windowToken"}
    BY FieldsAreRead DEF Reader
  <2>1. CASE f \in {"directory", "device", "screenToken", "windowToken"}
    <3>1. r = "string" /\ d \in {"videos", ""}
      <4>1. Reader[f] = "string"
        BY <2>1 DEF Reader
      <4>2. Defaults[f] \in {"videos", ""}
        BY <2>1 DEF Defaults
      <4> QED BY <4>1, <4>2
    <3> HIDE DEF r, d
    <3>2. ToJson(f, d) = <<"string", d>>
      BY <3>1 DEF ToJson, Dumped, r
    <3> QED BY <3>1, <3>2 DEF IsJson, Hands, d
  <2>2. CASE f = "source"
    <3>1. r = "name" /\ d = "Screen"
      BY <2>2 DEF Defaults, Reader
    <3>2. ToJson(f, d) = <<"string", "screen">>
      BY <3>1 DEF ToJson, SourceNames
    <3> QED BY <3>2 DEF IsJson, Hands
  <2>3. CASE f = "rememberWindow"
    <3>1. r = "bool" /\ d = FALSE
      BY <2>3 DEF Defaults, Reader
    <3>2. ToJson(f, d) = <<"boolean", FALSE>>
      BY <3>1 DEF ToJson
    <3> QED BY <3>2 DEF IsJson
  <2>4. CASE f \in {"frameRate", "gain"}
    <3>1. r \in {"rate", "gain"}
      BY <2>4 DEF Reader
    <3>2. ToJson(f, d) = Number(d)
      BY <3>1 DEF ToJson
    <3> QED BY <3>2 DEF IsJson
  <2> QED BY <2>0, <2>1, <2>2, <2>3, <2>4
<1> QED BY <1>1, <1>2 DEF IsParsed, t

(* An edit leaves a text that is parsed.                                    *)
LEMMA HandLemma ==
  ASSUME NEW t, IsParsed(t, Hands), NEW u \in EditsOf(t)
  PROVE  IsParsed(u, Hands)
<1>1. /\ DOMAIN t = {"version", "field", "section", "unknown", "own"} /\ DOMAIN t.field = Fields
      /\ \A f \in Fields : IsJson(t.field[f], Hands)
  BY DEF IsParsed
<1>2. \A j \in Values : IsJson(j, Hands)
  BY DEF Values, IsJson, Hands
<1>3. IsJson(Absent, Hands)
  BY DEF IsJson
<1> HIDE DEF IsJson
<1>4. u \in SettingEdits(t) \cup VersionEdits(t) \cup SectionEdits(t) \cup KeyEdits(t)
  BY DEF EditsOf
<1>5. CASE u \in SettingEdits(t)
  BY <1>1, <1>2, <1>5 DEF IsParsed, SettingEdits
<1>6. CASE u \in VersionEdits(t)
  BY <1>1, <1>6 DEF IsParsed, VersionEdits
<1>7. CASE u \in SectionEdits(t)
  <2>1. /\ DOMAIN u = DOMAIN t /\ DOMAIN u.field = Fields
        /\ \A f \in Fields : u.field[f] = Absent \/ u.field[f] = t.field[f]
    <3>1. PICK s \in Sections, x \in {"absent", "other"} : u = SectionBecomes(t, s, x)
      BY <1>7 DEF SectionEdits
    <3>2. DOMAIN u = DOMAIN t
      BY <1>1, <3>1 DEF SectionBecomes
    <3>3. u.field = [f \in Fields |-> IF s \in Within(SectionOf[f]) THEN Absent ELSE t.field[f]]
      BY <1>1, <3>1 DEF SectionBecomes
    <3> QED BY <3>2, <3>3
  <2> QED BY <1>1, <1>3, <2>1 DEF IsParsed
<1>8. CASE u \in KeyEdits(t)
  BY <1>1, <1>8 DEF IsParsed, KeyEdits
<1> QED BY <1>4, <1>5, <1>6, <1>7, <1>8

(* Two edits are safe to save over.                                         *)
LEMMA EditsAreSafe == SaveLosesOnlyWhatWasCounted
BY FreshLemma, HandLemma, SafeLemma DEF SaveLosesOnlyWhatWasCounted

(* What is chosen is read back.                                             *)
LEMMA ChoicesAreRead == ReadsBackWhatItWrote
<1> SUFFICES ASSUME NEW f \in Fields, NEW g \in Fields, NEW v \in Choices[f], NEW w \in Choices[g]
             PROVE  LET chosen == [Defaults EXCEPT ![f] = v, ![g] = w]
                        read   == Read(WrittenFresh(chosen))
                    IN  /\ read.numInvalid = 0
                        /\ read.version = SettingsVersion
                        /\ read.settings =
                             [h \in Fields |-> IF Reader[h] = "string" THEN Dumped(chosen[h]) ELSE chosen[h]]
  BY DEF ReadsBackWhatItWrote
<1> DEFINE chosen == [Defaults EXCEPT ![f] = v, ![g] = w]
           text   == WriteSettingsJson(chosen, Empty)
<1>1. \A h \in Fields : \A x \in Choices[h] : IsValue(h, x)
  <2> SUFFICES ASSUME NEW h \in Fields, NEW x \in Choices[h] PROVE IsValue(h, x)
    OBVIOUS
  <2>0. h \in {"directory", "source", "frameRate", "device", "rememberWindow", "gain", "screenToken", "windowToken"}
    BY FieldsAreRead DEF Reader
  <2>1. CASE h \in {"directory", "device", "screenToken", "windowToken"}
    <3>1. Reader[h] = "string" /\ x \in {"latin1", "", "sink", "token"}
      <4>1. Reader[h] = "string"
        BY <2>1 DEF Reader
      <4>2. x \in {"latin1", "", "sink", "token"}
        <5>1. /\ Choices["directory"] = {"latin1"} /\ Choices["device"] = {"", "sink"}
              /\ Choices["screenToken"] = {"", "token"} /\ Choices["windowToken"] = {"", "token"}
          BY DEF Choices
        <5> QED BY <2>1, <5>1
      <4> QED BY <4>1, <4>2
    <3> QED BY <3>1 DEF IsValue
  <2>2. CASE h = "source"
    <3>1. Reader[h] = "name" /\ x \in DOMAIN SourceNames
      BY <2>2 DEF Reader, Choices
    <3> QED BY <3>1 DEF IsValue
  <2>3. CASE h = "frameRate"
    <3>1. Reader[h] = "rate" /\ x \in FrameRateCaps
      BY <2>3 DEF Reader, Choices
    <3> QED BY <3>1 DEF IsValue
  <2>4. CASE h = "rememberWindow"
    <3>1. Reader[h] = "bool" /\ x \in BOOLEAN
      BY <2>4 DEF Reader, Choices
    <3> QED BY <3>1 DEF IsValue
  <2>5. CASE h = "gain"
    <3>1. Reader[h] = "gain" /\ x \in {-30, 20}
      BY <2>5 DEF Reader, Choices
    <3> QED BY <3>1 DEF IsValue, GainRange
  <2> QED BY <2>0, <2>1, <2>2, <2>3, <2>4, <2>5
<1>2. Valid(chosen)
  <2>1. DOMAIN Defaults = Fields /\ \A h \in Fields : IsValue(h, Defaults[h])
    BY DefaultsLemma DEF Valid
  <2>2. DOMAIN chosen = Fields
    BY <2>1
  <2>3. ASSUME NEW h \in Fields PROVE IsValue(h, chosen[h])
    <3>1. chosen[h] = IF h = g THEN w ELSE IF h = f THEN v ELSE Defaults[h]
      BY <2>1
    <3> HIDE DEF chosen
    <3> QED BY <1>1, <2>1, <3>1
  <2> QED BY <2>2, <2>3 DEF Valid
<1> HIDE DEF chosen
<1>3. /\ Read(text).numInvalid = 0 /\ Read(text).version = SettingsVersion
      /\ \A h \in Fields : Has(text, h) = Stored(h, chosen[h])
  BY <1>2, WriteLemma
<1> HIDE DEF text
<1>4. Read(text).settings = [h \in Fields |-> IF Reader[h] = "string" THEN Dumped(chosen[h]) ELSE chosen[h]]
  <2>1. Read(text).settings = [h \in Fields |-> Has(text, h)]
    BY DEF Has, Read, ReadSettingsJson
  <2> QED BY <1>3, <2>1 DEF Stored
<1> QED BY <1>3, <1>4 DEF text, chosen, WrittenFresh

(* The texts of Klip.conf.                                                  *)
LEMMA LegacyLemma ==
  ASSUME NEW y \in LegacyTexts
  PROVE  \/ y[1] = "list"
         \/ y = NotUtf8
         \/ y[1] = "word" /\ y[2] \in {"true", "sink"} /\ y = <<"word", y[2]>>
         \/ y[1] = "digits" /\ y[2] \in Int /\ y = <<"digits", y[2]>>
<1>1. 2 ^ (NumberBits - 1) \in Int
  BY NumbersAreWide
<1>2. CASE y \in {<<"word", "true">>, <<"word", "sink">>, NotUtf8, <<"list">>}
  BY <1>2
<1>3. CASE y \in {<<"digits", n>> : n \in {-12, 0, 2, 3, 30, 2 ^ (NumberBits - 1)}}
  BY <1>1, <1>3
<1> QED BY <1>2, <1>3 DEF LegacyTexts

(* Whatever its setting, a text is a string that is not UTF-8 only if it is *)
(* not UTF-8 itself.                                                        *)
LEMMA NotUtf8Lemma ==
  ASSUME NEW kind, NEW y \in LegacyTexts
  PROVE  Convert(kind, y) = <<"string", "latin1">> <=> y = NotUtf8
<1> DEFINE j == Convert(kind, y)
<1>1. CASE y = NotUtf8
  <2>1. y[1] = "word" /\ y[2] = "latin1"
    BY <1>1 DEF NotUtf8
  <2>2. j = Text(y)
    BY <2>1 DEF Convert, ParsesAsInteger
  <2> QED BY <1>1, <2>1, <2>2 DEF Text
<1>2. ASSUME y # NotUtf8 PROVE j[1] # "string" \/ j[2] # "latin1"
  <2>1. \/ y[1] = "list"
        \/ y[1] = "word" /\ y[2] \in {"true", "sink"}
        \/ y[1] = "digits"
    BY <1>2, LegacyLemma
  <2>2. Text(y)[2] # "latin1" \/ y[1] = "list"
    BY <2>1 DEF Text
  <2>3. /\ Null[1] = "null"
        /\ \A b : <<"boolean", b>>[1] = "boolean"
        /\ \A n : Number(n)[1] \in {"integer", "unsigned"}
    BY DEF Null, Number
  <2>4. \A i \in DOMAIN LegacySources : <<"string", LegacySources[i]>>[2] # "latin1"
    BY DEF LegacySources
  <2>5. \/ j = Null \/ j = <<"boolean", y[2] = "true">> \/ j = Number(y[2])
        \/ \E i \in DOMAIN LegacySources : j = <<"string", LegacySources[i]>>
        \/ j = Text(y) /\ y[1] # "list"
    BY DEF Convert
  <2> HIDE DEF j
  <2> QED BY <2>2, <2>3, <2>4, <2>5
<1> QED BY <1>1, <1>2

(* What a text of Klip.conf becomes in a document.                          *)
LEMMA ImportLemma ==
  ASSUME NEW lines \in Files
  PROVE  /\ lines[1].key \in Fields /\ lines[Len(lines)].text \in LegacyTexts
         /\ ConvertKlipConf(lines) = Aborted <=> lines[Len(lines)].text = NotUtf8
         /\ ConvertKlipConf(lines) # Aborted =>
              Read(ConvertKlipConf(lines)).settings[lines[1].key] =
                LET f == lines[1].key
                    j == Convert(Kind[f], lines[Len(lines)].text)
                IN  IF j # Absent /\ Accepts(f, j) THEN Taken(f, j) ELSE Defaults[f]
<1>1. PICK f \in Fields, x \in LegacyTexts, y \in LegacyTexts :
        lines = <<[key |-> f, text |-> x], [key |-> f, text |-> y]>>
  BY DEF Files
<1>2. /\ DOMAIN lines = {1, 2} /\ Len(lines) = 2
      /\ lines[1].key = f /\ lines[2].key = f /\ lines[2].text = y
  BY <1>1
<1>3. LinesOf(lines, f) = {1, 2}
  BY <1>2 DEF LinesOf
<1>4. (CHOOSE i \in LinesOf(lines, f) : \A j \in LinesOf(lines, f) : j <= i) = 2
  <2>1. \A i \in {1, 2} : (\A j \in {1, 2} : j <= i) <=> i = 2
    OBVIOUS
  <2> QED BY <1>3, <2>1
<1>5. LastLine(lines, f).text = y
  BY <1>2, <1>4 DEF LastLine
<1> DEFINE t == ConvertKlipConf(lines)
           j == Convert(Kind[f], y)
<1>6. /\ Converted(lines)[f] = j
      /\ \A g \in Fields : g # f => Converted(lines)[g] = Absent
  <2>1. \A g \in Fields : g # f => LinesOf(lines, g) = {}
    BY <1>2 DEF LinesOf
  <2> QED BY <1>3, <1>5, <2>1 DEF Converted
<1>7. j = <<"string", "latin1">> <=> y = NotUtf8
  BY NotUtf8Lemma
<1>8. Absent # <<"string", "latin1">>
  BY DEF Absent
<1>9. (\E g \in Fields : Converted(lines)[g] = <<"string", "latin1">>) <=> y = NotUtf8
  <2> HIDE DEF j
  <2> QED BY <1>6, <1>7, <1>8
<1>10. DOMAIN Empty = {"version", "field", "section", "unknown", "own"}
  BY DEF Empty
<1>11. CASE y = NotUtf8
  <2>1. t = Aborted
    BY <1>9, <1>11 DEF ConvertKlipConf
  <2> QED BY <1>2, <1>11, <2>1
<1>12. CASE y # NotUtf8
  <2>1. /\ DOMAIN t = {"version", "field", "section", "unknown", "own"}
        /\ t.field = Converted(lines)
    BY <1>9, <1>10, <1>12 DEF ConvertKlipConf
  <2>2. DOMAIN Aborted = {"broken"}
    BY DEF Aborted
  <2>3. t # Aborted
    BY <2>1, <2>2
  <2> HIDE DEF t, j
  <2>4. Read(t).settings[f] = IF j # Absent /\ Accepts(f, j) THEN Taken(f, j) ELSE Defaults[f]
    BY <1>6, <2>1 DEF Read, ReadSettingsJson
  <2> QED BY <1>2, <1>12, <2>3, <2>4 DEF t, j
<1> QED BY <1>11, <1>12

(* An import takes what Qt wrote.                                           *)
LEMMA ImportsAreTaken == ImportTakesWhatQtWrote
<1> SUFFICES ASSUME NEW lines \in Files
             PROVE  LET f    == lines[1].key
                        last == lines[Len(lines)].text
                        text == ConvertKlipConf(lines)
                        read == Read(text).settings[f]
                    IN  /\ text = Aborted <=> last = NotUtf8
                        /\ text # Aborted =>
                             IF Reader[f] # "string" /\ \E v \in Legal(f) : QtWrote(f, v) = last
                             THEN QtWrote(f, read) = last
                             ELSE Reader[f] # "string" \/ last[1] = "list" => read = Defaults[f]
  BY DEF ImportTakesWhatQtWrote
<1> DEFINE f    == lines[1].key
           y    == lines[Len(lines)].text
           read == Read(ConvertKlipConf(lines)).settings[f]
           j    == Convert(Kind[f], y)
           r    == Reader[f]
           k    == Kind[f]
<1>00. SUFFICES ASSUME y # NotUtf8
                PROVE  IF Reader[f] # "string" /\ \E v \in Legal(f) : QtWrote(f, v) = y
                       THEN QtWrote(f, read) = y
                       ELSE Reader[f] # "string" \/ y[1] = "list" => read = Defaults[f]
  BY ImportLemma
<1>1. f \in Fields /\ y \in LegacyTexts /\ read = IF j # Absent /\ Accepts(f, j) THEN Taken(f, j) ELSE Defaults[f]
  BY <1>00, ImportLemma
<1> HIDE DEF f, y, read
<1>2. \/ y[1] = "list"
      \/ y[1] = "word" /\ y[2] \in {"true", "sink"} /\ y = <<"word", y[2]>>
      \/ y[1] = "digits" /\ y[2] \in Int /\ y = <<"digits", y[2]>>
  BY <1>00, <1>1, LegacyLemma
<1>3. /\ r \in {"string", "name", "bool", "rate", "gain"}
      /\ r = "string" <=> k = "String"
      /\ r = "name" <=> k = "Source"
      /\ r = "bool" <=> k = "Boolean"
      /\ r \in {"rate", "gain"} <=> k = "Integer"
  <2>1. f \in {"directory", "source", "frameRate", "device", "rememberWindow", "gain", "screenToken", "windowToken"}
    BY <1>1, FieldsAreRead DEF Reader
  <2> QED BY <2>1 DEF Reader, Kind
<1>4. Absent[1] = "absent"
  BY DEF Absent
<1> HIDE DEF r, k, j
<1>0. SUFFICES IF r # "string" /\ \E v \in Legal(f) : QtWrote(f, v) = y
               THEN QtWrote(f, read) = y
               ELSE r # "string" \/ y[1] = "list" => read = Defaults[f]
  BY DEF f, y, read, r
<1>5. CASE r = "string"
  <2>1. ASSUME y[1] = "list" PROVE read = Defaults[f]
    <3>1. j = Null
      BY <2>1 DEF Convert, ParsesAsInteger, j, k
    <3>2. j[1] = "null"
      BY <3>1 DEF Null
    <3>3. ~Accepts(f, j)
      BY <1>5, <3>2 DEF Accepts, IsString, r
    <3> QED BY <1>1, <3>3
  <2> QED BY <1>5, <2>1
<1>6. ASSUME r # "string",
             \/ read = Defaults[f] /\ ~\E v \in Legal(f) : QtWrote(f, v) = y
             \/ QtWrote(f, read) = y /\ \E v \in Legal(f) : QtWrote(f, v) = y
      PROVE  IF r # "string" /\ \E v \in Legal(f) : QtWrote(f, v) = y
             THEN QtWrote(f, read) = y
             ELSE r # "string" \/ y[1] = "list" => read = Defaults[f]
  BY <1>6
<1>7. CASE r = "bool"
  <2>1. Legal(f) = BOOLEAN
    BY <1>7 DEF Legal, r
  <2>2. \A v : QtWrote(f, v) = <<"word", IF v THEN "true" ELSE "false">>
    BY <1>3, <1>7 DEF QtWrote, k
  <2>3. CASE y[1] = "word" /\ y[2] = "true"
    <3>1. j = <<"boolean", TRUE>>
      BY <1>3, <1>7, <2>3 DEF Convert, j, k
    <3>2. j[1] = "boolean" /\ j[2] = TRUE
      BY <3>1
    <3>3. read = TRUE
      BY <1>1, <1>4, <1>7, <3>2 DEF Accepts, Taken, r
    <3>4. QtWrote(f, TRUE) = y
      BY <1>2, <2>2, <2>3
    <3> QED BY <1>6, <1>7, <2>1, <3>3, <3>4
  <2>4. CASE ~ (y[1] = "word" /\ y[2] = "true")
    <3>1. j[1] \in {"null", "string"}
      <4>1. j = Null \/ j = Text(y)
        BY <1>2, <1>3, <1>7, <2>4 DEF Convert, j, k
      <4> QED BY <4>1 DEF Null, Text
    <3>2. read = Defaults[f]
      BY <1>1, <1>7, <3>1 DEF Accepts, r
    <3>3. ASSUME NEW v \in BOOLEAN, QtWrote(f, v) = y PROVE FALSE
      <4>1. y[1] = "word" /\ y[2] \in {"true", "false"}
        BY <2>2, <3>3
      <4> QED BY <1>2, <2>4, <4>1
    <3> QED BY <1>6, <1>7, <2>1, <3>2, <3>3
  <2> QED BY <2>3, <2>4
<1>8. CASE r = "name"
  <2>1. Legal(f) = {"Screen", "Window", "Region"}
    BY <1>8 DEF Legal, SourceNames, r
  <2>2. /\ QtWrote(f, "Screen") = <<"digits", 0>> /\ QtWrote(f, "Window") = <<"digits", 1>>
        /\ QtWrote(f, "Region") = <<"digits", 2>>
    BY <1>3, <1>8 DEF QtWrote, k
  <2>3. DOMAIN LegacySources = 1 .. 3 /\ LegacySources[1] = "screen" /\ LegacySources[2] = "window" /\ LegacySources[3] = "region"
    BY DEF LegacySources
  <2>4. DOMAIN SourceNames = {"Screen", "Window", "Region"} /\ SourceNames["Screen"] = "screen" /\ SourceNames["Window"] = "window" /\ SourceNames["Region"] = "region"
    BY DEF SourceNames
  <2>5. \A n \in 0 .. 2 : n \in -(2 ^ (NumberBits - 1))..(2 ^ (NumberBits - 1) - 1)
    <3>1. 2 ^ (NumberBits - 1) \in Nat /\ 20 < 2 ^ (NumberBits - 1)
      BY NumbersAreWide DEF GainRange
    <3> QED BY <3>1
  <2>6. CASE y[1] = "digits" /\ y[2] \in 0 .. 2
    <3>1. ParsesAsInteger(y)
      BY <2>5, <2>6 DEF ParsesAsInteger
    <3>2. j = <<"string", LegacySources[y[2] + 1]>>
      <4>1. y[2] + 1 \in DOMAIN LegacySources
        BY <2>3, <2>6
      <4> QED BY <1>3, <1>8, <2>6, <3>1, <4>1 DEF Convert, j, k
    <3>3. PICK v \in DOMAIN SourceNames : SourceNames[v] = LegacySources[y[2] + 1] /\ QtWrote(f, v) = y
      <4>1. CASE y[2] = 0
        BY <1>2, <2>2, <2>3, <2>4, <2>6, <4>1
      <4>2. CASE y[2] = 1
        BY <1>2, <2>2, <2>3, <2>4, <2>6, <4>2
      <4>3. CASE y[2] = 2
        BY <1>2, <2>2, <2>3, <2>4, <2>6, <4>3
      <4> QED BY <2>6, <4>1, <4>2, <4>3
    <3>4. j[1] = "string" /\ j[2] = SourceNames[v]
      BY <3>2, <3>3
    <3>5. \A u \in DOMAIN SourceNames : SourceNames[u] = SourceNames[v] => u = v
      BY <2>4
    <3>6. (CHOOSE u \in DOMAIN SourceNames : SourceNames[u] = j[2]) = v
      BY <3>4, <3>5
    <3>7. read = v
      BY <1>1, <1>4, <1>8, <3>4, <3>6 DEF Accepts, IsName, Taken, r
    <3> QED BY <1>6, <1>8, <2>1, <2>4, <3>3, <3>7
  <2>7. CASE ~ (y[1] = "digits" /\ y[2] \in 0 .. 2)
    <3>1. ~ (y[1] = "digits" /\ y[2] + 1 \in DOMAIN LegacySources)
      BY <1>2, <2>3, <2>7
    <3>2. j = Null \/ j = Text(y)
      BY <1>2, <1>3, <1>8, <3>1 DEF Convert, ParsesAsInteger, j, k
    <3>3. ~Accepts(f, j)
      <4>1. j[1] = "null" \/ (j[1] = "string" /\ j[2] \in {"digits", "true", "sink"} )
        BY <1>2, <1>3, <1>8, <3>1, <3>2 DEF Convert, ParsesAsInteger, Null, Text, j, k
      <4> QED BY <1>8, <2>4, <4>1 DEF Accepts, IsName, r
    <3>4. ASSUME NEW v \in Legal(f), QtWrote(f, v) = y PROVE FALSE
      BY <2>1, <2>2, <2>7, <3>4
    <3> QED BY <1>1, <1>6, <1>8, <3>3, <3>4
  <2> QED BY <2>6, <2>7
<1>9. CASE r \in {"rate", "gain"}
  <2> DEFINE L == IF r = "rate" THEN FrameRateCaps ELSE GainRange
  <2>1. Legal(f) = L
    BY <1>9 DEF Legal, r
  <2>2. \A v : QtWrote(f, v) = <<"digits", v>>
    BY <1>3, <1>9 DEF QtWrote, k
  <2>3. \A n \in L : n \in Int /\ n \in -(2 ^ (NumberBits - 1))..(2 ^ (NumberBits - 1) - 1)
    <3>1. 2 ^ (NumberBits - 1) \in Nat /\ 60 < 2 ^ (NumberBits - 1)
      BY NumbersAreWide DEF FrameRateCaps
    <3> QED BY <3>1 DEF FrameRateCaps, GainRange
  <2>4. \A n : Number(n)[2] = n /\ Number(n)[1] \in {"unsigned", "integer"} /\ (~ (n < 0) => Number(n)[1] = "unsigned")
    BY DEF Number
  <2>5. CASE y[1] = "digits" /\ y[2] \in L
    <3>1. ParsesAsInteger(y)
      BY <2>3, <2>5 DEF ParsesAsInteger
    <3>2. j = Number(y[2])
      BY <1>3, <1>9, <2>5, <3>1 DEF Convert, j, k
    <3>3. r = "rate" => ~ (y[2] < 0)
      BY <2>5 DEF FrameRateCaps
    <3>4. ~ (y[2] >= 2 ^ (NumberBits - 1))
      BY <2>3, <2>5, NumbersAreWide
    <3>5. Accepts(f, j)
      <4>1. CASE r = "rate"
        BY <2>4, <2>5, <3>2, <3>3, <4>1 DEF Accepts, IsRate, r
      <4>2. CASE r = "gain"
        BY <2>4, <2>5, <3>2, <4>2 DEF Accepts, IsIntegerInRange, r
      <4> QED BY <1>9, <4>1, <4>2
    <3>6. Taken(f, j) = y[2]
      BY <1>9, <2>4, <3>2, <3>4 DEF Taken, Signed, r
    <3>7. j # Absent
      BY <1>4, <2>4, <3>2
    <3>8. read = y[2] /\ QtWrote(f, y[2]) = y
      BY <1>1, <1>2, <2>2, <2>5, <3>5, <3>6, <3>7
    <3> QED BY <1>6, <1>9, <2>1, <2>5, <3>8
  <2>6. CASE ~ (y[1] = "digits" /\ y[2] \in L)
    <3>1. j = Null \/ j = Text(y) \/ (y[1] = "digits" /\ j = Number(y[2]))
      BY <1>2, <1>3, <1>9 DEF Convert, ParsesAsInteger, j, k
    <3>2. ~Accepts(f, j)
      <4>1. CASE j = Null \/ j = Text(y)
        <5>1. j[1] \in {"null", "string"}
          BY <4>1 DEF Null, Text
        <5> QED BY <1>9, <5>1 DEF Accepts, IsRate, IsIntegerInRange, r
      <4>2. CASE y[1] = "digits" /\ j = Number(y[2])
        <5>1. j[2] \notin L
          BY <2>4, <2>6, <4>2
        <5> QED BY <1>9, <5>1 DEF Accepts, IsRate, IsIntegerInRange, r
      <4> QED BY <3>1, <4>1, <4>2
    <3>3. ASSUME NEW v \in L, QtWrote(f, v) = y PROVE FALSE
      BY <2>2, <2>6, <3>3
    <3> QED BY <1>1, <1>6, <1>9, <2>1, <3>2, <3>3
  <2> QED BY <2>5, <2>6
<1> QED BY <1>3, <1>5, <1>7, <1>8, <1>9

(* Nothing a hand, Klip or Qt can have written is misread, and Klip never   *)
(* holds what the recorder could not use, however many runs, grants and     *)
(* devices there are (settings_json.cpp, klip_conf.cpp).                    *)
THEOREM SettingsInvariantHolds == Spec => []SettingsInvariant
<1>1. TextIsFaithful
  BY ChoicesAreRead, EditsAreSafe, ImportsAreTaken DEF TextIsFaithful
<1>2. TypeOK => SettingsInvariant
  BY <1>1 DEF SettingsInvariant
<1> QED BY <1>2, TypesHold, PTL
====
