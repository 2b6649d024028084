---------------------------- MODULE SettingsJson ----------------------------
(***************************************************************************)
(* How the settings become the text of config.json and back                *)
(* (src/src/config/private/settings_json.cpp). A text is what the JSON     *)
(* parser makes of it; one setting of each kind of reader stands for its   *)
(* like.                                                                   *)
(***************************************************************************)
EXTENDS Integers, FiniteSets

CONSTANTS
  Fields,                 \* the settings of a run, out of those Reader knows
  NumberBits              \* the width of a JSON integer, 64 in the code

(* Which reader takes a setting, and the section of the file it is in.      *)
Reader == [directory   |-> "string", source         |-> "name", frameRate |-> "rate",
           device      |-> "string", rememberWindow |-> "bool", gain      |-> "gain",
           screenToken |-> "string", windowToken    |-> "string"]

SectionOf == [directory   |-> "output",  source         |-> "capture", frameRate |-> "capture",
              device      |-> "system",  rememberWindow |-> "capture", gain      |-> "system",
              screenToken |-> "restoreTokens", windowToken |-> "restoreTokens"]

Parent == [output |-> "root", capture |-> "root", audio |-> "root", system |-> "audio",
           portal |-> "root", restoreTokens |-> "portal"]

ASSUME FieldsAreRead == Fields \subseteq DOMAIN Reader /\ NumberBits \in Nat \ {0}

Within(s) == {s} \cup (IF Parent[s] = "root" THEN {} ELSE {Parent[s]})
Sections  == UNION {Within(SectionOf[f]) : f \in Fields}

-----------------------------------------------------------------------------
(* A JSON value is a pair of its type and what it holds. An integer is kept *)
(* as "unsigned" unless it is negative.                                     *)
Absent == <<"absent">>
Null   == <<"null">>
Number(n) == IF n < 0 THEN <<"integer", n>> ELSE <<"unsigned", n>>

SettingsVersion == 1
SourceNames     == [Screen |-> "screen", Window |-> "window", Region |-> "region"]
FrameRateCaps   == {30, 60, 0}
GainRange       == -30..20
MaxVersion      == 2 ^ (NumberBits \div 2) - 1     \* uint32_t

(* A gain and a rate fit a JSON integer, and the version its field.         *)
ASSUME NumbersAreWide ==
  /\ 2 ^ (NumberBits - 1) \in Nat /\ \A n \in GainRange \cup FrameRateCaps : n < 2 ^ (NumberBits - 1)
  /\ MaxVersion \in Nat /\ SettingsVersion <= MaxVersion

(* What is not valid UTF-8 is replaced as it is dumped.                     *)
Dumped(string) == IF string = "latin1" THEN "replaced" ELSE string

ToJson(f, v) ==
  CASE Reader[f] = "string" -> <<"string", Dumped(v)>>
    [] Reader[f] = "name"   -> <<"string", SourceNames[v]>>
    [] Reader[f] = "bool"   -> <<"boolean", v>>
    [] OTHER                -> Number(v)

-----------------------------------------------------------------------------
(* A text is a document or not one at all. "own" is a text laid out by dump.*)
NotJson   == [broken |-> "text"]
NotObject == [broken |-> "array"]
Broken    == {NotJson, NotObject}

(* What ParseKept makes of no text: an object with nothing in it.           *)
Empty == [version |-> Absent, field |-> [f \in Fields |-> Absent],
          section |-> [s \in Sections |-> "absent"],
          unknown |-> [s \in Sections \cup {"root"} |-> FALSE], own |-> FALSE]

(* A section that is not an object has nothing in it.                       *)
WellFormed(t) ==
  /\ \A s \in Sections :
       t.section[s] = "object" => \A p \in Within(s) : t.section[p] = "object"
  /\ \A s \in Sections : t.unknown[s] => t.section[s] = "object"
  /\ \A f \in Fields : t.field[f] # Absent => t.section[SectionOf[f]] = "object"

(* Mutation of IsIntegerInRange: an unsigned number is taken as a signed    *)
(* one of the same width.                                                   *)
IsIntegerInRangeSigned(j, range) ==
  /\ j[1] \in {"unsigned", "integer"}
  /\ (IF j[2] >= 2 ^ (NumberBits - 1) THEN j[2] - 2 ^ NumberBits ELSE j[2]) \in range

IsIntegerInRange(j, range) == j[1] \in {"unsigned", "integer"} /\ j[2] \in range

(* A name is read back through GetName, since a parser answers its fallback *)
(* for one it does not know.                                                *)
IsName(j) == j[1] = "string" /\ \E v \in DOMAIN SourceNames : SourceNames[v] = j[2]

(* A NUL would cut the string short later.                                  *)
IsString(j) == j[1] = "string" /\ j[2] # "nul"

(* Mutation of IsRate: any number is a rate.                                *)
IsNumber(j) == j[1] = "unsigned"

(* Mutation of IsRate: no cap, which is written as 0, is not one to read.   *)
IsNoRate(j) == j[1] = "unsigned" /\ j[2] \in {30, 60}

IsRate(j) == j[1] = "unsigned" /\ j[2] \in FrameRateCaps

IsVersion(j) == j[1] = "unsigned" /\ j[2] <= MaxVersion

Accepts(f, j) ==
  CASE Reader[f] = "string" -> IsString(j)
    [] Reader[f] = "name"   -> IsName(j)
    [] Reader[f] = "bool"   -> j[1] = "boolean"
    [] Reader[f] = "rate"   -> IsRate(j)
    [] Reader[f] = "gain"   -> IsIntegerInRange(j, GainRange)

(* get<int64_t> and get<uint32_t> keep the low bits.                        *)
Signed(n) == IF n >= 2 ^ (NumberBits - 1) THEN n - 2 ^ NumberBits ELSE n

Taken(f, j) ==
  CASE Reader[f] = "name" -> CHOOSE v \in DOMAIN SourceNames : SourceNames[v] = j[2]
    [] Reader[f] = "gain" -> Signed(j[2])
    [] OTHER              -> j[2]

(* What a reader rejects: the fields, the sections that are no object, and  *)
(* the version.                                                             *)
Rejected(t) ==
  {f \in Fields : t.field[f] # Absent /\ ~Accepts(f, t.field[f])}
    \cup {s \in Sections : t.section[s] = "other"}
    \cup {v \in {"version"} : t.version # Absent /\ ~IsVersion(t.version)}

(* ReadSettingsJson of a document: an invalid value keeps its default and   *)
(* is counted.                                                              *)
ReadSettingsJson(t, defaults) ==
  [version    |-> IF IsVersion(t.version) THEN t.version[2] ELSE SettingsVersion,
   numInvalid |-> Cardinality(Rejected(t)),
   settings   |-> [f \in Fields |-> IF t.field[f] # Absent /\ Accepts(f, t.field[f])
                                    THEN Taken(f, t.field[f])
                                    ELSE defaults[f]]]

(* SSettings as it is made, which stands where the file has nothing valid.  *)
Defaults ==
  [f \in Fields |->
     CASE f = "directory"      -> "videos"
       [] f = "source"         -> "Screen"
       [] f = "rememberWindow" -> FALSE
       [] f \in {"frameRate", "gain"} -> 0
       [] OTHER -> ""]

Read(t) == ReadSettingsJson(t, Defaults)

(* WriteSettingsJson, over the text last read or written: what Klip does    *)
(* not know survives, comments and layout do not.                           *)
WriteSettingsJson(s, over) ==
  [version |-> Number(SettingsVersion), field |-> [f \in Fields |-> ToJson(f, s[f])],
   section |-> [x \in Sections |-> "object"], unknown |-> over.unknown, own |-> TRUE]

=============================================================================
