---------------------------- MODULE SettingsText ----------------------------
(***************************************************************************)
(* What reading and writing a settings file promise each other, checked    *)
(* over every text two edits by hand can make of one that Klip wrote, and  *)
(* over every Klip.conf of one setting. There is no state.                 *)
(***************************************************************************)
EXTENDS KlipConf

(* What a setting may be chosen as, and what may stand in the file for it.  *)
Choices ==
  [directory |-> {"latin1"}, source |-> DOMAIN SourceNames, frameRate |-> FrameRateCaps,
   device |-> {"", "sink"}, rememberWindow |-> BOOLEAN, gain |-> {-30, 20},
   screenToken |-> {"", "token"}, windowToken |-> {"", "token"}]

Values ==
  {Absent, Null, <<"boolean", TRUE>>}
    \cup {<<"string", x>> : x \in {"screen", "nul"}}
    \cup {Number(n) : n \in {-1, 2, 30, MaxVersion + 1, 2 ^ NumberBits - 1}}

NotUtf8 == <<"word", "latin1">>

LegacyTexts == {<<"word", "true">>, <<"word", "sink">>, NotUtf8, <<"list">>}
                 \cup {<<"digits", n>> : n \in {-12, 0, 2, 3, 30, 2 ^ (NumberBits - 1)}}

WrittenFresh(s) == WriteSettingsJson(s, Empty)

(* A setting, the version, a section or a key of somebody else's is changed *)
(* by hand.                                                                 *)
SettingEdits(t) == {[t EXCEPT !.field[f] = j] : f \in Fields, j \in Values}
VersionEdits(t) == {[t EXCEPT !.version = j] : j \in Values}
SectionBecomes(t, s, x) ==
  [t EXCEPT
     !.section = [p \in Sections |-> IF p = s THEN x ELSE IF s \in Within(p) THEN "absent" ELSE @[p]],
     !.field   = [f \in Fields |-> IF s \in Within(SectionOf[f]) THEN Absent ELSE @[f]],
     !.unknown = [p \in Sections \cup {"root"} |->
                    IF p # "root" /\ s \in Within(p) THEN FALSE ELSE @[p]]]
SectionEdits(t) == {SectionBecomes(t, s, x) : s \in Sections, x \in {"absent", "other"}}
KeyEdits(t) == {[t EXCEPT !.unknown[p] = TRUE] : p \in Sections \cup {"root"}}

EditsOf(t) ==
  {u \in SettingEdits(t) \cup VersionEdits(t) \cup SectionEdits(t) \cup KeyEdits(t) : WellFormed(u)}

(* A Klip.conf that has a setting twice.                                    *)
Files == {<<[key |-> f, text |-> x], [key |-> f, text |-> y]>> :
            f \in Fields, x \in LegacyTexts, y \in LegacyTexts}

-----------------------------------------------------------------------------
(* A setting of the kind its reader promises, whatever is in the file: the  *)
(* recorder indexes and casts by it.                                        *)
Legal(f) ==
  CASE Reader[f] = "string" -> {"folder", "latin1", "sink", "token", "", "videos", "screen",
                                "else", "true", "digits", "replaced"}
    [] Reader[f] = "name"   -> DOMAIN SourceNames
    [] Reader[f] = "bool"   -> BOOLEAN
    [] Reader[f] = "rate"   -> FrameRateCaps
    [] Reader[f] = "gain"   -> GainRange

(* What Klip has written it reads back, whatever was chosen and whatever    *)
(* keys of others the file has: no value it writes is one it rejects, and   *)
(* only what no JSON text can hold is not the same again.                   *)
ReadsBackWhatItWrote ==
  \A f, g \in Fields : \A v \in Choices[f], w \in Choices[g] :
    LET chosen == [Defaults EXCEPT ![f] = v, ![g] = w]
        read   == Read(WrittenFresh(chosen))
    IN  /\ read.numInvalid = 0
        /\ read.version = SettingsVersion
        /\ read.settings =
             [h \in Fields |-> IF Reader[h] = "string" THEN Dumped(chosen[h]) ELSE chosen[h]]

(* A text that was read gives settings of the kinds their readers promise,  *)
(* for the recorder indexes and casts by them; and where nothing in it was  *)
(* rejected, so that no backup is made, writing over it keeps every value   *)
(* and every key of it (settings_store.cpp:212, settings_json.cpp:342).     *)
SafeToSave(t) ==
  /\ \A f \in Fields : Read(t).settings[f] \in Legal(f)
  /\ Read(t).numInvalid = 0 =>
       LET saved == WriteSettingsJson(Read(t).settings, t) IN
       /\ \A f \in Fields : t.field[f] # Absent => saved.field[f] = t.field[f]
       /\ saved.unknown = t.unknown

SaveLosesOnlyWhatWasCounted ==
  \A t \in EditsOf(WrittenFresh(Defaults)) : SafeToSave(t) /\ \A u \in EditsOf(t) : SafeToSave(u)

(* What Qt's QSettings wrote for a value.                                   *)
QtWrote(f, v) ==
  CASE Kind[f] = "Boolean" -> <<"word", IF v THEN "true" ELSE "false">>
    [] Kind[f] = "Integer" -> <<"digits", v>>
    [] Kind[f] = "Source"  -> <<"digits", CASE v = "Screen" -> 0 [] v = "Window" -> 1 [] v = "Region" -> 2>>
    [] OTHER               -> <<"word", v>>

(* The import takes exactly what Qt wrote: the last line of a setting is    *)
(* its value if Qt could have written it for one, and its default stands if *)
(* not. A text may be anything but a list. Only a value that is not UTF-8,  *)
(* which Qt never wrote, ends the program, and only if no line replaces it. *)
ImportTakesWhatQtWrote ==
  \A lines \in Files :
    LET f    == lines[1].key
        last == lines[Len(lines)].text
        text == ConvertKlipConf(lines)
        read == Read(text).settings[f]
    IN  /\ text = Aborted <=> last = NotUtf8
        /\ text # Aborted =>
             IF Reader[f] # "string" /\ \E v \in Legal(f) : QtWrote(f, v) = last
             THEN QtWrote(f, read) = last
             ELSE Reader[f] # "string" \/ last[1] = "list" => read = Defaults[f]

(* Reading, writing and importing agree on every setting (settings_json.cpp,*)
(* klip_conf.cpp).                                                          *)
TextIsFaithful == ReadsBackWhatItWrote /\ SaveLosesOnlyWhatWasCounted /\ ImportTakesWhatQtWrote
=============================================================================
