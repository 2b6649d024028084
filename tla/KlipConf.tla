------------------------------ MODULE KlipConf ------------------------------
(***************************************************************************)
(* How the old Klip.conf becomes a document for ReadSettingsJson           *)
(* (src/src/config/private/klip_conf.cpp). The file is a sequence of lines *)
(* of a setting and the text of its value, with QSettings' quoting undone: *)
(* digits, a word, or a "list", which does not undo. The word "latin1" is  *)
(* one that is not UTF-8.                                                  *)
(***************************************************************************)
EXTENDS SettingsJson, Sequences

Kind == [directory   |-> "String", source         |-> "Source",  frameRate |-> "Integer",
         device      |-> "String", rememberWindow |-> "Boolean", gain      |-> "Integer",
         screenToken |-> "String", windowToken    |-> "String"]

LegacySources == <<"screen", "window", "region">>

(* Past the width of a signed integer it stays text.                        *)
ParsesAsInteger(text) ==
  text[1] = "digits" /\ text[2] \in -(2 ^ (NumberBits - 1))..(2 ^ (NumberBits - 1) - 1)

Text(text) == <<"string", IF text[1] = "digits" THEN "digits" ELSE text[2]>>

(* Mutation of Convert: a source is looked up from one on.                  *)
ConvertFromOne(kind, text) ==
  CASE text[1] = "list" -> Null
    [] kind = "Boolean" /\ text[2] \in {"true", "false"} -> <<"boolean", text[2] = "true">>
    [] kind = "Integer" /\ ParsesAsInteger(text) -> Number(text[2])
    [] kind = "Source" /\ ParsesAsInteger(text) /\ text[2] \in DOMAIN LegacySources
         -> <<"string", LegacySources[text[2]]>>
    [] OTHER -> Text(text)

(* Left a string where it is not what QSettings writes for its type, so the *)
(* reader rejects it.                                                       *)
Convert(kind, text) ==
  CASE text[1] = "list" -> Null
    [] kind = "Boolean" /\ text[1] = "word" /\ text[2] \in {"true", "false"}
         -> <<"boolean", text[2] = "true">>
    [] kind = "Integer" /\ ParsesAsInteger(text) -> Number(text[2])
    [] kind = "Source" /\ ParsesAsInteger(text) /\ text[2] + 1 \in DOMAIN LegacySources
         -> <<"string", LegacySources[text[2] + 1]>>
    [] OTHER -> Text(text)

(* The lines of one setting; a later one replaces an earlier.               *)
LinesOf(lines, f) == {i \in DOMAIN lines : lines[i].key = f}
LastLine(lines, f) == lines[CHOOSE i \in LinesOf(lines, f) : \A j \in LinesOf(lines, f) : j <= i]

Converted(lines) ==
  [f \in Fields |->
     IF LinesOf(lines, f) # {} THEN Convert(Kind[f], LastLine(lines, f).text) ELSE Absent]

(* The program has ended (AbortOnJsonError).                                *)
Aborted == [broken |-> "aborted"]

(* dump is strict: a string that is not UTF-8 is an error, and on an error  *)
(* the JSON library aborts.                                                 *)
ConvertKlipConf(lines) ==
  IF \E f \in Fields : Converted(lines)[f] = <<"string", "latin1">>
  THEN Aborted
  ELSE [Empty EXCEPT
         !.field = Converted(lines),
         !.section = [s \in Sections |->
                       IF \E f \in Fields : LinesOf(lines, f) # {} /\ s \in Within(SectionOf[f])
                       THEN "object" ELSE "absent"]]
=============================================================================
