-------------------------- MODULE MCSettingsStore --------------------------
(* SettingsStore on two grants and two devices that come and go, and what   *)
(* can stand in its file.                                                   *)
EXTENDS SettingsStore, SettingsText

MCTokens      == <<"t1", "t2">>
MCDeviceLists == {<<>>, <<"headset">>, <<"headset", "speaker">>}

(* Klip never holds what the recorder could not use, and reading, writing   *)
(* and importing agree on every setting (settings_json.cpp, klip_conf.cpp). *)
SettingsInvariant == TypeOK /\ TextIsFaithful
=============================================================================
