------------------------------ MODULE MCParts ------------------------------
(***************************************************************************)
(* TLC instance of the three small parts that share no state.  A behaviour *)
(* explores one of them and leaves the others as they were, so that their  *)
(* states are added, not multiplied.                                       *)
(***************************************************************************)
EXTENDS PublicName, SelfUpdate, Settings

CONSTANTS d1, p1, p2

MCLowerOf == [c \in {"A"} |-> "a"]
MCReserved == {<<"A", "a", "a">>}
MCDomain == <<"a", "a", "a">>
MCOtherDomain == <<"a", ".", "a">>
MCWord == {<<"a">>}

\* v1.9.0, v1.10.0, v2.0.0-rc.1, v2.0.1: the third part of a pre-release starts
\* with its number.
MCRelease == <<<<1, 9, 0>>, <<1, 10, 0>>, <<2, 0, 0, 1>>, <<2, 0, 1>>>>

MCPortValue == {0, 1023, 1024, 20050, 65535, 65536}
MCDomainValue == {<<>>, <<".">>, <<"d">>, <<"d", ".">>}

NamesStill == published = Unpublished /\ pinned = <<>>
UpdateStill == hour = 0 /\ out = 1 /\ check = [p \in Process |-> Idle]
SettingsStill == phase = "start"

Init == NamesInit /\ UpdateInit /\ SettingsInit

Next ==
  \/ UpdateStill /\ SettingsStill /\ NamesNext /\ UNCHANGED <<updateVars, settingsVars>>
  \/ NamesStill /\ SettingsStill /\ UpdateNext /\ UNCHANGED <<nameVars, settingsVars>>
  \/ NamesStill /\ UpdateStill /\ SettingsNext /\ UNCHANGED <<nameVars, updateVars>>

Spec == Init /\ [][Next]_<<nameVars, updateVars, settingsVars>>

=============================================================================
