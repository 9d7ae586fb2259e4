-------------------------------- MODULE MCLive --------------------------------
(***************************************************************************)
(* One instance of each live component, of a localization batch and of the  *)
(* setups. They share no state but LivePool's, which each socket has for    *)
(* itself, so a behaviour runs one of them, the scene, and the others stay  *)
(* where they begin.                                                        *)
(***************************************************************************)
EXTENDS LiveTurn, Meeting, LiveV2, EdgeFrames, Localization, Setup

CONSTANT Scenes

SetupProfiles == {<<>>, <<"speech">>} \cup (IF "music" \in Components THEN {<<"speech", "music">>} ELSE {})

\* The second line is in Japanese only.
SomeTexts == (Lines \X Locales) \ {<<2, "en">>}

VARIABLE scene

mcVars == <<scene, poolVars, turnVars, meetVars, v2State, edgeVars, locVars, setupVars>>

MCInit ==
  /\ scene \in Scenes
  /\ LiveInit /\ MeetingInit /\ V2Init /\ EdgeInit /\ LocInit /\ SetupInit
  /\ scene # "turn" => plan = "stream"
  /\ scene # "v2" => preset = "chat"
  /\ scene # "edge" => first = 0

TurnScene ==
  /\ scene = "turn" /\ LiveNext
  /\ UNCHANGED <<scene, meetVars, v2State, edgeVars, locVars, setupVars>>

MeetingScene ==
  /\ scene = "meeting" /\ MeetingNext
  /\ UNCHANGED <<scene, turnVars, v2State, edgeVars, locVars, setupVars>>

V2Scene ==
  /\ scene = "v2" /\ V2Next
  /\ UNCHANGED <<scene, turnVars, meetVars, edgeVars, locVars, setupVars>>

EdgeScene ==
  /\ scene = "edge" /\ EdgeNext
  /\ UNCHANGED <<scene, poolVars, turnVars, meetVars, v2State, locVars, setupVars>>

BatchScene ==
  /\ scene = "batch" /\ LocNext
  /\ UNCHANGED <<scene, poolVars, turnVars, meetVars, v2State, edgeVars, setupVars>>

SetupScene ==
  /\ scene = "setup" /\ SetupNext
  /\ UNCHANGED <<scene, poolVars, turnVars, meetVars, v2State, edgeVars, locVars>>

MCNext == TurnScene \/ MeetingScene \/ V2Scene \/ EdgeScene \/ BatchScene \/ SetupScene

MCSpec == MCInit /\ [][MCNext]_mcVars /\ LiveFairness /\ V2Fairness

=============================================================================
