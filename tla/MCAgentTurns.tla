--------------------------- MODULE MCAgentTurns ---------------------------
(* Small instances of AgentTurns for TLC.                                   *)
EXTENDS AgentTurns

CONSTANTS chat, mail, spam, dream, check

\* A chat message interrupts; mail is snoozed or trashed as the rules say.
RouteOf(p) == CASE p = chat -> {"interrupt"}
                [] p = mail -> {"snooze", "trash"}
                [] p = spam -> {"trash"}
                [] p = dream -> {"interrupt"}
                [] p = check -> {"interrupt", "snooze"}
MCRoutes == [p \in Paths |-> RouteOf(p)]
WriteOnce == [p \in Paths |-> 1]
NoBoot == {<<>>}
TwoBootTurns == {<<TRUE, TRUE>>}
MixedBoot == {<<FALSE, TRUE>>, <<TRUE>>}
=============================================================================
