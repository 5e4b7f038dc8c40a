---------------------------- MODULE MCAssignment ----------------------------
(* Assignment with three agents, the third on a team of his own as well.     *)
EXTENDS Assignment, TLC

CONSTANTS t1, t2

MCAgents == 1..3
MCTeams  == {t1, t2}
MCRoster == t1 :> {1, 2, 3} @@ t2 :> {3}

(* Presence at the start: the first agent is there, the second may be, the   *)
(* third may have no row either.                                             *)
MCInit == Init /\ presence[1] = "ONLINE" /\ presence[2] # "NONE"
MCSpec == MCInit /\ [][Next]_vars
=============================================================================
