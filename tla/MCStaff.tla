------------------------------ MODULE MCStaff ------------------------------
(* Staff for TLC: an owner, an agent and a manager on the team, and one who may be hired. *)
EXTENDS Staff, TLC

CONSTANTS r1, r2
Symmetry == Permutations(Requests)

MCPeople == 1..4
MCFounders == <<"OWNER", "AGENT", "MANAGER">>
MCCrew == {2, 3}
MCOffered == {"OWNER", "AGENT"}
=============================================================================
