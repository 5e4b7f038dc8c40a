------------------------------ MODULE Rotation ------------------------------
(***************************************************************************)
(* The rotation of one team: who gets the next conversation.               *)
(*                                                                         *)
(* The team keeps one pointer, last_assigned_user_id.  The pool, its       *)
(* members who are ONLINE, changes under it.  `ahead` is not in the code:  *)
(* it remembers who has had a turn while who is still waiting for one, and *)
(* says what the rotation promises.                                        *)
(***************************************************************************)
EXTENDS Naturals

CONSTANT Agents   \* user ids, in the order the code sorts them

Nobody == 0

(* What the rotation needs of Agents; the modules that use it assume it. *)
AgentsAreIds == Agents \subseteq Nat \ {Nobody}

VARIABLES
    pool,    \* the team's members who are ONLINE
    last,    \* teams.last_assigned_user_id
    ahead    \* <<a, b>>: b had a turn since a, in the pool all along, had one;
             \* <<b, b>>: b even had two

vars == <<pool, last, ahead>>

(* The pool's agents who come after the last one. *)
After(p, l) == {a \in p : l \in p /\ a > l}

(* b is next in the order of ids after l, or the first of all when l is the *)
(* last one, is not in the pool or is nobody.                               *)
IsNext_AlwaysFirst(p, l, b) == b \in p /\ \A a \in p : b <= a
IsNext(p, l, b) ==
    /\ b \in p
    /\ IF After(p, l) # {}
       THEN b \in After(p, l) /\ \A a \in After(p, l) : b <= a
       ELSE \A a \in p : b <= a

(* b has a turn: everybody else who is waiting now has b ahead of him, and if *)
(* somebody had already, it is b's second one.                               *)
AheadAfter(b) == {x \in ahead : x[1] # b} \cup ((pool \ {b}) \X {b})
                 \cup {<<b, b>> : a \in {a \in pool : <<a, b>> \in ahead}}

RotationType ==
    /\ pool \in SUBSET Agents
    /\ last \in Agents \cup {Nobody}
    /\ ahead \in SUBSET (Agents \X Agents)

Init == pool \in SUBSET Agents /\ last = Nobody /\ ahead = {}

(* A turn in the order of the rotation.  The first one after a change of the *)
(* pool may have been decided before the change.                             *)
Turn(b) ==
    /\ IsNext(pool, last, b) \/ ahead = {}
    /\ last' = b
    /\ ahead' = AheadAfter(b)
    /\ UNCHANGED pool

(* set_status or add_member: a member comes ONLINE, or an ONLINE agent joins. *)
Join(a) ==
    /\ a \notin pool
    /\ pool' = pool \cup {a}
    /\ ahead' = {}
    /\ UNCHANGED last

(* set_status, or remove_member, which forgets a pointer to the agent.       *)
Leave(a) ==
    /\ a \in pool
    /\ pool' = pool \ {a}
    /\ last' = last \/ (last = a /\ last' = Nobody)
    /\ ahead' = {}

(* The member the pointer names leaves the team while offline. *)
ForgetLast ==
    /\ last \notin pool
    /\ last' = Nobody
    /\ ahead' = {}
    /\ UNCHANGED pool

Next == ForgetLast \/ \E a \in Agents : Turn(a) \/ Join(a) \/ Leave(a)

Spec == Init /\ [][Next]_vars

-----------------------------------------------------------------------------
(* Nobody has a second turn while an agent who has been ONLINE in the team   *)
(* ever since the first is still waiting: A, B, C, A.                        *)
NobodyOvertaken ==
    [][\A b \in Agents : Turn(b) => \A a \in pool : <<a, b>> \notin ahead]_vars

(* Why: read round the circle of ids, who is ahead of a waiting agent stands *)
(* between that agent and the pointer.                                       *)
Between(a, b, l) == \/ a < b /\ b <= l
                    \/ l < a /\ a < b
                    \/ b <= l /\ l < a
OrderKept ==
    /\ RotationType
    /\ ahead # {} => last \in Agents
    /\ \A a, b \in Agents :
          <<a, b>> \in ahead
          => a # b /\ a \in pool /\ (b \in pool => last \in pool /\ Between(a, b, last))
=============================================================================
