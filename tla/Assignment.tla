----------------------------- MODULE Assignment -----------------------------
(***************************************************************************)
(* Who works on a conversation and on its tickets.                         *)
(*                                                                         *)
(* A request, a worker or an automation works in a database session of its *)
(* own, in three steps: it loads the conversation, then reads team, pool   *)
(* and rotation pointer, then writes and commits.  The loaded conversation *)
(* is not read again, and the commit writes only the columns whose value   *)
(* differs from the loaded one.  Agents are their ids, in sorted order.    *)
(***************************************************************************)
EXTENDS Naturals, Sequences

CONSTANTS
    Agents,       \* users who can be assigned
    Teams,
    NoTeam,       \* no team is assigned
    Convs,        \* conversations
    Sessions,     \* requests, workers and automations at work
    Roster,       \* the teams' members at the start
    MaxTickets,   \* bound: tickets of a conversation
    MaxStaffing   \* bound: changes of presence and membership

Nobody == 0

ASSUME AgentsAssumption == Agents \subseteq Nat \ {Nobody}
ASSUME TeamsAssumption  == NoTeam \notin Teams /\ Roster \in [Teams -> SUBSET Agents]
ASSUME BoundsAssumption == MaxTickets \in Nat /\ MaxStaffing \in Nat

VARIABLES
    members,   \* team_members
    presence,  \* agent_availability.status; NONE: no row
    last,      \* teams.last_assigned_user_id
    conv,      \* assigned_team_id and assigned_user_id of the conversations
    tickets,   \* the same of their tickets, oldest first
    session,   \* state of each session
    ahead,     \* not in the code: the turns taken, see Rotation
    staffed    \* changes of presence and membership so far

staff == <<members, presence, staffed>>
work  == <<conv, tickets>>
vars  == <<members, presence, last, conv, tickets, session, ahead, staffed>>

-----------------------------------------------------------------------------
(* Types *)

(* AWAY stands for AWAY and OFFLINE, which the assignment never tells apart. *)
Presence == {"ONLINE", "AWAY", "NONE"}
SomeTeam == Teams \cup {NoTeam}
SomeUser == Agents \cup {Nobody}
Assigned == [team : SomeTeam, user : SomeUser]

Op == {"transfer", "rotate", "manual", "update", "assign"}

(* What a session is to do, on what, with the conversation as it loaded it   *)
(* (seen); then the assignee it keeps or the agent it has chosen.  `since`   *)
(* is not in the code: the changes of staff when it loaded.                  *)
Idle  == [pc |-> "idle"]
Busy  == [pc : {"loaded", "picked"}, op : Op, conv : Convs, to : Assigned, adds : BOOLEAN,
          seen : Assigned, keep : BOOLEAN, choice : SomeUser, since : Nat]

TypeOK ==
    /\ members \in [Teams -> SUBSET Agents]
    /\ presence \in [Agents -> Presence]
    /\ last \in [Teams -> SomeUser]
    /\ conv \in [Convs -> Assigned]
    /\ tickets \in [Convs -> Seq(Assigned)]
    /\ session \in [Sessions -> Busy \cup {Idle}]
    /\ ahead \in [Teams -> SUBSET (Agents \X Agents)]
    /\ staffed \in Nat

Unassigned == [team |-> NoTeam, user |-> Nobody]

(* _assign_default_team: a new conversation is on Support if there is one,   *)
(* and nobody's.                                                             *)
Init ==
    /\ members = Roster
    /\ presence \in [Agents -> Presence]
    /\ last = [t \in Teams |-> Nobody]
    /\ \E support \in SomeTeam :
          conv = [c \in Convs |-> [Unassigned EXCEPT !.team = support]]
    /\ tickets = [c \in Convs |-> <<>>]
    /\ session = [s \in Sessions |-> Idle]
    /\ ahead = [t \in Teams |-> {}]
    /\ staffed = 0

-----------------------------------------------------------------------------
(* The rotation.  A definition named X_Fault is X with one plausible bug; no *)
(* action uses it, it serves to see that the properties notice the bug.      *)

(* _is_eligible, for the members of a team *)
Pool(t) == {a \in members[t] : presence[a] = "ONLINE"}

(* find_available_agent finds b: the next id after the pointer's among the   *)
(* eligible, else the first, and nobody when none is eligible.               *)
Later(p, l) == {a \in p : l \in p /\ a > l}
Finds_Pointerless(t, b) ==
    IF Pool(t) = {} THEN b = Nobody ELSE b \in Pool(t) /\ \A a \in Pool(t) : b <= a
Finds(t, b) ==
    IF Pool(t) = {} THEN b = Nobody
    ELSE LET late == Later(Pool(t), last[t])
             rest == IF late # {} THEN late ELSE Pool(t)
         IN  b \in rest /\ \A a \in rest : b <= a

(* The pointer moves to b. *)
TakesTurn(t, b) ==
    /\ last' = [last EXCEPT ![t] = b]
    /\ ahead' = [ahead EXCEPT ![t] =
                    {x \in @ : x[1] # b} \cup ((Pool(t) \ {b}) \X {b})
                    \cup {<<b, b>> : a \in {a \in Pool(t) : <<a, b>> \in @}}]

(* A team's turns start anew when its pool changes or its pointer is lost.   *)
ForgetTurns ==
    ahead' = [t \in Teams |-> IF Pool(t)' = Pool(t) /\ last'[t] = last[t]
                              THEN ahead[t] ELSE {}]

-----------------------------------------------------------------------------
(* Staff *)

Staffing == staffed < MaxStaffing /\ staffed' = staffed + 1

SetStatus(a, p) ==
    /\ Staffing
    /\ p # "NONE" /\ p # presence[a]
    /\ presence' = [presence EXCEPT ![a] = p]
    /\ UNCHANGED <<members, last, work, session>>
    /\ ForgetTurns

AddMember(t, a) ==
    /\ Staffing
    /\ a \notin members[t]
    /\ members' = [members EXCEPT ![t] = @ \cup {a}]
    /\ UNCHANGED <<presence, last, work, session>>
    /\ ForgetTurns

RemoveMember(t, a) ==
    /\ Staffing
    /\ a \in members[t]
    /\ members' = [members EXCEPT ![t] = @ \ {a}]
    /\ last' = IF last[t] = a THEN [last EXCEPT ![t] = Nobody] ELSE last
    /\ UNCHANGED <<presence, work, session>>
    /\ ForgetTurns

-----------------------------------------------------------------------------
(* A session loads the conversation *)

Load(s, c, op, to, adds) ==
    /\ session[s] = Idle
    /\ adds => Len(tickets[c]) < MaxTickets
    /\ session' = [session EXCEPT ![s] =
          [pc |-> "loaded", op |-> op, conv |-> c, to |-> to, adds |-> adds,
           seen |-> conv[c], keep |-> FALSE, choice |-> Nobody, since |-> staffed]]
    /\ UNCHANGED <<staff, last, work, ahead>>

To(t, u) == [team |-> t, user |-> u]

(* update_conversation or update_ticket with another team and no user, or    *)
(* the ASSIGN_TEAM automation.                                               *)
Transfer(s, c, t) ==
    /\ \/ conv[c].team # t
       \/ \E i \in DOMAIN tickets[c] : tickets[c][i].team # t
    /\ Load(s, c, "transfer", To(t, Nobody), FALSE)

(* _create_ticket: an escalation of the AI, a response timeout or an agent's *)
(* request, to the team resolved for it; create_ticket without a user does   *)
(* the same.  The AI's session has loaded the conversation before the LLM.   *)
Escalate(s, c, t) == Load(s, c, "transfer", To(t, Nobody), TRUE)

(* ASSIGN_ROUND_ROBIN *)
RotateTeam(s, c, t) == Load(s, c, "rotate", To(t, Nobody), FALSE)

(* auto_assign_if_needed: only a conversation that is nobody's. *)
AutoAssign(s, c) ==
    /\ conv[c].user = Nobody
    /\ conv[c].team # NoTeam
    /\ Load(s, c, "rotate", To(conv[c].team, Nobody), FALSE)

(* create_ticket with a user, or update_ticket with a user or without team.  *)
AssignTicket(s, c, t, u, adds) ==
    /\ IF adds THEN u # Nobody ELSE tickets[c] # <<>>
    /\ Load(s, c, "manual", To(t, u), adds)

(* update_conversation with a user, or with its team cleared. *)
AssignConversation(s, c, t, u) == Load(s, c, "update", To(t, u), FALSE)

(* takeover of a conversation that is nobody's, whatever the presence, or    *)
(* ASSIGN_USER to an agent who is ONLINE or has no row.                      *)
AssignUser(s, c, u) ==
    /\ conv[c].user # u
    /\ conv[c].user = Nobody \/ presence[u] \in {"ONLINE", "NONE"}
    /\ Load(s, c, "assign", To(conv[c].team, u), FALSE)

-----------------------------------------------------------------------------
(* A session reads team and pool *)

(* ensure_assignee_for_team keeps a loaded assignee who is on the team. *)
Keeps_Never(x) == FALSE
Keeps(x) == x.op = "transfer" /\ x.seen.user \in members[x.to.team]

Pick(s) ==
    /\ session[s].pc = "loaded"
    /\ session[s].op \in {"transfer", "rotate"}
    /\ \E b \in SomeUser :
          /\ IF Keeps(session[s]) THEN b = session[s].seen.user
                                  ELSE Finds(session[s].to.team, b)
          /\ session' = [session EXCEPT ![s] = [@ EXCEPT !.pc = "picked", !.choice = b,
                                                !.keep = Keeps(session[s])]]
    /\ UNCHANGED <<staff, last, work, ahead>>

-----------------------------------------------------------------------------
(* A session writes and commits *)

(* The column's value after a commit that assigns it `new`: a value equal to *)
(* the one loaded is not written.                                            *)
Column(now, seen, new) == IF new = seen THEN now ELSE new

Write_UserOnly(c, seen, new) ==
    conv' = [conv EXCEPT ![c].user = Column(@, seen.user, new.user)]
Write(c, seen, new) ==
    conv' = [conv EXCEPT ![c] = To(Column(conv[c].team, seen.team, new.team),
                                   Column(conv[c].user, seen.user, new.user))]

(* _sync_tickets_with_conversation: every ticket of the conversation, and    *)
(* the new one if there is one.                                              *)
SyncTickets_NewOnly(c, adds, pair) ==
    tickets' = IF adds THEN [tickets EXCEPT ![c] = Append(@, pair)] ELSE tickets
SyncTickets(c, adds, pair) ==
    tickets' = [tickets EXCEPT ![c] =
                  [i \in 1..(Len(@) + (IF adds THEN 1 ELSE 0)) |-> pair]]

Done(s) == session' = [session EXCEPT ![s] = Idle]

(* ensure_assignee_for_team *)
EnsureAssignee(s) ==
    LET x == session[s]
        new == To(x.to.team, x.choice)
    IN /\ x.pc = "picked" /\ x.op = "transfer"
       /\ Write(x.conv, x.seen, new)
       /\ SyncTickets(x.conv, x.adds, new)
       /\ IF x.keep \/ x.choice = Nobody THEN UNCHANGED <<last, ahead>>
                                         ELSE TakesTurn(x.to.team, x.choice)
       /\ Done(s)
       /\ UNCHANGED staff

(* assign_round_robin; the tickets stay as they are. *)
AssignRoundRobin(s) ==
    LET x == session[s]
    IN /\ x.pc = "picked" /\ x.op = "rotate"
       /\ IF x.choice = Nobody
          THEN /\ Write(x.conv, x.seen, To(x.to.team, x.seen.user))
               /\ UNCHANGED <<last, ahead>>
          ELSE /\ Write(x.conv, x.seen, To(x.to.team, x.choice))
               /\ TakesTurn(x.to.team, x.choice)
       /\ Done(s)
       /\ UNCHANGED <<staff, tickets>>

(* sync_manual_assignment *)
SyncManual(s) ==
    LET x == session[s]
    IN /\ x.pc = "loaded" /\ x.op = "manual"
       /\ Write(x.conv, x.seen, x.to)
       /\ SyncTickets(x.conv, x.adds, x.to)
       /\ Done(s)
       /\ UNCHANGED <<staff, last, ahead>>

(* update_conversation reads the row again before it synchronises. *)
UpdateConversation(s) ==
    LET x == session[s]
    IN /\ x.pc = "loaded" /\ x.op = "update"
       /\ Write(x.conv, x.seen, x.to)
       /\ SyncTickets(x.conv, FALSE, conv'[x.conv])
       /\ Done(s)
       /\ UNCHANGED <<staff, last, ahead>>

(* assign_user; the tickets stay as they are. *)
CommitUser(s) ==
    LET x == session[s]
    IN /\ x.pc = "loaded" /\ x.op = "assign"
       /\ Write(x.conv, x.seen, x.to)
       /\ Done(s)
       /\ UNCHANGED <<staff, last, tickets, ahead>>

(* create_ticket on a conversation without team, for nobody. *)
BareTicket(c) ==
    /\ conv[c].team = NoTeam
    /\ Len(tickets[c]) < MaxTickets
    /\ tickets' = [tickets EXCEPT ![c] = Append(@, Unassigned)]
    /\ UNCHANGED <<staff, last, conv, session, ahead>>

(* The session fails and is rolled back. *)
Abort(s) == session[s] # Idle /\ Done(s) /\ UNCHANGED <<staff, last, work, ahead>>

-----------------------------------------------------------------------------

Begin(s, c) ==
    \/ \E t \in Teams : Transfer(s, c, t) \/ Escalate(s, c, t) \/ RotateTeam(s, c, t)
    \/ AutoAssign(s, c)
    \/ \E u \in Agents : AssignUser(s, c, u)
    \/ \E t \in SomeTeam, u \in SomeUser :
          \/ \E adds \in BOOLEAN : AssignTicket(s, c, t, u, adds)
          \/ AssignConversation(s, c, t, u)

Finish(s) ==
    \/ EnsureAssignee(s) \/ AssignRoundRobin(s) \/ SyncManual(s)
    \/ UpdateConversation(s) \/ CommitUser(s) \/ Abort(s)

Next ==
    \/ \E a \in Agents, p \in Presence : SetStatus(a, p)
    \/ \E t \in Teams, a \in Agents : AddMember(t, a) \/ RemoveMember(t, a)
    \/ \E s \in Sessions : Pick(s) \/ Finish(s) \/ \E c \in Convs : Begin(s, c)
    \/ \E c \in Convs : BareTicket(c)

Spec == Init /\ [][Next]_vars

-----------------------------------------------------------------------------
(* Properties *)

(* A team's pool, pointer and turns behave as Rotation says, whose turns are *)
(* proved fair: assignments of any kind, and agents and members that come    *)
(* and go while one is under way, leave the rotation intact.                 *)
Rot(t) == INSTANCE Rotation WITH pool <- Pool(t), last <- last[t], ahead <- ahead[t]
TeamsRotate ==
    /\ \A t \in Teams : Rot(t)!Init
    /\ [][\A t \in Teams : Rot(t)!Next \/ UNCHANGED <<Pool(t), last[t], ahead[t]>>]_vars

(* An escalation or a transfer leaves conversation and tickets with the same *)
(* team and assignee.                                                        *)
InSync(c) == \A i \in DOMAIN tickets[c] : tickets[c][i] = conv[c]
TransferSyncs ==
    [][\A s \in Sessions, c \in Convs :
          EnsureAssignee(s) /\ session[s].conv = c => InSync(c)']_vars

(* An agent whom an escalation, a transfer or a rotation assigns comes from  *)
(* the team the conversation is on then.                                     *)
FromCurrentTeam ==
    [][\A s \in Sessions :
          (EnsureAssignee(s) \/ AssignRoundRobin(s)) /\ session[s].choice # Nobody
          => conv'[session[s].conv] = To(session[s].to.team, session[s].choice)]_vars

(* An escalation or a transfer does not take the conversation away from an   *)
(* assignee on the team, unless it has been at work since he joined.         *)
MemberKept ==
    [][\A s \in Sessions :
          LET c == session[s].conv
          IN  /\ EnsureAssignee(s)
              /\ conv[c].user \in members[session[s].to.team]
              /\ staffed = session[s].since
              => conv'[c].user = conv[c].user]_vars
=============================================================================
