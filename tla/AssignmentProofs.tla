-------------------------- MODULE AssignmentProofs --------------------------
(***************************************************************************)
(* Assignment keeps its types; and when no two sessions are at work at the *)
(* same time, it implements the rotation of every team and keeps its other *)
(* promises.  That one session at a time is needed is what the violations  *)
(* of the same properties with two of them show.                           *)
(***************************************************************************)
EXTENDS Assignment, TLAPS

-----------------------------------------------------------------------------
(* Types *)

(* A session that has loaded a conversation is well-typed. *)
LEMMA LoadType ==
    ASSUME TypeOK, NEW s \in Sessions, NEW c \in Convs, NEW op \in Op,
           NEW to \in Assigned, NEW adds \in BOOLEAN, Load(s, c, op, to, adds)
    PROVE  TypeOK'
<1>. DEFINE x == [pc |-> "loaded", op |-> op, conv |-> c, to |-> to, adds |-> adds,
                  seen |-> conv[c], keep |-> FALSE, choice |-> Nobody, since |-> staffed]
<1>1. x \in Busy
  BY DEF TypeOK, Busy, SomeUser
<1>2. session' = [session EXCEPT ![s] = x]
  BY DEF Load
<1>3. session' \in [Sessions -> Busy \cup {Idle}]
  BY <1>1, <1>2 DEF TypeOK
<1>. QED
  BY <1>3 DEF Load, TypeOK, staff, work

(* So are a conversation and its tickets after a session has written them.   *)
LEMMA WriteType ==
    ASSUME TypeOK, NEW c \in Convs, NEW seen \in Assigned, NEW new \in Assigned,
           Write(c, seen, new)
    PROVE  conv' \in [Convs -> Assigned]
<1>1. To(Column(conv[c].team, seen.team, new.team), Column(conv[c].user, seen.user, new.user))
         \in Assigned
  BY DEF TypeOK, Assigned, To, Column
<1>. QED
  BY <1>1 DEF Write, TypeOK

(* The same value n times is a sequence of n values. *)
LEMMA Repeated ==
    ASSUME NEW S, NEW p \in S, NEW n \in Nat
    PROVE  /\ [i \in 1..n |-> p] \in Seq(S)
           /\ Len([i \in 1..n |-> p]) = n
OBVIOUS

(* Every ticket of the conversation gets the pair. *)
LEMMA SyncType ==
    ASSUME TypeOK, NEW c \in Convs, NEW adds \in BOOLEAN, NEW pair \in Assigned,
           SyncTickets(c, adds, pair)
    PROVE  /\ tickets' \in [Convs -> Seq(Assigned)]
           /\ \A i \in DOMAIN tickets'[c] : tickets'[c][i] = pair
<1>. DEFINE n == Len(tickets[c]) + (IF adds THEN 1 ELSE 0)
            new == [i \in 1..n |-> pair]
<1>1. n \in Nat
  BY DEF TypeOK
<1>. HIDE DEF n
<1>2. new \in Seq(Assigned)
  BY <1>1, Repeated
<1>3. tickets' = [tickets EXCEPT ![c] = new]
  BY DEF SyncTickets, n
<1>4. tickets'[c] = new
  BY <1>3 DEF TypeOK
<1>. QED
  BY <1>2, <1>3, <1>4 DEF TypeOK

(* A turn keeps pointer and history well-typed. *)
LEMMA TurnType ==
    ASSUME TypeOK, NEW t \in SomeTeam, NEW b \in Agents, TakesTurn(t, b)
    PROVE  last' \in [Teams -> SomeUser] /\ ahead' \in [Teams -> SUBSET (Agents \X Agents)]
<1>1. last' \in [Teams -> SomeUser]
  BY DEF TypeOK, TakesTurn, SomeUser
<1>2. Pool(t) \subseteq Agents \/ t \notin Teams
  BY DEF Pool, TypeOK
<1>3. ASSUME t \in Teams
      PROVE  {x \in ahead[t] : x[1] # b} \cup ((Pool(t) \ {b}) \X {b})
             \cup {<<b, b>> : a \in {a \in Pool(t) : <<a, b>> \in ahead[t]}}
             \in SUBSET (Agents \X Agents)
  <2>1. ahead[t] \subseteq Agents \X Agents
    BY <1>3 DEF TypeOK
  <2>2. (Pool(t) \ {b}) \X {b} \subseteq Agents \X Agents
    BY <1>2, <1>3
  <2>3. <<b, b>> \in Agents \X Agents
    OBVIOUS
  <2>. QED
    BY <2>1, <2>2, <2>3
<1>4. ahead' \in [Teams -> SUBSET (Agents \X Agents)]
  BY <1>3 DEF TypeOK, TakesTurn
<1>. QED
  BY <1>1, <1>4

(* And so does a change of staff. *)
LEMMA ForgetType ==
    ASSUME TypeOK, ForgetTurns
    PROVE  ahead' \in [Teams -> SUBSET (Agents \X Agents)]
BY DEF ForgetTurns, TypeOK

(* Whatever a session began with is one of the operations. *)
LEMMA BeginLoads ==
    ASSUME NEW s \in Sessions, NEW c \in Convs, TypeOK, Begin(s, c)
    PROVE  \E op \in Op, to \in Assigned, adds \in BOOLEAN :
              /\ Load(s, c, op, to, adds)
              /\ op \in {"transfer", "rotate"} => to.team \in Teams
<1>1. \A t \in SomeTeam, u \in SomeUser : To(t, u) \in Assigned /\ To(t, u).team = t
  BY DEF To, Assigned
<1>2. Nobody \in SomeUser /\ Teams \subseteq SomeTeam /\ Agents \subseteq SomeUser
  BY DEF SomeUser, SomeTeam
<1>3. conv[c].team \in SomeTeam /\ (conv[c].team # NoTeam => conv[c].team \in Teams)
  BY DEF TypeOK, Assigned, SomeTeam
<1>4. CASE \E t \in Teams : Transfer(s, c, t) \/ Escalate(s, c, t) \/ RotateTeam(s, c, t)
  BY <1>1, <1>2, <1>4 DEF Transfer, Escalate, RotateTeam, Op
<1>5. CASE AutoAssign(s, c)
  BY <1>1, <1>2, <1>3, <1>5 DEF AutoAssign, Op
<1>6. CASE \E u \in Agents : AssignUser(s, c, u)
  BY <1>1, <1>2, <1>3, <1>6 DEF AssignUser, Op
<1>7. CASE \E t \in SomeTeam, u \in SomeUser, adds \in BOOLEAN : AssignTicket(s, c, t, u, adds)
  BY <1>1, <1>7 DEF AssignTicket, Op
<1>8. CASE \E t \in SomeTeam, u \in SomeUser : AssignConversation(s, c, t, u)
  BY <1>1, <1>8 DEF AssignConversation, Op
<1>. QED
  BY <1>4, <1>5, <1>6, <1>7, <1>8 DEF Begin

(* A session about to pick or to write is busy. *)
LEMMA BusySession ==
    ASSUME TypeOK, NEW s \in Sessions, session[s] # Idle
    PROVE  session[s] \in Busy
BY DEF TypeOK

(* An idle session is at no step. *)
LEMMA IdlePc == Idle.pc = "idle"
BY DEF Idle

(* The state is well-typed. *)
THEOREM TypeCorrect == Spec => []TypeOK
<1>. USE AgentsAssumption, TeamsAssumption, BoundsAssumption
<1>1. Init => TypeOK
  <2>. SUFFICES ASSUME Init PROVE TypeOK
    OBVIOUS
  <2>1. Unassigned \in Assigned /\ \A t \in SomeTeam : [Unassigned EXCEPT !.team = t] \in Assigned
    BY DEF Unassigned, Assigned, SomeUser, SomeTeam
  <2>2. conv \in [Convs -> Assigned]
    BY <2>1 DEF Init
  <2>3. tickets \in [Convs -> Seq(Assigned)]
    BY DEF Init
  <2>. QED
    BY <2>2, <2>3 DEF Init, TypeOK, SomeUser
<1>2. TypeOK /\ [Next]_vars => TypeOK'
  <2>. SUFFICES ASSUME TypeOK, [Next]_vars PROVE TypeOK'
    OBVIOUS
  <2>1. CASE UNCHANGED vars
    BY <2>1 DEF TypeOK, vars
  <2>2. ASSUME NEW a \in Agents, NEW p \in Presence, SetStatus(a, p) PROVE TypeOK'
    <3>1. ahead' \in [Teams -> SUBSET (Agents \X Agents)]
      BY <2>2, ForgetType DEF SetStatus
    <3>. QED
      BY <2>2, <3>1 DEF SetStatus, Staffing, TypeOK, work
  <2>3. ASSUME NEW t \in Teams, NEW a \in Agents, AddMember(t, a) PROVE TypeOK'
    <3>1. ahead' \in [Teams -> SUBSET (Agents \X Agents)]
      BY <2>3, ForgetType DEF AddMember
    <3>2. members' \in [Teams -> SUBSET Agents]
      BY <2>3 DEF AddMember, TypeOK
    <3>3. last' \in [Teams -> SomeUser] /\ staffed' \in Nat
      BY <2>3 DEF AddMember, Staffing, TypeOK, SomeUser
    <3>. QED
      BY <2>3, <3>1, <3>2, <3>3 DEF AddMember, TypeOK, work
  <2>4. ASSUME NEW t \in Teams, NEW a \in Agents, RemoveMember(t, a) PROVE TypeOK'
    <3>1. ahead' \in [Teams -> SUBSET (Agents \X Agents)]
      BY <2>4, ForgetType DEF RemoveMember
    <3>2. members' \in [Teams -> SUBSET Agents]
      BY <2>4 DEF RemoveMember, TypeOK
    <3>3. last' \in [Teams -> SomeUser] /\ staffed' \in Nat
      BY <2>4 DEF RemoveMember, Staffing, TypeOK, SomeUser
    <3>. QED
      BY <2>4, <3>1, <3>2, <3>3 DEF RemoveMember, TypeOK, work
  <2>5. ASSUME NEW s \in Sessions, Pick(s) PROVE TypeOK'
    <3>1. session[s] \in Busy
      BY <2>5, BusySession, IdlePc DEF Pick
    <3>2. PICK b \in SomeUser :
             session' = [session EXCEPT ![s] = [@ EXCEPT !.pc = "picked", !.choice = b,
                                                !.keep = Keeps(session[s])]]
      BY <2>5 DEF Pick
    <3>3. Keeps(session[s]) \in BOOLEAN
      BY DEF Keeps
    <3>4. [session[s] EXCEPT !.pc = "picked", !.choice = b, !.keep = Keeps(session[s])] \in Busy
      BY <3>1, <3>3 DEF Busy
    <3>. QED
      BY <2>5, <3>2, <3>4 DEF Pick, TypeOK, staff, work
  <2>6. ASSUME NEW s \in Sessions, Finish(s) PROVE TypeOK'
    <3>. DEFINE x == session[s]
    <3>1. session[s] # Idle /\ Done(s)
      BY <2>6, IdlePc DEF Finish, EnsureAssignee, AssignRoundRobin, SyncManual,
                          UpdateConversation, CommitUser, Abort
    <3>2. x \in Busy
      BY <3>1, BusySession
    <3>3. session' \in [Sessions -> Busy \cup {Idle}]
      BY <3>1 DEF Done, TypeOK
    <3>4. /\ x.conv \in Convs /\ x.to \in Assigned /\ x.seen \in Assigned
          /\ x.choice \in SomeUser /\ x.adds \in BOOLEAN
          /\ x.to.team \in SomeTeam /\ x.seen.user \in SomeUser
      BY <3>2 DEF Busy, Assigned
    <3>5. To(x.to.team, x.choice) \in Assigned /\ To(x.to.team, x.seen.user) \in Assigned
      BY <3>4 DEF To, Assigned
    <3>6. x.choice # Nobody => x.choice \in Agents
      BY <3>4 DEF SomeUser
    <3>7. CASE EnsureAssignee(s)
      <4>1. conv' \in [Convs -> Assigned] /\ tickets' \in [Convs -> Seq(Assigned)]
        BY <3>4, <3>5, <3>7, WriteType, SyncType DEF EnsureAssignee
      <4>2. last' \in [Teams -> SomeUser] /\ ahead' \in [Teams -> SUBSET (Agents \X Agents)]
        BY <3>4, <3>6, <3>7, TurnType DEF EnsureAssignee, TypeOK
      <4>. QED
        BY <3>3, <3>7, <4>1, <4>2 DEF EnsureAssignee, TypeOK, staff
    <3>8. CASE AssignRoundRobin(s)
      <4>1. conv' \in [Convs -> Assigned]
        BY <3>4, <3>5, <3>8, WriteType DEF AssignRoundRobin
      <4>2. last' \in [Teams -> SomeUser] /\ ahead' \in [Teams -> SUBSET (Agents \X Agents)]
        BY <3>4, <3>6, <3>8, TurnType DEF AssignRoundRobin, TypeOK
      <4>. QED
        BY <3>3, <3>8, <4>1, <4>2 DEF AssignRoundRobin, TypeOK, staff
    <3>9. CASE SyncManual(s)
      <4>1. conv' \in [Convs -> Assigned] /\ tickets' \in [Convs -> Seq(Assigned)]
        BY <3>4, <3>9, WriteType, SyncType DEF SyncManual
      <4>. QED
        BY <3>3, <3>9, <4>1 DEF SyncManual, TypeOK, staff
    <3>10. CASE UpdateConversation(s)
      <4>1. conv' \in [Convs -> Assigned]
        BY <3>4, <3>10, WriteType DEF UpdateConversation
      <4>2. tickets' \in [Convs -> Seq(Assigned)]
        BY <3>4, <3>10, <4>1, SyncType DEF UpdateConversation
      <4>. QED
        BY <3>3, <3>10, <4>1, <4>2 DEF UpdateConversation, TypeOK, staff
    <3>11. CASE CommitUser(s)
      <4>1. conv' \in [Convs -> Assigned]
        BY <3>4, <3>11, WriteType DEF CommitUser
      <4>. QED
        BY <3>3, <3>11, <4>1 DEF CommitUser, TypeOK, staff
    <3>12. CASE Abort(s)
      BY <3>3, <3>12 DEF Abort, TypeOK, staff, work
    <3>. QED
      BY <2>6, <3>7, <3>8, <3>9, <3>10, <3>11, <3>12 DEF Finish
  <2>7. ASSUME NEW s \in Sessions, NEW c \in Convs, Begin(s, c) PROVE TypeOK'
    BY <2>7, BeginLoads, LoadType
  <2>8. ASSUME NEW c \in Convs, BareTicket(c) PROVE TypeOK'
    <3>1. Unassigned \in Assigned
      BY DEF Unassigned, Assigned, SomeUser, SomeTeam
    <3>2. Append(tickets[c], Unassigned) \in Seq(Assigned)
      BY <3>1 DEF TypeOK
    <3>. QED
      BY <2>8, <3>2 DEF BareTicket, TypeOK, staff
  <2>. QED
    BY <2>1, <2>2, <2>3, <2>4, <2>5, <2>6, <2>7, <2>8 DEF Next
<1>. QED
  BY <1>1, <1>2, PTL DEF Spec
-----------------------------------------------------------------------------
(* One session at a time *)

OneSession == \A s, r \in Sessions : s = r

(* A rotation's choice is still the next one of its team, as long as the     *)
(* team's turns are remembered.                                              *)
InOrder(x) ==
    LET t == x.to.team
    IN  t \in Teams /\ x.choice \in Agents /\ ~x.keep
        => Rot(t)!IsNext(Pool(t), last[t], x.choice) \/ ahead[t] = {}

(* An assignee on the team is kept, unless the staff has changed.            *)
Decided(x) ==
    /\ x.keep => x.op = "transfer" /\ x.choice = x.seen.user
    /\ x.op = "transfer" /\ x.since = staffed /\ x.seen.user \in members[x.to.team] => x.keep

(* What a session knows of its conversation is still true; and what it has   *)
(* chosen too.                                                               *)
Current(x) ==
    /\ x.seen = conv[x.conv]
    /\ x.since <= staffed
    /\ x.op \in {"transfer", "rotate"} => x.to.team \in Teams
    /\ x.pc = "picked" => x.op \in {"transfer", "rotate"} /\ InOrder(x) /\ Decided(x)

SessionsCurrent == \A s \in Sessions : session[s] # Idle => Current(session[s])
AloneInv == TypeOK /\ SessionsCurrent

(* What a session knows survives a step that touches neither conversations   *)
(* nor pointers, if a change of staff starts the turns of its teams anew.    *)
LEMMA StaffLeavesCurrent ==
    ASSUME TypeOK, NEW x \in Busy, Current(x), UNCHANGED conv, staffed' = staffed + 1,
           ForgetTurns
    PROVE  Current(x)'
<1>1. staffed \in Nat /\ (x.since <= staffed => x.since <= staffed' /\ x.since # staffed')
  BY DEF TypeOK, Busy
<1>2. ASSUME NEW t \in Teams
      PROVE  ahead'[t] = {} \/ (Pool(t)' = Pool(t) /\ last'[t] = last[t] /\ ahead'[t] = ahead[t])
  BY DEF ForgetTurns
<1>3. InOrder(x) => InOrder(x)'
  BY <1>2 DEF InOrder
<1>. QED
  BY <1>1, <1>3 DEF Current, Decided

(* And a step that touches nothing it depends on. *)
LEMMA QuietLeavesCurrent ==
    ASSUME NEW x, Current(x), UNCHANGED <<conv, members, presence, last, ahead, staffed>>
    PROVE  Current(x)'
<1>1. \A t : Pool(t)' = Pool(t)
  BY DEF Pool
<1>. QED
  BY <1>1 DEF Current, InOrder, Decided

(* A pick is decided and in order. *)
LEMMA PickIsCurrent ==
    ASSUME AloneInv, NEW s \in Sessions, Pick(s)
    PROVE  Current(session[s])'
<1>. DEFINE x == session[s]
<1>1. x \in Busy /\ Current(x) /\ x.op \in {"transfer", "rotate"} /\ x # Idle
  BY BusySession, IdlePc DEF Pick, AloneInv, SessionsCurrent
<1>2. PICK b \in SomeUser :
         /\ IF Keeps(x) THEN b = x.seen.user ELSE Finds(x.to.team, b)
         /\ session' = [session EXCEPT ![s] = [@ EXCEPT !.pc = "picked", !.choice = b,
                                               !.keep = Keeps(x)]]
  BY DEF Pick
<1>3. session'[s] = [x EXCEPT !.pc = "picked", !.choice = b, !.keep = Keeps(x)]
  BY <1>2 DEF AloneInv, TypeOK
<1>4. PICK y : /\ y = session'[s]
               /\ y.seen = x.seen /\ y.conv = x.conv /\ y.since = x.since /\ y.op = x.op
               /\ y.to = x.to /\ y.keep = Keeps(x) /\ y.choice = b /\ y.pc = "picked"
  <2>1. DOMAIN x = {"pc", "op", "conv", "to", "adds", "seen", "keep", "choice", "since"}
    BY <1>1 DEF Busy
  <2>. QED
    BY <1>3, <2>1
<1>5. Decided(y)
  BY <1>2, <1>4 DEF Decided, Keeps
<1>6. InOrder(y)
  <2>. SUFFICES ASSUME y.to.team \in Teams, b \in Agents, ~Keeps(x)
                PROVE  Rot(y.to.team)!IsNext(Pool(y.to.team), last[y.to.team], b)
    BY <1>4 DEF InOrder
  <2>1. Finds(y.to.team, b) /\ b # Nobody
    BY <1>2, <1>4, AgentsAssumption
  <2>. QED
    BY <2>1 DEF Finds, Later, Rot!IsNext, Rot!After
<1>7. Current(y)
  BY <1>1, <1>4, <1>5, <1>6 DEF Current
<1>8. UNCHANGED <<conv, members, presence, last, ahead, staffed>>
  BY DEF Pick, staff, work
<1>9. Current(y)'
  BY <1>7, <1>8, QuietLeavesCurrent
<1>. QED
  BY <1>4, <1>9

(* With one session at a time, what it has loaded and chosen stays true      *)
(* until it commits: the invariant the other theorems rest on.               *)
THEOREM AloneHolds == ASSUME OneSession PROVE Spec => []AloneInv
<1>1. Init => SessionsCurrent
  BY DEF Init, SessionsCurrent
<1>2. ASSUME AloneInv, [Next]_vars PROVE SessionsCurrent'
  <2>. SUFFICES ASSUME NEW r \in Sessions, session'[r] # Idle PROVE Current(session[r])'
    BY DEF SessionsCurrent
  <2>0. \A s \in Sessions : s = r
    BY DEF OneSession
  <2>a. TypeOK /\ (session[r] # Idle => session[r] \in Busy /\ Current(session[r]))
    BY <1>2, BusySession DEF AloneInv, SessionsCurrent
  <2>1. ASSUME session' = session, UNCHANGED <<conv, members, presence, last, ahead, staffed>>
        PROVE  Current(session[r])'
    <3>1. PICK x : x = session[r] /\ x = session'[r]
      BY <2>1
    <3>2. Current(x)'
      BY <2>1, <2>a, <3>1, QuietLeavesCurrent
    <3>. QED
      BY <3>1, <3>2
  <2>2. ASSUME session' = session, UNCHANGED conv, staffed' = staffed + 1, ForgetTurns
        PROVE  Current(session[r])'
    <3>1. PICK x \in Busy : x = session[r] /\ x = session'[r]
      BY <2>2, <2>a
    <3>2. Current(x)'
      BY <2>2, <2>a, <3>1, StaffLeavesCurrent
    <3>. QED
      BY <3>1, <3>2
  <2>3. CASE UNCHANGED vars
    BY <2>1, <2>3 DEF vars
  <2>4. CASE \E c \in Convs : BareTicket(c)
    BY <2>1, <2>4 DEF BareTicket, staff
  <2>5. CASE \E a \in Agents, p \in Presence : SetStatus(a, p)
    BY <2>2, <2>5 DEF SetStatus, Staffing, work
  <2>6. CASE \E t \in Teams, a \in Agents : AddMember(t, a) \/ RemoveMember(t, a)
    BY <2>2, <2>6 DEF AddMember, RemoveMember, Staffing, work
  <2>7. CASE \E s \in Sessions : Pick(s)
    BY <1>2, <2>0, <2>7, PickIsCurrent
  <2>8. CASE \E s \in Sessions : Finish(s)
    <3>1. Done(r)
      BY <2>0, <2>8 DEF Finish, EnsureAssignee, AssignRoundRobin, SyncManual,
                        UpdateConversation, CommitUser, Abort
    <3>. QED
      BY <2>a, <3>1 DEF Done, TypeOK
  <2>9. CASE \E s \in Sessions, c \in Convs : Begin(s, c)
    <3>1. PICK c \in Convs : Begin(r, c)
      BY <2>0, <2>9
    <3>2. PICK op \in Op, to \in Assigned, adds \in BOOLEAN :
             /\ Load(r, c, op, to, adds)
             /\ op \in {"transfer", "rotate"} => to.team \in Teams
      BY <2>a, <3>1, BeginLoads
    <3>a. /\ session'[r].pc = "loaded" /\ session'[r].op = op
          /\ session'[r].conv = c /\ session'[r].to = to
          /\ session'[r].seen = conv[c] /\ session'[r].since = staffed
      BY <2>a, <3>2, SMTT(20) DEF Load, TypeOK
    <3>3. PICK x : /\ x = session'[r]
                   /\ x.pc = "loaded" /\ x.op = op /\ x.conv = c /\ x.to = to
                   /\ x.seen = conv[c] /\ x.since = staffed
      BY ONLY <3>a
    <3>4. UNCHANGED <<conv, members, presence, last, ahead, staffed>> /\ staffed \in Nat
      BY <2>a, <3>2 DEF Load, staff, work, TypeOK
    <3>5. Current(x)
      BY <3>2, <3>3, <3>4 DEF Current
    <3>6. Current(x)'
      BY <3>4, <3>5, QuietLeavesCurrent
    <3>. QED
      BY <3>3, <3>6
  <2>. QED
    BY <1>2, <2>3, <2>4, <2>5, <2>6, <2>7, <2>8, <2>9 DEF Next
<1>. QED
  BY <1>1, <1>2, TypeCorrect, PTL DEF Spec, AloneInv

-----------------------------------------------------------------------------
(* What follows *)

(* A session that is still right about its conversation gives it what it     *)
(* writes.                                                                   *)
LEMMA WritesAll ==
    ASSUME TypeOK, NEW c \in Convs, NEW new \in Assigned, Write(c, conv[c], new)
    PROVE  conv'[c] = new
BY DEF TypeOK, Assigned, Write, Column, To

(* What a session that assigns an agent is, and what it writes. *)
LEMMA Writer ==
    ASSUME AloneInv, NEW s \in Sessions, EnsureAssignee(s) \/ AssignRoundRobin(s)
    PROVE  LET x == session[s]
               new == To(x.to.team, x.choice)
           IN  /\ x \in Busy /\ Current(x) /\ x.pc = "picked" /\ x.conv \in Convs
               /\ new \in Assigned /\ x.to.team \in Teams
               /\ x.choice # Nobody => x.choice \in Agents
               /\ EnsureAssignee(s) \/ x.choice # Nobody => conv'[x.conv] = new
<1>. DEFINE x == session[s]
            new == To(x.to.team, x.choice)
<1>1. x \in Busy /\ Current(x) /\ x.pc = "picked" /\ x.op \in {"transfer", "rotate"}
  BY BusySession, IdlePc DEF AloneInv, SessionsCurrent, EnsureAssignee, AssignRoundRobin
<1>2. x.conv \in Convs /\ new \in Assigned /\ x.to.team \in Teams /\ x.choice \in SomeUser
  BY <1>1 DEF Busy, Assigned, Current, To
<1>3. EnsureAssignee(s) \/ x.choice # Nobody => Write(x.conv, conv[x.conv], new)
  BY <1>1 DEF Current, EnsureAssignee, AssignRoundRobin
<1>. QED
  BY <1>1, <1>2, <1>3, WritesAll DEF AloneInv, SomeUser

(* A transfer leaves conversation and tickets in step. *)
THEOREM TransfersSync == ASSUME OneSession PROVE Spec => TransferSyncs
<1>1. ASSUME AloneInv, NEW s \in Sessions, NEW c \in Convs, EnsureAssignee(s),
             session[s].conv = c
      PROVE  InSync(c)'
  <2>. DEFINE x == session[s]
              new == To(x.to.team, x.choice)
  <2>1. conv'[c] = new /\ new \in Assigned /\ x.adds \in BOOLEAN
    BY <1>1, Writer DEF Busy
  <2>2. \A i \in DOMAIN tickets'[c] : tickets'[c][i] = new
    BY <1>1, <2>1, SyncType DEF EnsureAssignee, AloneInv
  <2>. QED
    BY <2>1, <2>2 DEF InSync
<1>2. AloneInv => [\A s \in Sessions, c \in Convs :
                     EnsureAssignee(s) /\ session[s].conv = c => InSync(c)']_vars
  BY <1>1
<1>. QED
  BY <1>2, AloneHolds, PTL DEF TransferSyncs

(* An agent is assigned together with the team he was found in. *)
THEOREM AgentsFromTeam == ASSUME OneSession PROVE Spec => FromCurrentTeam
<1>1. ASSUME AloneInv, NEW s \in Sessions, EnsureAssignee(s) \/ AssignRoundRobin(s),
             session[s].choice # Nobody
      PROVE  conv'[session[s].conv] = To(session[s].to.team, session[s].choice)
  BY <1>1, Writer
<1>2. AloneInv => [\A s \in Sessions :
                     (EnsureAssignee(s) \/ AssignRoundRobin(s)) /\ session[s].choice # Nobody
                     => conv'[session[s].conv] = To(session[s].to.team, session[s].choice)]_vars
  BY <1>1
<1>. QED
  BY <1>2, AloneHolds, PTL DEF FromCurrentTeam

(* An assignee on the team stays. *)
THEOREM MembersKept == ASSUME OneSession PROVE Spec => MemberKept
<1>1. ASSUME AloneInv, NEW s \in Sessions, EnsureAssignee(s),
             conv[session[s].conv].user \in members[session[s].to.team],
             staffed = session[s].since
      PROVE  conv'[session[s].conv].user = conv[session[s].conv].user
  <2>. DEFINE x == session[s]
  <2>1. Current(x) /\ x.pc = "picked" /\ conv'[x.conv] = To(x.to.team, x.choice)
    BY <1>1, Writer
  <2>2. x.op = "transfer" /\ x.seen = conv[x.conv] /\ Decided(x)
    BY <1>1, <2>1 DEF EnsureAssignee, Current
  <2>3. x.choice = x.seen.user
    BY <1>1, <2>2 DEF Decided
  <2>. QED
    BY <2>1, <2>2, <2>3 DEF To
<1>2. AloneInv => [\A s \in Sessions :
                     LET c == session[s].conv
                     IN  /\ EnsureAssignee(s)
                         /\ conv[c].user \in members[session[s].to.team]
                         /\ staffed = session[s].since
                         => conv'[c].user = conv[c].user]_vars
  BY <1>1
<1>. QED
  BY <1>2, AloneHolds, PTL DEF MemberKept

-----------------------------------------------------------------------------
(* Every team's rotation is implemented *)

(* One team's part of a step. *)
Rotates(t) == Rot(t)!Next \/ UNCHANGED <<Pool(t), last[t], ahead[t]>>

(* A session's turn is a turn of its team's rotation, and of no other's.     *)
LEMMA TurnRotates ==
    ASSUME TypeOK, NEW t \in Teams, NEW u \in Teams, NEW b \in Agents,
           TakesTurn(t, b), UNCHANGED <<members, presence>>,
           Rot(t)!IsNext(Pool(t), last[t], b) \/ ahead[t] = {}
    PROVE  Rotates(u)
<1>1. Pool(u)' = Pool(u)
  BY DEF Pool
<1>2. CASE u = t
  <2>1. last'[t] = b /\ ahead'[t] =
              {x \in ahead[t] : x[1] # b} \cup ((Pool(t) \ {b}) \X {b})
              \cup {<<b, b>> : a \in {a \in Pool(t) : <<a, b>> \in ahead[t]}}
    BY DEF TakesTurn, TypeOK
  <2>2. Rot(t)!Turn(b)
    BY <1>1, <1>2, <2>1 DEF Rot!Turn, Rot!AheadAfter
  <2>. QED
    BY <1>2, <2>2 DEF Rotates, Rot!Next
<1>3. CASE u # t
  BY <1>1, <1>3 DEF TakesTurn, TypeOK, Rotates
<1>. QED
  BY <1>2, <1>3

(* A change of staff adds an agent to the pool, takes one out or leaves it.  *)
LEMMA StaffRotates ==
    ASSUME TypeOK, ForgetTurns, NEW u \in Teams, NEW a \in Agents,
           \/ Pool(u)' = Pool(u) \/ Pool(u)' = Pool(u) \cup {a} \/ Pool(u)' = Pool(u) \ {a},
           last'[u] = last[u] \/ (last[u] = a /\ last'[u] = Nobody /\ a \notin Pool(u)')
    PROVE  Rotates(u)
<1>1. CASE Pool(u)' = Pool(u) /\ last'[u] = last[u]
  BY <1>1 DEF ForgetTurns, Rotates
<1>2. CASE ~(Pool(u)' = Pool(u) /\ last'[u] = last[u])
  <2>1. ahead'[u] = {}
    BY <1>2 DEF ForgetTurns
  <2>2. CASE Pool(u)' = Pool(u)
    <3>1. Rot(u)!ForgetLast
      BY <1>2, <2>1, <2>2 DEF Rot!ForgetLast, Rot!Nobody, Nobody
    <3>. QED
      BY <3>1 DEF Rotates, Rot!Next
  <2>3. CASE Pool(u)' # Pool(u) /\ a \notin Pool(u)
    <3>1. Rot(u)!Join(a)
      BY <2>1, <2>3 DEF Rot!Join
    <3>. QED
      BY <3>1 DEF Rotates, Rot!Next
  <2>4. CASE Pool(u)' # Pool(u) /\ a \in Pool(u)
    <3>1. Rot(u)!Leave(a)
      BY <2>1, <2>4 DEF Rot!Leave, Rot!Nobody, Nobody
    <3>. QED
      BY <3>1 DEF Rotates, Rot!Next
  <2>. QED
    BY <2>2, <2>3, <2>4
<1>. QED
  BY <1>1, <1>2

(* With one session at a time every team's rotation is Rotation's, which     *)
(* StaffProofs shows to be fair.                                             *)
THEOREM RotationImplemented == ASSUME OneSession PROVE Spec => TeamsRotate
<1>1. Init => \A t \in Teams : Rot(t)!Init
  BY TeamsAssumption DEF Init, Pool, Rot!Init, Rot!Nobody, Nobody
<1>2. ASSUME AloneInv, Next, NEW u \in Teams PROVE Rotates(u)
  <2>. TypeOK
    BY <1>2 DEF AloneInv
  <2>1. ASSUME UNCHANGED <<members, presence, last, ahead>> PROVE Rotates(u)
    BY <2>1 DEF Rotates, Pool
  <2>2. CASE \E c \in Convs : BareTicket(c)
    BY <2>1, <2>2 DEF BareTicket, staff
  <2>3. ASSUME NEW a \in Agents, NEW p \in Presence, SetStatus(a, p) PROVE Rotates(u)
    <3>1. \/ Pool(u)' = Pool(u) \/ Pool(u)' = Pool(u) \cup {a} \/ Pool(u)' = Pool(u) \ {a}
      BY <2>3 DEF SetStatus, Pool, TypeOK
    <3>. QED
      BY <2>3, <3>1, StaffRotates DEF SetStatus
  <2>4. ASSUME NEW t \in Teams, NEW a \in Agents, AddMember(t, a) PROVE Rotates(u)
    <3>1. Pool(u)' = Pool(u) \/ Pool(u)' = Pool(u) \cup {a}
      BY <2>4 DEF AddMember, Pool, TypeOK
    <3>. QED
      BY <2>4, <3>1, StaffRotates DEF AddMember
  <2>5. ASSUME NEW t \in Teams, NEW a \in Agents, RemoveMember(t, a) PROVE Rotates(u)
    <3>1. Pool(u)' = Pool(u) \/ Pool(u)' = Pool(u) \ {a}
      BY <2>5 DEF RemoveMember, Pool, TypeOK
    <3>2. last'[u] = last[u] \/ (last[u] = a /\ last'[u] = Nobody /\ a \notin Pool(u)')
      BY <2>5 DEF RemoveMember, Pool, TypeOK
    <3>. QED
      BY <2>5, <3>1, <3>2, StaffRotates DEF RemoveMember
  <2>6. ASSUME NEW s \in Sessions, Pick(s) PROVE Rotates(u)
    BY <2>1, <2>6 DEF Pick, staff
  <2>7. ASSUME NEW s \in Sessions, Finish(s) PROVE Rotates(u)
    <3>. DEFINE x == session[s]
    <3>1. CASE EnsureAssignee(s) \/ AssignRoundRobin(s)
      <4>1. Current(x) /\ x.pc = "picked" /\ x.to.team \in Teams
            /\ (x.choice # Nobody => x.choice \in Agents)
        BY <1>2, <3>1, Writer
      <4>2. InOrder(x) /\ Decided(x) /\ UNCHANGED <<members, presence>>
        BY <3>1, <4>1 DEF Current, EnsureAssignee, AssignRoundRobin, staff
      <4>3. CASE UNCHANGED <<last, ahead>>
        BY <2>1, <4>2, <4>3
      <4>4. CASE ~UNCHANGED <<last, ahead>>
        <5>1. TakesTurn(x.to.team, x.choice) /\ x.choice # Nobody /\ ~x.keep
          BY <3>1, <4>2, <4>4 DEF EnsureAssignee, AssignRoundRobin, Decided
        <5>2. Rot(x.to.team)!IsNext(Pool(x.to.team), last[x.to.team], x.choice)
              \/ ahead[x.to.team] = {}
          BY <4>1, <4>2, <5>1 DEF InOrder
        <5>. QED
          BY <4>1, <4>2, <5>1, <5>2, TurnRotates
      <4>. QED
        BY <4>3, <4>4
    <3>2. CASE ~(EnsureAssignee(s) \/ AssignRoundRobin(s))
      BY <2>1, <2>7, <3>2 DEF Finish, SyncManual, UpdateConversation, CommitUser, Abort, staff
    <3>. QED
      BY <3>1, <3>2
  <2>8. ASSUME NEW s \in Sessions, NEW c \in Convs, Begin(s, c) PROVE Rotates(u)
    BY <2>1, <2>8, BeginLoads DEF Load, staff
  <2>. QED
    BY <1>2, <2>2, <2>3, <2>4, <2>5, <2>6, <2>7, <2>8 DEF Next
<1>3. AloneInv => [\A t \in Teams : Rot(t)!Next \/ UNCHANGED <<Pool(t), last[t], ahead[t]>>]_vars
      \/ ~[Next]_vars
  BY <1>2 DEF Rotates
<1>. QED
  BY <1>1, <1>3, AloneHolds, PTL DEF Spec, TeamsRotate
=============================================================================
