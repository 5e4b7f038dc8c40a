--------------------------- MODULE AutomationProofs ---------------------------
(***************************************************************************)
(* For any rules, however they call for each other: the sessions of a      *)
(* request are bounded, what an execution commits is true to itself, and   *)
(* sessions that do not overlap leave the tags of a conversation and of    *)
(* its tickets in step.                                                    *)
(***************************************************************************)
EXTENDS Automation, TLAPS, SequenceTheorems, FiniteSetTheorems

Fields == {"path", "depth", "todo", "kind", "begun", "steps", "records", "seen", "dirty",
           "newTags", "plus", "minus", "made", "ctx", "then", "touched"}

(* A record as _run_automation may leave it. *)
Truthful(r) ==
    LET n == Len(r.steps)
        whole == n = Len(Rule[r.automation].actions)
    IN  \/ /\ r.status = "COMPLETED" /\ whole
           /\ \A i \in 1..n : r.steps[i] = "COMPLETED"
        \/ /\ r.status = "FAILED"
           /\ \/ n = 0 /\ Rule[r.automation].condition.field = "malformed"
              \/ n > 0 /\ r.steps[n] = "FAILED" /\ \A i \in 1..(n-1) : r.steps[i] = "COMPLETED"
        \/ r.status = "SKIPPED" /\ n = 0

SessionOK(f) ==
    /\ DOMAIN f = Fields
    /\ f.depth \in Nat
    /\ f.steps \in Seq({"COMPLETED"})
    /\ \A r \in f.records : Truthful(r)

(* Sessions above the lowest are handlers, one level deeper each. *)
IsSeq(s) == s \in Seq({s[i] : i \in DOMAIN s})
StackOK(s) ==
    /\ IsSeq(s)
    /\ \A i \in 1..Len(s) :
          /\ SessionOK(s[i])
          /\ i <= s[i].depth + 2
          /\ i > 1 => s[i].depth < MaxExecutionDepth

(* What the running session is about to write is what it will be. *)
PendingOK(r, s) ==
    r = NoResult \/
        LET f == s[Len(s)]
        IN  /\ s # <<>>
            /\ f.kind # "transaction" /\ (f.kind = "handler" => f.todo # <<>>)
            /\ SessionOK(r.to) /\ r.to.depth = f.depth

EngineInv ==
    /\ DOMAIN stack = Publishers /\ DOMAIN pending = Publishers
    /\ \A p \in Publishers :
          /\ StackOK(stack[p]) /\ PendingOK(pending[p], stack[p])
          /\ p \notin published => stack[p] = <<>>
    /\ \A r \in records : Truthful(r)

-----------------------------------------------------------------------------
(* The sessions at work, and what becomes of the running one. *)
Work == UNION {{stack[p][i] : i \in Open(p)} : p \in Publishers}
Results == {pending[p].to : p \in {q \in Publishers : pending[q] # NoResult}}

Quiet(f) == f.newTags = {} /\ f.plus = {} /\ f.minus = {} /\ f.made = {}

(* Only one session has touched tags or tickets. *)
Alone ==
    /\ \A p, q \in Publishers : Touched(p) /\ Touched(q) => p = q
    /\ \A p \in Publishers : \A i, j \in Open(p) :
          stack[p][i].touched /\ stack[p][j].touched => i = j
    /\ \A p \in Publishers : \A i \in Open(p) :
          pending[p] # NoResult /\ pending[p].to.touched /\ stack[p][i].touched => i = Len(stack[p])

(* The tags and tickets a session sees. *)
Owned(held, linked) == \A t, n : <<t, n>> \in linked => t \in {"conversation"} \cup held
InStep(held, linked) ==
    /\ \A t \in held : \A n \in Tags : <<t, n>> \in linked <=> <<"conversation", n>> \in linked
    /\ Owned(held, linked)
    /\ \A t, u \in held \ {Manual} : t = u
Sees(f) ==
    /\ f.minus \subseteq links /\ Owned(tickets, links)
    /\ InStep(SeenTickets(f), SeenLinks(f))

StepInv ==
    /\ \A f \in Work \cup Results : ~f.touched => Quiet(f)
    /\ ~overlapped => /\ Alone
                      /\ InStep(tickets, links)
                      /\ \A f \in Work \cup Results : Sees(f)

-----------------------------------------------------------------------------
(* The action handlers *)

(* g is f, a few actions' changes later. *)
Kin(g, f) ==
    /\ DOMAIN g = Fields
    /\ g.depth = f.depth /\ g.steps = f.steps /\ g.records = f.records
    /\ g.todo = f.todo /\ g.kind = f.kind
Unmoved(g, f) ==
    /\ g.newTags = f.newTags /\ g.plus = f.plus /\ g.minus = f.minus /\ g.made = f.made
    /\ g.touched = f.touched
Moves(g, f) ==
    /\ Kin(g, f)
    /\ Unmoved(g, f) \/ (g.touched /\ (Sees(f) => Sees(g)))

LEMMA UnmovedSees ==
    ASSUME NEW f, NEW g, Unmoved(g, f), Sees(f)
    PROVE  Sees(g)
BY DEF Unmoved, Sees, SeenTickets, SeenLinks

LEMMA MovesOn ==
    ASSUME NEW f, NEW g, NEW h, Moves(g, f), Moves(h, g)
    PROVE  Moves(h, f)
<1>1. Kin(h, f)
  BY DEF Moves, Kin
<1>2. CASE Unmoved(g, f) /\ Unmoved(h, g)
  BY <1>1, <1>2 DEF Moves, Unmoved
<1>3. CASE ~Unmoved(h, g)
  <2>1. Sees(f) => Sees(g)
    BY UnmovedSees DEF Moves
  <2>. QED
    BY <1>1, <1>3, <2>1 DEF Moves
<1>4. CASE ~Unmoved(g, f) /\ Unmoved(h, g)
  <2>1. h.touched
    BY <1>4 DEF Moves, Unmoved
  <2>2. Sees(g) => Sees(h)
    BY <1>4, UnmovedSees
  <2>. QED
    BY <1>1, <1>4, <2>1, <2>2 DEF Moves
<1>. QED
  BY <1>2, <1>3, <1>4

LEMMA StaysPut ==
    ASSUME NEW f, DOMAIN f = Fields
    PROVE  Moves(f, f)
BY DEF Moves, Kin, Unmoved

LEMMA ChangeMoves ==
    ASSUME NEW f, DOMAIN f = Fields, NEW c, NEW v
    PROVE  Moves(Change(f, c, v), f) /\ Unmoved(Change(f, c, v), f)
<1>. DEFINE seen == [f.seen EXCEPT ![c] = v]
            g == [f EXCEPT !.seen = seen, !.dirty = @ \cup {c}]
<1>1. Change(f, c, v) = f \/ Change(f, c, v) = g
  BY DEF Change
<1>. HIDE DEF seen
<1>2. DOMAIN g = Fields
  OBVIOUS
<1>3. Kin(g, f) /\ Unmoved(g, f)
  BY <1>2 DEF Kin, Unmoved, Fields
<1>. QED
  BY <1>1, <1>3, StaysPut DEF Moves, Unmoved

LEMMA TaggedMoves ==
    ASSUME NEW f, DOMAIN f = Fields, NEW n
    PROVE  Moves(Tagged(f, n, {"conversation"} \cup SeenTickets(f)), f)
<1>. DEFINE targets == {"conversation"} \cup SeenTickets(f)
            g == Tagged(f, n, targets)
            new == (targets \X {n}) \ SeenLinks(f)
<1>1. /\ Kin(g, f) /\ g.touched
      /\ g.plus = f.plus \cup new /\ g.minus = f.minus \ new /\ g.made = f.made
  BY DEF Tagged, Kin, Fields
<1>. HIDE DEF g
<1>2. ASSUME Sees(f) PROVE Sees(g)
  <2>1. g.minus \subseteq links
    BY <1>1, <1>2 DEF Sees
  <2>. Owned(tickets, links)
    BY <1>2 DEF Sees
  <2>2. SeenTickets(g) = SeenTickets(f)
    BY <1>1 DEF SeenTickets
  <2>3. SeenLinks(g) = SeenLinks(f) \cup (targets \X {n})
    BY <1>1 DEF SeenLinks
  <2>4. \A t, m : <<t, m>> \in targets \X {n} <=> t \in targets /\ m = n
    OBVIOUS
  <2>5. InStep(SeenTickets(f), SeenLinks(f))
    BY <1>2 DEF Sees
  <2>. HIDE DEF new
  <2>6. InStep(SeenTickets(g), SeenLinks(g))
    BY <2>2, <2>3, <2>4, <2>5 DEF InStep, Owned
  <2>. QED
    BY <2>1, <2>6 DEF Sees
<1>. QED
  BY <1>1, <1>2 DEF Moves, g

LEMMA UntaggedMoves ==
    ASSUME NEW f, DOMAIN f = Fields, NEW n
    PROVE  Moves(Untagged(f, n, {"conversation"} \cup SeenTickets(f)), f)
<1>. DEFINE targets == {"conversation"} \cup SeenTickets(f)
            g == Untagged(f, n, targets)
            gone == SeenLinks(f) \cap (targets \X {n})
<1>1. /\ Kin(g, f) /\ g.touched
      /\ g.plus = f.plus \ gone /\ g.minus = f.minus \cup (gone \cap links) /\ g.made = f.made
  BY DEF Untagged, Kin, Fields
<1>. HIDE DEF g
<1>2. ASSUME Sees(f) PROVE Sees(g)
  <2>1. g.minus \subseteq links
    BY <1>1, <1>2 DEF Sees
  <2>. Owned(tickets, links)
    BY <1>2 DEF Sees
  <2>2. SeenTickets(g) = SeenTickets(f)
    BY <1>1 DEF SeenTickets
  <2>3. SeenLinks(g) = SeenLinks(f) \ (targets \X {n})
    BY <1>1 DEF SeenLinks
  <2>4. \A t, m : <<t, m>> \in targets \X {n} <=> t \in targets /\ m = n
    OBVIOUS
  <2>5. InStep(SeenTickets(f), SeenLinks(f))
    BY <1>2 DEF Sees
  <2>. HIDE DEF gone
  <2>6. InStep(SeenTickets(g), SeenLinks(g))
    BY <2>2, <2>3, <2>4, <2>5 DEF InStep, Owned
  <2>. QED
    BY <2>1, <2>6 DEF Sees
<1>. QED
  BY <1>1, <1>2 DEF Moves, g

(* A ticket is only made where there is none of the automation's; whatever   *)
(* its id, it has the conversation's tags.                                   *)
LEMMA NewTicketMoves ==
    ASSUME NEW f, DOMAIN f = Fields, SeenTickets(f) \ {Manual} = {}
    PROVE  Moves(NewTicket(f, {n \in Tags : <<"conversation", n>> \in SeenLinks(f)}), f)
<1>. DEFINE inherited == {n \in Tags : <<"conversation", n>> \in SeenLinks(f)}
            t == CHOOSE x \in FreeTickets : TRUE
            g == NewTicket(f, inherited)
<1>. HIDE DEF t
<1>1. /\ Kin(g, f) /\ g.touched
      /\ g.plus = f.plus \cup ({t} \X inherited) /\ g.minus = f.minus /\ g.made = f.made \cup {t}
  BY DEF NewTicket, Kin, Fields, t
<1>. HIDE DEF g
<1>2. ASSUME Sees(f) PROVE Sees(g)
  <2>1. g.minus \subseteq links /\ InStep(SeenTickets(f), SeenLinks(f))
    BY <1>1, <1>2 DEF Sees
  <2>. Owned(tickets, links)
    BY <1>2 DEF Sees
  <2>2. SeenTickets(g) = SeenTickets(f) \cup {t}
    BY <1>1 DEF SeenTickets
  <2>3. \A x, n : <<x, n>> \in {t} \X inherited <=> x = t /\ n \in inherited
    OBVIOUS
  <2>4. ASSUME NEW n \in inherited PROVE <<t, n>> \notin f.minus
    <3>1. SUFFICES ASSUME <<t, n>> \in f.minus PROVE FALSE
      OBVIOUS
    <3>2. t \in {"conversation"} \cup tickets
      BY <1>1, <2>1, <3>1 DEF Owned
    <3>3. <<t, n>> \in SeenLinks(f)
      BY <2>1, <3>2 DEF InStep, SeenTickets
    <3>. QED
      BY <3>1, <3>3 DEF SeenLinks
  <2>5. \A x, n : <<x, n>> \in SeenLinks(g) <=>
          <<x, n>> \in SeenLinks(f) \/ (x = t /\ n \in inherited)
    BY <1>1, <2>3, <2>4 DEF SeenLinks
  <2>6. InStep(SeenTickets(g), SeenLinks(g))
    BY <2>1, <2>2, <2>5 DEF InStep, Owned
  <2>. QED
    BY <2>1, <2>6 DEF Sees
<1>. QED
  BY <1>1, <1>2 DEF Moves, g

Outcomes == {"done", "publishes", "raised", "broken"}
Result(r, f) == r.how \in Outcomes /\ Moves(r.to, f)

LEMMA ResultFrom ==
    ASSUME NEW f, NEW g, NEW r, Moves(g, f), Result(r, g)
    PROVE  Result(r, f)
BY MovesOn DEF Result

LEMMA SetColumnResult ==
    ASSUME NEW f, DOMAIN f = Fields, NEW c, NEW v, NEW r \in SetColumn(f, c, v)
    PROVE  Result(r, f)
BY ChangeMoves, StaysPut DEF SetColumn, Result, Outcomes, Done

LEMMA TeamedResult ==
    ASSUME NEW f, DOMAIN f = Fields, NEW team, NEW r \in Teamed(f, team)
    PROVE  Result(r, f)
<1>. DEFINE g == Change(f, "team", team)
<1>1. Moves(g, f)
  BY ChangeMoves
<1>2. DOMAIN g = Fields
  BY <1>1 DEF Moves, Kin
<1>. HIDE DEF g
<1>3. Moves(Change(g, "user", "agent"), f)
  BY <1>1, <1>2, ChangeMoves, MovesOn
<1>. QED
  BY <1>1, <1>3 DEF Teamed, Publishes, Result, Outcomes, g

LEMMA AssignTeamResult ==
    ASSUME NEW f, DOMAIN f = Fields, NEW a, NEW r \in AssignTeam(f, a)
    PROVE  Result(r, f)
BY TeamedResult, StaysPut DEF AssignTeam, Done, Result, Outcomes

LEMMA SetPriorityResult ==
    ASSUME NEW f, DOMAIN f = Fields, NEW a, NEW r \in SetPriority(f, a)
    PROVE  Result(r, f)
<1>1. PICK q \in SetColumn(f, "priority", a.value) :
         r = IF f.seen = NoConversation THEN q ELSE [q EXCEPT !.to.ctx.priority = q.to.seen.priority]
  BY DEF SetPriority
<1>2. Result(q, f)
  BY SetColumnResult
<1>3. \E g, how : q = [to |-> g, how |-> how]
  BY DEF SetColumn, Done
<1>4. PICK g, how : q = [to |-> g, how |-> how]
  BY <1>3
<1>. DEFINE ctx == [g.ctx EXCEPT !.priority = g.seen.priority]
            h == [g EXCEPT !.ctx = ctx]
<1>5. r = q \/ r = [to |-> h, how |-> how]
  BY <1>1, <1>4
<1>. HIDE DEF ctx
<1>6. Moves(h, g)
  <2>1. DOMAIN g = Fields
    BY <1>2, <1>4 DEF Result, Moves, Kin
  <2>. QED
    BY <2>1 DEF Moves, Kin, Unmoved, Fields
<1>. HIDE DEF h
<1>7. Moves(g, f) /\ how \in Outcomes
  BY <1>2, <1>4 DEF Result
<1>. QED
  BY <1>2, <1>5, <1>6, <1>7, MovesOn DEF Result

LEMMA TagResult ==
    ASSUME NEW f, DOMAIN f = Fields, NEW a, NEW r \in AddTag(f, a) \cup RemoveTag(f, a)
    PROVE  Result(r, f)
BY TaggedMoves, UntaggedMoves DEF AddTag, RemoveTag, Done, Result, Outcomes

LEMMA AssignUserResult ==
    ASSUME NEW f, DOMAIN f = Fields, NEW a, NEW r \in AssignUser(f, a)
    PROVE  Result(r, f)
BY ChangeMoves, StaysPut DEF AssignUser, Done, Publishes, Result, Outcomes

LEMMA RoundRobinResult ==
    ASSUME NEW f, DOMAIN f = Fields, NEW a, NEW r \in AssignRoundRobin(f, a)
    PROVE  Result(r, f)
<1>. DEFINE g == Change(f, "user", "agent")
            h == [g EXCEPT !.then = a.team]
<1>1. Moves(g, f)
  BY ChangeMoves
<1>2. DOMAIN g = Fields
  BY <1>1 DEF Moves, Kin
<1>. HIDE DEF g
<1>3. Moves(h, g)
  BY <1>2 DEF Moves, Kin, Unmoved, Fields
<1>4. Moves(h, f)
  BY <1>1, <1>3, MovesOn
<1>. HIDE DEF h
<1>5. \/ r = Done(f) \/ r = Publishes(Change(f, "team", a.team))
      \/ r = Done(Change(f, "team", a.team)) \/ r = Publishes(h)
  BY DEF AssignRoundRobin, h, g
<1>. QED
  BY <1>4, <1>5, ChangeMoves, StaysPut DEF Done, Publishes, Result, Outcomes

LEMMA EscalateResult ==
    ASSUME NEW f, DOMAIN f = Fields, NEW a, NEW r \in EscalateToHuman(f, a)
    PROVE  Result(r, f)
<1>1. CASE r = Done(f)
  BY <1>1, StaysPut DEF Done, Result, Outcomes
<1>2. ASSUME NEW q \in DisableAI(f, a), r \in AssignTeam(q.to, a)
      PROVE  Result(r, f)
  <2>1. Moves(q.to, f)
    BY SetColumnResult DEF DisableAI, Result
  <2>2. Result(r, q.to)
    BY <1>2, <2>1, AssignTeamResult DEF Moves, Kin
  <2>. QED
    BY <2>1, <2>2, ResultFrom
<1>. QED
  BY <1>1, <1>2 DEF EscalateToHuman

LEMMA CreateTicketResult ==
    ASSUME NEW f, DOMAIN f = Fields, NEW a, NEW r \in CreateTicket(f, a)
    PROVE  Result(r, f)
<1>. DEFINE g == NewTicket(f, {n \in Tags : <<"conversation", n>> \in SeenLinks(f)})
<1>1. CASE SeenTickets(f) \ {Manual} # {}
  <2>. DEFINE h == [f EXCEPT !.touched = TRUE]
  <2>1. r = Done(h)
    BY <1>1 DEF CreateTicket
  <2>2. Kin(h, f) /\ h.touched /\ h.plus = f.plus /\ h.minus = f.minus /\ h.made = f.made
    BY DEF Kin, Fields
  <2>. HIDE DEF h
  <2>3. Moves(h, f)
    BY <2>2 DEF Moves, Sees, SeenTickets, SeenLinks
  <2>. QED
    BY <2>1, <2>3 DEF Done, Result, Outcomes
<1>2. CASE ~(SeenTickets(f) \ {Manual} # {})
  <2>1. Moves(g, f)
    BY <1>2, NewTicketMoves
  <2>2. DOMAIN g = Fields
    BY <2>1 DEF Moves, Kin
  <2>. HIDE DEF g
  <2>3. r = [to |-> f, how |-> "broken"] \/ r = Done(g) \/ r \in Teamed(g, f.ctx.team)
    BY <1>2 DEF CreateTicket, g
  <2>4. r \in Teamed(g, f.ctx.team) => Result(r, f)
    BY <2>1, <2>2, TeamedResult, ResultFrom
  <2>. QED
    BY <2>1, <2>3, <2>4, StaysPut DEF Done, Result, Outcomes
<1>. QED
  BY <1>1, <1>2

(* No action touches the session's depth, its records or its queue, and none *)
(* leaves the tags it sees out of step.                                      *)
LEMMA ActionResult ==
    ASSUME NEW f, DOMAIN f = Fields, NEW a, NEW r \in ExecuteAction(f, a)
    PROVE  Result(r, f)
<1>1. \/ r \in SetPriority(f, a) \/ r \in SetConversationStatus(f, a)
      \/ r \in EnableAI(f, a) \/ r \in DisableAI(f, a)
      \/ r \in AddTag(f, a) \cup RemoveTag(f, a)
      \/ r \in CreateTicket(f, a) \/ r \in AssignTeam(f, a)
      \/ r \in AssignUser(f, a) \/ r \in AssignRoundRobin(f, a)
      \/ r \in EscalateToHuman(f, a)
      \/ r = Done(f) \/ r = [to |-> f, how |-> "raised"]
  BY DEF ExecuteAction, Notify
<1>2. r \in SetConversationStatus(f, a) \/ r \in EnableAI(f, a) \/ r \in DisableAI(f, a) => Result(r, f)
  BY SetColumnResult DEF SetConversationStatus, EnableAI, DisableAI
<1>3. r = Done(f) \/ r = [to |-> f, how |-> "raised"] => Result(r, f)
  BY StaysPut DEF Done, Result, Outcomes
<1>. QED
  BY <1>1, <1>2, <1>3, SetPriorityResult, TagResult, CreateTicketResult, AssignTeamResult,
     AssignUserResult, RoundRobinResult, EscalateResult

-----------------------------------------------------------------------------
(* _run_automation: what a step makes of the session *)

(* g goes on from f: one step or one execution further. *)
Goes(g, f) ==
    /\ SessionOK(g) /\ g.depth = f.depth /\ g.kind = f.kind
    /\ Unmoved(g, f)

LEMMA EndedGoes ==
    ASSUME NEW f, SessionOK(f), NEW status, NEW steps, Truthful(Record(f, status, steps))
    PROVE  Goes(Ended(f, status, steps), f)
<1>. DEFINE g == Ended(f, status, steps)
            r == Record(f, status, steps)
<1>. HIDE DEF r
<1>1. /\ DOMAIN g = Fields /\ g.steps = <<>>
      /\ g.records = f.records \cup {r}
      /\ g.depth = f.depth /\ g.kind = f.kind /\ Unmoved(g, f)
  BY DEF Ended, SessionOK, Fields, Unmoved, r
<1>2. Truthful(r)
  BY DEF r
<1>. HIDE DEF g
<1>3. <<>> \in Seq({"COMPLETED"})
  OBVIOUS
<1>. QED
  BY <1>1, <1>2, <1>3 DEF Goes, SessionOK, g

LEMMA StepDoneGoes ==
    ASSUME NEW f, SessionOK(f)
    PROVE  Goes(StepDone(f), f)
<1>. DEFINE steps == Append(f.steps, "COMPLETED")
<1>1. steps \in Seq({"COMPLETED"})
  BY DEF SessionOK
<1>. HIDE DEF steps
<1>2. Len(steps) \in Nat /\ \A i \in 1..Len(steps) : steps[i] = "COMPLETED"
  BY <1>1, LenProperties, ElementOfSeq
<1>3. CASE Len(steps) = Len(Actions(f))
  <2>1. Truthful(Record(f, "COMPLETED", steps))
    BY <1>2, <1>3 DEF Truthful, Record, Actions
  <2>2. StepDone(f) = Ended(f, "COMPLETED", steps)
    BY <1>3 DEF StepDone, steps
  <2>. QED
    BY <2>1, <2>2, EndedGoes
<1>4. CASE Len(steps) # Len(Actions(f))
  <2>1. StepDone(f) = [f EXCEPT !.steps = steps]
    BY <1>4 DEF StepDone, steps
  <2>. DEFINE g == [f EXCEPT !.steps = steps]
  <2>2. /\ DOMAIN g = Fields /\ g.steps = steps /\ g.records = f.records
        /\ g.depth = f.depth /\ g.kind = f.kind /\ Unmoved(g, f)
    BY DEF SessionOK, Fields, Unmoved
  <2>. HIDE DEF g
  <2>3. Goes(g, f)
    BY <1>1, <2>2 DEF Goes, SessionOK
  <2>. QED
    BY <2>1, <2>3 DEF g
<1>. QED
  BY <1>3, <1>4

(* A failed step is the record's last, after steps that were all done. *)
LEMMA StepFailedGoes ==
    ASSUME NEW f, SessionOK(f)
    PROVE  Goes(StepFailed(f), f)
<1>. DEFINE steps == Append(f.steps, "FAILED")
            n == Len(f.steps)
<1>1. n \in Nat /\ \A i \in 1..n : f.steps[i] = "COMPLETED"
  BY LenProperties, ElementOfSeq DEF SessionOK
<1>2. Len(steps) = n + 1 /\ steps[n + 1] = "FAILED" /\ \A i \in 1..n : steps[i] = f.steps[i]
  <2>1. f.steps \in Seq({"COMPLETED", "FAILED"})
    BY SeqMonotonic DEF SessionOK
  <2>. QED
    BY <2>1, AppendProperties
<1>. HIDE DEF steps, n
<1>3. Truthful(Record(f, "FAILED", steps))
  BY <1>1, <1>2 DEF Truthful, Record
<1>. QED
  BY <1>3, EndedGoes DEF StepFailed, steps

-----------------------------------------------------------------------------
(* Stacks *)

LEMMA ReplaceStack ==
    ASSUME NEW s, StackOK(s), s # <<>>, NEW f, SessionOK(f), f.depth = s[Len(s)].depth
    PROVE  /\ StackOK(Replace(s, f)) /\ Replace(s, f) # <<>>
           /\ Len(Replace(s, f)) = Len(s) /\ Replace(s, f)[Len(s)] = f
           /\ \A i \in 1..Len(s) - 1 : Replace(s, f)[i] = s[i]
<1>. DEFINE S == {s[i] : i \in DOMAIN s} \cup {f}
            t == Replace(s, f)
<1>1. s \in Seq(S)
  BY SeqMonotonic DEF StackOK, IsSeq
<1>2. Len(s) \in Nat \ {0} /\ Len(s) \in 1..Len(s)
  BY <1>1, EmptySeq
<1>3. /\ t \in Seq(S) /\ Len(t) = Len(s)
      /\ \A j \in 1..Len(s) : t[j] = IF j = Len(s) THEN f ELSE s[j]
  BY <1>1, <1>2, ExceptSeq DEF Replace
<1>. HIDE DEF t
<1>4. t \in Seq({t[i] : i \in DOMAIN t})
  <2>1. DOMAIN t = 1..Len(t) /\ Len(t) \in Nat /\ t \in [1..Len(t) -> S]
    BY <1>3, LenProperties
  <2>2. t \in [1..Len(t) -> {t[i] : i \in DOMAIN t}]
    BY <2>1
  <2>. QED
    BY <2>1, <2>2
<1>5. t # <<>>
  BY <1>2, <1>3
<1>6. StackOK(t)
  <2>. SUFFICES ASSUME NEW i \in 1..Len(t)
                PROVE  /\ SessionOK(t[i]) /\ i <= t[i].depth + 2
                       /\ i > 1 => t[i].depth < MaxExecutionDepth
    BY <1>4 DEF StackOK, IsSeq
  <2>1. i \in 1..Len(s) /\ t[i] = IF i = Len(s) THEN f ELSE s[i]
    BY <1>3
  <2>2. /\ SessionOK(s[i]) /\ i <= s[i].depth + 2
        /\ i > 1 => s[i].depth < MaxExecutionDepth
    BY <2>1 DEF StackOK
  <2>. QED
    BY <2>1, <2>2
<1>7. t[Len(s)] = f /\ \A i \in 1..Len(s) - 1 : t[i] = s[i]
  BY <1>2, <1>3
<1>. QED
  BY <1>3, <1>5, <1>6, <1>7 DEF t

LEMMA PopStack ==
    ASSUME NEW s, StackOK(s), s # <<>>
    PROVE  /\ StackOK(Pop(s)) /\ Len(Pop(s)) = Len(s) - 1
           /\ \A i \in 1..Len(s) - 1 : Pop(s)[i] = s[i]
<1>. DEFINE S == {s[i] : i \in DOMAIN s}
            t == Pop(s)
            n == Len(s) - 1
<1>1. s \in Seq(S)
  BY DEF StackOK, IsSeq
<1>2. Len(s) \in Nat \ {0} /\ n \in Nat /\ DOMAIN s = 1..Len(s)
  BY <1>1, EmptySeq, LenProperties
<1>. HIDE DEF S
<1>3. /\ t \in Seq(S) /\ Len(t) = n
      /\ \A i \in 1..n : t[i] = s[i]
  <2>1. \A i \in 1..n : s[i] \in S
    BY <1>1, <1>2, ElementOfSeq
  <2>. HIDE DEF n
  <2>2. t = SubSeq(s, 1, n)
    BY DEF Pop, n
  <2>3. n - 1 + 1 = n /\ (1 <= n => n - 1 + 1 = n) /\ (~(1 <= n) => n = 0) /\ 1 \in Int /\ n \in Int
    BY <1>2 DEF n
  <2>4. \A i \in 1..n : 1 + i - 1 = i
    BY <1>2 DEF n
  <2>. QED
    BY <2>1, <2>2, <2>3, <2>4, SubSeqProperties
<1>. HIDE DEF t
<1>4. t \in Seq({t[i] : i \in DOMAIN t})
  <2>1. DOMAIN t = 1..Len(t) /\ Len(t) \in Nat /\ t \in [1..Len(t) -> S]
    BY <1>3, LenProperties
  <2>2. t \in [1..Len(t) -> {t[i] : i \in DOMAIN t}]
    BY <2>1
  <2>. QED
    BY <2>1, <2>2
<1>5. StackOK(t)
  <2>. SUFFICES ASSUME NEW i \in 1..Len(t)
                PROVE  /\ SessionOK(t[i]) /\ i <= t[i].depth + 2
                       /\ i > 1 => t[i].depth < MaxExecutionDepth
    BY <1>4 DEF StackOK, IsSeq
  <2>1. i \in 1..Len(s) /\ t[i] = s[i]
    BY <1>2, <1>3
  <2>. QED
    BY <2>1 DEF StackOK
<1>. QED
  BY <1>3, <1>5 DEF t

LEMMA PushStack ==
    ASSUME NEW s, StackOK(s), NEW f, SessionOK(f), Len(s) <= f.depth + 1, f.depth < MaxExecutionDepth
    PROVE  /\ StackOK(s \o <<f>>) /\ Len(s \o <<f>>) = Len(s) + 1
           /\ (s \o <<f>>)[Len(s) + 1] = f
           /\ \A i \in 1..Len(s) : (s \o <<f>>)[i] = s[i]
<1>. DEFINE S == {s[i] : i \in DOMAIN s} \cup {f}
            t == s \o <<f>>
<1>1. s \in Seq(S)
  BY SeqMonotonic DEF StackOK, IsSeq
<1>2. Len(s) \in Nat /\ <<f>> \in Seq(S) /\ Len(<<f>>) = 1 /\ <<f>>[1] = f
  BY <1>1, LenProperties
<1>3. /\ t \in Seq(S) /\ Len(t) = Len(s) + 1
      /\ \A i \in 1..Len(s) + 1 : t[i] = IF i <= Len(s) THEN s[i] ELSE <<f>>[i - Len(s)]
  BY <1>1, <1>2, ConcatProperties
<1>4. t[Len(s) + 1] = f /\ \A i \in 1..Len(s) : t[i] = s[i]
  BY <1>2, <1>3
<1>. HIDE DEF t
<1>5. t \in Seq({t[i] : i \in DOMAIN t})
  <2>1. DOMAIN t = 1..Len(t) /\ Len(t) \in Nat /\ t \in [1..Len(t) -> S]
    BY <1>3, LenProperties
  <2>2. t \in [1..Len(t) -> {t[i] : i \in DOMAIN t}]
    BY <2>1
  <2>. QED
    BY <2>1, <2>2
<1>6. \A i \in 1..Len(t) : i \in 1..Len(s) \/ i = Len(s) + 1
  BY <1>2, <1>3
<1>7. f.depth \in Nat
  BY DEF SessionOK
<1>8. Len(s) + 1 <= f.depth + 2
  BY <1>2, <1>7
<1>9. StackOK(t)
  <2>. SUFFICES ASSUME NEW i \in 1..Len(t)
                PROVE  /\ SessionOK(t[i]) /\ i <= t[i].depth + 2
                       /\ i > 1 => t[i].depth < MaxExecutionDepth
    BY <1>5 DEF StackOK, IsSeq
  <2>1. CASE i \in 1..Len(s)
    BY <1>4, <2>1 DEF StackOK
  <2>2. CASE i = Len(s) + 1
    BY <1>4, <1>8, <2>2
  <2>. QED
    BY <1>6, <2>1, <2>2
<1>. QED
  BY <1>3, <1>4, <1>9 DEF t

(* A new session, and the handlers of an event: none or one. *)
LEMMA NewSession ==
    ASSUME NEW path, NEW depth \in Nat, NEW todo, NEW seen, NEW kind
    PROVE  LET f == Session(path, depth, todo, seen, kind)
           IN  SessionOK(f) /\ f.depth = depth /\ f.kind = kind /\ ~f.touched /\ Quiet(f)
<1>. DEFINE f == Session(path, depth, todo, seen, kind)
<1>1. /\ DOMAIN f = Fields /\ f.depth = depth /\ f.kind = kind /\ f.steps = <<>> /\ f.records = {}
      /\ ~f.touched /\ Quiet(f)
  BY DEF Session, Fields, Quiet
<1>. HIDE DEF f
<1>2. <<>> \in Seq({"COMPLETED"})
  OBVIOUS
<1>3. SessionOK(f)
  BY <1>1, <1>2 DEF SessionOK
<1>. QED
  BY <1>1, <1>3 DEF f

LEMMA HandlersAre ==
    ASSUME NEW path, NEW event, NEW depth \in Nat
    PROVE  \/ Handlers(path, event, depth) = <<>>
           \/ /\ depth < MaxExecutionDepth
              /\ \E f : /\ Handlers(path, event, depth) = <<f>>
                        /\ SessionOK(f) /\ f.depth = depth /\ ~f.touched /\ Quiet(f)
<1>. DEFINE f == Session(path, depth, Matching(event), conv, "handler")
<1>1. SessionOK(f) /\ f.depth = depth /\ ~f.touched /\ Quiet(f)
  BY NewSession
<1>2. Handlers(path, event, depth) = IF depth >= MaxExecutionDepth THEN <<>> ELSE <<f>>
  BY DEF Handlers
<1>. HIDE DEF f
<1>. QED
  BY <1>1, <1>2 DEF MaxExecutionDepth

(* A stack with the handlers of an event on top. *)
LEMMA HandlersOnTop ==
    ASSUME NEW s, StackOK(s), NEW path, NEW event, NEW depth \in Nat, Len(s) <= depth + 1
    PROVE  LET t == s \o Handlers(path, event, depth)
           IN  /\ StackOK(t)
               /\ \A i \in 1..Len(t) : (i \in 1..Len(s) /\ t[i] = s[i]) \/ (~t[i].touched /\ Quiet(t[i]))
<1>1. s \in Seq({s[i] : i \in DOMAIN s})
  BY DEF StackOK, IsSeq
<1>2. CASE Handlers(path, event, depth) = <<>>
  <2>1. s \o <<>> = s
    BY <1>1, ConcatEmptySeq
  <2>. QED
    BY <1>2, <2>1
<1>3. ASSUME NEW f, depth < MaxExecutionDepth, Handlers(path, event, depth) = <<f>>,
             SessionOK(f), f.depth = depth, ~f.touched, Quiet(f)
      PROVE  LET t == s \o Handlers(path, event, depth)
             IN  /\ StackOK(t)
                 /\ \A i \in 1..Len(t) : (i \in 1..Len(s) /\ t[i] = s[i]) \/ (~t[i].touched /\ Quiet(t[i]))
  <2>. DEFINE t == s \o <<f>>
  <2>1. /\ StackOK(t) /\ Len(t) = Len(s) + 1 /\ t[Len(s) + 1] = f
        /\ \A i \in 1..Len(s) : t[i] = s[i]
    BY <1>3, PushStack
  <2>2. Len(s) \in Nat
    BY <1>1, LenProperties
  <2>. HIDE DEF t
  <2>3. \A i \in 1..Len(t) : (i \in 1..Len(s) /\ t[i] = s[i]) \/ (~t[i].touched /\ Quiet(t[i]))
    BY <1>3, <2>1, <2>2
  <2>. QED
    BY <1>3, <2>1, <2>3 DEF t
<1>. QED
  BY <1>2, <1>3, HandlersAre

(* The session below goes on after publish. *)
LEMMA ResumedStack ==
    ASSUME NEW s, StackOK(s)
    PROVE  /\ StackOK(Resumed(s)) /\ Len(Resumed(s)) = Len(s)
           /\ \A i \in 1..Len(s) : Unmoved(Resumed(s)[i], s[i])
<1>. DEFINE f == s[Len(s)]
            g == Change(f, "team", f.then)
            h == [g EXCEPT !.then = None]
<1>0. Len(s) \in Nat /\ (s # <<>> => Len(s) \in 1..Len(s))
  BY EmptySeq, LenProperties DEF StackOK, IsSeq
<1>1. CASE Resumed(s) = s
  BY <1>1 DEF Unmoved
<1>2. CASE s # <<>> /\ Resumed(s) = Replace(s, h)
  <2>1. SessionOK(f)
    BY <1>0, <1>2 DEF StackOK
  <2>. HIDE DEF f
  <2>2. Moves(g, f) /\ Unmoved(g, f)
    BY <2>1, ChangeMoves DEF SessionOK
  <2>. HIDE DEF g
  <2>3. Kin(h, g) /\ Unmoved(h, g)
    BY <2>2 DEF Moves, Kin, Fields, Unmoved
  <2>. HIDE DEF h
  <2>4. SessionOK(h) /\ h.depth = f.depth /\ Unmoved(h, f)
    BY <2>1, <2>2, <2>3 DEF Moves, Kin, Unmoved, SessionOK
  <2>5. /\ StackOK(Replace(s, h)) /\ Len(Replace(s, h)) = Len(s) /\ Replace(s, h)[Len(s)] = h
        /\ \A i \in 1..Len(s) - 1 : Replace(s, h)[i] = s[i]
    BY <1>2, <2>4, ReplaceStack DEF f
  <2>6. \A i \in 1..Len(s) : i = Len(s) \/ i \in 1..Len(s) - 1
    BY <1>0
  <2>7. \A i \in 1..Len(s) : Unmoved(Replace(s, h)[i], s[i])
    BY <2>4, <2>5, <2>6 DEF f, Unmoved
  <2>. QED
    BY <1>2, <2>5, <2>7
<1>. QED
  BY <1>1, <1>2 DEF Resumed

-----------------------------------------------------------------------------
(* Steps of one publisher *)

(* p's sessions become t and its pending write r; nobody else's change. *)
Turns(p, t, r) ==
    /\ DOMAIN stack' = DOMAIN stack /\ DOMAIN pending' = DOMAIN pending
    /\ stack'[p] = t /\ pending'[p] = r
    /\ \A q \in Publishers \ {p} : stack'[q] = stack[q] /\ pending'[q] = pending[q]

LEMMA EngineTurns ==
    ASSUME EngineInv, NEW p \in Publishers, NEW t, NEW r, Turns(p, t, r),
           StackOK(t), PendingOK(r, t),
           \A x \in records' : Truthful(x),
           published \subseteq published', p \notin published' => t = <<>>
    PROVE  EngineInv'
<1>1. \A q \in Publishers \ {p} :
        /\ StackOK(stack'[q]) /\ PendingOK(pending'[q], stack'[q])
        /\ q \notin published' => stack'[q] = <<>>
  BY DEF EngineInv, Turns
<1>2. StackOK(stack'[p]) /\ PendingOK(pending'[p], stack'[p]) /\ (p \notin published' => stack'[p] = <<>>)
  BY DEF Turns
<1>. QED
  BY <1>1, <1>2 DEF EngineInv, Turns

(* Where the i-th session of p comes from: it is a new one, or what one was  *)
(* or was about to write.                                                    *)
From(g, p, i) ==
    \/ ~g.touched /\ Quiet(g)
    \/ i \in Open(p) /\ Unmoved(g, stack[p][i])
    \/ i = Len(stack[p]) /\ i \in Open(p) /\ pending[p] # NoResult /\ Unmoved(g, pending[p].to)

LEMMA QuietSees ==
    ASSUME NEW f, Quiet(f), InStep(tickets, links)
    PROVE  Sees(f)
BY DEF Quiet, Sees, SeenTickets, SeenLinks, InStep

LEMMA FromQuiet ==
    ASSUME StepInv, NEW p \in Publishers, NEW g, NEW i, From(g, p, i), ~g.touched
    PROVE  Quiet(g)
BY DEF StepInv, From, Work, Results, Unmoved, Quiet

LEMMA FromSees ==
    ASSUME StepInv, ~overlapped, NEW p \in Publishers, NEW g, NEW i, From(g, p, i)
    PROVE  Sees(g)
<1>1. CASE ~g.touched /\ Quiet(g)
  BY <1>1, QuietSees DEF StepInv
<1>2. CASE i \in Open(p) /\ Unmoved(g, stack[p][i])
  <2>1. Sees(stack[p][i])
    BY <1>2 DEF StepInv, Work
  <2>. QED
    BY <1>2, <2>1, UnmovedSees
<1>3. CASE pending[p] # NoResult /\ Unmoved(g, pending[p].to)
  <2>1. Sees(pending[p].to)
    BY <1>3 DEF StepInv, Results
  <2>. QED
    BY <1>3, <2>1, UnmovedSees
<1>. QED
  BY <1>1, <1>2, <1>3 DEF From

LEMMA FromTouched ==
    ASSUME NEW p \in Publishers, NEW g, NEW i, From(g, p, i), g.touched
    PROVE  /\ Touched(p) /\ i \in Open(p)
           /\ \/ stack[p][i].touched
              \/ i = Len(stack[p]) /\ pending[p] # NoResult /\ pending[p].to.touched
BY DEF From, Touched, Unmoved

LEMMA SeesAgain ==
    ASSUME NEW f, Sees(f), UNCHANGED <<links, tickets>>
    PROVE  Sees(f)'
BY DEF Sees, SeenTickets, SeenLinks

(* A step of p that leaves the tables alone, its sessions what they were and *)
(* no pending write but the top's.                                           *)
LEMMA StepTurns ==
    ASSUME StepInv, NEW p \in Publishers, NEW t, NEW r, Turns(p, t, r), Len(t) \in Nat,
           UNCHANGED <<links, tickets, overlapped>>,
           \A i \in 1..Len(t) : From(t[i], p, i),
           r = NoResult \/ (Len(t) > 0 /\ Unmoved(r.to, t[Len(t)]))
    PROVE  StepInv'
<1>1. ASSUME NEW f \in Work' \cup Results'
      PROVE  \/ f \in Work \cup Results
             \/ \E i \in 1..Len(t) : From(f, p, i)
  <2>1. CASE f \in Work'
    <3>1. PICK q \in Publishers : \E i \in Open(q)' : f = stack'[q][i]
      BY <2>1 DEF Work
    <3>2. CASE q = p
      BY <3>1, <3>2 DEF Open, Turns
    <3>3. CASE q # p
      BY <3>1, <3>3 DEF Open, Turns, Work
    <3>. QED
      BY <3>2, <3>3
  <2>2. CASE f \in Results'
    <3>1. PICK q \in Publishers : pending'[q] # NoResult /\ f = pending'[q].to
      BY <2>2 DEF Results, NoResult
    <3>2. CASE q = p
      <4>1. Len(t) \in 1..Len(t) /\ Unmoved(f, t[Len(t)])
        BY <3>1, <3>2 DEF Turns
      <4>2. From(f, p, Len(t))
        BY <4>1 DEF From, Unmoved, Quiet
      <4>. QED
        BY <4>1, <4>2
    <3>3. CASE q # p
      BY <3>1, <3>3 DEF Turns, Results
    <3>. QED
      BY <3>2, <3>3
  <2>. QED
    BY <2>1, <2>2
<1>2. ASSUME NEW f \in Work' \cup Results', ~f.touched
      PROVE  Quiet(f)
  BY <1>1, <1>2, FromQuiet DEF StepInv
<1>3. ASSUME NEW f \in Work' \cup Results', ~overlapped
      PROVE  Sees(f)'
  <2>1. Sees(f)
    BY <1>1, <1>3, FromSees DEF StepInv
  <2>. QED
    BY <2>1, SeesAgain
<1>4. ASSUME ~overlapped PROVE InStep(tickets, links)'
  BY <1>4 DEF StepInv, InStep, Owned
<1>5. ASSUME ~overlapped PROVE Alone'
  <2>1. \A q \in Publishers : Touched(q)' => Touched(q)
    <3>1. \A q \in Publishers \ {p} : Touched(q)' => Touched(q)
      BY DEF Touched, Open, Turns
    <3>2. Touched(p)' => Touched(p)
      <4>1. ASSUME NEW i \in 1..Len(t), t[i].touched PROVE Touched(p)
        BY <4>1, FromTouched
      <4>2. CASE r # NoResult /\ r.to.touched
        <5>1. Len(t) \in 1..Len(t) /\ t[Len(t)].touched
          <6>1. Len(t) \in 1..Len(t) /\ Unmoved(r.to, t[Len(t)])
            BY <4>2
          <6>. QED
            BY <4>2, <6>1, Zenon DEF Unmoved
        <5>. QED
          BY <4>1, <5>1
      <4>. QED
        BY <4>1, <4>2 DEF Touched, Open, Turns
    <3>. QED
      BY <3>1, <3>2
  <2>2. Alone
    BY <1>5 DEF StepInv
  <2>3. ASSUME NEW i \in 1..Len(t), NEW j \in 1..Len(t), t[i].touched, t[j].touched
        PROVE  i = j
    BY <2>2, <2>3, FromTouched DEF Alone, Open
  <2>4. ASSUME NEW i \in 1..Len(t), r # NoResult, r.to.touched, t[i].touched
        PROVE  i = Len(t)
    <3>1. Len(t) \in 1..Len(t) /\ t[Len(t)].touched
      <4>1. Len(t) \in 1..Len(t) /\ Unmoved(r.to, t[Len(t)])
        BY <2>4
      <4>. QED
        BY <2>4, <4>1, Zenon DEF Unmoved
    <3>. QED
      BY <2>3, <2>4, <3>1
  <2>. QED
    BY <2>1, <2>2, <2>3, <2>4 DEF Alone, Open, Turns
<1>. QED
  BY <1>2, <1>3, <1>4, <1>5 DEF StepInv, Quiet

(* A step that makes g of p's running session, at once or as its pending     *)
(* write; where g has touched tags or tickets and the sessions count as      *)
(* apart, nobody else has.                                                   *)
Lone(p) ==
    /\ \A q \in Publishers \ {p} : ~Touched(q)
    /\ \A i \in 1..Len(stack[p]) - 1 : ~stack[p][i].touched

LEMMA StepMoves ==
    ASSUME StepInv, NEW p \in Publishers, NEW t, NEW r, Turns(p, t, r),
           UNCHANGED <<links, tickets>>, pending[p] = NoResult,
           Len(stack[p]) \in Nat \ {0}, Len(t) = Len(stack[p]),
           \A i \in 1..Len(t) - 1 : t[i] = stack[p][i],
           NEW g, Moves(g, Top(p)),
           \/ r = NoResult /\ Unmoved(t[Len(t)], g)
           \/ r # NoResult /\ r.to = g /\ t[Len(t)] = Top(p),
           ~overlapped' => ~overlapped /\ (g.touched => Lone(p))
    PROVE  StepInv'
<1>. DEFINE n == Len(t)
            f == Top(p)
<1>1. /\ n \in 1..n /\ n \in Open(p) /\ f = stack[p][n] /\ f \in Work
      /\ \A i \in 1..n : i = n \/ i \in 1..n - 1
      /\ 1..n - 1 \subseteq Open(p) /\ 1..n - 1 = 1..Len(stack[p]) - 1 /\ Open(p)' = 1..n /\ Open(p) = 1..n
  BY DEF Top, Open, Work, Turns
<1>. HIDE DEF f, n
<1>2. ~g.touched => Unmoved(g, f)
  BY DEF Moves, f
<1>3. ASSUME NEW h \in Work' \cup Results'
      PROVE  h \in Work \cup Results \/ Unmoved(h, g)
  <2>1. CASE h \in Work'
    <3>1. PICK q \in Publishers : \E i \in Open(q)' : h = stack'[q][i]
      BY <2>1 DEF Work
    <3>2. CASE q # p
      BY <3>1, <3>2 DEF Open, Turns, Work
    <3>3. ASSUME q = p, NEW i \in 1..n, h = t[i]
          PROVE  h \in Work \/ Unmoved(h, g)
      <4>1. CASE i \in 1..n - 1
        BY <1>1, <3>3, <4>1 DEF Work, n
      <4>2. CASE i = n
        BY <1>1, <3>3, <4>2 DEF n, f
      <4>. QED
        BY <1>1, <4>1, <4>2
    <3>. QED
      BY <1>1, <3>1, <3>2, <3>3 DEF Turns
  <2>2. CASE h \in Results'
    <3>1. PICK q \in Publishers : pending'[q] # NoResult /\ h = pending'[q].to
      BY <2>2 DEF Results, NoResult
    <3>2. CASE q = p
      BY <3>1, <3>2 DEF Turns, Unmoved
    <3>3. CASE q # p
      BY <3>1, <3>3 DEF Turns, Results
    <3>. QED
      BY <3>2, <3>3
  <2>. QED
    BY <2>1, <2>2
<1>4. ASSUME NEW h \in Work' \cup Results', ~h.touched
      PROVE  Quiet(h)
  <2>1. CASE h \in Work \cup Results
    BY <1>4, <2>1 DEF StepInv
  <2>2. CASE Unmoved(h, g)
    <3>1. Unmoved(h, f)
      BY <1>2, <1>4, <2>2, Zenon DEF Unmoved
    <3>2. ~f.touched
      BY <1>4, <3>1, Zenon DEF Unmoved
    <3>3. Quiet(f)
      BY <1>1, <3>2 DEF StepInv
    <3>. QED
      BY <3>1, <3>3 DEF Unmoved, Quiet
  <2>. QED
    BY <1>3, <2>1, <2>2
<1>5. ASSUME NEW h \in Work' \cup Results', ~overlapped
      PROVE  Sees(h)'
  <2>1. CASE h \in Work \cup Results
    BY <1>5, <2>1, SeesAgain DEF StepInv
  <2>2. CASE Unmoved(h, g)
    <3>1. Sees(f)
      BY <1>1, <1>5 DEF StepInv
    <3>2. Sees(g)
      BY <3>1, UnmovedSees DEF Moves, f
    <3>. QED
      BY <2>2, <3>2, UnmovedSees, SeesAgain
  <2>. QED
    BY <1>3, <2>1, <2>2
<1>6. ASSUME ~overlapped PROVE InStep(tickets, links)'
  BY <1>6 DEF StepInv, InStep, Owned
<1>7. ASSUME ~overlapped' PROVE Alone'
  <2>1. Alone
    BY <1>7 DEF StepInv
  <2>2. \A q \in Publishers \ {p} : Touched(q)' => Touched(q)
    BY DEF Touched, Open, Turns
  <2>3. CASE g.touched
    <3>1. Lone(p)
      BY <1>7, <2>3
    <3>2. \A i \in 1..n : t[i].touched => i = n
      BY <1>1, <3>1 DEF Lone, n
    <3>3. \A q \in Publishers \ {p} : ~Touched(q)'
      BY <2>2, <3>1 DEF Lone
    <3>4. \A q \in Publishers \ {p} : \A i, j \in Open(q)' :
            stack'[q][i].touched /\ stack'[q][j].touched => i = j
      BY <3>3 DEF Touched, Open
    <3>5. \A q \in Publishers \ {p} : \A i \in Open(q)' :
            pending'[q] # NoResult /\ pending'[q].to.touched /\ stack'[q][i].touched => i = Len(stack'[q])
      BY <3>3 DEF Touched, Open
    <3>6. \A i, j \in Open(p)' : stack'[p][i].touched /\ stack'[p][j].touched => i = j
      BY <1>1, <3>2 DEF Turns
    <3>7. \A i \in Open(p)' : stack'[p][i].touched => i = Len(stack'[p])
      BY <1>1, <3>2 DEF Turns, n
    <3>. QED
      BY <3>3, <3>4, <3>5, <3>6, <3>7 DEF Alone, NoResult
  <2>4. CASE ~g.touched
    <3>1. Unmoved(g, f) /\ ~f.touched
      BY <1>2, <2>4, Zenon DEF Unmoved
    <3>2. ~t[n].touched
      <4>1. CASE Unmoved(t[n], g)
        BY <2>4, <4>1, Zenon DEF Unmoved
      <4>2. CASE t[n] = f
        BY <3>1, <4>2
      <4>. QED
        BY <4>1, <4>2 DEF f, n
    <3>3. \A i \in 1..n : t[i].touched => i \in 1..n - 1 /\ stack[p][i].touched
      BY <1>1, <3>2 DEF n
    <3>4. r # NoResult => ~r.to.touched
      BY <2>4
    <3>5. Touched(p)' => Touched(p)
      BY <1>1, <3>3, <3>4 DEF Touched, Turns
    <3>6. \A i, j \in Open(p)' : stack'[p][i].touched /\ stack'[p][j].touched => i = j
      BY <1>1, <2>1, <3>3 DEF Turns, Alone
    <3>. QED
      BY <2>1, <2>2, <3>4, <3>5, <3>6 DEF Alone, Open, Turns
  <2>. QED
    BY <2>3, <2>4
<1>. QED
  BY <1>4, <1>5, <1>6, <1>7 DEF StepInv, Quiet

(* A commit of p's running session, or of what it is about to write, leaves  *)
(* the tables as the session saw them.                                       *)
LEMMA StepCommits ==
    ASSUME StepInv, NEW p \in Publishers, NEW t, Turns(p, t, NoResult),
           Len(stack[p]) \in Nat \ {0}, Len(t) \in Nat, Len(t) < Len(stack[p]),
           \A i \in 1..Len(t) : Unmoved(t[i], stack[p][i]),
           NEW f, f = Top(p) \/ (pending[p] # NoResult /\ f = pending[p].to),
           links' = SeenLinks(f), tickets' = SeenTickets(f), overlapped' = overlapped
    PROVE  StepInv'
<1>1. f \in Work \cup Results
  BY DEF Top, Open, Work, Results
<1>2. CASE ~f.touched
  <2>1. Quiet(f)
    BY <1>1, <1>2 DEF StepInv
  <2>2. links' = links /\ tickets' = tickets
    BY <2>1 DEF Quiet, SeenLinks, SeenTickets
  <2>3. \A i \in 1..Len(t) : From(t[i], p, i)
    BY DEF From, Open
  <2>. QED
    BY <2>2, <2>3, StepTurns
<1>3. CASE f.touched
  <2>1. ASSUME NEW h \in Work' \cup Results'
        PROVE  \/ h \in Work \cup Results /\ (~overlapped => ~h.touched)
               \/ \E k \in Work : Unmoved(h, k) /\ (~overlapped => ~k.touched)
    <3>1. Touched(p)
      BY <1>3 DEF Touched, Top, Open
    <3>2. \A q \in Publishers \ {p} : ~overlapped => ~Touched(q)
      BY <3>1 DEF StepInv, Alone
    <3>3. \A i \in 1..Len(t) : ~overlapped => ~stack[p][i].touched
      BY <1>3 DEF StepInv, Alone, Top, Open
    <3>4. CASE h \in Work'
      <4>1. PICK q \in Publishers : \E i \in Open(q)' : h = stack'[q][i]
        BY <3>4 DEF Work
      <4>2. CASE q = p
        <5>1. PICK i \in 1..Len(t) : h = t[i]
          BY <4>1, <4>2 DEF Open, Turns
        <5>2. stack[p][i] \in Work
          BY DEF Work, Open
        <5>. QED
          BY <3>3, <5>1, <5>2
      <4>3. CASE q # p
        BY <3>2, <4>1, <4>3 DEF Open, Turns, Work, Touched
      <4>. QED
        BY <4>2, <4>3
    <3>5. CASE h \in Results'
      <4>1. PICK q \in Publishers : pending'[q] # NoResult /\ h = pending'[q].to
        BY <3>5 DEF Results, NoResult
      <4>2. q # p
        BY <4>1 DEF Turns
      <4>. QED
        BY <3>2, <4>1, <4>2 DEF Turns, Results, Touched
    <3>. QED
      BY <3>4, <3>5
  <2>2. ASSUME NEW h \in Work' \cup Results', ~h.touched \/ ~overlapped
        PROVE  Quiet(h) /\ (~overlapped => ~h.touched)
    <3>1. CASE h \in Work \cup Results /\ (~overlapped => ~h.touched)
      BY <2>2, <3>1 DEF StepInv
    <3>2. ASSUME NEW k \in Work, Unmoved(h, k), ~overlapped => ~k.touched
          PROVE  Quiet(h) /\ (~overlapped => ~h.touched)
      <4>1. ~k.touched
        BY <2>2, <3>2, Zenon DEF Unmoved
      <4>2. ~h.touched
        BY <3>2, <4>1, Zenon DEF Unmoved
      <4>3. Quiet(k)
        BY <4>1 DEF StepInv
      <4>. QED
        BY <3>2, <4>2, <4>3 DEF Unmoved, Quiet
    <3>. QED
      BY <2>1, <3>1, <3>2
  <2>3. ASSUME ~overlapped PROVE InStep(tickets, links)'
    <3>1. InStep(SeenTickets(f), SeenLinks(f))
      BY <1>1, <2>3 DEF StepInv, Sees
    <3>. QED
      BY <3>1 DEF InStep, Owned
  <2>4. ASSUME ~overlapped, NEW h \in Work' \cup Results' PROVE Sees(h)'
    BY <2>2, <2>3, <2>4 DEF Quiet, Sees, SeenTickets, SeenLinks, InStep
  <2>5. ASSUME ~overlapped PROVE Alone'
    <3>1. \A h \in Work' \cup Results' : ~h.touched
      BY <2>2, <2>5
    <3>2. \A q \in Publishers : \A i \in Open(q)' : ~stack'[q][i].touched
      BY <3>1 DEF Work
    <3>3. \A q \in Publishers : pending'[q] # NoResult' => ~pending'[q].to.touched
      BY <3>1 DEF Results
    <3>. QED
      BY <3>2, <3>3 DEF Alone, Touched
  <2>. QED
    BY <2>2, <2>3, <2>4, <2>5 DEF StepInv, Quiet
<1>. QED
  BY <1>2, <1>3

(* Nobody's work changes and the tables stay in step: edits by agents and    *)
(* administrators.                                                           *)
LEMMA StepEdits ==
    ASSUME StepInv, UNCHANGED <<stack, pending, tickets>>,
           overlapped => overlapped',
           links' = links \/ (~overlapped' => /\ \A q \in Publishers : ~Touched(q)
                                              /\ InStep(tickets, links) => InStep(tickets', links'))
    PROVE  StepInv'
<1>1. Work' = Work /\ Results' = Results
  BY DEF Work, Results, Open, NoResult
<1>2. \A f \in Work' \cup Results' : ~f.touched => Quiet(f)
  BY <1>1 DEF StepInv
<1>3. ASSUME ~overlapped' PROVE (Alone /\ InStep(tickets, links))'
  <2>1. Alone /\ InStep(tickets, links)
    BY <1>3 DEF StepInv
  <2>2. Alone'
    BY <2>1 DEF Alone, Touched, Open, NoResult
  <2>. QED
    BY <1>3, <2>1, <2>2 DEF InStep, Owned
<1>4. ASSUME ~overlapped', NEW f \in Work' \cup Results' PROVE Sees(f)'
  <2>1. CASE links' = links
    BY <1>1, <1>4, <2>1, SeesAgain DEF StepInv
  <2>2. CASE \A q \in Publishers : ~Touched(q)
    <3>1. ~f.touched
      <4>1. ASSUME NEW q \in Publishers, NEW i \in Open(q) PROVE ~stack[q][i].touched
        BY <2>2 DEF Touched
      <4>2. ASSUME NEW q \in Publishers, pending[q] # NoResult PROVE ~pending[q].to.touched
        BY <2>2, <4>2 DEF Touched
      <4>3. CASE f \in Work
        BY <4>1, <4>3 DEF Work
      <4>4. CASE f \in Results
        BY <4>2, <4>4 DEF Results
      <4>. QED
        BY <1>1, <4>3, <4>4
    <3>2. Quiet(f)
      BY <1>2, <3>1
    <3>. QED
      BY <1>3, <1>4, <3>2 DEF Quiet, Sees, SeenTickets, SeenLinks, InStep
  <2>. QED
    BY <1>4, <2>1, <2>2
<1>. QED
  BY <1>2, <1>3, <1>4 DEF StepInv, Quiet

-----------------------------------------------------------------------------
(* The steps *)

AutomationInv == EngineInv /\ StepInv

LEMMA InitInv == Init => AutomationInv
<1>. SUFFICES ASSUME Init PROVE AutomationInv
  OBVIOUS
<1>1. \A p \in Publishers : stack[p] = <<>> /\ pending[p] = NoResult
  BY DEF Init
<1>2. StackOK(<<>>)
  BY DEF StackOK, IsSeq
<1>3. EngineInv
  BY <1>1, <1>2 DEF Init, EngineInv, PendingOK
<1>4. Work = {} /\ Results = {}
  BY <1>1 DEF Work, Results, Open
<1>5. \A p \in Publishers : ~Touched(p)
  BY <1>1 DEF Touched, Open
<1>6. Alone
  BY <1>1 DEF Alone, Touched, Open
<1>7. InStep(tickets, links)
  <2>1. links = {} /\ tickets \subseteq {Manual}
    BY DEF Init
  <2>. QED
    BY <2>1 DEF InStep, Owned
<1>8. StepInv
  BY <1>4, <1>6, <1>7 DEF StepInv
<1>. QED
  BY <1>3, <1>8 DEF AutomationInv

(* The running session is one of the stack. *)
LEMMA TopIs ==
    ASSUME AutomationInv, NEW p \in Publishers, stack[p] # <<>>
    PROVE  /\ Len(stack[p]) \in Nat \ {0} /\ Len(stack[p]) \in Open(p)
           /\ SessionOK(Top(p)) /\ Len(stack[p]) <= Top(p).depth + 2
           /\ StackOK(stack[p]) /\ PendingOK(pending[p], stack[p]) /\ p \in published
<1>1. StackOK(stack[p]) /\ PendingOK(pending[p], stack[p]) /\ p \in published
  BY DEF AutomationInv, EngineInv
<1>2. Len(stack[p]) \in Nat \ {0}
  BY <1>1, EmptySeq DEF StackOK, IsSeq
<1>. QED
  BY <1>1, <1>2 DEF StackOK, Open, Top

(* SetTop, where nothing is pending before or after. *)
LEMMA SetTopTurns ==
    ASSUME AutomationInv, NEW p \in Publishers, stack[p] # <<>>, pending[p] = NoResult,
           NEW g, SessionOK(g), g.depth = Top(p).depth, SetTop(p, g), pending' = pending
    PROVE  LET t == Replace(stack[p], g)
           IN  /\ Turns(p, t, NoResult) /\ StackOK(t)
               /\ t[Len(t)] = g /\ Len(t) = Len(stack[p])
               /\ \A i \in 1..Len(t) - 1 : t[i] = stack[p][i]
<1>1. DOMAIN stack = Publishers
  BY DEF AutomationInv, EngineInv
<1>. QED
  BY <1>1, TopIs, ReplaceStack DEF SetTop, Turns, Top

LEMMA BeginKeeps ==
    ASSUME AutomationInv, NEW p \in Publishers, Begin(p)
    PROVE  AutomationInv'
<1>. DEFINE f == Top(p)
            n == Len(stack[p])
<1>1. stack[p] # <<>> /\ pending[p] = NoResult
  BY DEF Begin, Running
<1>2. SessionOK(f) /\ n \in Nat \ {0} /\ p \in published
  BY <1>1, TopIs
<1>3. PICK g : SetTop(p, g) /\ Goes(g, f)
  <2>1. CASE SetTop(p, Ended(f, "FAILED", <<>>)) /\ Rule[Head(f.todo)].condition.field = "malformed"
    BY <1>2, <2>1, EndedGoes DEF Truthful, Record
  <2>2. CASE SetTop(p, Ended(f, "SKIPPED", <<>>))
    BY <1>2, <2>2, EndedGoes DEF Truthful, Record
  <2>3. CASE SetTop(p, Ended(f, "COMPLETED", <<>>)) /\ Actions(f) = <<>>
    BY <1>2, <2>3, EndedGoes DEF Truthful, Record, Actions
  <2>4. CASE SetTop(p, [f EXCEPT !.begun = TRUE])
    <3>. DEFINE h == [f EXCEPT !.begun = TRUE]
    <3>1. /\ DOMAIN h = Fields /\ h.depth = f.depth /\ h.steps = f.steps /\ h.records = f.records
          /\ h.kind = f.kind /\ Unmoved(h, f)
      BY <1>2 DEF SessionOK, Fields, Unmoved
    <3>. HIDE DEF h
    <3>2. Goes(h, f)
      BY <1>2, <3>1 DEF Goes, SessionOK
    <3>. QED
      BY <2>4, <3>2 DEF h
  <2>. QED
    BY <2>1, <2>2, <2>3, <2>4 DEF Begin
<1>. DEFINE t == Replace(stack[p], g)
<1>4. /\ Turns(p, t, NoResult) /\ StackOK(t) /\ t[Len(t)] = g /\ Len(t) = n
      /\ \A i \in 1..Len(t) - 1 : t[i] = stack[p][i]
  BY <1>1, <1>2, <1>3, SetTopTurns DEF Goes, Begin
<1>. HIDE DEF t
<1>5. EngineInv'
  <2>1. records' = records /\ published' = published
    BY DEF Begin, db
  <2>. QED
    BY <1>2, <1>4, <2>1, EngineTurns DEF AutomationInv, EngineInv, PendingOK
<1>6. StepInv'
  <2>1. UNCHANGED <<links, tickets, overlapped>>
    BY DEF Begin, db
  <2>2. \A i \in 1..Len(t) : i \in Open(p) /\ Unmoved(t[i], stack[p][i])
    <3>1. \A i \in 1..Len(t) : i = n \/ i \in 1..Len(t) - 1
      BY <1>2, <1>4
    <3>. QED
      BY <1>3, <1>4, <3>1 DEF Goes, Unmoved, Top, Open
  <2>3. \A i \in 1..Len(t) : From(t[i], p, i)
    BY <2>2 DEF From
  <2>. QED
    BY <1>2, <1>4, <2>1, <2>3, StepTurns DEF AutomationInv
<1>. QED
  BY <1>5, <1>6 DEF AutomationInv

LEMMA AloneLone ==
    ASSUME AutomationInv, NEW p \in Publishers, stack[p] # <<>>, ~overlapped, Top(p).touched
    PROVE  Lone(p)
<1>1. Alone /\ Len(stack[p]) \in Open(p) /\ Len(stack[p]) \in Nat
  BY TopIs DEF AutomationInv, StepInv
<1>2. Touched(p)
  BY <1>1 DEF Touched, Top
<1>. QED
  BY <1>1, <1>2 DEF Alone, Lone, Top, Open

LEMMA ExecuteKeeps ==
    ASSUME AutomationInv, NEW p \in Publishers, Execute(p)
    PROVE  AutomationInv'
<1>. DEFINE f == Top(p)
            n == Len(stack[p])
<1>1. stack[p] # <<>> /\ pending[p] = NoResult /\ f.kind # "transaction" /\ f.todo # <<>>
  BY DEF Execute, Running
<1>2. SessionOK(f) /\ n \in Nat \ {0} /\ p \in published /\ StackOK(stack[p])
  BY <1>1, TopIs
<1>3. UNCHANGED <<records, published, links, tickets>>
  BY DEF Execute, db
<1>4. PICK r \in ExecuteAction(f, Action(f)) :
        /\ \/ r.how = "raised" /\ SetTop(p, StepFailed(f)) /\ UNCHANGED pending
           \/ SetTop(p, StepDone(r.to)) /\ UNCHANGED pending
           \/ pending' = [pending EXCEPT ![p] = r] /\ UNCHANGED stack
        /\ overlapped' = (overlapped \/
              (/\ r.to.touched
               /\ \/ \E q \in Publishers \ {p} : Touched(q)
                  \/ \E i \in 1..(Len(stack[p]) - 1) : stack[p][i].touched))
  BY DEF Execute
<1>5. Moves(r.to, f) /\ r # NoResult
  BY <1>2, ActionResult DEF SessionOK, Result, Outcomes, NoResult
<1>6. SessionOK(r.to) /\ r.to.depth = f.depth
  BY <1>2, <1>5 DEF Moves, Kin, SessionOK
<1>7. ~overlapped' => ~overlapped /\ (r.to.touched => Lone(p))
  BY <1>4, Zenon DEF Lone
<1>8. ASSUME NEW g, NEW h, Goes(h, g), Moves(g, f), SetTop(p, h), UNCHANGED pending,
             h.depth = f.depth, ~overlapped' => ~overlapped /\ (g.touched => Lone(p))
      PROVE  AutomationInv'
  <2>. DEFINE t == Replace(stack[p], h)
  <2>1. /\ Turns(p, t, NoResult) /\ StackOK(t) /\ t[Len(t)] = h /\ Len(t) = n
        /\ \A i \in 1..Len(t) - 1 : t[i] = stack[p][i]
    BY <1>1, <1>2, <1>8, SetTopTurns DEF Goes
  <2>. HIDE DEF t
  <2>2. EngineInv'
    BY <1>2, <1>3, <2>1, EngineTurns DEF AutomationInv, EngineInv, PendingOK
  <2>3. StepInv'
    BY <1>1, <1>2, <1>3, <1>8, <2>1, StepMoves DEF AutomationInv, Goes
  <2>. QED
    BY <2>2, <2>3 DEF AutomationInv
<1>9. CASE r.how = "raised" /\ SetTop(p, StepFailed(f)) /\ UNCHANGED pending
  <2>1. Goes(StepFailed(f), f) /\ Moves(f, f)
    BY <1>2, StepFailedGoes, StaysPut DEF SessionOK
  <2>2. ~overlapped' => ~overlapped /\ (f.touched => Lone(p))
    BY <1>1, <1>7, AloneLone
  <2>3. StepFailed(f).depth = f.depth
    BY <2>1 DEF Goes
  <2>. QED
    BY <1>8, <1>9, <2>1, <2>2, <2>3
<1>10. CASE SetTop(p, StepDone(r.to)) /\ UNCHANGED pending
  <2>1. Goes(StepDone(r.to), r.to)
    BY <1>6, StepDoneGoes
  <2>2. StepDone(r.to).depth = f.depth
    BY <1>6, <2>1 DEF Goes
  <2>. QED
    BY <1>5, <1>7, <1>8, <1>10, <2>1, <2>2
<1>11. CASE pending' = [pending EXCEPT ![p] = r] /\ UNCHANGED stack
  <2>1. Turns(p, stack[p], r)
    BY <1>11 DEF Turns, AutomationInv, EngineInv
  <2>2. PendingOK(r, stack[p])
    BY <1>1, <1>6 DEF PendingOK, Top
  <2>3. EngineInv'
    BY <1>2, <1>3, <2>1, <2>2, EngineTurns DEF AutomationInv, EngineInv
  <2>4. StepInv'
    BY <1>1, <1>2, <1>3, <1>5, <1>7, <2>1, StepMoves DEF AutomationInv, Top
  <2>. QED
    BY <2>3, <2>4 DEF AutomationInv
<1>. QED
  BY <1>4, <1>9, <1>10, <1>11

(* The running session takes what was pending; a handler starts on top.      *)
LEMMA WriteKeeps ==
    ASSUME AutomationInv, NEW p \in Publishers, Write(p)
    PROVE  AutomationInv'
<1>. DEFINE f == Top(p)
            n == Len(stack[p])
            g == pending[p].to
            h == StepDone(g)
            s == Replace(stack[p], h)
<1>1. pending[p] # NoResult
  BY DEF Write, NoResult
<1>2. stack[p] # <<>>
  BY <1>1 DEF AutomationInv, EngineInv, PendingOK
<1>3. /\ SessionOK(f) /\ n \in Nat \ {0} /\ p \in published /\ StackOK(stack[p])
      /\ n \in Open(p) /\ n <= f.depth + 2
      /\ SessionOK(g) /\ g.depth = f.depth
  BY <1>1, <1>2, TopIs DEF PendingOK, Top
<1>4. Goes(h, g)
  BY <1>3, StepDoneGoes
<1>. HIDE DEF h
<1>5. /\ StackOK(s) /\ Len(s) = n /\ s[n] = h
      /\ \A i \in 1..n - 1 : s[i] = stack[p][i]
  <2>1. SessionOK(h) /\ h.depth = f.depth
    BY <1>3, <1>4 DEF Goes
  <2>. QED
    BY <1>2, <1>3, <2>1, ReplaceStack DEF Top
<1>. HIDE DEF s
<1>6. \A i \in 1..n : From(s[i], p, i)
  <2>1. From(s[n], p, n)
    BY <1>1, <1>3, <1>4, <1>5 DEF From, Goes
  <2>2. \A i \in 1..n - 1 : i \in Open(p) /\ Unmoved(s[i], stack[p][i])
    BY <1>3, <1>5 DEF Open, Unmoved
  <2>3. \A i \in 1..n : i = n \/ i \in 1..n - 1
    BY <1>3
  <2>. QED
    BY <2>1, <2>2, <2>3 DEF From
<1>7. PICK t : /\ Turns(p, t, NoResult) /\ StackOK(t)
               /\ \A i \in 1..Len(t) : From(t[i], p, i)
  <2>. DEFINE path == Append(g.path, <<Head(g.todo), Len(g.steps)>>)
              handlers == Handlers(path, "conversation.assigned", g.depth + 1)
              t == s \o handlers
  <2>1. /\ stack' = [stack EXCEPT ![p] = s] \/ stack' = [stack EXCEPT ![p] = t]
                \/ stack' = [stack EXCEPT ![p] = s \o <<>>]
        /\ pending' = [pending EXCEPT ![p] = NoResult]
    BY DEF Write, Settle, Assigned, s, h
  <2>2. s \o <<>> = s
    BY <1>5, ConcatEmptySeq DEF StackOK, IsSeq
  <2>3. g.depth + 1 \in Nat /\ Len(s) <= g.depth + 1 + 1
    BY <1>3, <1>5 DEF SessionOK
  <2>4. /\ StackOK(t)
        /\ \A i \in 1..Len(t) : (i \in 1..n /\ t[i] = s[i]) \/ (~t[i].touched /\ Quiet(t[i]))
    BY <1>5, <2>3, HandlersOnTop
  <2>. HIDE DEF t
  <2>5. \A i \in 1..Len(t) : From(t[i], p, i)
    BY <1>6, <2>4 DEF From
  <2>6. Turns(p, s, NoResult) \/ Turns(p, t, NoResult)
    BY <2>1, <2>2 DEF Turns, AutomationInv, EngineInv
  <2>. QED
    BY <1>5, <1>6, <2>4, <2>5, <2>6
<1>8. UNCHANGED <<records, published, links, tickets, overlapped>>
  BY DEF Write, db
<1>9. EngineInv'
  BY <1>3, <1>7, <1>8, EngineTurns DEF AutomationInv, EngineInv, PendingOK
<1>10. Len(t) \in Nat
  BY <1>7, LenProperties DEF StackOK, IsSeq
<1>11. StepInv'
  BY <1>7, <1>8, <1>10, StepTurns DEF AutomationInv
<1>. QED
  BY <1>9, <1>11 DEF AutomationInv

(* What is left of the stack when the running session ends. *)
LEMMA Returned ==
    ASSUME AutomationInv, NEW p \in Publishers, stack[p] # <<>>
    PROVE  LET t == Resumed(Pop(stack[p]))
           IN  /\ StackOK(t) /\ Len(t) \in Nat /\ Len(t) < Len(stack[p])
               /\ \A i \in 1..Len(t) : i \in Open(p) /\ Unmoved(t[i], stack[p][i])
<1>. DEFINE s == Pop(stack[p])
            t == Resumed(s)
<1>1. StackOK(stack[p]) /\ Len(stack[p]) \in Nat \ {0}
  BY TopIs
<1>2. /\ StackOK(s) /\ Len(s) = Len(stack[p]) - 1
      /\ \A i \in 1..Len(stack[p]) - 1 : s[i] = stack[p][i]
  BY <1>1, PopStack
<1>. HIDE DEF s
<1>3. /\ StackOK(t) /\ Len(t) = Len(s)
      /\ \A i \in 1..Len(s) : Unmoved(t[i], s[i])
  BY <1>2, ResumedStack
<1>. HIDE DEF t
<1>. QED
  BY <1>1, <1>2, <1>3 DEF Open, s, t

LEMMA RollBackKeeps ==
    ASSUME AutomationInv, NEW p \in Publishers, stack[p] # <<>>, RollBack(p)
    PROVE  AutomationInv'
<1>. DEFINE t == Resumed(Pop(stack[p]))
<1>1. /\ StackOK(t) /\ Len(t) \in Nat
      /\ \A i \in 1..Len(t) : i \in Open(p) /\ Unmoved(t[i], stack[p][i])
  BY Returned
<1>2. Turns(p, t, NoResult) /\ p \in published
  BY TopIs DEF RollBack, Settle, Turns, AutomationInv, EngineInv
<1>3. UNCHANGED <<records, published, links, tickets, overlapped>>
  BY DEF RollBack, db
<1>. HIDE DEF t
<1>4. EngineInv'
  BY <1>1, <1>2, <1>3, EngineTurns DEF AutomationInv, EngineInv, PendingOK
<1>5. StepInv'
  BY <1>1, <1>2, <1>3, StepTurns DEF AutomationInv, From
<1>. QED
  BY <1>4, <1>5 DEF AutomationInv

LEMMA BreakKeeps ==
    ASSUME AutomationInv, NEW p \in Publishers, Break(p) \/ Victim(p)
    PROVE  AutomationInv'
<1>1. stack[p] # <<>>
  <2>1. CASE Break(p)
    BY <2>1 DEF Break, AutomationInv, EngineInv, PendingOK
  <2>2. CASE Victim(p)
    BY <2>2 DEF Victim, WaitsFor
  <2>. QED
    BY <2>1, <2>2
<1>. QED
  BY <1>1, RollBackKeeps DEF Break, Victim

(* A session commits what it is or is about to be, and p goes on with the    *)
(* ones below or with none.                                                  *)
LEMMA CommitTurns ==
    ASSUME AutomationInv, NEW p \in Publishers, stack[p] # <<>>,
           NEW f, f = Top(p) \/ (pending[p] # NoResult /\ f = pending[p].to),
           CommitOf(f), UNCHANGED <<published, overlapped>>,
           NEW t, Turns(p, t, NoResult), StackOK(t), Len(t) < Len(stack[p]),
           \A i \in 1..Len(t) : Unmoved(t[i], stack[p][i])
    PROVE  AutomationInv'
<1>1. /\ SessionOK(Top(p)) /\ PendingOK(pending[p], stack[p]) /\ p \in published
      /\ Len(stack[p]) \in Nat \ {0}
  BY TopIs
<1>2. SessionOK(f)
  BY <1>1 DEF PendingOK
<1>3. \A r \in records' : Truthful(r)
  BY <1>2 DEF CommitOf, SessionOK, AutomationInv, EngineInv
<1>4. Len(t) \in Nat
  BY LenProperties DEF StackOK, IsSeq
<1>5. EngineInv'
  BY <1>1, <1>3, EngineTurns DEF AutomationInv, PendingOK
<1>6. StepInv'
  <2>1. links' = SeenLinks(f) /\ tickets' = SeenTickets(f)
    BY DEF CommitOf, SeenLinks, SeenTickets
  <2>. QED
    BY <1>1, <1>4, <2>1, StepCommits DEF AutomationInv
<1>. QED
  BY <1>5, <1>6 DEF AutomationInv

LEMMA ReturnKeeps ==
    ASSUME AutomationInv, NEW p \in Publishers, Return(p)
    PROVE  AutomationInv'
<1>. DEFINE t == Resumed(Pop(stack[p]))
<1>1. stack[p] # <<>> /\ Top(p).kind = "handler" /\ Top(p).todo = <<>>
  BY DEF Return
<1>2. pending[p] = NoResult
  BY <1>1 DEF AutomationInv, EngineInv, PendingOK, Top
<1>3. /\ StackOK(t) /\ Len(t) < Len(stack[p])
      /\ \A i \in 1..Len(t) : Unmoved(t[i], stack[p][i])
  BY <1>1, Returned
<1>4. Turns(p, t, NoResult)
  BY <1>2 DEF Return, Turns, AutomationInv, EngineInv
<1>5. CommitOf(Top(p)) /\ UNCHANGED <<published, overlapped>>
  BY DEF Return
<1>. HIDE DEF t
<1>. QED
  BY <1>1, <1>3, <1>4, <1>5, CommitTurns

LEMMA EmptyStack == StackOK(<<>>) /\ Len(<<>>) = 0
BY DEF StackOK, IsSeq

LEMMA CommitKeeps ==
    ASSUME AutomationInv, NEW p \in Publishers, Commit(p) \/ CommitCaller(p)
    PROVE  AutomationInv'
<1>1. CASE Commit(p)
  <2>1. stack[p] # <<>> /\ Top(p).kind = "transaction" /\ Len(stack[p]) > 0
    BY <1>1, TopIs DEF Commit
  <2>2. pending[p] = NoResult
    BY <2>1 DEF AutomationInv, EngineInv, PendingOK, Top
  <2>3. Turns(p, <<>>, NoResult)
    BY <1>1, <2>2 DEF Commit, Turns, AutomationInv, EngineInv
  <2>. QED
    BY <1>1, <2>1, <2>3, CommitTurns, EmptyStack DEF Commit
<1>2. CASE CommitCaller(p)
  <2>1. pending[p] # NoResult
    BY <1>2 DEF CommitCaller, NoResult
  <2>2. stack[p] # <<>> /\ Len(stack[p]) > 0
    BY <2>1, TopIs DEF AutomationInv, EngineInv, PendingOK
  <2>3. Turns(p, <<>>, NoResult)
    BY <1>2 DEF CommitCaller, Settle, Turns, AutomationInv, EngineInv
  <2>. QED
    BY <1>2, <2>1, <2>2, <2>3, CommitTurns, EmptyStack DEF CommitCaller
<1>. QED
  BY <1>1, <1>2

LEMMA CloseKeeps ==
    ASSUME AutomationInv, NEW p \in Publishers, Close(p)
    PROVE  AutomationInv'
<1>. DEFINE f == Top(p)
            g == Change(f, "status", "PENDING")
            r == [to |-> g, how |-> "closing"]
<1>1. stack[p] # <<>> /\ f.kind = "caller"
  BY DEF Close
<1>2. /\ SessionOK(f) /\ StackOK(stack[p]) /\ p \in published
      /\ Len(stack[p]) \in Nat \ {0}
  BY <1>1, TopIs
<1>3. Moves(g, f) /\ Unmoved(g, f)
  BY <1>2, ChangeMoves DEF SessionOK
<1>. HIDE DEF g
<1>4. SessionOK(r.to) /\ r.to.depth = f.depth /\ r # NoResult
  BY <1>2, <1>3 DEF Moves, Kin, SessionOK, NoResult
<1>5. UNCHANGED <<records, published, links, tickets, overlapped, stack>> /\ pending' = [pending EXCEPT ![p] = r]
  BY DEF Close, db, g
<1>6. Turns(p, stack[p], r)
  BY <1>5 DEF Turns, AutomationInv, EngineInv
<1>7. PendingOK(r, stack[p])
  BY <1>1, <1>4 DEF PendingOK, Top
<1>8. EngineInv'
  BY <1>2, <1>5, <1>6, <1>7, EngineTurns DEF AutomationInv, EngineInv
<1>9. StepInv'
  <2>1. \A i \in 1..Len(stack[p]) : From(stack[p][i], p, i)
    BY DEF From, Open, Unmoved
  <2>2. Len(stack[p]) > 0 /\ Unmoved(r.to, stack[p][Len(stack[p])])
    BY <1>2, <1>3 DEF Top
  <2>. QED
    BY <1>2, <1>5, <1>6, <2>1, <2>2, StepTurns DEF AutomationInv
<1>. QED
  BY <1>8, <1>9 DEF AutomationInv

LEMMA DieKeeps ==
    ASSUME AutomationInv, NEW p \in Publishers, Die(p)
    PROVE  AutomationInv'
<1>1. stack[p] # <<>> /\ UNCHANGED <<records, published, links, tickets, overlapped>>
  BY DEF Die, db
<1>2. Turns(p, <<>>, NoResult) /\ p \in published
  BY <1>1, TopIs DEF Die, Settle, Turns, AutomationInv, EngineInv
<1>3. EngineInv'
  BY <1>1, <1>2, EngineTurns, EmptyStack DEF AutomationInv, EngineInv, PendingOK
<1>4. StepInv'
  BY <1>1, <1>2, StepTurns, EmptyStack DEF AutomationInv
<1>. QED
  BY <1>3, <1>4 DEF AutomationInv

LEMMA SingleStack ==
    ASSUME NEW f, SessionOK(f)
    PROVE  StackOK(<<f>>) /\ Len(<<f>>) = 1 /\ <<f>>[1] = f
<1>1. <<f>> \in Seq({<<f>>[i] : i \in DOMAIN <<f>>})
  <2>. DEFINE S == {<<f>>[i] : i \in DOMAIN <<f>>}
  <2>1. f \in S
    OBVIOUS
  <2>. HIDE DEF S
  <2>. QED
    BY <2>1 DEF S
<1>2. 1..1 = {1} /\ 1 <= f.depth + 2
  BY DEF SessionOK
<1>. QED
  BY <1>1, <1>2 DEF StackOK, IsSeq

(* The publisher's own session is the lowest, with the handlers of its event *)
(* on top; neither has touched anything yet.                                 *)
LEMMA PublishKeeps ==
    ASSUME AutomationInv, NEW p \in Publishers, NEW s \in Sources, Publish(p, s)
    PROVE  AutomationInv'
<1>1. stack[p] = <<>> /\ pending[p] = NoResult
  BY DEF Publish, AutomationInv, EngineInv, PendingOK
<1>2. /\ published' = published \cup {p}
      /\ UNCHANGED <<pending, records, links, tickets, overlapped>>
  BY DEF Publish, db
<1>3. s.depth \in Nat
  BY AutomationAssumption
<1>4. PICK f, path, event :
        /\ SessionOK(f) /\ f.depth = s.depth /\ ~f.touched /\ Quiet(f)
        /\ \/ stack' = [stack EXCEPT ![p] = <<f>>]
           \/ stack' = [stack EXCEPT ![p] = <<f>> \o Handlers(path, event, s.depth)]
  <2>. DEFINE caller == Session(<<p>>, s.depth, Matching(s.event), conv, "caller")
              own == Session(<<p>>, s.depth, <<>>, conv, "transaction")
              seen == s.sets @@ (IF s.creates THEN NewConversation ELSE conv)
              dirty == IF s.creates THEN Columns ELSE DOMAIN s.sets
              base == [own EXCEPT !.seen = seen, !.dirty = dirty]
  <2>1. SessionOK(caller) /\ caller.depth = s.depth /\ ~caller.touched /\ Quiet(caller)
    BY <1>3, NewSession
  <2>2. SessionOK(own) /\ own.depth = s.depth /\ ~own.touched /\ Quiet(own)
    BY <1>3, NewSession
  <2>3. \/ stack' = [stack EXCEPT ![p] = <<caller>>]
        \/ stack' = [stack EXCEPT ![p] = <<base>> \o Handlers(<<p>>, s.event, s.depth)]
    BY DEF Publish
  <2>. HIDE DEF caller, own, seen, dirty
  <2>4. /\ DOMAIN base = Fields /\ base.depth = own.depth /\ base.steps = own.steps
        /\ base.records = own.records /\ Unmoved(base, own)
    BY <2>2 DEF SessionOK, Fields, Unmoved
  <2>. HIDE DEF base
  <2>5. SessionOK(base) /\ base.depth = s.depth /\ Quiet(base)
    BY <2>2, <2>4 DEF SessionOK, Unmoved, Quiet
  <2>6. ~base.touched
    BY <2>2, <2>4, Zenon DEF Unmoved
  <2>. QED
    BY <2>1, <2>3, <2>5, <2>6
<1>5. PICK t : /\ Turns(p, t, NoResult) /\ StackOK(t)
               /\ \A i \in 1..Len(t) : ~t[i].touched /\ Quiet(t[i])
  <2>. DEFINE t == <<f>> \o Handlers(path, event, s.depth)
  <2>1. StackOK(<<f>>) /\ Len(<<f>>) = 1 /\ <<f>>[1] = f
    BY <1>4, SingleStack
  <2>2. 1..1 = {1} /\ 1 <= s.depth + 1
    BY <1>3
  <2>3. /\ StackOK(t)
        /\ \A i \in 1..Len(t) : (i \in 1..Len(<<f>>) /\ t[i] = <<f>>[i]) \/ (~t[i].touched /\ Quiet(t[i]))
    BY <1>3, <2>1, <2>2, HandlersOnTop
  <2>. HIDE DEF t
  <2>4. \A i \in 1..Len(t) : ~t[i].touched /\ Quiet(t[i])
    BY <1>4, <2>1, <2>2, <2>3
  <2>5. \A i \in 1..Len(<<f>>) : ~<<f>>[i].touched /\ Quiet(<<f>>[i])
    BY <1>4, <2>1, <2>2
  <2>6. stack' = [stack EXCEPT ![p] = <<f>>] => Turns(p, <<f>>, NoResult)
    BY <1>1, <1>2 DEF Turns, AutomationInv, EngineInv
  <2>7. stack' = [stack EXCEPT ![p] = t] => Turns(p, t, NoResult)
    BY <1>1, <1>2 DEF Turns, AutomationInv, EngineInv
  <2>. QED
    BY <1>4, <2>1, <2>3, <2>4, <2>5, <2>6, <2>7 DEF t
<1>6. Len(t) \in Nat
  BY <1>5, LenProperties DEF StackOK, IsSeq
<1>7. EngineInv'
  BY <1>2, <1>5, EngineTurns DEF AutomationInv, EngineInv, PendingOK
<1>8. StepInv'
  BY <1>2, <1>5, <1>6, StepTurns DEF AutomationInv, From
<1>. QED
  BY <1>7, <1>8 DEF AutomationInv

(* Agents tag the conversation together with its tickets. *)
LEMMA EditsKeep ==
    ASSUME AutomationInv,
           \/ SetStatus \/ \E a \in Switchable : SetEnabled(a)
           \/ \E n \in Tags : AgentTags(n) \/ AgentUntags(n) \/ DeleteTag(n)
    PROVE  AutomationInv'
<1>1. UNCHANGED <<stack, pending, tickets, records, published>>
  BY DEF SetStatus, SetEnabled, AgentTags, AgentUntags, DeleteTag, Edit, db
<1>2. EngineInv'
  BY <1>1 DEF AutomationInv, EngineInv, PendingOK, NoResult
<1>3. CASE SetStatus \/ \E a \in Switchable : SetEnabled(a)
  <2>1. UNCHANGED <<links, overlapped>>
    BY <1>3 DEF SetStatus, SetEnabled, db
  <2>. QED
    BY <1>1, <1>2, <2>1, StepEdits DEF AutomationInv
<1>4. ASSUME NEW n \in Tags, AgentTags(n) \/ AgentUntags(n) \/ DeleteTag(n)
      PROVE  AutomationInv'
  <2>1. overlapped' = (overlapped \/ \E q \in Publishers : Touched(q))
    BY <1>4 DEF AgentTags, AgentUntags, DeleteTag, Edit
  <2>2. (overlapped => overlapped') /\ (~overlapped' => \A q \in Publishers : ~Touched(q))
    BY <2>1, Zenon
  <2>3. \A x, m : <<x, m>> \in Linked(n) <=> x \in {"conversation"} \cup tickets /\ m = n
    BY DEF Linked
  <2>4. ASSUME InStep(tickets, links) PROVE InStep(tickets, links \cup Linked(n))
    BY <2>3, <2>4 DEF InStep, Owned
  <2>5. ASSUME InStep(tickets, links) PROVE InStep(tickets, links \ Linked(n))
    BY <2>3, <2>5 DEF InStep, Owned
  <2>6. ASSUME InStep(tickets, links) PROVE InStep(tickets, {l \in links : l[2] # n})
    <3>1. \A x, m : <<x, m>> \in {l \in links : l[2] # n} <=> <<x, m>> \in links /\ m # n
      OBVIOUS
    <3>. QED
      BY <2>6, <3>1 DEF InStep, Owned
  <2>7. InStep(tickets, links) => InStep(tickets', links')
    BY <1>1, <1>4, <2>4, <2>5, <2>6 DEF AgentTags, AgentUntags, DeleteTag
  <2>. QED
    BY <1>1, <1>2, <2>2, <2>7, StepEdits DEF AutomationInv
<1>. QED
  BY <1>3, <1>4

-----------------------------------------------------------------------------
(* The inductive invariant holds in every state. *)
THEOREM AutomationHolds == Spec => []AutomationInv
<1>1. Init => AutomationInv
  BY InitInv
<1>2. AutomationInv /\ [Next]_vars => AutomationInv'
  <2>. SUFFICES ASSUME AutomationInv, [Next]_vars PROVE AutomationInv'
    OBVIOUS
  <2>1. ASSUME NEW p \in Publishers, Progress(p) PROVE AutomationInv'
    BY <2>1, BeginKeeps, ExecuteKeeps, WriteKeeps, BreakKeeps, ReturnKeeps, CommitKeeps, CloseKeeps
       DEF Progress
  <2>2. ASSUME NEW p \in Publishers, Die(p) \/ \E s \in Sources : Publish(p, s) PROVE AutomationInv'
    BY <2>2, DieKeeps, PublishKeeps
  <2>3. CASE SetStatus \/ (\E a \in Switchable : SetEnabled(a))
             \/ \E n \in Tags : AgentTags(n) \/ AgentUntags(n) \/ DeleteTag(n)
    BY <2>3, EditsKeep
  <2>4. CASE UNCHANGED vars
    <3>1. UNCHANGED <<stack, pending, tickets, links, overlapped, records, published>>
      BY <2>4 DEF vars
    <3>2. EngineInv'
      BY <3>1 DEF AutomationInv, EngineInv, PendingOK, NoResult
    <3>3. StepInv'
      BY <3>1, StepEdits DEF AutomationInv
    <3>. QED
      BY <3>2, <3>3 DEF AutomationInv
  <2>. QED
    BY <2>1, <2>2, <2>3, <2>4 DEF Next
<1>. QED
  BY <1>1, <1>2, PTL DEF Spec

(* However rules call for each other (handle_domain_event inside publish), a *)
(* request never holds more than MAX_EXECUTION_DEPTH sessions besides its    *)
(* own: each handler is one level deeper than the one below it.              *)
THEOREM SessionsBoundedHolds == Spec => []SessionsBounded
<1>1. AutomationInv => SessionsBounded
  <2>1. ASSUME AutomationInv, NEW p \in Publishers PROVE Len(stack[p]) <= 1 + MaxExecutionDepth
    <3>1. StackOK(stack[p]) /\ Len(stack[p]) \in Nat
      BY <2>1, LenProperties DEF AutomationInv, EngineInv, StackOK, IsSeq
    <3>2. CASE Len(stack[p]) > 1
      <4>1. Len(stack[p]) \in 1..Len(stack[p])
        BY <3>1, <3>2
      <4>2. LET f == stack[p][Len(stack[p])]
            IN  f.depth \in Nat /\ Len(stack[p]) <= f.depth + 2 /\ f.depth < MaxExecutionDepth
        BY <3>1, <3>2, <4>1 DEF StackOK, SessionOK
      <4>. QED
        BY <3>1, <4>2 DEF MaxExecutionDepth
    <3>. QED
      BY <3>1, <3>2 DEF MaxExecutionDepth
  <2>. QED
    BY <2>1 DEF SessionsBounded
<1>. QED
  BY <1>1, AutomationHolds, PTL

(* Every committed execution of _run_automation is true to itself, whatever  *)
(* its rules do and whichever transactions break.                            *)
THEOREM RecordsTellTruthHolds == Spec => []RecordsTellTruth
<1>1. AutomationInv => RecordsTellTruth
  BY DEF AutomationInv, EngineInv, RecordsTellTruth, Truthful
<1>. QED
  BY <1>1, AutomationHolds, PTL

(* Sessions that have not worked on tags or tickets at a time leave the      *)
(* conversation's tags on all of its tickets and one automation ticket.      *)
THEOREM TicketsInStepHolds == Spec => []TicketsInStep
<1>1. AutomationInv => TicketsInStep
  <2>. SUFFICES ASSUME AutomationInv, ~overlapped
                PROVE  /\ \A t \in tickets : \A n \in Tags :
                             <<t, n>> \in links <=> <<"conversation", n>> \in links
                       /\ Cardinality(tickets \ {Manual}) <= 1
    BY DEF TicketsInStep
  <2>1. InStep(tickets, links)
    BY DEF AutomationInv, StepInv
  <2>2. Cardinality(tickets \ {Manual}) <= 1
    <3>1. CASE tickets \ {Manual} = {}
      BY <3>1, FS_EmptySet
    <3>2. ASSUME NEW t \in tickets \ {Manual} PROVE tickets \ {Manual} = {t}
      BY <2>1 DEF InStep
    <3>3. \A t : Cardinality({t}) = 1
      BY FS_Singleton
    <3>4. CASE \E t : t \in tickets \ {Manual}
      BY <3>2, <3>3, <3>4
    <3>. QED
      BY <3>1, <3>4
  <2>. QED
    BY <2>1, <2>2 DEF InStep
<1>. QED
  BY <1>1, AutomationHolds, PTL
=============================================================================
