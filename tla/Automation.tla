----------------------------- MODULE Automation -----------------------------
(***************************************************************************)
(* The automation engine: an event is handled inside publish, by a session *)
(* of its own, while the transaction that publishes it is still open.      *)
(*                                                                         *)
(* Each publisher has a stack of sessions.  The lowest one is its own      *)
(* transaction; an action that assigns the conversation publishes an event *)
(* itself and puts a handler's session on top.  Only the top session runs, *)
(* and none sees what the ones below have not committed.  One conversation *)
(* with its tickets is modelled; rules, actions and rows are data.         *)
(***************************************************************************)
EXTENDS Naturals, Sequences, FiniteSets, TLC

CONSTANTS
    Publishers,    \* requests and tasks, each of which publishes one event
    Sources,       \* what they publish: [event, depth, creates, inline, sets]
    Automations,   \* the organization's rules
    Rule,          \* [Automations -> [trigger, condition, actions]]
    Order,         \* the rules by priority, then by age
    Switchable,    \* bound: the rules an administrator switches
    Tags, Teams,
    Tickets,       \* ids; Manual is one that an agent opened
    Manual,
    MaxEdits       \* bound: changes to rules and tags by agents

ASSUME AutomationAssumption == \A s \in Sources : s.depth \in Nat

MaxExecutionDepth == 3

None == "none"
NoConversation == [exists |-> FALSE]
NoResult == [how |-> "nothing"]

Values == [priority |-> {"NORMAL", "HIGH"}, status |-> {"OPEN", "PENDING", "CLOSED"},
           control |-> {"AI", "HUMAN"}, team |-> Teams \cup {None},
           user |-> {"nobody", "agent"}]
Columns == DOMAIN Values
Targets == {"conversation"} \cup Tickets

VARIABLES
    conv,        \* conversations: the row's columns, or NoConversation
    tags,        \* tags: the organization's names
    links,       \* conversation_tags and ticket_tags: <<target, tag>>
    tickets,     \* tickets of the conversation
    records,     \* automation_executions with their steps
    enabled,     \* automations.enabled
    online,      \* an agent of the teams is ONLINE
    stack,       \* each publisher's open sessions; the last one runs
    pending,     \* what the running session of a publisher is about to write
    published,   \* publishers that have begun
    overlapped,  \* two sessions have worked on tags or tickets at a time
    edits

db == <<conv, tags, links, tickets, records>>
vars == <<conv, tags, links, tickets, records, enabled, online, stack, pending,
          published, overlapped, edits>>

NewConversation == [c \in Columns |->
    CASE c = "priority" -> "NORMAL" [] c = "status" -> "OPEN" [] c = "control" -> "AI"
      [] c = "team" -> None [] c = "user" -> "nobody"]

Top(p) == stack[p][Len(stack[p])]
Replace(s, f) == [s EXCEPT ![Len(s)] = f]
Pop(s) == SubSeq(s, 1, Len(s) - 1)

-----------------------------------------------------------------------------
(* Sessions.  `seen` is the conversation object the session has loaded, with *)
(* its own changes: later reads return it again, and only the columns in     *)
(* `dirty` are written.                                                      *)
Context(seen) ==
    IF seen = NoConversation THEN [priority |-> None, status |-> None, team |-> None, tags |-> {}]
    ELSE [priority |-> seen.priority, status |-> seen.status, team |-> seen.team,
          tags |-> {n \in Tags : <<"conversation", n>> \in links}]
Session(path, depth, todo, seen, kind) ==
    [path |-> path, depth |-> depth, todo |-> todo, kind |-> kind,
     begun |-> FALSE, steps |-> <<>>, records |-> {},
     seen |-> seen, dirty |-> {}, newTags |-> {}, plus |-> {}, minus |-> {}, made |-> {},
     ctx |-> Context(seen), then |-> None, touched |-> FALSE]

Matching(event) ==
    SelectSeq(Order, LAMBDA a : a \in enabled /\ Rule[a].trigger = event)

(* handle_domain_event: its own session, unless the event is too deep. *)
Handlers(path, event, depth) ==
    IF depth >= MaxExecutionDepth THEN <<>>
    ELSE <<Session(path, depth, Matching(event), conv, "handler")>>

SeenTags(f) == tags \cup f.newTags
SeenLinks(f) == (links \cup f.plus) \ f.minus
SeenTickets(f) == tickets \cup f.made

(* Rows and keys that an open session keeps others from writing. *)
RowsOf(f) ==
    {<<"row", "conversation">> : c \in f.dirty} \cup {<<"tag", n>> : n \in f.newTags}
    \cup f.plus \cup f.minus

Open(p) == 1..Len(stack[p])

(* The running session of p wants a row that a session of q holds. *)
WaitsFor(p, q) ==
    /\ stack[p] # <<>>
    /\ pending[p].how \in {"done", "publishes", "closing"}
    /\ \E i \in Open(q) :
          /\ <<q, i>> # <<p, Len(stack[p])>>
          /\ (RowsOf(pending[p].to) \ RowsOf(Top(p))) \cap RowsOf(stack[q][i]) # {}
Free(p) == \A q \in Publishers : ~WaitsFor(p, q)

Touched(p) == \/ \E i \in Open(p) : stack[p][i].touched
              \/ pending[p] # NoResult /\ pending[p].to.touched
-----------------------------------------------------------------------------
(* The action handlers: what a session is about to write, and whether it     *)
(* then publishes conversation.assigned, raises, or breaks its transaction.  *)
Done(f) == [to |-> f, how |-> "done"]
Publishes(f) == [to |-> f, how |-> "publishes"]

Change(f, c, v) ==
    IF f.seen[c] = v THEN f ELSE [f EXCEPT !.seen[c] = v, !.dirty = @ \cup {c}]

(* An unknown value raises before anything is written; an equal one changes  *)
(* nothing.                                                                  *)
SetColumn(f, c, v) ==
    {IF f.seen = NoConversation THEN Done(f)
     ELSE IF v \in Values[c] THEN Done(Change(f, c, v)) ELSE [to |-> f, how |-> "raised"]}

(* The registry's handlers for priority, status and control mode.  Only the  *)
(* priority is changed in the context as well.                               *)
SetPriority(f, a) ==
    {IF f.seen = NoConversation THEN r ELSE [r EXCEPT !.to.ctx.priority = r.to.seen.priority] :
        r \in SetColumn(f, "priority", a.value)}
SetConversationStatus(f, a) == SetColumn(f, "status", a.value)
EnableAI(f, a) == SetColumn(f, "control", "AI")
DisableAI(f, a) == SetColumn(f, "control", "HUMAN")

(* get_or_create_tag, then the conversation and every ticket it can see. *)
Tagged(f, n, targets) ==
    LET new == (targets \X {n}) \ SeenLinks(f)
    IN  [f EXCEPT !.newTags = @ \cup ({n} \ SeenTags(f)), !.plus = @ \cup new, !.minus = @ \ new,
                  !.ctx.tags = @ \cup {n}, !.touched = TRUE]
AddTag_ConversationOnly(f, a) ==
    {[to |-> Tagged(f, a.tag, {"conversation"}),
      how |-> IF f.seen = NoConversation THEN "broken" ELSE "done"]}
AddTag(f, a) ==
    {[to |-> Tagged(f, a.tag, {"conversation"} \cup SeenTickets(f)),
      how |-> IF f.seen = NoConversation THEN "broken" ELSE "done"]}

Untagged(f, n, targets) ==
    LET gone == SeenLinks(f) \cap (targets \X {n})
    IN  [f EXCEPT !.plus = @ \ gone, !.minus = @ \cup (gone \cap links),
                  !.ctx.tags = @ \ {n}, !.touched = TRUE]
RemoveTag(f, a) == {Done(Untagged(f, a.tag, {"conversation"} \cup SeenTickets(f)))}

(* ensure_assignee_for_team: the assignee, a member, stays, or the rotation   *)
(* finds one.                                                                *)
Teamed(f, team) ==
    {Publishes(IF f.seen.user = "nobody" /\ online
               THEN Change(Change(f, "team", team), "user", "agent")
               ELSE Change(f, "team", team))}

(* Only somebody ONLINE is assigned by name. *)
AssignUser(f, a) ==
    {IF f.seen = NoConversation THEN Done(f)
     ELSE IF f.seen.user = "agent" \/ ~online THEN Done(f)
     ELSE Publishes(Change(f, "user", "agent"))}

AssignTeam(f, a) ==
    IF f.seen = NoConversation THEN {Done(f)}
    ELSE IF f.seen.team = a.team THEN {Done(f)} ELSE Teamed(f, a.team)

(* Nobody ONLINE: only the team, and the event even if nothing changes.      *)
AssignRoundRobin(f, a) ==
    {IF f.seen = NoConversation THEN Done(f)
     ELSE IF ~online THEN Publishes(Change(f, "team", a.team))
     ELSE IF f.seen.user = "agent" THEN Done(Change(f, "team", a.team))
     ELSE Publishes([Change(f, "user", "agent") EXCEPT !.then = a.team])}

EscalateToHuman(f, a) ==
    IF f.seen = NoConversation THEN {Done(f)}
    ELSE UNION {AssignTeam(r.to, a) : r \in DisableAI(f, a)}

(* Ids no session uses. *)
FreeTickets ==
    Tickets \ (tickets \cup UNION UNION {{stack[q][i].made : i \in Open(q)} : q \in Publishers}
                       \cup UNION {pending[q].to.made : q \in {x \in Publishers : pending[x] # NoResult}})

(* One ticket of the automation's kind.  It inherits the tags, and the team  *)
(* that the conversation had when the handling of the event began.           *)
NewTicket(f, inherited) ==
    LET t == CHOOSE x \in FreeTickets : TRUE
    IN  [f EXCEPT !.made = @ \cup {t}, !.plus = @ \cup ({t} \X inherited), !.touched = TRUE]
CreateTicket(f, a) ==
    LET g == NewTicket(f, {n \in Tags : <<"conversation", n>> \in SeenLinks(f)})
    IN  IF SeenTickets(f) \ {Manual} # {} THEN {Done([f EXCEPT !.touched = TRUE])}
        ELSE IF f.seen = NoConversation THEN {[to |-> f, how |-> "broken"]}
        ELSE IF f.ctx.team = None THEN {Done(g)} ELSE Teamed(g, f.ctx.team)

(* The notification.created that it publishes triggers nothing. *)
Notify(f, a) == {Done(f)}

(* ACTION_REGISTRY.  A type that is not an ActionType raises. *)
ExecuteAction(f, a) ==
    CASE a.type = "SET_PRIORITY" -> SetPriority(f, a)
      [] a.type = "SET_STATUS" -> SetConversationStatus(f, a)
      [] a.type = "ENABLE_AI" -> EnableAI(f, a)
      [] a.type = "DISABLE_AI" -> DisableAI(f, a)
      [] a.type = "ADD_TAG" -> AddTag(f, a)
      [] a.type = "REMOVE_TAG" -> RemoveTag(f, a)
      [] a.type = "CREATE_TICKET" -> CreateTicket(f, a)
      [] a.type = "ASSIGN_TEAM" -> AssignTeam(f, a)
      [] a.type = "ASSIGN_USER" -> AssignUser(f, a)
      [] a.type = "ASSIGN_ROUND_ROBIN" -> AssignRoundRobin(f, a)
      [] a.type = "ESCALATE_TO_HUMAN" -> EscalateToHuman(f, a)
      [] a.type = "NOTIFY" -> Notify(f, a)
      [] OTHER -> {[to |-> f, how |-> "raised"]}

(* evaluate_conditions: the context, not the rows, is compared. *)
Holds(c, ctx) ==
    CASE c.field = "always" -> TRUE
      [] c.field = "tags" -> c.is \in ctx.tags
      [] c.field = "priority" -> ctx.priority = c.is
      [] c.field = "status" -> ctx.status = c.is

-----------------------------------------------------------------------------
(* _run_automation *)
Record(f, status, steps) ==
    [event |-> f.path, automation |-> Head(f.todo), status |-> status, steps |-> steps]

(* The execution ends and the session goes on with the next automation. *)
Ended(f, status, steps) ==
    [f EXCEPT !.records = @ \cup {Record(f, status, steps)}, !.todo = Tail(@),
              !.begun = FALSE, !.steps = <<>>]

Actions(f) == Rule[Head(f.todo)].actions
Action(f) == Actions(f)[Len(f.steps) + 1]

(* A step is done; the last one completes the execution. *)
StepDone(f) ==
    LET steps == Append(f.steps, "COMPLETED")
    IN  IF Len(steps) = Len(Actions(f)) THEN Ended(f, "COMPLETED", steps)
        ELSE [f EXCEPT !.steps = steps]

(* A Python exception: the earlier steps stay done, the rest is not tried. *)
StepFailed_GoesOn(f) ==
    LET steps == Append(f.steps, "FAILED")
    IN  IF Len(steps) = Len(Actions(f)) THEN Ended(f, "FAILED", steps)
        ELSE [f EXCEPT !.steps = steps]
StepFailed(f) == Ended(f, "FAILED", Append(f.steps, "FAILED"))

Running(p) == /\ stack[p] # <<>>
              /\ Top(p).kind # "transaction"
              /\ Top(p).todo # <<>>
              /\ pending[p] = NoResult

SetTop(p, f) == stack' = [stack EXCEPT ![p] = Replace(@, f)]
Settle(p) == pending' = [pending EXCEPT ![p] = NoResult]

Begin(p) ==
    LET f == Top(p)
        c == Rule[Head(f.todo)].condition
    IN  /\ Running(p) /\ ~f.begun
        /\ SetTop(p, IF c.field = "malformed" THEN Ended(f, "FAILED", <<>>)
                     ELSE IF ~Holds(c, f.ctx) THEN Ended(f, "SKIPPED", <<>>)
                     ELSE IF Actions(f) = <<>> THEN Ended(f, "COMPLETED", <<>>)
                     ELSE [f EXCEPT !.begun = TRUE])
        /\ UNCHANGED <<db, enabled, online, pending, published, overlapped, edits>>

(* execute_action.  The handler reads; an invalid value is found before       *)
(* anything is written, and what needs no further row is done at once.       *)
Execute(p) ==
    LET f == Top(p)
    IN  /\ Running(p) /\ f.begun
        /\ \E r \in ExecuteAction(f, Action(f)) :
              /\ IF r.how = "raised"
                 THEN SetTop(p, StepFailed(f)) /\ UNCHANGED pending
                 ELSE IF r.how = "done" /\ RowsOf(r.to) \subseteq RowsOf(f)
                 THEN SetTop(p, StepDone(r.to)) /\ UNCHANGED pending
                 ELSE pending' = [pending EXCEPT ![p] = r] /\ UNCHANGED stack
              /\ overlapped' = (overlapped \/
                    (/\ r.to.touched
                     /\ \/ \E q \in Publishers \ {p} : Touched(q)
                        \/ \E i \in 1..(Len(stack[p]) - 1) : stack[p][i].touched))
        /\ UNCHANGED <<db, enabled, online, published, edits>>

(* A unique key has been taken or a row that is referred to is gone. *)
Clash(p) ==
    LET f == Top(p)
        g == pending[p].to
    IN  \/ pending[p].how = "broken"
        \/ (g.newTags \ f.newTags) \cap tags # {}
        \/ (g.plus \ f.plus) \cap links # {}
        \/ \E l \in g.plus : l[2] \notin SeenTags(g)

(* The event's depth is the running handler's and one. *)
Assigned_SameDepth(p, g) == Handlers(Append(g.path, <<Head(g.todo), Len(g.steps)>>),
                                     "conversation.assigned", g.depth)
Assigned(p, g) == Handlers(Append(g.path, <<Head(g.todo), Len(g.steps)>>),
                           "conversation.assigned", g.depth + 1)

(* The action writes, and if it publishes, the handlers run inside it. *)
Write(p) ==
    LET g == pending[p].to
    IN  /\ pending[p].how \in {"done", "publishes"}
        /\ Free(p) /\ ~Clash(p)
        /\ stack' = [stack EXCEPT ![p] = Replace(@, StepDone(g))
                        \o IF pending[p].how = "publishes" THEN Assigned(p, g) ELSE <<>>]
        /\ Settle(p)
        /\ UNCHANGED <<db, enabled, online, published, overlapped, edits>>

-----------------------------------------------------------------------------
(* The session below goes on after publish returns: a round robin that found *)
(* an agent writes the team only then.                                       *)
Resumed(s) ==
    IF s = <<>> \/ s[Len(s)].then = None THEN s
    ELSE Replace(s, [Change(s[Len(s)], "team", s[Len(s)].then) EXCEPT !.then = None])

CommitOf(f) ==
    /\ conv' = IF f.dirty = {} THEN conv
               ELSE [c \in Columns |-> IF c \in f.dirty THEN f.seen[c] ELSE conv[c]]
    /\ tags' = tags \cup f.newTags
    /\ links' = (links \cup f.plus) \ f.minus
    /\ tickets' = tickets \cup f.made
    /\ records' = records \cup f.records

(* A database error leaves the session nothing but a rollback; publish and   *)
(* the handler swallow it, the caller's own session does not.                *)
RollBack_Retries(p) ==
    /\ SetTop(p, [Top(p) EXCEPT !.begun = FALSE])
    /\ Settle(p)
    /\ UNCHANGED <<db, enabled, online, published, overlapped, edits>>
RollBack(p) ==
    /\ stack' = [stack EXCEPT ![p] = Resumed(Pop(@))]
    /\ Settle(p)
    /\ UNCHANGED <<db, enabled, online, published, overlapped, edits>>

Break(p) ==
    /\ pending[p] # NoResult
    /\ Free(p) /\ Clash(p)
    /\ RollBack(p)

(* PostgreSQL finds a cycle of running sessions and breaks one of them. *)
Victim(p) ==
    /\ \E q \in Publishers \ {p} :
          LET topOf(x) == RowsOf(Top(x))
              wants(x) == RowsOf(pending[x].to) \ topOf(x)
          IN  /\ WaitsFor(p, q) /\ WaitsFor(q, p)
              /\ wants(p) \cap topOf(q) # {} /\ wants(q) \cap topOf(p) # {}
    /\ RollBack(p)

(* A handler ends: it commits, and the caller goes on. *)
Return(p) ==
    LET f == Top(p)
    IN  /\ stack[p] # <<>> /\ f.kind = "handler" /\ f.todo = <<>>
        /\ CommitOf(f)
        /\ stack' = [stack EXCEPT ![p] = Resumed(Pop(@))]
        /\ UNCHANGED <<enabled, online, pending, published, overlapped, edits>>

(* The publisher's own transaction ends. *)
Commit(p) ==
    /\ stack[p] # <<>> /\ Top(p).kind = "transaction"
    /\ CommitOf(Top(p))
    /\ stack' = [stack EXCEPT ![p] = <<>>]
    /\ UNCHANGED <<enabled, online, pending, published, overlapped, edits>>

(* _handle_missed_chat runs the automations in its own session and leaves    *)
(* the conversation PENDING, whatever they did.                              *)
Close(p) ==
    LET f == Top(p)
    IN  /\ stack[p] # <<>> /\ f.kind = "caller" /\ f.todo = <<>> /\ pending[p] = NoResult
        /\ pending' = [pending EXCEPT ![p] =
                          [to |-> Change(f, "status", "PENDING"), how |-> "closing"]]
        /\ UNCHANGED <<db, enabled, online, stack, published, overlapped, edits>>
CommitCaller(p) ==
    /\ pending[p].how = "closing" /\ Free(p)
    /\ CommitOf(pending[p].to)
    /\ stack' = [stack EXCEPT ![p] = <<>>]
    /\ Settle(p)
    /\ UNCHANGED <<enabled, online, published, overlapped, edits>>

(* The publisher dies, or its transaction fails after the event: what the    *)
(* handlers committed stays.                                                 *)
Die(p) ==
    /\ stack[p] # <<>>
    /\ stack' = [stack EXCEPT ![p] = <<>>]
    /\ Settle(p)
    /\ UNCHANGED <<db, enabled, online, published, overlapped, edits>>

-----------------------------------------------------------------------------
(* A request or task changes the conversation, or creates it, and publishes. *)
(* What it writes is flushed, so it waits for the row here.                  *)
Publish(p, s) ==
    LET own == Session(<<p>>, s.depth, <<>>, conv, "transaction")
        base == [own EXCEPT !.seen = s.sets @@ (IF s.creates THEN NewConversation ELSE conv),
                            !.dirty = IF s.creates THEN Columns ELSE DOMAIN s.sets]
    IN  /\ p \notin published
        /\ s.creates = (conv = NoConversation)
        /\ s.creates => \A q \in Publishers : stack[q] = <<>>
        /\ s.creates \/ \A c \in DOMAIN s.sets : conv[c] # s.sets[c]
        /\ DOMAIN s.sets # {} => \A q \in Publishers : \A i \in Open(q) : stack[q][i].dirty = {}
        /\ IF s.inline
           THEN /\ conv.user = "nobody" /\ conv.status # "CLOSED"
                /\ stack' = [stack EXCEPT ![p] =
                      <<Session(<<p>>, s.depth, Matching(s.event), conv, "caller")>>]
           ELSE stack' = [stack EXCEPT ![p] = <<base>> \o Handlers(<<p>>, s.event, s.depth)]
        /\ published' = published \cup {p}
        /\ UNCHANGED <<db, enabled, online, pending, overlapped, edits>>

(* routes.py: an administrator switches an automation on or off. *)
SetEnabled(a) ==
    /\ edits < MaxEdits /\ edits' = edits + 1
    /\ enabled' = IF a \in enabled THEN enabled \ {a} ELSE enabled \cup {a}
    /\ UNCHANGED <<db, online, stack, pending, published, overlapped>>

(* set_status: the agent comes ONLINE or goes away. *)
SetStatus ==
    /\ edits < MaxEdits /\ edits' = edits + 1
    /\ online' = ~online
    /\ UNCHANGED <<db, enabled, stack, pending, published, overlapped>>

(* tags/router.py: an agent tags the conversation, which tags its tickets,   *)
(* takes a tag off, or deletes it from the organization.  Short              *)
(* transactions, which wait for the keys they write.                         *)
Unheld(rows) == \A q \in Publishers : \A i \in Open(q) : RowsOf(stack[q][i]) \cap rows = {}
Edit(rows) ==
    /\ edits < MaxEdits /\ edits' = edits + 1
    /\ conv # NoConversation
    /\ Unheld(rows)
    /\ overlapped' = (overlapped \/ \E q \in Publishers : Touched(q))
    /\ UNCHANGED <<conv, tickets, records, enabled, online, stack, pending, published>>

Linked(n) == ({"conversation"} \cup tickets) \X {n}
AgentTags(n) ==
    /\ Edit({<<"tag", n>>} \cup Linked(n))
    /\ tags' = tags \cup {n} /\ links' = links \cup Linked(n)
AgentUntags(n) ==
    /\ <<"conversation", n>> \in links
    /\ Edit(Linked(n))
    /\ links' = links \ Linked(n) /\ tags' = tags
DeleteTag(n) ==
    /\ n \in tags
    /\ Edit({<<t, n>> : t \in Targets})
    /\ tags' = tags \ {n} /\ links' = {l \in links : l[2] # n}

-----------------------------------------------------------------------------
Init ==
    /\ conv \in {NoConversation} \cup {[NewConversation EXCEPT !.team = t] : t \in Teams}
    /\ tags = {} /\ links = {}
    /\ tickets \in IF conv = NoConversation THEN {{}} ELSE {{}, {Manual}}
    /\ records = {}
    /\ enabled = Automations /\ online \in BOOLEAN
    /\ stack = [p \in Publishers |-> <<>>]
    /\ pending = [p \in Publishers |-> NoResult]
    /\ published = {} /\ overlapped = FALSE /\ edits = 0

Progress(p) ==
    \/ Begin(p) \/ Execute(p) \/ Write(p) \/ Break(p) \/ Victim(p)
    \/ Return(p) \/ Commit(p) \/ Close(p) \/ CommitCaller(p)

Next ==
    \/ \E p \in Publishers : Progress(p) \/ Die(p) \/ \E s \in Sources : Publish(p, s)
    \/ SetStatus \/ \E a \in Switchable : SetEnabled(a)
    \/ \E n \in Tags : AgentTags(n) \/ AgentUntags(n) \/ DeleteTag(n)

Spec == Init /\ [][Next]_vars

(* Publishers and handlers run on; nothing makes an event happen. *)
FairSpec == Spec /\ \A p \in Publishers : WF_vars(Progress(p))

-----------------------------------------------------------------------------
(* Types: in particular no session and no row holds a value that the columns *)
(* do not have.                                                              *)
RowOK(c) == \/ c = NoConversation
            \/ DOMAIN c = Columns /\ \A x \in Columns : c[x] \in Values[x]
TypeOK ==
    /\ RowOK(conv)
    /\ tags \subseteq Tags /\ links \subseteq Targets \X Tags
    /\ tickets \subseteq Tickets /\ enabled \subseteq Automations /\ online \in BOOLEAN
    /\ published \subseteq Publishers /\ overlapped \in BOOLEAN /\ edits \in 0..MaxEdits
    /\ \A p \in Publishers : \A i \in Open(p) :
          LET f == stack[p][i]
          IN  /\ RowOK(f.seen) /\ f.dirty \subseteq Columns
              /\ (f.kind = "handler") = (i > 1)
              /\ f.newTags \subseteq Tags /\ f.made \subseteq Tickets
              /\ f.plus \cap f.minus = {} /\ f.minus \subseteq Targets \X Tags

(* However automations call for each other, a request holds at most three    *)
(* sessions besides its own (MAX_EXECUTION_DEPTH): the connection pool is    *)
(* not drained by a rule that triggers itself.                               *)
SessionsBounded == \A p \in Publishers : Len(stack[p]) <= 1 + MaxExecutionDepth

(* What _run_automation commits is true to itself: no execution is left      *)
(* RUNNING, COMPLETED means that every action was, FAILED that a first one   *)
(* failed and none was tried after it.                                       *)
RecordsTellTruth ==
    \A r \in records :
        LET n == Len(r.steps)
            whole == n = Len(Rule[r.automation].actions)
        IN  \/ /\ r.status = "COMPLETED" /\ whole
               /\ \A i \in 1..n : r.steps[i] = "COMPLETED"
            \/ /\ r.status = "FAILED"
               /\ \/ n = 0 /\ Rule[r.automation].condition.field = "malformed"
                  \/ n > 0 /\ r.steps[n] = "FAILED" /\ \A i \in 1..(n-1) : r.steps[i] = "COMPLETED"
            \/ r.status = "SKIPPED" /\ n = 0

(* Unless two sessions worked on them at a time, a conversation and its      *)
(* tickets carry the same tags and there is one automation ticket at most.   *)
TicketsInStep ==
    ~overlapped => /\ \A t \in tickets : \A n \in Tags :
                         <<t, n>> \in links <=> <<"conversation", n>> \in links
                   /\ Cardinality(tickets \ {Manual}) <= 1

(* p will not go on by itself: its running session waits for a transaction   *)
(* that waits for it, through publish, where PostgreSQL does not see it.     *)
Stuck(p) ==
    \/ WaitsFor(p, p)
    \/ \E q \in Publishers \ {p} : WaitsFor(p, q) /\ (WaitsFor(q, q) \/ WaitsFor(q, p))

(* Every event's handling ends, except where publisher and handler wait for  *)
(* each other.                                                               *)
EventsEnd == \A p \in Publishers : (p \in published) ~> (stack[p] = <<>> \/ Stuck(p))
=============================================================================
