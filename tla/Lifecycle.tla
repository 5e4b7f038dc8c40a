------------------------------ MODULE Lifecycle ------------------------------
(***************************************************************************)
(* One conversation, its status and priority, and the SLA timers that      *)
(* follow them: what starts, completes, resumes and breaches a timer.      *)
(*                                                                         *)
(* A session loads the conversation, flushes the columns it changes (the   *)
(* row is then locked), reads the timers and commits.  A session writes a  *)
(* timer by its id, over whatever another one has committed since; waiting *)
(* for the other's lock first makes no difference.  The timers of other    *)
(* conversations do not meet these.  A mail that joins the conversation    *)
(* touches neither its status nor its timers, and has no action.           *)
(***************************************************************************)
EXTENDS BusinessHours, Sequences, Functions

CONSTANTS
    HasHours,       \* the organization has default business hours
    Sessions,       \* requests and tasks at work on the conversation
    Beat,           \* process_sla_breaches
    Priorities,
    Policies,       \* enabled SLA policies: [first, resolution, priority]
    AnyPriority,            \* a policy's applies_to without a priority
    NoRow,          \* the conversation has not been created
    Horizon,        \* bound: the clock stops here
    MaxOps,         \* bound: transactions, those of Beat and the creation not counted
    MaxFailures     \* bound: transactions that roll back

(* OPEN stands for PENDING and WAITING_FOR_AGENT too: no timer tells them apart. *)
Statuses == {"OPEN", "CLOSED"}
Types == {"FIRST_RESPONSE", "RESOLUTION"}

ASSUME LifecycleAssumption ==
    /\ Beat \notin Sessions /\ HasHours \in BOOLEAN
    /\ NoRow \notin [status : Statuses, priority : Priorities]
    /\ Policies \subseteq [first : Nat, resolution : Nat, priority : Priorities \cup {AnyPriority}]
    /\ {Horizon, MaxOps, MaxFailures} \subseteq Nat

VARIABLES
    clock,
    conv,       \* the committed row
    timers,     \* the committed timers, in the order of their insertion
    work,       \* what each session is at
    ops, failures,
    earned      \* committed: "reply" of an agent, "close" by an agent

vars == <<clock, conv, timers, work, ops, failures, earned>>

ConvRow == [status : Statuses, priority : Priorities]
Timer == [type : Types, policy : Policies, started : Nat, due : Nat,
          status : {"RUNNING", "PAUSED", "COMPLETED", "BREACHED"}]

(* What a session does.  "sets" are the columns it is asked to write.        *)
Kinds == {"update", "reply", "message", "priority", "status", "scan"}
Columns == [status : Statuses] \cup [priority : Priorities] \cup ConvRow \cup {<<>>}
Nothing == <<>>

AtIdle == [at |-> "idle", kind |-> "scan", sets |-> Nothing, seen |-> NoRow, row |-> NoRow,
           changes |-> Nothing, new |-> <<>>]

(* at: "loaded", the conversation is; "flushed", its changes are and the     *)
(* timers are read.  seen: the conversation as loaded; row: as it stands in  *)
(* the session; changes: the status to write to timers; new: timers to add.  *)
TypeOK ==
    /\ clock \in 0..Horizon
    /\ conv \in ConvRow \cup {NoRow}
    /\ timers \in Seq(Timer)
    /\ earned \subseteq {"reply", "close"}
    /\ \A s \in Sessions \cup {Beat} :
         /\ work[s].at \in {"idle", "loaded", "flushed"}
         /\ work[s].kind \in Kinds /\ work[s].sets \in Columns
         /\ s # Beat /\ work[s].at # "idle" => work[s].row \in ConvRow
         /\ DOMAIN work[s].changes \subseteq DOMAIN timers
         /\ work[s].new \in Seq(Timer)

Init ==
    /\ clock = 0
    /\ conv = NoRow /\ timers = <<>>
    /\ work = [s \in Sessions \cup {Beat} |-> AtIdle]
    /\ ops = 0 /\ failures = 0 /\ earned = {}

-----------------------------------------------------------------------------
(* Timers *)

Live(timer) == timer.status \in {"RUNNING", "PAUSED"}
Running(timer) == timer.status = "RUNNING"
Ids(ts, Test(_)) == {i \in DOMAIN ts : Test(ts[i])}

Matching(priority) == {p \in Policies : p.priority \in {priority, AnyPriority}}
MinutesOf(policy, type) == IF type = "FIRST_RESPONSE" THEN policy.first ELSE policy.resolution
DueTimes ==
    [now \in 0..Horizon |-> [minutes \in {p.first : p \in Policies} \cup {p.resolution : p \in Policies} |->
        IF HasHours THEN AddBusinessMinutes(now, minutes) ELSE now + minutes * Minute]]

Started(type, policy) ==
    [type |-> type, policy |-> policy, started |-> clock,
     due |-> DueTimes[clock][MinutesOf(policy, type)], status |-> "RUNNING"]

(* The types of which the policy starts a timer: those without one that is   *)
(* live.                                                                     *)
Missing(policy) ==
    {type \in Types : \A i \in DOMAIN timers : ~(Live(timers[i]) /\ timers[i].type = type)}

(* start_timers_for_conversation: the policy the query returns first starts  *)
(* every timer there is to start; the others find its timers.                *)
TimersOf(policy) ==
    LET start(type) == IF type \in Missing(policy) THEN <<Started(type, policy)>> ELSE <<>>
    IN start("FIRST_RESPONSE") \o start("RESOLUTION")
Starts(priority) ==
    IF Matching(priority) = {} THEN {<<>>} ELSE {TimersOf(p) : p \in Matching(priority)}

(* The overdue timers of check_breaches.  A definition named X_Fault is X with *)
(* one plausible bug, which no action uses.                                  *)
Overdue_OfOpen ==
    IF conv = NoRow \/ conv.status = "CLOSED" THEN {}
    ELSE {i \in Ids(timers, Running) : timers[i].due < clock}
Overdue == {i \in Ids(timers, Running) : timers[i].due < clock}

-----------------------------------------------------------------------------
(* The conversation *)

(* The columns a session writes: those that differ from what it has loaded. *)
Changed(w) == [name \in {n \in DOMAIN w.sets : w.sets[n] # w.seen[n]} |-> w.sets[name]]
Overwrite(row, columns) == [name \in DOMAIN row |-> IF name \in DOMAIN columns THEN columns[name] ELSE row[name]]

HasRowLock_AtCommit(s) == FALSE
HasRowLock(s) == work[s].at = "flushed" /\ Changed(work[s]) # Nothing

(* Which timers the session starts, completes and resumes, seen from the     *)
(* conversation as loaded and as it is after the flush.                      *)
StartsTimers(w) ==
    \/ w.kind = "update" /\ w.row.priority # w.seen.priority
    \/ w.kind = "priority"
Closes(w) == w.kind = "update" /\ w.seen.status # "CLOSED" /\ w.row.status = "CLOSED"
Reopens(w) == w.kind \in {"update", "reply", "message"}
              /\ w.seen.status = "CLOSED" /\ w.row.status # "CLOSED"
Completes_EveryType(w) == IF Closes(w) \/ w.kind = "reply" THEN Types ELSE {}
Completes(w) ==
    (IF Closes(w) THEN {"RESOLUTION"} ELSE {}) \cup (IF w.kind = "reply" THEN {"FIRST_RESPONSE"} ELSE {})

-----------------------------------------------------------------------------
(* Sessions *)

Opens(s, kind, sets) ==
    /\ work[s].at = "idle" /\ ops < MaxOps
    /\ ops' = ops + 1
    /\ work' = [work EXCEPT ![s] =
         [AtIdle EXCEPT !.at = "loaded", !.kind = kind, !.sets = sets, !.seen = conv, !.row = conv]]
    /\ UNCHANGED <<clock, conv, timers, failures, earned>>

(* _create_from_incoming, and receive_inbound's first mail of a thread; it   *)
(* is one step, as nobody else sees the conversation before the commit.      *)
Create ==
    /\ conv = NoRow
    /\ \E priority \in Priorities : \E new \in Starts(priority) :
         conv' = [status |-> "OPEN", priority |-> priority] /\ timers' = new
    /\ UNCHANGED <<clock, work, ops, failures, earned>>

(* update_conversation: PATCH with a new status, a new priority or both (the *)
(* ORM does not write what is not new).                                      *)
Update(s) ==
    \E sets \in Columns \ {Nothing} :
        /\ conv # NoRow /\ \A n \in DOMAIN sets : sets[n] # conv[n]
        /\ Opens(s, "update", sets)

(* A message reopens a conversation that its session saw CLOSED.  "reply" is *)
(* add_agent_message of an agent; "message" is the customer's, the AI's, the *)
(* system's or an e-mail reply, none of which completes a timer.             *)
Message(s) ==
    /\ conv # NoRow
    /\ \E kind \in {"reply", "message"} :
         Opens(s, kind, IF conv.status = "CLOSED" THEN [status |-> "OPEN"] ELSE Nothing)

(* The automation's _set_priority, which returns early when it has nothing   *)
(* to change.                                                                *)
SetPriority(s) ==
    /\ conv # NoRow
    /\ \E p \in Priorities \ {conv.priority} : Opens(s, "priority", [priority |-> p])

(* The automation's _set_status, and the services that set a status by       *)
(* themselves: AI off and nobody ONLINE, a missed chat, a timeout of the AI. *)
SetStatus(s) ==
    /\ conv # NoRow
    /\ \E status \in Statuses \ {conv.status} : Opens(s, "status", [status |-> status])

(* The flush, which waits for the row (update_conversation then refreshes    *)
(* it), and the selects of SLAService.  What commits between the two has not *)
(* written the row.  Timers just started are completed at once.              *)
Act(s) ==
    /\ work[s].at = "loaded"
    /\ Changed(work[s]) # Nothing => \A o \in Sessions \ {s} : ~HasRowLock(o)
    /\ LET row == Overwrite(IF work[s].kind = "update" THEN conv ELSE work[s].seen, Changed(work[s]))
           w == [work[s] EXCEPT !.at = "flushed", !.row = row]
           done(timer) == Live(timer) /\ timer.type \in Completes(w)
           paused(timer) == timer.status = "PAUSED" /\ Reopens(w)
       IN \E new \in IF StartsTimers(w) THEN Starts(row.priority) ELSE {<<>>} :
            work' = [work EXCEPT ![s] = [w EXCEPT
                 !.new = [i \in DOMAIN new |->
                    IF done(new[i]) THEN [new[i] EXCEPT !.status = "COMPLETED"] ELSE new[i]],
                 !.changes = [i \in Ids(timers, done) \cup Ids(timers, paused) |->
                    IF done(timers[i]) THEN "COMPLETED" ELSE "RUNNING"]]]
    /\ UNCHANGED <<clock, conv, timers, ops, failures, earned>>

Applied(changes) ==
    [i \in DOMAIN timers |-> IF i \in DOMAIN changes THEN [timers[i] EXCEPT !.status = changes[i]] ELSE timers[i]]

Commit(s) ==
    /\ work[s].at = "flushed"
    /\ LET w == work[s]
       IN /\ conv' = Overwrite(conv, Changed(w))
          /\ timers' = Applied(w.changes) \o w.new
          /\ earned' = earned \cup (IF w.kind = "reply" THEN {"reply"} ELSE {})
                              \cup (IF Closes(w) THEN {"close"} ELSE {})
    /\ work' = [work EXCEPT ![s] = AtIdle]
    /\ UNCHANGED <<clock, ops, failures>>

(* process_sla_breaches, every minute. *)
Scan ==
    /\ work[Beat].at = "idle" /\ Overdue # {}
    /\ work' = [work EXCEPT ![Beat] =
         [AtIdle EXCEPT !.at = "flushed", !.changes = [i \in Overdue |-> "BREACHED"]]]
    /\ UNCHANGED <<clock, conv, timers, ops, failures, earned>>

CommitScan ==
    /\ work[Beat].at = "flushed"
    /\ timers' = Applied(work[Beat].changes)
    /\ work' = [work EXCEPT ![Beat] = AtIdle]
    /\ UNCHANGED <<clock, conv, ops, failures, earned>>

(* A statement fails or the process dies: nothing is committed. *)
Fail(s) ==
    /\ work[s].at # "idle" /\ failures < MaxFailures
    /\ failures' = failures + 1
    /\ work' = [work EXCEPT ![s] = AtIdle]
    /\ UNCHANGED <<clock, conv, timers, ops, earned>>

Tick ==
    /\ clock < Horizon /\ clock' = clock + 1
    /\ UNCHANGED <<conv, timers, work, ops, failures, earned>>

-----------------------------------------------------------------------------
Begin(s) == Update(s) \/ Message(s) \/ SetPriority(s) \/ SetStatus(s)
Proceed(s) == Act(s) \/ Commit(s)

Next ==
    \/ Create
    \/ \E s \in Sessions : Begin(s) \/ Proceed(s)
    \/ Scan \/ CommitScan
    \/ \E s \in Sessions \cup {Beat} : Fail(s)
    \/ Tick

Spec == Init /\ [][Next]_vars

(* Beat runs every minute, and transactions end. *)
FairSpec ==
    /\ Spec
    /\ \A s \in Sessions : WF_vars(Proceed(s))
    /\ WF_vars(Scan) /\ WF_vars(CommitScan)

-----------------------------------------------------------------------------
(* Properties *)

(* A conversation has one clock of each type at most, whatever its priority  *)
(* goes through, whichever policies match and however sessions interleave:   *)
(* who starts timers has written the row first and keeps it locked.          *)
OneClock ==
    \A i, j \in Ids(timers, Live) : timers[i].type = timers[j].type => i = j

(* A first response is completed only if an agent has answered, a resolution *)
(* only if an agent has closed the conversation, and the two by themselves:  *)
(* an agent who answers does not stop the other clock, and a transaction     *)
(* that fails stops none.                                                    *)
CompletedIsEarned ==
    \A i \in DOMAIN timers : timers[i].status = "COMPLETED" =>
        (IF timers[i].type = "FIRST_RESPONSE" THEN "reply" ELSE "close") \in earned

OpenUnits(from, to) == Cardinality({t \in from..to - 1 : IsOpen(t)})

(* The answers of the business hours agree.  A timer started under them is   *)
(* due within them, when its minutes of open time have gone by and less than *)
(* one more; and the next opening, from every instant, is the first instant  *)
(* at which it is open.  (next_open_time also offers a day that has only an  *)
(* opening time, which is_open never finds open.)                            *)
DueInHours(timer) ==
    LET minutes == MinutesOf(timer.policy, timer.type)
        open == OpenUnits(timer.started, timer.due)
    IN IF HasHours
       THEN /\ IsOpen(timer.due - 1)
            /\ minutes * Minute <= open /\ open < (minutes + 1) * Minute
       ELSE timer.due = timer.started + minutes * Minute
NextOpenIsFirst ==
    LET next == NextOpen(clock)
    IN next # NoTime /\ Row(DayOf(next)).close # NoTime =>
         next >= clock /\ IsOpen(next) /\ OpenUnits(clock, next) = 0
NextCloseIsFirst ==
    LET next == NextClose(clock)
    IN next # NoTime => ~IsOpen(next) /\ OpenUnits(clock, next) = next - clock

(* They do if days close after they open, policies give at least a minute    *)
(* and the walk ends because no minutes are left.                            *)
HoursSound ==
    /\ OpensBeforeCloses
    /\ \A p \in Policies : p.first > 0 /\ p.resolution > 0
    /\ HasHours => \A now \in 0..Horizon, p \in Policies :
                      Walk(now, p.first).left = 0 /\ Walk(now, p.resolution).left = 0
HoursAgree ==
    /\ \A i \in DOMAIN timers : DueInHours(timers[i])
    /\ NextOpenIsFirst /\ NextCloseIsFirst

(* A clock that has run out does not stay RUNNING: again and again there is  *)
(* none, since beat finds it or somebody completes it, however transactions  *)
(* interleave and fail.                                                      *)
LateIsNoticed ==
    []<> \A i \in DOMAIN timers : timers[i].status = "RUNNING" => timers[i].due >= clock
=============================================================================
