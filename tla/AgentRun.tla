------------------------------ MODULE AgentRun ------------------------------
(***************************************************************************)
(* The AI pipeline of one conversation.                                    *)
(*                                                                         *)
(* A customer message is committed and enqueued; a Celery worker runs the  *)
(* support agent on it and answers, stores a suggestion or escalates to a  *)
(* ticket; the beat task and the widget's polling request escalate what    *)
(* stays unanswered too long; a human agent takes over, replies, closes,   *)
(* resolves tickets, regenerates suggestions and changes the settings.     *)
(*                                                                         *)
(* Every process works in a database session of its own.  One action is    *)
(* what a session does up to its next commit or its next long wait (the    *)
(* LLM, the mail server, a row lock): the values a session has loaded      *)
(* before the wait are kept in its record and used, possibly stale, after. *)
(***************************************************************************)
EXTENDS Naturals, Sequences, FiniteSets

CONSTANTS
    Channel,          \* the conversation's channel, "WEB_CHAT" or "EMAIL"
    Runners,          \* sessions that run the support agent (workers, API)
    Checkers,         \* sessions that look for response timeouts (beat, API)
    MaxMsgs,          \* bound: customer messages
    MaxRedeliveries,  \* bound: tasks the broker delivers a second time
    MaxRegens,        \* bound: "regenerate" requests of human agents
    MaxAborts,        \* bound: sessions that fail or crash midway
    MaxActs           \* bound: interventions of human agents and admins

ASSUME ChannelAssumption == Channel \in {"WEB_CHAT", "EMAIL"}
ASSUME BoundsAssumption ==
    /\ MaxMsgs \in Nat /\ MaxRedeliveries \in Nat /\ MaxRegens \in Nat
    /\ MaxAborts \in Nat /\ MaxActs \in Nat

VARIABLES
    posted,    \* customer messages 1..posted are committed
    queue,     \* process_ai_message tasks waiting in the broker, per message
    control,   \* conversations.ai_control_mode
    status,    \* conversations.status
    enabled,   \* ai_configs.enabled
    mode,      \* ai_configs.mode, as resolved for the channel
    run,       \* committed status of the message's AGENT row in ai_runs
    aiMsgs,    \* committed AI messages whose trigger is the message
    answers,   \* those of them that answer, the others being ticket notices
    emails,    \* answers handed to the mail server for the message
    suggested, \* messages with a stored suggestion
    covered,   \* the customer has a response later than message 1..covered
    told,      \* messages whose customer was told a ticket exists
    stamped,   \* messages with metadata.timeout_ticket_id
    tickets,   \* the conversation's tickets, oldest first
    overdue,   \* messages older than ai_response_timeout_seconds
    runner,    \* session state of each runner
    checker,   \* session state of each checker
    spent      \* how much of each bound is used up

conv  == <<control, status>>
conf  == <<enabled, mode>>
feed  == <<posted, queue, overdue>>
reply == <<aiMsgs, answers, emails, suggested>>
desk  == <<told, stamped, tickets>>
vars  == <<posted, queue, control, status, enabled, mode, run, aiMsgs, answers,
           emails, suggested, covered, told, stamped, tickets, overdue, runner,
           checker, spent>>

-----------------------------------------------------------------------------
(* Types *)

Msgs        == 1..MaxMsgs
AIControl   == {"AI_CONTROL", "HUMAN_CONTROL"}
ConvStatus  == {"OPEN", "PENDING", "WAITING_FOR_AGENT", "CLOSED"}
AIMode      == {"SUGGEST", "DRAFT_ONLY", "AUTO_REPLY"}
AIRunStatus == {"NONE", "PENDING", "RUNNING", "COMPLETED", "FAILED"}
Source      == {"AI_ESCALATION", "AUTOMATION", "AGENT_CREATED"}
Ticket      == [source : Source, trigger : Nat, open : BOOLEAN]
Decision    == {"SUGGEST_ONLY", "SOFT_REPLY", "AI_RESOLVE", "ESCALATE"}

(* A runner has loaded the conversation's control and status before the LLM *)
(* runs; `dirty` says that it holds an uncommitted write of the run's row,  *)
(* `seen` that its transaction began after messages 1..seen.                *)
RunnerState ==
    [pc     : {"idle", "ready", "thinking", "replying", "sent",
               "escalating", "notifying"},
     msg    : 0..MaxMsgs, force : BOOLEAN, human : BOOLEAN, closed : BOOLEAN,
     mode   : AIMode, seen : 0..MaxMsgs, dirty : BOOLEAN, notify : BOOLEAN]

CheckerState ==
    [pc : {"idle", "creating", "noticing", "stamping"}, msg : 0..MaxMsgs,
     pending : BOOLEAN]

IdleRunner  == [pc |-> "idle", msg |-> 0, force |-> FALSE, human |-> FALSE,
                closed |-> FALSE, mode |-> "SUGGEST", seen |-> 0,
                dirty |-> FALSE, notify |-> FALSE]
IdleChecker == [pc |-> "idle", msg |-> 0, pending |-> FALSE]

Bounded == {"redeliveries", "regens", "aborts", "acts"}

(* A busy session is about a message. *)
RunnersOK ==
    /\ runner \in [Runners -> RunnerState]
    /\ \A r \in Runners : runner[r].pc = "idle" \/ runner[r].msg \in Msgs
CheckersOK ==
    /\ checker \in [Checkers -> CheckerState]
    /\ \A c \in Checkers : checker[c].pc = "idle" \/ checker[c].msg \in Msgs

(* Every variable stays in its type. *)
TypeOK ==
    /\ posted \in 0..MaxMsgs
    /\ queue \in [Msgs -> Nat]
    /\ control \in AIControl
    /\ status \in ConvStatus
    /\ enabled \in BOOLEAN
    /\ mode \in AIMode
    /\ run \in [Msgs -> AIRunStatus]
    /\ aiMsgs \in [Msgs -> Nat]
    /\ answers \in [Msgs -> Nat]
    /\ emails \in [Msgs -> Nat]
    /\ suggested \subseteq Msgs
    /\ covered \in 0..MaxMsgs
    /\ told \subseteq Msgs
    /\ stamped \subseteq Msgs
    /\ tickets \in Seq(Ticket)
    /\ overdue \subseteq Msgs
    /\ RunnersOK
    /\ CheckersOK
    /\ spent \in [Bounded -> Nat]

Init ==
    /\ posted = 0
    /\ queue = [m \in Msgs |-> 0]
    /\ control = "AI_CONTROL"
    /\ status = "OPEN"
    /\ enabled = TRUE
    /\ mode = "AUTO_REPLY"
    /\ run = [m \in Msgs |-> "NONE"]
    /\ aiMsgs = [m \in Msgs |-> 0]
    /\ answers = [m \in Msgs |-> 0]
    /\ emails = [m \in Msgs |-> 0]
    /\ suggested = {}
    /\ covered = 0
    /\ told = {}
    /\ stamped = {}
    /\ tickets = <<>>
    /\ overdue = {}
    /\ runner = [r \in Runners |-> IdleRunner]
    /\ checker = [c \in Checkers |-> IdleChecker]
    /\ spent = [b \in Bounded |-> 0]

-----------------------------------------------------------------------------
(* Helpers.  A definition named X_Fault is X with one plausible bug; no        *)
(* action uses it, it serves to see that the properties notice the bug.      *)

Spend(b, max) == spent[b] < max /\ spent' = [spent EXCEPT ![b] = @ + 1]

Later(a, b) == IF a > b THEN a ELSE b

(* AIResponseTimeoutService._has_customer_response, as the committed rows    *)
(* answer it: a stamped message, or a later public message of an agent, of   *)
(* the AI, or an offline or timeout notice.                                  *)
HasCustomerResponse(m) == m \in stamped \/ m <= covered

Unanswered == {m \in Msgs : m <= posted /\ ~HasCustomerResponse(m)}

OpenTicket == \E i \in DOMAIN tickets : tickets[i].open

NewTicket(source, trigger) ==
    tickets' = Append(tickets, [source |-> source, trigger |-> trigger, open |-> TRUE])

(* The run was already picked up: process_customer_message and              *)
(* _acquire_agent_run leave it alone unless they are forced.                *)
Taken(m) == run[m] \in {"PENDING", "RUNNING", "COMPLETED"}

(* Another session has an uncommitted write of the run's row: an INSERT with *)
(* the same processing_key, or an UPDATE of the row, waits for its end.      *)
Locked_NoUniqueKey(r) == FALSE
Locked(r) ==
    \E q \in Runners \ {r} : runner[q].dirty /\ runner[q].msg = runner[r].msg

(* What evaluate_escalation can decide under the mode the run started with. *)
Decisions(startMode) ==
    IF startMode = "SUGGEST" THEN {"SUGGEST_ONLY"}
                             ELSE {"SOFT_REPLY", "AI_RESOLVE", "ESCALATE"}

RunnerIs(r, s)  == runner' = [runner EXCEPT ![r] = s]
CheckerIs(c, s) == checker' = [checker EXCEPT ![c] = s]
Goto(r, pc)     == RunnerIs(r, [runner[r] EXCEPT !.pc = pc])
Stop(r)         == RunnerIs(r, IdleRunner)
Release(c)      == CheckerIs(c, IdleChecker)

(* The session commits the run's row as COMPLETED. *)
CommitRun(r) == run' = [run EXCEPT ![runner[r].msg] = "COMPLETED"]

-----------------------------------------------------------------------------
(* The customer *)

(* add_public_message (a closed chat is reopened) or receive_inbound (a      *)
(* closed mail conversation is not), then _publish_message: commit first,    *)
(* enqueue after it, and a failing enqueue is only logged.                   *)
PostMessage ==
    /\ posted < MaxMsgs
    /\ posted' = posted + 1
    /\ status' = IF Channel = "WEB_CHAT" /\ status = "CLOSED" THEN "OPEN" ELSE status
    /\ \E enqueued \in {0, 1} : queue' = [queue EXCEPT ![posted + 1] = @ + enqueued]
    /\ UNCHANGED <<control, conf, run, reply, covered, desk, overdue, runner, checker, spent>>

(* The broker delivers a task again, as it may after its visibility timeout. *)
Redeliver(m) ==
    /\ m <= posted
    /\ Spend("redeliveries", MaxRedeliveries)
    /\ queue' = [queue EXCEPT ![m] = @ + 1]
    /\ UNCHANGED <<posted, overdue, conv, conf, run, reply, covered, desk, runner, checker>>

(* A message becomes older than the response timeout, oldest first. *)
TimePasses(m) ==
    /\ m <= posted
    /\ m \notin overdue
    /\ \A k \in Msgs : k < m => k \in overdue
    /\ overdue' = overdue \cup {m}
    /\ UNCHANGED <<posted, queue, conv, conf, run, reply, covered, desk, runner, checker, spent>>

-----------------------------------------------------------------------------
(* The worker: process_customer_message *)

Dequeue(r, m) ==
    /\ runner[r].pc = "idle"
    /\ queue[m] > 0
    /\ queue' = [queue EXCEPT ![m] = @ - 1]

(* AI is off: route_incoming_if_ai_disabled finds an agent for the           *)
(* conversation, or leaves it waiting with a public offline notice.          *)
RouteToHuman(r, m) ==
    /\ Dequeue(r, m)
    /\ ~enabled
    /\ \/ UNCHANGED <<status, covered>>
       \/ /\ status' = "WAITING_FOR_AGENT"
          /\ covered' = Later(covered, posted)
    /\ UNCHANGED <<posted, overdue, control, conf, run, reply, desk, runner, checker, spent>>

(* A human has control, or the run was already taken: nothing to do. *)
DropTask(r, m) ==
    /\ Dequeue(r, m)
    /\ enabled
    /\ control = "HUMAN_CONTROL" \/ Taken(m)
    /\ UNCHANGED <<posted, overdue, conv, conf, run, reply, covered, desk, runner, checker, spent>>

(* The session's copy of the conversation and of its mode. *)
Load_IgnoresControl(m, forced) ==
    [IdleRunner EXCEPT !.pc = "ready", !.msg = m, !.force = forced,
        !.closed = (status = "CLOSED"), !.seen = posted]
Load(m, forced) ==
    [IdleRunner EXCEPT !.pc = "ready", !.msg = m, !.force = forced,
        !.human = (control = "HUMAN_CONTROL"), !.closed = (status = "CLOSED"),
        !.seen = posted]

StartTask(r, m) ==
    /\ Dequeue(r, m)
    /\ enabled
    /\ control = "AI_CONTROL"
    /\ ~Taken(m)
    /\ RunnerIs(r, Load(m, FALSE))
    /\ UNCHANGED <<posted, overdue, conv, conf, run, reply, covered, desk, checker, spent>>

(* ConversationService.regenerate_suggestion, up to run_support_agent: a     *)
(* human agent asks for a new suggestion in place of a stored one.           *)
Regenerate(r, m) ==
    /\ runner[r].pc = "idle"
    /\ m \in suggested
    /\ Spend("regens", MaxRegens)
    /\ RunnerIs(r, Load(m, TRUE))
    /\ UNCHANGED <<feed, conv, conf, run, reply, covered, desk, checker>>

(* run_support_agent refuses when AI is off, and _acquire_agent_run returns  *)
(* the existing row, read beforehand or found after the unique key failed.   *)
RefuseRun(r) ==
    /\ runner[r].pc = "ready"
    /\ ~enabled \/ (~runner[r].force /\ Taken(runner[r].msg))
    /\ Stop(r)
    /\ UNCHANGED <<feed, conv, conf, run, reply, covered, desk, checker, spent>>

(* _acquire_agent_run inserts the row, or resets a failed or forced one, and *)
(* the row is flushed as RUNNING but not committed.                          *)
AcquireRun_CommitsRow(r) ==
    /\ runner[r].pc = "ready" /\ enabled /\ ~Locked(r)
    /\ runner[r].force \/ ~Taken(runner[r].msg)
    /\ run' = [run EXCEPT ![runner[r].msg] = "RUNNING"]
    /\ RunnerIs(r, [runner[r] EXCEPT !.pc = "thinking", !.dirty = TRUE, !.mode = mode])
    /\ UNCHANGED <<feed, conv, conf, reply, covered, desk, checker, spent>>
AcquireRun(r) ==
    /\ runner[r].pc = "ready"
    /\ enabled
    /\ runner[r].force \/ ~Taken(runner[r].msg)
    /\ ~Locked(r)
    /\ RunnerIs(r, [runner[r] EXCEPT !.pc = "thinking", !.dirty = TRUE, !.mode = mode])
    /\ UNCHANGED <<feed, conv, conf, run, reply, covered, desk, checker, spent>>

-----------------------------------------------------------------------------
(* _apply_side_effects: the configuration is read again, the conversation's  *)
(* control mode is the one loaded before the LLM ran.                        *)

Muted_ConfigNotReread(r) == runner[r].human
Muted(r) == ~enabled \/ runner[r].human

Decided(r, d) ==
    /\ runner[r].pc = "thinking"
    /\ d \in Decisions(runner[r].mode)

(* No side effect: the run alone is committed. *)
KeepSilent(r) ==
    /\ runner[r].pc = "thinking"
    /\ Muted(r)
    /\ CommitRun(r)
    /\ Stop(r)
    /\ UNCHANGED <<feed, conv, conf, reply, covered, desk, checker, spent>>

(* _save_suggestion commits; an escalation decided before the mode became    *)
(* SUGGEST still follows, without mail to the customer.                      *)
SaveSuggestion(r, d) ==
    /\ Decided(r, d)
    /\ ~Muted(r)
    /\ mode = "SUGGEST" \/ d = "SUGGEST_ONLY"
    /\ CommitRun(r)
    /\ suggested' = suggested \cup {runner[r].msg}
    /\ IF d = "ESCALATE"
       THEN RunnerIs(r, [runner[r] EXCEPT !.pc = "escalating", !.dirty = FALSE])
       ELSE Stop(r)
    /\ UNCHANGED <<feed, conv, conf, aiMsgs, answers, emails, covered, desk, checker, spent>>

MayReply(r, d) ==
    /\ Decided(r, d)
    /\ ~Muted(r)
    /\ mode # "SUGGEST"
    /\ d \in {"SOFT_REPLY", "AI_RESOLVE"}

(* _save_ai_reply: no AI message for this trigger yet. *)
StartReply(r, d) ==
    /\ MayReply(r, d)
    /\ aiMsgs[runner[r].msg] = 0
    /\ Goto(r, "replying")
    /\ UNCHANGED <<feed, conv, conf, run, reply, covered, desk, checker, spent>>

(* _save_ai_reply: one already, so the run is committed without a reply; two *)
(* make scalar_one_or_none raise, and the session is rolled back.            *)
SkipReply(r, d) ==
    /\ MayReply(r, d)
    /\ aiMsgs[runner[r].msg] > 0
    /\ \/ aiMsgs[runner[r].msg] = 1 /\ CommitRun(r)
       \/ aiMsgs[runner[r].msg] > 1 /\ UNCHANGED run
    /\ Stop(r)
    /\ UNCHANGED <<feed, conv, conf, reply, covered, desk, checker, spent>>

StartEscalation_NoticeFirst(r) ==
    /\ Decided(r, "ESCALATE") /\ ~Muted(r) /\ mode # "SUGGEST"
    /\ Goto(r, "notifying")
    /\ UNCHANGED <<feed, conv, conf, run, reply, covered, desk, checker, spent>>
StartEscalation(r) ==
    /\ Decided(r, "ESCALATE")
    /\ ~Muted(r)
    /\ mode # "SUGGEST"
    /\ RunnerIs(r, [runner[r] EXCEPT !.pc = "escalating", !.notify = (mode = "AUTO_REPLY")])
    /\ UNCHANGED <<feed, conv, conf, run, reply, covered, desk, checker, spent>>

(* _create_outbound_message on EMAIL: the mail leaves before the row is      *)
(* committed, and a failing send is kept as delivery_status FAILED.          *)
SendMail(r) ==
    /\ runner[r].pc = "replying"
    /\ Channel = "EMAIL"
    /\ \E accepted \in {0, 1} : emails' = [emails EXCEPT ![runner[r].msg] = @ + accepted]
    /\ Goto(r, "sent")
    /\ UNCHANGED <<feed, conv, conf, run, aiMsgs, answers, suggested, covered, desk, checker, spent>>

(* The outbound message reopens a conversation loaded as closed. *)
Reopened(r) == IF Channel = "EMAIL" /\ runner[r].closed THEN "OPEN" ELSE status

(* The reply and the run become visible in one commit. *)
CommitReply_WithoutRun(r) ==
    /\ runner[r].pc = IF Channel = "EMAIL" THEN "sent" ELSE "replying"
    /\ aiMsgs' = [aiMsgs EXCEPT ![runner[r].msg] = @ + 1]
    /\ answers' = [answers EXCEPT ![runner[r].msg] = @ + 1]
    /\ covered' = Later(covered, runner[r].seen)
    /\ status' = Reopened(r)
    /\ Stop(r)
    /\ UNCHANGED <<feed, control, conf, run, emails, suggested, desk, checker, spent>>
CommitReply(r) ==
    /\ runner[r].pc = IF Channel = "EMAIL" THEN "sent" ELSE "replying"
    /\ CommitRun(r)
    /\ aiMsgs' = [aiMsgs EXCEPT ![runner[r].msg] = @ + 1]
    /\ answers' = [answers EXCEPT ![runner[r].msg] = @ + 1]
    /\ covered' = Later(covered, runner[r].seen)
    /\ status' = Reopened(r)
    /\ Stop(r)
    /\ UNCHANGED <<feed, control, conf, emails, suggested, desk, checker, spent>>

(* EscalationService._create_ticket: ticket, note and run in one commit. The *)
(* conversation is refreshed here; the customer is told in a second commit.  *)
CommitEscalation(r) ==
    /\ runner[r].pc = "escalating"
    /\ CommitRun(r)
    /\ NewTicket("AI_ESCALATION", runner[r].msg)
    /\ IF Channel = "WEB_CHAT" \/ runner[r].notify
       THEN RunnerIs(r, [runner[r] EXCEPT !.pc = "notifying", !.dirty = FALSE,
                                       !.seen = posted, !.closed = (status = "CLOSED")])
       ELSE Stop(r)
    /\ UNCHANGED <<feed, conv, conf, reply, covered, told, stamped, checker, spent>>

(* The ticket notice: a SYSTEM message in a chat, which the timeout scan does *)
(* not count as a response, or an AI mail, which it does.                    *)
NotifyCustomer(r) ==
    /\ runner[r].pc = "notifying"
    /\ told' = told \cup {runner[r].msg}
    /\ IF Channel = "EMAIL"
       THEN /\ aiMsgs' = [aiMsgs EXCEPT ![runner[r].msg] = @ + 1]
            /\ covered' = Later(covered, runner[r].seen)
            /\ status' = Reopened(r)
       ELSE UNCHANGED <<aiMsgs, covered, status>>
    /\ Stop(r)
    /\ UNCHANGED <<feed, control, conf, run, answers, emails, suggested, stamped, tickets,
                   checker, spent>>

(* The session fails (the LLM, Redis, the database) or its process dies:     *)
(* run_support_agent's FAILED is flushed and then rolled back with the rest, *)
(* and Celery does not run the task again.                                   *)
AbortRun(r) ==
    /\ runner[r].pc # "idle"
    /\ Spend("aborts", MaxAborts)
    /\ Stop(r)
    /\ UNCHANGED <<feed, conv, conf, run, reply, covered, desk, checker>>

-----------------------------------------------------------------------------
(* AIResponseTimeoutService *)

(* _escalate_message: an open ticket is reused and the message stamped with  *)
(* it; otherwise the session goes on to create one.                          *)
EscalateMessage_NoReuse(c, m) ==
    /\ CheckerIs(c, [checker[c] EXCEPT !.pc = "creating", !.msg = m])
    /\ UNCHANGED <<feed, conv, conf, run, reply, covered, desk, runner, spent>>
EscalateMessage(c, m) ==
    /\ \/ OpenTicket /\ stamped' = stamped \cup {m} /\ UNCHANGED checker
       \/ ~OpenTicket /\ UNCHANGED stamped
          /\ CheckerIs(c, [checker[c] EXCEPT !.pc = "creating", !.msg = m])
    /\ UNCHANGED <<feed, conv, conf, run, reply, covered, told, tickets, runner, spent>>

MayEscalate(c, m) ==
    /\ checker[c].pc = "idle"
    /\ control = "AI_CONTROL"
    /\ enabled
    /\ m \in Unanswered
    /\ m \in overdue

(* process_timeouts (beat): only the latest unanswered message of an open or *)
(* pending conversation is looked at.                                        *)
BeatScan_UnrunOnly(c, m) ==
    /\ status \in {"OPEN", "PENDING"}
    /\ run[m] = "NONE"
    /\ \A k \in Unanswered : k <= m
    /\ MayEscalate(c, m)
    /\ EscalateMessage(c, m)
BeatScan(c, m) ==
    /\ status \in {"OPEN", "PENDING"}
    /\ \A k \in Unanswered : k <= m
    /\ MayEscalate(c, m)
    /\ EscalateMessage(c, m)

(* check_or_escalate (widget polling): the message the request names, or the *)
(* latest unanswered one, whatever the conversation's status.                *)
PublicCheck(c, m) == MayEscalate(c, m) /\ EscalateMessage(c, m)

(* create_from_ai_timeout, first commit: the ticket and the internal note.   *)
CreateTimeoutTicket(c) ==
    /\ checker[c].pc = "creating"
    /\ NewTicket("AUTOMATION", checker[c].msg)
    /\ CheckerIs(c, [checker[c] EXCEPT !.pc = "noticing", !.pending = (status = "PENDING")])
    /\ UNCHANGED <<feed, conv, conf, run, reply, covered, told, stamped, runner, spent>>

(* create_from_ai_timeout, second commit: the customer is told. *)
SendTimeoutNotice(c) ==
    /\ checker[c].pc = "noticing"
    /\ told' = told \cup {checker[c].msg}
    /\ covered' = Later(covered, posted)
    /\ CheckerIs(c, [checker[c] EXCEPT !.pc = "stamping"])
    /\ UNCHANGED <<feed, conv, conf, run, reply, stamped, tickets, runner, spent>>

(* The caller's last commit: the stamp, and PENDING unless the session had    *)
(* refreshed the conversation as pending, when no UPDATE is emitted.         *)
StampMessage(c) ==
    /\ checker[c].pc = "stamping"
    /\ stamped' = stamped \cup {checker[c].msg}
    /\ status' = IF checker[c].pending THEN status ELSE "PENDING"
    /\ Release(c)
    /\ UNCHANGED <<feed, control, conf, run, reply, covered, told, tickets, runner, spent>>

AbortCheck(c) ==
    /\ checker[c].pc # "idle"
    /\ Spend("aborts", MaxAborts)
    /\ Release(c)
    /\ UNCHANGED <<feed, conv, conf, run, reply, covered, desk, runner>>

(* MissedChatService.process_timeouts (beat): a waiting conversation becomes *)
(* pending once the missed-chat automations have run.                        *)
MissedChat ==
    /\ status = "WAITING_FOR_AGENT"
    /\ status' = "PENDING"
    /\ UNCHANGED <<feed, control, conf, run, reply, covered, desk, runner, checker, spent>>

-----------------------------------------------------------------------------
(* Human agents and administrators *)

Act == Spend("acts", MaxActs)

Takeover ==
    /\ Act
    /\ control = "AI_CONTROL"
    /\ control' = "HUMAN_CONTROL"
    /\ UNCHANGED <<feed, status, conf, run, reply, covered, desk, runner, checker>>

ReturnToAI ==
    /\ Act
    /\ control = "HUMAN_CONTROL"
    /\ control' = "AI_CONTROL"
    /\ UNCHANGED <<feed, status, conf, run, reply, covered, desk, runner, checker>>

(* add_agent_message: a later public AGENT message; reopens what was closed. *)
AgentReply ==
    /\ Act
    /\ posted > 0
    /\ covered' = posted
    /\ status' = IF status = "CLOSED" THEN "OPEN" ELSE status
    /\ UNCHANGED <<feed, control, conf, run, reply, desk, runner, checker>>

CloseConversation ==
    /\ Act
    /\ status # "CLOSED"
    /\ status' = "CLOSED"
    /\ UNCHANGED <<feed, control, conf, run, reply, covered, desk, runner, checker>>

SetConfig ==
    /\ Act
    /\ enabled' \in BOOLEAN
    /\ mode' \in AIMode
    /\ UNCHANGED <<feed, conv, run, reply, covered, desk, runner, checker>>

(* create_ticket_from_conversation *)
AgentTicket ==
    /\ Act
    /\ NewTicket("AGENT_CREATED", 0)
    /\ UNCHANGED <<feed, conv, conf, run, reply, covered, told, stamped, runner, checker>>

ResolveTicket(i) ==
    /\ Act
    /\ tickets[i].open
    /\ tickets' = [tickets EXCEPT ![i].open = FALSE]
    /\ UNCHANGED <<feed, conv, conf, run, reply, covered, told, stamped, runner, checker>>

-----------------------------------------------------------------------------

RunnerStep(r) ==
    \/ RefuseRun(r) \/ AcquireRun(r) \/ KeepSilent(r) \/ StartEscalation(r)
    \/ SendMail(r) \/ CommitReply(r) \/ CommitEscalation(r) \/ NotifyCustomer(r)
    \/ AbortRun(r)
    \/ \E m \in Msgs : \/ RouteToHuman(r, m) \/ DropTask(r, m) \/ StartTask(r, m)
                       \/ Regenerate(r, m)
    \/ \E d \in Decision : SaveSuggestion(r, d) \/ StartReply(r, d) \/ SkipReply(r, d)

CheckerStep(c) ==
    \/ CreateTimeoutTicket(c) \/ SendTimeoutNotice(c) \/ StampMessage(c)
    \/ AbortCheck(c)
    \/ \E m \in Msgs : BeatScan(c, m) \/ PublicCheck(c, m)

HumanStep ==
    \/ Takeover \/ ReturnToAI \/ AgentReply \/ CloseConversation \/ SetConfig
    \/ AgentTicket
    \/ \E i \in DOMAIN tickets : ResolveTicket(i)

Next ==
    \/ PostMessage
    \/ \E m \in Msgs : Redeliver(m) \/ TimePasses(m)
    \/ \E r \in Runners : RunnerStep(r)
    \/ \E c \in Checkers : CheckerStep(c)
    \/ MissedChat
    \/ HumanStep

Spec == Init /\ [][Next]_vars

(* Celery beat fires its tasks for ever and a session that has started its   *)
(* commits goes on with them; no fairness is asked of workers, customers,    *)
(* agents or the broker.                                                     *)
Fairness ==
    /\ \A m \in Msgs : WF_vars(TimePasses(m))
    /\ WF_vars(\E c \in Checkers, m \in Msgs : BeatScan(c, m))
    /\ \A c \in Checkers : WF_vars(CreateTimeoutTicket(c) \/ SendTimeoutNotice(c)
                                   \/ StampMessage(c))
    /\ WF_vars(MissedChat)

FairSpec == Spec /\ Fairness

-----------------------------------------------------------------------------
(* Properties *)

(* A customer message is answered by at most one AI reply, however many      *)
(* tasks and regenerate requests run on it at once: the unique               *)
(* processing_key makes the runs of a message exclude one another, and       *)
(* _ai_reply_exists is asked while the run's row is held.                    *)
AtMostOneAnswer == \A m \in Msgs : answers[m] <= 1

(* Nothing an agent run does to a conversation is visible without the run,   *)
(* COMPLETED, that did it: replies, suggestions and escalation tickets are   *)
(* committed with the row or after it, so an aborted session leaves none.    *)
SideEffectsHaveRun ==
    \A m \in Msgs :
        \/ aiMsgs[m] > 0
        \/ m \in suggested
        \/ \E i \in DOMAIN tickets : /\ tickets[i].source = "AI_ESCALATION"
                                     /\ tickets[i].trigger = m
        => run[m] = "COMPLETED"

(* No crash leaves a run PENDING or RUNNING for good, which would make every *)
(* later task for the message skip it: what is committed is settled.         *)
RunSettled == \A m \in Msgs : run[m] \in {"NONE", "COMPLETED"}

(* The customer is never told of a ticket that does not exist, and a message *)
(* is stamped only when there is a ticket to point to, even when the session *)
(* dies between the commits of ticket, notice and stamp.                     *)
PromisedTicketExists ==
    /\ \A m \in told : \E i \in DOMAIN tickets : tickets[i].trigger = m
    /\ stamped # {} => tickets # <<>>

(* With one session at a time looking for timeouts, a conversation has at    *)
(* most one open timeout ticket: a crash before the stamp is repaired by     *)
(* reusing the ticket it left.                                               *)
OneOpenTimeoutTicket ==
    Cardinality({i \in DOMAIN tickets : tickets[i].open /\ tickets[i].source = "AUTOMATION"}) <= 1

(* What a takeover does guarantee.  The runs that may still speak for the AI *)
(* are those that loaded the conversation before: while a human has control  *)
(* no other joins them.                                                      *)
AIBound == {r \in Runners : runner[r].pc \in {"ready", "thinking", "replying", "sent"}
                            /\ ~runner[r].human}
TakeoverDrains ==
    [][control = "HUMAN_CONTROL" => AIBound' \subseteq AIBound]_vars

(* The kill switch and the SUGGEST mode are read again after the LLM, so     *)
(* while either is set no further reply is begun.                            *)
InFlight == {r \in Runners : runner[r].pc \in {"replying", "sent"}}
KillSwitchDrains ==
    [][~enabled \/ mode = "SUGGEST" => InFlight' \subseteq InFlight]_vars

(* Takeover is immediate: under human control the AI begins no reply. *)
HumanControlBlocksReplies ==
    [][control = "HUMAN_CONTROL" => InFlight' \subseteq InFlight]_vars

(* The processing key keeps a customer from getting two replies by mail.     *)
NoDuplicateMail == \A m \in Msgs : emails[m] <= 1

(* Whatever tasks are lost, refused or aborted, a customer message of an     *)
(* active AI conversation is answered or escalated in the end: the beat task *)
(* finds it.  A human who takes over, closes the conversation or turns the   *)
(* AI off answers for it instead.                                            *)
Handled(m) ==
    \/ HasCustomerResponse(m)
    \/ control = "HUMAN_CONTROL" \/ ~enabled \/ status = "CLOSED"
EventuallyHandled == \A m \in Msgs : (m <= posted) ~> Handled(m)

-----------------------------------------------------------------------------
(* Why AtMostOneAnswer, SideEffectsHaveRun, RunSettled and PromisedTicketExists *)
(* hold: an inductive invariant, proved in AgentRunProofs.                   *)

HasTicket(m) == \E i \in DOMAIN tickets : tickets[i].trigger = m

(* One session at a time holds the uncommitted row of a message's run. *)
Exclusive ==
    \A q, r \in Runners :
        runner[q].dirty /\ runner[r].dirty /\ runner[q].msg = runner[r].msg => q = r

(* What a session in state s relies on at its next step. *)
Flow(s) ==
    /\ s.dirty => s.pc \in {"thinking", "replying", "sent", "escalating"}
    /\ s.pc \in {"thinking", "replying", "sent"} => s.dirty
    /\ s.pc \in {"replying", "sent"} => answers[s.msg] = 0
    /\ s.pc = "escalating" /\ ~s.dirty => run[s.msg] = "COMPLETED"
    /\ s.pc = "notifying" => run[s.msg] = "COMPLETED" /\ HasTicket(s.msg)

RunnersFlow  == \A r \in Runners : Flow(runner[r])
CheckersFlow == \A c \in Checkers :
                    checker[c].pc \in {"noticing", "stamping"} => HasTicket(checker[c].msg)
AnswersAreAI == \A m \in Msgs : answers[m] <= aiMsgs[m]

(* The whole of it: every wait of a session finds again what it left.  The   *)
(* row is held by one session, no answer exists while one is being sent, and *)
(* the commits of run, ticket, notice and stamp keep their order.            *)
HandoverSafe ==
    /\ TypeOK /\ Exclusive /\ RunnersFlow /\ CheckersFlow /\ AnswersAreAI
    /\ AtMostOneAnswer /\ SideEffectsHaveRun /\ RunSettled /\ PromisedTicketExists
=============================================================================
