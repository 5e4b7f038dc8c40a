--------------------------- MODULE AgentRunProofs ---------------------------
(***************************************************************************)
(* What AgentRun guarantees for every number of messages, sessions,        *)
(* redeliveries, requests, crashes and interventions.                      *)
(***************************************************************************)
EXTENDS AgentRun, TLAPS, FiniteSetTheorems

-----------------------------------------------------------------------------
(* Type correctness *)

(* The later of two positions in the conversation is one of them. *)
LEMMA LaterType == ASSUME NEW a \in 0..MaxMsgs, NEW b \in 0..MaxMsgs
                   PROVE  Later(a, b) \in 0..MaxMsgs
BY DEF Later

(* Using up some of a bound keeps the counters in their type. *)
LEMMA SpendType ==
    ASSUME TypeOK, NEW b \in Bounded, NEW max, Spend(b, max)
    PROVE  spent' \in [Bounded -> Nat]
BY DEF TypeOK, Spend

(* A new ticket keeps the tickets in their type. *)
LEMMA TicketType ==
    ASSUME TypeOK, NEW source \in Source, NEW trigger \in Nat, NewTicket(source, trigger)
    PROVE  tickets' \in Seq(Ticket)
BY DEF TypeOK, NewTicket, Ticket

(* An idle session is a well-typed one. *)
LEMMA IdleTypes == IdleRunner \in RunnerState /\ IdleChecker \in CheckerState
BY BoundsAssumption DEF IdleRunner, IdleChecker, RunnerState, CheckerState, AIMode

(* The initial state is well-typed. *)
LEMMA InitType == Init => TypeOK
BY IdleTypes, BoundsAssumption
   DEF Init, TypeOK, AIControl, ConvStatus, AIMode, AIRunStatus, Msgs, Bounded, IdleRunner,
       IdleChecker, RunnersOK, CheckersOK

(* Messages are numbered from 1, and 0 stands for no message. *)
LEMMA MsgType == Msgs \subseteq Nat /\ Msgs \subseteq 0..MaxMsgs
BY BoundsAssumption DEF Msgs

(* What a runner's step may do to its own record. *)
LEMMA RunnerRecord ==
    ASSUME TypeOK, NEW r \in Runners, NEW s \in RunnerState,
           s.pc = "idle" \/ s.msg \in Msgs, RunnerIs(r, s)
    PROVE  RunnersOK'
BY DEF TypeOK, RunnersOK, RunnerIs

(* What a checker's step may do to its own record. *)
LEMMA CheckerRecord ==
    ASSUME TypeOK, NEW c \in Checkers, NEW s \in CheckerState,
           s.pc = "idle" \/ s.msg \in Msgs, CheckerIs(c, s)
    PROVE  CheckersOK'
BY DEF TypeOK, CheckersOK, CheckerIs

(* A session that ends leaves the runners well-typed. *)
LEMMA StopType ==
    ASSUME TypeOK, NEW r \in Runners, Stop(r)
    PROVE  RunnersOK'
BY RunnerRecord, IdleTypes DEF Stop, IdleRunner

(* A timeout session that ends leaves the checkers well-typed. *)
LEMMA ReleaseType ==
    ASSUME TypeOK, NEW c \in Checkers, Release(c)
    PROVE  CheckersOK'
BY CheckerRecord, IdleTypes DEF Release, IdleChecker

(* Committing a run as completed keeps the runs in their type. *)
LEMMA CommitRunType ==
    ASSUME TypeOK, NEW r \in Runners, CommitRun(r)
    PROVE  run' \in [Msgs -> AIRunStatus]
BY DEF TypeOK, CommitRun, AIRunStatus

(* Counting one more for a message keeps a counter in its type. *)
LEMMA CountType ==
    ASSUME NEW f \in [Msgs -> Nat], NEW m \in Msgs, NEW n \in Nat
    PROVE  [f EXCEPT ![m] = @ + n] \in [Msgs -> Nat]
OBVIOUS

(* What a session loads is well-typed. *)
LEMMA LoadType ==
    ASSUME TypeOK, NEW m \in Msgs, NEW forced \in BOOLEAN
    PROVE  Load(m, forced) \in RunnerState /\ Load(m, forced).msg = m
BY MsgType DEF TypeOK, Load, IdleRunner, RunnerState, AIMode

(* A step of a runner keeps the types. *)
LEMMA RunnerType ==
    ASSUME TypeOK, NEW r \in Runners, RunnerStep(r)
    PROVE  TypeOK'
<1> USE BoundsAssumption, MsgType DEF feed, conv, conf, reply, desk
<1>a. runner[r] \in RunnerState
  BY DEF TypeOK, RunnersOK
<1>b. runner[r].pc # "idle" => runner[r].msg \in Msgs
  BY DEF TypeOK, RunnersOK
<1>c. runner[r].msg \in Nat /\ runner[r].seen \in 0..MaxMsgs
  BY <1>a DEF RunnerState
<1>d. Reopened(r) \in ConvStatus
  BY DEF TypeOK, Reopened, ConvStatus
<1>1. CASE RefuseRun(r)
  BY <1>1, StopType DEF TypeOK, CheckersOK, RefuseRun
<1>2. CASE AcquireRun(r)
  <2> DEFINE s == [runner[r] EXCEPT !.pc = "thinking", !.dirty = TRUE, !.mode = mode]
  <2>1. s \in RunnerState /\ s.msg \in Msgs /\ RunnerIs(r, s)
    BY <1>2, <1>a, <1>b DEF TypeOK, RunnerState, AcquireRun
  <2>2. RunnersOK'
    BY <2>1, RunnerRecord
  <2>3. QED
    BY <2>2, <1>2 DEF TypeOK, CheckersOK, AcquireRun
<1>3. CASE KeepSilent(r)
  BY <1>3, StopType, CommitRunType DEF TypeOK, CheckersOK, KeepSilent
<1>4. CASE StartEscalation(r)
  <2> DEFINE s == [runner[r] EXCEPT !.pc = "escalating", !.notify = (mode = "AUTO_REPLY")]
  <2>1. s \in RunnerState /\ s.msg \in Msgs /\ RunnerIs(r, s)
    BY <1>4, <1>a, <1>b DEF RunnerState, StartEscalation, Decided
  <2>2. RunnersOK'
    BY <2>1, RunnerRecord
  <2>3. QED
    BY <2>2, <1>4 DEF TypeOK, CheckersOK, StartEscalation
<1>5. CASE SendMail(r)
  <2> DEFINE s == [runner[r] EXCEPT !.pc = "sent"]
  <2>1. s \in RunnerState /\ s.msg \in Msgs /\ RunnerIs(r, s)
    BY <1>5, <1>a, <1>b DEF RunnerState, SendMail, Goto
  <2>2. emails' \in [Msgs -> Nat]
    <3>1. PICK n \in {0, 1} : emails' = [emails EXCEPT ![runner[r].msg] = @ + n]
      BY <1>5 DEF SendMail
    <3>2. emails \in [Msgs -> Nat] /\ runner[r].msg \in Msgs
      BY <1>5, <1>b DEF TypeOK, SendMail
    <3>3. \A k \in Msgs : emails[k] + n \in Nat
      BY <3>2
    <3>4. QED
      BY <3>1, <3>2, <3>3
  <2>3. RunnersOK'
    BY <2>1, RunnerRecord
  <2>4. QED
    BY <2>2, <2>3, <1>5 DEF TypeOK, CheckersOK, SendMail
<1>6. CASE CommitReply(r)
  <2>1. covered' \in 0..MaxMsgs
    BY <1>c, <1>6, LaterType DEF TypeOK, CommitReply
  <2>2. aiMsgs' \in [Msgs -> Nat] /\ answers' \in [Msgs -> Nat]
    <3>1. /\ aiMsgs' = [aiMsgs EXCEPT ![runner[r].msg] = @ + 1]
          /\ answers' = [answers EXCEPT ![runner[r].msg] = @ + 1]
          /\ aiMsgs \in [Msgs -> Nat] /\ answers \in [Msgs -> Nat]
      BY <1>6 DEF TypeOK, CommitReply
    <3>2. runner[r].msg \in Msgs
      BY <1>6, <1>b DEF CommitReply
    <3>3. \A k \in Msgs : aiMsgs[k] + 1 \in Nat /\ answers[k] + 1 \in Nat
      BY <3>1
    <3>4. QED
      BY <3>1, <3>2, <3>3
  <2>3. RunnersOK' /\ run' \in [Msgs -> AIRunStatus]
    BY <1>6, StopType, CommitRunType DEF CommitReply
  <2>4. QED
    BY <2>1, <2>2, <2>3, <1>6, <1>d DEF TypeOK, CheckersOK, CommitReply
<1>7. CASE CommitEscalation(r)
  <2>1. tickets' \in Seq(Ticket)
    BY <1>c, <1>7, TicketType DEF CommitEscalation, Source
  <2> DEFINE s == [runner[r] EXCEPT !.pc = "notifying", !.dirty = FALSE, !.seen = posted,
                                    !.closed = (status = "CLOSED")]
  <2>2. s \in RunnerState /\ s.msg \in Msgs /\ (RunnerIs(r, s) \/ Stop(r))
    BY <1>7, <1>a, <1>b DEF TypeOK, RunnerState, CommitEscalation
  <2>3. RunnersOK' /\ run' \in [Msgs -> AIRunStatus]
    BY <2>2, <1>7, RunnerRecord, StopType, CommitRunType DEF CommitEscalation
  <2>4. QED
    BY <2>1, <2>3, <1>7 DEF TypeOK, CheckersOK, CommitEscalation
<1>8. CASE NotifyCustomer(r)
  <2>1. told' \subseteq Msgs
    BY <1>8, <1>b DEF TypeOK, NotifyCustomer
  <2>2. covered' \in 0..MaxMsgs
    BY <1>c, <1>8, LaterType DEF TypeOK, NotifyCustomer
  <2>3. aiMsgs' \in [Msgs -> Nat]
    BY <1>8, <1>b DEF TypeOK, NotifyCustomer
  <2>4. status' \in ConvStatus
    BY <1>8, <1>d DEF TypeOK, NotifyCustomer
  <2>5. RunnersOK'
    BY <1>8, StopType DEF NotifyCustomer
  <2>6. QED
    BY <2>1, <2>2, <2>3, <2>4, <2>5, <1>8 DEF TypeOK, CheckersOK, NotifyCustomer
<1>9. CASE AbortRun(r)
  BY <1>9, StopType, SpendType DEF TypeOK, CheckersOK, AbortRun, Bounded
<1>10. ASSUME NEW m \in Msgs,
              RouteToHuman(r, m) \/ DropTask(r, m) \/ StartTask(r, m)
       PROVE  TypeOK'
  <2>1. queue' \in [Msgs -> Nat]
    <3>1. queue' = [queue EXCEPT ![m] = @ - 1] /\ queue[m] > 0
      BY <1>10 DEF RouteToHuman, DropTask, StartTask, Dequeue
    <3>2. QED
      BY <3>1 DEF TypeOK
  <2>2. CASE RouteToHuman(r, m)
    BY <2>1, <2>2, LaterType DEF TypeOK, RunnersOK, CheckersOK, RouteToHuman, ConvStatus
  <2>3. CASE DropTask(r, m)
    BY <2>1, <2>3 DEF TypeOK, RunnersOK, CheckersOK, DropTask
  <2>4. CASE StartTask(r, m)
    <3>1. RunnersOK'
      BY <2>4, LoadType, RunnerRecord DEF StartTask
    <3>2. QED
      BY <2>1, <2>4, <3>1 DEF TypeOK, CheckersOK, StartTask
  <2>5. QED
    BY <1>10, <2>2, <2>3, <2>4
<1>11. ASSUME NEW m \in Msgs, Regenerate(r, m)
       PROVE  TypeOK'
  <2>1. RunnersOK' /\ spent' \in [Bounded -> Nat]
    BY <1>11, LoadType, RunnerRecord, SpendType DEF Regenerate, Bounded
  <2>2. QED
    BY <1>11, <2>1 DEF TypeOK, CheckersOK, Regenerate
<1>12. ASSUME NEW d \in Decision, SaveSuggestion(r, d) \/ StartReply(r, d) \/ SkipReply(r, d)
       PROVE  TypeOK'
  <2>1. runner[r].msg \in Msgs
    BY <1>12, <1>b DEF SaveSuggestion, StartReply, SkipReply, MayReply, Decided
  <2>2. CASE SaveSuggestion(r, d)
    <3> DEFINE s == [runner[r] EXCEPT !.pc = "escalating", !.dirty = FALSE]
    <3>1. s \in RunnerState /\ s.msg \in Msgs /\ (RunnerIs(r, s) \/ Stop(r))
      BY <2>1, <2>2, <1>a DEF RunnerState, SaveSuggestion
    <3>2. RunnersOK' /\ run' \in [Msgs -> AIRunStatus]
      BY <3>1, <2>2, RunnerRecord, StopType, CommitRunType DEF SaveSuggestion
    <3>3. QED
      BY <2>1, <2>2, <3>2 DEF TypeOK, CheckersOK, SaveSuggestion
  <2>3. CASE StartReply(r, d)
    <3> DEFINE s == [runner[r] EXCEPT !.pc = "replying"]
    <3>1. s \in RunnerState /\ s.msg \in Msgs /\ RunnerIs(r, s)
      BY <2>1, <2>3, <1>a DEF RunnerState, StartReply, Goto
    <3>2. RunnersOK'
      BY <3>1, RunnerRecord
    <3>3. QED
      BY <2>3, <3>2 DEF TypeOK, CheckersOK, StartReply
  <2>4. CASE SkipReply(r, d)
    BY <2>4, StopType, CommitRunType DEF TypeOK, CheckersOK, SkipReply
  <2>5. QED
    BY <1>12, <2>2, <2>3, <2>4
<1>13. QED
  BY <1>1, <1>2, <1>3, <1>4, <1>5, <1>6, <1>7, <1>8, <1>9, <1>10, <1>11, <1>12 DEF RunnerStep

(* A step of a checker keeps the types. *)
LEMMA CheckerType ==
    ASSUME TypeOK, NEW c \in Checkers, CheckerStep(c)
    PROVE  TypeOK'
<1> USE BoundsAssumption, MsgType DEF feed, conv, conf, reply, desk
<1>a. checker[c] \in CheckerState
  BY DEF TypeOK, CheckersOK
<1>b. checker[c].pc # "idle" => checker[c].msg \in Msgs
  BY DEF TypeOK, CheckersOK
<1>1. CASE CreateTimeoutTicket(c)
  <2>1. tickets' \in Seq(Ticket)
    BY <1>1, <1>b, TicketType DEF CreateTimeoutTicket, Source
  <2> DEFINE s == [checker[c] EXCEPT !.pc = "noticing", !.pending = (status = "PENDING")]
  <2>2. s \in CheckerState /\ s.msg \in Msgs /\ CheckerIs(c, s)
    BY <1>1, <1>a, <1>b DEF CheckerState, CreateTimeoutTicket
  <2>3. CheckersOK'
    BY <2>2, CheckerRecord
  <2>4. QED
    BY <2>1, <2>3, <1>1 DEF TypeOK, RunnersOK, CreateTimeoutTicket
<1>2. CASE SendTimeoutNotice(c)
  <2> DEFINE s == [checker[c] EXCEPT !.pc = "stamping"]
  <2>1. s \in CheckerState /\ s.msg \in Msgs /\ CheckerIs(c, s)
    BY <1>2, <1>a, <1>b DEF CheckerState, SendTimeoutNotice
  <2>2. told' \subseteq Msgs /\ covered' \in 0..MaxMsgs
    BY <1>2, <1>b, LaterType DEF TypeOK, SendTimeoutNotice
  <2>3. CheckersOK'
    BY <2>1, CheckerRecord
  <2>4. QED
    BY <2>2, <2>3, <1>2 DEF TypeOK, RunnersOK, SendTimeoutNotice
<1>3. CASE StampMessage(c)
  <2>1. stamped' \subseteq Msgs /\ status' \in ConvStatus
    BY <1>3, <1>b DEF TypeOK, StampMessage, ConvStatus
  <2>2. QED
    BY <2>1, <1>3, ReleaseType DEF TypeOK, RunnersOK, StampMessage
<1>4. CASE AbortCheck(c)
  BY <1>4, ReleaseType, SpendType DEF TypeOK, RunnersOK, AbortCheck, Bounded
<1>5. ASSUME NEW m \in Msgs, EscalateMessage(c, m)
      PROVE  TypeOK'
  <2> DEFINE s == [checker[c] EXCEPT !.pc = "creating", !.msg = m]
  <2>1. s \in CheckerState /\ s.msg \in Msgs /\ (CheckerIs(c, s) \/ UNCHANGED checker)
    BY <1>5, <1>a DEF CheckerState, EscalateMessage
  <2>2. CheckersOK'
    BY <2>1, CheckerRecord DEF TypeOK, CheckersOK
  <2>3. QED
    BY <2>2, <1>5 DEF TypeOK, RunnersOK, EscalateMessage
<1>6. QED
  BY <1>1, <1>2, <1>3, <1>4, <1>5 DEF CheckerStep, BeatScan, PublicCheck

(* The customer, the clock, beat and the human agents keep the types. *)
LEMMA OtherType ==
    ASSUME TypeOK,
           \/ PostMessage \/ MissedChat \/ HumanStep
           \/ \E m \in Msgs : Redeliver(m) \/ TimePasses(m)
    PROVE  TypeOK'
<1> USE BoundsAssumption, MsgType DEF feed, conv, conf, reply, desk
<1>1. CASE PostMessage
  <2>1. posted + 1 \in Msgs /\ posted' \in 0..MaxMsgs
    BY <1>1 DEF TypeOK, RunnersOK, CheckersOK, PostMessage, Msgs
  <2>2. queue' \in [Msgs -> Nat]
    BY <1>1, <2>1, CountType DEF TypeOK, RunnersOK, CheckersOK, PostMessage
  <2>3. QED
    BY <1>1, <2>1, <2>2 DEF TypeOK, RunnersOK, CheckersOK, PostMessage, ConvStatus
<1>2. CASE MissedChat
  BY <1>2 DEF TypeOK, RunnersOK, CheckersOK, MissedChat, ConvStatus
<1>3. ASSUME NEW m \in Msgs, Redeliver(m) PROVE TypeOK'
  BY <1>3, SpendType, CountType DEF TypeOK, RunnersOK, CheckersOK, Redeliver, Bounded
<1>4. ASSUME NEW m \in Msgs, TimePasses(m) PROVE TypeOK'
  BY <1>4 DEF TypeOK, RunnersOK, CheckersOK, TimePasses
<1>5. CASE HumanStep
  <2>1. Act => spent' \in [Bounded -> Nat]
    BY SpendType DEF Act, Bounded
  <2>2. CASE Takeover \/ ReturnToAI
    BY <2>1, <2>2 DEF TypeOK, RunnersOK, CheckersOK, Takeover, ReturnToAI, AIControl
  <2>3. CASE AgentReply
    BY <2>1, <2>3 DEF TypeOK, RunnersOK, CheckersOK, AgentReply, ConvStatus
  <2>4. CASE CloseConversation
    BY <2>1, <2>4 DEF TypeOK, RunnersOK, CheckersOK, CloseConversation, ConvStatus
  <2>5. CASE SetConfig
    BY <2>1, <2>5 DEF TypeOK, RunnersOK, CheckersOK, SetConfig
  <2>6. CASE AgentTicket
    <3>1. tickets' \in Seq(Ticket)
      BY <2>6, TicketType DEF AgentTicket, Source
    <3>2. QED
      BY <2>1, <2>6, <3>1 DEF TypeOK, RunnersOK, CheckersOK, AgentTicket
  <2>7. ASSUME NEW i \in DOMAIN tickets, ResolveTicket(i) PROVE TypeOK'
    <3>1. tickets \in Seq(Ticket)
      BY DEF TypeOK
    <3>2. tickets[i] \in Ticket
      BY <3>1
    <3>3. [tickets[i] EXCEPT !.open = FALSE] \in Ticket
      BY <3>2 DEF Ticket
    <3>4. tickets' = [tickets EXCEPT ![i] = [tickets[i] EXCEPT !.open = FALSE]]
      BY <2>7 DEF ResolveTicket
    <3>5. tickets' \in Seq(Ticket)
      BY <3>1, <3>3, <3>4
    <3>6. QED
      BY <2>1, <2>7, <3>5 DEF TypeOK, RunnersOK, CheckersOK, ResolveTicket
  <2>8. QED
    BY <1>5, <2>2, <2>3, <2>4, <2>5, <2>6, <2>7 DEF HumanStep
<1>6. QED
  BY <1>1, <1>2, <1>3, <1>4, <1>5

(* The state of AgentRun is always well-typed, for any number of sessions    *)
(* and messages.                                                             *)
THEOREM TypeCorrect == Spec => []TypeOK
<1>1. TypeOK /\ [Next]_vars => TypeOK'
  <2> SUFFICES ASSUME TypeOK, [Next]_vars PROVE TypeOK'
    OBVIOUS
  <2>1. CASE UNCHANGED vars
    BY <2>1 DEF vars, TypeOK, RunnersOK, CheckersOK
  <2>2. QED
    BY <2>1, RunnerType, CheckerType, OtherType DEF Next
<1>2. QED
  BY <1>1, InitType, PTL DEF Spec

-----------------------------------------------------------------------------
(***************************************************************************)
(* HandoverSafe is inductive, and with it what AgentRun promises.          *)
(***************************************************************************)

(* No commit takes back a completed run, or a ticket. *)
RunKept     == \A m \in Msgs : run[m] = "COMPLETED" => run'[m] = "COMPLETED"
TicketsKept == /\ \A m \in Msgs : HasTicket(m) => HasTicket(m)'
               /\ tickets # <<>> => tickets' # <<>>

(* A step of r leaves the other sessions alone, and r keeps the row it holds *)
(* or takes one that nobody holds.                                           *)
OthersKept(r) == \A q \in Runners \ {r} : runner'[q] = runner[q]
HoldKept(r) ==
    runner'[r].dirty =>
        \/ runner[r].dirty /\ runner'[r].msg = runner[r].msg
        \/ \A q \in Runners \ {r} : ~(runner[q].dirty /\ runner[q].msg = runner'[r].msg)

-----------------------------------------------------------------------------
(* Commits *)

(* A step of one runner leaves the records of the others alone. *)
LEMMA RunnerIsKeeps ==
    ASSUME TypeOK, NEW r \in Runners, NEW s, RunnerIs(r, s)
    PROVE  runner'[r] = s /\ OthersKept(r)
BY DEF TypeOK, RunnersOK, RunnerIs, OthersKept

(* A committed run is completed, and no other run changes. *)
LEMMA CommitRunKeeps ==
    ASSUME TypeOK, RunSettled, NEW r \in Runners, CommitRun(r)
    PROVE  /\ RunKept
           /\ RunSettled'
           /\ runner[r].msg \in Msgs => run'[runner[r].msg] = "COMPLETED"
BY DEF TypeOK, RunSettled, CommitRun, RunKept

(* A new ticket leaves those that exist where they are. *)
LEMMA NewTicketKeeps ==
    ASSUME TypeOK, NEW source \in Source, NEW trigger \in Nat, NewTicket(source, trigger)
    PROVE  /\ TicketsKept
           /\ \E i \in DOMAIN tickets' : tickets'[i].trigger = trigger
           /\ \A i \in DOMAIN tickets' :
                 \/ i \in DOMAIN tickets /\ tickets'[i] = tickets[i]
                 \/ tickets'[i].source = source /\ tickets'[i].trigger = trigger
<1> DEFINE t == [source |-> source, trigger |-> trigger, open |-> TRUE]
<1>1. tickets \in Seq(Ticket) /\ t \in Ticket /\ tickets' = Append(tickets, t)
  BY DEF TypeOK, NewTicket, Ticket
<1>2. /\ DOMAIN tickets = 1..Len(tickets) /\ Len(tickets) \in Nat
      /\ DOMAIN tickets' = 1..(Len(tickets) + 1)
      /\ tickets'[Len(tickets) + 1] = t
      /\ \A i \in DOMAIN tickets : tickets'[i] = tickets[i]
  BY <1>1
<1>3. tickets' # <<>>
  BY <1>1, <1>2
<1>4. \A m \in Msgs : HasTicket(m) => HasTicket(m)'
  BY <1>2 DEF HasTicket
<1>5. QED
  BY <1>2, <1>3, <1>4 DEF TicketsKept

-----------------------------------------------------------------------------
(* Steps that touch nothing the invariant speaks of. *)
LEMMA Quiet ==
    ASSUME HandoverSafe, TypeOK',
           UNCHANGED <<run, aiMsgs, answers, suggested, told, stamped, tickets, runner, checker>>
    PROVE  HandoverSafe'
BY DEF HandoverSafe, Exclusive, RunnersFlow, Flow, CheckersFlow, AnswersAreAI,
       AtMostOneAnswer, SideEffectsHaveRun, RunSettled, PromisedTicketExists, HasTicket

(* The sessions still find what they rely on after a step of r. *)
LEMMA FlowKept ==
    ASSUME HandoverSafe, NEW r \in Runners, OthersKept(r), HoldKept(r), RunKept, TicketsKept,
           \A m \in Msgs : answers'[m] = answers[m] \/ (m = runner[r].msg /\ runner[r].dirty),
           Flow(runner[r])'
    PROVE  Exclusive' /\ RunnersFlow'
<1> USE DEF HandoverSafe
<1>1. Exclusive'
  BY DEF Exclusive, OthersKept, HoldKept
<1>2. ASSUME NEW q \in Runners \ {r} PROVE Flow(runner[q])'
  <2>1. runner'[q] = runner[q] /\ Flow(runner[q])
    BY <1>2 DEF OthersKept, RunnersFlow
  <2>2. runner[q].pc = "idle" \/ runner[q].msg \in Msgs
    BY <1>2 DEF TypeOK, RunnersOK
  <2>3. runner[q].pc \in {"replying", "sent"} => answers'[runner[q].msg] = 0
    BY <1>2, <2>1, <2>2 DEF Exclusive, Flow
  <2>4. runner[q].pc = "notifying" => \E i \in DOMAIN tickets' : tickets'[i].trigger = runner[q].msg
    BY <2>1, <2>2 DEF Flow, TicketsKept, HasTicket
  <2>5. QED
    BY <2>1, <2>2, <2>3, <2>4 DEF Flow, RunKept, HasTicket
<1>3. QED
  BY <1>1, <1>2 DEF RunnersFlow

(* A step of a runner keeps the invariant when it keeps the flow and brings  *)
(* no side effect without a completed run.                                   *)
LEMMA RunnerKeeps ==
    ASSUME HandoverSafe, TypeOK', NEW r \in Runners,
           OthersKept(r), HoldKept(r), RunKept, TicketsKept, Flow(runner[r])',
           \A m \in Msgs : answers'[m] = answers[m] \/ (m = runner[r].msg /\ runner[r].dirty),
           UNCHANGED <<checker, stamped>>, RunSettled', AnswersAreAI', AtMostOneAnswer',
           \A m \in Msgs : aiMsgs'[m] = aiMsgs[m] \/ run'[m] = "COMPLETED",
           \A m \in suggested' : m \in suggested \/ run'[m] = "COMPLETED",
           \A i \in DOMAIN tickets' :
              \/ i \in DOMAIN tickets /\ tickets'[i] = tickets[i]
              \/ tickets'[i].trigger \in Msgs => run'[tickets'[i].trigger] = "COMPLETED",
           \A m \in told' : m \in told \/ HasTicket(m)'
    PROVE  HandoverSafe'
<1> USE DEF HandoverSafe
<1>1. Exclusive' /\ RunnersFlow'
  BY FlowKept
<1>2. CheckersFlow'
  BY DEF CheckersFlow, TypeOK, CheckersOK, TicketsKept, HasTicket
<1>3. ASSUME NEW m \in Msgs,
             \/ aiMsgs'[m] > 0
             \/ m \in suggested'
             \/ \E i \in DOMAIN tickets' : /\ tickets'[i].source = "AI_ESCALATION"
                                           /\ tickets'[i].trigger = m
      PROVE  run'[m] = "COMPLETED"
  BY <1>3 DEF SideEffectsHaveRun, RunKept
<1>4. SideEffectsHaveRun'
  BY <1>3 DEF SideEffectsHaveRun
<1>5. PromisedTicketExists'
  BY DEF PromisedTicketExists, TicketsKept, HasTicket, TypeOK
<1>6. QED
  BY <1>1, <1>2, <1>4, <1>5

(* Nothing but the runner's own record changes. *)
LEMMA RunnerOnly ==
    ASSUME HandoverSafe, TypeOK', NEW r \in Runners,
           OthersKept(r), HoldKept(r), Flow(runner[r])',
           UNCHANGED <<run, aiMsgs, answers, suggested, told, stamped, tickets, checker>>
    PROVE  HandoverSafe'
<1>1. RunKept /\ TicketsKept
  BY DEF RunKept, TicketsKept, HasTicket
<1>2. RunSettled' /\ AnswersAreAI' /\ AtMostOneAnswer'
  BY DEF HandoverSafe, RunSettled, AnswersAreAI, AtMostOneAnswer
<1>3. QED
  BY <1>1, <1>2, RunnerKeeps

(* A runner may end at any point. *)
LEMMA StopKeeps ==
    ASSUME TypeOK, NEW r \in Runners, Stop(r)
    PROVE  OthersKept(r) /\ HoldKept(r) /\ Flow(runner[r])'
<1>1. runner'[r] = IdleRunner /\ OthersKept(r)
  BY RunnerIsKeeps DEF Stop
<1>2. QED
  BY <1>1 DEF HoldKept, Flow, IdleRunner

(* The runner stops after committing its run and nothing else. *)
LEMMA RunOnly ==
    ASSUME HandoverSafe, TypeOK', NEW r \in Runners, CommitRun(r), Stop(r),
           UNCHANGED <<aiMsgs, answers, suggested, told, stamped, tickets, checker>>
    PROVE  HandoverSafe'
<1>1. RunKept /\ RunSettled' /\ TicketsKept
  BY CommitRunKeeps DEF HandoverSafe, TicketsKept, HasTicket
<1>2. AnswersAreAI' /\ AtMostOneAnswer'
  BY DEF HandoverSafe, AnswersAreAI, AtMostOneAnswer
<1>3. OthersKept(r) /\ HoldKept(r) /\ Flow(runner[r])'
  BY StopKeeps DEF HandoverSafe
<1>4. QED
  BY <1>1, <1>2, <1>3, RunnerKeeps

-----------------------------------------------------------------------------
(* Each step keeps the invariant. *)

(* Every step of a runner keeps the invariant. *)
LEMMA RunnerSafe ==
    ASSUME HandoverSafe, TypeOK', NEW r \in Runners, RunnerStep(r)
    PROVE  HandoverSafe'
<1> USE DEF feed, conv, conf, reply, desk
<1>a. TypeOK /\ Exclusive /\ Flow(runner[r]) /\ RunSettled
  BY DEF HandoverSafe, RunnersFlow
<1>b. runner[r] \in RunnerState /\ (runner[r].pc # "idle" => runner[r].msg \in Msgs)
  BY <1>a DEF TypeOK, RunnersOK
<1>1. CASE RefuseRun(r) \/ AbortRun(r)
  <2>1. Stop(r)
    BY <1>1 DEF RefuseRun, AbortRun
  <2>2. QED
    BY <1>1, <1>a, <2>1, StopKeeps, RunnerOnly DEF RefuseRun, AbortRun
<1>2. CASE AcquireRun(r)
  <2>1. /\ runner'[r] = [runner[r] EXCEPT !.pc = "thinking", !.dirty = TRUE, !.mode = mode]
        /\ OthersKept(r)
    BY <1>2, <1>a, RunnerIsKeeps DEF AcquireRun
  <2>2. HoldKept(r) /\ Flow(runner[r])'
    BY <1>2, <1>b, <2>1 DEF HoldKept, Flow, AcquireRun, Locked, RunnerState
  <2>3. QED
    BY <1>2, <2>1, <2>2, RunnerOnly DEF AcquireRun
<1>3. CASE KeepSilent(r)
  BY <1>3, RunOnly DEF KeepSilent
<1>4. CASE StartEscalation(r)
  <2>1. /\ runner'[r] = [runner[r] EXCEPT !.pc = "escalating", !.notify = (mode = "AUTO_REPLY")]
        /\ OthersKept(r)
    BY <1>4, <1>a, RunnerIsKeeps DEF StartEscalation
  <2>2. runner[r].pc = "thinking" /\ runner[r].dirty
    BY <1>4, <1>a DEF StartEscalation, Decided, Flow
  <2>3. HoldKept(r) /\ Flow(runner[r])'
    BY <1>b, <2>1, <2>2 DEF HoldKept, Flow, RunnerState
  <2>4. QED
    BY <1>4, <2>1, <2>3, RunnerOnly DEF StartEscalation
<1>5. CASE SendMail(r)
  <2>1. runner'[r] = [runner[r] EXCEPT !.pc = "sent"] /\ OthersKept(r)
    BY <1>5, <1>a, RunnerIsKeeps DEF SendMail, Goto
  <2>2. runner[r].pc = "replying" /\ UNCHANGED answers
    BY <1>5 DEF SendMail
  <2>3. HoldKept(r) /\ Flow(runner[r])'
    BY <1>a, <1>b, <2>1, <2>2 DEF HoldKept, Flow, RunnerState
  <2>4. QED
    BY <1>5, <2>1, <2>3, RunnerOnly DEF SendMail
<1>6. CASE CommitReply(r)
  <2>1. runner[r].dirty /\ runner[r].msg \in Msgs /\ answers[runner[r].msg] = 0
    BY <1>6, <1>a, <1>b DEF CommitReply, Flow
  <2>2. OthersKept(r) /\ HoldKept(r) /\ Flow(runner[r])'
    BY <1>6, <1>a, StopKeeps DEF CommitReply
  <2>3. RunKept /\ RunSettled' /\ run'[runner[r].msg] = "COMPLETED" /\ TicketsKept
    BY <1>6, <1>a, <2>1, CommitRunKeeps DEF CommitReply, TicketsKept, HasTicket
  <2>4. /\ aiMsgs' = [aiMsgs EXCEPT ![runner[r].msg] = aiMsgs[runner[r].msg] + 1]
        /\ answers' = [answers EXCEPT ![runner[r].msg] = 1]
        /\ aiMsgs \in [Msgs -> Nat] /\ answers \in [Msgs -> Nat]
    BY <1>6, <1>a, <2>1 DEF CommitReply, TypeOK
  <2>5. AnswersAreAI' /\ AtMostOneAnswer'
    BY <2>1, <2>4 DEF HandoverSafe, AnswersAreAI, AtMostOneAnswer
  <2>6. UNCHANGED <<suggested, told, stamped, tickets, checker>>
    BY <1>6 DEF CommitReply
  <2>7. QED
    BY <2>1, <2>2, <2>3, <2>4, <2>5, <2>6, RunnerKeeps
<1>7. CASE CommitEscalation(r)
  <2>1. runner[r].pc = "escalating" /\ runner[r].msg \in Msgs /\ runner[r].msg \in Nat
    BY <1>7, <1>b, MsgType DEF CommitEscalation
  <2>2. RunKept /\ RunSettled' /\ run'[runner[r].msg] = "COMPLETED"
    BY <1>7, <1>a, <2>1, CommitRunKeeps DEF CommitEscalation
  <2>3. /\ TicketsKept
        /\ \E i \in DOMAIN tickets' : tickets'[i].trigger = runner[r].msg
        /\ \A i \in DOMAIN tickets' :
              \/ i \in DOMAIN tickets /\ tickets'[i] = tickets[i]
              \/ tickets'[i].trigger = runner[r].msg
    BY <1>7, <1>a, <2>1, NewTicketKeeps DEF CommitEscalation, Source
  <2>4. OthersKept(r) /\ HoldKept(r) /\ Flow(runner[r])'
    <3>1. CASE Stop(r)
      BY <3>1, <1>a, StopKeeps
    <3>2. CASE RunnerIs(r, [runner[r] EXCEPT !.pc = "notifying", !.dirty = FALSE,
                                             !.seen = posted, !.closed = (status = "CLOSED")])
      <4>1. /\ runner'[r] = [runner[r] EXCEPT !.pc = "notifying", !.dirty = FALSE,
                                    !.seen = posted, !.closed = (status = "CLOSED")]
            /\ OthersKept(r)
        BY <3>2, <1>a, RunnerIsKeeps
      <4>2. /\ runner'[r].pc = "notifying" /\ ~runner'[r].dirty
            /\ runner'[r].msg = runner[r].msg
        BY <4>1, <1>b DEF RunnerState
      <4>3. QED
        BY <4>1, <4>2, <2>2, <2>3 DEF HoldKept, Flow, HasTicket
    <3>3. QED
      BY <3>1, <3>2, <1>7 DEF CommitEscalation
  <2>5. UNCHANGED <<aiMsgs, answers, suggested, told, stamped, checker>>
    BY <1>7 DEF CommitEscalation
  <2>6. AnswersAreAI' /\ AtMostOneAnswer'
    BY <2>5 DEF HandoverSafe, AnswersAreAI, AtMostOneAnswer
  <2>7. QED
    BY <2>2, <2>3, <2>4, <2>5, <2>6, RunnerKeeps
<1>8. CASE NotifyCustomer(r)
  <2>1. /\ runner[r].msg \in Msgs /\ run[runner[r].msg] = "COMPLETED"
        /\ HasTicket(runner[r].msg)
    BY <1>8, <1>a, <1>b DEF NotifyCustomer, Flow
  <2>2. OthersKept(r) /\ HoldKept(r) /\ Flow(runner[r])'
    BY <1>8, <1>a, StopKeeps DEF NotifyCustomer
  <2>3. UNCHANGED <<run, answers, suggested, stamped, tickets, checker>>
    BY <1>8 DEF NotifyCustomer
  <2>4. /\ told' = told \cup {runner[r].msg}
        /\ \/ UNCHANGED aiMsgs
           \/ aiMsgs' = [aiMsgs EXCEPT ![runner[r].msg] = aiMsgs[runner[r].msg] + 1]
        /\ aiMsgs \in [Msgs -> Nat] /\ answers \in [Msgs -> Nat]
    BY <1>8, <1>a DEF NotifyCustomer, TypeOK
  <2>5. RunKept /\ RunSettled' /\ TicketsKept
    BY <1>a, <2>3 DEF RunKept, RunSettled, TicketsKept, HasTicket
  <2>6. AnswersAreAI' /\ AtMostOneAnswer'
    BY <2>1, <2>3, <2>4 DEF HandoverSafe, AnswersAreAI, AtMostOneAnswer
  <2>7. \A m \in told' : m \in told \/ HasTicket(m)'
    BY <2>1, <2>3, <2>4 DEF HasTicket
  <2>8. \A m \in Msgs : aiMsgs'[m] = aiMsgs[m] \/ run'[m] = "COMPLETED"
    BY <2>1, <2>3, <2>4
  <2>9. QED
    BY <2>2, <2>3, <2>5, <2>6, <2>7, <2>8, RunnerKeeps
<1>9. ASSUME NEW m \in Msgs, RouteToHuman(r, m) \/ DropTask(r, m)
      PROVE  HandoverSafe'
  BY <1>9, Quiet DEF RouteToHuman, DropTask
<1>10. ASSUME NEW m \in Msgs, StartTask(r, m) \/ Regenerate(r, m)
       PROVE  HandoverSafe'
  <2>1. OthersKept(r) /\ (runner'[r] = Load(m, FALSE) \/ runner'[r] = Load(m, TRUE))
    BY <1>10, <1>a, RunnerIsKeeps DEF StartTask, Regenerate
  <2>2. runner'[r].pc = "ready" /\ ~runner'[r].dirty
    BY <2>1 DEF Load, IdleRunner
  <2>3. HoldKept(r) /\ Flow(runner[r])'
    BY <2>2 DEF HoldKept, Flow
  <2>4. QED
    BY <1>10, <2>1, <2>3, RunnerOnly DEF StartTask, Regenerate
<1>11. ASSUME NEW d \in Decision, SaveSuggestion(r, d)
       PROVE  HandoverSafe'
  <2>1. runner[r].msg \in Msgs
    BY <1>11, <1>b DEF SaveSuggestion, Decided
  <2>2. RunKept /\ RunSettled' /\ run'[runner[r].msg] = "COMPLETED"
    BY <1>11, <1>a, <2>1, CommitRunKeeps DEF SaveSuggestion
  <2>3. OthersKept(r) /\ HoldKept(r) /\ Flow(runner[r])'
    <3>1. CASE Stop(r)
      BY <3>1, <1>a, StopKeeps
    <3>2. CASE RunnerIs(r, [runner[r] EXCEPT !.pc = "escalating", !.dirty = FALSE])
      <4>1. /\ runner'[r] = [runner[r] EXCEPT !.pc = "escalating", !.dirty = FALSE]
            /\ OthersKept(r)
        BY <3>2, <1>a, RunnerIsKeeps
      <4>2. /\ runner'[r].pc = "escalating" /\ ~runner'[r].dirty
            /\ runner'[r].msg = runner[r].msg
        BY <4>1, <1>b DEF RunnerState
      <4>3. QED
        BY <4>1, <4>2, <2>2 DEF HoldKept, Flow
    <3>3. QED
      BY <3>1, <3>2, <1>11 DEF SaveSuggestion
  <2>4. UNCHANGED <<aiMsgs, answers, told, stamped, tickets, checker>>
    BY <1>11 DEF SaveSuggestion
  <2>5. suggested' \subseteq suggested \cup {runner[r].msg}
    BY <1>11 DEF SaveSuggestion
  <2>6. AnswersAreAI' /\ AtMostOneAnswer' /\ TicketsKept
    BY <2>4 DEF HandoverSafe, AnswersAreAI, AtMostOneAnswer, TicketsKept, HasTicket
  <2>7. QED
    BY <2>1, <2>2, <2>3, <2>4, <2>5, <2>6, RunnerKeeps
<1>12. ASSUME NEW d \in Decision, StartReply(r, d)
       PROVE  HandoverSafe'
  <2>1. runner'[r] = [runner[r] EXCEPT !.pc = "replying"] /\ OthersKept(r)
    BY <1>12, <1>a, RunnerIsKeeps DEF StartReply, Goto
  <2>2. runner[r].pc = "thinking" /\ runner[r].dirty /\ runner[r].msg \in Msgs
    BY <1>12, <1>a, <1>b DEF StartReply, MayReply, Decided, Flow
  <2>3. answers'[runner[r].msg] = 0
    BY <1>12, <1>a, <2>2 DEF StartReply, HandoverSafe, AnswersAreAI, TypeOK
  <2>4. HoldKept(r) /\ Flow(runner[r])'
    BY <1>b, <2>1, <2>2, <2>3 DEF HoldKept, Flow, RunnerState
  <2>5. QED
    BY <1>12, <2>1, <2>4, RunnerOnly DEF StartReply
<1>13. ASSUME NEW d \in Decision, SkipReply(r, d)
       PROVE  HandoverSafe'
  <2>1. CASE CommitRun(r)
    BY <1>13, <2>1, RunOnly DEF SkipReply
  <2>2. CASE UNCHANGED run
    BY <1>13, <2>2, <1>a, StopKeeps, RunnerOnly DEF SkipReply
  <2>3. QED
    BY <1>13, <2>1, <2>2 DEF SkipReply
<1>14. QED
  BY <1>1, <1>2, <1>3, <1>4, <1>5, <1>6, <1>7, <1>8, <1>9, <1>10, <1>11, <1>12, <1>13
     DEF RunnerStep

(* Every step of a timeout session keeps the invariant. *)
LEMMA CheckerSafe ==
    ASSUME HandoverSafe, TypeOK', NEW c \in Checkers, CheckerStep(c)
    PROVE  HandoverSafe'
<1> USE DEF feed, conv, conf, reply, desk
<1>a. TypeOK /\ CheckersFlow /\ PromisedTicketExists
  BY DEF HandoverSafe
<1>b. checker[c] \in CheckerState /\ (checker[c].pc # "idle" => checker[c].msg \in Msgs)
  BY <1>a DEF TypeOK, CheckersOK
<1>c. ASSUME UNCHANGED <<run, aiMsgs, answers, suggested, runner>>, TicketsKept,
             \A i \in DOMAIN tickets' :
                \/ i \in DOMAIN tickets /\ tickets'[i] = tickets[i]
                \/ tickets'[i].source = "AUTOMATION",
             CheckersFlow', PromisedTicketExists'
      PROVE  HandoverSafe'
  <2>1. Exclusive' /\ AnswersAreAI' /\ AtMostOneAnswer' /\ RunSettled'
    BY <1>c DEF HandoverSafe, Exclusive, AnswersAreAI, AtMostOneAnswer, RunSettled
  <2>2. ASSUME NEW r \in Runners PROVE Flow(runner[r])'
    <3>1. Flow(runner[r]) /\ (runner[r].pc = "idle" \/ runner[r].msg \in Msgs)
      BY <1>a DEF HandoverSafe, RunnersFlow, TypeOK, RunnersOK
    <3>2. HasTicket(runner[r].msg) /\ runner[r].msg \in Msgs
          => \E i \in DOMAIN tickets' : tickets'[i].trigger = runner[r].msg
      BY <1>c DEF TicketsKept, HasTicket
    <3>3. QED
      BY <1>c, <3>1, <3>2 DEF Flow, HasTicket
  <2>3. SideEffectsHaveRun'
    <3>1. ASSUME NEW m \in Msgs,
                 \E i \in DOMAIN tickets' : /\ tickets'[i].source = "AI_ESCALATION"
                                            /\ tickets'[i].trigger = m
          PROVE  run[m] = "COMPLETED"
      BY <1>c, <3>1 DEF HandoverSafe, SideEffectsHaveRun
    <3>2. QED
      BY <1>c, <3>1 DEF HandoverSafe, SideEffectsHaveRun
  <2>4. QED
    BY <1>c, <2>1, <2>2, <2>3 DEF HandoverSafe, RunnersFlow
<1>1. CASE CreateTimeoutTicket(c)
  <2>1. checker[c].msg \in Msgs /\ checker[c].msg \in Nat
    BY <1>1, <1>b, MsgType DEF CreateTimeoutTicket
  <2>2. /\ TicketsKept
        /\ \E i \in DOMAIN tickets' : tickets'[i].trigger = checker[c].msg
        /\ \A i \in DOMAIN tickets' :
              \/ i \in DOMAIN tickets /\ tickets'[i] = tickets[i]
              \/ tickets'[i].source = "AUTOMATION"
    BY <1>1, <1>a, <2>1, NewTicketKeeps DEF CreateTimeoutTicket, Source
  <2>3. CheckersFlow'
    <3>1. checker' = [checker EXCEPT ![c] = [checker[c] EXCEPT !.pc = "noticing",
                                                  !.pending = (status = "PENDING")]]
      BY <1>1 DEF CreateTimeoutTicket, CheckerIs
    <3>2. checker'[c].msg = checker[c].msg
          /\ \A q \in Checkers \ {c} : checker'[q] = checker[q]
      BY <3>1, <1>a, <1>b DEF TypeOK, CheckersOK, CheckerState
    <3>3. ASSUME NEW q \in Checkers \ {c}, checker[q].pc \in {"noticing", "stamping"}
          PROVE  \E i \in DOMAIN tickets' : tickets'[i].trigger = checker[q].msg
      <4>1. checker[q].msg \in Msgs /\ HasTicket(checker[q].msg)
        BY <1>a, <3>3 DEF TypeOK, CheckersOK, CheckersFlow
      <4>2. QED
        BY <4>1, <2>2 DEF TicketsKept, HasTicket
    <3>4. QED
      BY <2>2, <3>2, <3>3 DEF CheckersFlow, HasTicket
  <2>4. PromisedTicketExists'
    BY <1>1, <1>a, <2>2 DEF CreateTimeoutTicket, PromisedTicketExists, TicketsKept, HasTicket, TypeOK
  <2>5. QED
    BY <1>1, <2>2, <2>3, <2>4, <1>c DEF CreateTimeoutTicket
<1>2. ASSUME SendTimeoutNotice(c) \/ StampMessage(c) \/ AbortCheck(c)
      PROVE  HandoverSafe'
  <2>1. \/ checker' = [checker EXCEPT ![c] = [checker[c] EXCEPT !.pc = "stamping"]]
           /\ checker[c].pc = "noticing"
        \/ checker' = [checker EXCEPT ![c] = IdleChecker]
    BY <1>2 DEF SendTimeoutNotice, StampMessage, AbortCheck, Release, CheckerIs
  <2>2. UNCHANGED <<run, aiMsgs, answers, suggested, runner, tickets>>
    BY <1>2 DEF SendTimeoutNotice, StampMessage, AbortCheck
  <2>3. CheckersFlow'
    <3>1. \A q \in Checkers \ {c} : checker'[q] = checker[q]
      BY <1>a, <2>1 DEF TypeOK, CheckersOK
    <3>2. checker'[c].pc = "stamping" => HasTicket(checker[c].msg) /\ checker'[c].msg = checker[c].msg
      BY <1>a, <1>b, <2>1 DEF CheckersFlow, TypeOK, CheckersOK, CheckerState, IdleChecker
    <3>3. checker'[c].pc # "noticing"
      BY <1>a, <1>b, <2>1 DEF TypeOK, CheckersOK, CheckerState, IdleChecker
    <3>4. QED
      BY <1>a, <2>2, <3>1, <3>2, <3>3 DEF CheckersFlow, HasTicket
  <2>4. checker[c].pc \in {"noticing", "stamping"} => HasTicket(checker[c].msg)
    BY <1>a DEF CheckersFlow
  <2>5. PromisedTicketExists'
    BY <1>2, <1>a, <2>2, <2>4
       DEF PromisedTicketExists, HasTicket, SendTimeoutNotice, StampMessage, AbortCheck, TypeOK
  <2>6. QED
    BY <2>2, <2>3, <2>5, <1>c DEF TicketsKept, HasTicket
<1>3. ASSUME NEW m \in Msgs, EscalateMessage(c, m)
      PROVE  HandoverSafe'
  <2>1. UNCHANGED <<run, aiMsgs, answers, suggested, runner, tickets, told>>
    BY <1>3 DEF EscalateMessage
  <2>2. CheckersFlow'
    <3>1. \/ UNCHANGED checker
          \/ checker' = [checker EXCEPT ![c] = [checker[c] EXCEPT !.pc = "creating", !.msg = m]]
      BY <1>3 DEF EscalateMessage, CheckerIs
    <3>2. \A q \in Checkers \ {c} : checker'[q] = checker[q]
      BY <1>a, <3>1 DEF TypeOK, CheckersOK
    <3>3. \/ checker'[c] = checker[c]
          \/ checker'[c] = [checker[c] EXCEPT !.pc = "creating", !.msg = m]
      BY <1>a, <3>1 DEF TypeOK, CheckersOK
    <3>4. checker'[c] = checker[c] \/ checker'[c].pc = "creating"
      BY <1>b, <3>3 DEF CheckerState
    <3>5. QED
      BY <1>a, <2>1, <3>2, <3>4 DEF CheckersFlow, HasTicket
  <2>3. PromisedTicketExists'
    BY <1>3, <1>a, <2>1 DEF EscalateMessage, OpenTicket, PromisedTicketExists, TypeOK
  <2>4. QED
    BY <2>1, <2>2, <2>3, <1>c DEF TicketsKept, HasTicket
<1>4. QED
  BY <1>1, <1>2, <1>3 DEF CheckerStep, BeatScan, PublicCheck

(* So does every step of customers, broker, clock and human agents. *)
LEMMA OtherSafe ==
    ASSUME HandoverSafe, TypeOK',
           \/ PostMessage \/ MissedChat \/ HumanStep
           \/ \E m \in Msgs : Redeliver(m) \/ TimePasses(m)
    PROVE  HandoverSafe'
<1> USE DEF feed, conv, conf, reply, desk
<1>1. CASE PostMessage \/ MissedChat
  BY <1>1, Quiet DEF PostMessage, MissedChat
<1>2. CASE \E m \in Msgs : Redeliver(m) \/ TimePasses(m)
  BY <1>2, Quiet DEF Redeliver, TimePasses
<1>3. CASE Takeover \/ ReturnToAI \/ AgentReply \/ CloseConversation \/ SetConfig
  BY <1>3, Quiet DEF Takeover, ReturnToAI, AgentReply, CloseConversation, SetConfig
<1>4. ASSUME TicketsKept,
             UNCHANGED <<run, aiMsgs, answers, suggested, told, stamped, runner, checker>>,
             \A i \in DOMAIN tickets' :
                \/ tickets'[i].source # "AI_ESCALATION"
                \/ /\ i \in DOMAIN tickets
                   /\ tickets'[i].source = tickets[i].source
                   /\ tickets'[i].trigger = tickets[i].trigger
      PROVE  HandoverSafe'
  <2>1. Exclusive' /\ AnswersAreAI' /\ AtMostOneAnswer' /\ RunSettled'
    BY <1>4 DEF HandoverSafe, Exclusive, AnswersAreAI, AtMostOneAnswer, RunSettled
  <2>2. ASSUME NEW m, m \in Msgs, HasTicket(m)
        PROVE  \E i \in DOMAIN tickets' : tickets'[i].trigger = m
    BY <1>4, <2>2 DEF TicketsKept, HasTicket
  <2>3. RunnersFlow'
    BY <1>4, <2>2 DEF HandoverSafe, RunnersFlow, Flow, HasTicket, TypeOK, RunnersOK
  <2>4. CheckersFlow'
    BY <1>4, <2>2 DEF HandoverSafe, CheckersFlow, HasTicket, TypeOK, CheckersOK
  <2>5. SideEffectsHaveRun'
    BY <1>4 DEF HandoverSafe, SideEffectsHaveRun
  <2>6. PromisedTicketExists'
    BY <1>4, <2>2 DEF HandoverSafe, PromisedTicketExists, HasTicket, TypeOK, TicketsKept
  <2>7. QED
    BY <2>1, <2>3, <2>4, <2>5, <2>6 DEF HandoverSafe
<1>5. CASE AgentTicket
  <2>1. /\ TicketsKept
        /\ \A i \in DOMAIN tickets' :
              \/ i \in DOMAIN tickets /\ tickets'[i] = tickets[i]
              \/ tickets'[i].source = "AGENT_CREATED"
    BY <1>5, NewTicketKeeps DEF AgentTicket, HandoverSafe, Source
  <2>2. QED
    BY <1>5, <2>1, <1>4 DEF AgentTicket
<1>6. ASSUME NEW i \in DOMAIN tickets, ResolveTicket(i) PROVE HandoverSafe'
  <2>1. tickets \in Seq(Ticket) /\ tickets[i] \in Ticket
    BY DEF HandoverSafe, TypeOK
  <2>2. tickets' = [tickets EXCEPT ![i] = [tickets[i] EXCEPT !.open = FALSE]]
    BY <1>6 DEF ResolveTicket
  <2>3. /\ DOMAIN tickets' = DOMAIN tickets
        /\ \A k \in DOMAIN tickets' : /\ tickets'[k].source = tickets[k].source
                                       /\ tickets'[k].trigger = tickets[k].trigger
    BY <2>1, <2>2 DEF Ticket
  <2>4. tickets' # <<>>
    BY <2>1, <2>3
  <2>5. TicketsKept
    BY <2>3, <2>4 DEF TicketsKept, HasTicket
  <2>6. QED
    BY <1>6, <2>3, <2>5, <1>4 DEF ResolveTicket
<1>7. QED
  BY <1>1, <1>2, <1>3, <1>5, <1>6 DEF HumanStep

(* The invariant holds initially. *)
LEMMA InitSafe == Init => HandoverSafe
<1> SUFFICES ASSUME Init PROVE HandoverSafe
  OBVIOUS
<1>1. TypeOK
  BY InitType
<1>2. Exclusive /\ RunnersFlow /\ CheckersFlow
  BY DEF Init, Exclusive, RunnersFlow, Flow, CheckersFlow, IdleRunner, IdleChecker
<1>3. AnswersAreAI /\ AtMostOneAnswer /\ RunSettled
  BY DEF Init, AnswersAreAI, AtMostOneAnswer, RunSettled
<1>4. SideEffectsHaveRun
  BY DEF Init, SideEffectsHaveRun
<1>5. PromisedTicketExists
  BY DEF Init, PromisedTicketExists
<1>6. QED
  BY <1>1, <1>2, <1>3, <1>4, <1>5 DEF HandoverSafe

(* HandoverSafe holds in every reachable state: each wait of a session finds *)
(* again what it left, whatever the other sessions did meanwhile.            *)
THEOREM HandoverHolds == Spec => []HandoverSafe
<1>1. HandoverSafe /\ TypeOK' /\ [Next]_vars => HandoverSafe'
  <2> SUFFICES ASSUME HandoverSafe, TypeOK', [Next]_vars PROVE HandoverSafe'
    OBVIOUS
  <2>1. CASE UNCHANGED vars
    BY <2>1, Quiet DEF vars
  <2>2. QED
    BY <2>1, RunnerSafe, CheckerSafe, OtherSafe DEF Next
<1>2. QED
  BY <1>1, InitSafe, TypeCorrect, PTL DEF Spec

(* No customer message gets two AI answers, for any number of tasks,         *)
(* redeliveries, regenerate requests and crashes.                            *)
THEOREM OneAnswer == Spec => []AtMostOneAnswer
<1>1. HandoverSafe => AtMostOneAnswer
  BY DEF HandoverSafe
<1>2. QED
  BY <1>1, HandoverHolds, PTL

(* Replies, suggestions and escalation tickets exist only with a completed   *)
(* run.                                                                      *)
THEOREM RunsAccountForEffects == Spec => []SideEffectsHaveRun
<1>1. HandoverSafe => SideEffectsHaveRun
  BY DEF HandoverSafe
<1>2. QED
  BY <1>1, HandoverHolds, PTL

(* What is committed of a run is settled, so no crash makes later tasks skip  *)
(* its message.                                                              *)
THEOREM RunsSettle == Spec => []RunSettled
<1>1. HandoverSafe => RunSettled
  BY DEF HandoverSafe
<1>2. QED
  BY <1>1, HandoverHolds, PTL

(* The customer is told only of tickets that exist. *)
THEOREM PromisesKept == Spec => []PromisedTicketExists
<1>1. HandoverSafe => PromisedTicketExists
  BY DEF HandoverSafe
<1>2. QED
  BY <1>1, HandoverHolds, PTL

-----------------------------------------------------------------------------
(* What a step may never do. *)

(* How a step changes the runners: it leaves them alone, ends a session,     *)
(* loads one, or moves one on without touching the control mode it loaded.   *)
Loads(r)  == /\ \E m \in Msgs, forced \in BOOLEAN : runner'[r] = Load(m, forced)
             /\ control = "HUMAN_CONTROL" => \E m \in Msgs : runner'[r] = Load(m, TRUE)
Begins(r) == /\ runner[r].pc = "thinking" /\ runner'[r].pc = "replying"
             /\ enabled /\ mode # "SUGGEST"
Moves(r)  == /\ runner'[r].human = runner[r].human
             /\ runner[r].pc # "idle"
             /\ runner'[r].pc \in {"replying", "sent"}
                => Begins(r) \/ runner[r].pc \in {"replying", "sent"}
             /\ runner'[r].pc = "ready" => runner[r].pc = "ready"
             /\ runner'[r].pc = "thinking" => runner[r].pc \in {"ready", "thinking"}

(* A session that starts has read the control mode and nothing more. *)
LEMMA LoadReads ==
    ASSUME NEW m, NEW forced
    PROVE  /\ Load(m, forced).pc = "ready"
           /\ Load(m, forced).human = (control = "HUMAN_CONTROL")
BY DEF Load, IdleRunner

(* How a step of r can bring it nearer to a reply. *)
LEMMA RunnerMoves ==
    ASSUME TypeOK, NEW r \in Runners, RunnerStep(r)
    PROVE  /\ OthersKept(r)
           /\ \/ runner'[r] = runner[r] \/ runner'[r] = IdleRunner \/ Loads(r) \/ Moves(r)
<1>a. runner[r] \in RunnerState
  BY DEF TypeOK, RunnersOK
<1>1. ASSUME Stop(r) PROVE runner'[r] = IdleRunner /\ OthersKept(r)
  BY <1>1, RunnerIsKeeps DEF Stop
<1>2. CASE RefuseRun(r) \/ AbortRun(r) \/ KeepSilent(r) \/ CommitReply(r) \/ NotifyCustomer(r)
  BY <1>1, <1>2 DEF RefuseRun, AbortRun, KeepSilent, CommitReply, NotifyCustomer
<1>3. CASE AcquireRun(r)
  <2>1. /\ runner'[r] = [runner[r] EXCEPT !.pc = "thinking", !.dirty = TRUE, !.mode = mode]
        /\ OthersKept(r) /\ runner[r].pc = "ready"
    BY <1>3, RunnerIsKeeps DEF AcquireRun
  <2>2. QED
    BY <1>a, <2>1 DEF Moves, RunnerState
<1>4. CASE StartEscalation(r)
  <2>1. /\ runner'[r] = [runner[r] EXCEPT !.pc = "escalating", !.notify = (mode = "AUTO_REPLY")]
        /\ OthersKept(r) /\ runner[r].pc = "thinking"
    BY <1>4, RunnerIsKeeps DEF StartEscalation, Decided
  <2>2. QED
    BY <1>a, <2>1 DEF Moves, RunnerState
<1>5. CASE SendMail(r)
  <2>1. runner'[r] = [runner[r] EXCEPT !.pc = "sent"] /\ OthersKept(r) /\ runner[r].pc = "replying"
    BY <1>5, RunnerIsKeeps DEF SendMail, Goto
  <2>2. QED
    BY <1>a, <2>1 DEF Moves, RunnerState
<1>6. CASE CommitEscalation(r)
  <2>1. CASE Stop(r)
    BY <1>1, <2>1
  <2>2. CASE RunnerIs(r, [runner[r] EXCEPT !.pc = "notifying", !.dirty = FALSE,
                                           !.seen = posted, !.closed = (status = "CLOSED")])
    <3>1. /\ runner'[r] = [runner[r] EXCEPT !.pc = "notifying", !.dirty = FALSE,
                                !.seen = posted, !.closed = (status = "CLOSED")]
          /\ OthersKept(r) /\ runner[r].pc = "escalating"
      BY <1>6, <2>2, RunnerIsKeeps DEF CommitEscalation
    <3>2. QED
      BY <1>a, <3>1 DEF Moves, RunnerState
  <2>3. QED
    BY <1>6, <2>1, <2>2 DEF CommitEscalation
<1>7. ASSUME NEW m \in Msgs, RouteToHuman(r, m) \/ DropTask(r, m)
      PROVE  runner'[r] = runner[r] /\ OthersKept(r)
  BY <1>7 DEF RouteToHuman, DropTask, OthersKept
<1>8. ASSUME NEW m \in Msgs, StartTask(r, m) \/ Regenerate(r, m)
      PROVE  Loads(r) /\ OthersKept(r)
  <2>1. CASE StartTask(r, m)
    BY <2>1, RunnerIsKeeps DEF StartTask, Loads
  <2>2. CASE Regenerate(r, m)
    BY <2>2, RunnerIsKeeps DEF Regenerate, Loads
  <2>3. QED
    BY <1>8, <2>1, <2>2
<1>9. ASSUME NEW d \in Decision, SaveSuggestion(r, d)
      PROVE  (runner'[r] = IdleRunner \/ Moves(r)) /\ OthersKept(r)
  <2>1. CASE Stop(r)
    BY <1>1, <2>1
  <2>2. CASE RunnerIs(r, [runner[r] EXCEPT !.pc = "escalating", !.dirty = FALSE])
    <3>1. /\ runner'[r] = [runner[r] EXCEPT !.pc = "escalating", !.dirty = FALSE]
          /\ OthersKept(r) /\ runner[r].pc = "thinking"
      BY <1>9, <2>2, RunnerIsKeeps DEF SaveSuggestion, Decided
    <3>2. QED
      BY <1>a, <3>1 DEF Moves, RunnerState
  <2>3. QED
    BY <1>9, <2>1, <2>2 DEF SaveSuggestion
<1>10. ASSUME NEW d \in Decision, StartReply(r, d)
       PROVE  Moves(r) /\ OthersKept(r)
  <2>1. /\ runner'[r] = [runner[r] EXCEPT !.pc = "replying"] /\ OthersKept(r)
        /\ runner[r].pc = "thinking" /\ enabled /\ mode # "SUGGEST"
    BY <1>10, RunnerIsKeeps DEF StartReply, MayReply, Decided, Muted, Goto
  <2>2. QED
    BY <1>a, <2>1 DEF Moves, Begins, RunnerState
<1>11. ASSUME NEW d \in Decision, SkipReply(r, d)
       PROVE  runner'[r] = IdleRunner /\ OthersKept(r)
  BY <1>1, <1>11 DEF SkipReply
<1>12. QED
  BY <1>2, <1>3, <1>4, <1>5, <1>6, <1>7, <1>8, <1>9, <1>10, <1>11 DEF RunnerStep

(* The other steps leave the runners alone. *)
LEMMA RunnersOnly ==
    ASSUME TypeOK, [Next]_vars
    PROVE  \/ UNCHANGED runner
           \/ \E r \in Runners : RunnerStep(r)
BY DEF Next, vars, PostMessage, Redeliver, TimePasses, MissedChat, HumanStep, Takeover,
       ReturnToAI, AgentReply, CloseConversation, SetConfig, AgentTicket, ResolveTicket,
       CheckerStep, CreateTimeoutTicket, SendTimeoutNotice, StampMessage, AbortCheck,
       BeatScan, PublicCheck, EscalateMessage

(* While a human has control, no further session joins those that may still  *)
(* speak for the AI.                                                         *)
THEOREM TakeoverHolds == Spec => TakeoverDrains
<1>1. TypeOK /\ [Next]_vars => [control = "HUMAN_CONTROL" => AIBound' \subseteq AIBound]_vars
  <2> SUFFICES ASSUME TypeOK, [Next]_vars, control = "HUMAN_CONTROL",
                      NEW q \in Runners, q \in AIBound'
               PROVE  q \in AIBound
    BY DEF AIBound
  <2>1. CASE UNCHANGED runner
    BY <2>1 DEF AIBound
  <2>2. ASSUME NEW r \in Runners, RunnerStep(r), q # r PROVE q \in AIBound
    BY <2>2, RunnerMoves DEF OthersKept, AIBound
  <2>3. CASE RunnerStep(q)
    <3>1. runner'[q] # IdleRunner
      BY DEF AIBound, IdleRunner
    <3>2. runner'[q].human # TRUE
      BY DEF AIBound
    <3>3. ~Loads(q)
      <4>1. \A m \in Msgs : Load(m, TRUE).human = TRUE
        BY LoadReads
      <4>2. QED
        BY <4>1, <3>2 DEF Loads
    <3>4. runner'[q] = runner[q] \/ Moves(q)
      BY <2>3, <3>1, <3>3, RunnerMoves
    <3>5. QED
      BY <3>4 DEF AIBound, Moves, Begins
  <2>4. QED
    BY <2>1, <2>2, <2>3, RunnersOnly
<1>2. QED
  BY <1>1, TypeCorrect, PTL DEF Spec, TakeoverDrains

(* While AI is off, or only suggests, no further reply is begun. *)
THEOREM KillSwitchHolds == Spec => KillSwitchDrains
<1>1. TypeOK /\ [Next]_vars => [~enabled \/ mode = "SUGGEST" => InFlight' \subseteq InFlight]_vars
  <2> SUFFICES ASSUME TypeOK, [Next]_vars, ~enabled \/ mode = "SUGGEST",
                      NEW q \in Runners, q \in InFlight'
               PROVE  q \in InFlight
    BY DEF InFlight
  <2>1. CASE UNCHANGED runner
    BY <2>1 DEF InFlight
  <2>2. ASSUME NEW r \in Runners, RunnerStep(r), q # r PROVE q \in InFlight
    BY <2>2, RunnerMoves DEF OthersKept, InFlight
  <2>3. CASE RunnerStep(q)
    <3>1. runner'[q] # IdleRunner
      BY DEF InFlight, IdleRunner
    <3>2. runner'[q].pc # "ready"
      BY DEF InFlight
    <3>3. ~Loads(q)
      BY <3>2, LoadReads DEF Loads
    <3>4. runner'[q] = runner[q] \/ Moves(q)
      BY <2>3, <3>1, <3>3, RunnerMoves
    <3>5. QED
      BY <3>4 DEF InFlight, Moves, Begins
  <2>4. QED
    BY <2>1, <2>2, <2>3, RunnersOnly
<1>2. QED
  BY <1>1, TypeCorrect, PTL DEF Spec, KillSwitchDrains

-----------------------------------------------------------------------------
(* The timeout's tickets, when one session at a time looks for timeouts. *)

TimeoutTickets == {i \in DOMAIN tickets : tickets[i].open /\ tickets[i].source = "AUTOMATION"}

(* Who is about to create one has found no open ticket, and only he could     *)
(* have created one since.                                                   *)
TimeoutInv ==
    /\ \A i, j \in TimeoutTickets : i = j
    /\ \A c \in Checkers : checker[c].pc = "creating" => TimeoutTickets = {}

(* The tickets of the agent run and of a human do not count. *)
LEMMA NewTicketCounts ==
    ASSUME TypeOK, NEW source \in Source, NEW trigger \in Nat, NewTicket(source, trigger)
    PROVE  TimeoutTickets' = IF source = "AUTOMATION" THEN TimeoutTickets \cup {Len(tickets) + 1}
                                                     ELSE TimeoutTickets
<1>. DEFINE t == [source |-> source, trigger |-> trigger, open |-> TRUE]
<1>1. tickets \in Seq(Ticket) /\ t \in Ticket /\ tickets' = Append(tickets, t)
  BY DEF TypeOK, NewTicket, Ticket
<1>2. /\ DOMAIN tickets = 1..Len(tickets) /\ Len(tickets) \in Nat
      /\ DOMAIN tickets' = DOMAIN tickets \cup {Len(tickets) + 1}
      /\ Len(tickets) + 1 \notin DOMAIN tickets
      /\ tickets'[Len(tickets) + 1] = t
      /\ \A i \in DOMAIN tickets : tickets'[i] = tickets[i]
  BY <1>1
<1>3. QED
  BY <1>2 DEF TimeoutTickets

(* A session of the AI adds no ticket, or one of its own. *)
LEMMA RunnerTickets ==
    ASSUME TypeOK, NEW r \in Runners, RunnerStep(r)
    PROVE  UNCHANGED checker /\ TimeoutTickets' = TimeoutTickets
<1>1. CASE CommitEscalation(r)
  <2>1. NewTicket("AI_ESCALATION", runner[r].msg) /\ UNCHANGED checker
    BY <1>1 DEF CommitEscalation
  <2>2. runner[r].msg \in Nat
    BY BoundsAssumption DEF TypeOK, RunnersOK, RunnerState
  <2>3. QED
    BY <2>1, <2>2, NewTicketCounts DEF Source
<1>2. CASE ~CommitEscalation(r)
  <2>1. UNCHANGED <<checker, tickets>>
    BY <1>2 DEF RunnerStep, RefuseRun, AcquireRun, KeepSilent, StartEscalation, SendMail,
       CommitReply, NotifyCustomer, AbortRun, RouteToHuman, DropTask, StartTask, Regenerate,
       SaveSuggestion, StartReply, SkipReply, desk
  <2>2. QED
    BY <2>1 DEF TimeoutTickets
<1>3. QED
  BY <1>1, <1>2

(* The only session that looks for timeouts keeps its finding. *)
LEMMA CheckerTickets ==
    ASSUME TypeOK, TimeoutInv, NEW c \in Checkers, \A d \in Checkers : d = c, CheckerStep(c)
    PROVE  TimeoutInv'
<1>1. CASE CreateTimeoutTicket(c)
  <2>1. /\ TimeoutTickets = {} /\ checker'[c].pc = "noticing"
        /\ NewTicket("AUTOMATION", checker[c].msg)
    BY <1>1 DEF CreateTimeoutTicket, CheckerIs, TimeoutInv, TypeOK, CheckersOK, CheckerState
  <2>2. checker[c].msg \in Nat
    BY BoundsAssumption DEF TypeOK, CheckersOK, CheckerState
  <2>3. TimeoutTickets' = {Len(tickets) + 1}
    BY <2>1, <2>2, NewTicketCounts DEF Source
  <2>4. QED
    BY <2>1, <2>3 DEF TimeoutInv
<1>2. CASE SendTimeoutNotice(c) \/ StampMessage(c) \/ AbortCheck(c)
  <2>1. UNCHANGED tickets /\ checker'[c].pc # "creating"
    BY <1>2 DEF SendTimeoutNotice, StampMessage, AbortCheck, Release, CheckerIs, IdleChecker,
       TypeOK, CheckersOK, CheckerState, desk
  <2>2. QED
    BY <2>1 DEF TimeoutInv, TimeoutTickets
<1>3. ASSUME NEW m \in Msgs, EscalateMessage(c, m) PROVE TimeoutInv'
  <2>1. UNCHANGED tickets /\ (~OpenTicket \/ UNCHANGED checker)
    BY <1>3 DEF EscalateMessage
  <2>2. ~OpenTicket => TimeoutTickets = {}
    BY DEF OpenTicket, TimeoutTickets
  <2>3. QED
    BY <2>1, <2>2 DEF TimeoutInv, TimeoutTickets
<1>4. QED
  BY <1>1, <1>2, <1>3 DEF CheckerStep, BeatScan, PublicCheck

(* Every step keeps TimeoutInv. *)
LEMMA NextTickets ==
    ASSUME TypeOK, TimeoutInv, \A c, d \in Checkers : c = d, [Next]_vars
    PROVE  TimeoutInv'
<1>1. ASSUME NEW r \in Runners, RunnerStep(r) PROVE TimeoutInv'
  BY <1>1, RunnerTickets DEF TimeoutInv
<1>2. ASSUME NEW c \in Checkers, CheckerStep(c) PROVE TimeoutInv'
  BY <1>2, CheckerTickets
<1>3. CASE AgentTicket
  <2>1. NewTicket("AGENT_CREATED", 0) /\ UNCHANGED checker
    BY <1>3 DEF AgentTicket
  <2>2. TimeoutTickets' = TimeoutTickets
    BY <2>1, NewTicketCounts DEF Source
  <2>3. QED
    BY <2>1, <2>2 DEF TimeoutInv
<1>4. ASSUME NEW i \in DOMAIN tickets, ResolveTicket(i) PROVE TimeoutInv'
  <2>1. UNCHANGED checker /\ tickets' = [tickets EXCEPT ![i].open = FALSE]
    BY <1>4 DEF ResolveTicket
  <2>2. TimeoutTickets' \subseteq TimeoutTickets
    BY <2>1 DEF TimeoutTickets, TypeOK, Ticket
  <2>3. QED
    BY <2>1, <2>2 DEF TimeoutInv
<1>5. CASE \/ PostMessage \/ MissedChat \/ Takeover \/ ReturnToAI \/ AgentReply
           \/ CloseConversation \/ SetConfig \/ UNCHANGED vars
           \/ \E m \in Msgs : Redeliver(m) \/ TimePasses(m)
  <2>1. UNCHANGED <<tickets, checker>>
    BY <1>5 DEF PostMessage, MissedChat, Takeover, ReturnToAI, AgentReply, CloseConversation,
       SetConfig, vars, Redeliver, TimePasses, desk
  <2>2. QED
    BY <2>1 DEF TimeoutInv, TimeoutTickets
<1>6. QED
  BY <1>1, <1>2, <1>3, <1>4, <1>5 DEF Next, HumanStep

(* With one session at a time looking for timeouts, a conversation has at     *)
(* most one open timeout ticket, whatever agents, runs and crashes do.       *)
THEOREM OneTimeoutTicket ==
    ASSUME \A c, d \in Checkers : c = d
    PROVE  Spec => []OneOpenTimeoutTicket
<1>1. Init => TimeoutInv
  BY DEF Init, TimeoutInv, TimeoutTickets, IdleChecker
<1>2. TypeOK /\ TimeoutInv /\ [Next]_vars => TimeoutInv'
  BY NextTickets
<1>3. TimeoutInv => OneOpenTimeoutTicket
  <2>1. CASE TimeoutTickets = {}
    BY <2>1, FS_EmptySet DEF OneOpenTimeoutTicket, TimeoutTickets
  <2>2. ASSUME TimeoutInv, NEW i \in TimeoutTickets PROVE OneOpenTimeoutTicket
    <3>1. TimeoutTickets = {i}
      BY <2>2 DEF TimeoutInv
    <3>2. Cardinality(TimeoutTickets) = 1
      BY <3>1, FS_Singleton
    <3>3. QED
      BY <3>2 DEF OneOpenTimeoutTicket, TimeoutTickets
  <2>3. QED
    BY <2>1, <2>2
<1>4. QED
  BY <1>1, <1>2, <1>3, TypeCorrect, PTL DEF Spec
=============================================================================
