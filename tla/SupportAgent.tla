----------------------------- MODULE SupportAgent -----------------------------
(***************************************************************************)
(* The support agent: one customer message in, one decision out.           *)
(*                                                                         *)
(* The graph of run_support_agent_graph classifies, applies the response   *)
(* policy, retrieves, generates, validates and decides; whatever raises an *)
(* exception in it starts _fallback_support_agent, which does the same     *)
(* from the state the graph was given, asking the LLM anew.  Every call to *)
(* the LLM may fail or answer anything its schema allows.                  *)
(*                                                                         *)
(* Texts are reduced to where they come from, scores to hundredths (the    *)
(* confidence to ten thousandths, as it is rounded).  Prompts, language,   *)
(* traces and the wording of reasons are left out.                         *)
(***************************************************************************)
EXTENDS Retrieval

CONSTANTS
    Requests,   \* what is known of a message before any LLM is asked
    Configs,    \* effective configurations
    Kinds,      \* message kinds a classification may return
    Intents,    \* intents it may return
    Scores,     \* scores the LLM may give
    Replies     \* texts the LLM may write

VARIABLES
    request,    \* the message and its conversation
    config,     \* RuntimeAIConfig
    pass,       \* "graph" or "fallback"
    node,       \* what runs next, or "done" or "failed"
    agent,      \* SupportAgentState
    found       \* the two searches and the fused hits, until they are reranked

vars == <<request, config, pass, node, agent, found>>

AIMode == {"DRAFT_ONLY", "SUGGEST", "AUTO_REPLY"}
MessageKind == {"GREETING", "IDENTITY", "SMALL_TALK", "SUPPORT_REQUEST", "HUMAN_REQUEST",
                "OUT_OF_DOMAIN", "UNCLEAR"}
PolicyAction == {"SAFE_REPLY", "SOFT_REFUSE", "CONTINUE_SUPPORT", "ESCALATE", "CLARIFY"}
AgentDecision == {"SUGGEST_ONLY", "SOFT_REPLY", "AI_RESOLVE", "ESCALATE"}
Soft == {"SAFE_REPLY", "SOFT_REFUSE", "CLARIFY"}
SmallTalk == {"GREETING", "IDENTITY", "SMALL_TALK"}

(* A text of the LLM is none, under 5, under 11 characters, or longer.       *)
Written == {"none", "scrap", "short", "answer"}
Draft == Written \cup {"template", "apology"}
Nodes == {"load_context", "classify_intent", "apply_response_policy", "retrieve_knowledge",
          "search_words", "rerank", "evaluate_retrieved_context", "generate_answer", "grounding_check",
          "calculate_confidence", "decision", "done", "failed"}

RequestType == [human : BOOLEAN, named : BOOLEAN, history : BOOLEAN, taken_over : BOOLEAN]
ConfigType == [mode : AIMode, policy : BOOLEAN, greetings : BOOLEAN, ood_refuse : BOOLEAN,
               ood_escalates : BOOLEAN, escalate_unknown : BOOLEAN, need_knowledge : BOOLEAN,
               restricted : SUBSET Intents, allowed : SUBSET Intents, rrf : BOOLEAN,
               auto_reply : 0..100, escalation : 0..100, relevance : 0..100]

ASSUME AgentAssumption ==
    /\ Requests \subseteq RequestType
    /\ Configs \subseteq ConfigType
    /\ Kinds \subseteq MessageKind
    /\ Replies \subseteq Written
    /\ Scores \subseteq 0..100

(* The fields of SupportAgentState before the first node, with its defaults. *)
NewState ==
    [kind |-> "SUPPORT_REQUEST", intent |-> "unset", sure |-> 0, angry |-> FALSE,
     human |-> FALSE, summary |-> FALSE, action |-> "CONTINUE_SUPPORT", ungrounded |-> FALSE,
     docs |-> <<>>, retrieval |-> 0, available |-> TRUE, draft |-> "none", grounded |-> FALSE,
     support |-> 0, confidence |-> 0, doubts |-> FALSE, advice |-> "none",
     decision |-> "none", final |-> "none"]

NothingFound == [first |-> <<>>, second |-> <<>>, hits |-> <<>>]

Init ==
    /\ request \in Requests
    /\ config \in Configs
    /\ pass = "graph"
    /\ node = "load_context"
    /\ agent = NewState
    /\ found = NothingFound

Runs(n) == node = n
Goes(n) == node' = n
Keep == UNCHANGED <<request, config, pass>>

-----------------------------------------------------------------------------
(* The response policy *)

Unconfident == 55   \* safe_reply_min_kind_confidence

(* evaluate_early_policy, given how sure the LLM is of the kind. *)
EarlyPolicy(a, kindSure) ==
    IF ~config.policy THEN "CONTINUE_SUPPORT"
    ELSE IF a.human \/ a.kind = "HUMAN_REQUEST" \/ a.angry THEN "ESCALATE"
    ELSE IF a.kind \in SmallTalk
         THEN IF config.greetings /\ kindSure >= Unconfident THEN "SAFE_REPLY"
                                                              ELSE "CONTINUE_SUPPORT"
    ELSE IF a.kind = "OUT_OF_DOMAIN"
         THEN IF config.ood_refuse /\ ~config.ood_escalates THEN "SOFT_REFUSE" ELSE "ESCALATE"
    ELSE IF a.kind = "UNCLEAR" THEN "CLARIFY"
    ELSE "CONTINUE_SUPPORT"

(* evaluate_no_kb_policy *)
NoKbPolicy(a) ==
    IF ~config.policy \/ a.human \/ a.kind = "HUMAN_REQUEST" \/ a.angry THEN "ESCALATE"
    ELSE IF config.ood_refuse /\ ~config.ood_escalates THEN "SOFT_REFUSE"
    ELSE "ESCALATE"

(* apply_policy_to_state; the soft actions are those that may be sent without *)
(* knowledge, and render_soft_draft writes them from a template.             *)
WithPolicy(a, action) == [a EXCEPT !.action = action, !.ungrounded = action \in Soft]
SoftDraft(a) == [a EXCEPT !.draft = "template", !.grounded = FALSE, !.available = FALSE]

-----------------------------------------------------------------------------
(* The confidence and the decision *)

(* effective_confidence_threshold, in ten thousandths. *)
Threshold == 100 * (IF config.auto_reply > config.escalation THEN config.auto_reply
                                                             ELSE config.escalation)

ContextCompleteness(a) ==
    50 + (IF request.named THEN 20 ELSE 0) + (IF request.history THEN 15 ELSE 0)
       + (IF a.summary THEN 15 ELSE 0)

ResponseValidation(a) == CASE a.draft = "none"  -> 0
                           [] a.draft = "scrap" -> 30
                           [] OTHER             -> 100

PolicyBlocks(a) == a.human \/ request.taken_over

GroundingPart(a) == IF a.support # 0 THEN a.support ELSE IF a.grounded THEN 90 ELSE 20

(* calculate_confidence_breakdown: the sum of the weighted parts, ...        *)
Confidence(a) ==
    15 * a.sure + 25 * a.retrieval + 25 * GroundingPart(a) + 10 * ContextCompleteness(a)
    + (IF PolicyBlocks(a) THEN 0 ELSE 1000) + 15 * ResponseValidation(a)

(* ... whether it has reasons against an answer, ...                         *)
Doubts(a) ==
    \/ /\ ~a.ungrounded
       /\ \/ ~a.available
          \/ a.retrieval < config.relevance
          \/ ~a.grounded
          \/ GroundingPart(a) < 50
    \/ PolicyBlocks(a)
    \/ a.intent \in config.restricted

(* ... and what it would decide, which is shown with the run.                *)
Advice(a, c) ==
    IF a.ungrounded /\ ~a.human
    THEN IF config.mode = "SUGGEST" THEN "SUGGEST_ONLY" ELSE "SOFT_REPLY"
    ELSE IF Doubts(a) THEN "ESCALATE"
    ELSE IF config.mode = "SUGGEST" THEN "SUGGEST_ONLY"
    ELSE IF c < Threshold THEN "ESCALATE"
    ELSE "AI_RESOLVE"

(* evaluate_escalation *)
Objections(a) ==
    \/ a.doubts
    \/ a.human \/ request.human
    \/ a.angry
    \/ a.intent = "OTHER" /\ config.escalate_unknown
    \/ a.intent \in config.restricted
    \/ config.allowed # {} /\ a.intent \notin config.allowed
    \/ a.retrieval < config.relevance
    \/ a.available /\ ~a.grounded
    \/ a.confidence < Threshold

Decision(a) ==
    IF config.mode = "SUGGEST" THEN "SUGGEST_ONLY"
    ELSE IF a.ungrounded /\ a.action \in Soft THEN "SOFT_REPLY"
    ELSE IF Objections(a) \/ ~a.grounded THEN "ESCALATE"
    ELSE "AI_RESOLVE"

-----------------------------------------------------------------------------
(* The nodes *)

(* summarize_if_needed: a failing LLM leaves a placeholder for a summary.    *)
LoadContext ==
    /\ Runs("load_context") /\ Goes("classify_intent")
    /\ \E some \in BOOLEAN : agent' = [agent EXCEPT !.summary = some]
    /\ UNCHANGED found /\ Keep

(* The customer's own words count whatever the LLM makes of them.            *)
AsksForHuman_LlmOnly(llm) == llm
AsksForHuman(llm) == request.human \/ llm

(* The classification and the policy that needs its certainty about the kind; *)
(* nothing but the LLM runs between the two nodes.                           *)
ClassifyIntent ==
    /\ Runs("classify_intent")
    /\ \E kind \in Kinds, intent \in Intents, sure, kindSure \in Scores, angry, asks \in BOOLEAN :
         LET read   == [agent EXCEPT !.kind = kind, !.intent = intent, !.sure = sure,
                                     !.angry = angry, !.human = AsksForHuman(asks)]
             action == EarlyPolicy(read, kindSure)
         IN  /\ agent' = IF action \in Soft THEN SoftDraft(WithPolicy(read, action))
                                            ELSE WithPolicy(read, action)
             /\ Goes(IF action = "CONTINUE_SUPPORT" THEN "retrieve_knowledge"
                                                    ELSE "calculate_confidence")
    /\ UNCHANGED found /\ Keep

(* HybridRetriever.search: the vectors first, then the words. *)
RetrieveKnowledge ==
    /\ Runs("retrieve_knowledge") /\ Goes("search_words")
    /\ \E s \in VectorLists : found' = [found EXCEPT !.first = s]
    /\ UNCHANGED agent /\ Keep

SearchWords ==
    /\ Runs("search_words") /\ Goes("rerank")
    /\ \E t \in IF config.rrf THEN FtsLists ELSE KeywordLists :
         found' = [found EXCEPT !.second = t, !.hits = Search(config.rrf, found.first, t)]
    /\ UNCHANGED agent /\ Keep

(* A relevance the LLM does not give is computed from the words in common.   *)
RerankHits ==
    /\ Runs("rerank") /\ Goes("evaluate_retrieved_context")
    /\ \E relevance \in [Chunks -> Scores] :
         LET docs == Rerank(found.hits, relevance)
         IN  agent' = [agent EXCEPT !.docs = docs, !.retrieval = Aggregate(docs)]
    /\ found' = NothingFound /\ Keep

EvaluateContext ==
    /\ Runs("evaluate_retrieved_context")
    /\ IF GatePasses(agent.docs, config.relevance, config.need_knowledge)
       THEN Goes("generate_answer") /\ UNCHANGED agent
       ELSE /\ Goes("calculate_confidence")
            /\ LET action == NoKbPolicy(agent)
                   judged == SoftDraft(WithPolicy(agent, action))
               IN  agent' = IF action \in Soft THEN judged
                                               ELSE [judged EXCEPT !.draft = "apology"]
    /\ UNCHANGED found /\ Keep

(* What the LLM says of its own answer's grounding is replaced in the next   *)
(* node, except when there is no answer, which counts as not grounded.       *)
GenerateAnswer ==
    /\ Runs("generate_answer") /\ Goes("grounding_check")
    /\ \E text \in Replies : agent' = [agent EXCEPT !.draft = text]
    /\ UNCHANGED found /\ Keep

(* GroundingValidator: a failing LLM is replaced by the length of the text.  *)
Validations_WithoutSources(a) == [grounded : BOOLEAN, score : Scores]
Validations(a) ==
    IF a.draft = "none" \/ a.docs = <<>> THEN {[grounded |-> FALSE, score |-> 0]}
    ELSE [grounded : BOOLEAN, score : Scores]
         \cup {IF a.draft = "answer" THEN [grounded |-> TRUE, score |-> 85]
                                     ELSE [grounded |-> FALSE, score |-> 30]}
GroundingCheck ==
    /\ Runs("grounding_check") /\ Goes("calculate_confidence")
    /\ \E v \in Validations(agent) :
         agent' = [agent EXCEPT !.grounded = v.grounded /\ v.score >= 50, !.support = v.score]
    /\ UNCHANGED found /\ Keep

CalculateConfidence ==
    /\ Runs("calculate_confidence") /\ Goes("decision")
    /\ LET c == Confidence(agent)
       IN  agent' = [agent EXCEPT !.confidence = c, !.doubts = Doubts(agent),
                                  !.advice = Advice(agent, c)]
    /\ UNCHANGED found /\ Keep

(* An escalation also asks the LLM for a summary, and has no text to send.   *)
Decide ==
    /\ Runs("decision") /\ Goes("done")
    /\ LET d == Decision(agent)
       IN  agent' = [agent EXCEPT !.decision = d,
                                  !.final = IF d = "ESCALATE" THEN "none" ELSE agent.draft]
    /\ UNCHANGED found /\ Keep

-----------------------------------------------------------------------------
(* Failures *)

(* The LLM or the embedding provider fails where nothing catches it.         *)
MayRaise == \/ node \in {"classify_intent", "retrieve_knowledge", "generate_answer"}
            \/ node = "decision" /\ Decision(agent) = "ESCALATE"

StartFallback_EveryTime ==
    /\ MayRaise
    /\ pass' = "fallback" /\ Goes("load_context")
    /\ agent' = NewState /\ found' = NothingFound
    /\ UNCHANGED <<request, config>>
StartFallback ==
    /\ pass = "graph" /\ MayRaise
    /\ pass' = "fallback" /\ Goes("load_context")
    /\ agent' = NewState /\ found' = NothingFound
    /\ UNCHANGED <<request, config>>

Raise ==
    /\ pass = "fallback" /\ MayRaise
    /\ Goes("failed")
    /\ UNCHANGED <<agent, found>> /\ Keep

(* A failing statement leaves a transaction in which the fallback's first    *)
(* query fails too.                                                          *)
DatabaseFails ==
    /\ node \in {"load_context", "retrieve_knowledge", "search_words", "generate_answer",
                "grounding_check"}
    /\ Goes("failed")
    /\ pass' = "fallback"
    /\ UNCHANGED <<request, config, agent, found>>

Step ==
    \/ LoadContext \/ ClassifyIntent \/ RetrieveKnowledge \/ SearchWords \/ RerankHits
    \/ EvaluateContext \/ GenerateAnswer \/ GroundingCheck \/ CalculateConfidence \/ Decide

Next == Step \/ StartFallback \/ Raise \/ DatabaseFails

Spec == Init /\ [][Next]_vars

(* Every call returns or raises. *)
FairSpec == Spec /\ WF_vars(Next)

-----------------------------------------------------------------------------
(* Properties *)

TypeOK ==
    /\ request \in Requests /\ config \in Configs
    /\ pass \in {"graph", "fallback"} /\ node \in Nodes
    /\ agent.kind \in MessageKind
    /\ agent.intent \in Intents \cup {"unset"}
    /\ agent.action \in PolicyAction
    /\ agent.draft \in Draft /\ agent.final \in Draft
    /\ agent.decision \in AgentDecision \cup {"none"}
    /\ agent.advice \in AgentDecision \cup {"none"}
    /\ agent.retrieval \in 0..100 /\ agent.support \in 0..100
    /\ agent.confidence \in 0..10000
    /\ Len(agent.docs) <= Kept /\ Len(found.hits) <= Candidates

(* Outside SUGGEST a customer who asks for a human in so many words, or is    *)
(* read as asking for one, or as angry, and whatever the policy escalates,    *)
(* goes to a human: no later node and no second pass takes it back.          *)
HandoffStands ==
    /\ node = "done" /\ config.mode # "SUGGEST"
    /\ request.human \/ agent.human \/ agent.angry \/ agent.action = "ESCALATE"
    => agent.decision = "ESCALATE"

(* What is sent without an agent's look is a template, as a soft reply, or an *)
(* answer of the LLM that was validated against a document that passed the    *)
(* gate, on an intent that is allowed, with the confidence asked for; never   *)
(* the apology for missing knowledge or the answer of a pass that failed.     *)
(* The decision shown with the run's confidence is the one taken.            *)
SentTextIsEarned ==
    node = "done" /\ agent.decision \in {"SOFT_REPLY", "AI_RESOLVE"} =>
        /\ agent.advice = agent.decision
        /\ agent.decision = "SOFT_REPLY" => agent.final = "template"
        /\ agent.decision = "AI_RESOLVE" =>
              /\ agent.final \in Replies \ {"none"}
              /\ agent.docs # <<>> /\ agent.docs[1] >= config.relevance
              /\ agent.grounded /\ agent.support >= 50
              /\ ~(agent.confidence < Threshold)
              /\ agent.intent \notin config.restricted /\ ~request.taken_over

(* The candidates for an answer respect the order of both searches.          *)
FusionRespectsBoth == RespectsBoth(config.rrf, found.first, found.second, found.hits)

(* The agent gives AgentRun one verdict the mode allows, and does not think   *)
(* for ever, whatever fails: Verdict is implemented.                         *)
verdict == CASE node = "done"   -> agent.decision
             [] node = "failed" -> "failed"
             [] OTHER           -> "pending"
V == INSTANCE Verdict WITH mode <- config.mode, human <- request.human
ImplementsVerdict == V!FairSpec
=============================================================================
