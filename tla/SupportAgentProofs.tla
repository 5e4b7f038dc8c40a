-------------------------- MODULE SupportAgentProofs --------------------------
(***************************************************************************)
(* For every message, configuration, set of scores and behaviour of the    *)
(* LLM: what goes to a human stays there, what is sent has been earned,    *)
(* the agent implements Verdict, and the candidates for an answer respect  *)
(* both searches.                                                          *)
(*                                                                         *)
(* AgentInv is the inductive invariant.  It says of each node what the     *)
(* nodes before it have established, which is what the code leaves implicit *)
(* in the order of the graph: soft replies are only for calm customers who *)
(* ask for nobody, "grounded" is only set behind the gate.  Fused is the   *)
(* one for what the searches find; with it all the work is in the lemmas   *)
(* about Retrieval's operators: both scores put the chunks into a strict   *)
(* order, the places are its ranks, and both sums grow with each part.     *)
(***************************************************************************)
EXTENDS SupportAgent, FiniteSetTheorems, TLAPS

Fields == {"kind", "intent", "sure", "angry", "human", "summary", "action", "ungrounded",
           "docs", "retrieval", "available", "draft", "grounded", "support", "confidence",
           "doubts", "advice", "decision", "final"}

Answering == {"retrieve_knowledge", "search_words", "rerank", "evaluate_retrieved_context",
              "generate_answer", "grounding_check"}
Judged == {"calculate_confidence", "decision", "done"}

Gate == GatePasses(agent.docs, config.relevance, config.need_knowledge)

Shape == DOMAIN agent = Fields /\ node \in Nodes

(* Nothing is grounded before the validator has seen it. *)
Fresh ==
    node \in {"load_context", "classify_intent"} \cup Answering =>
        /\ agent.grounded = FALSE /\ agent.ungrounded = FALSE
        /\ agent.action = "CONTINUE_SUPPORT"

HumanKept == node \in Answering \cup Judged => (request.human => agent.human = TRUE)

Gated ==
    /\ node \in {"generate_answer", "grounding_check"} => Gate
    /\ node = "grounding_check" => agent.draft \in Replies

SoftIsCalm ==
    node \in Judged /\ agent.ungrounded =>
        /\ agent.action \in Soft /\ agent.draft = "template"
        /\ ~agent.human /\ ~agent.angry

EscalatedUngrounded == node \in Judged /\ agent.action = "ESCALATE" => ~agent.grounded

GroundedIsBacked ==
    node \in Judged /\ agent.grounded =>
        /\ agent.draft \in Replies \ {"none"}
        /\ agent.docs # <<>> /\ agent.docs[1] >= config.relevance
        /\ agent.support >= 50

Weighed ==
    node = "decision" =>
        /\ agent.doubts = Doubts(agent)
        /\ agent.advice = Advice(agent, agent.confidence)

AgentInv ==
    /\ Shape /\ Fresh /\ HumanKept /\ Gated
    /\ SoftIsCalm /\ EscalatedUngrounded /\ GroundedIsBacked
    /\ Weighed /\ HandoffStands /\ SentTextIsEarned

-----------------------------------------------------------------------------
(* The policies are silent or soft only towards calm customers. *)
LEMMA EarlyPolicyCalm ==
    ASSUME NEW a, NEW n, EarlyPolicy(a, n) \in Soft
    PROVE  ~a.human /\ ~a.angry
BY DEF EarlyPolicy, Soft

LEMMA NoKbPolicyCalm ==
    ASSUME NEW a, NoKbPolicy(a) \in Soft
    PROVE  ~a.human /\ ~a.angry
BY DEF NoKbPolicy, Soft

-----------------------------------------------------------------------------
(* One lemma per node *)

LEMMA LoadContextKeeps == ASSUME AgentInv, LoadContext PROVE AgentInv'
BY DEF AgentInv, Shape, Fresh, HumanKept, Gated, Gate, SoftIsCalm, EscalatedUngrounded,
       GroundedIsBacked, Weighed, HandoffStands, SentTextIsEarned, Answering, Judged, Nodes,
       Fields, LoadContext, Runs, Goes, Keep

LEMMA ClassifyIntentKeeps == ASSUME AgentInv, ClassifyIntent PROVE AgentInv'
<1>1. PICK kind \in Kinds, intent \in Intents, sure \in Scores, kindSure \in Scores,
           angry \in BOOLEAN, asks \in BOOLEAN :
         LET read   == [agent EXCEPT !.kind = kind, !.intent = intent, !.sure = sure,
                                     !.angry = angry, !.human = AsksForHuman(asks)]
             action == EarlyPolicy(read, kindSure)
         IN  /\ agent' = IF action \in Soft THEN SoftDraft(WithPolicy(read, action))
                                            ELSE WithPolicy(read, action)
             /\ Goes(IF action = "CONTINUE_SUPPORT" THEN "retrieve_knowledge"
                                                    ELSE "calculate_confidence")
  BY Zenon DEF ClassifyIntent
<1>. DEFINE read   == [agent EXCEPT !.kind = kind, !.intent = intent, !.sure = sure,
                                    !.angry = angry, !.human = AsksForHuman(asks)]
            action == EarlyPolicy(read, kindSure)
<1>2. /\ DOMAIN read = Fields
      /\ read.grounded = FALSE
      /\ request.human => read.human = TRUE
  <2>1. AsksForHuman(asks) \in BOOLEAN /\ (request.human => AsksForHuman(asks) = TRUE)
    BY DEF AsksForHuman
  <2>. QED
    BY <2>1 DEF AgentInv, Shape, Fresh, Fields, ClassifyIntent, Runs
<1>3. action \in Soft => ~read.human /\ ~read.angry
  BY EarlyPolicyCalm
<1>4. /\ agent' = IF action \in Soft THEN SoftDraft(WithPolicy(read, action))
                                      ELSE WithPolicy(read, action)
      /\ node' = IF action = "CONTINUE_SUPPORT" THEN "retrieve_knowledge"
                                                ELSE "calculate_confidence"
  BY <1>1 DEF Goes
<1>. HIDE DEF read, action
<1>5. /\ DOMAIN agent' = Fields
      /\ agent'.grounded = FALSE
      /\ agent'.human = read.human /\ agent'.angry = read.angry
      /\ agent'.action = action
      /\ agent'.ungrounded = (action \in Soft)
      /\ action \in Soft => agent'.draft = "template"
  BY <1>2, <1>4 DEF SoftDraft, WithPolicy, Fields
<1>6. UNCHANGED <<request, config>>
  BY DEF ClassifyIntent, Keep
<1>. USE DEF AgentInv, Shape, Fresh, HumanKept, Gated, Gate, SoftIsCalm, EscalatedUngrounded,
             GroundedIsBacked, Weighed, HandoffStands, SentTextIsEarned, Answering, Judged,
             Nodes, Soft
<1>7. CASE action = "CONTINUE_SUPPORT"
  <2>1. node' = "retrieve_knowledge"
    BY <1>4, <1>7
  <2>2. (action \in Soft) = FALSE
    BY <1>7
  <2>3. agent'.ungrounded = FALSE
    BY <1>5, <2>2, Zenon
  <2>. QED
    BY <1>2, <1>5, <1>6, <1>7, <2>1, <2>3
<1>8. CASE action # "CONTINUE_SUPPORT"
  <2>1. node' = "calculate_confidence"
    BY <1>4, <1>8
  <2>. QED
    BY <1>2, <1>3, <1>5, <1>6, <2>1
<1>. QED
  BY <1>7, <1>8

LEMMA SearchKeeps == ASSUME AgentInv, RetrieveKnowledge \/ SearchWords PROVE AgentInv'
BY DEF AgentInv, Shape, Fresh, HumanKept, Gated, Gate, SoftIsCalm, EscalatedUngrounded,
       GroundedIsBacked, Weighed, HandoffStands, SentTextIsEarned, Answering, Judged, Nodes,
       RetrieveKnowledge, SearchWords, Runs, Goes, Keep

LEMMA RerankHitsKeeps == ASSUME AgentInv, RerankHits PROVE AgentInv'
<1>1. PICK docs, score : agent' = [agent EXCEPT !.docs = docs, !.retrieval = score]
  BY DEF RerankHits
<1>2. /\ DOMAIN agent' = Fields
      /\ agent'.grounded = agent.grounded /\ agent'.ungrounded = agent.ungrounded
      /\ agent'.action = agent.action /\ agent'.human = agent.human
  BY <1>1 DEF AgentInv, Shape, Fields
<1>. QED
  BY <1>2
     DEF AgentInv, Shape, Fresh, HumanKept, Gated, Gate, SoftIsCalm, EscalatedUngrounded,
         GroundedIsBacked, Weighed, HandoffStands, SentTextIsEarned, Answering, Judged, Nodes,
         RerankHits, Runs, Goes, Keep

LEMMA EvaluateContextKeeps == ASSUME AgentInv, EvaluateContext PROVE AgentInv'
<1>. USE DEF AgentInv, Shape, Fresh, HumanKept, Gated, Gate, SoftIsCalm, EscalatedUngrounded,
             GroundedIsBacked, Weighed, HandoffStands, SentTextIsEarned, Answering, Judged, Nodes,
             Runs, Goes, Keep
<1>1. CASE Gate
  BY <1>1 DEF EvaluateContext
<1>2. CASE ~Gate
  <2>. DEFINE action == NoKbPolicy(agent)
              judged == SoftDraft(WithPolicy(agent, action))
  <2>1. /\ agent' = IF action \in Soft THEN judged ELSE [judged EXCEPT !.draft = "apology"]
        /\ node' = "calculate_confidence"
    BY <1>2 DEF EvaluateContext
  <2>2. action \in Soft => ~agent.human /\ ~agent.angry
    BY NoKbPolicyCalm
  <2>. HIDE DEF action
  <2>3. /\ DOMAIN agent' = Fields
        /\ agent'.grounded = FALSE
        /\ agent'.human = agent.human /\ agent'.angry = agent.angry
        /\ agent'.ungrounded = (action \in Soft) /\ agent'.action = action
        /\ action \in Soft => agent'.draft = "template"
    BY <2>1 DEF SoftDraft, WithPolicy, Fields
  <2>. QED
    BY <2>1, <2>2, <2>3 DEF EvaluateContext
<1>. QED
  BY <1>1, <1>2

LEMMA GenerateAnswerKeeps == ASSUME AgentInv, GenerateAnswer PROVE AgentInv'
BY DEF AgentInv, Shape, Fresh, HumanKept, Gated, Gate, SoftIsCalm, EscalatedUngrounded,
       GroundedIsBacked, Weighed, HandoffStands, SentTextIsEarned, Answering, Judged, Nodes,
       Fields, GenerateAnswer, Runs, Goes, Keep

LEMMA GroundingCheckKeeps == ASSUME AgentInv, GroundingCheck PROVE AgentInv'
<1>. USE DEF AgentInv, Shape, Fresh, HumanKept, Gated, Gate, SoftIsCalm, EscalatedUngrounded,
             GroundedIsBacked, Weighed, HandoffStands, SentTextIsEarned, Answering, Judged, Nodes
<1>1. PICK v \in Validations(agent) :
         agent' = [agent EXCEPT !.grounded = v.grounded /\ v.score >= 50, !.support = v.score]
  BY DEF GroundingCheck
<1>2. /\ DOMAIN agent' = Fields
      /\ agent'.grounded = (v.grounded /\ v.score >= 50) /\ agent'.support = v.score
      /\ agent'.ungrounded = FALSE /\ agent'.action = "CONTINUE_SUPPORT"
      /\ agent'.human = agent.human /\ agent'.draft = agent.draft /\ agent'.docs = agent.docs
  BY <1>1 DEF Fields, GroundingCheck, Runs
<1>3. v.grounded /\ v.score >= 50 => agent.draft # "none" /\ agent.docs # <<>>
  BY DEF Validations
<1>4. agent.docs # <<>> => agent.docs[1] >= config.relevance
  BY DEF GroundingCheck, Runs, GatePasses
<1>5. node = "grounding_check" /\ node' = "calculate_confidence" /\ UNCHANGED <<request, config>>
  BY DEF GroundingCheck, Runs, Goes, Keep
<1>. QED
  BY <1>2, <1>3, <1>4, <1>5

LEMMA CalculateConfidenceKeeps == ASSUME AgentInv, CalculateConfidence PROVE AgentInv'
<1>. USE DEF AgentInv, Shape, Fresh, HumanKept, Gated, SoftIsCalm, EscalatedUngrounded,
             GroundedIsBacked, Weighed, HandoffStands, SentTextIsEarned, Answering, Judged, Nodes
<1>. DEFINE c == Confidence(agent)
<1>1. agent' = [agent EXCEPT !.confidence = c, !.doubts = Doubts(agent), !.advice = Advice(agent, c)]
  BY DEF CalculateConfidence
<1>2. /\ node = "calculate_confidence" /\ node' = "decision" /\ UNCHANGED <<request, config>>
  BY DEF CalculateConfidence, Runs, Goes, Keep
<1>. HIDE DEF c
<1>3. /\ DOMAIN agent' = Fields
      /\ agent'.confidence = c
      /\ agent'.doubts = Doubts(agent) /\ agent'.advice = Advice(agent, c)
      /\ agent'.human = agent.human /\ agent'.angry = agent.angry
      /\ agent'.action = agent.action /\ agent'.ungrounded = agent.ungrounded
      /\ agent'.grounded = agent.grounded /\ agent'.draft = agent.draft
      /\ agent'.docs = agent.docs /\ agent'.support = agent.support
  BY <1>1 DEF Fields
<1>4. /\ Doubts(agent') = Doubts(agent) /\ Advice(agent', c) = Advice(agent, c)
  <2>1. /\ agent'.available = agent.available /\ agent'.intent = agent.intent
        /\ agent'.retrieval = agent.retrieval
    BY <1>1 DEF Fields
  <2>2. Doubts(agent') = Doubts(agent)
    BY <1>3, <2>1, Zenon DEF Doubts, PolicyBlocks, GroundingPart
  <2>3. Advice(agent', c) = Advice(agent, c)
    BY <1>3, <2>2, Zenon DEF Advice
  <2>. QED
    BY <2>2, <2>3
<1>5. /\ Doubts(agent)' = Doubts(agent') /\ Advice(agent, agent.confidence)' = Advice(agent', c)
  BY <1>2, <1>3 DEF Doubts, Advice, PolicyBlocks, GroundingPart, Threshold
<1>6. Weighed'
  BY <1>3, <1>4, <1>5, Zenon
<1>7. Shape' /\ Fresh' /\ HumanKept' /\ Gated' /\ HandoffStands' /\ SentTextIsEarned'
  BY <1>2, <1>3
<1>8. SoftIsCalm' /\ EscalatedUngrounded' /\ GroundedIsBacked'
  BY <1>2, <1>3
<1>. QED
  BY <1>6, <1>7, <1>8 DEF AgentInv

(* The decision, from what the nodes before it have established. *)
LEMMA DecisionSound ==
    ASSUME AgentInv, node = "decision"
    PROVE  /\ config.mode # "SUGGEST" /\ (request.human \/ agent.human \/ agent.angry
                                          \/ agent.action = "ESCALATE")
              => Decision(agent) = "ESCALATE"
           /\ Decision(agent) = "SOFT_REPLY" => agent.draft = "template"
           /\ Decision(agent) = "AI_RESOLVE" =>
                 /\ agent.grounded /\ ~Objections(agent)
                 /\ ~agent.ungrounded \/ agent.action \notin Soft
           /\ Decision(agent) \in {"SOFT_REPLY", "AI_RESOLVE"} => agent.advice = Decision(agent)
<1>. USE DEF AgentInv, SoftIsCalm, EscalatedUngrounded, Judged, HumanKept, Decision
<1>1. config.mode # "SUGGEST" /\ (request.human \/ agent.human \/ agent.angry
                                          \/ agent.action = "ESCALATE")
              => Decision(agent) = "ESCALATE"
  BY DEF Objections, Soft
<1>2. Decision(agent) = "SOFT_REPLY" => agent.draft = "template" /\ agent.ungrounded /\ ~agent.human
                                       /\ config.mode # "SUGGEST"
  OBVIOUS
<1>3. Decision(agent) = "AI_RESOLVE" =>
                 /\ agent.grounded /\ ~Objections(agent) /\ config.mode # "SUGGEST"
                 /\ ~agent.ungrounded
  OBVIOUS
<1>4. Decision(agent) = "SOFT_REPLY" => agent.advice = "SOFT_REPLY"
  BY <1>2 DEF Weighed, Advice
<1>5. Decision(agent) = "AI_RESOLVE" => agent.advice = "AI_RESOLVE"
  BY <1>3 DEF Weighed, Advice, Objections
<1>. QED
  BY <1>1, <1>2, <1>3, <1>4, <1>5

LEMMA DecideKeeps == ASSUME AgentInv, Decide PROVE AgentInv'
<1>. DEFINE d == Decision(agent)
<1>1. /\ agent' = [agent EXCEPT !.decision = d,
                                !.final = IF d = "ESCALATE" THEN "none" ELSE agent.draft]
      /\ node = "decision" /\ node' = "done" /\ UNCHANGED <<request, config>>
  BY DEF Decide, Runs, Goes, Keep
<1>2. /\ config.mode # "SUGGEST" /\ (request.human \/ agent.human \/ agent.angry
                                          \/ agent.action = "ESCALATE")
              => d = "ESCALATE"
      /\ d = "SOFT_REPLY" => agent.draft = "template"
      /\ d = "AI_RESOLVE" => agent.grounded /\ ~Objections(agent)
      /\ d \in {"SOFT_REPLY", "AI_RESOLVE"} => agent.advice = d
  BY <1>1, DecisionSound
<1>. HIDE DEF d
<1>3. /\ DOMAIN agent' = Fields
      /\ agent'.decision = d /\ (d # "ESCALATE" => agent'.final = agent.draft)
      /\ agent'.human = agent.human /\ agent'.angry = agent.angry
      /\ agent'.action = agent.action /\ agent'.ungrounded = agent.ungrounded
      /\ agent'.grounded = agent.grounded /\ agent'.draft = agent.draft
      /\ agent'.docs = agent.docs /\ agent'.support = agent.support
      /\ agent'.advice = agent.advice /\ agent'.confidence = agent.confidence
      /\ agent'.intent = agent.intent
  BY <1>1 DEF AgentInv, Shape, Fields
<1>4. Shape' /\ Fresh' /\ HumanKept' /\ Gated' /\ Weighed'
  BY <1>1, <1>3 DEF AgentInv, Shape, Fresh, HumanKept, Gated, Weighed, Answering, Judged, Nodes
<1>5. SoftIsCalm' /\ EscalatedUngrounded' /\ GroundedIsBacked'
  BY <1>1, <1>3 DEF AgentInv, SoftIsCalm, EscalatedUngrounded, GroundedIsBacked, Judged
<1>6. HandoffStands'
  BY <1>1, <1>2, <1>3 DEF HandoffStands
<1>7. SentTextIsEarned'
  <2>1. CASE d = "SOFT_REPLY"
    BY <1>1, <1>2, <1>3, <2>1 DEF SentTextIsEarned
  <2>2. CASE d = "AI_RESOLVE"
    <3>1. agent.grounded /\ ~Objections(agent)
      BY <1>2, <2>2
    <3>2. ~agent.doubts /\ agent.intent \notin config.restricted /\ ~(agent.confidence < Threshold)
      BY <3>1 DEF Objections
    <3>3. ~request.taken_over
      BY <1>1, <3>2 DEF AgentInv, Weighed, Doubts, PolicyBlocks
    <3>4. /\ agent.draft \in Replies \ {"none"}
          /\ agent.docs # <<>> /\ agent.docs[1] >= config.relevance
          /\ agent.support >= 50
      BY <1>1, <3>1 DEF AgentInv, GroundedIsBacked, Judged
    <3>. QED
      BY <1>1, <1>2, <1>3, <2>2, <3>1, <3>2, <3>3, <3>4 DEF SentTextIsEarned, Threshold
  <2>3. CASE d \notin {"SOFT_REPLY", "AI_RESOLVE"}
    BY <1>3, <2>3 DEF SentTextIsEarned
  <2>. QED
    BY <2>1, <2>2, <2>3
<1>. QED
  BY <1>4, <1>5, <1>6, <1>7 DEF AgentInv

LEMMA NewStateInv ==
    ASSUME agent = NewState, node = "load_context"
    PROVE  AgentInv
BY DEF AgentInv, Shape, Fresh, HumanKept, Gated, SoftIsCalm, EscalatedUngrounded,
       GroundedIsBacked, Weighed, HandoffStands, SentTextIsEarned, Answering, Judged, Nodes,
       Fields, NewState

LEMMA FallbackKeeps == ASSUME StartFallback PROVE AgentInv'
<1>1. agent' = NewState /\ node' = "load_context"
  BY DEF StartFallback, Goes
<1>. QED
  BY <1>1 DEF AgentInv, Shape, Fresh, HumanKept, Gated, SoftIsCalm, EscalatedUngrounded,
       GroundedIsBacked, Weighed, HandoffStands, SentTextIsEarned, Answering, Judged, Nodes,
       Fields, NewState

LEMMA FailureKeeps == ASSUME AgentInv, Raise \/ DatabaseFails PROVE AgentInv'
<1>1. UNCHANGED agent /\ node' = "failed"
  BY DEF Raise, DatabaseFails, Goes
<1>. QED
  BY <1>1 DEF AgentInv, Shape, Fresh, HumanKept, Gated, SoftIsCalm, EscalatedUngrounded,
       GroundedIsBacked, Weighed, HandoffStands, SentTextIsEarned, Answering, Judged, Nodes

LEMMA StutterKeeps == ASSUME AgentInv, UNCHANGED vars PROVE AgentInv'
<1>1. /\ request' = request /\ config' = config /\ node' = node /\ agent' = agent
  BY DEF vars
<1>2. Shape' /\ Fresh' /\ HumanKept' /\ Gated'
  BY <1>1 DEF AgentInv, Shape, Fresh, HumanKept, Gated, Gate, GatePasses
<1>3. SoftIsCalm' /\ EscalatedUngrounded' /\ GroundedIsBacked'
  BY <1>1 DEF AgentInv, SoftIsCalm, EscalatedUngrounded, GroundedIsBacked
<1>4. Doubts(agent)' = Doubts(agent) /\ Advice(agent, agent.confidence)' = Advice(agent, agent.confidence)
  BY <1>1 DEF Doubts, Advice, PolicyBlocks, GroundingPart, Threshold
<1>5. Weighed'
  BY <1>1, <1>4 DEF AgentInv, Weighed
<1>6. HandoffStands' /\ SentTextIsEarned'
  BY <1>1 DEF AgentInv, HandoffStands, SentTextIsEarned, Threshold
<1>. QED
  BY <1>2, <1>3, <1>5, <1>6 DEF AgentInv

-----------------------------------------------------------------------------
(* AgentInv holds at every node, in both passes and after any failure: what   *)
(* run_support_agent_graph relies on from one node to the next.              *)
THEOREM AgentHolds == Spec => []AgentInv
<1>1. Init => AgentInv
  BY NewStateInv DEF Init
<1>2. AgentInv /\ [Next]_vars => AgentInv'
  <2>. SUFFICES ASSUME AgentInv, [Next]_vars PROVE AgentInv'
    OBVIOUS
  <2>1. CASE Step
    BY <2>1, LoadContextKeeps, ClassifyIntentKeeps, SearchKeeps, RerankHitsKeeps,
       EvaluateContextKeeps, GenerateAnswerKeeps, GroundingCheckKeeps,
       CalculateConfidenceKeeps, DecideKeeps, Zenon DEF Step
  <2>2. CASE StartFallback \/ Raise \/ DatabaseFails
    BY <2>2, FallbackKeeps, FailureKeeps, Zenon
  <2>3. CASE UNCHANGED vars
    BY <2>3, StutterKeeps
  <2>. QED
    BY <2>1, <2>2, <2>3, Zenon DEF Next
<1>. QED
  BY <1>1, <1>2, PTL DEF Spec

(* Who asks for a human gets one, outside SUGGEST, whatever the LLM answers   *)
(* (the decision node of support_agent.py).                                  *)
THEOREM HumanReached == Spec => []HandoffStands
<1>1. AgentInv => HandoffStands
  BY DEF AgentInv
<1>. QED
  BY <1>1, AgentHolds, PTL

(* What is sent unseen is a template or an answer that was checked against a  *)
(* document: no path through the graph or its fallback skips the checks.     *)
THEOREM NothingUnearned == Spec => []SentTextIsEarned
<1>1. AgentInv => SentTextIsEarned
  BY DEF AgentInv
<1>. QED
  BY <1>1, AgentHolds, PTL

(* The safety half of ImplementsVerdict: the agent's steps are Verdict's, so  *)
(* it answers once and as the mode allows.                                   *)
THEOREM AgentRefinesVerdict == Spec => V!Spec
<1>1. Init => V!Init
  BY DEF Init, V!Init, verdict
<1>2. AgentInv /\ [Next]_vars => [V!Give]_(V!vars)
  <2>. SUFFICES ASSUME AgentInv, [Next]_vars PROVE [V!Give]_(V!vars)
    OBVIOUS
  <2>. USE DEF V!vars, V!Give
  <2>1. CASE Decide
    <3>1. /\ node = "decision" /\ node' = "done" /\ agent'.decision = Decision(agent)
          /\ UNCHANGED <<request, config>>
      BY <2>1 DEF Decide, Runs, Goes, Keep, AgentInv, Shape, Fields
    <3>2. Decision(agent) \in V!Allowed(config.mode, request.human)
      <4>1. config.mode # "SUGGEST" /\ request.human => Decision(agent) = "ESCALATE"
        BY <3>1, DecisionSound
      <4>. QED
        BY <4>1 DEF V!Allowed, Decision
    <3>. QED
      BY <3>1, <3>2 DEF verdict
  <2>2. CASE Raise \/ DatabaseFails
    BY <2>2 DEF Raise, DatabaseFails, MayRaise, Goes, Keep, verdict
  <2>3. CASE StartFallback
    BY <2>3 DEF StartFallback, MayRaise, Goes, verdict
  <2>4. CASE LoadContext \/ ClassifyIntent \/ RetrieveKnowledge \/ SearchWords \/ RerankHits
    <3>1. /\ node \notin {"done", "failed"} /\ node' \notin {"done", "failed"}
          /\ UNCHANGED <<request, config>>
      <4>1. CASE ClassifyIntent
        <5>1. /\ node = "classify_intent" /\ UNCHANGED <<request, config>>
          BY <4>1 DEF ClassifyIntent, Runs, Keep
        <5>2. PICK kind \in Kinds, intent \in Intents, sure \in Scores, kindSure \in Scores,
                   angry \in BOOLEAN, asks \in BOOLEAN :
                 LET read   == [agent EXCEPT !.kind = kind, !.intent = intent, !.sure = sure,
                                             !.angry = angry, !.human = AsksForHuman(asks)]
                     action == EarlyPolicy(read, kindSure)
                 IN  /\ agent' = IF action \in Soft THEN SoftDraft(WithPolicy(read, action))
                                                    ELSE WithPolicy(read, action)
                     /\ Goes(IF action = "CONTINUE_SUPPORT" THEN "retrieve_knowledge"
                                                            ELSE "calculate_confidence")
          BY <4>1, Zenon DEF ClassifyIntent
        <5>. QED
          BY <5>1, <5>2 DEF Goes
      <4>2. CASE LoadContext \/ RetrieveKnowledge \/ SearchWords \/ RerankHits
        BY <4>2 DEF LoadContext, RetrieveKnowledge, SearchWords, RerankHits, Runs, Goes, Keep
      <4>. QED
        BY <2>4, <4>1, <4>2
    <3>. QED
      BY <3>1 DEF verdict
  <2>5. CASE EvaluateContext \/ GenerateAnswer \/ GroundingCheck \/ CalculateConfidence
    BY <2>5 DEF EvaluateContext, GenerateAnswer, GroundingCheck, CalculateConfidence, Runs,
                Goes, Keep, verdict
  <2>6. CASE UNCHANGED vars
    BY <2>6 DEF vars, verdict
  <2>. QED
    BY <2>1, <2>2, <2>3, <2>4, <2>5, <2>6, Zenon DEF Next, Step
<1>. QED
  BY <1>1, <1>2, AgentHolds, PTL DEF Spec, V!Spec

-----------------------------------------------------------------------------
(* The fusion of two lists *)

(* A hit of a list has a rank in it, and its chunk is a number. *)
LEMMA ListFacts ==
    ASSUME NEW l \in Lists
    PROVE  /\ IsFiniteSet(Found(l)) /\ Found(l) \subseteq Nat /\ Len(l) \in Nat
           /\ \A c \in Found(l) : /\ RankOf(l, c) \in Nat \ {0} /\ RankOf(l, c) <= Len(l)
                                  /\ l[RankOf(l, c)].chunk = c
           /\ \A c : ScoreOf(l, c) \in Nat
<1>1. PICK n \in 0..Listed : l \in [1..n -> [chunk : Chunks, score : HitScores]]
  BY DEF Lists
<1>2. n \in Nat /\ Len(l) = n /\ DOMAIN l = 1..n
  BY <1>1, RetrievalAssumption
<1>3. \A i \in 1..n : l[i] \in [chunk : Chunks, score : HitScores]
  BY <1>1
<1>4. \A i \in 1..n : l[i].chunk \in Nat /\ l[i].score \in Nat
  <2>1. \A i \in 1..n : l[i].chunk \in Chunks /\ l[i].score \in HitScores
    BY <1>3
  <2>2. Chunks \subseteq Nat /\ \A h \in HitScores : h \in Nat
    BY RetrievalAssumption
  <2>. QED
    BY <2>1, <2>2
<1>5. IsFiniteSet(Found(l))
  <2>. DEFINE f == [i \in 1..n |-> l[i].chunk]
  <2>1. IsFiniteSet(1..n)
    BY <1>2, FS_Interval
  <2>2. f \in Surjection(1..n, Found(l))
    BY <1>2 DEF Surjection, Found
  <2>. HIDE DEF f
  <2>. QED
    BY <2>1, <2>2, FS_Surjection
<1>6. ASSUME NEW c \in Found(l)
      PROVE  RankOf(l, c) \in 1..n /\ l[RankOf(l, c)].chunk = c
  BY <1>2 DEF Found, RankOf
<1>7. ASSUME NEW c PROVE ScoreOf(l, c) \in Nat
  BY <1>4, <1>6 DEF ScoreOf
<1>. QED
  BY <1>2, <1>4, <1>5, <1>6, <1>7 DEF Found

(* Products keep the order of their factors: what comparing fractions needs. *)
LEMMA Larger ==
    ASSUME NEW a \in Nat, NEW b \in Nat, NEW k \in Nat
    PROVE  /\ a * k \in Nat
           /\ a >= b => a * k >= b * k
           /\ a > b /\ k > 0 => a * k > b * k
OBVIOUS

LEMMA Regroup ==
    ASSUME NEW a \in Nat, NEW b \in Nat, NEW c \in Nat
    PROVE  (a * b) * c = (a * c) * b /\ (a * b) * c = (c * b) * a /\ a * b = b * a
OBVIOUS

IsScore(x) == x[1] \in Nat /\ x[2] \in Nat \ {0}
NoLower(x, y) == ~Higher(y, x)

LEMMA HigherOrders ==
    ASSUME NEW x, NEW y, NEW z, IsScore(x), IsScore(y), IsScore(z)
    PROVE  /\ ~Higher(x, x)
           /\ Higher(x, y) \/ Higher(y, x) \/ (NoLower(x, y) /\ NoLower(y, x))
           /\ Higher(x, y) => NoLower(x, y)
           /\ Higher(x, y) /\ NoLower(y, z) => Higher(x, z)
           /\ NoLower(x, y) /\ Higher(y, z) => Higher(x, z)
           /\ NoLower(x, y) /\ NoLower(y, z) => NoLower(x, z)
<1>1. PICK a \in Nat, b \in Nat \ {0}, c \in Nat, d \in Nat \ {0}, e \in Nat, g \in Nat \ {0} :
           x[1] = a /\ x[2] = b /\ y[1] = c /\ y[2] = d /\ z[1] = e /\ z[2] = g
  BY DEF IsScore
<1>2. /\ a * d \in Nat /\ c * b \in Nat /\ c * g \in Nat /\ e * d \in Nat
      /\ a * g \in Nat /\ e * b \in Nat /\ a * b \in Nat
  BY Larger
<1>3. /\ Higher(x, y) <=> a * d > c * b
      /\ Higher(y, x) <=> c * b > a * d
      /\ Higher(y, z) <=> c * g > e * d
      /\ Higher(z, y) <=> e * d > c * g
      /\ Higher(x, z) <=> a * g > e * b
      /\ Higher(z, x) <=> e * b > a * g
      /\ Higher(x, x) <=> a * b > a * b
  BY <1>1 DEF Higher
<1>4. /\ (a * d) * g = (a * g) * d /\ (c * b) * g = (c * g) * b /\ (e * d) * b = (e * b) * d
  BY Regroup
<1>5. /\ a * d >= c * b => (a * g) * d >= (c * g) * b
      /\ a * d > c * b => (a * g) * d > (c * g) * b
  <2>1. /\ a * d >= c * b => (a * d) * g >= (c * b) * g
        /\ a * d > c * b => (a * d) * g > (c * b) * g
    BY <1>2, Larger
  <2>. QED
    BY <2>1, <1>4
<1>6. /\ c * g >= e * d => (c * g) * b >= (e * b) * d
      /\ c * g > e * d => (c * g) * b > (e * b) * d
  <2>1. /\ c * g >= e * d => (c * g) * b >= (e * d) * b
        /\ c * g > e * d => (c * g) * b > (e * d) * b
    BY <1>2, Larger
  <2>. QED
    BY <2>1, <1>4
<1>7. /\ e * b >= a * g => (e * b) * d >= (a * g) * d
      /\ e * b > a * g => (e * b) * d > (a * g) * d
  BY <1>2, Larger
<1>8. (a * g) * d \in Nat /\ (c * g) * b \in Nat /\ (e * b) * d \in Nat
  BY <1>2, Larger
<1>. DEFINE p == a * d  q == c * b  r == c * g  u == e * d  v == a * g  w == e * b
            pp == (a * g) * d  qq == (c * g) * b  rr == (e * b) * d
<1>9. /\ p \in Nat /\ q \in Nat /\ r \in Nat /\ u \in Nat /\ v \in Nat /\ w \in Nat
      /\ pp \in Nat /\ qq \in Nat /\ rr \in Nat
      /\ p >= q => pp >= qq
      /\ p > q => pp > qq
      /\ r >= u => qq >= rr
      /\ r > u => qq > rr
      /\ w >= v => rr >= pp
      /\ w > v => rr > pp
  BY <1>2, <1>5, <1>6, <1>7, <1>8
<1>. HIDE DEF p, q, r, u, v, w, pp, qq, rr
<1>10. /\ p > q /\ ~(u > r) => v > w
       /\ ~(q > p) /\ r > u => v > w
       /\ ~(q > p) /\ ~(u > r) => ~(w > v)
       /\ p > q => ~(q > p)
  BY <1>9
<1>11. ~(a * b > a * b)
  BY <1>2
<1>. QED
  BY <1>3, <1>10, <1>11 DEF NoLower, p, q, r, u, v, w

(* Both fusions put the chunks of two lists into a strict order. *)
Both(s, t) == Found(s) \cup Found(t)
StrictlyOrders(rrf, s, t) ==
    \A c, d, e \in Both(s, t) :
        /\ ~Before(rrf, s, t, c, c)
        /\ c # d => Before(rrf, s, t, c, d) \/ Before(rrf, s, t, d, c)
        /\ Before(rrf, s, t, c, d) /\ Before(rrf, s, t, d, e) => Before(rrf, s, t, c, e)

(* Where a chunk stands in either list, moved by k as the fusion does. *)
RrfParts(s, t, c) ==
    /\ c \in Found(s) => RrfK + RankOf(s, c) \in Nat \ {0}
    /\ c \in Found(t) => RrfK + RankOf(t, c) \in Nat \ {0}

LEMMA RrfScores ==
    ASSUME NEW s \in Lists, NEW t \in Lists, NEW c \in Both(s, t)
    PROVE  /\ RrfParts(s, t, c)
           /\ IsScore(RrfScore(s, t, c))
<1>1. RrfParts(s, t, c)
  BY ListFacts, RetrievalAssumption DEF RrfParts
<1>. DEFINE a == RrfK + RankOf(s, c)
            b == RrfK + RankOf(t, c)
<1>2. RrfScore(s, t, c) = CASE c \notin Found(t) -> <<1, a>>
                            [] c \notin Found(s) -> <<1, b>>
                            [] OTHER             -> <<a + b, a * b>>
  BY DEF RrfScore
<1>3. /\ c \in Found(s) => a \in Nat \ {0}
      /\ c \in Found(t) => b \in Nat \ {0}
  BY <1>1 DEF RrfParts
<1>. HIDE DEF a, b
<1>4. CASE c \notin Found(t)
  BY <1>1, <1>2, <1>3, <1>4 DEF IsScore, Both
<1>5. CASE c \in Found(t) /\ c \notin Found(s)
  BY <1>1, <1>2, <1>3, <1>5 DEF IsScore, Both
<1>6. CASE c \in Found(t) /\ c \in Found(s)
  <2>1. a \in Nat /\ b \in Nat /\ a > 0 /\ b > 0
    BY <1>3, <1>6
  <2>2. a * b \in Nat /\ a * b > 0 * b /\ 0 * b = 0
    BY <2>1, Larger
  <2>3. RrfScore(s, t, c) = <<a + b, a * b>>
    BY <1>2, <1>6
  <2>. QED
    BY <1>1, <2>1, <2>2, <2>3 DEF IsScore
<1>. QED
  BY <1>4, <1>5, <1>6

LEMMA RrfOrders ==
    ASSUME NEW s \in Lists, NEW t \in Lists
    PROVE  StrictlyOrders(TRUE, s, t)
<1>. SUFFICES ASSUME NEW c \in Both(s, t), NEW d \in Both(s, t), NEW e \in Both(s, t)
              PROVE  /\ ~RrfBefore(s, t, c, c)
                     /\ c # d => RrfBefore(s, t, c, d) \/ RrfBefore(s, t, d, c)
                     /\ RrfBefore(s, t, c, d) /\ RrfBefore(s, t, d, e) => RrfBefore(s, t, c, e)
  BY DEF StrictlyOrders, Before
<1>. DEFINE x == RrfScore(s, t, c)  y == RrfScore(s, t, d)  z == RrfScore(s, t, e)
<1>1. IsScore(x) /\ IsScore(y) /\ IsScore(z)
  BY RrfScores
<1>2. c \in Nat /\ d \in Nat /\ e \in Nat
  BY ListFacts DEF Both
<1>3. /\ RrfBefore(s, t, c, c) <=> Higher(x, x) \/ (NoLower(x, x) /\ c < c)
      /\ RrfBefore(s, t, c, d) <=> Higher(x, y) \/ (NoLower(x, y) /\ c < d)
      /\ RrfBefore(s, t, d, c) <=> Higher(y, x) \/ (NoLower(y, x) /\ d < c)
      /\ RrfBefore(s, t, d, e) <=> Higher(y, z) \/ (NoLower(y, z) /\ d < e)
      /\ RrfBefore(s, t, c, e) <=> Higher(x, z) \/ (NoLower(x, z) /\ c < e)
  BY DEF RrfBefore, NoLower
<1>. HIDE DEF x, y, z
<1>4. /\ ~Higher(x, x)
      /\ Higher(x, y) \/ Higher(y, x) \/ (NoLower(x, y) /\ NoLower(y, x))
      /\ Higher(x, y) => NoLower(x, y)
      /\ Higher(x, y) /\ NoLower(y, z) => Higher(x, z)
      /\ NoLower(x, y) /\ Higher(y, z) => Higher(x, z)
      /\ NoLower(x, y) /\ NoLower(y, z) => NoLower(x, z)
  BY <1>1, HigherOrders
<1>5. /\ ~(c < c) /\ (c # d => c < d \/ d < c)
      /\ c < d /\ d < e => c < e
  BY <1>2
<1>6. ~RrfBefore(s, t, c, c)
  BY <1>3, <1>4, <1>5
<1>7. c # d => RrfBefore(s, t, c, d) \/ RrfBefore(s, t, d, c)
  BY <1>3, <1>4, <1>5
<1>8. RrfBefore(s, t, c, d) /\ RrfBefore(s, t, d, e) => RrfBefore(s, t, c, e)
  BY <1>3, <1>4, <1>5
<1>. QED
  BY <1>6, <1>7, <1>8

LEMMA MergeParts ==
    ASSUME NEW s \in Lists, NEW t \in Lists, NEW c \in Both(s, t)
    PROVE  MergedScore(s, t, c) \in Nat /\ Arrival(s, t, c) \in Nat
<1>1. 100 - KeywordPart \in Nat /\ KeywordPart \in Nat
  BY RetrievalAssumption
<1>2. ScoreOf(s, c) \in Nat /\ ScoreOf(t, c) \in Nat
  BY ListFacts
<1>3. (100 - KeywordPart) * ScoreOf(s, c) \in Nat /\ KeywordPart * ScoreOf(t, c) \in Nat
  BY <1>1, <1>2, Larger
<1>4. MergedScore(s, t, c) \in Nat
  BY <1>3 DEF MergedScore
<1>5. Arrival(s, t, c) \in Nat
  BY ListFacts DEF Arrival, Both
<1>. QED
  BY <1>4, <1>5

LEMMA ArriveApart ==
    ASSUME NEW s \in Lists, NEW t \in Lists, NEW c \in Both(s, t), NEW d \in Both(s, t), c # d
    PROVE  Arrival(s, t, c) # Arrival(s, t, d)
<1>1. CASE c \in Found(s) /\ d \in Found(s)
  BY <1>1, ListFacts DEF Arrival
<1>2. CASE c \notin Found(s) /\ d \notin Found(s)
  <2>1. Len(s) \in Nat /\ RankOf(t, c) \in Nat /\ RankOf(t, d) \in Nat
    BY <1>2, ListFacts DEF Both
  <2>2. RankOf(t, c) # RankOf(t, d)
    BY <1>2, ListFacts DEF Both
  <2>. QED
    BY <1>2, <2>1, <2>2 DEF Arrival
<1>3. CASE c \in Found(s) /\ d \notin Found(s)
  BY <1>3, ListFacts DEF Arrival, Both
<1>4. CASE c \notin Found(s) /\ d \in Found(s)
  BY <1>4, ListFacts DEF Arrival, Both
<1>. QED
  BY <1>1, <1>2, <1>3, <1>4

LEMMA MergeOrders ==
    ASSUME NEW s \in Lists, NEW t \in Lists
    PROVE  StrictlyOrders(FALSE, s, t)
<1>. SUFFICES ASSUME NEW c \in Both(s, t), NEW d \in Both(s, t), NEW e \in Both(s, t)
              PROVE  /\ ~MergeBefore(s, t, c, c)
                     /\ c # d => MergeBefore(s, t, c, d) \/ MergeBefore(s, t, d, c)
                     /\ MergeBefore(s, t, c, d) /\ MergeBefore(s, t, d, e) => MergeBefore(s, t, c, e)
  BY DEF StrictlyOrders, Before
<1>1. \A x \in Both(s, t) : MergedScore(s, t, x) \in Nat /\ Arrival(s, t, x) \in Nat
  BY MergeParts
<1>2. c # d => Arrival(s, t, c) # Arrival(s, t, d)
  BY ArriveApart
<1>. QED
  BY <1>1, <1>2 DEF MergeBefore

(* The places of the fusion are 1, 2, ... without a gap, in its order. *)
LEMMA Places ==
    ASSUME NEW rrf \in BOOLEAN, NEW s \in Lists, NEW t \in Lists
    PROVE  /\ IsFiniteSet(Both(s, t)) /\ Cardinality(Both(s, t)) \in Nat
           /\ \A c \in Both(s, t) : Place(rrf, s, t, c) \in 1..Cardinality(Both(s, t))
           /\ \A c, d \in Both(s, t) :
                 Before(rrf, s, t, c, d) => Place(rrf, s, t, c) < Place(rrf, s, t, d)
           /\ \A c, d \in Both(s, t) : Place(rrf, s, t, c) = Place(rrf, s, t, d) => c = d
           /\ \A j \in 1..Cardinality(Both(s, t)) :
                 \E c \in Both(s, t) : Place(rrf, s, t, c) = j
<1>. DEFINE B == Both(s, t)
            Earlier(c) == {d \in B : Before(rrf, s, t, d, c)}
            P(c) == Place(rrf, s, t, c)
            n == Cardinality(B)
<1>1. IsFiniteSet(B) /\ n \in Nat
  BY ListFacts, FS_Union, FS_CardinalityType DEF Both
<1>2. StrictlyOrders(rrf, s, t)
  BY RrfOrders, MergeOrders
<1>3. /\ \A c \in B : ~Before(rrf, s, t, c, c)
      /\ \A c, d \in B : c # d => Before(rrf, s, t, c, d) \/ Before(rrf, s, t, d, c)
      /\ \A c, d, e \in B : Before(rrf, s, t, c, d) /\ Before(rrf, s, t, d, e)
                            => Before(rrf, s, t, c, e)
  BY <1>2 DEF StrictlyOrders
<1>4. \A c : P(c) = 1 + Cardinality(Earlier(c))
  BY DEF Place, Both
<1>. HIDE DEF B, P
<1>5. ASSUME NEW c \in B
      PROVE  /\ IsFiniteSet(Earlier(c)) /\ Cardinality(Earlier(c)) \in Nat
             /\ Cardinality(Earlier(c)) < n
  <2>1. Earlier(c) \subseteq B /\ c \notin Earlier(c)
    BY <1>3
  <2>2. /\ IsFiniteSet(Earlier(c)) /\ Cardinality(Earlier(c)) <= n
        /\ n = Cardinality(Earlier(c)) => B = Earlier(c)
    BY <1>1, <2>1, FS_Subset
  <2>3. Cardinality(Earlier(c)) \in Nat
    BY <2>2, FS_CardinalityType
  <2>. QED
    BY <1>1, <2>1, <2>2, <2>3
<1>6. ASSUME NEW c \in B PROVE P(c) \in 1..n
  <2>. DEFINE m == Cardinality(Earlier(c))
  <2>1. P(c) = 1 + m /\ m \in Nat /\ m < n /\ n \in Nat
    BY <1>1, <1>4, <1>5
  <2>. HIDE DEF m, n
  <2>. QED
    BY <2>1
<1>7. ASSUME NEW c \in B, NEW d \in B, Before(rrf, s, t, c, d)
      PROVE  P(c) < P(d)
  <2>1. Earlier(c) \cup {c} \in SUBSET Earlier(d) /\ c \notin Earlier(c)
    BY <1>3, <1>7
  <2>2. Cardinality(Earlier(c) \cup {c}) = Cardinality(Earlier(c)) + 1
    BY <1>5, <2>1, FS_AddElement
  <2>3. Cardinality(Earlier(c) \cup {c}) <= Cardinality(Earlier(d))
    BY <1>5, <2>1, FS_Subset
  <2>4. Cardinality(Earlier(c)) \in Nat /\ Cardinality(Earlier(d)) \in Nat
    BY <1>5
  <2>. QED
    BY <1>4, <2>2, <2>3, <2>4
<1>8. ASSUME NEW c \in B, NEW d \in B, P(c) = P(d)
      PROVE  c = d
  <2>1. P(c) \in Nat
    BY <1>1, <1>6
  <2>. QED
    BY <1>3, <1>7, <1>8, <2>1
<1>9. ASSUME NEW j \in 1..n
      PROVE  \E c \in B : P(c) = j
  <2>. SUFFICES ASSUME \A c \in B : P(c) # j
                PROVE  FALSE
    OBVIOUS
  <2>. DEFINE T == (1..n) \ {j}
              f == [c \in B |-> P(c)]
  <2>1. IsFiniteSet(1..n) /\ Cardinality(1..n) = n
    <3>1. 1 \in Int /\ n \in Int /\ n - 1 + 1 = n /\ (1 > n <=> n = 0)
      BY <1>1
    <3>. HIDE DEF n
    <3>. QED
      BY <3>1, FS_Interval
  <2>2. IsFiniteSet(T) /\ Cardinality(T) = n - 1
    BY <2>1, FS_RemoveElement
  <2>3. f \in [B -> T]
    BY <1>6
  <2>4. Cardinality(T) < Cardinality(B)
    BY <1>1, <2>2
  <2>5. \E c, d \in B : c # d /\ f[c] = f[d]
    <3>. HIDE DEF T, f
    <3>. QED
      BY <1>1, <2>2, <2>3, <2>4, FS_PigeonHole
  <2>. QED
    BY <1>8, <2>5
<1>. QED
  BY <1>1, <1>6, <1>7, <1>8, <1>9 DEF B, P

(* A hit's position in the fused list is its place, and every better one is  *)
(* in the list with it.                                                      *)
LEMMA SearchPlaces ==
    ASSUME NEW rrf \in BOOLEAN, NEW s \in Lists, NEW t \in Lists,
           NEW c \in Both(s, t), NEW d \in Both(s, t), Before(rrf, s, t, c, d),
           NEW j \in DOMAIN Search(rrf, s, t), Search(rrf, s, t)[j] = d
    PROVE  \E i \in DOMAIN Search(rrf, s, t) : i < j /\ Search(rrf, s, t)[i] = c
<1>. DEFINE B == Both(s, t)
            n == Cardinality(B)
            total == IF n < Candidates THEN n ELSE Candidates
            P(x) == Place(rrf, s, t, x)
<1>1. /\ n \in Nat
      /\ \A x \in B : P(x) \in 1..n
      /\ P(c) < P(d)
      /\ \A x, y \in B : P(x) = P(y) => x = y
      /\ \A k \in 1..n : \E x \in B : P(x) = k
  BY Places
<1>2. Search(rrf, s, t) = [i \in 1..total |-> CHOOSE x \in B : P(x) = i]
  BY DEF Search, Both
<1>3. total \in Nat /\ total <= n
  BY <1>1, RetrievalAssumption
<1>. HIDE DEF B, n, total, P
<1>4. /\ j \in 1..total /\ d = CHOOSE x \in B : P(x) = j
      /\ DOMAIN Search(rrf, s, t) = 1..total
  BY <1>2
<1>5. P(d) = j
  BY <1>1, <1>3, <1>4
<1>6. c \in B /\ P(c) \in 1..total /\ P(c) < j
  BY <1>1, <1>3, <1>4, <1>5 DEF B
<1>7. (CHOOSE x \in B : P(x) = P(c)) = c
  BY <1>1, <1>6
<1>8. Search(rrf, s, t)[P(c)] = c
  BY <1>2, <1>6, <1>7
<1>. QED
  BY <1>4, <1>6, <1>8

(* What one list prefers and the other does not mind comes first: the sums    *)
(* of reciprocal ranks and of weighted scores both grow with each part.      *)
LEMMA SumOfReciprocals ==
    ASSUME NEW a \in Nat \ {0}, NEW b \in Nat \ {0}, NEW p \in Nat \ {0}, NEW q \in Nat \ {0}
    PROVE  /\ a < p /\ b < q => (a + b) * (p * q) > (p + q) * (a * b)
           /\ b < q => (a + b) * q > 1 * (a * b)
           /\ a < p => (a + b) * p > 1 * (a * b)
<1>1. /\ a * b \in Nat /\ p * q \in Nat /\ a * q \in Nat /\ b * q \in Nat /\ b * p \in Nat
      /\ a * p \in Nat
  BY Larger
<1>2. /\ b < q => a * q > a * b
      /\ a < p => b * p > a * b
  <2>1. a * q = q * a /\ a * b = b * a /\ b * p = p * b
    BY Regroup
  <2>2. /\ b < q => q * a > b * a
        /\ a < p => p * b > a * b
    BY Larger
  <2>. QED
    BY <2>1, <2>2
<1>3. (a + b) * q = a * q + b * q /\ (a + b) * p = a * p + b * p
  OBVIOUS
<1>4. ASSUME a < p, b < q
      PROVE  (a + b) * (p * q) > (p + q) * (a * b)
  <2>1. (a + b) * (p * q) = a * (p * q) + b * (p * q)
    OBVIOUS
  <2>2. (p + q) * (a * b) = p * (a * b) + q * (a * b)
    OBVIOUS
  <2>3. /\ a * (p * q) = (a * p) * q /\ p * (a * b) = (a * p) * b
        /\ b * (p * q) = (b * q) * p /\ q * (a * b) = (b * q) * a
    OBVIOUS
  <2>4. a * p > 0 /\ b * q > 0
    <3>1. a * p > 0 * p /\ 0 * p = 0 /\ b * q > 0 * q /\ 0 * q = 0
      BY Larger
    <3>. QED
      BY <3>1
  <2>5. q * (a * p) > b * (a * p) /\ p * (b * q) > a * (b * q)
    BY <1>1, <1>4, <2>4, Larger
  <2>6. /\ q * (a * p) = (a * p) * q /\ b * (a * p) = (a * p) * b
        /\ p * (b * q) = (b * q) * p /\ a * (b * q) = (b * q) * a
    OBVIOUS
  <2>7. /\ (a * p) * q \in Nat /\ (a * p) * b \in Nat
        /\ (b * q) * p \in Nat /\ (b * q) * a \in Nat
    BY <1>1, Larger
  <2>8. (a * p) * q > (a * p) * b /\ (b * q) * p > (b * q) * a
    BY <2>5, <2>6
  <2>9. (a * p) * q + (b * q) * p > (a * p) * b + (b * q) * a
    BY <2>7, <2>8
  <2>. QED
    BY <2>1, <2>2, <2>3, <2>9
<1>. QED
  BY <1>1, <1>2, <1>3, <1>4

LEMMA RrfRespects ==
    ASSUME NEW s \in Lists, NEW t \in Lists, NEW c \in Both(s, t), NEW d \in Both(s, t),
           Prefers(TRUE, s, c, d) \/ Prefers(TRUE, t, c, d),
           ~Prefers(TRUE, s, d, c), ~Prefers(TRUE, t, d, c)
    PROVE  RrfBefore(s, t, c, d)
<1>. DEFINE a == RrfK + RankOf(s, c)
            b == RrfK + RankOf(t, c)
            p == RrfK + RankOf(s, d)
            q == RrfK + RankOf(t, d)
<1>1. /\ c \in Found(s) => a \in Nat \ {0}
      /\ c \in Found(t) => b \in Nat \ {0}
      /\ d \in Found(s) => p \in Nat \ {0}
      /\ d \in Found(t) => q \in Nat \ {0}
  BY RrfScores DEF RrfParts
<1>2. c # d
  BY DEF Prefers
<1>3. /\ d \in Found(s) => c \in Found(s) /\ a < p
      /\ d \in Found(t) => c \in Found(t) /\ b < q
  <2>1. RrfK \in Nat
    BY RetrievalAssumption
  <2>2. /\ d \in Found(s) => c \in Found(s) /\ ~(RankOf(s, d) < RankOf(s, c))
        /\ d \in Found(t) => c \in Found(t) /\ ~(RankOf(t, d) < RankOf(t, c))
    BY DEF Prefers
  <2>3. /\ d \in Found(s) => RankOf(s, d) \in Nat /\ RankOf(s, c) \in Nat /\ RankOf(s, d) # RankOf(s, c)
        /\ d \in Found(t) => RankOf(t, d) \in Nat /\ RankOf(t, c) \in Nat /\ RankOf(t, d) # RankOf(t, c)
    BY <1>2, <2>2, ListFacts
  <2>. QED
    BY <2>1, <2>2, <2>3
<1>4. /\ RrfScore(s, t, c) = CASE c \notin Found(t) -> <<1, a>>
                               [] c \notin Found(s) -> <<1, b>>
                               [] OTHER             -> <<a + b, a * b>>
      /\ RrfScore(s, t, d) = CASE d \notin Found(t) -> <<1, p>>
                               [] d \notin Found(s) -> <<1, q>>
                               [] OTHER             -> <<p + q, p * q>>
  BY DEF RrfScore
<1>. HIDE DEF a, b, p, q
<1>5. d \in Found(s) \/ d \in Found(t)
  BY DEF Both
<1>6. Higher(RrfScore(s, t, c), RrfScore(s, t, d))
  <2>1. CASE d \in Found(s) /\ d \in Found(t)
    <3>1. RrfScore(s, t, c) = <<a + b, a * b>> /\ RrfScore(s, t, d) = <<p + q, p * q>>
      BY <1>3, <1>4, <2>1
    <3>2. (a + b) * (p * q) > (p + q) * (a * b)
      BY <1>1, <1>3, <2>1, SumOfReciprocals
    <3>. QED
      BY <3>1, <3>2 DEF Higher
  <2>2. CASE d \in Found(s) /\ d \notin Found(t)
    <3>1. RrfScore(s, t, d) = <<1, p>>
      BY <1>4, <2>2
    <3>2. CASE c \in Found(t)
      <4>1. RrfScore(s, t, c) = <<a + b, a * b>>
        BY <1>3, <1>4, <2>2, <3>2
      <4>2. (a + b) * p > 1 * (a * b)
        BY <1>1, <1>3, <2>2, <3>2, SumOfReciprocals
      <4>. QED
        BY <3>1, <4>1, <4>2 DEF Higher
    <3>3. CASE c \notin Found(t)
      <4>1. RrfScore(s, t, c) = <<1, a>>
        BY <1>3, <1>4, <2>2, <3>3
      <4>. QED
        BY <1>1, <1>3, <2>2, <3>1, <4>1 DEF Higher
    <3>. QED
      BY <3>2, <3>3
  <2>3. CASE d \notin Found(s) /\ d \in Found(t)
    <3>1. RrfScore(s, t, d) = <<1, q>>
      BY <1>4, <2>3
    <3>2. CASE c \in Found(s)
      <4>1. RrfScore(s, t, c) = <<a + b, a * b>>
        BY <1>3, <1>4, <2>3, <3>2
      <4>2. (a + b) * q > 1 * (a * b)
        BY <1>1, <1>3, <2>3, <3>2, SumOfReciprocals
      <4>. QED
        BY <3>1, <4>1, <4>2 DEF Higher
    <3>3. CASE c \notin Found(s)
      <4>1. RrfScore(s, t, c) = <<1, b>>
        BY <1>3, <1>4, <2>3, <3>3
      <4>. QED
        BY <1>1, <1>3, <2>3, <3>1, <4>1 DEF Higher
    <3>. QED
      BY <3>2, <3>3
  <2>. QED
    BY <1>5, <2>1, <2>2, <2>3
<1>. QED
  BY <1>6 DEF RrfBefore

LEMMA MergeRespects ==
    ASSUME NEW s \in Lists, NEW t \in Lists, NEW c \in Both(s, t), NEW d \in Both(s, t),
           Prefers(FALSE, s, c, d) \/ Prefers(FALSE, t, c, d),
           ~Prefers(FALSE, s, d, c), ~Prefers(FALSE, t, d, c)
    PROVE  MergeBefore(s, t, c, d)
<1>. DEFINE h == 100 - KeywordPart
            k == KeywordPart
            x == ScoreOf(s, c)  y == ScoreOf(t, c)
            u == ScoreOf(s, d)  v == ScoreOf(t, d)
<1>1. /\ h \in Nat \ {0} /\ k \in Nat \ {0}
      /\ x \in Nat /\ y \in Nat /\ u \in Nat /\ v \in Nat
  BY ListFacts, RetrievalAssumption
<1>2. x >= u /\ y >= v /\ (x > u \/ y > v)
  BY <1>1 DEF Prefers
<1>3. /\ MergedScore(s, t, c) = h * x + k * y
      /\ MergedScore(s, t, d) = h * u + k * v
  BY DEF MergedScore
<1>. HIDE DEF h, k, x, y, u, v
<1>4. /\ h * x = x * h /\ h * u = u * h /\ k * y = y * k /\ k * v = v * k
  BY <1>1, Regroup
<1>5. /\ x * h >= u * h /\ y * k >= v * k
      /\ x > u => x * h > u * h
      /\ y > v => y * k > v * k
  BY <1>1, <1>2, Larger
<1>6. x * h \in Nat /\ u * h \in Nat /\ y * k \in Nat /\ v * k \in Nat
  BY <1>1, Larger
<1>7. h * x + k * y > h * u + k * v
  BY <1>2, <1>4, <1>5, <1>6
<1>. QED
  BY <1>3, <1>7 DEF MergeBefore

LEMMA SearchRespects ==
    ASSUME NEW rrf \in BOOLEAN, NEW s \in Lists, NEW t \in Lists
    PROVE  RespectsBoth(rrf, s, t, Search(rrf, s, t))
<1>. SUFFICES ASSUME NEW c \in Both(s, t), NEW d \in Both(s, t),
                     Prefers(rrf, s, c, d) \/ Prefers(rrf, t, c, d),
                     ~Prefers(rrf, s, d, c), ~Prefers(rrf, t, d, c),
                     NEW j \in DOMAIN Search(rrf, s, t), Search(rrf, s, t)[j] = d
              PROVE  \E i \in DOMAIN Search(rrf, s, t) : i < j /\ Search(rrf, s, t)[i] = c
  BY DEF RespectsBoth, Both
<1>1. Before(rrf, s, t, c, d)
  BY RrfRespects, MergeRespects DEF Before
<1>. QED
  BY <1>1, SearchPlaces

(* What is found is two lists and, until it is reranked, their fusion. *)
Fused ==
    /\ config \in Configs
    /\ DOMAIN found = {"first", "second", "hits"}
    /\ found.first \in Lists /\ found.second \in Lists
    /\ \/ found.hits = <<>>
       \/ node = "rerank" /\ found.hits = Search(config.rrf, found.first, found.second)

LEMMA EmptyIsList == <<>> \in Lists
<1>. DEFINE l == <<>>
<1>1. l \in [1..0 -> [chunk : Chunks, score : HitScores]] /\ 0 \in 0..Listed
  BY RetrievalAssumption
<1>2. Found(l) = {} /\ Cardinality({}) = 0
  BY FS_EmptySet DEF Found
<1>3. \A i \in 1..(0 - 1) : l[i].score >= l[i + 1].score
  OBVIOUS
<1>. HIDE DEF l
<1>4. l \in {m \in [1..0 -> [chunk : Chunks, score : HitScores]] :
                /\ Cardinality(Found(m)) = 0
                /\ \A i \in 1..(0 - 1) : m[i].score >= m[i + 1].score}
  BY <1>1, <1>2, <1>3
<1>5. l \in Lists
  BY <1>1, <1>4, Zenon DEF Lists
<1>. QED
  BY <1>5 DEF l

(* The candidates for an answer respect both searches: HybridRetriever.search *)
(* neither drops nor demotes a chunk that one list prefers for one that       *)
(* neither prefers, with rrf_fuse and with _merge_hits, for lists, weights    *)
(* and a k of any size.                                                      *)
THEOREM FusionHolds == Spec => []FusionRespectsBoth
<1>1. Init => Fused
  BY EmptyIsList DEF Init, Fused, NothingFound
<1>2. Fused /\ [Next]_vars => Fused'
  <2>. SUFFICES ASSUME Fused, [Next]_vars PROVE Fused'
    OBVIOUS
  <2>1. CASE RetrieveKnowledge
    <3>1. PICK s \in Lists : found' = [found EXCEPT !.first = s]
      BY <2>1 DEF RetrieveKnowledge, VectorLists
    <3>2. node = "retrieve_knowledge" /\ config' = config
      BY <2>1 DEF RetrieveKnowledge, Runs, Keep
    <3>. QED
      BY <3>1, <3>2 DEF Fused
  <2>2. CASE SearchWords
    <3>1. PICK t \in Lists : found' = [found EXCEPT !.second = t,
                                                    !.hits = Search(config.rrf, found.first, t)]
      BY <2>2 DEF SearchWords, FtsLists, KeywordLists
    <3>2. node' = "rerank" /\ config' = config
      BY <2>2 DEF SearchWords, Goes, Keep
    <3>. QED
      BY <3>1, <3>2 DEF Fused
  <2>3. CASE RerankHits \/ StartFallback
    <3>1. config' = config /\ found' = NothingFound
      BY <2>3 DEF RerankHits, StartFallback, Keep
    <3>. QED
      BY <3>1, EmptyIsList DEF Fused, NothingFound
  <2>4. CASE UNCHANGED <<config, found>> /\ (node = "rerank" => node' = node)
    BY <2>4 DEF Fused
  <2>5. CASE LoadContext \/ ClassifyIntent \/ EvaluateContext \/ GenerateAnswer \/ GroundingCheck
             \/ CalculateConfidence \/ Decide \/ Raise \/ DatabaseFails \/ UNCHANGED vars
    BY <2>4, <2>5
       DEF LoadContext, ClassifyIntent, EvaluateContext, GenerateAnswer, GroundingCheck,
           CalculateConfidence, Decide, Raise, MayRaise, DatabaseFails, vars, Keep, Runs
  <2>. QED
    BY <2>1, <2>2, <2>3, <2>5, Zenon DEF Next, Step
<1>3. Fused => FusionRespectsBoth
  <2>. SUFFICES ASSUME Fused PROVE FusionRespectsBoth
    OBVIOUS
  <2>1. config.rrf \in BOOLEAN /\ found.first \in Lists /\ found.second \in Lists
    BY AgentAssumption DEF Fused, ConfigType
  <2>2. CASE found.hits = <<>>
    BY <2>2 DEF FusionRespectsBoth, RespectsBoth
  <2>3. CASE found.hits = Search(config.rrf, found.first, found.second)
    BY <2>1, <2>3, SearchRespects DEF FusionRespectsBoth
  <2>. QED
    BY <2>2, <2>3 DEF Fused
<1>. QED
  BY <1>1, <1>2, <1>3, PTL DEF Spec
=============================================================================
