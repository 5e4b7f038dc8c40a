------------------------------- MODULE Verdict -------------------------------
(***************************************************************************)
(* What the pipeline of AgentRun expects of the support agent: asked about *)
(* one message it gives one verdict, or fails, and the verdict is one the  *)
(* mode allows.  A customer who asks for a human is not answered by an     *)
(* autopilot.                                                              *)
(***************************************************************************)
VARIABLES
    mode,     \* the mode the run started with
    human,    \* the message asks for a human in so many words
    verdict   \* "pending", a decision, or "failed"

Allowed(m, h) ==
    IF m = "SUGGEST" THEN {"SUGGEST_ONLY"}
    ELSE IF h THEN {"ESCALATE"}
    ELSE {"SOFT_REPLY", "AI_RESOLVE", "ESCALATE"}

Init == verdict = "pending"

Give ==
    /\ verdict = "pending"
    /\ verdict' \in Allowed(mode, human) \cup {"failed"}
    /\ UNCHANGED <<mode, human>>

vars == <<mode, human, verdict>>

Spec == Init /\ [][Give]_vars

FairSpec == Spec /\ WF_vars(Give)
=============================================================================
