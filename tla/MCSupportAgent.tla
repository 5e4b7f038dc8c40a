--------------------------- MODULE MCSupportAgent ---------------------------
(* Two chunks, two scores on either side of every threshold, and the         *)
(* configurations that differ in what the policy, the gate or the decision   *)
(* reads.                                                                    *)
EXTENDS SupportAgent

Plain == [mode |-> "AUTO_REPLY", policy |-> TRUE, greetings |-> TRUE, ood_refuse |-> TRUE,
          ood_escalates |-> FALSE, escalate_unknown |-> TRUE, need_knowledge |-> TRUE,
          restricted |-> {}, allowed |-> {}, rrf |-> TRUE,
          auto_reply |-> 60, escalation |-> 70, relevance |-> 40]

MCRequests ==
    {[human |-> FALSE, named |-> TRUE, history |-> TRUE, taken_over |-> FALSE],
     [human |-> TRUE, named |-> TRUE, history |-> FALSE, taken_over |-> FALSE],
     [human |-> FALSE, named |-> FALSE, history |-> TRUE, taken_over |-> TRUE]}
MCConfigs ==
    {Plain,
     [Plain EXCEPT !.mode = "SUGGEST", !.ood_escalates = TRUE],
     [Plain EXCEPT !.policy = FALSE, !.need_knowledge = FALSE, !.relevance = 0],
     [Plain EXCEPT !.restricted = {"BILLING"}, !.escalate_unknown = FALSE, !.rrf = FALSE,
                   !.ood_escalates = TRUE],
     [Plain EXCEPT !.mode = "DRAFT_ONLY", !.ood_refuse = FALSE, !.greetings = FALSE,
                   !.allowed = {"BILLING"}, !.escalate_unknown = FALSE]}
MCKinds == {"GREETING", "SUPPORT_REQUEST", "HUMAN_REQUEST", "OUT_OF_DOMAIN", "UNCLEAR"}
=============================================================================
