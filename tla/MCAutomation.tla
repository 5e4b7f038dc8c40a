---------------------------- MODULE MCAutomation ----------------------------
(* Automation with two publishers and automations that call for each other. *)
EXTENDS Automation

Act(type) == [type |-> type]
Always == [field |-> "always"]

MCAutomations == {"route", "vip", "again", "react", "missed", "welcome"}
MCOrder == <<"vip", "route", "react", "again", "missed", "welcome">>
MCRule == [a \in MCAutomations |->
    CASE a = "route" ->
           [trigger |-> "message.received", condition |-> [field |-> "priority", is |-> "NORMAL"],
            actions |-> <<[type |-> "ADD_TAG", tag |-> "x"],
                          [type |-> "ASSIGN_ROUND_ROBIN", team |-> "billing"],
                          [type |-> "SET_PRIORITY", value |-> "SOON"],
                          Act("NOTIFY")>>]
      [] a = "vip" ->
           [trigger |-> "message.received", condition |-> [field |-> "tags", is |-> "x"],
            actions |-> <<[type |-> "ASSIGN_TEAM", team |-> "support"], Act("ASSIGN_USER"),
                          [type |-> "SET_PRIORITY", value |-> "HIGH"]>>]
      [] a = "react" ->
           [trigger |-> "conversation.assigned", condition |-> [field |-> "tags", is |-> "x"],
            actions |-> <<[type |-> "REMOVE_TAG", tag |-> "x"],
                          [type |-> "SET_STATUS", value |-> "OPEN"], Act("ENABLE_AI")>>]
      [] a = "again" ->
           [trigger |-> "conversation.assigned", condition |-> Always,
            actions |-> <<[type |-> "ASSIGN_ROUND_ROBIN", team |-> "billing"]>>]
      [] a = "missed" ->
           [trigger |-> "missed_chat", condition |-> Always,
            actions |-> <<Act("CREATE_TICKET"), [type |-> "ESCALATE_TO_HUMAN", team |-> "support"],
                          [type |-> "ADD_TAG", tag |-> "x"]>>]
      [] a = "welcome" ->
           [trigger |-> "conversation.created", condition |-> Always,
            actions |-> <<[type |-> "ADD_TAG", tag |-> "x"], Act("PAGE")>>]]

Nothing == [c \in {} |-> None]
Source(event, depth, creates, inline, sets) ==
    [event |-> event, depth |-> depth, creates |-> creates, inline |-> inline, sets |-> sets]
MCSources == {
    Source("message.received", 0, FALSE, FALSE, Nothing),
    Source("conversation.created", 0, TRUE, FALSE, Nothing),
    Source("conversation.assigned", 1, FALSE, FALSE, [team |-> "billing"]),
    Source("missed_chat", 0, FALSE, TRUE, Nothing)}
=============================================================================
