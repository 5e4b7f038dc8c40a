----------------------------- MODULE MailIntake -----------------------------
(***************************************************************************)
(* Inbound e-mail: from the provider's webhook call to a stored message,   *)
(* and the automatic receipt of a new thread.                              *)
(*                                                                         *)
(* Every call is a request of its own; a provider that gets no answer      *)
(* calls again with the same mail.  Rows are named after the call that     *)
(* inserts them, and exist for the others from its first commit on.        *)
(* Every mail has a sender and a subject, and receipts are switched on.    *)
(***************************************************************************)
EXTENDS Naturals

CONSTANTS
    Calls,      \* webhook calls
    Mails,      \* external message ids
    Of,         \* the mail that a call delivers
    From,       \* the mail's sender address
    Subject,    \* its normalized subject
    RepliesTo,  \* the mails whose thread its In-Reply-To and References name
    Robots,     \* automatic mails and bounces
    NoRow        \* no row yet

ASSUME MailsAssumption ==
    /\ Of \in [Calls -> Mails]
    /\ RepliesTo \in [Mails -> SUBSET Mails]
    /\ Robots \subseteq Mails
ASSUME NoRowAssumption == NoRow \notin Calls

VARIABLES
    pc,         \* what each request does next
    customer,   \* the customer row it has found or inserted
    conv,       \* the conversation it has found or inserted
    committed,  \* requests whose message is committed, with the key of its mail
    mailed,     \* requests that handed a receipt to the mail server
    receipts    \* requests whose receipt is committed as a message

mailVars == <<pc, customer, conv, committed, mailed, receipts>>

Step == {"new", "resolve", "thread", "store", "stored", "check", "receipt", "sent",
         "answered", "failed"}

MailTypeOK ==
    /\ pc \in [Calls -> Step]
    /\ customer \in [Calls -> Calls \cup {NoRow}]
    /\ conv \in [Calls -> Calls \cup {NoRow}]
    /\ committed \in SUBSET Calls
    /\ mailed \in SUBSET Calls
    /\ receipts \in SUBSET Calls
    /\ \A d \in committed : customer[d] # NoRow /\ conv[d] # NoRow

MailInit ==
    /\ pc = [d \in Calls |-> "new"]
    /\ customer = [d \in Calls |-> NoRow]
    /\ conv = [d \in Calls |-> NoRow]
    /\ committed = {} /\ mailed = {} /\ receipts = {}

-----------------------------------------------------------------------------
(* What a request finds in the database *)

Goes(d, from, to) == pc[d] = from /\ pc' = [pc EXCEPT ![d] = to]

(* IdempotencyService.is_processed *)
IsProcessed(m) == \E e \in committed : Of[e] = m

(* The customer rows with an address. *)
Customers(a) == {d \in committed : customer[d] = d /\ From[Of[d]] = a}

(* The customer messages of a conversation. *)
Messages(c) == {d \in committed : conv[d] = c}

(* EmailThreadingService.find_conversation: by the ids in the headers, then  *)
(* by the sender's row and the subject.                                      *)
ByHeaders(d) == {conv[e] : e \in {e \in committed : Of[e] \in RepliesTo[Of[d]]}}
BySubject(d) == {c \in committed : /\ conv[c] = c
                                   /\ customer[c] = customer[d]
                                   /\ Subject[Of[c]] = Subject[Of[d]]}

(* _is_first_customer_message and _already_sent.  A definition named X_Fault *)
(* is X with one plausible bug, which no action uses.                        *)
OpensThread_NotYetSent(d) == \A e \in receipts : conv[e] # conv[d]
OpensThread(d) == /\ Messages(conv[d]) = {d}
                  /\ \A e \in receipts : conv[e] # conv[d]

(* The unique key of external_messages: an insert waits while another        *)
(* request has inserted the same key and not committed.                      *)
KeyHeld_AfterFailure(d) == \E e \in Calls \ {d} : Of[e] = Of[d] /\ pc[e] \in {"stored", "failed"}
KeyHeld(d) == \E e \in Calls \ {d} : Of[e] = Of[d] /\ pc[e] = "stored"
KeyTaken_Ignored(d) == FALSE
KeyTaken(d) == IsProcessed(Of[d])

-----------------------------------------------------------------------------
(* The steps of a request *)

Receive(d) ==
    /\ Goes(d, "new", IF IsProcessed(Of[d]) THEN "answered" ELSE "resolve")
    /\ UNCHANGED <<customer, conv, committed, mailed, receipts>>

(* resolve_by_email; two rows with the address are an error. *)
Resolve(d) ==
    /\ LET rows == Customers(From[Of[d]])
       IN  \/ /\ rows = {}
              /\ customer' = [customer EXCEPT ![d] = d]
              /\ Goes(d, "resolve", "thread")
           \/ \E r \in rows : /\ rows = {r}
                              /\ customer' = [customer EXCEPT ![d] = r]
                              /\ Goes(d, "resolve", "thread")
           \/ /\ \E r, q \in rows : r # q
              /\ customer' = customer
              /\ Goes(d, "resolve", "failed")
    /\ UNCHANGED <<conv, committed, mailed, receipts>>

(* A mail that matches no conversation opens one.                            *)
Thread(d) ==
    /\ Goes(d, "thread", "store")
    /\ LET found == IF ByHeaders(d) # {} THEN ByHeaders(d) ELSE BySubject(d)
       IN  \E c \in IF found # {} THEN found ELSE {d} : conv' = [conv EXCEPT ![d] = c]
    /\ UNCHANGED <<customer, committed, mailed, receipts>>

Store(d) ==
    /\ ~KeyHeld(d)
    /\ Goes(d, "store", IF KeyTaken(d) THEN "failed" ELSE "stored")
    /\ UNCHANGED <<customer, conv, committed, mailed, receipts>>

(* _publish_message commits; the AI is told of the message. *)
CommitMessage(d) ==
    /\ Goes(d, "stored", "check")
    /\ committed' = committed \cup {d}
    /\ UNCHANGED <<customer, conv, mailed, receipts>>

(* maybe_send_for_inbound *)
CheckReceipt(d) ==
    /\ Goes(d, "check", IF Of[d] \notin Robots /\ OpensThread(d) THEN "receipt" ELSE "answered")
    /\ UNCHANGED <<customer, conv, committed, mailed, receipts>>

(* A refusal by the mail server is noted in the message, which is committed  *)
(* all the same.                                                             *)
SendReceipt(d) ==
    /\ Goes(d, "receipt", "sent")
    /\ mailed' = mailed \/ mailed' = mailed \cup {d}
    /\ UNCHANGED <<customer, conv, committed, receipts>>

CommitReceipt(d) ==
    /\ Goes(d, "sent", "answered")
    /\ receipts' = receipts \cup {d}
    /\ UNCHANGED <<customer, conv, committed, mailed>>

(* The channel is disabled, a statement fails or the server dies. *)
Fail(d) ==
    /\ pc[d] \notin {"new", "answered", "failed"}
    /\ pc' = [pc EXCEPT ![d] = "failed"]
    /\ UNCHANGED <<customer, conv, committed, mailed, receipts>>

Handle(d) ==
    \/ Receive(d) \/ Resolve(d) \/ Thread(d) \/ Store(d) \/ CommitMessage(d)
    \/ CheckReceipt(d) \/ SendReceipt(d) \/ CommitReceipt(d)

MailNext == \E d \in Calls : Handle(d) \/ Fail(d)

MailSpec == MailInit /\ [][MailNext]_mailVars

(* A request that is being handled goes on.  The provider need not call.     *)
Fairness == \A d \in Calls : WF_mailVars(pc[d] # "new" /\ Handle(d))

FairMailSpec == MailSpec /\ Fairness

-----------------------------------------------------------------------------
(* Properties *)

(* However often and however concurrently the provider delivers a mail, it   *)
(* is stored once, and a call answered as a duplicate has its message.       *)
StoredOnce ==
    /\ \A d, e \in committed : Of[d] = Of[e] => d = e
    /\ \A d \in Calls : pc[d] = "answered" => IsProcessed(Of[d])

(* A conversation gets one receipt by mail at most, whatever fails between   *)
(* the mail server's answer and the commit.                                  *)
OneReceipt == \A d, e \in mailed : conv[d] = conv[e] => d = e

(* No call waits for ever for a key: whoever holds it commits or fails.      *)
EveryCallEnds == \A d \in Calls : pc[d] # "new" ~> pc[d] \in {"answered", "failed"}
=============================================================================
