--------------------------- MODULE ChannelProofs ---------------------------
(***************************************************************************)
(* The ways in and out of the platform, for any number of mails, visitors, *)
(* tabs and sockets:                                                       *)
(*                                                                         *)
(* - a mail is stored once and a thread gets one receipt, however calls    *)
(*   fail (MailIntake);                                                    *)
(* - the limiter keeps its window, an ACTIVE widget has a domain, and a    *)
(*   visitor keeps a key and one conversation (Widget);                    *)
(* - an event reaches a browser once and in order, a broadcast sweeps the  *)
(*   sockets that are dead, and muting takes hold (Notifications, Push).   *)
(*                                                                         *)
(* Each has an inductive invariant of its own; the state they speak of is  *)
(* disjoint.                                                               *)
(***************************************************************************)
EXTENDS Notifications, Widget, MailIntake, SequenceTheorems, FiniteSetTheorems,
        WellFoundedInduction, TLAPS

Early == {"new", "resolve", "thread", "store"}
Late  == {"check", "receipt", "sent"}

(* What a request's place says about its rows. *)
Placed ==
    \A d \in Calls :
        /\ pc[d] \in Late => d \in committed
        /\ pc[d] \in Early \cup {"stored"} => d \notin committed
        /\ pc[d] \in {"thread", "store", "stored"} => customer[d] # NoRow
        /\ pc[d] \in {"store", "stored"} => conv[d] # NoRow
        /\ pc[d] = "answered" => IsProcessed(Of[d])

(* The key of a mail is with one request: the one that holds it, or the one  *)
(* that has committed it.                                                    *)
HoldsKey(d) == pc[d] = "stored" \/ d \in committed
KeyUnique == \A d, e \in Calls : HoldsKey(d) /\ HoldsKey(e) /\ Of[d] = Of[e] => d = e

(* Of the requests that have found their message to be its thread's first,   *)
(* no two are in one thread, for the later one would have found the other's. *)
First(d) == pc[d] \in {"receipt", "sent"} \/ d \in mailed
FirstUnique ==
    /\ mailed \subseteq committed
    /\ \A d, e \in Calls : First(d) /\ First(e) /\ conv[d] = conv[e] => d = e

IntakeInv == MailTypeOK /\ Placed /\ KeyUnique /\ FirstUnique

(* A step that commits nothing and moves one request keeps the keys unique,  *)
(* unless it gives the request one.                                          *)
LEMMA NoNewKey ==
    ASSUME IntakeInv, NEW d \in Calls, NEW from, NEW to, Goes(d, from, to), to # "stored",
           UNCHANGED committed
    PROVE  KeyUnique'
<1>1. \A e \in Calls : HoldsKey(e)' => HoldsKey(e)
  BY DEF HoldsKey, Goes, IntakeInv, MailTypeOK
<1>. QED
  BY <1>1 DEF KeyUnique, IntakeInv

(* And the first messages, unless it finds another. *)
LEMMA NoNewFirst ==
    ASSUME IntakeInv, NEW d \in Calls, NEW from, NEW to, Goes(d, from, to),
           to \in {"receipt", "sent"} => from \in {"receipt", "sent"},
           UNCHANGED <<conv, mailed>>, committed \subseteq committed'
    PROVE  FirstUnique'
<1>1. \A e \in Calls : First(e)' => First(e)
  BY DEF First, Goes, IntakeInv, MailTypeOK
<1>. QED
  BY <1>1 DEF FirstUnique, IntakeInv

(* The invariant is inductive. *)
THEOREM IntakeHolds == MailSpec => []IntakeInv
<1>1. MailInit => IntakeInv
  BY NoRowAssumption DEF MailInit, IntakeInv, MailTypeOK, Step, Placed, Early, Late, KeyUnique, HoldsKey,
                        FirstUnique, First
<1>2. IntakeInv /\ [MailNext]_mailVars => IntakeInv'
  <2>. SUFFICES ASSUME IntakeInv, [MailNext]_mailVars PROVE IntakeInv'
    OBVIOUS
  <2>. USE DEF Goes, IsProcessed
  <2>1. CASE UNCHANGED mailVars
    BY <2>1 DEF mailVars, IntakeInv, MailTypeOK, Placed, KeyUnique, HoldsKey, FirstUnique, First
  <2>2. ASSUME NEW d \in Calls, Receive(d) PROVE IntakeInv'
    <3>1. MailTypeOK' /\ Placed'
      BY <2>2 DEF Receive, IntakeInv, MailTypeOK, Step, Placed, Early, Late
    <3>2. KeyUnique' /\ FirstUnique'
      BY <2>2, NoNewKey, NoNewFirst DEF Receive
    <3>. QED
      BY <3>1, <3>2 DEF IntakeInv
  <2>3. ASSUME NEW d \in Calls, Resolve(d) PROVE IntakeInv'
    <3>1. PICK r \in Calls, to \in {"thread", "failed"} :
             /\ Goes(d, "resolve", to)
             /\ customer' = [customer EXCEPT ![d] = r] \/ (customer' = customer /\ to = "failed")
      BY <2>3 DEF Resolve, Customers, IntakeInv, MailTypeOK
    <3>2. UNCHANGED <<conv, committed, mailed, receipts>>
      BY <2>3 DEF Resolve
    <3>3. MailTypeOK' /\ Placed'
      BY <3>1, <3>2, NoRowAssumption DEF IntakeInv, MailTypeOK, Step, Placed, Early, Late
    <3>4. KeyUnique' /\ FirstUnique'
      BY <3>1, <3>2, NoNewKey, NoNewFirst
    <3>. QED
      BY <3>3, <3>4 DEF IntakeInv
  <2>4. ASSUME NEW d \in Calls, Thread(d) PROVE IntakeInv'
    <3>1. PICK c : c \in ByHeaders(d) \cup BySubject(d) \cup {d} /\ conv' = [conv EXCEPT ![d] = c]
      BY <2>4 DEF Thread
    <3>2. c \in Calls
      BY <3>1 DEF ByHeaders, BySubject, IntakeInv, MailTypeOK
    <3>3. Goes(d, "thread", "store") /\ UNCHANGED <<customer, committed, mailed, receipts>>
      BY <2>4 DEF Thread
    <3>4. d \notin committed /\ d \notin mailed
      BY <3>3 DEF IntakeInv, Placed, Early, FirstUnique
    <3>5. MailTypeOK' /\ Placed'
      BY <3>1, <3>2, <3>3, <3>4, NoRowAssumption DEF IntakeInv, MailTypeOK, Step, Placed, Early, Late
    <3>6. KeyUnique'
      BY <3>3, NoNewKey
    <3>7. FirstUnique'
      <4>1. \A e \in Calls : First(e)' => First(e) /\ e # d /\ conv'[e] = conv[e]
        BY <3>1, <3>3, <3>4 DEF First, IntakeInv, MailTypeOK
      <4>. QED
        BY <3>3, <4>1 DEF FirstUnique, IntakeInv
    <3>. QED
      BY <3>5, <3>6, <3>7 DEF IntakeInv
  <2>5. ASSUME NEW d \in Calls, Store(d) PROVE IntakeInv'
    <3>1. MailTypeOK' /\ Placed'
      BY <2>5 DEF Store, IntakeInv, MailTypeOK, Step, Placed, Early, Late
    <3>2. FirstUnique'
      <4>1. PICK to \in {"failed", "stored"} : Goes(d, "store", to)
        BY <2>5 DEF Store
      <4>. QED
        BY <2>5, <4>1, NoNewFirst DEF Store
    <3>3. KeyUnique'
      <4>1. CASE KeyTaken(d)
        BY <2>5, <4>1, NoNewKey DEF Store
      <4>2. CASE ~KeyTaken(d)
        <5>1. \A e \in Calls : HoldsKey(e)' /\ e # d => HoldsKey(e) /\ Of[e] # Of[d]
          BY <2>5, <4>2 DEF Store, KeyHeld, KeyTaken, HoldsKey, IntakeInv, MailTypeOK
        <5>. QED
          BY <5>1 DEF KeyUnique, IntakeInv
      <4>. QED
        BY <4>1, <4>2
    <3>. QED
      BY <3>1, <3>2, <3>3 DEF IntakeInv
  <2>6. ASSUME NEW d \in Calls, CommitMessage(d) PROVE IntakeInv'
    <3>1. MailTypeOK' /\ Placed'
      BY <2>6 DEF CommitMessage, IntakeInv, MailTypeOK, Step, Placed, Early, Late
    <3>2. FirstUnique'
      BY <2>6, NoNewFirst DEF CommitMessage
    <3>3. \A e \in Calls : HoldsKey(e)' => HoldsKey(e)
      BY <2>6 DEF CommitMessage, HoldsKey, IntakeInv, MailTypeOK
    <3>. QED
      BY <3>1, <3>2, <3>3 DEF IntakeInv, KeyUnique
  <2>7. ASSUME NEW d \in Calls, CheckReceipt(d) PROVE IntakeInv'
    <3>1. MailTypeOK' /\ Placed'
      BY <2>7 DEF CheckReceipt, IntakeInv, MailTypeOK, Step, Placed, Early, Late
    <3>2. KeyUnique'
      BY <2>7, NoNewKey DEF CheckReceipt
    <3>3. FirstUnique'
      <4>1. CASE ~OpensThread(d)
        <5>1. Goes(d, "check", "answered") /\ UNCHANGED <<conv, committed, mailed>>
          BY <2>7, <4>1 DEF CheckReceipt
        <5>. HIDE DEF Goes
        <5>. QED
          BY <5>1, NoNewFirst
      <4>2. CASE OpensThread(d)
        <5>1. \A e \in Calls : First(e)' /\ e # d => First(e) /\ e \in committed
          BY <2>7 DEF CheckReceipt, First, IntakeInv, MailTypeOK, FirstUnique, Placed, Late
        <5>2. \A e \in committed : conv[e] = conv[d] => e = d
          BY <4>2 DEF OpensThread, Messages
        <5>. QED
          BY <2>7, <5>1, <5>2 DEF CheckReceipt, FirstUnique, IntakeInv
      <4>. QED
        BY <4>1, <4>2
    <3>. QED
      BY <3>1, <3>2, <3>3 DEF IntakeInv
  <2>8. ASSUME NEW d \in Calls, SendReceipt(d) PROVE IntakeInv'
    <3>1. MailTypeOK' /\ Placed'
      BY <2>8 DEF SendReceipt, IntakeInv, MailTypeOK, Step, Placed, Early, Late
    <3>2. KeyUnique'
      BY <2>8, NoNewKey DEF SendReceipt
    <3>3. \A e \in Calls : First(e)' => First(e)
      BY <2>8 DEF SendReceipt, First, IntakeInv, MailTypeOK
    <3>4. (mailed \subseteq committed)'
      BY <2>8 DEF SendReceipt, IntakeInv, FirstUnique, Placed, Late
    <3>. QED
      BY <2>8, <3>1, <3>2, <3>3, <3>4 DEF SendReceipt, IntakeInv, FirstUnique
  <2>9. ASSUME NEW d \in Calls, CommitReceipt(d) PROVE IntakeInv'
    <3>1. MailTypeOK' /\ Placed'
      BY <2>9 DEF CommitReceipt, IntakeInv, MailTypeOK, Step, Placed, Early, Late
    <3>2. KeyUnique' /\ FirstUnique'
      BY <2>9, NoNewKey, NoNewFirst DEF CommitReceipt
    <3>. QED
      BY <3>1, <3>2 DEF IntakeInv
  <2>10. ASSUME NEW d \in Calls, Fail(d) PROVE IntakeInv'
    <3>1. MailTypeOK' /\ Placed'
      BY <2>10 DEF Fail, IntakeInv, MailTypeOK, Step, Placed, Early, Late
    <3>2. KeyUnique' /\ FirstUnique'
      BY <2>10, NoNewKey, NoNewFirst DEF Fail
    <3>. QED
      BY <3>1, <3>2 DEF IntakeInv
  <2>. QED
    BY <2>1, <2>2, <2>3, <2>4, <2>5, <2>6, <2>7, <2>8, <2>9, <2>10 DEF MailNext, Handle
<1>. QED
  BY <1>1, <1>2, PTL DEF MailSpec

(* Every mail is stored once, and what is answered as a duplicate is stored. *)
THEOREM MailStoredOnce == MailSpec => []StoredOnce
<1>1. IntakeInv => StoredOnce
  BY DEF IntakeInv, MailTypeOK, KeyUnique, HoldsKey, Placed, StoredOnce
<1>. QED
  BY <1>1, IntakeHolds, PTL

(* Every thread gets one receipt at most. *)
THEOREM ReceiptSentOnce == MailSpec => []OneReceipt
<1>1. IntakeInv => OneReceipt
  BY DEF IntakeInv, MailTypeOK, FirstUnique, First, OneReceipt
<1>. QED
  BY <1>1, IntakeHolds, PTL

-----------------------------------------------------------------------------
(* The limiter.  No request is under way in it, so that its state says all.  *)

BucketInv ==
    /\ clock \in Nat /\ hits \in Seq(Nat) /\ gone \in 0..Len(hits)
    /\ \A i \in DOMAIN hits : hits[i] <= clock
    /\ \A i \in 1..gone : Expired(hits[i])
    /\ WindowRespected

(* Expired hits leave the bucket and nothing else does. *)
LEMMA PoppedExpired ==
    ASSUME BucketInv
    PROVE  /\ Popped \in gone..Len(hits)
           /\ \A i \in (gone + 1)..Popped : Expired(hits[i])
<1>. DEFINE Stops == {n \in gone..Len(hits) : n < Len(hits) => ~Expired(hits[n + 1])}
<1>1. gone \in Nat /\ Len(hits) \in Nat /\ Len(hits) \in Stops /\ Stops \subseteq Nat
  BY DEF BucketInv
<1>2. PICK n \in Stops : \A m \in Stops : ~(<<m, n>> \in OpToRel(<, Nat))
  <2>. HIDE DEF Stops
  <2>. QED
    BY <1>1, WFMin, NatLessThanWellFounded
<1>3. \A m \in Stops : ~(m < n)
  BY <1>1, <1>2 DEF OpToRel
<1>4. \A i \in (gone + 1)..n : Expired(hits[i])
  <2>. SUFFICES ASSUME NEW i \in (gone + 1)..n, ~Expired(hits[i]) PROVE FALSE
    OBVIOUS
  <2>1. i - 1 \in Stops /\ i - 1 < n
    BY <1>1
  <2>. QED
    BY <2>1, <1>3
<1>. HIDE DEF Stops
<1>. QED
  BY <1>4 DEF Popped, Stops

THEOREM BucketHolds == WidgetSpec => []BucketInv
<1>1. WidgetInit => BucketInv
  BY DEF WidgetInit, BucketInv, WindowRespected
<1>2. BucketInv /\ [WidgetNext]_widgetVars => BucketInv'
  <2>. SUFFICES ASSUME BucketInv, [WidgetNext]_widgetVars PROVE BucketInv'
    OBVIOUS
  <2>1. ASSUME UNCHANGED limiter PROVE BucketInv'
    BY <2>1 DEF limiter, BucketInv, WindowRespected, Expired
  <2>2. ASSUME LetsThrough PROVE BucketInv'
    <3>1. Popped \in gone..Len(hits) /\ \A i \in 1..Popped : Expired(hits[i])
      BY PoppedExpired DEF BucketInv
    <3>2. /\ hits' \in Seq(Nat) /\ Len(hits') = Len(hits) + 1
          /\ \A i \in 1..Len(hits) : hits'[i] = hits[i] /\ hits[i] \in Nat
          /\ hits'[Len(hits) + 1] = clock /\ clock \in Nat
          /\ DOMAIN hits = 1..Len(hits) /\ DOMAIN hits' = 1..(Len(hits) + 1)
          /\ Len(hits) \in Nat /\ gone \in 0..Len(hits)
      BY <2>2 DEF LetsThrough, BucketInv
    <3>3. gone' = Popped /\ clock' = clock /\ Len(hits) - Popped < Max
      BY <2>2 DEF LetsThrough
    <3>4. (\A i \in 1..gone : Expired(hits[i]))'
      BY <3>1, <3>2, <3>3, LimiterAssumption DEF Expired
    <3>5. WindowRespected'
      <4>. SUFFICES ASSUME NEW i \in 1..(Len(hits) + 1), i + Max \in 1..(Len(hits) + 1)
                    PROVE  hits'[i + Max] > hits'[i] + Window
        BY <3>2 DEF WindowRespected
      <4>1. CASE i + Max <= Len(hits)
        <5>1. i \in 1..Len(hits) /\ i + Max \in 1..Len(hits)
          BY <4>1, <3>2, LimiterAssumption
        <5>2. hits[i + Max] > hits[i] + Window
          BY <5>1, <3>2 DEF BucketInv, WindowRespected
        <5>. QED
          BY <5>1, <5>2, <3>2
      <4>2. CASE i + Max = Len(hits) + 1
        <5>1. i \in 1..Popped
          BY <4>2, <3>1, <3>2, <3>3, LimiterAssumption
        <5>. QED
          BY <4>2, <5>1, <3>1, <3>2, LimiterAssumption DEF Expired
      <4>. QED
        <5>1. i + Max \in Int /\ Len(hits) \in Int
          BY <3>2, LimiterAssumption
        <5>2. i + Max <= Len(hits) \/ i + Max = Len(hits) + 1
          BY <5>1
        <5>. QED
          BY <5>2, <4>1, <4>2
    <3>. QED
      <4>1. \A i \in DOMAIN hits' : hits'[i] <= clock'
        BY <3>2, <3>3 DEF BucketInv
      <4>. QED
        BY <3>1, <3>2, <3>3, <3>4, <3>5, <4>1 DEF BucketInv
  <2>3. CASE Tick
    BY <2>3, LimiterAssumption DEF Tick, BucketInv, WindowRespected, Expired
  <2>4. CASE Refused
    BY <2>4, PoppedExpired DEF Refused, BucketInv, WindowRespected, Expired
  <2>. QED
    BY <2>1, <2>2, <2>3, <2>4
    DEF WidgetNext, widgetVars, limiter, DeleteWidget, SwitchChannel, CommitUpdate, UpdateWidget,
        CommitSession, WriteFirst, CommitConversation, WriteOn, TurnedAway, Reload, LookUp, SetStatus
<1>. QED
  BY <1>1, <1>2, PTL DEF WidgetSpec

(* No closed interval of window_seconds sees more than max_requests pass.    *)
THEOREM WindowHolds == WidgetSpec => []WindowRespected
<1>1. BucketInv => WindowRespected
  BY DEF BucketInv
<1>. QED
  BY <1>1, BucketHolds, PTL

-----------------------------------------------------------------------------
(* The configuration.  As long as no two edits have overlapped, the one that *)
(* is under way is still valid for the row it was validated against.         *)

Column(S) == S \cup {Absent}
Patch == [status : Column({"DRAFT", "ACTIVE", "INACTIVE"}), domains : Column(SUBSET Hosts)]

Pending(e) == edit[e] # Absent
EditInv ==
    /\ edit \in [Editors -> Column(Patch)]
    /\ ~overlap =>
          /\ \A e, f \in Editors : Pending(e) /\ Pending(f) => e = f
          /\ \A e \in Editors : Pending(e) /\ status # "DELETED" =>
                 Valid(edit[e].status, edit[e].domains)
          /\ status = "ACTIVE" => domains # {}

THEOREM EditHolds == WidgetSpec => []EditInv
<1>1. WidgetInit => EditInv
  BY DEF WidgetInit, EditInv, Column, Pending
<1>2. EditInv /\ [WidgetNext]_widgetVars => EditInv'
  <2>. SUFFICES ASSUME EditInv, [WidgetNext]_widgetVars PROVE EditInv'
    OBVIOUS
  <2>1. ASSUME UNCHANGED <<status, domains, edit, overlap>> PROVE EditInv'
    BY <2>1 DEF EditInv, Pending, Valid
  <2>2. ASSUME NEW e \in Editors, NEW s \in {"DRAFT", "ACTIVE", "INACTIVE", Absent},
               NEW d \in {Absent} \cup SUBSET Hosts, UpdateWidget(e, s, d)
        PROVE  EditInv'
    <3>. DEFINE p == [status |-> s, domains |-> d]
    <3>1. p \in Patch /\ p.status = s /\ p.domains = d
      BY DEF Patch, Column
    <3>2. edit' = [edit EXCEPT ![e] = p] /\ UNCHANGED <<status, domains>> /\ Valid(p.status, p.domains)
      BY <2>2, <3>1 DEF UpdateWidget
    <3>3. overlap' = (overlap \/ \E f \in Editors : Pending(f))
      BY <2>2 DEF UpdateWidget, Pending
    <3>4. edit' \in [Editors -> Column(Patch)]
      BY <3>1, <3>2 DEF EditInv, Column
    <3>. HIDE DEF p
    <3>5. SUFFICES ASSUME ~overlap', ~overlap, \A f \in Editors : ~Pending(f)
                   PROVE  EditInv'
      BY <3>3, <3>4 DEF EditInv
    <3>6. \A f \in Editors : Pending(f)' => f = e /\ edit'[f] = p
      BY <3>2, <3>5 DEF EditInv, Pending
    <3>7. Valid(p.status, p.domains)'
      BY <3>2 DEF Valid
    <3>. QED
      BY <3>2, <3>4, <3>5, <3>6, <3>7 DEF EditInv
  <2>3. ASSUME NEW e \in Editors, CommitUpdate(e) PROVE EditInv'
    <3>1. edit' = [edit EXCEPT ![e] = Absent] /\ overlap' = overlap /\ Pending(e)
      BY <2>3 DEF CommitUpdate, Pending
    <3>2. edit' \in [Editors -> Column(Patch)]
      BY <3>1 DEF EditInv, Column
    <3>3. SUFFICES ASSUME ~overlap PROVE EditInv'
      BY <3>1, <3>2 DEF EditInv
    <3>4. \A f \in Editors : ~Pending(f)'
      BY <3>1, <3>3 DEF EditInv, Pending
    <3>5. status' = "ACTIVE" => domains' # {}
      BY <2>3, <3>1, <3>3 DEF CommitUpdate, EditInv, Valid
    <3>. QED
      BY <3>2, <3>4, <3>5 DEF EditInv
  <2>4. CASE DeleteWidget
    BY <2>4 DEF DeleteWidget, EditInv, Pending
  <2>. QED
    BY <2>1, <2>2, <2>3, <2>4
    DEF WidgetNext, widgetVars, limiter, config, Tick, Refused, SwitchChannel, LetsThrough,
        CommitSession, WriteFirst, CommitConversation, WriteOn, TurnedAway, Reload, LookUp, SetStatus
<1>. QED
  BY <1>1, <1>2, PTL DEF WidgetSpec

(* A widget is only ACTIVE with a domain, unless two edits overlapped.       *)
THEOREM ActiveDomainsHold == WidgetSpec => []ActiveHasDomains
<1>1. EditInv => ActiveHasDomains
  BY DEF EditInv, ActiveHasDomains
<1>. QED
  BY <1>1, EditHolds, PTL

-----------------------------------------------------------------------------
(* Visitors.  What a tab is doing, and the rows it means.                    *)

Person  == [email : Column(Emails), key : Column(Keys)]
Talk    == [who : Nat, status : {"OPEN", "PENDING", "CLOSED"}]
Looking == [pc : {"session"}, key : Keys, email : Column(Emails), row : Nat, links : BOOLEAN]
Showing == [pc : {"idle", "opening"}, token : Nat, conv : Nat]

TalkType ==
    /\ customers \in Seq(Person) /\ convs \in Seq(Talk)
    /\ tab \in [Pages -> Looking \cup Showing]
    /\ \A t \in Pages : /\ tab[t] \in Looking => tab[t].row <= Len(customers)
                        /\ tab[t] \in Showing => tab[t].conv <= Len(convs)

LEMMA TabKinds ==
    ASSUME TalkType, NEW t \in Pages
    PROVE  /\ tab[t].pc = "session" <=> tab[t] \in Looking
           /\ tab[t].pc \in {"idle", "opening"} <=> tab[t] \in Showing
           /\ tab[t].pc = "session" <=> ~(tab[t].pc \in {"idle", "opening"})
  BY DEF TalkType, Looking, Showing

(* One tab moves on, and no row or conversation goes.                        *)
Moves(t, new) == tab' = [tab EXCEPT ![t] = new]
Fits(new) == \/ new \in Looking /\ new.row <= Len(customers')
             \/ new \in Showing /\ new.conv <= Len(convs')
Kept == /\ customers' \in Seq(Person) /\ Len(customers) <= Len(customers')
        /\ convs' \in Seq(Talk) /\ Len(convs) <= Len(convs')

LEMMA TabMoves ==
    ASSUME TalkType, NEW t \in Pages, NEW new, Moves(t, new), Fits(new), Kept
    PROVE  TalkType'
<1>. USE DEF Moves, Fits, Kept
<1>1. tab' \in [Pages -> Looking \cup Showing]
  BY DEF TalkType
<1>2. \A u \in Pages : u # t => tab'[u] = tab[u]
  BY DEF TalkType
<1>3. tab'[t] = new
  BY DEF TalkType
<1>4. \A u \in Pages : /\ tab[u] \in Looking => tab[u].row <= Len(customers')
                       /\ tab[u] \in Showing => tab[u].conv <= Len(convs')
  BY DEF TalkType, Looking, Showing
<1>5. ~(new \in Looking /\ new \in Showing)
  BY DEF Looking, Showing
<1>. QED
  BY <1>1, <1>2, <1>3, <1>4, <1>5 DEF TalkType

LEMMA AtRestFits ==
    ASSUME TalkType, Kept
    PROVE  Fits(AtRest)
  BY DEF Fits, Kept, TalkType, AtRest, With, Showing

LEMMA ResumableConvs ==
    ASSUME TalkType, NEW i, NEW c \in Resumable(i)
    PROVE  c \in 1..Len(convs)
  BY DEF TalkType, Resumable

THEOREM TalkTypeHolds == WidgetSpec => []TalkType
<1>1. WidgetInit => TalkType
  <2>. SUFFICES ASSUME WidgetInit PROVE TalkType
    OBVIOUS
  <2>1. customers \in Seq(Person)
    <3>1. customers = <<>> \/ \E a \in Emails : customers = <<[email |-> a, key |-> Absent]>>
      BY DEF WidgetInit
    <3>2. \A a \in Emails : [email |-> a, key |-> Absent] \in Person
      BY DEF Person, Column
    <3>3. <<>> \in Seq(Person) /\ \A x \in Person : <<x>> \in Seq(Person)
      OBVIOUS
    <3>. QED
      BY <3>1, <3>2, <3>3
  <2>2. convs \in Seq(Talk) /\ Len(convs) = 0
    BY DEF WidgetInit
  <2>3. AtRest \in Showing /\ AtRest.conv = 0 /\ AtRest \notin Looking
    BY DEF AtRest, With, Showing, Looking
  <2>4. tab = [t \in Pages |-> AtRest]
    BY DEF WidgetInit
  <2>. QED
    BY <2>1, <2>2, <2>3, <2>4 DEF TalkType
<1>2. TalkType /\ [WidgetNext]_widgetVars => TalkType'
  <2>. SUFFICES ASSUME TalkType, [WidgetNext]_widgetVars PROVE TalkType'
    OBVIOUS
  <2>0. /\ customers \in Seq(Person) /\ Len(customers) \in Nat
        /\ convs \in Seq(Talk) /\ Len(convs) \in Nat
        /\ tab \in [Pages -> Looking \cup Showing]
    BY DEF TalkType
  <2>1. ASSUME UNCHANGED <<customers, convs, tab>> PROVE TalkType'
    BY <2>1 DEF TalkType
  <2>2. ASSUME NEW t \in Pages, NEW k \in Keys, NEW a \in Column(Emails), LookUp(t, k, a)
        PROVE  TalkType'
    <3>1. PICK i \in {0} \cup (IF a # Absent THEN HasEmail(a) ELSE HasKey(k)) :
             tab' = [tab EXCEPT ![t] = [pc |-> "session", key |-> k, email |-> a, row |-> i,
                                        links |-> TakesKey(i, a)]]
      BY <2>2 DEF LookUp
    <3>2. i \in 0..Len(customers)
      BY <2>0 DEF HasEmail, HasKey
    <3>3. TakesKey(i, a) \in BOOLEAN
      BY DEF TakesKey
    <3>. DEFINE new == [pc |-> "session", key |-> k, email |-> a, row |-> i, links |-> TakesKey(i, a)]
    <3>4. new \in Looking /\ new.row <= Len(customers)
      BY <2>0, <3>2, <3>3 DEF Looking
    <3>5. Kept /\ customers' = customers
      BY <2>0, <2>2 DEF LookUp, Kept
    <3>6. Moves(t, new)
      BY <3>1 DEF Moves
    <3>7. Fits(new)
      <4>. HIDE DEF new
      <4>. QED
        BY <3>4, <3>5 DEF Fits
    <3>. HIDE DEF new
    <3>. QED
      BY <3>5, <3>6, <3>7, TabMoves
  <2>3. ASSUME NEW t \in Pages, CommitSession(t) PROVE TalkType'
    <3>1. tab[t] \in Looking /\ tab[t].row <= Len(customers)
      BY <2>3, TabKinds DEF CommitSession, TalkType
    <3>2. tab[t].row \in 0..Len(customers) /\ tab[t].key \in Keys /\ tab[t].email \in Column(Emails)
      BY <2>0, <3>1 DEF Looking
    <3>3. UNCHANGED convs
      BY <2>3 DEF CommitSession
    <3>4. CASE tab' = [tab EXCEPT ![t] = AtRest] /\ UNCHANGED customers
      <4>1. Kept /\ Moves(t, AtRest)
        BY <2>0, <3>3, <3>4 DEF Kept, Moves
      <4>. QED
        BY <4>1, AtRestFits, TabMoves
    <3>5. CASE ~(tab[t].links /\ HasKey(tab[t].key) \ {tab[t].row} # {})
      <4>1. Kept
        <5>1. CASE tab[t].row = 0
          <6>1. customers' = Append(customers, [email |-> tab[t].email, key |-> tab[t].key])
            BY <2>3, <3>5, <5>1 DEF CommitSession
          <6>2. [email |-> tab[t].email, key |-> tab[t].key] \in Person
            BY <3>2 DEF Person, Column
          <6>. QED
            BY <2>0, <3>3, <6>1, <6>2 DEF Kept
        <5>2. CASE tab[t].row # 0 /\ tab[t].links
          <6>1. customers' = [customers EXCEPT ![tab[t].row].key = tab[t].key]
            BY <2>3, <3>5, <5>2 DEF CommitSession
          <6>2. customers[tab[t].row] \in Person
            BY <2>0, <3>2, <5>2
          <6>3. [customers[tab[t].row] EXCEPT !.key = tab[t].key] \in Person
            BY <3>2, <6>2 DEF Person, Column
          <6>4. customers' \in Seq(Person) /\ Len(customers') = Len(customers)
            BY <2>0, <3>2, <5>2, <6>1, <6>3
          <6>. QED
            BY <2>0, <3>3, <6>4 DEF Kept
        <5>3. CASE tab[t].row # 0 /\ ~tab[t].links
          BY <2>0, <2>3, <3>3, <3>5, <5>3 DEF CommitSession, Kept
        <5>. QED
          BY <5>1, <5>2, <5>3
      <4>2. PICK i \in Nat, c \in 0..Len(convs) : Moves(t, With(i, c))
        <5>. DEFINE row == IF tab[t].row = 0 THEN Len(customers) + 1 ELSE tab[t].row
        <5>1. row \in Nat
          BY <2>0, <3>2
        <5>2. PICK c \in {0} \cup Resumable(row) : tab' = [tab EXCEPT ![t] = With(row, c)]
          BY <2>3, <3>5 DEF CommitSession
        <5>. HIDE DEF row
        <5>3. c \in 0..Len(convs)
          BY <2>0, <5>2, ResumableConvs
        <5>. QED
          BY <5>1, <5>2, <5>3 DEF Moves
      <4>3. Fits(With(i, c))
        BY <2>0, <3>3, <4>2 DEF Fits, With, Showing
      <4>. QED
        BY <4>1, <4>2, <4>3, TabMoves
    <3>. QED
      BY <2>3, <3>4, <3>5 DEF CommitSession
  <2>4. ASSUME NEW t \in Pages, WriteFirst(t) PROVE TalkType'
    <3>1. tab[t] \in Showing /\ tab[t].conv <= Len(convs) /\ tab[t].token \in Nat
      BY <2>4, TabKinds DEF WriteFirst, Visitor, TalkType, Showing
    <3>2. Kept /\ convs' = convs
      BY <2>0, <2>4 DEF WriteFirst, Kept
    <3>3. CASE tab' = [tab EXCEPT ![t].pc = "opening"]
      <4>. DEFINE new == [tab[t] EXCEPT !.pc = "opening"]
      <4>1. new \in Showing /\ new.conv = tab[t].conv
        BY <3>1 DEF Showing
      <4>2. Moves(t, new)
        BY <3>3 DEF Moves
      <4>. HIDE DEF new
      <4>3. Fits(new)
        BY <3>1, <3>2, <4>1 DEF Fits
      <4>. QED
        BY <3>2, <4>2, <4>3, TabMoves
    <3>4. ASSUME NEW c \in Resumable(tab[t].token), tab' = [tab EXCEPT ![t] = With(tab[t].token, c)]
          PROVE  TalkType'
      <4>1. c \in 1..Len(convs)
        BY <3>4, ResumableConvs
      <4>2. Fits(With(tab[t].token, c)) /\ Moves(t, With(tab[t].token, c))
        BY <2>0, <3>1, <3>2, <3>4, <4>1 DEF Fits, With, Showing, Moves
      <4>. QED
        BY <3>2, <4>2, TabMoves
    <3>. QED
      BY <2>4, <3>3, <3>4 DEF WriteFirst
  <2>5. ASSUME NEW t \in Pages, CommitConversation(t) PROVE TalkType'
    <3>1. tab[t] \in Showing /\ tab[t].token \in Nat
      BY <2>5, TabKinds DEF CommitConversation, Showing
    <3>2. UNCHANGED customers
      BY <2>5 DEF CommitConversation
    <3>3. CASE tab' = [tab EXCEPT ![t] = AtRest] /\ UNCHANGED convs
      <4>1. Kept /\ Moves(t, AtRest)
        BY <2>0, <3>2, <3>3 DEF Kept, Moves
      <4>. QED
        BY <4>1, AtRestFits, TabMoves
    <3>4. CASE /\ convs' = Append(convs, [who |-> tab[t].token, status |-> "OPEN"])
               /\ tab' = [tab EXCEPT ![t] = With(tab[t].token, Len(convs) + 1)]
      <4>1. [who |-> tab[t].token, status |-> "OPEN"] \in Talk
        BY <3>1 DEF Talk
      <4>2. convs' \in Seq(Talk) /\ Len(convs') = Len(convs) + 1
        BY <2>0, <3>4, <4>1
      <4>3. Kept /\ Moves(t, With(tab[t].token, Len(convs) + 1))
        BY <2>0, <3>2, <3>4, <4>2 DEF Kept, Moves
      <4>4. Fits(With(tab[t].token, Len(convs) + 1))
        BY <2>0, <3>1, <4>2 DEF Fits, With, Showing
      <4>. QED
        BY <4>3, <4>4, TabMoves
    <3>. QED
      BY <2>5, <3>3, <3>4 DEF CommitConversation
  <2>6. ASSUME NEW c \in DOMAIN convs, NEW s \in {"OPEN", "PENDING", "CLOSED"},
               convs' = [convs EXCEPT ![c].status = s], UNCHANGED <<customers, tab>>
        PROVE  TalkType'
    <3>0. convs[c] \in Talk
      BY <2>0, <2>6
    <3>1. [convs[c] EXCEPT !.status = s] \in Talk
      BY <3>0 DEF Talk
    <3>2. convs' \in Seq(Talk) /\ Len(convs') = Len(convs)
      BY <2>0, <2>6, <3>1
    <3>. QED
      BY <3>2, <2>6 DEF TalkType
  <2>7. ASSUME NEW t \in Pages, WriteOn(t) PROVE TalkType'
    <3>1. tab[t] \in Showing /\ tab[t].conv \in Nat /\ tab[t].conv # 0 /\ tab[t].conv <= Len(convs)
      BY <2>7, TabKinds DEF WriteOn, Visitor, TalkType, Showing
    <3>2. tab[t].conv \in DOMAIN convs
      BY <2>0, <3>1
    <3>. QED
      BY <2>1, <2>6, <2>7, <3>2 DEF WriteOn, Revive
  <2>8. ASSUME NEW t \in Pages, Reload(t) PROVE TalkType'
    <3>1. Kept /\ Moves(t, AtRest)
      BY <2>0, <2>8 DEF Reload, Kept, Moves
    <3>. QED
      BY <3>1, AtRestFits, TabMoves
  <2>9. ASSUME NEW c \in DOMAIN convs, NEW s \in {"OPEN", "PENDING", "CLOSED"}, SetStatus(c, s)
        PROVE  TalkType'
    BY <2>6, <2>9 DEF SetStatus, Revive
  <2>. QED
    BY <2>1, <2>2, <2>3, <2>4, <2>5, <2>7, <2>8, <2>9
    DEF WidgetNext, widgetVars, talk, Tick, Refused, DeleteWidget, SwitchChannel, LetsThrough,
        CommitUpdate, UpdateWidget, TurnedAway, Column
<1>. QED
  BY <1>1, <1>2, PTL DEF WidgetSpec

(* Until something splits a visitor's thread, whoever opens a conversation   *)
(* is alone in it and has none yet, so that it will be the only one.         *)
ThreadInv ==
    ~split => \A i \in Nat :
                  /\ \A t, u \in Pages : Opens(t, i) /\ Opens(u, i) => t = u
                  /\ \A t \in Pages : Opens(t, i) => Live(i) = {}
                  /\ \A c, d \in Live(i) : c = d

LEMMA NoNewThread ==
    ASSUME ThreadInv, split => split',
           \A i \in Nat : /\ Live(i)' \subseteq Live(i)
                          /\ \A t \in Pages : Opens(t, i)' => Opens(t, i)
    PROVE  ThreadInv'
  BY DEF ThreadInv

LEMMA ReviveKeeps ==
    ASSUME TalkType, ThreadInv, NEW c \in DOMAIN convs, Revive(c), UNCHANGED tab
    PROVE  ThreadInv'
<1>1. SUFFICES ASSUME ~split' PROVE ThreadInv'
  BY DEF ThreadInv
<1>2. ~split /\ Live(convs[c].who) = {} /\ \A u \in Pages : ~Opens(u, convs[c].who)
  BY <1>1 DEF Revive
<1>3. convs \in Seq(Talk) /\ DOMAIN convs' = DOMAIN convs
  BY DEF Revive, TalkType
<1>4. \A d \in DOMAIN convs : /\ convs'[d].who = convs[d].who
                              /\ d # c => convs'[d] = convs[d]
  BY <1>3 DEF Revive, Talk
<1>5. \A i \in Nat : Live(i)' \subseteq (IF i = convs[c].who THEN {c} ELSE Live(i))
  BY <1>2, <1>3, <1>4 DEF Live
<1>6. \A i, u : Opens(u, i)' <=> Opens(u, i)
  BY DEF Opens
<1>. QED
  BY <1>2, <1>5, <1>6 DEF ThreadInv

THEOREM ThreadHolds == WidgetSpec => []ThreadInv
<1>1. WidgetInit => ThreadInv
  BY DEF WidgetInit, ThreadInv, Opens, Live, AtRest, With
<1>2. TalkType /\ ThreadInv /\ [WidgetNext]_widgetVars => ThreadInv'
  <2>. SUFFICES ASSUME TalkType, ThreadInv, [WidgetNext]_widgetVars PROVE ThreadInv'
    OBVIOUS
  <2>0. tab \in [Pages -> Looking \cup Showing] /\ convs \in Seq(Talk) /\ Len(convs) \in Nat
    BY DEF TalkType
  <2>1. ASSUME UNCHANGED <<convs, tab, split>> PROVE ThreadInv'
    BY <2>1, NoNewThread DEF Live, Opens
  <2>2. ASSUME NEW t \in Pages, NEW new, Moves(t, new), new.pc # "opening", UNCHANGED <<convs, split>>
        PROVE  ThreadInv'
    BY <2>0, <2>2, NoNewThread DEF Live, Opens, Moves
  <2>3. ASSUME NEW t \in Pages, NEW k \in Keys, NEW a \in Emails \cup {Absent}, LookUp(t, k, a)
        PROVE  ThreadInv'
    <3>1. PICK i : Moves(t, [pc |-> "session", key |-> k, email |-> a, row |-> i, links |-> TakesKey(i, a)])
      BY <2>3 DEF LookUp, Moves
    <3>2. [pc |-> "session", key |-> k, email |-> a, row |-> i, links |-> TakesKey(i, a)].pc # "opening"
      OBVIOUS
    <3>. QED
      BY <2>2, <2>3, <3>1, <3>2 DEF LookUp
  <2>4. ASSUME NEW t \in Pages, CommitSession(t) PROVE ThreadInv'
    <3>1. PICK i, c : Moves(t, With(i, c))
      BY <2>4 DEF CommitSession, Moves, AtRest
    <3>. QED
      BY <2>2, <2>4, <3>1 DEF CommitSession, With
  <2>5. ASSUME NEW t \in Pages, WriteFirst(t) PROVE ThreadInv'
    <3>1. tab[t] \in Showing /\ tab[t].token \in Nat
      BY <2>5, TabKinds DEF WriteFirst, Visitor, Showing
    <3>2. UNCHANGED convs
      BY <2>5 DEF WriteFirst
    <3>3. ASSUME NEW c, tab' = [tab EXCEPT ![t] = With(tab[t].token, c)], UNCHANGED split
          PROVE  ThreadInv'
      <4>1. Moves(t, With(tab[t].token, c)) /\ With(tab[t].token, c).pc # "opening"
        BY <3>3 DEF Moves, With
      <4>. QED
        BY <2>2, <3>2, <3>3, <4>1
    <3>4. CASE /\ Resumable(tab[t].token) = {}
               /\ tab' = [tab EXCEPT ![t].pc = "opening"]
               /\ split' = (split \/ \E u \in Pages : Opens(u, tab[t].token))
      <4>1. SUFFICES ASSUME ~split' PROVE ThreadInv'
        BY DEF ThreadInv
      <4>2. ~split /\ \A u \in Pages : ~Opens(u, tab[t].token)
        BY <3>4, <4>1
      <4>3. tab'[t].token = tab[t].token /\ \A u \in Pages : u # t => tab'[u] = tab[u]
        BY <2>0, <3>1, <3>4 DEF Showing
      <4>4. \A i \in Nat, u \in Pages : Opens(u, i)' => Opens(u, i) \/ (u = t /\ i = tab[t].token)
        BY <4>3 DEF Opens
      <4>5. \A i : Live(i)' = Live(i)
        BY <3>2 DEF Live
      <4>6. Live(tab[t].token) = {}
        BY <3>4 DEF Live, Resumable
      <4>. QED
        BY <4>2, <4>4, <4>5, <4>6 DEF ThreadInv
    <3>. QED
      BY <2>5, <3>3, <3>4 DEF WriteFirst
  <2>6. ASSUME NEW t \in Pages, CommitConversation(t) PROVE ThreadInv'
    <3>. DEFINE who == tab[t].token
    <3>1. tab[t] \in Showing /\ who \in Nat /\ Opens(t, who)
      BY <2>6, TabKinds DEF CommitConversation, Showing, Opens
    <3>2. UNCHANGED split
      BY <2>6 DEF CommitConversation
    <3>3. CASE tab' = [tab EXCEPT ![t] = AtRest] /\ UNCHANGED convs
      <4>1. Moves(t, AtRest) /\ AtRest.pc # "opening"
        BY <3>3 DEF Moves, AtRest, With
      <4>. QED
        BY <2>2, <3>2, <3>3, <4>1
    <3>4. CASE /\ convs' = Append(convs, [who |-> who, status |-> "OPEN"])
               /\ tab' = [tab EXCEPT ![t] = With(who, Len(convs) + 1)]
      <4>1. SUFFICES ASSUME ~split PROVE ThreadInv'
        BY <3>2 DEF ThreadInv
      <4>2. Live(who) = {} /\ \A u \in Pages : Opens(u, who) => u = t
        BY <3>1, <4>1 DEF ThreadInv
      <4>3. \A i \in Nat, u \in Pages : Opens(u, i)' => Opens(u, i) /\ u # t
        BY <2>0, <3>4 DEF Opens, With
      <4>4. /\ DOMAIN convs' = DOMAIN convs \cup {Len(convs) + 1}
            /\ \A c \in DOMAIN convs : convs'[c] = convs[c]
            /\ convs'[Len(convs) + 1] = [who |-> who, status |-> "OPEN"]
        BY <2>0, <3>4
      <4>5. \A i \in Nat : Live(i)' \subseteq (IF i = who THEN {Len(convs) + 1} ELSE Live(i))
        BY <4>2, <4>4 DEF Live
      <4>. QED
        BY <4>1, <4>2, <4>3, <4>5 DEF ThreadInv
    <3>. QED
      BY <2>6, <3>3, <3>4 DEF CommitConversation
  <2>7. ASSUME NEW t \in Pages, WriteOn(t) PROVE ThreadInv'
    <3>1. tab[t] \in Showing /\ tab[t].conv \in Nat /\ tab[t].conv # 0 /\ tab[t].conv <= Len(convs)
      BY <2>7, TabKinds DEF WriteOn, Visitor, TalkType, Showing
    <3>2. tab[t].conv \in DOMAIN convs
      BY <2>0, <3>1
    <3>. QED
      BY <2>1, <2>7, <3>2, ReviveKeeps DEF WriteOn
  <2>8. ASSUME NEW t \in Pages, Reload(t) PROVE ThreadInv'
    <3>1. Moves(t, AtRest) /\ AtRest.pc # "opening" /\ UNCHANGED <<convs, split>>
      BY <2>8 DEF Reload, Moves, AtRest, With
    <3>. QED
      BY <2>2, <3>1
  <2>9. ASSUME NEW c \in DOMAIN convs, NEW s \in {"OPEN", "PENDING", "CLOSED"}, SetStatus(c, s)
        PROVE  ThreadInv'
    <3>1. CASE convs[c].status = "CLOSED"
      BY <2>9, <3>1, ReviveKeeps DEF SetStatus
    <3>2. CASE convs[c].status # "CLOSED"
      <4>1. convs' = [convs EXCEPT ![c].status = s] /\ UNCHANGED <<split, tab>>
        BY <2>9, <3>2 DEF SetStatus
      <4>2. \A d \in DOMAIN convs : /\ convs'[d].who = convs[d].who
                                    /\ d # c => convs'[d] = convs[d]
        BY <2>0, <4>1 DEF Talk
      <4>3. DOMAIN convs' = DOMAIN convs
        BY <2>0, <4>1
      <4>4. \A i \in Nat : Live(i)' \subseteq Live(i)
        BY <3>2, <4>2, <4>3 DEF Live
      <4>5. \A i, u : Opens(u, i)' => Opens(u, i)
        BY <4>1 DEF Opens
      <4>. QED
        BY <4>1, <4>4, <4>5, NoNewThread
    <3>. QED
      BY <3>1, <3>2
  <2>. QED
    BY <2>1, <2>3, <2>4, <2>5, <2>6, <2>7, <2>8, <2>9
    DEF WidgetNext, widgetVars, talk, Tick, Refused, DeleteWidget, SwitchChannel, LetsThrough,
        CommitUpdate, UpdateWidget, TurnedAway
<1>. QED
  BY <1>1, <1>2, TalkTypeHolds, PTL DEF WidgetSpec

(* A visitor has one conversation to resume, unless the thread was split.    *)
THEOREM OneThreadHolds == WidgetSpec => []OneThread
<1>1. TalkType /\ ThreadInv => OneThread
  <2>. SUFFICES ASSUME TalkType, ThreadInv, ~split, NEW i \in DOMAIN customers
                PROVE  Cardinality(Live(i)) <= 1
    BY DEF OneThread
  <2>1. i \in Nat
    BY DEF TalkType
  <2>2. \A c, d \in Live(i) : c = d
    BY <2>1 DEF ThreadInv
  <2>3. Live(i) = {} \/ \E c : Live(i) = {c}
    BY <2>2
  <2>. QED
    <3>1. ASSUME Live(i) = {} PROVE Cardinality(Live(i)) = 0
      BY <3>1, FS_EmptySet
    <3>2. ASSUME NEW c, Live(i) = {c} PROVE Cardinality(Live(i)) = 1
      BY <3>2, FS_Singleton, Zenon
    <3>. QED
      BY <2>3, <3>1, <3>2
<1>. QED
  BY <1>1, TalkTypeHolds, ThreadHolds, PTL

(* A session under way that will link its customer has found the row by the  *)
(* address, and the row is still without a key as long as no two sessions    *)
(* were under way for one address.                                           *)
Links(t) == tab[t].pc = "session" /\ tab[t].links /\ tab[t].row # 0
Seeks(t, a) == tab[t].pc = "session" /\ tab[t].email = a

KeyInv ==
    /\ \A t \in Pages : tab[t].pc = "session" /\ tab[t].row = 0 => tab[t].links
    /\ \A t \in Pages : Links(t) => /\ tab[t].email \in Emails
                                    /\ customers[tab[t].row].email = tab[t].email
    /\ ~crossed =>
          /\ \A t \in Pages : Links(t) => customers[tab[t].row].key = Absent
          /\ \A a \in Emails : \A t, u \in Pages : Seeks(t, a) /\ Seeks(u, a) => t = u

LEMMA NoNewLink ==
    ASSUME TalkType, KeyInv, NEW t \in Pages, NEW new, Moves(t, new), new.pc # "session",
           UNCHANGED <<customers, crossed>>
    PROVE  KeyInv'
<1>1. tab'[t] = new /\ \A u \in Pages : u # t => tab'[u] = tab[u]
  BY DEF Moves, TalkType
<1>2. \A u \in Pages : Links(u)' => Links(u) /\ tab'[u] = tab[u]
  BY <1>1 DEF Links
<1>3. \A u \in Pages, a \in Emails : Seeks(u, a)' => Seeks(u, a)
  BY <1>1 DEF Seeks
<1>. QED
  BY <1>1, <1>2, <1>3 DEF KeyInv

(* What a session writes: nothing, a new row, or the key of a row that has   *)
(* none, and in either case the key was in no row before.                    *)
LEMMA SessionWrites ==
    ASSUME TalkType, KeyInv, NEW t \in Pages, CommitSession(t)
    PROVE  \/ UNCHANGED customers
           \/ /\ HasKey(tab[t].key) = {}
              /\ customers' = Append(customers, [email |-> tab[t].email, key |-> tab[t].key])
           \/ /\ HasKey(tab[t].key) \ {tab[t].row} = {} /\ Links(t)
              /\ tab[t].row \in DOMAIN customers
              /\ customers' = [customers EXCEPT ![tab[t].row].key = tab[t].key]
<1>0. tab[t] \in Looking /\ tab[t].row \in 0..Len(customers) /\ tab[t].pc = "session"
  BY TabKinds DEF CommitSession, TalkType, Looking
<1>1. customers \in Seq(Person) /\ DOMAIN customers = 1..Len(customers) /\ Len(customers) \in Nat
  BY DEF TalkType
<1>2. CASE tab[t].links /\ HasKey(tab[t].key) \ {tab[t].row} # {}
  BY <1>2 DEF CommitSession
<1>3. CASE tab[t].row = 0 /\ tab[t].links /\ HasKey(tab[t].key) \ {tab[t].row} = {}
  <2>1. HasKey(tab[t].key) = {}
    BY <1>1, <1>3 DEF HasKey
  <2>. QED
    BY <1>3, <2>1 DEF CommitSession
<1>4. CASE tab[t].row # 0 /\ tab[t].links /\ HasKey(tab[t].key) \ {tab[t].row} = {}
  BY <1>0, <1>1, <1>4 DEF CommitSession, Links
<1>5. CASE ~tab[t].links
  BY <1>0, <1>5 DEF CommitSession, KeyInv
<1>. QED
  BY <1>2, <1>3, <1>4, <1>5

THEOREM KeyHolds == WidgetSpec => []KeyInv
<1>1. WidgetInit => KeyInv
  BY DEF WidgetInit, KeyInv, Links, Seeks, AtRest, With
<1>2. TalkType /\ KeyInv /\ [WidgetNext]_widgetVars => KeyInv'
  <2>. SUFFICES ASSUME TalkType, KeyInv, [WidgetNext]_widgetVars PROVE KeyInv'
    OBVIOUS
  <2>0. /\ tab \in [Pages -> Looking \cup Showing]
        /\ customers \in Seq(Person) /\ Len(customers) \in Nat
    BY DEF TalkType
  <2>1. ASSUME UNCHANGED <<customers, tab, crossed>> PROVE KeyInv'
    BY <2>1 DEF KeyInv, Links, Seeks
  <2>2. ASSUME NEW t \in Pages, NEW k \in Keys, NEW a \in Emails \cup {Absent}, LookUp(t, k, a)
        PROVE  KeyInv'
    <3>1. PICK i \in {0} \cup (IF a # Absent THEN HasEmail(a) ELSE HasKey(k)) :
             tab' = [tab EXCEPT ![t] = [pc |-> "session", key |-> k, email |-> a, row |-> i,
                                        links |-> TakesKey(i, a)]]
      BY <2>2 DEF LookUp
    <3>2. UNCHANGED customers
      BY <2>2 DEF LookUp
    <3>3. /\ tab'[t].pc = "session" /\ tab'[t].email = a /\ tab'[t].row = i
          /\ tab'[t].links = TakesKey(i, a)
          /\ \A u \in Pages : u # t => tab'[u] = tab[u]
      BY <2>0, <3>1
    <3>4. \A u \in Pages : u # t => /\ Links(u)' <=> Links(u)
                                    /\ \A b : Seeks(u, b)' <=> Seeks(u, b)
      BY <3>3 DEF Links, Seeks
    <3>5. i = 0 => TakesKey(i, a)
      BY DEF TakesKey
    <3>6. Links(t)' => /\ a \in Emails /\ i # 0 /\ customers[i].email = a
                       /\ customers[i].key = Absent
      BY <3>1, <3>3 DEF Links, TakesKey, HasEmail
    <3>7. ~crossed' => ~crossed /\ \A u \in Pages : a \in Emails => ~Seeks(u, a)
      BY <2>2, AbsentAssumption DEF LookUp, Seeks
    <3>8. \A b : Seeks(t, b)' <=> b = a
      BY <3>3 DEF Seeks
    <3>. QED
      <4>1. \A u \in Pages : (tab[u].pc = "session" /\ tab[u].row = 0 => tab[u].links)'
        BY <3>3, <3>5 DEF KeyInv
      <4>2. \A u \in Pages : (Links(u) => /\ tab[u].email \in Emails
                                          /\ customers[tab[u].row].email = tab[u].email)'
        BY <3>2, <3>3, <3>4, <3>6 DEF KeyInv
      <4>3. ASSUME ~crossed' PROVE \A u \in Pages : (Links(u) => customers[tab[u].row].key = Absent)'
        BY <3>2, <3>3, <3>4, <3>6, <3>7, <4>3 DEF KeyInv
      <4>4. ASSUME ~crossed'
            PROVE  \A b \in Emails : \A u, v \in Pages : Seeks(u, b)' /\ Seeks(v, b)' => u = v
        BY <3>4, <3>7, <3>8, <4>4 DEF KeyInv
      <4>. QED
        BY <4>1, <4>2, <4>3, <4>4 DEF KeyInv
  <2>3. ASSUME NEW t \in Pages, CommitSession(t) PROVE KeyInv'
    <3>1. PICK i, c : Moves(t, With(i, c))
      BY <2>3 DEF CommitSession, Moves, AtRest
    <3>2. tab'[t].pc # "session" /\ \A u \in Pages : u # t => tab'[u] = tab[u]
      BY <2>0, <3>1 DEF Moves, With
    <3>3. \A u \in Pages : /\ Links(u)' => Links(u) /\ u # t /\ tab'[u] = tab[u]
                           /\ tab'[u].pc = "session" => tab'[u] = tab[u]
                           /\ \A a : Seeks(u, a)' => Seeks(u, a)
      BY <3>2 DEF Links, Seeks
    <3>4. UNCHANGED crossed
      BY <2>3 DEF CommitSession
    <3>5. \A u \in Pages : Links(u) => tab[u].row \in 1..Len(customers)
      BY <2>0, TabKinds DEF Links, TalkType, Looking
    <3>6. CASE UNCHANGED customers
      BY <3>3, <3>4, <3>6 DEF KeyInv
    <3>7. CASE customers' = Append(customers, [email |-> tab[t].email, key |-> tab[t].key])
      <4>1. \A j \in 1..Len(customers) : customers'[j] = customers[j]
        BY <2>0, <3>7
      <4>. QED
        BY <3>3, <3>4, <3>5, <4>1 DEF KeyInv
    <3>8. CASE /\ Links(t)
               /\ customers' = [customers EXCEPT ![tab[t].row].key = tab[t].key]
      <4>1. \A j \in 1..Len(customers) : /\ customers'[j].email = customers[j].email
                                         /\ j # tab[t].row => customers'[j] = customers[j]
        BY <2>0, <3>8 DEF Person
      <4>2. ASSUME ~crossed, NEW u \in Pages, Links(u), u # t PROVE tab[u].row # tab[t].row
        <5>1. Seeks(t, tab[t].email) /\ Seeks(u, tab[u].email) /\ tab[t].email \in Emails
          BY <3>8, <4>2 DEF Links, Seeks, KeyInv
        <5>2. tab[t].email # tab[u].email
          BY <4>2, <5>1 DEF KeyInv
        <5>. QED
          BY <3>8, <4>2, <5>2 DEF KeyInv
      <4>. QED
        BY <3>3, <3>4, <3>5, <4>1, <4>2 DEF KeyInv
    <3>. QED
      BY <2>3, <3>6, <3>7, <3>8, SessionWrites
  <2>4. ASSUME NEW t \in Pages, WriteFirst(t) PROVE KeyInv'
    <3>1. tab[t] \in Showing /\ UNCHANGED <<customers, crossed>>
      BY <2>4, TabKinds DEF WriteFirst, Visitor
    <3>2. ASSUME NEW c, tab' = [tab EXCEPT ![t] = With(tab[t].token, c)]
          PROVE  KeyInv'
      <4>1. Moves(t, With(tab[t].token, c)) /\ With(tab[t].token, c).pc # "session"
        BY <3>2 DEF Moves, With
      <4>. QED
        BY <3>1, <4>1, NoNewLink
    <3>3. CASE tab' = [tab EXCEPT ![t].pc = "opening"]
      <4>. DEFINE new == [tab[t] EXCEPT !.pc = "opening"]
      <4>1. Moves(t, new) /\ new.pc # "session"
        BY <3>1, <3>3 DEF Moves, Showing
      <4>. HIDE DEF new
      <4>. QED
        BY <3>1, <4>1, NoNewLink
    <3>. QED
      BY <2>4, <3>2, <3>3 DEF WriteFirst
  <2>5. ASSUME NEW t \in Pages, CommitConversation(t) PROVE KeyInv'
    <3>1. PICK i, c : Moves(t, With(i, c))
      BY <2>5 DEF CommitConversation, Moves, AtRest
    <3>2. With(i, c).pc # "session" /\ UNCHANGED <<customers, crossed>>
      BY <2>5 DEF CommitConversation, With
    <3>. QED
      BY <3>1, <3>2, NoNewLink
  <2>6. ASSUME NEW t \in Pages, Reload(t) PROVE KeyInv'
    <3>1. Moves(t, AtRest) /\ AtRest.pc # "session" /\ UNCHANGED <<customers, crossed>>
      BY <2>6 DEF Reload, Moves, AtRest, With
    <3>. QED
      BY <3>1, NoNewLink
  <2>. QED
    BY <2>1, <2>2, <2>3, <2>4, <2>5, <2>6
    DEF WidgetNext, widgetVars, talk, Tick, Refused, DeleteWidget, SwitchChannel, LetsThrough,
        CommitUpdate, UpdateWidget, TurnedAway, WriteOn, SetStatus
<1>. QED
  BY <1>1, <1>2, TalkTypeHolds, PTL DEF WidgetSpec

(* A visitor's key stays with the customer row that has it.                  *)
THEOREM KeyStays == WidgetSpec => KeyKept
<1>1. TalkType /\ KeyInv /\ [WidgetNext]_widgetVars =>
          [\A k \in Keys : ~crossed /\ HasKey(k) # {} => HasKey(k)' = HasKey(k)]_widgetVars
  <2>. SUFFICES ASSUME TalkType, KeyInv, [WidgetNext]_widgetVars, ~crossed,
                       NEW k \in Keys, HasKey(k) # {}
                PROVE  HasKey(k)' = HasKey(k)
    OBVIOUS
  <2>0. customers \in Seq(Person) /\ Len(customers) \in Nat
    BY DEF TalkType
  <2>1. CASE UNCHANGED customers
    BY <2>1 DEF HasKey
  <2>2. ASSUME NEW t \in Pages, CommitSession(t) PROVE HasKey(k)' = HasKey(k)
    <3>1. CASE /\ HasKey(tab[t].key) = {}
               /\ customers' = Append(customers, [email |-> tab[t].email, key |-> tab[t].key])
      <4>1. /\ DOMAIN customers' = DOMAIN customers \cup {Len(customers) + 1}
            /\ \A i \in DOMAIN customers : customers'[i] = customers[i]
            /\ customers'[Len(customers) + 1].key = tab[t].key
        BY <2>0, <3>1
      <4>2. tab[t].key # k
        BY <3>1
      <4>. QED
        BY <4>1, <4>2 DEF HasKey
    <3>2. CASE /\ HasKey(tab[t].key) \ {tab[t].row} = {} /\ Links(t)
               /\ tab[t].row \in DOMAIN customers
               /\ customers' = [customers EXCEPT ![tab[t].row].key = tab[t].key]
      <4>1. customers[tab[t].row].key = Absent
        BY <3>2 DEF KeyInv
      <4>2. tab[t].row \notin HasKey(k) /\ tab[t].row \notin HasKey(tab[t].key)
        BY <2>2, <4>1, TabKinds, AbsentAssumption DEF HasKey, CommitSession, Looking
      <4>3. tab[t].key # k
        BY <3>2, <4>2
      <4>4. /\ DOMAIN customers' = DOMAIN customers
            /\ customers'[tab[t].row].key = tab[t].key
            /\ \A i \in DOMAIN customers : i # tab[t].row => customers'[i] = customers[i]
        <5>1. customers[tab[t].row] \in Person
          BY <2>0, <3>2
        <5>2. [customers[tab[t].row] EXCEPT !.key = tab[t].key].key = tab[t].key
          BY <5>1 DEF Person
        <5>. QED
          BY <2>0, <3>2, <5>2
      <4>. QED
        BY <4>2, <4>3, <4>4 DEF HasKey
    <3>. QED
      BY <2>1, <2>2, <3>1, <3>2, SessionWrites
  <2>. QED
    BY <2>1, <2>2
    DEF WidgetNext, widgetVars, talk, Tick, Refused, DeleteWidget, SwitchChannel, LetsThrough,
        CommitUpdate, UpdateWidget, TurnedAway, WriteOn, SetStatus, LookUp, WriteFirst,
        CommitConversation, Reload
<1>. QED
  BY <1>1, TalkTypeHolds, KeyHolds, PTL DEF WidgetSpec, KeyKept

-----------------------------------------------------------------------------
(* The sockets.  The registry holds a socket once at most, and a visitor's   *)
(* under a conversation only if _visitor_meta says so.                       *)

PushType ==
    /\ life \in [Sockets -> {"new", "open", "left", "over"}]
    /\ asks \in [Visitors -> Conversations \cup {None}]
    /\ agents \in [Agents -> Nat]
    /\ byConv \in [Conversations -> [Visitors -> Nat]]
    /\ meta \in [Visitors -> SUBSET Conversations]
    /\ channel \in Seq(Event)
    /\ count \in Nat
    /\ cast \in Broadcast \cup {None}
    /\ log \in [Sockets -> Seq(Nat)]

RegistryInv ==
    /\ \A s \in Agents : agents[s] <= 1 /\ (life[s] = "new" => agents[s] = 0)
    /\ \A s \in Visitors, c \in Conversations :
          /\ byConv[c][s] <= 1
          /\ byConv[c][s] # 0 => c \in meta[s] /\ life[s] # "new"

(* Ids grow along the channel, and what a socket has got is before them.  A  *)
(* socket the broadcast has still to serve has not got its event.            *)
Waits(s) == cast.todo[s] # 0 \/ (cast.phase = "agents" /\ s \in Visitors)
OrderInv ==
    /\ \A i \in DOMAIN channel : channel[i].id <= count
    /\ \A i, j \in DOMAIN channel : i < j => channel[i].id < channel[j].id
    /\ \A s \in Sockets : \A i \in DOMAIN log[s] :
          log[s][i] <= count /\ \A j \in DOMAIN channel : log[s][i] < channel[j].id
    /\ cast # None =>
          /\ cast.event.id <= count
          /\ \A j \in DOMAIN channel : cast.event.id < channel[j].id
          /\ \A s \in Sockets : /\ cast.todo[s] <= 1
                                /\ cast.phase = "agents" /\ s \in Visitors => cast.todo[s] = 0
                                /\ \A i \in DOMAIN log[s] :
                                      /\ log[s][i] <= cast.event.id
                                      /\ Waits(s) => log[s][i] < cast.event.id
    /\ OnceInOrder

(* A visitor's socket that was over is out of the list the broadcast is to   *)
(* sweep, or known to be dead, or about to be found so.                      *)
SweepInv ==
    cast # None /\ cast.phase = "visitors" /\ cast.event.about \in Conversations =>
        \A s \in cast.over \cap Visitors :
            /\ life[s] = "over"
            /\ byConv[cast.event.about][s] # 0 => s \in cast.dead \/ cast.todo[s] # 0

(* What a step of the whole is to the sockets and the bus.                   *)
PushAct ==
    \/ PushProgress \/ ListenerLost
    \/ \E n \in Notes \cup Conversations : Publish(n)
    \/ \E s \in Agents : ConnectAgent(s)
    \/ \E s \in Visitors, c, a \in Conversations \cup {None} : ConnectVisitor(s, c, a)
    \/ \E s \in Visitors : Subscribe(s)
    \/ \E s \in Sockets : Leave(s) \/ Notice(s) \/ Sends(s)
    \/ UNCHANGED <<sockets, registry, bus, cast, count, log>>

LEMMA NextIsPush ==
    ASSUME [Next]_vars
    PROVE  PushAct
<1>1. CASE PushStep
  BY <1>1 DEF PushStep, PushAct
<1>2. ASSUME NEW s \in Sockets, Deliver(s) PROVE PushAct
  BY <1>2 DEF Deliver, PushAct
<1>3. ASSUME NEW s \in Sessions, Notify(s) PROVE PushAct
  <2>1. UNCHANGED pushVars \/ \E n \in Notes : Publish(n)
    BY <1>3 DEF Notify
  <2>. QED
    BY <2>1 DEF PushAct, pushVars
<1>4. ASSUME NEW r \in Requests, NEW what, Loads(r, what) PROVE PushAct
  BY <1>4 DEF Loads, PushAct
<1>5. CASE UNCHANGED pushVars
  BY <1>5 DEF PushAct, pushVars
<1>. QED
  BY <1>1, <1>2, <1>3, <1>4, <1>5
  DEF Next, vars, LoadPreference, Commit, RollBack, End, GetPreferences, UpdatePreferences,
      CommitPreferences, Poll, ListNotifications, FetchFails, Arrive, MarkRead, MarkAllRead,
      DeleteNotification

LEMMA OneLessType == \A n \in Nat : OneLess(n) \in Nat /\ (n <= 1 => OneLess(n) = 0)
  BY DEF OneLess

(* A send serves one socket, and finds it dead if its handler is over. *)
LEMMA SendsOne ==
    ASSUME PushType, NEW s \in Sockets, Sends(s)
    PROVE  /\ cast # None /\ cast \in Broadcast /\ cast' \in Broadcast
           /\ cast'.event = cast.event /\ cast'.phase = cast.phase /\ cast'.over = cast.over
           /\ cast.todo[s] > 0 /\ cast'.todo[s] = cast.todo[s] - 1
           /\ \A u \in Sockets : u # s => cast'.todo[u] = cast.todo[u]
           /\ cast.dead \subseteq cast'.dead
           /\ life[s] = "over" => s \in cast'.dead
<1>1. cast # None /\ cast \in Broadcast /\ cast.todo \in [Sockets -> Nat] /\ cast.todo[s] > 0
  BY DEF Sends, PushType, Broadcast
<1>2. [cast.todo EXCEPT ![s] = @ - 1] \in [Sockets -> Nat]
  BY <1>1
<1>3. PICK dead \in {cast.dead, cast.dead \cup {s}} :
         /\ cast' = [cast EXCEPT !.todo = [cast.todo EXCEPT ![s] = @ - 1], !.dead = dead]
         /\ life[s] = "over" => dead = cast.dead \cup {s}
  BY <1>1 DEF Sends, Fails, Broadcast
<1>4. cast' \in Broadcast
  BY <1>1, <1>2, <1>3 DEF Broadcast
<1>5. /\ cast'.event = cast.event /\ cast'.phase = cast.phase /\ cast'.over = cast.over
      /\ cast'.dead = dead /\ cast'.todo = [cast.todo EXCEPT ![s] = @ - 1]
  BY <1>1, <1>3 DEF Broadcast
<1>. QED
  BY <1>1, <1>3, <1>4, <1>5

THEOREM PushTypeHolds == Spec => []PushType
<1>1. Init => PushType
  BY PushAssumption DEF Init, PushInit, PushType, Sockets
<1>2. PushType /\ [Next]_vars => PushType'
  <2>. SUFFICES ASSUME PushType, PushAct PROVE PushType'
    BY NextIsPush
  <2>. USE DEF sockets, registry, bus
  <2>1. CASE StartBroadcast
    <3>1. Head(channel) \in Event /\ Tail(channel) \in Seq(Event)
      BY <2>1 DEF StartBroadcast, PushType
    <3>2. [s \in Sockets |-> IF s \in Agents THEN agents[s] ELSE 0] \in [Sockets -> Nat]
      BY DEF PushType
    <3>3. cast' \in Broadcast
      BY <2>1, <3>1, <3>2 DEF StartBroadcast, Broadcast
    <3>. QED
      BY <2>1, <3>1, <3>3 DEF StartBroadcast, PushType
  <2>2. CASE ToVisitors
    <3>1. [s \in Sockets |-> IF s \in Visitors /\ cast.event.about \in Conversations
                             THEN byConv[cast.event.about][s] ELSE 0] \in [Sockets -> Nat]
      BY DEF PushType
    <3>2. cast' \in Broadcast
      BY <2>2, <3>1 DEF ToVisitors, Broadcast, PushType
    <3>. QED
      BY <2>2, <3>2 DEF ToVisitors, PushType
  <2>3. ASSUME NEW swept, Disconnected(swept)
        PROVE  /\ agents' \in [Agents -> Nat]
               /\ byConv' \in [Conversations -> [Visitors -> Nat]]
               /\ meta' \in [Visitors -> SUBSET Conversations]
    BY <2>3, OneLessType DEF Disconnected, PushType
  <2>4. CASE EndBroadcast
    BY <2>3, <2>4 DEF EndBroadcast, PushType
  <2>5. CASE ListenerBack \/ ListenerLost
    <3>1. <<>> \in Seq(Event)
      OBVIOUS
    <3>2. channel' \in Seq(Event)
      BY <2>5, <3>1 DEF ListenerBack, ListenerLost, PushType
    <3>. QED
      BY <2>5, <3>2 DEF ListenerBack, ListenerLost, PushType
  <2>6. ASSUME NEW n \in Notes \cup Conversations, Publish(n) PROVE PushType'
    <3>1. [id |-> count + 1, about |-> n] \in Event
      BY DEF Event, PushType
    <3>2. channel' = channel \/ channel' = Append(channel, [id |-> count + 1, about |-> n])
      BY <2>6 DEF Publish
    <3>3. channel \in Seq(Event)
      BY DEF PushType
    <3>4. channel' \in Seq(Event)
      BY <3>1, <3>2, <3>3
    <3>. QED
      BY <2>6, <3>4 DEF Publish, PushType
  <2>7. ASSUME NEW s \in Agents, ConnectAgent(s) PROVE PushType'
    BY <2>7 DEF ConnectAgent, PushType, Sockets
  <2>8. ASSUME NEW s \in Visitors, NEW c \in Conversations \cup {None},
               NEW a \in Conversations \cup {None}, ConnectVisitor(s, c, a)
        PROVE  PushType'
    <3>1. byConv' \in [Conversations -> [Visitors -> Nat]]
      BY <2>8 DEF ConnectVisitor, PushType
    <3>. QED
      BY <2>8, <3>1 DEF ConnectVisitor, PushType, Sockets
  <2>9. ASSUME NEW s \in Visitors, Subscribe(s) PROVE PushType'
    <3>1. asks[s] \in Conversations
      BY <2>9 DEF Subscribe, PushType
    <3>2. byConv' \in [Conversations -> [Visitors -> Nat]] /\ meta' \in [Visitors -> SUBSET Conversations]
      BY <2>9, <3>1 DEF Subscribe, Subscribed, PushType
    <3>. QED
      BY <2>9, <3>2 DEF Subscribe, PushType, Sockets
  <2>10. ASSUME NEW s \in Sockets, Leave(s) PROVE PushType'
    BY <2>10 DEF Leave, PushType
  <2>11. ASSUME NEW s \in Sockets, Notice(s) PROVE PushType'
    BY <2>3, <2>11 DEF Notice, PushType
  <2>12. ASSUME NEW s \in Sockets, Sends(s) PROVE PushType'
    <3>1. cast \in Broadcast /\ cast' \in Broadcast
      BY <2>12, SendsOne
    <3>2. log' \in [Sockets -> Seq(Nat)]
      BY <2>12, <3>1 DEF Sends, PushType, Broadcast, Event
    <3>. QED
      BY <2>12, <3>1, <3>2 DEF Sends, PushType
  <2>13. CASE UNCHANGED <<sockets, registry, bus, cast, count, log>>
    BY <2>13 DEF PushType
  <2>. QED
    BY <2>1, <2>2, <2>4, <2>5, <2>6, <2>7, <2>8, <2>9, <2>10, <2>11, <2>12, <2>13
    DEF PushAct, PushProgress
<1>. QED
  BY <1>1, <1>2, PTL DEF Spec

THEOREM RegistryHolds == Spec => []RegistryInv
<1>1. Init => RegistryInv
  BY DEF Init, PushInit, RegistryInv
<1>2. PushType /\ RegistryInv /\ [Next]_vars => RegistryInv'
  <2>. SUFFICES ASSUME PushType, RegistryInv, PushAct PROVE RegistryInv'
    BY NextIsPush
  <2>. USE DEF sockets, registry, bus
  <2>1. CASE UNCHANGED <<life, agents, byConv, meta>>
    BY <2>1 DEF RegistryInv
  <2>2. ASSUME NEW swept, Disconnected(swept), \A s \in Sockets : life'[s] = "new" => life[s] = "new"
        PROVE  RegistryInv'
    <3>1. ASSUME NEW s \in Agents PROVE (agents[s] <= 1 /\ (life[s] = "new" => agents[s] = 0))'
      <4>1. agents'[s] = IF s \in swept THEN OneLess(agents[s]) ELSE agents[s]
        BY <2>2 DEF Disconnected
      <4>2. agents[s] \in Nat /\ agents[s] <= 1 /\ (life[s] = "new" => agents[s] = 0)
        BY DEF PushType, RegistryInv
      <4>. QED
        BY <2>2, <4>1, <4>2, OneLessType DEF Sockets
    <3>2. ASSUME NEW s \in Visitors, NEW c \in Conversations
          PROVE  (byConv[c][s] <= 1 /\ (byConv[c][s] # 0 => c \in meta[s] /\ life[s] # "new"))'
      <4>1. /\ byConv'[c][s] = IF s \in swept /\ c \in meta[s] THEN OneLess(byConv[c][s])
                               ELSE byConv[c][s]
            /\ meta'[s] = IF s \in swept THEN {} ELSE meta[s]
        BY <2>2 DEF Disconnected
      <4>2. /\ byConv[c][s] \in Nat /\ byConv[c][s] <= 1
            /\ byConv[c][s] # 0 => c \in meta[s] /\ life[s] # "new"
        BY DEF PushType, RegistryInv
      <4>. QED
        BY <2>2, <4>1, <4>2, OneLessType DEF Sockets
    <3>. QED
      BY <3>1, <3>2 DEF RegistryInv
  <2>3. ASSUME NEW s \in Agents, ConnectAgent(s) PROVE RegistryInv'
    <3>1. s \notin Visitors /\ agents[s] = 0
      BY <2>3, PushAssumption DEF ConnectAgent, RegistryInv
    <3>. QED
      BY <2>3, <3>1 DEF ConnectAgent, RegistryInv, PushType, Sockets
  <2>4. ASSUME NEW s \in Visitors, NEW c \in Conversations \cup {None},
               NEW a \in Conversations \cup {None}, ConnectVisitor(s, c, a)
        PROVE  RegistryInv'
    <3>1. s \notin Agents /\ life[s] = "new" /\ \A d \in Conversations : byConv[d][s] = 0
      BY <2>4, PushAssumption DEF ConnectVisitor, RegistryInv
    <3>2. /\ life'[s] = "open" /\ \A u \in Sockets : u # s => life'[u] = life[u]
          /\ meta'[s] = {c} \ {None} /\ \A u \in Visitors : u # s => meta'[u] = meta[u]
      BY <2>4 DEF ConnectVisitor, PushType, Sockets
    <3>3. \A d \in Conversations : /\ byConv'[d][s] = IF d = c THEN 1 ELSE 0
                                   /\ \A u \in Visitors : u # s => byConv'[d][u] = byConv[d][u]
      BY <2>4, <3>1, PushAssumption DEF ConnectVisitor, PushType
    <3>4. UNCHANGED agents
      BY <2>4 DEF ConnectVisitor
    <3>. QED
      BY <3>1, <3>2, <3>3, <3>4, PushAssumption DEF RegistryInv, Sockets
  <2>5. ASSUME NEW s \in Visitors, Subscribe(s) PROVE RegistryInv'
    <3>. DEFINE c == asks[s]
    <3>1. c \in Conversations /\ s \notin Agents /\ life[s] # "new"
      BY <2>5, PushAssumption DEF Subscribe, PushType
    <3>2. /\ life'[s] # "new" /\ \A u \in Sockets : u # s => life'[u] = life[u]
          /\ meta'[s] = meta[s] \cup {c} /\ \A u \in Visitors : u # s => meta'[u] = meta[u]
      BY <2>5 DEF Subscribe, Subscribed, PushType, Sockets
    <3>3. \A d \in Conversations :
             /\ byConv'[d][s] = IF d = c /\ byConv[d][s] = 0 THEN 1 ELSE byConv[d][s]
             /\ \A u \in Visitors : u # s => byConv'[d][u] = byConv[d][u]
      BY <2>5, <3>1 DEF Subscribe, Subscribed, PushType
    <3>4. UNCHANGED agents
      BY <2>5 DEF Subscribe
    <3>. QED
      BY <3>1, <3>2, <3>3, <3>4 DEF RegistryInv, Sockets
  <2>6. ASSUME NEW s \in Sockets, Leave(s) PROVE RegistryInv'
    BY <2>6 DEF Leave, RegistryInv, PushType, Sockets
  <2>7. ASSUME NEW s \in Sockets, Notice(s) PROVE RegistryInv'
    <3>1. Disconnected({s}) /\ \A u \in Sockets : life'[u] = "new" => life[u] = "new"
      BY <2>7 DEF Notice, PushType
    <3>. QED
      BY <2>2, <3>1
  <2>8. CASE EndBroadcast
    BY <2>2, <2>8 DEF EndBroadcast
  <2>. QED
    BY <2>1, <2>3, <2>4, <2>5, <2>6, <2>7, <2>8
    DEF PushAct, PushProgress, StartBroadcast, ToVisitors, ListenerBack, ListenerLost, Publish, Sends
<1>. QED
  BY <1>1, <1>2, PushTypeHolds, PTL DEF Spec

(* What a step does to the broadcast under way and to a socket that is over. *)
LEMMA OverIsFinal ==
    ASSUME PushType, RegistryInv, PushAct, NEW s \in Visitors, life[s] = "over"
    PROVE  /\ life'[s] = "over"
           /\ \A c \in Conversations : byConv[c][s] = 0 => byConv'[c][s] = 0
<1>. USE DEF sockets, registry, bus
<1>1. CASE UNCHANGED <<life, byConv>>
  BY <1>1
<1>2. ASSUME NEW swept, Disconnected(swept)
      PROVE  \A c \in Conversations : byConv[c][s] = 0 => byConv'[c][s] = 0
  BY <1>2, OneLessType DEF Disconnected
<1>3. ASSUME NEW a \in Agents, ConnectAgent(a) PROVE life'[s] = "over" /\ UNCHANGED byConv
  BY <1>3 DEF ConnectAgent, PushType, Sockets
<1>4. ASSUME NEW u \in Visitors, NEW c \in Conversations \cup {None},
             NEW a \in Conversations \cup {None}, ConnectVisitor(u, c, a)
      PROVE  life'[s] = "over" /\ \A d \in Conversations : byConv'[d][s] = byConv[d][s]
  BY <1>4 DEF ConnectVisitor, PushType, Sockets
<1>5. ASSUME NEW u \in Visitors, Subscribe(u)
      PROVE  life'[s] = "over" /\ \A d \in Conversations : byConv'[d][s] = byConv[d][s]
  BY <1>5 DEF Subscribe, Subscribed, PushType, Sockets
<1>6. ASSUME NEW u \in Sockets, Leave(u) PROVE life'[s] = "over" /\ UNCHANGED byConv
  BY <1>6 DEF Leave, PushType, Sockets
<1>7. ASSUME NEW u \in Sockets, Notice(u) PROVE life'[s] = "over" /\ Disconnected({u})
  BY <1>7 DEF Notice, PushType, Sockets
<1>8. CASE EndBroadcast
  BY <1>2, <1>8 DEF EndBroadcast
<1>. QED
  BY <1>1, <1>2, <1>3, <1>4, <1>5, <1>6, <1>7, <1>8
  DEF PushAct, PushProgress, StartBroadcast, ToVisitors, ListenerBack, ListenerLost, Publish, Sends

THEOREM SweepHolds == Spec => []SweepInv
<1>1. Init => SweepInv
  BY DEF Init, PushInit, SweepInv
<1>2. PushType /\ RegistryInv /\ SweepInv /\ [Next]_vars => SweepInv'
  <2>. SUFFICES ASSUME PushType, RegistryInv, SweepInv, PushAct PROVE SweepInv'
    BY NextIsPush
  <2>. USE DEF sockets, registry, bus
  <2>1. CASE UNCHANGED cast
    BY <2>1, OverIsFinal DEF SweepInv, PushType, Broadcast
  <2>2. CASE StartBroadcast
    BY <2>2 DEF StartBroadcast, SweepInv
  <2>3. CASE ToVisitors
    <3>. SUFFICES ASSUME cast'.event.about \in Conversations,
                         NEW s \in cast'.over \cap Visitors
                  PROVE  /\ life'[s] = "over"
                         /\ byConv'[cast'.event.about][s] # 0 => cast'.todo[s] # 0
      BY DEF SweepInv
    <3>1. cast \in Broadcast
      BY <2>3 DEF ToVisitors, PushType
    <3>2. /\ cast'.event = cast.event
          /\ cast'.over = {u \in Sockets : life[u] = "over"}
          /\ cast'.todo = [u \in Sockets |->
                              IF u \in Visitors /\ cast.event.about \in Conversations
                              THEN byConv[cast.event.about][u] ELSE 0]
      BY <2>3, <3>1 DEF ToVisitors, Broadcast
    <3>3. UNCHANGED <<life, byConv>>
      BY <2>3 DEF ToVisitors
    <3>. QED
      BY <3>2, <3>3 DEF Sockets
  <2>4. CASE EndBroadcast
    BY <2>4 DEF EndBroadcast, SweepInv
  <2>5. ASSUME NEW u \in Sockets, Sends(u) PROVE SweepInv'
    <3>1. UNCHANGED <<life, byConv>>
      BY <2>5 DEF Sends
    <3>. QED
      BY <2>5, <3>1, SendsOne DEF SweepInv, Sockets
  <2>. QED
    BY <2>1, <2>2, <2>3, <2>4, <2>5
    DEF PushAct, PushProgress, ListenerBack, ListenerLost, Publish, ConnectAgent, ConnectVisitor,
        Subscribe, Leave, Notice
<1>. QED
  BY <1>1, <1>2, PushTypeHolds, RegistryHolds, PTL DEF Spec

(* Whatever socket was dead by the time a broadcast turned to a conversation *)
(* is out of the conversation's list when the broadcast ends.                *)
THEOREM SweepsHold == Spec => BroadcastSweeps
<1>1. PushType /\ RegistryInv /\ SweepInv /\ [Next]_vars =>
          [cast # None /\ cast' = None /\ cast.event.about \in Conversations =>
              \A s \in cast.over : s \in Visitors => byConv'[cast.event.about][s] = 0]_pushVars
  <2>. SUFFICES ASSUME PushType, RegistryInv, SweepInv, PushAct, cast # None, cast' = None,
                       cast.event.about \in Conversations, NEW s \in cast.over \cap Visitors
                PROVE  byConv'[cast.event.about][s] = 0
    BY NextIsPush
  <2>1. cast \in Broadcast
    BY DEF PushType
  <2>2. EndBroadcast
    <3>1. CASE ToVisitors
      <4>1. [x \in Sockets |-> IF x \in Visitors /\ cast.event.about \in Conversations
                               THEN byConv[cast.event.about][x] ELSE 0] \in [Sockets -> Nat]
        BY DEF PushType
      <4>. QED
        BY <2>1, <3>1, <4>1, NotificationsAssumption DEF ToVisitors, Broadcast
    <3>2. ASSUME NEW u \in Sockets, Sends(u) PROVE FALSE
      BY <3>2, SendsOne, NotificationsAssumption
    <3>. QED
      BY <3>1, <3>2
      DEF PushAct, PushProgress, StartBroadcast, ListenerBack, ListenerLost, Publish, ConnectAgent,
          ConnectVisitor, Subscribe, Leave, Notice
  <2>3. byConv[cast.event.about][s] # 0 => s \in cast.dead
    BY <2>2 DEF EndBroadcast, Served, SweepInv, Sockets
  <2>4. byConv'[cast.event.about][s] =
           IF s \in cast.dead /\ cast.event.about \in meta[s]
           THEN OneLess(byConv[cast.event.about][s]) ELSE byConv[cast.event.about][s]
    BY <2>2 DEF EndBroadcast, Disconnected
  <2>5. /\ byConv[cast.event.about][s] \in Nat /\ byConv[cast.event.about][s] <= 1
        /\ byConv[cast.event.about][s] # 0 => cast.event.about \in meta[s]
    BY DEF PushType, RegistryInv
  <2>. QED
    BY <2>3, <2>4, <2>5, OneLessType
<1>. QED
  BY <1>1, PushTypeHolds, RegistryHolds, SweepHolds, PTL DEF Spec, BroadcastSweeps

THEOREM OrderHolds == Spec => []OrderInv
<1>1. Init => OrderInv
  <2>. SUFFICES ASSUME Init PROVE OrderInv
    OBVIOUS
  <2>1. DOMAIN channel = {} /\ \A s \in Sockets : DOMAIN log[s] = {}
    BY DEF Init, PushInit
  <2>. QED
    BY <2>1 DEF Init, PushInit, OrderInv, OnceInOrder
<1>2. PushType /\ RegistryInv /\ OrderInv /\ [Next]_vars => OrderInv'
  <2>. SUFFICES ASSUME PushType, RegistryInv, OrderInv, PushAct PROVE OrderInv'
    BY NextIsPush
  <2>. USE DEF sockets, registry, bus
  <2>0. /\ channel \in Seq(Event) /\ DOMAIN channel = 1..Len(channel) /\ Len(channel) \in Nat
        /\ \A i \in DOMAIN channel : channel[i].id \in Nat
        /\ count \in Nat
        /\ \A s \in Sockets : log[s] \in Seq(Nat) /\ DOMAIN log[s] = 1..Len(log[s])
    <3>1. channel \in Seq(Event) /\ count \in Nat /\ \A s \in Sockets : log[s] \in Seq(Nat)
      BY DEF PushType
    <3>2. \A i \in DOMAIN channel : channel[i] \in Event
      BY <3>1
    <3>3. \A i \in DOMAIN channel : channel[i].id \in Nat
      BY <3>2 DEF Event
    <3>. QED
      BY <3>1, <3>3
  <2>1. CASE UNCHANGED <<channel, cast, count, log>>
    BY <2>1 DEF OrderInv, OnceInOrder, Waits
  <2>2. CASE StartBroadcast
    <3>1. /\ channel' \in Seq(Event) /\ \A j \in DOMAIN channel' :
                j + 1 \in DOMAIN channel /\ channel'[j] = channel[j + 1] /\ j \in Nat
          /\ 1 \in DOMAIN channel /\ Head(channel) = channel[1]
      BY <2>0, <2>2 DEF StartBroadcast
    <3>2. /\ cast'.event = channel[1]
          /\ \A s \in Sockets : cast'.todo[s] = IF s \in Agents THEN agents[s] ELSE 0
      BY <2>2, <3>1 DEF StartBroadcast
    <3>3. UNCHANGED <<count, log>>
      BY <2>2 DEF StartBroadcast
    <3>4. \A j \in DOMAIN channel' : /\ channel'[j].id <= count
                                     /\ channel[1].id < channel'[j].id
                                     /\ \A i \in DOMAIN channel' : i < j => channel'[i].id < channel'[j].id
      <4>1. ASSUME NEW j \in DOMAIN channel'
            PROVE  channel'[j].id <= count /\ channel[1].id < channel'[j].id
        <5>1. j + 1 \in DOMAIN channel /\ channel'[j] = channel[j + 1] /\ 1 < j + 1
          BY <2>0, <3>1
        <5>. QED
          BY <3>1, <5>1 DEF OrderInv
      <4>2. ASSUME NEW i \in DOMAIN channel', NEW j \in DOMAIN channel', i < j
            PROVE  channel'[i].id < channel'[j].id
        <5>1. /\ i + 1 \in DOMAIN channel /\ channel'[i] = channel[i + 1]
              /\ j + 1 \in DOMAIN channel /\ channel'[j] = channel[j + 1]
              /\ i + 1 < j + 1
          BY <3>1, <4>2
        <5>. QED
          BY <5>1 DEF OrderInv
      <4>. QED
        BY <4>1, <4>2
    <3>5. \A s \in Sockets : /\ cast'.todo[s] <= 1
                             /\ s \in Visitors => cast'.todo[s] = 0
      BY <3>2, PushAssumption DEF RegistryInv
    <3>6. \A s \in Sockets : \A i \in DOMAIN log[s] :
             log[s][i] < channel[1].id /\ \A j \in DOMAIN channel' : log[s][i] < channel'[j].id
      BY <3>1 DEF OrderInv
    <3>7. \A s \in Sockets : \A i \in DOMAIN log[s] : log[s][i] <= channel[1].id
      BY <2>0, <3>1, <3>6
    <3>8. channel[1].id <= count
      BY <3>1 DEF OrderInv
    <3>. QED
      BY <3>2, <3>3, <3>4, <3>5, <3>6, <3>7, <3>8 DEF OrderInv, OnceInOrder
  <2>3. CASE ToVisitors
    <3>1. cast \in Broadcast /\ cast # None /\ cast.phase = "agents"
      BY <2>3 DEF ToVisitors, PushType
    <3>2. /\ cast'.event = cast.event /\ cast'.phase = "visitors"
          /\ cast'.todo = [u \in Sockets |->
                              IF u \in Visitors /\ cast.event.about \in Conversations
                              THEN byConv[cast.event.about][u] ELSE 0]
      BY <2>3, <3>1 DEF ToVisitors, Broadcast
    <3>3. UNCHANGED <<channel, count, log>>
      BY <2>3 DEF ToVisitors
    <3>4. \A s \in Sockets : cast'.todo[s] <= 1 /\ (Waits(s)' => Waits(s))
      BY <3>1, <3>2 DEF RegistryInv, Waits
    <3>. QED
      BY <3>1, <3>2, <3>3, <3>4 DEF OrderInv, OnceInOrder
  <2>4. CASE EndBroadcast
    BY <2>4 DEF EndBroadcast, OrderInv, OnceInOrder
  <2>5. CASE ListenerLost
    <3>1. DOMAIN channel' = {} /\ UNCHANGED <<cast, count, log>>
      BY <2>5 DEF ListenerLost
    <3>. QED
      BY <3>1 DEF OrderInv, OnceInOrder, Waits
  <2>6. ASSUME NEW n \in Notes \cup Conversations, Publish(n) PROVE OrderInv'
    <3>1. UNCHANGED <<cast, log>> /\ count' = count + 1
      BY <2>6 DEF Publish
    <3>2. \A j \in DOMAIN channel' : \/ j \in DOMAIN channel /\ channel'[j] = channel[j]
                                     \/ j = Len(channel) + 1 /\ channel'[j].id = count + 1
      BY <2>0, <2>6 DEF Publish
    <3>3. \A j \in DOMAIN channel' : /\ channel'[j].id <= count'
                                     /\ \A i \in DOMAIN channel' : i < j => channel'[i].id < channel'[j].id
      BY <2>0, <3>1, <3>2 DEF OrderInv
    <3>4. \A s \in Sockets : \A i \in DOMAIN log[s] : log[s][i] \in Nat
      BY <2>0
    <3>5. \A s \in Sockets : \A i \in DOMAIN log[s] :
             log[s][i] <= count' /\ \A j \in DOMAIN channel' : log[s][i] < channel'[j].id
      BY <2>0, <3>1, <3>2, <3>4 DEF OrderInv
    <3>6. ASSUME cast # None
          PROVE  cast.event.id <= count' /\ \A j \in DOMAIN channel' : cast.event.id < channel'[j].id
      <4>1. cast.event.id \in Nat
        BY <3>6 DEF PushType, Broadcast, Event
      <4>. QED
        BY <2>0, <3>1, <3>2, <3>6, <4>1 DEF OrderInv
    <3>. QED
      BY <3>1, <3>3, <3>5, <3>6 DEF OrderInv, OnceInOrder, Waits
  <2>7. ASSUME NEW s \in Sockets, Sends(s) PROVE OrderInv'
    <3>1. UNCHANGED <<channel, count>>
      BY <2>7 DEF Sends
    <3>2. /\ cast # None /\ cast.event.id \in Nat /\ cast'.event = cast.event /\ cast'.phase = cast.phase
          /\ cast.todo[s] = 1 /\ cast'.todo[s] = 0
          /\ \A u \in Sockets : u # s => cast'.todo[u] = cast.todo[u]
      <4>1. cast.todo[s] \in Nat /\ cast.todo[s] <= 1
        BY <2>7, SendsOne DEF OrderInv, Broadcast
      <4>. QED
        BY <2>7, <4>1, SendsOne DEF Broadcast, Event
    <3>3. \A u \in Sockets : u # s => log'[u] = log[u]
      BY <2>7 DEF Sends, PushType
    <3>4. log'[s] = log[s] \/ log'[s] = Append(log[s], cast.event.id)
      BY <2>7 DEF Sends, PushType
    <3>5. /\ \A i \in DOMAIN log[s] : log[s][i] < cast.event.id
          /\ cast.phase = "agents" => s \notin Visitors
      BY <3>2 DEF OrderInv, Waits
    <3>6. \A i \in DOMAIN log'[s] : \/ i \in DOMAIN log[s] /\ log'[s][i] = log[s][i]
                                    \/ i = Len(log[s]) + 1 /\ log'[s][i] = cast.event.id
      <4>1. log[s] \in Seq(Nat)
        BY <2>0
      <4>2. CASE log'[s] = log[s]
        BY <4>2
      <4>3. CASE log'[s] = Append(log[s], cast.event.id)
        <5>. DEFINE new == Append(log[s], cast.event.id)
        <5>1. \A i \in DOMAIN new : \/ i \in DOMAIN log[s] /\ new[i] = log[s][i]
                                    \/ i = Len(log[s]) + 1 /\ new[i] = cast.event.id
          BY <3>2, <4>1
        <5>. HIDE DEF new
        <5>. QED
          BY <4>3, <5>1 DEF new
      <4>. QED
        BY <3>4, <4>2, <4>3
    <3>7. \A i, j \in DOMAIN log'[s] : i < j => log'[s][i] < log'[s][j]
      BY <2>0, <3>5, <3>6 DEF OrderInv, OnceInOrder
    <3>8. \A u \in Sockets : \A i \in DOMAIN log'[u] :
             /\ log'[u][i] <= count /\ log'[u][i] <= cast.event.id
             /\ \A j \in DOMAIN channel : log'[u][i] < channel[j].id
      <4>1. \A i \in DOMAIN log'[s] :
               /\ log'[s][i] <= count /\ log'[s][i] <= cast.event.id
               /\ \A j \in DOMAIN channel : log'[s][i] < channel[j].id
        BY <3>2, <3>6 DEF OrderInv
      <4>. QED
        BY <3>2, <3>3, <4>1 DEF OrderInv
    <3>9. \A u \in Sockets : Waits(u)' => u # s /\ Waits(u)
      BY <3>2, <3>5 DEF Waits
    <3>10. OnceInOrder'
      BY <3>3, <3>7 DEF OrderInv, OnceInOrder
    <3>11. \A u \in Sockets : /\ cast'.todo[u] <= 1
                              /\ cast'.phase = "agents" /\ u \in Visitors => cast'.todo[u] = 0
      BY <3>2, <3>5 DEF OrderInv
    <3>12. \A u \in Sockets : Waits(u)' => \A i \in DOMAIN log'[u] : log'[u][i] < cast.event.id
      BY <3>2, <3>3, <3>9 DEF OrderInv
    <3>. QED
      BY <3>1, <3>2, <3>8, <3>10, <3>11, <3>12 DEF OrderInv
  <2>. QED
    BY <2>1, <2>2, <2>3, <2>4, <2>5, <2>6, <2>7
    DEF PushAct, PushProgress, ListenerBack, ConnectAgent, ConnectVisitor, Subscribe, Leave, Notice
<1>. QED
  BY <1>1, <1>2, PushTypeHolds, RegistryHolds, PTL DEF Spec

(* No peer gets an event twice or out of order. *)
THEOREM OnceInOrderHolds == Spec => []OnceInOrder
<1>1. OrderInv => OnceInOrder
  BY DEF OrderInv
<1>. QED
  BY <1>1, OrderHolds, PTL

-----------------------------------------------------------------------------
(* The preference.  All a proof needs of a session is that it is a record.   *)

SessionShape == /\ DOMAIN session = Sessions
                /\ \A s \in Sessions : DOMAIN session[s] = {"pc", "pref", "wrote"}

(* What a step does to a session. *)
LEMMA SessionSteps ==
    ASSUME SessionShape, [Next]_vars
    PROVE  /\ SessionShape'
           /\ Off => \A s \in Sessions :
                 /\ session'[s].pc = "loaded" /\ session'[s].pref.enabled =>
                        session[s].pc = "loaded" /\ session[s].pref.enabled
                 /\ s \notin Loud => session'[s].wrote \subseteq session[s].wrote
<1>1. CASE UNCHANGED session
  BY <1>1 DEF SessionShape
<1>2. ASSUME NEW s \in Sessions, LoadPreference(s)
      PROVE  /\ SessionShape'
             /\ Off => \A u \in Sessions :
                   /\ session'[u].pc = "loaded" /\ session'[u].pref.enabled =>
                          session[u].pc = "loaded" /\ session[u].pref.enabled
                   /\ session'[u].wrote = session[u].wrote
  BY <1>2 DEF LoadPreference, SessionShape, Off
<1>3. ASSUME NEW s \in Sessions, Notify(s)
      PROVE  /\ SessionShape'
             /\ \A u \in Sessions :
                   /\ session'[u].pc = "loaded" => session'[u] = session[u]
                   /\ u \notin Loud => session'[u].wrote = session[u].wrote
  BY <1>3 DEF Notify, SessionShape, Wanted, Loud
<1>4. ASSUME NEW s \in Sessions, NEW fate, End(s, fate)
      PROVE  /\ SessionShape'
             /\ \A u \in Sessions :
                   /\ session'[u].pc = "loaded" => session'[u] = session[u]
                   /\ session'[u].wrote \subseteq session[u].wrote
  BY <1>4 DEF End, SessionShape
<1>. QED
  BY <1>1, <1>2, <1>3, <1>4
  DEF Next, vars, rows, PushStep, Deliver, Commit, RollBack, Loads, GetPreferences, UpdatePreferences,
      CommitPreferences, Poll, ListNotifications, FetchFails, Arrive, MarkRead, MarkAllRead,
      DeleteNotification

(* Once notifications are switched off, no session begins to write one.      *)
THEOREM MuteHolds == Spec => MuteDrains
<1>1. Init => SessionShape
  BY DEF Init, SessionShape
<1>2. SessionShape /\ [Next]_vars => SessionShape'
  BY SessionSteps
<1>3. SessionShape /\ [Next]_vars =>
         [Off /\ Off' => /\ Loud' \subseteq Loud
                         /\ \A s \in Sessions \ Loud : session'[s].wrote \subseteq session[s].wrote]_vars
  BY SessionSteps DEF Loud
<1>. QED
  BY <1>1, <1>2, <1>3, PTL DEF Spec, MuteDrains
=============================================================================
