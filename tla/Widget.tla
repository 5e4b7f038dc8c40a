------------------------------- MODULE Widget -------------------------------
(***************************************************************************)
(* A chat widget embedded in a web page: its configuration, the visitors   *)
(* who open sessions and write, the customer rows and conversations this   *)
(* makes, and the rate limiter in front of it.                             *)
(*                                                                         *)
(* A request reads what it needs in one step and commits in another, with  *)
(* other requests in between; the tabs of one browser share a visitor key. *)
(* Left out: previews, the fields a widget may require, and the age after  *)
(* which a conversation is not resumed (widget_resume_days is longer than  *)
(* anything here).                                                         *)
(***************************************************************************)
EXTENDS Naturals, Sequences, FiniteSets

CONSTANTS
    Pages,         \* browser tabs with the widget on the page
    Keys,          \* visitor keys, one stored by each browser
    Emails,        \* addresses visitors may give
    Editors,       \* administrators' PATCH requests under way at once
    Hosts,         \* hosts a widget may allow; the page is on PageHost
    PageHost,
    Max, Window,   \* max_requests and window_seconds of the limiter
    Horizon, MaxSessions, MaxEdits, MaxStatus,   \* bounds of the model
    Absent         \* no address, no key, no request, column left alone

ASSUME LimiterAssumption == Max \in Nat \ {0} /\ Window \in Nat
ASSUME AbsentAssumption == Absent \notin Emails \cup Keys

VARIABLES
    clock,     \* time.monotonic()
    hits,      \* when the limiter let a message through, oldest first
    gone,      \* how many of them have left the bucket
    status,    \* chat_widgets.status
    domains,   \* chat_widgets.allowed_domains
    enabled,   \* the WEB_CHAT channel is enabled
    edit,      \* what each editor has validated and will write
    overlap,   \* two edits have been under way at once
    customers, \* the rows: e-mail address and external_id
    convs,     \* conversations of the widget: customer and status
    tab,       \* what each tab is doing, its token and its conversation
    crossed,   \* two sessions have been under way for one address at once
    split,     \* what may leave a visitor two conversations has happened
    spent      \* what the bounds count

limiter    == <<clock, hits, gone>>
config     == <<status, domains, enabled, edit, overlap>>
talk       == <<customers, convs, tab, crossed, split>>
widgetVars == <<limiter, config, talk, spent>>

With(who, c) == [pc |-> "idle", token |-> who, conv |-> c]
AtRest == With(0, 0)

WidgetInit ==
    /\ clock = 0 /\ hits = <<>> /\ gone = 0
    /\ status \in {"DRAFT", "ACTIVE", "INACTIVE"} /\ domains \in SUBSET Hosts
    /\ status = "ACTIVE" => domains # {}
    /\ enabled = TRUE
    /\ edit = [e \in Editors |-> Absent] /\ overlap = FALSE
    /\ customers \in {<<>>} \cup {<<[email |-> a, key |-> Absent]>> : a \in Emails}
    /\ convs = <<>>
    /\ tab = [t \in Pages |-> AtRest]
    /\ crossed = FALSE /\ split = FALSE
    /\ spent = [sessions |-> 0, edits |-> 0, changes |-> 0]

Spend(what, max) == spent[what] < max /\ spent' = [spent EXCEPT ![what] = @ + 1]

-----------------------------------------------------------------------------
(* SlidingWindowRateLimiter.check.  A definition named X_Fault is X with one *)
(* plausible bug, which no action uses.                                      *)

Expired_Inclusive(t) == t + Window <= clock
Expired(t) == t + Window < clock

(* The bucket holds the hits after `gone`; expired ones leave at its front.  *)
Popped == CHOOSE n \in gone..Len(hits) :
              /\ \A i \in (gone + 1)..n : Expired(hits[i])
              /\ n < Len(hits) => ~Expired(hits[n + 1])

LetsThrough ==
    /\ Len(hits) - Popped < Max
    /\ gone' = Popped
    /\ hits' = Append(hits, clock)
    /\ UNCHANGED clock

(* A refused request empties the bucket of expired hits all the same.        *)
Refused ==
    /\ Len(hits) - Popped >= Max
    /\ gone' = Popped
    /\ UNCHANGED <<clock, hits, config, talk, spent>>

Tick ==
    /\ clock < Horizon
    /\ clock' = clock + 1
    /\ UNCHANGED <<hits, gone, config, talk, spent>>

-----------------------------------------------------------------------------
(* The configuration *)

(* _validate_active_domains, on the values the widget will have.             *)
Valid_GivenOnly(s, d) == s = "ACTIVE" /\ d # Absent => d # {}
Valid(s, d) ==
    (IF s = Absent THEN status ELSE s) = "ACTIVE" => (IF d = Absent THEN domains ELSE d) # {}

(* update_widget: s and d are what the request gives, Absent if nothing.     *)
UpdateWidget(e, s, d) ==
    /\ edit[e] = Absent /\ status # "DELETED"
    /\ Spend("edits", MaxEdits)
    /\ Valid(s, d)
    /\ edit' = [edit EXCEPT ![e] = [status |-> s, domains |-> d]]
    /\ overlap' = (overlap \/ \E f \in Editors : edit[f] # Absent)
    /\ UNCHANGED <<limiter, status, domains, enabled, talk>>

CommitUpdate(e) ==
    /\ edit[e] # Absent
    /\ IF status = "DELETED" THEN UNCHANGED <<status, domains>>
       ELSE /\ status' = IF edit[e].status = Absent THEN status ELSE edit[e].status
            /\ domains' = IF edit[e].domains = Absent THEN domains ELSE edit[e].domains
    /\ edit' = [edit EXCEPT ![e] = Absent]
    /\ UNCHANGED <<limiter, enabled, overlap, talk, spent>>

(* delete_widget: a widget with conversations stays.  An edit under way      *)
(* fails, and so does a conversation that is being opened.                   *)
DeleteWidget ==
    /\ status # "DELETED" /\ convs = <<>>
    /\ Spend("edits", MaxEdits)
    /\ status' = "DELETED"
    /\ UNCHANGED <<limiter, domains, enabled, edit, overlap, talk>>

SwitchChannel ==
    /\ Spend("edits", MaxEdits)
    /\ enabled' = ~enabled
    /\ UNCHANGED <<limiter, status, domains, edit, overlap, talk>>

-----------------------------------------------------------------------------
(* Sessions *)

(* host_matches_allowlist, with the hosts an entry stands for as the entry.  *)
Matches(host, allowed) == host \in allowed

(* assert_domain_allowed, the status and assert_web_chat_enabled.            *)
Open == Matches(PageHost, domains) /\ status = "ACTIVE" /\ enabled

HasEmail(a) == {i \in DOMAIN customers : customers[i].email = a}
HasKey(k)   == {i \in DOMAIN customers : customers[i].key = k}

(* The conversations of a customer that are not over. *)
Live(c) == {i \in DOMAIN convs : convs[i].who = c /\ convs[i].status # "CLOSED"}

(* find_resumable_conversation.  Of several the one updated last is taken,   *)
(* which may be any.                                                         *)
Resumable_OpenOnly(c) == {i \in DOMAIN convs : convs[i].who = c /\ convs[i].status = "OPEN"}
Resumable(c) == {i \in DOMAIN convs : convs[i].who = c /\ convs[i].status # "CLOSED"}

(* A new customer takes the key, and one found by address who has none. *)
TakesKey_Always(i, a) == i = 0 \/ a # Absent
TakesKey(i, a) == i = 0 \/ (a # Absent /\ customers[i].key = Absent)

(* create_or_restore_session, up to its INSERT or UPDATE: the row with the   *)
(* address (two are an error), or without an address the one with the key.   *)
LookUp(t, k, a) ==
    LET found == IF a # Absent THEN HasEmail(a) ELSE HasKey(k)
    IN  /\ tab[t].pc = "idle"
        /\ Open
        /\ Spend("sessions", MaxSessions)
        /\ Cardinality(found) <= 1
        /\ \E i \in IF found = {} THEN {0} ELSE found :
               tab' = [tab EXCEPT ![t] = [pc |-> "session", key |-> k, email |-> a, row |-> i,
                                          links |-> TakesKey(i, a)]]
        /\ crossed' = (crossed \/ \E u \in Pages : /\ a # Absent
                                                  /\ tab[u].pc = "session"
                                                  /\ tab[u].email = a)
        /\ UNCHANGED <<limiter, config, customers, convs, split>>

(* The commit, and the token with the conversation to go on with.  Where the *)
(* key would be in two rows the unique index makes the request fail.         *)
CommitSession(t) ==
    LET s == tab[t]
        k == s.key
        row == IF s.row = 0 THEN Len(customers) + 1 ELSE s.row
    IN  /\ tab[t].pc = "session"
        /\ IF s.links /\ HasKey(k) \ {s.row} # {}
           THEN tab' = [tab EXCEPT ![t] = AtRest] /\ UNCHANGED customers
           ELSE /\ customers' =
                      IF s.row = 0 THEN Append(customers, [email |-> s.email, key |-> k])
                      ELSE IF s.links THEN [customers EXCEPT ![s.row].key = k]
                      ELSE customers
                /\ \E c \in IF Resumable(row) = {} THEN {0} ELSE Resumable(row) :
                       tab' = [tab EXCEPT ![t] = With(row, c)]
        /\ UNCHANGED <<limiter, config, convs, crossed, split, spent>>

-----------------------------------------------------------------------------
(* Messages *)

(* _require_visitor: the tab holds a token of this widget. *)
Visitor(t) == tab[t].pc = "idle" /\ tab[t].token # 0

Opens(u, who) == tab[u].pc = "opening" /\ tab[u].token = who

(* A request the limiter lets through counts, even if it is turned away then. *)
TurnedAway(t) ==
    /\ Visitor(t)
    /\ LetsThrough
    /\ ~Open
    /\ UNCHANGED <<config, talk, spent>>

(* create_embed_conversation: the message goes to a conversation that can be *)
(* resumed, or the request goes on to open one.                              *)
WriteFirst(t) ==
    /\ Visitor(t) /\ tab[t].conv = 0
    /\ LetsThrough
    /\ Open
    /\ LET who == tab[t].token
       IN  \/ /\ Resumable(who) = {}
              /\ tab' = [tab EXCEPT ![t].pc = "opening"]
              /\ split' = (split \/ \E u \in Pages : Opens(u, who))
           \/ /\ \E c \in Resumable(who) : tab' = [tab EXCEPT ![t] = With(who, c)]
              /\ UNCHANGED split
    /\ UNCHANGED <<config, customers, convs, crossed, spent>>

CommitConversation(t) ==
    /\ tab[t].pc = "opening"
    /\ IF status = "DELETED"
       THEN tab' = [tab EXCEPT ![t] = AtRest] /\ UNCHANGED convs
       ELSE /\ convs' = Append(convs, [who |-> tab[t].token, status |-> "OPEN"])
            /\ tab' = [tab EXCEPT ![t] = With(tab[t].token, Len(convs) + 1)]
    /\ UNCHANGED <<limiter, config, customers, crossed, split, spent>>

(* A conversation comes back; the visitor may have or be opening another.    *)
Revive(c) ==
    /\ convs' = [convs EXCEPT ![c].status = "OPEN"]
    /\ split' = (split \/ Live(convs[c].who) # {}
                 \/ \E u \in Pages : Opens(u, convs[c].who))

(* send_message: a closed conversation is opened again. *)
WriteOn(t) ==
    /\ Visitor(t) /\ tab[t].conv # 0
    /\ LetsThrough
    /\ Open
    /\ IF convs[tab[t].conv].status = "CLOSED" THEN Revive(tab[t].conv)
       ELSE UNCHANGED <<convs, split>>
    /\ UNCHANGED <<config, customers, tab, crossed, spent>>

(* The page is loaded again; its token is lost, the browser's key is not.    *)
Reload(t) ==
    /\ Visitor(t)
    /\ tab' = [tab EXCEPT ![t] = AtRest]
    /\ UNCHANGED <<limiter, config, customers, convs, crossed, split, spent>>

(* An agent's PATCH of the status. *)
SetStatus(c, s) ==
    /\ c \in DOMAIN convs /\ convs[c].status # s
    /\ Spend("changes", MaxStatus)
    /\ IF convs[c].status = "CLOSED" THEN s = "OPEN" /\ Revive(c)
       ELSE convs' = [convs EXCEPT ![c].status = s] /\ UNCHANGED split
    /\ UNCHANGED <<limiter, config, customers, tab, crossed>>

-----------------------------------------------------------------------------
WidgetNext ==
    \/ Tick \/ Refused \/ DeleteWidget \/ SwitchChannel
    \/ \E e \in Editors :
        \/ CommitUpdate(e)
        \/ \E s \in {"DRAFT", "ACTIVE", "INACTIVE", Absent}, d \in {Absent} \cup SUBSET Hosts :
               UpdateWidget(e, s, d)
    \/ \E t \in Pages :
        \/ CommitSession(t) \/ WriteFirst(t) \/ CommitConversation(t)
        \/ WriteOn(t) \/ TurnedAway(t) \/ Reload(t)
        \/ \E k \in Keys, a \in Emails \cup {Absent} : LookUp(t, k, a)
    \/ \E c \in DOMAIN convs, s \in {"OPEN", "PENDING", "CLOSED"} : SetStatus(c, s)

WidgetSpec == WidgetInit /\ [][WidgetNext]_widgetVars

-----------------------------------------------------------------------------
(* Properties *)

(* In no closed interval of window_seconds does a limiter let more than      *)
(* max_requests through: the request max_requests places later comes after   *)
(* the interval.                                                             *)
WindowRespected ==
    \A i \in DOMAIN hits : i + Max \in DOMAIN hits => hits[i + Max] > hits[i] + Window

(* As long as no two edits overlap, a widget is only ACTIVE with a domain it *)
(* may be embedded in, whichever of the two columns a PATCH leaves alone.    *)
ActiveHasDomains == ~overlap => (status = "ACTIVE" => domains # {})

(* A browser's visitor key belongs to one customer row, and to the same for  *)
(* good: who comes back is never somebody else, whatever addresses are given *)
(* in other tabs.  Only two sessions for one address at the same time may    *)
(* both link the customer, and the later takes the place of the earlier.     *)
KeyKept ==
    [][\A k \in Keys : ~crossed /\ HasKey(k) # {} => HasKey(k)' = HasKey(k)]_widgetVars

(* A visitor has one conversation to resume, unless two tabs opened one at   *)
(* the same time or a closed one came back when there was another already.   *)
OneThread == ~split => \A i \in DOMAIN customers : Cardinality(Live(i)) <= 1
=============================================================================
