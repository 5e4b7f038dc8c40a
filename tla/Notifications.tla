---------------------------- MODULE Notifications ----------------------------
(***************************************************************************)
(* One user's notifications: the rows, the preference for their event      *)
(* type, the sessions of automations that notify the user, and the bell in *)
(* each of the user's tabs.                                                *)
(*                                                                         *)
(* A session publishes notification.created when it has written the row,   *)
(* long before it commits, and a bell fetches the list when it hears of    *)
(* it; what it cannot see yet only the next poll brings.  The browser's    *)
(* query cache and its requests are modelled from how the page uses them;  *)
(* the list's limit of 100 is left out.                                    *)
(***************************************************************************)
EXTENDS Push

CONSTANTS
    Sessions,      \* executions of automations
    Notes,         \* ids of notifications
    Requests,      \* requests to the preferences
    Choices        \* preferences the user may save: [enabled, in_app, email]

Default == [enabled |-> TRUE, in_app |-> TRUE, email |-> FALSE]

Event == [id : Nat, about : Notes \cup Conversations]
Broadcast == [event : Event, phase : {"agents", "visitors"}, todo : [Sockets -> Nat],
              dead : SUBSET Sockets, over : SUBSET Sockets]

ASSUME NotificationsAssumption ==
    /\ Notes \cap Conversations = {} /\ None \notin Notes \cup Broadcast
    /\ Choices \subseteq [enabled : BOOLEAN, in_app : BOOLEAN, email : BOOLEAN]

VARIABLES
    note,        \* each row: none, flushed, unread, read, deleted
    session,     \* [pc, pref, wrote]; pref is the preference last loaded
    pref,        \* notification_preferences, or None
    request,     \* what each request to the preferences has loaded
    shown,       \* what each bell shows of each notification
    fetch        \* the bell's request: idle, asked, or the answer on its way

rows == <<note, session>>
prefs == <<pref, request>>
bells == <<shown, fetch>>
vars == <<pushVars, rows, prefs, bells>>

Tabs == Agents
Nothing == [n \in Notes |-> "none"]
Idle == [at |-> "idle"]
Asked == [at |-> "asked"]

Init ==
    /\ PushInit
    /\ note = Nothing
    /\ session = [s \in Sessions |-> [pc |-> "new", pref |-> Default, wrote |-> {}]]
    /\ pref = None
    /\ request = [r \in Requests |-> Idle]
    /\ shown = [t \in Tabs |-> Nothing]
    /\ fetch = [t \in Tabs |-> Asked]

-----------------------------------------------------------------------------
(* Notifying *)

(* _get_preference; without a row the user gets notifications in the app. *)
LoadPreference(s) ==
    /\ session[s].pc \in {"new", "open"}
    /\ session' = [session EXCEPT ![s].pc = "loaded",
                                  ![s].pref = IF pref = None THEN Default ELSE pref]
    /\ UNCHANGED <<pushVars, note, prefs, bells>>

(* A definition named X_Fault is X with one plausible bug. *)
Wanted_InAppOnly(p) == p.in_app
Wanted(p) == p.enabled /\ p.in_app

(* notify: the row, then the event.  A Redis that has failed since the bus   *)
(* reached it makes publish raise: the action counts as failed and the row   *)
(* stays in the session, to be committed.                                    *)
Notify(s) ==
    /\ session[s].pc = "loaded"
    /\ IF Wanted(session[s].pref)
       THEN \E n \in {x \in Notes : note[x] = "none"} :
               /\ note' = [note EXCEPT ![n] = "flushed"]
               /\ session' = [session EXCEPT ![s].pc = "open", ![s].wrote = @ \cup {n}]
               /\ Publish(n) \/ UNCHANGED pushVars
       ELSE /\ session' = [session EXCEPT ![s].pc = "open"]
            /\ UNCHANGED <<pushVars, note>>
    /\ UNCHANGED <<prefs, bells>>

(* The session commits, or loses what it wrote. *)
End(s, fate) ==
    /\ session[s].pc = "open"
    /\ session' = [session EXCEPT ![s].pc = "over", ![s].wrote = {}]
    /\ note' = [n \in Notes |-> IF n \in session[s].wrote THEN fate ELSE note[n]]
    /\ UNCHANGED <<pushVars, prefs, bells>>

Commit(s) == End(s, "unread")
RollBack(s) == End(s, "none") /\ session[s].wrote # {}

-----------------------------------------------------------------------------
(* Preferences: a request loads the row and later inserts or updates it.     *)

Loads(r, what) ==
    /\ request[r] = Idle /\ Move
    /\ request' = [request EXCEPT ![r] = [at |-> what.at, asks |-> what.asks, row |-> pref]]
    /\ UNCHANGED <<sockets, registry, bus, cast, count, log, rows, pref, bells>>

(* get_preferences inserts what is missing, update_preferences saves p. *)
GetPreferences(r) == Loads(r, [at |-> "defaults", asks |-> Default])
UpdatePreferences(r, p) == Loads(r, [at |-> "saves", asks |-> p])

(* Only columns that differ from those loaded are written. *)
Merged(row, wish) ==
    [c \in DOMAIN wish |-> IF wish[c] # row[c] THEN wish[c] ELSE pref[c]]

(* A missing row that has been inserted meanwhile violates the unique key;   *)
(* get_preferences leaves a row it has found alone.                          *)
CommitPreferences(r) ==
    LET q == request[r]
    IN  /\ q # Idle
        /\ pref' = IF q.row = None THEN (IF pref = None THEN q.asks ELSE pref)
                   ELSE IF q.at = "saves" THEN Merged(q.row, q.asks) ELSE pref
        /\ request' = [request EXCEPT ![r] = Idle]
        /\ UNCHANGED <<pushVars, rows, bells>>

-----------------------------------------------------------------------------
(* The bell *)

Visible == [n \in Notes |-> IF note[n] \in {"unread", "read"} THEN note[n] ELSE "none"]

(* invalidateQueries: a request on its way is given up for a new one. *)
Invalidated(t) == fetch' = [fetch EXCEPT ![t] = Asked]

(* refetchInterval *)
Poll_WithoutSocket(t) ==
    /\ fetch[t] = Idle /\ life[t] # "open"
    /\ Invalidated(t)
    /\ UNCHANGED <<pushVars, rows, prefs, shown>>
Poll(t) ==
    /\ fetch[t] = Idle
    /\ Invalidated(t)
    /\ UNCHANGED <<pushVars, rows, prefs, shown>>

(* list_notifications *)
ListNotifications(t) ==
    /\ fetch[t] = Asked
    /\ fetch' = [fetch EXCEPT ![t] = [at |-> "answer", list |-> Visible]]
    /\ UNCHANGED <<pushVars, rows, prefs, shown>>

FetchFails(t) ==
    /\ fetch[t] = Asked
    /\ fetch' = [fetch EXCEPT ![t] = Idle]
    /\ UNCHANGED <<pushVars, rows, prefs, shown>>

Arrive(t) ==
    /\ fetch[t].at = "answer"
    /\ shown' = [shown EXCEPT ![t] = fetch[t].list]
    /\ fetch' = [fetch EXCEPT ![t] = Idle]
    /\ UNCHANGED <<pushVars, rows, prefs>>

(* onEvent: an event of a notification that the socket of t receives.  The   *)
(* rest of the broadcast is Push's.                                          *)
Deliver(s) ==
    /\ Sends(s)
    /\ IF s \in Tabs /\ log'[s] # log[s] /\ cast.event.about \in Notes
       THEN Invalidated(s) ELSE UNCHANGED fetch
    /\ UNCHANGED <<rows, prefs, shown>>

(* mark_read, mark_all_read and delete_notification, from what the bell       *)
(* shows; after a success it asks for the list again.                        *)
MarkRead(t, n) ==
    /\ shown[t][n] = "unread" /\ note[n] \in {"unread", "read"}
    /\ note' = [note EXCEPT ![n] = "read"]
    /\ Invalidated(t)
    /\ UNCHANGED <<pushVars, session, prefs, shown>>

MarkAllRead(t) ==
    /\ \E n \in Notes : shown[t][n] = "unread"
    /\ note' = [n \in Notes |-> IF note[n] = "unread" THEN "read" ELSE note[n]]
    /\ Invalidated(t)
    /\ UNCHANGED <<pushVars, session, prefs, shown>>

DeleteNotification(t, n) ==
    /\ shown[t][n] = "read" /\ note[n] = "read"
    /\ note' = [note EXCEPT ![n] = "deleted"]
    /\ Invalidated(t)
    /\ UNCHANGED <<pushVars, session, prefs, shown>>

-----------------------------------------------------------------------------
PushStep ==
    /\ \/ PushProgress \/ ListenerLost
       \/ \E c \in Conversations : Publish(c)
       \/ \E s \in Agents : ConnectAgent(s)
       \/ \E s \in Visitors, c, a \in Conversations \cup {None} : ConnectVisitor(s, c, a)
       \/ \E s \in Visitors : Subscribe(s)
       \/ \E s \in Sockets : Leave(s) \/ Notice(s)
    /\ UNCHANGED <<rows, prefs, bells>>

Next ==
    \/ PushStep
    \/ \E s \in Sockets : Deliver(s)
    \/ \E s \in Sessions : LoadPreference(s) \/ Notify(s) \/ Commit(s) \/ RollBack(s)
    \/ \E r \in Requests : \/ GetPreferences(r) \/ CommitPreferences(r)
                           \/ \E p \in Choices : UpdatePreferences(r, p)
    \/ \E t \in Tabs : \/ Poll(t) \/ ListNotifications(t) \/ FetchFails(t) \/ Arrive(t)
                       \/ MarkAllRead(t)
                       \/ \E n \in Notes : MarkRead(t, n) \/ DeleteNotification(t, n)

Spec == Init /\ [][Next]_vars

(* A tab polls, its requests are answered now and then, and what is answered *)
(* arrives.  Nothing is assumed of Redis and the sockets.                    *)
FairSpec ==
    Spec /\ \A t \in Tabs : /\ WF_vars(Poll(t)) /\ WF_vars(Arrive(t))
                            /\ SF_vars(ListNotifications(t))

-----------------------------------------------------------------------------
(* Properties *)

(* A notification that is unread comes up in every tab, or has been read      *)
(* from another: the event may come before the commit, be lost with Redis or *)
(* a socket that is not opened again.                                        *)
BellCatchesUp ==
    \A t \in Tabs : \A n \in Notes :
        note[n] = "unread" ~> (note[n] # "unread" \/ shown[t][n] = "unread")

(* Once the user has switched them off, no session begins to write a         *)
(* notification; those that had loaded the preference before may end.        *)
Off == pref # None /\ ~pref.enabled
Loud == {s \in Sessions : session[s].pc = "loaded" /\ session[s].pref.enabled}
MuteDrains ==
    [][Off /\ Off' => /\ Loud' \subseteq Loud
                      /\ \A s \in Sessions \ Loud : session'[s].wrote \subseteq session[s].wrote]_vars
=============================================================================
