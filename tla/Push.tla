-------------------------------- MODULE Push --------------------------------
(***************************************************************************)
(* How an event reaches the browsers: EventBus publishes it on a Redis     *)
(* channel, the listener of the API process takes one event at a time from *)
(* the channel and broadcasts it to the sockets its ConnectionManager has  *)
(* registered.                                                             *)
(*                                                                         *)
(* The broadcast awaits every send, so sockets come and go and subscribe   *)
(* while it runs; between two awaits nothing else does.  A list of sockets *)
(* is modelled by how often it holds each socket: the order in which one   *)
(* broadcast serves them is left open.  Redis, the network and the web     *)
(* server are modelled from how the code uses them.                        *)
(***************************************************************************)
EXTENDS Naturals, Sequences, FiniteSets

CONSTANTS
    Agents,          \* sockets of agents' tabs, and of public ones without token
    Visitors,        \* sockets of visitors
    Conversations,
    MaxEvents,       \* bound: events published
    MaxMoves,        \* bound: connects, departures, outages, other requests
    None

Sockets == Agents \cup Visitors

ASSUME PushAssumption ==
    /\ Agents \cap Visitors = {} /\ None \notin Conversations
    /\ MaxEvents \in Nat /\ MaxMoves \in Nat

VARIABLES
    life,        \* each socket: new, open, left by its peer, over for the server
    failed,      \* sockets a send has failed on
    asks,        \* the subscribe message a visitor has sent, not yet handled
    agents,      \* _agent_connections and _public_connections, as counts
    byConv,      \* _visitor_by_conversation, as counts
    meta,        \* _visitor_meta; {} for a socket that is not in it
    listening,   \* the listener is subscribed to the channel
    moves,
    channel,     \* events the listener has not taken yet
    cast,        \* the broadcast under way, or None
    count,       \* events published, the last one's id
    log          \* the ids each peer has received

sockets == <<life, failed, asks>>
registry == <<agents, byConv, meta>>
bus == <<listening, channel>>
pushVars == <<sockets, registry, bus, moves, cast, count, log>>

PushInit ==
    /\ life = [s \in Sockets |-> "new"]
    /\ failed = {}
    /\ asks = [s \in Visitors |-> None]
    /\ agents = [s \in Agents |-> 0]
    /\ byConv = [c \in Conversations |-> [s \in Visitors |-> 0]]
    /\ meta = [s \in Visitors |-> {}]
    /\ listening = TRUE /\ channel = <<>>
    /\ cast = None /\ count = 0 /\ moves = 0
    /\ log = [s \in Sockets |-> <<>>]

-----------------------------------------------------------------------------
(* ConnectionManager.  A definition named X_Fault is X with one plausible    *)
(* bug, which no action uses.                                                *)

(* subscribe_visitor, which also puts back a socket that was disconnected.   *)
Subscribed_Blind(s, c) ==
    /\ meta' = [meta EXCEPT ![s] = @ \cup {c}]
    /\ byConv' = [byConv EXCEPT ![c][s] = @ + 1]
Subscribed(s, c) ==
    /\ meta' = [meta EXCEPT ![s] = @ \cup {c}]
    /\ byConv' = [byConv EXCEPT ![c][s] = IF @ = 0 THEN 1 ELSE @]

(* list.remove, where the socket is in the list. *)
OneLess(n) == IF n = 0 THEN 0 ELSE n - 1

(* disconnect, of every socket in gone. *)
Disconnected_AgentsOnly(gone) ==
    /\ agents' = [s \in Agents |-> IF s \in gone THEN OneLess(agents[s]) ELSE agents[s]]
    /\ UNCHANGED <<byConv, meta>>
Disconnected(gone) ==
    /\ agents' = [s \in Agents |-> IF s \in gone THEN OneLess(agents[s]) ELSE agents[s]]
    /\ byConv' = [c \in Conversations |-> [s \in Visitors |->
                      IF s \in gone /\ c \in meta[s] THEN OneLess(byConv[c][s])
                      ELSE byConv[c][s]]]
    /\ meta' = [s \in Visitors |-> IF s \in gone THEN {} ELSE meta[s]]

-----------------------------------------------------------------------------
(* The socket handlers *)

Move == moves < MaxMoves /\ moves' = moves + 1

ConnectAgent(s) ==
    /\ life[s] = "new"
    /\ Move
    /\ life' = [life EXCEPT ![s] = "open"]
    /\ agents' = [agents EXCEPT ![s] = @ + 1]
    /\ UNCHANGED <<failed, asks, byConv, meta, bus, cast, count, log>>

(* websocket_public with a visitor token that names the conversation c, if    *)
(* any; once it is open the page subscribes to the conversation a it shows.  *)
ConnectVisitor(s, c, a) ==
    /\ life[s] = "new"
    /\ Move
    /\ life' = [life EXCEPT ![s] = "open"]
    /\ asks' = [asks EXCEPT ![s] = a]
    /\ meta' = [meta EXCEPT ![s] = {c} \ {None}]
    /\ byConv' = IF c = None THEN byConv ELSE [byConv EXCEPT ![c][s] = @ + 1]
    /\ UNCHANGED <<failed, agents, bus, cast, count, log>>

(* The peer closes its socket or is cut off; it does not connect again. *)
Leave(s) ==
    /\ life[s] = "open"
    /\ Move
    /\ life' = [life EXCEPT ![s] = "left"]
    /\ UNCHANGED <<failed, asks, registry, bus, cast, count, log>>

(* A subscribe message may be read after the peer has left.  Where a send    *)
(* has failed meanwhile, reading on raises an error that ends the handler    *)
(* without disconnect.                                                       *)
Subscribe(s) ==
    /\ life[s] \in {"open", "left"} /\ asks[s] # None
    /\ Subscribed(s, asks[s])
    /\ asks' = [asks EXCEPT ![s] = None]
    /\ life' = [life EXCEPT ![s] = IF s \in failed THEN "over" ELSE @]
    /\ UNCHANGED <<failed, agents, bus, cast, count, log, moves>>

(* WebSocketDisconnect *)
Notice(s) ==
    /\ life[s] = "left" /\ (s \in Visitors => asks[s] = None)
    /\ life' = [life EXCEPT ![s] = "over"]
    /\ Disconnected({s})
    /\ UNCHANGED <<failed, asks, bus, cast, count, log, moves>>

-----------------------------------------------------------------------------
(* The bus and the listener *)

(* EventBus.publish: pub/sub keeps nothing for a listener that is away, and  *)
(* a bus that never reached Redis does without.                              *)
Publish(about) ==
    /\ count < MaxEvents
    /\ count' = count + 1
    /\ channel' \in {channel} \cup
          (IF listening THEN {Append(channel, [id |-> count + 1, about |-> about])} ELSE {})
    /\ UNCHANGED <<sockets, registry, listening, cast, log, moves>>

ListenerLost ==
    /\ listening /\ Move
    /\ listening' = FALSE /\ channel' = <<>>
    /\ UNCHANGED <<sockets, registry, cast, count, log>>
ListenerBack ==
    /\ ~listening
    /\ listening' = TRUE
    /\ UNCHANGED <<sockets, registry, channel, cast, count, log, moves>>

-----------------------------------------------------------------------------
(* broadcast: first to everybody in the agents' lists as they are when it    *)
(* begins, then to the conversation's visitors as they are by then.  `over`  *)
(* remembers the sockets that were over by then, for BroadcastSweeps.        *)

Served == \A s \in Sockets : cast.todo[s] = 0

StartBroadcast ==
    /\ cast = None /\ channel # <<>>
    /\ cast' = [event |-> Head(channel), phase |-> "agents",
                todo |-> [s \in Sockets |-> IF s \in Agents THEN agents[s] ELSE 0],
                dead |-> {}, over |-> {}]
    /\ channel' = Tail(channel)
    /\ UNCHANGED <<sockets, registry, listening, count, log, moves>>

(* send_json: to a peer that has left it may fail, after that it does. *)
Fails(s) == {life[s] = "over"} \cup (IF life[s] = "left" THEN BOOLEAN ELSE {})

Sends(s) ==
    /\ cast # None /\ cast.todo[s] > 0
    /\ \E fails \in Fails(s) :
          /\ cast' = [cast EXCEPT !.todo[s] = @ - 1,
                                  !.dead = IF fails THEN @ \cup {s} ELSE @]
          /\ failed' = IF fails THEN failed \cup {s} ELSE failed
          /\ log' = IF life[s] = "open" THEN [log EXCEPT ![s] = Append(@, cast.event.id)] ELSE log
    /\ UNCHANGED <<life, asks, registry, bus, count, moves>>

ToVisitors ==
    /\ cast # None /\ cast.phase = "agents" /\ Served
    /\ cast' = [cast EXCEPT
          !.phase = "visitors",
          !.todo = [s \in Sockets |->
                        IF s \in Visitors /\ cast.event.about \in Conversations
                        THEN byConv[cast.event.about][s] ELSE 0],
          !.over = {s \in Sockets : life[s] = "over"}]
    /\ UNCHANGED <<sockets, registry, bus, count, log, moves>>

EndBroadcast ==
    /\ cast # None /\ cast.phase = "visitors" /\ Served
    /\ Disconnected(cast.dead)
    /\ cast' = None
    /\ UNCHANGED <<sockets, bus, count, log, moves>>

PushProgress ==
    \/ StartBroadcast \/ ToVisitors \/ EndBroadcast \/ ListenerBack

-----------------------------------------------------------------------------
(* Properties *)

(* Every peer receives an event once at most and in the order of the         *)
(* channel, although a page subscribes to the conversation its token already *)
(* names, and sockets register while a broadcast runs.                       *)
OnceInOrder ==
    \A s \in Sockets : \A i, j \in DOMAIN log[s] : i < j => log[s][i] < log[s][j]

(* A socket whose handler died without disconnect, or that a late subscribe  *)
(* put back, does not outlive the next broadcast for its conversation: the   *)
(* registry does not fill up with dead sockets.                              *)
BroadcastSweeps ==
    [][cast # None /\ cast' = None /\ cast.event.about \in Conversations =>
          \A s \in cast.over : s \in Visitors => byConv'[cast.event.about][s] = 0]_pushVars
=============================================================================
