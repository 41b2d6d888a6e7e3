-------------------------------- MODULE VizHub --------------------------------
(***************************************************************************)
(* One session's client (visualization/hub_client.py), the hub it reports  *)
(* to and the browsers that watch it (visualization/hub.py).               *)
(*                                                                         *)
(* The client dials out, registers, forwards the events of the session's   *)
(* bus through a bounded queue and answers the hub's reads; a socket may   *)
(* be lost under it and the hub may go down.  What is on a lost socket the *)
(* hub reads in part or not at all, and it learns of the loss later.       *)
(***************************************************************************)
EXTENDS Integers, Sequences

CONSTANTS
    Graphs,
    Home,           \* the graph the session was started on
    Browsers,
    Callers,        \* HTTP reads the hub passes on to the session
    QueueMax,       \* _QUEUE_MAXSIZE
    LogCapacity,    \* LOG_RING_CAPACITY
    RecordCapacity, \* RETRIEVAL_RING_CAPACITY
    MaxEvents,      \* bound: events published, switches included
    MaxSockets,     \* bound: connections made
    MaxCrashes,     \* bound: times the hub goes down
    NoSocket, NoQueue, NoSlot

Sockets == 1..MaxSockets
Rings == {"act", "record"}
Capacity == [act |-> LogCapacity, record |-> RecordCapacity]

\* What the client and the hub send, and what the hub keeps of a session.
Message == [kind : Rings \cup {"switched", "register", "answer"}, id : 0..MaxEvents \cup Callers, graph : Graphs]
SlotRecord == [socket : Sockets, graph : Graphs, connected : BOOLEAN, rings : [Rings -> Seq(Message)]]

ASSUME HubAssumption ==
    /\ Home \in Graphs
    /\ QueueMax \in Nat \ {0} /\ LogCapacity \in Nat /\ RecordCapacity \in Nat
    /\ MaxEvents \in Nat /\ MaxSockets \in Nat /\ MaxCrashes \in Nat
    /\ NoSocket \notin Sockets /\ Callers \cap (0..MaxEvents) = {}
    /\ NoQueue \notin Seq(Message) /\ NoSlot \notin SlotRecord

VARIABLES
    graph,      \* the session's active graph
    info,       \* state["info"].active_graph, what the client registers with
    queue,      \* state["queue"], or NoQueue while there is no connection
    socket,     \* the client's open socket, or NoSocket
    dialled,    \* sockets opened so far
    published,  \* events published so far
    hubUp,      \* the hub's process runs
    wire,       \* what each socket carries to the hub, unread
    reading,    \* the sockets a handler of the hub reads
    slot,       \* sessions[sid]: the session as the hub knows it
    timers,     \* the drop timers armed, by the socket whose loss armed each
    browser,    \* each browser's connection to the hub
    asked,      \* the socket each caller waits for an answer on, and whether one was sent
    crashes

session == <<graph, info, queue, socket, dialled, published>>
hub == <<hubUp, reading, slot, timers>>
vars == <<session, hub, wire, browser, asked, crashes>>

Away == [at |-> "away", graphs |-> {}, todo |-> <<>>, sent |-> {}]

\* A caller asks once, and is done with an answer, an error or its timeout.
Idle == [on |-> NoSocket, sent |-> FALSE]
Done == [on |-> NoSocket, sent |-> TRUE]

Init ==
    /\ graph = Home /\ info = Home
    /\ queue = NoQueue /\ socket = NoSocket /\ dialled = 0 /\ published = 0
    /\ hubUp \in BOOLEAN
    /\ wire = [k \in Sockets |-> <<>>] /\ reading = {}
    /\ slot = NoSlot /\ timers = {}
    /\ browser = [b \in Browsers |-> Away]
    /\ asked = [c \in Callers |-> Idle]
    /\ crashes = 0

-------------------------------------------------------------------------------
(* The session's client.                                                     *)

\* _on_event: an event is queued while there is a queue with room, else dropped.
Publish(event) ==
    /\ published < MaxEvents
    /\ published' = published + 1
    /\ queue' = IF queue # NoQueue /\ Len(queue) < QueueMax THEN Append(queue, event) ELSE queue
    /\ UNCHANGED <<info, socket, dialled, hub, wire, browser, asked, crashes>>

\* A tool's act or its response, each kept in a ring of its own.
PublishEvent(kind) ==
    /\ Publish([kind |-> kind, id |-> published + 1, graph |-> graph])
    /\ UNCHANGED graph

SwitchGraph(g) ==
    /\ g # graph
    /\ Publish([kind |-> "switched", id |-> published + 1, graph |-> g])
    /\ graph' = g

\* _run: the queue is there before the connection is ...
Dial ==
    /\ queue = NoQueue
    /\ queue' = <<>>
    /\ UNCHANGED <<graph, info, socket, dialled, published, hub, wire, browser, asked, crashes>>

\* ... and goes with it.
DialFails ==
    /\ ~hubUp
    /\ queue # NoQueue /\ socket = NoSocket
    /\ queue' = NoQueue
    /\ UNCHANGED <<graph, info, socket, dialled, published, hub, wire, browser, asked, crashes>>

\* Mutant: the timer of the slot taken over is left armed.
TakesOverArmed(k) == timers

\* handle_ingest, of a session it knows: the pending drop is cancelled.
TakesOver(k) == IF slot = NoSlot THEN timers ELSE timers \ {slot.socket}

\* The slot a Register makes; the rings of the slot before it are kept.
Slot(k) == [socket |-> k, graph |-> info, connected |-> TRUE,
            rings |-> IF slot = NoSlot THEN [r \in Rings |-> <<>>] ELSE slot.rings]

\* A connection: the client registers first, and the hub reads that before anything
\* of a later connection.
Connect ==
    /\ hubUp
    /\ queue # NoQueue /\ socket = NoSocket
    /\ dialled < MaxSockets
    /\ LET k == dialled + 1
       IN /\ dialled' = k /\ socket' = k
          /\ reading' = reading \cup {k}
          /\ slot' = Slot(k)
          /\ timers' = TakesOver(k)
    /\ UNCHANGED <<graph, info, queue, published, hubUp, wire, browser, asked, crashes>>

\* _sender: an event taken from the queue is sent, after a Register where it is a switch.
Send ==
    /\ socket # NoSocket /\ queue # <<>>
    /\ LET event == Head(queue)
           register == [kind |-> "register", id |-> 0, graph |-> event.graph]
       IN /\ wire' = [wire EXCEPT ![socket] =
                        @ \o (IF event.kind = "switched" THEN <<register, event>> ELSE <<event>>)]
          /\ info' = IF event.kind = "switched" THEN event.graph ELSE info
    /\ queue' = Tail(queue)
    /\ UNCHANGED <<graph, socket, dialled, published, hub, browser, asked, crashes>>

\* The socket is lost, and the queue with it.
LoseSocket ==
    /\ socket # NoSocket
    /\ dialled < MaxSockets
    /\ socket' = NoSocket /\ queue' = NoQueue
    /\ UNCHANGED <<graph, info, dialled, published, hub, wire, browser, asked, crashes>>

\* _handle_rpc answers on the socket the request came by.
AnswerRead(c) ==
    /\ socket # NoSocket
    /\ asked[c] = [on |-> socket, sent |-> FALSE]
    /\ asked' = [asked EXCEPT ![c].sent = TRUE]
    /\ wire' = [wire EXCEPT ![socket] = Append(@, [kind |-> "answer", id |-> c, graph |-> graph])]
    /\ UNCHANGED <<session, hub, browser, crashes>>

-------------------------------------------------------------------------------
(* The hub, and the sockets of the session it reads.                         *)

\* remember, in ring.py.
Remember(ring, item, capacity) ==
    LET all == Append(ring, item)
    IN SubSeq(all, 1 + (IF Len(all) > capacity THEN Len(all) - capacity ELSE 0), Len(all))

Subscribed(b, event) == event.graph \in browser[b].graphs

\* Mutant: a browser that is still replaying is left to its backlog.
ReachesLive(b, event) == browser[b].at = "live" /\ Subscribed(b, event)

\* The live path asks what the replay asks, whether or not a replay is on.
Reaches(b, event) == Subscribed(b, event)

\* _broadcast_event.
Fanout(event) ==
    browser' = [b \in Browsers |->
        IF Reaches(b, event) THEN [browser[b] EXCEPT !.sent = @ \cup {event.id}] ELSE browser[b]]

\* A message is read from a socket, whichever slot the session has now.
Read(k) ==
    /\ k \in reading /\ wire[k] # <<>> /\ slot # NoSlot
    /\ LET message == Head(wire[k])
       IN /\ CASE message.kind \in Rings ->
                    /\ slot' = [slot EXCEPT !.rings[message.kind] =
                                  Remember(@, message, Capacity[message.kind])]
                    /\ Fanout(message)
                    /\ UNCHANGED asked
               [] message.kind = "register" ->
                    /\ slot' = [slot EXCEPT !.graph = message.graph]
                    /\ UNCHANGED <<browser, asked>>
               [] message.kind = "answer" ->
                    /\ asked' = IF asked[message.id].on = slot.socket
                                THEN [asked EXCEPT ![message.id] = Done] ELSE asked
                    /\ UNCHANGED <<slot, browser>>
               [] OTHER -> UNCHANGED <<slot, browser, asked>>
          /\ wire' = [wire EXCEPT ![k] = Tail(@)]
    /\ UNCHANGED <<session, hubUp, reading, timers, crashes>>

\* Mutant: whichever socket of the session closes, its slot is disconnected.
DisconnectsAny(k) == slot # NoSlot

\* Only the socket the slot is registered under disconnects it.
Disconnects(k) == slot # NoSlot /\ slot.socket = k

\* _mark_disconnected, when the hub learns that a socket is lost: the reads pending are failed and the session is to be dropped.
SeeClosed(k) ==
    /\ k \in reading
    /\ k # socket
    /\ reading' = reading \ {k}
    /\ wire' = [wire EXCEPT ![k] = <<>>]
    /\ IF Disconnects(k)
       THEN /\ slot' = [slot EXCEPT !.connected = FALSE]
            /\ timers' = timers \cup {slot.socket}
            /\ asked' = [c \in Callers |-> IF asked[c].on = slot.socket THEN Done ELSE asked[c]]
       ELSE UNCHANGED <<slot, timers, asked>>
    /\ UNCHANGED <<session, hubUp, browser, crashes>>

\* _drop, when the grace is over.
Drop(k) ==
    /\ k \in timers
    /\ timers' = timers \ {k}
    /\ slot' = IF slot # NoSlot /\ ~slot.connected THEN NoSlot ELSE slot
    /\ UNCHANGED <<session, hubUp, reading, wire, browser, asked, crashes>>

\* Mutant: a read is passed on to a session that is listed but gone.
ReachableListed == slot # NoSlot

\* _rpc refuses a session that is not connected.
Reachable == slot # NoSlot /\ slot.connected

AskSession(c) ==
    /\ Reachable
    /\ asked[c] = Idle
    /\ asked' = [asked EXCEPT ![c].on = slot.socket]
    /\ UNCHANGED <<session, hub, wire, browser, crashes>>

\* RPC_TIMEOUT_SECONDS.
GiveUp(c) ==
    /\ asked[c].on # NoSocket
    /\ asked' = [asked EXCEPT ![c] = Done]
    /\ UNCHANGED <<session, hub, wire, browser, crashes>>

-------------------------------------------------------------------------------
(* The browsers.                                                             *)

Ring(r) == IF slot = NoSlot THEN <<>> ELSE slot.rings[r]

\* handle_browser: the subscription stands before the backlog is read.
Subscription(b, gs) == [Away EXCEPT !.at = "act", !.graphs = gs, !.todo = Ring("act")]

Subscribe(b, gs) ==
    /\ hubUp
    /\ browser[b].at \in {"away", "live"}
    /\ browser' = [browser EXCEPT ![b] = Subscription(b, gs)]
    /\ UNCHANGED <<session, hub, wire, asked, crashes>>

\* _replay, an entry at a time, the ring of acts and then that of records, each read
\* when its turn comes.
Replay(b) ==
    /\ browser[b].at \in Rings
    /\ browser' = [browser EXCEPT ![b] =
         IF browser[b].todo # <<>> THEN [browser[b] EXCEPT !.todo = Tail(@),
              !.sent = @ \cup (IF Subscribed(b, Head(browser[b].todo))
                               THEN {Head(browser[b].todo).id} ELSE {})]
         ELSE IF browser[b].at = "act"
              THEN [browser[b] EXCEPT !.at = "record", !.todo = Ring("record")]
              ELSE [browser[b] EXCEPT !.at = "live"]]
    /\ UNCHANGED <<session, hub, wire, asked, crashes>>

Close(b) ==
    /\ browser[b].at # "away"
    /\ browser' = [browser EXCEPT ![b] = Away]
    /\ UNCHANGED <<session, hub, wire, asked, crashes>>

\* The hub goes down, with all it holds ...
Crash ==
    /\ hubUp /\ crashes < MaxCrashes /\ dialled < MaxSockets
    /\ crashes' = crashes + 1
    /\ hubUp' = FALSE
    /\ reading' = {} /\ slot' = NoSlot /\ timers' = {}
    /\ wire' = [k \in Sockets |-> <<>>]
    /\ browser' = [b \in Browsers |-> Away]
    /\ asked' = [c \in Callers |-> IF asked[c] = Idle THEN Idle ELSE Done]
    /\ UNCHANGED session

\* ... and is started again, by a person or by another session.
Start ==
    /\ ~hubUp
    /\ socket = NoSocket
    /\ hubUp' = TRUE
    /\ UNCHANGED <<session, reading, slot, timers, wire, browser, asked, crashes>>

Client == Dial \/ DialFails \/ Connect \/ Send
Handler(k) == Read(k) \/ SeeClosed(k)

Next ==
    \/ \E kind \in Rings : PublishEvent(kind)
    \/ \E g \in Graphs : SwitchGraph(g)
    \/ Dial \/ DialFails \/ Connect \/ Send \/ LoseSocket
    \/ \E k \in Sockets : Read(k) \/ SeeClosed(k) \/ Drop(k)
    \/ \E c \in Callers : AskSession(c) \/ AnswerRead(c) \/ GiveUp(c)
    \/ \E b \in Browsers :
          \/ \E gs \in {{Home}, Graphs} : Subscribe(b, gs)
          \/ Replay(b) \/ Close(b)
    \/ Crash \/ Start

Spec == Init /\ [][Next]_vars

\* The client dials for ever and sends what is queued, a socket of a hub that is down
\* is lost, and each handler of the hub reads what there is and learns of a loss.
Fairness ==
    /\ WF_vars(Client)
    /\ WF_vars(~hubUp /\ LoseSocket)
    /\ \A k \in Sockets : WF_vars(Handler(k))

FairSpec == Spec /\ Fairness
-------------------------------------------------------------------------------
(* Properties.                                                               *)

\* The variables have their types, and the queue and the rings stay within their bounds.
TypeOK ==
    /\ graph \in Graphs /\ info \in Graphs
    /\ queue # NoQueue => queue \in Seq(Message) /\ Len(queue) <= QueueMax
    /\ socket \in Sockets \cup {NoSocket}
    /\ wire \in [Sockets -> Seq(Message)] /\ reading \subseteq Sockets /\ timers \subseteq Sockets
    /\ slot # NoSlot =>
          /\ slot.socket \in Sockets /\ slot.graph \in Graphs /\ slot.connected \in BOOLEAN
          /\ \A r \in Rings : slot.rings[r] \in Seq(Message) /\ Len(slot.rings[r]) <= Capacity[r]
    /\ asked \in [Callers -> [on : Sockets \cup {NoSocket}, sent : BOOLEAN]]

\* A browser that opens on a running session misses nothing: once its backlog is sent
\* it has been sent every entry of the rings it is subscribed to, those that arrived
\* while it was being sent the backlog included.
BrowsersMissNothing ==
    \A b \in Browsers : browser[b].at = "live" =>
        \A r \in Rings : \A i \in DOMAIN Ring(r) :
            Subscribed(b, Ring(r)[i]) => Ring(r)[i].id \in browser[b].sent

\* "Fail any in-flight RPCs so callers get a prompt error, not a timeout": no read waits
\* on the socket of a session the hub knows to be disconnected.
NoReadWaitsOnTheGone ==
    \A c \in Callers : slot # NoSlot /\ asked[c].on = slot.socket => slot.connected

\* A slot is taken for disconnected only when its own socket is lost, and dropped only
\* by the timer that loss armed: a reconnect keeps the session listed, and a later loss
\* has the whole of its grace.
GraceIsKept ==
    [][slot # NoSlot /\ hubUp' =>
          IF slot' = NoSlot THEN slot.socket \in timers \ timers' /\ ~slot.connected
          ELSE slot'.socket = slot.socket /\ slot.connected /\ ~slot'.connected
               => slot.socket \in reading \ reading']_vars

\* "A reconnecting session keeps both rings": what was kept before a reconnect is there
\* after it.
RingsSurvive ==
    [][slot # NoSlot /\ slot' # NoSlot /\ slot'.socket # slot.socket => slot'.rings = slot.rings]_vars

\* With the hub up from some time on, the session is listed as connected from some time
\* on, however often its socket was lost.
SessionIsListed == <>[]hubUp => <>[](slot # NoSlot /\ slot.connected)

\* The shape of the state with its bounds, and who waits on whom.
HubIsSound == TypeOK /\ NoReadWaitsOnTheGone

\* A session outlives its socket, with what was kept of it.
SessionOutlivesItsSocket == GraceIsKept /\ RingsSurvive
===============================================================================
