----------------------------- MODULE VizHubProofs -----------------------------
(***************************************************************************)
(* For any graphs, browsers, callers, capacities and number of sockets: the *)
(* session outlives its socket, no read waits on a session that is gone,   *)
(* and a browser that has its backlog has been sent all that is kept.      *)
(***************************************************************************)
EXTENDS VizHub, SequenceTheorems, TLAPS

USE HubAssumption DEF Capacity, session, hub, vars

Ids == 0..MaxEvents \cup Callers
BrowserRecord == [at : {"away", "act", "record", "live"}, graphs : SUBSET Graphs,
                  todo : Seq(Message), sent : SUBSET Ids]

\* What the variables' types leave out, and that a client with a socket has its queue.
HubTypes ==
    /\ TypeOK
    /\ dialled \in 0..MaxSockets /\ published \in 0..MaxEvents
    /\ slot \in SlotRecord \cup {NoSlot}
    /\ browser \in [Browsers -> BrowserRecord]
    /\ socket # NoSocket => queue # NoQueue

\* The one drop timer that may be armed is that of a session known to have lost its socket.
OneTimer == timers # {} => slot # NoSlot /\ ~slot.connected /\ timers = {slot.socket}

\* What a browser has been sent, or is about to be.
Due(b, message) ==
    Subscribed(b, message) =>
        \/ message.id \in browser[b].sent
        \/ \E i \in DOMAIN browser[b].todo : browser[b].todo[i] = message

Sent(b, message) == Subscribed(b, message) => message.id \in browser[b].sent

\* What is kept of the session that matters to a browser at each stage of its replay.
BacklogCovers ==
    \A b \in Browsers :
        /\ browser[b].at = "act" => \A i \in DOMAIN Ring("act") : Due(b, Ring("act")[i])
        /\ browser[b].at \in {"record", "live"} =>
              \A i \in DOMAIN Ring("act") : Sent(b, Ring("act")[i])
        /\ browser[b].at = "record" => \A i \in DOMAIN Ring("record") : Due(b, Ring("record")[i])
        /\ browser[b].at = "live" => \A i \in DOMAIN Ring("record") : Sent(b, Ring("record")[i])

HubInv ==
    /\ HubTypes
    /\ OneTimer
    /\ NoReadWaitsOnTheGone
    /\ BacklogCovers
--------------------------------------------------------------------------------
(* Rings and queues.                                                         *)

\* A ring that remembers one thing more keeps its capacity and invents nothing.
LEMMA RememberIs ==
    ASSUME NEW S, NEW ring \in Seq(S), NEW item \in S, NEW capacity \in Nat
    PROVE  /\ Remember(ring, item, capacity) \in Seq(S)
           /\ Len(Remember(ring, item, capacity)) <= capacity
           /\ \A i \in DOMAIN Remember(ring, item, capacity) :
                 \/ Remember(ring, item, capacity)[i] = item
                 \/ \E j \in DOMAIN ring : Remember(ring, item, capacity)[i] = ring[j]
<1> DEFINE all == Append(ring, item)
           first == 1 + (IF Len(all) > capacity THEN Len(all) - capacity ELSE 0)
<1>1. /\ all \in Seq(S) /\ Len(all) = Len(ring) + 1 /\ Len(ring) \in Nat
      /\ DOMAIN ring = 1..Len(ring)
      /\ \A i \in 1..Len(all) : all[i] = item \/ \E j \in DOMAIN ring : all[i] = ring[j]
    BY AppendProperties
<1>2. Remember(ring, item, capacity) = SubSeq(all, first, Len(all))
    BY DEF Remember
<1> HIDE DEF all
<1>3. first \in 1..(Len(all) + 1) /\ Len(all) - first + 1 <= capacity /\ Len(all) \in Nat
    BY <1>1
<1> HIDE DEF first
<1>4. \A i \in first..Len(all) : all[i] \in S
    BY <1>1, <1>3, ElementOfSeq
<1>5. /\ SubSeq(all, first, Len(all)) \in Seq(S)
      /\ Len(SubSeq(all, first, Len(all))) = IF first <= Len(all) THEN Len(all) - first + 1 ELSE 0
      /\ \A i \in 1..(Len(all) - first + 1) : SubSeq(all, first, Len(all))[i] = all[first + i - 1]
    BY <1>3, <1>4, SubSeqProperties
<1>6. DOMAIN SubSeq(all, first, Len(all)) = 1..(Len(all) - first + 1)
    BY <1>3, <1>5
<1>7. ASSUME NEW i \in 1..(Len(all) - first + 1) PROVE first + i - 1 \in 1..Len(all)
    BY <1>3
<1> QED BY <1>1, <1>2, <1>3, <1>5, <1>6, <1>7

LEMMA RingTypes ==
    ASSUME HubTypes, slot # NoSlot
    PROVE  /\ slot.socket \in Sockets /\ slot.graph \in Graphs /\ slot.connected \in BOOLEAN
           /\ slot.rings \in [Rings -> Seq(Message)]
           /\ \A r \in Rings : slot.rings[r] \in Seq(Message) /\ Len(slot.rings[r]) <= Capacity[r]
BY DEF HubTypes, TypeOK, SlotRecord

\* The hub just started, or not yet, and the client before it dials.
LEMMA InitHub == Init => HubInv
<1> SUFFICES ASSUME Init PROVE HubInv
    OBVIOUS
<1>1. Away \in BrowserRecord
    BY EmptySeq DEF Away, BrowserRecord
<1>2. TypeOK
    BY EmptySeq DEF Init, TypeOK, Idle
<1>3. HubTypes
    BY <1>1, <1>2 DEF Init, HubTypes
<1>4. OneTimer /\ NoReadWaitsOnTheGone
    BY DEF Init, OneTimer, NoReadWaitsOnTheGone
<1>5. BacklogCovers
    BY DEF Init, BacklogCovers, Away
<1> QED BY <1>3, <1>4, <1>5 DEF HubInv

--------------------------------------------------------------------------------
(* The types, an action at a time.                                           *)

LEMMA PublishTypes ==
    ASSUME HubTypes, (\E kind \in Rings : PublishEvent(kind)) \/ (\E g \in Graphs : SwitchGraph(g))
    PROVE  HubTypes'
<1>1. PICK event \in Message : Publish(event) /\ graph' \in Graphs
  <2>1. ASSUME NEW kind \in Rings, PublishEvent(kind)
        PROVE  \E event \in Message : Publish(event) /\ graph' \in Graphs
    <3>1. [kind |-> kind, id |-> published + 1, graph |-> graph] \in Message
        BY <2>1 DEF PublishEvent, Publish, Message, HubTypes, TypeOK
    <3> QED BY <2>1, <3>1 DEF PublishEvent, HubTypes, TypeOK
  <2>2. ASSUME NEW g \in Graphs, SwitchGraph(g)
        PROVE  \E event \in Message : Publish(event) /\ graph' \in Graphs
    <3>1. [kind |-> "switched", id |-> published + 1, graph |-> g] \in Message
        BY <2>2 DEF SwitchGraph, Publish, Message, HubTypes, TypeOK
    <3> QED BY <2>2, <3>1 DEF SwitchGraph
  <2> QED BY <2>1, <2>2
<1>2. queue' # NoQueue => queue # NoQueue /\ queue' \in Seq(Message) /\ Len(queue') <= QueueMax
  <2>1. CASE queue # NoQueue /\ Len(queue) < QueueMax
    <3>1. queue' = Append(queue, event) /\ queue \in Seq(Message)
        BY <1>1, <2>1 DEF Publish, HubTypes, TypeOK
    <3>2. queue' \in Seq(Message) /\ Len(queue') = Len(queue) + 1 /\ Len(queue) \in Nat
        BY <3>1, AppendProperties
    <3> QED BY <2>1, <3>2
  <2>2. CASE ~(queue # NoQueue /\ Len(queue) < QueueMax)
      BY <1>1, <2>2 DEF Publish, HubTypes, TypeOK
  <2> QED BY <2>1, <2>2
<1>3. queue # NoQueue => queue' # NoQueue
  <2>1. ASSUME queue # NoQueue PROVE queue' \in Seq(Message)
      BY <1>1, <2>1, AppendProperties DEF Publish, HubTypes, TypeOK
  <2> QED BY <2>1
<1>4. TypeOK'
    BY <1>1, <1>2 DEF Publish, HubTypes, TypeOK
<1> QED BY <1>1, <1>3, <1>4 DEF Publish, HubTypes

LEMMA ClientTypes ==
    ASSUME HubTypes, Dial \/ DialFails \/ LoseSocket
    PROVE  HubTypes'
<1>1. queue' # NoQueue => queue' \in Seq(Message) /\ Len(queue') <= QueueMax
  <2>1. <<>> \in Seq(Message) /\ Len(<<>>) <= QueueMax
      OBVIOUS
  <2> QED BY <2>1 DEF Dial, DialFails, LoseSocket
<1>2. TypeOK'
    BY <1>1 DEF Dial, DialFails, LoseSocket, HubTypes, TypeOK
<1>3. socket' # NoSocket => queue' # NoQueue
    BY EmptySeq DEF Dial, DialFails, LoseSocket, HubTypes
<1> QED BY <1>2, <1>3 DEF Dial, DialFails, LoseSocket, HubTypes

\* What a Register makes of the slot.
LEMMA SlotIs ==
    ASSUME HubTypes, Connect
    PROVE  /\ slot' \in SlotRecord /\ slot' # NoSlot
           /\ slot'.socket = dialled + 1 /\ slot'.graph = info /\ slot'.connected
           /\ \A r \in Rings : slot'.rings[r] = Ring(r)
<1>1. CASE slot = NoSlot
  <2>1. slot' = [socket |-> dialled + 1, graph |-> info, connected |-> TRUE, rings |-> [r \in Rings |-> <<>>]]
      BY <1>1 DEF Connect, Slot
  <2>2. dialled + 1 \in Sockets /\ info \in Graphs /\ <<>> \in Seq(Message)
      BY EmptySeq DEF Connect, HubTypes, TypeOK, Sockets
  <2>3. slot' \in SlotRecord
      BY <2>1, <2>2 DEF SlotRecord
  <2>4. \A r \in Rings : slot'.rings[r] = <<>> /\ Ring(r) = <<>>
      BY <1>1, <2>1 DEF Ring
  <2> QED BY <2>1, <2>3, <2>4
<1>2. CASE slot # NoSlot
  <2>1. slot' = [socket |-> dialled + 1, graph |-> info, connected |-> TRUE, rings |-> slot.rings]
      BY <1>2 DEF Connect, Slot
  <2>2. dialled + 1 \in Sockets /\ info \in Graphs
      BY DEF Connect, HubTypes, TypeOK, Sockets
  <2>3. slot.rings \in [Rings -> Seq(Message)]
      BY <1>2, RingTypes
  <2>4. slot' \in SlotRecord
      BY <2>1, <2>2, <2>3 DEF SlotRecord
  <2>5. \A r \in Rings : slot'.rings[r] = Ring(r)
      BY <1>2, <2>1 DEF Ring
  <2> QED BY <2>1, <2>4, <2>5
<1> QED BY <1>1, <1>2

LEMMA ConnectTypes ==
    ASSUME HubTypes, Connect
    PROVE  HubTypes'
<1>1. \A r \in Rings : slot'.rings[r] \in Seq(Message) /\ Len(slot'.rings[r]) <= Capacity[r]
  <2>1. \A r \in Rings : Ring(r) \in Seq(Message) /\ Len(Ring(r)) <= Capacity[r]
      BY RingTypes, EmptySeq DEF Ring, Rings
  <2> QED BY <2>1, SlotIs
<1>2. slot'.socket \in Sockets /\ slot'.graph \in Graphs /\ slot'.connected \in BOOLEAN
    BY SlotIs DEF SlotRecord
<1>3. dialled' = dialled + 1 /\ socket' = dialled' /\ dialled' \in Sockets
    BY DEF Connect, HubTypes, Sockets
<1>4. timers' \subseteq timers /\ reading' = reading \cup {dialled'}
    BY DEF Connect, TakesOver
<1>5. TypeOK'
    BY <1>1, <1>2, <1>3, <1>4 DEF Connect, HubTypes, TypeOK
<1> QED BY <1>3, <1>5, SlotIs DEF Connect, HubTypes, Sockets

LEMMA SendTypes ==
    ASSUME HubTypes, Send
    PROVE  HubTypes'
<1>1. queue \in Seq(Message) /\ queue # <<>> /\ Len(queue) <= QueueMax /\ socket \in Sockets
    BY DEF Send, HubTypes, TypeOK
<1>2. Head(queue) \in Message /\ Tail(queue) \in Seq(Message) /\ Len(Tail(queue)) <= QueueMax
    BY <1>1, HeadTailProperties
<1>3. queue' \in Seq(Message) /\ Len(queue') <= QueueMax /\ queue' # NoQueue
    BY <1>2 DEF Send
<1>4. PICK sent \in Seq(Message) : wire' = [wire EXCEPT ![socket] = @ \o sent]
  <2> DEFINE event == Head(queue)
             register == [kind |-> "register", id |-> 0, graph |-> event.graph]
  <2>1. register \in Message
      BY <1>2 DEF Message
  <2>2. <<register, event>> \in Seq(Message) /\ <<event>> \in Seq(Message)
      BY <1>2, <2>1
  <2>3. wire' = [wire EXCEPT ![socket] =
                   @ \o (IF event.kind = "switched" THEN <<register, event>> ELSE <<event>>)]
      BY DEF Send
  <2> QED BY <2>2, <2>3
<1>5. wire' \in [Sockets -> Seq(Message)]
    BY <1>1, <1>4, ConcatProperties DEF HubTypes, TypeOK
<1>6. info' \in Graphs
    BY <1>2 DEF Send, Message, HubTypes, TypeOK
<1>7. TypeOK'
    BY <1>3, <1>5, <1>6 DEF Send, HubTypes, TypeOK
<1> QED BY <1>3, <1>7 DEF Send, HubTypes

\* A message read leaves the slot where it is; one that is kept is sent to whom it reaches.
LEMMA ReadIs ==
    ASSUME HubTypes, NEW k \in Sockets, Read(k)
    PROVE  /\ slot' \in SlotRecord /\ slot' # NoSlot
           /\ slot'.socket = slot.socket /\ slot'.connected = slot.connected
           /\ \A r \in Rings : slot'.rings[r] \in Seq(Message) /\ Len(slot'.rings[r]) <= Capacity[r]
           /\ wire' \in [Sockets -> Seq(Message)]
           /\ \/ slot'.rings = slot.rings /\ UNCHANGED browser
              \/ \E message \in Message :
                    /\ Fanout(message)
                    /\ \A r \in Rings : \A i \in DOMAIN slot'.rings[r] :
                          \/ slot'.rings[r][i] = message
                          \/ \E j \in DOMAIN slot.rings[r] : slot'.rings[r][i] = slot.rings[r][j]
           /\ asked' = asked \/ \E c \in Callers : asked' = [asked EXCEPT ![c] = Done]
<1> DEFINE message == Head(wire[k])
<1>1. /\ message \in Message /\ wire' = [wire EXCEPT ![k] = Tail(@)] /\ Tail(wire[k]) \in Seq(Message)
      /\ slot # NoSlot /\ slot \in SlotRecord
    BY HeadTailProperties DEF Read, HubTypes, TypeOK
<1>2. wire' \in [Sockets -> Seq(Message)]
    BY <1>1 DEF HubTypes, TypeOK
<1>3. \/ message.kind \in Rings /\ UNCHANGED asked /\ Fanout(message)
         /\ slot' = [slot EXCEPT !.rings[message.kind] = Remember(@, message, Capacity[message.kind])]
      \/ slot' = [slot EXCEPT !.graph = message.graph] /\ UNCHANGED <<browser, asked>>
      \/ /\ UNCHANGED <<slot, browser>>
         /\ \/ asked' = [asked EXCEPT ![message.id] = Done]
            \/ asked' = asked
    BY DEF Read
<1> HIDE DEF message
<1>4. asked' = asked \/ \E c \in Callers : asked' = [asked EXCEPT ![c] = Done]
  <2> SUFFICES ASSUME asked' = [asked EXCEPT ![message.id] = Done]
               PROVE  asked' = asked \/ \E c \in Callers : asked' = [asked EXCEPT ![c] = Done]
      BY <1>3
  <2>1. CASE message.id \in Callers
      BY <2>1
  <2>2. CASE message.id \notin Callers
      BY <2>2 DEF HubTypes, TypeOK
  <2> QED BY <2>1, <2>2
<1>5. CASE message.kind \in Rings /\ Fanout(message)
           /\ slot' = [slot EXCEPT !.rings[message.kind] = Remember(@, message, Capacity[message.kind])]
  <2> DEFINE r0 == message.kind
             old == slot.rings[r0]
             capacity == Capacity[r0]
             ring == Remember(old, message, capacity)
  <2>1. capacity \in Nat /\ old \in Seq(Message)
      BY <1>1, <1>5, RingTypes DEF Rings
  <2> HIDE DEF old, capacity
  <2>2. /\ ring \in Seq(Message) /\ Len(ring) <= capacity
        /\ \A i \in DOMAIN ring : ring[i] = message \/ \E j \in DOMAIN old : ring[i] = old[j]
      BY <1>1, <2>1, RememberIs
  <2>3. slot' = [slot EXCEPT !.rings = [slot.rings EXCEPT ![r0] = ring]]
      BY <1>1, <1>5 DEF SlotRecord, old, capacity
  <2> HIDE DEF ring
  <2>4. /\ slot'.socket = slot.socket /\ slot'.graph = slot.graph /\ slot'.connected = slot.connected
        /\ slot'.rings = [slot.rings EXCEPT ![r0] = ring] /\ slot.rings \in [Rings -> Seq(Message)]
      BY <1>1, <2>3, RingTypes DEF SlotRecord
  <2>5. slot' \in SlotRecord
    <3> DEFINE rings == [slot.rings EXCEPT ![r0] = ring]
    <3>1. rings \in [Rings -> Seq(Message)]
        BY <2>2, <2>4
    <3> HIDE DEF rings
    <3>2. slot' = [slot EXCEPT !.rings = rings]
        BY <2>3 DEF rings
    <3> QED BY <1>1, <3>1, <3>2 DEF SlotRecord
  <2>6. \A r \in Rings : slot'.rings[r] = IF r = r0 THEN ring ELSE slot.rings[r]
      BY <1>5, <2>4
  <2>7. \A r \in Rings : slot'.rings[r] \in Seq(Message) /\ Len(slot'.rings[r]) <= Capacity[r]
      BY <1>1, <2>2, <2>6, RingTypes DEF capacity
  <2>8. \A r \in Rings : \A i \in DOMAIN slot'.rings[r] :
                          \/ slot'.rings[r][i] = message
                          \/ \E j \in DOMAIN slot.rings[r] : slot'.rings[r][i] = slot.rings[r][j]
      BY <2>2, <2>6 DEF old
  <2> QED BY <1>1, <1>2, <1>4, <1>5, <2>4, <2>5, <2>7, <2>8
<1>6. CASE slot' = [slot EXCEPT !.graph = message.graph] /\ UNCHANGED <<browser, asked>>
  <2>1. message.graph \in Graphs
      BY <1>1 DEF Message
  <2>2. slot' \in SlotRecord /\ slot'.socket = slot.socket /\ slot'.connected = slot.connected /\ slot'.rings = slot.rings
      BY <1>1, <1>6, <2>1 DEF SlotRecord
  <2> QED BY <1>1, <1>2, <1>4, <1>6, <2>2, RingTypes
<1>7. CASE UNCHANGED <<slot, browser>>
    BY <1>1, <1>2, <1>4, <1>7, RingTypes
<1> QED BY <1>3, <1>5, <1>6, <1>7

LEMMA DoneIs == Done \in [on : Sockets \cup {NoSocket}, sent : BOOLEAN] /\ Done.on = NoSocket
BY DEF Done

\* What is read and kept by the browsers.
LEMMA FanoutTypes ==
    ASSUME HubTypes, NEW message \in Message, Fanout(message)
    PROVE  browser' \in [Browsers -> BrowserRecord]
<1>1. message.id \in Ids
    BY DEF Message, Ids
<1>2. ASSUME NEW b \in Browsers
      PROVE  browser[b] \in BrowserRecord /\ [browser[b] EXCEPT !.sent = @ \cup {message.id}] \in BrowserRecord
    BY <1>1 DEF HubTypes, BrowserRecord
<1> QED BY <1>2 DEF Fanout

LEMMA ReadTypes ==
    ASSUME HubTypes, NEW k \in Sockets, Read(k)
    PROVE  HubTypes'
<1>1. browser' \in [Browsers -> BrowserRecord]
    BY ReadIs, FanoutTypes DEF HubTypes
<1>2. asked' \in [Callers -> [on : Sockets \cup {NoSocket}, sent : BOOLEAN]]
    BY ReadIs, DoneIs DEF HubTypes, TypeOK
<1>3. slot'.socket \in Sockets /\ slot'.graph \in Graphs /\ slot'.connected \in BOOLEAN
    BY ReadIs DEF SlotRecord
<1>4. /\ slot' \in SlotRecord /\ wire' \in [Sockets -> Seq(Message)]
      /\ \A r \in Rings : slot'.rings[r] \in Seq(Message) /\ Len(slot'.rings[r]) <= Capacity[r]
    BY ReadIs
<1>5. TypeOK'
    BY <1>2, <1>3, <1>4 DEF Read, HubTypes, TypeOK
<1> QED BY <1>1, <1>4, <1>5 DEF Read, HubTypes

\* A slot whose socket is lost.
LEMMA ClosedIs ==
    ASSUME HubTypes, NEW k \in Sockets, SeeClosed(k)
    PROVE  \/ UNCHANGED <<slot, timers, asked>>
           \/ /\ slot # NoSlot /\ k = slot.socket /\ slot' # NoSlot /\ slot' \in SlotRecord
              /\ slot'.socket = k /\ slot'.graph = slot.graph /\ ~slot'.connected /\ slot'.rings = slot.rings
              /\ timers' = timers \cup {k}
              /\ asked' = [c \in Callers |-> IF asked[c].on = k THEN Done ELSE asked[c]]
<1> SUFFICES ASSUME Disconnects(k)
             PROVE  /\ slot # NoSlot /\ k = slot.socket /\ slot' # NoSlot /\ slot' \in SlotRecord
                    /\ slot'.socket = k /\ slot'.graph = slot.graph /\ ~slot'.connected /\ slot'.rings = slot.rings
                    /\ timers' = timers \cup {k}
                    /\ asked' = [c \in Callers |-> IF asked[c].on = k THEN Done ELSE asked[c]]
    BY DEF SeeClosed
<1>1. /\ slot # NoSlot /\ slot.socket = k /\ slot \in SlotRecord
      /\ slot' = [slot EXCEPT !.connected = FALSE]
      /\ timers' = timers \cup {k}
      /\ asked' = [c \in Callers |-> IF asked[c].on = k THEN Done ELSE asked[c]]
    BY DEF SeeClosed, Disconnects, HubTypes
<1>2. slot' \in SlotRecord
    BY <1>1 DEF SlotRecord
<1>3. slot'.socket = k /\ slot'.graph = slot.graph /\ slot'.connected = FALSE /\ slot'.rings = slot.rings
    BY <1>1 DEF SlotRecord
<1> QED BY <1>1, <1>2, <1>3

LEMMA HandlerTypes ==
    ASSUME HubTypes, NEW k \in Sockets, SeeClosed(k) \/ Drop(k)
    PROVE  HubTypes'
<1>1. CASE SeeClosed(k)
  <2>1. asked' \in [Callers -> [on : Sockets \cup {NoSocket}, sent : BOOLEAN]]
    <3>1. asked' = asked \/ asked' = [c \in Callers |-> IF asked[c].on = k THEN Done ELSE asked[c]]
        BY <1>1, ClosedIs
    <3> QED BY <3>1, DoneIs DEF HubTypes, TypeOK
  <2>2. wire' \in [Sockets -> Seq(Message)] /\ reading' \subseteq Sockets
      BY <1>1, EmptySeq DEF SeeClosed, HubTypes, TypeOK
  <2>3. timers' \subseteq Sockets /\ slot' \in SlotRecord \cup {NoSlot}
      BY <1>1, ClosedIs DEF HubTypes, TypeOK
  <2>4. slot' # NoSlot =>
          /\ slot'.socket \in Sockets /\ slot'.graph \in Graphs /\ slot'.connected \in BOOLEAN
          /\ \A r \in Rings : slot'.rings[r] \in Seq(Message) /\ Len(slot'.rings[r]) <= Capacity[r]
    <3>1. CASE slot' = slot
        BY <3>1, RingTypes
    <3>2. CASE /\ slot # NoSlot /\ slot'.socket = k /\ slot'.graph = slot.graph /\ ~slot'.connected
               /\ slot' \in SlotRecord /\ slot'.rings = slot.rings
      <4>1. slot'.connected \in BOOLEAN
          BY <3>2 DEF SlotRecord
      <4> QED BY <3>2, <4>1, RingTypes
    <3> QED BY <1>1, <3>1, <3>2, ClosedIs
  <2>5. TypeOK'
      BY <1>1, <2>1, <2>2, <2>3, <2>4 DEF SeeClosed, HubTypes, TypeOK
  <2> QED BY <1>1, <2>3, <2>5 DEF SeeClosed, HubTypes
<1>2. CASE Drop(k)
  <2>1. (slot' = NoSlot \/ slot' = slot) /\ timers' \subseteq timers
      BY <1>2 DEF Drop
  <2>2. TypeOK'
      BY <1>2, <2>1 DEF Drop, HubTypes, TypeOK
  <2> QED BY <1>2, <2>1, <2>2 DEF Drop, HubTypes
<1> QED BY <1>1, <1>2

LEMMA CallerTypes ==
    ASSUME HubTypes, NEW c \in Callers, AskSession(c) \/ AnswerRead(c) \/ GiveUp(c)
    PROVE  HubTypes'
<1>1. asked' \in [Callers -> [on : Sockets \cup {NoSocket}, sent : BOOLEAN]]
  <2>1. CASE AskSession(c)
    <3>1. slot.socket \in Sockets
        BY <2>1, RingTypes DEF AskSession, Reachable
    <3> QED BY <2>1, <3>1 DEF AskSession, HubTypes, TypeOK
  <2>2. CASE AnswerRead(c)
      BY <2>2 DEF AnswerRead, HubTypes, TypeOK
  <2>3. CASE GiveUp(c)
      BY <2>3, DoneIs DEF GiveUp, HubTypes, TypeOK
  <2> QED BY <2>1, <2>2, <2>3
<1>2. wire' \in [Sockets -> Seq(Message)]
  <2>1. CASE AnswerRead(c)
    <3>1. [kind |-> "answer", id |-> c, graph |-> graph] \in Message
        BY DEF Message, HubTypes, TypeOK
    <3>2. Append(wire[socket], [kind |-> "answer", id |-> c, graph |-> graph]) \in Seq(Message)
        BY <2>1, <3>1, AppendProperties DEF AnswerRead, HubTypes, TypeOK
    <3> QED BY <2>1, <3>2 DEF AnswerRead, HubTypes, TypeOK
  <2>2. CASE wire' = wire
      BY <2>2 DEF HubTypes, TypeOK
  <2> QED BY <2>1, <2>2 DEF AskSession, GiveUp
<1>3. UNCHANGED <<graph, info, queue, socket, dialled, published, reading, slot, timers, browser>>
    BY DEF AskSession, AnswerRead, GiveUp
<1>4. TypeOK'
    BY <1>1, <1>2, <1>3 DEF HubTypes, TypeOK
<1> QED BY <1>3, <1>4 DEF HubTypes

\* What a browser that replays comes to next.
LEMMA ReplayIs ==
    ASSUME HubTypes, NEW b \in Browsers, Replay(b)
    PROVE  /\ browser' \in [Browsers -> BrowserRecord]
           /\ \A x \in Browsers \ {b} : browser'[x] = browser[x]
           /\ browser'[b].graphs = browser[b].graphs
           /\ \/ /\ browser[b].todo # <<>> /\ browser'[b].at = browser[b].at
                 /\ browser'[b].todo = Tail(browser[b].todo)
                 /\ browser'[b].sent = browser[b].sent \cup
                       (IF Subscribed(b, Head(browser[b].todo)) THEN {Head(browser[b].todo).id} ELSE {})
              \/ /\ browser[b].todo = <<>> /\ browser[b].at = "act"
                 /\ browser'[b].at = "record" /\ browser'[b].todo = Ring("record")
                 /\ browser'[b].sent = browser[b].sent
              \/ /\ browser[b].todo = <<>> /\ browser[b].at = "record"
                 /\ browser'[b].at = "live" /\ browser'[b].sent = browser[b].sent
<1>1. browser[b] \in BrowserRecord /\ browser \in [Browsers -> BrowserRecord]
      /\ browser[b].at \in {"act", "record"}
    BY DEF HubTypes, Replay, Rings
<1>2. CASE browser[b].todo # <<>>
  <2> DEFINE new == browser[b].sent \cup
                       (IF Subscribed(b, Head(browser[b].todo)) THEN {Head(browser[b].todo).id} ELSE {})
  <2>1. browser[b].todo \in Seq(Message)
      BY <1>1 DEF BrowserRecord
  <2>2. Head(browser[b].todo) \in Message /\ Tail(browser[b].todo) \in Seq(Message)
      BY <1>2, <2>1, HeadTailProperties
  <2>3. new \subseteq Ids
      BY <1>1, <2>2 DEF BrowserRecord, Message, Ids
  <2>4. browser' = [browser EXCEPT ![b] = [browser[b] EXCEPT !.todo = Tail(browser[b].todo), !.sent = new]]
      BY <1>2 DEF Replay
  <2> HIDE DEF new
  <2>5. [browser[b] EXCEPT !.todo = Tail(browser[b].todo), !.sent = new] \in BrowserRecord
      BY <1>1, <2>2, <2>3 DEF BrowserRecord
  <2>6. /\ browser'[b].at = browser[b].at /\ browser'[b].graphs = browser[b].graphs
        /\ browser'[b].todo = Tail(browser[b].todo) /\ browser'[b].sent = new
      BY <1>1, <2>4 DEF BrowserRecord
  <2>7. browser' \in [Browsers -> BrowserRecord] /\ \A x \in Browsers \ {b} : browser'[x] = browser[x]
      BY <1>1, <2>4, <2>5
  <2> QED BY <1>2, <2>6, <2>7 DEF new
<1>3. CASE browser[b].todo = <<>> /\ browser[b].at = "act"
  <2>1. browser' = [browser EXCEPT ![b] = [browser[b] EXCEPT !.at = "record", !.todo = Ring("record")]]
      BY <1>3 DEF Replay
  <2>2. Ring("record") \in Seq(Message)
      BY RingTypes, EmptySeq DEF Ring, Rings
  <2>3. [browser[b] EXCEPT !.at = "record", !.todo = Ring("record")] \in BrowserRecord
      BY <1>1, <2>2 DEF BrowserRecord
  <2> QED BY <1>1, <1>3, <2>1, <2>3 DEF BrowserRecord
<1>4. CASE browser[b].todo = <<>> /\ browser[b].at = "record"
  <2>1. browser' = [browser EXCEPT ![b] = [browser[b] EXCEPT !.at = "live"]]
      BY <1>4 DEF Replay
  <2>2. [browser[b] EXCEPT !.at = "live"] \in BrowserRecord
      BY <1>1 DEF BrowserRecord
  <2> QED BY <1>1, <1>4, <2>1, <2>2 DEF BrowserRecord
<1> QED BY <1>1, <1>2, <1>3, <1>4

LEMMA AwayIs == Away \in BrowserRecord /\ Away.at = "away"
BY EmptySeq DEF Away, BrowserRecord

LEMMA SubscribeIs ==
    ASSUME HubTypes, NEW b \in Browsers, NEW gs \in SUBSET Graphs, Subscribe(b, gs)
    PROVE  /\ browser' \in [Browsers -> BrowserRecord]
           /\ \A x \in Browsers \ {b} : browser'[x] = browser[x]
           /\ browser'[b].at = "act" /\ browser'[b].todo = Ring("act")
<1>1. Ring("act") \in Seq(Message)
    BY RingTypes, EmptySeq DEF Ring, Rings
<1>2. /\ Subscription(b, gs) \in BrowserRecord
      /\ Subscription(b, gs).at = "act" /\ Subscription(b, gs).todo = Ring("act")
    BY <1>1, AwayIs DEF Subscription, BrowserRecord
<1> QED BY <1>1, <1>2 DEF Subscribe, HubTypes

LEMMA BrowserTypes ==
    ASSUME HubTypes, NEW b \in Browsers,
           (\E gs \in {{Home}, Graphs} : Subscribe(b, gs)) \/ Replay(b) \/ Close(b)
    PROVE  HubTypes'
<1>1. browser' \in [Browsers -> BrowserRecord]
  <2>1. CASE \E gs \in {{Home}, Graphs} : Subscribe(b, gs)
    <3>1. {Home} \in SUBSET Graphs /\ Graphs \in SUBSET Graphs
        OBVIOUS
    <3> QED BY <2>1, <3>1, SubscribeIs
  <2>2. CASE Replay(b)
      BY <2>2, ReplayIs
  <2>3. CASE Close(b)
      BY <2>3, AwayIs DEF Close, HubTypes
  <2> QED BY <2>1, <2>2, <2>3
<1>2. UNCHANGED <<graph, info, queue, socket, dialled, published, reading, slot, timers, wire, asked>>
    BY DEF Subscribe, Replay, Close
<1> QED BY <1>1, <1>2 DEF HubTypes, TypeOK

LEMMA HubTypesOfCrash ==
    ASSUME HubTypes, Crash \/ Start
    PROVE  HubTypes'
<1>1. CASE Crash
  <2>1. asked' \in [Callers -> [on : Sockets \cup {NoSocket}, sent : BOOLEAN]]
      BY <1>1 DEF Crash, Idle, Done, HubTypes, TypeOK
  <2>2. wire' \in [Sockets -> Seq(Message)] /\ browser' \in [Browsers -> BrowserRecord]
      BY <1>1, EmptySeq, AwayIs DEF Crash
  <2> QED BY <1>1, <2>1, <2>2 DEF Crash, HubTypes, TypeOK
<1>2. CASE Start
    BY <1>2 DEF Start, HubTypes, TypeOK
<1> QED BY <1>1, <1>2

\* Every step keeps the types.
LEMMA NextTypes ==
    ASSUME HubTypes, [Next]_vars
    PROVE  HubTypes'
<1>1. CASE UNCHANGED vars
    BY <1>1 DEF HubTypes, TypeOK
<1>2. CASE \E k \in Sockets : Read(k) \/ SeeClosed(k) \/ Drop(k)
    BY <1>2, ReadTypes, HandlerTypes
<1>3. CASE \E b \in Browsers : (\E gs \in {{Home}, Graphs} : Subscribe(b, gs)) \/ Replay(b) \/ Close(b)
    BY <1>3, BrowserTypes
<1> QED BY <1>1, <1>2, <1>3, PublishTypes, ClientTypes, ConnectTypes, SendTypes, CallerTypes,
           HubTypesOfCrash DEF Next

--------------------------------------------------------------------------------
(* The grace of a session, and the reads that wait on it.                    *)

LEMMA GraceStep ==
    ASSUME HubTypes, HubTypes', OneTimer, NoReadWaitsOnTheGone, [Next]_vars
    PROVE  OneTimer' /\ NoReadWaitsOnTheGone'
<1>1. CASE UNCHANGED <<slot, timers, asked>>
    BY <1>1 DEF OneTimer, NoReadWaitsOnTheGone
<1>2. CASE Connect
  <2>1. timers' = {} /\ slot' # NoSlot /\ slot'.connected
      BY <1>2, SlotIs DEF Connect, TakesOver, OneTimer
  <2> QED BY <2>1 DEF OneTimer, NoReadWaitsOnTheGone
<1>3. ASSUME NEW k \in Sockets, Read(k) PROVE OneTimer' /\ NoReadWaitsOnTheGone'
  <2>1. slot # NoSlot /\ slot.socket # NoSocket /\ timers' = timers
      BY <1>3, RingTypes DEF Read
  <2>2. \A c \in Callers : asked'[c] = asked[c] \/ asked'[c].on = NoSocket
      BY <1>3, ReadIs, DoneIs DEF HubTypes, TypeOK
  <2>3. slot' # NoSlot /\ slot'.socket = slot.socket /\ slot'.connected = slot.connected
      BY <1>3, ReadIs
  <2> QED BY <2>1, <2>2, <2>3 DEF OneTimer, NoReadWaitsOnTheGone
<1>4. ASSUME NEW k \in Sockets, SeeClosed(k) PROVE OneTimer' /\ NoReadWaitsOnTheGone'
  <2> SUFFICES ASSUME slot # NoSlot, k = slot.socket, slot' # NoSlot,
                      slot'.socket = k, ~slot'.connected, timers' = timers \cup {k},
                      asked' = [c \in Callers |-> IF asked[c].on = k THEN Done ELSE asked[c]]
               PROVE  OneTimer' /\ NoReadWaitsOnTheGone'
      BY <1>1, <1>4, ClosedIs
  <2>1. OneTimer'
      BY DEF OneTimer
  <2>2. \A c \in Callers : asked'[c].on # k
      BY DoneIs
  <2> QED BY <2>1, <2>2 DEF NoReadWaitsOnTheGone
<1>5. ASSUME NEW k \in Sockets, Drop(k) PROVE OneTimer' /\ NoReadWaitsOnTheGone'
  <2>1. timers' = {} /\ slot' = NoSlot /\ asked' = asked
      BY <1>5 DEF Drop, OneTimer
  <2> QED BY <2>1 DEF OneTimer, NoReadWaitsOnTheGone
<1>6. ASSUME NEW c \in Callers, AskSession(c) \/ AnswerRead(c) \/ GiveUp(c)
      PROVE  OneTimer' /\ NoReadWaitsOnTheGone'
  <2>1. slot' = slot /\ timers' = timers /\ \A x \in Callers \ {c} : asked'[x] = asked[x]
      BY <1>6 DEF AskSession, AnswerRead, GiveUp, HubTypes, TypeOK
  <2>2. asked'[c].on = asked[c].on \/ asked'[c].on = NoSocket \/ (slot # NoSlot /\ slot.connected)
      BY <1>6, DoneIs DEF AskSession, Reachable, AnswerRead, GiveUp, HubTypes, TypeOK
  <2>3. slot # NoSlot => slot.socket # NoSocket
      BY RingTypes
  <2> QED BY <2>1, <2>2, <2>3 DEF OneTimer, NoReadWaitsOnTheGone
<1>7. CASE Crash
    BY <1>7 DEF Crash, OneTimer, NoReadWaitsOnTheGone
<1>8. CASE Dial \/ DialFails \/ Send \/ LoseSocket \/ Start \/ UNCHANGED vars
    BY <1>1, <1>8 DEF Dial, DialFails, Send, LoseSocket, Start
<1>9. CASE (\E kind \in Rings : PublishEvent(kind)) \/ (\E g \in Graphs : SwitchGraph(g))
    BY <1>1, <1>9 DEF PublishEvent, SwitchGraph, Publish
<1>10. CASE \E b \in Browsers : (\E gs \in {{Home}, Graphs} : Subscribe(b, gs)) \/ Replay(b) \/ Close(b)
    BY <1>1, <1>10 DEF Subscribe, Replay, Close
<1> QED BY <1>2, <1>3, <1>4, <1>5, <1>6, <1>7, <1>8, <1>9, <1>10 DEF Next

--------------------------------------------------------------------------------
(* The backlog of a browser.                                                 *)

\* Nothing is kept that was not, and every browser is where it was.
LEMMA BacklogStays ==
    ASSUME BacklogCovers, UNCHANGED browser,
           \A r \in Rings : Ring(r)' = Ring(r) \/ Ring(r)' = <<>>
    PROVE  BacklogCovers'
<1>1. \A b \in Browsers : \A m : (Due(b, m) => Due(b, m)') /\ (Sent(b, m) => Sent(b, m)')
    BY DEF Due, Sent, Subscribed
<1>2. \A r \in Rings : \A i \in DOMAIN Ring(r)' : i \in DOMAIN Ring(r) /\ Ring(r)'[i] = Ring(r)[i]
    OBVIOUS
<1> QED BY <1>1, <1>2 DEF BacklogCovers, Rings

\* What is read and kept reaches every browser that is subscribed to it.
LEMMA BacklogRead ==
    ASSUME HubTypes, BacklogCovers, NEW k \in Sockets, Read(k)
    PROVE  BacklogCovers'
<1>1. slot # NoSlot /\ slot' # NoSlot
    BY ReadIs DEF Read
<1>2. CASE slot'.rings = slot.rings /\ UNCHANGED browser
    BY <1>1, <1>2, BacklogStays DEF Ring
<1>3. ASSUME NEW m \in Message, Fanout(m),
             \A r \in Rings : \A i \in DOMAIN slot'.rings[r] :
                \/ slot'.rings[r][i] = m
                \/ \E j \in DOMAIN slot.rings[r] : slot'.rings[r][i] = slot.rings[r][j]
      PROVE  BacklogCovers'
  <2>1. ASSUME NEW b \in Browsers
        PROVE  /\ browser'[b].at = browser[b].at /\ browser'[b].graphs = browser[b].graphs
               /\ browser'[b].todo = browser[b].todo /\ browser[b].sent \subseteq browser'[b].sent
               /\ Subscribed(b, m) => m.id \in browser'[b].sent
    <3>1. browser[b] \in BrowserRecord
        BY DEF HubTypes
    <3>2. browser'[b] = IF Subscribed(b, m) THEN [browser[b] EXCEPT !.sent = @ \cup {m.id}] ELSE browser[b]
        BY <1>3 DEF Fanout, Reaches
    <3> QED BY <3>1, <3>2 DEF BrowserRecord
  <2>2. \A b \in Browsers : \A x : (Due(b, x) => Due(b, x)') /\ (Sent(b, x) => Sent(b, x)')
      BY <2>1 DEF Due, Sent, Subscribed
  <2>3. \A b \in Browsers : Due(b, m)' /\ Sent(b, m)'
      BY <2>1 DEF Due, Sent, Subscribed
  <2>4. \A r \in Rings : \A i \in DOMAIN Ring(r)' :
           Ring(r)'[i] = m \/ \E j \in DOMAIN Ring(r) : Ring(r)'[i] = Ring(r)[j]
      BY <1>1, <1>3 DEF Ring
  <2> QED BY <2>1, <2>2, <2>3, <2>4 DEF BacklogCovers, Rings
<1> QED BY <1>2, <1>3, ReadIs

\* A backlog begins with all that is due; what is taken from it has been sent.
LEMMA BacklogBrowser ==
    ASSUME HubTypes, BacklogCovers, NEW b \in Browsers,
           (\E gs \in {{Home}, Graphs} : Subscribe(b, gs)) \/ Replay(b) \/ Close(b)
    PROVE  BacklogCovers'
<1>1. \A r \in Rings : Ring(r)' = Ring(r)
    BY DEF Subscribe, Replay, Close, Ring
<1>2. \A x \in Browsers \ {b} : browser'[x] = browser[x]
    BY SubscribeIs, ReplayIs DEF Close, HubTypes
<1> DEFINE Covered(x) ==
        /\ browser[x].at = "act" => \A i \in DOMAIN Ring("act") : Due(x, Ring("act")[i])
        /\ browser[x].at \in {"record", "live"} => \A i \in DOMAIN Ring("act") : Sent(x, Ring("act")[i])
        /\ browser[x].at = "record" => \A i \in DOMAIN Ring("record") : Due(x, Ring("record")[i])
        /\ browser[x].at = "live" => \A i \in DOMAIN Ring("record") : Sent(x, Ring("record")[i])
<1>3. \A x \in Browsers \ {b} : Covered(x)'
    BY <1>1, <1>2 DEF BacklogCovers, Due, Sent, Subscribed, Rings
<1>4. ASSUME NEW gs \in {{Home}, Graphs}, Subscribe(b, gs) PROVE Covered(b)'
  <2>1. browser'[b].at = "act" /\ browser'[b].todo = Ring("act")
      BY <1>4, SubscribeIs
  <2> QED BY <1>1, <2>1 DEF Due, Rings
<1>5. ASSUME Close(b) PROVE Covered(b)'
    BY <1>5, AwayIs DEF Close, HubTypes
<1>6. ASSUME Replay(b) PROVE Covered(b)'
  <2>1. browser'[b].graphs = browser[b].graphs /\ browser[b] \in BrowserRecord
      BY <1>6, ReplayIs DEF HubTypes
  <2>2. CASE /\ browser[b].todo # <<>> /\ browser'[b].at = browser[b].at
             /\ browser'[b].todo = Tail(browser[b].todo)
             /\ browser'[b].sent = browser[b].sent \cup
                   (IF Subscribed(b, Head(browser[b].todo)) THEN {Head(browser[b].todo).id} ELSE {})
    <3> DEFINE todo == browser[b].todo
    <3>1. todo \in Seq(Message)
        BY <2>1 DEF BrowserRecord
    <3>2. \A i \in DOMAIN todo : todo[i] = Head(todo) \/ \E j \in DOMAIN Tail(todo) : Tail(todo)[j] = todo[i]
      <4>1. /\ Tail(todo) \in Seq(Message) /\ Len(Tail(todo)) = Len(todo) - 1
            /\ \A i \in 1 .. Len(Tail(todo)) : Tail(todo)[i] = todo[i+1]
            /\ DOMAIN todo = 1..Len(todo) /\ Len(todo) \in Nat /\ Head(todo) = todo[1]
          BY <2>2, <3>1, HeadTailProperties
      <4>2. ASSUME NEW i \in DOMAIN todo, i # 1 PROVE i - 1 \in DOMAIN Tail(todo) /\ Tail(todo)[i - 1] = todo[i]
          BY <4>1, <4>2
      <4> QED BY <4>1, <4>2
    <3>3. \A x : Due(b, x) => Due(b, x)'
        BY <2>1, <2>2, <3>2 DEF Due, Subscribed
    <3>4. \A x : Sent(b, x) => Sent(b, x)'
        BY <2>1, <2>2 DEF Sent, Subscribed
    <3> QED BY <1>1, <2>2, <3>3, <3>4 DEF BacklogCovers, Rings
  <2>3. CASE /\ browser[b].todo = <<>> /\ browser[b].at = "act"
             /\ browser'[b].at = "record" /\ browser'[b].todo = Ring("record")
             /\ browser'[b].sent = browser[b].sent
    <3>1. \A x : Due(b, x) => Sent(b, x)'
        BY <2>1, <2>3 DEF Due, Sent, Subscribed
    <3>2. \A i \in DOMAIN Ring("record")' : Due(b, Ring("record")[i])'
        BY <1>1, <2>3 DEF Due, Rings
    <3> QED BY <1>1, <2>3, <3>1, <3>2 DEF BacklogCovers, Rings
  <2>4. CASE /\ browser[b].todo = <<>> /\ browser[b].at = "record"
             /\ browser'[b].at = "live" /\ browser'[b].sent = browser[b].sent
    <3>1. \A x : (Due(b, x) => Sent(b, x)') /\ (Sent(b, x) => Sent(b, x)')
        BY <2>1, <2>4 DEF Due, Sent, Subscribed
    <3> QED BY <1>1, <2>4, <3>1 DEF BacklogCovers, Rings
  <2> QED BY <1>6, <2>2, <2>3, <2>4, ReplayIs
<1>7. \A x \in Browsers : Covered(x)'
    BY <1>3, <1>4, <1>5, <1>6
<1> QED BY <1>7 DEF BacklogCovers

LEMMA BacklogStep ==
    ASSUME HubTypes, BacklogCovers, [Next]_vars
    PROVE  BacklogCovers'
<1>1. CASE UNCHANGED <<slot, browser>>
    BY <1>1, BacklogStays DEF Ring
<1>2. CASE Connect
    BY <1>2, SlotIs, BacklogStays DEF Connect, Ring
<1>3. ASSUME NEW k \in Sockets, SeeClosed(k) PROVE BacklogCovers'
    BY <1>3, ClosedIs, BacklogStays DEF SeeClosed, Ring
<1>4. ASSUME NEW k \in Sockets, Drop(k) PROVE BacklogCovers'
    BY <1>4, BacklogStays DEF Drop, Ring
<1>5. CASE Crash
    BY <1>5, AwayIs DEF Crash, BacklogCovers
<1>6. CASE Dial \/ DialFails \/ Send \/ LoseSocket \/ Start \/ UNCHANGED vars
    BY <1>1, <1>6 DEF Dial, DialFails, Send, LoseSocket, Start
<1>7. CASE (\E kind \in Rings : PublishEvent(kind)) \/ (\E g \in Graphs : SwitchGraph(g))
    BY <1>1, <1>7 DEF PublishEvent, SwitchGraph, Publish
<1>8. CASE \E c \in Callers : AskSession(c) \/ AnswerRead(c) \/ GiveUp(c)
    BY <1>1, <1>8 DEF AskSession, AnswerRead, GiveUp
<1> QED BY <1>2, <1>3, <1>4, <1>5, <1>6, <1>7, <1>8, BacklogRead, BacklogBrowser DEF Next

--------------------------------------------------------------------------------

LEMMA NextHub == HubInv /\ [Next]_vars => HubInv'
BY NextTypes, GraceStep, BacklogStep DEF HubInv

LEMMA HubHolds == Spec => []HubInv
BY InitHub, NextHub, PTL DEF Spec

\* The variables keep their types, the queue and the rings their bounds, and no read waits on
\* the socket of a session the hub knows to be gone.
THEOREM HubStaysSound == Spec => []HubIsSound
<1>1. HubInv => HubIsSound
    BY DEF HubInv, HubTypes, HubIsSound
<1> QED BY <1>1, HubHolds, PTL

\* A browser whose backlog is sent has been sent every entry kept that it is subscribed to,
\* those that arrived meanwhile included.
THEOREM NothingIsMissed == Spec => []BrowsersMissNothing
<1>1. HubInv => BrowsersMissNothing
    BY DEF HubInv, BacklogCovers, Sent, BrowsersMissNothing, Rings
<1> QED BY <1>1, HubHolds, PTL

\* A session is disconnected by its own socket alone and dropped by the timer of that loss
\* alone, and a reconnect keeps what was kept of it.
THEOREM SessionSurvives == Spec => SessionOutlivesItsSocket
<1> DEFINE Grace == slot # NoSlot /\ hubUp' =>
          IF slot' = NoSlot THEN slot.socket \in timers \ timers' /\ ~slot.connected
          ELSE slot'.socket = slot.socket /\ slot.connected /\ ~slot'.connected
               => slot.socket \in reading \ reading'
           Kept == slot # NoSlot /\ slot' # NoSlot /\ slot'.socket # slot.socket => slot'.rings = slot.rings
<1>1. HubInv /\ [Next]_vars => [Grace]_vars /\ [Kept]_vars
  <2> SUFFICES ASSUME HubInv, Next PROVE Grace /\ Kept
      OBVIOUS
  <2>1. CASE UNCHANGED slot
      BY <2>1
  <2>2. CASE Connect
    <3>1. slot # NoSlot => slot'.rings = slot.rings
        BY <2>2 DEF Connect, Slot
    <3> QED BY <2>2, <3>1, SlotIs DEF HubInv
  <2>3. ASSUME NEW k \in Sockets, Read(k) PROVE Grace /\ Kept
      BY <2>3, ReadIs DEF HubInv
  <2>4. ASSUME NEW k \in Sockets, SeeClosed(k) PROVE Grace /\ Kept
      BY <2>4, <2>1, ClosedIs DEF HubInv, SeeClosed
  <2>5. ASSUME NEW k \in Sockets, Drop(k) PROVE Grace /\ Kept
      BY <2>5 DEF HubInv, OneTimer, Drop
  <2>6. CASE Crash
      BY <2>6 DEF Crash
  <2>7. CASE Dial \/ DialFails \/ Send \/ LoseSocket \/ Start
      BY <2>1, <2>7 DEF Dial, DialFails, Send, LoseSocket, Start
  <2>8. CASE (\E kind \in Rings : PublishEvent(kind)) \/ (\E g \in Graphs : SwitchGraph(g))
      BY <2>1, <2>8 DEF PublishEvent, SwitchGraph, Publish
  <2>9. CASE \E c \in Callers : AskSession(c) \/ AnswerRead(c) \/ GiveUp(c)
      BY <2>1, <2>9 DEF AskSession, AnswerRead, GiveUp
  <2>10. CASE \E b \in Browsers : (\E gs \in {{Home}, Graphs} : Subscribe(b, gs)) \/ Replay(b) \/ Close(b)
      BY <2>1, <2>10 DEF Subscribe, Replay, Close
  <2> QED BY <2>2, <2>3, <2>4, <2>5, <2>6, <2>7, <2>8, <2>9, <2>10 DEF Next
<1> QED BY <1>1, HubHolds, PTL DEF Spec, SessionOutlivesItsSocket, GraceIsKept, RingsSurvive

==============================================================================
