---------------------------- MODULE ChannelBus ----------------------------
(***************************************************************************)
(* The in-memory event bus (app/services/channel_events.py) with the three *)
(* kinds of subscriber the repository has: the web UI's SSE stream         *)
(* (useChannelEvents.ts over api_v1_channels.channel_events), a widget's   *)
(* SSE stream (InteractiveHtmlRenderer.tsx over widget_action_stream) and  *)
(* one IntegrationDispatcherTask per renderer (channel_renderers.py).      *)
(*                                                                         *)
(* An event is its channel, its sequence number and its kind; a control    *)
(* frame is an item whose kind is Lapsed or Shutdown.  Sending a frame and *)
(* receiving it are one step: a frame lost on the wire is a Disconnect     *)
(* before the Read.                                                        *)
(*                                                                         *)
(* The specification's names begin with Bus: DeliveryProofs extends this   *)
(* module and Outbox, the two ways an event leaves the server.             *)
(***************************************************************************)
EXTENDS Naturals, FiniteSets, Sequences

CONSTANTS
    Channels, Browsers, Widgets, Dispatchers,
    Watches,          \* [Clients -> Channels]
    Kinds,            \* kinds of event published
    Durable,          \* of which is_outbox_durable
    Shows,            \* [Dispatchers -> SUBSET Kinds]: required_capabilities declared
    Closing,          \* TURN_ENDED: drops the renderer context
    Lapsed, Shutdown, NoCursor,
    QueueMax,         \* QUEUE_MAX_SIZE
    ReplayMax,        \* REPLAY_BUFFER_SIZE
    MaxEvents,        \* bound: events per channel and process lifetime
    MaxRestarts,      \* bound: server restarts
    MaxBreaks         \* bound: connections lost and dispatcher exceptions

Clients     == Browsers \cup Widgets
Subscribers == Clients \cup Dispatchers

ASSUME BusAssumption ==
    /\ Channels # {}
    /\ Browsers \cap Widgets = {} /\ Clients \cap Dispatchers = {}
    /\ Watches \in [Clients -> Channels]
    /\ Shows \in [Dispatchers -> SUBSET Kinds]
    /\ Durable \subseteq Kinds /\ Lapsed \notin Kinds /\ Shutdown \notin Kinds
    /\ Lapsed # Shutdown /\ NoCursor \notin Nat
    /\ QueueMax \in Nat \ {0} /\ ReplayMax \in Nat \ {0}
    /\ MaxEvents \in Nat /\ MaxRestarts \in Nat /\ MaxBreaks \in Nat

VARIABLES
    seq,        \* [Channels -> Nat]: _next_seq
    buffer,     \* [Channels -> Seq(Item)]: _replay_buffer
    stopping,   \* _shutdown_event
    phase,      \* [Subscribers -> Phase]
    queue,      \* [Subscribers -> Seq(Item)]: the registered asyncio.Queue
    replay,     \* [Clients -> Seq(Item)]: what subscribe() yields first
    replayed,   \* [Clients -> SUBSET Nat]: replayed_seqs
    cursor,     \* [Clients -> Nat or NoCursor]: lastSeq, in the browser
    retired,    \* widgets that got a shutdown frame and stopped for good
    contexts,   \* [Dispatchers -> SUBSET Channels]: live RenderContexts
    at,         \* observer: [Subscribers -> [Channels -> Nat]], last seq taken
                \*   or told to be lost
    have,       \* observer: [Clients -> SUBSET Nat], events the client got or
                \*   was told it may lack
    base,       \* observer: [Clients -> Nat], where the connection began on
                \*   which it got, or waits for, its first frame
    missed,     \* observer: dispatchers that lost an event
    leaked,     \* observer: [Dispatchers -> SUBSET Channels], contexts that were
                \*   passed over by the end of their turn
    restarts, breaks

server   == <<seq, buffer, stopping>>
streams  == <<phase, queue, replay, replayed>>
client   == <<cursor, retired>>
observed == <<at, have, base, missed>>
cards    == <<contexts, leaked>>
busVars == <<server, streams, client, cards, observed, restarts, breaks>>

Item  == [channel : Channels, seq : Nat, kind : Kinds \cup {Lapsed, Shutdown}]
Phase == {"off", "on", "lapsed", "backoff"}

Frame(ch, n, k) == [channel |-> ch, seq |-> n, kind |-> k]
IsEvent(f)      == f.kind \in Kinds
Listens(s, ch)  == /\ phase[s] \in {"on", "lapsed"}
                   /\ s \in Dispatchers \/ Watches[s] = ch
Ahead(s)        == (IF s \in Clients THEN replay[s] ELSE <<>>) \o queue[s]

BusInit ==
    /\ seq = [ch \in Channels |-> 0] /\ buffer = [ch \in Channels |-> <<>>]
    /\ stopping = FALSE
    /\ phase = [s \in Subscribers |-> "off"] /\ queue = [s \in Subscribers |-> <<>>]
    /\ replay = [c \in Clients |-> <<>>] /\ replayed = [c \in Clients |-> {}]
    /\ cursor = [c \in Clients |-> NoCursor] /\ retired = {}
    /\ contexts = [d \in Dispatchers |-> {}] /\ leaked = [d \in Dispatchers |-> {}]
    /\ at = [s \in Subscribers |-> [ch \in Channels |-> 0]]
    /\ have = [c \in Clients |-> {}] /\ base = [c \in Clients |-> 0]
    /\ missed = {}
    /\ restarts = 0 /\ breaks = 0

---------------------------------------------------------------------------
(* Publishing.                                                             *)

DropOldest(q, e) ==                                         \* mutant
    IF Len(q) < QueueMax THEN Append(q, e) ELSE Append(Tail(q), e)

(* _deliver_to_queue: a full queue is drained and holds one sentinel.      *)
Deliver(q, e) ==
    IF Len(q) < QueueMax THEN Append(q, e) ELSE <<Frame(e.channel, e.seq, Lapsed)>>

(* deque(maxlen): the oldest event is evicted.                             *)
Remember(buf, e) ==
    Append(IF Len(buf) < ReplayMax THEN buf ELSE Tail(buf), e)

Loses(d, ch) == \/ Listens(d, ch) /\ Len(queue[d]) = QueueMax
                \/ phase[d] = "backoff"
Unread(d)    == IF queue[d] = <<>> THEN {} ELSE {d}

(* publish_typed: number, remember, fan out, in one synchronous step.      *)
Publish(ch, k) ==
    /\ seq[ch] < MaxEvents
    /\ LET e == Frame(ch, seq[ch] + 1, k)
       IN  /\ seq' = [seq EXCEPT ![ch] = e.seq]
           /\ buffer' = [buffer EXCEPT ![ch] = Remember(@, e)]
           /\ queue' = [s \in Subscribers |->
                           IF Listens(s, ch) THEN Deliver(queue[s], e) ELSE queue[s]]
    /\ missed' = missed \cup {d \in Dispatchers : Loses(d, ch)}
    /\ UNCHANGED <<stopping, phase, replay, replayed, client, cards, at, have,
                   base, restarts, breaks>>

---------------------------------------------------------------------------
(* SSE subscribers.                                                        *)

(* The ring is in order, so the events past since are its end.             *)
Newer(ch, since) ==
    LET old == {i \in DOMAIN buffer[ch] : buffer[ch][i].seq <= since}
    IN  SubSeq(buffer[ch], Cardinality(old) + 1, Len(buffer[ch]))

BlindReplay(ch, since) == Newer(ch, since)                  \* mutant

NeedsSentinel(ch, since) ==
    buffer[ch] # <<>> /\ buffer[ch][1].seq > since + 1

WholeRing(ch, since) ==                                     \* mutant
    (IF NeedsSentinel(ch, since) THEN <<Frame(ch, since, Lapsed)>> ELSE <<>>)
        \o buffer[ch]

(* What subscribe(since) yields before it tails live events: a client_lag  *)
(* sentinel if the ring starts too late, then the ring from since on.      *)
Replay(ch, since) ==
    (IF NeedsSentinel(ch, since) THEN <<Frame(ch, since, Lapsed)>> ELSE <<>>)
        \o Newer(ch, since)

(* connect() and the first step of subscribe(): the queue is registered    *)
(* and the ring copied without a suspension in between.                    *)
Connect(c) ==
    /\ phase[c] = "off" /\ ~stopping /\ c \notin retired
    /\ LET ch == Watches[c] IN
       /\ replay' = [replay EXCEPT ![c] =
                        IF cursor[c] = NoCursor THEN <<>> ELSE Replay(ch, cursor[c])]
       /\ replayed' = [replayed EXCEPT ![c] = {}]
       /\ queue' = [queue EXCEPT ![c] = <<>>]
       /\ at' = [at EXCEPT ![c][ch] = IF cursor[c] = NoCursor THEN seq[ch] ELSE @]
       /\ base' = [base EXCEPT ![c] =
                      IF cursor[c] = NoCursor THEN seq[ch] ELSE @]
    /\ phase' = [phase EXCEPT ![c] = "on"]
    /\ UNCHANGED <<server, client, cards, have, missed, restarts, breaks>>

(* The browser keeps the seq of every frame, but forgets it on a lapse; a  *)
(* widget keeps the sentinel's seq.  Both tell of what is lost up to       *)
(* position: the browser refetches, the widget warns and calls its author. *)
Receive(c, f, position) ==
    /\ cursor' = [cursor EXCEPT ![c] =
                     IF c \in Browsers /\ f.kind = Lapsed THEN NoCursor ELSE f.seq]
    /\ have' = [have EXCEPT ![c] =
                   @ \cup IF IsEvent(f) THEN {f.seq} ELSE (at[c][Watches[c]] + 1)..position]
    /\ at' = [at EXCEPT ![c][Watches[c]] = position]

(* The generator is closed and its queue unregistered.                     *)
Close(s) == phase' = [phase EXCEPT ![s] = "off"] /\ queue' = [queue EXCEPT ![s] = <<>>]
CloseStream(c) ==
    /\ Close(c)
    /\ replay' = [replay EXCEPT ![c] = <<>>] /\ replayed' = [replayed EXCEPT ![c] = {}]

ReadReplay(c) ==
    /\ phase[c] = "on" /\ replay[c] # <<>>
    /\ LET f == Head(replay[c]) IN
       /\ Receive(c, f, IF f.kind = Lapsed THEN replay[c][2].seq - 1 ELSE f.seq)
       /\ replay' = [replay EXCEPT ![c] = Tail(@)]
       /\ replayed' = [replayed EXCEPT ![c] = IF IsEvent(f) THEN @ \cup {f.seq} ELSE @]
    /\ UNCHANGED <<server, phase, queue, retired, cards, base, missed, restarts, breaks>>

(* The tail loop: a seq already replayed is skipped, an overflow sentinel  *)
(* is yielded and ends the stream, a shutdown frame ends it too (the UI    *)
(* endpoint does not forward it, the widget endpoint does).                *)
ReadLive(c) ==
    /\ phase[c] = "on" /\ replay[c] = <<>> /\ queue[c] # <<>>
    /\ LET f == Head(queue[c])
           rest == queue' = [queue EXCEPT ![c] = Tail(@)]
       IN  \/ /\ f.seq \in replayed[c]
              /\ rest /\ UNCHANGED <<phase, replay, replayed, client, at, have>>
           \/ /\ f.seq \notin replayed[c] /\ IsEvent(f)
              /\ Receive(c, f, f.seq) /\ rest /\ UNCHANGED <<phase, replay, replayed, retired>>
           \/ /\ f.seq \notin replayed[c] /\ f.kind = Lapsed
              /\ Receive(c, f, f.seq) /\ CloseStream(c) /\ UNCHANGED retired
           \/ /\ f.seq \notin replayed[c] /\ f.kind = Shutdown
              /\ retired' = IF c \in Widgets THEN retired \cup {c} ELSE retired
              /\ CloseStream(c) /\ UNCHANGED <<cursor, at, have>>
    /\ UNCHANGED <<server, cards, base, missed, restarts, breaks>>

(* The connection breaks; frames not read are gone.                        *)
Disconnect(c) ==
    /\ phase[c] = "on" /\ breaks < MaxBreaks
    /\ breaks' = breaks + 1
    /\ CloseStream(c)
    /\ UNCHANGED <<server, client, cards, observed, restarts>>

(* The endpoint loop sees the shutdown event between two frames.           *)
EndStream(c) ==
    /\ phase[c] = "on" /\ stopping
    /\ CloseStream(c)
    /\ UNCHANGED <<server, client, cards, observed, restarts, breaks>>

---------------------------------------------------------------------------
(* Renderer dispatchers.                                                   *)

Subscribe(d) ==
    /\ queue' = [queue EXCEPT ![d] = <<>>]
    /\ at' = [at EXCEPT ![d] = seq]
    /\ phase' = [phase EXCEPT ![d] = "on"]
    /\ missed' = missed \cup Unread(d)

(* start(), or the next turn of _run's outer loop after an exception.      *)
StartDispatcher(d) ==
    /\ phase[d] \in {"off", "backoff"} /\ ~stopping
    /\ Subscribe(d)
    /\ UNCHANGED <<server, replay, replayed, client, cards, have, base, restarts, breaks>>

LeakyContext(d, f, target) ==                               \* mutant
    contexts' = [contexts EXCEPT ![d] = @ \cup {f.channel}] /\ UNCHANGED leaked

(* _dispatch passes over durable kinds, which are the outbox's, kinds the  *)
(* renderer lacks a capability for, and events it has no target for: they  *)
(* are another integration's, or the channel is not bound to this one, or  *)
(* not any more.  Otherwise the renderer context is made on first use and  *)
(* dropped when the turn has ended.                                        *)
Passed(d, f, target) == f.kind \in Durable \/ (IsEvent(f) /\ f.kind \notin Shows[d]) \/ ~target

Handle(d, f, target) ==
    \/ /\ Passed(d, f, target)
       /\ leaked' = [leaked EXCEPT ![d] =
             IF f.kind = Closing THEN @ \cup (contexts[d] \cap {f.channel}) ELSE @]
       /\ UNCHANGED contexts
    \/ /\ ~Passed(d, f, target) /\ f.kind = Closing
       /\ contexts' = [contexts EXCEPT ![d] = @ \ {f.channel}]
       /\ leaked' = [leaked EXCEPT ![d] = @ \ {f.channel}]
    \/ /\ ~Passed(d, f, target) /\ f.kind # Closing
       /\ contexts' = [contexts EXCEPT ![d] = @ \cup {f.channel}]
       /\ UNCHANGED leaked

(* The overflow sentinel is dispatched like an event, then the generator   *)
(* ends: what reached the old queue meanwhile goes with it.                *)
DispatchNext(d, target) ==
    /\ phase[d] = "on" /\ queue[d] # <<>>
    /\ LET f == Head(queue[d])
       IN  /\ queue' = [queue EXCEPT ![d] = Tail(@)]
           /\ \/ f.kind = Shutdown /\ UNCHANGED <<cards, at, phase>>
              \/ /\ f.kind # Shutdown
                 /\ Handle(d, f, target)
                 /\ at' = [at EXCEPT ![d][f.channel] = f.seq]
                 /\ phase' = [phase EXCEPT ![d] = IF f.kind = Lapsed THEN "lapsed" ELSE "on"]
    /\ UNCHANGED <<server, replay, replayed, client, have, base, missed, restarts, breaks>>

Resubscribe(d) ==
    /\ phase[d] = "lapsed"
    /\ Subscribe(d)
    /\ UNCHANGED <<server, replay, replayed, client, cards, have, base, restarts, breaks>>

(* _dispatch raises (the target lookup is not guarded): the subscription   *)
(* is abandoned and reopened after 0.5 s.                                  *)
DispatchRaises(d) ==
    /\ phase[d] = "lapsed" \/ (phase[d] = "on" /\ queue[d] # <<>>)
    /\ breaks < MaxBreaks /\ breaks' = breaks + 1
    /\ missed' = missed \cup Unread(d)
    /\ phase' = [phase EXCEPT ![d] = "backoff"] /\ queue' = [queue EXCEPT ![d] = <<>>]
    /\ UNCHANGED <<server, replay, replayed, client, cards, at, have, base, restarts>>

StopDispatcher(d) ==
    /\ stopping /\ phase[d] # "off"
    /\ Close(d)
    /\ contexts' = [contexts EXCEPT ![d] = {}] /\ leaked' = [leaked EXCEPT ![d] = {}]
    /\ UNCHANGED <<server, replay, replayed, client, observed, restarts, breaks>>

---------------------------------------------------------------------------
(* The process.                                                            *)

(* signal_shutdown: a full queue gets no sentinel.                         *)
SignalShutdown ==
    /\ ~stopping /\ restarts < MaxRestarts
    /\ stopping' = TRUE
    /\ queue' = [s \in Subscribers |->
                    IF phase[s] \in {"on", "lapsed"} /\ Len(queue[s]) < QueueMax
                    THEN Append(queue[s], Frame(CHOOSE ch \in Channels : TRUE, 0, Shutdown))
                    ELSE queue[s]]
    /\ UNCHANGED <<seq, buffer, phase, replay, replayed, client, cards, observed,
                   restarts, breaks>>

(* The process dies and a new one starts: the bus is empty and numbers its *)
(* events from 1 again; what lives in a browser survives.                  *)
NewProcess ==
    /\ restarts < MaxRestarts
    /\ restarts' = restarts + 1
    /\ seq' = [ch \in Channels |-> 0] /\ buffer' = [ch \in Channels |-> <<>>]
    /\ stopping' = FALSE
    /\ phase' = [s \in Subscribers |-> "off"] /\ queue' = [s \in Subscribers |-> <<>>]
    /\ replay' = [c \in Clients |-> <<>>] /\ replayed' = [c \in Clients |-> {}]
    /\ contexts' = [d \in Dispatchers |-> {}] /\ leaked' = [d \in Dispatchers |-> {}]
    /\ at' = [s \in Subscribers |-> [ch \in Channels |-> 0]]
    /\ have' = [c \in Clients |-> {}] /\ base' = [c \in Clients |-> 0]
    /\ missed' = {}
    /\ UNCHANGED <<client, breaks>>

---------------------------------------------------------------------------
ClientStep(c) == Connect(c) \/ ReadReplay(c) \/ ReadLive(c)

BusNext ==
    \/ \E ch \in Channels, k \in Kinds : Publish(ch, k)
    \/ \E c \in Clients : ClientStep(c) \/ Disconnect(c) \/ EndStream(c)
    \/ \E d \in Dispatchers :
          \/ StartDispatcher(d) \/ (\E target \in BOOLEAN : DispatchNext(d, target)) \/ Resubscribe(d)
          \/ DispatchRaises(d) \/ StopDispatcher(d)
    \/ SignalShutdown
    \/ NewProcess

BusSpec == BusInit /\ [][BusNext]_busVars

(* A client retries its connection for ever and reads what arrives.        *)
BusFairSpec == BusSpec /\ \A c \in Clients : WF_busVars(ClientStep(c))

---------------------------------------------------------------------------
(* Properties.                                                             *)

(* Every variable keeps its type; queues and rings keep their bounds.      *)
BusTypeOK ==
    /\ seq \in [Channels -> Nat] /\ stopping \in BOOLEAN
    /\ \A ch \in Channels : buffer[ch] \in Seq(Item) /\ Len(buffer[ch]) <= ReplayMax
    /\ phase \in [Subscribers -> Phase]
    /\ \A s \in Subscribers : queue[s] \in Seq(Item) /\ Len(queue[s]) <= QueueMax
    /\ \A c \in Clients : replay[c] \in Seq(Item)
    /\ replayed \in [Clients -> SUBSET Nat]
    /\ cursor \in [Clients -> Nat \cup {NoCursor}]
    /\ retired \in SUBSET Widgets
    /\ contexts \in [Dispatchers -> SUBSET Channels]
    /\ leaked \in [Dispatchers -> SUBSET Channels]
    /\ at \in [Subscribers -> [Channels -> Nat]]
    /\ have \in [Clients -> SUBSET Nat] /\ base \in [Clients -> Nat]
    /\ missed \in SUBSET Dispatchers
    /\ restarts \in Nat /\ breaks \in Nat

(* Unless a sentinel is on its way, the events a subscriber still has to   *)
(* take from a channel are exactly those published after the last one it   *)
(* took, in order: nothing is dropped, doubled or overtaken silently.      *)
HasLapse(s) == \E i \in DOMAIN Ahead(s) : Ahead(s)[i].kind = Lapsed
Due(s, ch)  == {i \in DOMAIN Ahead(s) : Ahead(s)[i].channel = ch /\ IsEvent(Ahead(s)[i])}
NoSilentDrop ==
    \A s \in Subscribers, ch \in Channels :
        /\ Listens(s, ch) /\ phase[s] = "on" /\ ~HasLapse(s)
        /\ s \in Dispatchers \/ restarts = 0
        => /\ {Ahead(s)[i].seq : i \in Due(s, ch)} = (at[s][ch] + 1)..seq[ch]
           /\ \A i, j \in Due(s, ch) : i < j => Ahead(s)[i].seq < Ahead(s)[j].seq

(* An overflow sentinel is the next live item its subscriber sees.         *)
SentinelNext ==
    \A s \in Subscribers : \A i \in DOMAIN queue[s] : queue[s][i].kind = Lapsed => i = 1

(* A connected client has got, has been told that it may lack, or has      *)
(* coming every event of this process since base.                          *)
Whole(c) ==
    phase[c] = "on" /\ ~HasLapse(c) =>
        (base[c] + 1)..seq[Watches[c]]
            \subseteq have[c] \cup {Ahead(c)[i].seq : i \in DOMAIN Ahead(c)}

(* Without a restart, lapses and broken connections take nothing silently  *)
(* from a widget that has read a frame.  One that is cut off before its    *)
(* first frame has no since to come back with: base moves to its next      *)
(* connection, and what was queued for it is lost without a word           *)
(* (InteractiveHtmlRenderer.tsx:1302).                                     *)
WidgetsWhole == restarts = 0 => \A c \in Widgets : Whole(c)

(* Queues and rings keep their bounds, and what an overflow drops is told, *)
(* and told first.                                                         *)
OverflowTold == BusTypeOK /\ NoSilentDrop /\ SentinelNext /\ WidgetsWhole

(* Within one process lifetime a subscriber never goes back to an event it *)
(* is past, across reconnections and lapses too.                           *)
NeverGoesBack ==
    [][restarts' = 0 =>
          \A s \in Subscribers, ch \in Channels : at'[s][ch] >= at[s][ch]]_busVars

(* A dispatcher that lost nothing holds a renderer context only while the  *)
(* last event it took from the channel left the turn open, unless it       *)
(* passed over the turn's end: the channel was unbound since the context   *)
(* was made, or the renderer lacks a capability for it, and _dispatch      *)
(* returns before the line that drops the context (channel_renderers.py:   *)
(* 204, 224), on which renderers are told to rely (272).                   *)
ContextsFollowTurns ==
    \A d \in Dispatchers, ch \in Channels :
        LET live == {i \in DOMAIN buffer[ch] : buffer[ch][i].kind \notin Durable}
        IN  d \notin missed /\ ch \in contexts[d] \ leaked[d] /\ at[d][ch] = seq[ch]
                => \A i \in live : (\A j \in live : j <= i) => buffer[ch][i].kind # Closing

(* A widget that has read a frame comes to know every event published      *)
(* since that connection began, or is told that it may lack it, however    *)
(* often it overflows or is cut off, unless the server stops.  Its retry   *)
(* loop has no end, so its steps are fair.                                 *)
EventuallyKnown ==
    \A c \in Widgets : \A n \in 1..MaxEvents :
        (cursor[c] # NoCursor /\ base[c] < n /\ n <= seq[Watches[c]])
            ~> (n \in have[c] \/ stopping \/ restarts > 0)
===========================================================================
