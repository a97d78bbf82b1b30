--------------------------- MODULE EventGenerator ---------------------------
(***************************************************************************)
(* The event-generator service: the in-process broker (event_broker.Event), *)
(* the sequencer that stamps events, the scripted /replay feed and the SSE   *)
(* subscriptions of server.py.                                               *)
(*                                                                           *)
(* Two kinds of threads run this code.  The event loop runs every HTTP       *)
(* handler, every stream and every _offer callback, one at a time; each      *)
(* /replay request starts a worker thread that calls broker.emit directly.   *)
(* The broker's dictionary of listeners is shared by all of them.            *)
(***************************************************************************)
EXTENDS Naturals, Sequences, SequencesExt

CONSTANTS
    Tags,          \* tags an event may carry
    Conns,         \* subscriber connections, each used once
    Replays,       \* worker threads, one per /replay request
    Loop,          \* the event loop thread
    Feed,          \* the tags of CRISIS_FEED, in order
    Requests,      \* the tag lists a client may ask for; a tag may be repeated
    QueueMaxSize,  \* QUEUE_MAXSIZE
    MaxPosts,      \* bound of the model: how often POST /emit is called
    MaxSeq         \* bound of the model: numbers the sequencer can give out

ASSUME FeedAssumption == Feed \in Seq(Tags)
ASSUME RequestsAssumption == Requests \subseteq Seq(Tags) \ {<<>>}
ASSUME QueueAssumption == QueueMaxSize \in Nat \ {0}
ASSUME LoopAssumption == Loop \notin Replays
ASSUME BoundsAssumption == MaxPosts \in Nat /\ MaxSeq \in Nat

Emitters == Replays \cup {Loop}

\* One event on the wire; `by` stands for its text.
Envelopes == [seq : 1..MaxSeq, tag : Tags, by : Emitters]

VARIABLES
    subscribers,  \* broker._subscribers: the listeners of each tag in registration
                  \* order; a tag with none is not a key of the dictionary
    connections,  \* server._connections
    conn,         \* where each connection is in subscribe() and stream()
    want,         \* the tag list each connection asked for
    left,         \* the tags the running subscribe() has yet to register
    thread,       \* each emitter's position inside Event.emit
    pos,          \* how many events each thread has begun to emit: for a replay,
                  \* its position in the feed
    seq,          \* _Sequencer._seq: the last number given out
    ready,        \* _offer callbacks handed to the loop and not yet run
    queue,        \* each subscriber's asyncio.Queue
    dropped,      \* _Subscriber.dropped
    sent,         \* what each stream has yielded to its client
    log,          \* history: every event offered to each subscriber
    joined,       \* history: seq when the subscription was complete
    emitted       \* history: events whose emit has returned

brokerVars == <<subscribers, connections, conn, want, left>>
emitVars == <<thread, pos, seq, emitted>>
queueVars == <<queue, dropped, sent, log>>
vars == <<subscribers, connections, conn, want, left, thread, pos, seq,
          ready, queue, dropped, sent, log, joined, emitted>>

NoTag == [seq |-> 0]
Idle == [pc |-> "idle", env |-> NoTag, todo |-> <<>>]
Unborn == [pc |-> "unborn", env |-> NoTag, todo |-> <<>>]

\* The loop runs one handler or callback at a time, to its end.
\* Mutant: handlers declared `def`, which the framework runs in a thread pool.
LoopFree_Threadpool == TRUE
LoopFree ==
    /\ \A c \in Conns : conn[c] \notin {"subscribing", "leaving"}
    /\ thread[Loop].pc = "idle"

Holds(s, x) == \E i \in DOMAIN s : s[i] = x

\* Mutant of Listening: a second registration under one tag is not noticed.
Listening_Unnoticed(c, t) == subscribers[t] # <<>> /\ Last(subscribers[t]) # c
Listening(c, t) == \E i \in DOMAIN subscribers[t] : subscribers[t][i] = c

Init ==
    /\ subscribers = [t \in Tags |-> <<>>]
    /\ connections = {}
    /\ conn = [c \in Conns |-> "none"]
    /\ want = [c \in Conns |-> <<>>]
    /\ left = <<>>
    /\ thread = [e \in Emitters |-> IF e = Loop THEN Idle ELSE Unborn]
    /\ pos = [e \in Emitters |-> 0]
    /\ seq = 0
    /\ ready = <<>>
    /\ queue = [c \in Conns |-> <<>>]
    /\ dropped = [c \in Conns |-> 0]
    /\ sent = [c \in Conns |-> <<>>]
    /\ log = [c \in Conns |-> <<>>]
    /\ joined = [c \in Conns |-> 0]
    /\ emitted = {}

----------------------------------------------------------------------------
(* GET /subscribe.  The handler holds _registry_lock, which no emitter takes: *)
(* a replay thread runs between the registrations of two tags.               *)

Subscribe(c, tags) ==
    /\ LoopFree
    /\ conn[c] = "none"
    /\ conn' = [conn EXCEPT ![c] = "subscribing"]
    /\ want' = [want EXCEPT ![c] = tags]
    /\ left' = tags
    /\ UNCHANGED <<subscribers, connections, joined, ready>>
    /\ UNCHANGED emitVars /\ UNCHANGED queueVars

\* Event.subscribe: setdefault, then append unless already there.
SubscribeTag(c) ==
    /\ conn[c] = "subscribing"
    /\ left # <<>>
    /\ subscribers' = IF Listening(c, Head(left)) THEN subscribers
                      ELSE [subscribers EXCEPT ![Head(left)] = Append(@, c)]
    /\ left' = Tail(left)
    /\ UNCHANGED <<connections, conn, want, joined, ready>>
    /\ UNCHANGED emitVars /\ UNCHANGED queueVars

Accept(c) ==
    /\ conn[c] = "subscribing"
    /\ left = <<>>
    /\ connections' = connections \cup {c}
    /\ conn' = [conn EXCEPT ![c] = "open"]
    /\ joined' = [joined EXCEPT ![c] = seq]
    /\ UNCHANGED <<subscribers, want, left, ready>>
    /\ UNCHANGED emitVars /\ UNCHANGED queueVars

\* The response begins to iterate over stream().
StartStream(c) ==
    /\ LoopFree
    /\ conn[c] = "open"
    /\ conn' = [conn EXCEPT ![c] = "streaming"]
    /\ UNCHANGED <<subscribers, connections, want, left, joined, ready>>
    /\ UNCHANGED emitVars /\ UNCHANGED queueVars

\* The client left before the response began to iterate: stream() never ran, so
\* its finally clause never runs either, and the listener stays registered.
Abandon(c) ==
    /\ LoopFree
    /\ conn[c] = "open"
    /\ conn' = [conn EXCEPT ![c] = "abandoned"]
    /\ UNCHANGED <<subscribers, connections, want, left, joined, ready>>
    /\ UNCHANGED emitVars /\ UNCHANGED queueVars

Yield(c) ==
    /\ LoopFree
    /\ conn[c] = "streaming"
    /\ queue[c] # <<>>
    /\ sent' = [sent EXCEPT ![c] = Append(@, Head(queue[c]))]
    /\ queue' = [queue EXCEPT ![c] = Tail(@)]
    /\ UNCHANGED <<dropped, log, joined, ready>>
    /\ UNCHANGED brokerVars /\ UNCHANGED emitVars

\* The client leaves a running stream, whose finally clause takes the lock.
Disconnect(c) ==
    /\ LoopFree
    /\ conn[c] = "streaming"
    /\ conn' = [conn EXCEPT ![c] = "leaving"]
    /\ UNCHANGED <<subscribers, connections, want, left, joined, ready>>
    /\ UNCHANGED emitVars /\ UNCHANGED queueVars

\* The list of listeners without the one at place i.
\* Mutant: the last one registered is taken off, whoever it is.
Without_Last(s, i) == Front(s)
Without(s, i) == RemoveAt(s, i)

\* One round of Event.unsubscribe that finds the listener (the other rounds
\* change nothing): removing the last listener of a tag deletes the key.
UnsubscribeTag(c, t) ==
    /\ conn[c] = "leaving"
    /\ \E i \in DOMAIN subscribers[t] :
           /\ subscribers[t][i] = c
           /\ subscribers' = [subscribers EXCEPT ![t] = Without(@, i)]
    /\ UNCHANGED <<connections, conn, want, left, joined, ready>>
    /\ UNCHANGED emitVars /\ UNCHANGED queueVars

\* Mutant of Swept: the sweep stops at the first tag.
Swept_OneTag(c) == \E t \in Tags : Holds(want[c], t) /\ ~Listening(c, t)
Swept(c) == \A t \in Tags : ~Listening(c, t)

Forget(c) ==
    /\ conn[c] = "leaving"
    /\ Swept(c)
    /\ connections' = connections \ {c}
    /\ conn' = [conn EXCEPT ![c] = "closed"]
    /\ UNCHANGED <<subscribers, want, left, joined, ready>>
    /\ UNCHANGED emitVars /\ UNCHANGED queueVars

----------------------------------------------------------------------------
(* Emitting: _Sequencer.emit and Event.emit, the same code on either thread.  *)

\* itertools.count(1).
NextSeq(e) == seq + 1

\* next(self._seq) is atomic; what follows it is not part of the same step.
Stamp(e, t) ==
    /\ thread[e].pc = "idle"
    /\ seq < MaxSeq
    /\ seq' = seq + 1
    /\ pos' = [pos EXCEPT ![e] = @ + 1]
    /\ thread' = [thread EXCEPT ![e] =
                    [pc |-> "stamped", env |-> [seq |-> NextSeq(e), tag |-> t, by |-> e],
                     todo |-> <<>>]]

\* POST /emit runs on the loop.
PostEmit(t) ==
    /\ LoopFree
    /\ pos[Loop] < MaxPosts
    /\ Stamp(Loop, t)
    /\ UNCHANGED <<emitted, joined, ready>>
    /\ UNCHANGED brokerVars /\ UNCHANGED queueVars

\* POST /replay starts a daemon thread that runs generate().
Replay(r) ==
    /\ LoopFree
    /\ thread[r].pc = "unborn"
    /\ thread' = [thread EXCEPT ![r] = Idle]
    /\ UNCHANGED <<pos, seq, emitted, joined, ready>>
    /\ UNCHANGED brokerVars /\ UNCHANGED queueVars

\* generate(): the next event of the feed, once the previous emit has returned.
NextOfFeed(r) ==
    /\ pos[r] < Len(Feed)
    /\ Stamp(r, Feed[pos[r] + 1])
    /\ UNCHANGED <<emitted, joined, ready>>
    /\ UNCHANGED brokerVars /\ UNCHANGED queueVars

\* `if tag in self._subscribers`
CheckTag(e) ==
    /\ thread[e].pc = "stamped"
    /\ thread' = [thread EXCEPT ![e].pc =
                    IF subscribers[thread[e].env.tag] # <<>> THEN "found" ELSE "calling"]
    /\ UNCHANGED <<pos, seq, emitted, joined, ready>>
    /\ UNCHANGED brokerVars /\ UNCHANGED queueVars

\* `list(self._subscribers[tag])`, a KeyError when the key is gone by now.
CopyListeners(e) ==
    /\ thread[e].pc = "found"
    /\ LET listeners == subscribers[thread[e].env.tag] IN
       thread' = [thread EXCEPT ![e].pc = IF listeners # <<>> THEN "calling" ELSE "dead",
                                ![e].todo = listeners]
    /\ UNCHANGED <<pos, seq, emitted, joined, ready>>
    /\ UNCHANGED brokerVars /\ UNCHANGED queueVars

\* Mutant of MayCall: an emitter that waits until its subscriber has room.
MayCall_WhenRoom(e) ==
    thread[e].pc = "calling" /\ thread[e].todo # <<>> /\ queue[Head(thread[e].todo)] = <<>>
MayCall(e) == thread[e].pc = "calling" /\ thread[e].todo # <<>>

\* listener(envelope): the offer is handed to the loop with call_soon_threadsafe.
CallListener(e) ==
    /\ MayCall(e)
    /\ ready' = Append(ready, [conn |-> Head(thread[e].todo), env |-> thread[e].env])
    /\ thread' = [thread EXCEPT ![e].todo = Tail(@)]
    /\ UNCHANGED <<pos, seq, emitted, joined>>
    /\ UNCHANGED brokerVars /\ UNCHANGED queueVars

EmitReturns(e) ==
    /\ thread[e].pc = "calling"
    /\ thread[e].todo = <<>>
    /\ thread' = [thread EXCEPT ![e] = Idle]
    /\ emitted' = emitted \cup {thread[e].env}
    /\ UNCHANGED <<pos, seq, joined, ready>>
    /\ UNCHANGED brokerVars /\ UNCHANGED queueVars

Full(q) == Len(q) >= QueueMaxSize

\* The queue with room for one more event.
\* Mutant: the newest of the waiting events is the one that goes.
MakeRoom_DropNewest(q) == IF Full(q) THEN Front(q) ELSE q
MakeRoom(q) == IF Full(q) THEN Tail(q) ELSE q

MayOffer == LoopFree /\ ready # <<>>

\* _offer: a full queue loses its oldest event, and the newest always fits.
Offer ==
    /\ MayOffer
    /\ ready' = Tail(ready)
    /\ LET c == Head(ready).conn
           env == Head(ready).env
       IN  /\ queue' = [queue EXCEPT ![c] = Append(MakeRoom(@), env)]
           /\ dropped' = [dropped EXCEPT ![c] = IF Full(queue[c]) THEN @ + 1 ELSE @]
           /\ log' = [log EXCEPT ![c] = Append(@, env)]
    /\ UNCHANGED <<sent, joined>>
    /\ UNCHANGED brokerVars /\ UNCHANGED emitVars

----------------------------------------------------------------------------

EmitStep(e) == CheckTag(e) \/ CopyListeners(e) \/ CallListener(e) \/ EmitReturns(e)

HandlerStep(c) ==
    \/ SubscribeTag(c)
    \/ Accept(c)
    \/ \E t \in Tags : UnsubscribeTag(c, t)
    \/ Forget(c)

Next ==
    \/ \E c \in Conns : \/ \E tags \in Requests : Subscribe(c, tags)
                        \/ HandlerStep(c)
                        \/ StartStream(c)
                        \/ Abandon(c)
                        \/ Yield(c)
                        \/ Disconnect(c)
    \/ \E t \in Tags : PostEmit(t)
    \/ \E r \in Replays : Replay(r) \/ NextOfFeed(r)
    \/ \E e \in Emitters : EmitStep(e)
    \/ Offer

Spec == Init /\ [][Next]_vars

(* Threads are scheduled, and the loop carries a request's handler to its end.  *)
(* Nothing is assumed of clients, which may never read a stream again, and      *)
(* nothing of the callbacks: no emitter waits for its offers to run.            *)
Fairness ==
    /\ \A e \in Emitters : WF_vars(EmitStep(e))
    /\ \A r \in Replays : WF_vars(NextOfFeed(r))
    /\ \A c \in Conns : WF_vars(HandlerStep(c))

FairSpec == Spec /\ Fairness

----------------------------------------------------------------------------
(* Properties                                                                *)

TypeOK ==
    /\ subscribers \in [Tags -> Seq(Conns)]
    /\ connections \subseteq Conns
    /\ conn \in [Conns -> {"none", "subscribing", "open", "streaming", "leaving",
                           "closed", "abandoned"}]
    /\ want \in [Conns -> Seq(Tags)]
    /\ left \in Seq(Tags)
    /\ thread \in [Emitters -> [pc : {"unborn", "idle", "stamped", "found", "calling", "dead"},
                                env : Envelopes \cup {NoTag}, todo : Seq(Conns)]]
    /\ pos \in [Emitters -> Nat]
    /\ seq \in Nat
    /\ ready \in Seq([conn : Conns, env : Envelopes])
    /\ queue \in [Conns -> Seq(Envelopes)]
    /\ dropped \in [Conns -> Nat]
    /\ sent \in [Conns -> Seq(Envelopes)]
    /\ log \in [Conns -> Seq(Envelopes)]
    /\ joined \in [Conns -> Nat]
    /\ emitted \subseteq Envelopes

\* Its listener was called with e: the event was offered, or waits for the loop.
Reached(c, e) == Holds(log[c], e) \/ Holds(ready, [conn |-> c, env |-> e])

\* Each subscriber is served as a BoundedMailbox: an event waits in its queue
\* until the stream takes it, is skipped (and counted in `dropped`) only when
\* QUEUE_MAXSIZE newer ones wait behind it, and nothing is reordered or handed
\* out twice between _offer and the stream.
Mailbox == INSTANCE BoundedMailbox
    WITH Readers <- Conns, Items <- Envelopes, Capacity <- QueueMaxSize,
         taken <- [c \in Conns |-> Len(sent[c]) + dropped[c]],
         lost <- dropped, got <- sent
Mailboxes == Mailbox!Spec

\* A subscription follows every event of its tags from the moment it is
\* complete: whatever else is subscribed or swept while replay threads run
\* through the same dictionary, an emit that has returned reached it.
NoEventMissed ==
    \A c \in Conns : conn[c] \in {"open", "streaming"} =>
        \A e \in emitted :
            e.seq > joined[c] /\ Holds(want[c], e.tag) => Reached(c, e)

\* Only events of the tags that were asked for are offered, and no number arrives
\* twice: neither one event under two tags or registrations, nor two events that
\* were stamped by different threads at the same time.  Events of one emitting
\* thread keep the order it emitted them in; numbers of different threads may
\* arrive out of order.
InThreadOrder ==
    \A c \in Conns : \A i \in DOMAIN log[c] :
        /\ Holds(want[c], log[c][i].tag)
        /\ \A j \in 1..(i - 1) :
              /\ log[c][j].seq # log[c][i].seq
              /\ log[c][j].by = log[c][i].by => log[c][j].seq < log[c][i].seq

\* Between two handlers, the count of /health is the number of connections the broker has
\* a listener of, and as far as their streams began it is the "current subscriber count"
\* (server.py:16): who subscribed is counted until its stream ends, and a stream that ends
\* leaves no listener under any of its tags.  Of a connection that was dropped before its
\* stream began nothing is claimed: it should be unsubscribed (server.py:159-160), and the
\* code leaves it registered and counted for ever.
HealthCountsListeners ==
    (\A c \in Conns : conn[c] \notin {"subscribing", "leaving"}) =>
        /\ connections = {c \in Conns : \E t \in Tags : Listening(c, t)}
        /\ \A c \in Conns : conn[c] # "abandoned" =>
              (c \in connections <=> conn[c] \in {"open", "streaming"})

\* Whatever its clients do, a replay that has begun plays the feed to its end,
\* unless its thread dies: no subscriber that stops reading, and no sweep that
\* holds the lock, makes an emitter wait.
ReplayPlaysOut ==
    \A r \in Replays : thread[r].pc = "idle" ~>
        (thread[r].pc = "dead" \/ (thread[r].pc = "idle" /\ pos[r] = Len(Feed)))

\* An event posted to the service is emitted on the loop, which no sweep of the
\* dictionary can interrupt: the KeyError that ends a replay never reaches it.
PostSurvives == thread[Loop].pc # "dead"
=============================================================================
