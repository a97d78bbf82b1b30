--------------------------- MODULE CustomerAgent ---------------------------
(***************************************************************************)
(* The autonomous half of the customer-agent container: the event client     *)
(* library with its endless reconnects (event_client.py), the driver that    *)
(* has every persona react to every event (driver.py), the decision function *)
(* with its memory and its tickets (register.py), and the process around     *)
(* them with its `nat mcp serve` child (main.py).                            *)
(*                                                                           *)
(* One task runs the driver: the subscription is read only between two       *)
(* rounds of reactions, and meanwhile events wait in the socket and in the   *)
(* server's bounded queue.  Events are the positions of the feed.            *)
(***************************************************************************)
EXTENDS Integers, Sequences, SequencesExt

CONSTANTS
    Feed,          \* the tags of the events the server will emit, in order
    TagsSet,       \* whether CUSTOMER_AGENT_EVENT_TAGS is set and not empty
    EnvTags,       \* its entries, split at commas and stripped, without the empty ones
    NumPersonas,   \* personas are the positions in personas.yaml
    InitialTrust,  \* attributes.trust_level of each persona
    MaxTrust,      \* 1.0 in the unit the scores are counted in
    RawScores,     \* trust scores a model may answer with
    NoScore,       \* a missing score, or one float() refuses
    QueueMaxSize,  \* the server's QUEUE_MAXSIZE
    WireSize,      \* bound of the model: events the sockets hold
    MaxLate        \* bound of the model: requests given up that are on their way at once

Personas == 1..NumPersonas
Events == 1..Len(Feed)
Trust == 0..MaxTrust

ASSUME SizesAssumption ==
    NumPersonas \in Nat \ {0} /\ QueueMaxSize \in Nat \ {0} /\ WireSize \in Nat \ {0} /\ MaxLate \in Nat
ASSUME FeedAssumption == Feed \in Seq(STRING)
ASSUME ScoresAssumption == RawScores \subseteq Int /\ NoScore \notin Int
ASSUME TrustAssumption == MaxTrust \in Nat /\ InitialTrust \in [Personas -> Trust]

VARIABLES
    emitted,   \* events the server has emitted
    stream,    \* the subscription: "connecting", "open", "broken" (not noticed), "sleeping"
    queue,     \* the server's queue for this subscriber
    wire,      \* events sent and not yet read
    lost,      \* history: events that will never be heard
    driver,    \* "loading", "listening", "asking", "filing", "landed" or "dead"
    at,        \* the persona whose turn it is
    score,     \* the trust score of the decision being carried out
    heard,     \* history: the events the driver took off the stream, in order
    memory,    \* register._memory
    tickets,   \* history: tickets in the support store per persona and event
    late,      \* <<p, e>>: p's create_ticket about e was given up and is still on its way
    nat,       \* the child process: "up", "stopping" (terminated), "killed" or "gone"
    process,   \* "running", "ending" (in _amain's finally) or "exited"
    signalled  \* a SIGTERM or SIGINT has been handled

feedVars == <<emitted, stream, queue, wire, lost>>
roundVars == <<driver, at, score, heard, memory, tickets, late>>
procVars == <<nat, process, signalled>>
vars == <<emitted, stream, queue, wire, lost, driver, at, score, heard, memory, tickets,
          late, nat, process, signalled>>

\* _event_tags: a variable of nothing but commas and blanks is the empty tuple, not
\* the default.
DefaultTags == <<"social", "press">>
EventTags == IF TagsSet THEN EnvTags ELSE DefaultTags

\* subscribe() without a tag subscribes to every tag.
Subscribed(e) == EventTags = <<>> \/ Contains(EventTags, Feed[e])

Init ==
    /\ emitted = 0
    /\ stream = "connecting" /\ queue = <<>> /\ wire = <<>> /\ lost = {}
    /\ driver = "loading" /\ at = 1 /\ score = NoScore /\ heard = <<>>
    /\ memory = [p \in Personas |-> [trust |-> InitialTrust[p], past |-> <<>>]]
    /\ tickets = [p \in Personas |-> [e \in Events |-> 0]]
    /\ late = {}
    /\ nat = "up" /\ process = "running" /\ signalled = FALSE

----------------------------------------------------------------------------
(* The server's side of the subscription.                                    *)

Elements(s) == {s[i] : i \in DOMAIN s}

\* A full queue drops its oldest event; without a subscription nobody is offered it.
Emit ==
    LET e == emitted + 1
        full == Len(queue) >= QueueMaxSize
    IN  /\ emitted < Len(Feed)
        /\ emitted' = e
        /\ \/ ~Subscribed(e) /\ UNCHANGED <<queue, lost>>
           \/ Subscribed(e) /\ stream # "open" /\ lost' = lost \cup {e} /\ UNCHANGED queue
           \/ /\ Subscribed(e) /\ stream = "open"
              /\ queue' = Append(IF full THEN Tail(queue) ELSE queue, e)
              /\ lost' = IF full THEN lost \cup {Head(queue)} ELSE lost
        /\ UNCHANGED <<stream, wire>> /\ UNCHANGED roundVars /\ UNCHANGED procVars

Send ==
    /\ stream = "open" /\ queue # <<>> /\ Len(wire) < WireSize
    /\ wire' = Append(wire, Head(queue))
    /\ queue' = Tail(queue)
    /\ UNCHANGED <<emitted, stream, lost>> /\ UNCHANGED roundVars /\ UNCHANGED procVars

\* The connection is reset or closed, or the server restarts: its queue is gone,
\* and of what was sent the client can still read a prefix.
Break(k) ==
    /\ stream = "open"
    /\ stream' = "broken"
    /\ wire' = SubSeq(wire, 1, k)
    /\ queue' = <<>>
    /\ lost' = lost \cup Elements(queue) \cup Elements(SubSeq(wire, k + 1, Len(wire)))
    /\ UNCHANGED emitted /\ UNCHANGED roundVars /\ UNCHANGED procVars

----------------------------------------------------------------------------
(* subscribe() and _stream_once(), which run only while the driver waits for *)
(* the next event.                                                           *)

Listening == driver = "listening"

\* The request is answered; Subscribe of the server happens before the answer.
Connect ==
    /\ Listening /\ stream = "connecting"
    /\ stream' = "open"
    /\ UNCHANGED <<emitted, queue, wire, lost>> /\ UNCHANGED roundVars /\ UNCHANGED procVars

\* httpx.HTTPError of the request, or a status that raise_for_status refuses.
ConnectFails ==
    /\ Listening /\ stream = "connecting"
    /\ stream' = "sleeping"
    /\ UNCHANGED <<emitted, queue, wire, lost>> /\ UNCHANGED roundVars /\ UNCHANGED procVars

\* Mutant of Notice: the end of a stream ends the subscription, and the driver.
Notice_Ends ==
    /\ Listening /\ stream = "broken" /\ wire = <<>>
    /\ driver' = "dead" /\ process' = "ending"
    /\ nat' = IF nat = "up" THEN "stopping" ELSE nat
    /\ UNCHANGED <<at, score, heard, memory, tickets, late, signalled>> /\ UNCHANGED feedVars
\* The stream ends, with an error or without: both are logged and slept upon.
Notice ==
    /\ Listening /\ stream = "broken" /\ wire = <<>>
    /\ stream' = "sleeping"
    /\ UNCHANGED <<emitted, queue, wire, lost>> /\ UNCHANGED roundVars /\ UNCHANGED procVars

\* The end of asyncio.sleep(reconnect_seconds).
Wake ==
    /\ Listening /\ stream = "sleeping"
    /\ stream' = "connecting"
    /\ UNCHANGED <<emitted, queue, wire, lost>> /\ UNCHANGED roundVars /\ UNCHANGED procVars

\* One data line is parsed and yielded: the round of its event begins.
Receive ==
    /\ Listening /\ stream \in {"open", "broken"} /\ wire # <<>>
    /\ heard' = Append(heard, Head(wire))
    /\ wire' = Tail(wire)
    /\ driver' = "asking" /\ at' = 1
    /\ UNCHANGED <<emitted, stream, queue, lost, score, memory, tickets, late>>
    /\ UNCHANGED procVars

----------------------------------------------------------------------------
(* driver._react and register._decide_and_act.                               *)

Current == heard[Len(heard)]

\* The next persona of the loop, or the next event.
NextPersona ==
    /\ driver' = IF at = NumPersonas THEN "listening" ELSE "asking"
    /\ at' = IF at = NumPersonas THEN 1 ELSE at + 1
    /\ score' = NoScore

\* _clamp_trust_score
Clamp(raw, fallback) ==
    IF raw = NoScore THEN fallback
    ELSE IF raw < 0 THEN 0 ELSE IF raw > MaxTrust THEN MaxTrust ELSE raw

\* The last lines of _decide_and_act.
Remember(action, raw) ==
    LET trust == Clamp(raw, memory[at].trust)
    IN  memory' = [memory EXCEPT ![at] =
            [trust |-> trust,
             past |-> Append(@.past, [event |-> Current, action |-> action, trust |-> trust])]]

\* The guarded model call raises, or its answer is not JSON or not an object:
\* the persona's memory stays as it is and the loop goes on.
NoDecision ==
    /\ driver = "asking"
    /\ NextPersona
    /\ UNCHANGED <<heard, memory, tickets, late>> /\ UNCHANGED feedVars /\ UNCHANGED procVars

Decide(raw) ==
    /\ driver = "asking"
    /\ Remember("other", raw)
    /\ NextPersona
    /\ UNCHANGED <<heard, tickets, late>> /\ UNCHANGED feedVars /\ UNCHANGED procVars

\* Mutant of Complain: the memory is updated before the ticket is filed.
Complain_Early(raw) ==
    /\ driver = "asking"
    /\ Remember("open_support_ticket", raw)
    /\ driver' = "filing" /\ score' = raw
    /\ UNCHANGED <<at, heard, tickets, late>> /\ UNCHANGED feedVars /\ UNCHANGED procVars
Complain(raw) ==
    /\ driver = "asking"
    /\ driver' = "filing" /\ score' = raw
    /\ UNCHANGED <<at, heard, memory, tickets, late>> /\ UNCHANGED feedVars /\ UNCHANGED procVars

\* create_ticket is carried out by the support server.
TicketLands ==
    /\ driver = "filing"
    /\ driver' = "landed"
    /\ tickets' = [tickets EXCEPT ![at][Current] = @ + 1]
    /\ UNCHANGED <<at, score, heard, memory, late>> /\ UNCHANGED feedVars /\ UNCHANGED procVars

\* The answer arrives and parses: only now does the persona remember.
TicketAnswered ==
    /\ driver = "landed"
    /\ Remember("open_support_ticket", score)
    /\ NextPersona
    /\ UNCHANGED <<heard, tickets, late>> /\ UNCHANGED feedVars /\ UNCHANGED procVars

\* Mutant of TicketFails: a persona whose reaction failed is asked again.
TicketFails_Retry ==
    /\ driver \in {"filing", "landed"}
    /\ driver' = "asking" /\ score' = NoScore
    /\ UNCHANGED <<at, heard, memory, tickets, late>> /\ UNCHANGED feedVars /\ UNCHANGED procVars
\* The call raises, before the server acted on it or after: _react logs it and
\* the persona remembers nothing.  A request that was not carried out is gone, or
\* timed out and is still on its way.
TicketFails ==
    /\ driver \in {"filing", "landed"}
    /\ NextPersona
    /\ \/ UNCHANGED late
       \/ driver = "filing" /\ Cardinality(late) < MaxLate /\ late' = late \cup {<<at, Current>>}
    /\ UNCHANGED <<heard, memory, tickets>> /\ UNCHANGED feedVars /\ UNCHANGED procVars

\* The support server carries out a request that nobody waits for any more.
TicketLandsLate(p, e) ==
    /\ <<p, e>> \in late
    /\ late' = late \ {<<p, e>>}
    /\ tickets' = [tickets EXCEPT ![p][e] = @ + 1]
    /\ UNCHANGED <<driver, at, score, heard, memory>> /\ UNCHANGED feedVars /\ UNCHANGED procVars

----------------------------------------------------------------------------
(* main.py: the child process and its end.                                   *)

\* load_workflow connects to the support MCP server.
Load ==
    /\ driver = "loading"
    /\ driver' = "listening"
    /\ UNCHANGED <<at, score, heard, memory, tickets, late>> /\ UNCHANGED feedVars /\ UNCHANGED procVars

\* It raises: driver.run() ends, and the finally clause of _amain shuts down.
LoadFails ==
    /\ driver = "loading"
    /\ driver' = "dead" /\ process' = "ending"
    /\ nat' = IF nat = "up" THEN "stopping" ELSE nat
    /\ UNCHANGED <<at, score, heard, memory, tickets, late, signalled>> /\ UNCHANGED feedVars

\* The handler of SIGTERM and SIGINT runs shutdown() and nothing else.
Signal ==
    /\ process # "exited" /\ ~signalled
    /\ signalled' = TRUE
    /\ nat' = IF nat = "up" THEN "stopping" ELSE nat
    /\ UNCHANGED process /\ UNCHANGED feedVars /\ UNCHANGED roundVars

\* The child ends, because it was told to or by itself: nobody watches it.
ChildEnds ==
    /\ nat \in {"up", "stopping", "killed"}
    /\ nat' = "gone"
    /\ UNCHANGED <<process, signalled>> /\ UNCHANGED feedVars /\ UNCHANGED roundVars

\* Mutant of Kill: the timeout of the wait is only logged.
Kill_Waits ==
    /\ process # "exited" /\ nat = "stopping"
    /\ UNCHANGED vars
\* Ten seconds after terminate().
Kill ==
    /\ process # "exited" /\ nat = "stopping"
    /\ nat' = "killed"
    /\ UNCHANGED <<process, signalled>> /\ UNCHANGED feedVars /\ UNCHANGED roundVars

Exit ==
    /\ process = "ending" /\ nat \in {"killed", "gone"}
    /\ process' = "exited"
    /\ UNCHANGED <<nat, signalled>> /\ UNCHANGED feedVars /\ UNCHANGED roundVars

----------------------------------------------------------------------------

Client == Connect \/ ConnectFails \/ Notice \/ Wake \/ Receive

Reaction ==
    \/ NoDecision
    \/ \E raw \in RawScores \cup {NoScore} : Decide(raw) \/ Complain(raw)
    \/ TicketLands \/ TicketAnswered \/ TicketFails

Next ==
    \/ Emit \/ Send \/ (\E k \in 0..Len(wire) : Break(k))
    \/ Client \/ Reaction \/ (\E p \in Personas, e \in Events : TicketLandsLate(p, e))
    \/ Load \/ LoadFails \/ Signal \/ ChildEnds \/ Kill \/ Exit

Spec == Init /\ [][Next]_vars

(* The server's stream and the driver's task are scheduled; a model or ticket *)
(* call returns or raises, as both client libraries have timeouts; and the    *)
(* ten seconds of shutdown() pass.  Nobody has to emit an event, and no       *)
(* connection has to succeed.                                                *)
Fairness == WF_vars(Send) /\ WF_vars(Client) /\ WF_vars(Reaction) /\ WF_vars(Kill) /\ WF_vars(Exit)

FairSpec == Spec /\ Fairness

----------------------------------------------------------------------------
(* Properties                                                                *)

Actions == {"open_support_ticket", "other"}
Entries == [event : Events, action : Actions, trust : Trust]

TypeOK ==
    /\ emitted \in 0..Len(Feed)
    /\ stream \in {"connecting", "open", "broken", "sleeping"}
    /\ queue \in Seq(Events) /\ wire \in Seq(Events)
    /\ lost \subseteq Events
    /\ driver \in {"loading", "listening", "asking", "filing", "landed", "dead"}
    /\ at \in Personas
    /\ score \in RawScores \cup {NoScore}
    /\ heard \in Seq(Events)
    /\ memory \in [Personas -> [trust : Trust, past : Seq(Entries)]]
    /\ tickets \in [Personas -> [Events -> Nat]] /\ late \subseteq Personas \X Events
    /\ nat \in {"up", "stopping", "killed", "gone"}
    /\ process \in {"running", "ending", "exited"}
    /\ signalled \in BOOLEAN

\* Whatever connections break and calls fail, the agent works in rounds: no event
\* is heard twice or out of order, all personas react to the same events, and an
\* event never makes a persona complain twice.
InRound == driver \in {"asking", "filing", "landed"}
Reacted == IF InRound THEN 1..(IF driver = "landed" THEN at ELSE at - 1) ELSE Personas
R == INSTANCE CrisisRounds WITH reacted <- Reacted
Rounds == R!Spec

\* What a persona remembers, and is shown before its next decision, is true: its
\* decisions are about events of the feed in order, a complaint it remembers is a
\* ticket in the store, and the trust it acts on is that of its last decision.
MemoryTells ==
    \A p \in Personas :
        LET past == memory[p].past IN
        /\ \A i \in DOMAIN past :
              /\ past[i].event \in Elements(heard)
              /\ \A j \in 1..(i - 1) : past[j].event < past[i].event
              /\ past[i].action = "open_support_ticket" => tickets[p][past[i].event] = 1
        /\ memory[p].trust = IF past = <<>> THEN InitialTrust[p] ELSE past[Len(past)].trust

\* The agent never stops listening: however often the stream breaks, it comes to where
\* every emitted event that was asked for was heard and its round is over, but for the
\* events that a full queue dropped or that fell into a gap; and a stream that broke
\* is followed by another request, again and again.
CaughtUp ==
    ~InRound /\ \A e \in 1..emitted : Subscribed(e) => e \in lost \cup Elements(heard)
KeepsListening ==
    /\ []<>CaughtUp
    /\ stream \in {"broken", "sleeping"} ~> stream = "connecting"

\* A signal, or the failure of the driver, takes the child process down with it,
\* though the child may ignore terminate().
ChildIsStopped == (signalled \/ process = "ending") ~> nat \in {"killed", "gone"}
=============================================================================
