------------------------ MODULE CustomerAgentProofs ------------------------
(***************************************************************************)
(* Theorems about CustomerAgent, for any feed, tag filter, number of         *)
(* personas, queue and socket sizes, and any number of breaks and failures.  *)
(*                                                                           *)
(* The argument: what was heard, what is in the socket and what is in the     *)
(* server's queue are three stretches of the feed, in this order and each of  *)
(* them ascending, so an event that is heard is newer than all before it; and *)
(* in the round of the newest event, the personas whose turn is yet to come   *)
(* have neither a ticket nor a memory of it; nor has a persona a ticket whose *)
(* request was given up and is still on its way.                             *)
(***************************************************************************)
EXTENDS CustomerAgent, SequenceTheorems, TLAPS

Ascending(s) == \A i, j \in DOMAIN s : i < j => s[i] < s[j]
Below(s, t) == \A i \in DOMAIN s, j \in DOMAIN t : s[i] < t[j]
UpTo(s, n) == \A i \in DOMAIN s : s[i] <= n

FeedInv ==
    /\ Ascending(heard) /\ Ascending(wire) /\ Ascending(queue)
    /\ Below(heard, wire) /\ Below(heard, queue) /\ Below(wire, queue)
    /\ UpTo(heard, emitted) /\ UpTo(wire, emitted) /\ UpTo(queue, emitted)

\* The personas whose reaction to the current event has not reached the store.
Pending(p) == p > at \/ (p = at /\ driver # "landed")

TicketInv ==
    /\ InRound => heard # <<>>
    /\ \A p \in Personas, e \in Events :
          /\ tickets[p][e] \in {0, 1}
          /\ tickets[p][e] = 1 => e \in Elements(heard)
          /\ InRound /\ e = Current /\ Pending(p) => tickets[p][e] = 0
          /\ driver = "landed" /\ e = Current /\ p = at => tickets[p][e] = 1

\* A request that was given up is about an event that was heard, of a persona whose turn
\* is over, and its ticket is not in the store.
LateInv ==
    \A p \in Personas, e \in Events : <<p, e>> \in late =>
        /\ tickets[p][e] = 0 /\ e \in Elements(heard)
        /\ InRound /\ e = Current => ~Pending(p)

LateTicket == \E p \in Personas, e \in Events : TicketLandsLate(p, e)

MemoryInv ==
    /\ MemoryTells
    /\ InRound => \A p \in Personas : p >= at =>
          \A i \in DOMAIN memory[p].past : memory[p].past[i].event < Current

----------------------------------------------------------------------------
(* Sequences that stay ascending.                                            *)

LEMMA AppendAscends ==
    ASSUME NEW s \in Seq(Events), NEW e \in Events, Ascending(s), \A i \in DOMAIN s : s[i] < e
    PROVE  Append(s, e) \in Seq(Events) /\ Ascending(Append(s, e))
  <1>1. /\ Append(s, e) \in Seq(Events) /\ DOMAIN Append(s, e) = 1..(Len(s) + 1)
        /\ \A i \in 1..Len(s) : Append(s, e)[i] = s[i]
        /\ Append(s, e)[Len(s) + 1] = e
        /\ DOMAIN s = 1..Len(s) /\ Len(s) \in Nat
    OBVIOUS
  <1>2. ASSUME NEW i \in DOMAIN Append(s, e), NEW j \in DOMAIN Append(s, e), i < j
        PROVE  Append(s, e)[i] < Append(s, e)[j]
    <2>1. i \in 1..Len(s)
      BY <1>1, <1>2
    <2>2. CASE j \in 1..Len(s)
      BY <1>1, <1>2, <2>1, <2>2 DEF Ascending
    <2>3. CASE j = Len(s) + 1
      BY <1>1, <2>1, <2>3
    <2> QED BY <1>1, <2>2, <2>3
  <1> QED BY <1>1, <1>2 DEF Ascending

LEMMA TailIs ==
    ASSUME NEW s \in Seq(Events), s # <<>>
    PROVE  /\ Tail(s) \in Seq(Events) /\ Head(s) \in Events /\ Head(s) = s[1]
           /\ 1 \in DOMAIN s /\ DOMAIN s = 1..Len(s) /\ Len(s) \in Nat
           /\ DOMAIN Tail(s) = 1..(Len(s) - 1)
           /\ \A i \in DOMAIN Tail(s) : i + 1 \in DOMAIN s /\ Tail(s)[i] = s[i + 1]
  <1>1. Len(s) \in Nat /\ Len(s) > 0 /\ DOMAIN s = 1..Len(s)
    OBVIOUS
  <1> QED BY <1>1

LEMMA PrefixIs ==
    ASSUME NEW s \in Seq(Events), NEW k \in 0..Len(s)
    PROVE  /\ SubSeq(s, 1, k) \in Seq(Events)
           /\ DOMAIN SubSeq(s, 1, k) \subseteq DOMAIN s
           /\ \A i \in DOMAIN SubSeq(s, 1, k) : SubSeq(s, 1, k)[i] = s[i]
  <1>1. Len(s) \in Nat /\ DOMAIN s = 1..Len(s) /\ k \in Nat
    OBVIOUS
  <1>2. SubSeq(s, 1, k) = [i \in 1..k |-> s[i]]
    BY <1>1
  <1>3. \A i \in 1..k : i \in DOMAIN s /\ s[i] \in Events
    BY <1>1
  <1>4. SubSeq(s, 1, k) \in Seq(Events)
    BY <1>1, <1>2, <1>3
  <1> QED BY <1>1, <1>2, <1>3, <1>4

LEMMA Sizes ==
    /\ NumPersonas \in Nat /\ NumPersonas > 0 /\ 1 \in Personas
    /\ Len(Feed) \in Nat /\ Events = 1..Len(Feed)
    /\ MaxTrust \in Nat /\ InitialTrust \in [Personas -> Trust] /\ Trust = 0..MaxTrust
  BY SizesAssumption, FeedAssumption, TrustAssumption DEF Personas, Events, Trust

----------------------------------------------------------------------------
(* Types.                                                                    *)

FeedTypes ==
    /\ emitted \in 0..Len(Feed)
    /\ stream \in {"connecting", "open", "broken", "sleeping"}
    /\ queue \in Seq(Events) /\ wire \in Seq(Events) /\ lost \subseteq Events
RoundTypes ==
    /\ driver \in {"loading", "listening", "asking", "filing", "landed", "dead"}
    /\ at \in Personas /\ score \in RawScores \cup {NoScore} /\ heard \in Seq(Events)
    /\ memory \in [Personas -> [trust : Trust, past : Seq(Entries)]]
    /\ tickets \in [Personas -> [Events -> Nat]] /\ late \subseteq Personas \X Events
ProcTypes ==
    /\ nat \in {"up", "stopping", "killed", "gone"}
    /\ process \in {"running", "ending", "exited"}
    /\ signalled \in BOOLEAN

Types == FeedTypes /\ RoundTypes /\ ProcTypes

LEMMA TypesAre == Types => TypeOK
  BY Zenon DEF Types, TypeOK, FeedTypes, RoundTypes, ProcTypes

LEMMA InitTypes == Init => Types
  <1> SUFFICES ASSUME Init PROVE Types
    OBVIOUS
  <1>1. emitted \in 0..Len(Feed) /\ queue \in Seq(Events) /\ wire \in Seq(Events) /\ heard \in Seq(Events)
    BY Sizes DEF Init
  <1>2. memory \in [Personas -> [trust : Trust, past : Seq(Entries)]]
    <2>1. <<>> \in Seq(Entries)
      OBVIOUS
    <2> QED BY <2>1, Sizes DEF Init
  <1>3. tickets \in [Personas -> [Events -> Nat]] /\ late \subseteq Personas \X Events
    BY DEF Init
  <1>4. at \in Personas
    BY Sizes DEF Init
  <1>5. signalled \in BOOLEAN
    BY Zenon DEF Init
  <1>6. /\ stream \in {"connecting", "open", "broken", "sleeping"} /\ lost \subseteq Events
        /\ driver \in {"loading", "listening", "asking", "filing", "landed", "dead"}
        /\ score \in RawScores \cup {NoScore}
        /\ nat \in {"up", "stopping", "killed", "gone"}
        /\ process \in {"running", "ending", "exited"}
    BY DEF Init
  <1> QED BY <1>1, <1>2, <1>3, <1>4, <1>5, <1>6 DEF Types, FeedTypes, RoundTypes, ProcTypes

LEMMA FeedSame == FeedTypes /\ UNCHANGED feedVars => FeedTypes'
  BY DEF FeedTypes, feedVars
LEMMA RoundSame == RoundTypes /\ UNCHANGED roundVars => RoundTypes'
  BY DEF RoundTypes, roundVars
LEMMA ProcSame == ProcTypes /\ UNCHANGED procVars => ProcTypes'
  BY Zenon DEF ProcTypes, procVars

LEMMA EmitFeed == FeedTypes /\ Emit => FeedTypes'
  <1> SUFFICES ASSUME FeedTypes, Emit PROVE FeedTypes'
    OBVIOUS
  <1> DEFINE e == emitted + 1
  <1>1. e \in Events /\ e \in 0..Len(Feed)
    BY Sizes DEF FeedTypes, Emit
  <1>2. Len(queue) >= QueueMaxSize => queue # <<>>
    BY SizesAssumption DEF FeedTypes
  <1>3. queue # <<>> => Tail(queue) \in Seq(Events) /\ Head(queue) \in Events
    BY TailIs DEF FeedTypes
  <1>4. queue' \in Seq(Events) /\ lost' \subseteq Events
    <2>1. CASE UNCHANGED <<queue, lost>> \/ (lost' = lost \cup {e} /\ UNCHANGED queue)
      BY <2>1, <1>1 DEF FeedTypes
    <2>2. CASE /\ queue' = Append(IF Len(queue) >= QueueMaxSize THEN Tail(queue) ELSE queue, e)
               /\ lost' = IF Len(queue) >= QueueMaxSize THEN lost \cup {Head(queue)} ELSE lost
      BY <2>2, <1>1, <1>2, <1>3 DEF FeedTypes
    <2> QED BY <2>1, <2>2 DEF Emit
  <1> QED BY <1>1, <1>4 DEF FeedTypes, Emit

LEMMA SendFeed == FeedTypes /\ Send => FeedTypes'
  <1> SUFFICES ASSUME FeedTypes, Send PROVE FeedTypes'
    OBVIOUS
  <1>1. Tail(queue) \in Seq(Events) /\ Head(queue) \in Events
    BY TailIs DEF FeedTypes, Send
  <1> QED BY <1>1 DEF FeedTypes, Send

LEMMA BreakFeed == ASSUME NEW k \in 0..Len(wire), FeedTypes, Break(k) PROVE FeedTypes'
  <1>1. SubSeq(wire, 1, k) \in Seq(Events) /\ <<>> \in Seq(Events)
    BY PrefixIs DEF FeedTypes
  <1>2. Elements(queue) \subseteq Events
    BY DEF FeedTypes, Elements
  <1>3. Elements(SubSeq(wire, k + 1, Len(wire))) \subseteq Events
    <2>1. SubSeq(wire, k + 1, Len(wire)) \in Seq(Events)
      BY SubSeqProperties DEF FeedTypes
    <2> QED BY <2>1 DEF Elements
  <1>4. wire' \in Seq(Events) /\ queue' \in Seq(Events)
    BY <1>1 DEF Break
  <1>5. lost' \subseteq Events
    BY <1>2, <1>3 DEF Break, FeedTypes
  <1> QED BY <1>4, <1>5 DEF FeedTypes, Break

LEMMA ClientTypes == Types /\ Client => Types'
  <1> SUFFICES ASSUME Types, Client PROVE Types'
    OBVIOUS
  <1>1. FeedTypes /\ RoundTypes /\ ProcTypes
    BY DEF Types
  <1>2. CASE UNCHANGED roundVars /\ UNCHANGED procVars /\ (Connect \/ ConnectFails \/ Wake \/ Notice)
    <2>1. FeedTypes'
      BY <1>1, <1>2 DEF FeedTypes, Connect, ConnectFails, Wake, Notice
    <2> QED BY Zenon, <1>1, <1>2, <2>1, RoundSame, ProcSame DEF Types
  <1>3. CASE Receive
    <2>1. Head(wire) \in Events /\ Tail(wire) \in Seq(Events)
      BY <1>1, <1>3, TailIs DEF FeedTypes, Receive
    <2>2. FeedTypes'
      BY <1>1, <1>3, <2>1 DEF FeedTypes, Receive
    <2>3. RoundTypes'
      BY <1>1, <1>3, <2>1, Sizes DEF RoundTypes, Receive
    <2>4. UNCHANGED procVars
      BY <1>3 DEF Receive
    <2> QED BY Zenon, <1>1, <2>2, <2>3, <2>4, ProcSame DEF Types
  <1>4. Connect \/ ConnectFails \/ Wake \/ Notice => UNCHANGED roundVars /\ UNCHANGED procVars
    BY Zenon DEF Connect, ConnectFails, Wake, Notice
  <1> QED BY Zenon, <1>2, <1>3, <1>4 DEF Client

LEMMA CurrentType ==
    ASSUME RoundTypes, heard # <<>>
    PROVE  Current \in Events /\ Len(heard) \in DOMAIN heard
  BY DEF RoundTypes, Current

LEMMA ClampType ==
    ASSUME NEW raw \in RawScores \cup {NoScore}, NEW t \in Trust
    PROVE  Clamp(raw, t) \in Trust
  BY ScoresAssumption, Sizes DEF Clamp

LEMMA RememberType ==
    ASSUME RoundTypes, heard # <<>>, NEW raw \in RawScores \cup {NoScore},
           NEW action \in Actions, Remember(action, raw)
    PROVE  memory' \in [Personas -> [trust : Trust, past : Seq(Entries)]]
  <1> DEFINE t == Clamp(raw, memory[at].trust)
             entry == [event |-> Current, action |-> action, trust |-> t]
  <1>1. at \in Personas /\ memory[at] \in [trust : Trust, past : Seq(Entries)]
    BY DEF RoundTypes
  <1>2. t \in Trust
    BY <1>1, ClampType
  <1>3. entry \in Entries
    BY <1>2, CurrentType DEF Entries
  <1>4. Append(memory[at].past, entry) \in Seq(Entries)
    BY <1>1, <1>3
  <1>5. [trust |-> t, past |-> Append(memory[at].past, entry)] \in [trust : Trust, past : Seq(Entries)]
    BY <1>2, <1>4
  <1>6. memory' = [memory EXCEPT ![at] = [trust |-> t, past |-> Append(memory[at].past, entry)]]
    BY DEF Remember
  <1> HIDE DEF t, entry
  <1> QED BY <1>1, <1>5, <1>6 DEF RoundTypes

LEMMA TurnType ==
    ASSUME at \in Personas, NextPersona
    PROVE  /\ at' \in Personas /\ score' \in RawScores \cup {NoScore}
           /\ driver' \in {"listening", "asking"}
  BY Sizes DEF NextPersona, Personas

LEMMA ReactionTypes == RoundTypes /\ (InRound => heard # <<>>) /\ Reaction => RoundTypes'
  <1> SUFFICES ASSUME RoundTypes, InRound => heard # <<>>, Reaction PROVE RoundTypes'
    OBVIOUS
  <1>0. at \in Personas /\ heard \in Seq(Events)
    BY DEF RoundTypes
  <1>1. CASE NoDecision
    BY <1>1, <1>0, TurnType DEF NoDecision, RoundTypes
  <1>2. ASSUME NEW raw \in RawScores \cup {NoScore}, Decide(raw) PROVE RoundTypes'
    <2>1. heard # <<>>
      BY <1>2 DEF Decide, InRound
    <2>2. memory' \in [Personas -> [trust : Trust, past : Seq(Entries)]]
      BY <1>2, <2>1, RememberType DEF Decide, Actions
    <2> QED BY <1>0, <1>2, <2>2, TurnType DEF Decide, RoundTypes
  <1>3. ASSUME NEW raw \in RawScores \cup {NoScore}, Complain(raw) PROVE RoundTypes'
    BY <1>3 DEF Complain, RoundTypes
  <1>4. CASE TicketLands
    <2>1. heard # <<>>
      BY <1>4 DEF TicketLands, InRound
    <2>2. Current \in Events
      BY <2>1, CurrentType
    <2>3. tickets' \in [Personas -> [Events -> Nat]]
      BY <1>0, <1>4, <2>2 DEF TicketLands, RoundTypes
    <2> QED BY <1>4, <2>3 DEF TicketLands, RoundTypes
  <1>5. CASE TicketAnswered
    <2>1. heard # <<>>
      BY <1>5 DEF TicketAnswered, InRound
    <2>2. memory' \in [Personas -> [trust : Trust, past : Seq(Entries)]]
      BY <1>5, <2>1, RememberType DEF TicketAnswered, Actions, RoundTypes
    <2> QED BY <1>0, <1>5, <2>2, TurnType DEF TicketAnswered, RoundTypes
  <1>6. CASE TicketFails
    <2>1. Current \in Events
      BY <1>6, CurrentType DEF TicketFails, InRound
    <2>2. late' \subseteq Personas \X Events
      BY <1>0, <1>6, <2>1 DEF TicketFails, RoundTypes
    <2> QED BY <1>0, <1>6, <2>2, TurnType DEF TicketFails, RoundTypes
  <1> QED BY Zenon, <1>1, <1>2, <1>3, <1>4, <1>5, <1>6 DEF Reaction

LEMMA TypesKept == Types /\ (InRound => heard # <<>>) /\ [Next]_vars => Types'
  <1> SUFFICES ASSUME Types, InRound => heard # <<>>, [Next]_vars PROVE Types'
    OBVIOUS
  <1>0. FeedTypes /\ RoundTypes /\ ProcTypes
    BY DEF Types
  <1>1. CASE Emit
    <2>1. UNCHANGED roundVars /\ UNCHANGED procVars
      BY Zenon, <1>1 DEF Emit
    <2> QED BY Zenon, <1>0, <1>1, <2>1, EmitFeed, RoundSame, ProcSame DEF Types
  <1>2. CASE Send
    <2>1. UNCHANGED roundVars /\ UNCHANGED procVars
      BY Zenon, <1>2 DEF Send
    <2> QED BY Zenon, <1>0, <1>2, <2>1, SendFeed, RoundSame, ProcSame DEF Types
  <1>3. ASSUME NEW k \in 0..Len(wire), Break(k) PROVE Types'
    <2>1. UNCHANGED roundVars /\ UNCHANGED procVars
      BY Zenon, <1>3 DEF Break
    <2>2. FeedTypes'
      BY <1>0, <1>3, BreakFeed
    <2> QED BY Zenon, <1>0, <2>1, <2>2, RoundSame, ProcSame DEF Types
  <1>4. CASE Client
    BY Zenon, <1>4, ClientTypes
  <1>5. CASE Reaction
    <2>1. UNCHANGED feedVars /\ UNCHANGED procVars
      BY Zenon, <1>5 DEF Reaction, NoDecision, Decide, Complain, TicketLands, TicketAnswered, TicketFails
    <2> QED BY Zenon, <1>0, <1>5, <2>1, ReactionTypes, FeedSame, ProcSame DEF Types
  <1>6. CASE Load
    <2>1. UNCHANGED feedVars /\ UNCHANGED procVars
      BY Zenon, <1>6 DEF Load
    <2>2. RoundTypes'
      BY <1>0, <1>6 DEF Load, RoundTypes
    <2> QED BY Zenon, <1>0, <2>1, <2>2, FeedSame, ProcSame DEF Types
  <1>7. CASE LoadFails
    <2>1. UNCHANGED feedVars
      BY Zenon, <1>7 DEF LoadFails
    <2>2. RoundTypes'
      BY <1>0, <1>7 DEF LoadFails, RoundTypes
    <2>3. ProcTypes'
      BY <1>0, <1>7 DEF LoadFails, ProcTypes
    <2> QED BY Zenon, <1>0, <2>1, <2>2, <2>3, FeedSame DEF Types
  <1>8. CASE Signal \/ ChildEnds \/ Kill \/ Exit
    <2>1. UNCHANGED feedVars /\ UNCHANGED roundVars
      BY Zenon, <1>8 DEF Signal, ChildEnds, Kill, Exit
    <2>2. ProcTypes'
      BY <1>0, <1>8 DEF Signal, ChildEnds, Kill, Exit, ProcTypes
    <2> QED BY Zenon, <1>0, <2>1, <2>2, FeedSame, RoundSame DEF Types
  <1>9. CASE UNCHANGED vars
    <2>1. UNCHANGED feedVars /\ UNCHANGED roundVars /\ UNCHANGED procVars
      BY Zenon, <1>9 DEF vars, feedVars, roundVars, procVars
    <2> QED BY Zenon, <1>0, <2>1, FeedSame, RoundSame, ProcSame DEF Types
  <1>10. CASE LateTicket
    <2>1. UNCHANGED feedVars /\ UNCHANGED procVars
      BY Zenon, <1>10 DEF LateTicket, TicketLandsLate
    <2>2. RoundTypes'
      BY <1>0, <1>10 DEF LateTicket, TicketLandsLate, RoundTypes
    <2> QED BY Zenon, <1>0, <2>1, <2>2, FeedSame, ProcSame DEF Types
  <1> QED BY Zenon, <1>1, <1>2, <1>3, <1>4, <1>5, <1>6, <1>7, <1>8, <1>9, <1>10 DEF Next, LateTicket

----------------------------------------------------------------------------
(* The three stretches of the feed.                                          *)

Inv == Types /\ FeedInv /\ TicketInv /\ LateInv /\ MemoryInv

LEMMA InitInv == Init => Inv
  <1> SUFFICES ASSUME Init PROVE Inv
    OBVIOUS
  <1>1. Types
    BY InitTypes
  <1>2. FeedInv
    BY DEF Init, FeedInv, Ascending, Below, UpTo
  <1>3. TicketInv
    BY DEF Init, TicketInv, InRound
  <1>4. MemoryInv
    BY DEF Init, MemoryInv, MemoryTells, InRound
  <1>5. LateInv
    BY DEF Init, LateInv
  <1> QED BY <1>1, <1>2, <1>3, <1>4, <1>5 DEF Inv

LEMMA ElementsAre ==
    ASSUME NEW s \in Seq(Events)
    PROVE  \A i \in DOMAIN s : s[i] \in Events /\ s[i] \in Nat /\ i \in Nat \ {0}
  <1>1. \A i \in DOMAIN s : s[i] \in Events /\ i \in Nat \ {0}
    OBVIOUS
  <1>2. \A e \in Events : e \in Nat
    BY Sizes
  <1> QED BY <1>1, <1>2

LEMMA FeedSkips ==
    FeedInv /\ UNCHANGED <<heard, wire, queue>> /\ emitted' >= emitted
        /\ FeedTypes /\ FeedTypes' /\ RoundTypes => FeedInv'
  <1> SUFFICES ASSUME FeedInv, UNCHANGED <<heard, wire, queue>>, emitted' >= emitted,
                      FeedTypes, FeedTypes', RoundTypes
               PROVE  FeedInv'
    OBVIOUS
  <1>1. /\ emitted \in Nat /\ emitted' \in Nat /\ \A i \in DOMAIN heard : heard[i] \in Nat
        /\ \A i \in DOMAIN wire : wire[i] \in Nat
        /\ \A i \in DOMAIN queue : queue[i] \in Nat
    BY Sizes, ElementsAre DEF FeedTypes, RoundTypes
  <1> QED BY <1>1 DEF FeedInv, Ascending, Below, UpTo

LEMMA EmitKeeps == Types /\ Types' /\ FeedInv /\ Emit => FeedInv'
  <1> SUFFICES ASSUME Types, Types', FeedInv, Emit PROVE FeedInv'
    OBVIOUS
  <1>0. /\ FeedTypes /\ FeedTypes' /\ RoundTypes /\ emitted \in Nat /\ emitted' = emitted + 1
        /\ UNCHANGED <<heard, wire>>
    BY Sizes DEF Types, FeedTypes, Emit, roundVars
  <1> DEFINE e == emitted + 1
             rest == IF Len(queue) >= QueueMaxSize THEN Tail(queue) ELSE queue
  <1>1. CASE UNCHANGED queue
    BY <1>0, <1>1, FeedSkips
  <1>2. CASE queue' = Append(rest, e)
    <2>1. /\ \A i \in DOMAIN heard : heard[i] \in Nat
          /\ \A i \in DOMAIN wire : wire[i] \in Nat
          /\ \A i \in DOMAIN queue : queue[i] \in Nat
          /\ e \in Events /\ queue \in Seq(Events)
      <3>1. queue \in Seq(Events) /\ heard \in Seq(Events) /\ wire \in Seq(Events)
        BY <1>0 DEF FeedTypes, RoundTypes
      <3>2. e \in Events
        BY <1>0, Sizes DEF FeedTypes, Emit
      <3> HIDE DEF e
      <3> QED BY <3>1, <3>2, ElementsAre
    <2>2. /\ rest \in Seq(Events) /\ Ascending(rest)
          /\ \A i \in DOMAIN rest : \E j \in DOMAIN queue : rest[i] = queue[j]
      <3>1. CASE Len(queue) >= QueueMaxSize
        <4>1. queue # <<>>
          BY <3>1, <2>1, SizesAssumption
        <4>2. \A i \in DOMAIN Tail(queue) : i \in Int /\ i + 1 \in DOMAIN queue /\ Tail(queue)[i] = queue[i + 1]
          BY <4>1, <2>1, TailIs
        <4>3. Ascending(Tail(queue))
          BY <4>2 DEF FeedInv, Ascending
        <4>4. Tail(queue) \in Seq(Events)
          BY <4>1, <2>1, TailIs
        <4> QED BY <3>1, <4>2, <4>3, <4>4
      <3>2. CASE ~(Len(queue) >= QueueMaxSize)
        BY <3>2, <2>1 DEF FeedInv
      <3> QED BY <3>1, <3>2
    <2>3. \A i \in DOMAIN rest : rest[i] < e
      BY <1>0, <2>1, <2>2 DEF FeedInv, UpTo
    <2>4. Ascending(Append(rest, e))
      <3> HIDE DEF rest, e
      <3> QED BY <2>1, <2>2, <2>3, AppendAscends
    <2>5. \A i \in DOMAIN Append(rest, e) :
             Append(rest, e)[i] = e \/ \E j \in DOMAIN queue : Append(rest, e)[i] = queue[j]
      <3> HIDE DEF rest, e
      <3> QED BY <2>2
    <2> HIDE DEF rest
    <2>6. Ascending(queue') /\ UpTo(queue', emitted')
      BY <1>0, <1>2, <2>1, <2>4, <2>5 DEF FeedInv, UpTo
    <2>7. Below(heard', queue') /\ Below(wire', queue')
      BY <1>0, <1>2, <2>1, <2>5 DEF FeedInv, Below, UpTo
    <2>8. /\ Ascending(heard') /\ Ascending(wire') /\ Below(heard', wire')
          /\ UpTo(heard', emitted') /\ UpTo(wire', emitted')
      BY <1>0, <2>1 DEF FeedInv, Ascending, Below, UpTo
    <2> QED BY <2>6, <2>7, <2>8 DEF FeedInv
  <1> QED BY <1>1, <1>2 DEF Emit

LEMMA SendKeeps == Types /\ FeedInv /\ Send => FeedInv'
  <1> SUFFICES ASSUME Types, FeedInv, Send PROVE FeedInv'
    OBVIOUS
  <1>1. /\ queue \in Seq(Events) /\ wire \in Seq(Events) /\ heard \in Seq(Events) /\ queue # <<>>
        /\ wire' = Append(wire, Head(queue)) /\ queue' = Tail(queue)
        /\ UNCHANGED <<heard, emitted>>
    BY DEF Types, FeedTypes, RoundTypes, Send, roundVars
  <1>2. /\ Head(queue) \in Events /\ Head(queue) = queue[1] /\ 1 \in DOMAIN queue
        /\ \A i \in DOMAIN Tail(queue) : i \in Nat \ {0} /\ i + 1 \in DOMAIN queue
                                         /\ Tail(queue)[i] = queue[i + 1]
    BY <1>1, TailIs
  <1>3. Ascending(wire')
    <2>1. \A i \in DOMAIN wire : wire[i] < Head(queue)
      BY <1>2 DEF FeedInv, Below
    <2> QED BY <1>1, <1>2, <2>1, AppendAscends DEF FeedInv
  <1>4. \A i \in DOMAIN wire' : wire'[i] = queue[1] \/ (i \in DOMAIN wire /\ wire'[i] = wire[i])
    BY <1>1, <1>2
  <1>5. Ascending(queue')
    BY <1>1, <1>2 DEF FeedInv, Ascending
  <1>6. Below(heard, wire') /\ UpTo(wire', emitted)
    BY <1>2, <1>4 DEF FeedInv, Below, UpTo
  <1>7. Below(heard, queue') /\ UpTo(queue', emitted)
    BY <1>1, <1>2 DEF FeedInv, Below, UpTo
  <1>8. Below(wire', queue')
    <2> SUFFICES ASSUME NEW i \in DOMAIN wire', NEW j \in DOMAIN queue' PROVE wire'[i] < queue'[j]
      BY DEF Below
    <2>1. j + 1 \in DOMAIN queue /\ queue'[j] = queue[j + 1] /\ 1 < j + 1
      BY <1>1, <1>2
    <2>2. queue[1] < queue[j + 1]
      BY <1>2, <2>1 DEF FeedInv, Ascending
    <2>3. CASE wire'[i] = queue[1]
      BY <2>1, <2>2, <2>3
    <2>4. CASE i \in DOMAIN wire /\ wire'[i] = wire[i]
      BY <2>1, <2>4 DEF FeedInv, Below
    <2> QED BY <1>4, <2>3, <2>4
  <1> QED BY <1>1, <1>3, <1>5, <1>6, <1>7, <1>8 DEF FeedInv

LEMMA BreakKeeps == ASSUME Types, FeedInv, NEW k \in 0..Len(wire), Break(k) PROVE FeedInv'
  <1>1. /\ wire \in Seq(Events) /\ wire' = SubSeq(wire, 1, k) /\ queue' = <<>>
        /\ UNCHANGED <<heard, emitted>>
    BY DEF Types, FeedTypes, Break, roundVars
  <1>2. /\ DOMAIN wire' \subseteq DOMAIN wire
        /\ \A i \in DOMAIN wire' : wire'[i] = wire[i]
    BY <1>1, PrefixIs
  <1>3. DOMAIN queue' = {}
    BY <1>1
  <1> QED BY <1>1, <1>2, <1>3 DEF FeedInv, Ascending, Below, UpTo

LEMMA ReceiveKeeps == Types /\ FeedInv /\ Receive => FeedInv'
  <1> SUFFICES ASSUME Types, FeedInv, Receive PROVE FeedInv'
    OBVIOUS
  <1>1. /\ queue \in Seq(Events) /\ wire \in Seq(Events) /\ heard \in Seq(Events) /\ wire # <<>>
        /\ heard' = Append(heard, Head(wire)) /\ wire' = Tail(wire)
        /\ UNCHANGED <<queue, emitted>>
    BY DEF Types, FeedTypes, RoundTypes, Receive
  <1>2. /\ Head(wire) \in Events /\ Head(wire) = wire[1] /\ 1 \in DOMAIN wire
        /\ \A i \in DOMAIN Tail(wire) : i \in Nat \ {0} /\ i + 1 \in DOMAIN wire
                                        /\ Tail(wire)[i] = wire[i + 1]
    BY <1>1, TailIs
  <1>3. Ascending(heard')
    <2>1. \A i \in DOMAIN heard : heard[i] < Head(wire)
      BY <1>2 DEF FeedInv, Below
    <2> QED BY <1>1, <1>2, <2>1, AppendAscends DEF FeedInv
  <1>4. \A i \in DOMAIN heard' : heard'[i] = wire[1] \/ (i \in DOMAIN heard /\ heard'[i] = heard[i])
    BY <1>1, <1>2
  <1>5. Ascending(wire')
    BY <1>1, <1>2 DEF FeedInv, Ascending
  <1>6. Below(heard', queue) /\ UpTo(heard', emitted)
    BY <1>2, <1>4 DEF FeedInv, Below, UpTo
  <1>7. Below(wire', queue) /\ UpTo(wire', emitted)
    BY <1>1, <1>2 DEF FeedInv, Below, UpTo
  <1>8. Below(heard', wire')
    <2> SUFFICES ASSUME NEW i \in DOMAIN heard', NEW j \in DOMAIN wire' PROVE heard'[i] < wire'[j]
      BY DEF Below
    <2>1. j + 1 \in DOMAIN wire /\ wire'[j] = wire[j + 1] /\ 1 < j + 1
      BY <1>1, <1>2
    <2>2. wire[1] < wire[j + 1]
      BY <1>2, <2>1 DEF FeedInv, Ascending
    <2>3. CASE heard'[i] = wire[1]
      BY <2>1, <2>2, <2>3
    <2>4. CASE i \in DOMAIN heard /\ heard'[i] = heard[i]
      BY <2>1, <2>4 DEF FeedInv, Below
    <2> QED BY <1>4, <2>3, <2>4
  <1> QED BY <1>1, <1>3, <1>5, <1>6, <1>7, <1>8 DEF FeedInv

\* What a step does to the variables of the feed.
LEMMA StepKinds ==
    ASSUME [Next]_vars
    PROVE  \/ Emit \/ Send \/ (\E k \in 0..Len(wire) : Break(k)) \/ Receive
           \/ (Reaction \/ LateTicket) /\ UNCHANGED feedVars /\ UNCHANGED heard
           \/ UNCHANGED <<emitted, queue, wire, heard, at, memory, tickets, late>>
              /\ (InRound \/ InRound' => UNCHANGED driver)
  <1>1. CASE Client
    BY <1>1 DEF Client, Connect, ConnectFails, Notice, Wake, roundVars
  <1>2. CASE Reaction
    BY Zenon, <1>2 DEF Reaction, NoDecision, Decide, Complain, TicketLands, TicketAnswered, TicketFails
  <1>3. CASE Load \/ LoadFails
    BY <1>3 DEF Load, LoadFails, feedVars, InRound
  <1>4. CASE Signal \/ ChildEnds \/ Kill \/ Exit
    BY <1>4 DEF Signal, ChildEnds, Kill, Exit, feedVars, roundVars
  <1>5. CASE UNCHANGED vars
    BY <1>5 DEF vars
  <1>6. CASE LateTicket
    BY Zenon, <1>6 DEF LateTicket, TicketLandsLate
  <1> QED BY Zenon, <1>1, <1>2, <1>3, <1>4, <1>5, <1>6 DEF Next, LateTicket

LEMMA FeedKept == Types /\ Types' /\ FeedInv /\ [Next]_vars => FeedInv'
  <1> SUFFICES ASSUME Types, Types', FeedInv, [Next]_vars PROVE FeedInv'
    OBVIOUS
  <1>1. CASE UNCHANGED <<emitted, queue, wire, heard>>
    BY <1>1 DEF FeedInv, Ascending, Below, UpTo
  <1>2. UNCHANGED feedVars /\ UNCHANGED heard => UNCHANGED <<emitted, queue, wire, heard>>
    BY DEF feedVars
  <1>3. UNCHANGED <<emitted, queue, wire, heard, at, memory, tickets, late>> => UNCHANGED <<emitted, queue, wire, heard>>
    BY Zenon
  <1> QED BY Zenon, <1>1, <1>2, <1>3, StepKinds, EmitKeeps, SendKeeps, BreakKeeps, ReceiveKeeps

----------------------------------------------------------------------------
(* The round of the newest event.                                            *)

LEMMA HeardIs ==
    ASSUME RoundTypes
    PROVE  /\ heard \in Seq(Events) /\ Len(heard) \in Nat /\ DOMAIN heard = 1..Len(heard)
           /\ at \in Nat /\ at > 0 /\ at <= NumPersonas /\ NumPersonas \in Nat
           /\ Personas = 1..NumPersonas
  BY Sizes DEF RoundTypes, Personas

\* A step that ends no reaction and begins none changes nothing about the round.
LEMMA QuietKeeps ==
    ASSUME TicketInv, MemoryInv, UNCHANGED <<heard, at, memory, tickets>>,
           InRound \/ InRound' => UNCHANGED driver
    PROVE  TicketInv' /\ MemoryInv'
  <1>1. InRound' => InRound /\ driver' = driver
    BY DEF InRound
  <1>2. UNCHANGED Current /\ UNCHANGED Elements(heard) /\ MemoryTells'
    BY DEF Current, Elements, MemoryInv, MemoryTells
  <1>3. driver' = "landed" => driver = "landed"
    BY <1>1 DEF InRound
  <1>4. TicketInv'
    BY <1>1, <1>2, <1>3 DEF TicketInv, Pending
  <1>5. MemoryInv'
    BY <1>1, <1>2 DEF MemoryInv
  <1> QED BY <1>4, <1>5

LEMMA QuietLate ==
    ASSUME LateInv, UNCHANGED <<heard, at, tickets, late>>,
           InRound \/ InRound' => UNCHANGED driver
    PROVE  LateInv'
  <1>1. InRound' => InRound /\ driver' = driver
    BY DEF InRound
  <1>2. UNCHANGED Current /\ UNCHANGED Elements(heard)
    BY DEF Current, Elements
  <1> QED BY <1>1, <1>2 DEF LateInv, Pending

LEMMA FeedSteps ==
    ASSUME Types, TicketInv, MemoryInv, Emit \/ Send \/ \E k \in 0..Len(wire) : Break(k)
    PROVE  TicketInv' /\ MemoryInv'
  <1>1. UNCHANGED <<heard, at, memory, tickets, driver>>
    BY DEF Emit, Send, Break, roundVars
  <1> QED BY <1>1, QuietKeeps

LEMMA ReceiveRound ==
    ASSUME Types, Types', FeedInv, TicketInv, MemoryInv, Receive
    PROVE  TicketInv' /\ MemoryInv'
  <1>0. RoundTypes
    BY DEF Types
  <1> DEFINE e == Head(wire)
  <1>1. /\ wire \in Seq(Events) /\ wire # <<>> /\ heard \in Seq(Events)
        /\ heard' = Append(heard, e) /\ driver' = "asking" /\ at' = 1
        /\ UNCHANGED <<memory, tickets>>
    BY DEF Types, FeedTypes, RoundTypes, Receive
  <1>2. e \in Events /\ e = wire[1] /\ 1 \in DOMAIN wire
    BY <1>1, TailIs
  <1>3. \A i \in DOMAIN heard : heard[i] < e
    BY <1>2 DEF FeedInv, Below
  <1>4. e \notin Elements(heard)
    BY <1>0, <1>2, <1>3, HeardIs, ElementsAre DEF Elements
  <1>5. Elements(heard) \subseteq Elements(heard') /\ heard' # <<>> /\ Current' = e
    <2> HIDE DEF e
    <2>1. Len(heard') = Len(heard) + 1 /\ heard'[Len(heard) + 1] = e
          /\ DOMAIN heard \subseteq DOMAIN heard' /\ heard' # <<>>
          /\ \A i \in DOMAIN heard : heard'[i] = heard[i]
      BY <1>1, <1>2
    <2> QED BY <2>1 DEF Elements, Current
  <1> HIDE DEF e
  <1>6. TicketInv'
    BY <1>0, <1>1, <1>4, <1>5 DEF TicketInv, InRound
  <1>7. MemoryTells'
    BY <1>1, <1>5 DEF MemoryInv, MemoryTells
  <1>8. \A p \in Personas : \A i \in DOMAIN memory[p].past : memory[p].past[i].event < e
    BY <1>3 DEF MemoryInv, MemoryTells, Elements
  <1>9. MemoryInv'
    BY <1>1, <1>5, <1>7, <1>8 DEF MemoryInv
  <1> QED BY <1>6, <1>9

\* The next turn: the personas it leaves pending were pending before.
LEMMA TurnPends ==
    ASSUME RoundTypes, NextPersona, heard' = heard
    PROVE  /\ driver' # "landed" /\ Current' = Current
           /\ InRound' => at' = at + 1
           /\ \A p \in Personas : InRound' /\ Pending(p)' => p > at /\ Pending(p)
           /\ \A p \in Personas : InRound' /\ p >= at' => p > at
  <1>1. at \in Nat /\ driver' \in {"listening", "asking"} /\ (driver' = "asking" => at' = at + 1)
    BY HeardIs DEF NextPersona
  <1>2. \A p \in Personas : p \in Nat
    BY HeardIs
  <1> QED BY <1>1, <1>2 DEF InRound, Pending, Current

LEMMA TurnKeepsTickets ==
    ASSUME RoundTypes, InRound, TicketInv, NextPersona, UNCHANGED <<heard, tickets>>
    PROVE  TicketInv'
  <1>1. heard' # <<>>
    BY DEF TicketInv
  <1>2. ASSUME NEW p \in Personas, NEW e \in Events
        PROVE  /\ tickets'[p][e] \in {0, 1}
               /\ tickets'[p][e] = 1 => e \in Elements(heard')
               /\ InRound' /\ e = Current' /\ Pending(p)' => tickets'[p][e] = 0
    BY TurnPends DEF TicketInv
  <1>3. driver' # "landed"
    BY TurnPends
  <1> QED BY <1>1, <1>2, <1>3 DEF TicketInv, Elements

LEMMA TurnKeepsMemory ==
    ASSUME RoundTypes, InRound, MemoryInv, NextPersona, UNCHANGED <<heard, memory, tickets>>
    PROVE  MemoryInv'
  <1>1. MemoryTells'
    BY DEF MemoryInv, MemoryTells, Elements
  <1>2. InRound' => \A p \in Personas : p >= at' =>
          \A i \in DOMAIN memory[p].past : memory[p].past[i].event < Current'
    <2>1. \A p \in Personas : InRound' /\ p >= at' => p >= at
      BY TurnPends, HeardIs
    <2> QED BY <2>1, TurnPends DEF MemoryInv
  <1> QED BY <1>1, <1>2 DEF MemoryInv

\* The persona whose turn it was remembers; a complaint only with its ticket.
LEMMA TurnRemembers ==
    ASSUME RoundTypes, RoundTypes', InRound, TicketInv, MemoryInv, NextPersona,
           UNCHANGED <<heard, tickets>>,
           NEW raw \in RawScores \cup {NoScore}, NEW action \in Actions, Remember(action, raw),
           action = "open_support_ticket" => tickets[at][Current] = 1
    PROVE  MemoryInv'
  <1> DEFINE t == Clamp(raw, memory[at].trust)
             entry == [event |-> Current, action |-> action, trust |-> t]
             past == memory[at].past
  <1>0. at \in Personas /\ heard # <<>>
    BY DEF RoundTypes, TicketInv
  <1>1. memory' = [memory EXCEPT ![at] = [trust |-> t, past |-> Append(past, entry)]]
    BY DEF Remember
  <1>2. /\ past \in Seq(Entries) /\ t \in Trust /\ entry \in Entries
        /\ memory \in [Personas -> [trust : Trust, past : Seq(Entries)]]
    <2>1. memory[at] \in [trust : Trust, past : Seq(Entries)]
      BY <1>0 DEF RoundTypes
    <2>2. t \in Trust
      BY <2>1, ClampType
    <2>3. entry \in Entries
      BY <1>0, <2>2, CurrentType DEF Entries
    <2> QED BY <2>1, <2>2, <2>3 DEF RoundTypes
  <1>3. /\ entry.event = Current /\ entry.action = action /\ entry.trust = t
        /\ Current \in Elements(heard)
    BY <1>0, HeardIs DEF Elements, Current
  <1> HIDE DEF t, entry
  <1>4. /\ memory'[at].past = Append(past, entry) /\ memory'[at].trust = t
        /\ \A p \in Personas : p # at => memory'[p] = memory[p]
    BY <1>0, <1>1, <1>2
  <1> HIDE DEF past
  <1>5. /\ DOMAIN Append(past, entry) = 1..(Len(past) + 1) /\ Len(past) \in Nat
        /\ DOMAIN past = 1..Len(past)
        /\ \A i \in 1..Len(past) : Append(past, entry)[i] = past[i]
        /\ Append(past, entry)[Len(past) + 1] = entry
        /\ Len(Append(past, entry)) = Len(past) + 1 /\ Append(past, entry) # <<>>
    BY <1>2
  <1>6. /\ \A i \in DOMAIN past : past[i].event < Current
        /\ \A i \in DOMAIN past :
              /\ past[i].event \in Elements(heard)
              /\ \A j \in 1..(i - 1) : past[j].event < past[i].event
              /\ past[i].action = "open_support_ticket" => tickets[at][past[i].event] = 1
    BY <1>0, HeardIs DEF MemoryInv, MemoryTells, past
  <1>7. ASSUME NEW i \in DOMAIN Append(past, entry)
        PROVE  /\ Append(past, entry)[i].event \in Elements(heard)
               /\ \A j \in 1..(i - 1) : Append(past, entry)[j].event < Append(past, entry)[i].event
               /\ Append(past, entry)[i].action = "open_support_ticket" =>
                     tickets[at][Append(past, entry)[i].event] = 1
    <2>1. CASE i \in 1..Len(past)
      BY <1>5, <1>6, <2>1
    <2>2. CASE i = Len(past) + 1
      BY <1>3, <1>5, <1>6, <2>2
    <2> QED BY <1>5, <2>1, <2>2
  <1>8. MemoryTells'
    <2> SUFFICES ASSUME NEW p \in Personas
                 PROVE  /\ \A i \in DOMAIN memory'[p].past :
                              /\ memory'[p].past[i].event \in Elements(heard)
                              /\ \A j \in 1..(i - 1) : memory'[p].past[j].event < memory'[p].past[i].event
                              /\ memory'[p].past[i].action = "open_support_ticket" =>
                                    tickets[p][memory'[p].past[i].event] = 1
                        /\ memory'[p].trust = IF memory'[p].past = <<>> THEN InitialTrust[p]
                                              ELSE memory'[p].past[Len(memory'[p].past)].trust
      BY DEF MemoryTells, Elements
    <2>1. CASE p = at
      BY <1>3, <1>4, <1>5, <1>7, <2>1
    <2>2. CASE p # at
      BY <1>4, <2>2 DEF MemoryInv, MemoryTells
    <2> QED BY <2>1, <2>2
  <1>9. ASSUME InRound', NEW p \in Personas, p >= at'
        PROVE  \A i \in DOMAIN memory'[p].past : memory'[p].past[i].event < Current'
    <2>1. p > at /\ Current' = Current
      BY <1>9, TurnPends
    <2>2. p # at /\ p >= at
      BY <2>1, HeardIs
    <2> QED BY <1>4, <2>1, <2>2 DEF MemoryInv
  <1> QED BY <1>8, <1>9 DEF MemoryInv

LEMMA ReactionKeeps ==
    ASSUME Types, Types', TicketInv, MemoryInv, Reaction
    PROVE  TicketInv' /\ MemoryInv'
  <1>0. RoundTypes /\ RoundTypes' /\ at \in Personas /\ tickets \in [Personas -> [Events -> Nat]]
    BY DEF Types, RoundTypes
  <1>1. CASE NoDecision \/ TicketFails
    BY <1>0, <1>1, TurnKeepsTickets, TurnKeepsMemory DEF NoDecision, TicketFails, InRound
  <1>2. ASSUME NEW raw \in RawScores \cup {NoScore}, Decide(raw) PROVE TicketInv' /\ MemoryInv'
    BY <1>0, <1>2, TurnKeepsTickets, TurnRemembers DEF Decide, InRound, Actions
  <1>3. ASSUME NEW raw \in RawScores \cup {NoScore}, Complain(raw) PROVE TicketInv' /\ MemoryInv'
    <2>1. /\ InRound /\ InRound' /\ driver' = "filing" /\ driver = "asking"
          /\ UNCHANGED <<at, heard, memory, tickets>>
      BY <1>3 DEF Complain, InRound
    <2>2. Current' = Current /\ MemoryTells' /\ \A p \in Personas : Pending(p)' <=> Pending(p)
      BY <2>1 DEF Current, MemoryInv, MemoryTells, Elements, Pending
    <2>3. TicketInv'
      BY <2>1, <2>2 DEF TicketInv, Elements
    <2>4. MemoryInv'
      BY <2>1, <2>2 DEF MemoryInv
    <2> QED BY <2>3, <2>4
  <1>4. CASE TicketLands
    <2>1. /\ InRound /\ InRound' /\ driver' = "landed" /\ driver = "filing"
          /\ UNCHANGED <<at, heard, memory>>
          /\ tickets' = [tickets EXCEPT ![at][Current] = @ + 1]
          /\ heard # <<>>
      BY <1>4 DEF TicketLands, InRound, TicketInv
    <2>2. Current' = Current /\ Current \in Events /\ Current \in Elements(heard)
      BY <1>0, <2>1, CurrentType DEF Current, Elements
    <2>3. tickets[at][Current] = 0
      BY <1>0, <2>1, <2>2 DEF TicketInv, Pending
    <2>4. /\ tickets'[at][Current] = 1
          /\ \A p \in Personas, e \in Events : p # at \/ e # Current => tickets'[p][e] = tickets[p][e]
      BY <1>0, <2>1, <2>2, <2>3
    <2>5. TicketInv'
      <3>1. ASSUME NEW p \in Personas, NEW e \in Events
            PROVE  /\ tickets'[p][e] \in {0, 1}
                   /\ tickets'[p][e] = 1 => e \in Elements(heard)
                   /\ e = Current /\ p > at => tickets'[p][e] = 0
                   /\ e = Current /\ p = at => tickets'[p][e] = 1
        <4>1. CASE p = at /\ e = Current
          BY <2>2, <2>4, <4>1, HeardIs, <1>0
        <4>2. CASE p # at \/ e # Current
          BY <2>1, <2>4, <4>2 DEF TicketInv, Pending
        <4> QED BY <4>1, <4>2
      <3> QED BY <2>1, <2>2, <3>1 DEF TicketInv, Pending, Elements
    <2>6. MemoryTells'
      <3>1. ASSUME NEW p \in Personas, NEW i \in DOMAIN memory[p].past,
                   memory[p].past[i].action = "open_support_ticket"
            PROVE  tickets'[p][memory[p].past[i].event] = 1
        <4>1. tickets[p][memory[p].past[i].event] = 1 /\ memory[p].past[i].event \in Events
          <5>1. memory[p].past \in Seq(Entries)
            BY <1>0 DEF RoundTypes
          <5>2. memory[p].past[i].event \in Events
            <6> DEFINE past == memory[p].past
            <6>1. past[i] \in Entries
              <7> HIDE DEF past
              <7> QED BY <5>1 DEF past
            <6> QED BY <6>1 DEF Entries
          <5> QED BY <3>1, <5>2 DEF MemoryInv, MemoryTells
        <4> QED BY <2>3, <2>4, <4>1
      <3> QED BY <2>1, <3>1 DEF MemoryInv, MemoryTells, Elements
    <2>7. MemoryInv'
      BY <2>1, <2>2, <2>6 DEF MemoryInv
    <2> QED BY <2>5, <2>7
  <1>5. CASE TicketAnswered
    <2>1. InRound /\ heard # <<>> /\ score \in RawScores \cup {NoScore}
      BY <1>0, <1>5 DEF TicketAnswered, InRound, TicketInv, RoundTypes
    <2>2. tickets[at][Current] = 1
      BY <1>0, <1>5, <2>1, CurrentType DEF TicketAnswered, TicketInv
    <2> QED BY <1>0, <1>5, <2>1, <2>2, TurnKeepsTickets, TurnRemembers DEF TicketAnswered, Actions
  <1> QED BY Zenon, <1>1, <1>2, <1>3, <1>4, <1>5 DEF Reaction

LEMMA QuietMeans ==
    ASSUME TicketInv, LateInv, MemoryInv,
           UNCHANGED <<emitted, queue, wire, heard, at, memory, tickets, late>>,
           InRound \/ InRound' => UNCHANGED driver
    PROVE  TicketInv' /\ LateInv' /\ MemoryInv'
  BY QuietKeeps, QuietLate

\* A ticket that comes late: its persona's turn is over, and it had none.
LEMMA LateKeeps ==
    ASSUME Types, TicketInv, LateInv, MemoryInv, NEW p \in Personas, NEW e \in Events,
           TicketLandsLate(p, e)
    PROVE  TicketInv' /\ LateInv' /\ MemoryInv'
  <1>0. RoundTypes /\ tickets \in [Personas -> [Events -> Nat]]
    BY DEF Types, RoundTypes
  <1>1. /\ UNCHANGED <<driver, at, heard, memory>> /\ <<p, e>> \in late
        /\ late' = late \ {<<p, e>>}
        /\ tickets' = [tickets EXCEPT ![p][e] = @ + 1]
    BY DEF TicketLandsLate
  <1>2. /\ tickets[p][e] = 0 /\ e \in Elements(heard)
        /\ InRound /\ e = Current => ~Pending(p)
    BY <1>1 DEF LateInv
  <1>3. /\ tickets'[p][e] = 1
        /\ \A q \in Personas, f \in Events : q # p \/ f # e => tickets'[q][f] = tickets[q][f]
    BY <1>0, <1>1, <1>2
  <1>4. /\ Current' = Current /\ InRound' = InRound /\ Elements(heard)' = Elements(heard)
        /\ \A q \in Personas : Pending(q)' <=> Pending(q)
    BY <1>1 DEF Current, InRound, Elements, Pending
  <1>5. TicketInv'
    BY <1>1, <1>2, <1>3, <1>4 DEF TicketInv
  <1>6. LateInv'
    BY <1>1, <1>3, <1>4 DEF LateInv
  <1>7. MemoryTells'
    <2>1. ASSUME NEW q \in Personas, NEW i \in DOMAIN memory[q].past,
                 memory[q].past[i].action = "open_support_ticket"
          PROVE  tickets'[q][memory[q].past[i].event] = 1
      <3>1. tickets[q][memory[q].past[i].event] = 1 /\ memory[q].past[i].event \in Elements(heard)
        BY <2>1 DEF MemoryInv, MemoryTells
      <3>2. memory[q].past[i].event \in Events
        BY <1>0, <3>1, ElementsAre DEF Elements, RoundTypes
      <3> QED BY <1>2, <1>3, <3>1, <3>2
    <2> QED BY <1>1, <1>4, <2>1 DEF MemoryInv, MemoryTells
  <1>8. MemoryInv'
    BY <1>1, <1>4, <1>7 DEF MemoryInv
  <1> QED BY <1>5, <1>6, <1>8

\* The steps of the feed and of a round, and the requests that are late.
LEMMA RoundsKeepLate ==
    ASSUME Types, FeedInv, TicketInv, LateInv,
           Emit \/ Send \/ (\E k \in 0..Len(wire) : Break(k)) \/ Receive \/ Reaction
    PROVE  LateInv'
  <1>0. RoundTypes /\ at \in Personas /\ heard \in Seq(Events) /\ tickets \in [Personas -> [Events -> Nat]]
    BY DEF Types, RoundTypes
  <1>1. CASE Emit \/ Send \/ \E k \in 0..Len(wire) : Break(k)
    <2>1. UNCHANGED <<heard, at, tickets, late, driver>>
      BY <1>1 DEF Emit, Send, Break, roundVars
    <2> QED BY <2>1, QuietLate
  <1>2. CASE Receive
    <2>1. /\ wire \in Seq(Events) /\ wire # <<>> /\ heard' = Append(heard, Head(wire))
          /\ UNCHANGED <<tickets, late>>
      BY <1>2 DEF Types, FeedTypes, Receive
    <2>2. Head(wire) \in Events /\ Head(wire) = wire[1] /\ 1 \in DOMAIN wire
      BY <2>1, TailIs
    <2>3. \A i \in DOMAIN heard : heard[i] < Head(wire) /\ heard[i] \in Nat
      BY <1>0, <2>2, ElementsAre DEF FeedInv, Below
    <2>4. Head(wire) \notin Elements(heard)
      BY <2>2, <2>3, Sizes DEF Elements
    <2>5. Elements(heard) \subseteq Elements(heard') /\ Current' = Head(wire)
      <3>1. Len(heard') = Len(heard) + 1 /\ heard'[Len(heard) + 1] = Head(wire)
            /\ DOMAIN heard \subseteq DOMAIN heard' /\ \A i \in DOMAIN heard : heard'[i] = heard[i]
        BY <1>0, <2>1, <2>2
      <3> QED BY <3>1 DEF Elements, Current
    <2> QED BY <2>1, <2>4, <2>5 DEF LateInv
  <1>3. CASE \/ NoDecision \/ TicketAnswered \/ TicketFails
             \/ \E raw \in RawScores \cup {NoScore} : Decide(raw)
    <2>1. /\ InRound /\ NextPersona /\ UNCHANGED <<heard, tickets>> /\ heard # <<>>
          /\ \/ UNCHANGED late
             \/ driver = "filing" /\ late' = late \cup {<<at, Current>>}
      BY <1>3 DEF NoDecision, TicketAnswered, TicketFails, Decide, InRound, TicketInv
    <2>2. Current \in Events /\ Current \in Elements(heard)
      BY <1>0, <2>1, CurrentType DEF Current, Elements
    <2>3. driver = "filing" => tickets[at][Current] = 0
      BY <1>0, <2>1, <2>2 DEF TicketInv, Pending
    <2>4. ASSUME NEW p \in Personas, InRound', Pending(p)'
          PROVE  p # at /\ Pending(p) /\ Current' = Current
      BY <1>0, <2>1, <2>4, TurnPends, HeardIs
    <2> QED BY <2>1, <2>2, <2>3, <2>4, TurnPends, <1>0 DEF LateInv, Elements
  <1>4. ASSUME NEW raw \in RawScores \cup {NoScore}, Complain(raw) PROVE LateInv'
    <2>1. /\ InRound /\ driver = "asking" /\ driver' = "filing"
          /\ UNCHANGED <<at, heard, tickets, late>>
      BY <1>4 DEF Complain, InRound
    <2> QED BY <2>1 DEF LateInv, Pending, Current, Elements
  <1>5. CASE TicketLands
    <2>1. /\ InRound /\ driver = "filing" /\ driver' = "landed" /\ UNCHANGED <<at, heard, late>>
          /\ tickets' = [tickets EXCEPT ![at][Current] = @ + 1] /\ heard # <<>>
      BY <1>5 DEF TicketLands, InRound, TicketInv
    <2>2. Current \in Events /\ Pending(at)
      BY <1>0, <2>1, CurrentType DEF Pending
    <2>3. <<at, Current>> \notin late
      BY <1>0, <2>1, <2>2 DEF LateInv
    <2>4. \A p \in Personas, e \in Events : p # at \/ e # Current => tickets'[p][e] = tickets[p][e]
      BY <1>0, <2>1, <2>2
    <2>5. \A p \in Personas : Pending(p)' => Pending(p)
      BY <2>1 DEF Pending
    <2>6. Current' = Current /\ Elements(heard)' = Elements(heard)
      BY <2>1 DEF Current, Elements
    <2> QED BY <2>1, <2>3, <2>4, <2>5, <2>6 DEF LateInv
  <1> QED BY <1>1, <1>2, <1>3, <1>4, <1>5 DEF Reaction

LEMMA InvKept == Inv /\ [Next]_vars => Inv'
  <1> SUFFICES ASSUME Inv, [Next]_vars PROVE Inv'
    OBVIOUS
  <1>0. Types /\ FeedInv /\ TicketInv /\ LateInv /\ MemoryInv
    BY DEF Inv
  <1>1. InRound => heard # <<>>
    BY <1>0 DEF TicketInv
  <1>2. Types'
    BY Zenon, <1>0, <1>1, TypesKept
  <1>3. FeedInv'
    BY Zenon, <1>0, <1>2, FeedKept
  <1>4. LateTicket => TicketInv' /\ LateInv' /\ MemoryInv'
    BY Zenon, <1>0, LateKeeps DEF LateTicket
  <1>5. TicketInv' /\ LateInv' /\ MemoryInv'
    BY Zenon, <1>0, <1>2, <1>4, StepKinds, FeedSteps, ReceiveRound, ReactionKeeps, RoundsKeepLate,
       QuietMeans
  <1> QED BY <1>2, <1>3, <1>5 DEF Inv

\* The inductive invariant holds in every reachable state of the agent.
THEOREM Invariant == Spec => []Inv
  <1> QED BY InitInv, InvKept, PTL DEF Spec

\* Every reachable state is well typed, for any feed and any bounds.
THEOREM TypeCorrect == Spec => []TypeOK
  <1>1. Inv => TypeOK
    BY TypesAre DEF Inv
  <1> QED BY <1>1, Invariant, PTL

\* What a persona is shown of its past is so: its complaints are tickets, its
\* decisions are in the order of the feed, and it acts on its latest trust.
THEOREM MemoriesTell == Spec => []MemoryTells
  <1>1. Inv => MemoryTells
    BY DEF Inv, MemoryInv
  <1> QED BY <1>1, Invariant, PTL

----------------------------------------------------------------------------
(* The agent works in rounds.                                                *)

LEMMA InitRounds == Init => R!Init
  BY DEF Init, R!Init, Reacted, InRound

LEMMA TurnReacts ==
    ASSUME RoundTypes, NextPersona, InRound, UNCHANGED <<heard, tickets>>
    PROVE  R!React(at) \/ UNCHANGED R!vars
  <1>1. /\ at \in Nat /\ at > 0 /\ at <= NumPersonas /\ NumPersonas \in Nat /\ Personas = 1..NumPersonas
        /\ driver' = IF at = NumPersonas THEN "listening" ELSE "asking"
        /\ at' = IF at = NumPersonas THEN 1 ELSE at + 1
    BY HeardIs DEF NextPersona
  <1>2. Reacted' = 1..at
    <2>1. CASE at = NumPersonas
      BY <1>1, <2>1 DEF Reacted, InRound
    <2>2. CASE at # NumPersonas
      <3>1. InRound' /\ driver' # "landed" /\ at' - 1 = at
        BY <1>1, <2>2 DEF InRound
      <3> QED BY <3>1 DEF Reacted
    <2> QED BY <2>1, <2>2
  <1>3. CASE driver = "landed"
    BY <1>2, <1>3 DEF Reacted, InRound, R!vars
  <1>4. CASE driver # "landed"
    <2>1. Reacted = 1..(at - 1)
      BY <1>4 DEF Reacted
    <2> QED BY <1>1, <1>2, <2>1 DEF R!React
  <1> QED BY <1>3, <1>4

LEMMA RoundStep == Inv /\ [Next]_vars => [R!Next]_R!vars
  <1> SUFFICES ASSUME Inv, [Next]_vars PROVE R!Next \/ UNCHANGED R!vars
    OBVIOUS
  <1>0. Types /\ RoundTypes /\ FeedInv /\ TicketInv /\ LateInv /\ at \in Personas
    BY DEF Inv, Types, RoundTypes
  <1>1. CASE Receive
    <2>1. /\ wire \in Seq(Events) /\ wire # <<>> /\ driver = "listening"
          /\ heard' = Append(heard, Head(wire)) /\ driver' = "asking" /\ at' = 1
          /\ UNCHANGED tickets
      BY <1>0, <1>1 DEF Types, FeedTypes, Receive, Listening
    <2>2. Head(wire) \in Events /\ \A i \in DOMAIN heard : heard[i] < Head(wire)
      BY <1>0, <2>1, TailIs DEF FeedInv, Below
    <2>3. Reacted = Personas /\ Reacted' = {}
      BY <2>1 DEF Reacted, InRound
    <2>4. R!Hear(Head(wire))
      BY <2>1, <2>2, <2>3 DEF R!Hear
    <2> QED BY <2>2, <2>4 DEF R!Next
  <1>2. CASE Reaction
    <2>1. CASE NoDecision \/ TicketFails \/ TicketAnswered \/ \E raw \in RawScores \cup {NoScore} : Decide(raw)
      <3>1. NextPersona /\ InRound /\ UNCHANGED <<heard, tickets>>
        BY <2>1 DEF NoDecision, TicketFails, TicketAnswered, Decide, InRound
      <3> QED BY <1>0, <3>1, TurnReacts DEF R!Next
    <2>2. ASSUME NEW raw \in RawScores \cup {NoScore}, Complain(raw) PROVE UNCHANGED R!vars
      BY <2>2 DEF Complain, R!vars, Reacted, InRound
    <2>3. CASE TicketLands
      <3>1. Reacted = 1..(at - 1) /\ Reacted' = 1..at
        BY <2>3 DEF TicketLands, Reacted, InRound
      <3>2. at \in Nat
        BY <1>0, HeardIs
      <3>3. at \notin Reacted /\ Reacted' = Reacted \cup {at}
        <4>1. at \notin 1..(at - 1) /\ 1..at = (1..(at - 1)) \cup {at}
          BY <1>0, <3>2, HeardIs
        <4> QED BY <3>1, <4>1
      <3>4. /\ UNCHANGED heard
            /\ tickets' = [tickets EXCEPT ![at][heard[Len(heard)]] = @ + 1]
        BY <2>3 DEF TicketLands, Current
      <3>5. R!React(at)
        BY <3>3, <3>4 DEF R!React
      <3> QED BY <1>0, <3>5 DEF R!Next
    <2> QED BY <1>2, <2>1, <2>2, <2>3 DEF Reaction
  <1>3. CASE UNCHANGED <<heard, at, tickets>> /\ (InRound \/ InRound' => UNCHANGED driver)
    BY <1>3 DEF R!vars, Reacted, InRound
  <1>4. Emit \/ Send \/ (\E k \in 0..Len(wire) : Break(k)) => UNCHANGED <<heard, at, tickets, driver>>
    BY DEF Emit, Send, Break, roundVars
  <1>5. UNCHANGED <<heard, at, tickets, driver>> =>
           UNCHANGED <<heard, at, tickets>> /\ (InRound \/ InRound' => UNCHANGED driver)
    BY Zenon
  <1>6. UNCHANGED <<emitted, queue, wire, heard, at, memory, tickets, late>> => UNCHANGED <<heard, at, tickets>>
    BY Zenon
  <1>7. CASE LateTicket
    <2>1. PICK p \in Personas, e \in Events : TicketLandsLate(p, e)
      BY <1>7 DEF LateTicket
    <2>2. /\ UNCHANGED <<driver, at, heard>> /\ <<p, e>> \in late
          /\ tickets' = [tickets EXCEPT ![p][e] = @ + 1]
      BY <2>1 DEF TicketLandsLate
    <2>3. tickets[p][e] = 0 /\ e \in Elements(heard) /\ (InRound /\ e = Current => ~Pending(p))
      BY <1>0, <2>2 DEF LateInv
    <2>4. UNCHANGED Reacted
      BY <2>2 DEF Reacted, InRound
    <2>5. e = Current => p \in Reacted
      <3>1. CASE ~InRound
        BY <3>1 DEF Reacted
      <3>2. CASE InRound /\ e = Current
        BY <1>0, <2>3, <3>2, HeardIs DEF Reacted, Pending
      <3> QED BY <3>1, <3>2
    <2>6. \E i \in DOMAIN heard : heard[i] = e /\ (i = Len(heard) => p \in Reacted)
      BY <2>3, <2>5 DEF Elements, Current
    <2>7. tickets' = [tickets EXCEPT ![p][e] = 1]
      BY <1>0, <2>2, <2>3 DEF RoundTypes
    <2>8. R!FiledLate(p, e)
      BY <2>2, <2>3, <2>4, <2>6, <2>7 DEF R!FiledLate
    <2> QED BY <2>8 DEF R!Next
  <1> QED BY Zenon, <1>1, <1>2, <1>3, <1>4, <1>5, <1>6, <1>7, StepKinds

\* The agent implements CrisisRounds: events in order and once, whole rounds, and
\* at most one ticket of a persona about an event.
THEOREM WorksInRounds == Spec => Rounds
  <1> QED BY InitRounds, RoundStep, Invariant, PTL DEF Spec, Rounds, R!Spec

----------------------------------------------------------------------------
(* The safety half of KeepsListening: where the events are.                  *)

\* An event that was emitted and asked for is heard, on its way, or lost, and what is
\* on its way is within the bounds of queue and socket.
Accounted ==
    /\ \A e \in Events : e <= emitted /\ Subscribed(e) <=>
          e \in Elements(heard) \cup Elements(wire) \cup Elements(queue) \cup lost
    /\ lost \cap (Elements(heard) \cup Elements(wire) \cup Elements(queue)) = {}
    /\ Elements(heard) \cap (Elements(wire) \cup Elements(queue)) = {}
    /\ Elements(wire) \cap Elements(queue) = {}
    /\ Len(queue) <= QueueMaxSize /\ Len(wire) <= WireSize

\* Only an open subscription has a queue, and a gap has nothing on its way.
WayInv ==
    /\ stream # "open" => queue = <<>>
    /\ stream \notin {"open", "broken"} => wire = <<>>

LEMMA ElementsOfEmpty == Elements(<<>>) = {}
  BY DEF Elements

LEMMA ElementsOfAppend ==
    ASSUME NEW s \in Seq(Events), NEW e \in Events
    PROVE  Elements(Append(s, e)) = Elements(s) \cup {e} /\ Len(Append(s, e)) = Len(s) + 1
  <1>1. /\ DOMAIN Append(s, e) = 1..(Len(s) + 1) /\ DOMAIN s = 1..Len(s) /\ Len(s) \in Nat
        /\ \A i \in 1..Len(s) : Append(s, e)[i] = s[i]
        /\ Append(s, e)[Len(s) + 1] = e /\ Len(Append(s, e)) = Len(s) + 1
    OBVIOUS
  <1>2. ASSUME NEW x \in Elements(Append(s, e)) PROVE x \in Elements(s) \cup {e}
    <2>1. PICK i \in 1..(Len(s) + 1) : x = Append(s, e)[i]
      BY <1>1, <1>2 DEF Elements
    <2>2. i \in 1..Len(s) \/ i = Len(s) + 1
      BY <1>1, <2>1
    <2> QED BY <1>1, <2>1, <2>2 DEF Elements
  <1>3. ASSUME NEW x \in Elements(s) \cup {e} PROVE x \in Elements(Append(s, e))
    <2>1. CASE x = e
      <3>1. Len(s) + 1 \in DOMAIN Append(s, e)
        BY <1>1
      <3> QED BY <1>1, <2>1, <3>1 DEF Elements
    <2>2. CASE x \in Elements(s)
      <3>1. PICK i \in DOMAIN s : x = s[i]
        BY <2>2 DEF Elements
      <3>2. i \in DOMAIN Append(s, e) /\ Append(s, e)[i] = x
        BY <1>1, <3>1
      <3> QED BY <3>2 DEF Elements
    <2> QED BY <1>3, <2>1, <2>2
  <1> QED BY <1>1, <1>2, <1>3

LEMMA ElementsOfTail ==
    ASSUME NEW s \in Seq(Events), s # <<>>, Ascending(s)
    PROVE  /\ Elements(s) = {Head(s)} \cup Elements(Tail(s)) /\ Head(s) \notin Elements(Tail(s))
           /\ Head(s) \in Events /\ Tail(s) \in Seq(Events) /\ Len(Tail(s)) = Len(s) - 1
  <1>1. /\ Tail(s) \in Seq(Events) /\ Head(s) \in Events /\ Head(s) = s[1]
        /\ 1 \in DOMAIN s /\ DOMAIN s = 1..Len(s) /\ Len(s) \in Nat
        /\ DOMAIN Tail(s) = 1..(Len(s) - 1)
        /\ \A i \in DOMAIN Tail(s) : i + 1 \in DOMAIN s /\ Tail(s)[i] = s[i + 1]
    BY TailIs
  <1>2. ASSUME NEW x \in Elements(s) PROVE x = Head(s) \/ x \in Elements(Tail(s))
    <2>1. PICK i \in DOMAIN s : x = s[i]
      BY <1>2 DEF Elements
    <2>2. CASE i = 1
      BY <1>1, <2>1, <2>2
    <2>3. CASE i # 1
      <3>1. i - 1 \in DOMAIN Tail(s) /\ (i - 1) + 1 = i
        BY <1>1, <2>1, <2>3
      <3>2. Tail(s)[i - 1] = x
        BY <1>1, <2>1, <3>1
      <3> QED BY <3>1, <3>2 DEF Elements
    <2> QED BY <2>2, <2>3
  <1>3. ASSUME NEW x \in Elements(Tail(s)) PROVE x \in Elements(s) /\ x # Head(s)
    <2>1. PICK i \in DOMAIN Tail(s) : x = Tail(s)[i]
      BY <1>3 DEF Elements
    <2>2. i + 1 \in DOMAIN s /\ x = s[i + 1] /\ 1 < i + 1
      BY <1>1, <2>1
    <2>3. s[1] < s[i + 1]
      BY <1>1, <2>2 DEF Ascending
    <2>4. s[1] \in Nat /\ s[i + 1] \in Nat
      BY <1>1, <2>2, ElementsAre
    <2> QED BY <1>1, <2>2, <2>3, <2>4 DEF Elements
  <1>4. Head(s) \in Elements(s)
    BY <1>1 DEF Elements
  <1>5. Len(Tail(s)) = Len(s) - 1
    OBVIOUS
  <1> QED BY <1>1, <1>2, <1>3, <1>4, <1>5

LEMMA ElementsOfPrefix ==
    ASSUME NEW s \in Seq(Events), Ascending(s), NEW k \in 0..Len(s)
    PROVE  LET p == SubSeq(s, 1, k)
               r == SubSeq(s, k + 1, Len(s))
           IN  /\ Elements(s) = Elements(p) \cup Elements(r)
               /\ Elements(p) \cap Elements(r) = {}
               /\ Len(p) <= Len(s)
  <1> DEFINE p == SubSeq(s, 1, k)
             r == SubSeq(s, k + 1, Len(s))
  <1>1. /\ Len(s) \in Nat /\ DOMAIN s = 1..Len(s) /\ k \in Nat /\ k <= Len(s)
    OBVIOUS
  <1>2. /\ DOMAIN p = 1..k /\ Len(p) = k /\ \A i \in 1..k : p[i] = s[i]
        /\ DOMAIN r = 1..(Len(s) - k) /\ \A i \in 1..(Len(s) - k) : r[i] = s[k + i]
    <2>1. p = [i \in 1..k |-> s[i]]
      BY <1>1
    <2>2. r = [i \in 1..(Len(s) - k) |-> s[k + 1 + i - 1]]
      BY <1>1
    <2>3. \A i \in 1..(Len(s) - k) : k + 1 + i - 1 = k + i
      BY <1>1
    <2>4. Len(p) = k
      BY <1>1
    <2> QED BY <2>1, <2>2, <2>3, <2>4
  <1> HIDE DEF p, r
  <1>3. ASSUME NEW x \in Elements(s) PROVE x \in Elements(p) \/ x \in Elements(r)
    <2>1. PICK i \in 1..Len(s) : x = s[i]
      BY <1>1, <1>3 DEF Elements
    <2>2. CASE i <= k
      <3>1. i \in 1..k
        BY <1>1, <2>1, <2>2
      <3> QED BY <1>2, <2>1, <3>1 DEF Elements
    <2>3. CASE i > k
      <3>1. i - k \in 1..(Len(s) - k) /\ k + (i - k) = i
        BY <1>1, <2>1, <2>3
      <3> QED BY <1>2, <2>1, <3>1 DEF Elements
    <2> QED BY <1>1, <2>1, <2>2, <2>3
  <1>4. ASSUME NEW x \in Elements(p) PROVE \E i \in 1..k : i \in DOMAIN s /\ x = s[i]
    BY <1>1, <1>2, <1>4 DEF Elements
  <1>5. ASSUME NEW x \in Elements(r)
        PROVE  \E i \in (k + 1)..Len(s) : i \in DOMAIN s /\ x = s[i]
    <2>1. PICK i \in 1..(Len(s) - k) : x = s[k + i]
      BY <1>2, <1>5 DEF Elements
    <2>2. k + i \in (k + 1)..Len(s) /\ k + i \in DOMAIN s
      BY <1>1, <2>1
    <2> QED BY <2>1, <2>2
  <1>6. ASSUME NEW x \in Elements(p), x \in Elements(r) PROVE FALSE
    <2>1. PICK i \in 1..k : i \in DOMAIN s /\ x = s[i]
      BY <1>4
    <2>2. PICK j \in (k + 1)..Len(s) : j \in DOMAIN s /\ x = s[j]
      BY <1>5, <1>6
    <2>3. i < j
      BY <1>1, <2>1, <2>2
    <2>4. s[i] < s[j] /\ s[i] \in Nat
      BY <2>1, <2>2, <2>3, ElementsAre DEF Ascending
    <2> QED BY <2>1, <2>2, <2>4
  <1>7. Elements(p) \subseteq Elements(s) /\ Elements(r) \subseteq Elements(s)
    BY <1>4, <1>5 DEF Elements
  <1>8. Len(p) <= Len(s)
    BY <1>1, <1>2
  <1> QED BY <1>3, <1>6, <1>7, <1>8 DEF p, r

WhereInv == Accounted /\ WayInv

\* A new event is the newest: it is nowhere yet.
LEMMA EmitAccounts == Inv /\ WhereInv /\ Emit => WhereInv'
  <1> SUFFICES ASSUME Inv, WhereInv, Emit PROVE WhereInv'
    OBVIOUS
  <1> DEFINE e == emitted + 1
  <1>1. /\ e \in Events /\ emitted' = e /\ emitted \in Nat
        /\ queue \in Seq(Events) /\ Ascending(queue)
        /\ UNCHANGED <<stream, wire, heard>>
    BY Sizes DEF Inv, Types, FeedTypes, FeedInv, Emit, roundVars
  <1>2. \A x \in Events : x <= e <=> (x <= emitted \/ x = e)
    BY <1>1, Sizes
  <1> HIDE DEF e
  <1>3. CASE ~Subscribed(e)
    <2>1. UNCHANGED <<queue, lost>>
      BY <1>3 DEF Emit, e
    <2> QED BY <1>1, <1>2, <1>3, <2>1 DEF WhereInv, Accounted, WayInv
  <1>4. /\ e \notin Elements(heard) \cup Elements(wire) \cup Elements(queue) \cup lost
    <2>1. ~(e <= emitted)
      BY <1>1 DEF e
    <2> QED BY <1>1, <2>1 DEF WhereInv, Accounted
  <1>5. CASE Subscribed(e) /\ stream # "open"
    <2>1. lost' = lost \cup {e} /\ UNCHANGED queue
      BY <1>5 DEF Emit, e
    <2>2. Accounted'
      BY <1>1, <1>2, <1>4, <1>5, <2>1 DEF WhereInv, Accounted
    <2> QED BY <1>1, <2>1, <2>2 DEF WhereInv, WayInv
  <1>6. CASE Subscribed(e) /\ stream = "open" /\ Len(queue) >= QueueMaxSize
    <2>1. queue' = Append(Tail(queue), e) /\ lost' = lost \cup {Head(queue)}
      BY <1>6 DEF Emit, e
    <2>2. queue # <<>> /\ Len(queue) = QueueMaxSize /\ QueueMaxSize \in Nat
      BY <1>1, <1>6, SizesAssumption DEF WhereInv, Accounted
    <2>3. /\ Elements(queue) = {Head(queue)} \cup Elements(Tail(queue))
          /\ Head(queue) \notin Elements(Tail(queue))
          /\ Tail(queue) \in Seq(Events) /\ Len(Tail(queue)) = Len(queue) - 1
      BY <1>1, <2>2, ElementsOfTail
    <2>4. /\ Elements(queue') = Elements(Tail(queue)) \cup {e}
          /\ Len(queue') = Len(Tail(queue)) + 1
      BY <1>1, <2>1, <2>3, ElementsOfAppend
    <2>5. Len(queue') <= QueueMaxSize
      BY <2>2, <2>3, <2>4
    <2>6. Accounted'
      BY <1>1, <1>2, <1>4, <1>6, <2>1, <2>3, <2>4, <2>5 DEF WhereInv, Accounted
    <2> QED BY <1>1, <1>6, <2>6 DEF WhereInv, WayInv
  <1>7. CASE Subscribed(e) /\ stream = "open" /\ ~(Len(queue) >= QueueMaxSize)
    <2>1. queue' = Append(queue, e) /\ UNCHANGED lost
      BY <1>7 DEF Emit, e
    <2>2. Elements(queue') = Elements(queue) \cup {e} /\ Len(queue') = Len(queue) + 1
      BY <1>1, <2>1, ElementsOfAppend
    <2>3. Len(queue') <= QueueMaxSize
      BY <1>1, <1>7, <2>2, SizesAssumption
    <2>4. Accounted'
      BY <1>1, <1>2, <1>4, <1>7, <2>1, <2>2, <2>3 DEF WhereInv, Accounted
    <2> QED BY <1>1, <1>7, <2>4 DEF WhereInv, WayInv
  <1> QED BY <1>3, <1>5, <1>6, <1>7

LEMMA SendAccounts == Inv /\ WhereInv /\ Send => WhereInv'
  <1> SUFFICES ASSUME Inv, WhereInv, Send PROVE WhereInv'
    OBVIOUS
  <1>1. /\ queue \in Seq(Events) /\ wire \in Seq(Events) /\ Ascending(queue) /\ queue # <<>>
        /\ wire' = Append(wire, Head(queue)) /\ queue' = Tail(queue)
        /\ stream = "open" /\ Len(wire) < WireSize
        /\ UNCHANGED <<heard, emitted, stream, lost>>
    BY DEF Inv, Types, FeedTypes, FeedInv, Send, roundVars
  <1>2. /\ Elements(queue) = {Head(queue)} \cup Elements(queue')
        /\ Head(queue) \notin Elements(queue')
        /\ Head(queue) \in Events /\ Len(queue') = Len(queue) - 1
    BY <1>1, ElementsOfTail
  <1>3. Elements(wire') = Elements(wire) \cup {Head(queue)} /\ Len(wire') = Len(wire) + 1
    BY <1>1, <1>2, ElementsOfAppend
  <1>4. Len(queue) \in Nat /\ Len(wire) \in Nat /\ QueueMaxSize \in Nat /\ WireSize \in Nat
    BY <1>1, SizesAssumption
  <1>5. Len(queue') <= QueueMaxSize /\ Len(wire') <= WireSize
    BY <1>1, <1>2, <1>3, <1>4 DEF WhereInv, Accounted
  <1>6. Accounted'
    BY <1>1, <1>2, <1>3, <1>5 DEF WhereInv, Accounted
  <1> QED BY <1>1, <1>6 DEF WhereInv, WayInv

LEMMA BreakAccounts == ASSUME Inv, WhereInv, NEW k \in 0..Len(wire), Break(k) PROVE WhereInv'
  <1> DEFINE p == SubSeq(wire, 1, k)
             r == SubSeq(wire, k + 1, Len(wire))
  <1>1. /\ wire \in Seq(Events) /\ Ascending(wire) /\ Len(wire) \in Nat
        /\ stream' = "broken" /\ wire' = p /\ queue' = <<>>
        /\ lost' = lost \cup Elements(queue) \cup Elements(r)
        /\ UNCHANGED <<heard, emitted>>
    BY DEF Inv, Types, FeedTypes, FeedInv, Break, roundVars
  <1>2. /\ Elements(wire) = Elements(p) \cup Elements(r) /\ Elements(p) \cap Elements(r) = {}
        /\ Len(p) <= Len(wire)
    BY <1>1, ElementsOfPrefix
  <1>3. Len(p) \in Nat
    BY <1>1, PrefixIs
  <1> HIDE DEF p, r
  <1>4. Elements(queue') = {} /\ Len(queue') = 0
    BY <1>1, ElementsOfEmpty
  <1>5. Len(queue') <= QueueMaxSize /\ Len(wire') <= WireSize
    BY <1>1, <1>2, <1>3, <1>4, SizesAssumption DEF WhereInv, Accounted
  <1>6. Accounted'
    BY <1>1, <1>2, <1>4, <1>5 DEF WhereInv, Accounted
  <1> QED BY <1>1, <1>6 DEF WhereInv, WayInv

LEMMA ReceiveAccounts == Inv /\ WhereInv /\ Receive => WhereInv'
  <1> SUFFICES ASSUME Inv, WhereInv, Receive PROVE WhereInv'
    OBVIOUS
  <1>1. /\ wire \in Seq(Events) /\ heard \in Seq(Events) /\ Ascending(wire) /\ wire # <<>>
        /\ heard' = Append(heard, Head(wire)) /\ wire' = Tail(wire)
        /\ stream \in {"open", "broken"}
        /\ UNCHANGED <<queue, emitted, stream, lost>>
    BY DEF Inv, Types, FeedTypes, RoundTypes, FeedInv, Receive
  <1>2. /\ Elements(wire) = {Head(wire)} \cup Elements(wire')
        /\ Head(wire) \notin Elements(wire')
        /\ Head(wire) \in Events /\ Len(wire') = Len(wire) - 1
    BY <1>1, ElementsOfTail
  <1>3. Elements(heard') = Elements(heard) \cup {Head(wire)}
    BY <1>1, <1>2, ElementsOfAppend
  <1>4. Len(wire) \in Nat /\ WireSize \in Nat
    BY <1>1, SizesAssumption
  <1>5. Len(wire') <= WireSize
    BY <1>2, <1>4 DEF WhereInv, Accounted
  <1>6. Accounted'
    BY <1>1, <1>2, <1>3, <1>5 DEF WhereInv, Accounted
  <1> QED BY <1>1, <1>6 DEF WhereInv, WayInv

\* What the other steps do to the subscription.
LEMMA StreamSteps ==
    ASSUME [Next]_vars
    PROVE  \/ Emit \/ Send \/ (\E k \in 0..Len(wire) : Break(k)) \/ Receive
           \/ /\ UNCHANGED <<emitted, queue, wire, heard, lost>>
              /\ \/ UNCHANGED stream
                 \/ stream = "connecting" \/ (stream = "broken" /\ wire = <<>>)
                 \/ stream = "sleeping" /\ stream' = "connecting"
  <1>1. CASE Client
    BY <1>1 DEF Client, Connect, ConnectFails, Notice, Wake, roundVars
  <1>2. CASE Reaction
    BY Zenon, <1>2 DEF Reaction, NoDecision, Decide, Complain, TicketLands, TicketAnswered,
                       TicketFails, feedVars
  <1>3. CASE Load \/ LoadFails
    BY <1>3 DEF Load, LoadFails, feedVars
  <1>4. CASE Signal \/ ChildEnds \/ Kill \/ Exit
    BY <1>4 DEF Signal, ChildEnds, Kill, Exit, feedVars, roundVars
  <1>5. CASE UNCHANGED vars
    BY <1>5 DEF vars
  <1>6. CASE LateTicket
    BY Zenon, <1>6 DEF LateTicket, TicketLandsLate, feedVars
  <1> QED BY Zenon, <1>1, <1>2, <1>3, <1>4, <1>5, <1>6 DEF Next, LateTicket

LEMMA AccountsKept == Inv /\ WhereInv /\ [Next]_vars => WhereInv'
  <1> SUFFICES ASSUME Inv, WhereInv, [Next]_vars PROVE WhereInv'
    OBVIOUS
  <1>1. CASE /\ UNCHANGED <<emitted, queue, wire, heard, lost>>
             /\ \/ UNCHANGED stream
                \/ stream = "connecting" \/ (stream = "broken" /\ wire = <<>>)
                \/ stream = "sleeping" /\ stream' = "connecting"
    <2>1. Accounted'
      BY <1>1 DEF WhereInv, Accounted
    <2>2. WayInv'
      BY <1>1 DEF WhereInv, WayInv
    <2> QED BY <2>1, <2>2 DEF WhereInv
  <1> QED BY <1>1, StreamSteps, EmitAccounts, SendAccounts, BreakAccounts, ReceiveAccounts

\* No event is forgotten (event_client.py, server.py): what was emitted and asked for was
\* heard, is in the server's queue or in the socket, or is lost for good, and it is only
\* one of these; no more wait than the queue and the socket hold.  What is lost was
\* dropped by a full queue, fell into a gap, or was in a connection that broke.
THEOREM NothingForgotten == Spec => []Accounted
  <1>1. Init => WhereInv
    <2> SUFFICES ASSUME Init PROVE WhereInv
      OBVIOUS
    <2>1. \A e \in Events : ~(e <= emitted)
      BY Sizes DEF Init
    <2>2. Elements(heard) = {} /\ Elements(wire) = {} /\ Elements(queue) = {} /\ lost = {}
      BY ElementsOfEmpty DEF Init
    <2>3. Len(queue) <= QueueMaxSize /\ Len(wire) <= WireSize
      BY SizesAssumption DEF Init
    <2> QED BY <2>1, <2>2, <2>3 DEF Init, WhereInv, Accounted, WayInv
  <1>2. WhereInv => Accounted
    BY DEF WhereInv
  <1> QED BY <1>1, <1>2, AccountsKept, Invariant, PTL DEF Spec

----------------------------------------------------------------------------
(* The safety half of ChildIsStopped.                                        *)

\* Whoever is told to stop, or ends, has told the child; nobody exits before it is gone.
ChildTold ==
    /\ signalled \/ process # "running" => nat # "up"
    /\ process = "exited" => nat \in {"killed", "gone"}
    /\ driver = "dead" <=> process # "running"

\* How far the teardown is: the child's end, and the exit of its parent.
Teardown ==
    (CASE nat = "up" -> 0 [] nat = "stopping" -> 1 [] nat = "killed" -> 2 [] OTHER -> 3)
    + (CASE process = "running" -> 0 [] process = "ending" -> 1 [] OTHER -> 2)

LEMMA TeardownSteps ==
    ASSUME [Next]_vars
    PROVE  \/ UNCHANGED <<nat, process, signalled>> /\ (driver' = "dead" <=> driver = "dead")
           \/ LoadFails \/ Signal \/ ChildEnds \/ Kill \/ Exit
  <1>1. CASE Emit \/ Send \/ \E k \in 0..Len(wire) : Break(k)
    BY <1>1 DEF Emit, Send, Break, roundVars, procVars
  <1>2. CASE Client
    BY <1>2 DEF Client, Connect, ConnectFails, Notice, Wake, Receive, Listening, roundVars, procVars
  <1>3. CASE Reaction
    BY <1>3 DEF Reaction, NoDecision, Decide, Complain, TicketLands, TicketAnswered, TicketFails,
           NextPersona, procVars
  <1>4. CASE Load
    BY <1>4 DEF Load, procVars
  <1>5. CASE UNCHANGED vars
    BY <1>5 DEF vars
  <1>6. CASE LateTicket
    BY <1>6 DEF LateTicket, TicketLandsLate, procVars
  <1> QED BY <1>1, <1>2, <1>3, <1>4, <1>5, <1>6 DEF Next, LateTicket

LEMMA TeardownMoves ==
    ASSUME ProcTypes, RoundTypes, ChildTold, [Next]_vars
    PROVE  /\ ChildTold'
           /\ Teardown' >= Teardown
           /\ Kill \/ Exit => Teardown' > Teardown
           /\ nat' # nat => Teardown' > Teardown
  <1>0. /\ nat \in {"up", "stopping", "killed", "gone"}
        /\ process \in {"running", "ending", "exited"} /\ signalled \in BOOLEAN
    BY DEF ProcTypes
  <1>1. CASE UNCHANGED <<nat, process, signalled>> /\ (driver' = "dead" <=> driver = "dead")
    <2>1. ChildTold' /\ Teardown' = Teardown /\ Teardown \in Nat
      BY <1>1 DEF ChildTold, Teardown
    <2>2. ~Kill /\ ~Exit
      BY <1>1 DEF Kill, Exit
    <2> QED BY <1>1, <2>1, <2>2
  <1>2. CASE LoadFails
    <2>1. /\ driver = "loading" /\ driver' = "dead" /\ process' = "ending" /\ signalled' = signalled
          /\ nat' = IF nat = "up" THEN "stopping" ELSE nat
      BY <1>2 DEF LoadFails
    <2>2. process = "running"
      BY <1>0, <2>1 DEF ChildTold
    <2>3. ~Kill /\ ~Exit
      BY <2>1 DEF Kill, Exit, roundVars
    <2> QED BY <1>0, <2>1, <2>2, <2>3 DEF ChildTold, Teardown
  <1>3. CASE Signal
    <2>1. /\ UNCHANGED <<driver, process>> /\ signalled' = TRUE /\ signalled = FALSE
          /\ nat' = IF nat = "up" THEN "stopping" ELSE nat
      BY <1>0, <1>3 DEF Signal, roundVars
    <2>2. ~Kill /\ ~Exit
      BY <2>1 DEF Kill, Exit
    <2> QED BY <1>0, <2>1, <2>2 DEF ChildTold, Teardown
  <1>4. CASE ChildEnds \/ Kill
    <2>1. /\ UNCHANGED <<driver, process, signalled>>
          /\ \/ nat # "gone" /\ nat' = "gone"
             \/ nat = "stopping" /\ nat' = "killed"
      BY <1>0, <1>4 DEF ChildEnds, Kill, roundVars
    <2>2. ~Exit
      BY <2>1 DEF Exit
    <2> QED BY <1>0, <2>1, <2>2 DEF ChildTold, Teardown
  <1>5. CASE Exit
    <2>1. /\ UNCHANGED <<driver, nat, signalled>> /\ nat \in {"killed", "gone"}
          /\ process = "ending" /\ process' = "exited"
      BY <1>5 DEF Exit, roundVars
    <2> QED BY <1>0, <2>1 DEF ChildTold, Teardown
  <1> QED BY <1>1, <1>2, <1>3, <1>4, <1>5, TeardownSteps

\* The child is told to stop by a signal and by the end of the driver, and its parent
\* does not exit before it (main.py, _amain and shutdown); the teardown never goes back,
\* and each of its steps takes it further.  Together with the fairness of FairSpec this
\* is ChildIsStopped.
THEOREM TeardownIsBounded ==
    Spec => /\ []ChildTold
            /\ [][Teardown' >= Teardown /\ (Kill \/ Exit \/ nat' # nat => Teardown' > Teardown)]_vars
  <1>1. Init => ChildTold
    BY DEF Init, ChildTold
  <1>2. Inv => ProcTypes /\ RoundTypes
    BY DEF Inv, Types
  <1>3. Inv /\ ChildTold /\ [Next]_vars =>
            /\ ChildTold'
            /\ [Teardown' >= Teardown /\ (Kill \/ Exit \/ nat' # nat => Teardown' > Teardown)]_vars
    BY <1>2, TeardownMoves
  <1> QED BY <1>1, <1>3, Invariant, PTL DEF Spec

=============================================================================
