------------------------ MODULE EventGeneratorProofs ------------------------
(***************************************************************************)
(* Theorems about EventGenerator, for any number of connections, replay     *)
(* threads and tags, any feed, any queue size and any bound on posts.        *)
(***************************************************************************)
EXTENDS EventGenerator, SequenceTheorems, TLAPS

\* A thread inside emit holds a stamped event.
Carrying == \A e \in Emitters :
    thread[e].pc \in {"stamped", "found", "calling"} => thread[e].env \in Envelopes

TypeInv == TypeOK /\ Carrying

LEMMA RemoveAtType ==
    ASSUME NEW S, NEW s \in Seq(S), NEW i \in DOMAIN s
    PROVE  RemoveAt(s, i) \in Seq(S)
  <1>1. SubSeq(s, 1, i - 1) \in Seq(S) /\ SubSeq(s, i + 1, Len(s)) \in Seq(S)
    BY SubSeqProperties
  <1> QED BY <1>1, ConcatProperties DEF RemoveAt

LEMMA StampType ==
    ASSUME TypeInv, NEW e \in Emitters, NEW t \in Tags, Stamp(e, t)
    PROVE  /\ thread' \in [Emitters -> [pc : {"unborn", "idle", "stamped", "found", "calling",
                                              "dead"},
                                        env : Envelopes \cup {NoTag}, todo : Seq(Conns)]]
           /\ pos' \in [Emitters -> Nat]
           /\ seq' \in Nat
           /\ Carrying'
  <1>1. [seq |-> NextSeq(e), tag |-> t, by |-> e] \in Envelopes
    BY BoundsAssumption DEF TypeInv, TypeOK, Stamp, NextSeq, Envelopes
  <1>2. <<>> \in Seq(Conns)
    OBVIOUS
  <1>3. thread' = [thread EXCEPT ![e] = [pc |-> "stamped",
                     env |-> [seq |-> NextSeq(e), tag |-> t, by |-> e], todo |-> <<>>]]
    BY DEF Stamp
  <1> QED BY <1>1, <1>2, <1>3 DEF TypeInv, TypeOK, Stamp, Carrying

\* The types of the state are preserved by every step.
LEMMA TypeStep == TypeInv /\ [Next]_vars => TypeInv'
  <1> SUFFICES ASSUME TypeInv, [Next]_vars PROVE TypeInv'
    OBVIOUS
  <1> USE DEF TypeInv, TypeOK, brokerVars, emitVars, queueVars
  <1>1. ASSUME NEW c \in Conns, NEW tags \in Requests, Subscribe(c, tags) PROVE TypeInv'
    <2>1. tags \in Seq(Tags)
      BY RequestsAssumption
    <2> QED BY <1>1, <2>1 DEF Subscribe, Carrying
  <1>2. ASSUME NEW c \in Conns, SubscribeTag(c) PROVE TypeInv'
    <2>1. Head(left) \in Tags /\ Tail(left) \in Seq(Tags)
      BY <1>2 DEF SubscribeTag
    <2> QED BY <1>2, <2>1 DEF SubscribeTag, Carrying
  <1>3. ASSUME NEW c \in Conns, Accept(c) PROVE TypeInv'
    BY <1>3 DEF Accept, Carrying
  <1>4. ASSUME NEW c \in Conns, NEW t \in Tags, UnsubscribeTag(c, t) PROVE TypeInv'
    <2>1. PICK i \in DOMAIN subscribers[t] :
            subscribers' = [subscribers EXCEPT ![t] = Without(@, i)]
      BY <1>4 DEF UnsubscribeTag
    <2>2. Without(subscribers[t], i) \in Seq(Conns)
      BY RemoveAtType DEF Without
    <2> QED BY <1>4, <2>1, <2>2 DEF UnsubscribeTag, Carrying
  <1>5. ASSUME NEW c \in Conns, Forget(c) PROVE TypeInv'
    BY <1>5 DEF Forget, Carrying
  <1>6. ASSUME NEW c \in Conns, StartStream(c) \/ Abandon(c) \/ Disconnect(c) PROVE TypeInv'
    BY <1>6 DEF StartStream, Abandon, Disconnect, Carrying
  <1>7. ASSUME NEW c \in Conns, Yield(c) PROVE TypeInv'
    <2>1. Head(queue[c]) \in Envelopes /\ Tail(queue[c]) \in Seq(Envelopes)
      BY <1>7 DEF Yield
    <2>2. Append(sent[c], Head(queue[c])) \in Seq(Envelopes)
      BY <2>1
    <2> QED BY <1>7, <2>1, <2>2 DEF Yield, Carrying
  <1>8. ASSUME NEW t \in Tags, PostEmit(t) PROVE TypeInv'
    <2>1. Loop \in Emitters
      BY DEF Emitters
    <2> QED BY <1>8, <2>1, StampType DEF PostEmit
  <1>9. ASSUME NEW r \in Replays, Replay(r) PROVE TypeInv'
    BY <1>9 DEF Replay, Carrying, Idle, NoTag, Emitters
  <1>10. ASSUME NEW r \in Replays, NextOfFeed(r) PROVE TypeInv'
    <2>1. r \in Emitters /\ Feed[pos[r] + 1] \in Tags
      BY <1>10, FeedAssumption DEF NextOfFeed, Emitters
    <2> QED BY <1>10, <2>1, StampType DEF NextOfFeed
  <1>11. ASSUME NEW e \in Emitters, CheckTag(e) PROVE TypeInv'
    BY <1>11 DEF CheckTag, Carrying
  <1>12. ASSUME NEW e \in Emitters, CopyListeners(e) PROVE TypeInv'
    <2>1. thread[e].env.tag \in Tags
      BY <1>12 DEF CopyListeners, Carrying, Envelopes
    <2>2. subscribers[thread[e].env.tag] \in Seq(Conns)
      BY <2>1
    <2> QED BY <1>12, <2>2 DEF CopyListeners, Carrying
  <1>13. ASSUME NEW e \in Emitters, CallListener(e) PROVE TypeInv'
    <2>1. thread[e].env \in Envelopes /\ Head(thread[e].todo) \in Conns
          /\ Tail(thread[e].todo) \in Seq(Conns)
      BY <1>13 DEF CallListener, MayCall, Carrying
    <2>2. ready' \in Seq([conn : Conns, env : Envelopes])
      BY <1>13, <2>1 DEF CallListener
    <2> QED BY <1>13, <2>1, <2>2 DEF CallListener, Carrying
  <1>14. ASSUME NEW e \in Emitters, EmitReturns(e) PROVE TypeInv'
    BY <1>14 DEF EmitReturns, Carrying, Idle, NoTag
  <1>15. ASSUME Offer PROVE TypeInv'
    <2> DEFINE c == Head(ready).conn
               env == Head(ready).env
    <2>0. ready # <<>> /\ ready' = Tail(ready)
      BY <1>15 DEF Offer, MayOffer
    <2>1. c \in Conns /\ env \in Envelopes /\ ready' \in Seq([conn : Conns, env : Envelopes])
      <3>1. /\ Head(ready) \in [conn : Conns, env : Envelopes]
            /\ Tail(ready) \in Seq([conn : Conns, env : Envelopes])
        BY <2>0, HeadTailProperties
      <3> QED BY <2>0, <3>1
    <2>2. MakeRoom(queue[c]) \in Seq(Envelopes)
      BY <2>1, QueueAssumption DEF MakeRoom, Full
    <2>3. /\ queue' = [queue EXCEPT ![c] = Append(MakeRoom(@), env)]
          /\ dropped' = [dropped EXCEPT ![c] = IF Full(queue[c]) THEN @ + 1 ELSE @]
          /\ log' = [log EXCEPT ![c] = Append(@, env)]
      BY <1>15 DEF Offer
    <2> HIDE DEF c, env
    <2>4. queue' \in [Conns -> Seq(Envelopes)] /\ log' \in [Conns -> Seq(Envelopes)]
      BY <2>1, <2>2, <2>3
    <2>5. dropped' \in [Conns -> Nat]
      BY <2>1, <2>3
    <2> QED BY <1>15, <2>1, <2>4, <2>5 DEF Offer, Carrying
  <1>16. ASSUME UNCHANGED vars PROVE TypeInv'
    BY <1>16 DEF vars, Carrying
  <1> QED BY <1>1, <1>2, <1>3, <1>4, <1>5, <1>6, <1>7, <1>8, <1>9, <1>10, <1>11, <1>12,
             <1>13, <1>14, <1>15, <1>16 DEF Next, HandlerStep, EmitStep

LEMMA TypeInit == Init => TypeInv
  BY LoopAssumption DEF Init, TypeInv, TypeOK, Carrying, Idle, Unborn, NoTag, Emitters

\* The broker, the sequencer and every queue keep their types on every thread.
THEOREM TypeCorrect == Spec => []TypeOK
  <1>1. Spec => []TypeInv
    BY TypeInit, TypeStep, PTL DEF Spec
  <1> QED BY <1>1, PTL DEF TypeInv

----------------------------------------------------------------------------
(* The mailbox.  The refinement needs what the queue holds to be exactly the *)
(* end of the log, which no single step says: it is an invariant.            *)

BoxInv == \A c \in Conns :
    LET n == Len(sent[c]) + dropped[c] IN
    /\ Len(queue[c]) <= QueueMaxSize
    /\ Len(log[c]) = n + Len(queue[c])
    /\ \A i \in 1..Len(queue[c]) : queue[c][i] = log[c][n + i]

\* Only the stream and _offer touch the queues.
LEMMA QueueSteps ==
    ASSUME [Next]_vars
    PROVE  Offer \/ (\E c \in Conns : Yield(c)) \/ UNCHANGED queueVars
  BY DEF Next, vars, queueVars, HandlerStep, EmitStep, Subscribe, SubscribeTag, Accept,
         UnsubscribeTag, Forget, StartStream, Abandon, Disconnect, PostEmit, Replay,
         NextOfFeed, CheckTag, CopyListeners, CallListener, EmitReturns

\* The next event of the feed reaches a subscriber's queue.
LEMMA OfferEffect ==
    ASSUME TypeInv, Offer
    PROVE  \E c \in Conns, env \in Envelopes :
              /\ queue' = [queue EXCEPT ![c] = Append(MakeRoom(queue[c]), env)]
              /\ dropped' = [dropped EXCEPT ![c] = IF Full(queue[c]) THEN dropped[c] + 1
                                                   ELSE dropped[c]]
              /\ log' = [log EXCEPT ![c] = Append(log[c], env)]
              /\ sent' = sent
  <1>1. Head(ready) \in [conn : Conns, env : Envelopes]
    BY HeadTailProperties DEF Offer, MayOffer, TypeInv, TypeOK
  <1> QED BY <1>1 DEF Offer

\* q is the end of l that follows its first n elements.
EndsWith(l, n, q) ==
    /\ Len(l) = n + Len(q)
    /\ \A i \in 1..Len(q) : q[i] = l[n + i]

LEMMA AppendToBoth ==
    ASSUME NEW S, NEW l \in Seq(S), NEW q \in Seq(S), NEW n \in Nat, NEW x \in S,
           EndsWith(l, n, q)
    PROVE  /\ EndsWith(Append(l, x), n, Append(q, x))
           /\ Len(Append(q, x)) = Len(q) + 1
  <1>1. /\ Len(q) \in Nat /\ Len(Append(q, x)) = Len(q) + 1
        /\ \A i \in 1..Len(q) : Append(q, x)[i] = q[i]
        /\ Append(q, x)[Len(q) + 1] = x
    OBVIOUS
  <1>2. /\ Len(l) \in Nat /\ Len(Append(l, x)) = Len(l) + 1
        /\ \A i \in 1..Len(l) : Append(l, x)[i] = l[i]
        /\ Append(l, x)[Len(l) + 1] = x
    OBVIOUS
  <1>3. Len(Append(l, x)) = n + Len(Append(q, x))
    BY <1>1, <1>2 DEF EndsWith
  <1>4. ASSUME NEW i \in 1..Len(Append(q, x)) PROVE Append(q, x)[i] = Append(l, x)[n + i]
    <2>1. CASE i \in 1..Len(q)
      <3>1. n + i \in 1..Len(l) /\ q[i] = l[n + i]
        BY <1>1, <2>1 DEF EndsWith
      <3> QED BY <1>1, <1>2, <2>1, <3>1
    <2>2. CASE i = Len(q) + 1
      <3>1. n + i = Len(l) + 1
        BY <1>1, <2>2 DEF EndsWith
      <3> QED BY <1>1, <1>2, <2>2, <3>1
    <2>3. i \in 1..(Len(q) + 1)
      BY <1>1
    <2>4. i \in 1..Len(q) \/ i = Len(q) + 1
      BY <1>1, <2>3
    <2> QED BY <2>1, <2>2, <2>4
  <1> QED BY <1>1, <1>3, <1>4 DEF EndsWith

LEMMA TakeHead ==
    ASSUME NEW S, NEW l \in Seq(S), NEW q \in Seq(S), NEW n \in Nat, EndsWith(l, n, q), q # <<>>
    PROVE  /\ EndsWith(l, n + 1, Tail(q))
           /\ Head(q) = l[n + 1]
           /\ Len(Tail(q)) = Len(q) - 1
           /\ Tail(q) \in Seq(S)
           /\ Len(q) \in Nat \ {0}
  <1>1. /\ Len(q) \in Nat \ {0} /\ Len(Tail(q)) = Len(q) - 1 /\ Tail(q) \in Seq(S)
        /\ \A i \in 1..Len(Tail(q)) : Tail(q)[i] = q[i + 1]
        /\ Head(q) = q[1]
    OBVIOUS
  <1>2. Len(l) = (n + 1) + Len(Tail(q))
    BY <1>1 DEF EndsWith
  <1>3. ASSUME NEW i \in 1..Len(Tail(q)) PROVE Tail(q)[i] = l[(n + 1) + i]
    <2>1. i + 1 \in 1..Len(q) /\ n + (i + 1) = (n + 1) + i
      BY <1>1
    <2> QED BY <1>1, <2>1 DEF EndsWith
  <1>4. Head(q) = l[n + 1]
    BY <1>1 DEF EndsWith
  <1> QED BY <1>1, <1>2, <1>3, <1>4 DEF EndsWith

LEMMA BoxStep == TypeInv /\ BoxInv /\ [Next]_vars => BoxInv'
  <1> SUFFICES ASSUME TypeInv, BoxInv, [Next]_vars PROVE BoxInv'
    OBVIOUS
  <1> DEFINE n(d) == Len(sent[d]) + dropped[d]
  <1>1. ASSUME NEW d \in Conns
        PROVE  /\ queue[d] \in Seq(Envelopes) /\ log[d] \in Seq(Envelopes)
               /\ sent[d] \in Seq(Envelopes) /\ dropped[d] \in Nat /\ n(d) \in Nat
               /\ Len(queue[d]) \in Nat
               /\ Len(queue[d]) <= QueueMaxSize /\ EndsWith(log[d], n(d), queue[d])
    BY DEF BoxInv, TypeInv, TypeOK, EndsWith
  <1> SUFFICES ASSUME NEW d \in Conns
               PROVE  /\ Len(queue'[d]) <= QueueMaxSize
                      /\ EndsWith(log'[d], Len(sent'[d]) + dropped'[d], queue'[d])
    BY DEF BoxInv, EndsWith
  <1>2. CASE Offer
    <2>1. PICK c \in Conns, env \in Envelopes :
              /\ queue' = [queue EXCEPT ![c] = Append(MakeRoom(queue[c]), env)]
              /\ dropped' = [dropped EXCEPT ![c] = IF Full(queue[c]) THEN dropped[c] + 1
                                                   ELSE dropped[c]]
              /\ log' = [log EXCEPT ![c] = Append(log[c], env)]
              /\ sent' = sent
      BY <1>2, OfferEffect
    <2>2. CASE d # c
      BY <2>1, <2>2, <1>1 DEF TypeInv, TypeOK
    <2>3. CASE d = c /\ Full(queue[d])
      <3>1. /\ queue'[d] = Append(Tail(queue[d]), env) /\ log'[d] = Append(log[d], env)
            /\ dropped'[d] = dropped[d] + 1 /\ sent'[d] = sent[d]
        BY <2>1, <2>3 DEF MakeRoom, TypeInv, TypeOK
      <3>2. Len(queue[d]) = QueueMaxSize /\ queue[d] # <<>>
        BY <1>1, <2>3, QueueAssumption DEF Full
      <3>3. /\ EndsWith(log[d], n(d) + 1, Tail(queue[d])) /\ Tail(queue[d]) \in Seq(Envelopes)
            /\ Len(Tail(queue[d])) = QueueMaxSize - 1
        BY <1>1, <3>2, TakeHead
      <3>4. n(d) + 1 = Len(sent'[d]) + dropped'[d] /\ n(d) + 1 \in Nat
        BY <1>1, <3>1
      <3>5. EndsWith(Append(log[d], env), n(d) + 1, Append(Tail(queue[d]), env))
            /\ Len(Append(Tail(queue[d]), env)) = QueueMaxSize - 1 + 1
        <4>1. /\ log[d] \in Seq(Envelopes) /\ Tail(queue[d]) \in Seq(Envelopes)
              /\ n(d) + 1 \in Nat /\ EndsWith(log[d], n(d) + 1, Tail(queue[d]))
          BY <1>1, <3>3, <3>4
        <4> HIDE DEF n
        <4>2. /\ EndsWith(Append(log[d], env), n(d) + 1, Append(Tail(queue[d]), env))
              /\ Len(Append(Tail(queue[d]), env)) = Len(Tail(queue[d])) + 1
          BY <4>1, AppendToBoth
        <4> QED BY <3>3, <4>2
      <3> QED BY <3>1, <3>4, <3>5, QueueAssumption
    <2>4. CASE d = c /\ ~Full(queue[d])
      <3>1. /\ queue'[d] = Append(queue[d], env) /\ log'[d] = Append(log[d], env)
            /\ dropped'[d] = dropped[d] /\ sent'[d] = sent[d]
        BY <2>1, <2>4 DEF MakeRoom, TypeInv, TypeOK
      <3>2. Len(queue[d]) < QueueMaxSize
        BY <1>1, <2>4, QueueAssumption DEF Full
      <3>3. EndsWith(Append(log[d], env), n(d), Append(queue[d], env))
            /\ Len(Append(queue[d], env)) = Len(queue[d]) + 1
        <4>1. /\ log[d] \in Seq(Envelopes) /\ queue[d] \in Seq(Envelopes) /\ n(d) \in Nat
              /\ EndsWith(log[d], n(d), queue[d])
          BY <1>1
        <4> HIDE DEF n
        <4> QED BY <4>1, AppendToBoth
      <3> QED BY <1>1, <3>1, <3>2, <3>3, QueueAssumption
    <2> QED BY <2>2, <2>3, <2>4
  <1>3. CASE \E c \in Conns : Yield(c)
    <2>1. PICK c \in Conns : Yield(c)
      BY <1>3
    <2>2. /\ queue[c] # <<>>
          /\ queue' = [queue EXCEPT ![c] = Tail(queue[c])]
          /\ sent' = [sent EXCEPT ![c] = Append(sent[c], Head(queue[c]))]
          /\ UNCHANGED <<dropped, log>>
      BY <2>1 DEF Yield
    <2>3. CASE d # c
      BY <2>2, <2>3, <1>1 DEF TypeInv, TypeOK
    <2>4. CASE d = c
      <3>1. EndsWith(log[d], n(d) + 1, Tail(queue[d])) /\ Len(Tail(queue[d])) = Len(queue[d]) - 1
        BY <1>1, <2>2, <2>4, TakeHead
      <3>2. /\ queue'[d] = Tail(queue[d]) /\ log'[d] = log[d] /\ dropped'[d] = dropped[d]
            /\ Len(sent'[d]) = Len(sent[d]) + 1 /\ Len(sent[d]) \in Nat
        BY <1>1, <2>2, <2>4 DEF TypeInv, TypeOK
      <3>3. n(d) + 1 = Len(sent'[d]) + dropped'[d]
        BY <1>1, <3>2
      <3> QED BY <1>1, <3>1, <3>2, <3>3, QueueAssumption
    <2> QED BY <2>3, <2>4
  <1>4. CASE UNCHANGED queueVars
    BY <1>1, <1>4 DEF queueVars
  <1> QED BY <1>2, <1>3, <1>4, QueueSteps

LEMMA BoxInit == Init => BoxInv
  BY QueueAssumption DEF Init, BoxInv

LEMMA Boxes == Spec => [](TypeInv /\ BoxInv)
  BY TypeInit, TypeStep, BoxInit, BoxStep, PTL DEF Spec

\* Every step of the service is a step of the mailboxes or leaves them alone.
LEMMA MailboxStep ==
    ASSUME TypeInv, BoxInv, [Next]_vars
    PROVE  [Mailbox!Next]_(Mailbox!vars)
  <1> DEFINE taken == [c \in Conns |-> Len(sent[c]) + dropped[c]]
  <1>1. CASE Offer
    <2>1. PICK c \in Conns, env \in Envelopes :
              /\ queue' = [queue EXCEPT ![c] = Append(MakeRoom(queue[c]), env)]
              /\ dropped' = [dropped EXCEPT ![c] = IF Full(queue[c]) THEN dropped[c] + 1
                                                   ELSE dropped[c]]
              /\ log' = [log EXCEPT ![c] = Append(log[c], env)]
              /\ sent' = sent
      BY <1>1, OfferEffect
    <2>2. /\ Len(log[c]) - taken[c] = Len(queue[c]) /\ Len(queue[c]) \in Nat
          /\ Len(sent[c]) \in Nat /\ dropped[c] \in Nat
      BY DEF BoxInv, TypeInv, TypeOK
    <2>3. CASE Full(queue[c])
      <3>1. dropped' = [dropped EXCEPT ![c] = dropped[c] + 1]
        BY <2>1, <2>3
      <3>2. taken' = [taken EXCEPT ![c] = taken[c] + 1]
        <4>1. [taken EXCEPT ![c] = taken[c] + 1]
                 = [d \in Conns |-> IF d = c THEN taken[c] + 1 ELSE taken[d]]
          OBVIOUS
        <4>2. taken' = [d \in Conns |-> Len(sent[d]) + dropped'[d]]
          BY <2>1
        <4>3. ASSUME NEW d \in Conns
              PROVE  Len(sent[d]) + dropped'[d] = IF d = c THEN taken[c] + 1 ELSE taken[d]
          <5>1. dropped'[d] = IF d = c THEN dropped[c] + 1 ELSE dropped[d]
            BY <3>1 DEF TypeInv, TypeOK
          <5> QED BY <5>1, <2>2
        <4> QED BY <4>1, <4>2, <4>3
      <3> QED BY <2>1, <2>2, <2>3, <3>1, <3>2
           DEF Full, Mailbox!Next, Mailbox!Put, Mailbox!Waiting
    <2>4. CASE ~Full(queue[c])
      <3>1. dropped' = dropped /\ taken' = taken
        BY <2>1, <2>4 DEF TypeInv, TypeOK
      <3>2. Len(queue[c]) < QueueMaxSize
        BY <2>2, <2>4, QueueAssumption DEF Full
      <3> QED BY <2>1, <2>2, <3>1, <3>2 DEF Mailbox!Next, Mailbox!Put, Mailbox!Waiting
    <2> QED BY <2>3, <2>4
  <1>2. CASE \E c \in Conns : Yield(c)
    <2>1. PICK c \in Conns : Yield(c)
      BY <1>2
    <2>2. /\ queue[c] \in Seq(Envelopes) /\ queue[c] # <<>>
          /\ sent' = [sent EXCEPT ![c] = Append(sent[c], Head(queue[c]))]
          /\ UNCHANGED <<dropped, log>>
      BY <2>1 DEF Yield, TypeInv, TypeOK
    <2>3. Head(queue[c]) = log[c][taken[c] + 1] /\ Len(log[c]) - taken[c] > 0
      <3>1. 1 \in 1..Len(queue[c]) /\ Head(queue[c]) = queue[c][1]
        BY <2>2
      <3>2. /\ Len(log[c]) = taken[c] + Len(queue[c]) /\ taken[c] \in Nat
            /\ queue[c][1] = log[c][taken[c] + 1]
        BY <3>1 DEF BoxInv, TypeInv, TypeOK
      <3> QED BY <2>2, <3>1, <3>2
    <2>4. taken' = [taken EXCEPT ![c] = taken[c] + 1]
      <3>1. sent \in [Conns -> Seq(Envelopes)] /\ dropped \in [Conns -> Nat]
        BY DEF TypeInv, TypeOK
      <3>2. Len(sent'[c]) = Len(sent[c]) + 1 /\ Len(sent[c]) \in Nat /\ dropped[c] \in Nat
        BY <2>2, <3>1
      <3>3. ASSUME NEW d \in Conns, d # c PROVE sent'[d] = sent[d]
        BY <2>2, <3>1, <3>3
      <3>4. taken' = [d \in Conns |-> Len(sent'[d]) + dropped[d]]
        BY <2>2
      <3>5. Len(sent'[c]) + dropped[c] = taken[c] + 1
        BY <3>2
      <3>6. [taken EXCEPT ![c] = taken[c] + 1]
               = [d \in Conns |-> IF d = c THEN taken[c] + 1 ELSE taken[d]]
        OBVIOUS
      <3>7. ASSUME NEW d \in Conns
            PROVE  Len(sent'[d]) + dropped[d] = IF d = c THEN taken[c] + 1 ELSE taken[d]
        BY <3>3, <3>5
      <3> QED BY <3>4, <3>6, <3>7
    <2> QED BY <2>2, <2>3, <2>4 DEF Mailbox!Next, Mailbox!Take, Mailbox!Waiting
  <1>3. CASE UNCHANGED queueVars
    BY <1>3 DEF queueVars, Mailbox!vars
  <1> QED BY <1>1, <1>2, <1>3, QueueSteps

\* The queue, the drop counter and the stream of every subscriber implement a
\* bounded mailbox: events wait in order, and one is skipped and counted only
\* when QUEUE_MAXSIZE events are already waiting (_offer and stream).
THEOREM ImplementsMailboxes == Spec => Mailboxes
  <1>1. Init => Mailbox!Init
    BY DEF Init, Mailbox!Init
  <1> QED BY <1>1, Boxes, MailboxStep, PTL DEF Spec, Mailboxes, Mailbox!Spec

----------------------------------------------------------------------------
(* The event loop.  A handler that has begun has the loop to itself, so the   *)
(* dictionary does not change under an emit that runs on the loop.           *)

Handling(c) == conn[c] \in {"subscribing", "leaving"}

LoopInv ==
    /\ \A c, d \in Conns : Handling(c) /\ Handling(d) => c = d
    /\ thread[Loop].pc # "idle" => \A c \in Conns : ~Handling(c)
    /\ thread[Loop].pc = "found" => subscribers[thread[Loop].env.tag] # <<>>
    /\ thread[Loop].pc # "dead"

LEMMA LoopIsEmitter == Loop \in Emitters
  BY DEF Emitters

LEMMA LoopInit == Init => LoopInv
  BY LoopIsEmitter DEF Init, LoopInv, Handling, Idle

LEMMA LoopStep == TypeInv /\ LoopInv /\ [Next]_vars => LoopInv'
  <1> SUFFICES ASSUME TypeInv, LoopInv, [Next]_vars PROVE LoopInv'
    OBVIOUS
  <1> USE LoopIsEmitter DEF brokerVars, emitVars, queueVars, Handling, LoopInv
  <1>0. thread \in [Emitters -> [pc : {"unborn", "idle", "stamped", "found", "calling", "dead"},
                                env : Envelopes \cup {NoTag}, todo : Seq(Conns)]]
        /\ conn \in [Conns -> {"none", "subscribing", "open", "streaming", "leaving",
                              "closed", "abandoned"}]
    BY DEF TypeInv, TypeOK
  <1>1. ASSUME NEW c \in Conns, NEW tags \in Requests, Subscribe(c, tags) PROVE LoopInv'
    BY <1>0, <1>1 DEF Subscribe, LoopFree
  <1>2. ASSUME NEW c \in Conns, SubscribeTag(c) PROVE LoopInv'
    BY <1>0, <1>2 DEF SubscribeTag
  <1>3. ASSUME NEW c \in Conns, Accept(c) \/ Forget(c) PROVE LoopInv'
    BY <1>0, <1>3 DEF Accept, Forget
  <1>4. ASSUME NEW c \in Conns, NEW t \in Tags, UnsubscribeTag(c, t) PROVE LoopInv'
    BY <1>0, <1>4 DEF UnsubscribeTag
  <1>5. ASSUME NEW c \in Conns, StartStream(c) \/ Abandon(c) \/ Disconnect(c) PROVE LoopInv'
    BY <1>0, <1>5 DEF StartStream, Abandon, Disconnect, LoopFree
  <1>6. ASSUME NEW c \in Conns, Yield(c) PROVE LoopInv'
    BY <1>6 DEF Yield
  <1>7. ASSUME NEW t \in Tags, PostEmit(t) PROVE LoopInv'
    BY <1>0, <1>7 DEF PostEmit, Stamp, LoopFree
  <1>8. ASSUME NEW r \in Replays, Replay(r) \/ NextOfFeed(r) PROVE LoopInv'
    <2>1. r # Loop /\ r \in Emitters
      BY LoopAssumption DEF Emitters
    <2>2. thread'[Loop] = thread[Loop]
      BY <1>0, <1>8, <2>1 DEF Replay, NextOfFeed, Stamp
    <2> QED BY <1>8, <2>2 DEF Replay, NextOfFeed
  <1>9. ASSUME NEW e \in Emitters, EmitStep(e), e # Loop PROVE LoopInv'
    <2>1. thread'[Loop] = thread[Loop]
      BY <1>0, <1>9 DEF EmitStep, CheckTag, CopyListeners, CallListener, EmitReturns
    <2> QED BY <1>9, <2>1 DEF EmitStep, CheckTag, CopyListeners, CallListener, EmitReturns
  <1>10. ASSUME CheckTag(Loop) PROVE LoopInv'
    <2>1. /\ thread'[Loop].pc = IF subscribers[thread[Loop].env.tag] # <<>> THEN "found"
                                ELSE "calling"
          /\ thread'[Loop].env = thread[Loop].env
          /\ thread[Loop].pc = "stamped"
      BY <1>0, <1>10 DEF CheckTag
    <2> QED BY <1>10, <2>1 DEF CheckTag
  <1>11. ASSUME CopyListeners(Loop) PROVE LoopInv'
    <2>1. thread'[Loop].pc = "calling" /\ thread[Loop].pc = "found"
      BY <1>0, <1>11 DEF CopyListeners
    <2> QED BY <1>11, <2>1 DEF CopyListeners
  <1>12. ASSUME CallListener(Loop) \/ EmitReturns(Loop) PROVE LoopInv'
    <2>1. thread'[Loop].pc \in {"calling", "idle"} /\ thread[Loop].pc = "calling"
      BY <1>0, <1>12 DEF CallListener, MayCall, EmitReturns, Idle
    <2> QED BY <1>12, <2>1 DEF CallListener, EmitReturns
  <1>13. ASSUME Offer PROVE LoopInv'
    BY <1>13 DEF Offer
  <1>14. ASSUME UNCHANGED vars PROVE LoopInv'
    BY <1>14 DEF vars
  <1> QED BY <1>1, <1>2, <1>3, <1>4, <1>5, <1>6, <1>7, <1>8, <1>9, <1>10, <1>11, <1>12,
             <1>13, <1>14 DEF Next, HandlerStep, EmitStep

LEMMA LoopSafe == Spec => [](TypeInv /\ LoopInv)
  BY TypeInit, TypeStep, LoopInit, LoopStep, PTL DEF Spec

\* POST /emit never ends in the KeyError of Event.emit, however many streams
\* start and end around it: both run on the loop (server.py, emit and stream).
THEOREM PostsSurvive == Spec => []PostSurvives
  <1>1. LoopInv => PostSurvives
    BY DEF LoopInv, PostSurvives
  <1> QED BY <1>1, LoopSafe, PTL

----------------------------------------------------------------------------
(* The registry: which listeners stand behind the number /health reports.    *)

LEMMA RemoveAtIs ==
    ASSUME NEW S, NEW s \in Seq(S), NEW i \in DOMAIN s
    PROVE  /\ i \in 1..Len(s) /\ Len(s) \in Nat /\ DOMAIN s = 1..Len(s)
           /\ DOMAIN RemoveAt(s, i) = 1..(Len(s) - 1)
           /\ \A j \in 1..(Len(s) - 1) : RemoveAt(s, i)[j] = IF j < i THEN s[j] ELSE s[j + 1]
  <1> DEFINE a == SubSeq(s, 1, i - 1)
             b == SubSeq(s, i + 1, Len(s))
  <1>0. DOMAIN s = 1..Len(s)
    OBVIOUS
  <1>1. i \in 1..Len(s) /\ Len(s) \in Nat
    OBVIOUS
  <1>2. /\ a \in Seq(S) /\ Len(a) = i - 1 /\ \A j \in 1..(i - 1) : a[j] = s[j]
        /\ b \in Seq(S) /\ Len(b) = Len(s) - i /\ \A j \in 1..(Len(s) - i) : b[j] = s[i + j]
    BY <1>1, SubSeqProperties
  <1> HIDE DEF a, b
  <1>3. /\ RemoveAt(s, i) = a \o b
        /\ DOMAIN (a \o b) = 1..(Len(s) - 1)
        /\ \A j \in 1..(Len(s) - 1) : (a \o b)[j] = IF j < i THEN s[j] ELSE s[j + 1]
    <2>1. RemoveAt(s, i) = a \o b
      BY DEF RemoveAt, a, b
    <2>2. /\ Len(a \o b) = Len(s) - 1 /\ a \o b \in Seq(S)
          /\ \A j \in 1..(Len(s) - 1) :
                (a \o b)[j] = IF j <= Len(a) THEN a[j] ELSE b[j - Len(a)]
      BY <1>1, <1>2, ConcatProperties
    <2>3. ASSUME NEW j \in 1..(Len(s) - 1) PROVE (a \o b)[j] = IF j < i THEN s[j] ELSE s[j + 1]
      <3>1. CASE j < i
        BY <1>1, <1>2, <2>2, <3>1
      <3>2. CASE ~(j < i)
        <4>1. j - (i - 1) \in 1..(Len(s) - i) /\ i + (j - (i - 1)) = j + 1 /\ ~(j <= i - 1)
          BY <1>1, <3>2
        <4>2. b[j - (i - 1)] = s[j + 1]
          BY <1>2, <4>1
        <4> QED BY <1>2, <2>2, <3>2, <4>1, <4>2
      <3> QED BY <3>1, <3>2
    <2> QED BY <2>1, <2>2, <2>3
  <1> QED BY <1>0, <1>1, <1>3

LEMMA RemoveAtElements ==
    ASSUME NEW S, NEW s \in Seq(S), NEW i \in DOMAIN s, NEW x
    PROVE  /\ Holds(RemoveAt(s, i), x) => Holds(s, x)
           /\ x # s[i] /\ Holds(s, x) => Holds(RemoveAt(s, i), x)
  <1>1. i \in 1..Len(s) /\ Len(s) \in Nat /\ DOMAIN s = 1..Len(s)
    BY RemoveAtIs
  <1>3. /\ DOMAIN RemoveAt(s, i) = 1..(Len(s) - 1)
        /\ \A j \in 1..(Len(s) - 1) : RemoveAt(s, i)[j] = IF j < i THEN s[j] ELSE s[j + 1]
    BY RemoveAtIs
  <1>4. ASSUME NEW j \in 1..(Len(s) - 1), RemoveAt(s, i)[j] = x PROVE Holds(s, x)
    <2>1. j \in 1..Len(s) /\ j + 1 \in 1..Len(s)
      BY <1>1
    <2> QED BY <1>3, <1>4, <2>1 DEF Holds
  <1>5. ASSUME x # s[i], NEW k \in 1..Len(s), s[k] = x PROVE Holds(RemoveAt(s, i), x)
    <2>1. CASE k < i
      <3>1. k \in 1..(Len(s) - 1)
        BY <1>1, <2>1
      <3>2. RemoveAt(s, i)[k] = x
        BY <1>3, <1>5, <2>1, <3>1
      <3> QED BY <1>3, <3>1, <3>2 DEF Holds
    <2>2. CASE k > i
      <3>1. k - 1 \in 1..(Len(s) - 1) /\ ~(k - 1 < i) /\ (k - 1) + 1 = k
        BY <1>1, <2>2
      <3> QED BY <1>3, <1>5, <3>1 DEF Holds
    <2>3. k # i
      BY <1>5
    <2> QED BY <1>1, <2>1, <2>2, <2>3
  <1> QED BY <1>1, <1>3, <1>4, <1>5 DEF Holds

RegistryInv == \A c \in Conns :
    /\ c \in connections <=> conn[c] \in {"open", "streaming", "leaving", "abandoned"}
    /\ conn[c] \in {"none", "closed"} => \A t \in Tags : ~Listening(c, t)
    /\ conn[c] \in {"open", "streaming", "abandoned"} =>
          \A t \in Tags : Holds(want[c], t) => Listening(c, t)
    /\ conn[c] = "subscribing" =>
          \A t \in Tags : Holds(want[c], t) => Listening(c, t) \/ Holds(left, t)
    /\ conn[c] # "none" => want[c] # <<>>

LEMMA RegistryInit == Init => RegistryInv
  BY DEF Init, RegistryInv, Listening

\* Steps that leave the registry alone.
LEMMA RegistrySteps ==
    ASSUME [Next]_vars
    PROVE  \/ \E c \in Conns : \/ \E tags \in Requests : Subscribe(c, tags)
                               \/ HandlerStep(c) \/ StartStream(c) \/ Abandon(c)
                               \/ Disconnect(c)
           \/ UNCHANGED brokerVars
  BY DEF Next, vars, brokerVars, EmitStep, Yield, PostEmit, Replay, NextOfFeed, CheckTag,
         CopyListeners, CallListener, EmitReturns, Offer

LEMMA RegistryStep == TypeInv /\ LoopInv /\ RegistryInv /\ [Next]_vars => RegistryInv'
  <1> SUFFICES ASSUME TypeInv, LoopInv, RegistryInv, [Next]_vars PROVE RegistryInv'
    OBVIOUS
  <1>0. /\ subscribers \in [Tags -> Seq(Conns)] /\ want \in [Conns -> Seq(Tags)]
        /\ left \in Seq(Tags)
        /\ conn \in [Conns -> {"none", "subscribing", "open", "streaming", "leaving",
                              "closed", "abandoned"}]
    BY DEF TypeInv, TypeOK
  <1>1. ASSUME NEW c \in Conns, NEW tags \in Requests, Subscribe(c, tags) PROVE RegistryInv'
    <2>1. tags # <<>> /\ tags \in Seq(Tags)
      BY RequestsAssumption
    <2>2. \A d \in Conns : conn[d] # "subscribing"
      BY <1>1 DEF Subscribe, LoopFree
    <2> QED BY <1>0, <1>1, <2>1, <2>2 DEF Subscribe, RegistryInv, Listening
  <1>2. ASSUME NEW c \in Conns, SubscribeTag(c) PROVE RegistryInv'
    <2>0. PICK h \in Tags : h = Head(left)
      BY <1>0, <1>2 DEF SubscribeTag
    <2>1. conn[c] = "subscribing"
          /\ UNCHANGED <<conn, want, connections>> /\ left' = Tail(left) /\ left # <<>>
      BY <1>0, <1>2 DEF SubscribeTag
    <2>2. \A d \in Conns, t \in Tags : Listening(d, t) => Listening(d, t)'
      <3>1. CASE Listening(c, h)
        BY <1>2, <2>0, <3>1 DEF SubscribeTag, Listening
      <3>2. CASE ~Listening(c, h)
        <4>1. subscribers' = [subscribers EXCEPT ![h]
                                = Append(subscribers[h], c)]
          BY <1>2, <2>0, <3>2 DEF SubscribeTag
        <4>2. ASSUME NEW d \in Conns, NEW t \in Tags, Listening(d, t) PROVE Listening(d, t)'
          <5>1. PICK i \in DOMAIN subscribers[t] : subscribers[t][i] = d
            BY <4>2 DEF Listening
          <5>2. CASE t = h
            <6>1. subscribers'[t] = Append(subscribers[t], c) /\ subscribers[t] \in Seq(Conns)
              BY <1>0, <4>1, <5>2
            <6>2. i \in DOMAIN subscribers'[t] /\ subscribers'[t][i] = d
              BY <5>1, <6>1
            <6> QED BY <6>2 DEF Listening
          <5>3. CASE t # h
            BY <1>0, <4>1, <4>2, <5>3 DEF Listening
          <5> QED BY <5>2, <5>3
        <4> QED BY <4>2
      <3> QED BY <3>1, <3>2
    <2>3. Listening(c, h)'
      <3>1. CASE Listening(c, h)
        BY <2>1, <2>2, <3>1
      <3>2. CASE ~Listening(c, h)
        <4>1. subscribers'[h] = Append(subscribers[h], c)
          BY <1>0, <1>2, <2>0, <3>2 DEF SubscribeTag
        <4>2. /\ subscribers[h] \in Seq(Conns) /\ Len(subscribers[h]) \in Nat
              /\ DOMAIN Append(subscribers[h], c) = 1..(Len(subscribers[h]) + 1)
              /\ Append(subscribers[h], c)[Len(subscribers[h]) + 1] = c
          BY <1>0
        <4> QED BY <4>1, <4>2 DEF Listening
      <3> QED BY <3>1, <3>2
    <2>4. ASSUME NEW t \in Tags, Holds(left, t), t # h PROVE Holds(left', t)
      <3>1. PICK i \in DOMAIN left : left[i] = t
        BY <2>4 DEF Holds
      <3>2. i # 1 /\ i \in 1..Len(left) /\ Len(left) \in Nat /\ Len(Tail(left)) = Len(left) - 1
        BY <1>0, <2>0, <2>1, <2>4, <3>1
      <3>3. i - 1 \in DOMAIN Tail(left) /\ Tail(left)[i - 1] = left[i]
        BY <1>0, <2>1, <3>2
      <3> QED BY <2>1, <3>1, <3>3 DEF Holds
    <2>5. \A d \in Conns, t \in Tags : Listening(d, t)' => Listening(d, t) \/ d = c
      <3>1. CASE Listening(c, h)
        BY <1>2, <2>0, <3>1 DEF SubscribeTag, Listening
      <3>2. CASE ~Listening(c, h)
        <4>1. subscribers' = [subscribers EXCEPT ![h]
                                = Append(subscribers[h], c)]
          BY <1>2, <2>0, <3>2 DEF SubscribeTag
        <4> QED BY <1>0, <4>1 DEF Listening
      <3> QED BY <3>1, <3>2
    <2>6. \A d \in Conns : conn[d] = "subscribing" => d = c
      BY <2>1 DEF LoopInv, Handling
    <2> QED BY <2>0, <2>1, <2>2, <2>3, <2>4, <2>5, <2>6 DEF RegistryInv
  <1>3. ASSUME NEW c \in Conns, Accept(c) PROVE RegistryInv'
    <2>1. \A t \in Tags : ~Holds(left, t)
      BY <1>3 DEF Accept, Holds
    <2> QED BY <1>0, <1>3, <2>1 DEF Accept, RegistryInv, Listening
  <1>4. ASSUME NEW c \in Conns, NEW t \in Tags, UnsubscribeTag(c, t) PROVE RegistryInv'
    <2>1. PICK i \in DOMAIN subscribers[t] :
             /\ subscribers[t][i] = c
             /\ subscribers' = [subscribers EXCEPT ![t] = RemoveAt(subscribers[t], i)]
      BY <1>4 DEF UnsubscribeTag, Without
    <2>2. conn[c] = "leaving" /\ UNCHANGED <<conn, want, left, connections>>
      BY <1>4 DEF UnsubscribeTag
    <2>3. ASSUME NEW d \in Conns, NEW u \in Tags
          PROVE  /\ Listening(d, u)' => Listening(d, u)
                 /\ d # c /\ Listening(d, u) => Listening(d, u)'
      <3>1. CASE u # t
        BY <1>0, <2>1, <3>1 DEF Listening
      <3>2. CASE u = t
        <4>1. subscribers'[u] = RemoveAt(subscribers[t], i) /\ subscribers[t] \in Seq(Conns)
          BY <1>0, <2>1, <3>2
        <4>2. /\ Holds(RemoveAt(subscribers[t], i), d) => Holds(subscribers[t], d)
              /\ d # c /\ Holds(subscribers[t], d) => Holds(RemoveAt(subscribers[t], i), d)
          BY <2>1, <4>1, RemoveAtElements
        <4> QED BY <3>2, <4>1, <4>2 DEF Listening, Holds
      <3> QED BY <3>1, <3>2
    <2> QED BY <2>2, <2>3 DEF RegistryInv
  <1>5. ASSUME NEW c \in Conns, Forget(c) PROVE RegistryInv'
    BY <1>0, <1>5 DEF Forget, Swept, RegistryInv, Listening
  <1>6. ASSUME NEW c \in Conns, StartStream(c) \/ Abandon(c) \/ Disconnect(c) PROVE RegistryInv'
    BY <1>0, <1>6 DEF StartStream, Abandon, Disconnect, RegistryInv, Listening
  <1>7. ASSUME UNCHANGED brokerVars PROVE RegistryInv'
    BY <1>7 DEF brokerVars, RegistryInv, Listening
  <1> QED BY <1>1, <1>2, <1>3, <1>4, <1>5, <1>6, <1>7, RegistrySteps DEF HandlerStep

LEMMA HealthFromRegistry == TypeInv /\ RegistryInv => HealthCountsListeners
  <1> SUFFICES ASSUME TypeInv, RegistryInv,
                      \A c \in Conns : conn[c] \notin {"subscribing", "leaving"}
               PROVE  /\ connections = {c \in Conns : \E t \in Tags : Listening(c, t)}
                      /\ \A c \in Conns : conn[c] # "abandoned" =>
                            (c \in connections <=> conn[c] \in {"open", "streaming"})
    BY DEF HealthCountsListeners
  <1>1. ASSUME NEW c \in Conns
        PROVE  c \in connections <=> \E t \in Tags : Listening(c, t)
    <2>1. CASE conn[c] \in {"open", "streaming", "abandoned"}
      <3>1. want[c] # <<>> /\ want[c] \in Seq(Tags)
        BY <2>1 DEF RegistryInv, TypeInv, TypeOK
      <3>2. Head(want[c]) \in Tags /\ Holds(want[c], Head(want[c]))
        BY <3>1 DEF Holds
      <3> QED BY <2>1, <3>2 DEF RegistryInv
    <2>2. CASE conn[c] \in {"none", "closed"}
      BY <2>2 DEF RegistryInv
    <2> QED BY <2>1, <2>2 DEF TypeInv, TypeOK
  <1>2. ASSUME NEW c \in Conns, conn[c] # "abandoned"
        PROVE  c \in connections <=> conn[c] \in {"open", "streaming"}
    BY <1>2 DEF RegistryInv
  <1>3. connections \subseteq Conns
    BY DEF TypeInv, TypeOK
  <1> QED BY <1>1, <1>2, <1>3

\* Between handlers, the number /health reports is the number of connections whose listener
\* the broker holds, and these are the subscribed ones: every stream that ends takes its
\* listener off every tag.  The exception is a connection dropped before its stream began.
THEOREM HealthIsRight == Spec => []HealthCountsListeners
  <1>1. TypeInv /\ LoopInv /\ RegistryInv /\ [Next]_vars
           => (TypeInv /\ LoopInv /\ RegistryInv)'
    BY TypeStep, LoopStep, RegistryStep
  <1> QED BY <1>1, TypeInit, LoopInit, RegistryInit, HealthFromRegistry, PTL DEF Spec

----------------------------------------------------------------------------
(* What is offered, and in which order.                                      *)

Active(e) == thread[e].pc \in {"stamped", "found", "calling"}
Before(x, y) == x.seq # y.seq /\ (x.by = y.by => x.seq < y.seq)
NoRepeat(s) == \A i, j \in DOMAIN s : s[i] = s[j] => i = j

\* Nobody is registered, called or offered under a tag that was not asked for.
WantInv ==
    /\ \A c \in Conns : conn[c] = "none" => want[c] = <<>>
    /\ \A c \in Conns, t \in Tags : Listening(c, t) => Holds(want[c], t)
    /\ \A c \in Conns, t \in Tags : conn[c] = "subscribing" /\ Holds(left, t) => Holds(want[c], t)
    /\ \A e \in Emitters, c \in Conns :
          Active(e) /\ Holds(thread[e].todo, c) => Holds(want[c], thread[e].env.tag)
    /\ \A c \in Conns, x \in Envelopes : Reached(c, x) => Holds(want[c], x.tag)

\* No listener is registered twice, nor called twice.
OnceInv ==
    /\ \A t \in Tags : NoRepeat(subscribers[t])
    /\ \A e \in Emitters : Active(e) => NoRepeat(thread[e].todo)
    /\ \A e \in Emitters : thread[e].pc \in {"stamped", "found"} => thread[e].todo = <<>>

\* Numbers under way differ, and a listener that is still to be called has not seen this one.
NumberInv ==
    /\ \A e \in Emitters : Active(e) => thread[e].env.seq <= seq /\ thread[e].env.by = e
    /\ \A e, f \in Emitters : Active(e) /\ Active(f) /\ e # f => thread[e].env.seq # thread[f].env.seq
    /\ \A x \in emitted : x.seq <= seq
    /\ \A c \in Conns, x \in Envelopes : Reached(c, x) => x.seq <= seq
    /\ \A c \in Conns, x \in Envelopes, e \in Emitters : Reached(c, x) /\ Active(e) =>
          /\ x.seq = thread[e].env.seq => thread[e].pc = "calling" /\ ~Holds(thread[e].todo, c)
          /\ x.by = e => x.seq <= thread[e].env.seq

OrderInv ==
    /\ \A c \in Conns : \A i, j \in DOMAIN log[c] : i < j => Before(log[c][i], log[c][j])
    /\ \A i, j \in DOMAIN ready :
          i < j /\ ready[i].conn = ready[j].conn => Before(ready[i].env, ready[j].env)
    /\ \A i \in DOMAIN ready : \A j \in DOMAIN log[ready[i].conn] :
          Before(log[ready[i].conn][j], ready[i].env)

\* Whom an emit has not called by now, it does not have to call or calls later.
MissInv ==
    \A c \in Conns : conn[c] \in {"open", "streaming"} =>
        /\ \A e \in Emitters :
              /\ thread[e].pc = "calling" /\ thread[e].env.seq > joined[c]
              /\ Holds(want[c], thread[e].env.tag)
              => Holds(thread[e].todo, c) \/ Reached(c, thread[e].env)
        /\ \A x \in emitted : x.seq > joined[c] /\ Holds(want[c], x.tag) => Reached(c, x)

\* Sequences and what they hold.
LEMMA HoldsAppend ==
    ASSUME NEW S, NEW s \in Seq(S), NEW y \in S, NEW x
    PROVE  Holds(Append(s, y), x) <=> Holds(s, x) \/ x = y
  <1>1. /\ DOMAIN s = 1..Len(s) /\ Len(s) \in Nat
        /\ DOMAIN Append(s, y) = 1..(Len(s) + 1)
    OBVIOUS
  <1>2. /\ \A k \in 1..Len(s) : Append(s, y)[k] = s[k]
        /\ Append(s, y)[Len(s) + 1] = y
    OBVIOUS
  <1>3. \A k \in 1..(Len(s) + 1) : k \in 1..Len(s) \/ k = Len(s) + 1
    BY <1>1
  <1>4. Len(s) + 1 \in 1..(Len(s) + 1) /\ \A k \in 1..Len(s) : k \in 1..(Len(s) + 1)
    BY <1>1
  <1> QED BY <1>1, <1>2, <1>3, <1>4 DEF Holds

LEMMA HoldsTail ==
    ASSUME NEW S, NEW s \in Seq(S), s # <<>>, NEW x
    PROVE  /\ Holds(s, x) <=> x = Head(s) \/ Holds(Tail(s), x)
           /\ NoRepeat(s) => NoRepeat(Tail(s)) /\ ~Holds(Tail(s), Head(s))
  <1>1. /\ DOMAIN s = 1..Len(s) /\ Len(s) \in Nat \ {0} /\ Head(s) = s[1]
        /\ DOMAIN Tail(s) = 1..(Len(s) - 1)
        /\ \A k \in 1..(Len(s) - 1) : Tail(s)[k] = s[k + 1]
    OBVIOUS
  <1>2. \A k \in 1..Len(s) : k = 1 \/ (k - 1 \in 1..(Len(s) - 1) /\ (k - 1) + 1 = k)
    BY <1>1
  <1>3. \A k \in 1..(Len(s) - 1) : k + 1 \in 1..Len(s) /\ k + 1 # 1
    BY <1>1
  <1>4. 1 \in 1..Len(s)
    BY <1>1
  <1>5. Holds(s, x) => x = Head(s) \/ Holds(Tail(s), x)
    BY <1>1, <1>2 DEF Holds
  <1>6. x = Head(s) \/ Holds(Tail(s), x) => Holds(s, x)
    BY <1>1, <1>3, <1>4 DEF Holds
  <1>7. ASSUME NoRepeat(s) PROVE NoRepeat(Tail(s)) /\ ~Holds(Tail(s), Head(s))
    <2>1. ASSUME NEW i \in 1..(Len(s) - 1), NEW j \in 1..(Len(s) - 1), Tail(s)[i] = Tail(s)[j]
          PROVE  i = j
      <3>1. i + 1 = j + 1
        BY <1>1, <1>3, <1>7, <2>1 DEF NoRepeat
      <3> QED BY <3>1
    <2>2. ASSUME NEW i \in 1..(Len(s) - 1), Tail(s)[i] = Head(s) PROVE FALSE
      BY <1>1, <1>3, <1>4, <1>7, <2>2 DEF NoRepeat
    <2> QED BY <1>1, <2>1, <2>2 DEF NoRepeat, Holds
  <1> QED BY <1>5, <1>6, <1>7

LEMMA NoRepeatAppend ==
    ASSUME NEW S, NEW s \in Seq(S), NEW y \in S, NoRepeat(s), ~Holds(s, y)
    PROVE  NoRepeat(Append(s, y))
  <1>1. /\ DOMAIN s = 1..Len(s) /\ Len(s) \in Nat
        /\ DOMAIN Append(s, y) = 1..(Len(s) + 1)
    OBVIOUS
  <1>2. /\ \A k \in 1..Len(s) : Append(s, y)[k] = s[k]
        /\ Append(s, y)[Len(s) + 1] = y
    OBVIOUS
  <1>3. \A k \in 1..(Len(s) + 1) : k \in 1..Len(s) \/ k = Len(s) + 1
    BY <1>1
  <1> QED BY <1>1, <1>2, <1>3 DEF Holds, NoRepeat

LEMMA NoRepeatRemoveAt ==
    ASSUME NEW S, NEW s \in Seq(S), NEW i \in DOMAIN s, NoRepeat(s)
    PROVE  NoRepeat(RemoveAt(s, i))
  <1>1. /\ i \in 1..Len(s) /\ Len(s) \in Nat /\ DOMAIN s = 1..Len(s)
        /\ DOMAIN RemoveAt(s, i) = 1..(Len(s) - 1)
        /\ \A j \in 1..(Len(s) - 1) : RemoveAt(s, i)[j] = IF j < i THEN s[j] ELSE s[j + 1]
    BY RemoveAtIs
  <1>2. SUFFICES ASSUME NEW j \in 1..(Len(s) - 1), NEW k \in 1..(Len(s) - 1),
                        RemoveAt(s, i)[j] = RemoveAt(s, i)[k]
                 PROVE  j = k
    BY <1>1 DEF NoRepeat
  <1>3. j \in 1..Len(s) /\ k \in 1..Len(s) /\ j + 1 \in 1..Len(s) /\ k + 1 \in 1..Len(s)
    BY <1>1
  <1>4. \A a, b \in 1..Len(s) : s[a] = s[b] => a = b
    BY <1>1 DEF NoRepeat
  <1>5. CASE j < i /\ k < i
    BY <1>1, <1>2, <1>3, <1>4, <1>5
  <1>6. CASE j < i /\ ~(k < i)
    <2>1. s[j] = s[k + 1]
      BY <1>1, <1>2, <1>6
    <2>2. j = k + 1
      BY <1>3, <1>4, <2>1
    <2> QED BY <1>1, <1>6, <2>2
  <1>7. CASE ~(j < i) /\ k < i
    <2>1. s[j + 1] = s[k]
      BY <1>1, <1>2, <1>7
    <2>2. j + 1 = k
      BY <1>3, <1>4, <2>1
    <2> QED BY <1>1, <1>7, <2>2
  <1>8. CASE ~(j < i) /\ ~(k < i)
    <2>1. s[j + 1] = s[k + 1]
      BY <1>1, <1>2, <1>8
    <2>2. j + 1 = k + 1
      BY <1>3, <1>4, <2>1
    <2> QED BY <2>2
  <1> QED BY <1>5, <1>6, <1>7, <1>8

\* What each step means for what is on its way.
Quiet == UNCHANGED <<thread, seq, emitted, ready, log>>
SameRegistry == UNCHANGED <<subscribers, conn, want, left, joined>>
SameOffers == UNCHANGED <<ready, log, emitted>>
Stamps(e) == (\E t \in Tags : Stamp(e, t)) /\ SameRegistry /\ SameOffers
Wakes(r) == thread' = [thread EXCEPT ![r] = Idle] /\ thread[r].pc = "unborn"
            /\ seq' = seq /\ SameRegistry /\ SameOffers

LEMMA EventSteps ==
    ASSUME TypeInv, [Next]_vars
    PROVE  \/ Quiet
           \/ \E e \in Emitters : Stamps(e) \/ Wakes(e) \/ EmitStep(e)
           \/ Offer
  <1> USE DEF brokerVars, emitVars, queueVars
  <1>1. ASSUME NEW c \in Conns,
               \/ \E tags \in Requests : Subscribe(c, tags)
               \/ HandlerStep(c) \/ StartStream(c) \/ Abandon(c) \/ Yield(c) \/ Disconnect(c)
        PROVE  Quiet
    BY <1>1 DEF HandlerStep, Subscribe, SubscribeTag, Accept, UnsubscribeTag, Forget, StartStream,
                Abandon, Yield, Disconnect, Quiet
  <1>2. ASSUME NEW t \in Tags, PostEmit(t) PROVE Stamps(Loop)
    BY <1>2 DEF PostEmit, Stamps, SameRegistry, SameOffers
  <1>3. ASSUME NEW r \in Replays, Replay(r) PROVE Wakes(r)
    BY <1>3 DEF Replay, Wakes, SameRegistry, SameOffers
  <1>4. ASSUME NEW r \in Replays, NextOfFeed(r) PROVE Stamps(r)
    <2>1. Feed[pos[r] + 1] \in Tags
      BY <1>4, FeedAssumption DEF NextOfFeed, Emitters, TypeInv, TypeOK
    <2> QED BY <1>4, <2>1 DEF NextOfFeed, Stamps, SameRegistry, SameOffers
  <1>5. CASE UNCHANGED vars
    BY <1>5 DEF vars, Quiet
  <1> QED BY <1>1, <1>2, <1>3, <1>4, <1>5 DEF Next, Emitters

LEMMA StampFacts ==
    ASSUME TypeInv, NEW e \in Emitters, Stamps(e)
    PROVE  /\ thread[e].pc = "idle" /\ thread'[e].pc = "stamped" /\ thread'[e].todo = <<>>
           /\ thread'[e].env.seq = seq + 1 /\ thread'[e].env.by = e /\ seq' = seq + 1
           /\ \A f \in Emitters \ {e} : thread'[f] = thread[f]
  <1>1. PICK t \in Tags : Stamp(e, t)
    BY DEF Stamps
  <1>2. thread \in [Emitters -> [pc : {"unborn", "idle", "stamped", "found", "calling", "dead"},
                                 env : Envelopes \cup {NoTag}, todo : Seq(Conns)]]
    BY DEF TypeInv, TypeOK
  <1> QED BY <1>1, <1>2 DEF Stamp, NextSeq

LEMMA WakeFacts ==
    ASSUME TypeInv, NEW e \in Emitters, Wakes(e)
    PROVE  thread'[e].pc = "idle" /\ \A f \in Emitters \ {e} : thread'[f] = thread[f]
  BY DEF TypeInv, TypeOK, Wakes, Idle

LEMMA ThreadTypes ==
    ASSUME TypeInv
    PROVE  /\ thread \in [Emitters ->
                  [pc : {"unborn", "idle", "stamped", "found", "calling", "dead"},
                   env : Envelopes \cup {NoTag}, todo : Seq(Conns)]]
           /\ \A e \in Emitters : Active(e) => thread[e].env \in Envelopes
  BY DEF TypeInv, TypeOK, Carrying, Active

LEMMA CheckFacts ==
    ASSUME TypeInv, NEW e \in Emitters, CheckTag(e)
    PROVE  /\ thread[e].pc = "stamped" /\ thread'[e].env = thread[e].env
           /\ thread'[e].pc = IF subscribers[thread[e].env.tag] # <<>> THEN "found" ELSE "calling"
           /\ thread'[e].todo = thread[e].todo
           /\ \A f \in Emitters \ {e} : thread'[f] = thread[f]
           /\ SameRegistry /\ SameOffers /\ seq' = seq
  <1>1. SameRegistry /\ SameOffers /\ seq' = seq
    BY DEF CheckTag, SameRegistry, SameOffers, brokerVars, queueVars
  <1> QED BY <1>1, ThreadTypes DEF CheckTag

LEMMA CopyFacts ==
    ASSUME TypeInv, NEW e \in Emitters, CopyListeners(e)
    PROVE  /\ thread[e].pc = "found" /\ thread'[e].env = thread[e].env
           /\ thread'[e].pc = IF subscribers[thread[e].env.tag] # <<>> THEN "calling" ELSE "dead"
           /\ thread'[e].todo = subscribers[thread[e].env.tag]
           /\ \A f \in Emitters \ {e} : thread'[f] = thread[f]
           /\ SameRegistry /\ SameOffers /\ seq' = seq
  <1>1. SameRegistry /\ SameOffers /\ seq' = seq
    BY DEF CopyListeners, SameRegistry, SameOffers, brokerVars, queueVars
  <1> QED BY <1>1, ThreadTypes DEF CopyListeners

LEMMA CallFacts ==
    ASSUME TypeInv, NEW e \in Emitters, CallListener(e)
    PROVE  /\ thread[e].pc = "calling" /\ thread[e].todo # <<>> /\ thread[e].env \in Envelopes
           /\ thread[e].todo \in Seq(Conns) /\ Head(thread[e].todo) \in Conns
           /\ thread'[e].pc = "calling" /\ thread'[e].env = thread[e].env
           /\ thread'[e].todo = Tail(thread[e].todo)
           /\ \A f \in Emitters \ {e} : thread'[f] = thread[f]
           /\ ready' = Append(ready, [conn |-> Head(thread[e].todo), env |-> thread[e].env])
           /\ SameRegistry /\ log' = log /\ emitted' = emitted /\ seq' = seq
  <1>1. /\ ready' = Append(ready, [conn |-> Head(thread[e].todo), env |-> thread[e].env])
        /\ SameRegistry /\ log' = log /\ emitted' = emitted /\ seq' = seq
    BY DEF CallListener, SameRegistry, brokerVars, queueVars
  <1>2. /\ thread[e].pc = "calling" /\ thread[e].todo # <<>>
        /\ thread' = [thread EXCEPT ![e].todo = Tail(@)]
    BY DEF CallListener, MayCall
  <1>3. thread[e].env \in Envelopes /\ thread[e].todo \in Seq(Conns)
    BY <1>2, ThreadTypes DEF Active
  <1>4. Head(thread[e].todo) \in Conns
    BY <1>2, <1>3, HeadTailProperties
  <1>5. /\ thread'[e].pc = "calling" /\ thread'[e].env = thread[e].env
        /\ thread'[e].todo = Tail(thread[e].todo)
        /\ \A f \in Emitters \ {e} : thread'[f] = thread[f]
    BY <1>2, ThreadTypes
  <1> QED BY <1>1, <1>2, <1>3, <1>4, <1>5

LEMMA ReturnFacts ==
    ASSUME TypeInv, NEW e \in Emitters, EmitReturns(e)
    PROVE  /\ thread[e].pc = "calling" /\ thread[e].todo = <<>> /\ thread[e].env \in Envelopes
           /\ thread'[e].pc = "idle" /\ emitted' = emitted \cup {thread[e].env}
           /\ \A f \in Emitters \ {e} : thread'[f] = thread[f]
           /\ SameRegistry /\ ready' = ready /\ log' = log /\ seq' = seq
  <1>1. /\ emitted' = emitted \cup {thread[e].env}
        /\ SameRegistry /\ ready' = ready /\ log' = log /\ seq' = seq
    BY DEF EmitReturns, SameRegistry, brokerVars, queueVars
  <1>2. thread[e].pc = "calling" /\ thread[e].todo = <<>> /\ thread' = [thread EXCEPT ![e] = Idle]
    BY DEF EmitReturns
  <1>3. thread[e].env \in Envelopes
    BY <1>2, ThreadTypes DEF Active
  <1>4. thread'[e].pc = "idle" /\ \A f \in Emitters \ {e} : thread'[f] = thread[f]
    BY <1>2, ThreadTypes DEF Idle
  <1> QED BY <1>1, <1>2, <1>3, <1>4

LEMMA OfferFacts ==
    ASSUME TypeInv, Offer
    PROVE  /\ ready # <<>> /\ ready' = Tail(ready)
           /\ Head(ready) \in [conn : Conns, env : Envelopes]
           /\ log' = [log EXCEPT ![Head(ready).conn] = Append(@, Head(ready).env)]
           /\ UNCHANGED <<thread, seq, emitted>> /\ SameRegistry
  <1>1. ready # <<>> /\ ready' = Tail(ready) /\ UNCHANGED <<thread, seq, emitted>> /\ SameRegistry
    BY DEF Offer, MayOffer, SameRegistry, brokerVars, emitVars
  <1>2. ready \in Seq([conn : Conns, env : Envelopes])
    BY DEF TypeInv, TypeOK
  <1>3. Head(ready) \in [conn : Conns, env : Envelopes]
    BY <1>1, <1>2, HeadTailProperties
  <1>4. log' = [log EXCEPT ![Head(ready).conn] = Append(@, Head(ready).env)]
    BY DEF Offer
  <1> QED BY <1>1, <1>3, <1>4

LEMMA ThreadSteps ==
    ASSUME TypeInv, [Next]_vars, NEW e \in Emitters
    PROVE  thread'[e] = thread[e] \/ Stamps(e) \/ Wakes(e) \/ EmitStep(e)
  <1>1. CASE Quiet \/ Offer
    BY <1>1, OfferFacts DEF Quiet
  <1>2. ASSUME NEW f \in Emitters, Stamps(f) \/ Wakes(f) PROVE f = e \/ thread'[e] = thread[e]
    BY <1>2, StampFacts, WakeFacts
  <1>3. ASSUME NEW f \in Emitters, EmitStep(f) PROVE f = e \/ thread'[e] = thread[e]
    BY <1>3, CheckFacts, CopyFacts, CallFacts, ReturnFacts DEF EmitStep
  <1> QED BY <1>1, <1>2, <1>3, EventSteps

\* A call reaches its subscriber when it is handed to the loop, and an offer moves it on.
LEMMA ReachedStays ==
    ASSUME UNCHANGED <<ready, log>>, NEW c, NEW x
    PROVE  Reached(c, x)' <=> Reached(c, x)
  BY DEF Reached, Holds

LEMMA ReachedByCall ==
    ASSUME TypeInv, NEW e \in Emitters, CallListener(e), NEW c \in Conns, NEW x \in Envelopes
    PROVE  Reached(c, x)' <=> Reached(c, x) \/ (c = Head(thread[e].todo) /\ x = thread[e].env)
  <1> DEFINE call == [conn |-> Head(thread[e].todo), env |-> thread[e].env]
  <1> DEFINE it == [conn |-> c, env |-> x]
  <1>1. /\ ready' = Append(ready, call) /\ log' = log
        /\ call \in [conn : Conns, env : Envelopes] /\ ready \in Seq([conn : Conns, env : Envelopes])
    BY CallFacts DEF TypeInv, TypeOK
  <1>2. it = call <=> c = Head(thread[e].todo) /\ x = thread[e].env
    OBVIOUS
  <1> HIDE DEF call, it
  <1>3. Holds(ready', it) <=> Holds(ready, it) \/ it = call
    BY <1>1, HoldsAppend
  <1>4. Holds(log[c], x)' <=> Holds(log[c], x)
    BY <1>1 DEF Holds
  <1>5. Reached(c, x)' <=> Holds(log[c], x)' \/ Holds(ready', it)
    BY DEF Reached, it
  <1>6. Reached(c, x) <=> Holds(log[c], x) \/ Holds(ready, it)
    BY DEF Reached, it
  <1> QED BY <1>2, <1>3, <1>4, <1>5, <1>6

LEMMA PairIs ==
    ASSUME NEW p \in [conn : Conns, env : Envelopes], NEW c, NEW x
    PROVE  [conn |-> c, env |-> x] = p <=> c = p.conn /\ x = p.env
  <1>1. p = [conn |-> p.conn, env |-> p.env]
    OBVIOUS
  <1>2. [conn |-> c, env |-> x].conn = c /\ [conn |-> c, env |-> x].env = x
    OBVIOUS
  <1> QED BY <1>1, <1>2

LEMMA ReachedByOffer ==
    ASSUME TypeInv, Offer, NEW c \in Conns, NEW x \in Envelopes
    PROVE  Reached(c, x)' <=> Reached(c, x)
  <1> DEFINE call == Head(ready)
  <1> DEFINE it == [conn |-> c, env |-> x]
  <1>1. /\ ready # <<>> /\ ready' = Tail(ready) /\ call \in [conn : Conns, env : Envelopes]
        /\ log' = [log EXCEPT ![call.conn] = Append(@, call.env)]
        /\ ready \in Seq([conn : Conns, env : Envelopes]) /\ log \in [Conns -> Seq(Envelopes)]
    BY OfferFacts DEF TypeInv, TypeOK
  <1>2. it = call <=> c = call.conn /\ x = call.env
    BY <1>1, PairIs
  <1>3. Holds(ready, it) <=> it = Head(ready) \/ Holds(Tail(ready), it)
    BY <1>1, HoldsTail
  <1>4. CASE c = call.conn
    <2>1. log'[c] = Append(log[c], call.env) /\ log[c] \in Seq(Envelopes) /\ call.env \in Envelopes
      BY <1>1, <1>4
    <2>2. Holds(log'[c], x) <=> Holds(log[c], x) \/ x = call.env
      BY <2>1, HoldsAppend
    <2> QED BY <1>1, <1>2, <1>3, <1>4, <2>2 DEF Reached
  <1>5. CASE c # call.conn
    <2>1. log'[c] = log[c]
      BY <1>1, <1>5
    <2> QED BY <1>1, <1>2, <1>3, <1>5, <2>1 DEF Reached
  <1> QED BY <1>4, <1>5

LEMMA NumberTypes ==
    ASSUME TypeInv
    PROVE  /\ seq \in Nat
           /\ \A x \in Envelopes : x.seq \in Nat
           /\ \A e \in Emitters : Active(e) => thread[e].env \in Envelopes
           /\ \A e \in Emitters : thread[e].todo \in Seq(Conns)
           /\ emitted \subseteq Envelopes
  BY BoundsAssumption DEF TypeInv, TypeOK, Carrying, Active, Envelopes

LEMMA NumberStep ==
    TypeInv /\ OnceInv /\ NumberInv /\ [Next]_vars => NumberInv'
  <1> SUFFICES ASSUME TypeInv, OnceInv, NumberInv, [Next]_vars PROVE NumberInv'
    OBVIOUS
  <1>0. /\ seq \in Nat
        /\ \A x \in Envelopes : x.seq \in Nat
        /\ \A e \in Emitters : Active(e) => thread[e].env \in Envelopes
        /\ \A e \in Emitters : thread[e].todo \in Seq(Conns)
    BY NumberTypes
  <1>1. CASE Quiet
    <2>1. \A c, x : Reached(c, x)' <=> Reached(c, x)
      BY <1>1, ReachedStays DEF Quiet
    <2> QED BY <1>1, <2>1 DEF Quiet, NumberInv, Active
  <1>2. ASSUME NEW e \in Emitters, Stamps(e) PROVE NumberInv'
    <2>1. \A c, x : Reached(c, x)' <=> Reached(c, x)
      BY <1>2, ReachedStays DEF Stamps, SameOffers
    <2>2. /\ thread'[e].pc = "stamped" /\ thread'[e].env.seq = seq + 1 /\ thread'[e].env.by = e
          /\ seq' = seq + 1 /\ emitted' = emitted
          /\ \A f \in Emitters \ {e} : thread'[f] = thread[f]
      BY <1>2, StampFacts DEF Stamps, SameOffers
    <2>3. \A f \in Emitters \ {e} : Active(f)' <=> Active(f)
      BY <2>2 DEF Active
    <2>4. /\ \A x \in Envelopes : x.seq <= seq => x.seq <= seq + 1 /\ x.seq # seq + 1
          /\ seq + 1 <= seq + 1
      BY <1>0
    <2>5. \A x \in emitted : x.seq <= seq'
      BY <1>0, <2>2, <2>4, NumberTypes DEF NumberInv
    <2>6. \A f \in Emitters : Active(f)' => thread'[f].env.seq <= seq' /\ thread'[f].env.by = f
      BY <1>0, <2>2, <2>3, <2>4 DEF NumberInv
    <2>7. \A f, g \in Emitters : Active(f)' /\ Active(g)' /\ f # g
             => thread'[f].env.seq # thread'[g].env.seq
      BY <1>0, <2>2, <2>3, <2>4 DEF NumberInv
    <2>8. \A c \in Conns, x \in Envelopes : Reached(c, x)' => x.seq <= seq'
      BY <2>1, <2>2, <2>4 DEF NumberInv
    <2>9. ASSUME NEW c \in Conns, NEW x \in Envelopes, NEW f \in Emitters,
                 Reached(c, x)', Active(f)'
          PROVE  /\ x.seq = thread'[f].env.seq
                       => thread'[f].pc = "calling" /\ ~Holds(thread'[f].todo, c)
                 /\ x.by = f => x.seq <= thread'[f].env.seq
      <3>1. x.seq <= seq
        BY <2>1, <2>9 DEF NumberInv
      <3>2. CASE f = e
        BY <2>2, <2>4, <3>1, <3>2
      <3>3. CASE f # e
        BY <2>1, <2>2, <2>3, <2>9, <3>3 DEF NumberInv
      <3> QED BY <3>2, <3>3
    <2> QED BY <2>2, <2>5, <2>6, <2>7, <2>8, <2>9 DEF NumberInv
  <1>3. ASSUME NEW e \in Emitters, Wakes(e) PROVE NumberInv'
    <2>1. \A c, x : Reached(c, x)' <=> Reached(c, x)
      BY <1>3, ReachedStays DEF Wakes, SameOffers
    <2>2. /\ \A f \in Emitters : Active(f)' => f # e /\ Active(f) /\ thread'[f] = thread[f]
          /\ seq' = seq /\ emitted' = emitted
      BY <1>3, WakeFacts DEF Wakes, SameOffers, Active
    <2> QED BY <2>1, <2>2 DEF NumberInv
  <1>4. ASSUME NEW e \in Emitters, CheckTag(e) \/ CopyListeners(e) PROVE NumberInv'
    <2>0. UNCHANGED <<ready, log, emitted, seq>>
      BY <1>4, CheckFacts, CopyFacts DEF SameOffers
    <2>1. \A c, x : Reached(c, x)' <=> Reached(c, x)
      BY <2>0, ReachedStays
    <2>2. /\ Active(e) /\ thread[e].pc # "calling" /\ thread'[e].env = thread[e].env
          /\ \A f \in Emitters \ {e} : thread'[f] = thread[f]
      BY <1>4, CheckFacts, CopyFacts DEF Active
    <2>3. \A f \in Emitters : Active(f)' => Active(f) /\ thread'[f].env = thread[f].env
      BY <2>2 DEF Active
    <2>4. \A c \in Conns, x \in Envelopes : Reached(c, x) => x.seq # thread[e].env.seq
      BY <2>2 DEF NumberInv
    <2>5. ASSUME NEW c \in Conns, NEW x \in Envelopes, NEW f \in Emitters,
                 Reached(c, x), Active(f)', x.seq = thread[f].env.seq
          PROVE  thread'[f].pc = "calling" /\ ~Holds(thread'[f].todo, c)
      BY <2>2, <2>3, <2>4, <2>5 DEF NumberInv
    <2> QED BY <2>0, <2>1, <2>3, <2>5 DEF NumberInv
  <1>5. ASSUME NEW e \in Emitters, CallListener(e) PROVE NumberInv'
    <2> DEFINE h == Head(thread[e].todo)
    <2>1. \A c \in Conns, x \in Envelopes :
             Reached(c, x)' => Reached(c, x) \/ (c = h /\ x = thread[e].env)
      BY <1>5, ReachedByCall
    <2>2. /\ Active(e) /\ Active(e)' /\ thread'[e].pc = "calling" /\ thread[e].pc = "calling"
          /\ thread'[e].env = thread[e].env
          /\ thread'[e].todo = Tail(thread[e].todo) /\ thread[e].todo # <<>>
          /\ \A f \in Emitters \ {e} : thread'[f] = thread[f]
          /\ emitted' = emitted /\ seq' = seq
      BY <1>5, CallFacts DEF Active
    <2>3. \A f \in Emitters : (Active(f)' <=> Active(f)) /\ thread'[f].env = thread[f].env
      BY <2>2 DEF Active
    <2>4. /\ \A c : Holds(thread'[e].todo, c) => Holds(thread[e].todo, c)
          /\ ~Holds(thread'[e].todo, h)
      BY <1>0, <2>2, HoldsTail DEF OnceInv
    <2> HIDE DEF h
    <2>5. \A c \in Conns, x \in Envelopes : Reached(c, x)' => x.seq <= seq
      BY <2>1, <2>2 DEF NumberInv
    <2>6. ASSUME NEW c \in Conns, NEW x \in Envelopes, NEW f \in Emitters,
                 Reached(c, x)', Active(f)'
          PROVE  /\ x.seq = thread'[f].env.seq
                       => thread'[f].pc = "calling" /\ ~Holds(thread'[f].todo, c)
                 /\ x.by = f => x.seq <= thread'[f].env.seq
      <3>1. CASE c = h /\ x = thread[e].env
        <4>1. x.seq \in Nat /\ x.seq <= x.seq
          BY <1>0
        <4>2. f # e => x.seq # thread[f].env.seq /\ x.by # f
          BY <2>2, <2>3, <2>6, <3>1 DEF NumberInv
        <4> QED BY <2>2, <2>3, <2>4, <3>1, <4>1, <4>2
      <3>2. CASE Reached(c, x)
        <4>1. /\ x.seq = thread[f].env.seq => thread[f].pc = "calling" /\ ~Holds(thread[f].todo, c)
              /\ x.by = f => x.seq <= thread[f].env.seq
          BY <2>3, <2>6, <3>2 DEF NumberInv
        <4>2. CASE f = e
          BY <2>2, <2>4, <4>1, <4>2
        <4>3. CASE f # e
          BY <2>2, <4>1, <4>3
        <4> QED BY <4>2, <4>3
      <3> QED BY <2>1, <2>6, <3>1, <3>2
    <2> QED BY <2>2, <2>3, <2>5, <2>6 DEF NumberInv
  <1>6. ASSUME NEW e \in Emitters, EmitReturns(e) PROVE NumberInv'
    <2>0. /\ UNCHANGED <<ready, log, seq>> /\ emitted' = emitted \cup {thread[e].env}
          /\ thread[e].pc = "calling"
      BY <1>6, ReturnFacts
    <2>1. \A c, x : Reached(c, x)' <=> Reached(c, x)
      BY <2>0, ReachedStays
    <2>2. \A f \in Emitters : Active(f)' => f # e /\ Active(f) /\ thread'[f] = thread[f]
      BY <1>6, ReturnFacts DEF Active
    <2>3. thread[e].env.seq <= seq
      BY <2>0 DEF NumberInv, Active
    <2> QED BY <2>0, <2>1, <2>2, <2>3 DEF NumberInv
  <1>7. CASE Offer
    <2>1. \A c \in Conns, x \in Envelopes : Reached(c, x)' <=> Reached(c, x)
      BY <1>7, ReachedByOffer
    <2>2. UNCHANGED <<thread, seq, emitted>>
      BY <1>7, OfferFacts
    <2> QED BY <2>1, <2>2 DEF NumberInv, Active
  <1> QED BY <1>1, <1>2, <1>3, <1>4, <1>5, <1>6, <1>7, EventSteps DEF EmitStep

\* The steps of a connection's handlers touch nothing that is on its way.
LEMMA RegistryMoves ==
    ASSUME [Next]_vars
    PROVE  \/ SameRegistry
           \/ Quiet /\ \E c \in Conns : \/ \E tags \in Requests : Subscribe(c, tags)
                                        \/ HandlerStep(c) \/ StartStream(c) \/ Abandon(c)
                                        \/ Disconnect(c)
  <1> USE DEF brokerVars, emitVars, queueVars
  <1>1. ASSUME NEW c \in Conns,
               \/ \E tags \in Requests : Subscribe(c, tags)
               \/ HandlerStep(c) \/ StartStream(c) \/ Abandon(c) \/ Disconnect(c)
        PROVE  Quiet
    BY <1>1 DEF HandlerStep, Subscribe, SubscribeTag, Accept, UnsubscribeTag, Forget, StartStream,
                Abandon, Disconnect, Quiet
  <1>2. ASSUME \/ UNCHANGED vars \/ Offer
               \/ \E c \in Conns : Yield(c)
               \/ \E t \in Tags : PostEmit(t)
               \/ \E r \in Replays : Replay(r) \/ NextOfFeed(r)
               \/ \E e \in Emitters : EmitStep(e)
        PROVE  SameRegistry
    BY <1>2 DEF vars, SameRegistry, EmitStep, Yield, PostEmit, Replay, NextOfFeed, CheckTag,
                CopyListeners, CallListener, EmitReturns, Offer
  <1> QED BY <1>1, <1>2 DEF Next

LEMMA RegistryTypes ==
    ASSUME TypeInv
    PROVE  /\ subscribers \in [Tags -> Seq(Conns)] /\ want \in [Conns -> Seq(Tags)]
           /\ left \in Seq(Tags) /\ joined \in [Conns -> Nat]
           /\ conn \in [Conns -> {"none", "subscribing", "open", "streaming", "leaving",
                                 "closed", "abandoned"}]
           /\ \A e \in Emitters : thread[e].todo \in Seq(Conns)
           /\ \A e \in Emitters : Active(e) => thread[e].env \in Envelopes
           /\ \A x \in Envelopes : x.tag \in Tags /\ x.seq \in Nat
  BY BoundsAssumption DEF TypeInv, TypeOK, Carrying, Active, Envelopes

LEMMA OnceStep == TypeInv /\ OnceInv /\ [Next]_vars => OnceInv'
  <1> SUFFICES ASSUME TypeInv, OnceInv, [Next]_vars PROVE OnceInv'
    OBVIOUS
  <1>0. /\ subscribers \in [Tags -> Seq(Conns)] /\ left \in Seq(Tags)
        /\ \A e \in Emitters : thread[e].todo \in Seq(Conns)
        /\ \A e \in Emitters : Active(e) => thread[e].env.tag \in Tags
    BY RegistryTypes
  <1>1. \A t \in Tags : NoRepeat(subscribers'[t])
    <2>1. CASE UNCHANGED subscribers
      BY <2>1 DEF OnceInv
    <2>2. ASSUME NEW c \in Conns, SubscribeTag(c), subscribers' # subscribers
          PROVE  \A t \in Tags : NoRepeat(subscribers'[t])
      <3>1. PICK h \in Tags : h = Head(left)
        BY <1>0, <2>2 DEF SubscribeTag
      <3>2. subscribers' = [subscribers EXCEPT ![h] = Append(subscribers[h], c)]
            /\ ~Holds(subscribers[h], c)
        BY <2>2, <3>1 DEF SubscribeTag, Listening, Holds
      <3>3. NoRepeat(Append(subscribers[h], c))
        BY <1>0, <3>2, NoRepeatAppend DEF OnceInv
      <3> QED BY <1>0, <3>2, <3>3 DEF OnceInv
    <2>3. ASSUME NEW c \in Conns, NEW t \in Tags, UnsubscribeTag(c, t)
          PROVE  \A u \in Tags : NoRepeat(subscribers'[u])
      <3>1. PICK i \in DOMAIN subscribers[t] :
               subscribers' = [subscribers EXCEPT ![t] = RemoveAt(subscribers[t], i)]
        BY <2>3 DEF UnsubscribeTag, Without
      <3>2. NoRepeat(RemoveAt(subscribers[t], i))
        BY <1>0, <3>1, NoRepeatRemoveAt DEF OnceInv
      <3> QED BY <1>0, <3>1, <3>2 DEF OnceInv
    <2>4. ASSUME NEW c \in Conns,
                 \/ \E tags \in Requests : Subscribe(c, tags)
                 \/ Accept(c) \/ Forget(c) \/ StartStream(c) \/ Abandon(c) \/ Disconnect(c)
          PROVE  UNCHANGED subscribers
      BY <2>4 DEF Subscribe, Accept, Forget, StartStream, Abandon, Disconnect
    <2> QED BY <2>1, <2>2, <2>3, <2>4, RegistryMoves DEF SameRegistry, HandlerStep
  <1>2. ASSUME NEW e \in Emitters
        PROVE  /\ Active(e)' => NoRepeat(thread'[e].todo)
               /\ thread'[e].pc \in {"stamped", "found"} => thread'[e].todo = <<>>
    <2>1. CASE thread'[e] = thread[e]
      BY <2>1 DEF OnceInv, Active
    <2>2. CASE Stamps(e)
      BY <2>2, StampFacts DEF NoRepeat
    <2>3. CASE Wakes(e)
      BY <2>3, WakeFacts DEF Active
    <2>4. CASE CheckTag(e)
      BY <2>4, CheckFacts DEF OnceInv, Active
    <2>5. CASE CopyListeners(e)
      <3>1. Active(e)
        BY <2>5, CopyFacts DEF Active
      <3>2. NoRepeat(subscribers[thread[e].env.tag])
        BY <1>0, <3>1 DEF OnceInv
      <3> QED BY <2>5, <3>2, CopyFacts
    <2>6. CASE CallListener(e)
      <3>1. /\ thread[e].todo # <<>> /\ NoRepeat(thread[e].todo)
            /\ thread'[e].todo = Tail(thread[e].todo) /\ thread'[e].pc = "calling"
        BY <2>6, CallFacts DEF OnceInv, Active
      <3>2. NoRepeat(thread'[e].todo)
        BY <1>0, <3>1, HoldsTail
      <3> QED BY <3>1, <3>2
    <2>7. CASE EmitReturns(e)
      BY <2>7, ReturnFacts DEF Active
    <2>8. thread'[e] = thread[e] \/ Stamps(e) \/ Wakes(e) \/ EmitStep(e)
      BY ThreadSteps
    <2> QED BY <2>1, <2>2, <2>3, <2>4, <2>5, <2>6, <2>7, <2>8 DEF EmitStep
  <1> QED BY <1>1, <1>2 DEF OnceInv

LEMMA WantStep == TypeInv /\ LoopInv /\ WantInv /\ [Next]_vars => WantInv'
  <1> SUFFICES ASSUME TypeInv, LoopInv, WantInv, [Next]_vars PROVE WantInv'
    OBVIOUS
  <1>0. /\ subscribers \in [Tags -> Seq(Conns)] /\ want \in [Conns -> Seq(Tags)]
        /\ left \in Seq(Tags)
        /\ conn \in [Conns -> {"none", "subscribing", "open", "streaming", "leaving",
                              "closed", "abandoned"}]
        /\ \A e \in Emitters : thread[e].todo \in Seq(Conns)
        /\ \A e \in Emitters : Active(e) => thread[e].env \in Envelopes
        /\ \A x \in Envelopes : x.tag \in Tags
    BY RegistryTypes
  <1>1. CASE Quiet /\ \E c \in Conns : \/ \E tags \in Requests : Subscribe(c, tags)
                                       \/ HandlerStep(c) \/ StartStream(c) \/ Abandon(c)
                                       \/ Disconnect(c)
    <2>1. \A c, x : Reached(c, x)' <=> Reached(c, x)
      BY <1>1, ReachedStays DEF Quiet
    <2>2. ASSUME /\ \A c \in Conns, t \in Tags : Holds(want[c], t) => Holds(want'[c], t)
                 /\ \A c \in Conns : conn'[c] = "none" => want'[c] = <<>>
                 /\ \A c \in Conns, t \in Tags : Listening(c, t)' => Holds(want'[c], t)
                 /\ \A c \in Conns, t \in Tags :
                       conn'[c] = "subscribing" /\ Holds(left', t) => Holds(want'[c], t)
          PROVE  WantInv'
      <3>1. \A e \in Emitters, c \in Conns :
               Active(e)' /\ Holds(thread'[e].todo, c) => Holds(want'[c], thread'[e].env.tag)
        BY <1>0, <1>1, <2>2 DEF Quiet, WantInv, Active
      <3>2. \A c \in Conns, x \in Envelopes : Reached(c, x)' => Holds(want'[c], x.tag)
        BY <1>0, <2>1, <2>2 DEF WantInv
      <3> QED BY <2>2, <3>1, <3>2 DEF WantInv
    <2>3. ASSUME NEW c \in Conns, NEW tags \in Requests, Subscribe(c, tags) PROVE WantInv'
      <3>1. /\ conn[c] = "none" /\ conn' = [conn EXCEPT ![c] = "subscribing"]
            /\ want' = [want EXCEPT ![c] = tags] /\ left' = tags
            /\ subscribers' = subscribers /\ \A d \in Conns : conn[d] # "subscribing"
        BY <2>3 DEF Subscribe, LoopFree
      <3>2. \A t : ~Holds(want[c], t)
        BY <3>1 DEF WantInv, Holds
      <3>3. \A d \in Conns, t \in Tags : Holds(want[d], t) => Holds(want'[d], t)
        BY <1>0, <3>1, <3>2
      <3>4. \A d \in Conns, t \in Tags : Listening(d, t)' <=> Listening(d, t)
        BY <3>1 DEF Listening
      <3>5. \A d \in Conns : conn'[d] = "none" => want'[d] = <<>>
        BY <1>0, <3>1 DEF WantInv
      <3>6. \A d \in Conns : conn'[d] = "subscribing" => d = c
        BY <1>0, <3>1
      <3>7. want'[c] = left'
        BY <1>0, <3>1
      <3> QED BY <2>2, <3>3, <3>4, <3>5, <3>6, <3>7 DEF WantInv
    <2>4. ASSUME NEW c \in Conns, SubscribeTag(c) PROVE WantInv'
      <3>1. PICK h \in Tags : h = Head(left) /\ left # <<>>
        BY <1>0, <2>4 DEF SubscribeTag
      <3>2. /\ conn[c] = "subscribing" /\ UNCHANGED <<conn, want>> /\ left' = Tail(left)
            /\ \/ subscribers' = subscribers
               \/ subscribers' = [subscribers EXCEPT ![h] = Append(subscribers[h], c)]
        BY <2>4, <3>1 DEF SubscribeTag
      <3>3. Holds(want[c], h) /\ \A t : Holds(left', t) => Holds(left, t)
        BY <1>0, <3>1, <3>2, HoldsTail DEF WantInv
      <3>4. ASSUME NEW d \in Conns, NEW t \in Tags, Listening(d, t)' PROVE Holds(want[d], t)
        <4>1. CASE subscribers'[t] = subscribers[t]
          BY <3>4, <4>1 DEF Listening, WantInv
        <4>2. CASE subscribers'[t] # subscribers[t]
          <5>1. t = h /\ subscribers'[t] = Append(subscribers[t], c)
            BY <1>0, <3>2, <4>2
          <5>2. Holds(subscribers'[t], d) => Holds(subscribers[t], d) \/ d = c
            BY <1>0, <5>1, HoldsAppend
          <5> QED BY <3>3, <3>4, <5>1, <5>2 DEF Listening, Holds, WantInv
        <4> QED BY <4>1, <4>2
      <3> QED BY <2>2, <3>2, <3>3, <3>4 DEF WantInv
    <2>5. ASSUME NEW c \in Conns, NEW u \in Tags, UnsubscribeTag(c, u) PROVE WantInv'
      <3>1. PICK i \in DOMAIN subscribers[u] :
               /\ subscribers' = [subscribers EXCEPT ![u] = RemoveAt(subscribers[u], i)]
               /\ UNCHANGED <<conn, want, left>>
        BY <2>5 DEF UnsubscribeTag, Without
      <3>2. ASSUME NEW d \in Conns, NEW t \in Tags, Listening(d, t)' PROVE Listening(d, t)
        <4>1. CASE t # u
          BY <1>0, <3>1, <3>2, <4>1 DEF Listening
        <4>2. CASE t = u
          <5>1. subscribers'[u] = RemoveAt(subscribers[u], i) /\ subscribers[u] \in Seq(Conns)
            BY <1>0, <3>1
          <5>2. Holds(RemoveAt(subscribers[u], i), d) => Holds(subscribers[u], d)
            BY <5>1, RemoveAtElements
          <5> QED BY <3>2, <4>2, <5>1, <5>2 DEF Listening, Holds
        <4> QED BY <4>1, <4>2
      <3> QED BY <2>2, <3>1, <3>2 DEF WantInv
    <2>6. ASSUME NEW c \in Conns,
                 Accept(c) \/ Forget(c) \/ StartStream(c) \/ Abandon(c) \/ Disconnect(c)
          PROVE  WantInv'
      <3>1. /\ UNCHANGED <<subscribers, want, left>> /\ conn[c] # "none"
            /\ \A d \in Conns : conn'[d] = conn[d] \/ conn'[d] \notin {"none", "subscribing"}
        BY <1>0, <2>6 DEF Accept, Forget, StartStream, Abandon, Disconnect
      <3>2. \A d \in Conns, t \in Tags : Listening(d, t)' <=> Listening(d, t)
        BY <3>1 DEF Listening
      <3> QED BY <2>2, <3>1, <3>2 DEF WantInv
    <2> QED BY <1>1, <2>3, <2>4, <2>5, <2>6 DEF HandlerStep
  <1>2. CASE SameRegistry
    <2>1. ASSUME /\ \A e \in Emitters, c \in Conns :
                       Active(e)' /\ Holds(thread'[e].todo, c) => Holds(want[c], thread'[e].env.tag)
                 /\ \A c \in Conns, x \in Envelopes : Reached(c, x)' => Holds(want[c], x.tag)
          PROVE  WantInv'
      BY <1>2, <2>1 DEF SameRegistry, WantInv, Listening
    <2>2. CASE Quiet
      <3>1. \A c, x : Reached(c, x)' <=> Reached(c, x)
        BY <2>2, ReachedStays DEF Quiet
      <3> QED BY <2>1, <2>2, <3>1 DEF Quiet, WantInv, Active
    <2>3. ASSUME NEW e \in Emitters, Stamps(e) \/ Wakes(e) \/ CheckTag(e) \/ EmitReturns(e)
          PROVE  WantInv'
      <3>1. UNCHANGED <<ready, log>>
        BY <2>3, CheckFacts, ReturnFacts DEF Stamps, Wakes, SameOffers
      <3>2. \A c, x : Reached(c, x)' <=> Reached(c, x)
        BY <3>1, ReachedStays
      <3>3. ASSUME NEW f \in Emitters, Active(f)', NEW c \in Conns, Holds(thread'[f].todo, c)
            PROVE  Holds(want[c], thread'[f].env.tag)
        <4>1. \A d : ~Holds(<<>>, d)
          BY DEF Holds
        <4>2. Active(f) /\ thread'[f].todo = thread[f].todo /\ thread'[f].env = thread[f].env
          BY <2>3, <3>3, <4>1, StampFacts, WakeFacts, CheckFacts, ReturnFacts DEF Active
        <4> QED BY <3>3, <4>2 DEF WantInv
      <3> QED BY <2>1, <3>2, <3>3 DEF WantInv
    <2>4. ASSUME NEW e \in Emitters, CopyListeners(e) PROVE WantInv'
      <3>1. \A c, x : Reached(c, x)' <=> Reached(c, x)
        BY <2>4, CopyFacts, ReachedStays DEF SameOffers
      <3>2. ASSUME NEW f \in Emitters, Active(f)', NEW c \in Conns, Holds(thread'[f].todo, c)
            PROVE  Holds(want[c], thread'[f].env.tag)
        <4>1. CASE f = e
          <5>1. /\ thread'[e].todo = subscribers[thread[e].env.tag] /\ Active(e)
                /\ thread'[e].env = thread[e].env
            BY <2>4, CopyFacts DEF Active
          <5>2. thread[e].env.tag \in Tags
            BY <1>0, <5>1
          <5>3. Listening(c, thread[e].env.tag)
            BY <3>2, <4>1, <5>1 DEF Holds, Listening
          <5> QED BY <4>1, <5>1, <5>2, <5>3 DEF WantInv
        <4>2. CASE f # e
          BY <2>4, <3>2, <4>2, CopyFacts DEF WantInv, Active
        <4> QED BY <4>1, <4>2
      <3> QED BY <2>1, <3>1, <3>2 DEF WantInv
    <2>5. ASSUME NEW e \in Emitters, CallListener(e) PROVE WantInv'
      <3>1. /\ thread[e].todo # <<>> /\ thread'[e].todo = Tail(thread[e].todo) /\ Active(e)
            /\ thread'[e].env = thread[e].env
            /\ \A f \in Emitters \ {e} : thread'[f] = thread[f]
            /\ Head(thread[e].todo) \in Conns
        BY <2>5, CallFacts DEF Active
      <3>2. /\ \A c : Holds(thread'[e].todo, c) => Holds(thread[e].todo, c)
            /\ Holds(thread[e].todo, Head(thread[e].todo))
        BY <1>0, <3>1, HoldsTail
      <3>3. Holds(want[Head(thread[e].todo)], thread[e].env.tag)
        BY <3>1, <3>2 DEF WantInv
      <3>4. \A c \in Conns, x \in Envelopes : Reached(c, x)' =>
               Reached(c, x) \/ (c = Head(thread[e].todo) /\ x = thread[e].env)
        BY <2>5, ReachedByCall
      <3>5. \A c \in Conns, x \in Envelopes : Reached(c, x)' => Holds(want[c], x.tag)
        BY <3>3, <3>4 DEF WantInv
      <3>6. \A f \in Emitters, c \in Conns :
               Active(f)' /\ Holds(thread'[f].todo, c) => Holds(want[c], thread'[f].env.tag)
        BY <3>1, <3>2 DEF WantInv, Active
      <3> QED BY <2>1, <3>5, <3>6
    <2>6. CASE Offer
      <3>1. \A c \in Conns, x \in Envelopes : Reached(c, x)' <=> Reached(c, x)
        BY <2>6, ReachedByOffer
      <3>2. thread' = thread
        BY <2>6, OfferFacts
      <3> QED BY <2>1, <3>1, <3>2 DEF WantInv, Active
    <2> QED BY <2>2, <2>3, <2>4, <2>5, <2>6, EventSteps DEF EmitStep
  <1> QED BY <1>1, <1>2, RegistryMoves

LEMMA OrderStep ==
    TypeInv /\ NumberInv /\ OrderInv /\ [Next]_vars => OrderInv'
  <1> SUFFICES ASSUME TypeInv, NumberInv, OrderInv, [Next]_vars PROVE OrderInv'
    OBVIOUS
  <1> DEFINE Calls == [conn : Conns, env : Envelopes]
  <1>0. /\ ready \in Seq(Calls) /\ log \in [Conns -> Seq(Envelopes)]
        /\ \A e \in Emitters : Active(e) => thread[e].env \in Envelopes
        /\ \A x \in Envelopes : x.seq \in Nat
    BY NumberTypes DEF TypeInv, TypeOK
  <1>1. CASE UNCHANGED <<ready, log>>
    BY <1>1 DEF OrderInv
  <1>2. ASSUME NEW e \in Emitters, CallListener(e) PROVE OrderInv'
    <2> DEFINE h == Head(thread[e].todo)
    <2> DEFINE call == [conn |-> h, env |-> thread[e].env]
    <2>1. /\ Active(e) /\ h \in Conns /\ thread[e].env \in Envelopes
          /\ ready' = Append(ready, call) /\ log' = log
      BY <1>2, CallFacts DEF Active
    <2>2. Holds(thread[e].todo, h)
      BY <1>2, CallFacts, HoldsTail
    <2>3. ASSUME NEW x \in Envelopes, Reached(h, x) PROVE Before(x, thread[e].env)
      <3>1. /\ x.seq # thread[e].env.seq
            /\ x.by = e => x.seq <= thread[e].env.seq
            /\ thread[e].env.by = e
        BY <2>1, <2>2, <2>3 DEF NumberInv
      <3>2. x.seq \in Nat /\ thread[e].env.seq \in Nat
        BY <1>0, <2>1
      <3> QED BY <3>1, <3>2 DEF Before
    <2>4. call \in Calls /\ call.conn = h /\ call.env = thread[e].env
      BY <2>1
    <2> HIDE DEF h, call, Calls
    <2>5. /\ DOMAIN ready = 1..Len(ready) /\ Len(ready) \in Nat
          /\ DOMAIN ready' = 1..(Len(ready) + 1)
          /\ \A i \in 1..Len(ready) : ready'[i] = ready[i] /\ ready[i] \in Calls
          /\ ready'[Len(ready) + 1] = call
      BY <1>0, <2>1, <2>4
    <2>6. ASSUME NEW i \in DOMAIN ready, ready[i].conn = h PROVE Before(ready[i].env, call.env)
      <3>1. /\ ready[i] \in [conn : Conns, env : Envelopes] /\ ready[i].env \in Envelopes
        BY <2>5 DEF Calls
      <3>2. [conn |-> h, env |-> ready[i].env] = ready[i]
        BY <2>6, <3>1, PairIs
      <3>3. Reached(h, ready[i].env)
        BY <3>2 DEF Reached, Holds
      <3> QED BY <2>3, <2>4, <3>1, <3>3
    <2>7. ASSUME NEW i \in DOMAIN log[h] PROVE Before(log[h][i], call.env)
      <3>1. log[h][i] \in Envelopes
        BY <1>0, <2>1
      <3>2. Reached(h, log[h][i])
        BY DEF Reached, Holds
      <3> QED BY <2>3, <2>4, <3>1, <3>2
    <2>8. ASSUME NEW i \in DOMAIN ready', NEW j \in DOMAIN ready', i < j,
                 ready'[i].conn = ready'[j].conn
          PROVE  Before(ready'[i].env, ready'[j].env)
      <3>1. i \in 1..Len(ready) /\ (j \in 1..Len(ready) \/ j = Len(ready) + 1)
        BY <2>5, <2>8
      <3>2. CASE j \in 1..Len(ready)
        BY <2>5, <2>8, <3>1, <3>2 DEF OrderInv
      <3>3. CASE j = Len(ready) + 1
        BY <2>4, <2>5, <2>6, <2>8, <3>1, <3>3
      <3> QED BY <3>1, <3>2, <3>3
    <2>9. ASSUME NEW i \in DOMAIN ready', NEW j \in DOMAIN log[ready'[i].conn]
          PROVE  Before(log[ready'[i].conn][j], ready'[i].env)
      <3>1. i \in 1..Len(ready) \/ i = Len(ready) + 1
        BY <2>5
      <3>2. CASE i \in 1..Len(ready)
        BY <2>5, <2>9, <3>2 DEF OrderInv
      <3>3. CASE i = Len(ready) + 1
        BY <2>4, <2>5, <2>7, <3>3
      <3> QED BY <3>1, <3>2, <3>3
    <2> QED BY <2>1, <2>8, <2>9 DEF OrderInv
  <1>3. CASE Offer
    <2> DEFINE c == Head(ready).conn
    <2> DEFINE env == Head(ready).env
    <2>1. /\ ready # <<>> /\ ready' = Tail(ready) /\ c \in Conns /\ env \in Envelopes
          /\ log' = [log EXCEPT ![c] = Append(log[c], env)]
      BY <1>3, OfferFacts
    <2>2. /\ DOMAIN ready = 1..Len(ready) /\ Len(ready) \in Nat \ {0}
          /\ DOMAIN ready' = 1..(Len(ready) - 1)
          /\ \A i \in 1..(Len(ready) - 1) : ready'[i] = ready[i + 1]
          /\ Head(ready) = ready[1]
      BY <1>0, <2>1
    <2>3. \A i \in 1..(Len(ready) - 1) : i + 1 \in 1..Len(ready) /\ 1 < i + 1
      BY <2>2
    <2>4. 1 \in DOMAIN ready /\ ready[1].conn = c /\ ready[1].env = env
      BY <2>2
    <2> HIDE DEF c, env
    <2>5. /\ \A d \in Conns : d # c => log'[d] = log[d]
          /\ log'[c] = Append(log[c], env) /\ log[c] \in Seq(Envelopes)
      BY <1>0, <2>1
    <2>6. /\ DOMAIN log[c] = 1..Len(log[c]) /\ Len(log[c]) \in Nat
          /\ DOMAIN log'[c] = 1..(Len(log[c]) + 1)
          /\ \A i \in 1..Len(log[c]) : log'[c][i] = log[c][i]
          /\ log'[c][Len(log[c]) + 1] = env
      BY <2>1, <2>5
    <2>7. \A i \in DOMAIN log[c] : Before(log[c][i], env)
      BY <2>4 DEF OrderInv
    <2>8. ASSUME NEW d \in Conns, NEW i \in DOMAIN log'[d], NEW j \in DOMAIN log'[d], i < j
          PROVE  Before(log'[d][i], log'[d][j])
      <3>1. CASE d # c
        BY <2>5, <2>8, <3>1 DEF OrderInv
      <3>2. CASE d = c
        <4>1. i \in 1..Len(log[c]) /\ (j \in 1..Len(log[c]) \/ j = Len(log[c]) + 1)
          BY <2>6, <2>8, <3>2
        <4>2. CASE j \in 1..Len(log[c])
          BY <2>1, <2>6, <2>8, <3>2, <4>1, <4>2 DEF OrderInv
        <4>3. CASE j = Len(log[c]) + 1
          BY <2>6, <2>7, <3>2, <4>1, <4>3
        <4> QED BY <4>1, <4>2, <4>3
      <3> QED BY <3>1, <3>2
    <2>9. ASSUME NEW i \in DOMAIN ready', NEW j \in DOMAIN ready', i < j,
                 ready'[i].conn = ready'[j].conn
          PROVE  Before(ready'[i].env, ready'[j].env)
      <3>1. /\ i + 1 \in DOMAIN ready /\ j + 1 \in DOMAIN ready /\ i + 1 < j + 1
            /\ ready'[i] = ready[i + 1] /\ ready'[j] = ready[j + 1]
        BY <2>2, <2>9
      <3> QED BY <2>9, <3>1 DEF OrderInv
    <2>10. ASSUME NEW i \in DOMAIN ready', NEW j \in DOMAIN log'[ready'[i].conn]
           PROVE  Before(log'[ready'[i].conn][j], ready'[i].env)
      <3>1. /\ i + 1 \in DOMAIN ready /\ 1 < i + 1 /\ ready'[i] = ready[i + 1]
        BY <2>2, <2>3
      <3>2. ready'[i].conn \in Conns
        <4> HIDE DEF Calls
        <4>1. ready[i + 1] \in Calls
          BY <1>0, <2>2, <3>1, ElementOfSeq
        <4> QED BY <3>1, <4>1 DEF Calls
      <3>3. CASE ready'[i].conn # c
        BY <2>5, <3>1, <3>2, <3>3 DEF OrderInv
      <3>4. CASE ready'[i].conn = c
        <4>1. j \in 1..Len(log[c]) \/ j = Len(log[c]) + 1
          BY <2>6, <3>4
        <4>2. CASE j \in 1..Len(log[c])
          BY <2>6, <3>1, <3>4, <4>2 DEF OrderInv
        <4>3. CASE j = Len(log[c]) + 1
          BY <2>4, <2>6, <3>1, <3>4, <4>3 DEF OrderInv
        <4> QED BY <4>1, <4>2, <4>3
      <3> QED BY <3>3, <3>4
    <2> QED BY <2>8, <2>9, <2>10 DEF OrderInv
  <1>4. ASSUME NEW e \in Emitters,
               Stamps(e) \/ Wakes(e) \/ CheckTag(e) \/ CopyListeners(e) \/ EmitReturns(e)
        PROVE  UNCHANGED <<ready, log>>
    BY <1>4, CheckFacts, CopyFacts, ReturnFacts DEF Stamps, Wakes, SameOffers
  <1>5. CASE Quiet
    BY <1>1, <1>5 DEF Quiet
  <1> QED BY <1>1, <1>2, <1>3, <1>4, <1>5, EventSteps DEF EmitStep

\* Reached after the step.
ReachedNext(c, x) == Holds(log'[c], x) \/ Holds(ready', [conn |-> c, env |-> x])

LEMMA MissStep ==
    TypeInv /\ LoopInv /\ RegistryInv /\ NumberInv /\ MissInv /\ [Next]_vars => MissInv'
  <1> SUFFICES ASSUME TypeInv, LoopInv, RegistryInv, NumberInv, MissInv, [Next]_vars,
                      NEW c \in Conns, conn'[c] \in {"open", "streaming"}
               PROVE  /\ \A e \in Emitters :
                            /\ thread'[e].pc = "calling" /\ thread'[e].env.seq > joined'[c]
                            /\ Holds(want'[c], thread'[e].env.tag)
                            => Holds(thread'[e].todo, c) \/ ReachedNext(c, thread'[e].env)
                      /\ \A x \in emitted' :
                            x.seq > joined'[c] /\ Holds(want'[c], x.tag) => ReachedNext(c, x)
    BY DEF MissInv, Reached, ReachedNext
  <1>0. /\ conn \in [Conns -> {"none", "subscribing", "open", "streaming", "leaving",
                              "closed", "abandoned"}]
        /\ want \in [Conns -> Seq(Tags)] /\ joined \in [Conns -> Nat]
        /\ \A e \in Emitters : thread[e].todo \in Seq(Conns)
        /\ \A e \in Emitters : Active(e) => thread[e].env \in Envelopes
        /\ \A x \in Envelopes : x.tag \in Tags /\ x.seq \in Nat
        /\ emitted \subseteq Envelopes /\ seq \in Nat
    BY RegistryTypes, NumberTypes
  <1>3. \A x : Reached(c, x)' <=> ReachedNext(c, x)
    BY DEF Reached, ReachedNext
  <1>1. CASE Quiet /\ \E d \in Conns : \/ \E tags \in Requests : Subscribe(d, tags)
                                       \/ HandlerStep(d) \/ StartStream(d) \/ Abandon(d)
                                       \/ Disconnect(d)
    <2>1. \A x : ReachedNext(c, x) <=> Reached(c, x)
      BY <1>1, <1>3, ReachedStays DEF Quiet
    <2>2. CASE Accept(c)
      <3>1. joined'[c] = seq
        BY <1>0, <2>2 DEF Accept
      <3>2. ASSUME NEW e \in Emitters, thread[e].pc = "calling" PROVE ~(thread[e].env.seq > seq)
        BY <1>0, <3>2 DEF NumberInv, Active
      <3>3. ASSUME NEW x \in emitted PROVE ~(x.seq > seq)
        BY <1>0, <3>3 DEF NumberInv
      <3> QED BY <1>1, <3>1, <3>2, <3>3 DEF Quiet
    <2>3. CASE ~Accept(c)
      <3>1. conn[c] \in {"open", "streaming"} /\ want'[c] = want[c] /\ joined'[c] = joined[c]
        BY <1>0, <1>1, <2>3 DEF HandlerStep, Subscribe, SubscribeTag, Accept, UnsubscribeTag,
             Forget, StartStream, Abandon, Disconnect
      <3> QED BY <1>1, <2>1, <3>1 DEF Quiet, MissInv
    <2> QED BY <2>2, <2>3
  <1>2. CASE SameRegistry
    <2>0. conn[c] \in {"open", "streaming"} /\ want' = want /\ joined' = joined
          /\ subscribers' = subscribers
      BY <1>2 DEF SameRegistry
    <2>1. \A t \in Tags : Holds(want[c], t) => subscribers[t] # <<>> /\ Holds(subscribers[t], c)
      BY <2>0 DEF RegistryInv, Listening, Holds
    <2>2. ASSUME NEW x \in Envelopes, Reached(c, x) PROVE ReachedNext(c, x)
      <3>1. CASE UNCHANGED <<ready, log>>
        BY <2>2, <1>3, <3>1, ReachedStays
      <3>2. ASSUME NEW e \in Emitters, CallListener(e) PROVE ReachedNext(c, x)
        BY <1>3, <2>2, <3>2, ReachedByCall
      <3>3. CASE Offer
        BY <2>2, <1>3, <3>3, ReachedByOffer
      <3>4. ASSUME NEW e \in Emitters,
                   Stamps(e) \/ Wakes(e) \/ CheckTag(e) \/ CopyListeners(e) \/ EmitReturns(e)
            PROVE  UNCHANGED <<ready, log>>
        BY <3>4, CheckFacts, CopyFacts, ReturnFacts DEF Stamps, Wakes, SameOffers
      <3> QED BY <3>1, <3>2, <3>3, <3>4, EventSteps DEF EmitStep, Quiet
    <2>3. ASSUME NEW e \in Emitters, thread'[e].pc = "calling", thread'[e].env.seq > joined[c],
                 Holds(want[c], thread'[e].env.tag)
          PROVE  Holds(thread'[e].todo, c) \/ ReachedNext(c, thread'[e].env)
      <3>1. CASE thread'[e] = thread[e]
        BY <1>0, <2>0, <2>2, <2>3, <3>1 DEF MissInv, Active
      <3>2. CASE Stamps(e) \/ Wakes(e) \/ EmitReturns(e)
        BY <2>3, <3>2, StampFacts, WakeFacts, ReturnFacts
      <3>3. CASE CheckTag(e)
        <4>1. /\ Active(e) /\ thread'[e].env = thread[e].env
              /\ subscribers[thread[e].env.tag] = <<>>
          BY <2>3, <3>3, CheckFacts DEF Active
        <4>2. thread[e].env.tag \in Tags
          BY <1>0, <4>1
        <4> QED BY <2>1, <2>3, <4>1, <4>2
      <3>4. CASE CopyListeners(e)
        <4>1. /\ Active(e) /\ thread'[e].env = thread[e].env
              /\ thread'[e].todo = subscribers[thread[e].env.tag]
          BY <3>4, CopyFacts DEF Active
        <4>2. thread[e].env.tag \in Tags
          BY <1>0, <4>1
        <4> QED BY <2>1, <2>3, <4>1, <4>2
      <3>5. CASE CallListener(e)
        <4>1. /\ Active(e) /\ thread[e].pc = "calling" /\ thread'[e].env = thread[e].env
              /\ thread[e].todo # <<>> /\ thread'[e].todo = Tail(thread[e].todo)
          BY <3>5, CallFacts DEF Active
        <4>2. Holds(thread[e].todo, c) \/ Reached(c, thread[e].env)
          BY <2>0, <2>3, <4>1 DEF MissInv
        <4>3. thread[e].env \in Envelopes
          BY <1>0, <4>1
        <4>4. Holds(thread[e].todo, c) => c = Head(thread[e].todo) \/ Holds(thread'[e].todo, c)
          BY <1>0, <4>1, HoldsTail
        <4>5. c = Head(thread[e].todo) => ReachedNext(c, thread[e].env)
          BY <3>5, <1>3, <4>3, ReachedByCall
        <4> QED BY <2>2, <4>1, <4>2, <4>3, <4>4, <4>5
      <3>6. thread'[e] = thread[e] \/ Stamps(e) \/ Wakes(e) \/ EmitStep(e)
        BY ThreadSteps
      <3> QED BY <3>1, <3>2, <3>3, <3>4, <3>5, <3>6 DEF EmitStep
    <2>4. ASSUME NEW x \in emitted', x.seq > joined[c], Holds(want[c], x.tag)
          PROVE  ReachedNext(c, x)
      <3>1. CASE x \in emitted
        BY <1>0, <2>0, <2>2, <2>4, <3>1 DEF MissInv
      <3>2. CASE x \notin emitted
        <4>1. PICK e \in Emitters : EmitReturns(e)
          BY <3>2, EventSteps, CheckFacts, CopyFacts, CallFacts, OfferFacts
             DEF Quiet, Stamps, Wakes, SameOffers, EmitStep
        <4>2. /\ x = thread[e].env /\ thread[e].pc = "calling" /\ thread[e].todo = <<>>
              /\ x \in Envelopes
          BY <3>2, <4>1, ReturnFacts
        <4>3. ~Holds(thread[e].todo, c)
          BY <4>2 DEF Holds
        <4> QED BY <2>0, <2>2, <2>4, <4>2, <4>3 DEF MissInv
      <3> QED BY <3>1, <3>2
    <2> QED BY <2>0, <2>3, <2>4
  <1> QED BY <1>1, <1>2, RegistryMoves

EventsInv == TypeInv /\ LoopInv /\ RegistryInv /\ WantInv /\ OnceInv /\ NumberInv /\ OrderInv
             /\ MissInv

LEMMA EventsInit == Init => EventsInv
  <1> SUFFICES ASSUME Init PROVE EventsInv
    OBVIOUS
  <1>1. TypeInv /\ LoopInv /\ RegistryInv
    BY TypeInit, LoopInit, RegistryInit
  <1>2. /\ \A e \in Emitters : ~Active(e)
        /\ \A c \in Conns : \A x : ~Reached(c, x)
        /\ \A c \in Conns, t \in Tags : ~Listening(c, t)
    BY DEF Init, Active, Idle, Unborn, Reached, Holds, Listening
  <1>3. WantInv
    BY <1>2 DEF Init, WantInv
  <1>4. OnceInv
    BY <1>2 DEF Init, OnceInv, NoRepeat, Idle, Unborn
  <1>5. NumberInv
    BY <1>2 DEF Init, NumberInv
  <1>6. OrderInv
    BY DEF Init, OrderInv
  <1>7. MissInv
    BY DEF Init, MissInv
  <1> QED BY <1>1, <1>3, <1>4, <1>5, <1>6, <1>7 DEF EventsInv

LEMMA EventsStep == EventsInv /\ [Next]_vars => EventsInv'
  BY TypeStep, LoopStep, RegistryStep, WantStep, OnceStep, NumberStep, OrderStep, MissStep
     DEF EventsInv

\* Only events of the tags a subscriber asked for are offered to it, no number twice,
\* and the events of one emitting thread in the order of their numbers, whatever the
\* threads, the handlers and the offers on the loop do in between.
THEOREM OrderIsKept == Spec => []InThreadOrder
  <1>1. EventsInv => InThreadOrder
    <2> SUFFICES ASSUME EventsInv, NEW c \in Conns, NEW i \in DOMAIN log[c]
                 PROVE  /\ Holds(want[c], log[c][i].tag)
                        /\ \A j \in 1..(i - 1) :
                              /\ log[c][j].seq # log[c][i].seq
                              /\ log[c][j].by = log[c][i].by => log[c][j].seq < log[c][i].seq
      BY DEF InThreadOrder
    <2>1. /\ log[c] \in Seq(Envelopes) /\ DOMAIN log[c] = 1..Len(log[c]) /\ Len(log[c]) \in Nat
          /\ log[c][i] \in Envelopes
      BY DEF EventsInv, TypeInv, TypeOK
    <2>2. Holds(want[c], log[c][i].tag)
      BY <2>1 DEF EventsInv, WantInv, Reached, Holds
    <2>3. \A j \in 1..(i - 1) : j \in DOMAIN log[c] /\ j < i
      BY <2>1
    <2> QED BY <2>2, <2>3 DEF EventsInv, OrderInv, Before
  <1> QED BY <1>1, EventsInit, EventsStep, PTL DEF Spec

\* An emit that returned after a subscription was complete has handed the event to that
\* subscriber: neither the subscriptions and sweeps of other clients nor the emitters that
\* read the dictionary without its lock lose one.
THEOREM NothingIsMissed == Spec => []NoEventMissed
  <1>1. EventsInv => NoEventMissed
    BY DEF EventsInv, MissInv, NoEventMissed
  <1> QED BY <1>1, EventsInit, EventsStep, PTL DEF Spec

----------------------------------------------------------------------------
(* From the emitter to the client: the broker and the mailboxes together.    *)

\* As long as nothing was dropped, the stream has yielded the log from its beginning.
SentInv == \A c \in Conns :
    dropped[c] = 0 => \A i \in 1..Len(sent[c]) : sent[c][i] = log[c][i]

LEMMA SentStep == TypeInv /\ BoxInv /\ SentInv /\ [Next]_vars => SentInv'
  <1> SUFFICES ASSUME TypeInv, BoxInv, SentInv, [Next]_vars, NEW d \in Conns, dropped'[d] = 0
               PROVE  \A i \in 1..Len(sent'[d]) : sent'[d][i] = log'[d][i]
    BY DEF SentInv
  <1>1. /\ queue[d] \in Seq(Envelopes) /\ log[d] \in Seq(Envelopes) /\ sent[d] \in Seq(Envelopes)
        /\ dropped[d] \in Nat /\ Len(sent[d]) \in Nat /\ Len(queue[d]) \in Nat
        /\ sent \in [Conns -> Seq(Envelopes)] /\ log \in [Conns -> Seq(Envelopes)]
        /\ dropped \in [Conns -> Nat]
        /\ Len(log[d]) = Len(sent[d]) + dropped[d] + Len(queue[d])
        /\ \A i \in 1..Len(queue[d]) : queue[d][i] = log[d][Len(sent[d]) + dropped[d] + i]
    BY DEF TypeInv, TypeOK, BoxInv
  <1>2. CASE Offer
    <2>1. PICK c \in Conns, env \in Envelopes :
              /\ queue' = [queue EXCEPT ![c] = Append(MakeRoom(queue[c]), env)]
              /\ dropped' = [dropped EXCEPT ![c] = IF Full(queue[c]) THEN dropped[c] + 1
                                                   ELSE dropped[c]]
              /\ log' = [log EXCEPT ![c] = Append(log[c], env)]
              /\ sent' = sent
      BY <1>2, OfferEffect
    <2>2. dropped[d] = 0
      BY <1>1, <2>1
    <2>3. \A i \in 1..Len(sent[d]) : i \in 1..Len(log[d]) /\ sent[d][i] = log[d][i]
      BY <1>1, <2>2 DEF SentInv
    <2>4. \A i \in 1..Len(log[d]) : log'[d][i] = log[d][i]
      <3>1. log'[d] = log[d] \/ log'[d] = Append(log[d], env)
        BY <1>1, <2>1
      <3> QED BY <1>1, <3>1
    <2> QED BY <2>1, <2>3, <2>4
  <1>3. CASE \E c \in Conns : Yield(c)
    <2>1. PICK c \in Conns : Yield(c)
      BY <1>3
    <2>2. /\ queue[c] # <<>>
          /\ sent' = [sent EXCEPT ![c] = Append(sent[c], Head(queue[c]))]
          /\ UNCHANGED <<dropped, log>>
      BY <2>1 DEF Yield
    <2>3. CASE d # c
      BY <1>1, <2>2, <2>3 DEF SentInv
    <2>4. CASE d = c
      <3>1. sent'[d] = Append(sent[d], Head(queue[d])) /\ dropped[d] = 0
        BY <1>1, <2>2, <2>4
      <3>2. Head(queue[d]) = log[d][Len(sent[d]) + 1]
        <4>1. 1 \in 1..Len(queue[d]) /\ Head(queue[d]) = queue[d][1]
          BY <1>1, <2>2, <2>4
        <4> QED BY <1>1, <3>1, <4>1
      <3>3. /\ Len(sent'[d]) = Len(sent[d]) + 1 /\ sent'[d][Len(sent[d]) + 1] = Head(queue[d])
            /\ \A i \in 1..Len(sent[d]) : sent'[d][i] = sent[d][i]
        BY <1>1, <2>2, <2>4, <3>1, HeadTailProperties
      <3>4. \A i \in 1..Len(sent'[d]) : i \in 1..Len(sent[d]) \/ i = Len(sent[d]) + 1
        BY <1>1, <3>3
      <3> QED BY <2>2, <3>1, <3>2, <3>3, <3>4 DEF SentInv
    <2> QED BY <2>3, <2>4
  <1>4. CASE UNCHANGED queueVars
    BY <1>4 DEF queueVars, SentInv
  <1> QED BY <1>2, <1>3, <1>4, QueueSteps

\* What the stream has not yielded and no drop accounts for is in the queue; and an event
\* whose emit has returned after the subscription was complete is with the client, in
\* its queue, or in a callback the loop has yet to run, unless a drop was counted.
Delivered == \A c \in Conns :
    /\ Len(log[c]) = Len(sent[c]) + dropped[c] + Len(queue[c]) /\ Len(queue[c]) <= QueueMaxSize
    /\ conn[c] \in {"open", "streaming"} /\ dropped[c] = 0 =>
          \A e \in emitted :
              e.seq > joined[c] /\ Holds(want[c], e.tag) =>
                  Holds(sent[c], e) \/ Holds(queue[c], e) \/ Holds(ready, [conn |-> c, env |-> e])

LEMMA LogIsSplit ==
    ASSUME TypeInv, BoxInv, SentInv, NEW c \in Conns, dropped[c] = 0, NEW e, Holds(log[c], e)
    PROVE  Holds(sent[c], e) \/ Holds(queue[c], e)
  <1>1. /\ queue[c] \in Seq(Envelopes) /\ log[c] \in Seq(Envelopes) /\ sent[c] \in Seq(Envelopes)
        /\ Len(sent[c]) \in Nat /\ Len(queue[c]) \in Nat /\ DOMAIN log[c] = 1..Len(log[c])
        /\ DOMAIN sent[c] = 1..Len(sent[c]) /\ DOMAIN queue[c] = 1..Len(queue[c])
        /\ Len(log[c]) = Len(sent[c]) + Len(queue[c])
        /\ \A i \in 1..Len(queue[c]) : queue[c][i] = log[c][Len(sent[c]) + i]
        /\ \A i \in 1..Len(sent[c]) : sent[c][i] = log[c][i]
    <2>1. /\ queue[c] \in Seq(Envelopes) /\ log[c] \in Seq(Envelopes)
          /\ sent[c] \in Seq(Envelopes)
      BY DEF TypeInv, TypeOK
    <2>2. /\ Len(sent[c]) \in Nat /\ Len(queue[c]) \in Nat /\ DOMAIN log[c] = 1..Len(log[c])
          /\ DOMAIN sent[c] = 1..Len(sent[c]) /\ DOMAIN queue[c] = 1..Len(queue[c])
      BY <2>1
    <2>3. Len(sent[c]) + dropped[c] = Len(sent[c])
      BY <2>2
    <2>4. /\ Len(log[c]) = Len(sent[c]) + Len(queue[c])
          /\ \A i \in 1..Len(queue[c]) : queue[c][i] = log[c][Len(sent[c]) + i]
      BY <2>3 DEF BoxInv
    <2>5. \A i \in 1..Len(sent[c]) : sent[c][i] = log[c][i]
      BY DEF SentInv
    <2> QED BY <2>1, <2>2, <2>4, <2>5
  <1>2. PICK i \in 1..Len(log[c]) : log[c][i] = e
    BY <1>1 DEF Holds
  <1>3. CASE i <= Len(sent[c])
    <2>1. i \in 1..Len(sent[c])
      BY <1>1, <1>2, <1>3
    <2> QED BY <1>1, <1>2, <2>1 DEF Holds
  <1>4. CASE i > Len(sent[c])
    <2>0. \A n, m \in Nat : \A j \in 1..(n + m) :
             j > n => j - n \in 1..m /\ n + (j - n) = j
      OBVIOUS
    <2>1. i - Len(sent[c]) \in 1..Len(queue[c]) /\ Len(sent[c]) + (i - Len(sent[c])) = i
      <3>1. i \in 1..(Len(sent[c]) + Len(queue[c])) /\ Len(sent[c]) \in Nat /\ Len(queue[c]) \in Nat
        BY <1>1, <1>2
      <3> QED BY <1>4, <2>0, <3>1
    <2> QED BY <1>1, <1>2, <2>1 DEF Holds
  <1> QED BY <1>1, <1>2, <1>3, <1>4

\* The drop counter of a subscriber is all that can be missing from its stream
\* (server.py, _Subscriber.dropped): the broker, its offers and the mailbox together
\* deliver every event asked for, whatever threads, handlers and offers do in between.
THEOREM OnlyDropsAreMissing == Spec => []Delivered
  <1>1. Init => SentInv
    BY DEF Init, SentInv
  <1>2. Spec => [](TypeInv /\ BoxInv /\ SentInv)
    BY <1>1, TypeInit, TypeStep, BoxInit, BoxStep, SentStep, PTL DEF Spec
  <1>3. TypeInv /\ BoxInv /\ SentInv /\ NoEventMissed => Delivered
    <2> SUFFICES ASSUME TypeInv, BoxInv, SentInv, NoEventMissed, NEW c \in Conns
                 PROVE  /\ Len(log[c]) = Len(sent[c]) + dropped[c] + Len(queue[c])
                        /\ Len(queue[c]) <= QueueMaxSize
                        /\ conn[c] \in {"open", "streaming"} /\ dropped[c] = 0 =>
                              \A e \in emitted :
                                  e.seq > joined[c] /\ Holds(want[c], e.tag) =>
                                      \/ Holds(sent[c], e) \/ Holds(queue[c], e)
                                      \/ Holds(ready, [conn |-> c, env |-> e])
      BY DEF Delivered
    <2>1. /\ Len(log[c]) = Len(sent[c]) + dropped[c] + Len(queue[c])
          /\ Len(queue[c]) <= QueueMaxSize
      BY DEF BoxInv
    <2>2. ASSUME conn[c] \in {"open", "streaming"}, dropped[c] = 0, NEW e \in emitted,
                 e.seq > joined[c], Holds(want[c], e.tag)
          PROVE  \/ Holds(sent[c], e) \/ Holds(queue[c], e)
                 \/ Holds(ready, [conn |-> c, env |-> e])
      <3>1. Holds(log[c], e) \/ Holds(ready, [conn |-> c, env |-> e])
        BY <2>2 DEF NoEventMissed, Reached
      <3> QED BY <2>2, <3>1, LogIsSplit
    <2> QED BY <2>1, <2>2
  <1> QED BY <1>2, <1>3, NothingIsMissed, PTL

----------------------------------------------------------------------------
(* The safety half of ReplayPlaysOut.                                        *)

\* Where a thread is within the emit of one event.
EmitPlace(e) ==
    CASE thread[e].pc = "unborn" -> 0 [] thread[e].pc = "stamped" -> 1
      [] thread[e].pc = "found" -> 2 [] thread[e].pc = "calling" -> 3
      [] thread[e].pc = "idle" -> 4 [] OTHER -> 5

\* The next event of the feed, or further in the emit of this one, or one listener less
\* to call.
Further(e) ==
    \/ pos'[e] > pos[e]
    \/ pos'[e] = pos[e] /\ EmitPlace(e)' > EmitPlace(e)
    \/ /\ pos'[e] = pos[e] /\ EmitPlace(e)' = EmitPlace(e)
       /\ Len(thread'[e].todo) < Len(thread[e].todo)

LEMMA FeedPosition ==
    TypeInv /\ (\A r \in Replays : pos[r] <= Len(Feed)) /\ [Next]_vars
        => \A r \in Replays : pos'[r] <= Len(Feed)
  <1> SUFFICES ASSUME TypeInv, \A r \in Replays : pos[r] <= Len(Feed), [Next]_vars
               PROVE  \A r \in Replays : pos'[r] <= Len(Feed)
    OBVIOUS
  <1>0. /\ pos \in [Emitters -> Nat] /\ Len(Feed) \in Nat
        /\ \A r \in Replays : r \in Emitters /\ r # Loop
    BY FeedAssumption, LoopAssumption DEF TypeInv, TypeOK, Emitters
  <1>1. CASE \E r \in Replays : NextOfFeed(r)
    <2>1. PICK r \in Replays : NextOfFeed(r)
      BY <1>1
    <2>2. pos[r] < Len(Feed) /\ pos' = [pos EXCEPT ![r] = pos[r] + 1]
      BY <2>1 DEF NextOfFeed, Stamp
    <2> QED BY <1>0, <2>2
  <1>2. CASE \E t \in Tags : PostEmit(t)
    <2>1. pos' = [pos EXCEPT ![Loop] = pos[Loop] + 1]
      BY <1>2 DEF PostEmit, Stamp
    <2> QED BY <1>0, <2>1
  <1>3. CASE ~(\E r \in Replays : NextOfFeed(r)) /\ ~(\E t \in Tags : PostEmit(t))
    <2>1. UNCHANGED pos
      BY <1>3 DEF Next, vars, emitVars, HandlerStep, EmitStep, Subscribe, SubscribeTag, Accept,
             UnsubscribeTag, Forget, StartStream, Abandon, Disconnect, Yield, Replay, CheckTag,
             CopyListeners, CallListener, EmitReturns, Offer
    <2> QED BY <2>1
  <1> QED BY <1>1, <1>2, <1>3

\* A thread's own step takes it further.
LEMMA OwnStep ==
    ASSUME TypeInv, NEW r \in Replays, Replay(r) \/ NextOfFeed(r) \/ EmitStep(r)
    PROVE  Further(r)
  <1>0. /\ r \in Emitters /\ pos \in [Emitters -> Nat] /\ pos[r] \in Nat
        /\ thread \in [Emitters -> [pc : {"unborn", "idle", "stamped", "found", "calling", "dead"},
                                    env : Envelopes \cup {NoTag}, todo : Seq(Conns)]]
        /\ thread[r].todo \in Seq(Conns)
    BY DEF TypeInv, TypeOK, Emitters
  <1>1. CASE Replay(r)
    <2>1. thread[r].pc = "unborn" /\ thread'[r].pc = "idle" /\ pos' = pos
      BY <1>0, <1>1 DEF Replay, Idle
    <2> QED BY <2>1 DEF Further, EmitPlace
  <1>2. CASE NextOfFeed(r)
    <2>1. pos'[r] = pos[r] + 1
      BY <1>0, <1>2 DEF NextOfFeed, Stamp
    <2> QED BY <1>0, <2>1 DEF Further
  <1>3. CASE CheckTag(r) \/ CopyListeners(r) \/ EmitReturns(r)
    <2>1. /\ pos' = pos
          /\ <<thread[r].pc, thread'[r].pc>> \in
                {<<"stamped", "found">>, <<"stamped", "calling">>, <<"found", "calling">>,
                 <<"found", "dead">>, <<"calling", "idle">>}
      BY <1>0, <1>3 DEF CheckTag, CopyListeners, EmitReturns, Idle
    <2> QED BY <2>1 DEF Further, EmitPlace
  <1>4. CASE CallListener(r)
    <2>1. /\ pos' = pos /\ thread[r].todo # <<>> /\ thread'[r].todo = Tail(thread[r].todo)
          /\ thread'[r].pc = thread[r].pc
      BY <1>0, <1>4 DEF CallListener, MayCall
    <2>2. Len(Tail(thread[r].todo)) < Len(thread[r].todo)
      BY <1>0, <2>1
    <2> QED BY <2>1, <2>2 DEF Further, EmitPlace
  <1> QED BY <1>1, <1>2, <1>3, <1>4 DEF EmitStep

\* Nobody else's step moves it.
LEMMA OthersStep ==
    ASSUME TypeInv, [Next]_vars, NEW r \in Replays,
           ~(Replay(r) \/ NextOfFeed(r) \/ EmitStep(r))
    PROVE  thread'[r] = thread[r] /\ pos'[r] = pos[r]
  <1>0. /\ r \in Emitters /\ r # Loop /\ Loop \in Emitters
        /\ \A q \in Replays : q \in Emitters
        /\ DOMAIN pos = Emitters /\ DOMAIN thread = Emitters
    BY LoopAssumption DEF TypeInv, TypeOK, Emitters
  <1>1. ASSUME NEW e \in Emitters, e # r, EmitStep(e) \/ (\E t \in Tags : Stamp(e, t))
        PROVE  thread'[r] = thread[r] /\ pos'[r] = pos[r]
    BY <1>0, <1>1 DEF EmitStep, Stamp, CheckTag, CopyListeners, CallListener, EmitReturns
  <1>2. ASSUME NEW q \in Replays, q # r, Replay(q) PROVE thread'[r] = thread[r] /\ pos'[r] = pos[r]
    BY <1>0, <1>2 DEF Replay
  <1>3. ASSUME NEW q \in Replays, q # r, NextOfFeed(q)
        PROVE  thread'[r] = thread[r] /\ pos'[r] = pos[r]
    BY <1>0, <1>3 DEF NextOfFeed, Stamp
  <1>4. CASE \E e \in Emitters : EmitStep(e)
    BY <1>1, <1>4
  <1>5. CASE \E t \in Tags : PostEmit(t)
    BY <1>0, <1>1, <1>5 DEF PostEmit
  <1>6. CASE \E q \in Replays : Replay(q) \/ NextOfFeed(q)
    BY <1>2, <1>3, <1>6
  <1>7. CASE /\ ~(\E e \in Emitters : EmitStep(e)) /\ ~(\E t \in Tags : PostEmit(t))
             /\ ~(\E q \in Replays : Replay(q) \/ NextOfFeed(q))
    BY <1>7 DEF Next, vars, emitVars, HandlerStep, Subscribe, SubscribeTag, Accept, UnsubscribeTag,
           Forget, StartStream, Abandon, Disconnect, Yield, Offer
  <1> QED BY <1>4, <1>5, <1>6, <1>7

InFeed == \A r \in Replays : pos[r] <= Len(Feed)
GetsOn ==
    \A r \in Replays :
        IF Replay(r) \/ NextOfFeed(r) \/ EmitStep(r) THEN Further(r)
        ELSE thread'[r] = thread[r] /\ pos'[r] = pos[r]

\* A replay gets on by itself (server.py, replay; event_generator.py, generate): each
\* step of its thread is the next event of the feed, or takes the emit of this one
\* further, or leaves one listener less to call, and no handler, offer or other emitter
\* takes it back, however full the queues are.  Together with the fairness of FairSpec
\* this is ReplayPlaysOut.
THEOREM ReplayGetsOn == Spec => []InFeed /\ [][GetsOn]_vars
  <1>1. Init => InFeed
    BY FeedAssumption DEF Init, Emitters, InFeed
  <1>2. TypeInv /\ InFeed /\ [Next]_vars => InFeed'
    BY FeedPosition DEF InFeed
  <1>3. TypeInv /\ [Next]_vars => [GetsOn]_vars
    BY OwnStep, OthersStep DEF GetsOn
  <1> QED BY <1>1, <1>2, <1>3, TypeInit, TypeStep, PTL DEF Spec

=============================================================================
