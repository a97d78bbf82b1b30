------------------------- MODULE SocialPostsProofs -------------------------
(***************************************************************************)
(* Theorems about SocialPosts, for any number of requests, users and posts.  *)
(***************************************************************************)
EXTENDS SocialPosts, FiniteSetTheorems, TLAPS

----------------------------------------------------------------------------
(* The inductive invariant.                                                  *)

Batches == {"analyze", "reanalyze"}

\* Where a request can be, and what it is about.
Shape(c) ==
    LET q == req[c] IN
    /\ q.op = "none" => q.pc = "idle"
    /\ q.op = "add" => q.pc \in {"exists", "find", "write", "done"}
    /\ q.op = "remove" => q.pc \in {"find", "write", "done"}
    /\ q.op \in Batches => q.pc \in {"next", "asking", "storing", "done"} /\ q.row = {}
    /\ q.op \in {"add", "remove"} => \E r \in Rows : q.row = {r}
    /\ q.pc # "done" => q.answer = "none"

\* What an engagement has seen by the time it is somewhere.
Engaged(c) ==
    /\ req[c].op = "add" /\ req[c].pc \in {"find", "write"} => Row(c)[3] \in posted
    /\ req[c].op = "remove" /\ req[c].pc = "write" => Succeeded("add", Row(c)) # {}

\* The posts a batch has dealt with.
Finished(c) == (req[c].listed \ req[c].todo) \ (IF req[c].pc = "next" THEN {} ELSE req[c].post)

\* What a batch that runs has done.
Working(c) ==
    LET q == req[c] IN
    Batch(c) =>
        /\ q.todo \subseteq q.listed
        /\ q.pc \in {"asking", "storing"} => \E p \in q.listed \ q.todo : q.post = {p}
        /\ \A p \in Finished(c) : by[p] # "none"
        /\ q.analyzed = Cardinality(Finished(c))
        /\ q.calm =>
              /\ \A d \in Requests \ {c} : ~Batch(d)
              /\ q.engine = ActiveEngine
              /\ \A p \in Finished(c) : by[p] = ActiveEngine
              /\ q.op = "reanalyze" => q.listed = posted

Inv ==
    /\ TypeOK
    /\ \A c \in Requests : Shape(c)
    /\ \A c \in Requests : Engaged(c)
    /\ AnswersAddUp
    /\ \A c \in Requests : Working(c)

LEMMA ChooseOnly == \A x : (CHOOSE y \in {x} : TRUE) = x
  OBVIOUS

LEMMA RowIs ==
    ASSUME NEW c, NEW r, req[c].row = {r}
    PROVE  Row(c) = r
  BY ChooseOnly DEF Row

LEMMA SucceededFinite ==
    ASSUME NEW op, NEW r
    PROVE  IsFiniteSet(Succeeded(op, r)) /\ Cardinality(Succeeded(op, r)) \in Nat
  <1>1. Succeeded(op, r) \in SUBSET Requests
    BY DEF Succeeded
  <1>2. IsFiniteSet(Succeeded(op, r))
    BY <1>1, FinitenessAssumption, FS_Subset
  <1> QED BY <1>2, FS_CardinalityType

----------------------------------------------------------------------------
(* Types.                                                                    *)

\* Records stay records of their type, one field at a time.
LEMMA FieldTypes ==
    ASSUME NEW q \in RequestType
    PROVE  /\ \A x \in {"idle", "exists", "find", "write", "next", "asking", "storing", "done"} :
                 [q EXCEPT !.pc = x] \in RequestType
           /\ \A x \in {"none", "ok", "404", "409", "500", "failed"} :
                 [q EXCEPT !.answer = x] \in RequestType
           /\ \A x \in {"none", "add", "remove", "analyze", "reanalyze"} :
                 [q EXCEPT !.op = x] \in RequestType
           /\ \A r \in Rows : [q EXCEPT !.row = {r}] \in RequestType
           /\ \A x \in SUBSET Posts : [q EXCEPT !.todo = x] \in RequestType
           /\ \A x \in SUBSET Posts : [q EXCEPT !.listed = x] \in RequestType
           /\ \A p \in Posts : [q EXCEPT !.post = {p}] \in RequestType
           /\ \A x \in Engines : [q EXCEPT !.engine = x] \in RequestType
           /\ \A x \in Nat : [q EXCEPT !.analyzed = x] \in RequestType
           /\ \A x \in BOOLEAN : [q EXCEPT !.calm = x] \in RequestType
  BY DEF RequestType

LEMMA DisturbType ==
    ASSUME NEW f \in [Requests -> RequestType]
    PROVE  /\ Disturb(f) \in [Requests -> RequestType]
           /\ \A c \in Requests : Disturb(f)[c] = f[c] \/ Disturb(f)[c] = [f[c] EXCEPT !.calm = FALSE]
           /\ \A c \in Requests : f[c].op \in Batches => Disturb(f)[c].calm = FALSE
  <1>1. \A c \in Requests : [f[c] EXCEPT !.calm = FALSE] \in RequestType
    BY FieldTypes
  <1>2. \A c \in Requests : [f[c] EXCEPT !.calm = FALSE].calm = FALSE
    BY DEF RequestType
  <1> QED BY <1>1, <1>2 DEF Disturb, Batches

Pcs == {"idle", "exists", "find", "write", "next", "asking", "storing", "done"}

LEMMA UpdateTypes ==
    ASSUME NEW f \in [Requests -> RequestType], NEW c \in Requests, NEW pc \in Pcs
    PROVE  /\ [f EXCEPT ![c].pc = pc] \in [Requests -> RequestType]
           /\ \A a \in {"ok", "404", "409", "500", "failed"} :
                 [f EXCEPT ![c].pc = pc, ![c].answer = a] \in [Requests -> RequestType]
           /\ \A p \in Posts, e \in Engines :
                 [f EXCEPT ![c].pc = pc, ![c].todo = @ \ {p}, ![c].post = {p}, ![c].engine = e]
                    \in [Requests -> RequestType]
           /\ \A e \in Engines, b \in BOOLEAN :
                 [f EXCEPT ![c].pc = pc, ![c].engine = e, ![c].calm = b] \in [Requests -> RequestType]
           /\ [f EXCEPT ![c].pc = pc, ![c].analyzed = @ + 1] \in [Requests -> RequestType]
  <1>1. [f EXCEPT ![c].pc = pc] \in [Requests -> RequestType]
    BY FieldTypes DEF Pcs
  <1>2. ASSUME NEW a \in {"ok", "404", "409", "500", "failed"}
        PROVE  [f EXCEPT ![c].pc = pc, ![c].answer = a] \in [Requests -> RequestType]
    BY FieldTypes DEF Pcs
  <1>3. ASSUME NEW p \in Posts, NEW e \in Engines
        PROVE  [f EXCEPT ![c].pc = pc, ![c].todo = @ \ {p}, ![c].post = {p}, ![c].engine = e]
                    \in [Requests -> RequestType]
    <2>1. f[c] \in RequestType /\ f[c].todo \ {p} \in SUBSET Posts
      BY DEF RequestType
    <2> DEFINE q1 == [f[c] EXCEPT !.pc = pc]
    <2> DEFINE q2 == [q1 EXCEPT !.todo = f[c].todo \ {p}]
    <2> DEFINE q3 == [q2 EXCEPT !.post = {p}]
    <2>2. q1 \in RequestType
      BY <2>1, FieldTypes DEF Pcs
    <2>3. q2 \in RequestType
      BY <2>1, <2>2, FieldTypes
    <2>4. q3 \in RequestType
      BY <2>3, FieldTypes
    <2>5. [q3 EXCEPT !.engine = e] \in RequestType
      BY <2>4, FieldTypes
    <2> QED BY <2>5
  <1>4. ASSUME NEW e \in Engines, NEW b \in BOOLEAN
        PROVE  [f EXCEPT ![c].pc = pc, ![c].engine = e, ![c].calm = b] \in [Requests -> RequestType]
    BY FieldTypes DEF Pcs
  <1>5. [f EXCEPT ![c].pc = pc, ![c].analyzed = @ + 1] \in [Requests -> RequestType]
    <2>1. f[c] \in RequestType /\ f[c].analyzed + 1 \in Nat
      BY DEF RequestType
    <2> DEFINE q1 == [f[c] EXCEPT !.pc = pc]
    <2>2. q1 \in RequestType
      BY <2>1, FieldTypes DEF Pcs
    <2>3. [q1 EXCEPT !.analyzed = f[c].analyzed + 1] \in RequestType
      BY <2>1, <2>2, FieldTypes
    <2> QED BY <2>3
  <1> QED BY <1>1, <1>2, <1>3, <1>4, <1>5

LEMMA IdleType == Idle \in RequestType
  BY DEF Idle, RequestType, Engines

\* The record of a batch that starts.
Started(op) == [Idle EXCEPT !.op = op, !.pc = "next", !.todo = Wanted(op), !.listed = Wanted(op),
                            !.engine = ActiveEngine]

LEMMA StartedIs ==
    ASSUME TypeOK, NEW op \in Batches
    PROVE  /\ Started(op) \in RequestType
           /\ Started(op).op = op /\ Started(op).pc = "next" /\ Started(op).row = {}
           /\ Started(op).answer = "none" /\ Started(op).analyzed = 0 /\ Started(op).calm = TRUE
           /\ Started(op).todo = Wanted(op) /\ Started(op).listed = Wanted(op)
           /\ Started(op).engine = ActiveEngine /\ Started(op).post = {}
           /\ Wanted(op) \subseteq posted
  <1>1. Wanted(op) \in SUBSET Posts /\ Wanted(op) \subseteq posted
    BY DEF Wanted, TypeOK
  <1>2. ActiveEngine \in Engines
    BY DEF ActiveEngine, Engines
  <1> QED BY <1>1, <1>2 DEF Started, Idle, RequestType, Batches

LEMMA TypeKept ==
    ASSUME TypeOK, \A c \in Requests : Shape(c), [Next]_vars
    PROVE  TypeOK'
  <1>1. ASSUME NEW c \in Requests, NEW op \in {"add", "remove"}, NEW r \in Rows, Ask(c, op, r)
        PROVE  TypeOK'
    <2> DEFINE pc == IF op = "add" THEN "exists" ELSE "find"
    <2> DEFINE q == [[req[c] EXCEPT !.op = op] EXCEPT !.row = {r}]
    <2>1. req \in [Requests -> RequestType] /\ pc \in {"exists", "find"}
      BY DEF TypeOK
    <2>2. q \in RequestType
      BY <2>1, FieldTypes
    <2>3. [q EXCEPT !.pc = pc] \in RequestType
      BY <2>1, <2>2, FieldTypes
    <2>4. req' = [req EXCEPT ![c] = [q EXCEPT !.pc = pc]]
      BY <1>1 DEF Ask
    <2> HIDE DEF q, pc
    <2> QED BY <1>1, <2>1, <2>3, <2>4 DEF Ask, TypeOK
  <1>2. ASSUME NEW c \in Requests, Engage(c) PROVE TypeOK'
    <2>1. Row(c) \in Rows
      <3>1. \E r \in Rows : req[c].row = {r}
        BY <1>2 DEF Engage, EnsurePostExists, FindForAdd, Create, FindForRemove, Delete, At, Shape
      <3> QED BY <3>1, RowIs
    <2>2. rows' \subseteq Rows /\ UNCHANGED <<posted, by, toggle>>
      BY <1>2, <2>1 DEF Engage, EnsurePostExists, FindForAdd, Create, FindForRemove, Delete, TypeOK
    <2>3. \/ \E pc \in {"find", "write"} : req' = [req EXCEPT ![c].pc = pc]
          \/ \E a \in {"ok", "404", "409", "500"} :
                req' = [req EXCEPT ![c].pc = "done", ![c].answer = a]
      BY <1>2 DEF Engage, EnsurePostExists, FindForAdd, Create, FindForRemove, Delete, Goes, Answers
    <2>4. req \in [Requests -> RequestType] /\ "done" \in Pcs /\ "find" \in Pcs /\ "write" \in Pcs
      BY DEF TypeOK, Pcs
    <2>5. CASE \E pc \in {"find", "write"} : req' = [req EXCEPT ![c].pc = pc]
      <3>1. PICK pc \in {"find", "write"} : req' = [req EXCEPT ![c].pc = pc]
        BY <2>5
      <3>2. pc \in Pcs
        BY <2>4
      <3>3. [req EXCEPT ![c].pc = pc] \in [Requests -> RequestType]
        BY <2>4, <3>2, UpdateTypes
      <3> QED BY <2>2, <3>1, <3>3 DEF TypeOK
    <2>6. CASE \E a \in {"ok", "404", "409", "500"} :
                  req' = [req EXCEPT ![c].pc = "done", ![c].answer = a]
      <3>1. PICK a \in {"ok", "404", "409", "500"} :
                    req' = [req EXCEPT ![c].pc = "done", ![c].answer = a]
        BY <2>6
      <3>2. [req EXCEPT ![c].pc = "done", ![c].answer = a] \in [Requests -> RequestType]
        BY <2>4, UpdateTypes
      <3> QED BY <2>2, <3>1, <3>2 DEF TypeOK
    <2> QED BY <2>3, <2>5, <2>6
  <1>3. ASSUME NEW c \in Requests, NEW op \in Batches, List(c, op) PROVE TypeOK'
    <2>1. [req EXCEPT ![c] = Started(op)] \in [Requests -> RequestType]
      BY StartedIs DEF TypeOK
    <2>2. \/ req' = [req EXCEPT ![c] = Started(op)]
          \/ req' = Disturb([req EXCEPT ![c] = Started(op)])
      BY <1>3, Zenon DEF List, Started
    <2>3. req' \in [Requests -> RequestType]
      <3> DEFINE f == [req EXCEPT ![c] = Started(op)]
      <3>1. f \in [Requests -> RequestType] /\ (req' = f \/ req' = Disturb(f))
        BY <2>1, <2>2
      <3> HIDE DEF f
      <3>2. Disturb(f) \in [Requests -> RequestType]
        BY <3>1, DisturbType
      <3> QED BY <3>1, <3>2
    <2> QED BY <1>3, <2>3 DEF List, TypeOK
  <1>4. ASSUME NEW c \in Requests, Analyze(c) PROVE TypeOK'
    <2>1. req' \in [Requests -> RequestType]
      <3>1. ASSUME NEW p \in Posts, Score(c, p) PROVE req' \in [Requests -> RequestType]
        <4>1. ActiveEngine \in Engines /\ "asking" \in Pcs /\ req \in [Requests -> RequestType]
          BY DEF ActiveEngine, Engines, Pcs, TypeOK
        <4>2. [req EXCEPT ![c].pc = "asking", ![c].todo = @ \ {p}, ![c].post = {p},
                          ![c].engine = ActiveEngine] \in [Requests -> RequestType]
          BY <4>1, UpdateTypes
        <4> QED BY <3>1, <4>2, Zenon DEF Score
      <3>2. ASSUME NEW ok \in BOOLEAN, Scored(c, ok) PROVE req' \in [Requests -> RequestType]
        <4>1. /\ (IF ok THEN req[c].engine ELSE "lexicon") \in Engines
              /\ (req[c].calm /\ ok) \in BOOLEAN
          BY DEF TypeOK, RequestType, Engines
        <4>2. req' = [req EXCEPT ![c].pc = "storing",
                                 ![c].engine = IF ok THEN req[c].engine ELSE "lexicon",
                                 ![c].calm = req[c].calm /\ ok]
          BY <3>2 DEF Scored
        <4>3. "storing" \in Pcs /\ req \in [Requests -> RequestType]
          BY DEF Pcs, TypeOK
        <4> DEFINE e == IF ok THEN req[c].engine ELSE "lexicon"
        <4> DEFINE b == req[c].calm /\ ok
        <4>4. e \in Engines /\ b \in BOOLEAN /\ req' = [req EXCEPT ![c].pc = "storing", ![c].engine = e, ![c].calm = b]
          BY <4>1, <4>2
        <4> HIDE DEF e, b
        <4>5. [req EXCEPT ![c].pc = "storing", ![c].engine = e, ![c].calm = b] \in [Requests -> RequestType]
          BY <4>3, <4>4, UpdateTypes
        <4> QED BY <4>4, <4>5
      <3>3. CASE Store(c)
        BY <3>3, UpdateTypes DEF Store, TypeOK, Pcs
      <3>4. CASE BatchAnswers(c)
        BY <3>4, UpdateTypes DEF BatchAnswers, Answers, TypeOK, Pcs
      <3> QED BY <1>4, <3>1, <3>2, <3>3, <3>4 DEF Analyze
    <2>2. by' \in [Posts -> Engines \cup {"none"}]
      <3>1. req[c].engine \in Engines
        BY DEF TypeOK, RequestType
      <3> QED BY <1>4, <3>1 DEF Analyze, Score, Scored, Store, BatchAnswers, TypeOK
    <2> QED BY <1>4, <2>1, <2>2 DEF Analyze, Score, Scored, Store, BatchAnswers, TypeOK
  <1>5. ASSUME NEW c \in Requests, StatementFails(c) PROVE TypeOK'
    BY <1>5, UpdateTypes DEF StatementFails, TypeOK, Pcs
  <1>6. ASSUME NEW p \in Posts, Publish(p) PROVE TypeOK'
    BY <1>6, DisturbType DEF Publish, TypeOK
  <1>7. ASSUME NEW value \in BOOLEAN, SetAiAnalysisEnabled(value) PROVE TypeOK'
    BY <1>7, DisturbType DEF SetAiAnalysisEnabled, TypeOK
  <1>8. CASE UNCHANGED vars
    BY <1>8 DEF vars, TypeOK
  <1> QED BY <1>1, <1>2, <1>3, <1>4, <1>5, <1>6, <1>7, <1>8 DEF Next, Request, Batches

----------------------------------------------------------------------------
(* What a step means for the engagements: nothing, or one request changes.   *)

Same(d) ==
    /\ req'[d].op = req[d].op /\ req'[d].pc = req[d].pc
    /\ req'[d].row = req[d].row /\ req'[d].answer = req[d].answer

Others(c) == \A d \in Requests \ {c} : Same(d)

OnePost == posted' = posted \/ \E p \in Posts : posted' = posted \cup {p}

Nothing == (\A d \in Requests : Same(d)) /\ rows' = rows /\ posted \subseteq posted' /\ OnePost

Asked(c) ==
    /\ Others(c) /\ req[c].pc = "idle" /\ rows' = rows /\ posted' = posted
    /\ req'[c].op \in {"add", "remove"} /\ req'[c].answer = "none"
    /\ req'[c].pc = IF req'[c].op = "add" THEN "exists" ELSE "find"
    /\ \E r \in Rows : req'[c].row = {r}

Moved(c) ==
    /\ Others(c) /\ rows' = rows /\ posted' = posted
    /\ req[c].op \in {"add", "remove"} /\ req'[c].op = req[c].op /\ req'[c].row = req[c].row
    /\ req[c].pc # "done"
    /\ \/ /\ req'[c].pc = "find" /\ req[c].op = "add" /\ Row(c)[3] \in posted
          /\ req'[c].answer = "none"
       \/ /\ req'[c].pc = "write" /\ req[c].pc = "find" /\ req'[c].answer = "none"
          /\ req[c].op = "remove" => Row(c) \in rows
       \/ req'[c].pc = "done" /\ req'[c].answer = "failed"
       \/ /\ req'[c].pc = "done" /\ req'[c].answer = "404"
          /\ \/ req[c].op = "add" /\ Row(c)[3] \notin posted
             \/ req[c].op = "remove" /\ Row(c) \notin rows
       \/ /\ req'[c].pc = "done" /\ req'[c].answer \in {"409", "500"}
          /\ req[c].op = "add" /\ Row(c) \in rows
       \/ /\ req'[c].pc = "done" /\ req'[c].answer = "500" /\ req[c].pc = "write"
          /\ req[c].op = "remove" /\ Row(c) \notin rows

Created(c) ==
    /\ Others(c) /\ posted' = posted /\ rows' = rows \cup {Row(c)} /\ Row(c) \notin rows
    /\ req[c].op = "add" /\ req[c].pc = "write" /\ req'[c].pc = "done"
    /\ req'[c].op = req[c].op /\ req'[c].row = req[c].row /\ req'[c].answer = "ok"

Deleted(c) ==
    /\ Others(c) /\ posted' = posted /\ rows' = rows \ {Row(c)} /\ Row(c) \in rows
    /\ req[c].op = "remove" /\ req[c].pc = "write" /\ req'[c].pc = "done"
    /\ req'[c].op = req[c].op /\ req'[c].row = req[c].row /\ req'[c].answer = "ok"

Batched(c) ==
    /\ Others(c) /\ rows' = rows /\ posted' = posted
    /\ req[c].pc # "done" /\ req[c].op \in Batches \cup {"none"} /\ req'[c].op \in Batches
    /\ req'[c].row = {} /\ req'[c].pc \in {"next", "asking", "storing", "done"}
    /\ req'[c].pc # "done" => req'[c].answer = "none"

LEMMA EngageSteps ==
    ASSUME TypeOK, \A c \in Requests : Shape(c), NEW c \in Requests, Engage(c)
    PROVE  Moved(c) \/ Created(c) \/ Deleted(c)
  <1>1. req \in [Requests -> RequestType] /\ req[c] \in RequestType /\ Shape(c)
    BY DEF TypeOK
  <1>2. req[c].answer = "none" /\ req[c].pc # "done" /\ req[c].op \in {"add", "remove"}
    BY <1>1 DEF Shape, Engage, EnsurePostExists, FindForAdd, Create, FindForRemove, Delete, At
  <1>3. ASSUME NEW pc, Goes(c, pc)
        PROVE  Others(c) /\ req'[c] = [req[c] EXCEPT !.pc = pc]
    BY <1>1, <1>3 DEF Goes, Others, Same
  <1>4. ASSUME NEW a, Answers(c, a)
        PROVE  Others(c) /\ req'[c] = [req[c] EXCEPT !.pc = "done", !.answer = a]
    BY <1>1, <1>4 DEF Answers, Others, Same
  <1>5. ASSUME NEW pc, req'[c] = [req[c] EXCEPT !.pc = pc]
        PROVE  /\ req'[c].pc = pc /\ req'[c].op = req[c].op /\ req'[c].row = req[c].row
               /\ req'[c].answer = req[c].answer
    BY <1>1, <1>5 DEF RequestType
  <1>6. ASSUME NEW a, req'[c] = [req[c] EXCEPT !.pc = "done", !.answer = a]
        PROVE  /\ req'[c].pc = "done" /\ req'[c].op = req[c].op /\ req'[c].row = req[c].row
               /\ req'[c].answer = a
    BY <1>1, <1>6 DEF RequestType
  <1>7. CASE EnsurePostExists(c)
    <2>1. CASE Row(c)[3] \in posted
      <3>1. Goes(c, "find") /\ UNCHANGED <<posted, rows>> /\ req[c].op = "add"
        BY <1>7, <2>1 DEF EnsurePostExists, At
      <3>2. Others(c) /\ req'[c] = [req[c] EXCEPT !.pc = "find"]
        BY <1>3, <3>1
      <3> QED BY <1>2, <1>5, <2>1, <3>1, <3>2 DEF Moved
    <2>2. CASE Row(c)[3] \notin posted
      <3>1. Answers(c, "404") /\ UNCHANGED <<posted, rows>> /\ req[c].op = "add"
        BY <1>7, <2>2 DEF EnsurePostExists, At
      <3>2. Others(c) /\ req'[c] = [req[c] EXCEPT !.pc = "done", !.answer = "404"]
        BY <1>4, <3>1
      <3> QED BY <1>2, <1>6, <2>2, <3>1, <3>2 DEF Moved
    <2> QED BY <2>1, <2>2
  <1>8. CASE FindForAdd(c)
    <2>1. CASE Row(c) \notin rows
      <3>1. Goes(c, "write") /\ UNCHANGED <<posted, rows>> /\ req[c].pc = "find" /\ req[c].op = "add"
        BY <1>8, <2>1 DEF FindForAdd, At
      <3>2. Others(c) /\ req'[c] = [req[c] EXCEPT !.pc = "write"]
        BY <1>3, <3>1
      <3> QED BY <1>2, <1>5, <3>1, <3>2 DEF Moved
    <2>2. CASE Row(c) \in rows
      <3>1. Answers(c, "409") /\ UNCHANGED <<posted, rows>> /\ req[c].op = "add"
        BY <1>8, <2>2 DEF FindForAdd, At
      <3>2. Others(c) /\ req'[c] = [req[c] EXCEPT !.pc = "done", !.answer = "409"]
        BY <1>4, <3>1
      <3> QED BY <1>2, <1>6, <2>2, <3>1, <3>2 DEF Moved
    <2> QED BY <2>1, <2>2
  <1>9. CASE FindForRemove(c)
    <2>1. CASE Row(c) \in rows
      <3>1. Goes(c, "write") /\ UNCHANGED <<posted, rows>> /\ req[c].pc = "find"
        BY <1>9, <2>1 DEF FindForRemove, At
      <3>2. Others(c) /\ req'[c] = [req[c] EXCEPT !.pc = "write"]
        BY <1>3, <3>1
      <3> QED BY <1>2, <1>5, <2>1, <3>1, <3>2 DEF Moved
    <2>2. CASE Row(c) \notin rows
      <3>1. Answers(c, "404") /\ UNCHANGED <<posted, rows>> /\ req[c].op = "remove"
        BY <1>9, <2>2 DEF FindForRemove, At
      <3>2. Others(c) /\ req'[c] = [req[c] EXCEPT !.pc = "done", !.answer = "404"]
        BY <1>4, <3>1
      <3> QED BY <1>2, <1>6, <2>2, <3>1, <3>2 DEF Moved
    <2> QED BY <2>1, <2>2
  <1>10. CASE Create(c)
    <2>1. /\ rows' = rows \cup {Row(c)} /\ posted' = posted
          /\ req[c].op = "add" /\ req[c].pc = "write"
      BY <1>10 DEF Create, At
    <2>2. CASE Row(c) \in rows
      <3>1. Answers(c, "500") /\ rows' = rows
        BY <1>10, <2>1, <2>2 DEF Create
      <3>2. Others(c) /\ req'[c] = [req[c] EXCEPT !.pc = "done", !.answer = "500"]
        BY <1>4, <3>1
      <3> QED BY <1>2, <1>6, <2>1, <2>2, <3>1, <3>2 DEF Moved
    <2>3. CASE Row(c) \notin rows
      <3>1. Answers(c, "ok")
        BY <1>10, <2>3 DEF Create
      <3>2. Others(c) /\ req'[c] = [req[c] EXCEPT !.pc = "done", !.answer = "ok"]
        BY <1>4, <3>1
      <3> QED BY <1>6, <2>1, <2>3, <3>2 DEF Created
    <2> QED BY <2>2, <2>3
  <1>11. CASE Delete(c)
    <2>1. /\ rows' = rows \ {Row(c)} /\ posted' = posted
          /\ req[c].op = "remove" /\ req[c].pc = "write"
      BY <1>11 DEF Delete, At
    <2>2. CASE Row(c) \notin rows
      <3>1. Answers(c, "500") /\ rows' = rows
        BY <1>11, <2>1, <2>2 DEF Delete
      <3>2. Others(c) /\ req'[c] = [req[c] EXCEPT !.pc = "done", !.answer = "500"]
        BY <1>4, <3>1
      <3> QED BY <1>2, <1>6, <2>1, <2>2, <3>1, <3>2 DEF Moved
    <2>3. CASE Row(c) \in rows
      <3>1. Answers(c, "ok")
        BY <1>11, <2>3 DEF Delete
      <3>2. Others(c) /\ req'[c] = [req[c] EXCEPT !.pc = "done", !.answer = "ok"]
        BY <1>4, <3>1
      <3> QED BY <1>6, <2>1, <2>3, <3>2 DEF Deleted
    <2> QED BY <2>2, <2>3
  <1> QED BY <1>7, <1>8, <1>9, <1>10, <1>11 DEF Engage

LEMMA AskSteps ==
    ASSUME TypeOK, NEW c \in Requests, NEW op \in {"add", "remove"}, NEW r \in Rows, Ask(c, op, r)
    PROVE  Asked(c)
  <1>1. req \in [Requests -> RequestType] /\ req[c] = Idle /\ UNCHANGED <<rows, posted>>
    BY DEF TypeOK, Ask
  <1> DEFINE pc == IF op = "add" THEN "exists" ELSE "find"
  <1>2. req' = [req EXCEPT ![c] = [Idle EXCEPT !.op = op, !.row = {r}, !.pc = pc]]
    BY <1>1 DEF Ask
  <1>3. req'[c] = [Idle EXCEPT !.op = op, !.row = {r}, !.pc = pc]
    BY <1>1, <1>2
  <1>4. req'[c].op = op /\ req'[c].row = {r} /\ req'[c].pc = pc /\ req'[c].answer = "none"
    BY <1>3 DEF Idle
  <1>5. Others(c)
    BY <1>1, <1>2 DEF Others, Same
  <1>6. req[c].pc = "idle"
    BY <1>1 DEF Idle
  <1> QED BY <1>1, <1>4, <1>5, <1>6 DEF Asked

LEMMA FailSteps ==
    ASSUME TypeOK, \A c \in Requests : Shape(c), NEW c \in Requests, StatementFails(c)
    PROVE  Moved(c) \/ Batched(c)
  <1>1. req \in [Requests -> RequestType] /\ req[c] \in RequestType /\ Shape(c)
    BY DEF TypeOK
  <1>2. req'[c] = [req[c] EXCEPT !.pc = "done", !.answer = "failed"]
    BY <1>1 DEF StatementFails
  <1>3. /\ req'[c].pc = "done" /\ req'[c].answer = "failed" /\ req'[c].op = req[c].op
        /\ req'[c].row = req[c].row
    BY <1>1, <1>2 DEF RequestType
  <1>4. Others(c) /\ rows' = rows /\ posted' = posted
    BY <1>1 DEF StatementFails, Others, Same
  <1>5. req[c].pc \in {"exists", "find", "write", "storing"}
    BY DEF StatementFails
  <1>6. CASE req[c].op \in {"add", "remove"}
    BY <1>3, <1>4, <1>5, <1>6 DEF Moved
  <1>7. CASE req[c].op \in Batches
    BY <1>1, <1>3, <1>4, <1>5, <1>7 DEF Batched, Shape
  <1>8. CASE req[c].op = "none"
    BY <1>1, <1>5, <1>8 DEF Shape
  <1> QED BY <1>1, <1>6, <1>7, <1>8 DEF RequestType, Batches

LEMMA DisturbSame ==
    ASSUME NEW f \in [Requests -> RequestType], NEW c \in Requests
    PROVE  /\ Disturb(f)[c].op = f[c].op /\ Disturb(f)[c].pc = f[c].pc
           /\ Disturb(f)[c].row = f[c].row /\ Disturb(f)[c].answer = f[c].answer
           /\ Disturb(f)[c].todo = f[c].todo /\ Disturb(f)[c].listed = f[c].listed
           /\ Disturb(f)[c].post = f[c].post /\ Disturb(f)[c].analyzed = f[c].analyzed
           /\ Disturb(f)[c].engine = f[c].engine
  <1>1. Disturb(f)[c] = f[c] \/ Disturb(f)[c] = [f[c] EXCEPT !.calm = FALSE]
    BY DisturbType
  <1> QED BY <1>1 DEF RequestType

LEMMA DisturbSteps ==
    ASSUME TypeOK, req' = Disturb(req), rows' = rows, OnePost
    PROVE  Nothing
  BY DisturbSame DEF Nothing, Same, TypeOK, OnePost

LEMMA ListSteps ==
    ASSUME TypeOK, NEW c \in Requests, NEW op \in Batches, List(c, op)
    PROVE  Batched(c)
  <1> DEFINE f == [req EXCEPT ![c] = Started(op)]
  <1>1. req' = f \/ req' = Disturb(f)
    BY Zenon DEF List, Started
  <1>2. /\ f \in [Requests -> RequestType] /\ f[c] = Started(op)
        /\ \A d \in Requests \ {c} : f[d] = req[d]
    BY StartedIs DEF TypeOK
  <1> HIDE DEF f
  <1>3. \A d \in Requests : /\ req'[d].op = f[d].op /\ req'[d].pc = f[d].pc
                            /\ req'[d].row = f[d].row /\ req'[d].answer = f[d].answer
    BY <1>1, <1>2, DisturbSame
  <1>4. Others(c)
    BY <1>2, <1>3 DEF Others, Same
  <1>5. /\ req'[c].op = op /\ req'[c].row = {} /\ req'[c].pc = "next" /\ req'[c].answer = "none"
    <2>1. /\ Started(op).op = op /\ Started(op).row = {} /\ Started(op).pc = "next"
          /\ Started(op).answer = "none"
      BY StartedIs
    <2>2. /\ req'[c].op = f[c].op /\ req'[c].pc = f[c].pc
          /\ req'[c].row = f[c].row /\ req'[c].answer = f[c].answer
      BY <1>3
    <2> QED BY <1>2, <2>1, <2>2
  <1>6. req[c].pc = "idle" /\ req[c].op = "none" /\ rows' = rows /\ posted' = posted
    BY DEF List, Idle
  <1> QED BY <1>4, <1>5, <1>6 DEF Batched

LEMMA AnalyzeSteps ==
    ASSUME TypeOK, \A c \in Requests : Shape(c), NEW c \in Requests, Analyze(c)
    PROVE  Batched(c)
  <1>1. req \in [Requests -> RequestType] /\ req[c] \in RequestType /\ Shape(c)
    BY DEF TypeOK
  <1>2. req[c].op \in Batches /\ req[c].pc # "done" /\ req[c].row = {} /\ req[c].answer = "none"
    BY <1>1 DEF Analyze, Score, Scored, Store, BatchAnswers, Batch, Batches, Shape
  <1>3. rows' = rows /\ posted' = posted
    BY DEF Analyze, Score, Scored, Store, BatchAnswers
  <1>4. Others(c)
    BY <1>1 DEF Analyze, Score, Scored, Store, BatchAnswers, Answers, Others, Same
  <1>5. /\ req'[c].op = req[c].op /\ req'[c].row = req[c].row
        /\ req'[c].pc \in {"next", "asking", "storing", "done"}
        /\ req'[c].pc # "done" => req'[c].answer = "none"
    <2>1. ASSUME NEW p \in Posts, Score(c, p)
          PROVE  /\ req'[c].op = req[c].op /\ req'[c].row = req[c].row
                 /\ req'[c].pc = "asking" /\ req'[c].answer = req[c].answer
      BY <1>1, <2>1 DEF Score, RequestType
    <2>2. ASSUME NEW ok \in BOOLEAN, Scored(c, ok)
          PROVE  /\ req'[c].op = req[c].op /\ req'[c].row = req[c].row
                 /\ req'[c].pc = "storing" /\ req'[c].answer = req[c].answer
      BY <1>1, <2>2 DEF Scored, RequestType
    <2>3. ASSUME Store(c)
          PROVE  /\ req'[c].op = req[c].op /\ req'[c].row = req[c].row
                 /\ req'[c].pc = "next" /\ req'[c].answer = req[c].answer
      BY <1>1, <2>3 DEF Store, RequestType
    <2>4. ASSUME BatchAnswers(c)
          PROVE  /\ req'[c].op = req[c].op /\ req'[c].row = req[c].row /\ req'[c].pc = "done"
      BY <1>1, <2>4 DEF BatchAnswers, Answers, RequestType
    <2> QED BY <1>2, <2>1, <2>2, <2>3, <2>4 DEF Analyze
  <1> QED BY <1>2, <1>3, <1>4, <1>5 DEF Batched

LEMMA StepsAre ==
    ASSUME TypeOK, \A c \in Requests : Shape(c), [Next]_vars
    PROVE  \/ Nothing
           \/ \E c \in Requests : Asked(c) \/ Moved(c) \/ Created(c) \/ Deleted(c) \/ Batched(c)
  <1>1. CASE UNCHANGED vars
    BY <1>1 DEF vars, Nothing, Same, OnePost
  <1>2. ASSUME NEW c \in Requests, Request(c)
        PROVE  Asked(c) \/ Moved(c) \/ Created(c) \/ Deleted(c) \/ Batched(c)
    BY <1>2, AskSteps, ListSteps, EngageSteps, AnalyzeSteps, FailSteps DEF Request, Batches
  <1>3. ASSUME NEW p \in Posts, Publish(p) PROVE Nothing
    <2>1. req' = Disturb(req) /\ rows' = rows /\ OnePost
      BY <1>3 DEF Publish, OnePost
    <2> QED BY <2>1, DisturbSteps
  <1>4. ASSUME NEW value \in BOOLEAN, SetAiAnalysisEnabled(value) PROVE Nothing
    <2>1. req' = Disturb(req) /\ rows' = rows /\ OnePost
      BY <1>4 DEF OnePost, SetAiAnalysisEnabled
    <2> QED BY <2>1, DisturbSteps
  <1> QED BY <1>1, <1>2, <1>3, <1>4 DEF Next

----------------------------------------------------------------------------
(* The answers of the engagements.                                           *)

LEMMA ShapeKept ==
    ASSUME TypeOK, \A c \in Requests : Shape(c), [Next]_vars
    PROVE  \A c \in Requests : Shape(c)'
  <1> SUFFICES ASSUME NEW d \in Requests PROVE Shape(d)'
    OBVIOUS
  <1>0. Shape(d)
    OBVIOUS
  <1>1. CASE Same(d)
    BY <1>0, <1>1 DEF Same, Shape
  <1>2. ASSUME NEW c \in Requests, Asked(c) PROVE Shape(d)'
    BY <1>0, <1>1, <1>2 DEF Asked, Others, Shape, Batches
  <1>3. ASSUME NEW c \in Requests, Moved(c) PROVE Shape(d)'
    <2>1. CASE d # c
      BY <1>1, <1>3, <2>1 DEF Moved, Others
    <2>2. CASE d = c
      BY <1>0, <1>3, <2>2 DEF Moved, Shape, Batches
    <2> QED BY <2>1, <2>2
  <1>4. ASSUME NEW c \in Requests, Created(c) \/ Deleted(c) PROVE Shape(d)'
    BY <1>0, <1>1, <1>4 DEF Created, Deleted, Others, Shape, Batches
  <1>5. ASSUME NEW c \in Requests, Batched(c) PROVE Shape(d)'
    BY <1>0, <1>1, <1>5 DEF Batched, Others, Shape, Batches
  <1> QED BY <1>1, <1>2, <1>3, <1>4, <1>5, StepsAre DEF Nothing

\* Whether a request is one of those that succeeded.
Counts(d, op, r) == req[d].op = op /\ req[d].row = {r} /\ req[d].answer = "ok"

LEMMA CountsIs == \A op, r : Succeeded(op, r) = {d \in Requests : Counts(d, op, r)}
  BY DEF Succeeded, Counts

LEMMA CountsIsNext == \A op, r : Succeeded(op, r)' = {d \in Requests : Counts(d, op, r)'}
  BY DEF Succeeded, Counts

LEMMA SameCounts ==
    ASSUME NEW d, Same(d), NEW op, NEW r
    PROVE  Counts(d, op, r)' <=> Counts(d, op, r)
  BY DEF Same, Counts

\* Success stays, and only a create and a delete that go through add to it.
LEMMA SucceededKept ==
    ASSUME \A c \in Requests : Shape(c), NEW op \in {"add", "remove"}, NEW r \in Rows,
           Nothing \/ \E c \in Requests : Asked(c) \/ Moved(c) \/ Batched(c)
    PROVE  Succeeded(op, r)' = Succeeded(op, r)
  <1>1. ASSUME NEW d \in Requests PROVE Counts(d, op, r)' <=> Counts(d, op, r)
    <2>1. CASE Same(d)
      BY <2>1, SameCounts
    <2>2. CASE Asked(d)
      BY <2>2 DEF Asked, Shape, Counts
    <2>3. CASE Moved(d)
      BY <2>3 DEF Moved, Shape, Counts
    <2>4. CASE Batched(d)
      BY <2>4 DEF Batched, Shape, Counts, Batches
    <2> QED BY <2>1, <2>2, <2>3, <2>4 DEF Nothing, Asked, Moved, Batched, Others
  <1> QED BY <1>1, CountsIs, CountsIsNext

LEMMA SucceededGrows ==
    ASSUME \A c \in Requests : Shape(c), NEW c \in Requests, Created(c) \/ Deleted(c),
           NEW k \in {"add", "remove"}, req[c].op = k, NEW r \in Rows, req[c].row = {r}
    PROVE  /\ c \notin Succeeded(k, r)
           /\ Succeeded(k, r)' = Succeeded(k, r) \cup {c}
           /\ \A op \in {"add", "remove"}, s \in Rows :
                 op # k \/ s # r => Succeeded(op, s)' = Succeeded(op, s)
  <1>1. Shape(c) /\ req[c].pc = "write"
    BY DEF Created, Deleted
  <1>2. req'[c].op = k /\ req'[c].row = {r} /\ req'[c].answer = "ok" /\ req[c].answer = "none"
    BY <1>1 DEF Created, Deleted, Shape
  <1>3. Counts(c, k, r)' /\ ~Counts(c, k, r)
    BY <1>2 DEF Counts
  <1>4. ASSUME NEW op, NEW s, op # k \/ s # r
        PROVE  ~Counts(c, op, s)' /\ ~Counts(c, op, s)
    BY <1>2, <1>4 DEF Counts
  <1>5. ASSUME NEW d \in Requests, d # c PROVE Same(d)
    BY <1>5 DEF Created, Deleted, Others
  <1>6. ASSUME NEW op, NEW s, NEW d \in Requests, d # c
        PROVE  Counts(d, op, s)' <=> Counts(d, op, s)
    BY <1>5, <1>6, SameCounts
  <1>7. Succeeded(k, r) = {d \in Requests : Counts(d, k, r)}
    BY CountsIs
  <1>8. Succeeded(k, r)' = {d \in Requests : Counts(d, k, r)'}
    BY CountsIsNext
  <1>9. \A d \in Requests : Counts(d, k, r)' <=> Counts(d, k, r) \/ d = c
    BY <1>3, <1>6
  <1>10. /\ c \notin Succeeded(k, r)
         /\ Succeeded(k, r)' = Succeeded(k, r) \cup {c}
    <2> HIDE DEF Counts
    <2> QED BY <1>3, <1>7, <1>8, <1>9
  <1>11. ASSUME NEW op \in {"add", "remove"}, NEW s \in Rows, op # k \/ s # r
         PROVE  Succeeded(op, s)' = Succeeded(op, s)
    <2>1. \A d \in Requests : Counts(d, op, s)' <=> Counts(d, op, s)
      BY <1>4, <1>6, <1>11
    <2>2. /\ Succeeded(op, s) = {d \in Requests : Counts(d, op, s)}
          /\ Succeeded(op, s)' = {d \in Requests : Counts(d, op, s)'}
      BY CountsIs, CountsIsNext
    <2> QED BY <2>1, <2>2
  <1> QED BY <1>10, <1>11

Balanced(r) ==
    Cardinality(Succeeded("add", r)) = Cardinality(Succeeded("remove", r)) + (IF r \in rows THEN 1 ELSE 0)

\* A request that lost a race, lost it to one that succeeded.
Loses(c) ==
    /\ req[c].answer \in {"409", "500"} /\ req[c].op = "add" => Succeeded("add", Row(c)) # {}
    /\ req[c].answer = "500" /\ req[c].op = "remove" => Succeeded("remove", Row(c)) # {}

LEMMA AddUpIs ==
    AnswersAddUp <=> /\ \A r \in Rows : Balanced(r)
                     /\ \A c \in Requests : Loses(c)
                     /\ \A r \in rows : r[3] \in posted
  BY DEF AnswersAddUp, Balanced, Loses

LEMMA AddUpIsNext ==
    AnswersAddUp' <=> /\ \A r \in Rows : Balanced(r)'
                      /\ \A c \in Requests : Loses(c)'
                      /\ \A r \in rows' : r[3] \in posted'
  BY DEF AnswersAddUp, Balanced, Loses

\* The row of an engagement.
LEMMA HasRow ==
    ASSUME NEW c \in Requests, Shape(c), req[c].op \in {"add", "remove"}
    PROVE  Row(c) \in Rows /\ req[c].row = {Row(c)}
  <1>1. PICK r \in Rows : req[c].row = {r}
    BY DEF Shape
  <1> QED BY <1>1, RowIs

LEMMA SameRow ==
    ASSUME NEW d, req'[d].row = req[d].row
    PROVE  Row(d)' = Row(d)
  BY DEF Row

LEMMA BalanceKept ==
    ASSUME TypeOK, \A c \in Requests : Shape(c), \A r \in Rows : Balanced(r), [Next]_vars,
           NEW r \in Rows
    PROVE  /\ Balanced(r)'
           /\ Succeeded("add", r) \subseteq Succeeded("add", r)'
           /\ Succeeded("remove", r) \subseteq Succeeded("remove", r)'
  <1>0. Balanced(r)
    OBVIOUS
  <1>1. ASSUME Succeeded("add", r)' = Succeeded("add", r),
               Succeeded("remove", r)' = Succeeded("remove", r), r \in rows' <=> r \in rows
        PROVE  Balanced(r)'
    BY <1>0, <1>1 DEF Balanced
  <1>2. CASE Nothing \/ \E c \in Requests : Asked(c) \/ Moved(c) \/ Batched(c)
    <2>1. /\ Succeeded("add", r)' = Succeeded("add", r)
          /\ Succeeded("remove", r)' = Succeeded("remove", r)
      BY <1>2, SucceededKept
    <2>2. rows' = rows
      BY <1>2 DEF Nothing, Asked, Moved, Batched
    <2> QED BY <1>1, <2>1, <2>2
  <1>3. ASSUME NEW c \in Requests, Created(c)
        PROVE  /\ Balanced(r)'
               /\ Succeeded("add", r) \subseteq Succeeded("add", r)'
               /\ Succeeded("remove", r) \subseteq Succeeded("remove", r)'
    <2>1. req[c].op = "add" /\ rows' = rows \cup {Row(c)} /\ Row(c) \notin rows
      BY <1>3 DEF Created
    <2>2. Row(c) \in Rows /\ req[c].row = {Row(c)}
      BY <2>1, HasRow
    <2>3. PICK s \in Rows : s = Row(c)
      BY <2>2
    <2>4. /\ c \notin Succeeded("add", s)
          /\ Succeeded("add", s)' = Succeeded("add", s) \cup {c}
          /\ \A op \in {"add", "remove"}, t \in Rows :
                op # "add" \/ t # s => Succeeded(op, t)' = Succeeded(op, t)
      BY <1>3, <2>1, <2>2, <2>3, SucceededGrows
    <2>5. CASE r = s
      <3>1. Cardinality(Succeeded("add", s)') = Cardinality(Succeeded("add", s)) + 1
        BY <2>4, SucceededFinite, FS_AddElement
      <3>2. Succeeded("remove", s)' = Succeeded("remove", s)
        BY <2>4
      <3>3. Cardinality(Succeeded("remove", s)) \in Nat
        BY SucceededFinite
      <3> QED BY <1>0, <2>1, <2>3, <2>4, <2>5, <3>1, <3>2, <3>3 DEF Balanced
    <2>6. CASE r # s
      <3>1. /\ Succeeded("add", r)' = Succeeded("add", r)
            /\ Succeeded("remove", r)' = Succeeded("remove", r)
        BY <2>4, <2>6
      <3> QED BY <1>1, <2>1, <2>3, <2>6, <3>1
    <2> QED BY <2>5, <2>6
  <1>4. ASSUME NEW c \in Requests, Deleted(c)
        PROVE  /\ Balanced(r)'
               /\ Succeeded("add", r) \subseteq Succeeded("add", r)'
               /\ Succeeded("remove", r) \subseteq Succeeded("remove", r)'
    <2>1. req[c].op = "remove" /\ rows' = rows \ {Row(c)} /\ Row(c) \in rows
      BY <1>4 DEF Deleted
    <2>2. Row(c) \in Rows /\ req[c].row = {Row(c)}
      BY <2>1, HasRow
    <2>3. PICK s \in Rows : s = Row(c)
      BY <2>2
    <2>4. /\ c \notin Succeeded("remove", s)
          /\ Succeeded("remove", s)' = Succeeded("remove", s) \cup {c}
          /\ \A op \in {"add", "remove"}, t \in Rows :
                op # "remove" \/ t # s => Succeeded(op, t)' = Succeeded(op, t)
      BY <1>4, <2>1, <2>2, <2>3, SucceededGrows
    <2>5. CASE r = s
      <3>1. Cardinality(Succeeded("remove", s)') = Cardinality(Succeeded("remove", s)) + 1
        BY <2>4, SucceededFinite, FS_AddElement
      <3>2. Succeeded("add", s)' = Succeeded("add", s)
        BY <2>4
      <3>3. Cardinality(Succeeded("remove", s)) \in Nat
        BY SucceededFinite
      <3> QED BY <1>0, <2>1, <2>3, <2>4, <2>5, <3>1, <3>2, <3>3 DEF Balanced
    <2>6. CASE r # s
      <3>1. /\ Succeeded("add", r)' = Succeeded("add", r)
            /\ Succeeded("remove", r)' = Succeeded("remove", r)
        BY <2>4, <2>6
      <3> QED BY <1>1, <2>1, <2>3, <2>6, <3>1
    <2> QED BY <2>5, <2>6
  <1>5. CASE Nothing \/ \E c \in Requests : Asked(c) \/ Moved(c) \/ Batched(c)
    BY <1>2, <1>5, SucceededKept
  <1> QED BY <1>2, <1>3, <1>4, <1>5, StepsAre

\* While the row is there, some add succeeded; once it is gone though one did, some remove did.
LEMMA WhoSucceeded ==
    ASSUME NEW r \in Rows, Balanced(r)
    PROVE  /\ r \in rows => Succeeded("add", r) # {}
           /\ r \notin rows /\ Succeeded("add", r) # {} => Succeeded("remove", r) # {}
  <1>1. Cardinality(Succeeded("add", r)) \in Nat /\ Cardinality(Succeeded("remove", r)) \in Nat
    BY SucceededFinite
  <1>2. /\ Succeeded("add", r) = {} <=> Cardinality(Succeeded("add", r)) = 0
        /\ Succeeded("remove", r) = {} <=> Cardinality(Succeeded("remove", r)) = 0
    BY SucceededFinite, FS_EmptySet
  <1> QED BY <1>1, <1>2 DEF Balanced

LEMMA LosesKept ==
    ASSUME TypeOK, \A c \in Requests : Shape(c), \A c \in Requests : Engaged(c), AnswersAddUp,
           [Next]_vars, NEW d \in Requests
    PROVE  Loses(d)' /\ Engaged(d)'
  <1>1. Shape(d) /\ Engaged(d) /\ Loses(d) /\ \A r \in Rows : Balanced(r)
    BY AddUpIs
  <1>2. ASSUME NEW r \in Rows
        PROVE  /\ Succeeded("add", r) # {} => Succeeded("add", r)' # {}
               /\ Succeeded("remove", r) # {} => Succeeded("remove", r)' # {}
    BY <1>1, BalanceKept
  <1>3. posted \subseteq posted'
    BY StepsAre DEF Nothing, Asked, Moved, Created, Deleted, Batched
  <1>9. Same(d) \/ Asked(d) \/ Moved(d) \/ Created(d) \/ Deleted(d) \/ Batched(d)
    BY StepsAre DEF Nothing, Asked, Moved, Created, Deleted, Batched, Others
  <1>4. CASE req[d].op \in {"add", "remove"} /\ Row(d)' = Row(d) /\ req'[d].op = req[d].op
    <2>1. Row(d) \in Rows /\ req[d].row = {Row(d)}
      BY <1>1, <1>4, HasRow
    <2>2. PICK r \in Rows : r = Row(d)
      BY <2>1
    <2>3. /\ Succeeded("add", r) # {} => Succeeded("add", r)' # {}
          /\ Succeeded("remove", r) # {} => Succeeded("remove", r)' # {}
      BY <1>2
    <2>4. /\ r \in rows => Succeeded("add", r) # {}
          /\ r \notin rows /\ Succeeded("add", r) # {} => Succeeded("remove", r) # {}
      BY <1>1, WhoSucceeded
    <2>5. /\ req[d].answer \in {"409", "500"} /\ req[d].op = "add" => Succeeded("add", r) # {}
          /\ req[d].answer = "500" /\ req[d].op = "remove" => Succeeded("remove", r) # {}
          /\ req[d].op = "add" /\ req[d].pc \in {"find", "write"} => r[3] \in posted
          /\ req[d].op = "remove" /\ req[d].pc = "write" => Succeeded("add", r) # {}
      BY <1>1, <2>2 DEF Loses, Engaged
    <2> DEFINE Kept == /\ req'[d].answer \in {"409", "500"} /\ req'[d].op = "add" => Succeeded("add", r)' # {}
                       /\ req'[d].answer = "500" /\ req'[d].op = "remove" => Succeeded("remove", r)' # {}
                       /\ req'[d].op = "add" /\ req'[d].pc \in {"find", "write"} => r[3] \in posted'
                       /\ req'[d].op = "remove" /\ req'[d].pc = "write" => Succeeded("add", r)' # {}
    <2>6. ASSUME Same(d) PROVE Kept
      BY <1>3, <2>3, <2>5, <2>6 DEF Same
    <2>7. ASSUME Moved(d) PROVE Kept
      <3>1. /\ req'[d].answer \in {"409", "500"} /\ req'[d].op = "add" => Succeeded("add", r) # {}
            /\ req'[d].answer = "500" /\ req'[d].op = "remove" => Succeeded("remove", r) # {}
            /\ req'[d].op = "add" /\ req'[d].pc \in {"find", "write"} => r[3] \in posted
            /\ req'[d].op = "remove" /\ req'[d].pc = "write" => Succeeded("add", r) # {}
        BY <2>2, <2>4, <2>5, <2>7 DEF Moved
      <3> QED BY <1>3, <2>3, <3>1
    <2>8. ASSUME Created(d) \/ Deleted(d) PROVE Kept
      BY <2>8 DEF Created, Deleted
    <2>9. ASSUME Asked(d) \/ Batched(d) PROVE Kept
      BY <1>1, <1>4, <2>9 DEF Asked, Batched, Batches, Shape
    <2>10. Kept
      <3> HIDE DEF Kept
      <3> QED BY <1>9, <2>6, <2>7, <2>8, <2>9
    <2>11. Row(d)' = r
      BY <1>4, <2>2
    <2> QED BY <2>10, <2>11 DEF Loses, Engaged
  <1>5. CASE req[d].op \in Batches \cup {"none"} /\ Same(d)
    BY <1>5 DEF Same, Loses, Engaged, Batches
  <1>6. CASE Asked(d)
    BY <1>6 DEF Asked, Loses, Engaged
  <1>7. CASE Batched(d)
    BY <1>7 DEF Batched, Loses, Engaged, Batches
  <1>8. CASE Same(d) \/ Moved(d) \/ Created(d) \/ Deleted(d)
    <2>1. req'[d].op = req[d].op /\ req'[d].row = req[d].row
      BY <1>8 DEF Same, Moved, Created, Deleted
    <2>2. req[d].op \in Batches => Same(d)
      BY <1>8 DEF Moved, Created, Deleted, Batches
    <2>3. req[d].op = "none" => Same(d)
      BY <1>8 DEF Moved, Created, Deleted
    <2>4. req[d].op \in {"add", "remove"} \cup Batches \cup {"none"}
      BY DEF TypeOK, RequestType, Batches
    <2> QED BY <1>4, <1>5, <2>1, <2>2, <2>3, <2>4, SameRow
  <1> QED BY <1>6, <1>7, <1>8, <1>9

LEMMA AnswersKept ==
    ASSUME TypeOK, \A c \in Requests : Shape(c), \A c \in Requests : Engaged(c), AnswersAddUp,
           [Next]_vars
    PROVE  AnswersAddUp' /\ \A c \in Requests : Engaged(c)'
  <1>1. /\ \A r \in Rows : Balanced(r)
        /\ \A r \in rows : r[3] \in posted
    BY AddUpIs
  <1>2. \A r \in Rows : Balanced(r)'
    BY <1>1, BalanceKept
  <1>3. \A c \in Requests : Loses(c)' /\ Engaged(c)'
    BY LosesKept
  <1>4. \A r \in rows' : r[3] \in posted'
    <2>1. posted \subseteq posted'
      BY StepsAre DEF Nothing, Asked, Moved, Created, Deleted, Batched
    <2>2. ASSUME NEW c \in Requests, Created(c) PROVE Row(c)[3] \in posted
      BY <2>2 DEF Created, Engaged
    <2>3. \/ rows' \subseteq rows
          \/ \E c \in Requests : Created(c) /\ rows' = rows \cup {Row(c)}
      BY StepsAre DEF Nothing, Asked, Moved, Created, Deleted, Batched
    <2> QED BY <1>1, <2>1, <2>2, <2>3
  <1> QED BY <1>2, <1>3, <1>4, AddUpIsNext

----------------------------------------------------------------------------
(* The batches.                                                              *)

Calm(c) ==
    req[c].calm =>
        /\ \A d \in Requests \ {c} : ~Batch(d)
        /\ req[c].engine = ActiveEngine
        /\ \A p \in Finished(c) : by[p] = ActiveEngine
        /\ req[c].op = "reanalyze" => req[c].listed = posted

Counted(c) ==
    /\ req[c].todo \subseteq req[c].listed
    /\ req[c].pc \in {"asking", "storing"} =>
          \E p \in req[c].listed \ req[c].todo : req[c].post = {p}
    /\ \A p \in Finished(c) : by[p] # "none"
    /\ req[c].analyzed = Cardinality(Finished(c))

LEMMA WorkingIs == \A c : Working(c) <=> (Batch(c) => Counted(c) /\ Calm(c))
  BY DEF Working, Counted, Calm

LEMMA WorkingIsNext == \A c : Working(c)' <=> (Batch(c)' => Counted(c)' /\ Calm(c)')
  BY DEF Working, Counted, Calm

\* The fields that tell what a batch has done.
SameBatch(d) ==
    /\ req'[d].op = req[d].op /\ req'[d].pc = req[d].pc /\ req'[d].engine = req[d].engine
    /\ req'[d].todo = req[d].todo /\ req'[d].post = req[d].post
    /\ req'[d].listed = req[d].listed /\ req'[d].analyzed = req[d].analyzed

LEMMA SameBatchIs ==
    ASSUME NEW d, SameBatch(d)
    PROVE  (Batch(d)' <=> Batch(d)) /\ Finished(d)' = Finished(d)
  BY DEF SameBatch, Batch, Finished

LEMMA CountedStays ==
    ASSUME NEW d, SameBatch(d), Counted(d), \A p \in Finished(d) : by[p] # "none" => by'[p] # "none"
    PROVE  Counted(d)'
  <1>1. Finished(d)' = Finished(d)
    BY SameBatchIs
  <1> QED BY <1>1 DEF SameBatch, Counted

\* A batch that is disturbed has nothing to keep but its count.
LEMMA DisturbedStays ==
    ASSUME TypeOK, NEW f \in [Requests -> RequestType], req' = Disturb(f), by' = by,
           NEW d \in Requests, f[d] = req[d], Working(d)
    PROVE  Working(d)'
  <1>1. CASE Batch(d)'
    <2>1. SameBatch(d)
      BY DisturbSame DEF SameBatch
    <2>2. Batch(d) /\ Counted(d)
      BY <1>1, <2>1, SameBatchIs, WorkingIs
    <2>3. Counted(d)'
      BY <2>1, <2>2, CountedStays
    <2>4. req'[d].calm = FALSE
      BY <2>2, DisturbType DEF Batch, Batches
    <2>5. Calm(d)'
      BY <2>4 DEF Calm
    <2> QED BY <2>3, <2>5, WorkingIsNext
  <1> QED BY <1>1, WorkingIsNext

\* A batch that goes on beside a step of another request.
LEMMA BesideStays ==
    ASSUME NEW d \in Requests, NEW e \in Requests \ {d}, \A x \in Requests \ {e} : req'[x] = req[x],
           Batch(e)' => Batch(e),
           UNCHANGED <<posted, toggle>>,
           \/ by' = by
           \/ Batch(e) /\ \A p \in Posts : by[p] # "none" => by'[p] # "none",
           Finished(d) \subseteq Posts, Working(d)
    PROVE  Working(d)'
  <1>1. CASE Batch(d)'
    <2>1. SameBatch(d) /\ req'[d].calm = req[d].calm
      BY DEF SameBatch
    <2>2. Batch(d) /\ Counted(d) /\ Calm(d)
      BY <1>1, <2>1, SameBatchIs, WorkingIs
    <2>3. Counted(d)'
      BY <2>1, <2>2, CountedStays
    <2>4. Calm(d)'
      <3>1. CASE ~req[d].calm
        BY <2>1, <3>1 DEF Calm
      <3>2. CASE req[d].calm
        <4>1. \A x \in Requests \ {d} : ~Batch(x)
          BY <2>2, <3>2 DEF Calm
        <4>2. by' = by
          BY <4>1
        <4>3. \A x \in Requests \ {d} : ~Batch(x)'
          BY <4>1 DEF Batch
        <4>4. ActiveEngine' = ActiveEngine
          BY DEF ActiveEngine
        <4>5. Finished(d)' = Finished(d)
          BY <2>1, SameBatchIs
        <4> QED BY <2>1, <2>2, <3>2, <4>2, <4>3, <4>4, <4>5 DEF Calm, SameBatch
      <3> QED BY <3>1, <3>2
    <2> QED BY <2>3, <2>4, WorkingIsNext
  <1> QED BY <1>1, WorkingIsNext

LEMMA FinishedPosts ==
    ASSUME TypeOK, NEW c \in Requests
    PROVE  Finished(c) \subseteq Posts /\ IsFiniteSet(Finished(c))
  <1>1. Finished(c) \subseteq Posts
    BY DEF Finished, TypeOK, RequestType
  <1> QED BY <1>1, FinitenessAssumption, FS_Subset

LEMMA ListWorks ==
    ASSUME TypeOK, \A d \in Requests : Working(d), NEW c \in Requests, NEW op \in Batches, List(c, op)
    PROVE  \A d \in Requests : Working(d)'
  <1> DEFINE f == [req EXCEPT ![c] = Started(op)]
  <1>1. /\ ((\A d \in Requests : ~Batch(d)) /\ req' = f) \/ req' = Disturb(f)
        /\ UNCHANGED <<posted, by, toggle>>
    BY Zenon DEF List, Started
  <1>2. /\ f \in [Requests -> RequestType] /\ f[c] = Started(op)
        /\ \A d \in Requests \ {c} : f[d] = req[d]
    BY StartedIs DEF TypeOK
  <1> HIDE DEF f
  <1>3. /\ req'[c].pc = "next" /\ req'[c].todo = Wanted(op) /\ req'[c].listed = Wanted(op)
        /\ req'[c].analyzed = 0 /\ req'[c].op = op /\ req'[c].engine = ActiveEngine
    <2>1. /\ Started(op).pc = "next" /\ Started(op).todo = Wanted(op) /\ Started(op).listed = Wanted(op)
          /\ Started(op).analyzed = 0 /\ Started(op).op = op /\ Started(op).engine = ActiveEngine
      BY StartedIs
    <2>2. /\ req'[c].pc = f[c].pc /\ req'[c].todo = f[c].todo /\ req'[c].listed = f[c].listed
          /\ req'[c].analyzed = f[c].analyzed /\ req'[c].op = f[c].op /\ req'[c].engine = f[c].engine
      BY <1>1, <1>2, DisturbSame
    <2> QED BY <1>2, <2>1, <2>2
  <1>4. Finished(c)' = {}
    BY <1>3 DEF Finished
  <1>5. Counted(c)'
    <2>1. Cardinality({}) = 0
      BY FS_EmptySet
    <2> QED BY <1>3, <1>4, <2>1 DEF Counted
  <1>6. ActiveEngine' = ActiveEngine
    BY <1>1 DEF ActiveEngine
  <1>7. CASE req' = Disturb(f)
    <2>1. req'[c].calm = FALSE
      <3>1. Started(op).op = op
        BY StartedIs
      <3>2. f[c].op \in Batches
        BY <1>2, <3>1
      <3> QED BY <1>2, <1>7, <3>2, DisturbType
    <2>2. Working(c)'
      BY <1>5, <2>1, WorkingIsNext DEF Calm
    <2>3. ASSUME NEW d \in Requests \ {c} PROVE Working(d)'
      BY <1>1, <1>2, <1>7, DisturbedStays
    <2> QED BY <2>2, <2>3
  <1>8. CASE (\A d \in Requests : ~Batch(d)) /\ req' = f
    <2>1. \A d \in Requests \ {c} : ~Batch(d)'
      BY <1>2, <1>8 DEF Batch
    <2>2. req'[c].op = "reanalyze" => req'[c].listed = posted'
      BY <1>1, <1>3 DEF Wanted, TypeOK
    <2>3. Calm(c)'
      BY <1>3, <1>4, <1>6, <2>1, <2>2 DEF Calm
    <2> QED BY <1>5, <2>1, <2>3, WorkingIsNext
  <1> QED BY <1>1, <1>7, <1>8

\* A batch changes its own record.
LEMMA BatchChanges ==
    ASSUME TypeOK, NEW c \in Requests, Analyze(c)
    PROVE  /\ \A d \in Requests \ {c} : req'[d] = req[d]
           /\ Batch(c) /\ UNCHANGED <<posted, toggle>>
           /\ by' = by \/ \A p \in Posts : by[p] # "none" => by'[p] # "none"
  <1>1. req \in [Requests -> RequestType]
    BY DEF TypeOK
  <1>2. /\ \A d \in Requests \ {c} : req'[d] = req[d]
        /\ Batch(c) /\ UNCHANGED <<posted, toggle>>
    BY <1>1 DEF Analyze, Score, Scored, Store, BatchAnswers, Answers
  <1>3. by' = by \/ \A p \in Posts : by[p] # "none" => by'[p] # "none"
    <2>1. req[c].engine # "none"
      BY <1>1 DEF RequestType, Engines
    <2> QED BY <2>1 DEF Analyze, Score, Scored, Store, BatchAnswers, TypeOK
  <1> QED BY <1>2, <1>3

LEMMA ScoreWorks ==
    ASSUME TypeOK, NEW c \in Requests, Working(c), NEW p \in Posts, Score(c, p),
           \A d \in Requests \ {c} : req'[d] = req[d]
    PROVE  Working(c)'
  <1>1. req \in [Requests -> RequestType] /\ req[c] \in RequestType
    BY DEF TypeOK
  <1>2. Batch(c) /\ Counted(c) /\ Calm(c) /\ req[c].pc = "next" /\ p \in req[c].todo
    BY WorkingIs DEF Score
  <1>3. /\ req'[c].pc = "asking" /\ req'[c].todo = req[c].todo \ {p} /\ req'[c].post = {p}
        /\ req'[c].engine = ActiveEngine /\ req'[c].op = req[c].op /\ req'[c].listed = req[c].listed
        /\ req'[c].analyzed = req[c].analyzed /\ req'[c].calm = req[c].calm
    BY <1>1 DEF Score, RequestType
  <1>4. UNCHANGED <<posted, by, toggle>> /\ ActiveEngine' = ActiveEngine
    BY DEF Score, ActiveEngine
  <1>5. Finished(c)' = Finished(c)
    BY <1>2, <1>3 DEF Finished, Counted
  <1>6. Counted(c)'
    BY <1>2, <1>3, <1>4, <1>5 DEF Counted
  <1>7. Calm(c)'
    BY <1>2, <1>3, <1>4, <1>5 DEF Calm, Batch
  <1> QED BY <1>6, <1>7, WorkingIsNext

LEMMA ScoredWorks ==
    ASSUME TypeOK, NEW c \in Requests, Working(c), NEW ok \in BOOLEAN, Scored(c, ok),
           \A d \in Requests \ {c} : req'[d] = req[d]
    PROVE  Working(c)'
  <1>1. req \in [Requests -> RequestType] /\ req[c] \in RequestType
    BY DEF TypeOK
  <1>2. Batch(c) /\ Counted(c) /\ Calm(c) /\ req[c].pc = "asking"
    BY WorkingIs DEF Scored
  <1>3. /\ req'[c].pc = "storing" /\ req'[c].todo = req[c].todo /\ req'[c].post = req[c].post
        /\ req'[c].op = req[c].op /\ req'[c].listed = req[c].listed
        /\ req'[c].analyzed = req[c].analyzed
        /\ req'[c].engine = IF ok THEN req[c].engine ELSE "lexicon"
        /\ req'[c].calm => req[c].calm /\ ok
    BY <1>1 DEF Scored, RequestType
  <1>4. UNCHANGED <<posted, by, toggle>> /\ ActiveEngine' = ActiveEngine
    BY DEF Scored, ActiveEngine
  <1>5. Finished(c)' = Finished(c)
    BY <1>2, <1>3 DEF Finished
  <1>6. Counted(c)'
    BY <1>2, <1>3, <1>4, <1>5 DEF Counted
  <1>7. Calm(c)'
    BY <1>2, <1>3, <1>4, <1>5 DEF Calm, Batch
  <1> QED BY <1>6, <1>7, WorkingIsNext

LEMMA StoreWorks ==
    ASSUME TypeOK, NEW c \in Requests, Working(c), Store(c),
           \A d \in Requests \ {c} : req'[d] = req[d]
    PROVE  Working(c)'
  <1>1. req \in [Requests -> RequestType] /\ req[c] \in RequestType
    BY DEF TypeOK
  <1>2. Batch(c) /\ Counted(c) /\ Calm(c) /\ req[c].pc = "storing"
    BY WorkingIs DEF Store
  <1>3. PICK p \in req[c].listed \ req[c].todo : req[c].post = {p}
    BY <1>2 DEF Counted
  <1>4. (CHOOSE x \in req[c].post : TRUE) = p /\ p \in Posts
    BY <1>1, <1>3, ChooseOnly DEF RequestType
  <1>5. by' = [by EXCEPT ![p] = req[c].engine] /\ UNCHANGED <<posted, toggle>>
    BY <1>4 DEF Store
  <1>6. /\ req'[c].pc = "next" /\ req'[c].todo = req[c].todo
        /\ req'[c].op = req[c].op /\ req'[c].listed = req[c].listed
        /\ req'[c].analyzed = req[c].analyzed + 1
        /\ req'[c].engine = req[c].engine /\ req'[c].calm = req[c].calm
    BY <1>1 DEF Store, RequestType
  <1>7. Finished(c)' = Finished(c) \cup {p} /\ p \notin Finished(c)
    BY <1>2, <1>3, <1>6 DEF Finished
  <1>8. req[c].engine \in Engines /\ Finished(c) \subseteq Posts /\ IsFiniteSet(Finished(c))
    BY <1>1, FinishedPosts DEF RequestType
  <1>9. by'[p] = req[c].engine /\ \A x \in Finished(c) : by'[x] = by[x]
    BY <1>4, <1>5, <1>7, <1>8 DEF TypeOK
  <1>10. Counted(c)'
    <2>1. Cardinality(Finished(c) \cup {p}) = Cardinality(Finished(c)) + 1
      BY <1>7, <1>8, FS_AddElement
    <2>2. req'[c].analyzed = Cardinality(Finished(c)')
      BY <1>2, <1>6, <1>7, <2>1 DEF Counted
    <2>3. \A x \in Finished(c)' : by'[x] # "none"
      BY <1>2, <1>7, <1>8, <1>9 DEF Counted, Engines
    <2> QED BY <1>2, <1>6, <2>2, <2>3 DEF Counted
  <1>11. Calm(c)'
    <2>1. ActiveEngine' = ActiveEngine
      BY <1>5 DEF ActiveEngine
    <2> QED BY <1>2, <1>5, <1>6, <1>7, <1>9, <2>1 DEF Calm, Batch
  <1> QED BY <1>10, <1>11, WorkingIsNext

LEMMA WorkingKept ==
    ASSUME TypeOK, \A c \in Requests : Shape(c), \A c \in Requests : Working(c), [Next]_vars
    PROVE  \A c \in Requests : Working(c)'
  <1>1. ASSUME NEW c \in Requests, Engage(c) \/ StatementFails(c) \/ (\E op \in {"add", "remove"}, r \in Rows : Ask(c, op, r))
        PROVE  \A d \in Requests : Working(d)'
    <2>1. req \in [Requests -> RequestType] /\ req[c] \in RequestType
      BY DEF TypeOK
    <2>2. \A d \in Requests \ {c} : req'[d] = req[d]
      BY <1>1, <2>1 DEF Engage, EnsurePostExists, FindForAdd, Create, FindForRemove, Delete, Ask,
                        StatementFails, Goes, Answers
    <2>3. UNCHANGED <<posted, by, toggle>>
      BY <1>1 DEF Engage, EnsurePostExists, FindForAdd, Create, FindForRemove, Delete, Ask,
                  StatementFails
    <2>4. ~Batch(c)'
      <3>1. CASE Engage(c)
        BY <3>1, EngageSteps DEF Moved, Created, Deleted, Batch
      <3>2. CASE StatementFails(c)
        BY <3>2, <2>1 DEF StatementFails, Batch, RequestType
      <3>3. CASE \E op \in {"add", "remove"}, r \in Rows : Ask(c, op, r)
        BY <3>3, AskSteps DEF Asked, Batch
      <3> QED BY <1>1, <3>1, <3>2, <3>3
    <2>5. ASSUME NEW d \in Requests \ {c} PROVE Working(d)'
      BY <2>2, <2>3, <2>4, FinishedPosts, BesideStays
    <2> QED BY <2>4, <2>5, WorkingIsNext
  <1>2. ASSUME NEW c \in Requests, Analyze(c)
        PROVE  \A d \in Requests : Working(d)'
    <2>1. /\ \A d \in Requests \ {c} : req'[d] = req[d]
          /\ Batch(c) /\ UNCHANGED <<posted, toggle>>
          /\ by' = by \/ \A p \in Posts : by[p] # "none" => by'[p] # "none"
      BY <1>2, BatchChanges
    <2>2. ASSUME NEW d \in Requests \ {c} PROVE Working(d)'
      BY <2>1, FinishedPosts, BesideStays
    <2>3. Working(c)'
      <3>1. CASE BatchAnswers(c)
        <4>1. ~Batch(c)'
          BY <3>1 DEF BatchAnswers, Answers, TypeOK, RequestType, Batch
        <4> QED BY <4>1, WorkingIsNext
      <3>2. CASE \E p \in Posts : Score(c, p)
        BY <2>1, <3>2, ScoreWorks
      <3>3. CASE \E ok \in BOOLEAN : Scored(c, ok)
        BY <2>1, <3>3, ScoredWorks
      <3>4. CASE Store(c)
        BY <2>1, <3>4, StoreWorks
      <3> QED BY <1>2, <3>1, <3>2, <3>3, <3>4 DEF Analyze
    <2> QED BY <2>2, <2>3
  <1>3. ASSUME req' = Disturb(req), by' = by
        PROVE  \A d \in Requests : Working(d)'
    BY <1>3, DisturbedStays DEF TypeOK
  <1>4. CASE UNCHANGED vars
    <2>1. ASSUME NEW d \in Requests PROVE Working(d)'
      BY <1>4 DEF vars, Working, Batch, Finished, ActiveEngine
    <2> QED BY <2>1
  <1>5. ASSUME NEW c \in Requests, Request(c)
        PROVE  \A d \in Requests : Working(d)'
    BY <1>1, <1>2, <1>5, ListWorks DEF Request, Batches
  <1>6. ASSUME (\E p \in Posts : Publish(p)) \/ \E value \in BOOLEAN : SetAiAnalysisEnabled(value)
        PROVE  \A d \in Requests : Working(d)'
    BY <1>3, <1>6 DEF Publish, SetAiAnalysisEnabled
  <1> QED BY <1>4, <1>5, <1>6 DEF Next

----------------------------------------------------------------------------
(* The theorems.                                                             *)

LEMMA InitInv == Init => Inv
  <1> SUFFICES ASSUME Init PROVE Inv
    OBVIOUS
  <1>1. TypeOK
    BY IdleType DEF Init, TypeOK
  <1>2. \A c \in Requests : req[c] = Idle
    BY DEF Init
  <1>3. \A c \in Requests : Shape(c) /\ Engaged(c) /\ Working(c)
    BY <1>2 DEF Idle, Shape, Engaged, Working, Batch, Batches
  <1>4. AnswersAddUp
    <2>1. \A r \in Rows : Succeeded("add", r) = {} /\ Succeeded("remove", r) = {}
      BY <1>2 DEF Idle, Succeeded
    <2>2. Cardinality({}) = 0 /\ rows = {}
      BY FS_EmptySet DEF Init
    <2>3. \A r \in Rows : Balanced(r)
      BY <2>1, <2>2 DEF Balanced
    <2>4. \A c \in Requests : Loses(c)
      BY <1>2 DEF Idle, Loses
    <2> QED BY <2>2, <2>3, <2>4, AddUpIs
  <1> QED BY <1>1, <1>3, <1>4 DEF Inv

LEMMA NextInv == Inv /\ [Next]_vars => Inv'
  <1> SUFFICES ASSUME Inv, [Next]_vars PROVE Inv'
    OBVIOUS
  <1>1. TypeOK /\ (\A c \in Requests : Shape(c)) /\ (\A c \in Requests : Engaged(c)) /\ AnswersAddUp
    BY DEF Inv
  <1>2. \A c \in Requests : Working(c)
    BY DEF Inv
  <1>3. TypeOK'
    BY <1>1, TypeKept
  <1>4. \A c \in Requests : Shape(c)'
    BY <1>1, ShapeKept
  <1>5. AnswersAddUp' /\ \A c \in Requests : Engaged(c)'
    BY <1>1, AnswersKept
  <1>6. \A c \in Requests : Working(c)'
    BY <1>1, <1>2, WorkingKept
  <1> QED BY <1>3, <1>4, <1>5, <1>6 DEF Inv

\* The inductive invariant holds in every reachable state.
THEOREM Invariant == Spec => []Inv
  BY InitInv, NextInv, PTL DEF Spec

\* The state of the service keeps its type: rows stay within the unique keys of the
\* likes and reposts tables, and every record of a request stays well formed.
THEOREM TypeCorrect == Spec => []TypeOK
  <1>1. Inv => TypeOK
    BY DEF Inv
  <1> QED BY <1>1, Invariant, PTL

\* For any number of clients racing for any number of posts: likes and unlikes of a row
\* that succeeded add up to the row, and a conflict or a lost race is answered only when
\* another request did succeed (engagementService.ts).
THEOREM EngagementsAddUp == Spec => []AnswersAddUp
  <1>1. Inv => AnswersAddUp
    BY DEF Inv
  <1> QED BY <1>1, Invariant, PTL

\* The action property, step by step.
Tells ==
    \A c \in Requests :
          Batch(c) /\ ~Batch(c)' /\ req'[c].answer = "ok" =>
              /\ \A p \in req[c].listed : by'[p] # "none"
              /\ req[c].analyzed = Cardinality(req[c].listed)
              /\ req[c].calm =>
                    /\ \A p \in req[c].listed : by'[p] = ActiveEngine'
                    /\ req[c].engine = ActiveEngine'
                    /\ req[c].op = "reanalyze" => req[c].listed = posted'

LEMMA OnlyItselfAnswers ==
    ASSUME TypeOK, \A c \in Requests : Shape(c), [Next]_vars, NEW d \in Requests,
           Batch(d), ~Batch(d)', req'[d].answer = "ok"
    PROVE  BatchAnswers(d)
  <1>1. req \in [Requests -> RequestType] /\ Shape(d)
    BY DEF TypeOK
  <1>2. CASE Same(d)
    BY <1>2 DEF Same, Batch
  <1>3. ASSUME NEW c \in Requests, Request(c) PROVE Same(d) \/ c = d
    <2>1. Others(c)
      BY <1>3, AskSteps, ListSteps, EngageSteps, AnalyzeSteps, FailSteps
         DEF Request, Batches, Asked, Moved, Created, Deleted, Batched
    <2> QED BY <2>1 DEF Others
  <1>4. CASE Request(d)
    <2>1. req[d].op \in Batches /\ req[d].pc # "done" /\ req[d].answer = "none"
      BY <1>1 DEF Batch, Batches, Shape
    <2>2. ~Engage(d)
      BY <2>1, EngageSteps DEF Moved, Created, Deleted, Batches
    <2>3. ~StatementFails(d)
      BY <1>1 DEF StatementFails, RequestType
    <2>4. req[d] # Idle
      BY <2>1 DEF Idle, Batches
    <2>5. ASSUME NEW p \in Posts PROVE ~Score(d, p)
      BY <1>1, <2>1 DEF Score, RequestType
    <2>6. ASSUME NEW ok \in BOOLEAN PROVE ~Scored(d, ok)
      BY <1>1, <2>1 DEF Scored, RequestType
    <2>7. ~Store(d)
      BY <1>1, <2>1 DEF Store, RequestType
    <2> QED BY <1>4, <2>2, <2>3, <2>4, <2>5, <2>6, <2>7 DEF Request, Ask, List, Analyze
  <1>5. ASSUME (\E p \in Posts : Publish(p)) \/ \E value \in BOOLEAN : SetAiAnalysisEnabled(value)
        PROVE  Same(d)
    BY <1>1, <1>5, DisturbSame DEF Publish, SetAiAnalysisEnabled, Same
  <1>6. CASE UNCHANGED vars
    BY <1>2, <1>6 DEF vars, Same
  <1> QED BY <1>2, <1>3, <1>4, <1>5, <1>6 DEF Next

LEMMA StepTells == Inv /\ [Next]_vars => Tells
  <1> SUFFICES ASSUME Inv, [Next]_vars, NEW c \in Requests,
                      Batch(c), ~Batch(c)', req'[c].answer = "ok"
               PROVE  /\ \A p \in req[c].listed : by'[p] # "none"
                      /\ req[c].analyzed = Cardinality(req[c].listed)
                      /\ req[c].calm =>
                            /\ \A p \in req[c].listed : by'[p] = ActiveEngine'
                            /\ req[c].engine = ActiveEngine'
                            /\ req[c].op = "reanalyze" => req[c].listed = posted'
    BY DEF Tells
  <1>1. BatchAnswers(c)
    BY OnlyItselfAnswers DEF Inv
  <1>2. Counted(c) /\ Calm(c)
    BY WorkingIs DEF Inv
  <1>3. UNCHANGED <<posted, by, toggle>> /\ req[c].pc = "next" /\ req[c].todo = {}
    BY <1>1 DEF BatchAnswers
  <1>4. Finished(c) = req[c].listed
    BY <1>3 DEF Finished
  <1>5. ActiveEngine' = ActiveEngine
    BY <1>3 DEF ActiveEngine
  <1> QED BY <1>2, <1>3, <1>4, <1>5 DEF Counted, Calm

\* For any posts and any number of requests: a batch that answers has analysed and counted
\* its whole list, and one that was let alone reports the engine that scored it
\* (sentimentService.ts, analyzePosts).
THEOREM BatchesTell == Spec => BatchTells
  <1>1. Inv /\ [Next]_vars => [Tells]_vars
    BY StepTells
  <1> QED BY <1>1, Invariant, PTL DEF Spec, BatchTells, Tells

----------------------------------------------------------------------------
(* Every engagement behaves as one step.                                     *)

\* A request the table sees as it was.
LEMMA SeenSame ==
    ASSUME NEW d, Same(d)
    PROVE  /\ Engaging(d)' <=> Engaging(d)
           /\ req'[d].op = req[d].op /\ req'[d].row = req[d].row /\ req'[d].answer = req[d].answer
  BY DEF Same, Engaging

\* When one request alone changes, so does its own entry alone.
LEMMA SeenOthers ==
    ASSUME TypeOK, TypeOK', NEW c \in Requests, Others(c), Engaging(c)'
    PROVE  /\ [d \in Requests |-> IF Engaging(d)' THEN req'[d].op ELSE "none"]
                 = [[d \in Requests |-> IF Engaging(d) THEN req[d].op ELSE "none"] EXCEPT ![c] = req'[c].op]
           /\ [d \in Requests |-> IF Engaging(d)' THEN req'[d].row ELSE {}]
                 = [[d \in Requests |-> IF Engaging(d) THEN req[d].row ELSE {}] EXCEPT ![c] = req'[c].row]
           /\ [d \in Requests |-> IF Engaging(d)' THEN req'[d].answer ELSE "none"]
                 = [[d \in Requests |-> IF Engaging(d) THEN req[d].answer ELSE "none"] EXCEPT ![c] = req'[c].answer]
  <1>1. \A d \in Requests \ {c} :
           /\ Engaging(d)' <=> Engaging(d)
           /\ req'[d].op = req[d].op /\ req'[d].row = req[d].row /\ req'[d].answer = req[d].answer
    BY SeenSame DEF Others
  <1> HIDE DEF Engaging
  <1> QED BY <1>1

LEMMA SeenAll ==
    ASSUME \A d \in Requests : Same(d)
    PROVE  UNCHANGED <<[d \in Requests |-> IF Engaging(d) THEN req[d].op ELSE "none"],
                       [d \in Requests |-> IF Engaging(d) THEN req[d].row ELSE {}],
                       [d \in Requests |-> IF Engaging(d) THEN req[d].answer ELSE "none"]>>
  <1>1. \A d \in Requests :
           /\ Engaging(d)' <=> Engaging(d)
           /\ req'[d].op = req[d].op /\ req'[d].row = req[d].row /\ req'[d].answer = req[d].answer
    BY SeenSame
  <1> QED BY <1>1

LEMMA SeenBatched ==
    ASSUME NEW c \in Requests, Batched(c)
    PROVE  UNCHANGED Table!vars
  <1>1. ~Engaging(c) /\ ~Engaging(c)'
    BY DEF Batched, Batches, Engaging
  <1>2. \A d \in Requests \ {c} :
           /\ Engaging(d)' <=> Engaging(d)
           /\ req'[d].op = req[d].op /\ req'[d].row = req[d].row /\ req'[d].answer = req[d].answer
    BY SeenSame DEF Batched, Others
  <1>3. posted' = posted /\ rows' = rows
    BY DEF Batched
  <1> HIDE DEF Engaging
  <1> QED BY <1>1, <1>2, <1>3 DEF Table!vars

\* A request is answered: the table sees the answer, and nothing else of the request.
LEMMA SeenAnswer ==
    ASSUME TypeOK, TypeOK', NEW c \in Requests, Others(c), posted' = posted, Engaging(c),
           req'[c].op = req[c].op, req'[c].row = req[c].row, req[c].answer = "none",
           NEW answers, req'[c].answer \in answers
    PROVE  Table!Answer(c, answers)
  <1>1. Engaging(c)'
    BY DEF Engaging
  <1> DEFINE asks == [d \in Requests |-> IF Engaging(d) THEN req[d].op ELSE "none"]
             about == [d \in Requests |-> IF Engaging(d) THEN req[d].row ELSE {}]
             reply == [d \in Requests |-> IF Engaging(d) THEN req[d].answer ELSE "none"]
  <1>2. /\ asks' = [asks EXCEPT ![c] = req'[c].op]
        /\ about' = [about EXCEPT ![c] = req'[c].row]
        /\ reply' = [reply EXCEPT ![c] = req'[c].answer]
    BY <1>1, SeenOthers
  <1>3. asks[c] = req[c].op /\ about[c] = req[c].row /\ reply[c] = req[c].answer
    OBVIOUS
  <1>4. /\ [asks EXCEPT ![c] = asks[c]] = asks /\ [about EXCEPT ![c] = about[c]] = about
    OBVIOUS
  <1>5. asks' = asks /\ about' = about
    BY <1>2, <1>3, <1>4
  <1>6. \E a \in answers : reply' = [reply EXCEPT ![c] = a]
    BY <1>2
  <1>7. reply[c] = "none"
    BY <1>3
  <1> QED BY <1>5, <1>6, <1>7 DEF Table!Answer

LEMMA AskSeen ==
    ASSUME TypeOK, TypeOK', \A d \in Requests : Shape(d), NEW c \in Requests, Asked(c)
    PROVE  Table!Next
  <1>1. PICK r \in Rows : req'[c].row = {r}
    BY DEF Asked
  <1>2. /\ req'[c].op \in {"add", "remove"} /\ req'[c].answer = "none" /\ Others(c)
        /\ rows' = rows /\ posted' = posted /\ req[c].pc = "idle"
    BY DEF Asked
  <1>3. ~Engaging(c) /\ Engaging(c)'
    BY <1>2 DEF Shape, Engaging
  <1> DEFINE asks == [d \in Requests |-> IF Engaging(d) THEN req[d].op ELSE "none"]
             about == [d \in Requests |-> IF Engaging(d) THEN req[d].row ELSE {}]
             reply == [d \in Requests |-> IF Engaging(d) THEN req[d].answer ELSE "none"]
  <1>4. /\ asks' = [asks EXCEPT ![c] = req'[c].op]
        /\ about' = [about EXCEPT ![c] = {r}]
        /\ reply' = [reply EXCEPT ![c] = req'[c].answer]
    BY <1>1, <1>2, <1>3, SeenOthers
  <1>5. asks[c] = "none" /\ reply[c] = "none"
    BY <1>3
  <1>6. [reply EXCEPT ![c] = reply[c]] = reply
    OBVIOUS
  <1>7. reply' = reply
    BY <1>2, <1>4, <1>5, <1>6
  <1>8. Table!Ask(c, req'[c].op, r)
    BY <1>2, <1>4, <1>5, <1>7 DEF Table!Ask
  <1> QED BY <1>2, <1>8 DEF Table!Next

\* Every answer is one of the table's, at the step that gives it.
LEMMA AnswerSeen ==
    ASSUME Inv, TypeOK', NEW c \in Requests, Moved(c) \/ Created(c) \/ Deleted(c)
    PROVE  Table!Next \/ UNCHANGED Table!vars
  <1>1. /\ Engaging(c) /\ req'[c].op = req[c].op /\ req'[c].row = req[c].row
        /\ posted' = posted /\ Others(c) /\ req[c].pc # "done"
    BY DEF Moved, Created, Deleted, Engaging
  <1>2. TypeOK /\ Shape(c) /\ Engaged(c)
    BY DEF Inv
  <1>3. req[c].answer = "none"
    BY <1>1, <1>2 DEF Shape
  <1>4. PICK r \in Rows : req[c].row = {r}
    BY <1>1, <1>2 DEF Shape, Engaging
  <1>5. Row(c) = r
    BY <1>4, RowIs
  <1> DEFINE asks == [d \in Requests |-> IF Engaging(d) THEN req[d].op ELSE "none"]
             about == [d \in Requests |-> IF Engaging(d) THEN req[d].row ELSE {}]
  <1>6. asks[c] = req[c].op /\ about[c] = {r} /\ [q \in Rows |-> q[3]][r] = r[3]
    BY <1>1, <1>4
  <1>7. ASSUME NEW answers, req'[c].answer \in answers PROVE Table!Answer(c, answers)
    BY <1>1, <1>2, <1>3, <1>7, SeenAnswer
  <1>8. CASE Created(c)
    <2>1. req[c].op = "add" /\ r \notin rows /\ rows' = rows \cup {r} /\ r[3] \in posted
      BY <1>2, <1>5, <1>8 DEF Created, Engaged
    <2>2. Table!Answer(c, {"ok"})
      BY <1>7, <1>8 DEF Created
    <2>3. Table!Add(c, r)
      BY <1>6, <2>1, <2>2 DEF Table!Add
    <2> QED BY <2>3 DEF Table!Next
  <1>9. CASE Deleted(c)
    <2>1. req[c].op = "remove" /\ r \in rows /\ rows' = rows \ {r}
      BY <1>5, <1>9 DEF Deleted
    <2>2. Table!Answer(c, {"ok"})
      BY <1>7, <1>9 DEF Deleted
    <2>3. Table!Remove(c, r)
      BY <1>6, <2>1, <2>2 DEF Table!Remove
    <2> QED BY <2>3 DEF Table!Next
  <1>10. CASE Moved(c) /\ req'[c].answer = "none"
    <2>1. \A d \in Requests :
             /\ Engaging(d)' <=> Engaging(d)
             /\ req'[d].op = req[d].op /\ req'[d].row = req[d].row /\ req'[d].answer = req[d].answer
      BY <1>1, <1>3, <1>10, SeenSame DEF Others, Engaging
    <2>2. rows' = rows
      BY <1>10 DEF Moved
    <2> HIDE DEF Engaging
    <2> QED BY <1>1, <2>1, <2>2 DEF Table!vars
  <1>11. CASE Moved(c) /\ req'[c].answer = "failed"
    <2>1. asks[c] # "none" /\ rows' = rows
      BY <1>1, <1>6, <1>11 DEF Engaging, Moved
    <2>2. Table!Answer(c, {"failed"})
      BY <1>7, <1>11
    <2>3. Table!Fail(c)
      BY <2>1, <2>2 DEF Table!Fail
    <2> QED BY <2>3 DEF Table!Next
  <1>12. CASE Moved(c) /\ req'[c].answer \in {"404", "409", "500"}
    <2>1. rows' = rows /\ req[c].op \in {"add", "remove"}
      BY <1>12 DEF Moved
    <2>2. CASE req[c].op = "add"
      <3>1. \/ req'[c].answer = "404" /\ r[3] \notin posted
            \/ req'[c].answer \in {"409", "500"} /\ r \in rows
        BY <1>5, <1>12, <2>2 DEF Moved
      <3>2. Table!Add(c, r)
        <4>1. CASE req'[c].answer = "404" /\ r[3] \notin posted
          <5>1. Table!Answer(c, {"404"})
            BY <1>7, <4>1
          <5> QED BY <1>6, <2>1, <2>2, <4>1, <5>1 DEF Table!Add
        <4>2. CASE req'[c].answer \in {"409", "500"} /\ r \in rows
          <5>1. Table!Answer(c, {"409", "500"})
            BY <1>7, <4>2
          <5> QED BY <1>6, <2>1, <2>2, <4>2, <5>1 DEF Table!Add
        <4> QED BY <3>1, <4>1, <4>2
      <3> QED BY <3>2 DEF Table!Next
    <2>3. CASE req[c].op = "remove"
      <3>1. req'[c].answer \in {"404", "500"} /\ r \notin rows
        BY <1>5, <1>12, <2>3 DEF Moved
      <3>2. Table!Answer(c, {"404", "500"})
        BY <1>7, <3>1
      <3>3. Table!Remove(c, r)
        BY <1>6, <2>1, <2>3, <3>1, <3>2 DEF Table!Remove
      <3> QED BY <3>3 DEF Table!Next
    <2> QED BY <2>1, <2>2, <2>3
  <1> QED BY <1>8, <1>9, <1>10, <1>11, <1>12 DEF Moved

LEMMA TableStep == Inv /\ [Next]_vars => [Table!Next]_(Table!vars)
  <1> SUFFICES ASSUME Inv, [Next]_vars PROVE Table!Next \/ UNCHANGED Table!vars
    OBVIOUS
  <1>1. TypeOK /\ TypeOK' /\ \A c \in Requests : Shape(c)
    BY NextInv DEF Inv
  <1>2. CASE Nothing
    <2>1. UNCHANGED <<[d \in Requests |-> IF Engaging(d) THEN req[d].op ELSE "none"],
                      [d \in Requests |-> IF Engaging(d) THEN req[d].row ELSE {}],
                      [d \in Requests |-> IF Engaging(d) THEN req[d].answer ELSE "none"], rows>>
      BY <1>2, SeenAll DEF Nothing
    <2>2. CASE posted' = posted
      BY <2>1, <2>2 DEF Table!vars
    <2>3. ASSUME NEW p \in Posts, posted' = posted \cup {p} PROVE Table!Publish(p)
      BY <2>1, <2>3 DEF Table!Publish
    <2> QED BY <1>2, <2>2, <2>3 DEF Nothing, OnePost, Table!Next
  <1>3. ASSUME NEW c \in Requests, Asked(c) PROVE Table!Next
    BY <1>1, <1>3, AskSeen
  <1>4. ASSUME NEW c \in Requests, Batched(c) PROVE UNCHANGED Table!vars
    BY <1>4, SeenBatched
  <1>5. ASSUME NEW c \in Requests, Moved(c) \/ Created(c) \/ Deleted(c)
        PROVE  Table!Next \/ UNCHANGED Table!vars
    BY <1>1, <1>5, AnswerSeen
  <1> QED BY <1>1, <1>2, <1>3, <1>4, <1>5, StepsAre

LEMMA TableInit == Init => Table!Init
  BY DEF Init, Idle, Engaging, Table!Init

\* Likes, reposts and their removal are linearizable: the check of the post, the check of
\* the row and the write of engagementService.ts, with other requests between them, are
\* to everybody else one step or none.
THEOREM Linearizable == Spec => EngagesAtOnce
  BY TableInit, TableStep, Invariant, PTL DEF Spec, EngagesAtOnce, Table!Spec

=============================================================================
