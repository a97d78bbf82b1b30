---------------------------- MODULE SocialPosts ----------------------------
(***************************************************************************)
(* Concurrent requests to social_network: likes and reposts of the same post *)
(* (engagementService.ts) and batches of sentiment analysis over all posts    *)
(* (sentimentService.ts).  Node runs one step at a time, and every await of   *)
(* the database or of Claude lets the other requests in.                     *)
(***************************************************************************)
EXTENDS Naturals, FiniteSets

CONSTANTS
    Requests,    \* requests, each made at most once
    Users, Posts,
    Tables,      \* "likes" and "reposts", which have the same service
    HasKey       \* whether an Anthropic key is configured

Engines == {"lexicon", "claude"}
Rows == Tables \X Users \X Posts    \* @@id([userId, postId]) in each table

ASSUME KeyAssumption == HasKey \in BOOLEAN
ASSUME FinitenessAssumption == IsFiniteSet(Requests) /\ IsFiniteSet(Posts)

VARIABLES
    posted,   \* posts in the database
    rows,     \* rows in the likes and reposts tables
    by,       \* analyzedBy of each post, "none" while analyzedAt is null
    toggle,   \* aiAnalysisEnabled
    req       \* the requests

vars == <<posted, rows, by, toggle, req>>

\* row is what an engagement is about; todo and post are the rest of a batch's list and
\* its current post.  History: listed, the batch's whole list, and calm, whether it was
\* let alone so far.
Idle == [op |-> "none", pc |-> "idle", row |-> {}, answer |-> "none", todo |-> {}, post |-> {},
         engine |-> "lexicon", analyzed |-> 0, listed |-> {}, calm |-> TRUE]

Init ==
    /\ posted \in SUBSET Posts
    /\ rows = {}
    /\ by \in {f \in [Posts -> Engines \cup {"none"}] : \A p \in Posts \ posted : f[p] = "none"}
    /\ toggle \in BOOLEAN
    /\ req = [c \in Requests |-> Idle]

At(c, op, pc) == req[c].op = op /\ req[c].pc = pc
Goes(c, pc) == req' = [req EXCEPT ![c].pc = pc]
Answers(c, answer) == req' = [req EXCEPT ![c].pc = "done", ![c].answer = answer]
Row(c) == CHOOSE r \in req[c].row : TRUE

----------------------------------------------------------------------------
(* likePost and repostPost, unlikePost and unrepostPost.                     *)

Ask(c, op, r) ==
    /\ req[c] = Idle
    /\ req' = [req EXCEPT ![c].op = op, ![c].row = {r},
                          ![c].pc = IF op = "add" THEN "exists" ELSE "find"]
    /\ UNCHANGED <<posted, rows, by, toggle>>

\* Mutant: the post is not looked for.
EnsurePostExists_Not(c) ==
    At(c, "add", "exists") /\ Goes(c, "find") /\ UNCHANGED <<posted, rows, by, toggle>>
EnsurePostExists(c) ==
    /\ At(c, "add", "exists")
    /\ IF Row(c)[3] \in posted THEN Goes(c, "find") ELSE Answers(c, "404")
    /\ UNCHANGED <<posted, rows, by, toggle>>

FindForAdd(c) ==
    /\ At(c, "add", "find")
    /\ IF Row(c) \in rows THEN Answers(c, "409") ELSE Goes(c, "write")
    /\ UNCHANGED <<posted, rows, by, toggle>>

\* Mutant: an upsert, which never fails.
Create_Upsert(c) ==
    /\ At(c, "add", "write")
    /\ rows' = rows \cup {Row(c)} /\ Answers(c, "ok")
    /\ UNCHANGED <<posted, by, toggle>>
\* The unique index refuses a second row, with an error that is no AppError.
Create(c) ==
    /\ At(c, "add", "write")
    /\ rows' = rows \cup {Row(c)}
    /\ Answers(c, IF Row(c) \in rows THEN "500" ELSE "ok")
    /\ UNCHANGED <<posted, by, toggle>>

FindForRemove(c) ==
    /\ At(c, "remove", "find")
    /\ IF Row(c) \in rows THEN Goes(c, "write") ELSE Answers(c, "404")
    /\ UNCHANGED <<posted, rows, by, toggle>>

\* delete of a row that is gone raises as well.
Delete(c) ==
    /\ At(c, "remove", "write")
    /\ rows' = rows \ {Row(c)}
    /\ Answers(c, IF Row(c) \in rows THEN "ok" ELSE "500")
    /\ UNCHANGED <<posted, by, toggle>>

Engage(c) == EnsurePostExists(c) \/ FindForAdd(c) \/ Create(c) \/ FindForRemove(c) \/ Delete(c)

----------------------------------------------------------------------------
(* analyzePosts.                                                             *)

ActiveEngine == IF toggle /\ HasKey THEN "claude" ELSE "lexicon"

Batch(c) == req[c].op \in {"analyze", "reanalyze"} /\ req[c].pc # "done"

\* A new post, a switched toggle and a second batch disturb the batches that run.
Disturb(f) ==
    [c \in Requests |-> IF f[c].op \in {"analyze", "reanalyze"} THEN [f[c] EXCEPT !.calm = FALSE] ELSE f[c]]

\* Mutant of Wanted: reanalyze is not passed on.
Wanted_New(op) == {p \in posted : by[p] = "none"}
Wanted(op) == {p \in posted : op = "reanalyze" \/ by[p] = "none"}

\* The request, its findMany, and the first reading of the engine.
List(c, op) ==
    LET alone == \A d \in Requests : ~Batch(d)
        asked == [req EXCEPT ![c] = [Idle EXCEPT !.op = op, !.pc = "next", !.todo = Wanted(op),
                                                 !.listed = Wanted(op), !.engine = ActiveEngine]]
    IN  /\ req[c] = Idle
        /\ req' = IF alone THEN asked ELSE Disturb(asked)
        /\ UNCHANGED <<posted, rows, by, toggle>>

\* The loop takes the next post, and analyzeText reads the toggle.
Score(c, p) ==
    /\ Batch(c) /\ req[c].pc = "next" /\ p \in req[c].todo
    /\ req' = [req EXCEPT ![c].pc = "asking", ![c].todo = @ \ {p}, ![c].post = {p},
                          ![c].engine = ActiveEngine]
    /\ UNCHANGED <<posted, rows, by, toggle>>

\* The lexicon answers at once; Claude answers, or fails and the lexicon steps in.
Scored(c, ok) ==
    /\ Batch(c) /\ req[c].pc = "asking"
    /\ ~ok => req[c].engine = "claude"
    /\ req' = [req EXCEPT ![c].pc = "storing",
                          ![c].engine = IF ok THEN @ ELSE "lexicon",
                          ![c].calm = @ /\ ok]
    /\ UNCHANGED <<posted, rows, by, toggle>>

Store(c) ==
    /\ Batch(c) /\ req[c].pc = "storing"
    /\ by' = [by EXCEPT ![CHOOSE p \in req[c].post : TRUE] = req[c].engine]
    /\ req' = [req EXCEPT ![c].pc = "next", ![c].analyzed = @ + 1]
    /\ UNCHANGED <<posted, rows, toggle>>

BatchAnswers(c) ==
    /\ Batch(c) /\ req[c].pc = "next" /\ req[c].todo = {}
    /\ Answers(c, "ok")
    /\ UNCHANGED <<posted, rows, by, toggle>>

Analyze(c) ==
    \/ (\E p \in Posts : Score(c, p)) \/ (\E ok \in BOOLEAN : Scored(c, ok))
    \/ Store(c) \/ BatchAnswers(c)

----------------------------------------------------------------------------
(* The rest of the service, and failures.                                    *)

\* The database refuses a statement: nothing is written, and the answer is 500.
StatementFails(c) ==
    /\ req[c].pc \in {"exists", "find", "write", "storing"}
    /\ req' = [req EXCEPT ![c].pc = "done", ![c].answer = "failed"]
    /\ UNCHANGED <<posted, rows, by, toggle>>

Publish(p) ==
    /\ p \notin posted
    /\ posted' = posted \cup {p}
    /\ req' = Disturb(req)
    /\ UNCHANGED <<rows, by, toggle>>

SetAiAnalysisEnabled(value) ==
    /\ toggle' = value /\ toggle # value
    /\ req' = Disturb(req)
    /\ UNCHANGED <<posted, rows, by>>

Request(c) ==
    \/ \E op \in {"add", "remove"}, r \in Rows : Ask(c, op, r)
    \/ \E op \in {"analyze", "reanalyze"} : List(c, op)
    \/ Engage(c) \/ Analyze(c) \/ StatementFails(c)

Next ==
    \/ \E c \in Requests : Request(c)
    \/ \E p \in Posts : Publish(p)
    \/ \E value \in BOOLEAN : SetAiAnalysisEnabled(value)

Spec == Init /\ [][Next]_vars

----------------------------------------------------------------------------
(* Properties.                                                               *)

RequestType ==
    [op : {"none", "add", "remove", "analyze", "reanalyze"},
     pc : {"idle", "exists", "find", "write", "next", "asking", "storing", "done"},
     row : {{}} \cup {{r} : r \in Rows}, answer : {"none", "ok", "404", "409", "500", "failed"},
     todo : SUBSET Posts, post : {{}} \cup {{p} : p \in Posts}, engine : Engines,
     analyzed : Nat, listed : SUBSET Posts, calm : BOOLEAN]

TypeOK ==
    /\ posted \subseteq Posts
    /\ rows \subseteq Rows
    /\ by \in [Posts -> Engines \cup {"none"}]
    /\ toggle \in BOOLEAN
    /\ req \in [Requests -> RequestType]

Succeeded(op, r) == {c \in Requests : req[c].op = op /\ req[c].row = {r} /\ req[c].answer = "ok"}

\* However requests about one row race, their answers add up to it (engagementService.ts):
\* successful likes and unlikes alternate, so that one more like than unlike succeeded
\* exactly when the row is there; and a 409, or the 500 of a lost race, is answered
\* only when another request did succeed.  No row is about a post that does not exist.
AnswersAddUp ==
    /\ \A r \in Rows :
          Cardinality(Succeeded("add", r))
              = Cardinality(Succeeded("remove", r)) + (IF r \in rows THEN 1 ELSE 0)
    /\ \A c \in Requests :
          /\ req[c].answer \in {"409", "500"} /\ req[c].op = "add" => Succeeded("add", Row(c)) # {}
          /\ req[c].answer = "500" /\ req[c].op = "remove" => Succeeded("remove", Row(c)) # {}
    /\ \A r \in rows : r[3] \in posted

Engaging(c) == req[c].op \in {"add", "remove"}
Table == INSTANCE Engagements
    WITH Marks <- Rows, PostOf <- [r \in Rows |-> r[3]], marks <- rows,
         asks <- [c \in Requests |-> IF Engaging(c) THEN req[c].op ELSE "none"],
         about <- [c \in Requests |-> IF Engaging(c) THEN req[c].row ELSE {}],
         reply <- [c \in Requests |-> IF Engaging(c) THEN req[c].answer ELSE "none"]

\* engagementService.ts looks for the post and for the row and then writes, three
\* statements other requests get in between, and yet each request behaves as one
\* step: a success changed the row, a refusal was right at that moment, and a failure
\* left the table alone.
EngagesAtOnce == Table!Spec

\* What a batch answers is so (sentimentService.ts, analyzePosts).  Every post of its list
\* has been analysed and counted, whoever else was at it.  Let alone (no new post, no
\* switch, no second batch, no failure of Claude), a batch leaves its posts scored by the
\* engine it reports, which is the active one, and reanalyze leaves no post out.
BatchTells ==
    [][\A c \in Requests :
          Batch(c) /\ ~Batch(c)' /\ req'[c].answer = "ok" =>
              /\ \A p \in req[c].listed : by'[p] # "none"
              /\ req[c].analyzed = Cardinality(req[c].listed)
              /\ req[c].calm =>
                    /\ \A p \in req[c].listed : by'[p] = ActiveEngine'
                    /\ req[c].engine = ActiveEngine'
                    /\ req[c].op = "reanalyze" => req[c].listed = posted']_vars
=============================================================================
