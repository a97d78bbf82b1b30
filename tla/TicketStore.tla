----------------------------- MODULE TicketStore -----------------------------
(***************************************************************************)
(* The support database (storage.py) under the REST API (main.py) and the MCP *)
(* server (mcp_server.py), two processes that share one SQLite file.  Every    *)
(* call opens a connection of its own.  SELECT runs outside any transaction;   *)
(* the first write opens one and holds the write lock to the commit, and what   *)
(* fails before it is rolled back when the connection is closed.  The REST API  *)
(* runs its calls in a pool of threads, the MCP server on its event loop.      *)
(***************************************************************************)
EXTENDS TicketRows

CONSTANTS
    Rest, Mcp,     \* the calls made of each process, one of each in its life
    Scores,        \* what score_sentiment may answer: subset of Values
    Patches,       \* the patches callers may send, each a function from some Fields
    MaxTickets,    \* bound of the model: the ids callers ask for
    MaxCrashes,    \* bound of the model: how often a process is killed
    NoCall

Calls == Rest \cup Mcp

AllPatches == UNION {[S -> Values \cup {Null}] : S \in SUBSET Fields}

ASSUME StoreAssumption ==
    /\ Rest \cap Mcp = {} /\ {NoCall, "system"} \cap Calls = {}
    /\ {"open", "medium", "keyword_v1"} \cup Scores \subseteq Values /\ Null \notin Values
    /\ Patches \subseteq AllPatches
    /\ MaxTickets \in Nat /\ MaxCrashes \in Nat

VARIABLES
    db,       \* what is committed: the tables tickets and log, and the two counters
    draft,    \* the same as the open transaction sees it
    writer,   \* the call whose transaction is open, NoCall if none
    pc,       \* where each call is
    ticket,   \* the ticket it is about
    patch,    \* the patch it carries
    row,      \* the ticket as it was selected, or as it is filed
    todo,     \* the fields of the patch it has not come to
    changed,  \* the fields it has found changed (set_clauses)
    crashes

local == <<ticket, patch, row, todo, changed>>
vars == <<db, draft, writer, pc, ticket, patch, row, todo, changed, crashes>>

NewTicket(score) ==
    [f \in Fields |-> CASE f = "status" -> "open"
                        [] f = "priority" -> "medium"
                        [] f = "sentiment" -> score
                        [] f = "sentiment_method" -> "keyword_v1"
                        [] OTHER -> Null]

\* init_db.
EmptyDb == [tickets |-> [t \in {} |-> Null], log |-> <<>>, lastTicket |-> 0, lastLog |-> 0]

Init ==
    /\ db = EmptyDb
    /\ draft = EmptyDb
    /\ writer = NoCall
    /\ pc = [c \in Calls |-> "idle"]
    /\ ticket = [c \in Calls |-> 0]
    /\ patch = [c \in Calls |-> [f \in {} |-> Null]]
    /\ row \in [Calls -> {NewTicket(s) : s \in Scores}]
    /\ todo = [c \in Calls |-> {}]
    /\ changed = [c \in Calls |-> {}]
    /\ crashes = 0

InFlight(c) == pc[c] \notin {"idle", "done", "missing", "failed", "lost"}

\* A tool of the MCP server is a plain function: its event loop runs one at a time.
MayStart(c) == pc[c] = "idle" /\ (c \in Mcp => \A d \in Mcp : ~InFlight(d))

GoTo(c, place) == pc' = [pc EXCEPT ![c] = place]

----------------------------------------------------------------------------
(* A connection.                                                             *)

\* A statement that writes: d is the database after it.
\* Mutant: every statement commits.
Execute_AutoCommit(c, d) ==
    /\ writer \in {NoCall, c}
    /\ db' = d /\ draft' = d
    /\ UNCHANGED writer
Execute(c, d) ==
    /\ writer \in {NoCall, c}
    /\ writer' = c
    /\ draft' = d
    /\ UNCHANGED db

\* The connection is closed without a commit, and the exception goes to the caller.
\* Mutants: the commit stands in the finally clause; the connection is not closed.
RollBack_Commit(c) ==
    /\ GoTo(c, "failed")
    /\ IF writer = c THEN writer' = NoCall /\ db' = draft /\ UNCHANGED draft
                     ELSE UNCHANGED <<db, draft, writer>>
RollBack_Open(c) == GoTo(c, "failed") /\ UNCHANGED <<db, draft, writer>>
RollBack(c) ==
    /\ GoTo(c, "failed")
    /\ IF writer = c THEN writer' = NoCall /\ draft' = db
                     ELSE UNCHANGED <<draft, writer>>
    /\ UNCHANGED db

\* Mutant of NextLog: the counter is read as it is committed.
NextLog_Committed == db.lastLog + 1
NextLog == draft.lastLog + 1

Entry(id, t, activity, from, to, method, actor) ==
    [id |-> id, ticket |-> t, activity |-> activity,
     from |-> from, to |-> to, method |-> method, actor |-> actor]

\* _write_log: the counter and the entry, in the transaction of the change.
WithEntry(e) == [draft EXCEPT !.lastLog = @ + 1, !.log = Append(@, e)]

Commit(c) ==
    /\ pc[c] = "commit"
    /\ db' = draft
    /\ writer' = NoCall
    /\ GoTo(c, "answer")
    /\ UNCHANGED <<draft, crashes>> /\ UNCHANGED local

\* The answer reaches the caller.
Answer(c) ==
    /\ pc[c] = "answer"
    /\ GoTo(c, "done")
    /\ UNCHANGED <<db, draft, writer, crashes>> /\ UNCHANGED local

----------------------------------------------------------------------------
(* create_ticket.                                                            *)

CallCreate(c) ==
    /\ MayStart(c)
    /\ \E s \in Scores : row' = [row EXCEPT ![c] = NewTicket(s)]
    /\ GoTo(c, "insert")
    /\ UNCHANGED <<db, draft, writer, ticket, patch, todo, changed, crashes>>

Insert(c) ==
    /\ pc[c] = "insert"
    /\ LET id == draft.lastTicket + 1 IN
       /\ ticket' = [ticket EXCEPT ![c] = id]
       /\ Execute(c, [draft EXCEPT !.lastTicket = id,
                                   !.tickets = [t \in DOMAIN @ \cup {id} |->
                                                   IF t = id THEN row[c] ELSE @[t]]])
    /\ GoTo(c, "created")
    /\ UNCHANGED <<patch, row, todo, changed, crashes>>

LogCreated(c) ==
    /\ pc[c] = "created"
    /\ Execute(c, WithEntry(Entry(NextLog, ticket[c], "created", Null, Null, Null, "system")))
    /\ GoTo(c, "scored")
    /\ UNCHANGED crashes /\ UNCHANGED local

LogScored(c) ==
    /\ pc[c] = "scored"
    /\ Execute(c, WithEntry(Entry(NextLog, ticket[c], "sentiment_scored", Null,
                                  row[c]["sentiment"], row[c]["sentiment_method"], "system")))
    /\ GoTo(c, "commit")
    /\ UNCHANGED crashes /\ UNCHANGED local

----------------------------------------------------------------------------
(* patch_ticket.                                                             *)

\* The MCP tool has no argument for the score, and what it is not given it omits.
Sendable(c) ==
    IF c \in Rest THEN Patches
    ELSE {p \in Patches : \A f \in DOMAIN p :
                             f \notin {"sentiment", "sentiment_method"} /\ p[f] # Null}

CallPatch(c, t, p) ==
    /\ MayStart(c)
    /\ ticket' = [ticket EXCEPT ![c] = t]
    /\ patch' = [patch EXCEPT ![c] = p]
    /\ GoTo(c, "select")
    /\ UNCHANGED <<db, draft, writer, row, todo, changed, crashes>>

\* The read of the ticket, outside the transaction that is to come.
Select(c) ==
    /\ pc[c] = "select"
    /\ IF ticket[c] \in DOMAIN db.tickets
       THEN /\ row' = [row EXCEPT ![c] = db.tickets[ticket[c]]]
            /\ todo' = [todo EXCEPT ![c] = DOMAIN patch[c]]
            /\ GoTo(c, "fields")
       ELSE /\ GoTo(c, "missing")
            /\ UNCHANGED <<row, todo>>
    /\ UNCHANGED <<db, draft, writer, ticket, patch, changed, crashes>>

\* f is the field the loop has come to.
AtField(c, f) ==
    /\ pc[c] = "fields"
    /\ f \in todo[c]
    /\ \E i \in 1..6 : FieldOrder[i] = f /\ \A j \in 1..(i - 1) : FieldOrder[j] \notin todo[c]
    /\ todo' = [todo EXCEPT ![c] = @ \ {f}]

Differs(c, f) == patch[c][f] # row[c][f]

\* Mutant: whether the score is patched, not whether it changes.
ScoredAnyway_Asked(c) == "sentiment" \in DOMAIN patch[c]
ScoredAnyway(c) == "sentiment" \in DOMAIN patch[c] /\ Differs(c, "sentiment")

\* The new method, unless there is none or it is null.
MethodFor(c) ==
    IF "sentiment_method" \in DOMAIN patch[c] /\ patch[c]["sentiment_method"] # Null
    THEN patch[c]["sentiment_method"] ELSE row[c]["sentiment_method"]

\* _build_details, and the details of a method that changes alone.  The actor is who
\* the caller says it is: here each call names itself.
EntryFor(id, c, f) ==
    Entry(id, ticket[c], Activity[f],
          IF f \in NotNull THEN row[c][f] ELSE Null,
          IF f = "sentiment_method" THEN row[c]["sentiment"] ELSE patch[c][f],
          CASE f = "sentiment" -> MethodFor(c)
            [] f = "sentiment_method" -> patch[c][f]
            [] OTHER -> Null,
          c)

SkipField(c, f) ==
    /\ AtField(c, f)
    /\ ~Differs(c, f)
    /\ UNCHANGED <<db, draft, writer, pc, ticket, patch, row, changed, crashes>>

\* A method that comes with a new score is in the entry of the score.
TakeMethod(c, f) ==
    /\ AtField(c, f)
    /\ Differs(c, f)
    /\ f = "sentiment_method" /\ ScoredAnyway(c)
    /\ changed' = [changed EXCEPT ![c] = @ \cup {f}]
    /\ UNCHANGED <<db, draft, writer, pc, ticket, patch, row, crashes>>

LogField(c, f) ==
    /\ AtField(c, f)
    /\ Differs(c, f)
    /\ ~(f = "sentiment_method" /\ ScoredAnyway(c))
    /\ changed' = [changed EXCEPT ![c] = @ \cup {f}]
    /\ Execute(c, WithEntry(EntryFor(NextLog, c, f)))
    /\ UNCHANGED <<pc, ticket, patch, row, crashes>>

AllFieldsDone(c) == pc[c] = "fields" /\ todo[c] = {}

NothingChanged(c) ==
    /\ AllFieldsDone(c)
    /\ changed[c] = {}
    /\ GoTo(c, "answer")
    /\ UNCHANGED <<db, draft, writer, crashes>> /\ UNCHANGED local

\* The row as UPDATE leaves it: the columns of set_clauses.
\* Mutant: all columns are written, from the selected row where they are not patched.
Updated_WholeRow(c) ==
    [f \in Fields |-> IF f \in changed[c] THEN patch[c][f] ELSE row[c][f]]
Updated(c) ==
    [f \in Fields |-> IF f \in changed[c] THEN patch[c][f] ELSE draft.tickets[ticket[c]][f]]

\* Mutant: the columns are nullable.
BreaksNotNull_Nullable(c) == FALSE
BreaksNotNull(c) == \E f \in changed[c] \cap NotNull : patch[c][f] = Null

Update(c) ==
    /\ AllFieldsDone(c)
    /\ changed[c] # {}
    /\ ~BreaksNotNull(c)
    /\ Execute(c, [draft EXCEPT !.tickets[ticket[c]] = Updated(c)])
    /\ GoTo(c, "commit")
    /\ UNCHANGED crashes /\ UNCHANGED local

\* IntegrityError: status or priority was patched to null.
UpdateRefused(c) ==
    /\ AllFieldsDone(c)
    /\ BreaksNotNull(c)
    /\ RollBack(c)
    /\ UNCHANGED crashes /\ UNCHANGED local

----------------------------------------------------------------------------

\* Any statement may raise: the lock was not free for five seconds, the disk is full.
StatementFails(c) ==
    /\ pc[c] \in {"insert", "created", "scored", "select", "fields", "commit"}
    /\ RollBack(c)
    /\ UNCHANGED crashes /\ UNCHANGED local

\* A process is killed; the next connection rolls its transaction back.
Crash(process) ==
    /\ crashes < MaxCrashes
    /\ crashes' = crashes + 1
    /\ pc' = [c \in Calls |-> IF c \in process /\ InFlight(c) THEN "lost" ELSE pc[c]]
    /\ IF writer \in process THEN writer' = NoCall /\ draft' = db
                             ELSE UNCHANGED <<draft, writer>>
    /\ UNCHANGED db /\ UNCHANGED local

Step(c) ==
    \/ Insert(c) \/ LogCreated(c) \/ LogScored(c)
    \/ Select(c)
    \/ \E f \in Fields : SkipField(c, f) \/ TakeMethod(c, f) \/ LogField(c, f)
    \/ NothingChanged(c) \/ Update(c) \/ UpdateRefused(c)
    \/ Commit(c) \/ Answer(c)

Next ==
    \/ \E c \in Calls :
          \/ CallCreate(c)
          \/ \E t \in 1..MaxTickets, p \in Sendable(c) : CallPatch(c, t, p)
          \/ Step(c) \/ StatementFails(c)
    \/ Crash(Rest) \/ Crash(Mcp)

Spec == Init /\ [][Next]_vars

\* A call that can go on does: threads and event loop are scheduled.  Nobody has to
\* call, and nothing has to fail.
FairSpec == Spec /\ \A c \in Calls : WF_vars(Step(c))

----------------------------------------------------------------------------
(* Properties                                                                *)

Entries ==
    [id : Nat \ {0}, ticket : Nat \ {0},
     activity : {"created"} \cup {Activity[f] : f \in Fields},
     from : Values \cup {Null}, to : Values \cup {Null}, method : Values \cup {Null},
     actor : Calls \cup {"system"}]

IsDb(d) ==
    /\ DOMAIN d = {"tickets", "log", "lastTicket", "lastLog"}
    /\ d.lastTicket \in Nat /\ d.lastLog \in Nat
    /\ d.log \in Seq(Entries) /\ d.lastLog = Len(d.log)
    /\ d.tickets \in [1..d.lastTicket -> Tickets]

TypeOK ==
    /\ IsDb(db) /\ IsDb(draft)
    /\ writer \in Calls \cup {NoCall}
    /\ pc \in [Calls -> {"idle", "insert", "created", "scored", "select", "fields", "commit",
                         "answer", "done", "missing", "failed", "lost"}]
    /\ ticket \in [Calls -> Nat]
    /\ patch \in [Calls -> AllPatches]
    /\ row \in [Calls -> Tickets]
    /\ todo \in [Calls -> SUBSET Fields] /\ changed \in [Calls -> SUBSET Fields]
    /\ crashes \in 0..MaxCrashes

About(i, t, activity) == db.log[i].ticket = t /\ db.log[i].activity = activity

\* A ticket is there with the entries of its filing or not at all, every entry is
\* about a ticket that is there, and the ids of the log are 1, 2, 3, ...  The entries
\* are those of create_ticket, "created" and "sentiment_scored"; the API document
\* (Customer_Support_API_Endpoints.md:35) speaks of the first only.
FiledWhole ==
    /\ \A t \in DOMAIN db.tickets :
          \E i \in DOMAIN db.log : About(i, t, "created") /\ i + 1 \in DOMAIN db.log
                                    /\ About(i + 1, t, "sentiment_scored")
    /\ \A i \in DOMAIN db.log : db.log[i].id = i /\ db.log[i].ticket \in DOMAIN db.tickets

\* "assignee and reply_message on the ticket itself are just a convenience snapshot":
\* the last entry about a field says what the ticket holds, stale reads or not.
SnapshotIsLastEntry ==
    \A t \in DOMAIN db.tickets, f \in Fields \ {"sentiment", "sentiment_method"} :
        \A i \in DOMAIN db.log :
            (About(i, t, Activity[f])
                /\ \A j \in DOMAIN db.log : j > i => ~About(j, t, Activity[f]))
            => db.log[i].to = db.tickets[t][f]

\* An error means that nothing was written, an answer that everything was: a caller
\* may send a failed patch again.
AnswerIsTrue ==
    \A c \in Calls :
        /\ pc[c] \in {"failed", "missing"} => \A i \in DOMAIN db.log : db.log[i].actor # c
        /\ pc[c] = "done" =>
              \A f \in changed[c] :
                  \E i \in DOMAIN db.log : db.log[i].actor = c /\ db.log[i].activity = Activity[f]

\* The database implements the ledger.
L == INSTANCE TicketLedger WITH tickets <- db.tickets, log <- db.log
Ledger == L!Spec

\* No call keeps the write lock, whatever becomes of it.
LockReleased == \A c \in Calls : (writer = c) ~> (writer # c)
=============================================================================
