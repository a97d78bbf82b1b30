-------------------------- MODULE TicketStoreProofs --------------------------
(***************************************************************************)
(* Theorems about TicketStore, for any calls, patches and values, and any     *)
(* number of kills.                                                          *)
(*                                                                           *)
(* The argument is about the open transaction: what its log has behind the     *)
(* committed one, and how its tickets differ from the committed ones.  The     *)
(* two agree at the commit, and the write lock keeps the committed database    *)
(* as it was when the transaction was opened.                                *)
(***************************************************************************)
EXTENDS TicketStore, SequenceTheorems, FiniteSetTheorems, TLAPS

\* The two kinds of calls that may hold the write lock.
Creating(c) == pc[c] \in {"created", "scored"} \/ (pc[c] = "commit" /\ changed[c] = {})
Patching(c) == pc[c] = "fields" \/ (pc[c] = "commit" /\ changed[c] # {})

\* The entries of the open transaction.
Fresh == (Len(db.log) + 1)..Len(draft.log)

\* Who holds the lock, by where it is.
LockInv(c) ==
    /\ pc[c] \in {"created", "scored", "commit"} => writer = c
    /\ pc[c] = "fields" => (changed[c] # {} <=> writer = c)
    /\ writer = c => Creating(c) \/ Patching(c)
    /\ pc[c] \in {"idle", "insert", "created", "scored", "select", "missing"} => changed[c] = {}
    /\ changed[c] \subseteq DOMAIN patch[c]

\* What the loop over the patch has found so far.
LoopInv(c) ==
    Patching(c) =>
        /\ ticket[c] \in DOMAIN db.tickets
        /\ todo[c] \subseteq DOMAIN patch[c]
        /\ \A f \in DOMAIN patch[c] \ todo[c] : Differs(c, f) <=> f \in changed[c]
        /\ changed[c] \cap todo[c] = {}
        /\ pc[c] = "commit" => todo[c] = {} /\ ~BreaksNotNull(c)

CreatedEntry(id, c) == Entry(id, ticket[c], "created", Null, Null, Null, "system")
ScoredEntry(id, c) ==
    Entry(id, ticket[c], "sentiment_scored", Null, row[c]["sentiment"],
          row[c]["sentiment_method"], "system")

\* The transaction of a create.
CreateInv(c) ==
    Creating(c) =>
        /\ ticket[c] = db.lastTicket + 1 /\ draft.lastTicket = ticket[c]
        /\ draft.tickets = [t \in DOMAIN db.tickets \cup {ticket[c]} |->
                               IF t = ticket[c] THEN row[c] ELSE db.tickets[t]]
        /\ pc[c] = "created" => Len(draft.log) = Len(db.log)
        /\ pc[c] = "scored" => Len(draft.log) = Len(db.log) + 1
        /\ pc[c] = "commit" => Len(draft.log) = Len(db.log) + 2
        /\ pc[c] # "created" => draft.log[Len(db.log) + 1] = CreatedEntry(Len(db.log) + 1, c)
        /\ pc[c] = "commit" => draft.log[Len(db.log) + 2] = ScoredEntry(Len(db.log) + 2, c)

\* The method is in the entry of the score, and has none of its own.
InScore(c, f) == f = "sentiment_method" /\ ScoredAnyway(c)

Patched(c) ==
    [db.tickets EXCEPT ![ticket[c]] =
        [f \in Fields |-> IF f \in changed[c] THEN patch[c][f] ELSE db.tickets[ticket[c]][f]]]

\* The transaction of a patch.
PatchInv(c) ==
    writer = c /\ Patching(c) =>
        /\ draft.lastTicket = db.lastTicket
        /\ draft.tickets = IF pc[c] = "fields" THEN db.tickets ELSE Patched(c)
        /\ \A i \in Fresh : \E f \in changed[c] :
              ~InScore(c, f) /\ draft.log[i] = EntryFor(i, c, f)
        /\ \A f \in changed[c] :
              InScore(c, f) \/ \E i \in Fresh : draft.log[i] = EntryFor(i, c, f)

\* What the committed log says of a call's outcome.
ActorInv(c) ==
    /\ \A i \in DOMAIN db.log : db.log[i].actor = c => pc[c] \in {"answer", "done", "lost"}
    /\ pc[c] \in {"answer", "done"} =>
          \A f \in changed[c] : \E i \in DOMAIN db.log :
              db.log[i].actor = c /\ db.log[i].activity = Activity[f]

\* The transaction goes on where the committed log ends.
DraftInv ==
    /\ Len(draft.log) >= Len(db.log)
    /\ \A i \in 1..Len(db.log) : draft.log[i] = db.log[i]
    /\ \A i \in 1..Len(draft.log) : draft.log[i].id = i
    /\ writer = NoCall => draft = db

OfCall(c) == LockInv(c) /\ LoopInv(c) /\ CreateInv(c) /\ PatchInv(c) /\ ActorInv(c)

Inv ==
    /\ TypeOK
    /\ DraftInv
    /\ \A c \in Calls : OfCall(c)
    /\ FiledWhole /\ SnapshotIsLastEntry

----------------------------------------------------------------------------
(* The operators.                                                            *)

LEMMA FieldFacts ==
    /\ Fields = {"status", "priority", "sentiment", "sentiment_method", "assignee",
                 "reply_message"}
    /\ \A i \in 1..6 : FieldOrder[i] \in Fields
    /\ Activity["status"] = "status_changed" /\ Activity["priority"] = "priority_changed"
    /\ Activity["sentiment"] = "sentiment_scored"
    /\ Activity["sentiment_method"] = "sentiment_scored"
    /\ Activity["assignee"] = "assigned" /\ Activity["reply_message"] = "replied"
  <1>1. /\ FieldOrder[1] = "status" /\ FieldOrder[2] = "priority" /\ FieldOrder[3] = "sentiment"
        /\ FieldOrder[4] = "sentiment_method" /\ FieldOrder[5] = "assignee"
        /\ FieldOrder[6] = "reply_message"
    BY DEF FieldOrder
  <1>2. 1..6 = {1, 2, 3, 4, 5, 6}
    OBVIOUS
  <1>3. Fields = {"status", "priority", "sentiment", "sentiment_method", "assignee",
                  "reply_message"}
    BY <1>1, <1>2 DEF Fields
  <1> QED BY <1>1, <1>2, <1>3 DEF Activity

LEMMA PatchFacts ==
    ASSUME NEW p \in AllPatches, NEW f \in DOMAIN p
    PROVE  f \in Fields /\ p[f] \in Values \cup {Null}
  BY DEF AllPatches

LEMMA RowFacts ==
    ASSUME NEW r \in Tickets, NEW f \in Fields
    PROVE  r[f] \in Values \cup {Null} /\ (f \in NotNull => r[f] # Null)
  BY DEF Tickets

LEMMA NewTicketType ==
    ASSUME NEW s \in Scores
    PROVE  NewTicket(s) \in Tickets
  <1>1. s \in Values /\ {"open", "medium", "keyword_v1"} \subseteq Values /\ Null \notin Values
    BY StoreAssumption
  <1>2. NewTicket(s) \in [Fields -> Values \cup {Null}]
    BY <1>1, FieldFacts DEF NewTicket
  <1>3. \A f \in NotNull : NewTicket(s)[f] # Null
    BY <1>1, FieldFacts DEF NewTicket, NotNull
  <1> QED BY <1>2, <1>3 DEF Tickets

LEMMA EntryFacts ==
    ASSUME NEW id, NEW t, NEW activity, NEW from, NEW to, NEW method, NEW actor
    PROVE  LET e == Entry(id, t, activity, from, to, method, actor)
           IN  /\ e.id = id /\ e.ticket = t /\ e.activity = activity /\ e.from = from
               /\ e.to = to /\ e.method = method /\ e.actor = actor
  BY DEF Entry

LEMMA EntryType ==
    ASSUME NEW id \in Nat \ {0}, NEW t \in Nat \ {0},
           NEW activity \in {"created"} \cup {Activity[f] : f \in Fields},
           NEW from \in Values \cup {Null}, NEW to \in Values \cup {Null},
           NEW method \in Values \cup {Null}, NEW actor \in Calls \cup {"system"}
    PROVE  Entry(id, t, activity, from, to, method, actor) \in Entries
  BY DEF Entry, Entries

LEMMA MethodType ==
    ASSUME TypeOK, NEW c \in Calls
    PROVE  MethodFor(c) \in Values \cup {Null}
  <1>1. patch[c] \in AllPatches /\ row[c] \in Tickets
    BY DEF TypeOK
  <1>2. CASE "sentiment_method" \in DOMAIN patch[c] /\ patch[c]["sentiment_method"] # Null
    BY <1>1, <1>2, PatchFacts DEF MethodFor
  <1>3. CASE ~("sentiment_method" \in DOMAIN patch[c] /\ patch[c]["sentiment_method"] # Null)
    BY <1>1, <1>3, RowFacts, FieldFacts DEF MethodFor
  <1> QED BY <1>2, <1>3

\* The entry of a field is about the ticket of the call, and says what the patch says.
LEMMA EntryForFacts ==
    ASSUME NEW id, NEW c, NEW f
    PROVE  /\ EntryFor(id, c, f).id = id
           /\ EntryFor(id, c, f).ticket = ticket[c]
           /\ EntryFor(id, c, f).activity = Activity[f]
           /\ EntryFor(id, c, f).actor = c
           /\ f # "sentiment_method" => EntryFor(id, c, f).to = patch[c][f]
           /\ f = "sentiment_method" => EntryFor(id, c, f).method = patch[c][f]
           /\ f = "sentiment" => EntryFor(id, c, f).method = MethodFor(c)
  BY DEF EntryFor, Entry

LEMMA EntryForType ==
    ASSUME TypeOK, NEW id \in Nat \ {0}, NEW c \in Calls, ticket[c] # 0, NEW f \in DOMAIN patch[c]
    PROVE  EntryFor(id, c, f) \in Entries
  <1>1. patch[c] \in AllPatches /\ row[c] \in Tickets /\ ticket[c] \in Nat \ {0}
    BY DEF TypeOK
  <1>2. f \in Fields /\ patch[c][f] \in Values \cup {Null} /\ MethodFor(c) \in Values \cup {Null}
    BY <1>1, PatchFacts, MethodType
  <1>3. row[c][f] \in Values \cup {Null} /\ row[c]["sentiment"] \in Values \cup {Null}
    BY <1>1, <1>2, RowFacts, FieldFacts
  <1> DEFINE from == IF f \in NotNull THEN row[c][f] ELSE Null
             to == IF f = "sentiment_method" THEN row[c]["sentiment"] ELSE patch[c][f]
             method == CASE f = "sentiment" -> MethodFor(c)
                         [] f = "sentiment_method" -> patch[c][f]
                         [] OTHER -> Null
  <1>4. /\ from \in Values \cup {Null} /\ to \in Values \cup {Null}
        /\ method \in Values \cup {Null}
    BY <1>2, <1>3
  <1>5. Activity[f] \in {"created"} \cup {Activity[g] : g \in Fields}
    BY <1>2
  <1>6. EntryFor(id, c, f) = Entry(id, ticket[c], Activity[f], from, to, method, c)
    BY DEF EntryFor
  <1>7. c \in Calls \cup {"system"} /\ id \in Nat \ {0} /\ ticket[c] \in Nat \ {0}
    BY <1>1
  <1> HIDE DEF from, to, method
  <1>8. Entry(id, ticket[c], Activity[f], from, to, method, c) \in Entries
    BY <1>4, <1>5, <1>7, EntryType, Zenon
  <1> QED BY <1>6, <1>8

LEMMA WithEntryFacts ==
    ASSUME IsDb(draft), NEW e \in Entries
    PROVE  LET d == WithEntry(e)
           IN  /\ IsDb(d)
               /\ d.tickets = draft.tickets /\ d.lastTicket = draft.lastTicket
               /\ Len(d.log) = Len(draft.log) + 1
               /\ \A i \in 1..Len(draft.log) : d.log[i] = draft.log[i]
               /\ d.log[Len(draft.log) + 1] = e
  <1> DEFINE d == WithEntry(e)
  <1>1. /\ d.log = Append(draft.log, e) /\ d.lastLog = draft.lastLog + 1
        /\ d.tickets = draft.tickets /\ d.lastTicket = draft.lastTicket
        /\ DOMAIN d = DOMAIN draft
    BY DEF WithEntry, IsDb
  <1>2. draft.log \in Seq(Entries)
    BY DEF IsDb
  <1>3. /\ Append(draft.log, e) \in Seq(Entries)
        /\ Len(Append(draft.log, e)) = Len(draft.log) + 1
        /\ \A i \in 1..Len(draft.log) : Append(draft.log, e)[i] = draft.log[i]
        /\ Append(draft.log, e)[Len(draft.log) + 1] = e
    BY <1>2
  <1>4. IsDb(d)
    BY <1>1, <1>3 DEF IsDb
  <1> QED BY <1>1, <1>3, <1>4

LEMMA LogFacts ==
    ASSUME TypeOK
    PROVE  /\ db.log \in Seq(Entries) /\ draft.log \in Seq(Entries)
           /\ Len(db.log) \in Nat /\ Len(draft.log) \in Nat
           /\ DOMAIN db.log = 1..Len(db.log) /\ DOMAIN draft.log = 1..Len(draft.log)
           /\ db.lastTicket \in Nat /\ DOMAIN db.tickets = 1..db.lastTicket
           /\ draft.lastTicket \in Nat /\ DOMAIN draft.tickets = 1..draft.lastTicket
           /\ \A t \in DOMAIN db.tickets : db.tickets[t] \in Tickets
           /\ draft.lastLog = Len(draft.log)
  <1>1. /\ db.log \in Seq(Entries) /\ draft.log \in Seq(Entries)
        /\ db.lastTicket \in Nat /\ db.tickets \in [1..db.lastTicket -> Tickets]
        /\ draft.lastTicket \in Nat /\ draft.tickets \in [1..draft.lastTicket -> Tickets]
        /\ draft.lastLog = Len(draft.log)
    BY DEF TypeOK, IsDb
  <1>2. Len(db.log) \in Nat /\ Len(draft.log) \in Nat
        /\ DOMAIN db.log = 1..Len(db.log) /\ DOMAIN draft.log = 1..Len(draft.log)
    BY <1>1
  <1> QED BY <1>1, <1>2

----------------------------------------------------------------------------
(* What a step leaves alone.                                                 *)

LEMMA InitInv == Init => Inv
  <1> SUFFICES ASSUME Init PROVE Inv
    OBVIOUS
  <1>1. /\ DOMAIN EmptyDb = {"tickets", "log", "lastTicket", "lastLog"}
        /\ EmptyDb.tickets = [t \in {} |-> Null] /\ EmptyDb.log = <<>>
        /\ EmptyDb.lastTicket = 0 /\ EmptyDb.lastLog = 0
    BY DEF EmptyDb
  <1>2. <<>> \in Seq(Entries) /\ Len(<<>>) = 0 /\ 1..0 = {}
    OBVIOUS
  <1>3. EmptyDb.tickets \in [1..0 -> Tickets]
    BY <1>1, <1>2
  <1>4. IsDb(EmptyDb)
    BY <1>1, <1>2, <1>3 DEF IsDb
  <1>5. db = EmptyDb /\ draft = EmptyDb /\ writer = NoCall
    BY DEF Init
  <1>6. DOMAIN db.log = {} /\ DOMAIN db.tickets = {} /\ Len(db.log) = 0
    BY <1>1, <1>2, <1>5
  <1>7. TypeOK
    <2>1. row \in [Calls -> Tickets]
      BY NewTicketType DEF Init
    <2>2. [f \in {} |-> Null] \in AllPatches
      <3>1. [f \in {} |-> Null] \in [{} -> Values \cup {Null}] /\ {} \in SUBSET Fields
        OBVIOUS
      <3> QED BY <3>1 DEF AllPatches
    <2>3. patch \in [Calls -> AllPatches]
      BY <2>2 DEF Init
    <2>4. crashes \in 0..MaxCrashes
      BY StoreAssumption DEF Init
    <2> QED BY <1>4, <1>5, <2>1, <2>3, <2>4 DEF Init, TypeOK
  <1>8. DraftInv
    BY <1>5, <1>6 DEF DraftInv
  <1>9. \A c \in Calls : OfCall(c)
    BY <1>5, <1>6, StoreAssumption
       DEF Init, OfCall, LockInv, LoopInv, CreateInv, PatchInv, ActorInv, Creating, Patching
  <1>10. FiledWhole /\ SnapshotIsLastEntry
    BY <1>6 DEF FiledWhole, SnapshotIsLastEntry
  <1> QED BY <1>7, <1>8, <1>9, <1>10 DEF Inv

SameCall(d) ==
    /\ pc'[d] = pc[d] /\ ticket'[d] = ticket[d] /\ patch'[d] = patch[d] /\ row'[d] = row[d]
    /\ todo'[d] = todo[d] /\ changed'[d] = changed[d]

\* The invariant of a call the step does not move, when the database stands still.
LEMMA StillKeeps ==
    ASSUME NEW d \in Calls, OfCall(d), SameCall(d), UNCHANGED <<db, draft, writer>>
    PROVE  OfCall(d)'
  <1>1. (Creating(d) <=> Creating(d)') /\ (Patching(d) <=> Patching(d)')
    BY DEF Creating, Patching, SameCall
  <1>2. LockInv(d)'
    BY <1>1 DEF OfCall, LockInv, SameCall
  <1>3. LoopInv(d)'
    BY <1>1 DEF OfCall, LoopInv, SameCall, Differs, BreaksNotNull
  <1>4. CreateInv(d)'
    BY <1>1 DEF OfCall, CreateInv, SameCall, CreatedEntry, ScoredEntry, Entry
  <1>5. PatchInv(d)'
    <2>1. \A f : Differs(d, f) <=> Differs(d, f)'
      BY DEF SameCall, Differs
    <2>2. \A f : InScore(d, f) <=> InScore(d, f)'
      BY <2>1 DEF InScore, ScoredAnyway, SameCall
    <2>3. MethodFor(d)' = MethodFor(d)
      BY DEF MethodFor, SameCall
    <2>4. \A i, f : EntryFor(i, d, f)' = EntryFor(i, d, f)
      BY <2>3 DEF EntryFor, SameCall, Entry
    <2>5. Fresh' = Fresh /\ Patched(d)' = Patched(d)
      BY DEF Fresh, Patched, SameCall
    <2> QED BY <1>1, <2>2, <2>4, <2>5 DEF OfCall, PatchInv, SameCall
  <1>6. ActorInv(d)'
    BY DEF OfCall, ActorInv, SameCall
  <1> QED BY <1>2, <1>3, <1>4, <1>5, <1>6 DEF OfCall

\* The committed database grows, by nothing of d's.
Grows(d) ==
    /\ DOMAIN db.tickets \subseteq DOMAIN db'.tickets
    /\ \A i \in DOMAIN db.log : i \in DOMAIN db'.log /\ db'.log[i] = db.log[i]
    /\ \A i \in DOMAIN db'.log : db'.log[i].actor = d => i \in DOMAIN db.log

\* The same for a call without the lock, when another call works with it.
LEMMA OthersKeep ==
    ASSUME NEW d \in Calls, OfCall(d), SameCall(d), writer # d, writer' # d, Grows(d)
    PROVE  OfCall(d)'
  <1>1. (Creating(d) <=> Creating(d)') /\ (Patching(d) <=> Patching(d)')
    BY DEF Creating, Patching, SameCall
  <1>2. ~Creating(d)
    BY DEF Creating, OfCall, LockInv
  <1>3. LockInv(d)'
    BY <1>1 DEF OfCall, LockInv, SameCall
  <1>4. LoopInv(d)'
    BY <1>1 DEF OfCall, LoopInv, SameCall, Differs, BreaksNotNull, Grows
  <1>5. CreateInv(d)' /\ PatchInv(d)'
    BY <1>1, <1>2 DEF CreateInv, PatchInv
  <1>6. ActorInv(d)'
    <2>1. ASSUME NEW i \in DOMAIN db'.log, db'.log[i].actor = d
          PROVE  pc'[d] \in {"answer", "done", "lost"}
      BY <2>1 DEF OfCall, ActorInv, SameCall, Grows
    <2>2. ASSUME pc'[d] \in {"answer", "done"}, NEW f \in changed'[d]
          PROVE  \E i \in DOMAIN db'.log :
                    db'.log[i].actor = d /\ db'.log[i].activity = Activity[f]
      <3>1. PICK i \in DOMAIN db.log : db.log[i].actor = d /\ db.log[i].activity = Activity[f]
        BY <2>2 DEF OfCall, ActorInv, SameCall
      <3>2. i \in DOMAIN db'.log /\ db'.log[i] = db.log[i]
        BY DEF Grows
      <3> QED BY <3>1, <3>2
    <2> QED BY <2>1, <2>2 DEF ActorInv
  <1> QED BY <1>3, <1>4, <1>5, <1>6 DEF OfCall

\* A step of one call that leaves the database alone.
LEMMA LocalStep ==
    ASSUME Inv, NEW c \in Calls, UNCHANGED <<db, draft, writer>>,
           \A d \in Calls \ {c} : SameCall(d), TypeOK', OfCall(c)'
    PROVE  Inv'
  <1>1. \A d \in Calls : OfCall(d)'
    BY StillKeeps DEF Inv
  <1>2. DraftInv' /\ FiledWhole' /\ SnapshotIsLastEntry'
    BY DEF Inv, DraftInv, FiledWhole, SnapshotIsLastEntry, About
  <1> QED BY <1>1, <1>2 DEF Inv

\* A write in the transaction of one call.
LEMMA WriteStep ==
    ASSUME Inv, NEW c \in Calls, db' = db, writer \in {NoCall, c}, writer' = c,
           \A d \in Calls \ {c} : SameCall(d), TypeOK', DraftInv', OfCall(c)'
    PROVE  Inv'
  <1>1. ASSUME NEW d \in Calls \ {c} PROVE OfCall(d)'
    <2>1. writer # d /\ writer' # d
      BY StoreAssumption
    <2>2. Grows(d)
      BY DEF Grows
    <2> QED BY <2>1, <2>2, OthersKeep DEF Inv
  <1>2. FiledWhole' /\ SnapshotIsLastEntry'
    BY DEF Inv, FiledWhole, SnapshotIsLastEntry, About
  <1> QED BY <1>1, <1>2 DEF Inv

\* A call that got no further than its answer has no part in the database.
Ended(c) == pc'[c] \in {"failed", "lost"}

LEMMA ErrorKeeps ==
    ASSUME NEW c \in Calls, OfCall(c), Ended(c), writer' # c, db' = db,
           UNCHANGED <<ticket, patch, row, todo, changed>>,
           pc'[c] = "failed" => pc[c] \notin {"answer", "done", "lost"}
    PROVE  OfCall(c)'
  <1>1. ~Creating(c)' /\ ~Patching(c)'
    BY DEF Creating, Patching, Ended
  <1>2. LockInv(c)'
    BY DEF LockInv, OfCall, Ended
  <1>3. LoopInv(c)' /\ CreateInv(c)' /\ PatchInv(c)'
    BY <1>1 DEF LoopInv, CreateInv, PatchInv
  <1>4. ActorInv(c)'
    BY DEF ActorInv, OfCall, Ended
  <1> QED BY <1>2, <1>3, <1>4 DEF OfCall

\* The end of a transaction without a commit.
LEMMA AbortStep ==
    ASSUME Inv, db' = db, TypeOK', \A c \in Calls : OfCall(c)',
           \/ UNCHANGED <<draft, writer>>
           \/ draft' = db /\ writer' = NoCall
    PROVE  Inv'
  <1>1. FiledWhole' /\ SnapshotIsLastEntry'
    BY DEF Inv, FiledWhole, SnapshotIsLastEntry, About
  <1>2. DraftInv'
    <2>1. CASE UNCHANGED <<draft, writer>>
      BY <2>1 DEF Inv, DraftInv
    <2>2. CASE draft' = db /\ writer' = NoCall
      <3>1. \A i \in 1..Len(db.log) : db.log[i].id = i
        BY LogFacts DEF Inv, FiledWhole
      <3> QED BY <2>2, <3>1, LogFacts DEF Inv, DraftInv
    <2> QED BY <2>1, <2>2
  <1> QED BY <1>1, <1>2 DEF Inv

LEMMA RollBackKeeps ==
    ASSUME Inv, NEW c \in Calls, RollBack(c), UNCHANGED crashes, UNCHANGED local,
           pc[c] \in {"insert", "created", "scored", "select", "fields", "commit"}
    PROVE  Inv'
  <1>1. /\ db' = db /\ UNCHANGED <<ticket, patch, row, todo, changed, crashes>>
        /\ pc' = [pc EXCEPT ![c] = "failed"]
        /\ IF writer = c THEN writer' = NoCall /\ draft' = db ELSE UNCHANGED <<draft, writer>>
    BY DEF RollBack, GoTo, local
  <1>2. TypeOK'
    BY <1>1 DEF Inv, TypeOK
  <1>3. writer' # c
    BY <1>1, StoreAssumption
  <1>4. pc \in [Calls -> {"idle", "insert", "created", "scored", "select", "fields", "commit",
                          "answer", "done", "missing", "failed", "lost"}]
    BY DEF Inv, TypeOK
  <1>5. OfCall(c)'
    BY <1>1, <1>3, <1>4, ErrorKeeps DEF Inv, Ended
  <1>6. ASSUME NEW d \in Calls \ {c} PROVE OfCall(d)'
    <2>1. SameCall(d)
      BY <1>1, <1>4 DEF SameCall
    <2>2. CASE writer = c
      <3>1. writer # d /\ writer' # d /\ Grows(d)
        BY <1>1, <2>2, StoreAssumption DEF Grows
      <3> QED BY <2>1, <3>1, OthersKeep DEF Inv
    <2>3. CASE writer # c
      BY <1>1, <2>1, <2>3, StillKeeps DEF Inv
    <2> QED BY <2>2, <2>3
  <1> QED BY <1>1, <1>2, <1>5, <1>6, AbortStep

LEMMA CrashKeeps ==
    ASSUME Inv, NEW process \in SUBSET Calls, Crash(process)
    PROVE  Inv'
  <1>1. /\ db' = db /\ UNCHANGED <<ticket, patch, row, todo, changed>>
        /\ crashes < MaxCrashes /\ crashes' = crashes + 1
        /\ pc' = [c \in Calls |-> IF c \in process /\ InFlight(c) THEN "lost" ELSE pc[c]]
        /\ IF writer \in process THEN writer' = NoCall /\ draft' = db
                                 ELSE UNCHANGED <<draft, writer>>
    BY DEF Crash, local
  <1>2. pc \in [Calls -> {"idle", "insert", "created", "scored", "select", "fields", "commit",
                          "answer", "done", "missing", "failed", "lost"}]
    BY DEF Inv, TypeOK
  <1>3. TypeOK'
    <2>1. crashes' \in 0..MaxCrashes
      BY <1>1, StoreAssumption DEF Inv, TypeOK
    <2> QED BY <1>1, <1>2, <2>1 DEF Inv, TypeOK
  <1>4. ASSUME NEW d \in Calls PROVE OfCall(d)'
    <2>1. writer = d => InFlight(d)
      BY DEF Inv, OfCall, LockInv, InFlight, Creating, Patching
    <2>2. CASE d \in process /\ InFlight(d)
      <3>1. writer' # d
        BY <1>1, <2>2, StoreAssumption
      <3> QED BY <1>1, <2>2, <3>1, ErrorKeeps DEF Inv, Ended
    <2>3. CASE ~(d \in process /\ InFlight(d))
      <3>1. SameCall(d)
        BY <1>1, <2>3 DEF SameCall
      <3>2. CASE writer \in process
        <4>1. writer # d /\ writer' # d /\ Grows(d)
          BY <1>1, <2>1, <2>3, <3>2, StoreAssumption DEF Grows
        <4> QED BY <3>1, <4>1, OthersKeep DEF Inv
      <3>3. CASE writer \notin process
        BY <1>1, <3>1, <3>3, StillKeeps DEF Inv
      <3> QED BY <3>2, <3>3
    <2> QED BY <2>2, <2>3
  <1> QED BY <1>1, <1>3, <1>4, AbortStep

----------------------------------------------------------------------------
(* The steps that leave the database alone.                                  *)

LEMMA CallsKeep ==
    ASSUME Inv, NEW c \in Calls,
           CallCreate(c) \/ \E t \in 1..MaxTickets, p \in Sendable(c) : CallPatch(c, t, p)
    PROVE  Inv'
  <1>1. /\ UNCHANGED <<db, draft, writer, todo, changed, crashes>>
        /\ pc[c] = "idle"
        /\ \E place \in {"insert", "select"} : pc' = [pc EXCEPT ![c] = place]
    BY DEF CallCreate, CallPatch, MayStart, GoTo
  <1>2. /\ \A d \in Calls \ {c} : ticket'[d] = ticket[d] /\ patch'[d] = patch[d] /\ row'[d] = row[d]
        /\ ticket' \in [Calls -> Nat] /\ patch' \in [Calls -> AllPatches]
        /\ row' \in [Calls -> Tickets]
    <2>1. CASE CallCreate(c)
      <3>1. PICK s \in Scores : row' = [row EXCEPT ![c] = NewTicket(s)]
        BY <2>1 DEF CallCreate
      <3> QED BY <2>1, <3>1, NewTicketType DEF CallCreate, Inv, TypeOK
    <2>2. CASE \E t \in 1..MaxTickets, p \in Sendable(c) : CallPatch(c, t, p)
      <3>1. PICK t \in 1..MaxTickets, p \in Sendable(c) : CallPatch(c, t, p)
        BY <2>2
      <3>2. p \in AllPatches /\ t \in Nat
        BY StoreAssumption DEF Sendable
      <3> QED BY <3>1, <3>2 DEF CallPatch, Inv, TypeOK
    <2> QED BY <2>1, <2>2
  <1>3. TypeOK'
    BY <1>1, <1>2 DEF Inv, TypeOK
  <1>4. \A d \in Calls \ {c} : SameCall(d)
    BY <1>1, <1>2 DEF SameCall, Inv, TypeOK
  <1>5. /\ pc'[c] \in {"insert", "select"} /\ changed'[c] = {} /\ writer' # c
    BY <1>1 DEF Inv, TypeOK, OfCall, LockInv, Creating, Patching
  <1>6. OfCall(c)'
    BY <1>1, <1>5
       DEF Inv, OfCall, LockInv, LoopInv, CreateInv, PatchInv, ActorInv, Creating, Patching
  <1> QED BY <1>1, <1>3, <1>4, <1>6, LocalStep

LEMMA SelectKeeps ==
    ASSUME Inv, NEW c \in Calls, Select(c)
    PROVE  Inv'
  <1>1. /\ UNCHANGED <<db, draft, writer, ticket, patch, changed, crashes>>
        /\ pc[c] = "select"
        /\ writer' # c /\ changed[c] = {} /\ pc \in [Calls -> {"idle", "insert", "created", "scored",
              "select", "fields", "commit", "answer", "done", "missing", "failed", "lost"}]
    BY DEF Select, Inv, TypeOK, OfCall, LockInv, Creating, Patching
  <1>2. CASE ticket[c] \in DOMAIN db.tickets
    <2>1. /\ row' = [row EXCEPT ![c] = db.tickets[ticket[c]]]
          /\ todo' = [todo EXCEPT ![c] = DOMAIN patch[c]]
          /\ pc' = [pc EXCEPT ![c] = "fields"]
      BY <1>2 DEF Select, GoTo
    <2>2. db.tickets[ticket[c]] \in Tickets /\ DOMAIN patch[c] \subseteq Fields
      BY <1>2, LogFacts, PatchFacts DEF Inv, TypeOK
    <2>3. TypeOK'
      BY <1>1, <2>1, <2>2 DEF Inv, TypeOK
    <2>4. \A d \in Calls \ {c} : SameCall(d)
      BY <1>1, <2>1 DEF SameCall, Inv, TypeOK
    <2>5. todo'[c] = DOMAIN patch[c] /\ pc'[c] = "fields"
      BY <2>1 DEF Inv, TypeOK
    <2>6. OfCall(c)'
      BY <1>1, <1>2, <2>5
         DEF Inv, OfCall, LockInv, LoopInv, CreateInv, PatchInv, ActorInv, Creating, Patching
    <2> QED BY <1>1, <2>3, <2>4, <2>6, LocalStep
  <1>3. CASE ticket[c] \notin DOMAIN db.tickets
    <2>1. pc' = [pc EXCEPT ![c] = "missing"] /\ UNCHANGED <<row, todo>>
      BY <1>3 DEF Select, GoTo
    <2>2. TypeOK'
      BY <1>1, <2>1 DEF Inv, TypeOK
    <2>3. \A d \in Calls \ {c} : SameCall(d)
      BY <1>1, <2>1 DEF SameCall
    <2>4. OfCall(c)'
      BY <1>1, <2>1
         DEF Inv, OfCall, LockInv, LoopInv, CreateInv, PatchInv, ActorInv, Creating, Patching
    <2> QED BY <1>1, <2>2, <2>3, <2>4, LocalStep
  <1> QED BY <1>2, <1>3

\* What a call writes depends on its ticket, patch and row only.
LEMMA SameEntries ==
    ASSUME NEW c, ticket'[c] = ticket[c], patch'[c] = patch[c], row'[c] = row[c]
    PROVE  /\ \A i, f : EntryFor(i, c, f)' = EntryFor(i, c, f)
           /\ \A f : (InScore(c, f) <=> InScore(c, f)') /\ (Differs(c, f) <=> Differs(c, f)')
           /\ MethodFor(c)' = MethodFor(c)
  <1>1. \A f : Differs(c, f) <=> Differs(c, f)'
    BY DEF Differs
  <1>2. \A f : InScore(c, f) <=> InScore(c, f)'
    BY <1>1 DEF InScore, ScoredAnyway
  <1>3. MethodFor(c)' = MethodFor(c)
    BY DEF MethodFor
  <1>4. \A i, f : EntryFor(i, c, f)' = EntryFor(i, c, f)
    BY <1>3 DEF EntryFor, Entry
  <1> QED BY <1>1, <1>2, <1>3, <1>4

\* The loop has looked at the score when it comes to the method.
LEMMA ScoreFirst ==
    ASSUME NEW c, AtField(c, "sentiment_method")
    PROVE  "sentiment" \notin todo[c]
  <1>1. PICK i \in 1..6 : FieldOrder[i] = "sentiment_method"
                          /\ \A j \in 1..(i - 1) : FieldOrder[j] \notin todo[c]
    BY DEF AtField
  <1>2. i = 4 /\ FieldOrder[3] = "sentiment"
    <2>1. /\ FieldOrder[1] = "status" /\ FieldOrder[2] = "priority"
          /\ FieldOrder[3] = "sentiment" /\ FieldOrder[5] = "assignee"
          /\ FieldOrder[6] = "reply_message"
      BY DEF FieldOrder
    <2>2. i \in {1, 2, 3, 4, 5, 6}
      OBVIOUS
    <2> QED BY <1>1, <2>1, <2>2
  <1>3. 3 \in 1..(i - 1)
    BY <1>2
  <1> QED BY <1>1, <1>2, <1>3

LEMMA SkipKeeps ==
    ASSUME Inv, NEW c \in Calls, NEW f \in Fields, SkipField(c, f)
    PROVE  Inv'
  <1>1. /\ UNCHANGED <<db, draft, writer, pc, ticket, patch, row, changed, crashes>>
        /\ todo' = [todo EXCEPT ![c] = @ \ {f}]
        /\ pc[c] = "fields" /\ f \in todo[c] /\ ~Differs(c, f)
    BY DEF SkipField, AtField
  <1>2. todo'[c] = todo[c] \ {f} /\ TypeOK'
    BY <1>1 DEF Inv, TypeOK
  <1>3. \A d \in Calls \ {c} : SameCall(d)
    BY <1>1 DEF SameCall, Inv, TypeOK
  <1>4. OfCall(c)'
    <2>1. (Creating(c) <=> Creating(c)') /\ (Patching(c) <=> Patching(c)') /\ Patching(c)
      BY <1>1 DEF Creating, Patching
    <2>2. LockInv(c)' /\ ActorInv(c)'
      BY <1>1, <2>1 DEF Inv, OfCall, LockInv, ActorInv
    <2>3. CreateInv(c)'
      BY <1>1 DEF CreateInv, Creating
    <2>4. LoopInv(c)'
      <3>1. LoopInv(c) /\ \A g : Differs(c, g) <=> Differs(c, g)'
        BY <1>1, SameEntries DEF Inv, OfCall
      <3> QED BY <1>1, <1>2, <2>1, <3>1 DEF LoopInv
    <2>5. PatchInv(c)'
      <3>1. PatchInv(c) /\ \A i, g : EntryFor(i, c, g)' = EntryFor(i, c, g)
        BY <1>1, SameEntries DEF Inv, OfCall
      <3>2. \A g : InScore(c, g) <=> InScore(c, g)'
        BY <1>1, SameEntries
      <3>3. Fresh' = Fresh
        BY <1>1 DEF Fresh
      <3> QED BY <1>1, <2>1, <3>1, <3>2, <3>3 DEF PatchInv
    <2> QED BY <2>2, <2>3, <2>4, <2>5 DEF OfCall
  <1> QED BY <1>1, <1>2, <1>3, <1>4, LocalStep

LEMMA TakeMethodKeeps ==
    ASSUME Inv, NEW c \in Calls, NEW f \in Fields, TakeMethod(c, f)
    PROVE  Inv'
  <1>1. /\ UNCHANGED <<db, draft, writer, pc, ticket, patch, row, crashes>>
        /\ todo' = [todo EXCEPT ![c] = @ \ {f}]
        /\ changed' = [changed EXCEPT ![c] = @ \cup {f}]
        /\ pc[c] = "fields" /\ f \in todo[c] /\ Differs(c, f)
        /\ f = "sentiment_method" /\ ScoredAnyway(c) /\ InScore(c, f)
    BY DEF TakeMethod, AtField, InScore
  <1>2. todo'[c] = todo[c] \ {f} /\ changed'[c] = changed[c] \cup {f} /\ TypeOK'
    BY <1>1 DEF Inv, TypeOK
  <1>3. \A d \in Calls \ {c} : SameCall(d)
    BY <1>1 DEF SameCall, Inv, TypeOK
  <1>4. Patching(c) /\ LoopInv(c) /\ LockInv(c) /\ PatchInv(c) /\ ActorInv(c)
    BY <1>1 DEF Inv, OfCall, Patching
  <1>5. "sentiment" \in changed[c] /\ writer = c
    <2>1. "sentiment" \in DOMAIN patch[c] \ todo[c] /\ Differs(c, "sentiment")
      BY <1>1, ScoreFirst DEF TakeMethod, ScoredAnyway
    <2>2. "sentiment" \in changed[c]
      BY <1>4, <2>1 DEF LoopInv
    <2> QED BY <1>1, <1>4, <2>2 DEF LockInv
  <1>6. f \in DOMAIN patch[c]
    BY <1>1, <1>4 DEF LoopInv
  <1>7. OfCall(c)'
    <2>1. Patching(c)' /\ ~Creating(c)'
      BY <1>1 DEF Creating, Patching
    <2>2. LockInv(c)' /\ ActorInv(c)' /\ CreateInv(c)'
      BY <1>1, <1>2, <1>4, <1>5, <1>6, <2>1 DEF LockInv, ActorInv, CreateInv
    <2>3. LoopInv(c)'
      <3>1. \A g : Differs(c, g) <=> Differs(c, g)'
        BY <1>1, SameEntries
      <3> QED BY <1>1, <1>2, <1>4, <1>6, <2>1, <3>1 DEF LoopInv
    <2>4. PatchInv(c)'
      <3>1. \A i, g : EntryFor(i, c, g)' = EntryFor(i, c, g)
        BY <1>1, SameEntries
      <3>2. \A g : InScore(c, g) <=> InScore(c, g)'
        BY <1>1, SameEntries
      <3>3. Fresh' = Fresh
        BY <1>1 DEF Fresh
      <3> QED BY <1>1, <1>2, <1>4, <1>5, <2>1, <3>1, <3>2, <3>3 DEF PatchInv
    <2> QED BY <2>2, <2>3, <2>4 DEF OfCall
  <1> QED BY <1>1, <1>2, <1>3, <1>7, LocalStep

LEMMA AnswersKeep ==
    ASSUME Inv, NEW c \in Calls, NothingChanged(c) \/ Answer(c)
    PROVE  Inv'
  <1>1. /\ UNCHANGED <<db, draft, writer, ticket, patch, row, todo, changed, crashes>>
        /\ \/ pc[c] = "fields" /\ changed[c] = {} /\ pc' = [pc EXCEPT ![c] = "answer"]
           \/ pc[c] = "answer" /\ pc' = [pc EXCEPT ![c] = "done"]
    BY DEF NothingChanged, Answer, AllFieldsDone, GoTo, local
  <1>2. TypeOK' /\ \A d \in Calls \ {c} : SameCall(d)
    BY <1>1 DEF Inv, TypeOK, SameCall
  <1>3. pc'[c] \in {"answer", "done"} /\ writer # c
    BY <1>1 DEF Inv, TypeOK, OfCall, LockInv, Creating, Patching
  <1>4. OfCall(c)'
    BY <1>1, <1>3
       DEF Inv, OfCall, LockInv, LoopInv, CreateInv, PatchInv, ActorInv, Creating, Patching
  <1> QED BY <1>1, <1>2, <1>4, LocalStep

----------------------------------------------------------------------------
(* The steps that write in a transaction.                                    *)

LEMMA LogStep ==
    ASSUME Inv, NEW e \in Entries, e.id = NextLog, draft' = WithEntry(e), db' = db,
           writer' # NoCall
    PROVE  /\ IsDb(draft)' /\ DraftInv'
           /\ draft'.tickets = draft.tickets /\ draft'.lastTicket = draft.lastTicket
           /\ Len(draft'.log) = Len(draft.log) + 1
           /\ \A i \in 1..Len(draft.log) : draft'.log[i] = draft.log[i]
           /\ draft'.log[Len(draft.log) + 1] = e
           /\ NextLog = Len(draft.log) + 1
           /\ Fresh' = Fresh \cup {Len(draft.log) + 1}
  <1>1. IsDb(draft) /\ Len(draft.log) \in Nat /\ Len(db.log) \in Nat
        /\ NextLog = Len(draft.log) + 1
    BY LogFacts DEF Inv, TypeOK, NextLog
  <1>2. /\ IsDb(draft)'
        /\ draft'.tickets = draft.tickets /\ draft'.lastTicket = draft.lastTicket
        /\ Len(draft'.log) = Len(draft.log) + 1
        /\ \A i \in 1..Len(draft.log) : draft'.log[i] = draft.log[i]
        /\ draft'.log[Len(draft.log) + 1] = e
    BY <1>1, WithEntryFacts DEF IsDb
  <1>3. DraftInv /\ Len(draft.log) >= Len(db.log)
    BY DEF Inv, DraftInv
  <1>4. DraftInv'
    BY <1>1, <1>2, <1>3 DEF DraftInv
  <1>5. Fresh' = Fresh \cup {Len(draft.log) + 1}
    BY <1>1, <1>2, <1>3 DEF Fresh
  <1> QED BY <1>1, <1>2, <1>4, <1>5

LEMMA InsertKeeps ==
    ASSUME Inv, NEW c \in Calls, Insert(c)
    PROVE  Inv'
  <1> DEFINE id == draft.lastTicket + 1
  <1>1. /\ pc[c] = "insert" /\ writer = NoCall /\ draft = db /\ changed[c] = {}
    BY DEF Insert, Execute, Inv, OfCall, LockInv, Creating, Patching, DraftInv
  <1>2. /\ db' = db /\ writer' = c /\ UNCHANGED <<patch, row, todo, changed, crashes>>
        /\ ticket' = [ticket EXCEPT ![c] = id] /\ pc' = [pc EXCEPT ![c] = "created"]
        /\ draft' = [draft EXCEPT !.lastTicket = id,
                                  !.tickets = [t \in DOMAIN @ \cup {id} |->
                                                  IF t = id THEN row[c] ELSE @[t]]]
    BY DEF Insert, Execute, GoTo
  <1>3. /\ draft.lastTicket \in Nat /\ DOMAIN draft.tickets = 1..draft.lastTicket
        /\ draft.tickets \in [1..draft.lastTicket -> Tickets] /\ row[c] \in Tickets
        /\ DOMAIN draft = {"tickets", "log", "lastTicket", "lastLog"}
    BY DEF Inv, TypeOK, IsDb
  <1>4. /\ draft'.log = draft.log /\ draft'.lastLog = draft.lastLog
        /\ draft'.lastTicket = id /\ DOMAIN draft' = DOMAIN draft
        /\ draft'.tickets = [t \in DOMAIN draft.tickets \cup {id} |->
                                IF t = id THEN row[c] ELSE draft.tickets[t]]
    BY <1>2, <1>3
  <1>5. 1..id = DOMAIN draft.tickets \cup {id} /\ id \in Nat
    BY <1>3
  <1>6. draft'.tickets \in [1..id -> Tickets]
    BY <1>3, <1>4, <1>5
  <1>7. IsDb(draft)'
    <2>1. IsDb(draft)
      BY DEF Inv, TypeOK
    <2> QED BY <1>3, <1>4, <1>5, <1>6, <2>1 DEF IsDb
  <1>8. TypeOK'
    BY <1>2, <1>5, <1>7 DEF Inv, TypeOK
  <1>9. DraftInv'
    BY <1>1, <1>2, <1>4, StoreAssumption DEF Inv, DraftInv
  <1>10. \A d \in Calls \ {c} : SameCall(d)
    BY <1>2 DEF Inv, TypeOK, SameCall
  <1>11. OfCall(c)'
    <2>1. pc'[c] = "created" /\ ticket'[c] = id /\ Creating(c)' /\ ~Patching(c)'
      BY <1>2 DEF Inv, TypeOK, Creating, Patching
    <2>2. LockInv(c)' /\ LoopInv(c)' /\ PatchInv(c)'
      BY <1>1, <1>2, <2>1 DEF LockInv, LoopInv, PatchInv
    <2>3. ActorInv(c)'
      BY <1>1, <1>2, <2>1 DEF Inv, OfCall, ActorInv
    <2>4. CreateInv(c)'
      BY <1>1, <1>2, <1>4, <2>1 DEF CreateInv
    <2> QED BY <2>2, <2>3, <2>4 DEF OfCall
  <1> QED BY <1>1, <1>2, <1>8, <1>9, <1>10, <1>11, WriteStep

LEMMA CreateLogsKeep ==
    ASSUME Inv, NEW c \in Calls, LogCreated(c) \/ LogScored(c)
    PROVE  Inv'
  <1> DEFINE e == IF pc[c] = "created" THEN CreatedEntry(NextLog, c) ELSE ScoredEntry(NextLog, c)
             after == IF pc[c] = "created" THEN "scored" ELSE "commit"
  <1>1. /\ pc[c] \in {"created", "scored"}
        /\ db' = db /\ writer' = c /\ draft' = WithEntry(e)
        /\ pc' = [pc EXCEPT ![c] = after]
        /\ UNCHANGED <<ticket, patch, row, todo, changed, crashes>>
    BY DEF LogCreated, LogScored, Execute, GoTo, local, CreatedEntry, ScoredEntry
  <1>2. Creating(c) /\ CreateInv(c) /\ writer = c /\ changed[c] = {} /\ ~Patching(c)
    BY <1>1 DEF Creating, Patching, Inv, OfCall, LockInv
  <1>3. NextLog \in Nat \ {0} /\ ticket[c] \in Nat \ {0} /\ NextLog = Len(draft.log) + 1
    BY <1>2, LogFacts DEF Inv, CreateInv, NextLog
  <1>4. e \in Entries /\ e.id = NextLog
    <2>1. /\ row[c]["sentiment"] \in Values \cup {Null}
          /\ row[c]["sentiment_method"] \in Values \cup {Null}
      BY FieldFacts, RowFacts DEF Inv, TypeOK
    <2>2. "sentiment_scored" \in {"created"} \cup {Activity[f] : f \in Fields}
      BY FieldFacts
    <2>3. CreatedEntry(NextLog, c) \in Entries
      BY <1>3, EntryType DEF CreatedEntry
    <2>4. ScoredEntry(NextLog, c) \in Entries
      BY <1>3, <2>1, <2>2, EntryType DEF ScoredEntry
    <2>5. CreatedEntry(NextLog, c).id = NextLog /\ ScoredEntry(NextLog, c).id = NextLog
      BY DEF CreatedEntry, ScoredEntry, Entry
    <2> QED BY <2>3, <2>4, <2>5
  <1> HIDE DEF e
  <1>5. /\ IsDb(draft)' /\ DraftInv'
        /\ draft'.tickets = draft.tickets /\ draft'.lastTicket = draft.lastTicket
        /\ Len(draft'.log) = Len(draft.log) + 1
        /\ \A i \in 1..Len(draft.log) : draft'.log[i] = draft.log[i]
        /\ draft'.log[Len(draft.log) + 1] = e
    BY <1>1, <1>4, LogStep, StoreAssumption
  <1>6. TypeOK' /\ \A d \in Calls \ {c} : SameCall(d)
    BY <1>1, <1>5 DEF Inv, TypeOK, SameCall
  <1>7. pc'[c] = after
    BY <1>1 DEF Inv, TypeOK
  <1>8. OfCall(c)'
    <2>1. Creating(c)' /\ ~Patching(c)'
      BY <1>1, <1>2, <1>7 DEF Creating, Patching
    <2>2. LockInv(c)' /\ LoopInv(c)' /\ PatchInv(c)' /\ ActorInv(c)'
      BY <1>1, <1>2, <1>7, <2>1 DEF Inv, OfCall, LockInv, LoopInv, PatchInv, ActorInv
    <2>3. /\ CreatedEntry(Len(db.log) + 1, c)' = CreatedEntry(Len(db.log) + 1, c)
          /\ ScoredEntry(Len(db.log) + 2, c)' = ScoredEntry(Len(db.log) + 2, c)
      BY <1>1 DEF CreatedEntry, ScoredEntry, Entry
    <2>4. Len(db.log) \in Nat
      BY LogFacts DEF Inv
    <2>5. CreateInv(c)'
      <3>1. CASE pc[c] = "created"
        <4>1. Len(draft.log) = Len(db.log) /\ e = CreatedEntry(Len(db.log) + 1, c)
          BY <1>2, <1>3, <3>1 DEF CreateInv, e
        <4> QED BY <1>1, <1>2, <1>5, <1>7, <2>3, <2>4, <3>1, <4>1 DEF CreateInv
      <3>2. CASE pc[c] = "scored"
        <4>1. Len(draft.log) = Len(db.log) + 1 /\ e = ScoredEntry(Len(db.log) + 2, c)
          BY <1>2, <1>3, <2>4, <3>2 DEF CreateInv, e
        <4>2. draft.log[Len(db.log) + 1] = CreatedEntry(Len(db.log) + 1, c)
          BY <1>2, <3>2 DEF CreateInv
        <4>3. draft'.log[Len(db.log) + 1] = CreatedEntry(Len(db.log) + 1, c)
              /\ draft'.log[Len(db.log) + 2] = ScoredEntry(Len(db.log) + 2, c)
          BY <1>5, <2>4, <4>1, <4>2
        <4> QED BY <1>1, <1>2, <1>5, <1>7, <2>3, <2>4, <3>2, <4>1, <4>3 DEF CreateInv
      <3> QED BY <1>1, <3>1, <3>2
    <2> QED BY <2>2, <2>5 DEF OfCall
  <1> QED BY <1>1, <1>2, <1>5, <1>6, <1>8, WriteStep

LEMMA LogFieldKeeps ==
    ASSUME Inv, NEW c \in Calls, NEW f \in Fields, LogField(c, f)
    PROVE  Inv'
  <1> DEFINE e == EntryFor(NextLog, c, f)
  <1>1. /\ db' = db /\ writer \in {NoCall, c} /\ writer' = c /\ draft' = WithEntry(e)
        /\ todo' = [todo EXCEPT ![c] = @ \ {f}]
        /\ changed' = [changed EXCEPT ![c] = @ \cup {f}]
        /\ UNCHANGED <<pc, ticket, patch, row, crashes>>
        /\ pc[c] = "fields" /\ f \in todo[c] /\ Differs(c, f) /\ ~InScore(c, f)
    BY DEF LogField, AtField, Execute, InScore
  <1>2. Patching(c) /\ ~Creating(c) /\ LockInv(c) /\ LoopInv(c) /\ PatchInv(c) /\ ActorInv(c)
    BY <1>1 DEF Patching, Creating, Inv, OfCall
  <1>3. f \in DOMAIN patch[c] /\ ticket[c] \in DOMAIN db.tickets
    BY <1>1, <1>2 DEF LoopInv
  <1>4. NextLog \in Nat \ {0} /\ ticket[c] # 0 /\ NextLog = Len(draft.log) + 1
        /\ Len(draft.log) \in Nat /\ Len(db.log) \in Nat
    BY <1>3, LogFacts DEF Inv, NextLog
  <1>5. e \in Entries /\ e.id = NextLog
    BY <1>3, <1>4, EntryForType, EntryForFacts DEF Inv
  <1> HIDE DEF e
  <1>6. /\ IsDb(draft)' /\ DraftInv'
        /\ draft'.tickets = draft.tickets /\ draft'.lastTicket = draft.lastTicket
        /\ \A i \in 1..Len(draft.log) : draft'.log[i] = draft.log[i]
        /\ draft'.log[Len(draft.log) + 1] = e
        /\ Fresh' = Fresh \cup {Len(draft.log) + 1}
    BY <1>1, <1>5, LogStep, StoreAssumption
  <1>7. TypeOK' /\ \A d \in Calls \ {c} : SameCall(d)
    BY <1>1, <1>6 DEF Inv, TypeOK, SameCall
  <1>8. todo'[c] = todo[c] \ {f} /\ changed'[c] = changed[c] \cup {f}
    BY <1>1 DEF Inv, TypeOK
  <1>9. /\ draft.lastTicket = db.lastTicket /\ draft.tickets = db.tickets
        /\ \A i \in Fresh : \E g \in changed[c] :
              ~InScore(c, g) /\ draft.log[i] = EntryFor(i, c, g)
        /\ \A g \in changed[c] :
              InScore(c, g) \/ \E i \in Fresh : draft.log[i] = EntryFor(i, c, g)
    <2>1. CASE writer = c
      BY <1>1, <1>2, <2>1 DEF PatchInv
    <2>2. CASE writer = NoCall
      <3>1. draft = db /\ changed[c] = {}
        BY <1>1, <1>2, <2>2, StoreAssumption DEF Inv, DraftInv, LockInv
      <3>2. Fresh = {}
        BY <1>4, <3>1 DEF Fresh
      <3> QED BY <3>1, <3>2
    <2> QED BY <1>1, <2>1, <2>2
  <1>10. OfCall(c)'
    <2>1. Patching(c)' /\ ~Creating(c)'
      BY <1>1 DEF Patching, Creating
    <2>2. LockInv(c)' /\ CreateInv(c)' /\ ActorInv(c)'
      BY <1>1, <1>2, <1>3, <1>8, <2>1 DEF LockInv, CreateInv, ActorInv
    <2>3. LoopInv(c)'
      <3>1. \A g : Differs(c, g) <=> Differs(c, g)'
        BY <1>1, SameEntries
      <3> QED BY <1>1, <1>2, <1>3, <1>8, <2>1, <3>1 DEF LoopInv
    <2>4. PatchInv(c)'
      <3>1. \A i, g : EntryFor(i, c, g)' = EntryFor(i, c, g)
        BY <1>1, SameEntries
      <3>2. \A g : InScore(c, g) <=> InScore(c, g)'
        BY <1>1, SameEntries
      <3>3. \A i \in Fresh : i \in 1..Len(draft.log)
        BY <1>4 DEF Fresh
      <3>4. draft'.log[Len(draft.log) + 1] = EntryFor(Len(draft.log) + 1, c, f)
        BY <1>4, <1>6 DEF e
      <3>5. \A i \in Fresh' : \E g \in changed'[c] :
               ~InScore(c, g) /\ draft'.log[i] = EntryFor(i, c, g)
        <4>1. ASSUME NEW i \in Fresh
              PROVE  \E g \in changed'[c] : ~InScore(c, g) /\ draft'.log[i] = EntryFor(i, c, g)
          <5>1. PICK g \in changed[c] : ~InScore(c, g) /\ draft.log[i] = EntryFor(i, c, g)
            BY <1>9
          <5> QED BY <1>6, <1>8, <3>3, <5>1
        <4> QED BY <1>1, <1>6, <1>8, <3>4, <4>1
      <3>6. \A g \in changed'[c] :
               InScore(c, g) \/ \E i \in Fresh' : draft'.log[i] = EntryFor(i, c, g)
        <4>1. ASSUME NEW g \in changed[c], ~InScore(c, g)
              PROVE  \E i \in Fresh' : draft'.log[i] = EntryFor(i, c, g)
          <5>1. PICK i \in Fresh : draft.log[i] = EntryFor(i, c, g)
            BY <1>9, <4>1
          <5> QED BY <1>6, <3>3, <5>1
        <4> QED BY <1>6, <1>8, <3>4, <4>1
      <3>7. /\ \A i \in Fresh' : \E g \in changed'[c] :
                  ~InScore(c, g)' /\ draft'.log[i] = EntryFor(i, c, g)'
            /\ \A g \in changed'[c] :
                  InScore(c, g)' \/ \E i \in Fresh' : draft'.log[i] = EntryFor(i, c, g)'
        BY <3>1, <3>2, <3>5, <3>6
      <3>8. draft'.lastTicket = db'.lastTicket /\ draft'.tickets = db'.tickets
            /\ pc'[c] = "fields"
        BY <1>1, <1>6, <1>9
      <3> QED BY <3>7, <3>8 DEF PatchInv
    <2> QED BY <2>2, <2>3, <2>4 DEF OfCall
  <1> QED BY <1>1, <1>6, <1>7, <1>10, WriteStep

LEMMA UpdateKeeps ==
    ASSUME Inv, NEW c \in Calls, Update(c)
    PROVE  Inv'
  <1> DEFINE t == ticket[c]
             new == [f \in Fields |->
                        IF f \in changed[c] THEN patch[c][f] ELSE db.tickets[t][f]]
  <1>1. /\ pc[c] = "fields" /\ todo[c] = {} /\ changed[c] # {} /\ ~BreaksNotNull(c)
        /\ db' = db /\ writer' = c
        /\ draft' = [draft EXCEPT !.tickets[ticket[c]] = Updated(c)]
        /\ pc' = [pc EXCEPT ![c] = "commit"]
        /\ UNCHANGED <<ticket, patch, row, todo, changed, crashes>>
    BY DEF Update, AllFieldsDone, Execute, GoTo, local
  <1>2. Patching(c) /\ LockInv(c) /\ LoopInv(c) /\ PatchInv(c) /\ ActorInv(c) /\ writer = c
    BY <1>1 DEF Patching, Inv, OfCall, LockInv
  <1>3. /\ t \in DOMAIN db.tickets /\ draft.tickets = db.tickets
        /\ draft.lastTicket = db.lastTicket /\ changed[c] \subseteq DOMAIN patch[c]
    BY <1>1, <1>2 DEF LoopInv, PatchInv, LockInv
  <1>4. Updated(c) = new
    BY <1>3 DEF Updated
  <1>5. /\ draft'.tickets = [db.tickets EXCEPT ![t] = new]
        /\ draft'.log = draft.log /\ draft'.lastLog = draft.lastLog
        /\ draft'.lastTicket = draft.lastTicket /\ DOMAIN draft' = DOMAIN draft
    <2>1. DOMAIN draft = {"tickets", "log", "lastTicket", "lastLog"}
      BY DEF Inv, TypeOK, IsDb
    <2> QED BY <1>1, <1>3, <1>4, <2>1
  <1>6. new \in Tickets
    <2>1. patch[c] \in AllPatches /\ db.tickets[t] \in Tickets
      BY <1>3, LogFacts DEF Inv, TypeOK
    <2>2. \A f \in changed[c] : patch[c][f] \in Values \cup {Null}
      BY <1>3, <2>1, PatchFacts
    <2>3. new \in [Fields -> Values \cup {Null}]
      BY <2>1, <2>2, RowFacts
    <2>4. \A f \in NotNull : new[f] # Null
      <3>1. NotNull \subseteq Fields
        BY FieldFacts DEF NotNull
      <3> QED BY <1>1, <2>1, <3>1, RowFacts DEF BreaksNotNull
    <2> QED BY <2>3, <2>4 DEF Tickets
  <1>7. IsDb(draft)'
    <2>1. IsDb(draft) /\ db.tickets \in [1..db.lastTicket -> Tickets]
      BY DEF Inv, TypeOK, IsDb
    <2>2. draft'.tickets \in [1..draft'.lastTicket -> Tickets]
      BY <1>3, <1>5, <1>6, <2>1
    <2> QED BY <1>5, <2>1, <2>2 DEF IsDb
  <1>8. TypeOK' /\ DraftInv'
    BY <1>1, <1>5, <1>7, StoreAssumption DEF Inv, TypeOK, DraftInv
  <1>9. \A d \in Calls \ {c} : SameCall(d)
    BY <1>1 DEF Inv, TypeOK, SameCall
  <1>10. OfCall(c)'
    <2>1. pc'[c] = "commit" /\ Patching(c)' /\ ~Creating(c)'
      BY <1>1 DEF Inv, TypeOK, Patching, Creating
    <2>2. LockInv(c)' /\ CreateInv(c)' /\ ActorInv(c)'
      BY <1>1, <1>2, <2>1 DEF LockInv, CreateInv, ActorInv
    <2>3. LoopInv(c)'
      <3>1. \A g : Differs(c, g) <=> Differs(c, g)'
        BY <1>1, SameEntries
      <3>2. ~BreaksNotNull(c)'
        BY <1>1 DEF BreaksNotNull
      <3> QED BY <1>1, <1>2, <2>1, <3>1, <3>2 DEF LoopInv
    <2>4. PatchInv(c)'
      <3>1. \A i, g : EntryFor(i, c, g)' = EntryFor(i, c, g)
        BY <1>1, SameEntries
      <3>2. \A g : InScore(c, g) <=> InScore(c, g)'
        BY <1>1, SameEntries
      <3>3. Fresh' = Fresh
        BY <1>1, <1>5 DEF Fresh
      <3>4. draft'.tickets = Patched(c)'
        BY <1>1, <1>5 DEF Patched
      <3>5. /\ \A i \in Fresh : \E g \in changed[c] :
                  ~InScore(c, g) /\ draft.log[i] = EntryFor(i, c, g)
            /\ \A g \in changed[c] :
                  InScore(c, g) \/ \E i \in Fresh : draft.log[i] = EntryFor(i, c, g)
        BY <1>2 DEF PatchInv
      <3>6. /\ \A i \in Fresh' : \E g \in changed'[c] :
                  ~InScore(c, g)' /\ draft'.log[i] = EntryFor(i, c, g)'
            /\ \A g \in changed'[c] :
                  InScore(c, g)' \/ \E i \in Fresh' : draft'.log[i] = EntryFor(i, c, g)'
        BY <1>1, <1>5, <3>1, <3>2, <3>3, <3>5
      <3>7. draft'.lastTicket = db'.lastTicket
        BY <1>1, <1>3, <1>5
      <3> QED BY <2>1, <3>4, <3>6, <3>7 DEF PatchInv
    <2> QED BY <2>2, <2>3, <2>4 DEF OfCall
  <1> QED BY <1>1, <1>2, <1>8, <1>9, <1>10, WriteStep

----------------------------------------------------------------------------
(* The commit.                                                               *)

\* What the commit of a create makes of the database.
LEMMA CreateCommits ==
    ASSUME Inv, NEW c \in Calls, Commit(c), Creating(c)
    PROVE  LET t == ticket[c]
               n == Len(db.log)
           IN  /\ t \notin DOMAIN db.tickets /\ DOMAIN db'.tickets = DOMAIN db.tickets \cup {t}
               /\ db'.tickets[t] = row[c]
               /\ \A u \in DOMAIN db.tickets : db'.tickets[u] = db.tickets[u]
               /\ n \in Nat /\ Len(db'.log) = n + 2
               /\ \A i \in 1..n : db'.log[i] = db.log[i]
               /\ db'.log[n + 1] = CreatedEntry(n + 1, c)
               /\ db'.log[n + 2] = ScoredEntry(n + 2, c)
  <1>1. db' = draft /\ pc[c] = "commit" /\ CreateInv(c)
    BY DEF Commit, Inv, OfCall
  <1>2. Len(db.log) \in Nat /\ db.lastTicket \in Nat /\ DOMAIN db.tickets = 1..db.lastTicket
    BY LogFacts DEF Inv
  <1>3. ticket[c] \notin DOMAIN db.tickets
    BY <1>1, <1>2 DEF CreateInv
  <1>4. \A i \in 1..Len(db.log) : draft.log[i] = db.log[i]
    BY DEF Inv, DraftInv
  <1>5. draft.tickets = [t \in DOMAIN db.tickets \cup {ticket[c]} |->
                            IF t = ticket[c] THEN row[c] ELSE db.tickets[t]]
    BY <1>1 DEF CreateInv
  <1>6. /\ DOMAIN db'.tickets = DOMAIN db.tickets \cup {ticket[c]}
        /\ db'.tickets[ticket[c]] = row[c]
        /\ \A u \in DOMAIN db.tickets : db'.tickets[u] = db.tickets[u]
    BY <1>1, <1>3, <1>5
  <1>7. /\ Len(db'.log) = Len(db.log) + 2
        /\ db'.log[Len(db.log) + 1] = CreatedEntry(Len(db.log) + 1, c)
        /\ db'.log[Len(db.log) + 2] = ScoredEntry(Len(db.log) + 2, c)
    BY <1>1 DEF CreateInv
  <1> QED BY <1>1, <1>2, <1>3, <1>4, <1>6, <1>7

\* What the commit of a patch makes of it.
LEMMA PatchCommits ==
    ASSUME Inv, NEW c \in Calls, Commit(c), ~Creating(c)
    PROVE  LET t == ticket[c]
               n == Len(db.log)
           IN  /\ t \in DOMAIN db.tickets /\ DOMAIN db'.tickets = DOMAIN db.tickets
               /\ \A u \in DOMAIN db.tickets \ {t} : db'.tickets[u] = db.tickets[u]
               /\ \A f \in Fields : db'.tickets[t][f] =
                     IF f \in changed[c] THEN patch[c][f] ELSE db.tickets[t][f]
               /\ n \in Nat /\ Len(db'.log) \in Nat /\ Len(db'.log) >= n
               /\ \A i \in 1..n : db'.log[i] = db.log[i]
               /\ \A i \in (n + 1)..Len(db'.log) : \E f \in changed[c] :
                     ~InScore(c, f) /\ db'.log[i] = EntryFor(i, c, f)
               /\ \A f \in changed[c] :
                     InScore(c, f)
                     \/ \E i \in (n + 1)..Len(db'.log) : db'.log[i] = EntryFor(i, c, f)
               /\ changed[c] # {} /\ changed[c] \subseteq Fields
               /\ InScore(c, "sentiment_method") => "sentiment" \in changed[c]
  <1>1. db' = draft /\ pc[c] = "commit" /\ Patching(c) /\ changed[c] # {}
    BY DEF Commit, Creating, Patching
  <1>2. writer = c /\ LoopInv(c) /\ PatchInv(c) /\ LockInv(c)
    BY <1>1 DEF Inv, OfCall, LockInv
  <1>3. /\ Len(db.log) \in Nat /\ Len(draft.log) \in Nat /\ Len(draft.log) >= Len(db.log)
        /\ \A i \in 1..Len(db.log) : draft.log[i] = db.log[i]
    BY LogFacts DEF Inv, DraftInv
  <1>4. ticket[c] \in DOMAIN db.tickets /\ db'.tickets = Patched(c)
    BY <1>1, <1>2 DEF LoopInv, PatchInv
  <1>5. /\ DOMAIN db'.tickets = DOMAIN db.tickets
        /\ \A u \in DOMAIN db.tickets \ {ticket[c]} : db'.tickets[u] = db.tickets[u]
        /\ \A f \in Fields : db'.tickets[ticket[c]][f] =
              IF f \in changed[c] THEN patch[c][f] ELSE db.tickets[ticket[c]][f]
    BY <1>4 DEF Patched
  <1>6. /\ \A i \in (Len(db.log) + 1)..Len(db'.log) : \E f \in changed[c] :
              ~InScore(c, f) /\ db'.log[i] = EntryFor(i, c, f)
        /\ \A f \in changed[c] :
              InScore(c, f)
              \/ \E i \in (Len(db.log) + 1)..Len(db'.log) : db'.log[i] = EntryFor(i, c, f)
    BY <1>1, <1>2 DEF PatchInv, Fresh
  <1>7. changed[c] \subseteq Fields
    BY DEF Inv, TypeOK
  <1>8. InScore(c, "sentiment_method") => "sentiment" \in changed[c]
    BY <1>1, <1>2 DEF LoopInv, InScore, ScoredAnyway
  <1> QED BY <1>1, <1>3, <1>4, <1>5, <1>6, <1>7, <1>8

\* What every commit does to the log: it grows behind its end, by entries that carry
\* their place and are about the ticket of the call.
LEMMA CommitAppends ==
    ASSUME Inv, NEW c \in Calls, Commit(c)
    PROVE  LET n == Len(db.log)
           IN  /\ n \in Nat /\ Len(db'.log) \in Nat /\ Len(db'.log) > n
               /\ DOMAIN db.log = 1..n /\ DOMAIN db'.log = 1..Len(db'.log)
               /\ \A i \in 1..n : db'.log[i] = db.log[i]
               /\ \A i \in 1..Len(db'.log) : db'.log[i].id = i
               /\ \A i \in (n + 1)..Len(db'.log) :
                     db'.log[i].ticket = ticket[c] /\ db'.log[i].actor \in {"system", c}
               /\ ticket[c] \in DOMAIN db'.tickets
               /\ DOMAIN db.tickets \subseteq DOMAIN db'.tickets
  <1> DEFINE n == Len(db.log)
  <1>1. db' = draft /\ DraftInv
    BY DEF Commit, Inv
  <1>2. /\ n \in Nat /\ Len(db'.log) \in Nat
        /\ DOMAIN db.log = 1..n /\ DOMAIN db'.log = 1..Len(db'.log)
    BY <1>1, LogFacts DEF Inv
  <1>3. /\ \A i \in 1..n : db'.log[i] = db.log[i]
        /\ \A i \in 1..Len(db'.log) : db'.log[i].id = i
    BY <1>1 DEF DraftInv
  <1>4. CASE Creating(c)
    <2>1. /\ Len(db'.log) = n + 2
          /\ db'.log[n + 1] = CreatedEntry(n + 1, c) /\ db'.log[n + 2] = ScoredEntry(n + 2, c)
          /\ DOMAIN db'.tickets = DOMAIN db.tickets \cup {ticket[c]}
      BY <1>4, CreateCommits
    <2>2. \A i \in (n + 1)..Len(db'.log) : i = n + 1 \/ i = n + 2
      BY <1>2, <2>1
    <2>3. \A i : CreatedEntry(i, c).ticket = ticket[c] /\ CreatedEntry(i, c).actor = "system"
                 /\ ScoredEntry(i, c).ticket = ticket[c] /\ ScoredEntry(i, c).actor = "system"
      BY DEF CreatedEntry, ScoredEntry, Entry
    <2> QED BY <1>2, <1>3, <2>1, <2>2, <2>3
  <1>5. CASE ~Creating(c)
    <2>1. /\ ticket[c] \in DOMAIN db.tickets /\ DOMAIN db'.tickets = DOMAIN db.tickets
          /\ changed[c] # {}
          /\ \A i \in (n + 1)..Len(db'.log) : \E f \in changed[c] :
                ~InScore(c, f) /\ db'.log[i] = EntryFor(i, c, f)
          /\ \A f \in changed[c] :
                InScore(c, f)
                \/ \E i \in (n + 1)..Len(db'.log) : db'.log[i] = EntryFor(i, c, f)
          /\ InScore(c, "sentiment_method") => "sentiment" \in changed[c]
      BY <1>5, PatchCommits
    <2>2. \A i \in (n + 1)..Len(db'.log) :
              db'.log[i].ticket = ticket[c] /\ db'.log[i].actor \in {"system", c}
      BY <2>1, EntryForFacts
    <2>3. \E f \in changed[c] : ~InScore(c, f)
      BY <2>1 DEF InScore
    <2>4. \E i \in (n + 1)..Len(db'.log) : TRUE
      BY <2>1, <2>3
    <2>5. Len(db'.log) > n
      BY <1>2, <2>4
    <2> QED BY <1>2, <1>3, <2>1, <2>2, <2>5
  <1> QED BY <1>4, <1>5

LEMMA ActivityNames ==
    ASSUME NEW f \in Fields \ {"sentiment", "sentiment_method"}, NEW g \in Fields,
           Activity[g] = Activity[f]
    PROVE  g = f
  BY FieldFacts

LEMMA ActivityOfScore ==
    ASSUME NEW f \in Fields \ {"sentiment", "sentiment_method"}
    PROVE  Activity[f] # "created" /\ Activity[f] # "sentiment_scored"
  BY FieldFacts

LEMMA CommitFiled ==
    ASSUME Inv, NEW c \in Calls, Commit(c)
    PROVE  FiledWhole'
  <1> DEFINE n == Len(db.log)
  <1>1. /\ n \in Nat /\ Len(db'.log) \in Nat /\ Len(db'.log) > n
        /\ DOMAIN db.log = 1..n /\ DOMAIN db'.log = 1..Len(db'.log)
        /\ \A i \in 1..n : db'.log[i] = db.log[i]
        /\ \A i \in 1..Len(db'.log) : db'.log[i].id = i
        /\ \A i \in (n + 1)..Len(db'.log) : db'.log[i].ticket = ticket[c]
        /\ ticket[c] \in DOMAIN db'.tickets /\ DOMAIN db.tickets \subseteq DOMAIN db'.tickets
    BY CommitAppends
  <1>2. FiledWhole
    BY DEF Inv
  <1>3. ASSUME NEW i \in DOMAIN db'.log
        PROVE  db'.log[i].id = i /\ db'.log[i].ticket \in DOMAIN db'.tickets
    <2>1. CASE i \in 1..n
      BY <1>1, <1>2, <2>1 DEF FiledWhole
    <2>2. CASE i \in (n + 1)..Len(db'.log)
      BY <1>1, <2>2
    <2> QED BY <1>1, <2>1, <2>2
  <1> DEFINE FiledAt(i, t) ==
          /\ i \in DOMAIN db'.log /\ i + 1 \in DOMAIN db'.log
          /\ db'.log[i].ticket = t /\ db'.log[i].activity = "created"
          /\ db'.log[i + 1].ticket = t /\ db'.log[i + 1].activity = "sentiment_scored"
  <1>4. ASSUME NEW t \in DOMAIN db.tickets
        PROVE  \E i : FiledAt(i, t)
    <2>1. PICK i \in DOMAIN db.log : About(i, t, "created") /\ i + 1 \in DOMAIN db.log
                                      /\ About(i + 1, t, "sentiment_scored")
      BY <1>2 DEF FiledWhole
    <2>2. i \in DOMAIN db'.log /\ i + 1 \in DOMAIN db'.log
          /\ db'.log[i] = db.log[i] /\ db'.log[i + 1] = db.log[i + 1]
      BY <1>1, <2>1
    <2> QED BY <2>1, <2>2 DEF About
  <1>5. CASE Creating(c)
    <2>1. /\ DOMAIN db'.tickets = DOMAIN db.tickets \cup {ticket[c]} /\ Len(db'.log) = n + 2
          /\ db'.log[n + 1] = CreatedEntry(n + 1, c) /\ db'.log[n + 2] = ScoredEntry(n + 2, c)
      BY <1>5, CreateCommits
    <2>2. /\ db'.log[n + 1].activity = "created"
          /\ db'.log[n + 2].activity = "sentiment_scored"
      BY <2>1 DEF CreatedEntry, ScoredEntry, Entry
    <2>3. n + 1 \in DOMAIN db'.log /\ (n + 1) + 1 \in DOMAIN db'.log /\ (n + 1) + 1 = n + 2
          /\ n + 1 \in (n + 1)..Len(db'.log) /\ n + 2 \in (n + 1)..Len(db'.log)
      BY <1>1, <2>1
    <2>4. FiledAt(n + 1, ticket[c])
      BY <1>1, <2>2, <2>3
    <2>5. \A t \in DOMAIN db'.tickets : \E i : FiledAt(i, t)
      BY <1>4, <2>1, <2>4
    <2> QED BY <1>3, <2>5 DEF FiledWhole, About
  <1>6. CASE ~Creating(c)
    <2>1. DOMAIN db'.tickets = DOMAIN db.tickets
      BY <1>6, PatchCommits
    <2>2. \A t \in DOMAIN db'.tickets : \E i : FiledAt(i, t)
      BY <1>4, <2>1
    <2> QED BY <1>3, <2>2 DEF FiledWhole, About
  <1> QED BY <1>5, <1>6

LEMMA CommitSnapshot ==
    ASSUME Inv, NEW c \in Calls, Commit(c)
    PROVE  SnapshotIsLastEntry'
  <1> DEFINE n == Len(db.log)
  <1>1. /\ n \in Nat /\ Len(db'.log) \in Nat /\ Len(db'.log) > n
        /\ DOMAIN db.log = 1..n /\ DOMAIN db'.log = 1..Len(db'.log)
        /\ \A i \in 1..n : db'.log[i] = db.log[i]
        /\ \A i \in (n + 1)..Len(db'.log) : db'.log[i].ticket = ticket[c]
    BY CommitAppends
  <1>2. SUFFICES ASSUME NEW t, NEW f \in Fields \ {"sentiment", "sentiment_method"},
                        NEW i \in DOMAIN db'.log,
                        db'.log[i].ticket = t, db'.log[i].activity = Activity[f],
                        \A j \in DOMAIN db'.log : j > i =>
                            ~(db'.log[j].ticket = t /\ db'.log[j].activity = Activity[f])
                 PROVE  db'.log[i].to = db'.tickets[t][f]
    BY DEF SnapshotIsLastEntry, About
  <1>3. CASE i \in 1..n
    <2>1. /\ db.log[i].ticket = t /\ db.log[i].activity = Activity[f]
          /\ db'.log[i] = db.log[i]
          /\ \A j \in DOMAIN db.log : j > i =>
                ~(db.log[j].ticket = t /\ db.log[j].activity = Activity[f])
      BY <1>1, <1>2, <1>3
    <2>2. t \in DOMAIN db.tickets
      BY <1>1, <1>3, <2>1 DEF Inv, FiledWhole
    <2>3. db.log[i].to = db.tickets[t][f]
      BY <1>1, <1>3, <2>1, <2>2 DEF Inv, SnapshotIsLastEntry, About
    <2>4. db'.tickets[t][f] = db.tickets[t][f]
      <3>1. CASE Creating(c)
        BY <2>2, <3>1, CreateCommits
      <3>2. CASE ~Creating(c) /\ t # ticket[c]
        BY <2>2, <3>2, PatchCommits
      <3>3. CASE ~Creating(c) /\ t = ticket[c]
        <4>1. \A g \in changed[c] :
                  InScore(c, g)
                  \/ \E j \in (n + 1)..Len(db'.log) : db'.log[j] = EntryFor(j, c, g)
          BY <3>3, PatchCommits
        <4>2. f \notin changed[c]
          <5>1. SUFFICES ASSUME f \in changed[c] PROVE FALSE
            OBVIOUS
          <5>2. PICK j \in (n + 1)..Len(db'.log) : db'.log[j] = EntryFor(j, c, f)
            BY <4>1, <5>1 DEF InScore
          <5>3. db'.log[j].ticket = t /\ db'.log[j].activity = Activity[f]
            BY <3>3, <5>2, EntryForFacts
          <5>4. j \in DOMAIN db'.log /\ j > i
            BY <1>1, <1>3
          <5> QED BY <1>2, <5>3, <5>4
        <4> QED BY <3>3, <4>2, PatchCommits
      <3> QED BY <3>1, <3>2, <3>3
    <2> QED BY <2>1, <2>3, <2>4
  <1>4. CASE i \in (n + 1)..Len(db'.log)
    <2>1. t = ticket[c]
      BY <1>1, <1>2, <1>4
    <2>2. ~Creating(c)
      <3>1. SUFFICES ASSUME Creating(c) PROVE FALSE
        OBVIOUS
      <3>2. /\ Len(db'.log) = n + 2
            /\ db'.log[n + 1] = CreatedEntry(n + 1, c) /\ db'.log[n + 2] = ScoredEntry(n + 2, c)
        BY <3>1, CreateCommits
      <3>3. /\ db'.log[n + 1].activity = "created"
            /\ db'.log[n + 2].activity = "sentiment_scored"
        BY <3>2 DEF CreatedEntry, ScoredEntry, Entry
      <3>4. i = n + 1 \/ i = n + 2
        BY <1>1, <1>4, <3>2
      <3> QED BY <1>2, <3>3, <3>4, ActivityOfScore
    <2>3. /\ \A j \in (n + 1)..Len(db'.log) : \E g \in changed[c] :
                ~InScore(c, g) /\ db'.log[j] = EntryFor(j, c, g)
          /\ \A g \in Fields : db'.tickets[ticket[c]][g] =
                IF g \in changed[c] THEN patch[c][g] ELSE db.tickets[ticket[c]][g]
          /\ changed[c] \subseteq Fields
      BY <2>2, PatchCommits
    <2>4. PICK g \in changed[c] : db'.log[i] = EntryFor(i, c, g)
      BY <1>4, <2>3
    <2>5. g = f
      BY <1>2, <2>3, <2>4, EntryForFacts, ActivityNames
    <2>6. db'.log[i].to = patch[c][f]
      BY <2>4, <2>5, EntryForFacts
    <2> QED BY <2>1, <2>3, <2>4, <2>5, <2>6
  <1> QED BY <1>1, <1>2, <1>3, <1>4

LEMMA CommitKeeps ==
    ASSUME Inv, NEW c \in Calls, Commit(c)
    PROVE  Inv'
  <1>1. /\ pc[c] = "commit" /\ db' = draft /\ draft' = draft /\ writer' = NoCall
        /\ pc' = [pc EXCEPT ![c] = "answer"]
        /\ UNCHANGED <<ticket, patch, row, todo, changed, crashes>>
        /\ writer = c
    BY DEF Commit, GoTo, local, Inv, OfCall, LockInv
  <1>2. TypeOK'
    BY <1>1 DEF Inv, TypeOK
  <1>3. DraftInv'
    <2>1. Len(draft.log) \in Nat
      BY LogFacts DEF Inv
    <2> QED BY <1>1, <2>1 DEF Inv, DraftInv
  <1> DEFINE n == Len(db.log)
  <1>4. /\ n \in Nat /\ Len(db'.log) \in Nat /\ Len(db'.log) > n
        /\ DOMAIN db.log = 1..n /\ DOMAIN db'.log = 1..Len(db'.log)
        /\ \A i \in 1..n : db'.log[i] = db.log[i]
        /\ \A i \in (n + 1)..Len(db'.log) : db'.log[i].actor \in {"system", c}
        /\ DOMAIN db.tickets \subseteq DOMAIN db'.tickets
    BY CommitAppends
  <1>5. ASSUME NEW d \in Calls \ {c} PROVE OfCall(d)'
    <2>1. SameCall(d) /\ writer # d /\ writer' # d
      BY <1>1, StoreAssumption DEF Inv, TypeOK, SameCall
    <2>2. d \notin {"system", c}
      BY StoreAssumption
    <2>3. Grows(d)
      BY <1>4, <2>2 DEF Grows
    <2> QED BY <2>1, <2>3, OthersKeep DEF Inv
  <1>6. OfCall(c)'
    <2>1. pc'[c] = "answer" /\ ~Creating(c)' /\ ~Patching(c)' /\ writer' # c
      BY <1>1, StoreAssumption DEF Inv, TypeOK, Creating, Patching
    <2>2. LockInv(c)' /\ LoopInv(c)' /\ CreateInv(c)' /\ PatchInv(c)'
      BY <1>1, <2>1 DEF Inv, OfCall, LockInv, LoopInv, CreateInv, PatchInv
    <2>3. ASSUME NEW f \in changed[c]
          PROVE  \E i \in DOMAIN db'.log :
                     db'.log[i].actor = c /\ db'.log[i].activity = Activity[f]
      <3>1. ~Creating(c)
        BY <1>1, <2>3 DEF Creating
      <3>2. /\ \A g \in changed[c] :
                  InScore(c, g)
                  \/ \E i \in (n + 1)..Len(db'.log) : db'.log[i] = EntryFor(i, c, g)
            /\ InScore(c, "sentiment_method") => "sentiment" \in changed[c]
        BY <3>1, PatchCommits
      <3>3. PICK g \in changed[c] : ~InScore(c, g) /\ Activity[g] = Activity[f]
        <4>1. CASE InScore(c, f)
          <5>1. f = "sentiment_method" /\ "sentiment" \in changed[c]
            BY <3>2, <4>1 DEF InScore
          <5> QED BY <5>1, FieldFacts DEF InScore
        <4>2. CASE ~InScore(c, f)
          BY <4>2
        <4> QED BY <4>1, <4>2
      <3>4. PICK i \in (n + 1)..Len(db'.log) : db'.log[i] = EntryFor(i, c, g)
        BY <3>2, <3>3
      <3>5. db'.log[i].actor = c /\ db'.log[i].activity = Activity[f] /\ i \in DOMAIN db'.log
        BY <1>4, <3>3, <3>4, EntryForFacts
      <3> QED BY <3>5
    <2>4. ActorInv(c)'
      BY <1>1, <2>1, <2>3 DEF ActorInv
    <2> QED BY <2>2, <2>4 DEF OfCall
  <1> QED BY <1>2, <1>3, <1>5, <1>6, CommitFiled, CommitSnapshot DEF Inv

----------------------------------------------------------------------------
(* The theorems.                                                             *)

LEMMA StutterKeeps == Inv /\ UNCHANGED vars => Inv'
  <1> SUFFICES ASSUME Inv, UNCHANGED vars PROVE Inv'
    OBVIOUS
  <1>1. UNCHANGED <<db, draft, writer>> /\ \A d \in Calls : SameCall(d)
    BY DEF vars, SameCall
  <1>2. \A d \in Calls : OfCall(d)'
    BY <1>1, StillKeeps DEF Inv
  <1>3. TypeOK' /\ DraftInv' /\ FiledWhole' /\ SnapshotIsLastEntry'
    BY DEF vars, Inv, TypeOK, DraftInv, FiledWhole, SnapshotIsLastEntry, About
  <1> QED BY <1>2, <1>3 DEF Inv

LEMMA NextKeeps ==
    ASSUME Inv, Next
    PROVE  Inv'
  <1>1. ASSUME NEW c \in Calls, Step(c) PROVE Inv'
    <2>1. CASE \E f \in Fields : SkipField(c, f) \/ TakeMethod(c, f) \/ LogField(c, f)
      BY <2>1, SkipKeeps, TakeMethodKeeps, LogFieldKeeps
    <2>2. CASE UpdateRefused(c)
      <3>1. RollBack(c) /\ UNCHANGED crashes /\ UNCHANGED local /\ pc[c] = "fields"
        BY <2>2 DEF UpdateRefused, AllFieldsDone
      <3> QED BY <3>1, RollBackKeeps
    <2> QED BY <1>1, <2>1, <2>2, InsertKeeps, CreateLogsKeep, SelectKeeps, AnswersKeep, UpdateKeeps,
               CommitKeeps DEF Step
  <1>2. ASSUME NEW c \in Calls, StatementFails(c) PROVE Inv'
    BY <1>2, RollBackKeeps DEF StatementFails
  <1>3. CASE Crash(Rest) \/ Crash(Mcp)
    BY <1>3, CrashKeeps DEF Calls
  <1> QED BY <1>1, <1>2, <1>3, CallsKeep DEF Next

\* The inductive invariant holds in every reachable state of the store.
THEOREM Invariance == Spec => []Inv
  <1>1. Inv /\ [Next]_vars => Inv'
    BY NextKeeps, StutterKeeps
  <1> QED BY InitInv, <1>1, PTL DEF Spec

\* The tables, the counters and the state of the calls have their types: the counter
\* of the log is its length, the ids of the tickets are 1 to theirs.
THEOREM TypeCorrect == Spec => []TypeOK
  <1>1. Inv => TypeOK
    BY DEF Inv
  <1> QED BY Invariance, <1>1, PTL

\* A ticket is filed with its two entries or not at all, whatever fails or is killed.
THEOREM FiledAtomically == Spec => []FiledWhole
  <1>1. Inv => FiledWhole
    BY DEF Inv
  <1> QED BY Invariance, <1>1, PTL

\* The last entry about a plain field is what the ticket holds.
THEOREM LastEntryTells == Spec => []SnapshotIsLastEntry
  <1>1. Inv => SnapshotIsLastEntry
    BY DEF Inv
  <1> QED BY Invariance, <1>1, PTL

\* A failed call has left nothing behind, an answered one all of its entries.
THEOREM AnswersAreTrue == Spec => []AnswerIsTrue
  <1>1. Inv => AnswerIsTrue
    BY DEF Inv, OfCall, ActorInv, AnswerIsTrue
  <1> QED BY Invariance, <1>1, PTL

\* The database implements the ledger: a commit is one of its steps, and every other
\* step is none.
THEOREM ImplementsLedger == Spec => Ledger
  <1>1. Init => L!Init
    BY DEF Init, EmptyDb, L!Init
  <1>2. Inv /\ [Next]_vars => [L!Next]_(L!vars)
    <2>1. SUFFICES ASSUME Inv, [Next]_vars PROVE [L!Next]_(L!vars)
      OBVIOUS
    <2>2. CASE UNCHANGED vars
      BY <2>2 DEF vars, L!vars
    <2>3. ASSUME NEW c \in Calls, Commit(c) PROVE L!Next
      <3> DEFINE t == ticket[c]
                 n == Len(db.log)
      <3>1. /\ n \in Nat /\ Len(db'.log) \in Nat /\ Len(db'.log) > n
            /\ \A i \in 1..n : db'.log[i] = db.log[i]
            /\ \A i \in (n + 1)..Len(db'.log) : db'.log[i].ticket = t
            /\ t \in DOMAIN db'.tickets
        BY <2>1, <2>3, CommitAppends
      <3>2. L!Appended(t)
        BY <3>1 DEF L!Appended
      <3>3. CASE Creating(c)
        <4>1. /\ t \notin DOMAIN db.tickets /\ DOMAIN db'.tickets = DOMAIN db.tickets \cup {t}
              /\ db'.tickets[t] = row[c]
              /\ \A u \in DOMAIN db.tickets : db'.tickets[u] = db.tickets[u]
              /\ Len(db'.log) = n + 2
              /\ db'.log[n + 1] = CreatedEntry(n + 1, c)
              /\ db'.log[n + 2] = ScoredEntry(n + 2, c)
          BY <2>1, <2>3, <3>3, CreateCommits
        <4>2. /\ db'.log[n + 1].activity = "created"
              /\ db'.log[n + 2].activity = "sentiment_scored"
              /\ db'.log[n + 2].to = row[c]["sentiment"]
              /\ db'.log[n + 2].method = row[c]["sentiment_method"]
          BY <4>1 DEF CreatedEntry, ScoredEntry, Entry
        <4>3. /\ Names(db'.log[n + 2], "sentiment", db'.tickets[t]["sentiment"])
              /\ Names(db'.log[n + 2], "sentiment_method", db'.tickets[t]["sentiment_method"])
          BY <4>1, <4>2, FieldFacts DEF Names
        <4>4. L!File(t)
          BY <3>2, <4>1, <4>2, <4>3 DEF L!File, L!Names, Names, L!Activity, Activity, L!Fields, Fields,
             L!FieldOrder, FieldOrder
        <4> QED BY <3>1, <4>4 DEF L!Next
      <3>4. CASE ~Creating(c)
        <4>1. /\ t \in DOMAIN db.tickets /\ DOMAIN db'.tickets = DOMAIN db.tickets
              /\ \A u \in DOMAIN db.tickets \ {t} : db'.tickets[u] = db.tickets[u]
              /\ \A f \in Fields : db'.tickets[t][f] =
                    IF f \in changed[c] THEN patch[c][f] ELSE db.tickets[t][f]
              /\ \A i \in (n + 1)..Len(db'.log) : \E f \in changed[c] :
                    ~InScore(c, f) /\ db'.log[i] = EntryFor(i, c, f)
              /\ \A f \in changed[c] :
                    InScore(c, f)
                    \/ \E i \in (n + 1)..Len(db'.log) : db'.log[i] = EntryFor(i, c, f)
              /\ changed[c] \subseteq Fields
              /\ InScore(c, "sentiment_method") => "sentiment" \in changed[c]
          BY <2>1, <2>3, <3>4, PatchCommits
        <4>2. ASSUME NEW i, NEW f \in changed[c], db'.log[i] = EntryFor(i, c, f)
              PROVE  Names(db'.log[i], f, db'.tickets[t][f])
          BY <4>1, <4>2, EntryForFacts DEF Names
        <4>3. ASSUME NEW f \in Fields, db'.tickets[t][f] # db.tickets[t][f],
                     ~(f = "sentiment_method" /\ db'.tickets[t][f] = Null)
              PROVE  \E i \in (n + 1)..Len(db'.log) : Names(db'.log[i], f, db'.tickets[t][f])
          <5>1. f \in changed[c]
            BY <4>1, <4>3
          <5>2. CASE ~InScore(c, f)
            BY <4>1, <4>2, <5>1, <5>2
          <5>3. CASE InScore(c, f)
            <6>1. f = "sentiment_method" /\ "sentiment" \in changed[c]
                  /\ ~InScore(c, "sentiment")
              BY <4>1, <5>3 DEF InScore
            <6>2. PICK i \in (n + 1)..Len(db'.log) : db'.log[i] = EntryFor(i, c, "sentiment")
              BY <4>1, <6>1
            <6>3. patch[c][f] # Null /\ f \in DOMAIN patch[c]
              <7>1. db'.tickets[t][f] = patch[c][f]
                BY <4>1, <5>1
              <7>2. LockInv(c)
                BY <2>1 DEF Inv, OfCall
              <7> QED BY <4>3, <5>1, <6>1, <7>1, <7>2 DEF LockInv
            <6>4. MethodFor(c) = patch[c][f]
              BY <6>1, <6>3 DEF MethodFor
            <6>5. Names(db'.log[i], f, db'.tickets[t][f])
              BY <4>1, <5>1, <6>1, <6>2, <6>4, EntryForFacts, FieldFacts DEF Names
            <6> QED BY <6>5
          <5> QED BY <5>2, <5>3
        <4>4. \A i \in (n + 1)..Len(db'.log) : \E f \in Fields :
                  Names(db'.log[i], f, db'.tickets[t][f])
          BY <4>1, <4>2
        <4>5. L!Change(t)
          BY <3>2, <4>1, <4>3, <4>4 DEF L!Change, L!New, L!Names, Names, L!Fields, Fields,
             L!FieldOrder, FieldOrder, L!Activity, Activity, L!Null, Null
        <4> QED BY <3>1, <4>5 DEF L!Next
      <3> QED BY <3>3, <3>4
    <2>4. ASSUME Next, ~ \E c \in Calls : Commit(c) PROVE db' = db
      BY <2>4 DEF Next, CallCreate, CallPatch, Step, Insert, LogCreated, LogScored, Select,
         SkipField, TakeMethod, LogField, NothingChanged, Update, UpdateRefused, Answer,
         StatementFails, Crash, RollBack, Execute
    <2>5. CASE Next
      BY <2>3, <2>4, <2>5 DEF L!vars
    <2> QED BY <2>1, <2>2, <2>5
  <1> QED BY <1>1, <1>2, Invariance, PTL DEF Spec, Ledger, L!Spec

----------------------------------------------------------------------------
(* The safety half of LockReleased: how far a call is from its end.          *)

\* The statements a call may still have before it, one for each field in the loop.
Rank(c) ==
    CASE pc[c] = "idle" -> 12
      [] pc[c] = "select" -> 11
      [] pc[c] = "insert" -> 5
      [] pc[c] = "created" -> 4
      [] pc[c] = "scored" -> 3
      [] pc[c] = "fields" -> 3 + Cardinality(todo[c])
      [] pc[c] = "commit" -> 2
      [] pc[c] = "answer" -> 1
      [] OTHER -> 0

LEMMA OneMore ==
    ASSUME NEW S, NEW x, IsFiniteSet(S)
    PROVE  /\ IsFiniteSet(S \cup {x})
           /\ Cardinality(S) \in Nat /\ Cardinality(S \cup {x}) \in Nat
           /\ Cardinality(S \cup {x}) <= Cardinality(S) + 1
  <1>1. /\ IsFiniteSet(S \cup {x})
        /\ Cardinality(S \cup {x}) = IF x \in S THEN Cardinality(S) ELSE Cardinality(S) + 1
    BY FS_AddElement
  <1>2. Cardinality(S) \in Nat
    BY FS_CardinalityType
  <1> QED BY <1>1, <1>2

LEMMA SixFields == IsFiniteSet(Fields) /\ Cardinality(Fields) <= 6
  <1> DEFINE one == {"status"}
             two == one \cup {"priority"}
             three == two \cup {"sentiment"}
             four == three \cup {"sentiment_method"}
             five == four \cup {"assignee"}
             six == five \cup {"reply_message"}
             Counts(S, T) == /\ IsFiniteSet(T) /\ Cardinality(S) \in Nat /\ Cardinality(T) \in Nat
                             /\ Cardinality(T) <= Cardinality(S) + 1
  <1>1. Fields = six
    BY FieldFacts
  <1>2. IsFiniteSet(one) /\ Cardinality(one) = 1
    BY FS_Singleton
  <1>3. Counts(one, two)
    BY <1>2, OneMore
  <1>4. Counts(two, three)
    BY <1>3, OneMore
  <1>5. Counts(three, four)
    BY <1>4, OneMore
  <1>6. Counts(four, five)
    BY <1>5, OneMore
  <1>7. Counts(five, six)
    BY <1>6, OneMore
  <1> HIDE DEF one, two, three, four, five, six
  <1> QED BY <1>1, <1>2, <1>3, <1>4, <1>5, <1>6, <1>7

\* A patch has six fields to come to, and coming to one leaves one less.
LEMMA FieldsLeft ==
    ASSUME NEW S \in SUBSET Fields
    PROVE  /\ Cardinality(S) \in 0..6
           /\ \A f \in S : Cardinality(S \ {f}) = Cardinality(S) - 1
  <1>1. IsFiniteSet(S) /\ Cardinality(S) <= Cardinality(Fields)
    BY SixFields, FS_Subset
  <1>2. Cardinality(S) \in Nat /\ Cardinality(Fields) \in Nat
    BY SixFields, <1>1, FS_CardinalityType
  <1>3. \A f \in S : Cardinality(S \ {f}) = Cardinality(S) - 1
    BY <1>1, FS_RemoveElement
  <1> QED BY SixFields, <1>1, <1>2, <1>3

LEMMA RankRange ==
    ASSUME TypeOK, NEW c \in Calls
    PROVE  Rank(c) \in 0..12
  <1>1. Cardinality(todo[c]) \in 0..6
    BY FieldsLeft DEF TypeOK
  <1> QED BY <1>1 DEF Rank

LEMMA NextRange ==
    ASSUME Inv, Next, NEW c \in Calls
    PROVE  Rank(c)' \in 0..12
  <1>1. TypeOK'
    BY NextKeeps DEF Inv
  <1>2. Cardinality(todo'[c]) \in 0..6
    BY <1>1, FieldsLeft DEF TypeOK
  <1> QED BY <1>2 DEF Rank

\* Who holds the lock is not at its end.
LEMMA HolderGoesOn ==
    ASSUME Inv, NEW c \in Calls, writer = c
    PROVE  Rank(c) > 0
  <1>1. pc[c] \in {"created", "scored", "fields", "commit"}
    BY DEF Inv, OfCall, LockInv, Creating, Patching
  <1>2. Cardinality(todo[c]) \in 0..6
    BY FieldsLeft DEF Inv, TypeOK
  <1> QED BY <1>1, <1>2 DEF Rank

\* Another call's steps do not move a call.
LEMMA SameRank ==
    ASSUME NEW d, pc'[d] = pc[d], todo'[d] = todo[d]
    PROVE  Rank(d)' = Rank(d)
  BY DEF Rank

\* A call that gives up, by an error or a kill, is at its end.
LEMMA EndedRank ==
    ASSUME TypeOK, NEW d \in Calls, pc'[d] \in {"failed", "lost"}
    PROVE  Rank(d)' = 0
  BY DEF Rank

LEMMA StepRanks ==
    ASSUME TypeOK, NEW c \in Calls, Step(c)
    PROVE  /\ Rank(c)' < Rank(c)
           /\ \A d \in Calls \ {c} : Rank(d)' = Rank(d)
  <1>0. /\ pc \in [Calls -> {"idle", "insert", "created", "scored", "select", "fields", "commit",
                             "answer", "done", "missing", "failed", "lost"}]
        /\ todo \in [Calls -> SUBSET Fields]
        /\ Cardinality(todo[c]) \in 0..6
    BY FieldsLeft DEF TypeOK
  <1>1. CASE Insert(c) \/ LogCreated(c) \/ LogScored(c) \/ Commit(c) \/ Answer(c)
    <2>1. UNCHANGED todo
      BY <1>1 DEF Insert, LogCreated, LogScored, Commit, Answer, local
    <2>2. /\ <<pc[c], pc'[c]>> \in {<<"insert", "created">>, <<"created", "scored">>,
                                    <<"scored", "commit">>, <<"commit", "answer">>,
                                    <<"answer", "done">>}
          /\ \A d \in Calls \ {c} : pc'[d] = pc[d]
      BY <1>0, <1>1 DEF Insert, LogCreated, LogScored, Commit, Answer, GoTo
    <2>3. Rank(c)' < Rank(c)
      BY <2>2 DEF Rank
    <2> QED BY <2>1, <2>2, <2>3, SameRank
  <1>2. CASE Select(c)
    <2>1. /\ pc[c] = "select" /\ pc'[c] \in {"fields", "missing"}
          /\ \A d \in Calls \ {c} : pc'[d] = pc[d] /\ todo'[d] = todo[d]
      BY <1>0, <1>2 DEF Select, GoTo
    <2>2. pc'[c] = "fields" => todo'[c] = DOMAIN patch[c]
      BY <1>0, <1>2 DEF Select, GoTo
    <2>3. DOMAIN patch[c] \in SUBSET Fields
      BY DEF TypeOK, AllPatches
    <2>4. Cardinality(DOMAIN patch[c]) \in 0..6
      BY <2>3, FieldsLeft
    <2>5. Rank(c)' < Rank(c)
      BY <2>1, <2>2, <2>4 DEF Rank
    <2> QED BY <2>1, <2>5, SameRank
  <1>3. ASSUME NEW f \in Fields, SkipField(c, f) \/ TakeMethod(c, f) \/ LogField(c, f)
        PROVE  Rank(c)' < Rank(c) /\ \A d \in Calls \ {c} : Rank(d)' = Rank(d)
    <2>1. AtField(c, f) /\ UNCHANGED pc
      BY <1>3 DEF SkipField, TakeMethod, LogField
    <2>2. /\ pc[c] = "fields" /\ f \in todo[c] /\ todo'[c] = todo[c] \ {f}
          /\ \A d \in Calls \ {c} : todo'[d] = todo[d]
      BY <1>0, <2>1 DEF AtField
    <2>3. Cardinality(todo'[c]) = Cardinality(todo[c]) - 1
      BY <1>0, <2>2, FieldsLeft
    <2>4. Rank(c)' < Rank(c)
      BY <1>0, <2>1, <2>2, <2>3 DEF Rank
    <2> QED BY <2>1, <2>2, <2>4, SameRank
  <1>4. CASE NothingChanged(c) \/ Update(c) \/ UpdateRefused(c)
    <2>1. /\ UNCHANGED todo /\ pc[c] = "fields" /\ pc'[c] \in {"answer", "commit", "failed"}
          /\ \A d \in Calls \ {c} : pc'[d] = pc[d]
      BY <1>0, <1>4 DEF NothingChanged, Update, UpdateRefused, RollBack, AllFieldsDone, GoTo, local
    <2>2. Rank(c)' < Rank(c)
      BY <1>0, <2>1 DEF Rank
    <2> QED BY <2>1, <2>2, SameRank
  <1> QED BY <1>1, <1>2, <1>3, <1>4 DEF Step

\* What is not a step of a call takes no call back.
LEMMA OthersRank ==
    ASSUME TypeOK, Next, ~\E c \in Calls : Step(c), NEW d \in Calls
    PROVE  Rank(d)' <= Rank(d)
  <1>0. /\ pc \in [Calls -> {"idle", "insert", "created", "scored", "select", "fields", "commit",
                             "answer", "done", "missing", "failed", "lost"}]
        /\ Rank(d) \in 0..12
    BY RankRange DEF TypeOK
  <1>1. ASSUME NEW c \in Calls, CallCreate(c) \/ \E t \in 1..MaxTickets, p \in Sendable(c) :
                                                     CallPatch(c, t, p)
        PROVE  Rank(d)' <= Rank(d)
    <2>1. /\ UNCHANGED todo /\ pc[c] = "idle" /\ pc'[c] \in {"insert", "select"}
          /\ \A e \in Calls \ {c} : pc'[e] = pc[e]
      BY <1>0, <1>1 DEF CallCreate, CallPatch, MayStart, GoTo
    <2>2. CASE d = c
      BY <2>1, <2>2 DEF Rank
    <2>3. CASE d # c
      BY <1>0, <2>1, <2>3, SameRank
    <2> QED BY <2>2, <2>3
  <1>2. ASSUME NEW c \in Calls, StatementFails(c) PROVE Rank(d)' <= Rank(d)
    <2>1. UNCHANGED todo /\ pc' = [pc EXCEPT ![c] = "failed"]
      BY <1>2 DEF StatementFails, RollBack, GoTo, local
    <2>2. pc'[d] = "failed" \/ pc'[d] = pc[d]
      BY <1>0, <2>1
    <2> QED BY <1>0, <2>1, <2>2, SameRank, EndedRank
  <1>3. CASE Crash(Rest) \/ Crash(Mcp)
    <2>1. UNCHANGED todo /\ (pc'[d] = "lost" \/ pc'[d] = pc[d])
      BY <1>0, <1>3 DEF Crash, local
    <2> QED BY <1>0, <2>1, SameRank, EndedRank
  <1> QED BY <1>1, <1>2, <1>3 DEF Next

\* No call works for ever (the two handlers, storage.py): each of its steps brings it
\* closer to its end, nothing another call, a failure or a kill does takes it back, and
\* at its end it has let go of the write lock.  Together with the fairness of FairSpec
\* this is LockReleased, for any number of calls and any patches.
THEOREM WorkIsBounded ==
    Spec => /\ [](\A c \in Calls : Rank(c) \in 0..12 /\ (writer = c => Rank(c) > 0))
            /\ [][\A c \in Calls : Rank(c)' <= Rank(c) /\ (Step(c) => Rank(c)' < Rank(c))]_vars
  <1>1. Inv => \A c \in Calls : Rank(c) \in 0..12 /\ (writer = c => Rank(c) > 0)
    BY RankRange, HolderGoesOn DEF Inv
  <1>2. Inv /\ [Next]_vars =>
            [\A c \in Calls : Rank(c)' <= Rank(c) /\ (Step(c) => Rank(c)' < Rank(c))]_vars
    <2> SUFFICES ASSUME Inv, Next
                 PROVE  \A c \in Calls : Rank(c)' <= Rank(c) /\ (Step(c) => Rank(c)' < Rank(c))
      OBVIOUS
    <2>1. \A c \in Calls : Rank(c) \in 0..12
      BY RankRange DEF Inv
    <2>2. CASE \E c \in Calls : Step(c)
      <3>1. PICK c \in Calls : Step(c)
        BY <2>2
      <3>2. Rank(c)' < Rank(c) /\ \A d \in Calls \ {c} : Rank(d)' = Rank(d)
        BY <3>1, StepRanks DEF Inv
      <3>3. ASSUME NEW d \in Calls PROVE Rank(d)' <= Rank(d)
        <4>1. Rank(d) \in 0..12 /\ Rank(d)' \in 0..12
          BY <2>1, NextRange
        <4> QED BY <3>2, <4>1
      <3>4. ASSUME NEW d \in Calls, Step(d) PROVE Rank(d)' < Rank(d)
        BY <3>4, StepRanks DEF Inv
      <3> QED BY <3>3, <3>4
    <2>3. CASE ~\E c \in Calls : Step(c)
      BY <2>3, OthersRank DEF Inv
    <2> QED BY <2>2, <2>3
  <1> QED BY <1>1, <1>2, Invariance, PTL DEF Spec

=============================================================================
