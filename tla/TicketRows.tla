----------------------------- MODULE TicketRows -----------------------------
(***************************************************************************)
(* The rows of the support database (models.py, storage.py): a ticket as its  *)
(* patchable fields, a log entry as the ticket it is about, the activity, the  *)
(* details and the actor.                                                    *)
(***************************************************************************)
EXTENDS Naturals, Sequences

CONSTANT Values   \* what the fields may hold, Null apart

Null == "null"

\* In the order in which model_dump lists the fields of a patch.
FieldOrder ==
    <<"status", "priority", "sentiment", "sentiment_method", "assignee", "reply_message">>
Fields == {FieldOrder[i] : i \in 1..6}
NotNull == {"status", "priority"}

Tickets == {row \in [Fields -> Values \cup {Null}] : \A f \in NotNull : row[f] # Null}

\* _LOGGABLE_FIELDS, and sentiment_method, which is logged with the sentiment.
Activity ==
    [f \in Fields |-> CASE f = "status" -> "status_changed"
                        [] f = "priority" -> "priority_changed"
                        [] f \in {"sentiment", "sentiment_method"} -> "sentiment_scored"
                        [] f = "assignee" -> "assigned"
                        [] f = "reply_message" -> "replied"]

\* An entry names the value a field was given, and for a score its method too.
Names(entry, f, value) ==
    /\ entry.activity = Activity[f]
    /\ IF f = "sentiment_method" THEN entry.method = value ELSE entry.to = value
=============================================================================
