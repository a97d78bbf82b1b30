---------------------------- MODULE TicketLedger ----------------------------
(***************************************************************************)
(* What the support database promises its readers, without transactions or    *)
(* processes: an append-only log, in which the entries of one call stand       *)
(* together, and tickets that change in no way the log does not name.         *)
(***************************************************************************)
EXTENDS TicketRows

VARIABLES tickets, log

vars == <<tickets, log>>

Init == DOMAIN tickets = {} /\ log = <<>>

\* log' is log and some entries about t behind it.
Appended(t) ==
    /\ Len(log') > Len(log)
    /\ \A i \in 1..Len(log) : log'[i] = log[i]
    /\ \A i \in (Len(log) + 1)..Len(log') : log'[i].ticket = t

New == (Len(log) + 1)..Len(log')

\* A new ticket appears with the two entries of its filing.
File(t) ==
    /\ t \notin DOMAIN tickets
    /\ DOMAIN tickets' = DOMAIN tickets \cup {t}
    /\ \A u \in DOMAIN tickets : tickets'[u] = tickets[u]
    /\ Appended(t)
    /\ Len(log') = Len(log) + 2
    /\ log'[Len(log) + 1].activity = "created"
    /\ Names(log'[Len(log) + 2], "sentiment", tickets'[t]["sentiment"])
    /\ Names(log'[Len(log) + 2], "sentiment_method", tickets'[t]["sentiment_method"])

\* One ticket changes: each change is named by a new entry, and each new entry
\* names what the ticket now holds.  Only a method that is taken away while the
\* ticket is scored again goes unnamed.
Change(t) ==
    /\ t \in DOMAIN tickets
    /\ DOMAIN tickets' = DOMAIN tickets
    /\ \A u \in DOMAIN tickets \ {t} : tickets'[u] = tickets[u]
    /\ Appended(t)
    /\ \A f \in Fields :
          \/ tickets'[t][f] = tickets[t][f]
          \/ \E i \in New : Names(log'[i], f, tickets'[t][f])
          \/ f = "sentiment_method" /\ tickets'[t][f] = Null
    /\ \A i \in New : \E f \in Fields : Names(log'[i], f, tickets'[t][f])

Next == \E t \in DOMAIN tickets' : File(t) \/ Change(t)

Spec == Init /\ [][Next]_vars
=============================================================================
