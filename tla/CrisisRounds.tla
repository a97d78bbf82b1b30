---------------------------- MODULE CrisisRounds ----------------------------
(***************************************************************************)
(* What the autonomous customer agent promises, without connections, model   *)
(* calls or memory: events are heard one at a time and never out of order or *)
(* twice, each event is a round in which every persona reacts exactly once,  *)
(* a round is over before the next event is heard, and a persona files at    *)
(* most one ticket about an event: in its reaction, or later, when the store *)
(* carries out a request that the reaction has given up.                     *)
(***************************************************************************)
EXTENDS Naturals, Sequences

CONSTANTS Personas,   \* who reacts
          Events      \* positions in the feed, a set of naturals

VARIABLES heard,     \* the events heard, in order
          reacted,   \* who has reacted to the last of them
          tickets    \* tickets[p][e]: how many p has filed about e

vars == <<heard, reacted, tickets>>

Init ==
    /\ heard = <<>>
    /\ reacted = Personas
    /\ tickets = [p \in Personas |-> [e \in Events |-> 0]]

Hear(e) ==
    /\ reacted = Personas
    /\ \A i \in DOMAIN heard : heard[i] < e
    /\ heard' = Append(heard, e)
    /\ reacted' = {}
    /\ UNCHANGED tickets

React(p) ==
    /\ p \notin reacted
    /\ reacted' = reacted \cup {p}
    /\ \/ UNCHANGED tickets
       \/ tickets' = [tickets EXCEPT ![p][heard[Len(heard)]] = @ + 1]
    /\ UNCHANGED heard

\* The ticket of a reaction that failed comes into the store after all.
FiledLate(p, e) ==
    /\ \E i \in DOMAIN heard : heard[i] = e /\ (i = Len(heard) => p \in reacted)
    /\ tickets[p][e] = 0
    /\ tickets' = [tickets EXCEPT ![p][e] = 1]
    /\ UNCHANGED <<heard, reacted>>

Next ==
    \/ \E e \in Events : Hear(e)
    \/ \E p \in Personas : React(p)
    \/ \E p \in Personas, e \in Events : FiledLate(p, e)

Spec == Init /\ [][Next]_vars
=============================================================================
