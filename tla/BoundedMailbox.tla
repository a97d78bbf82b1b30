--------------------------- MODULE BoundedMailbox ---------------------------
(***************************************************************************)
(* What one subscriber of the event generator is promised, without threads, *)
(* callbacks or connections: an unbounded log of the events offered to it,   *)
(* of which it is handed a subsequence, oldest first, and of which an event  *)
(* is skipped only when more than Capacity events are waiting.               *)
(***************************************************************************)
EXTENDS Naturals, Sequences

CONSTANTS Readers,    \* the subscribers, each with a mailbox of its own
          Items,      \* what can be offered
          Capacity    \* how many offered items may wait in one mailbox, at least one

VARIABLES log,     \* log[r]: every item ever offered to r, in order
          taken,   \* taken[r]: how many of them are no longer waiting
          lost,    \* lost[r]: how many of those were skipped
          got      \* got[r]: the items handed to r, in order

vars == <<log, taken, lost, got>>

Waiting(r) == Len(log[r]) - taken[r]

Init ==
    /\ log = [r \in Readers |-> <<>>]
    /\ taken = [r \in Readers |-> 0]
    /\ lost = [r \in Readers |-> 0]
    /\ got = [r \in Readers |-> <<>>]

\* Offering never blocks and never refuses the newest item: a full mailbox
\* skips its oldest waiting item.
Put(r, i) ==
    /\ log' = [log EXCEPT ![r] = Append(@, i)]
    /\ \/ /\ Waiting(r) < Capacity
          /\ UNCHANGED <<taken, lost>>
       \/ /\ Waiting(r) >= Capacity
          /\ taken' = [taken EXCEPT ![r] = @ + 1]
          /\ lost' = [lost EXCEPT ![r] = @ + 1]
    /\ UNCHANGED got

Take(r) ==
    /\ Waiting(r) > 0
    /\ got' = [got EXCEPT ![r] = Append(@, log[r][taken[r] + 1])]
    /\ taken' = [taken EXCEPT ![r] = @ + 1]
    /\ UNCHANGED <<log, lost>>

Next == \E r \in Readers : Take(r) \/ \E i \in Items : Put(r, i)

Spec == Init /\ [][Next]_vars
=============================================================================
