----------------------------- MODULE NewsReader -----------------------------
(***************************************************************************)
(* What one persona promises the network it reads, without pages, files,     *)
(* requests or restarts: it begins at some post and leaves everything up to   *)
(* there alone; from then on it deals with the posts of others in the order    *)
(* of publication.  It touches a post only when it has dealt with all earlier   *)
(* ones, shares only what it has commented on, and what it has read for good    *)
(* holds nothing it did not deal with and is never touched again.              *)
(***************************************************************************)
EXTENDS Naturals

CONSTANTS Posts,  \* positions in the order of publication, a set of naturals
          Own     \* the posts of the persona itself

VARIABLES published,  \* the newest post there is
          since,      \* the post it began at, 0 before
          seen,       \* it has read everything up to this post for good
          dealt,      \* the posts it is done with
          comments,   \* how many comments it has put on each
          shared      \* the posts it has shared

vars == <<published, since, seen, dealt, comments, shared>>

News == {p \in Posts : since < p /\ p <= published /\ p \notin Own}

\* The post whose turn it is, or one it is done with and has not read for good.
Due(p) ==
    /\ since > 0
    /\ p \in News
    /\ p > seen
    /\ \A q \in News : q < p => q \in dealt

Init ==
    /\ published \in Posts \cup {0}
    /\ since = 0
    /\ seen = 0
    /\ dealt = {}
    /\ comments = [p \in Posts |-> 0]
    /\ shared = {}

Publish ==
    /\ published' = published + 1
    /\ UNCHANGED <<since, seen, dealt, comments, shared>>

Begin(p) ==
    /\ since = 0
    /\ p <= published
    /\ since' = p
    /\ seen' = p
    /\ UNCHANGED <<published, dealt, comments, shared>>

Comment(p) == comments' = [comments EXCEPT ![p] = @ + 1] /\ UNCHANGED shared
Share(p) == comments[p] > 0 /\ shared' = shared \cup {p} /\ UNCHANGED comments

\* It comments on a post, shares it or lets it pass, and is or is not done with it.
React(p) ==
    /\ Due(p)
    /\ Comment(p) \/ Share(p) \/ UNCHANGED <<comments, shared>>
    /\ dealt' = dealt \/ dealt' = dealt \cup {p}
    /\ UNCHANGED <<published, since, seen>>

Advance(p) ==
    /\ since > 0
    /\ seen < p /\ p <= published
    /\ \A q \in News : q <= p => q \in dealt
    /\ seen' = p
    /\ UNCHANGED <<published, since, dealt, comments, shared>>

Next == Publish \/ \E p \in Posts : Begin(p) \/ React(p) \/ Advance(p)

Spec == Init /\ [][Next]_vars
=============================================================================
