---------------------------- MODULE Engagements ----------------------------
(***************************************************************************)
(* What the network promises whoever likes, reposts or takes it back, without *)
(* the statements a request is made of: every request takes effect in one      *)
(* step, or not at all, and its answer is true of the table at that step.      *)
(***************************************************************************)
CONSTANTS
    Requests, Posts,
    Marks,   \* the likes and reposts there can be
    PostOf   \* the post each of them is about

VARIABLES
    posted,  \* the posts
    marks,   \* the likes and reposts there are
    asks,    \* what each request asks for
    about,   \* the mark it is about, in a set
    reply    \* its answer, "none" before

vars == <<posted, marks, asks, about, reply>>

Init ==
    /\ posted \in SUBSET Posts
    /\ marks = {}
    /\ asks = [c \in Requests |-> "none"]
    /\ about = [c \in Requests |-> {}]
    /\ reply = [c \in Requests |-> "none"]

Publish(p) ==
    /\ posted' = posted \cup {p}
    /\ UNCHANGED <<marks, asks, about, reply>>

Ask(c, op, m) ==
    /\ asks[c] = "none"
    /\ asks' = [asks EXCEPT ![c] = op] /\ about' = [about EXCEPT ![c] = {m}]
    /\ UNCHANGED <<posted, marks, reply>>

Answer(c, answers) ==
    /\ reply[c] = "none"
    /\ \E a \in answers : reply' = [reply EXCEPT ![c] = a]
    /\ UNCHANGED <<posted, asks, about>>

Add(c, m) ==
    /\ asks[c] = "add" /\ about[c] = {m}
    /\ \/ PostOf[m] \in posted /\ m \notin marks /\ marks' = marks \cup {m} /\ Answer(c, {"ok"})
       \/ PostOf[m] \notin posted /\ Answer(c, {"404"}) /\ UNCHANGED marks
       \/ m \in marks /\ Answer(c, {"409", "500"}) /\ UNCHANGED marks

Remove(c, m) ==
    /\ asks[c] = "remove" /\ about[c] = {m}
    /\ \/ m \in marks /\ marks' = marks \ {m} /\ Answer(c, {"ok"})
       \/ m \notin marks /\ Answer(c, {"404", "500"}) /\ UNCHANGED marks

Fail(c) == asks[c] # "none" /\ Answer(c, {"failed"}) /\ UNCHANGED marks

Next ==
    \/ \E p \in Posts : Publish(p)
    \/ \E c \in Requests :
          \/ \E m \in Marks : (\E op \in {"add", "remove"} : Ask(c, op, m)) \/ Add(c, m) \/ Remove(c, m)
          \/ Fail(c)

Spec == Init /\ [][Next]_vars
=============================================================================
