---------------------------- MODULE GuardedCalls ----------------------------
(***************************************************************************)
(* What the gateway promises the agent, without servers, sessions or audit   *)
(* files: each call is answered once, a refused or simulated call does        *)
(* nothing, a call that is let through is carried out at most once, an "ok"   *)
(* means it was carried out, and a failure means nothing at all: the call may  *)
(* have been carried out already, or may be carried out later.                *)
(***************************************************************************)
EXTENDS Naturals

CONSTANTS Calls
VARIABLES answer,  \* answer[c]: "none" until asked, then "pending" or the outcome
          times    \* times[c]: how often c was carried out

vars == <<answer, times>>

Init ==
    /\ answer = [c \in Calls |-> "none"]
    /\ times = [c \in Calls |-> 0]

\* Answered on the spot: refused, or simulated by a dry run.
Withhold(c) ==
    /\ answer[c] = "none"
    /\ \E a \in {"refused", "simulated"} : answer' = [answer EXCEPT ![c] = a]
    /\ UNCHANGED times

LetThrough(c) ==
    /\ answer[c] = "none"
    /\ answer' = [answer EXCEPT ![c] = "pending"]
    /\ UNCHANGED times

CarryOut(c) ==
    /\ answer[c] \in {"pending", "failed"}
    /\ times[c] = 0
    /\ times' = [times EXCEPT ![c] = 1]
    /\ UNCHANGED answer

Succeed(c) ==
    /\ answer[c] = "pending"
    /\ times[c] = 1
    /\ answer' = [answer EXCEPT ![c] = "ok"]
    /\ UNCHANGED times

Fail(c) ==
    /\ answer[c] = "pending"
    /\ answer' = [answer EXCEPT ![c] = "failed"]
    /\ UNCHANGED times

Next == \E c \in Calls : Withhold(c) \/ LetThrough(c) \/ CarryOut(c) \/ Succeed(c) \/ Fail(c)

Spec == Init /\ [][Next]_vars
=============================================================================
