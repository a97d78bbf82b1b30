---------------------------- MODULE MCTicketStore ----------------------------
(***************************************************************************)
(* TicketStore on a small instance: the patches of a customer's agent, of the *)
(* CEO agent and of the dashboard that race for one ticket.                   *)
(***************************************************************************)
EXTENDS TicketStore, TLC

MCValues == {"open", "closed", "medium", "angry", "neutral", "keyword_v1", "llm_v1", "ceo"}

Close == "status" :> "closed"
Assign == ("status" :> "open") @@ ("assignee" :> "ceo")
Rescore == ("sentiment" :> "angry") @@ ("sentiment_method" :> "llm_v1")
Relabel == ("sentiment" :> "neutral") @@ ("sentiment_method" :> "llm_v1")
Unlabel == ("sentiment" :> "angry") @@ ("sentiment_method" :> Null)
NoStatus == ("status" :> Null) @@ ("priority" :> "medium")

MCPatches == {Close, Assign, Rescore, Relabel, Unlabel, NoStatus}
=============================================================================
