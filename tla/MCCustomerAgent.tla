-------------------------- MODULE MCCustomerAgent --------------------------
(* Three events the agent asked for, with one between them that it did not;   *)
(* two personas, the first a trusting one.                                    *)
EXTENDS CustomerAgent

MCFeed == <<"social", "regulator", "press", "social">>
MCEnvTags == <<>>
MCTrust == <<1, 0>>
MCScores == {2}
=============================================================================
