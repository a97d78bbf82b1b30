-------------------------- MODULE MCCeoPrograms --------------------------
(* Two servers; a registry that is in order, one with a disabled server that has   *)
(* no local URL, and one with an id twice; roles with a whole-server             *)
(* allow and a deny, and two files that a bad pattern spoils.                  *)
EXTENDS CeoPrograms, TLC

Entry(id, profiles, enabled) == [id |-> id, profiles |-> profiles, enabled |-> enabled]
Both == {"docker", "local"}
Registry(default, servers) == [valid |-> TRUE, default |-> default, servers |-> servers]
MCRegistries ==
    {Registry("docker", <<Entry("support", Both, TRUE), Entry("social", Both, TRUE)>>),
     Registry("local", <<Entry("support", Both, TRUE), Entry("social", {"docker"}, FALSE)>>),
     Registry("docker", <<Entry("support", Both, TRUE), Entry("support", Both, TRUE)>>)}

Pattern(server, tool) == [parts |-> <<server, tool>>, padded |-> FALSE]
Ceo == [allow |-> {Pattern("support", Star), Pattern("social", "post")},
        deny |-> {Pattern("support", "create")}]
Roles(f) == [valid |-> TRUE, roles |-> f]
MCRoleFiles ==
    {Roles("ceo" :> Ceo),
     Roles("ceo" :> Ceo @@ "intern" :> [allow |-> {Pattern("social", PartialGlob)}, deny |-> {}]),
     Roles("ceo" :> [Ceo EXCEPT !.deny = {Pattern("social", Star)}])}

MCAccess == <<"support", "create">> :> "write" @@ <<"support", "list">> :> "read"
            @@ <<"social", "post">> :> "public_write"
MCServed == [s \in {"support", "social"} |->
                IF s = "support" THEN {{<<"support", "create">>, <<"support", "list">>}}
                ELSE {{<<"social", "post">>}, {<<"social", "post">>, <<"social", "rename">>}}]
=============================================================================
