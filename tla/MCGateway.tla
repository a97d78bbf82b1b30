----------------------------- MODULE MCGateway -----------------------------
EXTENDS Gateway, TLC

\* The ceo role in small: support.* with a denied tool, one exact public write on
\* a server with a login and a setup step, and a disabled server.
patch == <<"support", "patch_ticket">>
create == <<"support", "create_ticket">>
list == <<"support", "list_tickets">>
purge == <<"support", "purge">>
post == <<"social", "create_post">>
login == <<"social", "login">>

MCConfigs == <<"support", "social", "chat">>
MCAccess == (patch :> "write") @@ (create :> "write") @@ (list :> "read")
            @@ (post :> "public_write") @@ (login :> "write")
MCAllowExact == {post}
MCInjected == {patch}
MCDeny == {create, login}

\* support may come back with a tool nobody classified.
MCDeployments == ("support" :> {{patch, create, list}, {patch, create, list, purge}})
                 @@ ("social" :> {{post, login}}) @@ ("chat" :> {{}})

\* A granted write, a denied write and a public write; and with them a read and a
\* name the catalog has never seen.
Writes == {patch, create, post}
AllRequests == Writes \cup {list, <<"support", "nothing">>}
=============================================================================
