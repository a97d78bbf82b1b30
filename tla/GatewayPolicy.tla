--------------------------- MODULE GatewayPolicy ---------------------------
(***************************************************************************)
(* What one role may call through the MCP gateway (gateway/policy.py) and   *)
(* how blunt each tool is (TOOL_ACCESS of gateway/catalog.py).  A tool is    *)
(* named by its server and its own name, <<server, tool>>.                  *)
(***************************************************************************)
EXTENDS Sequences

CONSTANTS
    Access,        \* TOOL_ACCESS: the access level of every classified tool
    AllowExact,    \* the role's exact allow entries
    AllowServers,  \* the servers of its "server.*" entries
    Deny           \* its deny entries, always exact

Levels == {"read", "write", "public_write"}
Classified == DOMAIN Access

ASSUME AccessAssumption == Access \in [Classified -> Levels]

\* Policy.decide: a deny wins, an exact or a whole-server allow grants, and
\* anything else is denied.
\* Mutant: the allow entries are consulted first.
Decide_AllowFirst(name) ==
    IF name \in AllowExact \/ name[1] \in AllowServers THEN "allow_match"
    ELSE IF name \in Deny THEN "explicit_deny" ELSE "default_deny"
Decide(name) ==
    IF name \in Deny THEN "explicit_deny"
    ELSE IF name \in AllowExact \/ name[1] \in AllowServers THEN "allow_match"
    ELSE "default_deny"

Allowed(name) == Decide(name) = "allow_match"

VisibleTools(catalog) == {name \in catalog : Allowed(name)}
=============================================================================
