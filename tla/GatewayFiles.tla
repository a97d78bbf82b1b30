---------------------------- MODULE GatewayFiles ----------------------------
(***************************************************************************)
(* The two files the MCP gateway is configured with, as the code reads them: *)
(* mcp_servers.yaml (gateway/registry.py) and roles.yaml (gateway/policy.py).*)
(* A file is what it says once parsed, or is not valid: missing, unreadable,  *)
(* no YAML, no mapping, or refused by its pydantic model.                    *)
(***************************************************************************)
EXTENDS Naturals, Sequences, FiniteSets

CONSTANTS
    Access   \* TOOL_ACCESS: the access level of every classified <<server, tool>>

----------------------------------------------------------------------------
(* mcp_servers.yaml: [valid, default, servers], each of the servers an        *)
(* [id, profiles, enabled] with the profiles it has a URL for.               *)

NoProfile == ""

\* resolve_profile: the argument, else the environment, else the file's default.
ActiveProfile(explicit, env, file) ==
    IF explicit # NoProfile THEN explicit
    ELSE IF env # NoProfile THEN env ELSE file.default

Ids(file) == {file.servers[i].id : i \in DOMAIN file.servers}

\* load_registry: a single bad entry refuses the whole file; a disabled one is no
\* bad entry, and is returned like the others.
RegistryAccepts(file, profile) ==
    /\ file.valid
    /\ file.servers # <<>>
    /\ \A i, j \in DOMAIN file.servers : file.servers[i].id = file.servers[j].id => i = j
    /\ \A i \in DOMAIN file.servers : profile \in file.servers[i].profiles

----------------------------------------------------------------------------
(* roles.yaml: [valid, roles], a role being its allow and deny patterns.  A   *)
(* pattern is [parts, padded]: its text split at the dots, and whether there  *)
(* are blanks around it.                                                     *)

Star == "*"
PartialGlob == "get_*"    \* stands for every part with a star and more
Starred(part) == part \in {Star, PartialGlob}

ValidPattern(p, wildcards) ==
    LET stars == {i \in DOMAIN p.parts : Starred(p.parts[i])}
    IN  /\ ~p.padded
        /\ stars # {} => wildcards /\ stars = {Len(p.parts)} /\ p.parts[Len(p.parts)] = Star
        /\ Len(p.parts) = 2
        /\ p.parts[1] # "" /\ p.parts[2] # ""

ValidRole(role) ==
    /\ \A p \in role.allow : ValidPattern(p, TRUE)
    /\ \A p \in role.deny : ValidPattern(p, FALSE)

\* load_roles, get_role: a bad pattern in any role refuses the file for all of them.
RolesAccept(file, id) ==
    /\ file.valid
    /\ \A r \in DOMAIN file.roles : ValidRole(file.roles[r])
    /\ id \in DOMAIN file.roles

\* Policy.__init__
WholeServer(p) == p.parts[2] = Star
PolicyOf(role) ==
    [exact |-> {p.parts : p \in {q \in role.allow : ~WholeServer(q)}},
     servers |-> {p.parts[1] : p \in {q \in role.allow : WholeServer(q)}},
     deny |-> {p.parts : p \in role.deny}]

P(policy) == INSTANCE GatewayPolicy WITH
                AllowExact <- policy.exact, AllowServers <- policy.servers, Deny <- policy.deny
=============================================================================
