------------------------------ MODULE Gateway ------------------------------
(***************************************************************************)
(* The MCP gateway of the CEO agent: connection.py brings the servers up one *)
(* by one, catalog.py classifies their tools, router.py runs every call       *)
(* through policy, identity, dry run, audit and dispatch, and                *)
(* gateway_bridge.py keeps the sessions alive on a thread of its own.        *)
(*                                                                           *)
(* The servers are other processes: they crash, restart with an empty         *)
(* session table, may then serve other tools, answer late or not at all, and   *)
(* carry out a call whose answer nobody waits for any more.                   *)
(***************************************************************************)
EXTENDS Naturals, Sequences, GatewayPolicy

CONSTANTS
    Configs,      \* the server entries of mcp_servers.yaml, in order
    Enabled,      \* the enabled ones
    NeedsLogin,   \* the ones with a login step
    HasSetup,     \* the ones with post-login setup steps
    Deployments,  \* the sets of tools a server may serve once (re)started
    Injected,     \* INJECTED_PARAMS: names whose actor the gateway writes
    Calls,        \* Router.call_tool invocations
    Requests,     \* the names they may ask for
    DiskWrites,   \* the outcomes of an audit write: subset of BOOLEAN
    MaxCrashes    \* bound of the model: server crashes

Servers == {Configs[i] : i \in DOMAIN Configs}
Actors == {"role", "forged", "omitted"}

\* load_registry refuses two servers with one id.
ASSUME ConfigsAssumption ==
    /\ Configs \in Seq(Servers)
    /\ \A i, j \in DOMAIN Configs : Configs[i] = Configs[j] => i = j
ASSUME DeploymentsAssumption ==
    \A s \in Servers : \A tools \in Deployments[s] : \A t \in tools : t[1] = s
ASSUME DiskAssumption == DiskWrites \in (SUBSET BOOLEAN) \ {{}}
ASSUME BoundAssumption == MaxCrashes \in Nat

VARIABLES
    phase,     \* "connecting", "cataloguing", "ready", "failed" (setup raised),
               \* "collapsed" (the lifecycle task has died) or "stopped" (close)
    at,        \* the place in Configs that setup has reached
    step,      \* inside _connect_one: "handshake", "login", "setup" or "list"
    status,    \* ServerStatus of each server, "none" until it was tried
    sessions,  \* GatewayConnections._sessions: servers with a live client session
    catalog,   \* the names build_catalog has collected
    dryRun,    \* Router._dry_run
    call,      \* each call's name, position and outcome
    start,     \* the call_start record of each call: "none", "written" or, when the
               \* write failed, "logged"
    end,       \* the call_end record, likewise
    up,        \* servers that are running
    serves,    \* the names each server serves
    remote,    \* our session as the server knows it: "none", "anonymous", "identified"
    wire,      \* calls sent and not yet processed by their server
    landed,    \* history: how often each call was carried out, for whom and as whom
    crashes

setupVars == <<at, step, status, catalog, dryRun>>
callVars == <<call, start, end, wire, landed>>
serverVars == <<up, serves, crashes>>
vars == <<phase, at, step, status, sessions, catalog, dryRun, call, start, end,
          up, serves, remote, wire, landed, crashes>>

Untried == [connected |-> FALSE, login |-> "none", setup |-> "none", skipped |-> FALSE]
NoCall == [pc |-> "idle", name |-> <<>>, actor |-> "omitted", outcome |-> "none"]
Untouched == [times |-> 0, actor |-> "omitted", as |-> "none"]

ServerOf(c) == call[c].name[1]
Reachable(s) == up[s] /\ remote[s] # "none"

Init ==
    /\ phase = "connecting"
    /\ at = 1
    /\ step = "handshake"
    /\ status = [s \in Servers |-> Untried]
    /\ sessions = {}
    /\ catalog = {}
    /\ dryRun \in BOOLEAN
    /\ call = [c \in Calls |-> NoCall]
    /\ start = [c \in Calls |-> "none"]
    /\ end = [c \in Calls |-> "none"]
    /\ up \in [Servers -> BOOLEAN]
    /\ serves \in {f \in [Servers -> UNION {Deployments[s] : s \in Servers}] :
                      \A s \in Servers : f[s] \in Deployments[s]}
    /\ remote = [s \in Servers |-> "none"]
    /\ wire = {}
    /\ landed = [c \in Calls |-> Untouched]
    /\ crashes = 0

----------------------------------------------------------------------------
(* connect_all: one server after the other, each skipped when a step fails.   *)

Connecting(s) == phase = "connecting" /\ at <= Len(Configs) /\ s = Configs[at]

NextServer == at + 1

Advance == at' = NextServer /\ step' = "handshake"

\* _connect_one gave up on s: its transport is closed and the reason recorded.
SkipServer(s, login) ==
    /\ status' = [status EXCEPT ![s].skipped = TRUE, ![s].login = login]
    /\ Advance
    /\ UNCHANGED <<phase, sessions, catalog, dryRun>>

SkipDisabled(s) ==
    /\ Connecting(s)
    /\ s \notin Enabled
    /\ SkipServer(s, "none")
    /\ UNCHANGED remote /\ UNCHANGED callVars /\ UNCHANGED serverVars

\* The steps that follow one another in _run_session_setup.
AfterHandshake(s) ==
    IF s \in NeedsLogin THEN "login" ELSE IF s \in HasSetup THEN "setup" ELSE "list"

Handshake(s) ==
    /\ Connecting(s) /\ step = "handshake" /\ s \in Enabled
    /\ up[s]
    /\ remote' = [remote EXCEPT ![s] = "anonymous"]
    /\ step' = AfterHandshake(s)
    /\ UNCHANGED <<phase, at, status, sessions, catalog, dryRun>>
    /\ UNCHANGED callVars /\ UNCHANGED serverVars

\* Refused, timed out, or answered by something that does not speak MCP.  A bare
\* cancellation is raised again (connection.py:426-430): CeoPrograms has that outcome.
ConnectFails(s) ==
    /\ Connecting(s) /\ s \in Enabled /\ step \in {"handshake", "list"}
    /\ SkipServer(s, status[s].login)
    /\ UNCHANGED remote /\ UNCHANGED callVars /\ UNCHANGED serverVars

Login(s) ==
    /\ Connecting(s) /\ step = "login"
    /\ Reachable(s)
    /\ remote' = [remote EXCEPT ![s] = "identified"]
    /\ status' = [status EXCEPT ![s].login = "ok"]
    /\ step' = IF s \in HasSetup THEN "setup" ELSE "list"
    /\ UNCHANGED <<phase, at, sessions, catalog, dryRun>>
    /\ UNCHANGED callVars /\ UNCHANGED serverVars

\* The login was refused, or its answer never came.
\* Mutant: a failed login is noted, and the connection kept.
LoginFails_Kept(s) ==
    /\ Connecting(s) /\ step = "login"
    /\ status' = [status EXCEPT ![s].login = "failed"]
    /\ step' = "list"
    /\ UNCHANGED <<phase, at, sessions, catalog, dryRun>>
    /\ UNCHANGED remote /\ UNCHANGED callVars /\ UNCHANGED serverVars
LoginFails(s) ==
    /\ Connecting(s) /\ step = "login"
    /\ SkipServer(s, "failed")
    /\ \E r \in {remote[s], IF Reachable(s) THEN "identified" ELSE remote[s]} :
          remote' = [remote EXCEPT ![s] = r]
    /\ UNCHANGED callVars /\ UNCHANGED serverVars

\* A failed setup step leaves the server connected.
PostLoginSetup(s, ok) ==
    /\ Connecting(s) /\ step = "setup"
    /\ ok => Reachable(s)
    /\ status' = [status EXCEPT ![s].setup = IF ok THEN "ok" ELSE "failed"]
    /\ step' = "list"
    /\ UNCHANGED <<phase, at, sessions, catalog, dryRun, remote>>
    /\ UNCHANGED callVars /\ UNCHANGED serverVars

ListTools(s) ==
    /\ Connecting(s) /\ step = "list"
    /\ Reachable(s)
    /\ sessions' = sessions \cup {s}
    /\ status' = [status EXCEPT ![s].connected = TRUE]
    /\ at' = at + 1
    /\ step' = "handshake"
    /\ UNCHANGED <<phase, catalog, dryRun, remote>>
    /\ UNCHANGED callVars /\ UNCHANGED serverVars

AllConnected ==
    /\ phase = "connecting" /\ at > Len(Configs)
    /\ phase' = "cataloguing"
    /\ at' = 1
    /\ UNCHANGED <<step, status, sessions, catalog, dryRun, remote>>
    /\ UNCHANGED callVars /\ UNCHANGED serverVars

----------------------------------------------------------------------------
(* build_catalog: every tool of every connected server, each one classified.  *)

Cataloguing(s) == phase = "cataloguing" /\ at <= Len(Configs) /\ s = Configs[at]

\* Mutant of Classify: a tool missing from TOOL_ACCESS is only warned about.
Classify_Warn(tools) == TRUE
Classify(tools) == tools \subseteq Classified

Catalog(s) ==
    /\ Cataloguing(s)
    /\ IF s \in sessions
       THEN /\ Reachable(s)
            /\ Classify(serves[s])
            /\ catalog' = catalog \cup serves[s]
       ELSE UNCHANGED catalog
    /\ at' = at + 1
    /\ UNCHANGED <<phase, step, status, sessions, dryRun, remote>>
    /\ UNCHANGED callVars /\ UNCHANGED serverVars

\* A CatalogError, or a server that no longer answers list_tools, leaves the
\* whole `async with`: every session goes and the constructor raises.
CatalogFails(s) ==
    /\ Cataloguing(s)
    /\ s \in sessions
    /\ phase' = "failed"
    /\ sessions' = {}
    /\ UNCHANGED setupVars
    /\ UNCHANGED remote /\ UNCHANGED callVars /\ UNCHANGED serverVars

RouterReady ==
    /\ phase = "cataloguing" /\ at > Len(Configs)
    /\ phase' = "ready"
    /\ UNCHANGED setupVars
    /\ UNCHANGED <<sessions, remote>> /\ UNCHANGED callVars /\ UNCHANGED serverVars

----------------------------------------------------------------------------
(* Router.call_tool.  It never awaits before dispatch, so a call that is       *)
(* answered without a server is one step.                                    *)

\* AuditLog._write: a failed write is logged and the call goes on.
Recorded == {IF ok THEN "written" ELSE "logged" : ok \in DiskWrites}

Asked(c, name) ==
    /\ phase \in {"ready", "collapsed"}
    /\ call[c].pc = "idle"
    /\ name \in Requests

\* Both records of a call that is answered on the spot.
AnswerLocally(c, name, actor, outcome) ==
    /\ call' = [call EXCEPT ![c] =
                   [pc |-> "done", name |-> name, actor |-> actor, outcome |-> outcome]]
    /\ \E r1, r2 \in Recorded : /\ start' = [start EXCEPT ![c] = r1]
                                /\ end' = [end EXCEPT ![c] = r2]
    /\ UNCHANGED <<wire, landed, phase, sessions, remote>>
    /\ UNCHANGED setupVars /\ UNCHANGED serverVars

Denied(c, name, actor) ==
    /\ Asked(c, name)
    /\ ~Allowed(name)
    /\ AnswerLocally(c, name, actor, "denied")

UnknownTool(c, name, actor) ==
    /\ Asked(c, name)
    /\ Allowed(name)
    /\ name \notin catalog
    /\ AnswerLocally(c, name, actor, "unknown_tool")

Withheld(name) == dryRun /\ Access[name] # "read"

\* Mutant of ActorFor: the identity is a default the caller may override.
ActorFor_Default(name, actor) ==
    IF name \in Injected /\ actor = "omitted" THEN "role" ELSE actor
ActorFor(name, actor) == IF name \in Injected THEN "role" ELSE actor

DryRun(c, name, actor) ==
    /\ Asked(c, name)
    /\ Allowed(name) /\ name \in catalog
    /\ Withheld(name)
    /\ AnswerLocally(c, name, ActorFor(name, actor), "dry_run")

Unavailable(c, name, actor) ==
    /\ Asked(c, name)
    /\ Allowed(name) /\ name \in catalog
    /\ ~Withheld(name)
    /\ name[1] \notin sessions
    /\ AnswerLocally(c, name, ActorFor(name, actor), "unavailable")

\* Mutant of RecordStart: the record is written once the answer is in.
RecordStart_Late(c) == UNCHANGED start
RecordStart(c) == \E r \in Recorded : start' = [start EXCEPT ![c] = r]

\* Audited before it can have any effect, then sent.
Dispatch(c, name, actor) ==
    /\ Asked(c, name)
    /\ Allowed(name) /\ name \in catalog
    /\ ~Withheld(name)
    /\ name[1] \in sessions
    /\ RecordStart(c)
    /\ call' = [call EXCEPT ![c] = [pc |-> "sent", name |-> name,
                                    actor |-> ActorFor(name, actor), outcome |-> "none"]]
    /\ wire' = wire \cup {c}
    /\ UNCHANGED <<end, landed, phase, sessions, remote>>
    /\ UNCHANGED setupVars /\ UNCHANGED serverVars

Finish(c, outcome) ==
    /\ call' = [call EXCEPT ![c].pc = "done", ![c].outcome = outcome]
    /\ \E r \in Recorded : end' = [end EXCEPT ![c] = r]
    /\ UNCHANGED <<start, wire, landed, phase, sessions, remote>>
    /\ UNCHANGED setupVars /\ UNCHANGED serverVars

CarriedOut(c) == landed[c].times > 0

\* Mutant of MayAnswer: whatever comes back counts as success.
MayAnswer_Anything(c) == call[c].pc = "sent" /\ c \notin wire
MayAnswer(c) == call[c].pc = "sent" /\ c \notin wire /\ CarriedOut(c)

\* The server answered and the answer arrived.
Answer(c) ==
    /\ MayAnswer(c)
    /\ Reachable(ServerOf(c))
    /\ ServerOf(c) \in sessions
    /\ Finish(c, "ok")

\* Mutant of MayFail: no read timeout, so only a closed connection ends a wait.
MayFail_NoTimeout(c) == call[c].pc = "sent" /\ phase = "collapsed"
MayFail(c) == call[c].pc = "sent"

\* The tool reported an error, the session is gone, or the read timed out: with
\* all three the call may have been carried out.
AnswerFails(c) ==
    /\ MayFail(c)
    /\ Finish(c, "error")

----------------------------------------------------------------------------
(* The servers.                                                              *)

\* A server handles a request, in time or not.
Land(c) ==
    /\ c \in wire
    /\ Reachable(ServerOf(c))
    /\ wire' = wire \ {c}
    /\ landed' = [landed EXCEPT ![c] = [times |-> @.times + 1, actor |-> call[c].actor,
                                        as |-> remote[ServerOf(c)]]]
    /\ UNCHANGED <<call, start, end, phase, sessions, remote>>
    /\ UNCHANGED setupVars /\ UNCHANGED serverVars

\* The server refuses the arguments and does nothing.
Reject(c) ==
    /\ c \in wire
    /\ Reachable(ServerOf(c))
    /\ wire' = wire \ {c}
    /\ UNCHANGED <<call, start, end, landed, phase, sessions, remote>>
    /\ UNCHANGED setupVars /\ UNCHANGED serverVars

\* Nothing listens, or the server does not know the session.  Some HTTP errors
\* only fail the call; others are raised in the transport's task group, and they end
\* the task that holds every session open (_lifecycle): __aexit__ clears them all.
Bounce(c, fatal) ==
    /\ c \in wire
    /\ ~Reachable(ServerOf(c))
    /\ wire' = wire \ {c}
    /\ IF fatal THEN /\ phase' = IF phase = "ready" THEN "collapsed" ELSE phase
                     /\ sessions' = {}
                ELSE UNCHANGED <<phase, sessions>>
    /\ UNCHANGED <<call, start, end, landed, remote>>
    /\ UNCHANGED setupVars /\ UNCHANGED serverVars

\* GatewayBridge.close: the agent has its answers and the run is over.
Close ==
    /\ phase = "ready"
    /\ \A c \in Calls : call[c].pc # "sent"
    /\ phase' = "stopped"
    /\ sessions' = {}
    /\ UNCHANGED remote
    /\ UNCHANGED setupVars /\ UNCHANGED callVars /\ UNCHANGED serverVars

Crash(s) ==
    /\ up[s] /\ crashes < MaxCrashes
    /\ crashes' = crashes + 1
    /\ up' = [up EXCEPT ![s] = FALSE]
    /\ remote' = [remote EXCEPT ![s] = "none"]
    /\ UNCHANGED <<serves, phase, sessions>>
    /\ UNCHANGED setupVars /\ UNCHANGED callVars

\* A restarted server has no sessions and may be another build.
Restart(s, tools) ==
    /\ ~up[s]
    /\ up' = [up EXCEPT ![s] = TRUE]
    /\ serves' = [serves EXCEPT ![s] = tools]
    /\ UNCHANGED <<crashes, phase, sessions, remote>>
    /\ UNCHANGED setupVars /\ UNCHANGED callVars

----------------------------------------------------------------------------

ConnectStep(s) ==
    \/ SkipDisabled(s) \/ Handshake(s) \/ ConnectFails(s)
    \/ Login(s) \/ LoginFails(s)
    \/ \E ok \in BOOLEAN : PostLoginSetup(s, ok)
    \/ ListTools(s)

SetupStep ==
    \/ \E s \in Servers : ConnectStep(s) \/ Catalog(s) \/ CatalogFails(s)
    \/ AllConnected
    \/ RouterReady

Route(c, name, actor) ==
    \/ Denied(c, name, actor) \/ UnknownTool(c, name, actor) \/ DryRun(c, name, actor)
    \/ Unavailable(c, name, actor) \/ Dispatch(c, name, actor)

ServerStep ==
    \/ \E c \in Calls : Land(c) \/ Reject(c) \/ \E fatal \in BOOLEAN : Bounce(c, fatal)
    \/ \E s \in Servers : Crash(s) \/ \E tools \in Deployments[s] : Restart(s, tools)

Next ==
    \/ SetupStep
    \/ \E c \in Calls : \E name \in Requests, actor \in {"forged", "omitted"} :
          Route(c, name, actor)
    \/ \E c \in Calls : Answer(c) \/ AnswerFails(c)
    \/ ServerStep
    \/ Close

Spec == Init /\ [][Next]_vars

(* Every request of the client library carries a read timeout, so setup goes   *)
(* on and a call that was sent fails if nothing else happens.  Servers owe      *)
(* nothing: they may stay down, or keep a request for ever.                   *)
Fairness ==
    /\ WF_vars(SetupStep)
    /\ \A c \in Calls : WF_vars(AnswerFails(c))

FairSpec == Spec /\ Fairness

----------------------------------------------------------------------------
(* Properties                                                                *)

CallStates == [pc : {"idle", "sent", "done"}, name : Requests \cup {<<>>}, actor : Actors,
               outcome : {"none", "denied", "unknown_tool", "dry_run", "unavailable",
                          "ok", "error"}]
Statuses == [connected : BOOLEAN, login : {"none", "ok", "failed"},
             setup : {"none", "ok", "failed"}, skipped : BOOLEAN]
Identities == {"none", "anonymous", "identified"}
Records == {"none", "written", "logged"}

TypeOK ==
    /\ phase \in {"connecting", "cataloguing", "ready", "failed", "collapsed", "stopped"}
    /\ at \in 1..(Len(Configs) + 1)
    /\ step \in {"handshake", "login", "setup", "list"}
    /\ status \in [Servers -> Statuses]
    /\ sessions \subseteq Servers
    /\ catalog \subseteq Classified
    /\ dryRun \in BOOLEAN
    /\ call \in [Calls -> CallStates]
    /\ start \in [Calls -> Records] /\ end \in [Calls -> Records]
    /\ up \in [Servers -> BOOLEAN]
    /\ \A s \in Servers : serves[s] \in Deployments[s]
    /\ remote \in [Servers -> Identities]
    /\ wire \subseteq Calls
    /\ landed \in [Calls -> [times : Nat, actor : Actors, as : Identities]]
    /\ crashes \in 0..MaxCrashes

\* Whatever servers crash, restart or grow, a server only ever carries out what
\* the role file grants, a name that is not denied and that an allow entry covers,
\* and in a dry run nothing but reads: "has to mean nothing is written"
\* (router.py:377-388), although main.py:71-74 says of its dry run that support
\* writes still run for real.
OnlyGrantedLands ==
    \A c \in Calls : CarriedOut(c) =>
        /\ call[c].name \notin Deny
        /\ call[c].name \in AllowExact \/ ServerOf(c) \in AllowServers
        /\ dryRun => Access[call[c].name] = "read"

\* Who acts is the gateway's to say, on time or late.  A server that asks for a
\* login never carries out a call of an anonymous session (a failed login drops the
\* server, a restarted one knows no session), and an injected identity parameter
\* carries the role, whatever the caller put there.
LandsAsItself ==
    \A c \in Calls : CarriedOut(c) =>
        /\ ServerOf(c) \in NeedsLogin => landed[c].as = "identified"
        /\ call[c].name \in Injected => landed[c].actor = "role"

\* The audit trail: a call has its start record (or the log has the reason it is
\* missing) before any server can act on it, and its end record exactly when it
\* has been answered, so a start without an end is a call in flight.
AuditTrail ==
    \A c \in Calls :
        /\ c \in wire \/ CarriedOut(c) => start[c] # "none"
        /\ start[c] = "none" <=> call[c].pc = "idle"
        /\ end[c] = "none" <=> call[c].pc # "done"

\* get_status tells what bring-up found, to the end: every server was connected, and
\* then logged in if it has a login, or skipped with a reason, and the catalog holds
\* tools of connected servers only.  While the lifecycle task lives, that is also
\* what there is.  It is not once the task has died: its sessions are gone, the router
\* goes on to answer, and get_status goes on to say connected.
StatusTellsBringUp ==
    phase \in {"ready", "collapsed", "stopped"} =>
        /\ \A s \in Servers : status[s].connected <=> ~status[s].skipped
        /\ \A s \in Servers \cap NeedsLogin : status[s].connected => status[s].login = "ok"
        /\ \A name \in catalog : status[name[1]].connected
        /\ sessions = {s \in Servers : status[s].connected /\ phase = "ready"}

\* The gateway keeps the promise of GuardedCalls: at most once, never after a
\* refusal, and "ok" only for what was carried out.
Outcome == [none |-> "pending", ok |-> "ok", error |-> "failed", dry_run |-> "simulated",
            denied |-> "refused", unknown_tool |-> "refused", unavailable |-> "refused"]
Guarded == INSTANCE GuardedCalls WITH
    answer <- [c \in Calls |-> IF call[c].pc = "idle" THEN "none" ELSE Outcome[call[c].outcome]],
    times <- [c \in Calls |-> landed[c].times]
GuardsCalls == Guarded!Spec

\* Nobody waits for ever, whatever the servers do.  Setup comes to an end: the
\* router exists or there is an error to raise; and a call that was sent is
\* answered, though its server may never reply.
EveryWaitEnds ==
    /\ phase = "connecting" ~> phase \in {"ready", "failed"}
    /\ \A c \in Calls : call[c].pc = "sent" ~> call[c].pc = "done"
=============================================================================
