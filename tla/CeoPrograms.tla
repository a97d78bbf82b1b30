---------------------------- MODULE CeoPrograms ----------------------------
(***************************************************************************)
(* The three programs around the MCP gateway: main.py, which seeds tickets,  *)
(* starts the gateway on a thread of its own (gateway_bridge.py), lets the   *)
(* CEO chat and tears the gateway down; and `cli.py check` and `cli.py dump`,*)
(* which bring the gateway up in one coroutine and exit with a code.  They    *)
(* share the order of bring-up: registry, servers, catalogue, policy.        *)
(*                                                                           *)
(* Gateway has the inside of each step of bring-up and of the calls made      *)
(* while the chat goes on; here a server connects or is skipped.  Programs     *)
(* run one after the other, over files that were edited in between.          *)
(***************************************************************************)
EXTENDS GatewayFiles

CONSTANTS
    Registries,    \* contents mcp_servers.yaml may have
    RoleFiles,     \* contents roles.yaml may have
    EnvProfile,    \* GATEWAY_URL_PROFILE, stripped
    Role,          \* the role of the run
    Served,        \* the tools a server may serve
    NumTickets,    \* the tickets in SALMONELLA_TICKETS
    MaxRuns        \* bound of the model: programs started

Programs == {"main", "check", "dump"}
Servers == UNION {Ids(file) : file \in Registries}
Tickets == 1..NumTickets

ASSUME RegistriesAssumption ==
    \A file \in Registries : file.servers \in Seq([id : STRING, profiles : SUBSET STRING, enabled : BOOLEAN])
ASSUME TicketsAssumption == NumTickets \in Nat
ASSUME RunsAssumption == MaxRuns \in Nat
ASSUME ServedAssumption == \A s \in Servers : \A tools \in Served[s] : \A t \in tools : t[1] = s

VARIABLES
    asked,      \* the program, and the files and the profile it is run with
    pc,         \* the main thread
    at,         \* the next ticket to seed
    seeds,      \* how often each ticket is in the support queue
    life,       \* GatewayBridge._lifecycle, or the coroutine of cmd_check or cmd_dump
    place,      \* its place in the registry
    connected,  \* ids whose status says connected
    sessions,   \* ids with an open session
    catalog,    \* names build_catalog returned
    built,      \* the policy in force, once there is one
    error,      \* what the coroutine raised
    ready, closed,   \* the threading.Events _ready and _closed
    shutdown,        \* _shutdown_event
    setupError,      \* _setup_error
    loop,       \* the bridge's thread: "none", "running", "stopping" or "stopped"
    bridge,     \* main()'s gateway_bridge: "none", "held", or "failed" (None)
    tools,      \* names registered with the executor
    exit,       \* how the program ended
    runs

seedVars == <<at, seeds>>
setupVars == <<place, connected, sessions, catalog, built>>
threadVars == <<error, ready, closed, shutdown, setupError, loop>>
mainVars == <<bridge, tools, exit>>
vars == <<asked, pc, at, seeds, life, place, connected, sessions, catalog, built, error,
          ready, closed, shutdown, setupError, loop, bridge, tools, exit, runs>>

NoPolicy == [exact |-> {}, servers |-> {}, deny |-> {}]
Unbuilt == [done |-> FALSE, policy |-> NoPolicy]

\* The bridge always asks for the local profile; the command line may ask for any.
Asked(program, registry, roles, profile) ==
    [program |-> program, registry |-> registry, roles |-> roles,
     profile |-> IF program = "main" THEN "local" ELSE profile]

Invocations ==
    {Asked(program, registry, roles, profile) :
        program \in Programs, registry \in Registries, roles \in RoleFiles,
        profile \in {NoProfile, "docker", "local"}}

\* A command's coroutine starts at once; main() seeds first.
FirstPc(a) == IF a.program = "main" THEN "looking" ELSE "running"
FirstLife(a) == IF a.program = "main" THEN "none" ELSE "load"

Init ==
    /\ asked \in Invocations
    /\ pc = FirstPc(asked) /\ life = FirstLife(asked)
    /\ at = 1
    /\ seeds = [t \in Tickets |-> 0]
    /\ place = 1 /\ connected = {} /\ sessions = {} /\ catalog = {} /\ built = Unbuilt
    /\ error = "none" /\ ready = FALSE /\ closed = FALSE /\ shutdown = FALSE
    /\ setupError = "none" /\ loop = "none"
    /\ bridge = "none" /\ tools = {} /\ exit = 0
    /\ runs = 1

Main == asked.program = "main"
Entries == asked.registry.servers
Profile == ActiveProfile(asked.profile, EnvProfile, asked.registry)

----------------------------------------------------------------------------
(* main(), phase 1: _seed_support_tickets.                                   *)

\* Mutant of Missing: a partial seed is taken for no seed.
Missing_Partial == \E t \in Tickets : seeds[t] = 0
Missing == \A t \in Tickets : seeds[t] = 0

\* The queue is asked for the lot's tickets; any answer but "none" skips the seed.
Look ==
    /\ pc = "looking"
    /\ pc' = IF Missing THEN "posting" ELSE "building"
    /\ UNCHANGED <<asked, life, runs>> /\ UNCHANGED seedVars
    /\ UNCHANGED setupVars /\ UNCHANGED threadVars /\ UNCHANGED mainVars

\* One POST; its answer may be lost (ok is FALSE), which ends the seeding.
Post(ok) ==
    /\ pc = "posting" /\ at <= NumTickets
    /\ seeds' = [seeds EXCEPT ![at] = @ + 1]
    /\ at' = at + 1
    /\ pc' = IF ok THEN "posting" ELSE "building"
    /\ UNCHANGED <<asked, life, runs>>
    /\ UNCHANGED setupVars /\ UNCHANGED threadVars /\ UNCHANGED mainVars

\* URLError or OSError of a request that did nothing, and the end of the loop.
SeedingEnds ==
    /\ pc \in {"looking", "posting"}
    /\ pc' = "building"
    /\ UNCHANGED <<asked, life, runs>> /\ UNCHANGED seedVars
    /\ UNCHANGED setupVars /\ UNCHANGED threadVars /\ UNCHANGED mainVars

Seeding == Look \/ (\E ok \in BOOLEAN : Post(ok)) \/ SeedingEnds

----------------------------------------------------------------------------
(* Bring-up: _lifecycle, cmd_check and cmd_dump.  The bridge's runs on the    *)
(* loop's thread, and only while that thread runs its loop.                  *)

Runs(l) ==
    /\ life = l
    /\ IF Main THEN loop \in {"running", "stopping"} ELSE pc = "running"

Step(l) ==
    /\ life' = l
    /\ UNCHANGED <<asked, pc, runs>> /\ UNCHANGED seedVars /\ UNCHANGED mainVars

\* An exception leaves the async with block.
Raise(e) ==
    /\ error' = e
    /\ Step("unwinding")
    /\ UNCHANGED setupVars /\ UNCHANGED <<ready, closed, shutdown, setupError, loop>>

Load ==
    /\ Runs("load")
    /\ \/ /\ RegistryAccepts(asked.registry, Profile)
          /\ Step("connect")
          /\ UNCHANGED setupVars /\ UNCHANGED threadVars
       \/ ~RegistryAccepts(asked.registry, Profile) /\ Raise("registry")

\* connect_all: the next server is connected or skipped; a disabled one is skipped.
Connect(ok) ==
    /\ Runs("connect") /\ place <= Len(Entries)
    /\ ok => Entries[place].enabled
    /\ connected' = IF ok THEN connected \cup {Entries[place].id} ELSE connected
    /\ sessions' = IF ok THEN sessions \cup {Entries[place].id} ELSE sessions
    /\ place' = place + 1
    /\ Step("connect")
    /\ UNCHANGED <<catalog, built>> /\ UNCHANGED threadVars

\* Mutant of AllTried: the constructor is let go before there is a router.
AllTried_Early ==
    /\ Runs("connect") /\ place > Len(Entries)
    /\ Step(IF connected = {} /\ ~Main THEN "unwinding" ELSE "cataloguing")
    /\ ready' = TRUE
    /\ UNCHANGED setupVars /\ UNCHANGED <<error, closed, shutdown, setupError, loop>>
\* The commands give up when nothing is connected; the bridge goes on with nothing.
AllTried ==
    /\ Runs("connect") /\ place > Len(Entries)
    /\ Step(IF connected = {} /\ ~Main THEN "unwinding" ELSE "cataloguing")
    /\ UNCHANGED setupVars /\ UNCHANGED threadVars

\* build_catalog over the open sessions; a tool TOOL_ACCESS does not know raises.
BuildCatalog(serves) ==
    LET listed == UNION {serves[s] : s \in sessions}
    IN  /\ Runs("cataloguing")
        /\ \/ /\ listed \subseteq DOMAIN Access
              /\ catalog' = listed
              /\ Step("policy")
              /\ UNCHANGED <<place, connected, sessions, built>> /\ UNCHANGED threadVars
           \/ ~(listed \subseteq DOMAIN Access) /\ Raise("catalog")

\* build_policy, inside Router's constructor for the bridge and before it for dump.
\* The bridge lets its constructor go; a command prints what it found and returns.
BuildPolicy ==
    /\ Runs("policy")
    /\ \/ /\ RolesAccept(asked.roles, Role)
          /\ built' = [done |-> TRUE, policy |-> PolicyOf(asked.roles.roles[Role])]
          /\ ready' = Main
          /\ Step(IF Main THEN "serving" ELSE "unwinding")
          /\ UNCHANGED <<place, connected, sessions, catalog>>
          /\ UNCHANGED <<error, closed, shutdown, setupError, loop>>
       \/ ~RolesAccept(asked.roles, Role) /\ Raise("policy")

Shutdown ==
    /\ Runs("serving") /\ shutdown
    /\ Step("unwinding")
    /\ UNCHANGED setupVars /\ UNCHANGED threadVars

\* A transport dies under an open session: the failure of one server's transport, or
\* of its tool listing, reaches the coroutine wherever it awaits.
Collapse ==
    /\ \E l \in {"connect", "cataloguing", "serving"} : Runs(l)
    /\ sessions # {}
    /\ Raise("transport")

\* A cancellation with no failure behind it: _connect_one passes it on, and it is no
\* Exception.
Cancelled ==
    /\ Main
    /\ \E l \in {"connect", "cataloguing", "serving"} : Runs(l)
    /\ Raise("cancelled")

\* GatewayConnections.__aexit__: the sessions are forgotten, then closed.
Unwind ==
    /\ Runs("unwinding")
    /\ sessions' = {}
    /\ Step("leaving")
    /\ UNCHANGED <<place, connected, catalog, built>> /\ UNCHANGED threadVars

\* Mutant of Except: the constructor is told of the error, and not woken.
Except_Unwoken ==
    /\ Main /\ Runs("leaving")
    /\ setupError' = IF error \in {"none", "cancelled"} THEN "none" ELSE error
    /\ Step("finally")
    /\ UNCHANGED setupVars /\ UNCHANGED <<error, ready, closed, shutdown, loop>>
\* The transports are closed; the except clause sees every Exception.
Except ==
    /\ Main /\ Runs("leaving")
    /\ setupError' = IF error \in {"none", "cancelled"} THEN "none" ELSE error
    /\ ready' = (ready \/ error \notin {"none", "cancelled"})
    /\ Step("finally")
    /\ UNCHANGED setupVars /\ UNCHANGED <<error, closed, shutdown, loop>>

Finally ==
    /\ Main /\ Runs("finally")
    /\ closed' = TRUE
    /\ Step("done")
    /\ UNCHANGED setupVars /\ UNCHANGED <<error, ready, shutdown, setupError, loop>>

\* check counts the servers that were skipped, or disabled, against the health.
\* Mutant: it only asks whether anything was reached.
Incomplete_Nothing == asked.program = "check" /\ connected = {}
Incomplete == asked.program = "check" /\ Cardinality(connected) < Len(Entries)

\* What the shell sees: main() of cli.py maps the errors that its commands let
\* through, and any other is a traceback.
ExitCode ==
    IF error = "registry" \/ (error = "policy" /\ asked.program = "dump") THEN 2
    ELSE IF error = "catalog" /\ asked.program = "dump" THEN 3
    ELSE IF error # "none" \/ ~built.done \/ Incomplete THEN 1
    ELSE 0

----------------------------------------------------------------------------
(* The main thread.                                                          *)

\* The process is gone, and its daemon thread with it.
End(code) ==
    /\ pc' = "ended"
    /\ exit' = code
    /\ sessions' = {}
    /\ loop' = IF loop = "none" THEN "none" ELSE "stopped"
    /\ UNCHANGED <<asked, life, runs, place, connected, catalog, built, error, ready, closed,
                   shutdown, setupError, bridge, tools>>
    /\ UNCHANGED seedVars

CommandEnds == ~Main /\ Runs("leaving") /\ End(ExitCode)

\* GatewayBridge.__init__ up to the wait.
Construct ==
    /\ pc = "building"
    /\ loop' = "running" /\ life' = "load" /\ pc' = "waiting"
    /\ UNCHANGED <<asked, runs, error, ready, closed, shutdown, setupError>>
    /\ UNCHANGED seedVars /\ UNCHANGED setupVars /\ UNCHANGED mainVars

\* The constructor returns, and setup_gateway_tools registers what the role may call.
Hold ==
    /\ pc = "waiting" /\ ready /\ setupError = "none"
    /\ bridge' = "held"
    /\ tools' = P(built.policy)!VisibleTools(catalog)
    /\ pc' = "chatting"
    /\ UNCHANGED <<asked, life, runs, exit>>
    /\ UNCHANGED seedVars /\ UNCHANGED setupVars /\ UNCHANGED threadVars

\* It raises, after it has stopped the thread; main() goes on without tools.
GiveUp ==
    /\ pc = "waiting" /\ ready /\ setupError # "none"
    /\ bridge' = "failed"
    /\ loop' = "stopping" /\ pc' = "joining"
    /\ UNCHANGED <<asked, life, runs, tools, exit, error, ready, closed, shutdown, setupError>>
    /\ UNCHANGED seedVars /\ UNCHANGED setupVars

\* loop.stop takes effect after the callback that is running.
LoopStops ==
    /\ loop = "stopping" /\ life # "finally"
    /\ loop' = "stopped"
    /\ UNCHANGED <<asked, pc, life, runs, error, ready, closed, shutdown, setupError>>
    /\ UNCHANGED seedVars /\ UNCHANGED setupVars /\ UNCHANGED mainVars

Joined ==
    /\ pc = "joining" /\ loop = "stopped"
    /\ IF bridge = "failed"
       THEN /\ pc' = "chatting"
            /\ UNCHANGED <<asked, life, runs>> /\ UNCHANGED seedVars
            /\ UNCHANGED setupVars /\ UNCHANGED threadVars /\ UNCHANGED mainVars
       ELSE End(exit)

\* chat() returns, or raises; the finally clause closes the bridge either way.
ChatEnds(code) ==
    /\ pc = "chatting"
    /\ IF bridge = "held"
       THEN /\ pc' = "closing" /\ exit' = code
            /\ UNCHANGED <<asked, life, runs, bridge, tools>> /\ UNCHANGED seedVars
            /\ UNCHANGED setupVars /\ UNCHANGED threadVars
       ELSE End(code)

\* close() of a bridge that has collapsed returns at once.
Close ==
    /\ pc = "closing"
    /\ IF closed
       THEN End(exit)
       ELSE /\ shutdown' = TRUE /\ pc' = "awaiting"
            /\ UNCHANGED <<asked, life, runs, error, ready, closed, setupError, loop>>
            /\ UNCHANGED seedVars /\ UNCHANGED setupVars /\ UNCHANGED mainVars

\* Ten seconds are enough for anything but transports that are slow to close.
AwaitClosed ==
    /\ pc = "awaiting" /\ (closed \/ life = "leaving")
    /\ loop' = "stopping" /\ pc' = "joining"
    /\ UNCHANGED <<asked, life, runs, error, ready, closed, shutdown, setupError>>
    /\ UNCHANGED seedVars /\ UNCHANGED setupVars /\ UNCHANGED mainVars

\* The process is killed or interrupted; the status is that of no program here.
Killed == 9
Kill == pc # "ended" /\ End(Killed)

\* Somebody runs a program again; the support queue is what outlives the process.
Again(a) ==
    /\ pc = "ended" /\ runs < MaxRuns
    /\ asked' = a
    /\ pc' = FirstPc(a) /\ life' = FirstLife(a)
    /\ at' = 1
    /\ place' = 1 /\ connected' = {} /\ sessions' = {} /\ catalog' = {} /\ built' = Unbuilt
    /\ error' = "none" /\ ready' = FALSE /\ closed' = FALSE /\ shutdown' = FALSE
    /\ setupError' = "none" /\ loop' = "none"
    /\ bridge' = "none" /\ tools' = {} /\ exit' = 0
    /\ runs' = runs + 1
    /\ UNCHANGED seeds

ServesAll == {f \in [Servers -> UNION {Served[s] : s \in Servers}] :
                 \A s \in Servers : f[s] \in Served[s]}

BringUp ==
    \/ Load \/ (\E ok \in BOOLEAN : Connect(ok)) \/ AllTried
    \/ (\E serves \in ServesAll : BuildCatalog(serves))
    \/ BuildPolicy \/ Shutdown \/ Unwind \/ Except \/ Finally \/ CommandEnds
MainThread ==
    \/ Construct \/ Hold \/ GiveUp \/ Joined
    \/ (\E code \in {0, 1} : ChatEnds(code)) \/ Close \/ AwaitClosed
Mishap == Collapse \/ Cancelled \/ Kill

Next == Seeding \/ BringUp \/ MainThread \/ LoopStops \/ Mishap \/ (\E a \in Invocations : Again(a))

Spec == Init /\ [][Next]_vars

\* Both threads are scheduled, servers answer or time out, and chat() returns or
\* raises.  Nothing is assumed of the seeding, whose requests carry no timeout.
FairSpec == Spec /\ WF_vars(BringUp) /\ WF_vars(MainThread) /\ WF_vars(LoopStops)

----------------------------------------------------------------------------
(* Properties.                                                               *)

Codes == 0..3 \cup {Killed}
PolicyType == [exact : SUBSET (Seq(STRING)), servers : SUBSET STRING, deny : SUBSET (Seq(STRING))]

TypeOK ==
    /\ asked \in Invocations
    /\ pc \in {"looking", "posting", "building", "waiting", "chatting", "closing", "awaiting",
               "joining", "running", "ended"}
    /\ life \in {"none", "load", "connect", "cataloguing", "policy", "serving", "unwinding",
                 "leaving", "finally", "done"}
    /\ at \in Nat /\ place \in Nat /\ runs \in Nat
    /\ seeds \in [Tickets -> Nat]
    /\ connected \subseteq Ids(asked.registry) /\ sessions \subseteq connected
    /\ error \in {"none", "registry", "catalog", "policy", "transport", "cancelled"}
    /\ setupError \in {"none", "registry", "catalog", "policy", "transport"}
    /\ ready \in BOOLEAN /\ closed \in BOOLEAN /\ shutdown \in BOOLEAN
    /\ loop \in {"none", "running", "stopping", "stopped"}
    /\ bridge \in {"none", "held", "failed"}
    /\ exit \in Codes

\* The two threads hand over a whole gateway or none (gateway_bridge.py).  When the
\* constructor has returned, every configured server was tried, every listed tool is
\* classified, and the tools registered are exactly those the role's rules grant.
\* When it has raised and main() chats without tools, there was an error to tell, no
\* session is open, and the thread is gone and with it the coroutine.
HandedOver ==
    /\ bridge = "held" =>
          /\ built.done /\ place = Len(Entries) + 1
          /\ RegistryAccepts(asked.registry, "local") /\ RolesAccept(asked.roles, Role)
          /\ tools = {name \in catalog \cap DOMAIN Access :
                         P(PolicyOf(asked.roles.roles[Role]))!Allowed(name)}
    /\ bridge = "failed" =>
          /\ setupError # "none" /\ sessions = {} /\ tools = {}
          /\ pc = "chatting" => loop = "stopped" /\ life = "done"
    /\ pc = "chatting" => bridge # "none"

\* An exit code says what happened (cli.py).  check exits with 0 exactly when every
\* configured server was connected and catalogue and policy are in order.  No
\* command says 0 without a catalogue and a policy, 2 is about a file that is refused,
\* 3 about a tool that is not classified, and nothing is left open.
ExitTells ==
    pc = "ended" /\ exit # Killed =>
        /\ sessions = {}
        /\ asked.program = "check" =>
              (exit = 0 <=> /\ error = "none" /\ built.done
                            /\ connected = Ids(asked.registry))
        /\ exit = 0 /\ ~Main => /\ connected # {}
                                /\ catalog \subseteq DOMAIN Access
                                /\ RolesAccept(asked.roles, Role)
        /\ exit = 2 => \/ ~RegistryAccepts(asked.registry, Profile) /\ connected = {}
                       \/ ~RolesAccept(asked.roles, Role) /\ asked.program = "dump"
        /\ exit = 3 => connected # {} /\ asked.program = "dump"

\* However often main() is run, with lost answers and interrupted runs, it files no
\* crisis ticket twice, and what it filed is a beginning of the list (main.py,
\* _seed_support_tickets): the CEO is never shown more evidence than there is.
SeedsOnce ==
    /\ \A t \in Tickets : seeds[t] <= 1
    /\ \A t, u \in Tickets : t < u /\ seeds[u] = 1 => seeds[t] = 1

\* Once the gateway is being set up, the program ends, whatever fails in setup, chat or
\* teardown (main.py, gateway_bridge.py, cli.py); the one exception is a bare
\* cancellation of the lifecycle, which the except clause does not see.
ProgramEnds == pc \in {"waiting", "running"} ~> pc = "ended" \/ error = "cancelled"
=============================================================================
