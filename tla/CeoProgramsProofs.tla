------------------------- MODULE CeoProgramsProofs -------------------------
(***************************************************************************)
(* Theorems about CeoPrograms, for any registry and role files, served tools, *)
(* number of tickets and number of runs.                                     *)
(***************************************************************************)
EXTENDS CeoPrograms, FiniteSetTheorems, TLAPS

----------------------------------------------------------------------------
(* The inductive invariant.                                                  *)

\* Where the threads are, and what the main thread holds there.
ProgInv ==
    /\ asked \in Invocations /\ runs \in Nat
    /\ pc \in {"looking", "posting", "building", "waiting", "chatting", "closing", "awaiting",
               "joining", "running", "ended"}
    /\ life \in {"none", "load", "connect", "cataloguing", "policy", "serving", "unwinding",
                 "leaving", "finally", "done"}
    /\ loop \in {"none", "running", "stopping", "stopped"}
    /\ bridge \in {"none", "held", "failed"}
    /\ Main => pc # "running"
    /\ ~Main => pc \in {"running", "ended"}
    /\ ~Main => loop = "none" /\ bridge = "none"
    /\ pc \in {"looking", "posting", "building"} => life = "none" /\ loop = "none"
    /\ pc \in {"looking", "posting", "building", "waiting"} => bridge = "none"
    /\ pc = "waiting" => loop = "running"
    /\ pc = "ended" => loop \in {"none", "stopped"}
    /\ pc = "chatting" => bridge # "none"
    /\ pc \in {"closing", "awaiting"} => bridge = "held"
    /\ pc = "joining" => bridge # "none" /\ loop \in {"stopping", "stopped"}
    /\ pc = "chatting" /\ bridge = "failed" => loop = "stopped"

\* What bring-up has done by the time it is somewhere.
BringInv ==
    /\ place \in 1..(Len(Entries) + 1)
    /\ connected \subseteq Ids(asked.registry) /\ sessions \subseteq connected
    /\ error \in {"none", "registry", "catalog", "policy", "transport", "cancelled"}
    /\ built.done \in BOOLEAN
    /\ life \in {"none", "load"} => place = 1 /\ connected = {} /\ error = "none"
    /\ life \in {"none", "load", "connect", "cataloguing", "policy"} => ~built.done
    /\ life \in {"connect", "cataloguing", "policy", "serving"} => error = "none"
    /\ life \in {"cataloguing", "policy", "serving"} => place = Len(Entries) + 1
    /\ life \in {"cataloguing", "policy"} => Main \/ connected # {}
    /\ life = "policy" => catalog \subseteq DOMAIN Access
    /\ life = "serving" => Main /\ built.done
    /\ life \in {"leaving", "finally", "done"} => sessions = {}
    /\ life \notin {"none", "load"} /\ error # "registry" => RegistryAccepts(asked.registry, Profile)
    /\ error = "registry" =>
          ~RegistryAccepts(asked.registry, Profile) /\ connected = {} /\ ~built.done
    /\ error = "catalog" => connected # {} /\ ~built.done
    /\ error = "policy" => ~RolesAccept(asked.roles, Role) /\ ~built.done
    /\ built.done =>
          /\ place = Len(Entries) + 1 /\ (Main \/ connected # {})
          /\ catalog \subseteq DOMAIN Access
          /\ RolesAccept(asked.roles, Role)
          /\ built.policy = PolicyOf(asked.roles.roles[Role])

\* What the two threads tell one another.
HandInv ==
    /\ ready \in BOOLEAN /\ closed \in BOOLEAN /\ shutdown \in BOOLEAN
    /\ setupError \in {"none", "registry", "catalog", "policy", "transport"}
    /\ ready /\ setupError = "none" => built.done
    /\ setupError # "none" => life \in {"finally", "done"}
    /\ bridge = "none" => tools = {}
    /\ bridge = "held" => built.done /\ tools = P(built.policy)!VisibleTools(catalog)
    /\ bridge = "failed" => setupError # "none" /\ tools = {}
    /\ bridge = "failed" /\ loop = "stopped" /\ pc \in {"joining", "chatting"} => life = "done"

\* How programs end.
ExitInv ==
    /\ exit \in Codes
    /\ Main => exit \in {0, 1, Killed}
    /\ pc = "ended" => sessions = {}
    /\ pc = "ended" /\ ~Main /\ exit # Killed => exit = ExitCode

\* What the support queue has of the list.
SeedInv ==
    /\ seeds \in [Tickets -> Nat] /\ at \in Nat \ {0}
    /\ SeedsOnce
    /\ pc = "looking" => at = 1
    /\ pc = "posting" => \A t \in Tickets : seeds[t] = IF t < at THEN 1 ELSE 0

Inv == ProgInv /\ BringInv /\ HandInv /\ ExitInv /\ SeedInv

\* The parts of an invocation.
LEMMA InvocationParts ==
    ASSUME NEW a \in Invocations
    PROVE  /\ a.program \in Programs /\ a.registry \in Registries /\ a.roles \in RoleFiles
           /\ a.program = "main" => a.profile = "local"
  BY DEF Invocations, Asked

LEMMA EntriesSeq ==
    ASSUME ProgInv
    PROVE  /\ Entries \in Seq([id : STRING, profiles : SUBSET STRING, enabled : BOOLEAN])
           /\ Len(Entries) \in Nat
           /\ \A i \in 1..Len(Entries) : Entries[i].id \in Ids(asked.registry)
  <1>1. Entries \in Seq([id : STRING, profiles : SUBSET STRING, enabled : BOOLEAN])
    BY InvocationParts, RegistriesAssumption DEF ProgInv, Entries
  <1> QED BY <1>1 DEF Entries, Ids

----------------------------------------------------------------------------
(* The threads.                                                              *)

LEMMA ProgKept ==
    ASSUME ProgInv, [Next]_vars
    PROVE  ProgInv'
  <1>1. CASE Seeding
    BY <1>1 DEF ProgInv, Main, Seeding, Look, Post, SeedingEnds, mainVars, threadVars
  <1>2. ASSUME NEW l, Step(l), l \in {"load", "connect", "cataloguing", "policy", "serving",
                                      "unwinding", "leaving", "finally", "done"},
               loop' = loop, life # "none"
        PROVE  ProgInv'
    BY <1>2 DEF ProgInv, Main, Step, mainVars
  <1>3. CASE BringUp /\ ~CommandEnds
    <2>1. \E l \in {"connect", "cataloguing", "policy", "serving", "unwinding", "leaving",
                    "finally", "done"} : Step(l) /\ loop' = loop /\ life # "none"
      BY <1>3 DEF BringUp, Load, Connect, AllTried, BuildCatalog, BuildPolicy, Shutdown, Unwind,
             Except, Finally, Raise, Runs, threadVars
    <2> QED BY <2>1, <1>2
  <1>4. CASE CommandEnds
    BY <1>4 DEF ProgInv, Main, CommandEnds, End, Runs
  <1>5. CASE Construct \/ Hold \/ GiveUp
    BY <1>5 DEF ProgInv, Main, Construct, Hold, GiveUp, mainVars, threadVars
  <1>6. CASE Joined \/ Close \/ AwaitClosed \/ \E code \in {0, 1} : ChatEnds(code)
    BY <1>6 DEF ProgInv, Main, Joined, Close, AwaitClosed, ChatEnds, End, mainVars, threadVars
  <1>7. CASE LoopStops
    BY <1>7 DEF ProgInv, Main, LoopStops, mainVars
  <1>8. CASE Collapse \/ Cancelled
    <2>1. Step("unwinding") /\ loop' = loop /\ life # "none"
      BY <1>8 DEF Collapse, Cancelled, Raise, Runs
    <2> QED BY <2>1, <1>2
  <1>9. CASE Kill
    BY <1>9 DEF ProgInv, Main, Kill, End
  <1>10. ASSUME NEW a \in Invocations, Again(a) PROVE ProgInv'
    BY <1>10, InvocationParts DEF ProgInv, Main, Again, FirstPc, FirstLife
  <1>11. CASE UNCHANGED vars
    BY <1>11 DEF ProgInv, Main, vars
  <1> QED BY <1>1, <1>3, <1>4, <1>5, <1>6, <1>7, <1>8, <1>9, <1>10, <1>11
             DEF Next, MainThread, Mishap

----------------------------------------------------------------------------
(* Bring-up.                                                                 *)

LEMMA BringFrame ==
    ASSUME BringInv, UNCHANGED <<asked, life, place, connected, catalog, built, error>>,
           sessions' = sessions \/ sessions' = {}
    PROVE  BringInv'
  BY DEF BringInv, Main, Entries, Profile

LEMMA BringKept ==
    ASSUME ProgInv, BringInv, [Next]_vars
    PROVE  BringInv'
  <1>0. Len(Entries) \in Nat /\ \A i \in 1..Len(Entries) : Entries[i].id \in Ids(asked.registry)
    BY EntriesSeq
  <1>1. CASE Seeding \/ Hold \/ GiveUp \/ LoopStops \/ AwaitClosed \/ UNCHANGED vars
    <2>1. UNCHANGED <<asked, life, place, connected, sessions, catalog, built, error>>
      BY <1>1 DEF Seeding, Look, Post, SeedingEnds, Hold, GiveUp, LoopStops, AwaitClosed, vars,
             setupVars, threadVars
    <2> QED BY <2>1, BringFrame
  <1>2. CASE Joined \/ Close \/ Kill \/ CommandEnds \/ \E code \in {0, 1} : ChatEnds(code)
    <2>1. /\ UNCHANGED <<asked, life, place, connected, catalog, built, error>>
          /\ sessions' = sessions \/ sessions' = {}
      BY <1>2 DEF Joined, Close, Kill, CommandEnds, ChatEnds, End, setupVars, threadVars
    <2> QED BY <2>1, BringFrame
  <1>3. CASE Construct
    BY <1>3 DEF BringInv, ProgInv, Construct, setupVars, Main, Entries, Profile
  <1>4. CASE Load
    BY <1>4 DEF BringInv, Load, Runs, Step, Raise, setupVars, threadVars, Main, Entries, Profile
  <1>5. ASSUME NEW ok \in BOOLEAN, Connect(ok) PROVE BringInv'
    BY <1>0, <1>5 DEF BringInv, Connect, Runs, Step, threadVars, Main, Entries, Profile
  <1>6. CASE AllTried
    BY <1>0, <1>6 DEF BringInv, AllTried, Runs, Step, setupVars, threadVars, Main, Entries, Profile
  <1>7. ASSUME NEW serves, BuildCatalog(serves) PROVE BringInv'
    <2>1. sessions = {} => UNION {serves[s] : s \in sessions} = {}
      OBVIOUS
    <2>2. CASE error' = "catalog"
      BY <1>7, <2>1, <2>2 DEF BringInv, BuildCatalog, Runs, Step, Raise, setupVars, threadVars,
             Main, Entries, Profile
    <2>3. CASE error' # "catalog"
      BY <1>7, <2>3 DEF BringInv, BuildCatalog, Runs, Step, Raise, setupVars, threadVars,
             Main, Entries, Profile
    <2> QED BY <2>2, <2>3
  <1>8. CASE BuildPolicy
    <2>1. /\ UNCHANGED <<asked, place, connected, sessions, catalog>>
          /\ life = "policy"
      BY <1>8 DEF BuildPolicy, Runs, Step, Raise, setupVars
    <2>2. CASE ~RolesAccept(asked.roles, Role)
      <3>1. life' = "unwinding" /\ error' = "policy" /\ built' = built
        BY <1>8, <2>2 DEF BuildPolicy, Step, Raise, setupVars
      <3> QED BY <2>1, <2>2, <3>1 DEF BringInv, Main, Entries, Profile
    <2>3. CASE RolesAccept(asked.roles, Role)
      <3>1. /\ life' = IF Main THEN "serving" ELSE "unwinding"
            /\ error' = error
            /\ built' = [done |-> TRUE, policy |-> PolicyOf(asked.roles.roles[Role])]
        BY <1>8, <2>3 DEF BuildPolicy, Step
      <3>2. built'.done = TRUE /\ built'.policy = PolicyOf(asked.roles.roles[Role])
        BY <3>1
      <3>3. life' = IF Main THEN "serving" ELSE "unwinding"
        BY <3>1
      <3> QED BY <2>1, <2>3, <3>2, <3>3, <3>1 DEF BringInv, Main, Entries, Profile
    <2> QED BY <2>2, <2>3
  <1>9. CASE Shutdown \/ Unwind
    BY <1>9 DEF BringInv, Shutdown, Unwind, Runs, Step, setupVars, threadVars, Main, Entries, Profile
  <1>10. CASE Except \/ Finally
    BY <1>10 DEF BringInv, Except, Finally, Runs, Step, setupVars, threadVars, Main, Entries, Profile
  <1>11. CASE Collapse \/ Cancelled
    BY <1>11 DEF BringInv, Collapse, Cancelled, Runs, Step, Raise, setupVars, threadVars, Main,
           Entries, Profile
  <1>12. ASSUME NEW a \in Invocations, Again(a) PROVE BringInv'
    <2>1. Entries' = a.registry.servers
      BY <1>12 DEF Again, Entries
    <2>2. Len(Entries') \in Nat
      BY <2>1, InvocationParts, RegistriesAssumption
    <2>3. /\ place' = 1 /\ connected' = {} /\ sessions' = {} /\ built'.done = FALSE
          /\ error' = "none" /\ life' \in {"none", "load"}
      BY <1>12 DEF Again, Unbuilt, FirstLife
    <2>4. place' \in 1..(Len(Entries') + 1)
      BY <2>2, <2>3
    <2> QED BY <2>3, <2>4 DEF BringInv
  <1> QED BY <1>1, <1>2, <1>3, <1>4, <1>5, <1>6, <1>7, <1>8, <1>9, <1>10, <1>11, <1>12
             DEF Next, BringUp, MainThread, Mishap

----------------------------------------------------------------------------
(* The hand-over between the threads.                                        *)

LEMMA HandFrame ==
    ASSUME HandInv, UNCHANGED <<life, ready, closed, setupError, bridge, tools, built, catalog>>,
           shutdown' \in BOOLEAN,
           loop' = loop \/ pc' \notin {"joining", "chatting"},
           pc' \in {"joining", "chatting"} => pc \in {"joining", "chatting"} \/ bridge # "failed"
    PROVE  HandInv'
  BY DEF HandInv

LEMMA HandKept ==
    ASSUME ProgInv, BringInv, HandInv, [Next]_vars
    PROVE  HandInv'
  <1>1. CASE Seeding \/ UNCHANGED vars
    <2>1. UNCHANGED <<life, ready, closed, setupError, bridge, tools, built, catalog, shutdown, loop>>
      BY <1>1 DEF Seeding, Look, Post, SeedingEnds, setupVars, threadVars, mainVars, vars
    <2>2. pc' = pc \/ pc' \notin {"joining", "chatting"}
      BY <1>1 DEF Seeding, Look, Post, SeedingEnds, vars
    <2> QED BY <2>1, <2>2, HandFrame DEF HandInv
  <1>2. CASE Load \/ AllTried \/ Shutdown \/ Unwind \/ Collapse \/ Cancelled
             \/ \E ok \in BOOLEAN : Connect(ok)
    <2>1. /\ UNCHANGED <<ready, closed, setupError, bridge, tools, built, catalog, shutdown, pc, loop>>
          /\ life \in {"load", "connect", "cataloguing", "serving", "unwinding"}
      BY <1>2 DEF Load, AllTried, Shutdown, Unwind, Collapse, Cancelled, Connect, Step, Raise, Runs,
             setupVars, threadVars, mainVars
    <2> QED BY <2>1 DEF HandInv
  <1>3. ASSUME NEW serves, BuildCatalog(serves) PROVE HandInv'
    <2>1. /\ UNCHANGED <<ready, closed, setupError, bridge, tools, built, shutdown, pc, loop>>
          /\ life = "cataloguing"
      BY <1>3 DEF BuildCatalog, Step, Raise, Runs, setupVars, threadVars, mainVars
    <2> QED BY <2>1 DEF HandInv, BringInv
  <1>4. CASE BuildPolicy
    <2>1. UNCHANGED <<closed, setupError, bridge, tools, shutdown, pc, loop>> /\ life = "policy"
      BY <1>4 DEF BuildPolicy, Step, Raise, Runs, setupVars, threadVars, mainVars
    <2>2. CASE ~RolesAccept(asked.roles, Role)
      <3>1. UNCHANGED <<ready, built, catalog>>
        BY <1>4, <2>2 DEF BuildPolicy, Raise, setupVars
      <3> QED BY <2>1, <3>1 DEF HandInv, BringInv
    <2>3. CASE RolesAccept(asked.roles, Role)
      <3>1. ready' = Main /\ built' = [done |-> TRUE, policy |-> PolicyOf(asked.roles.roles[Role])]
        BY <1>4, <2>3, Zenon DEF BuildPolicy
      <3>2. ready' \in BOOLEAN /\ built'.done = TRUE
        BY <3>1 DEF Main
      <3> QED BY <2>1, <3>2 DEF HandInv, BringInv
    <2> QED BY <2>2, <2>3
  <1>5. CASE Except
    <2>1. /\ UNCHANGED <<closed, bridge, tools, shutdown, pc, loop, built, catalog>>
          /\ life = "leaving" /\ life' = "finally"
          /\ setupError' = IF error \in {"none", "cancelled"} THEN "none" ELSE error
      BY <1>5 DEF Except, Step, Runs, setupVars, mainVars
    <2>2. ready' = (ready \/ error \notin {"none", "cancelled"})
      BY <1>5 DEF Except
    <2> QED BY <2>1, <2>2 DEF HandInv, BringInv
  <1>6. CASE Finally
    <2>1. /\ UNCHANGED <<bridge, tools, shutdown, pc, loop, built, catalog, ready, setupError>>
          /\ life = "finally" /\ life' = "done" /\ closed' = TRUE
      BY <1>6 DEF Finally, Step, Runs, setupVars, mainVars
    <2> QED BY <2>1 DEF HandInv
  <1>7. CASE Construct
    <2>1. /\ UNCHANGED <<bridge, tools, shutdown, built, catalog, ready, closed, setupError>>
          /\ pc = "building" /\ bridge = "none"
      BY <1>7 DEF Construct, setupVars, mainVars, ProgInv
    <2> QED BY <2>1, <1>7 DEF HandInv, ProgInv
  <1>8. CASE Hold
    <2>1. /\ UNCHANGED <<life, loop, shutdown, built, catalog, ready, closed, setupError>>
          /\ bridge' = "held" /\ ready /\ setupError = "none"
      BY <1>8 DEF Hold, setupVars, threadVars
    <2>2. tools' = P(built.policy)!VisibleTools(catalog)
      BY <1>8 DEF Hold
    <2> QED BY <2>1, <2>2 DEF HandInv
  <1>9. CASE GiveUp
    <2>1. /\ UNCHANGED <<life, shutdown, built, catalog, ready, closed, setupError, tools>>
          /\ bridge' = "failed" /\ setupError # "none" /\ bridge = "none" /\ loop' = "stopping"
      BY <1>9 DEF GiveUp, setupVars, ProgInv
    <2> QED BY <2>1 DEF HandInv
  <1>10. CASE LoopStops
    <2>1. /\ UNCHANGED <<life, shutdown, built, catalog, ready, closed, setupError, tools, bridge, pc>>
          /\ life # "finally"
      BY <1>10 DEF LoopStops, setupVars, mainVars
    <2> QED BY <2>1 DEF HandInv
  <1>11. CASE Joined \/ Close \/ AwaitClosed \/ Kill \/ CommandEnds
              \/ \E code \in {0, 1} : ChatEnds(code)
    <2>1. /\ UNCHANGED <<life, ready, closed, setupError, bridge, tools, built, catalog>>
          /\ shutdown' \in BOOLEAN
      BY <1>11 DEF Joined, Close, AwaitClosed, Kill, CommandEnds, ChatEnds, End, setupVars, threadVars,
             mainVars, HandInv
    <2>2. loop' = loop \/ pc' \notin {"joining", "chatting"} \/ bridge = "held"
      BY <1>11 DEF Joined, Close, AwaitClosed, Kill, CommandEnds, ChatEnds, End, threadVars, ProgInv
    <2>3. pc' \in {"joining", "chatting"} => pc \in {"joining", "chatting"} \/ bridge # "failed"
      BY <1>11 DEF Joined, Close, AwaitClosed, Kill, CommandEnds, ChatEnds, End, ProgInv
    <2> QED BY <2>1, <2>2, <2>3 DEF HandInv
  <1>12. ASSUME NEW a \in Invocations, Again(a) PROVE HandInv'
    <2>1. /\ bridge' = "none" /\ tools' = {} /\ setupError' = "none"
          /\ ready' = FALSE /\ closed' = FALSE /\ shutdown' = FALSE
      BY <1>12 DEF Again
    <2> QED BY <2>1 DEF HandInv
  <1> QED BY <1>1, <1>2, <1>3, <1>4, <1>5, <1>6, <1>7, <1>8, <1>9, <1>10, <1>11, <1>12
             DEF Next, BringUp, MainThread, Mishap

----------------------------------------------------------------------------
(* The ends of programs.                                                     *)

LEMMA ExitFrame ==
    ASSUME ExitInv, UNCHANGED <<asked, exit>>, pc' # "ended"
    PROVE  ExitInv'
  BY DEF ExitInv, Main

LEMMA Ended ==
    ASSUME ProgInv, ExitInv, NEW code, End(code), code \in Codes,
           Main => code \in {0, 1, Killed},
           ~Main /\ code # Killed => code = ExitCode
    PROVE  ExitInv'
  BY DEF ExitInv, End, Main, ExitCode, Incomplete, Entries

LEMMA ExitKept ==
    ASSUME ProgInv, ExitInv, [Next]_vars
    PROVE  ExitInv'
  <1>1. CASE UNCHANGED vars
    BY <1>1 DEF ExitInv, Main, ExitCode, Incomplete, Entries, vars
  <1>2. CASE Seeding \/ Construct \/ Hold \/ GiveUp \/ AwaitClosed
    <2>1. UNCHANGED <<asked, exit>> /\ pc' # "ended"
      BY <1>2 DEF Seeding, Look, Post, SeedingEnds, Construct, Hold, GiveUp, AwaitClosed, mainVars
    <2> QED BY <2>1, ExitFrame
  <1>3. CASE (BringUp /\ ~CommandEnds) \/ Collapse \/ Cancelled
    <2>1. UNCHANGED <<asked, exit>> /\ pc' = pc /\ pc # "ended"
      <3>1. \E l \in {"load", "connect", "cataloguing", "policy", "serving", "unwinding",
                      "leaving", "finally"} : Runs(l)
        BY <1>3 DEF BringUp, Load, Connect, AllTried, BuildCatalog, BuildPolicy, Shutdown, Unwind,
               Except, Finally, Collapse, Cancelled
      <3>2. pc # "ended"
        BY <3>1 DEF Runs, ProgInv, Main
      <3>3. \E l : Step(l)
        BY <1>3 DEF BringUp, Load, Connect, AllTried, BuildCatalog, BuildPolicy, Shutdown, Unwind,
               Except, Finally, Collapse, Cancelled, Raise
      <3> QED BY <3>2, <3>3 DEF Step, mainVars
    <2> QED BY <2>1, ExitFrame
  <1>4. CASE CommandEnds
    <2>1. End(ExitCode) /\ ~Main
      BY <1>4 DEF CommandEnds
    <2>2. ExitCode \in {0, 1, 2, 3}
      BY DEF ExitCode
    <2> QED BY <2>1, <2>2, Ended DEF Codes
  <1>5. CASE LoopStops
    <2>1. UNCHANGED <<asked, exit, pc>> /\ pc # "ended"
      BY <1>5 DEF LoopStops, mainVars, ProgInv
    <2> QED BY <2>1, ExitFrame
  <1>6. CASE Joined \/ Close
    <2>1. CASE End(exit)
      <3>1. Main
        BY <1>6 DEF Joined, Close, ProgInv
      <3> QED BY <2>1, <3>1, Ended DEF ExitInv
    <2>2. CASE ~End(exit)
      <3>1. UNCHANGED <<asked, exit>> /\ pc' # "ended"
        BY <1>6, <2>2 DEF Joined, Close, mainVars
      <3> QED BY <3>1, ExitFrame
    <2> QED BY <2>1, <2>2
  <1>7. ASSUME NEW code \in {0, 1}, ChatEnds(code) PROVE ExitInv'
    <2>1. Main
      BY <1>7 DEF ChatEnds, ProgInv
    <2>2. CASE bridge = "held"
      BY <1>7, <2>2 DEF ChatEnds, ExitInv, Codes, Main
    <2>3. CASE bridge # "held"
      BY <1>7, <2>1, <2>3, Ended DEF ChatEnds, Codes
    <2> QED BY <2>2, <2>3
  <1>8. CASE Kill
    BY <1>8, Ended DEF Kill, Codes
  <1>9. ASSUME NEW a \in Invocations, Again(a) PROVE ExitInv'
    BY <1>9 DEF Again, ExitInv, FirstPc, Codes
  <1> QED BY <1>1, <1>2, <1>3, <1>4, <1>5, <1>6, <1>7, <1>8, <1>9
             DEF Next, BringUp, MainThread, Mishap

----------------------------------------------------------------------------
(* The support queue.                                                        *)

LEMMA SeedFrame ==
    ASSUME SeedInv, UNCHANGED seedVars, pc' = pc \/ pc' \notin {"looking", "posting"}
    PROVE  SeedInv'
  BY DEF SeedInv, SeedsOnce, seedVars

LEMMA SeedKept ==
    ASSUME ProgInv, SeedInv, [Next]_vars
    PROVE  SeedInv'
  <1>1. CASE Look
    <2>1. /\ UNCHANGED <<seeds, at>> /\ at = 1
          /\ pc' = IF Missing THEN "posting" ELSE "building"
      BY <1>1 DEF Look, seedVars, SeedInv
    <2>2. Missing => \A t \in Tickets : seeds[t] = 0 /\ ~(t < 1)
      BY TicketsAssumption DEF Missing, Tickets
    <2> QED BY <2>1, <2>2 DEF SeedInv, SeedsOnce
  <1>2. ASSUME NEW ok \in BOOLEAN, Post(ok) PROVE SeedInv'
    <2>1. /\ at \in Tickets /\ at \in Nat \ {0} /\ at' = at + 1
          /\ seeds' = [seeds EXCEPT ![at] = @ + 1]
          /\ pc' \in {"posting", "building"}
          /\ \A t \in Tickets : seeds[t] = IF t < at THEN 1 ELSE 0
      BY <1>2, TicketsAssumption DEF Post, SeedInv, Tickets
    <2>2. \A t \in Tickets : t \in Nat
      BY TicketsAssumption DEF Tickets
    <2>3. seeds' \in [Tickets -> Nat] /\ \A t \in Tickets : seeds'[t] = IF t < at + 1 THEN 1 ELSE 0
      BY <2>1, <2>2 DEF SeedInv
    <2> QED BY <2>1, <2>2, <2>3 DEF SeedInv, SeedsOnce
  <1>3. CASE SeedingEnds \/ UNCHANGED vars
    <2>1. UNCHANGED seedVars /\ (pc' = pc \/ pc' \notin {"looking", "posting"})
      BY <1>3 DEF SeedingEnds, vars, seedVars
    <2> QED BY <2>1, SeedFrame
  <1>4. CASE BringUp \/ MainThread \/ LoopStops \/ Mishap
    <2>1. UNCHANGED seedVars
      BY <1>4, Zenon
         DEF BringUp, Load, Connect, AllTried, BuildCatalog, BuildPolicy, Shutdown, Unwind, Except,
             Finally, CommandEnds, Raise, Step, MainThread, Construct, Hold, GiveUp, Joined, ChatEnds,
             Close, AwaitClosed, LoopStops, Mishap, Collapse, Cancelled, Kill, End
    <2>2. pc' = pc \/ pc' \notin {"looking", "posting"}
      BY <1>4
         DEF BringUp, Load, Connect, AllTried, BuildCatalog, BuildPolicy, Shutdown, Unwind, Except,
             Finally, CommandEnds, Raise, Step, MainThread, Construct, Hold, GiveUp, Joined, ChatEnds,
             Close, AwaitClosed, LoopStops, Mishap, Collapse, Cancelled, Kill, End
    <2> QED BY <2>1, <2>2, SeedFrame
  <1>5. ASSUME NEW a \in Invocations, Again(a) PROVE SeedInv'
    BY <1>5 DEF Again, FirstPc, SeedInv, SeedsOnce
  <1> QED BY <1>1, <1>2, <1>3, <1>4, <1>5 DEF Next, Seeding

----------------------------------------------------------------------------
(* The invariant and the theorems.                                           *)

LEMMA InitInv == Init => Inv
  <1> SUFFICES ASSUME Init PROVE Inv
    OBVIOUS
  <1>1. ProgInv
    BY InvocationParts DEF Init, ProgInv, Main, FirstPc, FirstLife
  <1>2. BringInv
    BY <1>1, EntriesSeq DEF Init, BringInv, FirstLife, Unbuilt
  <1>3. HandInv
    BY DEF Init, HandInv
  <1>4. ExitInv
    BY DEF Init, ExitInv, Codes, FirstPc
  <1>5. SeedInv
    BY DEF Init, SeedInv, SeedsOnce, FirstPc
  <1> QED BY <1>1, <1>2, <1>3, <1>4, <1>5 DEF Inv

\* The inductive invariant holds in every reachable state of a program.
THEOREM Invariant == Spec => []Inv
  <1>1. Inv /\ [Next]_vars => Inv'
    BY ProgKept, BringKept, HandKept, ExitKept, SeedKept DEF Inv
  <1> QED BY <1>1, InitInv, PTL DEF Spec

\* Every reachable state is well typed, for any files and any number of runs.
THEOREM TypeCorrect == Spec => []TypeOK
  <1>1. Inv => TypeOK
    <2> SUFFICES ASSUME Inv PROVE TypeOK
      OBVIOUS
    <2>1. place \in Nat
      BY EntriesSeq DEF Inv, BringInv
    <2> QED BY <2>1 DEF Inv, ProgInv, BringInv, HandInv, ExitInv, SeedInv, TypeOK
  <1> QED BY <1>1, Invariant, PTL

\* The bridge hands over a whole gateway or none, wherever setup fails and however
\* the two threads are scheduled.
THEOREM HandsOver == Spec => []HandedOver
  <1>1. Inv => HandedOver
    <2> SUFFICES ASSUME Inv PROVE HandedOver
      OBVIOUS
    <2>1. ASSUME bridge = "held"
          PROVE  /\ built.done /\ place = Len(Entries) + 1
                 /\ RegistryAccepts(asked.registry, "local") /\ RolesAccept(asked.roles, Role)
                 /\ tools = {name \in catalog \cap DOMAIN Access :
                                P(PolicyOf(asked.roles.roles[Role]))!Allowed(name)}
      <3>1. /\ built.done /\ place = Len(Entries) + 1 /\ catalog \subseteq DOMAIN Access
            /\ RolesAccept(asked.roles, Role) /\ built.policy = PolicyOf(asked.roles.roles[Role])
            /\ tools = P(built.policy)!VisibleTools(catalog)
            /\ RegistryAccepts(asked.registry, Profile)
        BY <2>1 DEF Inv, HandInv, BringInv
      <3>2. Profile = "local"
        BY <2>1, InvocationParts DEF Inv, ProgInv, Main, Profile, ActiveProfile, NoProfile
      <3>3. tools = {name \in catalog : P(PolicyOf(asked.roles.roles[Role]))!Allowed(name)}
        BY <3>1 DEF P!VisibleTools
      <3> QED BY <3>1, <3>2, <3>3
    <2>2. ASSUME bridge = "failed"
          PROVE  /\ setupError # "none" /\ sessions = {} /\ tools = {}
                 /\ pc = "chatting" => loop = "stopped" /\ life = "done"
      BY <2>2 DEF Inv, ProgInv, BringInv, HandInv
    <2>3. pc = "chatting" => bridge # "none"
      BY DEF Inv, ProgInv
    <2> QED BY <2>1, <2>2, <2>3 DEF HandedOver
  <1> QED BY <1>1, Invariant, PTL

\* Ids that differ are as many as the entries.
LEMMA IdsCounted ==
    ASSUME ProgInv, RegistryAccepts(asked.registry, Profile)
    PROVE  IsFiniteSet(Ids(asked.registry)) /\ Cardinality(Ids(asked.registry)) = Len(Entries)
  <1> DEFINE id == [i \in 1..Len(Entries) |-> Entries[i].id]
  <1>1. Len(Entries) \in Nat /\ DOMAIN Entries = 1..Len(Entries)
    BY EntriesSeq
  <1>2. IsFiniteSet(1..Len(Entries)) /\ Cardinality(1..Len(Entries)) = Len(Entries)
    <2>1. ASSUME NEW n \in Nat PROVE IsFiniteSet(1..n) /\ Cardinality(1..n) = n
      <3>1. IsFiniteSet(1..n) /\ Cardinality(1..n) = IF 1 > n THEN 0 ELSE n - 1 + 1
        BY FS_Interval
      <3> QED BY <3>1
    <2> QED BY <1>1, <2>1
  <1>3. id \in Bijection(1..Len(Entries), Ids(asked.registry))
    BY <1>1 DEF RegistryAccepts, Entries, Ids, Bijection, Injection, IsInjective,
           Surjection
  <1> QED BY <1>2, <1>3, FS_Bijection DEF ExistsBijection

\* Exit codes say what happened, for any files, servers and failures.
THEOREM ExitsTell == Spec => []ExitTells
  <1>1. Inv => ExitTells
    <2> SUFFICES ASSUME Inv, pc = "ended", exit # Killed
                 PROVE  /\ sessions = {}
                        /\ asked.program = "check" =>
                              (exit = 0 <=> /\ error = "none" /\ built.done
                                            /\ connected = Ids(asked.registry))
                        /\ exit = 0 /\ ~Main => /\ connected # {}
                                                /\ catalog \subseteq DOMAIN Access
                                                /\ RolesAccept(asked.roles, Role)
                        /\ exit = 2 => \/ ~RegistryAccepts(asked.registry, Profile) /\ connected = {}
                                       \/ ~RolesAccept(asked.roles, Role) /\ asked.program = "dump"
                        /\ exit = 3 => connected # {} /\ asked.program = "dump"
      BY DEF ExitTells
    <2>1. sessions = {} /\ (Main => exit \in {0, 1}) /\ (~Main => exit = ExitCode)
      BY DEF Inv, ExitInv
    <2>2. CASE Main
      BY <2>1, <2>2 DEF Main
    <2>3. CASE ~Main
      <3>1. built.done => /\ error # "registry" /\ connected # {} /\ catalog \subseteq DOMAIN Access
                          /\ RolesAccept(asked.roles, Role) /\ RegistryAccepts(asked.registry, Profile)
        BY <2>3 DEF Inv, BringInv
      <3>2. ASSUME built.done PROVE Incomplete <=> asked.program = "check" /\ connected # Ids(asked.registry)
        <4>1. /\ IsFiniteSet(Ids(asked.registry)) /\ Cardinality(Ids(asked.registry)) = Len(Entries)
              /\ connected \subseteq Ids(asked.registry)
          BY <3>1, <3>2, IdsCounted DEF Inv, BringInv
        <4>2. IsFiniteSet(connected) /\ Cardinality(connected) \in Nat /\ Len(Entries) \in Nat
          BY <4>1, FS_Subset, FS_CardinalityType
        <4>3. Cardinality(connected) <= Len(Entries)
              /\ (Cardinality(connected) = Len(Entries) => connected = Ids(asked.registry))
          BY <4>1, FS_Subset
        <4> QED BY <4>1, <4>2, <4>3 DEF Incomplete
      <3>3. exit = 0 => error = "none" /\ built.done /\ ~Incomplete
        BY <2>1, <2>3 DEF ExitCode
      <3>4. error = "none" /\ built.done /\ ~Incomplete => exit = 0
        BY <2>1, <2>3 DEF ExitCode
      <3>5. exit = 2 => error = "registry" \/ (error = "policy" /\ asked.program = "dump")
        BY <2>1, <2>3 DEF ExitCode
      <3>6. exit = 3 => error = "catalog" /\ asked.program = "dump"
        BY <2>1, <2>3 DEF ExitCode
      <3>7. exit = 2 => \/ ~RegistryAccepts(asked.registry, Profile) /\ connected = {}
                        \/ ~RolesAccept(asked.roles, Role) /\ asked.program = "dump"
        BY <3>5 DEF Inv, BringInv
      <3>8. exit = 3 => connected # {} /\ asked.program = "dump"
        BY <3>6 DEF Inv, BringInv
      <3> QED BY <2>1, <2>3, <3>1, <3>2, <3>3, <3>4, <3>7, <3>8
    <2> QED BY <2>2, <2>3
  <1> QED BY <1>1, Invariant, PTL

\* No crisis ticket is filed twice, over any number of runs, lost answers and kills.
THEOREM SeedsOnlyOnce == Spec => []SeedsOnce
  <1>1. Inv => SeedsOnce
    BY DEF Inv, SeedInv
  <1> QED BY <1>1, Invariant, PTL

----------------------------------------------------------------------------
(* The safety half of ProgramEnds: how far a run is, and that no thread waits  *)
(* for what can no longer come.                                              *)

\* What the threads still owe one another.
WaitInv ==
    /\ at <= NumTickets + 1
    /\ pc \in {"closing", "awaiting"} \/ (pc = "chatting" /\ bridge = "held") => loop = "running"
    /\ pc = "awaiting" => shutdown
    /\ pc = "waiting" => life # "none"
    /\ pc = "running" =>
          life \in {"load", "connect", "cataloguing", "policy", "unwinding", "leaving"}
    /\ Main /\ built.done => ready
    /\ Main /\ life \in {"unwinding", "leaving"} /\ error = "none" => built.done
    /\ life \in {"finally", "done"} => ready \/ error = "cancelled"
    /\ life = "done" => closed

LEMMA WaitInit == Init => WaitInv
  BY TicketsAssumption, InvocationParts
     DEF Init, WaitInv, FirstPc, FirstLife, Main, Unbuilt

LEMMA WaitKept ==
    ASSUME Inv, WaitInv, [Next]_vars
    PROVE  WaitInv'
  <1>0. ProgInv /\ BringInv /\ at \in Nat
    BY DEF Inv, SeedInv
  <1>1. CASE Seeding
    <2>1. /\ UNCHANGED <<asked, life, built, error, ready, closed, shutdown, loop, bridge>>
          /\ pc' \in {"posting", "building"} /\ at' <= NumTickets + 1
      BY <1>0, <1>1, TicketsAssumption
         DEF Seeding, Look, Post, SeedingEnds, seedVars, setupVars, threadVars, mainVars, WaitInv
    <2> QED BY <2>1 DEF WaitInv, Main
  <1>2. CASE Load \/ AllTried \/ Shutdown \/ Unwind \/ Collapse \/ Cancelled
             \/ \E ok \in BOOLEAN : Connect(ok)
    <2>1. /\ UNCHANGED <<asked, pc, at, bridge, built, loop, ready, closed, shutdown>>
          /\ life' \notin {"none", "finally", "done", "serving"}
      BY <1>2 DEF Load, AllTried, Shutdown, Unwind, Collapse, Cancelled, Connect, Step, Raise,
             seedVars, setupVars, threadVars, mainVars
    <2>2. pc = "running" => life' \in {"load", "connect", "cataloguing", "policy", "unwinding",
                                       "leaving"}
      BY <1>0, <1>2 DEF Load, AllTried, Shutdown, Unwind, Collapse, Cancelled, Connect, Step, Raise
    <2>3. Main /\ life' \in {"unwinding", "leaving"} /\ error' = "none" => built.done
      <3>1. CASE Collapse \/ Cancelled
        BY <3>1 DEF Collapse, Cancelled, Raise
      <3>2. CASE Load \/ AllTried \/ \E ok \in BOOLEAN : Connect(ok)
        BY <3>2 DEF Load, AllTried, Connect, Step, Raise
      <3>3. CASE Shutdown
        BY <1>0, <3>3 DEF Shutdown, Runs, BringInv
      <3>4. CASE Unwind
        BY <3>4 DEF Unwind, Runs, WaitInv, threadVars
      <3> QED BY <1>2, <3>1, <3>2, <3>3, <3>4
    <2> QED BY <2>1, <2>2, <2>3 DEF WaitInv, Main
  <1>3. ASSUME NEW serves, BuildCatalog(serves) PROVE WaitInv'
    <2>1. /\ UNCHANGED <<asked, pc, at, bridge, built, loop, ready, closed, shutdown>>
          /\ life' = "policy" \/ (life' = "unwinding" /\ error' = "catalog")
      BY <1>3 DEF BuildCatalog, Step, Raise, seedVars, setupVars, threadVars, mainVars
    <2> QED BY <2>1 DEF WaitInv, Main
  <1>4. CASE BuildPolicy
    <2>1. UNCHANGED <<asked, pc, at, bridge, loop, closed, shutdown>>
      BY <1>4 DEF BuildPolicy, Step, Raise, seedVars, mainVars
    <2>2. CASE ~RolesAccept(asked.roles, Role)
      <3>1. life' = "unwinding" /\ error' = "policy" /\ UNCHANGED <<built, ready>>
        BY <1>4, <2>2 DEF BuildPolicy, Step, Raise, setupVars
      <3> QED BY <2>1, <3>1 DEF WaitInv, Main
    <2>3. CASE RolesAccept(asked.roles, Role)
      <3>1. ready' = Main /\ life' = (IF Main THEN "serving" ELSE "unwinding")
        BY <1>4, <2>3, Zenon DEF BuildPolicy, Step
      <3>2. pc = "running" => ~Main
        BY <1>0 DEF ProgInv
      <3>3. CASE Main
        <4>1. ready' /\ life' = "serving" /\ Main'
          BY <2>1, <3>1, <3>3, Zenon DEF Main
        <4> QED BY <2>1, <3>2, <3>3, <4>1 DEF WaitInv
      <3>4. CASE ~Main
        <4>1. life' = "unwinding" /\ ~Main'
          BY <2>1, <3>1, <3>4 DEF Main
        <4> QED BY <1>0, <2>1, <3>4, <4>1 DEF WaitInv, ProgInv
      <3> QED BY <3>3, <3>4
    <2> QED BY <2>2, <2>3
  <1>5. CASE Except
    <2>1. /\ UNCHANGED <<asked, pc, at, bridge, loop, closed, shutdown, built, error>>
          /\ Main /\ life = "leaving" /\ life' = "finally"
      BY <1>5 DEF Except, Step, Runs, seedVars, setupVars, mainVars
    <2>2. ready' = (ready \/ error \notin {"none", "cancelled"})
      BY <1>5 DEF Except
    <2>3. ready => ready'
      BY <2>2
    <2>4. ready' \/ error = "cancelled"
      BY <2>1, <2>2 DEF WaitInv
    <2>5. pc # "running"
      BY <1>0, <2>1 DEF ProgInv
    <2> QED BY <2>1, <2>3, <2>4, <2>5 DEF WaitInv, Main
  <1>6. CASE Finally
    <2>1. /\ UNCHANGED <<asked, pc, at, bridge, loop, shutdown, built, error, ready>>
          /\ Main /\ life = "finally" /\ life' = "done" /\ closed'
      BY <1>6 DEF Finally, Step, Runs, seedVars, setupVars, mainVars
    <2>2. pc # "running"
      BY <1>0, <2>1 DEF ProgInv
    <2> QED BY <2>1, <2>2 DEF WaitInv, Main
  <1>7. CASE Construct
    <2>1. /\ UNCHANGED <<asked, at, bridge, built, ready, closed, shutdown, error>>
          /\ pc' = "waiting" /\ life' = "load"
      BY <1>7 DEF Construct, seedVars, setupVars, mainVars
    <2> QED BY <2>1 DEF WaitInv, Main
  <1>8. CASE Hold
    <2>1. /\ UNCHANGED <<asked, at, built, ready, closed, shutdown, error, life, loop>>
          /\ pc = "waiting" /\ pc' = "chatting"
      BY <1>8 DEF Hold, seedVars, setupVars, threadVars
    <2> QED BY <1>0, <2>1 DEF WaitInv, Main, ProgInv
  <1>9. CASE GiveUp
    <2>1. /\ UNCHANGED <<asked, at, built, ready, closed, shutdown, error, life>>
          /\ pc' = "joining"
      BY <1>9 DEF GiveUp, seedVars, setupVars
    <2> QED BY <2>1 DEF WaitInv, Main
  <1>10. CASE LoopStops
    <2>1. /\ UNCHANGED <<asked, pc, at, bridge, built, ready, closed, shutdown, error, life>>
          /\ loop = "stopping"
      BY <1>10 DEF LoopStops, seedVars, setupVars, mainVars
    <2> QED BY <2>1 DEF WaitInv, Main
  <1>11. ASSUME NEW code, End(code) PROVE WaitInv'
    <2>1. UNCHANGED <<asked, at, bridge, built, ready, closed, shutdown, error, life>> /\ pc' = "ended"
      BY <1>11 DEF End, seedVars
    <2> QED BY <2>1 DEF WaitInv, Main
  <1>12. CASE Joined \/ Close \/ AwaitClosed \/ \E code \in {0, 1} : ChatEnds(code)
    <2>1. CASE \E code : End(code)
      BY <1>11, <2>1
    <2>2. CASE ~\E code : End(code)
      <3>1. UNCHANGED <<asked, at, bridge, built, ready, closed, error, life>>
        BY <1>12, <2>2 DEF Joined, Close, AwaitClosed, ChatEnds, seedVars, setupVars, threadVars, mainVars
      <3>2. \/ pc' = "chatting" /\ bridge = "failed"
            \/ pc' = "closing" /\ pc = "chatting" /\ bridge = "held" /\ loop' = loop
            \/ pc' = "awaiting" /\ pc = "closing" /\ shutdown' /\ loop' = loop
            \/ pc' = "joining"
        BY <1>12, <2>2 DEF Joined, Close, AwaitClosed, ChatEnds, threadVars
      <3> QED BY <3>1, <3>2 DEF WaitInv, Main
    <2> QED BY <2>1, <2>2
  <1>13. CASE Kill \/ CommandEnds
    BY <1>11, <1>13 DEF Kill, CommandEnds
  <1>14. ASSUME NEW a \in Invocations, Again(a) PROVE WaitInv'
    <2>1. /\ at' = 1 /\ pc' = FirstPc(a) /\ life' = FirstLife(a) /\ built'.done = FALSE
      BY <1>14 DEF Again, Unbuilt
    <2> QED BY <2>1, TicketsAssumption DEF WaitInv, FirstPc, FirstLife
  <1>15. CASE UNCHANGED vars
    BY <1>15 DEF vars, WaitInv, Main
  <1> QED BY <1>1, <1>2, <1>3, <1>4, <1>5, <1>6, <1>7, <1>8, <1>9, <1>10, <1>12, <1>13, <1>14, <1>15
             DEF Next, BringUp, MainThread, Mishap

\* No thread waits for another that has nothing more to do: while the constructor waits
\* the bridge's thread runs, and when its coroutine is over it has been woken, unless by
\* the bare cancellation; while close() waits the coroutine has been told, and has set
\* _closed when it is over; whoever joins the thread has stopped its loop; and a command
\* is at one of the steps of its coroutine (gateway_bridge.py, cli.py).
WaitsAreMet ==
    /\ pc = "waiting" => /\ loop = "running" /\ life # "none"
                         /\ life = "done" => ready \/ error = "cancelled"
    /\ pc = "awaiting" => loop = "running" /\ shutdown /\ (life = "done" => closed)
    /\ pc = "joining" => loop \in {"stopping", "stopped"}
    /\ pc = "running" =>
          life \in {"load", "connect", "cataloguing", "policy", "unwinding", "leaving"}

\* How far each of the two threads is, and the loop of the second.
MainStage ==
    CASE pc \in {"looking", "running"} -> 0
      [] pc = "posting" -> at
      [] pc = "building" -> NumTickets + 2
      [] pc = "waiting" -> NumTickets + 3
      [] pc = "joining" /\ bridge = "failed" -> NumTickets + 4
      [] pc = "chatting" -> NumTickets + 5
      [] pc = "closing" -> NumTickets + 6
      [] pc = "awaiting" -> NumTickets + 7
      [] pc = "joining" /\ bridge # "failed" -> NumTickets + 8
      [] OTHER -> NumTickets + 9

LifeStage ==
    CASE life = "none" -> 0
      [] life = "load" -> 1
      [] life = "connect" -> 1 + place
      [] life = "cataloguing" -> Len(Entries) + 3
      [] life = "policy" -> Len(Entries) + 4
      [] life = "serving" -> Len(Entries) + 5
      [] life = "unwinding" -> Len(Entries) + 6
      [] life = "leaving" -> Len(Entries) + 7
      [] life = "finally" -> Len(Entries) + 8
      [] OTHER -> Len(Entries) + 9

LoopStage ==
    CASE loop = "none" -> 0 [] loop = "running" -> 1 [] loop = "stopping" -> 2 [] OTHER -> 3

Stage == MainStage + LifeStage + LoopStage

LEMMA StageRange ==
    ASSUME Inv, WaitInv
    PROVE  /\ MainStage \in 0..(NumTickets + 9) /\ LifeStage \in 0..(Len(Entries) + 9)
           /\ LoopStage \in 0..3 /\ MainStage \in Nat /\ LifeStage \in Nat
           /\ Len(Entries) \in Nat
  <1>1. Len(Entries) \in Nat /\ NumTickets \in Nat
    BY EntriesSeq, TicketsAssumption DEF Inv
  <1>2. at \in Nat /\ at <= NumTickets + 1 /\ place \in 1..(Len(Entries) + 1)
    BY DEF Inv, SeedInv, BringInv, WaitInv
  <1>3. MainStage \in 0..(NumTickets + 9)
    <2>1. \A n \in Nat : /\ \A k \in 0..9 : n + k \in 0..(n + 9)
                         /\ 0 \in 0..(n + 9) /\ \A x \in Nat : x <= n + 1 => x \in 0..(n + 9)
      OBVIOUS
    <2>2. \/ MainStage = 0 \/ MainStage = at
          \/ MainStage = NumTickets + 2 \/ MainStage = NumTickets + 3 \/ MainStage = NumTickets + 4
          \/ MainStage = NumTickets + 5 \/ MainStage = NumTickets + 6 \/ MainStage = NumTickets + 7
          \/ MainStage = NumTickets + 8 \/ MainStage = NumTickets + 9
      BY DEF MainStage
    <2>3. {2, 3, 4, 5, 6, 7, 8, 9} \subseteq 0..9
      OBVIOUS
    <2> HIDE DEF MainStage
    <2> QED BY <1>1, <1>2, <2>1, <2>2, <2>3
  <1>4. LifeStage \in 0..(Len(Entries) + 9)
    BY <1>1, <1>2 DEF LifeStage
  <1>5. LoopStage \in 0..3
    BY DEF LoopStage
  <1> QED BY <1>1, <1>3, <1>4, <1>5

LEMMA SameMain == UNCHANGED <<pc, at, bridge>> => MainStage' = MainStage
  BY DEF MainStage
LEMMA SameLife == UNCHANGED <<life, place, asked>> => LifeStage' = LifeStage
  BY DEF LifeStage, Entries
LEMMA SameLoop == UNCHANGED loop => LoopStage' = LoopStage
  BY DEF LoopStage

\* A step of bring-up, or what interrupts it.
LEMMA LifeAdvances ==
    ASSUME Inv, (BringUp /\ ~CommandEnds) \/ Collapse \/ Cancelled
    PROVE  LifeStage' > LifeStage /\ MainStage' = MainStage /\ LoopStage' = LoopStage
  <1>0. /\ Len(Entries) \in Nat /\ place \in 1..(Len(Entries) + 1)
        /\ life \in {"cataloguing", "policy", "serving"} => place = Len(Entries) + 1
    BY EntriesSeq DEF Inv, BringInv
  <1>1. UNCHANGED <<pc, at, bridge, loop, asked>>
    BY DEF BringUp, Load, Connect, AllTried, BuildCatalog, BuildPolicy, Shutdown, Unwind, Except,
           Finally, Collapse, Cancelled, Raise, Step, seedVars, mainVars, threadVars
  <1>2. MainStage' = MainStage /\ LoopStage' = LoopStage
    BY <1>1, SameMain, SameLoop
  <1>3. CASE \E ok \in BOOLEAN : Connect(ok)
    <2>1. life = "connect" /\ life' = "connect" /\ place' = place + 1
      BY <1>3 DEF Connect, Runs, Step
    <2> QED BY <1>0, <1>2, <2>1 DEF LifeStage
  <1>4. CASE Load
    <2>1. /\ life = "load" /\ life' \in {"connect", "unwinding"} /\ place' = place
      BY <1>4 DEF Load, Runs, Step, Raise, setupVars
    <2> QED BY <1>0, <1>1, <1>2, <2>1 DEF LifeStage, Entries
  <1>5. CASE AllTried \/ Shutdown \/ Unwind \/ Except \/ Finally
    <2>1. /\ <<life, life'>> \in {<<"connect", "unwinding">>, <<"connect", "cataloguing">>,
                                  <<"serving", "unwinding">>, <<"unwinding", "leaving">>,
                                  <<"leaving", "finally">>, <<"finally", "done">>}
          /\ place' = place
      BY <1>5 DEF AllTried, Shutdown, Unwind, Except, Finally, Runs, Step, setupVars
    <2> QED BY <1>0, <1>1, <1>2, <2>1 DEF LifeStage, Entries
  <1>6. ASSUME NEW serves, BuildCatalog(serves)
        PROVE  life = "cataloguing" /\ life' \in {"policy", "unwinding"} /\ place' = place
    BY <1>6 DEF BuildCatalog, Runs, Step, Raise, setupVars
  <1>7. CASE \E serves \in ServesAll : BuildCatalog(serves)
    BY <1>0, <1>1, <1>2, <1>6, <1>7 DEF LifeStage, Entries
  <1>8. CASE BuildPolicy
    <2>1. life = "policy" /\ life' \in {"serving", "unwinding"} /\ place' = place
      BY <1>8 DEF BuildPolicy, Runs, Step, Raise, setupVars
    <2> QED BY <1>0, <1>1, <1>2, <2>1 DEF LifeStage, Entries
  <1>9. CASE Collapse \/ Cancelled
    <2>1. life \in {"connect", "cataloguing", "serving"} /\ life' = "unwinding" /\ place' = place
      BY <1>9 DEF Collapse, Cancelled, Runs, Step, Raise, setupVars
    <2> QED BY <1>0, <1>1, <1>2, <2>1 DEF LifeStage, Entries
  <1> QED BY <1>3, <1>4, <1>5, <1>7, <1>8, <1>9 DEF BringUp

\* The process is gone, wherever it was.
LEMMA EndAdvances ==
    ASSUME Inv, WaitInv, NEW code, End(code), pc # "ended"
    PROVE  MainStage' > MainStage /\ LifeStage' = LifeStage /\ LoopStage' >= LoopStage
  <1>1. pc' = "ended" /\ UNCHANGED <<life, place, asked>>
    BY DEF End
  <1>2. LifeStage' = LifeStage
    BY <1>1, SameLife
  <1>3. /\ pc \in {"looking", "posting", "building", "waiting", "chatting", "closing", "awaiting",
                   "joining", "running"}
        /\ at \in Nat /\ at <= NumTickets + 1 /\ NumTickets \in Nat
        /\ loop \in {"none", "running", "stopping", "stopped"}
    BY TicketsAssumption DEF Inv, ProgInv, SeedInv, WaitInv
  <1>4. MainStage' = NumTickets + 9
    BY <1>1 DEF MainStage
  <1>5. MainStage < NumTickets + 9
    BY <1>3 DEF MainStage
  <1>6. LoopStage' >= LoopStage
    BY <1>3 DEF LoopStage, End
  <1>7. MainStage \in Nat
    BY <1>3 DEF MainStage
  <1> QED BY <1>2, <1>3, <1>4, <1>5, <1>6, <1>7

LEMMA MainAdvances ==
    ASSUME Inv, WaitInv, Seeding \/ MainThread
    PROVE  MainStage' > MainStage /\ LifeStage' >= LifeStage /\ LoopStage' >= LoopStage
  <1>0. /\ at \in Nat /\ at <= NumTickets + 1 /\ NumTickets \in Nat
        /\ LifeStage \in Nat /\ LoopStage \in 0..3
        /\ ProgInv
    BY TicketsAssumption, StageRange DEF Inv, SeedInv, WaitInv
  <1>1. CASE Seeding
    <2>1. UNCHANGED <<life, place, asked, loop, bridge>>
      BY <1>1 DEF Seeding, Look, Post, SeedingEnds, setupVars, threadVars, mainVars
    <2>2. \/ pc = "looking" /\ pc' = "posting" /\ at' = at /\ at > 0
          \/ pc = "posting" /\ pc' = "posting" /\ at' = at + 1
          \/ pc \in {"looking", "posting"} /\ pc' = "building"
      BY <1>1 DEF Seeding, Look, Post, SeedingEnds, seedVars, Inv, SeedInv
    <2>3. MainStage' > MainStage
      BY <1>0, <2>2 DEF MainStage
    <2>4. LifeStage' = LifeStage /\ LoopStage' = LoopStage
      BY <2>1, SameLife, SameLoop
    <2> QED BY <1>0, <2>3, <2>4
  <1>2. CASE Construct
    <2>1. /\ pc = "building" /\ pc' = "waiting" /\ life = "none" /\ loop = "none"
          /\ loop' = "running" /\ life' = "load"
      BY <1>0, <1>2 DEF Construct, ProgInv
    <2> QED BY <1>0, <2>1 DEF MainStage, LifeStage, LoopStage
  <1>3. CASE Hold \/ GiveUp
    <2>1. /\ pc = "waiting" /\ UNCHANGED <<life, place, asked>> /\ loop = "running"
          /\ \/ pc' = "chatting" /\ loop' = loop
             \/ pc' = "joining" /\ bridge' = "failed" /\ loop' = "stopping"
      BY <1>0, <1>3 DEF Hold, GiveUp, setupVars, threadVars, ProgInv
    <2>2. LifeStage' = LifeStage
      BY <2>1, SameLife
    <2>3. MainStage' > MainStage
      BY <1>0, <2>1 DEF MainStage
    <2>4. LoopStage' >= LoopStage
      BY <2>1 DEF LoopStage
    <2> QED BY <1>0, <2>2, <2>3, <2>4
  <1>4. CASE Joined \/ Close \/ AwaitClosed \/ \E code \in {0, 1} : ChatEnds(code)
    <2>1. pc # "ended"
      BY <1>4 DEF Joined, Close, AwaitClosed, ChatEnds
    <2>2. CASE \E code : End(code)
      BY <1>0, <2>1, <2>2, EndAdvances
    <2>3. CASE ~\E code : End(code)
      <3>1. UNCHANGED <<life, place, asked, bridge>>
        BY <1>4, <2>3 DEF Joined, Close, AwaitClosed, ChatEnds, setupVars, threadVars, mainVars
      <3>2. \/ pc = "joining" /\ pc' = "chatting" /\ bridge = "failed" /\ loop' = loop
            \/ pc = "chatting" /\ pc' = "closing" /\ loop' = loop
            \/ pc = "closing" /\ pc' = "awaiting" /\ loop' = loop
            \/ /\ pc = "awaiting" /\ pc' = "joining" /\ bridge # "failed"
               /\ loop = "running" /\ loop' = "stopping"
        BY <1>0, <1>4, <2>3
           DEF Joined, Close, AwaitClosed, ChatEnds, threadVars, ProgInv, WaitInv
      <3>3. LifeStage' = LifeStage
        BY <3>1, SameLife
      <3>4. MainStage' > MainStage
        BY <1>0, <3>1, <3>2 DEF MainStage
      <3>5. LoopStage' >= LoopStage
        BY <1>0, <3>2, SameLoop DEF LoopStage
      <3> QED BY <1>0, <3>3, <3>4, <3>5
    <2> QED BY <2>2, <2>3
  <1> QED BY <1>1, <1>2, <1>3, <1>4 DEF MainThread

\* A run is over after a bounded number of steps (main.py, gateway_bridge.py, cli.py):
\* whatever fails, whichever thread goes first, every step takes it further, the ones
\* that something goes wrong in too, and on the way no thread waits in vain.  Together
\* with the fairness of FairSpec this is ProgramEnds, for any files, any number of
\* servers and any number of tickets.
THEOREM RunsAreBounded ==
    Spec => /\ [](Stage \in 0..(NumTickets + Len(Entries) + 21) /\ WaitsAreMet)
            /\ [][(\E a \in Invocations : Again(a)) \/ Stage' > Stage]_vars
  <1>1. Spec => [](Inv /\ WaitInv)
    <2>1. Inv /\ WaitInv /\ [Next]_vars => WaitInv'
      BY WaitKept
    <2> QED BY <2>1, WaitInit, Invariant, PTL DEF Spec
  <1>2. Inv /\ WaitInv => Stage \in 0..(NumTickets + Len(Entries) + 21) /\ WaitsAreMet
    <2> SUFFICES ASSUME Inv, WaitInv
                 PROVE  Stage \in 0..(NumTickets + Len(Entries) + 21) /\ WaitsAreMet
      OBVIOUS
    <2>1. \A m, n \in Nat : \A x \in 0..(m + 9), y \in 0..(n + 9), z \in 0..3 :
             x + y + z \in 0..(m + n + 21)
      OBVIOUS
    <2>2. Stage \in 0..(NumTickets + Len(Entries) + 21)
      BY <2>1, StageRange, TicketsAssumption DEF Stage
    <2>3. WaitsAreMet
      BY DEF Inv, ProgInv, WaitInv, WaitsAreMet
    <2> QED BY <2>2, <2>3
  <1>3. Inv /\ WaitInv /\ Inv' /\ WaitInv' /\ [Next]_vars =>
            [(\E a \in Invocations : Again(a)) \/ Stage' > Stage]_vars
    <2> SUFFICES ASSUME Inv, WaitInv, Inv', WaitInv', Next, ~\E a \in Invocations : Again(a)
                 PROVE  Stage' > Stage
      OBVIOUS
    <2>1. /\ MainStage \in Nat /\ LifeStage \in Nat /\ LoopStage \in Nat
          /\ MainStage' \in Nat /\ LifeStage' \in Nat /\ LoopStage' \in Nat
      <3>1. MainStage' \in Nat
        BY TicketsAssumption DEF MainStage, Inv, SeedInv
      <3>2. Len(Entries)' \in Nat /\ place' \in Nat
        <4>1. Len(Entries') \in Nat
          BY InvocationParts, RegistriesAssumption DEF Inv, ProgInv, Entries
        <4> QED BY <4>1 DEF Inv, BringInv
      <3>3. LifeStage' \in Nat
        BY <3>2 DEF LifeStage
      <3>4. LoopStage' \in Nat
        BY DEF LoopStage
      <3> QED BY <3>1, <3>3, <3>4, StageRange
    <2>2. /\ MainStage' >= MainStage /\ LifeStage' >= LifeStage /\ LoopStage' >= LoopStage
          /\ MainStage' > MainStage \/ LifeStage' > LifeStage \/ LoopStage' > LoopStage
      <3>1. CASE Seeding \/ MainThread
        BY <2>1, <3>1, MainAdvances
      <3>2. CASE (BringUp /\ ~CommandEnds) \/ Collapse \/ Cancelled
        BY <2>1, <3>2, LifeAdvances
      <3>3. CASE Kill \/ CommandEnds
        <4>1. pc # "ended" /\ \E code : End(code)
          BY <3>3 DEF Kill, CommandEnds, Runs
        <4> QED BY <2>1, <4>1, EndAdvances
      <3>4. CASE LoopStops
        <4>1. UNCHANGED <<pc, at, bridge, life, place, asked>> /\ loop = "stopping" /\ loop' = "stopped"
          BY <3>4 DEF LoopStops, seedVars, setupVars, mainVars
        <4>2. MainStage' = MainStage /\ LifeStage' = LifeStage
          BY <4>1, SameMain, SameLife
        <4>3. LoopStage' > LoopStage
          BY <4>1 DEF LoopStage
        <4> QED BY <2>1, <4>2, <4>3
      <3> QED BY <3>1, <3>2, <3>3, <3>4 DEF Next, Mishap
    <2>3. \A x, y, z, u, v, w \in Nat :
             u >= x /\ v >= y /\ w >= z /\ (u > x \/ v > y \/ w > z) => u + v + w > x + y + z
      OBVIOUS
    <2> HIDE DEF MainStage, LifeStage, LoopStage
    <2> QED BY <2>1, <2>2, <2>3 DEF Stage
  <1> QED BY <1>1, <1>2, <1>3, PTL DEF Spec

=============================================================================
