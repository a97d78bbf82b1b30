---------------------------- MODULE GatewayProofs ----------------------------
(***************************************************************************)
(* Theorems about Gateway, for any servers, role file, tool table, builds,   *)
(* calls and number of crashes.                                              *)
(***************************************************************************)
EXTENDS Gateway, TLAPS

\* The call got past the router and was sent.
Dispatched(c) ==
    \/ call[c].pc = "sent"
    \/ call[c].pc = "done" /\ call[c].outcome \in {"ok", "error"}

RouterTypes ==
    /\ call \in [Calls -> CallStates]
    /\ start \in [Calls -> Records]
    /\ end \in [Calls -> Records]
    /\ dryRun \in BOOLEAN
    /\ wire \subseteq Calls
    /\ landed \in [Calls -> [times : Nat, actor : Actors, as : Identities]]

\* What the router checked of a call that was sent, which still holds when its
\* server gets to it, perhaps after the answer was given up.
Checked(c) ==
    /\ Allowed(call[c].name)
    /\ call[c].name \in catalog
    /\ ~Withheld(call[c].name)
    /\ call[c].name \in Injected => call[c].actor = "role"

CallInv(c) ==
    /\ Dispatched(c) => Checked(c)
    /\ call[c].pc # "idle" => phase \notin {"connecting", "cataloguing"}
    /\ start[c] = "none" <=> call[c].pc = "idle"
    /\ end[c] = "none" <=> call[c].pc # "done"
    /\ c \in wire => Dispatched(c) /\ landed[c].times = 0
    /\ CarriedOut(c) => /\ Dispatched(c)
                        /\ landed[c].actor = call[c].actor
                        /\ landed[c].times = 1
    /\ call[c].pc = "done" /\ call[c].outcome = "ok" => CarriedOut(c)
    /\ call[c].pc = "sent" => call[c].outcome = "none"
    /\ call[c].pc = "done" => call[c].outcome # "none"

RouterInv == RouterTypes /\ \A c \in Calls : CallInv(c)

LEMMA RecordedType == Recorded \subseteq Records \ {"none"}
  BY DEF Recorded, Records

LEMMA RouterInit == Init => RouterInv
  BY DEF Init, RouterInv, RouterTypes, CallInv, Dispatched, CarriedOut, NoCall, Untouched,
         CallStates, Records, Actors, Identities

\* A step that leaves a call alone keeps what is known of it.
LEMMA CallKept ==
    ASSUME NEW c \in Calls, CallInv(c), dryRun' = dryRun, catalog \subseteq catalog',
           phase \in {"connecting", "cataloguing"} \/ phase' \notin {"connecting", "cataloguing"},
           call[c].pc # "idle" => phase' \notin {"connecting", "cataloguing"},
           call'[c] = call[c], start'[c] = start[c], end'[c] = end[c], landed'[c] = landed[c],
           c \in wire' => c \in wire
    PROVE  CallInv(c)'
  BY DEF CallInv, Dispatched, Checked, CarriedOut, Withheld

\* The router answers without a server: what was asked was never sent.
LEMMA RouterLocal ==
    ASSUME RouterInv, NEW c \in Calls, NEW name, NEW actor \in Actors,
           NEW outcome \in {"denied", "unknown_tool", "dry_run", "unavailable"},
           Asked(c, name), AnswerLocally(c, name, actor, outcome)
    PROVE  RouterInv'
  <1>1. /\ call' = [call EXCEPT ![c] =
                       [pc |-> "done", name |-> name, actor |-> actor, outcome |-> outcome]]
        /\ UNCHANGED <<wire, landed, phase, dryRun, catalog>>
        /\ name \in Requests /\ phase \notin {"connecting", "cataloguing"}
        /\ call[c].pc = "idle"
    BY DEF AnswerLocally, setupVars, Asked
  <1>2. PICK r1, r2 \in Recorded : /\ start' = [start EXCEPT ![c] = r1]
                                   /\ end' = [end EXCEPT ![c] = r2]
    BY DEF AnswerLocally
  <1>3. r1 \in Records \ {"none"} /\ r2 \in Records \ {"none"}
    BY RecordedType
  <1>4. RouterTypes'
    <2>1. [pc |-> "done", name |-> name, actor |-> actor, outcome |-> outcome] \in CallStates
      BY <1>1 DEF CallStates
    <2> QED BY <1>1, <1>2, <1>3, <2>1 DEF RouterInv, RouterTypes
  <1>5. ASSUME NEW d \in Calls, d # c PROVE CallInv(d)'
    <2>1. call'[d] = call[d] /\ start'[d] = start[d] /\ end'[d] = end[d]
      BY <1>1, <1>2, <1>5 DEF RouterInv, RouterTypes
    <2> QED BY <1>1, <2>1, CallKept DEF RouterInv
  <1>6. CallInv(c)'
    <2>1. /\ call'[c].pc = "done" /\ call'[c].outcome = outcome
          /\ start'[c] # "none" /\ end'[c] # "none"
      BY <1>1, <1>2, <1>3 DEF RouterInv, RouterTypes
    <2>2. c \notin wire /\ ~CarriedOut(c)
      BY <1>1 DEF RouterInv, CallInv, Dispatched
    <2> QED BY <1>1, <2>1, <2>2 DEF CallInv, Dispatched, CarriedOut
  <1> QED BY <1>4, <1>5, <1>6 DEF RouterInv

LEMMA RouterDispatch ==
    ASSUME RouterInv, NEW c \in Calls, NEW name, NEW actor \in Actors, Dispatch(c, name, actor)
    PROVE  RouterInv'
  <1> DEFINE sent == [pc |-> "sent", name |-> name, actor |-> ActorFor(name, actor),
                      outcome |-> "none"]
  <1>1. /\ call' = [call EXCEPT ![c] = sent]
        /\ wire' = wire \cup {c}
        /\ UNCHANGED <<end, landed, phase, dryRun, catalog>>
        /\ name \in Requests /\ phase \notin {"connecting", "cataloguing"}
        /\ call[c].pc = "idle"
        /\ Allowed(name) /\ name \in catalog /\ ~Withheld(name)
    BY DEF Dispatch, setupVars, Asked
  <1>2. PICK r \in Recorded : start' = [start EXCEPT ![c] = r]
    BY DEF Dispatch, RecordStart
  <1>3. r \in Records \ {"none"}
    BY RecordedType
  <1>4. sent \in CallStates /\ (name \in Injected => sent.actor = "role")
    BY <1>1 DEF CallStates, ActorFor, Actors
  <1>5. RouterTypes'
    BY <1>1, <1>2, <1>3, <1>4 DEF RouterInv, RouterTypes
  <1>6. ASSUME NEW d \in Calls, d # c PROVE CallInv(d)'
    <2>1. call'[d] = call[d] /\ start'[d] = start[d] /\ (d \in wire' => d \in wire)
      BY <1>1, <1>2, <1>6 DEF RouterInv, RouterTypes
    <2> QED BY <1>1, <2>1, CallKept DEF RouterInv
  <1>7. CallInv(c)'
    <2>1. call'[c] = sent /\ start'[c] # "none"
      BY <1>1, <1>2, <1>3 DEF RouterInv, RouterTypes
    <2>2. ~CarriedOut(c) /\ landed[c].times = 0 /\ end[c] = "none"
      BY <1>1 DEF RouterInv, RouterTypes, CallInv, Dispatched, CarriedOut
    <2> QED BY <1>1, <1>4, <2>1, <2>2 DEF CallInv, Dispatched, CarriedOut, Checked, Withheld
  <1> QED BY <1>5, <1>6, <1>7 DEF RouterInv

LEMMA RouterFinish ==
    ASSUME RouterInv, NEW c \in Calls, Answer(c) \/ AnswerFails(c)
    PROVE  RouterInv'
  <1>1. PICK outcome \in {"ok", "error"} :
          Finish(c, outcome) /\ call[c].pc = "sent" /\ (outcome = "ok" => CarriedOut(c))
    BY DEF Answer, AnswerFails, MayAnswer, MayFail
  <1>2. /\ call' = [call EXCEPT ![c].pc = "done", ![c].outcome = outcome]
        /\ UNCHANGED <<start, wire, landed, phase, dryRun, catalog>>
    BY <1>1 DEF Finish, setupVars
  <1>3. PICK r \in Recorded : end' = [end EXCEPT ![c] = r]
    BY <1>1 DEF Finish
  <1>4. r \in Records \ {"none"}
    BY RecordedType
  <1>5. /\ call'[c].pc = "done" /\ call'[c].outcome = outcome
        /\ call'[c].name = call[c].name /\ call'[c].actor = call[c].actor
        /\ call' \in [Calls -> CallStates]
        /\ end'[c] # "none" /\ end' \in [Calls -> Records]
    BY <1>2, <1>3, <1>4 DEF RouterInv, RouterTypes, CallStates
  <1>6. ASSUME NEW d \in Calls, d # c PROVE CallInv(d)'
    <2>1. call'[d] = call[d] /\ end'[d] = end[d] /\ CallInv(d)
      BY <1>2, <1>3, <1>6 DEF RouterInv, RouterTypes
    <2> QED BY <1>2, <2>1, CallKept DEF RouterInv, CallInv
  <1>7. CallInv(c)'
    BY <1>1, <1>2, <1>5 DEF RouterInv, CallInv, Dispatched, CarriedOut, Checked, Withheld
  <1> QED BY <1>2, <1>5, <1>6, <1>7 DEF RouterInv, RouterTypes


----------------------------------------------------------------------------
(* What setup knows of the servers.                                          *)

\* connect_all is past s.
Tried(s) == phase = "connecting" => \E i \in DOMAIN Configs : i < at /\ Configs[i] = s

ServerInv(s) ==
    /\ status[s].connected \/ status[s].skipped => Tried(s)
    /\ Tried(s) => (status[s].connected <=> ~status[s].skipped)
    /\ s \in NeedsLogin =>
          (status[s].connected \/ (Connecting(s) /\ step \in {"setup", "list"}) =>
             status[s].login = "ok" /\ remote[s] # "anonymous")

SetupTypes ==
    /\ phase \in {"connecting", "cataloguing", "ready", "failed", "collapsed", "stopped"}
    /\ at \in 1..(Len(Configs) + 1)
    /\ step \in {"handshake", "login", "setup", "list"}
    /\ status \in [Servers -> Statuses]
    /\ sessions \subseteq Servers
    /\ up \in [Servers -> BOOLEAN]
    /\ \A s \in Servers : serves[s] \in Deployments[s]
    /\ remote \in [Servers -> Identities]
    /\ crashes \in 0..MaxCrashes

CatalogInv ==
    \A name \in catalog : /\ name \in Classified
                          /\ name[1] \in Servers
                          /\ status[name[1]].connected

SessionsInv ==
    /\ phase \in {"connecting", "cataloguing", "ready"} =>
          sessions = {s \in Servers : status[s].connected}
    /\ phase \in {"collapsed", "stopped"} => sessions = {}

SetupInv ==
    /\ SetupTypes
    /\ \A s \in Servers : ServerInv(s)
    /\ CatalogInv
    /\ SessionsInv

LEMMA ConfigsFacts ==
    /\ Len(Configs) \in Nat /\ DOMAIN Configs = 1..Len(Configs)
    /\ \A i \in DOMAIN Configs : Configs[i] \in Servers
    /\ \A s \in Servers : \E i \in DOMAIN Configs : Configs[i] = s
  BY ConfigsAssumption DEF Servers

LEMMA SetupInit == Init => SetupInv
  <1> SUFFICES ASSUME Init PROVE SetupInv
    OBVIOUS
  <1>1. SetupTypes
    <2>1. Untried \in Statuses
      BY DEF Untried, Statuses
    <2> QED BY <2>1, ConfigsFacts, BoundAssumption DEF Init, SetupTypes, Identities
  <1>2. ASSUME NEW s \in Servers PROVE ServerInv(s)
    BY ConfigsFacts DEF Init, ServerInv, Tried, Connecting, Untried
  <1>3. CatalogInv /\ SessionsInv
    BY DEF Init, CatalogInv, SessionsInv, Untried
  <1> QED BY <1>1, <1>2, <1>3 DEF SetupInv

\* A server that the step is not about.
LEMMA OtherServer ==
    ASSUME SetupTypes, NEW s \in Servers, ServerInv(s), phase = "connecting", phase' = "connecting",
           ~Connecting(s), at' \in {at, at + 1}, at <= Len(Configs),
           at' = at + 1 \/ ~Connecting(s)',
           status'[s] = status[s], remote'[s] = remote[s], step' = "handshake" \/ at' = at
    PROVE  ServerInv(s)'
  BY ConfigsFacts DEF ServerInv, Tried, Connecting, SetupTypes

\* The server setup is at has not been tried, and is the only one it is at.
LEMMA CurrentServer ==
    ASSUME SetupInv, NEW s \in Servers, Connecting(s)
    PROVE  /\ phase = "connecting" /\ at <= Len(Configs) /\ at \in DOMAIN Configs
           /\ ~Tried(s) /\ ~status[s].connected /\ ~status[s].skipped
           /\ \A t \in Servers : Connecting(t) => t = s
  BY ConfigsFacts, ConfigsAssumption DEF SetupInv, SetupTypes, ServerInv, Tried, Connecting

\* A step of connect_all keeps SetupInv when it does so for the server it is at.
LEMMA ConnectFrame ==
    ASSUME SetupInv, SetupTypes', NEW s \in Servers, Connecting(s), ServerInv(s)',
           phase' = phase, at' \in {at, at + 1}, step' = "handshake" \/ at' = at,
           \A t \in Servers \ {s} : status'[t] = status[t] /\ remote'[t] = remote[t],
           sessions' = {t \in Servers : status'[t].connected}, catalog' = catalog
    PROVE  SetupInv'
  <1>1. ASSUME NEW t \in Servers, t # s PROVE ServerInv(t)'
    <2>1. at' = at + 1 \/ ~Connecting(t)'
      BY <1>1, CurrentServer DEF Connecting
    <2>2. ~Connecting(t) /\ phase = "connecting" /\ at <= Len(Configs)
      BY <1>1, CurrentServer
    <2> QED BY <1>1, <2>1, <2>2, OtherServer DEF SetupInv
  <1>2. CatalogInv'
    <2>1. \A name \in catalog : name[1] # s
      BY CurrentServer DEF SetupInv, CatalogInv
    <2> QED BY <2>1 DEF SetupInv, CatalogInv
  <1>3. phase = "connecting"
    BY CurrentServer
  <1> QED BY <1>1, <1>2, <1>3 DEF SetupInv, SessionsInv

LEMMA SkipKeeps ==
    ASSUME SetupInv, NEW s \in Servers, Connecting(s), NEW login \in {"none", "ok", "failed"},
           SkipServer(s, login), remote' \in [Servers -> Identities],
           \A t \in Servers \ {s} : remote'[t] = remote[t], UNCHANGED serverVars
    PROVE  SetupInv'
  <1>1. /\ status' = [status EXCEPT ![s].skipped = TRUE, ![s].login = login]
        /\ at' = at + 1 /\ step' = "handshake"
        /\ UNCHANGED <<phase, sessions, catalog, dryRun, up, serves, crashes>>
    BY DEF SkipServer, Advance, NextServer, serverVars
  <1>2. /\ phase = "connecting" /\ at <= Len(Configs) /\ ~status[s].connected
        /\ Configs[at] = s /\ at \in DOMAIN Configs
    BY CurrentServer DEF Connecting
  <1>3. /\ status' \in [Servers -> Statuses]
        /\ status'[s].connected = status[s].connected /\ status'[s].skipped
        /\ \A t \in Servers \ {s} : status'[t] = status[t]
    BY <1>1 DEF SetupInv, SetupTypes, Statuses
  <1>4. SetupTypes'
    BY <1>1, <1>2, <1>3, ConfigsFacts DEF SetupInv, SetupTypes
  <1>5. ServerInv(s)'
    <2>1. Tried(s)' /\ ~Connecting(s)'
      BY <1>1, <1>2, ConfigsFacts, ConfigsAssumption DEF Tried, Connecting, SetupInv, SetupTypes
    <2> QED BY <1>2, <1>3, <2>1 DEF ServerInv
  <1>6. sessions' = {t \in Servers : status'[t].connected}
    BY <1>1, <1>2, <1>3 DEF SetupInv, SessionsInv
  <1> QED BY <1>1, <1>3, <1>4, <1>5, <1>6, ConnectFrame

LEMMA HandshakeKeeps ==
    ASSUME SetupInv, NEW s \in Servers, Handshake(s)
    PROVE  SetupInv'
  <1>1. /\ remote' = [remote EXCEPT ![s] = "anonymous"]
        /\ step' = AfterHandshake(s) /\ Connecting(s)
        /\ UNCHANGED <<phase, at, status, sessions, catalog, up, serves, crashes>>
    BY DEF Handshake, serverVars
  <1>2. phase = "connecting" /\ ~status[s].connected /\ ~status[s].skipped /\ ~Tried(s)
    BY <1>1, CurrentServer
  <1>3. SetupTypes'
    BY <1>1 DEF SetupInv, SetupTypes, AfterHandshake, Identities
  <1>4. ServerInv(s)'
    <2>1. s \in NeedsLogin => step' = "login"
      BY <1>1 DEF AfterHandshake
    <2>2. ~Tried(s)'
      BY <1>1, <1>2 DEF Tried
    <2> QED BY <1>1, <1>2, <2>1, <2>2 DEF ServerInv
  <1>5. sessions' = {t \in Servers : status'[t].connected}
    BY <1>1, <1>2 DEF SetupInv, SessionsInv
  <1>6. \A t \in Servers \ {s} : status'[t] = status[t] /\ remote'[t] = remote[t]
    BY <1>1 DEF SetupInv, SetupTypes
  <1> QED BY <1>1, <1>3, <1>4, <1>5, <1>6, ConnectFrame

LEMMA LoginKeeps ==
    ASSUME SetupInv, NEW s \in Servers, Login(s)
    PROVE  SetupInv'
  <1>1. /\ remote' = [remote EXCEPT ![s] = "identified"]
        /\ status' = [status EXCEPT ![s].login = "ok"]
        /\ step' = IF s \in HasSetup THEN "setup" ELSE "list"
        /\ Connecting(s)
        /\ UNCHANGED <<phase, at, sessions, catalog, up, serves, crashes>>
    BY DEF Login, serverVars
  <1>2. phase = "connecting" /\ ~status[s].connected /\ ~status[s].skipped /\ ~Tried(s)
    BY <1>1, CurrentServer
  <1>3. /\ status' \in [Servers -> Statuses]
        /\ status'[s].connected = status[s].connected
        /\ status'[s].skipped = status[s].skipped
        /\ status'[s].login = "ok" /\ remote'[s] = "identified"
        /\ \A t \in Servers \ {s} : status'[t] = status[t] /\ remote'[t] = remote[t]
    BY <1>1 DEF SetupInv, SetupTypes, Statuses
  <1>4. SetupTypes'
    BY <1>1, <1>3 DEF SetupInv, SetupTypes, Identities
  <1>5. ServerInv(s)'
    BY <1>1, <1>2, <1>3 DEF ServerInv, Tried
  <1>6. sessions' = {t \in Servers : status'[t].connected}
    BY <1>1, <1>2, <1>3 DEF SetupInv, SessionsInv
  <1> QED BY <1>1, <1>3, <1>4, <1>5, <1>6, ConnectFrame

LEMMA PostLoginSetupKeeps ==
    ASSUME SetupInv, NEW s \in Servers, NEW ok \in BOOLEAN, PostLoginSetup(s, ok)
    PROVE  SetupInv'
  <1>1. /\ status' = [status EXCEPT ![s].setup = IF ok THEN "ok" ELSE "failed"]
        /\ step = "setup" /\ step' = "list" /\ Connecting(s)
        /\ UNCHANGED <<phase, at, sessions, catalog, remote, up, serves, crashes>>
    BY DEF PostLoginSetup, serverVars
  <1>2. phase = "connecting" /\ ~status[s].connected /\ ~status[s].skipped /\ ~Tried(s)
    BY <1>1, CurrentServer
  <1>3. /\ status' \in [Servers -> Statuses]
        /\ status'[s].connected = status[s].connected
        /\ status'[s].skipped = status[s].skipped
        /\ status'[s].login = status[s].login
        /\ \A t \in Servers \ {s} : status'[t] = status[t]
    BY <1>1 DEF SetupInv, SetupTypes, Statuses
  <1>4. SetupTypes'
    BY <1>1, <1>3 DEF SetupInv, SetupTypes
  <1>5. ServerInv(s)'
    BY <1>1, <1>2, <1>3 DEF ServerInv, Tried, Connecting, SetupInv
  <1>6. sessions' = {t \in Servers : status'[t].connected}
    BY <1>1, <1>2, <1>3 DEF SetupInv, SessionsInv
  <1> QED BY <1>1, <1>3, <1>4, <1>5, <1>6, ConnectFrame

LEMMA ListToolsKeeps ==
    ASSUME SetupInv, NEW s \in Servers, ListTools(s)
    PROVE  SetupInv'
  <1>1. /\ sessions' = sessions \cup {s}
        /\ status' = [status EXCEPT ![s].connected = TRUE]
        /\ step = "list" /\ at' = at + 1 /\ step' = "handshake" /\ Connecting(s)
        /\ UNCHANGED <<phase, catalog, remote, up, serves, crashes>>
    BY DEF ListTools, serverVars
  <1>2. /\ phase = "connecting" /\ at <= Len(Configs) /\ at \in DOMAIN Configs
        /\ ~status[s].skipped /\ Configs[at] = s
    BY <1>1, CurrentServer DEF Connecting
  <1>3. /\ status' \in [Servers -> Statuses]
        /\ status'[s].connected /\ status'[s].skipped = status[s].skipped
        /\ status'[s].login = status[s].login
        /\ \A t \in Servers \ {s} : status'[t] = status[t]
    BY <1>1 DEF SetupInv, SetupTypes, Statuses
  <1>4. SetupTypes'
    BY <1>1, <1>2, <1>3, ConfigsFacts DEF SetupInv, SetupTypes
  <1>5. ServerInv(s)'
    <2>1. Tried(s)'
      BY <1>1, <1>2 DEF Tried, SetupInv, SetupTypes
    <2> QED BY <1>1, <1>2, <1>3, <2>1 DEF ServerInv, SetupInv
  <1>6. sessions' = {t \in Servers : status'[t].connected}
    BY <1>1, <1>2, <1>3 DEF SetupInv, SessionsInv
  <1> QED BY <1>1, <1>3, <1>4, <1>5, <1>6, ConnectFrame

LEMMA ConnectKeeps ==
    ASSUME SetupInv, NEW s \in Servers, ConnectStep(s)
    PROVE  SetupInv'
  <1>1. CASE SkipDisabled(s)
    BY <1>1, SkipKeeps DEF SkipDisabled, SetupInv, SetupTypes
  <1>2. CASE ConnectFails(s)
    <2>1. status[s].login \in {"none", "ok", "failed"}
      BY DEF SetupInv, SetupTypes, Statuses
    <2> QED BY <1>2, <2>1, SkipKeeps DEF ConnectFails, SetupInv, SetupTypes
  <1>3. CASE LoginFails(s)
    <2>1. PICK r \in Identities : remote' = [remote EXCEPT ![s] = r]
      BY <1>3 DEF LoginFails, SetupInv, SetupTypes, Identities
    <2>2. /\ remote' \in [Servers -> Identities]
          /\ \A t \in Servers \ {s} : remote'[t] = remote[t]
      BY <2>1 DEF SetupInv, SetupTypes
    <2> QED BY <1>3, <2>2, SkipKeeps DEF LoginFails
  <1> QED BY <1>1, <1>2, <1>3, HandshakeKeeps, LoginKeeps, PostLoginSetupKeeps, ListToolsKeeps
          DEF ConnectStep

\* The rest of setup, and the steps that only end it.
LEMMA CatalogKeeps ==
    ASSUME SetupInv, NEW s \in Servers, Catalog(s)
    PROVE  SetupInv'
  <1>1. /\ phase = "cataloguing" /\ at <= Len(Configs) /\ at' = at + 1
        /\ UNCHANGED <<phase, step, status, sessions, remote, up, serves, crashes>>
    BY DEF Catalog, Cataloguing, serverVars
  <1>2. SetupTypes'
    BY <1>1, ConfigsFacts DEF SetupInv, SetupTypes
  <1>3. \A t \in Servers : ServerInv(t)'
    BY <1>1 DEF SetupInv, ServerInv, Tried, Connecting
  <1>4. CatalogInv'
    <2>1. CASE s \in sessions
      <3>1. catalog' = catalog \cup serves[s] /\ serves[s] \subseteq Classified
        BY <2>1 DEF Catalog, Classify
      <3>2. \A name \in serves[s] : name[1] = s
        BY DeploymentsAssumption DEF SetupInv, SetupTypes
      <3>3. status[s].connected
        BY <1>1, <2>1 DEF SetupInv, SessionsInv
      <3> QED BY <1>1, <3>1, <3>2, <3>3 DEF SetupInv, CatalogInv
    <2>2. CASE s \notin sessions
      BY <1>1, <2>2 DEF Catalog, SetupInv, CatalogInv
    <2> QED BY <2>1, <2>2
  <1>5. SessionsInv'
    BY <1>1 DEF SetupInv, SessionsInv
  <1> QED BY <1>2, <1>3, <1>4, <1>5 DEF SetupInv

LEMMA SetupStepKeeps ==
    ASSUME SetupInv, SetupStep
    PROVE  SetupInv'
  <1>1. ASSUME NEW s \in Servers, CatalogFails(s) PROVE SetupInv'
    BY <1>1 DEF CatalogFails, Cataloguing, setupVars, serverVars, SetupInv, SetupTypes,
                ServerInv, Tried, Connecting, CatalogInv, SessionsInv
  <1>2. CASE AllConnected
    <2>1. /\ phase = "connecting" /\ at > Len(Configs) /\ phase' = "cataloguing" /\ at' = 1
          /\ UNCHANGED <<step, status, sessions, catalog, remote, up, serves, crashes>>
      BY <1>2 DEF AllConnected, serverVars
    <2>2. \A s \in Servers : Tried(s)
      BY <2>1, ConfigsFacts DEF Tried, SetupInv, SetupTypes
    <2>3. \A s \in Servers : ServerInv(s)'
      BY <2>1, <2>2 DEF SetupInv, ServerInv, Tried, Connecting
    <2> QED BY <2>1, <2>3, ConfigsFacts DEF SetupInv, SetupTypes, CatalogInv, SessionsInv
  <1>3. CASE RouterReady
    BY <1>3 DEF RouterReady, setupVars, serverVars, SetupInv, SetupTypes, ServerInv, Tried,
                Connecting, CatalogInv, SessionsInv
  <1> QED BY <1>1, <1>2, <1>3, ConnectKeeps, CatalogKeeps DEF SetupStep

\* A step that is not setup's: it may only end the router's life, and drop sessions.
LEMMA SetupFrame ==
    ASSUME SetupInv, UNCHANGED <<at, step, status, catalog>>,
           \/ phase' = phase /\ sessions' = sessions
           \/ phase \notin {"connecting", "cataloguing"} /\ sessions' = {}
              /\ phase' \in {"failed", "collapsed", "stopped"},
           up' \in [Servers -> BOOLEAN], crashes' \in 0..MaxCrashes,
           \A s \in Servers : serves'[s] \in Deployments[s],
           remote' \in [Servers -> Identities],
           \A s \in Servers : remote'[s] \in {remote[s], "none"}
    PROVE  SetupInv'
  <1>1. SetupTypes'
    BY DEF SetupInv, SetupTypes
  <1>2. \A s \in Servers : ServerInv(s)'
    BY DEF SetupInv, ServerInv, Tried, Connecting
  <1> QED BY <1>1, <1>2 DEF SetupInv, CatalogInv, SessionsInv

----------------------------------------------------------------------------
(* The inductive invariant, and the theorems.                                *)

Inv == SetupInv /\ RouterInv

\* A router step that leaves every call's record and what landed alone.
LEMMA RouterFrame ==
    ASSUME RouterInv, dryRun' = dryRun, catalog \subseteq catalog',
           UNCHANGED <<call, start, end, landed>>, wire' \subseteq wire,
           \/ phase' = phase
           \/ phase \in {"connecting", "cataloguing"} /\ \A c \in Calls : call[c].pc = "idle"
           \/ phase' \notin {"connecting", "cataloguing"}
    PROVE  RouterInv'
  <1>1. RouterTypes'
    BY DEF RouterInv, RouterTypes
  <1>2. ASSUME NEW c \in Calls PROVE CallInv(c)'
    <2>1. CallInv(c)
      BY DEF RouterInv
    <2>2. call[c].pc # "idle" => phase' \notin {"connecting", "cataloguing"}
      BY <2>1 DEF CallInv
    <2>3. CASE phase \in {"connecting", "cataloguing"} \/ phase' \notin {"connecting", "cataloguing"}
      BY <2>1, <2>2, <2>3, CallKept
    <2>4. CASE phase' = phase
      BY <2>1, <2>2, <2>4 DEF CallInv, Dispatched, Checked, CarriedOut, Withheld
    <2> QED BY <2>1, <2>3, <2>4
  <1> QED BY <1>1, <1>2 DEF RouterInv

LEMMA SetupStepRouter ==
    ASSUME Inv, SetupStep
    PROVE  RouterInv'
  <1>1. UNCHANGED <<call, start, end, landed, wire>>
    BY DEF SetupStep, ConnectStep, SkipDisabled, Handshake, ConnectFails, Login, LoginFails,
           PostLoginSetup, ListTools, Catalog, CatalogFails, AllConnected, RouterReady, callVars
  <1>2. dryRun' = dryRun /\ catalog \subseteq catalog'
    BY DEF SetupStep, ConnectStep, SkipDisabled, Handshake, ConnectFails, Login, LoginFails,
           SkipServer, PostLoginSetup, ListTools, Catalog, CatalogFails, AllConnected, RouterReady,
           setupVars
  <1>3. phase \in {"connecting", "cataloguing"}
    BY DEF SetupStep, ConnectStep, SkipDisabled, Handshake, ConnectFails, Login, LoginFails,
           PostLoginSetup, ListTools, Catalog, CatalogFails, AllConnected, RouterReady,
           Connecting, Cataloguing
  <1>4. \A c \in Calls : call[c].pc = "idle"
    BY <1>3 DEF Inv, RouterInv, CallInv
  <1> QED BY <1>1, <1>2, <1>3, <1>4, RouterFrame DEF Inv

\* What a server may do with a request it has.
LEMMA Landing ==
    ASSUME Inv, NEW c \in Calls, Land(c)
    PROVE  /\ Dispatched(c) /\ Checked(c) /\ landed[c].times = 0
           /\ ServerOf(c) \in Servers
           /\ ServerOf(c) \in NeedsLogin => remote[ServerOf(c)] = "identified"
           /\ landed' \in [Calls -> [times : Nat, actor : Actors, as : Identities]]
           /\ landed'[c] = [times |-> 1, actor |-> call[c].actor, as |-> remote[ServerOf(c)]]
           /\ \A d \in Calls \ {c} : landed'[d] = landed[d]
           /\ UNCHANGED <<call, start, end, phase, dryRun, catalog>> /\ wire' = wire \ {c}
  <1>1. /\ c \in wire /\ Reachable(ServerOf(c)) /\ wire' = wire \ {c}
        /\ landed' = [landed EXCEPT ![c] = [times |-> @.times + 1, actor |-> call[c].actor,
                                            as |-> remote[ServerOf(c)]]]
        /\ UNCHANGED <<call, start, end, phase, dryRun, catalog>>
    BY DEF Land, setupVars
  <1>2. Dispatched(c) /\ Checked(c) /\ landed[c].times = 0
    BY <1>1 DEF Inv, RouterInv, CallInv
  <1>3. ServerOf(c) \in Servers /\ status[ServerOf(c)].connected
    BY <1>2 DEF Checked, Inv, SetupInv, CatalogInv, ServerOf
  <1>4. remote[ServerOf(c)] \in {"anonymous", "identified"}
    BY <1>1, <1>3 DEF Reachable, Inv, SetupInv, SetupTypes, Identities
  <1>5. ServerOf(c) \in NeedsLogin => remote[ServerOf(c)] = "identified"
    BY <1>3, <1>4 DEF Inv, SetupInv, ServerInv
  <1>6. call[c].actor \in Actors
    BY DEF Inv, RouterInv, RouterTypes, CallStates
  <1>7. landed' = [landed EXCEPT ![c] = [times |-> 1, actor |-> call[c].actor,
                                         as |-> remote[ServerOf(c)]]]
    BY <1>1, <1>2
  <1> QED BY <1>1, <1>2, <1>3, <1>4, <1>5, <1>6, <1>7 DEF Inv, RouterInv, RouterTypes, Identities

LEMMA RouterLand ==
    ASSUME Inv, NEW c \in Calls, Land(c)
    PROVE  RouterInv'
  <1>1. RouterTypes'
    BY Landing DEF Inv, RouterInv, RouterTypes
  <1>2. ASSUME NEW d \in Calls, d # c PROVE CallInv(d)'
    <2>1. CallInv(d) /\ landed'[d] = landed[d]
      BY <1>2, Landing DEF Inv, RouterInv
    <2> QED BY <2>1, Landing, CallKept DEF CallInv
  <1>3. CallInv(c)'
    <2>1. CallInv(c)
      BY DEF Inv, RouterInv
    <2>2. /\ Dispatched(c) /\ Checked(c) /\ wire' = wire \ {c}
          /\ landed'[c] = [times |-> 1, actor |-> call[c].actor, as |-> remote[ServerOf(c)]]
          /\ UNCHANGED <<call, start, end, phase, dryRun, catalog>>
      BY Landing, Zenon
    <2>3. landed'[c].times = 1 /\ landed'[c].actor = call[c].actor /\ c \notin wire'
      BY <2>2
    <2>5. Dispatched(c)' /\ Checked(c)' /\ CarriedOut(c)'
      BY <2>2, <2>3 DEF Dispatched, Checked, CarriedOut, Withheld
    <2> QED BY <2>1, <2>2, <2>3, <2>5 DEF CallInv
  <1> QED BY <1>1, <1>2, <1>3 DEF RouterInv

LEMMA RouteKeeps ==
    ASSUME Inv, NEW c \in Calls, NEW name \in Requests, NEW actor \in {"forged", "omitted"},
           Route(c, name, actor)
    PROVE  Inv'
  <1>1. actor \in Actors /\ ActorFor(name, actor) \in Actors
    BY DEF Actors, ActorFor
  <1>2. RouterInv'
    BY <1>1, RouterLocal, RouterDispatch
       DEF Route, Denied, UnknownTool, DryRun, Unavailable, Inv
  <1>3. UNCHANGED <<at, step, status, catalog, phase, sessions, up, serves, crashes, remote>>
    BY DEF Route, Denied, UnknownTool, DryRun, Unavailable, AnswerLocally, Dispatch, setupVars,
           serverVars
  <1>4. SetupInv'
    BY <1>3, SetupFrame DEF Inv, SetupInv, SetupTypes
  <1> QED BY <1>2, <1>4 DEF Inv

LEMMA ServerKeeps ==
    ASSUME Inv, ServerStep
    PROVE  Inv'
  <1>1. ASSUME NEW c \in Calls, Land(c) PROVE Inv'
    <2>1. UNCHANGED <<at, step, status, catalog, phase, sessions, up, serves, crashes, remote>>
      BY <1>1 DEF Land, setupVars, serverVars
    <2> QED BY <1>1, <2>1, RouterLand, SetupFrame DEF Inv, SetupInv, SetupTypes
  <1>2. ASSUME NEW c \in Calls, Reject(c) PROVE Inv'
    <2>1. UNCHANGED <<at, step, status, catalog, phase, sessions, up, serves, crashes, remote>>
      BY <1>2 DEF Reject, setupVars, serverVars
    <2>2. UNCHANGED <<call, start, end, landed, dryRun>> /\ wire' \subseteq wire
      BY <1>2 DEF Reject, setupVars
    <2> QED BY <2>1, <2>2, RouterFrame, SetupFrame DEF Inv, SetupInv, SetupTypes
  <1>3. ASSUME NEW c \in Calls, NEW fatal \in BOOLEAN, Bounce(c, fatal) PROVE Inv'
    <2>1. /\ UNCHANGED <<at, step, status, catalog, up, serves, crashes, remote>>
          /\ UNCHANGED <<call, start, end, landed, dryRun>> /\ wire' \subseteq wire
          /\ c \in wire
      BY <1>3 DEF Bounce, setupVars, serverVars
    <2>2. phase \notin {"connecting", "cataloguing"}
      BY <2>1 DEF Inv, RouterInv, CallInv, Dispatched
    <2>3. \/ phase' = phase /\ sessions' = sessions
          \/ phase' \in {"failed", "collapsed", "stopped"} /\ sessions' = {}
      BY <1>3, <2>2 DEF Bounce, Inv, SetupInv, SetupTypes
    <2> QED BY <2>1, <2>2, <2>3, RouterFrame, SetupFrame DEF Inv, SetupInv, SetupTypes
  <1>4. ASSUME NEW s \in Servers, Crash(s) PROVE Inv'
    <2>1. /\ UNCHANGED <<at, step, status, catalog, phase, sessions, serves>>
          /\ UNCHANGED <<call, start, end, landed, wire, dryRun>>
      BY <1>4 DEF Crash, setupVars, callVars
    <2>2. /\ up' \in [Servers -> BOOLEAN] /\ crashes' \in 0..MaxCrashes
          /\ remote' \in [Servers -> Identities]
          /\ \A t \in Servers : remote'[t] \in {remote[t], "none"}
      BY <1>4, BoundAssumption DEF Crash, Inv, SetupInv, SetupTypes, Identities
    <2> QED BY <2>1, <2>2, RouterFrame, SetupFrame DEF Inv, SetupInv, SetupTypes
  <1>5. ASSUME NEW s \in Servers, NEW tools \in Deployments[s], Restart(s, tools) PROVE Inv'
    <2>1. /\ UNCHANGED <<at, step, status, catalog, phase, sessions, crashes, remote>>
          /\ UNCHANGED <<call, start, end, landed, wire, dryRun>>
      BY <1>5 DEF Restart, setupVars, callVars
    <2>2. /\ up' \in [Servers -> BOOLEAN]
          /\ \A t \in Servers : serves'[t] \in Deployments[t]
      BY <1>5 DEF Restart, Inv, SetupInv, SetupTypes
    <2> QED BY <2>1, <2>2, RouterFrame, SetupFrame DEF Inv, SetupInv, SetupTypes
  <1> QED BY <1>1, <1>2, <1>3, <1>4, <1>5 DEF ServerStep

LEMMA InvStep == Inv /\ [Next]_vars => Inv'
  <1> SUFFICES ASSUME Inv, [Next]_vars PROVE Inv'
    OBVIOUS
  <1>1. CASE SetupStep
    BY <1>1, SetupStepKeeps, SetupStepRouter DEF Inv
  <1>2. ASSUME NEW c \in Calls, Answer(c) \/ AnswerFails(c) PROVE Inv'
    <2>1. UNCHANGED <<at, step, status, catalog, phase, sessions, up, serves, crashes, remote>>
      BY <1>2 DEF Answer, AnswerFails, Finish, setupVars, serverVars
    <2> QED BY <1>2, <2>1, RouterFinish, SetupFrame DEF Inv, SetupInv, SetupTypes
  <1>3. CASE Close
    <2>1. /\ UNCHANGED <<at, step, status, catalog, up, serves, crashes, remote>>
          /\ UNCHANGED <<call, start, end, landed, wire, dryRun>>
          /\ phase = "ready" /\ phase' = "stopped" /\ sessions' = {}
      BY <1>3 DEF Close, setupVars, callVars, serverVars
    <2> QED BY <2>1, RouterFrame, SetupFrame DEF Inv, SetupInv, SetupTypes
  <1>4. CASE UNCHANGED vars
    <2>1. /\ UNCHANGED <<at, step, status, catalog, phase, sessions, up, serves, crashes, remote>>
          /\ UNCHANGED <<call, start, end, landed, wire, dryRun>>
      BY <1>4 DEF vars
    <2> QED BY <2>1, RouterFrame, SetupFrame DEF Inv, SetupInv, SetupTypes
  <1> QED BY <1>1, <1>2, <1>3, <1>4, RouteKeeps, ServerKeeps DEF Next

LEMMA InvHolds == Spec => []Inv
  <1>1. Init => Inv
    BY SetupInit, RouterInit DEF Inv
  <1> QED BY <1>1, InvStep, PTL DEF Spec

\* Type correctness of the gateway's own variables and of the servers'.
THEOREM TypeCorrect == Spec => []TypeOK
  <1>1. Inv => TypeOK
    BY DEF Inv, SetupInv, SetupTypes, RouterInv, RouterTypes, CatalogInv, TypeOK
  <1> QED BY <1>1, InvHolds, PTL

\* Decide grants exactly what no deny names and some allow covers.
LEMMA AllowedMeans ==
    ASSUME NEW name, Allowed(name)
    PROVE  name \notin Deny /\ (name \in AllowExact \/ name[1] \in AllowServers)
  BY DEF Allowed, Decide

\* Whatever is denied never lands, what lands is covered by an allow entry, and in a
\* dry run only reads do, for every role file and every build the servers are
\* restarted with.
THEOREM OnlyGranted == Spec => []OnlyGrantedLands
  <1>1. Inv => OnlyGrantedLands
    BY AllowedMeans DEF Inv, RouterInv, CallInv, Checked, Withheld, OnlyGrantedLands, ServerOf
  <1> QED BY <1>1, InvHolds, PTL

\* No call can have an effect before its start record, and end records answer calls.
THEOREM CallsAreAudited == Spec => []AuditTrail
  <1>1. Inv => AuditTrail
    BY DEF Inv, RouterInv, CallInv, Dispatched, AuditTrail
  <1> QED BY <1>1, InvHolds, PTL

\* From the moment there is a router, get_status says what bring-up found, after the
\* lifecycle task has died too; the sessions are what it says as long as that task lives,
\* and none are left after it.
THEOREM StatusTells == Spec => []StatusTellsBringUp
  <1>1. Inv => StatusTellsBringUp
    <2> SUFFICES ASSUME Inv, phase \in {"ready", "collapsed", "stopped"}
                 PROVE  /\ \A s \in Servers : status[s].connected <=> ~status[s].skipped
                        /\ \A s \in Servers \cap NeedsLogin :
                              status[s].connected => status[s].login = "ok"
                        /\ \A name \in catalog : status[name[1]].connected
                        /\ sessions = {s \in Servers : status[s].connected /\ phase = "ready"}
      BY DEF StatusTellsBringUp
    <2>1. \A s \in Servers : /\ status[s].connected <=> ~status[s].skipped
                             /\ s \in NeedsLogin /\ status[s].connected => status[s].login = "ok"
      BY DEF Inv, SetupInv, ServerInv, Tried
    <2>2. sessions = {s \in Servers : status[s].connected /\ phase = "ready"}
      BY DEF Inv, SetupInv, SessionsInv
    <2> QED BY <2>1, <2>2 DEF Inv, SetupInv, CatalogInv
  <1> QED BY <1>1, InvHolds, PTL

----------------------------------------------------------------------------
(* The sessions calls land in, and the refinement.                           *)

\* Only a server changes what has landed, and a name once asked for stays.
LEMMA OnlyLandLands ==
    ASSUME Inv, [Next]_vars
    PROVE  \/ \E c \in Calls : Land(c)
           \/ /\ landed' = landed
              /\ \A c \in Calls : call[c].pc # "idle" => call'[c].name = call[c].name
  <1>1. ASSUME NEW c \in Calls, NEW name \in Requests, NEW actor \in {"forged", "omitted"},
               Route(c, name, actor)
        PROVE  /\ landed' = landed
               /\ \A d \in Calls : call[d].pc # "idle" => call'[d] = call[d]
    <2>1. landed' = landed /\ call[c].pc = "idle"
      BY <1>1 DEF Route, Denied, UnknownTool, DryRun, Unavailable, AnswerLocally, Dispatch, Asked
    <2>2. \E r : call' = [call EXCEPT ![c] = r]
      BY <1>1 DEF Route, Denied, UnknownTool, DryRun, Unavailable, AnswerLocally, Dispatch
    <2> QED BY <2>1, <2>2 DEF Inv, RouterInv, RouterTypes
  <1>2. ASSUME NEW c \in Calls, Answer(c) \/ AnswerFails(c)
        PROVE  landed' = landed /\ \A d \in Calls : call'[d].name = call[d].name
    <2>1. landed' = landed
      BY <1>2 DEF Answer, AnswerFails, Finish
    <2>2. \E o : call' = [call EXCEPT ![c].pc = "done", ![c].outcome = o]
      BY <1>2 DEF Answer, AnswerFails, Finish
    <2> QED BY <2>1, <2>2 DEF Inv, RouterInv, RouterTypes, CallStates
  <1>3. CASE SetupStep \/ Close \/ UNCHANGED vars
    BY <1>3 DEF SetupStep, ConnectStep, SkipDisabled, Handshake, ConnectFails, Login, LoginFails,
           PostLoginSetup, ListTools, Catalog, CatalogFails, AllConnected, RouterReady, Close,
           callVars, vars
  <1>4. CASE ServerStep
    BY <1>4 DEF ServerStep, Reject, Bounce, Crash, Restart, callVars
  <1> QED BY <1>1, <1>2, <1>3, <1>4 DEF Next

\* A server with a login never carries out a call of an anonymous session.
LandsLoggedIn ==
    \A c \in Calls : CarriedOut(c) /\ ServerOf(c) \in NeedsLogin => landed[c].as = "identified"

\* What lands does so as the gateway: in an identified session where the server has
\* a login, and with the role in an injected parameter.
THEOREM LandsIdentified == Spec => []LandsAsItself
  <1>1. Init => LandsLoggedIn
    BY DEF Init, LandsLoggedIn, CarriedOut, Untouched
  <1>2. Inv /\ LandsLoggedIn /\ [Next]_vars => LandsLoggedIn'
    <2> SUFFICES ASSUME Inv, LandsLoggedIn, [Next]_vars, NEW c \in Calls, CarriedOut(c)',
                        ServerOf(c)' \in NeedsLogin
                 PROVE  landed'[c].as = "identified"
      BY DEF LandsLoggedIn
    <2>1. ASSUME NEW d \in Calls, Land(d) PROVE landed'[c].as = "identified"
      <3>1. call' = call
        BY <2>1, Landing
      <3>2. CASE c = d
        <4>1. /\ landed'[c] = [times |-> 1, actor |-> call[c].actor, as |-> remote[ServerOf(c)]]
              /\ ServerOf(c) \in NeedsLogin => remote[ServerOf(c)] = "identified"
          BY <2>1, <3>2, Landing, Zenon
        <4> QED BY <3>1, <4>1 DEF ServerOf
      <3>3. CASE c # d
        <4>1. landed'[c] = landed[c]
          BY <2>1, <3>3, Landing
        <4> QED BY <3>1, <4>1 DEF LandsLoggedIn, CarriedOut, ServerOf
      <3> QED BY <3>2, <3>3
    <2>2. CASE /\ landed' = landed
               /\ \A d \in Calls : call[d].pc # "idle" => call'[d].name = call[d].name
      <3>1. CarriedOut(c)
        BY <2>2 DEF CarriedOut
      <3>2. call[c].pc # "idle"
        BY <3>1 DEF Inv, RouterInv, CallInv, Dispatched
      <3> QED BY <2>2, <3>1, <3>2 DEF LandsLoggedIn, ServerOf
    <2> QED BY <2>1, <2>2, OnlyLandLands
  <1>3. Inv /\ LandsLoggedIn => LandsAsItself
    BY DEF Inv, RouterInv, CallInv, Checked, LandsLoggedIn, LandsAsItself
  <1> QED BY <1>1, <1>2, <1>3, InvHolds, PTL DEF Spec

\* The answer GuardedCalls sees.
AnswerOf(c) == IF call[c].pc = "idle" THEN "none" ELSE Outcome[call[c].outcome]

LEMMA AnswerSteps ==
    ASSUME NEW c \in Calls, NEW o, call'[c].pc # "idle", call'[c].outcome = o,
           \A d \in Calls \ {c} : call'[d] = call[d]
    PROVE  [d \in Calls |-> AnswerOf(d)]' =
              [[d \in Calls |-> AnswerOf(d)] EXCEPT ![c] = Outcome[o]]
  <1>1. AnswerOf(c)' = Outcome[o]
    BY DEF AnswerOf, Outcome
  <1>2. ASSUME NEW d \in Calls, d # c PROVE AnswerOf(d)' = AnswerOf(d)
    BY <1>2 DEF AnswerOf, Outcome
  <1> QED BY <1>1, <1>2

\* Steps that leave the calls and what landed alone.
LEMMA OtherStepsStutter ==
    ASSUME Inv, [Next]_vars
    PROVE  \/ call' = call /\ landed' = landed
           \/ \E c \in Calls : Land(c) \/ Answer(c) \/ AnswerFails(c)
           \/ \E c \in Calls, name \in Requests, actor \in {"forged", "omitted"} :
                 Route(c, name, actor)
  <1>1. CASE SetupStep \/ Close \/ UNCHANGED vars
    BY <1>1 DEF SetupStep, ConnectStep, SkipDisabled, Handshake, ConnectFails, Login, LoginFails,
           PostLoginSetup, ListTools, Catalog, CatalogFails, AllConnected, RouterReady, Close,
           callVars, vars
  <1>2. CASE ServerStep
    BY <1>2 DEF ServerStep, Reject, Bounce, Crash, Restart, callVars
  <1> QED BY <1>1, <1>2 DEF Next

LEMMA LandImplements ==
    ASSUME Inv, NEW c \in Calls, Land(c)
    PROVE  Guarded!CarryOut(c)
  <1> DEFINE answers == [d \in Calls |-> AnswerOf(d)]
             counts == [d \in Calls |-> landed[d].times]
  <1>1. counts' = [counts EXCEPT ![c] = 1]
    <2>1. \A d \in Calls \ {c} : landed'[d] = landed[d]
      BY Landing
    <2>2. landed'[c] = [times |-> 1, actor |-> call[c].actor, as |-> remote[ServerOf(c)]]
      BY Landing, Zenon
    <2>3. landed'[c].times = 1
      BY <2>2
    <2> QED BY <2>1, <2>3
  <1>2. answers' = answers
    BY Landing DEF AnswerOf, Outcome
  <1>3. counts[c] = 0 /\ answers[c] \in {"pending", "failed"}
    <2>1. Dispatched(c) /\ landed[c].times = 0
      BY Landing, Zenon
    <2> QED BY <2>1 DEF Inv, RouterInv, Dispatched, CallInv, CarriedOut, AnswerOf, Outcome
  <1> QED BY <1>1, <1>2, <1>3 DEF AnswerOf, Guarded!CarryOut

LEMMA FinishImplements ==
    ASSUME Inv, NEW c \in Calls, Answer(c) \/ AnswerFails(c)
    PROVE  Guarded!Succeed(c) \/ Guarded!Fail(c)
  <1> DEFINE answers == [d \in Calls |-> AnswerOf(d)]
             counts == [d \in Calls |-> landed[d].times]
  <1>1. PICK o \in {"ok", "error"} :
          Finish(c, o) /\ call[c].pc = "sent" /\ (o = "ok" => CarriedOut(c))
    BY DEF Answer, AnswerFails, MayAnswer, MayFail
  <1>2. /\ call'[c].pc = "done" /\ call'[c].outcome = o /\ landed' = landed
        /\ \A d \in Calls \ {c} : call'[d] = call[d]
    BY <1>1 DEF Finish, Inv, RouterInv, RouterTypes, CallStates
  <1>3. answers' = [answers EXCEPT ![c] = Outcome[o]]
    BY <1>2, AnswerSteps
  <1>4. answers[c] = "pending" /\ (o = "ok" => counts[c] = 1) /\ counts' = counts
    BY <1>1, <1>2 DEF Inv, RouterInv, CallInv, AnswerOf, Outcome
  <1>5. Outcome[o] = IF o = "ok" THEN "ok" ELSE "failed"
    BY DEF Outcome
  <1> QED BY <1>3, <1>4, <1>5 DEF AnswerOf, Guarded!Succeed, Guarded!Fail

LEMMA RouteImplements ==
    ASSUME Inv, NEW c \in Calls, NEW name \in Requests, NEW actor \in {"forged", "omitted"},
           Route(c, name, actor)
    PROVE  Guarded!Withhold(c) \/ Guarded!LetThrough(c)
  <1> DEFINE answers == [d \in Calls |-> AnswerOf(d)]
             counts == [d \in Calls |-> landed[d].times]
  <1>1. PICK pc \in {"sent", "done"}, a \in Actors,
             o \in {"none", "denied", "unknown_tool", "dry_run", "unavailable"} :
          /\ call' = [call EXCEPT ![c] = [pc |-> pc, name |-> name, actor |-> a, outcome |-> o]]
          /\ pc = "sent" <=> o = "none"
          /\ landed' = landed /\ call[c].pc = "idle"
    BY DEF Route, Denied, UnknownTool, DryRun, Unavailable, AnswerLocally, Dispatch,
           Asked, ActorFor, Actors
  <1>2. /\ call'[c].pc = pc /\ call'[c].outcome = o
        /\ \A d \in Calls \ {c} : call'[d] = call[d]
    BY <1>1 DEF Inv, RouterInv, RouterTypes
  <1>3. answers' = [answers EXCEPT ![c] = Outcome[o]]
    BY <1>2, AnswerSteps
  <1>4. answers[c] = "none" /\ counts' = counts
    BY <1>1 DEF AnswerOf
  <1>5. Outcome[o] \in {"pending", "refused", "simulated"}
    BY DEF Outcome
  <1> QED BY <1>3, <1>4, <1>5 DEF AnswerOf, Guarded!Withhold, Guarded!LetThrough

\* The gateway implements GuardedCalls: at most once, never after a refusal or in a
\* simulation, "ok" only for what was carried out, and perhaps after a failure.
THEOREM Implements == Spec => GuardsCalls
  <1>1. Init => Guarded!Init
    BY DEF Init, Guarded!Init, NoCall, Untouched
  <1>2. Inv /\ [Next]_vars => [Guarded!Next]_(Guarded!vars)
    <2> SUFFICES ASSUME Inv, [Next]_vars PROVE [Guarded!Next]_(Guarded!vars)
      OBVIOUS
    <2>1. CASE call' = call /\ landed' = landed
      BY <2>1 DEF Guarded!vars
    <2> QED BY <2>1, OtherStepsStutter, LandImplements, FinishImplements, RouteImplements
            DEF Guarded!Next
  <1> QED BY <1>1, <1>2, InvHolds, PTL DEF Spec, GuardsCalls, Guarded!Spec

----------------------------------------------------------------------------
(* Nobody goes in circles: the safety half of EveryWaitEnds.                 *)

\* How far setup has come.  The bring-up of a server has at most four places, its
\* cataloguing one; SetupEnd is where the constructor stops waiting.
SetupEnd == 5 * Len(Configs) + 10
StepRank == IF step = "handshake" THEN 0 ELSE IF step = "login" THEN 1
            ELSE IF step = "setup" THEN 2 ELSE 3
SetupPlace ==
    IF phase = "connecting" THEN 4 * at + StepRank
    ELSE IF phase = "cataloguing" THEN 4 * Len(Configs) + 8 + at ELSE SetupEnd

LEMMA StepRankRange == StepRank \in 0..3
  BY DEF StepRank

LEMMA SetupPlaceRange == TypeOK => SetupPlace \in 0..SetupEnd
  BY StepRankRange, ConfigsFacts DEF TypeOK, SetupPlace, SetupEnd

LEMMA ConnectAdvances ==
    ASSUME TypeOK, NEW s \in Servers, ConnectStep(s)
    PROVE  SetupPlace' > SetupPlace
  <1>1. phase = "connecting" /\ phase' = phase /\ at \in Nat
    BY ConfigsFacts DEF TypeOK, ConnectStep, SkipDisabled, Handshake, ConnectFails, Login, LoginFails,
           PostLoginSetup, ListTools, SkipServer, Connecting
  <1>2. CASE at' = at + 1
    <2>1. SetupPlace = 4 * at + StepRank /\ SetupPlace' = 4 * (at + 1) + StepRank'
      BY <1>1, <1>2 DEF SetupPlace
    <2>2. StepRank \in 0..3 /\ StepRank' \in 0..3
      BY DEF StepRank
    <2>3. \A a \in Nat : \A x, y \in 0..3 : 4 * (a + 1) + y > 4 * a + x
      OBVIOUS
    <2> QED BY <1>1, <2>1, <2>2, <2>3
  <1>3. CASE at' = at /\ StepRank' > StepRank
    <2>1. SetupPlace = 4 * at + StepRank /\ SetupPlace' = 4 * at + StepRank'
      BY <1>1, <1>3 DEF SetupPlace
    <2>2. StepRank \in 0..3 /\ StepRank' \in 0..3
      BY DEF StepRank
    <2>3. \A a \in Nat : \A x, y \in 0..3 : y > x => 4 * a + y > 4 * a + x
      OBVIOUS
    <2> QED BY <1>1, <1>3, <2>1, <2>2, <2>3
  <1>4. CASE SkipDisabled(s) \/ ConnectFails(s) \/ LoginFails(s) \/ ListTools(s)
    BY <1>2, <1>4 DEF SkipDisabled, ConnectFails, LoginFails, ListTools, SkipServer, Advance, NextServer
  <1>5. CASE Handshake(s)
    BY <1>3, <1>5 DEF Handshake, AfterHandshake, StepRank
  <1>6. CASE Login(s)
    BY <1>3, <1>6 DEF Login, StepRank
  <1>7. ASSUME NEW ok \in BOOLEAN, PostLoginSetup(s, ok) PROVE SetupPlace' > SetupPlace
    BY <1>3, <1>7 DEF PostLoginSetup, StepRank
  <1> QED BY <1>4, <1>5, <1>6, <1>7 DEF ConnectStep

LEMMA SetupAdvances ==
    ASSUME TypeOK, SetupStep
    PROVE  SetupPlace' > SetupPlace
  <1>1. Len(Configs) \in Nat /\ at \in 1..(Len(Configs) + 1)
    BY ConfigsFacts DEF TypeOK
  <1>2. ASSUME NEW s \in Servers, ConnectStep(s) PROVE SetupPlace' > SetupPlace
    BY <1>2, ConnectAdvances
  <1>3. ASSUME NEW s \in Servers, Catalog(s) PROVE SetupPlace' > SetupPlace
    BY <1>1, <1>3 DEF Catalog, Cataloguing, SetupPlace
  <1>4. ASSUME NEW s \in Servers, CatalogFails(s) PROVE SetupPlace' > SetupPlace
    BY <1>1, <1>4 DEF CatalogFails, Cataloguing, SetupPlace, SetupEnd
  <1>5. CASE AllConnected
    <2>1. SetupPlace' = 4 * Len(Configs) + 8 + 1
      BY <1>5 DEF AllConnected, SetupPlace
    <2>2. SetupPlace = 4 * at + StepRank
      BY <1>5 DEF AllConnected, SetupPlace
    <2> QED BY <1>1, <2>1, <2>2, StepRankRange
  <1>6. CASE RouterReady
    BY <1>1, <1>6 DEF RouterReady, SetupPlace, SetupEnd
  <1> QED BY <1>2, <1>3, <1>4, <1>5, <1>6 DEF SetupStep

LEMMA OthersKeepSetup ==
    ASSUME Inv, [Next]_vars, ~SetupStep
    PROVE  SetupPlace' = SetupPlace
  <1>1. \A c \in Calls : call[c].pc # "idle" => phase \notin {"connecting", "cataloguing"}
    BY DEF Inv, RouterInv, CallInv
  <1>2. \A c \in Calls : c \in wire => call[c].pc # "idle"
    BY DEF Inv, RouterInv, CallInv, Dispatched
  <1>3. ASSUME UNCHANGED <<phase, at, step>> PROVE SetupPlace' = SetupPlace
    BY <1>3 DEF SetupPlace, StepRank
  <1>4. ASSUME NEW c \in Calls, NEW name \in Requests, NEW actor \in {"forged", "omitted"},
               Route(c, name, actor)
        PROVE  SetupPlace' = SetupPlace
    <2>1. UNCHANGED <<phase, at, step>>
      BY <1>4 DEF Route, Denied, UnknownTool, DryRun, Unavailable, Dispatch, AnswerLocally, setupVars
    <2> QED BY <1>3, <2>1
  <1>5. ASSUME NEW c \in Calls, Answer(c) \/ AnswerFails(c) PROVE SetupPlace' = SetupPlace
    <2>1. UNCHANGED <<phase, at, step>>
      BY <1>5 DEF Answer, AnswerFails, Finish, setupVars
    <2> QED BY <1>3, <2>1
  <1>6. ASSUME NEW c \in Calls, NEW fatal \in BOOLEAN, Bounce(c, fatal) PROVE SetupPlace' = SetupPlace
    <2>1. phase \notin {"connecting", "cataloguing"} /\ phase' \notin {"connecting", "cataloguing"}
      BY <1>1, <1>2, <1>6 DEF Bounce
    <2> QED BY <2>1 DEF SetupPlace, SetupEnd
  <1>7. ASSUME ServerStep, \A c \in Calls, fatal \in BOOLEAN : ~Bounce(c, fatal)
        PROVE  SetupPlace' = SetupPlace
    <2>1. UNCHANGED <<phase, at, step>>
      BY <1>7 DEF ServerStep, Land, Reject, Crash, Restart, setupVars
    <2> QED BY <1>3, <2>1
  <1>8. CASE Close
    BY <1>8 DEF Close, SetupPlace, SetupEnd
  <1>9. CASE UNCHANGED vars
    BY <1>3, <1>9 DEF vars
  <1> QED BY <1>4, <1>5, <1>6, <1>7, <1>8, <1>9 DEF Next

\* connect_all and build_catalog cannot go on for ever (connection.py:145-345,
\* catalog.py): each of their steps takes setup further, nothing else moves it, and at
\* SetupEnd the router exists or setup has failed, for any number of servers.
\* Together with the fairness of FairSpec this is the first half of EveryWaitEnds.
THEOREM SetupIsBounded ==
    Spec => /\ [](SetupPlace \in 0..SetupEnd)
            /\ [][IF SetupStep THEN SetupPlace' > SetupPlace ELSE SetupPlace' = SetupPlace]_vars
  <1>1. Inv /\ [Next]_vars =>
            [IF SetupStep THEN SetupPlace' > SetupPlace ELSE SetupPlace' = SetupPlace]_vars
    <2>1. Inv => TypeOK
      BY DEF Inv, SetupInv, SetupTypes, RouterInv, RouterTypes, CatalogInv, TypeOK
    <2> QED BY <2>1, SetupAdvances, OthersKeepSetup
  <1> QED BY <1>1, SetupPlaceRange, TypeCorrect, InvHolds, PTL DEF Spec

\* An answer is final: whatever comes back after it (a late result, a second timeout,
\* the end of the session), neither the outcome nor the two records of the call change
\* again (router.py:340-426), and a call is not routed twice.
THEOREM AnswersAreFinal ==
    Spec => [][\A c \in Calls :
                  /\ call[c].pc = "done" =>
                        call'[c] = call[c] /\ start'[c] = start[c] /\ end'[c] = end[c]
                  /\ call[c].pc = "sent" =>
                        call'[c].name = call[c].name /\ call'[c].actor = call[c].actor
                        /\ start'[c] = start[c] /\ call'[c].pc # "idle"]_vars
  <1> DEFINE Final(c) ==
                  /\ call[c].pc = "done" =>
                        call'[c] = call[c] /\ start'[c] = start[c] /\ end'[c] = end[c]
                  /\ call[c].pc = "sent" =>
                        call'[c].name = call[c].name /\ call'[c].actor = call[c].actor
                        /\ start'[c] = start[c] /\ call'[c].pc # "idle"
  <1>1. Inv /\ [Next]_vars => [\A c \in Calls : Final(c)]_vars
    <2> SUFFICES ASSUME Inv, Next, NEW c \in Calls PROVE Final(c)
      OBVIOUS
    <2>0. call \in [Calls -> CallStates] /\ start \in [Calls -> Records] /\ end \in [Calls -> Records]
      BY DEF Inv, RouterInv, RouterTypes
    <2>1. CASE UNCHANGED <<call, start, end>>
      BY <2>1
    <2>2. ASSUME NEW d \in Calls, Answer(d) \/ AnswerFails(d) PROVE Final(c)
      <3>1. PICK o \in {"ok", "error"} : Finish(d, o) /\ call[d].pc = "sent"
        BY <2>2 DEF Answer, AnswerFails, MayAnswer, MayFail
      <3>2. CASE c = d
        <4>1. call'[c] = [call[c] EXCEPT !.pc = "done", !.outcome = o] /\ start' = start
          BY <2>0, <3>1, <3>2 DEF Finish
        <4>2. call[c] \in CallStates
          BY <2>0
        <4> QED BY <3>1, <3>2, <4>1, <4>2 DEF CallStates
      <3>3. CASE c # d
        BY <2>0, <3>1, <3>3 DEF Finish
      <3> QED BY <3>2, <3>3
    <2>3. ASSUME NEW d \in Calls, NEW name \in Requests, NEW actor \in {"forged", "omitted"},
                 Route(d, name, actor)
          PROVE  Final(c)
      <3>1. /\ call[d].pc = "idle"
            /\ \A b \in Calls \ {d} : call'[b] = call[b] /\ start'[b] = start[b] /\ end'[b] = end[b]
        BY <2>0, <2>3 DEF Route, Denied, UnknownTool, DryRun, Unavailable, AnswerLocally, Dispatch, Asked,
                   RecordStart
      <3> QED BY <3>1
    <2>4. CASE SetupStep \/ Close \/ ServerStep
      BY <2>1, <2>4 DEF SetupStep, ConnectStep, SkipDisabled, Handshake, ConnectFails, Login, LoginFails,
           PostLoginSetup, ListTools, Catalog, CatalogFails, AllConnected, RouterReady, Close,
           callVars, ServerStep, Land, Reject, Bounce, Crash, Restart
    <2> QED BY <2>2, <2>3, <2>4 DEF Next
  <1> QED BY <1>1, InvHolds, PTL DEF Spec

=============================================================================
