# A verification project for the HappyTuna simulation

The repository runs a simulated product crisis. An *event generator* tells a scripted
story over SSE; *customer agents* file complaints with a *customer support* service;
*influencer agents* watch a *social network* and react; a *CEO agent* works on tickets
and posts through an *MCP gateway*. Each part is a process of its own, most are
containers, and nearly everything hard is between them: requests whose answer is lost,
servers that restart, files and rows that are stale by the time they are used.

This directory models that in TLA+, checks it with TLC and proves the safety
properties with TLAPS. `PROJECT.json` lists runs, mutants, hazards, findings and
theorems and maps every definition to the lines it models; this file explains them.

## 1. Inventory

| component (source) | state | operations | what is hard | what makes it right | model |
|---|---|---|---|---|---|
| event generator (`event-generator/server.py`, `event_broker.py`, `event_generator.py`) | the broker's dictionary tag -> listeners, the set of connections, one bounded queue per subscriber, the sequence counter | `GET /subscribe` and its stream, `POST /emit`, `POST /replay`, `GET /health`, the `_offer` callbacks | replay threads run through a dictionary the event loop mutates; a slow reader; a client that leaves before its stream starts | a complete subscription misses nothing; drop-oldest and never reorder; unique numbers; the count of `/health` | `EventGenerator` |
| event client (`event_client.py`, twice the same file) | the open stream | subscribe, stream, sleep, reconnect | events lost between two streams | order within a stream; listening never stops; what may be lost | `CustomerAgent` |
| CEO gateway (`ceo_agent/gateway/`, `gateway_bridge.py`) | sessions, statuses, catalogue, role policy, dry-run flag, audit file | `connect_all`, `build_catalog`, `Router.call_tool`, `close` | servers fail at each step of bring-up, crash, restart with other tools, answer late; one bad answer can end the task that owns all sessions | only what the role grants is carried out, under the right identity, at most once, with a record; dry run writes nothing; a status that tells what bring-up found | `Gateway` |
| registry and role files (`gateway/registry.py`, `policy.py`, `roles.yaml`) | none after loading | `resolve_profile`, `load_registry`, `load_roles`, `validate_against_catalog` | one bad entry refuses the file; rules that match nothing | unique ids, exact denies, one bad rule refuses the file | `GatewayFiles`, `GatewayPolicy` |
| CEO agent loop (`agents/CEO_Agent.py`, `services/tool_executor.py`) | plan, previous results, memory | `chat`, one step, replan, `execute` with retries | retries at two levels around calls with side effects | a write that the adapter reports as failed is not sent again by the executor; a step is reported as what happened; the run ends | `CeoAgent` |
| CEO entry points (`main.py`, `cli.py`, `gateway_bridge.py`) | two threads, their events, the exit code; the support queue outlives them | seed tickets, start the bridge, chat, close; `check`, `dump` | setup fails on one thread while another waits; an interrupted seed; failures at different depths under one exit code | a whole gateway or none, every session closed, no ticket seeded twice, true exit codes, an end | `CeoPrograms` |
| CEO mail, memory and documents (`services/`, `tools/`) | inbox, vector collections | fetch, mark read, send, remember | the answer is lost after the mark | a mail is handed out at least / at most once | not modelled: `main.py` registers no mail tools; of its `MemoryStore` only that it may raise is in `CeoAgent` |
| influencer poller (`influencer-agent/.../poller.py`, `state.py`) | the cursor file; nothing else survives a restart | one poll cycle: walk, react, save | the feed shifts while it is walked; a cycle fails in the middle; the file is torn by a kill | nothing skipped, publish order, news only, progress | `InfluencerPoller` |
| influencer decision (`register.py`, `nat_client.py`) | none | one LLM call, schema check, retries | - | one of three decisions or an error | a set of decisions |
| support store (`Customer_Support_System/storage.py`, `main.py`, `mcp_server.py`) | tickets, activity log, two counters in one SQLite file | create, patch; listings | two processes, a read outside the transaction, failures between statements | log and ticket agree, all or nothing, the lock is released | `TicketStore` |
| sentiment scorer (`storage.py`) | none | `score_sentiment` | precedence of keyword lists | against a reference definition | a set of answers in `TicketStore` |
| support dashboard, seed data | - | display | - | - | not modelled |
| customer agent (`customer-agent/`) | per-persona memory, in process; a child process | react to an event, file a ticket, remember; SIGTERM and shutdown | sequential reactions behind LLM calls against a bounded queue; answers lost after the effect; a child that ignores its signal | whole rounds, at most one ticket per persona and event, a memory that is true, the child is stopped | `CustomerAgent` |
| social network services (`social_network/src/services/`) | users, posts, comments, likes, reposts, follows | CRUD, engagement, search | check-then-write across awaits | answers and rows agree, whoever races | feed: `InfluencerPoller`; engagement: `SocialPosts` |
| social network analysis (`sentimentService.ts`, `analyticsService.ts`) | scores on posts, the engine toggle | batch analysis, metrics | a batch over a list that is stale, overlapping batches, a switch in the middle | a batch has done what it answers; metrics against definitions | batches: `SocialPosts` |
| social network MCP transport (`src/mcp/`) | the session map | initialize, call, close | a restart forgets sessions | a session acts as the identity that logged in | inside `Gateway` |
| routes, web client, dashboards, docker-compose | - | presentation, deployment | - | - | not modelled |

How they interact: the customer driver holds one SSE stream of the event generator and
calls the support store over MCP; the poller calls social_network over HTTP and its
own decision workflow on localhost; the CEO agent calls support and social_network
through the gateway, over MCP sessions; the dashboards call the REST APIs. The only state
that two processes share directly is the SQLite file of the support store. The hazards
in `PROJECT.json` name, line by line, where this bites. A hazard that the code does not withstand
has no property that would claim it did: its note says what happens, and section 3 lists it.

## 2. Modules and the code they model

Each subsystem has a module, an abstract specification of what it promises where there is
one worth stating, an `MC` module or configurations, and a proof module that EXTENDS it.

**EventGenerator** (abstract: `BoundedMailbox`). Two kinds of threads: the event loop
(`Loop`), which runs handlers, streams and callbacks one at a time (`LoopFree`), and
one worker per `/replay`. `subscribers` is `broker._subscribers` (a tag with an empty list
is no key), `connections` is `_connections`, `thread[e]` the position of an emitter inside
`Event.emit`, `ready` the callbacks handed over by `call_soon_threadsafe`, `queue` and
`dropped` a subscriber's queue. `GET /subscribe` is `Subscribe`, one `SubscribeTag` for
each tag, `Accept`; its stream is `StartStream`, `Yield`, `Disconnect`, one
`UnsubscribeTag` for each tag, `Forget`. Emitting is `Stamp` (inside `PostEmit` or
`NextOfFeed`), `CheckTag`, `CopyListeners` (the second lookup, where a replay may die of a
KeyError), one `CallListener` each, `EmitReturns`, and later `Offer` on the loop.
`Abandon` is the stream that never starts and whose `finally` never runs. `log`, `sent`,
`joined` and `emitted` are history.

**CustomerAgent** (abstract: `CrisisRounds`). One task: `driver` is its position inside
`driver.run`, `at` the persona whose turn it is in `_react`, `score` the decision being carried
out in `_decide_and_act`. The subscription is its other half: `stream` is where `subscribe()`
is (`Connect`, `ConnectFails`, `Notice`, `Wake`, `Receive`), and it only moves between two
rounds, because the generator is suspended while the loop body runs. `queue` is the server's
bounded queue, `wire` the sockets, both of which fill meanwhile; `Break(k)` is the end of a
connection at any moment, after which a prefix of what was sent can still be read. A decision
is `NoDecision` (the guarded call raises, or its answer is no JSON object), `Decide` or
`Complain`; a ticket is `TicketLands` at the store and `TicketAnswered` here, and
`TicketFails` comes before or after it landed; a request that timed out may be carried out
later (`late`, `TicketLandsLate`). `Remember` is the end of `_decide_and_act`.
`nat`, `process` and `signalled` are `main.py`: the `nat mcp serve` child, `shutdown()`
and its ten seconds. `EventTags` is `_event_tags`: a variable of commas only is the empty tuple, so every tag.

**Gateway**, over **GatewayPolicy** (abstract: `GuardedCalls`). `phase`, `at` and `step` are
the position of `connect_all`, `_connect_one` and `build_catalog`; `status` and
`sessions` are what the code keeps under these names; `call`, `start` and `end` are each
`Router.call_tool` and its two audit records. `call_tool` never awaits before
`dispatch_tool`, so `Denied`, `UnknownTool`, `DryRun`, `Unavailable` and `Dispatch` are one
step each, in the order of the checks. The servers (`up`, `serves`, `remote`, `wire`,
`landed`) are the environment: they crash, restart with another deployment and an empty
session table, process a request late or never, refuse it, or bounce it, and a bounce may
end the task that holds all sessions (`Bounce(c, TRUE)`, as `connection.py` describes and
its `__aexit__` implements). `AnswerFails` stands for every failure the caller sees, with
or without the request having been carried out.

**CeoAgent** (over `GuardedCalls`, which `Gateway` implements). One `chat()`: `pc` says what it
waits for, `left` is `len(plan)`, `step`, `reply` and `try` count steps, replies of the model
and the executor's attempts. `Plan`, `NoPlan`, `Replan`, `Report` are `chat`; `Unusable`,
`StepComplete` and `NextReply` the loop of `_execute_single_step`; `Refuse`, `Execute`,
`Succeeds` and `Fails` are `ToolExecutor.execute`, an attempt at a time; `Send` is
`GatewayToolAdapter.run`. The model's replies are arbitrary. An attempt is a call of `G`, an
instance of `GuardedCalls`: of a failed one nothing is known, and `Land` may carry it out at
any later time. A failure is an error that the adapter reports, with its own `is_idempotent`, or an
exception of `run()`, for which the executor's result has the default (`Idempotent(t, raises)`,
`TryAgain`; `raised` is history). `results` is `previous_results`, `trace` the executor's ACT entries,
`Published`, `ReadBeforeWrite` and `AttemptedWrites` the checks `main()` prints.

**GatewayFiles** and **CeoPrograms**. `GatewayFiles` is what `registry.py` and `policy.py` accept: a
file is what it says once parsed, and `RegistryAccepts`, `ValidPattern`, `RolesAccept` and
`PolicyOf` are the loaders. `CeoPrograms` runs `main.py`, `check` or `dump` over such
files, one after the other. `pc` is the main thread, `life` the coroutine (`_lifecycle` of the
bridge, `cmd_check`, `cmd_dump`), which share the order `Load`, `Connect` per entry, `AllTried`,
`BuildCatalog`, `BuildPolicy`, and part where they differ (`Step(IF ...)`, `ready`, `ExitCode`).
`Look`, `Post` and `SeedingEnds` are `_seed_support_tickets`; `Construct`, `Hold`, `GiveUp`,
`Joined`, `ChatEnds`, `Close` and `AwaitClosed` are the bridge's constructor, `main()`'s chat
and `close()`; `Unwind`, `Except`, `Finally` and `LoopStops` are the other thread. `Collapse` is a
transport that dies under an open session, `Cancelled` a cancellation with no failure behind it,
`Kill` the end of the process. What a bring-up step does inside is `Gateway`'s.

**InfluencerPoller** (abstract: `NewsReader`). A post is its place in the order of publication. The feed and its pages
are those of `postService.getGlobalFeed`. `Poll`, `Baseline`, `FetchPage`, `SkipOwn`,
`Decide`, `Comment`, `Repost`, `RepostRefused`, `BatchDone`, `Truncate` and `Write` are
`_poll_once` from one await to the next; `RequestFails`, `AnswerLost` and `Crash` are what
goes wrong. `torn` is the cursor file between the truncation and the write of
`write_text`; a torn file makes every later cycle raise (`PollFails`). `NewsReader` knows no
pages, batches, files or restarts: a persona begins somewhere, reacts to the post whose turn it
is, shares only what it commented on, and reads on for good. `Reader` is the instance of it that
the poller implements; `seen` is the cursor there.

**TicketStore**, over **TicketRows** (abstract: `TicketLedger`). Calls of two processes:
`Rest` runs in a pool of threads, `Mcp` on an event loop that one synchronous call blocks
(`MayStart`). `db` is what is committed, `draft` what the open transaction sees, `writer` who
holds SQLite's write lock. `create_ticket` is `CallCreate`, `Insert`, `LogCreated`,
`LogScored`, `Commit`; `patch_ticket` is `CallPatch`, `Select` (outside the transaction: the
row may be stale from here on), for each field of the patch in the order of the model class
`SkipField`, `TakeMethod` or `LogField`, then `NothingChanged`, `Update` or
`UpdateRefused`, and `Commit`. The first write takes the lock, `RollBack` is what closing
the connection does. `StatementFails` and `Crash` may hit every statement.

**SocialPosts** (abstract: `Engagements`). `req` holds the concurrent requests of one Node process, each between two of its
awaits. A like or repost is `EnsurePostExists`, `FindForAdd`, `Create`; its removal
`FindForRemove`, `Delete`; `rows` are both tables, with their unique keys. A batch of
`analyzePosts` is `List` (the request, its `findMany` and the first reading of the engine),
then `Score` and `Scored` and `Store` for each post, and `BatchAnswers`; `by` is the posts'
`analyzedBy`. `calm` is history: nobody disturbed this batch. `Publish` and
`SetAiAnalysisEnabled` are the requests it races, `StatementFails` a refused statement.
In `Engagements` a request is one step of the table, and its answer is true of the table at
that step: a 404 or a lost race (500) too.

## 3. What the runs check

| run | what it asks | size |
|---|---|---|
| `event_registry` | two connections, one posted event, one replay thread: `NoEventMissed`, `PostSurvives`, `HealthCountsListeners` | two tags with a filter on both, so that a registration and a sweep have a middle; two connections, so that one sweep meets another's registration |
| `event_stream` | one reader, two events of a feed and a posted one into a queue of two: `InThreadOrder`, `Mailboxes` (refinement), `ReplayPlaysOut` under fairness | three events overflow the queue; a filter repeats a tag |
| `customer_rounds` | `MemoryTells`, `Rounds` (refinement), and under fairness `KeepsListening`, `ChildIsStopped` | four events, one of a tag that was not asked for; a queue and a socket of one event, so that both overflow and a break has a prefix to leave; two personas, so that a round has a middle; one ticket at a time on its way after its reaction was given up |
| `gateway_calls` | two calls, a crash, a disk that fails, dry run on and off: what lands, as whom, with which record; `GuardsCalls` (refinement) | three servers: whole-server allow with a deny, login plus setup with a public write, and a disabled one |
| `gateway_liveness` | `StatusTellsBringUp`, and under fairness `EveryWaitEnds` (setup and calls) | one call of every kind, unclassified tools after a restart |
| `ceo_programs` | `HandedOver`, `ExitTells`, `SeedsOnce`, and under fairness `ProgramEnds` | two runs of any two programs, so that a second seed meets an interrupted one; a sound registry, one with a disabled entry, one with an id twice; a sound role file and two that a bad pattern spoils (in the run's role, in another role) |
| `ceo_run` | `RecordMatchesTrace`, `WritesRepeatAfterRaiseOnly`, `EffectsAreTraced`, `ChecksAreTrue`, and `ChatReturns` under fairness | a read and the public write, two steps (so that there is a replan), two replies a step, two attempts a reply, dry run on and off, four calls at most, so that two of them may be attempts of one reply and two of another; failures inside an ok answer are left to `ceo_domain_error`, since the public write has none |
| `ceo_domain_error` | violation of `CompletedStepDidItsWork` | finding |
| `poller_recovers` | `NothingSkipped`, `HandledInOrder`, `ReactsToNewsOnly`, `ReadsInOrder` (refinement), and `CatchesUp` under fairness | five posts on pages of two, so that the walk spans three pages and the feed shifts; two failures and one kill, so that a retry can fail again |
| `poller_wedges` | violation of `RetryGetsThere` | finding |
| `tickets_store` | one ticket, three calls of both processes, a kill: `FiledWhole`, `SnapshotIsLastEntry`, `AnswerIsTrue`, `Ledger` (refinement), `LockReleased` under fairness | six patches: two that race for the status, two scores with methods, one that takes the method away, one that breaks NOT NULL |
| `social_posts` | `AnswersAddUp`, `EngagesAtOnce` (refinement), `BatchTells` | three requests, so that two race for a row a third one made, or two batches while a like goes on; two posts, so that a batch has a middle; one user and one table, since rows are independent |

Every property of a passing run has a mutant in `PROJECT.json`: a bug one could write
in the mapped code, under which TLC reports that property violated in the same run.

Bounds are CONSTANTS whose comment says "bound of the model" and which stand in guards:
`MaxPosts`, `MaxSeq`, `MaxCrashes`, `MaxFailures`, `MaxTickets`, `MaxRuns`, `MaxCalls`, `MaxLate`, `WireSize`, `MaxCount` (a
saturating counter: two comments are as bad as three). The actors are used once each (connections,
replays, calls, requests), which bounds histories. Deadlock is not checked where the system may really stop:
every client has been served (event generator), every call was answered and the bridge is
closed (gateway), `chat` has returned (CEO), every call or request has returned (tickets, social network), the last run has
ended (programs), the agent waits for an event nobody emits (customer). It is checked for the poller, which
never stops: even a wedged one goes on failing (`PollFails`).

Fairness. `EventGenerator`: threads are scheduled and handlers that have begun go on (weak);
nothing is assumed of clients or of the `_offer` callbacks, for which no emitter waits.
`CustomerAgent`: the server's stream and the driver's task go on, model and ticket calls return or
raise (both clients have timeouts), the ten seconds of `shutdown()` pass; no connection has to
succeed and no event has to be emitted. Weak fairness of `Client` takes it that a dead connection is
noticed: the stream is read without a timeout (`event_client.py:42`), so that one whose peer is gone
without a word is waited on for ever, and of this `KeepsListening` says nothing. `Gateway`: weak fairness of setup and of `AnswerFails`,
because every request of the MCP client carries a read timeout; nothing is assumed of
servers. `CeoAgent`: weak fairness of the agent's step, because the model's client and the gateway answer
or raise (`EveryWaitEnds`). `CeoPrograms`: both threads are scheduled and `chat()` returns (`ChatReturns`);
nothing is assumed of the seeding, whose requests carry no timeout. `InfluencerPoller`: weak fairness of the poller's own step (the loop of `start`
never ends and the container restarts); failures and kills are bounded, which is what
"failures that end" means. `TicketStore`: weak fairness of each call's steps.

### Findings

1. *A failed call is recorded as a completed step* (`ceo_domain_error`): a server that says
   `{"error": ...}` inside a successful answer. `tests/test_gateway_bridge.py` describes the
   function that catches this at the adapter; `gateway_bridge.py` does not have it.
2. *A retry wedges on its own repost* (`poller_wedges`): 409 on every later cycle. The torn
   cursor file is a second wedge, and `CatchesUp` shows that there is no third.

Other disagreements between text and code, which the models contain and no run of their own shows:

- A replay can die of a KeyError: the broker tests a key and looks it up again
  (`event_broker.py:37-39`), and the last listener of the tag leaves in between, since no emitter
  takes the lock of which `server.py:53-56` speaks. `CopyListeners` has this outcome,
  `ReplayPlaysOut` allows for it and `PostSurvives` shows that posted events are spared.
- A connection that is dropped before its stream begins stays registered and is counted by `/health`
  for ever (`Abandon`), against "current subscriber count" and "until the client disconnects, which is
  also what unsubscribes it" (`server.py:16`, `159-160`): `HealthCountsListeners` claims nothing of it.
- The executor sends a write again after an exception. The adapter says that a write is not idempotent,
  because "a retried write could double-fire a side effect" (`gateway_bridge.py:135-136`), but the result
  that `tool_executor.py:93-94` makes of an exception says nothing, and the default is True
  (`tool_base.py:15`). `Router.call_tool` says that it never raises; `run()` can all the same: an answer
  that cannot be read (`connection.py:219-224` is behind the guarded request), a task that was
  cancelled, an argument named `self`. `WritesRepeatAfterRaiseOnly` shows that nothing else has a
  write carried out twice for one reply.
- A dry run holds back every write (`router.py:377-388`, with the reason), against `main.py:71-74`, where
  it holds back the public ones "while reads and support writes still run for real".
  `OnlyGrantedLands` follows the router.
- When the lifecycle task has died, its sessions are cleared (`connection.py:300`) and the router goes
  on to answer: `get_status` (`router.py:241-247`) still says connected, and calls fail with "was skipped
  at startup" (`router.py:413`), which they were not. `StatusTellsBringUp` is what remains true.
- A filing writes two entries, `created` and `sentiment_scored`, against
  `Customer_Support_API_Endpoints.md:35` ("one activity-log entry") and the example of
  `Customer_Support_System/README.md:200`, which has no score. `FiledWhole` and `Ledger` follow the code.
- A like or repost that loses the race for its row is answered with 500, against the 409 of
  `engagementService.ts:12` and `31`; `AnswersAddUp` and `Engagements` accept both.
- Posts are sorted by `createdAt` (`postService.ts:64-71`), and two of the same moment may become visible
  the other way round: the poller then passes over the older one. `Publish` takes the two orders to be
  the same.
- Posts come twice when one is published between two page requests, without any failure, against
  `WALKTHROUGH.md:204`; `HandledInOrder` therefore speaks of the first reaction to a post.
- Two patches may log a change from the same stale value (`storage.py:285`), so that consecutive
  entries of a history need not connect, against `Customer_Support_API_Endpoints.md:12`. What
  remains true is `SnapshotIsLastEntry`.
- The SIGTERM handler of the customer agent stops the child and never the driver: the process
  goes on until it is killed (`ChildIsStopped` is about the child only).
- A bare cancellation ends `_lifecycle` without setting `_ready`, and the constructor of the bridge
  waits for ever: the exception that `ProgramEnds` names.
- An interrupted seed is never completed (any ticket found skips it), and two simultaneous runs
  of `main()` may both seed: `SeedsOnce` is about runs one after the other.
- A disabled server makes `check` exit with 1 always (`ExitTells` compares with every entry), and
  `check` exits with 0 over a server whose post-login setup failed: it asks for connections only.
- `validate_against_catalog` says that a renamed tool stays hidden; under a whole-server allow the
  new name is granted as soon as it is classified (`CatalogError` stops it until then).
- A reply of the model with several tool calls has only the first carried out
  (`CEO_Agent.py:767-769`), and the plan remembered after a run is what is left of it
  (`CEO_Agent.py:661-667`).

## 4. What is proved

TLAPS checks the theorems below for every value of the constants, under the named
assumptions of each module (`AgentAssumption` and the like: budgets are positive, sets of
names are disjoint, finite sequences are sequences). All speak of `Spec`, without fairness.
Each proof module defines the inductive invariant, proves it from `Init` and over every
action, and derives the theorems; the parts are named for what they say. Every invariant and
every refinement that a run checks is stated by one of these theorems. Where no run lists
`TypeOK`, `TypeCorrect` proves it.

- **EventGeneratorProofs** (`TypeCorrect`, `ImplementsMailboxes`, `PostsSurvive`, `HealthIsRight`,
  `OrderIsKept`, `NothingIsMissed`, `OnlyDropsAreMissing`, `ReplayGetsOn`).
  `TypeInv` types the state. `BoxInv` says that a queue holds exactly the end of what was
  offered; with it each `Offer` and `Yield` is a step of `BoundedMailbox` and everything
  else a stutter. `LoopInv` says that one handler at most is inside its registration or
  sweep, and none while the loop emits: the tag that an emit on the loop has found is still
  there at the second lookup, which nothing grants to a replay thread.
  `RegistryInv` describes the registered tags of a connection in the middle of its
  subscription or sweep; `HealthCountsListeners` alone says nothing of those states. The last two
  theorems follow an event from its stamp to the offer: `OnceInv`, no one is registered or called
  twice; `NumberInv`, a listener that is still to be called has not been handed this number, nor a later one of
  this thread; `OrderInv`, what waits for the loop continues what was offered; `MissInv`, whom a
  running emit has not called is still on its copy, which holds everyone `RegistryInv` says is there.
  `OnlyDropsAreMissing` puts them together with the mailboxes: with no drop counted, an event that was
  asked for is in the stream, in the queue or in a callback.
- **CustomerAgentProofs** (`TypeCorrect`, `MemoriesTell`, `WorksInRounds`, `NothingForgotten`,
  `TeardownIsBounded`). `FeedInv`: what was heard,
  what is on the wire and what is queued are one ascending sequence, so that no break, prefix or
  resubscription hears an event again. `TicketInv`: a persona whose turn is still to come has no
  ticket about the current event; `LateInv`: a request that was given up has no ticket yet, and its
  persona's turn is over; `MemoryInv` relates what is remembered to the tickets and to
  what was heard. With them every step is one of `CrisisRounds` or a stutter. `WhereInv` keeps the
  books of the feed: an event that was emitted and asked for is in exactly one place.
- **GatewayProofs** (`TypeCorrect`, `OnlyGranted`, `CallsAreAudited`, `StatusTells`,
  `LandsIdentified`, `Implements`, `SetupIsBounded`, `AnswersAreFinal`). `SetupInv` follows
  bring-up: which servers have a session and a status at each position of `connect_all`, and
  that the far end of a session that needed a login is identified or gone; and that no session is left
  once the lifecycle task has ended.
  `RouterInv` follows one call: what was decided before it was sent still holds of what lies
  on the wire and of what has landed, though the catalogue, the sessions and the server
  may have changed since.
- **CeoProgramsProofs** (`TypeCorrect`, `HandsOver`, `ExitsTell`, `SeedsOnlyOnce`, `RunsAreBounded`).
  `ProgInv` says where both threads can be at once, `BringInv` what bring-up has done by each of its
  steps, `HandInv` what `_ready`, `_closed` and `_setup_error` mean, `ExitInv` and `SeedInv` how
  programs end and what the queue has of the list. The exit code compares a number of connected servers
  with the number of entries; that it stands for *every* server rests on a lemma that distinct ids are as
  many as the entries (a bijection). `WaitInv` gives each wait of the main thread its cause on the
  other one: the run cannot stand still in one, but for the cancellation that `WaitsAreMet` names.
- **CeoAgentProofs** (`TypeCorrect`, `RecordIsTrue`, `OnlyRaisesRepeatWrites`, `TraceIsComplete`,
  `ChecksTell`, `ChatIsBounded`, `UsesGuardedCalls`). `FreshInv`: no attempt is made before its turn, so an attempt is a call that
  `GuardedCalls` has not seen. `AnswerInv`: what an answer says of effects, and that only the
  attempt under way is pending. `TraceInv` and `OrderInv`: calls and entries correspond, in
  order; `RetryInv`: a further attempt of a reply is at a read, or the one before it has raised; the checks are about entries, the promises about calls, and this is the bridge.
- **InfluencerPollerProofs** (`TypeCorrect`, `NeverSkips`, `PublishOrder`, `OnlyNews`,
  `ImplementsReader`, `CyclesArrive`). `FoundInv`:
  what the walk has collected has no gap, though the feed shifts between pages and posts come
  twice; `PageInv`: the next page begins no later than it ends. `BatchInv` turns that into
  "everything up to the post in hand was dealt with", `SaveInv` carries it to the write of the
  cursor, and `HistoryInv` relates the cursor to what was ever dealt with. With them each await of
  a cycle is a step of `NewsReader` or a stutter: the post in hand is due, although the batch was
  read from pages that shifted. `AimInv` follows the newest post of the first page to the write of
  the cursor: that is where a cycle arrives that nothing disturbs.
- **TicketStoreProofs** (`TypeCorrect`, `FiledAtomically`, `LastEntryTells`, `AnswersAreTrue`,
  `ImplementsLedger`, `WorkIsBounded`). `DraftInv`: the draft's log extends the committed one, and without a writer
  the two databases are equal. For each call, `LockInv` says when it holds the lock, and `LoopInv`,
  `CreateInv` and `PatchInv` which entries it has written and which are still owed; the stale row may differ from the ticket, but a
  field is updated only together with its entry, and that is what `SnapshotIsLastEntry` needs.
- **SocialPostsProofs** (`TypeCorrect`, `EngagementsAddUp`, `Linearizable`, `BatchesTell`). For the engagements a step is
  one of six (nothing, asked, moved, created, deleted, a batch's), and `StepsAre` says so for every
  action. `Balanced` counts successes of a row by cardinality; `Engaged`, that whoever is about to delete has
  seen the row, hence an add that succeeded, is what makes a lost race imply a winner.
  `Working` describes a batch in the middle: the posts it has dealt with are counted, none of them
  is unscored, and while it is calm no other batch runs and all of them carry the active engine.

The refinements are proved in full: `Mailboxes`, `Rounds`, `GuardsCalls`, `Ledger`, `ReadsInOrder`
and `EngagesAtOnce` hold for every size. `GuardedCalls` stands between two of them: the gateway
implements it (`Implements`), and the agent with its calls is a behaviour of it (`UsesGuardedCalls`),
so what is proved of `CeoAgent` rests on the specification and not on the gateway's code.

Liveness under fairness is beyond the prover, but most of its argument is not. For each of the
eight temporal properties a theorem proves what is left when fairness is taken away: a measure with
a bound, or a book of places, which the component's own steps move in one direction and nobody
else's step takes back.

| property | theorem | what moves one way |
|---|---|---|
| `ChatReturns` | `ChatIsBounded` | `Position`, up to `Budget`: steps, replies and attempts as one number |
| `LockReleased` | `WorkIsBounded` | `Rank(c)`, from 12 to 0, and whoever holds the lock is above 0 |
| `ProgramEnds` | `RunsAreBounded` | `Stage`, of both threads together; no wait is in vain but the one that is excepted |
| `ChildIsStopped` | `TeardownIsBounded` | `Teardown`: signal, end, exit |
| `ReplayPlaysOut` | `ReplayGetsOn` | the place in the feed, the place in the emit, the listeners left |
| `EveryWaitEnds` | `SetupIsBounded`, `AnswersAreFinal` | `SetupPlace`, up to `SetupEnd`; a call's answer stays |
| `CatchesUp` | `CyclesArrive` | `Phase`, then `Rest`: pages and reactions to come; failures and kills, which throw a cycle back, are counted up to their bounds |
| `KeepsListening` | `NothingForgotten` | no measure, as listening does not end: every event has its place |

Only model-checked: that these measures reach their end, which is everything under fairness
(`ReplayPlaysOut`, `EveryWaitEnds`, `ChatReturns`, `CatchesUp`, `LockReleased`, `KeepsListening`,
`ChildIsStopped`, `ProgramEnds`), and that a step which must come is enabled. The two findings are
counterexamples of TLC.

## 5. What is left out

- What the language models, the embedding service, the vector store and NeMo do: a
  reply is any reply of its type.
- Presentation: dashboards, the web client, the terminal UI, logging, rendered prompts.
- Wire formats: JSON, SSE framing, HTTP status codes beyond the ones the caller branches on.
- Reads of the support store (listings, counts): single SELECTs of committed data.
- The CEO's mail, memory and document services: nothing in the repository serves the mail API, and
  `main.py` leaves its tools out; the `MemoryStore` that it builds adds text to a prompt, and may raise
  (`Raise` of `CeoAgent`).
- `validate_against_catalog`: what it finds is printed and changes nothing.
- The customer agent's function behind `nat mcp serve`: the same decision in the child process, with a
  memory of its own that the driver's never meets.
- `Router.call_tool` in `CeoPrograms` and bring-up steps inside a server there: they are `Gateway`'s.
- Pure functions of stored rows (`analyticsService.ts`, `score_sentiment`, the lexicon): tables and
  arithmetic without control; the models take their answers from sets.
- Accounts, follows and search of the social network: check-then-write on unique rows, the shape
  `SocialPosts` models for engagement. Hashtags, mentions and quotes of posts.
- `reset()` and `register()` of the CEO agent, the wiring of `main.py`, interactive input.
- `TicketLedger` exempts a score whose method was set to null: the code's entry then names the
  method the ticket had before (`storage.py:199`, listed as a hazard).

## 6. Plan

Done, in this order, the most entangled first: `EventGenerator`, `Gateway`, `InfluencerPoller`,
`TicketStore`, `CeoAgent`, `CustomerAgent`, `GatewayFiles` and `CeoPrograms`, `SocialPosts`, each with
its proofs. What would come next:

1. `McpSessions` (`httpTransport.ts`): the session map with restarts, as the peer `Gateway` assumes.
2. Pure algorithms against reference definitions over bounded inputs: `score_sentiment`,
   cohorts, spikes and the trend metrics of `analyticsService.ts`.
3. Proofs of the next layer: `Gateway` over an explicit session map.
