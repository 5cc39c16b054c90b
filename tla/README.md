# TLA+ verification of RealmMesh

RealmMesh is a C++ game backend: a client proves its identity, waits in a
queue, is admitted to a gateway, has its account fetched and is handed to a
realm, where it plays in scenes and talks in chat channels. This directory holds
TLA+ models of the parts where state is shared between processes or threads, TLC
configurations that check them on small instances, and TLAPS proofs for every
value of the constants.

Paths below are relative to `src/`.

## 1. The system and its parts

| part | state | operations | talks to | what is hard |
|---|---|---|---|---|
| Queue scheduler (`game/queue`) | released and next number, release ledger; in etcd one snapshot key and a leased issuance key per identity | issue or recover a number, release frame, budget poll, query, progress, start, stop | etcd, HTTP clients | answers lost after the write, crash between write and answer, writes applied late, wall clock stepping back |
| Admission consumption (`game/gateway/src/admission_consumption_store.cpp`) | one etcd record per identity: state, owner, fencing, expiry, lease | reserve, commit, release, each a load and a compare-and-put with retries | all gateways through etcd | two gateways on one record, lost answers, take-over, clock skew, a stale frame time |
| Credentials (`game/common`, `game/realm`) | times, signing keys, the replay guard of tickets | issue and check at each host | every service of a login | clocks apart, key rotation, expiry between two checks |
| Edge runtime (`framework/edge`) | connection table, bounded inbound and outbound queue, I/O thread | send, accept, decline, close, poll, publish, stop | transports, one service thread | two threads between any two queue operations, queues at their limit |
| Gateway login pipeline (`game/gateway`) | a session per connection: stage, intent, attempt, reservation; fetch budget | the phases of `advance()` | edge runtime, work pool, admission | late completions, full queues, disconnects in every phase, an accept that may or may not be queued |
| Work pool (`framework/concurrency`) | queue, running, completed, cancel marks | submit, drain, cancel, stop, worker loop | owner thread, N workers | cancel between the two critical sections of a worker, stop |
| Login verify, HTTP server (`game/login_verify`, `framework/network/src/http`) | connections, tokens of deferred answers | parse, dispatch, defer, complete, sweep | clients, work pool | descriptors given out again, pipelining, deadlines, answers after a close |
| Realm sessions and frame (`game/realm`) | online index, sessions, requests waiting for data | enter, displace, close, train, create, select, complete | pool, player data, chat, scenes | accesses that outlive their session, cached characters behind the database, restart |
| Player data (`game/common/src/player_data_store.cpp`) | accounts, characters, schema markers, scene records | conditional writes, migrations, bootstrap, provisioning | MongoDB | several services starting at once, uncertain writes |
| Realm scenes, scene service | bindings of sessions to shards, members, shard records | select, move, transfer, recover, leave, drain | scene processes, player data | uncertain transactions, a lost service, versions and epochs |
| Realm chat, chat service | links, memberships and generations, receipts, pushes | hello, join, leave, send, drain | one link per realm | link replacement, retries, pushes racing replies |
| Cluster (`framework/cluster`) | registration, lease, leased keys, watch, published budgets | register, refresh, put, watch, publish | etcd | refresh against put, timed-out puts, watch against poll |
| Service host and mesh (`framework/service_host`) | phase of the process, services up | start in waves, frames, shutdown | the registry | a start that fails half way |
| Client (`game/client`, `framework/network/src/client`) | stage of the login, credentials, transport race, realm session | login chain, connect, call, wait for notices | all services | retry against deadlines, the loser of the race, late answers |
| Transports (`framework/network`) | per session buffers, poll sets, event queues | poll, send, close, callbacks | kernel, TLS, MsQuic | half-close, hidden TLS input, callback threads, full queues |
| Logger (`framework/observability`) | two queues, workers, pending count, sink | log, flush, reconfigure, shutdown | every thread | full queues, failing sink, flush against log, destructor |

`PROJECT.json` lists these parts and the ones not modelled under `components`,
and under `hazards` the lines where each difficulty bites, with the properties
that watch them.

## 2. Modules

| module | models | composes |
|---|---|---|
| `QueueScheduler` | the queue service against etcd | |
| `ConsumptionStore` | abstract: the atomic store of one identity's record | |
| `AdmissionConsumption` | the same record over etcd, several gateways | refines `ConsumptionStore` |
| `Credentials`, `CredentialChain` | the checks of a token; a login that passes them host by host | EXTENDS |
| `BoundedWorkPool` | the work pool | INSTANCEd by `GatewayLogin`, `RealmSessions`, `LoginVerify` |
| `EdgeRuntime` | I/O thread, connection table, queues | |
| `GatewayLogin` | `advance()` over edge runtime and pool | EXTENDS `EdgeRuntime` |
| `PlayerData` | the database operations on accounts and characters | |
| `RealmSessions`, `RealmFrame` | sessions and data accesses; the frame, starting services, provisioning | EXTEND each other and `PlayerData` |
| `SceneStore`, `SceneService`, `RealmScenes` | scene records; the shards; the coroutines of the realm | EXTEND each other |
| `ChatService`, `RealmChat` | the channel; the realm's side and its peer thread | EXTENDS |
| `ServiceRegistry`, `MeshHost` | one service's registration, budgets and watch; the process around it | EXTENDS |
| `TransportRace`, `LoginClient`, `RealmClient`, `Client` | the connector; the login chain; the realm session; the whole client | EXTEND each other |
| `TransportContract` | abstract: what a transport promises of one session | |
| `TlsConnection`, `TlsTransport`, `QuicTransport`, `Transports` | the two transports under one polling thread | `Transports` refines `TransportContract` |
| `HttpServer`, `LoginVerify` | the HTTP server; the service with its deferred answers | EXTENDS, INSTANCE `BoundedWorkPool` |
| `Logger` | log, queues, workers, sink, flush, shutdown | |
| `*Proofs` | theorems | EXTEND the modules they are about (`GatewayEdgeProofs`: `AdmissionConsumption`, `CredentialChain` and `Transports`; `LoginPathProofs`: `LoginVerify` and `QueueScheduler`; `MeshProofs` and `RealmProofs` likewise more than one) |
| `MC*` | constants and symmetry for TLC; unions of two specifications | |

Definitions with a comment that starts with "Mutant of" are broken variants of
the definition they name; they take no part in the specifications. They are
substituted one at a time to show that each property depends on the code.

How state and actions correspond to the code:

* **QueueScheduler.** The process is single threaded, so a request or a frame is
  one step, split by what etcd did: `IssueAnswered`, `IssueUnanswered` (the write
  was applied, was not, or will be later; the read-back finds the mapping or sets
  `uncertain`), `IssueWithoutLease`; `ReleaseSaved`, `ReleaseNotSaved`,
  `ReleaseNothing`, `ReleaseClockBack`. `Crash` may follow any of them. `core` is
  `QueueCore`, `snap` and `issuance` the etcd keys, `late` the writes whose sender
  gave up. `clock` is elapsed time (leases), `Wall` the system clock, which
  `ClockSet` moves back by up to `MaxStepBack`. `tokens`, `grants` and `progress`
  are what clients hold.
* **AdmissionConsumption.** An attempt is one attach on some gateway. A call walks
  through `load`, `grant` (of the lease) and `wait` (its put is in `put`); `Execute`
  applies the put, also after the caller gave up or died. A missed comparison
  loads again up to `MaxTries`. `now[a]` is the frame's time: a clock ahead by
  `Skew[a]`, older than the present by up to `MaxStall`. A second is
  `RetentionSlack` units. The abstract store does each call in one step.
* **Credentials.** A credential is its times and its key. Every host has a clock
  within the leeway of the others. The operator changes the grants' key by the
  steps of `docs/operations/admission-cutover.md`; the realm's replay guard forgets
  tickets that are over.
* **BoundedWorkPool.** Each operation under the mutex is one action; a job is
  `running` between the two critical sections of the worker.
* **EdgeRuntime, GatewayLogin.** The I/O thread processes commands, polls, and
  publishes what it collected; the service thread takes `advance()` phase by
  phase, one step per loop body; each acts between any two steps of the other.
  Deadlines carry no number: one that is set may have passed in any frame. The
  verdicts of the credential checks, the store and the fetch are free. `grant`
  records what was done with each admission handle.
* **PlayerData, RealmSessions, RealmFrame.** One database operation is one step;
  an operation that makes several is several. A data access goes through the pool:
  queued, under way on a worker (its calls to the database one by one), completed,
  drained. An access whose session is gone runs on. `told` is what clients were
  told of characters.
* **RealmScenes, SceneService, SceneStore.** A job is a coroutine, the code between
  two waits one step. A request to a scene service is two steps: a worker reads the
  shard record, the frame merges what was read and lets the shard act.
* **RealmChat, ChatService.** The frame thread and the peer's thread share the call
  queue, completions, pushes and the revision. A tick of the service takes events,
  runs a round of requests, sends replies before pushes. A connection is two FIFO
  streams whose end is an element of the stream.
* **ServiceRegistry, MeshHost.** The frame thread registers and puts while the
  registry's worker refreshes the lease; a request to etcd is answered, or fails
  and is applied now, later or never.
* **Client.** The chain is one thread; services answer, fail, or act without
  answering; time is the set of deadlines that have run out. Then the application
  calls and waits over one of the two chat channels. The realm is one slot of it:
  a send of another membership, or one that meets a call of the slot, is rejected
  whatever became of its first copy; one that was submitted comes back with a
  receipt, or as rejected or unknown with the membership ended (`Receipt`,
  `NoReceipt`). `Told` is what `send_chat` returns of it: the session remembers one
  send whose outcome was unknown, and does not pass on its later rejection.
* **Transports.** The steps of a poll are separate, so peers and MsQuic's callbacks
  act in between. What a peer wrote is a length in units, a frame `FrameSize` of
  them; what OpenSSL has pulled beyond what was read is invisible to the event loop.
  A poll hands frames to the service, and `Answer` takes the answer in any later
  rest between polls, the first or the hundredth: the chat service answers before
  it polls again, the edge runtime's answers are commands of another thread
  (`edge_runtime.cpp:183-191`, `:208-234`), which may find the session of a
  half-closed peer closed by then.
* **HttpServer, LoginVerify.** A client follows a script; a request is one unit of
  its stream, or two with a body. `parse_and_dispatch` takes one request per step.
  Descriptors come back after a close, tokens never do.
* **Logger.** An event is a number and its queue. `pending` counts what is between
  the call and the write; the sink keeps a buffer until it is flushed.

## 3. Runs

| run | instance | checks |
|---|---|---|
| `QueueScheduler` | 2 identities, numbers to 3, time to 3, lost answers, crashes; fair | `UniqueNumbers`, `RestartAccepted`, `ReleasesKept`, `EventuallyReleased` |
| `QueueFaults` | a late write, clock back by 1 | `StableNumber` |
| `AdmissionConsumption` | 3 attempts, one owner reused, skew 1, stall 1, slack 3, 2 tries; one login over skewed hosts | `AtMostOnce`, `ConsumedForGood`, `ActsAtomically` (refinement), `RedeemedOnce`, `GoodAccepted` |
| `GatewayLogin` | 2 connections, 1 fetch slot, inbound and outbound queue of 1, 1 retry, failing I/O loop, stop | `Accounting`, `HandlesSettled`, `NoReleaseAfterCommit` |
| `GatewayLive` | 2 connections, 1 session allowed, moving peers, inbound queue that never overflows; fair, deadlock checked | `ConnectionsMatched`, `EventuallySettled` |
| `Realm` | 2 accounts, 2 characters, 1 name, 2 sessions, 2 workers, 1 fault, 2 trainings a character, 5 messages; symmetry | `ExperienceSound`, `TrueReplies`, `SessionsSound`, `RosterSound` |
| `Chat` | 2 characters, 2 requests, 1 fault, 2 connections; a logger with 2 producers and queues of 1 | `NothingMissed`, `AcceptedOnce`, `NoOrphanMember`, `AcceptedIsKept` |
| `Scenes` | 2 sessions of a character, 2 shards, 2 instances, 1 fault | `ActiveCommitted`, `AnswersTrue`, `NoGhost`, `LiveNotReleased` |
| `ServiceRegistry` | up to 3 services, 2 leases, 2 incarnations, 2 budget changes, 1 fault; fair | `ReadyMeansComplete`, `WholeOrDown`, `ShownWhileRunning`, `EventuallyResolved` |
| `Client` | 2 faults, 2 memberships, 3 sends, 3 calls; fair | `NeverShownAgain`, `TlsTried`, `NothingSkipped`, `EventuallyEnds` |
| `Transports` | 5 TLS peers and 4 QUIC peers, one group at a time; fair | `KeepsContract` (refinement), `HeardOut`, `EventuallyCarried` |
| `LoginVerify` | 2 clients over one connection slot; fair | `OwnAnswers`, `EventuallyAnswered` |

All hold. `Realm` (1.2 million distinct states) and `Client` (1.4 million) take one to
two minutes with two workers. Two modules check the union of two specifications
(`MCAdmissionConsumption`: the record, or a login; `MCChat`: the chat, or a logger): a
behaviour is of one of them.

What the properties say, where the name does not:

* `RestartAccepted`: the snapshot in etcd is one the next start loads.
  `ReleasesKept`: a release somebody saw stays, with its time. `StableNumber`: an
  identity that asks again gets its number.
* `Accounting`: the fetch budget equals the reservations of the sessions;
  sessions, attempts and pool agree on every attempt. `HandlesSettled`: every
  admission handle is settled, also in a pipeline that failed or was destroyed.
  `ConnectionsMatched`: pipeline and runtime agree on the connections.
* `ExperienceSound`: the experience stored is what the rule gives for the trainings
  counted, and a step counts one training or none: a write that is repeated, or that
  a displaced session left behind, neither takes two trainings back to one nor counts
  one again. `TrueReplies`: what a client was told of a character is, or was, in the
  database. `RosterSound`: selections, names, the limit of characters.
  `SessionsSound`: the online index and the sessions agree, a busy session has
  exactly one data access.
* `NothingMissed`: what is on its way to an active member is what the channel
  accepted after its watermark, without a hole. `AcceptedOnce`: a send is accepted
  once, and ACCEPTED comes with the receipt of that message.
* `NoGhost`: a member shown by a scene is the character's binding or its removal
  is under way. `AnswersTrue`: refused means never written, ok means written.
* `ReadyMeansComplete`: a resolver is ready only with all the watch knows.
  `WholeOrDown`: frames run only in a complete process; a host that goes down takes
  no service away from one that stays.
* `NeverShownAgain`: a credential refused for good is not presented again.
  `TlsTried`: a connect fails for the network only after TLS was tried.
  `NothingSkipped`: no chat message is left out or given twice. Nothing is claimed of
  rejected sends: section 5.
* `HeardOut`: a half-closed peer is heard out: its session is closed only when all its
  complete frames were handed to the service, so that a service that answers a frame
  when it is given it still reaches the peer. An answer that comes polls later may not.
* `OwnAnswers`: a client gets the answers to its own requests, in order; after the
  first refusal of the protocol (400, 431) nothing but refusals.
* `AcceptedIsKept`: an accepted event is out of the process once a later flush
  returns true or the destructor ends, and the counters account for every event.

**Why the bounds are enough for what they show.** Queue: two identities are the
holders a duplicate number needs; time 3 lets a batch be released, its window and
leeway run out, the batch be pruned and a mapping's lease end. In `QueueFaults`
the lease outlives the identity by 1, the amount the clock may step back.
Admission: a holder, one that takes over, one that reuses the owner; two tries
allow one missed comparison. Gateway: two connections compete for a fetch slot, an
outbound slot and, in `GatewayLive`, the session limit; the inbound queue of 1
overflows. Realm: two sessions displace each other; the second account exists so
that names collide. Two trainings and five messages are what the stale write of a
displaced session needs to be seen: the first session selects and asks for a
training that stays under way, the second, which has displaced it, selects and
trains twice, and then the first write is made: without the filter on the sequence
in `TrainingMatches` it takes the second training back, which the run finds. A
creation always meets the limit in this run; the characters that a successful one
adds are left to the theorems. Chat: `MaxTogether` bounds clients plus faults plus twice the
requests. Scenes: one fault, after the first request; merged steps touch nothing
another process reads. Transports: the peers differ in budget, frames and what
they do wrong; a peer without a reading budget sends frames too (the fifth); and one
group is in play per behaviour. LoginVerify: one descriptor
is given out again to the other client.

`CHECK_DEADLOCK` is off where clients stop, time is bounded or a process may end;
it is on in `GatewayLive`.

## 4. Fairness

* Queue: the release loop and the budget poll run on timers; etcd answers a save,
  and budgets are positive, infinitely often (strong fairness of `ReleaseSaved`, or
  of `ReleaseClockBack`, which ends the process instead). Nothing is assumed of
  clients, crashes or time.
* Gateway: frame loop, I/O loop and workers run; a fetch that stays due is due in
  some frame, since its retry delay is finite.
* Registry: starting, stopping, frames, calls to etcd and the poll loop go on; a
  put under a live lease that is tried again and again is answered once (strong
  fairness of `PutLive`); a lease nobody refreshes runs out.
* Client: the chain, the race and the clock go on; the queue releases the number;
  a window and an attach that stay possible take place (strong fairness of
  `CloseWindow`, `Stale`).
* Transports: polling and handling go on, and a peer reads what was written to it.
* Login verify: the loop serves every ready descriptor again and again, accepts,
  and the workers run; clients read.

## 5. What the models found

None of these is a run of its own; each is reproduced by the constants or the
definition named.

* **Rejected after accepted.** The peer thread sends the frame of a SEND again at half
  its deadline (`game/realm/src/chat_peer.cpp:101-110`). The copy that meets the first
  one in the service (`game/chat/src/chat_channels.cpp:120-128`) is answered BUSY, the
  realm tells the client REJECTED, and the first copy is accepted:
  `RejectedNotAccepted` of `RealmChat`, as an invariant of the run `Chat`, fails,
  against `docs/specs/2026-10-23-chat-reference-loop.md:100`. What the client does
  keep is that a send once returned as unknown is not returned as rejected when it is
  tried again (`docs/protocol.md:413-414`): the theorem `UnknownOutcomeStays`.
* **Silent end of a membership.** `finish` clears a slot whose revision has moved
  without a ChatUnavailable (`game/realm/src/realm_chat.cpp:577-585`). The client finds
  out at its next state query or send; `Leave` of `RealmClient` has both cases.
* **Queue clock.** `MaxStepBack = 2`, `Leeway = 1`: `UniqueNumbers` fails. After
  such a step `restore` (`game/queue/src/queue_ticketing.cpp:80`) throws after the
  transaction was committed, the core keeps its old `next_number` and gives the
  committed number out again; `docs/adr/0006` says allocation never continues from
  an old watermark.
* **Late queue write.** `MaxLate = 1`: `UniqueNumbers` fails. A snapshot put that
  timed out takes `next_number` in etcd back (`queue_store.cpp:537`).
* **Clock skew at admission.** `Until = 3`, `MaxSkew = 3`, `MaxStall = 0`,
  `MaxTime = 6`: `AtMostOnce` fails, because the record lives until `consume_until`
  by its writer's clock plus one second (`admission_consumption_store.cpp:252`).
* **Lost Closed event.** `Conns = {1}`, `InboundCapacity = 1`: a Closed event that
  finds the inbound queue full is lost and its session stays, against the comments
  at `edge_runtime.cpp:228` and `:410`.
* **End ahead of its beginning.** `MaxBatch = 2` with `Moves`: `ConnectionsMatched`
  fails. A ConnectionClosed that `finish_close` publishes from within `poll_events`
  (`edge_runtime.cpp:375`) precedes the Opened still in the batch (`:187`); the
  session it opens is never removed and keeps a place of `conn_capacity`.
* **Second refusal.** A connection that was refused (400) keeps reading while its
  output is pending, and an overrun of the input appends a 431 behind it
  (`http_server.cpp:124-153`, `:270-280`). The instance of the run is too small for
  it; the proof of `OwnAnswers` met it, and the property allows for it.
* **Ghost after a second binding.** `realm_scenes.cpp:970-975` overwrites the entry
  of a session that was bound to the same shard twice; `LeavesNoMember` fails, and
  `NoGhost` excepts it. The `peer_generation` read between the answer to ACTIVATE
  and the resumption has the same effect.
* **Registry.** A refresh whose later put fails revokes the new lease together with
  the key already moved to it (`etcd_service_registry.cpp:384`, against the comment
  at 374-375); a `put_leased` racing a refresh lands under the old lease (426-428);
  a `poll_once` may overtake the first delivery of a watch (`overtaken`).
* **Service host.** A first registration that fails with `required = false` ends
  the whole process, against `docs/operations/admission-cutover.md:106` and
  `configs/common/discovery.lua:4-6`.
* **Replay guard.** A restart of the realm forgets which tickets were redeemed;
  `RedeemedOnce` is claimed for a realm that is not restarted.
* **Logger.** `set_min_severity` loads, copies and stores; of two concurrent
  reconfigurations one is lost.

## 6. Proofs

Each theorem is for every value of the constants that satisfies the `ASSUME`s of
its module (types, signs, finiteness); TLC evaluates those assumptions in the runs.
Further hypotheses are in the theorems and listed here.

| theorem | statement | beyond the module's assumptions |
|---|---|---|
| `LoginPathProofs!TypeCorrect` | `[]TypeOK` | |
| `NumbersUnique` | `[]UniqueNumbers` | `MaxStepBack <= Leeway`, `MaxLate = 0` |
| `RestartSafe` | `[]RestartAccepted` | the same |
| `ReleasesStay` | `ReleasesKept` | `MaxLate = 0` |
| `NumberStays` | `[]StableNumber` | each lease outlives its identity by `MaxStepBack` |
| `AnswersAreOwn` | `[]OwnAnswers` | |
| `GatewayEdgeProofs!TypeCorrect` | `[]TypeOK` | |
| `ConsumedStays` | `ConsumedForGood` | |
| `AdmittedOnce` | `[]AtMostOnce` | `MaxSkew + MaxStall < RetentionSlack` |
| `Implements` | `ActsAtomically`, the refinement of `ConsumptionStore` | |
| `Redeemed`, `CredentialsAccepted` | `[]RedeemedOnce`, `[]GoodAccepted` | |
| `GatewayLoginProofs!AccountsComeOut`, `HandlesAreSettled`, `CommitIsFinal` | `[]Accounting`, `[]HandlesSettled`, `NoReleaseAfterCommit` | |
| `ConnectionsAgree` | `[]ConnectionsMatched` | `InOrder`: no step drops an event at a full inbound queue or publishes an end ahead of its Opened |
| `RealmProofs!ExperienceIsSound`, `RepliesAreTrue`, `RosterIsSound`, `SessionsAreSound` | the four properties of the run | |
| `ClientProofs!NothingIsShownAgain`, `TlsIsTried`, `NothingIsSkipped`, `UnknownOutcomeStays` | `[]NeverShownAgain`, `[]TlsTried`, `[]NothingSkipped`, `UnknownStays` | |
| `MeshProofs!WholeOrGoesDown`, `ReadyIsComplete` | `[]WholeOrDown`, `[]ReadyMeansComplete` | |
| `AcceptedKept` | `[]AcceptedIsKept` | |
| `GatewayEdgeProofs!Invariant` | `[]IInv` of the transports, from which the next two follow | |
| `KeepsTheContract` | `KeepsContract`, the refinement of `TransportContract` | |
| `IsHeardOut` | `[]HeardOut` | |
| `ScenesProofs!Invariant` | `[]IInv`, from which the next three follow | |
| `ShowsCommitted` | `[]ActiveCommitted` | |
| `AnswersHold` | `[]AnswersTrue` | |
| `CommandsOnce` | `[]OneResult`: the commits of one sequence number have one result | |
| `ChatProofs!Invariant` | `[]IInv`, from which the next follows | |
| `SendsOnce` | `[]AcceptedOnce` | |

The violations of section 5 show that the hypotheses of `NumbersUnique` and
`AdmittedOnce` cannot be dropped.

The inductive invariants, and why the properties need them:

* **Queue, uniqueness.** `UniqueNumbers` says nothing of a number that etcd holds
  and no client has seen. `UniqueInv` adds that core and snapshot are valid ledgers
  without a release from the future (`LedgersValid`, so that restore accepts them),
  that every number in a mapping or token is below `next` of the snapshot
  (`NumbersBelow`), that identities have different numbers (`NumbersDistinct`), and
  that a process that may still issue has etcd's `next_number` in memory (`InStep`).
* **Queue, releases and mappings.** `ReleasesStay` follows where each release was
  seen back to the ledger of the snapshot; `NumberStays` says that a token that is
  still valid has a mapping whose lease has not ended, or a late write of it.
* **Admission.** `ConsumedStays` rests on revisions: a put carries the revision it
  read, and a put on a consumed record is never sent. `OnceInv` adds that the leases
  of record, put and call outlast the credentials (`Retained`), what a put or a
  loaded record may be relative to the record (`Puts`, `Calls`), that the newest
  fencing is in the record with its owner (`Fenced`), that a won commit left it
  consumed (`Won`), that one attempt at a time acts under an owner (`Solo`), and that
  after an admission the record is consumed for it (`Admitted`). `Implements` maps
  the record that etcd holds to that of the atomic store: `Execute` of a put whose
  comparison holds is the abstract call, at the time the caller read; all other
  steps stutter or let the record lapse.
* **Credentials.** A redeemed ticket is in the guard or over by the realm's clock;
  each credential was issued before the present and ends with the one it came from;
  the verifying keys contain the signing key until its last grant is over.
* **Gateway.** Four parts: types; a connection is opened once and a session holds a
  handle only while its accept is pending; the budget as a cardinality; the pool,
  with the session that waits for each attempt. `Conns` may be infinite.
  For `ConnectionsMatched` two more: visiting the events on their way, one after the
  other, turns the open sessions into those of the live connections, with room for
  every one that is opened (`StreamOk`); and of the commands on their way an accept is
  ahead of a send (`CommandsOk`). `InOrder` is an action property that the proof
  assumes beside `Spec`: `Drops` is a full inbound queue, `Overtakes` the case of
  section 5. Commands stay in order without it.
* **Realm.** `Inv` is `DataInv` (documents, starting services, selections), kept by
  every operation of `PlayerData` whoever calls it, and `TablesInv` (sessions,
  accesses, pool, jobs). What an access read may be behind the database when it is
  used, and the proof rests on the database only growing (`Grows`), by one training
  at a time: what is told of a character (`Valid`) is a state the database has passed,
  and with `Counted` of both states a step is one training of the rule or none.
* **Login verify.** A client's flow, the answers it has read, those in the kernel
  and those of its connection, is in order and as long as the requests parsed, less
  the one awaited; a token that is awaited leads to the connection that awaits it.
* **Client.** `ChainInv`: while TLS has not been started, QUIC is still dialled or its
  result is the only one not looked at; where the chain waits with a grant or a
  number, it has not been refused. `RoomInv` relates the session to the realm: the
  notices that are queued end at the watermark and begin where the application
  stands (`Live`), and each message that is buffered or on its way is newer than
  either (`After`), in the order of the channel. A membership may change under what
  is buffered, so `After` speaks of the membership of the message and of the present
  one. `CallInv`: an answer on its way is the one to the call only if their ids
  agree, whatever the realm made of the request. `SaidInv`: what was returned as
  unknown last is the send the session remembers as `unknown`. The realm may end a
  membership, reject or lose any send; neither theorem depends on its answers.
* **Mesh.** The waves of a list that was accepted put every service behind what it
  needs: that the recursion of `Settled` has a solution, and that its rounds only
  grow, is proved by least counterexamples. `MeshInv`: a service is begun only when
  those before it are up, so that with the order none is on its way up beside the
  one whose turn it is; a service that is up stays registered until the process goes
  down. `ResolverInv`: without an overtaking poll, what was found at first is handed
  over first, and what the resolver has is what the watch knows but while a
  difference is handed over.
* **Logger.** Where an accepted event is (queue, hand of a worker, sink), how far
  the destructor is, what `pending` and the counters count.
* **Transports.** The events on their way to the service (`inbox`, then `events` or
  the batch of the poll) are followed one after the other (`Flow`): each is a step of
  the contract when those before it have been handled. `QuicReported` and
  `TlsReported` tie what was and will be told of a session to its connection: what
  has been opened, which frames were taken out, what has ended; a callback then
  appends an event that fits, and the service removes the first. The contract's
  `givenUp` grows only when no event is handled, so every other step is `GiveUp` or
  a stutter. `TlsEnd` adds that all that was read is reported and that a connection
  marked `peer_closed` was read to its end: it is closed in the poll only when the
  batch holds no message of it, which is what `HeardOut` needs; answers come in any
  rest between polls and change none of this. `PollOk`
  says who is serviced and closed in the present poll. The peers are finitely many
  (`SetToSeq` orders the sessions a poll closes), the QUIC peers need not be.
* **Scenes.** `ActiveCommitted` and `AnswersTrue` speak of what has arrived; the
  invariant says the same of everything on its way to them, measured by `committed`,
  the history of the commits, which only grows. The record of the character and the
  writes in `limbo`, whose sender does not know whether they were applied, agree with
  that history (`StoreOk`). A job, which waits where the coroutine waits, sends an
  ACTIVATE or CONFIRM only of a place in the history (`SessionsOk`), and so do calls
  that a scene process serves after their sender has given up (`LateOk`) and the
  members, active, prepared and candidates, that it holds (`MembersOk`). A member is
  prepared before its write, so it need not be in the history until it is activated.
  Requests are told apart by the number of their job, and a number that was answered
  with a refusal has no write, neither done, nor in `limbo`, nor left to a job that
  still holds it, which is cancelled (`IdsOk`): a deadline may run out while the job is
  about to write, and then only "unknown" is answered. Shards and instances may be
  infinitely many; sessions are any number.
* **Chat.** A send is told apart by the generation of its membership and its number,
  so the proof follows the generations. One whose JOIN was not sent yet has taken no
  effect and is nobody else's (`GenerationOk`); one whose JOIN is on its way on a link
  of the service has, once it took effect, been passed by the highest that this
  connection has seen, so that a second copy is refused (`Spent`); a frame of a link
  that was replaced, or of an earlier life of the service, is refused because the
  links that were issued differ (`Issued`). So a member is installed once under its
  generation (`OneEach`), its last number bounds those in the log, and a repeated
  number is answered with the receipt kept (`MemberOk`). For what clients are told,
  a request under the id of the present try carries the number, text and generation
  of the call that waits, and a reply answers the call only under that id
  (`RequestOk`, `ReplyOk`). Memberships end by time-outs, crashes and replaced links
  at any point of this; no bound on retries or faults is used.

## 7. Only model-checked

Liveness (every `Eventually…` and `ShownWhileRunning`) and `ENABLED` are out of the
prover's reach. Not proved: of `Chat` `NothingMissed` and `NoOrphanMember`, which
relate the service's members to the slots of the realm and count what is on the way
in both directions, across revisions of the link; of `Scenes` `NoGhost` and
`LiveNotReleased`, which say that somebody still has to act and so need what every
coroutine, the drain and the topology will do next, besides the history that
`ScenesProofs` follows. No module declares a RECURSIVE operator that a theorem needs.

## 8. Not modelled, and limits of the models

* Left out: signatures and encodings; configuration loading; metrics and traces;
  the load generator and operator tools (the drain of a scene instance is an action);
  gateway credential ingress beyond its verdict.
* Transports: handshakes and credential reload; bytes within a frame; the kernel,
  OpenSSL and MsQuic are the environment. A TLS send failure gives no Closed event;
  a QUIC session whose Opened was dropped may still produce events, which the edge
  runtime ignores.
* HTTP: the status codes 413, 500 and 505 are not told apart, and a connection that was
  reset fails somewhat earlier than in the code; `reject_and_close` may drop its 400 when the output is full; a deadline may
  expire at any time.
* Gateway: `ConnectionsMatched` is claimed for an inbound queue that does not
  overflow and for ends that do not overtake (section 5): `GatewayLive` has
  `MaxBatch = 1`, which excludes the latter, and the theorem's `InOrder` names both.
* Admission: a response of etcd without `succeeded` counts as failed
  (`admission_consumption_store.cpp:688`), although `queue_store.cpp:594` says that a
  false one may be left out; the model allows both outcomes for every request.
* Realm: scene and chat work of a frame is in their own modules.
* Scenes: one character; the stream of scene events and the static mode.
* Chat: one channel, one slot per session. Client: one of two channels, no scene
  notices; a candidate list of QUIC alone, which spins, is excluded.
* Mesh: the registrations of services other than `Own` are free choices.
* Logger: texts, sampling, module levels; what spdlog does with an exception of its
  sink is external.

## 9. Plan

Proofs still to be written, in this order: `RealmChat` (`NoOrphanMember`, then
`NothingMissed`, from the invariant of `ChatProofs` and a part that says which slot,
request or end of a link stands for each member of the service); `RealmScenes`
(`NoGhost`, from the invariant of `ScenesProofs` and a part that says which job,
cleanup or drain still has to retire a member).
