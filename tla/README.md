# Vesta: a TLA+ verification project

Vesta runs personal agents in containers. A gateway (`vestad`, Rust) manages the
containers and serves the clients; in each container an agent process
(`agent/core`, Python, one asyncio event loop) drives a CLI that talks to the model;
clients (`apps`, TypeScript) show what the agents do. This directory models the parts
where the order of events decides whether a message is lost, repeated or never
shown, checks them with TLC, and proves their safety properties with TLAPS.

Section 1 is the inventory of the system, 2 to 7 the components modelled (the agent's turn
engine, the feed from the agent to the clients, and four parts of the clients with the services they talk
to), 8 what the checks found, 9 what is not modelled, 10 the plan.

## 1. Inventory

| Component | State | Operations | Correct when |
|---|---|---|---|
| Turn engine (`agent/core/loops.py`, `client.py`, `helpers.py`, `tools.py`) | notification files; `queued_paths`, the snoozed batch, the turn queue, the pending list, the in-flight files, the open turn | monitor tick, turn start, query, result, preempt, clear, restart tools | a file is removed only once the CLI has its content; nothing is stranded, nothing repeated without cause |
| Agent start and stop (`main.py`, `state_store.py`, `lifecycle.py`, `migrations.py`) | persisted state, boot inbox, `boot_turns_pending` | boot, SIGTERM, crash | boot turns run first and are counted exactly; the restart reason is neither lost nor repeated |
| Event bus and agent WebSocket (`events.py`, `api.py`) | subscriber queues of bounded size, event history | emit, subscribe, evict, connect snapshot | a subscriber misses no event, or is told to start over |
| Poll loop and taps (`vestad/src/agent_status.rs`) | roster cache, one listener per running agent, activity | poll, connect, read, abort | cached state follows the agent, and goes with it |
| Sync hub and `/sync` session (`vestad/src/sync/*`) | pending set per agent, per session the last-sent roster, gateway branch and pending sets | seed, apply, forget; snapshot, deltas | what a client shows is what the gateway holds |
| Client replica and socket (`apps/core/src/replica`, `transport`) | the tree, the socket, a held reauth | snapshot, delta, reconnect | the tree equals the gateway's diff base |
| Presence and devices (`sync/presence.rs`, `user_context.rs`, `device_registry.rs`) | contexts per connection, page-opens awaiting confirmation | record, disconnect, confirm after the settle window | one notice per real return of the user |
| Self-update (`update.rs`, `operation.rs`) | operation slot, ledger file, binary | check, swap, restart, recover at boot | at most one operation; every interrupted update is reported once |
| Maintenance and backup (`maintenance.rs`, `backup.rs`, `restic.rs`) | snapshots, write guard per agent | nightly snapshot, prune, compact | no agent is rebuilt while it works or is being changed |
| Chat (`apps/core/src/chat`; the app-chat daemon's `service.py`, `store.py`) | the rows shown, the ids they cover, sends without echo, the cursor of older pages, replies being typed out; the daemon's rows and remembered intents | live event, seed, older page, trim, send, retry, remount | each message once, in reach, and none lost to a gap of the socket |
| Attachments (`apps/core/src/attachments`, `holds`; the daemon's `attachments.py`) | drafts, sources and engines; per id a session file, a stage, a blob and a record | add, remove, retry, send; create, chunk, probe, complete, sweep | what shows as uploaded is whole on the service; nothing outlives its draft |
| Token session (`apps/core/src/session`, `apps/mobile/src/session`, `device-context`; `vestad/src/auth.rs`) | the connection in memory and in the secure store, the refresh in flight; the gateway's refresh-token families | refresh, sign-in, sign-out, relaunch, background refresh, adoption; rotate | no loss of a message or of a write signs the user out |
| Voice (`apps/core/src/voice`) | the engine session, the microphone's starts, the floor, the text said, the plays | start, end, frames, pause, resume, stop, read-aloud | the microphone is on only for a session; nothing is said twice, one voice plays |

The remaining parts (provider sign-in, notification rules, model proxies, tunnel, egress,
settings, other skills, user interfaces) are listed in
`PROJECT.json` with the reason they are left out: they are I/O with external programs,
parsing and formatting, or request routing.

How the parts interact. A producer (a skill's daemon, the agent itself, the gateway)
renames a file into the agent's notifications directory. The *monitor* of the turn
engine finds it, routes it by the user's rules, announces it on the event bus and
queues a turn; the *processor* hands turns to the CLI one at a time; the *queue watcher*
hands over late arrivals while a turn runs. Removing the file is announced too. The gateway
*taps* every running agent's event socket, keeps a pending set per agent in the *hub*,
and each client's `/sync` session sends a snapshot and then differences. Beside that feed a client
talks to services inside the container through the gateway: the app-chat daemon (messages, history,
uploads) and the voice engine. The tokens every request carries are kept alive by the client's session.

What is hard here: three coroutines of the agent share lists across awaits; the CLI's
answers carry no identity; a query can time out after its bytes have gone; the process can be
killed, told to stop, or lose its sign-in at any point; files named after a night are
created again under the same name; every link from the agent's disk to the client's screen is a
cache filled by a snapshot and kept by deltas, whose two ends restart separately, and
which evicts when it is slow. In the clients, a socket that replays nothing is joined to pages
fetched beside it; requests are repeated after an answer was lost while the first may still be carried out;
two writers rotate the tokens of one login; and a microphone that answers after any delay is shared by
sessions that begin and end meanwhile. `PROJECT.json` lists these hazards at their lines.

## 2. The turn engine: `AgentTurns`, `Mailbox`, `AgentTurnsProofs`, `AgentQueuesProofs`

### State and actions

An asyncio task gives up control at awaits only, so **one action is the code between two
awaits**. `phase` is the processor's program counter:

| `phase` | the processor is |
|---|---|
| `down`, `off`, `opening`, `dead` | not running; running without a provider; opening the CLI session; ended by a failed session |
| `idle`, `loop` | waiting for the queue; between two turns of a batch |
| `sending`, `waiting` | in `client.query`; awaiting the open turn's done event |
| `closing`, `done`, `post` | past `converse`; turn task finished; back from a preempt after the turn finished |
| `saving`, `failed` | saving a crash reason; turn task finished with a failure |
| `spin` | fetching and putting back turns during a shutdown, without suspending |

`LoopFree` is true where another task can run; every action of another task has it as a guard.

| Actions | Code |
|---|---|
| `Write`, `MonitorTick`, `MonitorRoute` | producers; `monitor_loop` up to and after the await in `_scan_notifications`: core files dropped, `queued_paths` pruned, files loaded, routed, trashed, announced, queued, snoozed batch flushed |
| `ClientConnects` | the connect snapshot of `_ws_handler`: a client is shown every file in the directory (section 3 has it in detail) |
| `OpenSession`, `SessionFails`, `TakeTurn`, `PutBack`, `Spin`, `DeferTurn`, `StartTurn`, `BatchDone` | `message_processor`, `_run_messages_with_preempts` |
| `QueryDelivered`, `QueryFails`, `TurnFails`, `FailureSaved`, `TurnCloses`, `DashCorrection`, `TurnEnds`, `PostTurn` | `_run_one_turn`, `process_message`, `converse` and the clean-up after the turn |
| `WatcherSends`, `WatcherQueues`, `PreemptDelivered`, `PreemptFails` | `_watch_queue_during_turn`, `send_preempt` |
| `CliStarts`, `CliMessage`, `CliCompacts`, `CliResult`, `AuthLost`, `LifecycleTool` | `consume_stream`, `_dispatch_message`, the restart and stop tools; the CLI itself is external |
| `SignOut`, `SignIn`, `Sigterm`, `SecondSignal`, `MainShutdown`, `Kill`, `Boot` | provider routes, signal handler, `run_vesta`, `async_main` |

Data is reduced to what the properties tell apart: a notification is the pair of its path
and a count of files created under that path; a turn is its set of notifications and whether
it is a non-interruptible boot turn. A query in doubt is a nondeterministic choice: the CLI got it
or not. The history variables (`delivered`, `redelivered`, `discarded`,
`toolCleared`, `excused`, `failedTurns`) guard nothing.

`Mailbox` is what the agent promises a producer: a message waits until it is handed over
or discarded. `AgentTurns` refines it (`MailboxSpec`): what arrived is everything written,
what waits is what is on disk, what is settled was delivered, discarded, or cleared by a
restart tool.

### Properties

- `NothingLost`: everything written is on disk or settled. `MailboxSpec` is the stronger
  step-by-step form.
- `NoneStranded`: a file the monitor believes to be queued is really held by some queue.
- `RedeliveryExcused`: the CLI gets a notification twice only if a send was in doubt, the
  process went down or signed out under it, or its turn failed.
- `BootCountExact`, `BootFirst`: the boot count is the number of non-interruptible boot turns left;
  no notification overtakes them.
- `ShownIsOnDisk`: what a client shows, from a listing or from an event, is on disk: every removal of a notification
  is announced. Files that do not parse are excepted; they are removed without an event (section 8, `loops.py:97`).
- `EventuallyHandled`: no file stays for ever, unless the shutdown wedges the event loop (a finding).
- `Custody`: the inductive invariant, below.

### Runs

| Run | Instance | Shows |
|---|---|---|
| `turns` | chat (interrupts) and mail (snoozed or trashed), a boot of one or two turns, one fault | the six invariants and the refinement |
| `turns_core` | a chat message, an unparseable file, a dream and a proactive check, two boot turns, one CLI turn of its own | `NoneStranded` and `ShownIsOnDisk` with core files and an unparseable one, `BootFirst` |
| `turns_live` | chat and mail, any two faults, fairness | `EventuallyHandled`; `Custody` and `RedeliveryExcused` over several restarts |
| `shutdown_wedge` | one message and a SIGTERM, fairness | a finding, section 8 |

Bounds. Two external paths give two turns, which is what a preempt and a running turn need; the
proofs cover any number. `MaxFaults` counts kills, signals, failed sends, turns and sessions, and
sign-outs; two are enough for a fault during the recovery from another. `MaxWrites` is the number of
files created per name (one in the runs; the proofs cover reused names), `GraceTicks` the number
of idle ticks before a snoozed batch is flushed (the code counts seconds), and `MaxCliRuns` bounds what
the CLI starts by itself.

Fairness is weak, on each step that some task performs whenever it is ready: the event loop runs
every ready task, the monitor has a timer, the CLI answers what it accepted (or the response timeout
ends the turn), a signed-out user signs in again and the client restarts the agent, and
the container's restart policy starts a stopped agent. No fault is fair.

### What is proved

For every set of paths, core, dream and unparseable files, all
routings, boot batches, and bounds on faults, files and CLI runs that satisfy the three
assumptions of `AgentTurns`:

| Theorem | Statement |
|---|---|
| `TypeCorrect`, `CustodyHolds` | `Spec => []TypeOK`, `Spec => []Custody` |
| `ImplementsMailbox`, `NothingIsLost` | `Spec => MailboxSpec`, `Spec => []NothingLost` |
| `RemovalsAnnounced` | `Spec => []ShownIsOnDisk` |
| `RepeatsExcused` | `Spec => []RedeliveryExcused` |
| `BootTurnsCounted` | `Spec => []BootCountExact` |
| `NothingStranded` | `Spec => []NoneStranded`, when each name is used once |
| `BootTurnsFirst` | `Spec => []BootFirst`, when no boot turn can be interrupted |

The first four are in `AgentTurnsProofs`, the others in `AgentQueuesProofs`, which builds on them.

`NothingLost` is not inductive: it does not say why `PostTurn` may unlink the in-flight files. The
strengthening, `Custody`, has four parts:

- `WaitingOnDisk`: what waits in memory, is in flight or is about to be routed has its file on disk;
- `WaitingKnown`: the monitor knows what waits, so it will not queue it again;
- `HeldOnce`: no notification waits in two places, so clearing one turn's files
  never takes another's;
- `TurnAccounted`: the running turn's messages are in flight or settled, and past the query the CLI
  has them unless `undelivered` says otherwise.

`CustodyNext` combines one lemma per family of actions: those that move no message
(`CustodyQuiet`), that move one between queues (`CustodyMoves`), that clear files
(`CustodyClears`), the process's life (`CustodyProcess`), new files (`CustodyFiles`) and the
monitor's routing (`CustodyRoute`). They rest on lemmas on the messages of a sequence of
turns (`SeqMsgs...`), on the two sections of a batch (`SectionsSplit`) and on the content of paths.
`MailboxStep` shows that each step is a step of `Mailbox` or leaves it alone, and
`NothingIsLost` follows from the refinement.

`AgentQueuesProofs` sorts the steps by what they do to the queues (`StepKinds`: quiet, move a turn, clear files, end
the process, boot, write, tick, route), with one frame lemma per kind. Each property is then kept by most kinds at once, and
only the steps that really touch it are looked at alone. Every argument uses `Custody` and `Stages` (between
batches nothing is pending; a process that is down holds nothing), and one invariant of its own:

- `Announced`: what clients are shown is on disk and in `queued_paths`.
- `Excusable`: a message that was delivered and is on disk still may be repeated, or is in flight
  (`Repeats`). It needs that no message is newer than its file (`Dated`: a name created anew is a new message), and that
  what the running turn no longer has in flight has left the disk (`TurnLeft`).
- `BootCount`: the count of boot turns in the queue, the batch, the late arrivals and the open turn, with lemmas on
  what appending, taking and putting back does to the number of boot turns in a sequence.
- `Tracked`: while the process stays up and signed in, a file in `queued_paths` is held, and a name that was seen is used. Under a name that is
  created again this is false (section 8, `loops.py:698`), hence the hypothesis, which the runs satisfy too. Skills'
  producers put a time or an id into the name; dreams are the exception.
- `BootOrder`: pending turns precede queued ones, boot turns precede the others, and boot turns carry no
  notification. A migration's boot turn may be interrupted, and then a notification does overtake it, as the
  code means it to: the theorem assumes a batch without one, as the run `turns_core` has it.

Only model-checked: liveness (`EventuallyHandled`; `ShutdownCompletes` is refuted), out of the prover's reach.

## 3. The sync feed: `SyncFeed`, `SyncFeedProofs`

### State and actions

| Link | State | Actions |
|---|---|---|
| agent | `disk` (files), `told` (announced by this process), `container` | `Arrive`, `Announce`, `ClearFile`, `UnlinkUnparsed`, `AgentRestart`, `Container` (Docker, external) |
| bus and tap | `tap` (listener), `sub` (its subscriber queue), `snap` (the listing under way) | `TapConnect`, `TapSnapshot`, `TapSeed`, `TapApply`, `TapLost` |
| gateway | `agents` (polled roster), `hub` (pending per agent), `gateway` | `Poll`, `GatewayChange` |
| session | `lastRoster`, `lastGateway`, `lastPending`, `bumped` (the watch channel's unseen mark), `wire` | `Subscribe`, `SendSnapshot`, `EmitRoster`, `EmitNotifications`, `Disconnect` |
| client | `tree` | `Receive` |

The order of the code is kept: the agent subscribes a tap before it lists the directory; a session
subscribes before it reads, and reads the roster before, the pending sets after, the await that builds
the gateway branch; a full subscriber queue becomes a single eviction mark; the poll loop
publishes the roster before it aborts and opens taps; an aborted listener that is past its
read still applies the event.

Abstractions: a pending list is the set of its ids (order and the fields of an entry
appear only in that a reseed may count as a change); an agent's row is its status; the gateway
branch is a number. Frames wait on `wire`; at `WireMax` unread frames the session is taken to be
suspended in a send. A connection that is lost is lost at both ends: half-open sockets, and a
restart of the gateway itself, are not modelled. `Steady` agents run throughout (their process may
restart, their taps may break); the others are created, started, stopped and deleted by users. `Malformed` names files
that do not parse: a listing contains them, no event announces them or tells of their unlink. The poll loop always gets
Docker's answer; a listing that fails, or a running agent whose port cannot be read for one round
(`agent_status.rs:788-798`), would close its tap until the next round and is left out.

### Properties and runs

- `ReplicaMirrorsSent`: once the frames under way are read, the client's rows and gateway branch
  are exactly those the session compares with.
- `HubTracksAgent`: a live tap with nothing left to read holds everything announced and not cleared, and nothing that has
  left the disk but `Malformed` files.
- `SteadyAgree`: with nothing under way, the client shows for a steady agent exactly what the
  gateway holds.
- `EventuallyShown`: when changes stop, the client shows exactly the agents there are and the parseable files on the
  steady agents' disks; of the others it may keep what a listing showed (section 8).

| Run | Instance | Shows |
|---|---|---|
| `sync_churn` | a steady agent, one that comes and goes, one id, two changes, fairness | `ReplicaMirrorsSent`, `SteadyAgree`, `EventuallyShown`, types |
| `sync_steady` | one steady agent, two ids and a file that does not parse, queue of one event, two changes, two faults, fairness | `HubTracksAgent`, `SteadyAgree` and `EventuallyShown` through evictions, restarts, lost taps and sessions |

Bounds. `SubMax = 1` makes the second unread event an eviction (the code's limit is larger; the
branch is the same); `WireMax = 1` makes the session wait for its client. Two changes
write a file while the other agent comes or goes, or let it come and go; two faults are enough to break a
tap while another link recovers. Deadlock is not checked: when nothing changes any more, the system rests.

Fairness is weak: the poll loop and the session's keepalive run on timers, taps redial, clients reconnect,
the monitor ticks, and what is queued is read. Changes and faults are not fair.

### What is proved

`SyncFeedProofs`, for any finite roster (the gateway's roster and the frames of one delta are laid out in some order,
`SetToSeq`, which only a finite set has), any notifications, limits and bounds:

| Theorem | Statement |
|---|---|
| `FeedTypes` | `Spec => []TypeOK` |
| `HubFollows` | `Spec => []HubTracksAgent` |
| `ReplicaMirrors` | `Spec => []ReplicaMirrorsSent` |
| `SteadyAgrees` | `Spec => []SteadyAgree` |

What a queue of events or frames amounts to is decided by the last of its elements that speaks of a matter. The
invariants say what that element may be, and what holds when there is none:

- `Feeds`, of every tap: the last event about a notification says whether the agent still announces it; of those no
  event speaks of, the listing under way, and then the hub, is right already.
- `Mirror`: the last frame about a row, or about the gateway branch, says what the session recorded as sent; where
  there is none, the client's tree says it.
- `Steadies`, of every steady agent: it stays on each roster and, once a snapshot is read, on the screen (`Stays`); the last
  frame about its pending set agrees with the recorded one, and a hub that holds something else has the session's
  mark set (`Agree`).

`Incoming`, the tree after all frames under way, is a recursive function of the frames. That it is what the last frames
say is shown by a least counterexample (`LeastNumber`, `UpTo`), from the library's well-foundedness of the naturals, in
place of an induction. `EventuallyShown` is liveness and stays with TLC.

## 4. The chat: `ChatSession`, `ChatSessionProofs`

One chat of one client. The daemon numbers its rows; the socket carries each new row to whoever is
subscribed at that moment and replays nothing; the history route answers pages. The session joins the
two by id.

| Part | State | Actions |
|---|---|---|
| daemon (`service.py`, `store.py`) | `log`, `seen` (intents it remembers, in memory), `live`, `wire` | `AgentReply`, `OtherSend`, `Subscribe`, `DaemonRestart`, `Intake` within the posts |
| link (`reconnecting-socket.ts`, the gateway's proxy) | `phase`, `sawOpen` | `Open`, `SocketLost` |
| stream model (`chat-stream-model.ts`) | `chat`: rows, `shownIds`, `pendingIntents`, `cursor`, `historyLoaded` | the folds `SeedTail`, `Confirm`, `CommitPacedChat`, `BeginSend`, `MarkSend`, `TrimTail`, `PrependPage`, `FoldLiveEvent` |
| session (`chat-session.ts`) | `queue` (replies being typed), `seeds` and `more` (fetches in flight), `retries`, `held` (seed retry timers and the handle of the newest) | `Receive`, `TypingDone`, `SeedReads`, `SeedLands`, `SeedFails`, `SeedRetry`, `LoadMore`, `MoreLands`, `TrimHistory` |
| sender (`chat-sender.ts`, `send-message.ts`) | `posts` | `Send`, `Retry`, `PostArrives`, `PostFails`; `Remount` and `OrphanArrives` for a session closed under its requests |

The gateway accepts a client's socket before it has dialled the daemon, so `Subscribe` may come before or
after the client's `Open`; the store is read anywhere between request and answer of a page. A row is its id,
its intent and its send state; texts are left out. Pacing is a preference read at each step, so both
branches are open.

Properties: `NoDuplicateRow` (no row beside its twin, no bubble beside its echo), `ToldIsReachable` (at rest every row of
the conversation is shown or lies below the cursor, but those of `Missed`), `NothingVanishes` (no step takes a row away
that loading older messages would not bring back, but a trim those newer than the oldest row it keeps), and in `TypeOK`
that a send has one request in flight at most.

`Missed` is what the client was never told: rows stored after its last page was read and before the daemon subscribed it
(the gateway opens the client's socket first, and the first open need not reseed), rows sent on a connection that was lost
before the client saw it open, and rows a reseed left in a hole (`Hole`): its page met only a row that had come in live
on the new connection. `told` records the others. Comments of the source promise that such gaps heal; section 8 lists
that, and what the trim loses, as divergences.

The properties hold while paging is in step with the rows. `crossed` records that it is not, for the reasons listed at
`OutOfStep`, and `TornByTrim` for the steps after a trim over rows out of id order; each is a way through the code the
model found. Among them is the cap on the rows (`capTail`): what is dropped above `maxMessages` lies above the cursor, so
no older page brings it back (`CapReached`). `told` and `crossed` are history only, so all behaviours after such a step are
explored too and only their properties are excepted.

Run `chat`: one send, two rows of others, pages of one row, a tail trimmed to two rows, one retry by hand
and one fault (socket, page, post, daemon restart or remount) at any point; 1.3 million states. Pages of one
row make every boundary between pages a boundary between rows, and with three rows a hole, an overlap and
an older page all occur. No fairness is needed; the system may rest, so deadlock is not checked.

### What is proved

`ChatSessionProofs`, for any intents, page size, cap, number of rows kept by a trim, rows, retries and faults:

| Theorem | Statement |
|---|---|
| `ChatInvariant` | `Spec => []ChatInv` |
| `ChatTypes` | `Spec => []TypeOK` |
| `NoDuplicates` | `Spec => []NoDuplicateRow` |
| `ToldReachable` | `Spec => []ToldIsReachable` |
| `RowsStayInReach` | `Spec => NothingVanishes` |

None of the three properties is inductive: whether a page may replace rows depends on what the connection still
carries, what waits to be typed and what else was asked for. `ChatInv` says of each what the next fold relies on:

- `LogOK`: an intent has one row at most for each time the daemon forgot it, which bounds the store; `WireOK`: the
  connection carries the newest rows in order; `SeedsOK`: before the first open there is one seed at most, and none once
  it has landed; `SendsOK`: a send has one request or outcome under way, and a failed bubble has none.
- `ChatOK`, of each row: it is as the store has it, and a bubble is one of a pending send. These hold always; what follows
  (`InStep`) only while paging is in step.
- `Single`: a pending send has its bubble and no row beside it, and no two rows are one message.
- `Stream`: what is shown or queued was noted in `shownIds`, the row at the cursor is shown, and what was noted can
  be reached; with the very first row queued nothing is missing (an empty tail takes a page and keeps a null cursor).
- `Covered`: what was told can be reached, waits in the queue, is on the connection, or a seed that reaches it is under way
  or will be: a retry is armed, or the session is down and its next open seeds.

The argument for a landing seed is the core (`SeedLandsInStep`). The page replaces the rows below it and moves the cursor
above all it drops; or it joins them, and then either its overlap closes the gap (but for a `Hole`, whose rows leave `told`)
or there are no older rows, and the cursor, which is at a shown row, lies above the page's first.

`Pick` (the rows a page leaves) and `CommitReplies` (a flush of the queue) are recursive functions; what they return is shown by a
least counterexample (`LeastNumber`, `UpTo`) in place of an induction. `PageSize`, `TrimKeep`, `MaxMessages` and `FlushThreshold` are
positive, as the source's are. `ChatInv` was checked with TLC on four instances before it was proved.

## 5. Attachments: `AttachmentUpload`, `AttachmentUploadProofs`

| Part | State | Actions |
|---|---|---|
| draft store (`draft-store.ts`, `keyed-hold.ts`) | `cell` (status per draft), `given` (the id an uploaded draft has), `store` (number, sources, handles) | `Add`, `Discard`, `Retry`, `RetryUnsourced`, `Send`, `Evict`, `Rebuild` |
| engine (`upload.ts`) | `run` (phase, id, offset, chunk size), `call` (its request) | `Opened`, `OpenFails`, `Answered`, `Lose`, `Unpark`, `Unsupported` |
| service (`attachments.py`, routes of `service.py`) | `disk` (session file, stage, blob, record per id), `minted`, `sent` | `Serve`, `ServeLate`, `Crash`, `Restart`, `Refuse`, `Sweep` |

An engine is a sequence of requests; `phase` names the one it awaits. A request moves through the service
in the steps other requests can come between: a chunk is checked, then appended; a completion looks for
the record, renames the stage, writes the record, removes the session file. A request nobody awaits any
more (`late`) is carried out all the same, as late as it likes. The file is a sequence of positions, so
that a chunk written twice or out of place shows.

Properties: `UploadedIsWhole` (what a draft offers or a message references is finalized, complete and in
order), `FailsForCause` (an upload fails only where the service has lost track of its id; any other loss, outage or lost answer
is retried), `RemoveStopsIt` (the engine at work for a draft is the one its X aborts), and under fairness `OrphanEnds` (no engine outlives its draft) and
`DraftSettles` (with the service up, no draft stays in between). Ids that were `harmed` are excepted from the
first two. There are three causes: the id was swept (`Swept`), a crash fell between its rename and its record (`Torn`), or two
requests of it were inside the service at once (`Overlap`), one the client had given up on and its repetition or the next.
The last is in the reach of a lost answer alone: a completion repeated while the first is between rename and record is
answered with an error and fails the draft, although the code calls it safe to retry (section 8).

Run `upload`: one draft, two engine runs, a file of three units in chunks of one or two, two faults; 55,000 states.
Two faults are a lost chunk and its late arrival in the middle of the recovery, or a crash and a
rebuilt store; chunks of one and two units let the chunk size shrink and grow. A second draft shares nothing with the
first but the send, and is beyond five minutes.

Fairness is weak, on what the code does by itself: the source opens, a park ends (timer, or the
connectivity edge once online), an answer is handled, a running service answers, a gateway without the
service refuses, and a device comes online again. The service need not restart: `DraftSettles` assumes
that it stays up from some point on.

`AttachmentUploadProofs` proves `TypeOK`, `UploadedIsWhole`, `FailsForCause` and `RemoveStopsIt` (theorems `UploadTypes`,
`UploadsAreWhole`, `FailuresHaveACause`, `RemoveAlwaysStops`) for any number of drafts, engines, sessions and faults, any
file size and any chunk sizes. `UploadedIsWhole` is not inductive: it says nothing of the files before an upload is
offered, nor of the requests that can still change them. The strengthening is `UploadInv`:

- `Owned`: every engine at work has the handle of its draft in the store in use, or is aborted.
- `Claims` (in `Whole`): a session belongs to one engine, from the moment the service mints it, even when the answer is lost.
- `Stages`: the files of an id that was not harmed are staged (a prefix of the file, no blob), moved (renamed, no record yet) or
  final; they go forward only.
- `Requests`: a request that was checked is still right when it is carried out, since an id that was not harmed has at most
  one request inside the service; this is what `Hurt` detects, and where the code's check and append in two steps matter.
- `Engines`, `Opening`, `Offered`, `Failures`: an engine is never ahead of the staged bytes, no answer it can still
  get makes it fail, and what is offered or sent is final.

`OrphanEnds` and `DraftSettles` are liveness and stay with TLC.

## 6. Tokens: `SessionTokens`, `SessionTokensProofs`

A login is a family of refresh tokens at the gateway, numbered in the order they are minted. `Rotate` is
`auth.rs`: the live token advances the family, the one before it is a retry and answers the live one again, any
other revokes the family. The app holds the connection twice, in `memory` and in `disk` (SecureStore), and
commits to the store before the memory; `disconnect` empties the memory and then awaits a clear of the store (`clearing`)
that a kill may cut short and whose failure nobody looks at (`leftover`). The background task has a session of its own over
the store. Time counts access-token lifetimes (`hour`); a clear, like a call, ends within one.

| Actions | Code |
|---|---|
| `RefreshStarts`, `RefreshAnswered`, `RefreshDenied`, `RefreshStores`, `RefreshCommits` | `ensureFresh`, `refresh`, `refreshConnection`; `commitConnection` on both sides of its await |
| `SignOut`, `StoreCleared`, `ConnectMinted`, `ConnectStores`, `ConnectCommits` | `disconnect` (its first half also ends `RefreshDenied`), `clearConnection`, `connectLink`, `mintConnection` |
| `TaskReads`, `TaskSends`, `TaskAnswered`, `TaskEnds` | `reportDeviceContextInBackground` |
| `Sleep`, `Wake`, `AdoptReads`, `AdoptLands`, `Relaunch` | the foreground listener and `adopt`; `restoreSession`; either read of the store may fail |
| `HourPasses` | the clock |

Properties: `GraceSuffices`, one step of grace is enough: whatever is lost, not stored or killed, no
login is revoked unless the background task has refreshed it at least twice; `NextLaunchContinues`, with no call and
no clear in flight an app that is signed in finds its login in the store, with a token the gateway takes, and one that is signed out
finds none, unless the clear failed or the store could not be read at launch (section 8 has what happens then). Sign-ins and
sign-outs that overlap a call are excepted from the second (`overlapped`), since the call writes after them.

Run `session`: two logins at one or two gateways (symmetric), two lifetimes, three faults; 3.7 million states. Two
lifetimes let two refreshes follow each other, by the app or the task, the second after the answer or the write of the first was
lost; the third fault is a kill or a failed clear or read on top of that; two logins are what a switch of gateways needs.
With `MaxHours = 3` and `MaxFaults = 2`, a third refresh in place of the third fault, the run passes too, in some
four minutes (11 million states). Run `background_strands` is a finding (section 8). Safety only: a user may never come back.

`SessionTokensProofs` proves the three properties of run `session` (`TokenTypes`, `OneRetryIsEnough`, `SameSession`) for any gateways
and any number of sign-ins, lifetimes and faults. The inductive invariant (`TokensInvariant`) counts the background task's
refreshes of a login:

- before the first, all expiring tokens of the login, in either copy or in a call, are the same one, and the fresh ones its
  successor (`Even`, `Rest`): whichever is presented, the others are one step behind;
- after the first, the store may be a step ahead of the memory, never behind it, and a live token is presented only when all
  others are live (`Once`, `Lead`);
- after the second, a token may be two steps behind and nothing is claimed. That is finding 2, not a weakness of the proof.

Beside it: the store is written before the memory, and what an adoption finds between the two (`StoreFirst`, `Crossing`); a
sign-in under way has its first token only (`Minted`); the grace is one step (`OneStep`). `SameSession` adds that
the copies belong to one login unless a sign-in or sign-out crossed a call, and that a signed-out app has an empty store but for
the named failures (`Together`, `OneLogin`).

## 7. Voice: `VoiceSession`, `PlayQueue`, `VoiceSessionProofs`

`VoiceSession` composes, over one microphone and one speaker, the behaviour model (`voice-session.ts`:
`Start`, `End`, `IdleTimerFires`, the turn callbacks), the engine session of each start
(`engine-session.ts`: `UrlReady`, `UrlFails`, `SocketOpens`, `StateFrame`, `EndedUnasked`), the serialized microphone
(`microphone.ts`: `MicStart`, `MicStop`, `MicSkip`, `PortReady`, `PortFails`), the read-aloud outside a session
(`tts-queue.ts`: `Speak`, `ReadAloud`, `PrepareFails`, `StopSpeech`), and the plays of a session, which are the module
`PlayQueue` (`play-queue.ts`: `Enqueue`, `UrlResolved`, `PlayStarted`, `PlayEnded`, `PlayFails`, pause, resume,
stop). A callback that runs in the task of its cause, or in that task's microtasks, is part of the same step; what waits for a
permission, a url, a socket or the speaker is a step of its own. The engine is the environment; it sends the
frames the client parses, in any order its protocol allows.

Properties: `MicOffWhenIdle`; `ActiveHearsUndisturbed` (an active session has the microphone, unless an earlier
start failed under it); `FloorReturned` (every way a session ends gives the floor back, and "listening" is
shown exactly in an active one); `SaidOnce` (nothing reaches the agent twice); `OneVoice`; `StoppedStaysSilent`
(a stopped play reports nothing).

Run `voice`: two starts, two segments of speech, two replies, two plays; 370,000 states. Two of each is
what a stale one and its successor need. Run `voice_deaf` is a finding (section 8). Safety only.

`VoiceSessionProofs` proves all properties of run `voice` for any number of starts, segments, replies and plays. The
inductive invariant `VInv` has a part for each thing that is shared: `Life` (only the current session is under way), `Line`
(a start waits in the microphone's chain exactly while its promise is pending, the newest attempt is the current
session's, and that session lost the microphone only to the failed start of another one), `Turns` (a segment is with one
holder and not yet sent), `Loops` (a running play loop holds the one play that is not stale), `Speaker` (a session's plays
end with it, read-aloud ends before one begins), `Replies`. `StopIsSilent` is the action property `StoppedStaysSilent`.

## 8. Findings

Each is a run that TLC refutes, of a sentence in the repository; `PROJECT.json` quotes it.

1. `shutdown_wedge` (`loops.py:321`): with turns pending, the processor puts them back and fetches them
   without suspending; the shutdown never runs.
2. `background_strands` (`SessionProvider.tsx:154`): after two background refreshes, the refresh that follows the
   foregrounding can start from the token in memory before the adoption has read the store; the gateway takes the
   token for a replay and revokes the login.
3. `voice_deaf` (`engine-session.ts:304`): a start that was stopped and fails late stops the microphone of
   the session that has begun since.

Divergences met while modelling, without a run of their own:

- `loops.py:698`: a dream consumed and dropped again within one monitor tick is still in `queued_paths`
  when that list is pruned, so it is not fresh and nobody queues it; the comment at `loops.py:536` expects it to
  be created anew. The runs of `NoneStranded` use each name once.
- `tools.py:32`: a restart tool called from work the CLI runs outside a turn deletes the files of the next turn. The
  theorems count a file cleared by a restart tool as settled.
- `loops.py:257`: a turn that fails after delivery is delivered again after the restart, because the shutdown cancels
  the processor before its clean-up; `RedeliveryExcused` counts the failed turn as an excuse.
- `handler.rs:346`: a stopped agent keeps its row, and its forgotten pending set produces no delta: connected
  clients go on showing it, although the comment at line 337 says `agent_removed` covers it.
- `handler.rs:136`: an agent that appears during the connect snapshot is recorded as sent without having been sent.
- `loops.py:97-99`: a file that does not parse is unlinked without `notification_cleared`, although the connect snapshot lists
  every file (`api.py:68-74`) and `events.py:218` says that pending is kept live by those events. A client that connected in
  between shows it until its next reseed, which nothing forces.
- `agent_status.rs:1093`: an aborted listener that is past its read re-creates the pending entry just dropped (`Poll`,
  last disjunct), until the agent's next reseed.
- `chat-stream-model.ts:62-64`: a reseed whose page overlaps only a row that came in live on the new connection is
  joined to the older rows over a hole that no cursor reaches (`Hole`), which the comment there means to exclude. The
  hole need not begin right below the page: the rows next to it may be held while older ones are missing.
- `chat-session.ts:90-92`, `chat-socket.ts:15-17` say that every gap of the socket is reconciled by a reseed. The gateway
  accepts the client's socket before it dials the daemon (`agent_proxy.rs:378`, `482`), so a row stored after the page of
  the (re)seed was read and before the daemon subscribed the client is on neither, and a first open may skip the reseed
  altogether (`chat-session.ts:234-237`). The row stays missing until a later reseed (`Missed`).
- `chat-stream-model.ts:262-266` says that after a trim `loadMore` "refetches exactly what was dropped". Rows can stand out of
  id order (a user's row comes in while an older reply is still being typed): a trim whose cut falls between two such rows
  drops one that is newer than the oldest it keeps, and paging starts below it (`NothingVanishes`, last disjunct).
- `chat-stream-model.ts:44-48`: the cap drops the oldest rows and leaves the cursor below them, so they cannot be paged
  to again (`CapReached`).
- `attachments.py:164-170`: two overlapping chunks can both pass the size check and both append, although the
  docstring says "instead of corrupting the stage"; `finalize`, said to be "Idempotent, so a lost response is retried
  safely" (`service.py:400`, `attachments.py:176-177`), answers a repetition that comes between its rename and its record with
  404 or 409, which fails the draft; a crash between record and removal of the session file
  leaves a finalized attachment to the sweep, referenced or not (lines 187-188, 277-280). The sweep also takes a finalized
  attachment whose draft has waited for a day and still shows as uploaded.
- `play-queue.ts:62-66`: a stale loop that reaches `resumed()` during a later pause overwrites the one resolver; the play
  waiting there is woken by no resume.
- `SessionProvider.tsx:102-105`: a sign-out empties the memory and then the store. A kill in between, or a delete that fails,
  leaves the login stored, and the next launch is signed in again; a denied refresh (`onExpired`) takes the same way. A
  read that fails at launch (lines 125-127) leaves the app disconnected over a stored login.
- `session-model.ts:21` says that the adoption never happens across a sign-out; `adopt` reads the memory before its await,
  so it does. A refresh that commits after a sign-out brings the connection back (`session.ts:219`).
- `state.rs:26` says that the previous token is honoured once; `rotate` honours it as often as it comes while it is the previous one.

## 9. Not modelled

The map covers a small share of the TypeScript in the repository. Of its 88,000 lines the larger part
renders (components, screens, styles of the web, desktop and mobile apps, the dashboards of skills), drives those
renderings in visual tests, or is scripts and generated UI kits; it keeps no state that another part
relies on. The state the views show is owned by `apps/core` and a few providers of the mobile app, and
of these the parts with concurrency, retries or recovery are modelled: replica and socket, chat, attachments,
tokens, voice. The system's other half, the agent (Python) and the gateway (Rust), is where the first two
models live.

Left out of the modelled parts: reauthentication over the sync socket and the deadline it sets
(`socket.ts:155`), forced refresh, hosted resume and recent gateways (`session.ts`), the bound on a chat subscriber's
queue, which drops its oldest event unannounced (`service.py:106`), the bound on remembered intents, media metadata and
previews of attachments, audio buffered before the voice socket opens and prefetched speech, the speaking state that the
app-chat daemon keeps for the agent. The web client starts a chat from an empty state where the mobile one
carries its own over; the model has the latter.

Not modelled at all, with the reason in `PROJECT.json`: provider sign-in, notification rules, model proxies, configuration and
parsing, containers, tunnel, egress, host integration and request routing (I/O with external programs,
formatting, string matching); the controller and view models of the clients (wiring and pure projections);
and the parts of the plan below that remain.

## 10. Plan

Done: `AgentTurns`, `Mailbox`, `SyncFeed`, `ChatSession`, `AttachmentUpload`, `SessionTokens`, `VoiceSession`, `PlayQueue`.

Every invariant and action property of the passing runs is a theorem; what is left to TLC is liveness
(`EventuallyHandled`, `EventuallyShown`, `OrphanEnds`, `DraftSettles`).

Components to come: `AgentBoot` (persisted state written off the loop and out of order, restart reasons and their
inboxes), `GatewayUpdate` (the operation slot and the update ledger across crashes), `Presence` (contexts of several
connections and the settle window), `Maintenance` (backup, compaction, the write guard per agent), and the activity
channel of the tap.
