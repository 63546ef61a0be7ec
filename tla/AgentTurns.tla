---------------------------- MODULE AgentTurns ----------------------------
(***************************************************************************)
(* The notification and turn engine of the in-container agent:             *)
(* agent/core/loops.py (monitor loop, message processor, queue watcher),   *)
(* the turn driver of client.py, the restart tools of tools.py and the     *)
(* start and stop of the process in main.py.                               *)
(*                                                                         *)
(* Producers drop notification files in a directory.  The monitor routes   *)
(* each new file (interrupt, snooze, trash) and queues turns; the          *)
(* processor runs them one at a time against the CLI; while a turn runs    *)
(* the queue watcher delivers late arrivals as preempts.  A file is the    *)
(* only durable copy of a notification: it may be removed only when the    *)
(* CLI has the content.                                                    *)
(*                                                                         *)
(* asyncio tasks interleave at awaits only, so an action is the code       *)
(* between two awaits.  A notification is a pair <<path, n>>: the n-th     *)
(* file created under that name (overwriting a pending file re-drops the   *)
(* same notification).                                                     *)
(***************************************************************************)
EXTENDS Naturals, Sequences, FiniteSets

CONSTANTS
    Paths,        \* file names in the notifications directory
    Core,         \* the ones written by the agent itself (source = core)
    Dream,        \* core files named after their night: the name is reused
    Proactive,    \* core files of the proactive check
    Malformed,    \* files that do not parse
    Routes,       \* path -> dispositions the rules may give it
    MaxWrites,    \* path -> how often a file of that name is created
    BootBatches,  \* boot batches: one BOOLEAN per turn, TRUE = non-interruptible
    GraceTicks,   \* monitor ticks of idleness before a snoozed batch is flushed
    MaxFaults,    \* bound: kills, signals, failed sends and turns, auth losses
    MaxCliRuns    \* bound: turns the CLI starts by itself, tool calls it makes

Dispositions == {"interrupt", "snooze", "trash"}

ASSUME PathsAssumption ==
    /\ Core \subseteq Paths /\ Dream \subseteq Core /\ Proactive \subseteq Core
    /\ Dream \cap Proactive = {}
    /\ Malformed \subseteq Paths \ Core
ASSUME RoutesAssumption ==
    /\ Routes \in [Paths -> (SUBSET Dispositions) \ {{}}]
    /\ \A p \in Core : "trash" \notin Routes[p]
    /\ MaxWrites \in [Paths -> Nat]
ASSUME BoundsAssumption ==
    /\ BootBatches \subseteq Seq(BOOLEAN) /\ BootBatches # {}
    /\ GraceTicks \in Nat /\ MaxFaults \in Nat /\ MaxCliRuns \in Nat

VARIABLES
    files,        \* paths on disk
    created,      \* path -> number of files created under it so far
    \* monitor_loop
    queuedPaths, scanning, loaded, snoozed, idleTicks,
    \* message_processor and its queue watcher
    queue, pending, current, arrived, phase,
    \* models.State
    inFlight, undelivered, turnDone, preempted, compacting,
    bootPending, auth, graceful, bus,
    corrected,    \* the running turn is at its dash-correction query
    restartDue,   \* the client that signed in still has to restart the agent
    shown,        \* notification ids live clients show as pending
    cliWork,      \* prompts the CLI has accepted and not answered
    cliRuns,      \* spontaneous CLI turns and lifecycle tool calls so far
    faults,
    \* history: what became of each notification
    delivered,    \* the CLI got it
    redelivered,  \* the CLI got it more than once
    discarded,    \* trashed by a rule, or unparseable
    toolCleared,  \* deleted by a restart/stop tool before the CLI got it
    excused,      \* may be delivered again: its delivery was in doubt
    failedTurns   \* its turn failed after the CLI got it

dir   == <<files, created, shown>>
mon   == <<queuedPaths, scanning, loaded, snoozed, idleTicks>>
proc  == <<queue, pending, current, arrived, phase>>
turn  == <<inFlight, undelivered, turnDone, preempted, corrected, compacting>>
node  == <<bootPending, auth, graceful, bus, restartDue>>
cli   == <<cliWork, cliRuns>>
hist  == <<delivered, redelivered, discarded, toolCleared, excused, failedTurns>>
vars  == <<dir, mon, proc, turn, node, cli, hist, faults>>

Msg    == Paths \X Nat
Turn   == [msgs : SUBSET Msg, boot : BOOLEAN]
NoTurn == [msgs |-> {}, boot |-> FALSE]

Phases == {"down", "off", "opening", "idle", "loop", "sending", "waiting",
           "closing", "done", "saving", "failed", "post", "dead", "spin"}
TurnOpen == phase \in {"sending", "waiting"}        \* state.turn is not None
TaskRuns == phase \in {"sending", "waiting", "closing", "saving"}  \* process_task not done
Client   == phase \notin {"down", "off", "opening", "dead"}
Up       == phase # "down"
\* The event loop can run another task: the processor is at an await, not in
\* the stretch from a finished turn (or a fetched item) to the next one.
LoopFree == Up /\ phase \notin {"loop", "post", "spin"}
Authenticated == auth = "ok"

PathsOf(ms)  == {m[1] : m \in ms}
Content(ps)  == {<<p, created[p]>> : p \in ps}
\* Mutant: counts every finished turn, boot turn or not.
ConsumedAlways(t) == bootPending - 1
\* _consume_boot_turn
Consumed(t)  == IF t.boot /\ bootPending > 0 THEN bootPending - 1 ELSE bootPending
Fault        == faults < MaxFaults /\ faults' = faults + 1

\* The CLI receives the messages ms (client.query returned, or its bytes went out).
Deliver(ms) ==
    /\ delivered' = delivered \cup ms
    /\ redelivered' = redelivered \cup (ms \cap delivered)
    /\ cliWork' = cliWork + 1

\* Mutant: unlinks without the notification_cleared event.
ClearSilently(ps) ==
    /\ files' = files \ ps
    /\ shown' = shown
\* clear_notifications: unlink and tell live clients.
Clear(ps) ==
    /\ files' = files \ ps
    /\ shown' = shown \ ps

----------------------------------------------------------------------------
(* Producers and the monitor loop.                                          *)

\* A skill daemon (or the compaction follow-up) renames a new file into place.
Write(p) ==
    /\ p \notin Dream \cup Proactive
    /\ p \notin files /\ created[p] < MaxWrites[p]
    /\ files' = files \cup {p}
    /\ created' = [created EXCEPT ![p] = @ + 1]
    /\ UNCHANGED <<shown, mon, proc, turn, node, cli, hist, faults>>

\* process_batch: one turn for the core section, one for the external section.
Sections(ms) ==
    LET system == {m \in ms : m[1] \in Core}
        external == ms \ system
        one(s) == IF s = {} THEN <<>> ELSE <<[msgs |-> s, boot |-> FALSE]>>
    IN one(system) \o one(external)

\* Files the tick drops itself: a proactive check only while nothing runs or
\* waits; a dream whatever the processor does.
MayDrop(p) ==
    /\ p \notin files /\ created[p] < MaxWrites[p]
    /\ \/ p \in Dream
       \/ p \in Proactive /\ queue = <<>> /\ phase \in {"off", "opening", "idle"}

\* _ws_handler: the connect snapshot lists every file there is, routed or not,
\* parseable or not.
ClientConnects ==
    /\ LoopFree
    /\ shown' = shown \cup files
    /\ UNCHANGED <<files, created, mon, proc, turn, node, cli, hist, faults>>

\* The tick up to the await in _scan_notifications: drop core files, prune
\* queued_paths to the files that exist, load every file, unlink the
\* unparseable ones, which no event tells.
MonitorTick(drops) ==
    LET onDisk == files \cup drops
        bad == onDisk \cap Malformed
    IN
    /\ LoopFree /\ ~scanning
    /\ \A p \in drops : MayDrop(p)
    /\ created' = [p \in Paths |-> IF p \in drops THEN created[p] + 1 ELSE created[p]]
    /\ queuedPaths' = queuedPaths \cap onDisk
    /\ files' = onDisk \ bad
    /\ loaded' = {<<p, created'[p]>> : p \in onDisk \ bad}
    /\ discarded' = discarded \cup Content(bad)
    /\ scanning' = TRUE
    /\ UNCHANGED <<shown, snoozed, idleTicks, proc, turn, node, cli, delivered,
                   redelivered, toolCleared, excused, failedTurns, faults>>

\* Mutant: forgets what it queued before.
FreshIgnoresQueued == loaded
\* The loaded notifications not queued before.
Fresh == {m \in loaded : m[1] \notin queuedPaths}

\* The rest of the tick: route the fresh notifications, trash, queue the
\* interrupts, then flush the snoozed batch once idle for long enough.
MonitorRoute(route) ==
    LET chosen(d) == {m \in Fresh : route[m[1]] = d}
        kept == Fresh \ chosen("trash")
        idle == IF bus = "idle" THEN (IF idleTicks > GraceTicks THEN idleTicks ELSE idleTicks + 1) ELSE 0
        batch == snoozed \cup chosen("snooze")
        flush == idle > GraceTicks
    IN
    /\ LoopFree /\ scanning
    /\ files' = files \ PathsOf(chosen("trash"))
    /\ discarded' = discarded \cup chosen("trash")
    /\ shown' = (shown \cup PathsOf(kept)) \ PathsOf(chosen("trash"))
    /\ queuedPaths' = queuedPaths \cup PathsOf(kept)
    /\ idleTicks' = idle
    /\ queue' = queue \o Sections(chosen("interrupt"))
                      \o Sections(IF flush THEN batch ELSE {})
    /\ snoozed' = IF flush THEN {} ELSE batch
    /\ scanning' = FALSE /\ loaded' = {}
    /\ UNCHANGED <<created, pending, current, arrived, phase, turn, node, cli,
                   delivered, redelivered, toolCleared, excused, failedTurns, faults>>

----------------------------------------------------------------------------
(* The message processor.                                                   *)

\* client_session opened (a failed resume is retried on a fresh session).
OpenSession ==
    /\ phase = "opening"
    /\ phase' = "idle"
    /\ UNCHANGED <<dir, mon, queue, pending, current, arrived, turn, node, cli, hist, faults>>

\* It could not be opened: the processor task ends, handle_processor_done
\* asks for the shutdown.
SessionFails ==
    /\ phase = "opening" /\ Fault
    /\ phase' = "dead" /\ graceful' = TRUE
    /\ UNCHANGED <<dir, mon, queue, pending, current, arrived, turn, bootPending,
                   auth, bus, restartDue, cli, hist>>

TakeTurn ==
    /\ phase = "idle" /\ queue # <<>>
    /\ pending' = <<Head(queue)>> /\ queue' = Tail(queue)
    /\ phase' = "loop"
    /\ UNCHANGED <<dir, mon, current, arrived, turn, node, cli, hist, faults>>

\* Shutting down with turns left: they go back on the queue, and
\* message_processor fetches the first one again without ever suspending.
PutBack ==
    /\ phase = "loop" /\ pending # <<>> /\ graceful
    /\ queue' = queue \o pending /\ pending' = <<>>
    /\ phase' = "spin"
    /\ UNCHANGED <<dir, mon, current, arrived, turn, node, cli, hist, faults>>

Spin ==
    /\ phase = "spin" /\ queue # <<>>
    /\ queue' = Append(Tail(queue), Head(queue))
    /\ UNCHANGED <<dir, mon, pending, current, arrived, phase, turn, node, cli, hist, faults>>

\* Not signed in: the turn is dropped, its file stays.
DeferTurn ==
    /\ phase = "loop" /\ pending # <<>> /\ ~graceful /\ ~Authenticated
    /\ pending' = Tail(pending)
    /\ bootPending' = Consumed(Head(pending))
    /\ UNCHANGED <<dir, mon, queue, current, arrived, phase, turn, auth, graceful,
                   bus, restartDue, cli, hist, faults>>

\* The turn starts: its task runs up to the query's write, the turn is open.
StartTurn ==
    /\ phase = "loop" /\ pending # <<>> /\ ~graceful /\ Authenticated
    /\ current' = Head(pending) /\ pending' = Tail(pending)
    /\ inFlight' = PathsOf(Head(pending).msgs)
    /\ undelivered' = FALSE
    /\ turnDone' = FALSE /\ preempted' = FALSE /\ corrected' = FALSE
    /\ bus' = "thinking"
    /\ phase' = "sending"
    /\ UNCHANGED <<dir, mon, queue, arrived, compacting, bootPending, auth, graceful,
                   restartDue, cli, hist, faults>>

BatchDone ==
    /\ phase = "loop" /\ pending = <<>>
    /\ phase' = "idle"
    /\ UNCHANGED <<dir, mon, queue, pending, current, arrived, turn, node, cli, hist, faults>>

\* converse: the query reached the CLI.
QueryDelivered ==
    /\ phase = "sending"
    /\ phase' = "waiting"
    /\ Deliver(IF corrected THEN {} ELSE current.msgs)
    /\ UNCHANGED <<dir, mon, queue, pending, current, arrived, turn, node, cliRuns,
                   discarded, toolCleared, excused, failedTurns, faults>>

\* converse raised QueryNotDeliveredError: the write timed out (its bytes may
\* have gone out all the same) or the transport is dead.
QueryFails(got) ==
    LET lost == IF corrected THEN {} ELSE current.msgs IN
    /\ phase = "sending" /\ Fault
    /\ phase' = "saving"
    /\ undelivered' = TRUE
    /\ IF got THEN Deliver(lost) ELSE UNCHANGED <<delivered, redelivered, cliWork>>
    /\ excused' = excused \cup lost
    /\ failedTurns' = IF corrected THEN failedTurns \cup current.msgs ELSE failedTurns
    /\ UNCHANGED <<dir, mon, queue, pending, current, arrived, inFlight, turnDone,
                   preempted, corrected, compacting, node, cliRuns, discarded, toolCleared>>

\* Response timeout, or the stream died under the open turn.
TurnFails ==
    /\ phase = "waiting" /\ Fault
    /\ phase' = "saving" /\ compacting' = FALSE
    /\ failedTurns' = failedTurns \cup current.msgs
    /\ UNCHANGED <<dir, mon, queue, pending, current, arrived, inFlight, undelivered,
                   turnDone, preempted, corrected, node, cli, delivered, redelivered,
                   discarded, toolCleared, excused>>

\* _run_one_turn has saved the crash reason (an await) and asks for the shutdown.
FailureSaved ==
    /\ phase = "saving"
    /\ phase' = "failed" /\ graceful' = TRUE /\ bus' = "idle"
    /\ UNCHANGED <<dir, mon, queue, pending, current, arrived, turn, bootPending, auth,
                   restartDue, cli, hist, faults>>

\* The open turn's done event fired: converse closes the turn.
TurnCloses ==
    /\ phase = "waiting" /\ turnDone
    /\ phase' = "closing" /\ compacting' = FALSE
    /\ UNCHANGED <<dir, mon, queue, pending, current, arrived, inFlight, undelivered,
                   turnDone, preempted, corrected, node, cli, hist, faults>>

\* process_message: a second converse asks for the reply without dashes,
\* unless a preempt cut the reply short.
DashCorrection ==
    /\ phase = "closing" /\ ~preempted /\ ~corrected
    /\ phase' = "sending" /\ corrected' = TRUE /\ turnDone' = FALSE
    /\ UNCHANGED <<dir, mon, queue, pending, current, arrived, inFlight, undelivered,
                   preempted, compacting, node, cli, hist, faults>>

TurnEnds ==
    /\ phase = "closing"
    /\ phase' = "done" /\ bus' = "idle"
    /\ UNCHANGED <<dir, mon, queue, pending, current, arrived, turn, bootPending, auth,
                   graceful, restartDue, cli, hist, faults>>

\* Mutant: clears the files of a query the CLI never received.
KeepsFilesIfSignedOut == ~Authenticated
\* The provider signed out during the turn, or the query was not delivered.
KeepsFiles == ~Authenticated \/ undelivered

\* After the turn: count a boot turn, clear the in-flight files unless
\* they must be kept.
PostTurn ==
    /\ phase \in {"done", "post"} /\ arrived = <<>>
    /\ bootPending' = Consumed(current)
    /\ Clear(IF KeepsFiles THEN {} ELSE inFlight)
    /\ excused' = IF KeepsFiles THEN excused \cup current.msgs ELSE excused
    /\ inFlight' = {} /\ undelivered' = FALSE
    /\ current' = NoTurn /\ phase' = "loop"
    /\ UNCHANGED <<created, mon, queue, pending, arrived, turnDone, preempted,
                   corrected, compacting, auth, graceful, bus, restartDue, cli, delivered,
                   redelivered, discarded, toolCleared, failedTurns, faults>>

----------------------------------------------------------------------------
(* The queue watcher of the running turn.                                   *)

\* Mutant: a boot turn can be preempted.
PreemptibleBoot == TurnOpen /\ ~compacting /\ Authenticated
\* send_preempt's gates.
Preemptible == TurnOpen /\ ~current.boot /\ ~compacting /\ Authenticated

WatcherSends ==
    /\ TaskRuns /\ arrived = <<>> /\ queue # <<>> /\ Preemptible
    /\ arrived' = <<Head(queue)>> /\ queue' = Tail(queue)
    /\ UNCHANGED <<dir, mon, pending, current, phase, turn, node, cli, hist, faults>>

\* Mutant: an undeliverable preempt is forgotten.
LaterDropped(t) == pending
\* The watcher's fallback: run the item as a plain turn.
Later(t) == Append(pending, t)

WatcherQueues ==
    /\ TaskRuns \/ phase = "done"
    /\ arrived = <<>> /\ queue # <<>> /\ ~Preemptible
    /\ pending' = Later(Head(queue)) /\ queue' = Tail(queue)
    /\ UNCHANGED <<dir, mon, current, arrived, phase, turn, node, cli, hist, faults>>

\* With the turn's task already over, the processor goes on without suspending.
AfterSend == IF phase = "failed" THEN "post" ELSE phase

\* Delivery is the item's completion: clear its files on the spot.
PreemptDelivered ==
    /\ arrived # <<>> /\ LoopFree
    /\ Deliver(arrived[1].msgs)
    /\ Clear(PathsOf(arrived[1].msgs))
    /\ bootPending' = Consumed(arrived[1])
    /\ preempted' = TRUE
    /\ arrived' = <<>> /\ phase' = AfterSend
    /\ UNCHANGED <<created, mon, queue, pending, current, inFlight, undelivered, turnDone,
                   corrected, compacting, auth, graceful, bus, restartDue, cliRuns,
                   discarded, toolCleared, excused, failedTurns, faults>>

\* The write failed or timed out (its bytes may have gone out): run it as a turn.
PreemptFails(got) ==
    /\ arrived # <<>> /\ LoopFree /\ Fault
    /\ pending' = Later(arrived[1])
    /\ arrived' = <<>> /\ phase' = AfterSend
    /\ IF got THEN Deliver(arrived[1].msgs) ELSE UNCHANGED <<delivered, redelivered, cliWork>>
    /\ excused' = excused \cup arrived[1].msgs
    /\ UNCHANGED <<dir, mon, queue, current, turn, node, cliRuns, discarded,
                   toolCleared, failedTurns>>

----------------------------------------------------------------------------
(* The CLI and its stream (consume_stream, _dispatch_message).              *)

\* The CLI starts a turn of its own (a background task notification).
CliStarts ==
    /\ Client /\ LoopFree /\ cliRuns < MaxCliRuns
    /\ cliRuns' = cliRuns + 1 /\ cliWork' = cliWork + 1
    /\ UNCHANGED <<dir, mon, proc, turn, node, hist, faults>>

\* An assistant message: marks turnless work as activity.
CliMessage ==
    /\ Client /\ LoopFree /\ cliWork > 0
    /\ bus' = IF TurnOpen THEN bus ELSE "thinking"
    /\ compacting' = FALSE
    /\ UNCHANGED <<dir, mon, proc, inFlight, undelivered, turnDone, preempted, corrected,
                   bootPending, auth, graceful, restartDue, cli, hist, faults>>

\* The CLI compacts by itself (the pre-compact hook).
CliCompacts ==
    /\ Client /\ LoopFree /\ cliWork > 0 /\ ~compacting /\ cliRuns < MaxCliRuns
    /\ compacting' = TRUE /\ cliRuns' = cliRuns + 1
    /\ UNCHANGED <<dir, mon, proc, inFlight, undelivered, turnDone, preempted, corrected,
                   node, cliWork, hist, faults>>

\* A ResultMessage answers one prompt or several merged ones.  It carries no
\* identity: it closes whichever turn is open, else it ends the turnless work.
CliResult(answers) ==
    /\ Client /\ LoopFree /\ answers \in 1..cliWork
    /\ cliWork' = cliWork - answers
    /\ turnDone' = (turnDone \/ TurnOpen)
    /\ bus' = IF TurnOpen THEN bus ELSE "idle"
    /\ UNCHANGED <<dir, mon, proc, inFlight, undelivered, preempted, corrected, compacting,
                   bootPending, auth, graceful, restartDue, cliRuns, hist, faults>>

\* A terminal 401/402: the provider reads signed out and the open turn ends.
AuthLost ==
    /\ Client /\ LoopFree /\ cliWork > 0 /\ Authenticated /\ Fault
    /\ auth' = "lost"
    /\ turnDone' = (turnDone \/ TurnOpen)
    /\ UNCHANGED <<dir, mon, proc, inFlight, undelivered, preempted, corrected, compacting,
                   bootPending, graceful, bus, restartDue, cli, hist>>

\* restart_vesta / stop_vesta, called by whatever turn the CLI is running.
LifecycleTool ==
    /\ Client /\ LoopFree /\ cliWork > 0 /\ ~graceful /\ cliRuns < MaxCliRuns
    /\ Clear(inFlight)
    /\ toolCleared' = toolCleared \cup (Content(inFlight) \ delivered)
    /\ inFlight' = {} /\ cliRuns' = cliRuns + 1
    /\ UNCHANGED <<created, mon, proc, undelivered, turnDone, preempted, corrected,
                   compacting, node, cliWork, delivered, redelivered, discarded, excused,
                   failedTurns, faults>>

----------------------------------------------------------------------------
(* Sign-in, signals, shutdown, crash and boot.                              *)

\* DELETE /provider, or the OpenRouter proxy saw the key rejected.
SignOut ==
    /\ LoopFree /\ Authenticated /\ Fault
    /\ auth' = "lost"
    /\ UNCHANGED <<dir, mon, proc, turn, bootPending, graceful, bus, restartDue, cli, hist>>

\* PUT /provider: live status at once; the caller restarts the agent to apply it.
SignIn ==
    /\ LoopFree /\ ~Authenticated
    /\ auth' = "ok" /\ restartDue' = TRUE
    /\ UNCHANGED <<dir, mon, proc, turn, bootPending, graceful, bus, cli, hist, faults>>

\* The first SIGTERM: vestad restarts or stops the container.
Sigterm ==
    /\ Up /\ ~graceful
    /\ \/ restartDue /\ UNCHANGED faults
       \/ ~restartDue /\ Fault
    /\ graceful' = TRUE
    /\ UNCHANGED <<dir, mon, proc, turn, bootPending, auth, bus, restartDue, cli, hist>>

\* A further signal sets shutdown_event; elsewhere the pending shutdown does too.
SecondSignal ==
    /\ phase = "spin" /\ Fault
    /\ phase' = "dead"
    /\ UNCHANGED <<dir, mon, queue, pending, current, arrived, turn, node, cli, hist>>

\* Messages in the middle of a write, which the CLI may or may not get.
InWrite ==
    (IF phase = "sending" /\ ~corrected THEN current.msgs ELSE {})
        \cup (IF arrived # <<>> THEN arrived[1].msgs ELSE {})

\* The process is gone and with it everything held in memory; the files stay.
Gone(got) ==
    /\ phase' = "down"
    /\ queuedPaths' = {} /\ scanning' = FALSE /\ loaded' = {} /\ snoozed' = {}
    /\ idleTicks' = 0
    /\ queue' = <<>> /\ pending' = <<>> /\ current' = NoTurn /\ arrived' = <<>>
    /\ inFlight' = {} /\ undelivered' = FALSE /\ turnDone' = FALSE /\ preempted' = FALSE
    /\ corrected' = FALSE /\ compacting' = FALSE
    /\ bootPending' = 0 /\ graceful' = FALSE /\ bus' = "idle" /\ restartDue' = FALSE
    /\ cliWork' = 0 /\ shown' = {}
    /\ delivered' = IF got THEN delivered \cup InWrite ELSE delivered
    /\ redelivered' = IF got THEN redelivered \cup (InWrite \cap delivered) ELSE redelivered
    /\ excused' = excused \cup InWrite
                          \cup (IF phase = "failed" THEN {} ELSE current.msgs)
    /\ UNCHANGED <<files, created, auth, cliRuns, discarded, toolCleared, failedTurns>>

\* run_vesta wakes on graceful_shutdown, cancels the tasks and exits.  After a
\* failed turn it is first in the event loop's queue, so the processor is
\* cancelled before it can run PostTurn.
MainShutdown(got) ==
    /\ LoopFree /\ graceful
    /\ Gone(got)
    /\ UNCHANGED faults

\* SIGKILL, out of memory, host crash.
Kill(got) ==
    /\ Up /\ Fault
    /\ Gone(got)

\* Mutant: interruptible turns are counted too.
BootTurnsAll(batch) == Len(batch)
\* run_vesta: boot_turns_pending.
BootTurns(batch) == Cardinality({i \in DOMAIN batch : batch[i]})

\* async_main / run_vesta: the boot batch is queued before any task starts;
\* without a provider the processor idles until the next restart.
Boot(signedIn, batch) ==
    /\ phase = "down"
    /\ \/ signedIn /\ UNCHANGED faults
       \/ ~signedIn /\ Fault
    /\ auth' = IF signedIn THEN "ok" ELSE "lost"
    /\ phase' = IF signedIn THEN "opening" ELSE "off"
    /\ queue' = [i \in DOMAIN batch |-> [msgs |-> {}, boot |-> batch[i]]]
    /\ bootPending' = BootTurns(batch)
    /\ UNCHANGED <<dir, mon, pending, current, arrived, turn, graceful, bus, restartDue,
                   cli, hist>>

----------------------------------------------------------------------------
Init ==
    /\ files = {} /\ created = [p \in Paths |-> 0] /\ shown = {}
    /\ queuedPaths = {} /\ scanning = FALSE /\ loaded = {} /\ snoozed = {} /\ idleTicks = 0
    /\ queue = <<>> /\ pending = <<>> /\ current = NoTurn /\ arrived = <<>> /\ phase = "down"
    /\ inFlight = {} /\ undelivered = FALSE /\ turnDone = FALSE /\ preempted = FALSE
    /\ corrected = FALSE /\ compacting = FALSE
    /\ bootPending = 0 /\ auth = "ok" /\ graceful = FALSE /\ bus = "idle" /\ restartDue = FALSE
    /\ cliWork = 0 /\ cliRuns = 0 /\ faults = 0
    /\ delivered = {} /\ redelivered = {} /\ discarded = {} /\ toolCleared = {}
    /\ excused = {} /\ failedTurns = {}

Monitor ==
    \/ ClientConnects
    \/ \E drops \in SUBSET (Dream \cup Proactive) : MonitorTick(drops)
    \/ \E route \in [PathsOf(Fresh) -> Dispositions] :
          /\ \A p \in PathsOf(Fresh) : route[p] \in Routes[p]
          /\ MonitorRoute(route)

Processor ==
    \/ OpenSession \/ TakeTurn \/ PutBack \/ Spin \/ DeferTurn \/ StartTurn \/ BatchDone
    \/ QueryDelivered \/ TurnCloses \/ DashCorrection \/ TurnEnds \/ PostTurn
    \/ SessionFails \/ TurnFails \/ FailureSaved \/ \E got \in BOOLEAN : QueryFails(got)

Watcher ==
    \/ WatcherSends \/ WatcherQueues \/ PreemptDelivered
    \/ \E got \in BOOLEAN : PreemptFails(got)

Cli ==
    \/ CliStarts \/ CliMessage \/ CliCompacts \/ AuthLost \/ LifecycleTool
    \/ \E answers \in 1..cliWork : CliResult(answers)

Process ==
    \/ SignOut \/ SignIn \/ Sigterm \/ SecondSignal
    \/ \E got \in BOOLEAN : MainShutdown(got) \/ Kill(got)
    \/ \E signedIn \in BOOLEAN, batch \in BootBatches : Boot(signedIn, batch)

Next ==
    \/ \E p \in Paths : Write(p)
    \/ Monitor \/ Processor \/ Watcher \/ Cli \/ Process

Spec == Init /\ [][Next]_vars

\* The event loop runs every ready task; the CLI answers what it accepted (or
\* the response timeout ends the turn); a signed-out user signs in again and the
\* client then restarts the agent; vestad or Docker starts a stopped agent.
Fairness ==
    /\ WF_vars(MonitorTick({}))
    /\ WF_vars(\E route \in [PathsOf(Fresh) -> Dispositions] :
                  /\ \A p \in PathsOf(Fresh) : route[p] \in Routes[p]
                  /\ MonitorRoute(route))
    /\ WF_vars(OpenSession) /\ WF_vars(TakeTurn) /\ WF_vars(PutBack) /\ WF_vars(Spin)
    /\ WF_vars(DeferTurn) /\ WF_vars(StartTurn) /\ WF_vars(BatchDone)
    /\ WF_vars(QueryDelivered) /\ WF_vars(TurnCloses) /\ WF_vars(TurnEnds) /\ WF_vars(PostTurn)
    /\ WF_vars(FailureSaved)
    /\ WF_vars(WatcherSends) /\ WF_vars(WatcherQueues) /\ WF_vars(PreemptDelivered)
    /\ WF_vars(CliResult(1))
    /\ WF_vars(SignIn) /\ WF_vars(restartDue /\ Sigterm)
    /\ WF_vars(MainShutdown(FALSE))
    /\ WF_vars(\E batch \in BootBatches : Boot(TRUE, batch))

FairSpec == Spec /\ Fairness

----------------------------------------------------------------------------
(* Properties.                                                              *)

SeqMsgs(s) == UNION {s[i].msgs : i \in DOMAIN s}

\* Everything the process holds in memory on its way to the CLI.
Held == SeqMsgs(queue) \cup SeqMsgs(pending) \cup SeqMsgs(arrived)
            \cup current.msgs \cup snoozed

\* The notifications ever written, still on disk, and settled.
Written == UNION {{<<p, n>> : n \in 1..created[p]} : p \in Paths}
OnDisk  == Content(files)
Settled == delivered \cup discarded \cup toolCleared

\* The variables have their types.
TypeOK ==
    /\ files \subseteq Paths /\ shown \subseteq Paths /\ created \in [Paths -> Nat]
    /\ queuedPaths \subseteq Paths /\ scanning \in BOOLEAN
    /\ loaded \subseteq Msg /\ snoozed \subseteq Msg /\ idleTicks \in Nat
    /\ queue \in Seq(Turn) /\ pending \in Seq(Turn)
    /\ current \in Turn /\ arrived \in Seq(Turn) /\ Len(arrived) <= 1
    /\ phase \in Phases
    /\ inFlight \subseteq Paths /\ undelivered \in BOOLEAN /\ turnDone \in BOOLEAN
    /\ preempted \in BOOLEAN /\ corrected \in BOOLEAN /\ compacting \in BOOLEAN
    /\ bootPending \in Nat /\ auth \in {"ok", "lost"} /\ graceful \in BOOLEAN
    /\ bus \in {"idle", "thinking"} /\ restartDue \in BOOLEAN
    /\ cliWork \in Nat /\ cliRuns \in Nat /\ faults \in Nat
    /\ delivered \subseteq Msg /\ redelivered \subseteq Msg /\ discarded \subseteq Msg
    /\ toolCleared \subseteq Msg /\ excused \subseteq Msg /\ failedTurns \subseteq Msg

\* Every notification ever written is still on disk, reached the CLI, or was
\* discarded by rule; the only other way out is a restart tool's clean-up.
\* Neither a crash, a failed send, a sign-out nor a preempt loses one.
NothingLost ==
    Written \subseteq OnDisk \cup Settled

\* The turn engine implements the at-least-once mailbox.
MB == INSTANCE Mailbox WITH Message <- Msg, arrived <- Written, waiting <- OnDisk,
                            settled <- Settled
MailboxSpec == MB!MSpec

\* A file the monitor takes for queued is really on its way to the CLI: nothing
\* sits on disk unqueued until an unrelated restart.
NoneStranded ==
    Up /\ Authenticated /\ ~restartDue /\ ~graceful =>
        \A p \in files \cap queuedPaths : <<p, created[p]>> \in Held

\* The CLI gets a notification twice only if a send was in doubt, the process
\* went down or signed out under it, or its turn failed.
RedeliveryExcused == redelivered \subseteq excused \cup failedTurns

\* GET /status counts exactly the non-interruptible boot turns still to finish.
BootCountExact ==
    LET boots(s) == Cardinality({i \in DOMAIN s : s[i].boot})
    IN bootPending = boots(queue) + boots(pending) + boots(arrived) + boots(<<current>>)

\* No notification is handed to the CLI before the last boot turn is over
\* (boot batches without interruptible migrations).
BootFirst ==
    bootPending > 0 /\ Authenticated => current.msgs = {} /\ SeqMsgs(arrived) = {}

\* What live clients show as pending is on disk, wherever they have it from, the
\* listing of a connect or an event: every removal of a notification is announced,
\* by whichever of the turn, the preempt, the rule or the restart tool removed it.
\* Not so the unlink of an unparseable file, which a listing may have shown.
ShownIsOnDisk == shown \ Malformed \subseteq files

----------------------------------------------------------------------------
(* The inductive invariant behind NothingLost and MailboxSpec.              *)

Apart(s) == \A i, j \in DOMAIN s : i # j => s[i].msgs \cap s[j].msgs = {}

Waiting == SeqMsgs(queue) \cup SeqMsgs(pending) \cup SeqMsgs(arrived) \cup snoozed

\* What waits in memory or is about to be routed has its file on disk.
WaitingOnDisk ==
    /\ Waiting \cup Content(inFlight) \subseteq OnDisk
    /\ scanning => Fresh \subseteq OnDisk

\* What waits in memory is known to the monitor, which will not queue it again.
WaitingKnown ==
    /\ PathsOf(Waiting) \cup inFlight \subseteq queuedPaths
    /\ (queuedPaths \cup PathsOf(loaded)) \cap Malformed = {}

\* No notification waits in two places, so clearing one turn's files never
\* takes away another turn's.
HeldOnce ==
    /\ Apart(queue) /\ Apart(pending)
    /\ SeqMsgs(queue) \cap SeqMsgs(pending) = {}
    /\ SeqMsgs(queue) \cap SeqMsgs(arrived) = {}
    /\ SeqMsgs(pending) \cap SeqMsgs(arrived) = {}
    /\ snoozed \cap (SeqMsgs(queue) \cup SeqMsgs(pending) \cup SeqMsgs(arrived)) = {}
    /\ Content(inFlight) \cap Waiting = {}

\* The running turn's messages are its in-flight files or settled already, and
\* past the query the CLI has them, unless undelivered says otherwise.
TurnAccounted ==
    /\ Content(inFlight) \subseteq current.msgs
    /\ current.msgs \subseteq Content(inFlight) \cup Settled
    /\ phase \in {"waiting", "closing", "done"} => current.msgs \subseteq delivered
    /\ phase = "sending" /\ corrected => current.msgs \subseteq delivered
    /\ phase \in {"saving", "failed", "post"} /\ ~undelivered => current.msgs \subseteq delivered
    /\ phase \in {"off", "opening", "idle", "loop", "spin", "dead", "down"} =>
          current = NoTurn /\ inFlight = {}

\* Every notification in the process's care is on disk, tracked once and
\* accounted for.
Custody == WaitingOnDisk /\ WaitingKnown /\ HeldOnce /\ TurnAccounted

----------------------------------------------------------------------------
\* Every notification is eventually delivered or discarded, through sign-outs,
\* failures and restarts (unless the shutdown itself wedges the event loop).
EventuallyHandled ==
    \A p \in Paths : p \in files ~> (p \notin files \/ phase = "spin")

\* A requested shutdown always completes.
ShutdownCompletes == graceful ~> phase = "down"
=============================================================================
