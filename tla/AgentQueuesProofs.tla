------------------------- MODULE AgentQueuesProofs -------------------------
(***************************************************************************)
(* What the queues of the turn engine guarantee beyond Custody, for any    *)
(* set of files, rules, boot batches and any number of faults: every       *)
(* removal is announced, a notification is delivered twice only with an    *)
(* excuse, the boot count is exact, nothing overtakes the boot turns, and  *)
(* nothing the monitor takes for queued is forgotten.                      *)
(***************************************************************************)
EXTENDS AgentTurnsProofs

----------------------------------------------------------------------------
(* The kinds of steps.                                                      *)

\* Steps that move no turn and touch no file.
Quiet ==
    \/ OpenSession \/ SessionFails \/ BatchDone \/ QueryDelivered \/ TurnFails
    \/ FailureSaved \/ TurnCloses \/ DashCorrection \/ TurnEnds \/ SecondSignal
    \/ CliStarts \/ CliMessage \/ CliCompacts \/ AuthLost
    \/ SignOut \/ SignIn \/ Sigterm \/ ClientConnects
    \/ \E got \in BOOLEAN : QueryFails(got)
    \/ \E answers \in 1..cliWork : CliResult(answers)

\* Steps that move a turn from one place to another.
Moves ==
    \/ TakeTurn \/ PutBack \/ Spin \/ DeferTurn \/ StartTurn
    \/ WatcherSends \/ WatcherQueues \/ \E got \in BOOLEAN : PreemptFails(got)

\* Steps that clear files.
Clears == PostTurn \/ PreemptDelivered \/ LifecycleTool

Ends == Up /\ \E got \in BOOLEAN : Gone(got)
Boots == \E signedIn \in BOOLEAN, batch \in BootBatches : Boot(signedIn, batch)
Writes == \E p \in Paths : Write(p)
Ticks == \E drops \in SUBSET (Dream \cup Proactive) : MonitorTick(drops)
Routing == \E route \in [PathsOf(Fresh) -> Dispositions] : MonitorRoute(route)

\* Every step is of one of these kinds.
LEMMA StepKinds ==
    ASSUME [Next]_vars
    PROVE  \/ UNCHANGED vars \/ Quiet \/ Moves \/ Clears \/ Ends \/ Boots
           \/ Writes \/ Ticks \/ Routing
  <1>1. ASSUME NEW got \in BOOLEAN, MainShutdown(got) \/ Kill(got) PROVE Ends
    BY <1>1 DEF MainShutdown, Kill, LoopFree, Ends
  <1>2. CASE Process
    BY <1>1, <1>2 DEF Process, Quiet, Boots
  <1>3. CASE Cli
    BY <1>3 DEF Cli, Quiet, Clears
  <1>4. CASE Watcher
    BY <1>4 DEF Watcher, Moves, Clears
  <1>5. CASE Processor
    BY <1>5 DEF Processor, Quiet, Moves, Clears
  <1>6. CASE Monitor
    BY <1>6 DEF Monitor, Quiet, Ticks, Routing
  <1> QED BY <1>2, <1>3, <1>4, <1>5, <1>6 DEF Next, Writes

\* Quiet steps leave every queue and every file as it is; a client may list the files.
LEMMA QuietFrame ==
    ASSUME Quiet
    PROVE  /\ UNCHANGED <<files, created, queuedPaths, scanning, loaded, snoozed>>
           /\ shown' \subseteq shown \cup files
           /\ UNCHANGED <<queue, pending, current, arrived, inFlight, bootPending>>
           /\ UNCHANGED <<discarded, toolCleared>>
  BY DEF Quiet, dir, mon, proc, turn, node, cli, hist, OpenSession, SessionFails, BatchDone,
         QueryDelivered, TurnFails, FailureSaved, TurnCloses, DashCorrection, TurnEnds,
         SecondSignal, CliStarts, CliMessage, CliCompacts, AuthLost, SignOut, SignIn, Sigterm,
         ClientConnects, QueryFails, CliResult

\* Steps that move turns touch no file and leave the monitor alone.
LEMMA MovesFrame ==
    ASSUME Moves
    PROVE  /\ UNCHANGED <<files, created, shown, queuedPaths, scanning, loaded, snoozed>>
           /\ UNCHANGED <<discarded, toolCleared, auth, graceful, restartDue>>
  BY DEF Moves, dir, mon, turn, node, cli, hist, TakeTurn, PutBack, Spin, DeferTurn, StartTurn,
         WatcherSends, WatcherQueues, PreemptFails

\* Steps that clear files leave the monitor, the queue and the pending turns alone.
LEMMA ClearsFrame ==
    ASSUME Clears
    PROVE  /\ UNCHANGED <<created, queuedPaths, scanning, loaded, snoozed, queue, pending>>
           /\ UNCHANGED <<auth, graceful, restartDue, failedTurns>>
           /\ \E gone : files' = files \ gone /\ shown' = shown \ gone
  <1>1. CASE PostTurn
    BY <1>1 DEF mon, node, hist, PostTurn, Clear
  <1>2. CASE PreemptDelivered
    BY <1>2 DEF mon, node, hist, PreemptDelivered, Clear
  <1>3. CASE LifecycleTool
    BY <1>3 DEF mon, proc, node, hist, LifecycleTool, Clear
  <1> QED BY <1>1, <1>2, <1>3 DEF Clears

----------------------------------------------------------------------------
(* Where turns can be.                                                      *)

Busy == {"sending", "waiting", "closing", "done", "saving", "failed", "post"}

\* Between batches nothing is pending, a preempt is under way only beside a turn,
\* and a process that is down holds nothing.
Stages ==
    /\ phase \in {"down", "off", "opening", "idle", "spin", "dead"} => pending = <<>>
    /\ phase \notin Busy \ {"post"} => arrived = <<>>
    /\ phase = "down" => queue = <<>> /\ queuedPaths = {} /\ ~scanning /\ bootPending = 0

\* Every step keeps the turns where their phase allows them.
LEMMA StagesNext == TypeOK /\ Stages /\ [Next]_vars => Stages'
  <1> SUFFICES ASSUME TypeOK, Stages, [Next]_vars PROVE Stages'
    OBVIOUS
  <1> USE DEF dir, mon, proc, turn, node, cli, hist, Busy
  <1>1. CASE UNCHANGED vars
    BY <1>1 DEF vars, Stages
  <1>2. CASE Quiet
    <2>1. UNCHANGED <<queue, pending, arrived, queuedPaths, scanning, bootPending>>
      BY <1>2, QuietFrame
    <2>2. /\ phase' = "down" => phase = "down"
          /\ phase' \in {"off", "opening", "idle", "spin", "dead"} =>
                phase \in {"off", "opening", "idle", "spin", "dead"} \/ pending = <<>>
          /\ phase' \notin Busy \ {"post"} => phase \notin Busy \ {"post"}
      BY <1>2 DEF Quiet, OpenSession, SessionFails, BatchDone, QueryDelivered, TurnFails,
                  FailureSaved, TurnCloses, DashCorrection, TurnEnds, SecondSignal, CliStarts,
                  CliMessage, CliCompacts, AuthLost, SignOut, SignIn, Sigterm,
              ClientConnects, QueryFails, CliResult
    <2> QED BY <2>1, <2>2 DEF Stages
  <1>3. CASE Moves
    <2>1. ASSUME NEW got \in BOOLEAN, PreemptFails(got)
          PROVE  arrived' = <<>> /\ phase' \in Busy
      BY <2>1 DEF PreemptFails, AfterSend, Stages
    <2>2. phase' \in Phases
      BY <1>3, TypeNext DEF TypeOK
    <2> QED BY <1>3, <2>1 DEF Moves, TakeTurn, PutBack, Spin, DeferTurn, StartTurn,
                              WatcherSends, WatcherQueues, TaskRuns, Stages
  <1>4. CASE Clears
    BY <1>4 DEF Clears, PostTurn, PreemptDelivered, LifecycleTool, AfterSend, LoopFree, Up, Client, Stages
  <1>5. CASE Ends
    BY <1>5 DEF Ends, Gone, Stages
  <1>6. CASE Boots
    BY <1>6 DEF Boots, Boot, Stages
  <1>7. CASE Writes
    BY <1>7 DEF Writes, Write, Stages
  <1>8. CASE Ticks
    BY <1>8 DEF Ticks, MonitorTick, LoopFree, Up, Stages
  <1>9. CASE Routing
    BY <1>9 DEF Routing, MonitorRoute, LoopFree, Up, Stages
  <1> QED BY <1>1, <1>2, <1>3, <1>4, <1>5, <1>6, <1>7, <1>8, <1>9, StepKinds

\* Nothing is queued before the first boot.
LEMMA StagesInit == Init => Stages
  BY DEF Init, Stages, Busy

----------------------------------------------------------------------------
(* Every removal is announced.                                              *)

\* What a client learns of a notification, from a listing or an event, is taken
\* back when its file goes, unless the file is unparseable.
LEMMA AnnouncedNext == TypeOK /\ Custody /\ ShownIsOnDisk /\ [Next]_vars => ShownIsOnDisk'
  <1> SUFFICES ASSUME TypeOK, Custody, ShownIsOnDisk, [Next]_vars PROVE ShownIsOnDisk'
    OBVIOUS
  <1>1. CASE UNCHANGED vars \/ Quiet \/ Moves
    <2>1. files' = files /\ shown' \subseteq shown \cup files
      BY <1>1, QuietFrame, MovesFrame DEF vars, dir
    <2> QED BY <2>1 DEF ShownIsOnDisk
  <1>2. CASE Clears
    BY <1>2, ClearsFrame DEF ShownIsOnDisk
  <1>3. CASE Ends
    BY <1>3 DEF Ends, Gone, ShownIsOnDisk
  <1>4. CASE Boots
    BY <1>4 DEF Boots, Boot, ShownIsOnDisk, dir
  <1>5. CASE Writes
    BY <1>5 DEF Writes, Write, ShownIsOnDisk
  <1>6. CASE Ticks
    <2>1. PICK drops : MonitorTick(drops)
      BY <1>6 DEF Ticks
    <2>2. files' = (files \cup drops) \ Malformed /\ shown' = shown
      BY <2>1 DEF MonitorTick
    <2> QED BY <2>2 DEF ShownIsOnDisk
  <1>7. CASE Routing
    <2>1. PICK route : MonitorRoute(route)
      BY <1>7 DEF Routing
    <2> DEFINE trash == {m \in Fresh : route[m[1]] = "trash"}
               kept == Fresh \ trash
    <2>2. /\ files' = files \ PathsOf(trash)
          /\ shown' = (shown \cup PathsOf(kept)) \ PathsOf(trash) /\ scanning
      BY <2>1 DEF MonitorRoute
    <2>3. PathsOf(Fresh) \subseteq files
      <3>1. Fresh \subseteq Content(files)
        BY <2>2 DEF Custody, WaitingOnDisk, OnDisk
      <3> QED BY <3>1, ContentOfPaths
    <2>4. PathsOf(kept) \subseteq PathsOf(Fresh)
      BY DEF PathsOf
    <2> HIDE DEF trash, kept
    <2> QED BY <2>2, <2>3, <2>4 DEF ShownIsOnDisk
  <1> QED BY <1>1, <1>2, <1>3, <1>4, <1>5, <1>6, <1>7, StepKinds

\* What live clients show of parseable notifications is on disk, whether a
\* listing or an event told them: every removal was announced, by the turn's
\* clean-up, a preempt, a discarding rule or a restart tool.
THEOREM RemovalsAnnounced == Spec => []ShownIsOnDisk
  <1>1. Init => ShownIsOnDisk
    BY DEF Init, ShownIsOnDisk
  <1> QED BY <1>1, TypeCorrect, CustodyHolds, AnnouncedNext, PTL DEF Spec

----------------------------------------------------------------------------
(* What may reach the CLI twice.                                            *)

Repeatable == excused \cup failedTurns

\* No notification is newer than the last file of its name.
Dated == \A m \in delivered \cup current.msgs : m[2] <= created[m[1]]

\* The running turn's messages that are not in flight have left the disk.
TurnLeft == current.msgs \cap OnDisk \subseteq Content(inFlight)

\* The CLI has a message that could come again, its file being there, only if it
\* may be repeated or is in flight.  A first query repeats what may be repeated,
\* and a failed turn's messages may be.
Repeats ==
    /\ OnDisk \cap delivered \subseteq Repeatable \cup Content(inFlight)
    /\ phase = "sending" /\ ~corrected => current.msgs \cap delivered \subseteq Repeatable
    /\ phase \in {"saving", "failed", "post"} => current.msgs \subseteq Repeatable
    /\ redelivered \subseteq Repeatable

Excusable == Dated /\ TurnLeft /\ Repeats

\* Steps that deliver nothing, start no query and leave turn and files alone.
LEMMA ExcusableFrame ==
    ASSUME Excusable,
           UNCHANGED <<files, created, current, inFlight, delivered, redelivered>>,
           UNCHANGED <<excused, failedTurns>>,
           phase' = "sending" /\ ~corrected' => phase = "sending" /\ ~corrected,
           phase' \in {"saving", "failed", "post"} => phase \in {"saving", "failed", "post"}
    PROVE  Excusable'
  <1>1. Dated' /\ TurnLeft'
    BY DEF Excusable, Dated, TurnLeft, OnDisk, Content
  <1>2. OnDisk' = OnDisk /\ Content(inFlight)' = Content(inFlight) /\ Repeatable' = Repeatable
    BY DEF OnDisk, Content, Repeatable
  <1>3. Repeats'
    BY <1>2 DEF Excusable, Repeats
  <1> QED BY <1>1, <1>3 DEF Excusable

\* Nothing of what waits has come from the running turn.
LEMMA WaitingApart ==
    ASSUME Custody, TurnLeft
    PROVE  Waiting \subseteq OnDisk /\ Waiting \cap (current.msgs \cup Content(inFlight)) = {}
  BY DEF Custody, WaitingOnDisk, HeldOnce, TurnLeft

\* What is on disk is dated by its file.
LEMMA OnDiskDated ==
    ASSUME TypeOK
    PROVE  \A m \in OnDisk : m[2] = created[m[1]] /\ created[m[1]] \in Nat
  BY DEF TypeOK, OnDisk, Content

\* The query of a turn and its outcome.
LEMMA ExcusableQuery ==
    ASSUME TypeOK, Custody, Excusable,
           QueryDelivered \/ TurnFails \/ \E got \in BOOLEAN : QueryFails(got)
    PROVE  Excusable'
  <1> USE DEF dir, mon, proc, turn, node, cli, hist
  <1>1. /\ UNCHANGED <<files, created, current, inFlight, corrected>>
        /\ delivered \subseteq delivered' /\ delivered' \subseteq delivered \cup current.msgs
        /\ excused \subseteq excused' /\ failedTurns \subseteq failedTurns'
    BY DEF QueryDelivered, TurnFails, QueryFails, Deliver
  <1>2. OnDisk' = OnDisk /\ Content(inFlight)' = Content(inFlight)
    BY <1>1 DEF OnDisk, Content
  <1>3. Repeatable \subseteq Repeatable'
    BY <1>1 DEF Repeatable
  <1>4. Dated' /\ TurnLeft'
    BY <1>1, <1>2 DEF Excusable, Dated, TurnLeft
  <1>5. OnDisk' \cap delivered' \subseteq Repeatable' \cup Content(inFlight)'
    BY <1>1, <1>2, <1>3 DEF Excusable, Repeats, TurnLeft
  <1>6. phase' # "sending" /\ (phase' \in {"saving", "failed", "post"} => current.msgs \subseteq Repeatable')
    <2>1. CASE QueryDelivered
      BY <2>1 DEF QueryDelivered
    <2>2. CASE TurnFails
      BY <2>2 DEF TurnFails, Repeatable
    <2>3. ASSUME NEW got \in BOOLEAN, QueryFails(got)
          PROVE  phase' = "saving" /\ current.msgs \subseteq Repeatable'
      BY <2>3 DEF QueryFails, Repeatable
    <2> QED BY <2>1, <2>2, <2>3
  <1>7. redelivered' \subseteq Repeatable'
    <2>1. CASE QueryDelivered
      <3>1. phase = "sending" /\ redelivered' = redelivered \cup
               ((IF corrected THEN {} ELSE current.msgs) \cap delivered)
        BY <2>1 DEF QueryDelivered, Deliver
      <3> QED BY <3>1, <1>3 DEF Excusable, Repeats
    <2>2. CASE TurnFails
      BY <2>2, <1>3 DEF TurnFails, Excusable, Repeats
    <2>3. ASSUME NEW got \in BOOLEAN, QueryFails(got)
          PROVE  redelivered' \subseteq Repeatable'
      <3>1. redelivered' \subseteq redelivered \cup (IF corrected THEN {} ELSE current.msgs)
        BY <2>3 DEF QueryFails, Deliver
      <3>2. (IF corrected THEN {} ELSE current.msgs) \subseteq excused'
        BY <2>3 DEF QueryFails
      <3> QED BY <3>1, <3>2, <1>3 DEF Excusable, Repeats, Repeatable
    <2> QED BY <2>1, <2>2, <2>3
  <1> QED BY <1>1, <1>4, <1>5, <1>6, <1>7 DEF Excusable, Repeats

\* A turn starts with messages that waited, so they may be repeated if the CLI
\* has them.
LEMMA ExcusableStart ==
    ASSUME TypeOK, Custody, Excusable, StartTurn
    PROVE  Excusable'
  <1> USE DEF dir, mon, proc, turn, node, cli, hist
  <1> DEFINE ms == Head(pending).msgs
  <1>1. /\ UNCHANGED <<files, created, delivered, redelivered, excused, failedTurns>>
        /\ current'.msgs = ms /\ inFlight' = PathsOf(ms)
        /\ phase' = "sending" /\ phase = "loop" /\ pending # <<>>
    BY DEF StartTurn
  <1>2. inFlight = {} /\ Content({}) = {}
    BY <1>1 DEF Custody, TurnAccounted, Content
  <1>3. ms \subseteq OnDisk
    <2>1. ms \subseteq SeqMsgs(pending)
      BY <1>1, SeqMsgsHeadTail DEF TypeOK
    <2> QED BY <2>1 DEF Custody, WaitingOnDisk, Waiting
  <1>4. OnDisk' = OnDisk /\ Content(inFlight)' = ms /\ Repeatable' = Repeatable
    <2>1. Content(PathsOf(ms)) = ms
      BY <1>3, ContentOfPaths DEF OnDisk
    <2> QED BY <2>1, <1>1 DEF OnDisk, Content, Repeatable
  <1> HIDE DEF ms
  <1>5. Dated'
    <2>1. \A m \in ms : m[2] <= created[m[1]]
      BY <1>3, OnDiskDated
    <2> QED BY <2>1, <1>1 DEF Excusable, Dated
  <1>6. OnDisk \cap delivered \subseteq Repeatable
    BY <1>2 DEF Excusable, Repeats
  <1>7. TurnLeft' /\ Repeats'
    BY <1>1, <1>3, <1>4, <1>6 DEF Excusable, TurnLeft, Repeats
  <1> QED BY <1>5, <1>7 DEF Excusable

\* A preempt and its outcome: its messages leave the disk, or may be repeated.
LEMMA ExcusablePreempt ==
    ASSUME TypeOK, Custody, Excusable,
           PreemptDelivered \/ \E got \in BOOLEAN : PreemptFails(got)
    PROVE  Excusable'
  <1> USE DEF dir, mon, proc, turn, node, cli, hist
  <1> DEFINE ms == arrived[1].msgs
  <1>1. /\ UNCHANGED <<created, current, inFlight, corrected, failedTurns>>
        /\ arrived # <<>> /\ phase' = AfterSend
        /\ delivered \subseteq delivered' /\ delivered' \subseteq delivered \cup ms
        /\ redelivered' \subseteq redelivered \cup (ms \cap delivered)
        /\ \/ excused' = excused /\ files' = files \ PathsOf(ms)
           \/ excused' = excused \cup ms /\ files' = files
    BY DEF PreemptDelivered, PreemptFails, Deliver, Clear
  <1>2. ms \subseteq Waiting
    <2>1. SeqMsgs(arrived) = ms
      BY <1>1, SeqMsgsOne DEF TypeOK
    <2> QED BY <2>1 DEF Waiting
  <1>3. ms \subseteq OnDisk /\ ms \cap (current.msgs \cup Content(inFlight)) = {}
    BY <1>2, WaitingApart DEF Excusable
  <1>4. Content(PathsOf(ms)) = ms
    BY <1>3, ContentOfPaths DEF OnDisk
  <1> HIDE DEF ms
  <1>5. /\ OnDisk' \subseteq OnDisk /\ Content(inFlight)' = Content(inFlight)
        /\ Repeatable \subseteq Repeatable'
        /\ OnDisk' \cap ms = {} \/ ms \subseteq Repeatable'
    <2>1. OnDisk' = Content(files')
      BY <1>1, ContentFixed
    <2>2. Content(files \ PathsOf(ms)) = OnDisk \ ms
      <3>1. Content(files \ PathsOf(ms)) = Content(files) \ Content(PathsOf(ms))
        BY ContentAlgebra
      <3> QED BY <3>1, <1>4 DEF OnDisk
    <2>3. Content(inFlight)' = Content(inFlight)
      BY <1>1 DEF Content
    <2> QED BY <1>1, <2>1, <2>2, <2>3 DEF Repeatable, OnDisk
  <1>6. ms \cap delivered \subseteq Repeatable
    BY <1>3 DEF Excusable, Repeats
  <1>7. Dated'
    <2>1. \A m \in ms : m[2] <= created[m[1]]
      BY <1>3, OnDiskDated
    <2> QED BY <2>1, <1>1 DEF Excusable, Dated
  <1>8. phase' = "sending" => phase = "sending"
    BY <1>1 DEF AfterSend
  <1>9. phase' \in {"saving", "failed", "post"} => phase \in {"saving", "failed", "post"}
    BY <1>1 DEF AfterSend
  <1>10. TurnLeft' /\ Repeats'
    BY <1>1, <1>3, <1>5, <1>6, <1>8, <1>9 DEF Excusable, TurnLeft, Repeats
  <1> QED BY <1>7, <1>10 DEF Excusable

\* The end of a turn, a restart tool and the end of the process: what was in
\* flight is gone from the disk or may be repeated.
LEMMA ExcusableEnds ==
    ASSUME TypeOK, Custody, Excusable, PostTurn \/ LifecycleTool \/ Ends
    PROVE  Excusable'
  <1> USE DEF dir, mon, proc, turn, node, cli, hist
  <1>1. NoTurn.msgs = {} /\ Content({}) = {}
    BY DEF NoTurn, Content
  <1>2. Content(inFlight) \subseteq current.msgs
    BY DEF Custody, TurnAccounted
  <1>3. InWrite \subseteq OnDisk \cup current.msgs
    <2>1. arrived # <<>> => SeqMsgs(arrived) = arrived[1].msgs
      BY SeqMsgsOne DEF TypeOK
    <2>2. arrived # <<>> => arrived[1].msgs \subseteq OnDisk
      BY <2>1 DEF Custody, WaitingOnDisk, Waiting
    <2> QED BY <2>2 DEF InWrite
  <1>4. /\ created' = created /\ inFlight' = {} /\ files' \subseteq files
        /\ current'.msgs \subseteq current.msgs
        /\ delivered \subseteq delivered' /\ delivered' \subseteq delivered \cup InWrite
        /\ Repeatable \subseteq Repeatable'
    BY <1>1 DEF PostTurn, LifecycleTool, Ends, Gone, Clear, Repeatable
  <1>5. OnDisk' = Content(files') /\ OnDisk' \subseteq OnDisk /\ Content(inFlight)' = {}
    BY <1>4, ContentFixed, ContentAlgebra DEF OnDisk, Content
  <1>6. Dated'
    <2>1. \A m \in InWrite : m[2] <= created[m[1]]
      BY <1>3, OnDiskDated DEF Excusable, Dated
    <2> QED BY <2>1, <1>4 DEF Excusable, Dated
  <1>7. CASE PostTurn \/ LifecycleTool
    <2>1. UNCHANGED <<delivered, redelivered>>
          /\ \/ files' = files \ inFlight
             \/ PostTurn /\ current.msgs \subseteq Repeatable'
      BY <1>7 DEF PostTurn, LifecycleTool, Clear, Repeatable
    <2>2. OnDisk' \cap Content(inFlight) \subseteq Repeatable'
      <3>1. files' = files \ inFlight => OnDisk' = OnDisk \ Content(inFlight)
        <4>1. Content(files \ inFlight) = Content(files) \ Content(inFlight)
          BY ContentAlgebra
        <4> QED BY <4>1, <1>5 DEF OnDisk
      <3> QED BY <2>1, <3>1, <1>2
    <2>3. CASE PostTurn
      <3>1. phase' = "loop" /\ current'.msgs = {}
        BY <2>3, <1>1 DEF PostTurn
      <3>2. TurnLeft'
        BY <3>1 DEF TurnLeft
      <3>3. Repeats'
        BY <2>1, <2>2, <3>1, <1>4, <1>5 DEF Excusable, Repeats
      <3> QED BY <1>6, <3>2, <3>3 DEF Excusable
    <2>4. CASE LifecycleTool
      <3>1. /\ UNCHANGED <<phase, corrected, current, excused, failedTurns>>
            /\ files' = files \ inFlight
        BY <2>4 DEF LifecycleTool, Clear
      <3>2. OnDisk' = OnDisk \ Content(inFlight)
        <4>1. Content(files \ inFlight) = Content(files) \ Content(inFlight)
          BY ContentAlgebra
        <4> QED BY <3>1, <4>1, <1>5 DEF OnDisk
      <3>3. TurnLeft'
        BY <3>1, <3>2 DEF Excusable, TurnLeft
      <3>4. Repeatable' = Repeatable
        BY <3>1 DEF Repeatable
      <3>5. Repeats'
        BY <2>1, <3>1, <3>2, <3>4, <1>5 DEF Excusable, Repeats
      <3> QED BY <1>6, <3>3, <3>5 DEF Excusable
    <2> QED BY <1>7, <2>3, <2>4
  <1>8. CASE Ends
    <2>1. PICK got \in BOOLEAN : Gone(got)
      BY <1>8 DEF Ends
    <2>2. /\ phase' = "down" /\ current' = NoTurn
          /\ redelivered' \subseteq redelivered \cup InWrite
          /\ excused' = excused \cup InWrite \cup (IF phase = "failed" THEN {} ELSE current.msgs)
          /\ failedTurns' = failedTurns
      BY <2>1 DEF Gone
    <2>3. InWrite \cup current.msgs \subseteq Repeatable'
      BY <2>2, <1>4 DEF Excusable, Repeats, Repeatable
    <2>4. TurnLeft' /\ Repeats'
      BY <2>2, <2>3, <1>1, <1>2, <1>4, <1>5 DEF Excusable, TurnLeft, Repeats
    <2> QED BY <1>6, <2>4 DEF Excusable
  <1> QED BY <1>7, <1>8

\* New files are newer than anything the CLI got.
LEMMA ExcusableFiles ==
    ASSUME TypeOK, Custody, Excusable, Writes \/ Ticks
    PROVE  Excusable'
  <1> USE DEF dir, mon, proc, turn, node, cli, hist
  <1>1. /\ UNCHANGED <<current, inFlight, delivered, redelivered, excused, failedTurns>>
        /\ UNCHANGED <<phase, corrected>>
    BY DEF Writes, Write, Ticks, MonitorTick
  <1>2. /\ \A p \in Paths : created'[p] \in Nat /\ created[p] \in Nat /\ created[p] <= created'[p]
        /\ \A p \in files : created'[p] = created[p]
        /\ \A p \in files' \ files : created'[p] = created[p] + 1
        /\ files \subseteq Paths /\ files' \subseteq Paths
    <2>1. created \in [Paths -> Nat] /\ files \subseteq Paths
      BY DEF TypeOK
    <2>2. CASE Writes
      BY <2>1, <2>2 DEF Writes, Write
    <2>3. CASE Ticks
      <3>1. PICK drops \in SUBSET (Dream \cup Proactive) : MonitorTick(drops)
        BY <2>3 DEF Ticks
      <3>2. drops \cap files = {} /\ drops \subseteq Paths
        BY <3>1, PathsAssumption DEF MonitorTick, MayDrop
      <3>3. /\ files' \subseteq files \cup drops
            /\ created' = [p \in Paths |-> IF p \in drops THEN created[p] + 1 ELSE created[p]]
        BY <3>1 DEF MonitorTick
      <3> QED BY <2>1, <3>2, <3>3
    <2> QED BY <2>2, <2>3
  <1>3. delivered \cup current.msgs \subseteq Msg
    BY DEF TypeOK, Turn
  <1>4. \A m \in delivered \cup current.msgs : m[1] \in Paths /\ m[2] \in Nat /\ m[2] <= created[m[1]]
    BY <1>3 DEF Msg, Excusable, Dated
  <1>5. Dated'
    <2> SUFFICES ASSUME NEW m \in delivered \cup current.msgs PROVE m[2] <= created'[m[1]]
      BY <1>1 DEF Dated
    <2> QED BY <1>2, <1>4
  <1>6. OnDisk' \cap (delivered \cup current.msgs) \subseteq OnDisk
    <2> SUFFICES ASSUME NEW m \in delivered \cup current.msgs, m \in OnDisk' PROVE m \in OnDisk
      OBVIOUS
    <2>1. PICK p \in files' : m = <<p, created'[p]>>
      BY DEF OnDisk, Content
    <2>2. p \in files
      BY <2>1, <1>2, <1>4
    <2> QED BY <2>1, <2>2, <1>2 DEF OnDisk, Content
  <1>7. Content(inFlight)' = Content(inFlight)
    <2>1. Content(inFlight) \subseteq Content(files)
      BY DEF Custody, WaitingOnDisk, OnDisk
    <2>2. inFlight \subseteq files
      BY <2>1, ContentAlgebra
    <2> QED BY <2>2, <1>1, <1>2 DEF Content
  <1>8. TurnLeft'
    BY <1>1, <1>6, <1>7 DEF Excusable, TurnLeft
  <1>9. Repeats'
    BY <1>1, <1>6, <1>7 DEF Excusable, Repeats, Repeatable
  <1> QED BY <1>5, <1>8, <1>9 DEF Excusable

\* Every step keeps what may be repeated under control.
LEMMA ExcusableNext == TypeOK /\ Custody /\ Excusable /\ [Next]_vars => Excusable'
  <1> SUFFICES ASSUME TypeOK, Custody, Excusable, [Next]_vars PROVE Excusable'
    OBVIOUS
  <1> USE DEF dir, mon, proc, turn, node, cli, hist
  <1>1. CASE UNCHANGED vars
    BY <1>1, ExcusableFrame DEF vars
  <1>2. CASE Quiet
    <2>1. CASE QueryDelivered \/ TurnFails \/ \E got \in BOOLEAN : QueryFails(got)
      BY <2>1, ExcusableQuery
    <2>2. CASE ~(QueryDelivered \/ TurnFails \/ \E got \in BOOLEAN : QueryFails(got))
      <3>1. UNCHANGED <<files, created, current, inFlight>>
        BY <1>2, QuietFrame
      <3>2. /\ UNCHANGED <<delivered, redelivered, excused, failedTurns>>
            /\ phase' = "sending" /\ ~corrected' => phase = "sending" /\ ~corrected
            /\ phase' \in {"saving", "failed", "post"} => phase \in {"saving", "failed", "post"}
        BY <1>2, <2>2 DEF Quiet, OpenSession, SessionFails, BatchDone, FailureSaved, TurnCloses,
              DashCorrection, TurnEnds, SecondSignal, CliStarts, CliMessage, CliCompacts, AuthLost,
              SignOut, SignIn, Sigterm, ClientConnects, CliResult
      <3> QED BY <3>1, <3>2, ExcusableFrame
    <2> QED BY <2>1, <2>2
  <1>3. CASE Moves
    <2>1. CASE StartTurn
      BY <2>1, ExcusableStart
    <2>2. CASE \E got \in BOOLEAN : PreemptFails(got)
      BY <2>2, ExcusablePreempt
    <2>3. CASE ~(StartTurn \/ \E got \in BOOLEAN : PreemptFails(got))
      <3>1. /\ UNCHANGED <<files, created, current, inFlight, corrected, delivered, redelivered>>
            /\ UNCHANGED <<excused, failedTurns>>
            /\ phase' = "sending" => phase = "sending"
            /\ phase' \in {"saving", "failed", "post"} => phase \in {"saving", "failed", "post"}
        BY <1>3, <2>3 DEF Moves, TakeTurn, PutBack, Spin, DeferTurn, WatcherSends, WatcherQueues
      <3> QED BY <3>1, ExcusableFrame
    <2> QED BY <2>1, <2>2, <2>3
  <1>4. CASE Clears \/ Ends
    BY <1>4, ExcusableEnds, ExcusablePreempt DEF Clears
  <1>5. CASE Boots
    <2>1. /\ UNCHANGED <<files, created, current, inFlight, corrected, delivered, redelivered>>
          /\ UNCHANGED <<excused, failedTurns>> /\ phase' \in {"opening", "off"}
      BY <1>5 DEF Boots, Boot
    <2> QED BY <2>1, ExcusableFrame
  <1>6. CASE Writes \/ Ticks
    BY <1>6, ExcusableFiles
  <1>7. CASE Routing
    <2>1. /\ UNCHANGED <<created, current, inFlight, corrected, delivered, redelivered>>
          /\ UNCHANGED <<excused, failedTurns, phase>> /\ files' \subseteq files
      BY <1>7 DEF Routing, MonitorRoute
    <2>2. OnDisk' \subseteq OnDisk /\ Content(inFlight)' = Content(inFlight)
      BY <2>1 DEF OnDisk, Content
    <2>3. Dated' /\ TurnLeft'
      BY <2>1, <2>2 DEF Excusable, Dated, TurnLeft
    <2>4. Repeats'
      BY <2>1, <2>2 DEF Excusable, Repeats, Repeatable
    <2> QED BY <2>3, <2>4 DEF Excusable
  <1> QED BY <1>1, <1>2, <1>3, <1>4, <1>5, <1>6, <1>7, StepKinds

\* The CLI gets a notification twice only after a send in doubt, an end of the
\* process or a sign-out under it, or the failure of its turn.
THEOREM RepeatsExcused == Spec => []RedeliveryExcused
  <1>1. Init => Excusable
    BY DEF Init, Excusable, Dated, TurnLeft, Repeats, Repeatable, OnDisk, Content, NoTurn
  <1>2. Excusable => RedeliveryExcused
    BY DEF Excusable, Repeats, Repeatable, RedeliveryExcused
  <1> QED BY <1>1, <1>2, TypeCorrect, CustodyHolds, ExcusableNext, PTL DEF Spec

----------------------------------------------------------------------------
(* Counting boot turns.                                                     *)

BootsIn(s) == Cardinality({i \in DOMAIN s : s[i].boot})
BootOf(t) == IF t.boot THEN 1 ELSE 0

\* The count of two queues joined.
LEMMA BootsInConcat ==
    ASSUME NEW s \in Seq(Turn), NEW t \in Seq(Turn)
    PROVE  /\ BootsIn(s) \in Nat /\ BootsIn(t) \in Nat
           /\ BootsIn(s \o t) = BootsIn(s) + BootsIn(t)
  <1> DEFINE S == {i \in 1..Len(s) : s[i].boot}
             T == {i \in 1..Len(t) : t[i].boot}
             U == {i \in 1..(Len(s) + Len(t)) : i > Len(s) /\ (s \o t)[i].boot}
             f == [i \in T |-> Len(s) + i]
  <1>1. Len(s) \in Nat /\ Len(t) \in Nat
    OBVIOUS
  <1>2. /\ DOMAIN s = 1..Len(s) /\ DOMAIN t = 1..Len(t)
        /\ DOMAIN (s \o t) = 1..(Len(s) + Len(t))
    OBVIOUS
  <1>3. \A i \in 1..(Len(s) + Len(t)) : (s \o t)[i] = IF i <= Len(s) THEN s[i] ELSE t[i - Len(s)]
    OBVIOUS
  <1>4. IsFiniteSet(S) /\ IsFiniteSet(T) /\ IsFiniteSet(U)
    <2>1. IsFiniteSet(1..Len(s)) /\ IsFiniteSet(1..Len(t)) /\ IsFiniteSet(1..(Len(s) + Len(t)))
      BY <1>1, FS_Interval
    <2> QED BY <2>1, FS_Subset
  <1>5. BootsIn(s) = Cardinality(S) /\ BootsIn(t) = Cardinality(T)
    BY <1>2 DEF BootsIn
  <1>6. f \in Bijection(T, U)
    <2>1. f \in [T -> U]
      <3> SUFFICES ASSUME NEW i \in T PROVE Len(s) + i \in U
        OBVIOUS
      <3>1. i \in 1..Len(t) /\ t[i].boot
        OBVIOUS
      <3>2. Len(s) + i \in 1..(Len(s) + Len(t)) /\ Len(s) + i > Len(s) /\ ~(Len(s) + i <= Len(s))
            /\ (Len(s) + i) - Len(s) = i
        BY <1>1, <3>1
      <3>3. (s \o t)[Len(s) + i] = t[i]
        BY <1>3, <3>2
      <3> QED BY <3>1, <3>2, <3>3
    <2>2. \A i, j \in T : f[i] = f[j] => i = j
      BY <1>1
    <2>3. \A k \in U : \E i \in T : f[i] = k
      <3> SUFFICES ASSUME NEW k \in U PROVE \E i \in T : f[i] = k
        OBVIOUS
      <3>1. k \in 1..(Len(s) + Len(t)) /\ k > Len(s) /\ (s \o t)[k].boot
        OBVIOUS
      <3>2. k - Len(s) \in 1..Len(t) /\ Len(s) + (k - Len(s)) = k /\ ~(k <= Len(s))
        BY <1>1, <3>1
      <3>3. (s \o t)[k] = t[k - Len(s)]
        BY <1>3, <3>1, <3>2
      <3>4. k - Len(s) \in T
        BY <3>1, <3>2, <3>3
      <3> QED BY <3>2, <3>4
    <2> HIDE DEF f, T, U
    <2> QED BY <2>1, <2>2, <2>3 DEF Bijection, Injection, Surjection, IsInjective
  <1>7. Cardinality(U) = Cardinality(T)
    <2> HIDE DEF f, T, U
    <2>1. ExistsBijection(T, U)
      BY <1>6 DEF ExistsBijection
    <2> QED BY <2>1, <1>4, FS_Bijection
  <1>8. BootsIn(s \o t) = Cardinality(S \cup U)
    <2>1. {i \in 1..(Len(s) + Len(t)) : (s \o t)[i].boot} = S \cup U
      <3>1. \A i \in 1..(Len(s) + Len(t)) : i <= Len(s) => i \in 1..Len(s) /\ (s \o t)[i] = s[i]
        BY <1>1, <1>3
      <3>2. \A i \in 1..Len(s) : i \in 1..(Len(s) + Len(t)) /\ i <= Len(s)
        BY <1>1
      <3>3. \A i \in 1..(Len(s) + Len(t)) : i <= Len(s) \/ i > Len(s)
        BY <1>1
      <3> QED BY <3>1, <3>2, <3>3
    <2> QED BY <2>1, <1>2 DEF BootsIn
  <1>9. S \cap U = {}
    BY <1>1
  <1> HIDE DEF S, T, U, f
  <1>10. /\ Cardinality(S) \in Nat /\ Cardinality(T) \in Nat
         /\ Cardinality(S \cup U) = Cardinality(S) + Cardinality(U) - Cardinality(S \cap U)
         /\ Cardinality(S \cap U) = 0
    BY <1>4, <1>9, FS_CardinalityType, FS_Union, FS_EmptySet
  <1> QED BY <1>5, <1>7, <1>8, <1>10

\* The count of a queue of one turn, and of none.
LEMMA BootsInSmall ==
    /\ BootsIn(<<>>) = 0
    /\ \A t \in Turn : BootsIn(<<t>>) = BootOf(t) /\ BootOf(t) \in {0, 1}
  <1>1. BootsIn(<<>>) = 0
    BY FS_EmptySet DEF BootsIn
  <1>2. ASSUME NEW t \in Turn PROVE BootsIn(<<t>>) = BootOf(t) /\ BootOf(t) \in {0, 1}
    <2>1. DOMAIN <<t>> = {1} /\ <<t>>[1] = t
      OBVIOUS
    <2>2. CASE t.boot
      <3>1. {i \in DOMAIN <<t>> : <<t>>[i].boot} = {1}
        BY <2>1, <2>2
      <3>2. Cardinality({1}) = 1
        BY FS_Singleton
      <3> QED BY <2>2, <3>1, <3>2 DEF BootsIn, BootOf
    <2>3. CASE ~t.boot
      <3>1. {i \in DOMAIN <<t>> : <<t>>[i].boot} = {}
        BY <2>1, <2>3
      <3> QED BY <2>3, <3>1, FS_EmptySet DEF BootsIn, BootOf
    <2> QED BY <2>2, <2>3
  <1> QED BY <1>1, <1>2

\* The count of a queue is that of its head and its rest.
LEMMA BootsInHeadTail ==
    ASSUME NEW s \in Seq(Turn), s # <<>>
    PROVE  /\ BootsIn(Tail(s)) \in Nat /\ BootOf(Head(s)) \in {0, 1}
           /\ BootsIn(s) = BootOf(Head(s)) + BootsIn(Tail(s))
  <1>1. Head(s) \in Turn /\ Tail(s) \in Seq(Turn)
    BY SeqMsgsHeadTail
  <1>2. s = <<Head(s)>> \o Tail(s)
    OBVIOUS
  <1>3. <<Head(s)>> \in Seq(Turn)
    BY <1>1, SeqMsgsSmall
  <1>4. BootsIn(Tail(s)) \in Nat
        /\ BootsIn(<<Head(s)>> \o Tail(s)) = BootsIn(<<Head(s)>>) + BootsIn(Tail(s))
    BY <1>1, <1>3, BootsInConcat
  <1> QED BY <1>1, <1>2, <1>4, BootsInSmall

\* Appending a turn adds its count.
LEMMA BootsInAppend ==
    ASSUME NEW s \in Seq(Turn), NEW t \in Turn
    PROVE  BootsIn(Append(s, t)) = BootsIn(s) + BootOf(t)
  <1>1. Append(s, t) = s \o <<t>>
    OBVIOUS
  <1>2. <<t>> \in Seq(Turn) /\ BootsIn(<<t>>) = BootOf(t)
    BY SeqMsgsSmall, BootsInSmall
  <1> QED BY <1>1, <1>2, BootsInConcat

\* Turns made of notifications are no boot turns.
LEMMA BootsInSections ==
    ASSUME NEW ms \in SUBSET Msg
    PROVE  /\ \A i \in DOMAIN Sections(ms) : ~Sections(ms)[i].boot
           /\ BootsIn(Sections(ms)) = 0
  <1> DEFINE system == {m \in ms : m[1] \in Core}
             external == ms \ system
             one(g) == IF g = {} THEN <<>> ELSE <<[msgs |-> g, boot |-> FALSE]>>
  <1>1. Sections(ms) = one(system) \o one(external)
    BY DEF Sections
  <1>2. ASSUME NEW g \in SUBSET Msg
        PROVE  one(g) \in Seq([msgs : SUBSET Msg, boot : {FALSE}])
    <2> DEFINE N == [msgs : SUBSET Msg, boot : {FALSE}]
               t == [msgs |-> g, boot |-> FALSE]
    <2>1. CASE g = {}
      BY <2>1
    <2>2. CASE g # {}
      <3>1. t \in N
        OBVIOUS
      <3>2. one(g) = <<t>>
        BY <2>2
      <3> HIDE DEF t, N, one
      <3>3. one(g) \in Seq(N)
        BY <3>1, <3>2
      <3> QED BY <3>3 DEF N
    <2> QED BY <2>1, <2>2
  <1>3. system \in SUBSET Msg /\ external \in SUBSET Msg
    OBVIOUS
  <1>4. one(system) \o one(external) \in Seq([msgs : SUBSET Msg, boot : {FALSE}])
    <2>1. one(system) \in Seq([msgs : SUBSET Msg, boot : {FALSE}])
      BY <1>2, <1>3
    <2>2. one(external) \in Seq([msgs : SUBSET Msg, boot : {FALSE}])
      BY <1>2, <1>3
    <2> HIDE DEF one, system, external
    <2> QED BY <2>1, <2>2
  <1> HIDE DEF one, system, external
  <1>5. \A i \in DOMAIN Sections(ms) : ~Sections(ms)[i].boot
    <2> DEFINE N == [msgs : SUBSET Msg, boot : {FALSE}]
    <2> SUFFICES ASSUME NEW i \in DOMAIN Sections(ms) PROVE ~Sections(ms)[i].boot
      OBVIOUS
    <2>1. Sections(ms) \in Seq(N)
      BY <1>1, <1>4
    <2>2. \A u \in N : ~u.boot
      OBVIOUS
    <2> HIDE DEF N
    <2>3. Sections(ms)[i] \in N
      BY <2>1
    <2> QED BY <2>2, <2>3
  <1>6. {i \in DOMAIN Sections(ms) : Sections(ms)[i].boot} = {}
    BY <1>5
  <1> QED BY <1>5, <1>6, FS_EmptySet DEF BootsIn

BootCount ==
    bootPending = BootsIn(queue) + BootsIn(pending) + BootsIn(arrived) + BootOf(current)

\* BootCount is BootCountExact.
LEMMA BootCountMeaning ==
    ASSUME TypeOK
    PROVE  BootCount <=> BootCountExact
  <1>1. BootsIn(<<current>>) = BootOf(current)
    BY BootsInSmall DEF TypeOK
  <1> QED BY <1>1 DEF BootCount, BootCountExact, BootsIn

\* A boot turn that is over is counted off.
LEMMA ConsumedOne ==
    ASSUME bootPending \in Nat, NEW t \in Turn, BootOf(t) <= bootPending
    PROVE  Consumed(t) = bootPending - BootOf(t)
  <1>1. CASE t.boot
    BY <1>1 DEF Consumed, BootOf
  <1>2. CASE ~t.boot
    BY <1>2 DEF Consumed, BootOf
  <1> QED BY <1>1, <1>2

\* The counts of the queues are numbers.
LEMMA BootsInNat ==
    ASSUME TypeOK
    PROVE  /\ BootsIn(queue) \in Nat /\ BootsIn(pending) \in Nat /\ BootsIn(arrived) \in Nat
           /\ BootOf(current) \in {0, 1} /\ bootPending \in Nat
  <1>1. /\ queue \in Seq(Turn) /\ pending \in Seq(Turn) /\ arrived \in Seq(Turn)
        /\ current \in Turn /\ bootPending \in Nat
    BY DEF TypeOK
  <1> QED BY <1>1, BootsInConcat, BootsInSmall

\* A preempt under way is one turn.
LEMMA ArrivedOne ==
    ASSUME TypeOK, arrived # <<>>
    PROVE  arrived[1] \in Turn /\ BootsIn(arrived) = BootOf(arrived[1])
  <1>1. arrived \in Seq(Turn) /\ Len(arrived) \in Nat /\ Len(arrived) <= 1
    BY DEF TypeOK
  <1>2. Len(arrived) = 1 /\ arrived[1] \in Turn
    <2>1. Len(arrived) # 0
      BY <1>1
    <2>2. \A n \in Nat : n <= 1 /\ n # 0 => n = 1
      OBVIOUS
    <2>3. Len(arrived) = 1
      BY <1>1, <2>1, <2>2, Zenon
    <2> QED BY <1>1, <2>3
  <1>3. arrived = <<arrived[1]>>
    BY <1>1, <1>2
  <1> QED BY <1>2, <1>3, BootsInSmall

\* Moving a turn moves its count; dropping one counts it off.
LEMMA BootCountMoves ==
    ASSUME TypeOK, Custody, Stages, BootCount, Moves
    PROVE  BootCount'
  <1> USE DEF dir, mon, proc, turn, node, cli, hist
  <1>1. /\ queue \in Seq(Turn) /\ pending \in Seq(Turn) /\ arrived \in Seq(Turn)
        /\ current \in Turn /\ bootPending \in Nat
    BY DEF TypeOK
  <1>2. /\ BootsIn(queue) \in Nat /\ BootsIn(pending) \in Nat /\ BootsIn(arrived) \in Nat
        /\ BootOf(current) \in {0, 1} /\ bootPending \in Nat
    BY BootsInNat
  <1>3. BootsIn(<<>>) = 0 /\ \A t \in Turn : BootsIn(<<t>>) = BootOf(t)
    BY BootsInSmall
  <1>4. queue # <<>> => /\ Head(queue) \in Turn /\ Tail(queue) \in Seq(Turn)
                        /\ BootsIn(Tail(queue)) \in Nat /\ BootOf(Head(queue)) \in {0, 1}
                        /\ BootsIn(queue) = BootOf(Head(queue)) + BootsIn(Tail(queue))
    BY <1>1, SeqMsgsHeadTail, BootsInHeadTail
  <1>5. pending # <<>> => /\ Head(pending) \in Turn /\ Tail(pending) \in Seq(Turn)
                          /\ BootsIn(Tail(pending)) \in Nat /\ BootOf(Head(pending)) \in {0, 1}
                          /\ BootsIn(pending) = BootOf(Head(pending)) + BootsIn(Tail(pending))
    BY <1>1, SeqMsgsHeadTail, BootsInHeadTail
  <1>6. arrived # <<>> => arrived[1] \in Turn /\ BootsIn(arrived) = BootOf(arrived[1])
    BY ArrivedOne
  <1>7. CASE TakeTurn
    <2>1. /\ queue # <<>> /\ queue' = Tail(queue) /\ pending = <<>> /\ pending' = <<Head(queue)>>
          /\ UNCHANGED <<arrived, current, bootPending>>
      BY <1>7 DEF TakeTurn, Stages
    <2> QED BY <1>2, <1>3, <1>4, <2>1 DEF BootCount
  <1>8. CASE PutBack
    <2>1. /\ queue' = queue \o pending /\ pending' = <<>>
          /\ UNCHANGED <<arrived, current, bootPending>>
      BY <1>8 DEF PutBack
    <2>2. BootsIn(queue \o pending) = BootsIn(queue) + BootsIn(pending)
      BY <1>1, BootsInConcat
    <2> QED BY <1>2, <1>3, <2>1, <2>2 DEF BootCount
  <1>9. CASE Spin
    <2>1. /\ queue # <<>> /\ queue' = Append(Tail(queue), Head(queue))
          /\ UNCHANGED <<pending, arrived, current, bootPending>>
      BY <1>9 DEF Spin
    <2>2. BootsIn(Append(Tail(queue), Head(queue))) = BootsIn(Tail(queue)) + BootOf(Head(queue))
      BY <1>4, <2>1, BootsInAppend
    <2> QED BY <1>2, <1>4, <2>1, <2>2 DEF BootCount
  <1>10. CASE DeferTurn
    <2>1. /\ pending # <<>> /\ pending' = Tail(pending) /\ bootPending' = Consumed(Head(pending))
          /\ UNCHANGED <<queue, arrived, current>>
      BY <1>10 DEF DeferTurn
    <2>2. Consumed(Head(pending)) = bootPending - BootOf(Head(pending))
      BY <1>2, <1>5, <2>1, ConsumedOne DEF BootCount
    <2> QED BY <1>2, <1>5, <2>1, <2>2 DEF BootCount
  <1>11. CASE StartTurn
    <2>1. /\ pending # <<>> /\ pending' = Tail(pending) /\ current' = Head(pending)
          /\ UNCHANGED <<queue, arrived, bootPending>>
      BY <1>11 DEF StartTurn
    <2>2. BootOf(current) = 0
      BY <1>11 DEF StartTurn, Custody, TurnAccounted, NoTurn, BootOf
    <2> QED BY <1>2, <1>5, <2>1, <2>2 DEF BootCount
  <1>12. CASE WatcherSends
    <2>1. /\ queue # <<>> /\ queue' = Tail(queue) /\ arrived = <<>> /\ arrived' = <<Head(queue)>>
          /\ UNCHANGED <<pending, current, bootPending>>
      BY <1>12 DEF WatcherSends
    <2> QED BY <1>2, <1>3, <1>4, <2>1 DEF BootCount
  <1>13. CASE WatcherQueues
    <2>1. /\ queue # <<>> /\ queue' = Tail(queue) /\ pending' = Append(pending, Head(queue))
          /\ UNCHANGED <<arrived, current, bootPending>>
      BY <1>13 DEF WatcherQueues, Later
    <2>2. BootsIn(Append(pending, Head(queue))) = BootsIn(pending) + BootOf(Head(queue))
      BY <1>1, <1>4, <2>1, BootsInAppend
    <2> QED BY <1>2, <1>4, <2>1, <2>2 DEF BootCount
  <1>14. ASSUME NEW got \in BOOLEAN, PreemptFails(got) PROVE BootCount'
    <2>1. /\ arrived # <<>> /\ arrived' = <<>> /\ pending' = Append(pending, arrived[1])
          /\ UNCHANGED <<queue, current, bootPending>>
      BY <1>14 DEF PreemptFails, Later
    <2>2. BootsIn(Append(pending, arrived[1])) = BootsIn(pending) + BootOf(arrived[1])
      BY <1>1, <1>6, <2>1, BootsInAppend
    <2> QED BY <1>2, <1>3, <1>6, <2>1, <2>2 DEF BootCount
  <1> QED BY <1>7, <1>8, <1>9, <1>10, <1>11, <1>12, <1>13, <1>14 DEF Moves

\* Routing appends the sections of two batches to the queue.
LEMMA RoutingAppends ==
    ASSUME TypeOK, Routing
    PROVE  \E urgent, flushed \in SUBSET Msg :
              queue' = queue \o Sections(urgent) \o Sections(flushed)
  <1>1. PICK route : MonitorRoute(route)
    BY DEF Routing
  <1> DEFINE chosen(d) == {m \in Fresh : route[m[1]] = d}
  <1>2. PICK flush \in BOOLEAN :
           queue' = queue \o Sections(chosen("interrupt"))
                          \o Sections(IF flush THEN snoozed \cup chosen("snooze") ELSE {})
    BY <1>1, Zenon DEF MonitorRoute
  <1>3. chosen("interrupt") \in SUBSET Msg /\ snoozed \cup chosen("snooze") \in SUBSET Msg
    BY DEF TypeOK, Fresh
  <1> HIDE DEF chosen
  <1>4. (IF flush THEN snoozed \cup chosen("snooze") ELSE {}) \in SUBSET Msg
    BY <1>3
  <1> QED BY <1>2, <1>3, <1>4

\* Every step keeps the boot count exact.
LEMMA BootCountNext == TypeOK /\ Custody /\ Stages /\ BootCount /\ [Next]_vars => BootCount'
  <1> SUFFICES ASSUME TypeOK, Custody, Stages, BootCount, [Next]_vars PROVE BootCount'
    OBVIOUS
  <1> USE DEF dir, mon, proc, turn, node, cli, hist
  <1>1. /\ BootsIn(queue) \in Nat /\ BootsIn(pending) \in Nat /\ BootsIn(arrived) \in Nat
        /\ BootOf(current) \in {0, 1} /\ bootPending \in Nat
    BY BootsInNat
  <1>2. BootsIn(<<>>) = 0 /\ BootOf(NoTurn) = 0
    BY BootsInSmall DEF NoTurn, BootOf
  <1>3. CASE UNCHANGED vars \/ Quiet \/ Writes \/ Ticks \/ LifecycleTool
    <2>1. UNCHANGED <<queue, pending, arrived, current, bootPending>>
      BY <1>3, QuietFrame DEF vars, Writes, Write, Ticks, MonitorTick, LifecycleTool
    <2> QED BY <2>1 DEF BootCount
  <1>4. CASE Moves
    BY <1>4, BootCountMoves
  <1>5. CASE PostTurn
    <2>1. /\ UNCHANGED <<queue, pending, arrived>> /\ current' = NoTurn
          /\ bootPending' = Consumed(current)
      BY <1>5 DEF PostTurn
    <2>2. Consumed(current) = bootPending - BootOf(current)
      BY <1>1, ConsumedOne DEF BootCount, TypeOK
    <2> QED BY <1>1, <1>2, <2>1, <2>2 DEF BootCount
  <1>6. CASE PreemptDelivered
    <2>1. /\ UNCHANGED <<queue, pending, current>> /\ arrived # <<>> /\ arrived' = <<>>
          /\ bootPending' = Consumed(arrived[1])
      BY <1>6 DEF PreemptDelivered
    <2>2. arrived[1] \in Turn /\ BootsIn(arrived) = BootOf(arrived[1])
      BY <2>1, ArrivedOne
    <2>3. Consumed(arrived[1]) = bootPending - BootOf(arrived[1])
      BY <1>1, <2>2, ConsumedOne DEF BootCount
    <2> QED BY <1>1, <1>2, <2>1, <2>2, <2>3 DEF BootCount
  <1>7. CASE Ends
    <2>1. /\ queue' = <<>> /\ pending' = <<>> /\ arrived' = <<>> /\ current' = NoTurn
          /\ bootPending' = 0
      BY <1>7 DEF Ends, Gone
    <2> QED BY <1>2, <2>1 DEF BootCount
  <1>8. CASE Boots
    <2>1. PICK signedIn \in BOOLEAN, batch \in BootBatches : Boot(signedIn, batch)
      BY <1>8 DEF Boots
    <2>2. /\ queue' = [i \in DOMAIN batch |-> [msgs |-> {}, boot |-> batch[i]]]
          /\ bootPending' = BootTurns(batch) /\ UNCHANGED <<pending, arrived, current>>
          /\ pending = <<>> /\ arrived = <<>>
      BY <2>1 DEF Boot, Stages, Busy
    <2>3. BootOf(current) = 0
      BY <1>2, <2>1 DEF Boot, Custody, TurnAccounted
    <2>4. BootsIn(queue') = BootTurns(batch)
      <3>1. {i \in DOMAIN queue' : queue'[i].boot} = {i \in DOMAIN batch : batch[i]}
        BY <2>2
      <3> QED BY <3>1 DEF BootsIn, BootTurns
    <2>5. BootTurns(batch) \in Nat
      BY <2>2, TypeNext DEF TypeOK
    <2> QED BY <1>2, <2>2, <2>3, <2>4, <2>5 DEF BootCount
  <1>9. CASE Routing
    <2>1. PICK urgent \in SUBSET Msg, flushed \in SUBSET Msg :
             queue' = queue \o Sections(urgent) \o Sections(flushed)
      BY <1>9, RoutingAppends
    <2>2. UNCHANGED <<pending, arrived, current, bootPending>>
      BY <1>9 DEF Routing, MonitorRoute
    <2>3. /\ Sections(urgent) \in Seq(Turn) /\ Sections(flushed) \in Seq(Turn)
          /\ BootsIn(Sections(urgent)) = 0 /\ BootsIn(Sections(flushed)) = 0
      BY SectionsSplit, BootsInSections
    <2>4. queue \in Seq(Turn)
      BY DEF TypeOK
    <2>5. queue \o Sections(urgent) \in Seq(Turn) /\ BootsIn(queue \o Sections(urgent)) = BootsIn(queue)
      BY <1>1, <2>3, <2>4, SeqMsgsConcat, BootsInConcat
    <2>6. BootsIn(queue') = BootsIn(queue)
      <3>1. BootsIn(queue \o Sections(urgent) \o Sections(flushed))
               = BootsIn(queue \o Sections(urgent)) + BootsIn(Sections(flushed))
        BY <2>3, <2>5, BootsInConcat
      <3> QED BY <1>1, <2>1, <2>3, <2>5, <3>1
    <2> QED BY <2>2, <2>6 DEF BootCount
  <1> QED BY <1>3, <1>4, <1>5, <1>6, <1>7, <1>8, <1>9, StepKinds DEF Clears

\* GET /status counts exactly the non-interruptible boot turns still to finish,
\* wherever the processor and the watcher have put them.
THEOREM BootTurnsCounted == Spec => []BootCountExact
  <1>1. Init => BootCount
    BY BootsInSmall DEF Init, BootCount, BootOf, NoTurn
  <1>2. TypeOK /\ BootCount => BootCountExact
    BY BootCountMeaning
  <1> QED BY <1>1, <1>2, TypeCorrect, CustodyHolds, StagesInit, StagesNext, BootCountNext, PTL DEF Spec

----------------------------------------------------------------------------
(* Nothing the monitor takes for queued is forgotten.                       *)

\* A turn fails into a shutdown, and only a failed turn's query is in doubt.
Failing ==
    /\ phase \in {"failed", "post"} => graceful
    /\ undelivered => phase \in {"saving", "failed", "post"}

\* Every step keeps this.
LEMMA FailingNext == TypeOK /\ Failing /\ [Next]_vars => Failing'
  <1> SUFFICES ASSUME TypeOK, Failing, [Next]_vars PROVE Failing'
    OBVIOUS
  <1> USE DEF dir, mon, proc, turn, node, cli, hist
  <1>1. CASE UNCHANGED vars
    BY <1>1 DEF vars, Failing
  <1>2. CASE Quiet
    <2>1. CASE FailureSaved
      BY <2>1 DEF FailureSaved, Failing
    <2>2. CASE \E got \in BOOLEAN : QueryFails(got)
      BY <2>2 DEF QueryFails, Failing
    <2>3. CASE ~(FailureSaved \/ \E got \in BOOLEAN : QueryFails(got))
      <3>1. /\ graceful => graceful'
            /\ undelivered' = undelivered
            /\ phase' = phase \/ (phase' \notin {"failed", "post"} /\ phase \notin {"saving", "failed", "post"})
        BY <1>2, <2>3 DEF Quiet, OpenSession, SessionFails, BatchDone, QueryDelivered, TurnFails,
              TurnCloses, DashCorrection, TurnEnds, SecondSignal, CliStarts, CliMessage,
              CliCompacts, AuthLost, SignOut, SignIn, Sigterm, ClientConnects, CliResult
      <3> QED BY <3>1 DEF Failing
    <2> QED BY <2>1, <2>2, <2>3
  <1>3. CASE Moves
    <2>1. CASE StartTurn
      BY <2>1 DEF StartTurn, Failing
    <2>2. CASE \E got \in BOOLEAN : PreemptFails(got)
      BY <2>2 DEF PreemptFails, AfterSend, Failing
    <2>3. CASE TakeTurn \/ PutBack \/ Spin \/ DeferTurn \/ WatcherSends \/ WatcherQueues
      <3>1. UNCHANGED <<graceful, undelivered>>
        BY <2>3 DEF TakeTurn, PutBack, Spin, DeferTurn, WatcherSends, WatcherQueues
      <3>2. phase' = phase \/ (phase' \in {"loop", "spin"} /\ phase \in {"idle", "loop"})
        BY <2>3 DEF TakeTurn, PutBack, Spin, DeferTurn, WatcherSends, WatcherQueues
      <3> QED BY <3>1, <3>2 DEF Failing
    <2> QED BY <1>3, <2>1, <2>2, <2>3 DEF Moves
  <1>4. CASE Clears
    BY <1>4 DEF Clears, PostTurn, PreemptDelivered, LifecycleTool, AfterSend, Failing
  <1>5. CASE Ends
    BY <1>5 DEF Ends, Gone, Failing
  <1>6. CASE Boots
    BY <1>6 DEF Boots, Boot, Failing
  <1>7. CASE Writes \/ Ticks \/ Routing
    <2>1. UNCHANGED <<graceful, undelivered, phase>>
      BY <1>7 DEF Writes, Write, Ticks, MonitorTick, Routing, MonitorRoute
    <2> QED BY <2>1 DEF Failing
  <1> QED BY <1>1, <1>2, <1>3, <1>4, <1>5, <1>6, <1>7, StepKinds

\* The process is to go on as it is.
Staying == Up /\ Authenticated /\ ~restartDue /\ ~graceful

\* A name that was seen has been used, and what the monitor takes for queued is held.
Tracked ==
    /\ \A p \in files \cup queuedPaths \cup PathsOf(loaded) : created[p] >= 1
    /\ Staying => Content(files \cap queuedPaths) \subseteq Held

\* While no file is created, names stay used.
LEMMA TrackedFrame ==
    ASSUME Tracked, created' = created, files' \subseteq files,
           queuedPaths' \cup PathsOf(loaded') \subseteq queuedPaths \cup PathsOf(loaded),
           Staying' => Content(files' \cap queuedPaths') \subseteq Held'
    PROVE  Tracked'
  <1>1. PathsOf(loaded)' = PathsOf(loaded')
    BY DEF PathsOf
  <1>2. Content(files \cap queuedPaths)' = Content(files' \cap queuedPaths')
    BY DEF Content
  <1> QED BY <1>1, <1>2 DEF Tracked

\* Quiet steps hold what was held; moves drop a turn only while signed out.
LEMMA HeldKept ==
    ASSUME TypeOK, Custody, Stages, Quiet \/ Moves, Staying'
    PROVE  Staying /\ Held \subseteq Held'
  <1> USE DEF dir, mon, proc, turn, node, cli, hist
  <1>1. CASE Quiet
    <2>1. UNCHANGED <<queue, pending, arrived, current, snoozed>>
      BY <1>1, QuietFrame
    <2>2. Held' = Held
      BY <2>1 DEF Held
    <2>3. phase' # "down" => phase # "down"
      BY <1>1 DEF Quiet, OpenSession, SessionFails, BatchDone, QueryDelivered, TurnFails,
              FailureSaved, TurnCloses, DashCorrection, TurnEnds, SecondSignal, CliStarts,
              CliMessage, CliCompacts, AuthLost, SignOut, SignIn, Sigterm,
              ClientConnects, QueryFails, CliResult,
              Client, LoopFree, Up
    <2>4. /\ auth' = auth \/ auth' = "lost" \/ restartDue'
          /\ restartDue => restartDue'
          /\ graceful => graceful'
      BY <1>1 DEF Quiet, OpenSession, SessionFails, BatchDone, QueryDelivered, TurnFails,
              FailureSaved, TurnCloses, DashCorrection, TurnEnds, SecondSignal, CliStarts,
              CliMessage, CliCompacts, AuthLost, SignOut, SignIn, Sigterm,
              ClientConnects, QueryFails, CliResult
    <2> QED BY <2>2, <2>3, <2>4 DEF Staying, Up, Authenticated
  <1>2. CASE Moves
    <2>1. UNCHANGED <<snoozed, auth, graceful, restartDue>>
      BY <1>2, MovesFrame
    <2>2. phase # "down"
      BY <1>2 DEF Moves, TakeTurn, PutBack, Spin, DeferTurn, StartTurn, WatcherSends,
              WatcherQueues, PreemptFails, TaskRuns, LoopFree, Up
    <2>3. Staying
      BY <2>1, <2>2 DEF Staying, Up, Authenticated
    <2>4. ~DeferTurn
      BY <2>3 DEF DeferTurn, Staying
    <2>5. /\ queue \in Seq(Turn) /\ pending \in Seq(Turn) /\ arrived \in Seq(Turn)
          /\ Len(arrived) <= 1
      BY DEF TypeOK
    <2>6. queue # <<>> => /\ Head(queue) \in Turn /\ Tail(queue) \in Seq(Turn)
                          /\ SeqMsgs(queue) = Head(queue).msgs \cup SeqMsgs(Tail(queue))
      BY <2>5, SeqMsgsHeadTail
    <2>7. SeqMsgs(<<>>) = {} /\ \A t \in Turn : SeqMsgs(<<t>>) = t.msgs
      BY SeqMsgsSmall
    <2>8. CASE TakeTurn
      <3>1. /\ queue # <<>> /\ queue' = Tail(queue) /\ pending = <<>> /\ pending' = <<Head(queue)>>
            /\ UNCHANGED <<arrived, current>>
        BY <2>8 DEF TakeTurn, Stages
      <3> QED BY <2>1, <2>3, <2>6, <2>7, <3>1 DEF Held
    <2>9. CASE PutBack
      <3>1. queue' = queue \o pending /\ UNCHANGED <<arrived, current>>
        BY <2>9 DEF PutBack
      <3>2. SeqMsgs(queue \o pending) = SeqMsgs(queue) \cup SeqMsgs(pending)
        BY <2>5, SeqMsgsConcat
      <3> QED BY <2>1, <2>3, <3>1, <3>2 DEF Held
    <2>10. CASE Spin
      <3>1. /\ queue # <<>> /\ queue' = Append(Tail(queue), Head(queue))
            /\ UNCHANGED <<pending, arrived, current>>
        BY <2>10 DEF Spin
      <3>2. SeqMsgs(Append(Tail(queue), Head(queue))) = SeqMsgs(Tail(queue)) \cup Head(queue).msgs
        BY <2>6, <3>1, SeqMsgsAppend
      <3> QED BY <2>1, <2>3, <2>6, <3>1, <3>2 DEF Held
    <2>11. CASE StartTurn
      <3>1. /\ pending # <<>> /\ pending' = Tail(pending) /\ current' = Head(pending)
            /\ UNCHANGED <<queue, arrived>>
        BY <2>11 DEF StartTurn
      <3>2. current.msgs = {}
        BY <2>11 DEF StartTurn, Custody, TurnAccounted, NoTurn
      <3>3. SeqMsgs(pending) = Head(pending).msgs \cup SeqMsgs(Tail(pending))
        BY <2>5, <3>1, SeqMsgsHeadTail
      <3> QED BY <2>1, <2>3, <3>1, <3>2, <3>3 DEF Held
    <2>12. CASE WatcherSends
      <3>1. /\ queue # <<>> /\ queue' = Tail(queue) /\ arrived = <<>> /\ arrived' = <<Head(queue)>>
            /\ UNCHANGED <<pending, current>>
        BY <2>12 DEF WatcherSends
      <3> QED BY <2>1, <2>3, <2>6, <2>7, <3>1 DEF Held
    <2>13. CASE WatcherQueues
      <3>1. /\ queue # <<>> /\ queue' = Tail(queue) /\ pending' = Append(pending, Head(queue))
            /\ UNCHANGED <<arrived, current>>
        BY <2>13 DEF WatcherQueues, Later
      <3>2. SeqMsgs(Append(pending, Head(queue))) = SeqMsgs(pending) \cup Head(queue).msgs
        BY <2>5, <2>6, <3>1, SeqMsgsAppend
      <3> QED BY <2>1, <2>3, <2>6, <3>1, <3>2 DEF Held
    <2>14. ASSUME NEW got \in BOOLEAN, PreemptFails(got) PROVE Held \subseteq Held'
      <3>1. /\ arrived # <<>> /\ arrived' = <<>> /\ pending' = Append(pending, arrived[1])
            /\ UNCHANGED <<queue, current>>
        BY <2>14 DEF PreemptFails, Later
      <3>2. arrived[1] \in Turn /\ SeqMsgs(arrived) = arrived[1].msgs
        BY <2>5, <3>1, SeqMsgsOne
      <3>3. SeqMsgs(Append(pending, arrived[1])) = SeqMsgs(pending) \cup arrived[1].msgs
        BY <2>5, <3>2, SeqMsgsAppend
      <3> QED BY <2>1, <2>7, <3>1, <3>2, <3>3 DEF Held
    <2> QED BY <1>2, <2>3, <2>4, <2>8, <2>9, <2>10, <2>11, <2>12, <2>13, <2>14 DEF Moves
  <1> QED BY <1>1, <1>2

\* Clearing the files of a turn or a preempt lets go of nothing else.
LEMMA TrackedClears ==
    ASSUME TypeOK, Custody, Stages, Failing, TurnLeft, Tracked, Clears
    PROVE  Tracked'
  <1> USE DEF dir, mon, proc, turn, node, cli, hist
  <1>1. /\ UNCHANGED <<created, queuedPaths, loaded, snoozed, queue, pending>>
        /\ UNCHANGED <<auth, graceful, restartDue>> /\ files' \subseteq files
    BY ClearsFrame
  <1>2. phase # "down"
    BY DEF Clears, PostTurn, PreemptDelivered, LifecycleTool, Client, LoopFree, Up
  <1>3. ASSUME Staying' PROVE Staying
    BY <1>1, <1>2, <1>3 DEF Staying, Up, Authenticated
  <1>4. Content(files' \cap queuedPaths) \subseteq Content(files \cap queuedPaths)
    BY <1>1 DEF Content
  <1>5. ASSUME Staying' PROVE Content(files' \cap queuedPaths) \subseteq Held'
    <2>1. Content(files \cap queuedPaths) \subseteq Held
      BY <1>3, <1>5 DEF Tracked
    <2>2. CASE PostTurn
      <3>1. files' = files \ inFlight
        <4>1. ~KeepsFiles
          BY <1>3, <1>5, <2>2 DEF PostTurn, KeepsFiles, Staying, Failing
        <4> QED BY <2>2, <4>1 DEF PostTurn, Clear
      <3>2. Held' = SeqMsgs(queue) \cup SeqMsgs(pending) \cup SeqMsgs(arrived) \cup NoTurn.msgs \cup snoozed
        BY <1>1, <2>2 DEF PostTurn, Held
      <3>3. Content(files' \cap queuedPaths) \cap current.msgs = {}
        <4>1. Content(files' \cap queuedPaths) \subseteq OnDisk
          BY <1>1 DEF Content, OnDisk
        <4>2. Content(files' \cap queuedPaths) \cap Content(inFlight) = {}
          BY <3>1 DEF Content
        <4> QED BY <4>1, <4>2 DEF TurnLeft
      <3> QED BY <1>4, <2>1, <3>2, <3>3 DEF Held
    <2>3. CASE PreemptDelivered
      <3>1. /\ arrived # <<>> /\ files' = files \ PathsOf(arrived[1].msgs)
            /\ current' = current
        BY <2>3 DEF PreemptDelivered, Clear
      <3>2. SeqMsgs(arrived) = arrived[1].msgs
        BY <3>1, SeqMsgsOne DEF TypeOK
      <3>3. Content(files' \cap queuedPaths) \cap arrived[1].msgs = {}
        BY <3>1 DEF Content, PathsOf
      <3> QED BY <1>1, <1>4, <2>1, <3>1, <3>2, <3>3 DEF Held
    <2>4. CASE LifecycleTool
      BY <1>1, <1>4, <2>1, <2>4 DEF LifecycleTool, Held
    <2> QED BY <2>2, <2>3, <2>4 DEF Clears
  <1> QED BY <1>1, <1>5, TrackedFrame

\* A new file has a new name, so the monitor does not know it.
LEMMA TrackedFiles ==
    ASSUME \A p \in Paths : MaxWrites[p] <= 1, TypeOK, Custody, Tracked, Writes \/ Ticks
    PROVE  Tracked'
  <1> USE DEF dir, mon, proc, turn, node, cli, hist
  <1>1. created \in [Paths -> Nat] /\ files \subseteq Paths /\ MaxWrites \in [Paths -> Nat]
    BY RoutesAssumption DEF TypeOK
  <1>2. /\ files' \subseteq Paths
        /\ \A p \in files' \ files : created[p] = 0 /\ created'[p] = 1
        /\ \A p \in Paths : created'[p] = created[p] \/ (p \notin files /\ created[p] = 0 /\ created'[p] = 1)
        /\ queuedPaths' \subseteq queuedPaths
        /\ PathsOf(loaded') \subseteq PathsOf(loaded) \cup files'
    <2>1. ASSUME NEW p \in Paths, created[p] < MaxWrites[p] PROVE created[p] = 0
      BY <1>1, <2>1
    <2>2. CASE Writes
      <3>1. PICK p \in Paths : Write(p)
        BY <2>2 DEF Writes
      <3>2. /\ p \notin files /\ created[p] = 0 /\ files' = files \cup {p} /\ loaded' = loaded
            /\ created' = [created EXCEPT ![p] = @ + 1] /\ queuedPaths' = queuedPaths
        BY <2>1, <3>1 DEF Write
      <3> QED BY <1>1, <3>2
    <2>3. CASE Ticks
      <3>1. PICK drops \in SUBSET (Dream \cup Proactive) : MonitorTick(drops)
        BY <2>3 DEF Ticks
      <3>2. drops \subseteq Paths
        BY PathsAssumption
      <3>3. \A p \in drops : p \notin files /\ created[p] = 0
        BY <2>1, <3>1, <3>2 DEF MonitorTick, MayDrop
      <3>4. /\ files' = (files \cup drops) \ ((files \cup drops) \cap Malformed)
            /\ created' = [p \in Paths |-> IF p \in drops THEN created[p] + 1 ELSE created[p]]
            /\ queuedPaths' \subseteq queuedPaths
            /\ loaded' = {<<p, created'[p]>> : p \in files'}
        BY <3>1 DEF MonitorTick
      <3>5. PathsOf(loaded') \subseteq files'
        BY <3>4 DEF PathsOf
      <3>6. files' \subseteq files \cup drops /\ files' \subseteq Paths
        BY <1>1, <3>2, <3>4
      <3>7. /\ \A p \in drops : created'[p] = 1
            /\ \A p \in Paths \ drops : created'[p] = created[p]
        BY <1>1, <3>2, <3>3, <3>4
      <3> QED BY <3>3, <3>4, <3>5, <3>6, <3>7
    <2> QED BY <2>2, <2>3
  <1>3. UNCHANGED <<queue, pending, arrived, current, snoozed, phase, auth, graceful, restartDue>>
    BY DEF Writes, Write, Ticks, MonitorTick
  <1>4. Held' = Held /\ (Staying' => Staying)
    BY <1>3 DEF Held, Staying, Up, Authenticated
  <1>5. \A p \in files \cup queuedPaths \cup PathsOf(loaded) : created[p] >= 1
    BY DEF Tracked
  <1>6. files' \cap queuedPaths' \subseteq files \cap queuedPaths
    BY <1>2, <1>5
  <1>7. \A p \in files : created'[p] = created[p]
    BY <1>1, <1>2
  <1>8. Content(files \cap queuedPaths)' \subseteq Content(files \cap queuedPaths)
    BY <1>6, <1>7 DEF Content
  <1>9. \A p \in files' \cup queuedPaths' \cup PathsOf(loaded') : created'[p] >= 1
    <2> SUFFICES ASSUME NEW p \in files' \cup queuedPaths' \cup PathsOf(loaded') PROVE created'[p] >= 1
      OBVIOUS
    <2>1. CASE p \in files' \ files
      BY <2>1, <1>2
    <2>2. CASE p \in files \cup queuedPaths \cup PathsOf(loaded)
      <3>1. files \cup queuedPaths \cup PathsOf(loaded) \subseteq Paths
        BY PathsOfMsgs DEF TypeOK
      <3> QED BY <2>2, <3>1, <1>2, <1>5
    <2> QED BY <2>1, <2>2, <1>2
  <1>10. PathsOf(loaded)' = PathsOf(loaded')
    BY DEF PathsOf
  <1> QED BY <1>4, <1>8, <1>9, <1>10 DEF Tracked

\* What the monitor announces as queued it queues or snoozes.
LEMMA TrackedRoute ==
    ASSUME TypeOK, Custody, Tracked, Routing
    PROVE  Tracked'
  <1> USE DEF dir, mon, proc, turn, node, cli, hist
  <1>1. PICK route \in [PathsOf(Fresh) -> Dispositions] : MonitorRoute(route)
    BY DEF Routing
  <1> DEFINE chosen(d) == {m \in Fresh : route[m[1]] = d}
             trash == chosen("trash")
             urgent == chosen("interrupt")
             later == chosen("snooze")
             kept == Fresh \ trash
  <1>2. /\ files' = files \ PathsOf(trash) /\ queuedPaths' = queuedPaths \cup PathsOf(kept)
        /\ scanning /\ loaded' = {}
        /\ UNCHANGED <<created, pending, arrived, current, phase, auth, graceful, restartDue>>
    BY <1>1 DEF MonitorRoute
  <1>3. kept = urgent \cup later
    <2>1. \A m \in Fresh : m[1] \in PathsOf(Fresh)
      BY DEF PathsOf
    <2>2. \A m \in Fresh : route[m[1]] \in {"interrupt", "snooze", "trash"}
      BY <1>1, <2>1 DEF Dispositions
    <2> QED BY <2>2
  <1>4. PICK flushed \in SUBSET (snoozed \cup later) :
           /\ queue' = queue \o Sections(urgent) \o Sections(flushed)
           /\ snoozed' = (snoozed \cup later) \ flushed
    <2>1. PICK flush \in BOOLEAN :
             /\ queue' = queue \o Sections(urgent)
                              \o Sections(IF flush THEN snoozed \cup later ELSE {})
             /\ snoozed' = IF flush THEN {} ELSE snoozed \cup later
      BY <1>1, Zenon DEF MonitorRoute
    <2> HIDE DEF urgent, later
    <2>2. CASE flush
      BY <2>1, <2>2
    <2>3. CASE ~flush
      BY <2>1, <2>3
    <2> QED BY <2>2, <2>3
  <1>5. Fresh \subseteq OnDisk /\ Fresh \subseteq loaded /\ loaded \subseteq Msg /\ snoozed \subseteq Msg
    BY <1>2 DEF Custody, WaitingOnDisk, Fresh, TypeOK
  <1>6. urgent \subseteq Fresh /\ later \subseteq Fresh /\ kept \subseteq Fresh
    OBVIOUS
  <1> HIDE DEF chosen, trash, urgent, later, kept
  <1>7. SeqMsgs(queue') = SeqMsgs(queue) \cup urgent \cup flushed
    <2>1. urgent \in SUBSET Msg /\ flushed \in SUBSET Msg /\ queue \in Seq(Turn)
      BY <1>5, <1>6 DEF TypeOK
    <2>2. /\ Sections(urgent) \in Seq(Turn) /\ SeqMsgs(Sections(urgent)) = urgent
          /\ Sections(flushed) \in Seq(Turn) /\ SeqMsgs(Sections(flushed)) = flushed
      BY <2>1, SectionsSplit
    <2>3. /\ queue \o Sections(urgent) \in Seq(Turn)
          /\ SeqMsgs(queue \o Sections(urgent)) = SeqMsgs(queue) \cup urgent
      BY <2>1, <2>2, SeqMsgsConcat
    <2>4. SeqMsgs(queue \o Sections(urgent) \o Sections(flushed))
             = SeqMsgs(queue \o Sections(urgent)) \cup SeqMsgs(Sections(flushed))
      BY <2>2, <2>3, SeqMsgsConcat
    <2> QED BY <1>4, <2>2, <2>3, <2>4
  <1>8. Held \cup kept \subseteq Held'
    BY <1>2, <1>3, <1>4, <1>7 DEF Held
  <1>9. Content(PathsOf(kept)) = kept
    BY <1>5, <1>6, ContentOfPaths DEF OnDisk
  <1>10. PathsOf(kept) \subseteq PathsOf(loaded)
    BY <1>5, <1>6 DEF PathsOf
  <1>11. PathsOf(loaded)' = {}
    BY <1>2 DEF PathsOf
  <1>12. \A p \in files' \cup queuedPaths' : created[p] >= 1
    BY <1>2, <1>10 DEF Tracked
  <1>13. Content(files \cap queuedPaths)' \subseteq Content(files \cap queuedPaths) \cup kept
    <2>1. files' \cap queuedPaths' \subseteq (files \cap queuedPaths) \cup PathsOf(kept)
      BY <1>2
    <2>2. Content(files \cap queuedPaths)' \subseteq Content((files \cap queuedPaths) \cup PathsOf(kept))
      BY <1>2, <2>1 DEF Content
    <2>3. Content((files \cap queuedPaths) \cup PathsOf(kept))
             = Content(files \cap queuedPaths) \cup Content(PathsOf(kept))
      BY DEF Content
    <2> QED BY <1>9, <2>2, <2>3
  <1>14. Staying' => Staying
    BY <1>2 DEF Staying, Up, Authenticated
  <1> QED BY <1>2, <1>8, <1>11, <1>12, <1>13, <1>14 DEF Tracked

\* With names used once, every step keeps what is queued in hand.
LEMMA TrackedNext ==
    ASSUME \A p \in Paths : MaxWrites[p] <= 1
    PROVE  TypeOK /\ Custody /\ Stages /\ Failing /\ Excusable /\ Tracked /\ [Next]_vars => Tracked'
  <1> SUFFICES ASSUME TypeOK, Custody, Stages, Failing, Excusable, Tracked, [Next]_vars PROVE Tracked'
    OBVIOUS
  <1>1. CASE UNCHANGED vars
    BY <1>1 DEF vars, dir, mon, proc, node, Tracked, Staying, Up, Authenticated, Held, SeqMsgs,
                Content, PathsOf
  <1>2. CASE Quiet \/ Moves
    <2>1. UNCHANGED <<files, created, queuedPaths, loaded>>
      BY <1>2, QuietFrame, MovesFrame
    <2>2. Staying' => Content(files' \cap queuedPaths') \subseteq Held'
      BY <1>2, <2>1, HeldKept DEF Tracked
    <2> QED BY <2>1, <2>2, TrackedFrame
  <1>3. CASE Clears
    BY <1>3, TrackedClears DEF Excusable
  <1>4. CASE Ends
    <2>1. /\ created' = created /\ files' = files /\ queuedPaths' = {} /\ loaded' = {}
          /\ phase' = "down"
      BY <1>4 DEF Ends, Gone
    <2>2. PathsOf({}) = {}
      BY DEF PathsOf
    <2> QED BY <2>1, <2>2, TrackedFrame DEF Staying, Up
  <1>5. CASE Boots
    <2>1. UNCHANGED <<files, created, queuedPaths, loaded>> /\ queuedPaths = {}
      BY <1>5 DEF Boots, Boot, dir, mon, Stages
    <2>2. Content({}) = {}
      BY DEF Content
    <2> QED BY <2>1, <2>2, TrackedFrame
  <1>6. CASE Writes \/ Ticks
    BY <1>6, TrackedFiles
  <1>7. CASE Routing
    BY <1>7, TrackedRoute
  <1> QED BY <1>1, <1>2, <1>3, <1>4, <1>5, <1>6, <1>7, StepKinds

\* With names used once (what the producers do, except for dreams), a file the
\* monitor takes for queued is on its way to the CLI: none waits for an
\* unrelated restart.
THEOREM NothingStranded ==
    ASSUME \A p \in Paths : MaxWrites[p] <= 1
    PROVE  Spec => []NoneStranded
  <1>1. Init => Failing /\ Tracked /\ Excusable
    BY DEF Init, Failing, Tracked, PathsOf, Content, Held, SeqMsgs, NoTurn, Excusable, Dated,
           TurnLeft, Repeats, Repeatable, OnDisk
  <1>2. Tracked => NoneStranded
    <2> SUFFICES ASSUME Tracked, Staying, NEW p \in files \cap queuedPaths
                 PROVE  <<p, created[p]>> \in Held
      BY DEF NoneStranded, Staying
    <2> QED BY DEF Tracked, Content
  <1>3. TypeOK /\ Custody /\ Stages /\ Failing /\ Excusable /\ Tracked /\ [Next]_vars => Tracked'
    BY TrackedNext
  <1> QED BY <1>1, <1>2, <1>3, TypeCorrect, CustodyHolds, StagesInit, StagesNext, FailingNext,
             ExcusableNext, PTL DEF Spec

----------------------------------------------------------------------------
(* Nothing overtakes the boot turns.                                        *)

NoBoots(s) == \A i \in DOMAIN s : ~s[i].boot
AllBoots(s) == \A i \in DOMAIN s : s[i].boot

\* The boot turns of s come first, and have no messages.
BootsLead(s) == \A i, j \in DOMAIN s : i < j /\ s[j].boot => s[i].boot
BootsEmpty(s) == \A i \in DOMAIN s : s[i].boot => s[i].msgs = {}

\* Until a shutdown mixes them, the turns that wait are in order, first pending,
\* then queued; a preempt and a turn that is no boot turn come after all boot turns.
BootOrder ==
    /\ BootsEmpty(queue) /\ BootsEmpty(pending)
    /\ current.boot => current.msgs = {}
    /\ phase \notin {"spin", "dead"} =>
          /\ BootsLead(queue) /\ BootsLead(pending)
          /\ NoBoots(queue) \/ AllBoots(pending)
    /\ NoBoots(arrived)
    /\ arrived # <<>> => ~current.boot
    /\ arrived # <<>> \/ (phase \in Busy /\ ~current.boot) => NoBoots(queue) /\ NoBoots(pending)

\* What the rest of a queue inherits.
LEMMA OrderHeadTail ==
    ASSUME NEW s \in Seq(Turn), s # <<>>
    PROVE  /\ BootsEmpty(s) => BootsEmpty(Tail(s)) /\ (Head(s).boot => Head(s).msgs = {})
           /\ BootsLead(s) => BootsLead(Tail(s))
           /\ BootsLead(s) /\ ~Head(s).boot => NoBoots(s)
           /\ NoBoots(s) => NoBoots(Tail(s)) /\ ~Head(s).boot
           /\ AllBoots(s) => AllBoots(Tail(s)) /\ Head(s).boot
  <1>1. Len(s) \in Nat /\ Len(s) > 0 /\ DOMAIN s = 1..Len(s) /\ Len(Tail(s)) = Len(s) - 1
        /\ DOMAIN Tail(s) = 1..(Len(s) - 1) /\ Head(s) = s[1]
    OBVIOUS
  <1>2. \A i \in 1..Len(Tail(s)) : Tail(s)[i] = s[i + 1]
    OBVIOUS
  <1>3. \A i \in DOMAIN Tail(s) : i + 1 \in DOMAIN s /\ Tail(s)[i] = s[i + 1]
    BY <1>1, <1>2
  <1>4. 1 \in DOMAIN s /\ \A i \in DOMAIN s : i = 1 \/ 1 < i
    BY <1>1
  <1>5. \A i, j \in DOMAIN Tail(s) : i < j => i + 1 < j + 1
    BY <1>1
  <1>6. BootsLead(s) => BootsLead(Tail(s))
    BY <1>3, <1>5 DEF BootsLead
  <1>7. BootsLead(s) /\ ~Head(s).boot => NoBoots(s)
    BY <1>1, <1>4 DEF BootsLead, NoBoots
  <1> QED BY <1>1, <1>3, <1>4, <1>6, <1>7 DEF BootsEmpty, NoBoots, AllBoots

\* Concatenation keeps the order if the boot turns of the second queue follow only
\* boot turns.
LEMMA OrderConcat ==
    ASSUME NEW s \in Seq(Turn), NEW t \in Seq(Turn)
    PROVE  /\ BootsEmpty(s) /\ BootsEmpty(t) => BootsEmpty(s \o t)
           /\ BootsLead(s) /\ BootsLead(t) /\ (AllBoots(s) \/ NoBoots(t)) => BootsLead(s \o t)
           /\ NoBoots(s) /\ NoBoots(t) => NoBoots(s \o t)
           /\ AllBoots(s) /\ AllBoots(t) => AllBoots(s \o t)
  <1>1. Len(s) \in Nat /\ Len(t) \in Nat /\ DOMAIN s = 1..Len(s) /\ DOMAIN t = 1..Len(t)
        /\ DOMAIN (s \o t) = 1..(Len(s) + Len(t))
    OBVIOUS
  <1>2. \A i \in DOMAIN (s \o t) : (s \o t)[i] = IF i <= Len(s) THEN s[i] ELSE t[i - Len(s)]
    OBVIOUS
  <1>3. \A i \in DOMAIN (s \o t) :
           \/ i \in DOMAIN s /\ (s \o t)[i] = s[i]
           \/ i - Len(s) \in DOMAIN t /\ i > Len(s) /\ (s \o t)[i] = t[i - Len(s)]
    BY <1>1, <1>2
  <1>4. ASSUME BootsLead(s), BootsLead(t), AllBoots(s) \/ NoBoots(t)
        PROVE  BootsLead(s \o t)
    <2> SUFFICES ASSUME NEW i \in DOMAIN (s \o t), NEW j \in DOMAIN (s \o t), i < j, (s \o t)[j].boot
                 PROVE  (s \o t)[i].boot
      BY DEF BootsLead
    <2>1. i \in Nat /\ j \in Nat
      BY <1>1
    <2>2. CASE j \in DOMAIN s /\ (s \o t)[j] = s[j]
      <3>1. i \in DOMAIN s /\ (s \o t)[i] = s[i]
        BY <1>1, <1>2, <2>1, <2>2
      <3> QED BY <2>2, <3>1, <1>4 DEF BootsLead
    <2>3. CASE j - Len(s) \in DOMAIN t /\ j > Len(s) /\ (s \o t)[j] = t[j - Len(s)]
      <3>1. AllBoots(s)
        BY <1>4, <2>3 DEF NoBoots
      <3>2. CASE i \in DOMAIN s /\ (s \o t)[i] = s[i]
        BY <3>1, <3>2 DEF AllBoots
      <3>3. CASE i - Len(s) \in DOMAIN t /\ i > Len(s) /\ (s \o t)[i] = t[i - Len(s)]
        <4>1. i - Len(s) < j - Len(s)
          BY <1>1, <2>1
        <4> QED BY <4>1, <2>3, <3>3, <1>4 DEF BootsLead
      <3> QED BY <1>3, <3>2, <3>3
    <2> QED BY <1>3, <2>2, <2>3
  <1>5. BootsEmpty(s) /\ BootsEmpty(t) => BootsEmpty(s \o t)
    BY <1>3 DEF BootsEmpty
  <1>6. NoBoots(s) /\ NoBoots(t) => NoBoots(s \o t)
    BY <1>3 DEF NoBoots
  <1>7. AllBoots(s) /\ AllBoots(t) => AllBoots(s \o t)
    BY <1>3 DEF AllBoots
  <1> QED BY <1>4, <1>5, <1>6, <1>7

\* One turn is in order.
LEMMA OrderSmall ==
    /\ BootsEmpty(<<>>) /\ BootsLead(<<>>) /\ NoBoots(<<>>) /\ AllBoots(<<>>)
    /\ \A t \in Turn : /\ BootsLead(<<t>>) /\ (NoBoots(<<t>>) <=> ~t.boot)
                       /\ (AllBoots(<<t>>) <=> t.boot)
                       /\ (t.boot => t.msgs = {}) => BootsEmpty(<<t>>)
  <1>1. BootsEmpty(<<>>) /\ BootsLead(<<>>) /\ NoBoots(<<>>) /\ AllBoots(<<>>)
    BY DEF BootsEmpty, BootsLead, NoBoots, AllBoots
  <1>2. ASSUME NEW t \in Turn
        PROVE  /\ BootsLead(<<t>>) /\ (NoBoots(<<t>>) <=> ~t.boot)
               /\ (AllBoots(<<t>>) <=> t.boot)
               /\ (t.boot => t.msgs = {}) => BootsEmpty(<<t>>)
    <2>1. DOMAIN <<t>> = {1} /\ <<t>>[1] = t
      OBVIOUS
    <2>2. \A i, j \in {1} : ~(i < j)
      OBVIOUS
    <2>3. BootsLead(<<t>>)
      BY <2>1, <2>2 DEF BootsLead
    <2> QED BY <2>1, <2>3 DEF BootsEmpty, NoBoots, AllBoots
  <1> QED BY <1>1, <1>2

\* Appending a turn.
LEMMA OrderAppend ==
    ASSUME NEW s \in Seq(Turn), NEW t \in Turn
    PROVE  /\ BootsEmpty(s) /\ (t.boot => t.msgs = {}) => BootsEmpty(Append(s, t))
           /\ BootsLead(s) /\ (AllBoots(s) \/ ~t.boot) => BootsLead(Append(s, t))
           /\ NoBoots(s) /\ ~t.boot => NoBoots(Append(s, t))
           /\ AllBoots(s) /\ t.boot => AllBoots(Append(s, t))
  <1>1. Append(s, t) = s \o <<t>>
    OBVIOUS
  <1>2. <<t>> \in Seq(Turn)
    BY SeqMsgsSmall
  <1>3. /\ BootsLead(<<t>>) /\ (NoBoots(<<t>>) <=> ~t.boot) /\ (AllBoots(<<t>>) <=> t.boot)
        /\ (t.boot => t.msgs = {}) => BootsEmpty(<<t>>)
    BY OrderSmall
  <1> QED BY <1>1, <1>2, <1>3, OrderConcat

\* Moving a turn keeps the order.
LEMMA BootOrderMoves ==
    ASSUME TypeOK, Stages, BootOrder, Moves
    PROVE  BootOrder'
  <1> USE DEF dir, mon, proc, turn, node, cli, hist
  <1>1. /\ queue \in Seq(Turn) /\ pending \in Seq(Turn) /\ arrived \in Seq(Turn)
        /\ current \in Turn
    BY DEF TypeOK
  <1>2. queue # <<>> =>
           /\ Head(queue) \in Turn /\ Tail(queue) \in Seq(Turn)
           /\ BootsEmpty(queue) => BootsEmpty(Tail(queue)) /\ (Head(queue).boot => Head(queue).msgs = {})
           /\ BootsLead(queue) => BootsLead(Tail(queue))
           /\ BootsLead(queue) /\ ~Head(queue).boot => NoBoots(queue)
           /\ NoBoots(queue) => NoBoots(Tail(queue)) /\ ~Head(queue).boot
    BY <1>1, SeqMsgsHeadTail, OrderHeadTail
  <1>3. pending # <<>> =>
           /\ Head(pending) \in Turn /\ Tail(pending) \in Seq(Turn)
           /\ BootsEmpty(pending) => BootsEmpty(Tail(pending)) /\ (Head(pending).boot => Head(pending).msgs = {})
           /\ BootsLead(pending) => BootsLead(Tail(pending))
           /\ BootsLead(pending) /\ ~Head(pending).boot => NoBoots(pending)
           /\ NoBoots(pending) => NoBoots(Tail(pending)) /\ ~Head(pending).boot
           /\ AllBoots(pending) => AllBoots(Tail(pending)) /\ Head(pending).boot
    BY <1>1, SeqMsgsHeadTail, OrderHeadTail
  <1>4. /\ BootsEmpty(<<>>) /\ BootsLead(<<>>) /\ NoBoots(<<>>) /\ AllBoots(<<>>)
        /\ \A t \in Turn : /\ BootsLead(<<t>>) /\ (NoBoots(<<t>>) <=> ~t.boot)
                           /\ (AllBoots(<<t>>) <=> t.boot)
                           /\ (t.boot => t.msgs = {}) => BootsEmpty(<<t>>)
    BY OrderSmall
  <1>5. CASE TakeTurn
    <2>1. /\ queue # <<>> /\ queue' = Tail(queue) /\ pending' = <<Head(queue)>>
          /\ UNCHANGED <<arrived, current>> /\ phase = "idle" /\ phase' = "loop"
          /\ arrived = <<>>
      BY <1>5 DEF TakeTurn, Stages, Busy
    <2> QED BY <1>2, <1>4, <2>1 DEF BootOrder, Busy
  <1>6. CASE PutBack
    <2>1. /\ queue' = queue \o pending /\ pending' = <<>> /\ phase = "loop" /\ phase' = "spin"
          /\ UNCHANGED <<arrived, current>> /\ arrived = <<>>
      BY <1>6 DEF PutBack, Stages, Busy
    <2>2. BootsEmpty(queue \o pending)
      BY <1>1, OrderConcat DEF BootOrder
    <2> QED BY <1>4, <2>1, <2>2 DEF BootOrder, Busy
  <1>7. CASE Spin
    <2>1. /\ queue # <<>> /\ queue' = Append(Tail(queue), Head(queue)) /\ phase = "spin"
          /\ UNCHANGED <<pending, arrived, current, phase>> /\ arrived = <<>>
      BY <1>7 DEF Spin, Stages, Busy
    <2>2. BootsEmpty(Append(Tail(queue), Head(queue)))
      BY <1>2, <2>1, OrderAppend DEF BootOrder
    <2> QED BY <2>1, <2>2 DEF BootOrder, Busy
  <1>8. CASE DeferTurn
    <2>1. /\ pending # <<>> /\ pending' = Tail(pending) /\ phase = "loop"
          /\ UNCHANGED <<queue, arrived, current, phase>> /\ arrived = <<>>
      BY <1>8 DEF DeferTurn, Stages, Busy
    <2> QED BY <1>3, <2>1 DEF BootOrder, Busy
  <1>9. CASE StartTurn
    <2>1. /\ pending # <<>> /\ pending' = Tail(pending) /\ current' = Head(pending)
          /\ phase = "loop" /\ phase' = "sending"
          /\ UNCHANGED <<queue, arrived>> /\ arrived = <<>>
      BY <1>9 DEF StartTurn, Stages, Busy
    <2>2. BootsLead(pending) /\ (NoBoots(queue) \/ AllBoots(pending))
      BY <2>1 DEF BootOrder
    <2>3. ~Head(pending).boot => NoBoots(queue) /\ NoBoots(Tail(pending))
      BY <1>3, <2>1, <2>2
    <2> QED BY <1>3, <2>1, <2>2, <2>3 DEF BootOrder, Busy
  <1>10. CASE WatcherSends
    <2>1. /\ queue # <<>> /\ queue' = Tail(queue) /\ arrived' = <<Head(queue)>>
          /\ UNCHANGED <<pending, current, phase>>
          /\ phase \in {"sending", "waiting"} /\ ~current.boot
      BY <1>10 DEF WatcherSends, Preemptible, TurnOpen
    <2>2. NoBoots(queue) /\ NoBoots(pending)
      BY <2>1 DEF BootOrder, Busy
    <2>3. NoBoots(<<Head(queue)>>)
      BY <1>2, <1>4, <2>1, <2>2
    <2> QED BY <1>2, <2>1, <2>2, <2>3 DEF BootOrder, Busy
  <1>11. CASE WatcherQueues
    <2>1. /\ queue # <<>> /\ queue' = Tail(queue) /\ pending' = Append(pending, Head(queue))
          /\ UNCHANGED <<arrived, current, phase>> /\ arrived = <<>>
          /\ phase \in {"sending", "waiting", "closing", "saving", "done"}
      BY <1>11 DEF WatcherQueues, Later, TaskRuns
    <2>2. /\ BootsEmpty(Append(pending, Head(queue)))
          /\ BootsLead(pending) /\ (AllBoots(pending) \/ ~Head(queue).boot) => BootsLead(Append(pending, Head(queue)))
          /\ NoBoots(pending) /\ ~Head(queue).boot => NoBoots(Append(pending, Head(queue)))
          /\ AllBoots(pending) /\ Head(queue).boot => AllBoots(Append(pending, Head(queue)))
      BY <1>1, <1>2, <2>1, OrderAppend DEF BootOrder
    <2>3. BootsLead(queue) /\ BootsLead(pending) /\ (NoBoots(queue) \/ AllBoots(pending))
      BY <2>1 DEF BootOrder
    <2>4. /\ BootsLead(Append(pending, Head(queue))) /\ BootsLead(Tail(queue))
          /\ NoBoots(Tail(queue)) \/ AllBoots(Append(pending, Head(queue)))
      BY <1>2, <2>1, <2>2, <2>3
    <2>5. ~current.boot => NoBoots(Tail(queue)) /\ NoBoots(Append(pending, Head(queue)))
      BY <1>2, <2>1, <2>2 DEF BootOrder, Busy
    <2> QED BY <1>2, <2>1, <2>2, <2>4, <2>5 DEF BootOrder, Busy
  <1>12. ASSUME NEW got \in BOOLEAN, PreemptFails(got) PROVE BootOrder'
    <2>1. /\ arrived # <<>> /\ arrived' = <<>> /\ pending' = Append(pending, arrived[1])
          /\ UNCHANGED <<queue, current>> /\ phase' = AfterSend
          /\ phase \in {"sending", "waiting", "closing", "done", "saving", "failed"}
      BY <1>12 DEF PreemptFails, Later, Stages, Busy
    <2>2. arrived[1] \in Turn /\ ~arrived[1].boot
      <3>1. Len(arrived) \in Nat /\ Len(arrived) # 0 /\ DOMAIN arrived = 1..Len(arrived)
        BY <1>1, <2>1
      <3>2. 1 \in DOMAIN arrived
        BY <3>1
      <3> QED BY <1>1, <3>2 DEF BootOrder, NoBoots
    <2>3. NoBoots(queue) /\ NoBoots(pending) /\ BootsLead(queue) /\ BootsLead(pending)
      BY <2>1 DEF BootOrder
    <2>4. /\ BootsEmpty(Append(pending, arrived[1])) /\ BootsLead(Append(pending, arrived[1]))
          /\ NoBoots(Append(pending, arrived[1]))
      BY <1>1, <2>2, <2>3, OrderAppend DEF BootOrder
    <2> QED BY <1>4, <2>1, <2>3, <2>4 DEF BootOrder
  <1> QED BY <1>5, <1>6, <1>7, <1>8, <1>9, <1>10, <1>11, <1>12 DEF Moves

\* With boot batches of non-interruptible turns only, every step keeps the order.
LEMMA BootOrderNext ==
    ASSUME \A batch \in BootBatches : \A i \in DOMAIN batch : batch[i]
    PROVE  TypeOK /\ Custody /\ Stages /\ BootOrder /\ [Next]_vars => BootOrder'
  <1> SUFFICES ASSUME TypeOK, Custody, Stages, BootOrder, [Next]_vars PROVE BootOrder'
    OBVIOUS
  <1> USE DEF dir, mon, proc, turn, node, cli, hist
  <1>1. /\ BootsEmpty(<<>>) /\ BootsLead(<<>>) /\ NoBoots(<<>>) /\ AllBoots(<<>>)
    BY OrderSmall
  <1>2. CASE UNCHANGED vars \/ Writes \/ Ticks \/ LifecycleTool
    <2>1. UNCHANGED <<queue, pending, arrived, current, phase>>
      BY <1>2 DEF vars, Writes, Write, Ticks, MonitorTick, LifecycleTool
    <2> QED BY <2>1 DEF BootOrder
  <1>3. CASE Quiet
    <2>1. UNCHANGED <<queue, pending, arrived, current>>
      BY <1>3, QuietFrame
    <2>2. /\ phase' \notin {"spin", "dead"} => phase \notin {"spin", "dead"}
          /\ phase' \in Busy => phase \in Busy
      BY <1>3 DEF Quiet, OpenSession, SessionFails, BatchDone, QueryDelivered, TurnFails,
              FailureSaved, TurnCloses, DashCorrection, TurnEnds, SecondSignal, CliStarts,
              CliMessage, CliCompacts, AuthLost, SignOut, SignIn, Sigterm,
              ClientConnects, QueryFails, CliResult, Busy
    <2> QED BY <2>1, <2>2 DEF BootOrder
  <1>4. CASE Moves
    BY <1>4, BootOrderMoves
  <1>5. CASE PostTurn
    <2>1. /\ UNCHANGED <<queue, pending, arrived>> /\ arrived = <<>> /\ current' = NoTurn
          /\ phase \in {"done", "post"} /\ phase' = "loop"
      BY <1>5 DEF PostTurn
    <2> QED BY <2>1 DEF BootOrder, NoTurn, Busy
  <1>6. CASE PreemptDelivered
    <2>1. /\ UNCHANGED <<queue, pending, current>> /\ arrived' = <<>> /\ arrived # <<>>
          /\ phase \in {"sending", "waiting", "closing", "done", "saving", "failed"}
          /\ phase' = AfterSend
      BY <1>6 DEF PreemptDelivered, Stages, Busy
    <2> QED BY <1>1, <2>1 DEF BootOrder
  <1>7. CASE Ends
    <2>1. /\ queue' = <<>> /\ pending' = <<>> /\ arrived' = <<>> /\ current' = NoTurn
          /\ phase' = "down"
      BY <1>7 DEF Ends, Gone
    <2> QED BY <1>1, <2>1 DEF BootOrder, NoTurn, Busy
  <1>8. CASE Boots
    <2>1. PICK signedIn \in BOOLEAN, batch \in BootBatches : Boot(signedIn, batch)
      BY <1>8 DEF Boots
    <2>2. /\ queue' = [i \in DOMAIN batch |-> [msgs |-> {}, boot |-> batch[i]]]
          /\ UNCHANGED <<pending, arrived, current>> /\ pending = <<>> /\ arrived = <<>>
          /\ phase' \in {"opening", "off"}
      BY <2>1 DEF Boot, Stages, Busy
    <2>3. \A i \in DOMAIN queue' : queue'[i].boot /\ queue'[i].msgs = {}
      BY <2>2
    <2>4. BootsEmpty(queue') /\ BootsLead(queue')
      BY <2>3 DEF BootsEmpty, BootsLead
    <2> QED BY <1>1, <2>2, <2>4 DEF BootOrder, Busy
  <1>9. CASE Routing
    <2>1. PICK urgent \in SUBSET Msg, flushed \in SUBSET Msg :
             queue' = queue \o Sections(urgent) \o Sections(flushed)
      BY <1>9, RoutingAppends
    <2>2. UNCHANGED <<pending, arrived, current, phase>>
      BY <1>9 DEF Routing, MonitorRoute
    <2>3. \A ms \in SUBSET Msg : /\ Sections(ms) \in Seq(Turn) /\ NoBoots(Sections(ms))
                                 /\ BootsEmpty(Sections(ms)) /\ BootsLead(Sections(ms))
      BY SectionsSplit, BootsInSections DEF NoBoots, BootsEmpty, BootsLead
    <2> DEFINE q == queue \o Sections(urgent)
    <2>4. queue \in Seq(Turn)
      BY DEF TypeOK
    <2>5. /\ q \in Seq(Turn) /\ BootsEmpty(q) /\ (BootsLead(queue) => BootsLead(q))
          /\ NoBoots(queue) => NoBoots(q)
      BY <2>3, <2>4, SeqMsgsConcat, OrderConcat DEF BootOrder
    <2>6. queue' = q \o Sections(flushed)
      BY <2>1
    <2> HIDE DEF q
    <2>7. /\ BootsEmpty(queue') /\ (BootsLead(queue) => BootsLead(queue'))
          /\ NoBoots(queue) => NoBoots(queue')
      BY <2>3, <2>5, <2>6, OrderConcat
    <2> QED BY <2>2, <2>7 DEF BootOrder
  <1> QED BY <1>2, <1>3, <1>4, <1>5, <1>6, <1>7, <1>8, <1>9, StepKinds DEF Clears

\* A queue without boot turns counts none.
LEMMA NoBootsCount == \A s : NoBoots(s) => BootsIn(s) = 0
  <1> SUFFICES ASSUME NEW s, NoBoots(s) PROVE BootsIn(s) = 0
    OBVIOUS
  <1>1. {i \in DOMAIN s : s[i].boot} = {}
    BY DEF NoBoots
  <1> QED BY <1>1, FS_EmptySet DEF BootsIn

\* With boot batches of non-interruptible turns only (no migration to run), the CLI
\* gets no notification, as a turn or as a preempt, before the last boot turn is over.
THEOREM BootTurnsFirst ==
    ASSUME \A batch \in BootBatches : \A i \in DOMAIN batch : batch[i]
    PROVE  Spec => []BootFirst
  <1>1. Init => BootCount /\ BootOrder
    BY BootsInSmall, OrderSmall DEF Init, BootCount, BootOf, NoTurn, BootOrder, Busy
  <1>2. TypeOK /\ Custody /\ Stages /\ BootCount /\ BootOrder => BootFirst
    <2> SUFFICES ASSUME TypeOK, Custody, Stages, BootCount, BootOrder, bootPending > 0
                 PROVE  current.msgs = {} /\ SeqMsgs(arrived) = {}
      BY DEF BootFirst
    <2>1. BootsIn(arrived) = 0
      BY NoBootsCount DEF BootOrder
    <2>2. ASSUME NoBoots(queue), NoBoots(pending), BootOf(current) = 0 PROVE FALSE
      <3>1. BootsIn(queue) = 0 /\ BootsIn(pending) = 0
        BY <2>2, NoBootsCount
      <3> QED BY <2>1, <2>2, <3>1 DEF BootCount, TypeOK
    <2>3. arrived = <<>>
      <3> SUFFICES ASSUME arrived # <<>> PROVE FALSE
        OBVIOUS
      <3>1. NoBoots(queue) /\ NoBoots(pending) /\ BootOf(current) = 0
        BY DEF BootOrder, BootOf
      <3> QED BY <3>1, <2>2
    <2>4. current.msgs = {}
      <3>1. CASE current.boot
        BY <3>1 DEF BootOrder
      <3>2. CASE ~current.boot
        <4>1. BootOf(current) = 0
          BY <3>2 DEF BootOf
        <4>2. phase \notin Busy
          BY <2>2, <3>2, <4>1 DEF BootOrder
        <4>3. phase \in {"off", "opening", "idle", "loop", "spin", "dead", "down"}
          BY <4>2 DEF TypeOK, Phases, Busy
        <4> QED BY <4>3 DEF Custody, TurnAccounted, NoTurn
      <3> QED BY <3>1, <3>2
    <2> QED BY <2>3, <2>4, SeqMsgsSmall
  <1>3. TypeOK /\ Custody /\ Stages /\ BootOrder /\ [Next]_vars => BootOrder'
    BY BootOrderNext
  <1> QED BY <1>1, <1>2, <1>3, TypeCorrect, CustodyHolds, StagesInit, StagesNext, BootCountNext,
             PTL DEF Spec

=============================================================================
