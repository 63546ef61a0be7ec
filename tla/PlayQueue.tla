----------------------------- MODULE PlayQueue -----------------------------
(***************************************************************************)
(* The plays of a voice session in arrival order over one speaker          *)
(* (play-queue.ts).  A drain loop is known by the play it holds; `stale`   *)
(* says that a stop has bumped the epoch and aborted that play since.      *)
(***************************************************************************)
EXTENDS Naturals, Sequences

CONSTANT MaxPlays  \* bound: plays the engine sends

ASSUME PlaysAssumption == MaxPlays \in Nat

Plays == 1..MaxPlays

VARIABLES
    play,      \* each play: where its loop is with it, and its last report
    queue,     \* the plays not taken by a loop yet
    draining,  \* a drain loop runs, which the client shows as speaking
    current,   \* abort: the play whose controller is held, or 0
    paused,    \* the engine paused the queue
    waiter,    \* onResume: the play that a resume wakes, or 0
    sounding   \* a play is on the speaker

playVars == <<play, queue, draining, current, paused, waiter, sounding>>

NoPlay == [stage |-> "none", stale |-> FALSE, report |-> ""]
PlayStages == {"none", "queued", "resolving", "waiting", "playing", "over"}
Reports == {"", "started", "finished", "failed"}

PlayInit ==
    /\ play = [p \in Plays |-> NoPlay] /\ queue = <<>> /\ draining = FALSE
    /\ current = 0 /\ paused = FALSE /\ waiter = 0 /\ sounding = FALSE

Held(p) == play[p].stage \in {"resolving", "waiting", "playing"}

----------------------------------------------------------------------------
\* enqueue: the play joins the queue, and a loop starts when none runs.
Enqueue(p) ==
    /\ play[p].stage = "none"
    /\ play' = [play EXCEPT ![p].stage = IF draining THEN "queued" ELSE "resolving"]
    /\ queue' = IF draining THEN Append(queue, p) ELSE queue
    /\ current' = IF draining THEN current ELSE p
    /\ draining' = TRUE
    /\ UNCHANGED <<paused, waiter, sounding>>

\* Mutant: a loop that a stop ended goes on to the next play and the flags.
LeaveUnchecked(p, report) ==
    /\ play' = [q \in Plays |->
         CASE q = p -> [play[p] EXCEPT !.stage = "over", !.report = report]
           [] q # p /\ queue # <<>> /\ q = Head(queue) -> [play[q] EXCEPT !.stage = "resolving"]
           [] OTHER -> play[q]]
    /\ queue' = IF queue # <<>> THEN Tail(queue) ELSE queue
    /\ draining' = (queue # <<>>)
    /\ current' = IF queue # <<>> THEN Head(queue) ELSE IF current = p THEN 0 ELSE current
    /\ sounding' = (sounding /\ current # p)
\* The end of playOne and the turn of the loop: the next play, or none left;
\* a loop that a stop ended takes nothing and touches no flag.
Leave(p, report) ==
    LET next == ~play[p].stale /\ queue # <<>>
    IN  /\ play' = [q \in Plays |->
             CASE q = p -> [play[p] EXCEPT !.stage = "over", !.report = report]
               [] q # p /\ next /\ q = Head(queue) -> [play[q] EXCEPT !.stage = "resolving"]
               [] OTHER -> play[q]]
        /\ queue' = IF next THEN Tail(queue) ELSE queue
        /\ draining' = IF play[p].stale THEN draining ELSE next
        /\ current' = IF next THEN Head(queue) ELSE IF current = p THEN 0 ELSE current
        /\ sounding' = (sounding /\ current # p)

\* Past the pause: the epoch is compared only here.
ToSpeaker(p) ==
    IF play[p].stale
    THEN Leave(p, play[p].report)
    ELSE /\ play' = [play EXCEPT ![p].stage = "playing"]
         /\ sounding' = TRUE
         /\ UNCHANGED <<queue, draining, current>>

\* resolveUrl answers.  A paused queue makes the play wait, and `resumed`
\* holds one resolver only: the last play to wait.
UrlResolved(p) ==
    /\ play[p].stage = "resolving"
    /\ IF paused
       THEN /\ play' = [play EXCEPT ![p].stage = "waiting"] /\ waiter' = p
            /\ UNCHANGED <<queue, draining, current, sounding>>
       ELSE ToSpeaker(p) /\ UNCHANGED waiter
    /\ UNCHANGED paused

\* Mutant: a failure is reported whether or not the play was stopped.
FailureReported(p) == "failed"
\* The report of a play that cannot play; a stopped one says nothing.
FailureReport(p) == IF play[p].stale THEN play[p].report ELSE "failed"

\* The url cannot be had, the speaker refuses, or the watchdog gives up.
PlayFails(p) ==
    /\ play[p].stage \in {"resolving", "playing"}
    /\ Leave(p, FailureReport(p))
    /\ UNCHANGED <<paused, waiter>>

PlayStarted(p) ==
    /\ play[p].stage = "playing" /\ ~play[p].stale /\ play[p].report = ""
    /\ play' = [play EXCEPT ![p].report = "started"]
    /\ UNCHANGED <<queue, draining, current, paused, waiter, sounding>>

\* speaker.play resolves: the audio ended, or its signal aborted.
PlayEnded(p) ==
    /\ play[p].stage = "playing" /\ (play[p].stale \/ play[p].report = "started")
    /\ Leave(p, IF play[p].stale THEN play[p].report ELSE "finished")
    /\ UNCHANGED <<paused, waiter>>

PlayStep(p) ==
    UrlResolved(p) \/ PlayFails(p) \/ PlayStarted(p) \/ PlayEnded(p)

PausePlays ==
    /\ paused' = TRUE
    /\ UNCHANGED <<play, queue, draining, current, waiter, sounding>>

ResumePlays ==
    /\ paused' = FALSE /\ waiter' = 0
    /\ IF waiter = 0 THEN UNCHANGED <<play, queue, draining, current, sounding>>
       ELSE ToSpeaker(waiter)

\* stop: every play is dropped and the loop is stale; the play that waited for
\* the resume wakes and leaves.
StopPlays ==
    /\ play' = [p \in Plays |->
         CASE play[p].stage = "queued" \/ p = waiter ->
                [play[p] EXCEPT !.stage = "over", !.stale = TRUE]
           [] Held(p) /\ p # waiter -> [play[p] EXCEPT !.stale = TRUE]
           [] OTHER -> play[p]]
    /\ queue' = <<>> /\ draining' = FALSE /\ current' = 0
    /\ paused' = FALSE /\ waiter' = 0 /\ sounding' = FALSE

\* The stop of a session that is over: nothing reaches its queue again, so
\* what its loops still await changes nothing.
EndPlays ==
    /\ play' = [p \in Plays |-> IF play[p].stage \in {"none", "over"} THEN play[p]
                                ELSE [play[p] EXCEPT !.stage = "over", !.stale = TRUE]]
    /\ queue' = <<>> /\ draining' = FALSE /\ current' = 0
    /\ paused' = FALSE /\ waiter' = 0 /\ sounding' = FALSE
=============================================================================
