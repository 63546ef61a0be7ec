---------------------------- MODULE VoiceSession ----------------------------
(***************************************************************************)
(* A client's voice: the behaviour model over one microphone and one       *)
(* speaker (voice-session.ts), the engine session of each start            *)
(* (engine-session.ts), the serialized microphone they share               *)
(* (microphone.ts), the plays of a session (PlayQueue) and the read-aloud  *)
(* outside one (tts-queue.ts).  The voice engine is the environment.       *)
(*                                                                         *)
(* A callback that the code runs in the same task as its cause, or in its  *)
(* microtasks, is part of the same step.  Each start makes one engine      *)
(* session; what the user says is numbered in segments.                    *)
(***************************************************************************)
EXTENDS PlayQueue, FiniteSets

CONSTANTS
    MaxStarts,    \* bound: voice sessions
    MaxSegments,  \* bound: segments of speech
    MaxReplies    \* bound: replies the agent asks to have spoken

ASSUME VoiceAssumption ==
    MaxStarts \in Nat /\ MaxSegments \in Nat /\ MaxReplies \in Nat

Sessions == 1..MaxStarts
Segments == 1..MaxSegments

VARIABLES
    engine,     \* the current engine session, or 0
    mode,       \* "dictation", "conversation", or "none"
    session,    \* the engine sessions
    starts,     \* sessions so far
    mic,        \* the serialized microphone
    userTurn,   \* what onUserSpeakingChange said last
    listening,  \* what onListeningChange said last
    idleTimer,  \* the inactivity timer is armed
    live,       \* the segment heard now, or 0
    settling,   \* the segment that is over and whose fate is not said, or 0
    committed,  \* dictation: the segments of the turns that ended
    heard,      \* segments so far
    said,       \* history: how often each segment was sent
    reading,    \* read-aloud: its queue length and its loop
    asked,      \* replies asked of the engine and not played yet
    replies,    \* replies so far
    deafened    \* history: sessions under which the start of another one failed

turnVars == <<userTurn, idleTimer, live, settling, committed, heard, said>>
speechVars == <<reading, asked, replies>>
voiceVars == <<engine, mode, session, starts, mic, listening, deafened>>
vars == <<voiceVars, turnVars, speechVars, playVars>>

----------------------------------------------------------------------------
\* state; where start() is; the promises of capture.start and dial it awaits;
\* whether stop bumped the generation; the replies that wait for the start.
NoSession == [state |-> "idle", start |-> "none", mic |-> "none",
              dial |-> "none", socket |-> "none", stopped |-> FALSE, waiting |-> 0]
Engaged(n) == session[n].state # "idle"
Accepted(n) == session[n].dial = "accepted" /\ session[n].socket = "open" /\ Engaged(n)

\* fresh: the session whose start is the newest attempt, or 0 after a stop.
\* chain: the starts not settled yet; port: port.start runs for the first.
NoMic == [fresh |-> 0, chain |-> <<>>, port |-> FALSE, on |-> FALSE]
\* stop
MicStop(m) == [m EXCEPT !.fresh = 0, !.on = FALSE]
\* start: a start waits for the ones before it.
MicStart(m, n) == [m EXCEPT !.fresh = n, !.chain = Append(@, n),
                            !.port = @ \/ m.chain = <<>>]
\* The first start settled: the next one has its turn, unless it is overtaken.
MicNext(m) == [m EXCEPT !.chain = Tail(@),
                        !.port = Len(m.chain) > 1 /\ m.chain[2] = m.fresh]
\* Mutant: an overtaken start is not stopped again.
MicSettleLeft(m, ok) == [MicNext(m) EXCEPT !.on = ok]
\* The port settles: a start that is no longer the newest is stopped again.
MicSettle(m, ok) == [MicNext(m) EXCEPT !.on = ok /\ Head(m.chain) = m.fresh]

Init ==
    /\ PlayInit
    /\ engine = 0 /\ mode = "none" /\ session = [n \in Sessions |-> NoSession]
    /\ starts = 0 /\ mic = NoMic /\ listening = FALSE /\ deafened = {}
    /\ userTurn = FALSE /\ idleTimer = FALSE /\ live = 0 /\ settling = 0
    /\ committed = {} /\ heard = 0 /\ said = [k \in Segments |-> 0]
    /\ reading = [queue |-> 0, loop |-> "none"] /\ asked = 0 /\ replies = 0

----------------------------------------------------------------------------
(* Helpers over the whole state of a session's end.                        *)

\* Mutant: a session that ends leaves the floor with the user.
ClearedHoldsFloor ==
    /\ engine' = 0 /\ mode' = "none"
    /\ idleTimer' = FALSE /\ UNCHANGED userTurn
\* clear
Cleared ==
    /\ engine' = 0 /\ mode' = "none"
    /\ userTurn' = FALSE /\ idleTimer' = FALSE

\* The session after cleanup.  A dial still pending is refused, which rejects
\* the start at once; a start that awaits only the microphone goes on waiting.
Cleaned(s) ==
    [s EXCEPT !.state = "idle", !.socket = "none", !.waiting = 0,
              !.start = IF s.dial = "pending" \/ s.mic = "failed" THEN "over" ELSE @,
              !.dial = IF @ = "pending" THEN "refused" ELSE @]

\* cleanup of session n, which becomes s first, and the callbacks it makes.
\* Of a session that is not the current one only the microphone is shared.
Cleanup(n, s, m) ==
    /\ session' = [session EXCEPT ![n] = Cleaned(s)]
    /\ mic' = MicStop(m)
    /\ listening' = (listening /\ session[n].state # "active")
    /\ IF engine = n THEN Cleared /\ EndPlays
       ELSE UNCHANGED <<engine, mode, userTurn, idleTimer, playVars>>

\* Mutant: a start goes on whatever became of its session meanwhile.
JoinedAnyway(n, s, m) ==
    LET active == s.mic = "up" /\ s.dial = "accepted" /\ s.start = "joining"
    IN  /\ session' = [session EXCEPT ![n] =
             IF active THEN [s EXCEPT !.state = "active", !.start = "over", !.waiting = 0]
             ELSE s]
        /\ mic' = m
        /\ listening' = (listening \/ active)
        /\ asked' = IF active THEN asked + s.waiting ELSE asked
        /\ idleTimer' = (idleTimer \/ (active /\ mode = "conversation"))
\* The start of n goes on when both promises are there: it becomes active,
\* unless a stop or the engine ended the session meanwhile.
Joined(n, s, m) ==
    LET done == s.mic = "up" /\ s.dial = "accepted" /\ s.start = "joining"
        active == done /\ ~s.stopped /\ s.state = "starting"
    IN  /\ session' = [session EXCEPT ![n] =
             IF active THEN [s EXCEPT !.state = "active", !.start = "over", !.waiting = 0]
             ELSE IF done THEN [s EXCEPT !.start = "over"] ELSE s]
        /\ mic' = m
        /\ listening' = (listening \/ active)
        /\ asked' = IF active THEN asked + s.waiting ELSE asked
        /\ idleTimer' = (idleTimer \/ (active /\ mode = "conversation"))

\* The start of n failed and its cleanup stopped the one microphone.
Failed(n) == deafened' = deafened \cup ({engine} \ {0, n})

----------------------------------------------------------------------------
(* The user and the client.                                                *)

\* A new engine session in mode m; buildUrl is asked.
Begin(m) ==
    /\ starts < MaxStarts /\ starts' = starts + 1
    /\ engine' = starts + 1 /\ mode' = m
    /\ session' = [session EXCEPT ![starts + 1] =
                     [NoSession EXCEPT !.state = "starting", !.start = "url"]]
    /\ live' = 0 /\ settling' = 0
    /\ UNCHANGED <<mic, listening, deafened, userTurn, idleTimer, heard, said,
                   asked, replies, playVars>>
Silent == [queue |-> 0, loop |-> "none"]

\* Mutant: a start while a session is under way.
StartAgain(m) == Begin(m) /\ reading' = Silent /\ committed' = {}
\* Mutant: the text of the last dictation is kept.
StartKeepsText(m) == engine = 0 /\ Begin(m) /\ reading' = Silent /\ UNCHANGED committed
\* start: a new session takes the speaker and begins with no text.
Start(m) == engine = 0 /\ Begin(m) /\ reading' = Silent /\ committed' = {}

\* end: stop sends what a dictation shows, the live segment included; cancel
\* and the inactivity timer send nothing.
End(send) ==
    /\ engine # 0
    /\ Cleanup(engine, [session[engine] EXCEPT !.stopped = TRUE], mic)
    /\ said' = [k \in Segments |->
         said[k] + (IF send /\ mode = "dictation" /\ k \in committed \cup {live}
                    THEN 1 ELSE 0)]
    /\ asked' = 0
    /\ UNCHANGED <<starts, deafened, live, settling, committed, heard, reading, replies>>

IdleTimerFires == idleTimer /\ End(FALSE)

Speak ==
    /\ replies < MaxReplies /\ replies' = replies + 1
    /\ CASE engine = 0 ->    \* readAloud.speak
              /\ reading' = IF reading.loop = "none"
                            THEN [reading EXCEPT !.loop = "preparing"]
                            ELSE [reading EXCEPT !.queue = @ + 1]
              /\ UNCHANGED <<session, asked>>
         [] engine # 0 /\ session[engine].state = "active" ->
              asked' = asked + 1 /\ UNCHANGED <<session, reading>>
         [] OTHER ->
              /\ session' = [session EXCEPT ![engine].waiting = @ + 1]
              /\ UNCHANGED <<asked, reading>>
    /\ UNCHANGED <<engine, mode, starts, mic, listening, deafened, turnVars, playVars>>

StopSpeech ==
    /\ reading.loop # "none" \/ draining
    /\ reading' = Silent
    /\ IF engine = 0 THEN UNCHANGED playVars ELSE StopPlays
    /\ UNCHANGED <<voiceVars, turnVars, asked, replies>>

\* The read-aloud loop: the speech is prepared, plays, and ends or fails.
ReadAloud ==
    /\ reading.loop # "none"
    /\ reading' =
         CASE reading.loop = "preparing" -> [reading EXCEPT !.loop = "playing"]
           [] reading.loop = "playing" /\ reading.queue > 0 ->
                [queue |-> reading.queue - 1, loop |-> "preparing"]
           [] OTHER -> Silent
    /\ UNCHANGED <<voiceVars, turnVars, asked, replies, playVars>>
PrepareFails ==
    /\ reading.loop = "preparing"
    /\ reading' = IF reading.queue > 0 THEN [reading EXCEPT !.queue = @ - 1]
                  ELSE Silent
    /\ UNCHANGED <<voiceVars, turnVars, asked, replies, playVars>>

----------------------------------------------------------------------------
(* The start of an engine session.                                         *)

\* buildUrl answers: capture.start and dial, unless a stop came first.
UrlReady(n) ==
    /\ session[n].start = "url"
    /\ IF session[n].stopped
       THEN session' = [session EXCEPT ![n].start = "over"] /\ UNCHANGED mic
       ELSE /\ session' = [session EXCEPT ![n].start = "joining", ![n].mic = "pending",
                                          ![n].dial = "pending", ![n].socket = "dialed"]
            /\ mic' = MicStart(mic, n)
    /\ UNCHANGED <<engine, mode, starts, listening, deafened, turnVars, speechVars, playVars>>

\* buildUrl fails: the catch cleans up whatever the generation is.
UrlFails(n) ==
    /\ session[n].start = "url"
    /\ Cleanup(n, [session[n] EXCEPT !.start = "over"], mic)
    /\ Failed(n)
    /\ UNCHANGED <<starts, live, settling, committed, heard, said, speechVars>>

SocketOpens(n) ==
    /\ session[n].socket = "dialed"
    /\ session' = [session EXCEPT ![n].socket = "open"]
    /\ UNCHANGED <<engine, mode, starts, mic, listening, deafened, turnVars, speechVars, playVars>>

\* The engine's first state accepts the session.
StateFrame(n) ==
    /\ session[n].socket = "open" /\ session[n].dial = "pending"
    /\ Joined(n, [session[n] EXCEPT !.dial = "accepted"], mic)
    /\ UNCHANGED <<engine, mode, starts, deafened, userTurn, live, settling, committed,
                   heard, said, reading, replies, playVars>>

\* `ended` or a close that nobody asked for: a pending dial is refused and the
\* start throws; a session accepted by then fails.
EndedUnasked(n) ==
    /\ session[n].socket \in {"dialed", "open"}
    /\ Cleanup(n, session[n], mic)
    /\ asked' = 0
    /\ UNCHANGED <<starts, deafened, live, settling, committed, heard, said, reading, replies>>

\* The turn of a start that is no longer the newest: it gives up, resolved.
MicSkip ==
    /\ mic.chain # <<>> /\ ~mic.port
    /\ LET n == Head(mic.chain)
       IN  Joined(n, [session[n] EXCEPT !.mic = "up"], MicNext(mic))
    /\ UNCHANGED <<engine, mode, starts, deafened, userTurn, live, settling, committed,
                   heard, said, reading, replies, playVars>>

PortReady ==
    /\ mic.port
    /\ LET n == Head(mic.chain)
       IN  Joined(n, [session[n] EXCEPT !.mic = "up"], MicSettle(mic, TRUE))
    /\ UNCHANGED <<engine, mode, starts, deafened, userTurn, live, settling, committed,
                   heard, said, reading, replies, playVars>>

\* The microphone is denied: the start that awaits it rejects, and its catch
\* cleans up whatever the generation is, after the next start had its turn.
PortFails ==
    /\ mic.port
    /\ LET n == Head(mic.chain)
           s == [session[n] EXCEPT !.mic = "failed"]
       IN  IF session[n].start = "joining"
           THEN Cleanup(n, s, MicSettle(mic, FALSE)) /\ Failed(n)
           ELSE /\ mic' = MicSettle(mic, FALSE)
                /\ session' = [session EXCEPT ![n] = s]
                /\ UNCHANGED <<engine, mode, listening, userTurn, idleTimer, deafened, playVars>>
    /\ UNCHANGED <<starts, live, settling, committed, heard, said, speechVars>>

----------------------------------------------------------------------------
(* The frames of the engine, which detached sockets never deliver.         *)

Transcript ==
    /\ engine # 0 /\ Accepted(engine) /\ live = 0 /\ settling = 0
    /\ heard < MaxSegments /\ heard' = heard + 1 /\ live' = heard + 1
    /\ UNCHANGED <<voiceVars, userTurn, idleTimer, settling, committed, said, speechVars, playVars>>

TurnStart ==
    /\ engine # 0 /\ Accepted(engine) /\ live # 0
    /\ userTurn' = (userTurn \/ mode = "conversation")
    /\ UNCHANGED <<voiceVars, idleTimer, live, settling, committed, heard, said, speechVars, playVars>>

\* The empty transcript, before any frame that says what became of the speech.
SegmentOver ==
    /\ engine # 0 /\ Accepted(engine) /\ live # 0
    /\ settling' = live /\ live' = 0
    /\ UNCHANGED <<voiceVars, userTurn, idleTimer, committed, heard, said, speechVars, playVars>>

\* A dictation keeps the turn; a conversation returns the floor, sends it, and
\* counts the silence anew.
TurnEnd ==
    /\ engine # 0 /\ Accepted(engine) /\ settling # 0
    /\ settling' = 0
    /\ IF mode = "dictation"
       THEN committed' = committed \cup {settling} /\ UNCHANGED <<userTurn, idleTimer, said>>
       ELSE /\ userTurn' = FALSE /\ idleTimer' = TRUE
            /\ said' = [said EXCEPT ![settling] = @ + 1] /\ UNCHANGED committed
    /\ UNCHANGED <<voiceVars, live, heard, speechVars, playVars>>

TurnDropped ==
    /\ engine # 0 /\ Accepted(engine) /\ settling # 0
    /\ settling' = 0 /\ userTurn' = FALSE
    /\ UNCHANGED <<voiceVars, idleTimer, live, committed, heard, said, speechVars, playVars>>

PlayFrame(p) ==
    /\ engine # 0 /\ Accepted(engine) /\ asked > 0 /\ asked' = asked - 1
    /\ Enqueue(p)
    /\ UNCHANGED <<voiceVars, turnVars, reading, replies>>

PlaybackFrame ==
    /\ engine # 0 /\ Accepted(engine)
    /\ \/ ~paused /\ PausePlays
       \/ paused /\ ResumePlays
       \/ StopPlays
    /\ UNCHANGED <<voiceVars, turnVars, speechVars>>

Speaking(p) == PlayStep(p) /\ UNCHANGED <<voiceVars, turnVars, speechVars>>

----------------------------------------------------------------------------
Next ==
    \/ \E m \in {"dictation", "conversation"} : Start(m)
    \/ \E send \in BOOLEAN : End(send)
    \/ IdleTimerFires \/ Speak \/ StopSpeech \/ ReadAloud \/ PrepareFails
    \/ \E n \in Sessions : \/ UrlReady(n) \/ UrlFails(n) \/ SocketOpens(n)
                           \/ StateFrame(n) \/ EndedUnasked(n)
    \/ MicSkip \/ PortReady \/ PortFails
    \/ Transcript \/ TurnStart \/ SegmentOver \/ TurnEnd \/ TurnDropped \/ PlaybackFrame
    \/ \E p \in Plays : PlayFrame(p) \/ Speaking(p)

Spec == Init /\ [][Next]_vars

----------------------------------------------------------------------------
\* The types of the state.
TypeOK ==
    /\ engine \in 0..MaxStarts /\ mode \in {"none", "dictation", "conversation"}
    /\ mode = "none" <=> engine = 0
    /\ \A n \in Sessions :
         /\ session[n].state \in {"idle", "starting", "active"}
         /\ session[n].start \in {"none", "url", "joining", "over"}
         /\ session[n].mic \in {"none", "pending", "up", "failed"}
         /\ session[n].dial \in {"none", "pending", "accepted", "refused"}
         /\ session[n].state # "idle" => engine = n
    /\ mic.fresh \in 0..MaxStarts /\ mic.chain \in Seq(Sessions)
    /\ starts \in 0..MaxStarts /\ heard \in 0..MaxSegments
    /\ live \in 0..MaxSegments /\ settling \in 0..MaxSegments /\ committed \subseteq Segments
    /\ reading.queue \in 0..MaxReplies /\ reading.loop \in {"none", "preparing", "playing"}
    /\ asked \in 0..MaxReplies /\ replies \in 0..MaxReplies /\ deafened \subseteq Sessions
    /\ \A p \in Plays : play[p].stage \in PlayStages /\ play[p].report \in Reports
    /\ current \in 0..MaxPlays /\ waiter \in 0..MaxPlays /\ queue \in Seq(Plays)

\* The microphone is never left on: with no session under way and no start at
\* the port it is off, however starts, stops and slow permissions crossed.
MicOffWhenIdle == (engine = 0 /\ ~mic.port) => ~mic.on

\* "True once the microphone is up and the engine accepted the session": an
\* active session hears the user.
ActiveHears == \A n \in Sessions : session[n].state = "active" => mic.on

\* An active session hears the user, unless the start of an earlier session
\* failed under it.
ActiveHearsUndisturbed ==
    \A n \in Sessions : session[n].state = "active" => mic.on \/ n \in deafened

\* The agent is told that the user has the floor only in a conversation the
\* engine accepted, so no way of ending a session leaves the agent holding
\* its replies; and the client shows "listening" exactly in an active one.
FloorReturned ==
    /\ userTurn => engine # 0 /\ mode = "conversation" /\ Accepted(engine)
    /\ idleTimer => engine # 0 /\ mode = "conversation"
    /\ listening <=> (engine # 0 /\ session[engine].state = "active")

\* Nothing the user said reaches the agent twice: not as a turn and as a
\* dictation, not in two dictations.
SaidOnce == \A k \in Segments : said[k] <= 1

\* One voice at a time: the plays of a session and the read-aloud never sound
\* together, and "speaking" is shown exactly while a loop has a play.
OneVoice ==
    LET on == {p \in Plays : Held(p) /\ ~play[p].stale}
    IN  /\ Cardinality(on) + (IF reading.loop # "none" THEN 1 ELSE 0) <= 1
        /\ draining <=> on # {}

\* A play that was stopped is never reported again: the engine would take it
\* for one that still plays.
StoppedStaysSilent ==
    [][\A p \in Plays : play[p].stale => play'[p].report = play[p].report]_vars
=============================================================================
