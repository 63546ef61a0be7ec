------------------------- MODULE VoiceSessionProofs -------------------------
(***************************************************************************)
(* One microphone and one speaker, for any number of sessions, segments,   *)
(* replies and plays: the promises VoiceSession checks on a small instance *)
(* follow from five inductive invariants, one per piece of its state.      *)
(***************************************************************************)
EXTENDS VoiceSession, TLAPS, FiniteSetTheorems

----------------------------------------------------------------------------
(* The inductive invariants.                                                *)

SessionRec == [state : {"idle", "starting", "active"},
               start : {"none", "url", "joining", "over"},
               mic : {"none", "pending", "up", "failed"},
               dial : {"none", "pending", "accepted", "refused"},
               socket : {"none", "dialed", "open"}, stopped : BOOLEAN, waiting : Nat]
MicRec == [fresh : 0..MaxStarts, chain : Seq(Sessions), port : BOOLEAN, on : BOOLEAN]
PlayRec == [stage : PlayStages, stale : BOOLEAN, report : Reports]

\* The plays: the types of their state.
PlayShape ==
    /\ play \in [Plays -> PlayRec] /\ queue \in Seq(Plays) /\ draining \in BOOLEAN
    /\ current \in 0..MaxPlays /\ paused \in BOOLEAN /\ waiter \in 0..MaxPlays
    /\ sounding \in BOOLEAN

\* The sessions: the types of their state.
VoiceShape ==
    /\ engine \in 0..MaxStarts /\ mode \in {"none", "dictation", "conversation"}
    /\ (mode = "none") <=> (engine = 0)
    /\ session \in [Sessions -> SessionRec] /\ starts \in 0..MaxStarts
    /\ listening \in BOOLEAN /\ deafened \subseteq Sessions

\* The turns: their types.
TurnShape ==
    /\ userTurn \in BOOLEAN /\ idleTimer \in BOOLEAN
    /\ live \in 0..MaxSegments /\ settling \in 0..MaxSegments
    /\ committed \subseteq Segments /\ heard \in 0..MaxSegments
    /\ said \in [Segments -> Nat]

Shape == PlayShape /\ VoiceShape /\ TurnShape

\* Where an engine session can be in its life.
LifeOf(s) ==
    /\ s.stopped => s.state = "idle"
    /\ s.state = "idle" => s.socket = "none" /\ s.waiting = 0 /\ s.dial # "pending"
    /\ s.start = "url" => s.mic = "none" /\ s.dial = "none" /\ s.socket = "none"
    /\ s.start = "url" /\ ~s.stopped => s.state = "starting"
    /\ s.state = "starting" => s.start \in {"url", "joining"}
    /\ s.start = "joining" => /\ s.mic \in {"pending", "up"}
                              /\ s.dial \in {"pending", "accepted"}
                              /\ ~(s.mic = "up" /\ s.dial = "accepted")
    /\ s.state = "active" => /\ s.start = "over" /\ s.mic = "up"
                             /\ s.dial = "accepted" /\ s.waiting = 0
    /\ s.dial = "pending" => s.start = "joining"
    /\ s.dial = "accepted" /\ s.state # "idle" => s.socket = "open"

\* The sessions: only the current one is under way, and it is.
Life ==
    /\ engine <= starts
    /\ engine # 0 => Engaged(engine)
    /\ \A n \in Sessions :
         /\ LifeOf(session[n])
         /\ Engaged(n) => engine = n
         /\ n > starts => session[n] = NoSession

\* n waits in the chain of m.
InChain(m, n) == \E i \in 1..Len(m.chain) : m.chain[i] = n

\* A chain whose starts are distinct and whose last is the newest attempt, if
\* that is still wanted; a head that the port does not run for is overtaken.
ChainOK(m) ==
    /\ m \in MicRec /\ (m.port => m.chain # <<>>)
    /\ m.chain # <<>> /\ ~m.port => Head(m.chain) # m.fresh
    /\ \A i, j \in 1..Len(m.chain) : m.chain[i] = m.chain[j] => i = j
    /\ m.fresh # 0 /\ m.chain # <<>> => m.chain[Len(m.chain)] = m.fresh

\* The microphone: a start waits in the chain exactly while its promise is
\* pending, the newest attempt is the current session's, and that session lost
\* the microphone only to the failed start of another one.
Line ==
    /\ ChainOK(mic)
    /\ mic.fresh # 0 => engine = mic.fresh
    /\ mic.on => mic.fresh # 0
    /\ \A n \in Sessions : session[n].mic = "pending" <=> InChain(mic, n)
    /\ engine # 0 /\ session[engine].start # "url" /\ engine \notin deafened
         => mic.fresh = engine /\ (session[engine].mic = "up" => mic.on)

\* The turns: whoever has a segment has it alone, and it has not been sent.
Turns ==
    /\ live <= heard /\ settling <= heard /\ (live = 0 \/ settling = 0)
    /\ \A k \in Segments :
         /\ said[k] <= 1
         /\ k > heard => said[k] = 0 /\ k \notin committed
         /\ k \in {live, settling} => k \notin committed
         /\ engine # 0 /\ k \in committed \cup {live, settling} => said[k] = 0

\* The plays: a running loop holds the one play that is not stale.
Loops ==
    /\ draining <=> current # 0
    /\ current # 0 => Held(current) /\ ~play[current].stale
    /\ waiter # 0 => play[waiter].stage = "waiting"
    /\ queue # <<>> => draining
    /\ \A i \in 1..Len(queue) : play[queue[i]].stage = "queued"
    /\ \A i, j \in 1..Len(queue) : queue[i] = queue[j] => i = j
    /\ \A p \in Plays : /\ Held(p) /\ ~play[p].stale => p = current
                        /\ play[p].stage \in {"none", "queued"} => ~play[p].stale

\* The speaker: a session's plays end with it, and read-aloud ends before one.
Speaker ==
    /\ (engine = 0) => ~draining /\ \A p \in Plays : ~Held(p)
    /\ reading.loop # "none" => engine = 0

\* The replies: what waits was asked for.
Replies ==
    /\ replies \in 0..MaxReplies /\ asked \in 0..replies
    /\ \A n \in Sessions : asked + session[n].waiting <= replies
    /\ reading \in [queue : 0..MaxReplies, loop : {"none", "preparing", "playing"}]
    /\ reading.queue <= replies

VInv == Shape /\ Life /\ Line /\ Turns /\ Loops /\ Speaker /\ Replies

----------------------------------------------------------------------------
(* Sequences.                                                               *)

\* A sequence without its head.
LEMMA TailOf ==
    ASSUME NEW S, NEW s \in Seq(S), s # <<>>
    PROVE  /\ Head(s) = s[1] /\ Head(s) \in S /\ Tail(s) \in Seq(S) /\ Len(s) >= 1
           /\ Len(Tail(s)) = Len(s) - 1 /\ Len(s) \in Nat
           /\ \A i \in 1..Len(Tail(s)) : Tail(s)[i] = s[i + 1] /\ i + 1 \in 2..Len(s)
  OBVIOUS

\* No elements make a sequence.
LEMMA EmptySeq ==
    ASSUME NEW S
    PROVE  <<>> \in Seq(S) /\ Len(<<>>) = 0
  OBVIOUS

\* A sequence with one more element.
LEMMA AppendOf ==
    ASSUME NEW S, NEW s \in Seq(S), NEW e \in S
    PROVE  /\ Append(s, e) \in Seq(S) /\ Len(s) \in Nat /\ Len(Append(s, e)) = Len(s) + 1
           /\ Append(s, e) # <<>> /\ Append(s, e)[Len(s) + 1] = e
           /\ \A i \in 1..Len(s) : Append(s, e)[i] = s[i]
  OBVIOUS

----------------------------------------------------------------------------
(* The plays of a session.                                                  *)

\* A loop leaves its play p, which it holds.
LEMMA LeaveLoops ==
    ASSUME PlayShape, Loops, NEW p \in Plays, Held(p), NEW r \in Reports, Leave(p, r),
           waiter' \in 0..MaxPlays, paused' \in BOOLEAN,
           (waiter' = waiter /\ waiter # p) \/ waiter' = 0
    PROVE  PlayShape' /\ Loops'
  <1> DEFINE next == ~play[p].stale /\ queue # <<>>
  <1>1. play[p] \in PlayRec /\ p # 0
    BY DEF PlayShape, Plays
  <1>2. \A q \in Plays :
          /\ play'[q] \in PlayRec /\ play'[q].stale = play[q].stale
          /\ q = p => play'[q].stage = "over"
          /\ q # p /\ next /\ q = Head(queue) => play'[q].stage = "resolving"
          /\ q # p /\ ~(next /\ q = Head(queue)) => play'[q] = play[q]
    BY <1>1 DEF Leave, PlayShape, PlayRec, PlayStages
  <1>3. /\ play' \in [Plays -> PlayRec] /\ draining' \in BOOLEAN /\ sounding' \in BOOLEAN
    BY <1>2 DEF Leave, PlayShape
  <1>4. ~play[p].stale => p = current
    BY DEF Loops
  <1>5. CASE play[p].stale
    <2>1. queue' = queue /\ draining' = draining /\ current' = current /\ current # p
      BY <1>5, <1>1 DEF Leave, Loops
    <2>2. PlayShape'
      BY <1>3, <2>1 DEF PlayShape
    <2>3. waiter' # 0 => play'[waiter'].stage = "waiting"
      BY <1>2 DEF PlayShape, Loops, Held, Plays
    <2>4. current # 0 => play'[current] = play[current]
      BY <1>2, <1>5, <2>1 DEF PlayShape, Plays
    <2>5. \A i \in 1..Len(queue) : play'[queue[i]].stage = "queued"
      BY <1>2, <1>5 DEF PlayShape, Loops, Held
    <2>6. \A q \in Plays : /\ (Held(q) /\ ~play[q].stale)' => q = current
                           /\ (play[q].stage \in {"none", "queued"} => ~play[q].stale)'
      BY <1>2, <1>5 DEF Loops, Held
    <2> QED BY <2>1, <2>2, <2>3, <2>4, <2>5, <2>6 DEF Loops, Held
  <1>6. CASE ~play[p].stale /\ queue = <<>>
    <2>1. queue' = queue /\ ~draining' /\ current' = 0
      BY <1>6, <1>4 DEF Leave
    <2>2. PlayShape'
      BY <1>3, <2>1, PlaysAssumption DEF PlayShape
    <2>3. waiter' # 0 => play'[waiter'].stage = "waiting"
      BY <1>2, <1>6 DEF PlayShape, Loops, Held, Plays
    <2>4. \A q \in Plays : /\ ~(Held(q) /\ ~play[q].stale)'
                           /\ (play[q].stage \in {"none", "queued"} => ~play[q].stale)'
      BY <1>2, <1>4, <1>6 DEF Loops, Held
    <2> QED BY <1>6, <2>1, <2>2, <2>3, <2>4 DEF Loops, Held
  <1>7. CASE ~play[p].stale /\ queue # <<>>
    <2>1. queue' = Tail(queue) /\ draining' /\ current' = Head(queue)
      BY <1>7, <1>4 DEF Leave
    <2>2. Head(queue) = queue[1] /\ queue[1] \in Plays /\ queue[1] # p /\ 1 \in 1..Len(queue)
      BY <1>7, TailOf DEF PlayShape, Loops, Held
    <2>3. Tail(queue) \in Seq(Plays)
      BY <1>7, TailOf DEF PlayShape
    <2>4. \A i \in 1..Len(Tail(queue)) :
            i + 1 \in 1..Len(queue) /\ Tail(queue)[i] = queue[i + 1] /\ queue[i + 1] # queue[1]
      BY <1>7, <2>2, TailOf DEF PlayShape, Loops
    <2>5. PlayShape'
      BY <1>3, <2>1, <2>2, <2>3, PlaysAssumption DEF PlayShape, Plays
    <2>6. play'[queue[1]].stage = "resolving" /\ ~play'[queue[1]].stale /\ queue[1] # 0
      BY <1>2, <1>7, <2>2 DEF Loops, Plays
    <2>7. \A i \in 1..Len(Tail(queue)) : play'[Tail(queue)[i]].stage = "queued"
      BY <1>2, <2>2, <2>4, <1>1 DEF Loops, Held, PlayShape
    <2>8. \A i, j \in 1..Len(Tail(queue)) : Tail(queue)[i] = Tail(queue)[j] => i = j
      BY <2>4 DEF Loops
    <2>9. waiter' # 0 => play'[waiter'].stage = "waiting"
      BY <1>2, <2>2, <2>6 DEF Loops, PlayShape, Plays
    <2>10. \A q \in Plays : /\ (Held(q) /\ ~play[q].stale)' => q = current'
                            /\ (play[q].stage \in {"none", "queued"} => ~play[q].stale)'
      BY <1>2, <1>4, <1>7, <2>1, <2>2 DEF Loops, Held
    <2> QED BY <2>1, <2>2, <2>5, <2>6, <2>7, <2>8, <2>9, <2>10 DEF Loops, Held
  <1> QED BY <1>1, <1>5, <1>6, <1>7 DEF PlayRec

\* A play goes to the speaker, or leaves when a stop came first.
LEMMA ToSpeakerLoops ==
    ASSUME PlayShape, Loops, NEW p \in Plays, Held(p), ToSpeaker(p),
           waiter' \in 0..MaxPlays, paused' \in BOOLEAN,
           (waiter' = waiter /\ waiter # p) \/ waiter' = 0
    PROVE  PlayShape' /\ Loops'
  <1>1. CASE play[p].stale
    <2>1. Leave(p, play[p].report) /\ play[p].report \in Reports
      BY <1>1 DEF ToSpeaker, PlayShape, PlayRec
    <2> QED BY <2>1, LeaveLoops
  <1>2. CASE ~play[p].stale
    <2>1. /\ UNCHANGED <<queue, draining, current>> /\ sounding' = TRUE
          /\ play' = [play EXCEPT ![p].stage = "playing"]
      BY <1>2 DEF ToSpeaker
    <2>2. \A q \in Plays : /\ play'[q] \in PlayRec /\ play'[q].stale = play[q].stale
                           /\ q # p => play'[q] = play[q]
                           /\ q = p => play'[q].stage = "playing"
      BY <2>1 DEF PlayShape, PlayRec, PlayStages
    <2>3. play' \in [Plays -> PlayRec]
      BY <2>1, <2>2 DEF PlayShape
    <2>4. PlayShape'
      BY <2>1, <2>3 DEF PlayShape
    <2>5. waiter' # 0 => play'[waiter'].stage = "waiting"
      BY <2>2 DEF PlayShape, Loops, Plays
    <2>6. current # 0 => (Held(current) /\ ~play[current].stale)'
      BY <2>1, <2>2 DEF PlayShape, Loops, Held, Plays
    <2>7. \A i \in 1..Len(queue) : play'[queue[i]].stage = "queued"
      BY <2>2 DEF PlayShape, Loops, Held
    <2>8. \A q \in Plays : /\ (Held(q) /\ ~play[q].stale)' => q = current
                           /\ (play[q].stage \in {"none", "queued"} => ~play[q].stale)'
      BY <1>2, <2>2 DEF Loops, Held
    <2> QED BY <2>1, <2>4, <2>5, <2>6, <2>7, <2>8 DEF Loops, Held
  <1> QED BY <1>1, <1>2

\* What a loop awaits answers.
LEMMA PlayStepLoops ==
    ASSUME PlayShape, Loops, NEW p \in Plays, PlayStep(p)
    PROVE  PlayShape' /\ Loops'
  <1>1. play[p] \in PlayRec /\ p # 0
    BY DEF PlayShape, Plays
  <1>2. play[p].stage \in {"resolving", "playing"} => waiter # p /\ Held(p)
    BY DEF Loops, PlayShape, Held, Plays
  <1>3. ASSUME UrlResolved(p), paused PROVE PlayShape' /\ Loops'
    <2>1. /\ play' = [play EXCEPT ![p].stage = "waiting"] /\ waiter' = p
          /\ UNCHANGED <<queue, draining, current, sounding, paused>>
          /\ play[p].stage = "resolving"
      BY <1>3 DEF UrlResolved
    <2>2. \A q \in Plays : /\ play'[q] \in PlayRec /\ play'[q].stale = play[q].stale
                           /\ q # p => play'[q] = play[q]
                           /\ q = p => play'[q].stage = "waiting"
      BY <2>1 DEF PlayShape, PlayRec, PlayStages
    <2>3. play' \in [Plays -> PlayRec]
      BY <2>1, <2>2 DEF PlayShape
    <2>4. PlayShape'
      BY <2>1, <2>3 DEF PlayShape, Plays
    <2>5. waiter' # 0 => play'[waiter'].stage = "waiting"
      BY <2>1, <2>2
    <2>6. current # 0 => (Held(current) /\ ~play[current].stale)'
      BY <2>1, <2>2 DEF PlayShape, Loops, Held, Plays
    <2>7. \A i \in 1..Len(queue) : play'[queue[i]].stage = "queued"
      BY <2>1, <2>2 DEF PlayShape, Loops
    <2>8. \A q \in Plays : /\ (Held(q) /\ ~play[q].stale)' => q = current
                           /\ (play[q].stage \in {"none", "queued"} => ~play[q].stale)'
      BY <2>1, <2>2 DEF Loops, Held
    <2> QED BY <2>1, <2>4, <2>5, <2>6, <2>7, <2>8 DEF Loops, Held
  <1>4. ASSUME UrlResolved(p), ~paused PROVE PlayShape' /\ Loops'
    <2>1. ToSpeaker(p) /\ UNCHANGED <<waiter, paused>> /\ play[p].stage = "resolving"
      BY <1>4 DEF UrlResolved
    <2>2. waiter' \in 0..MaxPlays /\ paused' \in BOOLEAN
      BY <2>1 DEF PlayShape
    <2> QED BY <1>2, <2>1, <2>2, ToSpeakerLoops
  <1>5. ASSUME PlayFails(p) \/ PlayEnded(p) PROVE PlayShape' /\ Loops'
    <2>1. /\ play[p].stage \in {"resolving", "playing"} /\ UNCHANGED <<paused, waiter>>
          /\ \E r \in Reports : Leave(p, r)
      BY <1>1, <1>5 DEF PlayFails, PlayEnded, FailureReport, PlayRec, Reports
    <2>2. waiter' \in 0..MaxPlays /\ paused' \in BOOLEAN
      BY <2>1 DEF PlayShape
    <2> QED BY <1>2, <2>1, <2>2, LeaveLoops
  <1>6. ASSUME PlayStarted(p) PROVE PlayShape' /\ Loops'
    <2>1. /\ play' = [play EXCEPT ![p].report = "started"]
          /\ UNCHANGED <<queue, draining, current, paused, waiter, sounding>>
      BY <1>6 DEF PlayStarted
    <2>2. \A q \in Plays : /\ play'[q] \in PlayRec /\ play'[q].stale = play[q].stale
                           /\ play'[q].stage = play[q].stage
      BY <2>1 DEF PlayShape, PlayRec, Reports
    <2>3. play' \in [Plays -> PlayRec]
      BY <2>1, <2>2 DEF PlayShape
    <2>4. PlayShape'
      BY <2>1, <2>3 DEF PlayShape
    <2>5. \A i \in 1..Len(queue) : queue[i] \in Plays
      BY DEF PlayShape
    <2>6. (current # 0 => current \in Plays) /\ (waiter # 0 => waiter \in Plays)
      BY DEF PlayShape, Plays
    <2> QED BY <2>1, <2>2, <2>4, <2>5, <2>6 DEF Loops, Held
  <1> QED BY <1>3, <1>4, <1>5, <1>6 DEF PlayStep

\* A play arrives.
LEMMA EnqueueLoops ==
    ASSUME PlayShape, Loops, NEW p \in Plays, Enqueue(p)
    PROVE  PlayShape' /\ Loops'
  <1>1. play[p].stage = "none" /\ ~play[p].stale /\ p # 0 /\ UNCHANGED <<paused, waiter, sounding>>
    BY DEF Enqueue, Loops, Plays
  <1>2. \A i \in 1..Len(queue) : queue[i] \in Plays /\ queue[i] # p
    BY <1>1 DEF PlayShape, Loops
  <1>3. (current # 0 => current \in Plays /\ current # p) /\ (waiter # 0 => waiter \in Plays /\ waiter # p)
    BY <1>1 DEF PlayShape, Plays, Loops, Held
  <1>4. CASE draining
    <2>1. /\ play' = [play EXCEPT ![p].stage = "queued"] /\ queue' = Append(queue, p)
          /\ current' = current /\ draining' = TRUE
      BY <1>4 DEF Enqueue
    <2>2. \A q \in Plays : /\ play'[q] \in PlayRec /\ play'[q].stale = play[q].stale
                           /\ q # p => play'[q] = play[q]
                           /\ q = p => play'[q].stage = "queued"
      BY <2>1 DEF PlayShape, PlayRec, PlayStages
    <2>3. play' \in [Plays -> PlayRec]
      BY <2>1, <2>2 DEF PlayShape
    <2>4. /\ queue' \in Seq(Plays) /\ Len(queue) \in Nat /\ Len(queue') = Len(queue) + 1
          /\ queue'[Len(queue) + 1] = p /\ \A i \in 1..Len(queue) : queue'[i] = queue[i]
      BY <2>1, AppendOf DEF PlayShape
    <2>5. PlayShape'
      BY <1>1, <2>1, <2>3, <2>4 DEF PlayShape
    <2>6. \A i \in 1..Len(queue') : i \in 1..Len(queue) \/ i = Len(queue) + 1
      BY <2>4
    <2>7. \A i \in 1..Len(queue') : play'[queue'[i]].stage = "queued"
      BY <1>2, <2>2, <2>4, <2>6 DEF Loops
    <2>8. \A i, j \in 1..Len(queue') : queue'[i] = queue'[j] => i = j
      BY <1>2, <2>4, <2>6 DEF Loops
    <2>9. (current # 0 => (Held(current) /\ ~play[current].stale)') /\ (waiter # 0 => play'[waiter].stage = "waiting")
      BY <1>3, <2>1, <2>2 DEF Loops, Held
    <2>10. \A q \in Plays : /\ (Held(q) /\ ~play[q].stale)' => q = current
                            /\ (play[q].stage \in {"none", "queued"} => ~play[q].stale)'
      BY <1>1, <2>2 DEF Loops, Held
    <2> QED BY <1>1, <1>4, <2>1, <2>5, <2>7, <2>8, <2>9, <2>10 DEF Loops, Held
  <1>5. CASE ~draining
    <2>1. /\ play' = [play EXCEPT ![p].stage = "resolving"] /\ queue' = queue
          /\ current' = p /\ draining' = TRUE /\ queue = <<>>
      BY <1>5 DEF Enqueue, Loops
    <2>2. \A q \in Plays : /\ play'[q] \in PlayRec /\ play'[q].stale = play[q].stale
                           /\ q # p => play'[q] = play[q]
                           /\ q = p => play'[q].stage = "resolving"
      BY <2>1 DEF PlayShape, PlayRec, PlayStages
    <2>3. play' \in [Plays -> PlayRec]
      BY <2>1, <2>2 DEF PlayShape
    <2>4. PlayShape'
      BY <1>1, <2>1, <2>3 DEF PlayShape, Plays
    <2>5. waiter # 0 => play'[waiter].stage = "waiting"
      BY <1>3, <2>2 DEF Loops
    <2>6. \A q \in Plays : /\ (Held(q) /\ ~play[q].stale)' => q = p
                           /\ (play[q].stage \in {"none", "queued"} => ~play[q].stale)'
      BY <1>1, <1>5, <2>2 DEF Loops, Held, Plays
    <2>7. (Held(p) /\ ~play[p].stale)'
      BY <1>1, <2>2 DEF Held
    <2> QED BY <1>1, <2>1, <2>4, <2>5, <2>6, <2>7 DEF Loops
  <1> QED BY <1>4, <1>5

\* The engine pauses and resumes the queue; a stop drops every play.
LEMMA FrameLoops ==
    ASSUME PlayShape, Loops, PausePlays \/ ResumePlays \/ StopPlays
    PROVE  PlayShape' /\ Loops'
  <1>1. ASSUME PausePlays PROVE PlayShape' /\ Loops'
    BY <1>1 DEF PausePlays, PlayShape, Loops, Held
  <1>2. ASSUME ResumePlays PROVE PlayShape' /\ Loops'
    <2>1. CASE waiter = 0
      BY <1>2, <2>1 DEF ResumePlays, PlayShape, Loops, Held
    <2>2. CASE waiter # 0
      <3>1. /\ waiter \in Plays /\ Held(waiter) /\ ToSpeaker(waiter)
            /\ waiter' = 0 /\ paused' = FALSE /\ 0 \in 0..MaxPlays
        BY <1>2, <2>2, PlaysAssumption DEF ResumePlays, PlayShape, Loops, Held, Plays
      <3> QED BY <3>1, ToSpeakerLoops
    <2> QED BY <2>1, <2>2
  <1>3. ASSUME StopPlays PROVE PlayShape' /\ Loops'
    <2>1. /\ queue' = <<>> /\ draining' = FALSE /\ current' = 0
          /\ paused' = FALSE /\ waiter' = 0 /\ sounding' = FALSE
      BY <1>3 DEF StopPlays
    <2>2. \A q \in Plays : /\ play'[q] \in PlayRec /\ play'[q].stage # "queued"
                           /\ ~(Held(q) /\ ~play[q].stale)'
                           /\ (play[q].stage = "none" => ~play[q].stale)'
      BY <1>3 DEF StopPlays, PlayShape, PlayRec, PlayStages, Held, Loops
    <2>3. play' \in [Plays -> PlayRec]
      BY <1>3, <2>2 DEF StopPlays
    <2>4. PlayShape'
      <3>1. queue' \in Seq(Plays)
        BY <2>1, EmptySeq
      <3>2. current' \in 0..MaxPlays /\ waiter' \in 0..MaxPlays
        BY <2>1, PlaysAssumption
      <3> QED BY <2>1, <2>3, <3>1, <3>2 DEF PlayShape
    <2> QED BY <2>1, <2>2, <2>4 DEF Loops
  <1> QED BY <1>1, <1>2, <1>3

\* The plays of a session that is over.
LEMMA EndPlaysLoops ==
    ASSUME PlayShape, Loops, EndPlays
    PROVE  PlayShape' /\ Loops' /\ ~draining' /\ \A p \in Plays : ~Held(p)'
  <1>1. /\ queue' = <<>> /\ draining' = FALSE /\ current' = 0
        /\ paused' = FALSE /\ waiter' = 0 /\ sounding' = FALSE
    BY DEF EndPlays
  <1>2. \A q \in Plays : /\ play'[q] \in PlayRec /\ play'[q].stage \in {"none", "over"}
                         /\ (play[q].stage = "none" => ~play[q].stale)'
    <2> TAKE q \in Plays
    <2>1. CASE play[q].stage \in {"none", "over"}
      <3>1. play'[q] = play[q]
        BY <2>1 DEF EndPlays
      <3> QED BY <2>1, <3>1 DEF PlayShape, Loops
    <2>2. CASE play[q].stage \notin {"none", "over"}
      <3>1. play'[q] = [play[q] EXCEPT !.stage = "over", !.stale = TRUE]
        BY <2>2 DEF EndPlays
      <3>2. play[q] \in PlayRec
        BY DEF PlayShape
      <3>3. play'[q] \in PlayRec /\ play'[q].stage = "over"
        BY <3>1, <3>2 DEF PlayRec, PlayStages
      <3> QED BY <3>3
    <2> QED BY <2>1, <2>2
  <1>3. play' \in [Plays -> PlayRec]
    BY <1>2 DEF EndPlays
  <1>4. PlayShape'
    <2>1. queue' \in Seq(Plays)
      BY <1>1, EmptySeq
    <2>2. current' \in 0..MaxPlays /\ waiter' \in 0..MaxPlays
      BY <1>1, PlaysAssumption
    <2> QED BY <1>1, <1>3, <2>1, <2>2 DEF PlayShape
  <1> QED BY <1>1, <1>2, <1>4 DEF Loops, Held

----------------------------------------------------------------------------
(* The sessions.                                                            *)

\* What a session may be when its cleanup begins.
Dying(s) ==
    /\ s.start = "url" => s.mic = "none" /\ s.dial = "none" /\ s.stopped
    /\ s.start = "joining" => s.dial \in {"pending", "accepted"} /\ s.mic # "none"
    /\ s.start = "joining" => ~(s.mic = "up" /\ s.dial = "accepted")
    /\ s.dial = "pending" => s.start = "joining"

\* The cleanup of a session leaves it idle.
LEMMA CleanedLife ==
    ASSUME NEW s \in SessionRec, Dying(s)
    PROVE  /\ Cleaned(s) \in SessionRec /\ LifeOf(Cleaned(s))
           /\ Cleaned(s).state = "idle" /\ Cleaned(s).waiting = 0
           /\ Cleaned(s).mic = s.mic /\ Cleaned(s).stopped = s.stopped
  <1> DEFINE st == IF s.dial = "pending" \/ s.mic = "failed" THEN "over" ELSE s.start
             di == IF s.dial = "pending" THEN "refused" ELSE s.dial
             t == Cleaned(s)
  <1>1. t = [s EXCEPT !.state = "idle", !.socket = "none", !.waiting = 0, !.start = st, !.dial = di]
    BY DEF Cleaned
  <1>2. st \in {"none", "url", "joining", "over"} /\ di \in {"none", "accepted", "refused"}
    BY DEF SessionRec
  <1> HIDE DEF t
  <1>3. /\ t.state = "idle" /\ t.socket = "none" /\ t.waiting = 0 /\ t.start = st
        /\ t.dial = di /\ t.mic = s.mic /\ t.stopped = s.stopped
    BY <1>1 DEF SessionRec
  <1>4. t \in SessionRec
    BY <1>1, <1>2 DEF SessionRec
  <1>5. /\ st = "url" => s.mic = "none" /\ di = "none" /\ s.stopped
        /\ st = "joining" => s.mic = "pending" /\ di = "accepted"
        /\ di # "pending"
    BY <1>2 DEF SessionRec, Dying
  <1>6. LifeOf(t)
    BY <1>3, <1>5 DEF LifeOf
  <1> QED BY <1>3, <1>4, <1>6 DEF t

\* A session that a promise of its start reached: whether both are there, and
\* whether it becomes active.
Done(s) == s.mic = "up" /\ s.dial = "accepted" /\ s.start = "joining"
Active(s) == Done(s) /\ ~s.stopped /\ s.state = "starting"
JoinedRec(s) == IF Active(s) THEN [s EXCEPT !.state = "active", !.start = "over", !.waiting = 0]
                ELSE IF Done(s) THEN [s EXCEPT !.start = "over"] ELSE s

\* What a session may be when a promise of its start answers.
Joining(s) ==
    /\ s.stopped => s.state = "idle"
    /\ s.state = "idle" => s.socket = "none" /\ s.waiting = 0 /\ s.dial # "pending"
    /\ s.start # "url"
    /\ s.state = "starting" => s.start = "joining"
    /\ s.start = "joining" => s.mic \in {"pending", "up"} /\ s.dial \in {"pending", "accepted"}
    /\ s.state = "active" => /\ s.start = "over" /\ s.mic = "up"
                             /\ s.dial = "accepted" /\ s.waiting = 0
    /\ s.dial = "pending" => s.start = "joining"
    /\ s.dial = "accepted" /\ s.state # "idle" => s.socket = "open"

\* The start goes on: the session is active, or still waits, or is over.
LEMMA JoinedLife ==
    ASSUME NEW s \in SessionRec, Joining(s)
    PROVE  /\ JoinedRec(s) \in SessionRec /\ LifeOf(JoinedRec(s))
           /\ JoinedRec(s).mic = s.mic /\ JoinedRec(s).start # "url"
           /\ JoinedRec(s).state = "idle" <=> s.state = "idle"
           /\ JoinedRec(s).dial = s.dial /\ JoinedRec(s).socket = s.socket
           /\ Active(s) => JoinedRec(s).state = "active" /\ JoinedRec(s).waiting = 0
           /\ ~Active(s) => JoinedRec(s).state = s.state /\ JoinedRec(s).waiting = s.waiting
  <1>1. CASE Active(s)
    <2> DEFINE t == [s EXCEPT !.state = "active", !.start = "over", !.waiting = 0]
    <2>1. JoinedRec(s) = t
      BY <1>1 DEF JoinedRec
    <2>2. t \in SessionRec
      BY DEF SessionRec
    <2>3. /\ t.state = "active" /\ t.start = "over" /\ t.waiting = 0 /\ t.mic = s.mic
          /\ t.dial = s.dial /\ t.socket = s.socket /\ t.stopped = s.stopped
      BY DEF SessionRec
    <2> HIDE DEF t
    <2>4. LifeOf(t)
      BY <2>3, <1>1 DEF LifeOf, Joining, Active, Done
    <2> QED BY <2>1, <2>2, <2>3, <2>4, <1>1 DEF Active
  <1>2. CASE ~Active(s) /\ Done(s)
    <2>1. JoinedRec(s) = [s EXCEPT !.start = "over"]
      BY <1>2 DEF JoinedRec
    <2>2. s.state = "idle"
      BY <1>2 DEF Active, Done, Joining, SessionRec
    <2> QED BY <2>1, <2>2, <1>2 DEF SessionRec, LifeOf, Joining, Done
  <1>3. CASE ~Done(s)
    <2>1. JoinedRec(s) = s /\ ~Active(s)
      BY <1>3 DEF JoinedRec, Active
    <2> QED BY <2>1, <1>3 DEF SessionRec, LifeOf, Joining, Done
  <1> QED BY <1>1, <1>2, <1>3 DEF Active

\* Joined in the terms above.
LEMMA JoinedStep ==
    ASSUME NEW n, NEW s, NEW m, Joined(n, s, m)
    PROVE  /\ session' = [session EXCEPT ![n] = JoinedRec(s)] /\ mic' = m
           /\ listening' = (listening \/ Active(s))
           /\ asked' = IF Active(s) THEN asked + s.waiting ELSE asked
           /\ idleTimer' = (idleTimer \/ (Active(s) /\ mode = "conversation"))
  BY DEF Joined, JoinedRec, Active, Done

----------------------------------------------------------------------------
(* The microphone's chain.                                                  *)

\* The first start settles.
LEMMA NextChain ==
    ASSUME NEW m, ChainOK(m), m.chain # <<>>
    PROVE  /\ ChainOK(MicNext(m)) /\ MicNext(m).fresh = m.fresh /\ MicNext(m).on = m.on
           /\ Head(m.chain) \in Sessions /\ InChain(m, Head(m.chain))
           /\ \A k \in Sessions : InChain(MicNext(m), k) <=> InChain(m, k) /\ k # Head(m.chain)
  <1> DEFINE c == m.chain
             t == MicNext(m)
  <1>1. /\ c \in Seq(Sessions) /\ m.fresh \in 0..MaxStarts
        /\ t = [m EXCEPT !.chain = Tail(c), !.port = Len(c) > 1 /\ c[2] = m.fresh]
    BY DEF ChainOK, MicRec, MicNext
  <1>2. /\ Head(c) = c[1] /\ Head(c) \in Sessions /\ Tail(c) \in Seq(Sessions) /\ Len(c) >= 1
        /\ Len(Tail(c)) = Len(c) - 1 /\ Len(c) \in Nat
        /\ \A i \in 1..Len(Tail(c)) : Tail(c)[i] = c[i + 1] /\ i + 1 \in 2..Len(c)
    BY <1>1, TailOf
  <1>3. /\ t \in MicRec /\ t.chain = Tail(c) /\ t.fresh = m.fresh /\ t.on = m.on
        /\ t.port <=> (Len(c) > 1 /\ c[2] = m.fresh)
    BY <1>1, <1>2 DEF ChainOK, MicRec
  <1>4. ASSUME Tail(c) # <<>> PROVE Len(c) > 1 /\ Head(Tail(c)) = c[2]
    <2>1. Head(Tail(c)) = Tail(c)[1] /\ Len(Tail(c)) >= 1
      BY <1>2, <1>4, TailOf
    <2> QED BY <2>1, <1>2
  <1>5. Len(c) > 1 => Tail(c) # <<>>
    <2>1. Len(<<>>) = 0
      BY EmptySeq
    <2> HIDE DEF c
    <2>2. Tail(c) = <<>> => Len(Tail(c)) = 0
      BY <2>1
    <2> QED BY <1>2, <2>2
  <1>6. \A i, j \in 1..Len(Tail(c)) : Tail(c)[i] = Tail(c)[j] => i = j
    BY <1>2 DEF ChainOK
  <1>7. m.fresh # 0 /\ Tail(c) # <<>> => Tail(c)[Len(Tail(c))] = m.fresh
    BY <1>2, <1>4 DEF ChainOK
  <1>8. ChainOK(t)
    BY <1>3, <1>4, <1>5, <1>6, <1>7 DEF ChainOK
  <1>9. InChain(m, Head(c))
    BY <1>2 DEF InChain
  <1>10. ASSUME NEW k \in Sessions PROVE InChain(t, k) <=> InChain(m, k) /\ k # Head(c)
    <2>1. InChain(t, k) => InChain(m, k) /\ k # Head(c)
      BY <1>2, <1>3 DEF InChain, ChainOK
    <2>2. ASSUME InChain(m, k), k # Head(c) PROVE InChain(t, k)
      <3>1. PICK i \in 1..Len(c) : c[i] = k
        BY <2>2 DEF InChain
      <3>2. i # 1
        BY <3>1, <2>2, <1>2
      <3>3. i - 1 \in 1..Len(Tail(c)) /\ Tail(c)[i - 1] = c[i]
        BY <3>1, <3>2, <1>2
      <3> QED BY <3>1, <3>3, <1>3 DEF InChain
    <2> QED BY <2>1, <2>2
  <1> QED BY <1>2, <1>3, <1>8, <1>9, <1>10

\* Whether the microphone is on does not matter to the chain.
LEMMA SameChain ==
    ASSUME NEW x, NEW m, ChainOK(x), m \in MicRec, m.fresh = x.fresh, m.chain = x.chain,
           m.port = x.port
    PROVE  ChainOK(m) /\ \A k : InChain(m, k) <=> InChain(x, k)
  BY DEF ChainOK, InChain

\* A start joins the chain.
LEMMA StartChain ==
    ASSUME NEW m, ChainOK(m), NEW n \in Sessions, ~InChain(m, n)
    PROVE  /\ ChainOK(MicStart(m, n)) /\ MicStart(m, n).fresh = n /\ MicStart(m, n).on = m.on
           /\ \A k \in Sessions : InChain(MicStart(m, n), k) <=> InChain(m, k) \/ k = n
  <1> DEFINE c == m.chain
             t == MicStart(m, n)
  <1>1. /\ c \in Seq(Sessions) /\ n \in 0..MaxStarts /\ n # 0
        /\ t = [m EXCEPT !.fresh = n, !.chain = Append(c, n), !.port = m.port \/ c = <<>>]
    BY DEF ChainOK, MicRec, MicStart, Sessions
  <1>2. /\ Append(c, n) \in Seq(Sessions) /\ Len(c) \in Nat /\ Len(Append(c, n)) = Len(c) + 1
        /\ Append(c, n) # <<>> /\ Append(c, n)[Len(c) + 1] = n
        /\ \A i \in 1..Len(c) : Append(c, n)[i] = c[i]
    BY <1>1, AppendOf
  <1>3. /\ t \in MicRec /\ t.chain = Append(c, n) /\ t.fresh = n /\ t.on = m.on
        /\ t.port <=> (m.port \/ c = <<>>)
    BY <1>1, <1>2 DEF ChainOK, MicRec
  <1>4. \A i \in 1..(Len(c) + 1) : i \in 1..Len(c) \/ i = Len(c) + 1
    BY <1>2
  <1>5. \A i \in 1..Len(c) : c[i] # n
    BY DEF InChain
  <1>6. \A i, j \in 1..Len(t.chain) : t.chain[i] = t.chain[j] => i = j
    BY <1>2, <1>3, <1>4, <1>5 DEF ChainOK
  <1>7. ~t.port => Head(t.chain) # n
    <2>1. c # <<>> => Head(Append(c, n)) = c[1] /\ 1 \in 1..Len(c)
      BY <1>1, <1>2
    <2> QED BY <2>1, <1>3, <1>5
  <1>8. ChainOK(t)
    BY <1>2, <1>3, <1>6, <1>7 DEF ChainOK
  <1>9. ASSUME NEW k \in Sessions PROVE InChain(t, k) <=> InChain(m, k) \/ k = n
    BY <1>2, <1>3, <1>4 DEF InChain
  <1> QED BY <1>3, <1>8, <1>9

\* A stop forgets the newest attempt.
LEMMA StopChain ==
    ASSUME NEW m, ChainOK(m)
    PROVE  /\ ChainOK(MicStop(m)) /\ MicStop(m).fresh = 0 /\ ~MicStop(m).on
           /\ \A k \in Sessions : InChain(MicStop(m), k) <=> InChain(m, k)
  <1>1. /\ MicStop(m) \in MicRec /\ MicStop(m).fresh = 0 /\ ~MicStop(m).on
        /\ MicStop(m).chain = m.chain /\ MicStop(m).port = m.port
    <2>1. MicStop(m) = [m EXCEPT !.fresh = 0, !.on = FALSE] /\ m \in MicRec /\ 0 \in 0..MaxStarts
      BY VoiceAssumption DEF ChainOK, MicStop
    <2> HIDE DEF MicStop
    <2> QED BY <2>1 DEF MicRec
  <1>2. m.chain # <<>> => Head(m.chain) \in Sessions
    BY TailOf DEF ChainOK, MicRec
  <1> QED BY <1>1, <1>2 DEF ChainOK, InChain, Sessions

----------------------------------------------------------------------------
(* The sessions and their microphone, step by step.                         *)

\* A session n that changes to t, and the microphone that changes to m.
LEMMA SessionStep ==
    ASSUME VoiceShape, Life, Line, NEW n \in Sessions, NEW t \in SessionRec, LifeOf(t), NEW m,
           n <= starts, t.state = "idle" <=> session[n].state = "idle",
           session' = [session EXCEPT ![n] = t], mic' = m, ChainOK(m),
           UNCHANGED <<engine, mode, starts, deafened>>, listening' \in BOOLEAN,
           m.fresh # 0 => engine = m.fresh,
           m.on => m.fresh # 0,
           \A k \in Sessions \ {n} : InChain(m, k) <=> InChain(mic, k),
           t.mic = "pending" <=> InChain(m, n),
           engine # 0 /\ session'[engine].start # "url" /\ engine \notin deafened
             => m.fresh = engine /\ (session'[engine].mic = "up" => m.on)
    PROVE  VoiceShape' /\ Life' /\ Line'
  <1>1. session' \in [Sessions -> SessionRec] /\ session'[n] = t
    BY DEF VoiceShape
  <1>2. \A k \in Sessions \ {n} : session'[k] = session[k]
    BY DEF VoiceShape
  <1>3. VoiceShape'
    BY <1>1 DEF VoiceShape
  <1>4. Life'
    <2>1. engine # 0 => session'[engine].state # "idle"
      BY <1>1, <1>2 DEF Life, Engaged, VoiceShape, Sessions
    <2>2. \A k \in Sessions : LifeOf(session'[k]) /\ (session'[k].state # "idle" => engine = k)
      BY <1>1, <1>2 DEF Life, Engaged
    <2>3. \A k \in Sessions : k > starts => session'[k] = NoSession
      BY <1>2 DEF Life, VoiceShape, Sessions
    <2> QED BY <2>1, <2>2, <2>3 DEF Life, Engaged
  <1>5. \A k \in Sessions : session'[k].mic = "pending" <=> InChain(m, k)
    BY <1>1, <1>2 DEF Line
  <1> QED BY <1>3, <1>4, <1>5 DEF Line

\* The cleanup of n, a session that became s, over the microphone m.
LEMMA CleanupStep ==
    ASSUME VoiceShape, Life, Line, NEW n \in Sessions, NEW s \in SessionRec, Dying(s), NEW m,
           n <= starts, Cleanup(n, s, m), ChainOK(m), starts' = starts,
           deafened' \subseteq Sessions,
           \A k \in Sessions \ {n} : InChain(m, k) <=> InChain(mic, k),
           s.mic = "pending" <=> InChain(m, n),
           engine \in {0, n} \/ engine \in deafened'
    PROVE  VoiceShape' /\ Life' /\ Line'
  <1>1. /\ session' = [session EXCEPT ![n] = Cleaned(s)] /\ mic' = MicStop(m)
        /\ listening' = (listening /\ session[n].state # "active")
        /\ engine = n => engine' = 0 /\ mode' = "none"
        /\ engine # n => engine' = engine /\ mode' = mode
    BY DEF Cleanup, Cleared
  <1>2. /\ Cleaned(s) \in SessionRec /\ LifeOf(Cleaned(s)) /\ Cleaned(s).mic = s.mic
        /\ Cleaned(s).state = "idle"
    BY CleanedLife
  <1>3. /\ ChainOK(MicStop(m)) /\ MicStop(m).fresh = 0 /\ ~MicStop(m).on
        /\ \A k \in Sessions : InChain(MicStop(m), k) <=> InChain(m, k)
    BY StopChain
  <1>4. session' \in [Sessions -> SessionRec] /\ session'[n] = Cleaned(s)
    BY <1>1, <1>2 DEF VoiceShape
  <1>5. \A k \in Sessions \ {n} : session'[k] = session[k]
    BY <1>1 DEF VoiceShape
  <1>6. VoiceShape'
    <2>1. engine' \in 0..MaxStarts /\ ((mode' = "none") <=> (engine' = 0))
      BY <1>1, VoiceAssumption DEF VoiceShape
    <2>2. mode' \in {"none", "dictation", "conversation"} /\ listening' \in BOOLEAN
      BY <1>1 DEF VoiceShape
    <2> QED BY <1>4, <2>1, <2>2 DEF VoiceShape
  <1>7. Life'
    <2>1. engine' <= starts /\ (engine' # 0 => session'[engine'].state # "idle")
      BY <1>1, <1>5, VoiceAssumption DEF Life, Engaged, VoiceShape, Sessions
    <2>2. \A k \in Sessions : LifeOf(session'[k]) /\ (session'[k].state # "idle" => engine' = k)
      BY <1>1, <1>2, <1>4, <1>5 DEF Life, Engaged
    <2>3. \A k \in Sessions : k > starts => session'[k] = NoSession
      BY <1>5 DEF Life, VoiceShape, Sessions
    <2> QED BY <2>1, <2>2, <2>3 DEF Life, Engaged
  <1>8. \A k \in Sessions : session'[k].mic = "pending" <=> InChain(MicStop(m), k)
    BY <1>2, <1>3, <1>4, <1>5 DEF Line
  <1>9. engine' = 0 \/ engine' \in deafened'
    BY <1>1
  <1> QED BY <1>1, <1>3, <1>6, <1>7, <1>8, <1>9 DEF Line

\* A session that is not as it was made has been started.
LEMMA Started ==
    ASSUME VoiceShape, Life, NEW n \in Sessions, session[n].start # "none"
    PROVE  n <= starts /\ LifeOf(session[n]) /\ session[n] \in SessionRec
  BY DEF VoiceShape, Life, NoSession, Sessions

\* start.
LEMMA VoiceBegin ==
    ASSUME VoiceShape, Life, Line, NEW mo \in {"dictation", "conversation"}, Start(mo)
    PROVE  VoiceShape' /\ Life' /\ Line'
  <1> DEFINE e == starts + 1
             t == [NoSession EXCEPT !.state = "starting", !.start = "url"]
  <1>1. /\ engine = 0 /\ starts < MaxStarts /\ starts' = e /\ engine' = e /\ mode' = mo
        /\ session' = [session EXCEPT ![e] = t] /\ UNCHANGED <<mic, listening, deafened>>
    BY DEF Start, Begin
  <1>2. e \in Sessions /\ e # 0 /\ e \in 0..MaxStarts /\ session[e] = NoSession
    BY <1>1, VoiceAssumption DEF VoiceShape, Life, Sessions
  <1>3. /\ t \in SessionRec /\ LifeOf(t) /\ t.mic = "none" /\ t.state = "starting" /\ t.start = "url"
        /\ NoSession.mic = "none"
    BY DEF NoSession, SessionRec, LifeOf
  <1> HIDE DEF t
  <1>4. /\ session' \in [Sessions -> SessionRec] /\ session'[e] = t
        /\ \A k \in Sessions \ {e} : session'[k] = session[k]
    BY <1>1, <1>2, <1>3 DEF VoiceShape
  <1>5. VoiceShape'
    BY <1>1, <1>2, <1>4 DEF VoiceShape
  <1>6. Life'
    <2>1. engine' <= starts' /\ session'[engine'].state # "idle"
      BY <1>1, <1>2, <1>3, <1>4 DEF VoiceShape
    <2>2. \A k \in Sessions : LifeOf(session'[k]) /\ (session'[k].state # "idle" => engine' = k)
      BY <1>1, <1>2, <1>3, <1>4 DEF Life, Engaged, Sessions
    <2>3. \A k \in Sessions : k > starts' => session'[k] = NoSession
      BY <1>1, <1>4 DEF Life, VoiceShape, Sessions
    <2> QED BY <2>1, <2>2, <2>3 DEF Life, Engaged
  <1>7. mic.fresh = 0 /\ ~mic.on
    BY <1>1 DEF Line
  <1>8. \A k \in Sessions : session'[k].mic = "pending" <=> InChain(mic, k)
    BY <1>2, <1>3, <1>4 DEF Line
  <1>9. session'[engine'].start = "url"
    BY <1>1, <1>3, <1>4
  <1> QED BY <1>1, <1>5, <1>6, <1>7, <1>8, <1>9 DEF Line

\* end.
LEMMA VoiceEnd ==
    ASSUME VoiceShape, Life, Line, NEW send, End(send)
    PROVE  VoiceShape' /\ Life' /\ Line'
  <1> DEFINE s == [session[engine] EXCEPT !.stopped = TRUE]
  <1>1. /\ engine # 0 /\ engine \in Sessions /\ Cleanup(engine, s, mic)
        /\ starts' = starts /\ deafened' = deafened /\ engine <= starts
    BY DEF End, VoiceShape, Sessions, Life
  <1>2. session[engine] \in SessionRec /\ LifeOf(session[engine])
    BY <1>1 DEF VoiceShape, Life
  <1>3. /\ s \in SessionRec /\ s.stopped /\ s.start = session[engine].start
        /\ s.mic = session[engine].mic /\ s.dial = session[engine].dial
    BY <1>2 DEF SessionRec
  <1> HIDE DEF s
  <1>4. Dying(s)
    BY <1>2, <1>3 DEF Dying, LifeOf
  <1> QED BY <1>1, <1>3, <1>4, CleanupStep DEF Line, VoiceShape

\* The start of an engine session.
LEMMA VoiceUrlReady ==
    ASSUME VoiceShape, Life, Line, NEW n \in Sessions, UrlReady(n)
    PROVE  VoiceShape' /\ Life' /\ Line'
  <1>1. /\ session[n].start = "url" /\ UNCHANGED <<engine, mode, starts, listening, deafened>>
        /\ listening' \in BOOLEAN
    BY DEF UrlReady, VoiceShape
  <1>2. /\ n <= starts /\ LifeOf(session[n]) /\ session[n] \in SessionRec
        /\ session[n].mic = "none" /\ ~InChain(mic, n)
    BY <1>1, Started DEF LifeOf, Line
  <1>3. CASE session[n].stopped
    <2> DEFINE t == [session[n] EXCEPT !.start = "over"]
    <2>1. session' = [session EXCEPT ![n] = t] /\ mic' = mic /\ session[n].state = "idle"
      BY <1>2, <1>3 DEF UrlReady, LifeOf
    <2>2. /\ t \in SessionRec /\ LifeOf(t) /\ t.mic = "none" /\ t.state = "idle"
      BY <1>1, <1>2, <1>3 DEF SessionRec, LifeOf
    <2> HIDE DEF t
    <2>3. engine # n
      BY <2>1 DEF Life, Engaged, Sessions
    <2>4. engine # 0 => session'[engine] = session[engine]
      BY <2>1, <2>3 DEF VoiceShape, Sessions
    <2> QED BY <1>1, <1>2, <2>1, <2>2, <2>4, SessionStep DEF Line
  <1>4. CASE ~session[n].stopped
    <2> DEFINE t == [session[n] EXCEPT !.start = "joining", !.mic = "pending",
                                       !.dial = "pending", !.socket = "dialed"]
               m == MicStart(mic, n)
    <2>1. /\ session' = [session EXCEPT ![n] = t] /\ mic' = m
          /\ session[n].state = "starting" /\ engine = n
      BY <1>1, <1>2, <1>4 DEF UrlReady, LifeOf, Life, Engaged
    <2>2. /\ t \in SessionRec /\ t.mic = "pending" /\ t.state = "starting" /\ t.start = "joining"
          /\ t.dial = "pending" /\ t.socket = "dialed" /\ t.stopped = session[n].stopped
      BY <1>2, <2>1 DEF SessionRec
    <2>3. /\ ChainOK(m) /\ m.fresh = n /\ m.on = mic.on
          /\ \A k \in Sessions : InChain(m, k) <=> InChain(mic, k) \/ k = n
      BY <1>2, StartChain DEF Line
    <2> HIDE DEF t, m
    <2>4. LifeOf(t)
      BY <2>2, <1>4 DEF LifeOf
    <2>5. session'[engine] = t /\ n # 0
      BY <2>1 DEF VoiceShape, Sessions
    <2> QED BY <1>1, <1>2, <2>1, <2>2, <2>3, <2>4, <2>5, SessionStep
  <1> QED BY <1>3, <1>4

\* The session keeps its invariant when no socket URL is to be had.
LEMMA VoiceUrlFails ==
    ASSUME VoiceShape, Life, Line, NEW n \in Sessions, UrlFails(n)
    PROVE  VoiceShape' /\ Life' /\ Line'
  <1> DEFINE s == [session[n] EXCEPT !.start = "over"]
  <1>1. /\ session[n].start = "url" /\ Cleanup(n, s, mic) /\ starts' = starts
        /\ deafened' = deafened \cup ({engine} \ {0, n})
    BY DEF UrlFails, Failed
  <1>2. n <= starts /\ LifeOf(session[n]) /\ session[n] \in SessionRec
    BY <1>1, Started
  <1>3. /\ s \in SessionRec /\ s.start = "over" /\ s.mic = session[n].mic
        /\ s.dial = session[n].dial
    BY <1>2 DEF SessionRec
  <1> HIDE DEF s
  <1>4. Dying(s)
    BY <1>1, <1>2, <1>3 DEF Dying, LifeOf
  <1>5. deafened' \subseteq Sessions /\ (engine \in {0, n} \/ engine \in deafened')
    BY <1>1 DEF VoiceShape, Sessions
  <1> QED BY <1>1, <1>2, <1>3, <1>4, <1>5, CleanupStep DEF Line

\* The session keeps its invariant when the socket opens.
LEMMA VoiceSocketOpens ==
    ASSUME VoiceShape, Life, Line, NEW n \in Sessions, SocketOpens(n)
    PROVE  VoiceShape' /\ Life' /\ Line'
  <1> DEFINE t == [session[n] EXCEPT !.socket = "open"]
  <1>1. /\ session[n].socket = "dialed" /\ session' = [session EXCEPT ![n] = t]
        /\ UNCHANGED <<engine, mode, starts, mic, listening, deafened>>
        /\ listening' \in BOOLEAN /\ session[n] \in SessionRec /\ LifeOf(session[n])
    BY DEF SocketOpens, VoiceShape, Life
  <1>2. n <= starts
    BY <1>1, VoiceAssumption DEF Life, NoSession, VoiceShape, Sessions
  <1>3. /\ t \in SessionRec /\ LifeOf(t) /\ t.mic = session[n].mic /\ t.state = session[n].state
        /\ t.start = session[n].start
    BY <1>1 DEF SessionRec, LifeOf
  <1> HIDE DEF t
  <1>4. engine # 0 => /\ session'[engine].start = session[engine].start
                      /\ session'[engine].mic = session[engine].mic
    BY <1>1, <1>3 DEF VoiceShape, Sessions
  <1> QED BY <1>1, <1>2, <1>3, <1>4, SessionStep DEF Line

\* The session keeps its invariant when the server ends it unasked.
LEMMA VoiceEndedUnasked ==
    ASSUME VoiceShape, Life, Line, NEW n \in Sessions, EndedUnasked(n)
    PROVE  VoiceShape' /\ Life' /\ Line'
  <1>1. /\ session[n].socket # "none" /\ Cleanup(n, session[n], mic) /\ starts' = starts
        /\ deafened' = deafened /\ session[n] \in SessionRec /\ LifeOf(session[n])
    BY DEF EndedUnasked, VoiceShape, Life
  <1>2. n <= starts
    BY <1>1, VoiceAssumption DEF Life, NoSession, VoiceShape, Sessions
  <1>3. engine = n /\ Dying(session[n])
    BY <1>1 DEF LifeOf, Dying, Life, Engaged, SessionRec
  <1> QED BY <1>1, <1>2, <1>3, CleanupStep DEF Line, VoiceShape

\* The session keeps its invariant when the server accepts its dial.
LEMMA VoiceStateFrame ==
    ASSUME VoiceShape, Life, Line, NEW n \in Sessions, StateFrame(n)
    PROVE  VoiceShape' /\ Life' /\ Line'
  <1> DEFINE s == [session[n] EXCEPT !.dial = "accepted"]
  <1>1. /\ session[n].socket = "open" /\ session[n].dial = "pending" /\ Joined(n, s, mic)
        /\ UNCHANGED <<engine, mode, starts, deafened>>
        /\ session[n] \in SessionRec /\ LifeOf(session[n])
    BY DEF StateFrame, VoiceShape, Life
  <1>2. n <= starts /\ session[n].start = "joining" /\ session[n].state # "idle"
    BY <1>1, Started DEF LifeOf
  <1>3. /\ s \in SessionRec /\ s.dial = "accepted" /\ s.start = "joining" /\ s.mic = session[n].mic
        /\ s.state = session[n].state /\ s.socket = "open" /\ s.stopped = session[n].stopped
    BY <1>1, <1>2 DEF SessionRec
  <1> HIDE DEF s
  <1>4. Joining(s)
    BY <1>1, <1>2, <1>3 DEF Joining, LifeOf
  <1>5. /\ JoinedRec(s) \in SessionRec /\ LifeOf(JoinedRec(s)) /\ JoinedRec(s).mic = s.mic
        /\ JoinedRec(s).state = "idle" <=> s.state = "idle"
    BY <1>3, <1>4, JoinedLife
  <1>6. /\ session' = [session EXCEPT ![n] = JoinedRec(s)] /\ mic' = mic
        /\ listening' = (listening \/ Active(s))
    BY <1>1, JoinedStep
  <1>7. listening' \in BOOLEAN
    BY <1>6 DEF VoiceShape, Active, Done
  <1>8. engine = n /\ session'[engine] = JoinedRec(s)
    BY <1>2, <1>6 DEF Life, Engaged, VoiceShape
  <1>9. engine \notin deafened => mic.fresh = engine /\ (session'[engine].mic = "up" => mic.on)
    BY <1>2, <1>3, <1>5, <1>8 DEF Line, Sessions
  <1> QED BY <1>1, <1>2, <1>3, <1>5, <1>6, <1>7, <1>9, SessionStep DEF Line

\* The first start of the chain settles: what its session is then, and what
\* the current session knows of it.
LEMMA VoiceHead ==
    ASSUME VoiceShape, Life, Line, mic.chain # <<>>
    PROVE  LET n == Head(mic.chain)
           IN  /\ n \in Sessions /\ n <= starts /\ session[n].mic = "pending"
               /\ session[n] \in SessionRec /\ LifeOf(session[n])
               /\ engine = n => session[n].start = "joining"
               /\ engine # 0 /\ engine # n /\ session[engine].start # "url" /\ engine \notin deafened
                    => session[engine].mic # "up"
  <1> DEFINE n == Head(mic.chain)
  <1>1. n \in Sessions /\ InChain(mic, n)
    BY NextChain DEF Line
  <1>2. session[n].mic = "pending" /\ session[n] \in SessionRec /\ LifeOf(session[n])
    BY <1>1 DEF Line, VoiceShape, Life
  <1>3. n <= starts
    BY <1>1, <1>2, VoiceAssumption DEF Life, NoSession, VoiceShape, Sessions
  <1>4. ASSUME engine = n PROVE session[n].start = "joining"
    BY <1>1, <1>2, <1>4 DEF Life, LifeOf, Engaged, SessionRec, Sessions
  <1>5. ASSUME engine # 0, session[engine].start # "url", engine \notin deafened
        PROVE  session[engine].mic = "pending"
    <2>1. mic.fresh = engine /\ mic.chain[Len(mic.chain)] = engine /\ engine \in Sessions
      BY <1>5 DEF Line, ChainOK, VoiceShape, Sessions
    <2>2. Len(mic.chain) \in 1..Len(mic.chain)
      BY TailOf DEF Line, ChainOK, MicRec
    <2>3. InChain(mic, engine)
      BY <2>1, <2>2 DEF InChain
    <2> QED BY <2>1, <2>3 DEF Line
  <1> QED BY <1>1, <1>2, <1>3, <1>4, <1>5

\* The session whose start settles with a microphone: it is skipped as
\* overtaken, or the port is ready.
LEMMA VoiceUp ==
    ASSUME VoiceShape, Life, Line, mic.chain # <<>>, NEW m,
           (m = MicNext(mic) /\ ~mic.port) \/ m = MicSettle(mic, TRUE),
           Joined(Head(mic.chain), [session[Head(mic.chain)] EXCEPT !.mic = "up"], m),
           UNCHANGED <<engine, mode, starts, deafened>>
    PROVE  VoiceShape' /\ Life' /\ Line'
  <1> DEFINE n == Head(mic.chain)
             s == [session[n] EXCEPT !.mic = "up"]
  <1>1. /\ n \in Sessions /\ n <= starts /\ session[n].mic = "pending"
        /\ session[n] \in SessionRec /\ LifeOf(session[n])
        /\ engine = n => session[n].start = "joining"
        /\ engine # 0 /\ engine # n /\ session[engine].start # "url" /\ engine \notin deafened
             => session[engine].mic # "up"
    BY VoiceHead
  <1>2. /\ ChainOK(MicNext(mic)) /\ MicNext(mic).fresh = mic.fresh /\ MicNext(mic).on = mic.on
        /\ \A k \in Sessions : InChain(MicNext(mic), k) <=> InChain(mic, k) /\ k # n
    BY NextChain DEF Line
  <1>3. /\ m \in MicRec /\ m.fresh = mic.fresh /\ m.chain = MicNext(mic).chain
        /\ m.port = MicNext(mic).port /\ (m.on => mic.fresh # 0)
        /\ m.on \/ n # mic.fresh
    <2>1. CASE m = MicNext(mic) /\ ~mic.port
      BY <1>2, <2>1 DEF Line, ChainOK
    <2>2. CASE m = MicSettle(mic, TRUE)
      <3> DEFINE x == MicNext(mic)
      <3>1. m = [x EXCEPT !.on = (n = mic.fresh)] /\ x \in MicRec
        BY <1>2, <2>2 DEF MicSettle, ChainOK
      <3> HIDE DEF x
      <3>2. /\ m \in MicRec /\ m.fresh = x.fresh /\ m.chain = x.chain
            /\ m.port = x.port /\ (m.on <=> (n = mic.fresh))
        BY <3>1 DEF MicRec
      <3> QED BY <1>1, <1>2, <3>2 DEF x, Sessions
    <2> QED BY <2>1, <2>2
  <1>4. /\ ChainOK(m) /\ \A k \in Sessions : InChain(m, k) <=> InChain(mic, k) /\ k # n
    BY <1>2, <1>3, SameChain
  <1>5. /\ s \in SessionRec /\ s.mic = "up" /\ s.dial = session[n].dial /\ s.start = session[n].start
        /\ s.state = session[n].state /\ s.socket = session[n].socket
        /\ s.stopped = session[n].stopped /\ s.waiting = session[n].waiting
    BY <1>1 DEF SessionRec
  <1>6. /\ session' = [session EXCEPT ![n] = JoinedRec(s)] /\ mic' = m
        /\ listening' = (listening \/ Active(s))
    BY JoinedStep
  <1> HIDE DEF s
  <1>7. Joining(s)
    BY <1>1, <1>5 DEF Joining, LifeOf, SessionRec
  <1>8. /\ JoinedRec(s) \in SessionRec /\ LifeOf(JoinedRec(s)) /\ JoinedRec(s).mic = "up"
        /\ JoinedRec(s).state = "idle" <=> s.state = "idle"
    BY <1>5, <1>7, JoinedLife
  <1>9. listening' \in BOOLEAN
    BY <1>6 DEF VoiceShape, Active, Done
  <1>10. ASSUME engine # 0, session'[engine].start # "url", engine \notin deafened
         PROVE  m.fresh = engine /\ (session'[engine].mic = "up" => m.on)
    <2>1. CASE engine = n
      <3>1. mic.fresh = engine
        BY <1>1, <1>10, <2>1 DEF Line
      <3> QED BY <1>3, <2>1, <3>1
    <2>2. CASE engine # n
      <3>1. session'[engine] = session[engine]
        BY <1>6, <1>10, <2>2 DEF VoiceShape, Sessions
      <3> QED BY <1>1, <1>3, <1>10, <2>2, <3>1 DEF Line
    <2> QED BY <2>1, <2>2
  <1>11. m.fresh # 0 => engine = m.fresh
    BY <1>3 DEF Line
  <1> HIDE DEF n
  <1> QED BY <1>1, <1>3, <1>4, <1>5, <1>6, <1>8, <1>9, <1>10, <1>11, SessionStep

\* The session keeps its invariant when the microphone port fails.
LEMMA VoicePortFails ==
    ASSUME VoiceShape, Life, Line, PortFails
    PROVE  VoiceShape' /\ Life' /\ Line'
  <1> DEFINE n == Head(mic.chain)
             s == [session[n] EXCEPT !.mic = "failed"]
             m == MicSettle(mic, FALSE)
  <1>1. mic.port /\ mic.chain # <<>> /\ starts' = starts
    BY DEF PortFails, Line, ChainOK
  <1>2. /\ n \in Sessions /\ n <= starts /\ session[n].mic = "pending"
        /\ session[n] \in SessionRec /\ LifeOf(session[n])
        /\ engine = n => session[n].start = "joining"
        /\ engine # 0 /\ engine # n /\ session[engine].start # "url" /\ engine \notin deafened
             => session[engine].mic # "up"
    BY <1>1, VoiceHead
  <1>3. /\ ChainOK(MicNext(mic)) /\ MicNext(mic).fresh = mic.fresh
        /\ \A k \in Sessions : InChain(MicNext(mic), k) <=> InChain(mic, k) /\ k # n
    BY <1>1, NextChain DEF Line
  <1>4. /\ m \in MicRec /\ m.fresh = mic.fresh /\ m.chain = MicNext(mic).chain
        /\ m.port = MicNext(mic).port /\ ~m.on
    <2> DEFINE x == MicNext(mic)
    <2>1. m = [x EXCEPT !.on = FALSE] /\ x \in MicRec
      BY <1>3 DEF MicSettle, ChainOK
    <2> HIDE DEF m, x
    <2>2. /\ m \in MicRec /\ m.fresh = x.fresh /\ m.chain = x.chain
          /\ m.port = x.port /\ ~m.on
      BY <2>1 DEF MicRec
    <2> QED BY <1>3, <2>2 DEF x
  <1>5. /\ ChainOK(m) /\ \A k \in Sessions : InChain(m, k) <=> InChain(mic, k) /\ k # n
    BY <1>3, <1>4, SameChain
  <1>6. /\ s \in SessionRec /\ s.mic = "failed" /\ s.dial = session[n].dial /\ s.start = session[n].start
        /\ s.state = session[n].state /\ s.socket = session[n].socket
        /\ s.stopped = session[n].stopped /\ s.waiting = session[n].waiting
    BY <1>2 DEF SessionRec
  <1>7. CASE session[n].start = "joining"
    <2>1. Cleanup(n, s, m) /\ deafened' = deafened \cup ({engine} \ {0, n})
      BY <1>7 DEF PortFails, Failed
    <2>2. deafened' \subseteq Sessions /\ (engine \in {0, n} \/ engine \in deafened')
      BY <2>1 DEF VoiceShape, Sessions
    <2> HIDE DEF n, s, m
    <2>3. Dying(s)
      BY <1>2, <1>6, <1>7 DEF Dying, LifeOf
    <2> QED BY <1>1, <1>2, <1>5, <1>6, <2>1, <2>2, <2>3, CleanupStep
  <1>8. CASE session[n].start # "joining"
    <2>1. /\ mic' = m /\ session' = [session EXCEPT ![n] = s]
          /\ UNCHANGED <<engine, mode, listening, deafened>>
      BY <1>8 DEF PortFails
    <2>2. engine # n /\ session[n].state = "idle" /\ listening' \in BOOLEAN
      BY <1>2, <1>8, <2>1 DEF Life, LifeOf, Engaged, VoiceShape
    <2>3. engine # 0 => session'[engine] = session[engine]
      BY <2>1, <2>2 DEF VoiceShape, Sessions
    <2> HIDE DEF n, s, m
    <2>4. LifeOf(s)
      BY <1>2, <1>6, <1>8, <2>2 DEF LifeOf, SessionRec
    <2>5. engine # 0 /\ session'[engine].start # "url" /\ engine \notin deafened
             => m.fresh = engine /\ (session'[engine].mic = "up" => m.on)
      BY <1>2, <1>4, <2>2, <2>3 DEF Line
    <2>6. m.fresh # 0 => engine = m.fresh
      BY <1>4 DEF Line
    <2> QED BY <1>1, <1>2, <1>4, <1>5, <1>6, <2>1, <2>2, <2>4, <2>5, <2>6, SessionStep
  <1> QED BY <1>7, <1>8

\* A reply waits for the start of the current session.
LEMMA VoiceSpeak ==
    ASSUME VoiceShape, Life, Line, Speak
    PROVE  VoiceShape' /\ Life' /\ Line'
  <1>1. UNCHANGED <<engine, mode, starts, mic, listening, deafened>> /\ listening' \in BOOLEAN
    BY DEF Speak, VoiceShape
  <1>2. CASE engine # 0 /\ session[engine].state # "active"
    <2> DEFINE t == [session[engine] EXCEPT !.waiting = session[engine].waiting + 1]
    <2>1. session' = [session EXCEPT ![engine] = t] /\ engine \in Sessions
      BY <1>2 DEF Speak, VoiceShape, Sessions
    <2>2. /\ session[engine] \in SessionRec /\ LifeOf(session[engine])
          /\ session[engine].state # "idle" /\ engine <= starts
      BY <1>2, <2>1 DEF VoiceShape, Life, Engaged
    <2>3. /\ t \in SessionRec /\ LifeOf(t) /\ t.mic = session[engine].mic
          /\ t.start = session[engine].start /\ t.state = session[engine].state
      BY <1>2, <2>2 DEF SessionRec, LifeOf
    <2> HIDE DEF t
    <2>4. session'[engine] = t
      BY <2>1 DEF VoiceShape
    <2> QED BY <1>1, <2>1, <2>2, <2>3, <2>4, SessionStep DEF Line
  <1>3. CASE engine = 0 \/ session[engine].state = "active"
    <2>1. session' = session
      BY <1>3 DEF Speak
    <2> QED BY <1>1, <2>1 DEF VoiceShape, Life, Line, Engaged
  <1> QED BY <1>2, <1>3

\* Every step keeps the sessions and the microphone in order.
LEMMA VoiceNext ==
    ASSUME VoiceShape, Life, Line, [Next]_vars
    PROVE  VoiceShape' /\ Life' /\ Line'
  <1>1. ASSUME NEW mo \in {"dictation", "conversation"}, Start(mo) PROVE VoiceShape' /\ Life' /\ Line'
    BY <1>1, VoiceBegin
  <1>2. ASSUME NEW send, End(send) PROVE VoiceShape' /\ Life' /\ Line'
    BY <1>2, VoiceEnd
  <1>3. ASSUME IdleTimerFires PROVE VoiceShape' /\ Life' /\ Line'
    BY <1>3, VoiceEnd DEF IdleTimerFires
  <1>4. ASSUME NEW n \in Sessions,
               UrlReady(n) \/ UrlFails(n) \/ SocketOpens(n) \/ StateFrame(n) \/ EndedUnasked(n)
        PROVE  VoiceShape' /\ Life' /\ Line'
    BY <1>4, VoiceUrlReady, VoiceUrlFails, VoiceSocketOpens, VoiceStateFrame, VoiceEndedUnasked
  <1>5. ASSUME MicSkip PROVE VoiceShape' /\ Life' /\ Line'
    BY <1>5, VoiceUp DEF MicSkip
  <1>6. ASSUME PortReady PROVE VoiceShape' /\ Life' /\ Line'
    <2>1. mic.chain # <<>>
      BY <1>6 DEF PortReady, Line, ChainOK
    <2> QED BY <1>6, <2>1, VoiceUp DEF PortReady
  <1>7. ASSUME PortFails PROVE VoiceShape' /\ Life' /\ Line'
    BY <1>7, VoicePortFails
  <1>8. ASSUME Speak PROVE VoiceShape' /\ Life' /\ Line'
    BY <1>8, VoiceSpeak
  <1>9. ASSUME UNCHANGED voiceVars PROVE VoiceShape' /\ Life' /\ Line'
    BY <1>9 DEF voiceVars, VoiceShape, Life, Line, Engaged
  <1>10. \/ StopSpeech \/ ReadAloud \/ PrepareFails \/ Transcript \/ TurnStart \/ SegmentOver
         \/ TurnEnd \/ TurnDropped \/ PlaybackFrame \/ (\E p \in Plays : PlayFrame(p) \/ Speaking(p))
         \/ UNCHANGED vars
         => UNCHANGED voiceVars
    BY DEF StopSpeech, ReadAloud, PrepareFails, Transcript, TurnStart, SegmentOver, TurnEnd,
           TurnDropped, PlaybackFrame, PlayFrame, Speaking, vars
  <1> QED BY <1>1, <1>2, <1>3, <1>4, <1>5, <1>6, <1>7, <1>8, <1>9, <1>10 DEF Next

----------------------------------------------------------------------------
(* What the user says.                                                      *)

\* Turns is kept when only the current session changes, and not to a new one.
LEMMA TurnsSame ==
    ASSUME Turns, UNCHANGED <<live, settling, committed, heard, said>>,
           engine' # 0 => engine # 0
    PROVE  Turns'
  BY DEF Turns

\* The cleanup of a session takes the floor back.
LEMMA CleanupTurn ==
    ASSUME TurnShape, NEW n, NEW s, NEW m, Cleanup(n, s, m)
    PROVE  /\ userTurn' \in BOOLEAN /\ idleTimer' \in BOOLEAN
           /\ engine' # 0 => engine # 0
  BY DEF Cleanup, Cleared, TurnShape

\* Every step keeps the segments apart.
LEMMA TurnsNext ==
    ASSUME TurnShape, Turns, VoiceShape, Life, [Next]_vars
    PROVE  TurnShape' /\ Turns'
  <1> USE VoiceAssumption DEF Segments
  <1>1. ASSUME NEW mo \in {"dictation", "conversation"}, Start(mo) PROVE TurnShape' /\ Turns'
    BY <1>1 DEF Start, Begin, TurnShape, Turns
  <1>2. ASSUME NEW send \in BOOLEAN, End(send) PROVE TurnShape' /\ Turns'
    <2>1. /\ engine # 0 /\ UNCHANGED <<live, settling, committed, heard>>
          /\ Cleanup(engine, [session[engine] EXCEPT !.stopped = TRUE], mic)
          /\ engine' = 0
      BY <1>2 DEF End, Cleanup, Cleared
    <2>2. userTurn' \in BOOLEAN /\ idleTimer' \in BOOLEAN
      BY <2>1, CleanupTurn
    <2>3. /\ said' \in [Segments -> Nat]
          /\ \A k \in Segments : said'[k] = said[k] \/ (said'[k] = said[k] + 1 /\ k \in committed \cup {live})
      BY <1>2 DEF End, TurnShape
    <2>4. TurnShape'
      BY <2>1, <2>2, <2>3 DEF TurnShape
    <2>5. \A k \in Segments : said'[k] <= 1 /\ (k > heard => said'[k] = 0)
      BY <2>1, <2>3 DEF Turns, TurnShape
    <2> QED BY <2>1, <2>4, <2>5 DEF Turns
  <1>3. ASSUME IdleTimerFires PROVE TurnShape' /\ Turns'
    BY <1>3, <1>2 DEF IdleTimerFires
  <1>4. ASSUME NEW n \in Sessions, UrlFails(n) \/ EndedUnasked(n) PROVE TurnShape' /\ Turns'
    <2>1. /\ UNCHANGED <<live, settling, committed, heard, said>>
          /\ \E s, m : Cleanup(n, s, m)
      BY <1>4 DEF UrlFails, EndedUnasked
    <2>2. userTurn' \in BOOLEAN /\ idleTimer' \in BOOLEAN /\ (engine' # 0 => engine # 0)
      BY <2>1, CleanupTurn
    <2> QED BY <2>1, <2>2, TurnsSame DEF TurnShape
  <1>5. ASSUME PortFails PROVE TurnShape' /\ Turns'
    <2>1. /\ UNCHANGED <<live, settling, committed, heard, said>>
          /\ (\E n, s, m : Cleanup(n, s, m)) \/ UNCHANGED <<engine, userTurn, idleTimer>>
      BY <1>5 DEF PortFails
    <2>2. userTurn' \in BOOLEAN /\ idleTimer' \in BOOLEAN /\ (engine' # 0 => engine # 0)
      BY <2>1, CleanupTurn DEF TurnShape
    <2> QED BY <2>1, <2>2, TurnsSame DEF TurnShape
  <1>6. ASSUME MicSkip \/ PortReady \/ (\E n \in Sessions : StateFrame(n)) PROVE TurnShape' /\ Turns'
    <2>1. /\ UNCHANGED <<engine, userTurn, live, settling, committed, heard, said>>
          /\ \E n, s, m : Joined(n, s, m)
      BY <1>6 DEF MicSkip, PortReady, StateFrame
    <2>2. idleTimer' \in BOOLEAN
      BY <2>1, JoinedStep DEF TurnShape, Active, Done
    <2> QED BY <2>1, <2>2, TurnsSame DEF TurnShape
  <1>7. ASSUME Transcript PROVE TurnShape' /\ Turns'
    <2>1. /\ engine # 0 /\ live = 0 /\ settling = 0 /\ heard < MaxSegments /\ heard' = heard + 1
          /\ live' = heard + 1 /\ UNCHANGED <<engine, userTurn, idleTimer, settling, committed, said>>
      BY <1>7 DEF Transcript, voiceVars
    <2> QED BY <2>1 DEF TurnShape, Turns
  <1>8. ASSUME TurnStart PROVE TurnShape' /\ Turns'
    <2>1. userTurn' \in BOOLEAN
      BY <1>8 DEF TurnStart, TurnShape
    <2>2. UNCHANGED <<engine, idleTimer, live, settling, committed, heard, said>>
      BY <1>8 DEF TurnStart, voiceVars
    <2> QED BY <2>1, <2>2, TurnsSame DEF TurnShape
  <1>9. ASSUME SegmentOver PROVE TurnShape' /\ Turns'
    <2>1. /\ engine # 0 /\ live # 0 /\ settling' = live /\ live' = 0
          /\ UNCHANGED <<engine, userTurn, idleTimer, committed, heard, said>>
      BY <1>9 DEF SegmentOver, voiceVars
    <2> QED BY <2>1 DEF TurnShape, Turns
  <1>10. ASSUME TurnEnd PROVE TurnShape' /\ Turns'
    <2>1. /\ engine # 0 /\ settling # 0 /\ settling' = 0 /\ live = 0
          /\ UNCHANGED <<engine, live, heard>> /\ settling \in Segments
      BY <1>10 DEF TurnEnd, voiceVars, Turns, TurnShape
    <2>2. CASE mode = "dictation"
      <3>1. committed' = committed \cup {settling} /\ UNCHANGED <<userTurn, idleTimer, said>>
        BY <1>10, <2>2 DEF TurnEnd
      <3> QED BY <2>1, <3>1 DEF TurnShape, Turns
    <2>3. CASE mode # "dictation"
      <3>1. /\ said' = [said EXCEPT ![settling] = @ + 1] /\ committed' = committed
            /\ userTurn' = FALSE /\ idleTimer' = TRUE
        BY <1>10, <2>3 DEF TurnEnd
      <3>2. /\ said' \in [Segments -> Nat] /\ said'[settling] = said[settling] + 1
            /\ \A k \in Segments \ {settling} : said'[k] = said[k]
        BY <2>1, <3>1 DEF TurnShape
      <3>3. TurnShape'
        BY <2>1, <3>1, <3>2 DEF TurnShape
      <3>4. settling \notin committed /\ said[settling] = 0
        BY <2>1 DEF Turns
      <3> QED BY <2>1, <3>1, <3>2, <3>3, <3>4 DEF Turns, TurnShape
    <2> QED BY <2>2, <2>3
  <1>11. ASSUME TurnDropped PROVE TurnShape' /\ Turns'
    <2>1. /\ settling' = 0 /\ userTurn' = FALSE
          /\ UNCHANGED <<engine, idleTimer, live, committed, heard, said>>
      BY <1>11 DEF TurnDropped, voiceVars
    <2> QED BY <2>1 DEF TurnShape, Turns
  <1>12. ASSUME UNCHANGED <<engine, turnVars>> PROVE TurnShape' /\ Turns'
    BY <1>12 DEF turnVars, TurnShape, Turns
  <1>13. \/ Speak \/ StopSpeech \/ ReadAloud \/ PrepareFails \/ PlaybackFrame
         \/ (\E n \in Sessions : UrlReady(n) \/ SocketOpens(n))
         \/ (\E p \in Plays : PlayFrame(p) \/ Speaking(p)) \/ UNCHANGED vars
         => UNCHANGED <<engine, turnVars>>
    BY DEF Speak, StopSpeech, ReadAloud, PrepareFails, PlaybackFrame, UrlReady, SocketOpens,
           PlayFrame, Speaking, vars, voiceVars
  <1> QED BY <1>1, <1>2, <1>3, <1>4, <1>5, <1>6, <1>7, <1>8, <1>9, <1>10, <1>11, <1>12, <1>13
          DEF Next

----------------------------------------------------------------------------
(* The speaker and the replies.                                             *)

\* The cleanup of a session ends its plays.
LEMMA CleanupPlays ==
    ASSUME PlayShape, Loops, Speaker, NEW n, NEW s, NEW m, Cleanup(n, s, m),
           reading' = reading
    PROVE  PlayShape' /\ Loops' /\ Speaker'
  <1>1. CASE engine = n
    <2>1. EndPlays /\ engine' = 0
      BY <1>1 DEF Cleanup, Cleared
    <2>2. PlayShape' /\ Loops' /\ ~draining' /\ \A p \in Plays : ~Held(p)'
      BY <2>1, EndPlaysLoops
    <2> QED BY <2>1, <2>2 DEF Speaker
  <1>2. CASE engine # n
    <2>1. UNCHANGED <<playVars, engine>>
      BY <1>2 DEF Cleanup
    <2> QED BY <2>1 DEF playVars, PlayShape, Loops, Speaker, Held
  <1> QED BY <1>1, <1>2

\* Every step keeps one loop at the speaker.
LEMMA PlaysNext ==
    ASSUME PlayShape, Loops, Speaker, VoiceShape, [Next]_vars
    PROVE  PlayShape' /\ Loops' /\ Speaker'
  <1>1. ASSUME NEW mo \in {"dictation", "conversation"}, Start(mo)
        PROVE  PlayShape' /\ Loops' /\ Speaker'
    <2>1. UNCHANGED playVars /\ reading'.loop = "none" /\ engine' # 0
      BY <1>1, VoiceAssumption DEF Start, Begin, Silent, VoiceShape
    <2> QED BY <2>1 DEF playVars, PlayShape, Loops, Speaker, Held
  <1>2. ASSUME NEW send, End(send) PROVE PlayShape' /\ Loops' /\ Speaker'
    BY <1>2, CleanupPlays DEF End
  <1>3. ASSUME IdleTimerFires PROVE PlayShape' /\ Loops' /\ Speaker'
    BY <1>3, <1>2 DEF IdleTimerFires
  <1>4. ASSUME NEW n \in Sessions, UrlFails(n) \/ EndedUnasked(n)
        PROVE  PlayShape' /\ Loops' /\ Speaker'
    BY <1>4, CleanupPlays DEF UrlFails, EndedUnasked, speechVars
  <1>5. ASSUME UNCHANGED <<playVars, engine, reading>> PROVE PlayShape' /\ Loops' /\ Speaker'
    BY <1>5 DEF playVars, PlayShape, Loops, Speaker, Held
  <1>6. ASSUME PortFails PROVE PlayShape' /\ Loops' /\ Speaker'
    <2>1. reading' = reading /\ ((\E n, s, m : Cleanup(n, s, m)) \/ UNCHANGED <<playVars, engine>>)
      BY <1>6 DEF PortFails, speechVars
    <2> QED BY <2>1, <1>5, CleanupPlays
  <1>7. ASSUME Speak \/ ReadAloud \/ PrepareFails PROVE PlayShape' /\ Loops' /\ Speaker'
    <2>1. UNCHANGED <<playVars, engine>> /\ (reading'.loop # "none" => engine = 0)
      <3>1. ASSUME Speak PROVE engine = 0 \/ reading' = reading
        BY <3>1 DEF Speak
      <3>2. ASSUME ReadAloud \/ PrepareFails PROVE engine = 0
        BY <3>2 DEF ReadAloud, PrepareFails, Speaker
      <3>3. UNCHANGED <<playVars, engine>>
        BY <1>7 DEF Speak, ReadAloud, PrepareFails, voiceVars
      <3> QED BY <1>7, <3>1, <3>2, <3>3 DEF Speaker
    <2> QED BY <2>1 DEF playVars, PlayShape, Loops, Speaker, Held
  <1>8. ASSUME StopSpeech PROVE PlayShape' /\ Loops' /\ Speaker'
    <2>1. reading'.loop = "none" /\ engine' = engine
      BY <1>8 DEF StopSpeech, Silent, voiceVars
    <2>2. CASE engine = 0
      <3>1. UNCHANGED playVars
        BY <1>8, <2>2 DEF StopSpeech
      <3> QED BY <2>1, <3>1 DEF playVars, PlayShape, Loops, Speaker, Held
    <2>3. CASE engine # 0
      <3>1. StopPlays
        BY <1>8, <2>3 DEF StopSpeech
      <3> QED BY <2>1, <2>3, <3>1, FrameLoops DEF Speaker
    <2> QED BY <2>1, <2>2, <2>3
  <1>9. ASSUME NEW p \in Plays, PlayFrame(p) \/ Speaking(p) PROVE PlayShape' /\ Loops' /\ Speaker'
    <2>1. /\ UNCHANGED <<engine, reading>>
          /\ (engine # 0 /\ Enqueue(p)) \/ PlayStep(p)
      BY <1>9 DEF PlayFrame, Speaking, voiceVars, speechVars
    <2>2. PlayStep(p) => Held(p)
      BY DEF PlayStep, UrlResolved, PlayFails, PlayStarted, PlayEnded, Held
    <2>3. engine # 0
      BY <2>1, <2>2 DEF Speaker
    <2> QED BY <2>1, <2>3, EnqueueLoops, PlayStepLoops DEF Speaker
  <1>10. ASSUME PlaybackFrame PROVE PlayShape' /\ Loops' /\ Speaker'
    <2>1. /\ UNCHANGED <<engine, reading>> /\ engine # 0
          /\ PausePlays \/ ResumePlays \/ StopPlays
      BY <1>10 DEF PlaybackFrame, voiceVars, speechVars
    <2> QED BY <2>1, FrameLoops DEF Speaker
  <1>11. \/ MicSkip \/ PortReady \/ Transcript \/ TurnStart \/ SegmentOver \/ TurnEnd \/ TurnDropped
         \/ (\E n \in Sessions : UrlReady(n) \/ SocketOpens(n) \/ StateFrame(n)) \/ UNCHANGED vars
         => UNCHANGED <<playVars, engine, reading>>
    BY DEF MicSkip, PortReady, Transcript, TurnStart, SegmentOver, TurnEnd, TurnDropped,
           UrlReady, SocketOpens, StateFrame, vars, voiceVars, speechVars
  <1> QED BY <1>1, <1>2, <1>3, <1>4, <1>5, <1>6, <1>7, <1>8, <1>9, <1>10, <1>11 DEF Next

\* The cleanup of a session drops the replies that wait for it.
LEMMA CleanupReplies ==
    ASSUME VoiceShape, Replies, NEW n \in Sessions, NEW s \in SessionRec, NEW m,
           Cleanup(n, s, m), asked' \in {0, asked}, UNCHANGED <<reading, replies>>
    PROVE  Replies'
  <1>1. session' = [session EXCEPT ![n] = Cleaned(s)] /\ Cleaned(s).waiting = 0
    BY DEF Cleanup, Cleaned, SessionRec
  <1>2. \A k \in Sessions : session'[k].waiting \in {0, session[k].waiting}
    BY <1>1 DEF VoiceShape
  <1>3. \A k \in Sessions : session[k].waiting \in Nat
    BY DEF VoiceShape, SessionRec
  <1>4. asked' \in 0..replies /\ \A k \in Sessions : asked' + session'[k].waiting <= replies
    BY <1>2, <1>3, VoiceAssumption DEF Replies
  <1> QED BY <1>4 DEF Replies

\* The start of a session that becomes active asks for the replies that waited.
LEMMA JoinedReplies ==
    ASSUME VoiceShape, Life, Replies, NEW n \in Sessions, NEW s \in SessionRec, Joining(s), NEW m,
           Joined(n, s, m), s.waiting = session[n].waiting, s.state = session[n].state,
           UNCHANGED <<reading, replies>>
    PROVE  Replies'
  <1>1. /\ session' = [session EXCEPT ![n] = JoinedRec(s)]
        /\ asked' = IF Active(s) THEN asked + s.waiting ELSE asked
    BY JoinedStep
  <1>2. /\ Active(s) => JoinedRec(s).waiting = 0
        /\ ~Active(s) => JoinedRec(s).waiting = s.waiting
    BY JoinedLife
  <1>3. \A k \in Sessions : session[k].waiting \in Nat
    BY DEF VoiceShape, SessionRec
  <1>4. CASE Active(s)
    <2>1. engine = n
      BY <1>4 DEF Active, Life, Engaged
    <2>2. \A k \in Sessions \ {n} : session'[k] = session[k] /\ session[k].waiting = 0
      BY <1>1, <2>1 DEF VoiceShape, Life, LifeOf, Engaged
    <2>3. session'[n].waiting = 0
      BY <1>1, <1>2, <1>4 DEF VoiceShape
    <2>4. asked' \in 0..replies /\ \A k \in Sessions : asked' + session'[k].waiting <= replies
      BY <1>1, <1>3, <1>4, <2>2, <2>3, VoiceAssumption DEF Replies
    <2> QED BY <2>4 DEF Replies
  <1>5. CASE ~Active(s)
    <2>1. asked' = asked /\ \A k \in Sessions : session'[k].waiting = session[k].waiting
      BY <1>1, <1>2, <1>5 DEF VoiceShape
    <2> QED BY <2>1 DEF Replies
  <1> QED BY <1>4, <1>5

\* Every step keeps the replies within what was asked for.
LEMMA RepliesNext ==
    ASSUME VoiceShape, Life, Line, Replies, [Next]_vars
    PROVE  Replies'
  <1> USE VoiceAssumption
  <1>1. ASSUME NEW mo \in {"dictation", "conversation"}, Start(mo) PROVE Replies'
    <2>1. /\ session' = [session EXCEPT ![starts + 1] =
                            [NoSession EXCEPT !.state = "starting", !.start = "url"]]
          /\ UNCHANGED <<asked, replies>> /\ reading' = Silent /\ starts + 1 \in Sessions
      BY <1>1 DEF Start, Begin, VoiceShape, Sessions
    <2>2. \A k \in Sessions : session'[k].waiting \in {0, session[k].waiting}
      BY <2>1 DEF VoiceShape, NoSession
    <2>3. \A k \in Sessions : session[k].waiting \in Nat
      BY DEF VoiceShape, SessionRec
    <2>4. \A k \in Sessions : asked + session'[k].waiting <= replies
      BY <2>2, <2>3 DEF Replies
    <2>5. reading' \in [queue : 0..MaxReplies, loop : {"none", "preparing", "playing"}] /\ reading'.queue = 0
      BY <2>1 DEF Silent
    <2> QED BY <2>1, <2>4, <2>5 DEF Replies
  <1>2. ASSUME NEW send, End(send) PROVE Replies'
    <2>1. /\ engine \in Sessions /\ session[engine] \in SessionRec
          /\ Cleanup(engine, [session[engine] EXCEPT !.stopped = TRUE], mic)
          /\ asked' = 0 /\ UNCHANGED <<reading, replies>>
      BY <1>2 DEF End, VoiceShape, Sessions
    <2>2. [session[engine] EXCEPT !.stopped = TRUE] \in SessionRec
      BY <2>1 DEF SessionRec
    <2> QED BY <2>1, <2>2, CleanupReplies
  <1>3. ASSUME IdleTimerFires PROVE Replies'
    BY <1>3, <1>2 DEF IdleTimerFires
  <1>4. ASSUME NEW n \in Sessions, UrlFails(n) PROVE Replies'
    <2>1. /\ session[n] \in SessionRec /\ Cleanup(n, [session[n] EXCEPT !.start = "over"], mic)
          /\ UNCHANGED <<asked, reading, replies>>
      BY <1>4 DEF UrlFails, VoiceShape, speechVars
    <2>2. [session[n] EXCEPT !.start = "over"] \in SessionRec
      BY <2>1 DEF SessionRec
    <2> QED BY <2>1, <2>2, CleanupReplies
  <1>5. ASSUME NEW n \in Sessions, EndedUnasked(n) PROVE Replies'
    <2>1. /\ session[n] \in SessionRec /\ Cleanup(n, session[n], mic)
          /\ asked' = 0 /\ UNCHANGED <<reading, replies>>
      BY <1>5 DEF EndedUnasked, VoiceShape
    <2> QED BY <2>1, CleanupReplies
  <1>6. ASSUME UNCHANGED <<session, asked, replies>>,
               reading' \in [queue : 0..MaxReplies, loop : {"none", "preparing", "playing"}],
               reading'.queue <= reading.queue
        PROVE  Replies'
    BY <1>6 DEF Replies
  <1>7. ASSUME PortFails PROVE Replies'
    <2> DEFINE n == Head(mic.chain)
               s == [session[n] EXCEPT !.mic = "failed"]
    <2>1. n \in Sessions /\ session[n] \in SessionRec
      BY <1>7, VoiceHead DEF PortFails, Line, ChainOK
    <2>2. s \in SessionRec /\ s.waiting = session[n].waiting
      BY <2>1 DEF SessionRec
    <2>3. UNCHANGED <<asked, reading, replies>>
      BY <1>7 DEF PortFails, speechVars
    <2>4. CASE session[n].start = "joining"
      <3>1. Cleanup(n, s, MicSettle(mic, FALSE))
        BY <1>7, <2>4 DEF PortFails
      <3> QED BY <2>1, <2>2, <2>3, <3>1, CleanupReplies
    <2>5. CASE session[n].start # "joining"
      <3>1. session' = [session EXCEPT ![n] = s]
        BY <1>7, <2>5 DEF PortFails
      <3>2. \A k \in Sessions : session'[k].waiting = session[k].waiting
        BY <2>1, <2>2, <3>1 DEF VoiceShape
      <3> QED BY <2>3, <3>2 DEF Replies
    <2> QED BY <2>4, <2>5
  <1>8. ASSUME MicSkip \/ PortReady PROVE Replies'
    <2> DEFINE n == Head(mic.chain)
               s == [session[n] EXCEPT !.mic = "up"]
    <2>1. /\ mic.chain # <<>> /\ UNCHANGED <<reading, replies>>
          /\ \E m : Joined(n, s, m)
      BY <1>8 DEF MicSkip, PortReady, Line, ChainOK
    <2>2. /\ n \in Sessions /\ session[n] \in SessionRec /\ LifeOf(session[n])
          /\ session[n].mic = "pending"
      BY <2>1, VoiceHead
    <2>3. /\ s \in SessionRec /\ s.mic = "up" /\ s.dial = session[n].dial /\ s.start = session[n].start
          /\ s.state = session[n].state /\ s.socket = session[n].socket
          /\ s.stopped = session[n].stopped /\ s.waiting = session[n].waiting
      BY <2>2 DEF SessionRec
    <2> HIDE DEF n, s
    <2>4. Joining(s)
      BY <2>2, <2>3 DEF Joining, LifeOf, SessionRec
    <2> QED BY <2>1, <2>2, <2>3, <2>4, JoinedReplies
  <1>9. ASSUME NEW n \in Sessions, StateFrame(n) PROVE Replies'
    <2> DEFINE s == [session[n] EXCEPT !.dial = "accepted"]
    <2>1. /\ Joined(n, s, mic) /\ UNCHANGED <<reading, replies>> /\ session[n].socket = "open"
          /\ session[n].dial = "pending" /\ session[n] \in SessionRec /\ LifeOf(session[n])
      BY <1>9 DEF StateFrame, VoiceShape, Life
    <2>2. /\ s \in SessionRec /\ s.mic = session[n].mic /\ s.dial = "accepted"
          /\ s.start = session[n].start /\ s.state = session[n].state /\ s.socket = "open"
          /\ s.stopped = session[n].stopped /\ s.waiting = session[n].waiting
      BY <2>1 DEF SessionRec
    <2> HIDE DEF s
    <2>3. Joining(s)
      BY <2>1, <2>2 DEF Joining, LifeOf, SessionRec
    <2> QED BY <2>1, <2>2, <2>3, JoinedReplies
  <1>10. ASSUME NEW n \in Sessions, UrlReady(n) \/ SocketOpens(n) PROVE Replies'
    <2>1. UNCHANGED <<asked, reading, replies>>
      BY <1>10 DEF UrlReady, SocketOpens, speechVars
    <2>2. \A k \in Sessions : session'[k].waiting = session[k].waiting
      BY <1>10 DEF UrlReady, SocketOpens, VoiceShape, SessionRec
    <2> QED BY <2>1, <2>2 DEF Replies
  <1>11. ASSUME Speak PROVE Replies'
    <2>1. replies \in Nat /\ replies < MaxReplies /\ replies' = replies + 1
      BY <1>11 DEF Speak, Replies
    <2>2. \A k \in Sessions : session[k].waiting \in Nat
      BY DEF VoiceShape, SessionRec
    <2>3. CASE engine = 0
      <3>1. /\ UNCHANGED <<session, asked>>
            /\ reading' = IF reading.loop = "none" THEN [reading EXCEPT !.loop = "preparing"]
                          ELSE [reading EXCEPT !.queue = @ + 1]
        BY <1>11, <2>3 DEF Speak
      <3>2. /\ reading' \in [queue : 0..MaxReplies, loop : {"none", "preparing", "playing"}]
            /\ reading'.queue <= replies + 1
        BY <2>1, <3>1 DEF Replies
      <3> QED BY <2>1, <2>2, <3>1, <3>2 DEF Replies
    <2>4. CASE engine # 0 /\ session[engine].state = "active"
      <3>1. asked' = asked + 1 /\ UNCHANGED <<session, reading>>
        BY <1>11, <2>4 DEF Speak
      <3> QED BY <2>1, <2>2, <3>1 DEF Replies
    <2>5. CASE engine # 0 /\ session[engine].state # "active"
      <3>1. /\ session' = [session EXCEPT ![engine].waiting = @ + 1]
            /\ UNCHANGED <<asked, reading>>
        BY <1>11, <2>5 DEF Speak
      <3>2. \A k \in Sessions : session'[k].waiting \in {session[k].waiting, session[k].waiting + 1}
        BY <3>1 DEF VoiceShape, SessionRec
      <3> QED BY <2>1, <2>2, <3>1, <3>2 DEF Replies
    <2> QED BY <2>3, <2>4, <2>5
  <1>12. ASSUME StopSpeech \/ ReadAloud \/ PrepareFails PROVE Replies'
    <2>1. UNCHANGED <<session, asked, replies>>
      BY <1>12 DEF StopSpeech, ReadAloud, PrepareFails, voiceVars
    <2>2. /\ reading' \in [queue : 0..MaxReplies, loop : {"none", "preparing", "playing"}]
          /\ reading'.queue <= reading.queue
      BY <1>12 DEF StopSpeech, ReadAloud, PrepareFails, Silent, Replies
    <2> QED BY <2>1, <2>2, <1>6
  <1>13. ASSUME NEW p \in Plays, PlayFrame(p) PROVE Replies'
    <2>1. asked > 0 /\ asked' = asked - 1 /\ UNCHANGED <<session, reading, replies>>
      BY <1>13 DEF PlayFrame, voiceVars
    <2>2. \A k \in Sessions : session[k].waiting \in Nat
      BY DEF VoiceShape, SessionRec
    <2> QED BY <2>1, <2>2 DEF Replies
  <1>14. \/ Transcript \/ TurnStart \/ SegmentOver \/ TurnEnd \/ TurnDropped \/ PlaybackFrame
         \/ (\E p \in Plays : Speaking(p)) \/ UNCHANGED vars
         => UNCHANGED <<session, speechVars>>
    BY DEF Transcript, TurnStart, SegmentOver, TurnEnd, TurnDropped, PlaybackFrame, Speaking,
           vars, voiceVars
  <1>15. ASSUME UNCHANGED <<session, speechVars>> PROVE Replies'
    BY <1>15 DEF speechVars, Replies
  <1> QED BY <1>1, <1>2, <1>3, <1>4, <1>5, <1>7, <1>8, <1>9, <1>10, <1>11, <1>12, <1>13, <1>14,
             <1>15 DEF Next

----------------------------------------------------------------------------
(* The floor.                                                               *)

\* FloorReturned after the cleanup of a session: the current one, or one that
\* was not under way.
LEMMA CleanupFloor ==
    ASSUME VoiceShape, Life, FloorReturned, NEW n \in Sessions, NEW s, NEW m, Cleanup(n, s, m)
    PROVE  FloorReturned'
  <1>1. CASE engine = n
    <2>1. engine' = 0 /\ ~userTurn' /\ ~idleTimer'
      BY <1>1 DEF Cleanup, Cleared
    <2>2. listening' = (listening /\ session[n].state # "active")
      BY DEF Cleanup
    <2>3. ~listening'
      BY <1>1, <2>2 DEF FloorReturned
    <2> QED BY <2>1, <2>3 DEF FloorReturned
  <1>2. CASE engine # n
    <2>1. /\ UNCHANGED <<engine, mode, userTurn, idleTimer>>
          /\ listening' = (listening /\ session[n].state # "active")
          /\ session' = [session EXCEPT ![n] = Cleaned(s)]
      BY <1>2 DEF Cleanup
    <2>2. session[n].state # "active"
      BY <1>2 DEF Life, Engaged
    <2>3. engine # 0 => session'[engine] = session[engine]
      BY <1>2, <2>1 DEF VoiceShape, Sessions
    <2>4. listening' <=> listening
      BY <2>1, <2>2
    <2> QED BY <2>1, <2>3, <2>4 DEF FloorReturned, Accepted, Engaged
  <1> QED BY <1>1, <1>2

\* FloorReturned after a promise of the start of n answered.
LEMMA JoinedFloor ==
    ASSUME VoiceShape, Life, FloorReturned, NEW n \in Sessions, NEW s \in SessionRec, Joining(s),
           NEW m, Joined(n, s, m), UNCHANGED <<engine, mode, userTurn>>,
           s.state = session[n].state, s.socket = session[n].socket,
           s.dial \in {"accepted", session[n].dial}
    PROVE  FloorReturned'
  <1>1. /\ session' = [session EXCEPT ![n] = JoinedRec(s)]
        /\ listening' = (listening \/ Active(s))
        /\ idleTimer' = (idleTimer \/ (Active(s) /\ mode = "conversation"))
    BY JoinedStep
  <1>2. /\ JoinedRec(s).state = "idle" <=> s.state = "idle"
        /\ JoinedRec(s).dial = s.dial /\ JoinedRec(s).socket = s.socket
        /\ Active(s) => JoinedRec(s).state = "active"
        /\ ~Active(s) => JoinedRec(s).state = s.state
    BY JoinedLife
  <1>3. ASSUME Active(s) PROVE engine = n /\ engine # 0
    <2>1. session[n].state = "starting"
      BY <1>3 DEF Active
    <2> QED BY <2>1 DEF Life, Engaged, Sessions
  <1>4. engine # 0 => engine \in Sessions
    BY DEF VoiceShape, Sessions
  <1>5. ASSUME engine # 0, engine # n PROVE session'[engine] = session[engine]
    BY <1>1, <1>4, <1>5 DEF VoiceShape
  <1>6. session'[n] = JoinedRec(s)
    BY <1>1 DEF VoiceShape
  <1>7. ASSUME userTurn' PROVE (engine # 0 /\ mode = "conversation" /\ Accepted(engine))'
    <2>1. engine # 0 /\ mode = "conversation" /\ Accepted(engine)
      BY <1>7 DEF FloorReturned
    <2>2. CASE engine = n
      BY <1>2, <1>6, <2>1, <2>2 DEF Accepted, Engaged
    <2>3. CASE engine # n
      BY <1>5, <2>1, <2>3 DEF Accepted, Engaged
    <2> QED BY <2>2, <2>3
  <1>8. idleTimer' => (engine # 0 /\ mode = "conversation")'
    BY <1>1, <1>3 DEF FloorReturned
  <1>9. listening' <=> (engine # 0 /\ session[engine].state = "active")'
    <2>1. CASE Active(s)
      BY <1>1, <1>2, <1>3, <1>6, <2>1
    <2>2. CASE ~Active(s)
      BY <1>1, <1>2, <1>5, <1>6, <2>2 DEF FloorReturned
    <2> QED BY <2>1, <2>2
  <1> QED BY <1>7, <1>8, <1>9 DEF FloorReturned

\* Every step returns the floor with the session.
LEMMA FloorNext ==
    ASSUME VoiceShape, Life, Line, FloorReturned, [Next]_vars
    PROVE  FloorReturned'
  <1>1. ASSUME NEW mo \in {"dictation", "conversation"}, Start(mo) PROVE FloorReturned'
    <2>1. /\ engine = 0 /\ engine' = starts + 1 /\ starts + 1 \in Sessions
          /\ UNCHANGED <<userTurn, idleTimer, listening>>
          /\ session' = [session EXCEPT ![starts + 1] =
                            [NoSession EXCEPT !.state = "starting", !.start = "url"]]
      BY <1>1, VoiceAssumption DEF Start, Begin, VoiceShape, Sessions
    <2>2. session'[engine'].state = "starting"
      BY <2>1 DEF VoiceShape, NoSession
    <2>3. ~userTurn /\ ~idleTimer /\ ~listening
      BY <2>1 DEF FloorReturned
    <2> QED BY <2>1, <2>2, <2>3 DEF FloorReturned
  <1>2. ASSUME NEW send, End(send) PROVE FloorReturned'
    <2>1. engine \in Sessions /\ Cleanup(engine, [session[engine] EXCEPT !.stopped = TRUE], mic)
      BY <1>2 DEF End, VoiceShape, Sessions
    <2> QED BY <2>1, CleanupFloor
  <1>3. ASSUME IdleTimerFires PROVE FloorReturned'
    BY <1>3, <1>2 DEF IdleTimerFires
  <1>4. ASSUME NEW n \in Sessions, UrlFails(n) \/ EndedUnasked(n) PROVE FloorReturned'
    BY <1>4, CleanupFloor DEF UrlFails, EndedUnasked
  <1>5. ASSUME MicSkip \/ PortReady PROVE FloorReturned'
    <2> DEFINE n == Head(mic.chain)
               s == [session[n] EXCEPT !.mic = "up"]
    <2>1. mic.chain # <<>> /\ UNCHANGED <<engine, mode, userTurn>> /\ \E m : Joined(n, s, m)
      BY <1>5 DEF MicSkip, PortReady, Line, ChainOK
    <2>2. /\ n \in Sessions /\ session[n] \in SessionRec /\ LifeOf(session[n])
          /\ session[n].mic = "pending"
      BY <2>1, VoiceHead
    <2>3. /\ s \in SessionRec /\ s.mic = "up" /\ s.dial = session[n].dial /\ s.start = session[n].start
          /\ s.state = session[n].state /\ s.socket = session[n].socket
          /\ s.stopped = session[n].stopped /\ s.waiting = session[n].waiting
      BY <2>2 DEF SessionRec
    <2> HIDE DEF n, s
    <2>4. Joining(s)
      BY <2>2, <2>3 DEF Joining, LifeOf, SessionRec
    <2> QED BY <2>1, <2>2, <2>3, <2>4, JoinedFloor
  <1>6. ASSUME NEW n \in Sessions, StateFrame(n) PROVE FloorReturned'
    <2> DEFINE s == [session[n] EXCEPT !.dial = "accepted"]
    <2>1. /\ Joined(n, s, mic) /\ UNCHANGED <<engine, mode, userTurn>> /\ session[n].socket = "open"
          /\ session[n].dial = "pending" /\ session[n] \in SessionRec /\ LifeOf(session[n])
      BY <1>6 DEF StateFrame, VoiceShape, Life
    <2>2. /\ s \in SessionRec /\ s.mic = session[n].mic /\ s.dial = "accepted"
          /\ s.start = session[n].start /\ s.state = session[n].state /\ s.socket = "open"
          /\ s.stopped = session[n].stopped /\ s.waiting = session[n].waiting
      BY <2>1 DEF SessionRec
    <2> HIDE DEF s
    <2>3. Joining(s)
      BY <2>1, <2>2 DEF Joining, LifeOf, SessionRec
    <2> QED BY <2>1, <2>2, <2>3, JoinedFloor
  <1>7. ASSUME PortFails PROVE FloorReturned'
    <2> DEFINE n == Head(mic.chain)
               s == [session[n] EXCEPT !.mic = "failed"]
    <2>1. n \in Sessions /\ session[n] \in SessionRec /\ LifeOf(session[n])
      BY <1>7, VoiceHead DEF PortFails, Line, ChainOK
    <2>2. CASE session[n].start = "joining"
      <3>1. Cleanup(n, s, MicSettle(mic, FALSE))
        BY <1>7, <2>2 DEF PortFails
      <3> QED BY <2>1, <3>1, CleanupFloor
    <2>3. CASE session[n].start # "joining"
      <3>1. session' = [session EXCEPT ![n] = s] /\ UNCHANGED <<engine, mode, listening, userTurn, idleTimer>>
        BY <1>7, <2>3 DEF PortFails
      <3>2. /\ s.state = session[n].state /\ s.dial = session[n].dial /\ s.socket = session[n].socket
        BY <2>1 DEF SessionRec
      <3>3. \A k \in Sessions : /\ session'[k].state = session[k].state
                                /\ session'[k].dial = session[k].dial
                                /\ session'[k].socket = session[k].socket
        BY <2>1, <3>1, <3>2 DEF VoiceShape
      <3>4. engine # 0 => engine \in Sessions
        BY DEF VoiceShape, Sessions
      <3> QED BY <3>1, <3>3, <3>4 DEF FloorReturned, Accepted, Engaged
    <2> QED BY <2>2, <2>3
  <1>8. ASSUME NEW n \in Sessions, UrlReady(n) \/ SocketOpens(n) PROVE FloorReturned'
    <2>1. UNCHANGED <<engine, mode, listening, userTurn, idleTimer>>
      BY <1>8 DEF UrlReady, SocketOpens, turnVars
    <2>2. \A k \in Sessions : session'[k].state = session[k].state
      BY <1>8 DEF UrlReady, SocketOpens, VoiceShape, SessionRec
    <2>3. \A k \in Sessions : session[k].dial = "accepted" /\ session[k].socket = "open"
                              => session'[k].dial = "accepted" /\ session'[k].socket = "open"
      BY <1>8 DEF UrlReady, SocketOpens, VoiceShape, SessionRec, Life, LifeOf
    <2>4. engine # 0 => engine \in Sessions
      BY DEF VoiceShape, Sessions
    <2> QED BY <2>1, <2>2, <2>3, <2>4 DEF FloorReturned, Accepted, Engaged
  <1>9. ASSUME Speak PROVE FloorReturned'
    <2>1. UNCHANGED <<engine, mode, listening, userTurn, idleTimer>>
      BY <1>9 DEF Speak, turnVars
    <2>2. \A k \in Sessions : /\ session'[k].state = session[k].state
                              /\ session'[k].dial = session[k].dial
                              /\ session'[k].socket = session[k].socket
      BY <1>9 DEF Speak, VoiceShape, SessionRec
    <2>3. engine # 0 => engine \in Sessions
      BY DEF VoiceShape, Sessions
    <2> QED BY <2>1, <2>2, <2>3 DEF FloorReturned, Accepted, Engaged
  <1>10. ASSUME TurnStart PROVE FloorReturned'
    <2>1. /\ engine # 0 /\ Accepted(engine) /\ UNCHANGED <<engine, mode, session, listening, idleTimer>>
          /\ userTurn' = (userTurn \/ mode = "conversation")
      BY <1>10 DEF TurnStart, voiceVars
    <2>2. userTurn' => mode = "conversation"
      BY <2>1 DEF FloorReturned
    <2> QED BY <2>1, <2>2 DEF FloorReturned, Accepted, Engaged
  <1>11. ASSUME TurnEnd \/ TurnDropped PROVE FloorReturned'
    <2>1. /\ engine # 0 /\ UNCHANGED <<engine, mode, session, listening>>
          /\ userTurn' => userTurn
          /\ idleTimer' => idleTimer \/ mode = "conversation"
      BY <1>11 DEF TurnEnd, TurnDropped, voiceVars, VoiceShape
    <2> QED BY <2>1 DEF FloorReturned, Accepted, Engaged
  <1>12. ASSUME UNCHANGED <<voiceVars, userTurn, idleTimer>> PROVE FloorReturned'
    BY <1>12 DEF voiceVars, FloorReturned, Accepted, Engaged
  <1>13. \/ StopSpeech \/ ReadAloud \/ PrepareFails \/ Transcript \/ SegmentOver
         \/ PlaybackFrame \/ (\E p \in Plays : PlayFrame(p) \/ Speaking(p)) \/ UNCHANGED vars
         => UNCHANGED <<voiceVars, userTurn, idleTimer>>
    BY DEF StopSpeech, ReadAloud, PrepareFails, Transcript, SegmentOver, PlaybackFrame,
           PlayFrame, Speaking, vars, turnVars
  <1> QED BY <1>1, <1>2, <1>3, <1>4, <1>5, <1>6, <1>7, <1>8, <1>9, <1>10, <1>11, <1>12, <1>13
          DEF Next

----------------------------------------------------------------------------
(* The theorems.                                                            *)

\* The invariants hold at first.
LEMMA VoiceInit ==
    ASSUME Init
    PROVE  VInv /\ FloorReturned
  <1> USE VoiceAssumption, PlaysAssumption
  <1>1. PlayShape
    <2>1. NoPlay \in PlayRec
      BY DEF PlayRec, NoPlay, PlayStages, Reports
    <2>2. play \in [Plays -> PlayRec] /\ queue \in Seq(Plays)
      BY <2>1, EmptySeq DEF Init, PlayInit
    <2>3. current \in 0..MaxPlays /\ waiter \in 0..MaxPlays
      BY DEF Init, PlayInit
    <2> QED BY <2>2, <2>3 DEF Init, PlayInit, PlayShape
  <1>2. NoSession \in SessionRec /\ LifeOf(NoSession) /\ NoSession.state = "idle" /\ NoSession.waiting = 0
        /\ NoSession.mic = "none"
    BY DEF NoSession, SessionRec, LifeOf
  <1>3. VoiceShape /\ TurnShape
    <2>1. session \in [Sessions -> SessionRec] /\ said \in [Segments -> Nat]
      BY <1>2 DEF Init
    <2>2. engine \in 0..MaxStarts /\ starts \in 0..MaxStarts
      BY DEF Init
    <2>3. live \in 0..MaxSegments /\ settling \in 0..MaxSegments /\ heard \in 0..MaxSegments
      BY DEF Init
    <2> QED BY <2>1, <2>2, <2>3 DEF Init, VoiceShape, TurnShape
  <1>4. Life
    BY <1>2 DEF Init, Life, Engaged
  <1>5. ChainOK(mic) /\ mic.fresh = 0 /\ ~mic.on /\ \A n \in Sessions : ~InChain(mic, n)
    BY EmptySeq DEF Init, NoMic, ChainOK, InChain, MicRec
  <1>6. Line
    BY <1>2, <1>5 DEF Init, Line
  <1>7. Turns
    BY DEF Init, Turns, Segments
  <1>8. Loops /\ Speaker
    <2>1. queue = <<>> /\ ~draining /\ current = 0 /\ waiter = 0 /\ reading.loop = "none"
      BY DEF Init, PlayInit
    <2>2. \A p \in Plays : play[p].stage = "none" /\ ~play[p].stale
      BY DEF Init, PlayInit, NoPlay
    <2>3. 1..Len(queue) = {}
      BY <2>1, EmptySeq
    <2> QED BY <2>1, <2>2, <2>3 DEF Loops, Speaker, Held
  <1>9. Replies
    BY <1>2 DEF Init, Replies
  <1>10. FloorReturned
    BY DEF Init, FloorReturned
  <1> QED BY <1>1, <1>3, <1>4, <1>6, <1>7, <1>8, <1>9, <1>10 DEF VInv, Shape

\* The invariants are inductive.
LEMMA VoiceInductive ==
    ASSUME VInv, FloorReturned, [Next]_vars
    PROVE  VInv' /\ FloorReturned'
  <1>1. VoiceShape' /\ Life' /\ Line'
    BY VoiceNext DEF VInv, Shape
  <1>2. TurnShape' /\ Turns'
    BY TurnsNext DEF VInv, Shape
  <1>3. PlayShape' /\ Loops' /\ Speaker'
    BY PlaysNext DEF VInv, Shape
  <1>4. Replies'
    BY RepliesNext DEF VInv, Shape
  <1>5. FloorReturned'
    BY FloorNext DEF VInv, Shape
  <1> QED BY <1>1, <1>2, <1>3, <1>4, <1>5 DEF VInv, Shape

\* What the theorems below rest on: VInv holds in every state, and so does
\* FloorReturned: no way of ending a session leaves the floor with the user.
THEOREM FloorSafe == Spec => [](VInv /\ FloorReturned)
  <1>1. Init => VInv /\ FloorReturned
    BY VoiceInit
  <1>2. VInv /\ FloorReturned /\ [Next]_vars => (VInv /\ FloorReturned)'
    BY VoiceInductive
  <1> QED BY <1>1, <1>2, PTL DEF Spec

\* The state of the voice client is well-typed in every state.
THEOREM VoiceTypes == Spec => []TypeOK
  <1>1. VInv => TypeOK
    <2> SUFFICES ASSUME VInv PROVE TypeOK
      OBVIOUS
    <2>1. /\ engine \in 0..MaxStarts /\ mode \in {"none", "dictation", "conversation"}
          /\ (mode = "none") <=> (engine = 0)
      BY DEF VInv, Shape, VoiceShape
    <2>2. \A n \in Sessions :
            /\ session[n].state \in {"idle", "starting", "active"}
            /\ session[n].start \in {"none", "url", "joining", "over"}
            /\ session[n].mic \in {"none", "pending", "up", "failed"}
            /\ session[n].dial \in {"none", "pending", "accepted", "refused"}
            /\ session[n].state # "idle" => engine = n
      BY DEF VInv, Shape, VoiceShape, SessionRec, Life, Engaged
    <2>3. mic.fresh \in 0..MaxStarts /\ mic.chain \in Seq(Sessions)
      BY DEF VInv, Line, ChainOK, MicRec
    <2>4. reading.queue \in 0..MaxReplies /\ reading.loop \in {"none", "preparing", "playing"}
      BY DEF VInv, Replies
    <2>5. asked \in 0..MaxReplies /\ replies \in 0..MaxReplies
      BY VoiceAssumption DEF VInv, Replies
    <2>6. \A p \in Plays : play[p].stage \in PlayStages /\ play[p].report \in Reports
      BY DEF VInv, Shape, PlayShape, PlayRec
    <2> QED BY <2>1, <2>2, <2>3, <2>4, <2>5, <2>6
            DEF TypeOK, VInv, Shape, VoiceShape, TurnShape, PlayShape
  <1> QED BY <1>1, FloorSafe, PTL

\* However starts, stops and slow permissions cross, the microphone is off
\* when no session is under way and none starts.
THEOREM MicrophoneSafe == Spec => []MicOffWhenIdle
  <1>1. VInv => MicOffWhenIdle
    BY DEF VInv, Line, MicOffWhenIdle
  <1> QED BY <1>1, FloorSafe, PTL

\* An active session hears the user, unless the start of another one failed
\* under it and took the shared microphone down.
THEOREM SessionHears == Spec => []ActiveHearsUndisturbed
  <1>1. VInv => ActiveHearsUndisturbed
    <2> SUFFICES ASSUME VInv, NEW n \in Sessions, session[n].state = "active", n \notin deafened
                 PROVE  mic.on
      BY DEF ActiveHearsUndisturbed
    <2>1. engine = n /\ n # 0 /\ session[n].start = "over" /\ session[n].mic = "up"
      BY DEF VInv, Life, LifeOf, Engaged, Sessions
    <2> QED BY <2>1 DEF VInv, Line
  <1> QED BY <1>1, FloorSafe, PTL

\* Nothing the user said reaches the agent twice.
THEOREM SaidAtMostOnce == Spec => []SaidOnce
  <1>1. VInv => SaidOnce
    BY DEF VInv, Turns, SaidOnce
  <1> QED BY <1>1, FloorSafe, PTL

\* The plays of a session and the read-aloud never sound together, and
\* "speaking" is shown exactly while a loop has a play.
THEOREM SpeakerSafe == Spec => []OneVoice
  <1>1. VInv => OneVoice
    <2> SUFFICES ASSUME VInv PROVE OneVoice
      OBVIOUS
    <2> DEFINE on == {p \in Plays : Held(p) /\ ~play[p].stale}
    <2>1. \A p \in on : p = current
      BY DEF VInv, Loops
    <2>2. draining <=> on # {}
      <3>1. current # 0 => current \in on
        BY DEF VInv, Shape, PlayShape, Loops, Plays
      <3>2. on # {} => current # 0
        BY <2>1 DEF Plays
      <3> QED BY <3>1, <3>2 DEF VInv, Loops
    <2>3. CASE on = {}
      <3>1. Cardinality(on) = 0
        BY <2>3, FS_EmptySet
      <3> QED BY <2>2, <3>1 DEF OneVoice
    <2>4. CASE on # {}
      <3>1. on = {current}
        BY <2>1, <2>4
      <3>2. Cardinality(on) = 1
        BY <3>1, FS_Singleton
      <3>3. reading.loop = "none"
        BY <2>2, <2>4 DEF VInv, Speaker
      <3> QED BY <2>2, <3>2, <3>3 DEF OneVoice
    <2> QED BY <2>3, <2>4
  <1> QED BY <1>1, FloorSafe, PTL

\* What StoppedStaysSilent says of one step.
Silence == \A p \in Plays : play[p].stale => play'[p].report = play[p].report

\* A loop that leaves its play reports on that play only, and not when a stop
\* came first.
LEMMA LeaveSilence ==
    ASSUME PlayShape, NEW p \in Plays, NEW r, Leave(p, r), play[p].stale => r = play[p].report
    PROVE  Silence
  <1> SUFFICES ASSUME NEW q \in Plays, play[q].stale PROVE play'[q].report = play[q].report
    BY DEF Silence
  <1>1. play[q] \in PlayRec /\ play[p] \in PlayRec
    BY DEF PlayShape
  <1>2. CASE q = p
    <2>1. play'[q] = [play[p] EXCEPT !.stage = "over", !.report = r]
      BY <1>2 DEF Leave
    <2> QED BY <1>1, <1>2, <2>1 DEF PlayRec
  <1>3. CASE q # p
    <2>1. play'[q] = play[q] \/ play'[q] = [play[q] EXCEPT !.stage = "resolving"]
      BY <1>3 DEF Leave
    <2> QED BY <1>1, <2>1 DEF PlayRec
  <1> QED BY <1>2, <1>3

\* Nothing reaches the speaker of a stopped session.
LEMMA ToSpeakerSilence ==
    ASSUME PlayShape, NEW p \in Plays, ToSpeaker(p)
    PROVE  Silence
  <1>1. CASE play[p].stale
    BY <1>1, LeaveSilence DEF ToSpeaker
  <1>2. CASE ~play[p].stale
    <2>1. play' = [play EXCEPT ![p].stage = "playing"]
      BY <1>2 DEF ToSpeaker
    <2> QED BY <2>1 DEF Silence, PlayShape, PlayRec
  <1> QED BY <1>1, <1>2

\* Every step is silent about the plays that were stopped.
LEMMA SilenceNext ==
    ASSUME VInv, [Next]_vars
    PROVE  Silence
  <1>1. PlayShape
    BY DEF VInv, Shape
  <1>2. ASSUME UNCHANGED playVars PROVE Silence
    BY <1>2 DEF playVars, Silence
  <1>3. ASSUME EndPlays \/ StopPlays PROVE Silence
    <2> SUFFICES ASSUME NEW q \in Plays PROVE play'[q].report = play[q].report
      BY DEF Silence
    <2>1. play[q] \in PlayRec
      BY <1>1 DEF PlayShape
    <2>2. \/ play'[q] = play[q] \/ play'[q] = [play[q] EXCEPT !.stage = "over", !.stale = TRUE]
          \/ play'[q] = [play[q] EXCEPT !.stale = TRUE]
      BY <1>3 DEF EndPlays, StopPlays
    <2> QED BY <2>1, <2>2 DEF PlayRec
  <1>4. ASSUME NEW p \in Plays, Enqueue(p) PROVE Silence
    BY <1>1, <1>4 DEF Enqueue, Silence, PlayShape, PlayRec
  <1>5. ASSUME NEW p \in Plays, PlayStep(p) PROVE Silence
    <2>1. ASSUME UrlResolved(p) PROVE Silence
      <3>1. ToSpeaker(p) \/ play' = [play EXCEPT ![p].stage = "waiting"]
        BY <2>1 DEF UrlResolved
      <3>2. play' = [play EXCEPT ![p].stage = "waiting"] => Silence
        BY <1>1 DEF Silence, PlayShape, PlayRec
      <3> QED BY <1>1, <3>1, <3>2, ToSpeakerSilence
    <2>2. ASSUME PlayFails(p) PROVE Silence
      BY <1>1, <2>2, LeaveSilence DEF PlayFails, FailureReport
    <2>3. ASSUME PlayEnded(p) PROVE Silence
      BY <1>1, <2>3, LeaveSilence DEF PlayEnded
    <2>4. ASSUME PlayStarted(p) PROVE Silence
      BY <1>1, <2>4 DEF PlayStarted, Silence, PlayShape, PlayRec
    <2> QED BY <1>5, <2>1, <2>2, <2>3, <2>4 DEF PlayStep
  <1>6. ASSUME ResumePlays PROVE Silence
    <2>1. play' = play \/ (waiter \in Plays /\ ToSpeaker(waiter))
      BY <1>1, <1>6 DEF ResumePlays, PlayShape, Plays
    <2> QED BY <1>1, <2>1, ToSpeakerSilence DEF Silence
  <1>7. ASSUME PausePlays PROVE Silence
    BY <1>7 DEF PausePlays, Silence
  <1>8. ASSUME NEW n, NEW s, NEW m, Cleanup(n, s, m) PROVE Silence
    <2>1. EndPlays \/ UNCHANGED playVars
      BY <1>8 DEF Cleanup
    <2> QED BY <2>1, <1>2, <1>3
  <1>9. ASSUME \/ (\E send : End(send)) \/ IdleTimerFires
               \/ (\E n \in Sessions : UrlFails(n) \/ EndedUnasked(n)) \/ PortFails
        PROVE  Silence
    <2>1. (\E n, s, m : Cleanup(n, s, m)) \/ UNCHANGED playVars
      BY <1>9 DEF End, IdleTimerFires, UrlFails, EndedUnasked, PortFails
    <2> QED BY <2>1, <1>2, <1>8
  <1>10. ASSUME StopSpeech PROVE Silence
    <2>1. StopPlays \/ UNCHANGED playVars
      BY <1>10 DEF StopSpeech
    <2> QED BY <2>1, <1>2, <1>3
  <1>11. ASSUME PlaybackFrame PROVE Silence
    BY <1>11, <1>3, <1>6, <1>7 DEF PlaybackFrame
  <1>12. ASSUME NEW p \in Plays, PlayFrame(p) \/ Speaking(p) PROVE Silence
    BY <1>12, <1>4, <1>5 DEF PlayFrame, Speaking
  <1>13. \/ (\E mo \in {"dictation", "conversation"} : Start(mo)) \/ Speak \/ ReadAloud \/ PrepareFails
         \/ (\E n \in Sessions : UrlReady(n) \/ SocketOpens(n) \/ StateFrame(n)) \/ MicSkip \/ PortReady
         \/ Transcript \/ TurnStart \/ SegmentOver \/ TurnEnd \/ TurnDropped \/ UNCHANGED vars
         => UNCHANGED playVars
    BY DEF Start, Begin, Speak, ReadAloud, PrepareFails, UrlReady, SocketOpens, StateFrame, MicSkip,
           PortReady, Transcript, TurnStart, SegmentOver, TurnEnd, TurnDropped, vars
  <1> QED BY <1>2, <1>9, <1>10, <1>11, <1>12, <1>13 DEF Next

\* A play that was stopped is never reported again.
THEOREM StopIsSilent == Spec => StoppedStaysSilent
  <1>1. VInv /\ [Next]_vars => [Silence]_vars
    BY SilenceNext
  <1>2. [][Silence]_vars => StoppedStaysSilent
    BY DEF Silence, StoppedStaysSilent
  <1> QED BY <1>1, <1>2, FloorSafe, PTL DEF Spec
=============================================================================
