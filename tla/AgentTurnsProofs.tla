------------------------- MODULE AgentTurnsProofs -------------------------
(***************************************************************************)
(* No notification is lost, for any set of files, rules, boot batches and  *)
(* any number of faults: TypeOK and Custody are inductive, and from them   *)
(* follow NothingLost and the refinement of Mailbox.                       *)
(***************************************************************************)
EXTENDS AgentTurns, TLAPS, FiniteSetTheorems

----------------------------------------------------------------------------
(* Sequences of turns.                                                      *)

\* Each turn's messages are among its queue's, and two turns of an Apart queue
\* share none.
LEMMA SeqMsgsElement ==
    ASSUME NEW s, NEW i \in DOMAIN s
    PROVE  /\ s[i].msgs \subseteq SeqMsgs(s)
           /\ \A j \in DOMAIN s : Apart(s) /\ i # j => s[i].msgs \cap s[j].msgs = {}
  BY DEF SeqMsgs, Apart

\* Fetching the head of a queue splits its messages in two.
LEMMA SeqMsgsHeadTail ==
    ASSUME NEW s \in Seq(Turn), s # <<>>
    PROVE  /\ Head(s) \in Turn /\ Tail(s) \in Seq(Turn)
           /\ SeqMsgs(s) = Head(s).msgs \cup SeqMsgs(Tail(s))
           /\ Apart(s) => Apart(Tail(s)) /\ Head(s).msgs \cap SeqMsgs(Tail(s)) = {}
  <1>1. Head(s) \in Turn /\ Tail(s) \in Seq(Turn) /\ Len(s) \in Nat /\ Len(s) > 0
    OBVIOUS
  <1>2. Head(s) = s[1] /\ Len(Tail(s)) = Len(s) - 1
    OBVIOUS
  <1>3. \A i \in 1..Len(Tail(s)) : Tail(s)[i] = s[i + 1]
    OBVIOUS
  <1>4. DOMAIN s = 1..Len(s) /\ DOMAIN Tail(s) = 1..(Len(s) - 1)
    BY <1>1, <1>2
  <1>5. \A i \in 2..Len(s) : s[i] = Tail(s)[i - 1] /\ i - 1 \in DOMAIN Tail(s)
    BY <1>1, <1>2, <1>3, <1>4
  <1>6. SeqMsgs(s) \subseteq Head(s).msgs \cup SeqMsgs(Tail(s))
    <2> SUFFICES ASSUME NEW i \in DOMAIN s
                 PROVE  s[i].msgs \subseteq Head(s).msgs \cup SeqMsgs(Tail(s))
      BY DEF SeqMsgs
    <2>1. CASE i = 1
      BY <1>2, <2>1
    <2>2. CASE i # 1
      <3>1. i \in 2..Len(s)
        BY <1>1, <1>4, <2>2
      <3> QED BY <3>1, <1>5 DEF SeqMsgs
    <2> QED BY <2>1, <2>2
  <1>7. SeqMsgs(Tail(s)) \subseteq SeqMsgs(s)
    <2> SUFFICES ASSUME NEW i \in DOMAIN Tail(s)
                 PROVE  Tail(s)[i].msgs \subseteq SeqMsgs(s)
      BY DEF SeqMsgs
    <2>1. i + 1 \in DOMAIN s /\ Tail(s)[i] = s[i + 1]
      BY <1>1, <1>2, <1>3, <1>4
    <2> QED BY <2>1 DEF SeqMsgs
  <1>8. Head(s).msgs \subseteq SeqMsgs(s)
    <2>1. 1 \in DOMAIN s
      BY <1>1, <1>4
    <2> QED BY <2>1, <1>2 DEF SeqMsgs
  <1>9. ASSUME Apart(s)
        PROVE  Apart(Tail(s)) /\ Head(s).msgs \cap SeqMsgs(Tail(s)) = {}
    <2>1. \A i \in DOMAIN Tail(s) : i + 1 \in DOMAIN s /\ Tail(s)[i] = s[i + 1] /\ i \in Nat /\ i > 0
      BY <1>1, <1>2, <1>3, <1>4
    <2>2. Apart(Tail(s))
      <3> SUFFICES ASSUME NEW i \in DOMAIN Tail(s), NEW j \in DOMAIN Tail(s), i # j
                   PROVE  Tail(s)[i].msgs \cap Tail(s)[j].msgs = {}
        BY DEF Apart
      <3>1. i + 1 # j + 1
        BY <2>1
      <3> QED BY <2>1, <3>1, <1>9, SeqMsgsElement
    <2>3. \A i \in DOMAIN Tail(s) : Head(s).msgs \cap Tail(s)[i].msgs = {}
      <3>1. 1 \in DOMAIN s
        BY <1>1, <1>4
      <3>2. \A i \in DOMAIN Tail(s) : i + 1 # 1
        BY <2>1
      <3> QED BY <2>1, <3>1, <3>2, <1>2, <1>9, SeqMsgsElement
    <2> QED BY <2>2, <2>3 DEF SeqMsgs
  <1> QED BY <1>1, <1>6, <1>7, <1>8, <1>9

\* Concatenation joins the messages of two queues.
LEMMA SeqMsgsConcat ==
    ASSUME NEW s \in Seq(Turn), NEW t \in Seq(Turn)
    PROVE  /\ s \o t \in Seq(Turn)
           /\ SeqMsgs(s \o t) = SeqMsgs(s) \cup SeqMsgs(t)
           /\ Apart(s) /\ Apart(t) /\ SeqMsgs(s) \cap SeqMsgs(t) = {} => Apart(s \o t)
  <1>1. s \o t \in Seq(Turn) /\ Len(s) \in Nat /\ Len(t) \in Nat
    OBVIOUS
  <1>2. /\ DOMAIN s = 1..Len(s) /\ DOMAIN t = 1..Len(t)
        /\ DOMAIN (s \o t) = 1..(Len(s) + Len(t))
    OBVIOUS
  <1>3. \A i \in DOMAIN (s \o t) : (s \o t)[i] = IF i <= Len(s) THEN s[i] ELSE t[i - Len(s)]
    OBVIOUS
  <1>4. \A i \in DOMAIN (s \o t) :
           \/ i \in DOMAIN s /\ (s \o t)[i] = s[i]
           \/ i - Len(s) \in DOMAIN t /\ i > Len(s) /\ (s \o t)[i] = t[i - Len(s)]
    BY <1>1, <1>2, <1>3
  <1>5. SeqMsgs(s \o t) \subseteq SeqMsgs(s) \cup SeqMsgs(t)
    BY <1>4 DEF SeqMsgs
  <1>6. SeqMsgs(s) \subseteq SeqMsgs(s \o t)
    <2>1. \A i \in DOMAIN s : i \in DOMAIN (s \o t) /\ (s \o t)[i] = s[i]
      BY <1>1, <1>2, <1>3
    <2> QED BY <2>1 DEF SeqMsgs
  <1>7. SeqMsgs(t) \subseteq SeqMsgs(s \o t)
    <2>1. \A i \in DOMAIN t : i + Len(s) \in DOMAIN (s \o t) /\ (s \o t)[i + Len(s)] = t[i]
      BY <1>1, <1>2, <1>3
    <2> QED BY <2>1 DEF SeqMsgs
  <1>8. ASSUME Apart(s), Apart(t), SeqMsgs(s) \cap SeqMsgs(t) = {}
        PROVE  Apart(s \o t)
    <2> SUFFICES ASSUME NEW i \in DOMAIN (s \o t), NEW j \in DOMAIN (s \o t), i # j
                 PROVE  (s \o t)[i].msgs \cap (s \o t)[j].msgs = {}
      BY DEF Apart
    <2>1. i \in Nat /\ j \in Nat
      BY <1>1, <1>2
    <2>2. CASE i \in DOMAIN s /\ (s \o t)[i] = s[i]
      <3>1. CASE j \in DOMAIN s /\ (s \o t)[j] = s[j]
        BY <2>2, <3>1, <1>8, SeqMsgsElement
      <3>2. CASE j - Len(s) \in DOMAIN t /\ (s \o t)[j] = t[j - Len(s)]
        BY <2>2, <3>2, <1>8, SeqMsgsElement
      <3> QED BY <3>1, <3>2, <1>4
    <2>3. CASE i - Len(s) \in DOMAIN t /\ (s \o t)[i] = t[i - Len(s)]
      <3>1. CASE j \in DOMAIN s /\ (s \o t)[j] = s[j]
        BY <2>3, <3>1, <1>8, SeqMsgsElement
      <3>2. CASE j - Len(s) \in DOMAIN t /\ (s \o t)[j] = t[j - Len(s)]
        <4>1. i - Len(s) # j - Len(s)
          BY <1>1, <2>1
        <4> QED BY <4>1, <2>3, <3>2, <1>8, SeqMsgsElement
      <3> QED BY <3>1, <3>2, <1>4
    <2> QED BY <2>2, <2>3, <1>4
  <1> QED BY <1>1, <1>5, <1>6, <1>7, <1>8

\* A queue of one turn, and the empty queue.
LEMMA SeqMsgsSmall ==
    /\ SeqMsgs(<<>>) = {} /\ Apart(<<>>) /\ <<>> \in Seq(Turn)
    /\ \A t \in Turn : /\ <<t>> \in Seq(Turn) /\ <<t>>[1] = t /\ Len(<<t>>) = 1
                       /\ SeqMsgs(<<t>>) = t.msgs /\ Apart(<<t>>)
  BY DEF SeqMsgs, Apart

\* A queue of at most one turn that is not empty.
LEMMA SeqMsgsOne ==
    ASSUME NEW s \in Seq(Turn), s # <<>>, Len(s) <= 1
    PROVE  s[1] \in Turn /\ SeqMsgs(s) = s[1].msgs
  <1>1. Len(s) \in Nat /\ Len(s) # 0 /\ DOMAIN s = 1..Len(s)
    OBVIOUS
  <1>2. DOMAIN s = {1}
    BY <1>1
  <1>3. s[1] \in Turn
    BY <1>2
  <1> QED BY <1>2, <1>3 DEF SeqMsgs

\* What Append does to the messages of a queue.
LEMMA SeqMsgsAppend ==
    ASSUME NEW s \in Seq(Turn), NEW t \in Turn
    PROVE  /\ Append(s, t) \in Seq(Turn)
           /\ SeqMsgs(Append(s, t)) = SeqMsgs(s) \cup t.msgs
           /\ Apart(s) /\ SeqMsgs(s) \cap t.msgs = {} => Apart(Append(s, t))
  <1>1. Append(s, t) = s \o <<t>>
    OBVIOUS
  <1>2. <<t>> \in Seq(Turn) /\ SeqMsgs(<<t>>) = t.msgs /\ Apart(<<t>>)
    BY SeqMsgsSmall
  <1> QED BY <1>1, <1>2, SeqMsgsConcat


----------------------------------------------------------------------------
(* Types.                                                                   *)

\* A batch becomes at most two turns, which share out its messages.
LEMMA SectionsSplit ==
    ASSUME NEW ms \in SUBSET Msg
    PROVE  /\ Sections(ms) \in Seq(Turn)
           /\ SeqMsgs(Sections(ms)) = ms
           /\ Apart(Sections(ms))
  <1> DEFINE system == {m \in ms : m[1] \in Core}
             external == ms \ system
             one(g) == IF g = {} THEN <<>> ELSE <<[msgs |-> g, boot |-> FALSE]>>
  <1>1. ASSUME NEW g \in SUBSET Msg
        PROVE  one(g) \in Seq(Turn) /\ SeqMsgs(one(g)) = g /\ Apart(one(g))
    <2>1. CASE g = {}
      BY <2>1, SeqMsgsSmall
    <2>2. CASE g # {}
      <3>1. [msgs |-> g, boot |-> FALSE] \in Turn
        BY DEF Turn
      <3> QED BY <2>2, <3>1, SeqMsgsSmall
    <2> QED BY <2>1, <2>2
  <1>2. system \in SUBSET Msg /\ external \in SUBSET Msg
        /\ system \cup external = ms /\ system \cap external = {}
    OBVIOUS
  <1>3. Sections(ms) = one(system) \o one(external)
    BY DEF Sections
  <1>4. /\ one(system) \in Seq(Turn) /\ SeqMsgs(one(system)) = system /\ Apart(one(system))
        /\ one(external) \in Seq(Turn) /\ SeqMsgs(one(external)) = external /\ Apart(one(external))
    BY <1>1, <1>2
  <1> HIDE DEF one, system, external
  <1> QED BY <1>2, <1>3, <1>4, SeqMsgsConcat

\* The paths of a set of messages are paths.
LEMMA PathsOfMsgs == \A ms \in SUBSET Msg : PathsOf(ms) \subseteq Paths
  BY DEF PathsOf, Msg

\* The present content of files is a set of messages.
LEMMA ContentMsgs ==
    ASSUME created \in [Paths -> Nat], NEW ps \in SUBSET Paths
    PROVE  Content(ps) \subseteq Msg
  BY DEF Content, Msg

\* Types hold initially.
LEMMA TypeInit == Init => TypeOK
  <1>1. NoTurn \in Turn
    BY DEF NoTurn, Turn
  <1>2. <<>> \in Seq(Turn) /\ Len(<<>>) <= 1
    BY SeqMsgsSmall
  <1>3. Init => created \in [Paths -> Nat]
    BY DEF Init
  <1>4. Init => /\ files \subseteq Paths /\ shown \subseteq Paths /\ queuedPaths \subseteq Paths
                /\ loaded \subseteq Msg /\ snoozed \subseteq Msg /\ inFlight \subseteq Paths
                /\ delivered \subseteq Msg /\ redelivered \subseteq Msg /\ discarded \subseteq Msg
                /\ toolCleared \subseteq Msg /\ excused \subseteq Msg /\ failedTurns \subseteq Msg
    BY DEF Init
  <1>5. Init => /\ idleTicks \in Nat /\ bootPending \in Nat /\ cliWork \in Nat
                /\ cliRuns \in Nat /\ faults \in Nat
    BY DEF Init
  <1>6. Init => /\ scanning \in BOOLEAN /\ undelivered \in BOOLEAN /\ turnDone \in BOOLEAN
                /\ preempted \in BOOLEAN /\ corrected \in BOOLEAN /\ compacting \in BOOLEAN
                /\ graceful \in BOOLEAN /\ restartDue \in BOOLEAN
    BY DEF Init
  <1>7. Init => phase \in Phases /\ auth \in {"ok", "lost"} /\ bus \in {"idle", "thinking"}
    BY DEF Init, Phases
  <1>8. Init => /\ queue \in Seq(Turn) /\ pending \in Seq(Turn) /\ current \in Turn
                /\ arrived \in Seq(Turn) /\ Len(arrived) <= 1
    BY <1>1, <1>2 DEF Init
  <1> QED BY <1>3, <1>4, <1>5, <1>6, <1>7, <1>8 DEF TypeOK

\* Every step keeps the types.
LEMMA TypeNext == TypeOK /\ [Next]_vars => TypeOK'
  <1> SUFFICES ASSUME TypeOK, [Next]_vars PROVE TypeOK'
    OBVIOUS
  <1> USE DEF TypeOK, vars, dir, mon, proc, turn, node, cli, hist
  <1>1. ASSUME NEW p \in Paths, Write(p) PROVE TypeOK'
    BY <1>1 DEF Write
  <1>2. CASE OpenSession
    BY <1>2 DEF OpenSession, Phases
  <1>3. CASE SessionFails
    BY <1>3 DEF SessionFails, Phases, Fault
  <1>4. CASE DeferTurn
    BY <1>4, SeqMsgsHeadTail DEF DeferTurn, Consumed, Turn
  <1>5. CASE BatchDone
    BY <1>5 DEF BatchDone, Phases
  <1>6. CASE QueryDelivered
    BY <1>6 DEF QueryDelivered, Phases, Deliver, Turn
  <1>7. CASE TurnFails
    <2>1. current.msgs \subseteq Msg
      BY DEF Turn
    <2>2. failedTurns' \subseteq Msg /\ faults' \in Nat /\ phase' \in Phases
      BY <1>7, <2>1 DEF TurnFails, Phases, Fault
    <2> QED BY <1>7, <2>2 DEF TurnFails
  <1>8. CASE TurnCloses
    BY <1>8 DEF TurnCloses, Phases
  <1>9. CASE DashCorrection
    BY <1>9 DEF DashCorrection, Phases
  <1>10. CASE TurnEnds
    BY <1>10 DEF TurnEnds, Phases
  <1>11. CASE CliStarts
    BY <1>11 DEF CliStarts, Client, LoopFree, Up
  <1>12. CASE CliMessage
    BY <1>12 DEF CliMessage, Client, LoopFree, Up
  <1>13. CASE CliCompacts
    BY <1>13 DEF CliCompacts, Client, LoopFree, Up
  <1>14. CASE AuthLost
    BY <1>14 DEF AuthLost, Client, LoopFree, Up, Fault, Authenticated, TurnOpen
  <1>15. CASE SignOut
    BY <1>15 DEF SignOut, Fault
  <1>16. CASE SignIn
    BY <1>16 DEF SignIn
  <1>17. CASE Sigterm
    BY <1>17 DEF Sigterm, Fault
  <1>18. CASE SecondSignal
    BY <1>18 DEF SecondSignal, Fault, Phases
  <1>19. CASE TakeTurn
    <2>1. Head(queue) \in Turn /\ Tail(queue) \in Seq(Turn)
      BY <1>19, SeqMsgsHeadTail DEF TakeTurn
    <2>2. <<Head(queue)>> \in Seq(Turn)
      BY <2>1, SeqMsgsSmall
    <2> QED BY <1>19, <2>1, <2>2 DEF TakeTurn, Phases
  <1>20. CASE PutBack
    <2>1. queue \o pending \in Seq(Turn) /\ <<>> \in Seq(Turn)
      BY SeqMsgsConcat, SeqMsgsSmall
    <2> QED BY <1>20, <2>1 DEF PutBack, Phases
  <1>21. CASE StartTurn
    <2>1. Head(pending) \in Turn /\ Tail(pending) \in Seq(Turn)
      BY <1>21, SeqMsgsHeadTail DEF StartTurn
    <2>2. PathsOf(Head(pending).msgs) \subseteq Paths
      BY <2>1, PathsOfMsgs DEF Turn
    <2> QED BY <1>21, <2>1, <2>2 DEF StartTurn, Phases
  <1>22. ASSUME NEW got \in BOOLEAN, QueryFails(got) PROVE TypeOK'
    <2>1. current.msgs \subseteq Msg
      BY DEF Turn
    <2>2. /\ excused' \subseteq Msg /\ failedTurns' \subseteq Msg
          /\ faults' \in Nat /\ phase' \in Phases
      BY <1>22, <2>1 DEF QueryFails, Phases, Fault
    <2>3. delivered' \subseteq Msg /\ redelivered' \subseteq Msg /\ cliWork' \in Nat
      BY <1>22, <2>1 DEF QueryFails, Deliver
    <2> QED BY <1>22, <2>2, <2>3 DEF QueryFails
  <1>23. CASE PostTurn
    <2>1. current.msgs \subseteq Msg /\ NoTurn \in Turn
      BY DEF Turn, NoTurn
    <2>2. bootPending' \in Nat
      BY <1>23 DEF PostTurn, Consumed
    <2> QED BY <1>23, <2>1, <2>2 DEF PostTurn, Clear, Phases
  <1>24. CASE WatcherSends
    <2>1. Head(queue) \in Turn /\ Tail(queue) \in Seq(Turn)
      BY <1>24, SeqMsgsHeadTail DEF WatcherSends
    <2>2. <<Head(queue)>> \in Seq(Turn) /\ Len(<<Head(queue)>>) = 1
      BY <2>1, SeqMsgsSmall
    <2> QED BY <1>24, <2>1, <2>2 DEF WatcherSends
  <1>25. CASE WatcherQueues
    <2>1. Head(queue) \in Turn /\ Tail(queue) \in Seq(Turn)
      BY <1>25, SeqMsgsHeadTail DEF WatcherQueues
    <2>2. Append(pending, Head(queue)) \in Seq(Turn)
      BY <2>1, SeqMsgsAppend
    <2> QED BY <1>25, <2>1, <2>2 DEF WatcherQueues, Later
  <1>26. CASE PreemptDelivered
    <2>1. arrived[1] \in Turn /\ <<>> \in Seq(Turn) /\ Len(<<>>) <= 1
      BY <1>26, SeqMsgsSmall DEF PreemptDelivered
    <2>2. arrived[1].msgs \subseteq Msg
      BY <2>1 DEF Turn
    <2>3. bootPending' \in Nat
      BY <1>26 DEF PreemptDelivered, Consumed
    <2> QED BY <1>26, <2>1, <2>2, <2>3 DEF PreemptDelivered, Deliver, Clear, AfterSend, Phases
  <1>27. ASSUME NEW got \in BOOLEAN, PreemptFails(got) PROVE TypeOK'
    <2>1. arrived[1] \in Turn /\ <<>> \in Seq(Turn) /\ Len(<<>>) <= 1
      BY <1>27, SeqMsgsSmall DEF PreemptFails
    <2>2. arrived[1].msgs \subseteq Msg
      BY <2>1 DEF Turn
    <2>3. Append(pending, arrived[1]) \in Seq(Turn)
      BY <2>1, SeqMsgsAppend
    <2> QED BY <1>27, <2>1, <2>2, <2>3 DEF PreemptFails, Later, Deliver, Fault, AfterSend, Phases
  <1>28. ASSUME NEW answers \in 1..cliWork, CliResult(answers) PROVE TypeOK'
    BY <1>28 DEF CliResult, TurnOpen
  <1>29. CASE LifecycleTool
    <2>1. Content(inFlight) \subseteq Msg
      BY ContentMsgs
    <2> QED BY <1>29, <2>1 DEF LifecycleTool, Clear
  <1>30. ASSUME NEW got \in BOOLEAN, Gone(got), faults' \in Nat PROVE TypeOK'
    <2>1. current.msgs \subseteq Msg /\ NoTurn \in Turn
      BY DEF Turn, NoTurn
    <2>2. arrived # <<>> => arrived[1].msgs \subseteq Msg
      <3>1. arrived # <<>> => arrived[1] \in Turn
        OBVIOUS
      <3> QED BY <3>1 DEF Turn
    <2>3. InWrite \subseteq Msg
      BY <2>1, <2>2 DEF InWrite
    <2>4. <<>> \in Seq(Turn) /\ Len(<<>>) <= 1
      BY SeqMsgsSmall
    <2> QED BY <1>30, <2>1, <2>3, <2>4 DEF Gone, Phases
  <1>31. ASSUME NEW signedIn \in BOOLEAN, NEW batch \in BootBatches, Boot(signedIn, batch) PROVE TypeOK'
    <2>1. batch \in Seq(BOOLEAN)
      BY BoundsAssumption
    <2>2. queue' \in Seq(Turn)
      <3>1. Len(batch) \in Nat /\ DOMAIN batch = 1..Len(batch) /\ batch \in [1..Len(batch) -> BOOLEAN]
        BY <2>1
      <3>2. queue' = [i \in 1..Len(batch) |-> [msgs |-> {}, boot |-> batch[i]]]
        BY <1>31, <3>1 DEF Boot
      <3>3. \A i \in 1..Len(batch) : [msgs |-> {}, boot |-> batch[i]] \in Turn
        BY <3>1 DEF Turn
      <3> QED BY <3>1, <3>2, <3>3
    <2>3. bootPending' \in Nat
      <3>1. IsFiniteSet(DOMAIN batch)
        BY <2>1, FS_Interval
      <3>2. IsFiniteSet({i \in DOMAIN batch : batch[i]})
        BY <3>1, FS_Subset
      <3> QED BY <1>31, <3>2, FS_CardinalityType DEF Boot, BootTurns
    <2> QED BY <1>31, <2>2, <2>3 DEF Boot, Fault, Phases
  <1>32. CASE Spin
    <2>1. Head(queue) \in Turn /\ Tail(queue) \in Seq(Turn)
      BY <1>32, SeqMsgsHeadTail DEF Spin
    <2>2. Append(Tail(queue), Head(queue)) \in Seq(Turn)
      BY <2>1, SeqMsgsAppend
    <2> QED BY <1>32, <2>2 DEF Spin
  <1>33. ASSUME NEW drops \in SUBSET (Dream \cup Proactive), MonitorTick(drops) PROVE TypeOK'
    <2>1. drops \subseteq Paths
      BY PathsAssumption
    <2>2. created' \in [Paths -> Nat]
      BY <1>33 DEF MonitorTick
    <2>3. Content((files \cup drops) \cap Malformed) \subseteq Msg
      BY <2>1, ContentMsgs
    <2>4. loaded' \subseteq Msg
      BY <1>33, <2>1, <2>2 DEF MonitorTick, Msg
    <2> QED BY <1>33, <2>1, <2>2, <2>3, <2>4 DEF MonitorTick
  <1>34. ASSUME NEW route, MonitorRoute(route) PROVE TypeOK'
    <2> DEFINE chosen(d) == {m \in Fresh : route[m[1]] = d}
               kept == Fresh \ chosen("trash")
    <2>1. Fresh \subseteq Msg
      BY DEF Fresh
    <2>2. chosen("trash") \subseteq Msg /\ kept \subseteq Msg /\ chosen("interrupt") \subseteq Msg
          /\ snoozed \cup chosen("snooze") \subseteq Msg
      BY <2>1
    <2>3. PathsOf(kept) \subseteq Paths
      BY <2>2, PathsOfMsgs
    <2>4. queue' \in Seq(Turn)
      <3>1. PICK flushed \in SUBSET Msg : queue' = queue \o Sections(chosen("interrupt")) \o Sections(flushed)
        BY <1>34, <2>2 DEF MonitorRoute
      <3> HIDE DEF chosen
      <3>2. Sections(chosen("interrupt")) \in Seq(Turn) /\ Sections(flushed) \in Seq(Turn)
        BY <2>2, SectionsSplit
      <3>3. queue \o Sections(chosen("interrupt")) \in Seq(Turn)
        BY <3>2, SeqMsgsConcat
      <3> QED BY <3>1, <3>2, <3>3, SeqMsgsConcat
    <2>5. idleTicks' \in Nat
      BY <1>34, BoundsAssumption DEF MonitorRoute
    <2>6. snoozed' \subseteq Msg
      BY <1>34, <2>2 DEF MonitorRoute
    <2>7. /\ files' \subseteq files /\ shown' \subseteq shown \cup PathsOf(kept)
          /\ queuedPaths' = queuedPaths \cup PathsOf(kept)
          /\ discarded' = discarded \cup chosen("trash")
          /\ scanning' = FALSE /\ loaded' = {}
          /\ UNCHANGED <<created, pending, current, arrived, phase, turn, node, cli,
                         delivered, redelivered, toolCleared, excused, failedTurns, faults>>
      BY <1>34 DEF MonitorRoute
    <2> HIDE DEF chosen, kept
    <2> QED BY <2>2, <2>3, <2>4, <2>5, <2>6, <2>7
  <1>35. ASSUME NEW got \in BOOLEAN, MainShutdown(got) PROVE TypeOK'
    BY <1>30, <1>35 DEF MainShutdown
  <1>36. ASSUME NEW got \in BOOLEAN, Kill(got) PROVE TypeOK'
    BY <1>30, <1>36 DEF Kill, Fault
  <1>37. CASE FailureSaved
    BY <1>37 DEF FailureSaved, Phases
  <1>38. CASE UNCHANGED vars
    BY <1>38
  <1>39. CASE ClientConnects
    BY <1>39 DEF ClientConnects
  <1> QED
    BY <1>1, <1>2, <1>3, <1>4, <1>5, <1>6, <1>7, <1>8, <1>9, <1>10, <1>11, <1>12, <1>13,
       <1>14, <1>15, <1>16, <1>17, <1>18, <1>19, <1>20, <1>21, <1>22, <1>23, <1>24, <1>25,
       <1>26, <1>27, <1>28, <1>29, <1>31, <1>32, <1>33, <1>34, <1>35, <1>36, <1>37, <1>38, <1>39
       DEF Next, Monitor, Processor, Watcher, Cli, Process

\* Every reachable state is well typed: in particular the queues hold turns and
\* at most one preempt is being written at a time.
THEOREM TypeCorrect == Spec => []TypeOK
  BY TypeInit, TypeNext, PTL DEF Spec

----------------------------------------------------------------------------
(* Files and their content.                                                 *)

\* Content and PathsOf are inverse to each other and respect the set operations.
LEMMA ContentAlgebra ==
    ASSUME NEW a, NEW b
    PROVE  /\ Content(a \cup b) = Content(a) \cup Content(b)
           /\ Content(a \ b) = Content(a) \ Content(b)
           /\ PathsOf(Content(a)) = a
           /\ a \subseteq b <=> Content(a) \subseteq Content(b)
  <1>1. Content(a \cup b) = Content(a) \cup Content(b)
    BY DEF Content
  <1>2. Content(a \ b) = Content(a) \ Content(b)
    BY DEF Content
  <1>3. \A p \in a : <<p, created[p]>> \in Content(a) /\ <<p, created[p]>>[1] = p
    BY DEF Content
  <1>4. \A m \in Content(b) : m[1] \in b
    BY DEF Content
  <1>5. PathsOf(Content(a)) = a
    <2>1. \A m \in Content(a) : m[1] \in a
      BY DEF Content
    <2>2. PathsOf(Content(a)) \subseteq a
      BY <2>1 DEF PathsOf
    <2>3. a \subseteq PathsOf(Content(a))
      BY <1>3 DEF PathsOf
    <2> QED BY <2>2, <2>3
  <1>6. a \subseteq b => Content(a) \subseteq Content(b)
    BY DEF Content
  <1>7. Content(a) \subseteq Content(b) => a \subseteq b
    <2> SUFFICES ASSUME Content(a) \subseteq Content(b), NEW p \in a PROVE p \in b
      OBVIOUS
    <2>1. <<p, created[p]>> \in Content(b)
      BY <1>3
    <2> QED BY <2>1, <1>3, <1>4
  <1> QED BY <1>1, <1>2, <1>5, <1>6, <1>7

\* Messages that are the content of some files are the content of their paths.
LEMMA ContentOfPaths ==
    ASSUME NEW ps, NEW ms, ms \subseteq Content(ps)
    PROVE  Content(PathsOf(ms)) = ms /\ PathsOf(ms) \subseteq ps
  BY DEF Content, PathsOf

\* While no file is created the content of a path is fixed.
LEMMA ContentFixed ==
    ASSUME created' = created
    PROVE  /\ OnDisk' = Content(files')
           /\ Content(inFlight)' = Content(inFlight')
           /\ Written' = Written
  BY DEF OnDisk, Content, Written

\* Steps that touch neither the files nor the queues keep what is said of them.
LEMMA WaitingUntouched ==
    ASSUME UNCHANGED <<files, created, queuedPaths, scanning, loaded, snoozed, queue, pending,
                       arrived, inFlight>>,
           WaitingOnDisk, WaitingKnown, HeldOnce
    PROVE  WaitingOnDisk' /\ WaitingKnown' /\ HeldOnce'
  <1>1. WaitingOnDisk'
    BY DEF WaitingOnDisk, Waiting, OnDisk, Content, Fresh
  <1>2. WaitingKnown'
    BY DEF WaitingKnown, Waiting
  <1>3. HeldOnce'
    BY DEF HeldOnce, Waiting, Content
  <1> QED BY <1>1, <1>2, <1>3

\* Steps that move messages between the queues and may clear the files of
\* messages that no longer wait.
LEMMA WaitingMoved ==
    ASSUME UNCHANGED <<created, queuedPaths, scanning, loaded>>,
           NEW gone, gone \subseteq queuedPaths, files' = files \ gone,
           WaitingOnDisk, WaitingKnown,
           Waiting' \cup Content(inFlight') \subseteq (Waiting \cup Content(inFlight)) \ Content(gone)
    PROVE  WaitingOnDisk' /\ WaitingKnown'
  <1>1. OnDisk' = OnDisk \ Content(gone) /\ Content(inFlight)' = Content(inFlight')
    BY ContentFixed, ContentAlgebra DEF OnDisk
  <1>2. Fresh' = Fresh
    BY DEF Fresh
  <1>3. Fresh \cap Content(gone) = {}
    BY DEF Fresh, Content
  <1>4. Waiting' \cup Content(inFlight') \subseteq OnDisk'
    BY <1>1 DEF WaitingOnDisk
  <1>5. WaitingOnDisk'
    BY <1>1, <1>2, <1>3, <1>4 DEF WaitingOnDisk
  <1>6. PathsOf(Waiting \cup Content(inFlight)) = PathsOf(Waiting) \cup inFlight
    <2>1. PathsOf(Waiting \cup Content(inFlight)) = PathsOf(Waiting) \cup PathsOf(Content(inFlight))
      BY DEF PathsOf
    <2> QED BY <2>1, ContentAlgebra
  <1>7. PathsOf(Waiting') \cup PathsOf(Content(inFlight')) \subseteq PathsOf(Waiting \cup Content(inFlight))
    BY DEF PathsOf
  <1>8. PathsOf(Content(inFlight')) = inFlight'
    BY ContentAlgebra
  <1>9. PathsOf(Waiting)' = PathsOf(Waiting')
    BY DEF PathsOf
  <1>10. PathsOf(Waiting)' \cup inFlight' \subseteq queuedPaths
    BY <1>6, <1>7, <1>8, <1>9 DEF WaitingKnown
  <1>11. WaitingKnown'
    BY <1>10 DEF WaitingKnown
  <1> QED BY <1>5, <1>11

----------------------------------------------------------------------------
(* Custody is inductive.                                                    *)

\* Steps of the turn, of the CLI and of the process that move no message.
LEMMA CustodyQuiet ==
    ASSUME TypeOK, Custody,
           \/ OpenSession \/ SessionFails \/ BatchDone \/ QueryDelivered \/ TurnFails
           \/ FailureSaved \/ TurnCloses \/ DashCorrection \/ TurnEnds \/ SecondSignal
           \/ CliStarts \/ CliMessage \/ CliCompacts \/ AuthLost
           \/ SignOut \/ SignIn \/ Sigterm \/ ClientConnects
           \/ \E got \in BOOLEAN : QueryFails(got)
           \/ \E answers \in 1..cliWork : CliResult(answers)
    PROVE  Custody'
  <1> USE DEF dir, mon, proc, turn, node, cli, hist
  <1>1. UNCHANGED <<files, created, queuedPaths, scanning, loaded, snoozed, queue, pending,
                    arrived, inFlight, current>>
    BY DEF OpenSession, SessionFails, BatchDone, QueryDelivered, TurnFails, FailureSaved, TurnCloses,
           DashCorrection, TurnEnds, SecondSignal, CliStarts, CliMessage, CliCompacts, AuthLost,
           SignOut, SignIn, Sigterm, ClientConnects, QueryFails, CliResult
  <1>2. WaitingOnDisk' /\ WaitingKnown' /\ HeldOnce'
    BY <1>1, WaitingUntouched DEF Custody
  <1>3. Content(inFlight)' = Content(inFlight) /\ current' = current /\ inFlight' = inFlight
    BY <1>1, ContentFixed
  <1>4. TurnAccounted
    BY DEF Custody
  <1>5. TurnAccounted'
    <2> USE DEF TurnAccounted, Settled
    <2>1. CASE UNCHANGED <<phase, undelivered, corrected, delivered, discarded, toolCleared>>
      BY <1>3, <1>4, <2>1
    <2>2. CASE OpenSession
      BY <1>3, <1>4, <2>2 DEF OpenSession
    <2>3. CASE SessionFails
      BY <1>3, <1>4, <2>3 DEF SessionFails
    <2>4. CASE BatchDone
      BY <1>3, <1>4, <2>4 DEF BatchDone
    <2>5. CASE QueryDelivered
      BY <1>3, <1>4, <2>5 DEF QueryDelivered, Deliver
    <2>6. CASE TurnFails
      BY <1>3, <1>4, <2>6 DEF TurnFails
    <2>7. CASE TurnCloses
      BY <1>3, <1>4, <2>7 DEF TurnCloses
    <2>8. CASE DashCorrection
      BY <1>3, <1>4, <2>8 DEF DashCorrection
    <2>9. CASE TurnEnds
      BY <1>3, <1>4, <2>9 DEF TurnEnds
    <2>10. CASE SecondSignal
      BY <1>3, <1>4, <2>10 DEF SecondSignal
    <2>11. ASSUME NEW got \in BOOLEAN, QueryFails(got) PROVE TurnAccounted'
      BY <1>3, <1>4, <2>11 DEF QueryFails, Deliver
    <2>13. CASE FailureSaved
      BY <1>3, <1>4, <2>13 DEF FailureSaved
    <2>12. ASSUME \/ CliStarts \/ CliMessage \/ CliCompacts \/ AuthLost
                  \/ SignOut \/ SignIn \/ Sigterm \/ ClientConnects
                  \/ \E answers \in 1..cliWork : CliResult(answers)
           PROVE  UNCHANGED <<phase, undelivered, corrected, delivered, discarded, toolCleared>>
      BY <2>12 DEF CliStarts, CliMessage, CliCompacts, AuthLost, SignOut, SignIn, Sigterm,
         ClientConnects, CliResult
    <2> QED BY <2>1, <2>2, <2>3, <2>4, <2>5, <2>6, <2>7, <2>8, <2>9, <2>10, <2>11, <2>12, <2>13
  <1> QED BY <1>2, <1>5 DEF Custody

\* Steps of the processor and the watcher that move turns between the queues.
LEMMA CustodyMoves ==
    ASSUME TypeOK, Custody,
           \/ TakeTurn \/ PutBack \/ Spin \/ DeferTurn \/ StartTurn
           \/ WatcherSends \/ WatcherQueues
           \/ \E got \in BOOLEAN : PreemptFails(got)
    PROVE  Custody'
  <1> USE DEF dir, mon, proc, turn, node, cli, hist
  <1>1. /\ queue \in Seq(Turn) /\ pending \in Seq(Turn) /\ arrived \in Seq(Turn)
        /\ Len(arrived) <= 1
    BY DEF TypeOK
  <1>2. UNCHANGED <<files, created, queuedPaths, scanning, loaded, snoozed>>
    BY DEF TakeTurn, PutBack, Spin, DeferTurn, StartTurn, WatcherSends, WatcherQueues, PreemptFails
  <1>3. WaitingOnDisk /\ WaitingKnown /\ HeldOnce /\ TurnAccounted
    BY DEF Custody
  <1>4. Content(inFlight)' = Content(inFlight')
    BY <1>2, ContentFixed
  <1>5. ASSUME Waiting' \cup Content(inFlight') \subseteq Waiting \cup Content(inFlight)
        PROVE  WaitingOnDisk' /\ WaitingKnown'
    <2>1. files' = files \ {} /\ Content({}) = {}
      BY <1>2 DEF Content
    <2> QED BY <1>2, <1>3, <1>5, <2>1, WaitingMoved
  <1>6. ASSUME queue # <<>>
        PROVE  /\ Head(queue) \in Turn
               /\ Tail(queue) \in Seq(Turn)
               /\ SeqMsgs(queue) = Head(queue).msgs \cup SeqMsgs(Tail(queue))
               /\ Apart(Tail(queue)) /\ Head(queue).msgs \cap SeqMsgs(Tail(queue)) = {}
    BY <1>1, <1>3, <1>6, SeqMsgsHeadTail DEF HeldOnce
  <1>7. ASSUME pending # <<>>
        PROVE  /\ Head(pending) \in Turn
               /\ Tail(pending) \in Seq(Turn)
               /\ SeqMsgs(pending) = Head(pending).msgs \cup SeqMsgs(Tail(pending))
               /\ Apart(Tail(pending)) /\ Head(pending).msgs \cap SeqMsgs(Tail(pending)) = {}
    BY <1>1, <1>3, <1>7, SeqMsgsHeadTail DEF HeldOnce
  <1>8. SeqMsgs(<<>>) = {} /\ Apart(<<>>)
    BY SeqMsgsSmall
  <1>9. CASE TakeTurn
    <2>1. /\ queue' = Tail(queue) /\ pending' = <<Head(queue)>> /\ queue # <<>>
          /\ UNCHANGED <<arrived, inFlight, current, undelivered, corrected>>
          /\ UNCHANGED <<delivered, discarded, toolCleared>>
          /\ phase = "idle" /\ phase' = "loop"
      BY <1>9 DEF TakeTurn
    <2>2. SeqMsgs(pending') = Head(queue).msgs /\ Apart(pending')
      BY <2>1, <1>6, SeqMsgsSmall
    <2>3. HeldOnce'
      BY <1>2, <1>3, <1>4, <1>6, <2>1, <2>2 DEF HeldOnce, Waiting
    <2>4. WaitingOnDisk' /\ WaitingKnown'
      BY <1>2, <1>5, <1>6, <2>1, <2>2 DEF Waiting
    <2>5. TurnAccounted'
      BY <1>3, <1>4, <2>1 DEF TurnAccounted, Settled
    <2> QED BY <2>3, <2>4, <2>5 DEF Custody
  <1>10. CASE PutBack
    <2>1. /\ queue' = queue \o pending /\ pending' = <<>>
          /\ UNCHANGED <<arrived, inFlight, current, undelivered, corrected>>
          /\ UNCHANGED <<delivered, discarded, toolCleared>>
          /\ phase = "loop" /\ phase' = "spin"
      BY <1>10 DEF PutBack
    <2>2. SeqMsgs(queue') = SeqMsgs(queue) \cup SeqMsgs(pending) /\ Apart(queue')
      BY <2>1, <1>1, <1>3, SeqMsgsConcat DEF HeldOnce
    <2>3. HeldOnce'
      BY <1>2, <1>3, <1>4, <1>8, <2>1, <2>2 DEF HeldOnce, Waiting
    <2>4. WaitingOnDisk' /\ WaitingKnown'
      BY <1>2, <1>5, <1>8, <2>1, <2>2 DEF Waiting
    <2>5. TurnAccounted'
      BY <1>3, <1>4, <2>1 DEF TurnAccounted, Settled
    <2> QED BY <2>3, <2>4, <2>5 DEF Custody
  <1>11. CASE Spin
    <2>1. /\ queue' = Append(Tail(queue), Head(queue)) /\ queue # <<>>
          /\ UNCHANGED <<pending, arrived, inFlight, current, undelivered, corrected>>
          /\ UNCHANGED <<delivered, discarded, toolCleared, phase>>
      BY <1>11 DEF Spin
    <2>2. SeqMsgs(queue') = SeqMsgs(queue) /\ Apart(queue')
      BY <2>1, <1>6, SeqMsgsAppend
    <2>3. HeldOnce'
      BY <1>2, <1>3, <1>4, <2>1, <2>2 DEF HeldOnce, Waiting
    <2>4. WaitingOnDisk' /\ WaitingKnown'
      BY <1>2, <1>5, <2>1, <2>2 DEF Waiting
    <2>5. TurnAccounted'
      BY <1>3, <1>4, <2>1 DEF TurnAccounted, Settled
    <2> QED BY <2>3, <2>4, <2>5 DEF Custody
  <1>12. CASE DeferTurn
    <2>1. /\ pending' = Tail(pending) /\ pending # <<>>
          /\ UNCHANGED <<queue, arrived, inFlight, current, undelivered, corrected>>
          /\ UNCHANGED <<delivered, discarded, toolCleared, phase>>
      BY <1>12 DEF DeferTurn
    <2>2. HeldOnce'
      BY <1>2, <1>3, <1>4, <1>7, <2>1 DEF HeldOnce, Waiting
    <2>3. WaitingOnDisk' /\ WaitingKnown'
      BY <1>2, <1>5, <1>7, <2>1 DEF Waiting
    <2>4. TurnAccounted'
      BY <1>3, <1>4, <2>1 DEF TurnAccounted, Settled
    <2> QED BY <2>2, <2>3, <2>4 DEF Custody
  <1>13. CASE StartTurn
    <2>1. /\ pending' = Tail(pending) /\ pending # <<>>
          /\ current' = Head(pending) /\ inFlight' = PathsOf(Head(pending).msgs)
          /\ UNCHANGED <<queue, arrived, delivered, discarded, toolCleared>>
          /\ phase' = "sending" /\ corrected' = FALSE
      BY <1>13 DEF StartTurn
    <2>2. Head(pending).msgs \subseteq Content(files)
      BY <1>3, <1>7, <2>1 DEF WaitingOnDisk, Waiting, OnDisk
    <2>3. Content(inFlight') = Head(pending).msgs
      BY <2>1, <2>2, ContentOfPaths
    <2>4. HeldOnce'
      BY <1>2, <1>3, <1>4, <1>7, <2>1, <2>3 DEF HeldOnce, Waiting
    <2>5. WaitingOnDisk' /\ WaitingKnown'
      BY <1>2, <1>5, <1>7, <2>1, <2>3 DEF Waiting
    <2>6. TurnAccounted'
      BY <1>4, <2>1, <2>3 DEF TurnAccounted, Settled
    <2> QED BY <2>4, <2>5, <2>6 DEF Custody
  <1>14. CASE WatcherSends
    <2>1. /\ queue' = Tail(queue) /\ arrived' = <<Head(queue)>> /\ queue # <<>> /\ arrived = <<>>
          /\ UNCHANGED <<pending, inFlight, current, undelivered, corrected>>
          /\ UNCHANGED <<delivered, discarded, toolCleared, phase>>
      BY <1>14 DEF WatcherSends
    <2>2. SeqMsgs(arrived') = Head(queue).msgs
      BY <2>1, <1>6, SeqMsgsSmall
    <2>3. HeldOnce'
      BY <1>2, <1>3, <1>4, <1>6, <2>1, <2>2 DEF HeldOnce, Waiting
    <2>4. WaitingOnDisk' /\ WaitingKnown'
      BY <1>2, <1>5, <1>6, <2>1, <2>2 DEF Waiting
    <2>5. TurnAccounted'
      BY <1>3, <1>4, <2>1 DEF TurnAccounted, Settled
    <2> QED BY <2>3, <2>4, <2>5 DEF Custody
  <1>15. CASE WatcherQueues
    <2>1. /\ queue' = Tail(queue) /\ pending' = Append(pending, Head(queue)) /\ queue # <<>>
          /\ UNCHANGED <<arrived, inFlight, current, undelivered, corrected>>
          /\ UNCHANGED <<delivered, discarded, toolCleared, phase>>
      BY <1>15 DEF WatcherQueues, Later
    <2>2. SeqMsgs(pending') = SeqMsgs(pending) \cup Head(queue).msgs /\ Apart(pending')
      BY <2>1, <1>1, <1>3, <1>6, SeqMsgsAppend DEF HeldOnce
    <2>3. HeldOnce'
      BY <1>2, <1>3, <1>4, <1>6, <2>1, <2>2 DEF HeldOnce, Waiting
    <2>4. WaitingOnDisk' /\ WaitingKnown'
      BY <1>2, <1>5, <1>6, <2>1, <2>2 DEF Waiting
    <2>5. TurnAccounted'
      BY <1>3, <1>4, <2>1 DEF TurnAccounted, Settled
    <2> QED BY <2>3, <2>4, <2>5 DEF Custody
  <1>16. ASSUME NEW got \in BOOLEAN, PreemptFails(got)
         PROVE  Custody'
    <2>1. /\ arrived' = <<>> /\ pending' = Append(pending, arrived[1]) /\ arrived # <<>>
          /\ UNCHANGED <<queue, inFlight, current, undelivered, corrected>>
          /\ UNCHANGED <<discarded, toolCleared>>
          /\ delivered \subseteq delivered'
          /\ phase' = IF phase = "failed" THEN "post" ELSE phase
      BY <1>16 DEF PreemptFails, Later, Deliver, AfterSend
    <2>2. arrived[1] \in Turn /\ SeqMsgs(arrived) = arrived[1].msgs
      BY <1>1, <2>1, SeqMsgsOne
    <2>3. SeqMsgs(pending') = SeqMsgs(pending) \cup arrived[1].msgs /\ Apart(pending')
      BY <2>1, <2>2, <1>1, <1>3, SeqMsgsAppend DEF HeldOnce
    <2>4. HeldOnce'
      BY <1>2, <1>3, <1>4, <1>8, <2>1, <2>2, <2>3 DEF HeldOnce, Waiting
    <2>5. WaitingOnDisk' /\ WaitingKnown'
      BY <1>2, <1>5, <1>8, <2>1, <2>2, <2>3 DEF Waiting
    <2>6. TurnAccounted'
      BY <1>3, <1>4, <2>1 DEF TurnAccounted, Settled
    <2> QED BY <2>4, <2>5, <2>6 DEF Custody
  <1> QED BY <1>9, <1>10, <1>11, <1>12, <1>13, <1>14, <1>15, <1>16

\* Steps that clear files: the end of a turn, a delivered preempt, a restart tool.
LEMMA CustodyClears ==
    ASSUME TypeOK, Custody, PostTurn \/ PreemptDelivered \/ LifecycleTool
    PROVE  Custody'
  <1> USE DEF dir, mon, proc, turn, node, cli, hist
  <1>1. arrived \in Seq(Turn) /\ Len(arrived) <= 1
    BY DEF TypeOK
  <1>2. UNCHANGED <<created, queuedPaths, scanning, loaded, snoozed, queue, pending>>
    BY DEF PostTurn, PreemptDelivered, LifecycleTool
  <1>3. WaitingOnDisk /\ WaitingKnown /\ HeldOnce /\ TurnAccounted
    BY DEF Custody
  <1>4. Content(inFlight)' = Content(inFlight')
    BY <1>2, ContentFixed
  <1>5. Content({}) = {} /\ SeqMsgs(<<>>) = {} /\ Apart(<<>>)
    BY SeqMsgsSmall DEF Content
  <1>6. CASE PostTurn \/ LifecycleTool
    <2>1. PICK gone \in {inFlight, {}} : files' = files \ gone
      BY <1>6 DEF PostTurn, LifecycleTool, Clear
    <2>2. inFlight' = {} /\ arrived' = arrived
      BY <1>6 DEF PostTurn, LifecycleTool
    <2>3. Waiting' = Waiting /\ Waiting \cap Content(inFlight) = {}
      BY <1>2, <1>3, <2>2 DEF Waiting, HeldOnce
    <2>4. Content(gone) \subseteq Content(inFlight) /\ gone \subseteq queuedPaths
      BY <1>3, <1>5, <2>1 DEF WaitingKnown
    <2>5. WaitingOnDisk' /\ WaitingKnown'
      BY <1>2, <1>3, <1>5, <2>1, <2>2, <2>3, <2>4, WaitingMoved
    <2>6. HeldOnce'
      BY <1>2, <1>3, <1>4, <1>5, <2>2 DEF HeldOnce, Waiting
    <2>7. TurnAccounted'
      <3>1. CASE PostTurn
        <4>1. current' = NoTurn /\ phase' = "loop" /\ NoTurn.msgs = {}
          BY <3>1 DEF PostTurn, NoTurn
        <4> QED BY <1>4, <1>5, <2>2, <4>1 DEF TurnAccounted
      <3>2. CASE LifecycleTool
        <4>1. /\ UNCHANGED <<current, phase, undelivered, corrected, delivered, discarded>>
              /\ toolCleared' = toolCleared \cup (Content(inFlight) \ delivered)
          BY <3>2 DEF LifecycleTool
        <4>2. current.msgs \subseteq Content(inFlight) \cup Settled
          BY <1>3 DEF TurnAccounted
        <4>3. current'.msgs \subseteq Settled'
          BY <4>1, <4>2 DEF Settled
        <4> QED BY <1>3, <1>4, <1>5, <2>2, <4>1, <4>3 DEF TurnAccounted
      <3> QED BY <1>6, <3>1, <3>2
    <2> QED BY <2>5, <2>6, <2>7 DEF Custody
  <1>7. CASE PreemptDelivered
    <2>1. /\ arrived' = <<>> /\ arrived # <<>>
          /\ files' = files \ PathsOf(arrived[1].msgs)
          /\ UNCHANGED <<inFlight, current, undelivered, corrected, discarded, toolCleared>>
          /\ delivered \subseteq delivered'
          /\ phase' = IF phase = "failed" THEN "post" ELSE phase
      BY <1>7 DEF PreemptDelivered, Clear, Deliver, AfterSend
    <2>2. SeqMsgs(arrived) = arrived[1].msgs
      BY <1>1, <2>1, SeqMsgsOne
    <2>3. arrived[1].msgs \subseteq Content(files)
      BY <1>3, <2>2 DEF WaitingOnDisk, Waiting, OnDisk
    <2>4. Content(PathsOf(arrived[1].msgs)) = arrived[1].msgs
      BY <2>3, ContentOfPaths
    <2>5. PathsOf(arrived[1].msgs) \subseteq queuedPaths
      <3>1. arrived[1].msgs \subseteq Waiting
        BY <2>2 DEF Waiting
      <3>2. PathsOf(arrived[1].msgs) \subseteq PathsOf(Waiting)
        BY <3>1 DEF PathsOf
      <3> QED BY <1>3, <3>2 DEF WaitingKnown
    <2>6. Waiting' \cup Content(inFlight')
             \subseteq (Waiting \cup Content(inFlight)) \ arrived[1].msgs
      BY <1>2, <1>3, <1>5, <2>1, <2>2 DEF Waiting, HeldOnce
    <2>7. WaitingOnDisk' /\ WaitingKnown'
      BY <1>2, <1>3, <2>1, <2>4, <2>5, <2>6, WaitingMoved
    <2>8. HeldOnce'
      BY <1>2, <1>3, <1>4, <1>5, <2>1 DEF HeldOnce, Waiting
    <2>9. TurnAccounted'
      BY <1>3, <1>4, <2>1 DEF TurnAccounted, Settled
    <2> QED BY <2>7, <2>8, <2>9 DEF Custody
  <1> QED BY <1>6, <1>7

\* The start and the end of the process: nothing is held.
LEMMA CustodyProcess ==
    ASSUME TypeOK, Custody,
           \/ \E got \in BOOLEAN : Gone(got)
           \/ \E signedIn \in BOOLEAN, batch \in BootBatches : Boot(signedIn, batch)
    PROVE  Custody'
  <1> USE DEF dir, mon, proc, turn, node, cli, hist
  <1>1. Content({}) = {} /\ SeqMsgs(<<>>) = {} /\ Apart(<<>>) /\ NoTurn.msgs = {} /\ PathsOf({}) = {}
    BY SeqMsgsSmall DEF Content, NoTurn, PathsOf
  <1>2. ASSUME NEW got \in BOOLEAN, Gone(got) PROVE Custody'
    <2>1. /\ queue' = <<>> /\ pending' = <<>> /\ arrived' = <<>> /\ snoozed' = {}
          /\ inFlight' = {} /\ queuedPaths' = {} /\ loaded' = {} /\ scanning' = FALSE
          /\ current' = NoTurn /\ phase' = "down" /\ created' = created
      BY <1>2 DEF Gone
    <2>2. Waiting' = {} /\ Content(inFlight)' = {} /\ PathsOf(Waiting)' = {} /\ PathsOf(loaded)' = {}
      BY <1>1, <2>1 DEF Waiting, PathsOf, Content
    <2>3. WaitingOnDisk' /\ WaitingKnown' /\ HeldOnce' /\ TurnAccounted'
      BY <1>1, <2>1, <2>2 DEF WaitingOnDisk, WaitingKnown, HeldOnce, TurnAccounted
    <2> QED BY <2>3 DEF Custody
  <1>3. ASSUME NEW signedIn \in BOOLEAN, NEW batch \in BootBatches, Boot(signedIn, batch)
        PROVE  Custody'
    <2>1. /\ queue' = [i \in DOMAIN batch |-> [msgs |-> {}, boot |-> batch[i]]]
          /\ UNCHANGED <<files, created, queuedPaths, scanning, loaded, snoozed, pending, arrived,
                         inFlight, current>>
          /\ phase = "down" /\ phase' \in {"opening", "off"}
      BY <1>3 DEF Boot
    <2>2. SeqMsgs(queue') = {} /\ Apart(queue')
      BY <2>1 DEF SeqMsgs, Apart
    <2>3. WaitingOnDisk /\ WaitingKnown /\ HeldOnce /\ TurnAccounted
      BY DEF Custody
    <2>4. Content(inFlight)' = Content(inFlight')
      BY <2>1, ContentFixed
    <2>5. HeldOnce'
      BY <2>1, <2>2, <2>3, <2>4 DEF HeldOnce, Waiting
    <2>6. WaitingOnDisk' /\ WaitingKnown'
      <3>1. files' = files \ {} /\ {} \subseteq queuedPaths
        BY <2>1
      <3>2. Waiting' \cup Content(inFlight') \subseteq (Waiting \cup Content(inFlight)) \ Content({})
        BY <1>1, <2>1, <2>2 DEF Waiting
      <3> QED BY <2>1, <2>3, <3>1, <3>2, WaitingMoved
    <2>7. TurnAccounted'
      BY <1>1, <2>1, <2>3, <2>4 DEF TurnAccounted, NoTurn
    <2> QED BY <2>5, <2>6, <2>7 DEF Custody
  <1> QED BY <1>2, <1>3

\* Creating files under names not on disk, and unlinking unparseable ones, does
\* not disturb what waits.
LEMMA NewFiles ==
    ASSUME Custody, \A q \in files : created'[q] = created[q], files \ Malformed \subseteq files',
           UNCHANGED <<queue, pending, arrived, snoozed, inFlight, current>>,
           UNCHANGED <<phase, undelivered, corrected, delivered, toolCleared>>,
           discarded \subseteq discarded'
    PROVE  /\ Waiting' = Waiting /\ Waiting \cup Content(inFlight)' \subseteq OnDisk'
           /\ HeldOnce' /\ TurnAccounted'
           /\ OnDisk \ Content(Malformed) \subseteq OnDisk'
           /\ PathsOf(Waiting) \cup inFlight \subseteq queuedPaths \cap files'
  <1>1. WaitingOnDisk /\ WaitingKnown /\ HeldOnce /\ TurnAccounted
    BY DEF Custody
  <1>2. OnDisk \ Content(Malformed) \subseteq OnDisk'
    BY DEF OnDisk, Content
  <1>3. inFlight \subseteq files /\ PathsOf(Waiting) \subseteq files
    <2>1. Content(inFlight) \subseteq Content(files) /\ Waiting \subseteq Content(files)
      BY <1>1 DEF WaitingOnDisk, OnDisk
    <2> QED BY <2>1, ContentAlgebra, ContentOfPaths
  <1>4. (PathsOf(Waiting) \cup inFlight) \cap Malformed = {}
    BY <1>1 DEF WaitingKnown
  <1>5. Content(inFlight)' = Content(inFlight)
    BY <1>3 DEF Content
  <1>6. Waiting' = Waiting
    BY DEF Waiting
  <1>7. (Waiting \cup Content(inFlight)) \cap Content(Malformed) = {}
    <2>1. \A m \in Content(Malformed) : m[1] \in Malformed
      BY DEF Content
    <2>2. \A m \in Waiting : m[1] \in PathsOf(Waiting)
      BY DEF PathsOf
    <2>3. \A m \in Content(inFlight) : m[1] \in inFlight
      BY DEF Content
    <2> QED BY <1>4, <2>1, <2>2, <2>3
  <1>8. Waiting \cup Content(inFlight) \subseteq OnDisk'
    BY <1>1, <1>2, <1>7 DEF WaitingOnDisk
  <1>9. HeldOnce'
    BY <1>1, <1>5, <1>6 DEF HeldOnce
  <1>10. TurnAccounted'
    BY <1>1, <1>5 DEF TurnAccounted, Settled
  <1>11. PathsOf(Waiting) \cup inFlight \subseteq queuedPaths \cap files'
    BY <1>1, <1>3, <1>4 DEF WaitingKnown
  <1> QED BY <1>2, <1>5, <1>6, <1>8, <1>9, <1>10, <1>11

\* A producer drops a file, or the monitor's tick creates, prunes and loads.
LEMMA CustodyFiles ==
    ASSUME TypeOK, Custody,
           \/ \E p \in Paths : Write(p)
           \/ \E drops \in SUBSET (Dream \cup Proactive) : MonitorTick(drops)
    PROVE  Custody'
  <1> USE DEF dir, mon, proc, turn, node, cli, hist
  <1>1. WaitingOnDisk /\ WaitingKnown
    BY DEF Custody
  <1>2. files \subseteq Paths /\ created \in [Paths -> Nat]
    BY DEF TypeOK
  <1>3. ASSUME NEW p \in Paths, Write(p) PROVE Custody'
    <2>1. /\ \A q \in files : created'[q] = created[q]
          /\ files \ Malformed \subseteq files' /\ files \subseteq files'
      BY <1>2, <1>3 DEF Write
    <2>2. /\ UNCHANGED <<queue, pending, arrived, snoozed, inFlight, current>>
          /\ UNCHANGED <<phase, undelivered, corrected, delivered, toolCleared, discarded>>
          /\ UNCHANGED <<queuedPaths, scanning, loaded>>
      BY <1>3 DEF Write
    <2>3. /\ Waiting' = Waiting /\ Waiting \cup Content(inFlight)' \subseteq OnDisk'
          /\ HeldOnce' /\ TurnAccounted'
      BY <2>1, <2>2, NewFiles
    <2>4. OnDisk \subseteq OnDisk' /\ Fresh' = Fresh
      BY <2>1, <2>2 DEF OnDisk, Content, Fresh
    <2>5. WaitingOnDisk'
      BY <1>1, <2>2, <2>3, <2>4 DEF WaitingOnDisk
    <2>6. WaitingKnown'
      BY <1>1, <2>2 DEF WaitingKnown, Waiting
    <2> QED BY <2>3, <2>5, <2>6 DEF Custody
  <1>4. ASSUME NEW drops \in SUBSET (Dream \cup Proactive), MonitorTick(drops) PROVE Custody'
    <2>1. drops \subseteq Paths /\ drops \cap files = {} /\ Malformed \subseteq Paths
      BY <1>4, PathsAssumption DEF MonitorTick, MayDrop
    <2>2. /\ \A q \in files : created'[q] = created[q]
          /\ files \ Malformed \subseteq files'
          /\ files' = (files \cup drops) \ Malformed
      BY <1>2, <1>4, <2>1 DEF MonitorTick
    <2>3. /\ UNCHANGED <<queue, pending, arrived, snoozed, inFlight, current>>
          /\ UNCHANGED <<phase, undelivered, corrected, delivered, toolCleared>>
          /\ discarded \subseteq discarded'
          /\ queuedPaths' = queuedPaths \cap (files \cup drops)
          /\ loaded' = {<<p, created'[p]>> : p \in files'}
      BY <1>4 DEF MonitorTick
    <2>4. /\ Waiting' = Waiting /\ Waiting \cup Content(inFlight)' \subseteq OnDisk'
          /\ HeldOnce' /\ TurnAccounted'
          /\ PathsOf(Waiting) \cup inFlight \subseteq queuedPaths \cap files'
      BY <2>2, <2>3, NewFiles
    <2>5. loaded' = OnDisk' /\ Fresh' \subseteq loaded'
      BY <2>3 DEF OnDisk, Content, Fresh
    <2>6. WaitingOnDisk'
      BY <2>4, <2>5 DEF WaitingOnDisk
    <2>7. PathsOf(loaded)' \subseteq files'
      BY <2>3 DEF PathsOf
    <2>8. PathsOf(Waiting)' = PathsOf(Waiting)
      BY <2>4 DEF PathsOf
    <2>9. WaitingKnown'
      BY <1>1, <2>2, <2>3, <2>4, <2>7, <2>8 DEF WaitingKnown
    <2> QED BY <2>4, <2>6, <2>9 DEF Custody
  <1> QED BY <1>3, <1>4

\* The monitor routes fresh notifications: they are on disk, not known before,
\* and each goes to one place.
LEMMA CustodyRoute ==
    ASSUME TypeOK, Custody, NEW route, MonitorRoute(route)
    PROVE  Custody'
  <1> USE DEF dir, mon, proc, turn, node, cli, hist
  <1> DEFINE chosen(d) == {m \in Fresh : route[m[1]] = d}
             trash == chosen("trash")
             urgent == chosen("interrupt")
             later == chosen("snooze")
             kept == Fresh \ trash
  <1>1. WaitingOnDisk /\ WaitingKnown /\ HeldOnce /\ TurnAccounted
    BY DEF Custody
  <1>2. /\ files' = files \ PathsOf(trash)
        /\ queuedPaths' = queuedPaths \cup PathsOf(kept)
        /\ discarded' = discarded \cup trash
        /\ scanning /\ scanning' = FALSE /\ loaded' = {}
    BY DEF MonitorRoute
  <1>3. PICK flushed \in SUBSET (snoozed \cup later) :
           /\ queue' = queue \o Sections(urgent) \o Sections(flushed)
           /\ snoozed' = (snoozed \cup later) \ flushed
    <2>1. PICK flush \in BOOLEAN :
             /\ queue' = queue \o Sections(urgent)
                              \o Sections(IF flush THEN snoozed \cup later ELSE {})
             /\ snoozed' = IF flush THEN {} ELSE snoozed \cup later
      BY Zenon DEF MonitorRoute
    <2> HIDE DEF urgent, later
    <2>2. CASE flush
      BY <2>1, <2>2
    <2>3. CASE ~flush
      BY <2>1, <2>3
    <2> QED BY <2>2, <2>3
  <1>4. UNCHANGED <<created, pending, current, arrived, phase, inFlight, undelivered, corrected,
                    delivered, toolCleared>>
    BY DEF MonitorRoute
  <1>5. /\ urgent \subseteq kept /\ later \subseteq kept /\ urgent \cap later = {}
        /\ trash \subseteq Fresh /\ kept \subseteq Fresh /\ trash \cap kept = {}
    OBVIOUS
  <1>6. /\ Fresh \subseteq OnDisk /\ Fresh \subseteq loaded
        /\ \A m \in Fresh : m[1] \notin queuedPaths
    BY <1>1, <1>2 DEF WaitingOnDisk, Fresh
  <1> HIDE DEF chosen, trash, urgent, later, kept
  <1>7. Fresh \cap (Waiting \cup Content(inFlight)) = {}
    <2>1. \A m \in Waiting : m[1] \in queuedPaths
      BY <1>1 DEF WaitingKnown, PathsOf
    <2>2. \A m \in Content(inFlight) : m[1] \in queuedPaths
      BY <1>1 DEF WaitingKnown, Content
    <2> QED BY <1>6, <2>1, <2>2
  <1>8. urgent \in SUBSET Msg /\ flushed \in SUBSET Msg
    BY <1>5, <1>6 DEF TypeOK
  <1>9. /\ SeqMsgs(queue') = SeqMsgs(queue) \cup urgent \cup flushed
        /\ Apart(queue')
    <2>1. /\ Sections(urgent) \in Seq(Turn) /\ SeqMsgs(Sections(urgent)) = urgent
          /\ Apart(Sections(urgent))
          /\ Sections(flushed) \in Seq(Turn) /\ SeqMsgs(Sections(flushed)) = flushed
          /\ Apart(Sections(flushed))
      BY <1>8, SectionsSplit
    <2>2. queue \in Seq(Turn) /\ Apart(queue)
      BY <1>1 DEF TypeOK, HeldOnce
    <2>3. /\ SeqMsgs(queue) \cap urgent = {}
          /\ (SeqMsgs(queue) \cup urgent) \cap flushed = {}
      BY <1>1, <1>3, <1>5, <1>7 DEF Waiting, HeldOnce
    <2>4. /\ queue \o Sections(urgent) \in Seq(Turn)
          /\ SeqMsgs(queue \o Sections(urgent)) = SeqMsgs(queue) \cup urgent
          /\ Apart(queue \o Sections(urgent))
      BY <2>1, <2>2, <2>3, SeqMsgsConcat
    <2>5. SeqMsgs(queue') = SeqMsgs(queue) \cup urgent \cup flushed
      BY <1>3, <2>1, <2>4, SeqMsgsConcat
    <2>6. Apart(queue')
      BY <1>3, <2>1, <2>3, <2>4, SeqMsgsConcat
    <2> QED BY <2>5, <2>6
  <1>10. Content(PathsOf(trash)) = trash /\ OnDisk' = OnDisk \ trash
         /\ Content(inFlight)' = Content(inFlight)
    <2>1. trash \subseteq Content(files)
      BY <1>5, <1>6 DEF OnDisk
    <2> QED BY <2>1, <1>2, <1>4, ContentOfPaths, ContentFixed, ContentAlgebra DEF OnDisk
  <1>11. Waiting' \subseteq Waiting \cup kept
    BY <1>3, <1>4, <1>5, <1>9 DEF Waiting
  <1>12. WaitingOnDisk'
    BY <1>1, <1>2, <1>5, <1>6, <1>7, <1>10, <1>11 DEF WaitingOnDisk
  <1>13. HeldOnce'
    BY <1>1, <1>3, <1>4, <1>5, <1>7, <1>9, <1>10 DEF HeldOnce, Waiting
  <1>14. WaitingKnown'
    <2>1. PathsOf(Waiting)' \subseteq PathsOf(Waiting) \cup PathsOf(kept)
      BY <1>11 DEF PathsOf
    <2>2. PathsOf(kept) \subseteq PathsOf(loaded) /\ PathsOf(loaded)' = {}
      BY <1>2, <1>5, <1>6 DEF PathsOf
    <2> QED BY <1>1, <1>2, <1>4, <2>1, <2>2 DEF WaitingKnown
  <1>15. TurnAccounted'
    BY <1>1, <1>2, <1>4, <1>10 DEF TurnAccounted, Settled
  <1> QED BY <1>12, <1>13, <1>14, <1>15 DEF Custody

\* Nothing is held before the first boot.
LEMMA CustodyInit == Init => Custody
  <1> SUFFICES ASSUME Init PROVE Custody
    OBVIOUS
  <1>1. /\ queue = <<>> /\ pending = <<>> /\ arrived = <<>> /\ snoozed = {} /\ inFlight = {}
        /\ queuedPaths = {} /\ loaded = {} /\ scanning = FALSE /\ current = NoTurn /\ phase = "down"
    BY DEF Init
  <1>2. Content(inFlight) = {} /\ SeqMsgs(<<>>) = {} /\ Apart(<<>>) /\ NoTurn.msgs = {}
    BY <1>1, SeqMsgsSmall DEF Content, NoTurn
  <1>3. Waiting = {} /\ PathsOf(Waiting) = {} /\ PathsOf(loaded) = {}
    BY <1>1, <1>2 DEF Waiting, PathsOf
  <1> QED
    BY <1>1, <1>2, <1>3 DEF Custody, WaitingOnDisk, WaitingKnown, HeldOnce, TurnAccounted

\* Every step keeps Custody.
LEMMA CustodyNext == TypeOK /\ Custody /\ [Next]_vars => Custody'
  <1> SUFFICES ASSUME TypeOK, Custody, [Next]_vars PROVE Custody'
    OBVIOUS
  <1>1. CASE UNCHANGED vars
    <2>1. UNCHANGED <<files, created, queuedPaths, scanning, loaded, snoozed, queue, pending,
                      arrived, inFlight>>
      BY <1>1 DEF vars, dir, mon, proc, turn
    <2>2. WaitingOnDisk' /\ WaitingKnown' /\ HeldOnce'
      BY <2>1, WaitingUntouched DEF Custody
    <2>3. TurnAccounted'
      BY <1>1, <2>1, ContentFixed DEF Custody, TurnAccounted, Settled, vars, proc, turn, hist
    <2> QED BY <2>2, <2>3 DEF Custody
  <1>2. ASSUME NEW got \in BOOLEAN, MainShutdown(got) \/ Kill(got) PROVE Gone(got)
    BY <1>2 DEF MainShutdown, Kill
  <1>3. CASE Process
    BY <1>2, <1>3, CustodyQuiet, CustodyProcess DEF Process
  <1>4. CASE Cli
    BY <1>4, CustodyQuiet, CustodyClears DEF Cli
  <1>5. CASE Watcher
    BY <1>5, CustodyMoves, CustodyClears DEF Watcher
  <1>6. CASE Processor
    BY <1>6, CustodyQuiet, CustodyMoves, CustodyClears DEF Processor
  <1>7. CASE Monitor
    BY <1>7, CustodyQuiet, CustodyFiles, CustodyRoute DEF Monitor
  <1>8. CASE \E p \in Paths : Write(p)
    BY <1>8, CustodyFiles
  <1> QED BY <1>1, <1>3, <1>4, <1>5, <1>6, <1>7, <1>8 DEF Next

\* Every notification in the process's care is on disk, waits in one place only
\* and is known to the monitor, whatever fails and whenever.
THEOREM CustodyHolds == Spec => []Custody
  BY TypeInit, TypeNext, CustodyInit, CustodyNext, PTL DEF Spec

----------------------------------------------------------------------------
(* The mailbox.                                                             *)

\* While no file is created: what leaves the disk is settled, what is settled
\* was on disk.
LEMMA MailboxKeeps ==
    ASSUME TypeOK, created' = created, files' \subseteq files, Settled \subseteq Settled',
           Settled' \ Settled \subseteq OnDisk, OnDisk \ OnDisk' \subseteq Settled'
    PROVE  MB!MNext
  <1>1. Written' = Written /\ OnDisk' \subseteq OnDisk
    <2>1. Content(files') \subseteq Content(files)
      BY ContentAlgebra
    <2> QED BY <2>1, ContentFixed DEF OnDisk
  <1>2. Written \subseteq Msg
    <2>1. ASSUME NEW p \in Paths, NEW n \in 1..created[p] PROVE <<p, n>> \in Msg
      BY DEF Msg, TypeOK
    <2> QED BY <2>1 DEF Written
  <1> QED BY <1>1, <1>2 DEF MB!MNext

\* New files are new messages, and wait.
LEMMA MailboxGrows ==
    ASSUME TypeOK, TypeOK', NEW drops \in SUBSET Paths, drops \cap files = {},
           created' = [p \in Paths |-> IF p \in drops THEN created[p] + 1 ELSE created[p]],
           NEW bad, bad \in SUBSET (files \cap Malformed), files' = (files \cup drops) \ bad,
           Settled' = Settled \cup Content(bad)
    PROVE  MB!MNext
  <1> DEFINE new == {<<p, created[p] + 1>> : p \in drops}
  <1>1. created \in [Paths -> Nat] /\ created' \in [Paths -> Nat] /\ files \subseteq Paths
    BY DEF TypeOK
  <1>2. Written' = Written \cup new
    <2>1. ASSUME NEW m \in Written' PROVE m \in Written \cup new
      <3>1. PICK p \in Paths : \E n \in 1..created'[p] : m = <<p, n>>
        BY <2>1 DEF Written
      <3>4. PICK n \in 1..created'[p] : m = <<p, n>>
        BY <3>1
      <3>2. CASE n \in 1..created[p]
        BY <3>4, <3>2 DEF Written
      <3>3. CASE n \notin 1..created[p]
        <4>1. p \in drops /\ n = created[p] + 1
          BY <1>1, <3>4, <3>3
        <4> QED BY <3>4, <4>1
      <3> QED BY <3>2, <3>3
    <2>2. ASSUME NEW p \in Paths, NEW n \in 1..created[p] PROVE <<p, n>> \in Written'
      <3>1. n \in 1..created'[p]
        BY <1>1
      <3> QED BY <3>1 DEF Written
    <2>3. Written \subseteq Written'
      BY <2>2 DEF Written
    <2>4. ASSUME NEW p \in drops PROVE <<p, created[p] + 1>> \in Written'
      <3>1. created[p] + 1 \in 1..created'[p]
        BY <1>1
      <3> QED BY <3>1 DEF Written
    <2>5. new \subseteq Written'
      BY <2>4
    <2> QED BY <2>1, <2>3, <2>5
  <1>3. new \cap Written = {}
    <2>1. ASSUME NEW p \in drops PROVE <<p, created[p] + 1>> \notin Written
      BY <1>1 DEF Written
    <2> QED BY <2>1
  <1>4. Content(bad) \subseteq OnDisk
    BY ContentAlgebra DEF OnDisk
  <1>5. OnDisk' = (OnDisk \ Content(bad)) \cup new
    <2>1. OnDisk' = {<<p, created'[p]>> : p \in files'}
      BY DEF OnDisk, Content
    <2>2. ASSUME NEW p \in files' PROVE <<p, created'[p]>> \in (OnDisk \ Content(bad)) \cup new
      <3>1. CASE p \in drops
        BY <3>1
      <3>2. CASE p \notin drops
        <4>1. p \in files /\ p \notin bad /\ created'[p] = created[p]
          BY <1>1, <3>2
        <4> QED BY <4>1 DEF OnDisk, Content
      <3> QED BY <3>1, <3>2
    <2>3. OnDisk \ Content(bad) \subseteq OnDisk'
      <3>1. ASSUME NEW p \in files, p \notin bad PROVE <<p, created[p]>> \in OnDisk'
        <4>1. p \in files' /\ created'[p] = created[p]
          BY <1>1, <3>1
        <4> QED BY <2>1, <4>1
      <3> QED BY <3>1 DEF OnDisk, Content
    <2>4. new \subseteq OnDisk'
      <3>1. ASSUME NEW p \in drops PROVE <<p, created[p] + 1>> \in OnDisk'
        <4>1. p \in files' /\ created'[p] = created[p] + 1
          BY <1>1
        <4> QED BY <2>1, <4>1
      <3> QED BY <3>1
    <2>5. OnDisk' \subseteq (OnDisk \ Content(bad)) \cup new
      BY <2>1, <2>2
    <2> HIDE DEF new
    <2> QED BY <2>3, <2>4, <2>5
  <1>6. Written' \subseteq Msg
    BY <1>1 DEF Written, Msg
  <1> HIDE DEF new
  <1> QED BY <1>2, <1>3, <1>4, <1>5, <1>6 DEF MB!MNext

\* The disk and the record of what was settled, step by step.
LEMMA MailboxStep == TypeOK /\ TypeOK' /\ Custody /\ [Next]_vars => [MB!MNext]_(MB!mailbox)
  <1> SUFFICES ASSUME TypeOK, TypeOK', Custody, [Next]_vars PROVE [MB!MNext]_(MB!mailbox)
    OBVIOUS
  <1> USE DEF dir, mon, proc, turn, node, cli, hist
  <1>1. WaitingOnDisk /\ TurnAccounted
    BY DEF Custody
  <1>2. ASSUME UNCHANGED <<files, created, delivered, discarded, toolCleared>>
        PROVE  UNCHANGED MB!mailbox
    BY <1>2 DEF MB!mailbox, Written, OnDisk, Content, Settled
  <1>3. ASSUME UNCHANGED <<files, created, discarded, toolCleared>>,
               NEW ms, ms \subseteq OnDisk \cup Settled, delivered' = delivered \cup ms
        PROVE  MB!MNext
    <2>1. OnDisk' = OnDisk
      BY <1>3, ContentFixed DEF OnDisk
    <2>2. Settled' = Settled \cup ms
      BY <1>3 DEF Settled
    <2> QED BY <1>3, <2>1, <2>2, MailboxKeeps
  <1>4. current.msgs \subseteq OnDisk \cup Settled
    BY <1>1 DEF TurnAccounted, WaitingOnDisk
  <1>5. arrived # <<>> => arrived[1].msgs \subseteq OnDisk /\ SeqMsgs(arrived) = arrived[1].msgs
    <2>1. arrived # <<>> => SeqMsgs(arrived) = arrived[1].msgs
      BY SeqMsgsOne DEF TypeOK
    <2> QED BY <1>1, <2>1 DEF WaitingOnDisk, Waiting
  <1>6. ASSUME NEW p \in Paths, Write(p) PROVE MB!MNext
    <2>1. /\ {p} \cap files = {} /\ files' = (files \cup {p}) \ {}
          /\ created' = [q \in Paths |-> IF q \in {p} THEN created[q] + 1 ELSE created[q]]
          /\ Settled' = Settled
      BY <1>6 DEF Write, TypeOK, Settled
    <2>2. {} \in SUBSET (files \cap Malformed) /\ Settled' = Settled \cup Content({})
      BY <2>1 DEF Content
    <2> QED BY <2>1, <2>2, MailboxGrows
  <1>7. ASSUME NEW drops \in SUBSET (Dream \cup Proactive), MonitorTick(drops) PROVE MB!MNext
    <2>1. drops \in SUBSET Paths /\ drops \cap Malformed = {}
      BY PathsAssumption
    <2>2. /\ drops \cap files = {} /\ files' = (files \cup drops) \ (files \cap Malformed)
          /\ created' = [q \in Paths |-> IF q \in drops THEN created[q] + 1 ELSE created[q]]
      BY <1>7, <2>1 DEF MonitorTick, MayDrop
    <2>3. Settled' = Settled \cup Content(files \cap Malformed)
      <3>1. (files \cup drops) \cap Malformed = files \cap Malformed
        BY <2>1
      <3> QED BY <1>7, <3>1 DEF MonitorTick, Settled
    <2> QED BY <2>1, <2>2, <2>3, MailboxGrows
  <1>8. ASSUME NEW route, MonitorRoute(route) PROVE MB!MNext
    <2> DEFINE trash == {m \in Fresh : route[m[1]] = "trash"}
    <2>1. /\ files' = files \ PathsOf(trash) /\ discarded' = discarded \cup trash
          /\ UNCHANGED <<created, delivered, toolCleared>> /\ scanning
      BY <1>8 DEF MonitorRoute
    <2>2. trash \subseteq OnDisk
      BY <1>1, <2>1 DEF WaitingOnDisk
    <2> HIDE DEF trash
    <2>3. OnDisk' = OnDisk \ trash
      BY <2>1, <2>2, ContentFixed, ContentOfPaths, ContentAlgebra DEF OnDisk
    <2>4. Settled' = Settled \cup trash
      BY <2>1 DEF Settled
    <2> QED BY <2>1, <2>2, <2>3, <2>4, MailboxKeeps
  <1>9. CASE QueryDelivered
    <2>1. PICK ms \in {{}, current.msgs} : delivered' = delivered \cup ms
      BY <1>9 DEF QueryDelivered, Deliver
    <2>2. UNCHANGED <<files, created, discarded, toolCleared>>
      BY <1>9 DEF QueryDelivered
    <2> QED BY <1>3, <1>4, <2>1, <2>2
  <1>10. ASSUME NEW got \in BOOLEAN, QueryFails(got) PROVE MB!MNext
    <2>1. PICK ms \in {{}, current.msgs} : delivered' = delivered \cup ms
      BY <1>10 DEF QueryFails, Deliver
    <2>2. UNCHANGED <<files, created, discarded, toolCleared>>
      BY <1>10 DEF QueryFails
    <2> QED BY <1>3, <1>4, <2>1, <2>2
  <1>11. CASE PostTurn
    <2>1. UNCHANGED <<created, delivered, discarded, toolCleared>> /\ Settled' = Settled
      BY <1>11 DEF PostTurn, Settled
    <2>2. CASE KeepsFiles
      BY <1>2, <1>11, <2>1, <2>2 DEF PostTurn, Clear
    <2>3. CASE ~KeepsFiles
      <3>1. files' = files \ inFlight
        BY <1>11, <2>3 DEF PostTurn, Clear
      <3>2. current.msgs \subseteq delivered /\ Content(inFlight) \subseteq current.msgs
        BY <1>1, <1>11, <2>3 DEF PostTurn, KeepsFiles, TurnAccounted
      <3>3. OnDisk' = OnDisk \ Content(inFlight)
        BY <2>1, <3>1, ContentFixed, ContentAlgebra DEF OnDisk
      <3> QED BY <2>1, <3>1, <3>2, <3>3, MailboxKeeps DEF Settled
    <2> QED BY <2>2, <2>3
  <1>12. CASE PreemptDelivered
    <2>1. /\ files' = files \ PathsOf(arrived[1].msgs) /\ arrived # <<>>
          /\ UNCHANGED <<created, discarded, toolCleared>>
          /\ delivered' = delivered \cup arrived[1].msgs
      BY <1>12 DEF PreemptDelivered, Clear, Deliver
    <2>2. OnDisk' = OnDisk \ arrived[1].msgs
      BY <1>5, <2>1, ContentFixed, ContentOfPaths, ContentAlgebra DEF OnDisk
    <2>3. Settled' = Settled \cup arrived[1].msgs
      BY <2>1 DEF Settled
    <2> QED BY <1>5, <2>1, <2>2, <2>3, MailboxKeeps
  <1>13. ASSUME NEW got \in BOOLEAN, PreemptFails(got) PROVE MB!MNext
    <2>1. /\ arrived # <<>> /\ UNCHANGED <<files, created, discarded, toolCleared>>
          /\ delivered' = delivered \cup (IF got THEN arrived[1].msgs ELSE {})
      BY <1>13 DEF PreemptFails, Deliver
    <2> QED BY <1>3, <1>5, <2>1
  <1>14. CASE LifecycleTool
    <2>1. /\ files' = files \ inFlight /\ UNCHANGED <<created, delivered, discarded>>
          /\ toolCleared' = toolCleared \cup (Content(inFlight) \ delivered)
      BY <1>14 DEF LifecycleTool, Clear
    <2>2. OnDisk' = OnDisk \ Content(inFlight) /\ Content(inFlight) \subseteq OnDisk
      BY <1>1, <2>1, ContentFixed, ContentAlgebra DEF OnDisk, WaitingOnDisk
    <2>3. Settled' = Settled \cup Content(inFlight)
      BY <2>1 DEF Settled
    <2> QED BY <2>1, <2>2, <2>3, MailboxKeeps
  <1>15. ASSUME NEW got \in BOOLEAN, Gone(got) PROVE MB!MNext
    <2>1. /\ UNCHANGED <<files, created, discarded, toolCleared>>
          /\ delivered' = delivered \cup (IF got THEN InWrite ELSE {})
      BY <1>15 DEF Gone
    <2>2. InWrite \subseteq OnDisk \cup Settled
      BY <1>4, <1>5 DEF InWrite
    <2> QED BY <1>3, <2>1, <2>2
  <1>16. ASSUME \/ OpenSession \/ SessionFails \/ TakeTurn \/ PutBack \/ Spin \/ DeferTurn
                \/ StartTurn \/ BatchDone \/ TurnFails \/ FailureSaved \/ TurnCloses \/ DashCorrection \/ TurnEnds
                \/ WatcherSends \/ WatcherQueues \/ SecondSignal
                \/ CliStarts \/ CliMessage \/ CliCompacts \/ AuthLost \/ SignOut \/ SignIn \/ Sigterm
                \/ ClientConnects
                \/ \E answers \in 1..cliWork : CliResult(answers)
                \/ \E signedIn \in BOOLEAN, batch \in BootBatches : Boot(signedIn, batch)
         PROVE  UNCHANGED <<files, created, delivered, discarded, toolCleared>>
    BY <1>16 DEF OpenSession, SessionFails, TakeTurn, PutBack, Spin, DeferTurn, StartTurn,
       BatchDone, TurnFails, FailureSaved, TurnCloses, DashCorrection, TurnEnds, WatcherSends, WatcherQueues,
       SecondSignal, CliStarts, CliMessage, CliCompacts, AuthLost, SignOut, SignIn, Sigterm,
       ClientConnects, CliResult, Boot
  <1>17. CASE UNCHANGED vars
    BY <1>2, <1>17 DEF vars
  <1>18. CASE Monitor
    BY <1>2, <1>7, <1>8, <1>16, <1>18 DEF Monitor
  <1>19. CASE Processor
    BY <1>2, <1>9, <1>10, <1>11, <1>16, <1>19 DEF Processor
  <1>20. CASE Watcher
    BY <1>2, <1>12, <1>13, <1>16, <1>20 DEF Watcher
  <1>21. CASE Cli
    BY <1>2, <1>14, <1>16, <1>21 DEF Cli
  <1>22. CASE Process
    BY <1>2, <1>15, <1>16, <1>22 DEF Process, MainShutdown, Kill
  <1> QED BY <1>6, <1>17, <1>18, <1>19, <1>20, <1>21, <1>22 DEF Next

\* Initially the mailbox is empty.
LEMMA MailboxInit == Init => MB!MInit
  BY DEF Init, MB!MInit, Written, OnDisk, Content, Settled

\* The turn engine implements the at-least-once mailbox: a notification leaves
\* the disk only once it is handed to the CLI, discarded or removed by a
\* restart tool, and nothing is handed over that was not dropped.
THEOREM ImplementsMailbox == Spec => MailboxSpec
  <1>1. TypeOK /\ Custody /\ [Next]_vars => TypeOK' /\ Custody'
    BY TypeNext, CustodyNext
  <1> QED
    BY TypeInit, CustodyInit, MailboxInit, MailboxStep, <1>1, PTL DEF Spec, MailboxSpec, MB!MSpec

\* No notification is lost: not by a crash, a failed send, a sign-out or a preempt.
THEOREM NothingIsLost == Spec => []NothingLost
  <1>1. Init => NothingLost
    BY MailboxInit DEF NothingLost, MB!MInit
  <1>2. NothingLost /\ [MB!MNext]_(MB!mailbox) => NothingLost'
    BY DEF NothingLost, MB!MNext, MB!mailbox
  <1>3. TypeOK /\ Custody /\ [Next]_vars => TypeOK' /\ Custody'
    BY TypeNext, CustodyNext
  <1> QED
    BY TypeInit, CustodyInit, MailboxStep, <1>1, <1>2, <1>3, PTL DEF Spec
=============================================================================
