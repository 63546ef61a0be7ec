--------------------------- MODULE SyncFeedProofs ---------------------------
(***************************************************************************)
(* The feed of pending notifications, for any agents, notifications,       *)
(* limits and faults: a live tap leaves no gap, and no ghost of a file     *)
(* that parsed (HubTracksAgent), a client that has read the frames under   *)
(* way has the rows sent last (ReplicaMirrorsSent), and with none under    *)
(* way it shows what the hub holds (SteadyAgree).                          *)
(*                                                                         *)
(* What a queue of events, or of frames, amounts to is decided by the last *)
(* of its elements that speaks of a matter: the invariants say what that   *)
(* element may be, so no induction over the queue is needed.               *)
(***************************************************************************)
EXTENDS SyncFeed, TLAPS, FiniteSetTheorems, FunctionTheorems, WellFoundedInduction

----------------------------------------------------------------------------
(* The inductive invariants.                                                *)

\* The last element of w in M is f; no element of w is in M.
LastIn(w, M, f) == \E i \in 1..Len(w) : /\ w[i] = f /\ f \in M
                                        /\ \A j \in 1..Len(w) : j > i => w[j] \notin M
NoneIn(w, M) == \A i \in 1..Len(w) : w[i] \notin M

\* What a hub may hold.
Pendings == Partial(Agents, SUBSET Ids)

NoteEvent == [kind : {"added", "cleared"}, id : Ids]

\* The types of the state, part by part.  A queue that is not evicted holds
\* only events about notifications.
AgentShape ==
    /\ container \in [Agents -> {"gone", "stopped", "running"}]
    /\ disk \in [Agents -> SUBSET Ids] /\ told \in [Agents -> SUBSET Ids]
    /\ tap \in [Agents -> {"none", "dialing", "seeding", "sent", "live", "broken"}]
    /\ snap \in [Agents -> SUBSET Ids]
SubShape ==
    /\ sub \in [Agents -> Seq(Event)]
    /\ \A a \in Agents : Len(sub[a]) <= SubMax /\ (Evicted(sub[a]) \/ sub[a] \in Seq(NoteEvent))
HubShape == hub \in Pendings
SessionShape ==
    /\ agents \in Partial(Agents, Statuses)
    /\ sess \in {"down", "subscribed", "ready"} /\ bumped \in BOOLEAN
    /\ lastRoster \in Partial(Agents, Statuses)
    /\ lastPending \in Pendings
CountShape ==
    /\ {gateway, lastGateway, changes} \subseteq 0 .. MaxChanges /\ gateway <= changes
    /\ faults \in 0 .. MaxFaults
WireShape == wire \in Seq(Frame) /\ tree \in Tree
Shape == AgentShape /\ SubShape /\ HubShape /\ SessionShape /\ CountShape /\ WireShape

\* The events about x.
About(x) == [kind : {"added", "cleared"}, id : {x}]

\* Of the notifications no event under way speaks of, the set B holds every
\* announced one and no parseable one that is gone.
Level(a, B) == \A x \in Ids : NoneIn(sub[a], About(x)) =>
                   (x \in told[a] => x \in B) /\ (x \in B => x \in disk[a] \cup Malformed)

\* The tap of a: the last event about a notification says whether it is still
\* announced; the rest is right in the listing, and then in the hub.
Feed(a) ==
    /\ told[a] \subseteq disk[a] \ Malformed
    /\ Subscribed(a) /\ ~Evicted(sub[a]) =>
         /\ \A x \in Ids : \A e : LastIn(sub[a], About(x), e) => (e.kind = "added" <=> x \in told[a])
         /\ tap[a] = "sent" => Level(a, snap[a])
         /\ tap[a] = "live" => a \in DOMAIN hub /\ Level(a, hub[a])

Feeds == \A a \in Agents : Feed(a)

\* The frames that say what the gateway branch, or the row of a, is; and what.
GateFrames  == {f \in Frame : f.type \in {"snapshot", "state"}}
GateSaid(f) == IF f.type = "snapshot" THEN f.tree.gateway ELSE f.value
RowFrames(a)  == {f \in Frame : f.type = "snapshot" \/ (f.type \in {"agent", "agent_removed"} /\ f.name = a)}
RowOf(nodes, a) == IF a \in DOMAIN nodes THEN {nodes[a].info} ELSE {}
RowSaid(f, a) == IF f.type = "snapshot" THEN RowOf(f.tree.agents, a)
                 ELSE IF f.type = "agent" THEN {f.info} ELSE {}
SentRow(a) == IF a \in DOMAIN lastRoster THEN {lastRoster[a]} ELSE {}

\* The session and the client agree on the rows and the gateway branch.
Mirror ==
    sess = "ready" =>
        /\ \A f : LastIn(wire, GateFrames, f) => GateSaid(f) = lastGateway
        /\ NoneIn(wire, GateFrames) => tree.gateway = lastGateway
        /\ \A a \in Agents :
             /\ \A f : LastIn(wire, RowFrames(a), f) => RowSaid(f, a) = SentRow(a)
             /\ NoneIn(wire, RowFrames(a)) => RowOf(tree.agents, a) = SentRow(a)

\* The frames that say what is pending at a, and what.
PendFrames(a) == {f \in Frame : f.type = "snapshot" \/ (f.type = "agent_notifications" /\ f.name = a)}
PendSaid(f, a) == IF f.type = "snapshot" THEN f.tree.agents[a].pending ELSE f.pending

\* The snapshots, and the frames after which the client has no row of a.
SnapFrames == {f \in Frame : f.type = "snapshot"}
Drops(f, a) == \/ f.type = "snapshot" /\ a \notin DOMAIN f.tree.agents
               \/ f.type = "agent_removed" /\ f.name = a
DropFrames(a) == {f \in Frame : Drops(f, a)}

\* An agent that runs throughout stays on every roster, in the hub once it is
\* there, and on the screen once a snapshot is read.
Stays(a) ==
    /\ container[a] = "running" /\ a \in DOMAIN agents
    /\ sess # "down" => a \in DOMAIN lastRoster
    /\ sess = "ready" => /\ a \in DOMAIN lastPending => a \in DOMAIN hub
                         /\ NoneIn(wire, DropFrames(a))
                         /\ NoneIn(wire, SnapFrames) => a \in DOMAIN tree.agents

\* The session and the client agree on what is pending at a, and the session
\* knows when the hub holds something else.
Agree(a) ==
    sess = "ready" =>
        /\ \A f : LastIn(wire, PendFrames(a), f) => PendSaid(f, a) = At(lastPending, a)
        /\ NoneIn(wire, PendFrames(a)) => tree.agents[a].pending = At(lastPending, a)
        /\ ~bumped => At(hub, a) = At(lastPending, a)

Steadies == \A a \in Steady : Stays(a) /\ Agree(a)

\* The trees r the client goes through as it reads the frames under way.
Reads(r) ==
    /\ \A i \in 0 .. Len(wire) : r[i] \in Tree
    /\ r[0] = tree
    /\ \A i \in 1 .. Len(wire) : r[i] = Reduce(r[i - 1], wire[i])

----------------------------------------------------------------------------
(* Sequences.                                                               *)

\* A sequence without its head, and its last element in a set.
LEMMA LastTail ==
    ASSUME NEW S, NEW w \in Seq(S), w # <<>>, NEW M
    PROVE  /\ Head(w) \in S /\ Tail(w) \in Seq(S) /\ Len(Tail(w)) = Len(w) - 1
           /\ Len(w) \in Nat \ {0} /\ Head(w) = w[1]
           /\ \A i \in 1..Len(Tail(w)) : Tail(w)[i] = w[i + 1] /\ i + 1 \in 2..Len(w)
           /\ NoneIn(w, M) <=> Head(w) \notin M /\ NoneIn(Tail(w), M)
           /\ \A f : LastIn(w, M, f) <=> \/ LastIn(Tail(w), M, f)
                                         \/ NoneIn(Tail(w), M) /\ f = Head(w) /\ f \in M
  <1> DEFINE t == Tail(w)
  <1>1. /\ Head(w) = w[1] /\ Head(w) \in S /\ t \in Seq(S) /\ Len(w) \in Nat \ {0}
        /\ Len(t) = Len(w) - 1
        /\ \A i \in 1..Len(t) : t[i] = w[i + 1] /\ i + 1 \in 2..Len(w)
    OBVIOUS
  <1>2. \A i \in 2..Len(w) : i - 1 \in 1..Len(t) /\ t[i - 1] = w[i]
    BY <1>1
  <1> HIDE DEF t
  <1>3. NoneIn(w, M) <=> Head(w) \notin M /\ NoneIn(t, M)
    <2>1. ASSUME NoneIn(w, M) PROVE Head(w) \notin M /\ NoneIn(t, M)
      <3>1. \A i \in 1..Len(w) : w[i] \notin M
        BY <2>1 DEF NoneIn
      <3>2. \A i \in 1..Len(t) : t[i] \notin M
        BY <1>1, <3>1
      <3>3. 1 \in 1..Len(w)
        BY <1>1
      <3> QED BY <1>1, <3>1, <3>2, <3>3 DEF NoneIn
    <2>2. ASSUME Head(w) \notin M, NoneIn(t, M), NEW i \in 1..Len(w) PROVE w[i] \notin M
      <3>1. CASE i = 1
        BY <1>1, <2>2, <3>1
      <3>2. CASE i # 1
        BY <1>1, <1>2, <2>2, <3>2 DEF NoneIn
      <3> QED BY <3>1, <3>2
    <2> QED BY <2>1, <2>2 DEF NoneIn
  <1>4. ASSUME NEW f, LastIn(t, M, f) PROVE LastIn(w, M, f)
    <2>1. PICK i \in 1..Len(t) : t[i] = f /\ f \in M /\ \A j \in 1..Len(t) : j > i => t[j] \notin M
      BY <1>4 DEF LastIn
    <2>2. i + 1 \in 1..Len(w) /\ w[i + 1] = f
      BY <1>1, <2>1
    <2>3. ASSUME NEW j \in 1..Len(w), j > i + 1 PROVE w[j] \notin M
      <3>1. j \in 2..Len(w) /\ j - 1 > i
        BY <1>1, <2>3
      <3>2. j - 1 \in 1..Len(t) /\ t[j - 1] = w[j]
        BY <1>2, <3>1
      <3> QED BY <2>1, <3>1, <3>2
    <2> QED BY <2>1, <2>2, <2>3 DEF LastIn
  <1>5. ASSUME NEW f, NoneIn(t, M), f = Head(w), f \in M PROVE LastIn(w, M, f)
    <2>1. 1 \in 1..Len(w) /\ w[1] = f
      BY <1>1, <1>5
    <2>2. ASSUME NEW j \in 1..Len(w), j > 1 PROVE w[j] \notin M
      BY <1>1, <1>2, <1>5, <2>2 DEF NoneIn
    <2> QED BY <1>5, <2>1, <2>2 DEF LastIn
  <1>6. ASSUME NEW f, LastIn(w, M, f)
        PROVE  LastIn(t, M, f) \/ (NoneIn(t, M) /\ f = Head(w) /\ f \in M)
    <2>1. PICK i \in 1..Len(w) : w[i] = f /\ f \in M /\ \A j \in 1..Len(w) : j > i => w[j] \notin M
      BY <1>6 DEF LastIn
    <2>2. CASE i = 1
      BY <1>1, <2>1, <2>2 DEF NoneIn
    <2>3. CASE i # 1
      <3>1. i - 1 \in 1..Len(t) /\ t[i - 1] = f
        BY <1>1, <1>2, <2>1, <2>3
      <3>2. ASSUME NEW j \in 1..Len(t), j > i - 1 PROVE t[j] \notin M
        BY <1>1, <2>1, <3>2
      <3> QED BY <2>1, <3>1, <3>2 DEF LastIn
    <2> QED BY <2>2, <2>3
  <1> QED BY <1>1, <1>3, <1>4, <1>5, <1>6 DEF t

\* Two sequences, one after the other.
LEMMA LastConcat ==
    ASSUME NEW S, NEW w \in Seq(S), NEW v \in Seq(S), NEW M
    PROVE  /\ w \o v \in Seq(S)
           /\ NoneIn(w \o v, M) <=> NoneIn(w, M) /\ NoneIn(v, M)
           /\ \A f : LastIn(w \o v, M, f) => \/ LastIn(v, M, f)
                                             \/ NoneIn(v, M) /\ LastIn(w, M, f)
  <1> DEFINE c == w \o v
  <1>1. /\ c \in Seq(S) /\ Len(w) \in Nat /\ Len(v) \in Nat /\ Len(c) = Len(w) + Len(v)
        /\ \A i \in 1..Len(w) : c[i] = w[i] /\ i \in 1..Len(c)
        /\ \A i \in 1..Len(v) : c[Len(w) + i] = v[i] /\ Len(w) + i \in 1..Len(c)
    OBVIOUS
  <1>2. \A i \in 1..Len(c) : i \in 1..Len(w) \/ (i - Len(w) \in 1..Len(v) /\ c[i] = v[i - Len(w)])
    BY <1>1
  <1> HIDE DEF c
  <1>3. NoneIn(c, M) <=> NoneIn(w, M) /\ NoneIn(v, M)
    <2>1. NoneIn(c, M) => NoneIn(w, M) /\ NoneIn(v, M)
      BY <1>1 DEF NoneIn
    <2>2. NoneIn(w, M) /\ NoneIn(v, M) => NoneIn(c, M)
      BY <1>1, <1>2 DEF NoneIn
    <2> QED BY <2>1, <2>2
  <1>4. ASSUME NEW f, LastIn(c, M, f) PROVE LastIn(v, M, f) \/ (NoneIn(v, M) /\ LastIn(w, M, f))
    <2>1. PICK i \in 1..Len(c) : c[i] = f /\ f \in M /\ \A j \in 1..Len(c) : j > i => c[j] \notin M
      BY <1>4 DEF LastIn
    <2>2. CASE i \in 1..Len(w)
      <3>1. \A j \in 1..Len(v) : v[j] \notin M
        BY <1>1, <2>1, <2>2
      <3>2. \A j \in 1..Len(w) : j > i => w[j] \notin M
        BY <1>1, <2>1
      <3> QED BY <1>1, <2>1, <2>2, <3>1, <3>2 DEF LastIn, NoneIn
    <2>3. CASE i - Len(w) \in 1..Len(v) /\ c[i] = v[i - Len(w)]
      <3>1. ASSUME NEW j \in 1..Len(v), j > i - Len(w) PROVE v[j] \notin M
        BY <1>1, <2>1, <3>1
      <3> QED BY <2>1, <2>3, <3>1 DEF LastIn
    <2> QED BY <1>2, <2>2, <2>3
  <1> QED BY <1>1, <1>3, <1>4 DEF c

\* A sequence of one element, and the empty one.
LEMMA LastOne ==
    ASSUME NEW S, NEW e \in S, NEW M
    PROVE  /\ <<e>> \in Seq(S) /\ Len(<<e>>) = 1 /\ <<e>>[1] = e
           /\ NoneIn(<<e>>, M) <=> e \notin M
           /\ \A f : LastIn(<<e>>, M, f) <=> f = e /\ e \in M
  <1>1. <<e>> \in Seq(S) /\ Len(<<e>>) = 1 /\ <<e>>[1] = e
    OBVIOUS
  <1> QED BY <1>1 DEF LastIn, NoneIn

\* The empty sequence has no element to be the last one.
LEMMA LastEmpty ==
    ASSUME NEW S, NEW M
    PROVE  /\ <<>> \in Seq(S) /\ Len(<<>>) = 0 /\ NoneIn(<<>>, M)
           /\ \A f : ~LastIn(<<>>, M, f)
  <1>1. <<>> \in Seq(S) /\ Len(<<>>) = 0
    OBVIOUS
  <1> QED BY <1>1 DEF LastIn, NoneIn

\* An event joins a queue.
LEMMA LastAppend ==
    ASSUME NEW S, NEW w \in Seq(S), NEW e \in S, NEW M
    PROVE  /\ Append(w, e) \in Seq(S) /\ Len(Append(w, e)) = Len(w) + 1 /\ Len(w) \in Nat
           /\ \A i \in 1..Len(w) : Append(w, e)[i] = w[i]
           /\ Append(w, e)[Len(w) + 1] = e
           /\ NoneIn(Append(w, e), M) <=> NoneIn(w, M) /\ e \notin M
           /\ \A f : LastIn(Append(w, e), M, f) => \/ f = e /\ e \in M
                                                   \/ e \notin M /\ LastIn(w, M, f)
  <1>1. /\ Append(w, e) \in Seq(S) /\ Len(Append(w, e)) = Len(w) + 1 /\ Len(w) \in Nat
        /\ \A i \in 1..Len(w) : Append(w, e)[i] = w[i]
        /\ Append(w, e)[Len(w) + 1] = e
    OBVIOUS
  <1>2. Append(w, e) = w \o <<e>>
    OBVIOUS
  <1>3. /\ <<e>> \in Seq(S)
        /\ NoneIn(<<e>>, M) <=> e \notin M
        /\ \A f : LastIn(<<e>>, M, f) <=> f = e /\ e \in M
    BY LastOne
  <1> QED BY <1>1, <1>2, <1>3, LastConcat

\* The elements of a finite set in some order.
LEMMA SetToSeqIs ==
    ASSUME NEW S, IsFiniteSet(S)
    PROVE  /\ SetToSeq(S) \in Seq(S)
           /\ \A x \in S : \E i \in 1..Len(SetToSeq(S)) : SetToSeq(S)[i] = x
  <1> DEFINE n == Cardinality(S)
             q == SetToSeq(S)
  <1>1. n \in Nat /\ \E f \in [1..n -> S] : IsInjective(f)
    BY FS_CardinalityType, Fun_BijectionProperties DEF ExistsBijection, IsInjective
  <1>2. q \in [1..n -> S] /\ IsInjective(q)
    BY <1>1 DEF SetToSeq
  <1> HIDE DEF q
  <1>3. q \in Seq(S) /\ Len(q) = n
    BY <1>1, <1>2
  <1>4. q \in Injection(1..n, S)
    BY <1>2, Fun_IsInj DEF IsInjective
  <1>5. IsFiniteSet(1..n) /\ Cardinality(1..n) = n
    BY <1>1, FS_Interval
  <1>6. q \in Surjection(1..n, S)
    BY <1>4, <1>5, FS_Injection
  <1> QED BY <1>3, <1>6, Fun_SurjectionProperties DEF q

\* The last element in M of a set laid out in some order is one of the set.
LEMMA LastSetToSeq ==
    ASSUME NEW S, IsFiniteSet(S), NEW M
    PROVE  /\ NoneIn(SetToSeq(S), M) <=> S \cap M = {}
           /\ \A f : LastIn(SetToSeq(S), M, f) => f \in S /\ f \in M
  BY SetToSeqIs DEF LastIn, NoneIn

----------------------------------------------------------------------------
(* Partial functions.                                                       *)

\* A partial function from S to T is one from its domain, a part of S.
LEMMA PartialIs ==
    ASSUME NEW S, NEW T, NEW f
    PROVE  f \in Partial(S, T) <=> DOMAIN f \subseteq S /\ f \in [DOMAIN f -> T]
  BY DEF Partial

\* The function that knows nothing.
LEMMA PartialEmpty ==
    ASSUME NEW S, NEW T
    PROVE  <<>> \in Partial(S, T) /\ DOMAIN <<>> = {}
  <1>1. DOMAIN <<>> = {} /\ <<>> \in [{} -> T]
    OBVIOUS
  <1> QED BY <1>1, PartialIs

\* An entry is set.
LEMMA PartialPut ==
    ASSUME NEW S, NEW T, NEW f \in Partial(S, T), NEW k \in S, NEW v \in T
    PROVE  /\ Put(f, k, v) \in Partial(S, T) /\ DOMAIN Put(f, k, v) = DOMAIN f \cup {k}
           /\ Put(f, k, v)[k] = v
           /\ \A x \in DOMAIN f \ {k} : Put(f, k, v)[x] = f[x]
  <1>1. DOMAIN f \subseteq S /\ f \in [DOMAIN f -> T]
    BY PartialIs
  <1>2. /\ DOMAIN Put(f, k, v) = DOMAIN f \cup {k} /\ Put(f, k, v)[k] = v
        /\ \A x \in DOMAIN f \ {k} : Put(f, k, v)[x] = f[x]
        /\ Put(f, k, v) \in [DOMAIN f \cup {k} -> T]
    BY <1>1 DEF Put
  <1>3. DOMAIN Put(f, k, v) \subseteq S
    BY <1>1, <1>2
  <1> QED BY <1>2, <1>3, PartialIs

\* Entries are dropped.
LEMMA PartialDrop ==
    ASSUME NEW S, NEW T, NEW f \in Partial(S, T), NEW D
    PROVE  /\ Drop(f, D) \in Partial(S, T) /\ DOMAIN Drop(f, D) = DOMAIN f \ D
           /\ \A x \in DOMAIN f \ D : Drop(f, D)[x] = f[x]
  <1>1. DOMAIN f \subseteq S /\ f \in [DOMAIN f -> T]
    BY PartialIs
  <1>2. /\ DOMAIN Drop(f, D) = DOMAIN f \ D
        /\ \A x \in DOMAIN f \ D : Drop(f, D)[x] = f[x]
        /\ Drop(f, D) \in [DOMAIN f \ D -> T]
    BY <1>1 DEF Drop
  <1>3. DOMAIN Drop(f, D) \subseteq S
    BY <1>1, <1>2
  <1> QED BY <1>2, <1>3, PartialIs

\* What is pending at an agent, known or not.
LEMMA PendingAt ==
    ASSUME NEW h \in Pendings, NEW a
    PROVE  At(h, a) \in SUBSET Ids
  <1>1. h \in [DOMAIN h -> SUBSET Ids]
    BY PartialIs DEF Pendings
  <1> QED BY <1>1 DEF At

----------------------------------------------------------------------------
(* Events and frames.                                                       *)

\* An entry of the hub is set.
LEMMA HubPut ==
    ASSUME NEW h \in Pendings, NEW a \in Agents, NEW v \in SUBSET Ids
    PROVE  /\ Put(h, a, v) \in Pendings
           /\ DOMAIN Put(h, a, v) = DOMAIN h \cup {a} /\ Put(h, a, v)[a] = v
           /\ \A x \in DOMAIN h \ {a} : Put(h, a, v)[x] = h[x]
  <1>1. DOMAIN h \subseteq Agents /\ h \in [DOMAIN h -> SUBSET Ids]
    BY PartialIs DEF Pendings
  <1>2. /\ DOMAIN Put(h, a, v) = DOMAIN h \cup {a} /\ Put(h, a, v)[a] = v
        /\ \A x \in DOMAIN h \ {a} : Put(h, a, v)[x] = h[x]
        /\ Put(h, a, v) \in [DOMAIN h \cup {a} -> SUBSET Ids]
    BY <1>1 DEF Put
  <1>3. DOMAIN Put(h, a, v) \subseteq Agents
    BY <1>1, <1>2
  <1> QED BY <1>2, <1>3, PartialIs DEF Pendings

\* The hub after an event: the entry of its agent, and the others.
LEMMA AppliedIs ==
    ASSUME NEW h \in Pendings, NEW a \in Agents, NEW e \in NoteEvent
    PROVE  /\ Applied(h, a, e) \in Pendings
           /\ DOMAIN Applied(h, a, e) = DOMAIN h \cup {a}
           /\ \A b \in DOMAIN h : b # a => Applied(h, a, e)[b] = h[b]
  <1> DEFINE v == IF e.kind = "added" THEN At(h, a) \cup {e.id} ELSE At(h, a) \ {e.id}
  <1>1. At(h, a) \in SUBSET Ids /\ e.id \in Ids
    BY PendingAt DEF NoteEvent
  <1>2. v \in SUBSET Ids
    BY <1>1
  <1>3. Applied(h, a, e) = Put(h, a, v)
    BY DEF Applied
  <1> HIDE DEF v
  <1>4. /\ Put(h, a, v) \in Pendings
        /\ DOMAIN Put(h, a, v) = DOMAIN h \cup {a} /\ Put(h, a, v)[a] = v
        /\ \A x \in DOMAIN h \ {a} : Put(h, a, v)[x] = h[x]
    BY <1>2, HubPut
  <1> QED BY <1>3, <1>4

\* The notification an event is about is pending after it or not, as the event
\* says; the others stay as they were.
LEMMA AppliedAt ==
    ASSUME NEW h \in Pendings, NEW a \in Agents, NEW e \in NoteEvent, NEW x \in Ids
    PROVE  /\ x = e.id => (x \in Applied(h, a, e)[a] <=> e.kind = "added")
           /\ x # e.id => (x \in Applied(h, a, e)[a] <=> x \in At(h, a))
  <1> DEFINE v == IF e.kind = "added" THEN At(h, a) \cup {e.id} ELSE At(h, a) \ {e.id}
  <1>1. Applied(h, a, e)[a] = v
    BY DEF Applied, Put
  <1>2. CASE e.kind = "added"
    BY <1>1, <1>2
  <1>3. CASE e.kind # "added"
    BY <1>1, <1>3
  <1> QED BY <1>2, <1>3

\* A full queue, and one that has room.
LEMMA OfferIs ==
    ASSUME NEW q \in Seq(NoteEvent), Len(q) <= SubMax, NEW e \in NoteEvent
    PROVE  /\ Offer(q, e) \in Seq(Event) /\ Len(Offer(q, e)) <= SubMax
           /\ \/ Offer(q, e) = Append(q, e) /\ Offer(q, e) \in Seq(NoteEvent)
              \/ Evicted(Offer(q, e))
  <1>1. NoteEvent \subseteq Event /\ [kind |-> "evicted"] \in Event
    BY DEF NoteEvent, Event
  <1>2. CASE Len(q) < SubMax
    <2>1. Offer(q, e) = Append(q, e)
      BY <1>2 DEF Offer
    <2>2. /\ Append(q, e) \in Seq(NoteEvent) /\ Append(q, e) \in Seq(Event)
          /\ Len(Append(q, e)) <= SubMax
      BY <1>1, <1>2, BoundsAssumption
    <2> QED BY <2>1, <2>2
  <1>3. CASE ~(Len(q) < SubMax)
    <2>1. Offer(q, e) = <<[kind |-> "evicted"]>>
      BY <1>3 DEF Offer
    <2>2. /\ <<[kind |-> "evicted"]>> \in Seq(Event) /\ Len(<<[kind |-> "evicted"]>>) = 1
          /\ <<[kind |-> "evicted"]>>[1].kind = "evicted" /\ <<[kind |-> "evicted"]>> # <<>>
      BY <1>1
    <2> QED BY <2>1, <2>2, BoundsAssumption DEF Evicted
  <1> QED BY <1>2, <1>3

\* Emit, at the agent that emits: nothing, one event more, or the eviction.
LEMMA EmitIs ==
    ASSUME SubShape, NEW a \in Agents, NEW e \in NoteEvent, Emit(a, e)
    PROVE  /\ sub' \in [Agents -> Seq(Event)]
           /\ \A b \in Agents \ {a} : sub'[b] = sub[b]
           /\ Len(sub'[a]) <= SubMax
           /\ Evicted(sub'[a]) \/ sub'[a] \in Seq(NoteEvent)
           /\ Subscribed(a) /\ ~Evicted(sub'[a])
                => ~Evicted(sub[a]) /\ sub[a] \in Seq(NoteEvent) /\ sub'[a] = Append(sub[a], e)
  <1>1. sub \in [Agents -> Seq(Event)] /\ Len(sub[a]) <= SubMax /\ (Evicted(sub[a]) \/ sub[a] \in Seq(NoteEvent))
    BY DEF SubShape
  <1>2. CASE Subscribed(a) /\ ~Evicted(sub[a])
    <2>1. sub' = [sub EXCEPT ![a] = Offer(sub[a], e)] /\ sub[a] \in Seq(NoteEvent)
      BY <1>1, <1>2 DEF Emit
    <2>2. /\ Offer(sub[a], e) \in Seq(Event) /\ Len(Offer(sub[a], e)) <= SubMax
          /\ \/ Offer(sub[a], e) = Append(sub[a], e) /\ Offer(sub[a], e) \in Seq(NoteEvent)
             \/ Evicted(Offer(sub[a], e))
      BY <1>1, <2>1, OfferIs
    <2>3. sub'[a] = Offer(sub[a], e)
      BY <1>1, <2>1
    <2> QED BY <1>1, <1>2, <2>1, <2>2, <2>3
  <1>3. CASE ~(Subscribed(a) /\ ~Evicted(sub[a]))
    <2>1. sub' = sub
      BY <1>3 DEF Emit
    <2> QED BY <1>1, <1>3, <2>1
  <1> QED BY <1>2, <1>3

\* The frames a session sends.
LEMMA FrameIs ==
    /\ \A t \in Tree : [type |-> "snapshot", tree |-> t] \in Frame
    /\ \A n \in 0 .. MaxChanges : [type |-> "state", value |-> n] \in Frame
    /\ \A a \in Agents, i \in Statuses : [type |-> "agent", name |-> a, info |-> i] \in Frame
    /\ \A a \in Agents : [type |-> "agent_removed", name |-> a] \in Frame
    /\ \A a \in Agents, p \in SUBSET Ids :
         [type |-> "agent_notifications", name |-> a, pending |-> p] \in Frame
  BY DEF Frame

\* A tree, and its nodes.
LEMMA TreeIs ==
    ASSUME NEW t \in Tree
    PROVE  /\ t.gateway \in 0 .. MaxChanges /\ t.agents \in Partial(Agents, Node)
           /\ DOMAIN t.agents \subseteq Agents /\ t.agents \in [DOMAIN t.agents -> Node]
           /\ t = [gateway |-> t.gateway, agents |-> t.agents]
           /\ \A g \in 0 .. MaxChanges : [t EXCEPT !.gateway = g] = [gateway |-> g, agents |-> t.agents]
           /\ \A n : [t EXCEPT !.agents = n] = [gateway |-> t.gateway, agents |-> n]
  <1>1. t.gateway \in 0 .. MaxChanges /\ t.agents \in Partial(Agents, Node)
    BY DEF Tree
  <1>2. DOMAIN t.agents \subseteq Agents /\ t.agents \in [DOMAIN t.agents -> Node]
    BY <1>1, PartialIs
  <1>3. /\ t = [gateway |-> t.gateway, agents |-> t.agents]
        /\ \A g \in 0 .. MaxChanges : [t EXCEPT !.gateway = g] = [gateway |-> g, agents |-> t.agents]
        /\ \A n : [t EXCEPT !.agents = n] = [gateway |-> t.gateway, agents |-> n]
    BY DEF Tree
  <1> QED BY <1>1, <1>2, <1>3

\* A gateway branch and nodes make a tree.
LEMMA TreeMake ==
    ASSUME NEW g \in 0 .. MaxChanges, NEW n \in Partial(Agents, Node)
    PROVE  [gateway |-> g, agents |-> n] \in Tree
  BY DEF Tree

\* A frame has one of five kinds, and what its kind says.
LEMMA FrameKinds ==
    ASSUME NEW f \in Frame
    PROVE  /\ f.type \in {"snapshot", "state", "agent", "agent_removed", "agent_notifications"}
           /\ f.type = "snapshot" => f.tree \in Tree
           /\ f.type = "state" => f.value \in 0 .. MaxChanges
           /\ f.type = "agent" => f.name \in Agents /\ f.info \in Statuses
           /\ f.type = "agent_removed" => f.name \in Agents
           /\ f.type = "agent_notifications" => f.name \in Agents /\ f.pending \in SUBSET Ids
  BY DEF Frame

\* A node of the client's tree is set.
LEMMA NodePut ==
    ASSUME NEW m \in Partial(Agents, Node), NEW k \in Agents, NEW v \in Node
    PROVE  /\ Put(m, k, v) \in Partial(Agents, Node) /\ DOMAIN Put(m, k, v) = DOMAIN m \cup {k}
           /\ Put(m, k, v)[k] = v
           /\ \A x \in DOMAIN m \ {k} : Put(m, k, v)[x] = m[x]
  <1>1. DOMAIN m \subseteq Agents /\ m \in [DOMAIN m -> Node]
    BY PartialIs
  <1>2. /\ DOMAIN Put(m, k, v) = DOMAIN m \cup {k} /\ Put(m, k, v)[k] = v
        /\ \A x \in DOMAIN m \ {k} : Put(m, k, v)[x] = m[x]
        /\ Put(m, k, v) \in [DOMAIN m \cup {k} -> Node]
    BY <1>1 DEF Put
  <1>3. DOMAIN Put(m, k, v) \subseteq Agents
    BY <1>1, <1>2
  <1> QED BY <1>2, <1>3, PartialIs

\* What the client does with each frame.
LEMMA ReduceSnapshot ==
    ASSUME NEW t \in Tree, NEW f \in Frame, f.type = "snapshot"
    PROVE  Reduce(t, f) = f.tree /\ Reduce(t, f) \in Tree
  BY FrameKinds DEF Reduce

\* A gateway frame changes the gateway branch only.
LEMMA ReduceState ==
    ASSUME NEW t \in Tree, NEW f \in Frame, f.type = "state"
    PROVE  /\ Reduce(t, f) \in Tree /\ Reduce(t, f).gateway = f.value
           /\ Reduce(t, f).agents = t.agents
  <1>1. f.value \in 0 .. MaxChanges
    BY FrameKinds
  <1>2. Reduce(t, f) = [t EXCEPT !.gateway = f.value]
    BY DEF Reduce
  <1>3. Reduce(t, f) = [gateway |-> f.value, agents |-> t.agents] /\ t.agents \in Partial(Agents, Node)
    BY <1>1, <1>2, TreeIs
  <1> QED BY <1>1, <1>3, TreeMake

\* A row frame sets the row of its agent and keeps what it shows as pending.
LEMMA ReduceAgent ==
    ASSUME NEW t \in Tree, NEW f \in Frame, f.type = "agent"
    PROVE  LET r == Reduce(t, f) IN
           /\ r \in Tree /\ r.gateway = t.gateway /\ DOMAIN r.agents = DOMAIN t.agents \cup {f.name}
           /\ r.agents[f.name].info = f.info
           /\ f.name \in DOMAIN t.agents => r.agents[f.name].pending = t.agents[f.name].pending
           /\ \A a \in DOMAIN t.agents \ {f.name} : r.agents[a] = t.agents[a]
  <1> DEFINE v == [info |-> f.info,
                   pending |-> IF f.name \in DOMAIN t.agents THEN t.agents[f.name].pending ELSE {}]
             n == Put(t.agents, f.name, v)
  <1>1. f.name \in Agents /\ f.info \in Statuses
    BY FrameKinds
  <1>2. /\ t.gateway \in 0 .. MaxChanges /\ t.agents \in Partial(Agents, Node)
        /\ t.agents \in [DOMAIN t.agents -> Node]
    BY TreeIs
  <1>3. v \in Node
    BY <1>1, <1>2 DEF Node
  <1>4. Reduce(t, f) = [t EXCEPT !.agents = n]
    BY DEF Reduce, Upsert
  <1>5. v.info = f.info /\ (f.name \in DOMAIN t.agents => v.pending = t.agents[f.name].pending)
    OBVIOUS
  <1> HIDE DEF v
  <1>6. /\ n \in Partial(Agents, Node) /\ DOMAIN n = DOMAIN t.agents \cup {f.name} /\ n[f.name] = v
        /\ \A a \in DOMAIN t.agents \ {f.name} : n[a] = t.agents[a]
    <2> DEFINE m == t.agents
               k == f.name
    <2>1. m \in Partial(Agents, Node) /\ k \in Agents
      BY <1>1, <1>2
    <2> HIDE DEF m, k
    <2>2. /\ Put(m, k, v) \in Partial(Agents, Node) /\ DOMAIN Put(m, k, v) = DOMAIN m \cup {k}
          /\ Put(m, k, v)[k] = v
          /\ \A x \in DOMAIN m \ {k} : Put(m, k, v)[x] = m[x]
      BY <1>3, <2>1, NodePut
    <2> QED BY <2>2 DEF m, k
  <1> HIDE DEF n
  <1>7. Reduce(t, f) = [gateway |-> t.gateway, agents |-> n]
    BY <1>4, TreeIs
  <1>8. [gateway |-> t.gateway, agents |-> n] \in Tree
    BY <1>2, <1>6, TreeMake
  <1> QED BY <1>5, <1>6, <1>7, <1>8

\* A removal takes the node of its agent away, and no other.
LEMMA ReduceRemoved ==
    ASSUME NEW t \in Tree, NEW f \in Frame, f.type = "agent_removed"
    PROVE  LET r == Reduce(t, f) IN
           /\ r \in Tree /\ r.gateway = t.gateway /\ DOMAIN r.agents = DOMAIN t.agents \ {f.name}
           /\ \A a \in DOMAIN t.agents \ {f.name} : r.agents[a] = t.agents[a]
  <1> DEFINE n == Drop(t.agents, {f.name})
  <1>1. t.gateway \in 0 .. MaxChanges /\ t.agents \in Partial(Agents, Node)
    BY TreeIs
  <1>2. Reduce(t, f) = [t EXCEPT !.agents = n]
    BY DEF Reduce
  <1>3. /\ n \in Partial(Agents, Node) /\ DOMAIN n = DOMAIN t.agents \ {f.name}
        /\ \A a \in DOMAIN t.agents \ {f.name} : n[a] = t.agents[a]
    <2> DEFINE m == t.agents
               D == {f.name}
    <2>1. m \in Partial(Agents, Node)
      BY <1>1
    <2> HIDE DEF m, D
    <2>2. /\ Drop(m, D) \in Partial(Agents, Node) /\ DOMAIN Drop(m, D) = DOMAIN m \ D
          /\ \A x \in DOMAIN m \ D : Drop(m, D)[x] = m[x]
      BY <2>1, PartialDrop
    <2> QED BY <2>2 DEF m, D
  <1> HIDE DEF n
  <1>4. Reduce(t, f) = [gateway |-> t.gateway, agents |-> n]
    BY <1>2, TreeIs
  <1>5. [gateway |-> t.gateway, agents |-> n] \in Tree
    BY <1>1, <1>3, TreeMake
  <1> QED BY <1>3, <1>4, <1>5

\* A pending frame sets what is pending at its agent, if the client has its row.
LEMMA ReduceNotifications ==
    ASSUME NEW t \in Tree, NEW f \in Frame, f.type = "agent_notifications"
    PROVE  LET r == Reduce(t, f) IN
           /\ r \in Tree /\ r.gateway = t.gateway /\ DOMAIN r.agents = DOMAIN t.agents
           /\ \A a \in DOMAIN t.agents : r.agents[a].info = t.agents[a].info
           /\ \A a \in DOMAIN t.agents \ {f.name} : r.agents[a] = t.agents[a]
           /\ f.name \in DOMAIN t.agents => r.agents[f.name].pending = f.pending
  <1>1. /\ t.gateway \in 0 .. MaxChanges /\ t.agents \in [DOMAIN t.agents -> Node]
        /\ DOMAIN t.agents \subseteq Agents /\ f.pending \in SUBSET Ids
    BY TreeIs, FrameKinds
  <1>2. CASE f.name \notin DOMAIN t.agents
    <2>1. Reduce(t, f) = t
      BY <1>2 DEF Reduce
    <2> QED BY <1>2, <2>1
  <1>3. CASE f.name \in DOMAIN t.agents
    <2> DEFINE n == [t.agents EXCEPT ![f.name].pending = f.pending]
    <2>1. Reduce(t, f) = [t EXCEPT !.agents = n]
      BY <1>3 DEF Reduce
    <2>2. /\ n \in [DOMAIN t.agents -> Node] /\ DOMAIN n = DOMAIN t.agents
          /\ \A a \in DOMAIN t.agents : n[a].info = t.agents[a].info
          /\ \A a \in DOMAIN t.agents \ {f.name} : n[a] = t.agents[a]
          /\ n[f.name].pending = f.pending
      BY <1>1, <1>3 DEF Node
    <2> HIDE DEF n
    <2>3. n \in Partial(Agents, Node)
      BY <1>1, <2>2, PartialIs
    <2>4. Reduce(t, f) = [gateway |-> t.gateway, agents |-> n]
      BY <2>1, TreeIs
    <2>5. [gateway |-> t.gateway, agents |-> n] \in Tree
      BY <1>1, <2>3, TreeMake
    <2> QED BY <2>2, <2>4, <2>5
  <1> QED BY <1>2, <1>3

\* Whatever frame is read, the client has a tree.
LEMMA ReduceTree ==
    ASSUME NEW t \in Tree, NEW f \in Frame
    PROVE  Reduce(t, f) \in Tree
  BY FrameKinds, ReduceSnapshot, ReduceState, ReduceAgent, ReduceRemoved, ReduceNotifications

----------------------------------------------------------------------------
(* The types.                                                               *)

\* The agents, their files and their taps keep their types.
LEMMA AgentShapeStep ==
    ASSUME Shape, [Next]_vars PROVE AgentShape'
  <1> USE DEF agentVars, tapVars
  <1>0. AgentShape /\ HubShape
    BY DEF Shape
  <1>1. ASSUME NEW a \in Agents, NEW x \in Ids, Arrive(a, x) PROVE AgentShape'
    BY <1>0, <1>1 DEF AgentShape, Arrive
  <1>2. ASSUME NEW a \in Agents, NEW x \in Ids, Announce(a, x) PROVE AgentShape'
    BY <1>0, <1>2 DEF AgentShape, Announce
  <1>3. ASSUME NEW a \in Agents, NEW x \in Ids, ClearFile(a, x) \/ UnlinkUnparsed(a, x)
        PROVE  AgentShape'
    BY <1>0, <1>3 DEF AgentShape, ClearFile, UnlinkUnparsed
  <1>4. ASSUME NEW a \in Agents
        PROVE  PeerGone(a) \in {"none", "dialing", "seeding", "sent", "live", "broken"}
    BY <1>0 DEF AgentShape, PeerGone
  <1>5. ASSUME NEW a \in Agents, AgentRestart(a) PROVE AgentShape'
    BY <1>0, <1>4, <1>5 DEF AgentShape, AgentRestart
  <1>6. ASSUME NEW a \in Agents, NEW s \in {"gone", "stopped", "running"}, Container(a, s)
        PROVE  AgentShape'
    BY <1>0, <1>4, <1>6 DEF AgentShape, Container
  <1>7. ASSUME NEW a \in Agents, TapConnect(a) PROVE AgentShape'
    BY <1>0, <1>7 DEF AgentShape, TapConnect
  <1>8. ASSUME NEW a \in Agents, TapSnapshot(a) PROVE AgentShape'
    BY <1>0, <1>8 DEF AgentShape, TapSnapshot
  <1>9. ASSUME NEW a \in Agents, TapSeed(a) PROVE AgentShape'
    BY <1>0, <1>9 DEF AgentShape, TapSeed
  <1>10. ASSUME NEW a \in Agents, TapApply(a) PROVE AgentShape'
    BY <1>0, <1>10 DEF AgentShape, TapApply
  <1>11. ASSUME NEW a \in Agents, TapLost(a) PROVE AgentShape'
    BY <1>0, <1>11 DEF AgentShape, TapLost
  <1>12. CASE Poll
    BY <1>0, <1>12 DEF AgentShape, Poll
  <1>13. CASE GatewayChange \/ Session \/ UNCHANGED vars
    BY <1>0, <1>13 DEF AgentShape, GatewayChange, Session, Subscribe, SendSnapshot, EmitRoster,
       EmitNotifications, Disconnect, Receive, vars
  <1> QED BY <1>1, <1>2, <1>3, <1>5, <1>6, <1>7, <1>8, <1>9, <1>10, <1>11, <1>12, <1>13
          DEF Next, Agent, Gateway

\* A queue keeps its type and its limit.
LEMMA SubShapeStep ==
    ASSUME Shape, [Next]_vars PROVE SubShape'
  <1> USE DEF agentVars, tapVars
  <1>0. SubShape
    BY DEF Shape
  <1>1. /\ sub \in [Agents -> Seq(Event)]
        /\ \A b \in Agents : Len(sub[b]) <= SubMax /\ (Evicted(sub[b]) \/ sub[b] \in Seq(NoteEvent))
    BY <1>0 DEF SubShape
  <1>2. ASSUME NEW a \in Agents, NEW x \in Ids, Announce(a, x) \/ ClearFile(a, x) PROVE SubShape'
    <2>1. PICK e \in NoteEvent : Emit(a, e)
      <3>1. [kind |-> "added", id |-> x] \in NoteEvent /\ [kind |-> "cleared", id |-> x] \in NoteEvent
        BY DEF NoteEvent
      <3> QED BY <1>2, <3>1 DEF Announce, ClearFile
    <2>2. /\ sub' \in [Agents -> Seq(Event)]
          /\ \A b \in Agents \ {a} : sub'[b] = sub[b]
          /\ Len(sub'[a]) <= SubMax
          /\ Evicted(sub'[a]) \/ sub'[a] \in Seq(NoteEvent)
      BY <1>0, <2>1, EmitIs
    <2>3. ASSUME NEW b \in Agents
          PROVE  Len(sub'[b]) <= SubMax /\ (Evicted(sub'[b]) \/ sub'[b] \in Seq(NoteEvent))
      <3>1. CASE b = a
        BY <2>2, <3>1
      <3>2. CASE b # a
        BY <1>1, <2>2, <3>2
      <3> QED BY <3>1, <3>2
    <2> QED BY <2>2, <2>3 DEF SubShape
  <1>3. <<>> \in Seq(Event) /\ <<>> \in Seq(NoteEvent) /\ Len(<<>>) <= SubMax
    BY BoundsAssumption
  <1>4. ASSUME NEW a \in Agents, TapConnect(a) \/ TapLost(a) PROVE SubShape'
    <2>1. sub' = [sub EXCEPT ![a] = <<>>]
      BY <1>4 DEF TapConnect, TapLost
    <2>2. sub' \in [Agents -> Seq(Event)] /\ \A b \in Agents : sub'[b] = <<>> \/ sub'[b] = sub[b]
      BY <1>1, <1>3, <2>1
    <2> QED BY <1>1, <1>3, <2>2 DEF SubShape
  <1>5. ASSUME NEW a \in Agents, TapApply(a) PROVE SubShape'
    <2>1. sub[a] # <<>> /\ sub[a] \in Seq(NoteEvent) /\ sub' = [sub EXCEPT ![a] = Tail(sub[a])]
      BY <1>1, <1>5 DEF TapApply
    <2>2. /\ Tail(sub[a]) \in Seq(Event) /\ Tail(sub[a]) \in Seq(NoteEvent)
          /\ Len(Tail(sub[a])) <= SubMax
      <3>1. Tail(sub[a]) \in Seq(Event) /\ Tail(sub[a]) \in Seq(NoteEvent)
        BY <1>1, <2>1
      <3>2. Len(Tail(sub[a])) = Len(sub[a]) - 1 /\ Len(sub[a]) \in Nat /\ Len(sub[a]) <= SubMax
        BY <1>1, <2>1
      <3> QED BY <3>1, <3>2, BoundsAssumption
    <2>3. sub' \in [Agents -> Seq(Event)] /\ \A b \in Agents : sub'[b] = Tail(sub[a]) \/ sub'[b] = sub[b]
      BY <1>1, <2>1, <2>2
    <2> QED BY <1>1, <2>2, <2>3 DEF SubShape
  <1>6. CASE Poll
    <2>1. /\ sub' \in [Agents -> Seq(Event)]
          /\ \A b \in Agents : sub'[b] = <<>> \/ sub'[b] = sub[b]
      BY <1>1, <1>3, <1>6 DEF Poll
    <2> QED BY <1>1, <1>3, <2>1 DEF SubShape
  <1>7. ASSUME sub' = sub PROVE SubShape'
    BY <1>0, <1>7 DEF SubShape
  <1>8. ASSUME NEW a \in Agents,
               \/ \E x \in Ids : Arrive(a, x) \/ UnlinkUnparsed(a, x)
               \/ \E s \in {"gone", "stopped", "running"} : Container(a, s)
               \/ AgentRestart(a) \/ TapSnapshot(a) \/ TapSeed(a)
        PROVE  SubShape'
    BY <1>7, <1>8 DEF Arrive, UnlinkUnparsed, Container, AgentRestart, TapSnapshot, TapSeed
  <1>9. CASE GatewayChange \/ Session \/ UNCHANGED vars
    BY <1>7, <1>9 DEF GatewayChange, Session, Subscribe, SendSnapshot, EmitRoster,
       EmitNotifications, Disconnect, Receive, vars
  <1> QED BY <1>2, <1>4, <1>5, <1>6, <1>8, <1>9 DEF Next, Agent, Gateway

\* The entries of a set of agents are dropped from the hub.
LEMMA HubDrop ==
    ASSUME NEW h \in Pendings, NEW D
    PROVE  /\ Drop(h, D) \in Pendings /\ DOMAIN Drop(h, D) = DOMAIN h \ D
           /\ \A b \in DOMAIN h \ D : Drop(h, D)[b] = h[b]
  <1>1. DOMAIN h \subseteq Agents /\ h \in [DOMAIN h -> SUBSET Ids]
    BY PartialIs DEF Pendings
  <1>2. /\ DOMAIN Drop(h, D) = DOMAIN h \ D
        /\ \A b \in DOMAIN h \ D : Drop(h, D)[b] = h[b]
        /\ Drop(h, D) \in [DOMAIN h \ D -> SUBSET Ids]
    BY <1>1 DEF Drop
  <1>3. DOMAIN Drop(h, D) \subseteq Agents
    BY <1>1, <1>2
  <1> QED BY <1>2, <1>3, PartialIs DEF Pendings

\* The head of a queue that was not evicted is about a notification.
LEMMA HeadIsNote ==
    ASSUME SubShape, NEW a \in Agents, sub[a] # <<>>, ~Evicted(sub[a])
    PROVE  sub[a] \in Seq(NoteEvent) /\ Head(sub[a]) \in NoteEvent
  <1>1. sub[a] \in Seq(NoteEvent)
    BY DEF SubShape
  <1> QED BY <1>1

\* A round of the poll loop leaves what the hub holds of a running agent.
LEMMA PollHub ==
    ASSUME Shape, Poll
    PROVE  /\ hub' \in Pendings
           /\ \A b \in Agents : Running(b) => (b \in DOMAIN hub' <=> b \in DOMAIN hub)
           /\ \A b \in Agents : Running(b) /\ b \in DOMAIN hub => hub'[b] = hub[b]
  <1> DEFINE aborted == {a \in Agents : tap[a] # "none" /\ ~Running(a)}
             kept == Drop(hub, aborted)
  <1>1. hub \in Pendings /\ SubShape
    BY DEF Shape, HubShape
  <1>2. /\ kept \in Pendings /\ DOMAIN kept = DOMAIN hub \ aborted
        /\ \A b \in DOMAIN hub \ aborted : kept[b] = hub[b]
    <2> HIDE DEF aborted
    <2> QED BY <1>1, HubDrop
  <1>3. \A b \in Agents : Running(b) => b \notin aborted
    OBVIOUS
  <1>4. CASE hub' = kept
    <2> HIDE DEF kept, aborted
    <2> QED BY <1>2, <1>3, <1>4
  <1>5. ASSUME NEW a \in aborted, sub[a] # <<>>, ~Evicted(sub[a]), hub' = Applied(kept, a, Head(sub[a]))
        PROVE  /\ hub' \in Pendings
               /\ \A b \in Agents : Running(b) => (b \in DOMAIN hub' <=> b \in DOMAIN hub)
               /\ \A b \in Agents : Running(b) /\ b \in DOMAIN hub => hub'[b] = hub[b]
    <2>1. a \in Agents
      OBVIOUS
    <2>2. Head(sub[a]) \in NoteEvent
      BY <1>1, <1>5, <2>1, HeadIsNote
    <2> HIDE DEF kept, aborted
    <2>3. /\ hub' \in Pendings /\ DOMAIN hub' = DOMAIN kept \cup {a}
          /\ \A b \in DOMAIN kept : b # a => hub'[b] = kept[b]
      BY <1>2, <1>5, <2>1, <2>2, AppliedIs
    <2>4. ASSUME NEW b \in Agents, Running(b) PROVE b # a /\ b \notin aborted
      BY <1>3, <1>5, <2>4
    <2> QED BY <1>2, <2>3, <2>4
  <1>6. hub' = kept \/ \E a \in aborted : sub[a] # <<>> /\ ~Evicted(sub[a]) /\ hub' = Applied(kept, a, Head(sub[a]))
    BY DEF Poll
  <1> HIDE DEF kept, aborted
  <1> QED BY <1>4, <1>5, <1>6

\* The hub keeps its type.
LEMMA HubShapeStep ==
    ASSUME Shape, [Next]_vars PROVE HubShape'
  <1> USE DEF agentVars, tapVars
  <1>0. hub \in Pendings /\ snap \in [Agents -> SUBSET Ids] /\ SubShape
    BY DEF Shape, HubShape, AgentShape
  <1>1. ASSUME NEW a \in Agents, TapSeed(a) PROVE HubShape'
    <2>1. hub' = Put(hub, a, snap[a]) /\ snap[a] \in SUBSET Ids
      BY <1>0, <1>1 DEF TapSeed, Seeded
    <2> QED BY <1>0, <2>1, HubPut DEF HubShape
  <1>2. ASSUME NEW a \in Agents, TapApply(a) PROVE HubShape'
    <2>1. hub' = Applied(hub, a, Head(sub[a])) /\ sub[a] # <<>> /\ ~Evicted(sub[a])
      BY <1>2 DEF TapApply
    <2>2. Head(sub[a]) \in NoteEvent
      BY <1>0, <2>1, HeadIsNote
    <2> QED BY <1>0, <2>1, <2>2, AppliedIs DEF HubShape
  <1>3. CASE Poll
    BY <1>3, PollHub DEF HubShape
  <1>4. ASSUME hub' = hub PROVE HubShape'
    BY <1>0, <1>4 DEF HubShape
  <1>5. ASSUME NEW a \in Agents,
               \/ \E x \in Ids : Arrive(a, x) \/ Announce(a, x) \/ ClearFile(a, x) \/ UnlinkUnparsed(a, x)
               \/ \E s \in {"gone", "stopped", "running"} : Container(a, s)
               \/ AgentRestart(a) \/ TapConnect(a) \/ TapSnapshot(a) \/ TapLost(a)
        PROVE  HubShape'
    BY <1>4, <1>5 DEF Arrive, Announce, ClearFile, UnlinkUnparsed, Container, AgentRestart, TapConnect,
       TapSnapshot, TapLost
  <1>6. CASE GatewayChange \/ Session \/ UNCHANGED vars
    BY <1>4, <1>6 DEF GatewayChange, Session, Subscribe, SendSnapshot, EmitRoster,
       EmitNotifications, Disconnect, Receive, vars
  <1> QED BY <1>1, <1>2, <1>3, <1>5, <1>6 DEF Next, Agent, Gateway

\* The roster and the session keep their types.
LEMMA SessionShapeStep ==
    ASSUME Shape, [Next]_vars PROVE SessionShape'
  <1> USE DEF agentVars, tapVars, sessionVars
  <1>0. SessionShape /\ hub \in Pendings
    BY DEF Shape, HubShape
  <1>1. ASSUME agents' = agents, UNCHANGED sessionVars, bumped' \in BOOLEAN PROVE SessionShape'
    BY <1>0, <1>1 DEF SessionShape
  <1>2. ASSUME NEW a \in Agents,
               \/ \E x \in Ids : Arrive(a, x) \/ Announce(a, x) \/ ClearFile(a, x) \/ UnlinkUnparsed(a, x)
               \/ \E s \in {"gone", "stopped", "running"} : Container(a, s)
               \/ AgentRestart(a) \/ TapConnect(a) \/ TapSnapshot(a) \/ TapLost(a)
        PROVE  SessionShape'
    <2>1. agents' = agents /\ UNCHANGED sessionVars /\ bumped' = bumped
      BY <1>2 DEF Arrive, Announce, ClearFile, UnlinkUnparsed, Container, AgentRestart, TapConnect,
         TapSnapshot, TapLost
    <2> QED BY <1>0, <1>1, <2>1 DEF SessionShape
  <1>3. ASSUME NEW a \in Agents, TapSeed(a) \/ TapApply(a) PROVE SessionShape'
    <2>1. agents' = agents /\ UNCHANGED sessionVars
      BY <1>3 DEF TapSeed, TapApply
    <2>2. bumped' \in BOOLEAN
      BY <1>3 DEF TapSeed, TapApply, Bump
    <2> QED BY <1>1, <2>1, <2>2
  <1>4. CASE Poll
    <2>1. bumped' \in BOOLEAN /\ UNCHANGED sessionVars
      BY <1>4 DEF Poll, Bump
    <2>2. agents' \in Partial(Agents, Statuses)
      <3> DEFINE listed == {a \in Agents : container[a] # "gone"}
                 now == [a \in listed |-> StatusOf(a)]
      <3>1. DOMAIN now = listed /\ listed \subseteq Agents /\ now \in [listed -> Statuses] /\ agents' = now
        BY <1>4 DEF Poll, StatusOf, Statuses
      <3> HIDE DEF now, listed
      <3> QED BY <3>1, PartialIs
    <2> QED BY <1>0, <2>1, <2>2 DEF SessionShape
  <1>5. CASE GatewayChange \/ Receive \/ UNCHANGED vars
    <2>1. agents' = agents /\ UNCHANGED sessionVars /\ bumped' = bumped
      BY <1>5 DEF GatewayChange, Receive, vars
    <2> QED BY <1>0, <1>1, <2>1 DEF SessionShape
  <1>6. CASE Subscribe \/ SendSnapshot \/ EmitRoster
    BY <1>0, <1>6 DEF SessionShape, Subscribe, SendSnapshot, EmitRoster
  <1>7. CASE EmitNotifications
    <2> DEFINE shown == DOMAIN hub \cap DOMAIN lastRoster
               p == [a \in shown |-> hub[a]]
    <2>1. lastPending' = p /\ bumped' = FALSE /\ UNCHANGED <<agents, sess, lastRoster>>
      BY <1>7 DEF EmitNotifications
    <2>2. DOMAIN hub \subseteq Agents /\ hub \in [DOMAIN hub -> SUBSET Ids]
      BY <1>0, PartialIs DEF Pendings
    <2>3. DOMAIN p \subseteq Agents /\ p \in [DOMAIN p -> SUBSET Ids]
      BY <2>2
    <2> HIDE DEF p
    <2>4. p \in Pendings
      BY <2>3, PartialIs DEF Pendings
    <2> QED BY <1>0, <2>1, <2>4 DEF SessionShape
  <1>8. CASE Disconnect
    <2>1. <<>> \in Partial(Agents, Statuses) /\ <<>> \in Pendings
      BY PartialEmpty DEF Pendings
    <2> QED BY <1>0, <1>8, <2>1 DEF SessionShape, Disconnect
  <1> QED BY <1>2, <1>3, <1>4, <1>5, <1>6, <1>7, <1>8 DEF Next, Agent, Gateway, Session

\* The counters and the gateway branch stay within their bounds.
LEMMA CountShapeStep ==
    ASSUME Shape, [Next]_vars PROVE CountShape'
  <1> USE DEF agentVars, tapVars, sessionVars, clientVars
  <1>0. /\ CountShape /\ MaxChanges \in Nat /\ MaxFaults \in Nat
        /\ gateway \in 0 .. MaxChanges /\ lastGateway \in 0 .. MaxChanges
        /\ changes \in 0 .. MaxChanges /\ gateway <= changes /\ faults \in 0 .. MaxFaults
    BY BoundsAssumption DEF Shape, CountShape
  <1>1. Change => changes' \in 0 .. MaxChanges /\ changes' = changes + 1
    BY <1>0 DEF Change
  <1>2. Fault => faults' \in 0 .. MaxFaults
    BY <1>0 DEF Fault
  <1>3. ASSUME UNCHANGED <<gateway, lastGateway>>, changes' = changes \/ Change, faults' = faults \/ Fault
        PROVE  CountShape'
    BY <1>0, <1>1, <1>2, <1>3 DEF CountShape
  <1>4. ASSUME NEW a \in Agents,
               \/ \E x \in Ids : Arrive(a, x) \/ Announce(a, x) \/ ClearFile(a, x) \/ UnlinkUnparsed(a, x)
               \/ \E s \in {"gone", "stopped", "running"} : Container(a, s)
               \/ AgentRestart(a) \/ TapConnect(a) \/ TapSnapshot(a) \/ TapSeed(a)
               \/ TapApply(a) \/ TapLost(a)
        PROVE  CountShape'
    BY <1>3, <1>4 DEF Arrive, Announce, ClearFile, UnlinkUnparsed, Container, AgentRestart, TapConnect,
       TapSnapshot, TapSeed, TapApply, TapLost
  <1>5. CASE Poll \/ Subscribe \/ EmitNotifications \/ Receive \/ UNCHANGED vars
    BY <1>3, <1>5 DEF Poll, Subscribe, EmitNotifications, Receive, vars
  <1>6. CASE GatewayChange
    <2>1. gateway' = gateway + 1 /\ Change /\ UNCHANGED <<lastGateway, faults>>
      BY <1>6 DEF GatewayChange
    <2> QED BY <1>0, <1>1, <2>1 DEF CountShape
  <1>7. CASE SendSnapshot \/ EmitRoster
    <2>1. lastGateway' = gateway /\ UNCHANGED <<gateway, changes, faults>>
      BY <1>7 DEF SendSnapshot, EmitRoster
    <2> QED BY <1>0, <2>1 DEF CountShape
  <1>8. CASE Disconnect
    <2>1. lastGateway' = 0 /\ UNCHANGED <<gateway, changes>> /\ Fault
      BY <1>8 DEF Disconnect
    <2> QED BY <1>0, <1>2, <2>1 DEF CountShape
  <1> QED BY <1>4, <1>5, <1>6, <1>7, <1>8 DEF Next, Agent, Gateway, Session

\* The frames made one per agent of a set D are finitely many.
LEMMA FramesFinite ==
    ASSUME NEW D, D \subseteq Agents, NEW S, NEW g \in [D -> S], \A f \in S : \E a \in D : f = g[a]
    PROVE  IsFiniteSet(S)
  <1>1. IsFiniteSet(D)
    BY AgentsAssumption, FS_Subset
  <1>2. g \in Surjection(D, S)
    BY Fun_IsSurj
  <1> QED BY <1>1, <1>2, FS_Surjection

\* A sequence of a finite set of frames is a sequence of frames.
LEMMA FramesSeq ==
    ASSUME NEW S, S \subseteq Frame, IsFiniteSet(S)
    PROVE  SetToSeq(S) \in Seq(Frame)
  <1>1. SetToSeq(S) \in Seq(S)
    BY SetToSeqIs
  <1> QED BY <1>1

\* The roster's deltas, and the deltas of the pending sets.
UpFrame(a, now)   == [type |-> "agent", name |-> a, info |-> now[a]]
GoneFrame(a)      == [type |-> "agent_removed", name |-> a]
NoteFrame(a, h)   == [type |-> "agent_notifications", name |-> a, pending |-> h[a]]
UpFrames(D, now)  == {UpFrame(a, now) : a \in D}
GoneFrames(D)     == {GoneFrame(a) : a \in D}
NoteFrames(D, h)  == {NoteFrame(a, h) : a \in D}

\* Each of them is a finite set of frames.
LEMMA UpFramesAre ==
    ASSUME NEW now \in Partial(Agents, Statuses), NEW D, D \subseteq DOMAIN now
    PROVE  IsFiniteSet(UpFrames(D, now)) /\ UpFrames(D, now) \subseteq Frame
  <1>1. D \subseteq Agents /\ \A a \in D : now[a] \in Statuses
    BY PartialIs
  <1>2. UpFrames(D, now) \subseteq Frame
    BY <1>1, FrameIs DEF UpFrames, UpFrame
  <1> DEFINE g == [a \in D |-> UpFrame(a, now)]
             S == UpFrames(D, now)
  <1>3. g \in [D -> S] /\ \A f \in S : \E a \in D : f = g[a]
    BY DEF UpFrames
  <1> HIDE DEF g, S
  <1>4. IsFiniteSet(S)
    BY <1>1, <1>3, FramesFinite
  <1> QED BY <1>2, <1>4 DEF S

\* The same for the removals.
LEMMA GoneFramesAre ==
    ASSUME NEW D, D \subseteq Agents
    PROVE  IsFiniteSet(GoneFrames(D)) /\ GoneFrames(D) \subseteq Frame
  <1>2. GoneFrames(D) \subseteq Frame
    BY FrameIs DEF GoneFrames, GoneFrame
  <1> DEFINE g == [a \in D |-> GoneFrame(a)]
             S == GoneFrames(D)
  <1>3. g \in [D -> S] /\ \A f \in S : \E a \in D : f = g[a]
    BY DEF GoneFrames
  <1> HIDE DEF g, S
  <1>4. IsFiniteSet(S)
    BY <1>3, FramesFinite
  <1> QED BY <1>2, <1>4 DEF S

\* The same for the pending sets.
LEMMA NoteFramesAre ==
    ASSUME NEW h \in Pendings, NEW D, D \subseteq DOMAIN h
    PROVE  IsFiniteSet(NoteFrames(D, h)) /\ NoteFrames(D, h) \subseteq Frame
  <1>1. D \subseteq Agents /\ \A a \in D : h[a] \in SUBSET Ids
    BY PartialIs DEF Pendings
  <1>2. NoteFrames(D, h) \subseteq Frame
    BY <1>1, FrameIs DEF NoteFrames, NoteFrame
  <1> DEFINE g == [a \in D |-> NoteFrame(a, h)]
             S == NoteFrames(D, h)
  <1>3. g \in [D -> S] /\ \A f \in S : \E a \in D : f = g[a]
    BY DEF NoteFrames
  <1> HIDE DEF g, S
  <1>4. IsFiniteSet(S)
    BY <1>1, <1>3, FramesFinite
  <1> QED BY <1>2, <1>4 DEF S

\* What EmitRoster sends: rows that changed, rows that left, the gateway branch.
Upserts(last, now) == {a \in DOMAIN now : a \notin DOMAIN last \/ last[a] # now[a]}
UpSeq   == SetToSeq(UpFrames(Upserts(lastRoster, agents), agents))
GoneSeq == SetToSeq(GoneFrames(DOMAIN lastRoster \ DOMAIN agents))
GateSeq == IF gateway = lastGateway THEN <<>> ELSE <<[type |-> "state", value |-> gateway]>>

\* EmitRoster appends these three parts, each a sequence of frames.
LEMMA EmitRosterIs ==
    ASSUME Shape, EmitRoster
    PROVE  /\ wire' = ((wire \o (UpSeq \o GoneSeq)) \o GateSeq) /\ wire \in Seq(Frame)
           /\ UpSeq \in Seq(Frame) /\ GoneSeq \in Seq(Frame) /\ GateSeq \in Seq(Frame)
           /\ IsFiniteSet(UpFrames(Upserts(lastRoster, agents), agents))
           /\ IsFiniteSet(GoneFrames(DOMAIN lastRoster \ DOMAIN agents))
  <1>1. /\ agents \in Partial(Agents, Statuses) /\ lastRoster \in Partial(Agents, Statuses)
        /\ gateway \in 0 .. MaxChanges /\ wire \in Seq(Frame)
    BY DEF Shape, SessionShape, CountShape, WireShape
  <1>2. Upserts(lastRoster, agents) \subseteq DOMAIN agents
    BY DEF Upserts
  <1>3. DOMAIN lastRoster \ DOMAIN agents \subseteq Agents
    BY <1>1, PartialIs
  <1>4. /\ IsFiniteSet(UpFrames(Upserts(lastRoster, agents), agents))
        /\ UpFrames(Upserts(lastRoster, agents), agents) \subseteq Frame
    BY <1>1, <1>2, UpFramesAre
  <1>5. /\ IsFiniteSet(GoneFrames(DOMAIN lastRoster \ DOMAIN agents))
        /\ GoneFrames(DOMAIN lastRoster \ DOMAIN agents) \subseteq Frame
    BY <1>3, GoneFramesAre
  <1>6. UpSeq \in Seq(Frame) /\ GoneSeq \in Seq(Frame)
    BY <1>4, <1>5, FramesSeq DEF UpSeq, GoneSeq
  <1>7. GateSeq \in Seq(Frame)
    <2>1. [type |-> "state", value |-> gateway] \in Frame
      BY <1>1, FrameIs
    <2> QED BY <2>1 DEF GateSeq
  <1>8. RosterDeltas(lastRoster, agents) = UpSeq \o GoneSeq
    BY DEF RosterDeltas, UpSeq, GoneSeq, UpFrames, GoneFrames, UpFrame, GoneFrame, Upserts
  <1>9. wire' = ((wire \o RosterDeltas(lastRoster, agents)) \o GateSeq)
    BY DEF EmitRoster, GateSeq
  <1> QED BY <1>1, <1>4, <1>5, <1>6, <1>7, <1>8, <1>9

\* What EmitNotifications sends.
Fresh == {a \in DOMAIN hub \cap DOMAIN lastRoster : a \notin DOMAIN lastPending \/ lastPending[a] # hub[a]}

\* EmitNotifications appends one frame per agent of Fresh.
LEMMA EmitNotesIs ==
    ASSUME Shape, EmitNotifications
    PROVE  /\ wire' = wire \o SetToSeq(NoteFrames(Fresh, hub)) /\ wire \in Seq(Frame)
           /\ SetToSeq(NoteFrames(Fresh, hub)) \in Seq(Frame)
           /\ IsFiniteSet(NoteFrames(Fresh, hub))
  <1>1. hub \in Pendings /\ wire \in Seq(Frame)
    BY DEF Shape, HubShape, WireShape
  <1>2. Fresh \subseteq DOMAIN hub
    BY DEF Fresh
  <1>3. IsFiniteSet(NoteFrames(Fresh, hub)) /\ NoteFrames(Fresh, hub) \subseteq Frame
    BY <1>1, <1>2, NoteFramesAre
  <1>4. SetToSeq(NoteFrames(Fresh, hub)) \in Seq(Frame)
    BY <1>3, FramesSeq
  <1>5. wire' = wire \o SetToSeq(NoteFrames(Fresh, hub))
    BY DEF EmitNotifications, NoteFrames, NoteFrame, Fresh
  <1> QED BY <1>1, <1>3, <1>4, <1>5

\* What SendSnapshot sends.
LEMMA SnapshotIs ==
    ASSUME Shape
    PROVE  LET t == BuildTree(gateway, lastRoster, hub) IN
           /\ t \in Tree /\ t.gateway = gateway /\ DOMAIN t.agents = DOMAIN lastRoster
           /\ \A a \in DOMAIN lastRoster : /\ t.agents[a].info = lastRoster[a]
                                           /\ t.agents[a].pending = At(hub, a)
           /\ [type |-> "snapshot", tree |-> t] \in Frame
  <1> DEFINE n == [a \in DOMAIN lastRoster |-> [info |-> lastRoster[a], pending |-> At(hub, a)]]
  <1>1. /\ lastRoster \in Partial(Agents, Statuses) /\ gateway \in 0 .. MaxChanges /\ hub \in Pendings
    BY DEF Shape, SessionShape, CountShape, HubShape
  <1>2. DOMAIN lastRoster \subseteq Agents /\ \A a \in DOMAIN lastRoster : lastRoster[a] \in Statuses
    BY <1>1, PartialIs
  <1>3. \A a \in DOMAIN lastRoster : At(hub, a) \in SUBSET Ids
    BY <1>1, PendingAt
  <1>4. /\ n \in [DOMAIN lastRoster -> Node] /\ DOMAIN n = DOMAIN lastRoster
        /\ \A a \in DOMAIN lastRoster : n[a].info = lastRoster[a] /\ n[a].pending = At(hub, a)
    BY <1>2, <1>3 DEF Node
  <1>5. BuildTree(gateway, lastRoster, hub) = [gateway |-> gateway, agents |-> n]
    BY DEF BuildTree
  <1> HIDE DEF n
  <1>6. n \in Partial(Agents, Node)
    BY <1>2, <1>4, PartialIs
  <1>7. [gateway |-> gateway, agents |-> n] \in Tree
    BY <1>1, <1>6, TreeMake
  <1>8. [type |-> "snapshot", tree |-> [gateway |-> gateway, agents |-> n]] \in Frame
    BY <1>7, FrameIs
  <1> QED BY <1>4, <1>5, <1>7, <1>8

\* The frames under way and the replica keep their types.
LEMMA WireShapeStep ==
    ASSUME Shape, [Next]_vars PROVE WireShape'
  <1> USE DEF agentVars, tapVars, sessionVars, clientVars
  <1>0. wire \in Seq(Frame) /\ tree \in Tree
    BY DEF Shape, WireShape
  <1>1. CASE SendSnapshot
    <2> DEFINE f == [type |-> "snapshot", tree |-> BuildTree(gateway, lastRoster, hub)]
    <2>1. f \in Frame
      BY SnapshotIs
    <2>2. wire' = <<f>> /\ tree' = tree
      BY <1>1 DEF SendSnapshot
    <2> HIDE DEF f
    <2>3. <<f>> \in Seq(Frame)
      BY <2>1
    <2> QED BY <1>0, <2>2, <2>3 DEF WireShape
  <1>2. CASE EmitRoster
    <2>1. /\ wire' = ((wire \o (UpSeq \o GoneSeq)) \o GateSeq)
          /\ UpSeq \in Seq(Frame) /\ GoneSeq \in Seq(Frame) /\ GateSeq \in Seq(Frame)
      BY <1>2, EmitRosterIs
    <2>2. wire' \in Seq(Frame)
      BY <1>0, <2>1
    <2> QED BY <1>0, <1>2, <2>2 DEF WireShape, EmitRoster
  <1>3. CASE EmitNotifications
    <2>1. wire' = wire \o SetToSeq(NoteFrames(Fresh, hub)) /\ SetToSeq(NoteFrames(Fresh, hub)) \in Seq(Frame)
      BY <1>3, EmitNotesIs
    <2>2. wire' \in Seq(Frame)
      BY <1>0, <2>1
    <2> QED BY <1>0, <1>3, <2>2 DEF WireShape, EmitNotifications
  <1>4. CASE Disconnect
    <2>1. <<>> \in Seq(Frame)
      OBVIOUS
    <2> QED BY <1>0, <1>4, <2>1 DEF WireShape, Disconnect
  <1>5. CASE Receive
    <2>1. wire # <<>> /\ wire' = Tail(wire) /\ tree' = Reduce(tree, Head(wire))
      BY <1>5 DEF Receive
    <2>2. Head(wire) \in Frame /\ Tail(wire) \in Seq(Frame)
      BY <1>0, <2>1
    <2>3. Reduce(tree, Head(wire)) \in Tree
      BY <1>0, <2>2, ReduceTree
    <2> QED BY <2>1, <2>2, <2>3 DEF WireShape
  <1>6. ASSUME wire' = wire, tree' = tree PROVE WireShape'
    BY <1>0, <1>6 DEF WireShape
  <1>7. ASSUME NEW a \in Agents,
               \/ \E x \in Ids : Arrive(a, x) \/ Announce(a, x) \/ ClearFile(a, x) \/ UnlinkUnparsed(a, x)
               \/ \E s \in {"gone", "stopped", "running"} : Container(a, s)
               \/ AgentRestart(a) \/ TapConnect(a) \/ TapSnapshot(a) \/ TapSeed(a)
               \/ TapApply(a) \/ TapLost(a)
        PROVE  WireShape'
    BY <1>6, <1>7 DEF Arrive, Announce, ClearFile, UnlinkUnparsed, Container, AgentRestart, TapConnect,
       TapSnapshot, TapSeed, TapApply, TapLost
  <1>8. CASE Poll \/ GatewayChange \/ Subscribe \/ UNCHANGED vars
    BY <1>6, <1>8 DEF Poll, GatewayChange, Subscribe, vars
  <1> QED BY <1>1, <1>2, <1>3, <1>4, <1>5, <1>7, <1>8 DEF Next, Agent, Gateway, Session

\* The initial state has its types.
LEMMA ShapeInit == Init => Shape
  <1> SUFFICES ASSUME Init PROVE Shape
    OBVIOUS
  <1>1. AgentShape
    BY DEF Init, AgentShape
  <1>2. SubShape
    <2>1. <<>> \in Seq(Event) /\ <<>> \in Seq(NoteEvent) /\ Len(<<>>) <= SubMax
      BY BoundsAssumption
    <2> QED BY <2>1 DEF Init, SubShape
  <1>3. HubShape
    BY PartialEmpty DEF Init, HubShape, Pendings
  <1>4. SessionShape
    <2> DEFINE D == {b \in Agents : container[b] # "gone"}
               r == [a \in D |-> IF a \in Steady THEN "starting" ELSE "stopped"]
    <2>1. D \subseteq Agents /\ r \in [D -> Statuses] /\ DOMAIN r = D /\ agents = r
      BY DEF Init, Statuses
    <2> HIDE DEF D, r
    <2>2. agents \in Partial(Agents, Statuses)
      BY <2>1, PartialIs
    <2>3. <<>> \in Partial(Agents, Statuses) /\ <<>> \in Pendings
      BY PartialEmpty DEF Pendings
    <2> QED BY <2>2, <2>3 DEF Init, SessionShape
  <1>5. CountShape
    BY BoundsAssumption DEF Init, CountShape
  <1>6. WireShape
    <2>1. <<>> \in Partial(Agents, Node)
      BY PartialEmpty
    <2>2. NoTree \in Tree
      <3>1. 0 \in 0 .. MaxChanges
        BY BoundsAssumption
      <3> QED BY <2>1, <3>1, TreeMake DEF NoTree
    <2>3. <<>> \in Seq(Frame)
      OBVIOUS
    <2> QED BY <2>2, <2>3 DEF Init, WireShape
  <1> QED BY <1>1, <1>2, <1>3, <1>4, <1>5, <1>6 DEF Shape

\* Every step keeps the types.
LEMMA ShapeStep ==
    ASSUME Shape, [Next]_vars PROVE Shape'
  BY AgentShapeStep, SubShapeStep, HubShapeStep, SessionShapeStep, CountShapeStep, WireShapeStep
     DEF Shape

\* The variables keep their types: in particular the queue of a tap never holds
\* more than its limit, however slow the tap is, and every frame under way and
\* the client's tree are well formed.
THEOREM FeedTypes == Spec => []TypeOK
  <1>1. Init => Shape
    BY ShapeInit
  <1>2. Shape /\ [Next]_vars => Shape'
    BY ShapeStep
  <1>3. Shape => TypeOK
    <2> SUFFICES ASSUME Shape PROVE TypeOK
      OBVIOUS
    <2>1. \A a \in Agents : sub[a] \in Seq(Event) /\ Len(sub[a]) <= SubMax
      BY DEF Shape, SubShape
    <2>2. AgentShape /\ HubShape /\ SessionShape /\ CountShape /\ WireShape
      BY DEF Shape
    <2> QED BY <2>1, <2>2 DEF AgentShape, HubShape, SessionShape, CountShape, WireShape, Pendings, TypeOK
  <1> QED BY <1>1, <1>2, <1>3, PTL DEF Spec

----------------------------------------------------------------------------
(* The tap: subscribe, list, reseed, follow.                                *)

\* A step that leaves the tap of b, what was announced and what the hub holds
\* of b, and takes away none of its parseable files, keeps Feed.
LEMMA FeedFrame ==
    ASSUME NEW b \in Agents, Feed(b), told'[b] = told[b], disk[b] \ Malformed \subseteq disk'[b],
           tap'[b] = tap[b], sub'[b] = sub[b], snap'[b] = snap[b],
           b \in DOMAIN hub => b \in DOMAIN hub' /\ hub'[b] = hub[b]
    PROVE  Feed(b)'
  <1>1. Subscribed(b)' <=> Subscribed(b)
    BY DEF Subscribed
  <1>2. Evicted(sub'[b]) <=> Evicted(sub[b])
    OBVIOUS
  <1>3. \A B : Level(b, B) => \A x \in Ids : NoneIn(sub'[b], About(x)) =>
                   (x \in told'[b] => x \in B) /\ (x \in B => x \in disk'[b] \cup Malformed)
    BY DEF Level
  <1>4. told'[b] \subseteq disk'[b] \ Malformed
    BY DEF Feed
  <1>5. ASSUME Subscribed(b), ~Evicted(sub[b])
        PROVE  /\ \A x \in Ids : \A e : LastIn(sub'[b], About(x), e) => (e.kind = "added" <=> x \in told'[b])
               /\ tap'[b] = "sent" => Level(b, snap[b])'
               /\ tap'[b] = "live" => b \in DOMAIN hub' /\ Level(b, hub[b])'
    <2>1. /\ \A x \in Ids : \A e : LastIn(sub[b], About(x), e) => (e.kind = "added" <=> x \in told[b])
          /\ tap[b] = "sent" => Level(b, snap[b])
          /\ tap[b] = "live" => b \in DOMAIN hub /\ Level(b, hub[b])
      BY <1>5 DEF Feed
    <2>2. tap'[b] = "sent" => Level(b, snap[b])'
      BY <1>3, <2>1 DEF Level
    <2>3. tap'[b] = "live" => b \in DOMAIN hub' /\ Level(b, hub[b])'
      BY <1>3, <2>1 DEF Level
    <2>4. \A x \in Ids : \A e : LastIn(sub'[b], About(x), e) => (e.kind = "added" <=> x \in told'[b])
      BY <2>1
    <2> QED BY <2>2, <2>3, <2>4
  <1> QED BY <1>1, <1>2, <1>4, <1>5 DEF Feed

\* An announcement or a clearing: the event that joins the queue is then the
\* last one about its notification.
LEMMA FeedEmit ==
    ASSUME Shape, Feeds, NEW a \in Agents, NEW x \in Ids, Announce(a, x) \/ ClearFile(a, x)
    PROVE  Feeds'
  <1> USE DEF agentVars, tapVars
  <1> DEFINE k == IF Announce(a, x) THEN "added" ELSE "cleared"
             e == [kind |-> k, id |-> x]
  <1>1. SubShape /\ AgentShape
    BY DEF Shape
  <1>2. told \in [Agents -> SUBSET Ids] /\ disk \in [Agents -> SUBSET Ids]
    BY <1>1 DEF AgentShape
  <1>3. e \in NoteEvent /\ e \in About(x) /\ \A y \in Ids : y # x => e \notin About(y)
    BY DEF NoteEvent, About
  <1>4. k \in {"added", "cleared"} /\ (k = "added" <=> Announce(a, x)) /\ e.kind = k
    OBVIOUS
  <1>5. UNCHANGED <<tap, snap, hub>> /\ Emit(a, e)
    BY DEF Announce, ClearFile
  <1>6. /\ \A b \in Agents : b # a => told'[b] = told[b] /\ disk'[b] = disk[b]
        /\ told'[a] \subseteq disk'[a] \ Malformed /\ (x \in told'[a] <=> k = "added")
        /\ \A y \in Ids : y # x => (y \in told'[a] <=> y \in told[a]) /\ (y \in disk[a] <=> y \in disk'[a])
    <2>1. told[a] \subseteq disk[a] \ Malformed
      BY DEF Feeds, Feed
    <2>2. CASE Announce(a, x)
      BY <1>2, <1>4, <2>1, <2>2 DEF Announce
    <2>3. CASE ~Announce(a, x)
      <3>1. ClearFile(a, x)
        BY <2>3
      <3> QED BY <1>2, <1>4, <2>1, <2>3, <3>1 DEF ClearFile
    <2> QED BY <2>2, <2>3
  <1> HIDE DEF e, k
  <1>7. /\ \A b \in Agents : b # a => sub'[b] = sub[b]
        /\ Subscribed(a) /\ ~Evicted(sub'[a])
             => ~Evicted(sub[a]) /\ sub[a] \in Seq(NoteEvent) /\ sub'[a] = Append(sub[a], e)
    BY <1>1, <1>3, <1>5, EmitIs
  <1>8. ASSUME NEW b \in Agents, b # a PROVE Feed(b)'
    <2>1. Feed(b)
      BY DEF Feeds
    <2>2. told'[b] = told[b] /\ disk[b] \subseteq disk'[b] /\ tap'[b] = tap[b] /\ snap'[b] = snap[b]
      BY <1>5, <1>6, <1>8
    <2>3. sub'[b] = sub[b] /\ (b \in DOMAIN hub => b \in DOMAIN hub' /\ hub'[b] = hub[b])
      BY <1>5, <1>7, <1>8
    <2> QED BY <2>1, <2>2, <2>3, FeedFrame
  <1>9. Feed(a)'
    <2>1. Subscribed(a)' <=> Subscribed(a)
      BY <1>5 DEF Subscribed
    <2>2. ASSUME Subscribed(a), ~Evicted(sub'[a])
          PROVE  /\ \A y \in Ids : \A f : LastIn(sub'[a], About(y), f) => (f.kind = "added" <=> y \in told'[a])
                 /\ tap'[a] = "sent" => Level(a, snap[a])'
                 /\ tap'[a] = "live" => a \in DOMAIN hub' /\ Level(a, hub[a])'
      <3>1. ~Evicted(sub[a]) /\ sub[a] \in Seq(NoteEvent) /\ sub'[a] = Append(sub[a], e)
        BY <1>7, <2>2
      <3>2. /\ \A y \in Ids : \A f : LastIn(sub[a], About(y), f) => (f.kind = "added" <=> y \in told[a])
            /\ tap[a] = "sent" => Level(a, snap[a])
            /\ tap[a] = "live" => a \in DOMAIN hub /\ Level(a, hub[a])
        BY <2>2, <3>1 DEF Feeds, Feed
      <3>3. ASSUME NEW y \in Ids
            PROVE  /\ NoneIn(sub'[a], About(y)) => NoneIn(sub[a], About(y)) /\ e \notin About(y)
                   /\ \A f : LastIn(sub'[a], About(y), f) =>
                         \/ f = e /\ e \in About(y)
                         \/ e \notin About(y) /\ LastIn(sub[a], About(y), f)
        BY <1>3, <3>1, LastAppend
      <3>4. ASSUME NEW y \in Ids, NEW f, LastIn(sub'[a], About(y), f)
            PROVE  f.kind = "added" <=> y \in told'[a]
        <4>1. CASE y = x
          BY <1>3, <1>4, <1>6, <3>3, <3>4, <4>1
        <4>2. CASE y # x
          BY <1>3, <1>6, <3>2, <3>3, <3>4, <4>2
        <4> QED BY <4>1, <4>2
      <3>5. \A B : Level(a, B) => \A y \in Ids : NoneIn(sub'[a], About(y)) =>
                     (y \in told'[a] => y \in B) /\ (y \in B => y \in disk'[a] \cup Malformed)
        <4> SUFFICES ASSUME NEW B, Level(a, B), NEW y \in Ids, NoneIn(sub'[a], About(y))
                     PROVE  (y \in told'[a] => y \in B) /\ (y \in B => y \in disk'[a] \cup Malformed)
          OBVIOUS
        <4>1. y # x /\ NoneIn(sub[a], About(y))
          BY <1>3, <3>3
        <4> QED BY <1>6, <4>1 DEF Level
      <3>6. tap'[a] = "sent" => Level(a, snap[a])'
        BY <1>5, <3>2, <3>5 DEF Level
      <3>7. tap'[a] = "live" => a \in DOMAIN hub' /\ Level(a, hub[a])'
        BY <1>5, <3>2, <3>5 DEF Level
      <3> QED BY <3>4, <3>6, <3>7
    <2> QED BY <1>6, <2>1, <2>2 DEF Feed
  <1> QED BY <1>8, <1>9 DEF Feeds

\* Reading an event: it was the last one about its notification, or a later
\* one still decides.
LEMMA FeedApply ==
    ASSUME Shape, Feeds, NEW a \in Agents, TapApply(a)
    PROVE  Feeds'
  <1> USE DEF agentVars, tapVars
  <1> DEFINE e == Head(sub[a])
             q == Tail(sub[a])
  <1>1. SubShape /\ hub \in Pendings /\ sub \in [Agents -> Seq(Event)]
    BY DEF Shape, HubShape, SubShape
  <1>2. /\ sub[a] # <<>> /\ ~Evicted(sub[a]) /\ sub' = [sub EXCEPT ![a] = q]
        /\ hub' = Applied(hub, a, e) /\ UNCHANGED <<container, disk, told, tap, snap>>
    BY DEF TapApply
  <1>3. sub[a] \in Seq(NoteEvent) /\ e \in NoteEvent
    BY <1>1, <1>2, HeadIsNote
  <1>4. ASSUME NEW y \in Ids
        PROVE  /\ NoneIn(sub[a], About(y)) <=> e \notin About(y) /\ NoneIn(q, About(y))
               /\ \A f : LastIn(sub[a], About(y), f) <=>
                           \/ LastIn(q, About(y), f)
                           \/ NoneIn(q, About(y)) /\ f = e /\ f \in About(y)
    BY <1>2, <1>3, LastTail
  <1>5. sub'[a] = q /\ \A b \in Agents : b # a => sub'[b] = sub[b]
    BY <1>1, <1>2
  <1>6. \A y \in Ids : (e \in About(y) <=> y = e.id)
    BY <1>3 DEF NoteEvent, About
  <1> HIDE DEF e, q
  <1>7. a \in DOMAIN hub' /\ \A b \in DOMAIN hub : b \in DOMAIN hub' /\ (b # a => hub'[b] = hub[b])
    <2>1. /\ DOMAIN Applied(hub, a, e) = DOMAIN hub \cup {a}
          /\ \A b \in DOMAIN hub : b # a => Applied(hub, a, e)[b] = hub[b]
      BY <1>1, <1>3, AppliedIs
    <2> QED BY <1>2, <2>1
  <1>8. ASSUME NEW b \in Agents, b # a PROVE Feed(b)'
    <2>1. Feed(b)
      BY DEF Feeds
    <2>2. told'[b] = told[b] /\ disk[b] \subseteq disk'[b] /\ tap'[b] = tap[b] /\ snap'[b] = snap[b]
      BY <1>2
    <2>3. sub'[b] = sub[b] /\ (b \in DOMAIN hub => b \in DOMAIN hub' /\ hub'[b] = hub[b])
      BY <1>5, <1>7, <1>8
    <2> QED BY <2>1, <2>2, <2>3, FeedFrame
  <1>9. Feed(a)'
    <2>1. Subscribed(a)' => Subscribed(a) /\ tap[a] = "live" /\ tap'[a] = "live"
      BY <1>2 DEF Subscribed, TapApply
    <2>2. told'[a] \subseteq disk'[a] \ Malformed /\ told'[a] = told[a] /\ disk'[a] = disk[a]
      BY <1>2 DEF Feeds, Feed
    <2>3. ASSUME Subscribed(a), tap[a] = "live"
          PROVE  /\ \A y \in Ids : \A f : LastIn(sub'[a], About(y), f) => (f.kind = "added" <=> y \in told'[a])
                 /\ Level(a, hub[a])'
      <3>1. /\ \A y \in Ids : \A f : LastIn(sub[a], About(y), f) => (f.kind = "added" <=> y \in told[a])
            /\ a \in DOMAIN hub /\ Level(a, hub[a])
        BY <1>2, <2>3 DEF Feeds, Feed
      <3>2. ASSUME NEW y \in Ids, NEW f, LastIn(sub'[a], About(y), f)
            PROVE  f.kind = "added" <=> y \in told'[a]
        BY <1>4, <1>5, <2>2, <3>1, <3>2
      <3>3. ASSUME NEW y \in Ids, NoneIn(sub'[a], About(y))
            PROVE  (y \in told'[a] => y \in hub'[a]) /\ (y \in hub'[a] => y \in disk'[a] \cup Malformed)
        <4>1. /\ y = e.id => (y \in hub'[a] <=> e.kind = "added")
              /\ y # e.id => (y \in hub'[a] <=> y \in At(hub, a))
          BY <1>1, <1>2, <1>3, AppliedAt
        <4>2. CASE y = e.id
          <5>1. LastIn(sub[a], About(y), e)
            BY <1>4, <1>5, <1>6, <3>3, <4>2
          <5>2. e.kind = "added" <=> y \in told[a]
            BY <3>1, <5>1
          <5> QED BY <2>2, <4>1, <4>2, <5>2
        <4>3. CASE y # e.id
          <5>1. NoneIn(sub[a], About(y))
            BY <1>4, <1>5, <1>6, <3>3, <4>3
          <5>2. (y \in told[a] => y \in hub[a]) /\ (y \in hub[a] => y \in disk[a] \cup Malformed)
            BY <3>1, <5>1 DEF Level
          <5>3. At(hub, a) = hub[a]
            BY <3>1 DEF At
          <5> QED BY <2>2, <4>1, <4>3, <5>2, <5>3
        <4> QED BY <4>2, <4>3
      <3> QED BY <3>2, <3>3 DEF Level
    <2> QED BY <1>7, <2>1, <2>2, <2>3 DEF Feed
  <1> QED BY <1>8, <1>9 DEF Feeds

\* A tap that is not subscribed promises nothing.
LEMMA FeedIdle ==
    ASSUME NEW a \in Agents, told'[a] \subseteq disk'[a] \ Malformed, tap'[a] \notin {"seeding", "sent", "live"}
    PROVE  Feed(a)'
  BY DEF Feed, Subscribed

\* Every step keeps the taps right.
LEMMA FeedsStep ==
    ASSUME Shape, Feeds, [Next]_vars PROVE Feeds'
  <1> USE DEF agentVars, tapVars
  <1>0. /\ AgentShape /\ SubShape /\ hub \in Pendings
        /\ tap \in [Agents -> {"none", "dialing", "seeding", "sent", "live", "broken"}]
        /\ told \in [Agents -> SUBSET Ids] /\ disk \in [Agents -> SUBSET Ids]
        /\ snap \in [Agents -> SUBSET Ids] /\ sub \in [Agents -> Seq(Event)]
    BY DEF Shape, AgentShape, SubShape, HubShape
  <1>1. \A b \in Agents : Feed(b) /\ told[b] \subseteq disk[b] \ Malformed
    BY DEF Feeds, Feed
  <1>2. ASSUME NEW a \in Agents, NEW x \in Ids, Arrive(a, x) \/ UnlinkUnparsed(a, x) PROVE Feeds'
    <2>1. /\ UNCHANGED <<told, tap, sub, snap, hub>>
          /\ \A b \in Agents : disk[b] \ Malformed \subseteq disk'[b]
      BY <1>0, <1>2 DEF Arrive, UnlinkUnparsed
    <2>2. ASSUME NEW b \in Agents PROVE Feed(b)'
      <3>1. /\ Feed(b) /\ told'[b] = told[b] /\ disk[b] \ Malformed \subseteq disk'[b] /\ tap'[b] = tap[b]
            /\ sub'[b] = sub[b] /\ snap'[b] = snap[b]
            /\ b \in DOMAIN hub => b \in DOMAIN hub' /\ hub'[b] = hub[b]
        BY <1>1, <2>1
      <3> QED BY <3>1, FeedFrame
    <2> QED BY <2>2 DEF Feeds
  <1>3. ASSUME NEW a \in Agents, NEW x \in Ids, Announce(a, x) \/ ClearFile(a, x) PROVE Feeds'
    BY <1>3, FeedEmit
  <1>4. ASSUME NEW a \in Agents, Feed(a)',
               \A b \in Agents : b # a => /\ told'[b] = told[b] /\ disk'[b] = disk[b] /\ tap'[b] = tap[b]
                                          /\ sub'[b] = sub[b] /\ snap'[b] = snap[b]
                                          /\ b \in DOMAIN hub => b \in DOMAIN hub' /\ hub'[b] = hub[b]
        PROVE  Feeds'
    <2>1. ASSUME NEW b \in Agents, b # a PROVE Feed(b)'
      <3>1. /\ Feed(b) /\ told'[b] = told[b] /\ disk[b] \subseteq disk'[b] /\ tap'[b] = tap[b]
            /\ sub'[b] = sub[b] /\ snap'[b] = snap[b]
            /\ b \in DOMAIN hub => b \in DOMAIN hub' /\ hub'[b] = hub[b]
        BY <1>1, <1>4, <2>1
      <3> QED BY <3>1, FeedFrame
    <2> QED BY <1>4, <2>1 DEF Feeds
  <1>5. \A a \in Agents : PeerGone(a) \notin {"seeding", "sent", "live"}
    BY <1>0 DEF PeerGone
  <1>6. ASSUME NEW a \in Agents, AgentRestart(a) PROVE Feeds'
    <2>1. /\ told' = [told EXCEPT ![a] = {}] /\ tap' = [tap EXCEPT ![a] = PeerGone(a)]
          /\ UNCHANGED <<disk, sub, snap, hub>>
      BY <1>6 DEF AgentRestart
    <2>2. told'[a] = {} /\ tap'[a] = PeerGone(a) /\ \A b \in Agents : b # a => told'[b] = told[b] /\ tap'[b] = tap[b]
      BY <1>0, <2>1
    <2>3. Feed(a)'
      BY <1>5, <2>2, FeedIdle
    <2> QED BY <1>4, <2>1, <2>2, <2>3
  <1>7. ASSUME NEW a \in Agents, NEW s \in {"gone", "stopped", "running"}, Container(a, s) PROVE Feeds'
    <2>1. /\ told' = [told EXCEPT ![a] = {}] /\ tap' = [tap EXCEPT ![a] = PeerGone(a)]
          /\ disk' = [disk EXCEPT ![a] = IF s = "gone" THEN {} ELSE disk[a]]
          /\ UNCHANGED <<sub, snap, hub>>
      BY <1>7 DEF Container
    <2>2. /\ told'[a] = {} /\ tap'[a] = PeerGone(a)
          /\ \A b \in Agents : b # a => told'[b] = told[b] /\ tap'[b] = tap[b] /\ disk'[b] = disk[b]
      BY <1>0, <2>1
    <2>3. Feed(a)'
      BY <1>5, <2>2, FeedIdle
    <2> QED BY <1>4, <2>1, <2>2, <2>3
  <1>8. ASSUME NEW a \in Agents, TapConnect(a) PROVE Feeds'
    <2>1. /\ tap' = [tap EXCEPT ![a] = "seeding"] /\ sub' = [sub EXCEPT ![a] = <<>>]
          /\ UNCHANGED <<told, disk, snap, hub>>
      BY <1>8 DEF TapConnect
    <2>2. /\ tap'[a] = "seeding" /\ sub'[a] = <<>>
          /\ \A b \in Agents : b # a => sub'[b] = sub[b] /\ tap'[b] = tap[b]
      BY <1>0, <2>1
    <2>3. \A x \in Ids : \A e : ~LastIn(sub'[a], About(x), e)
      BY <2>2, LastEmpty
    <2>4. Feed(a)'
      BY <1>1, <2>1, <2>2, <2>3 DEF Feed
    <2> QED BY <1>4, <2>1, <2>2, <2>4
  <1>9. ASSUME NEW a \in Agents, TapSnapshot(a) PROVE Feeds'
    <2>1. /\ tap[a] = "seeding" /\ tap' = [tap EXCEPT ![a] = "sent"]
          /\ snap' = [snap EXCEPT ![a] = disk[a]] /\ UNCHANGED <<told, disk, sub, hub>>
      BY <1>9 DEF TapSnapshot
    <2>2. /\ tap'[a] = "sent" /\ snap'[a] = disk[a]
          /\ \A b \in Agents : b # a => snap'[b] = snap[b] /\ tap'[b] = tap[b]
      BY <1>0, <2>1
    <2>3. Level(a, snap[a])'
      BY <1>1, <2>1, <2>2 DEF Level
    <2>4. ~Evicted(sub[a]) =>
             \A x \in Ids : \A e : LastIn(sub[a], About(x), e) => (e.kind = "added" <=> x \in told[a])
      BY <1>1, <2>1 DEF Feed, Subscribed
    <2>5. Feed(a)'
      BY <1>1, <2>1, <2>2, <2>3, <2>4 DEF Feed
    <2> QED BY <1>4, <2>1, <2>2, <2>5
  <1>10. ASSUME NEW a \in Agents, TapSeed(a) PROVE Feeds'
    <2>1. /\ tap[a] = "sent" /\ tap' = [tap EXCEPT ![a] = "live"]
          /\ snap' = [snap EXCEPT ![a] = {}] /\ hub' = Put(hub, a, snap[a])
          /\ UNCHANGED <<told, disk, sub>>
      BY <1>10 DEF TapSeed, Seeded
    <2>2. /\ tap'[a] = "live" /\ snap[a] \in SUBSET Ids
          /\ \A b \in Agents : b # a => snap'[b] = snap[b] /\ tap'[b] = tap[b]
      BY <1>0, <2>1
    <2>3. /\ DOMAIN Put(hub, a, snap[a]) = DOMAIN hub \cup {a} /\ Put(hub, a, snap[a])[a] = snap[a]
          /\ \A b \in DOMAIN hub \ {a} : Put(hub, a, snap[a])[b] = hub[b]
      BY <1>0, <2>2, HubPut
    <2>4. /\ a \in DOMAIN hub' /\ hub'[a] = snap[a]
          /\ \A b \in Agents : b # a => (b \in DOMAIN hub => b \in DOMAIN hub' /\ hub'[b] = hub[b])
      BY <2>1, <2>3
    <2>5. ~Evicted(sub[a]) =>
            /\ \A x \in Ids : \A e : LastIn(sub[a], About(x), e) => (e.kind = "added" <=> x \in told[a])
            /\ Level(a, snap[a])
      BY <1>1, <2>1 DEF Feed, Subscribed
    <2>6. ~Evicted(sub[a]) => Level(a, hub[a])'
      BY <2>1, <2>4, <2>5 DEF Level
    <2>7. Feed(a)'
      BY <1>1, <2>1, <2>2, <2>4, <2>5, <2>6 DEF Feed
    <2> QED BY <1>4, <2>1, <2>2, <2>4, <2>7
  <1>11. ASSUME NEW a \in Agents, TapApply(a) PROVE Feeds'
    BY <1>11, FeedApply
  <1>12. ASSUME NEW a \in Agents, TapLost(a) PROVE Feeds'
    <2>1. /\ tap' = [tap EXCEPT ![a] = "dialing"] /\ sub' = [sub EXCEPT ![a] = <<>>]
          /\ snap' = [snap EXCEPT ![a] = {}] /\ UNCHANGED <<told, disk, hub>>
      BY <1>12 DEF TapLost
    <2>2. /\ tap'[a] = "dialing"
          /\ \A b \in Agents : b # a => snap'[b] = snap[b] /\ tap'[b] = tap[b] /\ sub'[b] = sub[b]
      BY <1>0, <2>1
    <2>3. Feed(a)'
      BY <1>1, <2>1, <2>2, FeedIdle
    <2> QED BY <1>4, <2>1, <2>2, <2>3
  <1>13. CASE Poll
    <2>1. ASSUME NEW b \in Agents
          PROVE  \/ tap'[b] \in {"none", "dialing"}
                 \/ tap'[b] = tap[b] /\ sub'[b] = sub[b] /\ snap'[b] = snap[b] /\ Running(b)
      BY <1>13, <2>1 DEF Poll
    <2>2. UNCHANGED <<told, disk>>
      BY <1>13 DEF Poll
    <2>3. \A b \in Agents : Running(b) /\ b \in DOMAIN hub => b \in DOMAIN hub' /\ hub'[b] = hub[b]
      BY <1>13, PollHub
    <2>4. ASSUME NEW b \in Agents PROVE Feed(b)'
      <3>1. CASE tap'[b] \in {"none", "dialing"}
        BY <1>1, <2>2, <3>1, FeedIdle
      <3>2. CASE tap'[b] = tap[b] /\ sub'[b] = sub[b] /\ snap'[b] = snap[b] /\ Running(b)
        <4>1. /\ Feed(b) /\ told'[b] = told[b] /\ disk[b] \subseteq disk'[b]
              /\ b \in DOMAIN hub => b \in DOMAIN hub' /\ hub'[b] = hub[b]
          BY <1>1, <2>2, <2>3, <3>2
        <4> QED BY <3>2, <4>1, FeedFrame
      <3> QED BY <2>1, <3>1, <3>2
    <2> QED BY <2>4 DEF Feeds
  <1>14. CASE GatewayChange \/ Session \/ UNCHANGED vars
    <2>1. UNCHANGED <<told, disk, tap, sub, snap, hub>>
      BY <1>14 DEF GatewayChange, Session, Subscribe, SendSnapshot, EmitRoster,
         EmitNotifications, Disconnect, Receive, vars
    <2> QED BY <2>1 DEF Feeds, Feed, Level, Subscribed
  <1> QED BY <1>2, <1>3, <1>6, <1>7, <1>8, <1>9, <1>10, <1>11, <1>12, <1>13, <1>14
          DEF Next, Agent, Gateway

\* A live tap with nothing left to read holds everything the agent announced
\* and nothing it cleared, whatever was announced or cleared between the
\* subscribe, the listing and the reseed, and however often the queue was
\* evicted, the connection lost or the agent restarted.  What it may hold and
\* the agent does not have is a listed file that never parsed.
THEOREM HubFollows == Spec => []HubTracksAgent
  <1>1. Init => Shape /\ Feeds
    <2> SUFFICES ASSUME Init PROVE Feeds
      BY ShapeInit
    <2>1. ASSUME NEW a \in Agents PROVE Feed(a)
      BY <2>1 DEF Init, Feed, Subscribed
    <2> QED BY <2>1 DEF Feeds
  <1>2. Shape /\ Feeds /\ [Next]_vars => Shape' /\ Feeds'
    BY ShapeStep, FeedsStep
  <1>3. Shape /\ Feeds => HubTracksAgent
    <2> SUFFICES ASSUME Shape, Feeds, NEW a \in Agents, tap[a] = "live", sub[a] = <<>>
                 PROVE  a \in DOMAIN hub /\ told[a] \subseteq hub[a] /\ hub[a] \ Malformed \subseteq disk[a]
      BY DEF HubTracksAgent
    <2>1. ~Evicted(sub[a]) /\ Subscribed(a) /\ \A x \in Ids : NoneIn(sub[a], About(x))
      BY LastEmpty DEF Evicted, Subscribed
    <2>2. a \in DOMAIN hub /\ Level(a, hub[a])
      BY <2>1 DEF Feeds, Feed
    <2>3. told[a] \subseteq Ids /\ hub[a] \subseteq Ids
      <3>1. hub \in [DOMAIN hub -> SUBSET Ids]
        BY PartialIs DEF Shape, HubShape, Pendings
      <3>2. told \in [Agents -> SUBSET Ids]
        BY DEF Shape, AgentShape
      <3> QED BY <2>2, <3>1, <3>2
    <2> QED BY <2>1, <2>2, <2>3 DEF Level
  <1> QED BY <1>1, <1>2, <1>3, PTL DEF Spec

----------------------------------------------------------------------------
(* The session and the client.                                              *)

\* A frame sets the gateway branch to what it says of it, or leaves it.
LEMMA ReduceGate ==
    ASSUME NEW t \in Tree, NEW f \in Frame
    PROVE  /\ f \in GateFrames => Reduce(t, f).gateway = GateSaid(f)
           /\ f \notin GateFrames => Reduce(t, f).gateway = t.gateway
  <1>1. CASE f.type = "snapshot"
    BY <1>1, ReduceSnapshot DEF GateFrames, GateSaid
  <1>2. CASE f.type = "state"
    BY <1>2, ReduceState DEF GateFrames, GateSaid
  <1>3. CASE f.type = "agent"
    BY <1>3, ReduceAgent DEF GateFrames
  <1>4. CASE f.type = "agent_removed"
    BY <1>4, ReduceRemoved DEF GateFrames
  <1>5. CASE f.type = "agent_notifications"
    BY <1>5, ReduceNotifications DEF GateFrames
  <1> QED BY <1>1, <1>2, <1>3, <1>4, <1>5, FrameKinds

\* A frame sets the row of a to what it says of it, or leaves it.
LEMMA ReduceRow ==
    ASSUME NEW t \in Tree, NEW f \in Frame, NEW a \in Agents
    PROVE  /\ f \in RowFrames(a) => RowOf(Reduce(t, f).agents, a) = RowSaid(f, a)
           /\ f \notin RowFrames(a) => RowOf(Reduce(t, f).agents, a) = RowOf(t.agents, a)
  <1> DEFINE r == Reduce(t, f)
  <1>1. CASE f.type = "snapshot"
    BY <1>1, ReduceSnapshot DEF RowFrames, RowSaid
  <1>2. CASE f.type = "state"
    BY <1>2, ReduceState DEF RowFrames
  <1>3. CASE f.type = "agent"
    <2>1. /\ DOMAIN r.agents = DOMAIN t.agents \cup {f.name} /\ r.agents[f.name].info = f.info
          /\ \A b \in DOMAIN t.agents \ {f.name} : r.agents[b] = t.agents[b]
      BY <1>3, ReduceAgent
    <2> HIDE DEF r
    <2>2. CASE f.name = a
      BY <1>3, <2>1, <2>2 DEF RowFrames, RowSaid, RowOf, r
    <2>3. CASE f.name # a
      BY <1>3, <2>1, <2>3 DEF RowFrames, RowOf, r
    <2> QED BY <2>2, <2>3
  <1>4. CASE f.type = "agent_removed"
    <2>1. /\ DOMAIN r.agents = DOMAIN t.agents \ {f.name}
          /\ \A b \in DOMAIN t.agents \ {f.name} : r.agents[b] = t.agents[b]
      BY <1>4, ReduceRemoved
    <2> HIDE DEF r
    <2>2. CASE f.name = a
      BY <1>4, <2>1, <2>2 DEF RowFrames, RowSaid, RowOf, r
    <2>3. CASE f.name # a
      BY <1>4, <2>1, <2>3 DEF RowFrames, RowOf, r
    <2> QED BY <2>2, <2>3
  <1>5. CASE f.type = "agent_notifications"
    <2>1. /\ DOMAIN r.agents = DOMAIN t.agents
          /\ \A b \in DOMAIN t.agents : r.agents[b].info = t.agents[b].info
      BY <1>5, ReduceNotifications
    <2> HIDE DEF r
    <2> QED BY <1>5, <2>1 DEF RowFrames, RowOf, r
  <1> QED BY <1>1, <1>2, <1>3, <1>4, <1>5, FrameKinds

\* What the frames that follow one another do to what the last of them decides:
\* reading one keeps the decision.
LEMMA MirrorReceive ==
    ASSUME Shape, Mirror, Receive PROVE Mirror'
  <1> USE DEF agentVars, tapVars, sessionVars
  <1> DEFINE f == Head(wire)
             w == Tail(wire)
  <1>1. /\ wire # <<>> /\ wire \in Seq(Frame) /\ tree \in Tree /\ wire' = w /\ tree' = Reduce(tree, f)
        /\ sess' = sess /\ lastRoster' = lastRoster /\ lastGateway' = lastGateway
    BY DEF Shape, WireShape, Receive
  <1>2. f \in Frame
    BY <1>1
  <1>3. ASSUME NEW M
        PROVE  /\ NoneIn(wire, M) <=> f \notin M /\ NoneIn(w, M)
               /\ \A g : LastIn(w, M, g) => LastIn(wire, M, g)
               /\ NoneIn(w, M) /\ f \in M => LastIn(wire, M, f)
    BY <1>1, LastTail
  <1> HIDE DEF f, w
  <1>4. SUFFICES ASSUME sess = "ready"
                 PROVE  /\ \A g : LastIn(w, GateFrames, g) => GateSaid(g) = lastGateway
                        /\ NoneIn(w, GateFrames) => tree'.gateway = lastGateway
                        /\ \A a \in Agents :
                             /\ \A g : LastIn(w, RowFrames(a), g) => RowSaid(g, a) = SentRow(a)
                             /\ NoneIn(w, RowFrames(a)) => RowOf(tree'.agents, a) = SentRow(a)
    BY <1>1 DEF Mirror, SentRow
  <1>5. /\ \A g : LastIn(wire, GateFrames, g) => GateSaid(g) = lastGateway
        /\ NoneIn(wire, GateFrames) => tree.gateway = lastGateway
        /\ \A a \in Agents :
             /\ \A g : LastIn(wire, RowFrames(a), g) => RowSaid(g, a) = SentRow(a)
             /\ NoneIn(wire, RowFrames(a)) => RowOf(tree.agents, a) = SentRow(a)
    BY <1>4 DEF Mirror
  <1>6. \A g : LastIn(w, GateFrames, g) => GateSaid(g) = lastGateway
    BY <1>3, <1>5
  <1>7. NoneIn(w, GateFrames) => tree'.gateway = lastGateway
    BY <1>1, <1>2, <1>3, <1>5, ReduceGate
  <1>8. ASSUME NEW a \in Agents
        PROVE  /\ \A g : LastIn(w, RowFrames(a), g) => RowSaid(g, a) = SentRow(a)
               /\ NoneIn(w, RowFrames(a)) => RowOf(tree'.agents, a) = SentRow(a)
    <2>1. \A g : LastIn(w, RowFrames(a), g) => RowSaid(g, a) = SentRow(a)
      BY <1>3, <1>5
    <2>2. /\ f \in RowFrames(a) => RowOf(tree'.agents, a) = RowSaid(f, a)
          /\ f \notin RowFrames(a) => RowOf(tree'.agents, a) = RowOf(tree.agents, a)
      BY <1>1, <1>2, ReduceRow
    <2>3. NoneIn(w, RowFrames(a)) => RowOf(tree'.agents, a) = SentRow(a)
      BY <1>3, <1>5, <2>2
    <2> QED BY <2>1, <2>3
  <1> QED BY <1>6, <1>7, <1>8

\* A snapshot says it all.
LEMMA MirrorSnapshot ==
    ASSUME Shape, SendSnapshot PROVE Mirror'
  <1> DEFINE t == BuildTree(gateway, lastRoster, hub)
             f == [type |-> "snapshot", tree |-> t]
  <1>1. /\ t \in Tree /\ t.gateway = gateway /\ DOMAIN t.agents = DOMAIN lastRoster
        /\ \A a \in DOMAIN lastRoster : t.agents[a].info = lastRoster[a]
        /\ f \in Frame
    BY SnapshotIs
  <1>2. wire' = <<f>> /\ lastGateway' = gateway /\ lastRoster' = lastRoster
    BY DEF SendSnapshot
  <1> HIDE DEF t
  <1>3. f.type = "snapshot" /\ f.tree = t
    OBVIOUS
  <1> HIDE DEF f
  <1>4. f \in GateFrames /\ GateSaid(f) = gateway /\ \A a \in Agents : f \in RowFrames(a)
    BY <1>1, <1>3 DEF GateFrames, GateSaid, RowFrames
  <1>5. \A a \in Agents : RowSaid(f, a) = SentRow(a)'
    BY <1>1, <1>2, <1>3 DEF RowSaid, RowOf, SentRow
  <1>6. ASSUME NEW M, f \in M PROVE ~NoneIn(wire', M) /\ \A g : LastIn(wire', M, g) => g = f
    BY <1>1, <1>2, <1>6, LastOne
  <1> QED BY <1>2, <1>4, <1>5, <1>6 DEF Mirror

\* The row frames and the gateway frame of EmitRoster.
Rows == UpFrames(Upserts(lastRoster, agents), agents) \cup GoneFrames(DOMAIN lastRoster \ DOMAIN agents)
StateFrame == [type |-> "state", value |-> gateway]
\* The last frame of a kind M after the roster was sent: the gateway branch, a
\* row, or one that was already under way.
LEMMA RosterLast ==
    ASSUME Shape, EmitRoster, NEW M
    PROVE  /\ NoneIn(wire', M) <=> /\ NoneIn(wire, M) /\ \A r \in Rows : r \notin M
                                   /\ gateway # lastGateway => StateFrame \notin M
           /\ \A f : LastIn(wire', M, f) =>
                /\ f \in M
                /\ \/ f = StateFrame /\ gateway # lastGateway
                   \/ f \in Rows
                   \/ /\ LastIn(wire, M, f) /\ \A r \in Rows : r \notin M
                      /\ gateway # lastGateway => StateFrame \notin M
  <1> DEFINE R == UpSeq \o GoneSeq
             v == wire \o R
             U == UpFrames(Upserts(lastRoster, agents), agents)
             G == GoneFrames(DOMAIN lastRoster \ DOMAIN agents)
  <1>1. /\ wire' = v \o GateSeq /\ wire \in Seq(Frame)
        /\ UpSeq \in Seq(Frame) /\ GoneSeq \in Seq(Frame) /\ GateSeq \in Seq(Frame)
        /\ IsFiniteSet(U) /\ IsFiniteSet(G) /\ UpSeq = SetToSeq(U) /\ GoneSeq = SetToSeq(G)
    BY EmitRosterIs DEF UpSeq, GoneSeq
  <1>2. Rows = U \cup G
    BY DEF Rows
  <1> HIDE DEF U, G
  <1>3. /\ NoneIn(UpSeq, M) <=> U \cap M = {}
        /\ \A f : LastIn(UpSeq, M, f) => f \in U
        /\ NoneIn(GoneSeq, M) <=> G \cap M = {}
        /\ \A f : LastIn(GoneSeq, M, f) => f \in G
    BY <1>1, LastSetToSeq
  <1>4. /\ R \in Seq(Frame) /\ (NoneIn(R, M) <=> NoneIn(UpSeq, M) /\ NoneIn(GoneSeq, M))
        /\ \A f : LastIn(R, M, f) => LastIn(GoneSeq, M, f) \/ LastIn(UpSeq, M, f)
    BY <1>1, LastConcat
  <1>5. /\ NoneIn(R, M) <=> \A r \in Rows : r \notin M
        /\ \A f : LastIn(R, M, f) => f \in Rows
    BY <1>2, <1>3, <1>4
  <1> HIDE DEF R
  <1>6. /\ v \in Seq(Frame) /\ (NoneIn(v, M) <=> NoneIn(wire, M) /\ NoneIn(R, M))
        /\ \A f : LastIn(v, M, f) => LastIn(R, M, f) \/ (NoneIn(R, M) /\ LastIn(wire, M, f))
    BY <1>1, <1>4, LastConcat
  <1> HIDE DEF v
  <1>7. /\ NoneIn(wire', M) <=> NoneIn(v, M) /\ NoneIn(GateSeq, M)
        /\ \A f : LastIn(wire', M, f) => LastIn(GateSeq, M, f) \/ (NoneIn(GateSeq, M) /\ LastIn(v, M, f))
    BY <1>1, <1>6, LastConcat
  <1>8. /\ NoneIn(GateSeq, M) <=> (gateway # lastGateway => StateFrame \notin M)
        /\ \A f : LastIn(GateSeq, M, f) => f = StateFrame /\ gateway # lastGateway
    <2>1. CASE gateway = lastGateway
      BY <2>1, LastEmpty DEF GateSeq
    <2>2. CASE gateway # lastGateway
      <3>1. GateSeq = <<StateFrame>>
        BY <2>2 DEF GateSeq, StateFrame
      <3>2. StateFrame \in Frame
        BY FrameIs DEF Shape, CountShape, StateFrame
      <3> QED BY <2>2, <3>1, <3>2, LastOne
    <2> QED BY <2>1, <2>2
  <1>9. \A f : LastIn(wire', M, f) => f \in M
    BY DEF LastIn
  <1> QED BY <1>5, <1>6, <1>7, <1>8, <1>9

\* The roster's frames bring the client to the roster sent, agent by agent.
LEMMA MirrorRoster ==
    ASSUME Shape, Mirror, EmitRoster PROVE Mirror'
  <1> USE DEF agentVars, tapVars, sessionVars
  <1>1. /\ sess = "ready" /\ lastRoster' = agents /\ lastGateway' = gateway /\ tree' = tree
    BY DEF EmitRoster, Writable
  <1>2. /\ \A g : LastIn(wire, GateFrames, g) => GateSaid(g) = lastGateway
        /\ NoneIn(wire, GateFrames) => tree.gateway = lastGateway
        /\ \A a \in Agents :
             /\ \A g : LastIn(wire, RowFrames(a), g) => RowSaid(g, a) = SentRow(a)
             /\ NoneIn(wire, RowFrames(a)) => RowOf(tree.agents, a) = SentRow(a)
    BY <1>1 DEF Mirror
  <1>3. StateFrame \in GateFrames /\ GateSaid(StateFrame) = gateway /\ \A a : StateFrame \notin RowFrames(a)
    <2>1. StateFrame \in Frame
      BY FrameIs DEF Shape, CountShape, StateFrame
    <2>2. StateFrame.type = "state" /\ StateFrame.value = gateway
      BY DEF StateFrame
    <2> QED BY <2>1, <2>2 DEF GateFrames, GateSaid, RowFrames
  <1>4. ASSUME NEW r \in Rows
        PROVE  /\ r \notin GateFrames
               /\ \A a \in Agents : r \in RowFrames(a) => RowSaid(r, a) = SentRow(a)'
    <2>1. CASE r \in UpFrames(Upserts(lastRoster, agents), agents)
      <3>1. PICK b \in DOMAIN agents : r = UpFrame(b, agents)
        BY <2>1 DEF UpFrames, Upserts
      <3>2. r.type = "agent" /\ r.name = b /\ r.info = agents[b]
        BY <3>1 DEF UpFrame
      <3> QED BY <1>1, <3>2 DEF GateFrames, RowFrames, RowSaid, SentRow
    <2>2. CASE r \in GoneFrames(DOMAIN lastRoster \ DOMAIN agents)
      <3>1. PICK b \in DOMAIN lastRoster \ DOMAIN agents : r = GoneFrame(b)
        BY <2>2 DEF GoneFrames
      <3>2. r.type = "agent_removed" /\ r.name = b
        BY <3>1 DEF GoneFrame
      <3> QED BY <1>1, <3>2 DEF GateFrames, RowFrames, RowSaid, SentRow
    <2> QED BY <2>1, <2>2 DEF Rows
  <1>5. ASSUME NEW a \in Agents, \A r \in Rows : r \notin RowFrames(a) PROVE SentRow(a)' = SentRow(a)
    <2>0. agents \in Partial(Agents, Statuses) /\ lastRoster \in Partial(Agents, Statuses)
      BY DEF Shape, SessionShape
    <2>1. a \notin Upserts(lastRoster, agents)
      <3> SUFFICES ASSUME a \in Upserts(lastRoster, agents) PROVE FALSE
        OBVIOUS
      <3>1. UpFrame(a, agents) \in Rows
        BY DEF Rows, UpFrames
      <3>2. UpFrame(a, agents) \in Frame
        <4>1. agents[a] \in Statuses
          BY <2>0, PartialIs DEF Upserts
        <4> QED BY <4>1, FrameIs DEF UpFrame
      <3>3. UpFrame(a, agents) \in RowFrames(a)
        BY <3>2 DEF RowFrames, UpFrame
      <3> QED BY <1>5, <3>1, <3>3
    <2>2. a \notin DOMAIN lastRoster \ DOMAIN agents
      <3> SUFFICES ASSUME a \in DOMAIN lastRoster \ DOMAIN agents PROVE FALSE
        OBVIOUS
      <3>1. GoneFrame(a) \in Rows
        BY DEF Rows, GoneFrames
      <3>2. GoneFrame(a) \in Frame
        BY FrameIs DEF GoneFrame
      <3>3. GoneFrame(a) \in RowFrames(a)
        BY <3>2 DEF RowFrames, GoneFrame
      <3> QED BY <1>5, <3>1, <3>3
    <2> QED BY <1>1, <2>1, <2>2 DEF Upserts, SentRow
  <1>6. ASSUME NEW f, LastIn(wire', GateFrames, f) PROVE GateSaid(f) = gateway
    <2>1. /\ f \in GateFrames
          /\ \/ f = StateFrame
             \/ f \in Rows
             \/ LastIn(wire, GateFrames, f) /\ gateway = lastGateway
      BY <1>3, <1>6, RosterLast
    <2> QED BY <1>2, <1>3, <1>4, <2>1
  <1>7. NoneIn(wire', GateFrames) => tree'.gateway = gateway
    <2>1. NoneIn(wire', GateFrames) => NoneIn(wire, GateFrames) /\ gateway = lastGateway
      BY <1>3, RosterLast
    <2> QED BY <1>1, <1>2, <2>1
  <1>8. ASSUME NEW a \in Agents
        PROVE  /\ \A f : LastIn(wire', RowFrames(a), f) => RowSaid(f, a) = SentRow(a)'
               /\ NoneIn(wire', RowFrames(a)) => RowOf(tree'.agents, a) = SentRow(a)'
    <2>1. ASSUME NEW f, LastIn(wire', RowFrames(a), f) PROVE RowSaid(f, a) = SentRow(a)'
      <3>1. /\ f \in RowFrames(a)
            /\ \/ f = StateFrame
               \/ f \in Rows
               \/ LastIn(wire, RowFrames(a), f) /\ \A r \in Rows : r \notin RowFrames(a)
        BY <2>1, RosterLast
      <3>2. CASE f \in Rows
        BY <1>4, <3>1, <3>2
      <3>3. CASE LastIn(wire, RowFrames(a), f) /\ \A r \in Rows : r \notin RowFrames(a)
        BY <1>2, <1>5, <3>3
      <3> QED BY <1>3, <3>1, <3>2, <3>3
    <2>2. ASSUME NoneIn(wire', RowFrames(a)) PROVE RowOf(tree'.agents, a) = SentRow(a)'
      <3>1. NoneIn(wire, RowFrames(a)) /\ \A r \in Rows : r \notin RowFrames(a)
        BY <2>2, RosterLast
      <3> QED BY <1>1, <1>2, <1>5, <3>1
    <2> QED BY <2>1, <2>2
  <1> QED BY <1>1, <1>6, <1>7, <1>8 DEF Mirror

\* The last frame of a kind M after the pending sets were sent.
LEMMA NotesLast ==
    ASSUME Shape, EmitNotifications, NEW M
    PROVE  /\ NoneIn(wire', M) <=> NoneIn(wire, M) /\ \A r \in NoteFrames(Fresh, hub) : r \notin M
           /\ \A f : LastIn(wire', M, f) =>
                /\ f \in M
                /\ \/ f \in NoteFrames(Fresh, hub)
                   \/ LastIn(wire, M, f) /\ \A r \in NoteFrames(Fresh, hub) : r \notin M
  <1> DEFINE S == NoteFrames(Fresh, hub)
             q == SetToSeq(S)
  <1>1. wire' = wire \o q /\ wire \in Seq(Frame) /\ q \in Seq(Frame) /\ IsFiniteSet(S)
    BY EmitNotesIs
  <1> HIDE DEF S
  <1>2. /\ NoneIn(q, M) <=> S \cap M = {}
        /\ \A f : LastIn(q, M, f) => f \in S /\ f \in M
    BY <1>1, LastSetToSeq
  <1> HIDE DEF q
  <1>3. /\ NoneIn(wire', M) <=> NoneIn(wire, M) /\ NoneIn(q, M)
        /\ \A f : LastIn(wire', M, f) => LastIn(q, M, f) \/ (NoneIn(q, M) /\ LastIn(wire, M, f))
    BY <1>1, LastConcat
  <1>4. \A f : LastIn(wire', M, f) => f \in M
    BY DEF LastIn
  <1>5. NoneIn(q, M) <=> \A r \in S : r \notin M
    BY <1>2
  <1> QED BY <1>2, <1>3, <1>4, <1>5 DEF S

\* The kinds of the frames EmitNotifications sends.
LEMMA NoteKind ==
    ASSUME NEW r \in NoteFrames(Fresh, hub)
    PROVE  \E b \in Fresh : r = NoteFrame(b, hub) /\ r.type = "agent_notifications" /\ r.name = b /\ r.pending = hub[b]
  BY DEF NoteFrames, NoteFrame

\* Every step keeps the session and the client agreed on the rows.
LEMMA MirrorStep ==
    ASSUME Shape, Mirror, [Next]_vars PROVE Mirror'
  <1> USE DEF agentVars, tapVars, sessionVars, clientVars
  <1>1. CASE SendSnapshot
    BY <1>1, MirrorSnapshot
  <1>2. CASE EmitRoster
    BY <1>2, MirrorRoster
  <1>3. CASE Receive
    BY <1>3, MirrorReceive
  <1>4. CASE Subscribe \/ Disconnect
    BY <1>4 DEF Subscribe, Disconnect, Mirror
  <1>5. CASE EmitNotifications
    <2>1. UNCHANGED <<sess, lastRoster, lastGateway, tree>>
      BY <1>5 DEF EmitNotifications
    <2>2. \A r \in NoteFrames(Fresh, hub) : r \notin GateFrames /\ \A a : r \notin RowFrames(a)
      BY NoteKind DEF GateFrames, RowFrames
    <2>3. ASSUME NEW M, \A r \in NoteFrames(Fresh, hub) : r \notin M
          PROVE  (NoneIn(wire', M) => NoneIn(wire, M)) /\ \A f : LastIn(wire', M, f) => LastIn(wire, M, f)
      BY <1>5, <2>3, NotesLast
    <2>4. /\ NoneIn(wire', GateFrames) => NoneIn(wire, GateFrames)
          /\ \A f : LastIn(wire', GateFrames, f) => LastIn(wire, GateFrames, f)
      BY <2>2, <2>3
    <2>5. \A a \in Agents : /\ NoneIn(wire', RowFrames(a)) => NoneIn(wire, RowFrames(a))
                            /\ \A f : LastIn(wire', RowFrames(a), f) => LastIn(wire, RowFrames(a), f)
      BY <2>2, <2>3
    <2> QED BY <2>1, <2>4, <2>5 DEF Mirror, SentRow
  <1>6. ASSUME UNCHANGED <<sess, lastRoster, lastGateway, wire, tree>> PROVE Mirror'
    BY <1>6 DEF Mirror, SentRow
  <1>7. ASSUME NEW a \in Agents,
               \/ \E x \in Ids : Arrive(a, x) \/ Announce(a, x) \/ ClearFile(a, x) \/ UnlinkUnparsed(a, x)
               \/ \E s \in {"gone", "stopped", "running"} : Container(a, s)
               \/ AgentRestart(a) \/ TapConnect(a) \/ TapSnapshot(a) \/ TapSeed(a)
               \/ TapApply(a) \/ TapLost(a)
        PROVE  Mirror'
    BY <1>6, <1>7 DEF Arrive, Announce, ClearFile, UnlinkUnparsed, Container, AgentRestart, TapConnect,
       TapSnapshot, TapSeed, TapApply, TapLost
  <1>8. CASE Poll \/ GatewayChange \/ UNCHANGED vars
    BY <1>6, <1>8 DEF Poll, GatewayChange, vars
  <1> QED BY <1>1, <1>2, <1>3, <1>4, <1>5, <1>7, <1>8 DEF Next, Agent, Gateway, Session

----------------------------------------------------------------------------
(* Reading what is under way.  Incoming is defined by recursion on the      *)
(* frames; a least counterexample takes the place of induction.             *)

\* A set of naturals that is not empty has a least element.
LEMMA LeastNumber ==
    ASSUME NEW S, S \subseteq Nat, S # {}
    PROVE  \E n \in S : \A m \in S : n <= m
  <1> DEFINE R == OpToRel(<, Nat)
  <1>1. IsWellFoundedOn(R, Nat)
    BY NatLessThanWellFounded
  <1>2. \A m, n \in Nat : m < n => <<m, n>> \in R
    BY DEF OpToRel
  <1> HIDE DEF R
  <1>3. PICK n \in S : \A m \in S : ~(<<m, n>> \in R)
    BY <1>1, WFMin
  <1>4. ASSUME NEW m \in S PROVE n <= m
    <2>1. m \in Nat /\ n \in Nat /\ ~(m < n)
      BY <1>2, <1>3
    <2> QED BY <2>1
  <1> QED BY <1>4

\* What holds at k, and at each number when it held at the one before, holds up to n.
LEMMA UpTo ==
    ASSUME NEW n \in Nat, NEW k \in 0 .. n, NEW A, k \in A,
           \A i \in 1 .. n : i > k /\ i - 1 \in A => i \in A
    PROVE  \A i \in k .. n : i \in A
  <1> DEFINE B == {i \in k .. n : i \notin A}
  <1> SUFFICES ASSUME B # {} PROVE FALSE
    OBVIOUS
  <1>1. B \subseteq Nat
    OBVIOUS
  <1>2. PICK i \in B : \A j \in B : i <= j
    BY <1>1, LeastNumber
  <1>3. i \in 1 .. n /\ i > k /\ i \notin A /\ i - 1 \in k .. n /\ ~(i <= i - 1)
    BY <1>2
  <1>4. i - 1 \in A
    BY <1>2, <1>3
  <1> QED BY <1>3, <1>4

\* A sequence has a last element in M, or none.
LEMMA LastOrNone ==
    ASSUME NEW S, NEW w \in Seq(S), NEW M
    PROVE  NoneIn(w, M) \/ \E f : LastIn(w, M, f)
  <1> DEFINE n == Len(w)
             D == {d \in 0 .. n : n - d \in 1 .. n /\ w[n - d] \in M}
  <1> SUFFICES ASSUME NEW i \in 1 .. n, w[i] \in M PROVE \E f : LastIn(w, M, f)
    BY DEF NoneIn
  <1>1. n \in Nat /\ n - i \in 0 .. n /\ n - (n - i) = i
    OBVIOUS
  <1>2. D \subseteq Nat /\ D # {}
    <2>1. w[n - (n - i)] \in M
      BY <1>1
    <2>2. n - i \in D
      BY <1>1, <2>1
    <2>3. D \subseteq Nat
      BY <1>1
    <2> QED BY <2>2, <2>3
  <1>3. PICK d \in D : \A e \in D : d <= e
    BY <1>2, LeastNumber
  <1>4. n - d \in 1 .. n /\ w[n - d] \in M
    BY <1>3
  <1>5. ASSUME NEW j \in 1 .. n, j > n - d PROVE w[j] \notin M
    <2>1. n - j \in 0 .. n /\ n - (n - j) = j /\ ~(d <= n - j)
      BY <1>1, <1>3, <1>5
    <2> QED BY <1>3, <2>1
  <1> QED BY <1>4, <1>5 DEF LastIn

\* Reading the frames under way goes from tree to tree, and ends at Incoming.
LEMMA IncomingRead ==
    ASSUME WireShape
    PROVE  \E r : Reads(r) /\ Incoming = r[Len(wire)]
  <1> DEFINE n == Len(wire)
             Run(f, m) == f = [i \in 0 .. m |-> IF i = 0 THEN tree ELSE Reduce(f[i - 1], wire[i])]
             r == CHOOSE f : Run(f, n)
             A == {m \in 0 .. n : \E f : Run(f, m)}
             T == {i \in 0 .. n : r[i] \in Tree}
  <1>1. n \in Nat /\ tree \in Tree /\ \A i \in 1 .. n : wire[i] \in Frame
    BY DEF WireShape
  <1>2. Incoming = r[n]
    BY Zenon DEF Incoming
  <1> HIDE DEF r
  <1>3. 0 \in A
    <2> DEFINE g == [i \in 0 .. 0 |-> tree]
    <2>1. \A i \in 0 .. 0 : g[i] = IF i = 0 THEN tree ELSE Reduce(g[i - 1], wire[i])
      OBVIOUS
    <2>2. g = [i \in 0 .. 0 |-> g[i]]
      OBVIOUS
    <2> HIDE DEF g
    <2>3. Run(g, 0)
      BY <2>1, <2>2
    <2> QED BY <1>1, <2>3
  <1>4. ASSUME NEW m \in 1 .. n, m - 1 \in A PROVE m \in A
    <2>1. PICK f : Run(f, m - 1)
      BY <1>4
    <2> DEFINE g == [i \in 0 .. m |-> IF i = m THEN Reduce(f[m - 1], wire[m]) ELSE f[i]]
    <2>2. \A i \in 0 .. (m - 1) : g[i] = f[i] /\ f[i] = IF i = 0 THEN tree ELSE Reduce(f[i - 1], wire[i])
      BY <1>1, <2>1
    <2>3. ASSUME NEW i \in 0 .. m
          PROVE  g[i] = IF i = 0 THEN tree ELSE Reduce(g[i - 1], wire[i])
      <3>1. CASE i = m
        <4>1. g[i] = Reduce(f[m - 1], wire[m]) /\ m - 1 \in 0 .. (m - 1) /\ m # 0
          BY <1>1, <3>1
        <4>2. g[m - 1] = f[m - 1]
          BY <2>2, <4>1
        <4> HIDE DEF g
        <4> QED BY <3>1, <4>1, <4>2
      <3>2. CASE i # m
        <4>1. i \in 0 .. (m - 1) /\ (i # 0 => i - 1 \in 0 .. (m - 1))
          BY <1>1, <3>2
        <4> HIDE DEF g
        <4> QED BY <2>2, <4>1
      <3> QED BY <3>1, <3>2
    <2>4. Run(g, m)
      <3>1. g = [i \in 0 .. m |-> g[i]]
        OBVIOUS
      <3> HIDE DEF g
      <3> QED BY <2>3, <3>1
    <2> HIDE DEF g, Run
    <2>5. m \in 0 .. n
      BY <1>1
    <2> QED BY <2>4, <2>5
  <1>5. \E f : Run(f, n)
    <2> HIDE DEF A
    <2>1. n \in A
      <3>1. 0 \in 0 .. n /\ n \in 0 .. n
        BY <1>1
      <3> QED BY <1>1, <1>3, <1>4, <3>1, UpTo
    <2> HIDE DEF Run
    <2> QED BY <2>1 DEF A
  <1>6. Run(r, n)
    BY <1>5, Zenon DEF r
  <1>7. /\ r[0] = tree
        /\ \A i \in 1 .. n : r[i] = Reduce(r[i - 1], wire[i]) /\ i - 1 \in 0 .. n
    <2>1. \A i \in 0 .. n : r[i] = IF i = 0 THEN tree ELSE Reduce(r[i - 1], wire[i])
      BY <1>6, Zenon
    <2> HIDE DEF Run
    <2> QED BY <1>1, <2>1
  <1>8. \A i \in 0 .. n : i \in T
    <2>1. 0 \in T
      BY <1>1, <1>7
    <2>2. ASSUME NEW i \in 1 .. n, i - 1 \in T PROVE i \in T
      BY <1>1, <1>7, <2>2, ReduceTree
    <2>3. 0 \in 0 .. n
      BY <1>1
    <2> HIDE DEF T
    <2> QED BY <1>1, <2>1, <2>2, <2>3, UpTo
  <1> QED BY <1>2, <1>7, <1>8 DEF Reads

\* After the frames under way the gateway branch is what the last frame about it
\* says, or what it was.
LEMMA IncomingGate ==
    ASSUME WireShape
    PROVE  /\ NoneIn(wire, GateFrames) => Incoming.gateway = tree.gateway
           /\ \A f : LastIn(wire, GateFrames, f) => Incoming.gateway = GateSaid(f)
  <1> DEFINE n == Len(wire)
  <1>1. PICK r : Reads(r) /\ Incoming = r[n]
    BY IncomingRead
  <1>2. /\ n \in Nat
        /\ r[0] = tree
        /\ \A i \in 1 .. n : /\ wire[i] \in Frame /\ r[i - 1] \in Tree
                             /\ r[i] = Reduce(r[i - 1], wire[i])
    BY <1>1 DEF WireShape, Reads
  <1>3. ASSUME NEW k \in 0 .. n, \A j \in 1 .. n : j > k => wire[j] \notin GateFrames
        PROVE  Incoming.gateway = r[k].gateway
    <2> DEFINE A == {i \in 0 .. n : r[i].gateway = r[k].gateway}
    <2>1. ASSUME NEW i \in 1 .. n, i > k /\ i - 1 \in A PROVE i \in A
      <3>1. r[i].gateway = r[i - 1].gateway
        BY <1>2, <1>3, <2>1, ReduceGate
      <3> QED BY <2>1, <3>1
    <2>2. k \in A
      OBVIOUS
    <2> HIDE DEF A
    <2>3. n \in A
      <3>1. n \in k .. n
        BY <1>2
      <3> QED BY <1>2, <2>1, <2>2, <3>1, UpTo
    <2> QED BY <1>1, <2>3 DEF A
  <1>4. ASSUME NoneIn(wire, GateFrames) PROVE Incoming.gateway = tree.gateway
    <2>1. 0 \in 0 .. n
      BY <1>2
    <2> QED BY <1>2, <1>3, <1>4, <2>1 DEF NoneIn
  <1>5. ASSUME NEW f, LastIn(wire, GateFrames, f) PROVE Incoming.gateway = GateSaid(f)
    <2>1. PICK k \in 1 .. n : /\ wire[k] = f /\ f \in GateFrames
                              /\ \A j \in 1 .. n : j > k => wire[j] \notin GateFrames
      BY <1>5 DEF LastIn
    <2>2. r[k].gateway = GateSaid(f)
      BY <1>2, <2>1, ReduceGate
    <2>3. k \in 0 .. n
      BY <1>2
    <2> QED BY <1>3, <2>1, <2>2, <2>3
  <1> QED BY <1>4, <1>5

\* The same of the row of a.
LEMMA IncomingRow ==
    ASSUME WireShape, NEW a \in Agents
    PROVE  /\ NoneIn(wire, RowFrames(a)) => RowOf(Incoming.agents, a) = RowOf(tree.agents, a)
           /\ \A f : LastIn(wire, RowFrames(a), f) => RowOf(Incoming.agents, a) = RowSaid(f, a)
  <1> DEFINE n == Len(wire)
  <1>1. PICK r : Reads(r) /\ Incoming = r[n]
    BY IncomingRead
  <1>2. /\ n \in Nat
        /\ r[0] = tree
        /\ \A i \in 1 .. n : /\ wire[i] \in Frame /\ r[i - 1] \in Tree
                             /\ r[i] = Reduce(r[i - 1], wire[i])
    BY <1>1 DEF WireShape, Reads
  <1>3. ASSUME NEW k \in 0 .. n, \A j \in 1 .. n : j > k => wire[j] \notin RowFrames(a)
        PROVE  RowOf(Incoming.agents, a) = RowOf(r[k].agents, a)
    <2> DEFINE A == {i \in 0 .. n : RowOf(r[i].agents, a) = RowOf(r[k].agents, a)}
    <2>1. ASSUME NEW i \in 1 .. n, i > k /\ i - 1 \in A PROVE i \in A
      <3>1. RowOf(r[i].agents, a) = RowOf(r[i - 1].agents, a)
        BY <1>2, <1>3, <2>1, ReduceRow
      <3> QED BY <2>1, <3>1
    <2>2. k \in A
      OBVIOUS
    <2> HIDE DEF A
    <2>3. n \in A
      <3>1. n \in k .. n
        BY <1>2
      <3> QED BY <1>2, <2>1, <2>2, <3>1, UpTo
    <2> QED BY <1>1, <2>3 DEF A
  <1>4. ASSUME NoneIn(wire, RowFrames(a)) PROVE RowOf(Incoming.agents, a) = RowOf(tree.agents, a)
    <2>1. 0 \in 0 .. n
      BY <1>2
    <2> QED BY <1>2, <1>3, <1>4, <2>1 DEF NoneIn
  <1>5. ASSUME NEW f, LastIn(wire, RowFrames(a), f) PROVE RowOf(Incoming.agents, a) = RowSaid(f, a)
    <2>1. PICK k \in 1 .. n : /\ wire[k] = f /\ f \in RowFrames(a)
                              /\ \A j \in 1 .. n : j > k => wire[j] \notin RowFrames(a)
      BY <1>5 DEF LastIn
    <2>2. RowOf(r[k].agents, a) = RowSaid(f, a)
      BY <1>2, <2>1, ReduceRow
    <2>3. k \in 0 .. n
      BY <1>2
    <2> QED BY <1>3, <2>1, <2>2, <2>3
  <1> QED BY <1>4, <1>5

\* The session's diff base and the client never drift apart: whatever frames are
\* under way, once they are read the client's rows and its gateway branch are
\* exactly the last-sent ones.
THEOREM ReplicaMirrors == Spec => []ReplicaMirrorsSent
  <1>1. Init => Shape /\ Mirror
    BY ShapeInit DEF Init, Mirror
  <1>2. Shape /\ Mirror /\ [Next]_vars => Shape' /\ Mirror'
    BY ShapeStep, MirrorStep
  <1>3. Shape /\ Mirror => ReplicaMirrorsSent
    <2> DEFINE t == Incoming
    <2> SUFFICES ASSUME Shape, Mirror, sess = "ready"
                 PROVE  /\ t.gateway = lastGateway
                        /\ [a \in DOMAIN t.agents |-> t.agents[a].info] = lastRoster
      BY DEF ReplicaMirrorsSent
    <2>1. WireShape /\ wire \in Seq(Frame) /\ Len(wire) \in Nat
      BY DEF Shape, WireShape
    <2>2. t \in Tree
      <3>1. PICK r : Reads(r) /\ t = r[Len(wire)]
        BY <2>1, IncomingRead
      <3> QED BY <2>1, <3>1 DEF Reads
    <2>3. t.gateway = lastGateway
      <3>1. NoneIn(wire, GateFrames) \/ \E f : LastIn(wire, GateFrames, f)
        BY <2>1, LastOrNone
      <3> HIDE DEF t
      <3>2. /\ NoneIn(wire, GateFrames) => t.gateway = tree.gateway
            /\ \A f : LastIn(wire, GateFrames, f) => t.gateway = GateSaid(f)
        BY <2>1, IncomingGate DEF t
      <3> QED BY <3>1, <3>2 DEF Mirror
    <2>4. ASSUME NEW a \in Agents PROVE RowOf(t.agents, a) = SentRow(a)
      <3>1. NoneIn(wire, RowFrames(a)) \/ \E f : LastIn(wire, RowFrames(a), f)
        BY <2>1, LastOrNone
      <3> HIDE DEF t
      <3>2. /\ NoneIn(wire, RowFrames(a)) => RowOf(t.agents, a) = RowOf(tree.agents, a)
            /\ \A f : LastIn(wire, RowFrames(a), f) => RowOf(t.agents, a) = RowSaid(f, a)
        BY <2>1, IncomingRow DEF t
      <3> QED BY <3>1, <3>2 DEF Mirror
    <2> HIDE DEF t
    <2>5. /\ DOMAIN t.agents \subseteq Agents /\ DOMAIN lastRoster \subseteq Agents
          /\ lastRoster \in [DOMAIN lastRoster -> Statuses]
      BY <2>2, TreeIs, PartialIs DEF Shape, SessionShape
    <2>6. ASSUME NEW a \in Agents
          PROVE  /\ a \in DOMAIN t.agents <=> a \in DOMAIN lastRoster
                 /\ a \in DOMAIN lastRoster => t.agents[a].info = lastRoster[a]
      BY <2>4 DEF RowOf, SentRow
    <2>7. DOMAIN t.agents = DOMAIN lastRoster
      BY <2>5, <2>6
    <2> QED BY <2>3, <2>5, <2>6, <2>7
  <1> QED BY <1>1, <1>2, <1>3, PTL DEF Spec

----------------------------------------------------------------------------
(* What is pending at an agent that runs throughout.                        *)

\* A frame that does not drop a keeps its node, or brings it; one about what is
\* pending at a sets it, any other leaves it.
LEMMA ReducePend ==
    ASSUME NEW t \in Tree, NEW f \in Frame, NEW a \in Agents, f \notin DropFrames(a),
           f \in SnapFrames \/ a \in DOMAIN t.agents
    PROVE  /\ a \in DOMAIN Reduce(t, f).agents
           /\ f \in PendFrames(a) => Reduce(t, f).agents[a].pending = PendSaid(f, a)
           /\ f \notin PendFrames(a) => Reduce(t, f).agents[a].pending = t.agents[a].pending
  <1> DEFINE r == Reduce(t, f)
  <1>1. CASE f.type = "snapshot"
    <2>1. f \in PendFrames(a)
      BY <1>1 DEF PendFrames
    <2>2. a \in DOMAIN f.tree.agents
      <3>1. ~Drops(f, a)
        BY DEF DropFrames
      <3> QED BY <1>1, <3>1 DEF Drops
    <2> QED BY <1>1, <2>1, <2>2, ReduceSnapshot DEF PendSaid
  <1>2. CASE f.type = "state"
    <2>1. a \in DOMAIN t.agents /\ f \notin PendFrames(a)
      BY <1>2 DEF SnapFrames, PendFrames
    <2> QED BY <1>2, <2>1, ReduceState
  <1>3. CASE f.type = "agent"
    <2>1. a \in DOMAIN t.agents /\ f \notin PendFrames(a)
      BY <1>3 DEF SnapFrames, PendFrames
    <2>2. /\ DOMAIN r.agents = DOMAIN t.agents \cup {f.name}
          /\ f.name \in DOMAIN t.agents => r.agents[f.name].pending = t.agents[f.name].pending
          /\ \A b \in DOMAIN t.agents \ {f.name} : r.agents[b] = t.agents[b]
      BY <1>3, ReduceAgent
    <2> HIDE DEF r
    <2>3. CASE f.name = a
      BY <2>1, <2>2, <2>3 DEF r
    <2>4. CASE f.name # a
      BY <2>1, <2>2, <2>4 DEF r
    <2> QED BY <2>3, <2>4
  <1>4. CASE f.type = "agent_removed"
    <2>1. a \in DOMAIN t.agents /\ f \notin PendFrames(a) /\ f.name # a
      BY <1>4 DEF SnapFrames, PendFrames, DropFrames, Drops
    <2>2. /\ DOMAIN r.agents = DOMAIN t.agents \ {f.name}
          /\ \A b \in DOMAIN t.agents \ {f.name} : r.agents[b] = t.agents[b]
      BY <1>4, ReduceRemoved
    <2> HIDE DEF r
    <2> QED BY <2>1, <2>2 DEF r
  <1>5. CASE f.type = "agent_notifications"
    <2>1. a \in DOMAIN t.agents
      BY <1>5 DEF SnapFrames
    <2>2. /\ DOMAIN r.agents = DOMAIN t.agents
          /\ \A b \in DOMAIN t.agents \ {f.name} : r.agents[b] = t.agents[b]
          /\ f.name \in DOMAIN t.agents => r.agents[f.name].pending = f.pending
      BY <1>5, ReduceNotifications
    <2> HIDE DEF r
    <2>3. CASE f.name = a
      BY <1>5, <2>1, <2>2, <2>3 DEF r, PendFrames, PendSaid
    <2>4. CASE f.name # a
      BY <1>5, <2>1, <2>2, <2>4 DEF r, PendFrames
    <2> QED BY <2>3, <2>4
  <1> QED BY <1>1, <1>2, <1>3, <1>4, <1>5, FrameKinds

\* Reading a frame.
LEMMA SteadyReceive ==
    ASSUME Shape, Receive, NEW a \in Agents, Stays(a), Agree(a)
    PROVE  Stays(a)' /\ Agree(a)'
  <1> USE DEF agentVars, tapVars, sessionVars
  <1> DEFINE f == Head(wire)
             w == Tail(wire)
  <1>1. /\ wire # <<>> /\ wire \in Seq(Frame) /\ tree \in Tree /\ wire' = w /\ tree' = Reduce(tree, f)
        /\ UNCHANGED <<container, agents, sess, lastRoster, lastPending, hub, bumped>>
    BY DEF Shape, WireShape, Receive
  <1>2. f \in Frame
    BY <1>1
  <1>3. ASSUME NEW M
        PROVE  /\ NoneIn(wire, M) <=> f \notin M /\ NoneIn(w, M)
               /\ \A g : LastIn(w, M, g) => LastIn(wire, M, g)
               /\ NoneIn(w, M) /\ f \in M => LastIn(wire, M, f)
    BY <1>1, LastTail
  <1> HIDE DEF f, w
  <1>4. CASE sess = "ready"
    <2>1. /\ NoneIn(wire, DropFrames(a)) /\ (NoneIn(wire, SnapFrames) => a \in DOMAIN tree.agents)
          /\ a \in DOMAIN lastPending => a \in DOMAIN hub
      BY <1>4 DEF Stays
    <2>2. /\ \A g : LastIn(wire, PendFrames(a), g) => PendSaid(g, a) = At(lastPending, a)
          /\ NoneIn(wire, PendFrames(a)) => tree.agents[a].pending = At(lastPending, a)
          /\ ~bumped => At(hub, a) = At(lastPending, a)
      BY <1>4 DEF Agree
    <2>3. f \notin DropFrames(a) /\ NoneIn(w, DropFrames(a))
      BY <1>3, <2>1
    <2>4. ASSUME NoneIn(w, SnapFrames)
          PROVE  /\ a \in DOMAIN tree'.agents
                 /\ f \in PendFrames(a) => tree'.agents[a].pending = PendSaid(f, a)
                 /\ f \notin PendFrames(a) => tree'.agents[a].pending = tree.agents[a].pending
      <3>1. f \in SnapFrames \/ a \in DOMAIN tree.agents
        BY <1>3, <2>1, <2>4
      <3> QED BY <1>1, <1>2, <2>3, <3>1, ReducePend
    <2>5. NoneIn(w, PendFrames(a)) => NoneIn(w, SnapFrames)
      BY DEF NoneIn, PendFrames, SnapFrames
    <2>6. \A g : LastIn(w, PendFrames(a), g) => PendSaid(g, a) = At(lastPending, a)
      BY <1>3, <2>2
    <2>7. NoneIn(w, PendFrames(a)) => tree'.agents[a].pending = At(lastPending, a)
      BY <1>3, <2>2, <2>4, <2>5
    <2>8. Stays(a)'
      BY <1>1, <2>1, <2>3, <2>4 DEF Stays
    <2>9. Agree(a)'
      BY <1>1, <2>2, <2>6, <2>7 DEF Agree
    <2> QED BY <2>8, <2>9
  <1>5. CASE sess # "ready"
    BY <1>1, <1>5 DEF Stays, Agree
  <1> QED BY <1>4, <1>5

\* Sending the snapshot.
LEMMA SteadySnapshot ==
    ASSUME Shape, SendSnapshot, NEW a \in Agents, Stays(a)
    PROVE  Stays(a)' /\ Agree(a)'
  <1> USE DEF agentVars, tapVars
  <1> DEFINE t == BuildTree(gateway, lastRoster, hub)
             f == [type |-> "snapshot", tree |-> t]
  <1>1. /\ wire' = <<f>> /\ lastPending' = hub /\ sess = "subscribed" /\ sess' = "ready"
        /\ UNCHANGED <<container, agents, lastRoster, hub, bumped, tree>>
    BY DEF SendSnapshot
  <1>2. a \in DOMAIN lastRoster
    BY <1>1 DEF Stays
  <1>3. DOMAIN t.agents = DOMAIN lastRoster /\ t.agents[a].pending = At(hub, a) /\ f \in Frame
    BY <1>2, SnapshotIs
  <1> HIDE DEF t
  <1>4. f.type = "snapshot" /\ f.tree = t
    OBVIOUS
  <1> HIDE DEF f
  <1>5. f \in SnapFrames /\ f \notin DropFrames(a) /\ f \in PendFrames(a) /\ PendSaid(f, a) = At(hub, a)
    BY <1>2, <1>3, <1>4 DEF SnapFrames, DropFrames, Drops, PendFrames, PendSaid
  <1>6. ASSUME NEW M PROVE (NoneIn(wire', M) <=> f \notin M) /\ \A g : LastIn(wire', M, g) => g = f
    BY <1>1, <1>3, LastOne
  <1>7. Stays(a)'
    BY <1>1, <1>5, <1>6 DEF Stays
  <1>8. Agree(a)'
    BY <1>1, <1>5, <1>6 DEF Agree
  <1> QED BY <1>7, <1>8

\* Sending the roster: no frame of it is about what is pending, or drops a.
LEMMA SteadyRoster ==
    ASSUME Shape, EmitRoster, NEW a \in Agents, Stays(a), Agree(a)
    PROVE  Stays(a)' /\ Agree(a)'
  <1> USE DEF agentVars, tapVars
  <1>1. /\ sess = "ready" /\ lastRoster' = agents
        /\ UNCHANGED <<container, agents, sess, lastPending, hub, bumped, tree>>
    BY DEF EmitRoster, Writable
  <1>2. StateFrame.type = "state"
    BY DEF StateFrame
  <1>3. ASSUME NEW r \in Rows PROVE r.type = "agent" \/ (r.type = "agent_removed" /\ r.name # a)
    <2>1. a \in DOMAIN agents
      BY DEF Stays
    <2>2. CASE r \in UpFrames(Upserts(lastRoster, agents), agents)
      BY <2>2 DEF UpFrames, UpFrame
    <2>3. CASE r \in GoneFrames(DOMAIN lastRoster \ DOMAIN agents)
      BY <2>1, <2>3 DEF GoneFrames, GoneFrame
    <2> QED BY <2>2, <2>3 DEF Rows
  <1>4. /\ \A r \in Rows : r \notin PendFrames(a) /\ r \notin DropFrames(a)
        /\ StateFrame \notin PendFrames(a) /\ StateFrame \notin DropFrames(a)
    BY <1>2, <1>3 DEF PendFrames, DropFrames, Drops
  <1>5. /\ NoneIn(wire', PendFrames(a)) => NoneIn(wire, PendFrames(a))
        /\ \A f : LastIn(wire', PendFrames(a), f) => LastIn(wire, PendFrames(a), f)
    BY <1>4, RosterLast
  <1>6. NoneIn(wire', SnapFrames) => NoneIn(wire, SnapFrames)
    BY RosterLast
  <1>7. NoneIn(wire', DropFrames(a))
    <2>1. NoneIn(wire, DropFrames(a))
      BY <1>1 DEF Stays
    <2> QED BY <1>4, <2>1, RosterLast
  <1>8. Stays(a)'
    BY <1>1, <1>6, <1>7 DEF Stays
  <1>9. Agree(a)'
    BY <1>1, <1>5 DEF Agree
  <1> QED BY <1>8, <1>9

\* Sending the pending sets: the one of a is sent when it differs.
LEMMA SteadyNotes ==
    ASSUME Shape, EmitNotifications, NEW a \in Agents, Stays(a), Agree(a)
    PROVE  Stays(a)' /\ Agree(a)'
  <1> USE DEF agentVars, tapVars
  <1> DEFINE shown == DOMAIN hub \cap DOMAIN lastRoster
  <1>1. /\ sess = "ready" /\ lastPending' = [b \in shown |-> hub[b]]
        /\ UNCHANGED <<container, agents, sess, lastRoster, hub, tree>>
    BY DEF EmitNotifications, Writable
  <1>2. /\ a \in DOMAIN lastRoster /\ (a \in DOMAIN lastPending => a \in DOMAIN hub)
        /\ NoneIn(wire, DropFrames(a)) /\ (NoneIn(wire, SnapFrames) => a \in DOMAIN tree.agents)
    BY <1>1 DEF Stays
  <1>3. /\ DOMAIN lastPending' = shown /\ (a \in shown <=> a \in DOMAIN hub)
        /\ At(lastPending, a)' = At(hub, a)
    BY <1>1, <1>2 DEF At
  <1>4. ASSUME NEW r \in NoteFrames(Fresh, hub)
        PROVE  /\ r \notin SnapFrames /\ r \notin DropFrames(a)
               /\ r \in PendFrames(a) => PendSaid(r, a) = At(hub, a)
    <2>1. PICK b \in Fresh : r.type = "agent_notifications" /\ r.name = b /\ r.pending = hub[b]
      BY <1>4, NoteKind
    <2>2. b \in DOMAIN hub
      BY DEF Fresh
    <2> QED BY <2>1, <2>2 DEF SnapFrames, DropFrames, Drops, PendFrames, PendSaid, At
  <1>5. ASSUME \A r \in NoteFrames(Fresh, hub) : r \notin PendFrames(a)
        PROVE  At(lastPending, a) = At(hub, a)
    <2>1. a \notin Fresh
      <3> SUFFICES ASSUME a \in Fresh PROVE FALSE
        OBVIOUS
      <3>1. NoteFrame(a, hub) \in NoteFrames(Fresh, hub)
        BY DEF NoteFrames
      <3>2. NoteFrame(a, hub) \in Frame
        <4>1. hub[a] \in SUBSET Ids
          BY PartialIs DEF Fresh, Shape, HubShape, Pendings
        <4> QED BY <4>1, FrameIs DEF NoteFrame
      <3>3. NoteFrame(a, hub) \in PendFrames(a)
        BY <3>2 DEF PendFrames, NoteFrame
      <3> QED BY <1>5, <3>1, <3>3
    <2> QED BY <1>2, <2>1 DEF Fresh, At
  <1>6. ASSUME NEW f, LastIn(wire', PendFrames(a), f) PROVE PendSaid(f, a) = At(hub, a)
    <2>1. /\ f \in PendFrames(a)
          /\ \/ f \in NoteFrames(Fresh, hub)
             \/ LastIn(wire, PendFrames(a), f) /\ \A r \in NoteFrames(Fresh, hub) : r \notin PendFrames(a)
      BY <1>6, NotesLast
    <2>2. LastIn(wire, PendFrames(a), f) => PendSaid(f, a) = At(lastPending, a)
      BY <1>1 DEF Agree
    <2> QED BY <1>4, <1>5, <2>1, <2>2
  <1>7. ASSUME NoneIn(wire', PendFrames(a)) PROVE tree.agents[a].pending = At(hub, a)
    <2>1. NoneIn(wire, PendFrames(a)) /\ \A r \in NoteFrames(Fresh, hub) : r \notin PendFrames(a)
      BY <1>7, NotesLast
    <2>2. tree.agents[a].pending = At(lastPending, a)
      BY <1>1, <2>1 DEF Agree
    <2> QED BY <1>5, <2>1, <2>2
  <1>8. NoneIn(wire', DropFrames(a)) /\ (NoneIn(wire', SnapFrames) => NoneIn(wire, SnapFrames))
    BY <1>2, <1>4, NotesLast
  <1> HIDE DEF shown
  <1>9. Stays(a)'
    BY <1>1, <1>2, <1>3, <1>8 DEF Stays
  <1>10. Agree(a)'
    <2>1. At(hub, a)' = At(hub, a)
      BY <1>1
    <2> QED BY <1>1, <1>3, <1>6, <1>7, <2>1 DEF Agree
  <1> QED BY <1>9, <1>10

\* A step of the hub: a stays where it was, and a change of what is pending at
\* it wakes the session.
LEMMA SteadyHub ==
    ASSUME NEW a \in Agents, Stays(a), Agree(a), container'[a] = container[a], a \in DOMAIN agents',
           UNCHANGED <<sess, lastRoster, lastPending, wire, tree>>,
           a \in DOMAIN hub => a \in DOMAIN hub',
           sess = "ready" /\ ~bumped' => ~bumped /\ At(hub', a) = At(hub, a)
    PROVE  Stays(a)' /\ Agree(a)'
  <1>1. Stays(a)'
    BY DEF Stays
  <1>2. Agree(a)'
    BY DEF Agree
  <1> QED BY <1>1, <1>2

\* An entry of the hub is set, and the session is woken when it changed.
LEMMA SteadyPut ==
    ASSUME Shape, NEW b \in Agents, NEW v \in SUBSET Ids, hub' = Put(hub, b, v),
           NEW c \in BOOLEAN, Bump(c \/ At(hub, b) # At(hub', b)),
           NEW a \in Agents, Stays(a), Agree(a),
           UNCHANGED <<container, agents, sess, lastRoster, lastPending, wire, tree>>
    PROVE  Stays(a)' /\ Agree(a)'
  <1>1. /\ DOMAIN Put(hub, b, v) = DOMAIN hub \cup {b} /\ Put(hub, b, v)[b] = v
        /\ \A x \in DOMAIN hub \ {b} : Put(hub, b, v)[x] = hub[x]
    BY HubPut DEF Shape, HubShape
  <1>2. a \in DOMAIN hub => a \in DOMAIN hub'
    BY <1>1
  <1>3. a # b => At(hub', a) = At(hub, a)
    BY <1>1 DEF At
  <1>4. ASSUME sess = "ready", ~bumped' PROVE ~bumped /\ At(hub', b) = At(hub, b)
    <2>1. bumped' = (bumped \/ ((c \/ At(hub, b) # At(hub', b)) /\ sess # "down"))
      BY DEF Bump
    <2>2. bumped \in BOOLEAN
      BY DEF Shape, SessionShape
    <2> QED BY <1>4, <2>1, <2>2
  <1>5. a \in DOMAIN agents' /\ container'[a] = container[a]
    BY DEF Stays
  <1> QED BY <1>2, <1>3, <1>4, <1>5, SteadyHub

\* Every step keeps Stays and Agree of every steady agent.
LEMMA SteadiesStep ==
    ASSUME Shape, Steadies, [Next]_vars PROVE Steadies'
  <1> USE DEF agentVars, tapVars, sessionVars, clientVars
  <1> SUFFICES ASSUME NEW a \in Steady PROVE Stays(a)' /\ Agree(a)'
    BY DEF Steadies
  <1>0. /\ a \in Agents /\ Stays(a) /\ Agree(a) /\ a \in DOMAIN agents /\ container[a] = "running"
        /\ container \in [Agents -> {"gone", "stopped", "running"}] /\ bumped \in BOOLEAN
    BY AgentsAssumption DEF Steadies, Stays, Shape, AgentShape, SessionShape
  <1>1. CASE SendSnapshot
    BY <1>0, <1>1, SteadySnapshot
  <1>2. CASE EmitRoster
    BY <1>0, <1>2, SteadyRoster
  <1>3. CASE EmitNotifications
    BY <1>0, <1>3, SteadyNotes
  <1>4. CASE Receive
    BY <1>0, <1>4, SteadyReceive
  <1>5. CASE Subscribe \/ Disconnect
    BY <1>0, <1>5 DEF Subscribe, Disconnect, Stays, Agree
  <1>6. ASSUME NEW b \in Agents, TapSeed(b) PROVE Stays(a)' /\ Agree(a)'
    <2>1. /\ hub' = Put(hub, b, snap[b])
          /\ UNCHANGED <<container, agents, sess, lastRoster, lastPending, wire, tree>>
      BY <1>6 DEF TapSeed, Seeded
    <2>2. PICK c \in BOOLEAN : Bump(c \/ At(hub, b) # At(hub', b))
      BY <1>6 DEF TapSeed
    <2>3. snap[b] \in SUBSET Ids
      BY DEF Shape, AgentShape
    <2> QED BY <1>0, <2>1, <2>2, <2>3, SteadyPut
  <1>7. ASSUME NEW b \in Agents, TapApply(b) PROVE Stays(a)' /\ Agree(a)'
    <2> DEFINE e == Head(sub[b])
               v == IF e.kind = "added" THEN At(hub, b) \cup {e.id} ELSE At(hub, b) \ {e.id}
               c == (e.kind = "added")
    <2>1. /\ hub' = Put(hub, b, v) /\ Bump(c \/ At(hub, b) # At(hub', b)) /\ c \in BOOLEAN
          /\ UNCHANGED <<container, agents, sess, lastRoster, lastPending, wire, tree>>
      BY <1>7 DEF TapApply, Applied
    <2>2. v \in SUBSET Ids
      <3>1. At(hub, b) \in SUBSET Ids
        BY PendingAt DEF Shape, HubShape
      <3>2. e \in NoteEvent
        BY <1>7, HeadIsNote DEF TapApply, Shape
      <3>3. e.id \in Ids
        BY <3>2 DEF NoteEvent
      <3> QED BY <3>1, <3>3
    <2> HIDE DEF c, v
    <2> QED BY <1>0, <2>1, <2>2, SteadyPut
  <1>8. CASE Poll
    <2>1. UNCHANGED <<container, sess, lastRoster, lastPending, wire, tree>> /\ Bump(hub' # hub)
      BY <1>8 DEF Poll
    <2>2. a \in DOMAIN agents'
      BY <1>0, <1>8 DEF Poll
    <2>3. (a \in DOMAIN hub' <=> a \in DOMAIN hub) /\ (a \in DOMAIN hub => hub'[a] = hub[a])
      BY <1>0, <1>8, PollHub DEF Running
    <2>4. At(hub', a) = At(hub, a)
      BY <2>3 DEF At
    <2>5. ~bumped' => ~bumped
      BY <1>0, <2>1 DEF Bump
    <2>6. container'[a] = container[a]
      BY <2>1
    <2> QED BY <1>0, <2>1, <2>2, <2>3, <2>4, <2>5, <2>6, SteadyHub
  <1>9. ASSUME container'[a] = container[a],
               UNCHANGED <<agents, sess, lastRoster, lastPending, wire, tree, hub, bumped>>
        PROVE  Stays(a)' /\ Agree(a)'
    BY <1>0, <1>9, SteadyHub
  <1>10. ASSUME NEW b \in Agents, NEW s \in {"gone", "stopped", "running"}, Container(b, s)
         PROVE  Stays(a)' /\ Agree(a)'
    <2>1. b # a /\ container' = [container EXCEPT ![b] = s]
      BY <1>10 DEF Container
    <2>2. container'[a] = container[a]
      BY <1>0, <2>1
    <2>3. UNCHANGED <<agents, sess, lastRoster, lastPending, wire, tree, hub, bumped>>
      BY <1>10 DEF Container
    <2> QED BY <1>9, <2>2, <2>3
  <1>11. ASSUME NEW b \in Agents,
               \/ \E x \in Ids : Arrive(b, x) \/ Announce(b, x) \/ ClearFile(b, x) \/ UnlinkUnparsed(b, x)
               \/ AgentRestart(b) \/ TapConnect(b) \/ TapSnapshot(b) \/ TapLost(b)
        PROVE  Stays(a)' /\ Agree(a)'
    <2>1. UNCHANGED <<container, agents, sess, lastRoster, lastPending, wire, tree, hub, bumped>>
      BY <1>11 DEF Arrive, Announce, ClearFile, UnlinkUnparsed, AgentRestart, TapConnect,
         TapSnapshot, TapLost
    <2> QED BY <1>9, <2>1
  <1>12. CASE GatewayChange \/ UNCHANGED vars
    <2>1. UNCHANGED <<container, agents, sess, lastRoster, lastPending, wire, tree, hub, bumped>>
      BY <1>12 DEF GatewayChange, vars
    <2> QED BY <1>9, <2>1
  <1> QED BY <1>1, <1>2, <1>3, <1>4, <1>5, <1>6, <1>7, <1>8, <1>10, <1>11, <1>12
          DEF Next, Agent, Gateway, Session

\* With nothing under way between the hub and the client, the client shows of
\* an agent that runs throughout exactly the pending set of the hub: no wake is
\* lost between the snapshot and the deltas.
THEOREM SteadyAgrees == Spec => []SteadyAgree
  <1>1. Init => Shape /\ Steadies
    <2> SUFFICES ASSUME Init PROVE Steadies
      BY ShapeInit
    <2>1. ASSUME NEW a \in Steady PROVE Stays(a) /\ Agree(a)
      <3>1. a \in Agents /\ container[a] = "running"
        BY AgentsAssumption DEF Init
      <3>2. a \in DOMAIN agents /\ sess = "down"
        BY <3>1 DEF Init
      <3> QED BY <3>1, <3>2 DEF Stays, Agree
    <2> QED BY <2>1 DEF Steadies
  <1>2. Shape /\ Steadies /\ [Next]_vars => Shape' /\ Steadies'
    BY ShapeStep, SteadiesStep
  <1>3. Shape /\ Steadies => SteadyAgree
    <2> SUFFICES ASSUME Shape, Steadies, Settled, NEW a \in Steady
                 PROVE  a \in DOMAIN tree.agents /\ tree.agents[a].pending = At(hub, a)
      BY DEF SteadyAgree
    <2>1. sess = "ready" /\ ~bumped /\ wire = <<>>
      BY DEF Settled
    <2>2. NoneIn(wire, SnapFrames) /\ NoneIn(wire, PendFrames(a))
      BY <2>1, LastEmpty
    <2>3. a \in DOMAIN tree.agents
      BY <2>1, <2>2 DEF Steadies, Stays
    <2>4. tree.agents[a].pending = At(lastPending, a) /\ At(hub, a) = At(lastPending, a)
      BY <2>1, <2>2 DEF Steadies, Agree
    <2> QED BY <2>3, <2>4
  <1> QED BY <1>1, <1>2, <1>3, PTL DEF Spec
=============================================================================
