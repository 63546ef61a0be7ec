------------------------- MODULE ChatSessionProofs -------------------------
(***************************************************************************)
(* One chat, for any intents, pages, caps and numbers of rows and faults:  *)
(* no message is shown twice (NoDuplicateRow), no step takes one out of    *)
(* reach but a trim over rows out of order (NothingVanishes), and at rest  *)
(* all that was not missed can be reached (ToldIsReachable).               *)
(*                                                                         *)
(* While paging is in step with the rows, the page a reseed brings either  *)
(* joins the rows held or moves the cursor above those it drops, and the   *)
(* rows of a hole it is joined over are missed; what the connection brought is contiguous up to the newest row;  *)
(* and for whatever else was told a seed is under way, or will be.         *)
(***************************************************************************)
EXTENDS ChatSession, TLAPS, FiniteSetTheorems, WellFoundedInduction

----------------------------------------------------------------------------
(* The inductive invariant.                                                 *)

\* The elements of a sequence; the ids a chat shows, and what it can get at.
Elems(s) == {s[k] : k \in DOMAIN s}
Shown(c) == {a.id : a \in Elems(c.messages)} \ {0}
InReach(c, u) == u \in Shown(c) \/ u < c.cursor

\* The rows of an intent in the store: one, and one more for every restart that
\* made the daemon forget the intent.
RowsOf(i) == {k \in DOMAIN log : log[k].intent = i}
LogOK ==
    /\ log \in Seq(Entry)
    /\ \A k \in DOMAIN log : log[k].type = "chat" => log[k].intent = NoIntent
    /\ seen \subseteq Intents /\ faults \in 0..MaxFaults
    /\ Cardinality(RowsOf(NoIntent)) <= MaxRows
    /\ \A i \in Intents : Cardinality(RowsOf(i)) <= faults + (IF i \in seen THEN 1 ELSE 0)

\* The connection carries the newest rows, all of them since the first.
WireOK ==
    /\ live \in BOOLEAN /\ phase \in {"down", "open"}
    /\ wire \in Seq(Nat) /\ Len(wire) <= Len(log)
    /\ \A k \in 1..Len(wire) : wire[k] = Len(log) - Len(wire) + k
    /\ ~live => wire = <<>>
    /\ phase = "open" => sawOpen
    /\ phase = "open" /\ queue # <<>> => live

\* Before the first open there is one seed at most.
SeedsOK ==
    /\ sawOpen \in BOOLEAN /\ seeded \in BOOLEAN
    /\ seeds \in Seq(Nat) /\ \A n \in Elems(seeds) : n <= Len(log) \/ n = Asked
    /\ retries \in Nat /\ held \in BOOLEAN /\ (held => retries > 0)
    /\ ~sawOpen => queue = <<>> /\ retries = 0 /\ Len(seeds) <= 1 /\ (seeded => seeds = <<>>)

\* A send has one request under way, or one outcome to come; a bubble that
\* failed has neither.
Due(i) == posts[i].sent + posts[i].retry + posts[i].failed
SendsOK ==
    /\ posts \in [Intents -> [sent : Nat, orphan : Nat, retry : Nat, failed : Nat]]
    /\ \A i \in Intents : Due(i) <= 1 /\ posts[i].orphan <= faults
    /\ taps \in 0..MaxTaps
    /\ \A a \in Elems(chat.messages) :
         /\ a.send \in {"retry", "failed"} => a.intent \in Intents /\ Due(a.intent) = 0
         /\ a.send # "none" => a.intent \in Intents
         /\ \A b \in Elems(chat.messages) :
              a.intent = b.intent /\ a.send # "none" /\ b.send # "none" => a.send = b.send

\* A row is as the store has it; a bubble is one of a pending send.
RowOK(row, pending) ==
    /\ row \in Row /\ row.id <= Len(log)
    /\ row.id # 0 => row.intent = log[row.id].intent
    /\ row.id = 0 => row.intent \in pending
ChatIs(c) ==
    /\ c = [messages |-> c.messages, shownIds |-> c.shownIds, pendingIntents |-> c.pendingIntents,
            cursor |-> c.cursor, historyLoaded |-> c.historyLoaded]
    /\ c.messages \in Seq(Row)
    /\ \A a \in Elems(c.messages) : RowOK(a, c.pendingIntents)
    /\ c.shownIds \subseteq 1..Len(log) /\ c.pendingIntents \subseteq Intents
    /\ c.cursor \in 0..Len(log) /\ c.historyLoaded \in BOOLEAN
ChatOK ==
    /\ ChatIs(chat)
    /\ queue \in Seq(Nat)
    /\ \A u \in Elems(queue) : u \in 1..Len(log) /\ log[u].type = "chat"
    /\ more \in 0..Len(log) /\ told \subseteq 1..Len(log) /\ crossed \in BOOLEAN

\* Two rows that are one message.
Clash(a, b) ==
    \/ a.id = b.id /\ a.id # 0
    \/ a.intent = b.intent /\ a.intent # NoIntent /\ (a.id = 0 \/ b.id = 0)
Free(rows) == \A j, k \in DOMAIN rows : j # k => ~Clash(rows[j], rows[k])

\* The rows: a pending send has its bubble and no row beside it.
OneEach(c) ==
    /\ Free(c.messages)
    /\ \A a \in Elems(c.messages) : a.id # 0 => a.intent \notin c.pendingIntents
    /\ \A i \in c.pendingIntents : \E a \in Elems(c.messages) : a.id = 0 /\ a.intent = i
Single == OneEach(chat)

\* What is held was noted; the row at the cursor is shown; of what the connection
\* still carries, what was noted can be reached; with the first row queued,
\* nothing is missing.
Stream ==
    /\ Shown(chat) \cup Elems(queue) \subseteq chat.shownIds
    /\ chat.cursor # 0 => chat.cursor \in Shown(chat)
    /\ \A u \in Elems(wire) : u \in chat.shownIds => InReach(chat, u)
    /\ phase = "open" /\ 1 \in Elems(queue) =>
         \A u \in 1..Len(log) : InReach(chat, u) \/ u \in Elems(queue) \/ u \in Elems(wire)

\* A page that reaches u is under way, or a seed will be.
Coming(u) ==
    \/ \E n \in Elems(seeds) : u <= n
    \/ retries > 0
    \/ phase = "down" /\ (sawOpen \/ ~seeded)
OnItsWay(u) ==
    \/ InReach(chat, u)
    \/ sawOpen /\ (u \in Elems(queue) \/ u \in Elems(wire))
    \/ Coming(u)
Covered ==
    /\ \A u \in told : OnItsWay(u)
    /\ ~sawOpen => \A n \in Elems(seeds) : \A u \in told : u <= n \/ InReach(chat, u)

InStep == ~crossed => ~OutOfStep /\ Single /\ Stream /\ Covered

ChatInv == LogOK /\ WireOK /\ SeedsOK /\ SendsOK /\ ChatOK /\ InStep

----------------------------------------------------------------------------
(* Numbers and sequences.  Pick and the commit of replies are defined by    *)
(* recursion on a sequence; a least counterexample takes the place of       *)
(* induction.                                                               *)

\* A set of naturals that is not empty has a least element.
LEMMA LeastNumber ==
    ASSUME NEW S, S \subseteq Nat, S # {}
    PROVE  \E n \in S : \A m \in S : n <= m
  <1> DEFINE R == OpToRel(<, Nat)
  <1>1. IsWellFoundedOn(R, Nat)
    BY NatLessThanWellFounded
  <1>2. \A m, n \in Nat : m < n => <<m, n>> \in R
    BY DEF OpToRel
  <1> HIDE DEF R
  <1>3. PICK n \in S : \A m \in S : ~(<<m, n>> \in R)
    BY <1>1, WFMin
  <1>4. ASSUME NEW m \in S PROVE n <= m
    <2>1. m \in Nat /\ n \in Nat /\ ~(m < n)
      BY <1>2, <1>3
    <2> QED BY <2>1
  <1> QED BY <1>4

\* What holds at 0, and at each number when it held at the one before, holds up to n.
LEMMA UpTo ==
    ASSUME NEW n \in Nat, NEW A, 0 \in A,
           \A i \in 1..n : i - 1 \in A => i \in A
    PROVE  \A i \in 0..n : i \in A
  <1> DEFINE B == {i \in 0..n : i \notin A}
  <1> SUFFICES ASSUME B # {} PROVE FALSE
    OBVIOUS
  <1>1. B \subseteq Nat
    OBVIOUS
  <1>2. PICK i \in B : \A j \in B : i <= j
    BY <1>1, LeastNumber
  <1>3. i \in 1..n /\ i \notin A /\ i - 1 \in 0..n /\ ~(i <= i - 1)
    BY <1>2
  <1>4. i - 1 \in A
    BY <1>2, <1>3
  <1> QED BY <1>3, <1>4

\* e tells where the elements of q are picked from s: at all places in K, in order.
Picked(s, K, q, e, m) ==
    /\ e \in [1..Len(q) -> 1..m]
    /\ \A j \in 1..Len(q) : e[j] \in K /\ q[j] = s[e[j]]
    /\ \A j, l \in 1..Len(q) : j < l => e[j] < e[l]
    /\ \A k \in 1..m : k \in K => \E j \in 1..Len(q) : e[j] = k

\* One more place is looked at.
LEMMA PickedStep ==
    ASSUME NEW S, NEW s \in Seq(S), NEW K, NEW m \in 1..Len(s), NEW q \in Seq(S), NEW e, Picked(s, K, q, e, m - 1)
    PROVE  LET q2 == IF m \in K THEN Append(q, s[m]) ELSE q
           IN  q2 \in Seq(S) /\ \E e2 : Picked(s, K, q2, e2, m)
  <1>0. Len(q) \in Nat /\ s[m] \in S /\ Len(s) \in Nat
    OBVIOUS
  <1>1. CASE m \in K
    <2> DEFINE q2 == Append(q, s[m])
               n == Len(q)
               e2 == [j \in 1..(n + 1) |-> IF j = n + 1 THEN m ELSE e[j]]
    <2>1. /\ q2 \in Seq(S) /\ Len(q2) = n + 1 /\ q2[n + 1] = s[m]
          /\ \A j \in 1..n : q2[j] = q[j]
      BY <1>0
    <2>2. /\ e2[n + 1] = m /\ \A j \in 1..n : e2[j] = e[j]
          /\ \A j \in 1..(n + 1) : j # n + 1 => j \in 1..n
      BY <1>0
    <2>3. /\ \A j \in 1..n : e[j] \in 1..(m - 1) /\ e[j] \in K /\ q[j] = s[e[j]]
          /\ \A j, l \in 1..n : j < l => e[j] < e[l]
          /\ \A k \in 1..(m - 1) : k \in K => \E j \in 1..n : e[j] = k
      BY DEF Picked
    <2>4. e2 \in [1..Len(q2) -> 1..m]
      BY <1>0, <2>1, <2>3
    <2> HIDE DEF q2, e2
    <2>5. \A j \in 1..Len(q2) : e2[j] \in K /\ q2[j] = s[e2[j]]
      BY <1>0, <1>1, <2>1, <2>2, <2>3
    <2>6. \A j, l \in 1..Len(q2) : j < l => e2[j] < e2[l]
      <3> SUFFICES ASSUME NEW j \in 1..Len(q2), NEW l \in 1..Len(q2), j < l PROVE e2[j] < e2[l]
        OBVIOUS
      <3>1. j \in 1..n /\ e2[j] = e[j] /\ e[j] \in 1..(m - 1)
        BY <1>0, <2>1, <2>2, <2>3
      <3>2. CASE l = n + 1
        BY <2>2, <3>1, <3>2
      <3>3. CASE l # n + 1
        BY <2>1, <2>2, <2>3, <3>1, <3>3
      <3> QED BY <3>2, <3>3
    <2>7. \A k \in 1..m : k \in K => \E j \in 1..Len(q2) : e2[j] = k
      <3> SUFFICES ASSUME NEW k \in 1..m, k \in K PROVE \E j \in 1..Len(q2) : e2[j] = k
        OBVIOUS
      <3>1. CASE k = m
        BY <1>0, <2>1, <2>2, <3>1
      <3>2. CASE k # m
        <4>1. PICK j \in 1..n : e[j] = k
          BY <1>0, <2>3, <3>2
        <4> QED BY <1>0, <2>1, <2>2, <4>1
      <3> QED BY <3>1, <3>2
    <2>8. Picked(s, K, q2, e2, m)
      BY <2>4, <2>5, <2>6, <2>7 DEF Picked
    <2> QED BY <1>1, <2>1, <2>8 DEF q2
  <1>2. CASE m \notin K
    <2>1. \A k \in 1..m : k \in K => k \in 1..(m - 1)
      BY <1>0, <1>2
    <2>2. e \in [1..Len(q) -> 1..m]
      BY <1>0 DEF Picked
    <2>3. Picked(s, K, q, e, m)
      BY <2>1, <2>2 DEF Picked
    <2> QED BY <1>2, <2>3
  <1> QED BY <1>1, <1>2

\* Pick picks.
LEMMA PickIs ==
    ASSUME NEW S, NEW s \in Seq(S), NEW K
    PROVE  /\ Pick(s, K) \in Seq(S)
           /\ \E e : Picked(s, K, Pick(s, K), e, Len(s))
  <1> DEFINE n == Len(s)
             Run(f, m) == f = [k \in 0..m |->
                IF k = 0 THEN <<>> ELSE IF k \in K THEN Append(f[k - 1], s[k]) ELSE f[k - 1]]
             p == CHOOSE f : Run(f, n)
             A == {m \in 0..n : \E f : Run(f, m)}
             T == {m \in 0..n : p[m] \in Seq(S) /\ \E e : Picked(s, K, p[m], e, m)}
  <1>1. n \in Nat
    OBVIOUS
  <1>2. Pick(s, K) = p[n]
    BY Zenon DEF Pick
  <1> HIDE DEF p
  <1>3. 0 \in A
    <2> DEFINE g == [k \in 0..0 |-> <<>>]
    <2>1. \A k \in 0..0 : g[k] = IF k = 0 THEN <<>> ELSE IF k \in K THEN Append(g[k - 1], s[k]) ELSE g[k - 1]
      OBVIOUS
    <2>2. g = [k \in 0..0 |-> g[k]]
      OBVIOUS
    <2> HIDE DEF g
    <2>3. Run(g, 0)
      BY <2>1, <2>2
    <2> QED BY <1>1, <2>3
  <1>4. ASSUME NEW m \in 1..n, m - 1 \in A PROVE m \in A
    <2>1. PICK f : Run(f, m - 1)
      BY <1>4
    <2> DEFINE x == IF m \in K THEN Append(f[m - 1], s[m]) ELSE f[m - 1]
               g == [k \in 0..m |-> IF k = m THEN x ELSE f[k]]
    <2>0. f = [k \in 0..(m - 1) |->
                IF k = 0 THEN <<>> ELSE IF k \in K THEN Append(f[k - 1], s[k]) ELSE f[k - 1]]
      BY <2>1, Zenon
    <2>2. \A k \in 0..(m - 1) : /\ g[k] = f[k]
                                /\ f[k] = IF k = 0 THEN <<>> ELSE IF k \in K THEN Append(f[k - 1], s[k]) ELSE f[k - 1]
      <3> SUFFICES ASSUME NEW k \in 0..(m - 1)
                   PROVE  /\ g[k] = f[k]
                          /\ f[k] = IF k = 0 THEN <<>> ELSE IF k \in K THEN Append(f[k - 1], s[k]) ELSE f[k - 1]
        OBVIOUS
      <3>1. k \in 0..m /\ k # m
        BY <1>1
      <3>2. g[k] = f[k]
        BY <3>1
      <3>3. f[k] = IF k = 0 THEN <<>> ELSE IF k \in K THEN Append(f[k - 1], s[k]) ELSE f[k - 1]
        <4> HIDE DEF g
        <4> QED BY <2>0, Zenon
      <3> QED BY <3>2, <3>3
    <2>3. g[m] = x /\ g = [k \in 0..m |-> g[k]]
      BY <1>1
    <2>4. m # 0 /\ m - 1 \in 0..(m - 1) /\ m \in 0..n
      BY <1>1
    <2> HIDE DEF g
    <2>5. ASSUME NEW k \in 0..m
          PROVE  g[k] = IF k = 0 THEN <<>> ELSE IF k \in K THEN Append(g[k - 1], s[k]) ELSE g[k - 1]
      <3>1. CASE k = m
        <4>1. g[m - 1] = f[m - 1]
          BY <2>2, <2>4
        <4> QED BY <2>3, <2>4, <3>1, <4>1
      <3>2. CASE k # m
        <4>1. k \in 0..(m - 1) /\ (k # 0 => k - 1 \in 0..(m - 1))
          BY <1>1, <3>2
        <4> QED BY <2>2, <4>1
      <3> QED BY <3>1, <3>2
    <2>6. Run(g, m)
      BY <2>3, <2>5
    <2> HIDE DEF Run
    <2> QED BY <2>4, <2>6
  <1>5. \E f : Run(f, n)
    <2> HIDE DEF A
    <2>1. n \in A
      <3>1. n \in 0..n
        BY <1>1
      <3> QED BY <1>1, <1>3, <1>4, <3>1, UpTo
    <2> HIDE DEF Run
    <2> QED BY <2>1 DEF A
  <1>6. \A k \in 0..n : p[k] = IF k = 0 THEN <<>> ELSE IF k \in K THEN Append(p[k - 1], s[k]) ELSE p[k - 1]
    <2>1. Run(p, n)
      BY <1>5, Zenon DEF p
    <2> QED BY <2>1, Zenon
  <1> HIDE DEF Run
  <1>7. 0 \in T
    <2>1. p[0] = <<>> /\ <<>> \in Seq(S) /\ Len(<<>>) = 0
      BY <1>1, <1>6
    <2>2. Picked(s, K, <<>>, [j \in 1..0 |-> 0], 0)
      BY <2>1 DEF Picked
    <2>3. 0 \in 0..n /\ \E e : Picked(s, K, p[0], e, 0)
      BY <1>1, <2>1, <2>2
    <2> QED BY <2>1, <2>3
  <1>8. ASSUME NEW m \in 1..n, m - 1 \in T PROVE m \in T
    <2>1. m \in 0..n /\ m # 0
      BY <1>1
    <2>2. PICK e : Picked(s, K, p[m - 1], e, m - 1)
      BY <1>8
    <2>3. p[m] = IF m \in K THEN Append(p[m - 1], s[m]) ELSE p[m - 1]
      BY <1>6, <2>1
    <2>4. p[m - 1] \in Seq(S)
      BY <1>8
    <2>5. p[m] \in Seq(S) /\ \E e2 : Picked(s, K, p[m], e2, m)
      BY <2>2, <2>3, <2>4, PickedStep
    <2> QED BY <2>1, <2>5
  <1>9. n \in T
    <2> HIDE DEF T
    <2>1. n \in 0..n
      BY <1>1
    <2> QED BY <1>1, <1>7, <1>8, <2>1, UpTo
  <1> QED BY <1>2, <1>9

----------------------------------------------------------------------------
(* The elements of sequences, and rows that do not clash.                   *)

\* What the usual ways to build a sequence do to its elements: append,
LEMMA ElemsAppend ==
    ASSUME NEW S, NEW s \in Seq(S), NEW x \in S
    PROVE  /\ Append(s, x) \in Seq(S) /\ Len(Append(s, x)) = Len(s) + 1
           /\ Elems(Append(s, x)) = Elems(s) \cup {x}
  <1> DEFINE t == Append(s, x)
  <1>1. /\ t \in Seq(S) /\ Len(t) = Len(s) + 1 /\ t[Len(s) + 1] = x /\ Len(s) \in Nat
        /\ DOMAIN s = 1..Len(s) /\ DOMAIN t = 1..Len(t)
        /\ \A k \in 1..Len(s) : t[k] = s[k]
    OBVIOUS
  <1> HIDE DEF t
  <1>2. ASSUME NEW y \in Elems(t) PROVE y \in Elems(s) \cup {x}
    <2>1. PICK k \in 1..Len(t) : t[k] = y
      BY <1>1, <1>2 DEF Elems
    <2>2. CASE k = Len(s) + 1
      BY <1>1, <2>1, <2>2
    <2>3. CASE k # Len(s) + 1
      <3>1. k \in 1..Len(s)
        BY <1>1, <2>3
      <3> QED BY <1>1, <2>1, <3>1 DEF Elems
    <2> QED BY <2>2, <2>3
  <1>3. ASSUME NEW y \in Elems(s) PROVE y \in Elems(t)
    <2>1. PICK k \in 1..Len(s) : s[k] = y
      BY <1>1, <1>3 DEF Elems
    <2>2. k \in 1..Len(t)
      BY <1>1
    <2> QED BY <1>1, <2>1, <2>2 DEF Elems
  <1>4. x \in Elems(t)
    <2>1. Len(s) + 1 \in 1..Len(t)
      BY <1>1
    <2> QED BY <1>1, <2>1 DEF Elems
  <1>5. Elems(t) = Elems(s) \cup {x}
    BY <1>2, <1>3, <1>4
  <1> QED BY <1>1, <1>5 DEF t

\* concatenate,
LEMMA ElemsCat ==
    ASSUME NEW S, NEW s \in Seq(S), NEW t \in Seq(S)
    PROVE  /\ s \o t \in Seq(S) /\ Len(s \o t) = Len(s) + Len(t)
           /\ Elems(s \o t) = Elems(s) \cup Elems(t)
           /\ \A k \in 1..Len(s) : (s \o t)[k] = s[k]
           /\ \A k \in 1..Len(t) : (s \o t)[Len(s) + k] = t[k]
  <1> DEFINE c == s \o t
  <1>1. /\ c \in Seq(S) /\ Len(c) = Len(s) + Len(t) /\ Len(s) \in Nat /\ Len(t) \in Nat
        /\ DOMAIN s = 1..Len(s) /\ DOMAIN t = 1..Len(t) /\ DOMAIN c = 1..Len(c)
        /\ \A k \in 1..Len(s) : c[k] = s[k]
        /\ \A k \in 1..Len(c) : k \notin 1..Len(s) => c[k] = t[k - Len(s)]
    OBVIOUS
  <1> HIDE DEF c
  <1>2. \A k \in 1..Len(t) : c[Len(s) + k] = t[k]
    <2> SUFFICES ASSUME NEW k \in 1..Len(t) PROVE c[Len(s) + k] = t[k]
      OBVIOUS
    <2>1. Len(s) + k \in 1..Len(c) /\ Len(s) + k \notin 1..Len(s) /\ (Len(s) + k) - Len(s) = k
      BY <1>1
    <2> QED BY <1>1, <2>1
  <1>3. ASSUME NEW y \in Elems(c) PROVE y \in Elems(s) \cup Elems(t)
    <2>1. PICK k \in 1..Len(c) : c[k] = y
      BY <1>1, <1>3 DEF Elems
    <2>2. CASE k \in 1..Len(s)
      BY <1>1, <2>1, <2>2 DEF Elems
    <2>3. CASE k \notin 1..Len(s)
      <3>1. k - Len(s) \in 1..Len(t)
        BY <1>1, <2>3
      <3> QED BY <1>1, <2>1, <2>3, <3>1 DEF Elems
    <2> QED BY <2>2, <2>3
  <1>4. ASSUME NEW y \in Elems(s) PROVE y \in Elems(c)
    <2>1. PICK k \in 1..Len(s) : s[k] = y
      BY <1>1, <1>4 DEF Elems
    <2>2. k \in 1..Len(c)
      BY <1>1
    <2> QED BY <1>1, <2>1, <2>2 DEF Elems
  <1>5. ASSUME NEW y \in Elems(t) PROVE y \in Elems(c)
    <2>1. PICK k \in 1..Len(t) : t[k] = y
      BY <1>1, <1>5 DEF Elems
    <2>2. Len(s) + k \in 1..Len(c)
      BY <1>1
    <2> QED BY <1>1, <1>2, <2>1, <2>2 DEF Elems
  <1>6. Elems(c) = Elems(s) \cup Elems(t)
    BY <1>3, <1>4, <1>5
  <1> QED BY <1>1, <1>2, <1>6 DEF c

\* A part of a sequence, from i on.
LEMMA ElemsSub ==
    ASSUME NEW S, NEW s \in Seq(S), NEW i \in 1..(Len(s) + 1), NEW j \in 0..Len(s), i <= j + 1
    PROVE  /\ SubSeq(s, i, j) \in Seq(S) /\ Len(SubSeq(s, i, j)) = (j + 1) - i
           /\ \A k \in 1..((j + 1) - i) : SubSeq(s, i, j)[k] = s[(i - 1) + k]
           /\ Elems(SubSeq(s, i, j)) = {s[k] : k \in i..j}
  <1> DEFINE c == SubSeq(s, i, j)
             n == (j + 1) - i
  <1>1. Len(s) \in Nat /\ n \in Nat /\ DOMAIN s = 1..Len(s) /\ \A k \in 1..n : (i - 1) + k \in 1..Len(s) /\ i + k - 1 = (i - 1) + k
    OBVIOUS
  <1>2. c = [k \in 1..n |-> s[i + k - 1]]
    <2>1. j - i + 1 = n
      OBVIOUS
    <2> QED BY <2>1, SMT
  <1>3. \A k \in 1..n : c[k] = s[(i - 1) + k] /\ c[k] \in S
    BY <1>1, <1>2
  <1> HIDE DEF c
  <1>4. c \in Seq(S) /\ Len(c) = n /\ DOMAIN c = 1..n
    BY <1>1, <1>2, <1>3
  <1>5. ASSUME NEW y \in Elems(c) PROVE y \in {s[k] : k \in i..j}
    <2>1. PICK k \in 1..n : c[k] = y
      BY <1>4, <1>5 DEF Elems
    <2>2. (i - 1) + k \in i..j
      BY <1>1
    <2> QED BY <1>3, <2>1, <2>2
  <1>6. ASSUME NEW k \in i..j PROVE s[k] \in Elems(c)
    <2>1. k - (i - 1) \in 1..n /\ (i - 1) + (k - (i - 1)) = k
      BY <1>1
    <2>2. c[k - (i - 1)] = s[k]
      BY <1>3, <2>1
    <2> QED BY <1>4, <2>1, <2>2 DEF Elems
  <1>7. Elems(c) = {s[k] : k \in i..j}
    BY <1>5, <1>6
  <1> QED BY <1>3, <1>4, <1>7 DEF c

\* and pick.
LEMMA ElemsPick ==
    ASSUME NEW S, NEW s \in Seq(S), NEW K
    PROVE  /\ Pick(s, K) \in Seq(S)
           /\ Elems(Pick(s, K)) = {s[k] : k \in K \cap DOMAIN s}
           /\ (K \cap DOMAIN s # {} => Pick(s, K) # <<>>)
  <1> DEFINE c == Pick(s, K)
  <1>1. PICK e : Picked(s, K, c, e, Len(s))
    BY PickIs
  <1>2. c \in Seq(S)
    BY PickIs
  <1> HIDE DEF c
  <1>3. /\ DOMAIN c = 1..Len(c) /\ DOMAIN s = 1..Len(s)
        /\ \A j \in 1..Len(c) : e[j] \in 1..Len(s) /\ e[j] \in K /\ c[j] = s[e[j]]
        /\ \A k \in 1..Len(s) : k \in K => \E j \in 1..Len(c) : e[j] = k
    BY <1>1, <1>2 DEF Picked
  <1>4. Elems(c) = {s[k] : k \in K \cap DOMAIN s}
    <2>1. ASSUME NEW j \in DOMAIN c PROVE c[j] \in {s[k] : k \in K \cap DOMAIN s}
      BY <1>3
    <2>2. ASSUME NEW k \in K \cap DOMAIN s PROVE \E j \in DOMAIN c : c[j] = s[k]
      BY <1>3
    <2> QED BY <2>1, <2>2 DEF Elems
  <1>5. ASSUME c = <<>> PROVE K \cap DOMAIN s = {}
    <2>1. Len(c) = 0
      BY <1>5
    <2> QED BY <1>3, <2>1
  <1> QED BY <1>2, <1>4, <1>5 DEF c

\* No two rows of a chat are one message: kept by picking rows,
LEMMA FreePick ==
    ASSUME NEW S, NEW s \in Seq(S), NEW K, Free(s)
    PROVE  Free(Pick(s, K))
  <1> DEFINE c == Pick(s, K)
  <1>1. PICK e : Picked(s, K, c, e, Len(s))
    BY PickIs
  <1>2. c \in Seq(S)
    BY PickIs
  <1> HIDE DEF c
  <1>3. /\ DOMAIN c = 1..Len(c) /\ DOMAIN s = 1..Len(s) /\ Len(c) \in Nat
        /\ \A j \in 1..Len(c) : e[j] \in 1..Len(s) /\ c[j] = s[e[j]]
        /\ \A j, l \in 1..Len(c) : j < l => e[j] < e[l]
    BY <1>1, <1>2 DEF Picked
  <1>4. ASSUME NEW j \in DOMAIN c, NEW k \in DOMAIN c, j # k PROVE e[j] # e[k]
    <2>1. j \in Nat /\ k \in Nat /\ (j < k \/ k < j) /\ e[j] \in Nat /\ e[k] \in Nat
      BY <1>3, <1>4
    <2> QED BY <1>3, <2>1
  <1>5. Free(c)
    BY <1>3, <1>4 DEF Free
  <1> QED BY <1>5 DEF c

\* by dropping the first ones,
LEMMA FreeSub ==
    ASSUME NEW S, NEW s \in Seq(S), NEW i \in 1..(Len(s) + 1), Free(s)
    PROVE  Free(SubSeq(s, i, Len(s)))
  <1> DEFINE c == SubSeq(s, i, Len(s))
             n == (Len(s) + 1) - i
  <1>1. Len(s) \in Nat /\ Len(s) \in 0..Len(s) /\ i <= Len(s) + 1 /\ DOMAIN s = 1..Len(s)
    OBVIOUS
  <1>2. c \in Seq(S) /\ Len(c) = n /\ \A k \in 1..n : c[k] = s[(i - 1) + k]
    BY <1>1, ElemsSub
  <1> HIDE DEF c
  <1>3. DOMAIN c = 1..n
    BY <1>2
  <1>4. \A j, k \in 1..n : j # k => (i - 1) + j \in 1..Len(s) /\ (i - 1) + k \in 1..Len(s) /\ (i - 1) + j # (i - 1) + k
    BY <1>1
  <1>5. Free(c)
    BY <1>1, <1>2, <1>3, <1>4 DEF Free
  <1> QED BY <1>5 DEF c

\* Two sequences without a clash inside or across.
LEMMA FreeCat ==
    ASSUME NEW S, NEW s \in Seq(S), NEW t \in Seq(S), Free(s), Free(t),
           \A a \in Elems(s), b \in Elems(t) : ~Clash(a, b)
    PROVE  Free(s \o t)
  <1> DEFINE c == s \o t
  <1>1. /\ c \in Seq(S) /\ Len(c) = Len(s) + Len(t)
        /\ \A k \in 1..Len(s) : c[k] = s[k]
        /\ \A k \in 1..Len(t) : c[Len(s) + k] = t[k]
    BY ElemsCat
  <1> HIDE DEF c
  <1>2. DOMAIN c = 1..Len(c) /\ DOMAIN s = 1..Len(s) /\ DOMAIN t = 1..Len(t) /\ Len(s) \in Nat /\ Len(t) \in Nat
    BY <1>1
  <1>3. \A k \in DOMAIN c : \/ k \in DOMAIN s /\ c[k] = s[k]
                            \/ k - Len(s) \in DOMAIN t /\ c[k] = t[k - Len(s)]
    <2> SUFFICES ASSUME NEW k \in DOMAIN c, k \notin DOMAIN s
                 PROVE  k - Len(s) \in DOMAIN t /\ c[k] = t[k - Len(s)]
      BY <1>1, <1>2
    <2>1. k - Len(s) \in 1..Len(t) /\ Len(s) + (k - Len(s)) = k
      BY <1>1, <1>2
    <2> QED BY <1>1, <1>2, <2>1
  <1>4. \A a, b : Clash(a, b) <=> Clash(b, a)
    BY DEF Clash
  <1>5. ASSUME NEW j \in DOMAIN c, NEW k \in DOMAIN c, j # k PROVE ~Clash(c[j], c[k])
    <2>1. CASE j \in DOMAIN s /\ c[j] = s[j] /\ k \in DOMAIN s /\ c[k] = s[k]
      BY <1>5, <2>1 DEF Free
    <2>2. CASE j \in DOMAIN s /\ c[j] = s[j] /\ k - Len(s) \in DOMAIN t /\ c[k] = t[k - Len(s)]
      BY <2>2 DEF Elems
    <2>3. CASE k \in DOMAIN s /\ c[k] = s[k] /\ j - Len(s) \in DOMAIN t /\ c[j] = t[j - Len(s)]
      BY <1>4, <2>3 DEF Elems
    <2>4. CASE j - Len(s) \in DOMAIN t /\ c[j] = t[j - Len(s)] /\ k - Len(s) \in DOMAIN t /\ c[k] = t[k - Len(s)]
      <3>1. j - Len(s) # k - Len(s)
        BY <1>2, <1>5
      <3> QED BY <2>4, <3>1 DEF Free
    <2> QED BY <1>3, <2>1, <2>2, <2>3, <2>4
  <1>6. Free(c)
    BY <1>5 DEF Free
  <1> QED BY <1>6 DEF c

\* A row more that clashes with none.
LEMMA FreeAppend ==
    ASSUME NEW S, NEW s \in Seq(S), NEW x \in S, Free(s),
           \A a \in Elems(s) : ~Clash(a, x)
    PROVE  Free(Append(s, x))
  <1> DEFINE c == Append(s, x)
  <1>1. /\ c \in Seq(S) /\ DOMAIN c = 1..(Len(s) + 1) /\ c[Len(s) + 1] = x /\ Len(s) \in Nat
        /\ DOMAIN s = 1..Len(s) /\ \A k \in 1..Len(s) : c[k] = s[k]
    OBVIOUS
  <1> HIDE DEF c
  <1>2. \A k \in DOMAIN c : k = Len(s) + 1 \/ k \in DOMAIN s
    BY <1>1
  <1>3. \A a, b : Clash(a, b) <=> Clash(b, a)
    BY DEF Clash
  <1>4. \A k \in DOMAIN s : c[k] = s[k] /\ ~Clash(s[k], x) /\ ~Clash(x, s[k])
    BY <1>1, <1>3 DEF Elems
  <1>5. Free(c)
    BY <1>1, <1>2, <1>4 DEF Free
  <1> QED BY <1>5 DEF c

\* The cap keeps a part of the rows, or all of them.
LEMMA CapTailIs ==
    ASSUME NEW S, NEW s \in Seq(S)
    PROVE  /\ CapTail(s) \in Seq(S) /\ Elems(CapTail(s)) \subseteq Elems(s)
           /\ Len(CapTail(s)) < MaxMessages => CapTail(s) = s
           /\ Len(CapTail(s)) >= MaxMessages \/ Len(CapTail(s)) = Len(s)
  <1>1. Len(s) \in Nat /\ MaxMessages \in Nat \ {0} /\ DOMAIN s = 1..Len(s)
    BY ChatAssumption
  <1>2. CASE Len(s) > MaxMessages
    <2> DEFINE i == (Len(s) - MaxMessages) + 1
               c == SubSeq(s, i, Len(s))
    <2>1. i \in 1..(Len(s) + 1) /\ Len(s) \in 0..Len(s) /\ i <= Len(s) + 1 /\ (Len(s) + 1) - i = MaxMessages
          /\ i = Len(s) - MaxMessages + 1 /\ i..Len(s) \subseteq 1..Len(s)
      BY <1>1, <1>2
    <2>2. CapTail(s) = c
      BY <1>2, <2>1 DEF CapTail
    <2> HIDE DEF i
    <2>3. c \in Seq(S) /\ Len(c) = MaxMessages /\ Elems(c) = {s[k] : k \in i..Len(s)}
      BY <2>1, ElemsSub
    <2> HIDE DEF c
    <2>4. Elems(c) \subseteq Elems(s)
      BY <1>1, <2>1, <2>3 DEF Elems
    <2> QED BY <1>1, <2>2, <2>3, <2>4
  <1>3. CASE ~(Len(s) > MaxMessages)
    <2>1. CapTail(s) = s
      BY <1>3 DEF CapTail
    <2> QED BY <2>1
  <1> QED BY <1>2, <1>3

----------------------------------------------------------------------------
(* The store: how many rows it can come to hold.                            *)

\* The bounds of the store and of the faults are numbers.
LEMMA BoundsOK ==
    /\ Cardinality(Intents) \in Nat /\ MaxLog \in Nat /\ Asked \in Nat /\ Asked = MaxLog + 1
    /\ MaxRows \in Nat /\ MaxFaults \in Nat
  <1>1. Cardinality(Intents) \in Nat /\ MaxRows \in Nat /\ MaxFaults \in Nat
    BY ChatAssumption, FS_CardinalityType
  <1>2. Cardinality(Intents) * (MaxFaults + 1) \in Nat
    BY <1>1
  <1> QED BY <1>1, <1>2 DEF MaxLog, Asked

\* The rows of one intent are finitely many.
LEMMA RowsFinite ==
    ASSUME log \in Seq(Entry), NEW i
    PROVE  IsFiniteSet(RowsOf(i)) /\ Cardinality(RowsOf(i)) \in Nat /\ RowsOf(i) \subseteq 1..Len(log)
  <1>1. RowsOf(i) \subseteq 1..Len(log)
    BY DEF RowsOf
  <1>2. IsFiniteSet(1..Len(log))
    BY FS_Interval
  <1> QED BY <1>1, <1>2, FS_Subset, FS_CardinalityType

\* Each row is told by its intent and its place among the rows of it.
LEMMA LogBound ==
    ASSUME LogOK
    PROVE  Len(log) <= MaxLog
  <1> DEFINE R(i) == RowsOf(i)
             B(k) == {j \in R(log[k].intent) : j <= k}
             X == {NoIntent} \X (1..MaxRows)
             Y == Intents \X (1..(MaxFaults + 1))
             f == [k \in 1..Len(log) |-> <<log[k].intent, Cardinality(B(k))>>]
  <1>1. log \in Seq(Entry) /\ Len(log) \in Nat /\ DOMAIN log = 1..Len(log)
    BY DEF LogOK
  <1>2. \A k \in 1..Len(log) : log[k].intent \in Intents \cup {NoIntent}
    <2> SUFFICES ASSUME NEW k \in 1..Len(log) PROVE log[k].intent \in Intents \cup {NoIntent}
      OBVIOUS
    <2>1. log[k] \in Entry
      BY <1>1
    <2> QED BY <2>1 DEF Entry
  <1>3. ASSUME NEW k \in 1..Len(log)
        PROVE  /\ IsFiniteSet(B(k)) /\ Cardinality(B(k)) \in Nat
               /\ k \in B(k) /\ Cardinality(B(k)) >= 1
               /\ Cardinality(B(k)) <= Cardinality(R(log[k].intent))
    <2>1. IsFiniteSet(R(log[k].intent)) /\ B(k) \subseteq R(log[k].intent)
      BY <1>1, RowsFinite
    <2>2. k \in B(k)
      BY <1>1, <1>3 DEF RowsOf
    <2> HIDE DEF B, R
    <2>3. IsFiniteSet(B(k)) /\ Cardinality(B(k)) \in Nat /\ Cardinality(B(k)) <= Cardinality(R(log[k].intent))
      BY <2>1, FS_Subset, FS_CardinalityType
    <2>4. Cardinality(B(k)) # 0
      BY <2>2, <2>3, FS_EmptySet
    <2> QED BY <2>2, <2>3, <2>4
  <1>4. ASSUME NEW k \in 1..Len(log), NEW l \in 1..Len(log), k < l, log[k].intent = log[l].intent
        PROVE  Cardinality(B(k)) < Cardinality(B(l))
    <2>1. B(k) \subseteq B(l)
      BY <1>1, <1>4 DEF RowsOf
    <2>2. l \notin B(k)
      BY <1>4
    <2>3. IsFiniteSet(B(k)) /\ IsFiniteSet(B(l)) /\ Cardinality(B(k)) \in Nat /\ Cardinality(B(l)) \in Nat /\ l \in B(l)
      BY <1>3
    <2> HIDE DEF B
    <2>4. Cardinality(B(k)) <= Cardinality(B(l)) /\ (Cardinality(B(k)) = Cardinality(B(l)) => B(k) = B(l))
      BY <2>1, <2>3, FS_Subset
    <2> QED BY <2>2, <2>3, <2>4
  <1>5. ASSUME NEW k \in 1..Len(log) PROVE f[k] \in X \cup Y
    <2>1. CASE log[k].intent = NoIntent
      <3>1. Cardinality(R(log[k].intent)) <= MaxRows /\ Cardinality(R(log[k].intent)) \in Nat
        BY <1>1, <2>1, RowsFinite DEF LogOK
      <3> HIDE DEF B, R
      <3>2. Cardinality(B(k)) \in 1..MaxRows
        BY <1>3, <3>1, BoundsOK
      <3>3. f[k] = <<NoIntent, Cardinality(B(k))>>
        BY <2>1
      <3> QED BY <3>2, <3>3
    <2>2. CASE log[k].intent # NoIntent
      <3>0. log[k].intent \in Intents
        BY <1>2, <2>2
      <3>1. Cardinality(R(log[k].intent)) <= faults + (IF log[k].intent \in seen THEN 1 ELSE 0)
        BY <3>0 DEF LogOK
      <3>2. faults \in 0..MaxFaults /\ Cardinality(R(log[k].intent)) \in Nat
        BY <1>1, RowsFinite DEF LogOK
      <3> HIDE DEF B, R
      <3>3. Cardinality(B(k)) \in 1..(MaxFaults + 1)
        BY <1>3, <3>1, <3>2, BoundsOK
      <3> QED BY <3>0, <3>3
    <2> QED BY <2>1, <2>2
  <1>6. f \in [1..Len(log) -> X \cup Y]
    BY <1>5
  <1>7. ASSUME NEW k \in 1..Len(log), NEW l \in 1..Len(log), f[k] = f[l] PROVE k = l
    <2> HIDE DEF B
    <2>1. log[k].intent = log[l].intent /\ Cardinality(B(k)) = Cardinality(B(l))
      BY <1>7
    <2>2. Cardinality(B(k)) \in Nat /\ Cardinality(B(l)) \in Nat /\ (k < l \/ l < k \/ k = l)
      BY <1>1, <1>3
    <2>3. ~(k < l)
      BY <1>4, <2>1, <2>2
    <2>4. ~(l < k)
      BY <1>4, <2>1, <2>2
    <2> QED BY <2>2, <2>3, <2>4
  <1> HIDE DEF f
  <1>8. IsFiniteSet(1..Len(log)) /\ Cardinality(1..Len(log)) = Len(log)
    BY <1>1, FS_Interval
  <1>9. /\ IsFiniteSet(X) /\ Cardinality(X) = MaxRows
        /\ IsFiniteSet(Y) /\ Cardinality(Y) = Cardinality(Intents) * (MaxFaults + 1)
    <2>1. /\ IsFiniteSet(1..MaxRows) /\ Cardinality(1..MaxRows) = MaxRows
          /\ IsFiniteSet(1..(MaxFaults + 1)) /\ Cardinality(1..(MaxFaults + 1)) = MaxFaults + 1
      <3>1. 1 \in Int /\ MaxRows \in Int /\ MaxFaults + 1 \in Int
        BY BoundsOK
      <3>2. /\ IsFiniteSet(1..MaxRows) /\ Cardinality(1..MaxRows) = IF 1 > MaxRows THEN 0 ELSE MaxRows - 1 + 1
            /\ IsFiniteSet(1..(MaxFaults + 1))
            /\ Cardinality(1..(MaxFaults + 1)) = IF 1 > MaxFaults + 1 THEN 0 ELSE (MaxFaults + 1) - 1 + 1
        BY <3>1, FS_Interval
      <3> QED BY <3>2, BoundsOK
    <2>2. IsFiniteSet({NoIntent}) /\ Cardinality({NoIntent}) = 1
      BY FS_Singleton
    <2>3. IsFiniteSet(Intents)
      BY ChatAssumption
    <2>4. IsFiniteSet(X) /\ Cardinality(X) = 1 * MaxRows
      BY <2>1, <2>2, FS_Product
    <2>5. IsFiniteSet(Y) /\ Cardinality(Y) = Cardinality(Intents) * (MaxFaults + 1)
      BY <2>1, <2>3, FS_Product
    <2> QED BY <2>4, <2>5, BoundsOK
  <1> HIDE DEF X, Y
  <1>10. /\ IsFiniteSet(X \cup Y) /\ Cardinality(X \cup Y) = Cardinality(X) + Cardinality(Y) - Cardinality(X \cap Y)
         /\ IsFiniteSet(X \cap Y)
    BY <1>9, FS_Union, FS_Subset
  <1>11. Cardinality(X \cap Y) \in Nat /\ Cardinality(X \cup Y) \in Nat
    BY <1>10, FS_CardinalityType
  <1>12. f \in Injection(1..Len(log), X \cup Y)
    BY <1>6, <1>7 DEF Injection, IsInjective
  <1>13. Cardinality(1..Len(log)) <= Cardinality(X \cup Y)
    BY <1>8, <1>10, <1>12, FS_Injection
  <1>14. Cardinality(X) + Cardinality(Y) = MaxLog
    BY <1>9 DEF MaxLog
  <1>15. Cardinality(X) \in Nat /\ Cardinality(Y) \in Nat
    BY <1>9, FS_CardinalityType
  <1> QED BY <1>1, <1>8, <1>10, <1>11, <1>13, <1>14, <1>15

----------------------------------------------------------------------------
(* What the steps do to the store: one row is written, or none.             *)

FaultOrNot == faults' = faults \/ (faults < MaxFaults /\ faults' = faults + 1)

\* A row is written; the session notices nothing yet.
Written(e) ==
    /\ Persist(e)
    /\ UNCHANGED <<live, chat, queue, phase, seeds, retries, held, more, sawOpen, seeded, taps>>
    /\ e.type = "chat" => e.intent = NoIntent
    /\ \/ e.intent = NoIntent /\ MayWrite /\ UNCHANGED <<seen, faults>>
       \/ e.intent \in Intents /\ e.intent \notin seen /\ seen' = seen \cup {e.intent} /\ FaultOrNot

\* A request has come to its end without a new row.
NotWritten ==
    /\ UNCHANGED <<log, seen, live, wire, told, chat, queue, phase>>
    /\ UNCHANGED <<seeds, retries, held, more, sawOpen, seeded, taps>>
    /\ FaultOrNot

\* What requests there are, when one of them comes to an end.
PostsFall ==
    /\ posts \in [Intents -> [sent : Nat, orphan : Nat, retry : Nat, failed : Nat]] =>
         /\ posts' \in [Intents -> [sent : Nat, orphan : Nat, retry : Nat, failed : Nat]]
         /\ \A j \in Intents : Due(j)' <= Due(j) /\ posts'[j].orphan <= posts[j].orphan

\* The steps that write nothing, whose session may change.
SessionStep ==
    \/ Subscribe
    \/ SocketLost
    \/ DaemonRestart
    \/ \E i \in Intents : Send(i)
    \/ \E i \in Intents : Retry(i)
    \/ \E i \in Intents : PostFails(i)
    \/ Open
    \/ Receive
    \/ TypingDone
    \/ \E k \in DOMAIN seeds : SeedReads(k)
    \/ \E k \in DOMAIN seeds : SeedLands(k)
    \/ \E k \in DOMAIN seeds : SeedFails(k)
    \/ SeedRetry
    \/ LoadMore
    \/ MoreLands
    \/ TrimHistory
    \/ Remount

EntryOf(i) == [type |-> "user", intent |-> i]

\* message_handler stores the intent it does not remember, or nothing.
LEMMA IntakeIs ==
    ASSUME NEW i \in Intents, Intake(i), FaultOrNot, UNCHANGED <<live, chat, queue, phase, pageVars, taps>>
    PROVE  (\E e \in Entry : Written(e)) \/ NotWritten
  <1>1. CASE i \in seen /\ UNCHANGED <<log, seen, wire, told>>
    BY <1>1 DEF NotWritten, pageVars
  <1>2. CASE i \notin seen /\ Persist(EntryOf(i)) /\ seen' = seen \cup {i}
    <2>1. EntryOf(i) \in Entry /\ EntryOf(i).intent = i /\ EntryOf(i).type = "user"
      BY DEF EntryOf, Entry
    <2>2. UNCHANGED <<live, chat, queue, phase, seeds, retries, held, more, sawOpen, seeded, taps>>
      BY DEF pageVars
    <2>3. EntryOf(i).type = "chat" => EntryOf(i).intent = NoIntent
      BY <2>1
    <2>4. Written(EntryOf(i))
      BY <1>2, <2>1, <2>2, <2>3 DEF Written
    <2> QED BY <2>1, <2>4
  <1> QED BY <1>1, <1>2 DEF Intake, EntryOf

\* A send's requests are counted in numbers.
LEMMA PostTypes ==
    ASSUME posts \in [Intents -> [sent : Nat, orphan : Nat, retry : Nat, failed : Nat]], NEW i \in Intents
    PROVE  /\ posts[i].sent \in Nat /\ posts[i].orphan \in Nat /\ posts[i].retry \in Nat /\ posts[i].failed \in Nat
           /\ posts[i] = [sent |-> posts[i].sent, orphan |-> posts[i].orphan,
                          retry |-> posts[i].retry, failed |-> posts[i].failed]
           /\ Due(i) \in Nat
  <1>1. posts[i] \in [sent : Nat, orphan : Nat, retry : Nat, failed : Nat]
    OBVIOUS
  <1> QED BY <1>1 DEF Due

\* A request that arrives is gone.
LEMMA ArrivalFalls ==
    ASSUME NEW i \in Intents, PostArrives(i) \/ OrphanArrives(i)
    PROVE  PostsFall
  <1> SUFFICES ASSUME posts \in [Intents -> [sent : Nat, orphan : Nat, retry : Nat, failed : Nat]]
               PROVE  /\ posts' \in [Intents -> [sent : Nat, orphan : Nat, retry : Nat, failed : Nat]]
                      /\ \A j \in Intents : Due(j)' <= Due(j) /\ posts'[j].orphan <= posts[j].orphan
    BY DEF PostsFall
  <1>1. \A j \in Intents : /\ posts[j].sent \in Nat /\ posts[j].orphan \in Nat
                           /\ posts[j].retry \in Nat /\ posts[j].failed \in Nat
                           /\ posts[j] = [sent |-> posts[j].sent, orphan |-> posts[j].orphan,
                                          retry |-> posts[j].retry, failed |-> posts[j].failed]
    BY PostTypes
  <1>2. ASSUME NEW r \in [sent : Nat, orphan : Nat, retry : Nat, failed : Nat],
               posts' = [posts EXCEPT ![i] = r], r.orphan <= posts[i].orphan,
               r.sent + r.retry + r.failed <= posts[i].sent + posts[i].retry + posts[i].failed
        PROVE  /\ posts' \in [Intents -> [sent : Nat, orphan : Nat, retry : Nat, failed : Nat]]
               /\ \A j \in Intents : Due(j)' <= Due(j) /\ posts'[j].orphan <= posts[j].orphan
    <2>3. posts'[i] = r /\ \A j \in Intents : j # i => posts'[j] = posts[j]
      BY <1>2
    <2>4. posts' \in [Intents -> [sent : Nat, orphan : Nat, retry : Nat, failed : Nat]]
      BY <1>2
    <2>5. ASSUME NEW j \in Intents PROVE Due(j)' <= Due(j) /\ posts'[j].orphan <= posts[j].orphan
      <3>1. CASE j = i
        BY <1>2, <2>3, <3>1 DEF Due
      <3>2. CASE j # i
        BY <1>1, <2>3, <3>2 DEF Due
      <3> QED BY <3>1, <3>2
    <2> QED BY <2>4, <2>5
  <1> DEFINE P(a, b, c, d) == [sent |-> a, orphan |-> b, retry |-> c, failed |-> d]
             s == posts[i].sent
             o == posts[i].orphan
             t == posts[i].retry
             f == posts[i].failed
  <1>3. s \in Nat /\ o \in Nat /\ t \in Nat /\ f \in Nat /\ posts[i] = P(s, o, t, f)
    BY <1>1
  <1>4. \A a, b, c, d \in Nat : /\ P(a, b, c, d) \in [sent : Nat, orphan : Nat, retry : Nat, failed : Nat]
                                /\ P(a, b, c, d).sent = a /\ P(a, b, c, d).orphan = b
                                /\ P(a, b, c, d).retry = c /\ P(a, b, c, d).failed = d
    OBVIOUS
  <1>5. CASE PostArrives(i)
    <2>1. s > 0 /\ s - 1 \in Nat /\ t + 1 \in Nat /\ f + 1 \in Nat
      BY <1>3, <1>5 DEF PostArrives
    <2>2. \/ posts' = [posts EXCEPT ![i].sent = @ - 1]
          \/ posts' = [posts EXCEPT ![i].sent = @ - 1, ![i].retry = @ + 1]
          \/ posts' = [posts EXCEPT ![i].sent = @ - 1, ![i]["retry"] = @ + 1]
          \/ posts' = [posts EXCEPT ![i].sent = @ - 1, ![i]["failed"] = @ + 1]
      BY <1>5, Zenon DEF PostArrives
    <2>3. \/ posts' = [posts EXCEPT ![i] = P(s - 1, o, t, f)]
          \/ posts' = [posts EXCEPT ![i] = P(s - 1, o, t + 1, f)]
          \/ posts' = [posts EXCEPT ![i] = P(s - 1, o, t, f + 1)]
      BY <1>3, <2>2
    <2>5. PICK r \in [sent : Nat, orphan : Nat, retry : Nat, failed : Nat] :
              /\ posts' = [posts EXCEPT ![i] = r] /\ r.orphan <= o
              /\ r.sent + r.retry + r.failed <= s + t + f
      <3>1. CASE posts' = [posts EXCEPT ![i] = P(s - 1, o, t, f)]
        <4> DEFINE r == P(s - 1, o, t, f)
        <4>1. /\ r \in [sent : Nat, orphan : Nat, retry : Nat, failed : Nat]
              /\ r.sent = s - 1 /\ r.orphan = o /\ r.retry = t /\ r.failed = f
          BY <1>3, <1>4, <2>1
        <4> HIDE DEF r, s, o, t, f
        <4>2. r.orphan <= o /\ r.sent + r.retry + r.failed <= s + t + f
          BY <1>3, <2>1, <4>1
        <4>3. posts' = [posts EXCEPT ![i] = r]
          BY <3>1 DEF r
        <4> QED BY <4>1, <4>2, <4>3
      <3>2. CASE posts' = [posts EXCEPT ![i] = P(s - 1, o, t + 1, f)]
        <4> DEFINE r == P(s - 1, o, t + 1, f)
        <4>1. /\ r \in [sent : Nat, orphan : Nat, retry : Nat, failed : Nat]
              /\ r.sent = s - 1 /\ r.orphan = o /\ r.retry = t + 1 /\ r.failed = f
          BY <1>3, <1>4, <2>1
        <4> HIDE DEF r, s, o, t, f
        <4>2. r.orphan <= o /\ r.sent + r.retry + r.failed <= s + t + f
          BY <1>3, <2>1, <4>1
        <4>3. posts' = [posts EXCEPT ![i] = r]
          BY <3>2 DEF r
        <4> QED BY <4>1, <4>2, <4>3
      <3>3. CASE posts' = [posts EXCEPT ![i] = P(s - 1, o, t, f + 1)]
        <4> DEFINE r == P(s - 1, o, t, f + 1)
        <4>1. /\ r \in [sent : Nat, orphan : Nat, retry : Nat, failed : Nat]
              /\ r.sent = s - 1 /\ r.orphan = o /\ r.retry = t /\ r.failed = f + 1
          BY <1>3, <1>4, <2>1
        <4> HIDE DEF r, s, o, t, f
        <4>2. r.orphan <= o /\ r.sent + r.retry + r.failed <= s + t + f
          BY <1>3, <2>1, <4>1
        <4>3. posts' = [posts EXCEPT ![i] = r]
          BY <3>3 DEF r
        <4> QED BY <4>1, <4>2, <4>3
      <3> QED BY <2>3, <3>1, <3>2, <3>3
    <2> QED BY <1>2, <2>5 DEF s, o, t, f
  <1>6. CASE OrphanArrives(i)
    <2>1. o > 0 /\ o - 1 \in Nat /\ posts' = [posts EXCEPT ![i].orphan = @ - 1]
      BY <1>3, <1>6 DEF OrphanArrives
    <2>2. posts' = [posts EXCEPT ![i] = [posts[i] EXCEPT !.orphan = @ - 1]]
      BY <2>1
    <2>3. [posts[i] EXCEPT !.orphan = @ - 1] = P(s, o - 1, t, f)
      BY <1>3
    <2>4. posts' = [posts EXCEPT ![i] = P(s, o - 1, t, f)]
      BY <2>2, <2>3
    <2>5. PICK r \in [sent : Nat, orphan : Nat, retry : Nat, failed : Nat] :
              /\ posts' = [posts EXCEPT ![i] = r] /\ r.orphan <= o
              /\ r.sent + r.retry + r.failed <= s + t + f
      <3> DEFINE r == P(s, o - 1, t, f)
      <3>1. /\ r \in [sent : Nat, orphan : Nat, retry : Nat, failed : Nat]
            /\ r.sent = s /\ r.orphan = o - 1 /\ r.retry = t /\ r.failed = f
        BY <1>3, <1>4, <2>1
      <3> HIDE DEF r, s, o, t, f
      <3>2. r.orphan <= o /\ r.sent + r.retry + r.failed <= s + t + f
        BY <1>3, <2>1, <3>1
      <3>3. posts' = [posts EXCEPT ![i] = r]
        BY <2>4 DEF r
      <3> QED BY <3>1, <3>2, <3>3
    <2> QED BY <1>2, <2>5 DEF s, o, t, f
  <1> QED BY <1>5, <1>6

\* The daemon writes a row, a request ends without one, or the session moves.
LEMMA StepKinds ==
    ASSUME Step
    PROVE  \/ (\E e \in Entry : Written(e)) /\ (PostsFall \/ UNCHANGED posts)
           \/ NotWritten /\ PostsFall
           \/ SessionStep
  <1>1. ASSUME AgentReply \/ OtherSend PROVE (\E e \in Entry : Written(e)) /\ UNCHANGED posts
    <2> DEFINE e(t) == [type |-> t, intent |-> NoIntent]
    <2>1. \A t \in {"user", "chat"} : e(t) \in Entry /\ e(t).intent = NoIntent
      BY DEF Entry
    <2>2. PICK t \in {"user", "chat"} : Persist(e(t))
      BY <1>1 DEF AgentReply, OtherSend
    <2>3. MayWrite /\ UNCHANGED <<seen, faults>> /\ UNCHANGED posts
      BY <1>1 DEF AgentReply, OtherSend, sendVars
    <2>4. UNCHANGED <<live, chat, queue, phase, seeds, retries, held, more, sawOpen, seeded, taps>>
      BY <1>1 DEF AgentReply, OtherSend, pageVars, sendVars
    <2> HIDE DEF e
    <2>5. Written(e(t))
      BY <2>1, <2>2, <2>3, <2>4 DEF Written
    <2> QED BY <2>1, <2>3, <2>5
  <1>2. ASSUME NEW i \in Intents, PostArrives(i)
        PROVE  (\E e \in Entry : Written(e)) \/ NotWritten
    <2>1. UNCHANGED <<live, chat, queue, phase, pageVars, taps>>
      BY <1>2 DEF PostArrives
    <2>2. \/ Intake(i) /\ FaultOrNot
          \/ FaultOrNot /\ UNCHANGED <<log, seen, wire, told>>
      BY <1>2 DEF PostArrives, FaultOrNot, Fault
    <2>3. CASE Intake(i) /\ FaultOrNot
      BY <2>1, <2>3, IntakeIs
    <2>4. CASE FaultOrNot /\ UNCHANGED <<log, seen, wire, told>>
      BY <2>1, <2>4 DEF NotWritten, pageVars
    <2> QED BY <2>2, <2>3, <2>4
  <1>3. ASSUME NEW i \in Intents, OrphanArrives(i)
        PROVE  (\E e \in Entry : Written(e)) \/ NotWritten
    <2>1. UNCHANGED <<live, chat, queue, phase, pageVars, taps>>
      BY <1>3 DEF OrphanArrives
    <2>2. \/ Intake(i) /\ FaultOrNot
          \/ FaultOrNot /\ UNCHANGED <<log, seen, wire, told>>
      BY <1>3 DEF OrphanArrives, FaultOrNot, Fault
    <2>3. CASE Intake(i) /\ FaultOrNot
      BY <2>1, <2>3, IntakeIs
    <2>4. CASE FaultOrNot /\ UNCHANGED <<log, seen, wire, told>>
      BY <2>1, <2>4 DEF NotWritten, pageVars
    <2> QED BY <2>2, <2>3, <2>4
  <1>4. CASE \E i \in Intents : PostArrives(i)
    BY <1>2, <1>4, ArrivalFalls
  <1>5. CASE \E i \in Intents : OrphanArrives(i)
    BY <1>3, <1>5, ArrivalFalls
  <1> QED BY <1>1, <1>4, <1>5, Zenon DEF Step, SessionStep

----------------------------------------------------------------------------
(* The store and the link keep in order.                                    *)

\* Steps of the session leave the store alone.
LEMMA SessionStore ==
    ASSUME SessionStep
    PROVE  log' = log /\ (seen' = seen \/ (seen' = {} /\ Fault)) /\ FaultOrNot
  <1> USE DEF FaultOrNot, Fault, daemonVars
  <1>1. CASE Subscribe BY <1>1 DEF Subscribe
  <1>2. CASE SocketLost BY <1>2 DEF SocketLost
  <1>3. CASE DaemonRestart BY <1>3 DEF DaemonRestart
  <1>4. CASE \E i \in Intents : Send(i) BY <1>4 DEF Send
  <1>5. CASE \E i \in Intents : Retry(i) BY <1>5 DEF Retry
  <1>6. CASE \E i \in Intents : PostFails(i) BY <1>6 DEF PostFails
  <1>7. CASE Open BY <1>7 DEF Open
  <1>8. CASE Receive BY <1>8 DEF Receive
  <1>9. CASE TypingDone BY <1>9 DEF TypingDone
  <1>10. CASE \E k \in DOMAIN seeds : SeedReads(k) BY <1>10 DEF SeedReads
  <1>11. CASE \E k \in DOMAIN seeds : SeedLands(k) BY <1>11 DEF SeedLands
  <1>12. CASE \E k \in DOMAIN seeds : SeedFails(k) BY <1>12 DEF SeedFails
  <1>13. CASE SeedRetry BY <1>13 DEF SeedRetry
  <1>14. CASE LoadMore BY <1>14 DEF LoadMore
  <1>15. CASE MoreLands BY <1>15 DEF MoreLands
  <1>16. CASE TrimHistory BY <1>16 DEF TrimHistory
  <1>17. CASE Remount BY <1>17 DEF Remount
  <1> QED BY <1>1, <1>2, <1>3, <1>4, <1>5, <1>6, <1>7, <1>8, <1>9, <1>10, <1>11, <1>12,
             <1>13, <1>14, <1>15, <1>16, <1>17, Zenon DEF SessionStep

\* A row more is one of its own intent.
LEMMA RowsGrow ==
    ASSUME log \in Seq(Entry), NEW e \in Entry, log' = Append(log, e), NEW i
    PROVE  Cardinality(RowsOf(i))' = IF i = e.intent THEN Cardinality(RowsOf(i)) + 1 ELSE Cardinality(RowsOf(i))
  <1>1. /\ Len(log) \in Nat /\ DOMAIN log = 1..Len(log) /\ DOMAIN log' = 1..(Len(log) + 1)
        /\ log'[Len(log) + 1] = e /\ \A k \in 1..Len(log) : log'[k] = log[k]
    OBVIOUS
  <1>2. RowsOf(i)' = {k \in DOMAIN log' : log'[k].intent = i}
    BY DEF RowsOf
  <1>3. \A k \in DOMAIN log' : k = Len(log) + 1 \/ k \in DOMAIN log
    BY <1>1
  <1>4. RowsOf(i)' = IF i = e.intent THEN RowsOf(i) \cup {Len(log) + 1} ELSE RowsOf(i)
    <2>1. \A k \in DOMAIN log : k \in DOMAIN log' /\ log'[k].intent = log[k].intent
      BY <1>1
    <2>2. Len(log) + 1 \in DOMAIN log' /\ log'[Len(log) + 1].intent = e.intent
      BY <1>1
    <2> QED BY <1>2, <1>3, <2>1, <2>2 DEF RowsOf
  <1>5. IsFiniteSet(RowsOf(i)) /\ Len(log) + 1 \notin RowsOf(i)
    BY <1>1, RowsFinite
  <1> QED BY <1>4, <1>5, FS_AddElement

\* The store keeps its form and its rows, and each intent its count: Store.append is
\* the only writer.
LEMMA LogNext ==
    ASSUME LogOK, Step
    PROVE  LogOK' /\ DOMAIN log \subseteq DOMAIN log' /\ (\A k \in DOMAIN log : log'[k] = log[k]) /\ Len(log) <= Len(log')
  <1>0. /\ log \in Seq(Entry) /\ Len(log) \in Nat /\ faults \in Nat /\ faults <= MaxFaults /\ MaxFaults \in Nat
        /\ MaxRows \in Nat /\ seen \subseteq Intents
    BY BoundsOK DEF LogOK
  <1>1. ASSUME log' = log, seen' = seen \/ (seen' = {} /\ faults' = faults + 1 /\ faults < MaxFaults), FaultOrNot
        PROVE  LogOK'
    <2>1. faults' \in 0..MaxFaults /\ faults' >= faults /\ faults' \in Nat
      BY <1>0, <1>1 DEF FaultOrNot
    <2>2. \A i : RowsOf(i)' = RowsOf(i)
      BY <1>1 DEF RowsOf
    <2>3. \A i \in Intents : Cardinality(RowsOf(i)) <= faults' + (IF i \in seen' THEN 1 ELSE 0)
      <3> SUFFICES ASSUME NEW i \in Intents PROVE Cardinality(RowsOf(i)) <= faults' + (IF i \in seen' THEN 1 ELSE 0)
        OBVIOUS
      <3>1. Cardinality(RowsOf(i)) <= faults + (IF i \in seen THEN 1 ELSE 0) /\ Cardinality(RowsOf(i)) \in Nat
        BY <1>0, RowsFinite DEF LogOK
      <3> QED BY <1>0, <1>1, <2>1, <3>1
    <2> QED BY <1>0, <1>1, <2>1, <2>2, <2>3 DEF LogOK
  <1>2. CASE SessionStep
    BY <1>1, <1>2, SessionStore DEF Fault
  <1>3. CASE NotWritten
    BY <1>1, <1>3 DEF NotWritten
  <1>4. CASE \E e \in Entry : Written(e)
    <2>1. PICK e \in Entry : Written(e)
      BY <1>4
    <2>2. log' = Append(log, e) /\ (e.type = "chat" => e.intent = NoIntent)
      BY <2>1 DEF Written, Persist
    <2>3. /\ log' \in Seq(Entry) /\ DOMAIN log = 1..Len(log) /\ DOMAIN log' = 1..(Len(log) + 1) /\ Len(log') = Len(log) + 1
          /\ log'[Len(log) + 1] = e /\ \A k \in 1..Len(log) : log'[k] = log[k]
      BY <1>0, <2>2
    <2>4. \A k \in DOMAIN log' : log'[k].type = "chat" => log'[k].intent = NoIntent
      <3>1. \A k \in DOMAIN log : log[k].type = "chat" => log[k].intent = NoIntent
        BY DEF LogOK
      <3>2. \A k \in DOMAIN log' : k = Len(log) + 1 \/ k \in DOMAIN log
        BY <1>0, <2>3
      <3> QED BY <2>2, <2>3, <3>1, <3>2
    <2>5. \A i : Cardinality(RowsOf(i))' = IF i = e.intent THEN Cardinality(RowsOf(i)) + 1 ELSE Cardinality(RowsOf(i))
      BY <1>0, <2>2, RowsGrow
    <2>6. \A i : Cardinality(RowsOf(i)) \in Nat
      BY <1>0, RowsFinite
    <2>7. \/ e.intent = NoIntent /\ MayWrite /\ seen' = seen /\ faults' = faults
          \/ e.intent \in Intents /\ e.intent \notin seen /\ seen' = seen \cup {e.intent} /\ FaultOrNot
      BY <2>1 DEF Written
    <2>8. seen' \subseteq Intents /\ faults' \in 0..MaxFaults /\ faults' >= faults
      BY <1>0, <2>7 DEF FaultOrNot
    <2>9. Cardinality(RowsOf(NoIntent))' <= MaxRows
      <3>1. MayWrite => Cardinality(RowsOf(NoIntent)) < MaxRows
        BY DEF MayWrite, RowsOf
      <3>2. Cardinality(RowsOf(NoIntent)) <= MaxRows /\ NoIntent \notin Intents
        BY ChatAssumption DEF LogOK
      <3> QED BY <1>0, <2>5, <2>6, <2>7, <3>1, <3>2
    <2>10. ASSUME NEW i \in Intents
           PROVE  Cardinality(RowsOf(i))' <= faults' + (IF i \in seen' THEN 1 ELSE 0)
      <3>1. Cardinality(RowsOf(i)) <= faults + (IF i \in seen THEN 1 ELSE 0) /\ NoIntent \notin Intents
        BY ChatAssumption DEF LogOK
      <3>2. Cardinality(RowsOf(i)) \in Nat /\ faults' \in Nat
        BY <2>6, <2>8
      <3>3. CASE i = e.intent
        <4>1. i \notin seen /\ i \in seen'
          BY <2>7, <3>1, <3>3
        <4> QED BY <1>0, <2>5, <2>8, <3>1, <3>2, <3>3, <4>1
      <3>4. CASE i # e.intent
        <4>1. i \in seen => i \in seen'
          BY <2>7
        <4> QED BY <1>0, <2>5, <2>8, <3>1, <3>2, <3>4, <4>1
      <3> QED BY <3>3, <3>4
    <2>11. LogOK'
      BY <2>3, <2>4, <2>8, <2>9, <2>10 DEF LogOK
    <2> QED BY <1>0, <2>3, <2>11
  <1>5. ASSUME log' = log PROVE DOMAIN log \subseteq DOMAIN log' /\ (\A k \in DOMAIN log : log'[k] = log[k]) /\ Len(log) <= Len(log')
    BY <1>0, <1>5
  <1> QED BY <1>2, <1>3, <1>4, <1>5, StepKinds, SessionStore DEF NotWritten

\* The empty sequence has no element.
LEMMA ElemsEmpty == Elems(<<>>) = {}
  BY DEF Elems

\* The elements of a sequence, by its places.
LEMMA ElemsIn ==
    ASSUME NEW S, NEW s \in Seq(S)
    PROVE  /\ Elems(s) \subseteq S /\ \A k \in 1..Len(s) : s[k] \in Elems(s)
           /\ \A x \in Elems(s) : \E k \in 1..Len(s) : x = s[k]
           /\ Len(s) \in Nat /\ (Len(s) = 0 <=> s = <<>>)
           /\ (Elems(s) = {} <=> s = <<>>)
  <1>1. DOMAIN s = 1..Len(s) /\ Len(s) \in Nat /\ (Len(s) = 0 <=> s = <<>>)
    OBVIOUS
  <1>2. Elems(s) = {s[k] : k \in 1..Len(s)}
    BY <1>1 DEF Elems
  <1>3. \A k \in 1..Len(s) : s[k] \in S
    OBVIOUS
  <1>4. s # <<>> => s[1] \in Elems(s)
    BY <1>1, <1>2
  <1>5. s = <<>> => Elems(s) = {}
    BY <1>1, <1>2
  <1> HIDE DEF Elems
  <1> QED BY <1>1, <1>2, <1>3, <1>4, <1>5

\* A fetch that ends leaves the others.
LEMMA DropIs ==
    ASSUME seeds \in Seq(Nat), NEW k \in DOMAIN seeds
    PROVE  /\ Drop(k) \in Seq(Nat) /\ Len(Drop(k)) = Len(seeds) - 1 /\ Len(seeds) >= 1
           /\ Elems(Drop(k)) \subseteq Elems(seeds)
           /\ Elems(seeds) \subseteq Elems(Drop(k)) \cup {seeds[k]}
  <1> DEFINE n == Len(seeds)
             p == k - 1
             q == k + 1
             a == SubSeq(seeds, 1, p)
             b == SubSeq(seeds, q, n)
  <1>0. n \in Nat /\ DOMAIN seeds = 1..n /\ k \in 1..n
    OBVIOUS
  <1>1. /\ 1 \in 1..(n + 1) /\ p \in 0..n /\ 1 <= p + 1 /\ p + 1 - 1 = p
        /\ q \in 1..(n + 1) /\ n \in 0..n /\ q <= n + 1 /\ (p + 1) - 1 = k - 1 /\ (n + 1) - q = n - k
    BY <1>0
  <1>1a. /\ \A l \in 1..n : l = k \/ l \in 1..p \/ l \in q..n
         /\ 1..p \subseteq 1..n /\ q..n \subseteq 1..n
    BY <1>0
  <1> HIDE DEF p, q
  <1>2. a \in Seq(Nat) /\ Len(a) = (p + 1) - 1 /\ Elems(a) = {seeds[l] : l \in 1..p}
    BY <1>1, ElemsSub
  <1>3. b \in Seq(Nat) /\ Len(b) = (n + 1) - q /\ Elems(b) = {seeds[l] : l \in q..n}
    <2>1. q \in 1..(Len(seeds) + 1) /\ Len(seeds) \in 0..Len(seeds) /\ q <= Len(seeds) + 1
      BY <1>1
    <2>2. /\ SubSeq(seeds, q, Len(seeds)) \in Seq(Nat) /\ Len(SubSeq(seeds, q, Len(seeds))) = (Len(seeds) + 1) - q
          /\ \A l \in 1..((Len(seeds) + 1) - q) : SubSeq(seeds, q, Len(seeds))[l] = seeds[(q - 1) + l]
          /\ Elems(SubSeq(seeds, q, Len(seeds))) = {seeds[l] : l \in q..Len(seeds)}
      BY <2>1, ElemsSub
    <2> QED BY <2>2
  <1> HIDE DEF a, b, n
  <1>4. /\ a \o b \in Seq(Nat) /\ Len(a \o b) = Len(a) + Len(b)
        /\ Elems(a \o b) = Elems(a) \cup Elems(b)
        /\ \A l \in 1..Len(a) : (a \o b)[l] = a[l]
        /\ \A l \in 1..Len(b) : (a \o b)[Len(a) + l] = b[l]
    <2>1. a \in Seq(Nat) /\ b \in Seq(Nat)
      BY <1>2, <1>3
    <2> QED BY <2>1, ElemsCat
  <1>5. Drop(k) = a \o b
    BY DEF Drop, a, b, n, p, q
  <1>6. Elems(seeds) = {seeds[l] : l \in 1..n}
    BY <1>0 DEF Elems, n
  <1>7. Len(a \o b) = n - 1 /\ n >= 1
    <2>1. Len(a) = k - 1 /\ Len(b) = n - k /\ Len(a \o b) = Len(a) + Len(b)
      BY <1>1, <1>2, <1>3, <1>4
    <2>2. n \in Nat /\ k \in Nat /\ 1 <= k /\ k <= n
      BY <1>0
    <2> QED BY <2>1, <2>2
  <1>8. Elems(a \o b) \subseteq Elems(seeds) /\ Elems(seeds) \subseteq Elems(a \o b) \cup {seeds[k]}
    BY <1>1a, <1>2, <1>3, <1>4, <1>6
  <1> QED BY <1>4, <1>5, <1>7, <1>8 DEF n

\* Steps that leave the connection as it is.
LinkStill ==
    \/ \E i \in Intents : Send(i)
    \/ \E i \in Intents : Retry(i)
    \/ \E i \in Intents : PostFails(i)
    \/ \E k \in DOMAIN seeds : SeedReads(k)
    \/ \E k \in DOMAIN seeds : SeedLands(k)
    \/ \E k \in DOMAIN seeds : SeedFails(k)
    \/ SeedRetry
    \/ LoadMore
    \/ MoreLands
    \/ TrimHistory

\* Steps that touch neither the store nor the link.
LEMMA LinkStillIs ==
    ASSUME LinkStill
    PROVE  UNCHANGED <<log, live, wire, queue, phase, sawOpen>>
  <1> USE DEF daemonVars, pageVars
  <1>4. CASE \E i \in Intents : Send(i) BY <1>4 DEF Send
  <1>5. CASE \E i \in Intents : Retry(i) BY <1>5 DEF Retry
  <1>6. CASE \E i \in Intents : PostFails(i) BY <1>6 DEF PostFails
  <1>10. CASE \E k \in DOMAIN seeds : SeedReads(k) BY <1>10 DEF SeedReads
  <1>11. CASE \E k \in DOMAIN seeds : SeedLands(k) BY <1>11 DEF SeedLands
  <1>12. CASE \E k \in DOMAIN seeds : SeedFails(k) BY <1>12 DEF SeedFails
  <1>13. CASE SeedRetry BY <1>13 DEF SeedRetry
  <1>14. CASE LoadMore BY <1>14 DEF LoadMore
  <1>15. CASE MoreLands BY <1>15 DEF MoreLands
  <1>16. CASE TrimHistory BY <1>16 DEF TrimHistory
  <1> QED BY <1>4, <1>5, <1>6, <1>10, <1>11, <1>12, <1>13, <1>14, <1>15, <1>16, Zenon DEF LinkStill

\* The link carries the newest rows in order: the daemon sends on append only.
LEMMA WireNext ==
    ASSUME LogOK, WireOK, SeedsOK, Step
    PROVE  WireOK'
  <1>0. /\ live \in BOOLEAN /\ phase \in {"down", "open"} /\ sawOpen \in BOOLEAN
        /\ wire \in Seq(Nat) /\ Len(wire) <= Len(log) /\ Len(wire) \in Nat /\ Len(log) \in Nat /\ log \in Seq(Entry)
        /\ \A k \in 1..Len(wire) : wire[k] = Len(log) - Len(wire) + k
        /\ (~live => wire = <<>>) /\ (phase = "open" => sawOpen) /\ (phase = "open" /\ queue # <<>> => live)
        /\ (~sawOpen => queue = <<>>)
    BY DEF WireOK, SeedsOK, LogOK
  <1>1. ASSUME wire' = <<>>, log' = log, live' \in BOOLEAN, phase' \in {"down", "open"},
               phase' = "open" => sawOpen' /\ (queue' = <<>> \/ live')
        PROVE  WireOK'
    <2>1. wire' \in Seq(Nat) /\ Len(wire') = 0
      BY <1>1
    <2> QED BY <1>0, <1>1, <2>1 DEF WireOK
  <1>2. CASE Subscribe
    BY <1>0, <1>1, <1>2 DEF Subscribe, pageVars
  <1>3. CASE SocketLost \/ DaemonRestart \/ Remount
    BY <1>1, <1>3 DEF SocketLost, DaemonRestart, Remount
  <1>4. CASE LinkStill
    BY <1>0, <1>4, LinkStillIs DEF WireOK
  <1>5. CASE NotWritten
    BY <1>0, <1>5 DEF NotWritten, WireOK
  <1>6. CASE Open
    BY <1>0, <1>6 DEF Open, daemonVars, WireOK
  <1>7. CASE TypingDone
    <2>1. UNCHANGED <<log, live, wire, phase, sawOpen>> /\ queue # <<>>
      BY <1>7 DEF TypingDone, daemonVars, pageVars
    <2> QED BY <1>0, <2>1 DEF WireOK
  <1>8. CASE Receive
    <2>1. UNCHANGED <<log, live, phase, sawOpen>> /\ wire # <<>> /\ wire' = Tail(wire) /\ phase = "open"
      BY <1>8 DEF Receive, pageVars
    <2>2. /\ wire' \in Seq(Nat) /\ Len(wire') = Len(wire) - 1 /\ Len(wire') \in Nat
          /\ \A k \in 1..Len(wire') : k + 1 \in 1..Len(wire) /\ wire'[k] = wire[k + 1]
      BY <1>0, <2>1
    <2>3. \A k \in 1..Len(wire') : wire'[k] = Len(log) - Len(wire') + k
      BY <1>0, <2>2
    <2> QED BY <1>0, <2>1, <2>2, <2>3 DEF WireOK
  <1>9. CASE \E e \in Entry : Written(e)
    <2>1. PICK e \in Entry : log' = Append(log, e) /\ wire' = (IF live THEN Append(wire, Len(log) + 1) ELSE wire)
                             /\ UNCHANGED <<live, phase, queue, sawOpen>>
      BY <1>9 DEF Written, Persist
    <2>2. Len(log') = Len(log) + 1
      BY <1>0, <2>1
    <2>3. CASE live
      <3>1. /\ wire' \in Seq(Nat) /\ Len(wire') = Len(wire) + 1 /\ wire'[Len(wire) + 1] = Len(log) + 1
            /\ \A k \in 1..Len(wire) : wire'[k] = wire[k]
        BY <1>0, <2>1, <2>3
      <3>2. \A k \in 1..Len(wire') : wire'[k] = Len(log') - Len(wire') + k
        <4> SUFFICES ASSUME NEW k \in 1..Len(wire') PROVE wire'[k] = Len(log') - Len(wire') + k
          OBVIOUS
        <4>1. CASE k = Len(wire) + 1
          BY <1>0, <2>2, <3>1, <4>1
        <4>2. CASE k # Len(wire) + 1
          <5>1. k \in 1..Len(wire)
            BY <1>0, <3>1, <4>2
          <5> QED BY <1>0, <2>2, <3>1, <5>1
        <4> QED BY <4>1, <4>2
      <3> QED BY <1>0, <2>1, <2>2, <2>3, <3>1, <3>2 DEF WireOK
    <2>4. CASE ~live
      <3>1. wire' = <<>> /\ Len(wire') = 0 /\ wire' \in Seq(Nat)
        BY <1>0, <2>1, <2>4
      <3> QED BY <1>0, <2>1, <2>2, <2>4, <3>1 DEF WireOK
    <2> QED BY <2>3, <2>4
  <1> QED BY <1>2, <1>3, <1>4, <1>5, <1>6, <1>7, <1>8, <1>9, StepKinds, Zenon DEF SessionStep, LinkStill

\* Before the first open one seed is fetched, and no retry is armed.
LEMMA SeedsNext ==
    ASSUME LogOK, WireOK, SeedsOK, Step
    PROVE  SeedsOK'
  <1>0. /\ sawOpen \in BOOLEAN /\ seeded \in BOOLEAN
        /\ seeds \in Seq(Nat) /\ (\A n \in Elems(seeds) : n <= Len(log) \/ n = Asked)
        /\ retries \in Nat /\ held \in BOOLEAN /\ (held => retries > 0)
        /\ (~sawOpen => queue = <<>> /\ retries = 0 /\ Len(seeds) <= 1 /\ (seeded => seeds = <<>>))
        /\ (phase = "open" => sawOpen) /\ log \in Seq(Entry) /\ Len(log) \in Nat /\ Len(seeds) \in Nat /\ Asked \in Nat
        /\ phase \in {"down", "open"}
    BY BoundsOK DEF SeedsOK, LogOK, WireOK
  <1>1. Asked' = Asked
    BY DEF Asked
  \* What a step must show of the seeds it leaves.
  <1> DEFINE Fine(s) == s \in Seq(Nat) /\ \A n \in Elems(s) : n <= Len(log) \/ n = Asked
  <1>2. Len(log) <= Len(log') /\ Len(log') \in Nat
    BY LogNext DEF LogOK
  <1>3. ASSUME Fine(seeds') PROVE seeds' \in Seq(Nat) /\ \A n \in Elems(seeds') : n <= Len(log') \/ n = Asked'
    <2>1. Elems(seeds') \subseteq Nat
      BY <1>3, ElemsIn
    <2> QED BY <1>0, <1>1, <1>2, <1>3, <2>1
  <1>4. Fine(seeds)
    BY <1>0
  <1>5. Fine(Append(seeds, Asked)) /\ Len(Append(seeds, Asked)) = Len(seeds) + 1
    <2>1. Append(seeds, Asked) \in Seq(Nat) /\ Len(Append(seeds, Asked)) = Len(seeds) + 1
          /\ Elems(Append(seeds, Asked)) = Elems(seeds) \cup {Asked}
      BY <1>0, ElemsAppend
    <2> QED BY <1>0, <2>1
  <1>6. ASSUME NEW k \in DOMAIN seeds PROVE Fine(Drop(k)) /\ Len(Drop(k)) = Len(seeds) - 1 /\ (Len(seeds) <= 1 => Drop(k) = <<>>)
    <2>1. /\ Drop(k) \in Seq(Nat) /\ Len(Drop(k)) = Len(seeds) - 1 /\ Elems(Drop(k)) \subseteq Elems(seeds)
          /\ Len(seeds) >= 1
      BY <1>0, DropIs
    <2>2. Len(Drop(k)) = 0 => Drop(k) = <<>>
      BY <2>1
    <2> QED BY <1>0, <2>1, <2>2
  <1>7. Fine(<<Asked>>) /\ Len(<<Asked>>) = 1
    <2>1. Elems(<<Asked>>) = {Asked} /\ <<Asked>> \in Seq(Nat)
      BY <1>0 DEF Elems
    <2> QED BY <2>1
  <1> HIDE DEF Fine
  <1>8. ASSUME Fine(seeds'), sawOpen' \in BOOLEAN, seeded' \in BOOLEAN, retries' \in Nat, held' \in BOOLEAN, held' => retries' > 0,
               ~sawOpen' => queue' = <<>> /\ retries' = 0 /\ Len(seeds') <= 1 /\ (seeded' => seeds' = <<>>)
        PROVE  SeedsOK'
    BY <1>3, <1>8 DEF SeedsOK
  <1>9. ASSUME ClearSeedRetry
        PROVE  retries' \in Nat /\ held' = FALSE /\ (retries = 0 => retries' = 0)
    BY <1>0, <1>9 DEF ClearSeedRetry
  <1>10. CASE UNCHANGED <<seeds, retries, held, seeded, sawOpen>> /\ (queue' = queue \/ sawOpen)
    BY <1>0, <1>4, <1>8, <1>10
  <1>11. CASE SocketLost \/ DaemonRestart
    <2>1. UNCHANGED <<seeds, sawOpen, seeded, queue>> /\ ClearSeedRetry
      BY <1>11 DEF SocketLost, DaemonRestart
    <2> QED BY <1>0, <1>4, <1>8, <1>9, <2>1
  <1>12. CASE Open
    <2>1. sawOpen' = TRUE /\ seeded' = seeded /\ ClearSeedRetry /\ (seeds' = Append(seeds, Asked) \/ seeds' = seeds)
      BY <1>12 DEF Open
    <2> QED BY <1>0, <1>4, <1>5, <1>8, <1>9, <2>1
  <1>13. CASE \E k \in DOMAIN seeds : SeedReads(k)
    <2>1. PICK k \in DOMAIN seeds : SeedReads(k)
      BY <1>13
    <2>2. seeds' = [seeds EXCEPT ![k] = Len(log)] /\ UNCHANGED <<retries, held, sawOpen, seeded, queue>>
      BY <2>1 DEF SeedReads
    <2>3. /\ seeds' \in Seq(Nat) /\ Len(seeds') = Len(seeds) /\ DOMAIN seeds' = DOMAIN seeds
          /\ \A l \in DOMAIN seeds : seeds'[l] = Len(log) \/ seeds'[l] = seeds[l]
      BY <1>0, <2>2
    <2>4. Fine(seeds')
      BY <1>0, <2>3 DEF Fine, Elems
    <2>5. seeds = <<>> => seeds' = <<>>
      BY <1>0, <2>3
    <2> QED BY <1>0, <1>8, <2>2, <2>3, <2>4, <2>5
  <1>14. CASE \E k \in DOMAIN seeds : SeedLands(k)
    <2>1. PICK k \in DOMAIN seeds : SeedLands(k)
      BY <1>14
    <2>2. seeds' = Drop(k) /\ seeded' = TRUE /\ UNCHANGED <<retries, held, sawOpen, queue>>
      BY <2>1 DEF SeedLands
    <2>3. Len(seeds) <= 1 => Len(seeds') <= 1 /\ seeds' = <<>>
      BY <1>6, <2>2, <1>0
    <2> QED BY <1>0, <1>6, <1>8, <2>2, <2>3
  <1>15. CASE \E k \in DOMAIN seeds : SeedFails(k)
    <2>1. PICK k \in DOMAIN seeds : SeedFails(k)
      BY <1>15
    <2>2. /\ seeds' = Drop(k) /\ UNCHANGED <<sawOpen, seeded, queue>>
          /\ retries' = (IF phase = "open" THEN retries + 1 ELSE retries)
          /\ held' = (held \/ phase = "open")
      BY <2>1 DEF SeedFails
    <2>3. Len(seeds) <= 1 => Len(seeds') <= 1 /\ seeds' = <<>>
      BY <1>6, <2>2, <1>0
    <2>4. held' \in BOOLEAN /\ retries' \in Nat /\ (held' => retries' > 0) /\ (~sawOpen => retries' = retries)
      BY <1>0, <2>2
    <2> QED BY <1>0, <1>6, <1>8, <2>2, <2>3, <2>4
  <1>16. CASE SeedRetry
    <2>1. /\ retries > 0 /\ retries' = retries - 1 /\ held' = FALSE /\ seeds' = Append(seeds, Asked)
          /\ UNCHANGED <<sawOpen, seeded>>
      BY <1>16 DEF SeedRetry
    <2>2. sawOpen
      BY <1>0, <2>1
    <2>3. retries' \in Nat /\ held' \in BOOLEAN /\ ~held' /\ sawOpen' /\ sawOpen' \in BOOLEAN /\ seeded' \in BOOLEAN
      <3>1. retries' \in Nat
        BY <1>0, <2>1
      <3>2. held' \in BOOLEAN /\ ~held'
        BY <2>1
      <3>3. sawOpen' = sawOpen /\ seeded' = seeded
        BY <2>1
      <3>4. sawOpen' /\ sawOpen' \in BOOLEAN /\ seeded' \in BOOLEAN
        BY <1>0, <2>2, <3>3, Zenon
      <3> QED BY <3>1, <3>2, <3>4
    <2>4. Fine(seeds')
      BY <1>5, <2>1
    <2> QED BY <1>8, <2>3, <2>4
  <1>17. CASE Remount
    <2>1. /\ queue' = <<>> /\ sawOpen' = FALSE /\ seeded' = FALSE /\ seeds' = <<Asked>> /\ retries' = 0
          /\ held' = FALSE
      BY <1>17 DEF Remount
    <2>2. /\ retries' \in Nat /\ held' \in BOOLEAN /\ ~held' /\ ~sawOpen' /\ sawOpen' \in BOOLEAN
          /\ seeded' \in BOOLEAN /\ ~seeded'
      BY <2>1
    <2>3. Fine(seeds') /\ Len(seeds') <= 1
      BY <1>7, <2>1
    <2> QED BY <1>8, <2>1, <2>2, <2>3
  <1>18. CASE Receive \/ TypingDone
    <2>1. UNCHANGED <<seeds, retries, held, seeded, sawOpen>> /\ (phase = "open" \/ queue # <<>>)
      BY <1>18 DEF Receive, TypingDone, pageVars
    <2> QED BY <1>0, <1>10, <2>1
  <1>19. CASE (\E e \in Entry : Written(e)) \/ NotWritten
    <2>1. UNCHANGED <<seeds, retries, held, seeded, sawOpen, queue>>
      BY <1>19 DEF Written, NotWritten
    <2> QED BY <1>10, <2>1
  <1>20. CASE Subscribe \/ LoadMore \/ MoreLands \/ TrimHistory
    <2>1. UNCHANGED <<seeds, retries, held, seeded, sawOpen, queue>>
      BY <1>20 DEF Subscribe, LoadMore, MoreLands, TrimHistory, pageVars
    <2> QED BY <1>10, <2>1
  <1>21. CASE \E i \in Intents : Send(i) \/ Retry(i) \/ PostFails(i)
    <2>1. UNCHANGED <<seeds, retries, held, seeded, sawOpen, queue>>
      BY <1>21 DEF Send, Retry, PostFails, pageVars
    <2> QED BY <1>10, <2>1
  <1> QED BY <1>11, <1>12, <1>13, <1>14, <1>15, <1>16, <1>17, <1>18, <1>19, <1>20, <1>21, StepKinds, Zenon DEF SessionStep

----------------------------------------------------------------------------
(* Rows of the store and pages of them.                                     *)

\* An event carries the id and the intent of its stored row.
LEMMA EventIs ==
    ASSUME LogOK, NEW id \in 1..Len(log)
    PROVE  /\ Event(id) \in Row /\ Event(id).id = id /\ Event(id).intent = log[id].intent /\ Event(id).send = "none"
           /\ log[id].intent \in Intents \cup {NoIntent}
  <1>1. log[id] \in Entry /\ id \in 0..MaxLog
    BY LogBound, BoundsOK DEF LogOK
  <1>2. log[id].intent \in Intents \cup {NoIntent}
    BY <1>1 DEF Entry
  <1>3. "none" \in SendState
    BY DEF SendState
  <1> QED BY <1>1, <1>2, <1>3 DEF Event, Row

\* Store.page: the rows a page covers, and the cursor below them.
LEMMA PageBounds ==
    ASSUME LogOK, NEW n \in 0..Len(log)
    PROVE  /\ PageFrom(n) \in 1..(n + 1) /\ PageIds(n) = PageFrom(n)..n /\ PageIds(n) \subseteq 1..Len(log)
           /\ (n > 0 => PageFrom(n) <= n /\ n \in PageIds(n))
           /\ PageFrom(n) > 1 => PageCursor(n) = PageFrom(n) /\ PageFrom(n) \in PageIds(n)
           /\ PageFrom(n) = 1 => PageCursor(n) = 0
           /\ PageCursor(n) \in 0..Len(log)
  <1>1. PageSize \in Nat \ {0} /\ Len(log) \in Nat /\ n \in Nat
    BY ChatAssumption DEF LogOK
  <1>2. PageFrom(n) \in 1..(n + 1) /\ (n > 0 => PageFrom(n) <= n) /\ (PageFrom(n) > 1 => PageFrom(n) <= n)
    BY <1>1 DEF PageFrom
  <1> HIDE DEF PageFrom
  <1> QED BY <1>1, <1>2 DEF PageIds, PageCursor

\* A page has each row once.
LEMMA PageIs ==
    ASSUME LogOK, NEW n \in 0..Len(log)
    PROVE  /\ PageEvents(n) \in Seq(Row) /\ Free(PageEvents(n))
           /\ Elems(PageEvents(n)) = {Event(id) : id \in PageIds(n)}
  <1> DEFINE s == PageEvents(n)
             a == PageFrom(n)
             l == (n + 1) - a
             g == [k \in 1..l |-> Event(a + k - 1)]
  <1>1. /\ a \in 1..(n + 1) /\ PageIds(n) = a..n /\ PageIds(n) \subseteq 1..Len(log)
        /\ n \in Nat /\ Len(log) \in Nat
    BY PageBounds DEF LogOK
  <1>2. s = g
    <2>1. n + 1 - PageFrom(n) = l
      BY <1>1
    <2> QED BY <2>1, Zenon DEF PageEvents
  <1> HIDE DEF a, s
  <1>3. l \in Nat /\ \A k \in 1..l : a + k - 1 \in 1..Len(log) /\ a + k - 1 \in a..n
    BY <1>1
  <1>4. /\ \A k \in 1..l : g[k] \in Row /\ g[k] = Event(a + k - 1) /\ g[k].id = a + k - 1
    BY <1>3, EventIs
  <1> HIDE DEF g, l
  <1>4a. g = [k \in 1..l |-> g[k]]
    BY DEF g
  <1>5. g \in Seq(Row) /\ DOMAIN g = 1..l
    BY <1>3, <1>4, <1>4a
  <1>6. Free(g)
    <2> SUFFICES ASSUME NEW j \in 1..l, NEW k \in 1..l, j # k PROVE ~Clash(g[j], g[k])
      BY <1>5 DEF Free
    <2>1. g[j].id # 0 /\ g[k].id # 0 /\ g[j].id # g[k].id
      BY <1>1, <1>3, <1>4
    <2> QED BY <2>1 DEF Clash
  <1>7. Elems(g) = {Event(id) : id \in PageIds(n)}
    <2>1. ASSUME NEW x \in Elems(g) PROVE x \in {Event(id) : id \in PageIds(n)}
      BY <1>1, <1>3, <1>4, <1>5, <2>1 DEF Elems
    <2>2. ASSUME NEW id \in PageIds(n) PROVE Event(id) \in Elems(g)
      <3>1. (id - a) + 1 \in 1..l /\ a + ((id - a) + 1) - 1 = id
        BY <1>1 DEF l
      <3>2. g[(id - a) + 1] = Event(a + ((id - a) + 1) - 1)
        BY <1>4, <3>1
      <3>3. g[(id - a) + 1] = Event(id)
        BY <3>1, <3>2
      <3> QED BY <1>5, <3>1, <3>3 DEF Elems
    <2> QED BY <2>1, <2>2
  <1> QED BY <1>2, <1>5, <1>6, <1>7 DEF s

\* Rows that differ in their send states only.
Alike(s, t) ==
    /\ t \in Seq(Row) /\ Len(t) = Len(s)
    /\ \A k \in 1..Len(s) : t[k].id = s[k].id /\ t[k].intent = s[k].intent

\* Rows that differ in their send states are the same messages.
LEMMA AlikeIs ==
    ASSUME NEW s \in Seq(Row), NEW t, Alike(s, t)
    PROVE  /\ Free(s) => Free(t)
           /\ \A b \in Elems(t) : \E a \in Elems(s) : a.id = b.id /\ a.intent = b.intent
           /\ \A a \in Elems(s) : \E b \in Elems(t) : a.id = b.id /\ a.intent = b.intent
  <1>1. DOMAIN s = 1..Len(s) /\ DOMAIN t = 1..Len(s)
        /\ \A k \in 1..Len(s) : t[k].id = s[k].id /\ t[k].intent = s[k].intent
    BY DEF Alike
  <1> QED BY <1>1 DEF Free, Clash, Elems

\* MarkSend changes the send states of one intent.
LEMMA MarkIs ==
    ASSUME NEW s \in Seq(Row), NEW i, NEW send \in SendState
    PROVE  /\ Alike(s, Mark(s, i, send))
           /\ \A b \in Elems(Mark(s, i, send)) :
                \E a \in Elems(s) : a.intent = b.intent /\ b.send = IF b.intent = i THEN send ELSE a.send
  <1> DEFINE t == Mark(s, i, send)
  <1>1. /\ DOMAIN s = 1..Len(s) /\ Len(s) \in Nat
        /\ \A k \in 1..Len(s) : s[k] \in Row
    OBVIOUS
  <1>2. ASSUME NEW r \in Row
        PROVE  /\ [r EXCEPT !.send = send] \in Row /\ [r EXCEPT !.send = send].id = r.id
               /\ [r EXCEPT !.send = send].intent = r.intent /\ [r EXCEPT !.send = send].send = send
    BY <1>2 DEF Row
  <1>3. t = [k \in 1..Len(s) |-> IF s[k].intent = i THEN [s[k] EXCEPT !.send = send] ELSE s[k]]
    BY <1>1, Zenon DEF Mark
  <1>4. ASSUME NEW k \in 1..Len(s)
        PROVE  /\ t[k] \in Row /\ t[k].id = s[k].id /\ t[k].intent = s[k].intent
               /\ t[k].send = IF t[k].intent = i THEN send ELSE s[k].send
    <2>1. t[k] = IF s[k].intent = i THEN [s[k] EXCEPT !.send = send] ELSE s[k]
      BY <1>3
    <2>2. s[k] \in Row
      BY <1>1
    <2> HIDE DEF t
    <2> QED BY <1>2, <2>1, <2>2
  <1>5. t = [k \in 1..Len(s) |-> t[k]]
    BY <1>3
  <1> HIDE DEF t
  <1>6. t \in Seq(Row) /\ Len(t) = Len(s) /\ DOMAIN t = 1..Len(s)
    BY <1>1, <1>4, <1>5
  <1>7. Alike(s, t)
    BY <1>4, <1>6 DEF Alike
  <1> QED BY <1>1, <1>4, <1>6, <1>7 DEF Elems, t

----------------------------------------------------------------------------
(* What the folds make of a chat: what it holds, and what it shows.         *)

Chat(m, s, p, u, h) ==
    [messages |-> m, shownIds |-> s, pendingIntents |-> p, cursor |-> u, historyLoaded |-> h]

\* The chat state, by its fields: what it has,
LEMMA ChatFields ==
    ASSUME NEW m, NEW s, NEW p, NEW u, NEW h
    PROVE  /\ Chat(m, s, p, u, h).messages = m /\ Chat(m, s, p, u, h).shownIds = s
           /\ Chat(m, s, p, u, h).pendingIntents = p /\ Chat(m, s, p, u, h).cursor = u
           /\ Chat(m, s, p, u, h).historyLoaded = h
  BY DEF Chat

\* and what an edit of one of them leaves.
LEMMA ChatEdits ==
    ASSUME NEW c, c = Chat(c.messages, c.shownIds, c.pendingIntents, c.cursor, c.historyLoaded), NEW m, NEW s, NEW p, NEW u
    PROVE  /\ [c EXCEPT !.messages = m] = Chat(m, c.shownIds, c.pendingIntents, c.cursor, c.historyLoaded)
           /\ [c EXCEPT !.shownIds = s] = Chat(c.messages, s, c.pendingIntents, c.cursor, c.historyLoaded)
           /\ [c EXCEPT !.pendingIntents = p] = Chat(c.messages, c.shownIds, p, c.cursor, c.historyLoaded)
           /\ [c EXCEPT !.cursor = u] = Chat(c.messages, c.shownIds, c.pendingIntents, u, c.historyLoaded)
  BY DEF Chat

\* The rows differ in their send states only.
LEMMA MarkedIs ==
    ASSUME ChatIs(chat), NEW t, Alike(chat.messages, t),
           NEW d, d = Chat(t, chat.shownIds, chat.pendingIntents, chat.cursor, chat.historyLoaded)
    PROVE  /\ ChatIs(d) /\ Len(d.messages) = Len(chat.messages) /\ Shown(d) = Shown(chat)
           /\ OneEach(chat) => OneEach(d)
           /\ d.shownIds = chat.shownIds /\ d.pendingIntents = chat.pendingIntents
           /\ d.cursor = chat.cursor /\ d.historyLoaded = chat.historyLoaded
  <1>1. /\ d.messages = t /\ d.shownIds = chat.shownIds /\ d.pendingIntents = chat.pendingIntents
        /\ d.cursor = chat.cursor /\ d.historyLoaded = chat.historyLoaded
    BY ChatFields
  <1>2. chat.messages \in Seq(Row) /\ t \in Seq(Row) /\ Len(t) = Len(chat.messages)
    BY DEF ChatIs, Alike
  <1> DEFINE s == chat.messages
  <1>3. /\ Free(s) => Free(t)
        /\ \A b \in Elems(t) : \E a \in Elems(s) : a.id = b.id /\ a.intent = b.intent
        /\ \A a \in Elems(s) : \E b \in Elems(t) : a.id = b.id /\ a.intent = b.intent
    BY <1>2, AlikeIs
  <1>4. Elems(t) \subseteq Row
    BY <1>2, ElemsIn
  <1>5. \A b \in Elems(t) : RowOK(b, chat.pendingIntents)
    BY <1>3, <1>4 DEF ChatIs, RowOK
  <1>6. d = Chat(d.messages, d.shownIds, d.pendingIntents, d.cursor, d.historyLoaded)
    BY <1>1
  <1>7. ChatIs(d)
    BY <1>1, <1>2, <1>5, <1>6 DEF ChatIs, Chat
  <1>8. Shown(d) = Shown(chat)
    BY <1>1, <1>3 DEF Shown
  <1>9. OneEach(chat) => OneEach(d)
    BY <1>1, <1>3 DEF OneEach
  <1> QED BY <1>1, <1>2, <1>7, <1>8, <1>9

\* A bubble is added.
LEMMA BegunIs ==
    ASSUME ChatIs(chat), LogOK, NEW i \in Intents,
           \A k \in DOMAIN log : log[k].intent # i,
           \A k \in DOMAIN chat.messages : chat.messages[k].intent # i,
           NEW d, d = BeginSend(i)
    PROVE  /\ ChatIs(d) /\ d.messages \in Seq(Row)
           /\ Elems(d.messages) \subseteq Elems(chat.messages) \cup {[id |-> 0, intent |-> i, send |-> "sending"]}
           /\ d.shownIds = chat.shownIds /\ d.pendingIntents = chat.pendingIntents \cup {i}
           /\ d.cursor = chat.cursor /\ d.historyLoaded = chat.historyLoaded
           /\ Len(d.messages) < MaxMessages => (OneEach(chat) => OneEach(d)) /\ Shown(d) = Shown(chat)
  <1> DEFINE s == chat.messages
             x == [id |-> 0, intent |-> i, send |-> "sending"]
             t == Append(s, x)
             p == chat.pendingIntents \cup {i}
  <1>1. s \in Seq(Row) /\ \A a \in Elems(s) : RowOK(a, chat.pendingIntents)
    BY DEF ChatIs
  <1>2. x \in Row /\ x.id = 0 /\ x.intent = i
    BY BoundsOK DEF Row, SendState
  <1>3. d = Chat(CapTail(t), chat.shownIds, p, chat.cursor, chat.historyLoaded)
    BY DEF BeginSend, ChatIs, Chat
  <1>4. /\ d.messages = CapTail(t) /\ d.shownIds = chat.shownIds /\ d.pendingIntents = p
        /\ d.cursor = chat.cursor /\ d.historyLoaded = chat.historyLoaded
    BY <1>3, ChatFields
  <1>5. \A a \in Elems(s) : a.intent # i
    BY DEF Elems
  <1> HIDE DEF x
  <1>6. t \in Seq(Row) /\ Len(t) = Len(s) + 1 /\ Elems(t) = Elems(s) \cup {x}
    BY <1>1, <1>2, ElemsAppend
  <1>7. /\ CapTail(t) \in Seq(Row) /\ Elems(CapTail(t)) \subseteq Elems(t)
        /\ Len(CapTail(t)) < MaxMessages => CapTail(t) = t
    BY <1>6, CapTailIs
  <1>8. \A a \in Elems(t) : RowOK(a, p)
    BY <1>1, <1>2, <1>6, BoundsOK DEF RowOK, LogOK
  <1>9. p \subseteq Intents
    BY DEF ChatIs
  <1>10. ChatIs(d)
    <2>1. d = Chat(d.messages, d.shownIds, d.pendingIntents, d.cursor, d.historyLoaded)
      BY <1>3, <1>4
    <2> HIDE DEF t, p
    <2> QED BY <1>4, <1>7, <1>8, <1>9, <2>1 DEF ChatIs, Chat
  <1>11. ASSUME Len(d.messages) < MaxMessages, OneEach(chat) PROVE OneEach(d)
    <2>1. d.messages = t
      BY <1>4, <1>7, <1>11
    <2>2. Free(t)
      <3>1. \A a \in Elems(s) : ~Clash(a, x)
        BY <1>1, <1>2, <1>5 DEF Clash, RowOK
      <3>2. Free(s)
        BY <1>11 DEF OneEach
      <3> QED BY <1>1, <1>2, <3>1, <3>2, FreeAppend
    <2>3. \A a \in Elems(t) : a.id # 0 => a.intent \notin p
      BY <1>2, <1>5, <1>6, <1>11 DEF OneEach
    <2>4. \A j \in p : \E a \in Elems(t) : a.id = 0 /\ a.intent = j
      BY <1>2, <1>6, <1>11 DEF OneEach
    <2> HIDE DEF t, p
    <2> QED BY <1>4, <2>1, <2>2, <2>3, <2>4 DEF OneEach
  <1>12. ASSUME Len(d.messages) < MaxMessages PROVE Shown(d) = Shown(chat)
    <2>1. d.messages = t
      BY <1>4, <1>7, <1>12
    <2> QED BY <1>2, <1>6, <2>1 DEF Shown
  <1>13. Elems(d.messages) \subseteq Elems(s) \cup {x}
    BY <1>4, <1>6, <1>7
  <1> QED BY <1>4, <1>7, <1>10, <1>11, <1>12, <1>13 DEF x

\* A bubble takes the id of its echo.
LEMMA ConfirmedIs ==
    ASSUME ChatIs(chat), LogOK, NEW id \in 1..Len(log), log[id].intent \in chat.pendingIntents,
           NEW d, d = Confirm(id)
    PROVE  /\ ChatIs(d)
           /\ Elems(d.messages) \subseteq {a \in Elems(chat.messages) : a.intent # log[id].intent} \cup {Event(id)}
           /\ d.shownIds = chat.shownIds \cup {id} /\ d.pendingIntents = chat.pendingIntents \ {log[id].intent}
           /\ d.cursor = chat.cursor /\ d.historyLoaded = chat.historyLoaded
           /\ Len(d.messages) = Len(chat.messages)
           /\ OneEach(chat) => OneEach(d) /\ Shown(d) = Shown(chat) \cup {id}
  <1> DEFINE s == chat.messages
             i == log[id].intent
             x == Event(id)
             t == [k \in DOMAIN s |-> IF s[k].intent = i THEN x ELSE s[k]]
             p == chat.pendingIntents \ {i}
  <1>1. s \in Seq(Row) /\ DOMAIN s = 1..Len(s) /\ (\A a \in Elems(s) : RowOK(a, chat.pendingIntents)) /\ Len(s) \in Nat
    BY DEF ChatIs
  <1>2. x \in Row /\ x.id = id /\ x.intent = i /\ i \in Intents /\ i # NoIntent
    BY EventIs, ChatAssumption DEF ChatIs
  <1>3. d = Chat(t, chat.shownIds \cup {id}, p, chat.cursor, chat.historyLoaded)
    BY DEF Confirm, ChatIs, Chat
  <1>4. /\ d.messages = t /\ d.shownIds = chat.shownIds \cup {id} /\ d.pendingIntents = p
        /\ d.cursor = chat.cursor /\ d.historyLoaded = chat.historyLoaded
    BY <1>3, ChatFields
  <1> HIDE DEF x
  <1>5. /\ \A k \in 1..Len(s) : t[k] = IF s[k].intent = i THEN x ELSE s[k]
        /\ t = [k \in 1..Len(s) |-> t[k]]
    BY <1>1
  <1> HIDE DEF t
  <1>6. t \in Seq(Row) /\ DOMAIN t = 1..Len(s) /\ Len(t) = Len(s)
    <2>1. \A k \in 1..Len(s) : s[k] \in Row
      BY <1>1
    <2> HIDE DEF s, i
    <2>2. \A k \in 1..Len(s) : t[k] \in Row
      BY <1>2, <1>5, <2>1
    <2> QED BY <1>1, <1>5, <2>2
  <1>7. /\ \A a \in Elems(t) : a = x \/ (a \in Elems(s) /\ a.intent # i)
        /\ \A a \in Elems(s) : a.intent # i => a \in Elems(t)
        /\ \A a \in Elems(s) : a.intent = i => x \in Elems(t)
    BY <1>1, <1>5, <1>6 DEF Elems
  <1>8. \A a \in Elems(t) : RowOK(a, p)
    BY <1>1, <1>2, <1>7 DEF RowOK
  <1>9. ChatIs(d)
    <2>1. d = Chat(d.messages, d.shownIds, d.pendingIntents, d.cursor, d.historyLoaded)
      BY <1>3, <1>4
    <2>2. chat.shownIds \cup {id} \subseteq 1..Len(log) /\ p \subseteq Intents
      BY DEF ChatIs
    <2> HIDE DEF p
    <2> QED BY <1>4, <1>6, <1>8, <2>1, <2>2 DEF ChatIs, Chat
  <1>10. ASSUME OneEach(chat) PROVE OneEach(d) /\ Shown(d) = Shown(chat) \cup {id}
    <2>1. PICK a \in Elems(s) : a.id = 0 /\ a.intent = i
      BY <1>10 DEF OneEach
    <2>2. PICK j \in 1..Len(s) : s[j] = a
      BY <1>1 DEF Elems
    <2>3. \A k \in 1..Len(s) : k # j => s[k].intent # i
      BY <1>1, <1>2, <1>10, <2>1, <2>2 DEF OneEach, Free, Clash
    <2>4. \A b \in Elems(s) : b.id # id
      BY <1>1, <1>2, <1>10 DEF OneEach, RowOK
    <2>5. t[j] = x /\ \A k \in 1..Len(s) : k # j => t[k] = s[k] /\ s[k].id # id /\ s[k].intent # i
      BY <1>1, <1>5, <2>1, <2>2, <2>3, <2>4 DEF Elems
    <2>6. Free(t)
      <3>1. \A k, l \in 1..Len(s) : k # l => ~Clash(s[k], s[l])
        BY <1>1, <1>10 DEF OneEach, Free
      <3>2. \A k \in 1..Len(s) : k # j => ~Clash(t[k], x) /\ ~Clash(x, t[k])
        BY <1>2, <2>5 DEF Clash
      <3> QED BY <1>6, <2>5, <3>1, <3>2 DEF Free
    <2>7. \A b \in Elems(t) : b.id # 0 => b.intent \notin p
      BY <1>2, <1>7, <1>10 DEF OneEach
    <2>8. \A l \in p : \E b \in Elems(t) : b.id = 0 /\ b.intent = l
      BY <1>7, <1>10 DEF OneEach
    <2>9. x \in Elems(t)
      BY <1>7, <2>1
    <2>10. Shown(d) = Shown(chat) \cup {id}
      <3>1. \A b \in Elems(s) : b.intent = i => b.id = 0
        BY <1>10 DEF OneEach
      <3>2. id # 0
        OBVIOUS
      <3> QED BY <1>2, <1>4, <1>7, <2>9, <3>1, <3>2 DEF Shown
    <2>11. OneEach(d)
      <3> HIDE DEF p
      <3> QED BY <1>4, <2>6, <2>7, <2>8 DEF OneEach
    <2> QED BY <2>10, <2>11
  <1>11. Elems(d.messages) \subseteq {a \in Elems(s) : a.intent # i} \cup {x}
    BY <1>4, <1>7
  <1> QED BY <1>4, <1>6, <1>9, <1>10, <1>11 DEF x

\* The chat d is c and events of D, appended in turn; unless the cap was met,
\* nothing is lost.
Grown(c, d, D) ==
    /\ d = Chat(d.messages, c.shownIds, c.pendingIntents, c.cursor, c.historyLoaded)
    /\ d.messages \in Seq(Row)
    /\ Elems(d.messages) \subseteq Elems(c.messages) \cup {Event(u) : u \in D}
    /\ Len(d.messages) < MaxMessages => Elems(c.messages) \subseteq Elems(d.messages) /\ D \subseteq Shown(d)
StaysFree(c, d) == Len(d.messages) < MaxMessages /\ Free(c.messages) => Free(d.messages)

\* A chat that took events in: its ids grow by theirs, its sends stay.
LEMMA GrownIs ==
    ASSUME LogOK, NEW c, ChatIs(c), NEW D, D \subseteq 1..Len(log),
           \A u \in D : log[u].intent \notin c.pendingIntents, NEW d, Grown(c, d, D)
    PROVE  /\ ChatIs(d)
           /\ d.shownIds = c.shownIds /\ d.pendingIntents = c.pendingIntents
           /\ d.cursor = c.cursor /\ d.historyLoaded = c.historyLoaded
           /\ Len(d.messages) < MaxMessages =>
                /\ Shown(d) = Shown(c) \cup D
                /\ StaysFree(c, d) /\ OneEach(c) => OneEach(d)
  <1>1. /\ d.shownIds = c.shownIds /\ d.pendingIntents = c.pendingIntents
        /\ d.cursor = c.cursor /\ d.historyLoaded = c.historyLoaded
        /\ d = Chat(d.messages, d.shownIds, d.pendingIntents, d.cursor, d.historyLoaded)
    BY ChatFields DEF Grown
  <1>2. \A u \in D : /\ Event(u) \in Row /\ Event(u).id = u /\ Event(u).intent = log[u].intent
                     /\ u \in 1..Len(log)
    BY EventIs
  <1>3. /\ d.messages \in Seq(Row)
        /\ \A a \in Elems(d.messages) : a \in Elems(c.messages) \/ \E u \in D : a = Event(u)
    BY DEF Grown
  <1>4. Len(log) \in Nat
    BY DEF LogOK
  <1>5. \A a \in Elems(d.messages) : RowOK(a, d.pendingIntents)
    <2> SUFFICES ASSUME NEW a \in Elems(d.messages) PROVE RowOK(a, d.pendingIntents)
      OBVIOUS
    <2>1. CASE a \in Elems(c.messages)
      BY <1>1, <2>1 DEF ChatIs
    <2>2. CASE \E u \in D : a = Event(u)
      <3>1. PICK u \in D : a = Event(u)
        BY <2>2
      <3>2. u \in 1..Len(log) /\ Event(u) \in Row /\ Event(u).id = u /\ Event(u).intent = log[u].intent
        BY <1>2
      <3> HIDE DEF Event
      <3> QED BY <1>4, <3>1, <3>2 DEF RowOK
    <2> QED BY <1>3, <2>1, <2>2
  <1>6. ChatIs(d)
    BY <1>1, <1>3, <1>5 DEF ChatIs, Chat
  <1>7. ASSUME Len(d.messages) < MaxMessages PROVE Shown(d) = Shown(c) \cup D
    <2>1. Elems(c.messages) \subseteq Elems(d.messages) /\ D \subseteq Shown(d)
      BY <1>7 DEF Grown
    <2>2. \A u \in Shown(d) : u \in Shown(c) \/ u \in D
      BY <1>2, <1>3 DEF Shown
    <2> QED BY <2>1, <2>2 DEF Shown
  <1>8. ASSUME Len(d.messages) < MaxMessages, StaysFree(c, d), OneEach(c) PROVE OneEach(d)
    <2>1. Elems(c.messages) \subseteq Elems(d.messages)
      BY <1>8 DEF Grown
    <2>2. Free(d.messages)
      BY <1>8 DEF StaysFree, OneEach
    <2>3. \A a \in Elems(d.messages) : a.id # 0 => a.intent \notin d.pendingIntents
      BY <1>1, <1>2, <1>3, <1>8 DEF OneEach
    <2>4. \A i \in d.pendingIntents : \E a \in Elems(d.messages) : a.id = 0 /\ a.intent = i
      BY <1>1, <1>8, <2>1 DEF OneEach
    <2> QED BY <2>2, <2>3, <2>4 DEF OneEach
  <1> QED BY <1>1, <1>6, <1>7, <1>8

\* One event more.
LEMMA AppendedIs ==
    ASSUME LogOK, NEW c, c.messages \in Seq(Row), NEW u \in 1..Len(log),
           NEW t, t = CapTail(Append(c.messages, Event(u)))
    PROVE  /\ t \in Seq(Row) /\ Elems(t) \subseteq Elems(c.messages) \cup {Event(u)}
           /\ Len(t) < MaxMessages =>
                /\ Elems(t) = Elems(c.messages) \cup {Event(u)} /\ Len(c.messages) < MaxMessages
                /\ (Free(c.messages) /\ \A a \in Elems(c.messages) : ~Clash(a, Event(u))) => Free(t)
  <1> DEFINE x == Event(u)
             s == c.messages
             w == Append(s, x)
  <1>1. x \in Row
    BY EventIs
  <1> HIDE DEF x, s
  <1>2. s \in Seq(Row) /\ t = CapTail(w)
    BY DEF x, s
  <1>3. w \in Seq(Row) /\ Len(w) = Len(s) + 1 /\ Elems(w) = Elems(s) \cup {x}
    BY <1>1, <1>2, ElemsAppend
  <1>4. (Free(s) /\ \A a \in Elems(s) : ~Clash(a, x)) => Free(w)
    BY <1>1, <1>2, FreeAppend
  <1> HIDE DEF w
  <1>5. /\ CapTail(w) \in Seq(Row) /\ Elems(CapTail(w)) \subseteq Elems(w)
        /\ Len(CapTail(w)) < MaxMessages => CapTail(w) = w
        /\ Len(CapTail(w)) >= MaxMessages \/ Len(CapTail(w)) = Len(w)
    BY <1>3, CapTailIs
  <1>6. Len(s) \in Nat /\ MaxMessages \in Nat
    BY <1>2, ChatAssumption
  <1>7. /\ t \in Seq(Row) /\ Elems(t) \subseteq Elems(s) \cup {x}
        /\ Len(t) < MaxMessages =>
             /\ Elems(t) = Elems(s) \cup {x} /\ Len(s) < MaxMessages
             /\ (Free(s) /\ \A a \in Elems(s) : ~Clash(a, x)) => Free(t)
    BY <1>2, <1>3, <1>4, <1>5, <1>6
  <1> QED BY <1>7 DEF x, s

\* One reply is committed.
LEMMA CommitOne ==
    ASSUME LogOK, NEW c, NEW d, NEW D, Grown(c, d, D), StaysFree(c, d), NEW u \in 1..Len(log), log[u].intent = NoIntent
    PROVE  LET e == CommitPacedChat(d, u)
           IN  Grown(c, e, D \cup {u}) /\ StaysFree(c, e)
  <1> DEFINE e == CommitPacedChat(d, u)
             m == d.messages
             E == D \cup {u}
  <1>1. m \in Seq(Row) /\ DOMAIN m = 1..Len(m) /\ d = Chat(m, c.shownIds, c.pendingIntents, c.cursor, c.historyLoaded)
    BY DEF Grown
  <1>2. Event(u) \in Row /\ Event(u).id = u /\ Event(u).intent = NoIntent /\ u # 0
    BY EventIs
  <1>3. CASE \E k \in DOMAIN m : m[k].id = u
    <2>1. e = d
      BY <1>3 DEF CommitPacedChat
    <2>2. u \in Shown(d)
      BY <1>2, <1>3 DEF Shown, Elems
    <2>3. Grown(c, d, E)
      BY <2>2 DEF Grown
    <2> QED BY <2>1, <2>3
  <1>4. CASE ~ \E k \in DOMAIN m : m[k].id = u
    <2> DEFINE t == CapTail(Append(m, Event(u)))
    <2>1. e = [d EXCEPT !.messages = t]
      BY <1>4 DEF CommitPacedChat
    <2>2. /\ t \in Seq(Row) /\ Elems(t) \subseteq Elems(m) \cup {Event(u)}
          /\ Len(t) < MaxMessages =>
                /\ Elems(t) = Elems(m) \cup {Event(u)} /\ Len(m) < MaxMessages
                /\ (Free(m) /\ \A a \in Elems(m) : ~Clash(a, Event(u))) => Free(t)
      BY <1>1, AppendedIs
    <2> HIDE DEF t, e
    <2>3. e = Chat(t, c.shownIds, c.pendingIntents, c.cursor, c.historyLoaded) /\ e.messages = t
      BY <1>1, <2>1 DEF Chat
    <2>4. \A a \in Elems(m) : ~Clash(a, Event(u))
      BY <1>2, <1>4 DEF Clash, Elems
    <2>5. Elems(m) \subseteq Elems(c.messages) \cup {Event(v) : v \in D}
      BY DEF Grown
    <2>6. Elems(t) \subseteq Elems(c.messages) \cup {Event(v) : v \in E}
      BY <2>2, <2>5
    <2>7. ASSUME Len(t) < MaxMessages
          PROVE  /\ Elems(c.messages) \subseteq Elems(t) /\ E \subseteq Shown(e)
                 /\ Free(c.messages) => Free(t)
      <3>1. Elems(c.messages) \subseteq Elems(m) /\ D \subseteq Shown(d)
        BY <2>2, <2>7 DEF Grown
      <3>2. Elems(t) = Elems(m) \cup {Event(u)}
        BY <2>2, <2>7
      <3>3. D \subseteq Shown(e) /\ u \in Shown(e)
        BY <1>2, <2>3, <3>1, <3>2 DEF Shown
      <3>4. Free(c.messages) => Free(m)
        BY <2>2, <2>7 DEF StaysFree
      <3> QED BY <2>2, <2>4, <2>7, <3>1, <3>2, <3>3, <3>4
    <2>8. Grown(c, e, E)
      BY <2>2, <2>3, <2>6, <2>7 DEF Grown
    <2>9. StaysFree(c, e)
      BY <2>3, <2>7 DEF StaysFree
    <2> QED BY <2>8, <2>9 DEF e
  <1> QED BY <1>3, <1>4

\* All of them are, in turn.
LEMMA CommitIs ==
    ASSUME LogOK, NEW c, c.messages \in Seq(Row), c = Chat(c.messages, c.shownIds, c.pendingIntents, c.cursor, c.historyLoaded),
           NEW ids \in Seq(Nat), \A u \in Elems(ids) : u \in 1..Len(log) /\ log[u].intent = NoIntent,
           CommitReplies(c, ids)
    PROVE  Grown(c, chat', Elems(ids)) /\ StaysFree(c, chat')
  <1> DEFINE n == Len(ids)
             Run(f, m) == f = [k \in 0..m |-> IF k = 0 THEN c ELSE CommitPacedChat(f[k - 1], ids[k])]
             p == CHOOSE f : Run(f, n)
             D(m) == {ids[l] : l \in 1..m}
             A == {m \in 0..n : \E f : Run(f, m)}
             T == {m \in 0..n : Grown(c, p[m], D(m)) /\ StaysFree(c, p[m])}
  <1>1. n \in Nat /\ DOMAIN ids = 1..n
    OBVIOUS
  <1>2. chat' = p[n]
    BY Zenon DEF CommitReplies
  <1> HIDE DEF p
  <1>3. 0 \in A
    <2> DEFINE g == [k \in 0..0 |-> c]
    <2>1. \A k \in 0..0 : g[k] = IF k = 0 THEN c ELSE CommitPacedChat(g[k - 1], ids[k])
      OBVIOUS
    <2>2. g = [k \in 0..0 |-> g[k]]
      OBVIOUS
    <2> HIDE DEF g
    <2>3. Run(g, 0)
      BY <2>1, <2>2
    <2> QED BY <1>1, <2>3
  <1>4. ASSUME NEW m \in 1..n, m - 1 \in A PROVE m \in A
    <2>1. PICK f : Run(f, m - 1)
      BY <1>4
    <2> DEFINE x == CommitPacedChat(f[m - 1], ids[m])
               g == [k \in 0..m |-> IF k = m THEN x ELSE f[k]]
    <2>0. f = [k \in 0..(m - 1) |-> IF k = 0 THEN c ELSE CommitPacedChat(f[k - 1], ids[k])]
      BY <2>1, Zenon
    <2>2. \A k \in 0..(m - 1) : /\ g[k] = f[k]
                                /\ f[k] = IF k = 0 THEN c ELSE CommitPacedChat(f[k - 1], ids[k])
      <3> SUFFICES ASSUME NEW k \in 0..(m - 1)
                   PROVE  /\ g[k] = f[k]
                          /\ f[k] = IF k = 0 THEN c ELSE CommitPacedChat(f[k - 1], ids[k])
        OBVIOUS
      <3>1. k \in 0..m /\ k # m
        BY <1>1
      <3>2. g[k] = f[k]
        BY <3>1
      <3>3. f[k] = IF k = 0 THEN c ELSE CommitPacedChat(f[k - 1], ids[k])
        <4> HIDE DEF g
        <4> QED BY <2>0, Zenon
      <3> QED BY <3>2, <3>3
    <2>3. g[m] = x /\ g = [k \in 0..m |-> g[k]]
      BY <1>1
    <2>4. m # 0 /\ m - 1 \in 0..(m - 1) /\ m \in 0..n
      BY <1>1
    <2> HIDE DEF g
    <2>5. ASSUME NEW k \in 0..m
          PROVE  g[k] = IF k = 0 THEN c ELSE CommitPacedChat(g[k - 1], ids[k])
      <3>1. CASE k = m
        <4>1. g[m - 1] = f[m - 1]
          BY <2>2, <2>4
        <4> QED BY <2>3, <2>4, <3>1, <4>1
      <3>2. CASE k # m
        <4>1. k \in 0..(m - 1) /\ (k # 0 => k - 1 \in 0..(m - 1))
          BY <1>1, <3>2
        <4> QED BY <2>2, <4>1
      <3> QED BY <3>1, <3>2
    <2>6. Run(g, m)
      BY <2>3, <2>5
    <2> HIDE DEF Run
    <2> QED BY <2>4, <2>6
  <1>5. \E f : Run(f, n)
    <2> HIDE DEF A
    <2>1. n \in A
      <3>1. n \in 0..n
        BY <1>1
      <3> QED BY <1>1, <1>3, <1>4, <3>1, UpTo
    <2> HIDE DEF Run
    <2> QED BY <2>1 DEF A
  <1>6. \A k \in 0..n : p[k] = IF k = 0 THEN c ELSE CommitPacedChat(p[k - 1], ids[k])
    <2>1. Run(p, n)
      BY <1>5, Zenon DEF p
    <2> QED BY <2>1, Zenon
  <1> HIDE DEF Run
  <1>7. 0 \in T
    <2>1. p[0] = c /\ D(0) = {} /\ 0 \in 0..n
      BY <1>1, <1>6
    <2>2. Grown(c, c, {}) /\ StaysFree(c, c)
      BY DEF Grown, StaysFree
    <2> HIDE DEF D
    <2> QED BY <2>1, <2>2
  <1>8. ASSUME NEW m \in 1..n, m - 1 \in T PROVE m \in T
    <2>1. m \in 0..n /\ m # 0
      BY <1>1
    <2>2. p[m] = CommitPacedChat(p[m - 1], ids[m])
      BY <1>6, <2>1
    <2>3. D(m) = D(m - 1) \cup {ids[m]}
      <3>1. \A l \in 1..m : l = m \/ l \in 1..(m - 1)
        BY <1>1
      <3>2. 1..(m - 1) \subseteq 1..m /\ m \in 1..m
        BY <1>1
      <3> QED BY <3>1, <3>2
    <2>4. ids[m] \in 1..Len(log) /\ log[ids[m]].intent = NoIntent
      BY <1>1 DEF Elems
    <2> HIDE DEF D
    <2>5. Grown(c, p[m - 1], D(m - 1)) /\ StaysFree(c, p[m - 1])
      BY <1>8
    <2>6. /\ Grown(c, CommitPacedChat(p[m - 1], ids[m]), D(m - 1) \cup {ids[m]})
          /\ StaysFree(c, CommitPacedChat(p[m - 1], ids[m]))
      BY <2>4, <2>5, CommitOne
    <2>7. Grown(c, p[m], D(m)) /\ StaysFree(c, p[m])
      BY <2>2, <2>3, <2>6
    <2> QED BY <2>1, <2>7
  <1>9. n \in T
    <2> HIDE DEF T
    <2>1. n \in 0..n
      BY <1>1
    <2> QED BY <1>1, <1>7, <1>8, <2>1, UpTo
  <1>10. D(n) = Elems(ids)
    BY <1>1 DEF Elems
  <1> HIDE DEF D
  <1> QED BY <1>2, <1>9, <1>10

\* The rows held from before that a page keeps, below and above it; its own rows.
Olds(n) == {a \in Elems(chat.messages) : IsOlder(a, n)}
News(n) == {a \in Elems(chat.messages) : IsNewer(a, n)}
PageRows(n) == {Event(id) : id \in PageIds(n)}

\* partitionHeld: the rows below and above a page.
LEMMA PartsAre ==
    ASSUME ChatIs(chat), NEW n
    PROVE  /\ Older(n) \in Seq(Row) /\ Elems(Older(n)) = Olds(n)
           /\ Newer(n) \in Seq(Row) /\ Elems(Newer(n)) = News(n)
           /\ Free(chat.messages) => Free(Older(n)) /\ Free(Newer(n))
  <1> DEFINE s == chat.messages
             K == {k \in DOMAIN s : IsOlder(s[k], n)}
             L == {k \in DOMAIN s : IsNewer(s[k], n)}
  <1>1. s \in Seq(Row)
    BY DEF ChatIs
  <1>2. Older(n) = Pick(s, K) /\ Newer(n) = Pick(s, L)
    BY DEF Older, Newer
  <1>3. Olds(n) = {s[k] : k \in K \cap DOMAIN s} /\ News(n) = {s[k] : k \in L \cap DOMAIN s}
    BY DEF Olds, News, Elems
  <1> HIDE DEF s, K, L
  <1>4. Pick(s, K) \in Seq(Row) /\ Elems(Pick(s, K)) = {s[k] : k \in K \cap DOMAIN s}
    BY <1>1, ElemsPick
  <1>5. Pick(s, L) \in Seq(Row) /\ Elems(Pick(s, L)) = {s[k] : k \in L \cap DOMAIN s}
    BY <1>1, ElemsPick
  <1>6. Free(s) => Free(Pick(s, K)) /\ Free(Pick(s, L))
    BY <1>1, FreePick
  <1> QED BY <1>2, <1>3, <1>4, <1>5, <1>6 DEF s

\* seedTail: the rows below the page when it joins them, the page, the rows above.
LEMMA SeededIs ==
    ASSUME LogOK, ChatIs(chat), NEW n \in 0..Len(log), NEW d, d = SeedTail(n)
    PROVE  /\ ChatIs(d)
           /\ d.shownIds = chat.shownIds \cup PageIds(n) /\ d.pendingIntents = chat.pendingIntents \ Echoed(n)
           /\ d.cursor = (IF Joined(n) /\ chat.historyLoaded THEN chat.cursor ELSE PageCursor(n))
           /\ d.historyLoaded = TRUE
           /\ Elems(d.messages) \subseteq Olds(n) \cup PageRows(n) \cup News(n)
           /\ (Joined(n) <=> Olds(n) = {} \/ Overlaps(n))
           /\ Len(d.messages) < MaxMessages =>
                /\ Elems(d.messages) = (IF Joined(n) THEN Olds(n) ELSE {}) \cup PageRows(n) \cup News(n)
                /\ OneEach(chat) => OneEach(d)
  <1> DEFINE a == IF Joined(n) THEN Older(n) ELSE <<>>
             A == IF Joined(n) THEN Olds(n) ELSE {}
             b == PageEvents(n)
             c == Newer(n)
             t == a \o b \o c
             p == chat.pendingIntents \ Echoed(n)
             u == IF Joined(n) /\ chat.historyLoaded THEN chat.cursor ELSE PageCursor(n)
  <1>1. /\ Older(n) \in Seq(Row) /\ Elems(Older(n)) = Olds(n)
        /\ c \in Seq(Row) /\ Elems(c) = News(n)
        /\ Free(chat.messages) => Free(Older(n)) /\ Free(c)
    BY PartsAre
  <1>2. b \in Seq(Row) /\ Elems(b) = PageRows(n) /\ Free(b)
    BY PageIs DEF PageRows
  <1>3. a \in Seq(Row) /\ Elems(a) = A /\ (Free(chat.messages) => Free(a))
    <2>1. <<>> \in Seq(Row) /\ Elems(<<>>) = {} /\ Free(<<>>)
      BY DEF Elems, Free
    <2> QED BY <1>1, <2>1
  <1>4. d = Chat(CapTail(t), chat.shownIds \cup PageIds(n), p, u, TRUE)
    BY Zenon DEF SeedTail, Chat
  <1> HIDE DEF a, b, c, p, u, A
  <1>5. a \o b \in Seq(Row) /\ Elems(a \o b) = A \cup PageRows(n)
    BY <1>2, <1>3, ElemsCat
  <1>6. t \in Seq(Row) /\ Elems(t) = A \cup PageRows(n) \cup News(n)
    <2> DEFINE e == a \o b
    <2>1. e \in Seq(Row) /\ c \in Seq(Row)
      BY <1>1, <1>5
    <2>2. Elems(e) = A \cup PageRows(n) /\ Elems(c) = News(n)
      BY <1>1, <1>5
    <2> HIDE DEF e
    <2>3. /\ e \o c \in Seq(Row) /\ Len(e \o c) = Len(e) + Len(c)
          /\ Elems(e \o c) = Elems(e) \cup Elems(c)
          /\ \A k \in 1..Len(e) : (e \o c)[k] = e[k]
          /\ \A k \in 1..Len(c) : (e \o c)[Len(e) + k] = c[k]
      BY <2>1, ElemsCat
    <2>4. t = e \o c
      BY DEF e
    <2> QED BY <2>2, <2>3, <2>4
  <1>7. /\ CapTail(t) \in Seq(Row) /\ Elems(CapTail(t)) \subseteq Elems(t)
        /\ Len(CapTail(t)) < MaxMessages => CapTail(t) = t
    BY <1>6, CapTailIs
  <1>8. /\ d.messages = CapTail(t) /\ d.shownIds = chat.shownIds \cup PageIds(n) /\ d.pendingIntents = p
        /\ d.cursor = u /\ d.historyLoaded = TRUE
    <2> HIDE DEF t
    <2> QED BY <1>4 DEF Chat
  <1>9. /\ PageFrom(n) \in 1..(n + 1) /\ PageIds(n) = PageFrom(n)..n /\ PageIds(n) \subseteq 1..Len(log)
        /\ PageCursor(n) \in 0..Len(log) /\ Len(log) \in Nat /\ n \in Nat
    BY PageBounds DEF LogOK
  <1>10. \A id \in PageIds(n) : /\ Event(id) \in Row /\ Event(id).id = id /\ Event(id).intent = log[id].intent
                                /\ id \in 1..Len(log) /\ id # 0
    BY <1>9, EventIs
  <1>11. /\ A \subseteq Olds(n) /\ \A x \in Olds(n) : x \in Elems(chat.messages) /\ ~Folded(x, n) /\ x.id # 0 /\ x.id < PageFrom(n)
         /\ \A x \in News(n) : /\ x \in Elems(chat.messages) /\ ~Folded(x, n)
                               /\ x.id = 0 => x.intent \in chat.pendingIntents
                               /\ x.id # 0 => n = 0 \/ x.id > n
    BY DEF A, Olds, News, IsOlder, IsNewer, IsPending
  <1>12. \A x \in Elems(chat.messages) : RowOK(x, chat.pendingIntents)
    BY DEF ChatIs
  <1>13. p \subseteq Intents /\ NoIntent \notin Intents
    BY ChatAssumption DEF p, ChatIs
  <1>14. ASSUME NEW x \in A \cup PageRows(n) \cup News(n) PROVE RowOK(x, p)
    <2>1. CASE x \in A
      BY <1>11, <1>12, <2>1 DEF RowOK
    <2>2. CASE x \in PageRows(n)
      <3>1. PICK id \in PageIds(n) : x = Event(id)
        BY <2>2 DEF PageRows
      <3>2. x \in Row /\ x.id = id /\ x.intent = log[id].intent /\ id \in 1..Len(log) /\ id # 0
        BY <1>10, <3>1
      <3> QED BY <1>9, <3>2 DEF RowOK
    <2>3. CASE x \in News(n)
      <3>1. x.id = 0 => x.intent \in p
        BY <1>11, <2>3 DEF Folded, IsPending, p
      <3> QED BY <1>11, <1>12, <2>3, <3>1 DEF RowOK
    <2> QED BY <2>1, <2>2, <2>3
  <1>15. u \in 0..Len(log)
    BY <1>9 DEF u, ChatIs
  <1>16. ChatIs(d)
    <2>1. d = Chat(d.messages, d.shownIds, d.pendingIntents, d.cursor, d.historyLoaded)
      BY <1>4, <1>8
    <2>2. chat.shownIds \cup PageIds(n) \subseteq 1..Len(log)
      BY <1>9 DEF ChatIs
    <2>3. \A x \in Elems(d.messages) : RowOK(x, p)
      BY <1>6, <1>7, <1>8, <1>14
    <2> HIDE DEF t
    <2> QED BY <1>7, <1>8, <1>13, <1>15, <2>1, <2>2, <2>3 DEF ChatIs, Chat
  <1>17. Joined(n) <=> Olds(n) = {} \/ Overlaps(n)
    <2>1. Older(n) = <<>> <=> Olds(n) = {}
      BY <1>1, ElemsIn
    <2> QED BY <2>1 DEF Joined
  <1>18. ASSUME OneEach(chat) PROVE Free(t)
    <2>1. Free(a) /\ Free(b) /\ Free(c)
      BY <1>1, <1>2, <1>3, <1>18 DEF OneEach
    <2>2. \A x \in Elems(chat.messages) : x.id # 0 => x.intent \notin chat.pendingIntents
      BY <1>18 DEF OneEach
    <2>3. \A x, y \in Elems(chat.messages) : x # y => ~Clash(x, y)
      BY <1>18 DEF OneEach, Free, Elems
    <2>4. ASSUME NEW x \in A, NEW y \in PageRows(n) PROVE ~Clash(x, y)
      <3>1. PICK id \in PageIds(n) : y = Event(id)
        BY <2>4 DEF PageRows
      <3>2. y.id = id /\ id # 0 /\ x.id # 0 /\ x.id < PageFrom(n) /\ PageFrom(n) <= id
        BY <1>9, <1>10, <1>11, <3>1
      <3>3. x.id \in Nat
        BY <1>11, <1>12, BoundsOK DEF RowOK, Row
      <3>4. x.id # y.id
        BY <1>9, <3>2, <3>3
      <3> QED BY <3>2, <3>4 DEF Clash
    <2>5. ASSUME NEW y \in PageRows(n), NEW x \in News(n) PROVE ~Clash(y, x)
      <3>1. PICK id \in PageIds(n) : y = Event(id)
        BY <2>5 DEF PageRows
      <3>2. y.id = id /\ id # 0 /\ y.intent = log[id].intent /\ id <= n /\ n # 0
        BY <1>9, <1>10, <3>1
      <3>3. CASE x.id = 0
        <4>1. x.intent \in chat.pendingIntents /\ x.intent \notin Echoed(n)
          BY <1>11, <3>3 DEF Folded, IsPending
        <4>2. y.intent # x.intent \/ y.intent = NoIntent
          BY <3>2, <4>1 DEF Echoed
        <4> QED BY <3>2, <3>3, <4>2 DEF Clash
      <3>4. CASE x.id # 0
        <4>1. x.id > n /\ x.id \in Nat
          BY <1>11, <1>12, <3>2, <3>4, BoundsOK DEF RowOK, Row
        <4>2. x.id # y.id
          BY <1>9, <3>2, <4>1
        <4> QED BY <3>2, <3>4, <4>2 DEF Clash
      <3> QED BY <3>3, <3>4
    <2>6. ASSUME NEW x \in A, NEW y \in News(n) PROVE ~Clash(x, y)
      <3>1. x \in Elems(chat.messages) /\ y \in Elems(chat.messages) /\ x \in Olds(n)
        BY <1>11
      <3>2. x # y
        <4>1. x.id \in Nat /\ x.id # 0 /\ x.id < PageFrom(n) /\ n > 0
          BY <1>12, <3>1, BoundsOK DEF RowOK, Row, Olds, IsOlder
        <4>2. y.id # 0 => n = 0 \/ y.id > n
          BY <1>11
        <4> QED BY <1>9, <4>1, <4>2
      <3> QED BY <2>3, <3>1, <3>2
    <2>7. Free(a \o b)
      BY <1>2, <1>3, <2>1, <2>4, FreeCat
    <2>8. \A x \in Elems(a \o b), y \in Elems(c) : ~Clash(x, y)
      BY <1>1, <1>5, <2>5, <2>6
    <2> QED BY <1>1, <1>5, <2>1, <2>7, <2>8, FreeCat
  <1>19. ASSUME Len(d.messages) < MaxMessages
         PROVE  /\ Elems(d.messages) = A \cup PageRows(n) \cup News(n)
                /\ OneEach(chat) => OneEach(d)
    <2>1. d.messages = t
      BY <1>7, <1>8, <1>19
    <2>2. Elems(d.messages) = A \cup PageRows(n) \cup News(n)
      BY <1>6, <2>1
    <2>3. ASSUME OneEach(chat) PROVE OneEach(d)
      <3>1. Free(d.messages)
        BY <1>18, <2>1, <2>3
      <3>2. ASSUME NEW x \in Elems(d.messages), x.id # 0 PROVE x.intent \notin p
        <4>1. CASE x \in A \/ x \in News(n)
          BY <1>11, <2>3, <3>2, <4>1 DEF OneEach, p
        <4>2. CASE x \in PageRows(n)
          <5>1. PICK id \in PageIds(n) : x = Event(id)
            BY <4>2 DEF PageRows
          <5>2. x.intent = log[id].intent
            BY <1>10, <5>1
          <5> QED BY <1>13, <5>2 DEF p, Echoed
        <4> QED BY <2>2, <3>2, <4>1, <4>2
      <3>3. ASSUME NEW i \in p PROVE \E x \in Elems(d.messages) : x.id = 0 /\ x.intent = i
        <4>1. i \in chat.pendingIntents /\ i \notin Echoed(n)
          BY DEF p
        <4>2. PICK x \in Elems(chat.messages) : x.id = 0 /\ x.intent = i
          BY <2>3, <4>1 DEF OneEach
        <4>3. x \in News(n)
          BY <4>1, <4>2 DEF News, IsNewer, Folded, IsPending
        <4> QED BY <2>2, <4>2, <4>3
      <3> QED BY <1>8, <3>1, <3>2, <3>3 DEF OneEach
    <2> QED BY <2>2, <2>3
  <1> QED BY <1>6, <1>7, <1>8, <1>11, <1>16, <1>17, <1>19 DEF A, p, u

\* An older page goes on top.
LEMMA PagedIs ==
    ASSUME LogOK, ChatIs(chat), NEW n \in 0..Len(log), NEW d, d = PrependPage(n)
    PROVE  /\ ChatIs(d)
           /\ d.shownIds = chat.shownIds \cup PageIds(n) /\ d.pendingIntents = chat.pendingIntents
           /\ d.cursor = PageCursor(n) /\ d.historyLoaded = chat.historyLoaded
           /\ Elems(d.messages) = PageRows(n) \cup Elems(chat.messages)
           /\ /\ OneEach(chat)
              /\ \A a \in Elems(chat.messages) : a.id # 0 => a.id > n
              /\ \A id \in 1..n : log[id].intent \notin chat.pendingIntents
              => OneEach(d)
  <1> DEFINE s == chat.messages
             b == PageEvents(n)
             t == b \o s
  <1>1. s \in Seq(Row) /\ \A a \in Elems(s) : RowOK(a, chat.pendingIntents)
    BY DEF ChatIs
  <1>2. b \in Seq(Row) /\ Elems(b) = PageRows(n) /\ Free(b)
    BY PageIs DEF PageRows
  <1>3. d = Chat(t, chat.shownIds \cup PageIds(n), chat.pendingIntents, PageCursor(n), chat.historyLoaded)
    BY DEF PrependPage, ChatIs, Chat
  <1> HIDE DEF b, s
  <1>4. t \in Seq(Row) /\ Elems(t) = PageRows(n) \cup Elems(s)
    BY <1>1, <1>2, ElemsCat
  <1>5. /\ PageFrom(n) \in 1..(n + 1) /\ PageIds(n) = PageFrom(n)..n /\ PageIds(n) \subseteq 1..Len(log)
        /\ PageCursor(n) \in 0..Len(log) /\ Len(log) \in Nat /\ n \in Nat
    BY PageBounds DEF LogOK
  <1>6. \A id \in PageIds(n) : /\ Event(id) \in Row /\ Event(id).id = id /\ Event(id).intent = log[id].intent
                               /\ id \in 1..Len(log) /\ id # 0 /\ id \in 1..n
    BY <1>5, EventIs
  <1>7. /\ d.messages = t /\ d.shownIds = chat.shownIds \cup PageIds(n) /\ d.pendingIntents = chat.pendingIntents
        /\ d.cursor = PageCursor(n) /\ d.historyLoaded = chat.historyLoaded
    <2> HIDE DEF t
    <2> QED BY <1>3, ChatFields
  <1>8. ASSUME NEW x \in PageRows(n)
        PROVE  \E id \in 1..n : /\ x \in Row /\ x.id = id /\ x.intent = log[id].intent /\ id # 0 /\ id \in 1..Len(log)
    <2>1. PICK id \in PageIds(n) : x = Event(id)
      BY <1>8 DEF PageRows
    <2> QED BY <1>6, <2>1
  <1>9. \A x \in Elems(t) : RowOK(x, chat.pendingIntents)
    <2> SUFFICES ASSUME NEW x \in Elems(t) PROVE RowOK(x, chat.pendingIntents)
      OBVIOUS
    <2>1. CASE x \in PageRows(n)
      BY <1>5, <1>8, <2>1 DEF RowOK
    <2>2. CASE x \in Elems(s)
      BY <1>1, <2>2
    <2> QED BY <1>4, <2>1, <2>2
  <1>10. ChatIs(d)
    <2>1. d = Chat(d.messages, d.shownIds, d.pendingIntents, d.cursor, d.historyLoaded)
      BY <1>3, <1>7
    <2>2. chat.shownIds \cup PageIds(n) \subseteq 1..Len(log)
      BY <1>5 DEF ChatIs
    <2> HIDE DEF t
    <2> QED BY <1>4, <1>5, <1>7, <1>9, <2>1, <2>2 DEF ChatIs, Chat
  <1>11. ASSUME OneEach(chat), \A a \in Elems(s) : a.id # 0 => a.id > n,
                \A id \in 1..n : log[id].intent \notin chat.pendingIntents
         PROVE  OneEach(d)
    <2>1. Free(s)
      BY <1>11 DEF OneEach, s
    <2>2. ASSUME NEW x \in Elems(b), NEW y \in Elems(s) PROVE ~Clash(x, y)
      <3>1. PICK id \in 1..n : x.id = id /\ x.intent = log[id].intent /\ id # 0
        BY <1>2, <1>8
      <3>2. CASE y.id = 0
        <4>1. y.intent \in chat.pendingIntents
          BY <1>1, <3>2 DEF RowOK
        <4> QED BY <1>11, <3>1, <3>2, <4>1 DEF Clash
      <3>3. CASE y.id # 0
        <4>1. y.id > n /\ y.id \in Nat
          BY <1>1, <1>11, <3>3, BoundsOK DEF RowOK, Row
        <4> QED BY <3>1, <3>3, <4>1 DEF Clash
      <3> QED BY <3>2, <3>3
    <2>3. Free(t)
      BY <1>1, <1>2, <2>1, <2>2, FreeCat
    <2>4. \A x \in Elems(t) : x.id # 0 => x.intent \notin chat.pendingIntents
      BY <1>4, <1>8, <1>11 DEF OneEach, s
    <2>5. \A i \in chat.pendingIntents : \E x \in Elems(t) : x.id = 0 /\ x.intent = i
      BY <1>4, <1>11 DEF OneEach, s
    <2> HIDE DEF t
    <2> QED BY <1>7, <2>3, <2>4, <2>5 DEF OneEach
  <1> QED BY <1>4, <1>7, <1>10, <1>11 DEF s

\* The oldest rows go, and paging restarts below the first that stays.
LEMMA TrimmedIs ==
    ASSUME LogOK, ChatIs(chat), Len(chat.messages) > TrimKeep, KeptIds # {}, NEW d, d = TrimTail
    PROVE  /\ ChatIs(d)
           /\ d.shownIds = {id \in chat.shownIds : id >= OldestKept} /\ d.pendingIntents = chat.pendingIntents
           /\ d.cursor = OldestKept /\ d.historyLoaded = chat.historyLoaded
           /\ Elems(d.messages) \subseteq Elems(chat.messages)
           /\ OldestKept \in Shown(d) /\ Shown(d) \subseteq Shown(chat)
           /\ (\A k \in 1..(Len(chat.messages) - TrimKeep) :
                  chat.messages[k].id # 0 /\ ~(chat.messages[k].id > OldestKept))
              => /\ \A a \in Elems(chat.messages) : a \in Elems(d.messages) \/ (a.id # 0 /\ ~(a.id > OldestKept))
                 /\ OneEach(chat) => OneEach(d)
  <1> DEFINE s == chat.messages
             n == Len(s)
             i == (n - TrimKeep) + 1
             t == SubSeq(s, i, n)
             o == OldestKept
  <1>1. /\ s \in Seq(Row) /\ (\A a \in Elems(s) : RowOK(a, chat.pendingIntents)) /\ DOMAIN s = 1..n /\ n \in Nat
        /\ TrimKeep \in Nat \ {0} /\ n > TrimKeep
    BY ChatAssumption DEF ChatIs
  <1> HIDE DEF s
  <1>2. /\ i \in 1..(n + 1) /\ n \in 0..n /\ i <= n + 1 /\ n - TrimKeep + 1 = i
        /\ \A k \in 1..n : k \in i..n \/ k \in 1..(n - TrimKeep)
        /\ i..n \subseteq 1..n
    BY <1>1
  <1> HIDE DEF n, i
  <1>3. /\ SubSeq(s, i, Len(s)) \in Seq(Row) /\ Elems(SubSeq(s, i, Len(s))) = {s[k] : k \in i..Len(s)}
    <2>1. i \in 1..(Len(s) + 1) /\ Len(s) \in 0..Len(s) /\ i <= Len(s) + 1 /\ s \in Seq(Row)
      BY <1>1, <1>2 DEF n
    <2>2. /\ SubSeq(s, i, Len(s)) \in Seq(Row) /\ Len(SubSeq(s, i, Len(s))) = (Len(s) + 1) - i
          /\ \A k \in 1..((Len(s) + 1) - i) : SubSeq(s, i, Len(s))[k] = s[(i - 1) + k]
          /\ Elems(SubSeq(s, i, Len(s))) = {s[k] : k \in i..Len(s)}
      BY <2>1, ElemsSub
    <2> QED BY <2>2
  <1>4. t \in Seq(Row) /\ Elems(t) = {s[k] : k \in i..n} /\ Kept = t
    BY <1>2, <1>3 DEF n, Kept, s
  <1> HIDE DEF t
  <1>5. Elems(t) \subseteq Elems(s)
    BY <1>1, <1>2, <1>4 DEF Elems
  <1>6. PICK k \in KeptIds : \A j \in KeptIds : k <= j
    <2>1. KeptIds \subseteq Nat
      BY <1>4 DEF KeptIds
    <2> QED BY <2>1, LeastNumber
  <1>7. \E k2 \in KeptIds : o = Kept[k2].id
    <2> DEFINE k3 == CHOOSE k2 \in KeptIds : \A j \in KeptIds : k2 <= j
    <2>1. k3 \in KeptIds
      BY <1>6
    <2>2. o = Kept[k3].id
      BY DEF OldestKept
    <2> QED BY <2>1, <2>2
  <1> HIDE DEF o
  <1>8. \E a \in Elems(t) : a.id = o /\ o # 0
    BY <1>4, <1>7 DEF KeptIds, Elems
  <1>9. o \in 1..Len(log)
    <2>1. PICK a \in Elems(t) : a.id = o /\ o # 0
      BY <1>8
    <2>2. RowOK(a, chat.pendingIntents)
      BY <1>1, <1>5, <2>1
    <2>3. o \in Nat /\ o <= Len(log)
      BY <2>1, <2>2, BoundsOK DEF RowOK, Row
    <2> QED BY <2>1, <2>3, BoundsOK DEF LogOK
  <1>10. d = Chat(t, {id \in chat.shownIds : id >= o}, chat.pendingIntents, o, chat.historyLoaded)
    BY <1>4 DEF TrimTail, ChatIs, Chat, o
  <1>11. /\ d.messages = t /\ d.shownIds = {id \in chat.shownIds : id >= o} /\ d.pendingIntents = chat.pendingIntents
         /\ d.cursor = o /\ d.historyLoaded = chat.historyLoaded
    BY <1>10, ChatFields
  <1>12. ChatIs(d)
    <2>1. d = Chat(d.messages, d.shownIds, d.pendingIntents, d.cursor, d.historyLoaded)
      BY <1>10, <1>11
    <2>2. {id \in chat.shownIds : id >= o} \subseteq 1..Len(log)
      BY DEF ChatIs
    <2>3. o \in 0..Len(log)
      BY <1>9
    <2> QED BY <1>1, <1>4, <1>5, <1>11, <2>1, <2>2, <2>3 DEF ChatIs, Chat
  <1>13. o \in Shown(d) /\ Shown(d) \subseteq Shown(chat)
    BY <1>5, <1>8, <1>11 DEF Shown, s
  <1>14. ASSUME \A k2 \in 1..(n - TrimKeep) : s[k2].id # 0 /\ ~(s[k2].id > o)
         PROVE  /\ \A a \in Elems(s) : a \in Elems(t) \/ (a.id # 0 /\ ~(a.id > o))
                /\ OneEach(chat) => OneEach(d)
    <2>1. \A a \in Elems(s) : a \in Elems(t) \/ (a.id # 0 /\ ~(a.id > o))
      <3> SUFFICES ASSUME NEW a \in Elems(s), a \notin Elems(t) PROVE a.id # 0 /\ ~(a.id > o)
        OBVIOUS
      <3>1. PICK k2 \in 1..n : s[k2] = a
        BY <1>1 DEF Elems
      <3>2. k2 \notin i..n
        BY <1>4, <3>1
      <3> QED BY <1>2, <1>14, <3>1, <3>2
    <2>2. ASSUME OneEach(chat) PROVE OneEach(d)
      <3>1. Free(SubSeq(s, i, Len(s)))
        BY <1>1, <1>2, <2>2, FreeSub DEF OneEach, s, n
      <3>2. Free(t)
        BY <3>1 DEF t, n
      <3> QED BY <1>5, <1>11, <2>1, <2>2, <3>2 DEF OneEach, s
    <2> QED BY <2>1, <2>2
  <1> QED BY <1>5, <1>11, <1>12, <1>13, <1>14 DEF s, n, o

----------------------------------------------------------------------------
(* What a step makes of the chat.                                           *)

\* Rows that are new have no send to report.
NoNewSends == \A b \in Elems(chat'.messages) : b \in Elems(chat.messages) \/ b.send = "none"

Replies(s) == \A u \in Elems(s) : u \in 1..Len(log) /\ log[u].type = "chat"

\* A reply is the agent's: it has no intent.
LEMMA ReplyIntent ==
    ASSUME LogOK, NEW u \in 1..Len(log), log[u].type = "chat"
    PROVE  log[u].intent = NoIntent
  BY DEF LogOK

\* Events that the chat took in: none of its sends.
LEMMA GrownSends ==
    ASSUME NEW c, c.messages = chat.messages, NEW D, Grown(c, chat', D)
    PROVE  NoNewSends
  <1>1. \A b \in Elems(chat'.messages) : b \in Elems(chat.messages) \/ \E u \in D : b = Event(u)
    BY DEF Grown
  <1>2. \A u \in D : Event(u).send = "none"
    BY DEF Event
  <1> QED BY <1>1, <1>2 DEF NoNewSends

\* foldLiveEvent: what a live event makes of the rows and the queue.
LEMMA FoldIs ==
    ASSUME LogOK, ChatOK, NEW id \in 1..Len(log), FoldLiveEvent(id)
    PROVE  /\ ChatIs(chat') /\ NoNewSends
           /\ queue' \in Seq(Nat) /\ Replies(queue')
           /\ queue' = queue \/ (queue' = Append(queue, id) /\ chat'.messages = chat.messages)
           /\ chat'.shownIds = chat.shownIds \cup {id}
           /\ chat'.cursor = chat.cursor /\ chat'.historyLoaded = chat.historyLoaded
           /\ Elems(queue') \subseteq Elems(queue) \cup {id} /\ Elems(queue) \subseteq Elems(queue')
           /\ Len(chat'.messages) < MaxMessages /\ OneEach(chat) /\ Shown(chat) \subseteq chat.shownIds =>
                /\ OneEach(chat')
                /\ Shown(chat) \subseteq Shown(chat') /\ Shown(chat') \subseteq Shown(chat) \cup {id}
                /\ (id \in chat.shownIds /\ chat' = chat) \/ id \in Shown(chat') \/ id \in Elems(queue')
  <1> DEFINE added == [chat EXCEPT !.shownIds = @ \cup {id}]
             S == chat.shownIds \cup {id}
  <1>1. /\ ChatIs(chat) /\ queue \in Seq(Nat) /\ Replies(queue)
        /\ chat = Chat(chat.messages, chat.shownIds, chat.pendingIntents, chat.cursor, chat.historyLoaded)
        /\ chat.shownIds \subseteq 1..Len(log) /\ id \in Nat
    BY DEF ChatOK, ChatIs, Chat, Replies
  <1>2. added = Chat(chat.messages, S, chat.pendingIntents, chat.cursor, chat.historyLoaded)
    <2>1. added = [chat EXCEPT !.shownIds = S]
      OBVIOUS
    <2> HIDE DEF S, added
    <2> QED BY <1>1, <2>1, ChatEdits
  <1> HIDE DEF added
  <1>3. /\ added.messages = chat.messages /\ added.shownIds = S /\ added.pendingIntents = chat.pendingIntents
        /\ added.cursor = chat.cursor /\ added.historyLoaded = chat.historyLoaded
    BY <1>2, ChatFields
  <1>4. ChatIs(added) /\ Shown(added) = Shown(chat) /\ (OneEach(chat) => OneEach(added))
    <2>1. S \subseteq 1..Len(log)
      BY <1>1
    <2> HIDE DEF S
    <2> QED BY <1>1, <1>2, <1>3, <2>1 DEF ChatIs, Chat, Shown, OneEach
  <1>5. Event(id).id = id /\ Event(id).intent = log[id].intent /\ Event(id).send = "none"
    BY EventIs
  <1>6. CASE log[id].intent \in chat.pendingIntents /\ chat' = Confirm(id) /\ queue' = queue
    <2>1. /\ ChatIs(chat')
          /\ Elems(chat'.messages) \subseteq {a \in Elems(chat.messages) : a.intent # log[id].intent} \cup {Event(id)}
          /\ chat'.shownIds = S /\ chat'.pendingIntents = chat.pendingIntents \ {log[id].intent}
          /\ chat'.cursor = chat.cursor /\ chat'.historyLoaded = chat.historyLoaded
          /\ Len(chat'.messages) = Len(chat.messages)
          /\ OneEach(chat) => OneEach(chat') /\ Shown(chat') = Shown(chat) \cup {id}
      BY <1>1, <1>6, ConfirmedIs
    <2>2. NoNewSends
      BY <1>5, <2>1 DEF NoNewSends
    <2> QED BY <1>1, <1>6, <2>1, <2>2
  <1>7. CASE log[id].intent \notin chat.pendingIntents /\ id \in chat.shownIds /\ chat' = chat /\ queue' = queue
    <2>1. S = chat.shownIds
      BY <1>7
    <2>2. NoNewSends
      BY <1>7 DEF NoNewSends
    <2> QED BY <1>1, <1>7, <2>1, <2>2
  \* What is left is an event that is appended.
  <1>8. ASSUME id \notin chat.shownIds, log[id].intent \notin chat.pendingIntents, Grown(added, chat', {id}), queue' = queue,
               Len(chat'.messages) < MaxMessages /\ OneEach(chat) /\ Shown(chat) \subseteq chat.shownIds => StaysFree(added, chat')
        PROVE  /\ ChatIs(chat') /\ NoNewSends
               /\ chat'.shownIds = S
               /\ chat'.cursor = chat.cursor /\ chat'.historyLoaded = chat.historyLoaded
               /\ Len(chat'.messages) < MaxMessages /\ OneEach(chat) /\ Shown(chat) \subseteq chat.shownIds =>
                    OneEach(chat') /\ Shown(chat') = Shown(chat) \cup {id}
    <2>1. NoNewSends
      BY <1>3, <1>8, GrownSends
    <2>2. {id} \subseteq 1..Len(log) /\ \A u \in {id} : log[u].intent \notin added.pendingIntents
      BY <1>3, <1>8
    <2>3. /\ ChatIs(chat')
          /\ chat'.shownIds = added.shownIds /\ chat'.pendingIntents = added.pendingIntents
          /\ chat'.cursor = added.cursor /\ chat'.historyLoaded = added.historyLoaded
          /\ Len(chat'.messages) < MaxMessages =>
                /\ Shown(chat') = Shown(added) \cup {id}
                /\ StaysFree(added, chat') /\ OneEach(added) => OneEach(chat')
      BY <1>4, <1>8, <2>2, GrownIs
    <2> QED BY <1>3, <1>4, <1>8, <2>1, <2>3
  <1>9. CASE /\ log[id].intent \notin chat.pendingIntents /\ id \notin chat.shownIds /\ queue' = queue
             /\ chat' = [added EXCEPT !.messages = CapTail(Append(@, Event(id)))]
    <2> DEFINE t == CapTail(Append(added.messages, Event(id)))
    <2>0. added.messages \in Seq(Row)
      BY <1>4 DEF ChatIs
    <2>1. /\ t \in Seq(Row) /\ Elems(t) \subseteq Elems(added.messages) \cup {Event(id)}
          /\ Len(t) < MaxMessages =>
                /\ Elems(t) = Elems(added.messages) \cup {Event(id)} /\ Len(added.messages) < MaxMessages
                /\ (Free(added.messages) /\ \A a \in Elems(added.messages) : ~Clash(a, Event(id))) => Free(t)
      BY <2>0, AppendedIs
    <2>2. chat' = [added EXCEPT !.messages = t]
      BY <1>9
    <2> HIDE DEF t
    <2>3. chat' = Chat(t, added.shownIds, added.pendingIntents, added.cursor, added.historyLoaded) /\ chat'.messages = t
      BY <1>2, <1>3, <2>2 DEF Chat
    <2>4. ASSUME Len(t) < MaxMessages PROVE Elems(added.messages) \subseteq Elems(t) /\ {id} \subseteq Shown(chat')
      BY <1>5, <2>1, <2>3, <2>4 DEF Shown
    <2>5. Grown(added, chat', {id})
      BY <2>1, <2>3, <2>4 DEF Grown
    <2>6. ASSUME Len(chat'.messages) < MaxMessages, OneEach(chat), Shown(chat) \subseteq chat.shownIds
          PROVE  StaysFree(added, chat')
      <3>1. ASSUME NEW a \in Elems(chat.messages) PROVE ~Clash(a, Event(id))
        <4>1. a.id # id
          BY <1>9, <2>6 DEF Shown
        <4>2. a.id = 0 => a.intent # log[id].intent
          BY <1>1, <1>9 DEF ChatIs, RowOK
        <4>3. id # 0
          OBVIOUS
        <4> QED BY <1>5, <4>1, <4>2, <4>3 DEF Clash
      <3> QED BY <1>3, <2>1, <2>3, <2>6, <3>1 DEF StaysFree
    <2>7. /\ ChatIs(chat') /\ NoNewSends
          /\ chat'.shownIds = S
          /\ chat'.cursor = chat.cursor /\ chat'.historyLoaded = chat.historyLoaded
          /\ Len(chat'.messages) < MaxMessages /\ OneEach(chat) /\ Shown(chat) \subseteq chat.shownIds =>
               OneEach(chat') /\ Shown(chat') = Shown(chat) \cup {id}
      BY <1>8, <1>9, <2>5, <2>6
    <2> QED BY <1>1, <1>9, <2>7
  <1>10. CASE id \notin chat.shownIds /\ log[id].type = "chat" /\ chat' = added /\ queue' = Append(queue, id)
    <2>1. queue' \in Seq(Nat) /\ Elems(queue') = Elems(queue) \cup {id}
      BY <1>1, <1>10, ElemsAppend
    <2>2. Replies(queue')
      BY <1>1, <1>10, <2>1 DEF Replies
    <2>3. NoNewSends
      BY <1>3, <1>10 DEF NoNewSends
    <2> QED BY <1>3, <1>4, <1>10, <2>1, <2>2, <2>3
  <1>11. CASE id \notin chat.shownIds /\ log[id].type = "chat" /\ CommitReplies(added, <<id>>) /\ queue' = queue
    <2>1. log[id].intent = NoIntent /\ NoIntent \notin chat.pendingIntents
      BY <1>1, <1>11, ReplyIntent, ChatAssumption DEF ChatIs
    <2>2. <<id>> \in Seq(Nat) /\ Elems(<<id>>) = {id}
      BY <1>1 DEF Elems
    <2>3. \A u \in Elems(<<id>>) : u \in 1..Len(log) /\ log[u].intent = NoIntent
      BY <2>1, <2>2
    <2>4. added.messages \in Seq(Row)
          /\ added = Chat(added.messages, added.shownIds, added.pendingIntents, added.cursor, added.historyLoaded)
      BY <1>2, <1>3, <1>4 DEF ChatIs
    <2>5. Grown(added, chat', Elems(<<id>>)) /\ StaysFree(added, chat')
      BY <1>11, <2>2, <2>3, <2>4, CommitIs
    <2>6. Grown(added, chat', {id})
      BY <2>2, <2>5
    <2>7. /\ ChatIs(chat') /\ NoNewSends
          /\ chat'.shownIds = S
          /\ chat'.cursor = chat.cursor /\ chat'.historyLoaded = chat.historyLoaded
          /\ Len(chat'.messages) < MaxMessages /\ OneEach(chat) /\ Shown(chat) \subseteq chat.shownIds =>
               OneEach(chat') /\ Shown(chat') = Shown(chat) \cup {id}
      BY <1>8, <1>11, <2>1, <2>5, <2>6
    <2> QED BY <1>1, <1>11, <2>7
  <1> QED BY <1>6, <1>7, <1>9, <1>10, <1>11, Zenon DEF FoldLiveEvent, Paced, added

\* A step that changes the state of sends only.
SameRows ==
    /\ ChatIs(chat') /\ Len(chat'.messages) = Len(chat.messages) /\ Shown(chat') = Shown(chat)
    /\ OneEach(chat) => OneEach(chat')
    /\ chat'.shownIds = chat.shownIds /\ chat'.pendingIntents = chat.pendingIntents
    /\ chat'.cursor = chat.cursor /\ chat'.historyLoaded = chat.historyLoaded

\* A retry or a failure marks the bubbles of one send,
LEMMA MarkStep ==
    ASSUME ChatIs(chat), NEW i \in Intents, NEW send \in SendState, chat' = MarkSend(i, send)
    PROVE  /\ SameRows
           /\ \A b \in Elems(chat'.messages) :
                \E a \in Elems(chat.messages) : a.intent = b.intent /\ b.send = IF b.intent = i THEN send ELSE a.send
  <1> DEFINE t == Mark(chat.messages, i, send)
  <1>1. chat.messages \in Seq(Row)
        /\ chat = Chat(chat.messages, chat.shownIds, chat.pendingIntents, chat.cursor, chat.historyLoaded)
    BY DEF ChatIs, Chat
  <1>2. /\ Alike(chat.messages, t)
        /\ \A b \in Elems(t) :
             \E a \in Elems(chat.messages) : a.intent = b.intent /\ b.send = IF b.intent = i THEN send ELSE a.send
    BY <1>1, MarkIs
  <1>3. chat' = [chat EXCEPT !.messages = t]
    BY DEF MarkSend
  <1> HIDE DEF t
  <1>4. chat' = Chat(t, chat.shownIds, chat.pendingIntents, chat.cursor, chat.historyLoaded)
    BY <1>1, <1>3, ChatEdits
  <1>5. chat'.messages = t
    BY <1>4, ChatFields
  <1>6. SameRows
    BY <1>2, <1>4, MarkedIs DEF SameRows
  <1> QED BY <1>2, <1>5, <1>6

\* an open those that were parked.
LEMMA OpenStep ==
    ASSUME ChatIs(chat), Open
    PROVE  /\ SameRows
           /\ \A b \in Elems(chat'.messages) :
                \E a \in Elems(chat.messages) :
                    a.intent = b.intent /\ b.send = IF a.send = "retry" THEN "sending" ELSE a.send
  <1> DEFINE s == chat.messages
             t == [k \in DOMAIN s |-> IF s[k].send = "retry" THEN [s[k] EXCEPT !.send = "sending"] ELSE s[k]]
  <1>1. s \in Seq(Row)
        /\ chat = Chat(s, chat.shownIds, chat.pendingIntents, chat.cursor, chat.historyLoaded)
    BY DEF ChatIs, Chat
  <1>2. DOMAIN s = 1..Len(s) /\ Len(s) \in Nat /\ \A k \in 1..Len(s) : s[k] \in Row
    BY <1>1
  <1>3. ASSUME NEW r \in Row
        PROVE  /\ [r EXCEPT !.send = "sending"] \in Row /\ [r EXCEPT !.send = "sending"].id = r.id
               /\ [r EXCEPT !.send = "sending"].intent = r.intent /\ [r EXCEPT !.send = "sending"].send = "sending"
    BY <1>3 DEF Row, SendState
  <1>4. t = [k \in 1..Len(s) |-> IF s[k].send = "retry" THEN [s[k] EXCEPT !.send = "sending"] ELSE s[k]]
    BY <1>2, Zenon
  <1>5. chat' = [chat EXCEPT !.messages = t]
    BY Zenon DEF Open
  <1>6. ASSUME NEW k \in 1..Len(s)
        PROVE  /\ t[k] \in Row /\ t[k].id = s[k].id /\ t[k].intent = s[k].intent
               /\ t[k].send = IF s[k].send = "retry" THEN "sending" ELSE s[k].send
    <2>1. t[k] = IF s[k].send = "retry" THEN [s[k] EXCEPT !.send = "sending"] ELSE s[k]
      BY <1>4
    <2>2. s[k] \in Row
      BY <1>2
    <2> HIDE DEF t
    <2> QED BY <1>3, <2>1, <2>2
  <1>7. t = [k \in 1..Len(s) |-> t[k]]
    BY <1>4
  <1> HIDE DEF t
  <1>8. t \in Seq(Row) /\ Len(t) = Len(s) /\ DOMAIN t = 1..Len(s)
    BY <1>2, <1>6, <1>7
  <1>9. Alike(chat.messages, t)
    BY <1>6, <1>8 DEF Alike
  <1>10. chat' = Chat(t, chat.shownIds, chat.pendingIntents, chat.cursor, chat.historyLoaded)
    BY <1>1, <1>5, ChatEdits
  <1>11. chat'.messages = t
    BY <1>10, ChatFields
  <1>12. SameRows
    BY <1>9, <1>10, MarkedIs DEF SameRows
  <1> QED BY <1>2, <1>6, <1>8, <1>11, <1>12 DEF Elems

\* A typed reply moves from the queue to the rows.
LEMMA TypedStep ==
    ASSUME LogOK, ChatOK, TypingDone
    PROVE  \E D \in SUBSET (1..Len(log)) :
             /\ D \cup Elems(queue') = Elems(queue)
             /\ queue' \in Seq(Nat) /\ Replies(queue')
             /\ ChatIs(chat') /\ NoNewSends
             /\ chat'.shownIds = chat.shownIds /\ chat'.pendingIntents = chat.pendingIntents
             /\ chat'.cursor = chat.cursor /\ chat'.historyLoaded = chat.historyLoaded
             /\ Len(chat'.messages) < MaxMessages =>
                  Shown(chat') = Shown(chat) \cup D /\ (OneEach(chat) => OneEach(chat'))
  <1>1. /\ ChatIs(chat) /\ queue \in Seq(Nat) /\ Replies(queue) /\ chat.messages \in Seq(Row)
        /\ chat = Chat(chat.messages, chat.shownIds, chat.pendingIntents, chat.cursor, chat.historyLoaded)
        /\ NoIntent \notin chat.pendingIntents
    BY ChatAssumption DEF ChatOK, ChatIs, Chat, Replies
  \* The replies that are committed.
  <1>2. ASSUME NEW ids \in Seq(Nat), Elems(ids) \cup Elems(queue') = Elems(queue), queue' \in Seq(Nat), CommitReplies(chat, ids)
        PROVE  \E D \in SUBSET (1..Len(log)) :
                 /\ D \cup Elems(queue') = Elems(queue)
                 /\ queue' \in Seq(Nat) /\ Replies(queue')
                 /\ ChatIs(chat') /\ NoNewSends
                 /\ chat'.shownIds = chat.shownIds /\ chat'.pendingIntents = chat.pendingIntents
                 /\ chat'.cursor = chat.cursor /\ chat'.historyLoaded = chat.historyLoaded
                 /\ Len(chat'.messages) < MaxMessages =>
                      Shown(chat') = Shown(chat) \cup D /\ (OneEach(chat) => OneEach(chat'))
    <2>1. \A u \in Elems(ids) : u \in 1..Len(log) /\ log[u].intent = NoIntent
      <3>1. \A u \in Elems(ids) : u \in 1..Len(log) /\ log[u].type = "chat"
        BY <1>1, <1>2 DEF Replies
      <3> QED BY <3>1, ReplyIntent
    <2>2. Grown(chat, chat', Elems(ids)) /\ StaysFree(chat, chat')
      BY <1>1, <1>2, <2>1, CommitIs
    <2>3. Elems(ids) \subseteq 1..Len(log) /\ \A u \in Elems(ids) : log[u].intent \notin chat.pendingIntents
      BY <1>1, <2>1
    <2>4. /\ ChatIs(chat')
          /\ chat'.shownIds = chat.shownIds /\ chat'.pendingIntents = chat.pendingIntents
          /\ chat'.cursor = chat.cursor /\ chat'.historyLoaded = chat.historyLoaded
          /\ Len(chat'.messages) < MaxMessages =>
                /\ Shown(chat') = Shown(chat) \cup Elems(ids)
                /\ StaysFree(chat, chat') /\ OneEach(chat) => OneEach(chat')
      BY <1>1, <2>2, <2>3, GrownIs
    <2>5. NoNewSends
      BY <2>2, GrownSends
    <2>6. Replies(queue')
      BY <1>1, <1>2 DEF Replies
    <2> Elems(ids) \in SUBSET (1..Len(log))
      BY <2>3
    <2> WITNESS Elems(ids) \in SUBSET (1..Len(log))
    <2> QED BY <1>2, <2>2, <2>4, <2>5, <2>6
  <1>3. CASE CommitReplies(chat, queue) /\ queue' = <<>>
    <2>1. Elems(queue) \cup Elems(queue') = Elems(queue) /\ queue' \in Seq(Nat)
      BY <1>1, <1>3, ElemsEmpty
    <2> QED BY <1>1, <1>2, <1>3, <2>1
  <1>4. CASE queue # <<>> /\ CommitReplies(chat, <<Head(queue)>>) /\ queue' = Tail(queue)
    <2>1. <<Head(queue)>> \in Seq(Nat) /\ queue' \in Seq(Nat)
      BY <1>1, <1>4
    <2>2. Elems(<<Head(queue)>>) = {queue[1]}
      BY <1>1, <1>4 DEF Elems
    <2>3. /\ DOMAIN queue = 1..Len(queue) /\ Len(queue) \in Nat /\ Len(queue) >= 1
          /\ DOMAIN queue' = 1..(Len(queue) - 1) /\ \A k \in 1..(Len(queue) - 1) : queue'[k] = queue[k + 1]
      BY <1>1, <1>4
    <2>4. {queue[1]} \cup Elems(queue') = Elems(queue)
      <3>1. ASSUME NEW k \in 1..Len(queue), k # 1 PROVE k - 1 \in 1..(Len(queue) - 1) /\ queue'[k - 1] = queue[k]
        BY <2>3, <3>1
      <3>2. ASSUME NEW k \in 1..(Len(queue) - 1) PROVE k + 1 \in 1..Len(queue) /\ queue'[k] = queue[k + 1]
        BY <2>3, <3>2
      <3>3. 1 \in 1..Len(queue)
        BY <2>3
      <3>4. ASSUME NEW x \in Elems(queue) PROVE x = queue[1] \/ x \in Elems(queue')
        <4>1. PICK k \in 1..Len(queue) : x = queue[k]
          BY <2>3 DEF Elems
        <4> QED BY <2>3, <3>1, <4>1 DEF Elems
      <3>5. Elems(queue') \subseteq Elems(queue)
        BY <2>3, <3>2 DEF Elems
      <3>6. queue[1] \in Elems(queue)
        BY <2>3, <3>3 DEF Elems
      <3> QED BY <3>4, <3>5, <3>6
    <2> QED BY <1>2, <1>4, <2>1, <2>2, <2>4
  <1> QED BY <1>3, <1>4 DEF TypingDone

\* The seed that lands has read the store.
LEMMA SeedLandsStep ==
    ASSUME LogOK, SeedsOK, NEW k \in DOMAIN seeds, SeedLands(k)
    PROVE  seeds[k] \in 0..Len(log) /\ seeds[k] \in Elems(seeds) /\ chat' = SeedTail(seeds[k])
  <1>1. seeds[k] \in Nat /\ seeds[k] \in Elems(seeds)
    BY DEF SeedsOK, Elems
  <1> QED BY <1>1 DEF SeedLands, SeedsOK

\* Events of a page: none of the chat's sends.
LEMMA PageNoSends ==
    ASSUME NEW n, \A b \in Elems(chat'.messages) : b \in Elems(chat.messages) \/ b \in PageRows(n)
    PROVE  NoNewSends
  BY DEF NoNewSends, PageRows, Event

----------------------------------------------------------------------------
(* The sends.                                                               *)

PostRow == [sent : Nat, orphan : Nat, retry : Nat, failed : Nat]

\* One send's requests are replaced.
LEMMA PostSet ==
    ASSUME posts \in [Intents -> PostRow], NEW i \in Intents, NEW r \in PostRow, posts' = [posts EXCEPT ![i] = r]
    PROVE  /\ posts' \in [Intents -> PostRow] /\ Due(i)' = r.sent + r.retry + r.failed /\ posts'[i].orphan = r.orphan
           /\ \A j \in Intents \ {i} : Due(j)' = Due(j) /\ posts'[j].orphan = posts[j].orphan
  <1>1. posts'[i] = r /\ \A j \in Intents : j # i => posts'[j] = posts[j]
    BY DEF PostRow
  <1>2. posts' \in [Intents -> PostRow]
    OBVIOUS
  <1>3. Due(i)' = r.sent + r.retry + r.failed
    BY <1>1 DEF Due
  <1>4. \A j \in Intents \ {i} : Due(j)' = Due(j) /\ posts'[j].orphan = posts[j].orphan
    BY <1>1 DEF Due
  <1> QED BY <1>1, <1>2, <1>3, <1>4

\* A send or a retry puts one request on its way; a failure ends one.
LEMMA PostMoves ==
    ASSUME posts \in [Intents -> PostRow], NEW i \in Intents
    PROVE  /\ Due(i) = 0 /\ posts' = [posts EXCEPT ![i].sent = @ + 1]
                => /\ posts' \in [Intents -> PostRow] /\ Due(i)' = 1 /\ posts'[i].orphan = posts[i].orphan
                   /\ \A j \in Intents \ {i} : Due(j)' = Due(j) /\ posts'[j].orphan = posts[j].orphan
           /\ Due(i) <= 1 /\ (\E failure \in {"retry", "failed"} :
                    posts[i][failure] > 0 /\ posts' = [posts EXCEPT ![i][failure] = @ - 1])
                => /\ posts' \in [Intents -> PostRow] /\ Due(i)' = 0 /\ posts'[i].orphan = posts[i].orphan
                   /\ \A j \in Intents \ {i} : Due(j)' = Due(j) /\ posts'[j].orphan = posts[j].orphan
  <1> DEFINE P(a, b, c, d) == [sent |-> a, orphan |-> b, retry |-> c, failed |-> d]
             s == posts[i].sent
             o == posts[i].orphan
             t == posts[i].retry
             f == posts[i].failed
  <1>1. s \in Nat /\ o \in Nat /\ t \in Nat /\ f \in Nat /\ posts[i] = P(s, o, t, f) /\ Due(i) = s + t + f
    BY PostTypes DEF PostRow, Due
  <1>2. \A a, b, c, d \in Nat : /\ P(a, b, c, d) \in PostRow
                                /\ P(a, b, c, d).sent = a /\ P(a, b, c, d).orphan = b
                                /\ P(a, b, c, d).retry = c /\ P(a, b, c, d).failed = d
    BY DEF PostRow
  <1>3. ASSUME Due(i) = 0, posts' = [posts EXCEPT ![i].sent = @ + 1]
        PROVE  /\ posts' \in [Intents -> PostRow] /\ Due(i)' = 1 /\ posts'[i].orphan = posts[i].orphan
               /\ \A j \in Intents \ {i} : Due(j)' = Due(j) /\ posts'[j].orphan = posts[j].orphan
    <2> DEFINE r == P(s + 1, o, t, f)
    <2>1. posts' = [posts EXCEPT ![i] = r]
      <3>1. posts' = [posts EXCEPT ![i] = [posts[i] EXCEPT !.sent = posts[i].sent + 1]]
        BY <1>3
      <3>2. [posts[i] EXCEPT !.sent = posts[i].sent + 1] = r
        BY <1>1
      <3> QED BY <3>1, <3>2
    <2>2. r \in PostRow /\ r.sent = s + 1 /\ r.orphan = o /\ r.retry = t /\ r.failed = f
      BY <1>1, <1>2
    <2> HIDE DEF r
    <2>3. /\ posts' \in [Intents -> PostRow] /\ Due(i)' = r.sent + r.retry + r.failed /\ posts'[i].orphan = r.orphan
          /\ \A j \in Intents \ {i} : Due(j)' = Due(j) /\ posts'[j].orphan = posts[j].orphan
      BY <2>1, <2>2, PostSet
    <2>4. s = 0 /\ t = 0 /\ f = 0
      BY <1>1, <1>3
    <2> QED BY <2>2, <2>3, <2>4
  <1>4. ASSUME NEW r \in PostRow, posts' = [posts EXCEPT ![i] = r], r.orphan = o, r.sent + r.retry + r.failed = 0
        PROVE  /\ posts' \in [Intents -> PostRow] /\ Due(i)' = 0 /\ posts'[i].orphan = posts[i].orphan
               /\ \A j \in Intents \ {i} : Due(j)' = Due(j) /\ posts'[j].orphan = posts[j].orphan
    <2>1. /\ posts' \in [Intents -> PostRow] /\ Due(i)' = r.sent + r.retry + r.failed /\ posts'[i].orphan = r.orphan
          /\ \A j \in Intents \ {i} : Due(j)' = Due(j) /\ posts'[j].orphan = posts[j].orphan
      BY <1>4, PostSet
    <2> QED BY <1>4, <2>1
  <1>5. ASSUME Due(i) <= 1, t > 0, posts' = [posts EXCEPT ![i]["retry"] = @ - 1]
        PROVE  /\ posts' \in [Intents -> PostRow] /\ Due(i)' = 0 /\ posts'[i].orphan = posts[i].orphan
               /\ \A j \in Intents \ {i} : Due(j)' = Due(j) /\ posts'[j].orphan = posts[j].orphan
    <2> DEFINE r == P(s, o, t - 1, f)
    <2>1. posts' = [posts EXCEPT ![i] = r]
      <3>1. posts' = [posts EXCEPT ![i] = [posts[i] EXCEPT !.retry = posts[i].retry - 1]]
        BY <1>5
      <3>2. [posts[i] EXCEPT !.retry = posts[i].retry - 1] = r
        BY <1>1
      <3> QED BY <3>1, <3>2
    <2>2. t - 1 \in Nat
      BY <1>1, <1>5
    <2>3. r \in PostRow /\ r.sent = s /\ r.orphan = o /\ r.retry = t - 1 /\ r.failed = f
      BY <1>1, <1>2, <2>2
    <2> HIDE DEF r
    <2>4. s = 0 /\ t = 1 /\ f = 0
      BY <1>1, <1>5
    <2>5. r.orphan = o /\ r.sent + r.retry + r.failed = 0
      BY <2>3, <2>4
    <2> QED BY <1>4, <2>1, <2>3, <2>5
  <1>6. ASSUME Due(i) <= 1, f > 0, posts' = [posts EXCEPT ![i]["failed"] = @ - 1]
        PROVE  /\ posts' \in [Intents -> PostRow] /\ Due(i)' = 0 /\ posts'[i].orphan = posts[i].orphan
               /\ \A j \in Intents \ {i} : Due(j)' = Due(j) /\ posts'[j].orphan = posts[j].orphan
    <2> DEFINE r == P(s, o, t, f - 1)
    <2>1. posts' = [posts EXCEPT ![i] = r]
      <3>1. posts' = [posts EXCEPT ![i] = [posts[i] EXCEPT !.failed = posts[i].failed - 1]]
        BY <1>6
      <3>2. [posts[i] EXCEPT !.failed = posts[i].failed - 1] = r
        BY <1>1
      <3> QED BY <3>1, <3>2
    <2>2. f - 1 \in Nat
      BY <1>1, <1>6
    <2>3. r \in PostRow /\ r.sent = s /\ r.orphan = o /\ r.retry = t /\ r.failed = f - 1
      BY <1>1, <1>2, <2>2
    <2> HIDE DEF r
    <2>4. s = 0 /\ t = 0 /\ f = 1
      BY <1>1, <1>6
    <2>5. r.orphan = o /\ r.sent + r.retry + r.failed = 0
      BY <2>3, <2>4
    <2> QED BY <1>4, <2>1, <2>3, <2>5
  <1>7. posts[i]["retry"] = t /\ posts[i]["failed"] = f
    OBVIOUS
  <1> HIDE DEF P, s, o, t, f
  <1>8. ASSUME Due(i) <= 1, NEW failure \in {"retry", "failed"}, posts[i][failure] > 0,
               posts' = [posts EXCEPT ![i][failure] = @ - 1]
        PROVE  /\ posts' \in [Intents -> PostRow] /\ Due(i)' = 0 /\ posts'[i].orphan = posts[i].orphan
               /\ \A j \in Intents \ {i} : Due(j)' = Due(j) /\ posts'[j].orphan = posts[j].orphan
    <2>1. CASE failure = "retry"
      BY <1>5, <1>7, <1>8, <2>1
    <2>2. CASE failure = "failed"
      BY <1>6, <1>7, <1>8, <2>2
    <2> QED BY <1>8, <2>1, <2>2
  <1> QED BY <1>3, <1>8

\* What the rows say of the sends.
Reports(c) ==
    \A a \in Elems(c.messages) :
        /\ a.send \in {"retry", "failed"} => a.intent \in Intents /\ Due(a.intent) = 0
        /\ a.send # "none" => a.intent \in Intents
        /\ \A b \in Elems(c.messages) :
             a.intent = b.intent /\ a.send # "none" /\ b.send # "none" => a.send = b.send

\* The rows stay and no request is added.
LEMMA SendsQuiet ==
    ASSUME SendsOK, NoNewSends, PostsFall \/ UNCHANGED posts, FaultOrNot, UNCHANGED taps, MaxFaults \in Nat, faults \in 0..MaxFaults
    PROVE  SendsOK'
  <1>1. posts \in [Intents -> PostRow] /\ taps \in 0..MaxTaps /\ Reports(chat)
        /\ \A i \in Intents : Due(i) <= 1 /\ posts[i].orphan <= faults
    BY DEF SendsOK, PostRow, Reports
  <1>2. posts' \in [Intents -> PostRow] /\ \A j \in Intents : Due(j)' <= Due(j) /\ posts'[j].orphan <= posts[j].orphan
    <2>1. CASE PostsFall
      BY <1>1, <2>1 DEF PostsFall, PostRow
    <2>2. CASE UNCHANGED posts
      <3>1. \A j \in Intents : Due(j)' = Due(j) /\ Due(j) \in Nat /\ posts[j].orphan \in Nat
        BY <1>1, <2>2, PostTypes DEF Due, PostRow
      <3> QED BY <1>1, <2>2, <3>1
    <2> QED BY <2>1, <2>2
  <1>3. \A j \in Intents : Due(j) \in Nat /\ posts[j].orphan \in Nat /\ Due(j)' \in Nat /\ posts'[j].orphan \in Nat
    BY <1>1, <1>2 DEF PostRow, Due
  <1>4. faults' \in Nat /\ faults <= faults'
    BY DEF FaultOrNot
  <1>5. \A j \in Intents : Due(j)' <= 1 /\ posts'[j].orphan <= faults'
    BY <1>1, <1>2, <1>3, <1>4
  <1>6. \A j \in Intents : Due(j) = 0 => Due(j)' = 0
    BY <1>2, <1>3
  <1>7. \A a \in Elems(chat'.messages) : a.send # "none" => a \in Elems(chat.messages)
    BY DEF NoNewSends
  <1>8. Reports(chat)'
    BY <1>1, <1>6, <1>7 DEF Reports
  <1> QED BY <1>1, <1>2, <1>5, <1>8 DEF SendsOK, Reports, PostRow

\* The requests that a step leaves, and the states its rows show.
LEMMA SendsMade ==
    ASSUME posts' \in [Intents -> PostRow], \A j \in Intents : Due(j)' <= 1 /\ posts'[j].orphan <= faults',
           taps' \in 0..MaxTaps, Reports(chat)'
    PROVE  SendsOK'
  BY DEF SendsOK, Reports, PostRow

\* A failed bubble has no request under way, so a tap or an open posts it once.
LEMMA SendsNext ==
    ASSUME LogOK, WireOK, SeedsOK, SendsOK, ChatOK, Step
    PROVE  SendsOK'
  <1>0. faults \in 0..MaxFaults /\ MaxFaults \in Nat /\ MaxTaps \in Nat /\ ChatIs(chat)
    BY ChatAssumption DEF LogOK, ChatOK
  <1>1. posts \in [Intents -> PostRow] /\ taps \in 0..MaxTaps /\ Reports(chat)
        /\ \A i \in Intents : Due(i) <= 1 /\ posts[i].orphan <= faults
    BY DEF SendsOK, PostRow, Reports
  <1>2. \A i \in Intents : Due(i) \in Nat /\ posts[i].orphan \in Nat /\ posts[i].sent \in Nat
    BY <1>1 DEF PostRow, Due
  <1>3. ASSUME chat' = chat PROVE NoNewSends
    BY <1>3 DEF NoNewSends
  <1>4. CASE (\E e \in Entry : Written(e)) /\ (PostsFall \/ UNCHANGED posts)
    <2>1. UNCHANGED <<chat, taps>> /\ FaultOrNot
      BY <1>4 DEF Written, FaultOrNot
    <2> QED BY <1>0, <1>3, <1>4, <2>1, SendsQuiet
  <1>5. CASE NotWritten /\ PostsFall
    <2>1. UNCHANGED <<chat, taps>> /\ FaultOrNot
      BY <1>5 DEF NotWritten
    <2> QED BY <1>0, <1>3, <1>5, <2>1, SendsQuiet
  <1>6. ASSUME UNCHANGED <<posts, taps>>, FaultOrNot, NoNewSends PROVE SendsOK'
    BY <1>0, <1>6, SendsQuiet
  <1>7. CASE Subscribe \/ SocketLost \/ DaemonRestart
    <2>1. UNCHANGED <<posts, taps, chat>> /\ FaultOrNot
      BY <1>7 DEF Subscribe, SocketLost, DaemonRestart, sendVars, Fault, FaultOrNot
    <2> QED BY <1>3, <1>6, <2>1
  <1>8. CASE (\E k \in DOMAIN seeds : SeedReads(k) \/ SeedFails(k)) \/ SeedRetry \/ LoadMore
    <2>1. UNCHANGED <<posts, taps, chat>> /\ FaultOrNot
      BY <1>8 DEF SeedReads, SeedFails, SeedRetry, LoadMore, sendVars, Fault, FaultOrNot
    <2> QED BY <1>3, <1>6, <2>1
  <1>9. CASE Receive
    <2>1. UNCHANGED <<posts, taps, faults>> /\ wire # <<>> /\ FoldLiveEvent(Head(wire))
      BY <1>9 DEF Receive, sendVars
    <2>2. Head(wire) \in 1..Len(log)
      <3>1. wire \in Seq(Nat) /\ Len(wire) \in Nat /\ Len(wire) >= 1 /\ Head(wire) = wire[1] /\ Len(log) \in Nat
        BY <2>1 DEF WireOK, LogOK
      <3>2. wire[1] = Len(log) - Len(wire) + 1 /\ Len(wire) <= Len(log)
        BY <3>1 DEF WireOK
      <3> QED BY <3>1, <3>2
    <2>3. NoNewSends
      BY <2>1, <2>2, FoldIs
    <2> QED BY <1>6, <2>1, <2>3 DEF FaultOrNot
  <1>10. CASE TypingDone
    <2>1. UNCHANGED <<posts, taps, faults>>
      BY <1>10 DEF TypingDone, sendVars
    <2>2. NoNewSends
      BY <1>10, TypedStep
    <2> QED BY <1>6, <2>1, <2>2 DEF FaultOrNot
  <1>11. CASE \E k \in DOMAIN seeds : SeedLands(k)
    <2>1. PICK k \in DOMAIN seeds : SeedLands(k)
      BY <1>11
    <2>2. seeds[k] \in 0..Len(log) /\ chat' = SeedTail(seeds[k])
      BY <2>1, SeedLandsStep
    <2>3. Elems(chat'.messages) \subseteq Olds(seeds[k]) \cup PageRows(seeds[k]) \cup News(seeds[k])
      BY <1>0, <2>2, SeededIs
    <2>4. NoNewSends
      BY <2>3, PageNoSends DEF Olds, News
    <2>5. UNCHANGED <<posts, taps, faults>>
      BY <2>1 DEF SeedLands, sendVars
    <2> QED BY <1>6, <2>4, <2>5 DEF FaultOrNot
  <1>12. CASE MoreLands
    <2>1. UNCHANGED <<posts, taps>> /\ FaultOrNot /\ more # 0
      BY <1>12 DEF MoreLands, sendVars, Fault, FaultOrNot
    <2>2. more - 1 \in 0..Len(log)
      BY <2>1 DEF ChatOK, LogOK
    <2>3. CASE chat' = PrependPage(more - 1)
      <3>1. Elems(chat'.messages) = PageRows(more - 1) \cup Elems(chat.messages)
        BY <1>0, <2>2, <2>3, PagedIs
      <3>2. NoNewSends
        BY <3>1, PageNoSends
      <3> QED BY <1>6, <2>1, <3>2
    <2>4. CASE chat' = chat
      BY <1>3, <1>6, <2>1, <2>4
    <2> QED BY <1>12, <2>3, <2>4 DEF MoreLands
  <1>13. CASE TrimHistory
    <2>1. UNCHANGED <<posts, taps, faults>> /\ Len(chat.messages) > TrimKeep /\ KeptIds # {} /\ chat' = TrimTail
      BY <1>13 DEF TrimHistory, sendVars
    <2>2. Elems(chat'.messages) \subseteq Elems(chat.messages)
      BY <1>0, <2>1, TrimmedIs
    <2>3. NoNewSends
      BY <2>2 DEF NoNewSends
    <2> QED BY <1>6, <2>1, <2>3 DEF FaultOrNot
  \* Reports of rows whose intent a step leaves alone.
  <1>14. CASE \E i \in Intents : Send(i)
    <2>1. PICK i \in Intents : Send(i)
      BY <1>14
    <2> DEFINE x == [id |-> 0, intent |-> i, send |-> "sending"]
    <2>2. /\ \A k \in DOMAIN log : log[k].intent # i
          /\ \A k \in DOMAIN chat.messages : chat.messages[k].intent # i
          /\ posts[i] = [sent |-> 0, orphan |-> 0, retry |-> 0, failed |-> 0]
          /\ chat' = BeginSend(i) /\ posts' = [posts EXCEPT ![i].sent = 1] /\ UNCHANGED <<taps, faults>>
      BY <2>1 DEF Send
    <2>3. Elems(chat'.messages) \subseteq Elems(chat.messages) \cup {x}
      BY <1>0, <2>2, BegunIs
    <2>4. Due(i) = 0 /\ posts' = [posts EXCEPT ![i].sent = @ + 1]
      BY <2>2 DEF Due
    <2>5. /\ posts' \in [Intents -> PostRow] /\ Due(i)' = 1 /\ posts'[i].orphan = posts[i].orphan
          /\ \A j \in Intents \ {i} : Due(j)' = Due(j) /\ posts'[j].orphan = posts[j].orphan
      BY <1>1, <2>4, PostMoves
    <2>6. \A a \in Elems(chat.messages) : a.intent # i
      BY <2>2 DEF Elems
    <2>7. x.intent = i /\ x.send = "sending"
      OBVIOUS
    <2> HIDE DEF x
    <2>8. Reports(chat)'
      BY <1>1, <2>3, <2>5, <2>6, <2>7 DEF Reports
    <2>9. \A j \in Intents : Due(j)' <= 1 /\ posts'[j].orphan <= faults'
      BY <1>1, <2>2, <2>5
    <2> QED BY <1>1, <2>2, <2>5, <2>8, <2>9, SendsMade
  <1>15. CASE \E i \in Intents : Retry(i)
    <2>1. PICK i \in Intents : Retry(i)
      BY <1>15
    <2>2. /\ taps < MaxTaps /\ taps' = taps + 1 /\ UNCHANGED faults
          /\ \E a \in Elems(chat.messages) : a.intent = i /\ a.send \in {"retry", "failed"}
          /\ chat' = MarkSend(i, "sending") /\ posts' = [posts EXCEPT ![i].sent = @ + 1]
      BY <2>1 DEF Retry, Elems
    <2>3. \A b \in Elems(chat'.messages) :
            \E a \in Elems(chat.messages) : a.intent = b.intent /\ b.send = IF b.intent = i THEN "sending" ELSE a.send
      BY <1>0, <2>2, MarkStep DEF SendState
    <2>4. Due(i) = 0
      BY <1>1, <2>2 DEF Reports
    <2>5. /\ posts' \in [Intents -> PostRow] /\ Due(i)' = 1 /\ posts'[i].orphan = posts[i].orphan
          /\ \A j \in Intents \ {i} : Due(j)' = Due(j) /\ posts'[j].orphan = posts[j].orphan
      BY <1>1, <2>2, <2>4, PostMoves
    <2>6. Reports(chat)'
      BY <1>1, <2>3, <2>5 DEF Reports
    <2>7. \A j \in Intents : Due(j)' <= 1 /\ posts'[j].orphan <= faults'
      BY <1>1, <2>2, <2>5
    <2>8. taps' \in 0..MaxTaps
      BY <1>0, <1>1, <2>2
    <2> QED BY <2>5, <2>6, <2>7, <2>8, SendsMade
  <1>16. CASE \E i \in Intents : PostFails(i)
    <2>1. PICK i \in Intents : PostFails(i)
      BY <1>16
    <2>2. PICK failure \in {"retry", "failed"} :
            /\ posts[i][failure] > 0 /\ posts' = [posts EXCEPT ![i][failure] = @ - 1]
            /\ chat' = MarkSend(i, failure) /\ UNCHANGED <<taps, faults>>
      BY <2>1 DEF PostFails
    <2>3. \A b \in Elems(chat'.messages) :
            \E a \in Elems(chat.messages) : a.intent = b.intent /\ b.send = IF b.intent = i THEN failure ELSE a.send
      BY <1>0, <2>2, MarkStep DEF SendState
    <2>4. /\ posts' \in [Intents -> PostRow] /\ Due(i)' = 0 /\ posts'[i].orphan = posts[i].orphan
          /\ \A j \in Intents \ {i} : Due(j)' = Due(j) /\ posts'[j].orphan = posts[j].orphan
      BY <1>1, <2>2, PostMoves
    <2>5. Reports(chat)'
      BY <1>1, <2>3, <2>4 DEF Reports
    <2>6. \A j \in Intents : Due(j)' <= 1 /\ posts'[j].orphan <= faults'
      BY <1>1, <2>2, <2>4
    <2> QED BY <1>1, <2>2, <2>4, <2>5, <2>6, SendsMade
  <1>17. CASE Open
    <2>1. /\ posts' = [i \in Intents |-> IF i \in RetryableSends THEN [posts[i] EXCEPT !.sent = @ + 1] ELSE posts[i]]
          /\ UNCHANGED <<taps, faults>>
      BY <1>17 DEF Open
    <2>2. \A b \in Elems(chat'.messages) :
            \E a \in Elems(chat.messages) :
                a.intent = b.intent /\ b.send = IF a.send = "retry" THEN "sending" ELSE a.send
      BY <1>0, <1>17, OpenStep
    <2>3. \A i \in Intents : i \in RetryableSends <=>
            \E a \in Elems(chat.messages) : a.intent = i /\ a.send = "retry"
      BY DEF RetryableSends, Elems
    <2>4. \A i \in Intents : i \in RetryableSends => Due(i) = 0
      BY <1>1, <2>3 DEF Reports
    <2>5. ASSUME NEW i \in Intents
          PROVE  /\ posts'[i] \in PostRow /\ posts'[i].orphan = posts[i].orphan
                 /\ Due(i)' = IF i \in RetryableSends THEN 1 ELSE Due(i)
      <3>1. CASE i \in RetryableSends
        <4>1. posts[i] \in PostRow /\ Due(i) = 0
          BY <1>1, <2>4, <3>1
        <4>2. posts'[i] = [posts[i] EXCEPT !.sent = @ + 1]
          BY <2>1, <3>1
        <4>3. \A r \in PostRow :
                /\ [r EXCEPT !.sent = @ + 1] \in PostRow /\ [r EXCEPT !.sent = @ + 1].sent = r.sent + 1
                /\ [r EXCEPT !.sent = @ + 1].orphan = r.orphan /\ [r EXCEPT !.sent = @ + 1].retry = r.retry
                /\ [r EXCEPT !.sent = @ + 1].failed = r.failed
                /\ r.sent \in Nat /\ r.retry \in Nat /\ r.failed \in Nat
          BY DEF PostRow
        <4>4. /\ posts'[i] \in PostRow /\ posts'[i].sent = posts[i].sent + 1 /\ posts'[i].orphan = posts[i].orphan
              /\ posts'[i].retry = posts[i].retry /\ posts'[i].failed = posts[i].failed
              /\ posts[i].sent \in Nat /\ posts[i].retry \in Nat /\ posts[i].failed \in Nat
          BY <4>1, <4>2, <4>3
        <4> QED BY <3>1, <4>1, <4>4 DEF Due
      <3>2. CASE i \notin RetryableSends
        BY <1>1, <2>1, <3>2 DEF Due
      <3> QED BY <3>1, <3>2
    <2>6. posts' \in [Intents -> PostRow]
      <3>1. posts' = [i \in Intents |-> posts'[i]]
        BY <2>1
      <3> QED BY <2>5, <3>1
    <2>7. Reports(chat)'
      <3>1. ASSUME NEW b \in Elems(chat'.messages), b.send \in {"retry", "failed"} PROVE b.intent \in Intents /\ Due(b.intent)' = 0
        <4>1. PICK a \in Elems(chat.messages) : a.intent = b.intent /\ b.send = IF a.send = "retry" THEN "sending" ELSE a.send
          BY <2>2
        <4>2. a.send = "failed" /\ a.intent \in Intents /\ Due(a.intent) = 0
          BY <1>1, <3>1, <4>1 DEF Reports
        <4>3. a.intent \notin RetryableSends
          BY <1>1, <2>3, <4>2 DEF Reports
        <4> QED BY <2>5, <4>1, <4>2, <4>3
      <3>2. ASSUME NEW b \in Elems(chat'.messages), b.send # "none"
            PROVE  /\ b.intent \in Intents
                   /\ \A d \in Elems(chat'.messages) : b.intent = d.intent /\ d.send # "none" => b.send = d.send
        <4>1. PICK a \in Elems(chat.messages) : a.intent = b.intent /\ b.send = IF a.send = "retry" THEN "sending" ELSE a.send
          BY <2>2
        <4>2. a.send # "none"
          BY <3>2, <4>1
        <4>3. ASSUME NEW d \in Elems(chat'.messages), b.intent = d.intent, d.send # "none" PROVE b.send = d.send
          <5>1. PICK e \in Elems(chat.messages) : e.intent = d.intent /\ d.send = IF e.send = "retry" THEN "sending" ELSE e.send
            BY <2>2
          <5>2. e.send # "none"
            BY <4>3, <5>1
          <5> QED BY <1>1, <4>1, <4>2, <4>3, <5>1, <5>2 DEF Reports
        <4> QED BY <1>1, <4>1, <4>2, <4>3 DEF Reports
      <3> QED BY <3>1, <3>2 DEF Reports
    <2>8. ASSUME NEW j \in Intents PROVE Due(j)' <= 1 /\ posts'[j].orphan <= faults'
      <3>1. posts'[j].orphan = posts[j].orphan /\ (Due(j)' = 1 \/ Due(j)' = Due(j))
        BY <2>5
      <3>2. Due(j) <= 1 /\ posts[j].orphan <= faults /\ faults' = faults
        BY <1>1, <2>1
      <3>3. CASE Due(j)' = 1
        BY <3>1, <3>2, <3>3
      <3>4. CASE Due(j)' = Due(j)
        BY <3>1, <3>2, <3>4
      <3> QED BY <3>1, <3>3, <3>4
    <2> QED BY <1>1, <2>1, <2>6, <2>7, <2>8, SendsMade
  <1>18. CASE Remount
    <2>1. /\ posts' = [i \in Intents |-> [sent |-> 0, retry |-> 0, failed |-> 0, orphan |-> posts[i].orphan + posts[i].sent]]
          /\ faults' = faults + 1 /\ UNCHANGED <<chat, taps>>
      BY <1>18 DEF Remount, Fault
    <2>2. ASSUME NEW i \in Intents
          PROVE  posts'[i] \in PostRow /\ posts'[i].orphan = posts[i].orphan + posts[i].sent /\ Due(i)' = 0
      BY <1>2, <2>1 DEF PostRow, Due
    <2>3. posts' \in [Intents -> PostRow]
      <3>1. posts' = [i \in Intents |-> posts'[i]]
        BY <2>1
      <3> QED BY <2>2, <3>1
    <2>4. \A i \in Intents : posts[i].sent <= 1
      BY <1>1 DEF PostRow, Due
    <2>5. \A j \in Intents : Due(j)' <= 1 /\ posts'[j].orphan <= faults'
      BY <1>0, <1>1, <1>2, <2>1, <2>2, <2>4
    <2>6. Reports(chat)'
      BY <1>1, <2>1, <2>2 DEF Reports
    <2> QED BY <1>1, <2>1, <2>3, <2>5, <2>6, SendsMade
  <1> QED BY <1>4, <1>5, <1>7, <1>8, <1>9, <1>10, <1>11, <1>12, <1>13, <1>14, <1>15, <1>16, <1>17, <1>18, StepKinds, Zenon DEF SessionStep

----------------------------------------------------------------------------
(* The chat, its queue and its pages keep their form.                       *)

\* What is left to show of a step, the store growing only.
LEMMA ChatMade ==
    ASSUME LogOK, ChatOK, Step, Note, ChatIs(chat'), queue' \in Seq(Nat), Replies(queue'),
           more' \in 0..Len(log), told' \subseteq 1..Len(log')
    PROVE  ChatOK'
  <1>1. /\ log \in Seq(Entry) /\ log' \in Seq(Entry) /\ DOMAIN log = 1..Len(log) /\ DOMAIN log' = 1..Len(log')
        /\ \A k \in 1..Len(log) : log'[k] = log[k]
        /\ Len(log) <= Len(log') /\ Len(log) \in Nat /\ Len(log') \in Nat
    BY LogNext DEF LogOK
  <1>2. crossed' \in BOOLEAN
    BY DEF Note, ChatOK
  <1>3. ASSUME NEW a \in Elems(chat'.messages)
        PROVE  /\ a \in Row /\ a.id <= Len(log') /\ (a.id # 0 => a.intent = log'[a.id].intent)
               /\ (a.id = 0 => a.intent \in chat'.pendingIntents)
    <2>1. a \in Row /\ a.id <= Len(log) /\ a.id \in Nat /\ (a.id # 0 => a.intent = log[a.id].intent)
          /\ (a.id = 0 => a.intent \in chat'.pendingIntents)
      BY BoundsOK DEF ChatIs, RowOK, Row
    <2>2. a.id # 0 => a.id \in 1..Len(log)
      BY <1>1, <2>1
    <2> QED BY <1>1, <2>1, <2>2
  <1>4. ChatIs(chat)'
    BY <1>1, <1>3 DEF ChatIs, RowOK
  <1>5. \A u \in Elems(queue') : u \in 1..Len(log') /\ log'[u].type = "chat"
    BY <1>1 DEF Replies
  <1> QED BY <1>1, <1>2, <1>4, <1>5 DEF ChatOK

\* The oldest id the link carries.
LEMMA HeadIs ==
    ASSUME LogOK, WireOK, wire # <<>>
    PROVE  /\ Head(wire) \in 1..Len(log) /\ Head(wire) = Len(log) - Len(wire) + 1 /\ Head(wire) \in Elems(wire)
           /\ Elems(wire) = {Head(wire)} \cup Elems(Tail(wire)) /\ Head(wire) \notin Elems(Tail(wire))
           /\ (Head(wire) = 1 => \A u \in 1..Len(log) : u \in Elems(wire))
  <1>1. wire \in Seq(Nat) /\ Len(wire) \in Nat /\ Len(wire) >= 1 /\ Head(wire) = wire[1] /\ Len(log) \in Nat
    BY DEF WireOK, LogOK
  <1>2. Len(wire) <= Len(log) /\ \A k \in 1..Len(wire) : wire[k] = Len(log) - Len(wire) + k
    BY DEF WireOK
  <1>3. /\ DOMAIN wire = 1..Len(wire) /\ DOMAIN Tail(wire) = 1..(Len(wire) - 1)
        /\ \A k \in 1..(Len(wire) - 1) : Tail(wire)[k] = wire[k + 1]
    BY <1>1
  <1>4. 1 \in 1..Len(wire) /\ wire[1] = Len(log) - Len(wire) + 1
    BY <1>1, <1>2
  <1>5. Head(wire) \in 1..Len(log) /\ Head(wire) = Len(log) - Len(wire) + 1 /\ Head(wire) \in Elems(wire)
    BY <1>1, <1>2, <1>3, <1>4 DEF Elems
  <1>6. ASSUME NEW x \in Elems(wire) PROVE x = Head(wire) \/ x \in Elems(Tail(wire))
    <2>1. PICK k \in 1..Len(wire) : x = wire[k]
      BY <1>3 DEF Elems
    <2>2. CASE k = 1
      BY <1>1, <2>1, <2>2
    <2>3. CASE k # 1
      <3>1. k - 1 \in 1..(Len(wire) - 1) /\ Tail(wire)[k - 1] = wire[k]
        BY <1>1, <1>3, <2>3
      <3> QED BY <1>3, <2>1, <3>1 DEF Elems
    <2> QED BY <2>2, <2>3
  <1>7. ASSUME NEW x \in Elems(Tail(wire)) PROVE x \in Elems(wire) /\ x # Head(wire)
    <2>1. PICK k \in 1..(Len(wire) - 1) : x = wire[k + 1]
      BY <1>3 DEF Elems
    <2>2. k + 1 \in 1..Len(wire) /\ wire[k + 1] = Len(log) - Len(wire) + (k + 1)
      BY <1>1, <1>2
    <2> QED BY <1>1, <1>3, <1>5, <2>1, <2>2 DEF Elems
  <1>8. ASSUME Head(wire) = 1, NEW u \in 1..Len(log) PROVE u \in Elems(wire)
    <2>1. Len(wire) = Len(log)
      BY <1>1, <1>5, <1>8
    <2>2. u \in 1..Len(wire) /\ wire[u] = u
      BY <1>1, <1>2, <2>1
    <2> QED BY <1>3, <2>2 DEF Elems
  <1> QED BY <1>5, <1>6, <1>7, <1>8

\* Rows stay as the store has them, and a bubble one of a pending send.
LEMMA ChatNext ==
    ASSUME LogOK, WireOK, SeedsOK, ChatOK, Step, Note
    PROVE  ChatOK'
  <1>0. /\ ChatIs(chat) /\ queue \in Seq(Nat) /\ Replies(queue) /\ more \in 0..Len(log) /\ told \subseteq 1..Len(log)
        /\ chat.cursor \in 0..Len(log) /\ Len(log) \in Nat
    BY DEF ChatOK, ChatIs, Replies, LogOK
  <1>1. Len(log) <= Len(log') /\ Len(log') \in Nat
    BY LogNext DEF LogOK
  <1>2. <<>> \in Seq(Nat) /\ Replies(<<>>)
    BY ElemsEmpty DEF Replies
  <1>3. told \subseteq 1..Len(log')
    BY <1>0, <1>1
  <1>4. ASSUME ChatIs(chat'), queue' \in Seq(Nat), Replies(queue'), more' \in 0..Len(log), told' \subseteq 1..Len(log')
        PROVE  ChatOK'
    BY <1>4, ChatMade
  <1>5. CASE \E e \in Entry : Written(e)
    <2>1. PICK e \in Entry : Written(e)
      BY <1>5
    <2>2. UNCHANGED <<chat, queue, more>> /\ log' = Append(log, e) /\ (told' = told \/ told' = told \cup {Len(log) + 1})
      BY <2>1 DEF Written, Persist
    <2>3. Len(log') = Len(log) + 1
      BY <2>2 DEF LogOK
    <2>4. ASSUME NEW u \in told' PROVE u \in 1..Len(log')
      <3>1. u \in told \/ u = Len(log) + 1
        BY <2>2
      <3>2. Len(log) \in Nat /\ told \subseteq 1..Len(log')
        BY <1>0, <1>3
      <3>3. Len(log) + 1 \in 1..(Len(log) + 1)
        BY <3>2
      <3>4. Len(log) + 1 \in 1..Len(log')
        BY <2>3, <3>3
      <3> QED BY <3>1, <3>2, <3>4
    <2> QED BY <1>0, <1>4, <2>2, <2>4
  <1>6. CASE NotWritten
    <2>1. UNCHANGED <<chat, queue, more, told>>
      BY <1>6 DEF NotWritten
    <2> QED BY <1>0, <1>3, <1>4, <2>1
  <1>7. CASE Subscribe \/ SocketLost \/ DaemonRestart
    <2>1. UNCHANGED <<chat, queue, more, told>>
      BY <1>7 DEF Subscribe, SocketLost, DaemonRestart, pageVars
    <2> QED BY <1>0, <1>3, <1>4, <2>1
  <1>8. CASE \E k \in DOMAIN seeds : SeedReads(k)
    <2>1. UNCHANGED <<chat, queue, more, log>> /\ told' = told \cup DOMAIN log
      BY <1>8 DEF SeedReads, daemonVars
    <2>2. DOMAIN log = 1..Len(log)
      BY DEF LogOK
    <2>3. told' \subseteq 1..Len(log')
      BY <1>0, <2>1, <2>2
    <2> QED BY <1>0, <1>4, <2>1, <2>3
  <1>9. CASE (\E k \in DOMAIN seeds : SeedFails(k)) \/ SeedRetry \/ LoadMore
    <2>1. UNCHANGED <<chat, queue, told>> /\ (more' = more \/ more' = chat.cursor)
      BY <1>9 DEF SeedFails, SeedRetry, LoadMore
    <2> QED BY <1>0, <1>3, <1>4, <2>1
  <1>10. CASE \E i \in Intents : Send(i)
    <2>1. PICK i \in Intents : Send(i)
      BY <1>10
    <2>2. /\ \A k \in DOMAIN log : log[k].intent # i
          /\ \A k \in DOMAIN chat.messages : chat.messages[k].intent # i
          /\ chat' = BeginSend(i) /\ UNCHANGED <<queue, more, told>>
      BY <2>1 DEF Send, pageVars
    <2>3. ChatIs(chat')
      BY <1>0, <2>2, BegunIs
    <2> QED BY <1>0, <1>3, <1>4, <2>2, <2>3
  <1>11. CASE \E i \in Intents : Retry(i) \/ PostFails(i)
    <2>1. PICK i \in Intents : Retry(i) \/ PostFails(i)
      BY <1>11
    <2>2. UNCHANGED <<queue, more, told>> /\ \E send \in SendState : chat' = MarkSend(i, send)
      BY <2>1 DEF Retry, PostFails, pageVars, SendState
    <2>3. ChatIs(chat')
      BY <1>0, <2>2, MarkStep DEF SameRows
    <2> QED BY <1>0, <1>3, <1>4, <2>2, <2>3
  <1>12. CASE Open
    <2>1. queue' = <<>> /\ more' = more /\ log' = log /\ told' = told \cup {wire[k] : k \in DOMAIN wire}
      BY <1>12 DEF Open, daemonVars
    <2>2. ChatIs(chat')
      BY <1>0, <1>12, OpenStep DEF SameRows
    <2>3. \A k \in DOMAIN wire : wire[k] \in 1..Len(log)
      <3>1. wire \in Seq(Nat) /\ Len(wire) \in Nat /\ DOMAIN wire = 1..Len(wire) /\ Len(wire) <= Len(log)
        BY DEF WireOK
      <3>2. \A k \in 1..Len(wire) : wire[k] = Len(log) - Len(wire) + k
        BY DEF WireOK
      <3> QED BY <1>0, <3>1, <3>2
    <2>4. told' \subseteq 1..Len(log')
      BY <1>0, <2>1, <2>3
    <2> QED BY <1>0, <1>2, <1>4, <2>1, <2>2, <2>4
  <1>13. CASE Receive
    <2>1. UNCHANGED <<more, told>> /\ wire # <<>> /\ FoldLiveEvent(Head(wire))
      BY <1>13 DEF Receive, pageVars
    <2>2. Head(wire) \in 1..Len(log)
      BY <2>1, HeadIs
    <2>3. ChatIs(chat') /\ queue' \in Seq(Nat) /\ Replies(queue')
      BY <2>1, <2>2, FoldIs
    <2> QED BY <1>0, <1>3, <1>4, <2>1, <2>3
  <1>14. CASE TypingDone
    <2>1. UNCHANGED <<more, told>>
      BY <1>14 DEF TypingDone, pageVars
    <2>2. ChatIs(chat') /\ queue' \in Seq(Nat) /\ Replies(queue')
      BY <1>14, TypedStep
    <2> QED BY <1>0, <1>3, <1>4, <2>1, <2>2
  <1>15. CASE \E k \in DOMAIN seeds : SeedLands(k)
    <2>1. PICK k \in DOMAIN seeds : SeedLands(k)
      BY <1>15
    <2>2. seeds[k] \in 0..Len(log) /\ chat' = SeedTail(seeds[k])
      BY <2>1, SeedLandsStep
    <2>3. ChatIs(chat')
      BY <1>0, <2>2, SeededIs
    <2>4. UNCHANGED <<queue, more>> /\ told' \subseteq told
      BY <2>1 DEF SeedLands
    <2> QED BY <1>0, <1>3, <1>4, <2>3, <2>4
  <1>16. CASE MoreLands
    <2>1. queue' = queue /\ log' = log /\ more # 0 /\ more' = 0
          /\ (UNCHANGED <<chat, told>> \/ (chat' = PrependPage(more - 1) /\ told' = told \cup 1..(more - 1)))
      BY <1>16 DEF MoreLands, daemonVars
    <2>2. more - 1 \in 0..Len(log)
      BY <1>0, <2>1
    <2>3. ChatIs(chat')
      BY <1>0, <2>1, <2>2, PagedIs
    <2>4. ASSUME NEW u \in told' PROVE u \in 1..Len(log')
      <3>1. u \in told \/ u \in 1..(more - 1)
        BY <2>1
      <3>2. Len(log) \in Nat /\ Len(log') = Len(log) /\ 1..(more - 1) \subseteq 1..Len(log)
        BY <1>0, <2>1, <2>2
      <3>3. told \subseteq 1..Len(log')
        BY <1>3
      <3> QED BY <3>1, <3>2, <3>3
    <2>5. more' \in 0..Len(log)
      BY <1>0, <2>1
    <2> QED BY <1>0, <1>4, <2>1, <2>3, <2>4, <2>5
  <1>17. CASE TrimHistory
    <2>1. UNCHANGED <<queue, more, told>> /\ Len(chat.messages) > TrimKeep /\ KeptIds # {} /\ chat' = TrimTail
      BY <1>17 DEF TrimHistory, pageVars
    <2>2. ChatIs(chat')
      BY <1>0, <2>1, TrimmedIs
    <2> QED BY <1>0, <1>3, <1>4, <2>1, <2>2
  <1>18. CASE Remount
    <2>1. queue' = <<>> /\ more' = 0 /\ UNCHANGED <<chat, told>>
      BY <1>18 DEF Remount
    <2> QED BY <1>0, <1>2, <1>3, <1>4, <2>1
  <1> QED BY <1>5, <1>6, <1>7, <1>8, <1>9, <1>10, <1>11, <1>12, <1>13, <1>14, <1>15, <1>16, <1>17, <1>18, StepKinds, Zenon
          DEF SessionStep

----------------------------------------------------------------------------
(* Steps while paging is in step with the rows.                             *)

\* Paging is in step, as the conditions of OutOfStep name it.
InOrder(c, q, rows, m) ==
    /\ \A u \in Shown(c) \cup Elems(q) : ~(u < c.cursor)
    /\ c.historyLoaded /\ c.cursor = 0 /\ Shown(c) \cup Elems(q) # {} => 1 \in Shown(c) \cup Elems(q)
    /\ m = 0 \/ m = c.cursor
    /\ c.historyLoaded \/ c.cursor = 0
    /\ ~(Len(c.messages) >= MaxMessages)
    /\ \A id \in DOMAIN rows : id < c.cursor => rows[id].intent \notin c.pendingIntents

\* What the chat and its queue hold, by their elements.
LEMMA HeldIs ==
    /\ ShownRows = Shown(chat) /\ Held = Shown(chat) \cup Elems(queue)
    /\ ShownRows' = Shown(chat') /\ Held' = Shown(chat') \cup Elems(queue')
  <1>1. ShownRows = Shown(chat)
    BY DEF ShownRows, Shown, Elems
  <1>2. ShownRows' = Shown(chat')
    BY DEF ShownRows, Shown, Elems
  <1>3. Held = Shown(chat) \cup Elems(queue)
    BY <1>1 DEF Held, Elems
  <1>4. Held' = Shown(chat') \cup Elems(queue')
    BY <1>2 DEF Held, Elems
  <1> QED BY <1>1, <1>2, <1>3, <1>4

\* The conditions of OutOfStep, before and after a step.
LEMMA OrderIs ==
    /\ ~OutOfStep => InOrder(chat, queue, log, more)
    /\ ~OutOfStep' => InOrder(chat', queue', log', more')
  <1>1. ASSUME ~OutOfStep PROVE InOrder(chat, queue, log, more)
    BY <1>1, HeldIs DEF OutOfStep, InOrder, RowBelowCursor, CursorLost, LoadOvertaken, TrimmedUnloaded, CapReached, EchoOutrun
  <1>2. ASSUME ~OutOfStep' PROVE InOrder(chat', queue', log', more')
    BY <1>2, HeldIs DEF OutOfStep, InOrder, RowBelowCursor, CursorLost, LoadOvertaken, TrimmedUnloaded, CapReached, EchoOutrun
  <1> QED BY <1>1, <1>2

\* What a step starts from, and where it must leave the chat's paging.
Calm ==
    /\ LogOK /\ WireOK /\ SeedsOK /\ ChatOK
    /\ Single /\ Stream /\ Covered
    /\ InOrder(chat, queue, log, more) /\ InOrder(chat', queue', log', more')

\* No step takes what can be reached out of reach.
Reached == \A u \in 1..Len(log) : InReach(chat, u) => InReach(chat', u)

\* The facts of the invariant that the steps below cite.
LEMMA CalmIs ==
    ASSUME Calm
    PROVE  /\ ChatIs(chat) /\ queue \in Seq(Nat) /\ Replies(queue) /\ more \in 0..Len(log) /\ told \subseteq 1..Len(log)
           /\ chat.cursor \in 0..Len(log) /\ Len(log) \in Nat /\ Len(log) <= MaxLog /\ Asked \in Nat /\ Asked > Len(log)
           /\ chat.shownIds \subseteq 1..Len(log) /\ Shown(chat) \subseteq 1..Len(log) /\ Elems(queue) \subseteq 1..Len(log)
           /\ phase \in {"down", "open"} /\ sawOpen \in BOOLEAN /\ seeded \in BOOLEAN
           /\ (phase = "open" => sawOpen) /\ (phase = "open" /\ queue # <<>> => live) /\ (~live => wire = <<>>)
           /\ seeds \in Seq(Nat) /\ retries \in Nat
           /\ ~(Len(chat'.messages) >= MaxMessages)
           /\ (Elems(queue) # {} => sawOpen)
  <1>1. /\ ChatIs(chat) /\ queue \in Seq(Nat) /\ Replies(queue) /\ more \in 0..Len(log) /\ told \subseteq 1..Len(log)
    BY DEF Calm, ChatOK, Replies
  <1>2. /\ chat.cursor \in 0..Len(log) /\ chat.shownIds \subseteq 1..Len(log)
    BY <1>1 DEF ChatIs
  <1>3. Len(log) \in Nat /\ Len(log) <= MaxLog /\ Asked \in Nat /\ Asked > Len(log)
    BY LogBound, BoundsOK DEF Calm, LogOK
  <1>4. Shown(chat) \subseteq chat.shownIds /\ Elems(queue) \subseteq chat.shownIds
    BY DEF Calm, Stream
  <1>5. /\ phase \in {"down", "open"} /\ sawOpen \in BOOLEAN /\ seeded \in BOOLEAN
        /\ (phase = "open" => sawOpen) /\ (phase = "open" /\ queue # <<>> => live) /\ (~live => wire = <<>>)
        /\ seeds \in Seq(Nat) /\ retries \in Nat
        /\ (~sawOpen => queue = <<>>)
    BY DEF Calm, WireOK, SeedsOK
  <1>6. ~(Len(chat'.messages) >= MaxMessages)
    BY DEF Calm, InOrder
  <1> QED BY <1>1, <1>2, <1>3, <1>4, <1>5, <1>6, ElemsEmpty

\* The cap has dropped nothing.
LEMMA CalmShort ==
    ASSUME Calm, ChatIs(chat')
    PROVE  Len(chat'.messages) < MaxMessages
  <1>1. Len(chat'.messages) \in Nat
    BY DEF ChatIs
  <1>2. MaxMessages \in Nat
    BY ChatAssumption
  <1> QED BY <1>1, <1>2, CalmIs

\* The chat shows what it did.
LEMMA QuietStep ==
    ASSUME Calm, OneEach(chat'), Shown(chat') = Shown(chat), chat'.shownIds = chat.shownIds, chat'.cursor = chat.cursor,
           log' = log, queue' = queue \/ queue' = <<>>, wire' = wire \/ wire' = <<>>,
           phase' = "open" /\ queue' # <<>> => wire' = wire /\ phase = "open"
    PROVE  Single' /\ Stream' /\ Reached
  <1>1. Reached
    BY DEF Reached, InReach
  <1>2. \A u : InReach(chat, u) <=> InReach(chat', u)
    BY DEF InReach
  <1>3. Elems(queue') \subseteq Elems(queue) /\ Elems(wire') \subseteq Elems(wire)
        /\ (1 \in Elems(queue') => queue' = queue /\ queue' # <<>>)
    BY ElemsEmpty
  <1>4. Stream
    BY DEF Calm
  <1>5. Shown(chat') \cup Elems(queue') \subseteq chat'.shownIds
    BY <1>3, <1>4 DEF Stream
  <1>6. phase' = "open" /\ 1 \in Elems(queue') =>
          \A u \in 1..Len(log') : InReach(chat', u) \/ u \in Elems(queue') \/ u \in Elems(wire')
    BY <1>2, <1>3, <1>4 DEF Stream
  <1>7. Stream'
    BY <1>2, <1>3, <1>4, <1>5, <1>6 DEF Stream
  <1> QED BY <1>1, <1>7 DEF Single

\* What was on its way still is, when the queue and the connection lose nothing.
LEMMA QuietCover ==
    ASSUME Calm, Reached, UNCHANGED <<told, sawOpen, seeds, retries, phase, seeded>>,
           sawOpen => \A u \in Elems(queue) \cup Elems(wire) : InReach(chat', u) \/ u \in Elems(queue') \/ u \in Elems(wire')
    PROVE  Covered'
  <1>1. told \subseteq 1..Len(log)
    BY CalmIs
  <1>2. \A u \in told : InReach(chat, u) => InReach(chat', u)
    BY <1>1 DEF Reached
  <1>3. \A u : Coming(u) <=> Coming(u)'
    BY DEF Coming
  <1>4. Covered
    BY DEF Calm
  <1>5. \A u \in told : OnItsWay(u)'
    BY <1>2, <1>3, <1>4 DEF Covered, OnItsWay
  <1>6. ~sawOpen => \A n \in Elems(seeds) : \A u \in told : u <= n \/ InReach(chat', u)
    BY <1>2, <1>4 DEF Covered
  <1> QED BY <1>5, <1>6 DEF Covered

\* A row that is written goes to the link, if the client was told of it.
LEMMA WrittenInStep ==
    ASSUME Calm, NEW e \in Entry, Written(e)
    PROVE  Single' /\ Stream' /\ Covered' /\ Reached
  <1>1. /\ UNCHANGED <<live, chat, queue, phase, seeds, retries, held, more, sawOpen, seeded>>
        /\ log' = Append(log, e)
        /\ wire' = (IF live THEN Append(wire, Len(log) + 1) ELSE wire)
        /\ told' = (IF live /\ sawOpen THEN told \cup {Len(log) + 1} ELSE told)
    BY DEF Written, Persist
  <1>2. /\ log \in Seq(Entry) /\ Len(log') = Len(log) + 1 /\ Len(log) \in Nat /\ wire \in Seq(Nat)
    BY <1>1 DEF Calm, LogOK, WireOK
  <1>3. Elems(wire) \subseteq Elems(wire') /\ (live => Len(log) + 1 \in Elems(wire'))
        /\ (\A u \in Elems(wire') : u \in Elems(wire) \/ u = Len(log) + 1)
    <2>1. CASE live
      <3>1. Elems(Append(wire, Len(log) + 1)) = Elems(wire) \cup {Len(log) + 1}
        BY <1>2, ElemsAppend
      <3> QED BY <1>1, <2>1, <3>1
    <2>2. CASE ~live
      BY <1>1, <2>2
    <2> QED BY <2>1, <2>2
  <1>4. Stream /\ Covered /\ Single
    BY DEF Calm
  <1>5. Reached
    BY <1>1 DEF Reached
  <1>6. Len(log) + 1 \notin chat.shownIds
    <2>1. Len(log) + 1 \notin 1..Len(log) /\ chat.shownIds \subseteq 1..Len(log)
      BY <1>2, CalmIs
    <2> QED BY <2>1
  <1>7. ASSUME phase' = "open", 1 \in Elems(queue'), NEW u \in 1..Len(log')
        PROVE  InReach(chat', u) \/ u \in Elems(queue') \/ u \in Elems(wire')
    <2>1. live
      BY <1>1, <1>7, CalmIs, ElemsEmpty
    <2>2. CASE u \in 1..Len(log)
      BY <1>1, <1>3, <1>4, <1>7, <2>2 DEF Stream
    <2>3. CASE u = Len(log) + 1
      BY <1>3, <2>1, <2>3
    <2>4. u \in 1..Len(log) \/ u = Len(log) + 1
      BY <1>2
    <2> QED BY <2>2, <2>3, <2>4
  <1>8. Stream'
    BY <1>1, <1>3, <1>4, <1>6, <1>7 DEF Stream
  <1>9. \A u : Coming(u) <=> Coming(u)'
    BY <1>1 DEF Coming
  <1>10. ASSUME NEW u \in told' PROVE OnItsWay(u)'
    <2>1. CASE u \in told
      BY <1>1, <1>3, <1>4, <1>9, <2>1 DEF Covered, OnItsWay
    <2>2. CASE u = Len(log) + 1 /\ live /\ sawOpen
      BY <1>1, <1>3, <2>2 DEF OnItsWay
    <2> QED BY <1>1, <2>1, <2>2
  <1>11. ~sawOpen' => \A n \in Elems(seeds') : \A u \in told' : u <= n \/ InReach(chat', u)
    BY <1>1, <1>4 DEF Covered
  <1>12. Covered'
    BY <1>10, <1>11 DEF Covered
  <1>13. Single'
    BY <1>1, <1>4 DEF Single, OneEach
  <1> QED BY <1>5, <1>8, <1>12, <1>13

\* Steps that change nothing of what the chat can reach or expects.
LEMMA UntouchedInStep ==
    ASSUME Calm, NotWritten \/ Subscribe \/ LoadMore
    PROVE  Single' /\ Stream' /\ Covered' /\ Reached
  <1>1. UNCHANGED <<log, chat, queue, phase, told, sawOpen, seeds, retries, seeded>>
    BY DEF NotWritten, Subscribe, LoadMore, daemonVars, pageVars
  <1>2. wire' = wire
    <2>1. NotWritten \/ LoadMore => wire' = wire
      BY DEF NotWritten, LoadMore, daemonVars
    <2>2. Subscribe => wire' = <<>> /\ ~live
      BY DEF Subscribe
    <2> QED BY <2>1, <2>2, CalmIs
  <1>3. OneEach(chat') /\ Shown(chat') = Shown(chat)
    BY <1>1 DEF Calm, Single
  <1>4. Single' /\ Stream' /\ Reached
    BY <1>1, <1>2, <1>3, QuietStep
  <1>5. Covered'
    BY <1>1, <1>2, <1>4, QuietCover
  <1> QED BY <1>4, <1>5

\* A send, a retry and a failure change bubbles only.
LEMMA BubbleInStep ==
    ASSUME Calm, NEW i \in Intents, Send(i) \/ Retry(i) \/ PostFails(i)
    PROVE  Single' /\ Stream' /\ Covered' /\ Reached
  <1>1. UNCHANGED <<log, wire, queue, phase, told, sawOpen, seeds, retries, seeded>>
    BY DEF Send, Retry, PostFails, daemonVars, pageVars
  <1>2. ChatIs(chat) /\ OneEach(chat) /\ LogOK
    BY CalmIs DEF Calm, Single
  <1>3. OneEach(chat') /\ Shown(chat') = Shown(chat) /\ chat'.shownIds = chat.shownIds /\ chat'.cursor = chat.cursor
    <2>1. CASE Retry(i) \/ PostFails(i)
      <3>1. \E send \in SendState : chat' = MarkSend(i, send)
        BY <2>1 DEF Retry, PostFails, SendState
      <3> QED BY <1>2, <3>1, MarkStep DEF SameRows
    <2>2. CASE Send(i)
      <3>1. /\ \A k \in DOMAIN log : log[k].intent # i
            /\ \A k \in DOMAIN chat.messages : chat.messages[k].intent # i
            /\ chat' = BeginSend(i)
        BY <2>2 DEF Send
      <3>2. /\ ChatIs(chat') /\ chat'.shownIds = chat.shownIds /\ chat'.cursor = chat.cursor
            /\ Len(chat'.messages) < MaxMessages => (OneEach(chat) => OneEach(chat')) /\ Shown(chat') = Shown(chat)
        BY <1>2, <3>1, BegunIs
      <3> QED BY <1>2, <3>2, CalmShort
    <2> QED BY <2>1, <2>2
  <1>4. Single' /\ Stream' /\ Reached
    BY <1>1, <1>3, QuietStep
  <1>5. Covered'
    BY <1>1, <1>4, QuietCover
  <1> QED BY <1>4, <1>5

\* A loss leaves the session down: a seed comes with the next open.
LEMMA LossInStep ==
    ASSUME Calm, SocketLost \/ DaemonRestart
    PROVE  Single' /\ Stream' /\ Covered' /\ Reached
  <1>1. UNCHANGED <<log, chat, queue, told, sawOpen, seeds, seeded>> /\ wire' = <<>> /\ phase' = "down" /\ ClearSeedRetry
    BY DEF SocketLost, DaemonRestart, pageVars
  <1>2. OneEach(chat') /\ Shown(chat') = Shown(chat)
    BY <1>1 DEF Calm, Single
  <1>3. Single' /\ Stream' /\ Reached
    BY <1>1, <1>2, QuietStep
  <1>4. told \subseteq 1..Len(log) /\ Covered /\ sawOpen \in BOOLEAN
    BY CalmIs DEF Calm
  <1>5. ASSUME NEW u \in told PROVE OnItsWay(u)'
    <2>1. CASE sawOpen
      BY <1>1, <2>1 DEF OnItsWay, Coming
    <2>2. CASE ~sawOpen
      <3>1. retries = 0 /\ phase = "down"
        BY <2>2, CalmIs DEF Calm, SeedsOK
      <3>2. InReach(chat, u) \/ Coming(u)
        BY <1>4, <2>2 DEF Covered, OnItsWay
      <3>3. ~(retries > 0)
        BY <3>1
      <3> QED BY <1>1, <3>1, <3>2, <3>3 DEF OnItsWay, Coming
    <2> QED BY <1>4, <2>1, <2>2
  <1>6. ~sawOpen' => \A n \in Elems(seeds') : \A u \in told' : u <= n \/ InReach(chat', u)
    BY <1>1, <1>4 DEF Covered
  <1> QED BY <1>1, <1>3, <1>5, <1>6 DEF Covered

\* A seed that is still to be read covers every row of now.
LEMMA AskedIn ==
    ASSUME Calm, seeds' = Append(seeds, Asked)
    PROVE  \A u \in 1..Len(log) : Coming(u)'
  <1>1. /\ seeds \in Seq(Nat) /\ Asked \in Nat /\ Asked > Len(log) /\ Len(log) \in Nat
    BY CalmIs
  <1>2. Elems(seeds') = Elems(seeds) \cup {Asked}
    BY <1>1, ElemsAppend
  <1>3. Asked \in Elems(seeds') /\ \A u \in 1..Len(log) : u <= Asked
    BY <1>1, <1>2
  <1> QED BY <1>3 DEF Coming

\* An open drops the queue and seeds, unless the first seed has brought all there was.
LEMMA OpenInStep ==
    ASSUME Calm, Open
    PROVE  Single' /\ Stream' /\ Covered' /\ Reached
  <1>1. /\ UNCHANGED <<log, wire, seeded>> /\ queue' = <<>> /\ phase = "down" /\ sawOpen' = TRUE
        /\ seeds' = (IF sawOpen \/ ~seeded THEN Append(seeds, Asked) ELSE seeds)
        /\ told' = told \cup Elems(wire)
    BY DEF Open, daemonVars, Elems
  <1>2. ChatIs(chat) /\ OneEach(chat)
    BY CalmIs DEF Calm, Single
  <1>3. OneEach(chat') /\ Shown(chat') = Shown(chat) /\ chat'.shownIds = chat.shownIds /\ chat'.cursor = chat.cursor
    BY <1>2, OpenStep DEF SameRows
  <1>4. Single' /\ Stream' /\ Reached
    BY <1>1, <1>3, QuietStep
  <1>5. told \subseteq 1..Len(log) /\ Covered /\ sawOpen \in BOOLEAN /\ seeded \in BOOLEAN
    BY CalmIs DEF Calm
  <1>6. ASSUME NEW u \in told PROVE OnItsWay(u)'
    <2>1. CASE sawOpen \/ ~seeded
      <3>1. Coming(u)'
        BY <1>1, <1>5, <2>1, AskedIn
      <3> QED BY <3>1 DEF OnItsWay
    <2>2. CASE ~sawOpen /\ seeded
      <3>1. retries = 0 /\ seeds = <<>>
        BY <2>2 DEF Calm, SeedsOK
      <3>2. ~(retries > 0) /\ Elems(seeds) = {}
        BY <3>1, ElemsEmpty
      <3>3. InReach(chat, u)
        BY <1>5, <2>2, <3>2 DEF Covered, OnItsWay, Coming
      <3> QED BY <1>4, <1>5, <3>3 DEF Reached, OnItsWay
    <2> QED BY <1>5, <2>1, <2>2
  <1>7. ASSUME NEW u \in Elems(wire) PROVE OnItsWay(u)'
    BY <1>1, <1>7 DEF OnItsWay
  <1>8. Covered'
    BY <1>1, <1>6, <1>7 DEF Covered
  <1> QED BY <1>4, <1>8

\* A reply or the user's row comes in.
LEMMA ReceiveInStep ==
    ASSUME Calm, Receive
    PROVE  Single' /\ Stream' /\ Covered' /\ Reached
  <1> DEFINE h == Head(wire)
  <1>1. /\ UNCHANGED <<log, phase, told, sawOpen, seeds, retries, seeded>> /\ wire' = Tail(wire) /\ phase = "open"
        /\ wire # <<>> /\ FoldLiveEvent(h)
    BY DEF Receive, pageVars
  <1>2. LogOK /\ WireOK /\ ChatOK /\ Single /\ Stream
    BY DEF Calm
  <1>3. /\ h \in 1..Len(log) /\ h \in Elems(wire)
        /\ Elems(wire) = {h} \cup Elems(Tail(wire)) /\ h \notin Elems(Tail(wire))
        /\ (h = 1 => \A u \in 1..Len(log) : u \in Elems(wire))
    BY <1>1, <1>2, HeadIs
  <1> HIDE DEF h
  <1>4. /\ ChatIs(chat')
        /\ chat'.shownIds = chat.shownIds \cup {h} /\ chat'.cursor = chat.cursor
        /\ Elems(queue') \subseteq Elems(queue) \cup {h} /\ Elems(queue) \subseteq Elems(queue')
        /\ Len(chat'.messages) < MaxMessages /\ OneEach(chat) /\ Shown(chat) \subseteq chat.shownIds =>
             /\ OneEach(chat')
             /\ Shown(chat) \subseteq Shown(chat') /\ Shown(chat') \subseteq Shown(chat) \cup {h}
             /\ (h \in chat.shownIds /\ chat' = chat) \/ h \in Shown(chat') \/ h \in Elems(queue')
    BY <1>1, <1>2, <1>3, FoldIs
  <1>5. Len(chat'.messages) < MaxMessages
    BY <1>4, CalmShort
  <1>6. Shown(chat) \cup Elems(queue) \subseteq chat.shownIds
    BY <1>2 DEF Stream
  <1>7. /\ OneEach(chat')
        /\ Shown(chat) \subseteq Shown(chat') /\ Shown(chat') \subseteq Shown(chat) \cup {h}
        /\ (h \in chat.shownIds /\ chat' = chat) \/ h \in Shown(chat') \/ h \in Elems(queue')
    BY <1>2, <1>4, <1>5, <1>6 DEF Single
  <1>8. \A u : InReach(chat, u) => InReach(chat', u)
    BY <1>4, <1>7 DEF InReach
  <1>9. InReach(chat', h) \/ h \in Elems(queue')
    <2>1. h \in chat.shownIds => InReach(chat, h)
      BY <1>2, <1>3 DEF Stream
    <2> QED BY <1>7, <1>8, <2>1 DEF InReach
  <1>10. Shown(chat') \cup Elems(queue') \subseteq chat'.shownIds
    BY <1>4, <1>6, <1>7
  <1>11. chat'.cursor # 0 => chat'.cursor \in Shown(chat')
    BY <1>2, <1>4, <1>7 DEF Stream
  <1>12. ASSUME NEW u \in Elems(wire'), u \in chat'.shownIds PROVE InReach(chat', u)
    <2>1. u \in Elems(wire) /\ u # h
      BY <1>1, <1>3
    <2> QED BY <1>2, <1>4, <1>8, <1>12, <2>1 DEF Stream
  <1>13. ASSUME 1 \in Elems(queue'), NEW u \in 1..Len(log) PROVE InReach(chat', u) \/ u \in Elems(queue') \/ u \in Elems(wire')
    <2>1. InReach(chat, u) \/ u \in Elems(queue) \/ u \in Elems(wire)
      <3>1. CASE 1 \in Elems(queue)
        BY <1>1, <1>2, <3>1 DEF Stream
      <3>2. CASE h = 1
        BY <1>3, <3>2
      <3> QED BY <1>4, <1>13, <3>1, <3>2
    <2> QED BY <1>1, <1>3, <1>4, <1>8, <1>9, <2>1
  <1>14. Stream'
    BY <1>1, <1>10, <1>11, <1>12, <1>13 DEF Stream
  <1>15. Reached
    BY <1>8 DEF Reached
  <1>16. \A u \in Elems(queue) \cup Elems(wire) : InReach(chat', u) \/ u \in Elems(queue') \/ u \in Elems(wire')
    BY <1>1, <1>3, <1>4, <1>9
  <1>17. Covered'
    BY <1>1, <1>15, <1>16, QuietCover
  <1> QED BY <1>7, <1>14, <1>15, <1>17 DEF Single

\* A reply is typed out.
LEMMA TypedInStep ==
    ASSUME Calm, TypingDone
    PROVE  Single' /\ Stream' /\ Covered' /\ Reached
  <1>1. UNCHANGED <<log, wire, phase, told, sawOpen, seeds, retries, seeded>>
    BY DEF TypingDone, daemonVars, pageVars
  <1>2. LogOK /\ ChatOK /\ Single /\ Stream
    BY DEF Calm
  <1>3. PICK D \in SUBSET (1..Len(log)) :
          /\ D \cup Elems(queue') = Elems(queue) /\ ChatIs(chat')
          /\ chat'.shownIds = chat.shownIds /\ chat'.cursor = chat.cursor
          /\ Len(chat'.messages) < MaxMessages =>
               Shown(chat') = Shown(chat) \cup D /\ (OneEach(chat) => OneEach(chat'))
    BY <1>2, TypedStep
  <1>4. Shown(chat') = Shown(chat) \cup D /\ OneEach(chat')
    BY <1>2, <1>3, CalmShort DEF Single
  <1>5. \A u : InReach(chat, u) => InReach(chat', u)
    BY <1>3, <1>4 DEF InReach
  <1>6. Reached
    BY <1>5 DEF Reached
  <1>7. \A u \in Elems(queue) : InReach(chat', u) \/ u \in Elems(queue')
    BY <1>3, <1>4 DEF InReach
  <1>8. Shown(chat') \cup Elems(queue') \subseteq chat'.shownIds
    BY <1>2, <1>3, <1>4 DEF Stream
  <1>9. chat'.cursor # 0 => chat'.cursor \in Shown(chat')
    BY <1>2, <1>3, <1>4 DEF Stream
  <1>10. \A u \in Elems(wire') : u \in chat'.shownIds => InReach(chat', u)
    BY <1>1, <1>2, <1>3, <1>5 DEF Stream
  <1>11. phase' = "open" /\ 1 \in Elems(queue') =>
           \A u \in 1..Len(log') : InReach(chat', u) \/ u \in Elems(queue') \/ u \in Elems(wire')
    <2>1. Elems(queue') \subseteq Elems(queue)
      BY <1>3
    <2> QED BY <1>1, <1>2, <1>5, <1>7, <2>1 DEF Stream
  <1>12. Stream'
    BY <1>8, <1>9, <1>10, <1>11 DEF Stream
  <1>13. Covered'
    BY <1>1, <1>6, <1>7, QuietCover
  <1> QED BY <1>4, <1>6, <1>12, <1>13 DEF Single

\* A seed is read, fails or is asked for again; a session is created anew.
LEMMA SeedReadInStep ==
    ASSUME Calm, NEW k \in DOMAIN seeds, SeedReads(k)
    PROVE  Single' /\ Stream' /\ Covered' /\ Reached
  <1>1. /\ UNCHANGED <<log, wire, chat, queue, phase, retries, sawOpen, seeded>>
        /\ seeds' = [seeds EXCEPT ![k] = Len(log)] /\ told' = told \cup DOMAIN log
    BY DEF SeedReads, daemonVars
  <1>2. OneEach(chat') /\ Shown(chat') = Shown(chat)
    BY <1>1 DEF Calm, Single
  <1>3. Single' /\ Stream' /\ Reached
    BY <1>1, <1>2, QuietStep
  <1>4. told' \subseteq 1..Len(log) /\ Len(log) \in Nat /\ seeds \in Seq(Nat)
    <2>1. DOMAIN log = 1..Len(log)
      BY DEF Calm, LogOK
    <2> QED BY <1>1, <2>1, CalmIs
  <1>5. DOMAIN seeds' = DOMAIN seeds /\ seeds'[k] = Len(log) /\ DOMAIN seeds = 1..Len(seeds) /\ Len(seeds) \in Nat
    BY <1>1, <1>4
  <1>6. Len(log) \in Elems(seeds')
    BY <1>5 DEF Elems
  <1>7. \A u \in told' : u <= Len(log)
    BY <1>4
  <1>8. \A u \in told' : OnItsWay(u)'
    BY <1>6, <1>7 DEF OnItsWay, Coming
  <1>9. ASSUME ~sawOpen', NEW n \in Elems(seeds') PROVE n = Len(log)
    <2>1. Len(seeds) <= 1
      BY <1>1, <1>9 DEF Calm, SeedsOK
    <2>2. PICK l \in DOMAIN seeds' : n = seeds'[l]
      BY DEF Elems
    <2>3. l = k
      BY <1>5, <2>1, <2>2
    <2> QED BY <1>5, <2>2, <2>3
  <1>10. Covered'
    BY <1>7, <1>8, <1>9 DEF Covered
  <1> QED BY <1>3, <1>10

\* Before the first open the only seed is the one that ends.
LEMMA DropLast ==
    ASSUME Calm, NEW k \in DOMAIN seeds, ~sawOpen
    PROVE  Elems(Drop(k)) = {} /\ ~seeded /\ phase = "down"
  <1>1. seeds \in Seq(Nat) /\ Len(seeds) <= 1 /\ (seeded => seeds = <<>>)
    BY DEF Calm, SeedsOK
  <1>2. Drop(k) \in Seq(Nat) /\ Len(Drop(k)) = Len(seeds) - 1 /\ Len(seeds) >= 1
    BY <1>1, DropIs
  <1>3. Len(Drop(k)) = 0 /\ seeds # <<>>
    BY <1>1, <1>2
  <1>4. Drop(k) = <<>>
    BY <1>2, <1>3
  <1>5. phase = "down"
    BY CalmIs
  <1> QED BY <1>1, <1>3, <1>4, <1>5, ElemsEmpty

\* A seed that fails while open arms a retry; while down, the next open seeds.
LEMMA SeedFailsInStep ==
    ASSUME Calm, NEW k \in DOMAIN seeds, SeedFails(k)
    PROVE  Single' /\ Stream' /\ Covered' /\ Reached
  <1>1. /\ UNCHANGED <<log, wire, chat, queue, phase, sawOpen, seeded, told>>
        /\ seeds' = Drop(k) /\ retries' = (IF phase = "open" THEN retries + 1 ELSE retries)
    BY DEF SeedFails, daemonVars
  <1>2. OneEach(chat') /\ Shown(chat') = Shown(chat)
    BY <1>1 DEF Calm, Single
  <1>3. Single' /\ Stream' /\ Reached
    BY <1>1, <1>2, QuietStep
  <1>4. retries \in Nat /\ phase \in {"down", "open"} /\ sawOpen \in BOOLEAN
    BY CalmIs
  <1>5. ASSUME NEW u PROVE Coming(u)'
    <2>1. CASE phase = "open"
      <3>1. retries' > 0
        BY <1>1, <1>4, <2>1
      <3> QED BY <3>1 DEF Coming
    <2>2. CASE phase = "down" /\ sawOpen
      BY <1>1, <2>2 DEF Coming
    <2>3. CASE ~sawOpen
      BY <1>1, <2>3, DropLast DEF Coming
    <2> QED BY <1>4, <2>1, <2>2, <2>3
  <1>6. ~sawOpen' => Elems(seeds') = {}
    BY <1>1, DropLast
  <1>7. Covered'
    BY <1>5, <1>6 DEF Covered, OnItsWay
  <1> QED BY <1>3, <1>7

\* A retry seeds again.
LEMMA SeedRetryInStep ==
    ASSUME Calm, SeedRetry
    PROVE  Single' /\ Stream' /\ Covered' /\ Reached
  <1>1. /\ UNCHANGED <<log, wire, chat, queue, phase, sawOpen, seeded, told>>
        /\ seeds' = Append(seeds, Asked) /\ retries > 0
    BY DEF SeedRetry, daemonVars
  <1>2. OneEach(chat') /\ Shown(chat') = Shown(chat)
    BY <1>1 DEF Calm, Single
  <1>3. Single' /\ Stream' /\ Reached
    BY <1>1, <1>2, QuietStep
  <1>4. told \subseteq 1..Len(log)
    BY CalmIs
  <1>5. \A u \in told' : OnItsWay(u)'
    BY <1>1, <1>4, AskedIn DEF OnItsWay
  <1>6. sawOpen'
    BY <1>1 DEF Calm, SeedsOK
  <1> QED BY <1>3, <1>5, <1>6 DEF Covered

\* A new session seeds anew.
LEMMA RemountInStep ==
    ASSUME Calm, Remount
    PROVE  Single' /\ Stream' /\ Covered' /\ Reached
  <1>1. /\ UNCHANGED <<log, chat, told>> /\ queue' = <<>> /\ phase' = "down" /\ wire' = <<>>
        /\ seeds' = <<Asked>> /\ seeded' = FALSE
    BY DEF Remount
  <1>2. OneEach(chat') /\ Shown(chat') = Shown(chat)
    BY <1>1 DEF Calm, Single
  <1>3. Single' /\ Stream' /\ Reached
    BY <1>1, <1>2, QuietStep
  <1>4. told \subseteq 1..Len(log) /\ Asked > Len(log) /\ Asked \in Nat /\ Len(log) \in Nat
    BY CalmIs
  <1>5. \A u \in told' : OnItsWay(u)'
    BY <1>1 DEF OnItsWay, Coming
  <1>6. \A n \in Elems(seeds') : n = Asked
    BY <1>1 DEF Elems
  <1>7. \A u \in told' : u <= Asked
    BY <1>1, <1>4
  <1> QED BY <1>3, <1>5, <1>6, <1>7 DEF Covered

\* Where a row with an id stands to a page.
LEMMA SeedRows ==
    ASSUME LogOK, ChatIs(chat), OneEach(chat), NEW n \in 0..Len(log), NEW a \in Elems(chat.messages), a.id # 0
    PROVE  /\ a.id \in 1..Len(log)
           /\ a \in Olds(n) <=> n > 0 /\ a.id < PageFrom(n)
           /\ a \in News(n) <=> n = 0 \/ a.id > n
           /\ a \in Olds(n) \/ a.id \in PageIds(n) \/ a \in News(n)
  <1>1. a \in Row /\ a.id <= Len(log)
    BY DEF ChatIs, RowOK
  <1>2. a.id \in 1..Len(log) /\ Len(log) \in Nat /\ n \in Nat
    BY <1>1, BoundsOK DEF Row, LogOK
  <1>3. ~IsPending(a)
    BY DEF OneEach, IsPending
  <1>4. ~Folded(a, n)
    BY <1>3 DEF Folded
  <1>5. a \in Olds(n) <=> n > 0 /\ a.id < PageFrom(n)
    BY <1>4 DEF Olds, IsOlder
  <1>6. a \in News(n) <=> n = 0 \/ a.id > n
    BY <1>4 DEF News, IsNewer
  <1>7. PageFrom(n) \in 1..(n + 1) /\ PageIds(n) = PageFrom(n)..n
    BY PageBounds
  <1>8. ASSUME ~(n = 0 \/ a.id > n), ~(n > 0 /\ a.id < PageFrom(n)) PROVE a.id \in PageFrom(n)..n
    BY <1>2, <1>7, <1>8
  <1> QED BY <1>2, <1>5, <1>6, <1>7, <1>8

\* What a seed shows, and what it drops.
LEMMA SeedShows ==
    ASSUME Calm, NEW n \in 0..Len(log), chat' = SeedTail(n)
    PROVE  /\ OneEach(chat') /\ chat'.shownIds = chat.shownIds \cup PageIds(n)
           /\ PageIds(n) \subseteq Shown(chat') /\ Shown(chat') \subseteq Shown(chat) \cup PageIds(n)
           /\ (chat.historyLoaded /\ chat'.cursor = chat.cursor /\ Shown(chat) \subseteq Shown(chat')
                 /\ (Olds(n) = {} \/ Overlaps(n)))
              \/ (~chat.historyLoaded /\ chat.cursor = 0 /\ chat'.cursor = PageCursor(n) /\ Shown(chat) \subseteq Shown(chat'))
              \/ (chat'.cursor = PageCursor(n) /\ Olds(n) # {}
                    /\ \A u \in Shown(chat) : u \in Shown(chat') \/ u < PageFrom(n))
           /\ \A u \in Shown(chat') : u \in PageIds(n) \/ n = 0 \/ u > n \/ \E a \in Olds(n) : a.id = u
           /\ chat'.historyLoaded = TRUE
  <1>1. LogOK /\ ChatIs(chat) /\ OneEach(chat) /\ Len(log) \in Nat /\ chat.historyLoaded \in BOOLEAN
    BY CalmIs DEF Calm, Single, ChatIs
  <1>2. /\ ChatIs(chat')
        /\ chat'.shownIds = chat.shownIds \cup PageIds(n)
        /\ chat'.cursor = (IF Joined(n) /\ chat.historyLoaded THEN chat.cursor ELSE PageCursor(n))
        /\ chat'.historyLoaded = TRUE
        /\ (Joined(n) <=> Olds(n) = {} \/ Overlaps(n))
        /\ Len(chat'.messages) < MaxMessages =>
             /\ Elems(chat'.messages) = (IF Joined(n) THEN Olds(n) ELSE {}) \cup PageRows(n) \cup News(n)
             /\ OneEach(chat) => OneEach(chat')
    BY <1>1, SeededIs
  <1>3. /\ Elems(chat'.messages) = (IF Joined(n) THEN Olds(n) ELSE {}) \cup PageRows(n) \cup News(n)
        /\ OneEach(chat')
    BY <1>1, <1>2, CalmShort
  <1>4. PageIds(n) \subseteq 1..Len(log) /\ \A id \in PageIds(n) : Event(id).id = id
    BY <1>1, PageBounds, EventIs
  <1>5. \A id \in PageIds(n) : id \in Nat /\ id # 0
    BY <1>1, <1>4
  <1>6. PageIds(n) \subseteq Shown(chat')
    <2>1. ASSUME NEW id \in PageIds(n) PROVE Event(id) \in Elems(chat'.messages)
      BY <1>3 DEF PageRows
    <2> QED BY <1>4, <1>5, <2>1 DEF Shown
  <1>7. \A a \in Elems(chat.messages) : a.id # 0 =>
          /\ a.id \in 1..Len(log)
          /\ a \in Olds(n) <=> n > 0 /\ a.id < PageFrom(n)
          /\ a \in News(n) <=> n = 0 \/ a.id > n
          /\ a \in Olds(n) \/ a.id \in PageIds(n) \/ a \in News(n)
    BY <1>1, SeedRows
  <1>8. Olds(n) \subseteq Elems(chat.messages) /\ News(n) \subseteq Elems(chat.messages)
    BY DEF Olds, News
  <1>9. ASSUME NEW u \in Shown(chat')
        PROVE  /\ u \in Shown(chat) \cup PageIds(n)
               /\ u \in PageIds(n) \/ n = 0 \/ u > n \/ \E a \in Olds(n) : a.id = u
    <2>1. PICK b \in Elems(chat'.messages) : b.id = u /\ u # 0
      BY DEF Shown
    <2>2. CASE b \in PageRows(n)
      BY <1>4, <2>1, <2>2 DEF PageRows
    <2>3. CASE b \in Olds(n)
      BY <1>8, <2>1, <2>3 DEF Shown
    <2>4. CASE b \in News(n)
      BY <1>7, <1>8, <2>1, <2>4 DEF Shown
    <2> QED BY <1>3, <2>2, <2>3, <2>4
  <1>10. ASSUME NEW u \in Shown(chat)
         PROVE  u \in Shown(chat') \/ (~Joined(n) /\ u < PageFrom(n))
    <2>1. PICK a \in Elems(chat.messages) : a.id = u /\ u # 0
      BY DEF Shown
    <2>2. CASE a \in Olds(n)
      <3>1. CASE Joined(n)
        BY <1>3, <2>1, <2>2, <3>1 DEF Shown
      <3>2. CASE ~Joined(n)
        BY <1>7, <2>1, <2>2, <3>2
      <3> QED BY <3>1, <3>2
    <2>3. CASE u \in PageIds(n)
      BY <1>6, <2>3
    <2>4. CASE a \in News(n)
      BY <1>3, <2>1, <2>4 DEF Shown
    <2> QED BY <1>7, <2>1, <2>2, <2>3, <2>4
  <1>11. ~chat.historyLoaded => chat.cursor = 0
    BY DEF Calm, InOrder
  <1>12. CASE Joined(n) /\ chat.historyLoaded
    BY <1>2, <1>3, <1>6, <1>9, <1>10, <1>12
  <1>13. CASE Joined(n) /\ ~chat.historyLoaded
    BY <1>2, <1>3, <1>6, <1>9, <1>10, <1>11, <1>13
  <1>14. CASE ~Joined(n)
    BY <1>2, <1>3, <1>6, <1>9, <1>10, <1>14
  <1> QED BY <1>1, <1>12, <1>13, <1>14

\* A page that comes in, at the tail or below: what it shows was noted, what was
\* noted is still in reach.
LEMMA PageStream ==
    ASSUME Calm, Reached, NEW n \in 0..Len(log), UNCHANGED <<log, wire, queue, phase>>,
           chat'.shownIds = chat.shownIds \cup PageIds(n),
           PageIds(n) \subseteq Shown(chat'), Shown(chat') \subseteq Shown(chat) \cup PageIds(n),
           chat'.cursor # 0 => chat'.cursor \in Shown(chat')
    PROVE  Stream'
  <1>1. Stream /\ WireOK /\ LogOK /\ Len(log) \in Nat
    BY CalmIs DEF Calm
  <1>2. \A u \in 1..Len(log) : InReach(chat, u) => InReach(chat', u)
    BY DEF Reached
  <1>3. Shown(chat') \cup Elems(queue') \subseteq chat'.shownIds
    BY <1>1 DEF Stream
  <1>4. Elems(wire) \subseteq 1..Len(log)
    <2>1. wire \in Seq(Nat) /\ Len(wire) <= Len(log) /\ \A k \in 1..Len(wire) : wire[k] = Len(log) - Len(wire) + k
      BY <1>1 DEF WireOK
    <2>2. DOMAIN wire = 1..Len(wire) /\ Len(wire) \in Nat
      BY <2>1
    <2>3. \A k \in 1..Len(wire) : wire[k] \in 1..Len(log)
      BY <1>1, <2>1, <2>2
    <2> QED BY <2>2, <2>3 DEF Elems
  <1>5. ASSUME NEW u \in Elems(wire'), u \in chat'.shownIds PROVE InReach(chat', u)
    <2>1. u \in Elems(wire) /\ u \in 1..Len(log)
      BY <1>4, <1>5
    <2>2. CASE u \in PageIds(n)
      BY <2>2 DEF InReach
    <2>3. CASE u \in chat.shownIds
      BY <1>1, <1>2, <2>1, <2>3 DEF Stream
    <2> QED BY <1>5, <2>2, <2>3
  <1>6. phase' = "open" /\ 1 \in Elems(queue') =>
          \A u \in 1..Len(log') : InReach(chat', u) \/ u \in Elems(queue') \/ u \in Elems(wire')
    BY <1>1, <1>2 DEF Stream
  <1> QED BY <1>1, <1>3, <1>5, <1>6 DEF Stream

\* A seed that lands brings what it had read: in its page, below the cursor it sets,
\* or among the rows it joined, but for the hole they leave.
LEMMA SeedLandsInStep ==
    ASSUME Calm, NEW k \in DOMAIN seeds, SeedLands(k)
    PROVE  Single' /\ Stream' /\ Covered' /\ Reached
  <1> DEFINE n == seeds[k]
  <1>1. /\ UNCHANGED <<log, wire, queue, phase, retries, sawOpen>>
        /\ seeds' = Drop(k) /\ seeded' = TRUE /\ told' = told \ Hole(n)
    BY DEF SeedLands, daemonVars
  <1>2. n \in 0..Len(log) /\ n \in Elems(seeds) /\ chat' = SeedTail(n) /\ n # Asked
    BY SeedLandsStep DEF Calm, SeedLands
  <1>3. LogOK /\ ChatIs(chat) /\ OneEach(chat) /\ Stream /\ Covered /\ Len(log) \in Nat /\ n \in Nat
    BY <1>2, CalmIs DEF Calm, Single
  <1>4. ASSUME Olds(n) # {}, Overlaps(n), NEW u \in 1..(PageFrom(n) - 1), u \notin Hole(n)
        PROVE  u \in Held \/ ~(u >= chat.cursor)
    <2>1. Older(n) # <<>> <=> Olds(n) # {}
      <3>1. Older(n) \in Seq(Row) /\ Elems(Older(n)) = Olds(n)
        BY <1>3, PartsAre
      <3> QED BY <3>1, ElemsIn
    <2> QED BY <1>4, <2>1 DEF Hole
  <1> HIDE DEF n
  <1>5. /\ OneEach(chat') /\ chat'.shownIds = chat.shownIds \cup PageIds(n)
        /\ PageIds(n) \subseteq Shown(chat') /\ Shown(chat') \subseteq Shown(chat) \cup PageIds(n)
        /\ (chat.historyLoaded /\ chat'.cursor = chat.cursor /\ Shown(chat) \subseteq Shown(chat')
              /\ (Olds(n) = {} \/ Overlaps(n)))
           \/ (~chat.historyLoaded /\ chat.cursor = 0 /\ chat'.cursor = PageCursor(n) /\ Shown(chat) \subseteq Shown(chat'))
           \/ (chat'.cursor = PageCursor(n) /\ Olds(n) # {}
                 /\ \A u \in Shown(chat) : u \in Shown(chat') \/ u < PageFrom(n))
        /\ \A u \in Shown(chat') : u \in PageIds(n) \/ n = 0 \/ u > n \/ \E a \in Olds(n) : a.id = u
        /\ chat'.historyLoaded = TRUE
    BY <1>2, SeedShows
  <1>6. /\ PageFrom(n) \in 1..(n + 1) /\ PageIds(n) = PageFrom(n)..n
        /\ PageFrom(n) > 1 => PageCursor(n) = PageFrom(n) /\ PageFrom(n) \in PageIds(n)
        /\ PageFrom(n) = 1 => PageCursor(n) = 0
    BY <1>2, <1>3, PageBounds
  <1>7. \A a \in Elems(chat.messages) : a.id # 0 =>
          /\ a.id \in 1..Len(log)
          /\ a \in Olds(n) <=> n > 0 /\ a.id < PageFrom(n)
    BY <1>2, <1>3, SeedRows
  <1>8. /\ chat.cursor \in 0..Len(log) /\ Shown(chat) \subseteq 1..Len(log)
        /\ \A u \in Shown(chat) : ~(u < chat.cursor)
    BY CalmIs DEF Calm, InOrder
  <1>9. ASSUME Olds(n) # {} PROVE PageFrom(n) > 1 /\ chat.cursor < PageFrom(n)
    <2>1. PICK a \in Olds(n) : TRUE
      BY <1>9
    <2>2. a \in Elems(chat.messages) /\ a.id # 0 /\ a.id < PageFrom(n)
      BY DEF Olds, IsOlder
    <2>3. a.id \in 1..Len(log) /\ ~(a.id < chat.cursor)
      BY <1>7, <1>8, <2>2 DEF Shown
    <2> QED BY <1>3, <1>6, <1>8, <2>2, <2>3
  <1>10. Reached
    <2>1. ASSUME NEW u \in 1..Len(log), InReach(chat, u) PROVE InReach(chat', u)
      <3>1. u \in Shown(chat) \/ u < chat.cursor
        BY <2>1 DEF InReach
      <3>2. ~(u < 0)
        OBVIOUS
      <3>3. CASE Shown(chat) \subseteq Shown(chat') /\ (chat'.cursor = chat.cursor \/ chat.cursor = 0)
        BY <3>1, <3>2, <3>3 DEF InReach
      <3>4. CASE chat'.cursor = PageCursor(n) /\ Olds(n) # {} /\ \A v \in Shown(chat) : v \in Shown(chat') \/ v < PageFrom(n)
        <4>1. chat'.cursor = PageFrom(n) /\ chat.cursor < PageFrom(n)
          BY <1>6, <1>9, <3>4
        <4>2. u \in Shown(chat') \/ u < PageFrom(n)
          BY <1>3, <1>6, <1>8, <3>1, <3>4, <4>1
        <4> QED BY <4>1, <4>2 DEF InReach
      <3> QED BY <1>5, <3>3, <3>4
    <2> QED BY <2>1 DEF Reached
  <1>11. chat'.cursor # 0 => chat'.cursor \in Shown(chat')
    <2>1. chat.cursor # 0 => chat.cursor \in Shown(chat)
      BY <1>3 DEF Stream
    <2>2. PageCursor(n) # 0 => PageCursor(n) \in PageIds(n)
      BY <1>3, <1>6
    <2> QED BY <1>5, <2>1, <2>2
  <1>12. Stream'
    BY <1>1, <1>2, <1>5, <1>10, <1>11, PageStream
  <1>13. sawOpen \in BOOLEAN /\ phase \in {"down", "open"} /\ told \subseteq 1..Len(log) /\ (Elems(queue) # {} => sawOpen)
    BY CalmIs
  \* What the seed had read when it lands.
  <1>14. ASSUME NEW u \in 1..Len(log), u <= n, u \notin Hole(n) PROVE OnItsWay(u)'
    <2>1. CASE u \in PageIds(n)
      BY <1>5, <2>1 DEF OnItsWay, InReach
    <2>2. CASE u < PageFrom(n) /\ chat'.cursor = PageCursor(n)
      <3>1. PageFrom(n) > 1
        BY <1>6, <2>2
      <3> QED BY <1>6, <2>2, <3>1 DEF OnItsWay, InReach
    <2>3. CASE u < PageFrom(n) /\ Olds(n) # {} /\ Overlaps(n)
      <3>1. u \in 1..(PageFrom(n) - 1)
        BY <1>6, <2>3
      <3>2. u \in Held \/ ~(u >= chat.cursor)
        BY <1>4, <1>14, <2>3, <3>1
      <3>3. u \in Shown(chat) \/ u \in Elems(queue) \/ u < chat.cursor
        BY <1>8, <3>2, HeldIs
      <3>4. CASE u \in Elems(queue)
        BY <1>1, <1>13, <3>4 DEF OnItsWay
      <3>5. CASE InReach(chat, u)
        BY <1>10, <3>5 DEF Reached, OnItsWay
      <3> QED BY <3>3, <3>4, <3>5 DEF InReach
    <2>4. CASE u < PageFrom(n) /\ Olds(n) = {} /\ chat'.cursor = chat.cursor /\ chat.cursor # 0
      <3>1. chat.cursor \in Shown(chat)
        BY <1>3, <2>4 DEF Stream
      <3>2. PICK a \in Elems(chat.messages) : a.id = chat.cursor
        BY <3>1 DEF Shown
      <3>3. n > 0
        BY <1>3, <1>14
      <3>4. ~(chat.cursor < PageFrom(n))
        BY <1>7, <2>4, <3>2, <3>3
      <3>5. u < chat'.cursor
        BY <1>6, <1>8, <2>4, <3>4
      <3> QED BY <3>5 DEF OnItsWay, InReach
    <2>5. CASE u < PageFrom(n) /\ Olds(n) = {} /\ chat'.cursor = 0
      <3>1. Shown(chat') # {}
        <4>1. n \in PageIds(n)
          BY <1>3, <1>6, <1>14, <2>5
        <4> QED BY <1>5, <4>1
      <3>2. 1 \in Shown(chat') \cup Elems(queue')
        BY <1>5, <2>5, <3>1 DEF Calm, InOrder
      <3>3. 1 \notin Shown(chat')
        <4>1. 1 \notin PageIds(n) /\ n # 0 /\ ~(1 > n)
          BY <1>3, <1>6, <1>14, <2>5
        <4> QED BY <1>5, <2>5, <4>1
      <3>4. 1 \in Elems(queue) /\ sawOpen
        BY <1>1, <1>13, <3>2, <3>3
      <3>5. CASE phase = "down"
        BY <1>1, <3>4, <3>5 DEF OnItsWay, Coming
      <3>6. CASE phase = "open"
        <4>1. InReach(chat, u) \/ u \in Elems(queue) \/ u \in Elems(wire)
          BY <1>3, <3>4, <3>6 DEF Stream
        <4>2. InReach(chat, u) => InReach(chat', u)
          BY <1>10 DEF Reached
        <4> QED BY <1>1, <3>4, <4>1, <4>2 DEF OnItsWay
      <3> QED BY <1>13, <3>5, <3>6
    <2>6. u \in PageIds(n) \/ u < PageFrom(n)
      BY <1>3, <1>6, <1>14
    <2> QED BY <1>5, <2>1, <2>2, <2>3, <2>4, <2>5, <2>6
  <1>15. ASSUME NEW u \in told' PROVE OnItsWay(u)'
    <2>0. u \in told /\ u \in 1..Len(log) /\ u \notin Hole(n)
      BY <1>1, <1>13
    <2>1. CASE InReach(chat, u)
      BY <1>10, <2>0, <2>1 DEF Reached, OnItsWay
    <2>2. CASE sawOpen /\ (u \in Elems(queue) \/ u \in Elems(wire))
      BY <1>1, <2>2 DEF OnItsWay
    <2>3. CASE \E m \in Elems(seeds) : u <= m
      <3>1. PICK m \in Elems(seeds) : u <= m
        BY <2>3
      <3>2. m \in Elems(Drop(k)) \/ m = n
        <4>1. seeds \in Seq(Nat)
          BY CalmIs
        <4>2. Elems(seeds) \subseteq Elems(Drop(k)) \cup {n}
          BY <4>1, DropIs DEF n
        <4> QED BY <4>2
      <3>3. CASE m \in Elems(Drop(k))
        BY <1>1, <3>1, <3>3 DEF OnItsWay, Coming
      <3> QED BY <1>14, <2>0, <3>1, <3>2, <3>3
    <2>4. CASE retries > 0
      BY <1>1, <2>4 DEF OnItsWay, Coming
    <2>5. CASE phase = "down" /\ sawOpen
      BY <1>1, <2>5 DEF OnItsWay, Coming
    <2>6. CASE ~sawOpen
      <3>1. u <= n \/ InReach(chat, u)
        BY <1>2, <1>3, <2>0, <2>6 DEF Covered
      <3> QED BY <1>14, <2>0, <2>1, <3>1
    <2>7. OnItsWay(u)
      BY <1>3, <2>0 DEF Covered
    <2> QED BY <1>13, <2>1, <2>2, <2>3, <2>4, <2>5, <2>6, <2>7 DEF OnItsWay, Coming
  <1>16. ~sawOpen' => Elems(seeds') = {}
    BY <1>1, DropLast
  <1>17. Covered'
    BY <1>1, <1>15, <1>16 DEF Covered
  <1> QED BY <1>5, <1>10, <1>12, <1>17 DEF Single

\* An older page lands, or fails.
LEMMA MoreInStep ==
    ASSUME Calm, MoreLands
    PROVE  Single' /\ Stream' /\ Covered' /\ Reached
  <1>1. /\ UNCHANGED <<log, wire, queue, phase, seeds, retries, sawOpen, seeded>> /\ more # 0
        /\ UNCHANGED <<chat, told>> \/ (chat' = PrependPage(more - 1) /\ told' = told \cup 1..(more - 1))
    BY DEF MoreLands, daemonVars
  <1>2. LogOK /\ ChatIs(chat) /\ OneEach(chat) /\ Stream /\ Covered /\ Len(log) \in Nat /\ told \subseteq 1..Len(log)
    BY CalmIs DEF Calm, Single
  <1>3. CASE UNCHANGED <<chat, told>>
    <2>1. OneEach(chat') /\ Shown(chat') = Shown(chat)
      BY <1>2, <1>3
    <2>2. Single' /\ Stream' /\ Reached
      BY <1>1, <1>3, <2>1, QuietStep
    <2>3. Covered'
      BY <1>1, <1>3, <2>2, QuietCover
    <2> QED BY <2>2, <2>3
  <1>4. CASE chat' = PrependPage(more - 1) /\ told' = told \cup 1..(more - 1)
    <2> DEFINE n == more - 1
    <2>1. n \in 0..Len(log) /\ n + 1 = more /\ more \in Nat
      BY <1>1, CalmIs
    <2>2. more = chat.cursor
      BY <1>1 DEF Calm, InOrder
    <2>3. chat' = PrependPage(n) /\ told' = told \cup 1..n
      BY <1>4
    <2> HIDE DEF n
    <2>4. \A a \in Elems(chat.messages) : a.id # 0 => a.id > n
      <3>1. ASSUME NEW a \in Elems(chat.messages), a.id # 0 PROVE a.id > n
        <4>1. a.id \in Shown(chat)
          BY <3>1 DEF Shown
        <4>2. a.id \in 1..Len(log) /\ ~(a.id < chat.cursor)
          BY <4>1, CalmIs DEF Calm, InOrder
        <4> QED BY <1>2, <2>1, <2>2, <4>2
      <3> QED BY <3>1
    <2>5. \A id \in 1..n : log[id].intent \notin chat.pendingIntents
      <3>1. DOMAIN log = 1..Len(log)
        BY <1>2 DEF LogOK
      <3>2. ASSUME NEW id \in 1..n PROVE id \in DOMAIN log /\ id < chat.cursor
        BY <1>2, <2>1, <2>2, <3>1
      <3> QED BY <3>2 DEF Calm, InOrder
    <2>6. /\ ChatIs(chat')
          /\ chat'.shownIds = chat.shownIds \cup PageIds(n)
          /\ chat'.cursor = PageCursor(n)
          /\ Elems(chat'.messages) = PageRows(n) \cup Elems(chat.messages)
          /\ /\ OneEach(chat)
             /\ \A a \in Elems(chat.messages) : a.id # 0 => a.id > n
             /\ \A id \in 1..n : log[id].intent \notin chat.pendingIntents
             => OneEach(chat')
      BY <1>2, <2>1, <2>3, PagedIs
    <2>7. OneEach(chat')
      BY <1>2, <2>4, <2>5, <2>6
    <2>8. /\ PageFrom(n) \in 1..(n + 1) /\ PageIds(n) = PageFrom(n)..n
          /\ PageFrom(n) > 1 => PageCursor(n) = PageFrom(n) /\ PageFrom(n) \in PageIds(n)
          /\ PageFrom(n) = 1 => PageCursor(n) = 0
          /\ PageIds(n) \subseteq 1..Len(log)
      BY <1>2, <2>1, PageBounds
    <2>9. Shown(chat') = Shown(chat) \cup PageIds(n)
      <3>1. \A id \in PageIds(n) : Event(id).id = id /\ id # 0
        BY <1>2, <2>8, EventIs
      <3>2. {b.id : b \in PageRows(n)} = PageIds(n)
        BY <3>1 DEF PageRows
      <3>3. {b.id : b \in Elems(chat'.messages)} = PageIds(n) \cup {b.id : b \in Elems(chat.messages)}
        BY <2>6, <3>2
      <3>4. 0 \notin PageIds(n)
        BY <3>1
      <3> QED BY <3>3, <3>4 DEF Shown
    \* A page reaches down to its cursor.
    <2>10. \A u \in 1..n : InReach(chat', u)
      <3>1. ASSUME NEW u \in 1..n PROVE InReach(chat', u)
        <4>1. CASE u \in PageIds(n)
          BY <2>9, <4>1 DEF InReach
        <4>2. CASE u \notin PageIds(n)
          <5>1. u < PageFrom(n) /\ PageFrom(n) > 1
            BY <2>1, <2>8, <4>2
          <5> QED BY <2>6, <2>8, <5>1 DEF InReach
        <4> QED BY <4>1, <4>2
      <3> QED BY <3>1
    <2>11. Reached
      <3>1. ASSUME NEW u \in 1..Len(log), InReach(chat, u) PROVE InReach(chat', u)
        <4>1. CASE u \in Shown(chat)
          BY <2>9, <4>1 DEF InReach
        <4>2. CASE u < chat.cursor
          <5>1. u \in 1..n
            BY <1>2, <2>1, <2>2, <4>2
          <5> QED BY <2>10, <5>1
        <4> QED BY <3>1, <4>1, <4>2 DEF InReach
      <3> QED BY <3>1 DEF Reached
    <2>12. chat'.cursor # 0 => chat'.cursor \in Shown(chat')
      BY <2>1, <2>6, <2>8, <2>9
    <2>13. Stream'
      BY <1>1, <2>1, <2>6, <2>9, <2>11, <2>12, PageStream
    <2>14. \A u : Coming(u) <=> Coming(u)'
      BY <1>1 DEF Coming
    <2>15. ASSUME NEW u \in told' PROVE OnItsWay(u)' /\ (u \in told \/ InReach(chat', u))
      <3>1. CASE u \in 1..n
        BY <2>10, <3>1 DEF OnItsWay
      <3>2. CASE u \in told
        <4>1. OnItsWay(u) /\ u \in 1..Len(log)
          BY <1>2, <3>2 DEF Covered
        <4>2. InReach(chat, u) => InReach(chat', u)
          BY <2>11, <4>1 DEF Reached
        <4> QED BY <1>1, <2>14, <3>2, <4>1, <4>2 DEF OnItsWay
      <3> QED BY <2>3, <3>1, <3>2
    <2>16. ASSUME ~sawOpen', NEW m \in Elems(seeds'), NEW u \in told' PROVE u <= m \/ InReach(chat', u)
      <3>1. CASE u \in told
        <4>1. u <= m \/ InReach(chat, u)
          BY <1>1, <1>2, <2>16, <3>1 DEF Covered
        <4>2. u \in 1..Len(log)
          BY <1>2, <3>1
        <4> QED BY <2>11, <4>1, <4>2 DEF Reached
      <3> QED BY <2>15, <3>1
    <2>17. Covered'
      BY <2>15, <2>16 DEF Covered
    <2> QED BY <2>7, <2>11, <2>13, <2>17 DEF Single
  <1> QED BY <1>1, <1>3, <1>4

\* What a trim drops lies below the rows it keeps.
LEMMA TrimInStep ==
    ASSUME Calm, TrimHistory, ~TornByTrim
    PROVE  Single' /\ Stream' /\ Covered' /\ Reached
  <1>1. /\ UNCHANGED <<log, wire, queue, phase, told, seeds, retries, sawOpen, seeded>>
        /\ Len(chat.messages) > TrimKeep /\ KeptIds # {} /\ chat' = TrimTail
    BY DEF TrimHistory, daemonVars, pageVars
  <1>2. LogOK /\ ChatIs(chat) /\ OneEach(chat) /\ Stream /\ Covered /\ Len(log) \in Nat
    BY CalmIs DEF Calm, Single
  <1>3. \A k \in 1..(Len(chat.messages) - TrimKeep) :
          chat.messages[k].id # 0 /\ ~(chat.messages[k].id > OldestKept)
    BY <1>1 DEF TornByTrim
  <1>4. /\ chat'.shownIds = {id \in chat.shownIds : id >= OldestKept}
        /\ chat'.cursor = OldestKept
        /\ OldestKept \in Shown(chat') /\ Shown(chat') \subseteq Shown(chat)
        /\ \A a \in Elems(chat.messages) : a \in Elems(chat'.messages) \/ (a.id # 0 /\ ~(a.id > OldestKept))
        /\ OneEach(chat')
    <2>1. /\ chat'.shownIds = {id \in chat.shownIds : id >= OldestKept}
          /\ chat'.cursor = OldestKept
          /\ OldestKept \in Shown(chat') /\ Shown(chat') \subseteq Shown(chat)
          /\ (\A k \in 1..(Len(chat.messages) - TrimKeep) :
                 chat.messages[k].id # 0 /\ ~(chat.messages[k].id > OldestKept))
             => /\ \A a \in Elems(chat.messages) : a \in Elems(chat'.messages) \/ (a.id # 0 /\ ~(a.id > OldestKept))
                /\ OneEach(chat) => OneEach(chat')
      BY <1>1, <1>2, TrimmedIs
    <2> QED BY <1>2, <1>3, <2>1
  <1>5. /\ Shown(chat) \subseteq 1..Len(log) /\ Elems(queue) \subseteq 1..Len(log)
        /\ chat.cursor \in 0..Len(log) /\ OldestKept \in 1..Len(log)
        /\ \A u \in Shown(chat) : ~(u < chat.cursor)
        /\ \A u \in Shown(chat') \cup Elems(queue') : ~(u < OldestKept)
    <2>1. /\ Shown(chat) \subseteq 1..Len(log) /\ Elems(queue) \subseteq 1..Len(log) /\ chat.cursor \in 0..Len(log)
      BY CalmIs
    <2>2. OldestKept \in 1..Len(log)
      BY <1>4, <2>1
    <2> QED BY <1>4, <2>1, <2>2 DEF Calm, InOrder
  <1>6. ASSUME NEW u \in 1..Len(log), InReach(chat, u) PROVE InReach(chat', u)
    <2>1. CASE u \in Shown(chat)
      <3>1. PICK a \in Elems(chat.messages) : a.id = u /\ u # 0
        BY <2>1 DEF Shown
      <3>2. CASE a \in Elems(chat'.messages)
        BY <3>1, <3>2 DEF Shown, InReach
      <3>3. CASE ~(u > OldestKept)
        <4>1. u = OldestKept \/ u < OldestKept
          BY <1>2, <1>5, <3>3
        <4> QED BY <1>4, <4>1 DEF InReach
      <3> QED BY <1>4, <3>1, <3>2, <3>3
    <2>2. CASE u < chat.cursor
      <3>1. u < OldestKept
        <4>1. ~(OldestKept < chat.cursor)
          BY <1>4, <1>5
        <4> QED BY <1>2, <1>5, <2>2, <4>1
      <3> QED BY <1>4, <3>1 DEF InReach
    <2> QED BY <1>6, <2>1, <2>2 DEF InReach
  <1>7. Reached
    BY <1>6 DEF Reached
  <1>8. Shown(chat') \cup Elems(queue') \subseteq chat'.shownIds
    <2>1. ASSUME NEW u \in Shown(chat') \cup Elems(queue') PROVE u \in chat.shownIds /\ u >= OldestKept
      <3>1. u \in Shown(chat) \cup Elems(queue)
        BY <1>1, <1>4
      <3>2. u \in 1..Len(log) /\ ~(u < OldestKept)
        BY <1>5, <3>1
      <3>3. u >= OldestKept
        BY <1>2, <1>5, <3>2
      <3> QED BY <1>2, <3>1, <3>3 DEF Stream
    <2> QED BY <1>4, <2>1
  <1>9. \A u \in Elems(wire') : u \in chat'.shownIds => InReach(chat', u)
    <2>1. ASSUME NEW u \in Elems(wire'), u \in chat'.shownIds PROVE InReach(chat', u)
      <3>1. u \in chat.shownIds /\ u \in Elems(wire)
        BY <1>1, <1>4, <2>1
      <3>2. u \in 1..Len(log) /\ InReach(chat, u)
        BY <1>2, <3>1, CalmIs DEF Stream
      <3> QED BY <1>6, <3>2
    <2> QED BY <2>1
  <1>10. phase' = "open" /\ 1 \in Elems(queue') =>
           \A u \in 1..Len(log') : InReach(chat', u) \/ u \in Elems(queue') \/ u \in Elems(wire')
    BY <1>1, <1>2, <1>6 DEF Stream
  <1>11. Stream'
    BY <1>4, <1>8, <1>9, <1>10 DEF Stream
  <1>12. Covered'
    BY <1>1, <1>7, QuietCover
  <1> QED BY <1>4, <1>7, <1>11, <1>12 DEF Single

\* No step that keeps paging in step loses a row, doubles one or forgets what was told.
LEMMA CalmNext ==
    ASSUME Calm, Step, ~TornByTrim
    PROVE  Single' /\ Stream' /\ Covered' /\ Reached
  <1>1. CASE \E e \in Entry : Written(e)
    BY <1>1, WrittenInStep
  <1>2. CASE NotWritten \/ Subscribe \/ LoadMore
    BY <1>2, UntouchedInStep
  <1>3. CASE \E i \in Intents : Send(i) \/ Retry(i) \/ PostFails(i)
    BY <1>3, BubbleInStep
  <1>4. CASE SocketLost \/ DaemonRestart
    BY <1>4, LossInStep
  <1>5. CASE \E k \in DOMAIN seeds : SeedReads(k)
    BY <1>5, SeedReadInStep
  <1>6. CASE \E k \in DOMAIN seeds : SeedLands(k)
    BY <1>6, SeedLandsInStep
  <1>7. CASE \E k \in DOMAIN seeds : SeedFails(k)
    BY <1>7, SeedFailsInStep
  <1> QED BY <1>1, <1>2, <1>3, <1>4, <1>5, <1>6, <1>7, StepKinds, OpenInStep, ReceiveInStep, TypedInStep,
             SeedRetryInStep, MoreInStep, TrimInStep, RemountInStep DEF SessionStep

\* The same of any step whose note leaves crossed false.
LEMMA InStepNext ==
    ASSUME ChatInv, Step, Note
    PROVE  InStep' /\ (~crossed' => Reached)
  <1>1. SUFFICES ASSUME ~crossed'
                 PROVE  ~OutOfStep' /\ Single' /\ Stream' /\ Covered' /\ Reached
    BY DEF InStep
  <1>2. ~crossed /\ ~OutOfStep' /\ ~TornByTrim
    BY <1>1 DEF Note
  <1>3. ~OutOfStep /\ Single /\ Stream /\ Covered
    BY <1>2 DEF ChatInv, InStep
  <1>4. Calm
    BY <1>2, <1>3, OrderIs DEF Calm, ChatInv
  <1> QED BY <1>2, <1>4, CalmNext

----------------------------------------------------------------------------
(* The theorems.                                                            *)

\* An empty chat, and the first seed asked for.
LEMMA ChatInit ==
    ASSUME Init
    PROVE  ChatInv
  <1>1. /\ log = <<>> /\ seen = {} /\ live = FALSE /\ wire = <<>>
        /\ queue = <<>> /\ phase = "down" /\ sawOpen = FALSE /\ seeded = FALSE
        /\ seeds = <<Asked>> /\ retries = 0 /\ held = FALSE /\ more = 0
        /\ taps = 0 /\ faults = 0 /\ told = {} /\ crossed = FALSE
    BY DEF Init, Asked
  <1>2. chat = Chat(<<>>, {}, {}, 0, FALSE)
    BY DEF Init, InitialChatState, Chat
  <1>3. chat.messages = <<>> /\ chat.shownIds = {} /\ chat.pendingIntents = {} /\ chat.cursor = 0 /\ chat.historyLoaded = FALSE
    BY <1>2 DEF Chat
  <1>4. /\ Elems(log) = {} /\ Elems(wire) = {} /\ Elems(queue) = {} /\ Elems(chat.messages) = {}
        /\ DOMAIN log = {} /\ Len(log) = 0 /\ DOMAIN chat.messages = {} /\ Len(chat.messages) = 0 /\ Len(wire) = 0
    BY <1>1, <1>3, ElemsEmpty
  <1>5. LogOK
    <2>1. \A i : RowsOf(i) = {} /\ Cardinality(RowsOf(i)) = 0
      BY <1>4, FS_EmptySet DEF RowsOf
    <2>2. \A i \in Intents : Cardinality(RowsOf(i)) <= faults + (IF i \in seen THEN 1 ELSE 0)
      BY <1>1, <2>1
    <2> QED BY <1>1, <1>4, <2>1, <2>2, BoundsOK DEF LogOK
  <1>6. WireOK
    <2>1. wire \in Seq(Nat) /\ Len(wire) <= Len(log) /\ 1..Len(wire) = {}
      BY <1>1, <1>4
    <2>2. live \in BOOLEAN /\ phase \in {"down", "open"} /\ phase # "open"
      BY <1>1
    <2> QED BY <1>1, <2>1, <2>2 DEF WireOK
  <1>7. SeedsOK
    <2>1. Asked \in Nat
      BY BoundsOK
    <2>2. seeds \in Seq(Nat) /\ Elems(seeds) = {Asked} /\ Len(seeds) = 1
      BY <1>1, <2>1 DEF Elems
    <2>3. retries \in Nat /\ (held => retries > 0) /\ Len(seeds) <= 1 /\ ~seeded
      BY <1>1, <2>2
    <2>4. sawOpen \in BOOLEAN /\ seeded \in BOOLEAN /\ held \in BOOLEAN
      BY <1>1
    <2>5. \A n \in Elems(seeds) : n <= Len(log) \/ n = Asked
      BY <2>2
    <2> QED BY <1>1, <2>2, <2>3, <2>4, <2>5 DEF SeedsOK
  <1>8. SendsOK
    <2>1. posts = [i \in Intents |-> [sent |-> 0, orphan |-> 0, retry |-> 0, failed |-> 0]]
      BY DEF Init
    <2>2. \A i \in Intents : Due(i) = 0 /\ posts[i].orphan = 0
      BY <2>1 DEF Due
    <2>3. taps \in 0..MaxTaps
      BY <1>1, ChatAssumption
    <2> QED BY <1>1, <1>4, <2>1, <2>2, <2>3 DEF SendsOK
  <1>9. ChatOK
    <2>1. ChatIs(chat)
      BY <1>2, <1>3, <1>4 DEF ChatIs, Chat
    <2>2. queue \in Seq(Nat) /\ more \in 0..Len(log)
      BY <1>1, <1>4
    <2>3. told \subseteq 1..Len(log) /\ crossed \in BOOLEAN
      BY <1>1
    <2> QED BY <1>4, <2>1, <2>2, <2>3 DEF ChatOK
  <1>10. Shown(chat) = {} /\ Held = {}
    BY <1>4, HeldIs DEF Shown
  <1>11. ~OutOfStep
    <2>1. ~(0 >= MaxMessages)
      BY ChatAssumption
    <2> QED BY <1>1, <1>3, <1>4, <1>10, <2>1
            DEF OutOfStep, RowBelowCursor, CursorLost, LoadOvertaken, TrimmedUnloaded, CapReached, EchoOutrun
  <1>12. Single
    BY <1>3, <1>4 DEF Single, OneEach, Free
  <1>13. Stream
    BY <1>1, <1>3, <1>4, <1>10 DEF Stream
  <1>14. Covered
    BY <1>1 DEF Covered
  <1> QED BY <1>5, <1>6, <1>7, <1>8, <1>9, <1>11, <1>12, <1>13, <1>14 DEF ChatInv, InStep

\* The invariant is inductive.
LEMMA ChatStep ==
    ASSUME ChatInv, [Next]_vars
    PROVE  ChatInv'
  <1>1. CASE Next
    <2>1. Step /\ Note /\ LogOK /\ WireOK /\ SeedsOK /\ SendsOK /\ ChatOK
      BY <1>1 DEF Next, ChatInv
    <2>2. LogOK' /\ WireOK' /\ SeedsOK' /\ SendsOK' /\ ChatOK'
      BY <2>1, LogNext, WireNext, SeedsNext, SendsNext, ChatNext
    <2>3. InStep'
      BY <2>1, InStepNext
    <2> QED BY <2>2, <2>3 DEF ChatInv
  <1>2. CASE UNCHANGED vars
    <2>1. UNCHANGED <<log, seen, live, wire, chat, queue, phase, sawOpen, seeded, seeds,
                      retries, held, more, posts, taps, faults, told, crossed>>
      BY <1>2 DEF vars
    <2>2. LogOK' /\ WireOK' /\ SeedsOK'
      BY <2>1 DEF ChatInv, LogOK, RowsOf, WireOK, SeedsOK, Asked
    <2>3. SendsOK' /\ ChatOK'
      BY <2>1 DEF ChatInv, SendsOK, Due, ChatOK, ChatIs, RowOK
    <2>4. InStep'
      <3>1. OutOfStep' <=> OutOfStep
        BY <2>1 DEF OutOfStep, RowBelowCursor, CursorLost, LoadOvertaken, TrimmedUnloaded, CapReached, EchoOutrun, Held, ShownRows
      <3>2. (Single' <=> Single) /\ (Stream' <=> Stream) /\ (Covered' <=> Covered)
        BY <2>1 DEF Single, OneEach, Stream, Covered, OnItsWay, Coming
      <3> QED BY <2>1, <3>1, <3>2 DEF ChatInv, InStep
    <2> QED BY <2>2, <2>3, <2>4 DEF ChatInv
  <1> QED BY <1>1, <1>2

\* The invariant the theorems rest on.
THEOREM ChatInvariant == Spec => []ChatInv
  <1>1. Init => ChatInv
    BY ChatInit
  <1>2. ChatInv /\ [Next]_vars => ChatInv'
    BY ChatStep
  <1> QED BY <1>1, <1>2, PTL DEF Spec

\* The bounds of TypeOK follow from the invariant's.
LEMMA TypesOf ==
    ASSUME ChatInv
    PROVE  TypeOK
  <1>1. LogOK /\ WireOK /\ SeedsOK /\ SendsOK /\ ChatOK /\ ChatIs(chat)
    BY DEF ChatInv, ChatOK
  <1>2. /\ log \in Seq(Entry) /\ Len(log) <= MaxLog /\ Len(log) \in Nat /\ MaxLog \in Nat
        /\ Asked \in Nat /\ Asked = MaxLog + 1 /\ MaxFaults \in Nat
    BY <1>1, LogBound, BoundsOK DEF LogOK
  <1>3. seen \subseteq Intents /\ faults \in 0..MaxFaults
    BY <1>1 DEF LogOK
  <1>4. live \in BOOLEAN /\ phase \in {"down", "open"}
    BY <1>1 DEF WireOK
  <1>5. sawOpen \in BOOLEAN /\ seeded \in BOOLEAN /\ retries \in Nat /\ held \in BOOLEAN
    BY <1>1 DEF SeedsOK
  <1>6. 1..Len(log) \subseteq Ids /\ 0..Len(log) \subseteq 0..MaxLog
    BY <1>2 DEF Ids
  <1>7. wire \in Seq(Ids)
    <2>1. wire \in Seq(Nat) /\ Len(wire) <= Len(log) /\ \A k \in 1..Len(wire) : wire[k] = Len(log) - Len(wire) + k
      BY <1>1 DEF WireOK
    <2>2. DOMAIN wire = 1..Len(wire) /\ Len(wire) \in Nat /\ wire = [k \in 1..Len(wire) |-> wire[k]]
      BY <2>1
    <2>3. \A k \in 1..Len(wire) : wire[k] \in 1..Len(log)
      BY <1>2, <2>1, <2>2
    <2>4. \A k \in 1..Len(wire) : wire[k] \in Ids
      BY <1>6, <2>3
    <2> QED BY <2>2, <2>4
  <1>8. queue \in Seq(Ids)
    <2>1. queue \in Seq(Nat) /\ \A u \in Elems(queue) : u \in 1..Len(log)
      BY <1>1 DEF ChatOK
    <2>2. \A k \in 1..Len(queue) : queue[k] \in Ids
      BY <1>6, <2>1, ElemsIn
    <2>3. Len(queue) \in Nat /\ queue = [k \in 1..Len(queue) |-> queue[k]]
      BY <2>1
    <2> QED BY <2>2, <2>3
  <1>9. seeds \in Seq(0..Asked)
    <2>1. seeds \in Seq(Nat) /\ \A n \in Elems(seeds) : n <= Len(log) \/ n = Asked
      BY <1>1 DEF SeedsOK
    <2>2. \A k \in 1..Len(seeds) : seeds[k] \in Elems(seeds) /\ seeds[k] \in Nat
      BY <2>1, ElemsIn
    <2>3. ASSUME NEW k \in 1..Len(seeds) PROVE seeds[k] \in 0..Asked
      <3>1. seeds[k] \in Nat /\ (seeds[k] <= Len(log) \/ seeds[k] = Asked)
        BY <2>1, <2>2
      <3>2. Asked \in Nat /\ Len(log) \in Nat /\ Len(log) <= Asked
        BY <1>2
      <3> QED BY <3>1, <3>2
    <2>4. Len(seeds) \in Nat /\ seeds = [k \in 1..Len(seeds) |-> seeds[k]]
      BY <2>1
    <2> DEFINE R == 0..Asked
    <2>5. \A k \in 1..Len(seeds) : seeds[k] \in R
      BY <2>3
    <2> HIDE DEF R
    <2>6. seeds \in Seq(R)
      BY <2>4, <2>5
    <2> QED BY <2>6 DEF R
  <1>10. chat \in ChatState
    <2>1. /\ chat = [messages |-> chat.messages, shownIds |-> chat.shownIds, pendingIntents |-> chat.pendingIntents,
                     cursor |-> chat.cursor, historyLoaded |-> chat.historyLoaded]
          /\ chat.messages \in Seq(Row) /\ chat.shownIds \subseteq 1..Len(log) /\ chat.pendingIntents \subseteq Intents
          /\ chat.cursor \in 0..Len(log) /\ chat.historyLoaded \in BOOLEAN
      BY <1>1 DEF ChatIs
    <2>2. chat.shownIds \subseteq Ids /\ chat.cursor \in 0..MaxLog
      BY <1>6, <2>1
    <2> QED BY <2>1, <2>2 DEF ChatState
  <1>11. more \in 0..MaxLog /\ told \subseteq Ids /\ crossed \in BOOLEAN
    BY <1>1, <1>6 DEF ChatOK
  <1>12. \A i \in Intents : posts[i].sent + posts[i].retry + posts[i].failed <= 1
    BY <1>1 DEF SendsOK, Due
  <1>13. posts \in [Intents -> [sent : 0..1, orphan : 0..MaxFaults, retry : 0..1, failed : 0..1]]
    <2>1. posts \in [Intents -> PostRow] /\ \A i \in Intents : Due(i) <= 1 /\ posts[i].orphan <= faults
      BY <1>1 DEF SendsOK, PostRow
    <2>2. ASSUME NEW i \in Intents
          PROVE  posts[i] \in [sent : 0..1, orphan : 0..MaxFaults, retry : 0..1, failed : 0..1]
      <3>1. /\ posts[i].sent \in Nat /\ posts[i].orphan \in Nat /\ posts[i].retry \in Nat /\ posts[i].failed \in Nat
            /\ posts[i] = [sent |-> posts[i].sent, orphan |-> posts[i].orphan,
                           retry |-> posts[i].retry, failed |-> posts[i].failed]
        BY <2>1, PostTypes DEF PostRow
      <3>2. /\ posts[i].sent \in 0..1 /\ posts[i].orphan \in 0..MaxFaults
            /\ posts[i].retry \in 0..1 /\ posts[i].failed \in 0..1
        <4>1. posts[i].sent + posts[i].retry + posts[i].failed <= 1 /\ posts[i].orphan <= faults
          BY <2>1 DEF Due
        <4>2. faults \in 0..MaxFaults /\ MaxFaults \in Nat
          BY <1>2, <1>3
        <4> QED BY <3>1, <4>1, <4>2
      <3> QED BY <3>1, <3>2
    <2>3. posts = [i \in Intents |-> posts[i]]
      BY <2>1
    <2> QED BY <2>2, <2>3
  <1>14. taps \in 0..MaxTaps
    BY <1>1 DEF SendsOK
  <1> QED BY <1>2, <1>3, <1>4, <1>5, <1>7, <1>8, <1>9, <1>10, <1>11, <1>12, <1>13, <1>14 DEF TypeOK

\* Every variable keeps its type; one request of a send is in flight at most.
THEOREM ChatTypes == Spec => []TypeOK
  BY ChatInvariant, TypesOf, PTL

\* No message is shown twice, for any pages, cap, intents and faults.
THEOREM NoDuplicates == Spec => []NoDuplicateRow
  <1>1. ChatInv => NoDuplicateRow
    <2> SUFFICES ASSUME ChatInv, ~crossed, NEW j \in DOMAIN chat.messages, NEW k \in DOMAIN chat.messages
                 PROVE  LET a == chat.messages[j]
                            b == chat.messages[k]
                        IN  /\ a.id = b.id /\ a.id # 0 => j = k
                            /\ a.intent = b.intent /\ a.intent # NoIntent /\ a.id = 0 => j = k
      BY DEF NoDuplicateRow
    <2>1. j # k => ~Clash(chat.messages[j], chat.messages[k])
      BY DEF ChatInv, InStep, Single, OneEach, Free
    <2> QED BY <2>1 DEF Clash
  <1> QED BY <1>1, ChatInvariant, PTL

\* At rest every row of the conversation is shown or can be paged to, but for those
\* that a reconnect misses.
THEOREM ToldReachable == Spec => []ToldIsReachable
  <1>1. ChatInv => ToldIsReachable
    <2> SUFFICES ASSUME ChatInv, Rest, ~crossed, NEW u \in DOMAIN log, u \in told
                 PROVE  Reachable(u)
      BY DEF ToldIsReachable, Missed
    <2>1. phase = "open" /\ wire = <<>> /\ queue = <<>> /\ seeds = <<>> /\ retries = 0
      BY DEF Rest
    <2>2. Elems(wire) = {} /\ Elems(queue) = {} /\ Elems(seeds) = {} /\ ~(retries > 0)
      BY <2>1, ElemsEmpty
    <2>3. InReach(chat, u)
      BY <2>1, <2>2 DEF ChatInv, InStep, Covered, OnItsWay, Coming
    <2> QED BY <2>3, HeldIs DEF InReach, Reachable
  <1> QED BY <1>1, ChatInvariant, PTL

\* What is shown is in the store.
LEMMA ShownIn ==
    ASSUME ChatInv
    PROVE  \A id \in ShownRows : id \in 1..Len(log)
  <1> SUFFICES ASSUME NEW id \in ShownRows PROVE id \in 1..Len(log)
    OBVIOUS
  <1>1. PICK a \in Elems(chat.messages) : a.id = id /\ id # 0
    BY HeldIs DEF Shown
  <1>2. a \in Row /\ a.id <= Len(log) /\ Len(log) \in Nat
    BY <1>1 DEF ChatInv, ChatOK, ChatIs, RowOK, LogOK
  <1> QED BY <1>1, <1>2, BoundsOK DEF Row

\* A trim keeps in reach what it does not drop from above the oldest row it keeps.
LEMMA TrimReaches ==
    ASSUME ChatInv, TrimHistory, NEW id \in ShownRows, ~(id > OldestKept)
    PROVE  Reachable(id)'
  <1>1. Len(chat.messages) > TrimKeep /\ KeptIds # {} /\ chat' = TrimTail
    BY DEF TrimHistory
  <1>2. LogOK /\ ChatIs(chat) /\ Len(log) \in Nat
    BY DEF ChatInv, LogOK, ChatOK
  <1>3. chat'.cursor = OldestKept /\ OldestKept \in Shown(chat') /\ Shown(chat') \subseteq Shown(chat)
    BY <1>1, <1>2, TrimmedIs
  <1>4. id \in 1..Len(log) /\ OldestKept \in 1..Len(log)
    BY <1>3, ShownIn, HeldIs
  <1>5. id = OldestKept \/ id < OldestKept
    BY <1>2, <1>4
  <1> QED BY <1>3, <1>5, HeldIs DEF Reachable

\* No step takes a row away that loadMore would not bring back, but a trim those
\* that stand above the oldest row it keeps.
THEOREM RowsStayInReach == Spec => NothingVanishes
  <1> DEFINE Stays == ~crossed /\ ~OutOfStep' =>
        \A id \in ShownRows : Reachable(id)' \/ (TrimHistory /\ id > OldestKept)
  <1>1. ASSUME ChatInv, [Next]_vars
        PROVE  [Stays]_vars
    <2>1. CASE Next
      <3>1. SUFFICES ASSUME ~crossed, ~OutOfStep', NEW id \in ShownRows,
                            ~(TrimHistory /\ id > OldestKept)
                     PROVE  Reachable(id)'
        OBVIOUS
      <3>2. CASE TrimHistory
        BY <1>1, <3>1, <3>2, TrimReaches
      <3>3. CASE ~TrimHistory
        <4>1. Calm
          BY <1>1, <3>1, OrderIs DEF Calm, ChatInv, InStep
        <4>2. Reached
          BY <2>1, <3>3, <4>1, CalmNext DEF Next, TornByTrim
        <4>3. InReach(chat, id)
          BY HeldIs DEF InReach
        <4>4. id \in 1..Len(log)
          BY <1>1, ShownIn
        <4>5. InReach(chat', id)
          BY <4>2, <4>3, <4>4 DEF Reached
        <4> QED BY <4>5, HeldIs DEF InReach, Reachable
      <3> QED BY <3>2, <3>3
    <2>2. CASE UNCHANGED vars
      BY <2>2
    <2> QED BY <1>1, <2>1, <2>2
  <1> QED BY <1>1, ChatInvariant, PTL DEF Spec, NothingVanishes
=============================================================================
