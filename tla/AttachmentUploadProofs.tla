----------------------- MODULE AttachmentUploadProofs -----------------------
(***************************************************************************)
(* The uploads, for any number of drafts, engines, sessions and faults and *)
(* any sizes: what a draft offers is the whole file (UploadedIsWhole), an  *)
(* upload fails for one of three causes only (FailsForCause), and the X of *)
(* a draft stops its upload (RemoveStopsIt).                               *)
(*                                                                         *)
(* An id that was not harmed has at most one request inside the service.   *)
(* So its files go through three stages, staged, moved and final, and a    *)
(* request on it that was checked is still right when it is carried out.   *)
(***************************************************************************)
EXTENDS AttachmentUpload, TLAPS, FiniteSetTheorems

----------------------------------------------------------------------------
(* The inductive invariants.                                                *)

\* What the phases of an engine mean: before, in and after the chunks.
Before(r)    == r.phase \in {"none", "opening", "creating"}
                \/ (r.phase = "parked" /\ r.resume = "creating")
Sending(r)   == r.phase \in {"putting", "resyncing", "recovering"}
                \/ (r.phase = "parked" /\ r.resume = "recovering")
Finishing(r) == r.phase = "completing"
                \/ (r.phase = "parked" /\ r.resume = "completing")

\* The types of the state, part by part.
DraftShape ==
    /\ cell \in [Drafts -> Statuses] /\ given \in [Drafts -> 0..MaxSessions]
    /\ used \in SUBSET Drafts /\ store \in StoreRec
EngineShape == run \in [Runs -> RunRec] /\ started \in 0..MaxRuns
CallShape == call \in [Runs -> CallRec] /\ late \in SUBSET LateRec /\ IsFiniteSet(late)
ServiceShape ==
    /\ disk \in [Ids -> FilesRec] /\ minted \in 0..MaxSessions
    /\ sent \in SUBSET Ids /\ harmed \in SUBSET Ids
LinkShape == online \in BOOLEAN /\ up \in BOOLEAN /\ faults \in 0..MaxFaults

\* An engine awaits a request exactly in the phases that make one, and which
\* one decides how far the service can be with it.
Requesting == {"creating", "putting", "resyncing", "recovering", "completing"}
Awaits(r, c) ==
    /\ r.phase \in Requesting => c.at # "none"
    /\ c.at # "none" => r.phase \in Requesting
    /\ c.at = "checked" => r.phase = "putting"
    /\ c.at \in {"looked", "renamed", "recorded"} => r.phase = "completing"
    /\ r.phase = "parked" => r.resume # ""
    /\ Sending(r) => r.offset < Size
    /\ r.outcome # "" => r.phase = "ended"
LateAt(l) ==
    /\ l.at = "checked" => l.q.op = "put"
    /\ l.at \in {"looked", "renamed", "recorded"} => l.q.op = "complete"
    /\ l.q.op = "put" => l.q.len \in Nat
Waits == (\A e \in Runs : Awaits(run[e], call[e])) /\ (\A l \in late : LateAt(l))

Shape == DraftShape /\ EngineShape /\ CallShape /\ ServiceShape /\ LinkShape /\ Waits

\* The session an engine has, or is about to learn of.
Claim(e) == IF Awaiting(e, "creating") /\ call[e].reply = "ok" THEN call[e].value ELSE run[e].id

\* Every session belongs to one engine.
Claims ==
    /\ \A e \in Runs : /\ Claim(e) \in 0..minted
                       /\ Before(run[e]) => run[e].id = 0
                       /\ Sending(run[e]) \/ Finishing(run[e]) => run[e].id # 0
                       /\ Awaiting(e, "creating") => call[e].reply \in {"ok", "broken"}
                       /\ Awaiting(e, "creating") /\ call[e].reply = "ok" => call[e].value # 0
    /\ \A e, f \in Runs : Claim(e) = Claim(f) /\ Claim(e) # 0 => e = f
    /\ \A l \in late : IF l.q.op = "create" THEN l.q.id = 0
         ELSE /\ l.q.id # 0 /\ l.q.id = run[l.n[1]].id
              /\ l.q.op = "complete" => Finishing(run[l.n[1]]) \/ run[l.n[1]].phase = "ended"

\* The stages of the files of an id.
Staged(i) == /\ disk[i].session /\ ~disk[i].meta /\ disk[i].blob = <<>>
             /\ \A k \in 1..Len(disk[i].part) : disk[i].part[k] = k
             /\ Len(disk[i].part) <= Size
Moved(i) == disk[i].session /\ ~disk[i].meta /\ disk[i].blob = File
Final(i) == disk[i].meta /\ disk[i].blob = File

\* Harm is noticed; an id without it is in one of the stages.
Noticed == \A i \in Ids : Hurt(i) => i \in harmed
Stages  == \A i \in 1..minted : i \in harmed \/ Staged(i) \/ Moved(i) \/ Final(i)

\* A request on an id that is not harmed, at its place in the service.
Request1(q, at) ==
    /\ q.op = "put" /\ at = "checked" =>
         \/ Staged(q.id) /\ q.offset = Len(disk[q.id].part) /\ q.offset + q.len <= Size
         \/ Final(q.id)
    /\ q.op = "complete" /\ Staged(q.id) => Len(disk[q.id].part) = Size
    /\ at = "looked" => Staged(q.id)
    /\ at = "renamed" => Moved(q.id)
    /\ at = "recorded" => Final(q.id)
Requests ==
    /\ \A e \in Runs : call[e].at \in Places /\ run[e].id \in Ids \ harmed => Request1(Request(e), call[e].at)
    /\ \A l \in late : l.q.id \in Ids \ harmed => Request1(l.q, l.at)

\* An engine whose id is not harmed: it is never ahead of the staged bytes, and
\* no answer makes it fail.
Engine(e) ==
    LET i == run[e].id IN
    /\ Sending(run[e]) => Staged(i) /\ run[e].offset <= Len(disk[i].part)
    /\ Finishing(run[e]) /\ Staged(i) => Len(disk[i].part) = Size
    /\ Awaiting(e, "putting") => /\ call[e].reply \in {"ok", "mismatch", "broken"}
                                 /\ call[e].reply = "ok" => run[e].offset + ChunkLen(run[e]) <= Len(disk[i].part)
    /\ Awaiting(e, "resyncing") \/ Awaiting(e, "recovering") =>
         /\ call[e].reply \in {"ok", "broken"}
         /\ call[e].reply = "ok" => call[e].value <= Len(disk[i].part)
    /\ Awaiting(e, "completing") => /\ call[e].reply \in {"ok", "broken"}
                                    /\ call[e].reply = "ok" => Final(i)
Engines == \A e \in Runs : run[e].id \in Ids \ harmed => Engine(e)
\* A session just opened is staged.
Opening == \A e \in Runs : Awaiting(e, "creating") /\ call[e].reply = "ok" /\ call[e].value \notin harmed
                             => Staged(call[e].value)

\* What was offered or sent is final.
Offered ==
    /\ \A d \in Drafts : cell[d] = "uploaded" => given[d] \in 1..minted /\ (given[d] \in harmed \/ Final(given[d]))
    /\ \A i \in sent : i \in 1..minted /\ (i \in harmed \/ Final(i))

\* An upload that failed was on a harmed id.
Failures == \A e \in Runs : run[e].outcome = "failed" => run[e].id \in harmed

Whole == Claims /\ Noticed /\ Stages /\ Requests /\ Engines /\ Opening /\ Offered /\ Failures

\* At most one engine works for a draft that is there, and none for one whose
\* upload failed; a store keeps no engine of a later one.
Owners ==
    /\ \A e \in Runs : /\ run[e].phase = "none" <=> e > started
                       /\ run[e].phase # "none" => run[e].draft \in used /\ run[e].owner <= store.number
                       /\ run[e].aborted => /\ run[e].phase # "none"
                                            /\ ~Present(run[e].draft) \/ run[e].phase = "ended"
    /\ \A d \in Drafts : Present(d) => d \in used
    /\ \A e, f \in Runs : Live(e) /\ Live(f) /\ run[e].draft = run[f].draft /\ Present(run[e].draft) => e = f
    /\ \A e \in Runs : Live(e) => cell[run[e].draft] # "error"

----------------------------------------------------------------------------
(* The steps of an engine.                                                  *)

\* The bounds admit zero.
LEMMA Zeros == 0 \in 0..MaxSessions /\ 0 \in 0..MaxRuns /\ 0 \in 0..MaxFaults
  BY UploadAssumption

\* The request an engine makes on entering a phase.
LEMMA ReadyCall ==
    ASSUME NEW p \in Phases
    PROVE  /\ Ready(p) \in CallRec /\ Ready(p).reply = "" /\ Ready(p).value = 0
           /\ p \in Requesting => Ready(p).at = "sent"
           /\ p \notin Requesting => Ready(p).at = "none"
  BY DEF Ready, NoCall, CallRec, Requesting, Places, InService

\* An engine that goes on changes its own entries only.
LEMMA GoesTo ==
    ASSUME EngineShape, CallShape, NEW e \in Runs, NEW r \in RunRec, Goes(e, r)
    PROVE  /\ run' \in [Runs -> RunRec] /\ call' \in [Runs -> CallRec]
           /\ run'[e] = r /\ call'[e] = Ready(r.phase)
           /\ \A f \in Runs : f # e => run'[f] = run[f] /\ call'[f] = call[f]
  <1>1. r.phase \in Phases
    BY DEF RunRec
  <1>2. Ready(r.phase) \in CallRec
    BY <1>1, ReadyCall
  <1> QED BY <1>2 DEF Goes, EngineShape, CallShape

\* How an engine moves, as far as its session is concerned: it ends, it stays
\* in its part of the upload, or an answer takes it on.
Moves(e, r) ==
    /\ r \in RunRec /\ r.draft = run[e].draft /\ r.owner = run[e].owner /\ Live(e)
    /\ Goes(e, r) /\ r.phase \notin {"none", "opening"}
    /\ \/ /\ r.phase = "ended" /\ r.id = run[e].id
          /\ r.outcome = "failed" => /\ call[e].at = "answered"
                                     /\ \/ call[e].reply = "mismatch" /\ run[e].phase = "completing"
                                        \/ call[e].reply = "unknown" /\ run[e].phase # "recovering"
       \/ /\ r.id = run[e].id /\ r.offset = run[e].offset /\ r.outcome = run[e].outcome
          /\ \/ Before(run[e]) /\ Before(r)
             \/ Sending(run[e]) /\ Sending(r)
             \/ Finishing(run[e]) /\ Finishing(r)
       \/ /\ Awaiting(e, "creating") /\ call[e].reply = "ok" /\ r.outcome = run[e].outcome
          /\ r.id = call[e].value /\ r.offset = 0 /\ r.phase = "putting"
       \/ /\ r.id = run[e].id /\ call[e].reply = "ok" /\ r.outcome = run[e].outcome
          /\ \/ Awaiting(e, "putting") /\ r.offset = run[e].offset + ChunkLen(run[e])
             \/ /\ Awaiting(e, "resyncing") \/ Awaiting(e, "recovering")
                /\ r.offset = call[e].value
          /\ r.phase = IF r.offset < Size THEN "putting" ELSE "completing"

\* What its step does to its draft and to the store.
Effects(e, r) ==
    LET d == run[e].draft IN
    /\ DraftShape' /\ used' = used /\ store'.number = store.number /\ started' = started
    /\ \A x \in Drafts : x # d => /\ cell'[x] = cell[x] /\ given'[x] = given[x]
                                  /\ store'.handles[x] = store.handles[x]
    /\ cell'[d] # "absent" => cell[d] # "absent"
    /\ cell'[d] = "error" => cell[d] = "error" \/ r.phase = "ended"
    /\ r.aborted = run[e].aborted \/ r.aborted = (cell[d] = "absent") \/ r.phase = "ended"
    /\ r.phase # "ended" /\ cell'[d] # "absent" /\ run[e].owner = store.number
         => \/ store'.handles[d] = e
            \/ store'.handles[d] = store.handles[d] /\ run[e].phase # "opening"
    /\ cell'[d] = "uploaded" =>
         \/ cell[d] = "uploaded" /\ given'[d] = given[d]
         \/ Awaiting(e, "completing") /\ call[e].reply = "ok" /\ given'[d] = run[e].id

\* mutate, and the release of maps, by component.
LEMMA MutatedCell ==
    ASSUME DraftShape, NEW d \in Drafts, NEW status \in Statuses \ {"absent"}
    PROVE  /\ Mutated(d, status) \in [Drafts -> Statuses]
           /\ \A x \in Drafts : x # d => Mutated(d, status)[x] = cell[x]
           /\ cell[d] = "absent" => Mutated(d, status)[d] = "absent"
           /\ cell[d] # "absent" => Mutated(d, status)[d] = status
  BY DEF Mutated, Present, DraftShape

\* release drops one draft's maps and leaves the others.
LEMMA ReleasedStore ==
    ASSUME DraftShape, NEW n, NEW d \in Drafts
    PROVE  /\ Released(n, {d}) \in StoreRec /\ Released(n, {d}).number = store.number
           /\ \A x \in Drafts : x # d => Released(n, {d}).handles[x] = store.handles[x]
  <1> DEFINE h == [x \in Drafts |-> IF x \in {d} THEN 0 ELSE store.handles[x]]
             t == [store EXCEPT !.sources = @ \ {d}, !.handles = h]
  <1>a. store \in StoreRec /\ store.sources \ {d} \in SUBSET Drafts
    BY DEF DraftShape, StoreRec
  <1>b. /\ h \in [Drafts -> 0..MaxRuns]
        /\ \A x \in Drafts : x # d => h[x] = store.handles[x]
    BY <1>a, UploadAssumption DEF StoreRec
  <1> HIDE DEF h
  <1>1. /\ t \in StoreRec /\ t.number = store.number
        /\ \A x \in Drafts : x # d => t.handles[x] = store.handles[x]
    BY <1>a, <1>b DEF StoreRec
  <1>2. Released(n, {d}) = IF n # store.number THEN store ELSE t
    BY DEF Released, h
  <1> HIDE DEF t
  <1> QED BY <1>1, <1>2 DEF DraftShape

\* An engine that ends gives up its handle.
LEMMA UnhandledStore ==
    ASSUME DraftShape, EngineShape, NEW e \in Runs
    PROVE  /\ Unhandled(e) \in StoreRec /\ Unhandled(e).number = store.number
           /\ \A x \in Drafts : x # run[e].draft => Unhandled(e).handles[x] = store.handles[x]
  <1> DEFINE t == [store EXCEPT !.handles[run[e].draft] = 0]
  <1>0. run[e].draft \in Drafts
    BY DEF EngineShape, RunRec
  <1>1. /\ t \in StoreRec /\ t.number = store.number
        /\ \A x \in Drafts : x # run[e].draft => t.handles[x] = store.handles[x]
    BY <1>0, UploadAssumption DEF DraftShape, StoreRec
  <1>2. Unhandled(e) = IF run[e].owner # store.number THEN store ELSE t
    BY DEF Unhandled
  <1> HIDE DEF t
  <1> QED BY <1>1, <1>2 DEF DraftShape

\* The end of an engine.
LEMMA EndsStep ==
    ASSUME Shape, NEW e \in Runs, NEW outcome \in Outcomes \ {""}, Live(e), Ends(e, outcome),
           used' = used, started' = started,
           outcome = "done" => Awaiting(e, "completing") /\ call[e].reply = "ok",
           outcome = "failed" => /\ call[e].at = "answered"
                                 /\ \/ call[e].reply = "mismatch" /\ run[e].phase = "completing"
                                    \/ call[e].reply = "unknown" /\ run[e].phase # "recovering"
    PROVE  \E r \in RunRec : Moves(e, r) /\ Effects(e, r)
  <1> DEFINE r == [run[e] EXCEPT !.phase = "ended", !.outcome = outcome]
             d == run[e].draft
  <1>0. run[e] \in RunRec /\ d \in Drafts
    BY DEF Shape, EngineShape, RunRec
  <1>1. /\ r \in RunRec /\ r.draft = d /\ r.owner = run[e].owner /\ r.phase = "ended"
        /\ r.id = run[e].id /\ r.outcome = outcome /\ r.aborted = run[e].aborted
    BY <1>0 DEF RunRec, Phases
  <1>2. Goes(e, r)
    BY DEF Ends
  <1> HIDE DEF r
  <1>3. Moves(e, r)
    BY <1>1, <1>2 DEF Moves
  <1>4. DraftShape /\ EngineShape
    BY DEF Shape
  <1>5. run[e].id \in 0..MaxSessions
    BY <1>0 DEF RunRec
  <1>6. CASE outcome = "done"
    <2>1. /\ cell' = Mutated(d, "uploaded") /\ store' = Unhandled(e)
          /\ given' = IF Present(d) THEN [given EXCEPT ![d] = run[e].id] ELSE given
      BY <1>6 DEF Ends
    <2>2. /\ cell' \in [Drafts -> Statuses] /\ store' \in StoreRec /\ store'.number = store.number
          /\ \A x \in Drafts : x # d => cell'[x] = cell[x] /\ store'.handles[x] = store.handles[x]
          /\ cell[d] = "absent" => cell'[d] = "absent"
          /\ cell[d] # "absent" => cell'[d] = "uploaded"
      <3>0. "uploaded" \in Statuses \ {"absent"}
        BY DEF Statuses
      <3>1. /\ cell' \in [Drafts -> Statuses]
            /\ \A x \in Drafts : x # d => cell'[x] = cell[x]
            /\ cell[d] = "absent" => cell'[d] = "absent"
            /\ cell[d] # "absent" => cell'[d] = "uploaded"
        <4>1. /\ Mutated(d, "uploaded") \in [Drafts -> Statuses]
              /\ \A x \in Drafts : x # d => Mutated(d, "uploaded")[x] = cell[x]
              /\ cell[d] = "absent" => Mutated(d, "uploaded")[d] = "absent"
              /\ cell[d] # "absent" => Mutated(d, "uploaded")[d] = "uploaded"
          BY <1>0, <1>4, <3>0, MutatedCell
        <4> QED BY <4>1, <2>1
      <3>2. /\ store' \in StoreRec /\ store'.number = store.number
            /\ \A x \in Drafts : x # d => store'.handles[x] = store.handles[x]
        BY <2>1, <1>4, UnhandledStore
      <3> QED BY <3>1, <3>2
    <2>3. /\ given' \in [Drafts -> 0..MaxSessions]
          /\ \A x \in Drafts : x # d => given'[x] = given[x]
          /\ cell[d] # "absent" => given'[d] = run[e].id
      BY <2>1, <1>0, <1>4, <1>5 DEF DraftShape, Present
    <2>4. DraftShape'
      BY <2>2, <2>3, <1>4 DEF DraftShape
    <2>5. Effects(e, r)
      BY <2>2, <2>3, <2>4, <1>1, <1>6 DEF Effects
    <2> QED BY <2>5, <1>3, <1>1
  <1>7. CASE outcome \in {"failed", "too_large"}
    <2>1. cell' = Mutated(d, "error") /\ store' = Unhandled(e) /\ given' = given
      BY <1>7 DEF Ends
    <2>2. /\ cell' \in [Drafts -> Statuses] /\ store' \in StoreRec /\ store'.number = store.number
          /\ \A x \in Drafts : x # d => cell'[x] = cell[x] /\ store'.handles[x] = store.handles[x]
          /\ cell[d] = "absent" => cell'[d] = "absent"
          /\ cell[d] # "absent" => cell'[d] = "error"
      <3>0. "error" \in Statuses \ {"absent"}
        BY DEF Statuses
      <3>1. /\ cell' \in [Drafts -> Statuses]
            /\ \A x \in Drafts : x # d => cell'[x] = cell[x]
            /\ cell[d] = "absent" => cell'[d] = "absent"
            /\ cell[d] # "absent" => cell'[d] = "error"
        <4>1. /\ Mutated(d, "error") \in [Drafts -> Statuses]
              /\ \A x \in Drafts : x # d => Mutated(d, "error")[x] = cell[x]
              /\ cell[d] = "absent" => Mutated(d, "error")[d] = "absent"
              /\ cell[d] # "absent" => Mutated(d, "error")[d] = "error"
          BY <1>0, <1>4, <3>0, MutatedCell
        <4> QED BY <4>1, <2>1
      <3>2. /\ store' \in StoreRec /\ store'.number = store.number
            /\ \A x \in Drafts : x # d => store'.handles[x] = store.handles[x]
        BY <2>1, <1>4, UnhandledStore
      <3> QED BY <3>1, <3>2
    <2>4. DraftShape'
      BY <2>1, <2>2, <1>4 DEF DraftShape
    <2>5. Effects(e, r)
      BY <2>1, <2>2, <2>4, <1>1 DEF Effects
    <2> QED BY <2>5, <1>3, <1>1
  <1>8. CASE outcome \in {"unsupported_agent", "unreadable"}
    <2>1. /\ cell' = [cell EXCEPT ![d] = "absent"] /\ given' = [given EXCEPT ![d] = 0]
          /\ store' = Released(run[e].owner, {d})
      BY <1>8 DEF Ends
    <2>2. /\ cell' \in [Drafts -> Statuses] /\ cell'[d] = "absent"
          /\ given' \in [Drafts -> 0..MaxSessions]
          /\ \A x \in Drafts : x # d => cell'[x] = cell[x] /\ given'[x] = given[x]
      <3>1. "absent" \in Statuses
        BY DEF Statuses
      <3>a. 0 \in 0..MaxSessions
        BY Zeros
      <3>2. cell' \in [Drafts -> Statuses] /\ given' \in [Drafts -> 0..MaxSessions]
        BY <2>1, <1>0, <1>4, <3>1, <3>a DEF DraftShape
      <3> QED BY <2>1, <1>0, <1>4, <3>2 DEF DraftShape
    <2>3. /\ store' \in StoreRec /\ store'.number = store.number
          /\ \A x \in Drafts : x # d => store'.handles[x] = store.handles[x]
      BY <2>1, <1>0, <1>4, ReleasedStore
    <2>4. DraftShape'
      BY <2>2, <2>3, <1>4 DEF DraftShape
    <2>5. Effects(e, r)
      BY <2>2, <2>3, <2>4, <1>1 DEF Effects
    <2> QED BY <2>5, <1>3, <1>1
  <1>9. CASE outcome = "aborted"
    <2>1. /\ cell' = cell /\ given' = given
          /\ store' = Released(run[e].owner, {d})
      BY <1>9 DEF Ends
    <2>3. /\ store' \in StoreRec /\ store'.number = store.number
          /\ \A x \in Drafts : x # d => store'.handles[x] = store.handles[x]
      BY <2>1, <1>0, <1>4, ReleasedStore
    <2>4. DraftShape'
      BY <2>1, <2>3, <1>4 DEF DraftShape
    <2>5. Effects(e, r)
      BY <2>1, <2>3, <2>4, <1>1 DEF Effects
    <2> QED BY <2>5, <1>3, <1>1
  <1> QED BY <1>6, <1>7, <1>8, <1>9 DEF Outcomes

\* A step that leaves the draft and the store alone.
LEMMA GoStep ==
    ASSUME Shape, NEW e \in Runs, NEW r \in RunRec, Goes(e, r), Live(e), run[e].phase # "opening",
           r.draft = run[e].draft, r.owner = run[e].owner, r.outcome = run[e].outcome,
           r.aborted = run[e].aborted, r.id = run[e].id, r.offset = run[e].offset,
           r.phase \notin {"none", "opening"},
           \/ Before(run[e]) /\ Before(r)
           \/ Sending(run[e]) /\ Sending(r)
           \/ Finishing(run[e]) /\ Finishing(r),
           cell' = cell, given' = given, store' = store, used' = used, started' = started
    PROVE  \E s \in RunRec : Moves(e, s) /\ Effects(e, s)
  <1>1. Moves(e, r)
    BY DEF Moves
  <1>2. DraftShape'
    BY DEF Shape, DraftShape
  <1>3. Effects(e, r)
    BY <1>2 DEF Effects
  <1> QED BY <1>1, <1>3

\* The step that follows progress.
LEMMA AdvanceStep ==
    ASSUME Shape, NEW e \in Runs, NEW r \in RunRec, Advance(e, r),
           call[e].at = "answered", call[e].reply = "ok",
           r.draft = run[e].draft, r.owner = run[e].owner, r.outcome = run[e].outcome,
           r.aborted = run[e].aborted,
           \/ run[e].phase = "creating" /\ r.id = call[e].value /\ r.offset = 0
           \/ run[e].phase = "putting" /\ r.id = run[e].id /\ r.offset = run[e].offset + ChunkLen(run[e])
           \/ run[e].phase \in {"resyncing", "recovering"} /\ r.id = run[e].id /\ r.offset = call[e].value,
           used' = used, started' = started
    PROVE  \E s \in RunRec : Moves(e, s) /\ Effects(e, s)
  <1> DEFINE d == run[e].draft
             s == [r EXCEPT !.phase = IF r.offset < Size THEN "putting" ELSE "completing"]
  <1>0. Live(e) /\ run[e].phase # "opening"
    BY DEF Live
  <1>1. CASE ~Present(r.draft)
    <2>1. Ends(e, "aborted")
      <3>1. r.draft = run[e].draft
        OBVIOUS
      <3> QED BY <1>1, <3>1 DEF Advance
    <2>2. "aborted" \in Outcomes \ {""} /\ "aborted" # "done" /\ "aborted" # "failed"
      BY DEF Outcomes
    <2> QED BY <2>1, <2>2, <1>0, EndsStep
  <1>2. CASE Present(r.draft)
    <2>1. d \in Drafts /\ r.draft = d
      BY DEF RunRec
    <2>2. /\ Goes(e, s) /\ cell' = Mutated(d, "uploading") /\ given' = given /\ store' = store
      BY <1>2 DEF Advance
    <2>3. /\ s \in RunRec /\ s.draft = d /\ s.owner = run[e].owner /\ s.outcome = run[e].outcome
          /\ s.aborted = run[e].aborted /\ s.id = r.id /\ s.offset = r.offset
          /\ s.phase = IF r.offset < Size THEN "putting" ELSE "completing"
      BY DEF RunRec, Phases
    <2>4. s.phase \in {"putting", "completing"} /\ (r.offset = 0 => s.phase = "putting")
      BY <2>3, UploadAssumption
    <2> HIDE DEF s
    <2>5. Moves(e, s)
      BY <2>2, <2>3, <2>4, <1>0 DEF Moves, Awaiting
    <2>6. "uploading" \in Statuses \ {"absent"} /\ DraftShape
      BY DEF Statuses, Shape
    <2>7. /\ Mutated(d, "uploading") \in [Drafts -> Statuses]
          /\ \A x \in Drafts : x # d => Mutated(d, "uploading")[x] = cell[x]
          /\ cell[d] = "absent" => Mutated(d, "uploading")[d] = "absent"
          /\ cell[d] # "absent" => Mutated(d, "uploading")[d] = "uploading"
      BY <2>1, <2>6, MutatedCell
    <2>8. DraftShape'
      BY <2>2, <2>6, <2>7 DEF DraftShape
    <2>9. Effects(e, s)
      BY <2>2, <2>3, <2>4, <2>7, <2>8, <1>0 DEF Effects
    <2> QED BY <2>3, <2>5, <2>9
  <1> QED BY <1>1, <1>2

\* The step into a wait.
LEMMA ParkStep ==
    ASSUME Shape, NEW e \in Runs, NEW r \in RunRec, NEW resume, Park(e, r, resume),
           r.draft = run[e].draft, r.owner = run[e].owner, r.outcome = run[e].outcome,
           r.id = run[e].id, r.offset = run[e].offset,
           \/ run[e].phase = "creating" /\ resume = "creating"
           \/ run[e].phase \in {"putting", "resyncing"} /\ resume = "recovering"
           \/ run[e].phase = "completing" /\ resume = "completing",
           used' = used, started' = started
    PROVE  \E s \in RunRec : Moves(e, s) /\ Effects(e, s)
  <1> DEFINE d == run[e].draft
             s == [r EXCEPT !.phase = "parked", !.resume = resume, !.edge = ~online,
                            !.aborted = ~Present(r.draft)]
  <1>0. Live(e) /\ run[e].phase # "opening"
    BY DEF Live
  <1>1. d \in Drafts /\ r.draft = d
    BY DEF RunRec
  <1>2. /\ Goes(e, s) /\ cell' = Mutated(d, "waiting") /\ given' = given
        /\ store' = IF Present(d) THEN store ELSE Released(run[e].owner, {d})
    BY <1>1 DEF Park
  <1>3. /\ s \in RunRec /\ s.draft = d /\ s.owner = run[e].owner /\ s.outcome = run[e].outcome
        /\ s.id = run[e].id /\ s.offset = run[e].offset /\ s.phase = "parked" /\ s.resume = resume
    BY DEF RunRec, Phases
  <1>4. s.aborted = (cell[d] = "absent")
    <2>1. s.aborted = ~Present(r.draft)
      BY DEF RunRec
    <2> QED BY <2>1, <1>1 DEF Present
  <1> HIDE DEF s
  <1>5. \/ Before(run[e]) /\ Before(s)
        \/ Sending(run[e]) /\ Sending(s)
        \/ Finishing(run[e]) /\ Finishing(s)
    BY <1>3 DEF Before, Sending, Finishing
  <1>6. Moves(e, s)
    BY <1>0, <1>2, <1>3, <1>5 DEF Moves
  <1>7. "waiting" \in Statuses \ {"absent"} /\ DraftShape
    BY DEF Statuses, Shape
  <1>8. /\ cell' \in [Drafts -> Statuses]
        /\ \A x \in Drafts : x # d => cell'[x] = cell[x]
        /\ cell[d] = "absent" => cell'[d] = "absent"
        /\ cell[d] # "absent" => cell'[d] = "waiting"
    <2>1. /\ Mutated(d, "waiting") \in [Drafts -> Statuses]
          /\ \A x \in Drafts : x # d => Mutated(d, "waiting")[x] = cell[x]
          /\ cell[d] = "absent" => Mutated(d, "waiting")[d] = "absent"
          /\ cell[d] # "absent" => Mutated(d, "waiting")[d] = "waiting"
      BY <1>1, <1>7, MutatedCell
    <2> QED BY <2>1, <1>2
  <1>9. /\ store' \in StoreRec /\ store'.number = store.number
        /\ \A x \in Drafts : x # d => store'.handles[x] = store.handles[x]
        /\ cell[d] # "absent" => store' = store
    <2>1. /\ Released(run[e].owner, {d}) \in StoreRec
          /\ Released(run[e].owner, {d}).number = store.number
          /\ \A x \in Drafts : x # d => Released(run[e].owner, {d}).handles[x] = store.handles[x]
      BY <1>1, <1>7, ReleasedStore
    <2>2. store \in StoreRec
      BY <1>7 DEF DraftShape
    <2> QED BY <2>1, <2>2, <1>2 DEF Present
  <1>10. DraftShape'
    BY <1>2, <1>7, <1>8, <1>9 DEF DraftShape
  <1>11. Effects(e, s)
    BY <1>0, <1>2, <1>3, <1>4, <1>8, <1>9, <1>10 DEF Effects
  <1> QED BY <1>3, <1>6, <1>11

\* Chunk sizes stay within their limits.
LEMMA ChunkBounds ==
    ASSUME NEW c \in MinChunk..MaxChunk
    PROVE  Halved(c) \in MinChunk..MaxChunk /\ Doubled(c) \in MinChunk..MaxChunk
  BY UploadAssumption DEF Halved, Doubled

\* A retryable failure.
LEMMA FailsStep ==
    ASSUME Shape, NEW e \in Runs, Fails(e), run[e].phase \in Requesting,
           used' = used, started' = started
    PROVE  \E s \in RunRec : Moves(e, s) /\ Effects(e, s)
  <1>0. run[e] \in RunRec
    BY DEF Shape, EngineShape
  <1>1. CASE run[e].phase \in {"creating", "completing"}
    <2>1. Park(e, run[e], run[e].phase)
      BY <1>1 DEF Fails
    <2> QED BY <2>1, <1>0, <1>1, ParkStep
  <1>2. CASE run[e].phase = "putting"
    <2> DEFINE r == [run[e] EXCEPT !.chunk = Halved(@)]
    <2>1. Park(e, r, "recovering")
      BY <1>2 DEF Fails
    <2>2. Halved(run[e].chunk) \in MinChunk..MaxChunk
      BY <1>0, ChunkBounds DEF RunRec
    <2>3. /\ r \in RunRec /\ r.draft = run[e].draft /\ r.owner = run[e].owner
          /\ r.outcome = run[e].outcome /\ r.id = run[e].id /\ r.offset = run[e].offset
      BY <1>0, <2>2 DEF RunRec
    <2> HIDE DEF r
    <2> QED BY <2>1, <2>3, <1>2, ParkStep
  <1>3. CASE run[e].phase = "resyncing"
    <2>1. Park(e, run[e], "recovering")
      BY <1>3 DEF Fails
    <2> QED BY <2>1, <1>0, <1>3, ParkStep
  <1>4. CASE run[e].phase = "recovering"
    <2> DEFINE r == [run[e] EXCEPT !.phase = "putting"]
    <2>1. Goes(e, r) /\ cell' = cell /\ given' = given /\ store' = store
      BY <1>4 DEF Fails
    <2>2. /\ r \in RunRec /\ r.draft = run[e].draft /\ r.owner = run[e].owner
          /\ r.outcome = run[e].outcome /\ r.id = run[e].id /\ r.offset = run[e].offset
          /\ r.aborted = run[e].aborted /\ r.phase = "putting"
      BY <1>0 DEF RunRec, Phases
    <2> HIDE DEF r
    <2>3. Sending(run[e]) /\ Sending(r) /\ Live(e)
      BY <1>4, <2>2 DEF Sending, Live
    <2> QED BY <2>1, <2>2, <2>3, <1>4, GoStep
  <1> QED BY <1>1, <1>2, <1>3, <1>4 DEF Requesting

EngineAction(e) ==
    Opened(e) \/ OpenFails(e) \/ Unpark(e) \/ Lose(e) \/ Answered(e) \/ Unsupported(e)

\* The bytes are there.
LEMMA OpenedStep ==
    ASSUME Shape, NEW e \in Runs, Opened(e)
    PROVE  \E s \in RunRec : Moves(e, s) /\ Effects(e, s)
  <1> DEFINE d == run[e].draft
             r == [run[e] EXCEPT !.phase = "creating"]
             t == [store EXCEPT !.handles[d] = e]
  <1>b. e \in 0..MaxRuns
    BY UploadAssumption DEF Runs
  <1>0. run[e] \in RunRec /\ d \in Drafts /\ e \in 0..MaxRuns /\ store \in StoreRec
    BY <1>b DEF Shape, EngineShape, DraftShape, RunRec
  <1>1. run[e].phase = "opening" /\ used' = used /\ started' = started /\ Live(e)
    BY DEF Opened, Live
  <1>2. CASE ~Present(d)
    <2>1. Ends(e, "aborted")
      BY <1>2 DEF Opened
    <2>2. "aborted" \in Outcomes \ {""} /\ "aborted" # "done" /\ "aborted" # "failed"
      BY DEF Outcomes
    <2> QED BY <2>1, <2>2, <1>1, EndsStep
  <1>3. CASE Present(d)
    <2>1. /\ Goes(e, r) /\ cell' = cell /\ given' = given
          /\ store' = IF run[e].owner = store.number THEN t ELSE store
      BY <1>3 DEF Opened
    <2>2. /\ r \in RunRec /\ r.draft = d /\ r.owner = run[e].owner /\ r.outcome = run[e].outcome
          /\ r.id = run[e].id /\ r.offset = run[e].offset /\ r.phase = "creating"
          /\ r.aborted = run[e].aborted
      BY <1>0 DEF RunRec, Phases
    <2>3. /\ t \in StoreRec /\ t.number = store.number /\ t.handles[d] = e
          /\ \A x \in Drafts : x # d => t.handles[x] = store.handles[x]
      BY <1>0 DEF StoreRec
    <2> HIDE DEF r, t
    <2>4. Moves(e, r)
      BY <2>1, <2>2, <1>1 DEF Moves, Before
    <2>5. DraftShape'
      BY <2>1, <2>3, <1>0, <1>1 DEF DraftShape, Shape
    <2>6. Effects(e, r)
      BY <2>1, <2>2, <2>3, <2>5, <1>1 DEF Effects
    <2> QED BY <2>2, <2>4, <2>6
  <1> QED BY <1>2, <1>3

\* An answer.
LEMMA AnsweredStep ==
    ASSUME Shape, Claims, NEW e \in Runs, Answered(e)
    PROVE  \E s \in RunRec : Moves(e, s) /\ Effects(e, s)
  <1>0. /\ run[e] \in RunRec /\ call[e] \in CallRec /\ call[e].at = "answered"
        /\ used' = used /\ started' = started
    BY DEF Shape, EngineShape, CallShape, Answered
  <1>1. run[e].phase \in Requesting
    BY <1>0 DEF Shape, Waits, Awaits
  <1>a. Live(e) /\ run[e].phase # "opening"
    BY <1>1 DEF Live, Requesting
  <1>2. CASE Fails(e)
    BY <1>0, <1>1, <1>2, FailsStep
  <1>3. CASE call[e].reply = "ok" /\ run[e].phase = "creating"
             /\ Advance(e, [run[e] EXCEPT !.id = call[e].value, !.offset = 0, !.chunk = InitialChunk])
    <2> DEFINE r == [run[e] EXCEPT !.id = call[e].value, !.offset = 0, !.chunk = InitialChunk]
    <2>1. call[e].value \in 0..MaxSessions
      <3>1. Claim(e) = call[e].value
        BY <1>0, <1>3 DEF Claim, Awaiting
      <3>2. Claim(e) \in 0..minted /\ minted \in 0..MaxSessions
        BY DEF Claims, Shape, ServiceShape
      <3> QED BY <3>1, <3>2, UploadAssumption
    <2>2. /\ r \in RunRec /\ r.draft = run[e].draft /\ r.owner = run[e].owner
          /\ r.outcome = run[e].outcome /\ r.aborted = run[e].aborted
          /\ r.id = call[e].value /\ r.offset = 0
      BY <1>0, <2>1, UploadAssumption DEF RunRec
    <2>3. Advance(e, r)
      BY <1>3
    <2> HIDE DEF r
    <2> QED BY <2>2, <2>3, <1>0, <1>3, AdvanceStep
  <1>4. ASSUME NEW chunk \in {run[e].chunk, Doubled(run[e].chunk)},
               call[e].reply = "ok" /\ run[e].phase = "putting",
               Advance(e, [run[e] EXCEPT !.offset = @ + ChunkLen(run[e]), !.chunk = chunk])
        PROVE  \E s \in RunRec : Moves(e, s) /\ Effects(e, s)
    <2> DEFINE r == [run[e] EXCEPT !.offset = @ + ChunkLen(run[e]), !.chunk = chunk]
    <2>1. run[e].chunk \in MinChunk..MaxChunk
      BY <1>0 DEF RunRec
    <2>2. chunk \in MinChunk..MaxChunk
      BY <2>1, ChunkBounds
    <2>3. run[e].offset \in Nat /\ run[e].offset < Size
      BY <1>0, <1>4 DEF RunRec, Shape, Waits, Awaits, Sending
    <2>4. run[e].offset + ChunkLen(run[e]) \in Nat
      BY <2>1, <2>3, UploadAssumption DEF ChunkLen
    <2>5. /\ r \in RunRec /\ r.draft = run[e].draft /\ r.owner = run[e].owner
          /\ r.outcome = run[e].outcome /\ r.aborted = run[e].aborted
          /\ r.id = run[e].id /\ r.offset = run[e].offset + ChunkLen(run[e])
      BY <1>0, <2>2, <2>4 DEF RunRec
    <2>6. Advance(e, r)
      BY <1>4
    <2> HIDE DEF r
    <2> QED BY <2>5, <2>6, <1>0, <1>4, AdvanceStep
  <1>5. CASE call[e].reply = "mismatch" /\ run[e].phase = "putting"
             /\ Goes(e, [run[e] EXCEPT !.phase = "resyncing"])
             /\ cell' = cell /\ given' = given /\ store' = store
    <2> DEFINE r == [run[e] EXCEPT !.phase = "resyncing"]
    <2>1. /\ r \in RunRec /\ r.draft = run[e].draft /\ r.owner = run[e].owner
          /\ r.outcome = run[e].outcome /\ r.id = run[e].id /\ r.offset = run[e].offset
          /\ r.aborted = run[e].aborted /\ r.phase = "resyncing"
      BY <1>0 DEF RunRec, Phases
    <2>2. Goes(e, r)
      BY <1>5
    <2> HIDE DEF r
    <2>3. Sending(run[e]) /\ Sending(r)
      BY <1>5, <2>1 DEF Sending
    <2> QED BY <2>1, <2>2, <2>3, <1>0, <1>a, <1>5, GoStep
  <1>6. CASE call[e].reply = "ok" /\ run[e].phase \in {"resyncing", "recovering"}
             /\ Advance(e, [run[e] EXCEPT !.offset = call[e].value])
    <2> DEFINE r == [run[e] EXCEPT !.offset = call[e].value]
    <2>1. call[e].value \in Nat
      BY <1>0 DEF CallRec
    <2>2. /\ r \in RunRec /\ r.draft = run[e].draft /\ r.owner = run[e].owner
          /\ r.outcome = run[e].outcome /\ r.aborted = run[e].aborted
          /\ r.id = run[e].id /\ r.offset = call[e].value
      BY <1>0, <2>1 DEF RunRec
    <2>3. Advance(e, r)
      BY <1>6
    <2> HIDE DEF r
    <2> QED BY <2>2, <2>3, <1>0, <1>6, AdvanceStep
  <1>7. CASE call[e].reply = "ok" /\ run[e].phase = "completing" /\ Ends(e, "done")
    <2>1. "done" \in Outcomes \ {""} /\ "done" # "failed"
      BY DEF Outcomes
    <2>2. Awaiting(e, "completing")
      BY <1>0, <1>7 DEF Awaiting
    <2> QED BY <2>1, <2>2, <1>0, <1>a, <1>7, EndsStep
  <1>8. CASE call[e].reply = "mismatch" /\ run[e].phase = "completing" /\ Ends(e, "failed")
    <2>1. "failed" \in Outcomes \ {""} /\ "done" # "failed"
      BY DEF Outcomes
    <2> QED BY <2>1, <1>0, <1>a, <1>8, EndsStep
  <1>9. CASE call[e].reply = "unknown" /\ run[e].phase # "recovering" /\ Ends(e, "failed")
    <2>1. "failed" \in Outcomes \ {""} /\ "done" # "failed"
      BY DEF Outcomes
    <2> QED BY <2>1, <1>0, <1>a, <1>9, EndsStep
  <1>10. CASE call[e].reply = "too_large" /\ Ends(e, "too_large")
    <2>1. "too_large" \in Outcomes \ {""} /\ "done" # "too_large" /\ "failed" # "too_large"
      BY DEF Outcomes
    <2> QED BY <2>1, <1>0, <1>a, <1>10, EndsStep
  <1> QED BY <1>2, <1>3, <1>4, <1>5, <1>6, <1>7, <1>8, <1>9, <1>10 DEF Answered

\* Every step of an engine moves it on; only a loss leaves a request behind.
LEMMA EngineStep ==
    ASSUME Shape, Claims, NEW e \in Runs, EngineAction(e)
    PROVE  /\ \E s \in RunRec : Moves(e, s) /\ Effects(e, s)
           /\ late' = late \/ late' = late \cup Abandoned({e})
           /\ LinkShape' /\ disk' = disk /\ minted' = minted /\ sent' = sent
  <1>1. CASE Opened(e)
    <2>1. late' = late /\ online' = online /\ up' = up /\ faults' = faults
          /\ disk' = disk /\ minted' = minted /\ sent' = sent
      BY <1>1 DEF Opened, link, service
    <2> QED BY <2>1, <1>1, OpenedStep DEF Shape, LinkShape
  <1>2. CASE OpenFails(e)
    <2>1. late' = late /\ online' = online /\ up' = up
          /\ disk' = disk /\ minted' = minted /\ sent' = sent /\ used' = used /\ started' = started
      BY <1>2 DEF OpenFails, link, service
    <2>2. faults' \in 0..MaxFaults
      BY <1>2, UploadAssumption DEF OpenFails, Fault, Shape, LinkShape
    <2>3. LinkShape'
      BY <2>1, <2>2 DEF Shape, LinkShape
    <2>4. Live(e)
      BY <1>2 DEF OpenFails, Live
    <2>5. /\ "unreadable" \in Outcomes \ {""} /\ "unreadable" # "done" /\ "unreadable" # "failed"
          /\ "too_large" \in Outcomes \ {""} /\ "too_large" # "done" /\ "too_large" # "failed"
      BY DEF Outcomes
    <2>6. CASE Ends(e, "unreadable")
      BY <2>1, <2>4, <2>5, <2>6, <2>3, EndsStep
    <2>7. CASE Ends(e, "too_large")
      BY <2>1, <2>4, <2>5, <2>7, <2>3, EndsStep
    <2> QED BY <2>6, <2>7, <1>2 DEF OpenFails
  <1>3. CASE Unpark(e)
    <2>1. late' = late /\ online' = online /\ up' = up /\ faults' = faults
          /\ disk' = disk /\ minted' = minted /\ sent' = sent /\ used' = used /\ started' = started
      BY <1>3 DEF Unpark, link, service
    <2>2. LinkShape'
      BY <2>1 DEF Shape, LinkShape
    <2>3. run[e].phase = "parked" /\ Live(e) /\ run[e] \in RunRec /\ run[e].resume # ""
      BY <1>3 DEF Unpark, Live, Shape, EngineShape, Waits, Awaits
    <2>4. CASE run[e].aborted
      <3>1. Ends(e, "aborted")
        BY <1>3, <2>4 DEF Unpark
      <3>2. "aborted" \in Outcomes \ {""} /\ "aborted" # "done" /\ "aborted" # "failed"
        BY DEF Outcomes
      <3> QED BY <3>1, <3>2, <2>1, <2>2, <2>3, EndsStep
    <2>5. CASE ~run[e].aborted
      <3> DEFINE r == [run[e] EXCEPT !.phase = run[e].resume]
      <3>1. Goes(e, r) /\ cell' = cell /\ given' = given /\ store' = store
        BY <1>3, <2>5 DEF Unpark
      <3>2. run[e].resume \in {"creating", "recovering", "completing"}
        BY <2>3 DEF RunRec
      <3>3. /\ r \in RunRec /\ r.draft = run[e].draft /\ r.owner = run[e].owner
            /\ r.outcome = run[e].outcome /\ r.id = run[e].id /\ r.offset = run[e].offset
            /\ r.aborted = run[e].aborted /\ r.phase = run[e].resume
        BY <2>3, <3>2 DEF RunRec, Phases
      <3> HIDE DEF r
      <3>4. \/ Before(run[e]) /\ Before(r)
            \/ Sending(run[e]) /\ Sending(r)
            \/ Finishing(run[e]) /\ Finishing(r)
        BY <2>3, <3>2, <3>3 DEF Before, Sending, Finishing
      <3>5. r.phase \notin {"none", "opening"} /\ run[e].phase # "opening"
        BY <3>2, <3>3, <2>3
      <3>6. \E s \in RunRec : Moves(e, s) /\ Effects(e, s)
        BY <3>1, <3>3, <3>4, <3>5, <2>1, <2>3, GoStep
      <3> QED BY <3>6, <2>1, <2>2
    <2> QED BY <2>4, <2>5
  <1>4. CASE Lose(e)
    <2>1. /\ late' = late \cup Abandoned({e}) /\ online' = online /\ up' = up
          /\ disk' = disk /\ minted' = minted /\ sent' = sent /\ used' = used /\ started' = started
      BY <1>4 DEF Lose, link, service
    <2>2. faults' \in 0..MaxFaults
      BY <1>4, UploadAssumption DEF Lose, Fault, Shape, LinkShape
    <2>3. LinkShape'
      BY <2>1, <2>2 DEF Shape, LinkShape
    <2>4. run[e].phase \in Requesting /\ Fails(e)
      BY <1>4 DEF Lose, Shape, Waits, Awaits
    <2> QED BY <2>1, <2>3, <2>4, FailsStep
  <1>5. CASE Answered(e)
    <2>1. late' = late /\ online' = online /\ up' = up /\ faults' = faults
          /\ disk' = disk /\ minted' = minted /\ sent' = sent
      BY <1>5 DEF Answered, link, service
    <2> QED BY <2>1, <1>5, AnsweredStep DEF Shape, LinkShape
  <1>6. CASE Unsupported(e)
    <2>1. late' = late /\ online' = online /\ up' = up
          /\ disk' = disk /\ minted' = minted /\ sent' = sent /\ used' = used /\ started' = started
      BY <1>6 DEF Unsupported, link, service
    <2>2. faults' \in 0..MaxFaults
      BY <1>6, UploadAssumption DEF Unsupported, Fault, Shape, LinkShape
    <2>3. LinkShape'
      BY <2>1, <2>2 DEF Shape, LinkShape
    <2>4. Live(e) /\ Ends(e, "unsupported_agent")
      BY <1>6 DEF Unsupported, Live
    <2>5. "unsupported_agent" \in Outcomes \ {""} /\ "unsupported_agent" # "done"
          /\ "unsupported_agent" # "failed"
      BY DEF Outcomes
    <2> QED BY <2>1, <2>3, <2>4, <2>5, EndsStep
  <1> QED BY <1>1, <1>2, <1>3, <1>4, <1>5, <1>6 DEF EngineAction

----------------------------------------------------------------------------
(* Requests.                                                                *)

\* The request of an engine, by its phase.
LEMMA RequestOf ==
    ASSUME EngineShape, NEW e \in Runs, Awaits(run[e], call[e])
    PROVE  /\ Request(e).id = run[e].id /\ Request(e).offset = run[e].offset
           /\ Request(e).len = ChunkLen(run[e])
           /\ run[e].offset \in Nat /\ ChunkLen(run[e]) \in Int
           /\ run[e].phase = "creating" <=> Request(e).op = "create"
           /\ run[e].phase = "putting" <=> Request(e).op = "put"
           /\ run[e].phase = "completing" <=> Request(e).op = "complete"
           /\ Request(e).op \in {"create", "put", "complete", "status"}
           /\ run[e].phase = "putting" =>
                ChunkLen(run[e]) \in Nat /\ run[e].offset + ChunkLen(run[e]) <= Size
           /\ Request(e).op # "status" => Request(e) \in RequestRec
  <1>1. run[e] \in RunRec
    BY DEF EngineShape
  <1>2. /\ run[e].offset \in Nat /\ run[e].chunk \in MinChunk..MaxChunk
        /\ run[e].id \in 0..MaxSessions
    BY <1>1 DEF RunRec
  <1>3. ChunkLen(run[e]) \in Int
    BY <1>2, UploadAssumption DEF ChunkLen
  <1>4. ASSUME run[e].phase = "putting"
        PROVE  ChunkLen(run[e]) \in Nat /\ run[e].offset + ChunkLen(run[e]) <= Size
    <2>1. run[e].offset < Size
      BY <1>4 DEF Awaits, Sending
    <2> QED BY <2>1, <1>2, UploadAssumption DEF ChunkLen
  <1>5. /\ Request(e).id = run[e].id /\ Request(e).offset = run[e].offset
        /\ Request(e).len = ChunkLen(run[e])
    BY DEF Request
  <1>6. /\ run[e].phase = "creating" <=> Request(e).op = "create"
        /\ run[e].phase = "putting" <=> Request(e).op = "put"
        /\ run[e].phase = "completing" <=> Request(e).op = "complete"
        /\ Request(e).op \in {"create", "put", "complete", "status"}
    BY DEF Request
  <1>7. Request(e).op # "status" => Request(e) \in RequestRec
    BY <1>2, <1>3, <1>6 DEF Request, RequestRec
  <1> QED BY <1>2, <1>3, <1>4, <1>5, <1>6, <1>7

\* A request left behind is the one its engine awaited.
LEMMA AbandonedOf ==
    ASSUME NEW E, NEW l \in Abandoned(E)
    PROVE  \E e \in E : /\ l.q = Request(e) /\ l.at = call[e].at /\ l.n[1] = e
                        /\ l = [q |-> Request(e), at |-> call[e].at, n |-> <<e, faults>>]
                        /\ call[e].at \in Places /\ run[e].phase \notin {"resyncing", "recovering"}
  <1>1. PICK e \in E : /\ call[e].at \in Places /\ run[e].phase \notin {"resyncing", "recovering"}
                       /\ l = [q |-> Request(e), at |-> call[e].at, n |-> <<e, faults>>]
    BY DEF Abandoned, Places
  <1> QED BY <1>1

\* Requests left behind have the shape of late ones.
LEMMA AbandonedShape ==
    ASSUME Shape, NEW E \in SUBSET Runs
    PROVE  /\ Abandoned(E) \in SUBSET LateRec /\ IsFiniteSet(Abandoned(E))
           /\ \A l \in Abandoned(E) : LateAt(l)
  <1>1. ASSUME NEW l \in Abandoned(E)
        PROVE  l \in LateRec /\ LateAt(l)
    <2>1. PICK e \in E : /\ l.q = Request(e) /\ l.at = call[e].at /\ l.n[1] = e
                         /\ l = [q |-> Request(e), at |-> call[e].at, n |-> <<e, faults>>]
                         /\ call[e].at \in Places /\ run[e].phase \notin {"resyncing", "recovering"}
      BY AbandonedOf
    <2>2. e \in Runs /\ EngineShape /\ Awaits(run[e], call[e]) /\ faults \in Nat
      BY UploadAssumption DEF Shape, Waits, LinkShape
    <2>3. call[e].at # "none"
      BY <2>1 DEF Places, InService
    <2>4. run[e].phase \in {"creating", "putting", "completing"}
      BY <2>1, <2>2, <2>3 DEF Awaits, Requesting
    <2>5. /\ run[e].phase = "putting" <=> Request(e).op = "put"
          /\ run[e].phase = "completing" <=> Request(e).op = "complete"
          /\ Request(e).op # "status" => Request(e) \in RequestRec
          /\ run[e].phase = "creating" <=> Request(e).op = "create"
          /\ run[e].phase = "putting" => Request(e).len \in Nat
      BY <2>2, RequestOf
    <2>6. Request(e) \in RequestRec
      BY <2>4, <2>5
    <2>7. l \in LateRec
      BY <2>1, <2>2, <2>6 DEF LateRec
    <2>8. LateAt(l)
      BY <2>1, <2>2, <2>5 DEF LateAt, Awaits
    <2> QED BY <2>7, <2>8
  <1>2. IsFiniteSet(Abandoned(E))
    <2> DEFINE S == {x \in E : /\ call[x].at \in {"sent"} \cup InService
                               /\ run[x].phase \notin {"resyncing", "recovering"}}
               g == [e \in S |-> [q |-> Request(e), at |-> call[e].at, n |-> <<e, faults>>]]
    <2>1. IsFiniteSet(Runs)
      BY UploadAssumption, FS_Interval DEF Runs
    <2>2. IsFiniteSet(S)
      BY <2>1, FS_Subset
    <2>3. g \in Surjection(S, Abandoned(E))
      BY DEF Surjection, Abandoned
    <2> HIDE DEF S, g
    <2> QED BY <2>2, <2>3, FS_Surjection
  <1> QED BY <1>1, <1>2

\* Two sequences in a row.
LEMMA ConcatOf ==
    ASSUME NEW p \in Seq(Nat), NEW t \in Seq(Nat)
    PROVE  /\ p \o t \in Seq(Nat) /\ Len(p \o t) = Len(p) + Len(t)
           /\ \A k \in 1..Len(p) : (p \o t)[k] = p[k]
           /\ \A k \in 1..Len(t) : (p \o t)[Len(p) + k] = t[k]
  OBVIOUS

\* What the service does, by type.
LEMMA PartData ==
    ASSUME NEW p \in Seq(Nat), NEW q, q.offset \in Nat, q.len \in Nat
    PROVE  /\ Data(q) \in Seq(Nat) /\ p \o Data(q) \in Seq(Nat) /\ Len(Data(q)) = q.len
           /\ Len(p \o Data(q)) = Len(p) + q.len
           /\ \A k \in 1..Len(p) : (p \o Data(q))[k] = p[k]
           /\ \A k \in 1..q.len : (p \o Data(q))[Len(p) + k] = q.offset + k
  <1>1. Data(q) \in Seq(Nat) /\ Len(Data(q)) = q.len
    BY DEF Data
  <1>2. \A k \in 1..q.len : Data(q)[k] = q.offset + k
    BY DEF Data
  <1> HIDE DEF Data
  <1> DEFINE t == Data(q)
  <1>3. t \in Seq(Nat) /\ Len(t) = q.len /\ \A k \in 1..q.len : t[k] = q.offset + k
    BY <1>1, <1>2
  <1> HIDE DEF t
  <1>4. /\ p \o t \in Seq(Nat) /\ Len(p \o t) = Len(p) + Len(t)
        /\ \A k \in 1..Len(p) : (p \o t)[k] = p[k]
        /\ \A k \in 1..Len(t) : (p \o t)[Len(p) + k] = t[k]
    BY <1>3, ConcatOf
  <1>5. \A k \in 1..q.len : (p \o t)[Len(p) + k] = q.offset + k
    BY <1>3, <1>4
  <1> QED BY <1>3, <1>4, <1>5 DEF t

\* How far the service can be with a request.
Fits(q, at) ==
    /\ at \in Places
    /\ at = "checked" => q.op = "put"
    /\ at \in {"looked", "renamed", "recorded"} => q.op = "complete"

\* All the bytes of an open session are there.
Completable(q) == disk[q.id].session /\ Len(disk[q.id].part) = Size

\* One step of the service, case by case.
LEMMA ServedCreate ==
    ASSUME NEW q, NEW at, Fits(q, at), q.op = "create"
    PROVE  /\ Served(q, at).disk = [disk EXCEPT ![minted + 1] = [NoFiles EXCEPT !.session = TRUE]]
           /\ Served(q, at).minted = minted + 1
           /\ Served(q, at).now = Reply("ok", minted + 1)
  BY DEF Served, Fits

\* The first step on a request changes no file.
LEMMA ServedSent ==
    ASSUME NEW q, NEW at, Fits(q, at), at = "sent" \/ q.op = "status"
    PROVE  /\ q.op = "put" =>
                Served(q, at) = [disk |-> disk, minted |-> minted, now |-> PutChecked(q)]
           /\ q.op = "status" =>
                Served(q, at) = [disk |-> disk, minted |-> minted, now |-> StatusReply(q)]
           /\ q.op = "complete" =>
                Served(q, at) = [disk |-> disk, minted |-> minted, now |-> FinalizeLooked(q)]
  BY DEF Served, Fits

\* A checked chunk is appended.
LEMMA ServedChecked ==
    ASSUME NEW q, Fits(q, "checked")
    PROVE  /\ Served(q, "checked").disk = [disk EXCEPT ![q.id] = [disk[q.id] EXCEPT !.part = @ \o Data(q)]]
           /\ Served(q, "checked").minted = minted /\ Served(q, "checked").now = Reply("ok", 0)
  BY DEF Served, Fits

\* The stage is renamed, or the completion is refused.
LEMMA ServedLooked ==
    ASSUME NEW q, Fits(q, "looked")
    PROVE  /\ Completable(q) =>
                /\ Served(q, "looked").disk = [disk EXCEPT ![q.id] =
                     [disk[q.id] EXCEPT !.part = <<>>, !.blob = disk[q.id].part]]
                /\ Served(q, "looked").minted = minted /\ Served(q, "looked").now = At("renamed")
           /\ ~Completable(q) =>
                /\ Served(q, "looked").disk = disk /\ Served(q, "looked").minted = minted
                /\ Served(q, "looked").now \in {Reply("mismatch", 0), Reply("unknown", 0)}
  BY DEF Served, Fits, Completable

\* The record follows the rename.
LEMMA ServedRenamed ==
    ASSUME NEW q, Fits(q, "renamed")
    PROVE  /\ Served(q, "renamed").disk = [disk EXCEPT ![q.id] = [disk[q.id] EXCEPT !.meta = TRUE]]
           /\ Served(q, "renamed").minted = minted /\ Served(q, "renamed").now = At("recorded")
  BY DEF Served, Fits

\* The session file goes last.
LEMMA ServedRecorded ==
    ASSUME NEW q, Fits(q, "recorded")
    PROVE  /\ Served(q, "recorded").disk = [disk EXCEPT ![q.id] = [disk[q.id] EXCEPT !.session = FALSE]]
           /\ Served(q, "recorded").minted = minted /\ Served(q, "recorded").now = Reply("ok", q.id)
  BY DEF Served, Fits

\* Replies and places are calls.
LEMMA CallTypes ==
    /\ \A v \in Nat : \A w \in {"ok", "broken", "unknown", "mismatch", "too_large"} :
         /\ Reply(w, v) \in CallRec /\ Reply(w, v).at = "answered"
         /\ Reply(w, v).reply = w /\ Reply(w, v).value = v
    /\ \A p \in Places : At(p) \in CallRec /\ At(p).at = p
  BY DEF Reply, At, NoCall, CallRec, Places, InService

\* The files of an id after each step.
LEMMA FileTypes ==
    /\ [NoFiles EXCEPT !.session = TRUE] \in FilesRec /\ NoFiles \in FilesRec
    /\ \A f \in FilesRec : /\ [f EXCEPT !.meta = TRUE] \in FilesRec
                           /\ [f EXCEPT !.session = FALSE] \in FilesRec
                           /\ [f EXCEPT !.part = <<>>, !.blob = f.part] \in FilesRec
                           /\ \A p \in Seq(Nat) : [f EXCEPT !.part = p] \in FilesRec
  <1>1. <<>> \in Seq(Nat)
    OBVIOUS
  <1>2. [NoFiles EXCEPT !.session = TRUE] \in FilesRec /\ NoFiles \in FilesRec
    BY <1>1 DEF NoFiles, FilesRec
  <1>3. ASSUME NEW f \in FilesRec
        PROVE  /\ [f EXCEPT !.meta = TRUE] \in FilesRec
               /\ [f EXCEPT !.session = FALSE] \in FilesRec
               /\ [f EXCEPT !.part = <<>>, !.blob = f.part] \in FilesRec
               /\ \A p \in Seq(Nat) : [f EXCEPT !.part = p] \in FilesRec
    BY <1>1 DEF FilesRec
  <1> QED BY <1>2, <1>3

\* What the service does, by type.
LEMMA ServedShape ==
    ASSUME ServiceShape, NEW q, NEW at, Fits(q, at), q.op \in {"create", "put", "complete", "status"},
           q.op = "create" => minted < MaxSessions, q.op # "create" => q.id \in Ids,
           q.op = "put" => q.offset \in Nat /\ q.len \in Nat
    PROVE  /\ Served(q, at).disk \in [Ids -> FilesRec] /\ Served(q, at).minted \in 0..MaxSessions
           /\ Served(q, at).now \in CallRec /\ Served(q, at).now.at \in {"answered"} \cup InService
           /\ Served(q, at).now.at = "checked" => q.op = "put"
           /\ Served(q, at).now.at \in {"looked", "renamed", "recorded"} => q.op = "complete"
  <1>0. /\ disk \in [Ids -> FilesRec] /\ minted \in 0..MaxSessions /\ minted \in Nat /\ MaxSessions \in Nat
    BY UploadAssumption DEF ServiceShape
  <1>a. InService = {"checked", "looked", "renamed", "recorded"} /\ Places = {"sent"} \cup InService
    BY DEF InService, Places
  <1>1. CASE q.op = "create"
    <2>1. minted + 1 \in Ids /\ minted + 1 \in Nat /\ minted + 1 \in 0..MaxSessions
      BY <1>0, <1>1 DEF Ids
    <2>2. /\ Served(q, at).disk = [disk EXCEPT ![minted + 1] = [NoFiles EXCEPT !.session = TRUE]]
          /\ Served(q, at).minted = minted + 1 /\ Served(q, at).now = Reply("ok", minted + 1)
      BY <1>1, ServedCreate
    <2>3. Served(q, at).disk \in [Ids -> FilesRec]
      BY <2>1, <2>2, <1>0, FileTypes
    <2>4. Reply("ok", minted + 1) \in CallRec /\ Reply("ok", minted + 1).at = "answered"
      BY <2>1, CallTypes
    <2> QED BY <2>1, <2>2, <2>3, <2>4
  <1>2. ASSUME q.op # "create" PROVE q.id \in Ids /\ disk[q.id] \in FilesRec /\ q.id \in Nat
    BY <1>0, <1>2, UploadAssumption DEF Ids
  <1>3. CASE q.op = "put" /\ at = "sent"
    <2>1. Served(q, at) = [disk |-> disk, minted |-> minted, now |-> PutChecked(q)]
      BY <1>3, ServedSent
    <2>2. PutChecked(q) \in {Reply("unknown", 0), Reply("mismatch", 0), Reply("too_large", 0), At("checked")}
      BY DEF PutChecked
    <2>3. PutChecked(q) \in CallRec /\ PutChecked(q).at \in {"answered", "checked"}
      BY <2>2, CallTypes, <1>a
    <2> QED BY <2>1, <2>3, <1>0, <1>3, <1>a
  <1>4. CASE q.op = "put" /\ at = "checked"
    <2>1. /\ Served(q, at).disk = [disk EXCEPT ![q.id] = [disk[q.id] EXCEPT !.part = @ \o Data(q)]]
          /\ Served(q, at).minted = minted /\ Served(q, at).now = Reply("ok", 0)
      BY <1>4, ServedChecked
    <2>2. disk[q.id].part \in Seq(Nat)
      BY <1>2, <1>4 DEF FilesRec
    <2>3. disk[q.id].part \o Data(q) \in Seq(Nat)
      BY <2>2, <1>4, PartData
    <2>4. [disk[q.id] EXCEPT !.part = @ \o Data(q)] \in FilesRec
      BY <2>3, <1>2, <1>4, FileTypes
    <2>5. Served(q, at).disk \in [Ids -> FilesRec]
      BY <2>1, <2>4, <1>0
    <2>6. Reply("ok", 0) \in CallRec /\ Reply("ok", 0).at = "answered"
      BY CallTypes
    <2> QED BY <2>1, <2>5, <2>6, <1>0
  <1>5. CASE q.op = "status"
    <2>1. Served(q, at) = [disk |-> disk, minted |-> minted, now |-> StatusReply(q)]
      BY <1>5, ServedSent
    <2>2. StatusReply(q) \in {Reply("ok", Size), Reply("ok", Len(disk[q.id].part)), Reply("unknown", 0)}
      BY DEF StatusReply
    <2>3. Size \in Nat /\ Len(disk[q.id].part) \in Nat
      BY UploadAssumption, <1>2, <1>5 DEF FilesRec
    <2>4. StatusReply(q) \in CallRec /\ StatusReply(q).at = "answered"
      BY <2>2, <2>3, CallTypes
    <2> QED BY <2>1, <2>4, <1>0
  <1>6. CASE q.op = "complete" /\ at = "sent"
    <2>1. Served(q, at) = [disk |-> disk, minted |-> minted, now |-> FinalizeLooked(q)]
      BY <1>6, ServedSent
    <2>2. FinalizeLooked(q) \in {Reply("ok", q.id), At("looked")}
      BY DEF FinalizeLooked
    <2>3. FinalizeLooked(q) \in CallRec /\ FinalizeLooked(q).at \in {"answered", "looked"}
      BY <2>2, <1>2, <1>6, CallTypes, <1>a
    <2> QED BY <2>1, <2>3, <1>0, <1>6, <1>a
  <1>7. CASE q.op = "complete" /\ at = "looked"
    <2>1. CASE Completable(q)
      <3>1. /\ Served(q, at).disk = [disk EXCEPT ![q.id] =
                 [disk[q.id] EXCEPT !.part = <<>>, !.blob = disk[q.id].part]]
            /\ Served(q, at).minted = minted /\ Served(q, at).now = At("renamed")
        BY <1>7, <2>1, ServedLooked
      <3>2. [disk[q.id] EXCEPT !.part = <<>>, !.blob = disk[q.id].part] \in FilesRec
        BY <1>2, <1>7, FileTypes
      <3>3. Served(q, at).disk \in [Ids -> FilesRec]
        BY <3>1, <3>2, <1>0
      <3>4. At("renamed") \in CallRec /\ At("renamed").at = "renamed"
        BY CallTypes, <1>a
      <3> QED BY <3>1, <3>3, <3>4, <1>0, <1>7, <1>a
    <2>2. CASE ~Completable(q)
      <3>1. /\ Served(q, at).disk = disk /\ Served(q, at).minted = minted
            /\ Served(q, at).now \in {Reply("mismatch", 0), Reply("unknown", 0)}
        BY <1>7, <2>2, ServedLooked
      <3>a. /\ Reply("mismatch", 0) \in CallRec /\ Reply("mismatch", 0).at = "answered"
            /\ Reply("unknown", 0) \in CallRec /\ Reply("unknown", 0).at = "answered"
        BY CallTypes
      <3>2. Served(q, at).now \in CallRec /\ Served(q, at).now.at = "answered"
        BY <3>1, <3>a
      <3> QED BY <3>1, <3>2, <1>0
    <2> QED BY <2>1, <2>2
  <1>8. CASE q.op = "complete" /\ at = "renamed"
    <2>1. /\ Served(q, at).disk = [disk EXCEPT ![q.id] = [disk[q.id] EXCEPT !.meta = TRUE]]
          /\ Served(q, at).minted = minted /\ Served(q, at).now = At("recorded")
      BY <1>8, ServedRenamed
    <2>a. [disk[q.id] EXCEPT !.meta = TRUE] \in FilesRec
      BY <1>2, <1>8, FileTypes
    <2>2. Served(q, at).disk \in [Ids -> FilesRec]
      BY <2>1, <2>a, <1>0
    <2>3. At("recorded") \in CallRec /\ At("recorded").at = "recorded"
      BY CallTypes, <1>a
    <2> QED BY <2>1, <2>2, <2>3, <1>0, <1>8, <1>a
  <1>9. CASE q.op = "complete" /\ at = "recorded"
    <2>1. /\ Served(q, at).disk = [disk EXCEPT ![q.id] = [disk[q.id] EXCEPT !.session = FALSE]]
          /\ Served(q, at).minted = minted /\ Served(q, at).now = Reply("ok", q.id)
      BY <1>9, ServedRecorded
    <2>a. [disk[q.id] EXCEPT !.session = FALSE] \in FilesRec
      BY <1>2, <1>9, FileTypes
    <2>2. Served(q, at).disk \in [Ids -> FilesRec]
      BY <2>1, <2>a, <1>0
    <2>3. Reply("ok", q.id) \in CallRec /\ Reply("ok", q.id).at = "answered"
      BY <1>2, <1>9, CallTypes
    <2> QED BY <2>1, <2>2, <2>3, <1>0, <1>9
  <1>10. at \in {"sent", "checked", "looked", "renamed", "recorded"}
    BY <1>a DEF Fits
  <1> QED BY <1>1, <1>3, <1>4, <1>5, <1>6, <1>7, <1>8, <1>9, <1>10 DEF Fits

----------------------------------------------------------------------------
(* The shape of the state.                                                  *)

\* What a step adds to the harmed ids.
LEMMA Noted ==
    ASSUME Shape, Note
    PROVE  /\ harmed' \in SUBSET Ids /\ harmed \subseteq harmed' /\ Noticed'
           /\ \A i \in Ids : disk[i] # NoFiles /\ disk'[i] = NoFiles => i \in harmed'
  BY DEF Note, Swept, Shape, ServiceShape, Noticed

\* The step of an engine.
LEMMA MovesShape ==
    ASSUME Shape, NEW e \in Runs, NEW r \in RunRec, Moves(e, r), Effects(e, r),
           late' = late \/ late' = late \cup Abandoned({e}),
           LinkShape', disk' = disk, minted' = minted, sent' = sent, harmed' \in SUBSET Ids
    PROVE  Shape'
  <1>1. EngineShape /\ CallShape /\ Goes(e, r)
    BY DEF Shape, Moves
  <1>2. /\ run' \in [Runs -> RunRec] /\ call' \in [Runs -> CallRec]
        /\ run'[e] = r /\ call'[e] = Ready(r.phase)
        /\ \A f \in Runs : f # e => run'[f] = run[f] /\ call'[f] = call[f]
    BY <1>1, GoesTo
  <1>3. EngineShape' /\ DraftShape'
    BY <1>1, <1>2 DEF EngineShape, Effects
  <1>4. /\ {e} \in SUBSET Runs
    OBVIOUS
  <1>5. /\ late' \in SUBSET LateRec /\ IsFiniteSet(late') /\ \A l \in late' : LateAt(l)
    <2>1. late \in SUBSET LateRec /\ IsFiniteSet(late) /\ \A l \in late : LateAt(l)
      BY DEF Shape, CallShape, Waits
    <2>2. /\ Abandoned({e}) \in SUBSET LateRec /\ IsFiniteSet(Abandoned({e}))
          /\ \A l \in Abandoned({e}) : LateAt(l)
      BY <1>4, AbandonedShape
    <2>3. IsFiniteSet(late \cup Abandoned({e}))
      BY <2>1, <2>2, FS_Union
    <2> QED BY <2>1, <2>2, <2>3
  <1>6. CallShape'
    BY <1>2, <1>5 DEF CallShape
  <1>7. ServiceShape'
    BY DEF Shape, ServiceShape
  <1>8. ASSUME NEW f \in Runs PROVE Awaits(run'[f], call'[f])
    <2>1. CASE f # e
      BY <2>1, <1>2 DEF Shape, Waits
    <2>2. CASE f = e
      <3>1. Awaits(run[e], call[e])
        BY DEF Shape, Waits
      <3>2. /\ Ready(r.phase).reply = "" /\ r.phase \in Phases
            /\ r.phase \in Requesting => Ready(r.phase).at = "sent"
            /\ r.phase \notin Requesting => Ready(r.phase).at = "none"
        BY ReadyCall DEF RunRec
      <3>3. r.phase = "parked" => r.resume # ""
        BY DEF Moves, Before, Sending, Finishing
      <3>4. Sending(r) => r.offset < Size
        <4>1. CASE r.phase = "ended"
          BY <4>1 DEF Sending
        <4>2. CASE Sending(run[e]) /\ r.offset = run[e].offset
          BY <4>2, <3>1 DEF Awaits
        <4>3. CASE Before(r) \/ Finishing(r)
          BY <4>3 DEF Before, Finishing, Sending
        <4>4. CASE r.offset = 0
          BY <4>4, UploadAssumption
        <4>5. CASE r.phase = IF r.offset < Size THEN "putting" ELSE "completing"
          BY <4>5 DEF Sending
        <4> QED BY <4>1, <4>2, <4>3, <4>4, <4>5 DEF Moves
      <3>5. r.outcome # "" => r.phase = "ended"
        BY <3>1 DEF Moves, Awaits, Live
      <3>6. Awaits(r, Ready(r.phase))
        BY <3>2, <3>3, <3>4, <3>5 DEF Awaits
      <3> QED BY <3>6, <2>2, <1>2
    <2> QED BY <2>1, <2>2
  <1>9. Waits'
    BY <1>5, <1>8 DEF Waits, LateAt
  <1> QED BY <1>3, <1>6, <1>7, <1>9 DEF Shape

\* A new engine.
LEMMA StartShape ==
    ASSUME Shape, NEW d \in Drafts, StartUpload(d), run[started + 1].phase = "none"
    PROVE  /\ EngineShape' /\ started + 1 \in Runs
           /\ \A f \in Runs : f # started + 1 => run'[f] = run[f]
           /\ run'[started + 1] = [NoRun EXCEPT !.draft = d, !.owner = store.number, !.phase = "opening"]
           /\ call' = call => \A f \in Runs : Awaits(run'[f], call[f])
  <1> DEFINE n == started + 1
             r == [NoRun EXCEPT !.draft = d, !.owner = store.number, !.phase = "opening"]
  <1>1. n \in Runs /\ started' \in 0..MaxRuns
    BY UploadAssumption DEF StartUpload, Shape, EngineShape, Runs
  <1>2. run' = [run EXCEPT ![n] = r] /\ run \in [Runs -> RunRec] /\ store.number \in Nat
    BY DEF StartUpload, Shape, EngineShape, DraftShape, StoreRec
  <1>3. r \in RunRec /\ r.phase = "opening" /\ r.outcome = ""
    <2>1. NoRun \in [draft : Drafts, owner : Nat, phase : Phases, id : 0..MaxSessions, offset : Nat,
           chunk : MinChunk..MaxChunk, resume : {"", "creating", "recovering", "completing"},
           edge : BOOLEAN, aborted : BOOLEAN, outcome : Outcomes] /\ NoRun.outcome = ""
      <3>1. (CHOOSE x \in Drafts : TRUE) \in Drafts
        BY UploadAssumption
      <3>2. "none" \in Phases /\ "" \in Outcomes
        BY DEF Phases, Outcomes
      <3> QED BY <3>1, <3>2, Zeros, UploadAssumption DEF NoRun
    <2> QED BY <2>1, <1>2 DEF RunRec, Phases
  <1> HIDE DEF r
  <1>4. run' \in [Runs -> RunRec] /\ run'[n] = r /\ \A f \in Runs : f # n => run'[f] = run[f]
    BY <1>1, <1>2, <1>3
  <1>5. EngineShape'
    BY <1>1, <1>4 DEF EngineShape
  <1>6. ASSUME NEW f \in Runs PROVE Awaits(run'[f], call[f])
    <2>1. Awaits(run[f], call[f])
      BY DEF Shape, Waits
    <2>2. CASE f # n
      BY <2>1, <2>2, <1>4
    <2>3. CASE f = n
      <3>1. call[n].at = "none"
        BY <2>1, <2>3 DEF Awaits, Requesting
      <3>2. Awaits(r, call[n])
        BY <3>1, <1>3 DEF Awaits, Requesting, Sending
      <3> QED BY <3>2, <2>3, <1>4
    <2> QED BY <2>2, <2>3
  <1> QED BY <1>1, <1>4, <1>5, <1>6 DEF r

\* An abort.
LEMMA AbortShape ==
    ASSUME Shape, NEW D \in SUBSET Drafts, Abort(D)
    PROVE  /\ run' \in [Runs -> RunRec] /\ CallShape'
           /\ Handled(D) \in SUBSET Runs
           /\ \A f \in Runs : f \notin Handled(D) => run'[f] = run[f] /\ call'[f] = call[f]
           /\ \A f \in Handled(D) : /\ run'[f] = [run[f] EXCEPT !.phase = "ended", !.outcome = "aborted"]
                                    /\ call'[f] = NoCall /\ Live(f)
           /\ \A l \in late' : l \in late \/ l \in Abandoned(Handled(D))
           /\ \A f \in Runs : Awaits(run'[f], call'[f])
           /\ \A l \in late' : LateAt(l)
  <1>0. Handled(D) \in SUBSET Runs /\ \A f \in Handled(D) : Live(f)
    BY DEF Handled
  <1>1. /\ run \in [Runs -> RunRec] /\ call \in [Runs -> CallRec] /\ late \in SUBSET LateRec
        /\ IsFiniteSet(late) /\ \A l \in late : LateAt(l)
    BY DEF Shape, EngineShape, CallShape, Waits
  <1>2. \A x \in RunRec : /\ [x EXCEPT !.phase = "ended", !.outcome = "aborted"] \in RunRec
                          /\ [x EXCEPT !.phase = "ended", !.outcome = "aborted"].phase = "ended"
    BY DEF RunRec, Phases, Outcomes
  <1>3. NoCall \in CallRec /\ NoCall.at = "none"
    BY DEF NoCall, CallRec
  <1>4. /\ run' \in [Runs -> RunRec]
        /\ \A f \in Runs : f \notin Handled(D) => run'[f] = run[f]
        /\ \A f \in Handled(D) : run'[f] = [run[f] EXCEPT !.phase = "ended", !.outcome = "aborted"]
    BY <1>0, <1>1, <1>2 DEF Abort
  <1>5. /\ call' \in [Runs -> CallRec]
        /\ \A f \in Runs : f \notin Handled(D) => call'[f] = call[f]
        /\ \A f \in Handled(D) : call'[f] = NoCall
    BY <1>0, <1>1, <1>3 DEF Abort
  <1>6. /\ late' \in SUBSET LateRec /\ IsFiniteSet(late') /\ \A l \in late' : LateAt(l)
        /\ \A l \in late' : l \in late \/ l \in Abandoned(Handled(D))
    <2>1. late' = late \cup Abandoned(Handled(D))
      BY DEF Abort
    <2>2. /\ Abandoned(Handled(D)) \in SUBSET LateRec /\ IsFiniteSet(Abandoned(Handled(D)))
          /\ \A l \in Abandoned(Handled(D)) : LateAt(l)
      BY <1>0, AbandonedShape
    <2>3. IsFiniteSet(late \cup Abandoned(Handled(D)))
      BY <1>1, <2>2, FS_Union
    <2> QED BY <1>1, <2>1, <2>2, <2>3
  <1>7. ASSUME NEW f \in Runs PROVE Awaits(run'[f], call'[f])
    <2>1. CASE f \notin Handled(D)
      BY <2>1, <1>4, <1>5 DEF Shape, Waits
    <2>2. CASE f \in Handled(D)
      <3>1. run'[f] \in RunRec /\ run'[f].phase = "ended" /\ call'[f].at = "none"
        <4>1. run[f] \in RunRec /\ run'[f] = [run[f] EXCEPT !.phase = "ended", !.outcome = "aborted"]
          BY <2>2, <1>1, <1>4
        <4> QED BY <4>1, <2>2, <1>2, <1>3, <1>5
      <3> QED BY <3>1 DEF Awaits, Requesting, Sending
    <2> QED BY <2>1, <2>2
  <1> QED BY <1>0, <1>4, <1>5, <1>6, <1>7 DEF CallShape

\* What the service is asked.
LEMMA ServableEngine ==
    ASSUME Shape, Claims, NEW e \in Runs, Serve(e)
    PROVE  /\ Fits(Request(e), call[e].at)
           /\ Request(e).op \in {"create", "put", "complete", "status"}
           /\ Request(e).op = "create" => minted < MaxSessions
           /\ Request(e).op # "create" => Request(e).id \in Ids
           /\ Request(e).op = "put" => Request(e).offset \in Nat /\ Request(e).len \in Nat
           /\ run[e].phase \in Requesting
  <1>1. EngineShape /\ Awaits(run[e], call[e]) /\ run[e] \in RunRec
    BY DEF Shape, Waits, EngineShape
  <1>2. call[e].at \in Places /\ (Request(e).op = "create" => minted < MaxSessions)
    BY DEF Serve, Servable, Places
  <1>3. run[e].phase \in Requesting
    BY <1>1, <1>2 DEF Awaits, Places, InService
  <1>4. /\ Request(e).id = run[e].id /\ Request(e).offset = run[e].offset
        /\ Request(e).len = ChunkLen(run[e]) /\ run[e].offset \in Nat
        /\ run[e].phase = "creating" <=> Request(e).op = "create"
        /\ run[e].phase = "putting" <=> Request(e).op = "put"
        /\ run[e].phase = "completing" <=> Request(e).op = "complete"
        /\ Request(e).op \in {"create", "put", "complete", "status"}
        /\ run[e].phase = "putting" => ChunkLen(run[e]) \in Nat
    BY <1>1, RequestOf
  <1>5. Fits(Request(e), call[e].at)
    BY <1>1, <1>2, <1>4 DEF Fits, Awaits
  <1>6. ASSUME Request(e).op # "create" PROVE Request(e).id \in Ids
    <2>1. Sending(run[e]) \/ Finishing(run[e])
      BY <1>3, <1>4, <1>6 DEF Requesting, Sending, Finishing
    <2>2. run[e].id # 0 /\ run[e].id \in 0..MaxSessions
      BY <2>1, <1>1 DEF Claims, RunRec
    <2> QED BY <2>2, <1>4, UploadAssumption DEF Ids
  <1> QED BY <1>2, <1>3, <1>4, <1>5, <1>6

\* The same of a request nobody awaits.
LEMMA ServableLate ==
    ASSUME Shape, Claims, NEW l \in late, ServeLate(l)
    PROVE  /\ Fits(l.q, l.at) /\ l \in LateRec
           /\ l.q.op \in {"create", "put", "complete"}
           /\ l.q.op = "create" => minted < MaxSessions
           /\ l.q.op # "create" => l.q.id \in Ids
           /\ l.q.op = "put" => l.q.offset \in Nat /\ l.q.len \in Nat
  <1>1. l \in LateRec /\ LateAt(l) /\ l.at \in Places
    BY DEF Shape, CallShape, Waits, LateRec
  <1>2. l.q \in RequestRec /\ (l.q.op = "create" => minted < MaxSessions)
    BY <1>1 DEF LateRec, ServeLate, Servable
  <1>3. /\ l.q.op \in {"create", "put", "complete"} /\ l.q.offset \in Nat /\ l.q.id \in 0..MaxSessions
    BY <1>2 DEF RequestRec
  <1>4. Fits(l.q, l.at)
    BY <1>1 DEF Fits, LateAt
  <1>5. l.q.op # "create" => l.q.id # 0
    BY DEF Claims
  <1>6. l.q.op # "create" => l.q.id \in Ids
    BY <1>3, <1>5, UploadAssumption DEF Ids
  <1> QED BY <1>1, <1>2, <1>3, <1>4, <1>6 DEF LateAt

\* A step of the service on a request that is awaited.
LEMMA ServeShape ==
    ASSUME Shape, Claims, NEW e \in Runs, Serve(e), harmed' \in SUBSET Ids
    PROVE  Shape'
  <1> DEFINE s == Served(Request(e), call[e].at)
  <1>1. /\ Fits(Request(e), call[e].at)
        /\ Request(e).op \in {"create", "put", "complete", "status"}
        /\ Request(e).op = "create" => minted < MaxSessions
        /\ Request(e).op # "create" => Request(e).id \in Ids
        /\ Request(e).op = "put" => Request(e).offset \in Nat /\ Request(e).len \in Nat
        /\ run[e].phase \in Requesting
    BY ServableEngine
  <1>2. /\ s.disk \in [Ids -> FilesRec] /\ s.minted \in 0..MaxSessions
        /\ s.now \in CallRec /\ s.now.at \in {"answered"} \cup InService
        /\ s.now.at = "checked" => Request(e).op = "put"
        /\ s.now.at \in {"looked", "renamed", "recorded"} => Request(e).op = "complete"
    BY <1>1, ServedShape DEF Shape
  <1>3. /\ disk' = s.disk /\ minted' = s.minted /\ call' = [call EXCEPT ![e] = s.now]
    BY DEF Serve
  <1>4. /\ cell' = cell /\ given' = given /\ used' = used /\ store' = store /\ run' = run
        /\ started' = started /\ late' = late /\ online' = online /\ up' = up
        /\ sent' = sent /\ faults' = faults
    BY DEF Serve, client, link
  <1> HIDE DEF s
  <1>5. call \in [Runs -> CallRec] /\ EngineShape /\ \A f \in Runs : Awaits(run[f], call[f])
    BY DEF Shape, CallShape, Waits
  <1>6. call' \in [Runs -> CallRec] /\ call'[e] = s.now /\ \A f \in Runs : f # e => call'[f] = call[f]
    BY <1>2, <1>3, <1>5
  <1>7. Awaits(run[e], s.now)
    <2>1. /\ run[e].phase = "putting" <=> Request(e).op = "put"
          /\ run[e].phase = "completing" <=> Request(e).op = "complete"
      BY <1>5, RequestOf
    <2>2. s.now.at # "none"
      BY <1>2 DEF InService
    <2> QED BY <1>1, <1>2, <1>5, <2>1, <2>2 DEF Awaits
  <1>8. \A f \in Runs : Awaits(run'[f], call'[f])
    BY <1>4, <1>5, <1>6, <1>7
  <1>9. Waits'
    BY <1>4, <1>8 DEF Shape, Waits, LateAt
  <1>10. ServiceShape'
    BY <1>2, <1>3, <1>4 DEF Shape, ServiceShape
  <1>11. CallShape'
    BY <1>4, <1>6 DEF Shape, CallShape
  <1>12. DraftShape' /\ EngineShape' /\ LinkShape'
    BY <1>4 DEF Shape, DraftShape, EngineShape, LinkShape
  <1> QED BY <1>9, <1>10, <1>11, <1>12 DEF Shape

\* A step of the service on a request nobody awaits.
LEMMA ServeLateShape ==
    ASSUME Shape, Claims, NEW l \in late, ServeLate(l), harmed' \in SUBSET Ids
    PROVE  Shape'
  <1> DEFINE s == Served(l.q, l.at)
             m == [l EXCEPT !.at = s.now.at]
  <1>1. /\ Fits(l.q, l.at) /\ l \in LateRec
        /\ l.q.op \in {"create", "put", "complete"}
        /\ l.q.op = "create" => minted < MaxSessions
        /\ l.q.op # "create" => l.q.id \in Ids
        /\ l.q.op = "put" => l.q.offset \in Nat /\ l.q.len \in Nat
    BY ServableLate
  <1>2. /\ s.disk \in [Ids -> FilesRec] /\ s.minted \in 0..MaxSessions
        /\ s.now \in CallRec /\ s.now.at \in {"answered"} \cup InService
        /\ s.now.at = "checked" => l.q.op = "put"
        /\ s.now.at \in {"looked", "renamed", "recorded"} => l.q.op = "complete"
    BY <1>1, ServedShape DEF Shape
  <1>3. /\ disk' = s.disk /\ minted' = s.minted
        /\ late' = (late \ {l}) \cup (IF s.now.at = "answered" THEN {} ELSE {m})
    BY DEF ServeLate
  <1>4. /\ cell' = cell /\ given' = given /\ used' = used /\ store' = store /\ run' = run
        /\ started' = started /\ call' = call /\ online' = online /\ up' = up
        /\ sent' = sent /\ faults' = faults
    BY DEF ServeLate, client, link
  <1>5. s.now.at # "answered" => s.now.at \in Places
    BY <1>2 DEF Places
  <1> HIDE DEF s
  <1>6. s.now.at # "answered" => /\ m \in LateRec /\ m.q = l.q /\ m.at = s.now.at
    BY <1>1, <1>5 DEF LateRec
  <1>7. s.now.at # "answered" => LateAt(m)
    BY <1>1, <1>2, <1>6 DEF LateAt
  <1> HIDE DEF m
  <1>8. late \in SUBSET LateRec /\ IsFiniteSet(late) /\ \A k \in late : LateAt(k)
    BY DEF Shape, CallShape, Waits
  <1>9. late' \in SUBSET LateRec /\ \A k \in late' : LateAt(k)
    BY <1>3, <1>6, <1>7, <1>8
  <1>10. IsFiniteSet(late')
    <2>1. IsFiniteSet(late \ {l})
      BY <1>8, FS_RemoveElement
    <2>2. IsFiniteSet((late \ {l}) \cup {m})
      BY <2>1, FS_AddElement
    <2> QED BY <2>1, <2>2, <1>3
  <1>11. Waits'
    BY <1>4, <1>9 DEF Shape, Waits, LateAt
  <1>12. ServiceShape'
    BY <1>2, <1>3, <1>4 DEF Shape, ServiceShape
  <1>13. CallShape'
    BY <1>4, <1>9, <1>10 DEF Shape, CallShape
  <1>14. DraftShape' /\ EngineShape' /\ LinkShape'
    BY <1>4 DEF Shape, DraftShape, EngineShape, LinkShape
  <1> QED BY <1>11, <1>12, <1>13, <1>14 DEF Shape

\* release of a set of drafts.
LEMMA ReleasedAll ==
    ASSUME DraftShape, NEW D
    PROVE  /\ Released(store.number, D) \in StoreRec
           /\ Released(store.number, D).number = store.number
           /\ \A x \in Drafts : x \notin D => Released(store.number, D).handles[x] = store.handles[x]
  <1> DEFINE h == [x \in Drafts |-> IF x \in D THEN 0 ELSE store.handles[x]]
             t == [store EXCEPT !.sources = @ \ D, !.handles = h]
  <1>a. store \in StoreRec /\ store.sources \ D \in SUBSET Drafts
    BY DEF DraftShape, StoreRec
  <1>b. /\ h \in [Drafts -> 0..MaxRuns]
        /\ \A x \in Drafts : x \notin D => h[x] = store.handles[x]
    BY <1>a, Zeros DEF StoreRec
  <1> HIDE DEF h
  <1>1. /\ t \in StoreRec /\ t.number = store.number
        /\ \A x \in Drafts : x \notin D => t.handles[x] = store.handles[x]
    BY <1>a, <1>b DEF StoreRec
  <1>2. Released(store.number, D) = t
    BY DEF Released, h
  <1> HIDE DEF t
  <1> QED BY <1>1, <1>2

\* The drafts: adding one, retrying one.
LEMMA AddShape ==
    ASSUME Shape, NEW d \in Drafts, Add(d) \/ Retry(d), run[started + 1].phase = "none",
           harmed' \in SUBSET Ids
    PROVE  Shape'
  <1>1. StartUpload(d) /\ cell' = [cell EXCEPT ![d] = "uploading"]
    BY DEF Add, Retry
  <1>2. EngineShape' /\ (call' = call => \A f \in Runs : Awaits(run'[f], call[f]))
    BY <1>1, StartShape
  <1>3. /\ given' = given /\ call' = call /\ late' = late /\ online' = online /\ up' = up
        /\ disk' = disk /\ minted' = minted /\ sent' = sent /\ faults' = faults
    BY DEF Add, Retry, link, service
  <1>4. /\ used' \in SUBSET Drafts /\ store' \in StoreRec
    <2>1. store \in StoreRec /\ used \in SUBSET Drafts
      BY DEF Shape, DraftShape
    <2>2. CASE Add(d)
      <3>1. /\ used' = used \cup {d} /\ store' = [store EXCEPT !.sources = @ \cup {d}]
        BY <2>2 DEF Add
      <3>2. store.sources \cup {d} \in SUBSET Drafts
        BY <2>1 DEF StoreRec
      <3>3. store' \in StoreRec
        BY <3>1, <3>2, <2>1 DEF StoreRec
      <3> QED BY <3>1, <3>3, <2>1
    <2>3. CASE Retry(d)
      BY <2>1, <2>3 DEF Retry
    <2> QED BY <2>2, <2>3
  <1>5. cell' \in [Drafts -> Statuses]
    <2>1. "uploading" \in Statuses
      BY DEF Statuses
    <2> QED BY <2>1, <1>1 DEF Shape, DraftShape
  <1>6. DraftShape'
    BY <1>3, <1>4, <1>5 DEF Shape, DraftShape
  <1>7. CallShape' /\ ServiceShape' /\ LinkShape'
    BY <1>3 DEF Shape, CallShape, ServiceShape, LinkShape
  <1>8. Waits'
    BY <1>2, <1>3 DEF Shape, Waits, LateAt
  <1> QED BY <1>2, <1>6, <1>7, <1>8 DEF Shape

\* The drafts: discarding one, sending them all.
LEMMA DropShape ==
    ASSUME Shape, NEW D \in SUBSET Drafts, Abort(D), store' = Released(store.number, D),
           cell' \in [Drafts -> Statuses], given' \in [Drafts -> 0..MaxSessions], sent' \in SUBSET Ids,
           UNCHANGED <<used, started, online, up, disk, minted, faults>>, harmed' \in SUBSET Ids
    PROVE  Shape'
  <1>1. /\ run' \in [Runs -> RunRec] /\ CallShape'
        /\ \A f \in Runs : Awaits(run'[f], call'[f])
        /\ \A l \in late' : LateAt(l)
    BY AbortShape
  <1>2. EngineShape' /\ ServiceShape' /\ LinkShape'
    BY <1>1 DEF Shape, EngineShape, ServiceShape, LinkShape
  <1>3. store' \in StoreRec
    BY ReleasedAll DEF Shape
  <1>4. DraftShape'
    BY <1>3 DEF Shape, DraftShape
  <1>5. Waits'
    BY <1>1 DEF Waits, LateAt
  <1> QED BY <1>1, <1>2, <1>4, <1>5 DEF Shape

\* discard drops one draft.
LEMMA DiscardDrops ==
    ASSUME Shape, NEW d \in Drafts, Discard(d)
    PROVE  /\ {d} \in SUBSET Drafts /\ Abort({d}) /\ store' = Released(store.number, {d})
           /\ cell' \in [Drafts -> Statuses] /\ given' \in [Drafts -> 0..MaxSessions]
           /\ UNCHANGED <<used, started, online, up, disk, minted, faults>> /\ sent' = sent
           /\ cell'[d] = "absent"
           /\ \A x \in Drafts : x # d => cell'[x] = cell[x] /\ given'[x] = given[x]
  <1>1. cell' = [cell EXCEPT ![d] = "absent"] /\ given' = [given EXCEPT ![d] = 0]
    BY DEF Discard
  <1>2. "absent" \in Statuses
    BY DEF Statuses
  <1>3. cell \in [Drafts -> Statuses] /\ given \in [Drafts -> 0..MaxSessions]
    BY DEF Shape, DraftShape
  <1>4. cell' \in [Drafts -> Statuses] /\ given' \in [Drafts -> 0..MaxSessions]
    BY <1>1, <1>2, <1>3, Zeros
  <1>5. cell'[d] = "absent" /\ \A x \in Drafts : x # d => cell'[x] = cell[x] /\ given'[x] = given[x]
    BY <1>1, <1>3
  <1> QED BY <1>4, <1>5 DEF Discard, link, service

\* A send drops every draft, and references what they offered.
LEMMA SendDrops ==
    ASSUME Shape, Offered, Send
    PROVE  \E D \in SUBSET Drafts :
           /\ Abort(D) /\ store' = Released(store.number, D)
           /\ cell' \in [Drafts -> Statuses] /\ given' \in [Drafts -> 0..MaxSessions]
           /\ sent' \in SUBSET Ids
           /\ \A i \in sent' : i \in sent \/ \E d \in Drafts : cell[d] = "uploaded" /\ i = given[d]
           /\ UNCHANGED <<used, started, online, up, disk, minted, faults>>
           /\ \A x \in Drafts : cell'[x] = "absent"
  <1> DEFINE D == {d \in Drafts : Present(d)}
             ids == {given[d] : d \in D}
  <1>1. /\ \A d \in D : cell[d] = "uploaded"
        /\ sent' = IF \A i \in ids : disk[i].meta THEN sent \cup ids ELSE sent
        /\ Abort(D) /\ store' = Released(store.number, D)
        /\ cell' = [d \in Drafts |-> "absent"] /\ given' = [d \in Drafts |-> 0]
    BY DEF Send
  <1>2. UNCHANGED <<used, started, online, up, disk, minted, faults>>
    BY DEF Send, link
  <1>3. "absent" \in Statuses
    BY DEF Statuses
  <1>4. \A i \in sent' : i \in sent \/ \E d \in Drafts : cell[d] = "uploaded" /\ i = given[d]
    BY <1>1
  <1>5. sent' \in SUBSET Ids
    <2>1. \A d \in Drafts : cell[d] = "uploaded" => given[d] \in Ids
      BY UploadAssumption DEF Offered, Ids, Shape, ServiceShape
    <2>2. sent \in SUBSET Ids
      BY DEF Shape, ServiceShape
    <2> QED BY <2>1, <2>2, <1>4
  <1>6. cell' \in [Drafts -> Statuses] /\ given' \in [Drafts -> 0..MaxSessions]
        /\ \A x \in Drafts : cell'[x] = "absent"
    BY <1>1, <1>3, Zeros
  <1>7. D \in SUBSET Drafts
    OBVIOUS
  <1> HIDE DEF D, ids
  <1> QED BY <1>1, <1>2, <1>4, <1>5, <1>6, <1>7

\* The faults, and what follows them.
LEMMA FaultShape ==
    ASSUME Shape, harmed' \in SUBSET Ids,
           \/ Evict \/ Rebuild \/ GoOffline \/ GoOnline \/ Crash \/ Restart
           \/ (\E e \in Runs : Refuse(e)) \/ (\E i \in Ids : Sweep(i))
    PROVE  Shape'
  <1>1. CASE Evict
    <2>1. /\ UNCHANGED <<used, store, run, started, call, late, online, up, disk, minted, sent>>
          /\ cell' = [d \in Drafts |-> "absent"] /\ given' = [d \in Drafts |-> 0]
          /\ faults < MaxFaults /\ faults' = faults + 1
      BY <1>1 DEF Evict, Fault, link, service
    <2>2. "absent" \in Statuses
      BY DEF Statuses
    <2>3. cell' \in [Drafts -> Statuses] /\ given' \in [Drafts -> 0..MaxSessions]
      BY <2>1, <2>2, Zeros
    <2>4. DraftShape'
      BY <2>1, <2>3 DEF Shape, DraftShape
    <2>5. faults' \in 0..MaxFaults
      BY <2>1, UploadAssumption DEF Shape, LinkShape
    <2>6. LinkShape'
      BY <2>1, <2>5 DEF Shape, LinkShape
    <2>7. EngineShape' /\ CallShape' /\ ServiceShape' /\ Waits'
      BY <2>1 DEF Shape, EngineShape, CallShape, ServiceShape, Waits, LateAt
    <2> QED BY <2>4, <2>6, <2>7 DEF Shape
  <1>2. CASE Rebuild
    <2>1. /\ UNCHANGED <<cell, given, used, run, started, call, late, online, up, disk, minted, sent>>
          /\ store' = [number |-> store.number + 1, sources |-> {}, handles |-> [d \in Drafts |-> 0]]
          /\ faults < MaxFaults /\ faults' = faults + 1
      BY <1>2 DEF Rebuild, Fault, link, service
    <2>2. [d \in Drafts |-> 0] \in [Drafts -> 0..MaxRuns] /\ store.number + 1 \in Nat
      BY Zeros DEF Shape, DraftShape, StoreRec
    <2>3. store' \in StoreRec
      BY <2>1, <2>2 DEF StoreRec
    <2>4. DraftShape'
      BY <2>1, <2>3 DEF Shape, DraftShape
    <2>5. faults' \in 0..MaxFaults
      BY <2>1, UploadAssumption DEF Shape, LinkShape
    <2>6. LinkShape'
      BY <2>1, <2>5 DEF Shape, LinkShape
    <2>7. EngineShape' /\ CallShape' /\ ServiceShape' /\ Waits'
      BY <2>1 DEF Shape, EngineShape, CallShape, ServiceShape, Waits, LateAt
    <2> QED BY <2>4, <2>6, <2>7 DEF Shape
  <1>3. CASE GoOffline \/ GoOnline \/ Restart
    <2>1. /\ UNCHANGED <<cell, given, used, store, run, started, call, late, disk, minted, sent>>
          /\ faults' = faults \/ (faults < MaxFaults /\ faults' = faults + 1)
          /\ online' \in {online, TRUE, FALSE} /\ up' \in {up, TRUE}
      BY <1>3 DEF GoOffline, GoOnline, Restart, Fault, client, service
    <2>2. faults' \in 0..MaxFaults
      BY <2>1, UploadAssumption DEF Shape, LinkShape
    <2>3. LinkShape'
      BY <2>1, <2>2 DEF Shape, LinkShape
    <2>4. DraftShape' /\ EngineShape' /\ CallShape' /\ ServiceShape' /\ Waits'
      BY <2>1 DEF Shape, DraftShape, EngineShape, CallShape, ServiceShape, Waits, LateAt
    <2> QED BY <2>3, <2>4 DEF Shape
  <1>4. CASE Crash
    <2>1. /\ UNCHANGED <<cell, given, used, store, run, started, online, disk, minted, sent>>
          /\ faults < MaxFaults /\ faults' = faults + 1 /\ up' = FALSE
          /\ call' = [e \in Runs |-> IF call[e].at \in InService THEN Reply("broken", 0) ELSE call[e]]
          /\ late' = {l \in late : l.at \notin InService}
      BY <1>4 DEF Crash, Fault, client, service
    <2>2. faults' \in 0..MaxFaults
      BY <2>1, UploadAssumption DEF Shape, LinkShape
    <2>3. LinkShape'
      BY <2>1, <2>2 DEF Shape, LinkShape
    <2>4. DraftShape' /\ EngineShape' /\ ServiceShape'
      BY <2>1 DEF Shape, DraftShape, EngineShape, ServiceShape
    <2>5. Reply("broken", 0) \in CallRec /\ Reply("broken", 0).at = "answered"
      BY CallTypes
    <2>6. CallShape'
      <3>1. call' \in [Runs -> CallRec]
        BY <2>1, <2>5 DEF Shape, CallShape
      <3>2. late' \in SUBSET LateRec /\ IsFiniteSet(late')
        BY <2>1, FS_Subset DEF Shape, CallShape
      <3> QED BY <3>1, <3>2 DEF CallShape
    <2>7. ASSUME NEW f \in Runs PROVE Awaits(run[f], call'[f])
      <3>1. Awaits(run[f], call[f])
        BY DEF Shape, Waits
      <3>2. CASE call[f].at \in InService
        <4>1. call'[f] = Reply("broken", 0)
          BY <2>1, <3>2
        <4>2. call[f].at # "none"
          BY <3>2 DEF InService
        <4> QED BY <4>1, <4>2, <2>5, <3>1 DEF Awaits
      <3>3. CASE call[f].at \notin InService
        BY <2>1, <3>1, <3>3
      <3> QED BY <3>2, <3>3
    <2>8. Waits'
      BY <2>1, <2>7 DEF Shape, Waits, LateAt
    <2> QED BY <2>3, <2>4, <2>6, <2>8 DEF Shape
  <1>5. ASSUME NEW e \in Runs, Refuse(e) PROVE Shape'
    <2>1. /\ UNCHANGED <<cell, given, used, store, run, started, late, online, up, disk, minted, sent, faults>>
          /\ call[e].at = "sent" /\ call' = [call EXCEPT ![e] = Reply("broken", 0)]
      BY <1>5 DEF Refuse, client, link, service
    <2>2. DraftShape' /\ EngineShape' /\ ServiceShape' /\ LinkShape'
      BY <2>1 DEF Shape, DraftShape, EngineShape, ServiceShape, LinkShape
    <2>3. Reply("broken", 0) \in CallRec /\ Reply("broken", 0).at = "answered"
      BY CallTypes
    <2>4. CallShape'
      BY <2>1, <2>3 DEF Shape, CallShape
    <2>5. ASSUME NEW f \in Runs PROVE Awaits(run[f], call'[f])
      <3>1. Awaits(run[f], call[f]) /\ call \in [Runs -> CallRec]
        BY DEF Shape, Waits, CallShape
      <3>2. CASE f = e
        <4>1. call'[f] = Reply("broken", 0)
          BY <2>1, <3>1, <3>2
        <4> QED BY <4>1, <2>1, <2>3, <3>1, <3>2 DEF Awaits
      <3>3. CASE f # e
        BY <2>1, <3>1, <3>3
      <3> QED BY <3>2, <3>3
    <2>6. Waits'
      BY <2>1, <2>5 DEF Shape, Waits, LateAt
    <2> QED BY <2>2, <2>4, <2>6 DEF Shape
  <1>6. ASSUME NEW i \in Ids, Sweep(i) PROVE Shape'
    <2>1. /\ UNCHANGED <<cell, given, used, store, run, started, call, late, online, up, minted, sent>>
          /\ disk' = [disk EXCEPT ![i] = NoFiles]
          /\ faults < MaxFaults /\ faults' = faults + 1
      BY <1>6 DEF Sweep, Fault, client, link
    <2>2. faults' \in 0..MaxFaults
      BY <2>1, UploadAssumption DEF Shape, LinkShape
    <2>3. LinkShape'
      BY <2>1, <2>2 DEF Shape, LinkShape
    <2>4. disk' \in [Ids -> FilesRec]
      BY <2>1, FileTypes DEF Shape, ServiceShape
    <2>5. ServiceShape'
      BY <2>1, <2>4 DEF Shape, ServiceShape
    <2>6. DraftShape' /\ EngineShape' /\ CallShape' /\ Waits'
      BY <2>1 DEF Shape, DraftShape, EngineShape, CallShape, Waits, LateAt
    <2> QED BY <2>3, <2>5, <2>6 DEF Shape
  <1> QED BY <1>1, <1>2, <1>3, <1>4, <1>5, <1>6

----------------------------------------------------------------------------
(* Engines and drafts.                                                      *)

Owned == Owners /\ RemoveStopsIt

\* The step of an engine.
LEMMA MovesOwned ==
    ASSUME Shape, Owned, NEW e \in Runs, NEW r \in RunRec, Moves(e, r), Effects(e, r)
    PROVE  Owned'
  <1> DEFINE d == run[e].draft
  <1>0. EngineShape /\ CallShape /\ Goes(e, r) /\ d \in Drafts
    BY DEF Shape, Moves, EngineShape, RunRec
  <1>1. /\ run'[e] = r
        /\ \A f \in Runs : f # e => run'[f] = run[f]
    BY <1>0, GoesTo
  <1>2. /\ r.draft = d /\ r.owner = run[e].owner /\ Live(e) /\ r.phase \notin {"none", "opening"}
    BY DEF Moves
  <1>3. /\ used' = used /\ store'.number = store.number /\ started' = started
        /\ \A x \in Drafts : x # d => /\ cell'[x] = cell[x] /\ store'.handles[x] = store.handles[x]
        /\ cell'[d] # "absent" => cell[d] # "absent"
        /\ cell'[d] = "error" => cell[d] = "error" \/ r.phase = "ended"
        /\ r.aborted = run[e].aborted \/ r.aborted = (cell[d] = "absent") \/ r.phase = "ended"
        /\ r.phase # "ended" /\ cell'[d] # "absent" /\ run[e].owner = store.number
             => \/ store'.handles[d] = e
                \/ store'.handles[d] = store.handles[d] /\ run[e].phase # "opening"
    BY DEF Effects
  <1>4. \A x \in Drafts : cell'[x] # "absent" => cell[x] # "absent"
    BY <1>3
  <1>5. ASSUME NEW f \in Runs
        PROVE  /\ run'[f].draft = run[f].draft /\ run'[f].owner = run[f].owner /\ run[f].draft \in Drafts
               /\ run'[f].phase = "none" <=> run[f].phase = "none"
               /\ run'[f].phase \notin {"none", "ended"} => Live(f)
    BY <1>0, <1>1, <1>2 DEF Live, EngineShape, RunRec
  <1> HIDE DEF d
  <1>6. ASSUME NEW f \in Runs
        PROVE  /\ run'[f].phase = "none" <=> f > started'
               /\ run'[f].phase # "none" => run'[f].draft \in used' /\ run'[f].owner <= store'.number
               /\ run'[f].aborted => run'[f].phase # "none"
               /\ run'[f].aborted => cell'[run'[f].draft] = "absent" \/ run'[f].phase = "ended"
    <2>1. /\ run[f].phase = "none" <=> f > started
          /\ run[f].phase # "none" => run[f].draft \in used /\ run[f].owner <= store.number
          /\ run[f].aborted => run[f].phase # "none"
          /\ run[f].aborted => cell[run[f].draft] = "absent" \/ run[f].phase = "ended"
      BY DEF Owned, Owners, Present
    <2>2. run'[f].aborted => cell'[run'[f].draft] = "absent" \/ run'[f].phase = "ended"
      <3>1. CASE f # e
        BY <3>1, <2>1, <1>1, <1>4, <1>5
      <3>2. CASE f = e
        <4>1. run[e].aborted => cell[d] = "absent"
          BY <2>1, <3>2, <1>2 DEF d, Live
        <4> QED BY <4>1, <3>2, <1>0, <1>1, <1>2, <1>3, <1>4
      <3> QED BY <3>1, <3>2
    <2>3. run'[f].aborted => run'[f].phase # "none"
      BY <2>1, <1>1, <1>2
    <2> QED BY <2>1, <2>2, <2>3, <1>3, <1>5
  <1>7. ASSUME NEW f \in Runs, NEW g \in Runs, run'[f].phase \notin {"none", "ended"},
               run'[g].phase \notin {"none", "ended"}, run'[f].draft = run'[g].draft,
               cell'[run'[f].draft] # "absent"
        PROVE  f = g
    <2>1. Live(f) /\ Live(g) /\ run[f].draft = run[g].draft /\ cell[run[f].draft] # "absent"
      BY <1>4, <1>5, <1>7
    <2> QED BY <2>1 DEF Owned, Owners, Present
  <1>8. ASSUME NEW x \in Drafts, cell'[x] # "absent" PROVE x \in used'
    BY <1>3, <1>4, <1>8 DEF Owned, Owners, Present
  <1>9. ASSUME NEW f \in Runs, run'[f].phase \notin {"none", "ended"}
        PROVE  cell'[run'[f].draft] # "error"
    <2>1. Live(f) /\ cell[run[f].draft] # "error"
      BY <1>5, <1>9 DEF Owned, Owners
    <2>2. CASE run[f].draft # d
      BY <2>1, <2>2, <1>3, <1>5
    <2>3. CASE run[f].draft = d
      <3>1. ASSUME cell'[d] = "error" PROVE FALSE
        <4>1. r.phase = "ended" /\ cell[d] # "absent"
          BY <3>1, <2>1, <2>3, <1>3
        <4>2. f = e
          BY <4>1, <2>1, <2>3, <1>2 DEF Owned, Owners, Present, d
        <4> QED BY <4>1, <4>2, <1>1, <1>9
      <3> QED BY <3>1, <2>3, <1>5
    <2> QED BY <2>2, <2>3
  <1>10. Owners'
    BY <1>6, <1>7, <1>8, <1>9 DEF Owners, Live, Present
  <1>11. ASSUME NEW f \in Runs, run'[f].phase \notin {"none", "ended"}, run'[f].phase # "opening",
                cell'[run'[f].draft] # "absent", run'[f].owner = store'.number
         PROVE  store'.handles[run'[f].draft] = f
    <2>1. Live(f) /\ cell[run[f].draft] # "absent" /\ run[f].owner = store.number
          /\ run'[f].draft = run[f].draft /\ run[f].draft \in Drafts
      BY <1>3, <1>4, <1>5, <1>11
    <2>2. CASE f = e
      <3>1. r.phase # "ended" /\ cell'[d] # "absent" /\ run[e].owner = store.number /\ run'[e].draft = d
        BY <2>1, <2>2, <1>1, <1>2, <1>11
      <3>2. run[e].phase # "opening" => store.handles[d] = e
        BY <2>1, <2>2 DEF Owned, RemoveStopsIt, Present, d
      <3> QED BY <3>1, <3>2, <2>2, <1>3
    <2>3. CASE f # e
      <3>1. run[f].draft # d
        BY <2>1, <2>3, <1>2 DEF Owned, Owners, Present, d
      <3>2. run[f].phase # "opening"
        BY <2>3, <1>1, <1>11
      <3>3. store.handles[run[f].draft] = f
        BY <2>1, <3>2 DEF Owned, RemoveStopsIt, Present
      <3> QED BY <3>1, <3>3, <2>1, <1>3
    <2> QED BY <2>2, <2>3
  <1>12. RemoveStopsIt'
    BY <1>11 DEF RemoveStopsIt, Live, Present
  <1> QED BY <1>10, <1>12 DEF Owned

\* A new engine.
LEMMA StartOwned ==
    ASSUME Shape, Owned, NEW d \in Drafts, Add(d) \/ Retry(d)
    PROVE  Owned' /\ run[started + 1].phase = "none"
  <1> DEFINE n == started + 1
  <1>1. StartUpload(d) /\ cell' = [cell EXCEPT ![d] = "uploading"]
    BY DEF Add, Retry
  <1>2. started < MaxRuns /\ started' = n /\ started \in 0..MaxRuns /\ n \in Runs
    BY <1>1, UploadAssumption DEF StartUpload, Shape, EngineShape, Runs
  <1>3. run[n].phase = "none"
    <2>1. n > started
      BY <1>2
    <2> QED BY <2>1, <1>2 DEF Owned, Owners
  <1>4. /\ \A f \in Runs : f # n => run'[f] = run[f]
        /\ run'[n] = [NoRun EXCEPT !.draft = d, !.owner = store.number, !.phase = "opening"]
    BY <1>1, <1>3, StartShape
  <1>5. /\ run'[n].draft = d /\ run'[n].owner = store.number /\ run'[n].phase = "opening"
        /\ run'[n].aborted = FALSE
    BY <1>4 DEF NoRun
  <1>6. /\ cell'[d] = "uploading" /\ \A x \in Drafts : x # d => cell'[x] = cell[x]
    BY <1>1 DEF Shape, DraftShape
  <1>7. /\ d \in used' /\ used \subseteq used' /\ store'.number = store.number
        /\ store'.handles = store.handles /\ store.number \in Nat
    <2>1. store \in StoreRec
      BY DEF Shape, DraftShape
    <2>2. CASE Add(d)
      BY <2>1, <2>2 DEF Add, StoreRec
    <2>3. CASE Retry(d)
      <3>1. cell[d] # "absent" /\ store' = store /\ used' = used
        BY <2>3 DEF Retry
      <3> QED BY <3>1, <2>1 DEF Owned, Owners, Present, StoreRec
    <2> QED BY <2>2, <2>3
  <1>8. ASSUME NEW f \in Runs, f # n, run[f].phase # "none", run[f].draft = d PROVE ~Live(f)
    <2>1. CASE Add(d)
      BY <1>8, <2>1 DEF Add, Owned, Owners
    <2>2. CASE Retry(d)
      BY <1>8, <2>2 DEF Retry, Owned, Owners
    <2> QED BY <2>1, <2>2
  <1>9. \A f \in Runs : run[f].draft \in Drafts
    BY DEF Shape, EngineShape, RunRec
  <1>a. \A f \in Runs : /\ f # n => run'[f] = run[f]
                        /\ f # n /\ run[f].phase # "none" /\ run[f].draft = d => run[f].phase = "ended"
    BY <1>4, <1>8 DEF Live
  <1> HIDE DEF n
  <1>10. ASSUME NEW f \in Runs
         PROVE  /\ run'[f].phase = "none" <=> f > started'
                /\ run'[f].phase # "none" => run'[f].draft \in used' /\ run'[f].owner <= store'.number
                /\ run'[f].aborted => run'[f].phase # "none"
                /\ run'[f].aborted => cell'[run'[f].draft] = "absent" \/ run'[f].phase = "ended"
    <2>1. CASE f = n
      BY <2>1, <1>2, <1>5, <1>7, UploadAssumption DEF Runs
    <2>2. CASE f # n
      <3>1. /\ run[f].phase = "none" <=> f > started
            /\ run[f].phase # "none" => run[f].draft \in used /\ run[f].owner <= store.number
            /\ run[f].aborted => run[f].phase # "none"
            /\ run[f].aborted => cell[run[f].draft] = "absent" \/ run[f].phase = "ended"
        BY DEF Owned, Owners, Present
      <3>2. f > started <=> f > n
        BY <2>2, <1>2, UploadAssumption DEF Runs, n
      <3>3. run[f].aborted => cell'[run[f].draft] = "absent" \/ run[f].phase = "ended"
        <4>1. CASE run[f].draft # d
          BY <4>1, <3>1, <1>6, <1>9
        <4>2. CASE run[f].draft = d
          BY <4>2, <1>a, <2>2, <3>1
        <4> QED BY <4>1, <4>2
      <3> QED BY <3>1, <3>2, <3>3, <1>2, <1>7, <1>a, <2>2
    <2> QED BY <2>1, <2>2
  <1>11. ASSUME NEW f \in Runs, NEW g \in Runs, run'[f].phase \notin {"none", "ended"},
               run'[g].phase \notin {"none", "ended"}, run'[f].draft = run'[g].draft,
               cell'[run'[f].draft] # "absent"
        PROVE  f = g
    <2>1. CASE f # n /\ g # n
      <3>1. Live(f) /\ Live(g) /\ run[f].draft = run[g].draft /\ run[f].draft # d
        BY <2>1, <1>a, <1>11 DEF Live
      <3>2. cell[run[f].draft] # "absent"
        BY <2>1, <3>1, <1>a, <1>6, <1>9, <1>11
      <3> QED BY <3>1, <3>2 DEF Owned, Owners, Present
    <2>2. CASE f = n /\ g # n
      BY <2>2, <1>a, <1>5, <1>11
    <2>3. CASE f # n /\ g = n
      BY <2>3, <1>a, <1>5, <1>11
    <2> QED BY <2>1, <2>2, <2>3
  <1>12. ASSUME NEW x \in Drafts, cell'[x] # "absent" PROVE x \in used'
    BY <1>6, <1>7, <1>12 DEF Owned, Owners, Present
  <1>13. ASSUME NEW f \in Runs, run'[f].phase \notin {"none", "ended"}
         PROVE  cell'[run'[f].draft] # "error"
    <2>1. CASE f = n
      BY <2>1, <1>5, <1>6
    <2>2. CASE f # n
      <3>1. Live(f) /\ run[f].draft # d /\ cell[run[f].draft] # "error"
        BY <2>2, <1>a, <1>13 DEF Live, Owned, Owners
      <3> QED BY <3>1, <2>2, <1>a, <1>6, <1>9
    <2> QED BY <2>1, <2>2
  <1>14. Owners'
    BY <1>10, <1>11, <1>12, <1>13 DEF Owners, Live, Present
  <1>15. ASSUME NEW f \in Runs, run'[f].phase \notin {"none", "ended"}, run'[f].phase # "opening",
                cell'[run'[f].draft] # "absent", run'[f].owner = store'.number
         PROVE  store'.handles[run'[f].draft] = f
    <2>1. f # n
      BY <1>5, <1>15
    <2>2. Live(f) /\ run[f].draft # d /\ run[f].phase # "opening" /\ run[f].owner = store.number
      BY <2>1, <1>a, <1>7, <1>15 DEF Live
    <2>3. cell[run[f].draft] # "absent"
      BY <2>1, <2>2, <1>a, <1>6, <1>9, <1>15
    <2>4. store.handles[run[f].draft] = f
      BY <2>2, <2>3 DEF Owned, RemoveStopsIt, Present
    <2> QED BY <2>1, <2>4, <1>a, <1>7
  <1>16. RemoveStopsIt'
    BY <1>15 DEF RemoveStopsIt, Live, Present
  <1> QED BY <1>3, <1>14, <1>16 DEF Owned, n

\* The drafts D are gone, and their engines with them.
LEMMA DropOwned ==
    ASSUME Shape, Owned, NEW D \in SUBSET Drafts, Abort(D), store' = Released(store.number, D),
           \A x \in Drafts : (x \in D \/ cell'[x] # cell[x]) => cell'[x] = "absent",
           UNCHANGED <<used, started>>
    PROVE  Owned'
  <1>1. /\ \A f \in Runs : f \notin Handled(D) => run'[f] = run[f]
        /\ \A f \in Handled(D) : run'[f] = [run[f] EXCEPT !.phase = "ended", !.outcome = "aborted"] /\ Live(f)
    BY AbortShape
  <1>2. /\ store'.number = store.number
        /\ \A x \in Drafts : x \notin D => store'.handles[x] = store.handles[x]
    BY ReleasedAll DEF Shape
  <1>3. \A x \in Drafts : cell'[x] = "absent" \/ (cell'[x] = cell[x] /\ x \notin D)
    OBVIOUS
  <1>4. ASSUME NEW f \in Runs
        PROVE  /\ run'[f].draft = run[f].draft /\ run'[f].owner = run[f].owner
               /\ run'[f].aborted = run[f].aborted /\ run[f].draft \in Drafts
               /\ run'[f] = run[f] \/ (run'[f].phase = "ended" /\ run[f].phase # "none")
    <2>1. run[f] \in RunRec /\ run[f].draft \in Drafts
      BY DEF Shape, EngineShape, RunRec
    <2>2. CASE f \notin Handled(D)
      BY <2>1, <2>2, <1>1
    <2>3. CASE f \in Handled(D)
      <3>1. run'[f] = [run[f] EXCEPT !.phase = "ended", !.outcome = "aborted"] /\ run[f].phase # "none"
        BY <2>3, <1>1 DEF Live
      <3> QED BY <2>1, <3>1 DEF RunRec
    <2> QED BY <2>2, <2>3
  <1>5. ASSUME NEW f \in Runs
        PROVE  /\ run'[f].phase = "none" <=> f > started'
               /\ run'[f].phase # "none" => run'[f].draft \in used' /\ run'[f].owner <= store'.number
               /\ run'[f].aborted => run'[f].phase # "none"
               /\ run'[f].aborted => cell'[run'[f].draft] = "absent" \/ run'[f].phase = "ended"
    <2>1. /\ run[f].phase = "none" <=> f > started
          /\ run[f].phase # "none" => run[f].draft \in used /\ run[f].owner <= store.number
          /\ run[f].aborted => run[f].phase # "none"
          /\ run[f].aborted => cell[run[f].draft] = "absent" \/ run[f].phase = "ended"
      BY DEF Owned, Owners, Present
    <2>2. run'[f].phase = "none" <=> run[f].phase = "none"
      BY <1>4
    <2>3. run'[f].aborted => cell'[run'[f].draft] = "absent" \/ run'[f].phase = "ended"
      BY <2>1, <1>3, <1>4
    <2> QED BY <2>1, <2>2, <2>3, <1>2, <1>4
  <1>6. ASSUME NEW f \in Runs, run'[f].phase \notin {"none", "ended"}
        PROVE  Live(f) /\ run'[f] = run[f]
    BY <1>4, <1>6 DEF Live
  <1>7. ASSUME NEW f \in Runs, NEW g \in Runs, run'[f].phase \notin {"none", "ended"},
               run'[g].phase \notin {"none", "ended"}, run'[f].draft = run'[g].draft,
               cell'[run'[f].draft] # "absent"
        PROVE  f = g
    <2>1. Live(f) /\ Live(g) /\ run[f].draft = run[g].draft /\ cell[run[f].draft] # "absent"
      BY <1>3, <1>4, <1>6, <1>7
    <2> QED BY <2>1 DEF Owned, Owners, Present
  <1>8. ASSUME NEW x \in Drafts, cell'[x] # "absent" PROVE x \in used'
    BY <1>3, <1>8 DEF Owned, Owners, Present
  <1>9. ASSUME NEW f \in Runs, run'[f].phase \notin {"none", "ended"}
        PROVE  cell'[run'[f].draft] # "error"
    <2>1. Live(f) /\ run'[f] = run[f] /\ cell[run[f].draft] # "error"
      BY <1>6, <1>9 DEF Owned, Owners
    <2> QED BY <2>1, <1>3, <1>4
  <1>10. Owners'
    BY <1>5, <1>7, <1>8, <1>9 DEF Owners, Live, Present
  <1>11. ASSUME NEW f \in Runs, run'[f].phase \notin {"none", "ended"}, run'[f].phase # "opening",
                cell'[run'[f].draft] # "absent", run'[f].owner = store'.number
         PROVE  store'.handles[run'[f].draft] = f
    <2>1. /\ Live(f) /\ run'[f] = run[f] /\ run[f].phase # "opening" /\ run[f].owner = store.number
          /\ cell[run[f].draft] # "absent" /\ run[f].draft \notin D /\ run[f].draft \in Drafts
      BY <1>2, <1>3, <1>4, <1>6, <1>11
    <2>2. store.handles[run[f].draft] = f
      BY <2>1 DEF Owned, RemoveStopsIt, Present
    <2> QED BY <2>1, <2>2, <1>2
  <1>12. RemoveStopsIt'
    BY <1>11 DEF RemoveStopsIt, Live, Present
  <1> QED BY <1>10, <1>12 DEF Owned

\* Nothing happens to the engines; a cell may be dropped, a store replaced.
LEMMA RestOwned ==
    ASSUME Shape, Owned, UNCHANGED <<used, run, started>>,
           \A x \in Drafts : cell'[x] = cell[x] \/ cell'[x] = "absent",
           store' = store \/ store'.number = store.number + 1
    PROVE  Owned'
  <1>1. store.number \in Nat /\ \A f \in Runs : run[f].draft \in Drafts /\ run[f].owner \in Nat
    BY DEF Shape, DraftShape, StoreRec, EngineShape, RunRec
  <1>2. ASSUME NEW f \in Runs
        PROVE  /\ run[f].phase = "none" <=> f > started
               /\ run[f].phase # "none" => run[f].draft \in used /\ run[f].owner <= store'.number
               /\ run[f].aborted => run[f].phase # "none"
               /\ run[f].aborted => cell'[run[f].draft] = "absent" \/ run[f].phase = "ended"
    <2>1. /\ run[f].phase = "none" <=> f > started
          /\ run[f].phase # "none" => run[f].draft \in used /\ run[f].owner <= store.number
          /\ run[f].aborted => run[f].phase # "none"
          /\ run[f].aborted => cell[run[f].draft] = "absent" \/ run[f].phase = "ended"
      BY DEF Owned, Owners, Present
    <2>2. run[f].phase # "none" => run[f].owner <= store'.number
      BY <2>1, <1>1
    <2>3. run[f].aborted => cell'[run[f].draft] = "absent" \/ run[f].phase = "ended"
      BY <2>1, <1>1
    <2> QED BY <2>1, <2>2, <2>3
  <1>3. \A f, g \in Runs : Live(f) /\ Live(g) /\ run[f].draft = run[g].draft /\ cell'[run[f].draft] # "absent"
                             => f = g
    BY <1>1 DEF Owned, Owners, Present
  <1>4. \A x \in Drafts : cell'[x] # "absent" => x \in used
    BY DEF Owned, Owners, Present
  <1>5. \A f \in Runs : Live(f) => cell'[run[f].draft] # "error"
    BY <1>1 DEF Owned, Owners
  <1>6. Owners'
    BY <1>2, <1>3, <1>4, <1>5 DEF Owners, Live, Present
  <1>7. ASSUME NEW f \in Runs, Live(f), run[f].phase # "opening",
               cell'[run[f].draft] # "absent", run[f].owner = store'.number
        PROVE  store'.handles[run[f].draft] = f
    <2>1. run[f].owner <= store.number
      BY <1>7 DEF Owned, Owners, Live
    <2>2. store' = store
      BY <2>1, <1>1, <1>7
    <2>3. cell[run[f].draft] # "absent"
      BY <1>1, <1>7
    <2> QED BY <2>2, <2>3, <1>7 DEF Owned, RemoveStopsIt, Present
  <1>8. RemoveStopsIt'
    BY <1>7 DEF RemoveStopsIt, Live, Present
  <1> QED BY <1>6, <1>8 DEF Owned

----------------------------------------------------------------------------
(* How many requests are on an id.                                          *)

\* The requests on i at some places, of engines R with calls c and left L.
OfRuns(R, c, i, P) == {e \in Runs : c[e].at \in P /\ R[e].id = i}
OfLate(L, i, P) == {l \in L : l.at \in P /\ l.q.id = i}
Alone(R, c, L, i, P) ==
    /\ \A e, f \in OfRuns(R, c, i, P) : e = f
    /\ \A l, m \in OfLate(L, i, P) : l = m
    /\ \A e \in OfRuns(R, c, i, P) : \A l \in OfLate(L, i, P) : FALSE

\* A set of fewer than two elements.
LEMMA FewerThanTwo ==
    ASSUME NEW S, IsFiniteSet(S), Cardinality(S) < 2
    PROVE  \A x, y \in S : x = y
  <1> SUFFICES ASSUME NEW x \in S, NEW y \in S, x # y PROVE FALSE
    OBVIOUS
  <1>1. IsFiniteSet({x}) /\ Cardinality({x}) = 1
    BY FS_Singleton
  <1>2. Cardinality({x} \cup {y}) = 2
    BY <1>1, FS_AddElement
  <1>3. {x} \cup {y} \in SUBSET S
    OBVIOUS
  <1>4. Cardinality({x} \cup {y}) <= Cardinality(S)
    BY <1>3, FS_Subset
  <1>5. Cardinality(S) \in Nat
    BY FS_CardinalityType
  <1> QED BY <1>2, <1>4, <1>5

\* At most one request is alone; none is nowhere.
LEMMA CountAlone ==
    ASSUME NEW R, NEW c, NEW L, IsFiniteSet(L), NEW i, NEW P
    PROVE  LET n == Cardinality(OfRuns(R, c, i, P)) + Cardinality(OfLate(L, i, P))
           IN  /\ ~(n > 1) => Alone(R, c, L, i, P)
               /\ n # 0 => OfRuns(R, c, i, P) # {} \/ OfLate(L, i, P) # {}
               /\ OfRuns(R, c, i, P) = {} /\ OfLate(L, i, P) = {} => n = 0
  <1> DEFINE A == OfRuns(R, c, i, P)
             B == OfLate(L, i, P)
  <1>1. IsFiniteSet(Runs)
    BY UploadAssumption, FS_Interval DEF Runs
  <1>2. A \in SUBSET Runs /\ B \in SUBSET L
    BY DEF OfRuns, OfLate
  <1> HIDE DEF A, B
  <1>3. IsFiniteSet(A) /\ IsFiniteSet(B)
    BY <1>1, <1>2, FS_Subset
  <1>4. /\ Cardinality(A) \in Nat /\ Cardinality(B) \in Nat
        /\ Cardinality(A) = 0 <=> A = {}
        /\ Cardinality(B) = 0 <=> B = {}
    BY <1>3, FS_CardinalityType, FS_EmptySet
  <1>5. ASSUME ~(Cardinality(A) + Cardinality(B) > 1) PROVE Alone(R, c, L, i, P)
    <2>1. Cardinality(A) < 2 /\ Cardinality(B) < 2
      BY <1>4, <1>5
    <2>2. (\A x, y \in A : x = y) /\ (\A x, y \in B : x = y)
      BY <2>1, <1>3, FewerThanTwo
    <2>3. A = {} \/ B = {}
      BY <1>4, <1>5
    <2> QED BY <2>2, <2>3 DEF Alone, A, B
  <1> QED BY <1>4, <1>5 DEF A, B

\* An id that is not hurt has at most one request in the service, and bytes
\* that were moved have the one that moved them.
LEMMA Unhurt ==
    ASSUME CallShape, NEW i \in Ids, ~Hurt(i)
    PROVE  /\ Alone(run, call, late, i, InService)
           /\ ~disk[i].meta /\ disk[i].blob # <<>> =>
                \/ \E e \in Runs : call[e].at = "renamed" /\ run[e].id = i
                \/ \E l \in late : l.at = "renamed" /\ l.q.id = i
  <1>1. /\ OnId(i, InService) = Cardinality(OfRuns(run, call, i, InService))
                                 + Cardinality(OfLate(late, i, InService))
        /\ OnId(i, {"renamed"}) = Cardinality(OfRuns(run, call, i, {"renamed"}))
                                 + Cardinality(OfLate(late, i, {"renamed"}))
    BY DEF OnId, OfRuns, OfLate
  <1>2. IsFiniteSet(late)
    BY DEF CallShape
  <1>3. Alone(run, call, late, i, InService)
    BY <1>1, <1>2, CountAlone DEF Hurt, Overlap, Torn
  <1>4. OnId(i, {"renamed"}) # 0 => \/ OfRuns(run, call, i, {"renamed"}) # {}
                                    \/ OfLate(late, i, {"renamed"}) # {}
    BY <1>1, <1>2, CountAlone
  <1> QED BY <1>3, <1>4 DEF Hurt, Overlap, Torn, OfRuns, OfLate

\* The same after a step.
LEMMA UnhurtNext ==
    ASSUME CallShape', NEW i \in Ids, ~Hurt(i)'
    PROVE  Alone(run', call', late', i, InService)
  <1>1. OnId(i, InService)' = Cardinality(OfRuns(run', call', i, InService))
                                 + Cardinality(OfLate(late', i, InService))
    BY DEF OnId, OfRuns, OfLate, InService
  <1>2. IsFiniteSet(late')
    BY DEF CallShape
  <1> QED BY <1>1, <1>2, CountAlone DEF Hurt, Overlap, Torn

----------------------------------------------------------------------------
(* The files of an id.                                                      *)

\* A file goes from staged to moved to final.
Ages(i) ==
    \/ disk'[i] = disk[i]
    \/ Staged(i) /\ Staged(i)' /\ Len(disk[i].part) <= Len(disk'[i].part)
    \/ Staged(i) /\ Len(disk[i].part) = Size /\ Moved(i)'
    \/ Moved(i) /\ Final(i)'
    \/ Final(i) /\ Final(i)'
Stage(i) == Staged(i) \/ Moved(i) \/ Final(i)

\* The stages exclude each other.
LEMMA StagesApart ==
    ASSUME NEW i
    PROVE  /\ Staged(i) => ~Moved(i) /\ ~Final(i)
           /\ Moved(i) => ~Final(i)
           /\ Staged(i)' => ~Moved(i)' /\ ~Final(i)'
           /\ Moved(i)' => ~Final(i)'
  <1>1. File # <<>>
    <2>1. 1 \in DOMAIN File
      BY UploadAssumption DEF File
    <2> QED BY <2>1
  <1> QED BY <1>1 DEF Staged, Moved, Final

\* What a file's age keeps.
LEMMA AgesKeep ==
    ASSUME Shape, NEW i \in Ids, Ages(i)
    PROVE  /\ Stage(i) => Stage(i)'
           /\ Final(i) => Final(i)'
           /\ Staged(i)' => /\ Staged(i) /\ Len(disk[i].part) <= Len(disk'[i].part)
                            /\ Len(disk[i].part) = Size => Len(disk'[i].part) = Size
           /\ Staged(i) => \/ Staged(i)' /\ Len(disk[i].part) <= Len(disk'[i].part)
                           \/ Moved(i)' /\ Len(disk[i].part) = Size
  <1>0. Len(disk[i].part) \in Nat
    BY DEF Shape, ServiceShape, FilesRec
  <1>1. CASE disk'[i] = disk[i]
    <2>1. /\ Staged(i)' <=> Staged(i)
          /\ Moved(i)' <=> Moved(i)
          /\ Final(i)' <=> Final(i)
      BY <1>1 DEF Staged, Moved, Final
    <2> QED BY <1>0, <1>1, <2>1 DEF Stage
  <1>2. CASE Staged(i) /\ Staged(i)' /\ Len(disk[i].part) <= Len(disk'[i].part)
    <2>1. Len(disk'[i].part) <= Size /\ Len(disk[i].part) <= Size
      BY <1>2 DEF Staged
    <2> QED BY <1>0, <1>2, <2>1, StagesApart, UploadAssumption DEF Stage
  <1>3. CASE Staged(i) /\ Len(disk[i].part) = Size /\ Moved(i)'
    BY <1>3, StagesApart DEF Stage
  <1>4. CASE Moved(i) /\ Final(i)'
    BY <1>4, StagesApart DEF Stage
  <1>5. CASE Final(i) /\ Final(i)'
    BY <1>5, StagesApart DEF Stage
  <1> QED BY <1>1, <1>2, <1>3, <1>4, <1>5 DEF Ages

\* An index past the first n of n + m.
LEMMA PastLen ==
    ASSUME NEW n \in Nat, NEW m \in Nat, NEW k \in Int, k > n, k <= n + m
    PROVE  k - n \in 1..m /\ n + (k - n) = k
  OBVIOUS

\* A chunk is appended.
LEMMA PutAges ==
    ASSUME ServiceShape, NEW q, q.id \in Ids, q.offset \in Nat, q.len \in Nat,
           Staged(q.id), q.offset = Len(disk[q.id].part), q.offset + q.len <= Size,
           disk' = [disk EXCEPT ![q.id] = [disk[q.id] EXCEPT !.part = @ \o Data(q)]]
    PROVE  /\ Staged(q.id)' /\ Len(disk'[q.id].part) = q.offset + q.len
           /\ Len(disk[q.id].part) <= Len(disk'[q.id].part)
  <1> DEFINE f == disk[q.id]
             p == f.part \o Data(q)
  <1>1. f \in FilesRec /\ f.part \in Seq(Nat)
    BY DEF ServiceShape, FilesRec
  <1>2. disk'[q.id] = [f EXCEPT !.part = p]
    BY DEF ServiceShape
  <1>3. /\ p \in Seq(Nat) /\ Len(p) = Len(f.part) + q.len
        /\ \A k \in 1..Len(f.part) : p[k] = f.part[k]
        /\ \A k \in 1..q.len : p[Len(f.part) + k] = q.offset + k
    BY <1>1, PartData
  <1>4. Len(f.part) \in Nat
    BY <1>1
  <1> HIDE DEF p
  <1>5. /\ disk'[q.id].part = p /\ disk'[q.id].session = f.session /\ disk'[q.id].meta = f.meta
        /\ disk'[q.id].blob = f.blob
    BY <1>1, <1>2 DEF FilesRec
  <1>6. f.session /\ ~f.meta /\ f.blob = <<>> /\ \A k \in 1..Len(f.part) : f.part[k] = k
    BY DEF Staged
  <1>7. ASSUME NEW k \in 1..Len(p) PROVE p[k] = k
    <2>1. CASE k <= Len(f.part)
      BY <2>1, <1>3, <1>4, <1>6
    <2>2. CASE k > Len(f.part)
      <3>1. k - Len(f.part) \in 1..q.len /\ Len(f.part) + (k - Len(f.part)) = k
        <4>1. k \in Int /\ k <= Len(f.part) + q.len
          BY <1>3, <1>4
        <4> QED BY <4>1, <2>2, <1>4, PastLen
      <3>2. p[Len(f.part) + (k - Len(f.part))] = q.offset + (k - Len(f.part))
        BY <3>1, <1>3
      <3> QED BY <3>1, <3>2, <1>4
    <2> QED BY <2>1, <2>2, <1>4
  <1>8. Staged(q.id)'
    <2>1. Len(p) <= Size
      BY <1>3
    <2>2. disk'[q.id].session /\ ~disk'[q.id].meta /\ disk'[q.id].blob = <<>>
      BY <1>5, <1>6
    <2>3. \A k \in 1..Len(disk'[q.id].part) : disk'[q.id].part[k] = k
      BY <1>5, <1>7
    <2> QED BY <2>1, <2>2, <2>3, <1>5 DEF Staged
  <1> QED BY <1>3, <1>4, <1>5, <1>8

\* The whole of the staged bytes is the file.
LEMMA StagedIsFile ==
    ASSUME ServiceShape, NEW i \in Ids, Staged(i), Len(disk[i].part) = Size
    PROVE  disk[i].part = File
  <1> DEFINE p == disk[i].part
  <1>1. p \in Seq(Nat) /\ Len(p) = Size /\ \A k \in 1..Size : p[k] = k
    BY DEF ServiceShape, FilesRec, Staged
  <1> HIDE DEF p
  <1>2. DOMAIN p = 1..Size
    BY <1>1
  <1>3. p = [k \in 1..Size |-> p[k]]
    BY <1>1, <1>2
  <1>4. p = File
    BY <1>1, <1>3 DEF File
  <1> QED BY <1>4 DEF p

\* A step of the service on an id that is not harmed.
LEMMA ServedFiles ==
    ASSUME Shape, NEW q, NEW at, NEW now, now = Served(q, at).now,
           Fits(q, at), q.op \in {"put", "complete", "status"}, q.id \in Ids,
           q.op = "put" => q.offset \in Nat /\ q.len \in Nat,
           Stage(q.id), at \in Places => Request1(q, at), disk' = Served(q, at).disk,
           at = "sent" /\ now.at \in InService => ~Moved(q.id)
    PROVE  LET i == q.id
           IN  /\ Ages(i) /\ (at = "sent" \/ q.op = "status" => disk' = disk)
               /\ \A j \in Ids : j # i => disk'[j] = disk[j]
               /\ Staged(i) /\ Moved(i)' => q.op = "complete"
               /\ now.at \in InService => Request1(q, now.at)'
               /\ q.op = "put" /\ now.at = "answered" /\ now.reply = "ok" /\ Staged(i)
                    => q.offset + q.len <= Len(disk'[i].part)
               /\ q.op = "complete" /\ now.at = "answered" => now.reply = "ok" /\ Final(i)'
               /\ q.op = "status" /\ Staged(i)
                    => now.at = "answered" /\ now.reply = "ok" /\ now.value = Len(disk[i].part)
               /\ /\ q.op = "put" /\ Staged(i) /\ now.at = "answered"
                  /\ q.offset <= Len(disk[i].part) /\ q.offset + q.len <= Size
                  => now.reply \in {"ok", "mismatch"}
  <1> DEFINE i == q.id
             f == disk[i]
  <1>0. /\ ServiceShape /\ i \in Ids /\ f \in FilesRec /\ disk \in [Ids -> FilesRec]
        /\ f.part \in Seq(Nat) /\ Len(f.part) \in Nat /\ i \in Nat
    BY UploadAssumption DEF Shape, ServiceShape, FilesRec, Ids
  <1>a. at \in Places /\ Request1(q, at)
    BY DEF Fits
  <1>b. InService = {"checked", "looked", "renamed", "recorded"}
    BY DEF InService
  <1>c. Ages(i) /\ disk' = disk => \A j \in Ids : j # i => disk'[j] = disk[j]
    OBVIOUS
  <1>d. disk' = disk => ~(Staged(i) /\ Moved(i)')
    <2>1. disk' = disk => (Moved(i)' <=> Moved(i))
      BY DEF Moved
    <2> QED BY <2>1, StagesApart
  <1>1. CASE q.op = "put" /\ at = "sent"
    <2>1. Served(q, at) = [disk |-> disk, minted |-> minted, now |-> PutChecked(q)]
      BY <1>1, ServedSent
    <2>2. disk' = disk /\ now = PutChecked(q)
      BY <2>1
    <2>3. Ages(i)
      BY <2>2 DEF Ages
    <2>a. /\ At("checked") # Reply("unknown", 0) /\ At("checked") # Reply("mismatch", 0)
          /\ At("checked") # Reply("too_large", 0)
      <3>1. /\ Reply("unknown", 0).at = "answered" /\ Reply("mismatch", 0).at = "answered"
            /\ Reply("too_large", 0).at = "answered" /\ At("checked").at = "checked"
        BY DEF Reply, At, NoCall
      <3> QED BY <3>1
    <2>4. /\ PutChecked(q) = At("checked") =>
               f.session /\ q.offset = Len(f.part) /\ q.offset + q.len <= Size
          /\ PutChecked(q) \in {Reply("unknown", 0), Reply("mismatch", 0), Reply("too_large", 0), At("checked")}
          /\ f.session /\ q.offset <= Len(f.part) /\ q.offset + q.len <= Size =>
               PutChecked(q) \in {Reply("mismatch", 0), At("checked")}
      <3>1. CASE ~f.session
        <4>1. PutChecked(q) = Reply("unknown", 0)
          BY <3>1 DEF PutChecked
        <4> QED BY <4>1, <3>1, <2>a
      <3>2. CASE f.session /\ q.offset # Len(f.part)
        <4>1. PutChecked(q) = Reply("mismatch", 0)
          BY <3>2 DEF PutChecked
        <4> QED BY <4>1, <3>2, <2>a
      <3>3. CASE f.session /\ q.offset = Len(f.part) /\ q.offset + q.len > Size
        <4>1. PutChecked(q) = Reply("too_large", 0)
          BY <3>3 DEF PutChecked
        <4>2. ~(q.offset + q.len <= Size)
          BY <3>3, <1>1, UploadAssumption
        <4> QED BY <4>1, <4>2, <3>3, <2>a
      <3>4. CASE f.session /\ q.offset = Len(f.part) /\ ~(q.offset + q.len > Size)
        <4>1. PutChecked(q) = At("checked")
          BY <3>4 DEF PutChecked
        <4>2. q.offset + q.len <= Size
          BY <3>4, <1>1, UploadAssumption
        <4> QED BY <4>1, <4>2, <3>4
      <3> QED BY <3>1, <3>2, <3>3, <3>4
    <2>5. /\ Reply("unknown", 0).at = "answered" /\ Reply("mismatch", 0).at = "answered"
          /\ Reply("too_large", 0).at = "answered" /\ At("checked").at = "checked"
          /\ Reply("unknown", 0).reply = "unknown" /\ Reply("mismatch", 0).reply = "mismatch"
          /\ Reply("too_large", 0).reply = "too_large"
      BY DEF Reply, At, NoCall
    <2>6. ASSUME now.at \in InService PROVE Request1(q, now.at)'
      <3>1. now.at = "checked" /\ now = At("checked")
        BY <2>2, <2>4, <2>5, <2>6, <1>b
      <3>2. f.session /\ q.offset = Len(f.part) /\ q.offset + q.len <= Size
        BY <3>1, <2>2, <2>4
      <3>3. Staged(i) \/ Final(i)
        BY <2>6, <1>1 DEF Stage
      <3>4. (Staged(i) /\ q.offset = Len(f.part) /\ q.offset + q.len <= Size) \/ Final(i)
        BY <3>2, <3>3
      <3>5. /\ Staged(i)' <=> Staged(i)
            /\ Final(i)' <=> Final(i)
        BY <2>2 DEF Staged, Final
      <3> QED BY <3>1, <3>4, <3>5, <2>2, <1>1 DEF Request1
    <2>7. ~(now.at = "answered" /\ now.reply = "ok")
      BY <2>2, <2>4, <2>5
    <2>8. ASSUME Staged(i), now.at = "answered", q.offset <= Len(f.part), q.offset + q.len <= Size
          PROVE  now.reply \in {"ok", "mismatch"}
      <3>1. f.session
        BY <2>8 DEF Staged
      <3> QED BY <3>1, <2>8, <2>2, <2>4, <2>5
    <2>9. ~(Staged(i) /\ Moved(i)')
      BY <2>2, <1>d
    <2> QED BY <2>2, <2>3, <2>6, <2>7, <2>8, <2>9, <1>1
  <1>2. CASE q.op = "put" /\ at = "checked"
    <2>1. /\ disk' = [disk EXCEPT ![i] = [disk[i] EXCEPT !.part = @ \o Data(q)]]
          /\ now = Reply("ok", 0)
      BY <1>2, ServedChecked
    <2>2. \A j \in Ids : j # i => disk'[j] = disk[j]
      BY <2>1, <1>0
    <2>3. now.at = "answered" /\ now.reply = "ok"
      BY <2>1 DEF Reply
    <2>4. \/ Staged(i) /\ q.offset = Len(f.part) /\ q.offset + q.len <= Size
          \/ Final(i)
      BY <1>2, <1>a DEF Request1
    <2>5. CASE Staged(i) /\ q.offset = Len(f.part) /\ q.offset + q.len <= Size
      <3>1. /\ Staged(i)' /\ Len(disk'[i].part) = q.offset + q.len
            /\ Len(disk[i].part) <= Len(disk'[i].part)
        BY <2>1, <2>5, <1>0, <1>2, PutAges
      <3>2. Ages(i)
        BY <3>1, <2>5 DEF Ages
      <3>3. q.offset + q.len <= Len(disk'[i].part)
        BY <3>1, <1>2
      <3>4. ~Moved(i)'
        BY <3>1, StagesApart
      <3> QED BY <3>2, <3>3, <3>4, <2>2, <2>3, <1>2, <1>b
    <2>6. CASE Final(i)
      <3>1. disk'[i] = [f EXCEPT !.part = @ \o Data(q)]
        BY <2>1, <1>0
      <3>2. disk'[i].meta = f.meta /\ disk'[i].blob = f.blob
        BY <3>1, <1>0 DEF FilesRec
      <3>3. Final(i)'
        BY <3>2, <2>6 DEF Final
      <3>4. Ages(i) /\ ~Staged(i)
        BY <3>3, <2>6, StagesApart DEF Ages
      <3> QED BY <3>4, <2>2, <2>3, <1>2, <1>b
    <2> QED BY <2>4, <2>5, <2>6
  <1>3. CASE q.op = "status"
    <2>1. Served(q, at) = [disk |-> disk, minted |-> minted, now |-> StatusReply(q)]
      BY <1>3, ServedSent
    <2>2. disk' = disk /\ now = StatusReply(q)
      BY <2>1
    <2>3. Ages(i)
      BY <2>2 DEF Ages
    <2>4. StatusReply(q) \in {Reply("ok", Size), Reply("ok", Len(f.part)), Reply("unknown", 0)}
      BY DEF StatusReply
    <2>5. now.at = "answered"
      BY <2>2, <2>4 DEF Reply
    <2>6. ASSUME Staged(i) PROVE now.reply = "ok" /\ now.value = Len(f.part)
      <3>1. f.session /\ ~f.meta
        BY <2>6 DEF Staged
      <3>2. StatusReply(q) = Reply("ok", Len(f.part))
        BY <3>1 DEF StatusReply
      <3> QED BY <3>2, <2>2 DEF Reply
    <2>7. ~(Staged(i) /\ Moved(i)')
      BY <2>2, <1>d
    <2> QED BY <2>2, <2>3, <2>5, <2>6, <2>7, <1>3, <1>b
  <1>4. CASE q.op = "complete" /\ at = "sent"
    <2>1. Served(q, at) = [disk |-> disk, minted |-> minted, now |-> FinalizeLooked(q)]
      BY <1>4, ServedSent
    <2>2. disk' = disk /\ now = FinalizeLooked(q)
      BY <2>1
    <2>3. Ages(i)
      BY <2>2 DEF Ages
    <2>4. /\ f.meta => FinalizeLooked(q) = Reply("ok", i)
          /\ ~f.meta => FinalizeLooked(q) = At("looked")
      BY DEF FinalizeLooked
    <2>5. Reply("ok", i).at = "answered" /\ Reply("ok", i).reply = "ok" /\ At("looked").at = "looked"
      BY DEF Reply, At, NoCall
    <2>6. CASE f.meta
      <3>1. Final(i)
        BY <2>6 DEF Stage, Staged, Moved
      <3>2. Final(i)'
        BY <3>1, <2>2 DEF Final
      <3> QED BY <3>2, <2>2, <2>3, <2>4, <2>5, <2>6, <1>4, <1>b
    <2>7. CASE ~f.meta
      <3>1. now.at = "looked"
        BY <2>2, <2>4, <2>5, <2>7
      <3>2. Staged(i)
        BY <3>1, <2>7, <1>4, <1>b DEF Stage, Final
      <3>3. Len(f.part) = Size
        BY <3>2, <1>4, <1>a DEF Request1
      <3>4. Staged(i)' /\ disk'[i].part = f.part
        BY <3>2, <2>2 DEF Staged
      <3>5. Request1(q, now.at)'
        BY <3>1, <3>3, <3>4, <1>4 DEF Request1
      <3> QED BY <3>1, <3>5, <2>2, <2>3, <1>4
    <2> QED BY <2>6, <2>7
  <1>5. CASE q.op = "complete" /\ at = "looked"
    <2>1. Staged(i) /\ Len(f.part) = Size
      BY <1>5, <1>a DEF Request1
    <2>2. Completable(q)
      BY <2>1 DEF Completable, Staged
    <2>3. /\ disk' = [disk EXCEPT ![i] = [disk[i] EXCEPT !.part = <<>>, !.blob = disk[i].part]]
          /\ now = At("renamed")
      BY <1>5, <2>2, ServedLooked
    <2>4. f.part = File
      BY <2>1, <1>0, StagedIsFile
    <2>5. disk'[i] = [f EXCEPT !.part = <<>>, !.blob = f.part] /\ \A j \in Ids : j # i => disk'[j] = disk[j]
      BY <2>3, <1>0
    <2>6. disk'[i].session = f.session /\ disk'[i].meta = f.meta /\ disk'[i].blob = f.part
      BY <2>5, <1>0 DEF FilesRec
    <2>7. Moved(i)'
      <3>1. f.session /\ ~f.meta
        BY <2>1 DEF Staged
      <3> QED BY <3>1, <2>4, <2>6 DEF Moved
    <2>8. Ages(i) /\ now.at = "renamed"
      BY <2>1, <2>3, <2>7 DEF Ages, At, NoCall
    <2>9. Request1(q, now.at)'
      BY <2>7, <2>8, StagesApart DEF Request1
    <2> QED BY <2>5, <2>8, <2>9, <1>5
  <1>6. CASE q.op = "complete" /\ at = "renamed"
    <2>1. Moved(i)
      BY <1>6, <1>a DEF Request1
    <2>2. disk' = [disk EXCEPT ![i] = [disk[i] EXCEPT !.meta = TRUE]] /\ now = At("recorded")
      BY <1>6, ServedRenamed
    <2>3. disk'[i] = [f EXCEPT !.meta = TRUE] /\ \A j \in Ids : j # i => disk'[j] = disk[j]
      BY <2>2, <1>0
    <2>4. disk'[i].meta = TRUE /\ disk'[i].blob = f.blob
      BY <2>3, <1>0 DEF FilesRec
    <2>5. Final(i)'
      BY <2>1, <2>4 DEF Moved, Final
    <2>6. Ages(i) /\ now.at = "recorded"
      BY <2>1, <2>2, <2>5 DEF Ages, At, NoCall
    <2>7. Request1(q, now.at)'
      BY <2>5, <2>6, StagesApart DEF Request1
    <2> QED BY <2>3, <2>6, <2>7, <1>6
  <1>7. CASE q.op = "complete" /\ at = "recorded"
    <2>1. Final(i)
      BY <1>7, <1>a DEF Request1
    <2>2. disk' = [disk EXCEPT ![i] = [disk[i] EXCEPT !.session = FALSE]] /\ now = Reply("ok", i)
      BY <1>7, ServedRecorded
    <2>3. disk'[i] = [f EXCEPT !.session = FALSE] /\ \A j \in Ids : j # i => disk'[j] = disk[j]
      BY <2>2, <1>0
    <2>4. disk'[i].meta = f.meta /\ disk'[i].blob = f.blob
      BY <2>3, <1>0 DEF FilesRec
    <2>5. Final(i)'
      BY <2>1, <2>4 DEF Final
    <2>6. Ages(i) /\ now.at = "answered" /\ now.reply = "ok"
      BY <2>1, <2>2, <2>5 DEF Ages, Reply
    <2> QED BY <2>3, <2>5, <2>6, <1>7, <1>b
  <1>8. at \in {"sent", "checked", "looked", "renamed", "recorded"}
    BY <1>a, <1>b DEF Places
  <1> QED BY <1>1, <1>2, <1>3, <1>4, <1>5, <1>6, <1>7, <1>8 DEF Fits

----------------------------------------------------------------------------
(* The uploads are whole: steps of the service.                             *)

\* A request that is not touched.
LEMMA UntouchedRequest ==
    ASSUME Shape, NEW q, NEW at, q.id \in Ids, Request1(q, at), Ages(q.id),
           disk'[q.id] = disk[q.id] \/ at \notin InService
    PROVE  Request1(q, at)'
  <1>1. CASE disk'[q.id] = disk[q.id]
    <2>1. /\ Staged(q.id)' <=> Staged(q.id)
          /\ Moved(q.id)' <=> Moved(q.id)
          /\ Final(q.id)' <=> Final(q.id)
      BY <1>1 DEF Staged, Moved, Final
    <2> QED BY <1>1, <2>1 DEF Request1
  <1>2. CASE at \notin InService
    <2>1. at \notin {"checked", "looked", "renamed", "recorded"}
      BY <1>2 DEF InService
    <2>2. q.op = "complete" /\ Staged(q.id)' => Len(disk'[q.id].part) = Size
      BY AgesKeep DEF Request1
    <2> QED BY <2>1, <2>2 DEF Request1
  <1> QED BY <1>1, <1>2

\* An engine that is not touched.
LEMMA UntouchedEngine ==
    ASSUME Shape, NEW e \in Runs, run'[e] = run[e], call'[e] = call[e], run[e].id \in Ids,
           Engine(e), Ages(run[e].id),
           Staged(run[e].id) /\ Moved(run[e].id)' => ~Sending(run[e])
    PROVE  Engine(e)'
  <1>1. PICK i \in Ids : i = run[e].id
    OBVIOUS
  <1>2. PICK r \in RunRec : r = run[e]
    BY DEF Shape, EngineShape
  <1>3. PICK c \in CallRec : c = call[e]
    BY DEF Shape, CallShape
  <1>4. /\ Final(i) => Final(i)'
        /\ Staged(i)' => /\ Staged(i) /\ Len(disk[i].part) <= Len(disk'[i].part)
                         /\ Len(disk[i].part) = Size => Len(disk'[i].part) = Size
        /\ Staged(i) => \/ Staged(i)' /\ Len(disk[i].part) <= Len(disk'[i].part)
                        \/ Moved(i)' /\ Len(disk[i].part) = Size
    BY <1>1, AgesKeep
  <1>5. /\ Sending(r) => Staged(i) /\ r.offset <= Len(disk[i].part)
        /\ Finishing(r) /\ Staged(i) => Len(disk[i].part) = Size
        /\ r.phase = "putting" /\ c.at = "answered" =>
             /\ c.reply \in {"ok", "mismatch", "broken"}
             /\ c.reply = "ok" => r.offset + ChunkLen(r) <= Len(disk[i].part)
        /\ r.phase \in {"resyncing", "recovering"} /\ c.at = "answered" =>
             c.reply \in {"ok", "broken"} /\ (c.reply = "ok" => c.value <= Len(disk[i].part))
        /\ r.phase = "completing" /\ c.at = "answered" =>
             c.reply \in {"ok", "broken"} /\ (c.reply = "ok" => Final(i))
    BY <1>1, <1>2, <1>3 DEF Engine, Awaiting
  <1>6. /\ r.offset \in Nat /\ c.value \in Nat /\ ChunkLen(r) \in Int
        /\ Len(disk[i].part) \in Nat
    <2>1. r.offset \in Nat /\ c.value \in Nat /\ r.chunk \in MinChunk..MaxChunk
      BY DEF RunRec, CallRec
    <2>2. ChunkLen(r) \in Int
      BY <2>1, UploadAssumption DEF ChunkLen
    <2>3. disk[i].part \in Seq(Nat)
      BY DEF Shape, ServiceShape, FilesRec
    <2> QED BY <2>1, <2>2, <2>3
  <1>7. Sending(r) => Staged(i)' /\ Len(disk[i].part) <= Len(disk'[i].part)
    BY <1>1, <1>2, <1>4, <1>5, StagesApart
  <1>8. r.phase \in {"putting", "resyncing", "recovering"} => Sending(r)
    BY DEF Sending
  <1>a. Sending(r) => Len(disk'[i].part) \in Int
    BY <1>4, <1>6, <1>7, UploadAssumption DEF Staged
  <1>9. /\ Sending(r) => Staged(i)' /\ r.offset <= Len(disk'[i].part)
        /\ Finishing(r) /\ Staged(i)' => Len(disk'[i].part) = Size
        /\ r.phase = "putting" /\ c.at = "answered" =>
             /\ c.reply \in {"ok", "mismatch", "broken"}
             /\ c.reply = "ok" => r.offset + ChunkLen(r) <= Len(disk'[i].part)
        /\ r.phase \in {"resyncing", "recovering"} /\ c.at = "answered" =>
             c.reply \in {"ok", "broken"} /\ (c.reply = "ok" => c.value <= Len(disk'[i].part))
        /\ r.phase = "completing" /\ c.at = "answered" =>
             c.reply \in {"ok", "broken"} /\ (c.reply = "ok" => Final(i)')
    BY <1>4, <1>5, <1>6, <1>7, <1>8, <1>a
  <1>10. i = run'[e].id /\ r = run'[e] /\ c = call'[e]
    BY <1>1, <1>2, <1>3
  <1> QED BY <1>9, <1>10 DEF Engine, Awaiting

EngineRequest(e) ==
    call[e].at \in Places /\ run[e].id \in Ids \ harmed => Request1(Request(e), call[e].at)
LateRequest(l) == l.q.id \in Ids \ harmed => Request1(l.q, l.at)

\* A step of the service on the files of i.
LEMMA ServedWhole ==
    ASSUME Shape, Shape', Whole, Note, NEW i \in Ids,
           UNCHANGED <<run, cell, given, sent, minted>>,
           \A j \in Ids : j # i => disk'[j] = disk[j],
           i \in harmed' \/ Ages(i),
           i \notin harmed' /\ Staged(i) /\ Moved(i)' =>
             \A f \in Runs : Claim(f) = i => Finishing(run[f]) \/ run[f].phase = "ended",
           \A f \in Runs : \/ /\ call'[f] = call[f]
                              /\ run[f].id = i /\ i \notin harmed' =>
                                   disk'[i] = disk[i] \/ call[f].at \notin InService
                           \/ /\ run[f].phase # "creating" /\ run[f].id = i
                              /\ EngineRequest(f)' /\ (i \notin harmed' => Engine(f)'),
           \A k \in late' : \/ /\ k \in late
                               /\ k.q.id = i /\ i \notin harmed' =>
                                    disk'[i] = disk[i] \/ k.at \notin InService
                            \/ LateRequest(k)' /\ \E l \in late : k.q = l.q /\ k.n = l.n
    PROVE  Whole'
  <1>0. /\ harmed' \in SUBSET Ids /\ harmed \subseteq harmed' /\ Noticed'
    BY Noted
  <1>a. /\ run \in [Runs -> RunRec] /\ call \in [Runs -> CallRec] /\ minted \in 0..MaxSessions
        /\ late \in SUBSET LateRec
    BY DEF Shape, EngineShape, CallShape, ServiceShape
  <1>b. 1..minted \subseteq Ids
    BY <1>a, UploadAssumption DEF Ids
  <1>1. \A j \in Ids : j \in harmed' \/ Ages(j)
    BY DEF Ages
  <1>2. ASSUME NEW f \in Runs
        PROVE  /\ Claim(f)' = Claim(f)
               /\ run[f].phase = "creating" => call'[f] = call[f]
    BY DEF Claim, Awaiting
  <1>3. Claims'
    <2>1. ASSUME NEW f \in Runs
          PROVE  /\ Claim(f)' \in 0..minted
                 /\ Before(run[f]) => run[f].id = 0
                 /\ Sending(run[f]) \/ Finishing(run[f]) => run[f].id # 0
                 /\ Awaiting(f, "creating")' => call'[f].reply \in {"ok", "broken"}
                 /\ Awaiting(f, "creating")' /\ call'[f].reply = "ok" => call'[f].value # 0
      BY <1>2 DEF Whole, Claims, Awaiting
    <2>2. \A f, g \in Runs : Claim(f)' = Claim(g)' /\ Claim(f)' # 0 => f = g
      BY <1>2 DEF Whole, Claims
    <2>3. ASSUME NEW k \in late'
          PROVE  IF k.q.op = "create" THEN k.q.id = 0
                 ELSE /\ k.q.id # 0 /\ k.q.id = run[k.n[1]].id
                      /\ k.q.op = "complete" => Finishing(run[k.n[1]]) \/ run[k.n[1]].phase = "ended"
      <3>1. PICK l \in late : k.q = l.q /\ k.n = l.n
        OBVIOUS
      <3> QED BY <3>1 DEF Whole, Claims
    <2> QED BY <2>1, <2>2, <2>3 DEF Claims, Before, Sending, Finishing
  <1>4. Stages'
    <2>1. ASSUME NEW j \in 1..minted PROVE j \in harmed' \/ Stage(j)'
      <3>1. j \in Ids /\ (j \in harmed \/ Stage(j))
        BY <1>b DEF Whole, Stages, Stage
      <3> QED BY <3>1, <1>0, <1>1, AgesKeep
    <2> QED BY <2>1 DEF Stages, Stage
  <1>5. Offered'
    <2>1. ASSUME NEW j \in 1..minted, j \in harmed \/ Final(j) PROVE j \in harmed' \/ Final(j)'
      <3>1. j \in Ids
        BY <1>b
      <3> QED BY <2>1, <3>1, <1>0, <1>1, AgesKeep
    <2> QED BY <2>1 DEF Offered, Whole
  <1>6. Failures'
    BY <1>0 DEF Failures, Whole
  <1>7. ASSUME NEW f \in Runs PROVE EngineRequest(f)'
    <2>1. CASE /\ call'[f] = call[f]
               /\ run[f].id = i /\ i \notin harmed' => disk'[i] = disk[i] \/ call[f].at \notin InService
      <3> SUFFICES ASSUME call[f].at \in Places, run[f].id \in Ids \ harmed'
                   PROVE  Request1(Request(f), call[f].at)'
        BY <2>1 DEF EngineRequest
      <3>1. PICK q : q = Request(f)
        OBVIOUS
      <3>2. PICK at : at = call[f].at
        OBVIOUS
      <3>3. Request1(q, at)
        BY <3>1, <3>2, <1>0 DEF Whole, Requests
      <3>4. q.id = run[f].id
        BY <3>1 DEF Request
      <3>5. Ages(q.id) /\ q.id \in Ids
        BY <3>4, <1>1
      <3>6. disk'[q.id] = disk[q.id] \/ at \notin InService
        BY <3>2, <3>4, <2>1
      <3>7. Request1(q, at)'
        BY <3>3, <3>5, <3>6, UntouchedRequest
      <3>8. q = Request(f)' /\ at = call'[f].at
        BY <3>1, <3>2, <2>1 DEF Request, ChunkLen
      <3> QED BY <3>7, <3>8 DEF Request1
    <2> QED BY <2>1
  <1>8. ASSUME NEW k \in late' PROVE LateRequest(k)'
    <2>1. CASE /\ k \in late
               /\ k.q.id = i /\ i \notin harmed' => disk'[i] = disk[i] \/ k.at \notin InService
      <3> SUFFICES ASSUME k.q.id \in Ids \ harmed' PROVE Request1(k.q, k.at)'
        BY DEF LateRequest
      <3>1. Request1(k.q, k.at)
        BY <2>1, <1>0 DEF Whole, Requests
      <3>2. Ages(k.q.id) /\ (disk'[k.q.id] = disk[k.q.id] \/ k.at \notin InService)
        BY <2>1, <1>1
      <3> QED BY <3>1, <3>2, UntouchedRequest
    <2> QED BY <2>1
  <1>9. Requests'
    BY <1>7, <1>8 DEF Requests, EngineRequest, LateRequest
  <1>10. ASSUME NEW f \in Runs, run[f].id \in Ids \ harmed' PROVE Engine(f)'
    <2>1. CASE call'[f] = call[f]
      <3>1. Engine(f) /\ Ages(run[f].id)
        BY <1>0, <1>1, <1>10 DEF Whole, Engines
      <3>2. Staged(run[f].id) /\ Moved(run[f].id)' => ~Sending(run[f])
        <4> SUFFICES ASSUME Staged(run[f].id), Moved(run[f].id)', Sending(run[f]) PROVE FALSE
          OBVIOUS
        <4>1. run[f].id = i
          <5>1. ASSUME run[f].id # i PROVE FALSE
            <6>1. PICK j \in Ids : j = run[f].id
              BY <1>10
            <6>2. disk'[j] = disk[j] /\ Staged(j) /\ Moved(j)'
              BY <6>1, <5>1
            <6>3. Moved(j)
              BY <6>2 DEF Moved
            <6> QED BY <6>2, <6>3, StagesApart
          <5> QED BY <5>1
        <4>2. Claim(f) = i
          BY <4>1 DEF Claim, Awaiting, Sending
        <4> QED BY <4>1, <4>2, <1>10 DEF Sending, Finishing
      <3> QED BY <2>1, <3>1, <3>2, <1>10, UntouchedEngine
    <2> QED BY <2>1, <1>10
  <1>11. Engines'
    BY <1>10 DEF Engines
  <1>12. Opening'
    <2> SUFFICES ASSUME NEW f \in Runs, Awaiting(f, "creating")', call'[f].reply = "ok",
                        call'[f].value \notin harmed'
                 PROVE  Staged(call[f].value)'
      BY DEF Opening
    <2>1. call'[f] = call[f] /\ Awaiting(f, "creating")
      BY <1>2 DEF Awaiting
    <2>2. PICK j \in Nat : j = call[f].value
      BY <1>a DEF CallRec
    <2>3. Claim(f) = j /\ j # 0 /\ j \in 0..minted
      BY <2>1, <2>2 DEF Claim, Whole, Claims
    <2>4. j \in Ids
      BY <2>3, <1>b, <1>a
    <2>5. Staged(j) /\ Ages(j)
      <3>1. j \notin harmed
        BY <2>1, <2>2, <1>0
      <3> QED BY <3>1, <2>1, <2>2, <2>4, <1>1 DEF Whole, Opening
    <2>6. Staged(j)'
      <3>1. ASSUME Moved(j)' PROVE FALSE
        <4>1. j = i
          <5>1. ASSUME j # i PROVE FALSE
            <6>1. Moved(j)
              BY <5>1, <2>4, <3>1 DEF Moved
            <6> QED BY <6>1, <2>5, StagesApart
          <5> QED BY <5>1
        <4>2. Finishing(run[f]) \/ run[f].phase = "ended"
          BY <4>1, <2>1, <2>2, <2>3, <2>5, <3>1
        <4> QED BY <4>2, <2>1 DEF Awaiting, Finishing
      <3> QED BY <3>1, <2>4, <2>5, AgesKeep
    <2>7. j = call'[f].value
      BY <2>1, <2>2
    <2> QED BY <2>6, <2>7 DEF Staged
  <1> QED BY <1>0, <1>3, <1>4, <1>5, <1>6, <1>9, <1>11, <1>12 DEF Whole

\* A request on an id leaves the other ids alone.
LEMMA ServedElsewhere ==
    ASSUME Shape, NEW q, NEW at, Fits(q, at), q.op \in {"put", "complete", "status"}, q.id \in Ids
    PROVE  /\ Served(q, at).minted = minted
           /\ \A j \in Ids : j # q.id => Served(q, at).disk[j] = disk[j]
           /\ at = "sent" \/ q.op = "status" => Served(q, at).now.at \in {"answered", "checked", "looked"}
  <1>0. disk \in [Ids -> FilesRec]
    BY DEF Shape, ServiceShape
  <1>1. CASE at = "sent" \/ q.op = "status"
    <2>1. \E x \in {PutChecked(q), StatusReply(q), FinalizeLooked(q)} :
             Served(q, at) = [disk |-> disk, minted |-> minted, now |-> x]
      BY <1>1, ServedSent
    <2>2. /\ PutChecked(q) \in {Reply("unknown", 0), Reply("mismatch", 0), Reply("too_large", 0), At("checked")}
          /\ StatusReply(q) \in {Reply("ok", Size), Reply("ok", Len(disk[q.id].part)), Reply("unknown", 0)}
          /\ FinalizeLooked(q) \in {Reply("ok", q.id), At("looked")}
      BY DEF PutChecked, StatusReply, FinalizeLooked
    <2>3. /\ \A w, v : Reply(w, v).at = "answered"
          /\ At("checked").at = "checked" /\ At("looked").at = "looked"
      BY DEF Reply, At, NoCall
    <2>4. \A x \in {PutChecked(q), StatusReply(q), FinalizeLooked(q)} : x.at \in {"answered", "checked", "looked"}
      BY <2>2, <2>3
    <2> QED BY <2>1, <2>4
  <1>2. CASE at = "checked" /\ q.op = "put"
    BY <1>0, <1>2, ServedChecked
  <1>3. CASE at = "looked" /\ q.op = "complete"
    BY <1>0, <1>3, ServedLooked
  <1>4. CASE at = "renamed" /\ q.op = "complete"
    BY <1>0, <1>4, ServedRenamed
  <1>5. CASE at = "recorded" /\ q.op = "complete"
    BY <1>0, <1>5, ServedRecorded
  <1> QED BY <1>1, <1>2, <1>3, <1>4, <1>5 DEF Fits, Places, InService

\* The requests of an engine that has its session are on it.
LEMMA ClaimIsId ==
    ASSUME Claims, NEW f \in Runs, run[f].id # 0
    PROVE  Claim(f) = run[f].id /\ run[f].id \in 0..minted /\ run[f].phase # "creating"
  <1>1. run[f].phase # "creating"
    BY DEF Claims, Before
  <1>2. Claim(f) = run[f].id
    BY <1>1 DEF Claim, Awaiting
  <1> QED BY <1>1, <1>2 DEF Claims

\* Not harmed by a step, so not hurt before or after it.
LEMMA Unharmed ==
    ASSUME Shape, Shape', Whole, Note, NEW i \in Ids, i \notin harmed'
    PROVE  /\ i \notin harmed
           /\ Alone(run, call, late, i, InService) /\ Alone(run', call', late', i, InService)
           /\ Moved(i) => \/ \E f \in Runs : call[f].at = "renamed" /\ run[f].id = i
                          \/ \E k \in late : k.at = "renamed" /\ k.q.id = i
           /\ i <= minted => Stage(i)
  <1>1. i \notin harmed /\ ~Hurt(i)'
    BY Noted DEF Noticed
  <1>2. ~Hurt(i) /\ CallShape /\ CallShape'
    BY <1>1 DEF Whole, Noticed, Shape
  <1>3. File # <<>>
    <2>1. 1 \in DOMAIN File
      BY UploadAssumption DEF File
    <2> QED BY <2>1
  <1>4. Moved(i) => ~disk[i].meta /\ disk[i].blob # <<>>
    BY <1>3 DEF Moved
  <1>5. ASSUME i <= minted PROVE Stage(i)
    <2>1. i \in 1..minted
      BY <1>5, UploadAssumption DEF Ids, Shape, ServiceShape
    <2> QED BY <2>1, <1>1 DEF Whole, Stages, Stage
  <1> QED BY <1>1, <1>2, <1>4, <1>5, Unhurt, UnhurtNext

\* A request the service gets to is not behind one that moved the bytes.
LEMMA NotMoved ==
    ASSUME Shape, Shape', Whole, Note, NEW i \in Ids, i \notin harmed', Moved(i),
           \A f \in Runs : call[f].at = "renamed" => run'[f] = run[f] /\ call'[f] = call[f],
           \A k \in late : k.at = "renamed" => k \in late'
    PROVE  /\ \A e \in Runs : call[e].at # "renamed" => ~(call'[e].at \in InService /\ run'[e].id = i)
           /\ \A m \in late' : ~(m.at \in {"checked", "looked"} /\ m.q.id = i)
  <1>1. Alone(run', call', late', i, InService)
    BY Unharmed
  <1>2. {"checked", "looked", "renamed"} \subseteq InService
    BY DEF InService
  <1>3. CASE \E f \in Runs : call[f].at = "renamed" /\ run[f].id = i
    <2>1. PICK f \in Runs : call[f].at = "renamed" /\ run[f].id = i
      BY <1>3
    <2>2. f \in OfRuns(run', call', i, InService)
      BY <2>1, <1>2 DEF OfRuns
    <2> QED BY <1>1, <1>2, <2>1, <2>2 DEF Alone, OfRuns, OfLate
  <1>4. CASE \E k \in late : k.at = "renamed" /\ k.q.id = i
    <2>1. PICK k \in late : k.at = "renamed" /\ k.q.id = i
      BY <1>4
    <2>2. k \in OfLate(late', i, InService)
      BY <2>1, <1>2 DEF OfLate
    <2> QED BY <1>1, <1>2, <2>1, <2>2 DEF Alone, OfRuns, OfLate
  <1> QED BY <1>3, <1>4, Unharmed

\* A step of the service on a request that is awaited, other than a create.
LEMMA ServeWhole ==
    ASSUME Shape, Shape', Whole, Note, NEW e \in Runs, Serve(e), run[e].phase # "creating"
    PROVE  Whole'
  <1>1. PICK q : q = Request(e)
    OBVIOUS
  <1>2. PICK at : at = call[e].at
    OBVIOUS
  <1>3. PICK now : now = Served(q, at).now
    OBVIOUS
  <1>4. PICK r \in RunRec : r = run[e]
    BY DEF Shape, EngineShape
  <1>5. /\ EngineShape /\ Awaits(run[e], call[e]) /\ Claims
    BY DEF Shape, Waits, Whole
  <1>6. /\ q.id = r.id /\ q.offset = r.offset /\ q.len = ChunkLen(r)
        /\ r.offset \in Nat /\ ChunkLen(r) \in Int
        /\ r.phase = "creating" <=> q.op = "create"
        /\ r.phase = "putting" <=> q.op = "put"
        /\ r.phase = "completing" <=> q.op = "complete"
        /\ r.phase = "putting" => q.offset + q.len <= Size
    BY <1>1, <1>4, <1>5, RequestOf
  <1>7. /\ Fits(q, at) /\ q.op \in {"put", "complete", "status"} /\ q.id \in Ids
        /\ q.op = "put" => q.offset \in Nat /\ q.len \in Nat
        /\ r.phase \in Requesting
    <2>1. /\ Fits(q, at) /\ q.op \in {"create", "put", "complete", "status"}
          /\ q.op # "create" => q.id \in Ids
          /\ q.op = "put" => q.offset \in Nat /\ q.len \in Nat
          /\ r.phase \in Requesting
      BY <1>1, <1>2, <1>4, <1>5, ServableEngine
    <2> QED BY <2>1, <1>4, <1>6
  <1>8. PICK i \in Ids : i = q.id
    BY <1>7
  <1>9. /\ disk' = Served(q, at).disk /\ minted' = Served(q, at).minted
        /\ call' = [call EXCEPT ![e] = now]
        /\ UNCHANGED <<run, cell, given, sent, late>>
    BY <1>1, <1>2, <1>3 DEF Serve, client
  <1>10. /\ call'[e] = now /\ \A f \in Runs : f # e => call'[f] = call[f]
    BY <1>9 DEF Shape, CallShape
  <1>11. /\ minted' = minted /\ \A j \in Ids : j # i => disk'[j] = disk[j]
    BY <1>7, <1>8, <1>9, ServedElsewhere
  <1>12. run[e].id = i /\ i # 0 /\ Claim(e) = i /\ i <= minted
    <2>1. i # 0 /\ run[e].id = i /\ i \in Nat /\ minted \in Nat
      BY <1>4, <1>6, <1>8, UploadAssumption DEF Ids, Shape, ServiceShape
    <2> QED BY <2>1, <1>5, ClaimIsId
  <1>13. \A f \in Runs : Claim(f) = i => f = e
    BY <1>12, <1>5 DEF Claims
  <1>14. \A f \in Runs : run[f].id = i => f = e
    BY <1>5, <1>12, <1>13, ClaimIsId
  <1>15. ASSUME i \notin harmed'
         PROVE  /\ Ages(i)
                /\ Staged(i) /\ Moved(i)' => q.op = "complete"
                /\ now.at \in InService => Request1(q, now.at)'
                /\ Engine(e)'
                /\ \A k \in late : k.q.id = i => disk'[i] = disk[i] \/ k.at \notin InService
    <2>1. /\ i \notin harmed /\ Alone(run, call, late, i, InService) /\ Stage(i)
      BY <1>12, <1>15, Unharmed
    <2>2. at \in Places /\ Request1(q, at)
      <3>1. at \in Places
        BY <1>7 DEF Fits
      <3> QED BY <3>1, <2>1, <1>1, <1>2, <1>12 DEF Whole, Requests
    <2>3. ASSUME at = "sent", now.at \in InService, Moved(i) PROVE FALSE
      <3>1. \A f \in Runs : call[f].at = "renamed" => run'[f] = run[f] /\ call'[f] = call[f]
        BY <1>2, <1>9, <1>10, <2>3
      <3>2. \A f \in Runs : call[f].at # "renamed" => ~(call'[f].at \in InService /\ run'[f].id = i)
        BY <3>1, <2>3, <1>9, <1>15, NotMoved
      <3> QED BY <3>2, <2>3, <1>2, <1>9, <1>10, <1>12
    <2>4. /\ Ages(i) /\ (at = "sent" \/ q.op = "status" => disk' = disk)
          /\ Staged(i) /\ Moved(i)' => q.op = "complete"
          /\ now.at \in InService => Request1(q, now.at)'
          /\ q.op = "put" /\ now.at = "answered" /\ now.reply = "ok" /\ Staged(i)
               => q.offset + q.len <= Len(disk'[i].part)
          /\ q.op = "complete" /\ now.at = "answered" => now.reply = "ok" /\ Final(i)'
          /\ q.op = "status" /\ Staged(i)
               => now.at = "answered" /\ now.reply = "ok" /\ now.value = Len(disk[i].part)
          /\ /\ q.op = "put" /\ Staged(i) /\ now.at = "answered"
             /\ q.offset <= Len(disk[i].part) /\ q.offset + q.len <= Size
             => now.reply \in {"ok", "mismatch"}
      BY <2>1, <2>2, <2>3, <1>3, <1>7, <1>8, <1>9, ServedFiles
    <2>5. ASSUME NEW k \in late, k.q.id = i PROVE disk'[i] = disk[i] \/ k.at \notin InService
      <3>1. CASE at = "sent"
        BY <3>1, <2>4
      <3>2. CASE at # "sent"
        <4>1. call[e].at \in InService
          BY <3>2, <2>2, <1>2 DEF Places
        <4>2. e \in OfRuns(run, call, i, InService)
          BY <4>1, <1>12 DEF OfRuns
        <4> QED BY <4>2, <2>1, <2>5 DEF Alone, OfLate
      <3> QED BY <3>1, <3>2
    <2>6. Engine(e)
      BY <2>1, <1>12 DEF Whole, Engines
    <2>7. /\ Sending(r) => Staged(i) /\ r.offset <= Len(disk[i].part)
          /\ Finishing(r) /\ Staged(i) => Len(disk[i].part) = Size
      BY <2>6, <1>4, <1>12 DEF Engine
    <2>8. /\ Staged(i)' => /\ Staged(i) /\ Len(disk[i].part) <= Len(disk'[i].part)
                           /\ Len(disk[i].part) = Size => Len(disk'[i].part) = Size
          /\ Staged(i) => \/ Staged(i)' /\ Len(disk[i].part) <= Len(disk'[i].part)
                          \/ Moved(i)' /\ Len(disk[i].part) = Size
      BY <2>4, AgesKeep
    <2>9. Len(disk[i].part) \in Nat /\ Len(disk'[i].part) \in Nat
      BY DEF Shape, ServiceShape, FilesRec
    <2>10. Sending(r) <=> r.phase \in {"putting", "resyncing", "recovering"}
      BY <1>7 DEF Sending, Requesting
    <2>11. Finishing(r) <=> r.phase = "completing"
      BY <1>7 DEF Finishing, Requesting
    <2>12. Sending(r) => Staged(i)' /\ r.offset <= Len(disk'[i].part)
      <3>1. Sending(r) => q.op # "complete"
        BY <2>10, <1>6
      <3> QED BY <3>1, <2>4, <2>7, <2>8, <2>9, <1>6
    <2>13. Finishing(r) /\ Staged(i)' => Len(disk'[i].part) = Size
      BY <2>7, <2>8
    <2>14. r.phase = "putting" /\ now.at = "answered" =>
             /\ now.reply \in {"ok", "mismatch", "broken"}
             /\ now.reply = "ok" => r.offset + ChunkLen(r) <= Len(disk'[i].part)
      BY <2>4, <2>7, <2>10, <1>6
    <2>15. r.phase \in {"resyncing", "recovering"} /\ now.at = "answered" =>
             now.reply \in {"ok", "broken"} /\ (now.reply = "ok" => now.value <= Len(disk'[i].part))
      <3>1. r.phase \in {"resyncing", "recovering"} => q.op = "status"
        BY <1>6, <1>7
      <3>2. r.phase \in {"resyncing", "recovering"} =>
              now.reply = "ok" /\ now.value = Len(disk'[i].part)
        BY <3>1, <2>4, <2>7, <2>10
      <3> QED BY <3>2, <2>9
    <2>16. r.phase = "completing" /\ now.at = "answered" =>
             now.reply \in {"ok", "broken"} /\ (now.reply = "ok" => Final(i)')
      BY <2>4, <1>6
    <2>17. i = run'[e].id /\ r = run'[e] /\ now = call'[e]
      BY <1>4, <1>9, <1>10, <1>12
    <2>18. Engine(e)'
      BY <2>12, <2>13, <2>14, <2>15, <2>16, <2>17 DEF Engine, Awaiting
    <2> QED BY <2>4, <2>5, <2>18
  <1>16. EngineRequest(e)'
    <2> SUFFICES ASSUME call'[e].at \in Places, i \notin harmed'
                 PROVE  Request1(Request(e), call[e].at)'
      BY <1>9, <1>12 DEF EngineRequest
    <2>1. now.at \in InService
      <3>1. now.at \in {"answered"} \cup InService
        BY <1>3, <1>7, ServedShape DEF Shape
      <3> QED BY <3>1, <1>10 DEF Places, InService
    <2>2. PICK was : was = now.at
      OBVIOUS
    <2>3. Request1(q, was)'
      BY <2>1, <2>2, <1>15
    <2>4. q = Request(e)' /\ was = call'[e].at
      BY <1>1, <1>9, <1>10, <2>2 DEF Request, ChunkLen
    <2> QED BY <2>3, <2>4 DEF Request1
  <1>17. i \notin harmed' /\ Staged(i) /\ Moved(i)' =>
           \A f \in Runs : Claim(f) = i => Finishing(run[f]) \/ run[f].phase = "ended"
    BY <1>4, <1>6, <1>13, <1>15 DEF Finishing
  <1>18. ASSUME NEW f \in Runs
         PROVE  \/ /\ call'[f] = call[f]
                   /\ run[f].id = i /\ i \notin harmed' =>
                        disk'[i] = disk[i] \/ call[f].at \notin InService
                \/ /\ run[f].phase # "creating" /\ run[f].id = i
                   /\ EngineRequest(f)' /\ (i \notin harmed' => Engine(f)')
    <2>1. CASE f = e
      BY <2>1, <1>12, <1>15, <1>16
    <2>2. CASE f # e
      BY <2>2, <1>10, <1>14
    <2> QED BY <2>1, <2>2
  <1>19. ASSUME NEW k \in late'
         PROVE  /\ k \in late
                /\ k.q.id = i /\ i \notin harmed' => disk'[i] = disk[i] \/ k.at \notin InService
    BY <1>9, <1>15, <1>19
  <1>20. i \in harmed' \/ Ages(i)
    BY <1>15
  <1> QED BY <1>9, <1>11, <1>17, <1>18, <1>19, <1>20, ServedWhole

\* A step of the service on a request nobody awaits, other than a create.
LEMMA ServeLateWhole ==
    ASSUME Shape, Shape', Whole, Note, NEW l \in late, ServeLate(l), l.q.op # "create"
    PROVE  Whole'
  <1>1. PICK q : q = l.q
    OBVIOUS
  <1>2. PICK at : at = l.at
    OBVIOUS
  <1>3. PICK now : now = Served(q, at).now
    OBVIOUS
  <1>4. PICK m : m = [l EXCEPT !.at = now.at]
    OBVIOUS
  <1>5. Claims
    BY DEF Whole
  <1>6. /\ Fits(q, at) /\ q.op \in {"put", "complete", "status"} /\ q.id \in Ids /\ l \in LateRec
        /\ q.op = "put" => q.offset \in Nat /\ q.len \in Nat
    BY <1>1, <1>2, <1>5, ServableLate
  <1>7. PICK i \in Ids : i = q.id
    BY <1>6
  <1>8. m.q = q /\ m.at = now.at /\ m.n = l.n
    BY <1>1, <1>4, <1>6 DEF LateRec
  <1>9. /\ disk' = Served(q, at).disk /\ minted' = Served(q, at).minted
        /\ late' = (late \ {l}) \cup (IF now.at = "answered" THEN {} ELSE {m})
        /\ UNCHANGED <<run, cell, given, sent, call>>
    BY <1>1, <1>2, <1>3, <1>4 DEF ServeLate, client
  <1>10. /\ minted' = minted /\ (\A j \in Ids : j # i => disk'[j] = disk[j])
         /\ at = "sent" => now.at \in {"answered", "checked", "looked"}
         /\ now.at \in {"answered"} \cup InService
    <2>1. now.at \in {"answered"} \cup InService
      BY <1>3, <1>6, ServedShape DEF Shape
    <2> QED BY <2>1, <1>3, <1>6, <1>7, <1>9, ServedElsewhere
  <1>11. PICK w \in Runs : w = l.n[1]
    BY <1>6 DEF LateRec
  <1>12. /\ run[w].id = i /\ i # 0
         /\ q.op = "complete" => Finishing(run[w]) \/ run[w].phase = "ended"
    BY <1>1, <1>5, <1>7, <1>11 DEF Claims
  <1>13. Claim(w) = i /\ i <= minted
    <2>1. i \in Nat /\ minted \in Nat
      BY UploadAssumption DEF Ids, Shape, ServiceShape
    <2> QED BY <2>1, <1>5, <1>12, ClaimIsId
  <1>14. \A f \in Runs : Claim(f) = i => f = w
    BY <1>5, <1>12, <1>13 DEF Claims
  <1>15. ASSUME i \notin harmed'
         PROVE  /\ Ages(i)
                /\ Staged(i) /\ Moved(i)' => q.op = "complete"
                /\ now.at \in InService => Request1(q, now.at)'
                /\ \A f \in Runs : run[f].id = i => disk'[i] = disk[i] \/ call[f].at \notin InService
                /\ \A k \in late : k # l /\ k.q.id = i => disk'[i] = disk[i] \/ k.at \notin InService
    <2>1. /\ i \notin harmed /\ Alone(run, call, late, i, InService) /\ Stage(i)
      BY <1>13, <1>15, Unharmed
    <2>2. at \in Places /\ Request1(q, at)
      <3>1. at \in Places
        BY <1>6 DEF Fits
      <3> QED BY <3>1, <2>1, <1>1, <1>2, <1>7 DEF Whole, Requests
    <2>3. ASSUME at = "sent", now.at \in InService, Moved(i) PROVE FALSE
      <3>1. now.at \in {"checked", "looked"}
        BY <2>3, <1>10 DEF InService
      <3>2. m \in late'
        BY <3>1, <1>9
      <3>3. \A k \in late : k.at = "renamed" => k \in late'
        BY <1>2, <1>9, <2>3
      <3>4. \A k \in late' : ~(k.at \in {"checked", "looked"} /\ k.q.id = i)
        BY <3>3, <2>3, <1>9, <1>15, NotMoved
      <3> QED BY <3>1, <3>2, <3>4, <1>7, <1>8
    <2>4. /\ Ages(i) /\ (at = "sent" \/ q.op = "status" => disk' = disk)
          /\ Staged(i) /\ Moved(i)' => q.op = "complete"
          /\ now.at \in InService => Request1(q, now.at)'
      BY <2>1, <2>2, <2>3, <1>3, <1>6, <1>7, <1>9, ServedFiles
    <2>5. CASE at = "sent"
      BY <2>4, <2>5
    <2>6. CASE at # "sent"
      <3>1. l \in OfLate(late, i, InService)
        BY <2>2, <2>6, <1>1, <1>2, <1>7 DEF Places, OfLate
      <3> QED BY <3>1, <2>1, <2>4 DEF Alone, OfLate, OfRuns
    <2> QED BY <2>5, <2>6
  <1>16. ASSUME now.at # "answered" PROVE LateRequest(m)'
    <2>1. now.at \in InService
      BY <1>10, <1>16
    <2>2. PICK was : was = now.at
      OBVIOUS
    <2>3. i \notin harmed' => Request1(q, was)'
      BY <2>1, <2>2, <1>15
    <2> QED BY <2>2, <2>3, <1>7, <1>8 DEF LateRequest
  <1>17. i \notin harmed' /\ Staged(i) /\ Moved(i)' =>
           \A f \in Runs : Claim(f) = i => Finishing(run[f]) \/ run[f].phase = "ended"
    BY <1>12, <1>14, <1>15
  <1>18. ASSUME NEW f \in Runs
         PROVE  /\ call'[f] = call[f]
                /\ run[f].id = i /\ i \notin harmed' => disk'[i] = disk[i] \/ call[f].at \notin InService
    BY <1>9, <1>15
  <1>19. ASSUME NEW k \in late'
         PROVE  \/ /\ k \in late
                   /\ k.q.id = i /\ i \notin harmed' => disk'[i] = disk[i] \/ k.at \notin InService
                \/ LateRequest(k)' /\ \E x \in late : k.q = x.q /\ k.n = x.n
    <2>1. CASE k \in late /\ k # l
      BY <2>1, <1>15
    <2>2. CASE k = m /\ now.at # "answered"
      BY <2>2, <1>1, <1>8, <1>16
    <2> QED BY <2>1, <2>2, <1>9
  <1>20. i \in harmed' \/ Ages(i)
    BY <1>15
  <1> QED BY <1>9, <1>10, <1>17, <1>18, <1>19, <1>20, ServedWhole

----------------------------------------------------------------------------
(* The uploads are whole: the other steps.                                  *)

\* An id somebody holds was minted.
LEMMA HeldIsMinted ==
    ASSUME Shape, Claims
    PROVE  /\ 1..minted \subseteq Ids
           /\ \A f \in Runs : run[f].id \in Ids => run[f].id \in 1..minted /\ run[f].phase # "creating"
           /\ \A k \in late : k.q.id \in Ids => k.q.id \in 1..minted
           /\ \A f \in Runs : Awaiting(f, "creating") /\ call[f].reply = "ok" => call[f].value \in 1..minted
  <1>1. minted \in 0..MaxSessions /\ late \in SUBSET LateRec
    BY DEF Shape, ServiceShape, CallShape
  <1>2. 1..minted \subseteq Ids /\ \A j \in Ids : j # 0
    BY <1>1, UploadAssumption DEF Ids
  <1>3. \A f \in Runs : run[f].id \in Ids => run[f].id \in 1..minted /\ run[f].phase # "creating"
    <2> SUFFICES ASSUME NEW f \in Runs, run[f].id \in Ids
                 PROVE  run[f].id \in 1..minted /\ run[f].phase # "creating"
      OBVIOUS
    <2>1. run[f].id # 0 /\ run[f].id \in 0..minted /\ run[f].phase # "creating"
      BY <1>2, ClaimIsId
    <2> QED BY <2>1, <1>1
  <1>4. \A k \in late : k.q.id \in Ids => k.q.id \in 1..minted
    <2> SUFFICES ASSUME NEW k \in late, k.q.id \in Ids PROVE k.q.id \in 1..minted
      OBVIOUS
    <2>1. k.q.id # 0
      BY <1>2
    <2>2. k.q.id = run[k.n[1]].id /\ k.n[1] \in Runs
      BY <2>1, <1>1 DEF Claims, LateRec
    <2> QED BY <2>2, <1>3
  <1>5. ASSUME NEW f \in Runs, Awaiting(f, "creating"), call[f].reply = "ok"
        PROVE  call[f].value \in 1..minted
    <2>1. Claim(f) = call[f].value /\ Claim(f) \in 0..minted /\ call[f].value # 0
      BY <1>5 DEF Claims, Claim
    <2> QED BY <2>1, <1>1
  <1> QED BY <1>2, <1>3, <1>4, <1>5

\* Files that stay as they were keep their stage.
LEMMA SameFiles ==
    ASSUME NEW j, disk'[j] = disk[j]
    PROVE  /\ Staged(j)' <=> Staged(j)
           /\ Moved(j)' <=> Moved(j)
           /\ Final(j)' <=> Final(j)
           /\ Ages(j)
  BY DEF Staged, Moved, Final, Ages

\* A step that leaves the files of minted ids alone, or harms them: what is
\* left to show is what it does to the engines and requests it touches.
LEMMA StillWhole ==
    ASSUME Shape, Shape', Whole, Note, Claims', minted <= minted',
           \A j \in 1..minted : j \in harmed' \/ disk'[j] = disk[j],
           \A j \in 1..minted' : j \in 1..minted \/ Staged(j)',
           \A f \in Runs : \/ run'[f] = run[f] /\ call'[f] = call[f]
                           \/ /\ EngineRequest(f)'
                              /\ run'[f].id \in Ids \ harmed' => Engine(f)'
                              /\ /\ Awaiting(f, "creating")' /\ call'[f].reply = "ok"
                                 /\ call'[f].value \notin harmed'
                                 => Staged(call[f].value)'
                              /\ run'[f].outcome = "failed" => run'[f].id \in harmed',
           \A k \in late' : k \in late \/ LateRequest(k)',
           \A d \in Drafts : cell'[d] = "uploaded" =>
             \/ cell[d] = "uploaded" /\ given'[d] = given[d]
             \/ given'[d] \in 1..minted /\ (given'[d] \in harmed \/ Final(given'[d])),
           \A i \in sent' : i \in sent \/ \E d \in Drafts : cell[d] = "uploaded" /\ i = given[d]
    PROVE  Whole'
  <1>1. /\ harmed' \in SUBSET Ids /\ harmed \subseteq harmed' /\ Noticed'
    BY Noted
  <1>2. /\ 1..minted \subseteq Ids
        /\ \A f \in Runs : run[f].id \in Ids => run[f].id \in 1..minted
        /\ \A k \in late : k.q.id \in Ids => k.q.id \in 1..minted
        /\ \A f \in Runs : Awaiting(f, "creating") /\ call[f].reply = "ok" => call[f].value \in 1..minted
    BY HeldIsMinted DEF Whole
  <1>3. minted \in Nat /\ minted' \in Nat /\ 1..minted \subseteq 1..minted'
    BY UploadAssumption DEF Shape, ServiceShape
  <1>4. Stages'
    <2>1. ASSUME NEW j \in 1..minted' PROVE j \in harmed' \/ Stage(j)'
      BY <1>1, SameFiles DEF Whole, Stages, Stage
    <2> QED BY <2>1 DEF Stages, Stage
  <1>5. ASSUME NEW f \in Runs PROVE EngineRequest(f)'
    <2>1. CASE run'[f] = run[f] /\ call'[f] = call[f]
      <3> SUFFICES ASSUME call[f].at \in Places, run[f].id \in Ids \ harmed'
                   PROVE  Request1(Request(f), call[f].at)'
        BY <2>1 DEF EngineRequest
      <3>1. PICK q : q = Request(f)
        OBVIOUS
      <3>2. PICK at : at = call[f].at
        OBVIOUS
      <3>3. Request1(q, at)
        BY <3>1, <3>2, <1>1 DEF Whole, Requests
      <3>4. q.id = run[f].id
        BY <3>1 DEF Request
      <3>5. disk'[q.id] = disk[q.id] /\ q.id \in Ids
        BY <3>4, <1>2
      <3>6. Request1(q, at)'
        BY <3>3, <3>5, SameFiles, UntouchedRequest
      <3>7. q = Request(f)' /\ at = call'[f].at
        BY <3>1, <3>2, <2>1 DEF Request, ChunkLen
      <3> QED BY <3>6, <3>7 DEF Request1
    <2> QED BY <2>1
  <1>6. ASSUME NEW k \in late' PROVE LateRequest(k)'
    <2>1. CASE k \in late
      <3> SUFFICES ASSUME k.q.id \in Ids \ harmed' PROVE Request1(k.q, k.at)'
        BY DEF LateRequest
      <3>1. Request1(k.q, k.at)
        BY <2>1, <1>1 DEF Whole, Requests
      <3>2. disk'[k.q.id] = disk[k.q.id]
        BY <2>1, <1>2
      <3> QED BY <3>1, <3>2, SameFiles, UntouchedRequest
    <2> QED BY <2>1
  <1>7. Requests'
    BY <1>5, <1>6 DEF Requests, EngineRequest, LateRequest
  <1>8. ASSUME NEW f \in Runs, run'[f].id \in Ids \ harmed' PROVE Engine(f)'
    <2>1. CASE run'[f] = run[f] /\ call'[f] = call[f]
      <3>1. PICK i \in Ids : i = run[f].id
        BY <1>8, <2>1
      <3>2. Engine(f) /\ disk'[i] = disk[i]
        BY <1>1, <1>2, <1>8, <2>1, <3>1 DEF Whole, Engines
      <3>3. Ages(i) /\ ~(Staged(i) /\ Moved(i)')
        BY <3>2, SameFiles, StagesApart
      <3> QED BY <2>1, <3>1, <3>2, <3>3, UntouchedEngine
    <2> QED BY <2>1, <1>8
  <1>9. Engines'
    BY <1>8 DEF Engines
  <1>10. Opening'
    <2> SUFFICES ASSUME NEW f \in Runs, Awaiting(f, "creating")', call'[f].reply = "ok",
                        call'[f].value \notin harmed'
                 PROVE  Staged(call[f].value)'
      BY DEF Opening
    <2>1. CASE run'[f] = run[f] /\ call'[f] = call[f]
      <3>1. PICK j : j = call[f].value
        OBVIOUS
      <3>2. Awaiting(f, "creating") /\ call[f].reply = "ok" /\ j \notin harmed
        BY <2>1, <3>1, <1>1 DEF Awaiting
      <3>3. Staged(j) /\ disk'[j] = disk[j]
        BY <2>1, <3>1, <3>2, <1>2 DEF Whole, Opening
      <3>4. Staged(j)' /\ j = call'[f].value
        BY <2>1, <3>1, <3>3, SameFiles
      <3> QED BY <3>4 DEF Staged
    <2> QED BY <2>1
  <1>11. ASSUME NEW j \in 1..minted, j \in harmed \/ Final(j)
         PROVE  j \in 1..minted' /\ (j \in harmed' \/ Final(j)')
    BY <1>1, <1>3, <1>11, SameFiles
  <1>12. Offered'
    <2>1. ASSUME NEW d \in Drafts, cell'[d] = "uploaded"
          PROVE  given'[d] \in 1..minted' /\ (given'[d] \in harmed' \/ Final(given[d])')
      <3>1. PICK j : j = given'[d]
        OBVIOUS
      <3>2. j \in 1..minted /\ (j \in harmed \/ Final(j))
        BY <2>1, <3>1 DEF Whole, Offered
      <3>3. j \in 1..minted' /\ (j \in harmed' \/ Final(j)')
        BY <3>2, <1>11
      <3> QED BY <3>1, <3>3 DEF Final
    <2>2. ASSUME NEW j \in sent'
          PROVE  j \in 1..minted' /\ (j \in harmed' \/ Final(j)')
      <3>1. j \in 1..minted /\ (j \in harmed \/ Final(j))
        BY <2>2 DEF Whole, Offered
      <3> QED BY <3>1, <1>11
    <2> QED BY <2>1, <2>2 DEF Offered
  <1>13. Failures'
    BY <1>1 DEF Failures, Whole
  <1> QED BY <1>1, <1>4, <1>7, <1>9, <1>10, <1>12, <1>13 DEF Whole

\* The service opens a session: a fresh id, whose files are staged and empty.
LEMMA CreateWhole ==
    ASSUME Shape, Shape', Whole, Note, UNCHANGED <<run, cell, given, sent>>,
           minted < MaxSessions, minted' = minted + 1, late' \subseteq late,
           disk' = [disk EXCEPT ![minted + 1] = [NoFiles EXCEPT !.session = TRUE]],
           \A f \in Runs : call'[f] # call[f] =>
             run[f].phase = "creating" /\ call'[f] = Reply("ok", minted + 1),
           \A f, g \in Runs : call'[f] # call[f] /\ call'[g] # call[g] => f = g
    PROVE  Whole'
  <1>1. PICK n : n = minted + 1
    OBVIOUS
  <1>2. /\ minted \in 0..MaxSessions /\ disk \in [Ids -> FilesRec] /\ Claims /\ n \in Ids
        /\ n \in Nat /\ n # 0 /\ n \notin 0..minted /\ n \notin 1..minted
        /\ 0..minted \subseteq 0..minted' /\ n \in 0..minted' /\ minted <= minted'
        /\ \A j \in 1..minted' : j \in 1..minted \/ j = n
    BY <1>1, UploadAssumption DEF Shape, ServiceShape, Whole, Ids
  <1>3. /\ 1..minted \subseteq Ids
        /\ \A f \in Runs : run[f].id \in Ids => run[f].id \in 1..minted /\ run[f].phase # "creating"
    BY <1>2, HeldIsMinted
  <1>4. \A j \in 1..minted : disk'[j] = disk[j]
    BY <1>1, <1>2, <1>3
  <1>5. Staged(n)'
    <2>1. disk'[n] = [NoFiles EXCEPT !.session = TRUE]
      BY <1>1, <1>2
    <2>2. /\ disk'[n].session = TRUE /\ disk'[n].meta = FALSE /\ disk'[n].blob = <<>>
          /\ disk'[n].part = <<>>
      BY <2>1 DEF NoFiles
    <2>3. Len(disk'[n].part) = 0 /\ 0 <= Size
      BY <2>2, UploadAssumption
    <2> QED BY <2>2, <2>3 DEF Staged
  <1>6. Reply("ok", n).at = "answered" /\ Reply("ok", n).reply = "ok" /\ Reply("ok", n).value = n
    BY DEF Reply
  <1>7. ASSUME NEW f \in Runs
        PROVE  \/ call'[f] = call[f] /\ Claim(f)' = Claim(f) /\ Claim(f) \in 0..minted
               \/ /\ call'[f] # call[f] /\ Claim(f)' = n /\ run[f].phase = "creating"
                  /\ call'[f].at = "answered" /\ call'[f].reply = "ok" /\ call'[f].value = n
    <2>1. CASE call'[f] = call[f]
      BY <2>1, <1>2 DEF Claim, Awaiting, Claims
    <2>2. CASE call'[f] # call[f]
      <3>1. run[f].phase = "creating" /\ call'[f] = Reply("ok", n)
        BY <2>2, <1>1
      <3> QED BY <2>2, <3>1, <1>6 DEF Claim, Awaiting
    <2> QED BY <2>1, <2>2
  <1>8. Claims'
    <2>1. ASSUME NEW f \in Runs
          PROVE  /\ Claim(f)' \in 0..minted'
                 /\ Before(run[f]) => run[f].id = 0
                 /\ Sending(run[f]) \/ Finishing(run[f]) => run[f].id # 0
                 /\ Awaiting(f, "creating")' => call'[f].reply \in {"ok", "broken"}
                 /\ Awaiting(f, "creating")' /\ call'[f].reply = "ok" => call'[f].value # 0
      BY <1>2, <1>7 DEF Claims, Awaiting
    <2>2. ASSUME NEW f \in Runs, NEW g \in Runs, Claim(f)' = Claim(g)', Claim(f)' # 0
          PROVE  f = g
      BY <1>2, <1>7, <2>2 DEF Claims
    <2>3. ASSUME NEW k \in late'
          PROVE  IF k.q.op = "create" THEN k.q.id = 0
                 ELSE /\ k.q.id # 0 /\ k.q.id = run[k.n[1]].id
                      /\ k.q.op = "complete" => Finishing(run[k.n[1]]) \/ run[k.n[1]].phase = "ended"
      BY <1>2, <2>3 DEF Claims
    <2> QED BY <2>1, <2>2, <2>3 DEF Claims, Before, Sending, Finishing
  <1>9. ASSUME NEW f \in Runs
        PROVE  \/ run'[f] = run[f] /\ call'[f] = call[f]
               \/ /\ EngineRequest(f)'
                  /\ run'[f].id \in Ids \ harmed' => Engine(f)'
                  /\ /\ Awaiting(f, "creating")' /\ call'[f].reply = "ok"
                     /\ call'[f].value \notin harmed'
                     => Staged(call[f].value)'
                  /\ run'[f].outcome = "failed" => run'[f].id \in harmed'
    <2> SUFFICES ASSUME call'[f] # call[f]
                 PROVE  /\ EngineRequest(f)' /\ run[f].id \notin Ids
                        /\ Staged(call[f].value)' /\ run[f].outcome # "failed"
      OBVIOUS
    <2>1. run[f].phase = "creating" /\ call'[f].at = "answered" /\ call'[f].value = n
      BY <1>7
    <2>2. EngineRequest(f)'
      BY <2>1 DEF EngineRequest, Places, InService
    <2>3. Staged(call[f].value)'
      BY <2>1, <1>5 DEF Staged
    <2>4. run[f].outcome # "failed"
      <3>1. Awaits(run[f], call[f])
        BY DEF Shape, Waits
      <3> QED BY <2>1, <3>1 DEF Awaits
    <2> QED BY <2>1, <2>2, <2>3, <2>4, <1>3
  <1>10. \A j \in 1..minted' : j \in 1..minted \/ Staged(j)'
    BY <1>2, <1>5
  <1> QED BY <1>2, <1>4, <1>8, <1>9, <1>10, StillWhole

\* A create that is awaited.
LEMMA ServeCreateWhole ==
    ASSUME Shape, Shape', Whole, Note, NEW e \in Runs, Serve(e), run[e].phase = "creating"
    PROVE  Whole'
  <1>1. Claims /\ EngineShape /\ Awaits(run[e], call[e]) /\ call \in [Runs -> CallRec]
    BY DEF Whole, Shape, Waits, CallShape
  <1>2. Request(e).op = "create" /\ minted < MaxSessions
    BY <1>1, RequestOf, ServableEngine
  <1>a. Fits(Request(e), call[e].at)
    BY <1>1, ServableEngine
  <1>3. /\ Served(Request(e), call[e].at).disk = [disk EXCEPT ![minted + 1] = [NoFiles EXCEPT !.session = TRUE]]
        /\ Served(Request(e), call[e].at).minted = minted + 1
        /\ Served(Request(e), call[e].at).now = Reply("ok", minted + 1)
    BY <1>2, <1>a, ServedCreate
  <1>4. /\ disk' = [disk EXCEPT ![minted + 1] = [NoFiles EXCEPT !.session = TRUE]]
        /\ minted' = minted + 1 /\ call' = [call EXCEPT ![e] = Reply("ok", minted + 1)]
        /\ UNCHANGED <<run, cell, given, sent, late>>
    BY <1>3 DEF Serve, client
  <1>5. /\ call'[e] = Reply("ok", minted + 1)
        /\ \A f \in Runs : f # e => call'[f] = call[f]
    BY <1>1, <1>4
  <1> QED BY <1>2, <1>4, <1>5, CreateWhole

\* A create nobody awaits opens a session nobody holds.
LEMMA LateCreateWhole ==
    ASSUME Shape, Shape', Whole, Note, NEW l \in late, ServeLate(l), l.q.op = "create"
    PROVE  Whole'
  <1>1. minted < MaxSessions /\ Fits(l.q, l.at)
    BY ServableLate DEF Whole
  <1>2. /\ Served(l.q, l.at).disk = [disk EXCEPT ![minted + 1] = [NoFiles EXCEPT !.session = TRUE]]
        /\ Served(l.q, l.at).minted = minted + 1
        /\ Served(l.q, l.at).now = Reply("ok", minted + 1)
    BY <1>1, ServedCreate
  <1>3. Reply("ok", minted + 1).at = "answered"
    BY DEF Reply
  <1>4. /\ disk' = [disk EXCEPT ![minted + 1] = [NoFiles EXCEPT !.session = TRUE]]
        /\ minted' = minted + 1 /\ late' \subseteq late
        /\ UNCHANGED <<run, cell, given, sent, call>>
    BY <1>2, <1>3 DEF ServeLate, client
  <1> QED BY <1>1, <1>4, CreateWhole

\* Where the parts of an upload are apart.
LEMMA PartsApart ==
    ASSUME NEW r
    PROVE  /\ Before(r) => ~Sending(r) /\ ~Finishing(r)
           /\ Sending(r) => ~Finishing(r)
           /\ r.phase = "ended" => ~Before(r) /\ ~Sending(r) /\ ~Finishing(r)
           /\ r.phase = "creating" => Before(r)
           /\ r.phase \in {"putting", "resyncing", "recovering"} => Sending(r)
           /\ r.phase = "completing" => Finishing(r)
  BY DEF Before, Sending, Finishing

\* An engine that moves keeps the session it has, or takes the one it was told.
LEMMA MovesClaims ==
    ASSUME Shape, Claims, NEW e \in Runs, NEW r \in RunRec, Moves(e, r),
           late' = late \/ late' = late \cup Abandoned({e}), minted' = minted
    PROVE  Claims'
  <1>1. EngineShape /\ CallShape /\ Goes(e, r) /\ Awaits(run[e], call[e])
    BY DEF Shape, Moves, Waits
  <1>2. /\ run'[e] = r /\ call'[e] = Ready(r.phase)
        /\ \A f \in Runs : f # e => run'[f] = run[f] /\ call'[f] = call[f]
    BY <1>1, GoesTo
  <1>3. call'[e].at # "answered"
    BY <1>2, ReadyCall DEF RunRec
  <1>4. \A f \in Runs : f # e => Claim(f)' = Claim(f)
    BY <1>2 DEF Claim, Awaiting
  <1>5. Claim(e)' = r.id
    BY <1>2, <1>3 DEF Claim, Awaiting
  <1>6. /\ Before(run[e]) => run[e].id = 0
        /\ Sending(run[e]) \/ Finishing(run[e]) => run[e].id # 0
        /\ Awaiting(e, "creating") /\ call[e].reply = "ok" => call[e].value # 0
        /\ Claim(e) \in 0..minted
    BY DEF Claims
  <1>7. /\ Claim(e) = run[e].id \/ (Before(run[e]) /\ Claim(e) = call[e].value)
        /\ Awaiting(e, "creating") /\ call[e].reply = "ok" => Claim(e) = call[e].value
    BY PartsApart DEF Claim, Awaiting
  <1>8. \/ r.phase = "ended" /\ r.id = run[e].id
        \/ /\ r.id = run[e].id
           /\ \/ Before(run[e]) /\ Before(r)
              \/ Sending(run[e]) /\ Sending(r)
              \/ Finishing(run[e]) /\ Finishing(r)
        \/ /\ Awaiting(e, "creating") /\ call[e].reply = "ok" /\ r.id = call[e].value
           /\ Sending(r)
        \/ /\ r.id = run[e].id /\ Sending(run[e]) /\ (Sending(r) \/ Finishing(r)) /\ call[e].at = "answered"
    BY PartsApart DEF Moves, Awaiting
  <1>9. r.id = Claim(e) \/ r.id = 0
    BY <1>6, <1>7, <1>8
  <1>10. /\ Before(r) => r.id = 0
         /\ Sending(r) \/ Finishing(r) => r.id # 0
    BY <1>6, <1>8, PartsApart
  <1>11. 0 \in 0..minted
    BY UploadAssumption DEF Shape, ServiceShape
  <1>12. ASSUME NEW f \in Runs
         PROVE  /\ Claim(f)' \in 0..minted'
                /\ Before(run'[f]) => run'[f].id = 0
                /\ Sending(run'[f]) \/ Finishing(run'[f]) => run'[f].id # 0
                /\ Awaiting(f, "creating")' => call'[f].reply \in {"ok", "broken"}
                /\ Awaiting(f, "creating")' /\ call'[f].reply = "ok" => call'[f].value # 0
    <2>1. CASE f = e
      BY <2>1, <1>2, <1>3, <1>5, <1>6, <1>9, <1>10, <1>11 DEF Awaiting
    <2>2. CASE f # e
      BY <2>2, <1>2, <1>4 DEF Claims, Awaiting
    <2> QED BY <2>1, <2>2
  <1>13. ASSUME NEW f \in Runs, NEW g \in Runs, Claim(f)' = Claim(g)', Claim(f)' # 0
         PROVE  f = g
    <2>1. Claim(f) = Claim(f)' /\ Claim(g) = Claim(g)'
      BY <1>4, <1>5, <1>9, <1>13
    <2> QED BY <2>1, <1>13 DEF Claims
  <1>14. ASSUME NEW k \in late'
         PROVE  IF k.q.op = "create" THEN k.q.id = 0
                ELSE /\ k.q.id # 0 /\ k.q.id = run'[k.n[1]].id
                     /\ k.q.op = "complete" => Finishing(run'[k.n[1]]) \/ run'[k.n[1]].phase = "ended"
    <2>1. CASE k \in late
      <3>1. k.n[1] \in Runs
        BY <2>1, <1>1 DEF CallShape, LateRec
      <3>2. IF k.q.op = "create" THEN k.q.id = 0
            ELSE /\ k.q.id # 0 /\ k.q.id = run[k.n[1]].id
                 /\ k.q.op = "complete" => Finishing(run[k.n[1]]) \/ run[k.n[1]].phase = "ended"
        BY <2>1 DEF Claims
      <3>3. CASE k.n[1] # e
        BY <3>1, <3>2, <3>3, <1>2
      <3>4. CASE k.n[1] = e
        <4>1. run[e].phase # "ended"
          BY DEF Moves, Live
        <4>2. k.q.op # "create" => r.id = run[e].id
          BY <3>2, <3>4, <1>6, <1>8, PartsApart DEF Awaiting
        <4>3. k.q.op = "complete" => Finishing(r) \/ r.phase = "ended"
          BY <3>2, <3>4, <4>1, <1>8, PartsApart DEF Awaiting
        <4> QED BY <3>2, <3>4, <4>2, <4>3, <1>2
      <3> QED BY <3>3, <3>4
    <2>2. CASE k \in Abandoned({e})
      <3>1. /\ k.q = Request(e) /\ k.at = call[e].at /\ k.n[1] = e
            /\ call[e].at \in Places /\ run[e].phase \notin {"resyncing", "recovering"}
        BY <2>2, AbandonedOf
      <3>2. call[e].at # "answered" /\ call[e].at # "none"
        BY <3>1 DEF Places, InService
      <3>3. run[e].phase \in {"creating", "putting", "completing"}
        BY <3>1, <3>2, <1>1 DEF Awaits, Requesting
      <3>4. /\ k.q.id = run[e].id
            /\ run[e].phase = "creating" <=> k.q.op = "create"
            /\ run[e].phase = "completing" <=> k.q.op = "complete"
        BY <3>1, <1>1, RequestOf
      <3>5. r.id = run[e].id
        BY <3>2, <1>8 DEF Awaiting
      <3>6. k.q.op = "complete" => Finishing(r) \/ r.phase = "ended"
        BY <3>2, <3>4, <1>8, PartsApart DEF Awaiting
      <3> QED BY <3>1, <3>3, <3>4, <3>5, <3>6, <1>2, <1>6, PartsApart
    <2> QED BY <2>1, <2>2
  <1> QED BY <1>12, <1>13, <1>14 DEF Claims, Before, Sending, Finishing

\* A request left behind is as right as it was when it was awaited.
LEMMA AbandonedRequest ==
    ASSUME Shape, Whole, Note, NEW E \in SUBSET Runs, disk' = disk
    PROVE  \A k \in Abandoned(E) : LateRequest(k)'
  <1> SUFFICES ASSUME NEW k \in Abandoned(E), k.q.id \in Ids \ harmed' PROVE Request1(k.q, k.at)'
    BY DEF LateRequest
  <1>1. PICK e \in E : k.q = Request(e) /\ k.at = call[e].at /\ call[e].at \in Places
    BY AbandonedOf
  <1>2. k.q.id = run[e].id /\ harmed \subseteq harmed'
    BY <1>1, Noted DEF Request
  <1>3. Request1(k.q, k.at)
    BY <1>1, <1>2 DEF Whole, Requests
  <1>4. disk'[k.q.id] = disk[k.q.id]
    OBVIOUS
  <1> QED BY <1>3, <1>4, SameFiles, UntouchedRequest

\* The step of an engine.
LEMMA MovesWhole ==
    ASSUME Shape, Shape', Whole, Note, NEW e \in Runs, NEW r \in RunRec, Moves(e, r), Effects(e, r),
           late' = late \/ late' = late \cup Abandoned({e}),
           disk' = disk, minted' = minted, sent' = sent
    PROVE  Whole'
  <1>1. EngineShape /\ CallShape /\ Goes(e, r) /\ Awaits(run[e], call[e]) /\ Claims /\ Live(e)
    BY DEF Shape, Moves, Waits, Whole
  <1>2. /\ run'[e] = r /\ call'[e] = Ready(r.phase)
        /\ \A f \in Runs : f # e => run'[f] = run[f] /\ call'[f] = call[f]
    BY <1>1, GoesTo
  <1>3. /\ call'[e].at \in {"sent", "none"}
    BY <1>2, ReadyCall DEF RunRec
  <1>4. Claims'
    BY <1>1, MovesClaims
  <1>5. harmed \subseteq harmed' /\ harmed' \in SUBSET Ids
    BY Noted
  <1>6. /\ \A f \in Runs : run[f].id \in Ids => run[f].id \in 1..minted
        /\ \A f \in Runs : Awaiting(f, "creating") /\ call[f].reply = "ok" => call[f].value \in 1..minted
    BY <1>1, HeldIsMinted
  <1>7. run[e].id \in Ids \/ run[e].id = 0
    <2>1. run[e].id \in 0..MaxSessions
      BY <1>1 DEF EngineShape, RunRec
    <2> QED BY <2>1, UploadAssumption DEF Ids
  <1>8. ASSUME r.id \in Ids \ harmed'
        PROVE  /\ Sending(r) => Staged(r.id) /\ r.offset <= Len(disk[r.id].part)
               /\ Finishing(r) /\ Staged(r.id) => Len(disk[r.id].part) = Size
    <2>1. PICK i \in Ids : i = r.id
      BY <1>8
    <2>2. Len(disk[i].part) \in Nat /\ r.offset \in Nat
      <3>1. disk[i].part \in Seq(Nat)
        BY DEF Shape, ServiceShape, FilesRec
      <3>2. r.offset \in Nat
        BY DEF RunRec
      <3> QED BY <3>1, <3>2
    <2>3. i \notin harmed
      BY <2>1, <1>5, <1>8
    <2>4. CASE r.phase = "ended"
      BY <2>4, PartsApart
    <2>5. CASE /\ r.id = run[e].id /\ r.offset = run[e].offset
               /\ \/ Before(run[e]) /\ Before(r)
                  \/ Sending(run[e]) /\ Sending(r)
                  \/ Finishing(run[e]) /\ Finishing(r)
      <3>1. Engine(e)
        BY <2>1, <2>3, <2>5 DEF Whole, Engines
      <3> QED BY <3>1, <2>5, PartsApart DEF Engine
    <2>6. CASE /\ Awaiting(e, "creating") /\ call[e].reply = "ok"
               /\ r.id = call[e].value /\ r.offset = 0 /\ r.phase = "putting"
      <3>1. Staged(i)
        BY <2>1, <2>3, <2>6 DEF Whole, Opening
      <3> QED BY <3>1, <2>1, <2>2, <2>6, PartsApart
    <2>7. CASE /\ r.id = run[e].id /\ call[e].reply = "ok"
               /\ \/ Awaiting(e, "putting") /\ r.offset = run[e].offset + ChunkLen(run[e])
                  \/ /\ Awaiting(e, "resyncing") \/ Awaiting(e, "recovering")
                     /\ r.offset = call[e].value
               /\ r.phase = IF r.offset < Size THEN "putting" ELSE "completing"
      <3>1. Engine(e) /\ Sending(run[e])
        BY <2>1, <2>3, <2>7, PartsApart DEF Whole, Engines, Awaiting
      <3>2. Staged(i) /\ r.offset <= Len(disk[i].part)
        BY <3>1, <2>1, <2>7 DEF Engine
      <3>3. Len(disk[i].part) <= Size
        BY <3>2 DEF Staged
      <3>4. CASE r.offset < Size
        BY <3>2, <3>4, <2>1, <2>7, PartsApart
      <3>5. CASE ~(r.offset < Size)
        <4>1. Len(disk[i].part) = Size
          BY <3>2, <3>3, <3>5, <2>2, UploadAssumption
        <4> QED BY <4>1, <3>5, <2>1, <2>7, PartsApart
      <3> QED BY <3>4, <3>5
    <2> QED BY <2>4, <2>5, <2>6, <2>7 DEF Moves
  <1>9. r.id \in Ids \ harmed' => Engine(e)'
    <2> SUFFICES ASSUME r.id \in Ids \ harmed' PROVE Engine(e)'
      OBVIOUS
    <2>1. PICK i \in Ids : i = r.id
      OBVIOUS
    <2>2. /\ Staged(i)' <=> Staged(i)
      BY SameFiles
    <2>3. /\ Sending(r) => Staged(i)' /\ r.offset <= Len(disk'[i].part)
          /\ Finishing(r) /\ Staged(i)' => Len(disk'[i].part) = Size
      BY <2>1, <2>2, <1>8
    <2>4. i = run'[e].id /\ r = run'[e]
      BY <2>1, <1>2
    <2> QED BY <2>3, <2>4, <1>3 DEF Engine, Awaiting
  <1>10. EngineRequest(e)'
    <2> SUFFICES ASSUME call'[e].at \in Places, r.id \in Ids \ harmed'
                 PROVE  Request1(Request(e), call[e].at)'
      BY <1>2 DEF EngineRequest
    <2>1. call'[e].at = "sent"
      BY <1>3 DEF Places, InService
    <2>2. PICK q : q = Request(e)'
      OBVIOUS
    <2>3. /\ q.id = r.id
          /\ q.op = "complete" => r.phase = "completing"
      BY <2>2, <1>2 DEF Request
    <2>4. q.op = "complete" /\ Staged(q.id) => Len(disk[q.id].part) = Size
      BY <2>3, <1>8, PartsApart
    <2>5. disk'[q.id] = disk[q.id]
      OBVIOUS
    <2>6. q.op = "complete" /\ Staged(q.id)' => Len(disk'[q.id].part) = Size
      BY <2>4, <2>5, SameFiles
    <2>7. Request1(q, "sent")'
      BY <2>6 DEF Request1
    <2> QED BY <2>1, <2>2, <2>7 DEF Request1
  <1>11. r.outcome = "failed" => r.id \in harmed'
    <2> SUFFICES ASSUME r.outcome = "failed", r.id \notin harmed' PROVE FALSE
      OBVIOUS
    <2>1. run[e].outcome # "failed"
      BY <1>1 DEF Awaits, Live
    <2>2. /\ r.id = run[e].id /\ call[e].at = "answered"
          /\ \/ call[e].reply = "mismatch" /\ run[e].phase = "completing"
             \/ call[e].reply = "unknown" /\ run[e].phase # "recovering"
      BY <2>1 DEF Moves
    <2>3. run[e].phase \in Requesting
      BY <2>2, <1>1 DEF Awaits
    <2>4. CASE run[e].phase = "creating"
      BY <2>2, <2>4, <1>1 DEF Claims, Awaiting
    <2>5. CASE run[e].phase # "creating"
      <3>1. Sending(run[e]) \/ Finishing(run[e])
        BY <2>3, <2>5, PartsApart DEF Requesting
      <3>2. run[e].id \in Ids \ harmed
        BY <3>1, <2>2, <1>1, <1>5, <1>7 DEF Claims
      <3>3. Engine(e)
        BY <3>2 DEF Whole, Engines
      <3>4. run[e].phase \in {"putting", "resyncing", "recovering", "completing"}
        BY <2>3, <2>5 DEF Requesting
      <3> QED BY <3>3, <3>4, <2>2 DEF Engine, Awaiting
    <2> QED BY <2>4, <2>5
  <1>12. ASSUME NEW f \in Runs
         PROVE  \/ run'[f] = run[f] /\ call'[f] = call[f]
                \/ /\ EngineRequest(f)'
                   /\ run'[f].id \in Ids \ harmed' => Engine(f)'
                   /\ /\ Awaiting(f, "creating")' /\ call'[f].reply = "ok"
                      /\ call'[f].value \notin harmed'
                      => Staged(call[f].value)'
                   /\ run'[f].outcome = "failed" => run'[f].id \in harmed'
    <2>1. ~Awaiting(e, "creating")'
      BY <1>3 DEF Awaiting
    <2>2. CASE f = e
      BY <2>1, <2>2, <1>2, <1>9, <1>10, <1>11
    <2>3. CASE f # e
      BY <2>3, <1>2
    <2> QED BY <2>2, <2>3
  <1>13. \A k \in late' : k \in late \/ LateRequest(k)'
    <2>1. {e} \in SUBSET Runs
      OBVIOUS
    <2>2. \A k \in Abandoned({e}) : LateRequest(k)'
      BY <2>1, AbandonedRequest
    <2> QED BY <2>2
  <1>14. ASSUME NEW x \in Drafts, cell'[x] = "uploaded"
         PROVE  \/ cell[x] = "uploaded" /\ given'[x] = given[x]
                \/ given'[x] \in 1..minted /\ (given'[x] \in harmed \/ Final(given'[x]))
    <2>1. CASE x # run[e].draft
      BY <2>1, <1>14 DEF Effects
    <2>2. CASE x = run[e].draft
      <3>1. \/ cell[x] = "uploaded" /\ given'[x] = given[x]
            \/ Awaiting(e, "completing") /\ call[e].reply = "ok" /\ given'[x] = run[e].id
        BY <2>2, <1>14 DEF Effects
      <3>2. CASE Awaiting(e, "completing") /\ call[e].reply = "ok" /\ given'[x] = run[e].id
        <4>1. Finishing(run[e])
          BY <3>2, PartsApart DEF Awaiting
        <4>2. run[e].id \in Ids
          BY <4>1, <1>1, <1>7 DEF Claims
        <4>3. run[e].id \in harmed \/ Engine(e)
          BY <4>2 DEF Whole, Engines
        <4>4. run[e].id \in harmed \/ Final(run[e].id)
          BY <4>3, <3>2 DEF Engine
        <4> QED BY <4>2, <4>4, <3>2, <1>6
      <3> QED BY <3>1, <3>2
    <2> QED BY <2>1, <2>2
  <1>15. minted <= minted' /\ \A j \in 1..minted' : j \in 1..minted
    BY UploadAssumption DEF Shape, ServiceShape
  <1> QED BY <1>4, <1>12, <1>13, <1>14, <1>15, StillWhole

\* abort() of some drafts' engines.
LEMMA DropWhole ==
    ASSUME Shape, Shape', Whole, Note, NEW D \in SUBSET Drafts, Abort(D),
           disk' = disk, minted' = minted,
           \A x \in Drafts : cell'[x] = "uploaded" => cell[x] = "uploaded" /\ given'[x] = given[x],
           \A i \in sent' : i \in sent \/ \E d \in Drafts : cell[d] = "uploaded" /\ i = given[d]
    PROVE  Whole'
  <1>1. Claims /\ late \in SUBSET LateRec /\ run \in [Runs -> RunRec]
    BY DEF Whole, Shape, CallShape, EngineShape
  <1>2. PICK H \in SUBSET Runs : H = Handled(D)
    BY AbortShape
  <1>3. /\ \A f \in Runs : f \notin H => run'[f] = run[f] /\ call'[f] = call[f]
        /\ \A f \in H : run'[f] = [run[f] EXCEPT !.phase = "ended", !.outcome = "aborted"] /\ call'[f] = NoCall
        /\ \A k \in late' : k \in late \/ k \in Abandoned(H)
    BY <1>2, AbortShape
  <1>4. ASSUME NEW f \in H
        PROVE  /\ run'[f].phase = "ended" /\ run'[f].outcome = "aborted" /\ run'[f].id = run[f].id
               /\ call'[f].at = "none"
    <2>1. PICK x \in RunRec : x = run[f]
      BY <1>1
    <2>2. run'[f] = [x EXCEPT !.phase = "ended", !.outcome = "aborted"] /\ call'[f] = NoCall
      BY <2>1, <1>3
    <2>3. /\ run'[f].phase = "ended" /\ run'[f].outcome = "aborted" /\ run'[f].id = x.id
      BY <2>2 DEF RunRec
    <2>4. NoCall \in CallRec /\ NoCall.at = "none"
      BY DEF NoCall, CallRec
    <2> QED BY <2>1, <2>2, <2>3, <2>4
  <1>5. ASSUME NEW f \in Runs
        PROVE  /\ run'[f].id = run[f].id
               /\ run'[f] = run[f] \/ run'[f].phase = "ended"
    BY <1>3, <1>4
  <1>6. ASSUME NEW f \in Runs PROVE Claim(f)' = Claim(f) \/ Claim(f)' = 0
    <2>1. CASE f \notin H
      BY <2>1, <1>3 DEF Claim, Awaiting
    <2>2. CASE f \in H
      <3>1. Claim(f)' = run[f].id
        BY <2>2, <1>4 DEF Claim, Awaiting
      <3>2. Claim(f) = run[f].id \/ Before(run[f])
        BY PartsApart DEF Claim, Awaiting
      <3> QED BY <3>1, <3>2, <1>1 DEF Claims
    <2> QED BY <2>1, <2>2
  <1>7. 0 \in 0..minted
    BY UploadAssumption DEF Shape, ServiceShape
  <1>8. Claims'
    <2>1. ASSUME NEW f \in Runs
          PROVE  /\ Claim(f)' \in 0..minted'
                 /\ Before(run'[f]) => run'[f].id = 0
                 /\ Sending(run'[f]) \/ Finishing(run'[f]) => run'[f].id # 0
                 /\ Awaiting(f, "creating")' => call'[f].reply \in {"ok", "broken"}
                 /\ Awaiting(f, "creating")' /\ call'[f].reply = "ok" => call'[f].value # 0
      <3>1. Claim(f)' \in 0..minted'
        BY <1>1, <1>6, <1>7 DEF Claims
      <3>2. CASE f \notin H
        <4>1. run'[f] = run[f] /\ call'[f] = call[f]
          BY <3>2, <1>3
        <4>2. /\ Before(run[f]) => run[f].id = 0
              /\ Sending(run[f]) \/ Finishing(run[f]) => run[f].id # 0
              /\ Awaiting(f, "creating") => call[f].reply \in {"ok", "broken"}
              /\ Awaiting(f, "creating") /\ call[f].reply = "ok" => call[f].value # 0
          BY <1>1 DEF Claims
        <4> QED BY <3>1, <4>1, <4>2 DEF Awaiting
      <3>3. CASE f \in H
        <4>1. run'[f].phase = "ended"
          BY <3>3, <1>4
        <4>2. ~Before(run'[f]) /\ ~Sending(run'[f]) /\ ~Finishing(run'[f])
          BY <4>1 DEF Before, Sending, Finishing
        <4> QED BY <3>1, <4>1, <4>2 DEF Awaiting
      <3> QED BY <3>2, <3>3
    <2>2. ASSUME NEW f \in Runs, NEW g \in Runs, Claim(f)' = Claim(g)', Claim(f)' # 0 PROVE f = g
      <3>1. Claim(f) = Claim(f)' /\ Claim(g) = Claim(g)'
        BY <2>2, <1>6
      <3> QED BY <3>1, <2>2, <1>1 DEF Claims
    <2>3. ASSUME NEW k \in late'
          PROVE  IF k.q.op = "create" THEN k.q.id = 0
                 ELSE /\ k.q.id # 0 /\ k.q.id = run'[k.n[1]].id
                      /\ k.q.op = "complete" => Finishing(run'[k.n[1]]) \/ run'[k.n[1]].phase = "ended"
      <3>1. CASE k \in late
        <4>1. k.n[1] \in Runs
          BY <3>1, <1>1 DEF LateRec
        <4>2. IF k.q.op = "create" THEN k.q.id = 0
              ELSE /\ k.q.id # 0 /\ k.q.id = run[k.n[1]].id
                   /\ k.q.op = "complete" => Finishing(run[k.n[1]]) \/ run[k.n[1]].phase = "ended"
          BY <3>1, <1>1 DEF Claims
        <4> QED BY <4>1, <4>2, <1>5
      <3>2. CASE k \in Abandoned(H)
        <4>1. PICK f \in H : /\ k.q = Request(f) /\ k.n[1] = f /\ call[f].at \in Places
                             /\ run[f].phase \notin {"resyncing", "recovering"}
          BY <3>2, AbandonedOf
        <4>2. f \in Runs /\ Awaits(run[f], call[f]) /\ EngineShape
          BY DEF Shape, Waits
        <4>3. run[f].phase \in {"creating", "putting", "completing"}
          BY <4>1, <4>2 DEF Awaits, Requesting, Places, InService
        <4>4. /\ k.q.id = run[f].id
              /\ run[f].phase = "creating" <=> k.q.op = "create"
          BY <4>1, <4>2, RequestOf
        <4>5. /\ Before(run[f]) => run[f].id = 0
              /\ Sending(run[f]) \/ Finishing(run[f]) => run[f].id # 0
          BY <4>2, <1>1 DEF Claims
        <4> QED BY <4>1, <4>3, <4>4, <4>5, <1>4, PartsApart
      <3> QED BY <3>1, <3>2, <1>3
    <2> QED BY <2>1, <2>2, <2>3 DEF Claims, Before, Sending, Finishing
  <1>9. ASSUME NEW f \in Runs
        PROVE  \/ run'[f] = run[f] /\ call'[f] = call[f]
               \/ /\ EngineRequest(f)'
                  /\ run'[f].id \in Ids \ harmed' => Engine(f)'
                  /\ /\ Awaiting(f, "creating")' /\ call'[f].reply = "ok"
                     /\ call'[f].value \notin harmed'
                     => Staged(call[f].value)'
                  /\ run'[f].outcome = "failed" => run'[f].id \in harmed'
    <2>1. CASE f \notin H
      BY <2>1, <1>3
    <2>2. CASE f \in H
      <3>1. /\ run'[f].phase = "ended" /\ run'[f].outcome = "aborted" /\ call'[f].at = "none"
        BY <2>2, <1>4
      <3>2. EngineRequest(f)'
        BY <3>1 DEF EngineRequest, Places, InService
      <3>3. Engine(f)'
        BY <3>1 DEF Engine, Awaiting, Sending, Finishing
      <3> QED BY <3>1, <3>2, <3>3 DEF Awaiting
    <2> QED BY <2>1, <2>2
  <1>10. \A k \in late' : k \in late \/ LateRequest(k)'
    BY <1>3, AbandonedRequest
  <1>11. minted <= minted' /\ \A j \in 1..minted' : j \in 1..minted
    BY UploadAssumption DEF Shape, ServiceShape
  <1> QED BY <1>8, <1>9, <1>10, <1>11, StillWhole

\* The start of an upload.
LEMMA StartWhole ==
    ASSUME Shape, Shape', Whole, Note, NEW d \in Drafts, Add(d) \/ Retry(d),
           run[started + 1].phase = "none"
    PROVE  Whole'
  <1>1. PICK n : n = started + 1
    OBVIOUS
  <1>2. /\ n \in Runs /\ (\A f \in Runs : f # n => run'[f] = run[f])
        /\ run'[n] = [NoRun EXCEPT !.draft = d, !.owner = store.number, !.phase = "opening"]
    BY <1>1, StartShape DEF Add, Retry
  <1>3. run'[n].phase = "opening" /\ run'[n].id = 0 /\ run'[n].outcome = ""
    BY <1>2 DEF NoRun
  <1>4. /\ UNCHANGED <<given, call, late, disk, minted, sent>>
        /\ cell' = [cell EXCEPT ![d] = "uploading"]
    BY DEF Add, Retry, service
  <1>5. \A x \in Drafts : cell'[x] = "uploaded" => cell[x] = "uploaded"
    BY <1>4 DEF Shape, DraftShape
  <1>6. call[n].at = "none" /\ run[n].id = 0 /\ Claims
    <2>1. Awaits(run[n], call[n])
      BY <1>2 DEF Shape, Waits
    <2> QED BY <2>1, <1>1, <1>2 DEF Awaits, Requesting, Whole, Claims, Before
  <1>7. \A f \in Runs : Claim(f)' = Claim(f) /\ run'[f].id = run[f].id
    BY <1>2, <1>3, <1>4, <1>6 DEF Claim, Awaiting
  <1>8. Claims'
    <2>1. ASSUME NEW f \in Runs
          PROVE  /\ Claim(f)' \in 0..minted'
                 /\ Before(run'[f]) => run'[f].id = 0
                 /\ Sending(run'[f]) \/ Finishing(run'[f]) => run'[f].id # 0
                 /\ Awaiting(f, "creating")' => call'[f].reply \in {"ok", "broken"}
                 /\ Awaiting(f, "creating")' /\ call'[f].reply = "ok" => call'[f].value # 0
      <3>1. CASE f = n
        <4>1. ~Sending(run'[f]) /\ ~Finishing(run'[f]) /\ ~Awaiting(f, "creating")'
          BY <3>1, <1>3 DEF Sending, Finishing, Awaiting
        <4> QED BY <3>1, <4>1, <1>3, <1>4, <1>6, <1>7 DEF Claims
      <3>2. CASE f # n
        BY <3>2, <1>2, <1>4, <1>6, <1>7 DEF Claims, Awaiting
      <3> QED BY <3>1, <3>2
    <2>2. \A f, g \in Runs : Claim(f)' = Claim(g)' /\ Claim(f)' # 0 => f = g
      BY <1>6, <1>7 DEF Claims
    <2>3. ASSUME NEW k \in late'
          PROVE  IF k.q.op = "create" THEN k.q.id = 0
                 ELSE /\ k.q.id # 0 /\ k.q.id = run'[k.n[1]].id
                      /\ k.q.op = "complete" => Finishing(run'[k.n[1]]) \/ run'[k.n[1]].phase = "ended"
      <3>1. k \in late /\ k.n[1] \in Runs
        BY <2>3, <1>4 DEF Shape, CallShape, LateRec
      <3>2. IF k.q.op = "create" THEN k.q.id = 0
            ELSE /\ k.q.id # 0 /\ k.q.id = run[k.n[1]].id
                 /\ k.q.op = "complete" => Finishing(run[k.n[1]]) \/ run[k.n[1]].phase = "ended"
        BY <3>1, <1>6 DEF Claims
      <3> QED BY <3>1, <3>2, <1>2, <1>6
    <2> QED BY <2>1, <2>2, <2>3 DEF Claims, Before, Sending, Finishing
  <1>9. ASSUME NEW f \in Runs
        PROVE  \/ run'[f] = run[f] /\ call'[f] = call[f]
               \/ /\ EngineRequest(f)'
                  /\ run'[f].id \in Ids \ harmed' => Engine(f)'
                  /\ /\ Awaiting(f, "creating")' /\ call'[f].reply = "ok"
                     /\ call'[f].value \notin harmed'
                     => Staged(call[f].value)'
                  /\ run'[f].outcome = "failed" => run'[f].id \in harmed'
    <2>1. CASE f # n
      BY <2>1, <1>2, <1>4
    <2>2. CASE f = n
      <3>1. run'[f].phase = "opening" /\ run'[f].outcome = "" /\ call'[f].at = "none"
        BY <2>2, <1>3, <1>4, <1>6
      <3>2. EngineRequest(f)'
        BY <3>1 DEF EngineRequest, Places, InService
      <3>3. Engine(f)'
        BY <3>1 DEF Engine, Awaiting, Sending, Finishing
      <3> QED BY <3>1, <3>2, <3>3 DEF Awaiting
    <2> QED BY <2>1, <2>2
  <1>10. minted <= minted' /\ \A j \in 1..minted' : j \in 1..minted
    BY <1>4, UploadAssumption DEF Shape, ServiceShape
  <1> QED BY <1>4, <1>5, <1>8, <1>9, <1>10, StillWhole

\* Faults, and what ends them: answers break, files are swept, a cell is lost.
LEMMA BrokenWhole ==
    ASSUME Shape, Shape', Whole, Note, UNCHANGED <<run, minted, sent>>, late' \subseteq late,
           \A j \in Ids : j \in harmed' \/ disk'[j] = disk[j],
           \A f \in Runs : \/ call'[f] = call[f]
                           \/ call[f].at \in Places /\ call'[f] = Reply("broken", 0),
           \A x \in Drafts : cell'[x] = "uploaded" => cell[x] = "uploaded" /\ given'[x] = given[x]
    PROVE  Whole'
  <1>1. Claims /\ 1..minted \subseteq Ids
    BY HeldIsMinted DEF Whole
  <1>2. Reply("broken", 0).at = "answered" /\ Reply("broken", 0).reply = "broken"
    BY DEF Reply
  <1>3. ASSUME NEW f \in Runs
        PROVE  \/ call'[f] = call[f]
               \/ /\ call[f].at \in Places /\ call[f].at # "answered"
                  /\ call'[f].at = "answered" /\ call'[f].reply = "broken"
    BY <1>2 DEF Places, InService
  <1>4. \A f \in Runs : Claim(f)' = Claim(f)
    BY <1>3 DEF Claim, Awaiting
  <1>5. Claims'
    <2>1. ASSUME NEW f \in Runs
          PROVE  /\ Claim(f)' \in 0..minted
                 /\ Before(run[f]) => run[f].id = 0
                 /\ Sending(run[f]) \/ Finishing(run[f]) => run[f].id # 0
                 /\ Awaiting(f, "creating")' => call'[f].reply \in {"ok", "broken"}
                 /\ Awaiting(f, "creating")' /\ call'[f].reply = "ok" => call'[f].value # 0
      <3>1. CASE call'[f] = call[f]
        BY <3>1, <1>1, <1>4 DEF Claims, Awaiting
      <3>2. CASE call'[f].reply = "broken"
        BY <3>2, <1>1, <1>4 DEF Claims
      <3> QED BY <3>1, <3>2, <1>3
    <2>2. \A f, g \in Runs : Claim(f)' = Claim(g)' /\ Claim(f)' # 0 => f = g
      BY <1>1, <1>4 DEF Claims
    <2>3. ASSUME NEW k \in late'
          PROVE  IF k.q.op = "create" THEN k.q.id = 0
                 ELSE /\ k.q.id # 0 /\ k.q.id = run[k.n[1]].id
                      /\ k.q.op = "complete" => Finishing(run[k.n[1]]) \/ run[k.n[1]].phase = "ended"
      BY <1>1, <2>3 DEF Claims
    <2> QED BY <2>1, <2>2, <2>3 DEF Claims, Before, Sending, Finishing
  <1>6. ASSUME NEW f \in Runs, call'[f].at = "answered", call'[f].reply = "broken",
               run[f].id \in Ids \ harmed'
        PROVE  Engine(f)'
    <2>1. PICK i \in Ids : i = run[f].id
      BY <1>6
    <2>2. disk'[i] = disk[i] /\ i \notin harmed
      BY <2>1, <1>6, Noted
    <2>3. /\ Sending(run[f]) => Staged(i) /\ run[f].offset <= Len(disk[i].part)
          /\ Finishing(run[f]) /\ Staged(i) => Len(disk[i].part) = Size
      <3>1. Engine(f)
        BY <2>1, <2>2 DEF Whole, Engines
      <3> QED BY <3>1, <2>1 DEF Engine
    <2>4. Staged(i)' <=> Staged(i)
      BY <2>2, SameFiles
    <2>5. /\ Sending(run'[f]) => Staged(i)' /\ run'[f].offset <= Len(disk'[i].part)
          /\ Finishing(run'[f]) /\ Staged(i)' => Len(disk'[i].part) = Size
      BY <2>2, <2>3, <2>4
    <2> QED BY <2>1, <2>5, <1>6 DEF Engine, Awaiting
  <1>7. ASSUME NEW f \in Runs
        PROVE  \/ run'[f] = run[f] /\ call'[f] = call[f]
               \/ /\ EngineRequest(f)'
                  /\ run'[f].id \in Ids \ harmed' => Engine(f)'
                  /\ /\ Awaiting(f, "creating")' /\ call'[f].reply = "ok"
                     /\ call'[f].value \notin harmed'
                     => Staged(call[f].value)'
                  /\ run'[f].outcome = "failed" => run'[f].id \in harmed'
    <2> SUFFICES ASSUME call'[f].at = "answered", call'[f].reply = "broken"
                 PROVE  /\ EngineRequest(f)'
                        /\ run'[f].outcome = "failed" => run'[f].id \in harmed'
      BY <1>3, <1>6
    <2>1. EngineRequest(f)'
      BY DEF EngineRequest, Places, InService
    <2>2. run'[f].outcome = "failed" => run'[f].id \in harmed'
      BY Noted DEF Whole, Failures
    <2> QED BY <2>1, <2>2
  <1>8. minted <= minted' /\ \A j \in 1..minted' : j \in 1..minted
    BY UploadAssumption DEF Shape, ServiceShape
  <1> QED BY <1>1, <1>5, <1>7, <1>8, StillWhole

\* Each of the faults, and of the recoveries.
LEMMA FaultWhole ==
    ASSUME Shape, Shape', Whole, Note,
           \/ Evict \/ Rebuild \/ GoOffline \/ GoOnline \/ Crash \/ Restart
           \/ (\E e \in Runs : Refuse(e)) \/ (\E i \in Ids : Sweep(i))
    PROVE  Whole'
  <1>1. CASE Evict
    <2>1. UNCHANGED <<run, minted, sent, late, disk, call>> /\ cell' = [d \in Drafts |-> "absent"]
      BY <1>1 DEF Evict, service
    <2>2. \A x \in Drafts : cell'[x] # "uploaded"
      BY <2>1
    <2> QED BY <2>1, <2>2, BrokenWhole
  <1>2. CASE Rebuild \/ GoOffline \/ GoOnline \/ Restart
    <2>1. UNCHANGED <<run, minted, sent, late, disk, call, cell, given>>
      BY <1>2 DEF Rebuild, GoOffline, GoOnline, Restart, service, client
    <2> QED BY <2>1, BrokenWhole
  <1>3. CASE Crash
    <2>1. /\ UNCHANGED <<run, minted, sent, disk, cell, given>> /\ late' \subseteq late
          /\ call' = [e \in Runs |-> IF call[e].at \in InService THEN Reply("broken", 0) ELSE call[e]]
      BY <1>3 DEF Crash, service, client
    <2>2. \A f \in Runs : \/ call'[f] = call[f]
                          \/ call[f].at \in Places /\ call'[f] = Reply("broken", 0)
      BY <2>1 DEF Places
    <2> QED BY <2>1, <2>2, BrokenWhole
  <1>4. ASSUME NEW e \in Runs, Refuse(e) PROVE Whole'
    <2>1. /\ UNCHANGED <<run, minted, sent, disk, cell, given, late>>
          /\ call[e].at = "sent" /\ call' = [call EXCEPT ![e] = Reply("broken", 0)]
      BY <1>4 DEF Refuse, service, client
    <2>2. \A f \in Runs : \/ call'[f] = call[f]
                          \/ call[f].at \in Places /\ call'[f] = Reply("broken", 0)
      BY <2>1 DEF Places, Shape, CallShape
    <2> QED BY <2>1, <2>2, BrokenWhole
  <1>5. ASSUME NEW i \in Ids, Sweep(i) PROVE Whole'
    <2>1. /\ UNCHANGED <<run, minted, sent, cell, given, late, call>>
          /\ disk[i].session \/ disk[i].meta
          /\ disk' = [disk EXCEPT ![i] = NoFiles]
      BY <1>5 DEF Sweep, client
    <2>2. disk'[i] = NoFiles /\ \A j \in Ids : j # i => disk'[j] = disk[j]
      BY <2>1 DEF Shape, ServiceShape
    <2>3. disk[i] # NoFiles
      <3>1. NoFiles.session = FALSE /\ NoFiles.meta = FALSE
        BY DEF NoFiles
      <3> QED BY <3>1, <2>1
    <2>4. \A j \in Ids : j \in harmed' \/ disk'[j] = disk[j]
      BY <2>2, <2>3, Noted
    <2> QED BY <2>1, <2>4, BrokenWhole
  <1> QED BY <1>1, <1>2, <1>3, <1>4, <1>5

----------------------------------------------------------------------------
(* The theorems.                                                            *)

UploadInv == Shape /\ Owned /\ Whole

\* Nothing has happened yet.
LEMMA InitShape ==
    ASSUME Init
    PROVE  /\ Shape
           /\ \A e \in Runs : /\ run[e].phase = "none" /\ run[e].id = 0 /\ run[e].aborted = FALSE
                              /\ run[e].outcome # "failed" /\ call[e].at = "none"
  <1>1. /\ NoRun \in RunRec /\ NoRun.phase = "none" /\ NoRun.id = 0 /\ NoRun.aborted = FALSE
        /\ NoRun.outcome = ""
    <2>1. (CHOOSE x \in Drafts : TRUE) \in Drafts
      BY UploadAssumption
    <2>2. "none" \in Phases /\ "" \in Outcomes
      BY DEF Phases, Outcomes
    <2>3. NoRun \in RunRec
      BY <2>1, <2>2, Zeros, UploadAssumption DEF NoRun, RunRec
    <2> QED BY <2>3 DEF NoRun
  <1>2. NoCall \in CallRec /\ NoCall.at = "none"
    <2>1. NoCall \in CallRec
      BY DEF NoCall, CallRec
    <2> QED BY <2>1 DEF NoCall
  <1>3. run = [e \in Runs |-> NoRun] /\ call = [e \in Runs |-> NoCall]
    BY DEF Init
  <1>4. \A e \in Runs : run[e] = NoRun /\ call[e] = NoCall
    BY <1>3
  <1>5. EngineShape
    BY <1>1, <1>3, Zeros DEF Init, EngineShape
  <1>6. CallShape
    <2>1. late = {} /\ IsFiniteSet(late)
      BY FS_EmptySet DEF Init
    <2> QED BY <2>1, <1>2, <1>3 DEF CallShape
  <1>7. DraftShape
    <2>1. "absent" \in Statuses
      BY DEF Statuses
    <2>2. cell = [d \in Drafts |-> "absent"] /\ given = [d \in Drafts |-> 0] /\ used = {}
      BY DEF Init
    <2>3. cell \in [Drafts -> Statuses] /\ given \in [Drafts -> 0..MaxSessions]
      BY <2>1, <2>2, Zeros
    <2>4. [d \in Drafts |-> 0] \in [Drafts -> 0..MaxRuns]
      BY Zeros
    <2>5. store \in StoreRec
      BY <2>4 DEF Init, StoreRec
    <2> QED BY <2>2, <2>3, <2>5 DEF DraftShape
  <1>8. ServiceShape
    <2>1. NoFiles \in FilesRec
      BY DEF NoFiles, FilesRec
    <2> QED BY <2>1, Zeros DEF Init, ServiceShape
  <1>9. LinkShape
    BY Zeros DEF Init, LinkShape
  <1>10. Waits
    <2>1. ASSUME NEW e \in Runs PROVE Awaits(run[e], call[e])
      <3>1. run[e].phase = "none" /\ call[e].at = "none" /\ run[e].outcome = ""
        BY <1>1, <1>2, <1>4
      <3> QED BY <3>1 DEF Awaits, Requesting, Sending
    <2> QED BY <2>1 DEF Waits, Init
  <1>11. Shape
    BY <1>5, <1>6, <1>7, <1>8, <1>9, <1>10 DEF Shape
  <1>12. ASSUME NEW e \in Runs
         PROVE  /\ run[e].phase = "none" /\ run[e].id = 0 /\ run[e].aborted = FALSE
                /\ run[e].outcome # "failed" /\ call[e].at = "none"
    BY <1>1, <1>2, <1>4
  <1> QED BY <1>11, <1>12

\* The invariant holds of the empty composer.
LEMMA InitUpload == Init => UploadInv
  <1> SUFFICES ASSUME Init PROVE UploadInv
    OBVIOUS
  <1>1. /\ Shape
        /\ \A e \in Runs : /\ run[e].phase = "none" /\ run[e].id = 0 /\ run[e].aborted = FALSE
                           /\ run[e].outcome # "failed" /\ call[e].at = "none"
    BY InitShape
  <1>2. /\ late = {} /\ minted = 0 /\ sent = {} /\ started = 0 /\ cell = [d \in Drafts |-> "absent"]
        /\ disk = [i \in Ids |-> NoFiles]
    BY DEF Init
  <1>3. \A e \in Runs : e > started
    BY <1>2, UploadAssumption DEF Runs
  <1>4. \A e \in Runs : ~Live(e) /\ Claim(e) = 0 /\ \A p : ~Awaiting(e, p)
    BY <1>1 DEF Live, Claim, Awaiting
  <1>5. \A d \in Drafts : cell[d] = "absent"
    BY <1>2
  <1>6. Owned
    BY <1>1, <1>3, <1>4, <1>5 DEF Owned, Owners, RemoveStopsIt, Present
  <1>7. Claims
    <2>1. 0 \in 0..minted
      BY <1>2
    <2>2. \A e \in Runs : ~Sending(run[e]) /\ ~Finishing(run[e])
      BY <1>1 DEF Sending, Finishing
    <2> QED BY <2>1, <2>2, <1>1, <1>2, <1>4 DEF Claims
  <1>8. Noticed
    <2> SUFFICES ASSUME NEW i \in Ids PROVE ~Hurt(i)
      BY DEF Noticed
    <2>1. OfRuns(run, call, i, InService) = {} /\ OfLate(late, i, InService) = {}
      BY <1>1, <1>2 DEF OfRuns, OfLate, InService
    <2>2. IsFiniteSet(late)
      BY <1>1 DEF Shape, CallShape
    <2>3. Cardinality(OfRuns(run, call, i, InService)) + Cardinality(OfLate(late, i, InService)) = 0
      BY <2>1, <2>2, CountAlone
    <2>4. OnId(i, InService) = 0
      BY <2>3 DEF OnId, OfRuns, OfLate
    <2>5. disk[i].blob = <<>>
      BY <1>2 DEF NoFiles
    <2> QED BY <2>4, <2>5 DEF Hurt, Overlap, Torn
  <1>9. Stages
    BY <1>2 DEF Stages
  <1>10. Requests
    <2>1. \A e \in Runs : call[e].at \notin Places
      BY <1>1 DEF Places, InService
    <2> QED BY <2>1, <1>2 DEF Requests
  <1>11. Engines /\ Failures
    <2>1. 0 \notin Ids
      BY UploadAssumption DEF Ids
    <2> QED BY <2>1, <1>1 DEF Engines, Failures
  <1>12. Opening /\ Offered
    BY <1>2, <1>4, <1>5 DEF Opening, Offered
  <1> QED BY <1>1, <1>6, <1>7, <1>8, <1>9, <1>10, <1>11, <1>12 DEF UploadInv, Whole

\* Every step keeps the invariant.
LEMMA NextUpload ==
    ASSUME UploadInv, Next
    PROVE  UploadInv'
  <1>1. Shape /\ Owned /\ Whole /\ Claims /\ Offered /\ Note /\ Step
    BY DEF UploadInv, Whole, Next
  <1>2. harmed' \in SUBSET Ids
    BY <1>1, Noted
  <1>3. ASSUME NEW d \in Drafts, Add(d) \/ Retry(d) PROVE UploadInv'
    <2>1. Owned' /\ run[started + 1].phase = "none"
      BY <1>1, <1>3, StartOwned
    <2>2. Shape'
      BY <2>1, <1>1, <1>2, <1>3, AddShape
    <2>3. Whole'
      BY <2>1, <2>2, <1>1, <1>3, StartWhole
    <2> QED BY <2>1, <2>2, <2>3 DEF UploadInv
  <1>4. ASSUME NEW d \in Drafts, Discard(d) PROVE UploadInv'
    <2>1. /\ {d} \in SUBSET Drafts /\ Abort({d}) /\ store' = Released(store.number, {d})
          /\ cell' \in [Drafts -> Statuses] /\ given' \in [Drafts -> 0..MaxSessions]
          /\ UNCHANGED <<used, started, online, up, disk, minted, faults>> /\ sent' = sent
          /\ cell'[d] = "absent"
          /\ \A x \in Drafts : x # d => cell'[x] = cell[x] /\ given'[x] = given[x]
      BY <1>1, <1>4, DiscardDrops
    <2>2. sent' \in SUBSET Ids
      BY <2>1, <1>1 DEF Shape, ServiceShape
    <2>3. Shape'
      BY <2>1, <2>2, <1>1, <1>2, DropShape
    <2>4. Owned'
      <3>1. \A x \in Drafts : (x \in {d} \/ cell'[x] # cell[x]) => cell'[x] = "absent"
        BY <2>1
      <3> QED BY <3>1, <2>1, <1>1, DropOwned
    <2>5. Whole'
      <3>1. \A x \in Drafts : cell'[x] = "uploaded" => cell[x] = "uploaded" /\ given'[x] = given[x]
        BY <2>1
      <3> QED BY <3>1, <2>1, <2>3, <1>1, DropWhole
    <2> QED BY <2>3, <2>4, <2>5 DEF UploadInv
  <1>5. ASSUME NEW d \in Drafts, RetryUnsourced(d) PROVE UploadInv'
    BY <1>4, <1>5 DEF RetryUnsourced
  <1>6. CASE Send
    <2>1. PICK D \in SUBSET Drafts :
           /\ Abort(D) /\ store' = Released(store.number, D)
           /\ cell' \in [Drafts -> Statuses] /\ given' \in [Drafts -> 0..MaxSessions]
           /\ sent' \in SUBSET Ids
           /\ \A i \in sent' : i \in sent \/ \E d \in Drafts : cell[d] = "uploaded" /\ i = given[d]
           /\ UNCHANGED <<used, started, online, up, disk, minted, faults>>
           /\ \A x \in Drafts : cell'[x] = "absent"
      BY <1>1, <1>6, SendDrops
    <2>2. Shape'
      BY <2>1, <1>1, <1>2, DropShape
    <2>3. Owned'
      BY <2>1, <1>1, DropOwned
    <2>4. Whole'
      <3>1. \A x \in Drafts : cell'[x] # "uploaded"
        BY <2>1
      <3> QED BY <3>1, <2>1, <2>2, <1>1, DropWhole
    <2> QED BY <2>2, <2>3, <2>4 DEF UploadInv
  <1>7. CASE \/ Evict \/ Rebuild \/ GoOffline \/ GoOnline \/ Crash \/ Restart
             \/ (\E e \in Runs : Refuse(e)) \/ (\E i \in Ids : Sweep(i))
    <2>1. Shape' /\ Whole'
      BY <1>1, <1>2, <1>7, FaultShape, FaultWhole
    <2>2. /\ UNCHANGED <<used, run, started>>
          /\ cell' = cell \/ cell' = [d \in Drafts |-> "absent"]
          /\ store' = store \/ store'.number = store.number + 1
      BY <1>7 DEF Evict, Rebuild, GoOffline, GoOnline, Crash, Restart, Refuse, Sweep, client
    <2>3. \A x \in Drafts : cell'[x] = cell[x] \/ cell'[x] = "absent"
      BY <2>2
    <2>4. Owned'
      BY <2>2, <2>3, <1>1, RestOwned
    <2> QED BY <2>1, <2>4 DEF UploadInv
  <1>8. ASSUME NEW e \in Runs, EngineAction(e) PROVE UploadInv'
    <2>1. /\ late' = late \/ late' = late \cup Abandoned({e})
          /\ LinkShape' /\ disk' = disk /\ minted' = minted /\ sent' = sent
          /\ \E s \in RunRec : Moves(e, s) /\ Effects(e, s)
      BY <1>1, <1>8, EngineStep
    <2>2. PICK r \in RunRec : Moves(e, r) /\ Effects(e, r)
      BY <2>1
    <2>3. Shape'
      BY <2>1, <2>2, <1>1, <1>2, MovesShape
    <2>4. Owned'
      BY <2>2, <1>1, MovesOwned
    <2>5. Whole'
      BY <2>1, <2>2, <2>3, <1>1, MovesWhole
    <2> QED BY <2>3, <2>4, <2>5 DEF UploadInv
  <1>9. ASSUME NEW e \in Runs, Serve(e) PROVE UploadInv'
    <2>1. Shape'
      BY <1>1, <1>2, <1>9, ServeShape
    <2>2. Whole'
      BY <2>1, <1>1, <1>9, ServeWhole, ServeCreateWhole
    <2>3. UNCHANGED <<used, run, started, cell, store>>
      BY <1>9 DEF Serve, client
    <2>4. Owned'
      BY <2>3, <1>1, RestOwned
    <2> QED BY <2>1, <2>2, <2>4 DEF UploadInv
  <1>10. ASSUME NEW l \in late, ServeLate(l) PROVE UploadInv'
    <2>1. Shape'
      BY <1>1, <1>2, <1>10, ServeLateShape
    <2>2. Whole'
      BY <2>1, <1>1, <1>10, ServeLateWhole, LateCreateWhole
    <2>3. UNCHANGED <<used, run, started, cell, store>>
      BY <1>10 DEF ServeLate, client
    <2>4. Owned'
      BY <2>3, <1>1, RestOwned
    <2> QED BY <2>1, <2>2, <2>4 DEF UploadInv
  <1>11. \A e \in Runs : Opened(e) \/ OpenFails(e) \/ Unpark(e) \/ Lose(e) \/ Answered(e) \/ Unsupported(e)
           => EngineAction(e)
    BY DEF EngineAction
  <1> QED BY <1>1, <1>3, <1>4, <1>5, <1>6, <1>7, <1>8, <1>9, <1>10, <1>11 DEF Step

\* Stuttering keeps it too.
LEMMA StutterUpload ==
    ASSUME UploadInv, UNCHANGED vars
    PROVE  UploadInv'
  <1>1. UNCHANGED <<cell, given, used, store, run, started, call, late, online, up,
                    disk, minted, sent, faults, harmed>>
    BY DEF vars
  <1>2. Shape'
    BY <1>1 DEF UploadInv, Shape, DraftShape, EngineShape, CallShape, ServiceShape, LinkShape, Waits,
                LateAt
  <1>3. Owned'
    <2>1. \A x \in Drafts : cell'[x] = cell[x]
      BY <1>1
    <2> QED BY <2>1, <1>1, RestOwned DEF UploadInv
  <1>4. Claims' /\ Stages' /\ Offered' /\ Failures'
    BY <1>1 DEF UploadInv, Whole, Claims, Claim, Awaiting, Before, Sending, Finishing, Stages, Staged,
                Moved, Final, Offered, Failures
  <1>5. Noticed'
    BY <1>1 DEF UploadInv, Whole, Noticed, Hurt, Overlap, Torn, OnId, InService
  <1>6. Requests'
    BY <1>1 DEF UploadInv, Whole, Requests, Request1, Request, ChunkLen, Staged, Moved, Final
  <1>7. Engines' /\ Opening'
    BY <1>1 DEF UploadInv, Whole, Engines, Engine, Opening, Awaiting, ChunkLen, Sending, Finishing,
                Staged, Final
  <1> QED BY <1>2, <1>3, <1>4, <1>5, <1>6, <1>7 DEF UploadInv, Whole

\* The invariant always holds.
THEOREM UploadInvariant == Spec => []UploadInv
  <1>1. UploadInv /\ [Next]_vars => UploadInv'
    BY NextUpload, StutterUpload
  <1> QED BY <1>1, InitUpload, PTL DEF Spec

\* The types of the state of the draft store, the engines and the service, and
\* that an engine awaits a request exactly in the phases that make one.
THEOREM UploadTypes == Spec => []TypeOK
  <1>1. UploadInv => TypeOK
    <2> SUFFICES ASSUME UploadInv PROVE TypeOK
      OBVIOUS
    <2>1. Shape
      BY DEF UploadInv
    <2>2. ASSUME NEW e \in Runs
          PROVE  call[e].at # "none" <=> run[e].phase \notin {"none", "opening", "parked", "ended"}
      <3>1. Awaits(run[e], call[e]) /\ run[e] \in RunRec
        BY <2>1 DEF Shape, Waits, EngineShape
      <3>2. run[e].phase \in Phases
        BY <3>1 DEF RunRec
      <3>3. run[e].phase \in Requesting <=> run[e].phase \notin {"none", "opening", "parked", "ended"}
        BY <3>2 DEF Phases, Requesting
      <3> QED BY <3>1, <3>3 DEF Awaits
    <2> QED BY <2>1, <2>2 DEF TypeOK, Shape, DraftShape, EngineShape, CallShape, ServiceShape, LinkShape
  <1> QED BY <1>1, UploadInvariant, PTL

\* What a draft offers or a message references is finalized and is the whole
\* file, whatever was lost, replayed or late, unless the id was swept, torn, or had
\* two requests inside the service at once.
THEOREM UploadsAreWhole == Spec => []UploadedIsWhole
  <1>1. UploadInv => UploadedIsWhole
    BY DEF UploadInv, Whole, Offered, Final, UploadedIsWhole
  <1> QED BY <1>1, UploadInvariant, PTL

\* An upload that fails was swept, torn by a crash, or had two requests inside the
\* service at once, as a completion repeated between rename and record has.
THEOREM FailuresHaveACause == Spec => []FailsForCause
  <1>1. UploadInv => FailsForCause
    BY DEF UploadInv, Whole, Failures, FailsForCause
  <1> QED BY <1>1, UploadInvariant, PTL

\* The X of a draft finds the engine that works for it, through every retry.
THEOREM RemoveAlwaysStops == Spec => []RemoveStopsIt
  <1>1. UploadInv => RemoveStopsIt
    BY DEF UploadInv, Owned
  <1> QED BY <1>1, UploadInvariant, PTL
=============================================================================
