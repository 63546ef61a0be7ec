-------------------------- MODULE AttachmentUpload --------------------------
(***************************************************************************)
(* The composer's attachments: the draft store (draft-store.ts) over its   *)
(* hold cell, the chunked upload engine (upload.ts) of each draft, and the *)
(* attachment store of the app-chat service (attachments.py), which runs   *)
(* every request in a thread of its own.                                   *)
(*                                                                         *)
(* A file is the sequence of its units, numbered from 1.  A request the    *)
(* client gave up on stays in `late`: the service may still carry it out.  *)
(***************************************************************************)
EXTENDS Integers, FiniteSets, Sequences

CONSTANTS
    Drafts,      \* the local ids makeId hands out
    MaxPerMessage, \* MAX_ATTACHMENTS_PER_MESSAGE
    Size,        \* units of a file
    MinChunk, InitialChunk, MaxChunk,  \* the adaptive chunk sizes, in units
    MaxRuns,     \* bound: uploads started
    MaxSessions, \* bound: upload sessions the service opens
    MaxFaults    \* bound: losses, outages, service crashes, evictions, rebuilds

ASSUME UploadAssumption ==
    /\ Size \in Nat \ {0} /\ MinChunk \in Nat \ {0}
    /\ InitialChunk \in MinChunk..MaxChunk /\ MaxChunk \in Nat
    /\ Drafts # {} /\ MaxPerMessage \in Nat
    /\ MaxRuns \in Nat /\ MaxSessions \in Nat /\ MaxFaults \in Nat

Runs == 1..MaxRuns
Ids == 1..MaxSessions
File == [i \in 1..Size |-> i]

VARIABLES
    cell,      \* hold: the status of each draft
    given,     \* hold: the attachment id an uploaded draft carries, or 0
    used,      \* local ids made so far
    store,     \* the draft store in use: its number, sources and handles
    run,       \* the upload engines, in the order they started
    started,   \* engines so far
    call,      \* the request each engine awaits
    late,      \* requests the client gave up on
    online,    \* connectivity.isOnline()
    up,        \* the service runs
    disk,      \* service: the files under each attachment id
    minted,    \* service: ids so far
    sent,      \* service: ids a persisted message references
    faults,    \* faults so far
    harmed     \* history: ids swept, torn by a crash, or with requests overlapping

vars == <<cell, given, used, store, run, started, call, late, online, up,
          disk, minted, sent, faults, harmed>>
client == <<cell, given, used, store, run, started>>
service == <<disk, minted, sent>>
link == <<online, up>>

----------------------------------------------------------------------------
Statuses == {"absent", "uploading", "waiting", "uploaded", "error"}
Phases == {"none", "opening", "creating", "putting", "resyncing",
           "recovering", "completing", "parked", "ended"}
Outcomes == {"", "done", "failed", "too_large", "unsupported_agent",
             "unreadable", "aborted"}

NoRun == [draft |-> CHOOSE d \in Drafts : TRUE, owner |-> 0, phase |-> "none",
          id |-> 0, offset |-> 0, chunk |-> InitialChunk, resume |-> "",
          edge |-> FALSE, aborted |-> FALSE, outcome |-> ""]

\* A request: where it has got to and, once answered, its reply.
NoCall == [at |-> "none", reply |-> "", value |-> 0]
Ready(phase) == IF phase \in {"creating", "putting", "resyncing", "recovering",
                              "completing"}
                THEN [NoCall EXCEPT !.at = "sent"] ELSE NoCall

\* The files of an id directory: .session.json, .meta.json, .part, the blob.
NoFiles == [session |-> FALSE, meta |-> FALSE, part |-> <<>>, blob |-> <<>>]

Present(d) == cell[d] # "absent"
Live(e) == run[e].phase \notin {"none", "ended"}
Awaiting(e, phase) == run[e].phase = phase /\ call[e].at = "answered"
ChunkLen(r) == IF r.chunk <= Size - r.offset THEN r.chunk ELSE Size - r.offset

Init ==
    /\ cell = [d \in Drafts |-> "absent"] /\ given = [d \in Drafts |-> 0]
    /\ used = {}
    /\ store = [number |-> 1, sources |-> {}, handles |-> [d \in Drafts |-> 0]]
    /\ run = [e \in Runs |-> NoRun] /\ started = 0
    /\ call = [e \in Runs |-> NoCall] /\ late = {}
    /\ online = TRUE /\ up = TRUE
    /\ disk = [i \in Ids |-> NoFiles] /\ minted = 0 /\ sent = {}
    /\ faults = 0 /\ harmed = {}

Fault == faults < MaxFaults /\ faults' = faults + 1

----------------------------------------------------------------------------
(* Requests at the service.  A request is [op, id, offset, len].           *)

Request(e) ==
    LET r == run[e]
    IN  [op |-> CASE r.phase = "creating" -> "create"
                  [] r.phase = "putting" -> "put"
                  [] r.phase = "completing" -> "complete"
                  [] OTHER -> "status",
         id |-> r.id, offset |-> r.offset, len |-> ChunkLen(r)]

\* Requests the service is in the middle of, and those on their way to it.
InService == {"checked", "looked", "renamed", "recorded"}
OnId(i, places) ==
    Cardinality({e \in Runs : call[e].at \in places /\ run[e].id = i})
  + Cardinality({l \in late : l.at \in places /\ l.q.id = i})

Data(q) == [i \in 1..q.len |-> q.offset + i]
Reply(reply, value) == [at |-> "answered", reply |-> reply, value |-> value]
At(where) == [NoCall EXCEPT !.at = where]

\* Mutant: a chunk is appended whatever the staged size is by now.
PutCheckedBlind(q) ==
    IF disk[q.id].session THEN At("checked") ELSE Reply("unknown", 0)
\* append_at, up to its checks.
PutChecked(q) ==
    LET f == disk[q.id]
    IN  CASE ~f.session -> Reply("unknown", 0)
          [] f.session /\ q.offset # Len(f.part) -> Reply("mismatch", 0)
          [] f.session /\ q.offset = Len(f.part) /\ q.offset + q.len > Size ->
               Reply("too_large", 0)
          [] OTHER -> At("checked")

\* Mutant: the probe forgets the staged bytes.
StatusReplyZero(q) ==
    IF disk[q.id].meta THEN Reply("ok", Size) ELSE Reply("ok", 0)
\* upload_status: a finalized id answers its declared size.
StatusReply(q) ==
    LET f == disk[q.id]
    IN  CASE f.meta -> Reply("ok", Size)
          [] ~f.meta /\ f.session -> Reply("ok", Len(f.part))
          [] OTHER -> Reply("unknown", 0)

\* Mutant: complete looks for the session even when the id is finalized.
FinalizeLookedAlways(q) == At("looked")
\* finalize, up to read_meta: a finalized id answers its record again.
FinalizeLooked(q) == IF disk[q.id].meta THEN Reply("ok", q.id) ELSE At("looked")

\* One step of the service on a request at `at`: the files after it, the ids
\* minted, and where the request is then.
Served(q, at) ==
    LET f == disk[q.id]
        stays(now) == [disk |-> disk, minted |-> minted, now |-> now]
        leaves(g, now) == [disk |-> [disk EXCEPT ![q.id] = g],
                           minted |-> minted, now |-> now]
    IN CASE q.op = "create" ->
              [disk |-> [disk EXCEPT ![minted + 1] = [NoFiles EXCEPT !.session = TRUE]],
               minted |-> minted + 1, now |-> Reply("ok", minted + 1)]
         [] q.op = "put" /\ at = "sent" -> stays(PutChecked(q))
         [] q.op = "put" /\ at = "checked" ->
              leaves([f EXCEPT !.part = @ \o Data(q)], Reply("ok", 0))
         [] q.op = "status" -> stays(StatusReply(q))
         [] q.op = "complete" /\ at = "sent" -> stays(FinalizeLooked(q))
         [] q.op = "complete" /\ at = "looked" ->
              IF f.session /\ Len(f.part) = Size
              THEN leaves([f EXCEPT !.part = <<>>, !.blob = f.part], At("renamed"))
              ELSE stays(Reply(IF f.session THEN "mismatch" ELSE "unknown", 0))
         [] q.op = "complete" /\ at = "renamed" ->
              leaves([f EXCEPT !.meta = TRUE], At("recorded"))
         [] q.op = "complete" /\ at = "recorded" ->
              leaves([f EXCEPT !.session = FALSE], Reply("ok", q.id))

Servable(q, at) ==
    at \in {"sent"} \cup InService /\ (q.op = "create" => minted < MaxSessions)

Serve(e) ==
    /\ up /\ Servable(Request(e), call[e].at)
    /\ LET s == Served(Request(e), call[e].at)
       IN  /\ disk' = s.disk /\ minted' = s.minted
           /\ call' = [call EXCEPT ![e] = s.now]
    /\ UNCHANGED <<client, late, link, sent, faults>>

\* A request nobody awaits any more is carried out all the same.
ServeLate(l) ==
    /\ up /\ Servable(l.q, l.at)
    /\ LET s == Served(l.q, l.at)
       IN  /\ disk' = s.disk /\ minted' = s.minted
           /\ late' = (late \ {l}) \cup
                      (IF s.now.at = "answered" THEN {} ELSE {[l EXCEPT !.at = s.now.at]})
    /\ UNCHANGED <<client, call, link, sent, faults>>

\* The service dies in the middle of its requests; it may come back.
Crash ==
    /\ Fault /\ up /\ up' = FALSE
    /\ call' = [e \in Runs |-> IF call[e].at \in InService
                               THEN Reply("broken", 0) ELSE call[e]]
    /\ late' = {l \in late : l.at \notin InService}
    /\ UNCHANGED <<client, online, service>>
Restart ==
    /\ ~up /\ up' = TRUE
    /\ UNCHANGED <<client, call, late, online, service, faults>>
\* Meanwhile the gateway answers 502.
Refuse(e) ==
    /\ ~up /\ call[e].at = "sent"
    /\ call' = [call EXCEPT ![e] = Reply("broken", 0)]
    /\ UNCHANGED <<client, late, link, service, faults>>

\* sweep, a day after the last activity: abandoned sessions, and finalized
\* attachments no message references.
Sweep(i) ==
    /\ Fault /\ up
    /\ OnId(i, {"sent"} \cup InService) = 0
    /\ disk[i].session \/ (disk[i].meta /\ i \notin sent)
    /\ disk' = [disk EXCEPT ![i] = NoFiles]
    /\ UNCHANGED <<client, call, late, link, minted, sent>>

----------------------------------------------------------------------------
(* The draft store.                                                        *)

\* mutate: a draft that is gone is never written back.
Mutated(d, status) ==
    IF Present(d) THEN [cell EXCEPT ![d] = status] ELSE cell

\* release, in the store the caller belongs to; a store that was replaced
\* keeps maps nobody reads again.
Released(number, D) ==
    IF number # store.number THEN store
    ELSE [store EXCEPT !.sources = @ \ D,
                       !.handles = [d \in Drafts |-> IF d \in D THEN 0 ELSE @[d]]]
Unhandled(e) ==
    IF run[e].owner # store.number THEN store
    ELSE [store EXCEPT !.handles[run[e].draft] = 0]

\* The request of an engine that stops waiting for it; a probe changes nothing.
Abandoned(E) ==
    { [q |-> Request(e), at |-> call[e].at, n |-> <<e, faults>>] :
        e \in {x \in E : /\ call[x].at \in {"sent"} \cup InService
                         /\ run[x].phase \notin {"resyncing", "recovering"}} }

\* abort() of the handles of drafts D: a request in flight is dropped and a
\* park is woken, so each engine ends at once.
Handled(D) == {e \in Runs : Live(e) /\ \E d \in D : store.handles[d] = e}
Abort(D) ==
    /\ run' = [e \in Runs |-> IF e \in Handled(D)
                              THEN [run[e] EXCEPT !.phase = "ended", !.outcome = "aborted"]
                              ELSE run[e]]
    /\ call' = [e \in Runs |-> IF e \in Handled(D) THEN NoCall ELSE call[e]]
    /\ late' = late \cup Abandoned(Handled(D))

StartUpload(d) ==
    /\ started < MaxRuns /\ started' = started + 1
    /\ run' = [run EXCEPT ![started + 1] =
                 [NoRun EXCEPT !.draft = d, !.owner = store.number, !.phase = "opening"]]

Add(d) ==
    /\ d \notin used /\ Cardinality({x \in Drafts : Present(x)}) < MaxPerMessage
    /\ used' = used \cup {d}
    /\ cell' = [cell EXCEPT ![d] = "uploading"]
    /\ store' = [store EXCEPT !.sources = @ \cup {d}]
    /\ StartUpload(d)
    /\ UNCHANGED <<given, call, late, link, service, faults>>

\* discard
Discard(d) ==
    /\ Present(d)
    /\ Abort({d})
    /\ store' = Released(store.number, {d})
    /\ cell' = [cell EXCEPT ![d] = "absent"]
    /\ given' = [given EXCEPT ![d] = 0]
    /\ UNCHANGED <<used, started, link, service, faults>>

\* Mutant: retry on a draft that is still uploading.
RetryAnyStatus(d) ==
    /\ Present(d) /\ d \in store.sources
    /\ cell' = [cell EXCEPT ![d] = "uploading"]
    /\ StartUpload(d)
    /\ UNCHANGED <<given, used, store, call, late, link, service, faults>>
\* retry, offered on a failed draft; a store built since has no source for it.
Retry(d) ==
    /\ cell[d] = "error" /\ d \in store.sources
    /\ cell' = [cell EXCEPT ![d] = "uploading"]
    /\ StartUpload(d)
    /\ UNCHANGED <<given, used, store, call, late, link, service, faults>>
RetryUnsourced(d) == cell[d] = "error" /\ d \notin store.sources /\ Discard(d)

\* The send gate, the message that references the attachments (refused when
\* one is unknown), and the clear that follows.
Send ==
    LET D == {d \in Drafts : Present(d)}
        ids == {given[d] : d \in D}
    IN  /\ D # {} /\ \A d \in D : cell[d] = "uploaded"
        /\ sent' = IF \A i \in ids : disk[i].meta THEN sent \cup ids ELSE sent
        /\ Abort(D)
        /\ store' = Released(store.number, D)
        /\ cell' = [d \in Drafts |-> "absent"] /\ given' = [d \in Drafts |-> 0]
        /\ UNCHANGED <<used, started, link, disk, minted, faults>>

\* The hold drops the whole cell: its least recently used key.
Evict ==
    /\ Fault /\ \E d \in Drafts : Present(d)
    /\ cell' = [d \in Drafts |-> "absent"] /\ given' = [d \in Drafts |-> 0]
    /\ UNCHANGED <<used, store, run, started, call, late, link, service>>

\* The app builds a store over the same hold: a new controller, a new client.
Rebuild ==
    /\ Fault
    /\ store' = [number |-> store.number + 1, sources |-> {},
                 handles |-> [d \in Drafts |-> 0]]
    /\ UNCHANGED <<cell, given, used, run, started, call, late, link, service>>

GoOffline ==
    /\ Fault /\ online /\ online' = FALSE
    /\ UNCHANGED <<client, call, late, up, service>>
GoOnline ==
    /\ ~online /\ online' = TRUE
    /\ UNCHANGED <<client, call, late, up, service, faults>>

----------------------------------------------------------------------------
(* The upload engine.                                                      *)

Goes(e, r) ==
    /\ run' = [run EXCEPT ![e] = r]
    /\ call' = [call EXCEPT ![e] = Ready(r.phase)]

\* The result handler of startUpload.
Ends(e, outcome) ==
    LET d == run[e].draft
    IN  /\ Goes(e, [run[e] EXCEPT !.phase = "ended", !.outcome = outcome])
        /\ CASE outcome = "done" ->
                  /\ cell' = Mutated(d, "uploaded") /\ store' = Unhandled(e)
                  /\ given' = IF Present(d) THEN [given EXCEPT ![d] = run[e].id] ELSE given
             [] outcome \in {"failed", "too_large"} ->
                  /\ cell' = Mutated(d, "error") /\ store' = Unhandled(e)
                  /\ UNCHANGED given
             [] outcome \in {"unsupported_agent", "unreadable"} ->
                  /\ cell' = [cell EXCEPT ![d] = "absent"]
                  /\ given' = [given EXCEPT ![d] = 0]
                  /\ store' = Released(run[e].owner, {d})
             [] outcome = "aborted" ->  \* orphaned released it, or nobody needs to
                  /\ store' = Released(run[e].owner, {d})
                  /\ UNCHANGED <<cell, given>>

\* The source's bytes are there; a draft gone meanwhile is not uploaded.
Opened(e) ==
    /\ run[e].phase = "opening"
    /\ IF Present(run[e].draft)
       THEN /\ Goes(e, [run[e] EXCEPT !.phase = "creating"])
            /\ store' = IF run[e].owner = store.number
                        THEN [store EXCEPT !.handles[run[e].draft] = e] ELSE store
            /\ UNCHANGED <<cell, given>>
       ELSE Ends(e, "aborted")
    /\ UNCHANGED <<used, started, late, link, service, faults>>

\* The source cannot be read, or its bytes are over the limit.
OpenFails(e) ==
    /\ Fault /\ run[e].phase = "opening"
    /\ \/ Ends(e, "unreadable")
       \/ Present(run[e].draft) /\ Ends(e, "too_large")
    /\ UNCHANGED <<used, started, late, link, service>>

\* onProgress, and the loop of sendChunks: a vanished draft aborts the engine.
Advance(e, r) ==
    IF Present(r.draft)
    THEN /\ Goes(e, [r EXCEPT !.phase = IF r.offset < Size THEN "putting" ELSE "completing"])
         /\ cell' = Mutated(r.draft, "uploading")
         /\ UNCHANGED <<given, store>>
    ELSE Ends(e, "aborted")

\* Mutant: a park on a vanished draft goes on as if it were there.
ParkUnwatched(e, r, resume) ==
    /\ Goes(e, [r EXCEPT !.phase = "parked", !.resume = resume, !.edge = ~online])
    /\ cell' = Mutated(r.draft, "waiting")
    /\ UNCHANGED <<given, store>>
\* park: the abort of a vanished draft comes before the sleep, and waits for it.
Park(e, r, resume) ==
    /\ Goes(e, [r EXCEPT !.phase = "parked", !.resume = resume, !.edge = ~online,
                         !.aborted = ~Present(r.draft)])
    /\ cell' = Mutated(r.draft, "waiting")
    /\ store' = IF Present(r.draft) THEN store ELSE Released(r.owner, {r.draft})
    /\ UNCHANGED given

\* Mutant: no floor under the chunk size.
HalvedUnbounded(chunk) == chunk \div 2
Halved(chunk) == IF chunk \div 2 > MinChunk THEN chunk \div 2 ELSE MinChunk
Doubled(chunk) == IF chunk * 2 < MaxChunk THEN chunk * 2 ELSE MaxChunk

\* A retryable failure of the request in flight.
Fails(e) ==
    LET r == run[e]
    IN  CASE r.phase \in {"creating", "completing"} -> Park(e, r, r.phase)
          [] r.phase = "putting" ->
               Park(e, [r EXCEPT !.chunk = Halved(@)], "recovering")
          [] r.phase = "resyncing" -> Park(e, r, "recovering")
          [] r.phase = "recovering" ->   \* keep the guess; no callback
               /\ Goes(e, [r EXCEPT !.phase = "putting"])
               /\ UNCHANGED <<cell, given, store>>

\* The wait ends: the timer, or the connectivity edge.
Unpark(e) ==
    /\ run[e].phase = "parked" /\ (run[e].edge => online)
    /\ IF run[e].aborted THEN Ends(e, "aborted")
       ELSE /\ Goes(e, [run[e] EXCEPT !.phase = run[e].resume])
            /\ UNCHANGED <<cell, given, store>>
    /\ UNCHANGED <<used, started, late, link, service, faults>>

\* A network error, or a chunk's timeout: the request may be anywhere.
Lose(e) ==
    /\ Fault /\ call[e].at # "none"
    /\ late' = late \cup Abandoned({e})
    /\ Fails(e)
    /\ UNCHANGED <<used, started, link, service>>

Answered(e) ==
    LET r == run[e] c == call[e] IN
    /\ c.at = "answered"
    /\ \/ c.reply = "broken" /\ Fails(e)
       \/ /\ c.reply = "ok" /\ r.phase = "creating"
          /\ Advance(e, [r EXCEPT !.id = c.value, !.offset = 0, !.chunk = InitialChunk])
       \/ /\ c.reply = "ok" /\ r.phase = "putting"
          /\ \E chunk \in {r.chunk, Doubled(r.chunk)} :
               Advance(e, [r EXCEPT !.offset = @ + ChunkLen(r), !.chunk = chunk])
       \/ /\ c.reply = "mismatch" /\ r.phase = "putting"
          /\ Goes(e, [r EXCEPT !.phase = "resyncing"]) /\ UNCHANGED <<cell, given, store>>
       \/ /\ c.reply = "ok" /\ r.phase \in {"resyncing", "recovering"}
          /\ Advance(e, [r EXCEPT !.offset = c.value])
       \/ c.reply = "unknown" /\ r.phase = "recovering" /\ Fails(e)
       \/ c.reply = "ok" /\ r.phase = "completing" /\ Ends(e, "done")
       \/ c.reply = "mismatch" /\ r.phase = "completing" /\ Ends(e, "failed")
       \/ /\ c.reply \in {"unknown", "too_large"} /\ r.phase # "recovering"
          /\ Ends(e, IF c.reply = "unknown" THEN "failed" ELSE c.reply)
    /\ UNCHANGED <<used, started, late, link, service, faults>>

\* An agent without the route answers the create with a 404.
Unsupported(e) ==
    /\ Fault /\ run[e].phase = "creating" /\ call[e].at = "sent"
    /\ Ends(e, "unsupported_agent")
    /\ UNCHANGED <<used, started, late, link, service>>

----------------------------------------------------------------------------
\* What the service cannot repair.  Two requests of an id are inside it at once:
\* one the client gave up on, and its repetition or the next.  A completion so
\* repeated is not idempotent between the rename and the record.
Overlap(i) == OnId(i, InService) > 1

\* A crash fell between the rename and the record.
Torn(i) == ~disk[i].meta /\ disk[i].blob # <<>> /\ OnId(i, {"renamed"}) = 0

Swept(i) == disk[i] # NoFiles /\ disk'[i] = NoFiles

Hurt(i) == Overlap(i) \/ Torn(i)
Note == harmed' = harmed \cup {i \in Ids : Hurt(i)' \/ Swept(i)}

Step ==
    \/ \E d \in Drafts : Add(d) \/ Discard(d) \/ Retry(d) \/ RetryUnsourced(d)
    \/ Send \/ Evict \/ Rebuild \/ GoOffline \/ GoOnline \/ Crash \/ Restart
    \/ \E e \in Runs : \/ Opened(e) \/ OpenFails(e) \/ Unpark(e) \/ Lose(e)
                       \/ Answered(e) \/ Unsupported(e) \/ Serve(e) \/ Refuse(e)
    \/ \E l \in late : ServeLate(l)
    \/ \E i \in Ids : Sweep(i)

Next == Step /\ Note

Spec == Init /\ [][Next]_vars

FairSpec ==
    /\ Spec
    /\ WF_vars(GoOnline /\ Note)
    /\ \A e \in Runs : /\ WF_vars(Opened(e) /\ Note)
                       /\ WF_vars(Unpark(e) /\ Note)
                       /\ WF_vars(Answered(e) /\ Note)
                       /\ WF_vars(Serve(e) /\ Note)
                       /\ WF_vars(Refuse(e) /\ Note)

----------------------------------------------------------------------------
\* The types of the state: an engine awaits a request exactly in the phases
\* that make one, and a chunk stays within its limits.
Places == {"sent"} \cup InService
RunRec == [draft : Drafts, owner : Nat, phase : Phases, id : 0..MaxSessions, offset : Nat,
           chunk : MinChunk..MaxChunk, resume : {"", "creating", "recovering", "completing"},
           edge : BOOLEAN, aborted : BOOLEAN, outcome : Outcomes]
CallRec == [at : {"none", "answered"} \cup Places, value : Nat,
            reply : {"", "ok", "broken", "unknown", "mismatch", "too_large"}]
RequestRec == [op : {"create", "put", "complete"}, id : 0..MaxSessions, offset : Nat, len : Int]
LateRec == [q : RequestRec, at : Places, n : Runs \X Nat]
FilesRec == [session : BOOLEAN, meta : BOOLEAN, part : Seq(Nat), blob : Seq(Nat)]
StoreRec == [number : Nat, sources : SUBSET Drafts, handles : [Drafts -> 0..MaxRuns]]
TypeOK ==
    /\ cell \in [Drafts -> Statuses] /\ given \in [Drafts -> 0..MaxSessions]
    /\ used \in SUBSET Drafts /\ store \in StoreRec
    /\ run \in [Runs -> RunRec] /\ started \in 0..MaxRuns
    /\ call \in [Runs -> CallRec] /\ late \in SUBSET LateRec
    /\ \A e \in Runs : call[e].at # "none" <=>
                         run[e].phase \notin {"none", "opening", "parked", "ended"}
    /\ disk \in [Ids -> FilesRec] /\ minted \in 0..MaxSessions
    /\ sent \in SUBSET Ids /\ harmed \in SUBSET Ids
    /\ faults \in 0..MaxFaults /\ online \in BOOLEAN /\ up \in BOOLEAN

\* Whatever was lost, replayed, late or cut short by a crash on the way, an
\* attachment that a draft offers or a message references is finalized and is
\* the whole file, in order; unless it was swept, torn, or had two requests
\* inside the service at once.
UploadedIsWhole ==
    \A i \in sent \cup {given[d] : d \in {x \in Drafts : cell[x] = "uploaded"}} :
        i \in harmed \/ (disk[i].meta /\ disk[i].blob = File)

\* An upload fails only where the service has lost track of its id: swept, torn,
\* or with two requests inside at once, a completion repeated between rename and
\* record among them.  Any other loss, outage or lost answer is retried
\* ("Retryable failures back off forever while the draft lives", upload.ts).
FailsForCause ==
    \A e \in Runs : run[e].outcome = "failed" => run[e].id \in harmed

\* The X of a draft stops its upload: the engine that works for a draft in
\* the cell is the one its store's handle aborts, through every retry.
RemoveStopsIt ==
    \A e \in Runs :
        (/\ Live(e) /\ run[e].phase # "opening" /\ Present(run[e].draft)
         /\ run[e].owner = store.number)
        => store.handles[run[e].draft] = e

\* An engine whose draft vanished (its cell evicted, or removed through a
\* store that has no handle of it) comes to an end, even when the service
\* never answers again: it must not "retry forever with no UI able to cancel".
OrphanEnds == \A e \in Runs : (Live(e) /\ ~Present(run[e].draft)) ~> ~Live(e)

\* Once the service stays up, a draft does not stay in between: it becomes
\* uploaded, failed, or gone.  No exchange of 409s and probes goes on forever.
DraftSettles ==
    <>[]up => \A d \in Drafts : (cell[d] \in {"uploading", "waiting"})
                                ~> (cell[d] \notin {"uploading", "waiting"})
=============================================================================
