---------------------------- MODULE ChatSession ----------------------------
(***************************************************************************)
(* One chat of a client (apps/core/src/chat): the app-chat socket, which   *)
(* replays nothing, joined by event id to the pages of the history route,  *)
(* the queue that types replies out, and the sends that are confirmed by   *)
(* their echo.  The app-chat daemon and the gateway's socket proxy are the *)
(* environment.                                                            *)
(*                                                                         *)
(* An event is known by its id, the position of its row in the daemon's    *)
(* store; its text is left out.  Cursor 0 stands for null and id 0 for a   *)
(* bubble that has no id yet.                                              *)
(***************************************************************************)
EXTENDS Naturals, Sequences, FiniteSets

CONSTANTS
    Intents,         \* the ids makeId hands out
    NoIntent,        \* a row without intent id
    PageSize,        \* rows of a history page
    FlushThreshold,  \* PACING.flushThreshold
    MaxMessages,     \* PACING.maxMessages
    TrimKeep,        \* TRIM_HISTORY_KEEP
    MaxRows,         \* bound: rows of the agent and of other devices
    MaxTaps,         \* bound: retries by hand
    MaxFaults        \* bound: losses, failures, restarts, remounts

ASSUME ChatAssumption ==
    /\ NoIntent \notin Intents
    /\ PageSize \in Nat \ {0}
    /\ TrimKeep \in Nat \ {0}
    /\ MaxMessages \in Nat \ {0}
    /\ FlushThreshold \in Nat \ {0}
    /\ MaxRows \in Nat
    /\ IsFiniteSet(Intents)
    /\ MaxTaps \in Nat
    /\ MaxFaults \in Nat

VARIABLES
    log,       \* store: the rows of the conversation, a row's id its index
    seen,      \* daemon: intent ids it remembers (memory only)
    live,      \* daemon: the client's connection is among the subscribers
    wire,      \* ids sent to the client and not yet received
    chat,      \* session: the ChatState
    queue,     \* session: replies waiting to be typed out
    phase,     \* session: the chat socket is open
    sawOpen,   \* session: an open was seen
    seeded,    \* session: mountSeedSucceeded
    seeds,     \* seed fetches in flight: what each has read of the store
    retries,   \* seed retry timers that are armed
    held,      \* seedRetryTimer is set: the newest of them can be cleared
    more,      \* the cursor of the older page being loaded, 0 when none is
    posts,     \* send requests in flight
    taps,      \* retries by hand so far
    faults,    \* faults so far
    told,      \* history: rows sent to this client or on a page read for it, but
               \* for those a reseed has since left behind in a hole
    crossed    \* history: the cursor has been above a held row

vars == <<log, seen, live, wire, chat, queue, phase, sawOpen, seeded, seeds,
          retries, held, more, posts, taps, faults, told, crossed>>

----------------------------------------------------------------------------
(* Rows, the chat state and history pages. *)

\* A send is stored once, and again for every fault at most.
MaxLog == MaxRows + Cardinality(Intents) * (MaxFaults + 1)

Ids == 1..MaxLog

SendState == {"none", "sending", "retry", "failed"}

Row == [id : 0..MaxLog, intent : Intents \cup {NoIntent}, send : SendState]

Entry == [type : {"user", "chat"}, intent : Intents \cup {NoIntent}]

ChatState == [messages : Seq(Row), shownIds : SUBSET Ids,
              pendingIntents : SUBSET Intents, cursor : 0..MaxLog,
              historyLoaded : BOOLEAN]

InitialChatState == [messages |-> <<>>, shownIds |-> {}, pendingIntents |-> {},
                     cursor |-> 0, historyLoaded |-> FALSE]

\* The persisted event as the page or the socket carries it.
Event(id) == [id |-> id, intent |-> log[id].intent, send |-> "none"]

\* Store.page: the last PageSize rows up to id n, and where the older ones start.
PageFrom(n) == IF n > PageSize THEN n - PageSize + 1 ELSE 1

PageIds(n) == PageFrom(n)..n

PageEvents(n) == [k \in 1..(n + 1 - PageFrom(n)) |-> Event(PageFrom(n) + k - 1)]

PageCursor(n) == IF PageFrom(n) > 1 THEN PageFrom(n) ELSE 0

CapTail(rows) ==
    IF Len(rows) > MaxMessages
    THEN SubSeq(rows, Len(rows) - MaxMessages + 1, Len(rows))
    ELSE rows

ShownRows == {chat.messages[k].id : k \in DOMAIN chat.messages} \ {0}

----------------------------------------------------------------------------
(* The folds of chat-stream-model.ts. *)

Echoed(n) == {log[id].intent : id \in PageIds(n)} \ {NoIntent}

IsPending(row) == row.intent \in chat.pendingIntents

\* Mutant: a bubble stays beside its echo on the page.
FoldedNever(row, n) == FALSE
\* partitionHeld: what the page replaces, and what stays below and above it.
Folded(row, n) == IsPending(row) /\ row.intent \in Echoed(n)

IsOlder(row, n) == ~Folded(row, n) /\ row.id # 0 /\ n > 0 /\ row.id < PageFrom(n)

IsNewer(row, n) == /\ ~Folded(row, n)
                   /\ IF row.id = 0 THEN IsPending(row) ELSE n = 0 \/ row.id > n

\* The elements of s at the places K, in their order.
Pick(s, K) ==
    LET picked[k \in 0..Len(s)] ==
            IF k = 0 THEN <<>>
            ELSE IF k \in K THEN Append(picked[k - 1], s[k]) ELSE picked[k - 1]
    IN  picked[Len(s)]

Older(n) == Pick(chat.messages, {k \in DOMAIN chat.messages : IsOlder(chat.messages[k], n)})

Newer(n) == Pick(chat.messages, {k \in DOMAIN chat.messages : IsNewer(chat.messages[k], n)})

Overlaps(n) == \E k \in DOMAIN chat.messages :
    chat.messages[k].id \in PageIds(n) /\ ~Folded(chat.messages[k], n)

\* Mutant: older rows are kept over any hole.
JoinedAlways(n) == TRUE
\* seedTail: the page reaches the rows held.
Joined(n) == Older(n) = <<>> \/ Overlaps(n)

SeedTail(n) ==
    [messages |-> CapTail((IF Joined(n) THEN Older(n) ELSE <<>>)
                          \o PageEvents(n) \o Newer(n)),
     shownIds |-> chat.shownIds \cup PageIds(n),
     pendingIntents |-> chat.pendingIntents \ Echoed(n),
     cursor |-> IF Joined(n) /\ chat.historyLoaded THEN chat.cursor
                                                   ELSE PageCursor(n),
     historyLoaded |-> TRUE]

Mark(rows, i, send) ==
    [k \in DOMAIN rows |->
        IF rows[k].intent = i THEN [rows[k] EXCEPT !.send = send] ELSE rows[k]]

MarkSend(i, send) == [chat EXCEPT !.messages = Mark(@, i, send)]

\* The echo of a pending send: its bubble takes the id and loses its state.
Confirm(id) ==
    [chat EXCEPT
        !.pendingIntents = @ \ {log[id].intent},
        !.shownIds = @ \cup {id},
        !.messages = [k \in DOMAIN @ |-> IF @[k].intent = log[id].intent
                                         THEN Event(id) ELSE @[k]]]

CommitPacedChat(state, id) ==
    IF \E k \in DOMAIN state.messages : state.messages[k].id = id
    THEN state
    ELSE [state EXCEPT !.messages = CapTail(Append(@, Event(id)))]

BeginSend(i) ==
    [chat EXCEPT
        !.pendingIntents = @ \cup {i},
        !.messages = CapTail(Append(@, [id |-> 0, intent |-> i,
                                        send |-> "sending"]))]

\* trimTail: the newest rows stay, and paging restarts below the first of
\* them that has an id.
Kept == SubSeq(chat.messages, Len(chat.messages) - TrimKeep + 1,
               Len(chat.messages))

KeptIds == {k \in DOMAIN Kept : Kept[k].id # 0}

OldestKept == Kept[CHOOSE k \in KeptIds : \A j \in KeptIds : k <= j].id

\* Mutant: the cursor stays below the rows dropped.
TrimTailKeepsCursor ==
    [chat EXCEPT !.messages = Kept,
                 !.shownIds = {id \in @ : id >= OldestKept}]
TrimTail ==
    [chat EXCEPT !.messages = Kept,
                 !.shownIds = {id \in @ : id >= OldestKept},
                 !.cursor = OldestKept]

PrependPage(n) ==
    [chat EXCEPT !.messages = PageEvents(n) \o @,
                 !.shownIds = @ \cup PageIds(n),
                 !.cursor = PageCursor(n)]

----------------------------------------------------------------------------
(* Parts that several steps share. *)

Init ==
    /\ log = <<>> /\ seen = {} /\ live = FALSE /\ wire = <<>>
    /\ chat = InitialChatState
    /\ queue = <<>> /\ phase = "down" /\ sawOpen = FALSE /\ seeded = FALSE
    /\ seeds = <<MaxLog + 1>> /\ retries = 0 /\ held = FALSE /\ more = 0
    /\ posts = [i \in Intents |-> [sent |-> 0, orphan |-> 0,
                                   retry |-> 0, failed |-> 0]]
    /\ taps = 0 /\ faults = 0
    /\ told = {} /\ crossed = FALSE

\* A fetch the daemon has not answered yet.
Asked == MaxLog + 1

Fault == faults < MaxFaults /\ faults' = faults + 1

daemonVars == <<log, seen, live, wire>>
pageVars == <<seeds, retries, held, more, sawOpen, seeded>>
sendVars == <<posts, taps>>

\* Store.append and emit: the row gets the next id and goes to the subscriber.
Persist(entry) ==
    /\ log' = Append(log, entry)
    /\ wire' = IF live THEN Append(wire, Len(log) + 1) ELSE wire
    /\ told' = IF live /\ sawOpen THEN told \cup {Len(log) + 1} ELSE told

\* A commit of paced replies, one after the other.
CommitReplies(state, ids) ==
    LET committed[k \in 0..Len(ids)] ==
            IF k = 0 THEN state ELSE CommitPacedChat(committed[k - 1], ids[k])
    IN  chat' = committed[Len(ids)]

\* Every report of a phase clears the seed retry whose handle is kept; one that
\* a second failed seed has overwritten still fires.
ClearSeedRetry ==
    /\ retries' = IF held THEN retries - 1 ELSE retries
    /\ held' = FALSE

----------------------------------------------------------------------------
(* The daemon and the link. *)

MayWrite ==
    Cardinality({k \in DOMAIN log : log[k].intent = NoIntent}) < MaxRows

AgentReply ==
    /\ MayWrite
    /\ Persist([type |-> "chat", intent |-> NoIntent])
    /\ UNCHANGED <<seen, live, chat, queue, phase, faults>>
    /\ UNCHANGED <<pageVars, sendVars>>

\* The user writes from another device.
OtherSend ==
    /\ MayWrite
    /\ Persist([type |-> "user", intent |-> NoIntent])
    /\ UNCHANGED <<seen, live, chat, queue, phase, faults>>
    /\ UNCHANGED <<pageVars, sendVars>>

\* The gateway accepts the client's socket before it has dialled the daemon's:
\* the subscription may come before or after the client sees its open.
Subscribe ==
    /\ ~live
    /\ live' = TRUE
    /\ wire' = <<>>
    /\ UNCHANGED <<log, seen, chat, queue, phase, faults, told>>
    /\ UNCHANGED <<pageVars, sendVars>>

SocketLost ==
    /\ phase = "open" \/ live
    /\ Fault
    /\ phase' = "down"
    /\ live' = FALSE /\ wire' = <<>>
    /\ ClearSeedRetry
    /\ UNCHANGED <<log, seen, chat, queue, seeds, more, sawOpen, seeded>>
    /\ UNCHANGED <<sendVars, told>>

\* The remembered intents are memory of the process.
DaemonRestart ==
    /\ Fault
    /\ seen' = {} /\ live' = FALSE /\ wire' = <<>>
    /\ phase' = "down"
    /\ ClearSeedRetry
    /\ UNCHANGED <<log, chat, queue, seeds, more, sawOpen, seeded>>
    /\ UNCHANGED <<sendVars, told>>

----------------------------------------------------------------------------
(* Sends: a POST under the intent id, confirmed by its echo. *)

Send(i) ==
    /\ \A k \in DOMAIN log : log[k].intent # i
    /\ \A k \in DOMAIN chat.messages : chat.messages[k].intent # i
    /\ posts[i] = [sent |-> 0, orphan |-> 0, retry |-> 0, failed |-> 0]
    /\ chat' = BeginSend(i)
    /\ posts' = [posts EXCEPT ![i].sent = 1]
    /\ UNCHANGED <<daemonVars, queue, phase, pageVars, taps, faults, told>>

\* Mutant: a bubble whose request is still out is posted again.
RetryAnyState(i) ==
    /\ taps < MaxTaps
    /\ taps' = taps + 1
    /\ \E k \in DOMAIN chat.messages :
        chat.messages[k].intent = i
    /\ chat' = MarkSend(i, "sending")
    /\ posts' = [posts EXCEPT ![i].sent = @ + 1]
    /\ UNCHANGED <<daemonVars, queue, phase, pageVars, faults, told>>
\* retry: the tap on a bubble that failed.
Retry(i) ==
    /\ taps < MaxTaps
    /\ taps' = taps + 1
    /\ \E k \in DOMAIN chat.messages :
        chat.messages[k].intent = i /\ chat.messages[k].send \in {"retry", "failed"}
    /\ chat' = MarkSend(i, "sending")
    /\ posts' = [posts EXCEPT ![i].sent = @ + 1]
    /\ UNCHANGED <<daemonVars, queue, phase, pageVars, faults, told>>

\* message_handler, up to what becomes of its answer: ok needs nothing of the
\* client, an answer lost on the way is a failure without status or a 502,
\* a refusal (500, 400) a failure that is not retried.
Intake(i) ==
    \/ /\ i \in seen
       /\ UNCHANGED <<log, seen, wire, told>>
    \/ /\ i \notin seen
       /\ Persist([type |-> "user", intent |-> i])
       /\ seen' = seen \cup {i}

PostArrives(i) ==
    /\ posts[i].sent > 0
    /\ \/ /\ Intake(i)
          /\ posts' = [posts EXCEPT ![i].sent = @ - 1]
          /\ UNCHANGED faults
       \/ /\ Intake(i)
          /\ Fault
          /\ posts' = [posts EXCEPT ![i].sent = @ - 1, ![i].retry = @ + 1]
       \/ /\ Fault
          /\ \E failure \in {"retry", "failed"} :
              posts' = [posts EXCEPT ![i].sent = @ - 1, ![i][failure] = @ + 1]
          /\ UNCHANGED <<log, seen, wire, told>>
    /\ UNCHANGED <<live, chat, queue, phase, pageVars, taps>>

\* A request of a session that has been closed: nobody reads its outcome.
OrphanArrives(i) ==
    /\ posts[i].orphan > 0
    /\ posts' = [posts EXCEPT ![i].orphan = @ - 1]
    /\ \/ Intake(i) /\ UNCHANGED faults
       \/ Fault /\ UNCHANGED <<log, seen, wire, told>>
    /\ UNCHANGED <<live, chat, queue, phase, pageVars, taps>>

\* applyOutcome: a failure marks whatever bubble carries the intent.
PostFails(i) ==
    /\ \E failure \in {"retry", "failed"} :
        /\ posts[i][failure] > 0
        /\ posts' = [posts EXCEPT ![i][failure] = @ - 1]
        /\ chat' = MarkSend(i, failure)
    /\ UNCHANGED <<daemonVars, queue, phase, pageVars, taps, faults, told>>

----------------------------------------------------------------------------
(* The live socket and the pacing queue. *)

RetryableSends ==
    {i \in Intents : \E k \in DOMAIN chat.messages :
        chat.messages[k].intent = i /\ chat.messages[k].send = "retry"}

\* onStateChange("open"): the queue is emptied, the tail reseeded unless this
\* is the first open and the first seed has landed, parked sends posted again.
Open ==
    /\ phase = "down"
    /\ phase' = "open"
    /\ ClearSeedRetry
    /\ queue' = <<>>
    /\ seeds' = IF sawOpen \/ ~seeded THEN Append(seeds, Asked) ELSE seeds
    /\ sawOpen' = TRUE
    /\ chat' = [chat EXCEPT !.messages =
                    [k \in DOMAIN @ |-> IF @[k].send = "retry"
                                        THEN [@[k] EXCEPT !.send = "sending"]
                                        ELSE @[k]]]
    /\ posts' = [i \in Intents |-> IF i \in RetryableSends
                                   THEN [posts[i] EXCEPT !.sent = @ + 1]
                                   ELSE posts[i]]
    /\ told' = told \cup {wire[k] : k \in DOMAIN wire}
    /\ UNCHANGED <<daemonVars, more, seeded, taps, faults>>

\* drainQueue for a reply that came in: while another is being typed it only
\* queues; with pacing off (the preference, read here) it is committed at once.
Paced(state, id) ==
    \/ chat' = state /\ queue' = Append(queue, id)
    \/ queue = <<>> /\ CommitReplies(state, <<id>>) /\ UNCHANGED queue

\* foldLiveEvent: the echo of a pending send confirms it, a row that is shown
\* is dropped, a user row is appended, a reply goes to the queue.
FoldLiveEvent(id) ==
    LET added == [chat EXCEPT !.shownIds = @ \cup {id}]
    IN  \/ /\ log[id].intent \in chat.pendingIntents
           /\ chat' = Confirm(id)
           /\ UNCHANGED queue
        \/ /\ log[id].intent \notin chat.pendingIntents
           /\ id \in chat.shownIds
           /\ UNCHANGED <<chat, queue>>
        \/ /\ log[id].intent \notin chat.pendingIntents
           /\ id \notin chat.shownIds
           /\ log[id].type = "user"
           /\ chat' = [added EXCEPT !.messages = CapTail(Append(@, Event(id)))]
           /\ UNCHANGED queue
        \/ /\ id \notin chat.shownIds
           /\ log[id].type = "chat"
           /\ Paced(added, id)

\* onEvent
Receive ==
    /\ phase = "open" /\ wire # <<>>
    /\ wire' = Tail(wire)
    /\ FoldLiveEvent(Head(wire))
    /\ UNCHANGED <<log, seen, live, phase, pageVars, sendVars, faults, told>>

\* The typing timer: the head is committed; what is left is flushed when it is
\* too much or pacing is off, or waits its turn.
TypingDone ==
    /\ queue # <<>>
    /\ \/ /\ CommitReplies(chat, queue)
          /\ queue' = <<>>
       \/ /\ Len(Tail(queue)) <= FlushThreshold
          /\ CommitReplies(chat, <<Head(queue)>>)
          /\ queue' = Tail(queue)
    /\ UNCHANGED <<daemonVars, phase, pageVars, sendVars, faults, told>>

----------------------------------------------------------------------------
(* Seeds and older pages. *)

Drop(k) == SubSeq(seeds, 1, k - 1) \o SubSeq(seeds, k + 1, Len(seeds))

\* history_handler reads the store at some point between request and answer.
SeedReads(k) ==
    /\ seeds[k] = Asked
    /\ seeds' = [seeds EXCEPT ![k] = Len(log)]
    /\ told' = told \cup DOMAIN log
    /\ UNCHANGED <<daemonVars, chat, queue, phase, retries, held, more, sawOpen, seeded>>
    /\ UNCHANGED <<sendVars, faults>>

\* The rows held: shown, or waiting to be typed out.
Held == ShownRows \cup {queue[k] : k \in DOMAIN queue}

\* What page n leaves behind when it joins the older rows by a row that came in
\* live on the new connection, not by one held from before the gap: the rows
\* below it that are neither held nor within the cursor's reach.
Hole(n) ==
    IF Older(n) # <<>> /\ Overlaps(n)
    THEN {id \in 1..(PageFrom(n) - 1) : id \notin Held /\ id >= chat.cursor}
    ELSE {}

SeedLands(k) ==
    /\ seeds[k] # Asked
    /\ seeds' = Drop(k)
    /\ chat' = SeedTail(seeds[k])
    /\ seeded' = TRUE
    /\ told' = told \ Hole(seeds[k])
    /\ UNCHANGED <<daemonVars, queue, phase, retries, held, more, sawOpen>>
    /\ UNCHANGED <<sendVars, faults>>

SeedFails(k) ==
    /\ Fault
    /\ seeds' = Drop(k)
    /\ retries' = IF phase = "open" THEN retries + 1 ELSE retries
    /\ held' = (held \/ phase = "open")
    /\ UNCHANGED <<daemonVars, chat, queue, phase, more, sawOpen, seeded>>
    /\ UNCHANGED <<sendVars, told>>

SeedRetry ==
    /\ retries > 0
    /\ retries' = retries - 1 /\ held' = FALSE
    /\ seeds' = Append(seeds, Asked)
    /\ UNCHANGED <<daemonVars, chat, queue, phase, more, sawOpen, seeded>>
    /\ UNCHANGED <<sendVars, faults, told>>

LoadMore ==
    /\ more = 0 /\ chat.cursor # 0
    /\ more' = chat.cursor
    /\ UNCHANGED <<daemonVars, chat, queue, phase, seeds, retries, held, sawOpen, seeded>>
    /\ UNCHANGED <<sendVars, faults, told>>

\* The rows below a cursor never change: when the page is read does not matter.
MoreLands ==
    /\ more # 0
    /\ more' = 0
    /\ \/ chat' = PrependPage(more - 1) /\ told' = told \cup 1..(more - 1)
          /\ UNCHANGED faults
       \/ Fault /\ UNCHANGED <<chat, told>>
    /\ UNCHANGED <<daemonVars, queue, phase, seeds, retries, held, sawOpen, seeded>>
    /\ UNCHANGED sendVars

TrimHistory ==
    /\ more = 0
    /\ Len(chat.messages) > TrimKeep
    /\ KeptIds # {}
    /\ chat' = TrimTail
    /\ UNCHANGED <<daemonVars, queue, phase, pageVars, sendVars, faults, told>>

\* The session is closed and another created over the held ChatState: the
\* outcomes of what is in flight belong to the closed one.
Remount ==
    /\ Fault
    /\ queue' = <<>> /\ phase' = "down" /\ live' = FALSE /\ wire' = <<>>
    /\ sawOpen' = FALSE /\ seeded' = FALSE
    /\ seeds' = <<Asked>> /\ retries' = 0 /\ held' = FALSE /\ more' = 0
    /\ posts' = [i \in Intents |-> [sent |-> 0, retry |-> 0, failed |-> 0,
                     orphan |-> posts[i].orphan + posts[i].sent]]
    /\ UNCHANGED <<log, seen, chat, taps, told>>

----------------------------------------------------------------------------
\* Paging is out of step with the rows held:
\* a row that is held lies below the cursor (a page that landed late, or the
\* first page landing under more live rows than it has itself),
RowBelowCursor == \E id \in Held : id < chat.cursor

\* the cursor is null over rows that are not the oldest (a tail first loaded
\* while it was empty takes a page and keeps its null cursor),
CursorLost ==
    chat.historyLoaded /\ chat.cursor = 0 /\ Held # {} /\ 1 \notin Held

\* an older page is on its way for a cursor that a reseed has moved,
LoadOvertaken == more # 0 /\ more # chat.cursor

\* the tail was trimmed before its first page came,
TrimmedUnloaded == ~chat.historyLoaded /\ chat.cursor # 0

\* the rows are at the limit above which the oldest are dropped for good,
CapReached == Len(chat.messages) >= MaxMessages

\* or a send still waits for an echo that the newest page no longer reaches.
EchoOutrun == \E id \in DOMAIN log :
    id < chat.cursor /\ log[id].intent \in chat.pendingIntents

OutOfStep ==
    \/ RowBelowCursor \/ CursorLost \/ LoadOvertaken \/ TrimmedUnloaded
    \/ CapReached \/ EchoOutrun

Step ==
    \/ AgentReply
    \/ OtherSend
    \/ Subscribe
    \/ SocketLost
    \/ DaemonRestart
    \/ \E i \in Intents : Send(i)
    \/ \E i \in Intents : Retry(i)
    \/ \E i \in Intents : PostArrives(i)
    \/ \E i \in Intents : OrphanArrives(i)
    \/ \E i \in Intents : PostFails(i)
    \/ Open
    \/ Receive
    \/ TypingDone
    \/ \E k \in DOMAIN seeds : SeedReads(k)
    \/ \E k \in DOMAIN seeds : SeedLands(k)
    \/ \E k \in DOMAIN seeds : SeedFails(k)
    \/ SeedRetry
    \/ LoadMore
    \/ MoreLands
    \/ TrimHistory
    \/ Remount

\* A trim that drops more than what lies below the rows it keeps: a bubble that
\* was overtaken, or one of two rows out of id order (a later row came in while
\* a reply was typed out).
TornByTrim ==
    /\ TrimHistory
    /\ \E k \in 1..(Len(chat.messages) - TrimKeep) :
        chat.messages[k].id = 0 \/ chat.messages[k].id > OldestKept

Note == crossed' = (crossed \/ OutOfStep' \/ TornByTrim)

Next == Step /\ Note

Spec == Init /\ [][Next]_vars

----------------------------------------------------------------------------
\* Types.  A send is posted again only after its last post has failed, so one
\* request of it is in flight at most, beside those of closed sessions.
TypeOK ==
    /\ log \in Seq(Entry) /\ Len(log) <= MaxLog
    /\ seen \subseteq Intents /\ live \in BOOLEAN
    /\ wire \in Seq(Ids) /\ queue \in Seq(Ids)
    /\ chat \in ChatState
    /\ phase \in {"down", "open"} /\ sawOpen \in BOOLEAN /\ seeded \in BOOLEAN
    /\ seeds \in Seq(0..Asked) /\ retries \in Nat /\ held \in BOOLEAN /\ more \in 0..MaxLog
    /\ posts \in [Intents -> [sent : 0..1, orphan : 0..MaxFaults,
                              retry : 0..1, failed : 0..1]]
    /\ \A i \in Intents : posts[i].sent + posts[i].retry + posts[i].failed <= 1
    /\ taps \in 0..MaxTaps /\ faults \in 0..MaxFaults
    /\ told \subseteq Ids /\ crossed \in BOOLEAN

\* No message is shown twice: neither a row with its twin from a page, nor a
\* bubble that waits for its echo beside that echo, however live events, seeds
\* and older pages cross, as long as paging keeps in step.
NoDuplicateRow ==
    ~crossed => \A j, k \in DOMAIN chat.messages :
        LET a == chat.messages[j]
            b == chat.messages[k]
        IN  /\ a.id = b.id /\ a.id # 0 => j = k
            /\ a.intent = b.intent /\ a.intent # NoIntent /\ a.id = 0 => j = k

\* What the user can get at: shown, or below the cursor of the next older page.
Reachable(id) == id \in ShownRows \/ id < chat.cursor

\* Nothing is under way.
Rest ==
    /\ phase = "open" /\ live /\ wire = <<>> /\ queue = <<>>
    /\ seeds = <<>> /\ retries = 0

\* The rows a reconnect does not heal: stored after the last page was read for
\* this client and before the daemon subscribed it (the gateway opens the client's
\* socket first, and a first open may skip the reseed), sent on a connection that
\* was lost before the client ever saw one open, or left in a hole.
Missed == DOMAIN log \ told

\* At rest the conversation is complete but for these: what was queued when the
\* socket dropped, trimmed, or dropped for a newer page is shown or can be paged
\* to, as long as paging keeps in step.
ToldIsReachable ==
    Rest /\ ~crossed => \A id \in DOMAIN log : Reachable(id) \/ id \in Missed

\* No step takes a row away that loadMore would not bring back, but a trim those
\* newer than the oldest row it keeps: where rows stood out of id order, it drops
\* rows that paging from its cursor skips.
NothingVanishes ==
    [][~crossed /\ ~OutOfStep' =>
        \A id \in ShownRows : Reachable(id)' \/ (TrimHistory /\ id > OldestKept)]_vars

=============================================================================
