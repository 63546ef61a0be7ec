----------------------------- MODULE SyncFeed -----------------------------
(***************************************************************************)
(* How what an agent has pending reaches a client's screen: the agent's    *)
(* event bus and WebSocket (agent/core/events.py, api.py), vestad's poll   *)
(* loop and tap of every running agent (vestad/src/agent_status.rs), the   *)
(* pending projection of the SyncHub, one /sync session (vestad/src/sync)  *)
(* and the client's replica (apps/core/src/replica).                       *)
(*                                                                         *)
(* Every link is a cache of the one before it, filled by a snapshot and    *)
(* kept by deltas.  A pending list is modelled as the set of its ids, the  *)
(* roster row of an agent as its status, the gateway branch as a number    *)
(* that changes.                                                           *)
(***************************************************************************)
EXTENDS Naturals, Sequences, FiniteSets, SequencesExt

CONSTANTS
    Agents,
    Steady,      \* agents that run throughout; users stop, delete, create the rest
    Ids,         \* notification ids (file stems)
    Malformed,   \* ids of files that do not parse
    SubMax,      \* SUBSCRIBER_QUEUE_MAXSIZE
    WireMax,     \* bound: unread frames at which the socket makes a send wait
    MaxChanges,  \* bound: files written, containers changed, gateway changes
    MaxFaults    \* bound: agent restarts, tap and /sync connections lost

ASSUME AgentsAssumption == Steady \subseteq Agents /\ IsFiniteSet(Agents)
ASSUME MalformedAssumption == Malformed \subseteq Ids
ASSUME BoundsAssumption ==
    /\ SubMax \in Nat \ {0} /\ WireMax \in Nat \ {0}
    /\ MaxChanges \in Nat /\ MaxFaults \in Nat

VARIABLES
    container,   \* what docker would say of each agent
    disk, told,  \* notification files; the ones announced by this process
    \* the tap of each agent
    tap, sub, snap,
    hub,         \* SyncHub.agents: agent -> pending ids, for known agents
    agents,      \* AgentStatusCache.agents: agent -> status, as last polled
    gateway,
    \* one /sync session
    sess, bumped, lastRoster, lastGateway, lastPending, wire,
    tree,        \* the client's replica
    changes, faults

agentVars   == <<container, disk, told>>
tapVars     == <<tap, sub, snap>>
sessionVars == <<sess, lastRoster, lastGateway, lastPending>>
clientVars  == <<wire, tree>>
vars == <<agentVars, tapVars, hub, agents, gateway, sessionVars, bumped,
          clientVars, changes, faults>>

Statuses == {"stopped", "starting", "alive"}
Partial(S, T) == UNION {[D -> T] : D \in SUBSET S}
Event  == [kind : {"added", "cleared"}, id : Ids] \cup {[kind |-> "evicted"]}
Node   == [info : Statuses, pending : SUBSET Ids]
Tree   == [gateway : 0 .. MaxChanges, agents : Partial(Agents, Node)]
NoTree == [gateway |-> 0, agents |-> <<>>]
Frame  == [type : {"snapshot"}, tree : Tree]
     \cup [type : {"state"}, value : 0 .. MaxChanges]
     \cup [type : {"agent"}, name : Agents, info : Statuses]
     \cup [type : {"agent_removed"}, name : Agents]
     \cup [type : {"agent_notifications"}, name : Agents, pending : SUBSET Ids]

Put(f, k, v)  == [x \in DOMAIN f \cup {k} |-> IF x = k THEN v ELSE f[x]]
Drop(f, S)    == [x \in DOMAIN f \ S |-> f[x]]
At(f, k)      == IF k \in DOMAIN f THEN f[k] ELSE {}
Change == changes < MaxChanges /\ changes' = changes + 1
Fault  == faults < MaxFaults /\ faults' = faults + 1

----------------------------------------------------------------------------
(* The agent: its files, its event bus, its life.                           *)

Running(a) == container[a] = "running"
Subscribed(a) == tap[a] \in {"seeding", "sent", "live"}

\* Mutant: the queue has no limit.
OfferUnbounded(q, e) == Append(q, e)
\* Mutant: an event for a full queue is dropped and nobody is told.
OfferDropping(q, e) == IF Len(q) < SubMax THEN Append(q, e) ELSE q
\* _offer: a full queue is replaced by the eviction sentinel.
Offer(q, e) == IF Len(q) < SubMax THEN Append(q, e) ELSE <<[kind |-> "evicted"]>>
Evicted(q)  == q # <<>> /\ q[1].kind = "evicted"

\* EventBus.emit, as the tap's subscription sees it.
Emit(a, e) == sub' = IF Subscribed(a) /\ ~Evicted(sub[a])
                     THEN [sub EXCEPT ![a] = Offer(@, e)] ELSE sub

\* A producer renames a notification file into place; no event yet.
Arrive(a, x) ==
    /\ Running(a) /\ x \notin disk[a] /\ Change
    /\ disk' = [disk EXCEPT ![a] = @ \cup {x}]
    /\ UNCHANGED <<container, told, tapVars, hub, agents, gateway, sessionVars,
                   bumped, clientVars, faults>>

\* The monitor routes the file and emits its notification event.
Announce(a, x) ==
    /\ Running(a) /\ x \in disk[a] \ (told[a] \cup Malformed)
    /\ told' = [told EXCEPT ![a] = @ \cup {x}]
    /\ Emit(a, [kind |-> "added", id |-> x])
    /\ UNCHANGED <<container, disk, tap, snap, hub, agents, gateway, sessionVars,
                   bumped, clientVars, changes, faults>>

\* clear_notifications: unlink and emit notification_cleared.
ClearFile(a, x) ==
    /\ Running(a) /\ x \in told[a]
    /\ disk' = [disk EXCEPT ![a] = @ \ {x}]
    /\ told' = [told EXCEPT ![a] = @ \ {x}]
    /\ Emit(a, [kind |-> "cleared", id |-> x])
    /\ UNCHANGED <<container, tap, snap, hub, agents, gateway, sessionVars,
                   bumped, clientVars, changes, faults>>

\* load_notifications: a file that does not parse is unlinked, without an event.
UnlinkUnparsed(a, x) ==
    /\ Running(a) /\ x \in disk[a] \cap Malformed
    /\ disk' = [disk EXCEPT ![a] = @ \ {x}]
    /\ UNCHANGED <<container, told, tapVars, hub, agents, gateway, sessionVars,
                   bumped, clientVars, changes, faults>>

\* The peer of the tap is gone; bytes already received can still be read.
PeerGone(a) == CASE tap[a] = "live" -> "broken"
                 [] tap[a] \in {"seeding", "sent"} -> "dialing"
                 [] OTHER -> tap[a]

\* The agent process restarts: a new bus, nothing announced yet.
AgentRestart(a) ==
    /\ Running(a) /\ Fault
    /\ told' = [told EXCEPT ![a] = {}]
    /\ tap' = [tap EXCEPT ![a] = PeerGone(a)]
    /\ UNCHANGED <<container, disk, sub, snap, hub, agents, gateway, sessionVars,
                   bumped, clientVars, changes>>

\* Docker, at a user's request: create or start, stop, delete.
Container(a, s) ==
    /\ a \notin Steady /\ s # container[a] /\ Change
    /\ container' = [container EXCEPT ![a] = s]
    /\ disk' = [disk EXCEPT ![a] = IF s = "gone" THEN {} ELSE @]
    /\ told' = [told EXCEPT ![a] = {}]
    /\ tap' = [tap EXCEPT ![a] = PeerGone(a)]
    /\ UNCHANGED <<sub, snap, hub, agents, gateway, sessionVars, bumped,
                   clientVars, faults>>

----------------------------------------------------------------------------
(* vestad: the hub, the taps and the poll loop.                             *)

\* bump_notifications, as the session's watch receiver sees it.
Bump(changed) == bumped' = (bumped \/ (changed /\ sess # "down"))

\* PendingNotifications::apply on the entry of the agent, made when missing.
Applied(h, a, e) ==
    Put(h, a, IF e.kind = "added" THEN At(h, a) \cup {e.id} ELSE At(h, a) \ {e.id})

\* agent_event_listener: the dial succeeds; _ws_handler subscribes to the bus.
TapConnect(a) ==
    /\ tap[a] = "dialing" /\ Running(a)
    /\ tap' = [tap EXCEPT ![a] = "seeding"]
    /\ sub' = [sub EXCEPT ![a] = <<>>]
    /\ UNCHANGED <<agentVars, snap, hub, agents, gateway, sessionVars, bumped,
                   clientVars, changes, faults>>

\* _ws_handler: the directory is listed off the loop, after the subscribe.
TapSnapshot(a) ==
    /\ tap[a] = "seeding"
    /\ tap' = [tap EXCEPT ![a] = "sent"]
    /\ snap' = [snap EXCEPT ![a] = disk[a]]
    /\ UNCHANGED <<agentVars, sub, hub, agents, gateway, sessionVars, bumped,
                   clientVars, changes, faults>>

\* Mutant: a reseed adds the listed ids and keeps the ones no longer listed.
SeededMerging(h, a, ids) == Put(h, a, At(h, a) \cup ids)
\* PendingNotifications::seed: membership becomes exactly ids.
Seeded(h, a, ids) == Put(h, a, ids)

\* The listener reads the snapshot and reseeds the projection; the listing's
\* order alone can make the rendered list differ.
TapSeed(a) ==
    /\ tap[a] = "sent"
    /\ tap' = [tap EXCEPT ![a] = "live"]
    /\ snap' = [snap EXCEPT ![a] = {}]
    /\ hub' = Seeded(hub, a, snap[a])
    /\ \E reordered \in BOOLEAN : Bump(reordered \/ At(hub, a) # At(hub', a))
    /\ UNCHANGED <<agentVars, sub, agents, gateway, sessionVars, clientVars,
                   changes, faults>>

\* The listener reads a live event; an added one always renders differently
\* (a stub becomes the full event).
TapApply(a) ==
    /\ tap[a] \in {"live", "broken"} /\ sub[a] # <<>> /\ ~Evicted(sub[a])
    /\ sub' = [sub EXCEPT ![a] = Tail(@)]
    /\ hub' = Applied(hub, a, Head(sub[a]))
    /\ Bump(Head(sub[a]).kind = "added" \/ At(hub, a) # At(hub', a))
    /\ UNCHANGED <<agentVars, tap, snap, agents, gateway, sessionVars, clientVars,
                   changes, faults>>

\* The connection ends (closed by the peer, by the eviction or by the network).
TapLost(a) ==
    /\ \/ tap[a] = "broken" /\ UNCHANGED faults
       \/ tap[a] = "live" /\ Evicted(sub[a]) /\ UNCHANGED faults
       \/ Subscribed(a) /\ Fault
    /\ tap' = [tap EXCEPT ![a] = "dialing"]
    /\ sub' = [sub EXCEPT ![a] = <<>>]
    /\ snap' = [snap EXCEPT ![a] = {}]
    /\ UNCHANGED <<agentVars, hub, agents, gateway, sessionVars, bumped,
                   clientVars, changes>>

\* combined_status: a running container is starting until its tap is connected.
StatusOf(a) == IF ~Running(a) THEN "stopped"
               ELSE IF tap[a] \in {"none", "dialing"} THEN "starting" ELSE "alive"

\* One round of the poll loop, docker having answered it (a failed listing, or a
\* port not read yet, would make it take running agents for gone until the next
\* round): publish the roster, abort the taps of agents
\* no longer running and forget their pending, open taps to the new ones.  An
\* aborted listener that is already past its read (late) still applies it.
Poll ==
    LET listed  == {a \in Agents : container[a] # "gone"}
        now     == [a \in listed |-> StatusOf(a)]
        aborted == {a \in Agents : tap[a] # "none" /\ ~Running(a)}
        opened  == {a \in Agents : tap[a] = "none" /\ Running(a)}
        reading == {a \in aborted : tap[a] = "broken" /\ sub[a] # <<>> /\ ~Evicted(sub[a])}
        kept    == Drop(hub, aborted)
    IN  /\ now # agents \/ aborted # {} \/ opened # {}
        /\ agents' = now
        /\ tap' = [a \in Agents |-> CASE a \in aborted -> "none"
                                      [] a \in opened -> "dialing"
                                      [] OTHER -> tap[a]]
        /\ sub' = [a \in Agents |-> IF a \in aborted THEN <<>> ELSE sub[a]]
        /\ snap' = [a \in Agents |-> IF a \in aborted THEN {} ELSE snap[a]]
        /\ \/ hub' = kept
           \/ \E a \in reading : hub' = Applied(kept, a, Head(sub[a]))
        /\ Bump(hub' # hub)
        /\ UNCHANGED <<agentVars, gateway, sessionVars, clientVars, changes, faults>>

\* A setting, the tunnel, the update check or the operation slot changes.
GatewayChange ==
    /\ Change /\ gateway' = gateway + 1
    /\ UNCHANGED <<agentVars, tapVars, hub, agents, sessionVars, bumped,
                   clientVars, faults>>

----------------------------------------------------------------------------
(* One /sync session and its client.                                        *)

\* sync_session: hello, subscribe, read the roster (the gateway comes after an await).
Subscribe ==
    /\ sess = "down"
    /\ sess' = "subscribed"
    /\ bumped' = FALSE
    /\ lastRoster' = agents
    /\ UNCHANGED <<agentVars, tapVars, hub, agents, gateway, lastGateway,
                   lastPending, clientVars, changes, faults>>

\* build_tree
BuildTree(g, roster, pending) ==
    [gateway |-> g,
     agents |-> [a \in DOMAIN roster |-> [info |-> roster[a], pending |-> At(pending, a)]]]

SendSnapshot ==
    /\ sess = "subscribed"
    /\ sess' = "ready"
    /\ lastGateway' = gateway
    /\ lastPending' = hub
    /\ wire' = <<[type |-> "snapshot", tree |-> BuildTree(gateway, lastRoster, hub)]>>
    /\ UNCHANGED <<agentVars, tapVars, hub, agents, gateway, bumped, lastRoster,
                   tree, changes, faults>>

\* The loop is at its select, not suspended in a send.
Writable == sess = "ready" /\ Len(wire) < WireMax

\* Mutant: a row that left the roster is not announced.
RosterDeltasNoRemoval(last, now) ==
    LET upserts == {a \in DOMAIN now : a \notin DOMAIN last \/ last[a] # now[a]}
    IN  SetToSeq({[type |-> "agent", name |-> a, info |-> now[a]] : a \in upserts})
\* roster_deltas: upserts, then removals.
RosterDeltas(last, now) ==
    LET upserts == {a \in DOMAIN now : a \notin DOMAIN last \/ last[a] # now[a]}
        removed == DOMAIN last \ DOMAIN now
    IN  SetToSeq({[type |-> "agent", name |-> a, info |-> now[a]] : a \in upserts})
        \o SetToSeq({[type |-> "agent_removed", name |-> a] : a \in removed})

\* emit_roster_and_gateway, on a roster wake or the keepalive: the roster's
\* deltas, then the gateway branch.  Nothing is sent when nothing changed.
EmitRoster ==
    /\ Writable /\ (agents # lastRoster \/ gateway # lastGateway)
    /\ lastRoster' = agents
    /\ lastGateway' = gateway
    /\ wire' = wire \o RosterDeltas(lastRoster, agents)
                    \o (IF gateway = lastGateway THEN <<>>
                        ELSE <<[type |-> "state", value |-> gateway]>>)
    /\ UNCHANGED <<agentVars, tapVars, hub, agents, gateway, sess, bumped,
                   lastPending, tree, changes, faults>>

\* emit_notifications: agents absent from the last-sent roster are skipped
\* and left unrecorded.
EmitNotifications ==
    LET shown == DOMAIN hub \cap DOMAIN lastRoster
        fresh == {a \in shown : a \notin DOMAIN lastPending \/ lastPending[a] # hub[a]}
    IN  /\ Writable /\ bumped
        /\ bumped' = FALSE
        /\ lastPending' = [a \in shown |-> hub[a]]
        /\ wire' = wire \o SetToSeq({[type |-> "agent_notifications", name |-> a,
                                     pending |-> hub[a]] : a \in fresh})
        /\ UNCHANGED <<agentVars, tapVars, hub, agents, gateway, sess, lastRoster,
                       lastGateway, tree, changes, faults>>

\* The socket dies, is closed at the token deadline or by a failed reauth;
\* the client keeps its tree and reconnects.
Disconnect ==
    /\ sess # "down" /\ Fault
    /\ sess' = "down" /\ bumped' = FALSE
    /\ lastRoster' = <<>> /\ lastGateway' = 0 /\ lastPending' = <<>>
    /\ wire' = <<>>
    /\ UNCHANGED <<agentVars, tapVars, hub, agents, gateway, tree, changes>>

\* Mutant: an agent upsert starts its node over, without its notifications.
UpsertFresh(nodes, a, info) == Put(nodes, a, [info |-> info, pending |-> {}])
\* The "agent" case of reduceDelta keeps the notifications of a known node.
Upsert(nodes, a, info) ==
    Put(nodes, a, [info |-> info,
                   pending |-> IF a \in DOMAIN nodes THEN nodes[a].pending ELSE {}])

\* applySnapshot and reduceDelta
Reduce(t, f) ==
    CASE f.type = "snapshot" -> f.tree
      [] f.type = "state" -> [t EXCEPT !.gateway = f.value]
      [] f.type = "agent" -> [t EXCEPT !.agents = Upsert(@, f.name, f.info)]
      [] f.type = "agent_removed" -> [t EXCEPT !.agents = Drop(@, {f.name})]
      [] f.type = "agent_notifications" ->
            IF f.name \in DOMAIN t.agents
            THEN [t EXCEPT !.agents[f.name].pending = f.pending] ELSE t

Receive ==
    /\ wire # <<>>
    /\ tree' = Reduce(tree, Head(wire))
    /\ wire' = Tail(wire)
    /\ UNCHANGED <<agentVars, tapVars, hub, agents, gateway, sessionVars, bumped,
                   changes, faults>>

----------------------------------------------------------------------------
Init ==
    /\ container \in [Agents -> {"gone", "stopped", "running"}]
    /\ \A a \in Agents : (a \in Steady) = (container[a] = "running")
    /\ disk = [a \in Agents |-> {}] /\ told = [a \in Agents |-> {}]
    /\ tap = [a \in Agents |-> IF a \in Steady THEN "dialing" ELSE "none"]
    /\ sub = [a \in Agents |-> <<>>] /\ snap = [a \in Agents |-> {}]
    /\ hub = <<>>
    /\ agents = [a \in {b \in Agents : container[b] # "gone"} |->
                    IF a \in Steady THEN "starting" ELSE "stopped"]
    /\ gateway = 0
    /\ sess = "down" /\ bumped = FALSE
    /\ lastRoster = <<>> /\ lastGateway = 0 /\ lastPending = <<>>
    /\ wire = <<>> /\ tree = NoTree
    /\ changes = 0 /\ faults = 0

Agent == \E a \in Agents : \/ \E x \in Ids : \/ Arrive(a, x) \/ Announce(a, x)
                                             \/ ClearFile(a, x) \/ UnlinkUnparsed(a, x)
                          \/ AgentRestart(a)
                          \/ \E s \in {"gone", "stopped", "running"} : Container(a, s)
Gateway == \/ \E a \in Agents : \/ TapConnect(a) \/ TapSnapshot(a) \/ TapSeed(a)
                               \/ TapApply(a) \/ TapLost(a)
           \/ Poll \/ GatewayChange
Session == Subscribe \/ SendSnapshot \/ EmitRoster \/ EmitNotifications
           \/ Disconnect \/ Receive
Next == Agent \/ Gateway \/ Session
Spec == Init /\ [][Next]_vars

\* The poll loop and the keepalive run on timers, the taps redial, the client
\* reconnects, the monitor ticks; a queued frame or event is read.
Fairness ==
    /\ \A a \in Agents :
        /\ WF_vars(TapConnect(a)) /\ WF_vars(TapSnapshot(a)) /\ WF_vars(TapSeed(a))
        /\ WF_vars(TapApply(a)) /\ WF_vars(tap[a] = "broken" /\ TapLost(a))
        /\ WF_vars(Evicted(sub[a]) /\ tap[a] = "live" /\ TapLost(a))
        /\ \A x \in Ids : WF_vars(Announce(a, x)) /\ WF_vars(UnlinkUnparsed(a, x))
    /\ WF_vars(Poll)
    /\ WF_vars(Subscribe) /\ WF_vars(SendSnapshot) /\ WF_vars(EmitRoster)
    /\ WF_vars(EmitNotifications) /\ WF_vars(Receive)
FairSpec == Spec /\ Fairness

----------------------------------------------------------------------------
(* Properties.                                                              *)

\* The variables have their types; a subscriber queue never exceeds its limit.
TypeOK ==
    /\ container \in [Agents -> {"gone", "stopped", "running"}]
    /\ disk \in [Agents -> SUBSET Ids] /\ told \in [Agents -> SUBSET Ids]
    /\ tap \in [Agents -> {"none", "dialing", "seeding", "sent", "live", "broken"}]
    /\ \A a \in Agents : sub[a] \in Seq(Event) /\ Len(sub[a]) <= SubMax
    /\ snap \in [Agents -> SUBSET Ids]
    /\ hub \in Partial(Agents, SUBSET Ids)
    /\ agents \in Partial(Agents, Statuses)
    /\ sess \in {"down", "subscribed", "ready"} /\ bumped \in BOOLEAN
    /\ lastRoster \in Partial(Agents, Statuses)
    /\ lastPending \in Partial(Agents, SUBSET Ids)
    /\ {gateway, lastGateway, changes} \subseteq 0 .. MaxChanges
    /\ wire \in Seq(Frame) /\ tree \in Tree /\ faults \in 0 .. MaxFaults

\* What the client will show once it has read the frames under way.
Incoming ==
    LET read[i \in 0 .. Len(wire)] ==
            IF i = 0 THEN tree ELSE Reduce(read[i - 1], wire[i])
    IN  read[Len(wire)]

\* The session's diff base and the client never drift apart: once the frames
\* under way are read, the client's rows and gateway branch are exactly the
\* last-sent ones, whatever was added, changed or removed meanwhile.
ReplicaMirrorsSent ==
    sess = "ready" =>
        /\ Incoming.gateway = lastGateway
        /\ [a \in DOMAIN Incoming.agents |-> Incoming.agents[a].info] = lastRoster

\* A live tap with nothing left to read holds everything the agent announced
\* and nothing it cleared: the subscribe-before-listing order, the reseed and
\* the eviction leave no gap, and no ghost but of a file that did not parse: a
\* listing has it and no event takes it back.
HubTracksAgent ==
    \A a \in Agents : tap[a] = "live" /\ sub[a] = <<>> =>
        a \in DOMAIN hub /\ told[a] \subseteq hub[a] /\ hub[a] \ Malformed \subseteq disk[a]

\* Nothing is under way between the hub and the client.
Settled == sess = "ready" /\ ~bumped /\ wire = <<>> /\ lastRoster = agents

\* With nothing under way, the client shows of an agent that runs throughout
\* exactly the pending set of the hub: no wake is lost between the snapshot
\* and the deltas, and a status change does not disturb the notifications.
SteadyAgree ==
    Settled => \A a \in Steady :
        a \in DOMAIN tree.agents /\ tree.agents[a].pending = At(hub, a)

\* Once agents, taps and connections are left alone, the client shows of every
\* steady agent the parseable files on its disk and none that is gone (but
\* possibly an unparseable one), and exactly the agents there are.
EventuallyShown ==
    <>[](/\ \A a \in Steady :
               /\ a \in DOMAIN tree.agents
               /\ tree.agents[a].pending \ Malformed = disk[a] \ Malformed
         /\ DOMAIN tree.agents = {a \in Agents : container[a] # "gone"}
         /\ tree.gateway = gateway)
=============================================================================
