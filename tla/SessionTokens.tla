--------------------------- MODULE SessionTokens ---------------------------
(***************************************************************************)
(* A login of the mobile app to a gateway and the tokens that keep it:     *)
(* the refresh of @vesta/core (session.ts) over the app's two copies of    *)
(* the connection (memory and secure store, SessionProvider.tsx), the      *)
(* background task that refreshes from the store while the app sleeps      *)
(* (background-report.ts), and the gateway's rotation of refresh tokens    *)
(* with its one-step retry grace (auth.rs).                                *)
(*                                                                         *)
(* Refresh tokens of a login are numbered in the order they are minted.    *)
(* Time is a count of access-token lifetimes: a token granted in an        *)
(* earlier one is expiring.                                                *)
(***************************************************************************)
EXTENDS Naturals, FiniteSets

CONSTANTS
    Gateways,   \* the gateways the user signs in to
    MaxLogins,  \* bound: sign-ins
    MaxHours,   \* bound: access-token lifetimes
    MaxFaults   \* bound: lost requests and answers, failed writes, kills

ASSUME TokensAssumption ==
    /\ Gateways # {} /\ MaxLogins \in Nat \ {0}
    /\ MaxHours \in Nat /\ MaxFaults \in Nat

Logins == 1..MaxLogins

VARIABLES
    families,  \* gateway: the refresh-token family of each login
    logins,    \* sign-ins so far
    memory,    \* app: connectionStore
    disk,      \* app: the connection in SecureStore
    clearing,  \* app: clears of the store issued and not settled
    refresh,   \* app: the refresh in flight (inFlight)
    connect,   \* app: the sign-in in flight
    task,      \* the background report under way
    adoption,  \* app: the adoption of stored tokens under way
    front,     \* the app is in the foreground
    hour,      \* now
    faults,    \* faults so far
    byTask,    \* history: refreshes of each login the gateway made for the task
    overlapped,\* history: a login began or ended under a call in flight
    leftover   \* history: the store could not be cleared, or be read at launch

vars == <<families, logins, memory, disk, clearing, refresh, connect, task,
          adoption, front, hour, faults, byTask, overlapped, leftover>>

----------------------------------------------------------------------------
\* A ConnectionConfig; born is when its access token was granted.
Token == [login : Logins, jti : Nat \ {0}, born : 0..MaxHours]
None == [login |-> 0, jti |-> 0, born |-> 0]

\* A RefreshFamily; live is 0 once it is revoked.
Family == [gateway : Gateways, live : Nat, prev : Nat]
Registered(g) == [gateway |-> g, live |-> 1, prev |-> 0]
Revoke(f) == [f EXCEPT !.live = 0, !.prev = 0]
Revoked(l) == l \in 1..logins /\ families[l].live = 0

Idle == [stage |-> "idle", token |-> None]
Stages == {"idle", "read", "sent", "granted", "denied", "stored"}
Call == [stage : Stages, token : Token \cup {None}]

\* The adoption holds the token it found in memory, then the stored one too.
NoAdoption == [stage |-> "idle", current |-> None, stored |-> None]

\* isTokenExpiringSoon
Expiring(token) == token # None /\ token.born < hour

\* Mutant: a superseded token is a replay even when it is the last one.
RotateNoGrace(token) ==
    LET f == families[token.login]
    IN  IF f.live = token.jti
        THEN [f EXCEPT !.prev = f.live, !.live = f.live + 1]
        ELSE Revoke(f)
\* rotate: the live token advances the family, the one before it is a retry
\* and changes nothing, any other revokes the family.
Rotate(token) ==
    LET f == families[token.login]
    IN  CASE f.live = token.jti -> [f EXCEPT !.prev = f.live, !.live = f.live + 1]
          [] f.live # token.jti /\ f.prev = token.jti -> f
          [] OTHER -> Revoke(f)

Rotated(token) == [families EXCEPT ![token.login] = Rotate(token)]

\* refresh_session_handler and what refreshConnection makes of the answer.
Grant(token) ==
    IF Rotate(token).live = 0
    THEN [stage |-> "denied", token |-> token]
    ELSE [stage |-> "granted",
          token |-> [login |-> token.login, jti |-> Rotate(token).live,
                     born |-> hour]]

\* Not changesGateway: the same gateway, whatever the login.
SameGateway(a, b) ==
    a # None /\ b # None /\ families[a.login].gateway = families[b.login].gateway

----------------------------------------------------------------------------
Init ==
    /\ \E g \in Gateways : families = [l \in Logins |-> Registered(g)]
    /\ logins = 1
    /\ memory = [login |-> 1, jti |-> 1, born |-> 0] /\ disk = memory
    /\ clearing = 0
    /\ refresh = Idle /\ connect = Idle /\ task = Idle /\ adoption = NoAdoption
    /\ front = TRUE /\ hour = 0 /\ faults = 0
    /\ byTask = [l \in Logins |-> 0] /\ overlapped = FALSE /\ leftover = FALSE

Fault == faults < MaxFaults /\ faults' = faults + 1

gatewayVars == <<families, logins, byTask>>
clockVars == <<hour, front>>
clearVars == <<clearing, leftover>>

\* Requests and storage calls end well within the life of an access token.
HourPasses ==
    /\ refresh = Idle /\ connect = Idle /\ task = Idle /\ adoption = NoAdoption
    /\ clearing = 0 /\ hour < MaxHours
    /\ hour' = hour + 1
    /\ UNCHANGED <<gatewayVars, memory, disk, refresh, connect, task, adoption,
                   front, clearVars, faults>>

----------------------------------------------------------------------------
(* The app's refresh: ensureFresh shares the one in flight. *)

\* Mutant: a refresh does not look whether there is a connection.
RefreshStartsUnsigned ==
    /\ front /\ refresh = Idle /\ (memory = None \/ Expiring(memory))
    /\ refresh' = [stage |-> "sent", token |-> memory]
    /\ UNCHANGED <<gatewayVars, memory, disk, connect, task, adoption,
                   clockVars, clearVars, faults>>
\* ensureFresh and refresh up to the request.
RefreshStarts ==
    /\ front /\ refresh = Idle /\ Expiring(memory)
    /\ refresh' = [stage |-> "sent", token |-> memory]
    /\ UNCHANGED <<gatewayVars, memory, disk, connect, task, adoption,
                   clockVars, clearVars, faults>>

\* The request, or its answer, may be lost: the caller sees "transient".
RefreshAnswered ==
    /\ refresh.stage = "sent"
    /\ \/ /\ families' = Rotated(refresh.token)
          /\ refresh' = Grant(refresh.token)
          /\ UNCHANGED faults
       \/ /\ Fault
          /\ refresh' = Idle
          /\ families' \in {families, Rotated(refresh.token)}
    /\ UNCHANGED <<logins, byTask, memory, disk, connect, task, adoption,
                   clockVars, clearVars>>

\* disconnect up to its await: the memory is cleared, the store's clear issued.
Disconnect ==
    /\ memory' = None
    /\ clearing' = clearing + 1
    /\ UNCHANGED <<disk, leftover>>

\* onExpired: disconnect, whatever connection the app holds by now.
RefreshDenied ==
    /\ refresh.stage = "denied"
    /\ refresh' = Idle
    /\ Disconnect
    /\ UNCHANGED <<gatewayVars, connect, task, adoption, clockVars, faults>>

\* commitConnection up to its await: the store.  A rotation that cannot be
\* stored is dropped.
RefreshStores ==
    /\ refresh.stage = "granted"
    /\ \/ /\ refresh' = [refresh EXCEPT !.stage = "stored"]
          /\ disk' = refresh.token
          /\ UNCHANGED faults
       \/ Fault /\ refresh' = Idle /\ UNCHANGED disk
    /\ UNCHANGED <<gatewayVars, memory, connect, task, adoption, clockVars,
                   clearVars>>

\* The rest of commitConnection: the memory.
RefreshCommits ==
    /\ refresh.stage = "stored"
    /\ refresh' = Idle
    /\ memory' = refresh.token
    /\ UNCHANGED <<gatewayVars, disk, connect, task, adoption, clockVars,
                   clearVars, faults>>

----------------------------------------------------------------------------
(* The user signs out, and in, here or at another gateway. *)

\* Mutant: a sign-out issues no clear of the store.
SignOutMemoryOnly ==
    /\ front /\ memory # None
    /\ memory' = None
    /\ UNCHANGED <<gatewayVars, disk, refresh, connect, task, adoption,
                   clockVars, clearVars, faults>>
\* The user disconnects.
SignOut ==
    /\ front /\ memory # None
    /\ Disconnect
    /\ UNCHANGED <<gatewayVars, refresh, connect, task, adoption, clockVars,
                   faults>>

\* clearStoredConnection settles; nobody looks whether it failed.
StoreCleared ==
    /\ clearing > 0 /\ clearing' = clearing - 1
    /\ \/ disk' = None /\ leftover' = FALSE /\ UNCHANGED faults
       \/ Fault /\ leftover' = TRUE /\ UNCHANGED disk
    /\ UNCHANGED <<gatewayVars, memory, refresh, connect, task, adoption,
                   clockVars>>

\* connectLink: mintConnection has the gateway register a family.
ConnectMinted ==
    /\ front /\ connect = Idle /\ logins < MaxLogins
    /\ logins' = logins + 1
    /\ \E g \in Gateways :
        families' = [families EXCEPT ![logins + 1] = Registered(g)]
    /\ connect' = [stage |-> "granted",
                   token |-> [login |-> logins + 1, jti |-> 1, born |-> hour]]
    /\ UNCHANGED <<byTask, memory, disk, refresh, task, adoption, clockVars,
                   clearVars, faults>>

ConnectStores ==
    /\ connect.stage = "granted"
    /\ \/ /\ connect' = [connect EXCEPT !.stage = "stored"]
          /\ disk' = connect.token
          /\ UNCHANGED faults
       \/ Fault /\ connect' = Idle /\ UNCHANGED disk
    /\ UNCHANGED <<gatewayVars, memory, refresh, task, adoption, clockVars,
                   clearVars>>

ConnectCommits ==
    /\ connect.stage = "stored"
    /\ connect' = Idle
    /\ memory' = connect.token
    /\ leftover' = FALSE
    /\ UNCHANGED <<gatewayVars, disk, clearing, refresh, task, adoption,
                   clockVars, faults>>

----------------------------------------------------------------------------
(* The background report: a session of its own over the stored connection. *)

TaskReads ==
    /\ task = Idle /\ Expiring(disk)
    /\ task' = [stage |-> "read", token |-> disk]
    /\ UNCHANGED <<gatewayVars, memory, disk, refresh, connect, adoption,
                   clockVars, clearVars, faults>>

\* After the preferences, the identity and the position have been read.
TaskSends ==
    /\ task.stage = "read"
    /\ task' = [task EXCEPT !.stage = "sent"]
    /\ UNCHANGED <<gatewayVars, memory, disk, refresh, connect, adoption,
                   clockVars, clearVars, faults>>

CountTask ==
    [byTask EXCEPT ![task.token.login] = IF Rotate(task.token).live = 0 THEN @ ELSE @ + 1]

TaskAnswered ==
    /\ task.stage = "sent"
    /\ \/ /\ families' = Rotated(task.token)
          /\ byTask' = CountTask
          /\ task' = Grant(task.token)
          /\ UNCHANGED faults
       \/ /\ Fault
          /\ task' = Idle
          /\ \/ UNCHANGED <<families, byTask>>
             \/ /\ families' = Rotated(task.token)
                /\ byTask' = CountTask
    /\ UNCHANGED <<logins, memory, disk, refresh, connect, adoption, clockVars,
                   clearVars>>

\* The rotation goes to the store; a rejection signs nobody out.
TaskEnds ==
    /\ task.stage \in {"granted", "denied"}
    /\ task' = Idle
    /\ disk' = IF task.stage = "granted" THEN task.token ELSE disk
    /\ UNCHANGED <<gatewayVars, memory, refresh, connect, adoption, clockVars,
                   clearVars, faults>>

----------------------------------------------------------------------------
(* Foreground, background, kill. *)

Sleep ==
    /\ front /\ adoption = NoAdoption
    /\ front' = FALSE
    /\ UNCHANGED <<gatewayVars, memory, disk, refresh, connect, task, adoption,
                   hour, clearVars, faults>>

\* adopt evaluates connectionStore.read() before it awaits the store.
Wake ==
    /\ ~front
    /\ front' = TRUE
    /\ adoption' = [stage |-> "asked", current |-> memory, stored |-> None]
    /\ UNCHANGED <<gatewayVars, memory, disk, refresh, connect, task, hour,
                   clearVars, faults>>

\* A read that fails ends the adoption.
AdoptReads ==
    /\ adoption.stage = "asked"
    /\ \/ /\ adoption' = [adoption EXCEPT !.stage = "read", !.stored = disk]
          /\ UNCHANGED faults
       \/ Fault /\ adoption' = NoAdoption
    /\ UNCHANGED <<gatewayVars, memory, disk, refresh, connect, task, clockVars,
                   clearVars>>

\* rotatedStoredConnection
RotatedStored(current, stored) ==
    /\ SameGateway(current, stored)
    /\ <<stored.login, stored.jti>> # <<current.login, current.jti>>

AdoptLands ==
    /\ adoption.stage = "read"
    /\ adoption' = NoAdoption
    /\ memory' = IF RotatedStored(adoption.current, adoption.stored)
                 THEN adoption.stored ELSE memory
    /\ UNCHANGED <<gatewayVars, disk, refresh, connect, task, clockVars,
                   clearVars, faults>>

\* restoreSession after the process was killed: the store is read, or cannot be
\* and the app starts disconnected.
Relaunch ==
    /\ Fault
    /\ \/ memory' = disk /\ leftover' = FALSE
       \/ memory' = None /\ leftover' = TRUE
    /\ front' = TRUE /\ clearing' = 0
    /\ refresh' = Idle /\ connect' = Idle /\ task' = Idle /\ adoption' = NoAdoption
    /\ UNCHANGED <<gatewayVars, disk, hour>>

----------------------------------------------------------------------------
Step ==
    \/ HourPasses
    \/ RefreshStarts \/ RefreshAnswered \/ RefreshDenied
    \/ RefreshStores \/ RefreshCommits
    \/ SignOut \/ StoreCleared \/ ConnectMinted \/ ConnectStores \/ ConnectCommits
    \/ TaskReads \/ TaskSends \/ TaskAnswered \/ TaskEnds
    \/ Sleep \/ Wake \/ AdoptReads \/ AdoptLands
    \/ Relaunch

\* Calls in flight that hold a connection of the app.
Holding == refresh # Idle \/ task # Idle \/ adoption # NoAdoption

\* A sign-in with such a call under way, or a sign-out not settled with any.
Note == overlapped' = \/ overlapped
                      \/ connect' # Idle /\ Holding'
                      \/ clearing' > 0 /\ (Holding' \/ connect' # Idle)

Next == Step /\ Note

Spec == Init /\ [][Next]_vars

----------------------------------------------------------------------------
\* Types.  A call under way has a token to present or to store.
TypeOK ==
    /\ families \in [Logins -> Family] /\ logins \in Logins
    /\ memory \in Token \cup {None} /\ disk \in Token \cup {None}
    /\ \A call \in {refresh, connect, task} :
        call \in Call /\ (call = Idle <=> call.token = None)
    /\ adoption \in [stage : {"idle", "asked", "read"},
                     current : Token \cup {None}, stored : Token \cup {None}]
    /\ front \in BOOLEAN /\ hour \in 0..MaxHours /\ faults \in 0..MaxFaults
    /\ byTask \in [Logins -> Nat] /\ clearing \in Nat
    /\ overlapped \in BOOLEAN /\ leftover \in BOOLEAN

\* The one-step grace of rotate is enough for the app: lost answers, writes that
\* fail, kills between the two writes of a commit, sign-ins elsewhere and one
\* refresh by the background task never make it present a token that revokes
\* its login.
GraceSuffices == \A l \in Logins : Revoked(l) => byTask[l] >= 2

\* With nothing in flight the next launch continues the session as it is.  An app
\* signed in finds the same login in the store, with a token the gateway still
\* takes; an app signed out finds none, unless the store's clear failed or its
\* read at launch did.  A sign-in or sign-out during a call is excepted, as the
\* call still writes, and so is a second refresh by the task.
NextLaunchContinues ==
    ~Holding /\ connect = Idle /\ clearing = 0 /\ ~overlapped =>
        /\ memory # None => memory.login = disk.login
        /\ memory = None /\ ~leftover => disk = None
        /\ disk # None /\ byTask[disk.login] < 2 =>
            disk.jti \in {families[disk.login].live, families[disk.login].prev}

\* background-report.ts: a rotation by the task never strands the app.
NeverStranded == memory # None => ~Revoked(memory.login)

=============================================================================
