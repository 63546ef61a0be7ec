------------------------ MODULE SessionTokensProofs ------------------------
(***************************************************************************)
(* The tokens of a login, for any gateways, sign-ins, hours and faults:    *)
(* the one-step grace of the gateway's rotation is enough for the app      *)
(* (GraceSuffices), and the next launch continues the session              *)
(* (NextLaunchContinues).                                                  *)
(*                                                                         *)
(* The argument counts the task's refreshes of a login.  Before the first, *)
(* all expiring tokens of the login are one and the same, so whichever is  *)
(* presented leaves the others one step behind.  After it, the store may   *)
(* be a step ahead of the memory, never behind it, so a token that is live *)
(* is presented only when all others are.  After the second, a token may   *)
(* be two steps behind, and nothing is claimed.                            *)
(***************************************************************************)
EXTENDS SessionTokens, TLAPS

----------------------------------------------------------------------------
(* The inductive invariant.                                                 *)

\* The tokens on the side of the store, those that may yet be presented or kept,
\* and those with the one an adoption compares the store with.
Stored == {disk, task.token, adoption.stored}
Tokens == Stored \cup {memory, refresh.token, connect.token}
Seen   == Tokens \cup {adoption.current}

\* Tokens of login l: about to expire, and granted in this hour.
Old(t, l) == t.login = l /\ t.born < hour
New(t, l) == t.login = l /\ t.born = hour

\* A call whose answer brought a token, and one that still holds the token it presents.
Made(call)   == call.stage \in {"granted", "stored"}
Asking(call) == call.stage \in {"read", "sent", "denied"}

\* No token of a login to come, or from a time to come.
Issued == \A t \in Seen : t.login <= logins /\ t.born <= hour

\* What the stage of a call says of its token; the retry grace is one step.
CallStages == 
    /\ \A call \in {refresh, connect, task} :
        /\ Made(call) => call.token.born = hour
        /\ Asking(call) => call.token.born < hour
        /\ call.stage = "idle" => call = Idle
    /\ connect.stage \in {"idle", "granted", "stored"}
    /\ task.stage # "stored" /\ refresh.stage # "read"
    /\ task.stage = "granted" => byTask[task.token.login] > 0
    /\ adoption.stage # "read" => adoption.stored = None

OneStep == \A l \in Logins :
    /\ families[l].live # 0 => families[l].prev + 1 = families[l].live
    /\ byTask[l] > 0 => l <= logins

\* The login of a sign-in under way has its first token only.
Minted == connect # Idle =>
    LET l == connect.token.login
    IN  /\ byTask[l] = 0 /\ families[l].live = 1 /\ connect.token.jti = 1
        /\ \A t \in Seen : t.login = l => t = connect.token

\* The app writes the store before the memory: while the store holds an expiring
\* token, nothing fresh is in memory and an adoption sees both as they are, unless
\* the user has signed out since.
StoreFirst ==
    /\ Expiring(disk) =>
        /\ memory = None \/ Expiring(memory)
        /\ refresh.stage # "stored" /\ connect.stage # "stored"
        /\ adoption.stage = "asked" =>
            /\ memory = adoption.current \/ memory = None
            /\ adoption.current # None =>
                /\ Expiring(adoption.current)
                /\ refresh # Idle => \/ adoption.current.login = refresh.token.login
                                    \/ adoption.current = disk
        /\ adoption.stage = "read" => adoption.stored = disk
        /\ refresh # Idle /\ memory # None
            => memory.login = refresh.token.login \/ memory = disk
    /\ adoption.stage # "idle" /\ Expiring(memory) => memory = adoption.current
    /\ adoption.stage = "read" /\ Expiring(adoption.stored)
        => adoption.current = None \/ Expiring(adoption.current)

\* An adoption that found an expiring token in a store that has since been, or may
\* yet be, refreshed by the app compares it with a token of the same login.
Crossing == adoption.stage = "read" /\ Expiring(adoption.stored) =>
    LET l == adoption.stored.login
    IN  byTask[l] = 0 /\ ((refresh # Idle /\ refresh.token.login = l) \/ New(disk, l))
        => adoption.current = None \/ adoption.current.login = l

\* Until the task has refreshed a login twice, every token of it is the live one or
\* the one before.
Valid(l) == byTask[l] < 2 =>
    /\ families[l].live # 0
    /\ \A t \in Tokens :
        t.login = l => t.jti = families[l].live \/ t.jti + 1 = families[l].live

\* Before its first refresh by the task: all expiring tokens are the same one, and
\* the fresh ones are its successor.
Even(l) == byTask[l] = 0 =>
    /\ \A s, t \in Seen : Old(s, l) /\ Old(t, l) => s.jti = t.jti
    /\ \A t \in Seen : New(t, l) => t.jti = families[l].live
    /\ \A s, t \in Seen : Old(s, l) /\ New(t, l) => s.jti + 1 = families[l].live
Rest(l) == byTask[l] = 0 /\ memory.login = l /\ disk.login = l
    => memory.jti = disk.jti \/ refresh.stage = "stored"

\* After it: the expiring tokens on the side of the store are the same one, and
\* where a fresh token is behind, all expiring ones are.
Once(l) == byTask[l] = 1 =>
    /\ \A s, t \in Stored : Old(s, l) /\ Old(t, l) => s.jti = t.jti
    /\ \A s, t \in Tokens : New(t, l) /\ t.jti # families[l].live /\ Old(s, l)
        => s.jti # families[l].live

\* After it: nothing is behind a live token that the app is presenting, or that
\* only the memory still holds; what is granted is live; the memory is never ahead
\* of the store.
SentLeads(l) ==
    refresh.stage = "sent" /\ refresh.token.login = l /\ refresh.token.jti = families[l].live
        => \A t \in Tokens : t.login = l => t.jti = families[l].live
MemoryLeads(l) ==
    Old(memory, l) /\ memory.jti = families[l].live
        => \A t \in Stored \cup {connect.token} : t.login = l => t.jti = families[l].live
MadeIsLive(l) ==
    /\ Made(refresh) /\ refresh.token.login = l => refresh.token.jti = families[l].live
    /\ refresh.stage = "stored" /\ refresh.token.login = l /\ disk.login = l
        => disk.jti = families[l].live
TaskIsLive(l) == task.stage = "granted" /\ task.token.login = l =>
    /\ task.token.jti = families[l].live
    /\ \A t \in Tokens : Old(t, l) => t.jti # families[l].live
StoreAhead(l) == \A t \in {memory, adoption.stored} :
    t.login = l /\ disk.login = l => t.jti <= disk.jti

Lead(l) == byTask[l] = 1 =>
    SentLeads(l) /\ MemoryLeads(l) /\ MadeIsLive(l) /\ TaskIsLive(l) /\ StoreAhead(l)

Grace == \A l \in Logins : Valid(l) /\ Even(l) /\ Rest(l) /\ Once(l) /\ Lead(l)

Rules == Issued /\ CallStages /\ OneStep /\ Minted /\ StoreFirst /\ Crossing /\ Grace

TokensInv == TypeOK /\ Rules

----------------------------------------------------------------------------
\* A token, or none.
LEMMA TokenFacts ==
    ASSUME NEW t \in Token \cup {None}
    PROVE  /\ t.login \in 0..MaxLogins /\ t.jti \in Nat /\ t.born \in 0..MaxHours
           /\ t # None => t \in Token /\ t.login \in Logins /\ t.jti > 0
           /\ t = None => t.login = 0 /\ t.jti = 0 /\ t.born = 0
           /\ (t = None) = (t.login = 0) /\ (t \in Token) = (t # None)
  BY TokensAssumption DEF Token, None, Logins

\* rotate: advance, retry, or revocation.
LEMMA RotateIs ==
    ASSUME families \in [Logins -> Family], NEW t \in Token
    PROVE  /\ t.login \in Logins /\ Rotate(t) \in Family
           /\ families[t.login].live = t.jti
                => Rotate(t).live = t.jti + 1 /\ Rotate(t).prev = t.jti
           /\ families[t.login].live # t.jti /\ families[t.login].prev = t.jti
                => Rotate(t) = families[t.login]
           /\ families[t.login].live # t.jti /\ families[t.login].prev # t.jti
                => Rotate(t).live = 0
  <1>1. t.login \in Logins /\ t.jti \in Nat \ {0}
    BY DEF Token
  <1>2. PICK f \in Family : f = families[t.login]
    BY <1>1
  <1>3. /\ f.live \in Nat /\ f.prev \in Nat /\ f.gateway \in Gateways
        /\ f = [gateway |-> f.gateway, live |-> f.live, prev |-> f.prev]
    BY DEF Family
  <1>4. CASE f.live = t.jti
    <2>1. Rotate(t) = [f EXCEPT !.prev = f.live, !.live = f.live + 1]
      BY <1>2, <1>4 DEF Rotate
    <2>2. Rotate(t) = [gateway |-> f.gateway, live |-> f.live + 1, prev |-> f.live]
      BY <2>1, <1>3
    <2>3. Rotate(t) \in Family /\ Rotate(t).live = f.live + 1 /\ Rotate(t).prev = f.live
      BY <2>2, <1>3 DEF Family
    <2> QED BY <1>1, <1>2, <1>4, <2>3
  <1>5. CASE f.live # t.jti /\ f.prev = t.jti
    <2>1. Rotate(t) = f
      BY <1>2, <1>5 DEF Rotate
    <2> QED BY <1>1, <1>2, <1>5, <2>1
  <1>6. CASE f.live # t.jti /\ f.prev # t.jti
    <2>1. Rotate(t) = [f EXCEPT !.live = 0, !.prev = 0]
      BY <1>2, <1>6 DEF Rotate, Revoke
    <2>2. Rotate(t) = [gateway |-> f.gateway, live |-> 0, prev |-> 0]
      BY <2>1, <1>3
    <2>3. Rotate(t) \in Family /\ Rotate(t).live = 0
      BY <2>2, <1>3 DEF Family
    <2> QED BY <1>1, <1>2, <1>6, <2>3
  <1> QED BY <1>4, <1>5, <1>6

\* It touches the family of the token's login only.
LEMMA RotatedIs ==
    ASSUME families \in [Logins -> Family], NEW t \in Token
    PROVE  /\ Rotated(t) \in [Logins -> Family]
           /\ Rotated(t)[t.login] = Rotate(t)
           /\ \A l \in Logins : l # t.login => Rotated(t)[l] = families[l]
  BY RotateIs DEF Rotated

\* What the answer to a token brings: a token of the same login, or a denial.
LEMMA GrantIs ==
    ASSUME families \in [Logins -> Family], hour \in 0..MaxHours, NEW t \in Token
    PROVE  /\ Grant(t) \in Call /\ Grant(t) # Idle /\ Grant(t).token \in Token
           /\ Grant(t).token.login = t.login
           /\ Rotate(t).live = 0 => Grant(t).stage = "denied" /\ Grant(t).token = t
           /\ Rotate(t).live # 0
                => /\ Grant(t).stage = "granted"
                   /\ Grant(t).token.jti = Rotate(t).live /\ Grant(t).token.born = hour
  <1>1. Rotate(t) \in Family /\ Rotate(t).live \in Nat /\ t.login \in Logins
    BY RotateIs DEF Family
  <1>2. CASE Rotate(t).live = 0
    <2>1. Grant(t) = [stage |-> "denied", token |-> t]
      BY <1>2 DEF Grant
    <2> QED BY <2>1, <1>2 DEF Call, Stages, Idle
  <1>3. CASE Rotate(t).live # 0
    <2> DEFINE n == [login |-> t.login, jti |-> Rotate(t).live, born |-> hour]
    <2>1. Grant(t) = [stage |-> "granted", token |-> n]
      BY <1>3 DEF Grant
    <2>2. n \in Token
      BY <1>1, <1>3 DEF Token
    <2>3. Grant(t) # Idle
      BY <2>1 DEF Idle
    <2> QED BY <2>1, <2>2, <2>3, <1>3 DEF Call, Stages
  <1> QED BY <1>2, <1>3

----------------------------------------------------------------------------
\* The types of the state (TypeOK), at the start and after every step.
LEMMA TypesInit == Init => TypeOK
  <1> SUFFICES ASSUME Init PROVE TypeOK
    OBVIOUS
  <1>1. 1 \in Logins /\ MaxLogins \in Nat /\ MaxHours \in Nat /\ MaxFaults \in Nat
    BY TokensAssumption DEF Logins
  <1>2. \A g \in Gateways : Registered(g) \in Family
    BY DEF Registered, Family
  <1>3. families \in [Logins -> Family] /\ logins \in Logins
    BY <1>1, <1>2 DEF Init
  <1>4. /\ memory \in Token \cup {None} /\ disk \in Token \cup {None}
        /\ hour \in 0..MaxHours /\ faults \in 0..MaxFaults
    BY <1>1 DEF Init, Token
  <1>5. Idle \in Call /\ Idle.token = None
    BY DEF Idle, Call, Stages
  <1>6. NoAdoption \in [stage : {"idle", "asked", "read"},
                        current : Token \cup {None}, stored : Token \cup {None}]
    BY DEF NoAdoption
  <1>7. /\ \A call \in {refresh, connect, task} : call = Idle
        /\ byTask \in [Logins -> Nat] /\ overlapped \in BOOLEAN /\ front \in BOOLEAN
        /\ adoption = NoAdoption /\ clearing \in Nat /\ leftover \in BOOLEAN
    BY DEF Init
  <1>8. \A call \in {refresh, connect, task} :
          call \in Call /\ (call = Idle <=> call.token = None)
    BY <1>5, <1>7
  <1>9. adoption \in [stage : {"idle", "asked", "read"},
                      current : Token \cup {None}, stored : Token \cup {None}]
    BY <1>6, <1>7
  <1> QED BY <1>3, <1>4, <1>7, <1>8, <1>9 DEF TypeOK

\* A call whose token is real is not idle.
LEMMA CallIs ==
    ASSUME NEW s \in Stages, s # "idle", NEW t \in Token
    PROVE  /\ [stage |-> s, token |-> t] \in Call /\ [stage |-> s, token |-> t] # Idle
           /\ [stage |-> s, token |-> t].token # None /\ Idle \in Call /\ Idle.token = None
  <1> DEFINE c == [stage |-> s, token |-> t]
  <1>1. t # None
    BY TokenFacts
  <1>2. c \in Call
    BY DEF Call
  <1>4. Idle \in Call
    BY DEF Call, Idle, Stages
  <1>3. c.stage = s /\ c.token = t /\ Idle.stage = "idle" /\ Idle.token = None
    BY DEF Idle
  <1> QED BY <1>1, <1>2, <1>3, <1>4

\* Every step keeps the types: a call under way always has a token of a login.
LEMMA TypesStep ==
    ASSUME TypeOK, [Next]_vars
    PROVE  TypeOK'
  <1>a. /\ memory \in Token \cup {None} /\ disk \in Token \cup {None}
        /\ MaxLogins \in Nat /\ MaxHours \in Nat /\ MaxFaults \in Nat
        /\ families \in [Logins -> Family] /\ logins \in Logins
        /\ hour \in 0..MaxHours /\ faults \in 0..MaxFaults /\ byTask \in [Logins -> Nat]
        /\ adoption \in [stage : {"idle", "asked", "read"},
                         current : Token \cup {None}, stored : Token \cup {None}]
        /\ front \in BOOLEAN /\ overlapped \in BOOLEAN
        /\ clearing \in Nat /\ leftover \in BOOLEAN
    BY TokensAssumption DEF TypeOK
  <1>b. \A c \in {refresh, connect, task} :
          c \in Call /\ (c = Idle <=> c.token = None) /\ c.token \in Token \cup {None}
    BY DEF TypeOK, Call
  <1>c. Idle \in Call /\ Idle.token = None /\ Idle.stage = "idle"
    BY DEF Idle, Call, Stages
  <1>d. NoAdoption \in [stage : {"idle", "asked", "read"},
                        current : Token \cup {None}, stored : Token \cup {None}]
    BY DEF NoAdoption
  <1>e. \A t \in Token : t # None
    BY TokenFacts
  <1>f. CASE UNCHANGED vars
    <2>1. /\ families' = families /\ logins' = logins /\ memory' = memory /\ disk' = disk
          /\ refresh' = refresh /\ connect' = connect /\ task' = task
          /\ adoption' = adoption /\ front' = front /\ hour' = hour /\ faults' = faults
          /\ byTask' = byTask /\ overlapped' = overlapped
          /\ clearing' = clearing /\ leftover' = leftover
      BY <1>f DEF vars
    <2>2. overlapped' \in BOOLEAN /\ front' \in BOOLEAN /\ leftover' \in BOOLEAN
      BY <2>1, <1>a, Zenon
    <2> QED BY <2>1, <2>2 DEF TypeOK
  <1> SUFFICES ASSUME Step, Note PROVE TypeOK'
    BY <1>f DEF Next
  <1>g. overlapped' \in BOOLEAN
    BY <1>a DEF Note
  <1>h. clearing' \in Nat /\ leftover' \in BOOLEAN
    <2>1. \/ clearing' = clearing /\ leftover' = leftover
          \/ clearing' = clearing + 1 /\ leftover' = leftover
          \/ clearing' = clearing /\ leftover' = FALSE
          \/ /\ clearing' = 0 \/ (clearing > 0 /\ clearing' = clearing - 1)
             /\ leftover' = TRUE \/ leftover' = FALSE
      BY DEF Step, HourPasses, RefreshStarts, RefreshAnswered, RefreshDenied, RefreshStores,
         RefreshCommits, SignOut, StoreCleared, ConnectMinted, ConnectStores, ConnectCommits,
         TaskReads, TaskSends, TaskAnswered, TaskEnds, Sleep, Wake, AdoptReads, AdoptLands,
         Relaunch, Disconnect, clearVars
    <2>2. clearing' \in Nat
      BY <1>a, <2>1
    <2>3. leftover' \in BOOLEAN
      BY <1>a, <2>1, Zenon
    <2> QED BY <2>2, <2>3
  <1>1. CASE HourPasses
    <2>1. hour' \in 0..MaxHours
      BY <1>1, <1>a DEF HourPasses
    <2> QED BY <1>1, <2>1, <1>g, <1>h DEF HourPasses, TypeOK, gatewayVars
  <1>2. CASE RefreshStarts
    <2>1. memory \in Token
      BY <1>2, <1>a DEF RefreshStarts, Expiring
    <2>2. refresh' \in Call /\ refresh' # Idle /\ refresh'.token # None
      BY <1>2, <2>1, CallIs DEF RefreshStarts, Stages
    <2> QED BY <1>2, <2>2, <1>g, <1>h DEF RefreshStarts, TypeOK, gatewayVars, clockVars
  <1>3. CASE RefreshAnswered
    <2>1. refresh.token \in Token
      BY <1>3, <1>b, <1>c DEF RefreshAnswered
    <2>2. /\ Rotated(refresh.token) \in [Logins -> Family]
          /\ Grant(refresh.token) \in Call /\ Grant(refresh.token) # Idle
          /\ Grant(refresh.token).token # None
      BY <2>1, <1>a, <1>e, RotatedIs, GrantIs
    <2>3. families' \in [Logins -> Family] /\ faults' \in 0..MaxFaults
      BY <1>3, <2>2, <1>a DEF RefreshAnswered, Fault
    <2>4. refresh' \in Call /\ (refresh' = Idle <=> refresh'.token = None)
      BY <1>3, <2>2, <1>c DEF RefreshAnswered
    <2> QED BY <1>3, <2>3, <2>4, <1>g, <1>h DEF RefreshAnswered, TypeOK, clockVars
  <1>4. CASE RefreshDenied
    BY <1>4, <1>c, <1>g, <1>h DEF RefreshDenied, Disconnect, TypeOK, gatewayVars, clockVars
  <1>5. CASE RefreshStores
    <2>1. refresh.token \in Token /\ refresh \in Call
      BY <1>5, <1>b, <1>c DEF RefreshStores
    <2>2. /\ [refresh EXCEPT !.stage = "stored"] \in Call
          /\ [refresh EXCEPT !.stage = "stored"] # Idle
          /\ [refresh EXCEPT !.stage = "stored"].token # None
      BY <2>1, <1>e DEF Call, Stages, Idle
    <2>3. faults' \in 0..MaxFaults /\ disk' \in Token \cup {None}
      BY <1>5, <2>1, <1>a DEF RefreshStores, Fault
    <2>4. refresh' \in Call /\ (refresh' = Idle <=> refresh'.token = None)
      BY <1>5, <2>2, <1>c DEF RefreshStores
    <2> QED BY <1>5, <2>3, <2>4, <1>g, <1>h DEF RefreshStores, TypeOK, gatewayVars, clockVars
  <1>6. CASE RefreshCommits
    <2>1. refresh.token \in Token
      BY <1>6, <1>b, <1>c DEF RefreshCommits
    <2> QED BY <1>6, <2>1, <1>c, <1>g, <1>h DEF RefreshCommits, TypeOK, gatewayVars, clockVars
  <1>7. CASE SignOut
    BY <1>7, <1>g, <1>h DEF SignOut, Disconnect, TypeOK, gatewayVars, clockVars
  <1>8. CASE ConnectMinted
    <2>1. logins + 1 \in Logins
      BY <1>8, <1>a DEF ConnectMinted, Logins
    <2>2. \A g \in Gateways : Registered(g) \in Family
      BY DEF Registered, Family
    <2>3. families' \in [Logins -> Family]
      BY <1>8, <1>a, <2>1, <2>2 DEF ConnectMinted
    <2>4. [login |-> logins + 1, jti |-> 1, born |-> hour] \in Token
      BY <1>a, <2>1 DEF Token
    <2>5. connect' \in Call /\ connect' # Idle /\ connect'.token # None
      BY <1>8, <2>4, CallIs DEF ConnectMinted, Stages
    <2> QED BY <1>8, <2>1, <2>3, <2>5, <1>g, <1>h DEF ConnectMinted, TypeOK, clockVars
  <1>9. CASE ConnectStores
    <2>1. connect.token \in Token /\ connect \in Call
      BY <1>9, <1>b, <1>c DEF ConnectStores
    <2>2. /\ [connect EXCEPT !.stage = "stored"] \in Call
          /\ [connect EXCEPT !.stage = "stored"] # Idle
          /\ [connect EXCEPT !.stage = "stored"].token # None
      BY <2>1, <1>e DEF Call, Stages, Idle
    <2>3. faults' \in 0..MaxFaults /\ disk' \in Token \cup {None}
      BY <1>9, <2>1, <1>a DEF ConnectStores, Fault
    <2>4. connect' \in Call /\ (connect' = Idle <=> connect'.token = None)
      BY <1>9, <2>2, <1>c DEF ConnectStores
    <2> QED BY <1>9, <2>3, <2>4, <1>g, <1>h DEF ConnectStores, TypeOK, gatewayVars, clockVars
  <1>10. CASE ConnectCommits
    <2>1. connect.token \in Token
      BY <1>10, <1>b, <1>c DEF ConnectCommits
    <2> QED BY <1>10, <2>1, <1>c, <1>g, <1>h DEF ConnectCommits, TypeOK, gatewayVars, clockVars
  <1>11. CASE TaskReads
    <2>1. disk \in Token
      BY <1>11, <1>a DEF TaskReads, Expiring
    <2>2. task' \in Call /\ task' # Idle /\ task'.token # None
      BY <1>11, <2>1, CallIs DEF TaskReads, Stages
    <2> QED BY <1>11, <2>2, <1>g, <1>h DEF TaskReads, TypeOK, gatewayVars, clockVars
  <1>12. CASE TaskSends
    <2>1. task.token \in Token /\ task \in Call
      BY <1>12, <1>b, <1>c DEF TaskSends
    <2>2. task' \in Call /\ task' # Idle /\ task'.token # None
      BY <1>12, <2>1, <1>e DEF TaskSends, Call, Stages, Idle
    <2> QED BY <1>12, <2>2, <1>g, <1>h DEF TaskSends, TypeOK, gatewayVars, clockVars
  <1>13. CASE TaskAnswered
    <2>1. task.token \in Token /\ task.token.login \in Logins
      BY <1>13, <1>b, <1>c, TokenFacts DEF TaskAnswered
    <2>2. /\ Rotated(task.token) \in [Logins -> Family]
          /\ Grant(task.token) \in Call /\ Grant(task.token) # Idle
          /\ Grant(task.token).token # None
      BY <2>1, <1>a, <1>e, RotatedIs, GrantIs
    <2>3. CountTask \in [Logins -> Nat]
      BY <2>1, <1>a DEF CountTask
    <2>4. /\ families' \in [Logins -> Family] /\ faults' \in 0..MaxFaults
          /\ byTask' \in [Logins -> Nat]
      BY <1>13, <2>2, <2>3, <1>a DEF TaskAnswered, Fault
    <2>5. task' \in Call /\ (task' = Idle <=> task'.token = None)
      BY <1>13, <2>2, <1>c DEF TaskAnswered
    <2> QED BY <1>13, <2>4, <2>5, <1>g, <1>h DEF TaskAnswered, TypeOK, clockVars
  <1>14. CASE TaskEnds
    <2>1. task.token \in Token
      BY <1>14, <1>b, <1>c DEF TaskEnds
    <2> QED BY <1>14, <2>1, <1>c, <1>g, <1>h DEF TaskEnds, TypeOK, gatewayVars, clockVars
  <1>15. CASE Sleep
    BY <1>15, <1>g, <1>h DEF Sleep, TypeOK, gatewayVars
  <1>16. CASE Wake
    BY <1>16, <1>g, <1>h DEF Wake, TypeOK, gatewayVars
  <1>17. CASE AdoptReads
    <2>1. adoption' \in [stage : {"idle", "asked", "read"},
                         current : Token \cup {None}, stored : Token \cup {None}]
      BY <1>17, <1>a, <1>d DEF AdoptReads
    <2>2. faults' \in 0..MaxFaults
      BY <1>17, <1>a DEF AdoptReads, Fault
    <2> QED BY <1>17, <2>1, <2>2, <1>g, <1>h DEF AdoptReads, TypeOK, gatewayVars, clockVars
  <1>18. CASE AdoptLands
    <2>1. memory' \in Token \cup {None}
      BY <1>18, <1>a DEF AdoptLands
    <2> QED BY <1>18, <2>1, <1>d, <1>g, <1>h DEF AdoptLands, TypeOK, gatewayVars, clockVars
  <1>19. CASE Relaunch
    <2>1. faults' \in 0..MaxFaults /\ memory' \in Token \cup {None}
      BY <1>19, <1>a DEF Relaunch, Fault
    <2> QED BY <1>19, <2>1, <1>c, <1>d, <1>g, <1>h DEF Relaunch, TypeOK, gatewayVars
  <1>20. CASE StoreCleared
    <2>1. faults' \in 0..MaxFaults /\ disk' \in Token \cup {None}
      BY <1>20, <1>a DEF StoreCleared, Fault
    <2> QED BY <1>20, <2>1, <1>g, <1>h DEF StoreCleared, TypeOK, gatewayVars, clockVars
  <1> QED BY <1>1, <1>2, <1>3, <1>4, <1>5, <1>6, <1>7, <1>8, <1>9, <1>10, <1>11, <1>12,
             <1>13, <1>14, <1>15, <1>16, <1>17, <1>18, <1>19, <1>20 DEF Step

----------------------------------------------------------------------------
(* Steps that only move tokens around.                                      *)

\* No token is granted, and the store gets one of the app's only when fresh.
Moving ==
    /\ families' = families /\ logins' = logins /\ byTask' = byTask /\ hour' = hour
    /\ Seen' \subseteq Seen \cup {None} /\ Tokens' \subseteq Tokens \cup {None}
    /\ \A t \in Stored' : t \in Stored \cup {None} \/ t.born = hour
    /\ connect' = Idle \/ (connect # Idle /\ connect'.token = connect.token)
    /\ \A call \in {refresh', connect', task'} : call = Idle \/ call.token \in Tokens

\* The steps of Moving.
Moves ==
    \/ RefreshStarts \/ RefreshDenied \/ RefreshStores \/ RefreshCommits
    \/ SignOut \/ StoreCleared \/ ConnectStores \/ ConnectCommits
    \/ TaskReads \/ TaskSends \/ TaskEnds
    \/ Sleep \/ Wake \/ AdoptReads \/ AdoptLands \/ Relaunch

\* The records of the state, field by field.
LEMMA Fields ==
    ASSUME TypeOK
    PROVE  /\ Idle.stage = "idle" /\ Idle.token = None
           /\ NoAdoption.stage = "idle" /\ NoAdoption.current = None /\ NoAdoption.stored = None
           /\ \A call \in {refresh, connect, task} :
               /\ call \in Call /\ (call = Idle <=> call.token = None)
               /\ call = [stage |-> call.stage, token |-> call.token]
               /\ call.token \in Token \cup {None} /\ call.stage \in Stages
               /\ \A s \in Stages : [call EXCEPT !.stage = s] = [stage |-> s, token |-> call.token]
           /\ adoption = [stage |-> adoption.stage, current |-> adoption.current,
                          stored |-> adoption.stored]
           /\ adoption.stage \in {"idle", "asked", "read"}
           /\ adoption.current \in Token \cup {None} /\ adoption.stored \in Token \cup {None}
           /\ Seen \subseteq Token \cup {None} /\ Tokens \subseteq Seen /\ Stored \subseteq Tokens
  <1>1. Idle.stage = "idle" /\ Idle.token = None
    BY DEF Idle
  <1>2. NoAdoption.stage = "idle" /\ NoAdoption.current = None /\ NoAdoption.stored = None
    BY DEF NoAdoption
  <1>3. ASSUME NEW call \in {refresh, connect, task}
        PROVE  /\ call \in Call /\ (call = Idle <=> call.token = None)
               /\ call = [stage |-> call.stage, token |-> call.token]
               /\ call.token \in Token \cup {None} /\ call.stage \in Stages
               /\ \A s \in Stages : [call EXCEPT !.stage = s] = [stage |-> s, token |-> call.token]
    <2>1. call \in Call /\ (call = Idle <=> call.token = None)
      BY DEF TypeOK
    <2>2. /\ call = [stage |-> call.stage, token |-> call.token]
          /\ call.token \in Token \cup {None} /\ call.stage \in Stages
      BY <2>1 DEF Call
    <2>3. ASSUME NEW s \in Stages
          PROVE  [call EXCEPT !.stage = s] = [stage |-> s, token |-> call.token]
      BY <2>2
    <2> QED BY <2>1, <2>2, <2>3
  <1>4. /\ adoption = [stage |-> adoption.stage, current |-> adoption.current,
                       stored |-> adoption.stored]
        /\ adoption.stage \in {"idle", "asked", "read"}
        /\ adoption.current \in Token \cup {None} /\ adoption.stored \in Token \cup {None}
    BY DEF TypeOK
  <1>5. memory \in Token \cup {None} /\ disk \in Token \cup {None}
    BY DEF TypeOK
  <1>6. Seen \subseteq Token \cup {None} /\ Tokens \subseteq Seen /\ Stored \subseteq Tokens
    BY <1>3, <1>4, <1>5 DEF Seen, Tokens, Stored
  <1> QED BY <1>1, <1>2, <1>3, <1>4, <1>6

\* These steps only move tokens.
LEMMA MovesAre ==
    ASSUME TypeOK, CallStages, Moves
    PROVE  Moving
  <1> USE Fields
  <1>0. /\ "stored" \in Stages /\ "sent" \in Stages
        /\ refresh.stage # "idle" => refresh # Idle
        /\ connect.stage # "idle" => connect # Idle
    BY DEF Stages
  <1>1. CASE RefreshStarts
    BY <1>1 DEF RefreshStarts, gatewayVars, clockVars, Moving, Seen, Tokens, Stored
  <1>2. CASE RefreshDenied
    BY <1>2 DEF RefreshDenied, Disconnect, gatewayVars, clockVars, Moving, Seen, Tokens, Stored
  <1>3. CASE RefreshStores
    <2>1. refresh.token.born = hour
      BY <1>3 DEF RefreshStores, CallStages, Made
    <2>2. refresh'.token \in {refresh.token, None}
      BY <1>3, <1>0 DEF RefreshStores
    <2>3. disk' \in {disk, refresh.token}
      BY <1>3 DEF RefreshStores
    <2>4. refresh' = Idle \/ refresh'.token = refresh.token
      BY <1>3, <1>0 DEF RefreshStores
    <2> QED BY <1>3, <2>1, <2>2, <2>3, <2>4
            DEF RefreshStores, gatewayVars, clockVars, Moving, Seen, Tokens, Stored
  <1>4. CASE RefreshCommits
    BY <1>4 DEF RefreshCommits, gatewayVars, clockVars, Moving, Seen, Tokens, Stored
  <1>5. CASE SignOut
    BY <1>5 DEF SignOut, Disconnect, gatewayVars, clockVars, Moving, Seen, Tokens, Stored
  <1>6. CASE ConnectStores
    <2>1. connect.token.born = hour /\ connect # Idle
      BY <1>6, <1>0 DEF ConnectStores, CallStages, Made
    <2>2. connect' = Idle \/ connect'.token = connect.token
      BY <1>6, <1>0 DEF ConnectStores
    <2>3. disk' \in {disk, connect.token}
      BY <1>6 DEF ConnectStores
    <2> QED BY <1>6, <2>1, <2>2, <2>3
            DEF ConnectStores, gatewayVars, clockVars, Moving, Seen, Tokens, Stored
  <1>7. CASE ConnectCommits
    BY <1>7 DEF ConnectCommits, gatewayVars, clockVars, Moving, Seen, Tokens, Stored
  <1>8. CASE TaskReads
    BY <1>8 DEF TaskReads, gatewayVars, clockVars, Moving, Seen, Tokens, Stored
  <1>9. CASE TaskSends
    <2>1. task'.token = task.token
      BY <1>9, <1>0 DEF TaskSends
    <2> QED BY <1>9, <2>1 DEF TaskSends, gatewayVars, clockVars, Moving, Seen, Tokens, Stored
  <1>10. CASE TaskEnds
    BY <1>10 DEF TaskEnds, gatewayVars, clockVars, Moving, Seen, Tokens, Stored
  <1>11. CASE Sleep
    BY <1>11 DEF Sleep, gatewayVars, clockVars, Moving, Seen, Tokens, Stored
  <1>12. CASE Wake
    <2>1. adoption'.current = memory /\ adoption'.stored = None
      BY <1>12 DEF Wake
    <2> QED BY <1>12, <2>1 DEF Wake, gatewayVars, Moving, Seen, Tokens, Stored
  <1>13. CASE AdoptReads
    <2>1. \/ adoption'.current = adoption.current /\ adoption'.stored = disk
          \/ adoption' = NoAdoption
      BY <1>13 DEF AdoptReads
    <2> QED BY <1>13, <2>1 DEF AdoptReads, gatewayVars, clockVars, Moving, Seen, Tokens, Stored
  <1>14. CASE AdoptLands
    <2>1. memory' \in {memory, adoption.stored}
      BY <1>14 DEF AdoptLands
    <2> QED BY <1>14, <2>1 DEF AdoptLands, gatewayVars, clockVars, Moving, Seen, Tokens, Stored
  <1>15. CASE Relaunch
    BY <1>15 DEF Relaunch, gatewayVars, Moving, Seen, Tokens, Stored
  <1>16. CASE StoreCleared
    BY <1>16 DEF StoreCleared, gatewayVars, clockVars, Moving, Seen, Tokens, Stored
  <1> QED BY <1>1, <1>2, <1>3, <1>4, <1>5, <1>6, <1>7, <1>8, <1>9, <1>10, <1>11, <1>12,
             <1>13, <1>14, <1>15, <1>16 DEF Moves

\* What tokens there are, and how they stand to the live one, survives such a step.
LEMMA MovingKeeps ==
    ASSUME TypeOK, Moving, Issued, OneStep, Minted
    PROVE  Issued' /\ OneStep' /\ Minted'
  <1>1. \A t \in Seen' : t \in Seen \/ t = None
    BY DEF Moving
  <1>2. None.login = 0 /\ None.born = 0 /\ logins \in Nat /\ hour \in Nat
    BY TokensAssumption DEF None, TypeOK, Logins
  <1>3. Issued'
    BY <1>1, <1>2 DEF Issued, Moving
  <1>4. OneStep'
    BY DEF OneStep, Moving
  <1>5. Minted'
    <2> SUFFICES ASSUME connect' # Idle
                 PROVE  LET l == connect'.token.login
                        IN  /\ byTask'[l] = 0 /\ families'[l].live = 1 /\ connect'.token.jti = 1
                            /\ \A t \in Seen' : t.login = l => t = connect'.token
      BY DEF Minted
    <2>1. connect # Idle /\ connect'.token = connect.token
      BY DEF Moving
    <2>2. connect.token.login # 0
      BY <2>1, Fields, TokenFacts
    <2> QED BY <1>1, <1>2, <2>1, <2>2 DEF Minted, Moving
  <1> QED BY <1>3, <1>4, <1>5

\* A step that grants no token of login l keeps how its tokens stand.
Keeps(l) ==
    /\ families'[l] = families[l] /\ byTask'[l] = byTask[l] /\ hour' = hour
    /\ \A t \in Seen' : t.login = l => t \in Seen
    /\ \A t \in Tokens' : t.login = l => t \in Tokens
    /\ \A t \in Stored' : t.login = l => t \in Stored \/ t.born = hour

\* So the token rules of l survive it.
LEMMA KeepsGrace ==
    ASSUME TypeOK, NEW l \in Logins, Keeps(l), Valid(l), Even(l), Once(l)
    PROVE  Valid(l)' /\ Even(l)' /\ Once(l)'
  <1>1. hour \in Nat /\ hour' = hour
    BY DEF Keeps, TypeOK
  <1>2. Valid(l)'
    BY DEF Valid, Keeps
  <1>3. Even(l)'
    BY <1>1 DEF Even, Old, New, Keeps
  <1>4. Once(l)'
    <2>1. \A t \in Stored' : Old(t, l)' => t \in Stored /\ Old(t, l)
      BY <1>1 DEF Keeps, Old
    <2>2. \A t \in Tokens' : /\ Old(t, l)' => t \in Tokens /\ Old(t, l)
                             /\ New(t, l)' => t \in Tokens /\ New(t, l)
      BY <1>1 DEF Keeps, Old, New
    <2> QED BY <2>1, <2>2 DEF Once, Keeps
  <1> QED BY <1>2, <1>3, <1>4

\* A moving step grants no token of any login.
LEMMA MovingGrace ==
    ASSUME TypeOK, Moving, NEW l \in Logins, Valid(l), Even(l), Once(l)
    PROVE  Valid(l)' /\ Even(l)' /\ Once(l)'
  <1>1. None.login = 0 /\ l # 0
    BY DEF None, Logins
  <1>2. Keeps(l)
    BY <1>1 DEF Moving, Keeps
  <1> QED BY <1>2, KeepsGrace

\* The calls keep to their tokens.
LEMMA MovesStages ==
    ASSUME TypeOK, CallStages, Moves
    PROVE  CallStages'
  <1> USE Fields
  <1>0. /\ hour' = hour /\ byTask' = byTask
        /\ "stored" \in Stages /\ "sent" \in Stages /\ hour \in Nat
        /\ \A t \in Token \cup {None} : t.born \in Nat
    BY MovesAre, TokenFacts DEF Moving, Stages, TypeOK
  <1>a. ASSUME \/ RefreshStarts \/ RefreshDenied \/ RefreshStores \/ RefreshCommits
        PROVE  CallStages'
    <2>1. connect' = connect /\ task' = task /\ adoption' = adoption
      BY <1>a DEF RefreshStarts, RefreshDenied, RefreshStores, RefreshCommits
    <2>2. /\ Made(refresh') => refresh'.token.born = hour
          /\ Asking(refresh') => refresh'.token.born < hour
          /\ refresh'.stage # "read" /\ (refresh'.stage = "idle" => refresh' = Idle)
      <3>1. CASE RefreshStarts
        BY <3>1 DEF RefreshStarts, Made, Asking, Expiring
      <3>2. CASE refresh' = Idle
        BY <3>2 DEF Made, Asking
      <3>3. CASE RefreshStores /\ refresh' # Idle
        <4>1. refresh' = [stage |-> "stored", token |-> refresh.token] /\ refresh.stage = "granted"
          BY <3>3, <1>0 DEF RefreshStores
        <4> QED BY <4>1 DEF CallStages, Made, Asking
      <3> QED BY <1>a, <3>1, <3>2, <3>3 DEF RefreshDenied, RefreshCommits
    <2> QED BY <1>0, <2>1, <2>2 DEF CallStages, Made, Asking
  <1>b. ASSUME \/ SignOut \/ StoreCleared \/ ConnectStores \/ ConnectCommits
        PROVE  CallStages'
    <2>1. refresh' = refresh /\ task' = task /\ adoption' = adoption
      BY <1>b DEF SignOut, StoreCleared, ConnectStores, ConnectCommits
    <2>2. /\ Made(connect') => connect'.token.born = hour
          /\ Asking(connect') => connect'.token.born < hour
          /\ connect'.stage \in {"idle", "granted", "stored"}
          /\ connect'.stage = "idle" => connect' = Idle
      <3>1. CASE connect' = Idle
        BY <3>1 DEF Made, Asking
      <3>2. CASE connect' = connect
        BY <3>2, <1>0 DEF CallStages, Made, Asking
      <3>3. CASE ConnectStores /\ connect' # Idle
        <4>1. connect' = [stage |-> "stored", token |-> connect.token] /\ connect.stage = "granted"
          BY <3>3, <1>0 DEF ConnectStores
        <4> QED BY <4>1 DEF CallStages, Made, Asking
      <3> QED BY <1>b, <3>1, <3>2, <3>3 DEF SignOut, StoreCleared, ConnectCommits
    <2> QED BY <1>0, <2>1, <2>2 DEF CallStages, Made, Asking
  <1>c. ASSUME \/ TaskReads \/ TaskSends \/ TaskEnds
        PROVE  CallStages'
    <2>1. refresh' = refresh /\ connect' = connect /\ adoption' = adoption
      BY <1>c DEF TaskReads, TaskSends, TaskEnds
    <2>2. /\ Made(task') => task'.token.born = hour
          /\ Asking(task') => task'.token.born < hour
          /\ task'.stage \notin {"granted", "stored"}
          /\ task'.stage = "idle" => task' = Idle
      <3>1. CASE TaskReads
        BY <3>1 DEF TaskReads, Made, Asking, Expiring
      <3>2. CASE TaskEnds
        BY <3>2 DEF TaskEnds, Made, Asking
      <3>3. CASE TaskSends
        <4>1. task' = [stage |-> "sent", token |-> task.token] /\ task.stage = "read"
          BY <3>3, <1>0 DEF TaskSends
        <4> QED BY <4>1 DEF CallStages, Made, Asking
      <3> QED BY <1>c, <3>1, <3>2, <3>3
    <2> QED BY <1>0, <2>1, <2>2 DEF CallStages, Made, Asking
  <1>d. ASSUME \/ Sleep \/ Wake \/ AdoptReads \/ AdoptLands
        PROVE  CallStages'
    <2>1. refresh' = refresh /\ connect' = connect /\ task' = task
      BY <1>d DEF Sleep, Wake, AdoptReads, AdoptLands
    <2>2. adoption'.stage # "read" => adoption'.stored = None
      <3>1. CASE Sleep
        BY <3>1 DEF Sleep, CallStages
      <3>2. CASE Wake
        BY <3>2 DEF Wake
      <3>3. CASE AdoptReads
        <4>1. adoption'.stage = "read" \/ adoption' = NoAdoption
          BY <3>3 DEF AdoptReads
        <4> QED BY <4>1
      <3>4. CASE AdoptLands
        BY <3>4 DEF AdoptLands
      <3> QED BY <1>d, <3>1, <3>2, <3>3, <3>4
    <2> QED BY <1>0, <2>1, <2>2 DEF CallStages, Made, Asking
  <1>e. CASE Relaunch
    BY <1>0, <1>e DEF Relaunch, CallStages, Made, Asking
  <1> QED BY <1>a, <1>b, <1>c, <1>d, <1>e DEF Moves

\* The order of the app's two writes.
LEMMA MovesStoreFirst ==
    ASSUME TypeOK, CallStages, StoreFirst, Moves
    PROVE  StoreFirst'
  <1> USE Fields
  <1>0. hour' = hour /\ hour \in Nat /\ "stored" \in Stages
    BY MovesAre DEF Moving, TypeOK, Stages
  <1>1. CASE RefreshStarts
    <2>1. refresh' = [stage |-> "sent", token |-> memory] /\ refresh'.token = memory
      BY <1>1 DEF RefreshStarts
    <2> QED BY <1>0, <1>1, <2>1 DEF RefreshStarts, StoreFirst, Expiring
  <1>2. CASE RefreshDenied
    BY <1>0, <1>2 DEF RefreshDenied, Disconnect, StoreFirst, Expiring
  <1>3. CASE RefreshStores
    <2>1. CASE refresh' = Idle /\ disk' = disk
      BY <1>0, <1>3, <2>1 DEF RefreshStores, StoreFirst, Expiring
    <2>2. CASE disk' = refresh.token
      <3>1. ~(disk'.born < hour)
        BY <1>0, <1>3, <2>2 DEF RefreshStores, CallStages, Made
      <3> QED BY <1>0, <1>3, <3>1 DEF RefreshStores, StoreFirst, Expiring
    <2> QED BY <1>3, <2>1, <2>2 DEF RefreshStores
  <1>4. CASE RefreshCommits
    <2>1. ~(memory'.born < hour)
      BY <1>0, <1>4 DEF RefreshCommits, CallStages, Made
    <2> QED BY <1>0, <1>4, <2>1 DEF RefreshCommits, StoreFirst, Expiring
  <1>5. CASE SignOut
    BY <1>0, <1>5 DEF SignOut, Disconnect, StoreFirst, Expiring
  <1>6. CASE ConnectStores
    <2>1. CASE connect' = Idle /\ disk' = disk
      BY <1>0, <1>6, <2>1 DEF ConnectStores, StoreFirst, Expiring
    <2>2. CASE disk' = connect.token
      <3>1. ~(disk'.born < hour)
        BY <1>0, <1>6, <2>2 DEF ConnectStores, CallStages, Made
      <3> QED BY <1>0, <1>6, <3>1 DEF ConnectStores, StoreFirst, Expiring
    <2> QED BY <1>6, <2>1, <2>2 DEF ConnectStores
  <1>7. CASE ConnectCommits
    <2>1. ~(memory'.born < hour)
      BY <1>0, <1>7 DEF ConnectCommits, CallStages, Made
    <2> QED BY <1>0, <1>7, <2>1 DEF ConnectCommits, StoreFirst, Expiring
  <1>8. CASE TaskReads
    BY <1>0, <1>8 DEF TaskReads, StoreFirst, Expiring
  <1>9. CASE TaskSends
    BY <1>0, <1>9 DEF TaskSends, StoreFirst, Expiring
  <1>10. CASE TaskEnds
    <2>1. CASE disk' = disk
      BY <1>0, <1>10, <2>1 DEF TaskEnds, StoreFirst, Expiring
    <2>2. CASE disk' = task.token /\ task.stage = "granted"
      <3>1. ~(disk'.born < hour)
        BY <1>0, <2>2 DEF CallStages, Made
      <3> QED BY <1>0, <1>10, <3>1 DEF TaskEnds, StoreFirst, Expiring
    <2> QED BY <1>10, <2>1, <2>2 DEF TaskEnds
  <1>11. CASE Sleep
    BY <1>0, <1>11 DEF Sleep, StoreFirst, Expiring
  <1>12. CASE Wake
    <2>1. adoption'.stage = "asked" /\ adoption'.current = memory
      BY <1>12 DEF Wake
    <2> QED BY <1>0, <1>12, <2>1 DEF Wake, StoreFirst, Expiring
  <1>13. CASE AdoptReads
    <2>1. \/ /\ adoption'.stage = "read" /\ adoption'.current = adoption.current
             /\ adoption'.stored = disk
          \/ adoption'.stage = "idle"
      BY <1>13 DEF AdoptReads
    <2>2. memory' = memory /\ disk' = disk /\ refresh' = refresh /\ connect' = connect
          /\ adoption.stage = "asked"
      BY <1>13 DEF AdoptReads
    <2> QED BY <1>0, <2>1, <2>2 DEF StoreFirst, Expiring
  <1>14. CASE AdoptLands
    <2>1. adoption'.stage = "idle" /\ disk' = disk /\ refresh' = refresh /\ connect' = connect
          /\ (memory' = memory \/ memory' = adoption.stored) /\ adoption.stage = "read"
      BY <1>14 DEF AdoptLands
    <2> QED BY <1>0, <2>1 DEF StoreFirst, Expiring
  <1>15. CASE Relaunch
    BY <1>0, <1>15 DEF Relaunch, StoreFirst, Expiring
  <1>16. CASE StoreCleared
    BY <1>0, <1>16 DEF StoreCleared, StoreFirst, Expiring
  <1> QED BY <1>1, <1>2, <1>3, <1>4, <1>5, <1>6, <1>7, <1>8, <1>9, <1>10, <1>11, <1>12,
             <1>13, <1>14, <1>15, <1>16 DEF Moves

\* What an adoption finds in a store the app is about to refresh.
LEMMA MovesCrossing ==
    ASSUME TypeOK, CallStages, Minted, StoreFirst, Crossing, Moves
    PROVE  Crossing'
  <1> USE Fields
  <1>0. /\ hour' = hour /\ hour \in Nat /\ byTask' = byTask
        /\ \A t \in Token : t # None /\ t.login \in Logins
    BY MovesAre, TokenFacts DEF Moving, TypeOK
  <1> SUFFICES ASSUME adoption'.stage = "read", Expiring(adoption.stored)',
                      NEW l, l = adoption'.stored.login, byTask[l] = 0,
                      (refresh' # Idle /\ refresh'.token.login = l) \/ New(disk, l)'
               PROVE  adoption'.current = None \/ adoption'.current.login = l
    BY <1>0 DEF Crossing
  <1>a. adoption'.stored # None /\ adoption'.stored.born < hour
    BY <1>0 DEF Expiring
  <1>b. ASSUME adoption' = adoption,
               (refresh # Idle /\ refresh.token.login = l) \/ New(disk, l)
        PROVE  adoption'.current = None \/ adoption'.current.login = l
    BY <1>0, <1>a, <1>b DEF Crossing, Expiring
  <1>1. CASE RefreshStarts
    <2>1. refresh'.token = memory /\ adoption' = adoption /\ disk' = disk /\ Expiring(memory)
      BY <1>1 DEF RefreshStarts
    <2>2. memory = adoption.current
      BY <2>1 DEF StoreFirst
    <2> QED BY <1>0, <1>b, <2>1, <2>2 DEF New
  <1>2. CASE RefreshDenied
    <2>1. refresh' = Idle /\ disk' = disk /\ adoption' = adoption
      BY <1>2 DEF RefreshDenied, Disconnect
    <2> QED BY <1>0, <1>b, <2>1 DEF New
  <1>3. CASE RefreshStores
    <2>1. /\ adoption' = adoption /\ refresh # Idle
          /\ (refresh' = Idle \/ refresh'.token = refresh.token)
          /\ (disk' = disk \/ disk' = refresh.token)
      BY <1>3 DEF RefreshStores, Stages
    <2> QED BY <1>0, <1>b, <2>1 DEF New
  <1>4. CASE RefreshCommits
    BY <1>0, <1>4, <1>b DEF RefreshCommits, New
  <1>5. CASE SignOut
    <2>1. disk' = disk /\ adoption' = adoption /\ refresh' = refresh
      BY <1>5 DEF SignOut, Disconnect
    <2> QED BY <1>0, <1>b, <2>1 DEF New
  <1>6. CASE ConnectStores
    <2>1. /\ adoption' = adoption /\ refresh' = refresh /\ connect # Idle
          /\ (disk' = disk \/ disk' = connect.token) /\ connect.token.born = hour
      BY <1>6 DEF ConnectStores, CallStages, Made
    <2>2. disk'.login = l /\ disk' = connect.token => adoption.stored = connect.token
      BY <2>1 DEF Minted, Seen, Tokens, Stored
    <2> QED BY <1>0, <1>a, <1>b, <2>1, <2>2 DEF New
  <1>7. CASE ConnectCommits
    BY <1>0, <1>7, <1>b DEF ConnectCommits, New
  <1>8. CASE TaskReads
    BY <1>0, <1>8, <1>b DEF TaskReads, New
  <1>9. CASE TaskSends
    BY <1>0, <1>9, <1>b DEF TaskSends, New
  <1>10. CASE TaskEnds
    <2>1. /\ adoption' = adoption /\ refresh' = refresh
          /\ (disk' = disk \/ (disk' = task.token /\ task.stage = "granted"))
      BY <1>10 DEF TaskEnds
    <2>2. task.stage = "granted" => task.token.login # l
      BY TokenFacts, <1>0 DEF CallStages, TypeOK
    <2> QED BY <1>0, <1>b, <2>1, <2>2 DEF New
  <1>11. CASE Sleep
    BY <1>0, <1>11, <1>b DEF Sleep, New
  <1>12. CASE Wake
    <2>1. adoption'.stage = "asked"
      BY <1>12 DEF Wake
    <2> QED BY <2>1
  <1>13. CASE AdoptReads
    <2>1. /\ adoption'.current = adoption.current /\ adoption'.stored = disk
          /\ memory' = memory /\ disk' = disk /\ refresh' = refresh /\ adoption.stage = "asked"
      BY <1>13, adoption'.stage = "read" DEF AdoptReads
    <2>2. Expiring(disk)
      BY <1>0, <1>a, <2>1 DEF Expiring
    <2>3. refresh # Idle /\ refresh.token.login = l
      BY <1>0, <1>a, <2>1 DEF New
    <2> QED BY <2>1, <2>2, <2>3 DEF StoreFirst
  <1>14. CASE AdoptLands
    <2>1. adoption'.stage = "idle"
      BY <1>14 DEF AdoptLands
    <2> QED BY <2>1
  <1>15. CASE Relaunch
    <2>1. adoption'.stage = "idle"
      BY <1>15 DEF Relaunch
    <2> QED BY <2>1
  <1>16. CASE StoreCleared
    <2>1. adoption' = adoption /\ refresh' = refresh /\ (disk' = disk \/ disk' = None)
      BY <1>16 DEF StoreCleared
    <2>2. None.login = 0 /\ l # 0
      <3>1. None.login = 0
        BY DEF None
      <3>2. adoption.stored \in Token
        BY <1>a, <2>1 DEF TypeOK
      <3> QED BY <3>1, <3>2, <2>1, TokenFacts
    <2> QED BY <1>0, <1>b, <2>1, <2>2 DEF New
  <1> QED BY <1>1, <1>2, <1>3, <1>4, <1>5, <1>6, <1>7, <1>8, <1>9, <1>10, <1>11, <1>12,
             <1>13, <1>14, <1>15, <1>16 DEF Moves

\* What each of these steps may do to the app's copies and to the calls.
LEMMA MovesEffects ==
    ASSUME TypeOK, CallStages, Moves
    PROVE  /\ refresh'.stage = "sent" => refresh' = refresh \/ RefreshStarts
           /\ Made(refresh') => Made(refresh) /\ refresh'.token = refresh.token
           /\ refresh'.stage = "stored" => refresh' = refresh \/ disk' = refresh.token
           /\ task'.stage = "granted" => task' = task
           /\ \/ memory' = memory \/ memory' \in Stored \/ memory' = None
              \/ memory'.born = hour
           /\ \/ disk' = disk \/ disk' = None \/ (disk' = connect.token /\ connect # Idle)
              \/ (disk' = refresh.token /\ Made(refresh))
              \/ (disk' = task.token /\ task.stage = "granted")
           /\ disk' = disk =>
               /\ \/ memory' \in {memory, adoption.stored, disk, None}
                  \/ (memory' = connect.token /\ connect # Idle)
                  \/ (memory' = refresh.token /\ refresh.stage = "stored")
               /\ adoption'.stored \in {None, adoption.stored, disk}
  <1> USE Fields
  <1>0. "stored" \in Stages /\ "sent" \in Stages
    BY DEF Stages
  <1>1. CASE RefreshStarts
    <2>1. refresh'.stage = "sent"
      BY <1>1 DEF RefreshStarts
    <2> QED BY <1>1, <2>1 DEF RefreshStarts, Made
  <1>2. CASE RefreshDenied
    BY <1>2 DEF RefreshDenied, Disconnect, Made
  <1>3. CASE RefreshStores
    <2>1. \/ refresh' = Idle /\ disk' = disk
          \/ refresh' = [stage |-> "stored", token |-> refresh.token] /\ disk' = refresh.token
      BY <1>0, <1>3 DEF RefreshStores
    <2> QED BY <1>3, <2>1 DEF RefreshStores, Made
  <1>4. CASE RefreshCommits
    BY <1>4 DEF RefreshCommits, CallStages, Made
  <1>5. CASE SignOut
    BY <1>5 DEF SignOut, Disconnect, Made
  <1>6. CASE ConnectStores
    BY <1>6 DEF ConnectStores, Made
  <1>7. CASE ConnectCommits
    BY <1>7 DEF ConnectCommits, CallStages, Made
  <1>8. CASE TaskReads
    BY <1>8 DEF TaskReads, Made
  <1>9. CASE TaskSends
    <2>1. task'.stage = "sent"
      BY <1>0, <1>9 DEF TaskSends
    <2> QED BY <1>9, <2>1 DEF TaskSends, Made
  <1>10. CASE TaskEnds
    BY <1>10 DEF TaskEnds, Made
  <1>11. CASE Sleep
    BY <1>11 DEF Sleep, Made
  <1>12. CASE Wake
    <2>1. adoption'.stored = None
      BY <1>12 DEF Wake
    <2> QED BY <1>12, <2>1 DEF Wake, Made
  <1>13. CASE AdoptReads
    <2>1. adoption'.stored \in {disk, None}
      BY <1>13 DEF AdoptReads
    <2> QED BY <1>13, <2>1 DEF AdoptReads, Made
  <1>14. CASE AdoptLands
    BY <1>14 DEF AdoptLands, Made, Stored
  <1>15. CASE Relaunch
    BY <1>15 DEF Relaunch, Made, Stored
  <1>16. CASE StoreCleared
    BY <1>16 DEF StoreCleared, Made
  <1> QED BY <1>1, <1>2, <1>3, <1>4, <1>5, <1>6, <1>7, <1>8, <1>9, <1>10, <1>11, <1>12,
             <1>13, <1>14, <1>15, <1>16 DEF Moves

\* The order of live and older tokens after the task's first refresh.
LEMMA MovesLead ==
    ASSUME TypeOK, Issued, CallStages, Minted, Moves,
           NEW l \in Logins, Valid(l), Once(l), Lead(l)
    PROVE  Lead(l)'
  <1> USE Fields
  <1> SUFFICES ASSUME byTask'[l] = 1
               PROVE  /\ SentLeads(l)' /\ MemoryLeads(l)' /\ MadeIsLive(l)'
                      /\ TaskIsLive(l)' /\ StoreAhead(l)'
    BY DEF Lead
  <1> DEFINE live == families[l].live
  <1>1. Moving
    BY MovesAre
  <1>2. /\ hour' = hour /\ families' = families /\ byTask[l] = 1 /\ hour \in Nat
        /\ live \in Nat /\ None.login = 0 /\ l # 0 /\ l \in Nat
    BY <1>1 DEF Moving, TypeOK, None, Logins, Family
  <1>3. /\ SentLeads(l) /\ MemoryLeads(l) /\ MadeIsLive(l) /\ TaskIsLive(l) /\ StoreAhead(l)
    BY <1>2 DEF Lead
  <1>4. \A t \in Tokens' : t.login = l => t \in Tokens /\ t.jti \in Nat
    BY <1>1, <1>2, TokenFacts DEF Moving
  <1>5. \A t \in Stored' : t.login = l => t \in Stored \/ t.born = hour
    BY <1>1, <1>2 DEF Moving
  <1>6. connect # Idle => connect.token.login # l
    BY <1>2 DEF Minted
  <1>7. \A t \in Tokens : t.login = l => t.jti = live \/ t.jti + 1 = live
    BY <1>2 DEF Valid
  <1>8. /\ \A s, t \in Stored : Old(s, l) /\ Old(t, l) => s.jti = t.jti
        /\ \A s, t \in Tokens : New(t, l) /\ t.jti # live /\ Old(s, l) => s.jti # live
    BY <1>2 DEF Once
  <1>9. memory' \in Tokens' /\ Stored' \subseteq Tokens' /\ adoption'.stored \in Tokens'
    BY DEF Tokens, Stored
  <1>a. memory \in Tokens /\ disk \in Tokens /\ refresh.token \in Tokens
    BY DEF Tokens, Stored
  <1>11. SentLeads(l)'
    <2> SUFFICES ASSUME refresh'.stage = "sent", refresh'.token.login = l,
                        refresh'.token.jti = live,
                        NEW t \in Tokens', t.login = l
                 PROVE  t.jti = live
      BY <1>2 DEF SentLeads
    <2>1. CASE refresh' = refresh
      BY <1>3, <1>4, <2>1 DEF SentLeads
    <2>2. CASE RefreshStarts
      <3>1. /\ refresh'.token = memory /\ memory' = memory /\ refresh.token = None
            /\ Expiring(memory)
        BY <2>2 DEF RefreshStarts
      <3>2. Old(memory, l) /\ memory.jti = live
        BY <3>1 DEF Old, Expiring
      <3>3. \A s \in Stored \cup {connect.token} : s.login = l => s.jti = live
        BY <1>3, <3>2 DEF MemoryLeads
      <3>4. t \in Stored \cup {connect.token, memory}
        BY <1>2, <1>4, <3>1 DEF Tokens
      <3> QED BY <3>2, <3>3, <3>4
    <2> QED BY <2>1, <2>2, MovesEffects
  <1>12. MemoryLeads(l)'
    <2> SUFFICES ASSUME Old(memory', l), memory'.jti = live,
                        NEW t \in Stored' \cup {connect'.token}, t.login = l
                 PROVE  t.jti = live
      BY <1>2 DEF MemoryLeads, Old
    <2>1. t \in Stored'
      BY <1>1, <1>2, <1>6 DEF Moving
    <2>2. memory' \in Tokens /\ t \in Tokens
      BY <1>4, <1>9, <2>1 DEF Old
    <2>3. CASE t.born = hour
      BY <1>8, <2>2, <2>3 DEF New
    <2>4. CASE t.born # hour /\ memory' = memory
      BY <1>3, <1>5, <2>1, <2>4 DEF MemoryLeads
    <2>5. CASE t.born # hour /\ memory' \in Stored
      <3>1. t \in Stored /\ t \in Seen /\ t.born \in Nat
        BY <1>5, <2>1, <2>5, TokenFacts
      <3>2. Old(t, l)
        BY <1>2, <2>5, <3>1 DEF Issued, Old
      <3> QED BY <1>2, <1>8, <2>5, <3>1, <3>2 DEF Old
    <2> QED BY <1>2, <2>3, <2>4, <2>5, MovesEffects DEF Old
  <1>13. MadeIsLive(l)'
    <2>1. Made(refresh') /\ refresh'.token.login = l => refresh'.token.jti = live
      BY <1>3, MovesEffects DEF MadeIsLive
    <2>2. ASSUME refresh'.stage = "stored", refresh'.token.login = l, disk'.login = l
          PROVE  disk'.jti = live
      <3>1. CASE disk' = disk /\ refresh' = refresh
        BY <1>3, <2>2, <3>1 DEF MadeIsLive
      <3>2. CASE disk' = refresh.token
        BY <2>1, <2>2, <3>2, MovesEffects DEF Made
      <3>3. CASE disk' = task.token /\ task.stage = "granted"
        BY <1>3, <2>2, <3>3 DEF TaskIsLive
      <3> QED BY <1>2, <1>6, <2>2, <3>1, <3>2, <3>3, MovesEffects
    <2> QED BY <1>2, <2>1, <2>2 DEF MadeIsLive
  <1>14. TaskIsLive(l)'
    BY <1>2, <1>3, <1>4, MovesEffects DEF TaskIsLive, Old
  <1>15. StoreAhead(l)'
    <2> SUFFICES ASSUME NEW t \in {memory', adoption'.stored}, t.login = l, disk'.login = l
                 PROVE  t.jti <= disk'.jti
      BY DEF StoreAhead
    <2>1. t \in Tokens /\ t.jti \in Nat /\ (t.jti = live \/ t.jti + 1 = live)
      BY <1>4, <1>7, <1>9
    <2>2. CASE disk'.jti = live
      BY <1>2, <2>1, <2>2
    <2>3. CASE disk' = disk
      <3>1. CASE t = memory \/ t = adoption.stored
        BY <1>3, <2>3, <3>1 DEF StoreAhead
      <3>2. CASE t = disk
        BY <2>1, <2>3, <3>2
      <3>3. CASE t = refresh.token /\ refresh.stage = "stored"
        BY <1>3, <2>1, <2>2, <2>3, <3>3 DEF MadeIsLive
      <3> QED BY <1>2, <1>6, <2>3, <3>1, <3>2, <3>3, MovesEffects
    <2>4. CASE disk' = refresh.token /\ Made(refresh)
      BY <1>3, <2>2, <2>4 DEF MadeIsLive
    <2>5. CASE disk' = task.token /\ task.stage = "granted"
      BY <1>3, <2>2, <2>5 DEF TaskIsLive
    <2> QED BY <1>2, <1>6, <2>3, <2>4, <2>5, MovesEffects
  <1> QED BY <1>11, <1>12, <1>13, <1>14, <1>15

\* Memory and store agree before it: an adoption puts no older token back.
LEMMA MovesRest ==
    ASSUME TypeOK, Issued, CallStages, Minted, StoreFirst, Crossing, Moves,
           NEW l \in Logins, Even(l), Rest(l)
    PROVE  Rest(l)'
  <1> USE Fields
  <1> DEFINE live == families[l].live
  <1>0. /\ byTask' = byTask /\ None.login = 0 /\ l # 0 /\ hour \in Nat
        /\ \A t \in Token \cup {None} : t.born \in Nat
    BY MovesAre, TokenFacts DEF Moving, None, Logins, TypeOK
  <1> SUFFICES ASSUME byTask[l] = 0, memory'.login = l, disk'.login = l
               PROVE  memory'.jti = disk'.jti \/ refresh'.stage = "stored"
    BY <1>0 DEF Rest
  <1>1. /\ \A s, t \in Seen : Old(s, l) /\ Old(t, l) => s.jti = t.jti
        /\ \A t \in Seen : New(t, l) => t.jti = live
    BY DEF Even
  <1>2. \A t \in Seen : t.login = l => Old(t, l) \/ New(t, l)
    BY <1>0 DEF Issued, Old, New
  <1>3. /\ memory \in Seen /\ disk \in Seen /\ refresh.token \in Seen
        /\ adoption.stored \in Seen /\ adoption.current \in Seen
    BY DEF Seen, Tokens, Stored
  <1>4. CASE memory' = memory /\ disk' = disk /\ (refresh' = refresh \/ refresh.stage # "stored")
    BY <1>4 DEF Rest
  <1>5. CASE RefreshStores
    BY <1>4, <1>5 DEF RefreshStores, Stages
  <1>6. CASE RefreshCommits
    <2>1. New(refresh.token, l) /\ disk' = disk /\ memory' = refresh.token
      BY <1>6 DEF RefreshCommits, CallStages, Made, New
    <2>2. ~Old(disk, l)
      BY <1>0, <1>6 DEF RefreshCommits, StoreFirst, Expiring, Old
    <2> QED BY <1>1, <1>2, <1>3, <2>1, <2>2
  <1>7. CASE ConnectStores
    <2>1. CASE disk' = disk
      BY <1>4, <1>7, <2>1 DEF ConnectStores
    <2>2. CASE disk' = connect.token /\ connect # Idle
      BY <1>3, <1>7, <2>2 DEF ConnectStores, Minted
    <2> QED BY <1>7, <2>1, <2>2 DEF ConnectStores
  <1>8. CASE ConnectCommits
    BY <1>3, <1>8 DEF ConnectCommits, Minted
  <1>9. CASE TaskEnds
    <2>1. task.stage # "granted" \/ task.token.login # l
      BY DEF CallStages
    <2> QED BY <1>4, <1>9, <2>1 DEF TaskEnds
  <1>10. CASE AdoptLands /\ memory' # memory
    <2>1. /\ memory' = adoption.stored /\ disk' = disk /\ adoption.stage = "read"
          /\ RotatedStored(adoption.current, adoption.stored)
      BY <1>10 DEF AdoptLands
    <2>2. /\ adoption.current # None /\ adoption.stored # None
          /\ <<adoption.stored.login, adoption.stored.jti>>
               # <<adoption.current.login, adoption.current.jti>>
      BY <2>1 DEF RotatedStored, SameGateway
    <2>3. CASE Old(disk, l)
      BY <1>0, <2>1, <2>3 DEF StoreFirst, Expiring, Old
    <2>4. CASE New(disk, l) /\ New(adoption.stored, l)
      BY <1>1, <1>3, <2>1, <2>4
    <2>5. CASE New(disk, l) /\ Old(adoption.stored, l)
      <3>1. Expiring(adoption.stored) /\ adoption.stored.login = l
        BY <2>2, <2>5 DEF Expiring, Old
      <3>2. adoption.current.login = l
        BY <2>1, <2>2, <2>5, <3>1 DEF Crossing
      <3>3. Old(adoption.current, l)
        BY <2>1, <2>2, <3>1, <3>2 DEF StoreFirst, Expiring, Old
      <3>4. adoption.current.jti = adoption.stored.jti
        BY <1>1, <1>3, <2>5, <3>3
      <3> QED BY <2>2, <3>1, <3>2, <3>4
    <2> QED BY <1>2, <1>3, <2>1, <2>3, <2>4, <2>5
  <1>11. CASE Relaunch
    BY <1>0, <1>11 DEF Relaunch
  <1>12. CASE RefreshStarts
    BY <1>4, <1>12 DEF RefreshStarts
  <1>13. CASE RefreshDenied \/ SignOut
    BY <1>0, <1>13 DEF RefreshDenied, SignOut, Disconnect
  <1>15. CASE StoreCleared
    BY <1>0, <1>4, <1>15 DEF StoreCleared
  <1>14. CASE \/ TaskReads \/ TaskSends \/ Sleep \/ Wake \/ AdoptReads
              \/ (AdoptLands /\ memory' = memory)
    BY <1>4, <1>14 DEF TaskReads, TaskSends, Sleep, Wake, AdoptReads, AdoptLands
  <1> QED BY <1>5, <1>6, <1>7, <1>8, <1>9, <1>10, <1>11, <1>12, <1>13, <1>14, <1>15 DEF Moves

\* The moves keep the invariant.
LEMMA MovesKeep ==
    ASSUME TokensInv, Moves
    PROVE  Rules'
  <1> USE DEF TokensInv, Rules
  <1>1. Moving
    BY MovesAre
  <1>2. Issued' /\ OneStep' /\ Minted'
    BY <1>1, MovingKeeps
  <1>3. CallStages'
    BY MovesStages
  <1>4. StoreFirst'
    BY MovesStoreFirst
  <1>5. Crossing'
    BY MovesCrossing
  <1>6. ASSUME NEW l \in Logins
        PROVE  Valid(l)' /\ Even(l)' /\ Rest(l)' /\ Once(l)' /\ Lead(l)'
    <2>1. Valid(l) /\ Even(l) /\ Rest(l) /\ Once(l) /\ Lead(l)
      BY DEF Grace
    <2>2. Valid(l)' /\ Even(l)' /\ Once(l)'
      BY <1>1, <2>1, MovingGrace
    <2>3. Rest(l)'
      BY <2>1, MovesRest
    <2>4. Lead(l)'
      BY <2>1, MovesLead
    <2> QED BY <2>2, <2>3, <2>4
  <1> QED BY <1>2, <1>3, <1>4, <1>5, <1>6 DEF Grace

----------------------------------------------------------------------------
(* The other steps.                                                         *)

\* With nothing under way, every token of the app expires.
LEMMA HourKeeps ==
    ASSUME TokensInv, HourPasses
    PROVE  Rules'
  <1> USE DEF TokensInv, Rules
  <1> USE Fields
  <1>1. /\ hour' = hour + 1 /\ hour \in Nat /\ families' = families /\ byTask' = byTask
        /\ logins' = logins /\ memory' = memory /\ disk' = disk
        /\ refresh = Idle /\ connect = Idle /\ task = Idle /\ adoption = NoAdoption
        /\ refresh' = Idle /\ connect' = Idle /\ task' = Idle /\ adoption' = NoAdoption
        /\ None.login = 0
    BY DEF HourPasses, gatewayVars, TypeOK, None
  <1>2. /\ Seen = {memory, disk, None} /\ Seen' = {memory, disk, None}
        /\ Tokens = {memory, disk, None} /\ Tokens' = {memory, disk, None}
        /\ Stored = {disk, None} /\ Stored' = {disk, None}
    BY <1>1 DEF Seen, Tokens, Stored
  <1>3. \A t \in Seen : t.login <= logins /\ t.born <= hour /\ t.born \in Nat /\ t.jti \in Nat
    BY TokenFacts DEF Issued
  <1>4. \A t \in Seen : t.born < hour' /\ t.born <= hour'
    BY <1>1, <1>3
  <1>5. Issued'
    BY <1>1, <1>2, <1>3, <1>4 DEF Issued
  <1>6. CallStages'
    BY <1>1 DEF CallStages, Made, Asking
  <1>7. OneStep' /\ Minted'
    BY <1>1 DEF OneStep, Minted
  <1>8. StoreFirst' /\ Crossing'
    <2>1. memory' = None \/ Expiring(memory)'
      BY <1>1, <1>2, <1>4 DEF Expiring
    <2> QED BY <1>1, <2>1 DEF StoreFirst, Crossing
  <1>9. ASSUME NEW l \in Logins
        PROVE  Valid(l)' /\ Even(l)' /\ Rest(l)' /\ Once(l)' /\ Lead(l)'
    <2> DEFINE live == families[l].live
    <2>1. l # 0 /\ live \in Nat /\ Valid(l) /\ Rest(l) /\ Lead(l)
      BY DEF Logins, TypeOK, Family, Grace
    <2>2. \A t \in Seen' : t.login = l => t \in {memory, disk} /\ ~New(t, l)'
      BY <1>1, <1>2, <1>4, <2>1 DEF New
    <2>3. Valid(l)'
      BY <1>1, <1>2, <2>1 DEF Valid
    <2>4. Rest(l)'
      BY <1>1, <2>1 DEF Rest
    <2>5. Even(l)'
      <3>1. byTask[l] = 0 /\ memory.login = l /\ disk.login = l => memory.jti = disk.jti
        BY <1>1, <2>1 DEF Rest
      <3>2. \A t \in Seen' : /\ Old(t, l)' => t.login = l /\ t \in {memory, disk}
                            /\ ~New(t, l)'
        BY <2>2 DEF Old, New
      <3>3. byTask[l] = 0 => \A s, t \in Seen' : Old(s, l)' /\ Old(t, l)' => s.jti = t.jti
        BY <3>1, <3>2
      <3> QED BY <1>1, <3>2, <3>3 DEF Even
    <2>6. Once(l)'
      <3>1. \A s, t \in Stored' : Old(s, l)' /\ Old(t, l)' => s.jti = t.jti
        BY <1>1, <1>2, <2>1 DEF Old
      <3>2. \A t \in Tokens' : ~New(t, l)'
        BY <1>2, <2>2 DEF New
      <3> QED BY <1>1, <3>1, <3>2 DEF Once
    <2>7. Lead(l)'
      <3> SUFFICES ASSUME byTask[l] = 1
                   PROVE  /\ SentLeads(l)' /\ MemoryLeads(l)' /\ MadeIsLive(l)'
                          /\ TaskIsLive(l)' /\ StoreAhead(l)'
        BY <1>1 DEF Lead
      <3>1. StoreAhead(l)
        BY <2>1 DEF Lead
      <3>2. StoreAhead(l)'
        BY <1>1, <3>1 DEF StoreAhead
      <3>3. MemoryLeads(l)'
        <4> SUFFICES ASSUME memory.login = l, memory.jti = live,
                            NEW t \in Stored' \cup {connect'.token}, t.login = l
                     PROVE  t.jti = live
          BY <1>1 DEF MemoryLeads, Old
        <4>1. t = disk
          BY <1>1, <1>2, <2>1
        <4>2. live <= disk.jti
          BY <3>1, <4>1 DEF StoreAhead
        <4>3. disk.jti = live \/ disk.jti + 1 = live
          BY <1>2, <2>1, <4>1 DEF Valid
        <4>4. disk.jti \in Nat
          BY <1>2, <1>3
        <4> QED BY <2>1, <4>1, <4>2, <4>3, <4>4
      <3>4. SentLeads(l)' /\ MadeIsLive(l)' /\ TaskIsLive(l)'
        BY <1>1 DEF SentLeads, MadeIsLive, TaskIsLive, Made
      <3> QED BY <3>2, <3>3, <3>4
    <2> QED BY <2>3, <2>4, <2>5, <2>6, <2>7
  <1> QED BY <1>5, <1>6, <1>7, <1>8, <1>9 DEF Grace

\* A sign-in: a login that no token is of.
LEMMA MintKeeps ==
    ASSUME TokensInv, ConnectMinted
    PROVE  Rules'
  <1> USE Fields DEF TokensInv, Rules
  <1> DEFINE n == logins + 1
             c == [login |-> n, jti |-> 1, born |-> hour]
  <1>1. PICK g \in Gateways : families' = [families EXCEPT ![n] = Registered(g)]
    BY DEF ConnectMinted
  <1>2. /\ hour' = hour /\ hour \in Nat /\ byTask' = byTask /\ logins' = n
        /\ memory' = memory /\ disk' = disk /\ refresh' = refresh /\ task' = task
        /\ adoption' = adoption /\ connect = Idle
        /\ connect' = [stage |-> "granted", token |-> c]
        /\ None.login = 0
    BY DEF ConnectMinted, clockVars, None, TypeOK
  <1>3. connect'.stage = "granted" /\ connect'.token = c
    BY <1>2
  <1>4. /\ n \in Logins /\ logins \in Nat /\ families \in [Logins -> Family]
    BY TokensAssumption DEF ConnectMinted, TypeOK, Logins
  <1>5. /\ families'[n].live = 1 /\ families'[n].prev = 0
        /\ \A l \in Logins : l # n => families'[l] = families[l]
    BY <1>1, <1>4 DEF Registered
  <1>6. \A t \in Seen : t.login <= logins /\ t.login \in Nat /\ t.login # n /\ t.born <= hour
    BY <1>4, TokenFacts DEF Issued
  <1>7. /\ \A t \in Seen' : t \in Seen \/ t = c
        /\ \A t \in Tokens' : t \in Tokens \/ t = c
        /\ \A t \in Stored' : t \in Stored
    BY <1>2, <1>3 DEF Seen, Tokens, Stored
  <1>8. byTask[n] = 0
    <2>1. byTask[n] \in Nat /\ ~(n <= logins)
      BY <1>4 DEF TypeOK
    <2> QED BY <1>4, <2>1 DEF OneStep
  <1>9. Issued'
    BY <1>2, <1>4, <1>6, <1>7 DEF Issued
  <1>10. CallStages'
    BY <1>2, <1>3 DEF CallStages, Made, Asking
  <1>11. OneStep'
    <2>1. ASSUME NEW l \in Logins, l # n
          PROVE  /\ families'[l].live # 0 => families'[l].prev + 1 = families'[l].live
                 /\ byTask'[l] > 0 => l <= logins'
      <3>1. l \in Nat
        BY DEF Logins
      <3> QED BY <1>2, <1>4, <1>5, <2>1, <3>1 DEF OneStep
    <2>2. byTask'[n] = 0 /\ families'[n].prev + 1 = families'[n].live
      BY <1>2, <1>5, <1>8
    <2> QED BY <2>1, <2>2 DEF OneStep
  <1>12. Minted'
    BY <1>2, <1>3, <1>5, <1>6, <1>7, <1>8 DEF Minted
  <1>13. StoreFirst' /\ Crossing'
    <2>1. connect'.stage # "stored"
      BY <1>3
    <2> QED BY <1>2, <2>1 DEF StoreFirst, Crossing, Expiring, New
  <1>14. ASSUME NEW l \in Logins
         PROVE  Valid(l)' /\ Even(l)' /\ Rest(l)' /\ Once(l)' /\ Lead(l)'
    <2>0. Valid(l) /\ Even(l) /\ Rest(l) /\ Once(l) /\ Lead(l)
      BY DEF Grace
    <2>1. CASE l # n
      <3>1. Keeps(l)
        BY <1>2, <1>5, <1>7, <2>1 DEF Keeps
      <3>2. Valid(l)' /\ Even(l)' /\ Once(l)'
        BY <2>0, <3>1, KeepsGrace
      <3>3. Rest(l)'
        BY <1>2, <2>0 DEF Rest
      <3>4. Lead(l)'
        <4>1. \A t \in Stored' \cup {connect'.token} : t.login = l => t \in Stored
          BY <1>3, <1>7, <2>1
        <4> QED BY <1>2, <1>5, <2>0, <2>1, <3>1, <4>1
                DEF Lead, SentLeads, MemoryLeads, MadeIsLive, TaskIsLive, StoreAhead, Keeps, Old
      <3> QED BY <3>2, <3>3, <3>4
    <2>2. CASE l = n
      <3>1. \A t \in Seen' \cup Tokens' : t.login = l => t = c
        BY <1>6, <1>7, <2>2
      <3>2. byTask'[l] = 0 /\ families'[l].live = 1 /\ c.jti = 1 /\ c.born = hour
        BY <1>2, <1>5, <1>8, <2>2
      <3>3. Valid(l)'
        BY <3>1, <3>2 DEF Valid
      <3>4. Even(l)'
        BY <1>2, <3>1, <3>2 DEF Even, Old, New
      <3>5. Rest(l)'
        BY <1>2, <1>6, <2>2 DEF Rest, Seen, Tokens
      <3>6. Once(l)' /\ Lead(l)'
        BY <3>2 DEF Once, Lead
      <3> QED BY <3>3, <3>4, <3>5, <3>6
    <2> QED BY <2>1, <2>2
  <1> QED BY <1>9, <1>10, <1>11, <1>12, <1>13, <1>14 DEF Grace

\* An answer to a token t: its family, and the call that gets the answer or not.
LEMMA AnswerIs ==
    ASSUME TypeOK, Issued, OneStep, NEW t \in Token, t \in Seen, t.born < hour,
           NEW c, c = Idle \/ c = Grant(t)
    PROVE  /\ c = Idle \/ c.token.login = t.login
           /\ c.stage \in {"idle", "granted", "denied"}
           /\ c.stage = "granted" => c.token.born = hour /\ c.token.jti = Rotate(t).live
           /\ c.stage = "denied" => c.token = t /\ Rotate(t).live = 0
           /\ c.stage = "idle" => c = Idle
           /\ c.stage = "granted" => Rotate(t).live # 0
           /\ c.token \in Token \cup {None}
           /\ Rotate(t).live # 0 => Rotate(t).prev + 1 = Rotate(t).live
  <1>1. families \in [Logins -> Family] /\ hour \in 0..MaxHours /\ t.login \in Logins
    BY TokenFacts DEF TypeOK
  <1>2. t.jti \in Nat
    BY TokenFacts
  <1>3. Rotate(t).live # 0 => Rotate(t).prev + 1 = Rotate(t).live
    BY <1>1, <1>2, RotateIs DEF OneStep
  <1>4. CASE c = Idle
    BY <1>3, <1>4, Fields
  <1>5. CASE c = Grant(t)
    BY <1>1, <1>3, <1>5, GrantIs DEF Call
  <1> QED BY <1>4, <1>5

\* The answer to the app.  Presenting the live token finds all others live too;
\* presenting the one before is a retry and changes nothing.
LEMMA RefreshKeeps ==
    ASSUME TokensInv, RefreshAnswered
    PROVE  Rules'
  <1> USE Fields DEF TokensInv, Rules
  <1>1. PICK r \in Token : r = refresh.token
    BY DEF RefreshAnswered
  <1>2. PICK k \in Logins : k = r.login
    BY TokenFacts
  <1>3. /\ hour' = hour /\ hour \in Nat /\ byTask' = byTask /\ logins' = logins
        /\ memory' = memory /\ disk' = disk /\ connect' = connect /\ task' = task
        /\ adoption' = adoption /\ refresh.stage = "sent" /\ None.login = 0
        /\ families \in [Logins -> Family] /\ logins \in Nat
    BY DEF RefreshAnswered, clockVars, None, TypeOK, Logins
  <1>4. /\ (families' = families /\ refresh' = Idle) \/ families' = Rotated(r)
        /\ refresh' = Idle \/ refresh' = Grant(r)
    BY <1>1 DEF RefreshAnswered
  <1>5. r \in Seen /\ r.born < hour /\ r.jti \in Nat
    BY <1>1, <1>3, TokenFacts DEF CallStages, Asking, Seen, Tokens
  <1>6. /\ refresh' = Idle \/ refresh'.token.login = k
        /\ refresh'.stage \in {"idle", "granted", "denied"}
        /\ refresh'.stage = "granted"
             => /\ refresh'.token.born = hour /\ Rotate(r).live # 0
                /\ refresh'.token.jti = Rotate(r).live
        /\ refresh'.stage = "denied" => refresh'.token = r /\ Rotate(r).live = 0
        /\ refresh'.stage = "idle" => refresh' = Idle
        /\ Rotate(r).live # 0 => Rotate(r).prev + 1 = Rotate(r).live
    BY <1>2, <1>4, <1>5, AnswerIs
  <1>7. /\ \A l \in Logins : l # k => families'[l] = families[l]
        /\ families'[k] = families[k] \/ families'[k] = Rotate(r)
        /\ refresh' # Idle => families'[k] = Rotate(r)
    BY <1>2, <1>3, <1>4, RotatedIs
  <1>8. /\ \A t \in Seen' : t \in Seen \/ t = refresh'.token
        /\ \A t \in Tokens' : t \in Tokens \/ t = refresh'.token
        /\ Stored' = Stored
    BY <1>3 DEF Seen, Tokens, Stored
  <1>9. refresh'.token.login <= logins /\ refresh'.token.born <= hour
    <2>1. k <= logins /\ r.born <= hour
      BY <1>2, <1>5 DEF Issued
    <2>2. None.login <= logins /\ None.born <= hour
      BY <1>3 DEF None
    <2>3. refresh'.token.login <= logins
      BY <1>6, <2>1, <2>2
    <2>4. refresh'.token.born <= hour
      BY <1>3, <1>6, <2>1, <2>2
    <2> QED BY <2>3, <2>4
  <1>10. Issued'
    BY <1>3, <1>8, <1>9 DEF Issued
  <1>11. CallStages'
    <2>1. /\ Made(refresh') => refresh'.token.born = hour
          /\ Asking(refresh') => refresh'.token.born < hour
          /\ refresh'.stage # "read" /\ (refresh'.stage = "idle" => refresh' = Idle)
      BY <1>5, <1>6 DEF Made, Asking
    <2> QED BY <1>3, <2>1 DEF CallStages, Made, Asking
  <1>12. OneStep'
    BY <1>3, <1>6, <1>7 DEF OneStep
  <1>13. Minted'
    <2> SUFFICES ASSUME connect # Idle PROVE Minted'
      BY <1>3 DEF Minted
    <2>1. connect.token.login # k
      <3>1. connect.token.born = hour
        BY <1>3 DEF CallStages, Made
      <3> QED BY <1>2, <1>3, <1>5, <3>1 DEF Minted
    <2>2. connect.token \in Token
      BY TokenFacts
    <2>3. connect.token.login \in Logins /\ connect.token.login # 0
      BY <2>2, TokenFacts
    <2> QED BY <1>3, <1>6, <1>7, <1>8, <2>1, <2>3 DEF Minted
  <1>14. StoreFirst' /\ Crossing'
    <2>1. /\ refresh'.stage # "stored" /\ refresh # Idle
          /\ refresh' # Idle => refresh'.token.login = refresh.token.login
      BY <1>1, <1>2, <1>3, <1>6
    <2> QED BY <1>3, <2>1 DEF StoreFirst, Crossing, Expiring, New
  <1>15. ASSUME NEW l \in Logins
         PROVE  Valid(l)' /\ Even(l)' /\ Rest(l)' /\ Once(l)' /\ Lead(l)'
    <2>0. Valid(l) /\ Even(l) /\ Rest(l) /\ Once(l) /\ Lead(l) /\ l # 0
      BY DEF Grace, Logins
    <2>1. Rest(l)'
      BY <1>3, <2>0 DEF Rest
    <2>2. CASE families'[l] = families[l] /\ refresh'.token.login # l
      <3>1. Keeps(l)
        BY <1>3, <1>8, <2>2 DEF Keeps
      <3>2. Valid(l)' /\ Even(l)' /\ Once(l)'
        BY <2>0, <3>1, KeepsGrace
      <3>3. Lead(l)'
        <4>1. SentLeads(l)' /\ MadeIsLive(l)'
          BY <2>2 DEF SentLeads, MadeIsLive
        <4>2. MemoryLeads(l) => MemoryLeads(l)'
          BY <1>3, <1>8, <2>2 DEF MemoryLeads, Old
        <4>3. TaskIsLive(l) => TaskIsLive(l)'
          BY <1>3, <2>2, <3>1 DEF TaskIsLive, Keeps, Old
        <4>4. StoreAhead(l) => StoreAhead(l)'
          BY <1>3 DEF StoreAhead
        <4> QED BY <1>3, <2>0, <4>1, <4>2, <4>3, <4>4 DEF Lead
      <3> QED BY <2>1, <3>2, <3>3
    <2>3. CASE l = k /\ families'[k] = Rotate(r) /\ byTask[k] < 2
      <3> DEFINE live == families[k].live
      <3>1. /\ r.jti = live \/ r.jti + 1 = live
            /\ live # 0 /\ live \in Nat
            /\ \A t \in Tokens : t.login = k => t.jti = live \/ t.jti + 1 = live
        BY <1>1, <1>2, <1>3, <2>0, <2>3 DEF Valid, Tokens, Family
      <3>2. PICK now \in Nat : now = families'[k].live /\ now # 0
                             /\ (r.jti = live => now = live + 1)
                             /\ (r.jti + 1 = live => now = live)
        <4>1. families[k].prev + 1 = live /\ families[k].prev \in Nat
          BY <1>2, <1>3, <3>1 DEF OneStep, Family
        <4> QED BY <1>1, <1>2, <1>3, <1>5, <2>3, <3>1, <4>1, RotateIs
      <3>3. \A t \in Seen' : t.login = k
              => t \in Seen \/ (New(t, k)' /\ t.jti = now /\ t = refresh'.token)
        BY <1>3, <1>5, <1>6, <1>8, <2>0, <2>3, <3>2 DEF New
      <3>4. \A t \in Tokens' : t.login = k
              => t \in Tokens \/ (New(t, k)' /\ t.jti = now /\ t = refresh'.token)
        BY <1>1, <1>3, <1>5, <1>6, <1>8, <2>0, <2>3, <3>2 DEF New, Tokens
      <3>5. \A t \in Seen : /\ t.login = k => Old(t, k) \/ New(t, k)
                            /\ t.jti \in Nat /\ t.born \in Nat
        BY <1>3, TokenFacts DEF Issued, Old, New
      <3>6. /\ Old(r, k) /\ r \in Tokens /\ r \in Seen
            /\ \A t : Old(t, k)' <=> Old(t, k)
            /\ \A t : New(t, k)' <=> New(t, k)
        BY <1>1, <1>2, <1>3, <1>5 DEF Old, New, Tokens
      <3>a. \A t : ~(Old(t, k) /\ New(t, k))
        BY <1>3 DEF Old, New
      <3>7. CASE byTask[k] = 0
        <4>1. /\ \A t \in Seen : Old(t, k) => t.jti = r.jti
              /\ \A t \in Seen : New(t, k) => t.jti = live /\ r.jti + 1 = live
          BY <2>0, <2>3, <3>6, <3>7 DEF Even
        <4>2. /\ \A t \in Seen' : Old(t, k)' => t.jti = r.jti
              /\ \A t \in Seen' : New(t, k)' => t.jti = now
          BY <3>1, <3>2, <3>3, <3>6, <3>a, <4>1 DEF Old, New
        <4>3. r.jti + 1 = now
          BY <3>1, <3>2, <1>5
        <4>4. \A t \in Tokens' : t.login = k => t.jti = now \/ t.jti + 1 = now
          BY <3>4, <3>5, <3>6, <4>1, <4>3, <3>2, <3>1
        <4> QED BY <1>3, <2>1, <2>3, <3>2, <3>7, <4>2, <4>3, <4>4 DEF Valid, Even, Once, Lead
      <3>8. CASE byTask[k] = 1
        <4>1. /\ \A s, t \in Stored : Old(s, k) /\ Old(t, k) => s.jti = t.jti
              /\ \A s, t \in Tokens : New(t, k) /\ t.jti # live /\ Old(s, k) => s.jti # live
          BY <2>0, <2>3, <3>8 DEF Once
        <4>2. /\ SentLeads(k) /\ MemoryLeads(k) /\ MadeIsLive(k) /\ TaskIsLive(k)
              /\ StoreAhead(k)
          BY <2>0, <2>3, <3>8 DEF Lead
        <4>3. r.jti = live => \A t \in Tokens : t.login = k => t.jti = live
          BY <1>1, <1>2, <1>3, <4>2 DEF SentLeads
        <4>4. \A t \in Tokens' : t.login = k => t.jti = now \/ t.jti + 1 = now
          BY <3>1, <3>2, <3>4, <4>3
        <4>5. \A s, t \in Tokens' : New(t, k)' /\ t.jti # now /\ Old(s, k)' => s.jti # now
          <5> SUFFICES ASSUME NEW s \in Tokens', NEW t \in Tokens',
                              New(t, k), t.jti # now, Old(s, k)
                       PROVE  s.jti # now
            BY <3>6
          <5>1. s \in Tokens /\ t \in Tokens
            BY <3>4, <3>6, <3>a DEF Old, New
          <5> QED BY <3>1, <3>2, <4>1, <4>3, <5>1 DEF Old
        <4>6. StoreAhead(k)'
          BY <1>3, <4>2 DEF StoreAhead
        <4>7. MadeIsLive(k)'
          BY <1>6, <2>3, <3>2 DEF MadeIsLive, Made
        <4>8. SentLeads(k)'
          BY <1>6 DEF SentLeads
        <4>9. MemoryLeads(k)'
          <5> SUFFICES ASSUME Old(memory, k), memory.jti = now,
                              NEW t \in Stored \cup {connect.token}, t.login = k
                       PROVE  t.jti = now
            BY <1>3, <1>8, <3>2, <3>6 DEF MemoryLeads
          <5>1. memory \in Tokens /\ memory.login = k
            BY DEF Tokens, Old
          <5>2. now = live
            BY <3>1, <3>2, <5>1
          <5> QED BY <4>2, <5>2 DEF MemoryLeads
        <4>10. TaskIsLive(k)'
          <5> SUFFICES ASSUME task.stage = "granted", task.token.login = k
                       PROVE  /\ task.token.jti = now
                              /\ \A t \in Tokens' : Old(t, k) => t.jti # now
            BY <1>3, <3>2, <3>6 DEF TaskIsLive
          <5>1. task.token.jti = live /\ \A t \in Tokens : Old(t, k) => t.jti # live
            BY <4>2 DEF TaskIsLive
          <5>2. now = live
            BY <3>1, <3>2, <3>6, <5>1
          <5> QED BY <3>4, <3>6, <3>a, <5>1, <5>2 DEF Old
        <4>11. Once(k)'
          BY <1>8, <3>2, <3>6, <4>1, <4>5 DEF Once
        <4>12. Valid(k)' /\ Even(k)'
          BY <1>3, <3>2, <3>8, <4>4 DEF Valid, Even
        <4>13. Lead(k)'
          BY <4>6, <4>7, <4>8, <4>9, <4>10 DEF Lead
        <4> QED BY <2>1, <2>3, <4>11, <4>12, <4>13
      <3>9. byTask[k] \in Nat
        BY DEF TypeOK
      <3> QED BY <2>3, <3>7, <3>8, <3>9
    <2>4. CASE l = k /\ families'[k] = Rotate(r) /\ ~(byTask[k] < 2)
      <3>1. byTask'[l] # 0 /\ byTask'[l] # 1 /\ ~(byTask'[l] < 2)
        BY <1>3, <2>4 DEF TypeOK
      <3> QED BY <2>1, <3>1 DEF Valid, Even, Once, Lead
    <2> QED BY <1>6, <1>7, <2>0, <2>2, <2>3, <2>4, <1>3
  <1> QED BY <1>10, <1>11, <1>12, <1>13, <1>14, <1>15 DEF Grace

\* The answer to the task.  Its first refresh of a login finds all expiring tokens
\* equal: they stay one step behind the live one until the task refreshes again.
LEMMA TaskKeeps ==
    ASSUME TokensInv, TaskAnswered
    PROVE  Rules'
  <1> USE Fields DEF TokensInv, Rules
  <1>1. PICK r \in Token : r = task.token
    BY DEF TaskAnswered
  <1>2. PICK k \in Logins : k = r.login
    BY TokenFacts
  <1>3. /\ hour' = hour /\ hour \in Nat /\ logins' = logins
        /\ memory' = memory /\ disk' = disk /\ connect' = connect /\ refresh' = refresh
        /\ adoption' = adoption /\ task.stage = "sent" /\ None.login = 0
        /\ families \in [Logins -> Family] /\ logins \in Nat /\ byTask \in [Logins -> Nat]
    BY DEF TaskAnswered, clockVars, None, TypeOK, Logins
  <1>4. /\ \/ families' = families /\ byTask' = byTask /\ task' = Idle
           \/ families' = Rotated(r) /\ byTask' = CountTask
        /\ task' = Idle \/ task' = Grant(r)
    BY <1>1 DEF TaskAnswered
  <1>5. r \in Seen /\ r.born < hour /\ r.jti \in Nat
    BY <1>1, <1>3, TokenFacts DEF CallStages, Asking, Seen, Tokens, Stored
  <1>6. /\ task' = Idle \/ task'.token.login = k
        /\ task'.stage \in {"idle", "granted", "denied"}
        /\ task'.stage = "granted"
             => /\ task'.token.born = hour /\ Rotate(r).live # 0
                /\ task'.token.jti = Rotate(r).live
        /\ task'.stage = "denied" => task'.token = r /\ Rotate(r).live = 0
        /\ task'.stage = "idle" => task' = Idle
        /\ Rotate(r).live # 0 => Rotate(r).prev + 1 = Rotate(r).live
    BY <1>2, <1>4, <1>5, AnswerIs
  <1>7. /\ \A l \in Logins : l # k => families'[l] = families[l] /\ byTask'[l] = byTask[l]
        /\ \/ families'[k] = families[k] /\ byTask'[k] = byTask[k] /\ task' = Idle
           \/ /\ families'[k] = Rotate(r)
              /\ byTask'[k] = IF Rotate(r).live = 0 THEN byTask[k] ELSE byTask[k] + 1
    <2>1. CASE families' = families /\ byTask' = byTask /\ task' = Idle
      BY <2>1
    <2>2. CASE families' = Rotated(r) /\ byTask' = CountTask
      <3>1. CountTask = [byTask EXCEPT ![k] =
                           IF Rotate(r).live = 0 THEN byTask[k] ELSE byTask[k] + 1]
        BY <1>1, <1>2 DEF CountTask
      <3> QED BY <1>2, <1>3, <2>2, <3>1, RotatedIs
    <2> QED BY <1>4, <2>1, <2>2
  <1>8. /\ \A t \in Seen' : t \in Seen \/ t = task'.token
        /\ \A t \in Tokens' : t \in Tokens \/ t = task'.token
        /\ \A t \in Stored' : t \in Stored \/ t = task'.token
    BY <1>3 DEF Seen, Tokens, Stored
  <1>9. task'.token.login <= logins /\ task'.token.born <= hour /\ k <= logins
    <2>1. k <= logins /\ r.born <= hour
      BY <1>2, <1>5 DEF Issued
    <2>2. None.login <= logins /\ None.born <= hour
      BY <1>3 DEF None
    <2>3. task'.token.login <= logins
      BY <1>6, <2>1, <2>2
    <2>4. task'.token.born <= hour
      BY <1>3, <1>6, <2>1, <2>2
    <2> QED BY <2>1, <2>3, <2>4
  <1>10. Issued'
    BY <1>3, <1>8, <1>9 DEF Issued
  <1>11. CallStages'
    <2>1. /\ Made(task') => task'.token.born = hour
          /\ Asking(task') => task'.token.born < hour
          /\ task'.stage # "stored" /\ (task'.stage = "idle" => task' = Idle)
      BY <1>5, <1>6 DEF Made, Asking
    <2>2. task'.stage = "granted" => byTask'[task'.token.login] > 0
      <3> SUFFICES ASSUME task'.stage = "granted"
                   PROVE  byTask'[k] > 0
        BY <1>6
      <3>1. byTask'[k] = byTask[k] + 1 /\ byTask[k] \in Nat
        BY <1>3, <1>6, <1>7
      <3> QED BY <3>1
    <2> QED BY <1>3, <2>1, <2>2 DEF CallStages, Made, Asking
  <1>12. OneStep'
    BY <1>3, <1>6, <1>7, <1>9 DEF OneStep
  <1>13. Minted'
    <2> SUFFICES ASSUME connect # Idle PROVE Minted'
      BY <1>3 DEF Minted
    <2>1. connect.token.login # k
      <3>1. connect.token.born = hour
        BY <1>3 DEF CallStages, Made
      <3> QED BY <1>2, <1>3, <1>5, <3>1 DEF Minted
    <2>2. connect.token \in Token
      BY TokenFacts
    <2>3. connect.token.login \in Logins /\ connect.token.login # 0
      BY <2>2, TokenFacts
    <2> QED BY <1>3, <1>6, <1>7, <1>8, <2>1, <2>3 DEF Minted
  <1>a. \A l \in Logins : byTask'[l] = 0 => byTask[l] = 0
    BY <1>3, <1>7
  <1>14. StoreFirst' /\ Crossing'
    <2>1. StoreFirst'
      BY <1>3 DEF StoreFirst, Expiring
    <2>2. Crossing'
      <3>1. adoption.stored # None => adoption.stored.login \in Logins
        BY TokenFacts
      <3> QED BY <1>3, <1>a, <3>1 DEF Crossing, Expiring, New
    <2> QED BY <2>1, <2>2
  <1>15. ASSUME NEW l \in Logins
         PROVE  Valid(l)' /\ Even(l)' /\ Rest(l)' /\ Once(l)' /\ Lead(l)'
    <2>0. Valid(l) /\ Even(l) /\ Rest(l) /\ Once(l) /\ Lead(l) /\ l # 0
      BY DEF Grace, Logins
    <2>1. Rest(l)'
      BY <1>3, <1>a, <2>0 DEF Rest
    <2>2. CASE families'[l] = families[l] /\ byTask'[l] = byTask[l] /\ task'.token.login # l
      <3>1. Keeps(l)
        BY <1>3, <1>8, <2>2 DEF Keeps
      <3>2. Valid(l)' /\ Even(l)' /\ Once(l)'
        BY <2>0, <3>1, KeepsGrace
      <3>3. Lead(l)'
        <4>1. SentLeads(l) => SentLeads(l)'
          BY <1>3, <1>8, <2>2 DEF SentLeads
        <4>2. MadeIsLive(l) => MadeIsLive(l)'
          BY <1>3, <2>2 DEF MadeIsLive
        <4>3. MemoryLeads(l) => MemoryLeads(l)'
          BY <1>3, <1>8, <2>2 DEF MemoryLeads, Old
        <4>4. TaskIsLive(l)'
          BY <2>2 DEF TaskIsLive
        <4>5. StoreAhead(l) => StoreAhead(l)'
          BY <1>3 DEF StoreAhead
        <4> QED BY <2>0, <2>2, <4>1, <4>2, <4>3, <4>4, <4>5 DEF Lead
      <3> QED BY <2>1, <3>2, <3>3
    <2>3. CASE l = k /\ byTask[k] = 0 /\ families'[k] = Rotate(r)
               /\ byTask'[k] = IF Rotate(r).live = 0 THEN byTask[k] ELSE byTask[k] + 1
      <3> DEFINE live == families[k].live
      <3>1. /\ r.jti = live \/ r.jti + 1 = live
            /\ live # 0 /\ live \in Nat
            /\ \A t \in Tokens : t.login = k => t.jti = live \/ t.jti + 1 = live
        BY <1>1, <1>2, <1>3, <2>0, <2>3 DEF Valid, Tokens, Stored, Family
      <3>2. PICK now \in Nat : now = families'[k].live /\ now # 0 /\ now = Rotate(r).live
                             /\ (r.jti = live => now = live + 1)
                             /\ (r.jti + 1 = live => now = live)
        <4>1. families[k].prev + 1 = live /\ families[k].prev \in Nat
          BY <1>2, <1>3, <3>1 DEF OneStep, Family
        <4> QED BY <1>1, <1>2, <1>3, <1>5, <2>3, <3>1, <4>1, RotateIs
      <3>3. byTask'[k] = 1 /\ r.jti + 1 = now
        BY <1>5, <2>3, <3>1, <3>2
      <3>4. \A t : (Old(t, k)' <=> Old(t, k)) /\ (New(t, k)' <=> New(t, k))
        BY <1>3 DEF Old, New
      <3>5. \A t \in Seen : /\ t.login = k => Old(t, k) \/ New(t, k)
                            /\ t.jti \in Nat /\ t.born \in Nat
        BY <1>3, TokenFacts DEF Issued, Old, New
      <3>6. /\ \A t \in Seen : Old(t, k) => t.jti = r.jti
            /\ \A t \in Seen : New(t, k) => t.jti = now
        <4>1. Old(r, k)
          BY <1>2, <1>5 DEF Old
        <4>2. /\ \A t \in Seen : Old(t, k) => t.jti = r.jti
              /\ \A t \in Seen : New(t, k) => t.jti = live /\ r.jti + 1 = live
          BY <1>5, <2>0, <2>3, <4>1 DEF Even
        <4> QED BY <3>2, <4>2
      <3>7. task' # Idle => task'.token.jti = now /\ New(task'.token, k)
        BY <1>6, <2>3, <3>2 DEF New
      <3>8. /\ \A t \in Tokens' : t.login = k => t \in Tokens \/ (t.jti = now /\ New(t, k))
            /\ \A t \in Stored' : t.login = k => t \in Stored \/ (t.jti = now /\ New(t, k))
        BY <1>3, <1>8, <2>0, <2>3, <3>7
      <3>9. \A t : ~(Old(t, k) /\ New(t, k))
        BY <1>3 DEF Old, New
      <3>10. \A t \in Tokens' : /\ Old(t, k) => t.jti = r.jti
                                /\ New(t, k) => t.jti = now
                                /\ t.login = k => Old(t, k) \/ New(t, k)
        BY <3>5, <3>6, <3>8, <3>9 DEF Old, New
      <3>11. Stored' \subseteq Tokens' /\ r.jti # now
        BY <1>5, <3>3 DEF Tokens
      <3>12. Valid(k)'
        BY <3>2, <3>3, <3>10 DEF Valid
      <3>13. Even(k)'
        BY <3>3 DEF Even
      <3>14. Once(k)'
        BY <3>2, <3>4, <3>10, <3>11 DEF Once
      <3>15. SentLeads(k)'
        <4>1. refresh.stage = "sent" /\ refresh.token.login = k => refresh.token.jti # now
          BY <3>6, <3>11 DEF CallStages, Asking, Old, Seen, Tokens
        <4> QED BY <1>3, <3>2, <4>1 DEF SentLeads
      <3>16. MemoryLeads(k)'
        BY <1>3, <3>2, <3>4, <3>6, <3>11 DEF MemoryLeads, Seen, Tokens
      <3>17. refresh.token \in Seen /\ disk \in Seen /\ memory \in Seen /\ adoption.stored \in Seen
        BY DEF Seen, Tokens, Stored
      <3>18. MadeIsLive(k)'
        <4>1. Made(refresh) /\ refresh.token.login = k => refresh.token.jti = now
          BY <3>6, <3>17 DEF CallStages, New
        <4>2. refresh.stage = "stored" /\ disk.login = k => disk.jti = now
          <5> SUFFICES ASSUME refresh.stage = "stored", disk.login = k PROVE disk.jti = now
            OBVIOUS
          <5>1. ~Old(disk, k)
            BY <1>3, <2>0, <2>3 DEF StoreFirst, Expiring, Old
          <5> QED BY <3>5, <3>6, <3>17, <5>1
        <4> QED BY <1>3, <3>2, <4>1, <4>2 DEF MadeIsLive
      <3>19. TaskIsLive(k)'
        BY <1>6, <3>2, <3>4, <3>7, <3>10, <3>11 DEF TaskIsLive
      <3>20. StoreAhead(k)'
        <4> SUFFICES ASSUME NEW t \in {memory, adoption.stored}, t.login = k, disk.login = k
                     PROVE  t.jti <= disk.jti
          BY <1>3 DEF StoreAhead
        <4>1. /\ t \in Seen /\ t.jti \in Nat /\ disk.jti \in Nat
              /\ t.jti = r.jti \/ t.jti = now
          BY <3>5, <3>6, <3>17
        <4>2. CASE New(disk, k)
          BY <3>3, <3>6, <3>17, <4>1, <4>2, <1>5
        <4>3. CASE Old(disk, k)
          <5>1. Expiring(disk)
            BY <1>3, <2>0, <2>3, <4>3 DEF Expiring, Old
          <5>2. CASE t = memory
            <6>1. Expiring(memory)
              BY <1>3, <2>0, <2>3, <5>1, <5>2 DEF StoreFirst
            <6>2. Old(memory, k)
              BY <5>2, <6>1 DEF Expiring, Old
            <6> QED BY <3>6, <3>17, <4>1, <4>3, <5>2, <6>2
          <5>3. CASE t = adoption.stored
            <6>1. adoption.stored # None
              BY <1>3, <2>0, <2>3, <5>3
            <6>2. adoption.stored = disk
              BY <5>1, <6>1 DEF StoreFirst, CallStages
            <6> QED BY <4>1, <5>3, <6>2
          <5> QED BY <5>2, <5>3
        <4> QED BY <3>5, <3>17, <4>2, <4>3
      <3> QED BY <2>1, <2>3, <3>12, <3>13, <3>14, <3>15, <3>16, <3>18, <3>19, <3>20 DEF Lead
    <2>4. CASE l = k /\ byTask[k] # 0 /\ families'[k] = Rotate(r)
               /\ byTask'[k] = IF Rotate(r).live = 0 THEN byTask[k] ELSE byTask[k] + 1
      <3>1. ~(byTask'[k] < 2)
        <4>1. CASE byTask[k] = 1
          <5>1. /\ families[k].live # 0 /\ families[k].live \in Nat
                /\ r.jti = families[k].live \/ r.jti + 1 = families[k].live
            BY <1>1, <1>2, <1>3, <2>0, <2>4, <4>1 DEF Valid, Tokens, Stored, Family
          <5>2. families[k].prev + 1 = families[k].live /\ families[k].prev \in Nat
            BY <1>2, <1>3, <5>1 DEF OneStep, Family
          <5>3. Rotate(r).live # 0
            BY <1>2, <1>3, <1>5, <5>1, <5>2, RotateIs
          <5> QED BY <2>4, <4>1, <5>3
        <4>2. CASE byTask[k] # 1
          BY <1>3, <2>4, <4>2
        <4> QED BY <4>1, <4>2
      <3>2. byTask'[k] # 0 /\ byTask'[k] # 1
        BY <3>1
      <3> QED BY <2>1, <2>4, <3>1, <3>2 DEF Valid, Even, Once, Lead
    <2> QED BY <1>3, <1>6, <1>7, <2>0, <2>2, <2>3, <2>4
  <1> QED BY <1>10, <1>11, <1>12, <1>13, <1>14, <1>15 DEF Grace

----------------------------------------------------------------------------
(* The theorems.                                                            *)

\* A signed-in app with one token in both places.
LEMMA RulesInit == Init => Rules
  <1> SUFFICES ASSUME Init PROVE Rules
    OBVIOUS
  <1> DEFINE t1 == [login |-> 1, jti |-> 1, born |-> 0]
  <1>1. /\ TypeOK /\ logins = 1 /\ hour = 0 /\ memory = t1 /\ disk = t1
        /\ refresh = Idle /\ connect = Idle /\ task = Idle /\ adoption = NoAdoption
        /\ byTask = [l \in Logins |-> 0]
    BY TypesInit DEF Init
  <1>2. /\ Idle.stage = "idle" /\ Idle.token = None
        /\ NoAdoption.stage = "idle" /\ NoAdoption.current = None /\ NoAdoption.stored = None
        /\ None.login = 0 /\ None.born = 0
    BY DEF Idle, NoAdoption, None
  <1>3. /\ Seen = {t1, None} /\ Tokens = {t1, None} /\ Stored = {t1, None}
    BY <1>1, <1>2 DEF Seen, Tokens, Stored
  <1>4. \A l \in Logins : /\ families[l].live = 1 /\ families[l].prev = 0
                          /\ byTask[l] = 0 /\ l # 0
    BY <1>1 DEF Init, Registered, Logins
  <1>5. Issued /\ OneStep /\ Minted
    BY <1>1, <1>2, <1>3, <1>4 DEF Issued, OneStep, Minted
  <1>6. CallStages
    BY <1>1, <1>2 DEF CallStages, Made, Asking
  <1>7. StoreFirst /\ Crossing
    BY <1>1, <1>2 DEF StoreFirst, Crossing, Expiring
  <1>8. ASSUME NEW l \in Logins
        PROVE  Valid(l) /\ Even(l) /\ Rest(l) /\ Once(l) /\ Lead(l)
    <2>0. /\ t1.jti = 1 /\ t1.born = 0
          /\ \A t \in Seen \cup Tokens : t.login = l => t = t1
      BY <1>2, <1>3, <1>4
    <2>1. Valid(l)
      BY <1>4, <2>0 DEF Valid
    <2>2. Even(l)
      <3>1. \A t \in Seen : t.login = l => t.jti = 1 /\ ~Old(t, l)
        BY <1>1, <2>0 DEF Old
      <3>2. \A t \in Seen : Old(t, l) \/ New(t, l) => t.login = l
        BY DEF Old, New
      <3> QED BY <1>4, <3>1, <3>2 DEF Even
    <2>3. Rest(l) /\ Once(l) /\ Lead(l)
      BY <1>1, <1>4 DEF Rest, Once, Lead
    <2> QED BY <2>1, <2>2, <2>3
  <1> QED BY <1>5, <1>6, <1>7, <1>8 DEF Rules, Grace

\* Every step keeps the invariant.
LEMMA RulesStep ==
    ASSUME TokensInv, [Next]_vars
    PROVE  TokensInv'
  <1>1. TypeOK'
    BY TypesStep DEF TokensInv
  <1>2. CASE UNCHANGED vars
    <2>1. /\ families' = families /\ logins' = logins /\ memory' = memory /\ disk' = disk
          /\ refresh' = refresh /\ connect' = connect /\ task' = task
          /\ adoption' = adoption /\ hour' = hour /\ byTask' = byTask
      BY <1>2 DEF vars
    <2>2. Seen' = Seen /\ Tokens' = Tokens /\ Stored' = Stored
      BY <2>1 DEF Seen, Tokens, Stored
    <2>3. Issued' /\ OneStep' /\ Minted'
      BY <2>1, <2>2 DEF TokensInv, Rules, Issued, OneStep, Minted
    <2>4. CallStages' /\ StoreFirst' /\ Crossing'
      BY <2>1 DEF TokensInv, Rules, CallStages, StoreFirst, Crossing, Made, Asking, Expiring, New
    <2>5. ASSUME NEW l \in Logins
          PROVE  Valid(l)' /\ Even(l)' /\ Rest(l)' /\ Once(l)' /\ Lead(l)'
      <3>1. Valid(l) /\ Even(l) /\ Rest(l) /\ Once(l) /\ Lead(l)
        BY DEF TokensInv, Rules, Grace
      <3>2. Valid(l)' /\ Rest(l)'
        BY <2>1, <2>2, <3>1 DEF Valid, Rest
      <3>3. Even(l)' /\ Once(l)'
        BY <2>1, <2>2, <3>1 DEF Even, Once, Old, New
      <3>4. Lead(l)'
        BY <2>1, <2>2, <3>1 DEF Lead, SentLeads, MemoryLeads, MadeIsLive, TaskIsLive,
                                StoreAhead, Old, Made
      <3> QED BY <3>2, <3>3, <3>4
    <2> QED BY <1>1, <2>3, <2>4, <2>5 DEF TokensInv, Rules, Grace
  <1>3. CASE Step
    <2>1. Rules'
      BY <1>3, HourKeeps, MintKeeps, RefreshKeeps, TaskKeeps, MovesKeep DEF Step, Moves
    <2> QED BY <1>1, <2>1 DEF TokensInv
  <1> QED BY <1>2, <1>3 DEF Next

\* The inductive invariant: types, stages of the calls, and the rules of each login's
\* tokens (how the app, its store, the task and the gateway's family stand).
THEOREM TokensInvariant == Spec => []TokensInv
  <1>1. Init => TokensInv
    BY TypesInit, RulesInit DEF TokensInv
  <1>2. TokensInv /\ [Next]_vars => TokensInv'
    BY RulesStep
  <1> QED BY <1>1, <1>2, PTL DEF Spec

\* The state is well typed: calls and copies hold tokens of existing logins.
THEOREM TokenTypes == Spec => []TypeOK
  <1>1. Init => TypeOK
    BY TypesInit
  <1>2. TypeOK /\ [Next]_vars => TypeOK'
    BY TypesStep
  <1> QED BY <1>1, <1>2, PTL DEF Spec

\* rotate's one-step grace suffices: the app presents no token that revokes its
\* login unless the background task has refreshed that login twice.
THEOREM OneRetryIsEnough == Spec => []GraceSuffices
  <1>1. TokensInv => GraceSuffices
    <2> SUFFICES ASSUME TokensInv, NEW l \in Logins, Revoked(l)
                 PROVE  byTask[l] >= 2
      BY DEF GraceSuffices
    <2>1. families[l].live = 0 /\ Valid(l) /\ byTask[l] \in Nat
      BY DEF Revoked, TokensInv, Rules, Grace, TypeOK
    <2> QED BY <2>1 DEF Valid
  <1> QED BY <1>1, TokensInvariant, PTL

----------------------------------------------------------------------------
(* The login the next launch continues.                                     *)

\* While no sign-in or sign-out has crossed a call: memory and store hold the same
\* login but between the two writes of a sign-in and of a sign-out, or where a write
\* or a read of the store failed, and every call has a token of it.
Together ==
    /\ clearing > 0 => memory = None
    /\ connect.stage # "stored" =>
         /\ memory # None => memory.login = disk.login
         /\ memory = None /\ clearing = 0 /\ ~leftover => disk = None
    /\ connect.stage = "stored" => disk = connect.token
    /\ refresh # Idle => refresh.token.login = memory.login
    /\ task # Idle => task.token.login = disk.login
    /\ adoption.stage = "read" => adoption.stored.login = disk.login

OneLogin == ~overlapped =>
    /\ connect # Idle => ~Holding
    /\ clearing > 0 => ~Holding /\ connect = Idle
    /\ Together

\* Every step that is not such a crossing keeps them on one login.
LEMMA OneLoginStep ==
    ASSUME TokensInv, OneLogin, [Next]_vars
    PROVE  OneLogin'
  <1> USE Fields DEF TokensInv, Rules, clearVars
  <1>a. CASE UNCHANGED vars
    BY <1>a DEF vars, OneLogin, Together, Holding
  <1> SUFFICES ASSUME Step, Note, ~overlapped' PROVE Together'
    BY <1>a DEF Next, OneLogin, Note
  <1>b. /\ ~overlapped
        /\ connect' # Idle => ~Holding'
        /\ clearing' > 0 => ~Holding' /\ connect' = Idle
    BY DEF Note
  <1>c. /\ connect # Idle => ~Holding
        /\ clearing > 0 => ~Holding /\ connect = Idle /\ memory = None
        /\ Together
        /\ connect.stage # "stored" =>
             /\ memory # None => memory.login = disk.login
             /\ memory = None /\ clearing = 0 /\ ~leftover => disk = None
        /\ connect.stage = "stored" => disk = connect.token
        /\ refresh # Idle => refresh.token.login = memory.login
        /\ task # Idle => task.token.login = disk.login
        /\ adoption.stage = "read" => adoption.stored.login = disk.login
    BY <1>b DEF OneLogin, Together
  <1>f. clearing \in Nat
    BY DEF TypeOK
  <1>g. Holding => clearing = 0
    <2>1. clearing = 0 \/ clearing > 0
      BY <1>f
    <2> QED BY <1>c, <2>1
  <1>d. /\ Holding = (refresh # Idle \/ task # Idle \/ adoption # NoAdoption)
        /\ Holding' = (refresh' # Idle \/ task' # Idle \/ adoption' # NoAdoption)
    BY DEF Holding
  <1>e. /\ \A call \in {refresh, connect, task} : call # Idle => call.token \in Token
        /\ "stored" \in Stages /\ "sent" \in Stages /\ None.login = 0
        /\ \A t \in Token : t # None /\ t.login # 0
        /\ (memory = None) = (memory.login = 0) /\ (disk = None) = (disk.login = 0)
        /\ adoption.stage # "idle" => adoption # NoAdoption
    BY TokenFacts DEF Stages, None, TypeOK
  <1>1. CASE HourPasses
    BY <1>1, <1>c DEF HourPasses, Together
  <1>2. CASE RefreshStarts
    <2>1. refresh'.token = memory /\ refresh' # Idle
      BY <1>2 DEF RefreshStarts, Idle, Expiring
    <2>2. connect = Idle
      BY <1>2, <1>b, <1>d, <2>1 DEF RefreshStarts
    <2> QED BY <1>2, <1>c, <2>1, <2>2 DEF RefreshStarts, Together
  <1>3. CASE RefreshAnswered
    <2>1. refresh' = Idle \/ refresh'.token.login = refresh.token.login
      <3>1. /\ refresh.token \in Token /\ families \in [Logins -> Family]
            /\ hour \in 0..MaxHours
        BY <1>3 DEF RefreshAnswered, TypeOK
      <3> QED BY <1>3, <3>1, GrantIs DEF RefreshAnswered
    <2>2. refresh # Idle /\ connect = Idle
      BY <1>3, <1>c, <1>d DEF RefreshAnswered
    <2> QED BY <1>3, <1>c, <2>1, <2>2 DEF RefreshAnswered, Together
  <1>4. CASE RefreshDenied
    <2>1. refresh # Idle /\ connect = Idle
      BY <1>4, <1>c, <1>d DEF RefreshDenied
    <2>2. clearing' > 0 /\ memory' = None
      BY <1>4, <1>f DEF RefreshDenied, Disconnect
    <2>3. refresh' = Idle /\ connect' = Idle /\ task' = Idle /\ adoption' = NoAdoption
      BY <1>b, <1>d, <2>2
    <2> QED BY <2>2, <2>3 DEF Together
  <1>5. CASE RefreshStores
    <2>1. refresh # Idle /\ connect = Idle
      BY <1>5, <1>c, <1>d DEF RefreshStores
    <2>2. disk'.login = disk.login /\ disk # None
      <3>1. memory # None /\ memory.login = disk.login
        BY <1>c, <1>e, <2>1, refresh.token \in Token DEF Idle
      <3> QED BY <1>5, <1>c, <1>e, <2>1, <3>1 DEF RefreshStores
    <2>3. refresh' = Idle \/ refresh'.token = refresh.token
      BY <1>5, <1>e DEF RefreshStores
    <2> QED BY <1>5, <1>c, <1>e, <2>1, <2>2, <2>3 DEF RefreshStores, Together
  <1>6. CASE RefreshCommits
    <2>1. refresh # Idle /\ connect = Idle
      BY <1>6, <1>c, <1>d DEF RefreshCommits
    <2>2. clearing = 0 /\ refresh' = Idle
      BY <1>6, <1>g, <2>1 DEF RefreshCommits, Holding
    <2>3. memory'.login = memory.login /\ memory' # None /\ memory # None
      BY <1>6, <1>c, <1>e, <2>1 DEF RefreshCommits
    <2> QED BY <1>6, <1>c, <2>1, <2>2, <2>3 DEF RefreshCommits, Together
  <1>7. CASE SignOut
    <2>1. clearing' > 0 /\ memory' = None
      BY <1>7, <1>f DEF SignOut, Disconnect
    <2>2. refresh' = Idle /\ connect' = Idle /\ task' = Idle /\ adoption' = NoAdoption
      BY <1>b, <1>d, <2>1
    <2> QED BY <2>1, <2>2 DEF Together
  <1>8. CASE ConnectMinted
    <2>1. connect' # Idle /\ connect'.stage = "granted" /\ connect = Idle
      BY <1>8 DEF ConnectMinted, Idle
    <2>2. ~Holding'
      BY <1>b, <2>1
    <2> QED BY <1>8, <1>c, <1>d, <2>1, <2>2 DEF ConnectMinted, Together
  <1>9. CASE ConnectStores
    <2>1. connect # Idle /\ ~Holding
      BY <1>9, <1>c DEF ConnectStores
    <2>2. \/ connect' = Idle /\ disk' = disk
          \/ connect' = [stage |-> "stored", token |-> connect.token] /\ disk' = connect.token
      BY <1>9, <1>e DEF ConnectStores
    <2> QED BY <1>9, <1>c, <1>d, <2>1, <2>2 DEF ConnectStores, Together
  <1>10. CASE ConnectCommits
    <2>1. connect # Idle /\ ~Holding
      BY <1>10, <1>c DEF ConnectCommits
    <2> QED BY <1>10, <1>c, <1>d, <2>1 DEF ConnectCommits, Together
  <1>11. CASE TaskReads
    <2>1. task'.token = disk /\ task' # Idle
      BY <1>11 DEF TaskReads, Idle, Expiring
    <2>2. connect = Idle
      BY <1>11, <1>b, <1>d, <2>1 DEF TaskReads
    <2> QED BY <1>11, <1>c, <2>1, <2>2 DEF TaskReads, Together
  <1>12. CASE TaskSends
    <2>1. task # Idle /\ task'.token = task.token /\ connect = Idle
      BY <1>12, <1>c, <1>d, <1>e DEF TaskSends
    <2> QED BY <1>12, <1>c, <2>1 DEF TaskSends, Together
  <1>13. CASE TaskAnswered
    <2>1. task' = Idle \/ task'.token.login = task.token.login
      <3>1. /\ task.token \in Token /\ families \in [Logins -> Family]
            /\ hour \in 0..MaxHours
        BY <1>13 DEF TaskAnswered, TypeOK
      <3> QED BY <1>13, <3>1, GrantIs DEF TaskAnswered
    <2>2. task # Idle /\ connect = Idle
      BY <1>13, <1>c, <1>d DEF TaskAnswered
    <2> QED BY <1>13, <1>c, <2>1, <2>2 DEF TaskAnswered, Together
  <1>14. CASE TaskEnds
    <2>1. task # Idle /\ connect = Idle
      BY <1>14, <1>c, <1>d DEF TaskEnds
    <2>2. disk'.login = disk.login /\ disk # None
      BY <1>14, <1>c, <1>e, <2>1 DEF TaskEnds
    <2> QED BY <1>14, <1>c, <2>1, <2>2 DEF TaskEnds, Together
  <1>15. CASE Sleep
    BY <1>15, <1>c, <1>d DEF Sleep, Together
  <1>16. CASE Wake
    <2>1. adoption'.stage = "asked" /\ adoption' # NoAdoption
      BY <1>16 DEF Wake
    <2>2. connect = Idle
      BY <1>16, <1>b, <1>d, <2>1 DEF Wake
    <2> QED BY <1>16, <1>c, <2>1, <2>2 DEF Wake, Together
  <1>17. CASE AdoptReads
    <2>1. connect = Idle /\ (adoption'.stored = disk \/ adoption' = NoAdoption)
      BY <1>17, <1>c, <1>d, <1>e DEF AdoptReads
    <2> QED BY <1>17, <1>b, <1>c, <1>d, <2>1 DEF AdoptReads, Together
  <1>18. CASE AdoptLands
    <2>1. connect = Idle /\ adoption.stored.login = disk.login /\ adoption' = NoAdoption
      BY <1>18, <1>c, <1>d, <1>e DEF AdoptLands
    <2>2. memory' = memory \/ (memory' # None /\ memory'.login = disk.login)
      BY <1>18, <1>c, <2>1 DEF AdoptLands, RotatedStored, SameGateway
    <2>3. refresh # Idle => memory'.login = memory.login
      BY <1>c, <1>e, <2>1, <2>2
    <2>4. clearing = 0
      BY <1>18, <1>g, <1>e DEF AdoptLands, Holding
    <2> QED BY <1>18, <1>c, <2>1, <2>2, <2>3, <2>4 DEF AdoptLands, Together
  <1>19. CASE Relaunch
    BY <1>19 DEF Relaunch, Together
  <1>20. CASE StoreCleared
    <2>1. ~Holding /\ connect = Idle /\ memory = None
      BY <1>20, <1>c, <1>f DEF StoreCleared
    <2>2. disk' = None \/ leftover'
      BY <1>20 DEF StoreCleared
    <2> QED BY <1>20, <1>b, <1>d, <2>1, <2>2 DEF StoreCleared, Together
  <1> QED BY <1>1, <1>2, <1>3, <1>4, <1>5, <1>6, <1>7, <1>8, <1>9, <1>10, <1>11, <1>12,
             <1>13, <1>14, <1>15, <1>16, <1>17, <1>18, <1>19, <1>20 DEF Step

\* At rest restoreSession continues the session as it is: signed in, the store has
\* the login of the memory and a token that the gateway still takes; signed out, it
\* has none, unless the clear of the store, or its read at launch, failed.
THEOREM SameSession == Spec => []NextLaunchContinues
  <1>1. Init => TokensInv /\ OneLogin
    <2>1. Init => TokensInv
      BY TypesInit, RulesInit DEF TokensInv
    <2>2. Init => OneLogin
      BY DEF Init, OneLogin, Together, Holding, Idle, NoAdoption
    <2> QED BY <2>1, <2>2
  <1>2. TokensInv /\ OneLogin /\ [Next]_vars => TokensInv' /\ OneLogin'
    BY RulesStep, OneLoginStep
  <1>3. TokensInv /\ OneLogin => NextLaunchContinues
    <2> SUFFICES ASSUME TokensInv, OneLogin, ~Holding, connect = Idle, clearing = 0, ~overlapped
                 PROVE  /\ memory # None => memory.login = disk.login
                        /\ memory = None /\ ~leftover => disk = None
                        /\ disk # None /\ byTask[disk.login] < 2
                             => disk.jti \in {families[disk.login].live, families[disk.login].prev}
      BY DEF NextLaunchContinues
    <2>1. /\ memory # None => memory.login = disk.login
          /\ memory = None /\ ~leftover => disk = None
      BY DEF OneLogin, Together, Idle
    <2>2. ASSUME disk # None, byTask[disk.login] < 2
          PROVE  disk.jti \in {families[disk.login].live, families[disk.login].prev}
      <3>1. PICK l \in Logins : l = disk.login
        BY <2>2, TokenFacts DEF TokensInv, TypeOK
      <3>2. /\ families[l].live # 0
            /\ disk.jti = families[l].live \/ disk.jti + 1 = families[l].live
        BY <2>2, <3>1 DEF TokensInv, Rules, Grace, Valid, Tokens, Stored
      <3>3. families[l].prev + 1 = families[l].live
        BY <3>2 DEF TokensInv, Rules, OneStep
      <3>4. disk.jti \in Nat /\ families[l].prev \in Nat
        BY <2>2, TokenFacts DEF TokensInv, TypeOK, Family
      <3> QED BY <3>1, <3>2, <3>3, <3>4
    <2> QED BY <2>1, <2>2
  <1> QED BY <1>1, <1>2, <1>3, PTL DEF Spec
=============================================================================
