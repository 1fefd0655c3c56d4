----------------------------- MODULE MCShared_proofs ----------------------------
(***************************************************************************)
(* Proofs about the parts that MCShared runs side by side, for any number  *)
(* of processes, threads, files, failures and ticks: first each part under *)
(* its own specification, then the parts together.                         *)
(***************************************************************************)
EXTENDS MCShared, FiniteSetTheorems, TLAPS

(***************************************************************************)
(* The session with Angel One (AngelSession)                               *)
(***************************************************************************)

\* Where a thread works on a broker, and where it holds a client to be renewed.
Working  == {"first login", "refresh", "relogin", "generate session", "call"}
Renewing == {"first login", "refresh", "generate session"}

SessionTypes ==
  /\ SessionTypeOK
  /\ delayed \in [Fetchers -> BOOLEAN]
  /\ connected => client[broker] \in Numbers

HasBroker(t) ==
  /\ spot[t] = "fetch" => connected
  /\ spot[t] \in Working => my[t] \in Numbers /\ client[my[t]] \in Numbers
  /\ spot[t] \in Renewing => via[t] \in Numbers

(***************************************************************************)
(* A client belongs to one broker: whoever renews the session of a client  *)
(* moves the expiry of that broker and of no other.                        *)
(***************************************************************************)
Own(b, c) ==
  \/ client[b] = c
  \/ renewedBy[b] = c
  \/ \E t \in Fetchers : spot[t] \in Renewing /\ my[t] = b /\ via[t] = c

OneBroker ==
  \A b, c \in Numbers : Own(b, c) =>
    /\ c <= clients
    /\ \A d \in Numbers : Own(d, c) => d = b

\* The expiry tells of the token of the client that has renewed it ...
Tells(b) ==
  renewedBy[b] # 0 =>
    token[renewedBy[b]] \in Nat /\ expiry[b] = token[renewedBy[b]] + Ttl

\* ... and a thread that found it ahead calls at most one tick later.
InTime(t) ==
  spot[t] = "call" =>
    renewal[t] \/ tick < expiry[my[t]] + (IF delayed[t] THEN 1 ELSE 0)

SessionInv ==
  /\ SessionTypes
  /\ \A t \in Fetchers : HasBroker(t) /\ InTime(t)
  /\ OneBroker
  /\ \A b \in Numbers : Tells(b)

-----------------------------------------------------------------------------
LEMMA InitSession == SessionInit => SessionInv
<1> SUFFICES ASSUME SessionInit PROVE SessionInv
  OBVIOUS
<1> USE AngelSessionAssumption DEF SessionInit, Numbers, NoToken
<1>1. SessionTypes
  <2>1. spot \in [Fetchers -> Spots]
    BY DEF Spots
  <2>2. /\ attempted \in BOOLEAN /\ connected \in BOOLEAN /\ ~connected
    BY Zenon
  <2>3. /\ tick \in 0..LastTick /\ broker \in 0..MaxClients /\ broker = 0
        /\ client \in [Numbers -> 0..MaxClients]
        /\ expiry \in [Numbers -> Int] /\ token \in [Numbers -> Int]
        /\ clients \in 0..MaxClients /\ refused \in 0..MaxRefused
        /\ my \in [Fetchers -> 0..MaxClients] /\ via \in [Fetchers -> 0..MaxClients]
        /\ renewedBy \in [Numbers -> 0..MaxClients]
    OBVIOUS
  <2>4. /\ delayed \in [Fetchers -> BOOLEAN] /\ renewal \in [Fetchers -> BOOLEAN]
    OBVIOUS
  <2> QED BY <2>1, <2>2, <2>3, <2>4 DEF SessionTypes, SessionTypeOK
<1>2. \A t \in Fetchers : HasBroker(t) /\ InTime(t)
  BY DEF HasBroker, InTime, Working, Renewing
<1>3. \A b, c \in Numbers : ~Own(b, c)
  BY DEF Own, Renewing
<1>4. \A b \in Numbers : Tells(b)
  BY DEF Tells
<1> QED BY <1>1, <1>2, <1>3, <1>4 DEF SessionInv, OneBroker

\* A step that gives no broker a client it did not own keeps each with its own.
LEMMA KeepsOwner ==
  ASSUME OneBroker, clients' = clients, \A b, c \in Numbers : Own(b, c)' => Own(b, c)
  PROVE  OneBroker'
  BY DEF OneBroker

\* One that gives a broker a new client, too.
LEMMA NewClient ==
  ASSUME OneBroker, clients \in Nat, clients' = clients + 1, NEW n \in Numbers,
         \A b, c \in Numbers : Own(b, c)' => Own(b, c) \/ (b = n /\ c = clients')
  PROVE  OneBroker'
<1> SUFFICES ASSUME NEW b \in Numbers, NEW c \in Numbers, Own(b, c)'
             PROVE  c <= clients' /\ \A d \in Numbers : Own(d, c)' => d = b
  BY DEF OneBroker
<1>1. CASE c = clients'
  <2>1. \A d \in Numbers : ~Own(d, c)
    BY <1>1 DEF OneBroker, Numbers
  <2> QED BY <1>1, <2>1 DEF Numbers
<1>2. CASE c # clients'
  <2>1. \A d \in Numbers : Own(d, c)' => Own(d, c)
    BY <1>2
  <2> QED BY <2>1 DEF OneBroker, Numbers
<1> QED BY <1>1, <1>2


-----------------------------------------------------------------------------
\* What Renewed() writes.
LEMMA RenewedTypes ==
  ASSUME SessionTypes, NEW t \in Fetchers, my[t] \in Numbers, via[t] \in Numbers, Renewed(t)
  PROVE  /\ token' \in [Numbers -> Int] /\ expiry' \in [Numbers -> Int]
         /\ renewedBy' \in [Numbers -> 0..MaxClients]
<1>1. tick \in Int /\ tick + Ttl \in Int /\ via[t] \in 0..MaxClients
  BY AngelSessionAssumption DEF SessionTypes, SessionTypeOK
<1>2. /\ token \in [Numbers -> Int] /\ expiry \in [Numbers -> Int]
      /\ renewedBy \in [Numbers -> 0..MaxClients]
  BY DEF SessionTypes, SessionTypeOK
<1> QED BY <1>1, <1>2 DEF Renewed

LEMMA RefusesTypes ==
  ASSUME SessionTypes, Refuses
  PROVE  refused' \in 0..MaxRefused
  BY AngelSessionAssumption DEF Refuses, SessionTypes, SessionTypeOK

LEMMA MovesTypes ==
  ASSUME SessionTypes, NEW t \in Fetchers, NEW s \in Spots, MoveTo(t, s)
  PROVE  spot' \in [Fetchers -> Spots] /\ delayed' \in [Fetchers -> BOOLEAN]
  BY DEF MoveTo, SessionTypes, SessionTypeOK

LEMMA NextNumber ==
  ASSUME SessionTypes, clients < MaxClients
  PROVE  clients + 1 \in Numbers /\ clients + 1 \in 0..MaxClients
<1>1. clients \in Nat /\ MaxClients \in Nat
  BY AngelSessionAssumption DEF SessionTypes, SessionTypeOK
<1> QED BY <1>1 DEF Numbers

LEMMA Renumbered ==
  ASSUME SessionTypes, NEW b, NEW n \in Numbers, client' = [client EXCEPT ![b] = n]
  PROVE  /\ \A d \in Numbers : client[d] \in Numbers => client'[d] \in Numbers
         /\ connected => client'[broker] \in Numbers
<1>1. client \in [Numbers -> 0..MaxClients]
  BY DEF SessionTypes, SessionTypeOK
<1>2. \A d \in Numbers : client[d] \in Numbers => client'[d] \in Numbers
  BY <1>1
<1>3. ASSUME connected PROVE client'[broker] \in Numbers
  <2>1. broker # 0 /\ broker \in 0..MaxClients /\ client[broker] \in Numbers
    BY <1>3 DEF SessionTypes, SessionTypeOK
  <2>2. broker \in Numbers
    BY <2>1, AngelSessionAssumption DEF Numbers
  <2> QED BY <1>2, <2>1, <2>2
<1> QED BY <1>2, <1>3

LEMMA NextTypes ==
  ASSUME SessionInv, [SessionNext]_sessionVars
  PROVE  SessionTypes'
<1> USE DEF SessionTypes, SessionTypeOK
<1>0. /\ SessionTypes /\ \A t \in Fetchers : HasBroker(t)
      /\ MaxClients \in Nat /\ LastTick \in Nat
  BY AngelSessionAssumption DEF SessionInv
<1>1. CASE UNCHANGED sessionVars
  BY <1>0, <1>1 DEF sessionVars
<1>2. ASSUME NEW t \in Fetchers, Ask(t) PROVE SessionTypes'
  <2>1. PICK s \in {"fetch", "try"} : MoveTo(t, s)
    BY <1>2 DEF Ask
  <2>2. s \in Spots
    BY DEF Spots
  <2> QED BY <1>0, <1>2, <2>1, <2>2, MovesTypes DEF Ask
<1>3. ASSUME NEW t \in Fetchers, TryLogin(t) PROVE SessionTypes'
  <2>1. PICK s \in {"unavailable", "first login"} : MoveTo(t, s)
    BY <1>3 DEF TryLogin
  <2>2. s \in Spots
    BY DEF Spots
  <2>3. spot' \in [Fetchers -> Spots] /\ delayed' \in [Fetchers -> BOOLEAN]
    BY <1>0, <2>1, <2>2, MovesTypes
  <2>4. CASE UNCHANGED <<attempted, client, clients, my, via>>
    BY <1>0, <1>3, <2>3, <2>4 DEF TryLogin
  <2>5. CASE /\ clients < MaxClients /\ attempted' = TRUE /\ clients' = clients + 1
             /\ client' = [client EXCEPT ![clients'] = clients']
             /\ my' = [my EXCEPT ![t] = clients'] /\ Uses(t, clients')
    <3>1. clients' \in Numbers /\ clients' \in 0..MaxClients
      BY <1>0, <2>5, NextNumber
    <3>2. client' \in [Numbers -> 0..MaxClients]
      BY <1>0, <2>5, <3>1
    <3>3. my' \in [Fetchers -> 0..MaxClients] /\ via' \in [Fetchers -> 0..MaxClients]
      BY <1>0, <2>5, <3>1 DEF Uses
    <3>4. connected => client'[broker] \in Numbers
      BY <1>0, <2>5, <3>1, Renumbered
    <3> QED BY <1>0, <1>3, <2>3, <2>5, <3>1, <3>2, <3>3, <3>4 DEF TryLogin
  <2> QED BY <1>3, <2>4, <2>5 DEF TryLogin
<1>4. ASSUME NEW t \in Fetchers, FirstLogin(t) PROVE SessionTypes'
  <2>1. my[t] \in Numbers /\ client[my[t]] \in Numbers /\ via[t] \in Numbers
    BY <1>0, <1>4 DEF FirstLogin, HasBroker, Working, Renewing
  <2>2. CASE Renewed(t) /\ broker' = my[t] /\ connected' = TRUE /\ MoveTo(t, "fetch")
             /\ UNCHANGED refused
    <3>1. spot' \in [Fetchers -> Spots] /\ delayed' \in [Fetchers -> BOOLEAN]
      BY <1>0, <2>2, MovesTypes DEF Spots
    <3>2. broker' \in 0..MaxClients /\ broker' # 0
      BY <2>1, <2>2 DEF Numbers
    <3> QED BY <1>0, <1>4, <2>1, <2>2, <3>1, <3>2, RenewedTypes DEF FirstLogin
  <2>3. CASE Refuses /\ MoveTo(t, "unavailable")
             /\ UNCHANGED <<broker, connected, token, expiry, renewedBy>>
    <3>1. spot' \in [Fetchers -> Spots] /\ delayed' \in [Fetchers -> BOOLEAN]
      BY <1>0, <2>3, MovesTypes DEF Spots
    <3> QED BY <1>0, <1>4, <2>3, <3>1, RefusesTypes DEF FirstLogin
  <2> QED BY <1>4, <2>2, <2>3 DEF FirstLogin
<1>5. ASSUME NEW t \in Fetchers, Fetch(t) PROVE SessionTypes'
  <2>1. PICK s \in {"refresh", "call"} : MoveTo(t, s)
    BY <1>5 DEF Fetch
  <2>2. spot' \in [Fetchers -> Spots] /\ delayed' \in [Fetchers -> BOOLEAN]
    BY <1>0, <2>1, MovesTypes DEF Spots
  <2>3. connected
    BY <1>0, <1>5 DEF Fetch, HasBroker
  <2>4. via' \in [Fetchers -> 0..MaxClients] /\ my' \in [Fetchers -> 0..MaxClients]
    <3>1. broker \in 0..MaxClients /\ client[broker] \in 0..MaxClients
      BY <1>0, <2>3 DEF Numbers
    <3> QED BY <1>0, <1>5, <3>1 DEF Fetch, Uses
  <2> QED BY <1>0, <1>5, <2>2, <2>4 DEF Fetch
<1>6. ASSUME NEW t \in Fetchers, Refresh(t) \/ GenerateSession(t) PROVE SessionTypes'
  <2>1. my[t] \in Numbers /\ via[t] \in Numbers
    BY <1>0, <1>6 DEF Refresh, GenerateSession, HasBroker, Working, Renewing
  <2>2. PICK s \in {"call", "relogin"} : MoveTo(t, s)
    BY <1>6 DEF Refresh, GenerateSession
  <2>3. spot' \in [Fetchers -> Spots] /\ delayed' \in [Fetchers -> BOOLEAN]
    BY <1>0, <2>2, MovesTypes DEF Spots
  <2>4. /\ token' \in [Numbers -> Int] /\ expiry' \in [Numbers -> Int]
        /\ renewedBy' \in [Numbers -> 0..MaxClients]
    BY <1>0, <1>6, <2>1, RenewedTypes DEF Refresh, GenerateSession
  <2>5. refused' \in 0..MaxRefused
    BY <1>0, <1>6, RefusesTypes DEF Refresh, GenerateSession
  <2>6. renewal' \in [Fetchers -> BOOLEAN]
    BY <1>0, <1>6 DEF Refresh, GenerateSession, NotRenewed
  <2>7. UNCHANGED <<tick, attempted, connected, broker, client, clients, my, via>>
    BY <1>6 DEF Refresh, GenerateSession
  <2> QED BY <1>0, <2>3, <2>4, <2>5, <2>6, <2>7
<1>7. ASSUME NEW t \in Fetchers, Relogin(t) PROVE SessionTypes'
  <2>1. my[t] \in Numbers
    BY <1>0, <1>7 DEF Relogin, HasBroker, Working
  <2>2. spot' \in [Fetchers -> Spots] /\ delayed' \in [Fetchers -> BOOLEAN]
    <3>1. "generate session" \in Spots
      BY DEF Spots
    <3> QED BY <1>0, <1>7, <3>1, MovesTypes DEF Relogin
  <2>3. clients' \in Numbers /\ clients' \in 0..MaxClients
    BY <1>0, <1>7, NextNumber DEF Relogin
  <2>4. client' \in [Numbers -> 0..MaxClients] /\ via' \in [Fetchers -> 0..MaxClients]
    BY <1>0, <1>7, <2>3 DEF Relogin, Uses
  <2>5. connected => client'[broker] \in Numbers
    BY <1>0, <1>7, <2>3, Renumbered DEF Relogin
  <2> QED BY <1>0, <1>7, <2>2, <2>3, <2>4, <2>5 DEF Relogin
<1>8. ASSUME NEW t \in Fetchers, Call(t) PROVE SessionTypes'
  <2>1. PICK s \in {"answered", "rejected"} : MoveTo(t, s)
    BY <1>8 DEF Call
  <2>2. spot' \in [Fetchers -> Spots] /\ delayed' \in [Fetchers -> BOOLEAN]
    BY <1>0, <2>1, MovesTypes DEF Spots
  <2>3. client[my[t]] \in 0..MaxClients
    BY <1>0, <1>8 DEF Call, HasBroker, Working
  <2> QED BY <1>0, <1>8, <2>2, <2>3 DEF Call, Uses
<1>9. ASSUME NEW t \in Fetchers, Done(t) PROVE SessionTypes'
  <2>1. spot' \in [Fetchers -> Spots] /\ delayed' \in [Fetchers -> BOOLEAN]
    BY <1>0, <1>9, MovesTypes DEF Done, Spots
  <2>2. /\ my' \in [Fetchers -> 0..MaxClients] /\ via' \in [Fetchers -> 0..MaxClients]
    BY <1>0, <1>9 DEF Done, Uses
  <2>3. renewal' \in [Fetchers -> BOOLEAN]
    BY <1>0, <1>9 DEF Done
  <2> QED BY <1>0, <1>9, <2>1, <2>2, <2>3 DEF Done
<1>10. CASE Tick
  <2>1. tick' \in 0..LastTick
    BY <1>0, <1>10 DEF Tick
  <2>2. delayed' \in [Fetchers -> BOOLEAN]
    BY <1>10 DEF Tick
  <2> QED BY <1>0, <1>10, <2>1, <2>2 DEF Tick
<1> QED BY <1>1, <1>2, <1>3, <1>4, <1>5, <1>6, <1>7, <1>8, <1>9, <1>10 DEF SessionNext


-----------------------------------------------------------------------------
(***************************************************************************)
(* The rest of the invariant, action by action.                            *)
(***************************************************************************)
Rest ==
  /\ \A t \in Fetchers : HasBroker(t) /\ InTime(t)
  /\ OneBroker
  /\ \A b \in Numbers : Tells(b)

\* Steps that leave the session itself alone, but for where thread t is.
LEMMA AskStep ==
  ASSUME SessionTypes, Rest, NEW t \in Fetchers, Ask(t) \/ Done(t)
  PROVE  Rest'
<1> USE DEF SessionTypes, SessionTypeOK
<1>1. /\ spot'[t] \in {"fetch", "try", "idle"} /\ (spot'[t] = "fetch" => connected)
      /\ \A u \in Fetchers : u # t =>
           /\ spot'[u] = spot[u] /\ delayed'[u] = delayed[u] /\ my'[u] = my[u]
           /\ via'[u] = via[u] /\ renewal'[u] = renewal[u]
      /\ UNCHANGED <<tick, connected, client, expiry, token, clients, renewedBy>>
  BY DEF Ask, Done, MoveTo, Uses
<1>2. ASSUME NEW u \in Fetchers PROVE HasBroker(u)' /\ InTime(u)'
  <2>1. CASE u = t
    BY <1>1, <2>1 DEF HasBroker, InTime, Working, Renewing
  <2>2. CASE u # t
    BY <1>1, <2>2 DEF Rest, HasBroker, InTime
  <2> QED BY <2>1, <2>2
<1>3. \A b, c \in Numbers : Own(b, c)' => Own(b, c)
  BY <1>1 DEF Own, Renewing
<1>4. OneBroker'
  BY <1>1, <1>3, KeepsOwner DEF Rest
<1>5. \A b \in Numbers : Tells(b)'
  BY <1>1 DEF Rest, Tells
<1> QED BY <1>2, <1>4, <1>5 DEF Rest

\* A broker gets a new client, a new broker its first.
LEMMA LoginStep ==
  ASSUME SessionTypes, Rest, NEW t \in Fetchers, TryLogin(t) \/ Relogin(t)
  PROVE  Rest'
<1> USE DEF SessionTypes, SessionTypeOK
<1>1. CASE UNCHANGED <<attempted, client, clients, my, via>>
  <2>1. /\ spot'[t] = "unavailable"
        /\ \A u \in Fetchers : u # t => spot'[u] = spot[u] /\ delayed'[u] = delayed[u]
        /\ UNCHANGED <<tick, connected, client, expiry, token, clients, my, via, renewal,
                       renewedBy>>
    <3>1. clients' # clients + 1
      BY <1>1, AngelSessionAssumption
    <3>2. TryLogin(t) /\ MoveTo(t, "unavailable")
      BY <3>1 DEF TryLogin, Relogin
    <3> QED BY <1>1, <3>2 DEF TryLogin, MoveTo
  <2>2. ASSUME NEW u \in Fetchers PROVE HasBroker(u)' /\ InTime(u)'
    BY <2>1 DEF Rest, HasBroker, InTime, Working, Renewing
  <2>3. \A b, c \in Numbers : Own(b, c)' => Own(b, c)
    BY <2>1 DEF Own, Renewing
  <2>4. OneBroker'
    BY <2>1, <2>3, KeepsOwner DEF Rest
  <2> QED BY <2>1, <2>2, <2>4 DEF Rest, Tells
<1>2. CASE ~UNCHANGED <<attempted, client, clients, my, via>>
  <2>1. PICK n :
          /\ clients < MaxClients /\ clients' = clients + 1
          /\ n = IF spot[t] = "try" THEN clients' ELSE my[t]
          /\ client' = [client EXCEPT ![n] = clients']
          /\ my' = [my EXCEPT ![t] = n] /\ via' = [via EXCEPT ![t] = clients']
          /\ spot'[t] \in {"first login", "generate session"}
          /\ \A u \in Fetchers : u # t => spot'[u] = spot[u] /\ delayed'[u] = delayed[u]
          /\ UNCHANGED <<tick, connected, expiry, token, renewal, renewedBy>>
    <3>1. CASE TryLogin(t)
      BY <1>2, <3>1 DEF TryLogin, MoveTo, Uses
    <3>2. CASE Relogin(t)
      <4>1. my' = [my EXCEPT ![t] = my[t]]
        BY <3>2 DEF Relogin
      <4> QED BY <3>2, <4>1 DEF Relogin, MoveTo, Uses
    <3> QED BY <3>1, <3>2
  <2>2. clients' \in Numbers /\ n \in Numbers
    <3>1. clients' \in Numbers
      BY <2>1, NextNumber
    <3>2. spot[t] # "try" => my[t] \in Numbers
      BY <1>2 DEF TryLogin, Relogin, Rest, HasBroker, Working
    <3> QED BY <2>1, <3>1, <3>2
  <2>3. /\ client'[n] = clients' /\ \A b \in Numbers : b # n => client'[b] = client[b]
        /\ my'[t] = n /\ via'[t] = clients'
        /\ \A u \in Fetchers : u # t => my'[u] = my[u] /\ via'[u] = via[u]
    BY <2>1, <2>2
  <2>4. ASSUME NEW u \in Fetchers PROVE HasBroker(u)' /\ InTime(u)'
    <3>1. CASE u = t
      BY <2>1, <2>2, <2>3, <3>1 DEF HasBroker, InTime, Working, Renewing
    <3>2. CASE u # t
      <4>1. HasBroker(u)'
        <5>1. \A b \in Numbers : client[b] \in Numbers => client'[b] \in Numbers
          BY <2>2, <2>3
        <5>2. HasBroker(u)
          BY DEF Rest
        <5> QED BY <2>1, <2>3, <3>2, <5>1, <5>2 DEF HasBroker
      <4>2. InTime(u)'
        BY <2>1, <2>3, <3>2 DEF Rest, InTime
      <4> QED BY <4>1, <4>2
    <3> QED BY <3>1, <3>2
  <2>5. \A b, c \in Numbers : Own(b, c)' => Own(b, c) \/ (b = n /\ c = clients')
    BY <2>1, <2>3, ZenonT(60) DEF Own, Renewing
  <2>6. OneBroker'
    <3>1. clients \in Nat
      BY AngelSessionAssumption
    <3> QED BY <2>1, <2>2, <2>5, <3>1, NewClient DEF Rest
  <2>7. \A b \in Numbers : Tells(b)'
    BY <2>1 DEF Rest, Tells
  <2> QED BY <2>4, <2>6, <2>7 DEF Rest
<1> QED BY <1>1, <1>2


\* A session is renewed, and the expiry of its broker moves ahead of the clock ...
LEMMA RenewStep ==
  ASSUME SessionTypes, Rest, NEW t \in Fetchers, Renewed(t),
         FirstLogin(t) \/ Refresh(t) \/ GenerateSession(t)
  PROVE  Rest'
<1> USE DEF SessionTypes, SessionTypeOK
<1> DEFINE b0 == my[t]
           c0 == via[t]
<1>1. /\ spot[t] \in Renewing /\ b0 \in Numbers /\ c0 \in Numbers /\ client[b0] \in Numbers
      /\ tick \in Nat /\ Ttl \in Nat \ {0}
  <2>1. spot[t] \in {"first login", "refresh", "generate session"}
    BY DEF FirstLogin, Refresh, GenerateSession
  <2>2. tick \in Nat /\ Ttl \in Nat \ {0}
    BY AngelSessionAssumption
  <2> QED BY <2>1, <2>2 DEF Renewing, Working, Rest, HasBroker
<1>2. /\ token'[c0] = tick /\ \A c \in Numbers : c # c0 => token'[c] = token[c]
      /\ expiry'[b0] = tick + Ttl /\ \A b \in Numbers : b # b0 => expiry'[b] = expiry[b]
      /\ renewedBy'[b0] = c0 /\ \A b \in Numbers : b # b0 => renewedBy'[b] = renewedBy[b]
  BY <1>1 DEF Renewed
<1>3. /\ UNCHANGED <<tick, client, clients, my, via>> /\ (connected => connected')
      /\ \A u \in Fetchers : u # t =>
           spot'[u] = spot[u] /\ delayed'[u] = delayed[u] /\ renewal'[u] = renewal[u]
  BY DEF FirstLogin, Refresh, GenerateSession, MoveTo, NotRenewed
<1>4. /\ spot'[t] \in {"fetch", "call", "unavailable", "relogin"} /\ ~delayed'[t]
      /\ spot'[t] = "fetch" => connected'
  BY DEF FirstLogin, Refresh, GenerateSession, MoveTo
<1> HIDE DEF b0, c0
<1>5. ASSUME NEW u \in Fetchers PROVE HasBroker(u)'
  <2>1. CASE u = t
    BY <1>1, <1>3, <1>4, <2>1 DEF HasBroker, Working, Renewing, b0
  <2>2. CASE u # t
    BY <1>3, <2>2 DEF Rest, HasBroker
  <2> QED BY <2>1, <2>2
<1>6. ASSUME NEW u \in Fetchers PROVE InTime(u)'
  <2> SUFFICES ASSUME spot'[u] = "call"
               PROVE  renewal'[u] \/ tick < expiry'[my[u]] + (IF delayed'[u] THEN 1 ELSE 0)
    BY <1>3 DEF InTime
  <2>1. CASE my[u] = b0
    BY <1>1, <1>2, <2>1
  <2>2. CASE my[u] # b0
    <3>1. u # t /\ spot[u] = "call"
      BY <1>3, <2>2 DEF b0
    <3>2. my[u] \in Numbers
      BY <3>1 DEF Rest, HasBroker, Working
    <3> QED BY <1>2, <1>3, <2>2, <3>1, <3>2 DEF Rest, InTime
  <2> QED BY <2>1, <2>2
<1>7. OneBroker'
  <2>1. ASSUME NEW b \in Numbers, NEW c \in Numbers, Own(b, c)' PROVE Own(b, c)
    <3>1. CASE client'[b] = c
      BY <1>3, <3>1 DEF Own
    <3>2. CASE renewedBy'[b] = c
      BY <1>1, <1>2, <3>2 DEF Own, b0, c0
    <3>3. CASE \E u \in Fetchers : spot'[u] \in Renewing /\ my'[u] = b /\ via'[u] = c
      BY <1>3, <1>4, <3>3 DEF Own, Renewing
    <3> QED BY <2>1, <3>1, <3>2, <3>3 DEF Own
  <2> QED BY <1>3, <2>1, KeepsOwner DEF Rest
<1>8. ASSUME NEW b \in Numbers PROVE Tells(b)'
  <2>1. CASE b = b0
    BY <1>1, <1>2, <2>1 DEF Tells
  <2>2. CASE b # b0
    <3>1. renewedBy'[b] = renewedBy[b] /\ expiry'[b] = expiry[b]
      BY <1>2, <2>2
    <3>2. CASE renewedBy[b] # 0
      <4>1. renewedBy[b] \in Numbers
        BY <3>2, AngelSessionAssumption DEF Numbers
      <4>2. Own(b, renewedBy[b]) /\ Own(b0, c0)
        BY <1>1 DEF Own, b0, c0
      <4>3. renewedBy[b] # c0
        BY <1>1, <2>2, <4>1, <4>2 DEF Rest, OneBroker
      <4>4. token'[renewedBy[b]] = token[renewedBy[b]]
        BY <1>2, <4>1, <4>3
      <4> QED BY <3>1, <4>4 DEF Rest, Tells
    <3>3. CASE renewedBy[b] = 0
      BY <3>1, <3>3 DEF Tells
    <3> QED BY <3>2, <3>3
  <2> QED BY <2>1, <2>2
<1> QED BY <1>5, <1>6, <1>7, <1>8 DEF Rest

\* ... or it is not, and the thread remembers.
LEMMA RefusedStep ==
  ASSUME SessionTypes, Rest, NEW t \in Fetchers, ~Renewed(t),
         FirstLogin(t) \/ Refresh(t) \/ GenerateSession(t)
  PROVE  Rest'
<1> USE DEF SessionTypes, SessionTypeOK
<1>1. my[t] \in Numbers /\ client[my[t]] \in Numbers
  BY DEF FirstLogin, Refresh, GenerateSession, Working, Rest, HasBroker
<1>2. /\ UNCHANGED <<tick, client, clients, my, via, token, expiry, renewedBy, connected>>
      /\ \A u \in Fetchers : u # t =>
           spot'[u] = spot[u] /\ delayed'[u] = delayed[u] /\ renewal'[u] = renewal[u]
  BY DEF FirstLogin, Refresh, GenerateSession, MoveTo, NotRenewed
<1>3. /\ spot'[t] \in {"call", "unavailable", "relogin"}
      /\ spot'[t] = "call" => renewal'[t]
  BY DEF FirstLogin, Refresh, GenerateSession, MoveTo, NotRenewed
<1>4. ASSUME NEW u \in Fetchers PROVE HasBroker(u)' /\ InTime(u)'
  <2>1. CASE u = t
    BY <1>1, <1>2, <1>3, <2>1 DEF HasBroker, InTime, Working, Renewing
  <2>2. CASE u # t
    BY <1>2, <2>2 DEF Rest, HasBroker, InTime
  <2> QED BY <2>1, <2>2
<1>5. \A b, c \in Numbers : Own(b, c)' => Own(b, c)
  BY <1>2, <1>3 DEF Own, Renewing
<1>6. OneBroker'
  BY <1>2, <1>5, KeepsOwner DEF Rest
<1> QED BY <1>2, <1>4, <1>6 DEF Rest, Tells

\* The test of the expiry, and the call at most one tick after it.
LEMMA FetchStep ==
  ASSUME SessionTypes, Rest, NEW t \in Fetchers, Fetch(t)
  PROVE  Rest'
<1> USE DEF SessionTypes, SessionTypeOK
<1>1. connected /\ broker \in Numbers /\ client[broker] \in Numbers
  <2>1. connected
    BY DEF Fetch, Rest, HasBroker
  <2> QED BY <2>1, AngelSessionAssumption DEF Numbers
<1>2. /\ my'[t] = broker /\ ~delayed'[t]
      /\ \/ spot'[t] = "refresh" /\ via'[t] = client[broker]
         \/ spot'[t] = "call" /\ tick < expiry[broker]
      /\ \A u \in Fetchers : u # t =>
           /\ spot'[u] = spot[u] /\ delayed'[u] = delayed[u]
           /\ my'[u] = my[u] /\ via'[u] = via[u]
      /\ UNCHANGED <<tick, client, clients, token, expiry, renewedBy, renewal, connected>>
  <2>1. tick \in Int /\ expiry[broker] \in Int
    BY <1>1, AngelSessionAssumption
  <2> QED BY <2>1 DEF Fetch, MoveTo, Uses, NearExpiry
<1>3. ASSUME NEW u \in Fetchers PROVE HasBroker(u)' /\ InTime(u)'
  <2>1. CASE u = t
    <3>1. HasBroker(t)'
      BY <1>1, <1>2 DEF HasBroker, Working, Renewing
    <3>2. InTime(t)'
      BY <1>1, <1>2, AngelSessionAssumption DEF InTime
    <3> QED BY <2>1, <3>1, <3>2
  <2>2. CASE u # t
    BY <1>2, <2>2 DEF Rest, HasBroker, InTime
  <2> QED BY <2>1, <2>2
<1>4. \A b, c \in Numbers : Own(b, c)' => Own(b, c)
  BY <1>2 DEF Own, Renewing
<1>5. OneBroker'
  BY <1>2, <1>4, KeepsOwner DEF Rest
<1> QED BY <1>2, <1>3, <1>5 DEF Rest, Tells

LEMMA CallStep ==
  ASSUME SessionTypes, Rest, NEW t \in Fetchers, Call(t)
  PROVE  Rest'
<1> USE DEF SessionTypes, SessionTypeOK
<1>1. /\ spot'[t] \in {"answered", "rejected"}
      /\ \A u \in Fetchers : u # t =>
           spot'[u] = spot[u] /\ delayed'[u] = delayed[u] /\ via'[u] = via[u]
      /\ UNCHANGED <<tick, client, clients, token, expiry, renewedBy, renewal, connected, my>>
  BY DEF Call, MoveTo, Uses
<1>2. ASSUME NEW u \in Fetchers PROVE HasBroker(u)' /\ InTime(u)'
  BY <1>1 DEF Rest, HasBroker, InTime, Working, Renewing
<1>3. \A b, c \in Numbers : Own(b, c)' => Own(b, c)
  BY <1>1 DEF Own, Renewing
<1>4. OneBroker'
  BY <1>1, <1>3, KeepsOwner DEF Rest
<1> QED BY <1>1, <1>2, <1>4 DEF Rest, Tells

LEMMA TickStep ==
  ASSUME SessionTypes, Rest, Tick
  PROVE  Rest'
<1> USE DEF SessionTypes, SessionTypeOK
<1>1. /\ tick' = tick + 1 /\ tick \in Int
      /\ \A u \in Fetchers : spot[u] # "idle" => ~delayed[u] /\ delayed'[u]
      /\ UNCHANGED <<client, clients, token, expiry, renewedBy, renewal, connected, spot, my, via>>
  <2>1. tick' = tick + 1 /\ tick \in Int
    BY AngelSessionAssumption DEF Tick
  <2>2. ASSUME NEW u \in Fetchers, spot[u] # "idle" PROVE ~delayed[u] /\ delayed'[u]
    BY <2>2, Zenon DEF Tick
  <2> QED BY <2>1, <2>2 DEF Tick
<1>2. ASSUME NEW u \in Fetchers PROVE HasBroker(u)' /\ InTime(u)'
  <2>1. HasBroker(u)'
    BY <1>1 DEF Rest, HasBroker
  <2>2. ASSUME spot[u] = "call", ~renewal[u]
        PROVE  tick' < expiry[my[u]] + (IF delayed'[u] THEN 1 ELSE 0)
    <3>1. tick < expiry[my[u]] + (IF delayed[u] THEN 1 ELSE 0) /\ my[u] \in Numbers
      BY <2>2 DEF Rest, InTime, HasBroker, Working
    <3> QED BY <1>1, <2>2, <3>1
  <2> QED BY <1>1, <2>1, <2>2 DEF InTime
<1>3. \A b, c \in Numbers : Own(b, c)' => Own(b, c)
  BY <1>1 DEF Own
<1>4. OneBroker'
  BY <1>1, <1>3, KeepsOwner DEF Rest
<1> QED BY <1>1, <1>2, <1>4 DEF Rest, Tells

LEMMA NextSession ==
  ASSUME SessionInv, [SessionNext]_sessionVars
  PROVE  SessionInv'
<1>1. SessionTypes /\ Rest /\ SessionTypes'
  BY NextTypes DEF SessionInv, Rest
<1>2. Rest'
  <2>1. CASE UNCHANGED sessionVars
    BY <1>1, <2>1 DEF sessionVars, Rest, HasBroker, InTime, OneBroker, Own, Tells
  <2>2. ASSUME NEW t \in Fetchers,
               \/ Ask(t) \/ TryLogin(t) \/ FirstLogin(t) \/ Fetch(t) \/ Refresh(t)
               \/ Relogin(t) \/ GenerateSession(t) \/ Call(t) \/ Done(t)
        PROVE  Rest'
    BY <1>1, <2>2, AskStep, LoginStep, RenewStep, RefusedStep, FetchStep, CallStep
  <2>3. CASE Tick
    BY <1>1, <2>3, TickStep
  <2> QED BY <2>1, <2>2, <2>3 DEF SessionNext
<1> QED BY <1>1, <1>2 DEF SessionInv, Rest

(***************************************************************************)
(* Angel One rejects a call only if the thread's own renewal has failed,   *)
(* or if the broker's client is not the one that the expiry tells of: the  *)
(* token was good for another tick when the expiry was tested, the call    *)
(* comes at most one later, and Ttl is less than Life.                     *)
(***************************************************************************)
THEOREM CallsExcusedHolds == SessionSpec => CallsExcused
<1> DEFINE Excused == \A t \in Fetchers : spot[t] = "call" /\ spot'[t] = "rejected" =>
                        renewal[t] \/ client[my[t]] # renewedBy[my[t]]
<1>1. SessionInv /\ [SessionNext]_sessionVars => SessionInv'
  BY NextSession
<1>2. SessionInv /\ [SessionNext]_sessionVars => [Excused]_sessionVars
  <2> SUFFICES ASSUME SessionInv, SessionNext, NEW t \in Fetchers,
                      spot[t] = "call", spot'[t] = "rejected",
                      ~renewal[t], client[my[t]] = renewedBy[my[t]]
               PROVE  FALSE
    OBVIOUS
  <2> USE DEF SessionTypes, SessionTypeOK
  <2>1. Call(t)
    BY ZenonT(60) DEF SessionNext, Ask, TryLogin, FirstLogin, Fetch, Refresh, Relogin, GenerateSession,
       Call, Done, Tick, MoveTo, SessionInv
  <2> DEFINE c == client[my[t]]
  <2>2. ~Accepted(c)
    BY <2>1 DEF Call, MoveTo, SessionInv
  <2>3. my[t] \in Numbers /\ c \in Numbers
    BY DEF SessionInv, HasBroker, Working
  <2>4. token[c] \in Nat /\ expiry[my[t]] = token[c] + Ttl
    BY <2>3, AngelSessionAssumption, SMTT(40) DEF SessionInv, Tells, Numbers
  <2>5. tick < expiry[my[t]] + 1
    BY <2>3, <2>4, AngelSessionAssumption DEF SessionInv, InTime
  <2>6. tick - token[c] < Life
    BY <2>4, <2>5, AngelSessionAssumption DEF SessionInv
  <2> QED BY <2>2, <2>4, <2>6 DEF Accepted, NoToken
<1> QED BY <1>1, <1>2, InitSession, PTL DEF SessionSpec, CallsExcused

-----------------------------------------------------------------------------
(***************************************************************************)
(* The instrument master of Angel One (ScripMaster)                        *)
(***************************************************************************)

\* The hours that a call has seen pass.
Late(t) == IF slow[t] THEN 1 ELSE 0

(***************************************************************************)
(* What a thread has in hand by where it is: a master just downloaded, one *)
(* from a fresh file, or, after its own download has failed, any.          *)
(***************************************************************************)
InHand(t) ==
  /\ step[t] \in {"read", "read stale"} => disk # NoMaster
  /\ step[t] = "read" => hour - diskAt < MaxAge + Late(t)
  /\ step[t] \in {"write", "written"} => hold[t] \in Hours /\ hour - hold[t] <= Late(t)
  /\ step[t] = "keep" => hold[t] \in Hours /\ hour - hold[t] <= MaxAge + Late(t)
  /\ step[t] = "keep stale" => hold[t] \in Hours
  /\ step[t] \in {"read stale", "keep stale"} => hour - failedAt <= Late(t)
  /\ step[t] = "returned" =>
       /\ hold[t] \in Hours
       /\ \/ hour - hold[t] <= 2 * MaxAge + Late(t)
          \/ hour - failedAt <= MaxAge + Late(t)

\* A file is as old as the master in it, to the hour that its writing lasts.
FileAge == disk \in Hours => diskAt - disk <= 1

\* The master in memory is as old as a file may be when it was read, or it is
\* stale, and then a download has failed no sooner than _loaded_at.
MemAge == mem # NoMaster => memAt - mem <= MaxAge + 1 \/ failedAt >= memAt - 1

ScripInv ==
  /\ ScripTypeOK
  /\ memAt <= hour /\ diskAt <= hour /\ failedAt <= hour
  /\ \A t \in Loaders : InHand(t)
  /\ FileAge /\ MemAge

-----------------------------------------------------------------------------
LEMMA InitScrip == ScripInit => ScripInv
<1> SUFFICES ASSUME ScripInit PROVE ScripInv
  OBVIOUS
<1> USE ScripMasterAssumption DEF ScripInit, Never, Hours
<1>1. ScripTypeOK
  <2>1. slow \in [Loaders -> BOOLEAN]
    BY Zenon
  <2>2. step \in [Loaders -> Steps]
    BY DEF Steps
  <2>3. /\ hour \in Hours /\ failedAt \in {Never} \cup Hours
        /\ memAt \in {Never} \cup Hours /\ diskAt \in {Never} \cup Hours
        /\ mem \in Masters /\ disk \in Masters /\ hold \in [Loaders -> Masters]
    BY DEF Masters
  <2> QED BY <2>1, <2>2, <2>3 DEF ScripTypeOK
<1>2. \A t \in Loaders : InHand(t)
  BY DEF InHand
<1> QED BY <1>1, <1>2 DEF ScripInv, FileAge, MemAge

\* Where thread t goes, the others stay.
LEMMA Goes ==
  ASSUME ScripTypeOK, NEW t \in Loaders, NEW s \in Steps, ToStep(t, s)
  PROVE  step' \in [Loaders -> Steps] /\ step'[t] = s
         /\ \A u \in Loaders : u # t => step'[u] = step[u]
  BY DEF ToStep, ScripTypeOK

LEMMA Takes ==
  ASSUME ScripTypeOK, NEW t \in Loaders, NEW m \in Masters, Take(t, m)
  PROVE  hold' \in [Loaders -> Masters] /\ hold'[t] = m
         /\ \A u \in Loaders : u # t => hold'[u] = hold[u]
  BY DEF Take, ScripTypeOK

LEMMA Clocks ==
  ASSUME ScripTypeOK
  PROVE  /\ hour \in Nat /\ hour \in Int /\ MaxAge \in Nat \ {0} /\ LastHour \in Nat
         /\ memAt \in Int /\ diskAt \in Int /\ failedAt \in Int /\ Hours \subseteq Int
         /\ \A t \in Loaders : Late(t) \in {0, 1}
  BY ScripMasterAssumption DEF ScripTypeOK, Hours, Never, Late

\* What follows from an age that a call has not seen pass.
LEMMA Ages ==
  ASSUME ScripTypeOK, NEW late \in {0, 1}
  PROVE  /\ \A h \in Hours : hour - h <= MaxAge + late =>
               hour - h <= MaxAge + 1 /\ hour - h <= 2 * MaxAge + late
         /\ hour - failedAt <= late =>
               /\ hour - failedAt <= MaxAge + late
               /\ \A h \in Int : h <= hour => failedAt >= h - 1
  BY Clocks

-----------------------------------------------------------------------------
\* Nothing that other threads do while a thread is in load() makes what it has
\* in hand any worse: files and failures only get younger.
LEMMA OthersKeep ==
  ASSUME ScripTypeOK, diskAt <= hour, failedAt <= hour, NEW u \in Loaders, InHand(u),
         step'[u] = step[u], hold'[u] = hold[u], slow'[u] = slow[u], hour' = hour,
         \/ disk' = disk /\ diskAt' = diskAt
         \/ disk' # NoMaster /\ diskAt' = hour,
         failedAt' \in {failedAt, hour}
  PROVE  InHand(u)'
<1>1. Late(u)' = Late(u) /\ Late(u) \in {0, 1}
  BY DEF Late
<1>2. /\ hour \in Int /\ diskAt \in Int /\ failedAt \in Int /\ MaxAge \in Int /\ MaxAge >= 1
      /\ Hours \subseteq Int
  BY Clocks
<1>3. disk # NoMaster => disk' # NoMaster
  OBVIOUS
<1>4. hour - diskAt < MaxAge + Late(u) => hour' - diskAt' < MaxAge + Late(u)'
  BY <1>1, <1>2
<1>6. hour - failedAt <= Late(u) => hour' - failedAt' <= Late(u)'
  BY <1>1, <1>2
<1>7. hour - failedAt <= MaxAge + Late(u) => hour' - failedAt' <= MaxAge + Late(u)'
  BY <1>1, <1>2
<1> QED BY <1>1, <1>3, <1>4, <1>6, <1>7 DEF InHand

LEMMA LoadStep ==
  ASSUME ScripInv, NEW t \in Loaders, NEW force \in BOOLEAN, Load(t, force)
  PROVE  ScripInv'
<1> USE DEF ScripTypeOK
<1>1. /\ ScripTypeOK /\ memAt <= hour /\ diskAt <= hour /\ failedAt <= hour
      /\ UNCHANGED <<hour, mem, memAt, disk, diskAt, failedAt>>
      /\ slow' \in [Loaders -> BOOLEAN] /\ \A u \in Loaders : u # t => slow'[u] = slow[u]
  <2>1. slow' \in [Loaders -> BOOLEAN] /\ \A u \in Loaders : u # t => slow'[u] = slow[u]
    BY DEF Load, ScripInv
  <2> QED BY <2>1 DEF Load, ScripInv
<1>2. ~slow'[t]
  BY <1>1, Zenon DEF Load
<1>3. Late(t)' = 0
  BY <1>2 DEF Late
<1>4. \/ MemFresh /\ Take(t, mem) /\ ToStep(t, "returned")
      \/ DiskFresh /\ ToStep(t, "read") /\ hold' = hold
      \/ ToStep(t, "download") /\ hold' = hold
  BY DEF Load
<1>5. /\ step' \in [Loaders -> Steps] /\ hold' \in [Loaders -> Masters]
      /\ \A u \in Loaders : u # t => step'[u] = step[u] /\ hold'[u] = hold[u]
      /\ step'[t] = "returned" => MemFresh /\ hold'[t] = mem
      /\ step'[t] = "read" => DiskFresh
      /\ step'[t] \in {"returned", "read", "download"}
  <2>1. {"returned", "read", "download"} \subseteq Steps
    BY DEF Steps
  <2> QED BY <1>1, <1>4, <2>1, Goes, Takes
<1>6. InHand(t)'
  <2>1. CASE step'[t] = "returned"
    <3>1. mem \in Hours /\ hour - memAt < MaxAge
      BY <1>1, <1>5, <2>1 DEF MemFresh, Masters
    <3>2. memAt - mem <= MaxAge + 1 \/ failedAt >= memAt - 1
      BY <1>5, <2>1 DEF ScripInv, MemAge, MemFresh
    <3>3. hour - mem <= 2 * MaxAge \/ hour - failedAt <= MaxAge
      BY <1>1, <3>1, <3>2, Clocks
    <3> QED BY <1>1, <1>3, <1>5, <2>1, <3>1, <3>3, Clocks DEF InHand
  <2>2. CASE step'[t] = "read"
    <3>1. disk # NoMaster /\ hour - diskAt < MaxAge + 0
      BY <1>1, <1>5, <2>2, Clocks DEF DiskFresh
    <3> QED BY <1>1, <1>3, <2>2, <3>1 DEF InHand
  <2>3. CASE step'[t] = "download"
    BY <2>3 DEF InHand
  <2> QED BY <1>5, <2>1, <2>2, <2>3
<1>7. ASSUME NEW u \in Loaders PROVE InHand(u)'
  BY <1>1, <1>5, <1>6, OthersKeep DEF ScripInv
<1> QED BY <1>1, <1>5, <1>7 DEF ScripInv, FileAge, MemAge

LEMMA ReadStep ==
  ASSUME ScripInv, NEW t \in Loaders, Read(t)
  PROVE  ScripInv'
<1> USE DEF ScripTypeOK
<1>1. /\ ScripTypeOK /\ memAt <= hour /\ diskAt <= hour /\ failedAt <= hour
      /\ UNCHANGED <<hour, mem, memAt, disk, diskAt, failedAt, slow>>
      /\ step[t] \in {"read", "read stale"} /\ InHand(t)
  BY DEF Read, ScripInv
<1>2. \/ disk = Torn /\ ToStep(t, "raised") /\ hold' = hold
      \/ disk # Torn /\ Take(t, disk) /\ step[t] = "read" /\ ToStep(t, "keep")
      \/ disk # Torn /\ Take(t, disk) /\ step[t] = "read stale" /\ ToStep(t, "keep stale")
  BY <1>1 DEF Read
<1>3. disk # Torn => disk \in Hours /\ disk \in Masters
  BY <1>1 DEF InHand, Masters
<1>4. /\ step' \in [Loaders -> Steps] /\ hold' \in [Loaders -> Masters]
      /\ \A u \in Loaders : u # t => step'[u] = step[u] /\ hold'[u] = hold[u]
      /\ \/ step'[t] = "raised"
         \/ disk \in Hours /\ hold'[t] = disk /\ step[t] = "read" /\ step'[t] = "keep"
         \/ disk \in Hours /\ hold'[t] = disk /\ step[t] = "read stale" /\ step'[t] = "keep stale"
  <2>1. {"raised", "keep", "keep stale"} \subseteq Steps
    BY DEF Steps
  <2> QED BY <1>1, <1>2, <1>3, <2>1, Goes, Takes, ZenonT(60)
<1>5. InHand(t)'
  <2>1. Late(t)' = Late(t)
    BY <1>1 DEF Late
  <2>2. CASE step'[t] = "raised"
    BY <2>2 DEF InHand
  <2>3. CASE disk \in Hours /\ hold'[t] = disk /\ step[t] = "read" /\ step'[t] = "keep"
    <3>1. hour - diskAt < MaxAge + Late(t) /\ diskAt - disk <= 1
      BY <1>1, <2>3 DEF InHand, ScripInv, FileAge
    <3>2. hour - disk <= MaxAge + Late(t)
      BY <1>1, <2>3, <3>1, Clocks
    <3> QED BY <1>1, <2>1, <2>3, <3>2 DEF InHand
  <2>4. CASE disk \in Hours /\ hold'[t] = disk /\ step[t] = "read stale" /\ step'[t] = "keep stale"
    BY <1>1, <2>1, <2>4 DEF InHand
  <2> QED BY <1>4, <2>2, <2>3, <2>4
<1>6. ASSUME NEW u \in Loaders PROVE InHand(u)'
  BY <1>1, <1>4, <1>5, OthersKeep DEF ScripInv
<1> QED BY <1>1, <1>4, <1>6 DEF ScripInv, FileAge, MemAge

LEMMA DownloadStep ==
  ASSUME ScripInv, NEW t \in Loaders, Download(t)
  PROVE  ScripInv'
<1> USE DEF ScripTypeOK
<1>1. /\ ScripTypeOK /\ memAt <= hour /\ diskAt <= hour /\ failedAt <= hour
      /\ UNCHANGED <<hour, mem, memAt, disk, diskAt, slow>>
  BY DEF Download, ScripInv
<1>2. \/ Take(t, hour) /\ ToStep(t, "write") /\ failedAt' = failedAt
      \/ failedAt' = hour /\ ToStep(t, "raised") /\ hold' = hold
      \/ disk # NoMaster /\ failedAt' = hour /\ ToStep(t, "read stale") /\ hold' = hold
  BY DEF Download
<1>3. /\ step' \in [Loaders -> Steps] /\ hold' \in [Loaders -> Masters]
      /\ \A u \in Loaders : u # t => step'[u] = step[u] /\ hold'[u] = hold[u]
      /\ \/ step'[t] = "write" /\ hold'[t] = hour
         \/ step'[t] = "raised"
         \/ step'[t] = "read stale" /\ disk # NoMaster /\ failedAt' = hour
      /\ failedAt' \in {failedAt, hour}
  <2>1. {"write", "raised", "read stale"} \subseteq Steps /\ hour \in Masters
    BY <1>1 DEF Steps, Masters
  <2> QED BY <1>1, <1>2, <2>1, Goes, Takes, ZenonT(60)
<1>4. InHand(t)'
  <2>1. hour \in Hours /\ hour' - hour <= Late(t)'
    BY <1>1, Clocks DEF Late
  <2>2. CASE step'[t] = "write" /\ hold'[t] = hour
    BY <2>1, <2>2 DEF InHand
  <2>3. CASE step'[t] = "raised"
    BY <2>3 DEF InHand
  <2>4. CASE step'[t] = "read stale" /\ disk # NoMaster /\ failedAt' = hour
    BY <1>1, <2>1, <2>4 DEF InHand
  <2> QED BY <1>3, <2>2, <2>3, <2>4
<1>5. ASSUME NEW u \in Loaders PROVE InHand(u)'
  BY <1>1, <1>3, <1>4, OthersKeep DEF ScripInv
<1>6. MemAge'
  <2>1. memAt \in Int /\ hour \in Int /\ failedAt \in Int
    BY <1>1, Clocks
  <2>2. failedAt >= memAt - 1 => failedAt' >= memAt - 1
    <3>1. CASE failedAt' = failedAt
      BY <3>1, <1>1
    <3>2. CASE failedAt' = hour
      BY <1>1, <2>1, <3>2
    <3> QED BY <1>3, <3>1, <3>2
  <2> QED BY <1>1, <2>2 DEF ScripInv, MemAge
<1>7. failedAt' \in {Never} \cup Hours /\ failedAt' <= hour
  <2>1. hour \in Int /\ hour <= hour
    BY <1>1, Clocks
  <2> QED BY <1>1, <1>3, <2>1
<1> QED BY <1>1, <1>3, <1>5, <1>6, <1>7 DEF ScripInv, FileAge

LEMMA WriteStep ==
  ASSUME ScripInv, NEW t \in Loaders, Write(t) \/ Written(t)
  PROVE  ScripInv'
<1> USE DEF ScripTypeOK
<1>1. /\ ScripTypeOK /\ memAt <= hour /\ diskAt <= hour /\ failedAt <= hour
      /\ UNCHANGED <<hour, mem, memAt, slow, failedAt, hold>> /\ diskAt' = hour
      /\ InHand(t) /\ step[t] \in {"write", "written"}
  BY DEF Write, Written, ScripInv
<1>2. hold[t] \in Hours /\ hour - hold[t] <= Late(t) /\ Late(t) \in {0, 1}
  BY <1>1, Clocks DEF InHand
<1>3. \/ disk' = Torn /\ (ToStep(t, "written") \/ ToStep(t, "raised"))
      \/ disk' = hold[t] /\ ToStep(t, "keep")
  BY DEF Write, Written, ToStep
<1>4. /\ step' \in [Loaders -> Steps]
      /\ \A u \in Loaders : u # t => step'[u] = step[u]
      /\ step'[t] \in {"written", "raised", "keep"}
  <2>1. {"written", "raised", "keep"} \subseteq Steps
    BY DEF Steps
  <2> QED BY <1>1, <1>3, <2>1, Goes
<1>5. disk' # NoMaster /\ disk' \in Masters \cup {Torn}
  <2>1. Torn # NoMaster /\ hold[t] # NoMaster
    BY <1>1, <1>2, ScripMasterAssumption, Clocks
  <2> QED BY <1>2, <1>3, <2>1 DEF Masters
<1>6. InHand(t)'
  <2>1. Late(t)' = Late(t)
    BY <1>1 DEF Late
  <2>2. hour - hold[t] <= MaxAge + Late(t)
    BY <1>1, <1>2, Clocks
  <2> QED BY <1>1, <1>2, <1>4, <2>1, <2>2 DEF InHand
<1>7. ASSUME NEW u \in Loaders PROVE InHand(u)'
  BY <1>1, <1>4, <1>5, <1>6, OthersKeep DEF ScripInv
<1>8. FileAge'
  <2>1. Torn \notin Hours
    BY <1>1, ScripMasterAssumption, Clocks
  <2>2. hour - hold[t] <= 1
    BY <1>1, <1>2, Clocks
  <2> QED BY <1>1, <1>3, <2>1, <2>2 DEF FileAge
<1>9. diskAt' \in {Never} \cup Hours /\ diskAt' <= hour
  BY <1>1, Clocks
<1> QED BY <1>1, <1>4, <1>5, <1>7, <1>8, <1>9 DEF ScripInv, MemAge

LEMMA KeepStep ==
  ASSUME ScripInv, NEW t \in Loaders, Keep(t)
  PROVE  ScripInv'
<1>0. ScripTypeOK /\ hour \in Int /\ memAt \in Int /\ hour <= hour
  <2>1. ScripTypeOK
    BY DEF ScripInv
  <2> QED BY <2>1, Clocks
<1> USE DEF ScripTypeOK
<1>1. /\ ScripTypeOK /\ memAt <= hour /\ diskAt <= hour /\ failedAt <= hour
      /\ UNCHANGED <<hour, disk, diskAt, slow, failedAt, hold>> /\ mem' = hold[t]
      /\ InHand(t) /\ ToStep(t, "returned")
      /\ \/ step[t] = "keep" /\ memAt' = hour
         \/ step[t] = "keep stale" /\ memAt' = memAt
  BY DEF Keep, ScripInv
<1>2. /\ hold[t] \in Hours /\ Late(t) \in {0, 1} /\ Late(t)' = Late(t)
      /\ step[t] = "keep" => hour - hold[t] <= MaxAge + Late(t)
      /\ step[t] = "keep stale" => hour - failedAt <= Late(t)
  BY <1>1, Clocks DEF InHand, Late
<1>3. /\ step' \in [Loaders -> Steps] /\ step'[t] = "returned"
      /\ \A u \in Loaders : u # t => step'[u] = step[u]
  BY <1>1, Goes DEF Steps
<1>4. InHand(t)'
  <2>1. CASE step[t] = "keep"
    <3>1. hour - hold[t] <= MaxAge + Late(t)
      BY <1>2, <2>1
    <3>2. hour - hold[t] <= 2 * MaxAge + Late(t)
      BY <1>0, <1>2, <3>1, Ages
    <3> QED BY <1>1, <1>2, <1>3, <3>2 DEF InHand
  <2>2. CASE step[t] = "keep stale"
    <3>1. hour - failedAt <= Late(t)
      BY <1>2, <2>2
    <3>2. hour - failedAt <= MaxAge + Late(t)
      BY <1>0, <1>2, <3>1, Ages
    <3> QED BY <1>1, <1>2, <1>3, <3>2 DEF InHand
  <2> QED BY <1>1, <2>1, <2>2
<1>5. ASSUME NEW u \in Loaders PROVE InHand(u)'
  BY <1>1, <1>3, <1>4, OthersKeep DEF ScripInv
<1>6. MemAge'
  <2>1. CASE step[t] = "keep" /\ memAt' = hour
    <3>1. hour - hold[t] <= MaxAge + Late(t)
      BY <1>2, <2>1
    <3>2. hour - hold[t] <= MaxAge + 1
      BY <1>0, <1>2, <3>1, Ages
    <3> QED BY <1>1, <2>1, <3>2 DEF MemAge
  <2>2. CASE step[t] = "keep stale" /\ memAt' = memAt
    <3>1. hour - failedAt <= Late(t)
      BY <1>2, <2>2
    <3>2. memAt <= hour /\ memAt \in Int
      BY <1>0, <1>1
    <3>3. failedAt >= memAt - 1
      BY <1>0, <1>2, <3>1, <3>2, Ages
    <3> QED BY <1>1, <2>2, <3>3 DEF MemAge
  <2> QED BY <1>1, <2>1, <2>2
<1>7. /\ mem' \in Masters /\ memAt' \in {Never} \cup Hours /\ memAt' <= hour
  BY <1>0, <1>1, <1>2 DEF Masters
<1> QED BY <1>1, <1>3, <1>5, <1>6, <1>7 DEF ScripInv, FileAge

LEMMA ReturnStep ==
  ASSUME ScripInv, NEW t \in Loaders, Return(t)
  PROVE  ScripInv'
<1> USE DEF ScripTypeOK
<1>1. /\ ScripTypeOK /\ memAt <= hour /\ diskAt <= hour /\ failedAt <= hour
      /\ UNCHANGED <<hour, mem, memAt, disk, diskAt, failedAt>>
      /\ ToStep(t, "idle") /\ Take(t, NoMaster)
  BY DEF Return, ScripInv
<1>2. slow' \in [Loaders -> BOOLEAN] /\ \A u \in Loaders : u # t => slow'[u] = slow[u]
  BY <1>1 DEF Return
<1>3. /\ step' \in [Loaders -> Steps] /\ hold' \in [Loaders -> Masters]
      /\ \A u \in Loaders : u # t => step'[u] = step[u] /\ hold'[u] = hold[u]
      /\ step'[t] = "idle"
  <2>1. "idle" \in Steps /\ NoMaster \in Masters
    BY DEF Steps, Masters
  <2> QED BY <1>1, <2>1, Goes, Takes
<1>4. InHand(t)'
  BY <1>3 DEF InHand
<1>5. ASSUME NEW u \in Loaders PROVE InHand(u)'
  BY <1>1, <1>2, <1>3, <1>4, OthersKeep DEF ScripInv
<1> QED BY <1>1, <1>2, <1>3, <1>5 DEF ScripInv, FileAge, MemAge

LEMMA RestartStep ==
  ASSUME ScripInv, Restart
  PROVE  ScripInv'
<1> USE DEF ScripTypeOK
<1>1. /\ ScripTypeOK /\ diskAt <= hour /\ failedAt <= hour
      /\ UNCHANGED <<hour, disk, diskAt, failedAt>> /\ mem' = NoMaster /\ memAt' = Never
  BY DEF Restart, ScripInv
<1>2. /\ step' \in [Loaders -> Steps] /\ \A u \in Loaders : step'[u] = "idle"
      /\ hold' \in [Loaders -> Masters]
  BY DEF Restart, Steps, Masters
<1>3. slow' \in [Loaders -> BOOLEAN]
  BY DEF Restart
<1>4. \A u \in Loaders : InHand(u)'
  BY <1>2 DEF InHand
<1>5. memAt' <= hour
  BY <1>1, Clocks DEF Never
<1> QED BY <1>1, <1>2, <1>3, <1>4, <1>5 DEF ScripInv, FileAge, MemAge, Masters

LEMMA HourStep ==
  ASSUME ScripInv, Hour
  PROVE  ScripInv'
<1> USE DEF ScripTypeOK
<1>1. /\ ScripTypeOK /\ memAt <= hour /\ diskAt <= hour /\ failedAt <= hour
      /\ hour < LastHour /\ hour' = hour + 1
      /\ UNCHANGED <<mem, memAt, disk, diskAt, step, hold, failedAt>>
  BY DEF Hour, ScripInv
<1>2. slow' \in [Loaders -> BOOLEAN]
  BY <1>1 DEF Hour
<1>3. ASSUME NEW t \in Loaders, step[t] # "idle" PROVE ~slow[t] /\ slow'[t]
  BY <1>3, Zenon DEF Hour
<1>4. ASSUME NEW t \in Loaders PROVE InHand(t)'
  <2>1. CASE step[t] = "idle"
    BY <1>1, <2>1 DEF InHand
  <2>2. CASE step[t] # "idle"
    <3>1. Late(t) = 0 /\ Late(t)' = 1
      BY <1>3, <2>2 DEF Late
    <3>2. InHand(t)
      BY DEF ScripInv
    <3>3. /\ hour - diskAt < MaxAge + 0 => hour' - diskAt < MaxAge + 1
          /\ hour - failedAt <= 0 => hour' - failedAt <= 1
          /\ hour - failedAt <= MaxAge + 0 => hour' - failedAt <= MaxAge + 1
      BY <1>1, Clocks
    <3>4. \A h \in Hours : /\ hour - h <= 0 => hour' - h <= 1
                           /\ hour - h <= MaxAge + 0 => hour' - h <= MaxAge + 1
                           /\ hour - h <= 2 * MaxAge + 0 => hour' - h <= 2 * MaxAge + 1
      BY <1>1, Clocks
    <3> QED BY <1>1, <3>1, <3>2, <3>3, <3>4 DEF InHand
  <2> QED BY <2>1, <2>2
<1>5. hour' \in Hours /\ memAt <= hour' /\ diskAt <= hour' /\ failedAt <= hour'
  BY <1>1, Clocks DEF Hours
<1> QED BY <1>1, <1>2, <1>4, <1>5 DEF ScripInv, FileAge, MemAge

LEMMA NextScrip ==
  ASSUME ScripInv, [ScripNext]_scripVars
  PROVE  ScripInv'
<1>1. CASE UNCHANGED scripVars
  BY <1>1 DEF scripVars, ScripInv, ScripTypeOK, InHand, Late, FileAge, MemAge
<1>2. CASE ScripNext
  BY <1>2, LoadStep, ReadStep, DownloadStep, WriteStep, KeepStep, ReturnStep, RestartStep,
     HourStep DEF ScripNext
<1> QED BY <1>1, <1>2

(***************************************************************************)
(* A token is resolved in a master no older than the life times of memory  *)
(* and file together, unless a download has failed within one life time.   *)
(***************************************************************************)
THEOREM MasterAgeHolds == ScripSpec => []MasterAge
<1>1. ScripInv /\ [ScripNext]_scripVars => ScripInv'
  BY NextScrip
<1>2. ScripInv => MasterAge
  <2> SUFFICES ASSUME ScripInv, NEW t \in Loaders, step[t] = "returned",
                      hour - hold[t] > 2 * MaxAge + 1
               PROVE  hour - failedAt <= MaxAge + 1
    BY DEF MasterAge
  <2>1. InHand(t) /\ ScripTypeOK
    BY DEF ScripInv
  <2>2. hold[t] \in Int
    BY <2>1, Clocks DEF InHand
  <2> QED BY <2>1, <2>2, Clocks DEF InHand
<1> QED BY <1>1, <1>2, InitScrip, PTL DEF ScripSpec

-----------------------------------------------------------------------------
(***************************************************************************)
(* The pool of database connections (ConnectionPool)                       *)
(***************************************************************************)

PoolTypes ==
  /\ opened \in 0..MaxConns /\ pooled \in 0..opened
  /\ condition \in [Conns -> {"good", "stale", "closed"}]
  /\ lockedBy \in [Conns -> Clients \cup {Nobody}]
  /\ poolAt \in [Clients -> {"out", "lock", "check", "close", "open", "publish", "relock", "in"}]
  /\ got \in [Clients -> Nat] /\ using \in [Clients -> Nat]
  /\ raisedIn \in [Clients -> {"nowhere", "check", "open", "block"}]
  /\ abandoned \in SUBSET Conns

(***************************************************************************)
(* Which locks thread t has by where it is in get_conn(): that of the      *)
(* connection it got, and then that of the connection it uses, which is    *)
(* the same one or a later one.                                            *)
(***************************************************************************)
Locks(t) ==
  /\ poolAt[t] # "out" => got[t] \in 1..opened
  /\ poolAt[t] \in {"check", "close", "open", "publish", "relock"} => lockedBy[got[t]] = t
  /\ poolAt[t] \in {"publish", "relock", "in"} => using[t] \in got[t]..opened
  /\ poolAt[t] \in {"publish", "relock"} => using[t] # got[t]
  /\ poolAt[t] = "in" => lockedBy[using[t]] = t

(***************************************************************************)
(* Short of close_all() the pool has the last connection that was opened,  *)
(* or, while a thread is about to put that there, the one before, and all  *)
(* others are closed.                                                      *)
(***************************************************************************)
PoolIsNewest ==
  /\ \A t \in Clients : poolAt[t] = "publish" => using[t] = opened /\ opened = pooled + 1
  /\ pooled # opened => \E t \in Clients : poolAt[t] = "publish"
  /\ \A c \in Conns : condition[c] # "closed" => c = pooled \/ c = opened
  /\ \A c \in Conns : condition[c] = "closed" /\ c = pooled =>
       c \in abandoned \/ \E t \in Clients : Replacing(t, c)

(***************************************************************************)
(* ... and what a thread may then find of its connection.                  *)
(***************************************************************************)
Finds(t) ==
  /\ poolAt[t] # "out" => got[t] <= pooled
  /\ poolAt[t] \in {"relock", "in"} => using[t] <= pooled
  /\ poolAt[t] = "close" => condition[got[t]] = "stale"
  /\ poolAt[t] \in {"open", "publish"} =>
       condition[got[t]] = "closed" /\ got[t] = pooled /\ got[t] \notin abandoned
  /\ poolAt[t] = "publish" => condition[using[t]] # "closed"
  /\ poolAt[t] = "in" /\ condition[using[t]] = "closed" => using[t] # got[t]
  /\ raisedIn[t] = "check" => pooled > got[t] \/ pooled \in abandoned
  /\ raisedIn[t] = "block" => pooled > got[t] + 1 \/ pooled \in abandoned

\* A connection that could not be opened again is closed.
AbandonedClosed == \A c \in abandoned : condition[c] = "closed" /\ c <= opened

PoolInv ==
  /\ PoolTypes
  /\ \A t \in Clients : Locks(t)
  /\ ~shut => PoolIsNewest /\ AbandonedClosed /\ \A t \in Clients : Finds(t)

LEMMA InitPool == PoolInit => PoolInv
<1> SUFFICES ASSUME PoolInit PROVE PoolInv
  OBVIOUS
<1> USE ConnectionPoolAssumption DEF PoolInit, Conns
<1>1. PoolTypes /\ AbandonedClosed
  BY DEF PoolTypes, AbandonedClosed
<1>2. \A t \in Clients : Locks(t) /\ Finds(t)
  BY DEF Locks, Finds
<1>3. PoolIsNewest
  BY DEF PoolIsNewest
<1> QED
  BY <1>1, <1>2, <1>3 DEF PoolInv

LEMMA TypesStep == PoolTypes /\ (\A t \in Clients : Locks(t)) /\ [PoolNext]_poolVars => PoolTypes'
<1> SUFFICES ASSUME PoolTypes, \A t \in Clients : Locks(t), [PoolNext]_poolVars
             PROVE  PoolTypes'
  OBVIOUS
<1> USE ConnectionPoolAssumption DEF PoolTypes, Conns, historyVars
<1>1. ASSUME NEW t \in Clients, GetOrCreate(t) \/ Reopen(t) \/ CreateFails(t) PROVE PoolTypes'
  <2>1. CASE GetOrCreate(t)
    BY <2>1 DEF GetOrCreate, Open
  <2>2. CASE Reopen(t)
    <3>1. opened' = opened + 1 /\ pooled' = pooled /\ opened + 1 \in Conns
      BY <2>2 DEF Reopen, Open
    <3>2. condition' \in [Conns -> {"good", "stale", "closed"}]
      BY <2>2 DEF Reopen, Open
    <3> QED
      BY <2>2, <3>1, <3>2 DEF Reopen
  <2>3. CASE CreateFails(t)
    BY <2>3, ZenonT(60) DEF CreateFails
  <2> QED
    BY <1>1, <2>1, <2>2, <2>3
<1>2. ASSUME NEW t \in Clients,
             Acquire(t) \/ Healthy(t) \/ OnClosed(t) \/ FindStale(t) \/ CloseStale(t) \/ Relock(t)
      PROVE  PoolTypes'
  <2>1. CASE Acquire(t) \/ Relock(t)
    BY <2>1, ZenonT(60) DEF Acquire, Relock
  <2>2. CASE Healthy(t) \/ OnClosed(t) \/ FindStale(t)
    BY <2>2, ZenonT(60) DEF Healthy, OnClosed, FindStale
  <2>3. CASE CloseStale(t)
    BY <2>3, ZenonT(60) DEF CloseStale
  <2> QED
    BY <1>2, <2>1, <2>2, <2>3
<1>3. ASSUME NEW t \in Clients, Leave(t) PROVE PoolTypes'
  <2>1. lockedBy' \in [Conns -> Clients \cup {Nobody}]
    BY <1>3 DEF Leave
  <2>2. raisedIn' \in [Clients -> {"nowhere", "check", "open", "block"}]
    BY <1>3 DEF Leave
  <2> QED
    BY <1>3, <2>1, <2>2 DEF Leave
<1>4. ASSUME NEW t \in Clients, ReopenFails(t) \/ Publish(t) PROVE PoolTypes'
  <2>1. CASE ReopenFails(t)
    <3>0. got[t] \in Conns /\ abandoned' = abandoned \cup {got[t]}
      <4>1. got[t] \in 1..opened
        BY <2>1 DEF ReopenFails, Locks
      <4> QED
        BY <2>1, <4>1 DEF ReopenFails
    <3>1. abandoned' \in SUBSET Conns
      BY <3>0, Zenon
    <3>2. /\ lockedBy' \in [Conns -> Clients \cup {Nobody}]
          /\ raisedIn' \in [Clients -> {"nowhere", "check", "open", "block"}]
          /\ poolAt' \in [Clients -> {"out", "lock", "check", "close", "open", "publish", "relock", "in"}]
      BY <2>1, ZenonT(60) DEF ReopenFails
    <3>3. /\ opened' = opened /\ pooled' = pooled /\ condition' = condition
          /\ got' = got /\ using' = using
      BY <2>1 DEF ReopenFails
    <3> QED
      BY <3>1, <3>2, <3>3
  <2>2. CASE Publish(t)
    BY <2>2 DEF Publish, Locks
  <2> QED
    BY <1>4, <2>1, <2>2
<1>5. CASE GoStale
  BY <1>5 DEF GoStale
<1>6. CASE CloseAll
  BY <1>6 DEF CloseAll
<1>7. CASE UNCHANGED poolVars
  BY <1>7 DEF poolVars
<1> QED
  BY <1>1, <1>2, <1>3, <1>4, <1>5, <1>6, <1>7 DEF PoolNext

\* A step of a thread does not take a lock from another, and GoStale and CloseAll
\* know no locks.
LEMMA LocksStep ==
  PoolTypes /\ (\A t \in Clients : Locks(t)) /\ [PoolNext]_poolVars => \A t \in Clients : Locks(t)'
<1> SUFFICES ASSUME PoolTypes, \A t \in Clients : Locks(t), [PoolNext]_poolVars,
                    NEW u \in Clients
             PROVE  Locks(u)'
  OBVIOUS
<1>0. PoolTypes'
  BY TypesStep
<1> USE ConnectionPoolAssumption DEF PoolTypes, Conns, Locks
<1>1. ASSUME NEW t \in Clients, GetOrCreate(t) \/ CreateFails(t) PROVE Locks(u)'
  BY <1>0, <1>1 DEF GetOrCreate, CreateFails, Open
<1>2. ASSUME NEW t \in Clients, Acquire(t) PROVE Locks(u)'
  BY <1>0, <1>2 DEF Acquire
<1>3. ASSUME NEW t \in Clients, Healthy(t) \/ FindStale(t) \/ CloseStale(t) PROVE Locks(u)'
  BY <1>0, <1>3 DEF Healthy, FindStale, CloseStale
<1>4. ASSUME NEW t \in Clients, OnClosed(t) \/ ReopenFails(t) PROVE Locks(u)'
  BY <1>0, <1>4 DEF OnClosed, ReopenFails
<1>5. ASSUME NEW t \in Clients, Reopen(t) \/ Publish(t) PROVE Locks(u)'
  BY <1>0, <1>5 DEF Reopen, Publish, Open
<1>6. ASSUME NEW t \in Clients, Relock(t) PROVE Locks(u)'
  BY <1>0, <1>6 DEF Relock
<1>7. ASSUME NEW t \in Clients, Leave(t) PROVE Locks(u)'
  BY <1>0, <1>7 DEF Leave
<1>8. CASE GoStale \/ CloseAll
  BY <1>0, <1>8 DEF GoStale, CloseAll
<1>9. CASE UNCHANGED poolVars
  BY <1>9 DEF poolVars
<1> QED
  BY <1>1, <1>2, <1>3, <1>4, <1>5, <1>6, <1>7, <1>8, <1>9 DEF PoolNext

\* No step but close_all() begins with the pool open and ends with it shut.
LEMMA StillOpen == [PoolNext]_poolVars /\ ~shut' => ~shut
  BY ZenonT(60) DEF PoolNext, poolVars, historyVars, GetOrCreate, CreateFails, Acquire, Healthy,
    OnClosed, FindStale, CloseStale, Reopen, ReopenFails, Publish, Relock, Leave, GoStale, CloseAll

\* Connections are closed before they are abandoned, and never opened again.
LEMMA AbandonedStep == PoolInv /\ [PoolNext]_poolVars /\ ~shut' => AbandonedClosed'
<1> SUFFICES ASSUME PoolInv, [PoolNext]_poolVars, ~shut' PROVE AbandonedClosed'
  OBVIOUS
<1>0. /\ ~shut /\ AbandonedClosed /\ PoolTypes
      /\ \A t \in Clients : Locks(t) /\ Finds(t)
  BY StillOpen DEF PoolInv
<1> USE <1>0, ConnectionPoolAssumption DEF PoolTypes, Conns, AbandonedClosed, historyVars
<1>1. ASSUME NEW t \in Clients, GetOrCreate(t) PROVE AbandonedClosed'
  <2>1. CASE pooled # 0
    BY <1>1, <2>1 DEF GetOrCreate
  <2>2. CASE pooled = 0
    BY <1>1, <2>2 DEF GetOrCreate, Open
  <2> QED
    BY <2>1, <2>2
<1>2. ASSUME NEW t \in Clients,
             CreateFails(t) \/ Acquire(t) \/ Healthy(t) \/ OnClosed(t) \/ FindStale(t) \/ CloseStale(t) \/ Relock(t)
             \/ Leave(t) \/ Publish(t)
      PROVE  AbandonedClosed'
  BY <1>2 DEF CreateFails, Acquire, Healthy, OnClosed, FindStale, CloseStale, Relock, Leave, Publish
<1>3. ASSUME NEW t \in Clients, Reopen(t) PROVE AbandonedClosed'
  BY <1>3 DEF Reopen, Open
<1>4. ASSUME NEW t \in Clients, ReopenFails(t) PROVE AbandonedClosed'
  BY <1>4 DEF ReopenFails, Locks, Finds
<1>5. CASE GoStale
  BY <1>5 DEF GoStale
<1>6. CASE CloseAll
  BY <1>6 DEF CloseAll
<1>7. CASE UNCHANGED poolVars
  BY <1>7 DEF poolVars
<1> QED
  BY <1>1, <1>2, <1>3, <1>4, <1>5, <1>6, <1>7 DEF PoolNext

\* A connection that is opened takes the place of one that is closed: of none, or
\* of the one in the pool, whose lock the thread that opens it has.
LEMMA PoolIsNewestStep == PoolInv /\ [PoolNext]_poolVars /\ ~shut' => PoolIsNewest'
<1> SUFFICES ASSUME PoolInv, [PoolNext]_poolVars, ~shut' PROVE PoolIsNewest'
  OBVIOUS
<1>0. /\ ~shut /\ PoolIsNewest /\ PoolTypes
      /\ \A t \in Clients : Locks(t) /\ Finds(t)
  BY StillOpen DEF PoolInv
<1> USE <1>0, ConnectionPoolAssumption DEF PoolTypes, Conns, historyVars
<1>1. ASSUME NEW t \in Clients, GetOrCreate(t) PROVE PoolIsNewest'
  <2>1. CASE pooled # 0
    BY <1>1, <2>1 DEF GetOrCreate, PoolIsNewest, Replacing
  <2>2. CASE pooled = 0
    <3>1. \A u \in Clients : poolAt[u] # "publish"
      BY <2>2 DEF Finds, Locks
    <3>2. opened = 0
      BY <2>2, <3>1 DEF PoolIsNewest
    <3>3. opened' = 1 /\ pooled' = 1 /\ condition' = [condition EXCEPT ![1] = "good"]
      BY <1>1, <2>2, <3>2 DEF GetOrCreate, Open
    <3>4. \A u \in Clients : poolAt'[u] # "publish"
      BY <1>1, <3>1 DEF GetOrCreate
    <3> QED
      BY <3>2, <3>3, <3>4 DEF PoolIsNewest
  <2> QED
    BY <2>1, <2>2
<1>2. ASSUME NEW t \in Clients, Reopen(t) PROVE PoolIsNewest'
  <2>1. got[t] = pooled
    BY <1>2 DEF Reopen, Finds
  <2>2. ASSUME NEW u \in Clients PROVE poolAt[u] # "publish"
    <3>1. poolAt[u] = "publish" => lockedBy[pooled] = u /\ lockedBy[pooled] = t
      BY <1>2, <2>1 DEF Reopen, Locks, Finds
    <3> QED
      BY <1>2, <3>1 DEF Reopen
  <2>3. pooled = opened
    BY <2>2 DEF PoolIsNewest
  <2>4. /\ opened' = opened + 1 /\ pooled' = pooled
        /\ condition' = [condition EXCEPT ![opened + 1] = "good"]
        /\ poolAt'[t] = "publish" /\ using'[t] = opened + 1
        /\ \A u \in Clients \ {t} : poolAt'[u] = poolAt[u]
        /\ got' = got /\ abandoned' = abandoned
    BY <1>2 DEF Reopen, Open
  <2>5. \A c \in Conns : c = pooled => Replacing(t, c)'
    BY <2>1, <2>4 DEF Replacing
  <2> QED
    BY <2>2, <2>3, <2>4, <2>5 DEF PoolIsNewest
<1>3. ASSUME NEW t \in Clients, Publish(t) PROVE PoolIsNewest'
  <2>1. got[t] = pooled /\ using[t] = opened /\ opened = pooled + 1 /\ condition[pooled] = "closed"
    BY <1>3 DEF Publish, Finds, PoolIsNewest
  <2>2. ASSUME NEW u \in Clients, u # t PROVE poolAt[u] # "publish"
    <3>1. poolAt[u] = "publish" => lockedBy[pooled] = u /\ lockedBy[pooled] = t
      BY <1>3, <2>1 DEF Publish, Locks, Finds
    <3> QED
      BY <2>2, <3>1
  <2>3. /\ opened' = opened /\ pooled' = opened /\ condition' = condition
        /\ \A u \in Clients : poolAt'[u] # "publish"
    BY <1>3, <2>1, <2>2 DEF Publish
  <2>4. condition[opened] # "closed"
    BY <1>3, <2>1 DEF Publish, Finds
  <2> QED
    BY <2>1, <2>3, <2>4 DEF PoolIsNewest
<1>4. ASSUME NEW t \in Clients,
             CreateFails(t) \/ Acquire(t) \/ Healthy(t) \/ OnClosed(t) \/ FindStale(t)
             \/ Relock(t) \/ Leave(t)
      PROVE  PoolIsNewest'
  BY <1>4 DEF CreateFails, Acquire, Healthy, OnClosed, FindStale, Relock, Leave, PoolIsNewest, Replacing
<1>5. ASSUME NEW t \in Clients, CloseStale(t) PROVE PoolIsNewest'
  BY <1>5 DEF CloseStale, PoolIsNewest, Replacing, Locks
<1>6. ASSUME NEW t \in Clients, ReopenFails(t) PROVE PoolIsNewest'
  BY <1>6 DEF ReopenFails, PoolIsNewest, Replacing
<1>7. CASE GoStale
  BY <1>7 DEF GoStale, PoolIsNewest, Replacing
<1>8. CASE CloseAll
  BY <1>8 DEF CloseAll
<1>9. CASE UNCHANGED poolVars
  BY <1>9 DEF poolVars, PoolIsNewest, Replacing
<1> QED
  BY <1>1, <1>2, <1>3, <1>4, <1>5, <1>6, <1>7, <1>8, <1>9 DEF PoolNext

\* A thread that is about to replace its connection holds its lock, so no other
\* replaces it, and none uses it.
LEMMA FindsStep ==
  PoolInv /\ [PoolNext]_poolVars /\ ~shut' => \A t \in Clients : Finds(t)'
<1> SUFFICES ASSUME PoolInv, [PoolNext]_poolVars, ~shut', NEW u \in Clients
             PROVE  Finds(u)'
  OBVIOUS
<1>0. /\ ~shut /\ PoolIsNewest /\ AbandonedClosed /\ PoolTypes
      /\ \A t \in Clients : Locks(t) /\ Finds(t)
  BY StillOpen DEF PoolInv
<1> USE <1>0, ConnectionPoolAssumption DEF PoolTypes, Conns, historyVars
<1>1. ASSUME NEW t \in Clients, GetOrCreate(t) PROVE Finds(u)'
  <2>1. CASE pooled # 0
    BY <1>1, <2>1 DEF GetOrCreate, Finds
  <2>2. CASE pooled = 0
    <3>1. 0 \notin abandoned
      OBVIOUS
    <3>2. ASSUME NEW v \in Clients PROVE poolAt[v] = "out" /\ raisedIn[v] \in {"nowhere", "open"}
      <4>1. poolAt[v] = "out"
        BY <2>2 DEF Finds, Locks
      <4>2. raisedIn[v] # "check" /\ raisedIn[v] # "block"
        BY <2>2, <3>1 DEF Finds
      <4> QED
        BY <4>1, <4>2
    <3> QED
      BY <1>1, <2>2, <3>2 DEF GetOrCreate, Finds
  <2> QED
    BY <2>1, <2>2
<1>2. ASSUME NEW t \in Clients, Acquire(t) \/ FindStale(t) \/ Healthy(t) \/ CreateFails(t)
      PROVE Finds(u)'
  BY <1>2, SMTT(40) DEF Acquire, FindStale, Healthy, CreateFails, Finds
<1>3. ASSUME NEW t \in Clients, OnClosed(t) PROVE Finds(u)'
  BY <1>3 DEF OnClosed, PoolIsNewest, Locks, Finds, Replacing
<1>4. ASSUME NEW t \in Clients, CloseStale(t) PROVE Finds(u)'
  BY <1>4, SMTT(40) DEF CloseStale, PoolIsNewest, AbandonedClosed, Locks, Finds
<1>5. ASSUME NEW t \in Clients, Reopen(t) PROVE Finds(u)'
  BY <1>5, SMTT(40) DEF Reopen, Open, Locks, Finds
<1>6. ASSUME NEW t \in Clients, ReopenFails(t) PROVE Finds(u)'
  BY <1>6, SMTT(40) DEF ReopenFails, Locks, Finds
<1>7. ASSUME NEW t \in Clients, Publish(t) PROVE Finds(u)'
  BY <1>7, SMTT(40) DEF Publish, PoolIsNewest, AbandonedClosed, Locks, Finds
<1>8. ASSUME NEW t \in Clients, Relock(t) PROVE Finds(u)'
  BY <1>8 DEF Relock, Locks, Finds
<1>9. ASSUME NEW t \in Clients, Leave(t) PROVE Finds(u)'
  BY <1>9, SMTT(40) DEF Leave, PoolIsNewest, Locks, Finds, Replacing
<1>10. CASE GoStale
  BY <1>10 DEF GoStale, Finds
<1>11. CASE CloseAll
  BY <1>11 DEF CloseAll
<1>12. CASE UNCHANGED poolVars
  BY <1>12 DEF poolVars, Finds
<1> QED
  BY <1>1, <1>2, <1>3, <1>4, <1>5, <1>6, <1>7, <1>8, <1>9, <1>10, <1>11, <1>12 DEF PoolNext

LEMMA NextPool == PoolInv /\ [PoolNext]_poolVars => PoolInv'
<1>1. PoolInv /\ [PoolNext]_poolVars /\ ~shut'
        => PoolIsNewest' /\ AbandonedClosed' /\ \A t \in Clients : Finds(t)'
  BY PoolIsNewestStep, AbandonedStep, FindsStep
<1> QED
  BY <1>1, TypesStep, LocksStep DEF PoolInv


\* No two threads use a connection at once, none of two waits for the other, and
\* short of close_all() what get_conn() may raise and which connections are closed
\* is as PoolSound says, for any number of threads and failures (core/db.py).
THEOREM PoolSoundHolds == PoolSpec => []PoolSound
<1>1. PoolInv => PoolSound
  BY ConnectionPoolAssumption
  DEF PoolInv, PoolTypes, Locks, PoolIsNewest, Finds, Conns, Replacing, PoolSound
<1> QED
  BY <1>1, InitPool, NextPool, PTL DEF PoolSpec

\* What PoolTypeOK says beyond PoolInv: a connection that is not opened yet is
\* closed and nobody's, and a thread uses one only where it yields one.
PoolRest ==
  /\ \A c \in Conns : c > opened => condition[c] = "closed" /\ lockedBy[c] = Nobody
  /\ \A t \in Clients : /\ got[t] \in 0..opened /\ using[t] \in 0..opened
                        /\ using[t] # 0 <=> poolAt[t] \in {"publish", "relock", "in"}

LEMMA InitPoolRest == PoolInit => PoolRest
  BY DEF PoolInit, PoolRest, Conns

LEMMA NextPoolRest == PoolInv /\ PoolRest /\ [PoolNext]_poolVars => PoolRest'
<1> SUFFICES ASSUME PoolInv, PoolRest, [PoolNext]_poolVars PROVE PoolRest'
  OBVIOUS
<1>0. PoolTypes /\ \A t \in Clients : Locks(t)
  BY DEF PoolInv
<1> USE <1>0, ConnectionPoolAssumption DEF PoolTypes, Conns, PoolRest, Locks, historyVars
<1>1. ASSUME NEW t \in Clients, GetOrCreate(t) PROVE PoolRest'
  <2>1. CASE pooled # 0
    BY <1>1, <2>1 DEF GetOrCreate
  <2>2. CASE pooled = 0
    BY <1>1, <2>2 DEF GetOrCreate, Open
  <2> QED
    BY <2>1, <2>2
<1>2. ASSUME NEW t \in Clients, Acquire(t) PROVE PoolRest'
  BY <1>2 DEF Acquire
<1>3. ASSUME NEW t \in Clients, Healthy(t) \/ FindStale(t) \/ CloseStale(t) PROVE PoolRest'
  BY <1>3 DEF Healthy, FindStale, CloseStale
<1>4. ASSUME NEW t \in Clients, OnClosed(t) \/ ReopenFails(t) PROVE PoolRest'
  BY <1>4 DEF OnClosed, ReopenFails
<1>5. ASSUME NEW t \in Clients, Reopen(t) \/ Publish(t) PROVE PoolRest'
  BY <1>5 DEF Reopen, Publish, Open
<1>6. ASSUME NEW t \in Clients, Relock(t) PROVE PoolRest'
  BY <1>6 DEF Relock
<1>7. ASSUME NEW t \in Clients, Leave(t) PROVE PoolRest'
  BY <1>7 DEF Leave
<1>8. CASE GoStale \/ CloseAll
  BY <1>8 DEF GoStale, CloseAll
<1>9. ASSUME NEW t \in Clients, CreateFails(t) PROVE PoolRest'
  BY <1>9 DEF CreateFails
<1>10. CASE UNCHANGED poolVars
  BY <1>10 DEF poolVars
<1> QED
  BY <1>1, <1>2, <1>3, <1>4, <1>5, <1>6, <1>7, <1>8, <1>9, <1>10 DEF PoolNext

\* The variables keep their types.
LEMMA PoolTypeOKHolds == PoolInv /\ PoolRest => PoolTypeOK
  BY ConnectionPoolAssumption DEF PoolInv, PoolRest, PoolTypes, Locks, Conns, PoolTypeOK

-----------------------------------------------------------------------------
(***************************************************************************)
(* The live router of the API (LiveApi)                                    *)
(***************************************************************************)

Entries == [action : Actions \ {"none"}, run : 0..MaxRuns]

ApiTypes ==
  /\ loaded \in BOOLEAN /\ served \in 0..MaxRuns /\ registry \subseteq 1..served
  /\ runState \in [Runs -> {"none", "created", "started", "stopped"}]
  /\ run_mode \in [Runs -> {"none", "LIVE", "PAPER"}]
  /\ auditLog \in Seq(Entries) /\ Len(auditLog) <= MaxAudit
  /\ handlerAt \in [Handlers -> {"idle", "starting", "stopping", "audit"}]
  /\ entry \in [Handlers -> {NoEntry} \cup Entries]
  /\ hit \in [Handlers -> SUBSET Runs]
  /\ reply \in [Handlers -> [status : {0, 200, 400, 404, 503}, count : 0..MaxAudit]]
  /\ \A r \in Runs : r \in 1..served <=> runState[r] # "none"
  /\ \A h \in Handlers : handlerAt[h] = "idle" <=> entry[h] = NoEntry

\* What a handler has done by where it is: a deploy, which no other handler has, or
\* a stop, after which the run is gone.
Handling(h) ==
  /\ entry[h].run <= served
  /\ handlerAt[h] = "starting" => entry[h].action = "DEPLOY"
  /\ handlerAt[h] = "stopping" =>
       entry[h].action \in {"STOP", "KILL_STRATEGIES"} /\ hit[h] \subseteq 1..served
  /\ entry[h].action = "DEPLOY" =>
       /\ entry[h].run # 0 /\ hit[h] = {entry[h].run}
       /\ handlerAt[h] = "starting" => runState[entry[h].run] # "started"
       /\ \A k \in Handlers : entry[k].action = "DEPLOY" /\ entry[k].run = entry[h].run => k = h
  /\ entry[h].action = "STOP" =>
       /\ hit[h] = {entry[h].run}
       /\ handlerAt[h] = "audit" => entry[h].run \notin registry
  /\ entry[h].action = "KILL_STRATEGIES" =>
       IF handlerAt[h] = "audit" THEN registry \subseteq clashed
       ELSE registry \subseteq clashed \cup hit[h]

\* The parts of ApiHonest that the log has.
Recorded(r) ==
  \/ r \in forgotten
  \/ \E k \in Handlers : entry[k].action = "DEPLOY" /\ r \in hit[k]
  \/ \E i \in 1..Len(auditLog) : Logged(r, i)

InOrder(r) ==
  \A i \in 1..Len(auditLog) :
    /\ ~(auditLog[i].action = "STOP" /\ auditLog[i].run = r)
    /\ Logged(r, i) /\ r \notin clashed =>
         \A j \in 1..(i - 1) : auditLog[j].action # "KILL_STRATEGIES"

ApiInv ==
  /\ ApiTypes
  /\ \A h \in Handlers : Handling(h)
  /\ \A r \in registry : runState[r] # "stopped"
  /\ \A i \in 1..Len(auditLog) : auditLog[i].run <= served
  /\ \A r \in registry : Recorded(r) /\ InOrder(r)

LEMMA EntryValues ==
  /\ NoEntry.action = "none" /\ NoEntry.run = 0
  /\ \A e \in Entries : e.action \in Actions \ {"none"} /\ e.run \in 0..MaxRuns /\ e # NoEntry
  BY DEF NoEntry, Entries

\* _audit(): the entry is put in front, and the last one may go.
LEMMA Appended ==
  ASSUME auditLog \in Seq(Entries), Len(auditLog) <= MaxAudit, NEW e \in Entries
  PROVE  LET log == AppendEntry(e) IN
         /\ log \in Seq(Entries) /\ Len(log) \in 1..MaxAudit /\ Len(log) <= Len(auditLog) + 1
         /\ Len(auditLog) < MaxAudit => Len(log) = Len(auditLog) + 1
         /\ Len(auditLog) = MaxAudit => Len(log) = MaxAudit
         /\ log[1] = e
         /\ \A i \in 2..Len(log) : log[i] = auditLog[i - 1]
<1> DEFINE long == <<e>> \o auditLog
           n == IF Len(long) < MaxAudit THEN Len(long) ELSE MaxAudit
<1>1. /\ long \in Seq(Entries) /\ Len(long) = 1 + Len(auditLog) /\ long[1] = e
      /\ \A i \in 2..Len(long) : long[i] = auditLog[i - 1]
  OBVIOUS
<1>2. n \in 1..Len(long) /\ n \in 1..MaxAudit
  BY <1>1, LiveApiAssumption
<1>3. AppendEntry(e) = SubSeq(long, 1, n)
  BY DEF AppendEntry, NewestEntries
<1> HIDE DEF long
<1>4. /\ SubSeq(long, 1, n) \in Seq(Entries) /\ Len(SubSeq(long, 1, n)) = n
      /\ \A i \in 1..n : SubSeq(long, 1, n)[i] = long[i]
  <2> HIDE DEF n
  <2> QED BY <1>1, <1>2
<1> QED BY <1>1, <1>2, <1>3, <1>4, LiveApiAssumption

LEMMA Entered ==
  ASSUME ApiTypes, NEW h \in Handlers, NEW stage \in {"starting", "stopping", "audit"},
         NEW action \in Actions \ {"none"}, NEW run \in 0..MaxRuns, NEW runs \in SUBSET Runs,
         Enter(h, stage, action, run, runs)
  PROVE  /\ handlerAt' \in [Handlers -> {"idle", "starting", "stopping", "audit"}]
         /\ entry' \in [Handlers -> {NoEntry} \cup Entries] /\ hit' \in [Handlers -> SUBSET Runs]
         /\ reply' \in [Handlers -> [status : {0, 200, 400, 404, 503}, count : 0..MaxAudit]]
         /\ handlerAt'[h] = stage /\ hit'[h] = runs
         /\ entry'[h].action = action /\ entry'[h].run = run
         /\ \A k \in Handlers : handlerAt'[k] = "idle" <=> entry'[k] = NoEntry
         /\ \A k \in Handlers \ {h} :
              handlerAt'[k] = handlerAt[k] /\ entry'[k] = entry[k] /\ hit'[k] = hit[k]
<1> DEFINE e == [action |-> action, run |-> run]
<1>1. e \in Entries /\ e # NoEntry /\ e.action = action /\ e.run = run
  BY EntryValues DEF Entries
<1>2. Silence \in [status : {0, 200, 400, 404, 503}, count : 0..MaxAudit]
  BY LiveApiAssumption DEF Silence
<1>3. /\ handlerAt' = [handlerAt EXCEPT ![h] = stage] /\ entry' = [entry EXCEPT ![h] = e]
      /\ hit' = [hit EXCEPT ![h] = runs] /\ reply' = [reply EXCEPT ![h] = Silence]
  BY DEF Enter
<1> HIDE DEF e
<1> QED BY <1>1, <1>2, <1>3 DEF ApiTypes

LEMMA Replied ==
  ASSUME ApiTypes, NEW h \in Handlers, NEW status \in {200, 400, 404, 503},
         NEW count \in 0..MaxAudit, Reply(h, status, count)
  PROVE  /\ handlerAt' \in [Handlers -> {"idle", "starting", "stopping", "audit"}]
         /\ entry' \in [Handlers -> {NoEntry} \cup Entries] /\ hit' \in [Handlers -> SUBSET Runs]
         /\ reply' \in [Handlers -> [status : {0, 200, 400, 404, 503}, count : 0..MaxAudit]]
         /\ handlerAt'[h] = "idle" /\ entry'[h].action = "none" /\ entry'[h].run = 0
         /\ \A k \in Handlers : handlerAt'[k] = "idle" <=> entry'[k] = NoEntry
         /\ \A k \in Handlers \ {h} :
              handlerAt'[k] = handlerAt[k] /\ entry'[k] = entry[k] /\ hit'[k] = hit[k]
  BY EntryValues DEF ApiTypes, Reply

-----------------------------------------------------------------------------
\* Requests that are answered and change nothing ...
LEMMA AnswerStep ==
  ASSUME ApiInv, NEW h \in Handlers, handlerAt[h] = "idle", loaded' \in BOOLEAN,
         NEW status \in {200, 400, 404, 503}, NEW count \in 0..MaxAudit,
         Reply(h, status, count), UNCHANGED <<engineVars, auditLog, clashed, forgotten>>
  PROVE  ApiInv'
<1>1. ApiTypes /\ entry[h].action = "none"
  BY EntryValues DEF ApiInv, ApiTypes
<1>2. /\ handlerAt'[h] = "idle" /\ entry'[h].action = "none" /\ entry'[h].run = 0
      /\ \A k \in Handlers \ {h} :
           handlerAt'[k] = handlerAt[k] /\ entry'[k] = entry[k] /\ hit'[k] = hit[k]
  BY <1>1, Replied
<1>3. ApiTypes'
  BY <1>1, Replied DEF ApiTypes, engineVars
<1>4. ASSUME NEW k \in Handlers PROVE Handling(k)'
  <2>1. CASE k = h
    BY <1>2, <1>3, <2>1 DEF Handling, ApiTypes
  <2>2. CASE k # h
    BY <1>1, <1>2, <2>2 DEF Handling, ApiInv, engineVars
  <2> QED BY <2>1, <2>2
<1>5. ASSUME NEW r \in registry' PROVE Recorded(r)' /\ InOrder(r)'
  BY <1>1, <1>2 DEF ApiInv, Recorded, InOrder, Logged, engineVars
<1> QED BY <1>3, <1>4, <1>5 DEF ApiInv, engineVars

\* ... that act on what the engine has, of which deploy() is another matter ...
LEMMA RequestStep ==
  ASSUME ApiInv, NEW h \in Handlers, handlerAt[h] = "idle", loaded' \in BOOLEAN,
         NEW stage \in {"stopping", "audit"}, NEW action \in Actions \ {"none", "DEPLOY"},
         NEW run \in 0..served, NEW runs \in SUBSET (1..served),
         Enter(h, stage, action, run, runs),
         stage = "stopping" => action \in {"STOP", "KILL_STRATEGIES"},
         action = "STOP" => stage = "stopping" /\ runs = {run},
         action = "KILL_STRATEGIES" => stage = "stopping" /\ runs = registry,
         UNCHANGED <<engineVars, auditLog, clashed, forgotten>>
  PROVE  ApiInv'
<1>1. ApiTypes /\ entry[h].action = "none" /\ run \in 0..MaxRuns /\ runs \subseteq Runs
  BY EntryValues, LiveApiAssumption DEF ApiInv, ApiTypes, Runs
<1>2. /\ handlerAt'[h] = stage /\ hit'[h] = runs
      /\ entry'[h].action = action /\ entry'[h].run = run
      /\ \A k \in Handlers \ {h} :
           handlerAt'[k] = handlerAt[k] /\ entry'[k] = entry[k] /\ hit'[k] = hit[k]
  <2>1. /\ stage \in {"starting", "stopping", "audit"} /\ action \in Actions \ {"none"}
        /\ runs \in SUBSET Runs
    BY <1>1
  <2>2. Enter(h, stage, action, run, runs)
    OBVIOUS
  <2> QED BY ONLY <1>1, <2>1, <2>2, h \in Handlers, Entered
<1>3. ApiTypes'
  <2>1. /\ handlerAt' \in [Handlers -> {"idle", "starting", "stopping", "audit"}]
        /\ entry' \in [Handlers -> {NoEntry} \cup Entries] /\ hit' \in [Handlers -> SUBSET Runs]
        /\ reply' \in [Handlers -> [status : {0, 200, 400, 404, 503}, count : 0..MaxAudit]]
        /\ \A k \in Handlers : handlerAt'[k] = "idle" <=> entry'[k] = NoEntry
    BY <1>1, Entered
  <2>2. /\ registry' = registry /\ runState' = runState /\ run_mode' = run_mode
        /\ served' = served /\ auditLog' = auditLog
    BY DEF engineVars
  <2> QED BY <1>1, <2>1, <2>2 DEF ApiTypes
<1>4. ASSUME NEW k \in Handlers PROVE Handling(k)'
  <2>1. CASE k = h
    <3>1. /\ entry'[k].action = action /\ entry'[k].run = run /\ run <= served
          /\ handlerAt'[k] = stage /\ hit'[k] = runs /\ action # "DEPLOY"
          /\ UNCHANGED <<served, registry, clashed>> /\ stage # "starting"
      BY <1>1, <1>2, <2>1 DEF engineVars, ApiTypes
    <3> QED BY <3>1 DEF Handling
  <2>2. CASE k # h
    BY <1>1, <1>2, <2>2 DEF Handling, ApiInv, engineVars
  <2> QED BY <2>1, <2>2
<1>5. ASSUME NEW r \in registry' PROVE Recorded(r)' /\ InOrder(r)'
  BY <1>1, <1>2 DEF ApiInv, Recorded, InOrder, Logged, engineVars
<1> QED BY <1>3, <1>4, <1>5 DEF ApiInv, engineVars

\* ... and deploy(): a kill that runs will not know of the run.
LEMMA DeployStep ==
  ASSUME ApiInv, NEW h \in Handlers, NEW s, NEW m \in {"paper", "live"}, Deploy(h, s, m)
  PROVE  ApiInv'
<1>1. ApiTypes /\ entry[h].action = "none" /\ handlerAt[h] = "idle" /\ loaded' \in BOOLEAN
  BY EntryValues DEF ApiInv, ApiTypes, Deploy, Begin, GetEngine
<1>2. CASE Reply(h, 400, 0) /\ UNCHANGED <<engineVars, clashed>>
  BY <1>1, <1>2, AnswerStep, LiveApiAssumption DEF Deploy
<1>3. ASSUME NEW run, run = served + 1, run \in Runs, served' = run,
             registry' = registry \cup {run},
             runState' = [runState EXCEPT ![run] = "created"],
             run_mode' = [run_mode EXCEPT ![run] = Mode(m)],
             clashed' = (IF Killing THEN clashed \cup {run} ELSE clashed),
             Enter(h, "starting", "DEPLOY", run, {run})
      PROVE  ApiInv'
  <2>1. /\ served \in Nat /\ run \in 0..MaxRuns /\ served' \in 0..MaxRuns
        /\ 1..served' = (1..served) \cup {run} /\ run \notin 1..served
    BY <1>1, <1>3, LiveApiAssumption DEF ApiTypes, Runs
  <2>2. /\ handlerAt'[h] = "starting" /\ hit'[h] = {run}
        /\ entry'[h].action = "DEPLOY" /\ entry'[h].run = run
        /\ \A k \in Handlers \ {h} :
             handlerAt'[k] = handlerAt[k] /\ entry'[k] = entry[k] /\ hit'[k] = hit[k]
    BY <1>1, <1>3, <2>1, Entered DEF Actions
  <2>3. Mode(m) \in {"LIVE", "PAPER"}
    BY DEF Mode
  <2>4. /\ runState' \in [Runs -> {"none", "created", "started", "stopped"}]
        /\ runState'[run] = "created" /\ \A r \in Runs \ {run} : runState'[r] = runState[r]
        /\ run_mode' \in [Runs -> {"none", "LIVE", "PAPER"}]
    BY <1>1, <1>3, <2>3 DEF ApiTypes
  <2>5. ApiTypes'
    <3>1. \A r \in Runs : r \in 1..served' <=> runState'[r] # "none"
      BY <1>1, <2>1, <2>4 DEF ApiTypes
    <3>2. /\ handlerAt' \in [Handlers -> {"idle", "starting", "stopping", "audit"}]
          /\ entry' \in [Handlers -> {NoEntry} \cup Entries] /\ hit' \in [Handlers -> SUBSET Runs]
          /\ reply' \in [Handlers -> [status : {0, 200, 400, 404, 503}, count : 0..MaxAudit]]
          /\ \A k \in Handlers : handlerAt'[k] = "idle" <=> entry'[k] = NoEntry
      BY <1>1, <1>3, <2>1, Entered DEF Actions
    <3>3. auditLog' \in Seq(Entries) /\ Len(auditLog') <= MaxAudit /\ registry' \subseteq 1..served'
      BY <1>1, <1>3, <2>1 DEF Deploy, ApiTypes
    <3> QED BY <1>1, <2>1, <2>4, <3>1, <3>2, <3>3 DEF ApiTypes
  <2>6. UNCHANGED <<auditLog, forgotten>>
    BY DEF Deploy
  <2>7. ASSUME NEW k \in Handlers PROVE Handling(k)'
    <3>1. CASE k = h
      <4>1. \A j \in Handlers \ {h} : entry[j].run <= served
        BY DEF ApiInv, Handling
      <4> QED BY <1>3, <2>1, <2>2, <2>4, <3>1, <4>1 DEF Handling
    <3>2. CASE k # h
      <4>1. Handling(k) /\ entry[k].run \in 0..served
        BY <1>1, EntryValues DEF ApiInv, Handling, ApiTypes
      <4>2. entry[k].run # run
        BY <2>1, <4>1
      <4>3. entry[k].action = "KILL_STRATEGIES" => clashed' = clashed \cup {run}
        BY <1>3 DEF Killing
      <4>4. \A r \in Runs : r # run => runState'[r] = runState[r]
        BY <2>4
      <4>5. entry[k].run # 0 => entry[k].run \in Runs
        BY <1>1, <4>1, LiveApiAssumption DEF Runs, ApiTypes
      <4> QED BY <1>3, <2>1, <2>2, <3>2, <4>1, <4>2, <4>3, <4>4, <4>5 DEF Handling
    <3> QED BY <3>1, <3>2
  <2>8. \A i \in 1..Len(auditLog) : auditLog[i].run <= served /\ auditLog[i].run \in Nat
    BY <1>1, EntryValues DEF ApiInv, ApiTypes
  <2>9. ASSUME NEW r \in registry' PROVE Recorded(r)' /\ InOrder(r)'
    <3>1. CASE r = run
      <4>1. Recorded(r)'
        BY <2>2, <3>1 DEF Recorded
      <4>2. InOrder(r)'
        BY <1>3, <2>1, <2>6, <2>8, <3>1 DEF InOrder, Logged
      <4> QED BY <2>4, <3>1, <4>1, <4>2
    <3>2. CASE r # run
      <4>1. r \in registry /\ Recorded(r) /\ InOrder(r)
        BY <1>3, <3>2 DEF ApiInv
      <4>2. Recorded(r)'
        BY <1>1, <2>2, <2>6, <4>1 DEF Recorded, Logged
      <4>3. InOrder(r)'
        BY <1>3, <2>6, <3>2, <4>1 DEF InOrder, Logged
      <4>4. r \in Runs
        BY <1>1, <4>1, LiveApiAssumption DEF Runs, ApiTypes
      <4> QED BY <2>4, <3>2, <4>1, <4>2, <4>3, <4>4
    <3> QED BY <3>1, <3>2
  <2>10. \A r \in registry' : runState'[r] # "stopped"
    <3>1. registry \subseteq Runs
      BY <1>1, LiveApiAssumption DEF Runs, ApiTypes
    <3> QED BY <1>3, <2>4, <3>1 DEF ApiInv
  <2>11. \A i \in 1..Len(auditLog') : auditLog'[i].run <= served'
    BY <1>3, <2>1, <2>6, <2>8
  <2> QED BY <2>5, <2>7, <2>9, <2>10, <2>11 DEF ApiInv
<1> QED BY <1>2, <1>3 DEF Deploy

\* start() after deploy(): a run that a stop or a kill has reached is not logged.
LEMMA StartRunStep ==
  ASSUME ApiInv, NEW h \in Handlers, StartRun(h)
  PROVE  ApiInv'
<1> DEFINE run == entry[h].run
<1>1. /\ ApiTypes /\ handlerAt[h] = "starting" /\ entry[h].action = "DEPLOY" /\ Handling(h)
      /\ run \in 1..served /\ run \in Runs /\ run \in 0..MaxRuns
  <2>1. ApiTypes /\ handlerAt[h] = "starting" /\ entry[h].action = "DEPLOY" /\ Handling(h)
    BY DEF ApiInv, StartRun, Handling
  <2> QED BY <2>1, EntryValues, LiveApiAssumption DEF ApiTypes, Handling, Runs
<1>2. /\ UNCHANGED <<loaded, registry, run_mode, served, auditLog, clashed, forgotten>>
  BY DEF StartRun
<1>3. CASE /\ runState[run] = "created" /\ runState' = [runState EXCEPT ![run] = "started"]
           /\ Enter(h, "audit", "DEPLOY", run, {run})
  <2>1. /\ handlerAt'[h] = "audit" /\ hit'[h] = {run}
        /\ entry'[h].action = "DEPLOY" /\ entry'[h].run = run
        /\ \A k \in Handlers \ {h} :
             handlerAt'[k] = handlerAt[k] /\ entry'[k] = entry[k] /\ hit'[k] = hit[k]
    BY <1>1, <1>3, Entered DEF Actions
  <2>2. ApiTypes'
    <3>1. /\ runState' \in [Runs -> {"none", "created", "started", "stopped"}]
          /\ \A r \in Runs : r \in 1..served <=> runState'[r] # "none"
      BY <1>1, <1>3 DEF ApiTypes
    <3>2. /\ handlerAt' \in [Handlers -> {"idle", "starting", "stopping", "audit"}]
          /\ entry' \in [Handlers -> {NoEntry} \cup Entries] /\ hit' \in [Handlers -> SUBSET Runs]
          /\ reply' \in [Handlers -> [status : {0, 200, 400, 404, 503}, count : 0..MaxAudit]]
          /\ \A k \in Handlers : handlerAt'[k] = "idle" <=> entry'[k] = NoEntry
      BY <1>1, <1>3, Entered DEF Actions
    <3> QED BY <1>1, <1>2, <3>1, <3>2 DEF ApiTypes
  <2>3. ASSUME NEW k \in Handlers PROVE Handling(k)'
    <3>1. CASE k = h
      BY <1>1, <1>2, <2>1, <3>1 DEF Handling
    <3>2. CASE k # h
      <4>1. Handling(k) /\ (entry[k].action = "DEPLOY" => entry[k].run # run)
        BY <1>1, <3>2 DEF ApiInv, Handling
      <4>2. \A r : r # run => runState'[r] = runState[r]
        BY <1>1, <1>3 DEF ApiTypes
      <4> QED BY <1>1, <1>2, <2>1, <3>2, <4>1, <4>2 DEF Handling
    <3> QED BY <3>1, <3>2
  <2>4. ASSUME NEW r \in registry' PROVE Recorded(r)' /\ InOrder(r)'
    <3>1. r \in registry /\ Recorded(r) /\ InOrder(r)
      BY <1>2 DEF ApiInv
    <3>2. Recorded(r)'
      BY <1>1, <1>2, <2>1, <3>1 DEF Recorded, Logged, Handling
    <3> QED BY <1>2, <3>1, <3>2 DEF InOrder, Logged
  <2>5. \A r \in registry' : runState'[r] # "stopped"
    BY <1>1, <1>2, <1>3 DEF ApiInv, ApiTypes
  <2> QED BY <1>2, <2>2, <2>3, <2>4, <2>5 DEF ApiInv
<1>4. CASE runState[run] # "created" /\ Reply(h, 400, 0) /\ UNCHANGED runState
  <2>1. run \notin registry
    <3>1. runState[run] \in {"created", "started", "stopped"}
      BY <1>1 DEF ApiTypes
    <3> QED BY <1>1, <1>4, <3>1 DEF ApiInv, Handling
  <2>2. /\ handlerAt'[h] = "idle" /\ entry'[h].action = "none" /\ entry'[h].run = 0
        /\ \A k \in Handlers \ {h} :
             handlerAt'[k] = handlerAt[k] /\ entry'[k] = entry[k] /\ hit'[k] = hit[k]
    BY <1>1, <1>4, Replied, LiveApiAssumption
  <2>3. ApiTypes'
    <3>1. /\ handlerAt' \in [Handlers -> {"idle", "starting", "stopping", "audit"}]
          /\ entry' \in [Handlers -> {NoEntry} \cup Entries] /\ hit' \in [Handlers -> SUBSET Runs]
          /\ reply' \in [Handlers -> [status : {0, 200, 400, 404, 503}, count : 0..MaxAudit]]
          /\ \A k \in Handlers : handlerAt'[k] = "idle" <=> entry'[k] = NoEntry
      BY <1>1, <1>4, Replied, LiveApiAssumption
    <3> QED BY <1>1, <1>2, <1>4, <3>1 DEF ApiTypes
  <2>4. ASSUME NEW k \in Handlers PROVE Handling(k)'
    <3>1. CASE k = h
      BY <2>2, <2>3, <3>1 DEF Handling, ApiTypes
    <3>2. CASE k # h
      BY <1>2, <1>4, <2>2, <3>2 DEF Handling, ApiInv
    <3> QED BY <3>1, <3>2
  <2>5. ASSUME NEW r \in registry' PROVE Recorded(r)' /\ InOrder(r)'
    <3>1. r \in registry /\ Recorded(r) /\ InOrder(r) /\ r # run
      BY <1>2, <2>1 DEF ApiInv
    <3>2. Recorded(r)'
      BY <1>1, <1>2, <2>2, <3>1 DEF Recorded, Logged, Handling
    <3> QED BY <1>2, <3>1, <3>2 DEF InOrder, Logged
  <2> QED BY <1>2, <1>4, <2>3, <2>4, <2>5 DEF ApiInv
<1> QED BY <1>3, <1>4 DEF StartRun

\* What a stop or a kill has reached is not registered when it is logged.
LEMMA StopEndsStep ==
  ASSUME ApiInv, NEW h \in Handlers, StopEnds(h)
  PROVE  ApiInv'
<1>1. /\ ApiTypes /\ handlerAt[h] = "stopping" /\ Handling(h)
      /\ entry[h].action \in {"STOP", "KILL_STRATEGIES"} /\ entry[h].run \in 0..MaxRuns
  <2>1. ApiTypes /\ handlerAt[h] = "stopping" /\ Handling(h)
    BY DEF ApiInv, StopEnds
  <2>2. entry[h] # NoEntry
    BY <2>1 DEF ApiTypes
  <2> QED BY <2>1, <2>2, EntryValues DEF ApiTypes, Handling
<1>2. /\ registry' = registry \ hit[h] /\ hit[h] \subseteq Runs
      /\ UNCHANGED <<loaded, run_mode, served, auditLog, clashed, forgotten>>
  BY <1>1 DEF StopEnds, ApiTypes
<1>2a. /\ Enter(h, "audit", entry[h].action, entry[h].run, hit[h])
      /\ hit[h] \in SUBSET Runs /\ entry[h].action \in Actions \ {"none"}
      /\ "audit" \in {"starting", "stopping", "audit"}
  BY <1>1, <1>2 DEF StopEnds, Actions
<1>3. /\ handlerAt'[h] = "audit" /\ hit'[h] = hit[h]
      /\ entry'[h].action = entry[h].action /\ entry'[h].run = entry[h].run
      /\ \A k \in Handlers \ {h} :
           handlerAt'[k] = handlerAt[k] /\ entry'[k] = entry[k] /\ hit'[k] = hit[k]
  BY <1>2a, <1>1, Entered
<1>4. \A r \in Runs : runState'[r] = IF r \in hit[h] THEN "stopped" ELSE runState[r]
  BY DEF StopEnds
<1>5. ApiTypes'
  <2>1. runState' \in [Runs -> {"none", "created", "started", "stopped"}]
    BY <1>1 DEF StopEnds, ApiTypes
  <2>2. hit[h] \subseteq 1..served
    BY <1>1 DEF Handling
  <2>3. \A r \in Runs : r \in 1..served <=> runState'[r] # "none"
    BY <1>1, <1>4, <2>2 DEF ApiTypes
  <2>4. /\ handlerAt' \in [Handlers -> {"idle", "starting", "stopping", "audit"}]
        /\ entry' \in [Handlers -> {NoEntry} \cup Entries] /\ hit' \in [Handlers -> SUBSET Runs]
        /\ reply' \in [Handlers -> [status : {0, 200, 400, 404, 503}, count : 0..MaxAudit]]
        /\ \A k \in Handlers : handlerAt'[k] = "idle" <=> entry'[k] = NoEntry
    BY <1>2a, <1>1, Entered
  <2> QED BY <1>1, <1>2, <2>1, <2>3, <2>4, ZenonT(60) DEF ApiTypes
<1>6. ASSUME NEW k \in Handlers PROVE Handling(k)'
  <2>1. CASE k = h
    BY <1>1, <1>2, <1>3, <2>1 DEF Handling
  <2>2. CASE k # h
    <3>1. Handling(k)
      BY DEF ApiInv
    <3>2. entry[k].action = "DEPLOY" => entry[k].run \in Runs
      BY <1>1, <3>1, EntryValues, LiveApiAssumption DEF Handling, ApiTypes, Runs
    <3> QED BY <1>1, <1>2, <1>3, <1>4, <2>2, <3>1, <3>2 DEF Handling
  <2> QED BY <2>1, <2>2
<1>7. ASSUME NEW r \in registry' PROVE Recorded(r)' /\ InOrder(r)'
  <2>1. r \in registry /\ Recorded(r) /\ InOrder(r)
    BY <1>2 DEF ApiInv
  <2>2. Recorded(r)'
    BY <1>1, <1>2, <1>3, <2>1 DEF Recorded, Logged
  <2> QED BY <1>2, <2>1, <2>2 DEF InOrder, Logged
<1>8. \A r \in registry' : runState'[r] # "stopped"
  <2>1. registry \subseteq Runs
    BY <1>1, LiveApiAssumption DEF Runs, ApiTypes
  <2> QED BY <1>2, <1>4, <2>1 DEF ApiInv
<1> QED BY <1>2, <1>5, <1>6, <1>7, <1>8 DEF ApiInv

\* The log is written last: a kill is in it when no run of before is registered.
LEMMA AuditStep ==
  ASSUME ApiInv, NEW h \in Handlers, Audit(h)
  PROVE  ApiInv'
<1> DEFINE e == entry[h]
<1>1. /\ ApiTypes /\ handlerAt[h] = "audit" /\ Handling(h) /\ e \in Entries
      /\ e.run \in 0..MaxRuns
  <2>1. ApiTypes /\ handlerAt[h] = "audit" /\ Handling(h)
    BY DEF ApiInv, Audit
  <2>2. e # NoEntry
    BY <2>1 DEF ApiTypes
  <2> QED BY <2>1, <2>2, EntryValues DEF ApiTypes
<1>2. /\ auditLog' \in Seq(Entries) /\ Len(auditLog') \in 1..MaxAudit
      /\ Len(auditLog') <= Len(auditLog) + 1
      /\ Len(auditLog) < MaxAudit => Len(auditLog') = Len(auditLog) + 1
      /\ Len(auditLog) = MaxAudit => Len(auditLog') = MaxAudit
      /\ auditLog'[1] = e /\ \A i \in 2..Len(auditLog') : auditLog'[i] = auditLog[i - 1]
  <2>1. auditLog' = AppendEntry(e) /\ auditLog \in Seq(Entries) /\ Len(auditLog) <= MaxAudit
    BY <1>1 DEF Audit, ApiTypes
  <2> HIDE DEF e
  <2> QED BY <1>1, <2>1, Appended, Zenon
<1>3. /\ handlerAt'[h] = "idle" /\ entry'[h].action = "none" /\ entry'[h].run = 0
      /\ \A k \in Handlers \ {h} :
           handlerAt'[k] = handlerAt[k] /\ entry'[k] = entry[k] /\ hit'[k] = hit[k]
  BY <1>1, Replied, LiveApiAssumption DEF Audit
<1>4. UNCHANGED <<loaded, engineVars, clashed>>
  BY DEF Audit
<1>5. ApiTypes'
  <2>1. /\ handlerAt' \in [Handlers -> {"idle", "starting", "stopping", "audit"}]
        /\ entry' \in [Handlers -> {NoEntry} \cup Entries] /\ hit' \in [Handlers -> SUBSET Runs]
        /\ reply' \in [Handlers -> [status : {0, 200, 400, 404, 503}, count : 0..MaxAudit]]
        /\ \A k \in Handlers : handlerAt'[k] = "idle" <=> entry'[k] = NoEntry
    BY <1>1, Replied, LiveApiAssumption DEF Audit
  <2>2. Len(auditLog') <= MaxAudit
    BY <1>2, LiveApiAssumption
  <2> QED BY <1>1, <1>2, <1>4, <2>1, <2>2 DEF ApiTypes, engineVars
<1>6. ASSUME NEW k \in Handlers PROVE Handling(k)'
  <2>1. CASE k = h
    BY <1>1, <1>3, <1>4, <2>1 DEF Handling, ApiTypes, engineVars
  <2>2. CASE k # h
    BY <1>3, <1>4, <2>2 DEF Handling, ApiInv, engineVars
  <2> QED BY <2>1, <2>2
<1>7. \A i \in 1..Len(auditLog) : auditLog[i].run <= served
  BY DEF ApiInv
<1>8. ASSUME NEW i \in 1..Len(auditLog') PROVE i = 1 \/ i - 1 \in 1..Len(auditLog)
  BY <1>1, <1>2, <1>8 DEF ApiTypes
<1>9. \A i \in 1..Len(auditLog') : auditLog'[i].run <= served'
  BY <1>1, <1>2, <1>4, <1>7, <1>8 DEF Handling, engineVars
<1>10. ASSUME NEW r \in registry' PROVE Recorded(r)' /\ InOrder(r)'
  <2>1. r \in registry /\ Recorded(r) /\ InOrder(r)
    BY <1>4 DEF ApiInv, engineVars
  <2>2. Recorded(r)'
    <3>1. CASE r \in forgotten
      BY <3>1 DEF Recorded, Audit
    <3>2. ASSUME NEW k \in Handlers, entry[k].action = "DEPLOY", r \in hit[k] PROVE Recorded(r)'
      <4>1. CASE k = h
        <5>1. e.action = "DEPLOY" /\ e.run = r
          BY <1>1, <3>2, <4>1 DEF Handling
        <5>2. Logged(r, 1)' /\ 1 \in 1..Len(auditLog')
          BY <1>2, <5>1 DEF Logged
        <5> QED BY <5>2 DEF Recorded
      <4>2. CASE k # h
        BY <1>3, <3>2, <4>2 DEF Recorded
      <4> QED BY <4>1, <4>2
    <3>3. ASSUME NEW i \in 1..Len(auditLog), Logged(r, i) PROVE Recorded(r)'
      <4>1. CASE i < MaxAudit
        <5>1. i + 1 \in 2..Len(auditLog') /\ (i + 1) - 1 = i
          BY <1>1, <1>2, <4>1, LiveApiAssumption DEF ApiTypes
        <5>2. Logged(r, i + 1)' /\ i + 1 \in 1..Len(auditLog')
          BY <1>2, <3>3, <5>1 DEF Logged
        <5> QED BY <5>2 DEF Recorded
      <4>2. CASE i >= MaxAudit
        <5>1. i \in MaxAudit..Len(auditLog)
          BY <1>1, <4>2, LiveApiAssumption DEF ApiTypes
        <5>2. r \in forgotten'
          BY <3>3, <5>1 DEF Audit, Logged
        <5> QED BY <5>2 DEF Recorded
      <4> QED BY <4>1, <4>2, LiveApiAssumption
    <3> QED BY <2>1, <3>1, <3>2, <3>3 DEF Recorded
  <2>3. InOrder(r)'
    <3> SUFFICES ASSUME NEW i \in 1..Len(auditLog')
                 PROVE  /\ ~(auditLog'[i].action = "STOP" /\ auditLog'[i].run = r)
                        /\ Logged(r, i)' /\ r \notin clashed' =>
                             \A j \in 1..(i - 1) : auditLog'[j].action # "KILL_STRATEGIES"
      BY DEF InOrder
    <3>1. ~(auditLog'[i].action = "STOP" /\ auditLog'[i].run = r)
      BY <1>1, <1>2, <1>8, <2>1 DEF InOrder, Handling
    <3>2. ASSUME Logged(r, i)', r \notin clashed', NEW j \in 1..(i - 1)
          PROVE  auditLog'[j].action # "KILL_STRATEGIES"
      <4>1. i # 1 /\ i - 1 \in 1..Len(auditLog) /\ Logged(r, i - 1)
        BY <1>2, <1>8, <3>2 DEF Logged
      <4>2. CASE j = 1
        BY <1>1, <1>2, <1>4, <2>1, <3>2, <4>2 DEF Handling
      <4>3. CASE j # 1
        <5>1. j \in 2..Len(auditLog') /\ j - 1 \in 1..((i - 1) - 1)
          BY <1>2, <3>2, <4>1, <4>3
        <5>2. auditLog[j - 1].action # "KILL_STRATEGIES"
          BY <1>4, <2>1, <3>2, <4>1, <5>1 DEF InOrder
        <5> QED BY <1>2, <5>1, <5>2
      <4> QED BY <4>2, <4>3
    <3> QED BY <3>1, <3>2
  <2> QED BY <1>4, <2>1, <2>2, <2>3 DEF engineVars
<1> QED BY <1>4, <1>5, <1>6, <1>9, <1>10 DEF ApiInv, engineVars

\* get_audit(): whatever the limit, no more than the log has.
LEMMA ShownLength ==
  ASSUME ApiTypes, NEW limit \in Int
  PROVE  Len(AuditShown(limit)) \in 0..MaxAudit
<1>1. Len(auditLog) \in 0..MaxAudit /\ MaxAudit \in Nat /\ auditLog \in Seq(Entries)
  BY LiveApiAssumption DEF ApiTypes
<1>2. ASSUME NEW n \in Int, n <= Len(auditLog) PROVE Len(SubSeq(auditLog, 1, n)) \in 0..MaxAudit
  <2>1. CASE n < 0
    <3>1. Len(SubSeq(auditLog, 1, n)) = 0
      BY <1>1, <2>1
    <3> QED BY <1>1, <3>1
  <2>2. CASE n >= 0
    <3>1. Len(SubSeq(auditLog, 1, n)) = n
      BY <1>1, <1>2, <2>2
    <3> QED BY <1>1, <1>2, <2>2, <3>1
  <2> QED BY <2>1, <2>2
<1>3. CASE limit >= 0
  <2> DEFINE most == IF limit < MaxAudit THEN limit ELSE MaxAudit
             n == IF Len(auditLog) < most THEN Len(auditLog) ELSE most
  <2>1. AuditShown(limit) = SubSeq(auditLog, 1, n)
    BY <1>3 DEF AuditShown, NewestEntries
  <2>2. n \in Int /\ n <= Len(auditLog)
    BY <1>1, <1>3
  <2> HIDE DEF n
  <2> QED BY <1>2, <2>1, <2>2
<1>4. CASE limit < 0
  <2>1. AuditShown(limit) = SubSeq(auditLog, 1, Len(auditLog) + limit)
    BY <1>4 DEF AuditShown
  <2> QED BY <1>1, <1>2, <1>4, <2>1
<1> QED BY <1>3, <1>4

LEMMA InitApi == ApiInit => ApiInv
<1> SUFFICES ASSUME ApiInit PROVE ApiInv
  OBVIOUS
<1> USE LiveApiAssumption DEF ApiInit, Runs
<1>1. ApiTypes
  <2>1. loaded \in BOOLEAN
    BY Zenon
  <2>2. auditLog \in Seq(Entries) /\ Len(auditLog) <= MaxAudit
    OBVIOUS
  <2>3. reply \in [Handlers -> [status : {0, 200, 400, 404, 503}, count : 0..MaxAudit]]
    BY DEF Silence
  <2>4. /\ entry \in [Handlers -> {NoEntry} \cup Entries]
        /\ \A h \in Handlers : handlerAt[h] = "idle" <=> entry[h] = NoEntry
    OBVIOUS
  <2>5. \A r \in Runs : r \in 1..served <=> runState[r] # "none"
    OBVIOUS
  <2> QED BY <2>1, <2>2, <2>3, <2>4, <2>5 DEF ApiTypes
<1>2. ASSUME NEW h \in Handlers PROVE Handling(h)
  <2>1. handlerAt[h] = "idle" /\ entry[h] = NoEntry /\ served = 0
    OBVIOUS
  <2>2. entry[h].action = "none" /\ entry[h].run = 0
    BY <2>1, EntryValues
  <2> QED BY <2>1, <2>2 DEF Handling
<1>3. registry = {} /\ Len(auditLog) = 0
  OBVIOUS
<1> QED BY <1>1, <1>2, <1>3 DEF ApiInv

LEMMA NextApi ==
  ASSUME ApiInv, [ApiNext]_apiVars
  PROVE  ApiInv'
<1>1. CASE UNCHANGED apiVars
  BY <1>1 DEF apiVars, engineVars, ApiInv, ApiTypes, Handling, Recorded, InOrder, Logged
<1>2. ASSUME NEW h \in Handlers, Begin(h) PROVE handlerAt[h] = "idle"
  BY <1>2 DEF Begin
<1>3. GetEngine => loaded' \in BOOLEAN
  BY DEF GetEngine, ApiInv, ApiTypes
<1>4. loaded \in BOOLEAN /\ 0 \in 0..MaxAudit /\ 0 \in 0..served /\ {} \in SUBSET (1..served)
      /\ registry \in SUBSET (1..served)
  BY LiveApiAssumption DEF ApiInv, ApiTypes
<1>5. ASSUME NEW id \in registry PROVE id \in 0..served /\ {id} \in SUBSET (1..served)
  BY <1>4
<1>6. ASSUME NEW h \in Handlers, Unavailable(h) \/ GetStatus(h) PROVE ApiInv'
  BY <1>2, <1>3, <1>4, <1>6, AnswerStep DEF Unavailable, GetStatus
<1>7. ASSUME NEW h \in Handlers, NEW l \in Limits, GetAudit(h, l) PROVE ApiInv'
  <2>1. Len(AuditShown(l)) \in 0..MaxAudit
    BY ShownLength, LiveApiAssumption DEF ApiInv
  <2> QED BY <1>2, <1>4, <1>7, <2>1, AnswerStep DEF GetAudit
<1>8. ASSUME NEW h \in Handlers, NEW id, PauseStrategy(h, id) \/ StopStrategy(h, id)
      PROVE  ApiInv'
  <2>1. CASE id \in registry
    <3>1. id \in 0..served /\ {id} \in SUBSET (1..served)
      BY <1>5, <2>1
    <3>2. CASE PauseStrategy(h, id)
      BY <1>2, <1>3, <1>4, <2>1, <3>1, <3>2, RequestStep DEF PauseStrategy, Actions
    <3>3. CASE StopStrategy(h, id)
      BY <1>2, <1>3, <1>4, <2>1, <3>1, <3>3, RequestStep DEF StopStrategy, Actions
    <3> QED BY <1>8, <3>2, <3>3
  <2>2. CASE id \notin registry
    BY <1>2, <1>3, <1>4, <1>8, <2>2, AnswerStep DEF PauseStrategy, StopStrategy
  <2> QED BY <2>1, <2>2
<1>9. ASSUME NEW h \in Handlers, KillAllStrategies(h) PROVE ApiInv'
  BY <1>2, <1>3, <1>4, <1>9, RequestStep DEF KillAllStrategies, Actions
<1>10. ASSUME NEW h \in Handlers, KillAllOrders(h) \/ KillAllPositions(h) PROVE ApiInv'
  <2>1. CASE KillAllOrders(h)
    BY <1>2, <1>3, <1>4, <2>1, RequestStep DEF KillAllOrders, Actions
  <2>2. CASE KillAllPositions(h)
    BY <1>2, <1>3, <1>4, <2>2, RequestStep DEF KillAllPositions, Actions
  <2> QED BY <1>10, <2>1, <2>2
<1> QED BY <1>1, <1>6, <1>7, <1>8, <1>9, <1>10, DeployStep, StartRunStep, StopEndsStep, AuditStep
    DEF ApiNext

(***************************************************************************)
(* The router's log tells what the engine has, for any number of handlers, *)
(* runs and requests, and any length of the log.                           *)
(***************************************************************************)
THEOREM ApiHonestHolds == ApiSpec => []ApiHonest
<1>1. ApiInv => ApiHonest
  <2> SUFFICES ASSUME ApiInv, NEW r \in registry
               PROVE  /\ r \in Deploying \/ r \in forgotten
                         \/ \E i \in 1..Len(auditLog) : Logged(r, i)
                      /\ InOrder(r)
    BY DEF ApiHonest, InOrder
  <2> QED BY DEF ApiInv, Recorded, Deploying
<1>2. ApiInv /\ [ApiNext]_apiVars => ApiInv'
  BY NextApi
<1> QED BY <1>1, <1>2, InitApi, PTL DEF ApiSpec

LEMMA ApiTypeOKHolds == ApiInv => ApiTypeOK
<1> SUFFICES ASSUME ApiInv PROVE ApiTypeOK
  OBVIOUS
<1>1. ApiTypes
  BY DEF ApiInv
<1>2. \A i \in 1..Len(auditLog) : auditLog[i].action \in Actions \ {"none"}
  BY <1>1, EntryValues DEF ApiTypes
<1>3. ASSUME NEW h \in Handlers
      PROVE  reply[h].status \in {0, 200, 400, 404, 503} /\ reply[h].count \in 0..MaxAudit
  <2>1. reply[h] \in [status : {0, 200, 400, 404, 503}, count : 0..MaxAudit]
    BY <1>1 DEF ApiTypes
  <2> QED BY <2>1
<1> QED BY <1>1, <1>2, <1>3 DEF ApiTypeOK, ApiTypes

-----------------------------------------------------------------------------
(***************************************************************************)
(* The audit trail (AuditLog)                                              *)
(***************************************************************************)

AuditLines == [ids : SUBSET Ids, days : SUBSET Int, json : BOOLEAN]

AuditTypes ==
  /\ today \in 1..LastDate /\ turned \in 0..today /\ strayed \in 0..today
  /\ records \in 0..MaxRecords /\ tears \in 0..MaxTears
  /\ made \in 1..(records + tears + 1)
  /\ named \in Seq(1..made) /\ Len(named) \in 1..(Backups + 1)
  /\ \A i, j \in 1..Len(named) : i < j => named[i] > named[j]
  /\ content \in [Files -> Seq(AuditLines)]
  /\ \A f \in Files : Len(content[f]) <= MaxLines /\ (f > made => content[f] = <<>>)
  /\ stream \in [Writers -> 1..made]
  /\ unended \subseteq Files /\ \A f \in unended : Len(content[f]) > 0 /\ tears > 0
  /\ dayOf \in [Ids -> Int] /\ \A r \in 1..records : dayOf[r] <= today
  /\ mentioned \in [Ids -> SUBSET Int] /\ lost \subseteq 1..records

\* A line that is a document has one record, whose write did not fail, and names the
\* days of that; the others were torn.
Whole(f, i) ==
  /\ content[f][i].json =>
       \E r \in (1..records) \ lost : content[f][i].ids = {r} /\ content[f][i].days = mentioned[r]
  /\ ~content[f][i].json => tears > 0

\* A record of the day is in the file that is read, or it was read no more of.
Kept(r) ==
  dayOf[r] = today /\ r \notin lost =>
    \/ turned = today \/ strayed = today
    \/ \E i \in 1..Len(content[named[1]]) :
         r \in content[named[1]][i].ids /\ today \in content[named[1]][i].days

AuditInv ==
  /\ AuditTypes
  /\ \A f \in Files : \A i \in 1..Len(content[f]) : Whole(f, i)
  /\ \A r \in 1..records : Kept(r)

LEMMA Prefix ==
  ASSUME NEW S, NEW s \in Seq(S), NEW n \in Nat, n <= Len(s)
  PROVE  /\ SubSeq(s, 1, n) \in Seq(S) /\ Len(SubSeq(s, 1, n)) = n
         /\ \A i \in 1..n : SubSeq(s, 1, n)[i] = s[i]
  OBVIOUS

\* Turn(): the file that is written has room, and if it is another one, the day
\* is that of a rotation.
LEMMA Turns ==
  ASSUME AuditTypes, NEW p \in Writers, Turn(p), records + tears < MaxRecords + MaxTears
  PROVE  /\ FileFor(p) \in Files /\ FileFor(p) \in 1..made' /\ Len(content[FileFor(p)]) < MaxLines
         /\ made' \in 1..(records + tears + 2) /\ made' >= made /\ turned' \in 0..today
         /\ named' \in Seq(1..made') /\ Len(named') \in 1..(Backups + 1)
         /\ \A i, j \in 1..Len(named') : i < j => named'[i] > named'[j]
         /\ turned' = today \/ UNCHANGED <<made, named, turned>>
<1>1. /\ made \in Nat \ {0} /\ Len(named) \in Nat \ {0} /\ Len(named) <= Backups + 1
      /\ named \in Seq(1..made) /\ \A i \in 1..Len(named) : named[i] \in 1..made
      /\ Backups \in Nat \ {0} /\ MaxLines \in Nat \ {0} /\ stream[p] \in 1..made
      /\ \A f \in 1..made : f \in Files /\ Len(content[f]) <= MaxLines /\ Len(content[f]) \in Nat
      /\ made + 1 \in Files /\ content[made + 1] = <<>>
      /\ made <= records + tears + 1 /\ records + tears \in Nat /\ today \in Nat
  <2>1. made + 1 \in Files /\ \A f \in 1..made : f \in Files
    BY AuditLogAssumption DEF AuditTypes, Files
  <2>2. \A f \in Files : Len(content[f]) \in Nat /\ Len(content[f]) <= MaxLines
    BY DEF AuditTypes
  <2>3. content[made + 1] = <<>>
    BY <2>1 DEF AuditTypes
  <2>4. stream[p] \in 1..made
    BY DEF AuditTypes
  <2>5. \A i \in 1..Len(named) : named[i] \in 1..made
    BY DEF AuditTypes
  <2> QED BY <2>1, <2>2, <2>3, <2>4, <2>5, AuditLogAssumption, SMTT(40) DEF AuditTypes
<1>2. CASE ~Full(p)
  <2>1. UNCHANGED <<made, named, turned>> /\ FileFor(p) = stream[p]
    BY <1>2 DEF Turn, FileFor
  <2>2. Len(content[stream[p]]) < MaxLines
    BY <1>1, <1>2 DEF Full
  <2>3. \A i, j \in 1..Len(named) : i < j => named[i] > named[j]
    BY DEF AuditTypes
  <2>4. turned \in 0..today /\ made \in 1..(records + tears + 2)
        /\ Len(named) \in 1..(Backups + 1)
    BY <1>1 DEF AuditTypes
  <2>5. stream[p] \in Files
    BY <1>1
  <2> QED BY <1>1, <2>1, <2>2, <2>3, <2>4, <2>5
<1>3. CASE Full(p)
  <2> DEFINE long == <<made + 1>> \o named
             n == IF Len(long) < Backups + 1 THEN Len(long) ELSE Backups + 1
  <2>1. made' = made + 1 /\ turned' = today /\ FileFor(p) = made + 1 /\ named' = SubSeq(long, 1, n)
    BY <1>3 DEF Turn, FileFor, Newest
  <2>2. /\ long \in Seq(1..(made + 1)) /\ Len(long) = Len(named) + 1 /\ long[1] = made + 1
        /\ \A i \in 2..Len(long) : long[i] = named[i - 1]
    <3>1. named \in Seq(1..(made + 1))
      <4>1. \A i \in 1..Len(named) : named[i] \in 1..(made + 1)
        BY <1>1
      <4> QED BY <1>1, <4>1
    <3>2. made + 1 \in 1..(made + 1)
      BY <1>1
    <3> QED BY <1>1, <3>1, <3>2
  <2>3. \A i, j \in 1..Len(long) : i < j => long[i] > long[j]
    <3> SUFFICES ASSUME NEW i \in 1..Len(long), NEW j \in 1..Len(long), i < j
                 PROVE  long[i] > long[j]
      OBVIOUS
    <3>1. j \in 2..Len(long) /\ j - 1 \in 1..Len(named)
      BY <1>1, <2>2
    <3>2. long[j] = named[j - 1] /\ long[j] < made + 1
      BY <1>1, <2>2, <3>1, SMTT(40)
    <3>3. CASE i = 1
      BY <1>1, <2>2, <3>2, <3>3
    <3>4. CASE i # 1
      <4>1. i \in 2..Len(long) /\ i - 1 \in 1..Len(named) /\ i - 1 < j - 1
        BY <2>2, <3>1, <3>4
      <4> QED BY <2>2, <3>1, <3>2, <4>1 DEF AuditTypes
    <3> QED BY <3>3, <3>4
  <2>4. n \in 1..Len(long) /\ n <= Backups + 1 /\ Len(long) \in Nat
    BY <1>1, <2>2
  <2> HIDE DEF long, n
  <2>5. /\ SubSeq(long, 1, n) \in Seq(1..(made + 1)) /\ Len(SubSeq(long, 1, n)) = n
        /\ \A i \in 1..n : SubSeq(long, 1, n)[i] = long[i]
    <3>1. n \in Nat /\ n <= Len(long)
      BY <2>4
    <3> QED BY <2>2, <3>1, Prefix
  <2>6. \A i, j \in 1..Len(named') : i < j => named'[i] > named'[j]
    BY <2>1, <2>3, <2>4, <2>5
  <2>7. named' \in Seq(1..made') /\ Len(named') \in 1..(Backups + 1)
    BY <1>1, <2>1, <2>4, <2>5
  <2>8. Len(content[made + 1]) = 0
    BY <1>1
  <2>9. FileFor(p) \in Files /\ FileFor(p) \in 1..made' /\ Len(content[FileFor(p)]) < MaxLines
    BY <1>1, <2>1, <2>8
  <2>10. made' \in 1..(records + tears + 2) /\ made' >= made /\ turned' \in 0..today
    BY <1>1, <2>1
  <2> QED BY <2>1, <2>6, <2>7, <2>9, <2>10
<1> QED BY <1>2, <1>3

\* A write adds to the last line, which was torn, or adds a line.
LEMMA Writes ==
  ASSUME AuditTypes, NEW f \in Files, Len(content[f]) < MaxLines, NEW line \in AuditLines
  PROVE  LET old == content[f] new == WriteLine(f, line) IN
         /\ new \in Seq(AuditLines) /\ Len(new) \in 1..MaxLines /\ Len(new) >= Len(old)
         /\ \A i \in 1..Len(old) :
              /\ old[i].ids \subseteq new[i].ids /\ old[i].days \subseteq new[i].days
              /\ new[i] = old[i] \/ (f \in unended /\ ~new[i].json)
         /\ \A i \in 1..Len(new) : i \notin 1..Len(old) => new[i] = line
         /\ line.ids \subseteq new[Len(new)].ids /\ line.days \subseteq new[Len(new)].days
<1> DEFINE old == content[f]
           n == Len(old)
<1>1. old \in Seq(AuditLines) /\ n \in Nat /\ MaxLines \in Nat /\ n < MaxLines
  BY AuditLogAssumption DEF AuditTypes
<1>2. CASE f \in unended
  <2> DEFINE last == [ids |-> old[n].ids \cup line.ids, days |-> old[n].days \cup line.days,
                      json |-> FALSE]
             new == [old EXCEPT ![n] = last]
  <2>1. n \in 1..n /\ old[n] \in AuditLines
    BY <1>1, <1>2 DEF AuditTypes
  <2>2. last \in AuditLines
    BY <2>1 DEF AuditLines
  <2>3. /\ last.ids = old[n].ids \cup line.ids /\ last.days = old[n].days \cup line.days
        /\ ~last.json
    OBVIOUS
  <2>4. WriteLine(f, line) = new
    BY <1>2 DEF WriteLine
  <2> HIDE DEF last, old
  <2>5. new \in Seq(AuditLines) /\ Len(new) = n /\ new[n] = last
        /\ \A i \in 1..n : i # n => new[i] = old[i]
    BY <1>1, <2>1, <2>2
  <2>6. \A i \in 1..n : old[i].ids \subseteq new[i].ids /\ old[i].days \subseteq new[i].days
    BY <2>3, <2>5
  <2>7. \A i \in 1..n : new[i] = old[i] \/ (f \in unended /\ ~new[i].json)
    BY <1>2, <2>3, <2>5, Zenon
  <2> HIDE DEF new
  <2> QED BY <1>1, <2>1, <2>3, <2>4, <2>5, <2>6, <2>7 DEF old
<1>3. CASE f \notin unended
  <2>1. WriteLine(f, line) = Append(old, line)
    BY <1>3 DEF WriteLine
  <2> HIDE DEF old
  <2>2. /\ Append(old, line) \in Seq(AuditLines) /\ Len(Append(old, line)) = n + 1
        /\ Append(old, line)[n + 1] = line /\ \A i \in 1..n : Append(old, line)[i] = old[i]
    BY <1>1
  <2>3. \A i \in 1..(n + 1) : i \notin 1..n => i = n + 1
    BY <1>1
  <2> DEFINE new == Append(old, line)
  <2>4. /\ \A i \in 1..n : old[i].ids \subseteq new[i].ids /\ old[i].days \subseteq new[i].days
        /\ line.ids \subseteq new[n + 1].ids /\ line.days \subseteq new[n + 1].days
    <3> HIDE DEF new
    <3> QED BY <2>2 DEF new
  <2>5. n + 1 \in 1..MaxLines /\ n + 1 >= n
    BY <1>1
  <2> HIDE DEF new
  <2> QED BY <2>1, <2>2, <2>3, <2>4, <2>5 DEF old, new
<1> QED BY <1>2, <1>3

\* ... and what that makes of the files.
LEMMA FileWritten ==
  ASSUME AuditTypes, NEW p \in Writers, Turn(p), records + tears < MaxRecords + MaxTears,
         NEW line \in AuditLines,
         content' = [content EXCEPT ![FileFor(p)] = WriteLine(FileFor(p), line)]
  PROVE  /\ content' \in [Files -> Seq(AuditLines)]
         /\ \A g \in Files :
              /\ Len(content'[g]) <= MaxLines /\ Len(content'[g]) >= Len(content[g])
              /\ g > made' => content'[g] = <<>>
              /\ \A i \in 1..Len(content[g]) :
                   /\ i \in 1..Len(content'[g])
                   /\ content[g][i].ids \subseteq content'[g][i].ids
                   /\ content[g][i].days \subseteq content'[g][i].days
              /\ \A i \in 1..Len(content'[g]) :
                   \/ i \in 1..Len(content[g]) /\ content'[g][i] = content[g][i]
                   \/ tears > 0 /\ ~content'[g][i].json
                   \/ content'[g][i] = line
         /\ \E i \in 1..Len(content'[FileFor(p)]) :
              /\ line.ids \subseteq content'[FileFor(p)][i].ids
              /\ line.days \subseteq content'[FileFor(p)][i].days
<1> DEFINE f == FileFor(p)
           old == content[f]
           new == WriteLine(f, line)
<1>1. f \in Files /\ f \in 1..made' /\ Len(content[f]) < MaxLines /\ made' >= made
      /\ made' \in Nat /\ made \in Nat
  BY Turns DEF AuditTypes
<1>2. /\ new \in Seq(AuditLines) /\ Len(new) \in 1..MaxLines /\ Len(new) >= Len(old)
      /\ \A i \in 1..Len(old) :
           /\ old[i].ids \subseteq new[i].ids /\ old[i].days \subseteq new[i].days
           /\ new[i] = old[i] \/ (f \in unended /\ ~new[i].json)
      /\ \A i \in 1..Len(new) : i \notin 1..Len(old) => new[i] = line
      /\ line.ids \subseteq new[Len(new)].ids /\ line.days \subseteq new[Len(new)].days
  BY <1>1, Writes
<1>3. /\ content' \in [Files -> Seq(AuditLines)] /\ content'[f] = new
      /\ \A g \in Files : g # f => content'[g] = content[g]
  BY <1>1, <1>2 DEF AuditTypes
<1>4. \A g \in Files : Len(content[g]) \in 0..MaxLines /\ (g > made => content[g] = <<>>)
  BY AuditLogAssumption DEF AuditTypes
<1>5. f \in unended => tears > 0
  BY DEF AuditTypes
<1> HIDE DEF f, old, new
<1>6. \E i \in 1..Len(content'[f]) :
        line.ids \subseteq content'[f][i].ids /\ line.days \subseteq content'[f][i].days
  <2>1. Len(new) \in 1..Len(new)
    BY <1>2
  <2> QED BY <1>2, <1>3, <2>1
<1>7. ASSUME NEW g \in Files
      PROVE  /\ Len(content'[g]) <= MaxLines /\ Len(content'[g]) >= Len(content[g])
             /\ g > made' => content'[g] = <<>>
  <2>1. CASE g = f
    BY <1>1, <1>2, <1>3, <2>1, AuditLogAssumption DEF old
  <2>2. CASE g # f
    BY <1>1, <1>3, <1>4, <2>2 DEF Files
  <2> QED BY <2>1, <2>2
<1>8. ASSUME NEW g \in Files, NEW i \in 1..Len(content[g])
      PROVE  /\ i \in 1..Len(content'[g])
             /\ content[g][i].ids \subseteq content'[g][i].ids
             /\ content[g][i].days \subseteq content'[g][i].days
  <2>1. CASE g = f
    <3>1. i \in 1..Len(old) /\ i \in 1..Len(new) /\ old = content[g] /\ new = content'[g]
      BY <1>2, <1>3, <1>4, <2>1 DEF old
    <3> QED BY <1>2, <3>1
  <2>2. CASE g # f
    BY <1>3, <2>2
  <2> QED BY <2>1, <2>2
<1>9. ASSUME NEW g \in Files, NEW i \in 1..Len(content'[g])
      PROVE  \/ i \in 1..Len(content[g]) /\ content'[g][i] = content[g][i]
             \/ tears > 0 /\ ~content'[g][i].json
             \/ content'[g][i] = line
  <2>1. CASE g = f
    <3>1. old = content[g] /\ new = content'[g]
      BY <1>3, <2>1 DEF old
    <3> QED BY <1>2, <1>5, <3>1, Zenon
  <2>2. CASE g # f
    BY <1>3, <2>2
  <2> QED BY <2>1, <2>2
<1> QED BY <1>3, <1>6, <1>7, <1>8, <1>9 DEF f

LEMMA RecordStep ==
  ASSUME AuditInv, NEW p \in Writers, Record(p)
  PROVE  AuditInv'
<1> DEFINE f == FileFor(p)
<1>0. PICK text \in Text :
        /\ mentioned' = [mentioned EXCEPT ![records'] = text]
        /\ content' = [content EXCEPT ![f] =
             WriteLine(f, [ids |-> {records'}, days |-> text, json |-> TRUE])]
  BY DEF Record
<1> DEFINE line == [ids |-> {records'}, days |-> text, json |-> TRUE]
<1>1. /\ AuditTypes /\ Turn(p) /\ records + tears < MaxRecords + MaxTears /\ today \in Nat
      /\ records' = records + 1 /\ records \in Nat /\ records' \in Ids /\ tears \in Nat
      /\ dayOf' = [dayOf EXCEPT ![records'] = today] /\ UNCHANGED <<today, lost, tears>>
      /\ content' = [content EXCEPT ![f] = WriteLine(f, line)]
      /\ stream' = [stream EXCEPT ![p] = f] /\ unended' = unended \ {f}
      /\ strayed' = IF f # named'[1] THEN today ELSE strayed
  <2>1. /\ AuditTypes /\ Turn(p) /\ records < MaxRecords /\ records' = records + 1
        /\ dayOf' = [dayOf EXCEPT ![records'] = today] /\ UNCHANGED <<today, lost, tears>>
        /\ stream' = [stream EXCEPT ![p] = f] /\ unended' = unended \ {f}
        /\ strayed' = IF f # named'[1] THEN today ELSE strayed
    BY DEF AuditInv, Record
  <2>2. today \in Nat /\ records \in 0..MaxRecords /\ tears \in 0..MaxTears
    BY <2>1, AuditLogAssumption DEF AuditTypes
  <2>3. /\ records + tears < MaxRecords + MaxTears /\ records \in Nat /\ tears \in Nat
        /\ records' \in Ids
    BY <2>1, <2>2, AuditLogAssumption DEF Ids
  <2> QED BY <1>0, <2>1, <2>2, <2>3
<1>2. line \in AuditLines /\ line.ids = {records'} /\ line.days = text /\ line.json
      /\ today \in text /\ text \in SUBSET Int
  <2>1. PICK also \in SUBSET Mentions : text = {today} \cup also
    BY DEF Text, Stamp
  <2>2. today \in text /\ text \in SUBSET Int
    BY <1>1, <2>1, AuditLogAssumption
  <2> QED BY <1>1, <2>2 DEF AuditLines
<1>3. /\ f \in Files /\ f \in 1..made'
      /\ made' \in 1..(records + tears + 2) /\ made' >= made /\ turned' \in 0..today
      /\ named' \in Seq(1..made') /\ Len(named') \in 1..(Backups + 1)
      /\ \A i, j \in 1..Len(named') : i < j => named'[i] > named'[j]
      /\ turned' = today \/ UNCHANGED <<made, named, turned>>
  BY <1>1, Turns
<1> HIDE DEF line
<1>4. /\ content' \in [Files -> Seq(AuditLines)]
      /\ \A g \in Files :
           /\ Len(content'[g]) <= MaxLines /\ Len(content'[g]) >= Len(content[g])
           /\ g > made' => content'[g] = <<>>
           /\ \A i \in 1..Len(content[g]) :
                /\ i \in 1..Len(content'[g])
                /\ content[g][i].ids \subseteq content'[g][i].ids
                /\ content[g][i].days \subseteq content'[g][i].days
           /\ \A i \in 1..Len(content'[g]) :
                \/ i \in 1..Len(content[g]) /\ content'[g][i] = content[g][i]
                \/ tears > 0 /\ ~content'[g][i].json
                \/ content'[g][i] = line
      /\ \E i \in 1..Len(content'[f]) :
           line.ids \subseteq content'[f][i].ids /\ line.days \subseteq content'[f][i].days
  BY <1>1, <1>2, FileWritten, ZenonT(60)
<1> HIDE DEF f
<1>5. /\ dayOf' \in [Ids -> Int] /\ dayOf'[records'] = today
      /\ mentioned' \in [Ids -> SUBSET Int] /\ mentioned'[records'] = text
      /\ \A r \in 1..records : /\ r # records' /\ r \in 1..records'
                              /\ dayOf'[r] = dayOf[r] /\ mentioned'[r] = mentioned[r]
      /\ \A r \in 1..records' : r \in 1..records \/ r = records'
      /\ records' \notin lost /\ lost \subseteq 1..records'
  BY <1>0, <1>1, <1>2 DEF AuditTypes, Ids
<1>6. AuditTypes'
  <2>1. \A g \in unended' : Len(content'[g]) > 0 /\ tears' > 0
    <3>1. \A g \in Files : Len(content[g]) \in Nat /\ Len(content'[g]) \in Nat
      BY <1>4 DEF AuditTypes, AuditInv
    <3> QED BY <1>1, <1>4, <3>1 DEF AuditTypes
  <2>2. stream' \in [Writers -> 1..made']
    BY <1>1, <1>3, SMTT(40) DEF AuditTypes
  <2>3. \A r \in 1..records' : dayOf'[r] <= today'
    <3>1. \A r \in 1..records : dayOf[r] <= today
      BY <1>1 DEF AuditTypes
    <3> QED BY <1>1, <1>5, <3>1
  <2>4. strayed' \in 0..today' /\ turned' \in 0..today' /\ made' \in 1..(records' + tears' + 1)
    <3>1. strayed' \in 0..today'
      BY <1>1 DEF AuditTypes
    <3> QED BY <1>1, <1>3, <3>1
  <2>5. /\ today' \in 1..LastDate /\ records' \in 0..MaxRecords /\ tears' \in 0..MaxTears
        /\ unended' \subseteq Files
    BY <1>1 DEF AuditTypes, Ids
  <2>6. \A g \in Files : Len(content'[g]) <= MaxLines /\ (g > made' => content'[g] = <<>>)
    BY <1>4
  <2>7. mentioned' \in [Ids -> SUBSET Int] /\ lost' \subseteq 1..records'
    BY <1>1, <1>5
  <2> QED BY <1>3, <1>4, <1>5, <2>1, <2>2, <2>3, <2>4, <2>5, <2>6, <2>7 DEF AuditTypes
<1>7. ASSUME NEW g \in Files, NEW i \in 1..Len(content'[g]) PROVE Whole(g, i)'
  <2>1. CASE i \in 1..Len(content[g]) /\ content'[g][i] = content[g][i]
    <3>1. Whole(g, i)
      BY <2>1 DEF AuditInv
    <3>2. CASE ~content[g][i].json
      BY <1>1, <2>1, <3>1, <3>2 DEF Whole
    <3>3. ASSUME content[g][i].json, NEW r \in (1..records) \ lost,
                 content[g][i].ids = {r}, content[g][i].days = mentioned[r]
          PROVE  Whole(g, i)'
      BY <1>1, <1>5, <2>1, <3>3 DEF Whole
    <3> QED BY <3>1, <3>2, <3>3 DEF Whole
  <2>2. CASE tears > 0 /\ ~content'[g][i].json
    BY <1>1, <2>2 DEF Whole
  <2>3. CASE content'[g][i] = line
    <3>1. records' \in (1..records') \ lost'
      BY <1>1, <1>5
    <3> QED BY <1>2, <1>5, <2>3, <3>1 DEF Whole
  <2> QED BY <1>4, <2>1, <2>2, <2>3
<1>8. ASSUME NEW r \in 1..records' PROVE Kept(r)'
  <2> SUFFICES ASSUME dayOf'[r] = today, r \notin lost, turned' # today, strayed' # today
               PROVE  \E i \in 1..Len(content'[named'[1]]) :
                        r \in content'[named'[1]][i].ids /\ today \in content'[named'[1]][i].days
    BY <1>1 DEF Kept
  <2>1. f = named'[1] /\ named' = named /\ turned # today /\ strayed # today
    BY <1>1, <1>3
  <2>2. CASE r = records'
    BY <1>2, <1>4, <2>1, <2>2
  <2>3. CASE r \in 1..records
    <3>1. PICK i \in 1..Len(content[f]) : r \in content[f][i].ids /\ today \in content[f][i].days
      BY <1>5, <2>1, <2>3 DEF AuditInv, Kept
    <3> QED BY <1>3, <1>4, <2>1, <3>1
  <2> QED BY <1>5, <2>2, <2>3
<1> QED BY <1>6, <1>7, <1>8 DEF AuditInv

(***************************************************************************)
(* What a failed write adds to the records, if it is one of a record.      *)
(***************************************************************************)
RecordsKept ==
  /\ records' \in 0..MaxRecords /\ records' >= records
  /\ dayOf' \in [Ids -> Int] /\ mentioned' \in [Ids -> SUBSET Int] /\ lost' \subseteq 1..records'
  /\ \A r \in 1..records :
       /\ r \in 1..records' /\ (r \in lost' <=> r \in lost)
       /\ dayOf'[r] = dayOf[r] /\ mentioned'[r] = mentioned[r]
  /\ \A r \in 1..records' : dayOf'[r] <= today /\ (r \in 1..records \/ r \in lost')

LEMMA Loses == ASSUME AuditTypes, Lose PROVE RecordsKept
<1>1. /\ records \in Nat /\ records' = records + 1 /\ records' \in Ids /\ today \in Int
      /\ dayOf' = [dayOf EXCEPT ![records'] = today]
      /\ mentioned' = [mentioned EXCEPT ![records'] = {today}]
      /\ lost' = lost \cup {records'} /\ lost \subseteq 1..records
      /\ dayOf \in [Ids -> Int] /\ mentioned \in [Ids -> SUBSET Int]
      /\ \A r \in 1..records : dayOf[r] <= today
  <2>1. /\ records' = records + 1 /\ records < MaxRecords
        /\ dayOf' = [dayOf EXCEPT ![records'] = today]
        /\ mentioned' = [mentioned EXCEPT ![records'] = {today}]
        /\ lost' = lost \cup {records'}
    BY DEF Lose, Stamp
  <2>2. /\ records \in 0..MaxRecords /\ today \in Int /\ lost \subseteq 1..records
        /\ dayOf \in [Ids -> Int] /\ mentioned \in [Ids -> SUBSET Int]
        /\ \A r \in 1..records : dayOf[r] <= today
    BY AuditLogAssumption DEF AuditTypes
  <2>3. records \in Nat /\ records' \in Ids
    BY <2>1, <2>2, AuditLogAssumption DEF Ids
  <2> QED BY <2>1, <2>2, <2>3
<1>2. \A r \in 1..records : r \in 1..records' /\ r # records' /\ r \in Ids
  <2>1. MaxRecords \in Nat /\ records' <= MaxRecords
    BY <1>1, AuditLogAssumption DEF Ids
  <2> QED BY <1>1, <2>1 DEF Ids
<1>3. \A r \in 1..records' : r \in 1..records \/ r = records'
  BY <1>1
<1>4. /\ dayOf' \in [Ids -> Int] /\ dayOf'[records'] = today
      /\ mentioned' \in [Ids -> SUBSET Int]
      /\ \A r \in 1..records : dayOf'[r] = dayOf[r] /\ mentioned'[r] = mentioned[r]
  BY <1>1, <1>2
<1>5. records' \in 0..MaxRecords /\ records' >= records /\ lost' \subseteq 1..records'
  BY <1>1 DEF Ids
<1>6. \A r \in 1..records' : dayOf'[r] <= today
  BY <1>1, <1>3, <1>4
<1> QED BY <1>1, <1>2, <1>3, <1>4, <1>5, <1>6, Zenon DEF RecordsKept

LEMMA Unasked == ASSUME AuditTypes, UNCHANGED recordVars PROVE RecordsKept
  BY AuditLogAssumption DEF AuditTypes, recordVars, RecordsKept

LEMMA MoreFiles ==
  ASSUME NEW r \in Nat, NEW more \in Nat, more >= r, NEW n \in Nat, NEW q \in Nat, q = n + 1,
         NEW m \in 1..(r + n + 2)
  PROVE  m \in 1..(more + q + 1) /\ q > 0
  OBVIOUS

\* A write that fails or is cut short, with the process or without it.
LEMMA TornStep ==
  ASSUME AuditInv, NEW p \in Writers, Turn(p), RecordsKept, tears' = tears + 1, tears < MaxTears,
         Part(FileFor(p)) \/ UNCHANGED <<content, unended>>,
         stream' \in {[stream EXCEPT ![p] = FileFor(p)], [stream EXCEPT ![p] = named'[1]]},
         UNCHANGED <<today, strayed>>
  PROVE  AuditInv'
<1> DEFINE f == FileFor(p)
<1>1. /\ AuditTypes /\ records + tears < MaxRecords + MaxTears /\ today \in Nat
      /\ records \in Nat /\ tears \in Nat /\ tears' \in 0..MaxTears
      /\ records' \in Nat /\ records' >= records
  <2>1. AuditTypes
    BY DEF AuditInv
  <2>2. today \in Nat /\ records \in 0..MaxRecords /\ tears \in 0..MaxTears
    BY <2>1, AuditLogAssumption DEF AuditTypes
  <2>3. records' \in 0..MaxRecords /\ records' >= records
    BY DEF RecordsKept
  <2> QED BY <2>1, <2>2, <2>3, AuditLogAssumption
<1>2. /\ f \in Files /\ f \in 1..made' /\ Len(content[f]) < MaxLines
      /\ made' \in 1..(records + tears + 2) /\ made' >= made /\ turned' \in 0..today
      /\ named' \in Seq(1..made') /\ Len(named') \in 1..(Backups + 1)
      /\ \A i, j \in 1..Len(named') : i < j => named'[i] > named'[j]
      /\ turned' = today \/ UNCHANGED <<made, named, turned>>
  BY <1>1, Turns
<1>3. /\ content' \in [Files -> Seq(AuditLines)] /\ unended' \subseteq Files
      /\ \A g \in Files :
           /\ Len(content'[g]) <= MaxLines /\ Len(content'[g]) >= Len(content[g])
           /\ g > made' => content'[g] = <<>>
           /\ \A i \in 1..Len(content[g]) :
                /\ i \in 1..Len(content'[g])
                /\ content[g][i].ids \subseteq content'[g][i].ids
                /\ content[g][i].days \subseteq content'[g][i].days
           /\ \A i \in 1..Len(content'[g]) :
                \/ i \in 1..Len(content[g]) /\ content'[g][i] = content[g][i]
                \/ ~content'[g][i].json
      /\ \A g \in unended' : Len(content'[g]) > 0
  <2>1. CASE UNCHANGED <<content, unended>>
    <3> HIDE DEF f
    <3>1. /\ made \in Nat /\ made' \in Nat /\ made' >= made
          /\ content \in [Files -> Seq(AuditLines)] /\ unended \subseteq Files
          /\ \A g \in Files : Len(content[g]) \in Nat /\ Len(content[g]) <= MaxLines
          /\ \A g \in Files : g > made => content[g] = <<>>
          /\ \A g \in unended : Len(content[g]) > 0
      <4>1. made \in Nat /\ made' \in Nat /\ made' >= made
        BY <1>1, <1>2 DEF AuditTypes
      <4>2. content \in [Files -> Seq(AuditLines)] /\ unended \subseteq Files
        BY <1>1 DEF AuditTypes
      <4>3. \A g \in Files : Len(content[g]) <= MaxLines /\ (g > made => content[g] = <<>>)
        BY <1>1 DEF AuditTypes
      <4>4. \A g \in unended : Len(content[g]) > 0
        BY <1>1 DEF AuditTypes
      <4>5. \A g \in Files : Len(content[g]) \in Nat
        BY <4>2
      <4> QED BY <4>1, <4>2, <4>3, <4>4, <4>5
    <3>2. \A g \in Files : g > made' => content[g] = <<>>
      <4> SUFFICES ASSUME NEW g \in Files, g > made' PROVE content[g] = <<>>
        OBVIOUS
      <4>1. g \in Int
        BY AuditLogAssumption DEF Files
      <4>2. g > made
        BY <3>1, <4>1
      <4>3. g > made => content[g] = <<>>
        BY <3>1
      <4> QED BY <4>2, <4>3, Zenon
    <3>3. content' = content /\ unended' = unended
      BY <2>1
    <3>4. \A g \in Files : Len(content'[g]) <= MaxLines /\ Len(content'[g]) >= Len(content[g])
      <4>1. ASSUME NEW g \in Files PROVE Len(content[g]) \in Nat /\ Len(content[g]) <= MaxLines
        BY <3>1
      <4>2. \A g \in Files : Len(content[g]) <= MaxLines /\ Len(content[g]) >= Len(content[g])
        BY ONLY <4>1
      <4> QED BY <3>3, <4>2, Zenon
    <3>5. /\ \A g \in Files : g > made' => content'[g] = <<>>
          /\ \A g \in unended' : Len(content'[g]) > 0
          /\ content' \in [Files -> Seq(AuditLines)] /\ unended' \subseteq Files
      BY <3>1, <3>2, <3>3
    <3>6. \A g \in Files : \A i \in 1..Len(content'[g]) :
            i \in 1..Len(content[g]) /\ content'[g][i] = content[g][i]
      BY <3>3, Zenon
    <3>7. \A g \in Files : \A i \in 1..Len(content[g]) :
            /\ i \in 1..Len(content'[g])
            /\ content[g][i].ids \subseteq content'[g][i].ids
            /\ content[g][i].days \subseteq content'[g][i].days
      BY <3>3, Zenon
    <3> QED BY <3>4, <3>5, <3>6, <3>7, Zenon
  <2>2. CASE Part(f)
    <3>1. PICK text \in {{}, {Stamp(today)}} :
            content' = [content EXCEPT ![f] =
              WriteLine(f, [ids |-> {}, days |-> text, json |-> FALSE])]
      BY <2>2 DEF Part
    <3> DEFINE line == [ids |-> {}, days |-> text, json |-> FALSE]
    <3>2. line \in AuditLines /\ ~line.json
      BY <1>1 DEF AuditLines, Stamp
    <3>3. content' = [content EXCEPT ![f] = WriteLine(f, line)]
      BY <3>1
    <3> HIDE DEF line
    <3>4. /\ content' \in [Files -> Seq(AuditLines)]
          /\ \A g \in Files :
               /\ Len(content'[g]) <= MaxLines /\ Len(content'[g]) >= Len(content[g])
               /\ g > made' => content'[g] = <<>>
               /\ \A i \in 1..Len(content[g]) :
                    /\ i \in 1..Len(content'[g])
                    /\ content[g][i].ids \subseteq content'[g][i].ids
                    /\ content[g][i].days \subseteq content'[g][i].days
               /\ \A i \in 1..Len(content'[g]) :
                    \/ i \in 1..Len(content[g]) /\ content'[g][i] = content[g][i]
                    \/ tears > 0 /\ ~content'[g][i].json
                    \/ content'[g][i] = line
          /\ \E i \in 1..Len(content'[f]) :
               line.ids \subseteq content'[f][i].ids /\ line.days \subseteq content'[f][i].days
      BY <1>1, <3>2, <3>3, FileWritten, ZenonT(60)
    <3>5. unended' = unended \cup {f}
      BY <2>2 DEF Part
    <3> HIDE DEF f
    <3>6. \A g \in unended' : g \in Files /\ Len(content'[g]) > 0
      <4>1. \A g \in Files : Len(content[g]) \in Nat /\ Len(content'[g]) \in Nat
        BY <1>1, <3>4 DEF AuditTypes
      <4>2. Len(content'[f]) > 0
        BY <1>2, <3>4, <4>1
      <4>3. \A g \in unended : g \in Files /\ Len(content[g]) > 0
        BY <1>1 DEF AuditTypes
      <4>4. \A g \in unended : Len(content'[g]) > 0
        BY <3>4, <4>1, <4>3
      <4> QED BY <1>2, <3>5, <4>2, <4>3, <4>4
    <3>7. \A g \in Files : \A i \in 1..Len(content'[g]) :
            \/ i \in 1..Len(content[g]) /\ content'[g][i] = content[g][i]
            \/ ~content'[g][i].json
      BY <3>2, <3>4
    <3> QED BY <3>4, <3>6, <3>7, Zenon
  <2> QED BY <2>1, <2>2
<1> HIDE DEF f
<1>4. AuditTypes'
  <2>1. stream' \in [Writers -> 1..made']
    <3>1. named'[1] \in 1..made' /\ FileFor(p) \in 1..made'
      BY <1>2, AuditLogAssumption DEF f
    <3>2. \A q \in Writers : stream[q] \in 1..made'
      BY <1>1, <1>2 DEF AuditTypes
    <3>3. stream \in [Writers -> 1..made']
      BY <1>1, <3>2 DEF AuditTypes
    <3> QED BY <3>1, <3>3
  <2>2. strayed' \in 0..today' /\ turned' \in 0..today' /\ made' \in 1..(records' + tears' + 1)
        /\ today' \in 1..LastDate /\ tears' > 0
    <3>1. today' = today /\ strayed' = strayed /\ strayed \in 0..today /\ today \in 1..LastDate
      BY <1>1 DEF AuditTypes
    <3>2. /\ made' \in 1..(records + tears + 2) /\ tears' = tears + 1 /\ records' >= records
          /\ records' \in Nat /\ records \in Nat /\ tears \in Nat /\ tears' \in Nat
      BY <1>1, <1>2
    <3>3. made' \in 1..(records' + tears' + 1) /\ tears' > 0
      BY <3>2, MoreFiles
    <3> QED BY <1>2, <3>1, <3>3
  <2>3. /\ records' \in 0..MaxRecords /\ dayOf' \in [Ids -> Int]
        /\ mentioned' \in [Ids -> SUBSET Int] /\ lost' \subseteq 1..records'
        /\ \A r \in 1..records' : dayOf'[r] <= today'
    BY DEF RecordsKept
  <2>4. \A g \in Files : Len(content'[g]) <= MaxLines /\ (g > made' => content'[g] = <<>>)
    BY <1>3
  <2> QED BY <1>1, <1>2, <1>3, <2>1, <2>2, <2>3, <2>4 DEF AuditTypes
<1>5. ASSUME NEW g \in Files, NEW i \in 1..Len(content'[g]) PROVE Whole(g, i)'
  <2>0. tears' > 0
    BY <1>1
  <2>1. CASE i \in 1..Len(content[g]) /\ content'[g][i] = content[g][i]
    <3>1. Whole(g, i)
      BY <2>1 DEF AuditInv
    <3>2. ASSUME NEW r \in (1..records) \ lost,
                 content[g][i].ids = {r}, content[g][i].days = mentioned[r]
          PROVE  Whole(g, i)'
      <4>1. r \in (1..records') \ lost' /\ mentioned'[r] = mentioned[r]
        BY <3>2 DEF RecordsKept
      <4> QED BY <2>0, <2>1, <3>2, <4>1 DEF Whole
    <3>3. CASE ~content[g][i].json
      BY <2>0, <2>1, <3>3 DEF Whole
    <3> QED BY <3>1, <3>2, <3>3 DEF Whole
  <2>2. CASE ~content'[g][i].json
    BY <2>0, <2>2 DEF Whole
  <2> QED BY <1>3, <2>1, <2>2
<1>6. ASSUME NEW r \in 1..records' PROVE Kept(r)'
  <2> SUFFICES ASSUME dayOf'[r] = today, r \notin lost', turned' # today, strayed # today
               PROVE  \E i \in 1..Len(content'[named'[1]]) :
                        r \in content'[named'[1]][i].ids /\ today \in content'[named'[1]][i].days
    BY DEF Kept
  <2>1. named' = named /\ turned # today
    BY <1>2
  <2>2. named[1] \in Files
    <3>1. named[1] \in 1..made /\ made <= records + tears + 1 /\ made \in Nat
      BY <1>1, AuditLogAssumption DEF AuditTypes
    <3> QED BY <1>1, <3>1, AuditLogAssumption DEF Files
  <2>3. r \in 1..records /\ dayOf[r] = today /\ r \notin lost
    BY DEF RecordsKept
  <2>4. PICK i \in 1..Len(content[named[1]]) :
          r \in content[named[1]][i].ids /\ today \in content[named[1]][i].days
    BY <2>1, <2>3 DEF AuditInv, Kept
  <2> QED BY <1>3, <2>1, <2>2, <2>4
<1> QED BY <1>4, <1>5, <1>6 DEF AuditInv

LEMMA TurnFailsStep ==
  ASSUME AuditInv, NEW p \in Writers, TurnFails(p)
  PROVE  AuditInv'
<1>1. /\ AuditTypes /\ Lose /\ stream' = [stream EXCEPT ![p] = named[1]]
      /\ today' = today /\ content' = content /\ made' = made /\ named' = named
      /\ unended' = unended /\ turned' = turned /\ strayed' = strayed
      /\ records \in Nat /\ records' = records + 1 /\ tears \in Nat /\ tears' = tears + 1
      /\ tears' \in 0..MaxTears
  BY AuditLogAssumption DEF TurnFails, Lose, AuditInv, AuditTypes
<1>2. RecordsKept
  BY <1>1, Loses
<1>3. AuditTypes'
  <2>1. stream' \in [Writers -> 1..made]
    <3>1. named[1] \in 1..made
      BY <1>1, AuditLogAssumption DEF AuditTypes
    <3> QED BY <1>1, <3>1 DEF AuditTypes
  <2>2. made' \in 1..(records' + tears' + 1) /\ tears' > 0
    BY <1>1 DEF AuditTypes
  <2>3. /\ records' \in 0..MaxRecords /\ dayOf' \in [Ids -> Int]
        /\ mentioned' \in [Ids -> SUBSET Int] /\ lost' \subseteq 1..records'
        /\ \A r \in 1..records' : dayOf'[r] <= today'
    BY <1>1, <1>2 DEF RecordsKept
  <2> QED BY <1>1, <2>1, <2>2, <2>3 DEF AuditTypes
<1>4. ASSUME NEW g \in Files, NEW i \in 1..Len(content'[g]) PROVE Whole(g, i)'
  <2>1. Whole(g, i) /\ tears' > 0
    BY <1>1, <1>4 DEF AuditInv
  <2>2. ASSUME NEW r \in (1..records) \ lost,
               content[g][i].ids = {r}, content[g][i].days = mentioned[r]
        PROVE  Whole(g, i)'
    <3>1. r \in (1..records') \ lost' /\ mentioned'[r] = mentioned[r]
      BY <1>2, <2>2 DEF RecordsKept
    <3> QED BY <1>1, <2>1, <2>2, <3>1 DEF Whole
  <2>3. CASE ~content[g][i].json
    BY <1>1, <2>1, <2>3 DEF Whole
  <2> QED BY <2>1, <2>2, <2>3 DEF Whole
<1>5. ASSUME NEW r \in 1..records' PROVE Kept(r)'
  <2>1. r \in lost' \/ (r \in 1..records /\ dayOf'[r] = dayOf[r] /\ (r \in lost' <=> r \in lost))
    BY <1>2 DEF RecordsKept
  <2> QED BY <1>1, <2>1 DEF AuditInv, Kept
<1> QED BY <1>3, <1>4, <1>5 DEF AuditInv

LEMMA InitAudit == AuditInit => AuditInv
<1> SUFFICES ASSUME AuditInit PROVE AuditInv
  OBVIOUS
<1> USE AuditLogAssumption DEF AuditInit, Files
<1>1. AuditTypes
  <2>1. /\ content \in [Files -> Seq(AuditLines)] /\ \A f \in Files : content[f] = <<>>
        /\ \A f \in Files : Len(content[f]) <= MaxLines
    OBVIOUS
  <2>2. /\ made \in 1..(records + tears + 1) /\ named \in Seq(1..made) /\ Len(named) = 1
        /\ stream \in [Writers -> 1..made] /\ dayOf \in [Ids -> Int]
        /\ mentioned \in [Ids -> SUBSET Int] /\ lost \subseteq 1..records
    OBVIOUS
  <2> QED BY <2>1, <2>2 DEF AuditTypes
<1>2. \A f \in Files : \A i \in 1..Len(content[f]) : Whole(f, i)
  OBVIOUS
<1> QED BY <1>1, <1>2 DEF AuditInv

LEMMA NextAudit ==
  ASSUME AuditInv, [AuditNext]_auditVars
  PROVE  AuditInv'
<1>1. CASE UNCHANGED auditVars
  <2>1. AuditTypes'
    BY <1>1 DEF auditVars, recordVars, AuditInv, AuditTypes
  <2>2. \A f \in Files : \A i \in 1..Len(content'[f]) : Whole(f, i)'
    BY <1>1 DEF auditVars, recordVars, AuditInv, Whole
  <2>3. \A r \in 1..records' : Kept(r)'
    BY <1>1 DEF auditVars, recordVars, AuditInv, Kept
  <2> QED BY <2>1, <2>2, <2>3 DEF AuditInv
<1>2. ASSUME NEW p \in Writers, StartAgain(p) PROVE AuditInv'
  <2>1. /\ AuditTypes /\ stream' = [stream EXCEPT ![p] = named[1]]
        /\ UNCHANGED <<today, content, made, named, records, dayOf, mentioned, lost, unended,
                       tears, turned, strayed>>
    BY <1>2 DEF StartAgain, recordVars, AuditInv
  <2>2. stream' \in [Writers -> 1..made]
    <3>1. named[1] \in 1..made
      BY <2>1, AuditLogAssumption DEF AuditTypes
    <3> QED BY <2>1, <3>1 DEF AuditTypes
  <2>3. AuditTypes'
    BY <2>1, <2>2 DEF AuditTypes
  <2> QED BY <2>1, <2>3 DEF AuditInv, Whole, Kept
<1>3. CASE NextDate
  <2>1. /\ AuditTypes /\ today < LastDate /\ today' = today + 1 /\ today \in Nat
        /\ UNCHANGED <<content, made, named, stream, records, dayOf, mentioned, lost, unended,
                       tears, turned, strayed>>
    BY <1>3, AuditLogAssumption DEF NextDate, recordVars, AuditInv, AuditTypes
  <2>2. \A r \in 1..records : dayOf[r] < today'
    <3>1. \A r \in 1..records : dayOf[r] \in Int /\ dayOf[r] <= today
      BY <2>1, AuditLogAssumption DEF AuditTypes, Ids
    <3> QED BY <2>1, <3>1
  <2>3. AuditTypes'
    <3>1. \A r \in 1..records : dayOf[r] <= today'
      BY <2>1, <2>2, AuditLogAssumption DEF AuditTypes, Ids
    <3>2. today' \in 1..LastDate /\ turned \in 0..today' /\ strayed \in 0..today'
      BY <2>1, AuditLogAssumption DEF AuditTypes
    <3> QED BY <2>1, <3>1, <3>2 DEF AuditTypes
  <2>4. \A r \in 1..records' : Kept(r)'
    BY <2>1, <2>2, AuditLogAssumption DEF Kept, AuditTypes, Ids
  <2>5. \A f \in Files : \A i \in 1..Len(content'[f]) : Whole(f, i)'
    BY <2>1 DEF AuditInv, Whole
  <2> QED BY <2>3, <2>4, <2>5 DEF AuditInv
<1>4. ASSUME NEW p \in Writers, Tear(p) PROVE AuditInv'
  <2>1. /\ Turn(p) /\ tears' = tears + 1 /\ tears < MaxTears /\ Part(FileFor(p))
        /\ stream' = [stream EXCEPT ![p] = named'[1]] /\ UNCHANGED <<today, strayed>>
        /\ UNCHANGED recordVars /\ AuditTypes
    BY <1>4 DEF Tear, AuditInv
  <2>2. RecordsKept
    BY <2>1, Unasked
  <2> QED BY <2>1, <2>2, TornStep
<1>5. ASSUME NEW p \in Writers, WriteFails(p) PROVE AuditInv'
  <2>1. /\ Turn(p) /\ tears' = tears + 1 /\ tears < MaxTears
        /\ Part(FileFor(p)) \/ UNCHANGED <<content, unended>>
        /\ stream' = [stream EXCEPT ![p] = FileFor(p)] /\ UNCHANGED <<today, strayed>>
        /\ Lose /\ AuditTypes
    BY <1>5 DEF WriteFails, Lose, AuditInv
  <2>2. RecordsKept
    BY <2>1, Loses
  <2> QED BY <2>1, <2>2, TornStep
<1> QED BY <1>1, <1>2, <1>3, <1>4, <1>5, RecordStep, TurnFailsStep DEF AuditNext

(***************************************************************************)
(* What today() returns names today, and it is all of the day but for what *)
(* could not be written, unless a file was turned today, a record of today *)
(* went to a renamed file, or a line is torn: for any number of processes, *)
(* files, failures and crashes.                                            *)
(***************************************************************************)
THEOREM ReportCompleteHolds == AuditSpec => []ReportComplete
<1>1. AuditInv => ReportComplete
  <2> SUFFICES ASSUME AuditInv PROVE ReportComplete
    OBVIOUS
  <2> DEFINE written == {i \in 1..records : dayOf[i] = today}
             naming == {i \in (1..records) \ lost : today \in mentioned[i]}
             f == named[1]
  <2>1. AuditTypes
    BY DEF AuditInv
  <2>2. f \in Files
    <3>1. named[1] \in 1..made /\ made <= records + tears + 1 /\ made \in Nat
          /\ records \in 0..MaxRecords /\ tears \in 0..MaxTears
      BY <2>1, AuditLogAssumption DEF AuditTypes
    <3> QED BY <3>1, AuditLogAssumption DEF Files
  <2>3. ASSUME NEW i \in Lines(today), content[f][i].json
        PROVE  content[f][i].ids \subseteq naming
    <3>1. Whole(f, i) /\ today \in content[f][i].days
      BY <2>2, <2>3 DEF AuditInv, Lines
    <3>2. PICK r \in (1..records) \ lost :
            content[f][i].ids = {r} /\ content[f][i].days = mentioned[r]
      BY <2>3, <3>1 DEF Whole
    <3> QED BY <3>1, <3>2
  <2>4. CASE \A i \in Lines(today) : content[f][i].json
    <3>1. Shown(today) = UNION {content[f][i].ids : i \in Lines(today)}
      BY <2>4, Zenon DEF Shown
    <3>2. Shown(today) \subseteq naming
      BY <2>3, <2>4, <3>1
    <3>3. ASSUME turned # today, strayed # today PROVE written \subseteq Shown(today) \cup lost
      <4> SUFFICES ASSUME NEW r \in written, r \notin lost PROVE r \in Shown(today)
        OBVIOUS
      <4>1. PICK i \in 1..Len(content[f]) :
              r \in content[f][i].ids /\ today \in content[f][i].days
        BY <3>3 DEF AuditInv, Kept
      <4>2. i \in Lines(today)
        BY <4>1 DEF Lines
      <4> QED BY <3>1, <4>1, <4>2
    <3> QED BY <3>2, <3>3 DEF ReportComplete
  <2>5. ASSUME NEW i \in Lines(today), ~content[f][i].json PROVE ReportComplete
    <3>1. Shown(today) = {}
      BY <2>5, Zenon DEF Shown
    <3>2. tears > 0
      BY <2>2, <2>5 DEF AuditInv, Whole, Lines
    <3> QED BY <2>5, <3>1, <3>2 DEF ReportComplete
  <2> QED BY <2>4, <2>5
<1>2. AuditInv /\ [AuditNext]_auditVars => AuditInv'
  BY NextAudit
<1> QED BY <1>1, <1>2, InitAudit, PTL DEF AuditSpec

LEMMA AuditTypeOKHolds == AuditInv => AuditTypeOK
<1> SUFFICES ASSUME AuditInv PROVE AuditTypeOK
  OBVIOUS
<1>1. AuditTypes
  BY DEF AuditInv
<1>2. made \in Files
  BY <1>1, AuditLogAssumption DEF AuditTypes, Files
<1>3. \A i \in 1..Len(named) : named[i] \in 1..made
  BY <1>1 DEF AuditTypes
<1> QED BY <1>1, <1>2, <1>3 DEF AuditTypeOK, AuditTypes

-----------------------------------------------------------------------------
(***************************************************************************)
(* The resolver of tickers (SymbolResolver)                                *)
(***************************************************************************)

Keys == Names \X Spellings

SymTypes ==
  /\ running \in BOOLEAN /\ torn \in BOOLEAN
  /\ master \in [Names -> Tickers] /\ cache \in [Keys -> Tickers]
  /\ csv \in {Nothing, Broken} \cup [Names -> Tickers] /\ age \in {"fresh", "old"}
  /\ asked \in [Threads -> {Nothing} \cup Keys] /\ probing \in [Threads -> {"none", "NS", "BO"}]
  /\ \A t \in Threads : asked[t] = Nothing <=> probing[t] = "none"
  /\ days \in 0..MaxDays /\ blips \in 0..MaxBlips

\* What a table may have for a name.
Right(n, ticker) ==
  /\ ticker = "cut" => torn
  /\ n \in Static => ticker \in {"none", "static"} \/ torn
  /\ ticker = "static" => n \in Static
  /\ ticker = "BO" => n \in OnBSE /\ (n \in OnNSE => blips > 0)
  /\ ticker = "NS" => n \in OnNSE

Saved == csv \notin {Nothing, Broken}

\* The probe of the BSE listing follows one of the NSE listing, and a name of the
\* static maps is probed under a suffix, after a file was torn.
Probes(t) ==
  /\ probing[t] = "BO" /\ asked[t][1] \in OnNSE => blips > 0
  /\ asked[t] # Nothing /\ asked[t][1] \in Static => torn /\ asked[t][2] # "bare"

\* The static maps answer for the bare spelling of their names.
Bare(c) == \A n \in Static : c[<<n, "bare">>] \in {"none", "static"}

SymInv ==
  /\ SymTypes
  /\ \A n \in Names : Right(n, master[n])
  /\ \A k \in Keys : Right(k[1], cache[k])
  /\ Saved => \A n \in Names : Right(n, csv[n])
  /\ ~torn /\ Saved => \A n \in Static : csv[n] = "static"
  /\ ~torn /\ running => \A n \in Static : master[n] = "static"
  /\ ~torn => \A k \in Keys : cache[k] # "none" => master[k[1]] # "none"
  /\ ~running => cache = NoCache /\ asked = Idle
  /\ \A t \in Threads : Probes(t)
  /\ Bare(cache)

\* The ticker that a table may have for a name stays right when a file is
\* torn or a probe fails.
LEMMA RightKept ==
  ASSUME NEW n, NEW x, Right(n, x), torn => torn', blips \in Nat, blips' \in Nat, blips' >= blips
  PROVE  Right(n, x)'
<1>1. (n \in OnNSE => blips > 0) => (n \in OnNSE => blips' > 0)  OBVIOUS
<1>. QED  BY <1>1 DEF Right

\* The parts of the types.
LEMMA InitSym == SymInit => SymInv
<1>. SUFFICES ASSUME SymInit PROVE SymInv  OBVIOUS
<1>1. SymTypes
  <2>1. running \in BOOLEAN /\ torn \in BOOLEAN  BY Zenon DEF SymInit
  <2>2. days \in 0..MaxDays /\ blips \in 0..MaxBlips  BY SymbolResolverAssumption DEF SymInit
  <2>3. master \in [Names -> Tickers] /\ cache \in [Keys -> Tickers]
    BY DEF SymInit, NoTickers, NoCache, Keys, Tickers
  <2>4. /\ asked \in [Threads -> {Nothing} \cup Keys] /\ probing \in [Threads -> {"none", "NS", "BO"}]
        /\ \A t \in Threads : asked[t] = Nothing <=> probing[t] = "none"
    BY DEF SymInit, Idle
  <2>5. csv \in {Nothing, Broken} /\ age = "old"  BY DEF SymInit
  <2>. QED  BY <2>1, <2>2, <2>3, <2>4, <2>5 DEF SymTypes
<1>2. \A n \in Names : Right(n, master[n])  BY DEF SymInit, NoTickers, Right
<1>3. \A k \in Keys : Right(k[1], cache[k])  BY DEF SymInit, NoCache, Right, Keys
<1>4. ~Saved  BY DEF SymInit, Saved
<1>5. ~running  BY DEF SymInit
<1>6. \A k \in Keys : cache[k] = "none"  BY DEF SymInit, NoCache, Keys
<1>7. \A t \in Threads : Probes(t)  BY DEF SymInit, Probes, Idle
<1>9. Bare(cache)  BY DEF SymInit, NoCache, Bare, Names, Spellings
<1>8. cache = NoCache /\ asked = Idle  BY DEF SymInit
<1>. QED  BY <1>1, <1>2, <1>3, <1>4, <1>5, <1>6, <1>7, <1>8, <1>9 DEF SymInv

\* _build_master() gives each name a ticker it may have.
LEMMA BuiltRight ==
  ASSUME NEW list \in {{}, Listed}
  PROVE  /\ Built(list) \in [Names -> Tickers]
         /\ \A n \in Names : Right(n, Built(list)[n])
         /\ \A n \in Static : Built(list)[n] = "static"
  BY SymbolResolverAssumption DEF Built, Tickers, Right, Names

\* What the conjuncts of the invariant say of one table.
RightTable(m) == \A n \in Names : Right(n, m[n])
StaticTable(m) == \A n \in Static : m[n] = "static"
CsvRight ==
  /\ csv \in {Nothing, Broken} \cup [Names -> Tickers] /\ age \in {"fresh", "old"}
  /\ Saved => RightTable(csv)
  /\ ~torn /\ Saved => StaticTable(csv)

\* _save_master() of a right table leaves a right file.
LEMMA SaveStep ==
  ASSUME CsvRight, NEW m \in [Names -> Tickers], Save(m), UNCHANGED torn,
         blips \in Nat, blips' = blips, RightTable(m), ~torn => StaticTable(m)
  PROVE  CsvRight'
<1>1. csv' \in {m, csv} /\ age' \in {"fresh", "old"}  BY DEF Save, CsvRight
<1>2. csv' \in {Nothing, Broken} \cup [Names -> Tickers]  BY <1>1 DEF CsvRight
<1>3. Saved' => RightTable(csv') /\ (~torn => StaticTable(csv'))
  <2>1. CASE csv' = m  BY <2>1, Zenon
  <2>2. CASE csv' = csv  BY <2>2, Zenon DEF CsvRight, Saved
  <2>. QED  BY <1>1, <2>1, <2>2
<1>4. RightTable(csv') => RightTable(csv)'
  BY RightKept, Zenon DEF RightTable, Right
<1>5. StaticTable(csv') => StaticTable(csv)'  BY Zenon DEF StaticTable
<1>. QED  BY <1>1, <1>2, <1>3, <1>4, <1>5, Zenon DEF CsvRight

LEMMA StartResolverStep == SymInv /\ StartResolver => SymInv'
<1>. SUFFICES ASSUME SymInv, StartResolver PROVE SymInv'  OBVIOUS
<1>a. SymTypes  BY DEF SymInv
<1>b. UNCHANGED <<cache, asked, probing, torn, blips>> /\ ~running /\ running' /\ running' \in BOOLEAN
  BY Zenon DEF StartResolver
<1>c. cache = NoCache  BY <1>b, Zenon DEF SymInv
<1>d. days' \in 0..MaxDays /\ blips \in Nat  BY <1>a, SymbolResolverAssumption DEF StartResolver, SymTypes
<1>e. CsvRight  BY <1>a, Zenon DEF SymInv, SymTypes, CsvRight, RightTable, StaticTable
<1>1. master' \in [Names -> Tickers] /\ RightTable(master') /\ (~torn => StaticTable(master')) /\ CsvRight'
  <2>1. CASE csv \notin {Nothing, Broken} /\ age = "fresh"
    <3>1. master' = csv /\ UNCHANGED <<csv, age>>  BY <2>1, Zenon DEF StartResolver
    <3>2. Saved  BY <2>1 DEF Saved
    <3>3. master' \in [Names -> Tickers]  BY <3>1, <3>2, <1>e DEF Saved, CsvRight
    <3>4. RightTable(csv) /\ (~torn => StaticTable(csv))  BY <3>2, <1>e, Zenon DEF CsvRight
    <3>5. CsvRight'  BY <3>1, <1>b, <1>e, Zenon DEF CsvRight, Saved, RightTable, Right, StaticTable
    <3>. QED  BY <3>1, <3>3, <3>4, <3>5, Zenon
  <2>2. CASE ~(csv \notin {Nothing, Broken} /\ age = "fresh")
    <3>1. PICK list \in {{}, Listed} : master' = Built(list) /\ Save(master')
      BY <2>2, Zenon DEF StartResolver
    <3>2. /\ master' \in [Names -> Tickers] /\ RightTable(master') /\ StaticTable(master')
      BY <3>1, BuiltRight, Zenon DEF RightTable, StaticTable
    <3>3. CsvRight'  BY <3>1, <3>2, <1>b, <1>d, <1>e, SaveStep, Zenon
    <3>. QED  BY <3>2, <3>3
  <2>. QED  BY <2>1, <2>2
<1>2. SymTypes'  BY <1>a, <1>b, <1>d, <1>1 DEF SymTypes, CsvRight
<1>3. \A n \in Names : Right(n, master[n])'  BY <1>1, <1>b, Zenon DEF RightTable, Right
<1>4. \A k \in Keys : Right(k[1], cache[k])'  BY <1>b, Zenon DEF SymInv, Right
<1>5. \A k \in Keys : cache'[k] = "none"  BY <1>b, <1>c DEF NoCache, Keys
<1>6. \A t \in Threads : Probes(t)'  BY <1>b, Zenon DEF SymInv, Probes
<1>7. /\ (Saved => \A n \in Names : Right(n, csv[n]))'
      /\ (~torn /\ Saved => \A n \in Static : csv[n] = "static")'
      /\ (~torn /\ running => \A n \in Static : master[n] = "static")'
  BY <1>1, <1>b, Zenon DEF CsvRight, RightTable, StaticTable
<1>8. Bare(cache)'  BY <1>b, Zenon DEF SymInv, Bare
<1>. QED  BY <1>2, <1>3, <1>4, <1>5, <1>6, <1>7, <1>8, <1>b, Zenon DEF SymInv

LEMMA LookupStep ==
  ASSUME SymInv, NEW t \in Threads, NEW n \in Names, NEW s \in Spellings, Lookup(t, n, s)
  PROVE  SymInv'
<1>a. SymTypes  BY DEF SymInv
<1>b. UNCHANGED <<running, master, csv, age, torn, days, blips>> /\ asked[t] = Nothing  BY DEF Lookup
<1>r. running  BY Zenon DEF Lookup
<1>k. <<n, s>> \in Keys /\ <<n, s>>[1] = n /\ <<n, s>> # Nothing
  BY SymbolResolverAssumption DEF Keys
<1>c. /\ \A k \in Keys : Right(k[1], cache[k])
      /\ ~torn => \A k \in Keys : cache[k] # "none" => master[k[1]] # "none"
      /\ \A i \in Names : Right(i, master[i])
      /\ \A u \in Threads : Probes(u)
      /\ ~torn => \A i \in Static : master[i] = "static"
      /\ Bare(cache)
  BY <1>r, Zenon DEF SymInv
<1>1. \/ UNCHANGED <<cache, asked, probing>>
      \/ \E x \in Tickers :
           /\ cache' = [cache EXCEPT ![<<n, s>>] = x] /\ UNCHANGED <<asked, probing>>
           /\ Right(n, x) /\ (~torn => master[n] # "none")
           /\ s = "bare" /\ n \in Static => x = "static"
      \/ /\ UNCHANGED cache /\ asked' = [asked EXCEPT ![t] = <<n, s>>]
         /\ probing' = [probing EXCEPT ![t] = "NS"]
         /\ ~(s = "bare" /\ n \in Static) /\ master[n] = "none"
  <2>1. CASE cache[<<n, s>>] # "none"  BY <2>1 DEF Lookup
  <2>2. CASE cache[<<n, s>>] = "none" /\ s = "bare" /\ n \in Static
    <3>1. cache' = [cache EXCEPT ![<<n, s>>] = "static"] /\ UNCHANGED <<asked, probing>>
      BY <2>2 DEF Lookup
    <3>2. Right(n, "static") /\ (~torn => master[n] # "none") /\ "static" \in Tickers
      BY <2>2, <1>c DEF Right, Tickers
    <3>. QED  BY <3>1, <3>2
  <2>3. CASE cache[<<n, s>>] = "none" /\ ~(s = "bare" /\ n \in Static) /\ master[n] # "none"
    <3>1. cache' = [cache EXCEPT ![<<n, s>>] = master[n]] /\ UNCHANGED <<asked, probing>>
      BY <2>3 DEF Lookup
    <3>2. master[n] \in Tickers  BY <1>a DEF SymTypes
    <3>. QED  BY <3>1, <3>2, <2>3, <1>c
  <2>4. CASE cache[<<n, s>>] = "none" /\ ~(s = "bare" /\ n \in Static) /\ master[n] = "none"
    BY <2>4 DEF Lookup, FirstProbe
  <2>. QED  BY <2>1, <2>2, <2>3, <2>4
<1>2. /\ cache' \in [Keys -> Tickers]
      /\ \A k \in Keys : Right(k[1], cache'[k])
      /\ ~torn => \A k \in Keys : cache'[k] # "none" => master[k[1]] # "none"
      /\ Bare(cache')
  <2>1. CASE UNCHANGED cache  BY <2>1, <1>a, <1>c DEF SymTypes
  <2>2. CASE \E x \in Tickers :
           /\ cache' = [cache EXCEPT ![<<n, s>>] = x]
           /\ Right(n, x) /\ (~torn => master[n] # "none")
           /\ s = "bare" /\ n \in Static => x = "static"
    <3>1. PICK x \in Tickers :
           /\ cache' = [cache EXCEPT ![<<n, s>>] = x]
           /\ Right(n, x) /\ (~torn => master[n] # "none")
           /\ s = "bare" /\ n \in Static => x = "static"
      BY <2>2
    <3>2. cache \in [Keys -> Tickers]  BY <1>a DEF SymTypes
    <3>3. cache' \in [Keys -> Tickers]  BY <3>1, <3>2, <1>k
    <3>4. \A k \in Keys : cache'[k] = IF k = <<n, s>> THEN x ELSE cache[k]  BY <3>1, <3>2, <1>k
    <3>5. Bare(cache')
      <4>. SUFFICES ASSUME NEW i \in Static PROVE cache'[<<i, "bare">>] \in {"none", "static"}
        BY DEF Bare
      <4>1. <<i, "bare">> \in Keys  BY DEF Keys, Names, Spellings
      <4>2. CASE <<i, "bare">> = <<n, s>>  BY <4>1, <4>2, <3>1, <3>4
      <4>3. CASE <<i, "bare">> # <<n, s>>  BY <4>1, <4>3, <3>4, <1>c DEF Bare
      <4>. QED  BY <4>2, <4>3
    <3>. QED  BY <3>1, <3>3, <3>4, <3>5, <1>c, <1>k, Zenon
  <2>. QED  BY <1>1, <2>1, <2>2
<1>3. /\ asked' \in [Threads -> {Nothing} \cup Keys] /\ probing' \in [Threads -> {"none", "NS", "BO"}]
      /\ \A u \in Threads : asked'[u] = Nothing <=> probing'[u] = "none"
  BY <1>1, <1>a, <1>k DEF SymTypes
<1>4. \A u \in Threads : Probes(u)'
  <2>. TAKE u \in Threads
  <2>1. CASE asked'[u] = asked[u] /\ probing'[u] = probing[u]  BY <2>1, <1>b, <1>c DEF Probes
  <2>2. CASE /\ asked'[u] = <<n, s>> /\ probing'[u] = "NS"
             /\ ~(s = "bare" /\ n \in Static) /\ master[n] = "none"
    <3>1. n \in Static => torn  BY <2>2, <1>c
    <3>. QED  BY <2>2, <3>1, <1>b DEF Probes
  <2>. QED  BY <1>1, <1>a, <2>1, <2>2 DEF SymTypes
<1>5. SymTypes'  BY <1>a, <1>b, <1>2, <1>3 DEF SymTypes
<1>6. \A k \in Keys : Right(k[1], cache[k])'  BY <1>2, <1>b, Zenon DEF Right
<1>7. /\ \A i \in Names : Right(i, master[i])'
      /\ (Saved => \A i \in Names : Right(i, csv[i]))'
  BY <1>b, Zenon DEF SymInv, Right, Saved
<1>8. /\ (~torn /\ Saved => \A i \in Static : csv[i] = "static")'
      /\ (~torn /\ running => \A i \in Static : master[i] = "static")'
      /\ (~torn => \A k \in Keys : cache[k] # "none" => master[k[1]] # "none")'
  BY <1>b, <1>2, Zenon DEF SymInv, Saved
<1>9. Bare(cache)'  BY <1>2, Zenon DEF Bare
<1>. QED  BY <1>4, <1>5, <1>6, <1>7, <1>8, <1>9, <1>b, <1>r, Zenon DEF SymInv

LEMMA ProbeStep == ASSUME SymInv, NEW t \in Threads, Probe(t) PROVE SymInv'
<1>a. SymTypes  BY DEF SymInv
<1>b. UNCHANGED <<running, torn, days>> /\ asked[t] # Nothing  BY Zenon DEF Probe
<1>r. running
  <2>1. asked # Idle  BY <1>b DEF Idle
  <2>. QED  BY <2>1, Zenon DEF SymInv
<1>c. /\ \A k \in Keys : Right(k[1], cache[k])
      /\ ~torn => \A k \in Keys : cache[k] # "none" => master[k[1]] # "none"
      /\ \A i \in Names : Right(i, master[i])
      /\ \A u \in Threads : Probes(u)
      /\ ~torn => \A i \in Static : master[i] = "static"
      /\ Bare(cache)
  BY <1>r, Zenon DEF SymInv
<1>d. CsvRight  BY <1>a, Zenon DEF SymInv, SymTypes, CsvRight, RightTable, StaticTable
<1>. DEFINE n == asked[t][1]
            kind == probing[t]
<1>k. asked[t] \in Keys /\ n \in Names /\ kind \in {"NS", "BO"}  BY <1>a, <1>b DEF SymTypes, Keys
<1>l. /\ kind = "BO" /\ n \in OnNSE => blips > 0
      /\ n \in Static => torn /\ asked[t][2] # "bare"
  BY <1>b, <1>c DEF Probes
<1>. HIDE DEF n, kind
<1>1. CASE /\ HasData(n, kind)
           /\ master' = [master EXCEPT ![n] = kind]
           /\ cache' = [cache EXCEPT ![asked[t]] = kind]
           /\ Save(master')
           /\ asked' = [asked EXCEPT ![t] = Nothing]
           /\ probing' = [probing EXCEPT ![t] = "none"]
           /\ UNCHANGED blips
  <2>. USE <1>1
  <2>1. Right(n, kind) /\ (~torn => n \notin Static) /\ kind \in Tickers /\ kind # "none"
    BY <1>k, <1>l, SymbolResolverAssumption DEF HasData, Right, Tickers
  <2>2. master \in [Names -> Tickers] /\ cache \in [Keys -> Tickers]  BY <1>a DEF SymTypes
  <2>3. /\ master' \in [Names -> Tickers]
        /\ \A i \in Names : master'[i] = IF i = n THEN kind ELSE master[i]
    BY <2>1, <2>2, <1>k
  <2>4. /\ cache' \in [Keys -> Tickers]
        /\ \A k \in Keys : cache'[k] = IF k = asked[t] THEN kind ELSE cache[k]
    BY <2>1, <2>2, <1>k
  <2>5. RightTable(master') /\ (~torn => StaticTable(master'))
    BY <2>1, <2>3, <1>c, Zenon DEF RightTable, StaticTable, Names
  <2>6. blips \in Nat  BY <1>a, SymbolResolverAssumption DEF SymTypes
  <2>7. CsvRight'  BY <2>3, <2>5, <2>6, <1>b, <1>d, SaveStep
  <2>8. \A k \in Keys : Right(k[1], cache'[k])  BY <2>1, <2>4, <1>c, Zenon DEF n
  <2>9. ~torn => \A k \in Keys : cache'[k] # "none" => master'[k[1]] # "none"
    <3>1. \A k \in Keys : k[1] \in Names  BY DEF Keys
    <3>. QED  BY <2>1, <2>3, <2>4, <1>c, <3>1, Zenon DEF n
  <2>10. /\ asked' \in [Threads -> {Nothing} \cup Keys] /\ probing' \in [Threads -> {"none", "NS", "BO"}]
         /\ \A u \in Threads : asked'[u] = Nothing <=> probing'[u] = "none"
    BY <1>a DEF SymTypes
  <2>11. \A u \in Threads : Probes(u)'
    <3>. TAKE u \in Threads
    <3>1. CASE u = t
      <4>1. asked'[u] = Nothing /\ probing'[u] = "none"  BY <3>1, <1>a DEF SymTypes
      <4>. QED  BY <4>1 DEF Probes
    <3>2. CASE u # t
      <4>1. asked'[u] = asked[u] /\ probing'[u] = probing[u]  BY <3>2, <1>a DEF SymTypes
      <4>. QED  BY <4>1, <1>b, <1>c DEF Probes
    <3>. QED  BY <3>1, <3>2
  <2>12. SymTypes'  BY <1>a, <1>b, <2>3, <2>4, <2>7, <2>10 DEF SymTypes, CsvRight
  <2>13. \A i \in Names : Right(i, master[i])'  BY <2>5, <1>b, Zenon DEF RightTable, Right
  <2>14. \A k \in Keys : Right(k[1], cache[k])'  BY <2>8, <1>b, Zenon DEF Right
  <2>15. /\ (Saved => \A i \in Names : Right(i, csv[i]))'
         /\ (~torn /\ Saved => \A i \in Static : csv[i] = "static")'
         /\ (~torn /\ running => \A i \in Static : master[i] = "static")'
    BY <2>5, <2>7, <1>b, Zenon DEF CsvRight, RightTable, StaticTable
  <2>16. Bare(cache)'
    <3>. SUFFICES ASSUME NEW i \in Static PROVE cache'[<<i, "bare">>] \in {"none", "static"}
      BY DEF Bare
    <3>1. <<i, "bare">> \in Keys  BY DEF Keys, Names, Spellings
    <3>2. <<i, "bare">> # asked[t]  BY <1>l DEF n
    <3>3. cache[<<i, "bare">>] \in {"none", "static"}  BY <1>c, Zenon DEF Bare
    <3>. QED  BY <2>4, <3>1, <3>2, <3>3
  <2>. QED  BY <2>9, <2>11, <2>12, <2>13, <2>14, <2>15, <2>16, <1>b, <1>r, Zenon DEF SymInv
<1>2. CASE /\ HasData(n, kind) => blips < MaxBlips
           /\ blips' = IF HasData(n, kind) THEN blips + 1 ELSE blips
           /\ probing' = [probing EXCEPT ![t] = NextProbe(kind)]
           /\ asked' = [asked EXCEPT ![t] = IF NextProbe(kind) = "none" THEN Nothing ELSE asked[t]]
           /\ UNCHANGED <<master, cache, csv, age>>
  <2>. USE <1>2
  <2>1. blips \in 0..MaxBlips /\ MaxBlips \in Nat  BY <1>a, SymbolResolverAssumption DEF SymTypes
  <2>2. blips' \in 0..MaxBlips /\ blips' >= blips /\ blips \in Nat /\ blips' \in Nat
    BY <2>1
  <2>3. /\ asked' \in [Threads -> {Nothing} \cup Keys] /\ probing' \in [Threads -> {"none", "NS", "BO"}]
    BY <1>a, <1>k DEF SymTypes, NextProbe
  <2>4. \A u \in Threads : asked'[u] = Nothing <=> probing'[u] = "none"
    BY <1>a, <1>b, <1>k DEF SymTypes, NextProbe
  <2>5. \A u \in Threads : Probes(u)'
    <3>. TAKE u \in Threads
    <3>1. CASE u = t
      <4>1. /\ asked'[u] \in {Nothing, asked[t]} /\ probing'[u] \in {"BO", "none"}
            /\ probing'[u] = "BO" => kind = "NS" /\ asked'[u] = asked[t]
        BY <3>1, <1>a, <1>k DEF NextProbe, SymTypes
      <4>2. probing'[u] = "BO" /\ n \in OnNSE => HasData(n, kind)  BY <4>1 DEF HasData
      <4>3. probing'[u] = "BO" /\ asked'[u][1] \in OnNSE => blips' > 0  BY <4>1, <4>2, <2>1 DEF n
      <4>4. asked'[u] # Nothing /\ asked'[u][1] \in Static => torn' /\ asked'[u][2] # "bare"
        BY <4>1, <1>b, <1>l DEF n
      <4>. QED  BY <4>3, <4>4 DEF Probes
    <3>2. CASE u # t
      <4>1. asked'[u] = asked[u] /\ probing'[u] = probing[u]  BY <3>2, <1>a DEF SymTypes
      <4>. QED  BY <4>1, <1>b, <1>c, <2>2 DEF Probes
    <3>. QED  BY <3>1, <3>2
  <2>6. SymTypes'  BY <1>a, <1>b, <2>2, <2>3, <2>4 DEF SymTypes
  <2>7. torn => torn'  BY <1>b
  <2>8. \A i, x : Right(i, x) => Right(i, x)'  BY <2>2, <2>7, RightKept
  <2>9. \A i \in Names : Right(i, master[i])'  BY <2>8, <1>c, Zenon
  <2>10. \A k \in Keys : Right(k[1], cache[k])'  BY <2>8, <1>c, Zenon
  <2>11. (Saved => \A i \in Names : Right(i, csv[i]))'  BY <2>8, Zenon DEF SymInv, Saved
  <2>12. /\ (~torn /\ Saved => \A i \in Static : csv[i] = "static")'
         /\ (~torn /\ running => \A i \in Static : master[i] = "static")'
         /\ (~torn => \A k \in Keys : cache[k] # "none" => master[k[1]] # "none")'
    BY <1>b, <1>c, Zenon DEF SymInv, Saved
  <2>13. Bare(cache)'  BY <1>c, Zenon DEF Bare
  <2>. QED  BY <2>5, <2>6, <2>9, <2>10, <2>11, <2>12, <2>13, <1>b, <1>r, Zenon DEF SymInv
<1>. QED  BY <1>1, <1>2, Zenon DEF Probe, n, kind

LEMMA EndStep == SymInv /\ EndOfProcess => SymInv'
<1>. SUFFICES ASSUME SymInv, EndOfProcess PROVE SymInv'  OBVIOUS
<1>a. SymTypes  BY DEF SymInv
<1>b. /\ master' = NoTickers /\ cache' = NoCache /\ asked' = Idle
      /\ probing' = [t \in Threads |-> "none"] /\ UNCHANGED <<days, blips>>
  BY DEF EndOfProcess
<1>c. ~running' /\ running' \in BOOLEAN  BY Zenon DEF EndOfProcess
<1>d. \A n \in Names : Right(n, master[n])  BY Zenon DEF SymInv
<1>e. blips \in Nat  BY <1>a, SymbolResolverAssumption DEF SymTypes
<1>1. torn' \in BOOLEAN /\ CsvRight'
  <2>1. CASE UNCHANGED <<csv, age, torn>>
    BY <1>a, <1>b, <2>1, Zenon DEF SymInv, SymTypes, CsvRight, RightTable, StaticTable, Right, Saved
  <2>2. CASE TearCsv
    <3>0. torn' /\ torn' \in BOOLEAN /\ age' = "fresh"  BY <2>2, Zenon DEF TearCsv
    <3>1. CASE csv' = Broken
      BY <3>0, <3>1 DEF CsvRight, Saved
    <3>2. CASE csv' # Broken
      <4>1. PICK whole \in SUBSET Names, last \in Names :
              csv' = [n \in Names |-> IF n \in whole THEN master[n]
                      ELSE IF n = last THEN "cut" ELSE "none"]
        BY <2>2, <3>2 DEF TearCsv
      <4>2. csv' \in [Names -> Tickers]  BY <4>1, <1>a DEF SymTypes, Tickers
      <4>3. \A n \in Names : csv'[n] \in {master[n], "cut", "none"}  BY <4>1
      <4>4. \A n \in Names : Right(n, csv[n])'
        <5>. TAKE n \in Names
        <5>1. Right(n, master[n]) /\ (torn => torn')  BY <1>d, <3>0, Zenon
        <5>2. blips' \in Nat /\ blips' >= blips  BY <1>b, <1>e
        <5>3. blips' = blips  BY <1>b
        <5>4. CASE csv'[n] = master[n]
          BY <5>1, <5>3, <5>4 DEF Right
        <5>5. CASE csv'[n] = "cut" \/ csv'[n] = "none"  BY <3>0, <5>5 DEF Right
        <5>. QED  BY <4>3, <5>4, <5>5
      <4>. QED  BY <3>0, <4>2, <4>4, Zenon DEF CsvRight, RightTable, StaticTable, Right
    <3>. QED  BY <3>0, <3>1, <3>2
  <2>. QED  BY <2>1, <2>2, <1>a, Zenon DEF EndOfProcess, SymTypes
<1>2. /\ master' \in [Names -> Tickers] /\ cache' \in [Keys -> Tickers]
      /\ \A n \in Names : master'[n] = "none"
      /\ \A k \in Keys : cache'[k] = "none"
  BY <1>b DEF NoTickers, NoCache, Tickers, Keys
<1>3. /\ asked' \in [Threads -> {Nothing} \cup Keys] /\ probing' \in [Threads -> {"none", "NS", "BO"}]
      /\ \A u \in Threads : asked'[u] = Nothing /\ probing'[u] = "none"
  BY <1>b DEF Idle
<1>4. SymTypes'  BY <1>a, <1>b, <1>c, <1>1, <1>2, <1>3 DEF SymTypes, CsvRight
<1>5. \A n : Right(n, "none")'  BY DEF Right
<1>6. \A n \in Names : Right(n, master[n])'  BY <1>2, <1>5, Zenon DEF Right
<1>7. \A k \in Keys : Right(k[1], cache[k])'  BY <1>2, <1>5, Zenon DEF Right
<1>8. /\ \A t \in Threads : Probes(t)'
      /\ Bare(cache)'
  BY <1>2, <1>3 DEF Probes, Bare, Keys, Names, Spellings
<1>9. /\ (Saved => \A i \in Names : Right(i, csv[i]))'
      /\ (~torn /\ Saved => \A i \in Static : csv[i] = "static")'
  BY <1>1, Zenon DEF CsvRight, RightTable, StaticTable
<1>10. cache' = NoCache /\ asked' = Idle  BY <1>b
<1>. QED  BY <1>2, <1>4, <1>6, <1>7, <1>8, <1>9, <1>10, <1>c, Zenon DEF SymInv

LEMMA DayOldStep == SymInv /\ DayOld => SymInv'
<1>. SUFFICES ASSUME SymInv, DayOld PROVE SymInv'  OBVIOUS
<1>1. UNCHANGED <<running, master, cache, csv, asked, probing, torn, blips>>  BY DEF DayOld
<1>2. age' \in {"fresh", "old"} /\ days' \in 0..MaxDays
  BY SymbolResolverAssumption DEF DayOld, SymInv, SymTypes
<1>3. SymTypes'  BY <1>1, <1>2, Zenon DEF SymInv, SymTypes
<1>. QED  BY <1>1, <1>3, Zenon DEF SymInv, Right, Saved, Probes, Bare

LEMMA NextSym == SymInv /\ [SymNext]_symVars => SymInv'
<1>. SUFFICES ASSUME SymInv, [SymNext]_symVars PROVE SymInv'  OBVIOUS
<1>1. CASE StartResolver  BY <1>1, StartResolverStep
<1>2. CASE \E t \in Threads, n \in Names, s \in Spellings : Lookup(t, n, s)  BY <1>2, LookupStep
<1>3. CASE \E t \in Threads : Probe(t)  BY <1>3, ProbeStep
<1>4. CASE EndOfProcess  BY <1>4, EndStep
<1>5. CASE DayOld  BY <1>5, DayOldStep
<1>6. CASE UNCHANGED symVars
  <2>1. UNCHANGED <<running, master, cache, csv, age, asked, probing, torn, days, blips>>
    BY <1>6 DEF symVars
  <2>2. SymTypes'  BY <2>1, Zenon DEF SymInv, SymTypes
  <2>. QED  BY <2>1, <2>2, Zenon DEF SymInv, Right, Saved, Probes, Bare
<1>. QED  BY <1>1, <1>2, <1>3, <1>4, <1>5, <1>6, Zenon DEF SymNext

\* The variables keep their types.
LEMMA SymTypeOKHolds == SymInv => SymTypeOK
  BY Zenon DEF SymInv, SymTypes, SymTypeOK, Keys

\* What to_yf() has cached for a name is the ticker that name may have.
LEMMA SymInvFaithful == SymInv => TickerFaithful
<1>. SUFFICES ASSUME SymInv, NEW n \in Names, NEW s \in Spellings
              PROVE  /\ cache[<<n, s>>] = "cut" => torn
                     /\ n \in Static /\ (s = "bare" \/ ~torn) => cache[<<n, s>>] \in {"none", "static"}
                     /\ cache[<<n, s>>] = "BO" => n \in OnBSE /\ (n \in OnNSE => blips > 0)
                     /\ cache[<<n, s>>] = "NS" => n \in OnNSE
                     /\ cache[<<n, s>>] # "none" /\ blips = 0 /\ ~torn => master[n] = cache[<<n, s>>]
  BY Zenon DEF TickerFaithful
<1>. DEFINE k == <<n, s>>
<1>1. k \in Keys /\ k[1] = n  BY DEF Keys
<1>2. Right(n, cache[k]) /\ Right(n, master[n])  BY <1>1, Zenon DEF SymInv
<1>3. ~torn /\ cache[k] # "none" => master[n] # "none"  BY <1>1, Zenon DEF SymInv
<1>4. cache[k] \in Tickers /\ master[n] \in Tickers  BY <1>1 DEF SymInv, SymTypes
<1>6. n \in Static /\ s = "bare" => cache[<<n, s>>] \in {"none", "static"}  BY Zenon DEF SymInv, Bare
<1>. HIDE DEF k
<1>5. cache[k] # "none" /\ blips = 0 /\ ~torn => master[n] = cache[k]
  BY <1>2, <1>3, <1>4, SymbolResolverAssumption DEF Right, Tickers
<1>. QED  BY <1>2, <1>5, <1>6 DEF Right, k

\* The cache of the resolver is faithful to the exchanges (to_yf()).
THEOREM TickerFaithfulHolds == SymSpec => []TickerFaithful
<1>1. SymSpec => []SymInv  BY InitSym, NextSym, PTL DEF SymSpec
<1>. QED  BY <1>1, SymInvFaithful, PTL

-----------------------------------------------------------------------------
(***************************************************************************)
(* The instrument master (InstrumentStore)                                 *)
(***************************************************************************)

TableRows == [base : Bases, form : Forms \ {"NS"}]
Parsed == [base : Bases, form : {"EQ", "FUT"}]
Asks == [base : Bases, form : {"bare", "EQ", "NS"}]
Answers == [base : Bases \cup {None},
            by : {"none", "row", "builtin", "search", "fallback", "missing"}]

StoreTypes ==
  /\ tables \in [Tables -> SUBSET TableRows]
  /\ eqFile \in {None} \cup SUBSET Bases /\ foFile \in {None, Lots}
  /\ stamp \in {"none", "fresh", "old"}
  /\ at \in [Users -> Places]
  /\ back \in [Users -> {"load equity", "open equity", "open futures"}] /\ up \in [Users -> BOOLEAN]
  /\ hand \in [Users -> SUBSET Parsed]
  /\ req \in [Users -> {NoRequest} \cup Asks]
  /\ answer \in [Users -> Answers]
  /\ starts \in 0..MaxStarts /\ writes \in 0..MaxWrites

RulesOfResolve == {"exact", "base", "base-EQ", "stripped", "builtin", "search"}

\* The request is the bare spelling of a built-in name.
BuiltinName(r) == r.form = "bare" /\ r.base \in Equities \cup Indices

\* The answer is one that get() may give to the request.
Faithful(u) ==
  /\ answer[u].base \notin {None, req[u].base} =>
       answer[u].by = "search" /\ <<req[u].base, answer[u].base>> \in PartOf
  /\ BuiltinName(req[u]) /\ up[u] => answer[u].base = req[u].base
  /\ answer[u].base = None => req[u].base \notin Fallback

\* What the place of a process says of its request.
Fits(u) ==
  /\ at[u] = "ready" => up[u]
  /\ at[u] \in {"down", "no db"} => ~up[u]
  /\ at[u] \in RulesOfResolve => up[u] /\ req[u] \in Asks
  /\ at[u] \in {"fallback", "answered"} => req[u] \in Asks
  /\ at[u] = "search" \/ (at[u] = "fallback" /\ up[u]) => ~BuiltinName(req[u])
  /\ at[u] = "answered" => Faithful(u)

StoreInv == StoreTypes /\ \A u \in Users : Fits(u)

\* The places where a process answers no request.
Loading ==
  {"count", "get equity", "write equity", "get lots", "stamp", "load equity",
   "open equity", "put equity", "load futures", "open futures", "put futures", "seed", "seed indices"}

\* A step of one user leaves what the others rely on.
LEMMA OneUser ==
  ASSUME StoreInv, NEW u \in Users, StoreTypes', Fits(u)',
         \A v \in Users \ {u} : /\ at'[v] = at[v] /\ up'[v] = up[v]
                               /\ req'[v] = req[v] /\ answer'[v] = answer[v]
  PROVE  StoreInv'
<1>1. ASSUME NEW v \in Users, v # u PROVE Fits(v)'
  <2>1. Fits(v)  BY Zenon DEF StoreInv
  <2>2. at'[v] = at[v] /\ up'[v] = up[v] /\ req'[v] = req[v] /\ answer'[v] = answer[v]  BY <1>1
  <2>. QED  BY <2>1, <2>2, Zenon DEF Fits, Faithful, BuiltinName
<1>. QED  BY <1>1, Zenon DEF StoreInv

\* A step of the constructor or of refresh() answers no request.
LEMMA LoadingStep ==
  ASSUME StoreInv, NEW u \in Users, StoreTypes', NEW a \in Loading,
         at' = [at EXCEPT ![u] = a], UNCHANGED <<up, req, answer>>
  PROVE  StoreInv'
<1>1. \A v \in Users \ {u} : at'[v] = at[v]  BY DEF StoreInv, StoreTypes
<1>2. at'[u] = a  BY DEF StoreInv, StoreTypes
<1>3. a \notin RulesOfResolve \cup {"ready", "down", "no db", "fallback", "answered", "seed equity"}
  BY DEF Loading, RulesOfResolve
<1>4. Fits(u)'  BY <1>2, <1>3 DEF Fits, RulesOfResolve
<1>5. UNCHANGED up /\ UNCHANGED req /\ UNCHANGED answer  OBVIOUS
<1>. QED  BY <1>1, <1>4, <1>5, OneUser, Zenon

\* The transaction of insert_bulk() leaves rows in the tables.
LEMMA InsertTypes ==
  ASSUME StoreTypes, NEW u, NEW t \in Tables, NEW rows \in SUBSET TableRows, InsertBulk(u, t, rows)
  PROVE  tables' \in [Tables -> SUBSET TableRows]
  BY DEF StoreTypes, InsertBulk

\* The rows of names are rows.
LEMMA RowsTyped ==
  ASSUME NEW bs \in SUBSET Bases, NEW f \in {"bare", "EQ", "FUT"}
  PROVE  /\ Rows(bs, f) \in SUBSET TableRows
         /\ f # "bare" => Rows(bs, f) \in SUBSET Parsed
  BY DEF Rows, Row, TableRows, Parsed, Forms

LEMMA ParsedRows == SUBSET Parsed \subseteq SUBSET TableRows
  BY DEF Parsed, TableRows, Forms

\* A bounded counter.
LEMMA OneMore == ASSUME NEW m \in Nat, NEW n \in 0..m, n < m PROVE n + 1 \in 0..m
  OBVIOUS

\* The steps of the loading, from Start() to what precedes PutFutures().
LEMMA LoadSteps ==
  ASSUME StoreInv, NEW u \in Users,
         \/ Start(u) \/ EnsureLoaded(u) \/ GetEquity(u) \/ WriteEquity(u) \/ GetLots(u)
         \/ WriteStamp(u) \/ LoadEquity(u) \/ OpenEquity(u) \/ PutEquity(u)
         \/ LoadFutures(u) \/ OpenFutures(u) \/ SeedEquity(u)
         \/ \E force \in BOOLEAN : RefreshStore(u, force)
  PROVE  StoreInv'
<1>a. StoreTypes  BY DEF StoreInv
<1>b. Equities \subseteq Bases /\ Lots \subseteq Bases  BY InstrumentStoreAssumption
<1>c. MaxStarts \in Nat /\ MaxWrites \in Nat  BY InstrumentStoreAssumption
<1>d. starts \in 0..MaxStarts /\ writes \in 0..MaxWrites  BY <1>a DEF StoreTypes
<1>1. CASE Start(u)
  <2>1. PICK a \in {"count", "no db"} : at' = [at EXCEPT ![u] = a]  BY <1>1 DEF Start, Go
  <2>2. starts' \in 0..MaxStarts
    <3>1. starts < MaxStarts /\ starts' = starts + 1  BY <1>1 DEF Start
    <3>. QED  BY <3>1, <1>c, <1>d, OneMore, Zenon
  <2>3. UNCHANGED <<tables, eqFile, foFile, stamp, back, up, hand, req, answer, writes>>
    BY <1>1 DEF Start, files
  <2>4. StoreTypes'  BY <1>a, <2>1, <2>2, <2>3 DEF StoreTypes, Places
  <2>5. CASE a = "count"  BY <2>1, <2>3, <2>4, <2>5, LoadingStep DEF Loading
  <2>6. CASE a = "no db"
    <3>1. at'[u] = "no db" /\ \A v \in Users \ {u} : at'[v] = at[v]
      BY <1>a, <2>1, <2>6 DEF StoreTypes
    <3>2. UNCHANGED up /\ UNCHANGED req /\ UNCHANGED answer  BY <2>3
    <3>3. at[u] = "down"  BY <1>1 DEF Start
    <3>4. ~up'[u]  BY <3>2, <3>3, Zenon DEF StoreInv, Fits
    <3>5. Fits(u)'  BY <3>1, <3>4 DEF Fits, RulesOfResolve
    <3>. QED  BY <2>4, <3>1, <3>2, <3>5, OneUser, Zenon
  <2>. QED  BY <2>5, <2>6
<1>2. CASE EnsureLoaded(u)
  <2>1. PICK a \in {"seed", "load equity", "get equity"} : at' = [at EXCEPT ![u] = a]
    BY <1>2 DEF EnsureLoaded, Go
  <2>2. UNCHANGED <<tables, eqFile, foFile, stamp, back, up, hand, req, answer, starts, writes>>
    BY <1>2 DEF EnsureLoaded, files, bounds
  <2>3. StoreTypes'  BY <1>a, <2>1, <2>2 DEF StoreTypes, Places
  <2>. QED  BY <2>1, <2>2, <2>3, LoadingStep DEF Loading
<1>3. CASE GetEquity(u)
  <2>0. UNCHANGED <<tables, foFile, stamp, back, up, req, answer, starts, writes>>
    BY <1>3 DEF GetEquity, bounds
  <2>1. CASE \E listing \in Listings : \E piece \in SUBSET listing :
               /\ eqFile' = piece
               /\ hand' = [hand EXCEPT ![u] = Rows(listing, "EQ")]
               /\ Go(u, "write equity")
    <3>0. PICK listing \in Listings : \E piece \in SUBSET listing :
               /\ eqFile' = piece
               /\ hand' = [hand EXCEPT ![u] = Rows(listing, "EQ")]
               /\ Go(u, "write equity")
      BY <2>1
    <3>1. PICK piece \in SUBSET listing :
               /\ eqFile' = piece
               /\ hand' = [hand EXCEPT ![u] = Rows(listing, "EQ")]
               /\ Go(u, "write equity")
      BY <3>0
    <3>2. listing \in SUBSET Bases  BY InstrumentStoreAssumption
    <3>3. Rows(listing, "EQ") \in SUBSET Parsed  BY <3>2, RowsTyped
    <3>4. StoreTypes'  BY <1>a, <2>0, <3>1, <3>2, <3>3 DEF StoreTypes, Places, Go
    <3>. QED  BY <2>0, <3>1, <3>4, LoadingStep DEF Loading, Go
  <2>2. CASE Go(u, "get lots") /\ UNCHANGED <<eqFile, hand>>
    <3>1. StoreTypes'  BY <1>a, <2>0, <2>2 DEF StoreTypes, Places, Go
    <3>. QED  BY <2>0, <2>2, <3>1, LoadingStep DEF Loading, Go
  <2>. QED  BY <1>3, <2>1, <2>2, Zenon DEF GetEquity
<1>4. CASE WriteEquity(u)
  <2>1. /\ at' = [at EXCEPT ![u] = "get lots"] /\ hand' = [hand EXCEPT ![u] = {}]
        /\ eqFile' = {row.base : row \in hand[u]}
        /\ UNCHANGED <<tables, foFile, stamp, back, up, req, answer, starts, writes>>
    BY <1>4 DEF WriteEquity, Go, bounds
  <2>2. eqFile' \in SUBSET Bases
    <3>1. hand[u] \subseteq Parsed  BY <1>a DEF StoreTypes
    <3>2. \A row \in hand[u] : row.base \in Bases  BY <3>1 DEF Parsed
    <3>3. eqFile' = {row.base : row \in hand[u]}  BY <2>1
    <3>. QED  BY <3>2, <3>3
  <2>3. StoreTypes'  BY <1>a, <2>1, <2>2 DEF StoreTypes, Places
  <2>. QED  BY <2>1, <2>3, LoadingStep DEF Loading
<1>5. CASE GetLots(u)
  <2>1. /\ at' = [at EXCEPT ![u] = "stamp"] /\ foFile' \in {Lots, foFile}
        /\ UNCHANGED <<tables, eqFile, stamp, back, up, hand, req, answer, starts, writes>>
    BY <1>5 DEF GetLots, Go, bounds
  <2>2. StoreTypes'  BY <1>a, <2>1 DEF StoreTypes, Places
  <2>. QED  BY <2>1, <2>2, LoadingStep DEF Loading
<1>6. CASE WriteStamp(u)
  <2>1. /\ at' = [at EXCEPT ![u] = back[u]] /\ stamp' = "fresh"
        /\ UNCHANGED <<tables, eqFile, foFile, back, up, hand, req, answer, starts, writes>>
    BY <1>6 DEF WriteStamp, Go, bounds
  <2>2. back[u] \in {"load equity", "open equity", "open futures"}  BY <1>a DEF StoreTypes
  <2>3. StoreTypes'  BY <1>a, <2>1, <2>2 DEF StoreTypes, Places
  <2>. QED  BY <2>1, <2>2, <2>3, LoadingStep DEF Loading
<1>7. CASE LoadEquity(u)
  <2>1. PICK a \in {"get equity", "open equity"} : at' = [at EXCEPT ![u] = a]
    BY <1>7 DEF LoadEquity, Go
  <2>2. /\ back' = [back EXCEPT ![u] = "open equity"]
        /\ UNCHANGED <<tables, eqFile, foFile, stamp, up, hand, req, answer, starts, writes>>
    BY <1>7 DEF LoadEquity, files, bounds
  <2>3. StoreTypes'  BY <1>a, <2>1, <2>2 DEF StoreTypes, Places
  <2>. QED  BY <2>1, <2>2, <2>3, LoadingStep DEF Loading
<1>8. CASE OpenEquity(u)
  <2>1. UNCHANGED <<tables, eqFile, foFile, stamp, back, up, req, answer, starts, writes>>
    BY <1>8 DEF OpenEquity, files, bounds
  <2>2. CASE eqFile = None
    <3>1. at' = [at EXCEPT ![u] = "load futures"] /\ UNCHANGED hand  BY <1>8, <2>2 DEF OpenEquity, Go
    <3>2. StoreTypes'  BY <1>a, <2>1, <3>1 DEF StoreTypes, Places
    <3>. QED  BY <2>1, <3>1, <3>2, LoadingStep DEF Loading
  <2>3. CASE eqFile # None
    <3>1. /\ at' = [at EXCEPT ![u] = "put equity"] /\ hand' = [hand EXCEPT ![u] = Rows(eqFile, "EQ")]
      BY <1>8, <2>3 DEF OpenEquity, Go
    <3>2. eqFile \in SUBSET Bases  BY <1>a, <2>3 DEF StoreTypes
    <3>3. Rows(eqFile, "EQ") \in SUBSET Parsed  BY <3>2, RowsTyped
    <3>4. StoreTypes'  BY <1>a, <2>1, <3>1, <3>3 DEF StoreTypes, Places
    <3>. QED  BY <2>1, <3>1, <3>4, LoadingStep DEF Loading
  <2>. QED  BY <2>2, <2>3
<1>9. CASE PutEquity(u)
  <2>1. /\ at' = [at EXCEPT ![u] = "load futures"] /\ hand' = [hand EXCEPT ![u] = {}]
        /\ InsertBulk(u, "equity", hand[u])
        /\ UNCHANGED <<eqFile, foFile, stamp, back, up, req, answer, starts, writes>>
    BY <1>9 DEF PutEquity, Go, files, bounds
  <2>2. hand[u] \in SUBSET TableRows  BY <1>a, ParsedRows DEF StoreTypes
  <2>3. tables' \in [Tables -> SUBSET TableRows]  BY <1>a, <2>1, <2>2, InsertTypes DEF Tables
  <2>4. StoreTypes'  BY <1>a, <2>1, <2>3 DEF StoreTypes, Places
  <2>. QED  BY <2>1, <2>4, LoadingStep DEF Loading
<1>10. CASE LoadFutures(u)
  <2>1. PICK a \in {"get equity", "open futures"} : at' = [at EXCEPT ![u] = a]
    BY <1>10 DEF LoadFutures, Go
  <2>2. /\ back' = [back EXCEPT ![u] = "open futures"]
        /\ UNCHANGED <<tables, eqFile, foFile, stamp, up, hand, req, answer, starts, writes>>
    BY <1>10 DEF LoadFutures, files, bounds
  <2>3. StoreTypes'  BY <1>a, <2>1, <2>2 DEF StoreTypes, Places
  <2>. QED  BY <2>1, <2>2, <2>3, LoadingStep DEF Loading
<1>11. CASE OpenFutures(u)
  <2>1. /\ at' = [at EXCEPT ![u] = "put futures"]
        /\ UNCHANGED <<tables, eqFile, foFile, stamp, back, up, req, answer, starts, writes>>
    BY <1>11 DEF OpenFutures, Go, files, bounds
  <2>2. PICK h \in SUBSET Parsed : hand' = [hand EXCEPT ![u] = h]
    <3>1. CASE foFile = None  BY <1>11, <3>1 DEF OpenFutures
    <3>2. CASE foFile # None
      <4>1. foFile \in SUBSET Bases  BY <1>a, <1>b, <3>2 DEF StoreTypes
      <4>2. Rows(foFile, "FUT") \in SUBSET Parsed  BY <4>1, RowsTyped
      <4>3. hand' = [hand EXCEPT ![u] = Rows(foFile, "FUT")]  BY <1>11, <3>2 DEF OpenFutures
      <4>. QED  BY <4>2, <4>3
    <3>. QED  BY <3>1, <3>2
  <2>3. StoreTypes'  BY <1>a, <2>1, <2>2 DEF StoreTypes, Places
  <2>. QED  BY <2>1, <2>3, LoadingStep DEF Loading
<1>12. CASE SeedEquity(u)
  <2>1. /\ at' = [at EXCEPT ![u] = "seed indices"]
        /\ InsertBulk(u, "equity", Rows(Equities, "bare"))
        /\ UNCHANGED <<eqFile, foFile, stamp, back, up, hand, req, answer, starts, writes>>
    BY <1>12 DEF SeedEquity, Go, files, bounds
  <2>2. Rows(Equities, "bare") \in SUBSET TableRows  BY <1>b, RowsTyped
  <2>3. tables' \in [Tables -> SUBSET TableRows]  BY <1>a, <2>1, <2>2, InsertTypes DEF Tables
  <2>4. StoreTypes'  BY <1>a, <2>1, <2>3 DEF StoreTypes, Places
  <2>. QED  BY <2>1, <2>4, LoadingStep DEF Loading
<1>13. CASE \E force \in BOOLEAN : RefreshStore(u, force)
  <2>0. PICK force \in BOOLEAN : RefreshStore(u, force)  BY <1>13
  <2>1. PICK a \in {"get equity", "load equity"} : at' = [at EXCEPT ![u] = a]
    BY <2>0, Zenon DEF RefreshStore, Go
  <2>2. /\ back' = [back EXCEPT ![u] = "load equity"] /\ writes < MaxWrites /\ writes' = writes + 1
        /\ UNCHANGED <<tables, eqFile, foFile, stamp, up, hand, req, answer, starts>>
    BY <2>0 DEF RefreshStore, files
  <2>3. writes' \in 0..MaxWrites
    <3>1. writes < MaxWrites /\ writes' = writes + 1  BY <2>2
    <3>. QED  BY <3>1, <1>c, <1>d, OneMore, Zenon
  <2>4. StoreTypes'  BY <1>a, <2>1, <2>2, <2>3 DEF StoreTypes, Places
  <2>. QED  BY <2>1, <2>2, <2>4, LoadingStep DEF Loading
<1>. QED  BY <1>1, <1>2, <1>3, <1>4, <1>5, <1>6, <1>7, <1>8, <1>9, <1>10, <1>11, <1>12, <1>13

\* What the constructor ends with, and the writes of a registry that is up.
LEMMA ReadySteps ==
  ASSUME StoreInv, NEW u \in Users,
         \/ PutFutures(u) \/ CountAll(u) \/ SeedIndices(u)
         \/ \E b \in Bases : Register(u, "equity", Row(b, "bare")) \/ Register(u, "futures", Row(b, "FUT"))
  PROVE  StoreInv'
<1>a. StoreTypes  BY DEF StoreInv
<1>b. MaxWrites \in Nat /\ writes \in 0..MaxWrites /\ Indices \subseteq Bases
  BY <1>a, InstrumentStoreAssumption DEF StoreTypes
<1>1. CASE PutFutures(u)
  <2>1. /\ hand' = [hand EXCEPT ![u] = {}]
        /\ InsertBulk(u, "futures", hand[u])
        /\ UNCHANGED <<eqFile, foFile, stamp, back, up, req, answer, starts, writes>>
    BY <1>1 DEF PutFutures, files, bounds
  <2>2. hand[u] \in SUBSET TableRows  BY <1>a, ParsedRows DEF StoreTypes
  <2>3. tables' \in [Tables -> SUBSET TableRows]  BY <1>a, <2>1, <2>2, InsertTypes DEF Tables
  <2>4. CASE up[u]
    <3>1. at' = [at EXCEPT ![u] = "ready"]  BY <1>1, <2>4, Zenon DEF PutFutures, Go
    <3>2. StoreTypes'  BY <1>a, <2>1, <2>3, <3>1 DEF StoreTypes, Places
    <3>3. at'[u] = "ready" /\ \A v \in Users \ {u} : at'[v] = at[v]  BY <1>a, <3>1 DEF StoreTypes
    <3>4. UNCHANGED up /\ UNCHANGED req /\ UNCHANGED answer  BY <2>1
    <3>5. up'[u]  BY <2>4, <3>4, Zenon
    <3>6. Fits(u)'  BY <3>3, <3>5 DEF Fits, RulesOfResolve
    <3>. QED  BY <3>2, <3>3, <3>4, <3>6, OneUser, Zenon
  <2>5. CASE ~up[u]
    <3>1. at' = [at EXCEPT ![u] = "seed"]  BY <1>1, <2>5, Zenon DEF PutFutures, Go
    <3>2. StoreTypes'  BY <1>a, <2>1, <2>3, <3>1 DEF StoreTypes, Places
    <3>. QED  BY <2>1, <3>1, <3>2, LoadingStep DEF Loading
  <2>. QED  BY <2>4, <2>5
<1>2. CASE CountAll(u)
  <2>1. UNCHANGED <<tables, eqFile, foFile, stamp, back, hand, req, answer, starts, writes>>
    BY <1>2 DEF CountAll, files, bounds
  <2>2. CASE NothingStored
    <3>1. at' = [at EXCEPT ![u] = "seed equity"]  BY <1>2, <2>2, Zenon DEF CountAll, Go
    <3>2. up' \in [Users -> BOOLEAN] /\ \A v \in Users \ {u} : up'[v] = up[v]
      <4>1. (~NothingStored) \in BOOLEAN  BY Zenon
      <4>. QED  BY <1>2, <1>a, <4>1 DEF CountAll, StoreTypes
    <3>4. StoreTypes'  BY <1>a, <2>1, <3>1, <3>2 DEF StoreTypes, Places
    <3>5. at'[u] = "seed equity" /\ \A v \in Users \ {u} : at'[v] = at[v]  BY <1>a, <3>1 DEF StoreTypes
    <3>6. UNCHANGED tables /\ UNCHANGED req /\ UNCHANGED answer  BY <2>1
    <3>7. Fits(u)'  BY <3>5 DEF Fits, RulesOfResolve
    <3>. QED  BY <3>2, <3>4, <3>5, <3>6, <3>7, OneUser, Zenon
  <2>3. CASE ~NothingStored
    <3>1. at' = [at EXCEPT ![u] = "ready"]  BY <1>2, <2>3, Zenon DEF CountAll, Go
    <3>2. /\ up' \in [Users -> BOOLEAN] /\ \A v \in Users \ {u} : up'[v] = up[v]
          /\ up'[u] = (~NothingStored)
      <4>1. (~NothingStored) \in BOOLEAN  BY Zenon
      <4>. QED  BY <1>2, <1>a, <4>1 DEF CountAll, StoreTypes
    <3>3. up'[u]  BY <2>3, <3>2, Zenon
    <3>4. StoreTypes'  BY <1>a, <2>1, <3>1, <3>2 DEF StoreTypes, Places
    <3>5. at'[u] = "ready" /\ \A v \in Users \ {u} : at'[v] = at[v]  BY <1>a, <3>1 DEF StoreTypes
    <3>6. UNCHANGED tables /\ UNCHANGED req /\ UNCHANGED answer  BY <2>1
    <3>7. Fits(u)'  BY <3>3, <3>5 DEF Fits, RulesOfResolve
    <3>. QED  BY <3>2, <3>4, <3>5, <3>6, <3>7, OneUser, Zenon
  <2>. QED  BY <2>2, <2>3
<1>3. CASE SeedIndices(u)
  <2>1. /\ InsertBulk(u, "indices", Rows(Indices, "bare"))
        /\ at' = [at EXCEPT ![u] = "ready"] /\ up' = [up EXCEPT ![u] = TRUE]
        /\ UNCHANGED <<eqFile, foFile, stamp, back, hand, req, answer, starts, writes>>
    BY <1>3 DEF SeedIndices, Go, files, bounds
  <2>2. Rows(Indices, "bare") \in SUBSET TableRows  BY <1>b, RowsTyped
  <2>3. tables' \in [Tables -> SUBSET TableRows]  BY <1>a, <2>1, <2>2, InsertTypes DEF Tables
  <2>4. /\ up' \in [Users -> BOOLEAN] /\ \A v \in Users \ {u} : up'[v] = up[v]
        /\ up'[u] = TRUE
    BY <1>a, <2>1 DEF StoreTypes
  <2>5. StoreTypes'  BY <1>a, <2>1, <2>3, <2>4 DEF StoreTypes, Places
  <2>6. at'[u] = "ready" /\ \A v \in Users \ {u} : at'[v] = at[v]  BY <1>a, <2>1 DEF StoreTypes
  <2>7. up'[u]  BY <2>4, Zenon
  <2>8. Fits(u)'  BY <2>6, <2>7 DEF Fits, RulesOfResolve
  <2>9. UNCHANGED req /\ UNCHANGED answer  BY <2>1
  <2>. QED  BY <2>4, <2>5, <2>6, <2>8, <2>9, OneUser, Zenon
<1>4. CASE \E b \in Bases : Register(u, "equity", Row(b, "bare")) \/ Register(u, "futures", Row(b, "FUT"))
  <2>1. PICK t \in {"equity", "futures"}, row \in TableRows : Register(u, t, row)
    <3>1. \A b \in Bases : Row(b, "bare") \in TableRows /\ Row(b, "FUT") \in TableRows
      BY DEF Row, TableRows, Forms
    <3>. QED  BY <1>4, <3>1, Zenon
  <2>2. /\ at[u] = "ready" /\ writes < MaxWrites /\ writes' = writes + 1
        /\ InsertBulk(u, t, {row})
        /\ UNCHANGED <<eqFile, foFile, stamp, at, back, up, hand, req, answer, starts>>
    BY <2>1 DEF Register, files, mine
  <2>3. tables' \in [Tables -> SUBSET TableRows]  BY <1>a, <2>2, InsertTypes DEF Tables
  <2>4. writes' \in 0..MaxWrites  BY <1>b, <2>2
  <2>5. StoreTypes'  BY <1>a, <2>2, <2>3, <2>4 DEF StoreTypes
  <2>6. UNCHANGED at /\ UNCHANGED up /\ UNCHANGED req /\ UNCHANGED answer  BY <2>2
  <2>7. Fits(u)  BY Zenon DEF StoreInv
  <2>8. Fits(u)'  BY <2>6, <2>7, Zenon DEF Fits, Faithful, BuiltinName
  <2>. QED  BY <2>5, <2>6, <2>8, OneUser, Zenon
<1>. QED  BY <1>1, <1>2, <1>3, <1>4

\* A rule of resolve() either goes on to the next or answers.
LEMMA RuleStep ==
  ASSUME StoreInv, NEW u \in Users, at[u] \in RulesOfResolve,
         UNCHANGED <<tables, files, back, up, hand, req, bounds>>,
         \/ /\ UNCHANGED answer
            /\ \E a \in {"base", "base-EQ", "stripped", "builtin", "search", "fallback"} :
                 /\ at' = [at EXCEPT ![u] = a]
                 /\ a \in {"search", "fallback"} => ~BuiltinName(req[u])
         \/ \E x \in Answers :
              /\ answer' = [answer EXCEPT ![u] = x] /\ at' = [at EXCEPT ![u] = "answered"]
              /\ x.base \in Bases
              /\ x.base # req[u].base => x.by = "search" /\ <<req[u].base, x.base>> \in PartOf
              /\ BuiltinName(req[u]) => x.base = req[u].base
  PROVE  StoreInv'
<1>a. StoreTypes /\ Fits(u)  BY Zenon DEF StoreInv
<1>b. up[u] /\ req[u] \in Asks  BY <1>a, Zenon DEF Fits
<1>c. UNCHANGED <<tables, eqFile, foFile, stamp, back, up, hand, req, starts, writes>>
  BY DEF files, bounds
<1>d. UNCHANGED up /\ UNCHANGED req  BY <1>c
<1>1. CASE /\ UNCHANGED answer
           /\ \E a \in {"base", "base-EQ", "stripped", "builtin", "search", "fallback"} :
                /\ at' = [at EXCEPT ![u] = a]
                /\ a \in {"search", "fallback"} => ~BuiltinName(req[u])
  <2>1. PICK a \in {"base", "base-EQ", "stripped", "builtin", "search", "fallback"} :
                /\ at' = [at EXCEPT ![u] = a]
                /\ a \in {"search", "fallback"} => ~BuiltinName(req[u])
    BY <1>1
  <2>2. StoreTypes'  BY <1>1, <1>a, <1>c, <2>1 DEF StoreTypes, Places
  <2>3. at'[u] = a /\ \A v \in Users \ {u} : at'[v] = at[v]  BY <1>a, <2>1 DEF StoreTypes
  <2>4. up'[u] /\ req'[u] \in Asks  BY <1>b, <1>d, Zenon
  <2>5. a \in {"search", "fallback"} => ~BuiltinName(req'[u])  BY <2>1, <1>d, Zenon
  <2>6. a # "ready" /\ a # "answered" /\ a # "seed equity"  BY <2>1
  <2>7. Fits(u)'
    BY <2>3, <2>4, <2>5, <2>6 DEF Fits
  <2>. QED  BY <1>1, <1>d, <2>2, <2>3, <2>7, OneUser, Zenon
<1>2. CASE \E x \in Answers :
              /\ answer' = [answer EXCEPT ![u] = x] /\ at' = [at EXCEPT ![u] = "answered"]
              /\ x.base \in Bases
              /\ x.base # req[u].base => x.by = "search" /\ <<req[u].base, x.base>> \in PartOf
              /\ BuiltinName(req[u]) => x.base = req[u].base
  <2>1. PICK x \in Answers :
              /\ answer' = [answer EXCEPT ![u] = x] /\ at' = [at EXCEPT ![u] = "answered"]
              /\ x.base \in Bases
              /\ x.base # req[u].base => x.by = "search" /\ <<req[u].base, x.base>> \in PartOf
              /\ BuiltinName(req[u]) => x.base = req[u].base
    BY <1>2
  <2>2. StoreTypes'  BY <1>a, <1>c, <2>1 DEF StoreTypes, Places
  <2>3. /\ at'[u] = "answered" /\ answer'[u] = x
        /\ \A v \in Users \ {u} : at'[v] = at[v] /\ answer'[v] = answer[v]
    BY <1>a, <2>1 DEF StoreTypes
  <2>4. x.base # None  BY <2>1, InstrumentStoreAssumption
  <2>5. Faithful(u)'  BY <1>d, <2>1, <2>3, <2>4 DEF Faithful
  <2>6. req'[u] \in Asks  BY <1>b, <1>d, Zenon
  <2>7. Fits(u)'  BY <2>3, <2>5, <2>6 DEF Fits, RulesOfResolve
  <2>. QED  BY <1>d, <2>2, <2>3, <2>7, OneUser, Zenon
<1>. QED  BY <1>1, <1>2, Zenon

\* get_by_symbol() finds a row of the base it looks for, or the next rule follows.
LEMMA TryRowStep ==
  ASSUME StoreInv, NEW u \in Users, NEW place \in RulesOfResolve, NEW row,
         row.base = req[u].base, NEW next \in {"base", "base-EQ", "stripped", "builtin"},
         TryRow(u, place, row, next)
  PROVE  StoreInv'
<1>1. at[u] \in RulesOfResolve  BY DEF TryRow
<1>2. UNCHANGED <<tables, files, back, up, hand, req, bounds>>  BY DEF TryRow
<1>3. CASE row \in AllRows
  <2>1. /\ answer' = [answer EXCEPT ![u] = [base |-> row.base, by |-> "row"]]
        /\ at' = [at EXCEPT ![u] = "answered"]
    BY <1>3 DEF TryRow, Go
  <2>2. req[u].base \in Bases  BY <1>1, Zenon DEF StoreInv, Fits, Asks
  <2>3. [base |-> row.base, by |-> "row"] \in Answers  BY <2>2 DEF Answers
  <2>. QED  BY <1>1, <1>2, <2>1, <2>2, <2>3, RuleStep
<1>4. CASE row \notin AllRows
  <2>1. at' = [at EXCEPT ![u] = next] /\ UNCHANGED answer  BY <1>4 DEF TryRow, Go
  <2>. QED  BY <1>1, <1>2, <2>1, RuleStep
<1>. QED  BY <1>3, <1>4

\* The search finds what contains the request.
LEMMA MatchesLike ==
  ASSUME NEW r, NEW b \in Matches(r)
  PROVE  b = r.base \/ <<r.base, b>> \in PartOf
<1>. DEFINE like(c) == c = r.base \/ <<r.base, c>> \in PartOf
            found(t) == {row \in tables[t] : like(row.base) /\ r.form \in {"bare", row.form}}
            first == CHOOSE t \in Tables :
                       /\ found(t) # {}
                       /\ \A s \in Tables : found(s) # {} => SearchRank[t] <= SearchRank[s]
<1>1. b \in {row.base : row \in found(first)} \/ b \in {c \in Equities \cup Indices : like(c)}
  <2>1. Matches(r) = IF r.form = "NS" THEN {}
                     ELSE IF \E t \in Tables : found(t) # {} THEN {row.base : row \in found(first)}
                     ELSE IF r.form = "bare" THEN {c \in Equities \cup Indices : like(c)} ELSE {}
    BY Zenon DEF Matches
  <2>. HIDE DEF like, found, first
  <2>. QED  BY <2>1
<1>2. \A t : \A row \in found(t) : like(row.base)  BY Zenon
<1>. HIDE DEF found, first
<1>3. like(b)
  <2>. HIDE DEF like
  <2>. QED  BY <1>1, <1>2
<1>. QED  BY <1>3

\* The rules of resolve(), one by one.
LEMMA RulesSteps ==
  ASSUME StoreInv, NEW u \in Users,
         \/ Exact(u) \/ Base(u) \/ BaseEQ(u) \/ Stripped(u) \/ Builtin(u) \/ SearchRows(u)
  PROVE  StoreInv'
<1>a. Fits(u)  BY Zenon DEF StoreInv
<1>r. \A f : Row(req[u].base, f).base = req[u].base  BY DEF Row
<1>1. CASE Exact(u)
  <2>. DEFINE next == CASE req[u].form = "NS" -> "base"
                        [] req[u].form = "EQ" -> "stripped"
                        [] OTHER -> "builtin"
  <2>1. next \in {"base", "base-EQ", "stripped", "builtin"}  OBVIOUS
  <2>2. TryRow(u, "exact", req[u], next)  BY <1>1, Zenon DEF Exact
  <2>. HIDE DEF next
  <2>. QED  BY <2>1, <2>2, TryRowStep DEF RulesOfResolve
<1>2. CASE Base(u)
  <2>1. TryRow(u, "base", Row(req[u].base, "bare"), "base-EQ")  BY <1>2 DEF Base
  <2>. QED  BY <2>1, <1>r, TryRowStep DEF RulesOfResolve
<1>3. CASE BaseEQ(u)
  <2>1. TryRow(u, "base-EQ", Row(req[u].base, "EQ"), "builtin")  BY <1>3 DEF BaseEQ
  <2>. QED  BY <2>1, <1>r, TryRowStep DEF RulesOfResolve
<1>4. CASE Stripped(u)
  <2>1. TryRow(u, "stripped", Row(req[u].base, "bare"), "builtin")  BY <1>4 DEF Stripped
  <2>. QED  BY <2>1, <1>r, TryRowStep DEF RulesOfResolve
<1>5. CASE Builtin(u)
  <2>1. at[u] = "builtin" /\ UNCHANGED <<tables, files, back, up, hand, req, bounds>>
    BY <1>5 DEF Builtin
  <2>2. at[u] \in RulesOfResolve  BY <2>1 DEF RulesOfResolve
  <2>3. req[u].base \in Bases  BY <2>2, <1>a, Zenon DEF Fits, Asks
  <2>4. CASE BuiltinName(req[u])
    <3>1. /\ answer' = [answer EXCEPT ![u] = [base |-> req[u].base, by |-> "builtin"]]
          /\ at' = [at EXCEPT ![u] = "answered"]
      BY <1>5, <2>4 DEF Builtin, BuiltinName, Go
    <3>2. [base |-> req[u].base, by |-> "builtin"] \in Answers  BY <2>3 DEF Answers
    <3>. QED  BY <2>1, <2>2, <2>3, <3>1, <3>2, RuleStep
  <2>5. CASE ~BuiltinName(req[u])
    <3>1. at' = [at EXCEPT ![u] = "search"] /\ UNCHANGED answer
      BY <1>5, <2>5 DEF Builtin, BuiltinName, Go
    <3>. QED  BY <2>1, <2>2, <2>5, <3>1, RuleStep
  <2>. QED  BY <2>4, <2>5
<1>6. CASE SearchRows(u)
  <2>1. at[u] = "search" /\ UNCHANGED <<tables, files, back, up, hand, req, bounds>>
    BY <1>6 DEF SearchRows
  <2>2. at[u] \in RulesOfResolve /\ ~BuiltinName(req[u])  BY <2>1, <1>a DEF RulesOfResolve, Fits
  <2>3. req[u].base \in Bases  BY <2>2, <1>a, Zenon DEF Fits, Asks
  <2>4. CASE Matches(req[u]) = {}
    <3>1. at' = [at EXCEPT ![u] = "fallback"] /\ UNCHANGED answer
      BY <1>6, <2>4 DEF SearchRows, Go
    <3>. QED  BY <2>1, <2>2, <3>1, RuleStep
  <2>5. CASE Matches(req[u]) # {}
    <3>1. PICK b \in Matches(req[u]) :
            answer' = [answer EXCEPT ![u] = [base |-> b, by |-> "search"]]
      BY <1>6, <2>5, Zenon DEF SearchRows
    <3>2. at' = [at EXCEPT ![u] = "answered"]  BY <1>6, <2>5, Zenon DEF SearchRows, Go
    <3>3. b = req[u].base \/ <<req[u].base, b>> \in PartOf  BY MatchesLike
    <3>4. b \in Bases  BY <3>3, <2>3, InstrumentStoreAssumption
    <3>5. [base |-> b, by |-> "search"] \in Answers  BY <3>4 DEF Answers
    <3>. QED  BY <2>1, <2>2, <3>1, <3>2, <3>3, <3>4, <3>5, RuleStep
  <2>. QED  BY <2>4, <2>5
<1>. QED  BY <1>1, <1>2, <1>3, <1>4, <1>5, <1>6

\* The steps around the rules.
LEMMA RequestSteps ==
  ASSUME StoreInv, NEW u \in Users,
         \/ \E b \in Bases, f \in {"bare", "EQ", "NS"} : Get(u, b, f)
         \/ FallbackGet(u) \/ GetReturns(u) \/ Crash(u)
  PROVE  StoreInv'
<1>a. StoreTypes /\ Fits(u)  BY Zenon DEF StoreInv
<1>1. CASE \E b \in Bases, f \in {"bare", "EQ", "NS"} : Get(u, b, f)
  <2>1. PICK b \in Bases, f \in {"bare", "EQ", "NS"} : Get(u, b, f)  BY <1>1
  <2>2. /\ req' = [req EXCEPT ![u] = Row(b, f)] /\ answer' = [answer EXCEPT ![u] = NoAnswer]
        /\ at[u] \in {"ready", "no db"}
        /\ at' = [at EXCEPT ![u] = IF at[u] = "ready" THEN "exact" ELSE "fallback"]
        /\ UNCHANGED <<tables, eqFile, foFile, stamp, back, up, hand, starts, writes>>
    BY <2>1 DEF Get, Go, files, bounds
  <2>3. Row(b, f) \in Asks /\ NoAnswer \in Answers  BY DEF Row, Asks, NoAnswer, Answers
  <2>4. StoreTypes'  BY <1>a, <2>2, <2>3 DEF StoreTypes, Places
  <2>5. /\ req'[u] \in Asks /\ at'[u] = IF at[u] = "ready" THEN "exact" ELSE "fallback"
        /\ \A v \in Users \ {u} : at'[v] = at[v] /\ req'[v] = req[v] /\ answer'[v] = answer[v]
    BY <1>a, <2>2, <2>3 DEF StoreTypes
  <2>6. UNCHANGED up  BY <2>2
  <2>7. Fits(u)'
    <3>1. CASE at[u] = "ready"
      <4>1. at'[u] = "exact" /\ req'[u] \in Asks  BY <2>5, <3>1
      <4>2. up'[u]  BY <1>a, <2>6, <3>1, Zenon DEF Fits
      <4>. QED  BY <4>1, <4>2 DEF Fits, RulesOfResolve
    <3>2. CASE at[u] = "no db"
      <4>1. at'[u] = "fallback" /\ req'[u] \in Asks  BY <2>5, <3>2
      <4>2. ~up'[u]  BY <1>a, <2>6, <3>2, Zenon DEF Fits
      <4>. QED  BY <4>1, <4>2 DEF Fits, RulesOfResolve
    <3>. QED  BY <2>2, <3>1, <3>2
  <2>. QED  BY <2>4, <2>5, <2>6, <2>7, OneUser, Zenon
<1>2. CASE FallbackGet(u)
  <2>1. at[u] = "fallback"  BY <1>2 DEF FallbackGet
  <2>2. req[u] \in Asks /\ (up[u] => ~BuiltinName(req[u]))  BY <2>1, <1>a, Zenon DEF Fits
  <2>. DEFINE x == IF req[u].base \in Fallback THEN [base |-> req[u].base, by |-> "fallback"]
                   ELSE [base |-> None, by |-> "missing"]
  <2>3. x \in Answers /\ x.base \in {None, req[u].base} /\ (x.base = None => req[u].base \notin Fallback)
    BY <2>2, InstrumentStoreAssumption DEF Answers, Asks
  <2>4. /\ answer' = [answer EXCEPT ![u] = x] /\ at' = [at EXCEPT ![u] = "answered"]
    BY <1>2 DEF FallbackGet, Go
  <2>5. UNCHANGED <<tables, eqFile, foFile, stamp, back, up, hand, req, starts, writes>>
    BY <1>2 DEF FallbackGet, files, bounds
  <2>. HIDE DEF x
  <2>6. StoreTypes'  BY <1>a, <2>3, <2>4, <2>5 DEF StoreTypes, Places
  <2>7. /\ at'[u] = "answered" /\ answer'[u] = x
        /\ \A v \in Users \ {u} : at'[v] = at[v] /\ answer'[v] = answer[v]
    BY <1>a, <2>3, <2>4 DEF StoreTypes
  <2>8. UNCHANGED up /\ UNCHANGED req  BY <2>5
  <2>9. req'[u] \in Asks /\ (up'[u] => ~BuiltinName(req'[u]))  BY <2>2, <2>8, Zenon
  <2>10. Faithful(u)'  BY <2>3, <2>7, <2>8, <2>9 DEF Faithful
  <2>11. Fits(u)'  BY <2>7, <2>9, <2>10 DEF Fits, RulesOfResolve
  <2>. QED  BY <2>6, <2>7, <2>8, <2>11, OneUser, Zenon
<1>3. CASE GetReturns(u)
  <2>1. /\ req' = [req EXCEPT ![u] = NoRequest] /\ answer' = [answer EXCEPT ![u] = NoAnswer]
        /\ UNCHANGED <<tables, eqFile, foFile, stamp, back, up, hand, starts, writes>>
    BY <1>3 DEF GetReturns, files, bounds
  <2>2. NoAnswer \in Answers  BY DEF NoAnswer, Answers
  <2>3. at' = [at EXCEPT ![u] = IF up[u] THEN "ready" ELSE "no db"]  BY <1>3 DEF GetReturns, Go
  <2>4. UNCHANGED up  BY <2>1
  <2>5. \A v \in Users \ {u} : at'[v] = at[v] /\ req'[v] = req[v] /\ answer'[v] = answer[v]
    BY <1>a, <2>1, <2>3 DEF StoreTypes
  <2>6. CASE up[u]
    <3>1. at' = [at EXCEPT ![u] = "ready"]  BY <2>3, <2>6, Zenon
    <3>2. StoreTypes'  BY <1>a, <2>1, <2>2, <3>1 DEF StoreTypes, Places
    <3>3. at'[u] = "ready"  BY <1>a, <3>1 DEF StoreTypes
    <3>4. up'[u]  BY <2>4, <2>6, Zenon
    <3>5. Fits(u)'  BY <3>3, <3>4 DEF Fits, RulesOfResolve
    <3>. QED  BY <2>4, <2>5, <3>2, <3>5, OneUser, Zenon
  <2>7. CASE ~up[u]
    <3>1. at' = [at EXCEPT ![u] = "no db"]  BY <2>3, <2>7, Zenon
    <3>2. StoreTypes'  BY <1>a, <2>1, <2>2, <3>1 DEF StoreTypes, Places
    <3>3. at'[u] = "no db"  BY <1>a, <3>1 DEF StoreTypes
    <3>4. ~up'[u]  BY <2>4, <2>7, Zenon
    <3>5. Fits(u)'  BY <3>3, <3>4 DEF Fits, RulesOfResolve
    <3>. QED  BY <2>4, <2>5, <3>2, <3>5, OneUser, Zenon
  <2>. QED  BY <2>6, <2>7
<1>4. CASE Crash(u)
  <2>1. /\ at' = [at EXCEPT ![u] = "down"] /\ up' = [up EXCEPT ![u] = FALSE]
        /\ back' = [back EXCEPT ![u] = "load equity"] /\ hand' = [hand EXCEPT ![u] = {}]
        /\ req' = [req EXCEPT ![u] = NoRequest] /\ answer' = [answer EXCEPT ![u] = NoAnswer]
        /\ UNCHANGED <<tables, eqFile, foFile, stamp, starts, writes>>
    BY <1>4 DEF Crash, Go, files, bounds
  <2>2. NoAnswer \in Answers  BY DEF NoAnswer, Answers
  <2>3. StoreTypes'  BY <1>a, <2>1, <2>2 DEF StoreTypes, Places
  <2>4. /\ at'[u] = "down"
        /\ \A v \in Users \ {u} : /\ at'[v] = at[v] /\ up'[v] = up[v]
                                 /\ req'[v] = req[v] /\ answer'[v] = answer[v]
    BY <1>a, <2>1 DEF StoreTypes
  <2>5. ~up'[u]
    <3>1. up'[u] = FALSE  BY <1>a, <2>1 DEF StoreTypes
    <3>. QED  BY <3>1, Zenon
  <2>6. Fits(u)'  BY <2>4, <2>5 DEF Fits, RulesOfResolve
  <2>. QED  BY <2>3, <2>4, <2>6, OneUser, Zenon
<1>. QED  BY <1>1, <1>2, <1>3, <1>4

LEMMA InitStore == StoreInit => StoreInv
<1>. SUFFICES ASSUME StoreInit PROVE StoreInv  OBVIOUS
<1>1. NoAnswer \in Answers  BY DEF NoAnswer, Answers
<1>2. starts \in 0..MaxStarts /\ writes \in 0..MaxWrites
  <2>1. \A m \in Nat : 0 \in 0..m  OBVIOUS
  <2>. QED  BY <2>1, InstrumentStoreAssumption, Zenon DEF StoreInit
<1>3. up \in [Users -> BOOLEAN]  BY Zenon DEF StoreInit
<1>4. StoreTypes  BY <1>1, <1>2, <1>3 DEF StoreInit, StoreTypes, Tables, Places
<1>5. \A u \in Users : at[u] = "down" /\ up[u] = FALSE  BY DEF StoreInit
<1>6. \A u \in Users : ~up[u]  BY <1>5, Zenon
<1>7. \A u \in Users : Fits(u)
  BY <1>5, <1>6 DEF Fits, RulesOfResolve
<1>. QED  BY <1>4, <1>7 DEF StoreInv

LEMMA NextStore == StoreInv /\ [StoreNext]_storeVars => StoreInv'
<1>. SUFFICES ASSUME StoreInv, [StoreNext]_storeVars PROVE StoreInv'  OBVIOUS
<1>1. CASE \E u \in Users :
       \/ Start(u) \/ EnsureLoaded(u)
       \/ GetEquity(u) \/ WriteEquity(u) \/ GetLots(u) \/ WriteStamp(u)
       \/ LoadEquity(u) \/ OpenEquity(u) \/ PutEquity(u)
       \/ LoadFutures(u) \/ OpenFutures(u) \/ SeedEquity(u)
       \/ \E force \in BOOLEAN : RefreshStore(u, force)
  BY <1>1, LoadSteps, Zenon
<1>2. CASE \E u \in Users :
       \/ PutFutures(u) \/ CountAll(u) \/ SeedIndices(u)
       \/ \E b \in Bases : Register(u, "equity", Row(b, "bare")) \/ Register(u, "futures", Row(b, "FUT"))
  BY <1>2, ReadySteps, Zenon
<1>3. CASE \E u \in Users :
       Exact(u) \/ Base(u) \/ BaseEQ(u) \/ Stripped(u) \/ Builtin(u) \/ SearchRows(u)
  BY <1>3, RulesSteps, Zenon
<1>4. CASE \E u \in Users :
       \/ \E b \in Bases, f \in {"bare", "EQ", "NS"} : Get(u, b, f)
       \/ FallbackGet(u) \/ GetReturns(u) \/ Crash(u)
  BY <1>4, RequestSteps, Zenon
<1>5. CASE StampAges
  <2>1. UNCHANGED <<tables, eqFile, foFile, at, back, up, hand, req, answer, starts>> /\ stamp' = "old"
    BY <1>5 DEF StampAges, mine
  <2>2. writes < MaxWrites /\ writes' = writes + 1  BY <1>5 DEF StampAges
  <2>3. writes' \in 0..MaxWrites  BY <2>2, InstrumentStoreAssumption, OneMore DEF StoreInv, StoreTypes
  <2>4. StoreTypes'  BY <2>1, <2>3, Zenon DEF StoreInv, StoreTypes
  <2>. QED  BY <2>1, <2>4, Zenon DEF StoreInv, Fits, Faithful, BuiltinName
<1>6. CASE UNCHANGED storeVars
  <2>1. UNCHANGED <<tables, eqFile, foFile, stamp, at, back, up, hand, req, answer, starts, writes>>
    BY <1>6 DEF storeVars, files, mine, bounds
  <2>2. StoreTypes'  BY <2>1, Zenon DEF StoreInv, StoreTypes
  <2>. QED  BY <2>1, <2>2, Zenon DEF StoreInv, Fits, Faithful, BuiltinName
<1>. QED  BY <1>1, <1>2, <1>3, <1>4, <1>5, <1>6, Zenon DEF StoreNext

\* An answered request is answered by what get() may give it.
LEMMA StoreInvFaithful == StoreInv => ResolveFaithful
  BY Zenon DEF StoreInv, Fits, Faithful, BuiltinName, ResolveFaithful

\* get() answers with the name it was asked for (resolve(), registry.get()).
THEOREM ResolveFaithfulHolds == StoreSpec => []ResolveFaithful
<1>1. StoreSpec => []StoreInv  BY InitStore, NextStore, PTL DEF StoreSpec
<1>. QED  BY <1>1, StoreInvFaithful, PTL

\* What the histories say of the places where the equity table is written.
SeedsEmpty(u) == at[u] = "seed equity" /\ ~crossed[u] => tables["equity"] = {}
ReadsWhole(u) == at[u] = "put equity" /\ ~short[u] => Big(hand[u])

HistInv ==
  /\ crossed \in [Users -> BOOLEAN] /\ short \in [Users -> BOOLEAN]
  /\ \A u \in Users : SeedsEmpty(u) /\ ReadsWhole(u)

\* A step of one user that does not go to one of those places, and that tells the
\* others if it writes a table.
LEMMA HistStep ==
  ASSUME HistInv, NEW u \in Users,
         crossed' \in [Users -> BOOLEAN], short' \in [Users -> BOOLEAN],
         at'[u] \notin {"seed equity", "put equity"},
         \A v \in Users \ {u} : at'[v] = at[v] /\ hand'[v] = hand[v] /\ short'[v] = short[v],
         \/ tables' = tables /\ crossed' = crossed
         \/ \A v \in Users \ {u} : at[v] = "seed equity" => crossed'[v]
  PROVE  HistInv'
<1>1. SeedsEmpty(u)' /\ ReadsWhole(u)'  BY DEF SeedsEmpty, ReadsWhole
<1>2. ASSUME NEW v \in Users, v # u PROVE SeedsEmpty(v)' /\ ReadsWhole(v)'
  <2>1. at'[v] = at[v] /\ hand'[v] = hand[v] /\ short'[v] = short[v]  BY <1>2
  <2>2. SeedsEmpty(v) /\ ReadsWhole(v)  BY Zenon DEF HistInv
  <2>3. ReadsWhole(v)'  BY <2>1, <2>2, Zenon DEF ReadsWhole, Big
  <2>4. CASE tables' = tables /\ crossed' = crossed
    <3>1. SeedsEmpty(v)'  BY <2>1, <2>2, <2>4, Zenon DEF SeedsEmpty
    <3>. QED  BY <2>3, <3>1
  <2>5. CASE at[v] = "seed equity" => crossed'[v]
    <3>1. SeedsEmpty(v)'  BY <2>1, <2>5, Zenon DEF SeedsEmpty
    <3>. QED  BY <2>3, <3>1
  <2>. QED  BY <1>2, <2>4, <2>5
<1>. QED  BY <1>1, <1>2, Zenon DEF HistInv

\* The steps that write no table and read no file into one's hand.
QuietPlaces == Places \ {"seed equity", "put equity"}

LEMMA QuietStep ==
  ASSUME StoreTypes, HistInv, NEW u \in Users, NEW a \in QuietPlaces, Go(u, a),
         tables' = tables, crossed' = crossed, short' = short,
         \A v \in Users \ {u} : hand'[v] = hand[v]
  PROVE  HistInv'
<1>1. at'[u] = a /\ \A v \in Users \ {u} : at'[v] = at[v]  BY DEF StoreTypes, Go
<1>2. crossed' \in [Users -> BOOLEAN] /\ short' \in [Users -> BOOLEAN]  BY DEF HistInv
<1>3. at'[u] \notin {"seed equity", "put equity"}  BY <1>1 DEF QuietPlaces
<1>. QED  BY <1>1, <1>2, <1>3, HistStep

\* The steps that write a table: insert_bulk() tells the others.
LEMMA BulkStep ==
  ASSUME HistInv, NEW u \in Users, NEW t, NEW rows, InsertBulk(u, t, rows),
         short' \in [Users -> BOOLEAN], at'[u] \notin {"seed equity", "put equity"},
         \A v \in Users \ {u} : at'[v] = at[v] /\ hand'[v] = hand[v] /\ short'[v] = short[v]
  PROVE  HistInv'
<1>1. CASE UNCHANGED <<tables, crossed>>
  <2>1. crossed' \in [Users -> BOOLEAN]  BY <1>1 DEF HistInv
  <2>2. tables' = tables /\ crossed' = crossed  BY <1>1
  <2>. QED  BY <2>1, <2>2, HistStep
<1>2. CASE crossed' = [v \in Users |-> v # u /\ at[v] = "seed equity"]
  <2>1. crossed' \in [Users -> BOOLEAN]
    <3>1. \A v : (v # u /\ at[v] = "seed equity") \in BOOLEAN  BY Zenon
    <3>. QED  BY <1>2, <3>1
  <2>2. \A v \in Users \ {u} : at[v] = "seed equity" => crossed'[v]  BY <1>2
  <2>. QED  BY <2>1, <2>2, HistStep
<1>. QED  BY <1>1, <1>2, Zenon DEF InsertBulk

LEMMA InitHist == StoreInit => HistInv
  BY DEF StoreInit, HistInv, SeedsEmpty, ReadsWhole

LEMMA NextHist == StoreInv /\ HistInv /\ [StoreNext]_storeVars => HistInv'
<1>. SUFFICES ASSUME StoreInv, HistInv, [StoreNext]_storeVars PROVE HistInv'  OBVIOUS
<1>a. StoreTypes  BY DEF StoreInv
<1>1. ASSUME NEW u \in Users, CountAll(u) PROVE HistInv'
  <2>1. /\ UNCHANGED <<tables, short, hand>> /\ crossed' = [crossed EXCEPT ![u] = FALSE]
        /\ Go(u, IF NothingStored THEN "seed equity" ELSE "ready")
    BY <1>1 DEF CountAll
  <2>2. CASE NothingStored
    <3>1. tables["equity"] = {}  BY <2>2 DEF NothingStored, AllRows, Tables
    <3>2. at' = [at EXCEPT ![u] = "seed equity"]  BY <2>1, <2>2, Zenon DEF Go
    <3>3. at'[u] = "seed equity" /\ \A v \in Users \ {u} : at'[v] = at[v] /\ crossed'[v] = crossed[v]
      BY <1>a, <2>1, <3>2 DEF StoreTypes, HistInv
    <3>4. crossed' \in [Users -> BOOLEAN] /\ short' \in [Users -> BOOLEAN]  BY <2>1 DEF HistInv
    <3>5. \A v \in Users : SeedsEmpty(v)'  BY <2>1, <3>1 DEF SeedsEmpty
    <3>6. ReadsWhole(u)'  BY <3>3 DEF ReadsWhole
    <3>7. hand' = hand /\ short' = short  BY <2>1
    <3>8. \A v \in Users \ {u} : ReadsWhole(v)'  BY <3>3, <3>7, Zenon DEF HistInv, ReadsWhole, Big
    <3>9. \A v \in Users : ReadsWhole(v)'  BY <3>6, <3>8, Zenon
    <3>. QED  BY <3>4, <3>5, <3>9, Zenon DEF HistInv
  <2>3. CASE ~NothingStored
    <3>1. at' = [at EXCEPT ![u] = "ready"]  BY <2>1, <2>3, Zenon DEF Go
    <3>3. at'[u] = "ready" /\ \A v \in Users \ {u} : at'[v] = at[v] /\ crossed'[v] = crossed[v]
      BY <1>a, <2>1, <3>1 DEF StoreTypes, HistInv
    <3>4. crossed' \in [Users -> BOOLEAN] /\ short' \in [Users -> BOOLEAN]  BY <2>1 DEF HistInv
    <3>5. hand' = hand /\ short' = short /\ tables' = tables  BY <2>1
    <3>6. SeedsEmpty(u)' /\ ReadsWhole(u)'  BY <3>3 DEF SeedsEmpty, ReadsWhole
    <3>7. \A v \in Users \ {u} : ReadsWhole(v)' /\ SeedsEmpty(v)'
      BY <3>3, <3>5, Zenon DEF HistInv, ReadsWhole, SeedsEmpty, Big
    <3>8. \A v \in Users : ReadsWhole(v)' /\ SeedsEmpty(v)'  BY <3>6, <3>7, Zenon
    <3>. QED  BY <3>4, <3>8, Zenon DEF HistInv
  <2>. QED  BY <2>2, <2>3
<1>2. ASSUME NEW u \in Users, OpenEquity(u) PROVE HistInv'
  <2>1. CASE eqFile = None
    <3>1. Go(u, "load futures") /\ UNCHANGED <<hand, short>> /\ UNCHANGED <<tables, crossed>>
      BY <1>2, <2>1 DEF OpenEquity
    <3>2. "load futures" \in QuietPlaces  BY DEF QuietPlaces, Places
    <3>. QED  BY <1>a, <3>1, <3>2, QuietStep
  <2>2. CASE eqFile # None
    <3>1. /\ hand' = [hand EXCEPT ![u] = Rows(eqFile, "EQ")] /\ short' = [short EXCEPT ![u] = ~WholeListing(eqFile)]
          /\ at' = [at EXCEPT ![u] = "put equity"] /\ tables' = tables /\ crossed' = crossed
      BY <1>2, <2>2 DEF OpenEquity, Go
    <3>2. short' \in [Users -> BOOLEAN]
      <4>1. (~WholeListing(eqFile)) \in BOOLEAN  BY Zenon
      <4>. QED  BY <3>1, <4>1 DEF HistInv
    <3>3. at'[u] = "put equity" /\ hand'[u] = Rows(eqFile, "EQ")  BY <1>a, <3>1 DEF StoreTypes
    <3>4. \A v \in Users \ {u} : at'[v] = at[v] /\ hand'[v] = hand[v] /\ short'[v] = short[v]
      BY <1>a, <3>1 DEF StoreTypes, HistInv
    <3>5. SeedsEmpty(u)'  BY <3>3 DEF SeedsEmpty
    <3>6. ReadsWhole(u)'
      <4>1. short'[u] = ~WholeListing(eqFile)  BY <3>1 DEF HistInv
      <4>2. ~short'[u] => Big(Rows(eqFile, "EQ"))  BY <4>1, Zenon DEF WholeListing
      <4>. QED  BY <3>3, <4>2, Zenon DEF ReadsWhole, Big
    <3>7. ASSUME NEW v \in Users, v # u PROVE SeedsEmpty(v)' /\ ReadsWhole(v)'
      <4>1. at'[v] = at[v] /\ hand'[v] = hand[v] /\ short'[v] = short[v]  BY <3>4, <3>7
      <4>. QED  BY <4>1, <3>1, Zenon DEF HistInv, SeedsEmpty, ReadsWhole, Big
    <3>8. crossed' \in [Users -> BOOLEAN]  BY <3>1 DEF HistInv
    <3>. QED  BY <3>2, <3>5, <3>6, <3>7, <3>8, Zenon DEF HistInv
  <2>. QED  BY <2>1, <2>2
<1>3. ASSUME NEW u \in Users, PutEquity(u) PROVE HistInv'
  <2>1. /\ InsertBulk(u, "equity", hand[u])
        /\ at' = [at EXCEPT ![u] = "load futures"] /\ hand' = [hand EXCEPT ![u] = {}]
        /\ short' = [short EXCEPT ![u] = FALSE]
    BY <1>3 DEF PutEquity, Go
  <2>2. /\ at'[u] = "load futures" /\ short' \in [Users -> BOOLEAN]
        /\ \A v \in Users \ {u} : at'[v] = at[v] /\ hand'[v] = hand[v] /\ short'[v] = short[v]
    BY <1>a, <2>1 DEF StoreTypes, HistInv
  <2>. QED  BY <2>1, <2>2, BulkStep
<1>4. ASSUME NEW u \in Users, PutFutures(u) PROVE HistInv'
  <2>1. /\ InsertBulk(u, "futures", hand[u])
        /\ at' = [at EXCEPT ![u] = IF up[u] THEN "ready" ELSE "seed"] /\ hand' = [hand EXCEPT ![u] = {}]
        /\ short' = short
    BY <1>4 DEF PutFutures, Go
  <2>2. /\ at'[u] \in {"ready", "seed"} /\ short' \in [Users -> BOOLEAN]
        /\ \A v \in Users \ {u} : at'[v] = at[v] /\ hand'[v] = hand[v] /\ short'[v] = short[v]
    BY <1>a, <2>1 DEF StoreTypes, HistInv
  <2>3. at'[u] \notin {"seed equity", "put equity"}  BY <2>2
  <2>. QED  BY <2>1, <2>2, <2>3, BulkStep
<1>5. ASSUME NEW u \in Users, SeedEquity(u) \/ SeedIndices(u) PROVE HistInv'
  <2>1. /\ \E t, rows : InsertBulk(u, t, rows)
        /\ \E a \in {"ready", "seed indices"} : at' = [at EXCEPT ![u] = a]
        /\ hand' = hand /\ short' = short
    BY <1>5 DEF SeedEquity, SeedIndices, Go
  <2>2. /\ at'[u] \in {"ready", "seed indices"} /\ short' \in [Users -> BOOLEAN]
        /\ \A v \in Users \ {u} : at'[v] = at[v] /\ hand'[v] = hand[v] /\ short'[v] = short[v]
    BY <1>a, <2>1 DEF StoreTypes, HistInv
  <2>3. at'[u] \notin {"seed equity", "put equity"}  BY <2>2
  <2>. QED  BY <2>1, <2>2, <2>3, BulkStep
<1>6. ASSUME NEW u \in Users, NEW t, NEW row, Register(u, t, row) PROVE HistInv'
  <2>1. /\ InsertBulk(u, t, {row}) /\ at[u] = "ready"
        /\ at' = at /\ hand' = hand /\ short' = short
    BY <1>6 DEF Register, mine
  <2>2. short' \in [Users -> BOOLEAN] /\ at'[u] \notin {"seed equity", "put equity"}
    BY <2>1 DEF HistInv
  <2>3. \A v \in Users \ {u} : at'[v] = at[v] /\ hand'[v] = hand[v] /\ short'[v] = short[v]  BY <2>1
  <2>. QED  BY <2>1, <2>2, <2>3, BulkStep
<1>7. ASSUME NEW u \in Users, NEW a \in QuietPlaces, Go(u, a), UNCHANGED <<tables, history>>,
             \A v \in Users \ {u} : hand'[v] = hand[v]
      PROVE  HistInv'
  <2>1. tables' = tables /\ crossed' = crossed /\ short' = short  BY <1>7 DEF history
  <2>. QED  BY <1>a, <1>7, <2>1, QuietStep
<1>8. ASSUME NEW u \in Users,
             \/ Start(u) \/ EnsureLoaded(u) \/ GetLots(u) \/ WriteStamp(u) \/ LoadEquity(u)
             \/ LoadFutures(u) \/ \E force \in BOOLEAN : RefreshStore(u, force)
      PROVE  HistInv'
  <2>1. UNCHANGED <<tables, history>> /\ hand' = hand
    BY <1>8 DEF Start, EnsureLoaded, GetLots, WriteStamp, LoadEquity, LoadFutures, RefreshStore
  <2>2. back[u] \in QuietPlaces  BY <1>a DEF StoreTypes, QuietPlaces, Places
  <2>3. {"count", "no db", "seed", "load equity", "get equity", "stamp", "open equity", "open futures"}
          \subseteq QuietPlaces
    BY DEF QuietPlaces, Places
  <2>4. CASE Start(u) \/ EnsureLoaded(u) \/ GetLots(u)
    <3>1. \E a \in QuietPlaces : Go(u, a)  BY <2>3, <2>4 DEF Start, EnsureLoaded, GetLots
    <3>. QED  BY <1>7, <2>1, <3>1
  <2>5. CASE WriteStamp(u) \/ LoadEquity(u) \/ LoadFutures(u)
    <3>1. \E a \in QuietPlaces : Go(u, a)  BY <2>2, <2>3, <2>5 DEF WriteStamp, LoadEquity, LoadFutures
    <3>. QED  BY <1>7, <2>1, <3>1
  <2>6. CASE \E force \in BOOLEAN : RefreshStore(u, force)
    <3>0. PICK force \in BOOLEAN : RefreshStore(u, force)  BY <2>6
    <3>1. Go(u, "get equity") \/ Go(u, "load equity")  BY <3>0, Zenon DEF RefreshStore
    <3>2. \E a \in QuietPlaces : Go(u, a)  BY <2>3, <3>1
    <3>. QED  BY <1>7, <2>1, <3>2
  <2>. QED  BY <1>8, <2>4, <2>5, <2>6
<1>9. ASSUME NEW u \in Users, GetEquity(u) \/ WriteEquity(u) \/ OpenFutures(u) PROVE HistInv'
  <2>1. UNCHANGED <<tables, history>>  BY <1>9 DEF GetEquity, WriteEquity, OpenFutures
  <2>2. {"write equity", "get lots", "put futures"} \subseteq QuietPlaces  BY DEF QuietPlaces, Places
  <2>3. \E a \in QuietPlaces : Go(u, a)
    BY <1>9, <2>2, Zenon DEF GetEquity, WriteEquity, OpenFutures
  <2>4. hand' = hand \/ \E h : hand' = [hand EXCEPT ![u] = h]
    BY <1>9, Zenon DEF GetEquity, WriteEquity, OpenFutures
  <2>5. \A v \in Users \ {u} : hand'[v] = hand[v]  BY <1>a, <2>4 DEF StoreTypes
  <2>. QED  BY <1>7, <2>1, <2>3, <2>5
<1>10. ASSUME NEW u \in Users,
              \/ Exact(u) \/ Base(u) \/ BaseEQ(u) \/ Stripped(u) \/ Builtin(u) \/ SearchRows(u)
       PROVE  HistInv'
  <2>1. UNCHANGED <<tables, history>> /\ hand' = hand
    <3>1. CASE Exact(u) \/ Base(u) \/ BaseEQ(u) \/ Stripped(u)
      BY <3>1 DEF Exact, Base, BaseEQ, Stripped, TryRow
    <3>2. CASE Builtin(u) \/ SearchRows(u)  BY <3>2 DEF Builtin, SearchRows
    <3>. QED  BY <1>10, <3>1, <3>2
  <2>2. {"answered", "base", "base-EQ", "stripped", "builtin", "search", "fallback"} \subseteq QuietPlaces
    BY DEF QuietPlaces, Places
  <2>3. CASE Exact(u)
    <3>1. PICK x \in {"base", "stripped", "builtin"} : Go(u, "answered") \/ Go(u, x)
      BY <2>3 DEF Exact, TryRow
    <3>. QED  BY <1>7, <2>1, <2>2, <3>1
  <2>4. CASE Base(u) \/ BaseEQ(u) \/ Stripped(u)
    <3>1. Go(u, "answered") \/ Go(u, "base-EQ") \/ Go(u, "builtin")
      BY <2>4, Zenon DEF Base, BaseEQ, Stripped, TryRow
    <3>. QED  BY <1>7, <2>1, <2>2, <3>1
  <2>5. CASE Builtin(u) \/ SearchRows(u)
    <3>1. Go(u, "answered") \/ Go(u, "search") \/ Go(u, "fallback")
      BY <2>5, Zenon DEF Builtin, SearchRows
    <3>. QED  BY <1>7, <2>1, <2>2, <3>1
  <2>. QED  BY <1>10, <2>3, <2>4, <2>5
<1>11. ASSUME NEW u \in Users,
              \/ \E b \in Bases, f \in {"bare", "EQ", "NS"} : Get(u, b, f)
              \/ FallbackGet(u) \/ GetReturns(u) \/ Crash(u)
       PROVE  HistInv'
  <2>1. UNCHANGED <<tables, history>>  BY <1>11 DEF Get, FallbackGet, GetReturns, Crash
  <2>2. {"exact", "fallback", "answered", "ready", "no db", "down"} \subseteq QuietPlaces
    BY DEF QuietPlaces, Places
  <2>3. \E a \in {"exact", "fallback", "answered", "ready", "no db", "down"} : Go(u, a)
    BY <1>11 DEF Get, FallbackGet, GetReturns, Crash
  <2>4. hand' = hand \/ \E h : hand' = [hand EXCEPT ![u] = h]
    BY <1>11, Zenon DEF Get, FallbackGet, GetReturns, Crash
  <2>5. \A v \in Users \ {u} : hand'[v] = hand[v]  BY <1>a, <2>4 DEF StoreTypes
  <2>. QED  BY <1>7, <2>1, <2>2, <2>3, <2>5
<1>12. CASE StampAges \/ UNCHANGED storeVars
  <2>1. UNCHANGED <<tables, at, hand, crossed, short>>
    BY <1>12 DEF StampAges, mine, history, storeVars
  <2>. QED  BY <2>1, Zenon DEF HistInv, SeedsEmpty, ReadsWhole, Big
<1>. QED  BY <1>1, <1>2, <1>3, <1>4, <1>5, <1>6, <1>8, <1>9, <1>10, <1>11, <1>12, Zenon DEF StoreNext

LEMMA StoreSafe == StoreSpec => [](StoreInv /\ HistInv)
<1>1. StoreInit => StoreInv /\ HistInv  BY InitStore, InitHist
<1>2. StoreInv /\ HistInv /\ [StoreNext]_storeVars => (StoreInv /\ HistInv)'  BY NextStore, NextHist
<1>. QED  BY <1>1, <1>2, PTL DEF StoreSpec

\* The variables keep their types.
LEMMA StoreTypeOKHolds == StoreInv /\ HistInv => StoreTypeOK
  BY Zenon DEF StoreInv, StoreTypes, Fits, StoreTypeOK, TableRows, Asks, Answers, HistInv

\* The steps that do not write the tables.
LEMMA TablesLeft ==
  ASSUME NEW u,
         \/ Start(u) \/ EnsureLoaded(u) \/ GetEquity(u) \/ WriteEquity(u) \/ GetLots(u)
         \/ WriteStamp(u) \/ LoadEquity(u) \/ OpenEquity(u) \/ LoadFutures(u) \/ OpenFutures(u)
         \/ CountAll(u) \/ \E force \in BOOLEAN : RefreshStore(u, force)
         \/ \E b \in Bases : \E f \in {"bare", "EQ", "NS"} : Get(u, b, f)
         \/ Exact(u) \/ Base(u) \/ BaseEQ(u) \/ Stripped(u) \/ Builtin(u)
         \/ SearchRows(u) \/ FallbackGet(u) \/ GetReturns(u) \/ Crash(u)
  PROVE  tables' = tables
<1>1. CASE Start(u) \/ EnsureLoaded(u) \/ GetEquity(u) \/ WriteEquity(u) \/ GetLots(u)
  BY <1>1 DEF Start, EnsureLoaded, GetEquity, WriteEquity, GetLots
<1>2. CASE WriteStamp(u) \/ LoadEquity(u) \/ OpenEquity(u) \/ LoadFutures(u) \/ OpenFutures(u)
  BY <1>2 DEF WriteStamp, LoadEquity, OpenEquity, LoadFutures, OpenFutures
<1>3. CASE CountAll(u) \/ \E force \in BOOLEAN : RefreshStore(u, force)
  BY <1>3 DEF CountAll, RefreshStore
<1>4. CASE \E b \in Bases : \E f \in {"bare", "EQ", "NS"} : Get(u, b, f)
  BY <1>4 DEF Get
<1>5. CASE Exact(u) \/ Base(u) \/ BaseEQ(u) \/ Stripped(u)
  BY <1>5, Zenon DEF Exact, Base, BaseEQ, Stripped, TryRow
<1>6. CASE Builtin(u) \/ SearchRows(u) \/ FallbackGet(u) \/ GetReturns(u) \/ Crash(u)
  BY <1>6 DEF Builtin, SearchRows, FallbackGet, GetReturns, Crash
<1>. QED  BY <1>1, <1>2, <1>3, <1>4, <1>5, <1>6

\* The master is lost by the three steps that MasterKept names, and by no other.
THEOREM MasterKeptHolds == StoreSpec => MasterKept
<1>. DEFINE Lost == Big(tables["equity"]) /\ ~Big(tables'["equity"])
            Excuse ==
              \/ \E b \in Bases : tables'["equity"] = {Row(b, "bare")} /\ writes' = writes + 1
              \/ \E u \in Users : at[u] = "put equity" /\ at'[u] # at[u] /\ short[u]
              \/ \E u \in Users : at[u] = "seed equity" /\ at'[u] # at[u] /\ crossed[u]
<1>1. StoreInv /\ HistInv /\ [StoreNext]_storeVars => [Lost => Excuse]_storeVars
  <2>. SUFFICES ASSUME StoreInv, HistInv, StoreNext, Lost PROVE Excuse  BY Zenon
  <2>a. StoreTypes  BY DEF StoreInv
  <2>0. tables'["equity"] # tables["equity"]  BY Zenon
  <2>b. tables' # tables  BY <2>0
  <2>1. PICK u \in Users :
          \/ PutEquity(u) \/ PutFutures(u) \/ SeedEquity(u) \/ SeedIndices(u)
          \/ \E b \in Bases : Register(u, "equity", Row(b, "bare")) \/ Register(u, "futures", Row(b, "FUT"))
    <3>1. CASE StampAges  BY <3>1, <2>b DEF StampAges
    <3>2. CASE ~StampAges  BY <3>2, <2>b, TablesLeft, Zenon DEF StoreNext
    <3>. QED  BY <3>1, <3>2
  <2>2. CASE PutEquity(u)
    <3>1. at[u] = "put equity" /\ InsertBulk(u, "equity", hand[u]) /\ at' = [at EXCEPT ![u] = "load futures"]
      BY <2>2 DEF PutEquity, Go
    <3>2. tables' = [tables EXCEPT !["equity"] = hand[u]]  BY <3>1, <2>b DEF InsertBulk
    <3>3. tables'["equity"] = hand[u] /\ at'[u] # at[u]  BY <3>1, <3>2, <2>a DEF StoreTypes, Tables
    <3>4. ~Big(hand[u])  BY <3>3, Zenon
    <3>5. short[u]  BY <3>1, <3>4, Zenon DEF HistInv, ReadsWhole
    <3>. QED  BY <3>1, <3>3, <3>5, Zenon
  <2>3. CASE PutFutures(u)
    <3>1. tables' = [tables EXCEPT !["futures"] = hand[u]]  BY <2>3, <2>b DEF PutFutures, InsertBulk
    <3>. QED  BY <3>1, <2>a, <2>0 DEF StoreTypes, Tables
  <2>4. CASE SeedEquity(u)
    <3>1. at[u] = "seed equity" /\ at' = [at EXCEPT ![u] = "seed indices"]  BY <2>4 DEF SeedEquity, Go
    <3>2. at'[u] # at[u]  BY <3>1, <2>a DEF StoreTypes
    <3>3. tables["equity"] # {}
      <4>1. SUFFICES ASSUME tables["equity"] = {} PROVE FALSE  OBVIOUS
      <4>2. Cardinality(tables["equity"]) = 0  BY <4>1, FS_EmptySet
      <4>. QED  BY <4>2, InstrumentStoreAssumption DEF Big
    <3>4. crossed[u]  BY <3>1, <3>3, Zenon DEF HistInv, SeedsEmpty
    <3>. QED  BY <3>1, <3>2, <3>4, Zenon
  <2>5. CASE SeedIndices(u)
    <3>1. tables' = [tables EXCEPT !["indices"] = Rows(Indices, "bare")]
      BY <2>5, <2>b DEF SeedIndices, InsertBulk
    <3>. QED  BY <3>1, <2>a, <2>0 DEF StoreTypes, Tables
  <2>6. ASSUME NEW b \in Bases, Register(u, "equity", Row(b, "bare")) PROVE Excuse
    <3>1. tables' = [tables EXCEPT !["equity"] = {Row(b, "bare")}] /\ writes' = writes + 1
      BY <2>6, <2>b DEF Register, InsertBulk
    <3>2. tables'["equity"] = {Row(b, "bare")}  BY <3>1, <2>a DEF StoreTypes, Tables
    <3>. QED  BY <3>1, <3>2, Zenon
  <2>7. ASSUME NEW b \in Bases, Register(u, "futures", Row(b, "FUT")) PROVE FALSE
    <3>1. tables' = [tables EXCEPT !["futures"] = {Row(b, "FUT")}]  BY <2>7, <2>b DEF Register, InsertBulk
    <3>. QED  BY <3>1, <2>a, <2>0 DEF StoreTypes, Tables
  <2>. QED  BY <2>1, <2>2, <2>3, <2>4, <2>5, <2>6, <2>7
<1>. QED  BY <1>1, StoreSafe, PTL DEF StoreSpec, MasterKept

-----------------------------------------------------------------------------
(***************************************************************************)
(* The parts together (MCShared)                                           *)
(***************************************************************************)

\* A step of the whole is one of each part, or leaves it.
LEMMA NextParts ==
  ASSUME [Next]_vars
  PROVE  /\ [StoreNext]_storeVars /\ [SymNext]_symVars
         /\ [SessionNext]_sessionVars /\ [ScripNext]_scripVars
         /\ [ApiNext]_apiVars /\ [PoolNext]_poolVars /\ [AuditNext]_auditVars
<1>1. CASE UNCHANGED vars
  BY <1>1 DEF vars
<1>2. CASE Next
  <2>1. CASE /\ UNCHANGED <<angelVars, serviceVars>>
             /\ (StoreNext /\ UNCHANGED symVars) \/ (SymNext /\ UNCHANGED storeVars)
    <3>1. /\ UNCHANGED sessionVars /\ UNCHANGED scripVars
          /\ UNCHANGED apiVars /\ UNCHANGED poolVars /\ UNCHANGED auditVars
      BY <2>1 DEF angelVars, serviceVars
    <3> QED
      BY <2>1, <3>1, Zenon
  <2>2. CASE /\ UNCHANGED <<namesVars, serviceVars>>
             /\ (SessionNext /\ UNCHANGED scripVars) \/ (ScripNext /\ UNCHANGED sessionVars)
    <3>1. /\ UNCHANGED storeVars /\ UNCHANGED symVars
          /\ UNCHANGED apiVars /\ UNCHANGED poolVars /\ UNCHANGED auditVars
      BY <2>2 DEF namesVars, serviceVars
    <3> QED
      BY <2>2, <3>1, Zenon
  <2>3. CASE /\ UNCHANGED <<namesVars, angelVars>>
             /\ \/ ApiNext /\ UNCHANGED <<poolVars, auditVars>>
                \/ PoolNext /\ UNCHANGED <<apiVars, auditVars>>
                \/ AuditNext /\ UNCHANGED <<apiVars, poolVars>>
    <3>1. /\ UNCHANGED storeVars /\ UNCHANGED symVars
          /\ UNCHANGED sessionVars /\ UNCHANGED scripVars
      BY <2>3 DEF namesVars, angelVars
    <3>2. \/ ApiNext /\ UNCHANGED poolVars /\ UNCHANGED auditVars
          \/ PoolNext /\ UNCHANGED apiVars /\ UNCHANGED auditVars
          \/ AuditNext /\ UNCHANGED apiVars /\ UNCHANGED poolVars
      <4>1. CASE ApiNext /\ UNCHANGED <<poolVars, auditVars>>
        BY <4>1, Zenon
      <4>2. CASE PoolNext /\ UNCHANGED <<apiVars, auditVars>>
        BY <4>2, Zenon
      <4>3. CASE AuditNext /\ UNCHANGED <<apiVars, poolVars>>
        BY <4>3, Zenon
      <4> QED
        BY <2>3, <4>1, <4>2, <4>3, Zenon
    <3> QED
      BY <3>1, <3>2, Zenon
  <2> QED
    BY <1>2, <2>1, <2>2, <2>3, Zenon DEF Next
<1> QED
  BY <1>1, <1>2

\* A behaviour of the whole is one of every part: what is proved of a part holds
\* when the parts run side by side.
THEOREM PartsImplemented ==
  Spec => /\ StoreSpec /\ SymSpec /\ SessionSpec /\ ScripSpec
          /\ ApiSpec /\ PoolSpec /\ AuditSpec
<1>1. Init => /\ StoreInit /\ SymInit /\ SessionInit /\ ScripInit
              /\ ApiInit /\ PoolInit /\ AuditInit
  BY Zenon DEF Init
<1> QED
  BY <1>1, NextParts, PTL
  DEF Spec, StoreSpec, SymSpec, SessionSpec, ScripSpec, ApiSpec, PoolSpec, AuditSpec

\* All variables of the parts keep their types.
THEOREM TypeOKHolds == Spec => []TypeOK
<1>1. StoreSpec => []StoreTypeOK
  BY StoreSafe, StoreTypeOKHolds, PTL
<1>2. SymSpec => []SymTypeOK
  BY InitSym, NextSym, SymTypeOKHolds, PTL DEF SymSpec
<1>3. SessionSpec => []SessionTypeOK
  <2>1. SessionInv => SessionTypeOK
    BY DEF SessionInv, SessionTypes
  <2> QED
    BY <2>1, InitSession, NextSession, PTL DEF SessionSpec
<1>4. ScripSpec => []ScripTypeOK
  <2>1. ScripInv => ScripTypeOK
    BY DEF ScripInv
  <2> QED
    BY <2>1, InitScrip, NextScrip, PTL DEF ScripSpec
<1>5. ApiSpec => []ApiTypeOK
  BY InitApi, NextApi, ApiTypeOKHolds, PTL DEF ApiSpec
<1>6. PoolSpec => []PoolTypeOK
  BY InitPool, NextPool, InitPoolRest, NextPoolRest, PoolTypeOKHolds, PTL DEF PoolSpec
<1>7. AuditSpec => []AuditTypeOK
  BY InitAudit, NextAudit, AuditTypeOKHolds, PTL DEF AuditSpec
<1>8. /\ StoreTypeOK /\ SymTypeOK /\ SessionTypeOK /\ ScripTypeOK
      /\ ApiTypeOK /\ PoolTypeOK /\ AuditTypeOK
      => TypeOK
  BY Zenon DEF TypeOK
<1> QED
  BY <1>1, <1>2, <1>3, <1>4, <1>5, <1>6, <1>7, <1>8, PartsImplemented, PTL

\* ResolveFaithful and TickerFaithful hold with the parts side by side
\* (resolver.py, symbol_resolver.py).
THEOREM NamesFaithfulHolds == Spec => []NamesFaithful
<1>1. ResolveFaithful /\ TickerFaithful => NamesFaithful
  BY Zenon DEF NamesFaithful
<1> QED
  BY <1>1, ResolveFaithfulHolds, TickerFaithfulHolds, PartsImplemented, PTL

=============================================================================
