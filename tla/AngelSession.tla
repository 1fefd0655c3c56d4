------------------------------ MODULE AngelSession -----------------------------
(***************************************************************************)
(* The session with Angel One: AngelProvider.is_available() and fetch()    *)
(* (data/providers/angel.py), which share one provider among the threads   *)
(* of a process, and the broker they log in (brokers/adapters/angelone.py),*)
(* which refreshes its token before a call.  Nothing has a lock, and every *)
(* call of the broker's client goes over the network.                      *)
(*                                                                         *)
(* A client is a SmartConnect object; its token is the time of its issue.  *)
(* Brokers and clients are numbered in the order they are created.         *)
(***************************************************************************)
EXTENDS Integers

CONSTANTS
  Fetchers,   \* threads
  Life,       \* how long Angel One accepts a token
  Ttl,        \* age at which the broker refreshes it
  MaxClients, \* bounds the exploration, as do
  MaxRefused, \* calls of the client that fail
  LastTick    \* the clock

ASSUME AngelSessionAssumption ==
  /\ Life \in Nat /\ Ttl \in 1..(Life - 1)
  /\ MaxClients \in Nat /\ MaxRefused \in Nat /\ LastTick \in Nat

VARIABLES
  tick,
  attempted, connected, broker, \* of the provider: its broker is 0 if None
  client, expiry,   \* of each broker: its client, when its token is to be refreshed
  token,            \* of each client, NoToken before generateSession() succeeds
  clients,          \* created so far
  spot,             \* where each thread is
  my,               \* the broker it uses
  via,              \* the client it calls
  delayed,          \* it has seen a tick pass since its last step
  refused,          \* failures so far
  renewal,          \* its refresh or its login has failed since it tested the expiry
  renewedBy         \* of each broker: the client whose session its expiry tells of

sessionVars == <<tick, attempted, connected, broker, client, expiry, token, clients,
                 spot, my, via, delayed, refused, renewal, renewedBy>>

NoToken == -1
Numbers == 1..MaxClients

SessionInit ==
  /\ tick = 0
  /\ attempted = FALSE /\ connected = FALSE /\ broker = 0
  /\ client = [b \in Numbers |-> 0]
  /\ expiry = [b \in Numbers |-> NoToken]
  /\ token = [c \in Numbers |-> NoToken]
  /\ clients = 0
  /\ spot = [t \in Fetchers |-> "idle"]
  /\ my = [t \in Fetchers |-> 0] /\ via = [t \in Fetchers |-> 0]
  /\ delayed = [t \in Fetchers |-> FALSE]
  /\ refused = 0 /\ renewedBy = [b \in Numbers |-> 0]
  /\ renewal = [t \in Fetchers |-> FALSE]

MoveTo(t, s) == spot' = [spot EXCEPT ![t] = s] /\ delayed' = [delayed EXCEPT ![t] = FALSE]
Uses(t, c) == via' = [via EXCEPT ![t] = c]

\* A client that is not accepted answers nothing; one that is may fail.
Accepted(c) == token[c] # NoToken /\ tick - token[c] < Life

Refuses == refused < MaxRefused /\ refused' = refused + 1
NotRenewed(t) == renewal' = [renewal EXCEPT ![t] = TRUE]

Renewed(t) ==
  /\ token' = [token EXCEPT ![via[t]] = tick]
  /\ expiry' = [expiry EXCEPT ![my[t]] = tick + Ttl]
  /\ renewedBy' = [renewedBy EXCEPT ![my[t]] = via[t]]

\* is_available(), and the test that fetch() repeats
Ask(t) ==
  /\ spot[t] = "idle"
  /\ MoveTo(t, IF connected THEN "fetch" ELSE "try")
  /\ UNCHANGED <<tick, attempted, connected, broker, client, expiry, token, clients,
                 my, via, refused, renewal, renewedBy>>

\* _try_login(): the latch is tested and set without a call in between, so no
\* other thread runs there; a new broker, and a new client in its login().
TryLogin(t) ==
  /\ spot[t] = "try"
  /\ IF attempted /\ ~connected
       THEN /\ MoveTo(t, "unavailable")
            /\ UNCHANGED <<attempted, client, clients, my, via>>
       ELSE /\ clients < MaxClients
            /\ attempted' = TRUE
            /\ clients' = clients + 1
            /\ client' = [client EXCEPT ![clients'] = clients']
            /\ my' = [my EXCEPT ![t] = clients'] /\ Uses(t, clients')
            /\ MoveTo(t, "first login")
  /\ UNCHANGED <<tick, connected, broker, expiry, token, refused, renewal, renewedBy>>

FirstLogin_ConnectedEarly(t) == \* mutant: connected before the broker is there
  /\ spot[t] = "first login"
  /\ \/ /\ Renewed(t)
        /\ broker' = my[t] /\ connected' = TRUE
        /\ MoveTo(t, "fetch")
        /\ UNCHANGED refused
     \/ /\ Refuses
        /\ connected' = TRUE
        /\ MoveTo(t, "unavailable")
        /\ UNCHANGED <<broker, token, expiry, renewedBy>>
  /\ UNCHANGED <<tick, attempted, client, clients, my, via, renewal>>

\* generateSession() of the first login; the provider takes the broker after it
FirstLogin(t) ==
  /\ spot[t] = "first login"
  /\ \/ /\ Renewed(t)
        /\ broker' = my[t] /\ connected' = TRUE
        /\ MoveTo(t, "fetch")
        /\ UNCHANGED refused
     \/ /\ Refuses
        /\ MoveTo(t, "unavailable")
        /\ UNCHANGED <<broker, connected, token, expiry, renewedBy>>
  /\ UNCHANGED <<tick, attempted, client, clients, my, via, renewal>>

NearExpiry_TooLate(b) == tick > expiry[b] \* mutant: no time before the expiry

NearExpiry(b) == tick >= expiry[b]

\* _ensure_connected() around get_candles() or get_ltp()
Fetch(t) ==
  /\ spot[t] = "fetch"
  /\ my' = [my EXCEPT ![t] = broker]
  /\ IF NearExpiry(broker)
       THEN MoveTo(t, "refresh") /\ Uses(t, client[broker])
       ELSE MoveTo(t, "call") /\ UNCHANGED via
  /\ UNCHANGED <<tick, attempted, connected, broker, client, expiry, token, clients,
                 refused, renewal, renewedBy>>

\* _refresh_token(): generateToken() of the client that was current when it was
\* called; what it returns is ignored by _ensure_connected().
Refresh(t) ==
  /\ spot[t] = "refresh"
  /\ \/ /\ Renewed(t)
        /\ MoveTo(t, "call")
        /\ UNCHANGED <<refused, renewal>>
     \/ /\ Refuses /\ NotRenewed(t)    \* an exception
        /\ MoveTo(t, "call")
        /\ UNCHANGED <<token, expiry, renewedBy>>
     \/ /\ MoveTo(t, "relogin")         \* the refresh token has expired
        /\ UNCHANGED <<token, expiry, refused, renewal, renewedBy>>
  /\ UNCHANGED <<tick, attempted, connected, broker, client, clients, my, via>>

\* login() again: the new client replaces the old one before it has a token
Relogin(t) ==
  /\ spot[t] = "relogin" /\ clients < MaxClients
  /\ clients' = clients + 1
  /\ client' = [client EXCEPT ![my[t]] = clients']
  /\ Uses(t, clients')
  /\ MoveTo(t, "generate session")
  /\ UNCHANGED <<tick, attempted, connected, broker, expiry, token, my, refused, renewal, renewedBy>>

GenerateSession(t) ==
  /\ spot[t] = "generate session"
  /\ \/ Renewed(t) /\ UNCHANGED <<refused, renewal>>
     \/ /\ Refuses /\ NotRenewed(t)
        /\ UNCHANGED <<token, expiry, renewedBy>>
  /\ MoveTo(t, "call")
  /\ UNCHANGED <<tick, attempted, connected, broker, client, clients, my, via>>

\* the call itself, by the broker's client of the moment
Call(t) ==
  /\ spot[t] = "call"
  /\ Uses(t, client[my[t]])
  /\ MoveTo(t, IF Accepted(client[my[t]]) THEN "answered" ELSE "rejected")
  /\ UNCHANGED <<tick, attempted, connected, broker, client, expiry, token, clients,
                 my, refused, renewal, renewedBy>>

Done(t) ==
  /\ spot[t] \in {"answered", "rejected", "unavailable"}
  /\ MoveTo(t, "idle")
  /\ my' = [my EXCEPT ![t] = 0] /\ Uses(t, 0)
  /\ renewal' = [renewal EXCEPT ![t] = FALSE]
  /\ UNCHANGED <<tick, attempted, connected, broker, client, expiry, token, clients,
                 refused, renewedBy>>

\* A thread waits for less than two ticks in a step.
Tick ==
  /\ tick < LastTick
  /\ \A t \in Fetchers : spot[t] # "idle" => ~delayed[t]
  /\ tick' = tick + 1
  /\ delayed' = [t \in Fetchers |-> spot[t] # "idle"]
  /\ UNCHANGED <<attempted, connected, broker, client, expiry, token, clients,
                 spot, my, via, refused, renewal, renewedBy>>

SessionNext ==
  \/ \E t \in Fetchers :
       \/ Ask(t) \/ TryLogin(t) \/ FirstLogin(t)
       \/ Fetch(t) \/ Refresh(t) \/ Relogin(t) \/ GenerateSession(t)
       \/ Call(t) \/ Done(t)
  \/ Tick

SessionSpec == SessionInit /\ [][SessionNext]_sessionVars

-----------------------------------------------------------------------------

Spots == {"idle", "try", "first login", "fetch", "refresh", "relogin",
          "generate session", "call", "answered", "rejected", "unavailable"}

SessionTypeOK ==
  /\ tick \in 0..LastTick
  /\ attempted \in BOOLEAN /\ connected \in BOOLEAN /\ broker \in 0..MaxClients
  /\ connected <=> broker # 0
  /\ client \in [Numbers -> 0..MaxClients]
  /\ expiry \in [Numbers -> Int] /\ token \in [Numbers -> Int]
  /\ clients \in 0..MaxClients /\ refused \in 0..MaxRefused
  /\ spot \in [Fetchers -> Spots]
  /\ my \in [Fetchers -> 0..MaxClients] /\ via \in [Fetchers -> 0..MaxClients]
  /\ renewal \in [Fetchers -> BOOLEAN] /\ renewedBy \in [Numbers -> 0..MaxClients]

\* Angel One rejects a call only if the thread's own refresh or login has failed
\* since it tested the expiry, or if the broker's client is not the one whose
\* session the expiry tells of: another thread's login has replaced it and has no
\* session yet or got none, or a client that was replaced has renewed the expiry.
\* Nothing else comes of sharing the session without a lock.
CallsExcused ==
  [][\A t \in Fetchers : spot[t] = "call" /\ spot'[t] = "rejected" =>
       renewal[t] \/ client[my[t]] # renewedBy[my[t]]]_sessionVars

=============================================================================
