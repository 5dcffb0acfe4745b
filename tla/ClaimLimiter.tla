---------------------------- MODULE ClaimLimiter ----------------------------
(***************************************************************************)
(* The relay's rate limiter of pairing-code claims for one client address: *)
(* a sliding window of granted attempts, and a blacklist once the budget   *)
(* is exceeded.  Several sessions of the same address claim concurrently;  *)
(* handleClaim reads the clock before it takes the hub's mutex, so times   *)
(* may reach the limiter out of order, up to MaxLag late.                  *)
(***************************************************************************)
EXTENDS Integers, Sequences, FiniteSets, SequencesExt

CONSTANTS
  Claimers,   \* sessions of this address
  Window,     \* ipLimiter.window
  Budget,     \* ipLimiter.max
  BlackFor,   \* ipLimiter.blackFor
  MaxLag,     \* how long a session may wait between the clock and the mutex
  MaxWall,    \* bound: the clock
  MaxGrants   \* bound: granted attempts

ASSUME LimiterAssumption ==
  /\ Window \in Nat \ {0} /\ Budget \in Nat \ {0}
  /\ BlackFor \in Nat /\ BlackFor >= Window + MaxLag
  /\ MaxLag \in Nat /\ MaxWall \in Nat /\ MaxGrants \in Nat

VARIABLES
  wall,       \* the clock
  now,        \* the time a session has read, Waiting without
  events,     \* l.events: the granted attempts in it, by number (its order plays no part)
  blacklist,  \* l.blacklist
  granted,    \* times of all granted attempts, in the order they were granted
  banned      \* times of all attempts that led to the blacklist

limiterVars == <<wall, now, events, blacklist, granted, banned>>

Waiting == -1

LimiterTick ==
  /\ wall < MaxWall
  /\ \A c \in Claimers : now[c] = Waiting \/ wall - now[c] < MaxLag
  /\ wall' = wall + 1
  /\ UNCHANGED <<now, events, blacklist, granted, banned>>

\* handleClaim: now := h.now()
ReadClock(c) ==
  /\ now[c] = Waiting
  /\ now' = [now EXCEPT ![c] = wall]
  /\ UNCHANGED <<wall, events, blacklist, granted, banned>>

\* Mutant: events leave the window too early
RecentHalf(t) == {i \in events : 2 * (t - granted[i]) < Window}

\* The events still in the window
Recent(t) == {i \in events : t - granted[i] < Window}

Full(t) == Cardinality(Recent(t)) >= Budget

\* Mutant: the blacklist is never consulted
BlacklistedNever(t) == FALSE

Blacklisted(t) == t < blacklist

\* allow, under the hub's mutex
Refuse(c) ==
  /\ now[c] # Waiting /\ Blacklisted(now[c])
  /\ now' = [now EXCEPT ![c] = Waiting]
  /\ UNCHANGED <<wall, events, blacklist, granted, banned>>

Ban(c) ==
  /\ now[c] # Waiting /\ ~Blacklisted(now[c]) /\ Full(now[c])
  /\ blacklist' = now[c] + BlackFor
  /\ events' = {}
  /\ banned' = Append(banned, now[c])
  /\ now' = [now EXCEPT ![c] = Waiting]
  /\ UNCHANGED <<wall, granted>>

Grant(c) ==
  /\ now[c] # Waiting /\ ~Blacklisted(now[c]) /\ ~Full(now[c])
  /\ Len(granted) < MaxGrants
  /\ events' = Recent(now[c]) \cup {Len(granted) + 1}
  /\ granted' = Append(granted, now[c])
  /\ now' = [now EXCEPT ![c] = Waiting]
  /\ UNCHANGED <<wall, blacklist, banned>>

LimiterInit ==
  /\ wall = 0
  /\ now = [c \in Claimers |-> Waiting]
  /\ events = {} /\ blacklist = 0
  /\ granted = <<>> /\ banned = <<>>

LimiterNext == LimiterTick \/ \E c \in Claimers : ReadClock(c) \/ Refuse(c) \/ Ban(c) \/ Grant(c)

LimiterSpec == LimiterInit /\ [][LimiterNext]_limiterVars

(***************************************************************************)
(* Properties                                                              *)
(***************************************************************************)

\* "5 claims per minute per IP": no span of time shorter than the window (by
\* the lag with which times reach the limiter) sees more than Budget grants,
\* wherever it starts; the bans in between, which empty the window, do not hand
\* out a new budget.
BudgetPerWindow ==
  \A t \in 0 .. MaxWall :
    Cardinality({i \in DOMAIN granted : granted[i] \in t .. t + Window - MaxLag - 1}) <= Budget

\* "exceeding the budget blacklists the IP for 10 minutes": nothing is granted
\* with a time in the blackFor after an attempt that exceeded the budget, from
\* the moment that attempt reached the limiter.
BansLast ==
  [][\A i \in DOMAIN banned : granted' # granted =>
       Last(granted') >= banned[i] + BlackFor]_limiterVars
=============================================================================
