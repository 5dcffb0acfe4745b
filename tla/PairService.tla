----------------------------- MODULE PairService -----------------------------
(***************************************************************************)
(* The daemon's pairing service: one-time codes with a time to live, and   *)
(* the lockout after repeated failures.  HTTP requests run concurrently; a *)
(* request reads the clock before it waits for the service's mutex, so it  *)
(* may work with a time that is already past.  A restart of the daemon     *)
(* empties the service; device rows stay.                                  *)
(***************************************************************************)
EXTENDS Integers, Sequences, FiniteSets

CONSTANTS
  Codes,           \* six-digit codes; Init may draw one that is still in use
  Requests,        \* concurrent HTTP requests
  PairTTL,         \* pairTTL
  LockDuration,    \* lockDuration
  MaxVerifyFails,  \* maxVerifyFails
  MaxTime,         \* bound: clock
  MaxIssued,       \* bound: codes issued
  MaxAttempts      \* bound: attempts since the last start

ASSUME PairAssumption ==
  /\ PairTTL \in Nat /\ LockDuration \in Nat /\ MaxVerifyFails \in Nat \ {0}
  /\ MaxTime \in Nat /\ MaxIssued \in Nat /\ MaxAttempts \in Nat
  /\ IsFiniteSet(Requests)

VARIABLES
  clock,
  codes,        \* s.codes: a code's expiresAt, Absent without entry
  failCount,
  lockedUntil,
  req,          \* what each request is about to do
  issued,       \* how often a code was handed out by Init
  devices,      \* device rows created for a code
  failed,       \* rows that deviceRepo.Create failed to create
  attempts      \* outcomes of checkCode that were not refused, since the start

vars == <<clock, codes, failCount, lockedUntil, req, issued, devices, failed, attempts>>

Absent == -1
NoRequest == [at |-> "idle"]
Request == [at : {"init", "verify", "create"}, code : Codes, now : 0 .. MaxTime]
Attempt == [ok : BOOLEAN, now : 0 .. MaxTime]

\* The failure count stays below the limit: reaching it locks and resets
PairTypeOK ==
  /\ clock \in 0 .. MaxTime
  /\ codes \in [Codes -> Nat \cup {Absent}]
  /\ failCount \in 0 .. MaxVerifyFails - 1
  /\ lockedUntil \in Nat
  /\ req \in [Requests -> Request \cup {NoRequest}]
  /\ issued \in [Codes -> Nat] /\ devices \in [Codes -> Nat] /\ failed \in [Codes -> Nat]
  /\ attempts \in Seq(Attempt)

Tick ==
  /\ clock < MaxTime
  /\ clock' = clock + 1
  /\ UNCHANGED <<codes, failCount, lockedUntil, req, issued, devices, failed, attempts>>

\* A request reads the clock
Start(r, op, c) ==
  /\ req[r] = NoRequest
  /\ req' = [req EXCEPT ![r] = [at |-> op, code |-> c, now |-> clock]]
  /\ UNCHANGED <<clock, codes, failCount, lockedUntil, issued, devices, failed, attempts>>

Expired(now, c) == codes[c] # Absent /\ now > codes[c]

\* Init under the mutex: store the code, purge the expired ones
InitCode(r) ==
  LET now == req[r].now
      c == req[r].code IN
  /\ req[r].at = "init" /\ issued[c] < MaxIssued
  /\ codes' = [d \in Codes |-> IF d = c THEN now + PairTTL
                               ELSE IF Expired(now, d) THEN Absent ELSE codes[d]]
  /\ issued' = [issued EXCEPT ![c] = @ + 1]
  /\ req' = [req EXCEPT ![r] = NoRequest]
  /\ UNCHANGED <<clock, failCount, lockedUntil, devices, failed, attempts>>

\* Mutant: the lockout ends one unit early
LockedTooShort(now) == now + 1 < lockedUntil

\* Mutant: no lockout
LockedNever(now) == FALSE

Locked(now) == now < lockedUntil

Valid(now, c) == codes[c] # Absent /\ ~Expired(now, c)

\* checkCode refuses while locked
CheckLocked(r) ==
  /\ req[r].at = "verify"
  /\ Locked(req[r].now)
  /\ req' = [req EXCEPT ![r] = NoRequest]
  /\ UNCHANGED <<clock, codes, failCount, lockedUntil, issued, devices, failed, attempts>>

\* Mutant: the code is left in the map
CheckOkReusable(r) ==
  LET now == req[r].now
      c == req[r].code IN
  /\ req[r].at = "verify" /\ Len(attempts) < MaxAttempts
  /\ ~Locked(now) /\ Valid(now, c)
  /\ failCount' = 0
  /\ req' = [req EXCEPT ![r].at = "create"]
  /\ attempts' = Append(attempts, [ok |-> TRUE, now |-> now])
  /\ UNCHANGED <<clock, codes, lockedUntil, issued, devices, failed>>

\* checkCode consumes a valid code; the device row comes after the unlock
CheckOk(r) ==
  LET now == req[r].now
      c == req[r].code IN
  /\ req[r].at = "verify" /\ Len(attempts) < MaxAttempts
  /\ ~Locked(now) /\ Valid(now, c)
  /\ codes' = [codes EXCEPT ![c] = Absent]
  /\ failCount' = 0
  /\ req' = [req EXCEPT ![r].at = "create"]
  /\ attempts' = Append(attempts, [ok |-> TRUE, now |-> now])
  /\ UNCHANGED <<clock, lockedUntil, issued, devices, failed>>

LocksAt(n) == n >= MaxVerifyFails

\* checkCode counts a failure (an expired entry is deleted) and may lock
CheckFail(r) ==
  LET now == req[r].now
      c == req[r].code IN
  /\ req[r].at = "verify" /\ Len(attempts) < MaxAttempts
  /\ ~Locked(now) /\ ~Valid(now, c)
  /\ codes' = [codes EXCEPT ![c] = Absent]
  /\ IF LocksAt(failCount + 1)
       THEN lockedUntil' = now + LockDuration /\ failCount' = 0
       ELSE failCount' = failCount + 1 /\ UNCHANGED lockedUntil
  /\ req' = [req EXCEPT ![r] = NoRequest]
  /\ attempts' = Append(attempts, [ok |-> FALSE, now |-> now])
  /\ UNCHANGED <<clock, issued, devices, failed>>

\* deviceRepo.Create, which may fail
CreateDevice(r) ==
  LET c == req[r].code IN
  /\ req[r].at = "create"
  /\ \/ devices' = [devices EXCEPT ![c] = @ + 1] /\ UNCHANGED failed
     \/ failed' = [failed EXCEPT ![c] = @ + 1] /\ UNCHANGED devices
  /\ req' = [req EXCEPT ![r] = NoRequest]
  /\ UNCHANGED <<clock, codes, failCount, lockedUntil, issued, attempts>>

\* The daemon restarts: everything but the database is new
Restart ==
  /\ codes' = [c \in Codes |-> Absent]
  /\ failCount' = 0 /\ lockedUntil' = 0
  /\ req' = [r \in Requests |-> NoRequest]
  /\ attempts' = <<>>
  /\ UNCHANGED <<clock, issued, devices, failed>>

Init ==
  /\ clock = 0
  /\ codes = [c \in Codes |-> Absent]
  /\ failCount = 0 /\ lockedUntil = 0
  /\ req = [r \in Requests |-> NoRequest]
  /\ issued = [c \in Codes |-> 0]
  /\ devices = [c \in Codes |-> 0] /\ failed = [c \in Codes |-> 0]
  /\ attempts = <<>>

Next ==
  \/ Tick \/ Restart
  \/ \E r \in Requests :
       \/ \E c \in Codes : Start(r, "init", c) \/ Start(r, "verify", c)
       \/ InitCode(r) \/ CheckLocked(r) \/ CheckOk(r) \/ CheckFail(r) \/ CreateDevice(r)

Spec == Init /\ [][Next]_vars

(***************************************************************************)
(* Properties                                                              *)
(***************************************************************************)
Creating(c) == {r \in Requests : req[r].at = "create" /\ req[r].code = c}
Outstanding(c) == IF codes[c] = Absent THEN 0 ELSE 1

\* Every issued code pairs at most one device: among concurrent verifies of the
\* same code, codes drawn again while in use, failing inserts and restarts, the
\* devices created, being created and failed for a code, plus the code itself
\* while it is outstanding, never exceed the number of times it was issued.
OneTime ==
  \A c \in Codes :
    devices[c] + failed[c] + Cardinality(Creating(c)) + Outstanding(c) <= issued[c]

\* The lockout brakes guessing: among any MaxVerifyFails + 1 failures in a row
\* two neighbours are at least lockDuration apart, whatever the interleaving of
\* the requests and however stale the time each of them has read.
BruteForceBrake ==
  \A i \in 1 .. Len(attempts) - MaxVerifyFails :
    (\A k \in i .. i + MaxVerifyFails : ~attempts[k].ok) =>
      \E k \in i .. i + MaxVerifyFails - 1 :
        attempts[k + 1].now >= attempts[k].now + LockDuration

\* While a lockout is in force nothing is verified, right codes included, and
\* the lockout is not cut short; only a restart ends it early.
LockoutHolds ==
  [][clock < lockedUntil /\ lockedUntil' # 0 =>
       attempts' = attempts /\ lockedUntil' = lockedUntil]_vars

=============================================================================
