--------------------------- MODULE PairingProofs ---------------------------
(***************************************************************************)
(* Proofs about the two brakes on pairing codes: the daemon's PairService, *)
(* for every set of codes, every number of concurrent requests, every time *)
(* to live, lock duration and failure limit, and the relay's ClaimLimiter, *)
(* for every window, budget, ban and lag of the clock; and for every bound.*)
(*                                                                         *)
(* OneTime is inductive given the types.  BruteForceBrake is not: it needs *)
(* to know where the failure count stands in the history (CountInv).       *)
(* BudgetPerWindow speaks of all grants and the limiter forgets some of    *)
(* them: it needs to know why those no longer count (Kept).                *)
(***************************************************************************)
EXTENDS PairService, ClaimLimiter, FiniteSetTheorems, TLAPS

(***************************************************************************)
(* Types                                                                   *)
(***************************************************************************)

\* The pairing service starts with well-typed state.
LEMMA PairInitType == Init => PairTypeOK
  BY PairAssumption DEF Init, PairTypeOK, Absent, NoRequest

\* Every step keeps the types; a failure that reaches the limit resets the count.
LEMMA PairNextType == PairTypeOK /\ [Next]_vars => PairTypeOK'
<1> SUFFICES ASSUME PairTypeOK, [Next]_vars PROVE PairTypeOK'
  OBVIOUS
<1> USE PairAssumption
<1>1. CASE Tick
  BY <1>1 DEF Tick, PairTypeOK
<1>2. CASE Restart
  BY <1>2 DEF Restart, PairTypeOK
<1>3. ASSUME NEW r \in Requests, NEW op \in {"init", "verify"}, NEW c \in Codes, Start(r, op, c)
      PROVE  PairTypeOK'
  <2>1. [at |-> op, code |-> c, now |-> clock] \in Request
    BY DEF PairTypeOK, Request
  <2> QED
    BY <1>3, <2>1 DEF Start, PairTypeOK
<1>4. ASSUME NEW r \in Requests, req[r].at \in {"init", "verify", "create"}
      PROVE  req[r] \in Request
  BY <1>4 DEF PairTypeOK, NoRequest
<1>5. ASSUME NEW r \in Requests, InitCode(r) PROVE PairTypeOK'
  <2>1. req[r].now \in Nat /\ req[r].code \in Codes
    BY <1>4, <1>5 DEF InitCode, Request
  <2>2. codes' \in [Codes -> Nat \cup {Absent}]
    <3>1. req[r].now + PairTTL \in Nat /\ \A d \in Codes : codes[d] \in Nat \cup {Absent}
      BY <2>1 DEF PairTypeOK
    <3> QED
      BY <1>5, <3>1 DEF InitCode
  <2>3. req' \in [Requests -> Request \cup {NoRequest}]
    BY <1>5 DEF InitCode, PairTypeOK
  <2>4. issued' \in [Codes -> Nat]
    BY <1>5, <2>1 DEF InitCode, PairTypeOK
  <2>5. UNCHANGED <<clock, failCount, lockedUntil, devices, failed, attempts>>
    BY <1>5 DEF InitCode
  <2> QED
    BY <2>2, <2>3, <2>4, <2>5 DEF PairTypeOK
<1>6. ASSUME NEW r \in Requests, CheckLocked(r) PROVE PairTypeOK'
  BY <1>6 DEF CheckLocked, PairTypeOK
<1>7. ASSUME NEW r \in Requests, CheckOk(r) PROVE PairTypeOK'
  <2>1. req[r] \in Request
    BY <1>4, <1>7 DEF CheckOk
  <2>2. [req[r] EXCEPT !.at = "create"] \in Request
    BY <2>1 DEF Request
  <2>3. req' = [req EXCEPT ![r] = [req[r] EXCEPT !.at = "create"]]
    BY <1>7 DEF CheckOk
  <2>4. attempts' \in Seq(Attempt)
    BY <1>7, <2>1 DEF CheckOk, PairTypeOK, Attempt, Request
  <2>5. codes' \in [Codes -> Nat \cup {Absent}]
    BY <1>7 DEF CheckOk, PairTypeOK
  <2>6. req' \in [Requests -> Request \cup {NoRequest}]
    BY <2>2, <2>3 DEF PairTypeOK
  <2>7. failCount' = 0 /\ UNCHANGED <<clock, lockedUntil, issued, devices, failed>>
    BY <1>7 DEF CheckOk
  <2>8. failCount' \in 0 .. MaxVerifyFails - 1
    BY <2>7
  <2> QED
    BY <2>4, <2>5, <2>6, <2>7, <2>8 DEF PairTypeOK
<1>8. ASSUME NEW r \in Requests, CheckFail(r) PROVE PairTypeOK'
  <2>1. req[r].now \in 0 .. MaxTime
    BY <1>4, <1>8 DEF CheckFail, Request
  <2>2. attempts' \in Seq(Attempt)
    BY <1>8, <2>1 DEF CheckFail, PairTypeOK, Attempt
  <2>3. failCount' \in 0 .. MaxVerifyFails - 1 /\ lockedUntil' \in Nat
    BY <1>8, <2>1 DEF CheckFail, PairTypeOK, LocksAt
  <2>4. codes' \in [Codes -> Nat \cup {Absent}]
    BY <1>8 DEF CheckFail, PairTypeOK
  <2> QED
    BY <1>8, <2>2, <2>3, <2>4 DEF CheckFail, PairTypeOK
<1>9. ASSUME NEW r \in Requests, CreateDevice(r) PROVE PairTypeOK'
  <2>1. req[r].code \in Codes
    BY <1>4, <1>9 DEF CreateDevice, Request
  <2>2. devices' \in [Codes -> Nat] /\ failed' \in [Codes -> Nat]
    <3>1. devices \in [Codes -> Nat] /\ failed \in [Codes -> Nat]
      BY DEF PairTypeOK
    <3>2. CASE devices' = [devices EXCEPT ![req[r].code] = @ + 1] /\ failed' = failed
      BY <2>1, <3>1, <3>2
    <3>3. CASE failed' = [failed EXCEPT ![req[r].code] = @ + 1] /\ devices' = devices
      BY <2>1, <3>1, <3>3
    <3> QED
      BY <1>9, <3>2, <3>3 DEF CreateDevice
  <2>3. req' \in [Requests -> Request \cup {NoRequest}]
    BY <1>9 DEF CreateDevice, PairTypeOK
  <2> QED
    BY <1>9, <2>2, <2>3 DEF CreateDevice, PairTypeOK
<1>10. CASE UNCHANGED vars
  BY <1>10 DEF vars, PairTypeOK
<1> QED
  BY <1>1, <1>2, <1>3, <1>5, <1>6, <1>7, <1>8, <1>9, <1>10 DEF Next

\* The types hold in every behaviour of the pairing service.
THEOREM PairTypeCorrect == Spec => []PairTypeOK
  BY PairInitType, PairNextType, PTL DEF Spec

(***************************************************************************)
(* One device per issued code                                              *)
(***************************************************************************)

\* The requests that create a device for a code are finitely many.
LEMMA CreatingFinite ==
  ASSUME PairTypeOK, NEW c \in Codes
  PROVE  IsFiniteSet(Creating(c)) /\ Cardinality(Creating(c)) \in Nat
<1>1. IsFiniteSet(Requests) /\ Creating(c) \subseteq Requests
  BY PairAssumption DEF Creating
<1> QED
  BY <1>1, FS_Subset, FS_CardinalityType

\* A step that takes no request into or out of "create", lets no count but
\* issued grow and hands out a code only with an issue keeps OneTime.
LEMMA OneTimeFrame ==
  ASSUME PairTypeOK, PairTypeOK', OneTime, NEW c \in Codes,
         Creating(c)' = Creating(c),
         devices'[c] = devices[c], failed'[c] = failed[c],
         \/ issued'[c] = issued[c] /\ (codes'[c] # Absent => codes[c] # Absent)
         \/ issued'[c] = issued[c] + 1
  PROVE  devices'[c] + failed'[c] + Cardinality(Creating(c))' + Outstanding(c)' <= issued'[c]
<1>1. Cardinality(Creating(c))' = Cardinality(Creating(c)) /\ Cardinality(Creating(c)) \in Nat
  BY CreatingFinite
<1>2. devices[c] + failed[c] + Cardinality(Creating(c)) + Outstanding(c) <= issued[c]
  BY DEF OneTime
<1>3. /\ issued[c] \in Nat /\ issued'[c] \in Nat /\ devices[c] \in Nat /\ failed[c] \in Nat
      /\ Outstanding(c) \in {0, 1} /\ Outstanding(c)' \in {0, 1}
  BY DEF PairTypeOK, Outstanding
<1>4. issued'[c] = issued[c] => Outstanding(c)' <= Outstanding(c)
  BY <1>3 DEF Outstanding
<1> HIDE DEF Outstanding, Creating
<1> QED
  BY <1>1, <1>2, <1>3, <1>4

\* Every step keeps OneTime: a code leaves the map when a request takes it to
\* "create", and the request leaves "create" when it counts as a row or a failure.
LEMMA OneTimeStep == PairTypeOK /\ PairTypeOK' /\ OneTime /\ [Next]_vars => OneTime'
<1> SUFFICES ASSUME PairTypeOK, PairTypeOK', OneTime, [Next]_vars, NEW c \in Codes
             PROVE  devices'[c] + failed'[c] + Cardinality(Creating(c))' + Outstanding(c)' <= issued'[c]
  BY DEF OneTime
<1>0. /\ issued[c] \in Nat /\ devices[c] \in Nat /\ failed[c] \in Nat
      /\ Cardinality(Creating(c)) \in Nat /\ IsFiniteSet(Creating(c))
      /\ Outstanding(c) \in {0, 1}
      /\ devices[c] + failed[c] + Cardinality(Creating(c)) + Outstanding(c) <= issued[c]
  BY CreatingFinite DEF PairTypeOK, OneTime, Outstanding
<1>1. CASE Tick \/ UNCHANGED vars
  <2>1. Creating(c)' = Creating(c)
    BY <1>1 DEF Tick, vars, Creating
  <2> QED
    BY <1>1, <2>1, OneTimeFrame DEF Tick, vars
<1>2. CASE Restart
  <2>1. Creating(c)' = {} /\ Outstanding(c)' = 0
    BY <1>2 DEF Restart, Creating, NoRequest, Outstanding
  <2>2. Cardinality(Creating(c))' = 0
    BY <2>1, FS_EmptySet
  <2>3. devices'[c] = devices[c] /\ failed'[c] = failed[c] /\ issued'[c] = issued[c]
    BY <1>2 DEF Restart
  <2> HIDE DEF Outstanding, Creating
  <2> QED
    BY <1>0, <2>1, <2>2, <2>3
<1>3. ASSUME NEW r \in Requests, NEW op \in {"init", "verify"}, NEW d \in Codes, Start(r, op, d)
      PROVE  devices'[c] + failed'[c] + Cardinality(Creating(c))' + Outstanding(c)' <= issued'[c]
  <2>1. Creating(c)' = Creating(c)
    BY <1>3 DEF Start, Creating, NoRequest, PairTypeOK
  <2> QED
    BY <1>3, <2>1, OneTimeFrame DEF Start
<1>4. ASSUME NEW r \in Requests, InitCode(r)
      PROVE  devices'[c] + failed'[c] + Cardinality(Creating(c))' + Outstanding(c)' <= issued'[c]
  <2>1. Creating(c)' = Creating(c)
    BY <1>4 DEF InitCode, Creating, NoRequest, PairTypeOK
  <2>2. \/ issued'[c] = issued[c] /\ (codes'[c] # Absent => codes[c] # Absent)
        \/ issued'[c] = issued[c] + 1
    BY <1>4 DEF InitCode, PairTypeOK
  <2> QED
    BY <1>4, <2>1, <2>2, OneTimeFrame DEF InitCode
<1>5. ASSUME NEW r \in Requests, CheckLocked(r)
      PROVE  devices'[c] + failed'[c] + Cardinality(Creating(c))' + Outstanding(c)' <= issued'[c]
  <2>1. Creating(c)' = Creating(c)
    BY <1>5 DEF CheckLocked, Creating, NoRequest, PairTypeOK
  <2> QED
    BY <1>5, <2>1, OneTimeFrame DEF CheckLocked
<1>6. ASSUME NEW r \in Requests, CheckFail(r)
      PROVE  devices'[c] + failed'[c] + Cardinality(Creating(c))' + Outstanding(c)' <= issued'[c]
  <2>1. Creating(c)' = Creating(c)
    BY <1>6 DEF CheckFail, Creating, NoRequest, PairTypeOK
  <2>2. codes'[c] # Absent => codes[c] # Absent
    BY <1>6 DEF CheckFail, PairTypeOK
  <2>3. devices'[c] = devices[c] /\ failed'[c] = failed[c] /\ issued'[c] = issued[c]
    BY <1>6 DEF CheckFail
  <2> QED
    BY <2>1, <2>2, <2>3, OneTimeFrame
<1>7. ASSUME NEW r \in Requests, CheckOk(r)
      PROVE  devices'[c] + failed'[c] + Cardinality(Creating(c))' + Outstanding(c)' <= issued'[c]
  <2>1. devices'[c] = devices[c] /\ failed'[c] = failed[c] /\ issued'[c] = issued[c]
    BY <1>7 DEF CheckOk
  <2>2. CASE req[r].code # c
    <3>1. Creating(c)' = Creating(c)
      BY <1>7, <2>2 DEF CheckOk, Creating, PairTypeOK
    <3>2. codes'[c] # Absent => codes[c] # Absent
      BY <1>7 DEF CheckOk, PairTypeOK
    <3> QED
      BY <2>1, <3>1, <3>2, OneTimeFrame
  <2>3. CASE req[r].code = c
    <3>1. Creating(c)' = Creating(c) \cup {r} /\ r \notin Creating(c)
      BY <1>7, <2>3 DEF CheckOk, Creating, PairTypeOK
    <3>2. Cardinality(Creating(c))' = Cardinality(Creating(c)) + 1
      BY <1>0, <3>1, FS_AddElement
    <3>3. Outstanding(c) = 1 /\ Outstanding(c)' = 0
      BY <1>7, <2>3 DEF CheckOk, Valid, Outstanding, PairTypeOK
    <3> HIDE DEF Outstanding, Creating
    <3> QED
      BY <1>0, <2>1, <3>2, <3>3
  <2> QED
    BY <2>2, <2>3
<1>8. ASSUME NEW r \in Requests, CreateDevice(r)
      PROVE  devices'[c] + failed'[c] + Cardinality(Creating(c))' + Outstanding(c)' <= issued'[c]
  <2>1. issued'[c] = issued[c] /\ codes' = codes /\ Outstanding(c)' = Outstanding(c)
    BY <1>8 DEF CreateDevice, Outstanding
  <2>2. CASE req[r].code # c
    <3>1. Creating(c)' = Creating(c)
      BY <1>8, <2>2 DEF CreateDevice, Creating, NoRequest, PairTypeOK
    <3>2. devices'[c] = devices[c] /\ failed'[c] = failed[c]
      BY <1>8, <2>2 DEF CreateDevice, PairTypeOK
    <3> QED
      BY <2>1, <3>1, <3>2, OneTimeFrame
  <2>3. CASE req[r].code = c
    <3>1. Creating(c)' = Creating(c) \ {r} /\ r \in Creating(c)
      BY <1>8, <2>3 DEF CreateDevice, Creating, NoRequest, PairTypeOK
    <3>2. Cardinality(Creating(c))' = Cardinality(Creating(c)) - 1
      BY <1>0, <3>1, FS_RemoveElement
    <3>3. devices'[c] + failed'[c] = devices[c] + failed[c] + 1
      BY <1>8, <2>3 DEF CreateDevice, PairTypeOK
    <3>4. devices'[c] \in Nat /\ failed'[c] \in Nat
      BY DEF PairTypeOK
    <3> HIDE DEF Outstanding, Creating
    <3> QED
      BY <1>0, <2>1, <3>2, <3>3, <3>4
  <2> QED
    BY <2>2, <2>3
<1> QED
  BY <1>1, <1>2, <1>3, <1>4, <1>5, <1>6, <1>7, <1>8 DEF Next

\* No issued pairing code pairs more than one device, whatever the interleaving
\* of requests, failing inserts and restarts.
THEOREM CodesAreOneTime == Spec => []OneTime
<1>1. Init => OneTime
  <2> SUFFICES ASSUME Init, NEW c \in Codes
               PROVE  devices[c] + failed[c] + Cardinality(Creating(c)) + Outstanding(c) <= issued[c]
    BY DEF OneTime
  <2>1. Creating(c) = {} /\ Outstanding(c) = 0
    BY DEF Init, Creating, NoRequest, Outstanding
  <2>2. Cardinality(Creating(c)) = 0
    BY <2>1, FS_EmptySet
  <2>3. devices[c] = 0 /\ failed[c] = 0 /\ issued[c] = 0
    BY DEF Init
  <2> HIDE DEF Outstanding, Creating
  <2> QED
    BY <2>1, <2>2, <2>3
<1> QED
  BY <1>1, PairTypeCorrect, OneTimeStep, PTL DEF Spec

(***************************************************************************)
(* The lockout                                                             *)
(***************************************************************************)

\* Where failCount stands in the history: the attempt just before the failCount
\* last ones is a success, the start, or the failure that set the lock, in which
\* case the lock has been waited for by the attempt after it.
CountInv ==
  /\ failCount <= Len(attempts)
  /\ LET k == Len(attempts) - failCount IN
     k > 0 /\ ~attempts[k].ok =>
       /\ failCount = 0 => lockedUntil = attempts[k].now + LockDuration
       /\ failCount > 0 => attempts[k + 1].now >= attempts[k].now + LockDuration

\* What an attempt appends to the history.
LEMMA AppendFacts ==
  ASSUME NEW s \in Seq(Attempt), NEW a \in Attempt
  PROVE  /\ Len(Append(s, a)) = Len(s) + 1 /\ Len(s) \in Nat
         /\ \A k \in 1 .. Len(s) : Append(s, a)[k] = s[k]
         /\ Append(s, a)[Len(s) + 1] = a
         /\ \A k \in 1 .. Len(s) : s[k].now \in Nat
<1>1. \A k \in 1 .. Len(s) : s[k] \in Attempt
  OBVIOUS
<1>2. \A x \in Attempt : x.now \in Nat
  BY PairAssumption DEF Attempt
<1> QED
  BY <1>1, <1>2

\* A failure moves the count on, or locks and starts it again.
LEMMA FailCount ==
  ASSUME PairTypeOK, CountInv, NEW r \in Requests, CheckFail(r)
  PROVE  CountInv'
<1>1. req[r] \in Request
  BY DEF PairTypeOK, CheckFail, NoRequest
<1>2. PICK t \in Nat : t = req[r].now /\ [ok |-> FALSE, now |-> t] \in Attempt
  BY <1>1 DEF Request, Attempt
<1>3. /\ attempts' = Append(attempts, [ok |-> FALSE, now |-> t])
      /\ t >= lockedUntil
      /\ failCount \in Nat /\ lockedUntil \in Nat /\ attempts \in Seq(Attempt)
  BY <1>2 DEF CheckFail, Locked, PairTypeOK
<1>4. /\ Len(attempts') = Len(attempts) + 1 /\ Len(attempts) \in Nat
      /\ \A k \in 1 .. Len(attempts) : attempts'[k] = attempts[k]
      /\ attempts'[Len(attempts) + 1].now = t
      /\ ~attempts'[Len(attempts) + 1].ok
      /\ \A k \in 1 .. Len(attempts) : attempts[k].now \in Nat
  <2>1. attempts'[Len(attempts) + 1] = [ok |-> FALSE, now |-> t]
    BY <1>2, <1>3, AppendFacts
  <2> QED
    BY <1>2, <1>3, <2>1, AppendFacts
<1>0. failCount \in Nat /\ failCount < MaxVerifyFails /\ (failCount = 0 \/ failCount > 0) /\ t >= lockedUntil
  BY <1>3, PairAssumption DEF PairTypeOK
<1>5. CASE LocksAt(failCount + 1)
  <2>1. lockedUntil' = t + LockDuration /\ failCount' = 0
    BY <1>2, <1>5 DEF CheckFail
  <2> QED
    BY <1>2, <1>4, <2>1 DEF CountInv
<1>6. CASE ~LocksAt(failCount + 1)
  <2>1. lockedUntil' = lockedUntil /\ failCount' = failCount + 1
    BY <1>6 DEF CheckFail
  <2>2. failCount' <= Len(attempts') /\ Len(attempts') - failCount' = Len(attempts) - failCount
    BY <1>3, <1>4, <2>1 DEF CountInv
  <2>3. PICK k \in Int : k = Len(attempts) - failCount
    BY <1>0, <1>4
  <2>4. ASSUME k > 0, ~attempts'[k].ok PROVE attempts'[k + 1].now >= attempts'[k].now + LockDuration
    <3>1. k \in 1 .. Len(attempts) /\ attempts'[k] = attempts[k]
      BY <1>3, <1>4, <2>3, <2>4 
    <3>2. CASE failCount = 0
      <4>1. lockedUntil = attempts[k].now + LockDuration
        BY <2>3, <2>4, <3>1, <3>2 DEF CountInv
      <4>2. attempts'[k + 1].now = t
        BY <1>4, <2>3, <3>2
      <4> QED
        BY <1>0, <3>1, <4>1, <4>2
    <3>3. CASE failCount > 0
      <4>1. attempts[k + 1].now >= attempts[k].now + LockDuration
        BY <2>3, <2>4, <3>1, <3>3 DEF CountInv
      <4>2. attempts'[k + 1] = attempts[k + 1]
        BY <1>3, <1>4, <2>3, <3>1, <3>3
      <4> QED
        BY <3>1, <4>1, <4>2
    <3> QED
      BY <1>0, <3>2, <3>3
  <2> QED
    BY <1>0, <2>1, <2>2, <2>3, <2>4 DEF CountInv
<1> QED
  BY <1>5, <1>6

\* Every step keeps the place of the failure count.
LEMMA CountStep == PairTypeOK /\ CountInv /\ [Next]_vars => CountInv'
<1> SUFFICES ASSUME PairTypeOK, CountInv, [Next]_vars PROVE CountInv'
  OBVIOUS
<1>1. CASE UNCHANGED <<failCount, lockedUntil, attempts>>
  BY <1>1 DEF CountInv
<1>2. CASE Restart
  BY <1>2 DEF Restart, CountInv
<1>3. ASSUME NEW r \in Requests, CheckOk(r) PROVE CountInv'
  <2>1. req[r] \in Request
    BY <1>3 DEF PairTypeOK, CheckOk, NoRequest
  <2>2. PICK a \in Attempt : a.ok = TRUE /\ attempts' = Append(attempts, a)
    BY <1>3, <2>1 DEF CheckOk, Request, Attempt
  <2>3. attempts \in Seq(Attempt) /\ failCount' = 0
    BY <1>3 DEF CheckOk, PairTypeOK
  <2>4. Len(attempts') = Len(attempts) + 1 /\ Len(attempts) \in Nat /\ attempts'[Len(attempts) + 1] = a
    BY <2>2, <2>3, AppendFacts
  <2> QED
    BY <2>2, <2>3, <2>4 DEF CountInv
<1> QED
  BY <1>1, <1>2, <1>3, FailCount
     DEF Next, Tick, Start, InitCode, CheckLocked, CreateDevice, vars

\* A failure keeps the brake: if it completes a run of MaxVerifyFails + 1, the
\* failure that set the last lock is in the run, followed by one that waited.
LEMMA FailBrake ==
  ASSUME PairTypeOK, CountInv, CountInv', BruteForceBrake, NEW r \in Requests, CheckFail(r)
  PROVE  BruteForceBrake'
<1>1. req[r] \in Request
  BY DEF PairTypeOK, CheckFail, NoRequest
<1>2. PICK t \in Nat : t = req[r].now /\ [ok |-> FALSE, now |-> t] \in Attempt
  BY <1>1 DEF Request, Attempt
<1>3. /\ attempts' = Append(attempts, [ok |-> FALSE, now |-> t])
      /\ t >= lockedUntil
      /\ failCount \in 0 .. MaxVerifyFails - 1 /\ attempts \in Seq(Attempt)
  BY <1>2 DEF CheckFail, Locked, PairTypeOK
<1>4. /\ Len(attempts') = Len(attempts) + 1 /\ Len(attempts) \in Nat
      /\ \A k \in 1 .. Len(attempts) : attempts'[k] = attempts[k]
      /\ attempts'[Len(attempts) + 1].now = t
      /\ ~attempts'[Len(attempts) + 1].ok
      /\ \A k \in 1 .. Len(attempts) : attempts[k].now \in Nat
  <2>1. attempts'[Len(attempts) + 1] = [ok |-> FALSE, now |-> t]
    BY <1>2, <1>3, AppendFacts
  <2> QED
    BY <1>2, <1>3, <2>1, AppendFacts
<1>0. failCount \in Nat /\ failCount < MaxVerifyFails /\ (failCount = 0 \/ failCount > 0) /\ t >= lockedUntil
  BY <1>3, PairAssumption DEF PairTypeOK
<1>5. PICK n \in Nat : n = Len(attempts) /\ MaxVerifyFails \in Nat \ {0} /\ LockDuration \in Nat
  BY <1>4, PairAssumption
<1> SUFFICES ASSUME NEW i \in 1 .. n + 1 - MaxVerifyFails,
                    \A j \in i .. i + MaxVerifyFails : ~attempts'[j].ok
             PROVE  \E j \in i .. i + MaxVerifyFails - 1 :
                      attempts'[j + 1].now >= attempts'[j].now + LockDuration
  BY <1>4, <1>5 DEF BruteForceBrake
<1>6. CASE i <= n - MaxVerifyFails
  <2>1. \A j \in i .. i + MaxVerifyFails : attempts'[j] = attempts[j]
    BY <1>4, <1>5, <1>6
  <2>2. \E j \in i .. i + MaxVerifyFails - 1 : attempts[j + 1].now >= attempts[j].now + LockDuration
    <3>1. i \in 1 .. Len(attempts) - MaxVerifyFails
      BY <1>5, <1>6
    <3>2. \A j \in i .. i + MaxVerifyFails : ~attempts[j].ok
      BY <2>1
    <3> QED
      BY <3>1, <3>2 DEF BruteForceBrake
  <2>3. PICK j \in i .. i + MaxVerifyFails - 1 : attempts[j + 1].now >= attempts[j].now + LockDuration
    BY <2>2
  <2>4. j \in i .. i + MaxVerifyFails /\ j + 1 \in i .. i + MaxVerifyFails
    BY <1>5, <2>3
  <2> QED
    BY <2>1, <2>3, <2>4
<1>7. CASE i = n + 1 - MaxVerifyFails
  <2>0. n - failCount \in Int
    BY <1>0
  <2>1. PICK k \in Int : k = n - failCount
    BY <2>0
  <2>2. k \in i .. i + MaxVerifyFails - 1 /\ k \in 1 .. n
    BY <1>0, <1>5, <1>7, <2>1
  <2>3. ~attempts[k].ok /\ attempts'[k] = attempts[k]
    BY <1>4, <1>5, <2>2
  <2>4. attempts'[k + 1].now >= attempts'[k].now + LockDuration
    <3>1. CASE failCount = 0
      <4>1. lockedUntil = attempts[k].now + LockDuration
        BY <1>5, <2>1, <2>2, <2>3, <3>1 DEF CountInv
      <4>2. attempts'[k + 1].now = t
        BY <1>4, <1>5, <2>1, <3>1
      <4> QED
        BY <1>0, <2>3, <4>1, <4>2
    <3>2. CASE failCount > 0
      <4>1. attempts[k + 1].now >= attempts[k].now + LockDuration
        BY <1>5, <2>1, <2>2, <2>3, <3>2 DEF CountInv
      <4>2. attempts'[k + 1] = attempts[k + 1]
        BY <1>3, <1>4, <1>5, <2>1, <2>2, <3>2
      <4> QED
        BY <2>3, <4>1, <4>2
    <3> QED
      BY <1>0, <3>1, <3>2
  <2> QED
    BY <2>2, <2>4
<1> QED
  BY <1>5, <1>6, <1>7

\* Every step keeps the brake.
LEMMA BrakeStep == PairTypeOK /\ CountInv /\ CountInv' /\ BruteForceBrake /\ [Next]_vars => BruteForceBrake'
<1> SUFFICES ASSUME PairTypeOK, CountInv, CountInv', BruteForceBrake, [Next]_vars PROVE BruteForceBrake'
  OBVIOUS
<1>1. CASE UNCHANGED attempts
  BY <1>1 DEF BruteForceBrake
<1>2. CASE Restart
  BY <1>2, PairAssumption DEF Restart, BruteForceBrake
<1>3. ASSUME NEW r \in Requests, CheckOk(r) PROVE BruteForceBrake'
  <2>1. req[r] \in Request
    BY <1>3 DEF PairTypeOK, CheckOk, NoRequest
  <2>2. PICK a \in Attempt : a.ok = TRUE /\ attempts' = Append(attempts, a)
    BY <1>3, <2>1 DEF CheckOk, Request, Attempt
  <2>3. attempts \in Seq(Attempt)
    BY DEF PairTypeOK
  <2>4. /\ Len(attempts') = Len(attempts) + 1 /\ Len(attempts) \in Nat
        /\ \A k \in 1 .. Len(attempts) : attempts'[k] = attempts[k]
        /\ attempts'[Len(attempts) + 1] = a
    BY <2>2, <2>3, AppendFacts
  <2>5. PICK n \in Nat : n = Len(attempts) /\ MaxVerifyFails \in Nat \ {0}
    BY <2>4, PairAssumption
  <2> SUFFICES ASSUME NEW i \in 1 .. n + 1 - MaxVerifyFails,
                      \A j \in i .. i + MaxVerifyFails : ~attempts'[j].ok
               PROVE  \E j \in i .. i + MaxVerifyFails - 1 :
                        attempts'[j + 1].now >= attempts'[j].now + LockDuration
    BY <2>4, <2>5 DEF BruteForceBrake
  <2>6. i <= n - MaxVerifyFails
    BY <2>2, <2>4, <2>5
  <2>7. \A j \in i .. i + MaxVerifyFails : attempts'[j] = attempts[j]
    BY <2>4, <2>5, <2>6
  <2>8. \E j \in i .. i + MaxVerifyFails - 1 : attempts[j + 1].now >= attempts[j].now + LockDuration
    BY <2>5, <2>6, <2>7 DEF BruteForceBrake
  <2> QED
    BY <2>5, <2>7, <2>8
<1> QED
  BY <1>1, <1>2, <1>3, FailBrake
     DEF Next, Tick, Start, InitCode, CheckLocked, CreateDevice, vars

\* Guessing is braked: among MaxVerifyFails + 1 failures in a row, two
\* neighbours are lockDuration apart.
THEOREM GuessingIsBraked == Spec => []BruteForceBrake
<1>1. Init => CountInv /\ BruteForceBrake
  BY PairAssumption DEF Init, CountInv, BruteForceBrake
<1> QED
  BY <1>1, PairTypeCorrect, CountStep, BrakeStep, PTL DEF Spec

\* The time a request has read is not ahead of the clock.
LEMMA NoFutureTimes == Spec => [](\A r \in Requests : req[r] # NoRequest => req[r].now <= clock)
<1> DEFINE I == \A r \in Requests : req[r] # NoRequest => req[r].now <= clock
<1>1. Init => I
  BY DEF Init
<1>2. PairTypeOK /\ I /\ [Next]_vars => I'
  <2> SUFFICES ASSUME PairTypeOK, I, [Next]_vars, NEW q \in Requests, req'[q] # NoRequest
               PROVE  req'[q].now <= clock'
    OBVIOUS
  <2>1. clock \in Nat /\ clock' >= clock /\ (clock' = clock \/ clock' = clock + 1)
    <3>1. clock \in Nat
      BY DEF PairTypeOK
    <3>2. Tick \/ clock' = clock
      BY DEF Next, Restart, Start, InitCode, CheckLocked, CheckOk, CheckFail, CreateDevice, vars
    <3> QED
      BY <3>1, <3>2 DEF Tick
  <2>2. ASSUME req[q] # NoRequest, req'[q].now = req[q].now PROVE req'[q].now <= clock'
    <3>1. req[q].now \in Nat /\ req[q].now <= clock
      BY <2>2 DEF PairTypeOK, Request
    <3> QED
      BY <2>1, <2>2, <3>1
  <2>3. CASE UNCHANGED req
    BY <2>2, <2>3
  <2>4. ASSUME NEW r \in Requests, NEW op, NEW c \in Codes, Start(r, op, c) PROVE req'[q].now <= clock'
    <3>1. CASE q = r
      BY <2>4, <3>1, <2>1 DEF Start, PairTypeOK
    <3>2. CASE q # r
      BY <2>4, <3>2, <2>2 DEF Start, PairTypeOK
    <3> QED
      BY <3>1, <3>2
  <2>5. ASSUME NEW r \in Requests, req' = [req EXCEPT ![r] = NoRequest] PROVE req'[q].now <= clock'
    BY <2>2, <2>5 DEF PairTypeOK
  <2>6. ASSUME NEW r \in Requests, CheckOk(r) PROVE req'[q].now <= clock'
    <3>1. req[r] \in Request /\ req[r] # NoRequest
      BY <2>6 DEF CheckOk, PairTypeOK, NoRequest
    <3>2. req'[q].now = req[q].now /\ req[q] # NoRequest
      BY <2>6, <3>1 DEF CheckOk, PairTypeOK, Request
    <3> QED
      BY <2>2, <3>2
  <2>7. CASE Restart
    BY <2>7 DEF Restart
  <2> QED
    BY <2>3, <2>4, <2>5, <2>6, <2>7
       DEF Next, Tick, InitCode, CheckLocked, CheckFail, CreateDevice, vars
<1> QED
  BY <1>1, <1>2, PairTypeCorrect, PTL DEF Spec

\* A lockout in force verifies nothing and is not cut short, except by a restart.
THEOREM LockoutIsKept == Spec => LockoutHolds
<1>1. ASSUME PairTypeOK, \A r \in Requests : req[r] # NoRequest => req[r].now <= clock,
             [Next]_vars, clock < lockedUntil, lockedUntil' # 0
      PROVE  attempts' = attempts /\ lockedUntil' = lockedUntil
  <2>1. ASSUME NEW r \in Requests, CheckOk(r) \/ CheckFail(r) PROVE FALSE
    <3>1. req[r] \in Request /\ req[r] # NoRequest
      <4>1. req[r].at = "verify"
        <5>1. CASE CheckOk(r)
          BY <5>1 DEF CheckOk
        <5>2. CASE CheckFail(r)
          BY <5>2 DEF CheckFail
        <5> QED
          BY <2>1, <5>1, <5>2
      <4> QED
        BY <1>1, <4>1 DEF PairTypeOK, NoRequest
    <3>2. req[r].now <= clock /\ req[r].now \in Nat /\ clock \in Nat /\ lockedUntil \in Nat
      BY <1>1, <3>1 DEF PairTypeOK, Request
    <3> QED
      BY <1>1, <2>1, <3>2 DEF CheckOk, CheckFail, Locked
  <2> QED
    BY <1>1, <2>1 DEF Next, Tick, Restart, Start, InitCode, CheckLocked, CreateDevice, vars
<1> QED
  BY <1>1, PairTypeCorrect, NoFutureTimes, PTL DEF Spec, LockoutHolds
(***************************************************************************)
(* The claim limiter: what the limiter forgets no longer counts            *)
(***************************************************************************)

LimiterTypes ==
  /\ wall \in Nat /\ blacklist \in Nat
  /\ now \in [Claimers -> Nat \cup {Waiting}]
  /\ granted \in Seq(Nat) /\ banned \in Seq(Nat)
  /\ events \subseteq DOMAIN granted

\* A time read or granted is not ahead of the clock, and one that waits for
\* the mutex is at most MaxLag behind it.
Clocks ==
  /\ \A c \in Claimers : now[c] # Waiting => now[c] <= wall /\ wall - now[c] <= MaxLag
  /\ \A i \in DOMAIN granted : granted[i] <= wall

\* A grant the limiter no longer holds is older than the window, by the clock
\* or by the end of the ban that emptied the window.
Kept ==
  \A i \in DOMAIN granted :
    i \in events \/ granted[i] + Window <= wall \/ granted[i] + Window <= blacklist

\* A ban is over no earlier than the blacklist says.
BansKept == \A i \in DOMAIN banned : banned[i] + BlackFor <= blacklist

LimiterInv == LimiterTypes /\ Clocks /\ Kept /\ BansKept

\* A session that has read the clock has read a time, and the lag bounds the rest.
LEMMA TimeRead ==
  ASSUME LimiterInv, NEW c \in Claimers, now[c] # Waiting
  PROVE  now[c] \in Nat /\ now[c] <= wall /\ wall <= now[c] + MaxLag /\ wall \in Nat
<1>1. now[c] \in Nat /\ wall \in Nat /\ MaxLag \in Nat
  BY LimiterAssumption DEF LimiterInv, LimiterTypes
<1> QED
  BY <1>1 DEF LimiterInv, Clocks

\* Appending a time keeps the others and makes it the last.
LEMMA AppendTime ==
  ASSUME NEW s \in Seq(Nat), NEW t \in Nat
  PROVE  /\ Append(s, t) \in Seq(Nat)
         /\ Len(s) \in Nat /\ DOMAIN s = 1 .. Len(s)
         /\ DOMAIN Append(s, t) = 1 .. Len(s) + 1
         /\ \A i \in DOMAIN s : Append(s, t)[i] = s[i] /\ s[i] \in Nat
         /\ Append(s, t)[Len(s) + 1] = t
         /\ Last(Append(s, t)) = t
  BY DEF Last

\* A ban empties the window and keeps the invariant: whatever was granted is
\* older than the window when the ban ends, because a ban outlasts the window
\* and the lag.
LEMMA BanKeeps == ASSUME LimiterInv, NEW c \in Claimers, Ban(c) PROVE LimiterInv'
<1>1. PICK n \in Nat : n = now[c]
  BY TimeRead DEF Ban
<1>2. n <= wall /\ wall <= n + MaxLag /\ wall \in Nat
  BY <1>1, TimeRead DEF Ban
<1>3. /\ Window \in Nat /\ BlackFor \in Nat /\ MaxLag \in Nat /\ BlackFor >= Window + MaxLag
  BY LimiterAssumption
<1>4. /\ blacklist' = n + BlackFor /\ events' = {} /\ banned' = Append(banned, n)
      /\ now' = [now EXCEPT ![c] = Waiting] /\ wall' = wall /\ granted' = granted
      /\ blacklist <= n
  BY <1>1 DEF Ban, Blacklisted, LimiterInv, LimiterTypes
<1>5. /\ now \in [Claimers -> Nat \cup {Waiting}] /\ blacklist \in Nat
      /\ granted \in Seq(Nat) /\ banned \in Seq(Nat)
  BY DEF LimiterInv, LimiterTypes
<1>6. LimiterTypes'
  BY <1>2, <1>3, <1>4, <1>5 DEF LimiterTypes
<1>7. Clocks'
  BY <1>4, <1>5 DEF LimiterInv, Clocks
<1>8. Kept'
  <2> SUFFICES ASSUME NEW i \in DOMAIN granted PROVE granted[i] + Window <= n + BlackFor
    BY <1>4 DEF Kept
  <2>1. granted[i] \in Nat /\ granted[i] <= wall
    BY <1>5 DEF LimiterInv, Clocks
  <2> QED
    BY <1>2, <1>3, <2>1
<1>9. BansKept'
  <2> SUFFICES ASSUME NEW i \in DOMAIN banned' PROVE banned'[i] + BlackFor <= n + BlackFor
    BY <1>4 DEF BansKept
  <2>1. CASE i = Len(banned) + 1
    BY <1>3, <1>4, <1>5, <2>1, AppendTime
  <2>2. CASE i \in DOMAIN banned
    <3>1. banned'[i] = banned[i] /\ banned[i] \in Nat
      BY <1>4, <1>5, <2>2, AppendTime
    <3>2. banned[i] + BlackFor <= blacklist
      BY <2>2 DEF LimiterInv, BansKept
    <3> QED
      BY <1>3, <1>4, <1>5, <3>1, <3>2
  <2> QED
    BY <1>4, <1>5, <2>1, <2>2, AppendTime
<1> QED
  BY <1>6, <1>7, <1>8, <1>9 DEF LimiterInv

\* A grant keeps the invariant: what it drops from the window is too old by the
\* time it has read, and the clock is not behind that time.
LEMMA GrantKeeps == ASSUME LimiterInv, NEW c \in Claimers, Grant(c) PROVE LimiterInv'
<1>1. PICK n \in Nat : n = now[c]
  BY TimeRead DEF Grant
<1>2. n <= wall /\ wall <= n + MaxLag /\ wall \in Nat /\ Window \in Nat
  BY <1>1, TimeRead, LimiterAssumption DEF Grant
<1>3. /\ events' = Recent(n) \cup {Len(granted) + 1} /\ granted' = Append(granted, n)
      /\ now' = [now EXCEPT ![c] = Waiting]
      /\ wall' = wall /\ blacklist' = blacklist /\ banned' = banned
  BY <1>1 DEF Grant
<1>4. /\ now \in [Claimers -> Nat \cup {Waiting}] /\ blacklist \in Nat
      /\ granted \in Seq(Nat) /\ banned \in Seq(Nat) /\ events \subseteq DOMAIN granted
  BY DEF LimiterInv, LimiterTypes
<1>5. /\ granted' \in Seq(Nat) /\ Len(granted) \in Nat /\ DOMAIN granted = 1 .. Len(granted)
      /\ DOMAIN granted' = 1 .. Len(granted) + 1
      /\ \A i \in DOMAIN granted : granted'[i] = granted[i] /\ granted[i] \in Nat
      /\ granted'[Len(granted) + 1] = n
  BY <1>3, <1>4, AppendTime
<1>6. LimiterTypes'
  <2>1. events' \subseteq DOMAIN granted'
    BY <1>3, <1>4, <1>5 DEF Recent
  <2> QED
    BY <1>2, <1>3, <1>4, <1>5, <2>1 DEF LimiterTypes
<1>7. Clocks'
  <2>1. \A d \in Claimers : now'[d] # Waiting => now'[d] <= wall' /\ wall' - now'[d] <= MaxLag
    BY <1>3, <1>4 DEF LimiterInv, Clocks
  <2>2. ASSUME NEW i \in DOMAIN granted' PROVE granted'[i] <= wall'
    <3>1. i = Len(granted) + 1 \/ i \in DOMAIN granted
      BY <1>5
    <3> QED
      BY <1>2, <1>3, <1>5, <3>1 DEF LimiterInv, Clocks
  <2> QED
    BY <2>1, <2>2 DEF Clocks
<1>8. Kept'
  <2> SUFFICES ASSUME NEW i \in DOMAIN granted'
               PROVE  i \in events' \/ granted'[i] + Window <= wall \/ granted'[i] + Window <= blacklist
    BY <1>3 DEF Kept
  <2>1. CASE i = Len(granted) + 1
    BY <1>3, <2>1
  <2>2. CASE i \in DOMAIN granted
    <3>1. i \in events \/ granted[i] + Window <= wall \/ granted[i] + Window <= blacklist
      BY <2>2 DEF LimiterInv, Kept
    <3>2. ASSUME i \in events, i \notin events' PROVE granted[i] + Window <= wall
      BY <1>2, <1>3, <1>5, <2>2, <3>2 DEF Recent
    <3> QED
      BY <1>5, <2>2, <3>1, <3>2
  <2> QED
    BY <1>5, <2>1, <2>2
<1>9. BansKept'
  BY <1>3 DEF LimiterInv, BansKept
<1> QED
  BY <1>6, <1>7, <1>8, <1>9 DEF LimiterInv

\* Every step of the limiter keeps the invariant.
LEMMA LimiterKeeps == LimiterInv /\ [LimiterNext]_limiterVars => LimiterInv'
<1> SUFFICES ASSUME LimiterInv, [LimiterNext]_limiterVars PROVE LimiterInv'
  OBVIOUS
<1>1. CASE LimiterTick
  <2>1. wall \in Nat /\ wall' = wall + 1 /\ Window \in Nat /\ MaxLag \in Nat /\ blacklist \in Nat
    BY <1>1, LimiterAssumption DEF LimiterTick, LimiterInv, LimiterTypes
  <2>2. now \in [Claimers -> Nat \cup {Waiting}] /\ granted \in Seq(Nat)
    BY DEF LimiterInv, LimiterTypes
  <2>3. LimiterTypes'
    BY <1>1, <2>1 DEF LimiterTick, LimiterInv, LimiterTypes
  <2>4. Clocks'
    <3>1. ASSUME NEW c \in Claimers, now[c] # Waiting PROVE now[c] <= wall' /\ wall' - now[c] <= MaxLag
      <4>1. now[c] \in Nat /\ now[c] <= wall /\ wall - now[c] < MaxLag
        BY <1>1, <2>2, <3>1 DEF LimiterTick, LimiterInv, Clocks
      <4> QED
        BY <2>1, <4>1
    <3>2. \A i \in DOMAIN granted : granted[i] \in Nat /\ granted[i] <= wall
      BY <2>2 DEF LimiterInv, Clocks
    <3> QED
      BY <1>1, <2>1, <3>1, <3>2 DEF LimiterTick, Clocks
  <2>5. Kept'
    <3>1. \A i \in DOMAIN granted : granted[i] \in Nat
      BY <2>2
    <3> QED
      BY <1>1, <2>1, <3>1 DEF LimiterTick, LimiterInv, Kept
  <2>6. BansKept'
    BY <1>1 DEF LimiterTick, LimiterInv, BansKept
  <2> QED
    BY <2>3, <2>4, <2>5, <2>6 DEF LimiterInv
<1>2. ASSUME NEW c \in Claimers, NEW t \in {wall, Waiting}, now' = [now EXCEPT ![c] = t],
             UNCHANGED <<wall, events, blacklist, granted, banned>>
      PROVE  LimiterInv'
  <2>1. wall \in Nat /\ MaxLag \in Nat /\ now \in [Claimers -> Nat \cup {Waiting}]
    BY LimiterAssumption DEF LimiterInv, LimiterTypes
  <2>2. now' \in [Claimers -> Nat \cup {Waiting}]
    BY <1>2, <2>1
  <2>3. LimiterTypes'
    BY <1>2, <2>2 DEF LimiterInv, LimiterTypes
  <2>4. \A d \in Claimers : now'[d] # Waiting => now'[d] <= wall /\ wall - now'[d] <= MaxLag
    BY <1>2, <2>1 DEF LimiterInv, Clocks
  <2>5. Clocks'
    BY <1>2, <2>4 DEF LimiterInv, Clocks
  <2> QED
    BY <1>2, <2>3, <2>5 DEF LimiterInv, Kept, BansKept
<1>3. CASE UNCHANGED limiterVars
  BY <1>3 DEF limiterVars, LimiterInv, LimiterTypes, Clocks, Kept, BansKept
<1> QED
  BY <1>1, <1>2, <1>3, BanKeeps, GrantKeeps DEF LimiterNext, ReadClock, Refuse

\* The limiter's invariant holds in all its behaviours.
LEMMA LimiterHolds == LimiterSpec => []LimiterInv
<1>1. LimiterInit => LimiterInv
  BY DEF LimiterInit, LimiterInv, LimiterTypes, Clocks, Kept, BansKept, Waiting
<1> QED
  BY <1>1, LimiterKeeps, PTL DEF LimiterSpec

(***************************************************************************)
(* Budgets and bans                                                        *)
(***************************************************************************)

\* The grants with a time in the span that starts at t.
InSpan(t) == {i \in DOMAIN granted : granted[i] \in t .. t + Window - MaxLag - 1}

\* A grant whose time lies in a span finds the span's other grants in its
\* window: none of them was forgotten, so there were fewer than Budget.
LEMMA GrantInBudget ==
  ASSUME LimiterInv, NEW c \in Claimers, Grant(c),
         NEW t \in Nat, now[c] \in t .. t + Window - MaxLag - 1
  PROVE  IsFiniteSet(InSpan(t)) /\ Cardinality(InSpan(t)) < Budget
<1>1. PICK n \in Nat : n = now[c]
  BY TimeRead DEF Grant
<1>2. /\ n <= wall /\ wall <= n + MaxLag /\ wall \in Nat /\ n \in t .. t + Window - MaxLag - 1
      /\ Window \in Nat /\ MaxLag \in Nat /\ Budget \in Nat
  BY <1>1, TimeRead, LimiterAssumption DEF Grant
<1>3. /\ blacklist \in Nat /\ granted \in Seq(Nat) /\ events \subseteq DOMAIN granted
      /\ DOMAIN granted = 1 .. Len(granted) /\ Len(granted) \in Nat
  BY DEF LimiterInv, LimiterTypes
<1>4. blacklist <= n /\ ~Full(n)
  BY <1>1, <1>3 DEF Grant, Blacklisted
<1>5. InSpan(t) \subseteq Recent(n)
  <2> SUFFICES ASSUME NEW i \in InSpan(t) PROVE i \in Recent(n)
    OBVIOUS
  <2>1. i \in DOMAIN granted /\ granted[i] \in Nat /\ granted[i] >= t
    BY <1>2, <1>3 DEF InSpan
  <2>2. n - granted[i] < Window /\ ~(granted[i] + Window <= wall) /\ ~(granted[i] + Window <= blacklist)
    BY <1>2, <1>3, <1>4, <2>1
  <2>3. i \in events
    BY <2>1, <2>2 DEF LimiterInv, Kept
  <2> QED
    BY <2>2, <2>3 DEF Recent
<1>6. IsFiniteSet(Recent(n))
  <2>1. IsFiniteSet(1 .. Len(granted)) /\ Recent(n) \subseteq 1 .. Len(granted)
    BY <1>3, FS_Interval DEF Recent
  <2> QED
    BY <2>1, FS_Subset
<1>7. Cardinality(Recent(n)) \in Nat /\ Cardinality(Recent(n)) < Budget
  BY <1>2, <1>4, <1>6, FS_CardinalityType DEF Full
<1>8. /\ IsFiniteSet(InSpan(t)) /\ Cardinality(InSpan(t)) \in Nat
      /\ Cardinality(InSpan(t)) <= Cardinality(Recent(n))
  BY <1>5, <1>6, FS_Subset, FS_CardinalityType
<1> QED
  BY <1>2, <1>7, <1>8

\* Every step keeps the budget of every span.
LEMMA BudgetStep ==
  LimiterInv /\ BudgetPerWindow /\ [LimiterNext]_limiterVars => BudgetPerWindow'
<1> SUFFICES ASSUME LimiterInv, BudgetPerWindow, [LimiterNext]_limiterVars,
                    NEW t \in 0 .. MaxWall
             PROVE  Cardinality(InSpan(t)') <= Budget
  BY DEF BudgetPerWindow, InSpan
<1>1. t \in Nat /\ Budget \in Nat /\ Cardinality(InSpan(t)) <= Budget
  BY LimiterAssumption DEF BudgetPerWindow, InSpan
<1>2. CASE granted' = granted
  BY <1>1, <1>2 DEF InSpan
<1>3. ASSUME NEW c \in Claimers, Grant(c) PROVE Cardinality(InSpan(t)') <= Budget
  <2>1. PICK n \in Nat : n = now[c]
    BY <1>3, TimeRead DEF Grant
  <2>2. granted \in Seq(Nat) /\ granted' = Append(granted, n)
    BY <1>3, <2>1 DEF Grant, LimiterInv, LimiterTypes
  <2>3. PICK k \in Nat : k = Len(granted) + 1
    BY <2>2
  <2>4. /\ DOMAIN granted' = DOMAIN granted \cup {k} /\ granted'[k] = n /\ k \notin DOMAIN granted
        /\ \A i \in DOMAIN granted : granted'[i] = granted[i]
    BY <2>2, <2>3, AppendTime
  <2>5. CASE n \in t .. t + Window - MaxLag - 1
    <3>1. InSpan(t)' = InSpan(t) \cup {k}
      BY <2>4, <2>5 DEF InSpan
    <3>2. IsFiniteSet(InSpan(t)) /\ Cardinality(InSpan(t)) < Budget /\ k \notin InSpan(t)
      BY <1>1, <1>3, <2>1, <2>4, <2>5, GrantInBudget DEF InSpan
    <3>3. Cardinality(InSpan(t) \cup {k}) = Cardinality(InSpan(t)) + 1 /\ Cardinality(InSpan(t)) \in Nat
      BY <3>2, FS_AddElement, FS_CardinalityType
    <3> QED
      BY <1>1, <3>1, <3>2, <3>3
  <2>6. CASE n \notin t .. t + Window - MaxLag - 1
    <3>1. InSpan(t)' = InSpan(t)
      BY <2>4, <2>6 DEF InSpan
    <3> QED
      BY <1>1, <3>1
  <2> QED
    BY <2>5, <2>6
<1> QED
  BY <1>2, <1>3 DEF LimiterNext, LimiterTick, ReadClock, Refuse, Ban, limiterVars

\* "5 claims per minute per IP": no span of the window less the lag sees more
\* than Budget grants by allow, whatever order the claims' times arrive in.
THEOREM ClaimsStayInBudget == LimiterSpec => []BudgetPerWindow
<1>1. LimiterInit => BudgetPerWindow
  <2> SUFFICES ASSUME LimiterInit, NEW t \in 0 .. MaxWall
               PROVE  Cardinality(InSpan(t)) <= Budget
    BY DEF BudgetPerWindow, InSpan
  <2>1. InSpan(t) = {}
    BY DEF LimiterInit, InSpan
  <2> QED
    BY <2>1, FS_EmptySet, LimiterAssumption
<1> QED
  BY <1>1, LimiterHolds, BudgetStep, PTL DEF LimiterSpec

\* "exceeding the budget blacklists the IP": allow grants nothing with a time
\* in the blackFor after any attempt that exceeded the budget.
THEOREM BansAreServed == LimiterSpec => BansLast
<1>1. LimiterInv /\ [LimiterNext]_limiterVars
      => \A i \in DOMAIN banned : granted' # granted => Last(granted') >= banned[i] + BlackFor
  <2> SUFFICES ASSUME LimiterInv, [LimiterNext]_limiterVars, NEW i \in DOMAIN banned, granted' # granted
               PROVE  Last(granted') >= banned[i] + BlackFor
    OBVIOUS
  <2>1. PICK c \in Claimers : Grant(c)
    BY DEF LimiterNext, LimiterTick, ReadClock, Refuse, Ban, limiterVars
  <2>2. PICK n \in Nat : n = now[c]
    BY <2>1, TimeRead DEF Grant
  <2>3. Last(granted') = n
    BY <2>1, <2>2, AppendTime DEF Grant, LimiterInv, LimiterTypes
  <2>4. blacklist <= n /\ blacklist \in Nat
    BY <2>1, <2>2 DEF Grant, Blacklisted, LimiterInv, LimiterTypes
  <2>5. banned[i] \in Nat /\ banned[i] + BlackFor <= blacklist /\ BlackFor \in Nat
    BY LimiterAssumption DEF LimiterInv, LimiterTypes, BansKept
  <2> QED
    BY <2>2, <2>3, <2>4, <2>5
<1> QED
  BY <1>1, LimiterHolds, PTL DEF LimiterSpec, BansLast
=============================================================================
