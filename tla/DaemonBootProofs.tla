-------------------------- MODULE DaemonBootProofs --------------------------
(***************************************************************************)
(* For any number of daemons, pids, migrations and crashes: unless two     *)
(* daemons were inside Acquire together, at most one has the database      *)
(* open, the lock file is its own, and the relay identity is never         *)
(* replaced.                                                               *)
(***************************************************************************)
EXTENDS DaemonBoot, FiniteSetTheorems, TLAPS

Contents == [pid : Nat, token : Nat, port : BOOLEAN]

BootTypes ==
  /\ at \in [Procs -> Steps]
  /\ pid \in [Procs -> Nat] /\ token \in [Procs -> Nat] /\ seen \in [Procs -> Nat]
  /\ fd \in [Procs -> Inodes \cup {0}]
  /\ path \in [lock : Inodes \cup {0}, tmp : Inodes \cup {0}]
  /\ data \in [Inodes -> Contents]
  /\ db \in [items : Nat, dev : Nat, secret : Nat]
  /\ ident \in [Procs -> [dev : Nat, secret : Nat]]
  /\ other \in SUBSET Pids /\ overlap \in BOOLEAN
  /\ starts \in Nat

\* A pid is one process's at a time.
PidsApart ==
  \A p \in Procs : at[p] # "off" =>
    /\ pid[p] # 0 /\ pid[p] \notin other
    /\ \A q \in Procs \ {p} : pid[q] # pid[p]

\* The two names never lead to one file, or a rewrite would truncate the lock.
FilesApart == path.lock # 0 => path.lock # path.tmp

Inside(p) == at[p] \notin Claiming \cup {"off", "read"}

\* Acquire admits one process; whoever reads the lock meanwhile finds its pid.
Exclusive ==
  /\ \A p, q \in Procs : p # q => ~(at[p] \in Claiming /\ at[q] \in Claiming)
  /\ \A p, q \in Procs : p # q /\ Inside(p) =>
       at[q] \in {"off", "read", "judge"} /\ (at[q] = "judge" => seen[q] = pid[p])

Written(p, i) == i # 0 /\ data[i].pid = pid[p] /\ data[i].token = token[p]
LockOwned == \A p \in Procs : Inside(p) => Written(p, path.lock)

\* The temporary file of a process is still the one it opened.
TmpOwned ==
  \A p \in Procs :
    /\ at[p] \in {"write", "portWrite"} => fd[p] # 0 /\ fd[p] = path.tmp
    /\ at[p] \in {"rename", "portRename"} => Written(p, path.tmp)

IdentityOwned ==
  \A p \in Procs :
    /\ at[p] = "setDev" => db.dev = 0
    /\ at[p] \in {"getSecret", "setSecret", "ready"} => ident[p].dev = db.dev
    /\ at[p] = "setSecret" => db.secret = 0
    /\ at[p] = "ready" => ident[p].secret = db.secret

Guarded == Exclusive /\ LockOwned /\ TmpOwned /\ IdentityOwned

BootInv == BootTypes /\ PidsApart /\ FilesApart /\ (~overlap => Guarded)

Labels == Claiming \cup {"off", "read"}
-----------------------------------------------------------------------------
(* What a move does to the history: overlap is lifted only when all        *)
(* processes are gone, when nothing is guarded.                            *)
LEMMA GoToFacts ==
  ASSUME BootTypes, NEW p \in Procs, NEW l \in Steps, GoTo(p, l)
  PROVE  /\ at' \in [Procs -> Steps] /\ overlap' \in BOOLEAN
         /\ at'[p] = l /\ \A q \in Procs \ {p} : at'[q] = at[q]
         /\ ~overlap' => \/ \A q \in Procs : at'[q] = "off"
                         \/ ~overlap /\ (l \in Claiming => \A q \in Procs \ {p} : at[q] \notin Claiming)
BY DEF GoTo, BootTypes

(* A process that has the lock moves on; files and pids stay.              *)
LEMMA InsideStep ==
  ASSUME BootInv, NEW p \in Procs, Inside(p), NEW l \in Steps,
         l \notin Labels \cup {"portWrite", "portRename"},
         GoTo(p, l), UNCHANGED <<pid, token, fileVars, other>>,
         seen' \in [Procs -> Nat], \A q \in Procs \ {p} : seen'[q] = seen[q],
         db' \in [items : Nat, dev : Nat, secret : Nat],
         ident' \in [Procs -> [dev : Nat, secret : Nat]],
         starts' \in Nat,
         ~overlap =>
           /\ l = "setDev" => db'.dev = 0
           /\ l \in {"getSecret", "setSecret", "ready"} => ident'[p].dev = db'.dev
           /\ l = "setSecret" => db'.secret = 0
           /\ l = "ready" => ident'[p].secret = db'.secret
  PROVE  BootInv'
<1>1. /\ at' \in [Procs -> Steps] /\ overlap' \in BOOLEAN
      /\ at'[p] = l /\ \A q \in Procs \ {p} : at'[q] = at[q]
      /\ ~overlap' => ~overlap
  BY GoToFacts DEF BootInv, Labels
<1>2. BootTypes'
  BY <1>1 DEF BootInv, BootTypes, fileVars
<1>3. PidsApart' /\ FilesApart'
  BY <1>1 DEF BootInv, PidsApart, FilesApart, fileVars, Inside
<1>4. ASSUME ~overlap' PROVE Guarded'
  <2>1. Guarded
    BY <1>1, <1>4 DEF BootInv
  <2>2. \A q \in Procs \ {p} : at[q] \in {"off", "read", "judge"}
    BY <2>1 DEF Guarded, Exclusive
  <2>3. Exclusive'
    BY <1>1, <2>1, <2>2 DEF Guarded, Exclusive, Inside, Labels, Claiming
  <2>4. LockOwned'
    BY <1>1, <2>1 DEF Guarded, LockOwned, Inside, Written, fileVars
  <2>5. TmpOwned'
    BY <1>1, <2>1, <2>2 DEF Guarded, TmpOwned, Written, fileVars, Labels, Claiming
  <2>6. IdentityOwned'
    BY <1>1, <1>4, <2>2 DEF IdentityOwned
  <2> QED
    BY <2>3, <2>4, <2>5, <2>6 DEF Guarded
<1> QED
  BY <1>2, <1>3, <1>4 DEF BootInv

(* A process ends; it may have removed the lock that was its own.          *)
LEMMA EndingStep ==
  ASSUME BootInv, NEW p \in Procs, End(p),
         path' = path \/ (Inside(p) /\ path' = [path EXCEPT !.lock = 0]),
         UNCHANGED <<data, db, other>>, starts' \in Nat
  PROVE  BootInv'
<1>1. /\ at' \in [Procs -> Steps] /\ overlap' \in BOOLEAN
      /\ at'[p] = "off" /\ \A q \in Procs \ {p} : at'[q] = at[q]
      /\ ~overlap' => (\A q \in Procs : at'[q] = "off") \/ ~overlap
  BY GoToFacts DEF BootInv, End, Steps
<1>2. /\ \A q \in Procs \ {p} : /\ pid'[q] = pid[q] /\ token'[q] = token[q] /\ seen'[q] = seen[q]
                                /\ fd'[q] = fd[q] /\ ident'[q] = ident[q]
      /\ pid' \in [Procs -> Nat] /\ token' \in [Procs -> Nat] /\ seen' \in [Procs -> Nat]
      /\ fd' \in [Procs -> Inodes \cup {0}] /\ pid'[p] = 0
      /\ ident' \in [Procs -> [dev : Nat, secret : Nat]]
  BY DEF End, BootInv, BootTypes, NoIdentity
<1>3. path' \in [lock : Inodes \cup {0}, tmp : Inodes \cup {0}]
  BY DEF BootInv, BootTypes
<1>4. BootTypes'
  BY <1>1, <1>2, <1>3 DEF BootInv, BootTypes
<1>5. PidsApart'
  BY <1>1, <1>2 DEF BootInv, PidsApart
<1>6. FilesApart'
  BY DEF BootInv, BootTypes, FilesApart
<1>7. ASSUME ~overlap', ~overlap PROVE Guarded'
  <2>1. Guarded
    BY <1>7 DEF BootInv
  <2>2. Exclusive'
    <3>1. \A q \in Procs : /\ at'[q] \in Claiming => at[q] \in Claiming
                           /\ Inside(q)' => Inside(q)
                           /\ at'[q] \in {at[q], "off"}
      BY <1>1 DEF Inside, Claiming
    <3>2. \A q \in Procs : at'[q] # "off" => pid'[q] = pid[q] /\ seen'[q] = seen[q]
      BY <1>1, <1>2
    <3> QED
      BY <2>1, <3>1, <3>2 DEF Guarded, Exclusive, Inside
  <2>3. LockOwned'
    <3>1. CASE path' = path
      BY <1>1, <1>2, <2>1, <3>1 DEF Guarded, LockOwned, Inside, Written
    <3>2. CASE Inside(p)
      BY <1>1, <2>1, <3>2 DEF Guarded, Exclusive, LockOwned, Inside, Claiming
    <3> QED
      BY <3>1, <3>2
  <2>4. TmpOwned'
    <3>1. path'.tmp = path.tmp
      BY DEF BootInv, BootTypes
    <3> QED
      BY <1>1, <1>2, <2>1, <3>1 DEF Guarded, TmpOwned, Written
  <2>5. IdentityOwned'
    BY <1>1, <1>2, <2>1 DEF Guarded, IdentityOwned
  <2> QED
    BY <2>2, <2>3, <2>4, <2>5 DEF Guarded
<1>8. ASSUME \A q \in Procs : at'[q] = "off" PROVE Guarded'
  BY <1>8 DEF Guarded, Exclusive, Inside, LockOwned, TmpOwned, IdentityOwned, Claiming
<1> QED
  BY <1>1, <1>4, <1>5, <1>6, <1>7, <1>8 DEF BootInv
-----------------------------------------------------------------------------
(* Acquire.                                                                *)

LEMMA LaunchStep == ASSUME BootInv, NEW p \in Procs, Launch(p) PROVE BootInv'
<1>1. PICK n \in Pids \ (other \cup {pid[q] : q \in Procs}) : pid' = [pid EXCEPT ![p] = n]
  BY DEF Launch
<1>2. /\ at[p] = "off" /\ GoTo(p, "read") /\ starts' = starts + 1
      /\ token' = [token EXCEPT ![p] = starts + 1]
      /\ UNCHANGED <<seen, ident, fileVars, db, other, bootErrs>>
  BY DEF Launch
<1>3. /\ at' \in [Procs -> Steps] /\ overlap' \in BOOLEAN
      /\ at'[p] = "read" /\ \A q \in Procs \ {p} : at'[q] = at[q]
      /\ ~overlap' => ~overlap
  BY <1>2, GoToFacts DEF BootInv, Steps, Claiming
<1>4. /\ n \in Nat \ {0} /\ n \notin other /\ \A q \in Procs : pid[q] # n
      /\ pid' \in [Procs -> Nat] /\ pid'[p] = n /\ \A q \in Procs \ {p} : pid'[q] = pid[q]
      /\ token' \in [Procs -> Nat] /\ \A q \in Procs \ {p} : token'[q] = token[q]
  <2>1. n \in Nat \ {0} /\ n \notin other /\ \A q \in Procs : pid[q] # n
    BY <1>1, BootAssumption
  <2>2. starts + 1 \in Nat
    BY DEF BootInv, BootTypes
  <2> QED
    BY <1>1, <1>2, <2>1, <2>2 DEF BootInv, BootTypes
<1>5. BootTypes' /\ FilesApart'
  BY <1>2, <1>3, <1>4 DEF BootInv, BootTypes, FilesApart, fileVars
<1>6. PidsApart'
  BY <1>2, <1>3, <1>4 DEF BootInv, PidsApart
<1>7. ASSUME ~overlap' PROVE Guarded'
  <2>1. Guarded
    BY <1>3, <1>7 DEF BootInv
  <2>2. Exclusive'
    BY <1>2, <1>3, <1>4, <2>1 DEF Guarded, Exclusive, Inside, Claiming
  <2>3. LockOwned' /\ TmpOwned' /\ IdentityOwned'
    BY <1>2, <1>3, <1>4, <2>1 DEF Guarded, LockOwned, TmpOwned, IdentityOwned, Inside, Written, fileVars
  <2> QED
    BY <2>2, <2>3 DEF Guarded
<1> QED
  BY <1>5, <1>6, <1>7 DEF BootInv

(* A process that is not inside goes on to claim the lock, when nobody is  *)
(* inside or, at "judge", with the pid of whoever is.                      *)
LEMMA ClaimingStep ==
  ASSUME BootInv, NEW p \in Procs, at[p] \in {"read", "judge", "remove"},
         NEW l \in {"judge", "remove", "open"}, GoTo(p, l),
         path' = path \/ path' = [path EXCEPT !.lock = 0],
         seen' \in [Procs -> Nat], \A q \in Procs \ {p} : seen'[q] = seen[q],
         UNCHANGED <<pid, token, ident, fd, data, db, other, starts>>,
         ~overlap => \A q \in Procs \ {p} : Inside(q) => l = "judge" /\ seen'[p] = pid[q] /\ path' = path
  PROVE  BootInv'
<1>1. /\ at' \in [Procs -> Steps] /\ overlap' \in BOOLEAN
      /\ at'[p] = l /\ \A q \in Procs \ {p} : at'[q] = at[q]
      /\ ~overlap' => ~overlap /\ \A q \in Procs \ {p} : at[q] \notin Claiming
  BY GoToFacts DEF BootInv, Steps, Claiming
<1>2. path' \in [lock : Inodes \cup {0}, tmp : Inodes \cup {0}] /\ path'.tmp = path.tmp
  BY DEF BootInv, BootTypes
<1>3. BootTypes'
  BY <1>1, <1>2 DEF BootInv, BootTypes
<1>4. PidsApart'
  BY <1>1 DEF BootInv, PidsApart
<1>5. FilesApart'
  BY DEF BootInv, BootTypes, FilesApart
<1>6. ASSUME ~overlap' PROVE Guarded'
  <2>1. Guarded /\ ~overlap
    BY <1>1, <1>6 DEF BootInv
  <2>2. Exclusive'
    BY <1>1, <1>6, <2>1 DEF Guarded, Exclusive, Inside, Claiming
  <2>3. LockOwned'
    BY <1>1, <2>1 DEF Guarded, LockOwned, Inside, Written, Claiming
  <2>4. TmpOwned' /\ IdentityOwned'
    BY <1>1, <1>2, <2>1 DEF Guarded, TmpOwned, IdentityOwned, Written
  <2> QED
    BY <2>2, <2>3, <2>4 DEF Guarded
<1> QED
  BY <1>1, <1>3, <1>4, <1>5, <1>6 DEF BootInv

LEMMA ReadLockStep == ASSUME BootInv, NEW p \in Procs, ReadLock(p) PROVE BootInv'
<1>1. ASSUME ~overlap, NEW q \in Procs \ {p}, Inside(q)
      PROVE  Readable /\ data[path.lock].pid = pid[q]
  BY <1>1 DEF BootInv, Guarded, LockOwned, Written, PidsApart, Readable, Nothing, Inside
<1>2. at[p] = "read" /\ UNCHANGED <<pid, token, ident, fileVars, db, other, starts, bootErrs>>
  BY DEF ReadLock
<1>3. CASE Readable /\ seen' = [seen EXCEPT ![p] = data[path.lock].pid] /\ GoTo(p, "judge")
  <2>1. data[path.lock].pid \in Nat
    BY <1>3 DEF Readable, BootInv, BootTypes, Contents
  <2>2. /\ seen' \in [Procs -> Nat] /\ seen'[p] = data[path.lock].pid
        /\ \A q \in Procs \ {p} : seen'[q] = seen[q]
    BY <1>3, <2>1 DEF BootInv, BootTypes
  <2> QED
    BY <1>1, <1>2, <1>3, <2>2, ClaimingStep DEF fileVars
<1>4. CASE ~Readable /\ GoTo(p, "open") /\ UNCHANGED seen
  BY <1>1, <1>2, <1>4, ClaimingStep DEF fileVars, BootInv, BootTypes
<1> QED
  BY <1>3, <1>4 DEF ReadLock

LEMMA StaleStep == ASSUME BootInv, NEW p \in Procs, Stale(p) \/ RemoveStale(p) PROVE BootInv'
<1>1. CASE Stale(p)
  <2>1. ASSUME ~overlap, NEW q \in Procs \ {p} PROVE ~Inside(q)
    BY <1>1, <2>1 DEF Stale, ProcessAlive, BootInv, Guarded, Exclusive
  <2>2. seen' \in [Procs -> Nat] /\ \A q \in Procs \ {p} : seen'[q] = seen[q]
    BY <1>1 DEF Stale, BootInv, BootTypes
  <2> QED
    BY <1>1, <2>1, <2>2, ClaimingStep DEF Stale, fileVars
<1>2. CASE RemoveStale(p)
  <2>1. ASSUME ~overlap, NEW q \in Procs \ {p} PROVE ~Inside(q)
    BY <1>2, <2>1 DEF RemoveStale, BootInv, Guarded, Exclusive
  <2> QED
    BY <1>2, <2>1, ClaimingStep DEF RemoveStale, BootInv, BootTypes
<1> QED
  BY <1>1, <1>2
-----------------------------------------------------------------------------
(* The files.                                                              *)

\* There is always room for one more temporary file.
LEMMA FreeInodeIsFree ==
  ASSUME BootTypes, path.tmp = 0
  PROVE  FreeInode \in Inodes /\ FreeInode # path.lock /\ FreeInode # 0
<1> DEFINE f == [q \in Procs |-> fd[q]]
           F == {fd[q] : q \in Procs}
           X == {path.lock, path.tmp} \cup F
           N == Cardinality(Procs)
<1>1. IsFiniteSet(F) /\ Cardinality(F) <= N
  <2>1. f \in Surjection(Procs, F)
    BY DEF Surjection
  <2> QED
    BY <2>1, FS_Surjection, BootAssumption
<1>2. N \in Nat /\ Cardinality(F) \in Nat
  BY <1>1, FS_CardinalityType, BootAssumption
<1>3. IsFiniteSet(F \cup {path.lock}) /\ Cardinality(F \cup {path.lock}) <= N + 1
      /\ Cardinality(F \cup {path.lock}) \in Nat
  <2>1. IsFiniteSet(F \cup {path.lock})
        /\ Cardinality(F \cup {path.lock}) \in {Cardinality(F), Cardinality(F) + 1}
    BY <1>1, FS_AddElement
  <2> QED
    BY <1>1, <1>2, <2>1
<1>4. Cardinality(Inodes) = N + 2 /\ IsFiniteSet(Inodes) /\ 0 \notin Inodes
  <2>1. 1 \in Int /\ N + 2 \in Int /\ ~(1 > N + 2) /\ N + 2 - 1 + 1 = N + 2
    BY <1>2
  <2>2. IsFiniteSet(1 .. N + 2) /\ Cardinality(1 .. N + 2) = N + 2
    BY <2>1, FS_Interval
  <2> QED
    BY <1>2, <2>2 DEF Inodes
<1>5. \E i \in Inodes : i \notin X
  <2> SUFFICES ASSUME Inodes \subseteq X PROVE FALSE
    OBVIOUS
  <2>1. Inodes \in SUBSET (F \cup {path.lock})
    BY <1>4
  <2>2. Cardinality(Inodes) <= Cardinality(F \cup {path.lock})
    BY <1>3, <2>1, FS_Subset
  <2> QED
    BY <1>2, <1>3, <1>4, <2>2
<1>6. FreeInode \in Inodes /\ FreeInode \notin X
  BY <1>5 DEF FreeInode
<1> QED
  BY <1>4, <1>6

(* Opening, writing and renaming are done by a process that is claiming or *)
(* inside, with nobody else at the temporary file.                         *)
LEMMA OpenTmpStep == ASSUME BootInv, NEW p \in Procs, OpenTmp(p) PROVE BootInv'
<1>1. PICK i \in Inodes :
        /\ i # path.lock /\ i # 0
        /\ fd' = [fd EXCEPT ![p] = i] /\ path' = [path EXCEPT !.tmp = i]
        /\ data' = [data EXCEPT ![i] = Nothing]
  <2>1. CASE path.tmp = 0
    BY <2>1, FreeInodeIsFree DEF OpenTmp, BootInv
  <2>2. CASE path.tmp # 0
    BY <2>2 DEF OpenTmp, BootInv, BootTypes, FilesApart
  <2> QED
    BY <2>1, <2>2
<1> DEFINE l == IF at[p] = "open" THEN "write" ELSE "portWrite"
<1>2. /\ at[p] \in {"open", "portOpen"} /\ GoTo(p, l) /\ l \in Steps
      /\ UNCHANGED <<pid, token, seen, ident, db, other, starts, bootErrs>>
  BY DEF OpenTmp, Steps, Claiming
<1>3. /\ at' \in [Procs -> Steps] /\ overlap' \in BOOLEAN
      /\ at'[p] = l /\ \A q \in Procs \ {p} : at'[q] = at[q]
      /\ ~overlap' => ~overlap
  BY <1>2, GoToFacts DEF BootInv
<1>4. /\ fd' \in [Procs -> Inodes \cup {0}] /\ fd'[p] = i /\ \A q \in Procs \ {p} : fd'[q] = fd[q]
      /\ path' \in [lock : Inodes \cup {0}, tmp : Inodes \cup {0}] /\ path'.lock = path.lock /\ path'.tmp = i
      /\ \A k \in Inodes \ {i} : data'[k] = data[k]
  BY <1>1 DEF BootInv, BootTypes
<1>5. data' \in [Inodes -> Contents]
  BY <1>1 DEF BootInv, BootTypes, Contents, Nothing
<1>6. BootTypes'
  BY <1>2, <1>3, <1>4, <1>5 DEF BootInv, BootTypes
<1>7. PidsApart' /\ FilesApart'
  BY <1>1, <1>2, <1>3, <1>4 DEF BootInv, PidsApart, FilesApart
<1>8. ASSUME ~overlap' PROVE Guarded'
  <2>1. Guarded
    BY <1>3, <1>8 DEF BootInv
  <2>2. \A q \in Procs \ {p} : at[q] \notin {"write", "portWrite", "rename", "portRename"}
    BY <1>2, <2>1 DEF Guarded, Exclusive, Inside, Claiming
  <2>3. Exclusive'
    BY <1>2, <1>3, <2>1 DEF Guarded, Exclusive, Inside, Claiming
  <2>4. LockOwned'
    <3>1. \A q \in Procs : Inside(q)' => Inside(q)
      BY <1>2, <1>3 DEF Inside, Claiming
    <3>2. \A q \in Procs : Written(q, path.lock) => Written(q, path.lock)'
      BY <1>1, <1>2, <1>4 DEF Written, BootInv, BootTypes
    <3> QED
      BY <2>1, <3>1, <3>2 DEF Guarded, LockOwned
  <2>5. TmpOwned'
    BY <1>1, <1>3, <1>4, <2>2 DEF TmpOwned
  <2>6. IdentityOwned'
    BY <1>2, <1>3, <2>1 DEF Guarded, IdentityOwned
  <2> QED
    BY <2>3, <2>4, <2>5, <2>6 DEF Guarded
<1> QED
  BY <1>6, <1>7, <1>8 DEF BootInv

LEMMA WriteTmpStep == ASSUME BootInv, NEW p \in Procs, WriteTmp(p) PROVE BootInv'
<1> DEFINE l == IF at[p] = "write" THEN "rename" ELSE "portRename"
           r == [pid |-> pid[p], token |-> token[p], port |-> at[p] = "portWrite"]
<1>1. /\ at[p] \in {"write", "portWrite"} /\ GoTo(p, l) /\ l \in Steps
      /\ data' = [data EXCEPT ![fd[p]] = r] /\ fd' = [fd EXCEPT ![p] = 0]
      /\ UNCHANGED <<pid, token, seen, ident, path, db, other, starts, bootErrs>>
  BY DEF WriteTmp, Steps, Claiming
<1>2. /\ at' \in [Procs -> Steps] /\ overlap' \in BOOLEAN
      /\ at'[p] = l /\ \A q \in Procs \ {p} : at'[q] = at[q]
      /\ ~overlap' => ~overlap
  BY <1>1, GoToFacts DEF BootInv
<1>3. r \in Contents /\ r.pid = pid[p] /\ r.token = token[p]
  BY DEF Contents, BootInv, BootTypes
<1> HIDE DEF r
<1>4. /\ fd' \in [Procs -> Inodes \cup {0}] /\ \A q \in Procs \ {p} : fd'[q] = fd[q]
      /\ data' \in [Inodes -> Contents]
      /\ \A k \in Inodes : data'[k] = IF k = fd[p] THEN r ELSE data[k]
  BY <1>1, <1>3 DEF BootInv, BootTypes
<1>5. BootTypes'
  BY <1>1, <1>2, <1>4 DEF BootInv, BootTypes
<1>6. PidsApart' /\ FilesApart'
  BY <1>1, <1>2 DEF BootInv, PidsApart, FilesApart
<1>7. ASSUME ~overlap' PROVE Guarded'
  <2>1. Guarded
    BY <1>2, <1>7 DEF BootInv
  <2>2. fd[p] # 0 /\ fd[p] = path.tmp /\ path.tmp \in Inodes /\ path.tmp # path.lock
    BY <1>1, <2>1 DEF Guarded, TmpOwned, BootInv, BootTypes, FilesApart
  <2>3. \A q \in Procs \ {p} : at[q] \notin {"write", "portWrite", "rename", "portRename"}
    BY <1>1, <2>1 DEF Guarded, Exclusive, Inside, Claiming
  <2>4. Exclusive'
    BY <1>1, <1>2, <2>1 DEF Guarded, Exclusive, Inside, Claiming
  <2>5. LockOwned'
    <3>1. \A q \in Procs : Inside(q)' => Inside(q)
      BY <1>1, <1>2 DEF Inside, Claiming
    <3>2. \A q \in Procs : Written(q, path.lock) => Written(q, path.lock)'
      BY <1>1, <1>4, <2>2 DEF Written, BootInv, BootTypes
    <3> QED
      BY <2>1, <3>1, <3>2 DEF Guarded, LockOwned
  <2>6. TmpOwned'
    BY <1>1, <1>2, <1>3, <1>4, <2>2, <2>3 DEF TmpOwned, Written
  <2>7. IdentityOwned'
    BY <1>1, <1>2, <2>1 DEF Guarded, IdentityOwned
  <2> QED
    BY <2>4, <2>5, <2>6, <2>7 DEF Guarded
<1> QED
  BY <1>5, <1>6, <1>7 DEF BootInv

LEMMA RenameStep == ASSUME BootInv, NEW p \in Procs, Rename(p) PROVE BootInv'
<1>1. CASE at[p] = "rename" /\ path.tmp = 0
  BY <1>1, EndingStep DEF Rename, BootInv, BootTypes
<1>2. CASE at[p] = "portRename" \/ path.tmp # 0
  <2> DEFINE l == IF at[p] = "rename" THEN "check" ELSE "getDev"
  <2>1. /\ at[p] \in {"rename", "portRename"} /\ GoTo(p, l) /\ l \in Steps
        /\ UNCHANGED <<pid, token, seen, ident, fd, data, db, other, starts, bootErrs>>
        /\ path' = IF path.tmp # 0 THEN [lock |-> path.tmp, tmp |-> 0] ELSE path
    BY <1>2 DEF Rename, Steps
  <2>2. /\ at' \in [Procs -> Steps] /\ overlap' \in BOOLEAN
        /\ at'[p] = l /\ \A q \in Procs \ {p} : at'[q] = at[q]
        /\ ~overlap' => ~overlap
    BY <2>1, GoToFacts DEF BootInv
  <2>3. path' \in [lock : Inodes \cup {0}, tmp : Inodes \cup {0}]
    BY <2>1 DEF BootInv, BootTypes
  <2>4. BootTypes'
    BY <2>1, <2>2, <2>3 DEF BootInv, BootTypes
  <2>5. PidsApart'
    BY <2>1, <2>2 DEF BootInv, PidsApart
  <2>6. FilesApart'
    BY <2>1 DEF BootInv, FilesApart
  <2>7. ASSUME ~overlap' PROVE Guarded'
    <3>1. Guarded
      BY <2>2, <2>7 DEF BootInv
    <3>2. Written(p, path.tmp) /\ path.tmp # 0
      BY <2>1, <3>1 DEF Guarded, TmpOwned, Written
    <3>3. \A q \in Procs \ {p} : at[q] \in {"off", "read"} \/ (at[q] = "judge" /\ Inside(p) /\ seen[q] = pid[p])
      BY <2>1, <3>1 DEF Guarded, Exclusive, Inside, Claiming, BootInv, BootTypes, Steps
    <3>4. Exclusive'
      BY <2>1, <2>2, <3>1, <3>3 DEF Guarded, Exclusive, Inside, Claiming
    <3>5. LockOwned'
      BY <2>1, <2>2, <3>2, <3>3 DEF LockOwned, Inside, Written, Claiming
    <3>6. TmpOwned' /\ IdentityOwned'
      BY <2>1, <2>2, <3>3 DEF TmpOwned, IdentityOwned
    <3> QED
      BY <3>4, <3>5, <3>6 DEF Guarded
  <2> QED
    BY <2>4, <2>5, <2>6, <2>7 DEF BootInv
<1> QED
  BY <1>1, <1>2 DEF Rename
-----------------------------------------------------------------------------
(* After Acquire.                                                          *)

LEMMA StartingStep == ASSUME BootInv, NEW p \in Procs, StartStep(p) PROVE BootInv'
<1>1. BootTypes /\ (~overlap => IdentityOwned)
  BY DEF BootInv, Guarded
<1>2. CASE CheckItem(p)
  BY <1>1, <1>2, InsideStep DEF CheckItem, Inside, Labels, Claiming, Steps, BootTypes
<1>3. CASE ApplyItem(p)
  BY <1>1, <1>3, InsideStep DEF ApplyItem, Inside, Labels, Claiming, Steps, BootTypes
<1>4. CASE Serve(p)
  BY <1>1, <1>4, InsideStep DEF Serve, Inside, Labels, Claiming, Steps, BootTypes
<1>5. CASE GetDev(p)
  BY <1>1, <1>5, InsideStep DEF GetDev, Stored, Inside, Labels, Claiming, Steps, BootTypes
<1>6. CASE SetDev(p)
  BY <1>1, <1>6, InsideStep DEF SetDev, Inside, Labels, Claiming, Steps, BootTypes
<1>7. CASE GetSecret(p)
  BY <1>1, <1>7, InsideStep DEF GetSecret, Stored, IdentityOwned, Inside, Labels, Claiming, Steps, BootTypes
<1>8. CASE SetSecret(p)
  BY <1>1, <1>8, InsideStep DEF SetSecret, IdentityOwned, Inside, Labels, Claiming, Steps, BootTypes
<1> QED
  BY <1>2, <1>3, <1>4, <1>5, <1>6, <1>7, <1>8 DEF StartStep

LEMMA EndStepStep == ASSUME BootInv, NEW p \in Procs, EndStep(p) PROVE BootInv'
<1>1. BootTypes
  BY DEF BootInv
<1>2. CASE BootError(p) \/ Signal(p) \/ CloseDb(p)
  BY <1>1, <1>2, InsideStep DEF BootError, Signal, CloseDb, Inside, Labels, Claiming, Steps, BootTypes
<1>3. CASE WriteError(p)
  <2>1. CASE at[p] = "open"
    BY <1>1, <1>3, <2>1, EndingStep DEF WriteError, BootTypes
  <2>2. CASE at[p] = "portOpen"
    BY <1>1, <1>3, <2>2, InsideStep DEF WriteError, fileVars, Inside, Labels, Claiming, Steps, BootTypes
  <2> QED
    BY <1>3, <2>1, <2>2 DEF WriteError
<1>4. CASE Release(p)
  <2>1. CASE GoTo(p, "unlink") /\ UNCHANGED <<pid, token, seen, ident, fd>>
    BY <1>1, <1>4, <2>1, InsideStep DEF Release, fileVars, Inside, Labels, Claiming, Steps, BootTypes
  <2>2. CASE End(p)
    BY <1>1, <1>4, <2>2, EndingStep DEF Release, BootTypes
  <2> QED
    BY <1>4, <2>1, <2>2 DEF Release
<1>5. CASE Unlink(p)
  BY <1>1, <1>5, EndingStep DEF Unlink, Inside, Claiming, BootTypes
<1>6. CASE Crash(p)
  BY <1>1, <1>6, EndingStep DEF Crash, BootTypes
<1> QED
  BY <1>2, <1>3, <1>4, <1>5, <1>6 DEF EndStep

LEMMA OthersStep == ASSUME BootInv, OtherProcess PROVE BootInv'
<1>1. other' \in SUBSET Pids /\ \A n \in other' : \A q \in Procs : pid[q] # n
  BY DEF OtherProcess, BootInv, BootTypes
<1>2. BootTypes' /\ FilesApart'
  BY <1>1 DEF OtherProcess, BootInv, BootTypes, FilesApart, procVars, fileVars
<1>3. PidsApart'
  BY <1>1 DEF OtherProcess, BootInv, PidsApart, procVars
<1>4. UNCHANGED overlap /\ (Guarded => Guarded')
  BY DEF OtherProcess, procVars, fileVars, Guarded, Exclusive, Inside, LockOwned, TmpOwned, Written, IdentityOwned
<1> QED
  BY <1>2, <1>3, <1>4 DEF BootInv

LEMMA InitBootInv == ASSUME BootInit PROVE BootInv
<1>1. 0 \in Nat /\ Nothing \in Contents /\ NoIdentity \in [dev : Nat, secret : Nat] /\ "off" \in Steps
  BY DEF Nothing, Contents, NoIdentity, Steps
<1>2. BootTypes
  BY <1>1 DEF BootInit, BootTypes
<1>3. \A p \in Procs : at[p] = "off"
  BY DEF BootInit
<1>4. PidsApart /\ FilesApart /\ Guarded
  BY <1>3 DEF BootInit, PidsApart, FilesApart, Guarded, Exclusive, Inside, LockOwned, TmpOwned, IdentityOwned, Claiming
<1> QED
  BY <1>2, <1>4 DEF BootInv

LEMMA NextBootInv == ASSUME BootInv, [BootNext]_bootVars PROVE BootInv'
<1>1. CASE OtherProcess
  BY <1>1, OthersStep
<1>2. ASSUME NEW p \in Procs, AcquireStep(p) PROVE BootInv'
  <2>1. CASE Refused(p)
    BY <2>1, EndingStep DEF Refused, BootInv, BootTypes
  <2> QED
    BY <1>2, <2>1, LaunchStep, ReadLockStep, StaleStep, OpenTmpStep, WriteTmpStep, RenameStep DEF AcquireStep
<1>3. ASSUME NEW p \in Procs, StartStep(p) PROVE BootInv'
  BY <1>3, StartingStep
<1>4. ASSUME NEW p \in Procs, EndStep(p) PROVE BootInv'
  BY <1>4, EndStepStep
<1>5. CASE UNCHANGED bootVars
  BY <1>5 DEF bootVars, procVars, fileVars, BootInv, BootTypes, PidsApart, FilesApart, Guarded, Exclusive,
     Inside, LockOwned, TmpOwned, Written, IdentityOwned
<1> QED
  BY <1>1, <1>2, <1>3, <1>4, <1>5 DEF BootNext
-----------------------------------------------------------------------------

(* Every reachable state satisfies the invariant.                          *)
THEOREM BootInvariant == BootSpec => []BootInv
<1>1. BootInit => BootInv
  BY InitBootInv
<1>2. BootInv /\ [BootNext]_bootVars => BootInv'
  BY NextBootInv
<1> QED
  BY <1>1, <1>2, PTL DEF BootSpec

(* Unless two daemons were inside Acquire together, at most one has the    *)
(* database open (lock.go's Acquire, main.go's run).                       *)
THEOREM OnlyOneDaemon == BootSpec => []OneDaemon
<1>1. BootInv => OneDaemon
  BY DEF BootInv, Guarded, Exclusive, Inside, OneDaemon, Serving, Claiming
<1> QED
  BY <1>1, BootInvariant, PTL

(* Under the same condition the lock file names the daemon that has the    *)
(* database open, however it was rewritten and whoever crashed.            *)
THEOREM LockLeadsToTheDaemon == BootSpec => []LockFindsDaemon
<1>1. BootInv => LockFindsDaemon
  BY DEF BootInv, Guarded, LockOwned, Written, Inside, LockFindsDaemon, Serving, Claiming
<1> QED
  BY <1>1, BootInvariant, PTL

(* Under the same condition LoadOrCreateIdentity never replaces a stored   *)
(* part of the relay identity, and a daemon that is up uses the stored one.*)
THEOREM IdentityIsKept == BootSpec => IdentityKept
<1> DEFINE Kept == ~overlap =>
             /\ db.dev # 0 => db'.dev = db.dev
             /\ db.secret # 0 => db'.secret = db.secret
             /\ \A p \in Procs : at[p] = "ready" => ident[p] = [dev |-> db.dev, secret |-> db.secret]
<1>1. ASSUME BootInv, [BootNext]_bootVars PROVE [Kept]_bootVars
  <2> SUFFICES ASSUME ~overlap PROVE Kept
    OBVIOUS
  <2>1. BootTypes /\ IdentityOwned
    BY <1>1 DEF BootInv, Guarded
  <2>2. ASSUME NEW p \in Procs, at[p] = "ready" PROVE ident[p] = [dev |-> db.dev, secret |-> db.secret]
    <3>1. ident[p] \in [dev : Nat, secret : Nat] /\ ident[p].dev = db.dev /\ ident[p].secret = db.secret
      BY <2>1, <2>2 DEF BootTypes, IdentityOwned
    <3> QED
      BY <3>1
  <2>3. db' = db \/ \E p \in Procs : ApplyItem(p) \/ SetDev(p) \/ SetSecret(p)
    BY <1>1 DEF BootNext, bootVars, OtherProcess, AcquireStep, StartStep, EndStep, Launch, ReadLock, Refused,
       Stale, RemoveStale, OpenTmp, WriteTmp, Rename, CheckItem, Serve, GetDev, GetSecret, BootError,
       WriteError, Signal, CloseDb, Release, Unlink, Crash
  <2>4. (db.dev # 0 => db'.dev = db.dev) /\ (db.secret # 0 => db'.secret = db.secret)
    BY <2>1, <2>3 DEF ApplyItem, SetDev, SetSecret, BootTypes, IdentityOwned
  <2> QED
    BY <2>2, <2>4
<1> QED
  BY <1>1, BootInvariant, PTL DEF BootSpec, IdentityKept
=============================================================================
