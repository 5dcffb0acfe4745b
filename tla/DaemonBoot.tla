---------------------------- MODULE DaemonBoot ----------------------------
(***************************************************************************)
(* Daemon processes that share a data directory: cmd/daemon/main.go's run  *)
(* with the lock file of lifecycle/lock.go, the migrations and the seeding *)
(* of the database, the relay identity in the settings table, and the      *)
(* deferred shutdown that ends with the release of the lock.               *)
(*                                                                         *)
(* A step is one system call on the lock file or its temporary file, or    *)
(* one SQL transaction.  Files are inodes: a process that has the          *)
(* temporary file open goes on writing to it after somebody renamed it to  *)
(* the lock file.  Processes die at any point; the files and the database  *)
(* stay, and process ids are used again, by daemons and by others.         *)
(***************************************************************************)
EXTENDS Integers, FiniteSets

CONSTANTS
  Procs,       \* daemon processes that run at the same time
  Pids,        \* process ids
  Migrations,  \* database items to apply: the migrations, then the default user
  MaxStarts,   \* bound: daemons started
  MaxBootErrs  \* bound: errors during startup (each ends in run's return)

ASSUME BootAssumption ==
  /\ IsFiniteSet(Procs) /\ Pids \subseteq Nat \ {0}
  /\ Migrations \in Nat /\ MaxStarts \in Nat /\ MaxBootErrs \in Nat

Inodes == 1 .. Cardinality(Procs) + 2

VARIABLES
  at,       \* where a process is in run, "off" without
  pid,      \* os.Getpid()
  token,    \* its local token: the number of its start
  seen,     \* the pid it read from the lock file, then the item it found missing
  fd,       \* its open temporary file
  path,     \* the directory: the inodes of daemon.lock and daemon.lock.tmp, 0 without
  data,     \* what an inode holds: Nothing yet, or the JSON of LockData
  db,       \* items applied, relay.devid and relay.secret (0: no such key)
  ident,    \* the identity a process has loaded
  other,    \* pids of processes that are not daemons
  overlap,  \* history: two processes were between reading and writing the lock
  starts, bootErrs

fileVars == <<fd, path, data>>
procVars == <<at, pid, token, seen, ident>>
bootVars == <<procVars, fileVars, db, other, overlap, starts, bootErrs>>

Nothing == [pid |-> 0, token |-> 0, port |-> FALSE]
NoIdentity == [dev |-> 0, secret |-> 0]

\* Acquire, from the read to the rename
Claiming == {"judge", "remove", "open", "write", "rename"}
Steps == Claiming \cup {"off", "read", "check", "apply", "serve", "portOpen", "portWrite", "portRename",
                        "getDev", "setDev", "getSecret", "setSecret", "ready", "closing", "release", "unlink"}

\* The process has the database open
Serving(p) == at[p] \notin Claiming \cup {"off", "read", "release", "unlink"}
Running(p) == at[p] # "off"

BootInit ==
  /\ at = [p \in Procs |-> "off"]
  /\ pid = [p \in Procs |-> 0] /\ token = [p \in Procs |-> 0] /\ seen = [p \in Procs |-> 0]
  /\ fd = [p \in Procs |-> 0]
  /\ path = [lock |-> 0, tmp |-> 0]
  /\ data = [i \in Inodes |-> Nothing]
  /\ db = [items |-> 0, dev |-> 0, secret |-> 0]
  /\ ident = [p \in Procs |-> NoIdentity]
  /\ other = {} /\ overlap = FALSE
  /\ starts = 0 /\ bootErrs = 0

\* The process moves on; history: two of them are claiming the lock, until all are gone
GoTo(p, l) ==
  /\ at' = [at EXCEPT ![p] = l]
  /\ overlap' = IF \A q \in Procs : at'[q] = "off" THEN FALSE
                ELSE overlap \/ (l \in Claiming /\ \E q \in Procs \ {p} : at[q] \in Claiming)

\* The process ends, by itself or not: its pid and its open file are free
End(p) ==
  /\ GoTo(p, "off")
  /\ pid' = [pid EXCEPT ![p] = 0] /\ token' = [token EXCEPT ![p] = 0]
  /\ seen' = [seen EXCEPT ![p] = 0] /\ ident' = [ident EXCEPT ![p] = NoIdentity]
  /\ fd' = [fd EXCEPT ![p] = 0]

(***************************************************************************)
(* Acquire                                                                 *)
(***************************************************************************)
Launch(p) ==
  /\ at[p] = "off" /\ starts < MaxStarts
  /\ starts' = starts + 1
  /\ \E n \in Pids \ (other \cup {pid[q] : q \in Procs}) : pid' = [pid EXCEPT ![p] = n]
  /\ token' = [token EXCEPT ![p] = starts + 1]
  /\ GoTo(p, "read")
  /\ UNCHANGED <<seen, ident, fileVars, db, other, bootErrs>>

\* readLock fails on a missing file and on one that does not parse
Readable == path.lock # 0 /\ data[path.lock] # Nothing

ReadLock(p) ==
  /\ at[p] = "read"
  /\ \/ Readable /\ seen' = [seen EXCEPT ![p] = data[path.lock].pid] /\ GoTo(p, "judge")
     \/ ~Readable /\ GoTo(p, "open") /\ UNCHANGED seen
  /\ UNCHANGED <<pid, token, ident, fileVars, db, other, starts, bootErrs>>

\* Mutant: the lock of a live process counts as stale
NeverAlive(n) == FALSE

ProcessAlive(n) == n \in other \cup {pid[q] : q \in Procs}

\* A live owner: ErrAlreadyRunning, and run returns
Refused(p) ==
  /\ at[p] = "judge" /\ ProcessAlive(seen[p])
  /\ End(p)
  /\ UNCHANGED <<path, data, db, other, starts, bootErrs>>

Stale(p) ==
  /\ at[p] = "judge" /\ ~ProcessAlive(seen[p])
  /\ seen' = [seen EXCEPT ![p] = 0]
  /\ GoTo(p, "remove")
  /\ UNCHANGED <<pid, token, ident, fileVars, db, other, starts, bootErrs>>

RemoveStale(p) ==
  /\ at[p] = "remove"
  /\ path' = [path EXCEPT !.lock = 0]
  /\ GoTo(p, "open")
  /\ UNCHANGED <<pid, token, seen, ident, fd, data, db, other, starts, bootErrs>>

(***************************************************************************)
(* atomicWrite, for Acquire and for SetPort: open and truncate the         *)
(* temporary file, write it, rename it.                                    *)
(***************************************************************************)
FreeInode == CHOOSE i \in Inodes : i \notin {path.lock, path.tmp} \cup {fd[q] : q \in Procs}

OpenTmp(p) ==
  LET i == IF path.tmp = 0 THEN FreeInode ELSE path.tmp IN
  /\ at[p] \in {"open", "portOpen"}
  /\ fd' = [fd EXCEPT ![p] = i]
  /\ path' = [path EXCEPT !.tmp = i]
  /\ data' = [data EXCEPT ![i] = Nothing]
  /\ GoTo(p, IF at[p] = "open" THEN "write" ELSE "portWrite")
  /\ UNCHANGED <<pid, token, seen, ident, db, other, starts, bootErrs>>

\* Mutant: SetPort writes a LockData that has only the port
WriteTmpPortOnly(p) ==
  /\ at[p] \in {"write", "portWrite"}
  /\ data' = [data EXCEPT ![fd[p]] = IF at[p] = "write" THEN [pid |-> pid[p], token |-> token[p], port |-> FALSE]
                                     ELSE [Nothing EXCEPT !.port = TRUE]]
  /\ fd' = [fd EXCEPT ![p] = 0]
  /\ GoTo(p, IF at[p] = "write" THEN "rename" ELSE "portRename")
  /\ UNCHANGED <<pid, token, seen, ident, path, db, other, starts, bootErrs>>

WriteTmp(p) ==
  /\ at[p] \in {"write", "portWrite"}
  /\ data' = [data EXCEPT ![fd[p]] = [pid |-> pid[p], token |-> token[p], port |-> at[p] = "portWrite"]]
  /\ fd' = [fd EXCEPT ![p] = 0]
  /\ GoTo(p, IF at[p] = "write" THEN "rename" ELSE "portRename")
  /\ UNCHANGED <<pid, token, seen, ident, path, db, other, starts, bootErrs>>

\* Somebody else may have renamed the temporary file: Acquire then fails, and
\* SetPort's failure is only logged
Rename(p) ==
  /\ at[p] \in {"rename", "portRename"}
  /\ \/ path.tmp # 0 /\ path' = [lock |-> path.tmp, tmp |-> 0]
     \/ path.tmp = 0 /\ UNCHANGED path
  /\ IF at[p] = "rename"
       THEN IF path.tmp # 0 THEN GoTo(p, "check") /\ UNCHANGED <<pid, token, seen, ident, fd>> ELSE End(p)
       ELSE GoTo(p, "getDev") /\ UNCHANGED <<pid, token, seen, ident, fd>>
  /\ UNCHANGED <<data, db, other, starts, bootErrs>>

(***************************************************************************)
(* The database and the servers                                            *)
(***************************************************************************)

\* versionApplied, or the count of users: the first item that is missing
CheckItem(p) ==
  /\ at[p] = "check"
  /\ \/ db.items < Migrations /\ seen' = [seen EXCEPT ![p] = db.items + 1] /\ GoTo(p, "apply")
     \/ db.items = Migrations /\ seen' = [seen EXCEPT ![p] = 0] /\ GoTo(p, "serve")
  /\ UNCHANGED <<pid, token, ident, fileVars, db, other, starts, bootErrs>>

\* applyMigration's transaction, or the INSERT of the user; what is there
\* already makes it fail
ApplyItem(p) ==
  /\ at[p] = "apply"
  /\ \/ db.items = seen[p] - 1 /\ db' = [db EXCEPT !.items = seen[p]] /\ GoTo(p, "check")
     \/ db.items >= seen[p] /\ GoTo(p, "closing") /\ UNCHANGED db
  /\ UNCHANGED <<pid, token, seen, ident, fileVars, other, starts, bootErrs>>

\* RecoverOnStartup, the services, Serve on a free port
Serve(p) ==
  /\ at[p] = "serve"
  /\ GoTo(p, "portOpen")
  /\ UNCHANGED <<pid, token, seen, ident, fileVars, db, other, starts, bootErrs>>

\* Mutant: the stored value is never good enough
NeverStored(v) == FALSE

Stored(v) == v # 0

\* LoadOrCreateIdentity: relay.devid and relay.secret, each read, then
\* generated and stored if it is missing
GetDev(p) ==
  /\ at[p] = "getDev"
  /\ ident' = [ident EXCEPT ![p].dev = IF Stored(db.dev) THEN db.dev ELSE token[p]]
  /\ GoTo(p, IF Stored(db.dev) THEN "getSecret" ELSE "setDev")
  /\ UNCHANGED <<pid, token, seen, fileVars, db, other, starts, bootErrs>>

SetDev(p) ==
  /\ at[p] = "setDev"
  /\ db' = [db EXCEPT !.dev = ident[p].dev]
  /\ GoTo(p, "getSecret")
  /\ UNCHANGED <<pid, token, seen, ident, fileVars, other, starts, bootErrs>>

GetSecret(p) ==
  /\ at[p] = "getSecret"
  /\ ident' = [ident EXCEPT ![p].secret = IF Stored(db.secret) THEN db.secret ELSE token[p]]
  /\ GoTo(p, IF Stored(db.secret) THEN "ready" ELSE "setSecret")
  /\ UNCHANGED <<pid, token, seen, fileVars, db, other, starts, bootErrs>>

SetSecret(p) ==
  /\ at[p] = "setSecret"
  /\ db' = [db EXCEPT !.secret = ident[p].secret]
  /\ GoTo(p, "ready")
  /\ UNCHANGED <<pid, token, seen, ident, fileVars, other, starts, bootErrs>>

(***************************************************************************)
(* The end                                                                 *)
(***************************************************************************)

\* A startup step returns an error: the deferred calls run
BootError(p) ==
  /\ at[p] \in {"check", "apply", "serve", "getDev", "setDev", "getSecret", "setSecret"}
  /\ bootErrs < MaxBootErrs
  /\ bootErrs' = bootErrs + 1
  /\ GoTo(p, "closing")
  /\ UNCHANGED <<pid, token, seen, ident, fileVars, db, other, starts>>

\* Writing the temporary file fails: Acquire returns the error, SetPort's is logged
WriteError(p) ==
  /\ at[p] \in {"open", "portOpen"} /\ bootErrs < MaxBootErrs
  /\ bootErrs' = bootErrs + 1
  /\ IF at[p] = "open" THEN End(p)
     ELSE GoTo(p, "getDev") /\ UNCHANGED <<pid, token, seen, ident, fd>>
  /\ UNCHANGED <<path, data, db, other, starts>>

\* A signal, or POST /shutdown: the HTTP server stops
Signal(p) ==
  /\ at[p] = "ready"
  /\ GoTo(p, "closing")
  /\ UNCHANGED <<pid, token, seen, ident, fileVars, db, other, starts, bootErrs>>

\* The deferred calls up to db.Close: relay, terminals, logs, database
CloseDb(p) ==
  /\ at[p] = "closing"
  /\ GoTo(p, "release")
  /\ UNCHANGED <<pid, token, seen, ident, fileVars, db, other, starts, bootErrs>>

\* Release: read the lock, remove it if it has this process's pid
Release(p) ==
  /\ at[p] = "release"
  /\ \/ /\ Readable /\ data[path.lock].pid = pid[p]
        /\ GoTo(p, "unlink")
        /\ UNCHANGED <<pid, token, seen, ident, fd>>
     \/ ~(Readable /\ data[path.lock].pid = pid[p]) /\ End(p)
  /\ UNCHANGED <<path, data, db, other, starts, bootErrs>>

Unlink(p) ==
  /\ at[p] = "unlink"
  /\ path' = [path EXCEPT !.lock = 0]
  /\ End(p)
  /\ UNCHANGED <<data, db, other, starts, bootErrs>>

\* The process is killed, or the machine goes down
Crash(p) ==
  /\ Running(p)
  /\ End(p)
  /\ UNCHANGED <<path, data, db, other, starts, bootErrs>>

\* Processes that are no daemons come and go
OtherProcess ==
  /\ \/ other = {} /\ \E n \in Pids \ {pid[q] : q \in Procs} : other' = {n}
     \/ other # {} /\ other' = {}
  /\ UNCHANGED <<procVars, fileVars, db, overlap, starts, bootErrs>>

AcquireStep(p) ==
  Launch(p) \/ ReadLock(p) \/ Refused(p) \/ Stale(p) \/ RemoveStale(p) \/ OpenTmp(p) \/ WriteTmp(p) \/ Rename(p)
StartStep(p) ==
  CheckItem(p) \/ ApplyItem(p) \/ Serve(p) \/ GetDev(p) \/ SetDev(p) \/ GetSecret(p) \/ SetSecret(p)
EndStep(p) == BootError(p) \/ WriteError(p) \/ Signal(p) \/ CloseDb(p) \/ Release(p) \/ Unlink(p) \/ Crash(p)

BootNext == OtherProcess \/ \E p \in Procs : AcquireStep(p) \/ StartStep(p) \/ EndStep(p)

BootSpec == BootInit /\ [][BootNext]_bootVars

(***************************************************************************)
(* Properties                                                              *)
(***************************************************************************)

\* "single-instance enforcement via a lock file" (lifecycle/doc.go): at most
\* one daemon has the database open, through crashes, stale locks, half-done
\* startups and reused pids, unless two processes were inside Acquire at the
\* same time (the check and the write are separate steps).
OneDaemon ==
  ~overlap => \A p, q \in Procs : Serving(p) /\ Serving(q) => p = q

\* The lock file leads the desktop to the running daemon: whole, with the pid
\* and the token of the daemon that has the database open, from its Acquire to
\* its own Release (again unless two were inside Acquire together); a crash in
\* the middle of a rewrite never leaves half a file behind.
LockFindsDaemon ==
  ~overlap => \A p \in Procs : Serving(p) =>
    path.lock # 0 /\ data[path.lock].pid = pid[p] /\ data[path.lock].token = token[p]

\* The relay identity that phones are paired with survives restarts: once
\* stored neither part of it is replaced, and a daemon that is up uses the
\* stored one, unless daemons were started together.
IdentityKept ==
  [][~overlap =>
       /\ db.dev # 0 => db'.dev = db.dev
       /\ db.secret # 0 => db'.secret = db.secret
       /\ \A p \in Procs : at[p] = "ready" => ident[p] = [dev |-> db.dev, secret |-> db.secret]]_bootVars
=============================================================================
