--------------------------- MODULE TerminalManager ---------------------------
(***************************************************************************)
(* The life of terminals in the daemon: terminal.Manager (manager.go), the *)
(* Session it registers (session.go: requestStop, readLoop, finalize,      *)
(* SubscribeStatus), TerminalService's Create, Stop, Delete and Restart,   *)
(* and the status column of the terminals table.                           *)
(*                                                                         *)
(* Requests run concurrently, one goroutine each (req); every session has  *)
(* a goroutine that reads the PTY and then runs finalize (fin).  A step is *)
(* one critical section of Manager.mu or Session.mu, one SQL statement, or *)
(* one wait that ended.  Output and its log are TermLog's.                 *)
(***************************************************************************)
EXTENDS Integers, FiniteSets

CONSTANTS
  Terms,     \* terminal ids (never reused: a row's id is a new uuid)
  Sess,      \* Session objects, in creation order 1, 2, ...
  Requests,  \* request goroutines, numbered
  MaxOps,    \* bound: requests in a behaviour
  MaxFaults  \* bound: times the daemon dies or a statement on the terminals table fails

ASSUME ManagerConstants ==
  /\ Sess \subseteq Nat \ {0} /\ Requests \subseteq Nat
  /\ MaxOps \in Nat /\ MaxFaults \in Nat

VARIABLES
  up,        \* the daemon runs
  row,       \* status of the row: "fresh" (no row yet), "running", "exited", "crashed", "deleted"
  sessions,  \* Manager.sessions: terminal -> session, 0 = absent
  of,        \* Session.id: the terminal of a session
  proc,      \* the shell: "none", "alive", "gone"
  force,     \* Session.forceStop
  fin,       \* session goroutine: "off", "read", "update", "notify", "unreg", "done"
  status,    \* Session.status
  watch,     \* a status subscriber: "none", "got", "listed", "taken", "told"
  req,       \* request: [op, at, t, s]
  closing,   \* terminals CloseAll has still to stop
  overlap,   \* history: terminals two requests overlapped on (see Overlaps)
  unsaved,   \* history: terminals whose exit could not be recorded
  ops, faults  \* used up so far

sessVars == <<of, proc, force, fin, status, watch>>
histVars == <<overlap, unsaved>>
vars == <<up, row, sessions, sessVars, req, closing, histVars, ops, faults>>

Idle == [op |-> "none", at |-> "-", t |-> "-", s |-> 0]
Ops == {"create", "stop", "delete", "restart", "closeall"}
Request ==
  {Idle} \cup
  [op : Ops, at : {"lookup", "stop", "wait", "row", "check", "mark", "register", "next"},
   t : Terms \cup {"-"}, s : Sess \cup {0}]

(* The type of the state: Manager, Session and the terminals table.        *)
TermTypeOK ==
  /\ up \in BOOLEAN
  /\ row \in [Terms -> {"fresh", "running", "exited", "crashed", "deleted"}]
  /\ sessions \in [Terms -> Sess \cup {0}]
  /\ of \in [Sess -> Terms \cup {"-"}]
  /\ proc \in [Sess -> {"none", "alive", "gone"}]
  /\ force \in [Sess -> BOOLEAN]
  /\ fin \in [Sess -> {"off", "read", "update", "notify", "unreg", "done"}]
  /\ status \in [Sess -> {"-", "exited", "crashed"}]
  /\ watch \in [Sess -> {"none", "got", "listed", "taken", "told"}]
  /\ req \in [Requests -> Request]
  /\ closing \subseteq Terms
  /\ overlap \subseteq Terms /\ unsaved \subseteq Terms
  /\ ops \in 0 .. MaxOps /\ faults \in 0 .. MaxFaults

TermInit ==
  /\ up = TRUE
  /\ row = [t \in Terms |-> "fresh"]
  /\ sessions = [t \in Terms |-> 0]
  /\ of = [s \in Sess |-> "-"]
  /\ proc = [s \in Sess |-> "none"]
  /\ force = [s \in Sess |-> FALSE]
  /\ fin = [s \in Sess |-> "off"]
  /\ status = [s \in Sess |-> "-"]
  /\ watch = [s \in Sess |-> "none"]
  /\ req = [r \in Requests |-> Idle]
  /\ closing = {} /\ overlap = {} /\ unsaved = {}
  /\ ops = 0 /\ faults = 0
-----------------------------------------------------------------------------
Goto(r, l) == req' = [req EXCEPT ![r].at = l]
Return(r) == req' = [req EXCEPT ![r] = Idle]
HasRow(t) == row[t] \in {"running", "exited", "crashed"}

(* A request has spawned a shell for t and not yet registered its session. *)
InFlight(t) == \E r \in Requests : req[r].t = t /\ req[r].at \in {"mark", "register"}

(* History: a lookup of t finds no session while another request is about  *)
(* to register one, or the row goes while a session exists or is about to. *)
Overlaps(t) == IF InFlight(t) THEN overlap \cup {t} ELSE overlap

(* pty.Spawn and newSession.                                               *)
Spawn(s, t) ==
  /\ proc[s] = "none" /\ \A q \in Sess : q < s => proc[q] # "none"
  /\ of' = [of EXCEPT ![s] = t]
  /\ proc' = [proc EXCEPT ![s] = "alive"]

(* A request arrives; an idle goroutine with the least number takes it,    *)
(* since goroutines are interchangeable.                                   *)
Free(r) == req[r] = Idle /\ \A q \in Requests : q < r => req[q] # Idle

Begin(r, op, at, t, s) ==
  /\ up /\ Free(r) /\ ops < MaxOps
  /\ ops' = ops + 1
  /\ req' = [req EXCEPT ![r] = [op |-> op, at |-> at, t |-> t, s |-> s]]

(* Manager.Create: spawn, then the row with status running.                *)
Create(r, t) ==
  /\ row[t] = "fresh"
  /\ row' = [row EXCEPT ![t] = "running"]
  /\ \E s \in Sess : Spawn(s, t) /\ Begin(r, "create", "register", t, s)
  /\ UNCHANGED <<up, sessions, force, fin, status, watch, closing, histVars, faults>>

(* Manager.Create whose INSERT fails: the shell is closed again and the    *)
(* request returns the error.                                              *)
CreateFails(r, t) ==
  /\ up /\ Free(r) /\ ops < MaxOps /\ faults < MaxFaults
  /\ row[t] = "fresh"
  /\ \E s \in Sess :
       /\ proc[s] = "none" /\ \A q \in Sess : q < s => proc[q] # "none"
       /\ of' = [of EXCEPT ![s] = t]
       /\ proc' = [proc EXCEPT ![s] = "gone"]
  /\ ops' = ops + 1 /\ faults' = faults + 1
  /\ UNCHANGED <<up, row, sessions, force, fin, status, watch, req, closing, histVars>>

(* Stop, Delete and Restart of a terminal that was listed.                 *)
Ask(r, op, t) ==
  /\ row[t] # "fresh"
  /\ Begin(r, op, "lookup", t, 0)
  /\ UNCHANGED <<up, row, sessions, sessVars, closing, histVars, faults>>

(* CloseAll takes the ids of the map; requests may still be running.       *)
CloseAll(r) ==
  /\ \A q \in Requests : req[q].op # "closeall"
  /\ Begin(r, "closeall", "next", "-", 0)
  /\ closing' = {t \in Terms : sessions[t] # 0}
  /\ UNCHANGED <<up, row, sessions, sessVars, histVars, faults>>

CloseNext(r) ==
  /\ req[r].at = "next"
  /\ \/ \E t \in closing :
          /\ closing' = closing \ {t}
          /\ req' = [req EXCEPT ![r].at = "lookup", ![r].t = t]
     \/ closing = {} /\ Return(r) /\ UNCHANGED closing
  /\ UNCHANGED <<up, row, sessions, sessVars, histVars, ops, faults>>

(* Where a request goes once the session, if any, has been stopped.        *)
Stopped(r) ==
  LET op == req[r].op IN
  \/ op = "stop" /\ Return(r)
  \/ op = "delete" /\ Goto(r, "row")
  \/ op = "restart" /\ Goto(r, "check")
  \/ op = "closeall" /\ req' = [req EXCEPT ![r].at = "next", ![r].t = "-", ![r].s = 0]

(* Manager.Stop, first part: the session of the map.                       *)
Lookup(r) ==
  LET t == req[r].t IN
  /\ req[r].at = "lookup"
  /\ \/ /\ sessions[t] # 0
        /\ req' = [req EXCEPT ![r].at = "stop", ![r].s = sessions[t]]
        /\ UNCHANGED overlap
     \/ /\ sessions[t] = 0
        /\ Stopped(r)
        /\ overlap' = Overlaps(t)
  /\ UNCHANGED <<up, row, sessions, sessVars, closing, unsaved, ops, faults>>

(* Mutant of KillsShell: the PTY is not closed.                            *)
MutKillsShell(s) == proc' = proc

(* pty.Close: the master is closed and the shell killed.                   *)
KillsShell(s) == proc' = [proc EXCEPT ![s] = "gone"]

(* requestStop.                                                            *)
RequestStop(r) ==
  LET s == req[r].s IN
  /\ req[r].at = "stop"
  /\ force' = [force EXCEPT ![s] = TRUE]
  /\ KillsShell(s)
  /\ Goto(r, "wait")
  /\ UNCHANGED <<up, row, sessions, of, fin, status, watch, closing, histVars, ops, faults>>

(* Manager.Stop, last part: <-sess.done.                                   *)
AwaitDone(r) ==
  /\ req[r].at = "wait" /\ fin[req[r].s] = "done"
  /\ Stopped(r)
  /\ UNCHANGED <<up, row, sessions, sessVars, closing, histVars, ops, faults>>

(* TerminalService.Delete, last part; the row may be gone already.         *)
DeleteRow(r) ==
  LET t == req[r].t IN
  /\ req[r].at = "row"
  /\ row' = [row EXCEPT ![t] = "deleted"]
  /\ overlap' = IF sessions[t] # 0 THEN overlap \cup {t} ELSE Overlaps(t)
  /\ Return(r)
  /\ UNCHANGED <<up, sessions, sessVars, closing, unsaved, ops, faults>>

(* Mutant of AlreadyRunning: Restart does not look at the map.             *)
MutAlreadyRunning(t) == FALSE

AlreadyRunning(t) == sessions[t] # 0

(* Manager.Restart: refuse a live terminal or a missing row, else spawn.   *)
RestartCheck(r) ==
  LET t == req[r].t IN
  /\ req[r].at = "check"
  /\ \/ /\ AlreadyRunning(t) \/ ~HasRow(t)
        /\ Return(r)
        /\ UNCHANGED <<of, proc, overlap>>
     \/ /\ ~AlreadyRunning(t) /\ HasRow(t)
        /\ \E s \in Sess :
             /\ Spawn(s, t)
             /\ req' = [req EXCEPT ![r].at = "mark", ![r].s = s]
        /\ overlap' = Overlaps(t)
  /\ UNCHANGED <<up, row, sessions, force, fin, status, watch, closing, unsaved, ops, faults>>

MarkRunning(t) == row' = [row EXCEPT ![t] = "running"]

(* Manager.Restart: UpdateStatus running; without a row, or when the       *)
(* statement fails, the shell is closed again.                             *)
RestartMark(r) ==
  LET t == req[r].t IN
  /\ req[r].at = "mark"
  /\ \/ /\ HasRow(t)
        /\ MarkRunning(t)
        /\ Goto(r, "register")
        /\ UNCHANGED <<proc, faults>>
     \/ /\ \/ ~HasRow(t) /\ UNCHANGED faults
           \/ HasRow(t) /\ faults < MaxFaults /\ faults' = faults + 1
        /\ proc' = [proc EXCEPT ![req[r].s] = "gone"]
        /\ Return(r)
        /\ UNCHANGED row
  /\ UNCHANGED <<up, sessions, of, force, fin, status, watch, closing, histVars, ops>>

(* register and start.                                                     *)
Register(r) ==
  LET s == req[r].s IN
  /\ req[r].at = "register"
  /\ sessions' = [sessions EXCEPT ![req[r].t] = s]
  /\ fin' = [fin EXCEPT ![s] = "read"]
  /\ Return(r)
  /\ UNCHANGED <<up, row, of, proc, force, status, watch, closing, histVars, ops, faults>>

RequestStep(r) ==
  \/ CloseNext(r) \/ Lookup(r) \/ RequestStop(r) \/ AwaitDone(r) \/ DeleteRow(r)
  \/ RestartCheck(r) \/ RestartMark(r) \/ Register(r)
-----------------------------------------------------------------------------
(***************************************************************************)
(* The session's goroutine.                                                *)
(***************************************************************************)
(* External: the shell exits by itself.                                    *)
ShellExits(s) ==
  /\ proc[s] = "alive"
  /\ proc' = [proc EXCEPT ![s] = "gone"]
  /\ UNCHANGED <<up, row, sessions, of, force, fin, status, watch, req, closing, histVars,
                 ops, faults>>

(* readLoop's read fails; finalize waits for the exit code (which may fail *)
(* on some platforms), decides the status and takes the subscribers.       *)
Finalize(s) ==
  /\ fin[s] = "read" /\ proc[s] = "gone"
  /\ status' \in {[status EXCEPT ![s] = v] : v \in {"exited"} \cup (IF force[s] THEN {} ELSE {"crashed"})}
  /\ watch' = IF watch[s] = "listed" THEN [watch EXCEPT ![s] = "taken"] ELSE watch
  /\ fin' = [fin EXCEPT ![s] = "update"]
  /\ UNCHANGED <<up, row, sessions, of, proc, force, req, closing, histVars, ops, faults>>

(* finalize: UpdateStatus, whose failure is only logged.                   *)
RecordExit(s) ==
  LET t == of[s] IN
  /\ fin[s] = "update"
  /\ \/ /\ row' = IF HasRow(t) THEN [row EXCEPT ![t] = status[s]] ELSE row
        /\ UNCHANGED <<unsaved, faults>>
     \/ /\ faults < MaxFaults
        /\ faults' = faults + 1
        /\ unsaved' = unsaved \cup {t}
        /\ UNCHANGED row
  /\ fin' = [fin EXCEPT ![s] = "notify"]
  /\ UNCHANGED <<up, sessions, of, proc, force, status, watch, req, closing, overlap, ops>>

(* finalize: the status callbacks, then logMgr.Close.                      *)
NotifyStatus(s) ==
  /\ fin[s] = "notify"
  /\ watch' = IF watch[s] = "taken" THEN [watch EXCEPT ![s] = "told"] ELSE watch
  /\ fin' = [fin EXCEPT ![s] = "unreg"]
  /\ UNCHANGED <<up, row, sessions, of, proc, force, status, req, closing, histVars, ops, faults>>

(* Mutant of Unregister: the session stays in the map.                     *)
MutUnregister(t) == UNCHANGED sessions

(* unregister, which deletes whatever session is registered under the id.  *)
Unregister(t) == sessions' = [sessions EXCEPT ![t] = 0]

(* finalize: unregister, pty.Close and close(done).                        *)
FinalizeDone(s) ==
  /\ fin[s] = "unreg"
  /\ Unregister(of[s])
  /\ fin' = [fin EXCEPT ![s] = "done"]
  /\ UNCHANGED <<up, row, of, proc, force, status, watch, req, closing, histVars, ops, faults>>

SessionStep(s) == Finalize(s) \/ RecordExit(s) \/ NotifyStatus(s) \/ FinalizeDone(s)

(* A connection got the session from the map and will subscribe to it.     *)
(* One subscriber is followed: subscribers do not affect one another.      *)
GetSession(s) ==
  /\ up /\ (\A q \in Sess : watch[q] = "none") /\ \E t \in Terms : sessions[t] = s
  /\ watch' = [watch EXCEPT ![s] = "got"]
  /\ UNCHANGED <<up, row, sessions, of, proc, force, fin, status, req, closing, histVars,
                 ops, faults>>

(* Session.exited, set together with the status.                           *)
Exited(s) == status[s] # "-"

(* Mutant of SubscribeTo: a session that already exited is not noticed.    *)
MutSubscribeTo(s) == "listed"

SubscribeTo(s) == IF Exited(s) THEN "told" ELSE "listed"

(* SubscribeStatus: told at once when the session already exited.          *)
SubscribeStatus(s) ==
  /\ watch[s] = "got"
  /\ watch' = [watch EXCEPT ![s] = SubscribeTo(s)]
  /\ UNCHANGED <<up, row, sessions, of, proc, force, fin, status, req, closing, histVars,
                 ops, faults>>
-----------------------------------------------------------------------------
(***************************************************************************)
(* The daemon dies (a crash, or exit after CloseAll) and starts again.     *)
(***************************************************************************)
(* Requests, sessions and shells are gone; the table stays.                *)
Die ==
  /\ up /\ faults < MaxFaults
  /\ faults' = faults + 1
  /\ up' = FALSE
  /\ sessions' = [t \in Terms |-> 0]
  /\ proc' = [s \in Sess |-> IF proc[s] = "none" THEN "none" ELSE "gone"]
  /\ fin' = [s \in Sess |-> IF fin[s] = "off" THEN "off" ELSE "done"]
  /\ watch' = [s \in Sess |-> "none"]
  /\ req' = [r \in Requests |-> Idle]
  /\ closing' = {} /\ overlap' = {}
  /\ UNCHANGED <<row, of, force, status, unsaved, ops>>

(* Mutant of MarkRunningAsCrashed: the rows are left as they were.         *)
MutMarkRunningAsCrashed == UNCHANGED row

MarkRunningAsCrashed ==
  row' = [t \in Terms |-> IF row[t] = "running" THEN "crashed" ELSE row[t]]

(* Startup: RecoverOnStartup runs before the servers do.                   *)
RecoverOnStartup ==
  /\ ~up
  /\ up' = TRUE
  /\ MarkRunningAsCrashed
  /\ unsaved' = {}
  /\ UNCHANGED <<sessions, sessVars, req, closing, overlap, ops, faults>>
-----------------------------------------------------------------------------
TermNext ==
  \/ \E r \in Requests :
       \/ \E t \in Terms : Create(r, t) \/ CreateFails(r, t) \/ \E op \in {"stop", "delete", "restart"} : Ask(r, op, t)
       \/ CloseAll(r)
       \/ RequestStep(r)
  \/ \E s \in Sess : ShellExits(s) \/ SessionStep(s) \/ GetSession(s) \/ SubscribeStatus(s)
  \/ Die \/ RecoverOnStartup

TermSpec == TermInit /\ [][TermNext]_vars

(* Goroutines keep running and SQL statements end (contexts bound them);   *)
(* shells, users and crashes are under no obligation.                      *)
TermFairSpec ==
  /\ TermSpec
  /\ \A r \in Requests : WF_vars(RequestStep(r))
  /\ \A s \in Sess : WF_vars(SessionStep(s)) /\ WF_vars(SubscribeStatus(s))
  /\ WF_vars(RecoverOnStartup)
-----------------------------------------------------------------------------
(***************************************************************************)
(* Properties.                                                             *)
(***************************************************************************)
(* A session that still has an exit to record for its terminal.            *)
ExitPending(t) == \E s \in Sess : of[s] = t /\ fin[s] \in {"read", "update"}

(* A row says running only while a session of the terminal is going to     *)
(* record its exit or a request is about to register one, however Create,  *)
(* Restart, Delete and exits interleave and after a crash: no terminal is  *)
(* shown as running for ever (the one exception the code logs: the update  *)
(* itself failed, session.go finalize).                                    *)
RunningRowIsBacked ==
  \A t \in Terms : up /\ row[t] = "running" /\ t \notin unsaved => ExitPending(t) \/ InFlight(t)

(* The map never holds a session whose finalize completed: Get returns     *)
(* only sessions that a Stop can still wait for, and Restart is not        *)
(* refused for a dead one (manager.go, unregister by id).  Checked with    *)
(* the types of the state.                                                 *)
MapHoldsUnfinished ==
  /\ TermTypeOK
  /\ \A t \in Terms : sessions[t] # 0 => of[sessions[t]] = t /\ fin[sessions[t]] \notin {"off", "done"}

Unfinished(s) == fin[s] \notin {"off", "done"}

(* Unless two requests overlapped on the terminal in one of the windows of *)
(* Overlaps, its only unfinished session is the registered one, a live one *)
(* has the row running, and a deleted terminal has no session: those       *)
(* windows are the only way to lose track of a shell.                      *)
ShellsAreTracked ==
  \A s \in Sess : up /\ Unfinished(s) /\ of[s] \notin overlap =>
    /\ sessions[of[s]] = s
    /\ fin[s] = "read" => row[of[s]] = "running"
    /\ row[of[s]] # "deleted"

(* Every request ends: Stop's wait on done, also when several requests     *)
(* stop one terminal, a second session was registered over the first, or   *)
(* the shell exits by itself meanwhile.                                    *)
RequestsFinish == \A r \in Requests : []<>(req[r] = Idle)

(* A status subscriber hears of the exit even when the session exits       *)
(* between Get and SubscribeStatus (or the daemon dies).                   *)
StatusReachesSubscriber ==
  \A s \in Sess : (watch[s] \in {"got", "listed", "taken"} /\ proc[s] = "gone")
                    ~> (watch[s] = "told" \/ ~up)
=============================================================================
