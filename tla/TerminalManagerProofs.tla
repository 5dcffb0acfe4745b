------------------------ MODULE TerminalManagerProofs ------------------------
(***************************************************************************)
(* For any number of terminals, sessions and concurrent requests, and for  *)
(* every bound: the terminals table, the manager's map and the shells that *)
(* live agree in the three ways that TerminalManager states.               *)
(*                                                                         *)
(* None of the three is inductive.  What they rest on is what a request    *)
(* that has spawned a shell holds until it registers the session: a        *)
(* session nobody else has, and, unless requests overlapped, a terminal    *)
(* without any other.                                                      *)
(***************************************************************************)
EXTENDS TerminalManager, TLAPS

Flying(r) == req[r].at \in {"mark", "register"}

\* A request is about a terminal that was created, and so is what CloseAll took.
Requested ==
  /\ \A r \in Requests : req[r].at \notin {"-", "next"} => req[r].t \in Terms /\ row[req[r].t] # "fresh"
  /\ \A t \in closing : row[t] # "fresh"

\* A session runs only after its shell was spawned, for a terminal that has (had)
\* a row, and it has a status by the time it is recorded.
Spawned ==
  \A s \in Sess :
    /\ proc[s] = "none" => fin[s] = "off"
    /\ fin[s] # "off" => of[s] \in Terms /\ row[of[s]] # "fresh"
    /\ fin[s] = "update" => status[s] # "-"

\* Between spawn and register a session is its request's own.
FlightHolds ==
  \A r \in Requests : Flying(r) =>
    /\ req[r].s \in Sess /\ of[req[r].s] = req[r].t
    /\ fin[req[r].s] = "off" /\ proc[req[r].s] # "none"
    /\ \A q \in Requests \ {r} : Flying(q) => req[q].s # req[r].s

MapKnown == \A t \in Terms : sessions[t] # 0 => of[sessions[t]] = t /\ Unfinished(sessions[t])

\* A request at mark may still fail and leave the row as it is: it backs nothing.
Registering(t) == \E r \in Requests : req[r].t = t /\ req[r].at = "register"
RowBacked ==
  \A t \in Terms : up /\ row[t] = "running" /\ t \notin unsaved => ExitPending(t) \/ Registering(t)

\* A request that spawned a shell is alone with its terminal.
FlightAlone ==
  \A r \in Requests : Flying(r) /\ req[r].t \notin overlap =>
    /\ sessions[req[r].t] = 0
    /\ \A q \in Requests \ {r} : Flying(q) => req[q].t # req[r].t
    /\ req[r].at = "register" => row[req[r].t] = "running"

\* Nothing outlives the daemon.
DownIsQuiet == ~up => (\A s \in Sess : ~Unfinished(s)) /\ (\A r \in Requests : req[r] = Idle)

TermInv ==
  /\ TermTypeOK /\ Requested /\ Spawned /\ FlightHolds /\ MapKnown
  /\ RowBacked /\ FlightAlone /\ ShellsAreTracked /\ DownIsQuiet

-----------------------------------------------------------------------------
LEMMA InitTermInv == TermInit => TermInv
<1> SUFFICES ASSUME TermInit PROVE TermInv
  OBVIOUS
<1> USE ManagerConstants
<1>1. TermTypeOK
  BY DEF TermInit, TermTypeOK, Idle, Request
<1>2. Requested /\ Spawned /\ FlightHolds /\ FlightAlone
  BY DEF TermInit, Requested, Spawned, FlightHolds, FlightAlone, Flying, Idle
<1>3. MapKnown /\ RowBacked /\ ShellsAreTracked /\ DownIsQuiet
  BY DEF TermInit, MapKnown, RowBacked, ShellsAreTracked, DownIsQuiet, Unfinished
<1> QED
  BY <1>1, <1>2, <1>3 DEF TermInv

\* What a request is, by its place.
LEMMA RequestFacts ==
  ASSUME TermInv, NEW r \in Requests, req[r].at # "-"
  PROVE  /\ req \in [Requests -> Request] /\ up
         /\ req[r] \in [op : Ops, at : {"lookup", "stop", "wait", "row", "check", "mark", "register", "next"},
                        t : Terms \cup {"-"}, s : Sess \cup {0}]
         /\ req[r].at # "next" => req[r].t \in Terms /\ row[req[r].t] # "fresh"
<1>1. req \in [Requests -> Request] /\ req[r] # Idle
  BY DEF TermInv, TermTypeOK, Idle
<1>2. up /\ (req[r].at # "next" => req[r].t \in Terms /\ row[req[r].t] # "fresh")
  BY <1>1 DEF TermInv, TermTypeOK, DownIsQuiet, Requested
<1> QED
  BY <1>1, <1>2 DEF Request
-----------------------------------------------------------------------------
(* Steps that leave the rows, the map and what the sessions do alone.      *)
Settled == <<up, row, sessions, of, fin, status, unsaved>>
NoShellForgotten ==
  /\ proc' \in [Sess -> {"none", "alive", "gone"}]
  /\ \A s \in Sess : proc[s] # "none" => proc'[s] # "none"
  /\ \A s \in Sess : proc'[s] = "none" => proc[s] = "none"

\* The typed remainder of a step.
LooseTypes ==
  /\ force' \in [Sess -> BOOLEAN]
  /\ watch' \in [Sess -> {"none", "got", "listed", "taken", "told"}]
  /\ ops' \in 0 .. MaxOps /\ faults' \in 0 .. MaxFaults

\* A request goes on, or ends, without a session in flight; it may have had one
\* whose row is not marked yet.
LEMMA RequestMoves ==
  ASSUME TermInv, NEW r \in Requests, NEW j \in Request,
         req[r].at # "register", j.at \notin {"mark", "register"},
         j.at \notin {"-", "next"} => j.t \in Terms /\ row[j.t] # "fresh",
         up, req' = [req EXCEPT ![r] = j],
         UNCHANGED Settled, NoShellForgotten, LooseTypes,
         overlap \subseteq overlap', overlap' \subseteq Terms,
         closing' \subseteq Terms, \A t \in closing' : row[t] # "fresh"
  PROVE  TermInv'
<1>1. /\ req' \in [Requests -> Request] /\ req'[r] = j /\ \A q \in Requests \ {r} : req'[q] = req[q]
  BY DEF TermInv, TermTypeOK
<1>2. UNCHANGED <<up, row, sessions, of, fin, status, unsaved>>
  BY DEF Settled
<1>3. TermTypeOK'
  BY <1>1, <1>2 DEF TermInv, TermTypeOK, NoShellForgotten, LooseTypes
<1>4. Requested'
  BY <1>1, <1>2 DEF TermInv, Requested
<1>5. Spawned'
  BY <1>2 DEF TermInv, Spawned, NoShellForgotten
<1>6. \A q \in Requests : Flying(q)' => q # r /\ Flying(q) /\ req'[q] = req[q]
  BY <1>1 DEF Flying
<1>7. FlightHolds'
  BY <1>2, <1>6 DEF TermInv, FlightHolds, NoShellForgotten
<1>8. FlightAlone'
  BY <1>2, <1>6 DEF TermInv, FlightAlone
<1>9. \A t \in Terms : Registering(t) => Registering(t)'
  BY <1>1 DEF Registering
<1>10. RowBacked'
  BY <1>2, <1>9 DEF TermInv, RowBacked, ExitPending
<1>11. MapKnown' /\ ShellsAreTracked' /\ DownIsQuiet'
  BY <1>2 DEF TermInv, MapKnown, ShellsAreTracked, DownIsQuiet, Unfinished
<1> QED
  BY <1>3, <1>4, <1>5, <1>7, <1>8, <1>10, <1>11 DEF TermInv

\* Shells that exit by themselves, and the status subscriber.
LEMMA QuietStep ==
  ASSUME TermInv, UNCHANGED Settled, UNCHANGED <<req, closing, overlap>>, NoShellForgotten, LooseTypes
  PROVE  TermInv'
<1>1. UNCHANGED <<up, row, sessions, of, fin, status, unsaved>>
  BY DEF Settled
<1>2. TermTypeOK'
  BY <1>1 DEF TermInv, TermTypeOK, NoShellForgotten, LooseTypes
<1>3. Requested' /\ Spawned' /\ FlightHolds' /\ FlightAlone'
  BY <1>1 DEF TermInv, Requested, Spawned, FlightHolds, FlightAlone, Flying, NoShellForgotten
<1>4. MapKnown' /\ RowBacked' /\ ShellsAreTracked' /\ DownIsQuiet'
  BY <1>1 DEF TermInv, MapKnown, RowBacked, ShellsAreTracked, DownIsQuiet, Unfinished, ExitPending, Registering
<1> QED
  BY <1>2, <1>3, <1>4 DEF TermInv
-----------------------------------------------------------------------------
(* The steps of requests that leave the rows and the map alone.            *)
Grounded(j) ==
  /\ j \in Request /\ j.at \notin {"mark", "register"}
  /\ j.at \notin {"-", "next"} => j.t \in Terms /\ row[j.t] # "fresh"
Moves(r) == \E j \in Request : Grounded(j) /\ req' = [req EXCEPT ![r] = j]

LEMMA ReturnMoves == ASSUME NEW r \in Requests, Return(r) PROVE Moves(r)
<1>1. Grounded(Idle)
  BY DEF Grounded, Idle, Request
<1> QED
  BY <1>1 DEF Return, Moves, Grounded

LEMMA GotoMoves ==
  ASSUME TermInv, NEW r \in Requests, req[r].at \notin {"-", "next"},
         NEW l \in {"stop", "wait", "row", "check"}, NEW x \in Sess \cup {0},
         req' = [req EXCEPT ![r].at = l] \/ req' = [req EXCEPT ![r].at = l, ![r].s = x]
  PROVE  Moves(r)
<1> DEFINE j == [req[r] EXCEPT !.at = l]
           k == [req[r] EXCEPT !.at = l, !.s = x]
<1>1. /\ req[r] \in [op : Ops, at : {"lookup", "stop", "wait", "row", "check", "mark", "register", "next"},
                     t : Terms \cup {"-"}, s : Sess \cup {0}]
      /\ req[r].t \in Terms /\ row[req[r].t] # "fresh" /\ req \in [Requests -> Request]
  BY RequestFacts
<1>2. /\ j \in Request /\ j.at = l /\ j.t = req[r].t
      /\ k \in Request /\ k.at = l /\ k.t = req[r].t
  BY <1>1 DEF Request
<1>3. req' = [req EXCEPT ![r] = j] \/ req' = [req EXCEPT ![r] = k]
  BY <1>1
<1> HIDE DEF j, k
<1>4. Grounded(j) /\ Grounded(k)
  BY <1>1, <1>2 DEF Grounded
<1> QED
  BY <1>2, <1>3, <1>4 DEF Moves

LEMMA StoppedMoves ==
  ASSUME TermInv, NEW r \in Requests, req[r].at \in {"lookup", "wait"}, Stopped(r)
  PROVE  Moves(r)
<1>1. CASE Return(r)
  BY <1>1, ReturnMoves
<1>2. CASE \E l \in {"row", "check"} : Goto(r, l)
  BY <1>2, GotoMoves DEF Goto
<1>3. CASE req' = [req EXCEPT ![r].at = "next", ![r].t = "-", ![r].s = 0]
  <2> DEFINE j == [req[r] EXCEPT !.at = "next", !.t = "-", !.s = 0]
  <2>1. /\ req[r] \in [op : Ops, at : {"lookup", "stop", "wait", "row", "check", "mark", "register", "next"},
                       t : Terms \cup {"-"}, s : Sess \cup {0}]
        /\ req \in [Requests -> Request]
    BY RequestFacts
  <2>2. j \in Request /\ j.at = "next"
    BY <2>1 DEF Request
  <2>3. req' = [req EXCEPT ![r] = j]
    BY <1>3, <2>1
  <2> QED
    BY <2>2, <2>3 DEF Moves, Grounded
<1> QED
  BY <1>1, <1>2, <1>3 DEF Stopped

\* RequestMoves, with the places named once.
LEMMA MovesStep ==
  ASSUME TermInv, NEW r \in Requests, Moves(r), req[r].at # "register", up,
         UNCHANGED Settled, NoShellForgotten, LooseTypes,
         overlap \subseteq overlap', overlap' \subseteq Terms,
         closing' \subseteq Terms, \A t \in closing' : row[t] # "fresh"
  PROVE  TermInv'
<1>1. PICK j \in Request : Grounded(j) /\ req' = [req EXCEPT ![r] = j]
  BY DEF Moves
<1> QED
  BY <1>1, RequestMoves DEF Grounded

LEMMA BeginMoves ==
  ASSUME NEW r \in Requests, NEW op \in Ops, NEW at \in {"lookup", "next"}, NEW t \in Terms \cup {"-"},
         Begin(r, op, at, t, 0), at = "lookup" => t \in Terms /\ row[t] # "fresh"
  PROVE  Moves(r)
<1> DEFINE j == [op |-> op, at |-> at, t |-> t, s |-> 0]
<1>1. j \in Request /\ Grounded(j)
  BY DEF Request, Grounded
<1> QED
  BY <1>1 DEF Begin, Moves

\* What the steps of this kind leave as it is.
LEMMA KeptFacts ==
  ASSUME TermInv
  PROVE  /\ UNCHANGED proc => NoShellForgotten
         /\ UNCHANGED <<force, watch, ops, faults>> => LooseTypes
         /\ closing \subseteq Terms /\ (\A t \in closing : row[t] # "fresh") /\ overlap \subseteq Terms
         /\ ops \in 0 .. MaxOps /\ (ops < MaxOps => ops + 1 \in 0 .. MaxOps)
         /\ faults \in 0 .. MaxFaults /\ (faults < MaxFaults => faults + 1 \in 0 .. MaxFaults)
<1>1. TermTypeOK /\ Requested
  BY DEF TermInv
<1> QED
  BY <1>1, ManagerConstants DEF TermTypeOK, Requested, NoShellForgotten, LooseTypes

LEMMA AskStep ==
  ASSUME TermInv, NEW r \in Requests, NEW op \in {"stop", "delete", "restart"}, NEW t \in Terms, Ask(r, op, t)
  PROVE  TermInv'
<1>1. Moves(r)
  BY BeginMoves DEF Ask, Ops
<1>2. up /\ req[r].at # "register" /\ ops' = ops + 1 /\ ops < MaxOps
  BY DEF Ask, Begin, Free, Idle
<1>3. UNCHANGED Settled /\ UNCHANGED <<proc, force, watch, closing, overlap, faults>>
  BY DEF Ask, Settled, sessVars, histVars
<1>4. LooseTypes
  BY <1>2, <1>3, KeptFacts DEF LooseTypes, TermInv, TermTypeOK
<1> QED
  BY <1>1, <1>2, <1>3, <1>4, KeptFacts, MovesStep

LEMMA CloseAllStep == ASSUME TermInv, NEW r \in Requests, CloseAll(r) PROVE TermInv'
<1>1. Moves(r)
  BY BeginMoves DEF CloseAll, Ops
<1>2. up /\ req[r].at # "register" /\ ops' = ops + 1 /\ ops < MaxOps
  BY DEF CloseAll, Begin, Free, Idle
<1>3. UNCHANGED Settled /\ UNCHANGED <<proc, force, watch, overlap, faults>>
  BY DEF CloseAll, Settled, sessVars, histVars
<1>4. LooseTypes
  BY <1>2, <1>3, KeptFacts DEF LooseTypes, TermInv, TermTypeOK
<1>5. closing' \subseteq Terms /\ \A t \in closing' : row[t] # "fresh"
  <2>1. closing' = {t \in Terms : sessions[t] # 0}
    BY DEF CloseAll
  <2>2. ASSUME NEW t \in Terms, sessions[t] # 0 PROVE row[t] # "fresh"
    <3>1. sessions[t] \in Sess /\ of[sessions[t]] = t /\ fin[sessions[t]] # "off"
      BY <2>2 DEF TermInv, TermTypeOK, MapKnown, Unfinished
    <3> QED
      BY <3>1 DEF TermInv, Spawned
  <2> QED
    BY <2>1, <2>2
<1> QED
  BY <1>1, <1>2, <1>3, <1>4, <1>5, KeptFacts, MovesStep

LEMMA CloseNextStep == ASSUME TermInv, NEW r \in Requests, CloseNext(r) PROVE TermInv'
<1>1. /\ req[r].at = "next" /\ up /\ req \in [Requests -> Request]
      /\ req[r] \in [op : Ops, at : {"lookup", "stop", "wait", "row", "check", "mark", "register", "next"},
                     t : Terms \cup {"-"}, s : Sess \cup {0}]
  BY RequestFacts DEF CloseNext
<1>2. Moves(r)
  <2>1. CASE Return(r)
    BY <2>1, ReturnMoves
  <2>2. ASSUME NEW t \in closing, req' = [req EXCEPT ![r].at = "lookup", ![r].t = t] PROVE Moves(r)
    <3> DEFINE j == [req[r] EXCEPT !.at = "lookup", !.t = t]
    <3>1. t \in Terms /\ row[t] # "fresh"
      BY KeptFacts
    <3>2. j \in Request /\ j.at = "lookup" /\ j.t = t
      BY <1>1, <3>1 DEF Request
    <3>3. req' = [req EXCEPT ![r] = j]
      BY <1>1, <2>2
    <3> QED
      BY <3>1, <3>2, <3>3 DEF Moves, Grounded
  <2> QED
    BY <2>1, <2>2 DEF CloseNext
<1>3. UNCHANGED Settled /\ UNCHANGED <<proc, force, watch, overlap, ops, faults>> /\ closing' \subseteq closing
  BY DEF CloseNext, Settled, sessVars, histVars
<1> QED
  BY <1>1, <1>2, <1>3, KeptFacts, MovesStep

LEMMA LookupStep == ASSUME TermInv, NEW r \in Requests, Lookup(r) PROVE TermInv'
<1>1. req[r].at = "lookup" /\ req[r].t \in Terms /\ up
  BY RequestFacts DEF Lookup
<1>2. Moves(r)
  <2>1. sessions[req[r].t] \in Sess \cup {0}
    BY <1>1 DEF TermInv, TermTypeOK
  <2>2. CASE req' = [req EXCEPT ![r].at = "stop", ![r].s = sessions[req[r].t]]
    BY <1>1, <2>1, <2>2, GotoMoves
  <2>3. CASE Stopped(r)
    BY <1>1, <2>3, StoppedMoves
  <2> QED
    BY <2>2, <2>3 DEF Lookup
<1>3. UNCHANGED Settled /\ UNCHANGED <<proc, force, watch, closing, ops, faults>>
  BY DEF Lookup, Settled, sessVars
<1>4. overlap' = overlap \/ overlap' = overlap \cup {req[r].t}
  BY DEF Lookup, Overlaps
<1> QED
  BY <1>1, <1>2, <1>3, <1>4, KeptFacts, MovesStep

LEMMA RequestStopStep == ASSUME TermInv, NEW r \in Requests, RequestStop(r) PROVE TermInv'
<1>1. req[r].at = "stop" /\ up
  BY RequestFacts DEF RequestStop
<1>2. Moves(r)
  BY <1>1, GotoMoves DEF RequestStop, Goto
<1>3. UNCHANGED Settled /\ UNCHANGED <<watch, closing, overlap, ops, faults>>
  BY DEF RequestStop, Settled, histVars
<1>4. NoShellForgotten /\ force' \in [Sess -> BOOLEAN]
  <2>1. TermTypeOK /\ Spawned
    BY DEF TermInv
  <2> QED
    BY <2>1 DEF RequestStop, KillsShell, NoShellForgotten, TermTypeOK
<1>5. LooseTypes
  BY <1>3, <1>4, KeptFacts DEF LooseTypes, TermInv, TermTypeOK
<1> QED
  BY <1>1, <1>2, <1>3, <1>4, <1>5, KeptFacts, MovesStep

LEMMA AwaitDoneStep == ASSUME TermInv, NEW r \in Requests, AwaitDone(r) PROVE TermInv'
<1>1. req[r].at = "wait" /\ up
  BY RequestFacts DEF AwaitDone
<1>2. Moves(r)
  BY <1>1, StoppedMoves DEF AwaitDone
<1>3. UNCHANGED Settled /\ UNCHANGED <<proc, force, watch, closing, overlap, ops, faults>>
  BY DEF AwaitDone, Settled, sessVars, histVars
<1> QED
  BY <1>1, <1>2, <1>3, KeptFacts, MovesStep
-----------------------------------------------------------------------------
(* Spawning: a new session, in flight until it is registered or closed.    *)
NewSession(s, t) ==
  /\ proc[s] = "none"
  /\ of' = [of EXCEPT ![s] = t]
  /\ proc' \in {[proc EXCEPT ![s] = v] : v \in {"alive", "gone"}}

LEMMA NewSessionFacts ==
  ASSUME TermInv, NEW s \in Sess, NEW t \in Terms, NewSession(s, t)
  PROVE  /\ fin[s] = "off" /\ of'[s] = t /\ proc'[s] # "none"
         /\ \A u \in Sess \ {s} : of'[u] = of[u] /\ proc'[u] = proc[u]
         /\ of' \in [Sess -> Terms \cup {"-"}] /\ proc' \in [Sess -> {"none", "alive", "gone"}]
         /\ \A q \in Requests : Flying(q) => req[q].s \in Sess \ {s}
<1>1. TermTypeOK /\ Spawned /\ FlightHolds
  BY DEF TermInv
<1>2. /\ of' \in [Sess -> Terms \cup {"-"}] /\ of'[s] = t
      /\ \A u \in Sess \ {s} : of'[u] = of[u]
  BY <1>1 DEF NewSession, TermTypeOK
<1>3. /\ proc' \in [Sess -> {"none", "alive", "gone"}] /\ proc'[s] # "none"
      /\ \A u \in Sess \ {s} : proc'[u] = proc[u]
  BY <1>1 DEF NewSession, TermTypeOK
<1>4. fin[s] = "off" /\ \A q \in Requests : Flying(q) => req[q].s \in Sess \ {s}
  BY <1>1 DEF NewSession, Spawned, FlightHolds
<1> QED
  BY <1>2, <1>3, <1>4

LEMMA TakesOff ==
  ASSUME TermInv, NEW r \in Requests, NEW s \in Sess, NEW t \in Terms, NEW j \in Request,
         NewSession(s, t), req' = [req EXCEPT ![r] = j],
         j.at \in {"mark", "register"}, j.t = t, j.s = s, ~Flying(r), up,
         UNCHANGED <<up, sessions, fin, status, closing, unsaved>>, LooseTypes,
         \/ row' = row /\ row[t] # "fresh" /\ j.at = "mark"
         \/ row' = [row EXCEPT ![t] = "running"] /\ row[t] = "fresh" /\ j.at = "register",
         overlap \subseteq overlap', overlap' \subseteq Terms,
         t \notin overlap' => sessions[t] = 0 /\ \A q \in Requests : Flying(q) => req[q].t # t
  PROVE  TermInv'
<1>1. /\ fin[s] = "off" /\ of'[s] = t /\ proc'[s] # "none"
      /\ \A u \in Sess \ {s} : of'[u] = of[u] /\ proc'[u] = proc[u]
      /\ of' \in [Sess -> Terms \cup {"-"}] /\ proc' \in [Sess -> {"none", "alive", "gone"}]
      /\ \A q \in Requests : Flying(q) => req[q].s \in Sess \ {s}
  BY NewSessionFacts
<1>2. /\ req' \in [Requests -> Request] /\ req'[r] = j /\ \A q \in Requests \ {r} : req'[q] = req[q]
  BY DEF TermInv, TermTypeOK
<1>3. /\ row' \in [Terms -> {"fresh", "running", "exited", "crashed", "deleted"}]
      /\ \A u \in Terms \ {t} : row'[u] = row[u]
      /\ row'[t] = row[t] \/ (row[t] = "fresh" /\ row'[t] = "running" /\ j.at = "register")
      /\ row'[t] # "fresh"
  BY DEF TermInv, TermTypeOK
<1>4. TermTypeOK'
  BY <1>1, <1>2, <1>3 DEF TermInv, TermTypeOK, LooseTypes
<1>5. Requested'
  <2>1. closing' \subseteq Terms
    BY DEF TermInv, TermTypeOK
  <2> QED
    BY <1>2, <1>3, <2>1 DEF TermInv, Requested
<1>6. Spawned'
  BY <1>1, <1>3 DEF TermInv, Spawned
<1>7. \A q \in Requests \ {r} : (Flying(q)' <=> Flying(q)) /\ req'[q] = req[q]
  BY <1>2 DEF Flying
<1>8. FlightHolds'
  BY <1>1, <1>2, <1>7 DEF TermInv, FlightHolds
<1>9. MapKnown'
  BY <1>1 DEF TermInv, TermTypeOK, MapKnown, Unfinished
<1>10. RowBacked'
  <2>1. ASSUME NEW u \in Terms, row'[u] = row[u], ExitPending(u) \/ Registering(u)
        PROVE  ExitPending(u)' \/ Registering(u)'
    BY <1>1, <1>2, <2>1 DEF ExitPending, Registering, Flying
  <2>2. j.at = "register" => Registering(t)'
    BY <1>2 DEF Registering
  <2> QED
    BY <1>3, <2>1, <2>2 DEF TermInv, RowBacked
<1>11. FlightAlone'
  <2>1. ASSUME NEW q \in Requests \ {r}, Flying(q), req[q].t \notin overlap' PROVE req[q].t # t /\ req[q].t \notin overlap
    BY <2>1
  <2>2. \A q \in Requests \ {r} : Flying(q) => req[q].t \in Terms
    BY DEF TermInv, Requested, Flying
  <2>3. j.at = "register" => row'[t] = "running"
    BY <1>3 DEF TermInv, TermTypeOK
  <2> QED
    BY <1>2, <1>3, <1>7, <2>1, <2>2, <2>3 DEF TermInv, FlightAlone
<1>12. ShellsAreTracked'
  BY <1>1, <1>3 DEF TermInv, ShellsAreTracked, Spawned, Unfinished
<1>13. DownIsQuiet'
  BY DEF DownIsQuiet
<1> QED
  BY <1>4, <1>5, <1>6, <1>8, <1>9, <1>10, <1>11, <1>12, <1>13 DEF TermInv

LEMMA CreateStep == ASSUME TermInv, NEW r \in Requests, NEW t \in Terms, Create(r, t) PROVE TermInv'
<1>1. PICK s \in Sess : Spawn(s, t) /\ Begin(r, "create", "register", t, s)
  BY DEF Create
<1> DEFINE j == [op |-> "create", at |-> "register", t |-> t, s |-> s]
<1>2. /\ j \in Request /\ j.at = "register" /\ j.t = t /\ j.s = s
      /\ req' = [req EXCEPT ![r] = j] /\ ~Flying(r) /\ up /\ ops' = ops + 1 /\ ops < MaxOps
  BY <1>1 DEF Request, Ops, Begin, Free, Flying, Idle
<1>3. /\ row[t] = "fresh" /\ row' = [row EXCEPT ![t] = "running"]
      /\ UNCHANGED <<up, sessions, force, fin, status, watch, closing, overlap, unsaved, faults>>
  BY DEF Create, histVars
<1>4. NewSession(s, t)
  BY <1>1 DEF Spawn, NewSession
<1>5. LooseTypes
  BY <1>2, <1>3, KeptFacts DEF LooseTypes, TermInv, TermTypeOK
<1>6. sessions[t] = 0
  <2>1. ASSUME sessions[t] # 0 PROVE FALSE
    <3>1. sessions[t] \in Sess /\ of[sessions[t]] = t /\ fin[sessions[t]] # "off"
      BY <2>1 DEF TermInv, TermTypeOK, MapKnown, Unfinished
    <3> QED
      BY <1>3, <3>1 DEF TermInv, Spawned
  <2> QED
    BY <2>1
<1>7. \A q \in Requests : Flying(q) => req[q].t # t
  BY <1>3 DEF TermInv, Requested, Flying
<1> HIDE DEF j
<1>8. overlap \subseteq overlap' /\ overlap' \subseteq Terms
  BY <1>3, KeptFacts
<1> QED
  BY <1>2, <1>3, <1>4, <1>5, <1>6, <1>7, <1>8, TakesOff

LEMMA CreateFailsStep == ASSUME TermInv, NEW r \in Requests, NEW t \in Terms, CreateFails(r, t) PROVE TermInv'
<1>1. PICK s \in Sess : NewSession(s, t)
  BY DEF CreateFails, NewSession
<1>2. /\ fin[s] = "off" /\ of'[s] = t /\ proc'[s] # "none"
      /\ \A u \in Sess \ {s} : of'[u] = of[u] /\ proc'[u] = proc[u]
      /\ of' \in [Sess -> Terms \cup {"-"}] /\ proc' \in [Sess -> {"none", "alive", "gone"}]
      /\ \A q \in Requests : Flying(q) => req[q].s \in Sess \ {s}
  BY <1>1, NewSessionFacts
<1>3. /\ UNCHANGED <<up, row, sessions, force, fin, status, watch, req, closing, overlap, unsaved>>
      /\ ops' = ops + 1 /\ faults' = faults + 1 /\ ops < MaxOps /\ faults < MaxFaults
  BY DEF CreateFails, histVars
<1>4. ops' \in 0 .. MaxOps /\ faults' \in 0 .. MaxFaults
  BY <1>3, KeptFacts
<1>5. TermTypeOK'
  BY <1>2, <1>3, <1>4 DEF TermInv, TermTypeOK
<1>6. Requested' /\ Spawned'
  BY <1>2, <1>3 DEF TermInv, Requested, Spawned
<1>7. FlightHolds' /\ FlightAlone'
  BY <1>2, <1>3 DEF TermInv, FlightHolds, FlightAlone, Flying
<1>8. MapKnown'
  BY <1>2, <1>3 DEF TermInv, TermTypeOK, MapKnown, Unfinished
<1>9. RowBacked'
  <2>1. \A u \in Terms : ExitPending(u) => ExitPending(u)'
    BY <1>2, <1>3 DEF ExitPending
  <2>2. \A u \in Terms : Registering(u) => Registering(u)'
    BY <1>3 DEF Registering
  <2> QED
    BY <1>3, <2>1, <2>2 DEF TermInv, RowBacked
<1>10. ShellsAreTracked' /\ DownIsQuiet'
  BY <1>2, <1>3 DEF TermInv, ShellsAreTracked, DownIsQuiet, Unfinished
<1> QED
  BY <1>5, <1>6, <1>7, <1>8, <1>9, <1>10 DEF TermInv

LEMMA RestartCheckStep == ASSUME TermInv, NEW r \in Requests, RestartCheck(r) PROVE TermInv'
<1> DEFINE t == req[r].t
<1>1. /\ req[r].at = "check" /\ t \in Terms /\ row[t] # "fresh" /\ up /\ req \in [Requests -> Request]
      /\ req[r] \in [op : Ops, at : {"lookup", "stop", "wait", "row", "check", "mark", "register", "next"},
                     t : Terms \cup {"-"}, s : Sess \cup {0}]
  BY RequestFacts DEF RestartCheck
<1>2. UNCHANGED <<up, row, sessions, force, fin, status, watch, closing, unsaved, ops, faults>>
  BY DEF RestartCheck
<1>3. CASE Return(r) /\ UNCHANGED <<of, proc, overlap>>
  <2>1. Moves(r)
    BY <1>3, ReturnMoves
  <2> QED
    BY <1>1, <1>2, <1>3, <2>1, KeptFacts, MovesStep DEF Settled
<1>4. ASSUME NEW s \in Sess, Spawn(s, t), req' = [req EXCEPT ![r].at = "mark", ![r].s = s],
             ~AlreadyRunning(t), overlap' = Overlaps(t)
      PROVE  TermInv'
  <2> DEFINE j == [req[r] EXCEPT !.at = "mark", !.s = s]
  <2>1. j \in Request /\ j.at = "mark" /\ j.t = t /\ j.s = s
    BY <1>1 DEF Request
  <2>2. req' = [req EXCEPT ![r] = j] /\ NewSession(s, t) /\ ~Flying(r)
    BY <1>1, <1>4 DEF Spawn, NewSession, Flying
  <2>3. /\ overlap \subseteq overlap' /\ overlap' \subseteq Terms
        /\ t \notin overlap' => \A q \in Requests : Flying(q) => req[q].t # t
    BY <1>1, <1>4, KeptFacts DEF Overlaps, InFlight, Flying
  <2>4. sessions[t] = 0
    BY <1>4 DEF AlreadyRunning
  <2>5. LooseTypes
    BY <1>2, KeptFacts
  <2> HIDE DEF j, t
  <2> QED
    BY <1>1, <1>2, <2>1, <2>2, <2>3, <2>4, <2>5, TakesOff
<1> QED
  BY <1>3, <1>4 DEF RestartCheck
-----------------------------------------------------------------------------
(* Steps that change a row or the map.                                     *)
LEMMA RestartMarkStep == ASSUME TermInv, NEW r \in Requests, RestartMark(r) PROVE TermInv'
<1>1. /\ req[r].at = "mark" /\ req[r].t \in Terms /\ row[req[r].t] # "fresh" /\ up /\ req \in [Requests -> Request]
      /\ req[r] \in [op : Ops, at : {"lookup", "stop", "wait", "row", "check", "mark", "register", "next"},
                     t : Terms \cup {"-"}, s : Sess \cup {0}]
  BY RequestFacts DEF RestartMark
<1>t. PICK t \in Terms : t = req[r].t
  BY <1>1
<1>s. PICK s \in Sess : s = req[r].s /\ proc[s] # "none"
  BY <1>1 DEF TermInv, FlightHolds, Flying
<1>2. UNCHANGED <<up, sessions, of, force, fin, status, watch, closing, overlap, unsaved, ops>>
  BY DEF RestartMark, histVars
<1>3. CASE Return(r) /\ proc' = [proc EXCEPT ![s] = "gone"] /\ row' = row /\ faults' \in 0 .. MaxFaults
  <2>1. Moves(r)
    BY <1>3, ReturnMoves
  <2>2. NoShellForgotten
    <3>1. proc \in [Sess -> {"none", "alive", "gone"}]
      BY DEF TermInv, TermTypeOK
    <3> QED
      BY <1>3, <1>s, <3>1 DEF NoShellForgotten
  <2>3. LooseTypes
    BY <1>2, <1>3 DEF LooseTypes, TermInv, TermTypeOK
  <2> QED
    BY <1>1, <1>2, <1>3, <2>1, <2>2, <2>3, KeptFacts, MovesStep DEF Settled
<1>4. CASE HasRow(t) /\ MarkRunning(t) /\ Goto(r, "register") /\ UNCHANGED <<proc, faults>>
  <2> DEFINE j == [req[r] EXCEPT !.at = "register"]
  <2>1. j \in Request /\ j.at = "register" /\ j.t = t /\ j.s = s
    BY <1>1, <1>t, <1>s DEF Request
  <2>2. req' \in [Requests -> Request] /\ req'[r] = j /\ \A q \in Requests \ {r} : req'[q] = req[q]
    <3>1. req' = [req EXCEPT ![r] = j]
      BY <1>1, <1>4 DEF Goto
    <3> HIDE DEF j
    <3> QED
      BY <1>1, <2>1, <3>1
  <2>3. /\ row' \in [Terms -> {"fresh", "running", "exited", "crashed", "deleted"}]
        /\ row'[t] = "running" /\ \A u \in Terms \ {t} : row'[u] = row[u]
    BY <1>1, <1>4 DEF MarkRunning, TermInv, TermTypeOK
  <2> HIDE DEF j
  <2>4. TermTypeOK'
    BY <1>2, <1>4, <2>2, <2>3 DEF TermInv, TermTypeOK
  <2>5. Requested'
    <3>1. closing \subseteq Terms
      BY KeptFacts
    <3> QED
      BY <1>1, <1>2, <1>t, <2>1, <2>2, <2>3, <3>1 DEF TermInv, Requested
  <2>6. Spawned'
    BY <1>2, <1>4, <2>3 DEF TermInv, Spawned
  <2>7. \A q \in Requests : (Flying(q)' <=> Flying(q)) /\ req'[q].s = req[q].s /\ req'[q].t = req[q].t
    BY <1>1, <1>t, <1>s, <2>1, <2>2 DEF Flying
  <2>8. FlightHolds'
    BY <1>2, <1>4, <2>7 DEF TermInv, FlightHolds
  <2>9. MapKnown' /\ DownIsQuiet'
    BY <1>1, <1>2 DEF TermInv, MapKnown, DownIsQuiet, Unfinished
  <2>10. RowBacked'
    <3>1. Registering(t)'
      BY <2>1, <2>2 DEF Registering
    <3>2. \A u \in Terms : Registering(u) => Registering(u)'
      BY <1>1, <2>1, <2>2 DEF Registering
    <3> QED
      BY <1>2, <2>3, <3>1, <3>2 DEF TermInv, RowBacked, ExitPending
  <2>11. FlightAlone'
    <3>1. \A q \in Requests \ {r} : req'[q] = req[q] /\ (Flying(q) => req[q].t \in Terms)
      BY <2>2 DEF TermInv, Requested, Flying
    <3> QED
      BY <1>2, <2>1, <2>2, <2>3, <2>7, <3>1 DEF TermInv, FlightAlone
  <2>12. ShellsAreTracked'
    <3>1. t \notin overlap => sessions[t] = 0
      BY <1>1, <1>t DEF TermInv, FlightAlone, Flying
    <3>2. ASSUME NEW x \in Sess, Unfinished(x), of[x] \notin overlap PROVE of[x] \in Terms \ {t}
      BY <1>1, <3>1, <3>2, ManagerConstants DEF TermInv, ShellsAreTracked, Spawned, Unfinished
    <3> QED
      BY <1>2, <2>3, <3>2 DEF TermInv, ShellsAreTracked, Unfinished
  <2> QED
    BY <2>4, <2>5, <2>6, <2>8, <2>9, <2>10, <2>11, <2>12 DEF TermInv
<1>5. UNCHANGED faults \/ (faults < MaxFaults /\ faults' = faults + 1) => faults' \in 0 .. MaxFaults
  BY KeptFacts
<1> QED
  BY <1>3, <1>4, <1>5, <1>t, <1>s DEF RestartMark

LEMMA RegisterStep == ASSUME TermInv, NEW r \in Requests, Register(r) PROVE TermInv'
<1>1. req[r].at = "register" /\ req[r].t \in Terms /\ row[req[r].t] # "fresh" /\ up /\ req \in [Requests -> Request]
  BY RequestFacts DEF Register
<1>t. PICK t \in Terms : t = req[r].t
  BY <1>1
<1>s. PICK s \in Sess : s = req[r].s
  BY <1>1 DEF TermInv, FlightHolds, Flying
<1>2. /\ s # 0 /\ of[s] = t /\ fin[s] = "off" /\ proc[s] # "none"
      /\ \A q \in Requests \ {r} : Flying(q) => req[q].s \in Sess \ {s}
  BY <1>1, <1>t, <1>s, ManagerConstants DEF TermInv, FlightHolds, Flying
<1>3. t \notin overlap => /\ sessions[t] = 0 /\ row[t] = "running"
                          /\ \A q \in Requests \ {r} : Flying(q) => req[q].t # t
  BY <1>1, <1>t DEF TermInv, FlightAlone, Flying
<1>4. UNCHANGED <<up, row, of, proc, force, status, watch, closing, overlap, unsaved, ops, faults>>
  BY DEF Register, histVars
<1>5. /\ sessions' \in [Terms -> Sess \cup {0}] /\ sessions'[t] = s
      /\ \A u \in Terms \ {t} : sessions'[u] = sessions[u]
  BY <1>t, <1>s DEF Register, TermInv, TermTypeOK
<1>6. /\ fin' \in [Sess -> {"off", "read", "update", "notify", "unreg", "done"}] /\ fin'[s] = "read"
      /\ \A x \in Sess \ {s} : fin'[x] = fin[x]
  BY <1>s DEF Register, TermInv, TermTypeOK
<1>7. req' \in [Requests -> Request] /\ req'[r] = Idle /\ \A q \in Requests \ {r} : req'[q] = req[q]
  BY <1>1 DEF Register, Return, Request
<1>8. TermTypeOK'
  BY <1>4, <1>5, <1>6, <1>7 DEF TermInv, TermTypeOK
<1>9. Requested'
  BY <1>4, <1>7 DEF TermInv, Requested, Idle
<1>10. Spawned'
  BY <1>1, <1>2, <1>t, <1>4, <1>6 DEF TermInv, Spawned
<1>11. \A q \in Requests : Flying(q)' => q # r /\ Flying(q) /\ req'[q] = req[q]
  BY <1>7 DEF Flying, Idle
<1>12. FlightHolds'
  BY <1>2, <1>4, <1>6, <1>11 DEF TermInv, FlightHolds
<1>13. MapKnown'
  <2>1. ASSUME NEW u \in Terms \ {t}, sessions[u] # 0 PROVE sessions[u] \in Sess \ {s}
    BY <1>2, <2>1 DEF TermInv, TermTypeOK, MapKnown, Unfinished
  <2> QED
    BY <1>2, <1>4, <1>5, <1>6, <2>1 DEF TermInv, MapKnown, Unfinished
<1>14. RowBacked'
  <2>1. ExitPending(t)'
    BY <1>2, <1>4, <1>6 DEF ExitPending
  <2>2. ASSUME NEW u \in Terms \ {t}, ExitPending(u) \/ Registering(u) PROVE ExitPending(u)' \/ Registering(u)'
    <3>1. ExitPending(u) => ExitPending(u)'
      BY <1>2, <1>4, <1>6 DEF ExitPending
    <3>2. Registering(u) => Registering(u)'
      BY <1>t, <1>7 DEF Registering
    <3> QED
      BY <2>2, <3>1, <3>2
  <2> QED
    BY <1>4, <2>1, <2>2 DEF TermInv, RowBacked
<1>15. FlightAlone'
  <2>1. \A q \in Requests : Flying(q)' /\ req[q].t \notin overlap => req[q].t \in Terms \ {t}
    BY <1>3, <1>11 DEF TermInv, Requested, Flying
  <2> QED
    BY <1>4, <1>5, <1>11, <2>1 DEF TermInv, FlightAlone
<1>16. ShellsAreTracked'
  <2>1. ASSUME NEW x \in Sess \ {s}, Unfinished(x), of[x] \notin overlap PROVE of[x] \in Terms \ {t}
    BY <1>1, <1>3, <2>1, ManagerConstants DEF TermInv, ShellsAreTracked, Spawned, Unfinished
  <2> QED
    BY <1>2, <1>3, <1>4, <1>5, <1>6, <2>1 DEF TermInv, ShellsAreTracked, Unfinished
<1> QED
  BY <1>1, <1>4, <1>8, <1>9, <1>10, <1>12, <1>13, <1>14, <1>15, <1>16 DEF TermInv, DownIsQuiet

\* A deleted row was nobody's: with a session or a shell in flight, history says so.
LEMMA DeleteRowStep == ASSUME TermInv, NEW r \in Requests, DeleteRow(r) PROVE TermInv'
<1>1. req[r].at = "row" /\ req[r].t \in Terms /\ up /\ req \in [Requests -> Request]
  BY RequestFacts DEF DeleteRow
<1>t. PICK t \in Terms : t = req[r].t
  BY <1>1
<1>2. UNCHANGED <<up, sessions, of, proc, force, fin, status, watch, closing, unsaved, ops, faults>>
  BY DEF DeleteRow, sessVars
<1>3. req' \in [Requests -> Request] /\ req'[r] = Idle /\ \A q \in Requests \ {r} : req'[q] = req[q]
  BY <1>1 DEF DeleteRow, Return, Request
<1>4. /\ row' \in [Terms -> {"fresh", "running", "exited", "crashed", "deleted"}]
      /\ row'[t] = "deleted" /\ \A u \in Terms \ {t} : row'[u] = row[u]
  BY <1>t DEF DeleteRow, TermInv, TermTypeOK
<1>5. /\ overlap \subseteq overlap' /\ overlap' \subseteq Terms
      /\ t \notin overlap' => sessions[t] = 0 /\ \A q \in Requests : Flying(q) => req[q].t # t
  BY <1>t, KeptFacts DEF DeleteRow, Overlaps, InFlight, Flying
<1>6. \A q \in Requests : Flying(q)' => q # r /\ Flying(q) /\ req'[q] = req[q]
  BY <1>3 DEF Flying, Idle
<1>7. TermTypeOK'
  BY <1>2, <1>3, <1>4, <1>5 DEF TermInv, TermTypeOK
<1>8. Requested'
  BY <1>2, <1>3, <1>4, KeptFacts DEF TermInv, Requested, Idle
<1>9. Spawned' /\ MapKnown'
  BY <1>2, <1>4 DEF TermInv, Spawned, MapKnown, Unfinished
<1>10. FlightHolds'
  BY <1>2, <1>6 DEF TermInv, FlightHolds
<1>11. RowBacked'
  <2>1. \A u \in Terms : Registering(u) => Registering(u)'
    BY <1>1, <1>3 DEF Registering
  <2> QED
    BY <1>2, <1>4, <2>1 DEF TermInv, RowBacked, ExitPending
<1>12. FlightAlone'
  <2>1. \A q \in Requests : Flying(q) /\ req[q].t \notin overlap' => req[q].t \in Terms \ {t} /\ req[q].t \notin overlap
    BY <1>5 DEF TermInv, Requested, Flying
  <2> QED
    BY <1>2, <1>4, <1>6, <2>1 DEF TermInv, FlightAlone
<1>13. ShellsAreTracked'
  <2>1. ASSUME NEW x \in Sess, Unfinished(x), of[x] \notin overlap' PROVE of[x] \in Terms \ {t} /\ of[x] \notin overlap
    BY <1>1, <1>5, <2>1, ManagerConstants DEF TermInv, ShellsAreTracked, Spawned, Unfinished
  <2> QED
    BY <1>2, <1>4, <2>1 DEF TermInv, ShellsAreTracked, Unfinished
<1> QED
  BY <1>1, <1>2, <1>7, <1>8, <1>9, <1>10, <1>11, <1>12, <1>13 DEF TermInv, DownIsQuiet
-----------------------------------------------------------------------------
(* The session's goroutine: it goes on within its own session until it is  *)
(* done, and the row and the map change under its terminal.                *)
LEMMA SessionMoves ==
  ASSUME TermInv, NEW s \in Sess, NEW l \in {"update", "notify", "unreg"},
         Unfinished(s), fin' = [fin EXCEPT ![s] = l], up, l = "update" <=> fin[s] = "read",
         fin[s] = "update" => of[s] \in unsaved' \/ row'[of[s]] # "running",
         UNCHANGED <<up, sessions, of, proc, force, req, closing, overlap, ops>>, faults' \in 0 .. MaxFaults,
         watch' \in [Sess -> {"none", "got", "listed", "taken", "told"}],
         unsaved \subseteq unsaved', unsaved' \subseteq Terms,
         row' = row \/ (row' = [row EXCEPT ![of[s]] = status[s]] /\ fin[s] = "update" /\ HasRow(of[s])),
         status' \in [Sess -> {"-", "exited", "crashed"}], l = "update" => status'[s] # "-",
         \A x \in Sess \ {s} : status'[x] = status[x]
  PROVE  TermInv'
<1>1. PICK t \in Terms : t = of[s] /\ row[t] # "fresh"
  BY DEF TermInv, Spawned, Unfinished
<1>2. /\ fin' \in [Sess -> {"off", "read", "update", "notify", "unreg", "done"}] /\ fin'[s] = l
      /\ \A x \in Sess \ {s} : fin'[x] = fin[x]
  BY DEF TermInv, TermTypeOK
<1>3. proc[s] # "none" /\ \A q \in Requests : Flying(q) => req[q].s # s
  BY DEF TermInv, Spawned, FlightHolds, Unfinished
<1>4. row' = row \/ (HasRow(t) /\ row' = [row EXCEPT ![t] = status[s]] /\ status[s] \in {"exited", "crashed"})
  BY <1>1 DEF TermInv, TermTypeOK, Spawned
<1>5. /\ row' \in [Terms -> {"fresh", "running", "exited", "crashed", "deleted"}]
      /\ \A u \in Terms \ {t} : row'[u] = row[u]
      /\ row'[t] # "fresh" /\ (row'[t] = "deleted" => row[t] = "deleted") /\ (row'[t] = "running" => row[t] = "running")
      /\ l = "update" => row' = row
  BY <1>1, <1>4 DEF TermInv, TermTypeOK, HasRow
<1>6. TermTypeOK'
  BY <1>2, <1>5 DEF TermInv, TermTypeOK
<1>7. Requested'
  BY <1>5, KeptFacts DEF TermInv, Requested
<1>8. Spawned'
  BY <1>1, <1>2, <1>3, <1>5 DEF TermInv, Spawned
<1>9. FlightHolds'
  BY <1>2, <1>3 DEF TermInv, FlightHolds, Flying
<1>10. MapKnown'
  <2>1. \A x \in Sess : Unfinished(x) => Unfinished(x)'
    BY <1>2 DEF Unfinished
  <2> QED
    BY <2>1 DEF TermInv, TermTypeOK, MapKnown
<1>11. RowBacked'
  <2>1. \A u \in Terms : Registering(u) => Registering(u)'
    BY DEF Registering
  <2>2. \A u \in Terms \ {t} : ExitPending(u) => ExitPending(u)'
    BY <1>1, <1>2 DEF ExitPending
  <2>3. fin[s] = "read" => ExitPending(t)'
    BY <1>1, <1>2 DEF ExitPending
  <2>4. fin[s] \notin {"read", "update"} => (ExitPending(t) => ExitPending(t)')
    BY <1>2 DEF ExitPending
  <2> QED
    BY <1>1, <1>5, <2>1, <2>2, <2>3, <2>4 DEF TermInv, RowBacked
<1>12. t \notin overlap => sessions[t] = s /\ sessions[t] # 0
  BY <1>1, ManagerConstants DEF TermInv, ShellsAreTracked
<1>13. FlightAlone'
  <2>1. \A q \in Requests : Flying(q) /\ req[q].t \notin overlap => req[q].t \in Terms \ {t}
    BY <1>12 DEF TermInv, Requested, FlightAlone, Flying
  <2> QED
    BY <1>5, <2>1 DEF TermInv, FlightAlone, Flying
<1>14. ShellsAreTracked'
  <2>1. ASSUME NEW x \in Sess \ {s}, Unfinished(x), of[x] \notin overlap PROVE of[x] \in Terms \ {t}
    BY <1>12, <2>1 DEF TermInv, ShellsAreTracked, Spawned, Unfinished
  <2>2. ASSUME t \notin overlap PROVE sessions[t] = s /\ row'[t] # "deleted" /\ fin'[s] # "read"
    BY <1>1, <1>2, <1>5, <1>12, <2>2 DEF TermInv, ShellsAreTracked
  <2> QED
    BY <1>1, <1>2, <1>5, <2>1, <2>2 DEF TermInv, ShellsAreTracked, Unfinished
<1> QED
  BY <1>6, <1>7, <1>8, <1>9, <1>10, <1>11, <1>13, <1>14 DEF TermInv, DownIsQuiet

LEMMA SessionFacts ==
  ASSUME TermInv, NEW s \in Sess, Unfinished(s)
  PROVE  /\ up /\ of[s] \in Terms /\ unsaved \subseteq Terms
         /\ status \in [Sess -> {"-", "exited", "crashed"}] /\ faults \in 0 .. MaxFaults
         /\ watch \in [Sess -> {"none", "got", "listed", "taken", "told"}]
         /\ row \in [Terms -> {"fresh", "running", "exited", "crashed", "deleted"}]
BY DEF TermInv, TermTypeOK, Spawned, DownIsQuiet, Unfinished

LEMMA FinalizeStep == ASSUME TermInv, NEW s \in Sess, Finalize(s) PROVE TermInv'
<1>1. Unfinished(s) /\ fin[s] = "read" /\ fin' = [fin EXCEPT ![s] = "update"]
  BY DEF Finalize, Unfinished
<1>2. UNCHANGED <<up, row, sessions, of, proc, force, req, closing, overlap, unsaved, ops, faults>>
  BY DEF Finalize, histVars
<1>3. PICK v \in {"exited", "crashed"} : status' = [status EXCEPT ![s] = v]
  BY DEF Finalize
<1>4. /\ status' \in [Sess -> {"-", "exited", "crashed"}] /\ status'[s] # "-"
      /\ \A x \in Sess \ {s} : status'[x] = status[x]
  BY <1>1, <1>3, SessionFacts
<1>5. watch' \in [Sess -> {"none", "got", "listed", "taken", "told"}]
  BY <1>1, SessionFacts DEF Finalize
<1> QED
  BY <1>1, <1>2, <1>4, <1>5, SessionFacts, SessionMoves

LEMMA RecordExitStep == ASSUME TermInv, NEW s \in Sess, RecordExit(s) PROVE TermInv'
<1>1. Unfinished(s) /\ fin[s] = "update" /\ fin' = [fin EXCEPT ![s] = "notify"]
  BY DEF RecordExit, Unfinished
<1>2. UNCHANGED <<up, sessions, of, proc, force, status, watch, req, closing, overlap, ops>>
  BY DEF RecordExit
<1>3. /\ faults' \in 0 .. MaxFaults /\ unsaved \subseteq unsaved' /\ unsaved' \subseteq Terms
      /\ \/ row' = row
         \/ row' = [row EXCEPT ![of[s]] = status[s]] /\ HasRow(of[s])
  BY <1>1, SessionFacts, KeptFacts DEF RecordExit
<1>4. of[s] \in unsaved' \/ row'[of[s]] # "running"
  <2>1. status[s] # "running"
    BY <1>1, SessionFacts
  <2> QED
    BY <1>1, <2>1, SessionFacts DEF RecordExit, HasRow
<1> QED
  BY <1>1, <1>2, <1>3, <1>4, SessionFacts, SessionMoves

LEMMA NotifyStatusStep == ASSUME TermInv, NEW s \in Sess, NotifyStatus(s) PROVE TermInv'
<1>1. Unfinished(s) /\ fin[s] = "notify" /\ fin' = [fin EXCEPT ![s] = "unreg"]
  BY DEF NotifyStatus, Unfinished
<1>2. UNCHANGED <<up, row, sessions, of, proc, force, status, req, closing, overlap, unsaved, ops, faults>>
  BY DEF NotifyStatus, histVars
<1>3. watch' \in [Sess -> {"none", "got", "listed", "taken", "told"}]
  BY <1>1, SessionFacts DEF NotifyStatus
<1> QED
  BY <1>1, <1>2, <1>3, SessionFacts, SessionMoves

\* unregister deletes by terminal: whatever it takes out, only s is done, and a
\* session registered over s is one that history knows of.
LEMMA FinalizeDoneStep == ASSUME TermInv, NEW s \in Sess, FinalizeDone(s) PROVE TermInv'
<1>1. fin[s] = "unreg" /\ Unfinished(s)
  BY DEF FinalizeDone, Unfinished
<1>2. UNCHANGED <<up, row, of, proc, force, status, watch, req, closing, overlap, unsaved, ops, faults>>
  BY DEF FinalizeDone, histVars
<1>3. PICK t \in Terms : t = of[s]
  BY <1>1, SessionFacts
<1>4. /\ sessions' \in [Terms -> Sess \cup {0}] /\ sessions'[t] = 0
      /\ \A u \in Terms \ {t} : sessions'[u] = sessions[u]
  BY <1>3 DEF FinalizeDone, Unregister, TermInv, TermTypeOK
<1>5. /\ fin' \in [Sess -> {"off", "read", "update", "notify", "unreg", "done"}] /\ fin'[s] = "done"
      /\ \A x \in Sess \ {s} : fin'[x] = fin[x]
  BY DEF FinalizeDone, TermInv, TermTypeOK
<1>6. TermTypeOK'
  BY <1>2, <1>4, <1>5 DEF TermInv, TermTypeOK
<1>7. Requested' /\ Spawned'
  BY <1>1, <1>2, <1>5 DEF TermInv, Requested, Spawned
<1>8. FlightHolds'
  BY <1>1, <1>2, <1>5 DEF TermInv, FlightHolds, Flying
<1>9. MapKnown'
  <2>1. ASSUME NEW u \in Terms \ {t}, sessions[u] # 0 PROVE sessions[u] \in Sess \ {s}
    BY <1>3, <2>1 DEF TermInv, TermTypeOK, MapKnown
  <2> QED
    BY <1>2, <1>4, <1>5, <2>1 DEF TermInv, MapKnown, Unfinished
<1>10. RowBacked'
  <2>1. \A u \in Terms : ExitPending(u) => ExitPending(u)'
    BY <1>1, <1>2, <1>5 DEF ExitPending
  <2>2. \A u \in Terms : Registering(u) => Registering(u)'
    BY <1>2 DEF Registering
  <2> QED
    BY <1>2, <2>1, <2>2 DEF TermInv, RowBacked
<1>11. FlightAlone'
  <2>1. \A q \in Requests : Flying(q) => req[q].t \in Terms
    BY DEF TermInv, Requested, Flying
  <2> QED
    BY <1>2, <1>4, <2>1 DEF TermInv, FlightAlone, Flying
<1>12. ShellsAreTracked'
  <2>1. up
    BY <1>1, SessionFacts
  <2>2. ASSUME NEW x \in Sess \ {s}, Unfinished(x), of[x] \notin overlap PROVE of[x] \in Terms \ {t}
    BY <1>1, <1>3, <2>1, <2>2 DEF TermInv, ShellsAreTracked, Spawned, Unfinished
  <2> QED
    BY <1>2, <1>4, <1>5, <2>2 DEF TermInv, ShellsAreTracked, Unfinished
<1>13. DownIsQuiet'
  BY <1>1, <1>2, SessionFacts DEF DownIsQuiet
<1> QED
  BY <1>6, <1>7, <1>8, <1>9, <1>10, <1>11, <1>12, <1>13 DEF TermInv

LEMMA WatchStep ==
  ASSUME TermInv, NEW s \in Sess, ShellExits(s) \/ GetSession(s) \/ SubscribeStatus(s)
  PROVE  TermInv'
<1>1. UNCHANGED Settled /\ UNCHANGED <<req, closing, overlap, force, ops, faults>>
  BY DEF ShellExits, GetSession, SubscribeStatus, Settled, histVars
<1>2. NoShellForgotten
  <2>1. CASE ShellExits(s)
    BY <2>1 DEF ShellExits, NoShellForgotten, TermInv, TermTypeOK
  <2>2. CASE proc' = proc
    BY <2>2, KeptFacts
  <2> QED
    BY <2>1, <2>2 DEF GetSession, SubscribeStatus
<1>3. watch' \in [Sess -> {"none", "got", "listed", "taken", "told"}]
  BY DEF ShellExits, GetSession, SubscribeStatus, SubscribeTo, TermInv, TermTypeOK
<1> QED
  BY <1>1, <1>2, <1>3, QuietStep DEF LooseTypes, TermInv, TermTypeOK
-----------------------------------------------------------------------------
(* The daemon dies and starts again.                                       *)
LEMMA DieStep == ASSUME TermInv, Die PROVE TermInv'
<1>1. /\ up' = FALSE /\ sessions' = [t \in Terms |-> 0] /\ closing' = {} /\ overlap' = {}
      /\ req' = [r \in Requests |-> Idle]
      /\ UNCHANGED <<row, of, force, status, unsaved, ops>> /\ faults' \in 0 .. MaxFaults
  BY KeptFacts DEF Die
<1>2. /\ fin' = [s \in Sess |-> IF fin[s] = "off" THEN "off" ELSE "done"]
      /\ watch' = [s \in Sess |-> "none"]
      /\ proc' = [s \in Sess |-> IF proc[s] = "none" THEN "none" ELSE "gone"]
  BY DEF Die
<1>3. TermTypeOK'
  BY <1>1, <1>2 DEF TermInv, TermTypeOK, Request
<1>4. Requested' /\ FlightHolds' /\ FlightAlone'
  BY <1>1 DEF Requested, FlightHolds, FlightAlone, Flying, Idle
<1>5. Spawned'
  BY <1>1, <1>2 DEF TermInv, Spawned
<1>6. MapKnown' /\ RowBacked' /\ ShellsAreTracked'
  BY <1>1 DEF MapKnown, RowBacked, ShellsAreTracked
<1>7. DownIsQuiet'
  BY <1>1, <1>2 DEF DownIsQuiet, Unfinished
<1> QED
  BY <1>3, <1>4, <1>5, <1>6, <1>7 DEF TermInv

LEMMA RecoverStep == ASSUME TermInv, RecoverOnStartup PROVE TermInv'
<1>1. /\ ~up /\ up' = TRUE /\ unsaved' = {}
      /\ row' = [t \in Terms |-> IF row[t] = "running" THEN "crashed" ELSE row[t]]
      /\ UNCHANGED <<sessions, of, proc, force, fin, status, watch, req, closing, overlap, ops, faults>>
  BY DEF RecoverOnStartup, MarkRunningAsCrashed, sessVars
<1>2. (\A s \in Sess : ~Unfinished(s)) /\ (\A r \in Requests : req[r] = Idle)
  BY <1>1 DEF TermInv, DownIsQuiet
<1>3. /\ row' \in [Terms -> {"fresh", "running", "exited", "crashed", "deleted"}]
      /\ \A t \in Terms : row'[t] # "running" /\ (row[t] # "fresh" => row'[t] # "fresh")
  BY <1>1 DEF TermInv, TermTypeOK
<1>4. TermTypeOK'
  BY <1>1, <1>3 DEF TermInv, TermTypeOK
<1>5. Requested' /\ FlightHolds' /\ FlightAlone'
  BY <1>1, <1>2, <1>3, KeptFacts DEF TermInv, Requested, FlightHolds, FlightAlone, Flying, Idle
<1>6. Spawned'
  BY <1>1, <1>3 DEF TermInv, Spawned
<1>7. MapKnown' /\ RowBacked' /\ ShellsAreTracked' /\ DownIsQuiet'
  BY <1>1, <1>2, <1>3 DEF TermInv, MapKnown, RowBacked, ShellsAreTracked, DownIsQuiet, Unfinished
<1> QED
  BY <1>4, <1>5, <1>6, <1>7 DEF TermInv

LEMMA NextTermInv == TermInv /\ [TermNext]_vars => TermInv'
<1> SUFFICES ASSUME TermInv, [TermNext]_vars PROVE TermInv'
  OBVIOUS
<1>1. ASSUME NEW r \in Requests,
             \/ \E t \in Terms : Create(r, t) \/ CreateFails(r, t) \/ \E op \in {"stop", "delete", "restart"} : Ask(r, op, t)
             \/ CloseAll(r)
      PROVE  TermInv'
  BY <1>1, CreateStep, CreateFailsStep, AskStep, CloseAllStep
<1>2. ASSUME NEW r \in Requests, RequestStep(r) PROVE TermInv'
  BY <1>2, CloseNextStep, LookupStep, RequestStopStep, AwaitDoneStep, DeleteRowStep, RestartCheckStep,
     RestartMarkStep, RegisterStep DEF RequestStep
<1>3. ASSUME NEW s \in Sess, SessionStep(s) PROVE TermInv'
  BY <1>3, FinalizeStep, RecordExitStep, NotifyStatusStep, FinalizeDoneStep DEF SessionStep
<1>4. ASSUME NEW s \in Sess, ShellExits(s) \/ GetSession(s) \/ SubscribeStatus(s) PROVE TermInv'
  BY <1>4, WatchStep
<1>5. CASE Die \/ RecoverOnStartup
  BY <1>5, DieStep, RecoverStep
<1>6. CASE UNCHANGED vars
  <2>1. UNCHANGED <<sessVars, histVars, up, row, sessions, req, closing, ops, faults>>
    BY <1>6 DEF vars
  <2>2. UNCHANGED Settled /\ UNCHANGED <<proc, force, watch, req, closing, overlap, ops, faults>>
    BY <2>1 DEF Settled, sessVars, histVars
  <2> QED
    BY <2>2, KeptFacts, QuietStep
<1> QED
  BY <1>1, <1>2, <1>3, <1>4, <1>5, <1>6 DEF TermNext

THEOREM TermInvariant == TermSpec => []TermInv
<1> QED
  BY InitTermInv, NextTermInv, PTL DEF TermSpec

\* No terminal is shown as running for ever: a row that says running has a session
\* that is going to record its exit, or a request about to register one, unless
\* the update of the row itself failed.
THEOREM RunningRowsAreBacked == TermSpec => []RunningRowIsBacked
<1>1. TermInv => RunningRowIsBacked
  BY DEF TermInv, RowBacked, RunningRowIsBacked, Registering, InFlight
<1> QED
  BY <1>1, TermInvariant, PTL

\* Manager.Get never returns a session whose finalize completed.
THEOREM MapHoldsUnfinishedSessions == TermSpec => []MapHoldsUnfinished
<1>1. TermInv => MapHoldsUnfinished
  BY DEF TermInv, MapKnown, MapHoldsUnfinished, Unfinished
<1> QED
  BY <1>1, TermInvariant, PTL

\* A shell is lost track of only in the windows that Overlaps names.
THEOREM ShellsStayTracked == TermSpec => []ShellsAreTracked
<1>1. TermInv => ShellsAreTracked
  BY DEF TermInv
<1> QED
  BY <1>1, TermInvariant, PTL
=============================================================================
