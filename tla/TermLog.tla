------------------------------ MODULE TermLog ------------------------------
(***************************************************************************)
(* The log of one terminal: logstore.Manager with its Aggregators, as used *)
(* by the terminal session (stdout, resizes), by WebSocket connections     *)
(* (stdin, FlushResizeMarker on subscribe) and by the session's finalize   *)
(* and restart.                                                            *)
(*                                                                         *)
(* A termState object (its atomic seq counter and its aggregators) is a    *)
(* generation g; m.states holds at most one of them (cur), but goroutines  *)
(* keep pointers to older ones.  Output is abstracted to units numbered in *)
(* the order the PTY produced them; a chunk is a sequence of units.  The   *)
(* input channel of an aggregator and its buffer are one sequence: a flush *)
(* takes any prefix of it up to MaxChunk.                                  *)
(***************************************************************************)
EXTENDS Integers, Sequences, FiniteSets

CONSTANTS
  Flushers,    \* goroutines that call FlushResizeMarker (subscribes)
  MaxUnits,    \* bound: units of PTY output and of input together
  MaxIn,       \* bound: units of input
  MaxGrid,     \* bound: grid changes
  MaxGens,     \* bound: termState objects
  MaxCrashes,  \* bound: daemon crashes
  MaxChunk,    \* Config.MaxChunkBytes, in units
  None

Gens == 1 .. MaxGens
Dirs == {"stdout", "stdin"}
Aggs == Gens \X Dirs
Writers == Aggs \cup Flushers

ASSUME WritersAssumption == Flushers \cap Aggs = {} /\ None \notin 1 .. MaxGrid

ASSUME LogBoundsAssumption ==
  /\ MaxUnits \in Nat /\ MaxIn \in Nat /\ MaxGrid \in Nat
  /\ MaxGens \in Nat /\ MaxCrashes \in Nat /\ MaxChunk \in Nat \ {0}

VARIABLES
  phase,    \* session: "live", "closing", "stopping" (inside logMgr.Close), "dead"
  cur,      \* m.states[terminal]: the registered generation, 0 when absent
  gens,     \* generations created so far
  seq,      \* termState.seq
  agg,      \* an aggregator: "none", "open", "closed" (input channel closed), "done"
  buf,      \* units accepted by an aggregator and not yet being flushed
  closing,  \* Manager.Close: the generation it removed, and the aggregators to stop
  pending,  \* m.pendingResizes[terminal], None when absent
  grid,     \* the session's current grid (grids are numbered in their order)
  rows,     \* terminal_logs: [seq, dir, data], and the writer and generation behind it
  jobs,     \* chunks a writer has still to flush, the current one first
  stage,    \* where the writer is with the current one
  wgen,     \* the generation a writer works on
  overlap,  \* a generation was (re)used while another one still had writers
  out, in,  \* units of output and of input accepted so far
  ipc,      \* the goroutine running Session.Write
  lost,     \* chunks whose insert failed (logged and dropped)
  crashed,  \* units that were in memory when the daemon crashed
  crashes,
  panicked

sessVars == <<phase, closing, pending, grid>>
stateVars == <<cur, gens, seq, agg, buf, overlap>>
jobVars == <<jobs, stage, wgen>>
ioVars == <<out, in, ipc>>
lossVars == <<lost, crashed, crashes, panicked>>
logVars == <<sessVars, stateVars, rows, jobVars, ioVars, lossVars>>

Units == 1 .. MaxUnits + MaxGrid
Job == [dir : Dirs \cup {"resize"}, data : Seq(Units), seq : Nat]
Row == [dir : Dirs \cup {"resize"}, data : Seq(Units), seq : Nat, gen : Gens, by : Writers]

LogTypeOK ==
  /\ phase \in {"live", "closing", "stopping", "dead"}
  /\ cur \in 0 .. MaxGens /\ gens \in 0 .. MaxGens /\ cur <= gens
  /\ seq \in [Gens -> Nat]
  /\ agg \in [Aggs -> {"none", "open", "closed", "done"}]
  /\ buf \in [Aggs -> Seq(Units)]
  /\ closing \in [gen : 0 .. MaxGens, stop : SUBSET Dirs]
  /\ pending \in 1 .. MaxGrid \cup {None}
  /\ grid \in 0 .. MaxGrid
  /\ rows \subseteq Row
  /\ jobs \in [Writers -> Seq(Job)]
  /\ stage \in [Writers -> {"idle", "register", "get", "alloc", "insert", "notify"}]
  /\ wgen \in [Writers -> 0 .. MaxGens]
  /\ \A w \in Writers : stage[w] \in {"alloc", "insert", "notify"} => wgen[w] # 0 /\ jobs[w] # <<>>
  /\ out \in Nat /\ in \in 0 .. MaxIn /\ out + in <= MaxUnits
  /\ ipc \in [at : {"idle", "registered", "hasState", "hasAgg"}, gen : 0 .. MaxGens]
  /\ lost \subseteq Row
  /\ crashed \subseteq Units
  /\ crashes \in 0 .. MaxCrashes
  /\ panicked \in BOOLEAN /\ overlap \in BOOLEAN

Elems(s) == {s[i] : i \in DOMAIN s}

\* repo.MaxSeq
MaxSeq == IF rows = {} THEN 0
          ELSE CHOOSE n \in {r.seq : r \in rows} : \A r \in rows : r.seq <= n

\* Goroutines that still write under generation g
HasWriters(g) ==
  \/ \E d \in Dirs : agg[<<g, d>>] \in {"open", "closed"}
  \/ \E w \in Writers : stage[w] \in {"alloc", "insert", "notify"} /\ wgen[w] = g

\* Units accepted or about to be: an input that has begun counts
Begun == out + in + (IF ipc.at = "idle" THEN 0 ELSE 1)

\* Manager.Register: a new generation seeded from the database, unless there is one
Register ==
  IF cur # 0 THEN UNCHANGED stateVars
  ELSE /\ gens < MaxGens
       /\ gens' = gens + 1
       /\ cur' = gens + 1
       /\ seq' = [seq EXCEPT ![gens + 1] = MaxSeq]
       /\ overlap' = (overlap \/ \E g \in 1 .. gens : HasWriters(g))
       /\ UNCHANGED <<agg, buf>>

(***************************************************************************)
(* The session: output, resizes, the end and the restart.                  *)
(***************************************************************************)

\* readLoop: Append("stdout").  The same goroutine runs finalize, so nothing
\* closes the aggregator in between.
PtyOutput ==
  LET a == <<cur, "stdout">> IN
  /\ phase = "live" /\ Begun < MaxUnits
  /\ cur # 0
  /\ out' = out + 1
  /\ agg' = [agg EXCEPT ![a] = "open"]
  /\ buf' = [buf EXCEPT ![a] = Append(@, out + 1)]
  /\ UNCHANGED <<sessVars, cur, gens, seq, overlap, rows, jobVars, in, ipc, lossVars>>

\* Session.Resize: SetPendingResize, then the PTY
Resize ==
  /\ phase = "live" /\ grid < MaxGrid
  /\ grid' = grid + 1
  /\ pending' = grid + 1
  /\ UNCHANGED <<phase, closing, stateVars, rows, jobVars, ioVars, lossVars>>

\* finalize: Manager.Close takes the generation out of m.states ...
CloseLog ==
  /\ phase = "live"
  /\ phase' = "closing"
  /\ closing' = [gen |-> cur, stop |-> {}]
  /\ cur' = 0
  /\ UNCHANGED <<pending, grid, gens, seq, agg, buf, overlap, rows, jobVars, ioVars, lossVars>>

\* ... copies its aggregators ...
CopyAggs ==
  /\ phase = "closing"
  /\ phase' = "stopping"
  /\ closing' = [closing EXCEPT !.stop = {d \in Dirs : closing.gen # 0 /\ agg[<<closing.gen, d>>] # "none"}]
  /\ UNCHANGED <<pending, grid, stateVars, rows, jobVars, ioVars, lossVars>>

\* ... and stops one after the other: closes the channel, waits for the last flush
StopAgg(d) ==
  LET a == <<closing.gen, d>> IN
  /\ phase = "stopping" /\ d \in closing.stop
  /\ agg[a] = "open"
  /\ \A e \in closing.stop : agg[<<closing.gen, e>>] # "closed"
  /\ agg' = [agg EXCEPT ![a] = "closed"]
  /\ UNCHANGED <<sessVars, cur, gens, seq, overlap, buf, rows, jobVars, ioVars, lossVars>>

CloseDone ==
  /\ phase = "stopping"
  /\ \A d \in closing.stop : agg[<<closing.gen, d>>] = "done"
  /\ phase' = "dead"
  /\ UNCHANGED <<closing, pending, grid, stateVars, rows, jobVars, ioVars, lossVars>>

\* Manager.Restart: Register, then start() records the initial grid
Restart ==
  /\ phase = "dead" /\ grid < MaxGrid
  /\ phase' = "live"
  /\ Register
  /\ grid' = grid + 1
  /\ pending' = grid + 1
  /\ UNCHANGED <<closing, rows, jobVars, ioVars, lossVars>>

(***************************************************************************)
(* Session.Write by a WebSocket connection, which found the session before *)
(* it was unregistered: Register, read m.states, get the aggregator, send. *)
(***************************************************************************)
InputRegister ==
  /\ phase # "dead" /\ ipc.at = "idle" /\ in < MaxIn /\ Begun < MaxUnits
  /\ Register
  /\ ipc' = [ipc EXCEPT !.at = "registered"]
  /\ UNCHANGED <<sessVars, rows, jobVars, out, in, lossVars>>

InputState ==
  /\ ipc.at = "registered" /\ cur # 0
  /\ ipc' = [at |-> "hasState", gen |-> cur]
  /\ UNCHANGED <<sessVars, stateVars, rows, jobVars, out, in, lossVars>>

InputAgg ==
  LET a == <<ipc.gen, "stdin">> IN
  /\ ipc.at = "hasState"
  /\ agg' = IF agg[a] = "none" THEN [agg EXCEPT ![a] = "open"] ELSE agg
  /\ overlap' = (overlap \/ (agg[a] = "none" /\ ipc.gen # gens))
  /\ ipc' = [ipc EXCEPT !.at = "hasAgg"]
  /\ UNCHANGED <<sessVars, cur, gens, seq, buf, rows, jobVars, out, in, lossVars>>

InputSend ==
  LET a == <<ipc.gen, "stdin">> IN
  /\ ipc.at = "hasAgg" /\ agg[a] = "open"
  /\ in' = in + 1
  /\ buf' = [buf EXCEPT ![a] = Append(@, in + 1)]
  /\ ipc' = [at |-> "idle", gen |-> 0]
  /\ UNCHANGED <<sessVars, cur, gens, seq, overlap, agg, rows, jobVars, out, lossVars>>

(***************************************************************************)
(* Writers: Aggregator.flush and FlushResizeMarker, down to flushChunk.    *)
(***************************************************************************)
NewJob(dir, data) == [dir |-> dir, data |-> data, seq |-> 0]

\* Mutant: the rest of the buffer is forgotten
BeginFlushForgetsRest(a) ==
  LET marker == IF a[2] = "stdout" /\ pending # None THEN <<NewJob("resize", <<pending>>)>> ELSE <<>> IN
  /\ agg[a] \in {"open", "closed"} /\ stage[a] = "idle"
  /\ \E n \in 1 .. MaxChunk :
       /\ n <= Len(buf[a])
       /\ jobs' = [jobs EXCEPT ![a] = marker \o <<NewJob(a[2], SubSeq(buf[a], 1, n))>>]
       /\ buf' = [buf EXCEPT ![a] = <<>>]
  /\ pending' = IF a[2] = "stdout" THEN None ELSE pending
  /\ stage' = [stage EXCEPT ![a] = "alloc"]
  /\ wgen' = [wgen EXCEPT ![a] = a[1]]
  /\ UNCHANGED <<phase, closing, grid, cur, gens, seq, agg, overlap, rows, ioVars, lossVars>>

\* Mutant: the newest bytes are flushed first
BeginFlushFromTheEnd(a) ==
  LET marker == IF a[2] = "stdout" /\ pending # None THEN <<NewJob("resize", <<pending>>)>> ELSE <<>> IN
  /\ agg[a] \in {"open", "closed"} /\ stage[a] = "idle"
  /\ \E n \in 1 .. MaxChunk :
       /\ n <= Len(buf[a])
       /\ jobs' = [jobs EXCEPT ![a] = marker \o <<NewJob(a[2], SubSeq(buf[a], Len(buf[a]) - n + 1, Len(buf[a])))>>]
       /\ buf' = [buf EXCEPT ![a] = SubSeq(@, 1, Len(@) - n)]
  /\ pending' = IF a[2] = "stdout" THEN None ELSE pending
  /\ stage' = [stage EXCEPT ![a] = "alloc"]
  /\ wgen' = [wgen EXCEPT ![a] = a[1]]
  /\ UNCHANGED <<phase, closing, grid, cur, gens, seq, agg, overlap, rows, ioVars, lossVars>>

\* A flush by size, by timer or at the end; stdout takes the pending resize along
BeginFlush(a) ==
  LET marker == IF a[2] = "stdout" /\ pending # None THEN <<NewJob("resize", <<pending>>)>> ELSE <<>> IN
  /\ agg[a] \in {"open", "closed"} /\ stage[a] = "idle"
  /\ \E n \in 1 .. MaxChunk :
       /\ n <= Len(buf[a])
       /\ jobs' = [jobs EXCEPT ![a] = marker \o <<NewJob(a[2], SubSeq(buf[a], 1, n))>>]
       /\ buf' = [buf EXCEPT ![a] = SubSeq(@, n + 1, Len(@))]
  /\ pending' = IF a[2] = "stdout" THEN None ELSE pending
  /\ stage' = [stage EXCEPT ![a] = "alloc"]
  /\ wgen' = [wgen EXCEPT ![a] = a[1]]
  /\ UNCHANGED <<phase, closing, grid, cur, gens, seq, agg, overlap, rows, ioVars, lossVars>>

\* Mutant: run returns without the last flush
AggExitWithoutFlush(a) ==
  /\ agg[a] = "closed" /\ stage[a] = "idle"
  /\ agg' = [agg EXCEPT ![a] = "done"]
  /\ UNCHANGED <<sessVars, cur, gens, seq, overlap, buf, rows, jobVars, ioVars, lossVars>>

\* run returns: the channel is closed and everything is flushed
AggExit(a) ==
  /\ agg[a] = "closed" /\ stage[a] = "idle" /\ buf[a] = <<>>
  /\ agg' = [agg EXCEPT ![a] = "done"]
  /\ UNCHANGED <<sessVars, cur, gens, seq, overlap, buf, rows, jobVars, ioVars, lossVars>>

\* FlushResizeMarker: take the marker, Register, read m.states
FlushTake(f) ==
  /\ stage[f] = "idle" /\ pending # None
  /\ jobs' = [jobs EXCEPT ![f] = <<NewJob("resize", <<pending>>)>>]
  /\ pending' = None
  /\ stage' = [stage EXCEPT ![f] = "register"]
  /\ UNCHANGED <<phase, closing, grid, stateVars, rows, wgen, ioVars, lossVars>>

FlushRegister(f) ==
  /\ stage[f] = "register"
  /\ Register
  /\ stage' = [stage EXCEPT ![f] = "get"]
  /\ UNCHANGED <<sessVars, rows, jobs, wgen, ioVars, lossVars>>

FlushGet(f) ==
  /\ stage[f] = "get"
  /\ IF cur # 0
       THEN /\ stage' = [stage EXCEPT ![f] = "alloc"]
            /\ wgen' = [wgen EXCEPT ![f] = cur]
            /\ UNCHANGED jobs
       ELSE /\ stage' = [stage EXCEPT ![f] = "idle"]
            /\ jobs' = [jobs EXCEPT ![f] = <<>>]
            /\ UNCHANGED wgen
  /\ UNCHANGED <<sessVars, stateVars, rows, ioVars, lossVars>>

\* Mutant: the counter is read and not advanced
AllocWithoutAdd(w) ==
  /\ stage[w] = "alloc"
  /\ jobs' = [jobs EXCEPT ![w] = <<[Head(@) EXCEPT !.seq = seq[wgen[w]] + 1]>> \o Tail(@)]
  /\ stage' = [stage EXCEPT ![w] = "insert"]
  /\ UNCHANGED <<sessVars, stateVars, rows, wgen, ioVars, lossVars>>

\* state.seq.Add(1)
Alloc(w) ==
  LET g == wgen[w] IN
  /\ stage[w] = "alloc"
  /\ seq' = [seq EXCEPT ![g] = @ + 1]
  /\ jobs' = [jobs EXCEPT ![w] = <<[Head(@) EXCEPT !.seq = seq[g] + 1]>> \o Tail(@)]
  /\ stage' = [stage EXCEPT ![w] = "insert"]
  /\ UNCHANGED <<sessVars, cur, gens, agg, buf, overlap, rows, wgen, ioVars, lossVars>>

RowOf(w) == [dir |-> Head(jobs[w]).dir, data |-> Head(jobs[w]).data,
             seq |-> Head(jobs[w]).seq, gen |-> wgen[w], by |-> w]

\* The writer goes on with its next chunk
NextJob(w) ==
  /\ jobs' = [jobs EXCEPT ![w] = Tail(@)]
  /\ stage' = [stage EXCEPT ![w] = IF Len(jobs[w]) > 1 THEN "alloc" ELSE "idle"]
  /\ UNCHANGED wgen

\* repo.AppendChunk; UNIQUE(terminal_id, seq) makes it fail on a seq that is taken
Insert(w) ==
  /\ stage[w] = "insert"
  /\ IF \E r \in rows : r.seq = Head(jobs[w]).seq
       THEN /\ lost' = lost \cup {RowOf(w)}
            /\ NextJob(w)
            /\ UNCHANGED rows
       ELSE /\ rows' = rows \cup {RowOf(w)}
            /\ stage' = [stage EXCEPT ![w] = "notify"]
            /\ UNCHANGED <<jobs, wgen, lost>>
  /\ UNCHANGED <<sessVars, stateVars, ioVars, crashed, crashes, panicked>>

\* OnFlush returned
Notify(w) ==
  /\ stage[w] = "notify"
  /\ NextJob(w)
  /\ UNCHANGED <<sessVars, stateVars, rows, ioVars, lossVars>>

(***************************************************************************)
(* The daemon process dies: memory is gone, rows stay.                     *)
(***************************************************************************)
InMemory == (UNION {Elems(buf[a]) : a \in {b \in Aggs : b[2] = "stdout"}})
              \cup (UNION {UNION {Elems(jobs[w][i].data) : i \in {k \in DOMAIN jobs[w] : jobs[w][k].dir = "stdout"}}
                             : w \in Aggs})

Die ==
  /\ phase' = "dead" /\ cur' = 0
  /\ closing' = [gen |-> 0, stop |-> {}]
  /\ pending' = None
  /\ agg' = [a \in Aggs |-> IF agg[a] = "none" THEN "none" ELSE "done"]
  /\ buf' = [a \in Aggs |-> <<>>]
  /\ jobs' = [w \in Writers |-> <<>>]
  /\ stage' = [w \in Writers |-> "idle"]
  /\ ipc' = [at |-> "idle", gen |-> 0]
  /\ crashed' = crashed \cup InMemory
  /\ UNCHANGED <<grid, gens, seq, overlap, rows, wgen, out, in, lost>>

Crash ==
  /\ crashes < MaxCrashes
  /\ crashes' = crashes + 1
  /\ Die
  /\ UNCHANGED panicked

\* m.states is empty again when aggregator() reads it (nil pointer), or the
\* aggregator it returned has been stopped (send on a closed channel)
InputPanics ==
  /\ ~panicked
  /\ \/ ipc.at = "registered" /\ cur = 0
     \/ ipc.at = "hasAgg" /\ agg[<<ipc.gen, "stdin">>] # "open"
  /\ panicked' = TRUE
  /\ Die
  /\ UNCHANGED crashes

(***************************************************************************)
(* Specification                                                           *)
(***************************************************************************)
LogInit ==
  /\ phase = "dead" /\ cur = 0 /\ gens = 0
  /\ seq = [g \in Gens |-> 0]
  /\ agg = [a \in Aggs |-> "none"]
  /\ buf = [a \in Aggs |-> <<>>]
  /\ closing = [gen |-> 0, stop |-> {}]
  /\ pending = None /\ grid = 0
  /\ rows = {}
  /\ jobs = [w \in Writers |-> <<>>]
  /\ stage = [w \in Writers |-> "idle"]
  /\ wgen = [w \in Writers |-> 0]
  /\ out = 0 /\ in = 0 /\ ipc = [at |-> "idle", gen |-> 0]
  /\ lost = {} /\ crashed = {} /\ crashes = 0 /\ panicked = FALSE /\ overlap = FALSE

SessionStep == PtyOutput \/ Resize \/ CloseLog \/ Restart
CloseStep == CopyAggs \/ CloseDone \/ \E d \in Dirs : StopAgg(d)
InputStep == InputRegister \/ InputState \/ InputAgg \/ InputSend
AggStep(a) == BeginFlush(a) \/ AggExit(a)
FlusherStep(f) == FlushRegister(f) \/ FlushGet(f)

LogNext ==
  \/ SessionStep \/ CloseStep \/ InputStep \/ Crash \/ InputPanics
  \/ \E a \in Aggs : AggStep(a)
  \/ \E f \in Flushers : FlushTake(f) \/ FlusherStep(f)
  \/ \E w \in Writers : Alloc(w) \/ Insert(w) \/ Notify(w)

LogSpec == LogInit /\ [][LogNext]_logVars

(***************************************************************************)
(* Properties                                                              *)
(***************************************************************************)

\* Reading the log by ascending seq gives the output in the order the PTY
\* produced it, and the grids in the order they were set: across concurrent
\* writers, restarts, reseeded counters and crashes, as long as Register seeds
\* a new counter only when the writers of the previous one are through (Close
\* removes the state before its aggregators have flushed, so a Register in
\* between overlaps).  Two markers may be swapped when a subscribe took one of
\* them: it takes the marker and its seq in separate steps, and an aggregator
\* (which does the same) may take the other marker, and a seq, in between.
LogInOrder ==
  ~overlap => \A r, t \in rows : r.seq < t.seq =>
    /\ r.dir = "stdout" /\ t.dir = "stdout" =>
         \A x \in Elems(r.data), y \in Elems(t.data) : x < y
    /\ r.dir = "resize" /\ t.dir = "resize" =>
         r.data[1] < t.data[1] \/ r.by \in Flushers \/ t.by \in Flushers

Persisted == UNION {Elems(r.data) : r \in {t \in rows : t.dir = "stdout"}}
Dropped == UNION {Elems(r.data) : r \in {t \in lost : t.dir = "stdout"}}

\* Every unit the PTY produced is in the log, on its way there in memory,
\* gone with a crash, or in a chunk whose insert failed: no flush, stop or
\* restart makes output vanish on its own.
OutputAccountedFor ==
  1 .. out = Persisted \cup InMemory \cup crashed \cup Dropped

\* A chunk is lost only when its seq was taken under another termState
\* object whose writers overlapped: writers of one object never collide, and
\* a counter seeded from the database after a close or a crash is ahead of
\* every row.
LostOnlyToOverlap ==
  \A l \in lost : overlap /\ \E r \in rows : r.seq = l.seq /\ r.gen # l.gen

\* Output that the log store has accepted gets persisted (the flush timer, or
\* the last flush of Close), unless the daemon dies or the insert fails.
OutputPersisted ==
  \A u \in 1 .. MaxUnits :
    out >= u ~> u \in Persisted \cup crashed \cup Dropped

=============================================================================
