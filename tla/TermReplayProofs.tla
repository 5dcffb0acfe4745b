-------------------------- MODULE TermReplayProofs --------------------------
(***************************************************************************)
(* For any number of subscribers, generations, crashes and units of        *)
(* output: what the log store does with a terminal's output, and what      *)
(* subscribers get of it.                                                  *)
(***************************************************************************)
EXTENDS TermReplay, SequenceTheorems, FiniteSetTheorems, TLAPS

AnyJob == [dir : Dirs \cup {"resize"}, data : Seq(Nat), seq : Nat]
AnyRow == [dir : Dirs \cup {"resize"}, data : Seq(Nat), seq : Nat, gen : Gens, by : Writers]
Stages == {"idle", "register", "get", "alloc", "insert", "notify"}

GenTypes ==
  /\ gens \in 0 .. MaxGens /\ cur \in {0, gens} /\ overlap \in BOOLEAN
  /\ seq \in [Gens -> Nat]
AggTypes ==
  /\ agg \in [Aggs -> {"none", "open", "closed", "done"}]
  /\ buf \in [Aggs -> Seq(Nat)]
IoTypes ==
  /\ ipc \in [at : {"idle", "registered", "hasState", "hasAgg"}, gen : 0 .. MaxGens]
  /\ out \in Nat /\ in \in Nat
GridTypes == pending \in 1 .. MaxGrid \cup {None} /\ grid \in 0 .. MaxGrid
RowTypes ==
  /\ rows \subseteq AnyRow /\ lost \subseteq AnyRow
  /\ jobs \in [Writers -> Seq(AnyJob)]
  /\ stage \in [Writers -> Stages]
  /\ wgen \in [Writers -> 0 .. MaxGens]

Busy(w) == stage[w] \in {"alloc", "insert", "notify"}

\* A writer has jobs while it is at work, under a generation that exists; an
\* aggregator works under its own, and neither it nor its buffer is in use
\* before it is started or after it is done.
WritersShape ==
  \A w \in Writers : /\ stage[w] = "idle" <=> jobs[w] = <<>>
                     /\ Busy(w) => wgen[w] \in 1 .. gens
AggsShape ==
  /\ \A a \in Aggs :
       /\ stage[a] \notin {"register", "get"}
       /\ Busy(a) => wgen[a] = a[1]
       /\ Busy(a) \/ buf[a] # <<>> => agg[a] \in {"open", "closed"}
       /\ agg[a] # "none" => a[1] <= gens
  /\ ipc.at \in {"hasState", "hasAgg"} => ipc.gen \in 1 .. gens

\* Within a generation a seq is given out once.
SeqOnce ==
  /\ \A r \in rows : r.gen <= gens /\ r.seq <= seq[r.gen]
  /\ \A w \in Writers : stage[w] = "insert" =>
       /\ Head(jobs[w]).seq <= seq[wgen[w]]
       /\ \A r \in rows : r.gen = wgen[w] =>
            r.seq # Head(jobs[w]).seq /\ (r.by = w => r.seq < Head(jobs[w]).seq)
  /\ \A v, w \in Writers : stage[v] = "insert" /\ stage[w] = "insert" /\ v # w /\ wgen[v] = wgen[w]
       => Head(jobs[v]).seq # Head(jobs[w]).seq

\* The table has a largest seq, if it has any: what MaxSeq asks for.
HasTop == rows = {} \/ \E t \in rows : \A r \in rows : r.seq <= t.seq

\* Without an overlap only the last generation has writers, and it counts on
\* from what all the others have left.
OneGen == ~overlap => \A g \in 1 .. gens : HasWriters(g) => g = gens
Ahead ==
  ~overlap => \A r \in rows : r.gen # gens =>
    r.seq <= seq[gens] /\ \A w \in Writers : stage[w] = "insert" => r.seq < Head(jobs[w]).seq

Types == GenTypes /\ AggTypes /\ IoTypes /\ GridTypes
Shape == Types /\ RowTypes /\ WritersShape /\ AggsShape
Counts == SeqOnce /\ HasTop /\ OneGen /\ Ahead
LossInv == Shape /\ Counts /\ LostOnlyToOverlap
-----------------------------------------------------------------------------
LEMMA JobFacts ==
  ASSUME NEW s \in Seq(AnyJob), s # <<>>
  PROVE  /\ Head(s) \in AnyJob /\ Head(s) = s[1] /\ Tail(s) \in Seq(AnyJob)
         /\ Len(s) \in Nat \ {0} /\ DOMAIN s = 1 .. Len(s)
         /\ Tail(s) = <<>> <=> ~(Len(s) > 1)
         /\ Len(Tail(s)) = Len(s) - 1 /\ \A i \in 1 .. Len(s) - 1 : Tail(s)[i] = s[i + 1]
<1>1. Len(s) \in Nat \ {0} /\ DOMAIN s = 1 .. Len(s)
  BY LenProperties, EmptySeq
<1>2. /\ Head(s) \in AnyJob /\ Tail(s) \in Seq(AnyJob) /\ Len(Tail(s)) = Len(s) - 1
      /\ \A i \in 1 .. Len(Tail(s)) : Tail(s)[i] = s[i + 1]
  BY HeadTailProperties
<1>3. Head(s) = s[1]
  OBVIOUS
<1>4. Tail(s) = <<>> <=> Len(Tail(s)) = 0
  BY <1>2, EmptySeq
<1> QED
  BY <1>1, <1>2, <1>3, <1>4

\* A job gets its seq.
Retag(s, n) == <<[Head(s) EXCEPT !.seq = n]>> \o Tail(s)

LEMMA RetagFacts ==
  ASSUME NEW s \in Seq(AnyJob), s # <<>>, NEW n \in Nat
  PROVE  /\ Retag(s, n) \in Seq(AnyJob) /\ Retag(s, n) # <<>> /\ Len(Retag(s, n)) = Len(s)
         /\ Head(Retag(s, n)) = [Head(s) EXCEPT !.seq = n] /\ Head(Retag(s, n)).seq = n
         /\ \A i \in 2 .. Len(s) : Retag(s, n)[i] = s[i]
<1>1. /\ Head(s) \in AnyJob /\ Tail(s) \in Seq(AnyJob) /\ Len(Tail(s)) = Len(s) - 1
      /\ Len(s) \in Nat \ {0} /\ \A i \in 1 .. Len(s) - 1 : Tail(s)[i] = s[i + 1]
  BY JobFacts
<1> DEFINE h == [Head(s) EXCEPT !.seq = n]
<1>2. h \in AnyJob /\ h.seq = n
  BY <1>1 DEF AnyJob
<1>3. <<h>> \in Seq(AnyJob) /\ Len(<<h>>) = 1 /\ <<h>>[1] = h
  BY <1>2
<1> HIDE DEF h
<1>4. /\ <<h>> \o Tail(s) \in Seq(AnyJob) /\ Len(<<h>> \o Tail(s)) = Len(s)
      /\ (<<h>> \o Tail(s))[1] = h
      /\ \A i \in 2 .. Len(s) : (<<h>> \o Tail(s))[i] = s[i]
  BY <1>1, <1>3, ConcatProperties
<1>5. <<h>> \o Tail(s) # <<>>
  BY <1>1, <1>4, EmptySeq
<1>6. Head(<<h>> \o Tail(s)) = h
  BY <1>4, <1>5, HeadTailProperties
<1> QED
  BY <1>2, <1>4, <1>5, <1>6 DEF Retag, h

\* Steps that add no row, give out no seq and begin no generation.
LEMMA NothingNew ==
  ASSUME LossInv, UNCHANGED <<gens, seq, rows>>, overlap => overlap',
         \A w \in Writers : stage'[w] = "insert" =>
           stage[w] = "insert" /\ Head(jobs'[w]).seq = Head(jobs[w]).seq /\ wgen'[w] = wgen[w],
         overlap' \/ \A g \in 1 .. gens : HasWriters(g)' => HasWriters(g) \/ g = gens
  PROVE  Counts'
<1>1. SeqOnce /\ HasTop /\ OneGen /\ Ahead
  BY DEF LossInv, Counts
<1>2. SeqOnce'
  BY <1>1 DEF SeqOnce
<1>3. HasTop'
  BY <1>1 DEF HasTop
<1>4. OneGen'
  BY <1>1 DEF OneGen
<1>5. Ahead'
  BY <1>1 DEF Ahead
<1> QED
  BY <1>2, <1>3, <1>4, <1>5 DEF Counts

\* Steps of aggregators and of their users, which no writer notices.
LEMMA AggsMove ==
  ASSUME LossInv, UNCHANGED <<gens, seq, rows, jobs, stage, wgen, lost>>, Types', AggsShape',
         overlap => overlap',
         overlap' \/ \A g \in 1 .. gens, d \in Dirs :
           agg'[<<g, d>>] \in {"open", "closed"} => agg[<<g, d>>] \in {"open", "closed"} \/ g = gens
  PROVE  LossInv'
<1>1. Shape'
  BY DEF LossInv, Shape, RowTypes, WritersShape, Busy
<1>2. overlap' \/ \A g \in 1 .. gens : HasWriters(g)' => HasWriters(g) \/ g = gens
  BY DEF HasWriters
<1>3. Counts'
  BY <1>2, NothingNew
<1>4. LostOnlyToOverlap'
  BY DEF LossInv, LostOnlyToOverlap
<1> QED
  BY <1>1, <1>3, <1>4 DEF LossInv

LEMMA PlainSteps ==
  ASSUME LossInv, Resize \/ CloseLog \/ CopyAggs \/ CloseDone \/ InputState
  PROVE  LossInv'
<1>1. UNCHANGED <<gens, seq, rows, jobs, stage, wgen, lost, agg, buf, overlap, out, in>>
  BY DEF Resize, CloseLog, CopyAggs, CloseDone, InputState, stateVars, jobVars, ioVars, lossVars
<1>2. Types /\ AggsShape
  BY DEF LossInv, Shape
<1>3. GenTypes' /\ AggTypes'
  <2>1. cur' = cur \/ cur' = 0
    BY DEF Resize, CloseLog, CopyAggs, CloseDone, InputState, stateVars
  <2> QED
    BY <1>1, <1>2, <2>1 DEF Types, GenTypes, AggTypes
<1>4. GridTypes'
  BY <1>2, LogBoundsAssumption DEF Resize, CloseLog, CopyAggs, CloseDone, InputState, sessVars, Types, GridTypes
<1>5. IoTypes' /\ (ipc' = ipc \/ ipc'.gen \in 1 .. gens)
  <2>1. CASE InputState
    <3>1. ipc' = [at |-> "hasState", gen |-> cur] /\ cur \in 1 .. gens /\ cur \in 0 .. MaxGens
      BY <1>2, <2>1 DEF InputState, Types, GenTypes
    <3> QED
      BY <1>1, <1>2, <3>1 DEF Types, IoTypes
  <2>2. CASE UNCHANGED ioVars
    BY <1>2, <2>2 DEF Types, IoTypes, ioVars
  <2> QED
    BY <2>1, <2>2 DEF Resize, CloseLog, CopyAggs, CloseDone
<1>6. AggsShape'
  BY <1>1, <1>2, <1>5 DEF AggsShape, Busy
<1> QED
  BY <1>1, <1>3, <1>4, <1>5, <1>6, AggsMove DEF Types

\* One aggregator changes, and its buffer.
LEMMA OneAgg ==
  ASSUME Types, NEW a \in Aggs, NEW s \in {"none", "open", "closed", "done"}, NEW q \in Seq(Nat),
         agg' = [agg EXCEPT ![a] = s], buf' = [buf EXCEPT ![a] = q]
  PROVE  /\ AggTypes' /\ agg'[a] = s /\ buf'[a] = q
         /\ \A b \in Aggs \ {a} : agg'[b] = agg[b] /\ buf'[b] = buf[b]
BY DEF Types, AggTypes

LEMMA GensFacts == ASSUME Types PROVE gens \in Nat /\ gens <= MaxGens /\ \A g \in 1 .. gens : g \in Gens /\ g \in Nat
BY LogBoundsAssumption DEF Types, GenTypes, Gens

LEMMA AggOf == \A g \in Gens, d \in Dirs : <<g, d>> \in Aggs /\ <<g, d>>[1] = g /\ <<g, d>>[2] = d
BY DEF Aggs

\* The aggregator of the registered generation, which is the last one.
LEMMA PtyOutputStep == ASSUME LossInv, PtyOutput PROVE LossInv'
<1>1. Types /\ AggsShape
  BY DEF LossInv, Shape
<1>2. /\ UNCHANGED <<gens, cur, seq, rows, jobs, stage, wgen, lost, overlap, in, ipc, pending, grid>>
      /\ out' = out + 1
  BY DEF PtyOutput, jobVars, lossVars, sessVars
<1>3. cur = gens /\ gens \in Gens
  BY <1>1 DEF PtyOutput, Types, GenTypes, Gens
<1>4. PICK a \in Aggs : a = <<cur, "stdout">> /\ a[1] = gens
  BY <1>3, AggOf DEF Dirs
<1>5. PICK q \in Seq(Nat) : q = Append(buf[a], out + 1)
  <2>1. buf[a] \in Seq(Nat) /\ out + 1 \in Nat
    BY <1>1 DEF Types, AggTypes, IoTypes
  <2> QED
    BY <2>1, AppendProperties
<1>6. agg' = [agg EXCEPT ![a] = "open"] /\ buf' = [buf EXCEPT ![a] = q]
  BY <1>4, <1>5 DEF PtyOutput
<1>7. /\ AggTypes' /\ agg'[a] = "open" /\ buf'[a] = q
      /\ \A b \in Aggs \ {a} : agg'[b] = agg[b] /\ buf'[b] = buf[b]
  BY <1>1, <1>6, OneAgg
<1>8. GenTypes' /\ IoTypes' /\ GridTypes'
  BY <1>1, <1>2 DEF Types, GenTypes, IoTypes, GridTypes
<1>9. AggsShape'
  BY <1>1, <1>2, <1>3, <1>4, <1>7, GensFacts DEF AggsShape, Busy
<1>10. \A g \in 1 .. gens, d \in Dirs : g # gens => agg'[<<g, d>>] = agg[<<g, d>>]
  <2> SUFFICES ASSUME NEW g \in 1 .. gens, NEW d \in Dirs, g # gens PROVE agg'[<<g, d>>] = agg[<<g, d>>]
    OBVIOUS
  <2>1. <<g, d>> \in Aggs /\ <<g, d>>[1] = g
    BY <1>1, GensFacts, AggOf
  <2> QED
    BY <1>4, <1>7, <2>1
<1> QED
  BY <1>2, <1>7, <1>8, <1>9, <1>10, AggsMove DEF Types

\* The input goes to the generation it read, which may be an old one by now; it
\* overlaps when it starts that one's aggregator.
LEMMA InputSteps == ASSUME LossInv, InputAgg \/ InputSend PROVE LossInv'
<1>1. Types /\ AggsShape
  BY DEF LossInv, Shape
<1>2. /\ UNCHANGED <<gens, cur, seq, rows, jobs, stage, wgen, lost, out, pending, grid>>
      /\ ipc.at \in {"hasState", "hasAgg"}
  BY DEF InputAgg, InputSend, jobVars, lossVars, sessVars
<1>3. ipc.gen \in 1 .. gens /\ ipc.gen \in Gens
  BY <1>1, <1>2, GensFacts DEF AggsShape
<1>4. PICK a \in Aggs : a = <<ipc.gen, "stdin">> /\ a[1] = ipc.gen
  BY <1>3, AggOf DEF Dirs
<1>5. IoTypes' /\ (ipc'.at \in {"hasState", "hasAgg"} => ipc'.gen \in 1 .. gens)
  <2>1. CASE InputAgg
    BY <1>1, <1>2, <1>3, <2>1 DEF InputAgg, Types, IoTypes
  <2>2. CASE InputSend
    BY <1>1, <1>2, <2>2, LogBoundsAssumption DEF InputSend, Types, IoTypes
  <2> QED
    BY <2>1, <2>2
<1>6. /\ AggTypes'
      /\ \A b \in Aggs \ {a} : agg'[b] = agg[b] /\ buf'[b] = buf[b]
      /\ agg'[a] = "open" \/ (agg'[a] = agg[a] /\ buf'[a] = buf[a] /\ agg[a] # "none")
  <2>1. CASE InputAgg
    <3>1. CASE agg[a] = "none"
      <4>1. agg' = [agg EXCEPT ![a] = "open"] /\ buf' = [buf EXCEPT ![a] = buf[a]] /\ buf[a] \in Seq(Nat)
        BY <1>1, <1>4, <2>1, <3>1 DEF InputAgg, Types, AggTypes
      <4> QED
        BY <1>1, <4>1, OneAgg
    <3>2. CASE agg[a] # "none"
      BY <1>1, <1>4, <2>1, <3>2 DEF InputAgg, Types, AggTypes
    <3> QED
      BY <3>1, <3>2
  <2>2. CASE InputSend
    <3>1. PICK q \in Seq(Nat) : q = Append(buf[a], in + 1)
      <4>1. buf[a] \in Seq(Nat) /\ in + 1 \in Nat
        BY <1>1 DEF Types, AggTypes, IoTypes
      <4> QED
        BY <4>1, AppendProperties
    <3>2. agg[a] = "open" /\ agg' = [agg EXCEPT ![a] = "open"] /\ buf' = [buf EXCEPT ![a] = q]
      BY <1>1, <1>4, <2>2, <3>1 DEF InputSend, Types, AggTypes
    <3> QED
      BY <1>1, <3>2, OneAgg
  <2> QED
    BY <2>1, <2>2
<1>7. overlap' \in BOOLEAN /\ (overlap => overlap')
      /\ (overlap' \/ agg[a] # "none" \/ ipc.gen = gens)
  BY <1>1, <1>4 DEF InputAgg, InputSend, Types, GenTypes
<1>8. GenTypes' /\ GridTypes'
  BY <1>1, <1>2, <1>7 DEF Types, GenTypes, GridTypes
<1>9. AggsShape'
  BY <1>1, <1>2, <1>3, <1>4, <1>5, <1>6 DEF AggsShape, Busy
<1>10. ASSUME NEW g \in 1 .. gens, NEW d \in Dirs, agg'[<<g, d>>] \in {"open", "closed"}
       PROVE  overlap' \/ agg[<<g, d>>] \in {"open", "closed"} \/ g = gens
  <2>1. <<g, d>> \in Aggs /\ <<g, d>>[1] = g
    BY <1>1, GensFacts, AggOf
  <2>2. CASE <<g, d>> # a
    BY <1>6, <1>10, <2>1, <2>2
  <2>3. CASE <<g, d>> = a
    <3>1. agg[a] = "none" => overlap' \/ g = gens
      BY <1>4, <1>7, <2>1, <2>3
    <3>2. agg[a] # "none" => agg[a] \in {"open", "closed"}
      BY <1>4, <1>10, <2>1, <2>3 DEF InputAgg, InputSend
    <3> QED
      BY <2>3, <3>1, <3>2
  <2> QED
    BY <2>2, <2>3
<1> QED
  BY <1>2, <1>5, <1>6, <1>7, <1>8, <1>9, <1>10, AggsMove DEF Types

\* Aggregators are stopped, and end with an empty buffer.
LEMMA AggsClose ==
  ASSUME LossInv, (\E d \in Dirs : StopAgg(d)) \/ (\E a \in Aggs : AggExit(a))
  PROVE  LossInv'
<1>1. Types /\ AggsShape
  BY DEF LossInv, Shape
<1>2. UNCHANGED <<gens, cur, seq, rows, jobs, stage, wgen, lost, overlap, buf, pending, grid, out, in, ipc>>
  BY DEF StopAgg, AggExit, sessVars, jobVars, ioVars, lossVars
<1>3. /\ agg' \in [Aggs -> {"none", "open", "closed", "done"}]
      /\ \A b \in Aggs : \/ agg'[b] = agg[b]
                         \/ agg[b] = "open" /\ agg'[b] = "closed"
                         \/ agg[b] = "closed" /\ agg'[b] = "done" /\ stage[b] = "idle" /\ buf[b] = <<>>
  <2>1. agg \in [Aggs -> {"none", "open", "closed", "done"}]
    BY <1>1 DEF Types, AggTypes
  <2>2. ASSUME NEW a \in Aggs, AggExit(a) PROVE <1>3!:
    BY <2>1, <2>2 DEF AggExit
  <2>3. ASSUME NEW d \in Dirs, StopAgg(d) PROVE <1>3!:
    <3>1. CASE <<closing.gen, d>> \notin Aggs
      BY <2>1, <2>3, <3>1 DEF StopAgg
    <3>2. CASE <<closing.gen, d>> \in Aggs
      <4>1. PICK a \in Aggs : a = <<closing.gen, d>>
        BY <3>2
      <4> QED
        BY <2>1, <2>3, <4>1 DEF StopAgg
    <3> QED
      BY <3>1, <3>2
  <2> QED
    BY <2>2, <2>3
<1>4. Types'
  BY <1>1, <1>2, <1>3 DEF Types, GenTypes, AggTypes, IoTypes, GridTypes
<1>5. AggsShape'
  BY <1>1, <1>2, <1>3 DEF AggsShape, Busy
<1>6. \A g \in 1 .. gens, d \in Dirs : <<g, d>> \in Aggs
  BY <1>1, GensFacts, AggOf
<1> QED
  BY <1>2, <1>3, <1>4, <1>5, <1>6, AggsMove
-----------------------------------------------------------------------------
\* A counter that starts from the table is not behind any row.
LEMMA MaxSeqFacts ==
  ASSUME HasTop, rows \subseteq AnyRow
  PROVE  MaxSeq \in Nat /\ \A r \in rows : r.seq <= MaxSeq
<1>1. CASE rows = {}
  BY <1>1 DEF MaxSeq
<1>2. CASE rows # {}
  <2>1. PICK t \in rows : \A r \in rows : r.seq <= t.seq
    BY <1>2 DEF HasTop
  <2>2. \E n \in {r.seq : r \in rows} : \A r \in rows : r.seq <= n
    BY <2>1
  <2>3. MaxSeq \in {r.seq : r \in rows} /\ \A r \in rows : r.seq <= MaxSeq
    BY <1>2, <2>2 DEF MaxSeq
  <2> QED
    BY <2>3 DEF AnyRow
<1> QED
  BY <1>1, <1>2

\* Register: when it makes a new generation while an older one has writers, it
\* is an overlap.
LEMMA RegisterStep ==
  ASSUME LossInv, Register, UNCHANGED <<rows, jobs, wgen, lost>>, IoTypes', GridTypes',
         stage' \in [Writers -> Stages],
         \A w \in Writers : stage'[w] = stage[w] \/ (w \in Flushers /\ stage[w] = "register" /\ stage'[w] = "get"),
         ipc'.at \in {"hasState", "hasAgg"} => ipc' = ipc
  PROVE  LossInv'
<1>1. Types /\ RowTypes /\ WritersShape /\ AggsShape /\ SeqOnce /\ HasTop /\ OneGen /\ Ahead /\ LostOnlyToOverlap
  BY DEF LossInv, Shape, Counts
<1>2. \A w \in Writers : (Busy(w)' <=> Busy(w)) /\ (stage'[w] = "insert" <=> stage[w] = "insert")
                         /\ (stage'[w] = "idle" <=> stage[w] = "idle")
  BY DEF Busy
<1>3. \A a \in Aggs : stage'[a] = stage[a]
  BY WritersAssumption DEF Writers
<1>4. LostOnlyToOverlap' /\ (overlap => overlap') /\ overlap' \in BOOLEAN
  BY <1>1 DEF LostOnlyToOverlap, Register, stateVars, Types, GenTypes
<1>5. CASE UNCHANGED stateVars
  <2>1. UNCHANGED <<cur, gens, seq, agg, buf, overlap>>
    BY <1>5 DEF stateVars
  <2>2. Types' /\ RowTypes' /\ WritersShape'
    BY <1>1, <1>2, <2>1 DEF Types, GenTypes, AggTypes, RowTypes, WritersShape
  <2>3. AggsShape'
    BY <1>1, <1>2, <1>3, <2>1 DEF AggsShape, Busy
  <2>4. \A g \in 1 .. gens : HasWriters(g)' => HasWriters(g)
    BY <1>2, <2>1 DEF HasWriters, Busy
  <2>5. Counts'
    BY <1>2, <2>1, <2>4, NothingNew
  <2> QED
    BY <1>4, <2>2, <2>3, <2>5 DEF LossInv, Shape
<1>6. CASE ~UNCHANGED stateVars
  <2>1. /\ cur = 0 /\ gens < MaxGens /\ gens' = gens + 1 /\ cur' = gens + 1
        /\ seq' = [seq EXCEPT ![gens + 1] = MaxSeq] /\ UNCHANGED <<agg, buf>>
        /\ overlap' = (overlap \/ \E g \in 1 .. gens : HasWriters(g))
    BY <1>6 DEF Register
  <2>2. gens \in Nat /\ gens + 1 \in Gens /\ gens + 1 \in 0 .. MaxGens
    BY <1>1, <2>1, GensFacts, LogBoundsAssumption DEF Gens
  <2>3. MaxSeq \in Nat /\ \A r \in rows : r.seq <= MaxSeq
    BY <1>1, MaxSeqFacts DEF RowTypes
  <2>4. /\ seq' \in [Gens -> Nat] /\ seq'[gens'] = MaxSeq
        /\ \A g \in Gens : g # gens + 1 => seq'[g] = seq[g]
    BY <1>1, <2>1, <2>2, <2>3 DEF Types, GenTypes
  <2>5. Types'
    BY <1>1, <1>4, <2>1, <2>2, <2>4 DEF Types, GenTypes, AggTypes
  <2>6. RowTypes' /\ WritersShape'
    <3>1. \A w \in Writers : wgen[w] \in 1 .. gens => wgen[w] \in 1 .. gens'
      BY <2>1, <2>2
    <3> QED
      BY <1>1, <1>2, <3>1 DEF RowTypes, WritersShape
  <2>7. AggsShape'
    <3>1. \A a \in Aggs : a[1] <= gens => a[1] <= gens'
      BY <2>1, <2>2 DEF Aggs, Gens
    <3>2. ipc.gen \in 1 .. gens => ipc.gen \in 1 .. gens'
      BY <2>1, <2>2
    <3> QED
      BY <1>1, <1>2, <1>3, <2>1, <3>1, <3>2 DEF AggsShape, Busy
  <2>8. \A r \in rows : r.gen \in Gens /\ r.gen <= gens /\ r.gen # gens + 1 /\ seq'[r.gen] = seq[r.gen]
    BY <1>1, <2>2, <2>4 DEF SeqOnce, RowTypes, AnyRow, Gens
  <2>9. \A w \in Writers : stage[w] = "insert" => wgen[w] \in 1 .. gens /\ seq'[wgen[w]] = seq[wgen[w]]
    BY <1>1, <2>2, <2>4, GensFacts DEF WritersShape, Busy
  <2>10. SeqOnce'
    <3>1. \A r \in rows : r.gen <= gens'
      BY <2>1, <2>2, <2>8 DEF Gens
    <3> QED
      BY <1>1, <1>2, <2>8, <2>9, <3>1 DEF SeqOnce
  <2>11. HasTop'
    BY <1>1 DEF HasTop
  <2>12. \A g \in 1 .. gens' : HasWriters(g)' => overlap' \/ g = gens'
    <3>1. \A g \in 1 .. gens' : g = gens' \/ g \in 1 .. gens
      BY <2>1, <2>2
    <3>2. \A g \in 1 .. gens : HasWriters(g)' => HasWriters(g)
      BY <1>2, <2>1 DEF HasWriters, Busy
    <3> QED
      BY <2>1, <3>1, <3>2
  <2>13. OneGen'
    BY <2>12 DEF OneGen
  <2>14. Ahead'
    <3>1. ASSUME NEW w \in Writers, stage[w] = "insert" PROVE overlap'
      BY <2>1, <2>9, <3>1 DEF HasWriters
    <3>2. \A r \in rows : r.seq <= seq'[gens']
      BY <2>3, <2>4
    <3> QED
      BY <1>2, <3>1, <3>2 DEF Ahead
  <2> QED
    BY <1>4, <2>5, <2>6, <2>7, <2>10, <2>11, <2>13, <2>14 DEF LossInv, Shape, Counts
<1> QED
  BY <1>5, <1>6

LEMMA RegisterSteps ==
  ASSUME LossInv, Restart \/ InputRegister \/ \E f \in Flushers : FlushRegister(f)
  PROVE  LossInv'
<1>1. Types /\ RowTypes
  BY DEF LossInv, Shape
<1>2. Register /\ UNCHANGED <<rows, jobs, wgen, lost>>
  BY DEF Restart, InputRegister, FlushRegister, jobVars, lossVars
<1>3. IoTypes' /\ (ipc'.at \in {"hasState", "hasAgg"} => ipc' = ipc)
  <2>1. CASE InputRegister
    BY <1>1, <2>1 DEF InputRegister, Types, IoTypes
  <2>2. CASE UNCHANGED ioVars
    BY <1>1, <2>2 DEF ioVars, Types, IoTypes
  <2> QED
    BY <2>1, <2>2 DEF Restart, FlushRegister
<1>4. GridTypes'
  BY <1>1, LogBoundsAssumption DEF Restart, InputRegister, FlushRegister, sessVars, Types, GridTypes
<1>5. /\ stage' \in [Writers -> Stages]
      /\ \A w \in Writers : stage'[w] = stage[w] \/ (w \in Flushers /\ stage[w] = "register" /\ stage'[w] = "get")
  BY <1>1 DEF Restart, InputRegister, FlushRegister, jobVars, RowTypes, Stages, Writers
<1> QED
  BY <1>2, <1>3, <1>4, <1>5, RegisterStep
-----------------------------------------------------------------------------
LEMMA OneWriter ==
  ASSUME RowTypes, NEW w \in Writers, NEW s \in Stages, NEW js \in Seq(AnyJob), NEW g \in 0 .. MaxGens,
         stage' = [stage EXCEPT ![w] = s], jobs' = [jobs EXCEPT ![w] = js],
         wgen' = [wgen EXCEPT ![w] = g]
  PROVE  /\ stage' \in [Writers -> Stages] /\ jobs' \in [Writers -> Seq(AnyJob)]
         /\ wgen' \in [Writers -> 0 .. MaxGens]
         /\ stage'[w] = s /\ jobs'[w] = js /\ wgen'[w] = g
         /\ \A v \in Writers \ {w} : stage'[v] = stage[v] /\ jobs'[v] = jobs[v] /\ wgen'[v] = wgen[v]
BY DEF RowTypes

\* A writer goes on to a place where it holds no seq that is not in the table.
LEMMA WriterMoves ==
  ASSUME LossInv, NEW w \in Writers, NEW s \in Stages \ {"insert"}, NEW js \in Seq(AnyJob), NEW g \in 0 .. MaxGens,
         stage' = [stage EXCEPT ![w] = s], jobs' = [jobs EXCEPT ![w] = js],
         wgen' = [wgen EXCEPT ![w] = g],
         s = "idle" <=> js = <<>>,
         s \in {"alloc", "notify"} => g \in 1 .. gens /\ (g = gens \/ (Busy(w) /\ g = wgen[w])
                                                          \/ (w \in Aggs /\ agg[w] \in {"open", "closed"})),
         w \in Aggs => s \in {"idle", "alloc", "notify"} /\ (s # "idle" => g = w[1] /\ agg[w] \in {"open", "closed"}),
         UNCHANGED <<gens, seq, agg, overlap, rows, ipc>>, Types', lost' \subseteq AnyRow,
         \A b \in Aggs : buf'[b] # <<>> => buf[b] # <<>>
  PROVE  Shape' /\ Counts'
<1>1. Types /\ RowTypes /\ WritersShape /\ AggsShape
  BY DEF LossInv, Shape
<1>2. /\ stage' \in [Writers -> Stages] /\ jobs' \in [Writers -> Seq(AnyJob)]
      /\ wgen' \in [Writers -> 0 .. MaxGens]
      /\ stage'[w] = s /\ jobs'[w] = js /\ wgen'[w] = g
      /\ \A v \in Writers \ {w} : stage'[v] = stage[v] /\ jobs'[v] = jobs[v] /\ wgen'[v] = wgen[v]
  BY <1>1, OneWriter
<1>3. RowTypes'
  BY <1>1, <1>2 DEF RowTypes
<1>4. WritersShape'
  BY <1>1, <1>2 DEF WritersShape, Busy, Stages
<1>5. AggsShape'
  BY <1>1, <1>2 DEF AggsShape, Busy, Writers
<1>6. ASSUME NEW h \in 1 .. gens, HasWriters(h)' PROVE HasWriters(h) \/ h = gens
  <2>1. CASE \E d \in Dirs : agg[<<h, d>>] \in {"open", "closed"}
    BY <2>1 DEF HasWriters
  <2>2. CASE \E v \in Writers \ {w} : Busy(v) /\ wgen[v] = h
    BY <2>2 DEF HasWriters, Busy
  <2>3. CASE s \in {"alloc", "notify"} /\ g = h
    <3>1. CASE w \in Aggs /\ agg[w] \in {"open", "closed"}
      <4>1. PICK d \in Dirs : w = <<h, d>>
        BY <2>3, <3>1 DEF Aggs
      <4> QED
        BY <2>1, <3>1, <4>1
    <3>2. CASE Busy(w) /\ g = wgen[w]
      BY <2>3, <3>2 DEF HasWriters, Busy
    <3> QED
      BY <2>3, <3>1, <3>2
  <2> QED
    BY <1>2, <1>6, <2>1, <2>2, <2>3 DEF HasWriters, Busy
<1>7. Counts'
  BY <1>2, <1>6, NothingNew
<1> QED
  BY <1>3, <1>4, <1>5, <1>7 DEF Shape

\* What a flush takes out of the buffer, and into jobs.
FlushOf(a, chunk, rest) ==
  /\ chunk \in Seq(Nat) /\ rest \in Seq(Nat) /\ buf[a] = chunk \o rest /\ chunk # <<>>
  /\ buf' = [buf EXCEPT ![a] = rest]
  /\ \/ /\ a[2] = "stdout" /\ pending # None
        /\ jobs' = [jobs EXCEPT ![a] = <<NewJob("resize", <<pending>>), NewJob(a[2], chunk)>>]
     \/ /\ a[2] # "stdout" \/ pending = None
        /\ jobs' = [jobs EXCEPT ![a] = <<NewJob(a[2], chunk)>>]

LEMMA NewJobType == ASSUME NEW d \in Dirs \cup {"resize"}, NEW s \in Seq(Nat) PROVE NewJob(d, s) \in AnyJob
BY DEF NewJob, AnyJob

LEMMA TwoJobs ==
  ASSUME NEW x \in AnyJob, NEW y \in AnyJob
  PROVE  <<x>> \o <<y>> = <<x, y>> /\ <<>> \o <<y>> = <<y>>
<1>1. <<x>> \in Seq(AnyJob) /\ <<y>> \in Seq(AnyJob) /\ <<x, y>> \in Seq(AnyJob)
  OBVIOUS
<1>2. /\ Len(<<x>>) = 1 /\ Len(<<y>>) = 1 /\ Len(<<x, y>>) = 2
      /\ <<x>>[1] = x /\ <<y>>[1] = y /\ <<x, y>>[1] = x /\ <<x, y>>[2] = y
  OBVIOUS
<1>3. <<x>> \o <<y>> = <<x, y>>
  <2>1. /\ <<x>> \o <<y>> \in Seq(AnyJob) /\ Len(<<x>> \o <<y>>) = 2
        /\ (<<x>> \o <<y>>)[1] = x /\ (<<x>> \o <<y>>)[2] = y
    BY <1>1, <1>2, ConcatProperties
  <2>2. \A i \in 1 .. Len(<<x, y>>) : (<<x>> \o <<y>>)[i] = <<x, y>>[i]
    BY <1>2, <2>1
  <2> QED
    BY <1>1, <1>2, <2>1, <2>2, SeqEqual
<1>4. <<>> \o <<y>> = <<y>>
  BY <1>1, ConcatEmptySeq
<1> QED
  BY <1>3, <1>4

LEMMA FlushFacts ==
  ASSUME Types, NEW a \in Aggs, BeginFlush(a)
  PROVE  \E chunk, rest \in Seq(Nat) : FlushOf(a, chunk, rest)
<1>1. buf[a] \in Seq(Nat)
  BY DEF Types, AggTypes
<1>2. PICK n \in 1 .. MaxChunk :
        /\ n <= Len(buf[a])
        /\ jobs' = [jobs EXCEPT ![a] =
             (IF a[2] = "stdout" /\ pending # None THEN <<NewJob("resize", <<pending>>)>> ELSE <<>>)
               \o <<NewJob(a[2], SubSeq(buf[a], 1, n))>>]
        /\ buf' = [buf EXCEPT ![a] = SubSeq(@, n + 1, Len(@))]
  BY DEF BeginFlush
<1>3. n \in 1 .. Len(buf[a]) /\ Len(buf[a]) \in Nat
  BY <1>1, <1>2, LogBoundsAssumption, LenProperties
<1> DEFINE chunk == SubSeq(buf[a], 1, n)
           rest == SubSeq(buf[a], n + 1, Len(buf[a]))
<1>4. chunk \in Seq(Nat) /\ Len(chunk) = n /\ rest \in Seq(Nat)
  <2>1. \A i \in 1 .. Len(buf[a]) : buf[a][i] \in Nat
    BY <1>1, ElementOfSeq
  <2>2. chunk \in Seq(Nat) /\ Len(chunk) = n
    BY <1>3, <2>1, SubSeqProperties
  <2>3. rest \in Seq(Nat)
    BY <1>3, <2>1, SubSeqProperties
  <2> QED
    BY <2>2, <2>3
<1>5. buf[a] = chunk \o rest /\ chunk # <<>>
  <2>1. SubSeq(buf[a], 1, n) \o SubSeq(buf[a], n + 1, Len(buf[a])) = SubSeq(buf[a], 1, Len(buf[a]))
    BY <1>1, <1>3, ConcatAdjacentSubSeq
  <2>2. SubSeq(buf[a], 1, Len(buf[a])) = buf[a]
    BY <1>1, SubSeqFull
  <2> QED
    BY <1>3, <1>4, <2>1, <2>2, EmptySeq
<1> HIDE DEF chunk, rest
<1>6. buf' = [buf EXCEPT ![a] = rest]
  BY <1>2 DEF rest
<1>7. \/ /\ a[2] = "stdout" /\ pending # None
         /\ jobs' = [jobs EXCEPT ![a] = <<NewJob("resize", <<pending>>), NewJob(a[2], chunk)>>]
      \/ /\ a[2] # "stdout" \/ pending = None
         /\ jobs' = [jobs EXCEPT ![a] = <<NewJob(a[2], chunk)>>]
  <2>1. a[2] \in Dirs
    BY DEF Aggs
  <2>2. NewJob(a[2], chunk) \in AnyJob
    BY <1>4, <2>1, NewJobType
  <2>3. CASE a[2] = "stdout" /\ pending # None
    <3>1. pending \in Nat
      BY <2>3, LogBoundsAssumption DEF Types, GridTypes
    <3>2. NewJob("resize", <<pending>>) \in AnyJob
      <4>1. <<pending>> \in Seq(Nat)
        BY <3>1
      <4> QED
        BY <4>1, NewJobType
    <3> DEFINE x == NewJob("resize", <<pending>>)
               y == NewJob(a[2], chunk)
    <3>3. x \in AnyJob /\ y \in AnyJob
      BY <2>2, <3>2
    <3>5. jobs' = [jobs EXCEPT ![a] = <<x>> \o <<y>>]
      BY <1>2, <2>3 DEF chunk
    <3> HIDE DEF x, y
    <3>4. <<x>> \o <<y>> = <<x, y>>
      BY <3>3, TwoJobs
    <3> QED
      BY <2>3, <3>4, <3>5 DEF x, y
  <2>4. CASE ~(a[2] = "stdout" /\ pending # None)
    <3> DEFINE y == NewJob(a[2], chunk)
    <3>1. jobs' = [jobs EXCEPT ![a] = <<>> \o <<y>>]
      BY <1>2, <2>4 DEF chunk
    <3>2. y \in AnyJob
      BY <2>2
    <3> HIDE DEF y
    <3>3. <<>> \o <<y>> = <<y>>
      BY <3>2, TwoJobs
    <3> QED
      BY <2>4, <3>1, <3>3 DEF y
  <2> QED
    BY <2>3, <2>4
<1> QED
  BY <1>4, <1>5, <1>6, <1>7 DEF FlushOf

LEMMA FlushJobs ==
  ASSUME GridTypes, NEW a \in Aggs, NEW chunk \in Seq(Nat), NEW rest \in Seq(Nat), FlushOf(a, chunk, rest)
  PROVE  \E js \in Seq(AnyJob) : js # <<>> /\ jobs' = [jobs EXCEPT ![a] = js]
<1>1. PICK y \in AnyJob : y = NewJob(a[2], chunk)
  <2>1. a[2] \in Dirs
    BY DEF Aggs
  <2> QED
    BY <2>1, NewJobType
<1>2. CASE a[2] = "stdout" /\ pending # None
  <2>1. <<pending>> \in Seq(Nat)
    BY <1>2, LogBoundsAssumption DEF GridTypes
  <2>2. PICK x \in AnyJob : x = NewJob("resize", <<pending>>)
    BY <2>1, NewJobType
  <2>3. <<x, y>> \in Seq(AnyJob) /\ <<x, y>> # <<>>
    OBVIOUS
  <2> QED
    BY <1>1, <1>2, <2>2, <2>3 DEF FlushOf
<1>3. CASE ~(a[2] = "stdout" /\ pending # None)
  <2>1. <<y>> \in Seq(AnyJob) /\ <<y>> # <<>>
    OBVIOUS
  <2> QED
    BY <1>1, <1>3, <2>1 DEF FlushOf
<1> QED
  BY <1>2, <1>3

LEMMA BeginFlushStep == ASSUME LossInv, NEW a \in Aggs, BeginFlush(a) PROVE LossInv'
<1>1. Types /\ RowTypes /\ WritersShape /\ AggsShape /\ LostOnlyToOverlap
  BY DEF LossInv, Shape
<1>2. /\ UNCHANGED <<gens, cur, seq, agg, overlap, rows, ipc, out, in, grid, lost>>
      /\ agg[a] \in {"open", "closed"} /\ stage[a] = "idle"
      /\ stage' = [stage EXCEPT ![a] = "alloc"] /\ wgen' = [wgen EXCEPT ![a] = a[1]]
      /\ pending' \in {pending, None}
  BY DEF BeginFlush, ioVars, lossVars
<1>3. PICK chunk \in Seq(Nat), rest \in Seq(Nat) : FlushOf(a, chunk, rest)
  BY <1>1, FlushFacts
<1>4. /\ buf' \in [Aggs -> Seq(Nat)]
      /\ \A b \in Aggs : buf'[b] # <<>> => buf[b] # <<>>
  <2>1. /\ buf \in [Aggs -> Seq(Nat)] /\ buf' = [buf EXCEPT ![a] = rest]
        /\ buf[a] = chunk \o rest /\ chunk # <<>>
    BY <1>1, <1>3 DEF Types, AggTypes, FlushOf
  <2>2. chunk \o rest # <<>>
    BY <2>1, ConcatEqualIffEmpty
  <2> QED
    BY <2>1, <2>2
<1>5. PICK js \in Seq(AnyJob) : js # <<>> /\ jobs' = [jobs EXCEPT ![a] = js]
  BY <1>3, <1>1, FlushJobs DEF Types
<1>6. Types'
  BY <1>1, <1>2, <1>4 DEF Types, GenTypes, AggTypes, IoTypes, GridTypes
<1>7. a \in Writers /\ a[1] \in 0 .. MaxGens /\ a[1] \in 1 .. gens
  <2>1. a[1] \in Gens /\ a[1] <= gens
    BY <1>1, <1>2 DEF Aggs, AggsShape
  <2> QED
    BY <1>1, <2>1, GensFacts, LogBoundsAssumption DEF Gens, Writers
<1>8. Shape' /\ Counts'
  <2>1. "alloc" \in Stages \ {"insert"}
    BY DEF Stages
  <2> QED
    BY <1>1, <1>2, <1>4, <1>5, <1>6, <1>7, <2>1, WriterMoves DEF RowTypes
<1> QED
  BY <1>1, <1>2, <1>8 DEF LossInv, LostOnlyToOverlap

\* FlushResizeMarker gets its marker and its generation.
LEMMA FlusherSteps ==
  ASSUME LossInv, NEW f \in Flushers, FlushTake(f) \/ FlushGet(f)
  PROVE  LossInv'
<1>1. Types /\ RowTypes /\ WritersShape /\ AggsShape /\ LostOnlyToOverlap
  BY DEF LossInv, Shape
<1>2. /\ UNCHANGED <<gens, cur, seq, agg, buf, overlap, rows, ipc, out, in, grid, lost>>
      /\ pending' \in {pending, None}
  BY DEF FlushTake, FlushGet, ioVars, lossVars, stateVars, sessVars
<1>3. Types'
  BY <1>1, <1>2 DEF Types, GenTypes, AggTypes, IoTypes, GridTypes
<1>4. f \in Writers /\ f \notin Aggs /\ jobs[f] \in Seq(AnyJob) /\ wgen[f] \in 0 .. MaxGens
  BY <1>1, WritersAssumption DEF Writers, RowTypes
<1>5. PICK s \in Stages \ {"insert"}, js \in Seq(AnyJob), g \in 0 .. MaxGens :
        /\ stage' = [stage EXCEPT ![f] = s] /\ jobs' = [jobs EXCEPT ![f] = js] /\ wgen' = [wgen EXCEPT ![f] = g]
        /\ s = "idle" <=> js = <<>>
        /\ s \in {"alloc", "notify"} => g \in 1 .. gens /\ g = gens
  <2>1. CASE FlushTake(f)
    <3>1. PICK j \in AnyJob : j = NewJob("resize", <<pending>>)
      <4>1. pending \in Nat
        BY <1>1, <2>1, LogBoundsAssumption DEF FlushTake, Types, GridTypes
      <4>2. <<pending>> \in Seq(Nat)
        BY <4>1
      <4> QED
        BY <4>2, NewJobType
    <3>2. <<j>> \in Seq(AnyJob) /\ <<j>> # <<>>
      OBVIOUS
    <3>3. "register" \in Stages \ {"insert"}
      BY DEF Stages
    <3>4. wgen' = [wgen EXCEPT ![f] = wgen[f]]
      BY <1>1, <2>1 DEF FlushTake, RowTypes
    <3> QED
      BY <1>4, <2>1, <3>1, <3>2, <3>3, <3>4 DEF FlushTake
  <2>2. CASE FlushGet(f) /\ cur # 0
    <3>1. cur = gens /\ gens \in 1 .. gens /\ cur \in 0 .. MaxGens
      BY <1>1, <2>2 DEF Types, GenTypes
    <3>2. jobs' = [jobs EXCEPT ![f] = jobs[f]] /\ jobs[f] # <<>>
      BY <1>1, <1>4, <2>2 DEF FlushGet, RowTypes, WritersShape
    <3>3. "alloc" \in Stages \ {"insert"}
      BY DEF Stages
    <3> QED
      BY <1>4, <2>2, <3>1, <3>2, <3>3 DEF FlushGet
  <2>3. CASE FlushGet(f) /\ cur = 0
    <3>1. wgen' = [wgen EXCEPT ![f] = wgen[f]]
      BY <1>1, <2>3 DEF FlushGet, RowTypes
    <3>2. "idle" \in Stages \ {"insert"} /\ <<>> \in Seq(AnyJob)
      BY EmptySeq DEF Stages
    <3> QED
      BY <1>4, <2>3, <3>1, <3>2 DEF FlushGet
  <2> QED
    BY <2>1, <2>2, <2>3
<1>6. Shape' /\ Counts'
  BY <1>1, <1>2, <1>3, <1>4, <1>5, WriterMoves DEF RowTypes
<1> QED
  BY <1>1, <1>2, <1>6 DEF LossInv, LostOnlyToOverlap

\* A writer is through with a chunk.
LEMMA NextJobShape ==
  ASSUME LossInv, NEW w \in Writers, stage[w] \in {"insert", "notify"}, NextJob(w),
         UNCHANGED <<stateVars, rows, ioVars, sessVars>>, lost' \subseteq AnyRow
  PROVE  Shape' /\ Counts'
<1>1. Types /\ RowTypes /\ WritersShape /\ AggsShape
  BY DEF LossInv, Shape
<1>2. UNCHANGED <<gens, cur, seq, agg, buf, overlap, rows, ipc, out, in, grid, pending>>
  BY DEF stateVars, ioVars, sessVars
<1>3. Types'
  BY <1>1, <1>2 DEF Types, GenTypes, AggTypes, IoTypes, GridTypes
<1>4. jobs[w] \in Seq(AnyJob) /\ jobs[w] # <<>> /\ wgen[w] \in 0 .. MaxGens /\ Busy(w) /\ wgen[w] \in 1 .. gens
  BY <1>1 DEF RowTypes, WritersShape, Busy
<1>5. PICK js \in Seq(AnyJob) : js = Tail(jobs[w])
  BY <1>4, JobFacts
<1>6. PICK s \in {"idle", "alloc"} : s = IF Len(jobs[w]) > 1 THEN "alloc" ELSE "idle"
  OBVIOUS
<1>7. s = "idle" <=> js = <<>>
  BY <1>4, <1>5, <1>6, JobFacts
<1>8. /\ stage' = [stage EXCEPT ![w] = s] /\ jobs' = [jobs EXCEPT ![w] = js]
      /\ wgen' = [wgen EXCEPT ![w] = wgen[w]]
  BY <1>1, <1>5, <1>6 DEF NextJob, RowTypes
<1>9. w \in Aggs => wgen[w] = w[1] /\ agg[w] \in {"open", "closed"}
  BY <1>1, <1>4 DEF AggsShape
<1>10. s \in Stages \ {"insert"}
  BY DEF Stages
<1> QED
  BY <1>2, <1>3, <1>4, <1>7, <1>8, <1>9, <1>10, WriterMoves

LEMMA NotifyStep == ASSUME LossInv, NEW w \in Writers, Notify(w) PROVE LossInv'
<1>1. UNCHANGED lost /\ lost \subseteq AnyRow
  BY DEF Notify, lossVars, LossInv, Shape, RowTypes
<1>2. Shape' /\ Counts'
  BY <1>1, NextJobShape DEF Notify
<1> QED
  BY <1>1, <1>2 DEF Notify, LossInv, LostOnlyToOverlap, stateVars

\* The seq a writer gets is above every seq its generation has given out.
LEMMA AllocStep == ASSUME LossInv, NEW w \in Writers, Alloc(w) PROVE LossInv'
<1>1. Types /\ RowTypes /\ WritersShape /\ AggsShape /\ SeqOnce /\ HasTop /\ OneGen /\ Ahead /\ LostOnlyToOverlap
  BY DEF LossInv, Shape, Counts
<1>2. /\ UNCHANGED <<gens, cur, agg, buf, overlap, rows, wgen, ipc, out, in, grid, pending, lost>>
      /\ stage[w] = "alloc"
  BY DEF Alloc, sessVars, ioVars, lossVars
<1>3. PICK g \in Gens : g = wgen[w] /\ g \in 1 .. gens
  BY <1>1, <1>2, GensFacts DEF WritersShape, Busy
<1>4. PICK n \in Nat : n = seq[g] + 1
  BY <1>1 DEF Types, GenTypes
<1>5. jobs[w] \in Seq(AnyJob) /\ jobs[w] # <<>>
  BY <1>1, <1>2 DEF RowTypes, WritersShape
<1>6. PICK js \in Seq(AnyJob) : js = Retag(jobs[w], n) /\ js # <<>> /\ Head(js).seq = n
  BY <1>4, <1>5, RetagFacts
<1>7. seq' = [seq EXCEPT ![g] = n]
  BY <1>1, <1>3, <1>4 DEF Alloc, Types, GenTypes
<1>8. /\ seq' \in [Gens -> Nat] /\ seq'[g] = n /\ n > seq[g]
      /\ \A h \in Gens \ {g} : seq'[h] = seq[h]
      /\ \A h \in Gens : seq[h] \in Nat /\ seq[h] <= seq'[h]
  <2>1. seq \in [Gens -> Nat]
    BY <1>1 DEF Types, GenTypes
  <2> QED
    BY <1>4, <1>7, <2>1
<1>9. /\ stage' = [stage EXCEPT ![w] = "insert"] /\ jobs' = [jobs EXCEPT ![w] = js]
      /\ wgen' = [wgen EXCEPT ![w] = g]
  <2>1. jobs' = [jobs EXCEPT ![w] = Retag(jobs[w], n)]
    BY <1>1, <1>3, <1>4 DEF Alloc, Retag, RowTypes
  <2>2. wgen' = [wgen EXCEPT ![w] = g]
    BY <1>1, <1>2, <1>3 DEF RowTypes
  <2> QED
    BY <1>6, <2>1, <2>2 DEF Alloc
<1>10. /\ stage' \in [Writers -> Stages] /\ jobs' \in [Writers -> Seq(AnyJob)]
       /\ stage'[w] = "insert" /\ jobs'[w] = js
       /\ \A v \in Writers \ {w} : stage'[v] = stage[v] /\ jobs'[v] = jobs[v]
  <2>1. "insert" \in Stages /\ g \in 0 .. MaxGens
    BY LogBoundsAssumption DEF Stages, Gens
  <2> QED
    BY <1>1, <1>9, <2>1, OneWriter
<1>11. Types'
  BY <1>1, <1>2, <1>8 DEF Types, GenTypes, AggTypes, IoTypes, GridTypes
<1>12. RowTypes' /\ WritersShape'
  BY <1>1, <1>2, <1>3, <1>6, <1>10 DEF RowTypes, WritersShape, Busy
<1>13. \A v \in Writers : Busy(v)' <=> Busy(v)
  BY <1>2, <1>10 DEF Busy
<1>14. AggsShape'
  <2>1. \A b \in Aggs : b \in Writers /\ stage'[b] \notin {"register", "get"}
    BY <1>1, <1>10 DEF AggsShape, Writers
  <2> QED
    BY <1>1, <1>2, <1>13, <2>1 DEF AggsShape
<1>15. \A r \in rows : r.gen \in Gens /\ r.seq \in Nat /\ r.gen <= gens /\ r.seq <= seq[r.gen]
  BY <1>1 DEF SeqOnce, RowTypes, AnyRow
<1>16. \A v \in Writers : stage[v] = "insert" =>
         wgen[v] \in Gens /\ Head(jobs[v]).seq \in Nat /\ Head(jobs[v]).seq <= seq[wgen[v]]
  <2> SUFFICES ASSUME NEW v \in Writers, stage[v] = "insert"
      PROVE  wgen[v] \in Gens /\ Head(jobs[v]).seq \in Nat /\ Head(jobs[v]).seq <= seq[wgen[v]]
    OBVIOUS
  <2>1. wgen[v] \in Gens
    BY <1>1, GensFacts DEF WritersShape, Busy
  <2>2. Head(jobs[v]) \in AnyJob
    BY <1>1, JobFacts DEF RowTypes, WritersShape
  <2> QED
    BY <1>1, <2>1, <2>2 DEF SeqOnce, AnyJob
<1>17. SeqOnce'
  <2>1. \A r \in rows' : r.gen <= gens' /\ r.seq <= seq'[r.gen]
    BY <1>2, <1>8, <1>15
  <2>2. ASSUME NEW v \in Writers, stage'[v] = "insert"
        PROVE  /\ Head(jobs'[v]).seq <= seq'[wgen'[v]]
               /\ \A r \in rows' : r.gen = wgen'[v] =>
                    r.seq # Head(jobs'[v]).seq /\ (r.by = v => r.seq < Head(jobs'[v]).seq)
    <3>1. CASE v = w
      BY <1>2, <1>3, <1>4, <1>6, <1>8, <1>10, <1>15, <3>1
    <3>2. CASE v # w
      <4>1. stage[v] = "insert" /\ jobs'[v] = jobs[v] /\ wgen'[v] = wgen[v]
        BY <1>2, <1>10, <2>2, <3>2
      <4>2. Head(jobs[v]).seq <= seq'[wgen[v]]
        BY <1>8, <1>16, <4>1
      <4> QED
        BY <1>1, <1>2, <4>1, <4>2 DEF SeqOnce
    <3> QED
      BY <3>1, <3>2
  <2>3. ASSUME NEW u \in Writers, NEW v \in Writers, stage'[u] = "insert", stage'[v] = "insert", u # v,
               wgen'[u] = wgen'[v]
        PROVE  Head(jobs'[u]).seq # Head(jobs'[v]).seq
    <3>1. ASSUME NEW x \in Writers \ {w}, stage'[x] = "insert", wgen[x] = g PROVE Head(jobs'[x]).seq < n
      <4>1. x \in Writers /\ stage[x] = "insert" /\ jobs'[x] = jobs[x]
        BY <1>10, <3>1
      <4>2. Head(jobs[x]).seq \in Nat /\ Head(jobs[x]).seq <= seq[g]
        BY <1>16, <3>1, <4>1
      <4> QED
        BY <1>8, <4>1, <4>2
    <3>2. Head(jobs'[w]).seq = n
      BY <1>6, <1>10
    <3>3. CASE u # w /\ v # w
      BY <1>1, <1>2, <1>10, <2>3, <3>3 DEF SeqOnce
    <3>4. CASE u = w
      <4>1. Head(jobs'[v]).seq < n /\ Head(jobs'[v]).seq \in Nat
        BY <1>2, <1>3, <1>10, <1>16, <2>3, <3>1, <3>4
      <4> QED
        BY <3>2, <3>4, <4>1
    <3>5. CASE v = w
      <4>1. Head(jobs'[u]).seq < n /\ Head(jobs'[u]).seq \in Nat
        BY <1>2, <1>3, <1>10, <1>16, <2>3, <3>1, <3>5
      <4> QED
        BY <3>2, <3>5, <4>1
    <3> QED
      BY <3>3, <3>4, <3>5
  <2> QED
    BY <2>1, <2>2, <2>3 DEF SeqOnce
<1>18. HasTop'
  BY <1>1, <1>2 DEF HasTop
<1>19. \A h \in 1 .. gens : HasWriters(h)' => HasWriters(h)
  BY <1>2, <1>13 DEF HasWriters, Busy
<1>20. OneGen'
  BY <1>1, <1>2, <1>19 DEF OneGen
<1>21. Ahead'
  <2> SUFFICES ASSUME ~overlap, NEW r \in rows, r.gen # gens
      PROVE  r.seq <= seq'[gens] /\ \A v \in Writers : stage'[v] = "insert" => r.seq < Head(jobs'[v]).seq
    BY <1>2 DEF Ahead
  <2>1. g = gens
    <3>1. HasWriters(g)
      BY <1>2, <1>3 DEF HasWriters
    <3> QED
      BY <1>1, <1>3, <3>1 DEF OneGen
  <2>2. r.seq <= seq[gens] /\ r.seq \in Nat /\ gens \in Gens
    BY <1>1, <1>3, <1>15, <2>1 DEF Ahead
  <2>3. r.seq <= seq'[gens] /\ r.seq < n
    BY <1>4, <1>8, <2>1, <2>2
  <2>4. ASSUME NEW v \in Writers, stage'[v] = "insert" PROVE r.seq < Head(jobs'[v]).seq
    <3>1. CASE v = w
      BY <1>6, <1>10, <2>3, <3>1
    <3>2. CASE v # w
      BY <1>1, <1>10, <2>4, <3>2 DEF Ahead
    <3> QED
      BY <3>1, <3>2
  <2> QED
    BY <2>3, <2>4
<1> QED
  BY <1>1, <1>2, <1>11, <1>12, <1>14, <1>17, <1>18, <1>20, <1>21 DEF LossInv, Shape, Counts, LostOnlyToOverlap

LEMMA RowFacts ==
  ASSUME Types, RowTypes, WritersShape, NEW w \in Writers, Busy(w)
  PROVE  /\ jobs[w] \in Seq(AnyJob) /\ jobs[w] # <<>> /\ Head(jobs[w]) \in AnyJob
         /\ wgen[w] \in 1 .. gens /\ wgen[w] \in Gens /\ RowOf(w) \in AnyRow
         /\ RowOf(w).seq = Head(jobs[w]).seq /\ RowOf(w).seq \in Nat
         /\ RowOf(w).gen = wgen[w] /\ RowOf(w).by = w
<1>1. jobs[w] \in Seq(AnyJob) /\ jobs[w] # <<>> /\ wgen[w] \in 1 .. gens
  BY DEF RowTypes, WritersShape, Busy
<1>2. Head(jobs[w]) \in AnyJob /\ wgen[w] \in Gens
  BY <1>1, JobFacts, GensFacts
<1> QED
  BY <1>1, <1>2 DEF RowOf, AnyJob, AnyRow

\* A seq that is taken was given out by another generation.
LEMMA LoseStep ==
  ASSUME LossInv, NEW w \in Writers, Insert(w), \E r \in rows : r.seq = Head(jobs[w]).seq
  PROVE  LossInv'
<1>1. Types /\ RowTypes /\ WritersShape /\ SeqOnce /\ OneGen /\ Ahead /\ LostOnlyToOverlap
  BY DEF LossInv, Shape, Counts
<1>2. /\ stage[w] = "insert" /\ NextJob(w) /\ lost' = lost \cup {RowOf(w)} /\ rows' = rows
      /\ UNCHANGED <<sessVars, stateVars, ioVars>> /\ overlap' = overlap
  BY DEF Insert, stateVars
<1>3. Busy(w)
  BY <1>2 DEF Busy
<1>4. RowOf(w) \in AnyRow /\ RowOf(w).seq = Head(jobs[w]).seq /\ RowOf(w).gen = wgen[w] /\ wgen[w] \in 1 .. gens
  BY <1>1, <1>3, RowFacts
<1>5. Shape' /\ Counts'
  BY <1>1, <1>2, <1>4, NextJobShape DEF RowTypes
<1>6. PICK r \in rows : r.seq = Head(jobs[w]).seq
  OBVIOUS
<1>7. r.gen # wgen[w]
  BY <1>1, <1>2, <1>6 DEF SeqOnce
<1>8. overlap
  <2> SUFFICES ASSUME ~overlap PROVE FALSE
    OBVIOUS
  <2>1. HasWriters(wgen[w])
    BY <1>2 DEF HasWriters
  <2>2. wgen[w] = gens
    BY <1>1, <1>4, <2>1 DEF OneGen
  <2>3. r.seq < Head(jobs[w]).seq
    BY <1>1, <1>2, <1>7, <2>2 DEF Ahead
  <2>4. r.seq \in Nat
    BY <1>1 DEF RowTypes, AnyRow
  <2> QED
    BY <1>6, <2>3, <2>4
<1>9. LostOnlyToOverlap'
  BY <1>1, <1>2, <1>4, <1>6, <1>7, <1>8 DEF LostOnlyToOverlap
<1> QED
  BY <1>5, <1>9 DEF LossInv

\* A row of the last generation comes on top of what the others have left.
LEMMA KeepStep ==
  ASSUME LossInv, NEW w \in Writers, Insert(w), ~\E r \in rows : r.seq = Head(jobs[w]).seq
  PROVE  LossInv'
<1>1. Types /\ RowTypes /\ WritersShape /\ AggsShape /\ SeqOnce /\ HasTop /\ OneGen /\ Ahead /\ LostOnlyToOverlap
  BY DEF LossInv, Shape, Counts
<1>2. /\ stage[w] = "insert" /\ rows' = rows \cup {RowOf(w)} /\ stage' = [stage EXCEPT ![w] = "notify"]
      /\ UNCHANGED <<gens, cur, seq, agg, buf, overlap, jobs, wgen, ipc, out, in, grid, pending, lost>>
  BY DEF Insert, sessVars, stateVars, ioVars
<1>3. Busy(w)
  BY <1>2 DEF Busy
<1>4. PICK x \in AnyRow : /\ x = RowOf(w) /\ x.seq = Head(jobs[w]).seq /\ x.seq \in Nat
                          /\ x.gen = wgen[w] /\ x.by = w
  BY <1>1, <1>3, RowFacts
<1>5. wgen[w] \in 1 .. gens /\ wgen[w] \in Gens
  BY <1>1, <1>3, RowFacts
<1>6. /\ stage' \in [Writers -> Stages] /\ stage'[w] = "notify"
      /\ \A v \in Writers \ {w} : stage'[v] = stage[v]
  BY <1>1, <1>2 DEF RowTypes, Stages
<1>7. \A v \in Writers : /\ Busy(v)' <=> Busy(v)
                         /\ stage'[v] = "idle" <=> stage[v] = "idle"
                         /\ stage'[v] = "insert" => v # w /\ stage[v] = "insert"
  BY <1>2, <1>6 DEF Busy
<1>8. Types' /\ RowTypes' /\ WritersShape'
  BY <1>1, <1>2, <1>4, <1>6, <1>7 DEF Types, GenTypes, AggTypes, IoTypes, GridTypes, RowTypes, WritersShape
<1>9. AggsShape'
  <2>1. \A b \in Aggs : b \in Writers /\ stage'[b] \notin {"register", "get"}
    BY <1>1, <1>6 DEF AggsShape, Writers
  <2> QED
    BY <1>1, <1>2, <1>7, <2>1 DEF AggsShape
<1>10. rows' = rows \cup {x}
  BY <1>2, <1>4
<1>11. SeqOnce'
  <2>1. x.gen <= gens /\ x.seq <= seq[x.gen]
    BY <1>1, <1>2, <1>4, <1>5, GensFacts DEF SeqOnce
  <2>2. \A v \in Writers : stage'[v] = "insert" /\ wgen[v] = x.gen => x.seq # Head(jobs[v]).seq /\ x.by # v
    BY <1>1, <1>2, <1>4, <1>7 DEF SeqOnce
  <2> QED
    BY <1>1, <1>2, <1>7, <1>10, <2>1, <2>2 DEF SeqOnce
<1>12. HasTop'
  <2>1. CASE rows = {}
    BY <1>4, <1>10, <2>1 DEF HasTop
  <2>2. CASE rows # {}
    <3>1. PICK t \in rows : \A r \in rows : r.seq <= t.seq
      BY <1>1, <2>2 DEF HasTop
    <3>2. \A r \in rows : r.seq \in Nat
      BY <1>1 DEF RowTypes, AnyRow
    <3>3. CASE t.seq <= x.seq
      BY <1>4, <1>10, <3>1, <3>2, <3>3 DEF HasTop
    <3>4. CASE x.seq <= t.seq
      BY <1>4, <1>10, <3>1, <3>2, <3>4 DEF HasTop
    <3> QED
      BY <1>4, <3>2, <3>3, <3>4
  <2> QED
    BY <2>1, <2>2
<1>13. OneGen'
  <2>1. \A h \in 1 .. gens : HasWriters(h)' => HasWriters(h)
    BY <1>2, <1>7 DEF HasWriters, Busy
  <2> QED
    BY <1>1, <1>2, <2>1 DEF OneGen
<1>14. Ahead'
  <2>1. ~overlap => x.gen = gens
    <3>1. HasWriters(wgen[w])
      BY <1>2 DEF HasWriters
    <3> QED
      BY <1>1, <1>4, <1>5, <3>1 DEF OneGen
  <2> QED
    BY <1>1, <1>2, <1>7, <1>10, <2>1 DEF Ahead
<1>15. LostOnlyToOverlap'
  BY <1>1, <1>2, <1>10 DEF LostOnlyToOverlap
<1> QED
  BY <1>8, <1>9, <1>11, <1>12, <1>13, <1>14, <1>15 DEF LossInv, Shape, Counts

\* After a crash or a panic nobody writes and nothing is left in memory.
LEMMA DieStep == ASSUME LossInv, Crash \/ InputPanics PROVE LossInv'
<1>1. Types /\ RowTypes /\ AggsShape /\ LostOnlyToOverlap
  BY DEF LossInv, Shape
<1>2. /\ cur' = 0 /\ pending' = None
      /\ agg' = [a \in Aggs |-> IF agg[a] = "none" THEN "none" ELSE "done"]
      /\ buf' = [a \in Aggs |-> <<>>]
      /\ jobs' = [w \in Writers |-> <<>>]
      /\ stage' = [w \in Writers |-> "idle"]
      /\ ipc' = [at |-> "idle", gen |-> 0]
      /\ UNCHANGED <<grid, gens, seq, overlap, rows, wgen, out, in, lost>>
  BY DEF Crash, InputPanics, Die
<1>3. \A a \in Aggs : agg'[a] \in {"none", "done"} /\ (agg'[a] # "none" => agg[a] # "none") /\ buf'[a] = <<>>
  BY <1>2
<1>4. \A w \in Writers : stage'[w] = "idle" /\ jobs'[w] = <<>>
  BY <1>2
<1>5. AggTypes'
  <2>1. <<>> \in Seq(Nat)
    BY EmptySeq
  <2> QED
    BY <1>2, <2>1 DEF AggTypes
<1>6. Types'
  BY <1>1, <1>2, <1>5, LogBoundsAssumption DEF Types, GenTypes, IoTypes, GridTypes
<1>7. RowTypes'
  <2>1. <<>> \in Seq(AnyJob)
    BY EmptySeq
  <2> QED
    BY <1>1, <1>2, <2>1 DEF RowTypes, Stages
<1>8. WritersShape'
  BY <1>4 DEF WritersShape, Busy
<1>9. AggsShape'
  <2>1. \A a \in Aggs : a \in Writers
    BY DEF Writers
  <2> QED
    BY <1>1, <1>2, <1>3, <1>4, <2>1 DEF AggsShape, Busy
<1>10. Counts'
  <2>1. \A g \in 1 .. gens : ~HasWriters(g)'
    <3>1. \A g \in 1 .. gens, d \in Dirs : <<g, d>> \in Aggs
      BY <1>1, GensFacts, AggOf
    <3> QED
      BY <1>3, <1>4, <3>1 DEF HasWriters
  <2> QED
    BY <1>2, <1>4, <2>1, NothingNew
<1> QED
  BY <1>1, <1>2, <1>6, <1>7, <1>8, <1>9, <1>10 DEF LossInv, Shape, LostOnlyToOverlap

LEMMA NoStep == ASSUME LossInv, UNCHANGED logVars PROVE LossInv'
<1>1. UNCHANGED <<gens, seq, rows, jobs, stage, wgen, lost, cur, agg, buf, overlap, ipc, out, in, pending, grid>>
  BY DEF logVars, sessVars, stateVars, jobVars, ioVars, lossVars
<1>2. Types' /\ AggsShape'
  BY <1>1 DEF LossInv, Shape, Types, GenTypes, AggTypes, IoTypes, GridTypes, AggsShape, Busy
<1> QED
  BY <1>1, <1>2, AggsMove

LEMMA InitLoss == LogInit => LossInv
<1> SUFFICES ASSUME LogInit PROVE LossInv
  OBVIOUS
<1>1. <<>> \in Seq(Nat) /\ <<>> \in Seq(AnyJob)
  BY EmptySeq
<1>2. 0 \in 0 .. MaxGens /\ 0 \in 0 .. MaxGrid
  BY LogBoundsAssumption
<1>3. Types
  BY <1>1, <1>2 DEF LogInit, Types, GenTypes, AggTypes, IoTypes, GridTypes
<1>4. RowTypes
  BY <1>1, <1>2 DEF LogInit, RowTypes, Stages
<1>5. \A w \in Writers : stage[w] = "idle" /\ jobs[w] = <<>>
  BY DEF LogInit
<1>6. \A a \in Aggs : a \in Writers /\ agg[a] = "none" /\ buf[a] = <<>>
  BY DEF LogInit, Writers
<1>7. WritersShape /\ AggsShape
  BY <1>5, <1>6 DEF LogInit, WritersShape, AggsShape, Busy
<1>8. Counts
  BY <1>5 DEF LogInit, Counts, SeqOnce, HasTop, OneGen, Ahead
<1> QED
  BY <1>3, <1>4, <1>7, <1>8 DEF LogInit, LossInv, Shape, LostOnlyToOverlap

LEMMA NextLoss == LossInv /\ [LogNext]_logVars => LossInv'
<1> SUFFICES ASSUME LossInv, [LogNext]_logVars PROVE LossInv'
  OBVIOUS
<1>1. CASE SessionStep
  BY <1>1, PtyOutputStep, PlainSteps, RegisterSteps DEF SessionStep
<1>2. CASE CloseStep
  BY <1>2, PlainSteps, AggsClose DEF CloseStep
<1>3. CASE InputStep
  BY <1>3, RegisterSteps, PlainSteps, InputSteps DEF InputStep
<1>4. CASE Crash \/ InputPanics
  BY <1>4, DieStep
<1>5. CASE \E a \in Aggs : AggStep(a)
  BY <1>5, BeginFlushStep, AggsClose DEF AggStep
<1>6. CASE \E f \in Flushers : FlushTake(f) \/ FlusherStep(f)
  BY <1>6, FlusherSteps, RegisterSteps DEF FlusherStep
<1>7. CASE \E w \in Writers : Alloc(w) \/ Insert(w) \/ Notify(w)
  BY <1>7, AllocStep, LoseStep, KeepStep, NotifyStep
<1>8. CASE UNCHANGED logVars
  BY <1>8, NoStep
<1> QED
  BY <1>1, <1>2, <1>3, <1>4, <1>5, <1>6, <1>7, <1>8 DEF LogNext
-----------------------------------------------------------------------------
\* Every step of a subscription is one of the log, or none of its business.
LEMMA LogSteps == ReplayNext => [LogNext]_logVars
<1>1. LogOnly => [LogNext]_logVars
  BY DEF LogOnly, LogNext, SessionStep
<1>2. NewSession \/ DaemonDies => LogNext
  BY DEF NewSession, DaemonDies, LogNext, SessionStep
<1>3. (\E w \in Writers : InsertRow(w) \/ Deliver(w)) => LogNext
  BY DEF InsertRow, Deliver, LogNext
<1>4. ASSUME NEW f \in Flushers, SubscribeStep(f) PROVE [LogNext]_logVars
  <2>1. FlushTake(f) \/ UNCHANGED logVars
    BY <1>4 DEF SubscribeStep, Lookup, SubscribeOutput, FlushMarker, ReadPage, Release, Drain
  <2> QED
    BY <2>1 DEF LogNext
<1> QED
  BY <1>1, <1>2, <1>3, <1>4 DEF ReplayNext

\* The log under its subscribers behaves as it does on its own.
THEOREM ReplayUsesTheLog == ReplaySpec => LogSpec
<1>1. ReplayInit => LogInit
  BY DEF ReplayInit
<1>2. [ReplayNext]_replayVars => [LogNext]_logVars
  <2>1. UNCHANGED replayVars => UNCHANGED logVars
    BY DEF replayVars
  <2> QED
    BY <2>1, LogSteps
<1> QED
  BY <1>1, <1>2, PTL DEF ReplaySpec, LogSpec

LEMMA LossAlways == LogSpec => []LossInv
<1> QED
  BY InitLoss, NextLoss, PTL DEF LogSpec

\* A chunk is lost only when its seq was taken under another termState object
\* whose writers overlapped (Manager.Register while Close still flushes): no
\* crash, restart or subscribe makes an insert fail on its own.
THEOREM LossNeedsOverlap == ReplaySpec => []LostOnlyToOverlap
<1>1. LossInv => LostOnlyToOverlap
  BY DEF LossInv
<1> QED
  BY <1>1, LossAlways, ReplayUsesTheLog, PTL
-----------------------------------------------------------------------------
\* The output in a set of chunks, in a writer's jobs, in buffers and jobs.
DataOf(R) == UNION {Elems(r.data) : r \in {t \in R : t.dir = "stdout"}}
UnitsIn(js) == UNION {Elems(js[i].data) : i \in {k \in DOMAIN js : js[k].dir = "stdout"}}
Held(b, j) == (UNION {Elems(b[a]) : a \in {c \in Aggs : c[2] = "stdout"}}) \cup (UNION {UnitsIn(j[w]) : w \in Aggs})

\* Only aggregators carry output, and a chunk whose callback runs is in the table.
Backed ==
  /\ \A f \in Flushers : \A i \in DOMAIN jobs[f] : jobs[f][i].dir = "resize"
  /\ \A w \in Writers : stage[w] = "notify" => RowOf(w) \in rows

AccountInv == Backed /\ OutputAccountedFor

LEMMA DataFacts ==
  ASSUME NEW R, NEW x
  PROVE  DataOf(R \cup {x}) = DataOf(R) \cup (IF x.dir = "stdout" THEN Elems(x.data) ELSE {})
         /\ (x \in R /\ x.dir = "stdout" => Elems(x.data) \subseteq DataOf(R))
<1>1. \A Q, u : u \in DataOf(Q) <=> \E r \in Q : r.dir = "stdout" /\ u \in Elems(r.data)
  BY DEF DataOf
<1> QED
  BY <1>1

LEMMA ElemsFacts ==
  ASSUME NEW S, NEW s \in Seq(S), NEW t \in Seq(S), NEW x \in S
  PROVE  Elems(s \o t) = Elems(s) \cup Elems(t) /\ Elems(Append(s, x)) = Elems(s) \cup {x}
<1>1. /\ Len(s) \in Nat /\ Len(t) \in Nat /\ DOMAIN s = 1 .. Len(s) /\ DOMAIN t = 1 .. Len(t)
  BY LenProperties
<1>2. /\ s \o t \in Seq(S) /\ Len(s \o t) = Len(s) + Len(t)
      /\ \A i \in 1 .. Len(s) + Len(t) : (s \o t)[i] = IF i <= Len(s) THEN s[i] ELSE t[i - Len(s)]
  BY ConcatProperties
<1>3. DOMAIN (s \o t) = 1 .. Len(s) + Len(t)
  BY <1>2, LenProperties
<1>4. Elems(s \o t) = Elems(s) \cup Elems(t)
  <2>1. ASSUME NEW y \in Elems(s \o t) PROVE y \in Elems(s) \cup Elems(t)
    <3>1. PICK i \in 1 .. Len(s) + Len(t) : y = (s \o t)[i]
      BY <1>3 DEF Elems
    <3>2. CASE i <= Len(s)
      <4>1. i \in DOMAIN s /\ y = s[i]
        BY <1>1, <1>2, <3>1, <3>2
      <4> QED
        BY <4>1 DEF Elems
    <3>3. CASE ~(i <= Len(s))
      <4>1. i - Len(s) \in DOMAIN t /\ y = t[i - Len(s)]
        BY <1>1, <1>2, <3>1, <3>3
      <4> QED
        BY <4>1 DEF Elems
    <3> QED
      BY <3>2, <3>3
  <2>2. ASSUME NEW i \in DOMAIN s PROVE s[i] \in Elems(s \o t)
    <3>1. i \in DOMAIN (s \o t) /\ (s \o t)[i] = s[i]
      BY <1>1, <1>2, <1>3
    <3> QED
      BY <3>1 DEF Elems
  <2>3. ASSUME NEW i \in DOMAIN t PROVE t[i] \in Elems(s \o t)
    <3>1. i + Len(s) \in DOMAIN (s \o t) /\ (s \o t)[i + Len(s)] = t[i]
      BY <1>1, <1>2, <1>3
    <3> QED
      BY <3>1 DEF Elems
  <2> QED
    BY <2>1, <2>2, <2>3 DEF Elems
<1>5. Elems(Append(s, x)) = Elems(s) \cup {x}
  <2>1. /\ Append(s, x) \in Seq(S) /\ Len(Append(s, x)) = Len(s) + 1
        /\ \A i \in 1 .. Len(s) : Append(s, x)[i] = s[i]
        /\ Append(s, x)[Len(s) + 1] = x
    BY AppendProperties
  <2>2. DOMAIN Append(s, x) = 1 .. Len(s) + 1
    BY <2>1, LenProperties
  <2>3. \A i \in 1 .. Len(s) + 1 : i \in 1 .. Len(s) \/ i = Len(s) + 1
    BY <1>1
  <2>4. Len(s) + 1 \in 1 .. Len(s) + 1 /\ \A i \in 1 .. Len(s) : i \in 1 .. Len(s) + 1
    BY <1>1
  <2> QED
    BY <1>1, <2>1, <2>2, <2>3, <2>4 DEF Elems
<1> QED
  BY <1>4, <1>5

LEMMA RetagKeeps ==
  ASSUME NEW s \in Seq(AnyJob), s # <<>>, NEW n \in Nat
  PROVE  /\ DOMAIN Retag(s, n) = DOMAIN s
         /\ \A i \in DOMAIN s : Retag(s, n)[i].dir = s[i].dir /\ Retag(s, n)[i].data = s[i].data
<1>1. Head(s) \in AnyJob /\ Head(s) = s[1] /\ Len(s) \in Nat \ {0} /\ DOMAIN s = 1 .. Len(s)
  BY JobFacts
<1>2. /\ Retag(s, n) \in Seq(AnyJob) /\ Len(Retag(s, n)) = Len(s) /\ Retag(s, n) # <<>>
      /\ Head(Retag(s, n)) = [Head(s) EXCEPT !.seq = n]
      /\ \A i \in 2 .. Len(s) : Retag(s, n)[i] = s[i]
  BY RetagFacts
<1>3. Head(Retag(s, n)) = Retag(s, n)[1] /\ DOMAIN Retag(s, n) = 1 .. Len(s)
  BY <1>2, JobFacts
<1>4. Retag(s, n)[1].dir = s[1].dir /\ Retag(s, n)[1].data = s[1].data
  BY <1>1, <1>2, <1>3 DEF AnyJob
<1>5. \A i \in 1 .. Len(s) : i = 1 \/ i \in 2 .. Len(s)
  BY <1>1
<1> QED
  BY <1>1, <1>2, <1>3, <1>4, <1>5

LEMMA UnitsFacts ==
  ASSUME NEW s \in Seq(AnyJob), s # <<>>
  PROVE  /\ UnitsIn(s) = UnitsIn(Tail(s)) \cup (IF Head(s).dir = "stdout" THEN Elems(Head(s).data) ELSE {})
         /\ \A n \in Nat : UnitsIn(Retag(s, n)) = UnitsIn(s)
<1>1. /\ Head(s) \in AnyJob /\ Head(s) = s[1] /\ Tail(s) \in Seq(AnyJob)
      /\ Len(s) \in Nat \ {0} /\ DOMAIN s = 1 .. Len(s)
      /\ Len(Tail(s)) = Len(s) - 1 /\ \A i \in 1 .. Len(s) - 1 : Tail(s)[i] = s[i + 1]
  BY JobFacts
<1>2. DOMAIN Tail(s) = 1 .. Len(s) - 1
  BY <1>1, LenProperties
<1>3. UnitsIn(s) = UnitsIn(Tail(s)) \cup (IF Head(s).dir = "stdout" THEN Elems(Head(s).data) ELSE {})
  <2>1. ASSUME NEW u \in UnitsIn(s)
        PROVE  u \in UnitsIn(Tail(s)) \/ (Head(s).dir = "stdout" /\ u \in Elems(Head(s).data))
    <3>1. PICK i \in DOMAIN s : s[i].dir = "stdout" /\ u \in Elems(s[i].data)
      BY DEF UnitsIn
    <3>2. CASE i = 1
      BY <1>1, <3>1, <3>2
    <3>3. CASE i # 1
      <4>1. i - 1 \in DOMAIN Tail(s) /\ Tail(s)[i - 1] = s[i]
        BY <1>1, <1>2, <3>3
      <4> QED
        BY <3>1, <4>1 DEF UnitsIn
    <3> QED
      BY <3>2, <3>3
  <2>2. ASSUME NEW u \in UnitsIn(Tail(s)) PROVE u \in UnitsIn(s)
    <3>1. PICK i \in DOMAIN Tail(s) : Tail(s)[i].dir = "stdout" /\ u \in Elems(Tail(s)[i].data)
      BY DEF UnitsIn
    <3>2. i + 1 \in DOMAIN s /\ s[i + 1] = Tail(s)[i]
      BY <1>1, <1>2
    <3> QED
      BY <3>1, <3>2 DEF UnitsIn
  <2>3. Head(s).dir = "stdout" => Elems(Head(s).data) \subseteq UnitsIn(s)
    BY <1>1 DEF UnitsIn
  <2> QED
    BY <2>1, <2>2, <2>3
<1>4. \A n \in Nat : UnitsIn(Retag(s, n)) = UnitsIn(s)
  BY RetagKeeps DEF UnitsIn
<1> QED
  BY <1>3, <1>4

LEMMA HeldHas ==
  ASSUME NEW b, NEW j, NEW u
  PROVE  u \in Held(b, j) <=> \/ \E a \in Aggs : a[2] = "stdout" /\ u \in Elems(b[a])
                              \/ \E w \in Aggs : u \in UnitsIn(j[w])
BY DEF Held

\* One aggregator's share of it.
Share(b, j, a) == (IF a[2] = "stdout" THEN Elems(b[a]) ELSE {}) \cup UnitsIn(j[a])

\* ... and what it gains, with buffers b and jobs i before, c and j after.
Gains(a, b, i, c, j, D) ==
  /\ \A x \in Aggs \ {a} : Share(c, j, x) = Share(b, i, x)
  /\ Share(c, j, a) = Share(b, i, a) \cup D

LEMMA OneShare ==
  ASSUME NEW b, NEW c, NEW i, NEW j, NEW D, NEW a \in Aggs, Gains(a, b, i, c, j, D)
  PROVE  Held(c, j) = Held(b, i) \cup D
<1>1. \A u : u \in Held(b, i) <=> \E x \in Aggs : u \in Share(b, i, x)
  BY HeldHas DEF Share
<1>2. \A u : u \in Held(c, j) <=> \E x \in Aggs : u \in Share(c, j, x)
  BY HeldHas DEF Share
<1> HIDE DEF Share
<1>3. \A u : u \in Held(c, j) <=> u \in Held(b, i) \cup D
  <2> TAKE u
  <2>1. u \in Held(c, j) => u \in Held(b, i) \cup D
    BY <1>1, <1>2 DEF Gains
  <2>2. u \in Held(b, i) \cup D => u \in Held(c, j)
    BY <1>1, <1>2 DEF Gains
  <2> QED
    BY <2>1, <2>2
<1> QED
  BY <1>3

LEMMA Sides ==
  /\ OutputAccountedFor <=> 1 .. out = DataOf(rows) \cup Held(buf, jobs) \cup crashed \cup DataOf(lost)
  /\ OutputAccountedFor' <=> 1 .. out' = DataOf(rows') \cup Held(buf', jobs') \cup crashed' \cup DataOf(lost')
<1>1. InMemory = Held(buf, jobs) /\ InMemory' = Held(buf', jobs')
  BY DEF InMemory, Held, UnitsIn
<1>2. Persisted = DataOf(rows) /\ Dropped = DataOf(lost) /\ Persisted' = DataOf(rows') /\ Dropped' = DataOf(lost')
  BY DEF Persisted, Dropped, DataOf
<1> QED
  BY <1>1, <1>2 DEF OutputAccountedFor

\* Steps that move no output, and steps of writers that only touch other data.
LEMMA Still ==
  ASSUME LossInv, AccountInv, UNCHANGED <<out, rows, lost, crashed>>, Backed',
         \A a \in Aggs : a[2] = "stdout" => Elems(buf'[a]) = Elems(buf[a]),
         \A w \in Aggs : UnitsIn(jobs'[w]) = UnitsIn(jobs[w])
  PROVE  AccountInv'
<1>1. Held(buf', jobs') = Held(buf, jobs)
  <2>1. \A u : u \in Held(buf', jobs') <=> u \in Held(buf, jobs)
    BY HeldHas
  <2> QED
    BY <2>1
<1> QED
  BY <1>1, Sides DEF AccountInv

LEMMA BackedStays ==
  ASSUME Backed, UNCHANGED <<rows, jobs, wgen>>, \A w \in Writers : stage'[w] = "notify" => stage[w] = "notify"
  PROVE  Backed'
BY DEF Backed, RowOf

LEMMA QuietSteps ==
  ASSUME LossInv, AccountInv,
         Resize \/ CloseLog \/ CloseStep \/ Restart \/ InputRegister \/ InputState \/ InputAgg
           \/ (\E a \in Aggs : AggExit(a)) \/ (\E f \in Flushers : FlushRegister(f))
  PROVE  AccountInv'
<1>1. UNCHANGED <<rows, jobs, wgen, buf, out, lost, crashed>>
  BY DEF Resize, CloseLog, CloseStep, CopyAggs, CloseDone, StopAgg, Restart, Register, InputRegister, InputState,
         InputAgg, AggExit, FlushRegister, stateVars, jobVars, ioVars, lossVars
<1>2. \A w \in Writers : stage'[w] = "notify" => stage[w] = "notify"
  BY DEF Resize, CloseLog, CloseStep, CopyAggs, CloseDone, StopAgg, Restart, InputRegister, InputState,
         InputAgg, AggExit, FlushRegister, jobVars, LossInv, Shape, RowTypes
<1>3. Backed'
  BY <1>1, <1>2, BackedStays DEF AccountInv
<1> QED
  BY <1>1, <1>3, Still

LEMMA PtyAccount == ASSUME LossInv, AccountInv, PtyOutput PROVE AccountInv'
<1>1. Types /\ Backed
  BY DEF LossInv, Shape, AccountInv
<1>2. /\ UNCHANGED <<rows, jobs, stage, wgen, lost, crashed>>
      /\ out' = out + 1 /\ out \in Nat
      /\ buf' = [buf EXCEPT ![<<cur, "stdout">>] = Append(@, out + 1)]
  BY <1>1 DEF PtyOutput, jobVars, lossVars, Types, IoTypes
<1>3. PICK a \in Aggs : a = <<cur, "stdout">> /\ a[2] = "stdout"
  <2>1. cur \in Gens
    BY <1>1 DEF PtyOutput, Types, GenTypes, Gens
  <2> QED
    BY <2>1, AggOf DEF Dirs
<1>4. buf \in [Aggs -> Seq(Nat)] /\ buf[a] \in Seq(Nat) /\ out + 1 \in Nat
  BY <1>1, <1>2 DEF Types, AggTypes
<1>5. /\ Elems(buf'[a]) = Elems(buf[a]) \cup {out + 1}
      /\ \A b \in Aggs \ {a} : buf'[b] = buf[b]
  <2>1. buf' = [buf EXCEPT ![a] = Append(@, out + 1)]
    BY <1>2, <1>3
  <2>2. buf'[a] = Append(buf[a], out + 1) /\ \A b \in Aggs \ {a} : buf'[b] = buf[b]
    BY <1>4, <2>1
  <2>3. Elems(Append(buf[a], out + 1)) = Elems(buf[a]) \cup {out + 1}
    <3>1. <<>> \in Seq(Nat)
      BY EmptySeq
    <3> QED
      BY <1>4, <3>1, ElemsFacts
  <2> QED
    BY <2>2, <2>3
<1>6. Held(buf', jobs') = Held(buf, jobs) \cup {out + 1}
  <2>1. \A x \in Aggs \ {a} : Share(buf', jobs', x) = Share(buf, jobs, x)
    BY <1>2, <1>5 DEF Share
  <2>2. Share(buf', jobs', a) = Share(buf, jobs, a) \cup {out + 1}
    BY <1>2, <1>3, <1>5 DEF Share
  <2>3. Gains(a, buf, jobs, buf', jobs', {out + 1})
    BY <2>1, <2>2 DEF Gains
  <2> QED
    BY <2>3, OneShare
<1>7. 1 .. out' = 1 .. out \cup {out + 1}
  BY <1>2
<1>8. Backed'
  BY <1>1, <1>2, BackedStays
<1> QED
  BY <1>2, <1>6, <1>7, <1>8, Sides DEF AccountInv

LEMMA InputAccount == ASSUME LossInv, AccountInv, InputSend PROVE AccountInv'
<1>1. UNCHANGED <<rows, jobs, stage, wgen, lost, crashed, out>>
  BY DEF InputSend, jobVars, lossVars
<1>2. \A b \in Aggs : b[2] = "stdout" => buf'[b] = buf[b]
  BY DEF InputSend, LossInv, Shape, Types, AggTypes
<1>3. Backed'
  BY <1>1, BackedStays DEF AccountInv
<1> QED
  BY <1>1, <1>2, <1>3, Still

\* What leaves the buffer is in the writer's jobs.
LEMMA FlushAccount == ASSUME LossInv, AccountInv, NEW a \in Aggs, BeginFlush(a) PROVE AccountInv'
<1>1. Types /\ RowTypes /\ WritersShape /\ Backed
  BY DEF LossInv, Shape, AccountInv
<1>2. /\ UNCHANGED <<rows, lost, crashed, out>> /\ stage[a] = "idle"
      /\ stage' = [stage EXCEPT ![a] = "alloc"] /\ wgen' = [wgen EXCEPT ![a] = a[1]]
  BY DEF BeginFlush, ioVars, lossVars
<1>3. PICK chunk \in Seq(Nat), rest \in Seq(Nat) : FlushOf(a, chunk, rest)
  BY <1>1, FlushFacts
<1>4. buf \in [Aggs -> Seq(Nat)] /\ jobs \in [Writers -> Seq(AnyJob)] /\ a \in Writers
  BY <1>1 DEF Types, AggTypes, RowTypes, Writers
<1>5. /\ Elems(buf[a]) = Elems(chunk) \cup Elems(buf'[a])
      /\ \A b \in Aggs \ {a} : buf'[b] = buf[b]
  <2>1. buf'[a] = rest /\ buf[a] = chunk \o rest /\ \A b \in Aggs \ {a} : buf'[b] = buf[b]
    BY <1>3, <1>4 DEF FlushOf
  <2>2. Elems(chunk \o rest) = Elems(chunk) \cup Elems(rest)
    <3>1. 0 \in Nat
      OBVIOUS
    <3> QED
      BY <3>1, ElemsFacts
  <2> QED
    BY <2>1, <2>2
<1>6. /\ UnitsIn(jobs'[a]) = IF a[2] = "stdout" THEN Elems(chunk) ELSE {}
      /\ \A w \in Writers \ {a} : jobs'[w] = jobs[w]
  <2>1. PICK y \in AnyJob : y = NewJob(a[2], chunk) /\ y.dir = a[2] /\ y.data = chunk
    <3>1. a[2] \in Dirs
      BY DEF Aggs
    <3>2. NewJob(a[2], chunk) \in AnyJob
      BY <3>1, NewJobType
    <3>3. NewJob(a[2], chunk).dir = a[2] /\ NewJob(a[2], chunk).data = chunk
      BY DEF NewJob
    <3> QED
      BY <3>2, <3>3
  <2>2. PICK x \in AnyJob \cup {0} : pending # None => x = NewJob("resize", <<pending>>) /\ x.dir = "resize"
                                                      /\ x \in AnyJob
    <3>1. CASE pending # None
      <4>1. <<pending>> \in Seq(Nat)
        BY <1>1, <3>1, LogBoundsAssumption DEF Types, GridTypes
      <4>2. NewJob("resize", <<pending>>) \in AnyJob
        BY <4>1, NewJobType
      <4>3. NewJob("resize", <<pending>>).dir = "resize"
        BY DEF NewJob
      <4> QED
        BY <4>2, <4>3
    <3>2. CASE pending = None
      BY <3>2
    <3> QED
      BY <3>1, <3>2
  <2>3. UnitsIn(<<y>>) = IF a[2] = "stdout" THEN Elems(chunk) ELSE {}
    <3>1. DOMAIN <<y>> = {1} /\ <<y>>[1] = y
      OBVIOUS
    <3> QED
      BY <2>1, <3>1 DEF UnitsIn
  <2>4. pending # None => UnitsIn(<<x, y>>) = UnitsIn(<<y>>)
    <3>1. DOMAIN <<x, y>> = {1, 2} /\ <<x, y>>[1] = x /\ <<x, y>>[2] = y /\ DOMAIN <<y>> = {1} /\ <<y>>[1] = y
      OBVIOUS
    <3> QED
      BY <2>2, <3>1 DEF UnitsIn
  <2> QED
    BY <1>3, <1>4, <2>1, <2>2, <2>3, <2>4 DEF FlushOf
<1>7. UnitsIn(jobs[a]) = {}
  <2>1. jobs[a] = <<>> /\ DOMAIN <<>> = {}
    BY <1>1, <1>2, <1>4 DEF WritersShape
  <2> QED
    BY <2>1 DEF UnitsIn
<1>8. Held(buf', jobs') = Held(buf, jobs)
  <2>1. \A w \in Aggs \ {a} : jobs'[w] = jobs[w]
    BY <1>6 DEF Writers
  <2>2. \A x \in Aggs \ {a} : Share(buf', jobs', x) = Share(buf, jobs, x)
    BY <1>5, <2>1 DEF Share
  <2>3. PICK D : D = {}
    OBVIOUS
  <2>4. Share(buf', jobs', a) = Share(buf, jobs, a) \cup D
    BY <1>5, <1>6, <1>7, <2>3 DEF Share
  <2>5. Gains(a, buf, jobs, buf', jobs', D)
    BY <2>2, <2>4 DEF Gains
  <2>6. Held(buf', jobs') = Held(buf, jobs) \cup D
    BY <2>5, OneShare
  <2> QED
    BY <2>3, <2>6
<1>9. Backed'
  <2>1. \A f \in Flushers : f \in Writers \ {a}
    BY WritersAssumption DEF Writers
  <2>2. \A w \in Writers : stage'[w] = "notify" => w # a /\ stage[w] = "notify"
    BY <1>1, <1>2, <1>4 DEF RowTypes
  <2>3. \A w \in Writers \ {a} : RowOf(w)' = RowOf(w)
    BY <1>1, <1>2, <1>6 DEF RowOf, RowTypes
  <2> QED
    BY <1>1, <1>2, <1>6, <2>1, <2>2, <2>3 DEF Backed
<1> QED
  BY <1>2, <1>8, <1>9, Sides DEF AccountInv

LEMMA FlusherAccount ==
  ASSUME LossInv, AccountInv, NEW f \in Flushers, FlushTake(f) \/ FlushGet(f)
  PROVE  AccountInv'
<1>1. Types /\ RowTypes /\ WritersShape /\ Backed
  BY DEF LossInv, Shape, AccountInv
<1>2. UNCHANGED <<rows, lost, crashed, out, buf>>
  BY DEF FlushTake, FlushGet, ioVars, lossVars, stateVars
<1>3. f \in Writers /\ f \notin Aggs
  BY WritersAssumption DEF Writers
<1>4. /\ \A w \in Writers \ {f} : jobs'[w] = jobs[w] /\ stage'[w] = stage[w] /\ wgen'[w] = wgen[w]
      /\ stage'[f] # "notify"
      /\ jobs'[f] \in {jobs[f], <<NewJob("resize", <<pending>>)>>, <<>>}
  BY <1>1, <1>3 DEF FlushTake, FlushGet, RowTypes
<1>5. \A i \in DOMAIN jobs'[f] : jobs'[f][i].dir = "resize"
  <2>1. DOMAIN <<NewJob("resize", <<pending>>)>> = {1} /\ <<NewJob("resize", <<pending>>)>>[1].dir = "resize"
    BY DEF NewJob
  <2>2. DOMAIN <<>> = {}
    OBVIOUS
  <2> QED
    BY <1>1, <1>4, <2>1, <2>2 DEF Backed
<1>6. Backed'
  <2>1. \A w \in Writers \ {f} : RowOf(w)' = RowOf(w)
    BY <1>4 DEF RowOf
  <2> QED
    BY <1>1, <1>2, <1>4, <1>5, <2>1 DEF Backed, Writers
<1>7. \A w \in Aggs : jobs'[w] = jobs[w]
  BY <1>3, <1>4 DEF Writers
<1> QED
  BY <1>2, <1>6, <1>7, Still

LEMMA AllocAccount == ASSUME LossInv, AccountInv, NEW w \in Writers, Alloc(w) PROVE AccountInv'
<1>1. Types /\ RowTypes /\ WritersShape /\ Backed
  BY DEF LossInv, Shape, AccountInv
<1>2. UNCHANGED <<rows, lost, crashed, out, buf, wgen>> /\ stage[w] = "alloc"
  BY DEF Alloc, ioVars, lossVars
<1>3. jobs[w] \in Seq(AnyJob) /\ jobs[w] # <<>> /\ wgen[w] \in Gens
  BY <1>1, <1>2, GensFacts DEF RowTypes, WritersShape, Busy
<1>4. PICK n \in Nat : n = seq[wgen[w]] + 1
  BY <1>1, <1>3 DEF Types, GenTypes
<1>5. /\ jobs'[w] = Retag(jobs[w], n)
      /\ \A v \in Writers \ {w} : jobs'[v] = jobs[v] /\ stage'[v] = stage[v]
      /\ stage'[w] = "insert"
  BY <1>1, <1>4 DEF Alloc, Retag, RowTypes
<1>6. UnitsIn(jobs'[w]) = UnitsIn(jobs[w])
  BY <1>3, <1>5, UnitsFacts
<1>7. DOMAIN jobs'[w] = DOMAIN jobs[w] /\ \A i \in DOMAIN jobs[w] : jobs'[w][i].dir = jobs[w][i].dir
  BY <1>3, <1>5, RetagKeeps
<1>8. Backed'
  <2>1. \A v \in Writers \ {w} : RowOf(v)' = RowOf(v)
    BY <1>2, <1>5 DEF RowOf
  <2> QED
    BY <1>1, <1>2, <1>5, <1>7, <2>1 DEF Backed, Writers
<1>9. \A v \in Aggs : UnitsIn(jobs'[v]) = UnitsIn(jobs[v])
  BY <1>5, <1>6 DEF Writers
<1> QED
  BY <1>2, <1>8, <1>9, Still

\* The head of a writer's jobs goes: it is in the table, or it is dropped.
LEMMA JobGone ==
  ASSUME LossInv, AccountInv, NEW w \in Writers, Busy(w), NextJob(w), UNCHANGED <<buf, out, crashed, rows>>,
         \/ lost' = lost /\ RowOf(w) \in rows
         \/ lost' = lost \cup {RowOf(w)}
  PROVE  AccountInv'
<1>1. Types /\ RowTypes /\ WritersShape /\ Backed
  BY DEF LossInv, Shape, AccountInv
<1>2. /\ jobs[w] \in Seq(AnyJob) /\ jobs[w] # <<>> /\ Tail(jobs[w]) \in Seq(AnyJob)
      /\ \A i \in DOMAIN Tail(jobs[w]) : i + 1 \in DOMAIN jobs[w] /\ Tail(jobs[w])[i] = jobs[w][i + 1]
  <2>1. jobs[w] \in Seq(AnyJob) /\ jobs[w] # <<>>
    BY <1>1, RowFacts
  <2>2. /\ Tail(jobs[w]) \in Seq(AnyJob) /\ Len(Tail(jobs[w])) = Len(jobs[w]) - 1
        /\ DOMAIN jobs[w] = 1 .. Len(jobs[w]) /\ Len(jobs[w]) \in Nat
        /\ \A i \in 1 .. Len(jobs[w]) - 1 : Tail(jobs[w])[i] = jobs[w][i + 1]
    BY <2>1, JobFacts
  <2>3. DOMAIN Tail(jobs[w]) = 1 .. Len(jobs[w]) - 1
    BY <2>2, LenProperties
  <2> QED
    BY <2>1, <2>2, <2>3
<1>3. /\ jobs'[w] = Tail(jobs[w]) /\ stage'[w] # "notify"
      /\ \A v \in Writers \ {w} : jobs'[v] = jobs[v] /\ stage'[v] = stage[v]
      /\ wgen' = wgen
  BY <1>1 DEF NextJob, RowTypes
<1>4. PICK D : D = IF RowOf(w).dir = "stdout" THEN Elems(RowOf(w).data) ELSE {}
  OBVIOUS
<1>5. UnitsIn(jobs[w]) = UnitsIn(jobs'[w]) \cup D
  BY <1>2, <1>3, <1>4, UnitsFacts DEF RowOf
<1>6. Backed'
  <2>1. \A v \in Writers \ {w} : RowOf(v)' = RowOf(v)
    BY <1>3 DEF RowOf
  <2>2. \A v \in Writers : stage'[v] = "notify" => RowOf(v)' \in rows'
    BY <1>1, <1>3, <2>1 DEF Backed
  <2>3. ASSUME NEW f \in Flushers, NEW i \in DOMAIN jobs'[f] PROVE jobs'[f][i].dir = "resize"
    <3>1. CASE f = w
      <4>1. i \in DOMAIN Tail(jobs[w])
        BY <1>3, <2>3, <3>1
      <4>2. i + 1 \in DOMAIN jobs[w] /\ Tail(jobs[w])[i] = jobs[w][i + 1]
        BY <1>2, <4>1
      <4>3. jobs[w][i + 1].dir = "resize"
        BY <1>1, <2>3, <3>1, <4>2 DEF Backed
      <4> QED
        BY <1>3, <3>1, <4>2, <4>3
    <3>2. CASE f # w
      BY <1>1, <1>3, <2>3, <3>2 DEF Backed, Writers
    <3> QED
      BY <3>1, <3>2
  <2> QED
    BY <2>2, <2>3 DEF Backed
<1>7. w \notin Aggs => D = {}
  BY <1>1, <1>2, <1>4, JobFacts DEF Backed, Writers, RowOf
<1>8. \A u : u \in Held(buf, jobs) <=> u \in Held(buf', jobs') \/ u \in D
  <2>1. \A v \in Aggs \ {w} : jobs'[v] = jobs[v]
    BY <1>3 DEF Writers
  <2>2. CASE w \in Aggs
    BY <1>5, <2>1, <2>2, HeldHas
  <2>3. CASE w \notin Aggs
    BY <1>7, <2>1, <2>3, HeldHas
  <2> QED
    BY <2>2, <2>3
<1>9. D \subseteq DataOf(rows) \cup DataOf(lost')
      /\ DataOf(lost) \subseteq DataOf(lost') /\ DataOf(lost') \subseteq DataOf(lost) \cup D
  BY <1>4, DataFacts
<1> QED
  BY <1>6, <1>8, <1>9, Sides DEF AccountInv

LEMMA WriterAccount ==
  ASSUME LossInv, AccountInv, NEW w \in Writers, Insert(w) \/ Notify(w)
  PROVE  AccountInv'
<1>1. Types /\ RowTypes /\ WritersShape /\ Backed /\ Busy(w)
  BY DEF LossInv, Shape, AccountInv, Insert, Notify, Busy
<1>2. CASE Notify(w)
  <2>1. NextJob(w) /\ UNCHANGED <<buf, out, crashed, rows, lost>> /\ RowOf(w) \in rows
    BY <1>1, <1>2 DEF Notify, stateVars, ioVars, lossVars, Backed
  <2> QED
    BY <1>1, <2>1, JobGone
<1>3. CASE Insert(w) /\ \E r \in rows : r.seq = Head(jobs[w]).seq
  <2>1. NextJob(w) /\ UNCHANGED <<buf, out, crashed, rows>> /\ lost' = lost \cup {RowOf(w)}
    BY <1>3 DEF Insert, stateVars, ioVars
  <2> QED
    BY <1>1, <2>1, JobGone
<1>4. CASE Insert(w) /\ ~\E r \in rows : r.seq = Head(jobs[w]).seq
  <2>1. /\ UNCHANGED <<buf, out, crashed, lost, jobs, wgen>> /\ rows' = rows \cup {RowOf(w)}
        /\ stage' = [stage EXCEPT ![w] = "notify"]
    BY <1>4 DEF Insert, stateVars, ioVars
  <2>2. Backed'
    <3>1. \A v \in Writers : RowOf(v)' = RowOf(v)
      BY <2>1 DEF RowOf
    <3>2. \A v \in Writers : stage'[v] = "notify" => v = w \/ stage[v] = "notify"
      BY <1>1, <2>1 DEF RowTypes
    <3> QED
      BY <1>1, <2>1, <3>1, <3>2 DEF Backed
  <2>3. PICK D : D = IF RowOf(w).dir = "stdout" THEN Elems(RowOf(w).data) ELSE {}
    OBVIOUS
  <2>4. DataOf(rows') = DataOf(rows) \cup D
    BY <2>1, <2>3, DataFacts
  <2>5. jobs[w] \in Seq(AnyJob) /\ jobs[w] # <<>>
    BY <1>1, RowFacts
  <2>6. D \subseteq UnitsIn(jobs[w])
    BY <2>3, <2>5, UnitsFacts DEF RowOf
  <2>7. w \notin Aggs => D = {}
    BY <1>1, <2>3, <2>5, JobFacts DEF Backed, Writers, RowOf
  <2>8. D \subseteq Held(buf, jobs)
    BY <2>6, <2>7, HeldHas
  <2> QED
    BY <2>1, <2>2, <2>4, <2>8, Sides DEF AccountInv
<1> QED
  BY <1>2, <1>3, <1>4

LEMMA DieAccount == ASSUME LossInv, AccountInv, Crash \/ InputPanics PROVE AccountInv'
<1>1. /\ buf' = [a \in Aggs |-> <<>>] /\ jobs' = [w \in Writers |-> <<>>]
      /\ stage' = [w \in Writers |-> "idle"]
      /\ crashed' = crashed \cup InMemory
      /\ UNCHANGED <<out, rows, lost>>
  BY DEF Crash, InputPanics, Die
<1>2. InMemory = Held(buf, jobs)
  BY DEF InMemory, Held, UnitsIn
<1>3. \A u : u \notin Held(buf', jobs')
  <2>1. DOMAIN <<>> = {} /\ Elems(<<>>) = {} /\ UnitsIn(<<>>) = {}
    BY DEF Elems, UnitsIn
  <2>2. \A w \in Aggs : buf'[w] = <<>> /\ jobs'[w] = <<>>
    BY <1>1 DEF Writers
  <2> QED
    BY <2>1, <2>2, HeldHas
<1>4. Backed'
  BY <1>1 DEF Backed, Writers
<1> QED
  BY <1>1, <1>2, <1>3, <1>4, Sides DEF AccountInv

LEMMA InitAccount == LogInit => AccountInv
<1> SUFFICES ASSUME LogInit PROVE AccountInv
  OBVIOUS
<1>1. DOMAIN <<>> = {} /\ Elems(<<>>) = {} /\ UnitsIn(<<>>) = {} /\ DataOf({}) = {}
  BY DEF Elems, UnitsIn, DataOf
<1>2. \A w \in Aggs : buf[w] = <<>> /\ jobs[w] = <<>>
  BY DEF LogInit, Writers
<1>3. \A u : u \notin Held(buf, jobs)
  BY <1>1, <1>2, HeldHas
<1>4. 1 .. out = {}
  BY DEF LogInit
<1>5. Backed
  BY DEF LogInit, Backed, Writers
<1> QED
  BY <1>1, <1>3, <1>4, <1>5, Sides DEF LogInit, AccountInv

LEMMA NextAccount == LossInv /\ AccountInv /\ [LogNext]_logVars => AccountInv'
<1> SUFFICES ASSUME LossInv, AccountInv, [LogNext]_logVars PROVE AccountInv'
  OBVIOUS
<1>1. CASE SessionStep
  BY <1>1, PtyAccount, QuietSteps DEF SessionStep
<1>2. CASE CloseStep
  BY <1>2, QuietSteps
<1>3. CASE InputStep
  BY <1>3, InputAccount, QuietSteps DEF InputStep
<1>4. CASE Crash \/ InputPanics
  BY <1>4, DieAccount
<1>5. CASE \E a \in Aggs : AggStep(a)
  BY <1>5, FlushAccount, QuietSteps DEF AggStep
<1>6. CASE \E f \in Flushers : FlushTake(f) \/ FlusherStep(f)
  BY <1>6, FlusherAccount, QuietSteps DEF FlusherStep
<1>7. CASE \E w \in Writers : Alloc(w) \/ Insert(w) \/ Notify(w)
  BY <1>7, AllocAccount, WriterAccount
<1>8. CASE UNCHANGED logVars
  <2>1. UNCHANGED <<rows, jobs, stage, wgen, buf, out, lost, crashed>>
    BY <1>8 DEF logVars, stateVars, jobVars, ioVars, lossVars
  <2>2. Backed'
    BY <2>1, BackedStays DEF AccountInv
  <2> QED
    BY <2>1, <2>2, Still
<1> QED
  BY <1>1, <1>2, <1>3, <1>4, <1>5, <1>6, <1>7, <1>8 DEF LogNext

LEMMA AccountAlways == LogSpec => []AccountInv
<1> QED
  BY InitAccount, NextAccount, LossAlways, PTL DEF LogSpec

\* Every unit the PTY produced is in the log, on its way there in memory, gone
\* with a crash, or in a chunk whose insert failed: no flush, stop or restart
\* makes output vanish on its own.
THEOREM OutputIsAccountedFor == ReplaySpec => []OutputAccountedFor
<1>1. AccountInv => OutputAccountedFor
  BY DEF AccountInv
<1> QED
  BY <1>1, AccountAlways, ReplayUsesTheLog, PTL
-----------------------------------------------------------------------------
\* The aggregators of output, and what they flush.
Outs == {a \in Aggs : a[2] = "stdout"}
OutDirs == {"stdout", "resize"}
Before(S, T) == \A x \in S, y \in T : x < y

\* What a flush of an aggregator is going to take, and the last number given out.
Waiting(a, d) == IF d = "stdout" THEN Elems(buf[a]) ELSE IF pending = None THEN {} ELSE {pending}
Top(d) == IF d = "stdout" THEN out ELSE grid

\* The jobs of a writer that are not in the table.
Left(w) == {i \in DOMAIN jobs[w] : i > 1 \/ stage[w] # "notify"}

\* A flush is a marker, if there is one, and a chunk; only a flush of output
\* makes chunks of output, and their rows say whose they are.
JobsShape ==
  /\ \A a \in Outs : \A i \in DOMAIN jobs[a] :
       /\ jobs[a][i].dir \in OutDirs
       /\ jobs[a][i].dir = "stdout" => i = Len(jobs[a])
       /\ jobs[a][i].dir = "resize" => i = 1 /\ 1 \in DOMAIN jobs[a][i].data
  /\ \A w \in Writers \ Outs : \A i \in DOMAIN jobs[w] :
       jobs[w][i].dir = IF w \in Flushers THEN "resize" ELSE "stdin"
RowsShape ==
  \A r \in rows :
    /\ r.dir = "stdout" => r.by \in Outs
    /\ r.dir = "resize" => r.by \in Outs \cup Flushers
    /\ r.by \in Outs => /\ r.by[1] = r.gen /\ r.dir \in OutDirs
                        /\ r.dir = "resize" => 1 \in DOMAIN r.data

\* Output and grids are numbered upwards, and flushed from below.
BufShape == \A a \in Outs : \A i, j \in DOMAIN buf[a] : i < j => buf[a][i] < buf[a][j]
Capped ==
  /\ \A a \in Outs, d \in OutDirs : \A x \in Waiting(a, d) : x <= Top(d)
  /\ \A a \in Outs, d \in OutDirs : \A i \in DOMAIN jobs[a] :
       jobs[a][i].dir = d => \A x \in Elems(jobs[a][i].data) : x <= Top(d)
  /\ \A r \in rows, d \in OutDirs : r.by \in Outs /\ r.dir = d => \A x \in Elems(r.data) : x <= Top(d)
Queued ==
  \A a \in Outs, d \in OutDirs : \A i \in DOMAIN jobs[a] :
    jobs[a][i].dir = d => Before(Elems(jobs[a][i].data), Waiting(a, d))

\* Without an overlap what is in the table is older than what is not.
RowsFirst ==
  ~overlap => \A r \in rows, a \in Outs, d \in OutDirs : r.by \in Outs /\ r.dir = d =>
    /\ Before(Elems(r.data), Waiting(a, d))
    /\ \A i \in Left(a) : jobs[a][i].dir = d => Before(Elems(r.data), Elems(jobs[a][i].data))

OrderInv == JobsShape /\ RowsShape /\ BufShape /\ Capped /\ Queued /\ RowsFirst /\ LogInOrder

LEMMA OutsFacts ==
  ASSUME NEW a \in Outs
  PROVE  a \in Aggs /\ a \in Writers /\ a \notin Flushers /\ a[1] \in Gens /\ a = <<a[1], "stdout">>
BY WritersAssumption DEF Outs, Writers, Aggs

LEMMA ElemsNat == ASSUME NEW s \in Seq(Nat) PROVE Elems(s) \subseteq Nat /\ (1 \in DOMAIN s => s[1] \in Elems(s))
<1>1. s \in [1 .. Len(s) -> Nat] /\ DOMAIN s = 1 .. Len(s)
  BY LenProperties
<1> QED
  BY <1>1 DEF Elems

LEMMA OrderTypes ==
  ASSUME Types, RowTypes
  PROVE  /\ out \in Nat /\ grid \in Nat /\ \A d \in OutDirs : Top(d) \in Nat
         /\ \A a \in Outs, d \in OutDirs : Waiting(a, d) \subseteq Nat
         /\ \A w \in Writers : \A i \in DOMAIN jobs[w] : Elems(jobs[w][i].data) \subseteq Nat
         /\ \A r \in rows : Elems(r.data) \subseteq Nat /\ r.seq \in Nat
<1>1. out \in Nat /\ grid \in Nat /\ \A d \in OutDirs : Top(d) \in Nat
  BY LogBoundsAssumption DEF Types, IoTypes, GridTypes, Top
<1>2. \A a \in Outs, d \in OutDirs : Waiting(a, d) \subseteq Nat
  <2> SUFFICES ASSUME NEW a \in Outs PROVE Elems(buf[a]) \subseteq Nat /\ (pending # None => pending \in Nat)
    BY DEF Waiting
  <2>1. buf[a] \in Seq(Nat)
    BY OutsFacts DEF Types, AggTypes
  <2> QED
    BY <2>1, ElemsNat, LogBoundsAssumption DEF Types, GridTypes
<1>3. ASSUME NEW w \in Writers, NEW i \in DOMAIN jobs[w] PROVE Elems(jobs[w][i].data) \subseteq Nat
  <2>1. jobs[w] \in Seq(AnyJob) /\ jobs[w] \in [1 .. Len(jobs[w]) -> AnyJob]
    BY LenProperties DEF RowTypes
  <2>2. jobs[w][i].data \in Seq(Nat)
    BY <1>3, <2>1 DEF AnyJob
  <2> QED
    BY <2>2, ElemsNat
<1>4. \A r \in rows : Elems(r.data) \subseteq Nat /\ r.seq \in Nat
  BY ElemsNat DEF RowTypes, AnyRow
<1> QED
  BY <1>1, <1>2, <1>3, <1>4

\* A job that was there before the step, and one that a flush has just made.
Kept(a, i) ==
  \E k \in DOMAIN jobs[a] : /\ jobs'[a][i].dir = jobs[a][k].dir /\ jobs'[a][i].data = jobs[a][k].data
                            /\ i \in Left(a)' => k \in Left(a)
Made(a, i) ==
  \E d \in OutDirs : /\ jobs'[a][i].dir = d
                     /\ Elems(jobs'[a][i].data) \subseteq Waiting(a, d)
                     /\ Before(Elems(jobs'[a][i].data), Waiting(a, d)')

\* Steps that add no row: new output and new grids come on top, and a flush
\* takes what is waiting.
LEMMA OrderMoves ==
  ASSUME LossInv, LossInv', OrderInv, JobsShape', BufShape', UNCHANGED rows, overlap => overlap',
         out <= out', grid <= grid',
         \A a \in Outs, d \in OutDirs : \A x \in Waiting(a, d)' :
           x \in Waiting(a, d) \/ (x > Top(d) /\ x <= Top(d)'),
         \A a \in Outs : \A i \in DOMAIN jobs'[a] : Kept(a, i) \/ Made(a, i)
  PROVE  OrderInv'
<1>1. RowsShape /\ Capped /\ Queued /\ RowsFirst /\ LogInOrder /\ JobsShape
  BY DEF OrderInv
<1>2. /\ \A d \in OutDirs : Top(d) \in Nat
      /\ \A a \in Outs, d \in OutDirs : Waiting(a, d) \subseteq Nat
      /\ \A w \in Writers : \A i \in DOMAIN jobs[w] : Elems(jobs[w][i].data) \subseteq Nat
      /\ \A r \in rows : Elems(r.data) \subseteq Nat
  BY OrderTypes DEF LossInv, Shape
<1>3. /\ \A d \in OutDirs : Top(d)' \in Nat /\ Top(d) <= Top(d)'
      /\ \A a \in Outs, d \in OutDirs : Waiting(a, d)' \subseteq Nat
  <2>1. out \in Nat /\ grid \in Nat /\ out' \in Nat /\ grid' \in Nat
    BY LogBoundsAssumption DEF LossInv, Shape, Types, IoTypes, GridTypes
  <2>2. \A a \in Outs : buf'[a] \in Seq(Nat) /\ (pending' # None => pending' \in Nat)
    BY OutsFacts, LogBoundsAssumption DEF LossInv, Shape, Types, AggTypes, GridTypes
  <2>3. \A a \in Outs : Elems(buf'[a]) \subseteq Nat
    BY <2>2, ElemsNat
  <2> QED
    BY <2>1, <2>2, <2>3 DEF Top, Waiting
<1>4. \A a \in Outs : a \in Writers
  BY OutsFacts
<1>5. ASSUME NEW a \in Outs, NEW i \in DOMAIN jobs'[a], Kept(a, i)
      PROVE  \E k \in DOMAIN jobs[a] : /\ jobs'[a][i].dir = jobs[a][k].dir /\ jobs'[a][i].data = jobs[a][k].data
                                       /\ jobs[a][k].dir \in OutDirs /\ (i \in Left(a)' => k \in Left(a))
                                       /\ Elems(jobs[a][k].data) \subseteq Nat
  BY <1>1, <1>2, <1>4, <1>5 DEF Kept, JobsShape
<1>6. Capped'
  <2>1. ASSUME NEW a \in Outs, NEW d \in OutDirs, NEW x \in Waiting(a, d)' PROVE x <= Top(d)'
    <3>1. CASE x \in Waiting(a, d)
      <4>1. x \in Nat /\ x <= Top(d)
        BY <1>1, <1>2, <3>1 DEF Capped
      <4> QED
        BY <1>2, <1>3, <4>1
    <3> QED
      BY <2>1, <3>1
  <2>2. ASSUME NEW a \in Outs, NEW d \in OutDirs, NEW i \in DOMAIN jobs'[a], jobs'[a][i].dir = d,
               NEW x \in Elems(jobs'[a][i].data)
        PROVE  x <= Top(d)'
    <3>1. x \in Nat /\ x <= Top(d)
      <4>1. CASE Kept(a, i)
        BY <1>1, <1>5, <2>2, <4>1 DEF Capped
      <4>2. CASE Made(a, i)
        BY <1>1, <1>2, <2>2, <4>2 DEF Capped, Made
      <4> QED
        BY <2>2, <4>1, <4>2
    <3> QED
      BY <1>2, <1>3, <3>1
  <2>3. ASSUME NEW r \in rows, NEW d \in OutDirs, r.by \in Outs, r.dir = d, NEW x \in Elems(r.data)
        PROVE  x <= Top(d)'
    <3>1. x \in Nat /\ x <= Top(d)
      BY <1>1, <1>2, <2>3 DEF Capped
    <3> QED
      BY <1>2, <1>3, <3>1
  <2> QED
    BY <2>1, <2>2, <2>3 DEF Capped
<1>7. Queued'
  <2> SUFFICES ASSUME NEW a \in Outs, NEW d \in OutDirs, NEW i \in DOMAIN jobs'[a], jobs'[a][i].dir = d
      PROVE  Before(Elems(jobs'[a][i].data), Waiting(a, d)')
    BY DEF Queued, Before
  <2>1. CASE Kept(a, i)
    <3>1. PICK k \in DOMAIN jobs[a] : /\ d = jobs[a][k].dir /\ jobs'[a][i].data = jobs[a][k].data
                                      /\ Elems(jobs[a][k].data) \subseteq Nat
      BY <1>5, <2>1
    <3>2. ASSUME NEW x \in Elems(jobs[a][k].data), NEW y \in Waiting(a, d)' PROVE x < y
      <4>1. x \in Nat /\ y \in Nat /\ Top(d) \in Nat
        BY <1>2, <1>3, <3>1, <3>2
      <4>2. x <= Top(d)
        BY <1>1, <3>1, <3>2 DEF Capped
      <4>3. CASE y \in Waiting(a, d)
        BY <1>1, <3>1, <3>2, <4>3 DEF Queued, Before
      <4>4. CASE y > Top(d)
        BY <4>1, <4>2, <4>4
      <4> QED
        BY <3>2, <4>3, <4>4
    <3> QED
      BY <3>1, <3>2 DEF Before
  <2> QED
    BY <2>1 DEF Made
<1>8. RowsFirst'
  <2> SUFFICES ASSUME ~overlap', NEW r \in rows, NEW a \in Outs, NEW d \in OutDirs, r.by \in Outs, r.dir = d
      PROVE  /\ Before(Elems(r.data), Waiting(a, d)')
             /\ \A i \in Left(a)' : jobs'[a][i].dir = d => Before(Elems(r.data), Elems(jobs'[a][i].data))
    BY DEF RowsFirst, Before
  <2>1. /\ Before(Elems(r.data), Waiting(a, d))
        /\ \A i \in Left(a) : jobs[a][i].dir = d => Before(Elems(r.data), Elems(jobs[a][i].data))
    BY <1>1 DEF RowsFirst
  <2>2. Before(Elems(r.data), Waiting(a, d)')
    <3>1. ASSUME NEW x \in Elems(r.data), NEW y \in Waiting(a, d)' PROVE x < y
      <4>1. x \in Nat /\ y \in Nat /\ Top(d) \in Nat
        BY <1>2, <1>3, <3>1
      <4>2. x <= Top(d)
        BY <1>1, <3>1 DEF Capped
      <4>3. CASE y \in Waiting(a, d)
        BY <2>1, <3>1, <4>3 DEF Before
      <4>4. CASE y > Top(d)
        BY <4>1, <4>2, <4>4
      <4> QED
        BY <3>1, <4>3, <4>4
    <3> QED
      BY <3>1 DEF Before
  <2>3. ASSUME NEW i \in Left(a)', jobs'[a][i].dir = d PROVE Before(Elems(r.data), Elems(jobs'[a][i].data))
    <3>1. i \in DOMAIN jobs'[a]
      BY <2>3 DEF Left
    <3>2. CASE Kept(a, i)
      BY <1>5, <2>1, <2>3, <3>1, <3>2
    <3>3. CASE Made(a, i)
      BY <2>1, <2>3, <3>3 DEF Made, Before
    <3> QED
      BY <3>1, <3>2, <3>3
  <2> QED
    BY <2>2, <2>3
<1>9. RowsShape' /\ LogInOrder'
  BY <1>1 DEF RowsShape, LogInOrder
<1> QED
  BY <1>6, <1>7, <1>8, <1>9 DEF OrderInv

\* Steps that leave the jobs of the aggregators, and what is in the table.
LEMMA JobsStay ==
  ASSUME LossInv, LossInv', OrderInv, JobsShape', BufShape', UNCHANGED rows, overlap => overlap',
         out <= out', grid <= grid',
         \A a \in Outs : jobs'[a] = jobs[a] /\ (stage'[a] = "notify" <=> stage[a] = "notify"),
         \A a \in Outs, d \in OutDirs : \A x \in Waiting(a, d)' :
           x \in Waiting(a, d) \/ (x > Top(d) /\ x <= Top(d)')
  PROVE  OrderInv'
<1>1. \A a \in Outs : \A i \in DOMAIN jobs'[a] : Kept(a, i)
  BY DEF Kept, Left
<1> QED
  BY <1>1, OrderMoves

LEMMA Numbers == ASSUME LossInv PROVE out \in Nat /\ grid \in Nat
BY LogBoundsAssumption DEF LossInv, Shape, Types, IoTypes, GridTypes

\* Steps that make no output, take none and set no grid.
LEMMA QuietOrder ==
  ASSUME LossInv, LossInv', OrderInv,
         UNCHANGED <<rows, jobs, out, grid, pending>>, overlap => overlap',
         \A a \in Outs : buf'[a] = buf[a] /\ (stage'[a] = "notify" <=> stage[a] = "notify")
  PROVE  OrderInv'
<1>1. JobsShape' /\ BufShape'
  BY DEF OrderInv, JobsShape, BufShape
<1>2. \A a \in Outs, d \in OutDirs : Waiting(a, d)' = Waiting(a, d)
  BY DEF Waiting
<1>3. out <= out' /\ grid <= grid'
  BY Numbers
<1> QED
  BY <1>1, <1>2, <1>3, JobsStay

LEMMA QuietOrderSteps ==
  ASSUME LossInv, LossInv', OrderInv,
         CloseLog \/ CloseStep \/ InputStep \/ (\E a \in Aggs : AggExit(a)) \/ (\E f \in Flushers : FlushRegister(f))
           \/ UNCHANGED logVars
  PROVE  OrderInv'
<1>1. /\ UNCHANGED <<rows, jobs, out, grid, pending>>
      /\ \A a \in Outs : stage'[a] = "notify" <=> stage[a] = "notify"
  BY OutsFacts DEF CloseLog, CloseStep, CopyAggs, CloseDone, StopAgg, InputStep, InputRegister, InputState, InputAgg,
         InputSend, AggExit, FlushRegister, sessVars, jobVars, ioVars, lossVars, logVars, LossInv, Shape, RowTypes
<1>2. overlap => overlap'
  BY DEF CloseLog, CloseStep, CopyAggs, CloseDone, StopAgg, InputStep, InputRegister, Register, InputState, InputAgg,
         InputSend, AggExit, FlushRegister, stateVars, logVars
<1>3. \A a \in Outs : buf'[a] = buf[a]
  <2>1. CASE InputSend
    <3>1. \A a \in Outs : a \in Aggs /\ a # <<ipc.gen, "stdin">>
      BY DEF Outs
    <3> QED
      BY <2>1, <3>1 DEF InputSend, LossInv, Shape, Types, AggTypes
  <2>2. CASE UNCHANGED buf
    BY <2>2
  <2> QED
    BY <2>1, <2>2 DEF CloseLog, CloseStep, CopyAggs, CloseDone, StopAgg, InputStep, InputRegister, Register,
         InputState, InputAgg, AggExit, FlushRegister, stateVars, logVars
<1> QED
  BY <1>1, <1>2, <1>3, QuietOrder

LEMMA PtyOrder == ASSUME LossInv, LossInv', OrderInv, PtyOutput PROVE OrderInv'
<1>1. Types /\ JobsShape /\ BufShape /\ Capped /\ out \in Nat /\ grid \in Nat
  BY Numbers DEF LossInv, Shape, OrderInv
<1>2. /\ UNCHANGED <<rows, jobs, stage, pending, grid, overlap>> /\ out' = out + 1
      /\ buf' = [buf EXCEPT ![<<cur, "stdout">>] = Append(@, out + 1)]
  BY DEF PtyOutput, sessVars, jobVars
<1>3. PICK a \in Aggs : a = <<cur, "stdout">>
  <2>1. cur \in Gens
    BY <1>1 DEF PtyOutput, Types, GenTypes, Gens
  <2> QED
    BY <2>1, AggOf DEF Dirs
<1>4. PICK n \in Nat : n = out + 1
  BY <1>1
<1>5. /\ \A b \in Aggs \ {a} : buf'[b] = buf[b]
      /\ buf'[a] = Append(buf[a], n) /\ buf[a] \in Seq(Nat) /\ a \in Outs
  BY <1>1, <1>2, <1>3, <1>4 DEF Types, AggTypes, Outs
<1>6. Elems(buf'[a]) = Elems(buf[a]) \cup {n}
  <2>1. <<>> \in Seq(Nat)
    BY EmptySeq
  <2> QED
    BY <1>5, <2>1, ElemsFacts
<1>7. BufShape'
  <2> SUFFICES ASSUME NEW b \in Outs, NEW i \in DOMAIN buf'[b], NEW j \in DOMAIN buf'[b], i < j
      PROVE  buf'[b][i] < buf'[b][j]
    BY DEF BufShape
  <2>1. CASE b # a
    BY <1>1, <1>5, <2>1, OutsFacts DEF BufShape
  <2>2. CASE b = a
    <3>1. /\ Len(buf[a]) \in Nat /\ buf[a] \in [1 .. Len(buf[a]) -> Nat] /\ DOMAIN buf[a] = 1 .. Len(buf[a])
          /\ Append(buf[a], n) \in Seq(Nat) /\ Len(Append(buf[a], n)) = Len(buf[a]) + 1
          /\ \A k \in 1 .. Len(buf[a]) : Append(buf[a], n)[k] = buf[a][k]
          /\ Append(buf[a], n)[Len(buf[a]) + 1] = n
      BY <1>5, AppendProperties, LenProperties
    <3>2. DOMAIN Append(buf[a], n) = 1 .. Len(buf[a]) + 1
      BY <3>1, LenProperties
    <3>3. i \in 1 .. Len(buf[a]) + 1 /\ j \in 1 .. Len(buf[a]) + 1
      BY <1>5, <2>2, <3>2
    <3>4. CASE j \in 1 .. Len(buf[a])
      <4>1. i \in 1 .. Len(buf[a])
        BY <3>1, <3>3, <3>4
      <4> QED
        BY <1>1, <1>5, <2>2, <3>1, <3>4, <4>1 DEF BufShape
    <3>5. CASE j = Len(buf[a]) + 1
      <4>1. i \in 1 .. Len(buf[a])
        BY <3>1, <3>3, <3>5
      <4>2. buf[a][i] \in Elems(buf[a]) /\ buf[a][i] \in Nat
        BY <3>1, <4>1 DEF Elems
      <4>3. buf[a][i] <= out
        <5>1. buf[a][i] \in Waiting(a, "stdout") /\ Top("stdout") = out
          BY <4>2 DEF Waiting, Top
        <5> QED
          BY <1>1, <1>5, <5>1 DEF Capped, OutDirs
      <4>4. buf'[b][i] = buf[a][i] /\ buf'[b][j] = n
        BY <1>5, <2>2, <3>1, <3>5, <4>1
      <4> QED
        BY <1>1, <1>4, <4>2, <4>3, <4>4
    <3> QED
      BY <3>1, <3>3, <3>4, <3>5
  <2> QED
    BY <2>1, <2>2
<1>8. ASSUME NEW b \in Outs, NEW d \in OutDirs, NEW x \in Waiting(b, d)'
      PROVE  x \in Waiting(b, d) \/ (x > Top(d) /\ x <= Top(d)')
  <2>1. CASE d = "stdout" /\ b = a
    BY <1>1, <1>2, <1>4, <1>6, <1>8, <2>1 DEF Waiting, Top
  <2>2. CASE d # "stdout" \/ b # a
    BY <1>2, <1>5, <1>8, <2>2, OutsFacts DEF Waiting
  <2> QED
    BY <2>1, <2>2
<1>9. JobsShape' /\ out <= out' /\ grid <= grid'
  BY <1>1, <1>2 DEF JobsShape
<1> QED
  BY <1>2, <1>7, <1>8, <1>9, JobsStay

\* A new grid is larger than every one before it.
LEMMA GridOrder == ASSUME LossInv, LossInv', OrderInv, Resize \/ Restart PROVE OrderInv'
<1>1. JobsShape /\ BufShape /\ out \in Nat /\ grid \in Nat
  BY Numbers DEF OrderInv
<1>2. /\ UNCHANGED <<rows, jobs, stage, buf, out>> /\ grid' = grid + 1 /\ pending' = grid + 1
      /\ overlap => overlap'
  BY DEF Resize, Restart, Register, stateVars, jobVars, ioVars
<1>3. JobsShape' /\ BufShape' /\ out <= out' /\ grid <= grid'
  BY <1>1, <1>2 DEF JobsShape, BufShape
<1>4. ASSUME NEW b \in Outs, NEW d \in OutDirs, NEW x \in Waiting(b, d)'
      PROVE  x \in Waiting(b, d) \/ (x > Top(d) /\ x <= Top(d)')
  <2>1. CASE d = "stdout"
    BY <1>2, <1>4, <2>1 DEF Waiting
  <2>2. CASE d # "stdout"
    <3>1. x = grid + 1 /\ Top(d) = grid /\ Top(d)' = grid + 1
      BY <1>2, <1>4, <2>2 DEF Waiting, Top
    <3> QED
      BY <1>1, <3>1
  <2> QED
    BY <2>1, <2>2
<1> QED
  BY <1>2, <1>3, <1>4, JobsStay

LEMMA FlusherOrder ==
  ASSUME LossInv, LossInv', OrderInv, NEW f \in Flushers, FlushTake(f) \/ FlushGet(f)
  PROVE  OrderInv'
<1>1. RowTypes /\ JobsShape /\ BufShape /\ out \in Nat /\ grid \in Nat
  BY Numbers DEF OrderInv, LossInv, Shape
<1>2. UNCHANGED <<rows, buf, out, grid, overlap>> /\ pending' \in {pending, None}
  BY DEF FlushTake, FlushGet, sessVars, stateVars, ioVars
<1>3. f \in Writers /\ f \notin Aggs /\ f \notin Outs
  BY WritersAssumption DEF Writers, Outs
<1>4. /\ \A w \in Writers \ {f} : jobs'[w] = jobs[w] /\ stage'[w] = stage[w]
      /\ jobs'[f] \in {jobs[f], <<NewJob("resize", <<pending>>)>>, <<>>}
  BY <1>1, <1>3 DEF FlushTake, FlushGet, RowTypes
<1>5. \A i \in DOMAIN jobs'[f] : jobs'[f][i].dir = "resize"
  <2>1. DOMAIN <<NewJob("resize", <<pending>>)>> = {1} /\ <<NewJob("resize", <<pending>>)>>[1].dir = "resize"
    BY DEF NewJob
  <2>2. DOMAIN <<>> = {}
    OBVIOUS
  <2> QED
    BY <1>1, <1>3, <1>4, <2>1, <2>2 DEF JobsShape
<1>6. \A a \in Outs : a \in Writers \ {f}
  BY <1>3, OutsFacts
<1>7. JobsShape'
  BY <1>1, <1>4, <1>5, <1>6 DEF JobsShape
<1>8. \A a \in Outs, d \in OutDirs : Waiting(a, d)' \subseteq Waiting(a, d)
  BY <1>2 DEF Waiting
<1>9. BufShape' /\ out <= out' /\ grid <= grid'
  BY <1>1, <1>2 DEF BufShape
<1> QED
  BY <1>2, <1>4, <1>6, <1>7, <1>8, <1>9, JobsStay

LEMMA DieOrder == ASSUME LossInv, LossInv', OrderInv, Crash \/ InputPanics PROVE OrderInv'
<1>1. /\ buf' = [a \in Aggs |-> <<>>] /\ jobs' = [w \in Writers |-> <<>>] /\ pending' = None
      /\ UNCHANGED <<rows, out, grid, overlap>>
  BY DEF Crash, InputPanics, Die
<1>2. DOMAIN <<>> = {} /\ Elems(<<>>) = {}
  BY DEF Elems
<1>3. (\A a \in Outs : buf'[a] = <<>>) /\ \A w \in Writers : jobs'[w] = <<>>
  BY <1>1, OutsFacts
<1>4. \A a \in Outs, d \in OutDirs : Waiting(a, d)' = {}
  BY <1>1, <1>2, <1>3 DEF Waiting
<1>5. JobsShape' /\ BufShape' /\ \A a \in Outs : DOMAIN jobs'[a] = {}
  BY <1>2, <1>3, OutsFacts DEF JobsShape, BufShape
<1>6. out <= out' /\ grid <= grid'
  BY <1>1, Numbers
<1> QED
  BY <1>1, <1>4, <1>5, <1>6, OrderMoves

LEMMA AllocOrder == ASSUME LossInv, LossInv', OrderInv, NEW w \in Writers, Alloc(w) PROVE OrderInv'
<1>1. Types /\ RowTypes /\ WritersShape /\ JobsShape /\ BufShape
  BY DEF LossInv, Shape, OrderInv
<1>2. UNCHANGED <<rows, out, buf, pending, grid, overlap>> /\ stage[w] = "alloc"
  BY DEF Alloc, ioVars, sessVars
<1>3. jobs[w] \in Seq(AnyJob) /\ jobs[w] # <<>> /\ wgen[w] \in Gens
  BY <1>1, <1>2, GensFacts DEF RowTypes, WritersShape, Busy
<1>4. PICK n \in Nat : n = seq[wgen[w]] + 1
  BY <1>1, <1>3 DEF Types, GenTypes
<1>5. /\ jobs'[w] = Retag(jobs[w], n) /\ stage'[w] = "insert"
      /\ \A v \in Writers \ {w} : jobs'[v] = jobs[v] /\ stage'[v] = stage[v]
  BY <1>1, <1>4 DEF Alloc, Retag, RowTypes
<1>6. /\ DOMAIN jobs'[w] = DOMAIN jobs[w] /\ Len(jobs'[w]) = Len(jobs[w])
      /\ \A i \in DOMAIN jobs[w] : jobs'[w][i].dir = jobs[w][i].dir /\ jobs'[w][i].data = jobs[w][i].data
  BY <1>3, <1>5, RetagKeeps, RetagFacts
<1>7. \A v \in Writers : /\ DOMAIN jobs'[v] = DOMAIN jobs[v] /\ Len(jobs'[v]) = Len(jobs[v])
                         /\ \A i \in DOMAIN jobs[v] : jobs'[v][i].dir = jobs[v][i].dir
                                                      /\ jobs'[v][i].data = jobs[v][i].data
  BY <1>5, <1>6
<1>8. JobsShape' /\ BufShape'
  <2>1. \A a \in Outs : \A i \in DOMAIN jobs'[a] :
          /\ jobs'[a][i].dir \in OutDirs
          /\ jobs'[a][i].dir = "stdout" => i = Len(jobs'[a])
          /\ jobs'[a][i].dir = "resize" => i = 1 /\ 1 \in DOMAIN jobs'[a][i].data
    BY <1>1, <1>7, OutsFacts DEF JobsShape
  <2>2. \A v \in Writers \ Outs : \A i \in DOMAIN jobs'[v] :
          jobs'[v][i].dir = IF v \in Flushers THEN "resize" ELSE "stdin"
    BY <1>1, <1>7 DEF JobsShape
  <2> QED
    BY <1>1, <1>2, <2>1, <2>2 DEF JobsShape, BufShape
<1>9. \A a \in Outs : \A i \in DOMAIN jobs'[a] : Kept(a, i)
  <2>1. \A v \in Writers : stage[v] = "notify" => stage'[v] = "notify"
    BY <1>2, <1>5
  <2> QED
    BY <1>7, <2>1, OutsFacts DEF Kept, Left
<1>10. \A a \in Outs, d \in OutDirs : Waiting(a, d)' = Waiting(a, d)
  BY <1>2 DEF Waiting
<1>11. out <= out' /\ grid <= grid'
  BY <1>2, Numbers
<1> QED
  BY <1>2, <1>8, <1>9, <1>10, <1>11, OrderMoves

\* The first job of a writer goes.
LEMMA TailOrder ==
  ASSUME LossInv, LossInv', OrderInv, NEW w \in Writers, Busy(w), NextJob(w),
         UNCHANGED <<rows, out, buf, pending, grid, overlap>>
  PROVE  OrderInv'
<1>1. Types /\ RowTypes /\ WritersShape /\ JobsShape /\ BufShape
  BY DEF LossInv, Shape, OrderInv
<1>2. jobs[w] \in Seq(AnyJob) /\ jobs[w] # <<>>
  BY <1>1, RowFacts
<1>3. /\ Tail(jobs[w]) \in Seq(AnyJob) /\ Len(Tail(jobs[w])) = Len(jobs[w]) - 1
      /\ DOMAIN jobs[w] = 1 .. Len(jobs[w]) /\ Len(jobs[w]) \in Nat
      /\ \A i \in 1 .. Len(jobs[w]) - 1 : Tail(jobs[w])[i] = jobs[w][i + 1]
  BY <1>2, JobFacts
<1>4. DOMAIN Tail(jobs[w]) = 1 .. Len(jobs[w]) - 1
  BY <1>3, LenProperties
<1>5. /\ jobs'[w] = Tail(jobs[w]) /\ \A v \in Writers \ {w} : jobs'[v] = jobs[v] /\ stage'[v] = stage[v]
  BY <1>1 DEF NextJob, RowTypes
<1>6. \A i \in DOMAIN jobs'[w] : /\ i \in Nat \ {0} /\ i + 1 \in DOMAIN jobs[w] /\ jobs'[w][i] = jobs[w][i + 1]
                                 /\ (i + 1 = Len(jobs[w]) => i = Len(jobs'[w]))
  BY <1>3, <1>4, <1>5
<1>7. JobsShape'
  <2>1. ASSUME NEW a \in Outs, NEW i \in DOMAIN jobs'[a]
        PROVE  /\ jobs'[a][i].dir \in OutDirs
               /\ jobs'[a][i].dir = "stdout" => i = Len(jobs'[a])
               /\ jobs'[a][i].dir = "resize" => i = 1 /\ 1 \in DOMAIN jobs'[a][i].data
    <3>1. CASE a = w
      <4>1. /\ i \in Nat \ {0} /\ i + 1 \in DOMAIN jobs[a] /\ jobs'[a][i] = jobs[a][i + 1]
            /\ (i + 1 = Len(jobs[a]) => i = Len(jobs'[a]))
        BY <1>6, <2>1, <3>1
      <4>2. PICK k \in DOMAIN jobs[a] : k = i + 1 /\ k # 1
        BY <4>1
      <4>3. /\ jobs[a][k].dir \in OutDirs
            /\ jobs[a][k].dir = "stdout" => k = Len(jobs[a])
            /\ jobs[a][k].dir # "resize"
        BY <1>1, <4>2 DEF JobsShape
      <4> QED
        BY <3>1, <4>1, <4>2, <4>3
    <3>2. CASE a # w
      BY <1>1, <1>5, <2>1, <3>2, OutsFacts DEF JobsShape
    <3> QED
      BY <3>1, <3>2
  <2>2. ASSUME NEW v \in Writers \ Outs, NEW i \in DOMAIN jobs'[v]
        PROVE  jobs'[v][i].dir = IF v \in Flushers THEN "resize" ELSE "stdin"
    <3>1. CASE v = w
      BY <1>1, <1>6, <2>2, <3>1 DEF JobsShape
    <3>2. CASE v # w
      BY <1>1, <1>5, <2>2, <3>2 DEF JobsShape
    <3> QED
      BY <3>1, <3>2
  <2> QED
    BY <2>1, <2>2 DEF JobsShape
<1>8. ASSUME NEW a \in Outs, NEW i \in DOMAIN jobs'[a] PROVE Kept(a, i)
  <2>1. CASE a = w
    <3>1. i \in Nat \ {0} /\ i + 1 \in DOMAIN jobs[a] /\ jobs'[a][i] = jobs[a][i + 1]
      BY <1>6, <1>8, <2>1
    <3>2. i + 1 \in Left(a)
      BY <3>1 DEF Left
    <3> QED
      BY <3>1, <3>2 DEF Kept
  <2>2. CASE a # w
    <3>1. jobs'[a] = jobs[a] /\ stage'[a] = stage[a]
      BY <1>5, <2>2, OutsFacts
    <3> QED
      BY <1>8, <3>1 DEF Kept, Left
  <2> QED
    BY <2>1, <2>2
<1>9. \A a \in Outs, d \in OutDirs : Waiting(a, d)' = Waiting(a, d)
  BY DEF Waiting
<1>10. BufShape' /\ out <= out' /\ grid <= grid'
  BY <1>1, Numbers DEF BufShape
<1> QED
  BY <1>7, <1>8, <1>9, <1>10, OrderMoves

\* A flush of output takes the oldest of it, and the marker that is pending.
LEMMA FlushOrder == ASSUME LossInv, LossInv', OrderInv, NEW a \in Aggs, BeginFlush(a) PROVE OrderInv'
<1>1. Types /\ RowTypes /\ WritersShape /\ JobsShape /\ BufShape
  BY DEF LossInv, Shape, OrderInv
<1>2. /\ UNCHANGED <<rows, out, grid, overlap>> /\ stage[a] = "idle"
      /\ stage' = [stage EXCEPT ![a] = "alloc"]
      /\ pending' = IF a[2] = "stdout" THEN None ELSE pending
  BY DEF BeginFlush, ioVars
<1>3. PICK chunk \in Seq(Nat), rest \in Seq(Nat) : FlushOf(a, chunk, rest)
  BY <1>1, FlushFacts
<1>4. a \in Writers /\ a[2] \in Dirs /\ (a \in Outs <=> a[2] = "stdout") /\ a \notin Flushers
  BY WritersAssumption DEF Writers, Outs, Aggs
<1>5. /\ buf'[a] = rest /\ buf[a] = chunk \o rest
      /\ \A b \in Aggs \ {a} : buf'[b] = buf[b]
      /\ \A v \in Writers \ {a} : jobs'[v] = jobs[v] /\ stage'[v] = stage[v]
      /\ \/ /\ a[2] = "stdout" /\ pending # None
            /\ jobs'[a] = <<NewJob("resize", <<pending>>), NewJob(a[2], chunk)>>
         \/ /\ a[2] # "stdout" \/ pending = None
            /\ jobs'[a] = <<NewJob(a[2], chunk)>>
  BY <1>1, <1>2, <1>3, <1>4 DEF FlushOf, Types, AggTypes, RowTypes
<1>6. /\ Elems(buf[a]) = Elems(chunk) \cup Elems(rest)
      /\ a \in Outs => Before(Elems(chunk), Elems(rest))
      /\ a \in Outs => \A i, j \in DOMAIN rest : i < j => rest[i] < rest[j]
  <2>1. /\ Len(chunk) \in Nat /\ Len(rest) \in Nat /\ DOMAIN chunk = 1 .. Len(chunk) /\ DOMAIN rest = 1 .. Len(rest)
        /\ DOMAIN buf[a] = 1 .. Len(chunk) + Len(rest)
    <3>1. chunk \o rest \in Seq(Nat) /\ Len(chunk \o rest) = Len(chunk) + Len(rest)
      BY ConcatProperties
    <3> QED
      BY <1>5, <3>1, LenProperties
  <2>2. /\ \A i \in 1 .. Len(chunk) : buf[a][i] = chunk[i]
        /\ \A i \in 1 .. Len(rest) : buf[a][i + Len(chunk)] = rest[i]
    BY <1>5, <2>1, ConcatProperties
  <2>3. Elems(buf[a]) = Elems(chunk) \cup Elems(rest)
    <3>1. 0 \in Nat
      OBVIOUS
    <3> QED
      BY <1>5, <3>1, ElemsFacts
  <2>4. ASSUME a \in Outs, NEW x \in Elems(chunk), NEW y \in Elems(rest) PROVE x < y
    <3>1. PICK i \in 1 .. Len(chunk) : x = chunk[i]
      BY <2>1, <2>4 DEF Elems
    <3>2. PICK j \in 1 .. Len(rest) : y = rest[j]
      BY <2>1, <2>4 DEF Elems
    <3>3. PICK k \in DOMAIN buf[a] : k = j + Len(chunk) /\ i < k /\ i \in DOMAIN buf[a]
      BY <2>1
    <3>4. buf[a][i] < buf[a][k]
      BY <1>1, <2>4, <3>3 DEF BufShape
    <3> QED
      BY <2>2, <3>1, <3>2, <3>3, <3>4
  <2>5. ASSUME a \in Outs, NEW i \in DOMAIN rest, NEW j \in DOMAIN rest, i < j PROVE rest[i] < rest[j]
    <3>1. PICK k \in DOMAIN buf[a], l \in DOMAIN buf[a] : k = i + Len(chunk) /\ l = j + Len(chunk) /\ k < l
      BY <2>1, <2>5
    <3>2. buf[a][k] < buf[a][l]
      BY <1>1, <2>5, <3>1 DEF BufShape
    <3> QED
      BY <2>1, <2>2, <2>5, <3>1, <3>2
  <2> QED
    BY <2>3, <2>4, <2>5 DEF Before
<1>7. BufShape'
  <2> SUFFICES ASSUME NEW b \in Outs, NEW i \in DOMAIN buf'[b], NEW j \in DOMAIN buf'[b], i < j
      PROVE  buf'[b][i] < buf'[b][j]
    BY DEF BufShape
  <2>1. CASE b = a
    BY <1>5, <1>6, <2>1
  <2>2. CASE b # a
    BY <1>1, <1>5, <2>2, OutsFacts DEF BufShape
  <2> QED
    BY <2>1, <2>2
<1>8. PICK m \in {0, 1}, js \in Seq(AnyJob) :
        /\ js = jobs'[a] /\ Len(js) = m + 1 /\ DOMAIN js = 1 .. m + 1
        /\ js[m + 1].dir = a[2] /\ js[m + 1].data = chunk
        /\ m = 1 => /\ a[2] = "stdout" /\ pending # None /\ js[1].dir = "resize" /\ js[1].data = <<pending>>
  <2>1. NewJob(a[2], chunk) \in AnyJob /\ NewJob(a[2], chunk).dir = a[2] /\ NewJob(a[2], chunk).data = chunk
    <3>1. NewJob(a[2], chunk) \in AnyJob
      BY <1>4, NewJobType
    <3>2. NewJob(a[2], chunk).dir = a[2] /\ NewJob(a[2], chunk).data = chunk
      BY DEF NewJob
    <3> QED
      BY <3>1, <3>2
  <2>2. PICK y \in AnyJob : y = NewJob(a[2], chunk) /\ y.dir = a[2] /\ y.data = chunk
    BY <2>1
  <2>3. CASE a[2] = "stdout" /\ pending # None
    <3>1. <<pending>> \in Seq(Nat)
      BY <1>1, <2>3, LogBoundsAssumption DEF Types, GridTypes
    <3>2. NewJob("resize", <<pending>>) \in AnyJob
      BY <3>1, NewJobType
    <3>3. NewJob("resize", <<pending>>).dir = "resize" /\ NewJob("resize", <<pending>>).data = <<pending>>
      BY DEF NewJob
    <3>4. PICK x \in AnyJob : x = NewJob("resize", <<pending>>) /\ x.dir = "resize" /\ x.data = <<pending>>
      BY <3>2, <3>3
    <3>5. jobs'[a] = <<x, y>>
      BY <1>5, <2>2, <2>3, <3>4
    <3>6. /\ <<x, y>> \in Seq(AnyJob) /\ Len(<<x, y>>) = 1 + 1 /\ DOMAIN <<x, y>> = 1 .. 1 + 1
          /\ <<x, y>>[1 + 1] = y /\ <<x, y>>[1] = x
      OBVIOUS
    <3>7. \E js \in Seq(AnyJob) :
            /\ js = jobs'[a] /\ Len(js) = 1 + 1 /\ DOMAIN js = 1 .. 1 + 1
            /\ js[1 + 1].dir = a[2] /\ js[1 + 1].data = chunk
            /\ js[1].dir = "resize" /\ js[1].data = <<pending>>
      BY <2>2, <3>4, <3>5, <3>6
    <3> QED
      BY <2>3, <3>7
  <2>4. CASE ~(a[2] = "stdout" /\ pending # None)
    <3>1. jobs'[a] = <<y>>
      BY <1>5, <2>2, <2>4
    <3>2. /\ <<y>> \in Seq(AnyJob) /\ Len(<<y>>) = 0 + 1 /\ DOMAIN <<y>> = 1 .. 0 + 1 /\ <<y>>[0 + 1] = y
      OBVIOUS
    <3>3. \E js \in Seq(AnyJob) :
            /\ js = jobs'[a] /\ Len(js) = 0 + 1 /\ DOMAIN js = 1 .. 0 + 1
            /\ js[0 + 1].dir = a[2] /\ js[0 + 1].data = chunk
      BY <2>2, <3>1, <3>2
    <3> QED
      BY <3>3
  <2> QED
    BY <2>3, <2>4
<1>9. JobsShape'
  <2>1. ASSUME NEW b \in Outs, NEW i \in DOMAIN jobs'[b]
        PROVE  /\ jobs'[b][i].dir \in OutDirs
               /\ jobs'[b][i].dir = "stdout" => i = Len(jobs'[b])
               /\ jobs'[b][i].dir = "resize" => i = 1 /\ 1 \in DOMAIN jobs'[b][i].data
    <3>1. CASE b = a /\ i = m + 1
      BY <1>4, <1>8, <3>1 DEF OutDirs
    <3>2. CASE b = a /\ i # m + 1
      <4>1. m = 1 /\ i = 1
        BY <1>8, <2>1, <3>2
      <4>2. DOMAIN <<pending>> = {1}
        OBVIOUS
      <4> QED
        BY <1>8, <3>2, <4>1, <4>2 DEF OutDirs
    <3>3. CASE b # a
      BY <1>1, <1>5, <2>1, <3>3, OutsFacts DEF JobsShape
    <3> QED
      BY <3>1, <3>2, <3>3
  <2>2. ASSUME NEW v \in Writers \ Outs, NEW i \in DOMAIN jobs'[v]
        PROVE  jobs'[v][i].dir = IF v \in Flushers THEN "resize" ELSE "stdin"
    <3>1. CASE v = a
      <4>1. a[2] = "stdin" /\ m = 0 /\ i = m + 1
        BY <1>4, <1>8, <2>2, <3>1 DEF Dirs
      <4> QED
        BY <1>4, <1>8, <3>1, <4>1
    <3>2. CASE v # a
      BY <1>1, <1>5, <2>2, <3>2 DEF JobsShape
    <3> QED
      BY <3>1, <3>2
  <2> QED
    BY <2>1, <2>2 DEF JobsShape
<1>10. \A b \in Outs, d \in OutDirs : \A x \in Waiting(b, d)' : x \in Waiting(b, d)
  <2> SUFFICES ASSUME NEW b \in Outs, NEW d \in OutDirs, NEW x \in Waiting(b, d)' PROVE x \in Waiting(b, d)
    OBVIOUS
  <2>1. CASE d = "stdout" /\ b = a
    BY <1>5, <1>6, <2>1 DEF Waiting
  <2>2. CASE d = "stdout" /\ b # a
    BY <1>5, <2>2, OutsFacts DEF Waiting
  <2>3. CASE d # "stdout"
    BY <1>2, <2>3 DEF Waiting
  <2> QED
    BY <2>1, <2>2, <2>3
<1>11. ASSUME NEW b \in Outs, NEW i \in DOMAIN jobs'[b] PROVE Kept(b, i) \/ Made(b, i)
  <2>1. CASE b = a /\ i = m + 1
    <3>1. a[2] = "stdout" /\ jobs'[b][i].dir = "stdout" /\ jobs'[b][i].data = chunk
      BY <1>4, <1>8, <2>1
    <3>2. Waiting(b, "stdout") = Elems(buf[a]) /\ Waiting(b, "stdout")' = Elems(rest)
      BY <1>5, <2>1 DEF Waiting
    <3>3. Elems(chunk) \subseteq Waiting(b, "stdout") /\ Before(Elems(chunk), Waiting(b, "stdout")')
      BY <1>6, <2>1, <3>2
    <3> QED
      BY <3>1, <3>3 DEF Made, OutDirs
  <2>2. CASE b = a /\ i # m + 1
    <3>1. m = 1 /\ i = 1 /\ a[2] = "stdout"
      BY <1>8, <1>11, <2>2
    <3>2. pending # None /\ jobs'[b][i].dir = "resize" /\ jobs'[b][i].data = <<pending>>
      BY <1>8, <2>2, <3>1
    <3>3. Waiting(b, "resize") = {pending} /\ Waiting(b, "resize")' = {}
      BY <1>2, <3>1, <3>2 DEF Waiting
    <3>4. Elems(<<pending>>) = {pending}
      <4>1. DOMAIN <<pending>> = {1} /\ <<pending>>[1] = pending
        OBVIOUS
      <4> QED
        BY <4>1 DEF Elems
    <3> QED
      BY <3>2, <3>3, <3>4 DEF Made, OutDirs, Before
  <2>3. CASE b # a
    <3>1. jobs'[b] = jobs[b] /\ stage'[b] = stage[b]
      BY <1>5, <2>3, OutsFacts
    <3> QED
      BY <1>11, <3>1 DEF Kept, Left
  <2> QED
    BY <2>1, <2>2, <2>3
<1>12. out <= out' /\ grid <= grid'
  BY <1>2, Numbers
<1> QED
  BY <1>2, <1>7, <1>9, <1>10, <1>11, <1>12, OrderMoves

\* Without an overlap the aggregator that writes is the only one of output, and
\* its seqs are above those of all the others.
LEMMA OnlyWriter ==
  ASSUME LossInv, RowsShape, ~overlap, NEW w \in Outs, stage[w] = "insert"
  PROVE  /\ \A a \in Outs \ {w} : buf[a] = <<>> /\ jobs[a] = <<>>
         /\ \A r \in rows : r.by \in Outs => r.seq < Head(jobs[w]).seq
<1>1. Types /\ RowTypes /\ WritersShape /\ AggsShape /\ SeqOnce /\ OneGen /\ Ahead
  BY DEF LossInv, Shape, Counts
<1>2. w \in Aggs /\ w \in Writers /\ w = <<w[1], "stdout">> /\ Busy(w) /\ wgen[w] \in 1 .. gens
  BY <1>1, OutsFacts DEF Busy, WritersShape
<1>3. wgen[w] = w[1] /\ w[1] = gens
  <2>1. wgen[w] = w[1]
    BY <1>1, <1>2 DEF AggsShape
  <2>2. HasWriters(w[1])
    BY <1>2, <2>1 DEF HasWriters
  <2> QED
    BY <1>1, <1>2, <2>1, <2>2 DEF OneGen
<1>4. ASSUME NEW a \in Outs \ {w} PROVE a[1] # gens /\ buf[a] = <<>> /\ jobs[a] = <<>>
  <2>1. a \in Aggs /\ a \in Writers /\ a = <<a[1], "stdout">> /\ a[1] \in Gens
    BY OutsFacts
  <2>2. a[1] # gens
    BY <1>2, <1>3, <1>4, <2>1
  <2>3. agg[a] \notin {"open", "closed"}
    <3> SUFFICES ASSUME agg[a] \in {"open", "closed"} PROVE FALSE
      OBVIOUS
    <3>1. HasWriters(a[1])
      BY <2>1 DEF HasWriters, Dirs
    <3>2. a[1] <= gens
      BY <1>1, <2>1 DEF AggsShape
    <3>3. a[1] \in 1 .. gens
      BY <1>1, <2>1, <3>2, GensFacts DEF Gens
    <3> QED
      BY <1>1, <2>2, <3>1, <3>3 DEF OneGen
  <2>4. ~Busy(a) /\ buf[a] = <<>> /\ stage[a] \notin {"register", "get"}
    BY <1>1, <2>1, <2>3 DEF AggsShape
  <2>5. stage[a] = "idle"
    BY <1>1, <2>1, <2>4 DEF RowTypes, Stages, Busy
  <2> QED
    BY <1>1, <2>1, <2>2, <2>4, <2>5 DEF WritersShape
<1>5. ASSUME NEW r \in rows, r.by \in Outs PROVE r.seq < Head(jobs[w]).seq
  <2>1. r.by[1] = r.gen
    BY <1>5 DEF RowsShape
  <2>2. CASE r.by = w
    BY <1>1, <1>2, <1>3, <1>5, <2>1, <2>2 DEF SeqOnce
  <2>3. CASE r.by # w
    BY <1>1, <1>2, <1>4, <1>5, <2>1, <2>3 DEF Ahead
  <2> QED
    BY <2>2, <2>3
<1> QED
  BY <1>4, <1>5

\* A row of output comes on top of the output in the table, and what is not in
\* the table yet is newer.
LEMMA KeepOrder ==
  ASSUME LossInv, LossInv', OrderInv, NEW w \in Writers, Insert(w), ~\E r \in rows : r.seq = Head(jobs[w]).seq
  PROVE  OrderInv'
<1>1. /\ Types /\ RowTypes /\ WritersShape /\ AggsShape
      /\ JobsShape /\ RowsShape /\ BufShape /\ Capped /\ Queued /\ RowsFirst /\ LogInOrder
  BY DEF LossInv, Shape, OrderInv
<1>2. /\ UNCHANGED <<out, buf, pending, grid, overlap, jobs, wgen>>
      /\ rows' = rows \cup {RowOf(w)} /\ stage[w] = "insert" /\ Busy(w)
  BY DEF Insert, ioVars, stateVars, sessVars, Busy
<1>3. PICK x \in AnyRow : x = RowOf(w) /\ x.by = w /\ x.seq = Head(jobs[w]).seq /\ x.gen = wgen[w] /\ x.seq \in Nat
  BY <1>1, <1>2, RowFacts
<1>4. PICK j \in AnyJob : j = jobs[w][1] /\ j = Head(jobs[w]) /\ 1 \in DOMAIN jobs[w] /\ x.dir = j.dir /\ x.data = j.data
  <2>1. jobs[w] \in Seq(AnyJob) /\ jobs[w] # <<>>
    BY <1>1, <1>2, RowFacts
  <2>2. Head(jobs[w]) = jobs[w][1] /\ Head(jobs[w]) \in AnyJob /\ 1 \in DOMAIN jobs[w]
    BY <2>1, JobFacts
  <2> QED
    BY <1>3, <2>2 DEF RowOf
<1>5. rows' = rows \cup {x}
  BY <1>2, <1>3
<1>6. /\ \A a \in Outs : Left(a)' \subseteq Left(a)
      /\ w \in Outs => Left(w)' \subseteq Left(w) \ {1} /\ 1 \in Left(w)
  <2>1. stage' = [stage EXCEPT ![w] = "notify"]
    BY DEF Insert
  <2> QED
    BY <1>1, <1>2, <1>4, <2>1, OutsFacts DEF Left, RowTypes
<1>7. \A a \in Outs, d \in OutDirs : Waiting(a, d)' = Waiting(a, d)
  BY <1>2 DEF Waiting
<1>8. \A d \in OutDirs : Top(d)' = Top(d)
  BY <1>2 DEF Top
<1>9. JobsShape' /\ BufShape' /\ Queued'
  BY <1>1, <1>2, <1>7 DEF JobsShape, BufShape, Queued
<1>10. /\ x.dir = "stdout" => w \in Outs
       /\ x.dir = "resize" => w \in Outs \cup Flushers
       /\ w \in Outs => x.by[1] = x.gen /\ x.dir \in OutDirs /\ (x.dir = "resize" => 1 \in DOMAIN x.data)
  <2>1. CASE w \in Outs
    <3>1. x.by[1] = x.gen
      BY <1>1, <1>2, <1>3, <2>1, OutsFacts DEF AggsShape
    <3> QED
      BY <1>1, <1>4, <2>1, <3>1 DEF JobsShape
  <2>2. CASE w \notin Outs
    BY <1>1, <1>4, <2>2 DEF JobsShape
  <2> QED
    BY <2>1, <2>2
<1>11. RowsShape'
  BY <1>1, <1>3, <1>5, <1>10 DEF RowsShape
<1>12. Capped'
  <2>1. \A a \in Outs, d \in OutDirs : \A y \in Waiting(a, d)' : y <= Top(d)'
    BY <1>1, <1>7, <1>8 DEF Capped
  <2>2. \A a \in Outs, d \in OutDirs : \A i \in DOMAIN jobs'[a] :
          jobs'[a][i].dir = d => \A y \in Elems(jobs'[a][i].data) : y <= Top(d)'
    BY <1>1, <1>2, <1>8 DEF Capped
  <2>3. ASSUME NEW r \in rows', NEW d \in OutDirs, r.by \in Outs, r.dir = d, NEW y \in Elems(r.data)
        PROVE  y <= Top(d)'
    <3>1. CASE r = x
      BY <1>1, <1>3, <1>4, <1>8, <2>3, <3>1 DEF Capped
    <3>2. CASE r \in rows
      BY <1>1, <1>8, <2>3, <3>2 DEF Capped
    <3> QED
      BY <1>5, <2>3, <3>1, <3>2
  <2> QED
    BY <2>1, <2>2, <2>3 DEF Capped
<1>13. RowsFirst'
  <2> SUFFICES ASSUME ~overlap, NEW r \in rows', NEW a \in Outs, NEW d \in OutDirs, r.by \in Outs, r.dir = d
      PROVE  /\ Before(Elems(r.data), Waiting(a, d)')
             /\ \A i \in Left(a)' : jobs'[a][i].dir = d => Before(Elems(r.data), Elems(jobs'[a][i].data))
    BY <1>2 DEF RowsFirst, Before
  <2>1. CASE r \in rows
    BY <1>1, <1>2, <1>6, <1>7, <2>1 DEF RowsFirst
  <2>2. CASE r = x
    <3>1. w \in Outs /\ r.data = jobs[w][1].data /\ jobs[w][1].dir = d
      BY <1>3, <1>4, <2>2
    <3>2. Before(Elems(r.data), Waiting(w, d))
      BY <1>1, <1>4, <3>1 DEF Queued
    <3>3. CASE a = w
      <4>1. ASSUME NEW i \in Left(w)' PROVE jobs[w][i].dir # d
        <5>1. i \in DOMAIN jobs[w] /\ i # 1
          BY <1>6, <3>1, <4>1 DEF Left
        <5> QED
          BY <1>1, <1>4, <3>1, <5>1 DEF JobsShape, OutDirs
      <4> QED
        BY <1>2, <1>7, <3>2, <3>3, <4>1
    <3>4. CASE a # w
      <4>1. buf[a] = <<>> /\ jobs[a] = <<>> /\ DOMAIN <<>> = {}
        BY <1>1, <1>2, <3>1, <3>4, OnlyWriter
      <4>2. Left(a)' = {}
        BY <1>2, <4>1 DEF Left
      <4>3. Waiting(a, d) \subseteq Waiting(w, d)
        BY <4>1 DEF Waiting, Elems
      <4> QED
        BY <1>7, <3>2, <4>2, <4>3 DEF Before
    <3> QED
      BY <3>3, <3>4
  <2> QED
    BY <1>5, <2>1, <2>2
<1>14. LogInOrder'
  <2> SUFFICES ASSUME ~overlap, NEW r \in rows', NEW t \in rows', r.seq < t.seq
      PROVE  /\ r.dir = "stdout" /\ t.dir = "stdout" => \A y \in Elems(r.data), z \in Elems(t.data) : y < z
             /\ r.dir = "resize" /\ t.dir = "resize" =>
                  r.data[1] < t.data[1] \/ r.by \in Flushers \/ t.by \in Flushers
    BY <1>2 DEF LogInOrder
  <2>1. CASE r \in rows /\ t \in rows
    BY <1>1, <2>1 DEF LogInOrder
  <2>2. CASE r \in rows /\ t = x
    <3>1. ASSUME NEW d \in OutDirs, r.dir = d, t.dir = d, r.by \in Outs, t.by \in Outs
          PROVE  Before(Elems(r.data), Elems(t.data))
      <4>1. w \in Outs /\ 1 \in Left(w) /\ jobs[w][1].dir = d /\ t.data = jobs[w][1].data
        BY <1>3, <1>4, <1>6, <2>2, <3>1
      <4> QED
        BY <1>1, <2>2, <3>1, <4>1 DEF RowsFirst
    <3>2. CASE r.dir = "stdout" /\ t.dir = "stdout"
      <4>1. r.by \in Outs /\ t.by \in Outs
        BY <1>1, <1>3, <1>10, <2>2, <3>2 DEF RowsShape
      <4> QED
        BY <3>1, <3>2, <4>1 DEF OutDirs, Before
    <3>3. CASE r.dir = "resize" /\ t.dir = "resize" /\ r.by \notin Flushers /\ t.by \notin Flushers
      <4>1. r.by \in Outs /\ t.by \in Outs /\ 1 \in DOMAIN r.data /\ 1 \in DOMAIN t.data
        BY <1>1, <1>3, <1>10, <2>2, <3>3 DEF RowsShape
      <4>2. r.data[1] \in Elems(r.data) /\ t.data[1] \in Elems(t.data)
        BY <4>1 DEF Elems
      <4> QED
        BY <3>1, <3>3, <4>1, <4>2 DEF OutDirs, Before
    <3> QED
      BY <3>2, <3>3
  <2>3. CASE r = x /\ t \in rows
    <3>1. t.by \notin Outs \/ r.by \notin Outs
      <4> SUFFICES ASSUME t.by \in Outs, r.by \in Outs PROVE FALSE
        OBVIOUS
      <4>1. t.seq < Head(jobs[w]).seq
        BY <1>1, <1>2, <1>3, <2>3, OnlyWriter
      <4>2. t.seq \in Nat /\ r.seq \in Nat /\ t.seq < r.seq
        BY <1>1, <1>3, <2>3, <4>1 DEF RowTypes, AnyRow
      <4> QED
        BY <4>2
    <3>2. /\ r.dir = "stdout" => r.by \in Outs
          /\ r.dir = "resize" => r.by \in Outs \cup Flushers
          /\ t.dir = "stdout" => t.by \in Outs
          /\ t.dir = "resize" => t.by \in Outs \cup Flushers
      BY <1>1, <1>3, <1>10, <2>3 DEF RowsShape
    <3> QED
      BY <3>1, <3>2
  <2>4. CASE r = x /\ t = x
    BY <1>3, <2>4
  <2> QED
    BY <1>5, <2>1, <2>2, <2>3, <2>4
<1> QED
  BY <1>9, <1>11, <1>12, <1>13, <1>14 DEF OrderInv

LEMMA WriterOrder ==
  ASSUME LossInv, LossInv', OrderInv, NEW w \in Writers, Alloc(w) \/ Insert(w) \/ Notify(w)
  PROVE  OrderInv'
<1>1. CASE Notify(w)
  <2>1. Busy(w) /\ NextJob(w) /\ UNCHANGED <<rows, out, buf, pending, grid, overlap>>
    BY <1>1 DEF Notify, Busy, stateVars, ioVars, sessVars
  <2> QED
    BY <2>1, TailOrder
<1>2. CASE Insert(w) /\ \E r \in rows : r.seq = Head(jobs[w]).seq
  <2>1. Busy(w) /\ NextJob(w) /\ UNCHANGED <<rows, out, buf, pending, grid, overlap>>
    BY <1>2 DEF Insert, Busy, stateVars, ioVars, sessVars
  <2> QED
    BY <2>1, TailOrder
<1> QED
  BY <1>1, <1>2, AllocOrder, KeepOrder

LEMMA InitOrder == LogInit => OrderInv
<1> SUFFICES ASSUME LogInit PROVE OrderInv
  OBVIOUS
<1>1. DOMAIN <<>> = {} /\ Elems(<<>>) = {}
  BY DEF Elems
<1>2. /\ \A a \in Outs : buf[a] = <<>> /\ jobs[a] = <<>>
      /\ \A w \in Writers : jobs[w] = <<>>
  BY OutsFacts DEF LogInit
<1>3. \A a \in Outs, d \in OutDirs : Waiting(a, d) = {}
  BY <1>1, <1>2 DEF LogInit, Waiting
<1>4. JobsShape /\ BufShape /\ Queued
  BY <1>1, <1>2 DEF JobsShape, BufShape, Queued
<1>5. RowsShape /\ RowsFirst /\ LogInOrder
  BY DEF LogInit, RowsShape, RowsFirst, LogInOrder
<1>6. Capped
  BY <1>1, <1>2, <1>3 DEF LogInit, Capped
<1> QED
  BY <1>4, <1>5, <1>6 DEF OrderInv

LEMMA NextOrder == LossInv /\ LossInv' /\ OrderInv /\ [LogNext]_logVars => OrderInv'
<1> SUFFICES ASSUME LossInv, LossInv', OrderInv, [LogNext]_logVars PROVE OrderInv'
  OBVIOUS
<1>1. CASE SessionStep
  BY <1>1, PtyOrder, GridOrder, QuietOrderSteps DEF SessionStep
<1>2. CASE CloseStep \/ InputStep \/ UNCHANGED logVars
  BY <1>2, QuietOrderSteps
<1>3. CASE Crash \/ InputPanics
  BY <1>3, DieOrder
<1>4. CASE \E a \in Aggs : AggStep(a)
  BY <1>4, FlushOrder, QuietOrderSteps DEF AggStep
<1>5. CASE \E f \in Flushers : FlushTake(f) \/ FlusherStep(f)
  BY <1>5, FlusherOrder, QuietOrderSteps DEF FlusherStep
<1>6. CASE \E w \in Writers : Alloc(w) \/ Insert(w) \/ Notify(w)
  BY <1>6, WriterOrder
<1> QED
  BY <1>1, <1>2, <1>3, <1>4, <1>5, <1>6 DEF LogNext

LEMMA OrderAlways == LogSpec => []OrderInv
<1> QED
  BY InitOrder, NextOrder, LossAlways, PTL DEF LogSpec

\* Reading the log by ascending seq gives the output in the order the PTY
\* produced it, and the grids in the order they were set (but for markers that
\* a subscribe wrote): across writers, restarts, reseeded counters and crashes,
\* while no generation was used with another one still being written.
THEOREM LogReadsInOrder == ReplaySpec => []LogInOrder
<1>1. OrderInv => LogInOrder
  BY DEF OrderInv
<1> QED
  BY <1>1, OrderAlways, ReplayUsesTheLog, PTL
-----------------------------------------------------------------------------
\* The rank of a seq in a finite set: it grows with the seq, so every rank below
\* the set's size is taken.
LEMMA RankFacts ==
  ASSUME NEW S \in SUBSET Nat, IsFiniteSet(S)
  PROVE  /\ Cardinality(S) \in Nat
         /\ \A x \in S : Rank(S, x) \in 0 .. Cardinality(S) - 1
         /\ \A x, y \in S : x < y => Rank(S, x) < Rank(S, y)
<1>1. Cardinality(S) \in Nat
  BY FS_CardinalityType
<1>2. ASSUME NEW x \in S, NEW T \in SUBSET S, \A y \in S : y <= x => y \in T
      PROVE  Rank(S, x) \in Nat /\ Rank(S, x) < Cardinality(T) /\ Cardinality(T) <= Cardinality(S)
  <2> DEFINE U == {y \in S : y < x}
  <2>1. U \in SUBSET S /\ x \notin U /\ U \cup {x} \in SUBSET T
    <3>1. x \in Nat /\ \A y \in S : y \in Nat /\ (y < x => y <= x) /\ x <= x /\ ~(x < x)
      OBVIOUS
    <3> QED
      BY <1>2, <3>1
  <2>2. IsFiniteSet(U) /\ IsFiniteSet(T) /\ Cardinality(T) <= Cardinality(S)
    BY <1>2, <2>1, FS_Subset
  <2>3. Cardinality(U \cup {x}) = Cardinality(U) + 1
    BY <2>1, <2>2, FS_AddElement
  <2>4. Cardinality(U \cup {x}) <= Cardinality(T)
    BY <2>1, <2>2, FS_Subset
  <2>5. Cardinality(U) \in Nat /\ Cardinality(T) \in Nat
    BY <2>2, FS_CardinalityType
  <2> HIDE DEF U
  <2>6. Cardinality(U) < Cardinality(T)
    BY <2>3, <2>4, <2>5
  <2> QED
    BY <2>2, <2>5, <2>6 DEF Rank, U
<1>3. ASSUME NEW x \in S PROVE Rank(S, x) \in 0 .. Cardinality(S) - 1
  <2>1. Rank(S, x) \in Nat /\ Rank(S, x) < Cardinality(S)
    BY <1>2
  <2> QED
    BY <1>1, <2>1
<1>4. ASSUME NEW x \in S, NEW y \in S, x < y PROVE Rank(S, x) < Rank(S, y)
  <2>1. \A z \in S : z <= x => z \in {v \in S : v < y}
    BY <1>4
  <2>2. Rank(S, x) < Cardinality({v \in S : v < y})
    BY <1>2, <2>1
  <2> QED
    BY <2>2 DEF Rank
<1> QED
  BY <1>1, <1>3, <1>4

LEMMA RanksTaken ==
  ASSUME NEW S \in SUBSET Nat, IsFiniteSet(S), NEW i \in 0 .. Cardinality(S) - 1
  PROVE  \E x \in S : Rank(S, x) = i
<1> DEFINE n == Cardinality(S)
           T == 0 .. n - 1
           rank == [x \in S |-> Rank(S, x)]
<1>1. /\ n \in Nat /\ \A x \in S : Rank(S, x) \in T
      /\ \A x, y \in S : x < y => Rank(S, x) < Rank(S, y)
  BY RankFacts
<1>2. rank \in Injection(S, T)
  <2>1. rank \in [S -> T]
    BY <1>1
  <2>2. ASSUME NEW x \in S, NEW y \in S, rank[x] = rank[y] PROVE x = y
    <3>1. x \in Nat /\ y \in Nat /\ Rank(S, x) = Rank(S, y) /\ Rank(S, x) \in Int
      BY <1>1, <2>2
    <3> QED
      BY <1>1, <3>1
  <2> HIDE DEF rank, T
  <2> QED
    BY <2>1, <2>2 DEF Injection, IsInjective
<1>3. IsFiniteSet(T) /\ Cardinality(T) = n
  BY <1>1, FS_Interval
<1>4. rank \in Surjection(S, T)
  <2> HIDE DEF rank, T, n
  <2> QED
    BY <1>2, <1>3, FS_Injection DEF n
<1> QED
  BY <1>4 DEF Surjection

\* The rows of a page come in ascending order, each once.
LEMMA AscendingFacts ==
  ASSUME NEW S \in SUBSET Nat, IsFiniteSet(S)
  PROVE  /\ Ascending(S) \in Seq(Nat) /\ Elems(Ascending(S)) = S
         /\ Len(Ascending(S)) = Cardinality(S) /\ Cardinality(S) \in Nat
         /\ \A i, j \in DOMAIN Ascending(S) : i < j => Ascending(S)[i] < Ascending(S)[j]
<1> DEFINE n == Cardinality(S)
           s == Ascending(S)
<1>1. /\ n \in Nat /\ \A x \in S : Rank(S, x) \in 0 .. n - 1
      /\ \A x, y \in S : x < y => Rank(S, x) < Rank(S, y)
  BY RankFacts
<1>2. /\ DOMAIN s = 1 .. n
      /\ \A i \in 1 .. n : s[i] = CHOOSE x \in S : Rank(S, x) = i - 1
  BY DEF Ascending
<1>3. ASSUME NEW i \in 1 .. n PROVE s[i] \in S /\ Rank(S, s[i]) = i - 1
  <2>1. i - 1 \in 0 .. n - 1
    BY <1>1
  <2>2. \E x \in S : Rank(S, x) = i - 1
    BY <2>1, RanksTaken
  <2> HIDE DEF s
  <2> QED
    BY <1>2, <2>2
<1>4. s = [i \in 1 .. n |-> s[i]]
  BY DEF Ascending
<1> HIDE DEF s
<1>5. s \in Seq(Nat) /\ Len(s) = n
  BY <1>1, <1>3, <1>4
<1>6. Elems(s) = S
  <2>1. ASSUME NEW x \in S PROVE x \in Elems(s)
    <3>1. PICK r \in 0 .. n - 1 : r = Rank(S, x)
      BY <1>1
    <3>2. r + 1 \in 1 .. n
      BY <1>1
    <3>3. s[r + 1] \in S /\ Rank(S, s[r + 1]) = Rank(S, x) /\ Rank(S, x) \in Int
      BY <1>3, <3>1, <3>2
    <3>4. s[r + 1] = x
      <4>1. s[r + 1] \in Nat /\ x \in Nat
        BY <3>3
      <4> QED
        BY <1>1, <3>3, <4>1
    <3> QED
      BY <1>2, <3>2, <3>4 DEF Elems
  <2> QED
    BY <1>2, <1>3, <2>1 DEF Elems
<1>7. ASSUME NEW i \in 1 .. n, NEW j \in 1 .. n, i < j PROVE s[i] < s[j]
  <2>1. /\ s[i] \in S /\ s[j] \in S /\ s[i] \in Nat /\ s[j] \in Nat
        /\ Rank(S, s[i]) = i - 1 /\ Rank(S, s[j]) = j - 1
    BY <1>3
  <2>2. CASE s[j] < s[i]
    BY <1>1, <1>7, <2>1, <2>2
  <2>3. CASE s[j] = s[i]
    BY <1>1, <1>7, <2>1, <2>3
  <2> QED
    BY <2>1, <2>2, <2>3
<1> QED
  BY <1>1, <1>2, <1>5, <1>6, <1>7 DEF s
-----------------------------------------------------------------------------
\* All units in memory and in the table are of the range they are counted in,
\* because an input that has begun keeps its place.
DataInUnits ==
  /\ \A a \in Aggs : Elems(buf[a]) \subseteq Units
  /\ \A w \in Writers : \A i \in DOMAIN jobs[w] : Elems(jobs[w][i].data) \subseteq Units
  /\ \A r \in rows \cup lost : Elems(r.data) \subseteq Units
  /\ crashed \subseteq Units
Room == IF ipc.at = "idle" THEN out + in <= MaxUnits /\ in <= MaxIn ELSE out + in < MaxUnits /\ in < MaxIn
SessTypes ==
  /\ phase \in {"live", "closing", "stopping", "dead"}
  /\ closing \in [gen : 0 .. MaxGens, stop : SUBSET Dirs]
  /\ crashes \in 0 .. MaxCrashes /\ panicked \in BOOLEAN
UnitInv == DataInUnits /\ Room /\ SessTypes

LEMMA UnitsFit == \A n \in Nat : (n <= MaxUnits \/ n <= MaxGrid) /\ n # 0 => n \in Units
BY LogBoundsAssumption DEF Units

LEMMA InUnits == ASSUME NEW s \in Seq(Nat), Elems(s) \subseteq Units PROVE s \in Seq(Units)
<1>1. Len(s) \in Nat /\ s \in [1 .. Len(s) -> Nat] /\ DOMAIN s = 1 .. Len(s)
  BY LenProperties
<1>2. \A i \in 1 .. Len(s) : s[i] \in Units
  BY <1>1 DEF Elems
<1>3. s = [i \in 1 .. Len(s) |-> s[i]]
  BY <1>1
<1> QED
  BY <1>1, <1>2, <1>3

\* Data stays, moves on, or comes from the range.
LEMMA UnitsMove ==
  ASSUME DataInUnits, crashed' = crashed,
         \A a \in Aggs : \A x \in Elems(buf'[a]) : x \in Elems(buf[a]) \/ x \in Units,
         \A w \in Writers : \A i \in DOMAIN jobs'[w] :
           Elems(jobs'[w][i].data) \subseteq Units \/ \E k \in DOMAIN jobs[w] : jobs'[w][i].data = jobs[w][k].data,
         \A r \in rows' \cup lost' : r \in rows \cup lost \/ Elems(r.data) \subseteq Units
  PROVE  DataInUnits'
BY DEF DataInUnits

LEMMA RoomStep == LossInv /\ Room /\ [LogNext]_logVars => Room'
<1> SUFFICES ASSUME LossInv, Room, [LogNext]_logVars PROVE Room'
  OBVIOUS
<1>1. /\ out \in Nat /\ in \in Nat /\ MaxUnits \in Nat /\ MaxIn \in Nat
      /\ ipc \in [at : {"idle", "registered", "hasState", "hasAgg"}, gen : 0 .. MaxGens]
  BY LogBoundsAssumption DEF LossInv, Shape, Types, IoTypes
<1>2. CASE UNCHANGED ioVars
  BY <1>2 DEF Room, ioVars
<1>3. CASE PtyOutput
  BY <1>1, <1>3 DEF PtyOutput, Begun, Room
<1>4. CASE InputRegister
  BY <1>1, <1>4 DEF InputRegister, Begun, Room
<1>5. CASE InputState \/ InputAgg
  BY <1>1, <1>5 DEF InputState, InputAgg, Room
<1>6. CASE InputSend
  BY <1>1, <1>6 DEF InputSend, Room
<1>7. CASE Crash \/ InputPanics
  <2>1. ipc'.at = "idle" /\ out' = out /\ in' = in
    BY <1>7 DEF Crash, InputPanics, Die
  <2> QED
    BY <1>1, <2>1 DEF Room
<1> QED
  BY <1>2, <1>3, <1>4, <1>5, <1>6, <1>7
     DEF LogNext, SessionStep, Resize, CloseLog, Restart, CloseStep, CopyAggs, StopAgg, CloseDone, InputStep,
         AggStep, BeginFlush, AggExit, FlusherStep, FlushTake, FlushRegister, FlushGet, Alloc, Insert, Notify, logVars

LEMMA SessStep == LossInv /\ SessTypes /\ [LogNext]_logVars => SessTypes'
<1> SUFFICES ASSUME LossInv, SessTypes, [LogNext]_logVars PROVE SessTypes'
  OBVIOUS
<1>1. /\ cur \in 0 .. MaxGens /\ 0 \in 0 .. MaxGens /\ MaxCrashes \in Nat
      /\ closing \in [gen : 0 .. MaxGens, stop : SUBSET Dirs]
      /\ crashes \in 0 .. MaxCrashes /\ panicked \in BOOLEAN
      /\ phase \in {"live", "closing", "stopping", "dead"}
  BY LogBoundsAssumption DEF LossInv, Shape, Types, GenTypes, SessTypes
<1>2. CASE UNCHANGED <<phase, closing, crashes, panicked>>
  BY <1>2 DEF SessTypes
<1>3. CASE CloseLog
  <2>1. closing' = [gen |-> cur, stop |-> {}] /\ {} \in SUBSET Dirs /\ phase' = "closing"
        /\ UNCHANGED <<crashes, panicked>>
    BY <1>3 DEF CloseLog, lossVars
  <2> QED
    BY <1>1, <2>1 DEF SessTypes
<1>4. CASE CopyAggs
  <2>1. PICK S \in SUBSET Dirs : closing' = [closing EXCEPT !.stop = S]
    BY <1>4 DEF CopyAggs
  <2>2. phase' = "stopping" /\ UNCHANGED <<crashes, panicked>>
    BY <1>4 DEF CopyAggs, lossVars
  <2> QED
    BY <1>1, <2>1, <2>2 DEF SessTypes
<1>5. CASE CloseDone \/ Restart
  <2>1. phase' \in {"dead", "live"} /\ UNCHANGED <<closing, crashes, panicked>>
    BY <1>5 DEF CloseDone, Restart, lossVars
  <2> QED
    BY <1>1, <2>1 DEF SessTypes
<1>6. CASE Crash \/ InputPanics
  <2>1. closing' = [gen |-> 0, stop |-> {}] /\ phase' = "dead"
    BY <1>6 DEF Crash, InputPanics, Die
  <2>2. crashes' \in 0 .. MaxCrashes /\ panicked' \in BOOLEAN
    <3>1. CASE Crash
      BY <1>1, <3>1 DEF Crash
    <3>2. CASE InputPanics
      BY <1>1, <3>2 DEF InputPanics
    <3> QED
      BY <1>6, <3>1, <3>2
  <2>3. closing' \in [gen : 0 .. MaxGens, stop : SUBSET Dirs]
    BY <1>1, <2>1
  <2> QED
    BY <2>1, <2>2, <2>3 DEF SessTypes
<1>7. CASE UNCHANGED <<phase, closing>> /\ UNCHANGED lossVars
  BY <1>2, <1>7 DEF lossVars
<1>8. CASE \E w \in Writers : Insert(w)
  BY <1>2, <1>8 DEF Insert, sessVars
<1> QED
  BY <1>3, <1>4, <1>5, <1>6, <1>7, <1>8
     DEF LogNext, SessionStep, PtyOutput, Resize, CloseStep, StopAgg, InputStep, InputRegister, InputState, InputAgg,
         InputSend, AggStep, BeginFlush, AggExit, FlusherStep, FlushTake, FlushRegister, FlushGet, Alloc,
         Notify, logVars, sessVars

\* PtyOutput and InputSend number a new unit.
LEMMA NewUnit ==
  ASSUME LossInv, DataInUnits, Room, PtyOutput \/ InputSend
  PROVE  DataInUnits'
<1>1. UNCHANGED <<rows, jobs, lost, crashed>>
  BY DEF PtyOutput, InputSend, jobVars, lossVars
<1>2. buf \in [Aggs -> Seq(Nat)] /\ out \in Nat /\ in \in Nat /\ MaxUnits \in Nat
  BY LogBoundsAssumption DEF LossInv, Shape, Types, AggTypes, IoTypes
<1>3. PICK n \in Nat, b \in Gens \X Dirs : n \in Units /\ buf' = [buf EXCEPT ![b] = Append(@, n)]
  <2>1. CASE PtyOutput
    <3>1. <<cur, "stdout">> \in Gens \X Dirs
      BY <2>1 DEF PtyOutput, LossInv, Shape, Types, GenTypes, Gens, Dirs
    <3>2. out + 1 \in Nat /\ out + 1 \in Units
      BY <1>2, <2>1, UnitsFit DEF PtyOutput, Begun, Room
    <3> QED
      BY <2>1, <3>1, <3>2 DEF PtyOutput
  <2>2. CASE InputSend
    <3>1. <<ipc.gen, "stdin">> \in Gens \X Dirs
      <4>1. ipc.gen \in 1 .. gens
        BY <2>2 DEF InputSend, LossInv, Shape, AggsShape
      <4> QED
        BY <4>1, GensFacts DEF LossInv, Shape, Dirs
    <3>2. in + 1 \in Nat /\ in + 1 \in Units
      BY <1>2, <2>2, UnitsFit DEF InputSend, Room
    <3> QED
      BY <2>2, <3>1, <3>2 DEF InputSend
  <2> QED
    BY <2>1, <2>2
<1>4. \A a \in Aggs : \A x \in Elems(buf'[a]) : x \in Elems(buf[a]) \/ x \in Units
  <2>1. b \in Aggs /\ <<>> \in Seq(Nat)
    BY EmptySeq DEF Aggs
  <2>2. buf'[b] = Append(buf[b], n) /\ \A a \in Aggs \ {b} : buf'[a] = buf[a]
    BY <1>2, <1>3, <2>1
  <2>3. Elems(Append(buf[b], n)) = Elems(buf[b]) \cup {n}
    BY <1>2, <2>1, ElemsFacts
  <2> QED
    BY <1>3, <2>2, <2>3
<1> QED
  BY <1>1, <1>4, UnitsMove

LEMMA PendingUnit == ASSUME GridTypes, pending # None PROVE Elems(<<pending>>) \subseteq Units
<1>1. pending \in Nat /\ pending \in Units
  BY UnitsFit, LogBoundsAssumption DEF GridTypes
<1> QED
  BY <1>1 DEF Elems

LEMMA FlushUnits == ASSUME LossInv, DataInUnits, NEW a \in Aggs, BeginFlush(a) PROVE DataInUnits'
<1>1. Types /\ RowTypes /\ GridTypes
  BY DEF LossInv, Shape, Types
<1>2. UNCHANGED <<rows, lost, crashed>>
  BY DEF BeginFlush, lossVars
<1>3. PICK chunk \in Seq(Nat), rest \in Seq(Nat) : FlushOf(a, chunk, rest)
  BY <1>1, FlushFacts
<1>4. Elems(chunk) \subseteq Units /\ Elems(rest) \subseteq Elems(buf[a])
  <2>1. Elems(buf[a]) = Elems(chunk) \cup Elems(rest)
    BY <1>3, ElemsFacts, 0 \in Nat DEF FlushOf
  <2> QED
    BY <2>1 DEF DataInUnits
<1>5. \A b \in Aggs : \A x \in Elems(buf'[b]) : x \in Elems(buf[b]) \/ x \in Units
  <2>1. buf'[a] = rest /\ \A b \in Aggs \ {a} : buf'[b] = buf[b]
    BY <1>1, <1>3 DEF FlushOf, Types, AggTypes
  <2> QED
    BY <1>4, <2>1
<1>6. ASSUME NEW w \in Writers, NEW i \in DOMAIN jobs'[w]
      PROVE  Elems(jobs'[w][i].data) \subseteq Units \/ \E k \in DOMAIN jobs[w] : jobs'[w][i].data = jobs[w][k].data
  <2>1. CASE w # a
    BY <1>1, <1>3, <1>6, <2>1 DEF FlushOf, RowTypes
  <2>2. CASE w = a
    <3>1. \A d, s : NewJob(d, s).data = s
      BY DEF NewJob
    <3>2. \/ pending # None /\ jobs'[a] = <<NewJob("resize", <<pending>>), NewJob(a[2], chunk)>>
          \/ jobs'[a] = <<NewJob(a[2], chunk)>>
      BY <1>1, <1>3, <2>2 DEF FlushOf, RowTypes
    <3>3. CASE jobs'[a] = <<NewJob(a[2], chunk)>>
      BY <1>4, <1>6, <2>2, <3>1, <3>3
    <3>4. CASE pending # None /\ jobs'[a] = <<NewJob("resize", <<pending>>), NewJob(a[2], chunk)>>
      <4>1. Elems(<<pending>>) \subseteq Units
        BY <1>1, <3>4, PendingUnit
      <4>2. jobs'[a][i].data = <<pending>> \/ jobs'[a][i].data = chunk
        BY <1>6, <2>2, <3>1, <3>4
      <4> QED
        BY <1>4, <2>2, <4>1, <4>2
    <3> QED
      BY <3>2, <3>3, <3>4
  <2> QED
    BY <2>1, <2>2
<1> QED
  BY <1>2, <1>5, <1>6, UnitsMove

\* FlushResizeMarker, and a job that gets its seq.
LEMMA OneJobUnits ==
  ASSUME LossInv, DataInUnits, UNCHANGED <<buf, rows, lost, crashed>>, NEW w \in Writers, NEW js,
         jobs' = [jobs EXCEPT ![w] = js],
         \A i \in DOMAIN js : Elems(js[i].data) \subseteq Units \/ \E k \in DOMAIN jobs[w] : js[i].data = jobs[w][k].data
  PROVE  DataInUnits'
<1>1. jobs'[w] = js /\ \A v \in Writers \ {w} : jobs'[v] = jobs[v]
  BY DEF LossInv, Shape, RowTypes
<1> QED
  BY <1>1, UnitsMove

LEMMA FlusherUnits ==
  ASSUME LossInv, DataInUnits, NEW f \in Flushers, FlushTake(f) \/ FlushGet(f)
  PROVE  DataInUnits'
<1>1. UNCHANGED <<buf, rows, lost, crashed>> /\ f \in Writers
  BY DEF FlushTake, FlushGet, stateVars, lossVars, Writers
<1>2. CASE FlushTake(f)
  <2>1. Elems(<<pending>>) \subseteq Units
    BY <1>2, PendingUnit DEF FlushTake, LossInv, Shape, Types
  <2>2. jobs' = [jobs EXCEPT ![f] = <<NewJob("resize", <<pending>>)>>]
    BY <1>2 DEF FlushTake
  <2>3. \A i \in DOMAIN <<NewJob("resize", <<pending>>)>> :
          Elems((<<NewJob("resize", <<pending>>)>>)[i].data) \subseteq Units
    BY <2>1 DEF NewJob
  <2> QED
    BY <1>1, <2>2, <2>3, OneJobUnits
<1>3. CASE FlushGet(f) /\ cur = 0
  <2>1. jobs' = [jobs EXCEPT ![f] = <<>>] /\ DOMAIN <<>> = {}
    BY <1>3 DEF FlushGet
  <2> QED
    BY <1>1, <2>1, OneJobUnits
<1>4. CASE UNCHANGED jobs
  BY <1>1, <1>4 DEF DataInUnits
<1> QED
  BY <1>2, <1>3, <1>4 DEF FlushGet

LEMMA WriterUnits ==
  ASSUME LossInv, DataInUnits, NEW w \in Writers, Alloc(w) \/ Insert(w) \/ Notify(w)
  PROVE  DataInUnits'
<1>1. /\ jobs[w] \in Seq(AnyJob) /\ jobs[w] # <<>> /\ seq \in [Gens -> Nat] /\ wgen[w] \in Gens
      /\ UNCHANGED <<buf, crashed>>
  <2>1. Busy(w) /\ UNCHANGED <<buf, crashed>>
    BY DEF Alloc, Insert, Notify, Busy, stateVars, lossVars
  <2> QED
    BY <2>1, RowFacts, GensFacts DEF LossInv, Shape, Types, GenTypes, RowTypes, WritersShape, Busy
<1>2. CASE Alloc(w)
  <2>1. PICK n \in Nat : n = seq[wgen[w]] + 1
    BY <1>1
  <2>2. jobs' = [jobs EXCEPT ![w] = Retag(jobs[w], n)]
    BY <1>2, <2>1 DEF Alloc, Retag
  <2>3. \A i \in DOMAIN Retag(jobs[w], n) : i \in DOMAIN jobs[w] /\ Retag(jobs[w], n)[i].data = jobs[w][i].data
    BY <1>1, RetagKeeps
  <2>4. UNCHANGED <<buf, rows, lost, crashed>>
    BY <1>2 DEF Alloc, lossVars
  <2> HIDE DEF Retag
  <2>5. PICK js : js = Retag(jobs[w], n)
    OBVIOUS
  <2>6. \A i \in DOMAIN js : Elems(js[i].data) \subseteq Units \/ \E k \in DOMAIN jobs[w] : js[i].data = jobs[w][k].data
    BY <2>3, <2>5
  <2>7. jobs' = [jobs EXCEPT ![w] = js]
    BY <2>2, <2>5
  <2>8. jobs'[w] = js /\ \A v \in Writers \ {w} : jobs'[v] = jobs[v]
    BY <2>7 DEF LossInv, Shape, RowTypes
  <2> QED
    BY <1>1, <2>4, <2>6, <2>8, UnitsMove
<1>3. \A i \in DOMAIN Tail(jobs[w]) : i + 1 \in DOMAIN jobs[w] /\ Tail(jobs[w])[i] = jobs[w][i + 1]
  <2>1. /\ Tail(jobs[w]) \in Seq(AnyJob) /\ Len(Tail(jobs[w])) = Len(jobs[w]) - 1
        /\ DOMAIN jobs[w] = 1 .. Len(jobs[w]) /\ Len(jobs[w]) \in Nat
        /\ \A i \in 1 .. Len(jobs[w]) - 1 : Tail(jobs[w])[i] = jobs[w][i + 1]
    BY <1>1, JobFacts
  <2>2. DOMAIN Tail(jobs[w]) = 1 .. Len(jobs[w]) - 1
    BY <2>1, LenProperties
  <2> QED
    BY <2>1, <2>2
<1>4. Elems(RowOf(w).data) \subseteq Units
  <2>1. 1 \in DOMAIN jobs[w] /\ RowOf(w).data = jobs[w][1].data
    BY <1>1, JobFacts DEF RowOf
  <2> QED
    BY <2>1 DEF DataInUnits
<1>5. CASE Notify(w)
  <2>1. jobs' = [jobs EXCEPT ![w] = Tail(jobs[w])] /\ UNCHANGED <<buf, rows, lost, crashed>>
    BY <1>5 DEF Notify, NextJob, stateVars, lossVars
  <2>2. PICK js : js = Tail(jobs[w])
    OBVIOUS
  <2>3. \A i \in DOMAIN js : Elems(js[i].data) \subseteq Units \/ \E k \in DOMAIN jobs[w] : js[i].data = jobs[w][k].data
    BY <1>3, <2>2
  <2>4. jobs' = [jobs EXCEPT ![w] = js] /\ UNCHANGED <<buf, rows, lost, crashed>>
    BY <2>1, <2>2
  <2>5. jobs'[w] = js /\ \A v \in Writers \ {w} : jobs'[v] = jobs[v]
    BY <2>4 DEF LossInv, Shape, RowTypes
  <2> QED
    BY <1>1, <2>3, <2>4, <2>5, UnitsMove
<1>6. CASE Insert(w)
  <2>1. \A r \in rows' \cup lost' : r \in rows \cup lost \/ r = RowOf(w)
    BY <1>6 DEF Insert
  <2>2. jobs' = jobs \/ jobs' = [jobs EXCEPT ![w] = Tail(jobs[w])]
    BY <1>6 DEF Insert, NextJob
  <2>3. ASSUME NEW v \in Writers, NEW i \in DOMAIN jobs'[v]
        PROVE  \E k \in DOMAIN jobs[v] : jobs'[v][i].data = jobs[v][k].data
    <3>1. CASE jobs'[v] = jobs[v]
      BY <2>3, <3>1
    <3>2. CASE v = w /\ jobs'[v] = Tail(jobs[w])
      BY <1>3, <2>3, <3>2
    <3> QED
      BY <2>2, <3>1, <3>2 DEF LossInv, Shape, RowTypes
  <2>4. ASSUME NEW r \in rows' \cup lost' PROVE r \in rows \cup lost \/ Elems(r.data) \subseteq Units
    BY <1>4, <2>1
  <2> QED
    BY <1>1, <2>3, <2>4, UnitsMove
<1> QED
  BY <1>2, <1>5, <1>6

LEMMA DieUnits == ASSUME LossInv, DataInUnits, Crash \/ InputPanics PROVE DataInUnits'
<1>1. /\ buf' = [a \in Aggs |-> <<>>] /\ jobs' = [w \in Writers |-> <<>>]
      /\ crashed' = crashed \cup InMemory /\ UNCHANGED <<rows, lost>>
  BY DEF Crash, InputPanics, Die
<1>2. InMemory \subseteq Units
  <2>1. \A w \in Aggs : w \in Writers
    BY DEF Writers
  <2> QED
    BY <2>1 DEF InMemory, DataInUnits
<1>3. DOMAIN <<>> = {} /\ Elems(<<>>) = {}
  BY DEF Elems
<1> QED
  BY <1>1, <1>2, <1>3 DEF DataInUnits

LEMMA NextUnits == LossInv /\ UnitInv /\ [LogNext]_logVars => UnitInv'
<1> SUFFICES ASSUME LossInv, UnitInv, [LogNext]_logVars PROVE DataInUnits'
  BY RoomStep, SessStep DEF UnitInv
<1>0. DataInUnits /\ Room
  BY DEF UnitInv
<1>1. CASE UNCHANGED <<buf, jobs, rows, lost, crashed>>
  BY <1>0, <1>1 DEF DataInUnits
<1>2. CASE SessionStep \/ CloseStep \/ InputStep
  BY <1>0, <1>1, <1>2, NewUnit
     DEF SessionStep, Resize, CloseLog, Restart, CloseStep, CopyAggs, StopAgg, CloseDone, InputStep, InputRegister,
         InputState, InputAgg, Register, stateVars, jobVars, lossVars
<1>3. CASE Crash \/ InputPanics
  BY <1>0, <1>3, DieUnits
<1>4. CASE \E a \in Aggs : AggStep(a)
  BY <1>0, <1>1, <1>4, FlushUnits DEF AggStep, AggExit, jobVars, lossVars
<1>5. CASE \E f \in Flushers : FlushTake(f) \/ FlusherStep(f)
  BY <1>0, <1>1, <1>5, FlusherUnits DEF FlusherStep, FlushRegister, Register, stateVars, lossVars
<1>6. CASE \E w \in Writers : Alloc(w) \/ Insert(w) \/ Notify(w)
  BY <1>0, <1>6, WriterUnits
<1>7. CASE UNCHANGED logVars
  BY <1>1, <1>7 DEF logVars, stateVars, jobVars, lossVars
<1> QED
  BY <1>2, <1>3, <1>4, <1>5, <1>6, <1>7 DEF LogNext

LEMMA UnitsAlways == LogSpec => []UnitInv
<1>1. LogInit => UnitInv
  <2> SUFFICES ASSUME LogInit PROVE UnitInv
    OBVIOUS
  <2>1. DOMAIN <<>> = {} /\ Elems(<<>>) = {}
    BY DEF Elems
  <2>2. DataInUnits
    BY <2>1 DEF LogInit, DataInUnits
  <2>3. Room
    <3>1. ipc.at = "idle" /\ out = 0 /\ in = 0
      BY DEF LogInit
    <3> QED
      BY <3>1, LogBoundsAssumption DEF Room
  <2>4. SessTypes
    <3>1. 0 \in 0 .. MaxGens /\ 0 \in 0 .. MaxCrashes /\ {} \in SUBSET Dirs
      BY LogBoundsAssumption
    <3>2. closing \in [gen : 0 .. MaxGens, stop : SUBSET Dirs]
      BY <3>1 DEF LogInit
    <3> QED
      BY <3>1, <3>2 DEF LogInit, SessTypes
  <2> QED
    BY <2>2, <2>3, <2>4 DEF UnitInv
<1> QED
  BY <1>1, NextUnits, LossAlways, PTL DEF LogSpec

LEMMA LogTypes == LossInv /\ UnitInv => LogTypeOK
<1> SUFFICES ASSUME LossInv, UnitInv PROVE LogTypeOK
  OBVIOUS
<1>1. /\ Types /\ RowTypes /\ WritersShape /\ DataInUnits /\ Room /\ SessTypes
      /\ gens \in Nat /\ gens <= MaxGens /\ MaxGens \in Nat
  BY GensFacts, LogBoundsAssumption DEF LossInv, Shape, UnitInv
<1>2. cur \in 0 .. MaxGens /\ gens \in 0 .. MaxGens /\ cur <= gens
  BY <1>1 DEF Types, GenTypes
<1>3. buf \in [Aggs -> Seq(Units)]
  <2>1. \A a \in Aggs : buf[a] \in Seq(Units)
    BY <1>1, InUnits DEF DataInUnits, Types, AggTypes
  <2> QED
    BY <1>1, <2>1 DEF Types, AggTypes
<1>4. rows \subseteq Row /\ lost \subseteq Row
  <2> SUFFICES ASSUME NEW r \in rows \cup lost PROVE r \in Row
    OBVIOUS
  <2>1. r \in AnyRow
    BY <1>1 DEF RowTypes
  <2>2. r.data \in Seq(Units)
    BY <1>1, <2>1, InUnits DEF DataInUnits, AnyRow
  <2> QED
    BY <2>1, <2>2 DEF AnyRow, Row
<1>5. jobs \in [Writers -> Seq(Job)]
  <2> SUFFICES ASSUME NEW w \in Writers PROVE jobs[w] \in Seq(Job)
    BY <1>1 DEF RowTypes
  <2>1. /\ jobs[w] \in [1 .. Len(jobs[w]) -> AnyJob] /\ Len(jobs[w]) \in Nat
        /\ DOMAIN jobs[w] = 1 .. Len(jobs[w])
    BY <1>1, LenProperties DEF RowTypes
  <2>2. ASSUME NEW i \in 1 .. Len(jobs[w]) PROVE jobs[w][i] \in Job
    <3>1. jobs[w][i] \in AnyJob
      BY <2>1
    <3>2. jobs[w][i].data \in Seq(Units)
      BY <1>1, <2>1, <3>1, InUnits DEF DataInUnits, AnyJob
    <3> QED
      BY <3>1, <3>2 DEF AnyJob, Job
  <2>3. jobs[w] = [i \in 1 .. Len(jobs[w]) |-> jobs[w][i]]
    BY <2>1
  <2> QED
    BY <2>1, <2>2, <2>3
<1>6. out \in Nat /\ in \in 0 .. MaxIn /\ out + in <= MaxUnits
  BY <1>1, LogBoundsAssumption DEF Types, IoTypes, Room
<1>7. \A w \in Writers : stage[w] \in {"alloc", "insert", "notify"} => wgen[w] # 0 /\ jobs[w] # <<>>
  BY <1>1 DEF WritersShape, Busy
<1> QED
  BY <1>1, <1>2, <1>3, <1>4, <1>5, <1>6, <1>7
     DEF LogTypeOK, Types, GenTypes, AggTypes, IoTypes, GridTypes, RowTypes, Stages, SessTypes, DataInUnits
-----------------------------------------------------------------------------
\* The generation that the session of the terminal writes under.
SessGen == IF phase = "live" THEN cur ELSE closing.gen

\* Output is flushed under that generation only, and before the session is over;
\* Close stops the aggregator it goes through.
OutRuns ==
  /\ phase # "dead" => SessGen \in 1 .. gens
  /\ \A a \in Outs : agg[a] \in {"open", "closed"} =>
       /\ phase # "dead" /\ a[1] = SessGen
       /\ phase = "stopping" => "stdout" \in closing.stop

\* A seq is that of one row; none is zero.
SeqsGiven ==
  /\ \A r \in rows : r.seq >= 1
  /\ \A w \in Writers : stage[w] = "insert" => Head(jobs[w]).seq >= 1
  /\ \A r, t \in rows : r.seq = t.seq => r = t

\* The steps that change jobs.
LEMMA JobSteps ==
  ASSUME [LogNext]_logVars
  PROVE  \/ UNCHANGED jobVars \/ Crash \/ InputPanics
         \/ \E a \in Aggs : BeginFlush(a)
         \/ \E f \in Flushers : FlushTake(f) \/ FlusherStep(f)
         \/ \E w \in Writers : Alloc(w) \/ Insert(w) \/ Notify(w)
<1>1. SessionStep \/ CloseStep \/ InputStep => UNCHANGED jobVars
  BY DEF SessionStep, PtyOutput, Resize, CloseLog, Restart, CloseStep, CopyAggs, StopAgg, CloseDone, InputStep,
         InputRegister, InputState, InputAgg, InputSend
<1>2. (\E a \in Aggs : AggStep(a)) => UNCHANGED jobVars \/ \E a \in Aggs : BeginFlush(a)
  BY DEF AggStep, AggExit
<1>3. UNCHANGED logVars => UNCHANGED jobVars
  BY DEF logVars
<1> QED
  BY <1>1, <1>2, <1>3 DEF LogNext

\* A writer gets to the table with a seq, and to its callback with a row.
LEMMA WritersStay ==
  ASSUME LossInv, [LogNext]_logVars, NEW w \in Writers
  PROVE  stage'[w] \in {"insert", "notify"} =>
           \/ stage'[w] = stage[w] /\ jobs'[w] = jobs[w]
           \/ Alloc(w) /\ stage'[w] = "insert"
           \/ Insert(w) /\ stage'[w] = "notify" /\ jobs'[w] = jobs[w]
<1> DEFINE Goal == stage'[w] \in {"insert", "notify"} =>
                     \/ stage'[w] = stage[w] /\ jobs'[w] = jobs[w]
                     \/ Alloc(w) /\ stage'[w] = "insert"
                     \/ Insert(w) /\ stage'[w] = "notify" /\ jobs'[w] = jobs[w]
<1>1. /\ jobs \in [Writers -> Seq(AnyJob)] /\ stage \in [Writers -> Stages] /\ wgen \in [Writers -> 0 .. MaxGens]
  BY DEF LossInv, Shape, RowTypes
<1>2. CASE UNCHANGED jobVars
  BY <1>2 DEF jobVars
<1>3. CASE Crash \/ InputPanics
  BY <1>3 DEF Crash, InputPanics, Die
<1>4. ASSUME NEW a \in Aggs, BeginFlush(a) PROVE Goal
  BY <1>1, <1>4 DEF BeginFlush
<1>5. ASSUME NEW f \in Flushers, FlushTake(f) \/ FlusherStep(f) PROVE Goal
  <2>1. CASE FlushTake(f)
    BY <1>1, <2>1 DEF FlushTake
  <2>2. CASE FlushRegister(f)
    BY <1>1, <2>2 DEF FlushRegister
  <2>3. CASE FlushGet(f)
    BY <1>1, <2>3 DEF FlushGet
  <2> QED
    BY <1>5, <2>1, <2>2, <2>3 DEF FlusherStep
<1>6. ASSUME NEW v \in Writers, Alloc(v) \/ Notify(v) PROVE Goal
  <2>1. CASE v # w
    BY <1>1, <1>6, <2>1 DEF Alloc, Notify, NextJob
  <2>2. CASE v = w
    BY <1>1, <1>6, <2>2 DEF Alloc, Notify, NextJob
  <2> QED
    BY <2>1, <2>2
<1>7. ASSUME NEW v \in Writers, Insert(v) PROVE Goal
  <2>1. CASE v # w
    BY <1>1, <1>7, <2>1 DEF Insert, NextJob
  <2>2. CASE v = w
    BY <1>1, <1>7, <2>2 DEF Insert, NextJob
  <2> QED
    BY <2>1, <2>2
<1> QED
  BY <1>2, <1>3, <1>4, <1>5, <1>6, <1>7, JobSteps

LEMMA SeqsStep == LossInv /\ SeqsGiven /\ [LogNext]_logVars => SeqsGiven'
<1> SUFFICES ASSUME LossInv, SeqsGiven, [LogNext]_logVars PROVE SeqsGiven'
  OBVIOUS
<1>1. Types /\ RowTypes /\ WritersShape
  BY DEF LossInv, Shape
<1>2. ASSUME NEW w \in Writers, stage'[w] = "insert" PROVE Head(jobs'[w]).seq >= 1
  <2>1. CASE Alloc(w)
    <3>1. Busy(w)
      BY <2>1 DEF Alloc, Busy
    <3>2. PICK n \in Nat : n = seq[wgen[w]] + 1 /\ n >= 1
      BY <1>1, <3>1, RowFacts DEF Types, GenTypes
    <3>3. jobs'[w] = Retag(jobs[w], n)
      BY <1>1, <2>1, <3>2 DEF Alloc, Retag, RowTypes
    <3> QED
      BY <1>1, <3>1, <3>2, <3>3, RowFacts, RetagFacts
  <2>2. CASE stage[w] = "insert" /\ jobs'[w] = jobs[w]
    BY <2>2 DEF SeqsGiven
  <2> QED
    BY <1>2, <2>1, <2>2, WritersStay
<1>3. CASE rows' = rows
  BY <1>2, <1>3 DEF SeqsGiven
<1>4. ASSUME NEW w \in Writers, Insert(w), rows' # rows PROVE SeqsGiven'
  <2>1. rows' = rows \cup {RowOf(w)} /\ stage[w] = "insert" /\ \A r \in rows : r.seq # Head(jobs[w]).seq
    BY <1>4 DEF Insert
  <2>2. RowOf(w).seq = Head(jobs[w]).seq /\ RowOf(w).seq >= 1
    BY <2>1 DEF SeqsGiven, RowOf
  <2> QED
    BY <1>2, <2>1, <2>2 DEF SeqsGiven
<1> QED
  BY <1>3, <1>4
     DEF LogNext, SessionStep, PtyOutput, Resize, CloseLog, Restart, CloseStep, CopyAggs, StopAgg, CloseDone, InputStep,
         InputRegister, InputState, InputAgg, InputSend, Crash, InputPanics, Die, AggStep, BeginFlush, AggExit,
         FlusherStep, FlushTake, FlushRegister, FlushGet, Alloc, Notify, logVars

\* Register changes nothing while a session is live.
LEMMA RegisterKeeps ==
  ASSUME LossInv, Register
  PROVE  /\ UNCHANGED <<agg, buf>> /\ gens <= gens' /\ gens' \in Nat /\ cur' \in 1 .. gens'
         /\ cur # 0 => cur' = cur
         /\ \A g \in 1 .. gens : seq'[g] = seq[g]
<1>1. gens \in Nat /\ cur \in {0, gens} /\ seq \in [Gens -> Nat] /\ \A g \in 1 .. gens : g \in Gens /\ g # gens + 1
  BY GensFacts DEF LossInv, Shape, Types, GenTypes
<1>2. CASE UNCHANGED stateVars /\ cur # 0
  BY <1>1, <1>2 DEF stateVars
<1>3. CASE cur = 0
  <2>1. /\ gens' = gens + 1 /\ cur' = gens + 1 /\ seq' = [seq EXCEPT ![gens + 1] = MaxSeq]
        /\ UNCHANGED <<agg, buf>>
    BY <1>3 DEF Register
  <2> QED
    BY <1>1, <1>3, <2>1
<1> QED
  BY <1>2, <1>3 DEF Register

\* Steps that leave the session where it is, and open no aggregator of output.
LEMMA SessionStays ==
  ASSUME LossInv, OutRuns, UNCHANGED <<phase, closing>>, gens \in Nat, gens' \in Nat, gens <= gens',
         phase = "live" => cur' = cur,
         \A a \in Outs : agg'[a] \in {"open", "closed"} => agg[a] \in {"open", "closed"}
  PROVE  OutRuns'
<1>1. SessGen' = SessGen \/ phase = "dead"
  BY DEF SessGen
<1>2. phase # "dead" => SessGen' \in 1 .. gens'
  BY <1>1 DEF OutRuns
<1> QED
  BY <1>1, <1>2 DEF OutRuns

LEMMA SessionRuns == ASSUME LossInv, OutRuns, SessTypes, SessionStep PROVE OutRuns'
<1>1. gens \in Nat /\ cur \in {0, gens} /\ agg \in [Aggs -> {"none", "open", "closed", "done"}]
  BY GensFacts DEF LossInv, Shape, Types, GenTypes, AggTypes
<1>2. CASE PtyOutput
  <2>1. /\ phase = "live" /\ UNCHANGED <<phase, closing, cur, gens>> /\ agg' = [agg EXCEPT ![<<cur, "stdout">>] = "open"]
    BY <1>2 DEF PtyOutput, sessVars
  <2>2. cur \in 1 .. gens /\ SessGen = cur /\ SessGen' = cur
    BY <2>1 DEF OutRuns, SessGen
  <2>3. \A a \in Outs : a[1] = cur \/ agg'[a] = agg[a]
    BY <1>1, <2>1, OutsFacts
  <2> QED
    BY <2>1, <2>2, <2>3 DEF OutRuns
<1>3. CASE Resize
  BY <1>1, <1>3, SessionStays DEF Resize, stateVars
<1>4. CASE CloseLog
  <2>1. phase = "live" /\ phase' = "closing" /\ closing' = [gen |-> cur, stop |-> {}] /\ UNCHANGED <<gens, agg>>
    BY <1>4 DEF CloseLog
  <2>2. SessGen = cur /\ SessGen' = cur
    BY <2>1 DEF SessGen
  <2> QED
    BY <2>1, <2>2 DEF OutRuns
<1>5. CASE Restart
  <2>1. phase = "dead" /\ phase' = "live" /\ Register
    BY <1>5 DEF Restart
  <2>2. SessGen' = cur' /\ cur' \in 1 .. gens' /\ agg' = agg
    BY <2>1, RegisterKeeps DEF SessGen
  <2> QED
    BY <2>1, <2>2 DEF OutRuns
<1> QED
  BY <1>2, <1>3, <1>4, <1>5 DEF SessionStep

LEMMA CloseRuns == ASSUME LossInv, OutRuns, SessTypes, CloseStep PROVE OutRuns'
<1>1. gens \in Nat /\ agg \in [Aggs -> {"none", "open", "closed", "done"}]
      /\ closing \in [gen : 0 .. MaxGens, stop : SUBSET Dirs]
  BY GensFacts DEF LossInv, Shape, Types, AggTypes, SessTypes
<1>2. CASE CopyAggs
  <2>1. /\ phase = "closing" /\ phase' = "stopping" /\ UNCHANGED <<gens, agg, cur>>
        /\ closing' = [closing EXCEPT !.stop = {d \in Dirs : closing.gen # 0 /\ agg[<<closing.gen, d>>] # "none"}]
    BY <1>2 DEF CopyAggs, stateVars
  <2>2. /\ closing'.gen = closing.gen
        /\ closing'.stop = {d \in Dirs : closing.gen # 0 /\ agg[<<closing.gen, d>>] # "none"}
    BY <1>1, <2>1
  <2>3. SessGen = closing.gen /\ SessGen' = closing.gen /\ closing.gen \in 1 .. gens
    BY <2>1, <2>2 DEF SessGen, OutRuns
  <2>4. ASSUME NEW a \in Outs, agg[a] \in {"open", "closed"} PROVE a[1] = closing.gen /\ "stdout" \in closing'.stop
    <3>1. a[1] = closing.gen /\ a = <<closing.gen, "stdout">>
      BY <2>3, <2>4, OutsFacts DEF OutRuns
    <3>2. agg[<<closing.gen, "stdout">>] # "none" /\ closing.gen # 0
      BY <2>3, <2>4, <3>1
    <3> QED
      BY <2>2, <3>1, <3>2 DEF Dirs
  <2> QED
    BY <2>1, <2>3, <2>4 DEF OutRuns
<1>3. CASE CloseDone
  <2>1. /\ phase = "stopping" /\ phase' = "dead" /\ UNCHANGED <<gens, agg, cur, closing>>
        /\ \A d \in closing.stop : agg[<<closing.gen, d>>] = "done"
    BY <1>3 DEF CloseDone, stateVars
  <2>2. ASSUME NEW a \in Outs, agg[a] \in {"open", "closed"} PROVE FALSE
    <3>1. a = <<closing.gen, "stdout">> /\ "stdout" \in closing.stop
      BY <2>1, <2>2, OutsFacts DEF OutRuns, SessGen
    <3> QED
      BY <2>1, <2>2, <3>1
  <2> QED
    BY <2>1, <2>2 DEF OutRuns
<1>4. ASSUME NEW d \in Dirs, StopAgg(d) PROVE OutRuns'
  <2>1. /\ UNCHANGED <<phase, closing, cur, gens>> /\ agg[<<closing.gen, d>>] = "open"
        /\ agg' = [agg EXCEPT ![<<closing.gen, d>>] = "closed"]
    BY <1>4 DEF StopAgg, sessVars
  <2>2. \A a \in Outs : agg'[a] \in {"open", "closed"} => agg[a] \in {"open", "closed"}
    BY <1>1, <2>1, OutsFacts
  <2> QED
    BY <1>1, <2>1, <2>2, SessionStays
<1> QED
  BY <1>2, <1>3, <1>4 DEF CloseStep

LEMMA OtherRuns ==
  ASSUME LossInv, OutRuns, InputStep \/ (\E a \in Aggs : AggStep(a)) \/ (\E f \in Flushers : FlusherStep(f))
  PROVE  OutRuns'
<1>1. gens \in Nat /\ agg \in [Aggs -> {"none", "open", "closed", "done"}]
  BY GensFacts DEF LossInv, Shape, Types, AggTypes
<1>2. CASE Register /\ UNCHANGED <<phase, closing>>
  <2>1. phase = "live" => cur # 0
    BY DEF OutRuns, SessGen
  <2> QED
    BY <1>1, <1>2, <2>1, RegisterKeeps, SessionStays
<1>3. CASE UNCHANGED <<phase, closing, cur, gens>> /\ \A a \in Outs : agg'[a] = agg[a] \/ agg'[a] = "done"
  BY <1>1, <1>3, SessionStays
<1>4. CASE InputAgg
  <2>1. UNCHANGED <<phase, closing, cur, gens>>
    BY <1>4 DEF InputAgg, sessVars
  <2>2. \A a \in Outs : <<ipc.gen, "stdin">> # a
    BY OutsFacts
  <2>3. \A a \in Outs : agg'[a] = agg[a]
    BY <1>1, <1>4, <2>2, OutsFacts DEF InputAgg
  <2> QED
    BY <1>3, <2>1, <2>3
<1>5. CASE InputRegister
  BY <1>2, <1>5 DEF InputRegister, sessVars
<1>6. CASE InputState \/ InputSend
  BY <1>3, <1>6 DEF InputState, InputSend, sessVars, stateVars
<1>7. ASSUME NEW a \in Aggs, AggStep(a) PROVE OutRuns'
  <2>1. UNCHANGED <<phase, closing, cur, gens>>
    BY <1>7 DEF AggStep, BeginFlush, AggExit, sessVars
  <2>2. agg' = agg \/ agg' = [agg EXCEPT ![a] = "done"]
    BY <1>7 DEF AggStep, BeginFlush, AggExit
  <2>3. \A b \in Outs : agg'[b] = agg[b] \/ agg'[b] = "done"
    BY <1>1, <2>2, OutsFacts
  <2> QED
    BY <1>3, <2>1, <2>3
<1>8. ASSUME NEW f \in Flushers, FlusherStep(f) PROVE OutRuns'
  BY <1>2, <1>3, <1>8 DEF FlusherStep, FlushRegister, FlushGet, sessVars, stateVars
<1> QED
  BY <1>4, <1>5, <1>6, <1>7, <1>8 DEF InputStep

LEMMA RunsStep == LossInv /\ SessTypes /\ OutRuns /\ [LogNext]_logVars => OutRuns'
<1> SUFFICES ASSUME LossInv, SessTypes, OutRuns, [LogNext]_logVars PROVE OutRuns'
  OBVIOUS
<1>1. CASE UNCHANGED <<phase, closing, cur, gens, agg>>
  BY <1>1 DEF OutRuns, SessGen
<1>2. CASE Crash \/ InputPanics
  <2>1. phase' = "dead" /\ \A a \in Aggs : agg'[a] \in {"none", "done"}
    BY <1>2 DEF Crash, InputPanics, Die
  <2> QED
    BY <2>1, OutsFacts DEF OutRuns
<1>3. ASSUME NEW f \in Flushers, FlushTake(f) PROVE OutRuns'
  BY <1>1, <1>3 DEF FlushTake, stateVars
<1>4. ASSUME NEW w \in Writers, Alloc(w) \/ Insert(w) \/ Notify(w) PROVE OutRuns'
  BY <1>1, <1>4 DEF Alloc, Insert, Notify, stateVars, sessVars
<1>5. CASE UNCHANGED logVars
  BY <1>1, <1>5 DEF logVars, stateVars, sessVars
<1> QED
  BY <1>2, <1>3, <1>4, <1>5, SessionRuns, CloseRuns, OtherRuns DEF LogNext

LEMMA RunsAlways == LogSpec => [](OutRuns /\ SeqsGiven)
<1>1. LogInit => OutRuns /\ SeqsGiven
  <2> SUFFICES ASSUME LogInit PROVE OutRuns /\ SeqsGiven
    OBVIOUS
  <2>1. /\ phase = "dead" /\ rows = {} /\ \A a \in Outs : agg[a] = "none"
        /\ \A w \in Writers : stage[w] = "idle"
    BY OutsFacts DEF LogInit
  <2> QED
    BY <2>1 DEF OutRuns, SeqsGiven
<1>2. UnitInv => SessTypes
  BY DEF UnitInv
<1> QED
  BY <1>1, <1>2, RunsStep, SeqsStep, UnitsAlways, LossAlways, PTL DEF LogSpec
-----------------------------------------------------------------------------
\* Everything the log's steps keep.
LogInv == LossInv /\ OrderInv /\ Backed /\ UnitInv /\ OutRuns /\ SeqsGiven

LEMMA LogInvAlways == LogSpec => []LogInv
<1>1. AccountInv => Backed
  BY DEF AccountInv
<1>2. LossInv /\ OrderInv /\ Backed /\ UnitInv /\ OutRuns /\ SeqsGiven => LogInv
  BY DEF LogInv
<1> QED
  BY <1>1, <1>2, LossAlways, OrderAlways, AccountAlways, UnitsAlways, RunsAlways, PTL

\* The seqs in the table, and those of output.
Seqs == {r.seq : r \in rows}
OutSeqs == Stdout(Seqs)
OutAgg == <<SessGen, "stdout">>

\* The session has given out n, and not after the chunk at the table.
Past(n) ==
  /\ n <= seq[SessGen]
  /\ stage[OutAgg] \in {"insert", "notify"} => n < Head(jobs[OutAgg]).seq

LEMMA SeqsNat == ASSUME LossInv PROVE Seqs \subseteq Nat /\ OutSeqs \subseteq Seqs /\ OutSeqs \subseteq Nat
BY DEF LossInv, Shape, RowTypes, AnyRow, Seqs, OutSeqs, Stdout

\* Output at work is that of the session.
LEMMA AtWork ==
  ASSUME LogInv, NEW w \in Writers, Busy(w), Head(jobs[w]).dir = "stdout"
  PROVE  phase # "dead" /\ w = OutAgg
<1>1. jobs[w] \in Seq(AnyJob) /\ jobs[w] # <<>>
  BY RowFacts DEF LogInv, LossInv, Shape
<1>2. 1 \in DOMAIN jobs[w] /\ Head(jobs[w]) = jobs[w][1]
  BY <1>1, JobFacts
<1>3. w \in Outs
  BY <1>2 DEF LogInv, OrderInv, JobsShape
<1>4. agg[w] \in {"open", "closed"}
  BY <1>3, OutsFacts DEF LogInv, LossInv, Shape, AggsShape
<1> QED
  BY <1>3, <1>4, OutsFacts DEF LogInv, OutRuns, OutAgg

\* What is past stays past: the counter only grows, and the next chunk of
\* output is above it.
LEMMA PastStays ==
  ASSUME LogInv, LogInv', [LogNext]_logVars, phase # "dead", phase' # "dead"
  PROVE  SessGen' = SessGen /\ \A n \in Nat : Past(n) => Past(n)'
<1>1. /\ SessGen \in 1 .. gens /\ SessGen \in Gens /\ seq \in [Gens -> Nat] /\ OutAgg \in Outs /\ OutAgg \in Writers
      /\ closing \in [gen : 0 .. MaxGens, stop : SUBSET Dirs]
  <2>1. SessGen \in 1 .. gens /\ Types
    BY DEF LogInv, OutRuns, LossInv, Shape
  <2>2. SessGen \in Gens /\ seq \in [Gens -> Nat]
    BY <2>1, GensFacts DEF Types, GenTypes
  <2>3. OutAgg \in Aggs /\ OutAgg[2] = "stdout"
    BY <2>2, AggOf DEF OutAgg, Dirs
  <2> QED
    BY <2>1, <2>2, <2>3 DEF Outs, Writers, LogInv, UnitInv, SessTypes
<1>2. SessGen' = SessGen /\ \A g \in 1 .. gens : seq'[g] = seq[g] \/ seq'[g] = seq[g] + 1
  <2>1. phase = "live" => cur # 0
    BY <1>1 DEF SessGen
  <2>2. CASE Register /\ UNCHANGED <<phase, closing>>
    BY <2>1, <2>2, RegisterKeeps DEF LogInv, SessGen
  <2>3. CASE UNCHANGED <<phase, closing, cur, seq>>
    BY <2>3 DEF SessGen
  <2>4. CASE CloseLog \/ CopyAggs \/ CloseDone \/ Restart \/ Crash \/ InputPanics
    BY <1>1, <2>4 DEF CloseLog, CopyAggs, CloseDone, Restart, Crash, InputPanics, Die, SessGen, stateVars
  <2>5. ASSUME NEW w \in Writers, Alloc(w) PROVE <1>2!:
    <3>1. UNCHANGED <<phase, closing, cur>> /\ seq' = [seq EXCEPT ![wgen[w]] = @ + 1]
      BY <2>5 DEF Alloc, sessVars
    <3>2. \A g \in 1 .. gens : g \in Gens
      BY GensFacts DEF LogInv, LossInv, Shape
    <3> QED
      BY <1>1, <3>1, <3>2 DEF SessGen
  <2>6. CASE InputStep \/ \E f \in Flushers : FlushTake(f) \/ FlusherStep(f)
    BY <2>2, <2>3, <2>6 DEF InputStep, InputRegister, InputState, InputAgg, InputSend, FlusherStep, FlushTake,
                            FlushRegister, FlushGet, stateVars, sessVars
  <2>7. CASE PtyOutput \/ Resize \/ (\E d \in Dirs : StopAgg(d)) \/ UNCHANGED logVars
    BY <2>3, <2>7 DEF PtyOutput, Resize, StopAgg, logVars, stateVars, sessVars
  <2>8. CASE (\E a \in Aggs : AggStep(a)) \/ \E w \in Writers : Insert(w) \/ Notify(w)
    BY <2>3, <2>8 DEF AggStep, BeginFlush, AggExit, Insert, Notify, stateVars, sessVars
  <2> QED
    BY <2>4, <2>5, <2>6, <2>7, <2>8 DEF LogNext, SessionStep, CloseStep
<1>3. OutAgg' = OutAgg /\ seq[SessGen] <= seq'[SessGen]
  BY <1>1, <1>2 DEF OutAgg
<1>4. ASSUME NEW n \in Nat, Past(n), stage'[OutAgg] \in {"insert", "notify"} PROVE n < Head(jobs'[OutAgg]).seq
  <2>1. PICK a \in Outs : a = OutAgg
    BY <1>1
  <2>2. CASE stage[a] \in {"insert", "notify"} /\ jobs'[a] = jobs[a]
    BY <1>4, <2>1, <2>2 DEF Past
  <2>3. CASE Alloc(a)
    <3>1. Busy(a) /\ wgen[a] = SessGen
      BY <2>1, <2>3, OutsFacts DEF Alloc, Busy, LogInv, LossInv, Shape, AggsShape, OutAgg
    <3>2. PICK m \in Nat : m = seq[SessGen] + 1
      BY <1>1
    <3>3. jobs'[a] = Retag(jobs[a], m)
      BY <1>1, <2>1, <2>3, <3>1, <3>2 DEF Alloc, Retag, LogInv, LossInv, Shape, RowTypes
    <3>4. Head(jobs'[a]).seq = m
      BY <3>1, <3>3, RowFacts, RetagFacts, OutsFacts DEF LogInv, LossInv, Shape
    <3>5. n < m
      BY <1>1, <1>4, <3>2 DEF Past
    <3> QED
      BY <2>1, <3>4, <3>5
  <2>4. CASE Insert(a) /\ jobs'[a] = jobs[a]
    BY <2>2, <2>4 DEF Insert
  <2> QED
    BY <1>4, <2>1, <2>2, <2>3, <2>4, WritersStay, OutsFacts DEF LogInv
<1> QED
  BY <1>1, <1>2, <1>3, <1>4 DEF Past

\* A chunk becomes flushed when its callback has returned.
LEMMA FlushedGrows ==
  ASSUME LogInv, [LogNext]_logVars, NEW m \in Flushed'
  PROVE  /\ m \in OutSeqs
         /\ m \in Flushed \/ \E w \in Writers : /\ stage[w] = "notify" /\ Head(jobs[w]).seq = m
                                               /\ ~(stage'[w] = "notify" /\ jobs'[w] = jobs[w])
<1>1. /\ m \in OutSeqs' /\ \A w \in Writers : stage'[w] = "notify" => Head(jobs'[w]).seq # m
  BY DEF Flushed, OutSeqs, Seqs
<1>2. PICK r \in rows' : r.seq = m /\ r.dir = "stdout"
  BY <1>1 DEF OutSeqs, Stdout
<1>3. r \in rows
  <2>1. CASE rows' = rows
    BY <2>1
  <2>2. ASSUME NEW w \in Writers, Insert(w), rows' # rows PROVE r \in rows
    <3>1. rows' = rows \cup {RowOf(w)} /\ stage' = [stage EXCEPT ![w] = "notify"] /\ jobs' = jobs
      BY <2>2 DEF Insert
    <3>2. stage'[w] = "notify" /\ RowOf(w).seq = Head(jobs'[w]).seq
      BY <3>1 DEF LogInv, LossInv, Shape, RowTypes, RowOf
    <3>3. r # RowOf(w)
      BY <1>1, <1>2, <3>2
    <3> QED
      BY <3>1, <3>3
  <2> QED
    BY <2>1, <2>2
       DEF LogNext, SessionStep, PtyOutput, Resize, CloseLog, Restart, CloseStep, CopyAggs, StopAgg, CloseDone, InputStep,
           InputRegister, InputState, InputAgg, InputSend, Crash, InputPanics, Die, AggStep, BeginFlush, AggExit,
           FlusherStep, FlushTake, FlushRegister, FlushGet, Alloc, Notify, logVars
<1>4. m \in OutSeqs
  BY <1>2, <1>3 DEF OutSeqs, Stdout, Seqs
<1>5. CASE \A w \in Writers : stage[w] = "notify" => Head(jobs[w]).seq # m
  BY <1>4, <1>5 DEF Flushed, OutSeqs, Seqs
<1>6. ASSUME NEW w \in Writers, stage[w] = "notify", Head(jobs[w]).seq = m
      PROVE  ~(stage'[w] = "notify" /\ jobs'[w] = jobs[w])
  BY <1>1, <1>6
<1> QED
  BY <1>4, <1>5, <1>6
-----------------------------------------------------------------------------
\* A sequence is in order, but for the members of A.
Orderly(s, A) == \A i, j \in DOMAIN s : i < j => s[i] < s[j] \/ (s[i] # s[j] /\ s[i] \in A)
Rising(s) == Orderly(s, {})

LEMMA OrderlyAppend ==
  ASSUME NEW s \in Seq(Nat), NEW n \in Nat, NEW A, NEW B, A \subseteq B, Orderly(s, A),
         \A x \in Elems(s) : x < n \/ (x # n /\ x \in B)
  PROVE  Append(s, n) \in Seq(Nat) /\ Orderly(Append(s, n), B)
<1>1. /\ Len(s) \in Nat /\ DOMAIN s = 1 .. Len(s) /\ Append(s, n) \in Seq(Nat) /\ Len(Append(s, n)) = Len(s) + 1
      /\ (\A i \in 1 .. Len(s) : Append(s, n)[i] = s[i]) /\ Append(s, n)[Len(s) + 1] = n
  BY AppendProperties, LenProperties
<1>2. DOMAIN Append(s, n) = 1 .. Len(s) + 1
  BY <1>1, LenProperties
<1>3. \A i \in 1 .. Len(s) : s[i] \in Elems(s)
  BY <1>1 DEF Elems
<1> SUFFICES ASSUME NEW i \in 1 .. Len(s) + 1, NEW j \in 1 .. Len(s) + 1, i < j
    PROVE  \/ Append(s, n)[i] < Append(s, n)[j]
           \/ Append(s, n)[i] # Append(s, n)[j] /\ Append(s, n)[i] \in B
  BY <1>1, <1>2 DEF Orderly
<1>4. i \in 1 .. Len(s) /\ Append(s, n)[i] = s[i]
  BY <1>1
<1>5. CASE j = Len(s) + 1
  BY <1>1, <1>3, <1>4, <1>5
<1>6. CASE j \in 1 .. Len(s)
  BY <1>1, <1>4, <1>6 DEF Orderly
<1> QED
  BY <1>1, <1>5, <1>6

LEMMA RisingAppend ==
  ASSUME NEW s \in Seq(Nat), NEW n \in Nat, Rising(s), \A x \in Elems(s) : x < n
  PROVE  Rising(Append(s, n))
<1>1. Orderly(s, {}) /\ {} \subseteq {}
  BY DEF Rising
<1>2. Orderly(Append(s, n), {})
  BY <1>1, OrderlyAppend
<1> QED
  BY <1>2 DEF Rising

LEMMA RisingConcat ==
  ASSUME NEW s \in Seq(Nat), NEW t \in Seq(Nat), Rising(s), Rising(t), Before(Elems(s), Elems(t))
  PROVE  s \o t \in Seq(Nat) /\ Rising(s \o t)
<1>1. /\ Len(s) \in Nat /\ Len(t) \in Nat /\ DOMAIN s = 1 .. Len(s) /\ DOMAIN t = 1 .. Len(t)
      /\ s \o t \in Seq(Nat) /\ Len(s \o t) = Len(s) + Len(t)
      /\ \A i \in 1 .. Len(s) + Len(t) : (s \o t)[i] = IF i <= Len(s) THEN s[i] ELSE t[i - Len(s)]
  BY ConcatProperties, LenProperties
<1>2. DOMAIN (s \o t) = 1 .. Len(s) + Len(t)
  BY <1>1, LenProperties
<1>3. (\A i \in 1 .. Len(s) : s[i] \in Elems(s)) /\ \A i \in 1 .. Len(t) : t[i] \in Elems(t)
  BY <1>1 DEF Elems
<1> SUFFICES ASSUME NEW i \in 1 .. Len(s) + Len(t), NEW j \in 1 .. Len(s) + Len(t), i < j
    PROVE  (s \o t)[i] < (s \o t)[j]
  BY <1>1, <1>2 DEF Rising, Orderly
<1>4. CASE j <= Len(s)
  <2>1. i \in DOMAIN s /\ j \in DOMAIN s /\ (s \o t)[i] = s[i] /\ (s \o t)[j] = s[j]
    BY <1>1, <1>4
  <2> QED
    BY <2>1 DEF Rising, Orderly
<1>5. CASE i <= Len(s) /\ ~(j <= Len(s))
  <2>1. i \in 1 .. Len(s) /\ j - Len(s) \in 1 .. Len(t) /\ (s \o t)[i] = s[i] /\ (s \o t)[j] = t[j - Len(s)]
    BY <1>1, <1>5
  <2> QED
    BY <1>3, <2>1 DEF Before
<1>6. CASE ~(i <= Len(s)) /\ ~(j <= Len(s))
  <2>1. /\ i - Len(s) \in 1 .. Len(t) /\ j - Len(s) \in 1 .. Len(t) /\ i - Len(s) < j - Len(s)
        /\ (s \o t)[i] = t[i - Len(s)] /\ (s \o t)[j] = t[j - Len(s)]
    BY <1>1, <1>6
  <2> QED
    BY <1>1, <2>1 DEF Rising, Orderly
<1> QED
  BY <1>1, <1>4, <1>5, <1>6

LEMMA RisingTail ==
  ASSUME NEW s \in Seq(Nat), s # <<>>, Rising(s)
  PROVE  /\ Tail(s) \in Seq(Nat) /\ Rising(Tail(s)) /\ Head(s) \in Nat
         /\ Elems(s) = {Head(s)} \cup Elems(Tail(s)) /\ Before({Head(s)}, Elems(Tail(s)))
<1>1. /\ Len(s) \in Nat \ {0} /\ DOMAIN s = 1 .. Len(s) /\ Tail(s) \in Seq(Nat) /\ Len(Tail(s)) = Len(s) - 1
      /\ \A i \in 1 .. Len(s) - 1 : Tail(s)[i] = s[i + 1]
  BY HeadTailProperties, LenProperties, EmptySeq
<1>2. DOMAIN Tail(s) = 1 .. Len(s) - 1 /\ Head(s) = s[1] /\ Head(s) \in Nat
  BY <1>1, HeadTailProperties, LenProperties
<1>3. Rising(Tail(s))
  <2> SUFFICES ASSUME NEW i \in 1 .. Len(s) - 1, NEW j \in 1 .. Len(s) - 1, i < j PROVE Tail(s)[i] < Tail(s)[j]
    BY <1>2 DEF Rising, Orderly
  <2>1. i + 1 \in DOMAIN s /\ j + 1 \in DOMAIN s /\ i + 1 < j + 1
    BY <1>1
  <2> QED
    BY <1>1, <2>1 DEF Rising, Orderly
<1>4. Before({Head(s)}, Elems(Tail(s)))
  <2> SUFFICES ASSUME NEW i \in 1 .. Len(s) - 1 PROVE s[1] < Tail(s)[i]
    BY <1>2 DEF Before, Elems
  <2>1. 1 \in DOMAIN s /\ i + 1 \in DOMAIN s /\ 1 < i + 1
    BY <1>1
  <2> QED
    BY <1>1, <2>1 DEF Rising, Orderly
<1>5. Elems(s) = {Head(s)} \cup Elems(Tail(s))
  <2>1. ASSUME NEW i \in 1 .. Len(s) PROVE s[i] = Head(s) \/ s[i] \in Elems(Tail(s))
    <3>1. i = 1 \/ (i - 1 \in 1 .. Len(s) - 1 /\ Tail(s)[i - 1] = s[i])
      BY <1>1
    <3> QED
      BY <1>2, <3>1 DEF Elems
  <2>2. ASSUME NEW i \in 1 .. Len(s) - 1 PROVE Tail(s)[i] \in Elems(s)
    <3>1. i + 1 \in DOMAIN s
      BY <1>1
    <3> QED
      BY <1>1, <3>1 DEF Elems
  <2>3. Head(s) \in Elems(s)
    BY <1>1, <1>2 DEF Elems
  <2> QED
    BY <1>1, <1>2, <2>1, <2>2, <2>3 DEF Elems
<1> QED
  BY <1>1, <1>2, <1>3, <1>4, <1>5

\* A page is the rows up to its last one, or all there are.
LEMMA PageFacts ==
  ASSUME LossInv, NEW n \in Nat
  PROVE  /\ Page(n) \subseteq From(n) /\ From(n) \subseteq Nat /\ IsFiniteSet(Page(n)) /\ IsFiniteSet(Stdout(Page(n)))
         /\ ~HasMore(n) => Page(n) = From(n)
         /\ HasMore(n) => \E l \in Page(n) : /\ Last(Ascending(Page(n))) = l
                                             /\ \A x \in From(n) : x \in Page(n) <=> x <= l
<1>1. From(n) \in SUBSET Nat /\ IsFiniteSet(From(n))
  <2>1. Seqs \subseteq Nat /\ From(n) \subseteq Seqs
    BY SeqsNat DEF From, Seqs
  <2>2. MaxSeq \in Nat /\ \A x \in Seqs : x <= MaxSeq
    BY MaxSeqFacts DEF LossInv, Shape, RowTypes, Counts, Seqs
  <2>3. Seqs \subseteq 0 .. MaxSeq /\ IsFiniteSet(0 .. MaxSeq)
    BY <2>1, <2>2, FS_Interval
  <2> QED
    BY <2>1, <2>3, FS_Subset
<1>2. /\ Cardinality(From(n)) \in Nat
      /\ \A x \in From(n) : Rank(From(n), x) \in 0 .. Cardinality(From(n)) - 1
      /\ \A x, y \in From(n) : x < y => Rank(From(n), x) < Rank(From(n), y)
  BY <1>1, RankFacts
<1>3. /\ Page(n) \subseteq From(n) /\ Page(n) \in SUBSET Nat /\ Stdout(Page(n)) \subseteq Page(n)
      /\ IsFiniteSet(Page(n)) /\ IsFiniteSet(Stdout(Page(n)))
  <2>1. Page(n) \subseteq From(n) /\ Stdout(Page(n)) \subseteq Page(n)
    BY DEF Page, Stdout
  <2> QED
    BY <1>1, <2>1, FS_Subset
<1>4. ~HasMore(n) => Page(n) = From(n)
  BY <1>2, PageSizeAssumption DEF HasMore, Page
<1>5. ASSUME HasMore(n)
      PROVE  \E l \in Page(n) : /\ Last(Ascending(Page(n))) = l
                                /\ \A x \in From(n) : x \in Page(n) <=> x <= l
  <2> DEFINE s == Ascending(Page(n))
  <2>1. /\ s \in Seq(Nat) /\ Elems(s) = Page(n) /\ \A i, j \in DOMAIN s : i < j => s[i] < s[j]
        /\ Len(s) = Cardinality(Page(n))
    BY <1>3, AscendingFacts
  <2>2. PICK z \in Page(n) : TRUE
    <3>1. 0 \in 0 .. Cardinality(From(n)) - 1
      BY <1>2, <1>5, PageSizeAssumption DEF HasMore
    <3>2. PICK z \in From(n) : Rank(From(n), z) = 0
      BY <1>1, <3>1, RanksTaken
    <3> QED
      BY <3>2, PageSizeAssumption DEF Page
  <2> HIDE DEF s
  <2>3. Len(s) \in Nat /\ DOMAIN s = 1 .. Len(s) /\ Len(s) # 0
    <3>1. Len(s) \in Nat /\ DOMAIN s = 1 .. Len(s)
      BY <2>1, LenProperties
    <3>2. DOMAIN s # {}
      BY <2>1, <2>2 DEF Elems
    <3> QED
      BY <3>1, <3>2
  <2>4. PICK l \in Page(n) : l = s[Len(s)]
    BY <2>1, <2>3 DEF Elems
  <2>5. \A x \in Page(n) : x <= l
    <3> SUFFICES ASSUME NEW i \in DOMAIN s PROVE s[i] <= l
      BY <2>1 DEF Elems
    <3>1. s[i] \in Nat /\ l \in Nat /\ (i = Len(s) \/ i < Len(s)) /\ Len(s) \in DOMAIN s
      BY <1>3, <2>1, <2>3
    <3> QED
      BY <2>1, <2>4, <3>1
  <2>6. ASSUME NEW x \in From(n), x <= l PROVE x \in Page(n)
    <3>1. x \in Nat /\ l \in Nat /\ l \in From(n) /\ Rank(From(n), l) < PageSize
      BY <1>1, <1>3 DEF Page
    <3>2. CASE x < l
      <4>1. Rank(From(n), x) < Rank(From(n), l) /\ Rank(From(n), x) \in Int /\ Rank(From(n), l) \in Int
        BY <1>2, <3>1, <3>2
      <4>2. Rank(From(n), x) < PageSize
        BY <3>1, <4>1, PageSizeAssumption
      <4> QED
        BY <4>2 DEF Page
    <3> QED
      BY <2>6, <3>1, <3>2
  <2>7. Last(s) = l
    BY <2>4 DEF Last
  <2> QED
    BY <1>3, <2>5, <2>6, <2>7 DEF s
<1> QED
  BY <1>1, <1>3, <1>4, <1>5
-----------------------------------------------------------------------------
Subs == [at : {"idle", "found", "marker", "read", "release", "drain", "live", "done", "gone"},
         sess : Nat, replaying : BOOLEAN, from : Nat, last : Nat,
         pend : Seq(Nat), hist : Seq(Nat), live : Seq(Nat), ahead : SUBSET Nat]
SubTypes ==
  /\ nsess \in Nat /\ late \subseteq Nat /\ sub \in [Flushers -> Subs]
  /\ \A f \in Flushers : sub[f].sess <= nsess /\ sub[f].from >= 1 /\ sub[f].last = sub[f].from - 1

\* A callback that is not registered has been sent nothing, and the buffer is
\* filled only before it is drained.
Unused(f) ==
  sub[f].at \in {"idle", "found"} =>
    sub[f].from = 1 /\ sub[f].pend = <<>> /\ sub[f].hist = <<>> /\ sub[f].live = <<>>
Turns(f) ==
  /\ sub[f].at \in {"drain", "live"} => ~sub[f].replaying
  /\ sub[f].at = "live" => sub[f].pend = <<>>

\* Pages end at a row, and what is in the table below the next one was sent.
PagesSent(f) ==
  /\ Elems(sub[f].pend) \subseteq OutSeqs
  /\ sub[f].from = 1 \/ sub[f].from - 1 \in Seqs
  /\ \A n \in OutSeqs : n < sub[f].from => n \in Elems(sub[f].hist) \cup late

\* From the last page on, what is flushed has been sent or is buffered.
Whole(f) ==
  sub[f].at \in {"release", "drain", "live"} /\ sub[f].sess = nsess =>
    Flushed \subseteq Elems(sub[f].hist) \cup Elems(sub[f].pend) \cup Elems(sub[f].live) \cup late

InOrder(f) ==
  /\ Rising(sub[f].hist) /\ Rising(sub[f].pend) /\ Orderly(sub[f].live, sub[f].ahead)
  /\ sub[f].at \in {"idle", "found", "marker", "read"} => \A n \in Elems(sub[f].hist) : n < sub[f].from
  /\ \A x \in Elems(sub[f].live), y \in Elems(sub[f].pend) : x < y \/ (x # y /\ x \in sub[f].ahead)

\* The next chunk of output comes after all that the callback has had.
InPast(f) ==
  phase # "dead" /\ sub[f].sess = nsess => \A n \in Elems(sub[f].pend) \cup Elems(sub[f].live) : Past(n)

SubOk(f) == Unused(f) /\ Turns(f) /\ PagesSent(f) /\ Whole(f) /\ InOrder(f) /\ InPast(f)
SubInv == SubTypes /\ \A f \in Flushers : SubOk(f)

LEMMA SubFacts ==
  ASSUME SubTypes, NEW f \in Flushers
  PROVE  /\ sub[f] \in Subs /\ sub[f].sess \in Nat /\ sub[f].replaying \in BOOLEAN
         /\ sub[f].from \in Nat /\ sub[f].last \in Nat /\ sub[f].ahead \in SUBSET Nat
         /\ sub[f].pend \in Seq(Nat) /\ sub[f].hist \in Seq(Nat) /\ sub[f].live \in Seq(Nat)
         /\ Elems(sub[f].pend) \subseteq Nat /\ Elems(sub[f].hist) \subseteq Nat /\ Elems(sub[f].live) \subseteq Nat
<1>1. /\ sub[f] \in Subs /\ sub[f].sess \in Nat /\ sub[f].replaying \in BOOLEAN
      /\ sub[f].from \in Nat /\ sub[f].last \in Nat /\ sub[f].ahead \in SUBSET Nat
      /\ sub[f].pend \in Seq(Nat) /\ sub[f].hist \in Seq(Nat) /\ sub[f].live \in Seq(Nat)
  BY DEF SubTypes, Subs
<1> QED
  BY <1>1, ElemsNat

\* What a subscription has been sent is as good after a step of others as before.
LEMMA Undisturbed ==
  ASSUME LogInv, LogInv', [LogNext]_logVars, SubTypes, NEW f \in Flushers, SubOk(f), sub'[f] = sub[f],
         rows \subseteq rows', late \subseteq late',
         \A n \in OutSeqs' : n < sub[f].from => n \in OutSeqs \/ n \in late',
         sub[f].sess = nsess' => /\ nsess' = nsess /\ (phase' # "dead" => phase # "dead")
                                 /\ sub[f].at \in {"release", "drain", "live"} => Flushed' \subseteq Flushed
  PROVE  SubOk(f)'
<1>1. Unused(f) /\ Turns(f) /\ PagesSent(f) /\ Whole(f) /\ InOrder(f) /\ InPast(f)
  BY DEF SubOk
<1>2. Seqs \subseteq Seqs' /\ OutSeqs \subseteq OutSeqs'
  BY DEF Seqs, OutSeqs, Stdout
<1>3. Unused(f)' /\ Turns(f)' /\ InOrder(f)'
  BY <1>1 DEF Unused, Turns, InOrder
<1>4. PagesSent(f)'
  BY <1>1, <1>2 DEF PagesSent
<1>5. Whole(f)'
  BY <1>1 DEF Whole
<1>6. InPast(f)'
  <2> SUFFICES ASSUME phase' # "dead", sub[f].sess = nsess',
                      NEW n \in Elems(sub[f].pend) \cup Elems(sub[f].live)
      PROVE  Past(n)'
    BY DEF InPast
  <2>1. phase # "dead" /\ sub[f].sess = nsess
    OBVIOUS
  <2>2. Past(n) /\ n \in Nat
    BY <1>1, <2>1, SubFacts DEF InPast
  <2> QED
    BY <2>1, <2>2, PastStays
<1> QED
  BY <1>3, <1>4, <1>5, <1>6 DEF SubOk

\* Steps that neither insert a row nor finish a callback.
LEMMA FlushedStays ==
  ASSUME LogInv, LogOnly \/ Restart \/ (\E f \in Flushers : FlushTake(f)) \/ UNCHANGED logVars
  PROVE  rows' = rows /\ Flushed' \subseteq Flushed
<1>1. rows' = rows
  BY DEF LogOnly, PtyOutput, Resize, CloseLog, Restart, CloseStep, CopyAggs, StopAgg, CloseDone, InputStep,
         InputRegister, InputState, InputAgg, InputSend, AggStep, BeginFlush, AggExit, FlusherStep, FlushTake,
         FlushRegister, FlushGet, Alloc, logVars
<1>2. ASSUME NEW w \in Writers, stage[w] = "notify" PROVE stage'[w] = "notify" /\ jobs'[w] = jobs[w]
  <2> DEFINE Stays == stage'[w] = "notify" /\ jobs'[w] = jobs[w]
  <2>1. jobs \in [Writers -> Seq(AnyJob)] /\ stage \in [Writers -> Stages]
    BY DEF LogInv, LossInv, Shape, RowTypes
  <2>2. CASE UNCHANGED jobVars
    BY <1>2, <2>2 DEF jobVars
  <2>3. ASSUME NEW a \in Aggs, BeginFlush(a) PROVE Stays
    BY <1>2, <2>1, <2>3 DEF BeginFlush
  <2>4. ASSUME NEW f \in Flushers, FlushTake(f) \/ FlushRegister(f) PROVE Stays
    BY <1>2, <2>1, <2>4 DEF FlushTake, FlushRegister
  <2>5. ASSUME NEW f \in Flushers, FlushGet(f) PROVE Stays
    BY <1>2, <2>1, <2>5 DEF FlushGet
  <2>6. ASSUME NEW v \in Writers, Alloc(v) PROVE Stays
    BY <1>2, <2>1, <2>6 DEF Alloc
  <2>7. PtyOutput \/ Resize \/ CloseLog \/ Restart \/ CloseStep \/ InputStep => UNCHANGED jobVars
    BY DEF PtyOutput, Resize, CloseLog, Restart, CloseStep, CopyAggs, StopAgg, CloseDone, InputStep,
           InputRegister, InputState, InputAgg, InputSend
  <2>8. \A a \in Aggs : AggExit(a) => UNCHANGED jobVars
    BY DEF AggExit
  <2> QED
    BY <2>2, <2>3, <2>4, <2>5, <2>6, <2>7, <2>8 DEF LogOnly, AggStep, FlusherStep, logVars
<1>3. \A m \in Flushed' : m \in Flushed
  BY <1>1, <1>2 DEF Flushed, Stdout
<1> QED
  BY <1>1, <1>3

LEMMA LogOnlySub ==
  ASSUME LogInv, LogInv', SubInv, LogOnly \/ NewSession, [LogNext]_logVars
  PROVE  SubInv'
<1>1. sub' = sub /\ late' = late /\ rows' = rows /\ Flushed' \subseteq Flushed
  BY FlushedStays DEF LogOnly, NewSession, subVars
<1>2. nsess \in Nat /\ \A f \in Flushers : sub[f].sess <= nsess /\ sub[f].sess \in Nat
  BY SubFacts DEF SubInv, SubTypes
<1>3. nsess' = nsess + 1 \/ (nsess' = nsess /\ (phase' # "dead" => phase # "dead"))
  <2>1. CASE NewSession
    BY <2>1 DEF NewSession
  <2>2. CASE LogOnly
    <3>1. nsess' = nsess
      BY <2>2 DEF LogOnly, subVars
    <3>2. phase' # "dead" => phase # "dead"
      BY <2>2 DEF LogOnly, PtyOutput, Resize, CloseLog, CloseStep, CopyAggs, StopAgg, CloseDone, InputStep,
         InputRegister, InputState, InputAgg, InputSend, AggStep, BeginFlush, AggExit, FlusherStep,
         FlushRegister, FlushGet, Alloc, sessVars
    <3> QED
      BY <3>1, <3>2
  <2> QED
    BY <2>1, <2>2
<1>4. SubTypes'
  BY <1>1, <1>2, <1>3 DEF SubInv, SubTypes
<1>5. OutSeqs' = OutSeqs
  BY <1>1 DEF OutSeqs, Seqs, Stdout
<1>6. ASSUME NEW f \in Flushers PROVE SubOk(f)'
  BY <1>1, <1>2, <1>3, <1>5, Undisturbed DEF SubInv
<1> QED
  BY <1>4, <1>6 DEF SubInv

LEMMA InsertSub ==
  ASSUME LogInv, LogInv', SubInv, NEW w \in Writers, InsertRow(w), [LogNext]_logVars
  PROVE  SubInv'
<1>1. /\ Insert(w) /\ UNCHANGED <<sub, nsess, phase>> /\ stage[w] = "insert"
      /\ late' = late \cup {r.seq : r \in {t \in rows' \ rows : \E u \in rows : u.seq > t.seq}}
  BY DEF InsertRow, Insert, sessVars
<1>2. rows \subseteq rows' /\ rows' \subseteq AnyRow /\ rows \subseteq AnyRow
  BY <1>1 DEF Insert, LogInv, LossInv, Shape, RowTypes
<1>3. SubTypes'
  BY <1>1, <1>2 DEF SubInv, SubTypes, AnyRow
<1>4. Flushed' \subseteq Flushed
  <2>1. ASSUME NEW v \in Writers, stage[v] = "notify" PROVE stage'[v] = "notify" /\ jobs'[v] = jobs[v]
    BY <1>1, <2>1 DEF Insert, NextJob, LogInv, LossInv, Shape, RowTypes
  <2> QED
    BY <2>1, FlushedGrows
<1>5. ASSUME NEW f \in Flushers, NEW n \in OutSeqs', n < sub[f].from PROVE n \in OutSeqs \/ n \in late'
  <2>1. PICK r \in rows' : r.seq = n /\ r.dir = "stdout" /\ n \in Nat
    BY <1>2 DEF OutSeqs, Stdout, AnyRow
  <2>2. CASE r \in rows
    BY <2>1, <2>2 DEF OutSeqs, Stdout, Seqs
  <2>3. CASE r \notin rows
    <3>1. n >= 1 /\ sub[f].from \in Nat
      BY <2>1, SubFacts DEF LogInv, SeqsGiven, SubInv
    <3>2. sub[f].from - 1 \in Seqs
      BY <1>5, <2>1, <3>1 DEF SubInv, SubOk, PagesSent
    <3>3. PICK u \in rows : u.seq = sub[f].from - 1
      BY <3>2 DEF Seqs
    <3>4. u.seq # n
      BY <1>2, <2>1, <2>3, <3>3 DEF LogInv, SeqsGiven
    <3>5. u.seq > r.seq
      BY <1>5, <2>1, <3>1, <3>3, <3>4
    <3> QED
      BY <1>1, <2>1, <2>3, <3>5
  <2> QED
    BY <2>2, <2>3
<1>6. ASSUME NEW f \in Flushers PROVE SubOk(f)'
  BY <1>1, <1>2, <1>4, <1>5, Undisturbed DEF SubInv
<1> QED
  BY <1>3, <1>6 DEF SubInv

LEMMA DieSub ==
  ASSUME LogInv, LogInv', SubInv, DaemonDies
  PROVE  SubInv'
<1>1. /\ phase' = "dead" /\ rows' = rows /\ UNCHANGED <<nsess, late>>
      /\ sub' = [f \in Flushers |-> [sub[f] EXCEPT !.at = "gone"]]
  BY DEF DaemonDies, Crash, InputPanics, Die
<1>2. SubTypes /\ \A f \in Flushers : SubOk(f)
  BY DEF SubInv
<1>3. OutSeqs' = OutSeqs /\ Seqs' = Seqs
  BY <1>1 DEF OutSeqs, Seqs, Stdout
<1>4. ASSUME NEW f \in Flushers
      PROVE  /\ sub'[f] \in Subs /\ sub'[f].at = "gone" /\ sub'[f].from = sub[f].from /\ sub'[f].pend = sub[f].pend
             /\ sub'[f].hist = sub[f].hist /\ sub'[f].live = sub[f].live /\ sub'[f].ahead = sub[f].ahead
             /\ sub'[f].sess = sub[f].sess /\ sub'[f].last = sub[f].last
  BY <1>1, <1>2, SubFacts DEF Subs
<1>5. SubTypes'
  BY <1>1, <1>2, <1>4 DEF SubTypes
<1>6. ASSUME NEW f \in Flushers PROVE SubOk(f)'
  <2>1. Unused(f)' /\ Turns(f)' /\ Whole(f)' /\ InPast(f)'
    BY <1>1, <1>4 DEF Unused, Turns, Whole, InPast
  <2>2. PagesSent(f)' /\ InOrder(f)'
    BY <1>1, <1>2, <1>3, <1>4 DEF SubOk, PagesSent, InOrder
  <2> QED
    BY <2>1, <2>2 DEF SubOk
<1> QED
  BY <1>5, <1>6 DEF SubInv

\* The chunk whose callback returns: its row is there, and those of the session
\* that had been sent before are below it.
Delivered(w, n) == n = Head(jobs[w]).seq /\ Head(jobs[w]).dir = "stdout"

LEMMA DeliverFacts ==
  ASSUME LogInv, LogInv', [LogNext]_logVars, NEW w \in Writers, Notify(w)
  PROVE  /\ Head(jobs[w]).seq \in Nat /\ UNCHANGED <<rows, phase>>
         /\ \A m \in Flushed' : m \in OutSeqs /\ (m \in Flushed \/ Delivered(w, m))
         /\ \A m \in Nat : Delivered(w, m) => /\ m \in OutSeqs /\ phase # "dead" /\ Past(m)'
                                              /\ \A x \in Nat : Past(x) => x < m
<1>1. /\ stage[w] = "notify" /\ Busy(w) /\ UNCHANGED <<rows, phase, cur, closing, seq>>
      /\ stage' = [stage EXCEPT ![w] = IF Len(jobs[w]) > 1 THEN "alloc" ELSE "idle"]
      /\ jobs' = [jobs EXCEPT ![w] = Tail(@)]
  BY DEF Notify, NextJob, Busy, sessVars, stateVars
<1>2. /\ Types /\ RowTypes /\ WritersShape /\ AggsShape /\ SeqOnce /\ Backed /\ SeqsGiven
      /\ jobs \in [Writers -> Seq(AnyJob)] /\ stage \in [Writers -> Stages]
  BY DEF LogInv, LossInv, Shape, Counts, RowTypes
<1>3. RowOf(w) \in rows /\ RowOf(w).seq = Head(jobs[w]).seq /\ RowOf(w).dir = Head(jobs[w]).dir
      /\ RowOf(w).gen = wgen[w] /\ RowOf(w).seq \in Nat
  BY <1>1, <1>2, RowFacts DEF Backed, RowOf
<1>4. \A v \in Writers \ {w} : stage'[v] = stage[v] /\ jobs'[v] = jobs[v]
  BY <1>1, <1>2
<1>5. ASSUME NEW m \in Flushed' PROVE m \in OutSeqs /\ (m \in Flushed \/ Delivered(w, m))
  <2>1. m \in OutSeqs /\ (m \in Flushed \/ m = Head(jobs[w]).seq)
    BY <1>4, FlushedGrows
  <2>2. CASE m = Head(jobs[w]).seq
    <3>1. PICK r \in rows : r.seq = m /\ r.dir = "stdout"
      BY <2>1 DEF OutSeqs, Stdout
    <3>2. r = RowOf(w)
      BY <1>2, <1>3, <2>2, <3>1 DEF SeqsGiven
    <3> QED
      BY <1>3, <2>1, <2>2, <3>1, <3>2 DEF Delivered
  <2> QED
    BY <2>1, <2>2
<1>6. ASSUME NEW m \in Nat, Delivered(w, m)
      PROVE  m \in OutSeqs /\ phase # "dead" /\ Past(m)' /\ \A x \in Nat : Past(x) => x < m
  <2>1. phase # "dead" /\ w = OutAgg /\ Head(jobs[w]).dir = "stdout" /\ m = Head(jobs[w]).seq
    BY <1>1, <1>6, AtWork DEF Delivered
  <2>2. m \in OutSeqs
    BY <1>3, <2>1 DEF OutSeqs, Seqs, Stdout
  <2>3. SessGen' = SessGen /\ OutAgg' = OutAgg
    BY <1>1 DEF SessGen, OutAgg
  <2>4. SessGen \in Gens /\ w \in Aggs /\ w[1] = SessGen
    <3>1. SessGen \in 1 .. gens
      BY <2>1 DEF LogInv, OutRuns
    <3> QED
      BY <1>2, <2>1, <3>1, GensFacts, AggOf DEF OutAgg, Dirs
  <2>5. wgen[w] = SessGen
    BY <1>1, <1>2, <2>4 DEF AggsShape
  <2>6. m <= seq[SessGen]
    BY <1>2, <1>3, <2>1, <2>5 DEF SeqOnce
  <2>7. stage'[w] \notin {"insert", "notify"}
    BY <1>1, <1>2
  <2>8. Past(m)'
    BY <1>1, <2>1, <2>3, <2>6, <2>7 DEF Past
  <2>9. \A x \in Nat : Past(x) => x < m
    BY <1>1, <2>1 DEF Past
  <2> QED
    BY <2>1, <2>2, <2>8, <2>9
<1> QED
  BY <1>1, <1>3, <1>5, <1>6

\* During the replay the chunk is buffered ...
LEMMA Buffered ==
  ASSUME LogInv, LogInv', [LogNext]_logVars, SubTypes, NEW w \in Writers, Notify(w), UNCHANGED <<nsess, late>>,
         NEW f \in Flushers, SubOk(f), Attached(f), sub[f].replaying, NEW n \in Nat, Delivered(w, n),
         sub'[f] = [sub[f] EXCEPT !.pend = Append(@, n)]
  PROVE  sub'[f] \in Subs /\ sub'[f].sess = sub[f].sess /\ sub'[f].from = sub[f].from /\ sub'[f].last = sub[f].last
         /\ SubOk(f)'
<1>1. Unused(f) /\ Turns(f) /\ PagesSent(f) /\ Whole(f) /\ InOrder(f) /\ InPast(f)
  BY DEF SubOk
<1>2. /\ sub[f] \in Subs /\ sub[f].pend \in Seq(Nat) /\ Elems(sub[f].pend) \subseteq Nat /\ Elems(sub[f].live) \subseteq Nat
  BY SubFacts
<1>3. /\ rows' = rows /\ phase' = phase /\ n \in OutSeqs /\ phase # "dead" /\ Past(n)'
      /\ (\A x \in Nat : Past(x) => x < n)
      /\ \A m \in Flushed' : m \in OutSeqs /\ (m \in Flushed \/ m = n)
  BY DeliverFacts DEF Delivered
<1>4. sub[f].sess = nsess /\ sub[f].at \notin {"idle", "found", "gone"}
  BY DEF Attached
<1>5. \A x \in Elems(sub[f].pend) \cup Elems(sub[f].live) : Past(x) /\ x \in Nat /\ x < n /\ Past(x)'
  BY <1>1, <1>2, <1>3, <1>4, PastStays DEF InPast
<1>6. PICK p \in Seq(Nat) : p = Append(sub[f].pend, n)
  BY <1>2, AppendProperties
<1>7. Elems(p) = Elems(sub[f].pend) \cup {n}
  BY <1>2, <1>6, ElemsFacts, EmptySeq
<1>8. Rising(p)
  <2>1. Rising(sub[f].pend) /\ \A x \in Elems(sub[f].pend) : x < n
    BY <1>1, <1>5 DEF InOrder
  <2> QED
    BY <1>2, <1>6, <2>1, RisingAppend
<1>9. /\ sub'[f] \in Subs /\ sub'[f].pend = p /\ sub'[f].sess = sub[f].sess /\ sub'[f].from = sub[f].from
      /\ sub'[f].last = sub[f].last /\ sub'[f].at = sub[f].at /\ sub'[f].hist = sub[f].hist
      /\ sub'[f].live = sub[f].live /\ sub'[f].ahead = sub[f].ahead /\ sub'[f].replaying = sub[f].replaying
  <2> DEFINE t == [sub[f] EXCEPT !.pend = p]
  <2>1. /\ t \in Subs /\ t.at = sub[f].at /\ t.sess = sub[f].sess /\ t.from = sub[f].from /\ t.last = sub[f].last
        /\ t.pend = p /\ t.hist = sub[f].hist /\ t.live = sub[f].live /\ t.ahead = sub[f].ahead
        /\ t.replaying = sub[f].replaying
    BY <1>2 DEF Subs
  <2>2. sub'[f] = t
    BY <1>2, <1>6
  <2> HIDE DEF t
  <2> QED
    BY <2>1, <2>2
<1>10. OutSeqs' = OutSeqs /\ Seqs' = Seqs
  BY <1>3 DEF OutSeqs, Seqs, Stdout
<1>11. Unused(f)' /\ Turns(f)'
  BY <1>1, <1>4, <1>9 DEF Unused, Turns
<1>12. PagesSent(f)'
  BY <1>1, <1>3, <1>7, <1>9, <1>10 DEF PagesSent
<1>13. Whole(f)'
  BY <1>1, <1>3, <1>7, <1>9 DEF Whole
<1>14. InOrder(f)'
  <2>1. \A x \in Elems(sub[f].live), y \in Elems(p) : x < y \/ (x # y /\ x \in sub[f].ahead)
    BY <1>1, <1>5, <1>7 DEF InOrder
  <2> QED
    BY <1>1, <1>8, <1>9, <2>1 DEF InOrder
<1>15. InPast(f)'
  BY <1>3, <1>5, <1>7, <1>9 DEF InPast
<1> QED
  BY <1>9, <1>11, <1>12, <1>13, <1>14, <1>15 DEF SubOk

\* ... and after it the callback sends it, past what is still in the buffer.
LEMMA SentLive ==
  ASSUME LogInv, LogInv', [LogNext]_logVars, SubTypes, NEW w \in Writers, Notify(w), UNCHANGED <<nsess, late>>,
         NEW f \in Flushers, SubOk(f), Attached(f), NEW n \in Nat, Delivered(w, n),
         sub'[f] = [sub[f] EXCEPT !.live = Append(@, n),
                                  !.ahead = IF sub[f].pend = <<>> THEN @ ELSE @ \cup {n}]
  PROVE  sub'[f] \in Subs /\ sub'[f].sess = sub[f].sess /\ sub'[f].from = sub[f].from /\ sub'[f].last = sub[f].last
         /\ SubOk(f)'
<1>1. Unused(f) /\ Turns(f) /\ PagesSent(f) /\ Whole(f) /\ InOrder(f) /\ InPast(f)
  BY DEF SubOk
<1>2. /\ sub[f] \in Subs /\ sub[f].live \in Seq(Nat) /\ Elems(sub[f].pend) \subseteq Nat /\ Elems(sub[f].live) \subseteq Nat
      /\ sub[f].ahead \in SUBSET Nat
  BY SubFacts
<1>3. /\ rows' = rows /\ phase' = phase /\ n \in OutSeqs /\ phase # "dead" /\ Past(n)'
      /\ (\A x \in Nat : Past(x) => x < n)
      /\ \A m \in Flushed' : m \in OutSeqs /\ (m \in Flushed \/ m = n)
  BY DeliverFacts DEF Delivered
<1>4. sub[f].sess = nsess /\ sub[f].at \notin {"idle", "found", "gone"}
  BY DEF Attached
<1>5. \A x \in Elems(sub[f].pend) \cup Elems(sub[f].live) : Past(x) /\ x \in Nat /\ x < n /\ Past(x)'
  BY <1>1, <1>2, <1>3, <1>4, PastStays DEF InPast
<1>6. PICK v \in Seq(Nat) : v = Append(sub[f].live, n)
  BY <1>2, AppendProperties
<1>7. PICK A \in SUBSET Nat : A = IF sub[f].pend = <<>> THEN sub[f].ahead ELSE sub[f].ahead \cup {n}
  BY <1>2
<1>8. Elems(v) = Elems(sub[f].live) \cup {n} /\ sub[f].ahead \subseteq A
  BY <1>2, <1>6, <1>7, ElemsFacts, EmptySeq
<1>9. Orderly(v, A)
  BY <1>1, <1>2, <1>5, <1>6, <1>8, OrderlyAppend DEF InOrder
<1>10. /\ sub'[f] \in Subs /\ sub'[f].pend = sub[f].pend /\ sub'[f].sess = sub[f].sess /\ sub'[f].from = sub[f].from
       /\ sub'[f].last = sub[f].last /\ sub'[f].at = sub[f].at /\ sub'[f].hist = sub[f].hist
       /\ sub'[f].live = v /\ sub'[f].ahead = A /\ sub'[f].replaying = sub[f].replaying
  <2> DEFINE t == [sub[f] EXCEPT !.live = v, !.ahead = A]
  <2>1. /\ t \in Subs /\ t.at = sub[f].at /\ t.sess = sub[f].sess /\ t.from = sub[f].from /\ t.last = sub[f].last
        /\ t.pend = sub[f].pend /\ t.hist = sub[f].hist /\ t.live = v /\ t.ahead = A
        /\ t.replaying = sub[f].replaying
    BY <1>2 DEF Subs
  <2>2. sub'[f] = t
    BY <1>2, <1>6, <1>7
  <2> HIDE DEF t
  <2> QED
    BY <2>1, <2>2
<1>11. OutSeqs' = OutSeqs /\ Seqs' = Seqs
  BY <1>3 DEF OutSeqs, Seqs, Stdout
<1>12. Unused(f)' /\ Turns(f)'
  BY <1>1, <1>4, <1>10 DEF Unused, Turns
<1>13. PagesSent(f)'
  BY <1>1, <1>10, <1>11 DEF PagesSent
<1>14. Whole(f)'
  BY <1>1, <1>3, <1>8, <1>10 DEF Whole
<1>15. InOrder(f)'
  <2>1. ASSUME NEW x \in Elems(v), NEW y \in Elems(sub[f].pend) PROVE x < y \/ (x # y /\ x \in A)
    <3>1. CASE x = n
      <4>1. y # n
        BY <1>2, <1>5
      <4>2. sub[f].pend # <<>>
        BY <2>1 DEF Elems
      <4> QED
        BY <1>7, <3>1, <4>1, <4>2
    <3>2. CASE x \in Elems(sub[f].live)
      BY <1>1, <1>8, <3>2 DEF InOrder
    <3> QED
      BY <1>8, <3>1, <3>2
  <2> QED
    BY <1>1, <1>9, <1>10, <2>1 DEF InOrder
<1>16. InPast(f)'
  BY <1>3, <1>5, <1>8, <1>10 DEF InPast
<1> QED
  BY <1>10, <1>12, <1>13, <1>14, <1>15, <1>16 DEF SubOk

LEMMA DeliverSub ==
  ASSUME LogInv, LogInv', SubInv, NEW w \in Writers, Deliver(w), [LogNext]_logVars
  PROVE  SubInv'
<1>1. SubTypes /\ \A f \in Flushers : SubOk(f)
  BY DEF SubInv
<1>2. Notify(w) /\ UNCHANGED <<nsess, late>>
  BY DEF Deliver
<1>3. PICK n \in Nat : n = Head(jobs[w]).seq
  BY <1>2, DeliverFacts
<1>4. sub' = [f \in Flushers |->
         IF ~Attached(f) \/ Head(jobs[w]).dir # "stdout" THEN sub[f]
         ELSE IF sub[f].replaying THEN [sub[f] EXCEPT !.pend = Append(@, n)]
         ELSE [sub[f] EXCEPT !.live = Append(@, n),
                             !.ahead = IF sub[f].pend = <<>> THEN @ ELSE @ \cup {n}]]
  BY <1>3 DEF Deliver
<1>5. ASSUME NEW f \in Flushers
      PROVE  sub'[f] \in Subs /\ sub'[f].sess = sub[f].sess /\ sub'[f].from = sub[f].from
             /\ sub'[f].last = sub[f].last /\ SubOk(f)'
  <2>1. CASE ~Attached(f) \/ Head(jobs[w]).dir # "stdout"
    <3>1. sub'[f] = sub[f]
      BY <1>4, <2>1
    <3>2. /\ rows' = rows /\ phase' = phase /\ \A m \in Flushed' : m \in Flushed \/ Delivered(w, m)
          /\ \A m \in Nat : Delivered(w, m) => phase # "dead"
      BY <1>2, DeliverFacts
    <3>3. sub[f].at \in {"release", "drain", "live"} /\ sub[f].sess = nsess => Flushed' \subseteq Flushed
      <4> SUFFICES ASSUME sub[f].at \in {"release", "drain", "live"}, sub[f].sess = nsess, NEW m \in Flushed'
          PROVE m \in Flushed
        OBVIOUS
      <4>1. CASE Delivered(w, m)
        <5>1. m = n
          BY <1>3, <4>1 DEF Delivered
        <5>2. phase # "dead" /\ Head(jobs[w]).dir = "stdout"
          BY <3>2, <4>1, <5>1 DEF Delivered
        <5> QED
          BY <2>1, <5>2 DEF Attached
      <4> QED
        BY <3>2, <4>1
    <3>4. OutSeqs' = OutSeqs
      BY <3>2 DEF OutSeqs, Seqs, Stdout
    <3>5. SubOk(f)'
      BY <1>1, <1>2, <3>1, <3>2, <3>3, <3>4, Undisturbed
    <3> QED
      BY <1>1, <3>1, <3>5, SubFacts
  <2>2. CASE Attached(f) /\ Head(jobs[w]).dir = "stdout" /\ sub[f].replaying
    <3>1. Delivered(w, n) /\ sub'[f] = [sub[f] EXCEPT !.pend = Append(@, n)]
      BY <1>3, <1>4, <2>2 DEF Delivered
    <3> QED
      BY <1>1, <1>2, <2>2, <3>1, Buffered
  <2>3. CASE Attached(f) /\ Head(jobs[w]).dir = "stdout" /\ ~sub[f].replaying
    <3>1. Delivered(w, n) /\ sub'[f] = [sub[f] EXCEPT !.live = Append(@, n),
                                                      !.ahead = IF sub[f].pend = <<>> THEN @ ELSE @ \cup {n}]
      BY <1>3, <1>4, <2>3 DEF Delivered
    <3> QED
      BY <1>1, <1>2, <2>3, <3>1, SentLive
  <2> QED
    BY <2>1, <2>2, <2>3
<1>6. SubTypes'
  BY <1>1, <1>2, <1>4, <1>5 DEF SubTypes
<1> QED
  BY <1>5, <1>6 DEF SubInv

LEMMA EmptyFacts == Elems(<<>>) = {} /\ <<>> \in Seq(Nat) /\ \A A : Orderly(<<>>, A)
BY DEF Elems, Orderly

\* A step of a subscription is its own.
LEMMA OneSub ==
  ASSUME LogInv, LogInv', SubInv, NEW f \in Flushers, FlushTake(f) \/ UNCHANGED logVars, UNCHANGED <<nsess, late>>,
         NEW t \in Subs, sub' = [sub EXCEPT ![f] = t],
         t.sess = sub[f].sess \/ t.sess <= nsess, t.from >= 1, t.last = t.from - 1,
         (t.pend = <<>> /\ t.live = <<>>) \/
           (t.sess = sub[f].sess /\ Elems(t.pend) \cup Elems(t.live) \subseteq Elems(sub[f].pend) \cup Elems(sub[f].live)),
         Unused(f)' /\ Turns(f)' /\ PagesSent(f)' /\ Whole(f)' /\ InOrder(f)'
  PROVE  SubInv'
<1>1. SubTypes /\ \A g \in Flushers : SubOk(g)
  BY DEF SubInv
<1>2. sub'[f] = t /\ \A g \in Flushers \ {f} : sub'[g] = sub[g]
  BY <1>1 DEF SubTypes
<1>3. [LogNext]_logVars
  BY DEF LogNext
<1>4. phase' = phase /\ rows' = rows /\ Flushed' \subseteq Flushed
  BY FlushedStays DEF FlushTake, logVars, sessVars
<1>5. SubTypes'
  BY <1>1, <1>2 DEF SubTypes
<1>6. ASSUME NEW g \in Flushers \ {f} PROVE SubOk(g)'
  <2>1. OutSeqs' = OutSeqs
    BY <1>4 DEF OutSeqs, Seqs, Stdout
  <2> QED
    BY <1>1, <1>2, <1>3, <1>4, <2>1, Undisturbed
<1>7. InPast(f)'
  <2> SUFFICES ASSUME phase' # "dead", t.sess = nsess', NEW n \in Elems(t.pend) \cup Elems(t.live) PROVE Past(n)'
    BY <1>2 DEF InPast
  <2>1. t.sess = sub[f].sess /\ n \in Elems(sub[f].pend) \cup Elems(sub[f].live)
    BY EmptyFacts
  <2>2. Past(n) /\ n \in Nat
    BY <1>1, <1>4, <2>1, SubFacts DEF SubOk, InPast
  <2> QED
    BY <1>3, <1>4, <2>2, PastStays
<1>8. SubOk(f)'
  BY <1>7 DEF SubOk
<1> QED
  BY <1>5, <1>6, <1>8 DEF SubInv

LEMMA LookupSub == ASSUME LogInv, LogInv', SubInv, NEW f \in Flushers, Lookup(f) \/ SubscribeOutput(f) PROVE SubInv'
<1>1. SubTypes /\ Unused(f) /\ PagesSent(f)
  BY DEF SubInv, SubOk
<1>2. /\ sub[f] \in Subs /\ nsess \in Nat /\ sub[f].at \in {"idle", "found"} /\ sub[f].sess \in Nat /\ sub[f].sess <= nsess
      /\ UNCHANGED <<logVars, nsess, late>>
  BY <1>1, SubFacts DEF Lookup, SubscribeOutput, SubTypes
<1>3. PICK t \in Subs : /\ sub' = [sub EXCEPT ![f] = t] /\ t.at \in {"marker", "found"} /\ t.sess <= nsess
                        /\ t.from = sub[f].from /\ t.last = sub[f].last /\ t.pend = sub[f].pend
                        /\ t.hist = sub[f].hist /\ t.live = sub[f].live /\ t.ahead = sub[f].ahead
  <2>1. CASE Lookup(f)
    <3>0. PICK at \in {"marker", "found"}, k \in Nat : /\ at = IF phase = "dead" THEN "marker" ELSE "found"
                                                       /\ k = IF phase = "dead" THEN 0 ELSE nsess
      BY <1>2
    <3> DEFINE u == [sub[f] EXCEPT !.at = at, !.sess = k]
    <3>1. sub' = [sub EXCEPT ![f] = u] /\ k <= nsess
      <4>1. sub' = [sub EXCEPT ![f].at = at, ![f].sess = k] /\ k <= nsess
        BY <1>2, <2>1, <3>0 DEF Lookup
      <4> QED
        BY <1>1, <4>1 DEF SubTypes
    <3>2. /\ u \in Subs /\ u.at \in {"marker", "found"} /\ u.sess <= nsess
          /\ u.from = sub[f].from /\ u.last = sub[f].last /\ u.pend = sub[f].pend
          /\ u.hist = sub[f].hist /\ u.live = sub[f].live /\ u.ahead = sub[f].ahead
      BY <1>2, <3>1 DEF Subs
    <3> HIDE DEF u
    <3> QED
      BY <3>1, <3>2
  <2>2. CASE SubscribeOutput(f)
    <3> DEFINE u == [sub[f] EXCEPT !.at = "marker", !.replaying = TRUE]
    <3>1. sub' = [sub EXCEPT ![f] = u]
      BY <1>1, <2>2 DEF SubscribeOutput, SubTypes
    <3>2. /\ u \in Subs /\ u.at \in {"marker", "found"} /\ u.sess <= nsess
          /\ u.from = sub[f].from /\ u.last = sub[f].last /\ u.pend = sub[f].pend
          /\ u.hist = sub[f].hist /\ u.live = sub[f].live /\ u.ahead = sub[f].ahead
      BY <1>2 DEF Subs
    <3> HIDE DEF u
    <3> QED
      BY <3>1, <3>2
  <2> QED
    BY <2>1, <2>2
<1>4. t.from = 1 /\ t.pend = <<>> /\ t.hist = <<>> /\ t.live = <<>> /\ sub'[f] = t
  BY <1>1, <1>2, <1>3 DEF Unused, SubTypes
<1>5. Unused(f)' /\ Turns(f)' /\ Whole(f)' /\ InOrder(f)'
  BY <1>3, <1>4, EmptyFacts DEF Unused, Turns, Whole, InOrder, Rising
<1>6. PagesSent(f)'
  <2>1. OutSeqs' = OutSeqs /\ Seqs' = Seqs
    BY <1>2 DEF logVars, OutSeqs, Seqs, Stdout
  <2> QED
    BY <1>1, <1>2, <1>3, <1>4, <2>1 DEF PagesSent
<1> QED
  BY <1>1, <1>2, <1>3, <1>4, <1>5, <1>6, OneSub DEF SubTypes

LEMMA MarkerSub == ASSUME LogInv, LogInv', SubInv, NEW f \in Flushers, FlushMarker(f) \/ Release(f) PROVE SubInv'
<1>1. SubTypes /\ Unused(f) /\ Turns(f) /\ PagesSent(f) /\ Whole(f) /\ InOrder(f)
  BY DEF SubInv, SubOk
<1>2. /\ sub[f] \in Subs /\ (FlushTake(f) \/ UNCHANGED logVars) /\ UNCHANGED <<nsess, late>>
  BY <1>1, SubFacts DEF FlushMarker, Release
<1>3. PICK t \in Subs : /\ sub' = [sub EXCEPT ![f] = t] /\ t.sess = sub[f].sess
                        /\ \/ t.at = "read" /\ sub[f].at = "marker"
                           \/ t.at = "drain" /\ ~t.replaying /\ sub[f].at = "release"
                        /\ t.from = sub[f].from /\ t.last = sub[f].last /\ t.pend = sub[f].pend
                        /\ t.hist = sub[f].hist /\ t.live = sub[f].live /\ t.ahead = sub[f].ahead
  <2>1. CASE FlushMarker(f)
    <3> DEFINE u == [sub[f] EXCEPT !.at = "read"]
    <3>1. sub' = [sub EXCEPT ![f] = u] /\ sub[f].at = "marker"
      BY <1>1, <2>1 DEF FlushMarker, SubTypes
    <3>2. /\ u \in Subs /\ u.at = "read" /\ u.sess = sub[f].sess
          /\ u.from = sub[f].from /\ u.last = sub[f].last /\ u.pend = sub[f].pend
          /\ u.hist = sub[f].hist /\ u.live = sub[f].live /\ u.ahead = sub[f].ahead
      BY <1>2 DEF Subs
    <3> HIDE DEF u
    <3> QED
      BY <3>1, <3>2
  <2>2. CASE Release(f)
    <3> DEFINE u == [sub[f] EXCEPT !.at = "drain", !.replaying = FALSE]
    <3>1. sub' = [sub EXCEPT ![f] = u] /\ sub[f].at = "release"
      BY <1>1, <2>2 DEF Release, SubTypes
    <3>2. /\ u \in Subs /\ u.at = "drain" /\ ~u.replaying /\ u.sess = sub[f].sess
          /\ u.from = sub[f].from /\ u.last = sub[f].last /\ u.pend = sub[f].pend
          /\ u.hist = sub[f].hist /\ u.live = sub[f].live /\ u.ahead = sub[f].ahead
      BY <1>2 DEF Subs
    <3> HIDE DEF u
    <3> QED
      BY <3>1, <3>2
  <2> QED
    BY <2>1, <2>2
<1>4. sub'[f] = t
  BY <1>1, <1>3 DEF SubTypes
<1>5. rows' = rows /\ Flushed' \subseteq Flushed
  BY <1>2, FlushedStays
<1>6. OutSeqs' = OutSeqs /\ Seqs' = Seqs
  BY <1>5 DEF OutSeqs, Seqs, Stdout
<1>7. Unused(f)' /\ Turns(f)'
  BY <1>3, <1>4 DEF Unused, Turns
<1>8. Whole(f)'
  BY <1>1, <1>2, <1>3, <1>4, <1>5 DEF Whole
<1>9. PagesSent(f)' /\ InOrder(f)'
  BY <1>1, <1>2, <1>3, <1>4, <1>6 DEF PagesSent, InOrder
<1> QED
  BY <1>1, <1>2, <1>3, <1>4, <1>7, <1>8, <1>9, OneSub DEF SubTypes

\* A page goes on where the one before has ended.
LEMMA ReadPageSub == ASSUME LogInv, LogInv', SubInv, NEW f \in Flushers, ReadPage(f) PROVE SubInv'
<1>1. SubTypes /\ Unused(f) /\ Turns(f) /\ PagesSent(f) /\ Whole(f) /\ InOrder(f) /\ LossInv
  BY DEF SubInv, SubOk, LogInv
<1>2. /\ sub[f] \in Subs /\ sub[f].from \in Nat /\ sub[f].hist \in Seq(Nat) /\ Elems(sub[f].hist) \subseteq Nat
      /\ sub[f].at = "read" /\ sub[f].from >= 1 /\ sub[f].sess <= nsess /\ sub[f].last = sub[f].from - 1
      /\ UNCHANGED <<logVars, nsess, late>>
  BY <1>1, SubFacts DEF ReadPage, SubTypes
<1>3. OutSeqs' = OutSeqs /\ Seqs' = Seqs /\ Flushed' = Flushed
  BY <1>2 DEF logVars, jobVars, OutSeqs, Seqs, Stdout, Flushed
<1>4. PICK n \in Nat : n = sub[f].from
  BY <1>2
<1>5. /\ Page(n) \subseteq From(n) /\ From(n) \subseteq Nat /\ IsFiniteSet(Stdout(Page(n)))
      /\ ~HasMore(n) => Page(n) = From(n)
      /\ HasMore(n) => \E l \in Page(n) : /\ Last(Ascending(Page(n))) = l
                                          /\ \A x \in From(n) : x \in Page(n) <=> x <= l
  BY <1>1, PageFacts
<1>6. /\ From(n) = {x \in Seqs : x >= n} /\ Seqs \subseteq Nat /\ OutSeqs \subseteq Seqs
      /\ Stdout(Page(n)) = OutSeqs \cap Page(n)
  <2>1. From(n) = {x \in Seqs : x >= n}
    BY DEF From, Seqs
  <2>2. Page(n) \subseteq Seqs
    BY <1>5, <2>1
  <2> QED
    BY <1>1, <2>1, <2>2, SeqsNat DEF OutSeqs, Stdout
<1>7. PICK c \in Seq(Nat) : c = Ascending(Stdout(Page(n))) /\ Elems(c) = OutSeqs \cap Page(n) /\ Rising(c)
  <2>1. Stdout(Page(n)) \in SUBSET Nat
    BY <1>5, <1>6
  <2> QED
    BY <1>5, <1>6, <2>1, AscendingFacts DEF Rising, Orderly
<1>8. PICK h \in Seq(Nat) : h = sub[f].hist \o c /\ Elems(h) = Elems(sub[f].hist) \cup (OutSeqs \cap Page(n)) /\ Rising(h)
  <2>1. Before(Elems(sub[f].hist), Elems(c))
    <3>1. \A x \in Elems(sub[f].hist) : x \in Nat /\ x < n
      BY <1>1, <1>2, <1>4 DEF InOrder
    <3>2. \A y \in Elems(c) : y \in Nat /\ y >= n
      BY <1>5, <1>6, <1>7
    <3> QED
      BY <3>1, <3>2 DEF Before
  <2>2. sub[f].hist \o c \in Seq(Nat) /\ Rising(sub[f].hist \o c)
    BY <1>1, <1>2, <1>7, <2>1, RisingConcat DEF InOrder
  <2>3. Elems(sub[f].hist \o c) = Elems(sub[f].hist) \cup Elems(c)
    <3>1. sub[f].hist \in Seq(Nat) /\ c \in Seq(Nat) /\ 0 \in Nat
      BY <1>2, <1>7
    <3> QED
      BY <3>1, ElemsFacts
  <2> QED
    BY <1>7, <2>2, <2>3
<1>9. CASE HasMore(n)
  <2>1. PICK l \in Page(n) : Last(Ascending(Page(n))) = l /\ \A x \in From(n) : x \in Page(n) <=> x <= l
    BY <1>5, <1>9
  <2>2. l \in Nat /\ l \in Seqs /\ l >= n
    BY <1>5, <1>6
  <2>0. PICK k \in Nat : k = l + 1
    BY <2>2
  <2> DEFINE t == [sub[f] EXCEPT !.hist = h, !.last = l, !.from = k]
  <2>3. sub' = [sub EXCEPT ![f] = t]
    BY <1>1, <1>2, <1>4, <1>7, <1>8, <1>9, <2>1, <2>0 DEF ReadPage, SubTypes
  <2>4. /\ t \in Subs /\ t.at = "read" /\ t.sess = sub[f].sess /\ t.from = k /\ t.last = l
        /\ t.pend = sub[f].pend /\ t.hist = h /\ t.live = sub[f].live /\ t.ahead = sub[f].ahead
    BY <1>2, <2>2 DEF Subs
  <2> HIDE DEF t
  <2>5. sub'[f] = t /\ t.from = l + 1 /\ t.from >= 1 /\ t.last = t.from - 1
    BY <1>1, <2>0, <2>2, <2>3, <2>4 DEF SubTypes
  <2>6. Unused(f)' /\ Turns(f)' /\ Whole(f)'
    BY <2>4, <2>5 DEF Unused, Turns, Whole
  <2>7. PagesSent(f)'
    <3>1. ASSUME NEW m \in OutSeqs, m < l + 1 PROVE m \in Elems(h) \cup late
      <4>1. m \in Nat /\ m \in Seqs
        BY <1>6
      <4>2. CASE m < n
        BY <1>1, <1>4, <1>8, <4>2 DEF PagesSent
      <4>3. CASE ~(m < n)
        <5>1. m \in From(n) /\ m <= l
          BY <1>6, <2>2, <3>1, <4>1, <4>3
        <5> QED
          BY <1>8, <2>1, <5>1
      <4> QED
        BY <4>2, <4>3
    <3>2. t.from - 1 \in Seqs
      BY <2>2, <2>5
    <3> QED
      BY <1>1, <1>2, <1>3, <2>4, <2>5, <3>1, <3>2 DEF PagesSent
  <2>8. InOrder(f)'
    <3>1. \A m \in Elems(h) : m < l + 1
      <4>1. \A m \in Elems(sub[f].hist) : m \in Nat /\ m < n
        BY <1>1, <1>2, <1>4 DEF InOrder
      <4>2. \A m \in Page(n) : m \in Nat /\ m <= l
        BY <1>5, <2>1
      <4>3. ASSUME NEW m \in Elems(h) PROVE m < l + 1
        <5>1. CASE m \in Elems(sub[f].hist)
          BY <2>2, <4>1, <5>1
        <5>2. CASE m \in Page(n)
          BY <2>2, <4>2, <5>2
        <5> QED
          BY <1>8, <4>3, <5>1, <5>2
      <4> QED
        BY <4>3
    <3> QED
      BY <1>1, <1>8, <2>4, <2>5, <3>1 DEF InOrder
  <2> QED
    BY <1>1, <1>2, <2>3, <2>4, <2>5, <2>6, <2>7, <2>8, OneSub
<1>10. CASE ~HasMore(n)
  <2>1. PICK at \in {"done", "release"} : at = IF sub[f].sess = 0 THEN "done" ELSE "release"
    OBVIOUS
  <2> DEFINE t == [sub[f] EXCEPT !.hist = h, !.at = at]
  <2>2. sub' = [sub EXCEPT ![f] = t]
    BY <1>1, <1>2, <1>4, <1>7, <1>8, <1>10, <2>1 DEF ReadPage, SubTypes
  <2>3. /\ t \in Subs /\ t.at = at /\ t.sess = sub[f].sess /\ t.from = n /\ t.last = sub[f].last
        /\ t.pend = sub[f].pend /\ t.hist = h /\ t.live = sub[f].live /\ t.ahead = sub[f].ahead
    BY <1>2, <1>4 DEF Subs
  <2> HIDE DEF t
  <2>4. sub'[f] = t
    BY <1>1, <2>2 DEF SubTypes
  <2>5. Unused(f)' /\ Turns(f)'
    BY <2>1, <2>3, <2>4 DEF Unused, Turns
  <2>6. PagesSent(f)'
    BY <1>1, <1>2, <1>3, <1>4, <1>8, <2>3, <2>4 DEF PagesSent
  <2>7. Whole(f)'
    <3>1. ASSUME NEW m \in Flushed PROVE m \in Elems(h) \cup late
      <4>1. m \in OutSeqs /\ m \in Nat /\ m \in Seqs
        BY <1>6 DEF Flushed, OutSeqs, Seqs
      <4>2. CASE m < n
        BY <1>1, <1>4, <1>8, <4>1, <4>2 DEF PagesSent
      <4>3. CASE ~(m < n)
        <5>1. m \in From(n)
          BY <1>6, <4>1, <4>3
        <5> QED
          BY <1>5, <1>8, <1>10, <4>1, <5>1
      <4> QED
        BY <4>2, <4>3
    <3> QED
      BY <1>2, <1>3, <2>3, <2>4, <3>1 DEF Whole
  <2>8. InOrder(f)'
    BY <1>1, <1>8, <2>1, <2>3, <2>4 DEF InOrder
  <2> QED
    BY <1>1, <1>2, <1>4, <2>2, <2>3, <2>5, <2>6, <2>7, <2>8, OneSub
<1> QED
  BY <1>9, <1>10

\* A buffered chunk is sent, unless a page has covered it.
LEMMA DrainSub == ASSUME LogInv, LogInv', SubInv, NEW f \in Flushers, Drain(f) PROVE SubInv'
<1>1. SubTypes /\ Unused(f) /\ Turns(f) /\ PagesSent(f) /\ Whole(f) /\ InOrder(f) /\ LossInv
  BY DEF SubInv, SubOk, LogInv
<1>2. /\ sub[f] \in Subs /\ sub[f].from \in Nat /\ sub[f].pend \in Seq(Nat) /\ sub[f].live \in Seq(Nat)
      /\ Elems(sub[f].pend) \subseteq Nat /\ Elems(sub[f].live) \subseteq Nat /\ sub[f].at = "drain" /\ ~sub[f].replaying
      /\ sub[f].from >= 1 /\ sub[f].sess <= nsess /\ sub[f].last = sub[f].from - 1
      /\ UNCHANGED <<logVars, nsess, late>>
  BY <1>1, SubFacts DEF Drain, Turns, SubTypes
<1>3. OutSeqs' = OutSeqs /\ Seqs' = Seqs /\ Flushed' = Flushed
  BY <1>2 DEF logVars, jobVars, OutSeqs, Seqs, Stdout, Flushed
<1>4. CASE sub[f].pend = <<>>
  <2> DEFINE t == [sub[f] EXCEPT !.at = "live"]
  <2>1. sub' = [sub EXCEPT ![f] = t]
    BY <1>4 DEF Drain
  <2>2. /\ t \in Subs /\ t.at = "live" /\ t.sess = sub[f].sess /\ t.from = sub[f].from /\ t.last = sub[f].last
        /\ t.pend = sub[f].pend /\ t.hist = sub[f].hist /\ t.live = sub[f].live /\ t.ahead = sub[f].ahead
        /\ t.replaying = sub[f].replaying
    BY <1>2 DEF Subs
  <2> HIDE DEF t
  <2>3. sub'[f] = t
    BY <1>1, <2>1 DEF SubTypes
  <2>4. Unused(f)' /\ Turns(f)'
    BY <1>2, <1>4, <2>2, <2>3 DEF Unused, Turns
  <2>5. PagesSent(f)' /\ Whole(f)' /\ InOrder(f)'
    BY <1>1, <1>2, <1>3, <2>2, <2>3 DEF PagesSent, Whole, InOrder
  <2> QED
    BY <1>2, <2>1, <2>2, <2>4, <2>5, OneSub
<1>5. CASE sub[f].pend # <<>>
  <2>1. PICK n \in Nat, p \in Seq(Nat) :
          /\ n = Head(sub[f].pend) /\ p = Tail(sub[f].pend) /\ Rising(p)
          /\ Elems(sub[f].pend) = {n} \cup Elems(p) /\ Before({n}, Elems(p))
    BY <1>1, <1>2, <1>5, RisingTail DEF InOrder
  <2>2. Append(sub[f].live, n) \in Seq(Nat) /\ Orderly(Append(sub[f].live, n), sub[f].ahead)
    BY <1>1, <1>2, <2>1, OrderlyAppend DEF InOrder
  <2>3. Elems(Append(sub[f].live, n)) = Elems(sub[f].live) \cup {n}
    <3>1. sub[f].live \in Seq(Nat) /\ <<>> \in Seq(Nat)
      BY <1>2
    <3> QED
      BY <3>1, ElemsFacts
  <2>4. PICK v \in Seq(Nat) : v = IF n <= sub[f].last THEN sub[f].live ELSE Append(sub[f].live, n)
    BY <1>2, <2>2
  <2>5. /\ Orderly(v, sub[f].ahead) /\ Elems(v) \subseteq Elems(sub[f].live) \cup {n}
        /\ Elems(sub[f].live) \subseteq Elems(v)
        /\ n \in Elems(v) \/ n \in Elems(sub[f].hist) \cup late
    <3>1. CASE n <= sub[f].last
      <4>1. n < sub[f].from /\ n \in OutSeqs
        BY <1>1, <1>2, <2>1, <3>1 DEF PagesSent
      <4>2. v = sub[f].live
        BY <2>4, <3>1
      <4> QED
        BY <1>1, <4>1, <4>2 DEF PagesSent, InOrder
    <3>2. CASE ~(n <= sub[f].last)
      <4>1. v = Append(sub[f].live, n)
        BY <2>4, <3>2
      <4> QED
        BY <2>2, <2>3, <4>1
    <3> QED
      BY <3>1, <3>2
  <2> DEFINE t == [sub[f] EXCEPT !.pend = p, !.live = v]
  <2>6. sub' = [sub EXCEPT ![f] = t]
    BY <1>1, <1>5, <2>1, <2>4 DEF Drain, SubTypes
  <2>7. /\ t \in Subs /\ t.at = "drain" /\ t.sess = sub[f].sess /\ t.from = sub[f].from /\ t.last = sub[f].last
        /\ t.pend = p /\ t.hist = sub[f].hist /\ t.live = v /\ t.ahead = sub[f].ahead /\ ~t.replaying
    BY <1>2 DEF Subs
  <2> HIDE DEF t
  <2>8. sub'[f] = t
    BY <1>1, <2>6 DEF SubTypes
  <2>9. Unused(f)' /\ Turns(f)'
    BY <2>7, <2>8 DEF Unused, Turns
  <2>10. PagesSent(f)' /\ Whole(f)'
    BY <1>1, <1>2, <1>3, <2>1, <2>5, <2>7, <2>8 DEF PagesSent, Whole
  <2>11. InOrder(f)'
    <3>1. ASSUME NEW x \in Elems(v), NEW y \in Elems(p) PROVE x < y \/ (x # y /\ x \in sub[f].ahead)
      BY <1>1, <2>1, <2>5, <3>1 DEF InOrder, Before
    <3> QED
      BY <1>1, <2>1, <2>5, <2>7, <2>8, <3>1 DEF InOrder
  <2> QED
    BY <1>2, <2>1, <2>5, <2>6, <2>7, <2>9, <2>10, <2>11, OneSub
<1> QED
  BY <1>4, <1>5

LEMMA NextSub == LogInv /\ LogInv' /\ SubInv /\ [ReplayNext]_replayVars => SubInv'
<1> SUFFICES ASSUME LogInv, LogInv', SubInv, [ReplayNext]_replayVars PROVE SubInv'
  OBVIOUS
<1>1. [LogNext]_logVars
  BY LogSteps DEF replayVars
<1>2. CASE LogOnly \/ NewSession
  BY <1>1, <1>2, LogOnlySub
<1>3. CASE DaemonDies
  BY <1>3, DieSub
<1>4. CASE \E w \in Writers : InsertRow(w) \/ Deliver(w)
  BY <1>1, <1>4, InsertSub, DeliverSub
<1>5. CASE \E f \in Flushers : SubscribeStep(f)
  BY <1>5, LookupSub, MarkerSub, ReadPageSub, DrainSub DEF SubscribeStep
<1>6. CASE UNCHANGED replayVars
  <2>1. UNCHANGED <<logVars, sub, nsess, late>>
    BY <1>6 DEF replayVars, subVars
  <2>2. OutSeqs' = OutSeqs /\ rows' = rows /\ Flushed' = Flushed /\ phase' = phase
    BY <2>1 DEF logVars, jobVars, sessVars, OutSeqs, Seqs, Stdout, Flushed
  <2>3. SubTypes' /\ \A f \in Flushers : SubOk(f)'
    BY <1>1, <2>1, <2>2, Undisturbed DEF SubInv, SubTypes
  <2> QED
    BY <2>3 DEF SubInv
<1> QED
  BY <1>2, <1>3, <1>4, <1>5, <1>6 DEF ReplayNext

LEMMA SubAlways == ReplaySpec => [](LogInv /\ SubInv)
<1>1. ReplayInit => SubInv
  <2> SUFFICES ASSUME ReplayInit PROVE SubInv
    OBVIOUS
  <2>1. /\ nsess = 0 /\ late = {} /\ sub = [f \in Flushers |-> Idle] /\ phase = "dead" /\ rows = {}
    BY DEF ReplayInit, LogInit
  <2>2. Idle \in Subs
    BY EmptyFacts DEF Idle, Subs
  <2>3. SubTypes
    BY <2>1, <2>2 DEF SubTypes, Idle
  <2>4. OutSeqs = {}
    BY <2>1 DEF OutSeqs, Seqs, Stdout
  <2>5. ASSUME NEW f \in Flushers PROVE SubOk(f)
    <3>1. /\ sub[f].at = "idle" /\ sub[f].from = 1 /\ sub[f].pend = <<>> /\ sub[f].hist = <<>> /\ sub[f].live = <<>>
      BY <2>1 DEF Idle
    <3> QED
      BY <2>1, <2>4, <3>1, EmptyFacts
         DEF SubOk, Unused, Turns, PagesSent, Whole, InOrder, InPast, Rising
  <2> QED
    BY <2>3, <2>5 DEF SubInv
<1> QED
  BY <1>1, NextSub, LogInvAlways, ReplayUsesTheLog, PTL DEF ReplaySpec

\* A subscriber that went live in handleSubscribe has every chunk of output that
\* was ever flushed: replayed, buffered during the replay, or sent by its
\* callback; but for one that was inserted after a chunk with a larger seq.
THEOREM SubscribersMissNothing == ReplaySpec => []SubscriberMissesNothing
<1>1. LogInv /\ SubInv => SubscriberMissesNothing
  <2> SUFFICES ASSUME LogInv, SubInv PROVE SubscriberMissesNothing
    OBVIOUS
  <2>1. SubTypes /\ \A f \in Flushers : SubOk(f)
    BY DEF SubInv
  <2>2. LogTypeOK
    BY LogTypes DEF LogInv
  <2>3. sub \in [Flushers -> [at : {"idle", "found", "marker", "read", "release", "drain", "live", "done", "gone"},
                  sess : 0 .. nsess, replaying : BOOLEAN, from : Nat, last : Nat,
                  pend : Seq(Nat), hist : Seq(Nat), live : Seq(Nat), ahead : SUBSET Nat]]
    <3>1. \A f \in Flushers : sub[f] \in Subs /\ sub[f].sess \in 0 .. nsess
      BY <2>1, SubFacts DEF SubTypes
    <3> QED
      BY <2>1, <3>1 DEF SubTypes, Subs
  <2>4. ReplayTypeOK
    BY <2>1, <2>2, <2>3 DEF ReplayTypeOK, SubTypes
  <2>5. ASSUME NEW f \in Flushers, sub[f].at = "live", sub[f].sess = nsess PROVE Flushed \subseteq Received(f) \cup late
    <3>1. Turns(f) /\ Whole(f)
      BY <2>1 DEF SubOk
    <3> QED
      BY <2>5, <3>1, EmptyFacts DEF Turns, Whole, Received
  <2> QED
    BY <2>4, <2>5 DEF SubscriberMissesNothing
<1> QED
  BY <1>1, SubAlways, PTL

\* Pages come in ascending order and do not overlap; the live stream repeats
\* nothing, and is in order but for what the callback has sent past the buffer.
THEOREM StreamsComeInOrder == ReplaySpec => []StreamInOrder
<1>1. SubInv => StreamInOrder
  BY DEF SubInv, SubOk, InOrder, Rising, Orderly, StreamInOrder
<1> QED
  BY <1>1, SubAlways, PTL
=============================================================================
