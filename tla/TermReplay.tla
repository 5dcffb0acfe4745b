----------------------------- MODULE TermReplay -----------------------------
(***************************************************************************)
(* handleSubscribe of a WebSocket connection on top of the terminal's log: *)
(* register an output callback, flush the pending resize marker, replay    *)
(* the history page by page, then release the chunks that were flushed in  *)
(* the meantime.  Each member of Flushers is the read loop of a connection *)
(* that subscribes once; chunks are identified by their sequence numbers   *)
(* and only stdout counts as received (stdin is never sent, resize markers *)
(* are not part of the live stream).                                       *)
(***************************************************************************)
EXTENDS TermLog, SequencesExt

CONSTANT PageSize   \* the limit of one history page

ASSUME PageSizeAssumption == PageSize \in Nat \ {0}

VARIABLES
  nsess,   \* the number of the session object registered last
  sub,     \* the subscriptions
  late     \* seqs inserted when a larger one was already in the table

subVars == <<nsess, sub, late>>
replayVars == <<logVars, subVars>>

Idle == [at |-> "idle", sess |-> 0, replaying |-> FALSE, from |-> 1, last |-> 0,
         pend |-> <<>>, hist |-> <<>>, live |-> <<>>, ahead |-> {}]

\* fromSeq, and lastSeq as replayHistory keeps it: always just behind fromSeq
ReplayTypeOK ==
  /\ LogTypeOK
  /\ nsess \in Nat
  /\ sub \in [Flushers ->
       [at : {"idle", "found", "marker", "read", "release", "drain", "live", "done", "gone"},
        sess : 0 .. nsess, replaying : BOOLEAN, from : Nat, last : Nat,
        pend : Seq(Nat), hist : Seq(Nat), live : Seq(Nat), ahead : SUBSET Nat]]
  /\ late \subseteq Nat
  /\ \A f \in Flushers : sub[f].last = sub[f].from - 1

(***************************************************************************)
(* The steps of handleSubscribe                                            *)
(***************************************************************************)

\* terminals.Session(id): a dead terminal is only replayed
Lookup(f) ==
  /\ sub[f].at = "idle" /\ nsess > 0
  /\ sub' = [sub EXCEPT ![f].at = IF phase = "dead" THEN "marker" ELSE "found",
                        ![f].sess = IF phase = "dead" THEN 0 ELSE nsess]
  /\ UNCHANGED <<logVars, nsess, late>>

SubscribeOutput(f) ==
  /\ sub[f].at = "found"
  /\ sub' = [sub EXCEPT ![f].at = "marker", ![f].replaying = TRUE]
  /\ UNCHANGED <<logVars, nsess, late>>

\* FlushResizeMarker: its chunk is written before the replay starts (ReadPage)
FlushMarker(f) ==
  /\ sub[f].at = "marker"
  /\ FlushTake(f) \/ (pending = None /\ UNCHANGED logVars)
  /\ sub' = [sub EXCEPT ![f].at = "read"]
  /\ UNCHANGED <<nsess, late>>

\* ORDER BY seq ASC: each seq at its rank
Rank(S, x) == Cardinality({y \in S : y < x})
Ascending(S) == [i \in 1 .. Cardinality(S) |-> CHOOSE x \in S : Rank(S, x) = i - 1]

\* LogRepo.ReadRange: the first PageSize seqs from n on, and whether there are more
From(n) == {s \in {r.seq : r \in rows} : s >= n}
Page(n) == {s \in From(n) : Rank(From(n), s) < PageSize}
HasMore(n) == Cardinality(From(n)) > PageSize
Stdout(S) == {s \in S : \E r \in rows : r.seq = s /\ r.dir = "stdout"}

\* Mutant: the next page starts at the last row of this one
ReadPageOffByOne(f) ==
  LET s == sub[f] IN
  /\ s.at = "read" /\ stage[f] = "idle"
  /\ sub' = [sub EXCEPT ![f] =
       LET t == [s EXCEPT !.hist = @ \o Ascending(Stdout(Page(s.from)))] IN
       IF HasMore(s.from)
         THEN [t EXCEPT !.last = Last(Ascending(Page(s.from))),
                        !.from = Last(Ascending(Page(s.from)))]
         ELSE [t EXCEPT !.at = IF s.sess = 0 THEN "done" ELSE "release"]]
  /\ UNCHANGED <<logVars, nsess, late>>

\* Mutant: every page but the first is skipped
ReadPageFirstOnly(f) ==
  LET s == sub[f] IN
  /\ s.at = "read" /\ stage[f] = "idle"
  /\ sub' = [sub EXCEPT ![f] = [s EXCEPT !.hist = @ \o Ascending(Stdout(Page(s.from))),
                                         !.at = IF s.sess = 0 THEN "done" ELSE "release"]]
  /\ UNCHANGED <<logVars, nsess, late>>

\* replayHistory: one page; lastSeq is not advanced over the final page
ReadPage(f) ==
  LET s == sub[f] IN
  /\ s.at = "read" /\ stage[f] = "idle"
  /\ sub' = [sub EXCEPT ![f] =
       LET t == [s EXCEPT !.hist = @ \o Ascending(Stdout(Page(s.from)))] IN
       IF HasMore(s.from)
         THEN [t EXCEPT !.last = Last(Ascending(Page(s.from))),
                        !.from = Last(Ascending(Page(s.from))) + 1]
         ELSE [t EXCEPT !.at = IF s.sess = 0 THEN "done" ELSE "release"]]
  /\ UNCHANGED <<logVars, nsess, late>>

\* replaying = false: from here on the callback sends by itself
Release(f) ==
  /\ sub[f].at = "release"
  /\ sub' = [sub EXCEPT ![f].at = "drain", ![f].replaying = FALSE]
  /\ UNCHANGED <<logVars, nsess, late>>

\* Mutant: the buffer is released from its newest chunk
DrainNewestFirst(f) ==
  LET s == sub[f] IN
  /\ s.at = "drain"
  /\ sub' = [sub EXCEPT ![f] =
       IF s.pend = <<>> THEN [s EXCEPT !.at = "live"]
       ELSE [s EXCEPT !.pend = Front(@),
                      !.live = IF Last(s.pend) <= s.last THEN @ ELSE Append(@, Last(s.pend))]]
  /\ UNCHANGED <<logVars, nsess, late>>

\* One buffered chunk, skipped when the replay covered it
Drain(f) ==
  LET s == sub[f] IN
  /\ s.at = "drain"
  /\ sub' = [sub EXCEPT ![f] =
       IF s.pend = <<>> THEN [s EXCEPT !.at = "live"]
       ELSE [s EXCEPT !.pend = Tail(@),
                      !.live = IF Head(s.pend) <= s.last THEN @ ELSE Append(@, Head(s.pend))]]
  /\ UNCHANGED <<logVars, nsess, late>>

SubscribeStep(f) ==
  Lookup(f) \/ SubscribeOutput(f) \/ FlushMarker(f) \/ ReadPage(f) \/ Release(f) \/ Drain(f)

(***************************************************************************)
(* The log's steps, as the subscriptions see them                          *)
(***************************************************************************)

\* onFlushedChunk finds the registered session; its callbacks get the chunk
Attached(f) ==
  /\ sub[f].at \notin {"idle", "found", "gone"}
  /\ sub[f].sess = nsess /\ phase # "dead"

Deliver(w) ==
  LET n == Head(jobs[w]).seq IN
  /\ Notify(w)
  /\ sub' = [f \in Flushers |->
       IF ~Attached(f) \/ Head(jobs[w]).dir # "stdout" THEN sub[f]
       ELSE IF sub[f].replaying THEN [sub[f] EXCEPT !.pend = Append(@, n)]
       ELSE [sub[f] EXCEPT !.live = Append(@, n),
                           !.ahead = IF sub[f].pend = <<>> THEN @ ELSE @ \cup {n}]]
  /\ UNCHANGED <<nsess, late>>

InsertRow(w) ==
  /\ Insert(w)
  /\ late' = late \cup {r.seq : r \in {t \in rows' \ rows : \E u \in rows : u.seq > t.seq}}
  /\ UNCHANGED <<nsess, sub>>

NewSession ==
  /\ Restart
  /\ nsess' = nsess + 1
  /\ UNCHANGED <<sub, late>>

DaemonDies ==
  /\ Crash \/ InputPanics
  /\ sub' = [f \in Flushers |-> [sub[f] EXCEPT !.at = "gone"]]
  /\ UNCHANGED <<nsess, late>>

\* Steps the subscriptions do not notice
LogOnly ==
  /\ \/ PtyOutput \/ Resize \/ CloseLog \/ CloseStep \/ InputStep
     \/ \E a \in Aggs : AggStep(a)
     \/ \E f \in Flushers : FlusherStep(f)
     \/ \E w \in Writers : Alloc(w)
  /\ UNCHANGED subVars

ReplayInit ==
  /\ LogInit
  /\ nsess = 0
  /\ sub = [f \in Flushers |-> Idle]
  /\ late = {}

ReplayNext ==
  \/ LogOnly \/ NewSession \/ DaemonDies
  \/ \E w \in Writers : InsertRow(w) \/ Deliver(w)
  \/ \E f \in Flushers : SubscribeStep(f)

ReplaySpec == ReplayInit /\ [][ReplayNext]_replayVars

\* Goroutines keep running and the aggregator's timer fires; nothing is assumed
\* of what the PTY, the user and the clients do.
ReplayFairness ==
  /\ WF_replayVars(CloseStep /\ UNCHANGED subVars)
  /\ \A a \in Aggs : WF_replayVars(AggStep(a) /\ UNCHANGED subVars)
  /\ \A f \in Flushers : WF_replayVars(SubscribeStep(f))
  /\ \A f \in Flushers : WF_replayVars(FlusherStep(f) /\ UNCHANGED subVars)
  /\ \A w \in Writers : WF_replayVars((Alloc(w) /\ UNCHANGED subVars) \/ InsertRow(w) \/ Deliver(w))

ReplayFairSpec == ReplaySpec /\ ReplayFairness

(***************************************************************************)
(* Properties                                                              *)
(***************************************************************************)
Received(f) == Elems(sub[f].hist) \cup Elems(sub[f].live)

\* Chunks in the table whose flush has finished, callbacks included
Flushed == Stdout({r.seq : r \in rows})
             \ {Head(jobs[w]).seq : w \in {v \in Writers : stage[v] = "notify"}}

\* While the session lives, a subscriber that went live has every stdout chunk
\* ever flushed: from the history, the chunks buffered during the replay, or
\* the live stream.  The one exception is a chunk inserted after a chunk with a
\* larger seq: the replay's lastSeq may already be past it.
SubscriberMissesNothing ==
  /\ ReplayTypeOK
  /\ \A f \in Flushers : sub[f].at = "live" /\ sub[f].sess = nsess =>
       Flushed \subseteq Received(f) \cup late

\* The history comes in ascending order and no page overlaps another; the live
\* stream repeats nothing (what is sent twice, see NothingDuplicated, is sent
\* once by each), and it is in order but for the chunks the callback sent past
\* buffered ones that handleSubscribe was still releasing.
StreamInOrder ==
  \A f \in Flushers :
    /\ \A i, j \in DOMAIN sub[f].hist : i < j => sub[f].hist[i] < sub[f].hist[j]
    /\ \A i, j \in DOMAIN sub[f].live : i < j =>
         \/ sub[f].live[i] < sub[f].live[j]
         \/ sub[f].live[i] # sub[f].live[j] /\ sub[f].live[i] \in sub[f].ahead

\* handleSubscribe comes to its end, however many pages there are and whatever
\* is written meanwhile.
SubscribeCompletes ==
  \A f \in Flushers : sub[f].at = "read" ~> sub[f].at \in {"live", "done", "gone"}

(***************************************************************************)
(* What the comments say and the code does not do                          *)
(***************************************************************************)

\* "so nothing is lost or duplicated" (conn.go:173): no chunk is sent twice.
NothingDuplicated ==
  \A f \in Flushers : Elems(sub[f].hist) \cap Elems(sub[f].live) = {}

=============================================================================
