----------------------------- MODULE WsConnProofs -----------------------------
(***************************************************************************)
(* For any number of connections, mirror loops, grids and messages: what a *)
(* connection registered in the hub, in the session's subscriber tables    *)
(* and as mirror loops goes with it; a resize reaches the session, the     *)
(* screen and every client, and a mirror its client.                       *)
(***************************************************************************)
EXTENDS WsConn, SequenceTheorems, FiniteSetTheorems, TLAPS

Handlers == Conns \cup {Http}
Places == {"new", "read", "size", "cols", "screen", "cast", "casting", "mirror", "ack",
           "closing", "shut", "drain", "gone"}

ConnTypes ==
  /\ rd \in [Handlers -> [at : Places, v : Nat]]
  /\ sub \in [Conns -> Nat] /\ subs \in [Conns -> Nat]
  /\ listed \subseteq Conns \X Nat
  /\ loop \in [Loops -> [c : Conns \cup {"-"}, at : {"off", "tick", "look", "send"}, stop : BOOLEAN, v : Nat]]
  /\ size \in Nat /\ ver \in Nat

\* Whoever has Hub.mu for a broadcast is at that point of its handler, so a
\* panic there finds a connection that has not begun to close.
HolderCasts ==
  /\ hubMu \in {"free", "loop", "lost"} \cup Conns
  /\ hubMu \in Conns => rd[hubMu].at = "casting"
  /\ castTo # {} => hubMu \in {"loop"} \cup Conns

\* The session's tables hold what the connections' maps can cancel.
EntriesKnown == \A e \in listed : e[2] # 0 /\ sub[e[1]] = e[2]

Stopped(c) == \A l \in Loops : loop[l].c = c => loop[l].stop

\* Between the cancellation of an old subscription and the new one there is
\* none, and from close on there is none either, nor a loop that goes on.
SubsGone ==
  \A c \in Conns :
    /\ rd[c].at = "size" => sub[c] = 0
    /\ rd[c].at \in {"shut", "drain", "gone"} => sub[c] = 0 /\ Stopped(c)
    /\ rd[c].at = "gone" => c \notin conns

ConnInv == ConnTypes /\ HolderCasts /\ EntriesKnown /\ SubsGone

tables == <<conns, hubMu, castTo, rd, subVars, listed, loop>>
-----------------------------------------------------------------------------
(* Steps that leave the tables and the read loops alone.                   *)
LEMMA TablesKept ==
  ASSUME ConnInv, UNCHANGED tables, size' \in Nat, ver' \in Nat
  PROVE  ConnInv'
BY DEF ConnInv, ConnTypes, HolderCasts, EntriesKnown, SubsGone, Stopped, tables, subVars

(* A handler moves on, to a place where nothing is asked of the tables.    *)
LEMMA HandlerMoves ==
  ASSUME ConnInv, NEW x \in Handlers, rd[x].at # "casting",
         NEW l \in Places \ {"size", "casting", "shut", "drain", "gone"}, NEW v \in Nat,
         rd' = [rd EXCEPT ![x] = [at |-> l, v |-> v]],
         conns' \subseteq conns \cup {x},
         UNCHANGED <<hubMu, castTo, subVars, listed, loop>>, size' \in Nat, ver' \in Nat
  PROVE  ConnInv'
<1>1. rd' \in [Handlers -> [at : Places, v : Nat]] /\ rd'[x].at = l
      /\ \A y \in Handlers \ {x} : rd'[y] = rd[y]
  BY DEF ConnInv, ConnTypes
<1>2. ConnTypes'
  BY <1>1 DEF ConnInv, ConnTypes, subVars
<1>3. HolderCasts'
  BY <1>1 DEF ConnInv, HolderCasts, Handlers
<1>4. EntriesKnown'
  BY DEF ConnInv, EntriesKnown, subVars
<1>5. SubsGone'
  BY <1>1 DEF ConnInv, SubsGone, Stopped, subVars, Handlers
<1> QED
  BY <1>2, <1>3, <1>4, <1>5 DEF ConnInv

(* unsubscribe takes the one entry of c, and stops its loops.              *)
LEMMA UnsubscribedFacts ==
  ASSUME ConnInv, NEW c \in Conns, Unsubscribed(c)
  PROVE  /\ sub' \in [Conns -> Nat] /\ sub'[c] = 0 /\ \A d \in Conns \ {c} : sub'[d] = sub[d]
         /\ listed' \subseteq Conns \X Nat /\ EntriesKnown'
         /\ loop' \in [Loops -> [c : Conns \cup {"-"}, at : {"off", "tick", "look", "send"}, stop : BOOLEAN, v : Nat]]
         /\ Stopped(c)' /\ \A d \in Conns : Stopped(d) => Stopped(d)'
<1>1. sub' \in [Conns -> Nat] /\ sub'[c] = 0 /\ \A d \in Conns \ {c} : sub'[d] = sub[d]
  BY DEF ConnInv, ConnTypes, Unsubscribed
<1>2. listed' \subseteq Conns \X Nat
  BY DEF ConnInv, ConnTypes, Unsubscribed
<1>3. EntriesKnown'
  <2> SUFFICES ASSUME NEW e \in listed' PROVE e[2] # 0 /\ sub'[e[1]] = e[2]
    BY DEF EntriesKnown
  <2>1. e \in Conns \X Nat /\ e \in listed /\ e # <<c, sub[c]>> /\ e[2] # 0 /\ sub[e[1]] = e[2]
    BY DEF Unsubscribed, ConnInv, ConnTypes, EntriesKnown
  <2>2. e[1] \in Conns \ {c}
    BY <2>1
  <2> QED
    BY <1>1, <2>1, <2>2
<1>4. /\ loop' \in [Loops -> [c : Conns \cup {"-"}, at : {"off", "tick", "look", "send"}, stop : BOOLEAN, v : Nat]]
      /\ \A l \in Loops : loop'[l].c = loop[l].c /\ loop'[l].stop = (loop[l].stop \/ loop[l].c = c)
  BY DEF Unsubscribed, stopMirror, ConnInv, ConnTypes
<1>5. Stopped(c)' /\ \A d \in Conns : Stopped(d) => Stopped(d)'
  BY <1>4 DEF Stopped
<1> QED
  BY <1>1, <1>2, <1>3, <1>4, <1>5
-----------------------------------------------------------------------------
(* The handlers' steps.                                                    *)
LEMMA SubscribeStep ==
  ASSUME ConnInv, NEW c \in Conns, Unsubscribe(c) \/ Subscribe(c)
  PROVE  ConnInv'
<1>1. /\ rd[c].at = "read" /\ Unsubscribed(c)
      /\ UNCHANGED <<hubVars, subs, scrVars, sizeVars>>
      /\ rd' = rd \/ rd' = [rd EXCEPT ![c] = [at |-> "size", v |-> size]]
  BY DEF Unsubscribe, Subscribe, Reading, AtWith, sizeVars
<1>2. /\ rd' \in [Handlers -> [at : Places, v : Nat]] /\ rd'[c].at \in {"read", "size"}
      /\ \A y \in Handlers \ {c} : rd'[y] = rd[y]
  BY <1>1 DEF ConnInv, ConnTypes, Handlers, Places
<1>3. ConnTypes'
  BY <1>1, <1>2, UnsubscribedFacts DEF ConnInv, ConnTypes, scrVars, sizeVars
<1>4. HolderCasts'
  BY <1>1, <1>2 DEF ConnInv, HolderCasts, Handlers, hubVars
<1>5. SubsGone'
  BY <1>1, <1>2, UnsubscribedFacts DEF ConnInv, SubsGone, Handlers, hubVars
<1> QED
  BY <1>1, <1>3, <1>4, <1>5, UnsubscribedFacts DEF ConnInv

LEMMA ListenStep == ASSUME ConnInv, NEW c \in Conns, Listen(c) PROVE ConnInv'
<1> DEFINE n == subs[c] + 1
<1>1. /\ rd[c].at = "size" /\ sub' = [sub EXCEPT ![c] = n] /\ subs' = [subs EXCEPT ![c] = n]
      /\ listed' = listed \cup {<<c, n>>} /\ rd' = [rd EXCEPT ![c] = [at |-> "read", v |-> 0]]
      /\ UNCHANGED <<hubVars, loop, scrVars, sizeVars>>
  BY DEF Listen, At
<1>2. n \in Nat \ {0}
  BY DEF ConnInv, ConnTypes
<1> HIDE DEF n
<1>3. /\ rd' \in [Handlers -> [at : Places, v : Nat]] /\ rd'[c].at = "read"
      /\ \A y \in Handlers \ {c} : rd'[y] = rd[y]
  BY <1>1 DEF ConnInv, ConnTypes, Handlers, Places
<1>4. sub' \in [Conns -> Nat] /\ sub'[c] = n /\ \A d \in Conns \ {c} : sub'[d] = sub[d]
  BY <1>1, <1>2 DEF ConnInv, ConnTypes
<1>5. ConnTypes'
  BY <1>1, <1>2, <1>3, <1>4 DEF ConnInv, ConnTypes, scrVars, sizeVars
<1>6. HolderCasts'
  BY <1>1, <1>3 DEF ConnInv, HolderCasts, Handlers, hubVars
<1>7. EntriesKnown'
  <2> SUFFICES ASSUME NEW e \in listed' PROVE e[2] # 0 /\ sub'[e[1]] = e[2]
    BY DEF EntriesKnown
  <2>1. CASE e = <<c, n>>
    BY <1>2, <1>4, <2>1
  <2>2. CASE e \in listed
    <3>1. e \in Conns \X Nat /\ e[2] # 0 /\ sub[e[1]] = e[2] /\ sub[c] = 0
      BY <1>1, <2>2 DEF ConnInv, ConnTypes, EntriesKnown, SubsGone
    <3>2. e[1] \in Conns \ {c}
      BY <3>1
    <3> QED
      BY <1>4, <3>1, <3>2
  <2> QED
    BY <1>1, <2>1, <2>2
<1>8. SubsGone'
  BY <1>1, <1>3, <1>4 DEF ConnInv, SubsGone, Stopped, Handlers, hubVars
<1> QED
  BY <1>5, <1>6, <1>7, <1>8 DEF ConnInv

LEMMA ResizeSteps ==
  ASSUME ConnInv, NEW x \in Handlers,
         (\E z \in Sizes : Resize(x, z)) \/ SetSize(x) \/ SetScreen(x)
  PROVE  ConnInv'
<1>1. rd[x].v \in Nat /\ ver \in Nat /\ size \in Nat /\ Sizes \subseteq Nat
  BY WsConstants DEF ConnInv, ConnTypes
<1>2. ASSUME NEW z \in Sizes, Resize(x, z) PROVE ConnInv'
  BY <1>1, <1>2, HandlerMoves DEF Resize, Reading, AtWith, hubVars, sessVars, scrVars, Places
<1>3. CASE SetSize(x)
  BY <1>1, <1>3, HandlerMoves DEF SetSize, AtWith, hubVars, sessVars, scrVars, Places
<1>4. CASE SetScreen(x)
  <2>1. PICK l \in {"new", "cast"}, v \in Nat : rd' = [rd EXCEPT ![x] = [at |-> l, v |-> v]]
    BY <1>1, <1>4 DEF SetScreen, At, AtWith
  <2>2. rd[x].at = "screen" /\ UNCHANGED <<hubVars, subVars, listed, loop, size>> /\ ver' = ver + 1
    BY <1>4 DEF SetScreen, Redraw, sessVars
  <2>3. /\ l \in Places \ {"size", "casting", "shut", "drain", "gone"}
        /\ ver' \in Nat /\ size' \in Nat /\ rd[x].at # "casting"
        /\ conns' \subseteq conns \cup {x} /\ UNCHANGED <<hubMu, castTo, subVars, listed, loop>>
    BY <1>1, <2>2 DEF hubVars, Places
  <2> QED
    BY <2>1, <2>3, HandlerMoves
<1> QED
  BY <1>2, <1>3, <1>4

LEMMA BroadcastSteps ==
  ASSUME ConnInv, (\E c \in Conns : Broadcast(c) \/ Cast(c)) \/ CastEnds \/ broadcastLoop
  PROVE  ConnInv'
<1>1. /\ UNCHANGED <<conns, subVars, listed, loop, size, ver>>
      /\ hubMu' \in {"free", "loop", "lost"} \cup Conns
  BY DEF Broadcast, Cast, CastEnds, broadcastLoop, sessVars, scrVars, sizeVars, ConnInv, HolderCasts
<1>2. /\ rd' \in [Handlers -> [at : Places, v : Nat]]
      /\ \A y \in Conns : rd'[y] = rd[y] \/ rd'[y].at \in {"casting", "closing", "read"}
  BY DEF Broadcast, Cast, CastEnds, broadcastLoop, At, ConnInv, ConnTypes, Handlers, Places
<1>3. HolderCasts'
  BY <1>1, WsConstants DEF Broadcast, Cast, CastEnds, broadcastLoop, At, ConnInv, ConnTypes, HolderCasts, Handlers
<1>4. ConnTypes' /\ EntriesKnown' /\ SubsGone'
  BY <1>1, <1>2 DEF ConnInv, ConnTypes, EntriesKnown, SubsGone, Stopped, subVars
<1> QED
  BY <1>3, <1>4 DEF ConnInv
-----------------------------------------------------------------------------
(* Mirror loops: one is started only for a connection that is in its       *)
(* handler, hence not closing, and none gets its stop channel back.        *)
LEMMA MirrorSteps ==
  ASSUME ConnInv, NEW c \in Conns, MirrorOn(c) \/ MirrorOff(c)
  PROVE  ConnInv'
<1>1. /\ rd[c].at = "read" /\ loop' = stopMirror(c)
      /\ UNCHANGED <<hubVars, subVars, listed, size, ver>>
      /\ rd' = rd \/ rd' = [rd EXCEPT ![c] = [at |-> "mirror", v |-> ver]]
  BY DEF MirrorOn, MirrorOff, Reading, AtWith, sizeVars, scrVars, sessVars
<1>2. /\ rd' \in [Handlers -> [at : Places, v : Nat]] /\ rd'[c].at \in {"read", "mirror"}
      /\ \A y \in Handlers \ {c} : rd'[y] = rd[y]
  <2>1. rd \in [Handlers -> [at : Places, v : Nat]] /\ c \in Handlers /\ ver \in Nat
    BY DEF ConnInv, ConnTypes, Handlers
  <2>2. CASE rd' = rd
    BY <1>1, <2>1, <2>2
  <2>3. CASE rd' = [rd EXCEPT ![c] = [at |-> "mirror", v |-> ver]]
    BY <2>1, <2>3 DEF Places
  <2> QED
    BY <1>1, <2>2, <2>3
<1>3. /\ loop' \in [Loops -> [c : Conns \cup {"-"}, at : {"off", "tick", "look", "send"}, stop : BOOLEAN, v : Nat]]
      /\ \A l \in Loops : loop'[l].c = loop[l].c /\ loop'[l].stop = (loop[l].stop \/ loop[l].c = c)
  <2>1. /\ loop \in [Loops -> [c : Conns \cup {"-"}, at : {"off", "tick", "look", "send"}, stop : BOOLEAN, v : Nat]]
        /\ loop' = [l \in Loops |-> IF loop[l].c = c THEN [loop[l] EXCEPT !.stop = TRUE] ELSE loop[l]]
    BY <1>1 DEF stopMirror, ConnInv, ConnTypes
  <2> QED
    BY <2>1
<1>4. ConnTypes' /\ HolderCasts' /\ EntriesKnown'
  BY <1>1, <1>2, <1>3 DEF ConnInv, ConnTypes, HolderCasts, EntriesKnown, hubVars, subVars, Handlers
<1>5. SubsGone'
  BY <1>1, <1>2, <1>3 DEF ConnInv, SubsGone, Stopped, hubVars, subVars, Handlers
<1> QED
  BY <1>4, <1>5 DEF ConnInv

LEMMA MirrorStartStep == ASSUME ConnInv, NEW c \in Conns, MirrorStart(c) PROVE ConnInv'
<1>1. PICK l \in Loops \cup {CHOOSE l \in Loops : loop[l] = Off} :
        loop' = [loop EXCEPT ![l] = [c |-> c, at |-> "tick", stop |-> FALSE, v |-> 0]]
  BY DEF MirrorStart
<1>2. /\ rd[c].at = "mirror" /\ rd' = [rd EXCEPT ![c] = [at |-> "ack", v |-> 0]]
      /\ UNCHANGED <<hubVars, subVars, listed, size, ver>>
  BY DEF MirrorStart, At, sizeVars, scrVars, sessVars
<1>3. /\ rd' \in [Handlers -> [at : Places, v : Nat]] /\ rd'[c].at = "ack"
      /\ \A y \in Handlers \ {c} : rd'[y] = rd[y]
  BY <1>2 DEF ConnInv, ConnTypes, Handlers, Places
<1>4. /\ loop' \in [Loops -> [c : Conns \cup {"-"}, at : {"off", "tick", "look", "send"}, stop : BOOLEAN, v : Nat]]
      /\ \A k \in Loops : loop'[k] = loop[k] \/ loop'[k].c = c
  BY <1>1 DEF ConnInv, ConnTypes
<1>5. ConnTypes' /\ HolderCasts' /\ EntriesKnown'
  BY <1>2, <1>3, <1>4 DEF ConnInv, ConnTypes, HolderCasts, EntriesKnown, hubVars, subVars, Handlers
<1>6. SubsGone'
  BY <1>2, <1>3, <1>4 DEF ConnInv, SubsGone, Stopped, hubVars, subVars, Handlers
<1> QED
  BY <1>5, <1>6 DEF ConnInv

LEMMA LoopSteps == ASSUME ConnInv, NEW l \in Loops, Mirrors(l) PROVE ConnInv'
<1>1. UNCHANGED <<rd, hubVars, subVars, listed, size, ver>>
  BY DEF Mirrors, LoopTick, LoopSnapshot, LoopSend, LoopEnds, sizeVars, scrVars, sessVars
<1>2. /\ loop' \in [Loops -> [c : Conns \cup {"-"}, at : {"off", "tick", "look", "send"}, stop : BOOLEAN, v : Nat]]
      /\ \A k \in Loops : loop'[k].stop \/ (loop'[k].c = loop[k].c /\ loop'[k].stop = loop[k].stop)
  <2>1. CASE LoopTick(l)
    BY <2>1 DEF LoopTick, ConnInv, ConnTypes
  <2>2. CASE LoopSnapshot(l)
    <3>1. loop' = [loop EXCEPT ![l].at = "send", ![l].v = ver] /\ ver \in Nat
      BY <2>2 DEF LoopSnapshot, ConnInv, ConnTypes
    <3> QED
      BY <3>1 DEF ConnInv, ConnTypes
  <2>3. CASE LoopSend(l)
    <3>1. loop' = [loop EXCEPT ![l].at = "tick", ![l].v = 0]
      BY <2>3 DEF LoopSend
    <3> QED
      BY <3>1 DEF ConnInv, ConnTypes
  <2>4. CASE LoopEnds(l)
    BY <2>4 DEF LoopEnds, Off, ConnInv, ConnTypes
  <2> QED
    BY <2>1, <2>2, <2>3, <2>4 DEF Mirrors
<1> QED
  BY <1>1, <1>2 DEF ConnInv, ConnTypes, HolderCasts, EntriesKnown, SubsGone, Stopped, hubVars, subVars
-----------------------------------------------------------------------------
(* close, in its order: the callbacks and loops go before the connection   *)
(* leaves the hub.                                                         *)
LEMMA CloseSteps ==
  ASSUME ConnInv, NEW c \in Conns, CloseCancels(c) \/ CloseSend(c) \/ Unregister(c)
  PROVE  ConnInv'
<1>1. /\ rd[c].at \in {"closing", "shut", "drain"}
      /\ UNCHANGED <<hubMu, castTo, subs, size, ver>>
      /\ \/ /\ CloseCancels(c) /\ Unsubscribed(c) /\ UNCHANGED conns
            /\ rd' = [rd EXCEPT ![c] = [at |-> "shut", v |-> 0]]
         \/ /\ rd[c].at = "shut" /\ UNCHANGED <<conns, subVars, listed, loop>>
            /\ rd' = [rd EXCEPT ![c] = [at |-> "drain", v |-> 0]]
         \/ /\ rd[c].at = "drain" /\ conns' = conns \ {c} /\ UNCHANGED <<subVars, listed, loop>>
            /\ rd' = [rd EXCEPT ![c] = [at |-> "gone", v |-> 0]]
  BY DEF CloseCancels, CloseSend, Unregister, At, hubVars, sizeVars, scrVars, sessVars, subVars
<1>2. /\ rd' \in [Handlers -> [at : Places, v : Nat]]
      /\ rd'[c].at \in {"shut", "drain", "gone"}
      /\ \A y \in Handlers \ {c} : rd'[y] = rd[y]
  BY <1>1 DEF ConnInv, ConnTypes, Handlers, Places
<1>3. /\ sub' \in [Conns -> Nat] /\ sub'[c] = 0 /\ \A d \in Conns \ {c} : sub'[d] = sub[d]
      /\ listed' \subseteq Conns \X Nat /\ EntriesKnown'
      /\ loop' \in [Loops -> [c : Conns \cup {"-"}, at : {"off", "tick", "look", "send"}, stop : BOOLEAN, v : Nat]]
      /\ Stopped(c)' /\ \A d \in Conns : Stopped(d) => Stopped(d)'
  <2>1. CASE Unsubscribed(c)
    BY <2>1, UnsubscribedFacts
  <2>2. CASE rd[c].at \in {"shut", "drain"} /\ UNCHANGED <<subVars, listed, loop>>
    BY <2>2 DEF ConnInv, ConnTypes, EntriesKnown, SubsGone, Stopped, subVars
  <2> QED
    BY <1>1, <2>1, <2>2
<1>4. ConnTypes' /\ HolderCasts'
  BY <1>1, <1>2, <1>3 DEF ConnInv, ConnTypes, HolderCasts, Handlers
<1>5. SubsGone'
  <2>1. conns' \subseteq conns /\ (rd'[c].at = "gone" => c \notin conns')
    BY <1>1, <1>2 DEF ConnInv, ConnTypes, Handlers
  <2> QED
    BY <1>2, <1>3, <2>1 DEF ConnInv, SubsGone, Handlers
<1> QED
  BY <1>3, <1>4, <1>5 DEF ConnInv

LEMMA PlainMoves ==
  ASSUME ConnInv, NEW c \in Conns, Accept(c) \/ MirrorAck(c) \/ ReadFails(c)
  PROVE  ConnInv'
<1>1. size \in Nat /\ ver \in Nat /\ c \in Handlers
  BY DEF ConnInv, ConnTypes, Handlers
<1>2. CASE Accept(c)
  BY <1>1, <1>2, HandlerMoves DEF Accept, At, sessVars, sizeVars, scrVars, Places
<1>3. CASE MirrorAck(c)
  BY <1>1, <1>3, HandlerMoves DEF MirrorAck, At, hubVars, sessVars, sizeVars, scrVars, Places
<1>4. CASE ReadFails(c)
  BY <1>1, <1>4, HandlerMoves DEF ReadFails, At, hubVars, sessVars, sizeVars, scrVars, Places
<1> QED
  BY <1>2, <1>3, <1>4
-----------------------------------------------------------------------------
LEMMA InitConnInv == ASSUME WsInit PROVE ConnInv
<1>1. rd \in [Handlers -> [at : Places, v : Nat]] /\ \A x \in Handlers : rd[x].at = "new"
  BY DEF WsInit, Handlers, Places
<1>2. loop \in [Loops -> [c : Conns \cup {"-"}, at : {"off", "tick", "look", "send"}, stop : BOOLEAN, v : Nat]]
  BY DEF WsInit, Off
<1>3. ConnTypes
  BY <1>1, <1>2 DEF WsInit, ConnTypes
<1>4. HolderCasts /\ EntriesKnown /\ SubsGone
  BY <1>1, WsConstants DEF WsInit, HolderCasts, EntriesKnown, SubsGone, Handlers
<1> QED
  BY <1>3, <1>4 DEF ConnInv

LEMMA NextConnInv == ASSUME ConnInv, [WsNext]_wsVars PROVE ConnInv'
<1>1. size \in Nat /\ ver \in Nat /\ Conns \subseteq Handlers /\ Http \in Handlers
  BY DEF ConnInv, ConnTypes, Handlers
<1>2. ASSUME NEW c \in Conns,
             Reply(c) \/ ResizeFails(c) \/ PeerLeaves(c) \/ heartbeat(c) \/ PumpWrites(c) \/ PumpEnds(c)
      PROVE  ConnInv'
  BY <1>1, <1>2, TablesKept DEF Reply, ResizeFails, PeerLeaves, heartbeat, PumpWrites, PumpEnds, tables,
     hubVars, sessVars, scrVars, sizeVars
<1>3. ASSUME Calls \/ Output \/ Exit PROVE ConnInv'
  <2>1. UNCHANGED tables /\ UNCHANGED size /\ (ver' = ver \/ ver' = ver + 1)
    BY <1>3 DEF Calls, OutputCall, StatusCall, SessionGone, Output, Exit, Redraw, tables,
       hubVars, sessVars, scrVars, sizeVars
  <2> QED
    BY <1>1, <2>1, TablesKept
<1>4. ASSUME NEW c \in Conns, Handles(c) PROVE ConnInv'
  BY <1>1, <1>2, <1>4, SubscribeStep, MirrorSteps, ResizeSteps DEF Handles
<1>5. ASSUME NEW c \in Conns, Goes(c) PROVE ConnInv'
  BY <1>1, <1>5, ListenStep, ResizeSteps, BroadcastSteps, MirrorStartStep, PlainMoves, CloseSteps DEF Goes
<1>6. ASSUME NEW c \in Conns, Accept(c) \/ Pumps(c) PROVE ConnInv'
  BY <1>2, <1>6, PlainMoves DEF Pumps
<1>7. ASSUME HttpGoes \/ \E z \in Sizes : Resize(Http, z) PROVE ConnInv'
  BY <1>1, <1>7, ResizeSteps DEF HttpGoes
<1>8. ASSUME Casts \/ broadcastLoop PROVE ConnInv'
  BY <1>8, BroadcastSteps DEF Casts
<1>9. CASE UNCHANGED wsVars
  BY <1>1, <1>9, TablesKept DEF wsVars, tables, hubVars, sessVars, scrVars, sizeVars
<1> QED
  BY <1>2, <1>3, <1>4, <1>5, <1>6, <1>7, <1>8, <1>9, LoopSteps DEF WsNext

(* The types and the tables, in every reachable state.                     *)
THEOREM ConnInvariant == WsSpec => []ConnInv
<1>1. WsInit => ConnInv
  BY InitConnInv
<1>2. ConnInv /\ [WsNext]_wsVars => ConnInv'
  BY NextConnInv
<1> QED
  BY <1>1, <1>2, PTL DEF WsSpec

(* After a connection's run has returned, the hub, the session's tables    *)
(* and the mirror loops have let go of it (conn.go's close and subscribe). *)
THEOREM ConnectionsLeaveNothing == WsSpec => []NothingOutlivesTheConnection
<1>1. ConnInv => NothingOutlivesTheConnection
  BY DEF ConnInv, ConnTypes, EntriesKnown, SubsGone, Stopped, NothingOutlivesTheConnection
<1> QED
  BY <1>1, ConnInvariant, PTL
-----------------------------------------------------------------------------
(***************************************************************************)
(* The grids.  GridsAgree speaks of moments at which no resize is under    *)
(* way; in between one of the three grids after the other changes, and the *)
(* clients are told last, one by one.                                      *)
(***************************************************************************)
Resizing == {"cols", "screen", "cast", "casting"}
Messages == {"other", "screen", "size"} \X Nat

QueueTypes ==
  /\ sendq \in [Conns -> Seq(Messages)] /\ grid \in [Conns -> Nat]
  /\ castMsg \in Messages /\ castMsg[1] # "screen"

\* What a client that has g ends with, of kind k, once it received its queue.
Ends(k, q, g, z) ==
  \/ \E i \in DOMAIN q : q[i] = <<k, z>> /\ \A j \in DOMAIN q : j > i => q[j][1] # k
  \/ (\A i \in DOMAIN q : q[i][1] # k) /\ g = z
Told(c, z) == Ends("size", sendq[c], grid[c], z)

\* The hub knows the connections between Accept and Unregister; nobody speaks
\* of a grid to another one.
HubKnows ==
  \A c \in Conns :
    /\ rd[c].at \notin {"new", "gone"} => c \in conns
    /\ rd[c].at = "new" => c \notin conns /\ c \notin castTo /\ Told(c, 0)

\* One resize at a time takes its grid from the PTY to the session, to the
\* screen and into the broadcast.
OneGrid ==
  /\ \A x, y \in Handlers : rd[x].at \in Resizing /\ rd[y].at \in Resizing => x = y
  /\ (\A x \in Handlers : rd[x].at # "cols") => ptySize = size
  /\ (\A x \in Handlers : rd[x].at \notin {"cols", "screen"}) => scrSize = size
  /\ \A x \in Handlers : /\ rd[x].at = "cols" => rd[x].v = ptySize
                         /\ rd[x].at \in {"screen", "cast"} => rd[x].v = size
  /\ hubMu \in Conns => castMsg = <<"size", size>>

\* A resize is still going to tell c.
Awaits(c) == (\E x \in Conns : rd[x].at \in {"screen", "cast"}) \/ (hubMu \in Conns /\ c \in castTo)

ClientsTold ==
  \A c \in Conns : rd[c].at # "gone" => Told(c, 0) \/ Told(c, size) \/ c \in oldGrid \/ Awaits(c)

GridInv ==
  /\ QueueTypes /\ HubKnows
  /\ hubMu = "loop" => castMsg = Nothing
  /\ ~crossed => OneGrid /\ (hubMu # "lost" => ClientsTold)
-----------------------------------------------------------------------------
LEMMA AppendEnds ==
  ASSUME NEW q \in Seq(Messages), NEW m \in Messages, NEW k
  PROVE  /\ Append(q, m) \in Seq(Messages)
         /\ m[1] # k => \A g, z : Ends(k, q, g, z) => Ends(k, Append(q, m), g, z)
         /\ m[1] = k => \A g : Ends(k, Append(q, m), g, m[2])
<1>1. /\ Append(q, m) \in Seq(Messages) /\ Len(q) \in Nat
      /\ DOMAIN q = 1 .. Len(q) /\ DOMAIN Append(q, m) = 1 .. Len(q) + 1
      /\ Append(q, m)[Len(q) + 1] = m /\ \A i \in 1 .. Len(q) : Append(q, m)[i] = q[i]
  BY AppendProperties, LenProperties
<1>2. ASSUME m[1] # k, NEW g, NEW z, Ends(k, q, g, z) PROVE Ends(k, Append(q, m), g, z)
  <2>1. CASE \E i \in DOMAIN q : q[i] = <<k, z>> /\ \A j \in DOMAIN q : j > i => q[j][1] # k
    <3>1. PICK i \in 1 .. Len(q) : q[i] = <<k, z>> /\ \A j \in 1 .. Len(q) : j > i => q[j][1] # k
      BY <1>1, <2>1
    <3>2. ASSUME NEW j \in 1 .. Len(q) + 1, j > i PROVE Append(q, m)[j][1] # k
      <4>1. CASE j = Len(q) + 1
        BY <1>1, <1>2, <4>1
      <4>2. CASE j \in 1 .. Len(q)
        BY <1>1, <3>1, <3>2, <4>2
      <4> QED
        BY <1>1, <4>1, <4>2
    <3>3. i \in 1 .. Len(q) + 1 /\ Append(q, m)[i] = <<k, z>>
      BY <1>1, <3>1
    <3> QED
      BY <1>1, <3>2, <3>3 DEF Ends
  <2>2. CASE (\A i \in DOMAIN q : q[i][1] # k) /\ g = z
    <3>1. ASSUME NEW j \in 1 .. Len(q) + 1 PROVE Append(q, m)[j][1] # k
      <4>1. CASE j = Len(q) + 1
        BY <1>1, <1>2, <4>1
      <4>2. CASE j \in 1 .. Len(q)
        BY <1>1, <2>2, <4>2
      <4> QED
        BY <1>1, <4>1, <4>2
    <3> QED
      BY <1>1, <2>2, <3>1 DEF Ends
  <2> QED
    BY <1>2, <2>1, <2>2 DEF Ends
<1>3. ASSUME m[1] = k, NEW g PROVE Ends(k, Append(q, m), g, m[2])
  <2>1. m = <<k, m[2]>>
    BY <1>3 DEF Messages
  <2>2. /\ Len(q) + 1 \in DOMAIN Append(q, m) /\ Append(q, m)[Len(q) + 1] = <<k, m[2]>>
        /\ \A j \in DOMAIN Append(q, m) : ~(j > Len(q) + 1)
    BY <1>1, <2>1
  <2> QED
    BY <2>2 DEF Ends
<1> QED
  BY <1>1, <1>2, <1>3

\* The write pump takes the oldest message.
LEMMA TailEnds ==
  ASSUME NEW q \in Seq(Messages), q # <<>>, NEW g \in Nat, NEW k
  PROVE  /\ Tail(q) \in Seq(Messages) /\ Head(q) \in Messages
         /\ \A z : Ends(k, q, g, z) => Ends(k, Tail(q), IF Head(q)[1] = k THEN Head(q)[2] ELSE g, z)
<1>1. /\ Tail(q) \in Seq(Messages) /\ Head(q) \in Messages /\ Head(q) = q[1]
      /\ Len(q) \in Nat \ {0} /\ DOMAIN q = 1 .. Len(q)
      /\ DOMAIN Tail(q) = 1 .. Len(q) - 1 /\ \A i \in 1 .. Len(q) - 1 : Tail(q)[i] = q[i + 1]
  <2>1. /\ Tail(q) \in Seq(Messages) /\ Head(q) \in Messages /\ Len(Tail(q)) = Len(q) - 1
        /\ \A i \in 1 .. Len(Tail(q)) : Tail(q)[i] = q[i + 1]
    BY HeadTailProperties
  <2>2. Head(q) = q[1]
    OBVIOUS
  <2>3. Len(q) \in Nat \ {0} /\ DOMAIN q = 1 .. Len(q) /\ DOMAIN Tail(q) = 1 .. Len(Tail(q))
    BY <2>1, LenProperties, EmptySeq
  <2> QED
    BY <2>1, <2>2, <2>3
<1> DEFINE h == IF Head(q)[1] = k THEN Head(q)[2] ELSE g
<1>2. ASSUME NEW z, Ends(k, q, g, z) PROVE Ends(k, Tail(q), h, z)
  <2>1. CASE \E i \in DOMAIN q : q[i] = <<k, z>> /\ \A j \in DOMAIN q : j > i => q[j][1] # k
    <3>1. PICK i \in 1 .. Len(q) : q[i] = <<k, z>> /\ \A j \in 1 .. Len(q) : j > i => q[j][1] # k
      BY <1>1, <2>1
    <3>2. CASE i = 1
      <4>1. h = z
        BY <1>1, <3>1, <3>2
      <4>2. \A j \in 1 .. Len(q) - 1 : Tail(q)[j] = q[j + 1] /\ j + 1 \in 1 .. Len(q) /\ j + 1 > i
        BY <1>1, <3>2
      <4>3. \A j \in DOMAIN Tail(q) : Tail(q)[j][1] # k
        BY <1>1, <3>1, <4>2
      <4> QED
        BY <4>1, <4>3 DEF Ends
    <3>3. CASE i # 1
      <4>1. i - 1 \in 1 .. Len(q) - 1 /\ Tail(q)[i - 1] = <<k, z>>
        BY <1>1, <3>1, <3>3
      <4>2. \A j \in 1 .. Len(q) - 1 : Tail(q)[j] = q[j + 1] /\ j + 1 \in 1 .. Len(q) /\ (j > i - 1 => j + 1 > i)
        BY <1>1, <3>1
      <4>3. \A j \in DOMAIN Tail(q) : j > i - 1 => Tail(q)[j][1] # k
        BY <1>1, <3>1, <4>2
      <4> QED
        BY <1>1, <4>1, <4>3 DEF Ends
    <3> QED
      BY <3>2, <3>3
  <2>2. CASE (\A i \in DOMAIN q : q[i][1] # k) /\ g = z
    <3>1. h = z
      BY <1>1, <2>2
    <3>2. \A j \in 1 .. Len(q) - 1 : Tail(q)[j] = q[j + 1] /\ j + 1 \in 1 .. Len(q)
      BY <1>1
    <3>3. \A j \in DOMAIN Tail(q) : Tail(q)[j][1] # k
      BY <1>1, <2>2, <3>2
    <3> QED
      BY <3>1, <3>3 DEF Ends
  <2> QED
    BY <1>2, <2>1, <2>2 DEF Ends
<1> QED
  BY <1>1, <1>2

\* trySend appends, or drops.
LEMMA SendFacts ==
  ASSUME QueueTypes, NEW c, NEW m \in Messages, trySend(c, m)
  PROVE  /\ sendq' \in [Conns -> Seq(Messages)]
         /\ \A d \in Conns : sendq'[d] = IF d = c /\ ~Full(c) THEN Append(sendq[d], m) ELSE sendq[d]
<1>1. sendq \in [Conns -> Seq(Messages)]
  BY DEF QueueTypes
<1>2. sendq' = [d \in Conns |-> IF d = c /\ ~Full(c) THEN Append(sendq[d], m) ELSE sendq[d]]
  BY <1>1 DEF trySend
<1>3. \A d \in Conns : Append(sendq[d], m) \in Seq(Messages)
  BY <1>1, AppendEnds
<1> QED
  BY <1>1, <1>2, <1>3

\* A message about something else than the grid.
LEMMA OtherSend ==
  ASSUME QueueTypes, NEW c, NEW m \in Messages, m[1] # "size", trySend(c, m), grid' = grid
  PROVE  sendq' \in [Conns -> Seq(Messages)] /\ \A d \in Conns, z \in Nat : Told(d, z) => Told(d, z)'
<1>1. sendq' \in [Conns -> Seq(Messages)] /\ \A d \in Conns : sendq'[d] \in {sendq[d], Append(sendq[d], m)}
  BY SendFacts
<1>2. \A d \in Conns : sendq[d] \in Seq(Messages)
  BY DEF QueueTypes
<1> QED
  BY <1>1, <1>2, AppendEnds DEF Told
-----------------------------------------------------------------------------
(* Steps that speak of no grid: the handlers move where no resize is.      *)
Elsewhere == Places \ (Resizing \cup {"new"})
MovesElsewhere ==
  /\ rd' \in [Handlers -> [at : Places, v : Nat]]
  /\ \A x \in Handlers :
       rd'[x] = rd[x] \/ (rd[x].at \in Elsewhere /\ rd'[x].at \in Elsewhere \ {"gone"} /\ rd[x].at # "gone")
NoGrid == UNCHANGED <<conns, hubMu, castTo, castMsg, sizeVars, oldGrid, crossed>>

LEMMA QuietGrids ==
  ASSUME ConnInv, GridInv, NoGrid, MovesElsewhere,
         sendq' \in [Conns -> Seq(Messages)], grid' \in [Conns -> Nat],
         \A d \in Conns, z \in Nat : Told(d, z) => Told(d, z)'
  PROVE  GridInv'
<1>1. UNCHANGED <<conns, hubMu, castTo, castMsg, ptySize, size, scrSize, oldGrid, crossed>> /\ size \in Nat
  BY DEF NoGrid, sizeVars, ConnInv, ConnTypes
<1>2. \A x \in Handlers : rd'[x] = rd[x] \/ (rd[x].at \notin Resizing \cup {"new", "gone"} /\ rd'[x].at \notin Resizing \cup {"new", "gone"})
  BY DEF MovesElsewhere, Elsewhere
<1>3. QueueTypes'
  BY <1>1 DEF GridInv, QueueTypes
<1>4. HubKnows'
  BY <1>1, <1>2 DEF GridInv, HubKnows, Handlers
<1>5. OneGrid => OneGrid'
  BY <1>1, <1>2 DEF OneGrid, Resizing
<1>6. \A c \in Conns : Awaits(c) => Awaits(c)'
  BY <1>1, <1>2 DEF Awaits, Resizing, Handlers
<1>7. ClientsTold => ClientsTold'
  BY <1>1, <1>2, <1>6 DEF ClientsTold, Handlers
<1> QED
  BY <1>1, <1>3, <1>4, <1>5, <1>7 DEF GridInv

LEMMA QuietMoves ==
  ASSUME ConnInv, GridInv, NoGrid, grid' = grid, NEW c,
         sendq' = sendq \/ \E m \in Messages : m[1] # "size" /\ trySend(c, m),
         \/ rd' = rd
         \/ /\ c \in Handlers /\ rd[c].at \in Elsewhere \ {"gone"}
            /\ \E l \in Elsewhere \ {"gone"}, v \in Nat : rd' = [rd EXCEPT ![c] = [at |-> l, v |-> v]]
  PROVE  GridInv'
<1>1. sendq' \in [Conns -> Seq(Messages)] /\ \A d \in Conns, z \in Nat : Told(d, z) => Told(d, z)'
  <2>1. CASE sendq' = sendq
    BY <2>1 DEF GridInv, QueueTypes, Told
  <2> QED
    BY <2>1, OtherSend DEF GridInv
<1>2. MovesElsewhere
  <2>1. rd \in [Handlers -> [at : Places, v : Nat]] /\ Elsewhere \subseteq Places
    BY DEF ConnInv, ConnTypes, Elsewhere
  <2> QED
    BY <2>1 DEF MovesElsewhere
<1> QED
  BY <1>1, <1>2, QuietGrids DEF GridInv, QueueTypes

\* What the handlers send besides a grid.
LEMMA OtherMessages ==
  /\ Nothing \in Messages /\ Nothing[1] \notin {"size", "screen"}
  /\ \A v \in Nat : <<"screen", v>> \in Messages /\ <<"screen", v>>[1] # "size"
BY DEF Messages, Nothing

LEMMA QuietHandlers ==
  ASSUME ConnInv, GridInv, NEW c \in Conns,
         \/ Reply(c) \/ Unsubscribe(c) \/ Subscribe(c) \/ ResizeFails(c) \/ MirrorOn(c) \/ MirrorOff(c)
         \/ MirrorStart(c) \/ MirrorAck(c) \/ ReadFails(c) \/ CloseCancels(c) \/ CloseSend(c)
  PROVE  GridInv'
<1>1. /\ c \in Handlers /\ rd[c] \in [at : Places, v : Nat] /\ size \in Nat /\ ver \in Nat
      /\ {"read", "size", "mirror", "ack", "closing", "shut", "drain"} \subseteq Elsewhere \ {"gone"}
  BY DEF ConnInv, ConnTypes, Handlers, Elsewhere, Places, Resizing
<1>2. NoGrid /\ grid' = grid
  <2>1. CASE MirrorStart(c)
    BY <2>1 DEF MirrorStart, Sent, NoGrid, hubVars, clientVars
  <2>2. CASE Reply(c) \/ Unsubscribe(c) \/ Subscribe(c) \/ ResizeFails(c)
    BY <2>2 DEF Reply, Unsubscribe, Subscribe, ResizeFails, NoGrid, hubVars, clientVars, histVars
  <2>3. CASE MirrorOn(c) \/ MirrorOff(c) \/ MirrorAck(c)
    BY <2>3 DEF MirrorOn, MirrorOff, MirrorAck, NoGrid, hubVars, clientVars, histVars
  <2>4. CASE ReadFails(c) \/ CloseCancels(c) \/ CloseSend(c)
    BY <2>4 DEF ReadFails, CloseCancels, CloseSend, NoGrid, hubVars, clientVars, histVars
  <2> QED
    BY <2>1, <2>2, <2>3, <2>4
<1>3. sendq' = sendq \/ \E m \in Messages : m[1] # "size" /\ trySend(c, m)
  <2>1. sendq' = sendq \/ trySend(c, Nothing) \/ trySend(c, <<"screen", rd[c].v>>)
    BY DEF Reply, Unsubscribe, Subscribe, ResizeFails, MirrorOn, MirrorOff, MirrorStart, MirrorAck,
           ReadFails, CloseCancels, CloseSend
  <2>2. rd[c].v \in Nat
    BY <1>1
  <2> QED
    BY <2>1, <2>2, OtherMessages
<1>4. rd[c].at \in {"read", "mirror", "ack", "closing", "shut"}
  BY DEF Reply, Unsubscribe, Subscribe, ResizeFails, MirrorOn, MirrorOff, MirrorStart, MirrorAck,
         ReadFails, CloseCancels, CloseSend, Reading
<1>5. \/ rd' = rd
      \/ \E l \in {"read", "size", "mirror", "ack", "closing", "shut", "drain"}, v \in Nat :
           rd' = [rd EXCEPT ![c] = [at |-> l, v |-> v]]
  BY <1>1 DEF Reply, Unsubscribe, Subscribe, ResizeFails, MirrorOn, MirrorOff, MirrorStart, MirrorAck,
         ReadFails, CloseCancels, CloseSend, At, AtWith
<1> QED
  BY <1>1, <1>2, <1>3, <1>4, <1>5, QuietMoves

LEMMA QuietRest ==
  ASSUME ConnInv, GridInv,
         \/ Calls \/ Output \/ Exit
         \/ \E l \in Loops : Mirrors(l)
         \/ \E c \in Conns : PeerLeaves(c) \/ heartbeat(c) \/ PumpEnds(c)
         \/ UNCHANGED wsVars
  PROVE  GridInv'
<1>1. ASSUME NEW c, NEW m \in Messages, m[1] # "size", BackgroundSend(c, m), grid' = grid, rd' = rd,
             UNCHANGED <<hubVars, sizeVars, crossed>>
      PROVE  GridInv'
  <2>1. NoGrid /\ (sendq' = sendq \/ trySend(c, m))
    BY <1>1 DEF BackgroundSend, Sent, NoGrid, hubVars
  <2> QED
    BY <1>1, <2>1, QuietMoves
<1>2. ASSUME NoGrid, UNCHANGED <<sendq, grid, rd>> PROVE GridInv'
  BY <1>2, QuietMoves
<1>3. CASE \E e \in outTo : OutputCall(e)
  BY <1>1, <1>3, OtherMessages DEF OutputCall, clientVars
<1>4. CASE \E e \in statTo : StatusCall(e)
  BY <1>1, <1>4, OtherMessages DEF StatusCall, clientVars
<1>5. CASE SessionGone \/ Output \/ Exit \/ UNCHANGED wsVars
  BY <1>2, <1>5 DEF SessionGone, Output, Exit, wsVars, NoGrid, hubVars, clientVars, histVars
<1>6. ASSUME NEW l \in Loops, Mirrors(l) PROVE GridInv'
  <2>1. CASE LoopSend(l)
    <3>1. loop[l].v \in Nat
      BY DEF ConnInv, ConnTypes
    <3>2. BackgroundSend(loop[l].c, <<"screen", loop[l].v>>) /\ grid' = grid /\ rd' = rd
          /\ UNCHANGED <<hubVars, sizeVars, crossed>>
      BY <2>1 DEF LoopSend, clientVars
    <3> QED
      BY <1>1, <3>1, <3>2, OtherMessages
  <2>2. CASE LoopTick(l) \/ LoopSnapshot(l) \/ LoopEnds(l)
    BY <1>2, <2>2 DEF LoopTick, LoopSnapshot, LoopEnds, NoGrid, hubVars, clientVars, histVars
  <2> QED
    BY <1>6, <2>1, <2>2 DEF Mirrors
<1>7. ASSUME NEW c \in Conns, PeerLeaves(c) \/ heartbeat(c) \/ PumpEnds(c) PROVE GridInv'
  BY <1>2, <1>7 DEF PeerLeaves, heartbeat, PumpEnds, NoGrid, hubVars, clientVars, histVars
<1> QED
  BY <1>3, <1>4, <1>5, <1>6, <1>7 DEF Calls

\* A message reaches the client.
LEMMA PumpGrids == ASSUME ConnInv, GridInv, NEW c \in Conns, PumpWrites(c) PROVE GridInv'
<1> DEFINE q == sendq[c]
           h == IF Head(q)[1] = "size" THEN Head(q)[2] ELSE grid[c]
<1>1. /\ q \in Seq(Messages) /\ q # <<>> /\ grid[c] \in Nat
      /\ sendq \in [Conns -> Seq(Messages)] /\ grid \in [Conns -> Nat]
  BY DEF GridInv, QueueTypes, PumpWrites
<1>2. /\ Tail(q) \in Seq(Messages) /\ Head(q) \in Messages
      /\ \A z : Ends("size", q, grid[c], z) => Ends("size", Tail(q), h, z)
  BY <1>1, TailEnds
<1>3. /\ sendq' = [sendq EXCEPT ![c] = Tail(q)] /\ NoGrid /\ rd' = rd
      /\ grid' = IF Head(q)[1] = "size" THEN [grid EXCEPT ![c] = Head(q)[2]] ELSE grid
  BY DEF PumpWrites, NoGrid, hubVars, histVars
<1>4. h \in Nat
  BY <1>1, <1>2 DEF Messages
<1>5. grid' = [grid EXCEPT ![c] = h]
  BY <1>1, <1>3
<1> HIDE DEF h
<1>6. sendq' \in [Conns -> Seq(Messages)] /\ grid' \in [Conns -> Nat]
  BY <1>1, <1>2, <1>3, <1>4, <1>5
<1>7. /\ sendq'[c] = Tail(q) /\ grid'[c] = h
      /\ \A d \in Conns \ {c} : sendq'[d] = sendq[d] /\ grid'[d] = grid[d]
  BY <1>1, <1>3, <1>5
<1>8. \A d \in Conns, z \in Nat : Told(d, z) => Told(d, z)'
  BY <1>2, <1>7 DEF Told
<1>9. MovesElsewhere
  BY <1>3 DEF MovesElsewhere, ConnInv, ConnTypes
<1> QED
  BY <1>3, <1>6, <1>8, <1>9, QuietGrids
-----------------------------------------------------------------------------
(* A connection comes, and goes.                                           *)
LEMMA ComeAndGo == ASSUME ConnInv, GridInv, NEW c \in Conns, Accept(c) \/ Unregister(c) PROVE GridInv'
<1>1. /\ \/ rd[c].at = "new" /\ conns' = conns \cup {c} /\ rd' = [rd EXCEPT ![c] = [at |-> "read", v |-> 0]]
         \/ rd[c].at = "drain" /\ conns' = conns \ {c} /\ rd' = [rd EXCEPT ![c] = [at |-> "gone", v |-> 0]]
      /\ UNCHANGED <<hubMu, castTo, castMsg, sendq, grid, ptySize, size, scrSize, oldGrid, crossed>>
  BY DEF Accept, Unregister, At, sizeVars, clientVars, histVars
<1>2. rd \in [Handlers -> [at : Places, v : Nat]] /\ c \in Handlers /\ Conns \subseteq Handlers
  BY DEF ConnInv, ConnTypes, Handlers
<1>3. /\ \A y \in Handlers \ {c} : rd'[y] = rd[y]
      /\ rd[c].at \notin Resizing /\ rd'[c].at \in {"read", "gone"}
      /\ rd[c].at = "new" => rd'[c].at = "read" /\ c \in conns'
      /\ rd[c].at # "new" => rd'[c].at = "gone" /\ conns' = conns \ {c}
  BY <1>1, <1>2 DEF Resizing
<1>4. \A d \in Conns : \A z : Told(d, z) <=> Told(d, z)'
  BY <1>1 DEF Told
<1>5. QueueTypes'
  BY <1>1 DEF GridInv, QueueTypes
<1>6. HubKnows'
  BY <1>1, <1>2, <1>3, <1>4 DEF GridInv, HubKnows
<1>7. OneGrid => OneGrid'
  BY <1>1, <1>3 DEF OneGrid, Resizing
<1>8. \A d \in Conns : Awaits(d) => Awaits(d)'
  BY <1>1, <1>2, <1>3 DEF Awaits, Resizing
<1>9. ClientsTold => ClientsTold'
  BY <1>1, <1>2, <1>3, <1>4, <1>8 DEF ClientsTold
<1> QED
  BY <1>1, <1>5, <1>6, <1>7, <1>9 DEF GridInv

\* A subscription tells the grid it has read, and history notes an old one.
LEMMA ListenGrids == ASSUME ConnInv, GridInv, NEW c \in Conns, Listen(c) PROVE GridInv'
<1>1. PICK v \in Nat : v = rd[c].v
  BY DEF ConnInv, ConnTypes, Handlers
<1> DEFINE m == <<"size", v>>
<1>2. /\ rd[c].at = "size" /\ rd' = [rd EXCEPT ![c] = [at |-> "read", v |-> 0]]
      /\ trySend(c, m) /\ Sent(c, m)
      /\ UNCHANGED <<conns, hubMu, castTo, castMsg, grid, ptySize, size, scrSize, crossed>>
  BY <1>1 DEF Listen, At, hubVars, sizeVars, clientVars
<1>3. m \in Messages /\ m[1] = "size" /\ m[2] = v
  BY DEF Messages
<1>4. /\ rd \in [Handlers -> [at : Places, v : Nat]] /\ c \in Handlers /\ Conns \subseteq Handlers
      /\ sendq \in [Conns -> Seq(Messages)] /\ size \in Nat
  BY DEF ConnInv, ConnTypes, Handlers, GridInv, QueueTypes
<1>5. oldGrid' = IF Full(c) \/ v # size THEN oldGrid \cup {c} ELSE oldGrid \ {c}
  BY <1>2, <1>3 DEF Sent
<1> HIDE DEF m
<1>6. /\ \A y \in Handlers \ {c} : rd'[y] = rd[y]
      /\ rd[c].at \notin Resizing /\ rd'[c].at = "read" /\ rd[c].at \notin {"new", "gone"}
  BY <1>2, <1>4 DEF Resizing
<1>7. /\ sendq' \in [Conns -> Seq(Messages)]
      /\ \A d \in Conns : sendq'[d] = IF d = c /\ ~Full(c) THEN Append(sendq[d], m) ELSE sendq[d]
  BY <1>2, <1>3, SendFacts DEF GridInv
<1>8. \A d \in Conns \ {c} : \A z : Told(d, z) <=> Told(d, z)'
  BY <1>2, <1>7 DEF Told
<1>9. c \in oldGrid' \/ Told(c, size)'
  <2>1. CASE Full(c) \/ v # size
    BY <1>5, <2>1
  <2>2. CASE ~Full(c) /\ v = size
    <3>1. sendq'[c] = Append(sendq[c], m) /\ sendq[c] \in Seq(Messages)
      BY <1>4, <1>7, <2>2
    <3>2. Ends("size", sendq'[c], grid'[c], size)
      BY <1>3, <2>2, <3>1, AppendEnds
    <3> QED
      BY <1>2, <3>2 DEF Told
  <2> QED
    BY <2>1, <2>2
<1>10. QueueTypes'
  BY <1>2, <1>7 DEF GridInv, QueueTypes
<1>11. HubKnows'
  BY <1>2, <1>4, <1>6, <1>8 DEF GridInv, HubKnows
<1>12. OneGrid => OneGrid'
  BY <1>2, <1>6 DEF OneGrid, Resizing
<1>13. \A d \in Conns : Awaits(d) => Awaits(d)'
  BY <1>2, <1>4, <1>6 DEF Awaits, Resizing
<1>14. \A d \in Conns \ {c} : d \in oldGrid <=> d \in oldGrid'
  BY <1>5
<1>15. ClientsTold => ClientsTold'
  BY <1>2, <1>4, <1>6, <1>8, <1>9, <1>13, <1>14 DEF ClientsTold
<1> QED
  BY <1>2, <1>10, <1>11, <1>12, <1>15 DEF GridInv
-----------------------------------------------------------------------------
(* The five steps of a resize.                                             *)
LEMMA ResizeGrids ==
  ASSUME ConnInv, GridInv, NEW x \in Handlers, NEW z \in Sizes, Resize(x, z)
  PROVE  GridInv'
<1>1. /\ rd' = [rd EXCEPT ![x] = [at |-> "cols", v |-> z]] /\ ptySize' = z /\ z \in Nat
      /\ crossed' = (crossed \/ \E y \in Handlers : rd[y].at \in Resizing)
      /\ rd[x].at \in {"new", "read"} /\ (x # Http => rd[x].at = "read")
      /\ UNCHANGED <<conns, hubMu, castTo, castMsg, sendq, grid, size, scrSize, oldGrid>>
  BY WsConstants DEF Resize, AtWith, Reading, Handlers, Resizing, hubVars, clientVars
<1>2. rd \in [Handlers -> [at : Places, v : Nat]] /\ Http \notin Conns /\ Conns \subseteq Handlers
  BY WsConstants DEF ConnInv, ConnTypes, Handlers
<1>3. /\ \A y \in Handlers \ {x} : rd'[y] = rd[y]
      /\ rd'[x].at = "cols" /\ rd'[x].v = z
  BY <1>1, <1>2
<1>4. \A d \in Conns : \A n : Told(d, n) <=> Told(d, n)'
  BY <1>1 DEF Told
<1>5. QueueTypes'
  BY <1>1 DEF GridInv, QueueTypes
<1>6. HubKnows'
  BY <1>1, <1>2, <1>3, <1>4 DEF GridInv, HubKnows
<1>7. ASSUME ~crossed' PROVE OneGrid'
  <2>1. OneGrid /\ \A y \in Handlers : rd[y].at \notin Resizing
    BY <1>1, <1>7 DEF GridInv
  <2>2. hubMu \notin Conns
    BY <1>2, <2>1 DEF ConnInv, HolderCasts, Resizing
  <2>3. scrSize = size
    BY <2>1 DEF OneGrid, Resizing
  <2> QED
    BY <1>1, <1>3, <2>1, <2>2, <2>3 DEF OneGrid, Resizing
<1>8. \A d \in Conns : Awaits(d) => Awaits(d)'
  BY <1>1, <1>2, <1>3 DEF Awaits
<1>9. ClientsTold => ClientsTold'
  BY <1>1, <1>2, <1>3, <1>4, <1>8 DEF ClientsTold
<1> QED
  BY <1>1, <1>5, <1>6, <1>7, <1>9 DEF GridInv

LEMMA SetSizeGrids == ASSUME ConnInv, GridInv, NEW x \in Handlers, SetSize(x) PROVE GridInv'
<1>1. PICK v \in Nat : v = rd[x].v
  BY DEF ConnInv, ConnTypes
<1>2. /\ rd[x].at = "cols" /\ rd' = [rd EXCEPT ![x] = [at |-> "screen", v |-> v]] /\ size' = v
      /\ oldGrid' = IF x = Http THEN Conns ELSE oldGrid
      /\ UNCHANGED <<conns, hubMu, castTo, castMsg, sendq, grid, ptySize, scrSize, crossed>>
  BY <1>1 DEF SetSize, AtWith, hubVars, clientVars
<1>3. rd \in [Handlers -> [at : Places, v : Nat]] /\ Handlers = Conns \cup {Http}
  BY DEF ConnInv, ConnTypes, Handlers
<1>4. /\ \A y \in Handlers \ {x} : rd'[y] = rd[y]
      /\ rd'[x].at = "screen" /\ rd'[x].v = v
  BY <1>2, <1>3
<1>5. \A d \in Conns : \A n : Told(d, n) <=> Told(d, n)'
  BY <1>2 DEF Told
<1>6. QueueTypes'
  BY <1>2 DEF GridInv, QueueTypes
<1>7. HubKnows'
  BY <1>2, <1>3, <1>4, <1>5 DEF GridInv, HubKnows
<1>8. ASSUME OneGrid PROVE OneGrid'
  <2>1. v = ptySize /\ \A y \in Handlers \ {x} : rd[y].at \notin Resizing
    BY <1>1, <1>2, <1>8 DEF OneGrid, Resizing
  <2>2. hubMu \notin Conns
    <3>1. hubMu \in Conns => hubMu \in Handlers \ {x}
      BY <1>2, <1>3 DEF ConnInv, HolderCasts
    <3> QED
      BY <2>1, <3>1 DEF ConnInv, HolderCasts, Resizing
  <2> QED
    BY <1>2, <1>4, <2>1, <2>2 DEF OneGrid, Resizing
<1>9. ClientsTold'
  <2>1. CASE x = Http
    BY <1>2, <2>1 DEF ClientsTold
  <2>2. CASE x \in Conns
    BY <1>4, <2>2 DEF ClientsTold, Awaits
  <2> QED
    BY <1>3, <2>1, <2>2
<1> QED
  BY <1>2, <1>6, <1>7, <1>8, <1>9 DEF GridInv

LEMMA SetScreenGrids == ASSUME ConnInv, GridInv, NEW x \in Handlers, SetScreen(x) PROVE GridInv'
<1>1. PICK v \in Nat : v = rd[x].v
  BY DEF ConnInv, ConnTypes
<1>2. /\ rd[x].at = "screen" /\ scrSize' = v
      /\ rd' = IF x = Http THEN [rd EXCEPT ![x] = [at |-> "new", v |-> 0]]
                           ELSE [rd EXCEPT ![x] = [at |-> "cast", v |-> v]]
      /\ UNCHANGED <<conns, hubMu, castTo, castMsg, sendq, grid, ptySize, size, oldGrid, crossed>>
  BY <1>1 DEF SetScreen, At, AtWith, hubVars, clientVars, histVars
<1>3. rd \in [Handlers -> [at : Places, v : Nat]] /\ Handlers = Conns \cup {Http} /\ Http \notin Conns
  BY WsConstants DEF ConnInv, ConnTypes, Handlers
<1>4. /\ \A y \in Handlers \ {x} : rd'[y] = rd[y]
      /\ x = Http => rd'[x].at = "new"
      /\ x # Http => rd'[x].at = "cast" /\ rd'[x].v = v
  BY <1>2, <1>3
<1>5. \A d \in Conns : \A n : Told(d, n) <=> Told(d, n)'
  BY <1>2 DEF Told
<1>6. QueueTypes'
  BY <1>2 DEF GridInv, QueueTypes
<1>7. HubKnows'
  BY <1>2, <1>3, <1>4, <1>5 DEF GridInv, HubKnows
<1>8. ASSUME OneGrid PROVE OneGrid'
  <2>1. v = size /\ \A y \in Handlers \ {x} : rd[y].at \notin Resizing
    BY <1>1, <1>2, <1>8 DEF OneGrid, Resizing
  <2>2. ptySize = size
    BY <1>2, <1>8, <2>1 DEF OneGrid, Resizing
  <2>3. hubMu \notin Conns
    <3>1. hubMu \in Conns => hubMu \in Handlers \ {x}
      BY <1>2, <1>3 DEF ConnInv, HolderCasts
    <3> QED
      BY <2>1, <3>1 DEF ConnInv, HolderCasts, Resizing
  <2> QED
    BY <1>2, <1>4, <2>1, <2>2, <2>3 DEF OneGrid, Resizing
<1>9. \A d \in Conns : Awaits(d) => Awaits(d)'
  BY <1>2, <1>3, <1>4 DEF Awaits
<1>10. ClientsTold => ClientsTold'
  BY <1>2, <1>3, <1>4, <1>5, <1>9 DEF ClientsTold
<1> QED
  BY <1>2, <1>6, <1>7, <1>8, <1>10 DEF GridInv
-----------------------------------------------------------------------------
(* The broadcast.                                                          *)
LEMMA BroadcastGrids == ASSUME ConnInv, GridInv, NEW c \in Conns, Broadcast(c) PROVE GridInv'
<1>1. PICK v \in Nat : v = rd[c].v
  BY DEF ConnInv, ConnTypes, Handlers
<1>2. /\ rd[c].at = "cast" /\ rd' = [rd EXCEPT ![c] = [at |-> "casting", v |-> 0]]
      /\ hubMu = "free" /\ hubMu' = c /\ castTo' = conns /\ castMsg' = <<"size", v>>
      /\ UNCHANGED <<conns, sendq, grid, ptySize, size, scrSize, oldGrid, crossed>>
  BY <1>1 DEF Broadcast, At, sizeVars, clientVars, histVars
<1>3. /\ rd \in [Handlers -> [at : Places, v : Nat]] /\ c \in Handlers /\ Conns \subseteq Handlers
      /\ "free" \notin Conns /\ c # "loop"
  BY WsConstants DEF ConnInv, ConnTypes, Handlers
<1>4. (\A y \in Handlers \ {c} : rd'[y] = rd[y]) /\ rd'[c].at = "casting"
  BY <1>2, <1>3
<1>5. \A d \in Conns : \A n : Told(d, n) <=> Told(d, n)'
  BY <1>2 DEF Told
<1>6. QueueTypes'
  BY <1>2 DEF GridInv, QueueTypes, Messages
<1>7. HubKnows'
  BY <1>2, <1>3, <1>4, <1>5 DEF GridInv, HubKnows
<1>8. ASSUME OneGrid PROVE OneGrid'
  <2>1. v = size /\ \A y \in Handlers \ {c} : rd[y].at \notin Resizing
    BY <1>1, <1>2, <1>3, <1>8 DEF OneGrid, Resizing
  <2>2. ptySize = size /\ scrSize = size
    BY <1>2, <1>8, <2>1 DEF OneGrid, Resizing
  <2> QED
    BY <1>2, <1>3, <1>4, <2>1, <2>2 DEF OneGrid, Resizing
<1>9. ClientsTold'
  <2> SUFFICES ASSUME NEW d \in Conns, rd'[d].at # "gone"
               PROVE  Told(d, 0)' \/ Told(d, size)' \/ d \in oldGrid' \/ Awaits(d)'
    BY DEF ClientsTold
  <2>1. rd[d].at # "gone"
    BY <1>2, <1>3, <1>4
  <2>2. CASE d \in conns
    BY <1>2, <2>2 DEF Awaits
  <2>3. CASE d \notin conns
    BY <1>5, <2>1, <2>3 DEF GridInv, HubKnows
  <2> QED
    BY <2>2, <2>3
<1> QED
  BY <1>2, <1>3, <1>6, <1>7, <1>8, <1>9 DEF GridInv

LEMMA LoopGrids == ASSUME ConnInv, GridInv, broadcastLoop PROVE GridInv'
<1>1. /\ hubMu = "free" /\ hubMu' = "loop" /\ castTo' = conns /\ castMsg' = Nothing
      /\ UNCHANGED <<conns, rd, sendq, grid, ptySize, size, scrSize, oldGrid, crossed>>
  BY DEF broadcastLoop, sizeVars, clientVars, histVars
<1>2. {"free", "loop"} \cap Conns = {}
  BY WsConstants
<1>3. \A d \in Conns : \A n : Told(d, n) <=> Told(d, n)'
  BY <1>1 DEF Told
<1>4. QueueTypes'
  BY <1>1, OtherMessages DEF GridInv, QueueTypes
<1>5. HubKnows'
  BY <1>1, <1>3 DEF GridInv, HubKnows
<1>6. OneGrid => OneGrid'
  BY <1>1, <1>2 DEF OneGrid
<1>7. \A d \in Conns : Awaits(d) => Awaits(d)'
  BY <1>1, <1>2 DEF Awaits
<1>8. ClientsTold => ClientsTold'
  BY <1>1, <1>3, <1>7 DEF ClientsTold
<1> QED
  BY <1>1, <1>4, <1>5, <1>6, <1>8 DEF GridInv

LEMMA CastEndsGrids == ASSUME ConnInv, GridInv, CastEnds PROVE GridInv'
<1>1. /\ hubMu \in {"loop"} \cup Conns /\ castTo = {} /\ hubMu' = "free" /\ castMsg' = Nothing
      /\ rd' = IF hubMu = "loop" THEN rd ELSE [rd EXCEPT ![hubMu] = [at |-> "read", v |-> 0]]
      /\ UNCHANGED <<conns, castTo, sendq, grid, ptySize, size, scrSize, oldGrid, crossed>>
  BY DEF CastEnds, At, sizeVars, clientVars, histVars, ConnInv, HolderCasts
<1>2. /\ rd \in [Handlers -> [at : Places, v : Nat]] /\ Conns \subseteq Handlers
      /\ {"free", "loop"} \cap Conns = {}
  BY WsConstants DEF ConnInv, ConnTypes, Handlers
<1>3. \A y \in Handlers : rd'[y] = rd[y] \/ (rd[y].at = "casting" /\ rd'[y].at = "read")
  BY <1>1, <1>2 DEF ConnInv, HolderCasts
<1>4. \A d \in Conns : \A n : Told(d, n) <=> Told(d, n)'
  BY <1>1 DEF Told
<1>5. QueueTypes'
  BY <1>1, OtherMessages DEF GridInv, QueueTypes
<1>6. HubKnows'
  BY <1>1, <1>2, <1>3, <1>4 DEF GridInv, HubKnows
<1>7. OneGrid => OneGrid'
  BY <1>1, <1>2, <1>3 DEF OneGrid, Resizing
<1>8. \A d \in Conns : Awaits(d) => Awaits(d)'
  BY <1>1, <1>2, <1>3 DEF Awaits
<1>9. ClientsTold => ClientsTold'
  BY <1>1, <1>2, <1>3, <1>4, <1>8 DEF ClientsTold
<1>10. hubMu' # "lost" /\ hubMu' # "loop" /\ hubMu # "lost"
  BY <1>1, WsConstants
<1> QED
  BY <1>1, <1>5, <1>6, <1>7, <1>9, <1>10 DEF GridInv

\* One send of it: the client is told, or history notes that it was not.
LEMMA CastGrids == ASSUME ConnInv, GridInv, NEW c \in Conns, Cast(c) PROVE GridInv'
<1>1. /\ c \in castTo /\ hubMu \in {"loop"} \cup Conns
      /\ UNCHANGED <<conns, castMsg, grid, ptySize, size, scrSize, crossed>>
  BY DEF Cast, sizeVars, clientVars, ConnInv, HolderCasts
<1>2. /\ rd \in [Handlers -> [at : Places, v : Nat]] /\ Conns \subseteq Handlers
      /\ {"free", "loop", "lost"} \cap Conns = {} /\ QueueTypes
  BY WsConstants DEF ConnInv, ConnTypes, Handlers, GridInv
<1>3. PICK m \in Messages : m = castMsg
  BY <1>2 DEF QueueTypes
<1>4. CASE open[c]
  <2>1. trySend(c, m) /\ Sent(c, m) /\ castTo' = castTo \ {c} /\ UNCHANGED <<hubMu, rd>>
    BY <1>3, <1>4 DEF Cast, BackgroundSend
  <2>2. /\ sendq' \in [Conns -> Seq(Messages)]
        /\ \A d \in Conns : sendq'[d] = IF d = c /\ ~Full(c) THEN Append(sendq[d], m) ELSE sendq[d]
    BY <1>2, <2>1, SendFacts
  <2>3. \A d \in Conns \ {c} : \A n : Told(d, n) <=> Told(d, n)'
    BY <1>1, <2>2 DEF Told
  <2>4. QueueTypes'
    BY <1>1, <1>2, <2>2 DEF QueueTypes
  <2>5. rd[c].at # "new"
    BY <1>1 DEF GridInv, HubKnows
  <2>6. HubKnows'
    BY <1>1, <2>1, <2>3, <2>5 DEF GridInv, HubKnows
  <2>7. OneGrid => OneGrid'
    BY <1>1, <2>1 DEF OneGrid
  <2>8. ASSUME OneGrid, ClientsTold PROVE ClientsTold'
    <3>1. CASE hubMu = "loop"
      <4>1. m = Nothing
        BY <1>3, <3>1 DEF GridInv
      <4>2. oldGrid' = oldGrid /\ \A d \in Conns, n \in Nat : Told(d, n) => Told(d, n)'
        BY <1>1, <1>2, <2>1, <4>1, OtherSend, OtherMessages DEF Sent
      <4>3. size \in Nat /\ size' = size /\ hubMu \notin Conns
        BY <1>1, <1>2, <3>1 DEF ConnInv, ConnTypes
      <4> QED
        BY <2>1, <2>8, <4>2, <4>3 DEF ClientsTold, Awaits
    <3>2. CASE hubMu \in Conns
      <4>1. m[1] = "size" /\ m[2] = size
        BY <1>3, <2>8, <3>2 DEF OneGrid
      <4>2. oldGrid' = IF Full(c) THEN oldGrid \cup {c} ELSE oldGrid \ {c}
        BY <2>1, <4>1 DEF Sent
      <4>3. c \in oldGrid' \/ Told(c, size)'
        <5>1. CASE Full(c)
          BY <4>2, <5>1
        <5>2. CASE ~Full(c)
          <6>1. sendq'[c] = Append(sendq[c], m) /\ sendq[c] \in Seq(Messages)
            BY <1>2, <2>2, <5>2 DEF QueueTypes
          <6>2. Ends("size", sendq'[c], grid'[c], size)
            BY <4>1, <6>1, AppendEnds
          <6> QED
            BY <1>1, <6>2 DEF Told
        <5> QED
          BY <5>1, <5>2
      <4>4. \A d \in Conns \ {c} : (d \in oldGrid <=> d \in oldGrid') /\ (Awaits(d) => Awaits(d)')
        BY <2>1, <4>2 DEF Awaits
      <4> QED
        BY <1>1, <2>1, <2>3, <2>8, <4>3, <4>4 DEF ClientsTold
    <3> QED
      BY <1>1, <3>1, <3>2
  <2> QED
    BY <1>1, <1>2, <2>1, <2>4, <2>6, <2>7, <2>8 DEF GridInv
<1>5. CASE ~open[c] /\ hubMu = "loop"
  <2>1. UNCHANGED <<sendq, oldGrid, hubMu, rd>> /\ castTo' = castTo \ {c}
    BY <1>5 DEF Cast, BackgroundSend
  <2>2. \A d \in Conns : \A n : Told(d, n) <=> Told(d, n)'
    BY <1>1, <2>1 DEF Told
  <2>3. QueueTypes' /\ HubKnows'
    BY <1>1, <2>1, <2>2 DEF GridInv, QueueTypes, HubKnows
  <2>4. OneGrid => OneGrid'
    BY <1>1, <2>1 DEF OneGrid
  <2>5. \A d \in Conns : Awaits(d) => Awaits(d)'
    BY <1>2, <1>5, <2>1 DEF Awaits
  <2>6. ClientsTold => ClientsTold'
    BY <1>1, <2>1, <2>2, <2>5 DEF ClientsTold
  <2> QED
    BY <1>1, <2>1, <2>3, <2>4, <2>6 DEF GridInv
<1>6. CASE ~open[c] /\ hubMu # "loop"
  <2>1. /\ hubMu' = "lost" /\ castTo' = {} /\ rd' = [rd EXCEPT ![hubMu] = [at |-> "closing", v |-> 0]]
        /\ UNCHANGED <<sendq, oldGrid>> /\ hubMu \in Conns
    BY <1>1, <1>6 DEF Cast, At
  <2>2. \A y \in Handlers : rd'[y] = rd[y] \/ (rd[y].at = "casting" /\ rd'[y].at = "closing")
    BY <1>2, <2>1 DEF ConnInv, HolderCasts
  <2>3. \A d \in Conns : \A n : Told(d, n) <=> Told(d, n)'
    BY <1>1, <2>1 DEF Told
  <2>4. QueueTypes'
    BY <1>1, <2>1 DEF GridInv, QueueTypes
  <2>5. HubKnows'
    BY <1>1, <1>2, <2>1, <2>2, <2>3 DEF GridInv, HubKnows
  <2>6. OneGrid => OneGrid'
    BY <1>1, <1>2, <2>1, <2>2 DEF OneGrid, Resizing
  <2> QED
    BY <1>1, <2>1, <2>4, <2>5, <2>6 DEF GridInv
<1> QED
  BY <1>4, <1>5, <1>6
-----------------------------------------------------------------------------
LEMMA InitGrids == ASSUME WsInit PROVE GridInv
<1>1. \A x \in Handlers : rd[x].at = "new"
  BY DEF WsInit, Handlers
<1>2. hubMu = "free" /\ "free" \notin Conns
  BY WsConstants DEF WsInit
<1>3. \A c \in Conns : sendq[c] = <<>> /\ grid[c] = 0
  BY DEF WsInit
<1>4. \A c \in Conns : Told(c, 0)
  BY <1>3 DEF Told, Ends
<1>5. QueueTypes
  BY OtherMessages DEF WsInit, QueueTypes
<1>6. HubKnows /\ OneGrid /\ ClientsTold
  BY <1>1, <1>2, <1>4 DEF WsInit, HubKnows, OneGrid, ClientsTold, Resizing, Handlers
<1> QED
  BY <1>2, <1>5, <1>6 DEF GridInv

LEMMA NextGrids == ASSUME ConnInv, GridInv, [WsNext]_wsVars PROVE GridInv'
<1>1. ASSUME NEW c \in Conns, Handles(c) PROVE GridInv'
  BY <1>1, QuietHandlers, ResizeGrids DEF Handles, Handlers
<1>2. ASSUME NEW c \in Conns, Goes(c) PROVE GridInv'
  BY <1>2, QuietHandlers, ListenGrids, SetSizeGrids, SetScreenGrids, BroadcastGrids, ComeAndGo DEF Goes, Handlers
<1>3. ASSUME NEW c \in Conns, Accept(c) \/ Pumps(c) PROVE GridInv'
  BY <1>3, ComeAndGo, PumpGrids, QuietRest DEF Pumps
<1>4. ASSUME NEW c \in Conns, PeerLeaves(c) \/ heartbeat(c) PROVE GridInv'
  BY <1>4, QuietRest
<1>5. CASE HttpGoes \/ \E z \in Sizes : Resize(Http, z)
  BY <1>5, SetSizeGrids, SetScreenGrids, ResizeGrids DEF HttpGoes, Handlers
<1>6. CASE Casts \/ broadcastLoop
  BY <1>6, CastGrids, CastEndsGrids, LoopGrids DEF Casts
<1>7. CASE (\E l \in Loops : Mirrors(l)) \/ Calls \/ Output \/ Exit \/ UNCHANGED wsVars
  BY <1>7, QuietRest
<1> QED
  BY <1>1, <1>2, <1>3, <1>4, <1>5, <1>6, <1>7 DEF WsNext

LEMMA GridAlways == WsSpec => []GridInv
<1> QED
  BY InitGrids, NextGrids, ConnInvariant, PTL DEF WsSpec

\* Between resizes the PTY, the session and the screen have one grid, and a
\* client that has received everything has it too, or none, or is in one of the
\* windows that GridsAgree names (conn.go, handleResize; session.go, Resize).
THEOREM ResizesReachEverybody == WsSpec => []GridsAgree
<1>1. ASSUME ConnInv, GridInv PROVE GridsAgree
  <2> SUFFICES ASSUME ~crossed, \A x \in Handlers : rd[x].at \notin Resizing, hubMu = "free"
               PROVE  /\ ptySize = size /\ scrSize = size
                      /\ \A c \in Conns : Quiet(c) => grid[c] \in {0, size} \/ c \in oldGrid
    BY DEF GridsAgree, Handlers, Resizing
  <2>1. OneGrid /\ ClientsTold /\ "free" \notin Conns
    BY <1>1, WsConstants DEF GridInv
  <2>2. ptySize = size /\ scrSize = size
    BY <2>1 DEF OneGrid, Resizing
  <2>3. ASSUME NEW c \in Conns, Quiet(c) PROVE grid[c] \in {0, size} \/ c \in oldGrid
    <3>1. rd[c].at = "read" /\ sendq[c] = <<>>
      BY <2>3 DEF Quiet, Reading
    <3>2. ~Awaits(c)
      BY <2>1 DEF Awaits, Handlers, Resizing
    <3>3. \A z : Told(c, z) => grid[c] = z
      BY <3>1 DEF Told, Ends
    <3> QED
      BY <2>1, <3>1, <3>2, <3>3 DEF ClientsTold
  <2> QED
    BY <2>2, <2>3
<1> QED
  BY <1>1, GridAlways, ConnInvariant, PTL
-----------------------------------------------------------------------------
(***************************************************************************)
(* The screens.  MirrorShowsTheScreen speaks of a mirrored client that has *)
(* nothing under way; while something is, the current version is with a    *)
(* loop that has not looked, or with one that is to send it, or it is the  *)
(* last screen on the way to the client.                                   *)
(***************************************************************************)
Offs == {l \in Loops : loop[l] = Off}
Starting == {c \in Conns : rd[c].at = "mirror"}

\* Every loop that is about to be started finds a slot, so that none takes the
\* place of another.
Slots ==
  /\ \A l \in Loops : loop[l].at = "off" => loop[l] = Off
  /\ Cardinality(Starting) <= Cardinality(Offs)

\* Nobody carries a version that is still to come.
Versions ==
  /\ shown \in [Conns -> Nat]
  /\ \A c \in Conns : rd[c].at = "mirror" => rd[c].v <= ver
  /\ \A l \in Loops : loop[l].at = "send" => loop[l].v <= ver

Mirrored(c) == rd[c].at = "mirror" \/ \E l \in Loops : loop[l].c = c /\ ~loop[l].stop

\* The current screen is on its way to c, or was the last to arrive.
Coming(c) ==
  \/ rd[c].at = "mirror" /\ rd[c].v = ver
  \/ \E l \in Loops : loop[l].c = c /\ (loop[l].at = "look" \/ (loop[l].at = "send" /\ loop[l].v = ver))
  \/ Ends("screen", sendq[c], shown[c], ver)

MirrorsFollow ==
  daemon = "up" /\ ~dirty => \A c \in Conns : Mirrored(c) => c \in oldScreen \/ Coming(c)

ScreenInv == Slots /\ Versions /\ MirrorsFollow
-----------------------------------------------------------------------------
SlotFrame == Offs \subseteq Offs' /\ Starting' \subseteq Starting /\ \A l \in Loops : loop'[l].at = "off" => loop'[l] = Off

LEMMA SlotsKept == ASSUME Slots, SlotFrame PROVE Slots'
<1>1. IsFiniteSet(Starting) /\ IsFiniteSet(Offs')
  BY WsConstants, FS_Subset DEF Starting, Offs
<1>2. /\ Cardinality(Starting') <= Cardinality(Starting) /\ Cardinality(Offs) <= Cardinality(Offs')
      /\ IsFiniteSet(Starting') /\ IsFiniteSet(Offs)
  BY <1>1, FS_Subset DEF SlotFrame
<1>3. /\ Cardinality(Starting) \in Nat /\ Cardinality(Offs) \in Nat
      /\ Cardinality(Starting') \in Nat /\ Cardinality(Offs') \in Nat
  BY <1>1, <1>2, FS_CardinalityType
<1>4. Cardinality(Starting') <= Cardinality(Offs')
  BY <1>2, <1>3 DEF Slots
<1> QED
  BY <1>4 DEF Slots, SlotFrame

\* Stopping loops frees no slot and takes none.
LoopsStop == \A l \in Loops : loop'[l] = loop[l] \/ loop'[l] = [loop[l] EXCEPT !.stop = TRUE]
LoopType == [c : Conns \cup {"-"}, at : {"off", "tick", "look", "send"}, stop : BOOLEAN, v : Nat]

LEMMA StopFacts ==
  ASSUME ConnInv, Slots, LoopsStop
  PROVE  /\ Offs \subseteq Offs' /\ \A l \in Loops : loop'[l].at = "off" => loop'[l] = Off
         /\ \A l \in Loops : /\ loop'[l].c = loop[l].c /\ loop'[l].at = loop[l].at /\ loop'[l].v = loop[l].v
                             /\ loop[l].stop => loop'[l].stop
<1>1. \A l \in Loops : loop[l] \in LoopType
  BY DEF ConnInv, ConnTypes, LoopType
<1>2. \A l \in Loops : /\ loop'[l].c = loop[l].c /\ loop'[l].at = loop[l].at /\ loop'[l].v = loop[l].v
                       /\ loop[l].stop => loop'[l].stop
                       /\ loop'[l] = loop[l] \/ loop'[l].stop
  BY <1>1 DEF LoopsStop, LoopType
<1>3. \A l \in Loops : loop[l] = Off => loop'[l] = Off
  BY DEF LoopsStop, Off
<1>4. \A l \in Loops : loop'[l].at = "off" => loop'[l] = Off
  BY <1>2, <1>3 DEF Slots
<1> QED
  BY <1>2, <1>3, <1>4 DEF Offs

RdPlain == \A x \in Conns : rd'[x] = rd[x] \/ (rd[x].at # "mirror" /\ rd'[x].at # "mirror")
QueueEnds(d, z) == Ends("screen", sendq[d], shown[d], z)

\* Steps that neither look at the screen nor send it.
LEMMA ScreenFrame ==
  ASSUME ConnInv, ScreenInv, LoopsStop, RdPlain, UNCHANGED scrVars \/ Redraw,
         oldScreen' = oldScreen, daemon' \in {daemon, "dead"}, shown' \in [Conns -> Nat],
         \A d \in Conns : \A z : QueueEnds(d, z) => QueueEnds(d, z)'
  PROVE  ScreenInv'
<1>1. /\ \A l \in Loops : /\ loop'[l].c = loop[l].c /\ loop'[l].at = loop[l].at /\ loop'[l].v = loop[l].v
                          /\ loop[l].stop => loop'[l].stop
      /\ Offs \subseteq Offs' /\ \A l \in Loops : loop'[l].at = "off" => loop'[l] = Off
  BY StopFacts DEF ScreenInv
<1>2. SlotFrame
  BY <1>1 DEF SlotFrame, Starting, RdPlain
<1>3. Slots'
  BY <1>2, SlotsKept DEF ScreenInv
<1>4. ver \in Nat /\ ver' \in Nat /\ ver <= ver' /\ (dirty' \/ (ver' = ver /\ dirty' = dirty))
  BY DEF ConnInv, ConnTypes, scrVars, Redraw
<1>5. Versions'
  <2>1. \A c \in Conns : rd'[c].at = "mirror" => rd'[c].v <= ver'
    <3> SUFFICES ASSUME NEW c \in Conns, rd'[c].at = "mirror" PROVE rd'[c].v <= ver'
      OBVIOUS
    <3>1. rd'[c] = rd[c] /\ rd[c].v <= ver /\ rd[c].v \in Nat
      BY DEF RdPlain, ScreenInv, Versions, ConnInv, ConnTypes, Handlers
    <3> QED
      BY <1>4, <3>1
  <2>2. \A l \in Loops : loop'[l].at = "send" => loop'[l].v <= ver'
    <3> SUFFICES ASSUME NEW l \in Loops, loop'[l].at = "send" PROVE loop'[l].v <= ver'
      OBVIOUS
    <3>1. loop'[l].v = loop[l].v /\ loop[l].v <= ver /\ loop[l].v \in Nat
      BY <1>1 DEF ScreenInv, Versions, ConnInv, ConnTypes
    <3> QED
      BY <1>4, <3>1
  <2> QED
    BY <2>1, <2>2 DEF Versions
<1>6. MirrorsFollow'
  <2> SUFFICES ASSUME daemon' = "up", ~dirty', NEW c \in Conns, Mirrored(c)' PROVE c \in oldScreen' \/ Coming(c)'
    BY DEF MirrorsFollow
  <2>1. daemon = "up" /\ ~dirty /\ ver' = ver
    BY <1>4
  <2>2. Mirrored(c)
    BY <1>1 DEF Mirrored, RdPlain
  <2>3. c \in oldScreen \/ Coming(c)
    BY <2>1, <2>2 DEF ScreenInv, MirrorsFollow
  <2>4. Coming(c) => Coming(c)'
    BY <1>1, <2>1 DEF Coming, RdPlain, QueueEnds
  <2> QED
    BY <2>3, <2>4
<1> QED
  BY <1>3, <1>5, <1>6 DEF ScreenInv

\* The same with a message that is not a screen, for c or for nobody.
LEMMA PlainScreens ==
  ASSUME ConnInv, QueueTypes, ScreenInv, NEW c,
         loop' = loop \/ \E d \in Conns : loop' = stopMirror(d),
         RdPlain, UNCHANGED scrVars \/ Redraw,
         oldScreen' = oldScreen, daemon' \in {daemon, "dead"}, shown' = shown,
         sendq' = sendq \/ \E m \in Messages : m[1] # "screen" /\ trySend(c, m)
  PROVE  ScreenInv'
<1>1. LoopsStop
  BY DEF LoopsStop, stopMirror
<1>2. \A d \in Conns : \A z : QueueEnds(d, z) => QueueEnds(d, z)'
  <2>1. CASE sendq' = sendq
    BY <2>1 DEF QueueEnds
  <2>2. ASSUME NEW m \in Messages, m[1] # "screen", trySend(c, m)
        PROVE  \A d \in Conns : \A z : QueueEnds(d, z) => QueueEnds(d, z)'
    <3>1. \A d \in Conns : sendq[d] \in Seq(Messages) /\ sendq'[d] \in {sendq[d], Append(sendq[d], m)}
      BY <2>2, SendFacts DEF QueueTypes
    <3> QED
      BY <2>2, <3>1, AppendEnds DEF QueueEnds
  <2> QED
    BY <2>1, <2>2
<1>3. shown' \in [Conns -> Nat]
  BY DEF ScreenInv, Versions
<1> QED
  BY <1>1, <1>2, <1>3, ScreenFrame

LEMMA RdMoves ==
  ASSUME ConnInv, NEW x \in Handlers, rd[x].at # "mirror", NEW l, l # "mirror", NEW v,
         rd' = [rd EXCEPT ![x] = [at |-> l, v |-> v]]
  PROVE  RdPlain
<1>1. rd \in [Handlers -> [at : Places, v : Nat]] /\ Conns \subseteq Handlers
  BY DEF ConnInv, ConnTypes, Handlers
<1>2. rd'[x] = [at |-> l, v |-> v] /\ \A y \in Handlers \ {x} : rd'[y] = rd[y]
  BY <1>1
<1> QED
  BY <1>1, <1>2 DEF RdPlain

LEMMA HandlerScreens ==
  ASSUME ConnInv, QueueTypes, ScreenInv, NEW c \in Conns,
         \/ Accept(c) \/ Reply(c) \/ Unsubscribe(c) \/ Subscribe(c) \/ Listen(c) \/ ResizeFails(c)
         \/ MirrorOff(c) \/ MirrorAck(c) \/ ReadFails(c) \/ CloseCancels(c) \/ CloseSend(c) \/ Unregister(c)
  PROVE  ScreenInv'
<1>1. /\ loop' = loop \/ loop' = stopMirror(c)
      /\ UNCHANGED scrVars /\ daemon' = daemon /\ shown' = shown
  BY DEF Accept, Reply, Unsubscribe, Subscribe, Listen, ResizeFails, MirrorOff, MirrorAck, ReadFails,
         CloseCancels, CloseSend, Unregister, Unsubscribed, clientVars
<1>2. RdPlain
  <2>1. c \in Handlers /\ rd[c].at # "mirror"
    BY DEF Accept, Reply, Unsubscribe, Subscribe, Listen, ResizeFails, MirrorOff, MirrorAck, ReadFails,
           CloseCancels, CloseSend, Unregister, Reading, Handlers
  <2>2. \/ rd' = rd
        \/ \E l \in {"read", "size", "closing", "shut", "drain", "gone"}, v \in {0, size} :
             rd' = [rd EXCEPT ![c] = [at |-> l, v |-> v]]
    BY DEF Accept, Reply, Unsubscribe, Subscribe, Listen, ResizeFails, MirrorOff, MirrorAck, ReadFails,
           CloseCancels, CloseSend, Unregister, At, AtWith
  <2>3. CASE rd' = rd
    BY <2>3 DEF RdPlain
  <2> QED
    BY <2>1, <2>2, <2>3, RdMoves
<1>3. PICK v \in Nat : v = rd[c].v
  BY DEF ConnInv, ConnTypes, Handlers
<1>4. CASE Listen(c)
  <2>1. trySend(c, <<"size", v>>) /\ Sent(c, <<"size", v>>)
    BY <1>3, <1>4 DEF Listen
  <2>2. <<"size", v>> \in Messages /\ <<"size", v>>[1] # "screen" /\ oldScreen' = oldScreen
    BY <2>1 DEF Messages, Sent
  <2> QED
    BY <1>1, <1>2, <2>1, <2>2, PlainScreens
<1>5. CASE ~Listen(c)
  <2>1. oldScreen' = oldScreen /\ (sendq' = sendq \/ trySend(c, Nothing))
    BY <1>5 DEF Accept, Reply, Unsubscribe, Subscribe, ResizeFails, MirrorOff, MirrorAck, ReadFails,
           CloseCancels, CloseSend, Unregister, histVars
  <2> QED
    BY <1>1, <1>2, <2>1, OtherMessages, PlainScreens
<1> QED
  BY <1>4, <1>5

LEMMA ResizeScreens ==
  ASSUME ConnInv, QueueTypes, ScreenInv, NEW x \in Handlers,
         \/ (\E z \in Sizes : Resize(x, z)) \/ SetSize(x) \/ SetScreen(x)
         \/ x \in Conns /\ Broadcast(x)
  PROVE  ScreenInv'
<1>1. /\ loop' = loop /\ daemon' = daemon /\ shown' = shown /\ sendq' = sendq /\ oldScreen' = oldScreen
      /\ UNCHANGED scrVars \/ Redraw
  BY DEF Resize, SetSize, SetScreen, Broadcast, Op, clientVars, histVars
<1>2. RdPlain
  <2>1. rd[x].at # "mirror"
    BY DEF Resize, Reading, SetSize, SetScreen, Broadcast
  <2>2. \E l \in {"new", "cols", "screen", "cast", "casting"}, v \in {0, rd[x].v} \cup Sizes :
          rd' = [rd EXCEPT ![x] = [at |-> l, v |-> v]]
    BY DEF Resize, SetSize, SetScreen, Broadcast, At, AtWith
  <2> QED
    BY <2>1, <2>2, RdMoves
<1> QED
  BY <1>1, <1>2, PlainScreens

LEMMA CastScreens ==
  ASSUME ConnInv, QueueTypes, ScreenInv, (\E c \in Conns : Cast(c)) \/ CastEnds \/ broadcastLoop
  PROVE  ScreenInv'
<1>1. loop' = loop /\ UNCHANGED scrVars /\ shown' = shown
  BY DEF Cast, CastEnds, broadcastLoop, clientVars
<1>2. RdPlain
  <2>1. rd' = rd \/ \E l \in {"closing", "read"} : hubMu \in Conns /\ rd' = [rd EXCEPT ![hubMu] = [at |-> l, v |-> 0]]
    BY DEF Cast, CastEnds, broadcastLoop, At, ConnInv, HolderCasts
  <2>2. hubMu \in Conns => hubMu \in Handlers /\ rd[hubMu].at # "mirror"
    BY DEF ConnInv, HolderCasts, Handlers
  <2>3. CASE rd' = rd
    BY <2>3 DEF RdPlain
  <2> QED
    BY <2>1, <2>2, <2>3, RdMoves
<1>3. ASSUME NEW c \in Conns, Cast(c) PROVE ScreenInv'
  <2>1. PICK m \in Messages : m = castMsg /\ m[1] # "screen"
    BY DEF QueueTypes
  <2>2. /\ oldScreen' = oldScreen /\ daemon' \in {daemon, "dead"}
        /\ sendq' = sendq \/ trySend(c, m)
    BY <1>3, <2>1 DEF Cast, BackgroundSend, Sent
  <2> QED
    BY <1>1, <1>2, <2>1, <2>2, PlainScreens
<1>4. CASE CastEnds \/ broadcastLoop
  <2>1. oldScreen' = oldScreen /\ daemon' = daemon /\ sendq' = sendq
    BY <1>4 DEF CastEnds, broadcastLoop, histVars
  <2> QED
    BY <1>1, <1>2, <2>1, PlainScreens
<1> QED
  BY <1>3, <1>4

LEMMA OtherScreens ==
  ASSUME ConnInv, QueueTypes, ScreenInv,
         \/ Calls \/ Output \/ Exit
         \/ \E c \in Conns : PeerLeaves(c) \/ heartbeat(c) \/ PumpEnds(c)
         \/ UNCHANGED wsVars
  PROVE  ScreenInv'
<1>1. /\ loop' = loop /\ shown' = shown /\ rd' = rd /\ (UNCHANGED scrVars \/ Redraw)
  BY DEF Calls, OutputCall, StatusCall, SessionGone, Output, Exit, PeerLeaves, heartbeat, PumpEnds, wsVars, clientVars
<1>2. RdPlain
  BY <1>1 DEF RdPlain
<1>3. ASSUME NEW c, BackgroundSend(c, Nothing) PROVE ScreenInv'
  <2>1. /\ oldScreen' = oldScreen /\ daemon' \in {daemon, "dead"}
        /\ sendq' = sendq \/ trySend(c, Nothing)
    BY <1>3, OtherMessages DEF BackgroundSend, Sent
  <2> QED
    BY <1>1, <1>2, <2>1, OtherMessages, PlainScreens
<1>4. ASSUME oldScreen' = oldScreen, daemon' = daemon, sendq' = sendq PROVE ScreenInv'
  BY <1>1, <1>2, <1>4, PlainScreens
<1>5. CASE SessionGone \/ Output \/ Exit \/ UNCHANGED wsVars
  BY <1>4, <1>5 DEF SessionGone, Output, Exit, Op, wsVars, histVars
<1>6. ASSUME NEW c \in Conns, PeerLeaves(c) \/ heartbeat(c) \/ PumpEnds(c) PROVE ScreenInv'
  BY <1>4, <1>6 DEF PeerLeaves, heartbeat, PumpEnds, histVars
<1>7. CASE Calls
  BY <1>3, <1>5, <1>7 DEF Calls, OutputCall, StatusCall
<1> QED
  BY <1>5, <1>6, <1>7

LEMMA PumpScreens ==
  ASSUME ConnInv, QueueTypes, ScreenInv, NEW c \in Conns, PumpWrites(c)
  PROVE  ScreenInv'
<1> DEFINE q == sendq[c]
           h == IF Head(q)[1] = "screen" THEN Head(q)[2] ELSE shown[c]
<1>1. /\ q \in Seq(Messages) /\ q # <<>> /\ shown[c] \in Nat
      /\ sendq \in [Conns -> Seq(Messages)] /\ shown \in [Conns -> Nat]
  BY DEF ScreenInv, Versions, QueueTypes, PumpWrites
<1>2. /\ Head(q) \in Messages
      /\ \A z : Ends("screen", q, shown[c], z) => Ends("screen", Tail(q), h, z)
  BY <1>1, TailEnds
<1>3. /\ sendq' = [sendq EXCEPT ![c] = Tail(q)] /\ UNCHANGED <<scrVars, oldScreen, daemon, loop, rd>>
      /\ shown' = IF Head(q)[1] = "screen" THEN [shown EXCEPT ![c] = Head(q)[2]] ELSE shown
  BY DEF PumpWrites, histVars
<1>4. h \in Nat
  BY <1>1, <1>2 DEF Messages
<1>5. shown' = [shown EXCEPT ![c] = h]
  BY <1>1, <1>3
<1> HIDE DEF h
<1>6. /\ shown' \in [Conns -> Nat] /\ sendq'[c] = Tail(q) /\ shown'[c] = h
      /\ \A d \in Conns \ {c} : sendq'[d] = sendq[d] /\ shown'[d] = shown[d]
  BY <1>1, <1>3, <1>4, <1>5
<1>7. \A d \in Conns : \A z : QueueEnds(d, z) => QueueEnds(d, z)'
  BY <1>2, <1>6 DEF QueueEnds
<1>8. RdPlain /\ LoopsStop
  BY <1>3 DEF RdPlain, LoopsStop
<1> QED
  BY <1>3, <1>6, <1>7, <1>8, ScreenFrame
-----------------------------------------------------------------------------
(* Looking at the screen takes its dirty flag.                             *)

\* A mirror of another connection has looked, will, or is noted by history.
LEMMA LookedAway ==
  ASSUME ScreenInv, daemon = "up", NEW c, NEW d \in Conns, d # c, Taken(c),
         UNCHANGED <<ver, sendq, shown>>, rd'[d] = rd[d],
         \A l \in Loops : loop[l].c = d \/ loop'[l].c = d => loop'[l] = loop[l],
         Mirrored(d)'
  PROVE  d \in oldScreen' \/ Coming(d)'
<1>1. Mirrored(d)
  BY DEF Mirrored
<1>2. Coming(d) => Coming(d)'
  BY DEF Coming
<1>3. CASE ~dirty
  BY <1>1, <1>2, <1>3 DEF ScreenInv, MirrorsFollow, Taken
<1>4. CASE dirty /\ (rd[d].at = "mirror" \/ \E l \in Loops : loop[l].c = d /\ ~loop[l].stop /\ loop[l].at # "look")
  BY <1>4 DEF Taken
<1>5. CASE \E l \in Loops : loop[l].c = d /\ loop[l].at = "look"
  BY <1>2, <1>5 DEF Coming
<1> QED
  BY <1>1, <1>3, <1>4, <1>5 DEF Mirrored

LEMMA MirrorOnScreens ==
  ASSUME ConnInv, ScreenInv, NEW c \in Conns, MirrorOn(c)
  PROVE  ScreenInv'
<1>1. /\ rd' = [rd EXCEPT ![c] = [at |-> "mirror", v |-> ver]] /\ rd[c].at = "read"
      /\ loop' = stopMirror(c) /\ Taken(c) /\ LoopsLeft /\ daemon = "up"
      /\ UNCHANGED <<ver, sendq, shown>>
  BY DEF MirrorOn, AtWith, Reading, Op, clientVars
<1>2. /\ c \in Handlers /\ Conns \subseteq Handlers /\ ver \in Nat
      /\ rd \in [Handlers -> [at : Places, v : Nat]]
  BY DEF ConnInv, ConnTypes, Handlers
<1>3. rd'[c].at = "mirror" /\ rd'[c].v = ver /\ \A y \in Handlers \ {c} : rd'[y] = rd[y]
  BY <1>1, <1>2
<1>4. LoopsStop /\ \A l \in Loops : loop[l].c # c => loop'[l] = loop[l]
  BY <1>1 DEF LoopsStop, stopMirror
<1>5. /\ \A l \in Loops : /\ loop'[l].c = loop[l].c /\ loop'[l].at = loop[l].at /\ loop'[l].v = loop[l].v
      /\ Offs \subseteq Offs' /\ \A l \in Loops : loop'[l].at = "off" => loop'[l] = Off
  BY <1>4, StopFacts DEF ScreenInv
<1>6. Slots'
  <2>1. Starting' = Starting \cup {c} /\ c \notin Starting
    BY <1>1, <1>2, <1>3 DEF Starting
  <2>2. IsFiniteSet(Starting) /\ IsFiniteSet(Offs')
    BY WsConstants, FS_Subset DEF Starting, Offs
  <2>3. Cardinality(Starting') = Cardinality(Starting) + 1
    BY <2>1, <2>2, FS_AddElement
  <2>4. Cardinality(Offs) <= Cardinality(Offs') /\ IsFiniteSet(Offs)
    BY <1>5, <2>2, FS_Subset
  <2>5. Cardinality(Starting) \in Nat /\ Cardinality(Offs) \in Nat /\ Cardinality(Offs') \in Nat
    BY <2>2, <2>4, FS_CardinalityType
  <2>6. Cardinality(Offs) > Cardinality(Starting)
    BY <1>1 DEF LoopsLeft, Offs, Starting
  <2>7. Cardinality(Starting') <= Cardinality(Offs')
    BY <2>3, <2>4, <2>5, <2>6
  <2> QED
    BY <1>5, <2>7 DEF Slots
<1>7. Versions'
  BY <1>1, <1>2, <1>3, <1>5 DEF ScreenInv, Versions
<1>8. ASSUME NEW d \in Conns, Mirrored(d)' PROVE d \in oldScreen' \/ Coming(d)'
  <2>1. CASE d = c
    BY <1>1, <1>3, <2>1 DEF Coming
  <2>2. CASE d # c
    <3>1. \A l \in Loops : loop[l].c = d \/ loop'[l].c = d => loop'[l] = loop[l]
      BY <1>4, <1>5, <2>2
    <3> QED
      BY <1>1, <1>2, <1>3, <1>8, <2>2, <3>1, LookedAway
  <2> QED
    BY <2>1, <2>2
<1> QED
  BY <1>6, <1>7, <1>8 DEF ScreenInv, MirrorsFollow

\* A loop that has started, in a step that changes it alone and leaves it started
\* or ends it.
LEMMA LoopSlots ==
  ASSUME ScreenInv, NEW l \in Loops, loop[l].at # "off", rd' = rd,
         \A k \in Loops \ {l} : loop'[k] = loop[k],
         loop'[l].at # "off" \/ loop'[l] = Off
  PROVE  Slots'
<1>1. loop[l] # Off
  BY DEF Off
<1>2. SlotFrame
  BY <1>1 DEF SlotFrame, Offs, Starting, ScreenInv, Slots
<1> QED
  BY <1>2, SlotsKept DEF ScreenInv

LEMMA LoopScreens ==
  ASSUME ConnInv, ScreenInv, NEW l \in Loops, LoopTick(l) \/ LoopSnapshot(l) \/ LoopEnds(l)
  PROVE  ScreenInv'
<1>1. rd' = rd /\ daemon = "up" /\ UNCHANGED <<ver, sendq, shown>>
  BY DEF LoopTick, LoopSnapshot, LoopEnds, clientVars, scrVars
<1>2. /\ loop \in [Loops -> LoopType] /\ ver \in Nat
  BY DEF ConnInv, ConnTypes, LoopType
<1>3. CASE LoopTick(l)
  <2>1. /\ loop[l].at = "tick" /\ loop' = [loop EXCEPT ![l].at = "look"] /\ dirty'
    BY <1>3 DEF LoopTick, scrVars
  <2>2. loop'[l].at = "look" /\ \A k \in Loops \ {l} : loop'[k] = loop[k]
    BY <1>2, <2>1 DEF LoopType
  <2>3. Slots'
    BY <1>1, <2>1, <2>2, LoopSlots
  <2>4. Versions'
    BY <1>1, <2>2 DEF ScreenInv, Versions
  <2> QED
    BY <2>1, <2>3, <2>4 DEF ScreenInv, MirrorsFollow
<1>4. CASE LoopEnds(l)
  <2>1. loop[l].at = "tick" /\ loop' = [loop EXCEPT ![l] = Off] /\ UNCHANGED <<dirty, oldScreen, daemon>>
    BY <1>4 DEF LoopEnds, scrVars, histVars
  <2>2. loop'[l] = Off /\ \A k \in Loops \ {l} : loop'[k] = loop[k]
    BY <1>2, <2>1
  <2>3. Slots'
    BY <1>1, <2>1, <2>2, LoopSlots
  <2>4. Versions'
    BY <1>1, <2>2 DEF ScreenInv, Versions, Off
  <2>5. \A d \in Conns : Mirrored(d)' => Mirrored(d)
    BY <1>1, <2>2 DEF Mirrored, Off
  <2>6. \A d \in Conns : Coming(d) => Coming(d)'
    BY <1>1, <2>1, <2>2 DEF Coming
  <2>7. MirrorsFollow'
    BY <2>1, <2>5, <2>6 DEF ScreenInv, MirrorsFollow
  <2> QED
    BY <2>3, <2>4, <2>7 DEF ScreenInv
<1>5. CASE LoopSnapshot(l)
  <2>1. PICK c : c = loop[l].c
    OBVIOUS
  <2>2. loop[l].at = "look" /\ Taken(c) /\ loop' = [loop EXCEPT ![l].at = "send", ![l].v = ver]
    BY <1>5, <2>1 DEF LoopSnapshot
  <2>3. /\ loop'[l].at = "send" /\ loop'[l].v = ver /\ loop'[l].c = c
        /\ \A k \in Loops \ {l} : loop'[k] = loop[k]
    BY <1>2, <2>1, <2>2 DEF LoopType
  <2>4. Slots'
    BY <1>1, <2>2, <2>3, LoopSlots
  <2>5. Versions'
    BY <1>1, <1>2, <2>3 DEF ScreenInv, Versions
  <2>6. ASSUME NEW d \in Conns, Mirrored(d)' PROVE d \in oldScreen' \/ Coming(d)'
    <3>1. CASE d = c
      BY <1>1, <2>3, <3>1 DEF Coming
    <3>2. CASE d # c
      <4>1. \A k \in Loops : loop[k].c = d \/ loop'[k].c = d => loop'[k] = loop[k]
        BY <2>1, <2>3, <3>2
      <4> QED
        BY <1>1, <2>2, <2>6, <3>2, <4>1, LookedAway
    <3> QED
      BY <3>1, <3>2
  <2> QED
    BY <2>4, <2>5, <2>6 DEF ScreenInv, MirrorsFollow
<1> QED
  BY <1>3, <1>4, <1>5
-----------------------------------------------------------------------------
(* A screen is sent: it is dropped or comes after a newer one, and history *)
(* notes that; or it is the current one; or the client had no newer one.   *)
LEMMA ScreenSent ==
  ASSUME QueueTypes, ScreenInv, NEW c \in Conns, NEW v \in Nat, v <= ver, ver \in Nat,
         trySend(c, <<"screen", v>>), Sent(c, <<"screen", v>>), UNCHANGED <<ver, shown>>
  PROVE  \/ c \in oldScreen'
         \/ QueueEnds(c, ver)'
         \/ v < ver /\ ~QueueEnds(c, ver) /\ oldScreen' = oldScreen
<1>1. PICK m \in Messages : m = <<"screen", v>>
  BY DEF Messages
<1>2. m[1] = "screen" /\ m[2] = v
  BY <1>1
<1>3. /\ oldScreen' = IF Full(c) \/ Newer(c, v) THEN oldScreen \cup {c}
                      ELSE IF v = ver THEN oldScreen \ {c} ELSE oldScreen
      /\ trySend(c, m)
  BY <1>1, <1>2 DEF Sent
<1>4. sendq'[c] = IF ~Full(c) THEN Append(sendq[c], m) ELSE sendq[c]
  BY <1>3, SendFacts
<1>5. sendq[c] \in Seq(Messages) /\ shown[c] \in Nat
  BY DEF QueueTypes, ScreenInv, Versions
<1>6. CASE Full(c) \/ Newer(c, v)
  BY <1>3, <1>6
<1>7. CASE ~Full(c) /\ v = ver
  <2>1. Ends("screen", sendq'[c], shown'[c], ver)
    BY <1>2, <1>4, <1>5, <1>7, AppendEnds
  <2> QED
    BY <2>1 DEF QueueEnds
<1>8. CASE ~Full(c) /\ ~Newer(c, v) /\ v # ver
  <2>1. v < ver
    BY <1>8
  <2>2. ~Ends("screen", sendq[c], shown[c], ver)
    <3>1. ~(shown[c] > v) /\ \A i \in DOMAIN sendq[c] : ~(sendq[c][i][1] = "screen" /\ sendq[c][i][2] > v)
      BY <1>8 DEF Newer
    <3>2. shown[c] # ver
      BY <2>1, <3>1
    <3>3. \A i \in DOMAIN sendq[c] : sendq[c][i] # <<"screen", ver>>
      BY <2>1, <3>1
    <3> QED
      BY <3>2, <3>3 DEF Ends
  <2> QED
    BY <1>3, <1>8, <2>1, <2>2 DEF QueueEnds
<1> QED
  BY <1>6, <1>7, <1>8

LEMMA SentFacts ==
  ASSUME QueueTypes, NEW c, NEW v \in Nat, trySend(c, <<"screen", v>>), Sent(c, <<"screen", v>>)
  PROVE  \A d \in Conns \ {c} : sendq'[d] = sendq[d] /\ (d \in oldScreen <=> d \in oldScreen')
<1>1. <<"screen", v>> \in Messages
  BY DEF Messages
<1>2. \A d \in Conns \ {c} : sendq'[d] = sendq[d]
  BY <1>1, SendFacts
<1>3. oldScreen' \in {oldScreen, oldScreen \cup {c}, oldScreen \ {c}}
  BY DEF Sent
<1> QED
  BY <1>2, <1>3

LEMMA MirrorStartScreens ==
  ASSUME ConnInv, QueueTypes, ScreenInv, NEW c \in Conns, MirrorStart(c)
  PROVE  ScreenInv'
<1>1. PICK v \in Nat : v = rd[c].v
  BY DEF ConnInv, ConnTypes, Handlers
<1>2. PICK l : /\ l = CHOOSE k \in Loops : loop[k] = Off
               /\ loop' = [loop EXCEPT ![l] = [c |-> c, at |-> "tick", stop |-> FALSE, v |-> 0]]
  BY DEF MirrorStart
<1>3. /\ rd[c].at = "mirror" /\ rd' = [rd EXCEPT ![c] = [at |-> "ack", v |-> 0]] /\ daemon = "up"
      /\ trySend(c, <<"screen", v>>) /\ Sent(c, <<"screen", v>>)
      /\ UNCHANGED <<ver, dirty, shown>>
  BY <1>1 DEF MirrorStart, At, clientVars, scrVars
<1>4. /\ c \in Handlers /\ Conns \subseteq Handlers /\ ver \in Nat /\ v <= ver
      /\ rd \in [Handlers -> [at : Places, v : Nat]] /\ loop \in [Loops -> LoopType]
  BY <1>1, <1>3 DEF ConnInv, ConnTypes, Handlers, LoopType, ScreenInv, Versions
<1>5. rd'[c].at = "ack" /\ \A y \in Handlers \ {c} : rd'[y] = rd[y]
  BY <1>3, <1>4
<1>6. /\ IsFiniteSet(Starting) /\ IsFiniteSet(Offs) /\ c \in Starting
      /\ Cardinality(Starting) \in Nat /\ Cardinality(Offs) \in Nat
  <2>1. IsFiniteSet(Starting) /\ IsFiniteSet(Offs)
    BY WsConstants, FS_Subset DEF Starting, Offs
  <2> QED
    BY <1>3, <2>1, FS_CardinalityType DEF Starting
<1>7. l \in Loops /\ loop[l] = Off
  <2>1. Cardinality(Starting) # 0
    BY <1>6, FS_EmptySet
  <2>2. Cardinality(Offs) # 0
    BY <1>6, <2>1 DEF ScreenInv, Slots
  <2>3. Offs # {}
    BY <2>2, FS_EmptySet
  <2>4. \E k \in Loops : loop[k] = Off
    BY <2>3 DEF Offs
  <2> QED
    BY <1>2, <2>4
<1>8. /\ loop'[l].c = c /\ loop'[l].at = "tick" /\ ~loop'[l].stop
      /\ \A k \in Loops \ {l} : loop'[k] = loop[k]
      /\ loop[l].at = "off" /\ loop[l].stop
  BY <1>2, <1>4, <1>7 DEF Off
<1>9. Slots'
  <2>1. Starting' = Starting \ {c}
    BY <1>4, <1>5 DEF Starting
  <2>2. Offs' = Offs \ {l} /\ l \in Offs
    BY <1>7, <1>8 DEF Offs, Off
  <2>3. Cardinality(Starting') = Cardinality(Starting) - 1 /\ Cardinality(Offs') = Cardinality(Offs) - 1
    BY <1>6, <2>1, <2>2, FS_RemoveElement
  <2>4. Cardinality(Starting') <= Cardinality(Offs')
    BY <1>6, <2>3 DEF ScreenInv, Slots
  <2> QED
    BY <1>8, <2>4 DEF ScreenInv, Slots
<1>10. Versions'
  BY <1>3, <1>4, <1>5, <1>8 DEF ScreenInv, Versions
<1>11. ASSUME NEW d \in Conns, ~dirty, Mirrored(d)' PROVE d \in oldScreen' \/ Coming(d)'
  <2>1. CASE d = c
    <3>1. \/ c \in oldScreen' \/ QueueEnds(c, ver)'
          \/ v < ver /\ ~QueueEnds(c, ver) /\ oldScreen' = oldScreen
      BY <1>3, <1>4, ScreenSent
    <3>2. QueueEnds(c, ver)' => Coming(c)'
      BY <1>3 DEF Coming, QueueEnds
    <3>3. ASSUME v < ver, ~QueueEnds(c, ver), oldScreen' = oldScreen PROVE c \in oldScreen' \/ Coming(c)'
      <4>1. c \in oldScreen \/ Coming(c)
        BY <1>3, <1>11 DEF ScreenInv, MirrorsFollow, Mirrored
      <4>2. Coming(c) => \E k \in Loops : loop[k].c = c /\ (loop[k].at = "look" \/ (loop[k].at = "send" /\ loop[k].v = ver))
        BY <1>1, <1>4, <3>3 DEF Coming, QueueEnds
      <4>3. Coming(c) => Coming(c)'
        BY <1>3, <1>8, <4>2 DEF Coming
      <4> QED
        BY <3>3, <4>1, <4>3
    <3> QED
      BY <2>1, <3>1, <3>2, <3>3
  <2>2. CASE d # c
    <3>1. sendq'[d] = sendq[d] /\ (d \in oldScreen <=> d \in oldScreen') /\ rd'[d] = rd[d]
      BY <1>3, <1>4, <1>5, <2>2, SentFacts
    <3>2. Mirrored(d)
      BY <1>8, <1>11, <2>2, <3>1 DEF Mirrored
    <3>3. Coming(d) => Coming(d)'
      BY <1>3, <1>8, <3>1 DEF Coming
    <3> QED
      BY <1>3, <1>11, <3>1, <3>2, <3>3 DEF ScreenInv, MirrorsFollow
  <2> QED
    BY <2>1, <2>2
<1>12. MirrorsFollow'
  BY <1>3, <1>11 DEF MirrorsFollow
<1> QED
  BY <1>9, <1>10, <1>12 DEF ScreenInv

LEMMA LoopSendScreens ==
  ASSUME ConnInv, QueueTypes, ScreenInv, NEW l \in Loops, LoopSend(l)
  PROVE  ScreenInv'
<1>1. PICK v \in Nat, c \in Conns \cup {"-"} : v = loop[l].v /\ c = loop[l].c
  BY DEF ConnInv, ConnTypes
<1>2. /\ loop[l].at = "send" /\ loop' = [loop EXCEPT ![l].at = "tick", ![l].v = 0] /\ daemon = "up"
      /\ BackgroundSend(c, <<"screen", v>>) /\ UNCHANGED <<ver, dirty, shown, rd>>
  BY <1>1 DEF LoopSend, clientVars, scrVars
<1>3. ver \in Nat /\ v <= ver /\ loop \in [Loops -> LoopType]
  BY <1>1, <1>2 DEF ConnInv, ConnTypes, LoopType, ScreenInv, Versions
<1>4. /\ loop'[l].c = c /\ loop'[l].at = "tick" /\ loop'[l].stop = loop[l].stop
      /\ \A k \in Loops \ {l} : loop'[k] = loop[k]
  BY <1>1, <1>2, <1>3 DEF LoopType
<1>5. Slots'
  BY <1>2, <1>4, LoopSlots
<1>6. Versions'
  BY <1>2, <1>4 DEF ScreenInv, Versions
<1>7. \A d \in Conns : Mirrored(d)' => Mirrored(d)
  BY <1>1, <1>2, <1>4 DEF Mirrored
<1>8. ASSUME NEW d \in Conns, ~dirty, Mirrored(d)', daemon' = "up" PROVE d \in oldScreen' \/ Coming(d)'
  <2>1. trySend(c, <<"screen", v>>) /\ Sent(c, <<"screen", v>>)
    BY <1>2, <1>8 DEF BackgroundSend
  <2>2. d \in oldScreen \/ Coming(d)
    BY <1>2, <1>7, <1>8 DEF ScreenInv, MirrorsFollow
  <2>3. CASE d = c
    <3>1. \/ c \in oldScreen' \/ QueueEnds(c, ver)'
          \/ v < ver /\ ~QueueEnds(c, ver) /\ oldScreen' = oldScreen
      BY <1>2, <1>3, <1>8, <2>1, <2>3, ScreenSent
    <3>2. QueueEnds(c, ver)' => Coming(c)'
      BY <1>2 DEF Coming, QueueEnds
    <3>3. ASSUME v < ver, ~QueueEnds(c, ver) PROVE Coming(c) => Coming(c)'
      <4>1. v # ver
        BY <1>3, <3>3
      <4> QED
        BY <1>1, <1>2, <1>4, <3>3, <4>1 DEF Coming, QueueEnds
    <3> QED
      BY <2>2, <2>3, <3>1, <3>2, <3>3
  <2>4. CASE d # c
    <3>1. sendq'[d] = sendq[d] /\ (d \in oldScreen <=> d \in oldScreen')
      BY <2>1, <2>4, SentFacts
    <3>2. Coming(d) => Coming(d)'
      BY <1>1, <1>2, <1>4, <2>4, <3>1 DEF Coming
    <3> QED
      BY <2>2, <3>1, <3>2
  <2> QED
    BY <2>3, <2>4
<1>9. MirrorsFollow'
  BY <1>2, <1>8 DEF MirrorsFollow
<1> QED
  BY <1>5, <1>6, <1>9 DEF ScreenInv
-----------------------------------------------------------------------------
LEMMA InitScreens == ASSUME WsInit PROVE ScreenInv
<1>1. /\ \A c \in Conns : rd[c].at = "new" /\ shown[c] = 0
      /\ \A l \in Loops : loop[l] = Off
      /\ shown \in [Conns -> Nat] /\ dirty
  BY DEF WsInit
<1>2. Starting = {} /\ IsFiniteSet(Offs)
  BY <1>1, WsConstants, FS_Subset DEF Starting, Offs
<1>3. Cardinality(Starting) <= Cardinality(Offs)
  BY <1>2, FS_EmptySet, FS_CardinalityType
<1>4. Slots
  BY <1>1, <1>3 DEF Slots
<1>5. Versions
  BY <1>1 DEF Versions, Off
<1> QED
  BY <1>1, <1>4, <1>5 DEF ScreenInv, MirrorsFollow

LEMMA NextScreens == ASSUME ConnInv, QueueTypes, ScreenInv, [WsNext]_wsVars PROVE ScreenInv'
<1>1. ASSUME NEW c \in Conns, Handles(c) PROVE ScreenInv'
  BY <1>1, HandlerScreens, MirrorOnScreens, ResizeScreens DEF Handles, Handlers
<1>2. ASSUME NEW c \in Conns, Goes(c) PROVE ScreenInv'
  BY <1>2, HandlerScreens, ResizeScreens, MirrorStartScreens DEF Goes, Handlers
<1>3. ASSUME NEW c \in Conns, Accept(c) \/ Pumps(c) PROVE ScreenInv'
  BY <1>3, HandlerScreens, PumpScreens, OtherScreens DEF Pumps
<1>4. CASE HttpGoes \/ \E z \in Sizes : Resize(Http, z)
  BY <1>4, ResizeScreens DEF HttpGoes, Handlers
<1>5. CASE Casts \/ broadcastLoop
  BY <1>5, CastScreens DEF Casts
<1>6. ASSUME NEW l \in Loops, Mirrors(l) PROVE ScreenInv'
  BY <1>6, LoopScreens, LoopSendScreens DEF Mirrors
<1>7. CASE (\E c \in Conns : PeerLeaves(c) \/ heartbeat(c)) \/ Calls \/ Output \/ Exit \/ UNCHANGED wsVars
  BY <1>7, OtherScreens
<1> QED
  BY <1>1, <1>2, <1>3, <1>4, <1>5, <1>6, <1>7 DEF WsNext

LEMMA ScreenAlways == WsSpec => []ScreenInv
<1>1. GridInv => QueueTypes
  BY DEF GridInv
<1> QED
  BY <1>1, InitScreens, NextScreens, ConnInvariant, GridAlways, PTL DEF WsSpec

\* A mirrored client that has received all that was sent, while the screen is
\* not dirty, shows the current screen, unless it met one of the windows that
\* MirrorShowsTheScreen names (conn.go, handleMirror and sendScreen).
THEOREM MirrorsShowTheScreen == WsSpec => []MirrorShowsTheScreen
<1>1. ASSUME ConnInv, ScreenInv PROVE MirrorShowsTheScreen
  <2> SUFFICES ASSUME NEW c \in Conns, Quiet(c), ~dirty,
                      \E l \in Loops : loop[l].c = c /\ ~loop[l].stop,
                      \A l \in Loops : loop[l].c = c => loop[l].at = "tick"
               PROVE  shown[c] = ver \/ c \in oldScreen
    BY DEF MirrorShowsTheScreen
  <2>1. rd[c].at = "read" /\ sendq[c] = <<>> /\ daemon = "up"
    BY DEF Quiet, Reading
  <2>2. c \in oldScreen \/ Coming(c)
    BY <1>1, <2>1 DEF ScreenInv, MirrorsFollow, Mirrored
  <2>3. Coming(c) => shown[c] = ver
    BY <2>1 DEF Coming, Ends
  <2> QED
    BY <2>2, <2>3
<1> QED
  BY <1>1, ScreenAlways, ConnInvariant, PTL
=============================================================================
