------------------------------- MODULE WsConn -------------------------------
(***************************************************************************)
(* The WebSocket side of the daemon: the hub and its broadcasts            *)
(* (ws/hub.go), a connection with its read loop, write pump, heartbeat and *)
(* mirror loops (ws/conn.go), the screen they show (terminal/screen.go)    *)
(* and the subscriber tables of one session (terminal/session.go).         *)
(*                                                                         *)
(* Every connection has a read loop (rd) that runs one handler at a time   *)
(* and closes the connection itself when Read fails.  What is sent to a    *)
(* connection by others (the broadcast loop, another connection's resize,  *)
(* the output and status callbacks of the session, mirror loops) goes      *)
(* through trySend into a bounded channel that close closes: a send after  *)
(* that panics.  A step is one critical section or one channel operation.  *)
(* The content of the output stream is TermReplay's; here an output chunk  *)
(* is a new version of the screen.                                         *)
(***************************************************************************)
EXTENDS Integers, Sequences, FiniteSets

CONSTANTS
  Conns,      \* connections
  Loops,      \* mirror loops, numbered in the order they are started
  Sizes,      \* terminal grids that pass the 10x3 floor, numbered; 1 is the grid at the start
  Http,       \* the goroutine of an HTTP resize request
  QueueCap,   \* capacity of Conn.send
  MaxOps,     \* bound: handled messages, peers leaving, output chunks, bus events
  MaxSubs     \* bound: subscriptions a connection makes

ASSUME WsConstants ==
  /\ Loops \subseteq Nat /\ Sizes \subseteq Nat /\ 1 \in Sizes
  /\ IsFiniteSet(Conns) /\ IsFiniteSet(Sizes) /\ IsFiniteSet(Loops)
  /\ Http \notin Conns /\ {"free", "loop", "lost"} \cap Conns = {}
  /\ QueueCap \in Nat \ {0} /\ MaxOps \in Nat /\ MaxSubs \in Nat

VARIABLES
  daemon,     \* "up", or "dead" after a panic nothing recovers
  conns,      \* Hub.conns
  hubMu,      \* holder of Hub.mu: "free", "loop", a connection, or "lost" (never unlocked)
  castTo,     \* connections the holder of Hub.mu has still to send to
  castMsg,    \* what it sends
  link,       \* the peer: "ok", "silent" (gone without a word), "closed"
  rd,         \* read loop: where it is and the value its handler carries
  sendq,      \* Conn.send
  open,       \* Conn.send is not closed
  pump,       \* the write pump runs (sendDone is not closed)
  sub,        \* Conn.subs for the terminal: number of the subscription, 0 = none
  subs,       \* subscriptions made so far
  sess,       \* the session: "live", "exiting" (status recorded), "gone" (not in the manager)
  listed,     \* Session.outputSubs: <<connection, subscription>>
  outTo,      \* output callbacks notifyOutput has still to call
  statTo,     \* status callbacks still to run: <<connection, "fin" or "late">>
  loop,       \* mirror loops
  ver, dirty, \* the screen: its version, Screen.dirty
  ptySize, size, scrSize,  \* grid of the PTY, of the Session, of the Screen
  shown, grid,  \* the client: version of the screen and grid it was last told
  oldScreen,  \* history: connections whose client was left with an old screen (see Sent, Taken)
  oldGrid,    \* history: the same for the grid (see Sent, Grow)
  crossed,    \* history: two resizes ran at the same time
  ops         \* used up so far

hubVars == <<conns, hubMu, castTo, castMsg>>
clientVars == <<shown, grid>>
sessVars == <<sess, listed, outTo, statTo>>
sizeVars == <<ptySize, size, scrSize>>
scrVars == <<ver, dirty>>
subVars == <<sub, subs>>
histVars == <<oldScreen, oldGrid, crossed>>
wsVars == <<daemon, hubVars, link, rd, sendq, open, pump, subVars, sessVars, loop,
            scrVars, sizeVars, clientVars, histVars, ops>>

Nothing == <<"other", 0>>
At(c, l) == rd' = [rd EXCEPT ![c] = [at |-> l, v |-> 0]]
AtWith(c, l, v) == rd' = [rd EXCEPT ![c] = [at |-> l, v |-> v]]
Off == [c |-> "-", at |-> "off", stop |-> TRUE, v |-> 0]

WsInit ==
  /\ daemon = "up"
  /\ conns = {} /\ hubMu = "free" /\ castTo = {} /\ castMsg = Nothing
  /\ link = [c \in Conns |-> "ok"]
  /\ rd = [c \in Conns \cup {Http} |-> [at |-> "new", v |-> 0]]
  /\ sendq = [c \in Conns |-> <<>>]
  /\ open = [c \in Conns |-> TRUE]
  /\ pump = [c \in Conns |-> TRUE]
  /\ sub = [c \in Conns |-> 0] /\ subs = [c \in Conns |-> 0]
  /\ sess = "live" /\ listed = {} /\ outTo = {} /\ statTo = {}
  /\ loop = [l \in Loops |-> Off]
  /\ ver = 0 /\ dirty = TRUE
  /\ ptySize = 1 /\ size = 1 /\ scrSize = 1
  /\ shown = [c \in Conns |-> 0] /\ grid = [c \in Conns |-> 0]
  /\ oldScreen = {} /\ oldGrid = {} /\ crossed = FALSE /\ ops = 0
-----------------------------------------------------------------------------
(* A new piece of work arrives, or a peer goes.                            *)
Op == daemon = "up" /\ ops < MaxOps /\ ops' = ops + 1

(* The read loop of c waits for a message.                                 *)
Reading(c) == rd[c].at = "read" /\ link[c] = "ok"

(* What trySend leaves in the channel of c when it is open: the message,   *)
(* or nothing when the channel is full.                                    *)
Full(c) == Len(sendq[c]) >= QueueCap
trySend(c, m) == sendq' = [sendq EXCEPT ![c] = IF Full(c) THEN @ ELSE Append(@, m)]

(* History: the client of c is left behind by a screen that was dropped or *)
(* comes after a newer one, and by a grid that was dropped or is no longer *)
(* the session's; the newest screen or grid makes up for it.               *)
Newer(c, v) == shown[c] > v \/ \E i \in DOMAIN sendq[c] :
                                 sendq[c][i][1] = "screen" /\ sendq[c][i][2] > v
Sent(c, m) ==
  /\ oldScreen' = IF m[1] # "screen" THEN oldScreen
                  ELSE IF Full(c) \/ Newer(c, m[2]) THEN oldScreen \cup {c}
                  ELSE IF m[2] = ver THEN oldScreen \ {c} ELSE oldScreen
  /\ oldGrid' = IF m[1] # "size" THEN oldGrid
                ELSE IF Full(c) \/ m[2] # size THEN oldGrid \cup {c} ELSE oldGrid \ {c}

(* A goroutine of the daemon that nothing recovers sends to c: a closed    *)
(* channel ends the process.                                               *)
BackgroundSend(c, m) ==
  IF open[c]
    THEN trySend(c, m) /\ Sent(c, m) /\ UNCHANGED daemon
    ELSE daemon' = "dead" /\ UNCHANGED <<sendq, oldScreen, oldGrid>>
-----------------------------------------------------------------------------
(* ServeHTTP: register, start the write pump and the heartbeat, read.      *)
Accept(c) ==
  /\ daemon = "up" /\ rd[c].at = "new" /\ hubMu = "free"
  /\ conns' = conns \cup {c}
  /\ At(c, "read")
  /\ UNCHANGED <<daemon, hubMu, castTo, castMsg, link, sendq, open, pump, subVars, sessVars,
                 loop, scrVars, sizeVars, clientVars, histVars, ops>>

(* Messages answered from the handler alone: ping, history.fetch, input    *)
(* (an error, or bytes to the PTY), what cannot be decoded or is unknown.  *)
Reply(c) ==
  /\ Reading(c) /\ Op
  /\ trySend(c, Nothing)
  /\ UNCHANGED <<daemon, hubVars, link, rd, open, pump, subVars, sessVars, loop, scrVars,
                 sizeVars, clientVars, histVars>>

(* Stopping the mirror loop of c closes its stop channel.                  *)
stopMirror(c) == [l \in Loops |-> IF loop[l].c = c THEN [loop[l] EXCEPT !.stop = TRUE] ELSE loop[l]]

(* Mutant: the subscription leaves the connection's map only.              *)
UnsubscribedHere(c) ==
  /\ loop' = stopMirror(c)
  /\ sub' = [sub EXCEPT ![c] = 0]
  /\ UNCHANGED listed

(* unsubscribe: the mirror too; the callbacks leave the session's tables.  *)
Unsubscribed(c) ==
  /\ loop' = stopMirror(c)
  /\ listed' = listed \ {<<c, sub[c]>>}
  /\ sub' = [sub EXCEPT ![c] = 0]

Unsubscribe(c) ==
  /\ Reading(c) /\ sub[c] # 0 /\ Op
  /\ Unsubscribed(c)
  /\ trySend(c, Nothing)
  /\ UNCHANGED <<daemon, hubVars, link, rd, open, pump, subs, sess, outTo, statTo, scrVars,
                 sizeVars, clientVars, histVars>>

(* terminal.subscribe: the old subscription goes, the grid is read.  An    *)
(* exited terminal is only replayed.                                       *)
Subscribe(c) ==
  /\ Reading(c) /\ subs[c] < MaxSubs /\ Op
  /\ Unsubscribed(c)
  /\ IF sess = "gone"
       THEN trySend(c, Nothing) /\ UNCHANGED rd
       ELSE AtWith(c, "size", size) /\ UNCHANGED sendq
  /\ UNCHANGED <<daemon, hubVars, link, open, pump, subs, sess, outTo, statTo, scrVars,
                 sizeVars, clientVars, histVars>>

(* The grid is sent, the callbacks are registered: a status callback that  *)
(* comes after the exit was recorded runs at once in its own goroutine.    *)
Listen(c) ==
  /\ daemon = "up" /\ rd[c].at = "size"
  /\ trySend(c, <<"size", rd[c].v>>) /\ Sent(c, <<"size", rd[c].v>>)
  /\ subs' = [subs EXCEPT ![c] = @ + 1]
  /\ sub' = [sub EXCEPT ![c] = subs[c] + 1]
  /\ listed' = listed \cup {<<c, subs[c] + 1>>}
  /\ statTo' = IF sess = "live" THEN statTo ELSE statTo \cup {<<c, "late">>}
  /\ At(c, "read")
  /\ UNCHANGED <<daemon, hubVars, link, open, pump, sess, outTo, loop, scrVars,
                 sizeVars, clientVars, crossed, ops>>

(* Mutant: a change that does not mark the screen dirty.                   *)
RedrawUnmarked == ver' = ver + 1 /\ UNCHANGED dirty

(* Screen.Write and Screen.Resize: the screen changes and is dirty.        *)
Redraw == ver' = ver + 1 /\ dirty' = TRUE

(* terminal.resize of a live session to a grid it does not have; an HTTP   *)
(* resize does not compare.  Up to pty.Resize nothing that others see      *)
(* changes, so the comparison and the PTY are one step.                    *)
Resize(x, z) ==
  /\ Op /\ sess # "gone"
  /\ IF x = Http THEN rd[x].at = "new" ELSE Reading(x) /\ z # size
  /\ ptySize' = z
  /\ crossed' = (crossed \/ \E y \in Conns \cup {Http} : rd[y].at \in {"cols", "screen", "cast", "casting"})
  /\ AtWith(x, "cols", z)
  /\ UNCHANGED <<daemon, hubVars, link, sendq, open, pump, subVars, sessVars, loop, scrVars,
                 size, scrSize, clientVars, oldScreen, oldGrid>>

(* A resize of a session that is not there, or whose PTY is closed.        *)
ResizeFails(c) ==
  /\ sess # "live" /\ Reading(c) /\ Op
  /\ trySend(c, Nothing)
  /\ UNCHANGED <<daemon, hubVars, link, rd, open, pump, subVars, sessVars, loop, scrVars,
                 sizeVars, clientVars, histVars>>

(* Session.Resize keeps the grid.  History: nobody tells the clients of a  *)
(* grid set over HTTP.                                                     *)
SetSize(x) ==
  /\ daemon = "up" /\ rd[x].at = "cols"
  /\ size' = rd[x].v
  /\ oldGrid' = IF x = Http THEN Conns ELSE oldGrid
  /\ AtWith(x, "screen", rd[x].v)
  /\ UNCHANGED <<daemon, hubVars, link, sendq, open, pump, subVars, sessVars, loop, scrVars,
                 ptySize, scrSize, clientVars, oldScreen, crossed, ops>>

(* Mutant: the resize ends without telling the clients.                    *)
SetScreenUntold(x) ==
  /\ daemon = "up" /\ rd[x].at = "screen"
  /\ scrSize' = rd[x].v
  /\ Redraw
  /\ At(x, IF x = Http THEN "new" ELSE "read")
  /\ UNCHANGED <<daemon, hubVars, link, sendq, open, pump, subVars, sessVars, loop,
                 ptySize, size, clientVars, histVars, ops>>

(* Screen.Resize, the last of Session.Resize.                              *)
SetScreen(x) ==
  /\ daemon = "up" /\ rd[x].at = "screen"
  /\ scrSize' = rd[x].v
  /\ Redraw
  /\ IF x = Http THEN At(x, "new") ELSE AtWith(x, "cast", rd[x].v)
  /\ UNCHANGED <<daemon, hubVars, link, sendq, open, pump, subVars, sessVars, loop,
                 ptySize, size, clientVars, histVars, ops>>
-----------------------------------------------------------------------------
(* Hub.Broadcast of the new grid takes Hub.mu; so does broadcastLoop for   *)
(* an event of the bus.                                                    *)
Broadcast(c) ==
  /\ daemon = "up" /\ rd[c].at = "cast" /\ hubMu = "free"
  /\ hubMu' = c /\ castTo' = conns /\ castMsg' = <<"size", rd[c].v>>
  /\ At(c, "casting")
  /\ UNCHANGED <<daemon, conns, link, sendq, open, pump, subVars, sessVars, loop, scrVars,
                 sizeVars, clientVars, histVars, ops>>

broadcastLoop ==
  /\ Op /\ hubMu = "free"
  /\ hubMu' = "loop" /\ castTo' = conns /\ castMsg' = Nothing
  /\ UNCHANGED <<daemon, conns, link, rd, sendq, open, pump, subVars, sessVars, loop, scrVars,
                 sizeVars, clientVars, histVars>>

(* One send of a broadcast.  A panic in broadcastLoop ends the daemon; one *)
(* in a handler is recovered by the HTTP middleware after the deferred     *)
(* close, with Hub.mu still locked.                                        *)
Cast(c) ==
  /\ daemon = "up" /\ c \in castTo
  /\ IF open[c] \/ hubMu = "loop"
       THEN /\ BackgroundSend(c, castMsg)
            /\ castTo' = castTo \ {c}
            /\ UNCHANGED <<hubMu, rd>>
       ELSE /\ hubMu' = "lost" /\ castTo' = {}
            /\ At(hubMu, "closing")
            /\ UNCHANGED <<daemon, sendq, oldScreen, oldGrid>>
  /\ UNCHANGED <<conns, castMsg, link, open, pump, subVars, sessVars, loop, scrVars,
                 sizeVars, clientVars, crossed, ops>>

(* Hub.mu is unlocked.                                                     *)
CastEnds ==
  /\ daemon = "up" /\ hubMu \notin {"free", "lost"} /\ castTo = {}
  /\ hubMu' = "free" /\ castMsg' = Nothing
  /\ IF hubMu = "loop" THEN UNCHANGED rd ELSE At(hubMu, "read")
  /\ UNCHANGED <<daemon, conns, castTo, link, sendq, open, pump, subVars, sessVars, loop, scrVars,
                 sizeVars, clientVars, histVars, ops>>
-----------------------------------------------------------------------------
(* Snapshot clears the dirty flag all mirrors share.  History: who has a   *)
(* mirror and has not looked yet will not see this version.                *)
Snapshot == dirty' = FALSE
Taken(c) ==
  oldScreen' = IF ~dirty THEN oldScreen ELSE oldScreen \cup
    {d \in Conns \ {c} : \/ rd[d].at = "mirror"
                         \/ \E l \in Loops : loop[l].c = d /\ ~loop[l].stop /\ loop[l].at # "look"}

(* A slot for one more mirror loop, beyond those being started.            *)
LoopsLeft == Cardinality({l \in Loops : loop[l] = Off}) > Cardinality({c \in Conns : rd[c].at = "mirror"})

(* terminal.mirror: the running loop is stopped; turning it on takes a     *)
(* first snapshot.                                                         *)
MirrorOn(c) ==
  /\ Reading(c) /\ sess # "gone" /\ LoopsLeft /\ Op
  /\ loop' = stopMirror(c)
  /\ Snapshot /\ Taken(c)
  /\ AtWith(c, "mirror", ver)
  /\ UNCHANGED <<daemon, hubVars, link, sendq, open, pump, subVars, sessVars, ver,
                 sizeVars, clientVars, oldGrid, crossed>>

(* Turned off, or on for a terminal that is not running.                   *)
MirrorOff(c) ==
  /\ Reading(c) /\ Op
  /\ loop' = stopMirror(c)
  /\ trySend(c, Nothing)
  /\ UNCHANGED <<daemon, hubVars, link, rd, open, pump, subVars, sessVars, scrVars,
                 sizeVars, clientVars, histVars>>

(* sendScreen of the first snapshot, then the loop is started.             *)
MirrorStart(c) ==
  /\ daemon = "up" /\ rd[c].at = "mirror"
  /\ trySend(c, <<"screen", rd[c].v>>) /\ Sent(c, <<"screen", rd[c].v>>)
  /\ LET l == CHOOSE l \in Loops : loop[l] = Off
     IN  loop' = [loop EXCEPT ![l] = [c |-> c, at |-> "tick", stop |-> FALSE, v |-> 0]]
  /\ At(c, "ack")
  /\ UNCHANGED <<daemon, hubVars, link, open, pump, subVars, sessVars, scrVars,
                 sizeVars, clientVars, crossed, ops>>

MirrorAck(c) ==
  /\ daemon = "up" /\ rd[c].at = "ack"
  /\ trySend(c, Nothing)
  /\ At(c, "read")
  /\ UNCHANGED <<daemon, hubVars, link, open, pump, subVars, sessVars, loop, scrVars,
                 sizeVars, clientVars, histVars, ops>>

(* The ticker fires and the screen is dirty.  select may take the ticker   *)
(* although stop is closed too.                                            *)
LoopTick(l) ==
  /\ daemon = "up" /\ loop[l].at = "tick" /\ dirty
  /\ loop' = [loop EXCEPT ![l].at = "look"]
  /\ UNCHANGED <<daemon, hubVars, link, rd, sendq, open, pump, subVars, sessVars, scrVars,
                 sizeVars, clientVars, histVars, ops>>

LoopSnapshot(l) ==
  /\ daemon = "up" /\ loop[l].at = "look"
  /\ Snapshot /\ Taken(loop[l].c)
  /\ loop' = [loop EXCEPT ![l].at = "send", ![l].v = ver]
  /\ UNCHANGED <<daemon, hubVars, link, rd, sendq, open, pump, subVars, sessVars, ver,
                 sizeVars, clientVars, oldGrid, crossed, ops>>

LoopSend(l) ==
  /\ daemon = "up" /\ loop[l].at = "send"
  /\ BackgroundSend(loop[l].c, <<"screen", loop[l].v>>)
  /\ loop' = [loop EXCEPT ![l].at = "tick", ![l].v = 0]
  /\ UNCHANGED <<hubVars, link, rd, open, pump, subVars, sessVars, scrVars,
                 sizeVars, clientVars, crossed, ops>>

(* stop or sendDone is closed.                                             *)
LoopEnds(l) ==
  /\ daemon = "up" /\ loop[l].at = "tick" /\ (loop[l].stop \/ ~pump[loop[l].c])
  /\ loop' = [loop EXCEPT ![l] = Off]
  /\ UNCHANGED <<daemon, hubVars, link, rd, sendq, open, pump, subVars, sessVars, scrVars,
                 sizeVars, clientVars, histVars, ops>>
-----------------------------------------------------------------------------
(* notifyOutput: the screen is fed, the callbacks are copied, then called  *)
(* one by one outside the lock.                                            *)
Output ==
  /\ Op /\ sess # "gone" /\ outTo = {}
  /\ Redraw
  /\ outTo' = listed
  /\ UNCHANGED <<daemon, hubVars, link, rd, sendq, open, pump, subVars, sess, listed, statTo,
                 loop, sizeVars, clientVars, histVars>>

OutputCall(e) ==
  /\ daemon = "up" /\ e \in outTo
  /\ BackgroundSend(e[1], Nothing)
  /\ outTo' = outTo \ {e}
  /\ UNCHANGED <<hubVars, link, rd, open, pump, subVars, sess, listed, statTo, loop, scrVars,
                 sizeVars, clientVars, crossed, ops>>

(* finalize records the exit and takes the status callbacks ...            *)
Exit ==
  /\ Op /\ sess = "live"
  /\ sess' = "exiting"
  /\ statTo' = {<<e[1], "fin">> : e \in listed}
  /\ UNCHANGED <<daemon, hubVars, link, rd, sendq, open, pump, subVars, listed, outTo, loop,
                 scrVars, sizeVars, clientVars, histVars>>

StatusCall(e) ==
  /\ daemon = "up" /\ e \in statTo
  /\ BackgroundSend(e[1], Nothing)
  /\ statTo' = statTo \ {e}
  /\ UNCHANGED <<hubVars, link, rd, open, pump, subVars, sess, listed, outTo, loop, scrVars,
                 sizeVars, clientVars, crossed, ops>>

(* ... and leaves the manager when all have been called.                   *)
SessionGone ==
  /\ daemon = "up" /\ sess = "exiting" /\ outTo = {} /\ \A e \in statTo : e[2] = "late"
  /\ sess' = "gone"
  /\ UNCHANGED <<daemon, hubVars, link, rd, sendq, open, pump, subVars, listed, outTo, statTo,
                 loop, scrVars, sizeVars, clientVars, histVars, ops>>
-----------------------------------------------------------------------------
(* The peer closes the connection, or vanishes.                            *)
PeerLeaves(c) ==
  /\ Op /\ link[c] = "ok" /\ rd[c].at \notin {"new", "gone"}
  /\ \E l \in {"silent", "closed"} : link' = [link EXCEPT ![c] = l]
  /\ UNCHANGED <<daemon, hubVars, rd, sendq, open, pump, subVars, sessVars, loop, scrVars,
                 sizeVars, clientVars, histVars>>

(* heartbeat: an unanswered ping closes the connection.                    *)
heartbeat(c) ==
  /\ daemon = "up" /\ link[c] = "silent"
  /\ link' = [link EXCEPT ![c] = "closed"]
  /\ UNCHANGED <<daemon, hubVars, rd, sendq, open, pump, subVars, sessVars, loop, scrVars,
                 sizeVars, clientVars, histVars, ops>>

(* writePump: one message to the peer; it ends when the write fails or the *)
(* channel is closed and empty.                                            *)
PumpWrites(c) ==
  /\ daemon = "up" /\ pump[c] /\ sendq[c] # <<>> /\ link[c] # "closed"
  /\ sendq' = [sendq EXCEPT ![c] = Tail(@)]
  /\ LET m == Head(sendq[c])
     IN  /\ shown' = IF m[1] = "screen" THEN [shown EXCEPT ![c] = m[2]] ELSE shown
         /\ grid' = IF m[1] = "size" THEN [grid EXCEPT ![c] = m[2]] ELSE grid
  /\ UNCHANGED <<daemon, hubVars, link, rd, open, pump, subVars, sessVars, loop, scrVars,
                 sizeVars, histVars, ops>>

PumpEnds(c) ==
  /\ daemon = "up" /\ pump[c]
  /\ IF sendq[c] # <<>> THEN link[c] = "closed" ELSE ~open[c]
  /\ pump' = [pump EXCEPT ![c] = FALSE]
  /\ UNCHANGED <<daemon, hubVars, link, rd, sendq, open, subVars, sessVars, loop, scrVars,
                 sizeVars, clientVars, histVars, ops>>

(* Read fails and the deferred close runs: the closed flag and the maps,   *)
(* the mirrors and the callbacks, the connection, the channel, then the    *)
(* wait for the pump, and at last unregister.                              *)
ReadFails(c) ==
  /\ daemon = "up" /\ rd[c].at = "read" /\ link[c] = "closed"
  /\ At(c, "closing")
  /\ UNCHANGED <<daemon, hubVars, link, sendq, open, pump, subVars, sessVars, loop, scrVars,
                 sizeVars, clientVars, histVars, ops>>

CloseCancels(c) ==
  /\ daemon = "up" /\ rd[c].at = "closing"
  /\ Unsubscribed(c)
  /\ link' = [link EXCEPT ![c] = "closed"]
  /\ At(c, "shut")
  /\ UNCHANGED <<daemon, hubVars, sendq, open, pump, subs, sess, outTo, statTo, scrVars,
                 sizeVars, clientVars, histVars, ops>>

(* Mutant: the channel is not closed.                                      *)
CloseNoSend(c) ==
  /\ daemon = "up" /\ rd[c].at = "shut"
  /\ At(c, "drain")
  /\ UNCHANGED <<daemon, hubVars, link, sendq, open, pump, subVars, sessVars, loop, scrVars,
                 sizeVars, clientVars, histVars, ops>>

CloseSend(c) ==
  /\ daemon = "up" /\ rd[c].at = "shut"
  /\ open' = [open EXCEPT ![c] = FALSE]
  /\ At(c, "drain")
  /\ UNCHANGED <<daemon, hubVars, link, sendq, pump, subVars, sessVars, loop, scrVars,
                 sizeVars, clientVars, histVars, ops>>

Unregister(c) ==
  /\ daemon = "up" /\ rd[c].at = "drain" /\ ~pump[c] /\ hubMu = "free"
  /\ conns' = conns \ {c}
  /\ At(c, "gone")
  /\ UNCHANGED <<daemon, hubMu, castTo, castMsg, link, sendq, open, pump, subVars, sessVars, loop,
                 scrVars, sizeVars, clientVars, histVars, ops>>
-----------------------------------------------------------------------------
(* Steps of the daemon's goroutines once they have something to do.        *)
Goes(c) ==
  \/ Listen(c) \/ SetSize(c) \/ SetScreen(c) \/ Broadcast(c) \/ MirrorStart(c) \/ MirrorAck(c)
  \/ ReadFails(c) \/ CloseCancels(c) \/ CloseSend(c) \/ Unregister(c)
Pumps(c) == PumpWrites(c) \/ PumpEnds(c)
Mirrors(l) == LoopTick(l) \/ LoopSnapshot(l) \/ LoopSend(l) \/ LoopEnds(l)
Casts == CastEnds \/ \E c \in Conns : Cast(c)
Calls == (\E e \in outTo : OutputCall(e)) \/ (\E e \in statTo : StatusCall(e)) \/ SessionGone
HttpGoes == SetSize(Http) \/ SetScreen(Http)

Handles(c) ==
  \/ Reply(c) \/ Unsubscribe(c) \/ Subscribe(c) \/ ResizeFails(c) \/ MirrorOn(c) \/ MirrorOff(c)
  \/ \E z \in Sizes : Resize(c, z)

WsNext ==
  \/ \E c \in Conns : Accept(c) \/ Handles(c) \/ Goes(c) \/ Pumps(c) \/ PeerLeaves(c) \/ heartbeat(c)
  \/ \E l \in Loops : Mirrors(l)
  \/ Casts \/ Calls \/ HttpGoes
  \/ \E z \in Sizes : Resize(Http, z)
  \/ broadcastLoop \/ Output \/ Exit

WsSpec == WsInit /\ [][WsNext]_wsVars

(* A read loop, a write pump and the holder of Hub.mu that can run do, and *)
(* the heartbeat's timer fires; no fairness is needed of mirror loops,     *)
(* callbacks and peers.  Broadcasts are bounded, so weak fairness is       *)
(* enough for the wait on Hub.mu (Go's mutex does not starve a waiter).    *)
WsFairSpec ==
  /\ WsSpec
  /\ \A c \in Conns : WF_wsVars(Goes(c)) /\ WF_wsVars(Pumps(c)) /\ WF_wsVars(heartbeat(c))
  /\ WF_wsVars(Casts)
-----------------------------------------------------------------------------
(* trySend pushes to the channel or drops (conn.go:510), so a send to a    *)
(* connection never takes the daemon or the hub down.                      *)
SendsAreHarmless == daemon = "up" /\ hubMu # "lost"

(* A connection has at most the one entry in the session's subscriber      *)
(* table that its own map can cancel, whatever was subscribed twice or     *)
(* mirrored before; and after run returned neither the hub nor the session *)
(* holds it and its mirror loops are told to stop.                         *)
NothingOutlivesTheConnection ==
  /\ \A e \in listed : sub[e[1]] = e[2]
  /\ \A c \in Conns : rd[c].at = "gone" =>
       /\ c \notin conns
       /\ \A e \in listed : e[1] # c
       /\ \A l \in Loops : loop[l].c = c => loop[l].stop

(* Nothing is on its way to the client of c.                               *)
Quiet(c) == Reading(c) /\ daemon = "up" /\ pump[c] /\ sendq[c] = <<>>

(* The screen mirror (handleMirror): once a mirrored client has received   *)
(* all that was sent and the screen is not dirty, it shows the current     *)
(* screen, unless another mirror's snapshot took the change, the queue     *)
(* dropped it, or a stopped loop sent an older screen late.                *)
MirrorShowsTheScreen ==
  \A c \in Conns :
    /\ Quiet(c) /\ ~dirty
    /\ \E l \in Loops : loop[l].c = c /\ ~loop[l].stop
    /\ \A l \in Loops : loop[l].c = c => loop[l].at = "tick"
    => shown[c] = ver \/ c \in oldScreen

(* Grids: with no resize under way the PTY, the session and the screen     *)
(* have one grid, and so has every client that was told one, unless two    *)
(* resizes ran together, the grid was set over HTTP, its message was       *)
(* dropped, or a subscription sent the grid it had read before a resize.   *)
GridsAgree ==
  ~crossed /\ (\A x \in Conns \cup {Http} : rd[x].at \notin {"cols", "screen", "cast", "casting"}) /\ hubMu = "free" =>
    /\ ptySize = size /\ scrSize = size
    /\ \A c \in Conns : Quiet(c) => grid[c] \in {0, size} \/ c \in oldGrid

(* A peer that closed or vanished is noticed: its connection ends and is   *)
(* unregistered, unless a panic took the daemon or left Hub.mu locked (a   *)
(* peer that left does not come back on its connection).                   *)
LostPeersAreForgotten ==
  \A c \in Conns : []<>(link[c] # "ok" => rd[c].at = "gone" \/ ~SendsAreHarmless)
=============================================================================
