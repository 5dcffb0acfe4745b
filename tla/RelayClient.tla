----------------------------- MODULE RelayClient -----------------------------
(***************************************************************************)
(* The daemon's side of the cloud relay: relay.Manager (manager.go), which *)
(* starts and stops clients on the user's toggle, and relay.Client         *)
(* (client.go), which keeps a connection to the relay and pipes tunnel     *)
(* streams to the local HTTP port.                                         *)
(*                                                                         *)
(* Goroutines: HTTP handlers calling SetEnabled (hpc), one calling         *)
(* ReportCode (rep), Client.Run with runOnce and serve (pc), its readLoop  *)
(* (rl), one context watcher per connection (Watch) and one pumpLocal per  *)
(* stream (pump).  A step is one critical section of Manager.mu or         *)
(* Client.mu, one write to the connection, or one wait that ended.         *)
(*                                                                         *)
(* A connection is named by the order of the dials; a stream by its        *)
(* connection and the id the relay gave it.  Ids are fresh within one      *)
(* connection and may come back on the next (the relay's counter restarts  *)
(* with the relay).  The backoff delay is a wait of unknown length.        *)
(***************************************************************************)
EXTENDS Integers, FiniteSets

CONSTANTS
  Clients,    \* Client objects, in creation order 1, 2, ...
  Conns,      \* connections, in dial order 1, 2, ...
  Ids,        \* stream ids
  Handlers,   \* goroutines that may call Start or SetEnabled
  Boot,       \* the one that is main
  MaxOps,     \* bound: toggles, reported codes and shutdowns in a behaviour
  MaxFaults   \* bound: network, relay and local dial failures

ASSUME ClientConstants ==
  /\ Clients \subseteq Nat \ {0} /\ Conns \subseteq Nat \ {0}
  /\ Boot \in Handlers
  /\ MaxOps \in Nat /\ MaxFaults \in Nat

VARIABLES
  enabled,  \* Manager.enabled
  running,  \* Manager.running
  cur,      \* Manager.client, 0 = nil
  mstate,   \* Manager.state
  base,     \* Manager.baseCtx: "nil", "main" or "background"
  down,     \* main's context is done (daemon shutting down)
  hpc,      \* handler: "idle", or about to call Start: "boot" (main), "start" (SetEnabled)
  rep,      \* ReportCode: [at, c, k]
  pc,       \* Client.Run / runOnce / serve
  canc,     \* the client's run context is cancelled
  link,     \* runOnce's conn, 0 = none yet
  pub,      \* Client.conn, 0 = nil
  rl,       \* readLoop: [at, id]
  smap,     \* Client.streams: id -> connection of the tstream it holds, 0 = absent
  by,       \* the client that dialled the connection, 0 = not dialled
  wire,     \* connection: "none", "open", "dead" (peer gone, unnoticed), "closed"
  sent,     \* control frames the relay has been sent on the connection
  opened,   \* stream ids the relay has opened on the connection
  tcp,      \* tstream.tcp: "none", "open", "eof" (local end gone), "closed"
  pump,     \* pumpLocal: "off", "read", "told" (close frame written), "done"
  ops, faults    \* used up so far

mgrVars == <<enabled, running, cur, mstate, base>>
streamVars == <<smap, tcp, pump>>
wireVars == <<by, wire, sent, opened>>
envVars == <<down, ops, faults>>
vars == <<mgrVars, envVars, hpc, rep, pc, canc, link, pub, rl, streamVars, wireVars>>

Frames == {<<"hello">>, <<"reg">>, <<"code">>}
            \cup {<<t, i>> : t \in {"accept", "close"}, i \in Ids}

(* The type of the state: the fields of Manager, Client and tstream.       *)
ClientTypeOK ==
  /\ enabled \in BOOLEAN /\ running \in BOOLEAN /\ down \in BOOLEAN
  /\ cur \in Clients \cup {0}
  /\ mstate \in {"disabled", "offline", "online"}
  /\ base \in {"nil", "main", "background"}
  /\ hpc \in [Handlers -> {"idle", "boot", "start"}]
  /\ rep \in [at : {"idle", "conn", "write"}, c : Clients \cup {0}, k : Conns \cup {0}]
  /\ pc \in [Clients -> {"new", "loop", "hello", "reg", "online", "serve", "drain",
                         "lost", "offline", "backoff", "finish", "done"}]
  /\ canc \in [Clients -> BOOLEAN]
  /\ link \in [Clients -> Conns \cup {0}]
  /\ pub \in [Clients -> Conns \cup {0}]
  /\ rl \in [Clients -> [at : {"off", "read", "dial", "accept", "ret"}, id : Ids \cup {0}]]
  /\ smap \in [Clients -> [Ids -> Conns \cup {0}]]
  /\ by \in [Conns -> Clients \cup {0}]
  /\ wire \in [Conns -> {"none", "open", "dead", "closed"}]
  /\ sent \in [Conns -> SUBSET Frames]
  /\ opened \in [Conns -> SUBSET Ids]
  /\ tcp \in [Conns -> [Ids -> {"none", "open", "eof", "closed"}]]
  /\ pump \in [Conns -> [Ids -> {"off", "read", "told", "done"}]]
  /\ ops \in 0 .. MaxOps /\ faults \in 0 .. MaxFaults

(* main: NewManager(opts, cloudEnabled), then Start when enabled.          *)
ClientInit ==
  /\ enabled \in BOOLEAN
  /\ running = FALSE /\ cur = 0 /\ mstate = "disabled" /\ base = "nil" /\ down = FALSE
  /\ hpc = [h \in Handlers |-> IF h = Boot /\ enabled THEN "boot" ELSE "idle"]
  /\ rep = [at |-> "idle", c |-> 0, k |-> 0]
  /\ pc = [c \in Clients |-> "new"]
  /\ canc = [c \in Clients |-> FALSE]
  /\ link = [c \in Clients |-> 0] /\ pub = [c \in Clients |-> 0]
  /\ rl = [c \in Clients |-> [at |-> "off", id |-> 0]]
  /\ smap = [c \in Clients |-> [i \in Ids |-> 0]]
  /\ by = [k \in Conns |-> 0]
  /\ wire = [k \in Conns |-> "none"]
  /\ sent = [k \in Conns |-> {}]
  /\ opened = [k \in Conns |-> {}]
  /\ tcp = [k \in Conns |-> [i \in Ids |-> "none"]]
  /\ pump = [k \in Conns |-> [i \in Ids |-> "off"]]
  /\ ops = 0 /\ faults = 0
-----------------------------------------------------------------------------
(***************************************************************************)
(* Manager.                                                                *)
(***************************************************************************)
(* main has not made its first call of Start; the HTTP handlers get the    *)
(* manager only after it.                                                  *)
Booting == hpc[Boot] = "boot"

(* SetEnabled(true), first critical section; the request ends here when a  *)
(* client was running.                                                     *)
SetEnabled(h) ==
  /\ hpc[h] = "idle" /\ ~Booting /\ ops < MaxOps
  /\ ops' = ops + 1
  /\ enabled' = TRUE
  /\ hpc' = [hpc EXCEPT ![h] = IF running THEN "idle" ELSE "start"]
  /\ UNCHANGED <<running, cur, mstate, base, down, faults, rep, pc, canc, link,
                 pub, rl, streamVars, wireVars>>

(* Mutant of StartsClient: the check of m.running is dropped.              *)
MutStartsClient == enabled

StartsClient == ~running /\ enabled

(* Start's critical section and the spawn of client.Run.                   *)
Start(h) ==
  /\ hpc[h] # "idle"
  /\ hpc' = [hpc EXCEPT ![h] = "idle"]
  /\ base' = IF base # "nil" THEN base ELSE IF hpc[h] = "boot" THEN "main" ELSE "background"
  /\ \/ /\ ~StartsClient
        /\ UNCHANGED <<running, cur, mstate, pc, canc>>
     \/ /\ StartsClient
        /\ \E c \in Clients :
             /\ pc[c] = "new" /\ \A d \in Clients : d < c => pc[d] # "new"
             /\ cur' = c
             /\ pc' = [pc EXCEPT ![c] = "loop"]
             /\ canc' = [canc EXCEPT ![c] = down /\ base' = "main"]
        /\ running' = TRUE /\ mstate' = "offline"
  /\ UNCHANGED <<enabled, envVars, rep, link, pub, rl, streamVars, wireVars>>

(* Stop, from SetEnabled(false) or from main's deferred call.              *)
Stop(h) ==
  /\ hpc[h] = "idle" /\ ~Booting /\ ops < MaxOps
  /\ ops' = ops + 1
  /\ enabled' = FALSE /\ running' = FALSE /\ cur' = 0 /\ mstate' = "disabled"
  /\ canc' = IF cur = 0 THEN canc ELSE [canc EXCEPT ![cur] = TRUE]
  /\ UNCHANGED <<base, down, faults, hpc, rep, pc, link, pub, rl, streamVars, wireVars>>

(* The shutdown signal cancels main's context, hence every context derived *)
(* from it.                                                                *)
Shutdown ==
  /\ ~down /\ ops < MaxOps
  /\ ops' = ops + 1
  /\ down' = TRUE
  /\ canc' = [c \in Clients |-> canc[c] \/ (base = "main" /\ pc[c] # "new")]
  /\ UNCHANGED <<mgrVars, faults, hpc, rep, pc, link, pub, rl, streamVars, wireVars>>

(* client.Run returned: cancel and, unless replaced, detach the client.    *)
RunReturned(c) ==
  /\ pc[c] = "finish"
  /\ pc' = [pc EXCEPT ![c] = "done"]
  /\ canc' = [canc EXCEPT ![c] = TRUE]
  /\ \/ /\ cur = c
        /\ cur' = 0 /\ running' = FALSE
        /\ mstate' = IF enabled THEN "offline" ELSE "disabled"
     \/ /\ cur # c
        /\ UNCHANGED <<cur, running, mstate>>
  /\ UNCHANGED <<enabled, base, envVars, hpc, rep, link, pub, rl, streamVars, wireVars>>

(* Manager.ReportCode takes m.client, Client.ReportCode takes c.conn, then *)
(* the frame is written with no lock held.                                 *)
ReportCode ==
  \/ /\ rep.at = "idle" /\ ops < MaxOps /\ cur # 0
     /\ ops' = ops + 1
     /\ rep' = [at |-> "conn", c |-> cur, k |-> 0]
     /\ UNCHANGED sent
  \/ /\ rep.at = "conn"
     /\ rep' = IF pub[rep.c] = 0 THEN [rep EXCEPT !.at = "idle", !.c = 0]
                                 ELSE [at |-> "write", c |-> 0, k |-> pub[rep.c]]
     /\ UNCHANGED <<ops, sent>>
  \/ /\ rep.at = "write"
     /\ rep' = [at |-> "idle", c |-> 0, k |-> 0]
     /\ sent' = IF wire[rep.k] = "open" THEN [sent EXCEPT ![rep.k] = @ \cup {<<"code">>}]
                                        ELSE sent
     /\ UNCHANGED ops

ReportStep ==
  /\ ReportCode
  /\ UNCHANGED <<mgrVars, down, faults, hpc, pc, canc, link, pub, rl, streamVars,
                 by, wire, opened>>
-----------------------------------------------------------------------------
(***************************************************************************)
(* Streams.                                                                *)
(***************************************************************************)
(* Mutant of CloseStream: the entry is deleted, the tstream not closed.    *)
MutCloseStream(c, i) ==
  /\ smap' = [smap EXCEPT ![c][i] = 0]
  /\ UNCHANGED tcp

(* closeStream(id): whatever tstream the map holds under id is closed.     *)
CloseStream(c, i) ==
  /\ smap' = [smap EXCEPT ![c][i] = 0]
  /\ tcp' = IF smap[c][i] = 0 THEN tcp ELSE [tcp EXCEPT ![smap[c][i]][i] = "closed"]

(* closeStreamsLocked: every tstream in the map is closed.                 *)
CloseStreamsLocked(c) ==
  /\ smap' = [smap EXCEPT ![c] = [i \in Ids |-> 0]]
  /\ tcp' = [k \in Conns |-> [i \in Ids |-> IF smap[c][i] = k THEN "closed" ELSE tcp[k][i]]]

(* A control frame written to connection k reaches the relay if the        *)
(* connection is open; on a dead one it is lost.                           *)
Write(k, f) ==
  sent' = IF wire[k] = "open" THEN [sent EXCEPT ![k] = @ \cup {f}] ELSE sent

WriteFails(c, k) == wire[k] # "open" \/ canc[c]
WriteOK(k) == wire[k] # "closed"

MayFault == faults < MaxFaults /\ faults' = faults + 1
-----------------------------------------------------------------------------
(***************************************************************************)
(* Client.Run and runOnce.                                                 *)
(***************************************************************************)
Goto(c, l) == pc' = [pc EXCEPT ![c] = l]

(* The top of the loop: return when cancelled, else runOnce closes what a  *)
(* previous connection left and dials; a dial spawns the context watcher.  *)
RunOnce(c) ==
  /\ pc[c] = "loop"
  /\ \/ /\ canc[c]
        /\ Goto(c, "finish")
        /\ UNCHANGED <<smap, tcp, link, by, wire, faults>>
     \/ /\ ~canc[c]
        /\ CloseStreamsLocked(c)
        /\ \/ \E k \in Conns :
                /\ by[k] = 0 /\ \A j \in Conns : j < k => by[j] # 0
                /\ by' = [by EXCEPT ![k] = c]
                /\ wire' = [wire EXCEPT ![k] = "open"]
                /\ link' = [link EXCEPT ![c] = k]
                /\ Goto(c, "hello")
                /\ UNCHANGED faults
           \/ /\ MayFault
              /\ Goto(c, "lost")
              /\ UNCHANGED <<link, by, wire>>
  /\ UNCHANGED <<mgrVars, down, ops, hpc, rep, canc, pub, rl, pump, sent, opened>>

(* Mutant of Handshake: reg is not sent again after a reconnect.           *)
MutHandshake(c) ==
  LET k == link[c] IN
  \/ /\ pc[c] = "hello" /\ wire[k] = "open"
     /\ Write(k, <<"hello">>) /\ Goto(c, IF k = 1 THEN "reg" ELSE "online")
     /\ UNCHANGED <<wire, faults>>
  \/ /\ pc[c] = "reg" /\ WriteOK(k)
     /\ Write(k, <<"reg">>) /\ Goto(c, "online") /\ UNCHANGED <<wire, faults>>
  \/ /\ pc[c] \in {"hello", "reg"}
     /\ \/ WriteFails(c, k) /\ UNCHANGED faults
        \/ pc[c] = "hello" /\ MayFault
     /\ wire' = [wire EXCEPT ![k] = "closed"]
     /\ Goto(c, "lost") /\ UNCHANGED sent

(* hello with its ack, then reg; each may fail, and a failure closes the   *)
(* connection.                                                             *)
Handshake(c) ==
  LET k == link[c] IN
  \/ /\ pc[c] = "hello" /\ wire[k] = "open"
     /\ Write(k, <<"hello">>) /\ Goto(c, "reg") /\ UNCHANGED <<wire, faults>>
  \/ /\ pc[c] = "reg" /\ WriteOK(k)
     /\ Write(k, <<"reg">>) /\ Goto(c, "online") /\ UNCHANGED <<wire, faults>>
  \/ /\ pc[c] \in {"hello", "reg"}
     /\ \/ WriteFails(c, k) /\ UNCHANGED faults
        \/ pc[c] = "hello" /\ MayFault
     /\ wire' = [wire EXCEPT ![k] = "closed"]
     /\ Goto(c, "lost") /\ UNCHANGED sent

HandshakeStep(c) ==
  /\ Handshake(c)
  /\ UNCHANGED <<mgrVars, down, ops, hpc, rep, canc, link, pub, rl, streamVars, by, opened>>

(* setState and the manager's OnState callback, which writes m.state       *)
(* whichever client calls it.                                              *)
SetState(s) == mstate' = s

(* c.conn = conn, setState(StateOnline), then serve starts readLoop.       *)
Online(c) ==
  /\ pc[c] = "online"
  /\ pub' = [pub EXCEPT ![c] = link[c]]
  /\ SetState("online")
  /\ rl' = [rl EXCEPT ![c] = [at |-> "read", id |-> 0]]
  /\ Goto(c, "serve")
  /\ UNCHANGED <<enabled, running, cur, base, envVars, hpc, rep, canc, link,
                 streamVars, wireVars>>

(* serve: a ping failed or the context is done; the connection is closed   *)
(* before waiting for readLoop.                                            *)
Serve(c) ==
  /\ pc[c] = "serve" /\ (wire[link[c]] # "open" \/ canc[c])
  /\ wire' = [wire EXCEPT ![link[c]] = "closed"]
  /\ Goto(c, "drain")
  /\ UNCHANGED <<mgrVars, envVars, hpc, rep, canc, link, pub, rl, streamVars, by, sent, opened>>

(* Mutant of Cleanup: the streams of the lost connection are not closed.   *)
MutCleanup(c) ==
  /\ pc[c] \in {"serve", "drain"} /\ rl[c].at = "ret"
  /\ pub' = [pub EXCEPT ![c] = 0]
  /\ rl' = [rl EXCEPT ![c] = [at |-> "off", id |-> 0]]
  /\ Goto(c, "lost")
  /\ UNCHANGED <<mgrVars, envVars, hpc, rep, canc, link, streamVars, wireVars>>

(* readLoop returned, so serve does; the end of runOnce.                   *)
Cleanup(c) ==
  /\ pc[c] \in {"serve", "drain"} /\ rl[c].at = "ret"
  /\ pub' = [pub EXCEPT ![c] = 0]
  /\ CloseStreamsLocked(c)
  /\ rl' = [rl EXCEPT ![c] = [at |-> "off", id |-> 0]]
  /\ Goto(c, "lost")
  /\ UNCHANGED <<mgrVars, envVars, hpc, rep, canc, link, pump, wireVars>>

(* Mutant of Lost: Run gives up after the first failed connection.         *)
MutLost(c) ==
  /\ pc[c] = "lost"
  /\ Goto(c, "finish")
  /\ UNCHANGED <<mgrVars, envVars, hpc, rep, canc, link, pub, rl, streamVars, wireVars>>

(* Run after runOnce: return when cancelled, else report and back off.     *)
Lost(c) ==
  /\ pc[c] = "lost"
  /\ Goto(c, IF canc[c] THEN "finish" ELSE "offline")
  /\ UNCHANGED <<mgrVars, envVars, hpc, rep, canc, link, pub, rl, streamVars, wireVars>>

Offline(c) ==
  /\ pc[c] = "offline"
  /\ SetState("offline")
  /\ Goto(c, "backoff")
  /\ UNCHANGED <<enabled, running, cur, base, envVars, hpc, rep, canc, link, pub, rl,
                 streamVars, wireVars>>

Backoff(c) ==
  /\ pc[c] = "backoff"
  /\ \/ Goto(c, "loop")
     \/ canc[c] /\ Goto(c, "finish")
  /\ UNCHANGED <<mgrVars, envVars, hpc, rep, canc, link, pub, rl, streamVars, wireVars>>

(* The goroutine that closes a connection once its context is done.        *)
Watch(k) ==
  /\ by[k] # 0 /\ canc[by[k]] /\ wire[k] # "closed"
  /\ wire' = [wire EXCEPT ![k] = "closed"]
  /\ UNCHANGED <<mgrVars, envVars, hpc, rep, pc, canc, link, pub, rl, streamVars, by, sent, opened>>
-----------------------------------------------------------------------------
(***************************************************************************)
(* readLoop.                                                               *)
(***************************************************************************)
Reading(c) == rl[c].at = "read"
ReadAt(c, l, i) == rl' = [rl EXCEPT ![c] = [at |-> l, id |-> i]]

(* A read fails on a closed connection, or a frame is one the client does  *)
(* not know.                                                               *)
ReadFails(c) ==
  /\ Reading(c)
  /\ \/ wire[link[c]] = "closed" /\ UNCHANGED faults
     \/ wire[link[c]] = "open" /\ MayFault
  /\ ReadAt(c, "ret", 0)
  /\ UNCHANGED <<mgrVars, down, ops, hpc, rep, pc, canc, link, pub, streamVars, wireVars>>

(* An open frame: openStream starts to dial the local port.                *)
HandleOpen(c, i) ==
  /\ Reading(c) /\ wire[link[c]] = "open" /\ i \notin opened[link[c]]
  /\ opened' = [opened EXCEPT ![link[c]] = @ \cup {i}]
  /\ ReadAt(c, "dial", i)
  /\ UNCHANGED <<mgrVars, envVars, hpc, rep, pc, canc, link, pub, streamVars, by, wire, sent>>

(* Mutant of OpenStream: pumpLocal is started before the accept frame.     *)
MutOpenStream(c) ==
  LET k == link[c]
      i == rl[c].id
  IN /\ rl[c].at = "dial"
     /\ smap' = [smap EXCEPT ![c][i] = k]
     /\ tcp' = [tcp EXCEPT ![k][i] = "open"]
     /\ pump' = [pump EXCEPT ![k][i] = "read"]
     /\ ReadAt(c, "accept", i)
     /\ UNCHANGED <<sent, faults>>

(* openStream: the tstream is registered, or the dial failed, a close      *)
(* frame is written and readLoop returns.                                  *)
OpenStream(c) ==
  LET k == link[c]
      i == rl[c].id
  IN /\ rl[c].at = "dial"
     /\ \/ /\ smap' = [smap EXCEPT ![c][i] = k]
           /\ tcp' = [tcp EXCEPT ![k][i] = "open"]
           /\ ReadAt(c, "accept", i)
           /\ UNCHANGED <<sent, faults>>
        \/ /\ MayFault
           /\ Write(k, <<"close", i>>)
           /\ ReadAt(c, "ret", 0)
           /\ UNCHANGED <<smap, tcp>>
     /\ UNCHANGED pump

(* openStream: the accept frame, then pumpLocal; or closeStream and        *)
(* readLoop returns.                                                       *)
Accept(c) ==
  LET k == link[c]
      i == rl[c].id
  IN /\ rl[c].at = "accept"
     /\ \/ /\ WriteOK(k)
           /\ Write(k, <<"accept", i>>)
           /\ pump' = [pump EXCEPT ![k][i] = "read"]
           /\ ReadAt(c, "read", 0)
           /\ UNCHANGED <<smap, tcp>>
        \/ /\ WriteFails(c, k)
           /\ CloseStream(c, i)
           /\ ReadAt(c, "ret", 0)
           /\ UNCHANGED <<sent, pump>>
     /\ UNCHANGED faults

(* A data frame for a stream the map does not hold is answered with a      *)
(* close frame; a failed local write closes the stream.                    *)
HandleData(c, i) ==
  /\ Reading(c) /\ wire[link[c]] = "open" /\ i \in opened[link[c]]
  /\ \/ /\ smap[c][i] = 0
        /\ Write(link[c], <<"close", i>>)
        /\ UNCHANGED <<smap, tcp>>
     \/ /\ smap[c][i] # 0 /\ tcp[smap[c][i]][i] # "open"
        /\ CloseStream(c, i)
        /\ UNCHANGED sent
  /\ UNCHANGED <<pump, rl, faults>>

(* A close frame.                                                          *)
HandleClose(c, i) ==
  /\ Reading(c) /\ wire[link[c]] = "open" /\ i \in opened[link[c]]
  /\ CloseStream(c, i)
  /\ UNCHANGED <<sent, pump, rl, faults>>

ReadStep(c) ==
  /\ \/ OpenStream(c)
     \/ Accept(c)
     \/ \E i \in Ids : HandleData(c, i) \/ HandleClose(c, i)
  /\ UNCHANGED <<mgrVars, down, ops, hpc, rep, pc, canc, link, pub, by, wire, opened>>
-----------------------------------------------------------------------------
(***************************************************************************)
(* pumpLocal of the stream i of connection k.                              *)
(***************************************************************************)
(* The local read fails: the close frame, then closeStream.                *)
PumpEnds(k, i) ==
  \/ /\ pump[k][i] = "read" /\ tcp[k][i] # "open"
     /\ Write(k, <<"close", i>>)
     /\ pump' = [pump EXCEPT ![k][i] = "told"]
     /\ UNCHANGED <<smap, tcp>>
  \/ /\ pump[k][i] = "told"
     /\ CloseStream(by[k], i)
     /\ pump' = [pump EXCEPT ![k][i] = "done"]
     /\ UNCHANGED sent

(* Local bytes arrive and cannot be written to the relay: the stream is    *)
(* closed without a close frame.                                           *)
PumpWriteFails(k, i) ==
  /\ pump[k][i] = "read" /\ tcp[k][i] = "open" /\ WriteFails(by[k], k)
  /\ CloseStream(by[k], i)
  /\ pump' = [pump EXCEPT ![k][i] = "done"]
  /\ UNCHANGED sent

PumpFrame == UNCHANGED <<mgrVars, envVars, hpc, rep, pc, canc, link, pub, rl, by, wire, opened>>

(* External: the local HTTP server closes its end.                         *)
LocalClose(k, i) ==
  /\ tcp[k][i] = "open"
  /\ tcp' = [tcp EXCEPT ![k][i] = "eof"]
  /\ UNCHANGED <<mgrVars, envVars, hpc, rep, pc, canc, link, pub, rl, smap, pump, wireVars>>

(* External: the connection breaks, noticed at once or not.                *)
Break(k) ==
  /\ wire[k] = "open" /\ MayFault
  /\ wire' \in {[wire EXCEPT ![k] = s] : s \in {"dead", "closed"}}
  /\ UNCHANGED <<mgrVars, down, ops, hpc, rep, pc, canc, link, pub, rl, streamVars,
                 by, sent, opened>>
-----------------------------------------------------------------------------
RunStep(c) ==
  \/ RunOnce(c) \/ HandshakeStep(c) \/ Online(c) \/ Serve(c)
  \/ Cleanup(c) \/ Lost(c) \/ Offline(c) \/ Backoff(c) \/ RunReturned(c)

ClientNext ==
  \/ \E h \in Handlers : SetEnabled(h) \/ Start(h) \/ Stop(h)
  \/ Shutdown
  \/ ReportStep
  \/ \E c \in Clients :
       \/ RunStep(c)
       \/ ReadFails(c)
       \/ \E i \in Ids : HandleOpen(c, i)
       \/ ReadStep(c)
  \/ \E k \in Conns : Watch(k) \/ Break(k)
  \/ \E k \in Conns, i \in Ids :
       \/ (PumpEnds(k, i) \/ PumpWriteFails(k, i)) /\ PumpFrame
       \/ LocalClose(k, i)

ClientSpec == ClientInit /\ [][ClientNext]_vars

(* Goroutines keep running; contexts, pings and write deadlines end every  *)
(* wait on the network; nothing obliges the relay, the user, the local     *)
(* server (PumpWriteFails needs bytes from it) or the network to act.      *)
ClientFairSpec ==
  /\ ClientSpec
  /\ \A h \in Handlers : WF_vars(Start(h))
  /\ \A c \in Clients :
       /\ WF_vars(RunStep(c))
       /\ WF_vars(ReadFails(c) /\ UNCHANGED faults)
       /\ WF_vars(ReadStep(c) /\ rl[c].at \in {"dial", "accept"} /\ UNCHANGED faults)
  /\ \A k \in Conns : WF_vars(Watch(k)) /\ \A i \in Ids : WF_vars(PumpEnds(k, i) /\ PumpFrame)
-----------------------------------------------------------------------------
(***************************************************************************)
(* Properties.                                                             *)
(***************************************************************************)
(* However SetEnabled, Start and Stop of concurrent handlers interleave    *)
(* (manager.go, SetEnabled decides on a value read before Start locks),    *)
(* the only client whose context is live is the one the manager holds: no  *)
(* second connection runs behind the user's back.                          *)
OneLiveClient ==
  \A c \in Clients : pc[c] \notin {"new", "done"} /\ ~canc[c] => cur = c /\ running

(* Everything but the handshake is written after reg: a pairing code       *)
(* reported by another goroutine, an accept or a close never reaches the   *)
(* relay on a connection it would refuse them on (client.go, c.conn is     *)
(* published after reg).                                                   *)
HandshakeFirst ==
  \A k \in Conns :
    /\ sent[k] \ {<<"hello">>} # {} => <<"hello">> \in sent[k]
    /\ sent[k] \ {<<"hello">>, <<"reg">>} # {} => <<"reg">> \in sent[k]

(* Every local TCP connection that is open is the one its client's map     *)
(* holds under its id, so some closeStream can still reach it, even when   *)
(* ids come back on a new connection and the pump of an old stream closes  *)
(* by id.  Checked with the types of the state.                            *)
OpenTcpIsReachable ==
  /\ ClientTypeOK
  /\ \A k \in Conns, i \in Ids : tcp[k][i] \in {"open", "eof"} => smap[by[k]][i] = k

(* A stream's accept frame never follows a close frame of the same stream  *)
(* on the same connection: the pump starts only after the accept is        *)
(* written.                                                                *)
NoAcceptAfterClose ==
  [][\A k \in Conns, i \in Ids :
       <<"close", i>> \in sent[k] /\ <<"accept", i>> \notin sent[k]
         => <<"accept", i>> \notin sent'[k]]_vars

ClientQuiet(c) ==
  /\ pc[c] = "done"
  /\ \A k \in Conns : by[k] = c =>
       /\ wire[k] = "closed"
       /\ \A i \in Ids : tcp[k][i] \notin {"open", "eof"} /\ pump[k][i] \in {"off", "done"}

(* Once a client is cancelled (Stop, or the daemon shuts down), it winds   *)
(* down completely: Run returns, every connection it ever dialled and      *)
(* every local TCP connection is closed, and every pump has returned.      *)
CancelledWindsDown ==
  \A c \in Clients : (pc[c] # "new" /\ canc[c]) ~> ClientQuiet(c)

ServingOpen == cur # 0 /\ pc[cur] = "serve" /\ wire[link[cur]] = "open"

(* Run reconnects: once toggles and failures have stopped and the cloud is *)
(* enabled, the manager's client ends up serving on an open connection and *)
(* stays there.                                                            *)
Reconnects == <>[](enabled /\ ~down => ServingOpen)

Settled ==
  /\ \A h \in Handlers : hpc[h] = "idle"
  /\ \A c \in Clients : pc[c] \in {"new", "serve", "done"}

(* manager.go:143, "Online reports whether the relay connection is live":  *)
(* when no goroutine is about to change anything and the manager's client  *)
(* serves on an open connection, m.state is online.                        *)
OnlineReportsLive == Settled /\ ServingOpen => mstate = "online"
=============================================================================
