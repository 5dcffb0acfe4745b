------------------------------ MODULE RelayHub ------------------------------
(***************************************************************************)
(* The cloud relay: server/relay/hub.go with the Session of session.go.    *)
(*                                                                         *)
(* Every accepted connection has a read goroutine that handles one frame   *)
(* at a time (pc, arg), and at most one goroutine that ran its Close (st,  *)
(* closeOwes).  A handler is split at the points where it holds no lock:   *)
(* each action is one critical section of Hub.mu, one write to another     *)
(* session, or one atomic step of Session.Close.                           *)
(*                                                                         *)
(* Wire contents are abstracted to what the ends believe: live[s] is the   *)
(* set of streams that s has been told are open and not been told are      *)
(* closed (frames to one session are written in order, so this is what s   *)
(* believes once it has read everything written so far).                   *)
(***************************************************************************)
EXTENDS Integers, FiniteSets

CONSTANTS
  Clients,              \* sessions whose hello said role "client"
  DaemonSess,           \* sessions whose hello said role "daemon"
  DevIDs,               \* device identities of daemons
  DevOf,                \* the devId a daemon session registers with
  Codes,                \* pairing codes
  Malformed,            \* sessions that may also send frames the protocol forbids
  Breakable,            \* sessions whose network may die unnoticed for a while
  MaxStreamsPerClient,  \* hub.go: 16
  MaxStreamsPerDaemon,  \* hub.go: 64
  MaxID,                \* bound: streams opened in a behaviour (nextID never wraps)
  None

Sessions == Clients \cup DaemonSess
Ids == 1 .. MaxID
CodeEntry == [dev : DevIDs, by : DaemonSess, fresh : BOOLEAN]
Pipe == [client : Clients, daemon : DaemonSess]

ASSUME SessionsAssumption ==
  /\ Clients \cap DaemonSess = {}
  /\ None \notin Sessions \cup DevIDs \cup Codes
  /\ None \notin Pipe /\ None \notin CodeEntry
  /\ DevOf \in [DaemonSess -> DevIDs]
  /\ Malformed \subseteq Sessions
  /\ Breakable \subseteq Sessions

ASSUME BoundsAssumption ==
  /\ MaxStreamsPerClient \in Nat
  /\ MaxStreamsPerDaemon \in Nat
  /\ MaxID \in Nat
  /\ None \notin Ids

VARIABLES
  st,         \* session: "new", "open", "broken", "closing", "closed"
  devID,      \* Session.devID, set by reg
  failed,     \* code of the error frame the session was sent, or "none"
  daemons,    \* Hub.daemons: devId -> session or None
  codes,      \* Hub.codes: code -> [dev, by, fresh] or None
  claimed,    \* Hub.claimed: session -> devId or None
  streams,    \* keys of Hub.streams
  pipe,       \* every pipe ever made (handlers keep pointers to dropped ones)
  bySess,     \* Hub.bySess: session -> its stream ids
  nextID,     \* Hub.nextID
  pc,         \* read goroutine: "idle", the frame it read, or a point inside a handler
  arg,        \* the frame's argument, then the stream the handler works on
  waitFor,    \* handleReg: the session whose Close it is running, or None
  owes,       \* close frames the read goroutine has still to write: <<session, id>>
  closeOwes,  \* close frames the goroutine running Close has still to write
  told,       \* streams whose open frame was ever written to the session
  live,       \* streams the session believes are open
  late        \* streams whose open frame was written after the pipe was dropped

regVars == <<devID, daemons, codes, claimed>>
strVars == <<streams, pipe, bySess, nextID>>
endVars == <<told, live, late>>
vars == <<st, failed, regVars, strVars, pc, arg, waitFor, owes, closeOwes, endVars>>

FrameLabels == {"reg", "code", "claim", "open", "accept", "close", "data", "bad"}
Inside == {"regWait", "openDaemon", "openClient", "dataWrite", "drop", "closeDrop", "notify"}
ErrCodes == {"rate_limited", "invalid_code", "daemon_offline", "protocol", "too_many_streams"}

TypeOK ==
  /\ st \in [Sessions -> {"new", "open", "broken", "closing", "closed"}]
  /\ devID \in [DaemonSess -> DevIDs \cup {None}]
  /\ failed \in [Sessions -> ErrCodes \cup {"none"}]
  /\ daemons \in [DevIDs -> DaemonSess \cup {None}]
  /\ codes \in [Codes -> CodeEntry \cup {None}]
  /\ claimed \in [Clients -> DevIDs \cup {None}]
  /\ streams \subseteq Ids
  /\ pipe \in [Ids -> Pipe \cup {None}]
  /\ bySess \in [Sessions -> SUBSET Ids]
  /\ nextID \in 0 .. MaxID
  /\ pc \in [Sessions -> {"idle"} \cup FrameLabels \cup Inside]
  /\ arg \in [Sessions -> Ids \cup Codes \cup DevIDs \cup {None}]
  /\ waitFor \in [DaemonSess -> DaemonSess \cup {None}]
  /\ owes \in [Sessions -> SUBSET (Sessions \X Ids)]
  /\ closeOwes \in [Sessions -> SUBSET (Sessions \X Ids)]
  /\ told \in [Sessions -> SUBSET Ids]
  /\ live \in [Sessions -> SUBSET Ids]
  /\ late \subseteq Ids

(***************************************************************************)
(* Helpers                                                                 *)
(***************************************************************************)
Alive(s) == st[s] \in {"open", "broken"}

\* A write succeeds on an open connection.  On a broken one it may still be
\* buffered, and on one whose Close has begun it may precede the conn.Close.
CanWrite(s) == st[s] \in {"open", "broken", "closing"}
CanFail(s) == st[s] # "open"

Ends(id) == {pipe[id].client, pipe[id].daemon}
\* Mutant: the peer is always taken to be the daemon end
PeerIsDaemon(s, id) == pipe[id].daemon

PeerOf(s, id) == IF s = pipe[id].daemon THEN pipe[id].client ELSE pipe[id].daemon
MaxStreams(s) == IF s \in Clients THEN MaxStreamsPerClient ELSE MaxStreamsPerDaemon

\* Session.Close wins the CompareAndSwap only once
CloseCAS(s) == IF Alive(s) THEN [st EXCEPT ![s] = "closing"] ELSE st

\* The read goroutine of s moves to a point inside a handler, or is done with it
Goto(s, label) == pc' = [pc EXCEPT ![s] = label] /\ UNCHANGED arg
Return(s) == pc' = [pc EXCEPT ![s] = "idle"] /\ arg' = [arg EXCEPT ![s] = None]

\* Hub.fail: error frame, then Close; the handler returns
Fail(s, why) ==
  /\ failed' = IF st[s] = "open" THEN [failed EXCEPT ![s] = why] ELSE failed
  /\ st' = CloseCAS(s)
  /\ Return(s)
  /\ UNCHANGED <<strVars, waitFor, owes, closeOwes, endVars>>

(***************************************************************************)
(* Connections.                                                            *)
(***************************************************************************)

\* endpoint.go: upgrade, hello handshake, Attach
Connect(s) ==
  /\ st[s] = "new"
  /\ st' = [st EXCEPT ![s] = "open"]
  /\ UNCHANGED <<failed, regVars, strVars, pc, arg, waitFor, owes, closeOwes, endVars>>

\* The network under the session dies; nobody has noticed yet.
Break(s) ==
  /\ s \in Breakable
  /\ st[s] = "open"
  /\ st' = [st EXCEPT ![s] = "broken"]
  /\ UNCHANGED <<failed, regVars, strVars, pc, arg, waitFor, owes, closeOwes, endVars>>

\* Session.Close by Run (read error, ping timeout) or Hub.Close; the
\* callbacks run after conn.Close returned (OnSessionClose).
CloseSession(s) ==
  /\ Alive(s)
  /\ st' = CloseCAS(s)
  /\ UNCHANGED <<failed, regVars, strVars, pc, arg, waitFor, owes, closeOwes, endVars>>

\* Frames that the daemon's relay client and the app's relay transport send,
\* and, from a malformed session, the ones the handlers refuse.
Frame(t, a) == [t |-> t, a |-> a]

\* The streams s sends frames about
Nameable(s) == IF s \in Malformed THEN 1 .. nextID ELSE told[s]

ClientFrames(s) ==
  {Frame("claim", c) : c \in Codes}
    \cup (IF nextID + Cardinality({c \in Clients : pc[c] = "open"}) < MaxID
            THEN {Frame("open", d) : d \in
                    DevIDs \cup (IF claimed[s] # None \/ s \in Malformed THEN {None} ELSE {})}
            ELSE {})

DaemonFrames(s) ==
  (IF devID[s] = None THEN {Frame("reg", DevOf[s])} ELSE {})
    \cup (IF devID[s] # None \/ s \in Malformed THEN {Frame("code", c) : c \in Codes} ELSE {})
    \cup {Frame("accept", id) : id \in Nameable(s)}

Frames(s) ==
  (IF s \in Clients THEN ClientFrames(s) ELSE DaemonFrames(s))
    \cup {Frame(t, id) : t \in {"data", "close"}, id \in Nameable(s)}
    \cup (IF s \in Malformed THEN {Frame("bad", None)} ELSE {})

\* Session.readLoop takes the next frame.  The handler may start after
\* another goroutine has closed the session.
ReadFrame(s) ==
  /\ Alive(s)
  /\ pc[s] = "idle"
  /\ \E f \in Frames(s) :
       /\ pc' = [pc EXCEPT ![s] = f.t]
       /\ arg' = [arg EXCEPT ![s] = f.a]
       /\ live' = IF f.t = "close" THEN [live EXCEPT ![s] = @ \ {f.a}] ELSE live
  /\ UNCHANGED <<st, failed, regVars, strVars, waitFor, owes, closeOwes, told, late>>

\* Unexpected frame type, wrong role, or a token of the wrong shape
HandleBad(s) ==
  /\ pc[s] = "bad"
  /\ Fail(s, "protocol")
  /\ UNCHANGED regVars

(***************************************************************************)
(* handleReg, in two critical sections around old.Close().                 *)
(***************************************************************************)
Register(s) ==
  /\ devID' = [devID EXCEPT ![s] = arg[s]]
  /\ daemons' = [daemons EXCEPT ![arg[s]] = s]
  /\ Return(s)
  /\ UNCHANGED <<failed, codes, claimed, strVars, owes, closeOwes, endVars>>

HandleReg(s) ==
  /\ pc[s] = "reg"
  /\ \/ /\ daemons[arg[s]] \in {None, s}
        /\ Register(s)
        /\ UNCHANGED <<st, waitFor>>
     \/ LET old == daemons[arg[s]] IN
        /\ old \notin {None, s}
        /\ Goto(s, "regWait")
        /\ waitFor' = [waitFor EXCEPT ![s] = IF Alive(old) THEN old ELSE None]
        /\ st' = CloseCAS(old)
        /\ UNCHANGED <<failed, regVars, strVars, owes, closeOwes, endVars>>

\* Mutant: waits for a callback even when another goroutine runs that Close
FinishRegAlwaysWaits(s) ==
  /\ pc[s] = "regWait"
  /\ waitFor[s] # None /\ st[waitFor[s]] = "closed" /\ closeOwes[waitFor[s]] = {}
  /\ Register(s)
  /\ waitFor' = [waitFor EXCEPT ![s] = None]
  /\ UNCHANGED st

\* old.Close() returned: at once when another goroutine was already closing
\* old, otherwise after old's on-close callback is through.
FinishReg(s) ==
  /\ pc[s] = "regWait"
  /\ waitFor[s] # None => st[waitFor[s]] = "closed" /\ closeOwes[waitFor[s]] = {}
  /\ Register(s)
  /\ waitFor' = [waitFor EXCEPT ![s] = None]
  /\ UNCHANGED st

(***************************************************************************)
(* Pairing codes.  Whether the per-address limiter allows a claim is left  *)
(* open here; module ClaimLimiter models it.                               *)
(***************************************************************************)

\* Mutant: the expiry check is missing
FreshWithoutExpiry(c) == codes[c] # None

Fresh(c) == codes[c] # None /\ codes[c].fresh

\* A code's TTL has elapsed; the entry stays until somebody looks at it.
ExpireCode(c) ==
  /\ Fresh(c)
  /\ codes' = [codes EXCEPT ![c].fresh = FALSE]
  /\ UNCHANGED <<st, failed, devID, daemons, claimed, strVars, pc, arg, waitFor, owes, closeOwes, endVars>>

HandleCode(s) ==
  /\ pc[s] = "code"
  /\ \/ /\ devID[s] = None
        /\ Fail(s, "protocol")
        /\ UNCHANGED regVars
     \/ /\ devID[s] # None
        /\ codes' = [c \in Codes |->
             IF c = arg[s] THEN [dev |-> devID[s], by |-> s, fresh |-> TRUE]
             ELSE IF Fresh(c) THEN codes[c] ELSE None]
        /\ Return(s)
        /\ UNCHANGED <<st, failed, devID, daemons, claimed, strVars, waitFor, owes, closeOwes, endVars>>

HandleClaim(s) ==
  /\ pc[s] = "claim"
  /\ \/ /\ Fail(s, "rate_limited")
        /\ UNCHANGED regVars
     \/ /\ ~Fresh(arg[s])
        /\ codes' = [codes EXCEPT ![arg[s]] = None]
        /\ Fail(s, "invalid_code")
        /\ UNCHANGED <<devID, daemons, claimed>>
     \/ /\ Fresh(arg[s])
        /\ codes' = [codes EXCEPT ![arg[s]] = None]
        /\ claimed' = [claimed EXCEPT ![s] = codes[arg[s]].dev]
        /\ Return(s)
        /\ UNCHANGED <<st, failed, devID, daemons, strVars, waitFor, owes, closeOwes, endVars>>

(***************************************************************************)
(* handleOpen: allocate under the lock, then tell the daemon, then ack the *)
(* client; a failed write drops the stream.                                *)
(***************************************************************************)
Target(s) == IF arg[s] = None THEN claimed[s] ELSE arg[s]

\* Mutant: off by one at the cap
AtCapOffByOne(s) == Cardinality(bySess[s]) > MaxStreams(s)

AtCap(s) == Cardinality(bySess[s]) >= MaxStreams(s)

\* Mutant: no daemon_offline answer
OpenRefusalNoOffline(s) ==
  IF Target(s) = None THEN "protocol"
  ELSE IF AtCap(s) THEN "too_many_streams"
  ELSE "none"

\* The early returns of handleOpen, in their order
OpenRefusal(s) ==
  IF Target(s) = None THEN "protocol"
  ELSE IF AtCap(s) THEN "too_many_streams"
  ELSE IF daemons[Target(s)] = None THEN "daemon_offline"
  ELSE IF AtCap(daemons[Target(s)]) THEN "too_many_streams"
  ELSE "none"

\* Mutant: only the client's list gets the stream
AddStreamToClientOnly(s, daemon) ==
  LET id == nextID + 1 IN
  /\ nextID' = id
  /\ pipe' = [pipe EXCEPT ![id] = [client |-> s, daemon |-> daemon]]
  /\ streams' = streams \cup {id}
  /\ bySess' = [bySess EXCEPT ![s] = @ \cup {id}]

\* Hub.streams and Hub.bySess of both ends get the new stream
AddStream(s, daemon) ==
  LET id == nextID + 1 IN
  /\ nextID' = id
  /\ pipe' = [pipe EXCEPT ![id] = [client |-> s, daemon |-> daemon]]
  /\ streams' = streams \cup {id}
  /\ bySess' = [bySess EXCEPT ![s] = @ \cup {id}, ![daemon] = @ \cup {id}]

HandleOpen(s) ==
  /\ pc[s] = "open"
  /\ \/ /\ OpenRefusal(s) # "none"
        /\ Fail(s, OpenRefusal(s))
        /\ UNCHANGED regVars
     \/ /\ OpenRefusal(s) = "none"
        /\ nextID < MaxID
        /\ AddStream(s, daemons[Target(s)])
        /\ pc' = [pc EXCEPT ![s] = "openDaemon"]
        /\ arg' = [arg EXCEPT ![s] = nextID + 1]
        /\ UNCHANGED <<st, failed, regVars, waitFor, owes, closeOwes, endVars>>

\* An open frame for the stream reaches session t
WriteOpen(t, id) ==
  /\ told' = [told EXCEPT ![t] = @ \cup {id}]
  /\ live' = [live EXCEPT ![t] = @ \cup {id}]
  /\ late' = IF id \in streams THEN late ELSE late \cup {id}

\* Mutant: a failed write returns without dropStream
WriteFailsNoDrop(s, t) == CanFail(t) /\ Return(s) /\ UNCHANGED endVars

\* The write fails: dropStream is next
WriteFails(s, t) == CanFail(t) /\ Goto(s, "drop") /\ UNCHANGED endVars

OpenToDaemon(s) ==
  LET t == pipe[arg[s]].daemon IN
  /\ pc[s] = "openDaemon"
  /\ \/ CanWrite(t) /\ WriteOpen(t, arg[s]) /\ Goto(s, "openClient")
     \/ WriteFails(s, t)
  /\ UNCHANGED <<st, failed, regVars, strVars, waitFor, owes, closeOwes>>

OpenToClient(s) ==
  /\ pc[s] = "openClient"
  /\ \/ CanWrite(s) /\ WriteOpen(s, arg[s]) /\ Return(s)
     \/ WriteFails(s, s)
  /\ UNCHANGED <<st, failed, regVars, strVars, waitFor, owes, closeOwes>>

\* dropStream under the lock: the close frames owed afterwards.  afterClose:
\* handleClose also writes one to the peer, whether or not the drop found
\* the pipe.
DropStream(s, afterClose) ==
  LET id == arg[s]
      found == id \in streams
      notify == (IF found THEN Ends(id) ELSE {}) \cup (IF afterClose THEN {PeerOf(s, id)} ELSE {})
  IN
  /\ streams' = streams \ {id}
  /\ bySess' = [t \in Sessions |-> IF found /\ t \in Ends(id) THEN bySess[t] \ {id} ELSE bySess[t]]
  /\ owes' = [owes EXCEPT ![s] = {<<t, id>> : t \in notify}]
  /\ Goto(s, "notify")
  /\ UNCHANGED <<st, failed, regVars, pipe, nextID, waitFor, closeOwes, endVars>>

Drop(s) ==
  /\ pc[s] = "drop"
  /\ DropStream(s, FALSE)

\* A close frame is written (or lost, when the session is going down); a
\* write to an open connection succeeds.
WriteClose(n) ==
  live' = IF st[n[1]] \in {"closing", "closed"} THEN live
          ELSE [live EXCEPT ![n[1]] = @ \ {n[2]}]

Notify(s) ==
  /\ pc[s] = "notify"
  /\ \/ \E n \in owes[s] :
          /\ WriteClose(n)
          /\ owes' = [owes EXCEPT ![s] = @ \ {n}]
          /\ UNCHANGED <<pc, arg>>
     \/ /\ owes[s] = {}
        /\ Return(s)
        /\ UNCHANGED <<live, owes>>
  /\ UNCHANGED <<st, failed, regVars, strVars, waitFor, closeOwes, told, late>>

(***************************************************************************)
(* handleAccept, handleClose, onData: look the pipe up under the lock, act *)
(* on the pointer after the unlock.                                        *)
(***************************************************************************)

\* A relayed accept leaves the hub's state alone; its write error is ignored.
HandleAccept(s) ==
  /\ pc[s] = "accept"
  /\ \/ /\ arg[s] \notin streams \/ pipe[arg[s]].daemon # s
        /\ Fail(s, "protocol")
        /\ UNCHANGED regVars
     \/ /\ arg[s] \in streams /\ pipe[arg[s]].daemon = s
        /\ Return(s)
        /\ UNCHANGED <<st, failed, regVars, strVars, waitFor, owes, closeOwes, endVars>>

HandleClose(s) ==
  /\ pc[s] = "close"
  /\ \/ /\ arg[s] \in streams /\ s \notin Ends(arg[s])
        /\ Fail(s, "protocol")
        /\ UNCHANGED regVars
     \/ /\ \/ arg[s] \notin streams /\ Return(s)
           \/ arg[s] \in streams /\ s \in Ends(arg[s]) /\ Goto(s, "closeDrop")
        /\ UNCHANGED <<st, failed, regVars, strVars, waitFor, owes, closeOwes, endVars>>

CloseDrop(s) ==
  /\ pc[s] = "closeDrop"
  /\ DropStream(s, TRUE)

\* A frame for a stream that is gone is answered with a close.
HandleData(s) ==
  /\ pc[s] = "data"
  /\ IF arg[s] \in streams
       THEN Goto(s, "dataWrite") /\ UNCHANGED owes
       ELSE Goto(s, "notify") /\ owes' = [owes EXCEPT ![s] = {<<s, arg[s]>>}]
  /\ UNCHANGED <<st, failed, regVars, strVars, waitFor, closeOwes, endVars>>

DataWrite(s) ==
  /\ pc[s] = "dataWrite"
  /\ \/ CanWrite(PeerOf(s, arg[s])) /\ Return(s) /\ UNCHANGED endVars
     \/ WriteFails(s, PeerOf(s, arg[s]))
  /\ UNCHANGED <<st, failed, regVars, strVars, waitFor, owes, closeOwes>>

(***************************************************************************)
(* onSessionClose: one critical section, then a close frame to every peer. *)
(***************************************************************************)
OnSessionClose(s) ==
  LET dev == IF s \in DaemonSess THEN devID[s] ELSE None
      dead == bySess[s] \cap streams
  IN
  /\ st[s] = "closing"
  /\ st' = [st EXCEPT ![s] = "closed"]
  /\ claimed' = IF s \in Clients THEN [claimed EXCEPT ![s] = None] ELSE claimed
  /\ daemons' = [d \in DevIDs |-> IF d = dev /\ daemons[d] = s THEN None ELSE daemons[d]]
  /\ codes' = [c \in Codes |-> IF codes[c] # None /\ codes[c].dev = dev THEN None ELSE codes[c]]
  /\ streams' = streams \ dead
  /\ bySess' = [bySess EXCEPT ![s] = {}]
  /\ closeOwes' = [closeOwes EXCEPT ![s] = {<<PeerOf(s, id), id>> : id \in dead}]
  /\ UNCHANGED <<failed, devID, pipe, nextID, pc, arg, waitFor, owes, endVars>>

NotifyPeer(s) ==
  /\ \E n \in closeOwes[s] :
       /\ WriteClose(n)
       /\ closeOwes' = [closeOwes EXCEPT ![s] = @ \ {n}]
  /\ UNCHANGED <<st, failed, regVars, strVars, pc, arg, waitFor, owes, told, late>>

(***************************************************************************)
(* Specification                                                           *)
(***************************************************************************)
Init ==
  /\ st = [s \in Sessions |-> "new"]
  /\ devID = [s \in DaemonSess |-> None]
  /\ failed = [s \in Sessions |-> "none"]
  /\ daemons = [d \in DevIDs |-> None]
  /\ codes = [c \in Codes |-> None]
  /\ claimed = [s \in Clients |-> None]
  /\ streams = {}
  /\ pipe = [id \in Ids |-> None]
  /\ bySess = [s \in Sessions |-> {}]
  /\ nextID = 0
  /\ pc = [s \in Sessions |-> "idle"]
  /\ arg = [s \in Sessions |-> None]
  /\ waitFor = [s \in DaemonSess |-> None]
  /\ owes = [s \in Sessions |-> {}]
  /\ closeOwes = [s \in Sessions |-> {}]
  /\ told = [s \in Sessions |-> {}]
  /\ live = [s \in Sessions |-> {}]
  /\ late = {}

\* What the read goroutine of s does once it has a frame
HandlerStep(s) ==
  \/ HandleBad(s)
  \/ s \in DaemonSess /\ (HandleReg(s) \/ FinishReg(s) \/ HandleCode(s) \/ HandleAccept(s))
  \/ s \in Clients /\ (HandleClaim(s) \/ HandleOpen(s) \/ OpenToDaemon(s) \/ OpenToClient(s))
  \/ HandleClose(s) \/ CloseDrop(s) \/ HandleData(s) \/ DataWrite(s) \/ Drop(s) \/ Notify(s)

\* What the goroutine that won Close of s does after conn.Close
CloserStep(s) == OnSessionClose(s) \/ NotifyPeer(s)

EnvStep(s) == Connect(s) \/ Break(s) \/ CloseSession(s) \/ ReadFrame(s)

Next ==
  \/ \E s \in Sessions : EnvStep(s) \/ HandlerStep(s) \/ CloserStep(s)
  \/ \E c \in Codes : ExpireCode(c)

Spec == Init /\ [][Next]_vars

\* Goroutines keep running and a broken connection is noticed (a read error
\* or the 30 s ping); nothing is assumed of what the ends send.
Fairness ==
  \A s \in Sessions :
    /\ WF_vars(HandlerStep(s))
    /\ WF_vars(CloserStep(s))
    /\ WF_vars(st[s] = "broken" /\ CloseSession(s))

FairSpec == Spec /\ Fairness

(***************************************************************************)
(* Properties                                                              *)
(***************************************************************************)

\* A stream in Hub.streams is in the bySess list of both of its ends, so the
\* close of either end (onSessionClose walks only its own list) finds it.
StreamsListed ==
  \A id \in streams : pipe[id] # None /\ \A s \in Ends(id) : id \in bySess[s]

\* No session carries more live streams than its cap, whatever opens, drops
\* and disconnects interleave: "Concurrency caps guard the relay against
\* stream exhaustion" (hub.go:18).
CapsHold ==
  \A s \in Sessions :
    Cardinality({id \in streams : s \in Ends(id)}) <= MaxStreams(s)

\* After the on-close callback of a session ran, a stream that still has the
\* session as an end exists only while the handleOpen that raced the callback
\* is on its way to drop it.
NoStreamOnDeadSession ==
  \A id \in streams : \A s \in Ends(id) :
    st[s] = "closed" =>
      /\ pc[pipe[id].client] \in {"openDaemon", "openClient", "drop"}
      /\ arg[pipe[id].client] = id

Owed(t, id) == \E s \in Sessions : <<t, id>> \in owes[s] \cup closeOwes[s]

\* A connected end that believes in a stream the relay has dropped is owed a
\* close frame by some goroutine, except when the open frame itself was
\* written after the drop (an open overtaken by its own close).
ClosedStreamsAnnounced ==
  \A s \in Sessions : \A id \in live[s] \ (streams \cup late) :
    st[s] = "open" => Owed(s, id)

\* A client gets bound to a device only by using up an unexpired code that a
\* session of this device advertised (handleClaim's one-time consumption).
ClaimBindsOnce ==
  [][\A s \in Clients : claimed'[s] \notin {None, claimed[s]} =>
       \E c \in Codes :
         /\ codes[c] # None /\ codes[c].fresh
         /\ codes[c].dev = claimed'[s]
         /\ DevOf[codes[c].by] = claimed'[s]
         /\ codes'[c] = None]_vars

T == INSTANCE Tunnels WITH
       last <- nextID, open <- streams, ends <- pipe,
       Sides <- Sessions, Pairs <- Pipe, Cap <- MaxStreams, Unused <- None

\* The hub implements Tunnels: ids are never reused and pipes never rewired,
\* handleOpen's counts on the bySess lists are enough to keep the caps on the
\* streams themselves, and onSessionClose, which walks only the list of its own
\* session, takes all streams of that session and no other.
ImplementsTunnels == T!TunnelSpec

\* Every handler returns: in particular the reg that closes a predecessor
\* and waits for its callback, and two regs that close each other.
HandlersFinish == \A s \in Sessions : []<>(pc[s] = "idle")

\* The streams of a session that ended disappear, also those that a racing
\* handleOpen adds after the callback has run ("closed" is for good).
DeadSessionsReleaseStreams ==
  \A s \in Sessions : []<>(st[s] = "closed" => \A id \in streams : s \notin Ends(id))

(***************************************************************************)
(* The inductive invariant behind the safety properties (RelayHubProofs).  *)
(***************************************************************************)
Known == 1 .. nextID

\* What a handler's argument is at each of its points
HandlerArgs ==
  \A s \in Sessions :
    /\ pc[s] \in {"reg", "regWait"} => arg[s] \in DevIDs
    /\ pc[s] \in {"code", "claim"} => arg[s] \in Codes
    /\ pc[s] = "open" => arg[s] \in DevIDs \cup {None}
    /\ pc[s] \in {"accept", "close", "data", "openDaemon", "openClient", "dataWrite",
                  "drop", "closeDrop"} => arg[s] \in Known
    /\ pc[s] \in {"openDaemon", "openClient"} => s \in Clients /\ pipe[arg[s]].client = s

\* Ids at or below nextID have a pipe, and nothing mentions an id above it
IdsKnown ==
  /\ \A id \in Known : pipe[id] # None
  /\ streams \subseteq Known
  /\ \A s \in Sessions : bySess[s] \subseteq Known /\ told[s] \subseteq Known /\ live[s] \subseteq Known

\* Lists and beliefs of a session are about streams it is an end of
OwnStreamsOnly ==
  \A s \in Sessions : \A id \in bySess[s] \cup live[s] : s \in Ends(id)

CapsOnLists == \A s \in Sessions : Cardinality(bySess[s]) <= MaxStreams(s)

\* The open handler knows of a closed daemon before its first write only
OpenersInFlight ==
  \A id \in streams :
    LET c == pipe[id].client IN
    /\ st[c] = "closed" => pc[c] \in {"openDaemon", "openClient", "drop"} /\ arg[c] = id
    /\ st[pipe[id].daemon] = "closed" => pc[c] \in {"openDaemon", "drop"} /\ arg[c] = id

DebtsHaveDebtors ==
  \A s \in Sessions :
    /\ owes[s] # {} => pc[s] = "notify"
    /\ closeOwes[s] # {} => st[s] = "closed"
    /\ st[s] = "new" => live[s] = {}

IInv ==
  /\ TypeOK /\ HandlerArgs /\ IdsKnown /\ OwnStreamsOnly /\ CapsOnLists
  /\ StreamsListed /\ OpenersInFlight /\ DebtsHaveDebtors /\ ClosedStreamsAnnounced

\* Code entries and registrations carry the devId of the session they came from
CodeOwners ==
  /\ \A s \in DaemonSess :
       /\ devID[s] \in {None, DevOf[s]}
       /\ pc[s] \in {"reg", "regWait"} => arg[s] = DevOf[s]
  /\ \A c \in Codes : codes[c] # None => codes[c].dev = DevOf[codes[c].by]

(***************************************************************************)
(* What comments and docs say and the code does not do                     *)
(***************************************************************************)

Quiet == \A s \in Sessions : pc[s] = "idle" /\ st[s] # "closing" /\ closeOwes[s] = {}

\* A close or a disconnect cleans up both directions (server/README.md:36):
\* once everything has settled, the list a connected session's cap is counted
\* on holds live streams only.
ListsHoldLiveStreams ==
  Quiet => \A s \in Sessions : st[s] = "open" => bySess[s] \subseteq streams

=============================================================================
