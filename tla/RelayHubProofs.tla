--------------------------- MODULE RelayHubProofs ---------------------------
(***************************************************************************)
(* Proofs about RelayHub for any number of sessions, devices, codes,       *)
(* streams and any caps.  IInv (RelayHub) is the inductive invariant.      *)
(***************************************************************************)
EXTENDS RelayHub, FiniteSetTheorems, TLAPS

Openers == {"openDaemon", "openClient", "drop"}

USE SessionsAssumption, BoundsAssumption

\* The empty hub of NewHub satisfies the inductive invariant.
LEMMA InitIInv == Init => IInv
<1> SUFFICES ASSUME Init PROVE IInv
  OBVIOUS
<1>1. TypeOK
  BY DEF Init, TypeOK
<1>2. HandlerArgs
  BY DEF Init, HandlerArgs
<1>3. IdsKnown
  BY DEF Init, IdsKnown, Known
<1>4. OwnStreamsOnly /\ StreamsListed /\ OpenersInFlight /\ DebtsHaveDebtors /\ ClosedStreamsAnnounced
  BY DEF Init, OwnStreamsOnly, StreamsListed, OpenersInFlight, DebtsHaveDebtors, ClosedStreamsAnnounced
<1>5. CapsOnLists
  BY FS_EmptySet DEF Init, CapsOnLists, MaxStreams
<1> QED
  BY <1>1, <1>2, <1>3, <1>4, <1>5 DEF IInv

(***************************************************************************)
(* Steps that leave streams, lists and debts alone and disturb no handler  *)
(* that is opening or dropping a stream.                                   *)
(***************************************************************************)
LEMMA FrameStep ==
  ASSUME IInv, TypeOK', HandlerArgs', DebtsHaveDebtors',
         UNCHANGED <<strVars, owes, closeOwes, told, late>>,
         \A x \in Sessions : live'[x] \subseteq live[x],
         \A x \in Sessions : st'[x] = "open" => st[x] \in {"open", "new"},
         \A x \in Sessions : st'[x] = "closed" => st[x] = "closed",
         \A x \in Sessions : pc[x] \in Openers => pc'[x] = pc[x] /\ arg'[x] = arg[x]
  PROVE  IInv'
<1>1. IdsKnown'
  BY DEF IInv, IdsKnown, Known, strVars
<1>2. OwnStreamsOnly'
  BY DEF IInv, OwnStreamsOnly, Ends, strVars
<1>3. CapsOnLists'
  BY DEF IInv, CapsOnLists, MaxStreams, strVars
<1>4. StreamsListed'
  BY DEF IInv, StreamsListed, Ends, strVars
<1>5. OpenersInFlight'
  <2> SUFFICES ASSUME NEW id \in streams'
               PROVE  /\ st'[pipe'[id].client] = "closed" =>
                           pc'[pipe'[id].client] \in Openers /\ arg'[pipe'[id].client] = id
                      /\ st'[pipe'[id].daemon] = "closed" =>
                           pc'[pipe'[id].client] \in {"openDaemon", "drop"} /\ arg'[pipe'[id].client] = id
    BY DEF OpenersInFlight, Openers
  <2>1. id \in streams /\ pipe'[id] = pipe[id] /\ pipe[id] \in Pipe
    BY DEF IInv, TypeOK, StreamsListed, strVars
  <2>2. pipe[id].client \in Sessions /\ pipe[id].daemon \in Sessions
    BY <2>1 DEF Pipe, Sessions
  <2> QED
    BY <2>1, <2>2 DEF IInv, OpenersInFlight, Openers
<1>6. ClosedStreamsAnnounced'
  BY DEF IInv, ClosedStreamsAnnounced, Owed, DebtsHaveDebtors, strVars
<1> QED
  BY <1>1, <1>2, <1>3, <1>4, <1>5, <1>6 DEF IInv

\* Accepting, losing and closing a connection (before onSessionClose) keep the invariant.
LEMMA ConnectionStep ==
  ASSUME IInv, NEW s \in Sessions, Connect(s) \/ Break(s) \/ CloseSession(s)
  PROVE  IInv'
<1>1. /\ UNCHANGED <<failed, devID, daemons, codes, claimed, streams, pipe, bySess, nextID>>
      /\ UNCHANGED <<pc, arg, waitFor, owes, closeOwes, told, live, late>>
  BY DEF Connect, Break, CloseSession, regVars, strVars, endVars
<1>2. /\ st' \in [Sessions -> {"new", "open", "broken", "closing", "closed"}]
      /\ \A x \in Sessions :
           /\ st'[x] = "open" => st[x] \in {"open", "new"}
           /\ st'[x] = "closed" <=> st[x] = "closed"
           /\ st'[x] = "new" => st[x] = "new"
  BY DEF Connect, Break, CloseSession, CloseCAS, Alive, IInv, TypeOK
<1>3. TypeOK'
  BY <1>1, <1>2 DEF IInv, TypeOK
<1>4. HandlerArgs'
  BY <1>1 DEF IInv, HandlerArgs, Known
<1>5. DebtsHaveDebtors'
  BY <1>1, <1>2 DEF IInv, DebtsHaveDebtors
<1> QED
  BY <1>1, <1>2, <1>3, <1>4, <1>5, FrameStep DEF strVars

\* A frame read by readLoop starts its handler with an argument that fits it; a close
\* frame makes the sender forget the stream.
LEMMA ReadFrameStep ==
  ASSUME IInv, NEW s \in Sessions, ReadFrame(s)
  PROVE  IInv'
<1>1. PICK f \in Frames(s) :
        /\ pc' = [pc EXCEPT ![s] = f.t]
        /\ arg' = [arg EXCEPT ![s] = f.a]
        /\ live' = IF f.t = "close" THEN [live EXCEPT ![s] = @ \ {f.a}] ELSE live
  BY DEF ReadFrame
<1>2. /\ UNCHANGED <<st, failed, devID, daemons, codes, claimed, streams, pipe, bySess, nextID>>
      /\ UNCHANGED <<waitFor, owes, closeOwes, told, late>>
      /\ pc[s] = "idle" /\ Alive(s)
  BY DEF ReadFrame, regVars, strVars
<1>3. /\ f.t \in FrameLabels
      /\ f.t = "reg" => f.a \in DevIDs
      /\ f.t \in {"code", "claim"} => f.a \in Codes
      /\ f.t = "open" => f.a \in DevIDs \cup {None}
      /\ f.t \in {"accept", "close", "data"} => f.a \in Known
      /\ f.t = "bad" => f.a = None
  <2>0. Nameable(s) \subseteq Known /\ (s \notin Clients => s \in DaemonSess)
    BY DEF IInv, IdsKnown, Sessions, Nameable, Known
  <2>1. CASE f \in ClientFrames(s) \cup {Frame("bad", None)}
    BY <2>1 DEF ClientFrames, Frame, FrameLabels
  <2>2. CASE s \in DaemonSess /\ f \in DaemonFrames(s)
    BY <2>0, <2>2 DEF DaemonFrames, Frame, FrameLabels
  <2>3. CASE \E id \in Known : f = Frame("data", id) \/ f = Frame("close", id)
    BY <2>3 DEF Frame, FrameLabels
  <2> QED
    BY <2>0, <2>1, <2>2, <2>3 DEF Frames, Known
<1>4. Known \subseteq Ids
  BY DEF IInv, TypeOK, Known, Ids
<1>5. TypeOK'
  <2>1. pc' \in [Sessions -> {"idle"} \cup FrameLabels \cup Inside]
    BY <1>1, <1>3 DEF IInv, TypeOK
  <2>2. arg' \in [Sessions -> Ids \cup Codes \cup DevIDs \cup {None}]
    BY <1>1, <1>3, <1>4 DEF IInv, TypeOK, FrameLabels
  <2>3. live' \in [Sessions -> SUBSET Ids]
    BY <1>1 DEF IInv, TypeOK
  <2> QED
    BY <1>2, <2>1, <2>2, <2>3 DEF IInv, TypeOK
<1>6. HandlerArgs'
  BY <1>1, <1>2, <1>3 DEF IInv, TypeOK, HandlerArgs, Known, FrameLabels
<1>7. DebtsHaveDebtors'
  BY <1>1, <1>2, <1>3 DEF IInv, TypeOK, DebtsHaveDebtors, Alive
<1>8. \A x \in Sessions : live'[x] \subseteq live[x]
  BY <1>1 DEF IInv, TypeOK
<1>9. \A x \in Sessions : pc[x] \in Openers => pc'[x] = pc[x] /\ arg'[x] = arg[x]
  BY <1>1, <1>2 DEF IInv, TypeOK, Openers
<1> QED
  BY <1>2, <1>5, <1>6, <1>7, <1>8, <1>9, FrameStep DEF strVars

(***************************************************************************)
(* Handler steps that change only registrations, codes and claims, and may *)
(* begin the close of one session.                                         *)
(***************************************************************************)
RegTypes ==
  /\ failed \in [Sessions -> ErrCodes \cup {"none"}]
  /\ devID \in [DaemonSess -> DevIDs \cup {None}]
  /\ daemons \in [DevIDs -> DaemonSess \cup {None}]
  /\ codes \in [Codes -> CodeEntry \cup {None}]
  /\ claimed \in [Clients -> DevIDs \cup {None}]
  /\ waitFor \in [DaemonSess -> DaemonSess \cup {None}]

\* A handler step that leaves streams and debts alone, ends or goes on with a known
\* stream and closes at most one session keeps the invariant.
LEMMA HandlerFrame ==
  ASSUME IInv, NEW s \in Sessions, NEW x \in Sessions, RegTypes',
         UNCHANGED <<strVars, owes, closeOwes, endVars>>,
         pc[s] \notin Openers \cup {"notify"},
         st' \in {st, CloseCAS(x)},
         \/ Return(s)
         \/ Goto(s, "regWait") /\ arg[s] \in DevIDs
         \/ (Goto(s, "closeDrop") \/ Goto(s, "dataWrite") \/ Goto(s, "drop")) /\ arg[s] \in Known
  PROVE  IInv'
<1>1. /\ UNCHANGED <<streams, pipe, bySess, nextID, owes, closeOwes, told, live, late>>
  BY DEF strVars, endVars
<1>2. /\ st' \in [Sessions -> {"new", "open", "broken", "closing", "closed"}]
      /\ \A y \in Sessions :
           /\ st'[y] = "open" => st[y] = "open"
           /\ st'[y] = "closed" <=> st[y] = "closed"
           /\ st'[y] = "new" => st[y] = "new"
  BY DEF CloseCAS, Alive, IInv, TypeOK
<1>3. /\ pc' \in [Sessions -> {"idle"} \cup FrameLabels \cup Inside]
      /\ arg' \in [Sessions -> Ids \cup Codes \cup DevIDs \cup {None}]
      /\ \A y \in Sessions \ {s} : pc'[y] = pc[y] /\ arg'[y] = arg[y]
      /\ pc'[s] \in {"idle", "regWait", "closeDrop", "dataWrite", "drop"}
      /\ pc'[s] = "regWait" => arg'[s] \in DevIDs
      /\ pc'[s] \in {"closeDrop", "dataWrite", "drop"} => arg'[s] \in Known
  BY DEF IInv, TypeOK, Return, Goto, Inside
<1>4. TypeOK'
  BY <1>1, <1>2, <1>3 DEF IInv, TypeOK, RegTypes
<1>5. HandlerArgs'
  BY <1>1, <1>3 DEF IInv, HandlerArgs, Known
<1>6. DebtsHaveDebtors'
  BY <1>1, <1>2, <1>3 DEF IInv, DebtsHaveDebtors
<1>7. \A y \in Sessions : pc[y] \in Openers => pc'[y] = pc[y] /\ arg'[y] = arg[y]
  BY <1>3
<1> QED
  BY <1>1, <1>2, <1>4, <1>5, <1>6, <1>7, FrameStep DEF strVars

\* Hub.fail, the error path of every handler, keeps the invariant.
LEMMA FailStep ==
  ASSUME IInv, NEW s \in Sessions, NEW why \in ErrCodes, Fail(s, why),
         pc[s] \notin Openers \cup {"notify"},
         UNCHANGED <<devID, daemons, claimed>>,
         codes' \in [Codes -> CodeEntry \cup {None}]
  PROVE  IInv'
<1>1. RegTypes'
  BY DEF Fail, IInv, TypeOK, RegTypes
<1> QED
  BY <1>1, HandlerFrame DEF Fail

\* handleReg, which replaces the session a device was registered under, keeps it.
LEMMA RegisterStep ==
  ASSUME IInv, NEW s \in DaemonSess, HandleReg(s) \/ FinishReg(s)
  PROVE  IInv'
<1>0. s \in Sessions /\ arg[s] \in DevIDs
  BY DEF Sessions, HandleReg, FinishReg, IInv, HandlerArgs
<1>1. CASE HandleReg(s) /\ Register(s) /\ UNCHANGED <<st, waitFor>>
  <2>1. RegTypes'
    BY <1>0, <1>1 DEF Register, IInv, TypeOK, RegTypes
  <2> QED
    BY <1>0, <1>1, <2>1, HandlerFrame DEF Register, HandleReg, Openers
<1>2. CASE HandleReg(s) /\ ~(Register(s) /\ UNCHANGED <<st, waitFor>>)
  <2>1. PICK old : /\ old = daemons[arg[s]] /\ old \notin {None, s}
                   /\ Goto(s, "regWait")
                   /\ waitFor' = [waitFor EXCEPT ![s] = IF Alive(old) THEN old ELSE None]
                   /\ st' = CloseCAS(old)
                   /\ UNCHANGED <<failed, regVars, strVars, owes, closeOwes, endVars>>
    BY <1>2 DEF HandleReg
  <2>2. old \in DaemonSess
    BY <1>0, <2>1 DEF IInv, TypeOK
  <2>3. RegTypes'
    BY <2>1, <2>2 DEF IInv, TypeOK, RegTypes, regVars
  <2>4. old \in Sessions /\ pc[s] \notin Openers \cup {"notify"}
    BY <2>2, <1>2 DEF Sessions, HandleReg, Openers
  <2> QED
    BY <1>0, <2>1, <2>3, <2>4, HandlerFrame
<1>3. CASE FinishReg(s)
  <2>1. RegTypes'
    BY <1>0, <1>3 DEF FinishReg, Register, IInv, TypeOK, RegTypes
  <2> QED
    BY <1>0, <1>3, <2>1, HandlerFrame DEF Register, FinishReg, Openers
<1> QED
  BY <1>1, <1>2, <1>3

\* The expiry of a pairing code keeps it.
LEMMA ExpireStep ==
  ASSUME IInv, NEW c \in Codes, ExpireCode(c)
  PROVE  IInv'
<1>1. /\ UNCHANGED <<st, failed, devID, daemons, claimed, streams, pipe, bySess, nextID>>
      /\ UNCHANGED <<pc, arg, waitFor, owes, closeOwes, told, live, late>>
  BY DEF ExpireCode, strVars, endVars
<1>2. codes[c] \in CodeEntry /\ codes' = [codes EXCEPT ![c].fresh = FALSE]
  BY DEF ExpireCode, Fresh, IInv, TypeOK
<1>3. codes' \in [Codes -> CodeEntry \cup {None}]
  BY <1>2 DEF IInv, TypeOK, CodeEntry
<1>4. TypeOK'
  BY <1>1, <1>3 DEF IInv, TypeOK
<1>5. HandlerArgs' /\ DebtsHaveDebtors'
  BY <1>1 DEF IInv, HandlerArgs, Known, DebtsHaveDebtors
<1> QED
  BY <1>1, <1>4, <1>5, FrameStep DEF strVars

\* handleCode keeps it, refused or stored.
LEMMA CodeStep ==
  ASSUME IInv, NEW s \in DaemonSess, HandleCode(s)
  PROVE  IInv'
<1>0. s \in Sessions /\ arg[s] \in Codes /\ pc[s] \notin Openers \cup {"notify"}
  BY DEF Sessions, HandleCode, IInv, HandlerArgs, Openers
<1>1. CASE devID[s] = None
  BY <1>0, <1>1, FailStep DEF HandleCode, ErrCodes, regVars, IInv, TypeOK
<1>2. CASE devID[s] # None
  <2>1. [dev |-> devID[s], by |-> s, fresh |-> TRUE] \in CodeEntry
    BY <1>2 DEF CodeEntry, IInv, TypeOK
  <2>2. codes' \in [Codes -> CodeEntry \cup {None}]
    <3>1. codes' = [c \in Codes |->
             IF c = arg[s] THEN [dev |-> devID[s], by |-> s, fresh |-> TRUE]
             ELSE IF Fresh(c) THEN codes[c] ELSE None]
      BY <1>2 DEF HandleCode
    <3> QED
      BY <2>1, <3>1 DEF IInv, TypeOK
  <2>3. RegTypes'
    BY <1>2, <2>2 DEF HandleCode, IInv, TypeOK, RegTypes
  <2> QED
    BY <1>0, <1>2, <2>3, HandlerFrame DEF HandleCode
<1> QED
  BY <1>1, <1>2

\* handleClaim keeps it, whether limited, refused or bound.
LEMMA ClaimStep ==
  ASSUME IInv, NEW s \in Clients, HandleClaim(s)
  PROVE  IInv'
<1>0. s \in Sessions /\ arg[s] \in Codes /\ pc[s] \notin Openers \cup {"notify"}
  BY DEF Sessions, HandleClaim, IInv, HandlerArgs, Openers
<1>1. CASE Fail(s, "rate_limited") /\ UNCHANGED regVars
  BY <1>0, <1>1, FailStep DEF ErrCodes, regVars, IInv, TypeOK
<1>2. CASE /\ codes' = [codes EXCEPT ![arg[s]] = None]
           /\ Fail(s, "invalid_code")
           /\ UNCHANGED <<devID, daemons, claimed>>
  <2>1. codes' \in [Codes -> CodeEntry \cup {None}]
    BY <1>2 DEF IInv, TypeOK
  <2> QED
    BY <1>0, <1>2, <2>1, FailStep DEF ErrCodes
<1>3. CASE /\ Fresh(arg[s])
           /\ codes' = [codes EXCEPT ![arg[s]] = None]
           /\ claimed' = [claimed EXCEPT ![s] = codes[arg[s]].dev]
           /\ Return(s)
           /\ UNCHANGED <<st, failed, devID, daemons, strVars, waitFor, owes, closeOwes, endVars>>
  <2>1. codes[arg[s]].dev \in DevIDs
    BY <1>0, <1>3 DEF Fresh, IInv, TypeOK, CodeEntry
  <2>2. RegTypes'
    BY <1>0, <1>3, <2>1 DEF IInv, TypeOK, RegTypes
  <2> QED
    BY <1>0, <1>3, <2>2, HandlerFrame
<1> QED
  BY <1>1, <1>2, <1>3 DEF HandleClaim

\* Handlers that only look a stream up (accept, close, data) or report a bad frame keep it.
LEMMA LookupStep ==
  ASSUME IInv, NEW s \in Sessions,
         HandleBad(s) \/ HandleAccept(s) \/ HandleClose(s) \/ DataWrite(s)
  PROVE  IInv'
<1>0. pc[s] \notin Openers \cup {"notify"}
  BY DEF HandleBad, HandleAccept, HandleClose, DataWrite, Openers
<1>1. CASE Fail(s, "protocol") /\ UNCHANGED regVars
  BY <1>0, <1>1, FailStep DEF ErrCodes, regVars, IInv, TypeOK
<1>2. CASE ~(Fail(s, "protocol") /\ UNCHANGED regVars)
  <2>1. pc[s] \in {"accept", "close", "dataWrite"} /\ arg[s] \in Known
    BY <1>2 DEF HandleBad, HandleAccept, HandleClose, DataWrite, IInv, HandlerArgs
  <2>2. /\ UNCHANGED <<st, failed, devID, daemons, codes, claimed, waitFor>>
        /\ UNCHANGED <<strVars, owes, closeOwes, endVars>>
        /\ Return(s) \/ Goto(s, "closeDrop") \/ Goto(s, "drop")
    BY <1>2 DEF HandleBad, HandleAccept, HandleClose, DataWrite, WriteFails, regVars
  <2>3. RegTypes'
    BY <2>2 DEF IInv, TypeOK, RegTypes
  <2> QED
    BY <1>0, <2>1, <2>2, <2>3, HandlerFrame
<1> QED
  BY <1>1, <1>2

(***************************************************************************)
(* handleOpen                                                              *)
(***************************************************************************)
LEMMA ListsFinite == ASSUME TypeOK, NEW s \in Sessions PROVE IsFiniteSet(bySess[s])
<1>1. IsFiniteSet(Ids)
  BY FS_Interval DEF Ids
<1> QED
  BY <1>1, FS_Subset DEF TypeOK

\* handleOpen keeps it: a new id, listed on both sides, within the caps checked before.
LEMMA OpenStep ==
  ASSUME IInv, NEW s \in Clients, HandleOpen(s)
  PROVE  IInv'
<1>0. s \in Sessions /\ arg[s] \in DevIDs \cup {None} /\ pc[s] = "open"
  BY DEF Sessions, HandleOpen, IInv, HandlerArgs
<1>1. CASE OpenRefusal(s) # "none"
  BY <1>0, <1>1, FailStep DEF HandleOpen, OpenRefusal, ErrCodes, Openers, regVars, IInv, TypeOK
<1>2. CASE OpenRefusal(s) = "none"
  <2>a. PICK d : d = daemons[Target(s)]
    OBVIOUS
  <2>b. PICK id : id = nextID + 1
    OBVIOUS
  <2>1. /\ Target(s) \in DevIDs /\ d \in DaemonSess /\ d \in Sessions /\ d # s
        /\ ~AtCap(s) /\ ~AtCap(d) /\ id \in Ids
    <3>1. Target(s) \in DevIDs \cup {None}
      BY <1>0 DEF Target, IInv, TypeOK
    <3>2. Target(s) \in DevIDs /\ d # None /\ ~AtCap(s) /\ ~AtCap(d)
      BY <1>2, <2>a, <3>1 DEF OpenRefusal
    <3>3. d \in DaemonSess /\ d # s
      BY <2>a, <3>2 DEF IInv, TypeOK
    <3> QED
      BY <1>2, <2>b, <3>2, <3>3 DEF HandleOpen, Ids, Sessions, IInv, TypeOK
  <2>2. /\ UNCHANGED <<st, failed, devID, daemons, codes, claimed, waitFor, owes, closeOwes, told, live, late>>
        /\ nextID' = id
        /\ pipe' = [pipe EXCEPT ![id] = [client |-> s, daemon |-> d]]
        /\ streams' = streams \cup {id}
        /\ bySess' = [bySess EXCEPT ![s] = @ \cup {id}, ![d] = @ \cup {id}]
        /\ pc' = [pc EXCEPT ![s] = "openDaemon"]
        /\ arg' = [arg EXCEPT ![s] = id]
    BY <1>2, <2>a, <2>b DEF HandleOpen, AddStream, regVars, endVars
  <2>3. /\ bySess'[s] = bySess[s] \cup {id} /\ bySess'[d] = bySess[d] \cup {id}
        /\ \A x \in Sessions \ {s, d} : bySess'[x] = bySess[x]
        /\ pipe'[id] = [client |-> s, daemon |-> d] /\ pipe'[id] \in Pipe /\ pipe'[id] # None
        /\ \A i \in Known : pipe'[i] = pipe[i] /\ i # id
        /\ Known' = Known \cup {id} /\ Known \subseteq Ids
    <3>1. [client |-> s, daemon |-> d] \in Pipe
      BY <2>1 DEF Pipe
    <3>2. Known' = Known \cup {id} /\ Known \subseteq Ids /\ id \notin Known
      BY <2>b, <2>1, <2>2 DEF Known, Ids, IInv, TypeOK
    <3>3. pipe'[id] # None
      BY <2>1, <2>2, <3>1 DEF IInv, TypeOK, Pipe
    <3> QED
      BY <1>0, <2>1, <2>2, <3>1, <3>2, <3>3 DEF IInv, TypeOK
  <2>4. TypeOK'
    <3>1. bySess' \in [Sessions -> SUBSET Ids] /\ streams' \subseteq Ids
      BY <1>0, <2>1, <2>2 DEF IInv, TypeOK
    <3>2. pipe' \in [Ids -> Pipe \cup {None}] /\ nextID' \in 0 .. MaxID
      BY <2>b, <2>1, <2>2, <2>3 DEF IInv, TypeOK, Ids
    <3>3. /\ pc' \in [Sessions -> {"idle"} \cup FrameLabels \cup Inside]
          /\ arg' \in [Sessions -> Ids \cup Codes \cup DevIDs \cup {None}]
      BY <1>0, <2>1, <2>2 DEF IInv, TypeOK, Inside
    <3> QED
      BY <2>2, <3>1, <3>2, <3>3 DEF IInv, TypeOK
  <2>5. HandlerArgs'
    BY <1>0, <2>1, <2>2, <2>3 DEF IInv, TypeOK, HandlerArgs
  <2>6. IdsKnown'
    <3>1. \A i \in Known' : pipe'[i] # None
      BY <2>3 DEF IInv, IdsKnown
    <3>2. streams' \subseteq Known'
      BY <2>2, <2>3 DEF IInv, IdsKnown
    <3>3. ASSUME NEW x \in Sessions
          PROVE  bySess'[x] \subseteq Known' /\ told'[x] \subseteq Known' /\ live'[x] \subseteq Known'
      BY <2>2, <2>3 DEF IInv, IdsKnown
    <3> QED
      BY <3>1, <3>2, <3>3 DEF IdsKnown
  <2>7. OwnStreamsOnly'
    <3> SUFFICES ASSUME NEW x \in Sessions, NEW i \in bySess'[x] \cup live'[x]
                 PROVE  x \in {pipe'[i].client, pipe'[i].daemon}
      BY DEF OwnStreamsOnly, Ends
    <3>1. CASE i = id
      <4>1. i \notin live'[x] /\ i \notin bySess[x]
        BY <2>2, <2>3, <3>1 DEF IInv, IdsKnown
      <4> QED
        BY <2>3, <3>1, <4>1
    <3>2. CASE i # id
      <4>1. i \in bySess[x] \cup live[x]
        BY <2>2, <2>3, <3>2
      <4>2. i \in Known
        BY <4>1 DEF IInv, IdsKnown
      <4> QED
        BY <2>3, <4>1, <4>2 DEF IInv, OwnStreamsOnly, Ends
    <3> QED
      BY <3>1, <3>2
  <2>8. CapsOnLists'
    <3> SUFFICES ASSUME NEW x \in Sessions PROVE Cardinality(bySess'[x]) <= MaxStreams(x)
      BY DEF CapsOnLists, MaxStreams
    <3>1. IsFiniteSet(bySess[x]) /\ id \notin bySess[x]
      BY <2>3, ListsFinite DEF IInv, IdsKnown
    <3>2. CASE x \in {s, d}
      <4>1. Cardinality(bySess[x] \cup {id}) = Cardinality(bySess[x]) + 1
        BY <3>1, FS_AddElement
      <4>2. Cardinality(bySess[x]) \in Nat
        BY <3>1, FS_CardinalityType
      <4>3. MaxStreams(x) \in Nat /\ ~(Cardinality(bySess[x]) >= MaxStreams(x))
        BY <2>1, <3>2 DEF MaxStreams, AtCap
      <4>4. bySess'[x] = bySess[x] \cup {id}
        BY <2>3, <3>2
      <4>5. Cardinality(bySess'[x]) = Cardinality(bySess[x]) + 1
        BY <4>1, <4>4
      <4> QED
        BY <4>2, <4>3, <4>5
    <3>3. CASE x \notin {s, d}
      BY <2>3, <3>3 DEF IInv, CapsOnLists
    <3> QED
      BY <3>2, <3>3
  <2>9. StreamsListed'
    <3> SUFFICES ASSUME NEW i \in streams'
                 PROVE  pipe'[i] # None /\ i \in bySess'[pipe'[i].client] /\ i \in bySess'[pipe'[i].daemon]
      BY DEF StreamsListed, Ends
    <3>1. CASE i = id
      BY <2>3, <3>1
    <3>2. CASE i # id
      <4>1. i \in streams /\ i \in Known
        BY <2>2, <3>2 DEF IInv, IdsKnown
      <4>2. /\ pipe'[i] = pipe[i] /\ pipe[i] # None /\ pipe[i] \in Pipe
            /\ i \in bySess[pipe[i].client] /\ i \in bySess[pipe[i].daemon]
        BY <2>3, <4>1 DEF IInv, StreamsListed, Ends, TypeOK
      <4>3. pipe[i].client \in Sessions /\ pipe[i].daemon \in Sessions
        BY <4>2 DEF Pipe, Sessions
      <4> QED
        BY <2>3, <4>2, <4>3
    <3> QED
      BY <3>1, <3>2
  <2>10. OpenersInFlight'
    <3> SUFFICES ASSUME NEW i \in streams'
                 PROVE  LET c == pipe'[i].client IN
                        /\ st'[c] = "closed" => pc'[c] \in Openers /\ arg'[c] = i
                        /\ st'[pipe'[i].daemon] = "closed" => pc'[c] \in {"openDaemon", "drop"} /\ arg'[c] = i
      BY DEF OpenersInFlight, Openers
    <3>1. CASE i = id
      BY <1>0, <2>2, <2>3, <3>1 DEF IInv, TypeOK, Openers
    <3>2. CASE i \in streams /\ i # id
      <4>1. pipe'[i] = pipe[i] /\ pipe[i].client \in Clients
        BY <3>2, <2>3 DEF IInv, IdsKnown, TypeOK, Pipe
      <4> QED
        BY <1>0, <2>2, <3>2, <4>1 DEF IInv, OpenersInFlight, Openers, TypeOK, Sessions
    <3> QED
      BY <2>2, <3>1, <3>2
  <2>11. DebtsHaveDebtors'
    BY <1>0, <2>2 DEF IInv, DebtsHaveDebtors, TypeOK
  <2>12. ClosedStreamsAnnounced'
    BY <2>2 DEF IInv, ClosedStreamsAnnounced, Owed
  <2> QED
    BY <2>4, <2>5, <2>6, <2>7, <2>8, <2>9, <2>10, <2>11, <2>12 DEF IInv
<1> QED
  BY <1>1, <1>2

\* The two writes of handleOpen
LEMMA OpenWriteStep ==
  ASSUME IInv, NEW s \in Clients, OpenToDaemon(s) \/ OpenToClient(s)
  PROVE  IInv'
<1>0. /\ s \in Sessions /\ arg[s] \in Known /\ pipe[arg[s]].client = s
      /\ arg[s] \in Ids /\ pipe[arg[s]] # None
  BY DEF Sessions, OpenToDaemon, OpenToClient, IInv, HandlerArgs, IdsKnown, Known, TypeOK, Ids
<1>1. PICK t : t = IF pc[s] = "openDaemon" THEN pipe[arg[s]].daemon ELSE s
  OBVIOUS
<1>2. t \in Ends(arg[s]) /\ t \in Sessions
  BY <1>0, <1>1 DEF Ends, IInv, TypeOK, Pipe, Sessions
<1>3. /\ UNCHANGED <<st, failed, devID, daemons, codes, claimed, streams, pipe, bySess, nextID>>
      /\ UNCHANGED <<waitFor, owes, closeOwes>>
      /\ pc[s] \in {"openDaemon", "openClient"}
  BY DEF OpenToDaemon, OpenToClient, regVars, strVars
<1>4. \/ /\ CanWrite(t) /\ WriteOpen(t, arg[s])
         /\ \/ pc[s] = "openDaemon" /\ Goto(s, "openClient")
            \/ pc[s] = "openClient" /\ Return(s)
      \/ Goto(s, "drop") /\ UNCHANGED <<told, live, late>>
  BY <1>1 DEF OpenToDaemon, OpenToClient, WriteFails, endVars
<1>5. /\ pc' \in [Sessions -> {"idle"} \cup FrameLabels \cup Inside]
      /\ arg' \in [Sessions -> Ids \cup Codes \cup DevIDs \cup {None}]
      /\ \A y \in Sessions \ {s} : pc'[y] = pc[y] /\ arg'[y] = arg[y]
      /\ pc'[s] \in {"idle", "openClient", "drop"}
      /\ pc'[s] # "idle" => arg'[s] = arg[s]
  BY <1>0, <1>4 DEF IInv, TypeOK, Return, Goto, Inside
<1>6. /\ told' \in [Sessions -> SUBSET Ids] /\ live' \in [Sessions -> SUBSET Ids] /\ late' \subseteq Ids
      /\ late \subseteq late'
      /\ \A y \in Sessions :
           /\ told'[y] \subseteq told[y] \cup {arg[s]}
           /\ live'[y] = live[y] \/ /\ y = t /\ CanWrite(t) /\ live'[y] = live[y] \cup {arg[s]}
                                    /\ arg[s] \in streams \cup late'
  BY <1>0, <1>2, <1>4 DEF WriteOpen, IInv, TypeOK
<1>7. TypeOK'
  BY <1>3, <1>5, <1>6 DEF IInv, TypeOK
<1>8. HandlerArgs'
  BY <1>0, <1>3, <1>5 DEF IInv, HandlerArgs, Known
<1>9. IdsKnown'
  BY <1>0, <1>3, <1>6 DEF IInv, IdsKnown, Known
<1>10. OwnStreamsOnly'
  BY <1>2, <1>3, <1>6 DEF IInv, OwnStreamsOnly, Ends
<1>11. CapsOnLists' /\ StreamsListed'
  BY <1>3 DEF IInv, CapsOnLists, MaxStreams, StreamsListed, Ends
<1>12. OpenersInFlight'
  <2> SUFFICES ASSUME NEW i \in streams
               PROVE  LET c == pipe[i].client IN
                      /\ st[c] = "closed" => pc'[c] \in Openers /\ arg'[c] = i
                      /\ st[pipe[i].daemon] = "closed" => pc'[c] \in {"openDaemon", "drop"} /\ arg'[c] = i
    BY <1>3 DEF OpenersInFlight, Openers
  <2>1. pipe[i].client \in Sessions
    BY DEF IInv, TypeOK, StreamsListed, Pipe, Sessions
  <2>2. CASE pipe[i].client # s
    BY <1>5, <2>1, <2>2 DEF IInv, OpenersInFlight, Openers
  <2>3. CASE pipe[i].client = s /\ arg[s] # i
    BY <2>3 DEF IInv, OpenersInFlight
  <2>4. CASE pipe[i].client = s /\ arg[s] = i
    BY <1>0, <1>1, <1>4, <1>5, <2>4 DEF IInv, TypeOK, OpenersInFlight, Openers, Goto, Return, CanWrite
  <2> QED
    BY <2>2, <2>3, <2>4
<1>13. DebtsHaveDebtors'
  BY <1>3, <1>5, <1>6 DEF IInv, DebtsHaveDebtors, CanWrite
<1>14. ClosedStreamsAnnounced'
  <2> SUFFICES ASSUME NEW x \in Sessions, NEW i \in live'[x] \ (streams \cup late'), st[x] = "open"
               PROVE  \E y \in Sessions : <<x, i>> \in owes[y] \cup closeOwes[y]
    BY <1>3 DEF ClosedStreamsAnnounced, Owed
  <2>1. i \in live[x] \ (streams \cup late)
    BY <1>6
  <2> QED
    BY <2>1 DEF IInv, ClosedStreamsAnnounced, Owed
<1> QED
  BY <1>7, <1>8, <1>9, <1>10, <1>11, <1>12, <1>13, <1>14 DEF IInv

(***************************************************************************)
(* dropStream                                                              *)
(***************************************************************************)
LEMMA ListsShrink ==
  ASSUME TypeOK, NEW s \in Sessions, NEW L \in SUBSET bySess[s], CapsOnLists
  PROVE  Cardinality(L) <= MaxStreams(s)
<1>1. IsFiniteSet(bySess[s])
  BY ListsFinite
<1>2. IsFiniteSet(L) /\ Cardinality(L) <= Cardinality(bySess[s])
  BY <1>1, FS_Subset
<1>3. Cardinality(L) \in Nat /\ Cardinality(bySess[s]) \in Nat /\ MaxStreams(s) \in Nat
  BY <1>1, <1>2, FS_CardinalityType DEF MaxStreams
<1>4. Cardinality(bySess[s]) <= MaxStreams(s)
  BY DEF CapsOnLists
<1> QED
  BY <1>2, <1>3, <1>4

\* dropStream keeps it: the ids leave the tables and the close frames become debts.
LEMMA DropStep ==
  ASSUME IInv, NEW s \in Sessions, Drop(s) \/ CloseDrop(s)
  PROVE  IInv'
<1>1. PICK afterClose \in BOOLEAN : DropStream(s, afterClose)
  BY DEF Drop, CloseDrop
<1>2. PICK id : id = arg[s]
  OBVIOUS
<1>3. /\ id \in Known /\ id \in Ids /\ pipe[id] \in Pipe /\ Ends(id) \subseteq Sessions
      /\ PeerOf(s, id) \in Sessions
      /\ pc[s] \in {"drop", "closeDrop"} /\ owes[s] = {}
  <2>1. id \in Known /\ pc[s] \in {"drop", "closeDrop"}
    BY <1>2 DEF Drop, CloseDrop, IInv, HandlerArgs
  <2>2. id \in Ids /\ pipe[id] \in Pipe
    BY <2>1 DEF IInv, TypeOK, IdsKnown, Known, Ids
  <2> QED
    BY <2>1, <2>2 DEF Ends, PeerOf, Pipe, Sessions, IInv, DebtsHaveDebtors
<1>4. PICK notify : notify = (IF id \in streams THEN Ends(id) ELSE {})
                             \cup (IF afterClose THEN {PeerOf(s, id)} ELSE {})
  OBVIOUS
<1>5. /\ streams' = streams \ {id}
      /\ bySess' = [t \in Sessions |-> IF id \in streams /\ t \in Ends(id) THEN bySess[t] \ {id} ELSE bySess[t]]
      /\ owes' = [owes EXCEPT ![s] = {<<t, id>> : t \in notify}]
      /\ pc' = [pc EXCEPT ![s] = "notify"]
      /\ UNCHANGED <<st, failed, devID, daemons, codes, claimed, pipe, nextID, arg, waitFor, closeOwes>>
      /\ UNCHANGED <<told, live, late>>
  BY <1>1, <1>2, <1>4 DEF DropStream, Goto, regVars, endVars
<1>6. TypeOK'
  <2>1. {<<t, id>> : t \in notify} \subseteq Sessions \X Ids
    BY <1>3, <1>4
  <2>2. owes' \in [Sessions -> SUBSET (Sessions \X Ids)]
    BY <1>5, <2>1 DEF IInv, TypeOK
  <2>3. bySess' \in [Sessions -> SUBSET Ids] /\ streams' \subseteq Ids
    BY <1>5 DEF IInv, TypeOK
  <2>4. pc' \in [Sessions -> {"idle"} \cup FrameLabels \cup Inside]
    BY <1>5 DEF IInv, TypeOK, Inside
  <2> QED
    BY <1>5, <2>2, <2>3, <2>4 DEF IInv, TypeOK
<1>7. HandlerArgs'
  BY <1>5 DEF IInv, TypeOK, HandlerArgs, Known
<1>8. \A x \in Sessions : bySess'[x] \subseteq bySess[x]
  BY <1>5
<1>9. IdsKnown'
  BY <1>5, <1>8 DEF IInv, IdsKnown, Known
<1>10. OwnStreamsOnly'
  BY <1>5, <1>8 DEF IInv, OwnStreamsOnly, Ends
<1>11. CapsOnLists'
  BY <1>8, ListsShrink DEF IInv, CapsOnLists, MaxStreams
<1>12. StreamsListed'
  <2> SUFFICES ASSUME NEW i \in streams', NEW x \in Ends(i)
               PROVE  pipe[i] # None /\ i \in bySess'[x]
    BY <1>5 DEF StreamsListed, Ends
  <2>1. i \in streams /\ i # id /\ pipe[i] # None /\ i \in bySess[x]
    BY <1>5 DEF IInv, StreamsListed
  <2>2. x \in Sessions
    BY <2>1 DEF IInv, TypeOK, Ends, Pipe, Sessions
  <2> QED
    BY <1>5, <2>1, <2>2
<1>13. OpenersInFlight'
  <2> SUFFICES ASSUME NEW i \in streams, i # id
               PROVE  LET c == pipe[i].client IN
                      /\ st[c] = "closed" => pc'[c] \in Openers /\ arg[c] = i
                      /\ st[pipe[i].daemon] = "closed" => pc'[c] \in {"openDaemon", "drop"} /\ arg[c] = i
    BY <1>5 DEF OpenersInFlight, Openers
  <2> QED
    BY <1>2, <1>5 DEF IInv, TypeOK, OpenersInFlight, Openers
<1>14. DebtsHaveDebtors'
  BY <1>5 DEF IInv, TypeOK, DebtsHaveDebtors
<1>15. ClosedStreamsAnnounced'
  <2> SUFFICES ASSUME NEW x \in Sessions, NEW i \in live[x] \ (streams' \cup late), st[x] = "open"
               PROVE  \E y \in Sessions : <<x, i>> \in owes'[y] \cup closeOwes[y]
    BY <1>5 DEF ClosedStreamsAnnounced, Owed
  <2>1. CASE i = id /\ id \in streams
    <3>1. x \in notify
      BY <1>4, <2>1 DEF IInv, OwnStreamsOnly
    <3>2. <<x, i>> \in owes'[s]
      BY <1>5, <2>1, <3>1 DEF IInv, TypeOK
    <3> QED
      BY <3>2
  <2>2. CASE i \notin streams
    <3>1. PICK y \in Sessions : <<x, i>> \in owes[y] \cup closeOwes[y]
      BY <2>2 DEF IInv, ClosedStreamsAnnounced, Owed
    <3>2. <<x, i>> \in owes'[y] \cup closeOwes[y]
      BY <1>3, <1>5, <3>1 DEF IInv, TypeOK
    <3> QED
      BY <3>2
  <2> QED
    BY <1>5, <2>1, <2>2
<1> QED
  BY <1>6, <1>7, <1>9, <1>10, <1>11, <1>12, <1>13, <1>14, <1>15 DEF IInv

(***************************************************************************)
(* Close frames being written, by a handler or after a session's close.    *)
(***************************************************************************)
LEMMA WriteCloseFacts ==
  ASSUME TypeOK, NEW n \in Sessions \X Ids, WriteClose(n)
  PROVE  /\ live' \in [Sessions -> SUBSET Ids]
         /\ \A x \in Sessions : live'[x] \subseteq live[x]
         /\ st[n[1]] = "open" => n[2] \notin live'[n[1]]
BY DEF WriteClose, TypeOK

\* Paying one debt leaves all others.
LEMMA DebtPaid ==
  ASSUME NEW f \in [Sessions -> SUBSET (Sessions \X Ids)], NEW s \in Sessions, NEW n \in f[s],
         NEW g, g = [f EXCEPT ![s] = @ \ {n}]
  PROVE  /\ g \in [Sessions -> SUBSET (Sessions \X Ids)]
         /\ \A y \in Sessions : g[y] \subseteq f[y] /\ \A m \in f[y] : m # n => m \in g[y]
OBVIOUS

\* Writing a close frame keeps it: the debt is paid and an open receiver is told.
LEMMA NotifyStep ==
  ASSUME IInv, NEW s \in Sessions, Notify(s) \/ NotifyPeer(s)
  PROVE  IInv'
<1>1. /\ UNCHANGED <<st, failed, devID, daemons, codes, claimed, streams, pipe, bySess, nextID>>
      /\ UNCHANGED <<waitFor, told, late>>
  BY DEF Notify, NotifyPeer, regVars, strVars
<1>2. /\ live' \in [Sessions -> SUBSET Ids]
      /\ owes' \in [Sessions -> SUBSET (Sessions \X Ids)]
      /\ closeOwes' \in [Sessions -> SUBSET (Sessions \X Ids)]
      /\ \A x \in Sessions :
           /\ live'[x] \subseteq live[x] /\ owes'[x] \subseteq owes[x] /\ closeOwes'[x] \subseteq closeOwes[x]
           /\ \A i \in live'[x] : st[x] = "open" =>
                \A y \in Sessions : <<x, i>> \in owes[y] \cup closeOwes[y]
                                    => <<x, i>> \in owes'[y] \cup closeOwes'[y]
  <2>1. CASE Notify(s) /\ owes[s] = {}
    BY <2>1 DEF Notify, IInv, TypeOK
  <2>2. CASE Notify(s) /\ owes[s] # {}
    <3>1. PICK n \in owes[s] : /\ WriteClose(n) /\ owes' = [owes EXCEPT ![s] = @ \ {n}]
                               /\ closeOwes' = closeOwes
      BY <2>2 DEF Notify
    <3>2. n \in Sessions \X Ids
      BY DEF IInv, TypeOK
    <3>3. /\ live' \in [Sessions -> SUBSET Ids]
          /\ \A x \in Sessions : live'[x] \subseteq live[x]
          /\ st[n[1]] = "open" => n[2] \notin live'[n[1]]
      BY <3>1, <3>2, WriteCloseFacts DEF IInv
    <3>4. /\ owes' \in [Sessions -> SUBSET (Sessions \X Ids)]
          /\ \A y \in Sessions : owes'[y] \subseteq owes[y] /\ \A m \in owes[y] : m # n => m \in owes'[y]
      BY <3>1, DebtPaid DEF IInv, TypeOK
    <3>5. \A x \in Sessions : \A i \in live'[x] : st[x] = "open" => <<x, i>> # n
      BY <3>2, <3>3
    <3>6. closeOwes' \in [Sessions -> SUBSET (Sessions \X Ids)]
      BY <3>1 DEF IInv, TypeOK
    <3> QED
      BY <3>1, <3>3, <3>4, <3>5, <3>6
  <2>3. CASE NotifyPeer(s)
    <3>1. PICK n \in closeOwes[s] : /\ WriteClose(n) /\ closeOwes' = [closeOwes EXCEPT ![s] = @ \ {n}]
                                    /\ owes' = owes
      BY <2>3 DEF NotifyPeer
    <3>2. n \in Sessions \X Ids
      BY DEF IInv, TypeOK
    <3>3. /\ live' \in [Sessions -> SUBSET Ids]
          /\ \A x \in Sessions : live'[x] \subseteq live[x]
          /\ st[n[1]] = "open" => n[2] \notin live'[n[1]]
      BY <3>1, <3>2, WriteCloseFacts DEF IInv
    <3>4. /\ closeOwes' \in [Sessions -> SUBSET (Sessions \X Ids)]
          /\ \A y \in Sessions : closeOwes'[y] \subseteq closeOwes[y] /\ \A m \in closeOwes[y] : m # n => m \in closeOwes'[y]
      BY <3>1, DebtPaid DEF IInv, TypeOK
    <3>5. \A x \in Sessions : \A i \in live'[x] : st[x] = "open" => <<x, i>> # n
      BY <3>2, <3>3
    <3>6. owes' \in [Sessions -> SUBSET (Sessions \X Ids)]
      BY <3>1 DEF IInv, TypeOK
    <3> QED
      BY <3>1, <3>3, <3>4, <3>5, <3>6
  <2> QED
    BY <2>1, <2>2, <2>3
<1>3. /\ pc' \in [Sessions -> {"idle"} \cup FrameLabels \cup Inside]
      /\ arg' \in [Sessions -> Ids \cup Codes \cup DevIDs \cup {None}]
      /\ \/ UNCHANGED <<pc, arg>>
         \/ /\ \A y \in Sessions \ {s} : pc'[y] = pc[y] /\ arg'[y] = arg[y]
            /\ pc[s] = "notify" /\ pc'[s] = "idle" /\ owes'[s] = {}
  BY DEF Notify, NotifyPeer, Return, IInv, TypeOK
<1>4. TypeOK'
  BY <1>1, <1>2, <1>3 DEF IInv, TypeOK
<1>5. HandlerArgs'
  BY <1>1, <1>3 DEF IInv, HandlerArgs, Known
<1>6. IdsKnown' /\ OwnStreamsOnly'
  BY <1>1, <1>2 DEF IInv, IdsKnown, OwnStreamsOnly, Known, Ends
<1>7. CapsOnLists' /\ StreamsListed'
  BY <1>1 DEF IInv, CapsOnLists, MaxStreams, StreamsListed, Ends
<1>8. OpenersInFlight'
  <2> SUFFICES ASSUME NEW i \in streams
               PROVE  LET c == pipe[i].client IN
                      /\ st[c] = "closed" => pc'[c] \in Openers /\ arg'[c] = i
                      /\ st[pipe[i].daemon] = "closed" => pc'[c] \in {"openDaemon", "drop"} /\ arg'[c] = i
    BY <1>1 DEF OpenersInFlight, Openers
  <2>1. pipe[i].client \in Sessions
    BY DEF IInv, TypeOK, StreamsListed, Pipe, Sessions
  <2> QED
    BY <1>3, <2>1 DEF IInv, OpenersInFlight, Openers
<1>9. DebtsHaveDebtors'
  BY <1>1, <1>2, <1>3 DEF IInv, DebtsHaveDebtors
<1>10. ClosedStreamsAnnounced'
  <2> SUFFICES ASSUME NEW x \in Sessions, NEW i \in live'[x] \ (streams \cup late), st[x] = "open"
               PROVE  \E y \in Sessions : <<x, i>> \in owes'[y] \cup closeOwes'[y]
    BY <1>1 DEF ClosedStreamsAnnounced, Owed
  <2>1. i \in live[x]
    BY <1>2
  <2>2. PICK y \in Sessions : <<x, i>> \in owes[y] \cup closeOwes[y]
    BY <2>1 DEF IInv, ClosedStreamsAnnounced, Owed
  <2> QED
    BY <1>2, <2>2
<1> QED
  BY <1>4, <1>5, <1>6, <1>7, <1>8, <1>9, <1>10 DEF IInv

\* handleData keeps it, for a known stream and for a late packet.
LEMMA DataStep ==
  ASSUME IInv, NEW s \in Sessions, HandleData(s)
  PROVE  IInv'
<1>0. arg[s] \in Known /\ pc[s] = "data" /\ owes[s] = {}
  BY DEF HandleData, IInv, HandlerArgs, DebtsHaveDebtors
<1>1. CASE arg[s] \in streams
  <2>1. RegTypes'
    BY <1>1 DEF HandleData, IInv, TypeOK, RegTypes, regVars
  <2>2. pc[s] \notin Openers \cup {"notify"} /\ st' = st /\ Goto(s, "dataWrite")
        /\ UNCHANGED <<strVars, owes, closeOwes, endVars>>
    BY <1>0, <1>1 DEF HandleData, Openers
  <2> QED
    BY <1>0, <2>1, <2>2, HandlerFrame
<1>2. CASE arg[s] \notin streams
  <2>1. /\ UNCHANGED <<st, failed, devID, daemons, codes, claimed, streams, pipe, bySess, nextID>>
        /\ UNCHANGED <<arg, waitFor, closeOwes, told, live, late>>
        /\ pc' = [pc EXCEPT ![s] = "notify"]
        /\ owes' = [owes EXCEPT ![s] = {<<s, arg[s]>>}]
    BY <1>2 DEF HandleData, Goto, regVars, strVars, endVars
  <2>2. TypeOK'
    <3>1. <<s, arg[s]>> \in Sessions \X Ids
      BY <1>0 DEF IInv, TypeOK, Known, Ids
    <3>2. owes' \in [Sessions -> SUBSET (Sessions \X Ids)]
      BY <2>1, <3>1 DEF IInv, TypeOK
    <3>3. pc' \in [Sessions -> {"idle"} \cup FrameLabels \cup Inside]
      BY <2>1 DEF IInv, TypeOK, Inside
    <3> QED
      BY <2>1, <3>2, <3>3 DEF IInv, TypeOK
  <2>3. HandlerArgs' /\ IdsKnown' /\ OwnStreamsOnly' /\ CapsOnLists' /\ StreamsListed'
    BY <2>1 DEF IInv, TypeOK, HandlerArgs, IdsKnown, Known, OwnStreamsOnly, Ends, CapsOnLists,
                MaxStreams, StreamsListed
  <2>4. OpenersInFlight'
    BY <1>0, <2>1 DEF IInv, TypeOK, OpenersInFlight
  <2>5. DebtsHaveDebtors'
    BY <2>1 DEF IInv, TypeOK, DebtsHaveDebtors
  <2>6. ClosedStreamsAnnounced'
    <3>1. \A y \in Sessions : owes[y] \subseteq owes'[y]
      BY <1>0, <2>1 DEF IInv, TypeOK
    <3> QED
      BY <2>1, <3>1 DEF IInv, ClosedStreamsAnnounced, Owed
  <2> QED
    BY <2>2, <2>3, <2>4, <2>5, <2>6 DEF IInv
<1> QED
  BY <1>1, <1>2

(***************************************************************************)
(* onSessionClose                                                          *)
(***************************************************************************)
LEMMA SessionCloseStep ==
  ASSUME IInv, NEW s \in Sessions, OnSessionClose(s)
  PROVE  IInv'
<1>1. PICK dead : dead = bySess[s] \cap streams
  OBVIOUS
<1>2. PICK debts : debts = {<<PeerOf(s, id), id>> : id \in dead}
  OBVIOUS
<1>3. /\ st[s] = "closing" /\ st' = [st EXCEPT ![s] = "closed"]
      /\ streams' = streams \ dead
      /\ bySess' = [bySess EXCEPT ![s] = {}]
      /\ closeOwes' = [closeOwes EXCEPT ![s] = debts]
      /\ UNCHANGED <<failed, devID, pipe, nextID, pc, arg, waitFor, owes, told, live, late>>
  BY <1>1, <1>2 DEF OnSessionClose, endVars
<1>4. \A id \in streams : /\ id \in Ids /\ pipe[id] \in Pipe /\ Ends(id) \subseteq Sessions
                          /\ \A x \in Ends(id) : id \in bySess[x]
                          /\ id \in dead => s \in Ends(id)
                          /\ s \in Ends(id) => id \in dead
  <2> SUFFICES ASSUME NEW id \in streams
               PROVE  /\ id \in Ids /\ pipe[id] \in Pipe /\ Ends(id) \subseteq Sessions
                      /\ \A x \in Ends(id) : id \in bySess[x]
                      /\ id \in dead => s \in Ends(id)
                      /\ s \in Ends(id) => id \in dead
    OBVIOUS
  <2>1. id \in Ids /\ pipe[id] \in Pipe
    BY DEF IInv, TypeOK, StreamsListed
  <2>2. Ends(id) \subseteq Sessions
    BY <2>1 DEF Ends, Pipe, Sessions
  <2>3. \A x \in Ends(id) : id \in bySess[x]
    BY DEF IInv, StreamsListed
  <2>4. id \in dead => s \in Ends(id)
    BY <1>1 DEF IInv, OwnStreamsOnly
  <2> QED
    BY <1>1, <2>1, <2>2, <2>3, <2>4
<1>5. debts \subseteq Sessions \X Ids
  <2>1. \A id \in dead : PeerOf(s, id) \in Sessions /\ id \in Ids
    BY <1>1, <1>4 DEF PeerOf, Pipe, Sessions
  <2> QED
    BY <1>2, <2>1
<1>6. /\ codes' \in [Codes -> CodeEntry \cup {None}]
      /\ daemons' \in [DevIDs -> DaemonSess \cup {None}]
      /\ claimed' \in [Clients -> DevIDs \cup {None}]
  <2>1. PICK dev : /\ codes' = [c \in Codes |-> IF codes[c] # None /\ codes[c].dev = dev THEN None ELSE codes[c]]
                   /\ daemons' = [d \in DevIDs |-> IF d = dev /\ daemons[d] = s THEN None ELSE daemons[d]]
    BY DEF OnSessionClose
  <2>2. claimed' = IF s \in Clients THEN [claimed EXCEPT ![s] = None] ELSE claimed
    BY DEF OnSessionClose
  <2> QED
    BY <2>1, <2>2 DEF IInv, TypeOK
<1>7. TypeOK'
  <2>1. closeOwes' \in [Sessions -> SUBSET (Sessions \X Ids)]
    BY <1>3, <1>5 DEF IInv, TypeOK
  <2>2. /\ st' \in [Sessions -> {"new", "open", "broken", "closing", "closed"}]
        /\ bySess' \in [Sessions -> SUBSET Ids] /\ streams' \subseteq Ids
    BY <1>3 DEF IInv, TypeOK
  <2> QED
    BY <1>3, <1>6, <2>1, <2>2 DEF IInv, TypeOK
<1>8. HandlerArgs'
  BY <1>3 DEF IInv, HandlerArgs, Known
<1>9. \A x \in Sessions : bySess'[x] \subseteq bySess[x] /\ (x # s => bySess'[x] = bySess[x])
  BY <1>3 DEF IInv, TypeOK
<1>10. IdsKnown'
  BY <1>3, <1>9 DEF IInv, IdsKnown, Known
<1>11. OwnStreamsOnly'
  BY <1>3, <1>9 DEF IInv, OwnStreamsOnly, Ends
<1>12. CapsOnLists'
  BY <1>9, ListsShrink DEF IInv, CapsOnLists, MaxStreams
<1>a. \A i \in streams' : i \in streams /\ s \notin Ends(i) /\ Ends(i) \subseteq Sessions
  <2>1. \A i \in streams' : i \in streams /\ i \notin dead
    BY <1>3
  <2>2. \A i \in streams : Ends(i) \subseteq Sessions
    BY <1>4
  <2>3. \A i \in streams : s \in Ends(i) => i \in dead
    BY <1>4
  <2> QED
    BY <2>1, <2>2, <2>3
<1>13. StreamsListed'
  <2> SUFFICES ASSUME NEW i \in streams'
               PROVE  pipe[i] # None /\ \A x \in Ends(i) : i \in bySess'[x]
    BY <1>3 DEF StreamsListed, Ends
  <2>1. pipe[i] # None /\ \A x \in Ends(i) : i \in bySess[x]
    BY <1>a DEF IInv, StreamsListed
  <2> QED
    BY <1>a, <1>9, <2>1
<1>14. OpenersInFlight'
  <2> SUFFICES ASSUME NEW i \in streams'
               PROVE  LET c == pipe[i].client IN
                      /\ st'[c] = "closed" => pc[c] \in Openers /\ arg[c] = i
                      /\ st'[pipe[i].daemon] = "closed" => pc[c] \in {"openDaemon", "drop"} /\ arg[c] = i
    BY <1>3 DEF OpenersInFlight, Openers
  <2>1. i \in streams /\ s # pipe[i].client /\ s # pipe[i].daemon
    BY <1>a DEF Ends
  <2>2. st'[pipe[i].client] = st[pipe[i].client] /\ st'[pipe[i].daemon] = st[pipe[i].daemon]
    BY <1>3, <1>4, <2>1 DEF IInv, TypeOK, Ends
  <2> QED
    BY <2>1, <2>2 DEF IInv, OpenersInFlight, Openers
<1>15. DebtsHaveDebtors'
  BY <1>3 DEF IInv, TypeOK, DebtsHaveDebtors
<1>16. ClosedStreamsAnnounced'
  <2> SUFFICES ASSUME NEW x \in Sessions, NEW i \in live[x] \ (streams' \cup late), st'[x] = "open"
               PROVE  \E y \in Sessions : <<x, i>> \in owes[y] \cup closeOwes'[y]
    BY <1>3 DEF ClosedStreamsAnnounced, Owed
  <2>1. x # s /\ st[x] = "open"
    BY <1>3 DEF IInv, TypeOK
  <2>2. closeOwes[s] = {} /\ closeOwes'[s] = debts
        /\ \A y \in Sessions : closeOwes[y] \subseteq closeOwes'[y]
    BY <1>3 DEF IInv, TypeOK, DebtsHaveDebtors
  <2>3. CASE i \in dead
    <3>1. x \in Ends(i) /\ s \in Ends(i)
      BY <1>1, <1>4, <2>3 DEF IInv, OwnStreamsOnly
    <3>2. x = PeerOf(s, i)
      BY <2>1, <3>1 DEF PeerOf, Ends
    <3>3. <<x, i>> \in closeOwes'[s]
      BY <1>2, <2>2, <2>3, <3>2
    <3> QED
      BY <3>3
  <2>4. CASE i \notin streams
    <3>1. PICK y \in Sessions : <<x, i>> \in owes[y] \cup closeOwes[y]
      BY <2>1, <2>4 DEF IInv, ClosedStreamsAnnounced, Owed
    <3> QED
      BY <2>2, <3>1
  <2> QED
    BY <1>3, <2>3, <2>4
<1> QED
  BY <1>7, <1>8, <1>10, <1>11, <1>12, <1>13, <1>14, <1>15, <1>16 DEF IInv

(***************************************************************************)
(* The invariant and what follows from it                                  *)
(***************************************************************************)
LEMMA NextIInv == IInv /\ [Next]_vars => IInv'
<1> SUFFICES ASSUME IInv, [Next]_vars PROVE IInv'
  OBVIOUS
<1>1. CASE UNCHANGED vars
  <2>1. /\ UNCHANGED <<st, failed, devID, daemons, codes, claimed, streams, pipe, bySess, nextID>>
        /\ UNCHANGED <<pc, arg, waitFor, owes, closeOwes, told, live, late>>
    BY <1>1 DEF vars, regVars, strVars, endVars
  <2>2. TypeOK'
    BY <2>1 DEF IInv, TypeOK
  <2>3. HandlerArgs' /\ DebtsHaveDebtors'
    BY <2>1 DEF IInv, HandlerArgs, DebtsHaveDebtors, Known
  <2> QED
    BY <2>1, <2>2, <2>3, FrameStep DEF strVars
<1>2. CASE \E c \in Codes : ExpireCode(c)
  BY <1>2, ExpireStep
<1>3. ASSUME NEW s \in Sessions, EnvStep(s) PROVE IInv'
  BY <1>3, ConnectionStep, ReadFrameStep DEF EnvStep
<1>4. ASSUME NEW s \in Sessions, HandlerStep(s) PROVE IInv'
  BY <1>4, RegisterStep, CodeStep, ClaimStep, LookupStep, OpenStep, OpenWriteStep, DropStep, NotifyStep,
     DataStep DEF HandlerStep
<1>5. ASSUME NEW s \in Sessions, CloserStep(s) PROVE IInv'
  BY <1>5, SessionCloseStep, NotifyStep DEF CloserStep
<1> QED
  BY <1>1, <1>2, <1>3, <1>4, <1>5 DEF Next

\* IInv holds in every reachable state of the hub.
THEOREM InductiveInvariant == Spec => []IInv
<1>1. Init => IInv
  BY InitIInv
<1>2. IInv /\ [Next]_vars => IInv'
  BY NextIInv
<1> QED
  BY <1>1, <1>2, PTL DEF Spec

\* The hub's variables keep their types: in particular every table entry
\* that handlers dereference (pipes, daemons, codes) is one of theirs.
THEOREM TypeCorrect == Spec => []TypeOK
<1>1. IInv => TypeOK
  BY DEF IInv
<1> QED
  BY <1>1, InductiveInvariant, PTL

\* handleOpen, dropStream and onSessionClose keep Hub.streams and Hub.bySess
\* together: a live stream is in the lists of both of its ends.
THEOREM StreamsAreListed == Spec => []StreamsListed
<1>1. IInv => StreamsListed
  BY DEF IInv
<1> QED
  BY <1>1, InductiveInvariant, PTL

\* The check-then-add of handleOpen under Hub.mu keeps every session's live
\* streams within its cap.
THEOREM CapsAreKept == Spec => []CapsHold
<1>1. IInv => CapsHold
  <2> SUFFICES ASSUME IInv, NEW s \in Sessions
               PROVE  Cardinality({id \in streams : s \in Ends(id)}) <= MaxStreams(s)
    BY DEF CapsHold
  <2>1. {id \in streams : s \in Ends(id)} \in SUBSET bySess[s]
    BY DEF IInv, StreamsListed
  <2> QED
    BY <2>1, ListsShrink DEF IInv
<1> QED
  BY <1>1, InductiveInvariant, PTL

\* A stream added after the on-close callback of one of its ends ran is
\* still in the hands of the handleOpen that will drop it.
THEOREM DeadSessionsHoldNoStream == Spec => []NoStreamOnDeadSession
<1>1. IInv => NoStreamOnDeadSession
  BY DEF IInv, NoStreamOnDeadSession, OpenersInFlight, Ends
<1> QED
  BY <1>1, InductiveInvariant, PTL

\* dropStream, handleClose and onSessionClose leave no connected end with a
\* dropped stream and nobody about to tell it.
THEOREM DropsAreAnnounced == Spec => []ClosedStreamsAnnounced
<1>1. IInv => ClosedStreamsAnnounced
  BY DEF IInv
<1> QED
  BY <1>1, InductiveInvariant, PTL

(***************************************************************************)
(* Claims                                                                  *)
(***************************************************************************)

\* Steps that add no code entry and begin no registration keep CodeOwners.
LEMMA CodesShrink ==
  ASSUME CodeOwners, UNCHANGED devID,
         \A d \in DaemonSess : pc'[d] \in {"reg", "regWait"} =>
           pc[d] \in {"reg", "regWait"} /\ arg'[d] = arg[d],
         \A c \in Codes : codes'[c] # None =>
           codes[c] # None /\ codes'[c].dev = codes[c].dev /\ codes'[c].by = codes[c].by
  PROVE  CodeOwners'
BY DEF CodeOwners

\* The handlers that leave registrations, codes and claims alone.
OtherHandler(s) ==
  \/ HandleBad(s)
  \/ s \in DaemonSess /\ HandleAccept(s)
  \/ s \in Clients /\ (HandleOpen(s) \/ OpenToDaemon(s) \/ OpenToClient(s))
  \/ HandleClose(s) \/ CloseDrop(s) \/ HandleData(s) \/ DataWrite(s) \/ Drop(s) \/ Notify(s)

\* They neither change the tables nor enter a registration.
LEMMA OtherHandlerFacts ==
  ASSUME TypeOK, NEW s \in Sessions, OtherHandler(s)
  PROVE  /\ UNCHANGED <<devID, daemons, codes, claimed>>
         /\ \A d \in Sessions : pc'[d] \in {"reg", "regWait"} => pc[d] = pc'[d] /\ arg'[d] = arg[d]
<1>1. UNCHANGED <<devID, daemons, codes, claimed>>
  BY DEF OtherHandler, HandleBad, HandleAccept, HandleOpen, OpenToDaemon, OpenToClient, HandleClose, CloseDrop,
         HandleData, DataWrite, Drop, Notify, DropStream, regVars
<1>2. \/ UNCHANGED <<pc, arg>>
      \/ Return(s)
      \/ \E l \in Inside \ {"regWait"} : pc' = [pc EXCEPT ![s] = l] /\ \A d \in Sessions \ {s} : arg'[d] = arg[d]
  <2>1. CASE HandleBad(s) \/ HandleAccept(s) \/ HandleClose(s)
    BY <2>1 DEF HandleBad, HandleAccept, HandleClose, Fail, Goto, Inside
  <2>2. CASE HandleOpen(s)
    BY <2>2 DEF HandleOpen, Fail, Inside, TypeOK
  <2>3. CASE OpenToDaemon(s) \/ OpenToClient(s) \/ DataWrite(s) \/ HandleData(s)
    BY <2>3 DEF OpenToDaemon, OpenToClient, DataWrite, WriteFails, HandleData, Goto, Inside
  <2>4. CASE CloseDrop(s) \/ Drop(s) \/ Notify(s)
    BY <2>4 DEF CloseDrop, Drop, DropStream, Notify, Goto, Inside
  <2> QED
    BY <2>1, <2>2, <2>3, <2>4 DEF OtherHandler
<1> QED
  BY <1>1, <1>2 DEF Return, TypeOK, Inside

\* CodeOwners is kept by every step.
LEMMA CodeOwnersStep == IInv /\ CodeOwners /\ [Next]_vars => CodeOwners'
<1> SUFFICES ASSUME IInv, CodeOwners, [Next]_vars PROVE CodeOwners'
  OBVIOUS
<1>0. DaemonSess \subseteq Sessions
  BY DEF Sessions
<1>1. CASE UNCHANGED vars
  BY <1>1 DEF CodeOwners, vars, regVars
<1>2. ASSUME NEW c \in Codes, ExpireCode(c) PROVE CodeOwners'
  <2>1. codes[c] \in CodeEntry /\ codes' = [codes EXCEPT ![c].fresh = FALSE] /\ UNCHANGED <<devID, pc, arg>>
    BY <1>2 DEF ExpireCode, Fresh, IInv, TypeOK
  <2>2. \A k \in Codes : codes'[k] # None =>
          codes[k] # None /\ codes'[k].dev = codes[k].dev /\ codes'[k].by = codes[k].by
    BY <2>1 DEF IInv, TypeOK, CodeEntry
  <2> QED
    BY <2>1, <2>2, CodesShrink
<1>3. ASSUME NEW s \in Sessions, Connect(s) \/ Break(s) \/ CloseSession(s) \/ NotifyPeer(s) PROVE CodeOwners'
  BY <1>3 DEF Connect, Break, CloseSession, NotifyPeer, regVars, CodeOwners
<1>4. ASSUME NEW s \in Sessions, ReadFrame(s) PROVE CodeOwners'
  <2>1. PICK f \in Frames(s) : pc' = [pc EXCEPT ![s] = f.t] /\ arg' = [arg EXCEPT ![s] = f.a]
    BY <1>4 DEF ReadFrame
  <2>2. f.t # "regWait" /\ (f.t = "reg" => s \in DaemonSess /\ f.a = DevOf[s])
    BY DEF Frames, ClientFrames, DaemonFrames, Frame, Sessions
  <2>3. UNCHANGED <<devID, codes>>
    BY <1>4 DEF ReadFrame, regVars
  <2> QED
    BY <1>0, <2>1, <2>2, <2>3 DEF CodeOwners, IInv, TypeOK
<1>5. ASSUME NEW s \in DaemonSess, HandleReg(s) \/ FinishReg(s) PROVE CodeOwners'
  <2>1. arg[s] = DevOf[s]
    BY <1>5 DEF HandleReg, FinishReg, CodeOwners
  <2>2. codes' = codes /\ (Register(s) \/ (Goto(s, "regWait") /\ devID' = devID))
    BY <1>5 DEF HandleReg, FinishReg, Register, regVars
  <2>3. CASE Register(s)
    BY <1>0, <2>1, <2>2, <2>3 DEF Register, Return, CodeOwners, IInv, TypeOK
  <2>4. CASE Goto(s, "regWait") /\ devID' = devID
    BY <1>0, <2>1, <2>2, <2>4 DEF Goto, CodeOwners, IInv, TypeOK
  <2> QED
    BY <2>2, <2>3, <2>4
<1>6. ASSUME NEW s \in DaemonSess, HandleCode(s) PROVE CodeOwners'
  <2>1. Return(s) /\ devID' = devID
    BY <1>6 DEF HandleCode, Fail, regVars
  <2>2. \A c \in Codes : codes'[c] # None => codes'[c].dev = DevOf[codes'[c].by]
    <3>1. CASE devID[s] = None
      BY <1>6, <3>1 DEF HandleCode, regVars, CodeOwners
    <3>2. CASE devID[s] # None
      <4>1. devID[s] = DevOf[s]
        BY <3>2 DEF CodeOwners
      <4>2. \A c \in Codes : codes'[c] \in {[dev |-> devID[s], by |-> s, fresh |-> TRUE], codes[c], None}
        BY <1>6, <3>2 DEF HandleCode
      <4> QED
        BY <4>1, <4>2 DEF CodeOwners
    <3> QED
      BY <3>1, <3>2
  <2> QED
    BY <1>0, <2>1, <2>2 DEF Return, CodeOwners, IInv, TypeOK
<1>7. ASSUME NEW s \in Clients, HandleClaim(s) PROVE CodeOwners'
  <2>1. Return(s) /\ devID' = devID /\ (codes' = codes \/ codes' = [codes EXCEPT ![arg[s]] = None])
    BY <1>7 DEF HandleClaim, Fail, regVars
  <2>2. s \in Sessions
    BY DEF Sessions
  <2> QED
    BY <1>0, <2>1, <2>2, CodesShrink DEF Return, IInv, TypeOK
<1>8. ASSUME NEW s \in Sessions, OnSessionClose(s) PROVE CodeOwners'
  <2>1. UNCHANGED <<devID, pc, arg>> /\ \A c \in Codes : codes'[c] \in {None, codes[c]}
    BY <1>8 DEF OnSessionClose
  <2> QED
    BY <2>1, CodesShrink
<1>9. ASSUME NEW s \in Sessions, OtherHandler(s) PROVE CodeOwners'
  BY <1>0, <1>9, OtherHandlerFacts, CodesShrink DEF IInv
<1> QED
  BY <1>1, <1>2, <1>3, <1>4, <1>5, <1>6, <1>7, <1>8, <1>9
     DEF Next, EnvStep, HandlerStep, CloserStep, OtherHandler

\* What ClaimBindsOnce says of one step.
ClaimStepOK ==
  \A s \in Clients : claimed'[s] \notin {None, claimed[s]} =>
    \E c \in Codes :
      /\ codes[c] # None /\ codes[c].fresh
      /\ codes[c].dev = claimed'[s]
      /\ DevOf[codes[c].by] = claimed'[s]
      /\ codes'[c] = None

\* Only handleClaim binds a client, and it uses up the code.
LEMMA ClaimsAreBacked == IInv /\ CodeOwners /\ [Next]_vars => [ClaimStepOK]_vars
<1> SUFFICES ASSUME IInv, CodeOwners, Next PROVE ClaimStepOK
  OBVIOUS
<1>1. ASSUME NEW s \in Clients, HandleClaim(s) PROVE ClaimStepOK
  <2>0. arg[s] \in Codes /\ s \in Sessions
    BY <1>1 DEF HandleClaim, IInv, HandlerArgs, Sessions
  <2>1. CASE claimed' = claimed
    BY <2>1 DEF ClaimStepOK
  <2>2. CASE /\ Fresh(arg[s])
             /\ codes' = [codes EXCEPT ![arg[s]] = None]
             /\ claimed' = [claimed EXCEPT ![s] = codes[arg[s]].dev]
    <3> SUFFICES ASSUME NEW x \in Clients, claimed'[x] \notin {None, claimed[x]}
                 PROVE  \E c \in Codes :
                          /\ codes[c] # None /\ codes[c].fresh
                          /\ codes[c].dev = claimed'[x]
                          /\ DevOf[codes[c].by] = claimed'[x]
                          /\ codes'[c] = None
      BY DEF ClaimStepOK
    <3>1. x = s /\ claimed'[x] = codes[arg[s]].dev
      BY <2>2 DEF IInv, TypeOK
    <3>2. /\ codes[arg[s]] # None /\ codes[arg[s]].fresh
          /\ codes'[arg[s]] = None /\ codes[arg[s]].dev = DevOf[codes[arg[s]].by]
      BY <2>0, <2>2 DEF Fresh, CodeOwners, IInv, TypeOK
    <3> QED
      BY <2>0, <3>1, <3>2
  <2> QED
    BY <1>1, <2>1, <2>2 DEF HandleClaim, regVars
<1>2. ASSUME NEW s \in Sessions, OnSessionClose(s) PROVE ClaimStepOK
  <2>1. \A x \in Clients : claimed'[x] \in {None, claimed[x]}
    BY <1>2 DEF OnSessionClose, IInv, TypeOK
  <2> QED
    BY <2>1 DEF ClaimStepOK
<1>3. ASSUME NEW s \in Sessions, OtherHandler(s) PROVE ClaimStepOK
  BY <1>3, OtherHandlerFacts DEF IInv, ClaimStepOK
<1>4. ASSUME NEW s \in Sessions, EnvStep(s) \/ NotifyPeer(s) PROVE ClaimStepOK
  BY <1>4 DEF EnvStep, Connect, Break, CloseSession, ReadFrame, NotifyPeer, regVars, ClaimStepOK
<1>5. ASSUME NEW s \in DaemonSess, HandleReg(s) \/ FinishReg(s) \/ HandleCode(s) PROVE ClaimStepOK
  BY <1>5 DEF HandleReg, FinishReg, Register, HandleCode, regVars, ClaimStepOK
<1>6. ASSUME NEW c \in Codes, ExpireCode(c) PROVE ClaimStepOK
  BY <1>6 DEF ExpireCode, ClaimStepOK
<1> QED
  BY <1>1, <1>2, <1>3, <1>4, <1>5, <1>6
     DEF Next, HandlerStep, CloserStep, OtherHandler

\* handleClaim is the only way to a device: whatever sessions and codes
\* there are, a client gets bound only by using up an unexpired code that a
\* session registered under this very devId advertised.
THEOREM ClaimsBindOnce == Spec => ClaimBindsOnce
<1>1. Init => CodeOwners
  <2> SUFFICES ASSUME Init PROVE CodeOwners
    OBVIOUS
  <2>1. \A s \in DaemonSess : s \in Sessions /\ devID[s] = None /\ pc[s] = "idle"
    BY DEF Init, Sessions
  <2>2. \A c \in Codes : codes[c] = None
    BY DEF Init
  <2> QED
    BY <2>1, <2>2 DEF CodeOwners
<1>2. IInv /\ CodeOwners /\ [Next]_vars => CodeOwners'
  BY CodeOwnersStep
<1>3. IInv /\ CodeOwners /\ [Next]_vars => [ClaimStepOK]_vars
  BY ClaimsAreBacked
<1>4. Spec => [][ClaimStepOK]_vars
  BY <1>1, <1>2, <1>3, InductiveInvariant, PTL DEF Spec
<1> QED
  BY <1>4 DEF ClaimBindsOnce, ClaimStepOK

(***************************************************************************)
(* The refinement: every step of the hub is a step of Tunnels or leaves    *)
(* the streams alone.                                                      *)
(***************************************************************************)

\* The instance brings its own copy of Cardinality.
LEMMA SameCardinality == ASSUME NEW S PROVE T!Cardinality(S) = Cardinality(S)
  BY DEF T!Cardinality, Cardinality

\* The lists the caps are counted on hold every stream of the session, so a
\* session below its cap in handleOpen has room for one more tunnel.
LEMMA RoomOnLists ==
  ASSUME IInv, NEW s \in Sessions, ~AtCap(s)
  PROVE  Cardinality(T!TunnelsOf(s)) < MaxStreams(s)
<1>1. T!TunnelsOf(s) \subseteq bySess[s]
  BY DEF IInv, StreamsListed, Ends, T!TunnelsOf
<1>2. IsFiniteSet(bySess[s])
  BY ListsFinite DEF IInv
<1>3. Cardinality(T!TunnelsOf(s)) <= Cardinality(bySess[s]) /\ IsFiniteSet(T!TunnelsOf(s))
  BY <1>1, <1>2, FS_Subset
<1>4. Cardinality(T!TunnelsOf(s)) \in Nat /\ Cardinality(bySess[s]) \in Nat /\ MaxStreams(s) \in Nat
  BY <1>2, <1>3, FS_CardinalityType DEF MaxStreams
<1> QED
  BY <1>3, <1>4 DEF AtCap

\* handleOpen's accepted branch digs a tunnel between two ends with room.
LEMMA OpenDigs ==
  ASSUME IInv, NEW s \in Clients, HandleOpen(s)
  PROVE  T!TunnelNext \/ UNCHANGED <<nextID, streams, pipe>>
<1>1. CASE OpenRefusal(s) # "none"
  BY <1>1 DEF HandleOpen, Fail, strVars
<1>2. CASE OpenRefusal(s) = "none"
  <2> DEFINE d == daemons[Target(s)]
             p == [client |-> s, daemon |-> d]
  <2>1. s \in Sessions /\ arg[s] \in DevIDs \cup {None}
    BY DEF HandleOpen, IInv, HandlerArgs, Sessions
  <2>2. Target(s) # None /\ ~AtCap(s) /\ d # None /\ ~AtCap(d)
    BY <1>2 DEF OpenRefusal
  <2>3. Target(s) \in DevIDs
    BY <2>1, <2>2 DEF Target, IInv, TypeOK
  <2>4. d \in DaemonSess /\ d \in Sessions
    BY <2>2, <2>3 DEF IInv, TypeOK, Sessions
  <2>5. p \in Pipe /\ p.client = s /\ p.daemon = d
    BY <2>4 DEF Pipe
  <2>6. nextID + 1 \in DOMAIN pipe
    BY <1>2 DEF HandleOpen, IInv, TypeOK, Ids
  <2>7. /\ nextID' = nextID + 1
        /\ streams' = streams \cup {nextID + 1}
        /\ pipe' = [pipe EXCEPT ![nextID + 1] = p]
    BY <1>2 DEF HandleOpen, AddStream
  <2>8. \A x \in {p.client, p.daemon} : Cardinality(T!TunnelsOf(x)) < MaxStreams(x)
    BY <2>1, <2>2, <2>4, <2>5, RoomOnLists
  <2> HIDE DEF p
  <2>9. T!Dig(p)
    BY <2>6, <2>7, <2>8, SameCardinality DEF T!Dig
  <2> QED
    BY <2>5, <2>9 DEF T!TunnelNext
<1> QED
  BY <1>1, <1>2

\* dropStream fills the tunnel, or finds that it is gone already.
LEMMA DropFills ==
  ASSUME NEW s \in Sessions, Drop(s) \/ CloseDrop(s)
  PROVE  T!TunnelNext \/ UNCHANGED <<nextID, streams, pipe>>
<1>1. streams' = streams \ {arg[s]} /\ UNCHANGED <<nextID, pipe>>
  BY DEF Drop, CloseDrop, DropStream
<1>2. CASE arg[s] \in streams
  BY <1>1, <1>2 DEF T!TunnelNext, T!Fill
<1>3. CASE arg[s] \notin streams
  BY <1>1, <1>3
<1> QED
  BY <1>2, <1>3

\* onSessionClose fills the tunnels of its session: its list has them all,
\* and no others.
LEMMA CloseFillsAll ==
  ASSUME IInv, NEW s \in Sessions, OnSessionClose(s)
  PROVE  T!TunnelNext
<1>1. T!TunnelsOf(s) = bySess[s] \cap streams
  BY DEF IInv, StreamsListed, OwnStreamsOnly, Ends, T!TunnelsOf
<1>2. streams' = streams \ (bySess[s] \cap streams) /\ UNCHANGED <<nextID, pipe>>
  BY DEF OnSessionClose
<1> QED
  BY <1>1, <1>2 DEF T!TunnelNext, T!FillAllOf

\* One step of the hub, seen from outside.
LEMMA StepRefines == IInv /\ [Next]_vars => [T!TunnelNext]_T!tunnelVars
<1> SUFFICES ASSUME IInv, Next PROVE T!TunnelNext \/ UNCHANGED <<nextID, streams, pipe>>
  BY DEF vars, strVars, T!tunnelVars
<1>1. ASSUME NEW s \in Clients, HandleOpen(s) PROVE T!TunnelNext \/ UNCHANGED <<nextID, streams, pipe>>
  BY <1>1, OpenDigs
<1>2. ASSUME NEW s \in Sessions, Drop(s) \/ CloseDrop(s)
      PROVE  T!TunnelNext \/ UNCHANGED <<nextID, streams, pipe>>
  BY <1>2, DropFills
<1>3. ASSUME NEW s \in Sessions, OnSessionClose(s) PROVE T!TunnelNext
  BY <1>3, CloseFillsAll
<1>4. ASSUME NEW s \in Sessions, EnvStep(s) \/ NotifyPeer(s) PROVE UNCHANGED strVars
  BY <1>4 DEF EnvStep, Connect, Break, CloseSession, ReadFrame, NotifyPeer
<1>5. ASSUME NEW s \in Sessions,
             HandleReg(s) \/ FinishReg(s) \/ HandleCode(s) \/ HandleAccept(s) \/ HandleBad(s) \/ HandleClaim(s)
      PROVE  UNCHANGED strVars
  BY <1>5 DEF HandleReg, FinishReg, Register, HandleCode, HandleAccept, HandleBad, HandleClaim, Fail
<1>6. ASSUME NEW s \in Sessions,
             OpenToDaemon(s) \/ OpenToClient(s) \/ HandleClose(s) \/ HandleData(s) \/ DataWrite(s) \/ Notify(s)
      PROVE  UNCHANGED strVars
  BY <1>6 DEF OpenToDaemon, OpenToClient, HandleClose, HandleData, DataWrite, Notify, Fail
<1>7. ASSUME NEW c \in Codes, ExpireCode(c) PROVE UNCHANGED strVars
  BY <1>7 DEF ExpireCode
<1> QED
  BY <1>1, <1>2, <1>3, <1>4, <1>5, <1>6, <1>7
     DEF Next, HandlerStep, CloserStep, Sessions, strVars

\* The hub implements Tunnels for any sessions, devices and caps: whatever
\* handlers, failing writes and disconnects interleave, stream ids are handed
\* out once, the caps hold on the streams themselves, and the end of a session
\* takes exactly its own streams along.
THEOREM HubImplementsTunnels == Spec => ImplementsTunnels
<1>1. Init => T!TunnelInit
  BY DEF Init, T!TunnelInit
<1>2. IInv /\ [Next]_vars => [T!TunnelNext]_T!tunnelVars
  BY StepRefines
<1> QED
  BY <1>1, <1>2, InductiveInvariant, PTL DEF Spec, ImplementsTunnels, T!TunnelSpec
=============================================================================
