-------------------------- MODULE RelayClientProofs --------------------------
(***************************************************************************)
(* For any number of handlers, clients, connections and streams: the only  *)
(* client with a live context is the one Manager holds; what is written to *)
(* a connection follows its handshake; and a local TCP connection that is  *)
(* open is always in its client's map.                                     *)
(***************************************************************************)
EXTENDS RelayClient, TLAPS

Labels == {"new", "loop", "hello", "reg", "online", "serve", "drain",
           "lost", "offline", "backoff", "finish", "done"}

\* The part of the type invariant the argument needs
RunTypes ==
  /\ running \in BOOLEAN
  /\ cur \in Clients \cup {0}
  /\ pc \in [Clients -> Labels]
  /\ canc \in [Clients -> BOOLEAN]

LiveInv == RunTypes /\ OneLiveClient

\* A step of a client's own goroutine moves it on, never back to "new".
Moves(c, l) == pc' = [pc EXCEPT ![c] = l]

\* The invariant survives a step that leaves the manager and the contexts alone
\* and moves a client that was started and has not returned.
LEMMA MoveStep ==
  ASSUME LiveInv, UNCHANGED <<running, cur, canc>>,
         NEW c \in Clients, pc[c] \notin {"new", "done"},
         NEW l \in Labels, Moves(c, l)
  PROVE  LiveInv'
  BY DEF LiveInv, RunTypes, OneLiveClient, Moves

\* Initially no client has been started.
LEMMA InitLive == ClientInit => LiveInv
<1> SUFFICES ASSUME ClientInit PROVE LiveInv
  OBVIOUS
<1>1. running = FALSE /\ cur = 0 /\ pc = [c \in Clients |-> "new"]
      /\ canc = [c \in Clients |-> FALSE]
  BY DEF ClientInit
<1>2. OneLiveClient
  BY <1>1 DEF OneLiveClient
<1>3. RunTypes
  BY <1>1 DEF RunTypes, Labels
<1> QED
  BY <1>2, <1>3 DEF LiveInv

\* Start creates a client only when none is running, so no other one is live.
LEMMA StartStep ==
  ASSUME LiveInv, NEW h \in Handlers, Start(h)
  PROVE  LiveInv'
<1>1. CASE UNCHANGED <<running, cur, mstate, pc, canc>>
  BY <1>1 DEF LiveInv, RunTypes, OneLiveClient
<1>2. CASE ~UNCHANGED <<running, cur, mstate, pc, canc>>
  <2>1. ~running
    BY <1>2 DEF Start, StartsClient
  <2>2. PICK c \in Clients :
          /\ cur' = c /\ pc' = [pc EXCEPT ![c] = "loop"]
          /\ canc' = [canc EXCEPT ![c] = down /\ base' = "main"]
    BY <1>2 DEF Start
  <2>3. running' = TRUE
    BY <1>2 DEF Start
  <2>4. \A d \in Clients : pc[d] \in {"new", "done"} \/ canc[d]
    BY <2>1 DEF LiveInv, OneLiveClient
  <2>5. \A d \in Clients : d # c => pc'[d] = pc[d] /\ canc'[d] = canc[d]
    BY <2>2 DEF LiveInv, RunTypes
  <2>6. OneLiveClient'
    BY <2>2, <2>3, <2>4, <2>5 DEF OneLiveClient
  <2>7. (down /\ base' = "main") \in BOOLEAN
    OBVIOUS
  <2>8. RunTypes'
    BY <2>2, <2>3, <2>7 DEF LiveInv, RunTypes, Labels
  <2> QED
    BY <2>6, <2>8 DEF LiveInv
<1> QED
  BY <1>1, <1>2

\* Stop cancels the manager's client; every other one is cancelled already.
LEMMA StopStep ==
  ASSUME LiveInv, NEW h \in Handlers, Stop(h)
  PROVE  LiveInv'
<1>1. running' = FALSE /\ cur' = 0 /\ pc' = pc
      /\ canc' = IF cur = 0 THEN canc ELSE [canc EXCEPT ![cur] = TRUE]
  BY DEF Stop
<1>2. \A d \in Clients : pc[d] \in {"new", "done"} \/ canc'[d]
  <2>1. CASE cur = 0
    <3>1. \A d \in Clients : cur # d
      BY <2>1, ClientConstants
    <3> QED
      BY <1>1, <2>1, <3>1 DEF LiveInv, OneLiveClient
  <2>2. CASE cur # 0
    <3>1. \A d \in Clients : canc'[d] = IF d = cur THEN TRUE ELSE canc[d]
      BY <1>1, <2>2 DEF LiveInv, RunTypes
    <3> QED
      BY <3>1 DEF LiveInv, OneLiveClient
  <2> QED
    BY <2>1, <2>2
<1>3. canc' \in [Clients -> BOOLEAN]
  BY <1>1 DEF LiveInv, RunTypes
<1> QED
  BY <1>1, <1>2, <1>3 DEF LiveInv, RunTypes, OneLiveClient

\* A shutdown only cancels.
LEMMA ShutdownStep ==
  ASSUME LiveInv, Shutdown
  PROVE  LiveInv'
<1>1. /\ UNCHANGED <<running, cur, pc>>
      /\ canc' = [c \in Clients |-> canc[c] \/ (base = "main" /\ pc[c] # "new")]
  BY DEF Shutdown, mgrVars
<1>2. \A c \in Clients : canc'[c] \in BOOLEAN /\ (canc[c] => canc'[c])
  BY <1>1 DEF LiveInv, RunTypes
<1>3. canc' \in [Clients -> BOOLEAN]
  BY <1>1, <1>2
<1> QED
  BY <1>1, <1>2, <1>3 DEF LiveInv, RunTypes, OneLiveClient

\* The end of Run cancels the client before the manager lets go of it.
LEMMA ReturnStep ==
  ASSUME LiveInv, NEW c \in Clients, RunReturned(c)
  PROVE  LiveInv'
<1>1. /\ pc' = [pc EXCEPT ![c] = "done"] /\ canc' = [canc EXCEPT ![c] = TRUE]
      /\ \/ cur = c /\ cur' = 0 /\ running' = FALSE
         \/ cur # c /\ UNCHANGED <<cur, running>>
  BY DEF RunReturned
<1>2. \A d \in Clients : d # c => pc'[d] = pc[d] /\ canc'[d] = canc[d]
  BY <1>1 DEF LiveInv, RunTypes
<1>3. pc'[c] = "done"
  BY <1>1 DEF LiveInv, RunTypes
<1>4. OneLiveClient'
  BY <1>1, <1>2, <1>3 DEF LiveInv, OneLiveClient
<1>5. RunTypes'
  BY <1>1 DEF LiveInv, RunTypes, Labels
<1> QED
  BY <1>4, <1>5 DEF LiveInv

\* The other steps of Client.Run and runOnce move the client on.
LEMMA RunMoves ==
  ASSUME LiveInv, NEW c \in Clients,
         \/ RunOnce(c) \/ HandshakeStep(c) \/ Online(c) \/ Serve(c)
         \/ Cleanup(c) \/ Lost(c) \/ Offline(c) \/ Backoff(c)
  PROVE  LiveInv'
<1>1. UNCHANGED <<running, cur, canc>>
  BY DEF RunOnce, HandshakeStep, Online, Serve, Cleanup, Lost, Offline, Backoff, mgrVars
<1>2. pc[c] \notin {"new", "done"}
  BY DEF RunOnce, HandshakeStep, Handshake, Online, Serve, Cleanup, Lost, Offline, Backoff
<1>3. \E l \in Labels : Moves(c, l)
  <2>1. CASE RunOnce(c)
    BY <2>1 DEF RunOnce, Goto, Moves, Labels
  <2>2. CASE HandshakeStep(c)
    BY <2>2 DEF HandshakeStep, Handshake, Goto, Moves, Labels
  <2>3. CASE Online(c) \/ Serve(c) \/ Cleanup(c)
    BY <2>3 DEF Online, Serve, Cleanup, Goto, Moves, Labels
  <2>4. CASE Lost(c) \/ Offline(c) \/ Backoff(c)
    BY <2>4 DEF Lost, Offline, Backoff, Goto, Moves, Labels
  <2> QED
    BY <2>1, <2>2, <2>3, <2>4
<1> QED
  BY <1>1, <1>2, <1>3, MoveStep

\* Every step keeps the invariant; readers, pumps, watchers, reports and the
\* network touch neither the manager nor a context.
LEMMA NextLive == LiveInv /\ [ClientNext]_vars => LiveInv'
<1> SUFFICES ASSUME LiveInv, [ClientNext]_vars PROVE LiveInv'
  OBVIOUS
<1>1. CASE UNCHANGED <<running, cur, pc, canc>>
  BY <1>1 DEF LiveInv, RunTypes, OneLiveClient
<1>2. ASSUME NEW h \in Handlers, SetEnabled(h) \/ Start(h) \/ Stop(h) PROVE LiveInv'
  BY <1>1, <1>2, StartStep, StopStep DEF SetEnabled
<1>3. CASE Shutdown
  BY <1>3, ShutdownStep
<1>4. CASE ReportStep
  BY <1>1, <1>4 DEF ReportStep, mgrVars
<1>5. ASSUME NEW c \in Clients, RunStep(c) PROVE LiveInv'
  BY <1>5, RunMoves, ReturnStep DEF RunStep
<1>6. ASSUME NEW c \in Clients, ReadFails(c) \/ ReadStep(c) \/ \E i \in Ids : HandleOpen(c, i)
      PROVE  LiveInv'
  BY <1>1, <1>6 DEF ReadFails, ReadStep, HandleOpen, mgrVars
<1>7. ASSUME NEW k \in Conns, Watch(k) \/ Break(k) PROVE LiveInv'
  BY <1>1, <1>7 DEF Watch, Break, mgrVars
<1>8. ASSUME NEW k \in Conns, NEW i \in Ids, PumpFrame \/ LocalClose(k, i) PROVE LiveInv'
  BY <1>1, <1>8 DEF PumpFrame, LocalClose, mgrVars
<1>9. CASE UNCHANGED vars
  BY <1>1, <1>9 DEF vars, mgrVars
<1> QED
  BY <1>2, <1>3, <1>4, <1>5, <1>6, <1>7, <1>8, <1>9 DEF ClientNext

\* However toggles, shutdowns and lost connections interleave, a client whose
\* context is live is the one Manager holds (manager.go, Start, Stop, SetEnabled).
THEOREM OnlyOneLiveClient == ClientSpec => []OneLiveClient
<1>1. LiveInv => OneLiveClient
  BY DEF LiveInv
<1> QED
  BY <1>1, InitLive, NextLive, PTL DEF ClientSpec
-----------------------------------------------------------------------------
(***************************************************************************)
(* Connections and streams.  Neither HandshakeFirst nor OpenTcpIsReachable *)
(* is inductive: the goroutines that write to a connection hold it by      *)
(* value, so what has to be carried along is that each of them got it      *)
(* after reg, and whose the streams of a map are.                          *)
(***************************************************************************)
Hello == <<"hello">>
Reg == <<"reg">>
CloseOf(i) == <<"close", i>>
AcceptOf(i) == <<"accept", i>>

Linked(c) == pc[c] \in {"hello", "reg", "online", "serve", "drain"}

\* Both frames of the handshake were sent on a connection that is still open.
Registered(k) == by[k] # 0 /\ (wire[k] = "open" => Hello \in sent[k] /\ Reg \in sent[k])

\* Nothing is known of a connection before it is dialled.
Undialled ==
  \A k \in Conns : by[k] = 0 =>
    wire[k] = "none" /\ sent[k] = {} /\ \A i \in Ids : tcp[k][i] = "none" /\ pump[k][i] = "off"

\* runOnce starts a connection with an empty map, so a map holds streams of one
\* connection at a time, and only its own client's.
LinkOwned ==
  \A c \in Clients : Linked(c) =>
    link[c] \in Conns /\ by[link[c]] = c /\ \A i \in Ids : smap[c][i] \in {0, link[c]}
MapOwned ==
  \A c \in Clients, i \in Ids : smap[c][i] # 0 => by[smap[c][i]] = c /\ i \in opened[smap[c][i]]

\* The handshake goes on in order, and whoever holds the connection got it after.
Greeted ==
  \A c \in Clients :
    /\ pc[c] = "reg" /\ wire[link[c]] = "open" => Hello \in sent[link[c]]
    /\ pc[c] \in {"online", "serve", "drain"} => Registered(link[c])
Published ==
  /\ \A c \in Clients : pub[c] # 0 => Registered(pub[c])
  /\ \A k \in Conns, i \in Ids : pump[k][i] # "off" => Registered(k)
  /\ rep.at = "conn" => rep.c # 0
  /\ rep.at = "write" => rep.k # 0 /\ Registered(rep.k)

\* A stream that readLoop is opening is nobody else's yet.
Reader ==
  \A c \in Clients :
    /\ rl[c].at # "off" => pc[c] \in {"serve", "drain"}
    /\ rl[c].at \in {"dial", "accept"} =>
         /\ rl[c].id \in opened[link[c]]
         /\ CloseOf(rl[c].id) \notin sent[link[c]] /\ pump[link[c]][rl[c].id] = "off"
    /\ rl[c].at = "dial" => smap[c][rl[c].id] = 0

Unopened ==
  \A k \in Conns, i \in Ids : i \notin opened[k] => CloseOf(i) \notin sent[k] /\ pump[k][i] = "off"

Reachable == \A k \in Conns, i \in Ids : tcp[k][i] \in {"open", "eof"} => smap[by[k]][i] = k

LinkInv ==
  /\ ClientTypeOK /\ Undialled /\ LinkOwned /\ MapOwned /\ Greeted /\ Published
  /\ Reader /\ Unopened /\ Reachable /\ HandshakeFirst
\* The types in two halves: what the manager keeps, and the connections.
ManagerTypes ==
  /\ enabled \in BOOLEAN /\ running \in BOOLEAN /\ down \in BOOLEAN
  /\ cur \in Clients \cup {0}
  /\ mstate \in {"disabled", "offline", "online"}
  /\ base \in {"nil", "main", "background"}
  /\ hpc \in [Handlers -> {"idle", "boot", "start"}]
  /\ canc \in [Clients -> BOOLEAN]
  /\ ops \in 0 .. MaxOps /\ faults \in 0 .. MaxFaults
LinkTypes ==
  /\ rep \in [at : {"idle", "conn", "write"}, c : Clients \cup {0}, k : Conns \cup {0}]
  /\ pc \in [Clients -> Labels]
  /\ link \in [Clients -> Conns \cup {0}] /\ pub \in [Clients -> Conns \cup {0}]
  /\ rl \in [Clients -> [at : {"off", "read", "dial", "accept", "ret"}, id : Ids \cup {0}]]
  /\ smap \in [Clients -> [Ids -> Conns \cup {0}]]
  /\ by \in [Conns -> Clients \cup {0}]
  /\ wire \in [Conns -> {"none", "open", "dead", "closed"}]
  /\ sent \in [Conns -> SUBSET Frames]
  /\ opened \in [Conns -> SUBSET Ids]
  /\ tcp \in [Conns -> [Ids -> {"none", "open", "eof", "closed"}]]
  /\ pump \in [Conns -> [Ids -> {"off", "read", "told", "done"}]]

LEMMA TypesSplit == (ClientTypeOK <=> ManagerTypes /\ LinkTypes) /\ (ClientTypeOK' <=> ManagerTypes' /\ LinkTypes')
BY DEF ClientTypeOK, ManagerTypes, LinkTypes, Labels

\* Connections and streams are no business of the manager.
LEMMA ManagerKept ==
  ASSUME ClientTypeOK, UNCHANGED <<mgrVars, down, ops, hpc, canc>>, UNCHANGED faults \/ MayFault
  PROVE  ManagerTypes'
BY ClientConstants DEF ClientTypeOK, ManagerTypes, mgrVars, MayFault
-----------------------------------------------------------------------------
LEMMA FramesApart ==
  /\ Hello # Reg /\ <<"code">> # Hello /\ <<"code">> # Reg
  /\ \A i \in Ids : CloseOf(i) \notin {Hello, Reg, <<"code">>} /\ AcceptOf(i) \notin {Hello, Reg, <<"code">>}
  /\ \A i, j \in Ids : AcceptOf(i) # CloseOf(j) /\ (CloseOf(i) = CloseOf(j) => i = j)
  /\ \A i \in Ids : {Hello, Reg, <<"code">>, CloseOf(i), AcceptOf(i)} \subseteq Frames
BY DEF Hello, Reg, CloseOf, AcceptOf, Frames

\* What a write to one connection does.
LEMMA WriteFacts ==
  ASSUME ClientTypeOK, NEW k \in Conns, NEW f \in Frames, Write(k, f)
  PROVE  /\ sent' \in [Conns -> SUBSET Frames]
         /\ \A j \in Conns : sent[j] \subseteq sent'[j] /\ sent'[j] \subseteq sent[j] \cup {f}
         /\ \A j \in Conns : sent'[j] # sent[j] => j = k
         /\ wire[k] = "open" => f \in sent'[k]
         /\ wire[k] # "open" => sent' = sent
<1>1. sent \in [Conns -> SUBSET Frames]
  BY DEF ClientTypeOK
<1>2. CASE wire[k] = "open"
  BY <1>1, <1>2 DEF Write
<1>3. CASE wire[k] # "open"
  BY <1>1, <1>3 DEF Write
<1> QED
  BY <1>2, <1>3

\* Once registered, a connection stays so or is closed: a wire opens only once.
Falls ==
  \A k \in Conns : wire'[k] = wire[k] \/ (by[k] # 0 /\ wire'[k] \notin {"none", "open"})

\* A frame after the handshake disturbs none of what was said of it.
LEMMA LateWrite ==
  ASSUME LinkInv, NEW k \in Conns, NEW f \in Frames, Write(k, f), Registered(k),
         f \notin {Hello, Reg}, UNCHANGED <<pc, link, by, wire>>
  PROVE  /\ sent' \in [Conns -> SUBSET Frames] /\ HandshakeFirst' /\ Greeted'
         /\ \A j \in Conns : Registered(j) => Registered(j)'
         /\ \A j \in Conns : by[j] = 0 => sent'[j] = {}
<1>1. /\ sent' \in [Conns -> SUBSET Frames]
      /\ \A j \in Conns : sent[j] \subseteq sent'[j] /\ sent'[j] \subseteq sent[j] \cup {f}
      /\ \A j \in Conns : sent'[j] # sent[j] => j = k
      /\ wire[k] # "open" => sent' = sent
  BY WriteFacts DEF LinkInv
<1>2. \A j \in Conns : Registered(j) => Registered(j)'
  BY <1>1 DEF Registered
<1>3. HandshakeFirst'
  <2>1. HandshakeFirst
    BY DEF LinkInv
  <2>2. CASE wire[k] = "open"
    <3>1. Hello \in sent'[k] /\ Reg \in sent'[k]
      BY <1>1, <2>2 DEF Registered
    <3>2. \A j \in Conns \ {k} : sent'[j] = sent[j]
      BY <1>1
    <3> QED
      BY <2>1, <3>1, <3>2 DEF HandshakeFirst, Hello, Reg
  <2> QED
    BY <1>1, <2>1, <2>2 DEF HandshakeFirst
<1>4. Greeted'
  <2>1. \A c \in Clients : pc[c] \in {"reg", "online", "serve", "drain"} => link[c] \in Conns
    BY DEF LinkInv, LinkOwned, Linked
  <2> QED
    BY <1>1, <1>2, <2>1 DEF LinkInv, Greeted
<1>5. \A j \in Conns : by[j] = 0 => sent'[j] = {}
  BY <1>1 DEF LinkInv, Undialled, Registered
<1> QED
  BY <1>1, <1>2, <1>3, <1>4, <1>5

\* closeStream: no connection that is open is left out of the map.
LEMMA CloseStreamFacts ==
  ASSUME LinkInv, NEW c \in Clients, NEW i \in Ids, CloseStream(c, i),
         UNCHANGED <<pc, link, by, opened>>
  PROVE  /\ smap' \in [Clients -> [Ids -> Conns \cup {0}]]
         /\ tcp' \in [Conns -> [Ids -> {"none", "open", "eof", "closed"}]]
         /\ \A d \in Clients, j \in Ids : smap'[d][j] \in {smap[d][j], 0}
         /\ \A k \in Conns, j \in Ids : tcp'[k][j] = tcp[k][j] \/ (tcp'[k][j] = "closed" /\ by[k] # 0)
         /\ LinkOwned' /\ MapOwned' /\ Reachable'
<1>1. ClientTypeOK /\ LinkOwned /\ MapOwned /\ Reachable
  BY DEF LinkInv
<1>2. /\ smap \in [Clients -> [Ids -> Conns \cup {0}]]
      /\ tcp \in [Conns -> [Ids -> {"none", "open", "eof", "closed"}]]
  BY <1>1 DEF ClientTypeOK
<1>3. /\ smap' \in [Clients -> [Ids -> Conns \cup {0}]] /\ smap'[c][i] = 0
      /\ \A d \in Clients, j \in Ids : d # c \/ j # i => smap'[d][j] = smap[d][j]
  BY <1>2 DEF CloseStream
<1>4. /\ tcp' \in [Conns -> [Ids -> {"none", "open", "eof", "closed"}]]
      /\ \A k \in Conns, j \in Ids : IF j = i /\ k = smap[c][i] /\ smap[c][i] # 0
                                     THEN tcp'[k][j] = "closed" ELSE tcp'[k][j] = tcp[k][j]
  <2>1. CASE smap[c][i] = 0
    BY <1>2, <2>1 DEF CloseStream
  <2>2. CASE smap[c][i] # 0
    <3>1. smap[c][i] \in Conns /\ tcp' = [tcp EXCEPT ![smap[c][i]][i] = "closed"]
      BY <1>2, <2>2 DEF CloseStream
    <3> QED
      BY <1>2, <2>2, <3>1
  <2> QED
    BY <2>1, <2>2
<1>5. \A d \in Clients, j \in Ids : smap'[d][j] \in {smap[d][j], 0}
  BY <1>3
<1>6. \A k \in Conns : k = smap[c][i] /\ smap[c][i] # 0 => by[k] = c /\ c # 0
  BY <1>1, ClientConstants DEF MapOwned
<1>7. LinkOwned'
  BY <1>1, <1>5 DEF LinkOwned, Linked
<1>8. MapOwned'
  BY <1>1, <1>5 DEF MapOwned
<1>9. Reachable'
  <2> SUFFICES ASSUME NEW k \in Conns, NEW j \in Ids, tcp'[k][j] \in {"open", "eof"}
               PROVE  smap'[by[k]][j] = k
    BY DEF Reachable
  <2>1. tcp'[k][j] = tcp[k][j] /\ ~(j = i /\ k = smap[c][i] /\ smap[c][i] # 0)
    BY <1>4
  <2>2. smap[by[k]][j] = k /\ k # 0
    BY <1>1, <2>1, ClientConstants DEF Reachable
  <2>3. by[k] \in Clients
    BY <1>1, <2>1 DEF LinkInv, ClientTypeOK, Undialled
  <2> QED
    BY <1>3, <2>1, <2>2, <2>3
<1> QED
  BY <1>3, <1>4, <1>5, <1>6, <1>7, <1>8, <1>9

\* closeStreamsLocked: the same for all streams of a map, when a connection may
\* be dialled in the same step.
LEMMA CloseStreamsFacts ==
  ASSUME LinkInv, NEW c \in Clients, CloseStreamsLocked(c), UNCHANGED opened,
         \A k \in Conns : by[k] # 0 => by'[k] = by[k]
  PROVE  /\ smap' \in [Clients -> [Ids -> Conns \cup {0}]]
         /\ tcp' \in [Conns -> [Ids -> {"none", "open", "eof", "closed"}]]
         /\ \A d \in Clients, j \in Ids : smap'[d][j] = IF d = c THEN 0 ELSE smap[d][j]
         /\ \A k \in Conns, j \in Ids : tcp'[k][j] = tcp[k][j] \/ (tcp'[k][j] = "closed" /\ by[k] # 0)
         /\ MapOwned' /\ Reachable'
<1>1. ClientTypeOK /\ LinkOwned /\ MapOwned /\ Reachable
  BY DEF LinkInv
<1>2. /\ smap \in [Clients -> [Ids -> Conns \cup {0}]]
      /\ tcp \in [Conns -> [Ids -> {"none", "open", "eof", "closed"}]]
  BY <1>1 DEF ClientTypeOK
<1>3. /\ smap' \in [Clients -> [Ids -> Conns \cup {0}]]
      /\ \A d \in Clients, j \in Ids : smap'[d][j] = IF d = c THEN 0 ELSE smap[d][j]
  BY <1>2 DEF CloseStreamsLocked
<1>4. /\ tcp' \in [Conns -> [Ids -> {"none", "open", "eof", "closed"}]]
      /\ \A k \in Conns, j \in Ids : tcp'[k][j] = IF smap[c][j] = k THEN "closed" ELSE tcp[k][j]
  <2>1. tcp' = [k \in Conns |-> [i \in Ids |-> IF smap[c][i] = k THEN "closed" ELSE tcp[k][i]]]
    BY DEF CloseStreamsLocked
  <2> QED
    BY <1>2, <2>1
<1>5. \A k \in Conns, j \in Ids : smap[c][j] = k => by[k] = c /\ c # 0
  BY <1>1, ClientConstants DEF MapOwned
<1>6. MapOwned'
  <2>1. \A d \in Clients, j \in Ids : smap'[d][j] # 0 => smap'[d][j] = smap[d][j] /\ smap[d][j] \in Conns /\ d # 0
    BY <1>2, <1>3, ClientConstants
  <2> QED
    BY <1>1, <2>1 DEF MapOwned
<1>7. Reachable'
  <2> SUFFICES ASSUME NEW k \in Conns, NEW j \in Ids, tcp'[k][j] \in {"open", "eof"}
               PROVE  smap'[by'[k]][j] = k
    BY DEF Reachable
  <2>1. tcp'[k][j] = tcp[k][j] /\ smap[c][j] # k
    BY <1>4
  <2>2. smap[by[k]][j] = k
    BY <1>1, <2>1 DEF Reachable
  <2>3. by[k] \in Clients /\ by'[k] = by[k]
    BY <1>1, <2>1, ClientConstants DEF LinkInv, ClientTypeOK, Undialled
  <2> QED
    BY <1>3, <2>1, <2>2, <2>3
<1> QED
  BY <1>3, <1>4, <1>5, <1>6, <1>7

\* Steps that leave streams, frames and who holds which connection alone; a
\* connection may be closed, and a client may go on to a place without one.
LEMMA KeepLinks ==
  ASSUME LinkInv, ManagerTypes', Falls,
         pc' \in [Clients -> Labels], wire' \in [Conns -> {"none", "open", "dead", "closed"}],
         UNCHANGED <<link, pub, rl, rep, streamVars, by, sent, opened>>,
         \A c \in Clients : \/ pc'[c] = pc[c]
                            \/ rl[c].at = "off" /\ pc'[c] \notin {"hello", "reg", "online", "serve", "drain"}
                            \/ pc[c] = "serve" /\ pc'[c] = "drain"
  PROVE  LinkInv'
<1>1. UNCHANGED <<link, pub, rl, rep, smap, tcp, pump, by, sent, opened>>
  BY DEF streamVars
<1>0. ClientTypeOK'
  BY <1>1, TypesSplit DEF LinkInv, LinkTypes
<1>2. Undialled' /\ Unopened' /\ MapOwned' /\ Reachable' /\ HandshakeFirst'
  BY <1>1 DEF LinkInv, Falls, Undialled, Unopened, MapOwned, Reachable, HandshakeFirst
<1>3. LinkOwned'
  BY <1>1 DEF LinkInv, LinkOwned, Linked
<1>4. \A k \in Conns : Registered(k) => Registered(k)'
  BY <1>1 DEF Registered, Falls
<1>5. Published'
  BY <1>1, <1>4 DEF LinkInv, ClientTypeOK, Published
<1>6. Greeted'
  <2>1. \A c \in Clients : pc[c] \in {"reg", "online", "serve", "drain"} => link[c] \in Conns
    BY DEF LinkInv, LinkOwned, Linked
  <2> QED
    BY <1>1, <1>4, <2>1 DEF LinkInv, Greeted, Falls
<1>7. Reader'
  BY <1>1 DEF LinkInv, Reader
<1> QED
  BY <1>0, <1>2, <1>3, <1>5, <1>6, <1>7 DEF LinkInv
-----------------------------------------------------------------------------
(* Toggles, shutdowns, and a client that goes on without a connection.     *)
LEMMA ToggleSteps ==
  ASSUME LinkInv, \/ \E h \in Handlers : SetEnabled(h) \/ Stop(h)
                  \/ Shutdown
  PROVE  LinkInv'
<1>1. UNCHANGED <<rep, pc, link, pub, rl, streamVars, wireVars>>
  BY DEF SetEnabled, Stop, Shutdown, mgrVars
<1>2. ManagerTypes /\ LinkTypes
  BY TypesSplit DEF LinkInv
<1>3. ManagerTypes'
  <2>1. canc' \in [Clients -> BOOLEAN]
    <3>1. CASE Shutdown
      BY <1>2, <3>1 DEF Shutdown, ManagerTypes
    <3>2. CASE canc' = canc \/ canc' = [canc EXCEPT ![cur] = TRUE]
      BY <1>2, <3>2 DEF ManagerTypes
    <3> QED
      BY <3>1, <3>2 DEF SetEnabled, Stop
  <2>2. ops' \in 0 .. MaxOps /\ faults' \in 0 .. MaxFaults
    BY <1>2, ClientConstants DEF SetEnabled, Stop, Shutdown, ManagerTypes
  <2>3. hpc' \in [Handlers -> {"idle", "boot", "start"}]
    BY <1>2 DEF SetEnabled, Stop, Shutdown, ManagerTypes
  <2>4. /\ enabled' \in BOOLEAN /\ running' \in BOOLEAN /\ down' \in BOOLEAN
        /\ cur' \in Clients \cup {0}
        /\ mstate' \in {"disabled", "offline", "online"}
        /\ base' \in {"nil", "main", "background"}
    BY <1>2 DEF SetEnabled, Stop, Shutdown, mgrVars, ManagerTypes
  <2> QED
    BY <2>1, <2>2, <2>3, <2>4 DEF ManagerTypes
<1> QED
  BY <1>1, <1>2, <1>3, KeepLinks DEF LinkTypes, wireVars, Falls

LEMMA StartLinks == ASSUME LinkInv, NEW h \in Handlers, Start(h) PROVE LinkInv'
<1>1. UNCHANGED <<enabled, down, ops, faults, rep, link, pub, rl, streamVars, wireVars>>
  BY DEF Start, envVars
<1>2. ManagerTypes /\ LinkTypes
  BY TypesSplit DEF LinkInv
<1>3. hpc' \in [Handlers -> {"idle", "boot", "start"}] /\ base' \in {"nil", "main", "background"}
  BY <1>2 DEF Start, ManagerTypes
<1>4. CASE UNCHANGED <<running, cur, mstate, pc, canc>>
  <2>1. ManagerTypes'
    BY <1>1, <1>2, <1>3, <1>4 DEF ManagerTypes
  <2> QED
    BY <1>1, <1>2, <1>4, <2>1, KeepLinks DEF LinkTypes, wireVars, Falls
<1>5. ASSUME NEW c \in Clients, pc[c] = "new", cur' = c, pc' = [pc EXCEPT ![c] = "loop"],
             canc' = [canc EXCEPT ![c] = down /\ base' = "main"],
             running' = TRUE /\ mstate' = "offline"
      PROVE  LinkInv'
  <2>1. canc' \in [Clients -> BOOLEAN]
    <3>1. (down /\ base' = "main") \in BOOLEAN
      OBVIOUS
    <3> QED
      BY <1>2, <1>5, <3>1 DEF ManagerTypes
  <2>2. ManagerTypes'
    BY <1>1, <1>2, <1>3, <1>5, <2>1 DEF ManagerTypes
  <2>3. rl[c].at = "off"
    BY <1>5 DEF LinkInv, Reader
  <2>4. pc' \in [Clients -> Labels] /\ pc'[c] = "loop" /\ \A d \in Clients \ {c} : pc'[d] = pc[d]
    BY <1>2, <1>5 DEF LinkTypes, Labels
  <2> QED
    BY <1>1, <1>2, <2>2, <2>3, <2>4, KeepLinks DEF LinkTypes, wireVars, Falls
<1> QED
  BY <1>4, <1>5 DEF Start

\* A move to a place without a connection, and one within serve, closing it or not.
LEMMA MoveLinks ==
  ASSUME LinkInv, ManagerTypes', NEW c \in Clients, NEW l \in Labels, Moves(c, l),
         \/ pc[c] \notin {"serve", "drain"} /\ l \notin {"hello", "reg", "online", "serve", "drain"}
         \/ pc[c] = "serve" /\ l = "drain",
         wire' = wire \/ (Linked(c) /\ wire' = [wire EXCEPT ![link[c]] = "closed"]),
         UNCHANGED <<link, pub, rl, rep, streamVars, by, sent, opened>>
  PROVE  LinkInv'
<1>1. LinkTypes
  BY TypesSplit DEF LinkInv
<1>2. pc' \in [Clients -> Labels] /\ pc'[c] = l /\ \A d \in Clients \ {c} : pc'[d] = pc[d]
  BY <1>1 DEF Moves, LinkTypes
<1>3. wire' \in [Conns -> {"none", "open", "dead", "closed"}]
  BY <1>1 DEF LinkTypes
<1>4. Falls
  <2>1. CASE wire' = wire
    BY <2>1 DEF Falls
  <2>2. CASE Linked(c) /\ wire' = [wire EXCEPT ![link[c]] = "closed"]
    <3>1. by[link[c]] # 0 /\ link[c] \in Conns
      BY <2>2, ClientConstants DEF LinkInv, LinkOwned
    <3>2. \A k \in Conns : wire'[k] = IF k = link[c] THEN "closed" ELSE wire[k]
      BY <1>1, <2>2, <3>1 DEF LinkTypes
    <3> QED
      BY <3>1, <3>2 DEF Falls
  <2> QED
    BY <2>1, <2>2
<1>5. pc[c] \notin {"serve", "drain"} => rl[c].at = "off"
  BY DEF LinkInv, Reader
<1> QED
  BY <1>2, <1>3, <1>4, <1>5, KeepLinks

\* The steps of Run that do not touch streams, and the failures of connections.
LEMMA RunLinks ==
  ASSUME LinkInv, NEW c \in Clients, RunReturned(c) \/ Lost(c) \/ Offline(c) \/ Backoff(c) \/ Serve(c)
  PROVE  LinkInv'
<1>1. UNCHANGED <<rep, link, pub, rl, streamVars, by, sent, opened>>
  BY DEF RunReturned, Lost, Offline, Backoff, Serve, wireVars
<1>2. ManagerTypes /\ LinkTypes
  BY TypesSplit DEF LinkInv
<1>3. ManagerTypes'
  <2>1. CASE RunReturned(c)
    BY <1>2, <2>1 DEF RunReturned, envVars, ManagerTypes
  <2>2. CASE Offline(c)
    BY <1>2, <2>2 DEF Offline, SetState, envVars, ManagerTypes
  <2>3. CASE Lost(c) \/ Backoff(c) \/ Serve(c)
    BY <1>2, <2>3 DEF Lost, Backoff, Serve, mgrVars, envVars, ManagerTypes
  <2> QED
    BY <2>1, <2>2, <2>3
<1>4. CASE Serve(c)
  <2>1. pc[c] = "serve" /\ Moves(c, "drain") /\ wire' = [wire EXCEPT ![link[c]] = "closed"]
    BY <1>4 DEF Serve, Goto, Moves
  <2> QED
    BY <1>1, <1>3, <2>1, MoveLinks DEF Linked, Labels
<1>5. CASE RunReturned(c) \/ Lost(c) \/ Offline(c) \/ Backoff(c)
  <2>1. PICK l \in {"done", "finish", "offline", "backoff", "loop"} : Moves(c, l)
    BY <1>5 DEF RunReturned, Lost, Offline, Backoff, Goto, Moves
  <2>2. pc[c] \notin {"serve", "drain"} /\ wire' = wire
    BY <1>5 DEF RunReturned, Lost, Offline, Backoff, wireVars
  <2> QED
    BY <1>1, <1>3, <2>1, <2>2, MoveLinks DEF Labels
<1> QED
  BY <1>4, <1>5

LEMMA BreakLinks == ASSUME LinkInv, NEW k \in Conns, Watch(k) \/ Break(k) PROVE LinkInv'
<1>1. UNCHANGED <<rep, pc, link, pub, rl, streamVars, by, sent, opened>>
  BY DEF Watch, Break
<1>2. ClientTypeOK /\ ManagerTypes /\ LinkTypes
  BY TypesSplit DEF LinkInv
<1>3. ManagerTypes'
  BY <1>2, ManagerKept DEF Watch, Break, envVars
<1>4. by[k] # 0 /\ \E v \in {"dead", "closed"} : wire' = [wire EXCEPT ![k] = v]
  BY DEF Watch, Break, LinkInv, Undialled
<1>5. Falls /\ wire' \in [Conns -> {"none", "open", "dead", "closed"}]
  BY <1>2, <1>4 DEF LinkTypes, Falls
<1> QED
  BY <1>1, <1>2, <1>3, <1>5, KeepLinks DEF LinkTypes

\* hello and reg: each is the only goroutine's that knows the connection.
LEMMA HandshakeLinks == ASSUME LinkInv, NEW c \in Clients, HandshakeStep(c) PROVE LinkInv'
<1> DEFINE k == link[c]
<1>1. /\ UNCHANGED <<rep, link, pub, rl, streamVars, by, opened>>
      /\ UNCHANGED <<mgrVars, down, ops, hpc, canc>> /\ (UNCHANGED faults \/ MayFault)
  BY DEF HandshakeStep, Handshake
<1>2. ClientTypeOK /\ ManagerTypes /\ LinkTypes
  BY TypesSplit DEF LinkInv
<1>3. ManagerTypes'
  BY <1>1, <1>2, ManagerKept
<1>4. /\ pc[c] \in {"hello", "reg"} /\ k \in Conns /\ by[k] = c /\ c # 0
      /\ \A d \in Clients \ {c} : Linked(d) => link[d] \in Conns \ {k}
      /\ rl[c].at = "off"
  <2>1. pc[c] \in {"hello", "reg"}
    BY DEF HandshakeStep, Handshake
  <2> QED
    BY <2>1, ClientConstants DEF LinkInv, LinkOwned, Linked, Reader
<1>5. CASE wire' = [wire EXCEPT ![k] = "closed"] /\ Goto(c, "lost") /\ UNCHANGED sent
  BY <1>1, <1>3, <1>4, <1>5, MoveLinks DEF Goto, Moves, Linked, Labels
<1>6. ASSUME NEW f \in {Hello, Reg}, NEW l \in {"reg", "online"}, Write(k, f), Goto(c, l), wire' = wire,
             l = "reg" => f = Hello /\ pc[c] = "hello",
             l = "online" => f = Reg /\ pc[c] = "reg"
      PROVE  LinkInv'
  <2> HIDE DEF k
  <2>1. /\ sent' \in [Conns -> SUBSET Frames]
        /\ \A j \in Conns : sent[j] \subseteq sent'[j] /\ sent'[j] \subseteq sent[j] \cup {f}
        /\ \A j \in Conns : sent'[j] # sent[j] => j = k
        /\ wire[k] = "open" => f \in sent'[k]
        /\ wire[k] # "open" => sent' = sent
    BY <1>2, <1>4, <1>6, WriteFacts, FramesApart DEF Frames, Hello, Reg
  <2>2. pc' \in [Clients -> Labels] /\ pc'[c] = l /\ \A d \in Clients \ {c} : pc'[d] = pc[d]
    BY <1>2, <1>6 DEF Goto, LinkTypes, Labels
  <2>3. ClientTypeOK'
    BY <1>1, <1>2, <1>3, <1>6, <2>1, <2>2, TypesSplit DEF LinkTypes, streamVars
  <2>4. \A j \in Conns : Registered(j) => Registered(j)'
    BY <1>1, <1>6, <2>1 DEF Registered
  <2>5. LinkOwned' /\ MapOwned' /\ Reachable'
    BY <1>1, <1>4, <2>2 DEF LinkInv, LinkOwned, MapOwned, Reachable, Linked, streamVars
  <2>6. Undialled'
    BY <1>1, <1>4, <1>6, <2>1 DEF LinkInv, Undialled, streamVars
  <2>7. Published'
    BY <1>1, <1>2, <2>4 DEF LinkInv, Published, LinkTypes, streamVars
  <2>8. HandshakeFirst'
    <3>1. \A j \in Conns \ {k} : sent'[j] = sent[j]
      BY <2>1
    <3>2. f = Reg /\ wire[k] = "open" => Hello \in sent[k]
      BY <1>4, <1>6, FramesApart DEF LinkInv, Greeted, k
    <3> QED
      BY <1>4, <1>6, <2>1, <3>1, <3>2 DEF LinkInv, HandshakeFirst, Hello, Reg
  <2>9. Greeted'
    <3>1. l = "online" => Registered(k)'
      BY <1>1, <1>4, <1>6, <2>1 DEF Registered, LinkInv, Greeted, k
    <3>2. l = "reg" => (wire'[k] = "open" => Hello \in sent'[k])
      BY <1>6, <2>1
    <3>3. ASSUME NEW d \in Clients \ {c}
          PROVE  /\ pc[d] = "reg" /\ wire'[link[d]] = "open" => Hello \in sent'[link[d]]
                 /\ pc[d] \in {"online", "serve", "drain"} => Registered(link[d])'
      BY <1>1, <1>4, <1>6, <2>1, <2>4 DEF LinkInv, Greeted, Linked
    <3> QED
      BY <1>1, <1>6, <2>2, <3>1, <3>2, <3>3 DEF Greeted, k
  <2>10. \A j \in Conns, i \in Ids : CloseOf(i) \in sent'[j] => CloseOf(i) \in sent[j]
    BY <1>6, <2>1, FramesApart
  <2>11. Reader' /\ Unopened'
    BY <1>1, <1>2, <1>4, <2>2, <2>10 DEF LinkInv, LinkOwned, Linked, Reader, Unopened, LinkTypes, streamVars
  <2> QED
    BY <2>3, <2>5, <2>6, <2>7, <2>8, <2>9, <2>11 DEF LinkInv
<1> QED
  BY <1>5, <1>6 DEF HandshakeStep, Handshake, Hello, Reg

\* readLoop runs on the connection of its client, for a stream that was opened.
LEMMA ReaderFacts ==
  ASSUME LinkInv, NEW c \in Clients, rl[c].at # "off"
  PROVE  /\ pc[c] \in {"serve", "drain"} /\ link[c] \in Conns /\ by[link[c]] = c /\ c # 0
         /\ Registered(link[c])
         /\ \A i \in Ids : smap[c][i] \in {0, link[c]}
         /\ rl[c].at \in {"dial", "accept"} => rl[c].id \in Ids
<1>1. pc[c] \in {"serve", "drain"}
  BY DEF LinkInv, Reader
<1>2. link[c] \in Conns /\ by[link[c]] = c /\ \A i \in Ids : smap[c][i] \in {0, link[c]}
  BY <1>1 DEF LinkInv, LinkOwned, Linked
<1>3. c # 0 /\ Registered(link[c])
  BY <1>1, ClientConstants DEF LinkInv, Greeted
<1>4. rl[c].at \in {"dial", "accept"} => rl[c].id \in Ids
  <2>1. opened[link[c]] \subseteq Ids
    BY <1>2 DEF LinkInv, ClientTypeOK
  <2> QED
    BY <2>1 DEF LinkInv, Reader
<1> QED
  BY <1>1, <1>2, <1>3, <1>4

\* A new connection is nobody's else, and its client's map is empty.
LEMMA RunOnceLinks == ASSUME LinkInv, NEW c \in Clients, RunOnce(c) PROVE LinkInv'
<1>1. /\ pc[c] = "loop" /\ UNCHANGED <<rep, pub, rl, pump, sent, opened>>
      /\ UNCHANGED <<mgrVars, down, ops, hpc, canc>> /\ (UNCHANGED faults \/ MayFault)
  BY DEF RunOnce
<1>2. ClientTypeOK /\ ManagerTypes /\ LinkTypes
  BY TypesSplit DEF LinkInv
<1>3. ManagerTypes'
  BY <1>1, <1>2, ManagerKept
<1>4. CASE Goto(c, "finish") /\ UNCHANGED <<smap, tcp, link, by, wire, faults>>
  BY <1>1, <1>3, <1>4, MoveLinks DEF Goto, Moves, Labels, streamVars
<1>5. ASSUME CloseStreamsLocked(c), NEW l \in {"hello", "lost"}, Goto(c, l), NEW k \in Conns \cup {0},
             \/ /\ l = "hello" /\ k \in Conns /\ by[k] = 0 /\ by' = [by EXCEPT ![k] = c]
                /\ wire' = [wire EXCEPT ![k] = "open"] /\ link' = [link EXCEPT ![c] = k]
             \/ l = "lost" /\ UNCHANGED <<link, by, wire>>
      PROVE  LinkInv'
  <2>1. pc' \in [Clients -> Labels] /\ pc'[c] = l /\ \A d \in Clients \ {c} : pc'[d] = pc[d]
    BY <1>2, <1>5 DEF Goto, LinkTypes, Labels
  <2>2. /\ by' \in [Conns -> Clients \cup {0}] /\ wire' \in [Conns -> {"none", "open", "dead", "closed"}]
        /\ link' \in [Clients -> Conns \cup {0}]
        /\ \A j \in Conns : by[j] # 0 => by'[j] = by[j] /\ wire'[j] = wire[j]
        /\ \A j \in Conns : by'[j] = 0 => by[j] = 0 /\ wire'[j] = wire[j]
        /\ \A d \in Clients \ {c} : link'[d] = link[d]
        /\ l = "hello" => k \in Conns /\ link'[c] = k /\ by'[k] = c
    BY <1>2, <1>5, ClientConstants DEF LinkTypes
  <2>3. /\ smap' \in [Clients -> [Ids -> Conns \cup {0}]]
        /\ tcp' \in [Conns -> [Ids -> {"none", "open", "eof", "closed"}]]
        /\ \A d \in Clients, j \in Ids : smap'[d][j] = IF d = c THEN 0 ELSE smap[d][j]
        /\ \A j \in Conns, i \in Ids : tcp'[j][i] = tcp[j][i] \/ (tcp'[j][i] = "closed" /\ by[j] # 0)
        /\ MapOwned' /\ Reachable'
    BY <1>1, <1>5, <2>2, CloseStreamsFacts
  <2>4. ClientTypeOK'
    BY <1>1, <1>2, <1>3, <2>1, <2>2, <2>3, TypesSplit DEF LinkTypes
  <2>5. Undialled'
    <3> SUFFICES ASSUME NEW j \in Conns, by'[j] = 0
                 PROVE  wire'[j] = "none" /\ sent'[j] = {} /\ \A i \in Ids : tcp'[j][i] = "none" /\ pump'[j][i] = "off"
      BY DEF Undialled
    <3>1. by[j] = 0 /\ wire'[j] = wire[j]
      BY <2>2
    <3> QED
      BY <1>1, <2>3, <3>1 DEF LinkInv, Undialled
  <2>6. \A d \in Clients \ {c} : Linked(d) => link[d] \in Conns /\ by[link[d]] = d /\ d # 0
    BY ClientConstants DEF LinkInv, LinkOwned
  <2>7. LinkOwned'
    <3>1. ASSUME NEW d \in Clients \ {c}, Linked(d)
          PROVE  /\ link'[d] \in Conns /\ by'[link'[d]] = d
                 /\ \A i \in Ids : smap'[d][i] \in {0, link'[d]}
      BY <2>2, <2>3, <2>6, <3>1 DEF LinkInv, LinkOwned
    <3>2. l = "hello" => link'[c] \in Conns /\ by'[link'[c]] = c /\ \A i \in Ids : smap'[c][i] = 0
      BY <2>2, <2>3
    <3> QED
      BY <1>5, <2>1, <3>1, <3>2 DEF LinkOwned, Linked
  <2>8. \A j \in Conns : Registered(j) => Registered(j)'
    BY <1>1, <2>2 DEF Registered
  <2>9. Published'
    BY <1>1, <1>2, <2>8 DEF LinkInv, Published, LinkTypes
  <2>10. Greeted'
    BY <1>1, <1>5, <2>1, <2>2, <2>6, <2>8 DEF LinkInv, Greeted, Linked
  <2>11. Reader'
    <3>1. rl[c].at = "off"
      BY <1>1 DEF LinkInv, Reader
    <3>2. \A d \in Clients \ {c} : rl[d].at = "dial" => smap'[d][rl[d].id] = smap[d][rl[d].id]
      BY <2>3, ReaderFacts
    <3> QED
      BY <1>1, <2>1, <2>2, <3>1, <3>2 DEF LinkInv, Reader
  <2>12. Unopened' /\ HandshakeFirst'
    BY <1>1 DEF LinkInv, Unopened, HandshakeFirst
  <2> QED
    BY <2>3, <2>4, <2>5, <2>7, <2>9, <2>10, <2>11, <2>12 DEF LinkInv
<1>6. CASE CloseStreamsLocked(c) /\ Goto(c, "lost") /\ UNCHANGED <<link, by, wire>>
  BY <1>5, <1>6
<1> QED
  BY <1>4, <1>5, <1>6 DEF RunOnce

\* The end of runOnce empties the map.
LEMMA CleanupLinks == ASSUME LinkInv, NEW c \in Clients, Cleanup(c) PROVE LinkInv'
<1>1. /\ UNCHANGED <<rep, link, pump, by, wire, sent, opened>>
      /\ UNCHANGED <<mgrVars, down, ops, hpc, canc, faults>>
  BY DEF Cleanup, wireVars, envVars
<1>2. ClientTypeOK /\ ManagerTypes /\ LinkTypes
  BY TypesSplit DEF LinkInv
<1>3. ManagerTypes'
  BY <1>1, <1>2, ManagerKept
<1>4. /\ pc' \in [Clients -> Labels] /\ pc'[c] = "lost" /\ \A d \in Clients \ {c} : pc'[d] = pc[d]
      /\ pub' \in [Clients -> Conns \cup {0}] /\ \A d \in Clients : pub'[d] \in {pub[d], 0}
  BY <1>2 DEF Cleanup, Goto, LinkTypes, Labels
<1>5. /\ rl' \in [Clients -> [at : {"off", "read", "dial", "accept", "ret"}, id : Ids \cup {0}]]
      /\ rl'[c].at = "off" /\ \A d \in Clients \ {c} : rl'[d] = rl[d]
  BY <1>2 DEF Cleanup, LinkTypes
<1>6. /\ smap' \in [Clients -> [Ids -> Conns \cup {0}]]
      /\ tcp' \in [Conns -> [Ids -> {"none", "open", "eof", "closed"}]]
      /\ \A d \in Clients, j \in Ids : smap'[d][j] = IF d = c THEN 0 ELSE smap[d][j]
      /\ \A j \in Conns, i \in Ids : tcp'[j][i] = tcp[j][i] \/ (tcp'[j][i] = "closed" /\ by[j] # 0)
      /\ MapOwned' /\ Reachable'
  BY <1>1, CloseStreamsFacts DEF Cleanup
<1>7. ClientTypeOK'
  BY <1>1, <1>2, <1>3, <1>4, <1>5, <1>6, TypesSplit DEF LinkTypes
<1>8. Undialled' /\ Unopened' /\ HandshakeFirst'
  BY <1>1, <1>6 DEF LinkInv, Undialled, Unopened, HandshakeFirst
<1>9. LinkOwned'
  BY <1>1, <1>4, <1>6 DEF LinkInv, LinkOwned, Linked
<1>10. Published' /\ Greeted'
  BY <1>1, <1>4 DEF LinkInv, Published, Greeted, Registered
<1>11. Reader'
  <2>1. \A d \in Clients \ {c} : rl[d].at = "dial" => smap'[d][rl[d].id] = smap[d][rl[d].id]
    BY <1>6, ReaderFacts
  <2> QED
    BY <1>1, <1>4, <1>5, <2>1 DEF LinkInv, Reader
<1> QED
  BY <1>6, <1>7, <1>8, <1>9, <1>10, <1>11 DEF LinkInv
-----------------------------------------------------------------------------
(* readLoop.                                                               *)
LEMMA OnlineLinks == ASSUME LinkInv, NEW c \in Clients, Online(c) PROVE LinkInv'
<1>1. /\ UNCHANGED <<rep, link, smap, tcp, pump, by, wire, sent, opened>>
      /\ UNCHANGED <<enabled, running, cur, base, down, ops, hpc, canc, faults>> /\ mstate' = "online"
      /\ pc[c] = "online" /\ Registered(link[c]) /\ link[c] \in Conns
  BY DEF Online, SetState, streamVars, wireVars, envVars, LinkInv, Greeted, LinkOwned, Linked
<1>2. ManagerTypes /\ LinkTypes
  BY TypesSplit DEF LinkInv
<1>3. /\ pc' \in [Clients -> Labels] /\ pc'[c] = "serve" /\ \A d \in Clients \ {c} : pc'[d] = pc[d]
      /\ pub' \in [Clients -> Conns \cup {0}] /\ pub'[c] = link[c] /\ \A d \in Clients \ {c} : pub'[d] = pub[d]
  BY <1>1, <1>2 DEF Online, Goto, LinkTypes, Labels
<1>4. /\ rl' \in [Clients -> [at : {"off", "read", "dial", "accept", "ret"}, id : Ids \cup {0}]]
      /\ rl'[c].at = "read" /\ \A d \in Clients \ {c} : rl'[d] = rl[d]
  BY <1>2 DEF Online, LinkTypes
<1>5. ManagerTypes'
  BY <1>1, <1>2 DEF ManagerTypes
<1>6. ClientTypeOK'
  BY <1>1, <1>2, <1>3, <1>4, <1>5, TypesSplit DEF LinkTypes
<1>7. Undialled' /\ Unopened' /\ HandshakeFirst' /\ MapOwned' /\ Reachable'
  BY <1>1 DEF LinkInv, Undialled, Unopened, HandshakeFirst, MapOwned, Reachable
<1>8. LinkOwned'
  BY <1>1, <1>3 DEF LinkInv, LinkOwned, Linked
<1>9. Published' /\ Greeted'
  BY <1>1, <1>3 DEF LinkInv, Published, Greeted, Registered
<1>10. Reader'
  BY <1>1, <1>3, <1>4 DEF LinkInv, Reader
<1> QED
  BY <1>6, <1>7, <1>8, <1>9, <1>10 DEF LinkInv

\* Readers of different clients are on different connections.
LEMMA ReaderGoesOn ==
  ASSUME LinkInv, NEW c \in Clients, rl[c].at # "off", NEW l \in {"read", "ret"}, ReadAt(c, l, 0),
         UNCHANGED <<pc, link, opened>>,
         \A k \in Conns : k # link[c] => sent'[k] = sent[k] /\ pump'[k] = pump[k],
         \A d \in Clients, i \in Ids : smap'[d][i] \in {smap[d][i], 0}
  PROVE  Reader' /\ rl' \in [Clients -> [at : {"off", "read", "dial", "accept", "ret"}, id : Ids \cup {0}]]
<1>1. rl \in [Clients -> [at : {"off", "read", "dial", "accept", "ret"}, id : Ids \cup {0}]]
  BY DEF LinkInv, ClientTypeOK
<1>2. /\ rl' \in [Clients -> [at : {"off", "read", "dial", "accept", "ret"}, id : Ids \cup {0}]]
      /\ rl'[c].at = l /\ \A d \in Clients \ {c} : rl'[d] = rl[d]
  BY <1>1 DEF ReadAt
<1>3. pc[c] \in {"serve", "drain"} /\ by[link[c]] = c
  BY ReaderFacts
<1>4. ASSUME NEW d \in Clients \ {c}, rl[d].at \in {"dial", "accept"}
      PROVE  link[d] \in Conns /\ link[d] # link[c] /\ rl[d].id \in Ids
  BY <1>3, <1>4, ReaderFacts
<1>5. Reader'
  <2>1. \A d \in Clients \ {c} : rl[d].at \in {"dial", "accept"} =>
           sent'[link[d]] = sent[link[d]] /\ pump'[link[d]] = pump[link[d]]
           /\ smap'[d][rl[d].id] \in {smap[d][rl[d].id], 0}
    BY <1>4
  <2> QED
    BY <1>2, <1>3, <2>1 DEF LinkInv, Reader
<1> QED
  BY <1>2, <1>5

LEMMA ReadFailsLinks == ASSUME LinkInv, NEW c \in Clients, ReadFails(c) PROVE LinkInv'
<1>1. /\ UNCHANGED <<rep, pc, link, pub, smap, tcp, pump, by, wire, sent, opened>>
      /\ UNCHANGED <<mgrVars, down, ops, hpc, canc>> /\ (UNCHANGED faults \/ MayFault)
      /\ rl[c].at # "off" /\ ReadAt(c, "ret", 0)
      /\ \A d \in Clients, i \in Ids : smap'[d][i] \in {smap[d][i], 0}
  BY DEF ReadFails, streamVars, wireVars, Reading
<1>2. ClientTypeOK /\ ManagerTypes /\ LinkTypes
  BY TypesSplit DEF LinkInv
<1>3. Reader' /\ rl' \in [Clients -> [at : {"off", "read", "dial", "accept", "ret"}, id : Ids \cup {0}]]
  BY <1>1, ReaderGoesOn
<1>4. ManagerTypes'
  BY <1>1, <1>2, ManagerKept
<1>5. ClientTypeOK'
  BY <1>1, <1>2, <1>3, <1>4, TypesSplit DEF LinkTypes
<1>6. Undialled' /\ Unopened' /\ HandshakeFirst' /\ MapOwned' /\ Reachable' /\ LinkOwned' /\ Published' /\ Greeted'
  BY <1>1 DEF LinkInv, Undialled, Unopened, HandshakeFirst, MapOwned, Reachable, LinkOwned, Linked, Published, Greeted, Registered
<1> QED
  BY <1>3, <1>5, <1>6 DEF LinkInv

\* The relay gives an id once per connection: nothing of it is left anywhere.
LEMMA HandleOpenLinks == ASSUME LinkInv, NEW c \in Clients, NEW i \in Ids, HandleOpen(c, i) PROVE LinkInv'
<1> DEFINE k == link[c]
<1>1. /\ UNCHANGED <<rep, pc, link, pub, smap, tcp, pump, by, wire, sent>>
      /\ UNCHANGED <<mgrVars, down, ops, hpc, canc, faults>>
      /\ rl[c].at = "read" /\ i \notin opened[k]
  BY DEF HandleOpen, streamVars, envVars, Reading
<1>2. ClientTypeOK /\ ManagerTypes /\ LinkTypes
  BY TypesSplit DEF LinkInv
<1>3. k \in Conns /\ by[k] = c /\ pc[c] \in {"serve", "drain"} /\ smap[c][i] \in {0, k}
  BY <1>1, ReaderFacts
<1>4. /\ rl' \in [Clients -> [at : {"off", "read", "dial", "accept", "ret"}, id : Ids \cup {0}]]
      /\ rl'[c].at = "dial" /\ rl'[c].id = i /\ \A d \in Clients \ {c} : rl'[d] = rl[d]
  BY <1>2 DEF HandleOpen, ReadAt, LinkTypes
<1>5. /\ opened' \in [Conns -> SUBSET Ids] /\ i \in opened'[k]
      /\ \A j \in Conns : opened[j] \subseteq opened'[j]
  BY <1>2, <1>3 DEF HandleOpen, LinkTypes
<1>6. ManagerTypes'
  BY <1>1, <1>2, ManagerKept
<1>7. ClientTypeOK'
  BY <1>1, <1>2, <1>4, <1>5, <1>6, TypesSplit DEF LinkTypes
<1>8. Undialled' /\ HandshakeFirst' /\ Reachable' /\ LinkOwned' /\ Published' /\ Greeted'
  BY <1>1 DEF LinkInv, Undialled, HandshakeFirst, Reachable, LinkOwned, Linked, Published, Greeted, Registered
<1>9. MapOwned'
  <2>1. \A d \in Clients, j \in Ids : smap[d][j] # 0 => smap[d][j] \in Conns
    BY <1>2 DEF LinkTypes
  <2> QED
    BY <1>1, <1>5, <2>1 DEF LinkInv, MapOwned
<1>10. Unopened'
  BY <1>1, <1>5 DEF LinkInv, Unopened
<1>11. Reader'
  <2>1. smap[c][i] = 0
    BY <1>1, <1>3 DEF LinkInv, MapOwned
  <2>2. CloseOf(i) \notin sent[k] /\ pump[k][i] = "off"
    BY <1>1, <1>3 DEF LinkInv, Unopened
  <2>3. \A d \in Clients \ {c} : rl[d].at \in {"dial", "accept"} => opened[link[d]] \subseteq opened'[link[d]]
    BY <1>5, ReaderFacts
  <2>4. ASSUME NEW d \in Clients \ {c}
        PROVE  /\ rl'[d].at # "off" => pc'[d] \in {"serve", "drain"}
               /\ rl'[d].at \in {"dial", "accept"} =>
                    /\ rl'[d].id \in opened'[link'[d]]
                    /\ CloseOf(rl'[d].id) \notin sent'[link'[d]] /\ pump'[link'[d]][rl'[d].id] = "off"
               /\ rl'[d].at = "dial" => smap'[d][rl'[d].id] = 0
    BY <1>1, <1>4, <2>3 DEF LinkInv, Reader
  <2>5. /\ rl'[c].id \in opened'[link'[c]] /\ pc'[c] \in {"serve", "drain"}
        /\ CloseOf(rl'[c].id) \notin sent'[link'[c]] /\ pump'[link'[c]][rl'[c].id] = "off"
        /\ smap'[c][rl'[c].id] = 0
    BY <1>1, <1>3, <1>4, <1>5, <2>1, <2>2
  <2> QED
    BY <1>4, <2>4, <2>5 DEF Reader
<1> QED
  BY <1>7, <1>8, <1>9, <1>10, <1>11 DEF LinkInv

\* A write or a pump on one connection, for a stream that is not being opened.
LEMMA ReaderElsewhere ==
  ASSUME LinkInv, NEW k \in Conns, UNCHANGED <<pc, link, rl, opened>>,
         \A j \in Conns : j # k => sent'[j] = sent[j] /\ pump'[j] = pump[j],
         \A d \in Clients, i \in Ids : smap'[d][i] \in {smap[d][i], 0},
         \A c \in Clients : rl[c].at \in {"dial", "accept"} /\ link[c] = k =>
           CloseOf(rl[c].id) \notin sent'[k] /\ pump'[k][rl[c].id] = "off"
  PROVE  Reader'
<1> SUFFICES ASSUME NEW c \in Clients
             PROVE  /\ rl[c].at # "off" => pc[c] \in {"serve", "drain"}
                    /\ rl[c].at \in {"dial", "accept"} =>
                         /\ rl[c].id \in opened[link[c]]
                         /\ CloseOf(rl[c].id) \notin sent'[link[c]] /\ pump'[link[c]][rl[c].id] = "off"
                    /\ rl[c].at = "dial" => smap'[c][rl[c].id] = 0
  BY DEF Reader
<1>1. CASE rl[c].at \notin {"dial", "accept"}
  BY <1>1 DEF LinkInv, Reader
<1>2. CASE rl[c].at \in {"dial", "accept"}
  <2>1. link[c] \in Conns /\ rl[c].id \in Ids
    BY <1>2, ReaderFacts
  <2>2. CASE link[c] = k
    BY <1>2, <2>1, <2>2 DEF LinkInv, Reader
  <2>3. CASE link[c] # k
    BY <1>2, <2>1, <2>3 DEF LinkInv, Reader
  <2> QED
    BY <2>2, <2>3
<1> QED
  BY <1>1, <1>2

\* A stream's close frame, on a connection past its handshake.
LEMMA CloseWrite ==
  ASSUME LinkInv, NEW k \in Conns, NEW i \in Ids, Write(k, CloseOf(i)), Registered(k), i \in opened[k],
         UNCHANGED <<pc, link, by, wire, opened, pub, rep>>,
         \A j \in Conns, x \in Ids : pump'[j][x] # "off" => pump[j][x] # "off"
  PROVE  /\ sent' \in [Conns -> SUBSET Frames] /\ HandshakeFirst' /\ Greeted' /\ Published' /\ Unopened'
         /\ \A j \in Conns : by[j] = 0 => sent'[j] = {}
         /\ \A j \in Conns : sent'[j] # sent[j] => j = k
         /\ sent'[k] \subseteq sent[k] \cup {CloseOf(i)}
<1>1. /\ sent' \in [Conns -> SUBSET Frames]
      /\ \A j \in Conns : sent[j] \subseteq sent'[j] /\ sent'[j] \subseteq sent[j] \cup {CloseOf(i)}
      /\ \A j \in Conns : sent'[j] # sent[j] => j = k
  BY WriteFacts, FramesApart DEF LinkInv
<1>2. /\ HandshakeFirst' /\ Greeted' /\ \A j \in Conns : Registered(j) => Registered(j)'
      /\ \A j \in Conns : by[j] = 0 => sent'[j] = {}
  BY LateWrite, FramesApart
<1>3. Published'
  BY <1>2 DEF LinkInv, ClientTypeOK, Published
<1>4. Unopened'
  <2>1. ASSUME NEW j \in Conns, NEW x \in Ids, x \notin opened[j] PROVE CloseOf(x) \notin sent'[j]
    <3>1. CloseOf(x) \notin sent[j]
      BY <2>1 DEF LinkInv, Unopened
    <3>2. CASE j # k
      BY <1>1, <3>1, <3>2
    <3>3. CASE j = k
      BY <1>1, <2>1, <3>1, <3>3, FramesApart
    <3> QED
      BY <3>2, <3>3
  <2>2. \A j \in Conns, x \in Ids : x \notin opened[j] => pump'[j][x] = "off"
    BY DEF LinkInv, Unopened
  <2> QED
    BY <2>1, <2>2 DEF Unopened
<1> QED
  BY <1>1, <1>2, <1>3, <1>4

\* What the steps of streams leave alone.
StreamStep ==
  /\ UNCHANGED <<rep, pc, link, pub, by, wire, opened>>
  /\ UNCHANGED <<mgrVars, down, ops, hpc, canc>> /\ (UNCHANGED faults \/ MayFault)

ReaderTypes == rl' \in [Clients -> [at : {"off", "read", "dial", "accept", "ret"}, id : Ids \cup {0}]]
PumpTypes == pump' \in [Conns -> [Ids -> {"off", "read", "told", "done"}]]

LEMMA StreamTypes ==
  ASSUME LinkInv, StreamStep, ReaderTypes, PumpTypes,
         smap' \in [Clients -> [Ids -> Conns \cup {0}]],
         tcp' \in [Conns -> [Ids -> {"none", "open", "eof", "closed"}]],
         sent' \in [Conns -> SUBSET Frames]
  PROVE  ClientTypeOK'
<1>1. ClientTypeOK /\ LinkTypes
  BY TypesSplit DEF LinkInv
<1>2. ManagerTypes'
  BY <1>1, ManagerKept DEF StreamStep
<1> QED
  BY <1>1, <1>2, TypesSplit DEF LinkTypes, StreamStep, ReaderTypes, PumpTypes

\* A stream is closed, by whichever goroutine.
LEMMA CloseLinks ==
  ASSUME LinkInv, StreamStep, NEW c \in Clients, NEW i \in Ids, CloseStream(c, i), UNCHANGED sent,
         ReaderTypes, PumpTypes, \A j \in Conns, x \in Ids : pump'[j][x] # "off" <=> pump[j][x] # "off",
         Reader'
  PROVE  LinkInv'
<1>1. UNCHANGED <<rep, pc, link, pub, by, wire, opened>>
  BY DEF StreamStep
<1>2. /\ smap' \in [Clients -> [Ids -> Conns \cup {0}]]
      /\ tcp' \in [Conns -> [Ids -> {"none", "open", "eof", "closed"}]]
      /\ \A k \in Conns, j \in Ids : tcp'[k][j] = tcp[k][j] \/ (tcp'[k][j] = "closed" /\ by[k] # 0)
      /\ LinkOwned' /\ MapOwned' /\ Reachable'
  BY <1>1, CloseStreamFacts
<1>3. ClientTypeOK'
  BY <1>2, StreamTypes DEF LinkInv, ClientTypeOK
<1>4. Undialled'
  <2>1. \A k \in Conns, j \in Ids : by[k] = 0 => tcp'[k][j] = "none" /\ pump'[k][j] \in {"off"}
    <3>1. pump' \in [Conns -> [Ids -> {"off", "read", "told", "done"}]]
      BY DEF PumpTypes
    <3> QED
      BY <1>2, <3>1 DEF LinkInv, Undialled
  <2> QED
    BY <1>1, <2>1 DEF LinkInv, Undialled
<1>5. HandshakeFirst' /\ Greeted' /\ Published' /\ Unopened'
  BY <1>1 DEF LinkInv, HandshakeFirst, Greeted, Published, Registered, Unopened
<1> QED
  BY <1>2, <1>3, <1>4, <1>5 DEF LinkInv

LEMMA OpenStreamLinks == ASSUME LinkInv, NEW c \in Clients, OpenStream(c), StreamStep PROVE LinkInv'
<1>1. rl[c].at = "dial"
  BY DEF OpenStream
<1>2. PICK k \in Conns, i \in Ids : k = link[c] /\ i = rl[c].id
  BY <1>1, ReaderFacts
<1>3. /\ by[k] = c /\ c # 0 /\ pc[c] \in {"serve", "drain"} /\ Registered(k)
      /\ i \in opened[k] /\ CloseOf(i) \notin sent[k] /\ pump[k][i] = "off" /\ smap[c][i] = 0
  BY <1>1, <1>2, ReaderFacts DEF LinkInv, Reader
<1>4. ClientTypeOK
  BY DEF LinkInv
<1>5. UNCHANGED <<rep, pc, link, pub, by, wire, opened, pump>> /\ PumpTypes
  BY <1>4 DEF StreamStep, OpenStream, PumpTypes, ClientTypeOK
<1>6. CASE /\ smap' = [smap EXCEPT ![c][i] = k] /\ tcp' = [tcp EXCEPT ![k][i] = "open"]
           /\ ReadAt(c, "accept", i) /\ UNCHANGED <<sent, faults>>
  <2>1. /\ smap' \in [Clients -> [Ids -> Conns \cup {0}]] /\ smap'[c][i] = k
        /\ \A d \in Clients, j \in Ids : d # c \/ j # i => smap'[d][j] = smap[d][j]
    BY <1>4, <1>6 DEF ClientTypeOK
  <2>2. /\ tcp' \in [Conns -> [Ids -> {"none", "open", "eof", "closed"}]]
        /\ \A x \in Conns, j \in Ids : x # k \/ j # i => tcp'[x][j] = tcp[x][j]
    BY <1>4, <1>6 DEF ClientTypeOK
  <2>3. /\ ReaderTypes /\ rl'[c].at = "accept" /\ rl'[c].id = i
        /\ \A d \in Clients \ {c} : rl'[d] = rl[d]
    BY <1>4, <1>6 DEF ReadAt, ClientTypeOK, ReaderTypes
  <2>4. ClientTypeOK'
    BY <1>4, <1>5, <1>6, <2>1, <2>2, <2>3, StreamTypes DEF ClientTypeOK
  <2>5. Undialled'
    BY <1>3, <1>5, <1>6, <2>2 DEF LinkInv, Undialled
  <2>6. LinkOwned'
    BY <1>2, <1>5, <2>1 DEF LinkInv, LinkOwned, Linked
  <2>7. MapOwned'
    BY <1>3, <1>5, <2>1 DEF LinkInv, MapOwned
  <2>8. Reachable'
    <3> SUFFICES ASSUME NEW x \in Conns, NEW j \in Ids, tcp'[x][j] \in {"open", "eof"}
                 PROVE  smap'[by'[x]][j] = x
      BY DEF Reachable
    <3>1. CASE x = k /\ j = i
      BY <1>3, <1>5, <2>1, <3>1
    <3>2. CASE x # k \/ j # i
      <4>1. smap[by[x]][j] = x /\ by[x] \in Clients /\ x # 0
        BY <1>4, <2>2, <3>2, ClientConstants DEF LinkInv, Reachable, Undialled, ClientTypeOK
      <4> QED
        BY <1>3, <1>5, <2>1, <4>1
    <3> QED
      BY <3>1, <3>2
  <2>9. HandshakeFirst' /\ Greeted' /\ Published' /\ Unopened'
    BY <1>5, <1>6 DEF LinkInv, HandshakeFirst, Greeted, Published, Registered, Unopened
  <2>10. Reader'
    <3>1. \A d \in Clients \ {c} : rl[d].at = "dial" => smap'[d][rl[d].id] = smap[d][rl[d].id]
      BY <2>1, ReaderFacts
    <3> QED
      BY <1>2, <1>3, <1>5, <1>6, <2>3, <3>1 DEF LinkInv, Reader
  <2> QED
    BY <2>4, <2>5, <2>6, <2>7, <2>8, <2>9, <2>10 DEF LinkInv
<1>7. CASE Write(k, CloseOf(i)) /\ ReadAt(c, "ret", 0) /\ UNCHANGED <<smap, tcp>>
  <2>1. /\ sent' \in [Conns -> SUBSET Frames] /\ HandshakeFirst' /\ Greeted' /\ Published' /\ Unopened'
        /\ \A j \in Conns : by[j] = 0 => sent'[j] = {}
        /\ \A j \in Conns : sent'[j] # sent[j] => j = k
    BY <1>3, <1>5, <1>7, CloseWrite
  <2>2. Reader' /\ ReaderTypes
    BY <1>1, <1>2, <1>5, <1>7, <2>1, ReaderGoesOn DEF ReaderTypes
  <2>3. ClientTypeOK'
    BY <1>4, <1>5, <1>7, <2>1, <2>2, StreamTypes DEF ClientTypeOK
  <2>4. Undialled' /\ LinkOwned' /\ MapOwned' /\ Reachable'
    BY <1>5, <1>7, <2>1 DEF LinkInv, Undialled, LinkOwned, Linked, MapOwned, Reachable
  <2> QED
    BY <2>1, <2>2, <2>3, <2>4 DEF LinkInv
<1> QED
  BY <1>2, <1>6, <1>7 DEF OpenStream, CloseOf

LEMMA AcceptLinks == ASSUME LinkInv, NEW c \in Clients, Accept(c), StreamStep PROVE LinkInv'
<1>1. rl[c].at = "accept"
  BY DEF Accept
<1>2. PICK k \in Conns, i \in Ids : k = link[c] /\ i = rl[c].id
  BY <1>1, ReaderFacts
<1>3. by[k] = c /\ c # 0 /\ Registered(k) /\ i \in opened[k]
  BY <1>1, <1>2, ReaderFacts DEF LinkInv, Reader
<1>4. ClientTypeOK
  BY DEF LinkInv
<1>5. UNCHANGED <<rep, pc, link, pub, by, wire, opened>>
  BY DEF StreamStep
<1>6. CASE /\ Write(k, AcceptOf(i)) /\ pump' = [pump EXCEPT ![k][i] = "read"]
           /\ ReadAt(c, "read", 0) /\ UNCHANGED <<smap, tcp>>
  <2>1. /\ sent' \in [Conns -> SUBSET Frames] /\ HandshakeFirst' /\ Greeted'
        /\ \A j \in Conns : Registered(j) => Registered(j)'
        /\ \A j \in Conns : by[j] = 0 => sent'[j] = {}
    BY <1>3, <1>5, <1>6, LateWrite, FramesApart
  <2>2. /\ \A j \in Conns : sent'[j] \subseteq sent[j] \cup {AcceptOf(i)}
        /\ \A j \in Conns : sent'[j] # sent[j] => j = k
    BY <1>4, <1>6, WriteFacts, FramesApart
  <2>3. /\ PumpTypes
        /\ \A j \in Conns, x \in Ids : j # k \/ x # i => pump'[j][x] = pump[j][x]
        /\ \A j \in Conns : j # k => pump'[j] = pump[j]
    BY <1>4, <1>6 DEF ClientTypeOK, PumpTypes
  <2>4. Reader' /\ ReaderTypes
    BY <1>1, <1>2, <1>5, <1>6, <2>2, <2>3, ReaderGoesOn DEF ReaderTypes
  <2>5. ClientTypeOK'
    BY <1>4, <1>6, <2>1, <2>3, <2>4, StreamTypes DEF ClientTypeOK
  <2>6. Undialled'
    BY <1>3, <1>5, <1>6, <2>1, <2>3 DEF LinkInv, Undialled
  <2>7. LinkOwned' /\ MapOwned' /\ Reachable'
    BY <1>5, <1>6 DEF LinkInv, LinkOwned, Linked, MapOwned, Reachable
  <2>8. Published'
    <3>1. \A j \in Conns, x \in Ids : pump'[j][x] # "off" => Registered(j)
      BY <1>3, <2>3 DEF LinkInv, Published
    <3>2. /\ \A d \in Clients : pub[d] # 0 => pub[d] \in Conns /\ Registered(pub[d])
          /\ rep.at = "conn" => rep.c # 0
          /\ rep.at = "write" => rep.k # 0 /\ rep.k \in Conns /\ Registered(rep.k)
      BY <1>4 DEF LinkInv, ClientTypeOK, Published
    <3> QED
      BY <1>5, <2>1, <3>1, <3>2 DEF Published
  <2>9. Unopened'
    <3>1. ASSUME NEW j \in Conns, NEW x \in Ids, x \notin opened[j] PROVE CloseOf(x) \notin sent'[j]
      <4>1. CloseOf(x) \notin sent[j] /\ CloseOf(x) # AcceptOf(i)
        BY <3>1, FramesApart DEF LinkInv, Unopened
      <4> QED
        BY <2>2, <4>1
    <3>2. \A j \in Conns, x \in Ids : x \notin opened[j] => pump'[j][x] = "off"
      BY <1>3, <2>3 DEF LinkInv, Unopened
    <3> QED
      BY <1>5, <3>1, <3>2 DEF Unopened
  <2> QED
    BY <2>1, <2>4, <2>5, <2>6, <2>7, <2>8, <2>9 DEF LinkInv
<1>7. CASE CloseStream(c, i) /\ ReadAt(c, "ret", 0) /\ UNCHANGED <<sent, pump>>
  <2>1. \A d \in Clients, j \in Ids : smap'[d][j] \in {smap[d][j], 0}
    BY <1>5, <1>7, CloseStreamFacts
  <2>2. Reader' /\ ReaderTypes
    BY <1>1, <1>5, <1>7, <2>1, ReaderGoesOn DEF ReaderTypes
  <2>3. PumpTypes
    BY <1>4, <1>7 DEF ClientTypeOK, PumpTypes
  <2> QED
    BY <1>7, <2>2, <2>3, CloseLinks
<1> QED
  BY <1>2, <1>6, <1>7 DEF Accept, AcceptOf

\* A data frame or a close frame arrives: its reader is opening nothing.
LEMMA FrameLinks ==
  ASSUME LinkInv, NEW c \in Clients, NEW i \in Ids, HandleData(c, i) \/ HandleClose(c, i), StreamStep
  PROVE  LinkInv'
<1>1. rl[c].at = "read" /\ UNCHANGED <<pump, rl>>
  BY DEF HandleData, HandleClose, Reading
<1>2. PICK k \in Conns : k = link[c]
  BY <1>1, ReaderFacts
<1>3. by[k] = c /\ Registered(k) /\ i \in opened[k]
  BY <1>1, <1>2, ReaderFacts DEF HandleData, HandleClose
<1>4. ClientTypeOK
  BY DEF LinkInv
<1>5. UNCHANGED <<rep, pc, link, pub, by, wire, opened>> /\ PumpTypes /\ ReaderTypes
  BY <1>1, <1>4 DEF StreamStep, PumpTypes, ReaderTypes, ClientTypeOK
<1>6. CASE Write(k, CloseOf(i)) /\ UNCHANGED <<smap, tcp>>
  <2>1. /\ sent' \in [Conns -> SUBSET Frames] /\ HandshakeFirst' /\ Greeted' /\ Published' /\ Unopened'
        /\ \A j \in Conns : by[j] = 0 => sent'[j] = {}
        /\ \A j \in Conns : sent'[j] # sent[j] => j = k
    BY <1>1, <1>3, <1>5, <1>6, CloseWrite
  <2>2. \A d \in Clients : rl[d].at \in {"dial", "accept"} => link[d] # k
    BY <1>1, <1>3, ReaderFacts
  <2>3. Reader'
    BY <1>1, <1>5, <1>6, <2>1, <2>2, ReaderElsewhere
  <2>4. ClientTypeOK'
    BY <1>4, <1>5, <1>6, <2>1, StreamTypes DEF ClientTypeOK
  <2>5. Undialled' /\ LinkOwned' /\ MapOwned' /\ Reachable'
    BY <1>1, <1>5, <1>6, <2>1 DEF LinkInv, Undialled, LinkOwned, Linked, MapOwned, Reachable
  <2> QED
    BY <2>1, <2>3, <2>4, <2>5 DEF LinkInv
<1>7. CASE CloseStream(c, i) /\ UNCHANGED sent
  <2>1. \A d \in Clients, j \in Ids : smap'[d][j] \in {smap[d][j], 0}
    BY <1>5, <1>7, CloseStreamFacts
  <2>2. \A d \in Clients : rl[d].at \in {"dial", "accept"} => link[d] # k
    BY <1>1, <1>3, ReaderFacts
  <2>3. Reader'
    BY <1>1, <1>5, <1>7, <2>1, <2>2, ReaderElsewhere
  <2> QED
    BY <1>1, <1>5, <1>7, <2>3, CloseLinks
<1> QED
  BY <1>2, <1>6, <1>7 DEF HandleData, HandleClose, CloseOf

\* A pump runs for a stream that is open, so readLoop is not opening it.
LEMMA PumpLinks ==
  ASSUME LinkInv, NEW k \in Conns, NEW i \in Ids,
         (PumpEnds(k, i) \/ PumpWriteFails(k, i)) /\ PumpFrame
  PROVE  LinkInv'
<1>1. pump[k][i] # "off" /\ UNCHANGED rl
  BY DEF PumpEnds, PumpWriteFails, PumpFrame
<1>2. ClientTypeOK
  BY DEF LinkInv
<1>3. Registered(k) /\ i \in opened[k] /\ by[k] \in Clients
  BY <1>1, <1>2 DEF LinkInv, Published, Unopened, Registered, ClientTypeOK
<1>4. StreamStep /\ ReaderTypes
  BY <1>2 DEF PumpFrame, StreamStep, envVars, ReaderTypes, ClientTypeOK
<1>5. UNCHANGED <<rep, pc, link, pub, by, wire, opened>>
  BY <1>4 DEF StreamStep
<1>6. PICK s \in {"told", "done"} : pump' = [pump EXCEPT ![k][i] = s]
  BY DEF PumpEnds, PumpWriteFails
<1>7. /\ PumpTypes /\ \A j \in Conns : j # k => pump'[j] = pump[j]
      /\ \A j \in Conns, x \in Ids : j # k \/ x # i => pump'[j][x] = pump[j][x]
      /\ \A j \in Conns, x \in Ids : pump'[j][x] # "off" <=> pump[j][x] # "off"
  <2>1. pump \in [Conns -> [Ids -> {"off", "read", "told", "done"}]]
    BY <1>2 DEF ClientTypeOK
  <2>2. PumpTypes /\ pump'[k][i] = s /\ \A j \in Conns : j # k => pump'[j] = pump[j]
    BY <1>6, <2>1 DEF PumpTypes
  <2>3. \A j \in Conns, x \in Ids : j # k \/ x # i => pump'[j][x] = pump[j][x]
    BY <1>6, <2>1
  <2> QED
    BY <1>1, <2>2, <2>3
<1>8. \A c \in Clients : rl[c].at \in {"dial", "accept"} /\ link[c] = k =>
        /\ rl[c].id \in Ids \ {i} /\ CloseOf(rl[c].id) \notin sent[k] /\ pump'[k][rl[c].id] = "off"
  BY <1>1, <1>7, ReaderFacts DEF LinkInv, Reader
<1>9. CASE Write(k, CloseOf(i)) /\ UNCHANGED <<smap, tcp>>
  <2>1. /\ sent' \in [Conns -> SUBSET Frames] /\ HandshakeFirst' /\ Greeted' /\ Published' /\ Unopened'
        /\ \A j \in Conns : by[j] = 0 => sent'[j] = {}
        /\ \A j \in Conns : sent'[j] # sent[j] => j = k
        /\ sent'[k] \subseteq sent[k] \cup {CloseOf(i)}
    BY <1>3, <1>5, <1>7, <1>9, CloseWrite
  <2>2. Reader'
    <3>1. \A c \in Clients : rl[c].at \in {"dial", "accept"} /\ link[c] = k =>
            CloseOf(rl[c].id) \notin sent'[k] /\ pump'[k][rl[c].id] = "off"
      BY <1>8, <2>1, FramesApart
    <3> QED
      BY <1>1, <1>5, <1>7, <1>9, <2>1, <3>1, ReaderElsewhere
  <2>3. ClientTypeOK'
    BY <1>2, <1>4, <1>7, <1>9, <2>1, StreamTypes DEF ClientTypeOK
  <2>4. Undialled'
    BY <1>3, <1>5, <1>7, <1>9, <2>1 DEF LinkInv, Undialled, Registered
  <2>5. LinkOwned' /\ MapOwned' /\ Reachable'
    BY <1>5, <1>9 DEF LinkInv, LinkOwned, Linked, MapOwned, Reachable
  <2> QED
    BY <2>1, <2>2, <2>3, <2>4, <2>5 DEF LinkInv
<1>10. CASE CloseStream(by[k], i) /\ UNCHANGED sent
  <2>1. \A d \in Clients, j \in Ids : smap'[d][j] \in {smap[d][j], 0}
    BY <1>3, <1>5, <1>10, CloseStreamFacts
  <2>2. Reader'
    BY <1>1, <1>5, <1>7, <1>8, <1>10, <2>1, ReaderElsewhere
  <2> QED
    BY <1>3, <1>4, <1>7, <1>10, <2>2, CloseLinks
<1> QED
  BY <1>9, <1>10 DEF PumpEnds, PumpWriteFails, CloseOf

LEMMA LocalCloseLinks == ASSUME LinkInv, NEW k \in Conns, NEW i \in Ids, LocalClose(k, i) PROVE LinkInv'
<1>1. /\ UNCHANGED <<rep, pc, link, pub, by, wire, opened, rl, smap, sent, pump>>
      /\ tcp[k][i] = "open"
  BY DEF LocalClose, wireVars
<1>2. ClientTypeOK
  BY DEF LinkInv
<1>3. /\ tcp' \in [Conns -> [Ids -> {"none", "open", "eof", "closed"}]]
      /\ \A j \in Conns, x \in Ids : tcp'[j][x] = tcp[j][x] \/ (tcp'[j][x] = "eof" /\ tcp[j][x] = "open")
  BY <1>2 DEF LocalClose, ClientTypeOK
<1>4. StreamStep /\ ReaderTypes /\ PumpTypes
  BY <1>1, <1>2 DEF LocalClose, StreamStep, envVars, ReaderTypes, PumpTypes, ClientTypeOK
<1>5. ClientTypeOK'
  BY <1>1, <1>2, <1>3, <1>4, StreamTypes DEF ClientTypeOK
<1>6. Undialled' /\ Reachable'
  BY <1>1, <1>3 DEF LinkInv, Undialled, Reachable
<1>7. LinkOwned' /\ MapOwned' /\ HandshakeFirst' /\ Greeted' /\ Published' /\ Reader' /\ Unopened'
  BY <1>1 DEF LinkInv, LinkOwned, Linked, MapOwned, HandshakeFirst, Greeted, Published, Registered,
              Reader, Unopened
<1> QED
  BY <1>5, <1>6, <1>7 DEF LinkInv

\* The connection ReportCode read under the mutex was registered when it was
\* published, and stays so until it is closed.
LEMMA ReportLinks == ASSUME LinkInv, ReportStep PROVE LinkInv'
<1>1. UNCHANGED <<pc, link, pub, by, wire, opened, rl, smap, tcp, pump>>
      /\ UNCHANGED <<mgrVars, down, faults, hpc, canc>>
  BY DEF ReportStep, streamVars
<1>2. ClientTypeOK /\ ManagerTypes /\ LinkTypes
  BY TypesSplit DEF LinkInv
<1>3. Undialled /\ HandshakeFirst /\ Greeted /\ Published /\ Unopened /\ Reader
  BY DEF LinkInv
<1>4. LinkOwned' /\ MapOwned' /\ Reachable'
  BY <1>1 DEF LinkInv, LinkOwned, Linked, MapOwned, Reachable
<1>5. ops' \in 0 .. MaxOps
  BY <1>2, ClientConstants DEF ReportStep, ReportCode, ManagerTypes
<1>6. ManagerTypes'
  BY <1>1, <1>2, <1>5 DEF ManagerTypes, mgrVars
<1> DEFINE Reports == [at : {"idle", "conn", "write"}, c : Clients \cup {0}, k : Conns \cup {0}]
<1>7. CASE rep.at \in {"idle", "conn"} /\ UNCHANGED sent
  <2>1. /\ rep' \in Reports
        /\ rep'.at = "conn" => rep'.c # 0
        /\ rep'.at = "write" => rep'.k # 0 /\ Registered(rep'.k)
    <3>1. CASE rep.at = "idle"
      BY <1>2, <3>1 DEF ReportStep, ReportCode, ManagerTypes
    <3>2. CASE rep.at = "conn"
      <4>1. rep \in Reports
        BY <1>2 DEF LinkTypes
      <4>2. PICK d \in Clients : d = rep.c
        BY <1>3, <3>2, <4>1 DEF Published
      <4>3. CASE pub[d] = 0
        <5>1. rep' = [rep EXCEPT !.at = "idle", !.c = 0]
          BY <3>2, <4>2, <4>3 DEF ReportStep, ReportCode
        <5>2. rep'.at = "idle" /\ rep' \in Reports
          BY <4>1, <5>1
        <5> QED
          BY <5>2
      <4>4. CASE pub[d] # 0
        <5>1. rep' = [at |-> "write", c |-> 0, k |-> pub[d]]
          BY <3>2, <4>2, <4>4 DEF ReportStep, ReportCode
        <5>2. pub[d] \in Conns /\ Registered(pub[d])
          BY <1>2, <1>3, <4>4 DEF LinkTypes, Published
        <5> QED
          BY <4>4, <5>1, <5>2
      <4> QED
        BY <4>3, <4>4
    <3> QED
      BY <1>7, <3>1, <3>2
  <2>3. ClientTypeOK'
    BY <1>1, <1>2, <1>6, <1>7, <2>1, TypesSplit DEF LinkTypes
  <2>4. Published'
    BY <1>1, <1>3, <1>7, <2>1 DEF Published, Registered
  <2>5. Undialled' /\ HandshakeFirst' /\ Greeted' /\ Unopened' /\ Reader'
    BY <1>1, <1>3, <1>7 DEF Undialled, HandshakeFirst, Greeted, Registered, Unopened, Reader
  <2> QED
    BY <1>4, <2>3, <2>4, <2>5 DEF LinkInv
<1>8. CASE rep.at = "write"
  <2>1. PICK k \in Conns : k = rep.k
    BY <1>2, <1>3, <1>8 DEF LinkTypes, Published
  <2>2. Registered(k) /\ Write(k, <<"code">>) /\ rep' = [at |-> "idle", c |-> 0, k |-> 0]
    BY <1>3, <1>8, <2>1 DEF Published, ReportStep, ReportCode, Write
  <2>0. <<"code">> \in Frames
    BY DEF Frames
  <2>3. /\ sent' \in [Conns -> SUBSET Frames] /\ HandshakeFirst' /\ Greeted'
        /\ \A j \in Conns : Registered(j) => Registered(j)'
        /\ \A j \in Conns : by[j] = 0 => sent'[j] = {}
    BY <1>1, <2>0, <2>2, LateWrite, FramesApart
  <2>4. \A j \in Conns : sent'[j] \subseteq sent[j] \cup {<<"code">>}
    BY <1>2, <2>0, <2>2, WriteFacts
  <2>5. \A j \in Conns, x \in Ids : CloseOf(x) \notin sent[j] => CloseOf(x) \notin sent'[j]
    BY <2>4, FramesApart
  <2>6. ClientTypeOK'
    BY <1>1, <1>2, <1>6, <2>2, <2>3, TypesSplit DEF LinkTypes
  <2>7. Published'
    BY <1>1, <1>2, <1>3, <2>2, <2>3 DEF Published, LinkTypes
  <2>8. Undialled' /\ Unopened'
    BY <1>1, <1>3, <2>3, <2>5 DEF Undialled, Unopened
  <2>9. Reader'
    <3>1. \A c \in Clients : rl[c].at \in {"dial", "accept"} => link[c] \in Conns /\ rl[c].id \in Ids
      BY ReaderFacts
    <3> QED
      BY <1>1, <1>3, <2>5, <3>1 DEF Reader
  <2> QED
    BY <1>4, <2>3, <2>6, <2>7, <2>8, <2>9 DEF LinkInv
<1> QED
  BY <1>7, <1>8 DEF ReportStep, ReportCode
-----------------------------------------------------------------------------
LEMMA InitLinks == ClientInit => LinkInv
<1> SUFFICES ASSUME ClientInit PROVE LinkInv
  OBVIOUS
<1>1. ManagerTypes
  <2>1. hpc \in [Handlers -> {"idle", "boot", "start"}] /\ canc \in [Clients -> BOOLEAN]
    BY DEF ClientInit
  <2>2. ops \in 0 .. MaxOps /\ faults \in 0 .. MaxFaults
    BY ClientConstants DEF ClientInit
  <2> QED
    BY <2>1, <2>2 DEF ClientInit, ManagerTypes
<1>2. LinkTypes
  BY DEF ClientInit, LinkTypes, Labels
<1>3. Undialled /\ LinkOwned /\ MapOwned /\ Unopened /\ Reachable /\ HandshakeFirst
  BY DEF ClientInit, Undialled, LinkOwned, Linked, MapOwned, Unopened, Reachable, HandshakeFirst
<1>4. Greeted /\ Published /\ Reader
  BY DEF ClientInit, Greeted, Published, Reader
<1> QED
  BY <1>1, <1>2, <1>3, <1>4, TypesSplit DEF LinkInv

\* What the arms of ReadStep share.
LEMMA ReadStreamStep == ASSUME NEW c \in Clients, ReadStep(c) PROVE StreamStep
BY DEF ReadStep, OpenStream, Accept, HandleData, HandleClose, StreamStep

\* Every step keeps the invariant.
LEMMA NextLinks == LinkInv /\ [ClientNext]_vars => LinkInv'
<1> SUFFICES ASSUME LinkInv, [ClientNext]_vars PROVE LinkInv'
  OBVIOUS
<1>1. ASSUME NEW h \in Handlers, SetEnabled(h) \/ Start(h) \/ Stop(h) PROVE LinkInv'
  BY <1>1, StartLinks, ToggleSteps
<1>2. CASE Shutdown
  BY <1>2, ToggleSteps
<1>3. CASE ReportStep
  BY <1>3, ReportLinks
<1>4. ASSUME NEW c \in Clients, RunStep(c) PROVE LinkInv'
  BY <1>4, RunOnceLinks, HandshakeLinks, OnlineLinks, CleanupLinks, RunLinks DEF RunStep
<1>5. ASSUME NEW c \in Clients, ReadFails(c) \/ \E i \in Ids : HandleOpen(c, i) PROVE LinkInv'
  BY <1>5, ReadFailsLinks, HandleOpenLinks
<1>6. ASSUME NEW c \in Clients, ReadStep(c) PROVE LinkInv'
  BY <1>6, ReadStreamStep, OpenStreamLinks, AcceptLinks, FrameLinks DEF ReadStep
<1>7. ASSUME NEW k \in Conns, Watch(k) \/ Break(k) PROVE LinkInv'
  BY <1>7, BreakLinks
<1>8. ASSUME NEW k \in Conns, NEW i \in Ids,
             ((PumpEnds(k, i) \/ PumpWriteFails(k, i)) /\ PumpFrame) \/ LocalClose(k, i)
      PROVE  LinkInv'
  BY <1>8, PumpLinks, LocalCloseLinks
<1>9. CASE UNCHANGED vars
  BY <1>9 DEF vars, mgrVars, envVars, streamVars, wireVars, LinkInv, ClientTypeOK, Undialled, LinkOwned,
              Linked, MapOwned, Greeted, Published, Registered, Reader, Unopened, Reachable, HandshakeFirst
<1> QED
  BY <1>1, <1>2, <1>3, <1>4, <1>5, <1>6, <1>7, <1>8, <1>9 DEF ClientNext

LEMMA LinkAlways == ClientSpec => []LinkInv
BY InitLinks, NextLinks, PTL DEF ClientSpec

\* On every connection hello, then reg, come before everything else: a code, an
\* accept or a close that another goroutine writes is written on a connection
\* that was published after reg (client.go, runOnce and ReportCode).
THEOREM HandshakeComesFirst == ClientSpec => []HandshakeFirst
<1>1. LinkInv => HandshakeFirst
  BY DEF LinkInv
<1> QED
  BY <1>1, LinkAlways, PTL

\* No local TCP connection that is open is forgotten: it is in its client's map
\* under its id (client.go, openStream, closeStream and closeStreamsLocked).
THEOREM OpenTcpStaysReachable == ClientSpec => []OpenTcpIsReachable
<1>1. LinkInv => OpenTcpIsReachable
  BY DEF LinkInv, Reachable, OpenTcpIsReachable
<1> QED
  BY <1>1, LinkAlways, PTL
-----------------------------------------------------------------------------
AcceptRule ==
  \A k \in Conns, i \in Ids :
    CloseOf(i) \in sent[k] /\ AcceptOf(i) \notin sent[k] => AcceptOf(i) \notin sent'[k]

\* A frame that is not an accept adds none.
LEMMA OtherFrames ==
  ASSUME LinkInv, NEW k \in Conns, NEW f \in Frames, Write(k, f), \A i \in Ids : f # AcceptOf(i)
  PROVE  AcceptRule
<1>1. \A j \in Conns : sent'[j] \subseteq sent[j] \cup {f}
  BY WriteFacts DEF LinkInv
<1> QED
  BY <1>1 DEF AcceptRule

LEMMA SentKept == sent' = sent => AcceptRule
BY DEF AcceptRule

\* An accept is written before its stream has a pump, and no close was.
LEMMA AcceptStep == ASSUME LinkInv, NEW c \in Clients, Accept(c) PROVE AcceptRule
<1>1. rl[c].at = "accept"
  BY DEF Accept
<1>2. PICK k \in Conns, i \in Ids : k = link[c] /\ i = rl[c].id
  BY <1>1, ReaderFacts
<1>3. CloseOf(i) \notin sent[k]
  BY <1>1, <1>2 DEF LinkInv, Reader
<1>4. CASE Write(k, AcceptOf(i))
  <2>1. /\ \A j \in Conns : sent'[j] \subseteq sent[j] \cup {AcceptOf(i)}
        /\ \A j \in Conns : sent'[j] # sent[j] => j = k
    BY <1>4, WriteFacts, FramesApart DEF LinkInv
  <2>2. \A j \in Ids : AcceptOf(i) = AcceptOf(j) => i = j
    BY DEF AcceptOf
  <2> QED
    BY <1>3, <2>1, <2>2 DEF AcceptRule
<1> QED
  BY <1>2, <1>4, SentKept DEF Accept, AcceptOf

\* The other frames of readLoop, and the handshake.
LEMMA ClientFrames ==
  ASSUME LinkInv, NEW c \in Clients, RunStep(c) \/ ReadFails(c) \/ ReadStep(c) \/ \E i \in Ids : HandleOpen(c, i)
  PROVE  AcceptRule
<1>1. CASE HandshakeStep(c)
  <2>1. CASE sent' = sent
    BY <2>1, SentKept
  <2>2. CASE pc[c] \in {"hello", "reg"} /\ (Write(link[c], Hello) \/ Write(link[c], Reg))
    <3>1. link[c] \in Conns
      BY <2>2 DEF LinkInv, LinkOwned, Linked
    <3>2. Hello \in Frames /\ Reg \in Frames
      BY DEF Hello, Reg, Frames
    <3> QED
      BY <2>2, <3>1, <3>2, OtherFrames, FramesApart
  <2> QED
    BY <1>1, <2>1, <2>2 DEF HandshakeStep, Handshake, Hello, Reg
<1>2. CASE Accept(c)
  BY <1>2, AcceptStep
<1>3. CASE OpenStream(c) \/ \E i \in Ids : HandleData(c, i) \/ HandleClose(c, i)
  <2>1. rl[c].at # "off" /\ (OpenStream(c) => rl[c].id \in Ids)
    BY <1>3, ReaderFacts DEF OpenStream, HandleData, HandleClose, Reading
  <2>2. PICK k \in Conns : k = link[c]
    BY <2>1, ReaderFacts
  <2>3. sent' = sent \/ \E i \in Ids : Write(k, CloseOf(i))
    BY <1>3, <2>1, <2>2 DEF OpenStream, HandleData, HandleClose, CloseOf
  <2> QED
    BY <2>3, OtherFrames, FramesApart, SentKept
<1>4. CASE sent' = sent
  BY <1>4, SentKept
<1>5. ReadFails(c) \/ (\E i \in Ids : HandleOpen(c, i)) => sent' = sent
  BY DEF ReadFails, HandleOpen, wireVars
<1>6. RunStep(c) => sent' = sent \/ HandshakeStep(c)
  BY DEF RunStep, RunOnce, Online, Serve, Cleanup, Lost, Offline, Backoff, RunReturned, wireVars
<1> QED
  BY <1>1, <1>2, <1>3, <1>4, <1>5, <1>6 DEF ReadStep

LEMMA NextAccepts == LinkInv /\ [ClientNext]_vars => AcceptRule
<1> SUFFICES ASSUME LinkInv, [ClientNext]_vars PROVE AcceptRule
  OBVIOUS
<1>1. ASSUME NEW h \in Handlers, SetEnabled(h) \/ Start(h) \/ Stop(h) PROVE AcceptRule
  BY <1>1, SentKept DEF SetEnabled, Start, Stop, wireVars
<1>2. CASE Shutdown
  BY <1>2, SentKept DEF Shutdown, wireVars
<1>3. CASE ReportStep
  <2>1. CASE rep.at = "write"
    <3>1. PICK k \in Conns : k = rep.k
      BY <2>1 DEF LinkInv, ClientTypeOK, Published
    <3>2. Write(k, <<"code">>) /\ <<"code">> \in Frames
      BY <1>3, <2>1, <3>1 DEF ReportStep, ReportCode, Write, Frames
    <3> QED
      BY <3>2, OtherFrames, FramesApart
  <2> QED
    BY <1>3, <2>1, SentKept DEF ReportStep, ReportCode
<1>4. ASSUME NEW c \in Clients, RunStep(c) \/ ReadFails(c) \/ ReadStep(c) \/ \E i \in Ids : HandleOpen(c, i)
      PROVE  AcceptRule
  BY <1>4, ClientFrames
<1>5. ASSUME NEW k \in Conns, Watch(k) \/ Break(k) PROVE AcceptRule
  BY <1>5, SentKept DEF Watch, Break
<1>6. ASSUME NEW k \in Conns, NEW i \in Ids, PumpEnds(k, i) \/ PumpWriteFails(k, i) PROVE AcceptRule
  <2>1. sent' = sent \/ Write(k, CloseOf(i))
    BY <1>6 DEF PumpEnds, PumpWriteFails, CloseOf
  <2> QED
    BY <2>1, OtherFrames, FramesApart, SentKept
<1>7. ASSUME NEW k \in Conns, NEW i \in Ids, LocalClose(k, i) PROVE AcceptRule
  BY <1>7, SentKept DEF LocalClose, wireVars
<1>8. CASE UNCHANGED vars
  BY <1>8, SentKept DEF vars, wireVars
<1> QED
  BY <1>1, <1>2, <1>3, <1>4, <1>5, <1>6, <1>7, <1>8 DEF ClientNext

\* Once a close was written for a stream that was never accepted, no accept
\* follows it: the pump that writes closes starts only after the accept
\* (client.go, openStream).
THEOREM NoAcceptFollowsClose == ClientSpec => NoAcceptAfterClose
<1>1. AcceptRule => \A k \in Conns, i \in Ids :
        <<"close", i>> \in sent[k] /\ <<"accept", i>> \notin sent[k] => <<"accept", i>> \notin sent'[k]
  BY DEF AcceptRule, CloseOf, AcceptOf
<1> QED
  BY <1>1, NextAccepts, LinkAlways, PTL DEF ClientSpec, NoAcceptAfterClose
=============================================================================
