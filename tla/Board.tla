------------------------------- MODULE Board -------------------------------
(***************************************************************************)
(* Tasks and todos of the daemon and how its clients follow them: the HTTP *)
(* handlers and services (service/task.go, todo.go) over their tables      *)
(* (task_repo.go, todo_repo.go), the event bus (eventbus/bus.go), its way  *)
(* through the WebSocket hub, and the store of a client                    *)
(* (desktop/src/renderer/stores/tasks.ts, realtime.ts).                    *)
(*                                                                         *)
(* Requests run concurrently.  The pool has one database connection, so a  *)
(* statement is a step, but a change, the read of the changed row and the  *)
(* publication of that row are three steps with no lock across them.  The  *)
(* modelled client is one of those that send requests.                     *)
(***************************************************************************)
EXTENDS Integers, Sequences, FiniteSets

CONSTANTS
  Tasks, Todos,  \* ids (a row's id is a new uuid: none is used twice)
  Workers,       \* request goroutines, numbered
  BusCap,        \* capacity of a subscriber's channel of the bus
  SendCap,       \* capacity of the client's send queue (WsConn)
  MaxWork        \* bound: requests and list reads

ASSUME BoardConstants ==
  /\ Workers \subseteq Nat /\ Tasks \cap Todos = {}
  /\ BusCap \in Nat \ {0} /\ SendCap \in Nat \ {0} /\ MaxWork \in Nat

VARIABLES
  rows,     \* the tables tasks and todos
  ids,      \* ids already given to a row
  job,      \* a request goroutine
  busq,     \* the hub's channel of the bus
  wsq,      \* events on their way to the client
  replies,  \* responses on their way to the client
  listing,  \* a list response on its way to the client: the rows it read, none when empty
  view,     \* the client's store
  apart,    \* history: ids the client may see differently (each use says why)
  raced,    \* history: tasks whose status another request changed between check and update
  work      \* used up so far

tableVars == <<rows, ids>>
wireVars == <<busq, wsq, replies>>
boardVars == <<tableVars, job, wireVars, listing, view, apart, raced, work>>

Ids == Tasks \cup Todos
Statuses == {"pending", "running", "paused", "done"}

(* A row is what the client sees of it: a task's status and name, a todo's *)
(* status and task.                                                        *)
Row(st, x) == [st |-> st, x |-> x]
NoRow == Row("none", "-")
Exists(i) == rows[i] # NoRow

(* A request: where it is, the row and the patch it asks for ("keep": not  *)
(* in the patch), the row it will publish, the status it judged, and       *)
(* whether it is the modelled client's.                                    *)
NoJob == [at |-> "idle", i |-> "-", st |-> "keep", x |-> "keep", row |-> NoRow, seen |-> "-", mine |-> FALSE]
Asked(at, i, st, x, mine) == [NoJob EXCEPT !.at = at, !.i = i, !.st = st, !.x = x, !.mine = mine]

BoardInit ==
  /\ rows = [i \in Ids |-> NoRow] /\ ids = {}
  /\ job = [w \in Workers |-> NoJob]
  /\ busq = <<>> /\ wsq = <<>> /\ replies = {}
  /\ listing = <<>>
  /\ view = rows
  /\ apart = {} /\ raced = {} /\ work = 0
-----------------------------------------------------------------------------
More == work < MaxWork /\ work' = work + 1
Free(w) == job[w] = NoJob /\ \A q \in Workers : q < w => job[q] # NoJob
Is(w, at) == job[w].at = at
Fetch(w) == job' = [job EXCEPT ![w].at = "get"]
Returns(w) == job' = [job EXCEPT ![w] = NoJob]

Takes(w, j) ==
  /\ More /\ Free(w)
  /\ job' = [job EXCEPT ![w] = j]
  /\ ids' = ids \cup {j.i}
  /\ UNCHANGED <<rows, wireVars, listing, view, apart, raced>>

(* createTask, updateTask, deleteTask: a new row, a patch of the status    *)
(* (checked first) or of the name, or the end of a row.                    *)
TaskRequest(w) ==
  \E i \in Tasks, mine \in BOOLEAN :
    \/ i \notin ids /\ \E st \in Statuses : Takes(w, Asked("insert", i, st, "a", mine))
    \/ i \in ids /\ \E st \in Statuses : Takes(w, Asked("check", i, st, "keep", mine))
    \/ i \in ids /\ Takes(w, Asked("update", i, "keep", "b", mine))
    \/ i \in ids /\ Takes(w, Asked("delete", i, "keep", "keep", mine))

(* createTodo, updateTodo, deleteTodo: the status of a todo is not checked;*)
(* its task may be set or cleared.                                         *)
TodoRequest(w) ==
  \E i \in Todos, mine \in BOOLEAN :
    \/ \E x \in Tasks \cup {"-"} :
         \/ i \notin ids /\ Takes(w, Asked("insert", i, "pending", x, mine))
         \/ i \in ids /\ Takes(w, Asked("update", i, "done", x, mine))
    \/ i \in ids /\ Takes(w, Asked("delete", i, "keep", "keep", mine))

(* allowedTaskStatus.                                                      *)
Allowed(from, to) ==
  <<from, to>> \in {<<"pending", "running">>, <<"pending", "done">>,
                    <<"running", "paused">>, <<"running", "done">>, <<"running", "running">>,
                    <<"paused", "running">>, <<"paused", "done">>, <<"done", "running">>}

(* Mutant: the transition is not judged.                                   *)
CheckStatusOnly(w) ==
  /\ Is(w, "check")
  /\ job' = [job EXCEPT ![w].at = "update", ![w].seen = rows[job[w].i].st]
  /\ UNCHANGED <<tableVars, wireVars, listing, view, apart, raced, work>>

(* TaskService.Update reads the task and judges the transition.            *)
CheckStatus(w) ==
  /\ Is(w, "check")
  /\ IF Allowed(rows[job[w].i].st, job[w].st)
       THEN job' = [job EXCEPT ![w].at = "update", ![w].seen = rows[job[w].i].st]
       ELSE Returns(w)
  /\ UNCHANGED <<tableVars, wireVars, listing, view, apart, raced, work>>

(* The foreign key of a todo: its task exists or is NULL.                  *)
KeyHolds(w) == job[w].i \in Todos /\ job[w].x \in Tasks => Exists(job[w].x)

(* TaskRepo.Create and TodoRepo.Create: the INSERT.                        *)
Insert(w) ==
  /\ Is(w, "insert")
  /\ IF KeyHolds(w)
       THEN rows' = [rows EXCEPT ![job[w].i] = Row(job[w].st, job[w].x)] /\ Fetch(w)
       ELSE Returns(w) /\ UNCHANGED rows
  /\ UNCHANGED <<ids, wireVars, listing, view, apart, raced, work>>

(* TaskRepo.Update and TodoRepo.Update: the UPDATE of the patched columns, *)
(* ErrNoRows when there is no such row.  History: the status judged is no  *)
(* longer the task's.                                                      *)
Patched(w) == LET old == rows[job[w].i]
              IN  Row(IF job[w].st = "keep" THEN old.st ELSE job[w].st,
                      IF job[w].x = "keep" THEN old.x ELSE job[w].x)
Update(w) ==
  /\ Is(w, "update")
  /\ IF Exists(job[w].i) /\ KeyHolds(w)
       THEN /\ rows' = [rows EXCEPT ![job[w].i] = Patched(w)]
            /\ Fetch(w)
            /\ raced' = IF job[w].seen \notin {"-", rows[job[w].i].st} THEN raced \cup {job[w].i} ELSE raced
       ELSE Returns(w) /\ UNCHANGED <<rows, raced>>
  /\ UNCHANGED <<ids, wireVars, listing, view, apart, work>>

(* TaskRepo.Delete and TodoRepo.Delete.  ON DELETE SET NULL unbinds the    *)
(* todos of a task.  History: nothing is published about those.            *)
Unbound(i) == {d \in Todos : i \in Tasks /\ Exists(d) /\ rows[d].x = i}
Delete(w) ==
  /\ Is(w, "delete")
  /\ IF Exists(job[w].i)
       THEN /\ rows' = [r \in Ids |-> CASE r = job[w].i -> NoRow
                                         [] r \in Unbound(job[w].i) -> [rows[r] EXCEPT !.x = "-"]
                                         [] OTHER -> rows[r]]
            /\ apart' = apart \cup Unbound(job[w].i)
            /\ job' = [job EXCEPT ![w].at = "publish", ![w].row = NoRow]
       ELSE Returns(w) /\ UNCHANGED <<rows, apart>>
  /\ UNCHANGED <<ids, wireVars, listing, view, raced, work>>

(* The row is read again, for the event and the response; when it is gone  *)
(* the request fails, and publishes nothing.                               *)
Get(w) ==
  /\ Is(w, "get")
  /\ IF Exists(job[w].i)
       THEN job' = [job EXCEPT ![w].at = "publish", ![w].row = rows[job[w].i]]
       ELSE Returns(w)
  /\ UNCHANGED <<tableVars, wireVars, listing, view, apart, raced, work>>

(* The client is gone before that read: the statement stays, the read      *)
(* fails with the context, nothing is published.  History: so it is.       *)
RequestCancelled(w) ==
  /\ Is(w, "get")
  /\ Returns(w)
  /\ apart' = apart \cup {job[w].i}
  /\ UNCHANGED <<tableVars, wireVars, listing, view, raced, work>>
-----------------------------------------------------------------------------
(* Bus.Publish, which drops when the channel is full, and the response.    *)
(* History: the row was changed since it was read, or the event is         *)
(* dropped; an event with the row as it is makes up for both.              *)
Publish(w) ==
  /\ Is(w, "publish")
  /\ LET i == job[w].i
         e == [i |-> i, row |-> job[w].row]
         dropped == Len(busq) >= BusCap
     IN  /\ busq' = IF dropped THEN busq ELSE Append(busq, e)
         /\ apart' = IF dropped \/ e.row # rows[i] THEN apart \cup {i} ELSE apart \ {i}
         /\ replies' = IF job[w].mine THEN replies \cup {e} ELSE replies
  /\ Returns(w)
  /\ UNCHANGED <<tableVars, wsq, listing, view, raced, work>>

(* broadcastLoop and trySend.                                              *)
Forward ==
  /\ busq # <<>>
  /\ busq' = Tail(busq)
  /\ IF Len(wsq) < SendCap
       THEN wsq' = Append(wsq, Head(busq)) /\ UNCHANGED apart
       ELSE apart' = apart \cup {Head(busq).i} /\ UNCHANGED wsq
  /\ UNCHANGED <<tableVars, job, replies, listing, view, raced, work>>

(* Mutant: a row the store does not have yet is not added.                 *)
upsertKnown(e) == view' = IF view[e.i] = NoRow THEN view ELSE [view EXCEPT ![e.i] = e.row]

(* The client's store: upsert and removeLocal for an event ...             *)
upsert(e) == view' = [view EXCEPT ![e.i] = e.row]
ApplyEvent ==
  /\ wsq # <<>>
  /\ wsq' = Tail(wsq)
  /\ upsert(Head(wsq))
  /\ UNCHANGED <<tableVars, job, busq, replies, listing, apart, raced, work>>

(* ... and for the response of its own request.  History: both it and a    *)
(* list may be older than what the client has seen.                        *)
ApplyReply(e) ==
  /\ e \in replies
  /\ replies' = replies \ {e}
  /\ upsert(e)
  /\ apart' = IF e.row # rows[e.i] THEN apart \cup {e.i} ELSE apart
  /\ UNCHANGED <<tableVars, job, busq, wsq, listing, raced, work>>

(* load: the tasks or the todos are listed, and replace the client's.      *)
List(kind) ==
  /\ More /\ listing = <<>>
  /\ listing' = [i \in kind |-> rows[i]]
  /\ UNCHANGED <<tableVars, job, wireVars, view, apart, raced>>

load ==
  /\ listing # <<>>
  /\ listing' = <<>>
  /\ view' = [i \in Ids |-> IF i \in DOMAIN listing THEN listing[i] ELSE view[i]]
  /\ apart' = apart \cup {i \in DOMAIN listing : listing[i] # rows[i]}
  /\ UNCHANGED <<tableVars, job, wireVars, raced, work>>
-----------------------------------------------------------------------------
BoardNext ==
  \/ \E w \in Workers :
       \/ TaskRequest(w) \/ TodoRequest(w) \/ CheckStatus(w) \/ Insert(w) \/ Update(w) \/ Delete(w)
       \/ Get(w) \/ RequestCancelled(w) \/ Publish(w)
  \/ Forward \/ ApplyEvent \/ (\E e \in replies : ApplyReply(e))
  \/ List(Tasks) \/ List(Todos) \/ load

BoardSpec == BoardInit /\ [][BoardNext]_boardVars
-----------------------------------------------------------------------------
(* "so all clients stay in sync" (eventbus/doc.go:4), as far as the code   *)
(* goes: once no request, event, response or list is under way, the client *)
(* sees every row as the tables have it, except where an event was dropped *)
(* or never published, was published after a later change, or a response   *)
(* or list was overtaken by one.                                           *)
ClientInSync ==
  (\A w \in Workers : job[w] = NoJob) /\ busq = <<>> /\ wsq = <<>> /\ replies = {} /\ listing = <<>>
    => \A i \in Ids \ apart : view[i] = rows[i]

(* Every change of a task's status is one allowedTaskStatus lists, unless  *)
(* another request changed the status after the check had read it.         *)
TransitionsAllowed ==
  [][\A i \in Tasks : /\ rows[i].st # rows'[i].st
                      /\ rows[i] # NoRow /\ rows'[i] # NoRow
       => Allowed(rows[i].st, rows'[i].st) \/ i \in raced']_boardVars
=============================================================================
