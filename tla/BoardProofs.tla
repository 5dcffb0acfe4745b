---------------------------- MODULE BoardProofs ----------------------------
(***************************************************************************)
(* For any tasks, todos, concurrent requests and channel capacities: the   *)
(* status of a task changes only as allowedTaskStatus says, and a client   *)
(* to which everything has been delivered sees what the tables hold, both  *)
(* but for the cases the history variables name.                           *)
(***************************************************************************)
EXTENDS Board, TLAPS

Values == Statuses \cup {"none", "keep"}
Others == Tasks \cup {"a", "b", "-", "keep"}
RowSet == [st : Values, x : Others]
Places == {"idle", "insert", "check", "update", "delete", "get", "publish"}
JobSet == [at : Places, i : Ids \cup {"-"}, st : Statuses \cup {"keep"}, x : Others,
           row : RowSet, seen : Values \cup {"-"}, mine : BOOLEAN]
EventSet == [i : Ids, row : RowSet]

BoardTypes ==
  /\ rows \in [Ids -> RowSet] /\ ids \in SUBSET Ids
  /\ \A i \in Ids : rows[i].st = "none" => rows[i] = NoRow
  /\ job \in [Workers -> JobSet]
  /\ busq \in Seq(EventSet) /\ wsq \in Seq(EventSet) /\ replies \in SUBSET EventSet
  /\ listing = <<>> \/ listing \in [Tasks -> RowSet] \cup [Todos -> RowSet]
  /\ view \in [Ids -> RowSet]
  /\ apart \in SUBSET Ids /\ raced \in SUBSET Ids

\* Rows and requests have ids that were given out.
IdsGiven ==
  /\ \A i \in Ids : Exists(i) => i \in ids
  /\ \A w \in Workers : job[w].at # "idle" => job[w].i \in ids

\* The id of an INSERT is nobody else's.
InsertsFresh ==
  \A w \in Workers : job[w].at = "insert" =>
    /\ ~Exists(job[w].i)
    /\ \A v \in Workers \ {w} : job[v].at = "insert" => job[v].i # job[w].i

\* An UPDATE of a task's status was judged on the status it remembers.
UpdatesJudged ==
  \A w \in Workers : job[w].at = "update" /\ job[w].i \in Tasks /\ job[w].st # "keep"
    => Allowed(job[w].seen, job[w].st)

(* The last word on i in a queue, and the queues in the order in which the *)
(* client gets to them: a later one has the last word.                     *)
Silent(q, i) == \A n \in DOMAIN q : q[n].i # i
SaysLast(q, i, r) == \E n \in DOMAIN q : q[n] = [i |-> i, row |-> r] /\ \A m \in DOMAIN q : m > n => q[m].i # i
Told(i) ==
  \/ SaysLast(busq, i, rows[i])
  \/ Silent(busq, i) /\ SaysLast(wsq, i, rows[i])
  \/ Silent(busq, i) /\ Silent(wsq, i) /\ view[i] = rows[i]

\* A request is going to publish i once more.
Pending(i) ==
  \E w \in Workers : job[w].i = i /\ (job[w].at = "publish" \/ (job[w].at = "get" /\ Exists(i)))

\* Unless history says otherwise, the client is going to be right about i.
Followed == \A i \in Ids \ apart : Pending(i) \/ Told(i)

BoardInv == BoardTypes /\ IdsGiven /\ InsertsFresh /\ UpdatesJudged /\ Followed

-----------------------------------------------------------------------------
(* Queues.                                                                 *)

LEMMA AppendSays ==
  ASSUME NEW q \in Seq(EventSet), NEW e \in EventSet, NEW i \in Ids
  PROVE  /\ e.i = i => SaysLast(Append(q, e), i, e.row)
         /\ e.i # i => \A r \in RowSet : SaysLast(Append(q, e), i, r) <=> SaysLast(q, i, r)
         /\ e.i # i => (Silent(Append(q, e), i) <=> Silent(q, i))
<1> DEFINE p == Append(q, e)
<1>1. /\ p \in Seq(EventSet) /\ Len(p) = Len(q) + 1 /\ Len(q) \in Nat
      /\ p[Len(q) + 1] = e
      /\ \A n \in 1 .. Len(q) : p[n] = q[n]
      /\ DOMAIN p = 1 .. Len(p) /\ DOMAIN q = 1 .. Len(q)
  OBVIOUS
<1> HIDE DEF p
<1>2. e = [i |-> e.i, row |-> e.row]
  BY DEF EventSet
<1>3. e.i = i => SaysLast(p, i, e.row)
  BY <1>1, <1>2 DEF SaysLast
<1>4. ASSUME e.i # i, NEW r \in RowSet PROVE SaysLast(p, i, r) <=> SaysLast(q, i, r)
  <2>1. ASSUME SaysLast(p, i, r) PROVE SaysLast(q, i, r)
    <3>1. PICK n \in DOMAIN p : p[n] = [i |-> i, row |-> r] /\ \A m \in DOMAIN p : m > n => p[m].i # i
      BY <2>1 DEF SaysLast
    <3>2. n # Len(q) + 1
      BY <1>1, <1>4, <3>1
    <3>3. n \in 1 .. Len(q) /\ q[n] = p[n] /\ \A m \in DOMAIN q : m > n => q[m].i # i
      BY <1>1, <3>1, <3>2
    <3> QED
      BY <1>1, <3>1, <3>3 DEF SaysLast
  <2>2. ASSUME SaysLast(q, i, r) PROVE SaysLast(p, i, r)
    <3>1. PICK n \in DOMAIN q : q[n] = [i |-> i, row |-> r] /\ \A m \in DOMAIN q : m > n => q[m].i # i
      BY <2>2 DEF SaysLast
    <3>2. n \in DOMAIN p /\ p[n] = q[n] /\ \A m \in DOMAIN p : m > n => p[m].i # i
      BY <1>1, <1>4, <3>1
    <3> QED
      BY <3>1, <3>2 DEF SaysLast
  <2> QED
    BY <2>1, <2>2
<1>5. e.i # i => (Silent(p, i) <=> Silent(q, i))
  BY <1>1 DEF Silent
<1> QED
  BY <1>3, <1>4, <1>5 DEF p

LEMMA TailSays ==
  ASSUME NEW q \in Seq(EventSet), q # <<>>, NEW i \in Ids, NEW r \in RowSet
  PROVE  /\ Head(q) \in EventSet /\ Tail(q) \in Seq(EventSet)
         /\ SaysLast(q, i, r) => SaysLast(Tail(q), i, r)
                                 \/ (Silent(Tail(q), i) /\ Head(q).i = i /\ Head(q).row = r)
         /\ Silent(q, i) => Silent(Tail(q), i) /\ Head(q).i # i
<1> DEFINE p == Tail(q)
<1>1. /\ p \in Seq(EventSet) /\ Len(p) = Len(q) - 1 /\ Len(q) \in Nat /\ Len(q) >= 1
      /\ Head(q) = q[1] /\ q[1] \in EventSet
      /\ \A n \in 1 .. Len(p) : p[n] = q[n + 1]
      /\ DOMAIN p = 1 .. Len(p) /\ DOMAIN q = 1 .. Len(q)
  OBVIOUS
<1> HIDE DEF p
<1>2. ASSUME SaysLast(q, i, r)
      PROVE  SaysLast(p, i, r) \/ (Silent(p, i) /\ Head(q).i = i /\ Head(q).row = r)
  <2>1. PICK n \in DOMAIN q : q[n] = [i |-> i, row |-> r] /\ \A m \in DOMAIN q : m > n => q[m].i # i
    BY <1>2 DEF SaysLast
  <2>2. CASE n = 1
    <3>1. ASSUME NEW m \in DOMAIN p PROVE p[m].i # i
      <4>1. m + 1 \in DOMAIN q /\ m + 1 > n /\ p[m] = q[m + 1]
        BY <1>1, <2>2
      <4> QED
        BY <2>1, <4>1
    <3>2. Head(q) = [i |-> i, row |-> r]
      BY <1>1, <2>1, <2>2
    <3> QED
      BY <3>1, <3>2 DEF Silent
  <2>3. CASE n # 1
    <3>1. n - 1 \in DOMAIN p /\ p[n - 1] = q[n]
      BY <1>1, <2>3
    <3>2. ASSUME NEW m \in DOMAIN p, m > n - 1 PROVE p[m].i # i
      <4>1. m + 1 \in DOMAIN q /\ m + 1 > n /\ p[m] = q[m + 1]
        BY <1>1, <3>2
      <4> QED
        BY <2>1, <4>1
    <3> QED
      BY <2>1, <3>1, <3>2 DEF SaysLast
  <2> QED
    BY <2>2, <2>3
<1>3. Silent(q, i) => Silent(p, i) /\ Head(q).i # i
  BY <1>1 DEF Silent
<1> QED
  BY <1>1, <1>2, <1>3 DEF p
-----------------------------------------------------------------------------
(* Requests.                                                               *)

LEMMA RequestShape ==
  ASSUME NEW w \in Workers, TaskRequest(w) \/ TodoRequest(w)
  PROVE  \E at \in {"insert", "check", "update", "delete"}, i \in Ids,
            st \in Statuses \cup {"keep"}, x \in Others, mine \in BOOLEAN :
              /\ Takes(w, Asked(at, i, st, x, mine))
              /\ at = "insert" => i \notin ids
              /\ at = "update" /\ i \in Tasks => st = "keep"
<1>1. CASE TaskRequest(w)
  BY <1>1 DEF TaskRequest, Ids, Others, Statuses
<1>2. CASE TodoRequest(w)
  BY <1>2, BoardConstants DEF TodoRequest, Ids, Others, Statuses
<1> QED
  BY <1>1, <1>2

LEMMA TakesStep ==
  ASSUME BoardInv, NEW w \in Workers,
         NEW at \in {"insert", "check", "update", "delete"}, NEW i \in Ids,
         NEW st \in Statuses \cup {"keep"}, NEW x \in Others, NEW mine \in BOOLEAN,
         Takes(w, Asked(at, i, st, x, mine)),
         at = "insert" => i \notin ids,
         at = "update" /\ i \in Tasks => st = "keep"
  PROVE  BoardInv'
<1> DEFINE j == Asked(at, i, st, x, mine)
<1>1. /\ j \in JobSet /\ j.at = at /\ j.i = i /\ j.st = st
  BY DEF Asked, NoJob, NoRow, Row, JobSet, RowSet, Values, Others, Places
<1> HIDE DEF j
<1>2. /\ job' = [job EXCEPT ![w] = j] /\ job[w] = NoJob /\ ids' = ids \cup {j.i}
      /\ UNCHANGED <<rows, wireVars, listing, view, apart, raced>>
  BY DEF Takes, Free, j
<1>3. job[w].at = "idle" /\ job' \in [Workers -> JobSet] /\ job'[w] = j
      /\ \A v \in Workers \ {w} : job'[v] = job[v]
  BY <1>1, <1>2 DEF NoJob, BoardInv, BoardTypes
<1>4. BoardTypes'
  BY <1>1, <1>2, <1>3 DEF BoardInv, BoardTypes, wireVars
<1>5. IdsGiven'
  BY <1>1, <1>2, <1>3 DEF BoardInv, IdsGiven, Exists
<1>6. InsertsFresh'
  <2>1. at = "insert" => ~Exists(i) /\ \A v \in Workers : job[v].at = "insert" => job[v].i # i
    BY DEF BoardInv, IdsGiven
  <2> QED
    BY <1>1, <1>2, <1>3, <2>1 DEF BoardInv, InsertsFresh, Exists
<1>7. UpdatesJudged'
  BY <1>1, <1>2, <1>3 DEF BoardInv, UpdatesJudged
<1>8. Followed'
  <2>1. \A k \in Ids : Told(k) => Told(k)'
    BY <1>2 DEF Told, wireVars
  <2>2. \A k \in Ids : Pending(k) => Pending(k)'
    BY <1>2, <1>3 DEF Pending, Exists
  <2> QED
    BY <1>2, <2>1, <2>2 DEF BoardInv, Followed
<1> QED
  BY <1>4, <1>5, <1>6, <1>7, <1>8 DEF BoardInv

(* A request that goes on without touching a table or a queue; it takes no *)
(* insert up, and what it gives up was not pending.                        *)
LEMMA QuietStep ==
  ASSUME BoardInv, NEW w \in Workers, NEW j \in JobSet,
         job' = [job EXCEPT ![w] = j],
         UNCHANGED <<tableVars, wireVars, listing, view, apart, raced>>,
         j.at # "insert", j.at # "idle" => j.i \in ids,
         j.at = "update" /\ j.i \in Tasks /\ j.st # "keep" => Allowed(j.seen, j.st),
         job[w].at = "get" => ~Exists(job[w].i) \/ (j.at = "publish" /\ j.i = job[w].i),
         job[w].at # "publish"
  PROVE  BoardInv'
<1>1. job' \in [Workers -> JobSet] /\ job'[w] = j /\ \A v \in Workers \ {w} : job'[v] = job[v]
  BY DEF BoardInv, BoardTypes
<1>2. BoardTypes'
  BY <1>1 DEF BoardInv, BoardTypes, wireVars, tableVars
<1>3. IdsGiven' /\ InsertsFresh' /\ UpdatesJudged'
  BY <1>1 DEF BoardInv, IdsGiven, InsertsFresh, UpdatesJudged, Exists, tableVars
<1>4. Followed'
  <2>1. \A k \in Ids : Told(k) => Told(k)'
    BY DEF Told, wireVars, tableVars
  <2>2. \A k \in Ids : Pending(k) => Pending(k)'
    BY <1>1 DEF Pending, Exists, tableVars
  <2> QED
    BY <2>1, <2>2 DEF BoardInv, Followed
<1> QED
  BY <1>2, <1>3, <1>4 DEF BoardInv

LEMMA ReturnIsQuiet ==
  ASSUME BoardTypes PROVE NoJob \in JobSet /\ NoJob.at = "idle" /\ NoRow \in RowSet
  BY DEF NoJob, NoRow, Row, JobSet, RowSet, Values, Others, Places

LEMMA CheckStep == ASSUME BoardInv, NEW w \in Workers, CheckStatus(w) PROVE BoardInv'
<1> DEFINE j == [job[w] EXCEPT !.at = "update", !.seen = rows[job[w].i].st]
<1>1. job[w] \in JobSet /\ job[w].at = "check" /\ job[w].i \in ids /\ job[w].i \in Ids
  BY DEF BoardInv, BoardTypes, IdsGiven, CheckStatus, Is
<1>2. CASE Allowed(rows[job[w].i].st, job[w].st)
  <2>1. rows[job[w].i].st \in Values
    BY <1>1 DEF BoardInv, BoardTypes, RowSet
  <2>2. j \in JobSet /\ j.at = "update" /\ j.i = job[w].i /\ j.st = job[w].st /\ j.seen = rows[job[w].i].st
    BY <1>1, <2>1 DEF JobSet, Places
  <2>3. job' = [job EXCEPT ![w] = j]
    BY <1>1, <1>2 DEF CheckStatus, BoardInv, BoardTypes
  <2> HIDE DEF j
  <2> QED
    BY <1>1, <1>2, <2>2, <2>3, QuietStep DEF CheckStatus
<1>3. CASE ~Allowed(rows[job[w].i].st, job[w].st)
  <2>1. job' = [job EXCEPT ![w] = NoJob]
    BY <1>3 DEF CheckStatus, Returns
  <2> QED
    BY <1>1, <2>1, QuietStep, ReturnIsQuiet DEF CheckStatus, BoardInv
<1> QED
  BY <1>2, <1>3

LEMMA GetStep == ASSUME BoardInv, NEW w \in Workers, Get(w) PROVE BoardInv'
<1> DEFINE j == [job[w] EXCEPT !.at = "publish", !.row = rows[job[w].i]]
<1>1. job[w] \in JobSet /\ job[w].at = "get" /\ job[w].i \in ids /\ job[w].i \in Ids
  BY DEF BoardInv, BoardTypes, IdsGiven, Get, Is
<1>2. CASE Exists(job[w].i)
  <2>1. rows[job[w].i] \in RowSet
    BY <1>1 DEF BoardInv, BoardTypes
  <2>2. j \in JobSet /\ j.at = "publish" /\ j.i = job[w].i
    BY <1>1, <2>1 DEF JobSet, Places
  <2>3. job' = [job EXCEPT ![w] = j]
    BY <1>1, <1>2 DEF Get, BoardInv, BoardTypes
  <2> HIDE DEF j
  <2> QED
    BY <1>1, <2>2, <2>3, QuietStep DEF Get
<1>3. CASE ~Exists(job[w].i)
  <2>1. job' = [job EXCEPT ![w] = NoJob]
    BY <1>3 DEF Get, Returns
  <2> QED
    BY <1>1, <1>3, <2>1, QuietStep, ReturnIsQuiet DEF Get, BoardInv
<1> QED
  BY <1>2, <1>3
-----------------------------------------------------------------------------
(* Changes of the tables.                                                  *)

(* The row of w is written, and w is about to read it again.               *)
LEMMA WriteStep ==
  ASSUME BoardInv, NEW w \in Workers, job[w].at \in {"insert", "update"},
         NEW i \in Ids, job[w].i = i, NEW r \in RowSet, r.st # "none",
         job[w].at = "update" => Exists(i),
         rows' = [rows EXCEPT ![i] = r], Fetch(w),
         raced' \in SUBSET Ids,
         UNCHANGED <<ids, wireVars, listing, view, apart>>
  PROVE  BoardInv'
<1> DEFINE j == [job[w] EXCEPT !.at = "get"]
<1>1. i \in Ids /\ i \in ids /\ job[w] \in JobSet
  BY DEF BoardInv, BoardTypes, IdsGiven
<1>2. j \in JobSet /\ j.at = "get" /\ j.i = i
  BY <1>1 DEF JobSet, Places
<1>3. /\ job' \in [Workers -> JobSet] /\ job'[w] = j
      /\ \A v \in Workers \ {w} : job'[v] = job[v]
  BY <1>2 DEF Fetch, BoardInv, BoardTypes
<1>4. /\ rows' \in [Ids -> RowSet] /\ rows'[i] = r /\ r # NoRow
      /\ \A k \in Ids \ {i} : rows'[k] = rows[k]
  BY <1>1 DEF BoardInv, BoardTypes, NoRow, Row
<1> HIDE DEF j
<1>5. BoardTypes'
  BY <1>3, <1>4 DEF BoardInv, BoardTypes, wireVars
<1>6. IdsGiven'
  BY <1>1, <1>2, <1>3, <1>4 DEF BoardInv, IdsGiven, Exists
<1>7. InsertsFresh'
  <2>1. \A v \in Workers \ {w} : job[v].at = "insert" => job[v].i # i
    BY DEF BoardInv, InsertsFresh
  <2>2. \A v \in Workers : job[v].at = "insert" => job[v].i \in Ids
    BY DEF BoardInv, BoardTypes, IdsGiven
  <2> QED
    BY <1>2, <1>3, <1>4, <2>1, <2>2 DEF BoardInv, InsertsFresh, Exists
<1>8. UpdatesJudged'
  BY <1>2, <1>3 DEF BoardInv, UpdatesJudged
<1>9. Followed'
  <2>1. Pending(i)'
    BY <1>2, <1>3, <1>4 DEF Pending, Exists
  <2>2. ASSUME NEW k \in Ids \ {i} PROVE (Told(k) => Told(k)') /\ (Pending(k) => Pending(k)')
    <3>1. Told(k) => Told(k)'
      BY <1>4, <2>2 DEF Told, wireVars
    <3>2. Pending(k) => Pending(k)'
      BY <1>3, <1>4, <2>2 DEF Pending, Exists
    <3> QED
      BY <3>1, <3>2
  <2> QED
    BY <2>1, <2>2 DEF BoardInv, Followed
<1> QED
  BY <1>5, <1>6, <1>7, <1>8, <1>9 DEF BoardInv

LEMMA InsertStep == ASSUME BoardInv, NEW w \in Workers, Insert(w) PROVE BoardInv'
<1>1. job[w] \in JobSet /\ job[w].at = "insert" /\ UNCHANGED <<ids, wireVars, listing, view, apart, raced>>
  BY DEF BoardInv, BoardTypes, Insert, Is
<1>2. CASE KeyHolds(w)
  <2>1. rows' = [rows EXCEPT ![job[w].i] = Row(job[w].st, job[w].x)] /\ Fetch(w)
    BY <1>2 DEF Insert
  <2>2. Row(job[w].st, job[w].x) \in RowSet /\ Row(job[w].st, job[w].x).st # "none"
    BY <1>1 DEF Row, RowSet, JobSet, Values, Statuses
  <2>3. raced' \in SUBSET Ids
    BY DEF Insert, BoardInv, BoardTypes
  <2> QED
    BY <1>1, <2>1, <2>2, <2>3, WriteStep DEF BoardInv, BoardTypes, IdsGiven
<1>3. CASE ~KeyHolds(w)
  <2>1. job' = [job EXCEPT ![w] = NoJob] /\ UNCHANGED rows
    BY <1>3 DEF Insert, Returns
  <2> QED
    BY <1>1, <2>1, QuietStep, ReturnIsQuiet DEF BoardInv, tableVars
<1> QED
  BY <1>2, <1>3
LEMMA UpdateStep == ASSUME BoardInv, NEW w \in Workers, Update(w) PROVE BoardInv'
<1>1. /\ job[w] \in JobSet /\ job[w].at = "update" /\ job[w].i \in Ids
      /\ UNCHANGED <<ids, wireVars, listing, view, apart>>
  BY DEF BoardInv, BoardTypes, IdsGiven, Update, Is
<1>2. CASE Exists(job[w].i) /\ KeyHolds(w)
  <2>1. rows' = [rows EXCEPT ![job[w].i] = Patched(w)] /\ Fetch(w)
    BY <1>2 DEF Update
  <2>2. rows[job[w].i] \in RowSet /\ rows[job[w].i].st # "none"
    BY <1>1, <1>2 DEF BoardInv, BoardTypes, Exists
  <2>3. Patched(w) \in RowSet /\ Patched(w).st # "none"
    BY <1>1, <2>2 DEF Patched, Row, RowSet, JobSet, Values, Statuses
  <2>4. raced' \in SUBSET Ids
    BY <1>1, <1>2 DEF Update, BoardInv, BoardTypes
  <2> QED
    BY <1>1, <1>2, <2>1, <2>3, <2>4, WriteStep
<1>3. CASE ~(Exists(job[w].i) /\ KeyHolds(w))
  <2>1. job' = [job EXCEPT ![w] = NoJob] /\ UNCHANGED <<rows, raced>>
    BY <1>3 DEF Update, Returns
  <2> QED
    BY <1>1, <2>1, QuietStep, ReturnIsQuiet DEF BoardInv, tableVars
<1> QED
  BY <1>2, <1>3

(* The row goes; the todos that lose their task are apart from now on.     *)
LEMMA DeleteStep == ASSUME BoardInv, NEW w \in Workers, Delete(w) PROVE BoardInv'
<1>1. /\ job[w] \in JobSet /\ job[w].at = "delete" /\ job[w].i \in Ids /\ job[w].i \in ids
      /\ UNCHANGED <<ids, wireVars, listing, view, raced>>
  BY DEF BoardInv, BoardTypes, IdsGiven, Delete, Is
<1>2. CASE ~Exists(job[w].i)
  <2>1. job' = [job EXCEPT ![w] = NoJob] /\ UNCHANGED <<rows, apart>>
    BY <1>2 DEF Delete, Returns
  <2> QED
    BY <1>1, <2>1, QuietStep, ReturnIsQuiet DEF BoardInv, tableVars
<1>3. CASE Exists(job[w].i)
  <2> DEFINE j == [job[w] EXCEPT !.at = "publish", !.row = NoRow]
  <2>1. PICK i \in Ids : i = job[w].i
    BY <1>1
  <2>2. j \in JobSet /\ j.at = "publish" /\ j.i = i
    BY <1>1, <2>1, ReturnIsQuiet DEF JobSet, Places, BoardInv
  <2>3. job' = [job EXCEPT ![w] = j] /\ apart' = apart \cup Unbound(i)
    BY <1>3, <2>1 DEF Delete, BoardInv, BoardTypes
  <2> HIDE DEF j
  <2>4. /\ job' \in [Workers -> JobSet] /\ job'[w] = j
        /\ \A v \in Workers \ {w} : job'[v] = job[v]
    BY <2>2, <2>3 DEF BoardInv, BoardTypes
  <2>5. rows' = [r \in Ids |-> CASE r = i -> NoRow
                                 [] r \in Unbound(i) -> [rows[r] EXCEPT !.x = "-"]
                                 [] OTHER -> rows[r]]
    BY <1>3, <2>1 DEF Delete
  <2>6. /\ rows'[i] = NoRow
        /\ \A k \in Unbound(i) \ {i} : rows'[k] = [rows[k] EXCEPT !.x = "-"]
        /\ \A k \in Ids \ {i} : k \notin Unbound(i) => rows'[k] = rows[k]
        /\ DOMAIN rows' = Ids /\ Unbound(i) \subseteq Ids
    <3>1. Unbound(i) \subseteq Ids
      BY DEF Unbound, Ids
    <3>2. rows'[i] = NoRow
      <4>1. i \notin Unbound(i)
        BY BoardConstants DEF Unbound
      <4> QED
        BY <2>5, <4>1
    <3>3. ASSUME NEW k \in Unbound(i) \ {i} PROVE rows'[k] = [rows[k] EXCEPT !.x = "-"]
      BY <2>5, <3>1, <3>3
    <3>4. ASSUME NEW k \in Ids \ {i}, k \notin Unbound(i) PROVE rows'[k] = rows[k]
      BY <2>5, <3>4
    <3> QED
      BY <2>5, <3>1, <3>2, <3>3, <3>4
  <2>7. /\ rows' \in [Ids -> RowSet]
        /\ \A k \in Ids : rows'[k].st = "none" => rows'[k] = NoRow
        /\ \A k \in Ids : rows[k] = NoRow => rows'[k] = NoRow
    <3>1. \A k \in Unbound(i) : rows[k] \in RowSet /\ rows[k].st # "none"
      BY <2>6 DEF Unbound, Exists, BoardInv, BoardTypes
    <3>2. \A k \in Unbound(i) \ {i} : rows'[k] \in RowSet /\ rows'[k].st # "none"
      BY <2>6, <3>1 DEF RowSet, Others
    <3>3. \A k \in Ids : rows'[k] \in RowSet
      BY <2>6, <3>2, ReturnIsQuiet DEF BoardInv, BoardTypes
    <3>4. rows' \in [Ids -> RowSet]
      BY <2>5, <3>3
    <3>5. NoRow.st = "none"
      BY DEF NoRow, Row
    <3> QED
      BY <2>6, <3>1, <3>2, <3>4, <3>5 DEF BoardInv, BoardTypes
  <2>8. BoardTypes'
    BY <1>1, <2>3, <2>4, <2>6, <2>7 DEF BoardInv, BoardTypes, wireVars
  <2>9. IdsGiven' /\ InsertsFresh' /\ UpdatesJudged'
    <3>1. \A v \in Workers : job[v].at # "idle" => job[v].i \in Ids
      BY DEF BoardInv, BoardTypes, IdsGiven
    <3>2. IdsGiven'
      BY <1>1, <2>1, <2>2, <2>4, <2>7 DEF BoardInv, IdsGiven, Exists
    <3>3. InsertsFresh'
      BY <2>2, <2>4, <2>7, <3>1 DEF BoardInv, InsertsFresh, Exists
    <3>4. UpdatesJudged'
      BY <2>2, <2>4 DEF BoardInv, UpdatesJudged
    <3> QED
      BY <3>2, <3>3, <3>4
  <2>10. Followed'
    <3>1. Pending(i)'
      BY <2>2, <2>4 DEF Pending
    <3>2. ASSUME NEW k \in Ids \ {i}, k \notin Unbound(i)
          PROVE  (Told(k) => Told(k)') /\ (Pending(k) => Pending(k)')
      <4>1. Told(k) => Told(k)'
        BY <1>1, <2>6, <3>2 DEF Told, wireVars
      <4>2. Pending(k) => Pending(k)'
        BY <1>1, <2>1, <2>4, <2>6, <3>2 DEF Pending, Exists
      <4> QED
        BY <4>1, <4>2
    <3> QED
      BY <2>3, <3>1, <3>2 DEF BoardInv, Followed
  <2> QED
    BY <2>8, <2>9, <2>10 DEF BoardInv
<1> QED
  BY <1>2, <1>3

LEMMA CancelStep == ASSUME BoardInv, NEW w \in Workers, RequestCancelled(w) PROVE BoardInv'
<1>1. PICK i \in Ids : i = job[w].i
  BY DEF RequestCancelled, Is, BoardInv, BoardTypes, IdsGiven
<1>2. /\ job' = [job EXCEPT ![w] = NoJob] /\ apart' = apart \cup {i} /\ job[w].at = "get"
      /\ UNCHANGED <<tableVars, wireVars, listing, view, raced>>
  BY <1>1 DEF RequestCancelled, Returns, Is
<1>3. /\ job' \in [Workers -> JobSet] /\ job'[w].at = "idle" /\ \A v \in Workers \ {w} : job'[v] = job[v]
  BY <1>2, ReturnIsQuiet DEF BoardInv, BoardTypes
<1>4. BoardTypes'
  BY <1>2, <1>3 DEF BoardInv, BoardTypes, wireVars, tableVars
<1>5. IdsGiven' /\ InsertsFresh' /\ UpdatesJudged'
  BY <1>2, <1>3 DEF BoardInv, IdsGiven, InsertsFresh, UpdatesJudged, Exists, tableVars
<1>6. Followed'
  <2>1. ASSUME NEW k \in Ids \ {i} PROVE (Told(k) => Told(k)') /\ (Pending(k) => Pending(k)')
    <3>1. Told(k) => Told(k)'
      BY <1>2 DEF Told, wireVars, tableVars
    <3>2. Pending(k) => Pending(k)'
      BY <1>1, <1>2, <1>3, <2>1 DEF Pending, Exists, tableVars
    <3> QED
      BY <3>1, <3>2
  <2> QED
    BY <1>2, <2>1 DEF BoardInv, Followed
<1> QED
  BY <1>4, <1>5, <1>6 DEF BoardInv
-----------------------------------------------------------------------------
(* Events, responses and lists.                                            *)

LEMMA PublishStep == ASSUME BoardInv, NEW w \in Workers, Publish(w) PROVE BoardInv'
<1>1. PICK i \in Ids, r \in RowSet : i = job[w].i /\ r = job[w].row
  BY DEF Publish, Is, BoardInv, BoardTypes, IdsGiven, JobSet
<1> DEFINE e == [i |-> i, row |-> r]
           dropped == Len(busq) >= BusCap
<1>2. e \in EventSet /\ e.i = i /\ e.row = r
  BY DEF EventSet
<1>3. /\ job[w].at = "publish" /\ job' = [job EXCEPT ![w] = NoJob]
      /\ busq' = (IF dropped THEN busq ELSE Append(busq, e))
      /\ apart' = (IF dropped \/ r # rows[i] THEN apart \cup {i} ELSE apart \ {i})
      /\ replies' \in {replies, replies \cup {e}}
      /\ UNCHANGED <<tableVars, wsq, listing, view, raced>>
  BY <1>1 DEF Publish, Is, Returns
<1>4. /\ job' \in [Workers -> JobSet] /\ job'[w].at = "idle" /\ \A v \in Workers \ {w} : job'[v] = job[v]
  BY <1>3, ReturnIsQuiet DEF BoardInv, BoardTypes
<1> HIDE DEF e, dropped
<1>5. BoardTypes'
  <2>1. busq' \in Seq(EventSet)
    BY <1>2, <1>3 DEF BoardInv, BoardTypes
  <2> QED
    BY <1>2, <1>3, <1>4, <2>1 DEF BoardInv, BoardTypes, tableVars
<1>6. IdsGiven' /\ InsertsFresh' /\ UpdatesJudged'
  BY <1>3, <1>4 DEF BoardInv, IdsGiven, InsertsFresh, UpdatesJudged, Exists, tableVars
<1>7. Followed'
  <2>1. i \notin apart' => Told(i)'
    <3>1. i \notin apart' => busq' = Append(busq, e) /\ r = rows[i]
      BY <1>3
    <3>2. SaysLast(Append(busq, e), i, r)
      BY <1>2, AppendSays DEF BoardInv, BoardTypes
    <3> QED
      BY <1>3, <3>1, <3>2 DEF Told, tableVars
  <2>2. ASSUME NEW k \in Ids \ {i} PROVE (Told(k) => Told(k)') /\ (Pending(k) => Pending(k)')
    <3>1. rows[k] \in RowSet /\ e.i # k
      BY <1>2, <2>2 DEF BoardInv, BoardTypes
    <3>2. /\ SaysLast(busq, k, rows[k]) => SaysLast(busq', k, rows[k])
          /\ Silent(busq, k) => Silent(busq', k)
      BY <1>2, <1>3, <3>1, AppendSays DEF BoardInv, BoardTypes
    <3>3. Told(k) => Told(k)'
      BY <1>3, <3>2 DEF Told, tableVars
    <3>4. Pending(k) => Pending(k)'
      BY <1>1, <1>3, <1>4, <2>2 DEF Pending, Exists, tableVars
    <3> QED
      BY <3>3, <3>4
  <2>3. \A k \in Ids \ {i} : k \notin apart' => k \notin apart
    BY <1>3
  <2> QED
    BY <2>1, <2>2, <2>3 DEF BoardInv, Followed
<1> QED
  BY <1>5, <1>6, <1>7 DEF BoardInv

(* What happens after the requests leaves those and the tables alone, and  *)
(* has to keep the last word on every row that is not apart.               *)
LEMMA DeliveryStep ==
  ASSUME BoardInv, UNCHANGED <<tableVars, job, raced>>,
         busq' \in Seq(EventSet), wsq' \in Seq(EventSet), replies' \in SUBSET EventSet,
         listing' = <<>> \/ listing' \in [Tasks -> RowSet] \cup [Todos -> RowSet],
         view' \in [Ids -> RowSet], apart' \in SUBSET Ids, apart \subseteq apart',
         \A i \in Ids \ apart' : Told(i) => Told(i)'
  PROVE  BoardInv'
<1>1. BoardTypes'
  BY DEF BoardInv, BoardTypes, tableVars
<1>2. IdsGiven' /\ InsertsFresh' /\ UpdatesJudged'
  BY DEF BoardInv, IdsGiven, InsertsFresh, UpdatesJudged, Exists, tableVars
<1>3. Followed'
  <2>1. \A i \in Ids : Pending(i) => Pending(i)'
    BY DEF Pending, Exists, tableVars
  <2> QED
    BY <2>1 DEF BoardInv, Followed
<1> QED
  BY <1>1, <1>2, <1>3 DEF BoardInv

LEMMA HeadAndTail ==
  ASSUME NEW q \in Seq(EventSet), q # <<>>
  PROVE  /\ Head(q) \in EventSet /\ Head(q).i \in Ids /\ Head(q).row \in RowSet
         /\ Tail(q) \in Seq(EventSet)
<1>1. Head(q) \in EventSet /\ Tail(q) \in Seq(EventSet)
  <2> HIDE DEF EventSet
  <2> QED
    OBVIOUS
<1> QED
  BY <1>1 DEF EventSet

LEMMA ForwardStep == ASSUME BoardInv, Forward PROVE BoardInv'
<1> DEFINE h == Head(busq)
<1>1. /\ busq # <<>> /\ busq \in Seq(EventSet) /\ wsq \in Seq(EventSet) /\ busq' = Tail(busq)
      /\ UNCHANGED <<tableVars, job, replies, listing, view, raced>>
  BY DEF Forward, BoardInv, BoardTypes
<1>2. \/ wsq' = Append(wsq, h) /\ apart' = apart
      \/ wsq' = wsq /\ apart' = apart \cup {h.i}
  BY DEF Forward
<1>3. h \in EventSet /\ h.i \in Ids /\ Tail(busq) \in Seq(EventSet)
  BY <1>1, HeadAndTail
<1> HIDE DEF h
<1>4. wsq' \in Seq(EventSet) /\ apart' \in SUBSET Ids /\ apart \subseteq apart'
  <2>1. wsq' \in Seq(EventSet)
    <3> HIDE DEF EventSet
    <3>1. CASE wsq' = Append(wsq, h)
      BY <1>1, <1>3, <3>1
    <3> QED
      BY <1>1, <1>2, <3>1
  <2>2. apart \in SUBSET Ids
    BY DEF BoardInv, BoardTypes
  <2> QED
    BY <1>2, <1>3, <2>1, <2>2
<1>5. ASSUME NEW i \in Ids \ apart', Told(i) PROVE Told(i)'
  <2>1. rows[i] \in RowSet /\ rows' = rows /\ view' = view
    BY <1>1 DEF BoardInv, BoardTypes, tableVars
  <2>2. /\ SaysLast(busq, i, rows[i]) => SaysLast(busq', i, rows[i])
                                         \/ (Silent(busq', i) /\ h.i = i /\ h.row = rows[i])
        /\ Silent(busq, i) => Silent(busq', i) /\ h.i # i
    BY <1>1, <2>1, TailSays DEF h
  <2>3. h.i = i => wsq' = Append(wsq, h) /\ SaysLast(wsq', i, h.row)
    <3>1. CASE wsq' = Append(wsq, h)
      BY <1>1, <1>3, <3>1, AppendSays
    <3> QED
      BY <1>2, <1>5, <3>1
  <2>4. h.i # i => /\ SaysLast(wsq, i, rows[i]) => SaysLast(wsq', i, rows[i])
                   /\ Silent(wsq, i) => Silent(wsq', i)
    <3>1. CASE wsq' = Append(wsq, h)
      BY <1>1, <1>3, <2>1, <3>1, AppendSays
    <3> QED
      BY <1>2, <3>1
  <2> QED
    BY <1>5, <2>1, <2>2, <2>3, <2>4 DEF Told
<1> QED
  BY <1>1, <1>3, <1>4, <1>5, DeliveryStep DEF BoardInv, BoardTypes

LEMMA ApplyEventStep == ASSUME BoardInv, ApplyEvent PROVE BoardInv'
<1> DEFINE h == Head(wsq)
<1>1. /\ wsq # <<>> /\ wsq \in Seq(EventSet) /\ wsq' = Tail(wsq)
      /\ view' = [view EXCEPT ![h.i] = h.row]
      /\ UNCHANGED <<tableVars, job, busq, replies, listing, apart, raced>>
  BY DEF ApplyEvent, upsert, BoardInv, BoardTypes
<1>2. h \in EventSet /\ h.i \in Ids /\ h.row \in RowSet /\ Tail(wsq) \in Seq(EventSet)
  BY <1>1, HeadAndTail
<1> HIDE DEF h
<1>3. /\ view' \in [Ids -> RowSet] /\ view'[h.i] = h.row
      /\ \A k \in Ids \ {h.i} : view'[k] = view[k]
  BY <1>1, <1>2 DEF BoardInv, BoardTypes
<1>4. ASSUME NEW i \in Ids, Told(i) PROVE Told(i)'
  <2>1. rows[i] \in RowSet /\ rows' = rows
    BY <1>1 DEF BoardInv, BoardTypes, tableVars
  <2>2. /\ SaysLast(wsq, i, rows[i]) => SaysLast(wsq', i, rows[i])
                                        \/ (Silent(wsq', i) /\ h.i = i /\ h.row = rows[i])
        /\ Silent(wsq, i) => Silent(wsq', i) /\ h.i # i
    BY <1>1, <2>1, TailSays DEF h
  <2> QED
    BY <1>1, <1>3, <1>4, <2>1, <2>2 DEF Told
<1> QED
  BY <1>1, <1>2, <1>3, <1>4, DeliveryStep DEF BoardInv, BoardTypes

LEMMA ApplyReplyStep == ASSUME BoardInv, NEW e \in replies, ApplyReply(e) PROVE BoardInv'
<1>1. /\ e \in EventSet /\ e.i \in Ids /\ e.row \in RowSet
      /\ view' = [view EXCEPT ![e.i] = e.row]
      /\ apart' = (IF e.row # rows[e.i] THEN apart \cup {e.i} ELSE apart)
      /\ UNCHANGED <<tableVars, job, busq, wsq, listing, raced>>
      /\ replies' \in SUBSET EventSet
  BY DEF ApplyReply, upsert, BoardInv, BoardTypes, EventSet
<1>2. /\ view' \in [Ids -> RowSet] /\ view'[e.i] = e.row
      /\ \A k \in Ids \ {e.i} : view'[k] = view[k]
  BY <1>1 DEF BoardInv, BoardTypes
<1>3. ASSUME NEW i \in Ids \ apart', Told(i) PROVE Told(i)'
  <2>1. view'[i] = view[i] \/ view'[i] = rows[i]
    BY <1>1, <1>2, <1>3
  <2> QED
    BY <1>1, <1>3, <2>1 DEF Told, tableVars
<1>4. apart' \in SUBSET Ids /\ apart \subseteq apart'
  BY <1>1 DEF BoardInv, BoardTypes
<1> QED
  BY <1>1, <1>2, <1>3, <1>4, DeliveryStep DEF BoardInv, BoardTypes

LEMMA ListStep == ASSUME BoardInv, List(Tasks) \/ List(Todos) PROVE BoardInv'
<1>1. UNCHANGED <<tableVars, job, wireVars, view, apart, raced>>
  BY DEF List
<1>2. listing' \in [Tasks -> RowSet] \cup [Todos -> RowSet]
  BY DEF List, BoardInv, BoardTypes, Ids
<1>3. \A i \in Ids : Told(i) => Told(i)'
  BY <1>1 DEF Told, tableVars, wireVars
<1> QED
  BY <1>1, <1>2, <1>3, DeliveryStep DEF BoardInv, BoardTypes, wireVars

LEMMA LoadStep == ASSUME BoardInv, load PROVE BoardInv'
<1>1. /\ listing \in [Tasks -> RowSet] \cup [Todos -> RowSet] /\ listing' = <<>>
      /\ view' = [i \in Ids |-> IF i \in DOMAIN listing THEN listing[i] ELSE view[i]]
      /\ apart' = apart \cup {i \in DOMAIN listing : listing[i] # rows[i]}
      /\ UNCHANGED <<tableVars, job, wireVars, raced>>
  BY DEF load, BoardInv, BoardTypes
<1>2. DOMAIN listing \subseteq Ids /\ \A i \in DOMAIN listing : listing[i] \in RowSet
  BY <1>1 DEF Ids
<1>3. view' \in [Ids -> RowSet]
  BY <1>1, <1>2 DEF BoardInv, BoardTypes
<1>4. apart' \in SUBSET Ids /\ apart \subseteq apart'
  BY <1>1, <1>2 DEF BoardInv, BoardTypes
<1>5. ASSUME NEW i \in Ids \ apart', Told(i) PROVE Told(i)'
  <2>1. view'[i] = view[i] \/ view'[i] = rows[i]
    BY <1>1, <1>5
  <2> QED
    BY <1>1, <1>5, <2>1 DEF Told, tableVars, wireVars
<1> QED
  BY <1>1, <1>3, <1>4, <1>5, DeliveryStep DEF BoardInv, BoardTypes, wireVars
-----------------------------------------------------------------------------
(* Initially there are no rows; every action keeps the invariant.          *)
LEMMA InitBoardInv == BoardInit => BoardInv
<1> SUFFICES ASSUME BoardInit PROVE BoardInv
  OBVIOUS
<1>1. NoJob \in JobSet /\ NoRow \in RowSet /\ NoJob.at = "idle"
  BY DEF NoJob, NoRow, Row, JobSet, RowSet, Values, Others, Places
<1>2. BoardTypes
  BY <1>1 DEF BoardInit, BoardTypes
<1>3. IdsGiven /\ InsertsFresh /\ UpdatesJudged
  BY <1>1 DEF BoardInit, IdsGiven, InsertsFresh, UpdatesJudged, Exists
<1>4. Followed
  BY DEF BoardInit, Followed, Told, Silent
<1> QED
  BY <1>2, <1>3, <1>4 DEF BoardInv

LEMMA NextBoardInv == BoardInv /\ [BoardNext]_boardVars => BoardInv'
<1> SUFFICES ASSUME BoardInv, [BoardNext]_boardVars PROVE BoardInv'
  OBVIOUS
<1>1. ASSUME NEW w \in Workers, TaskRequest(w) \/ TodoRequest(w) PROVE BoardInv'
  BY <1>1, RequestShape, TakesStep
<1>2. ASSUME NEW w \in Workers,
             CheckStatus(w) \/ Insert(w) \/ Update(w) \/ Delete(w) \/ Get(w)
               \/ RequestCancelled(w) \/ Publish(w)
      PROVE  BoardInv'
  BY <1>2, CheckStep, InsertStep, UpdateStep, DeleteStep, GetStep, CancelStep, PublishStep
<1>3. ASSUME NEW e \in replies, ApplyReply(e) PROVE BoardInv'
  BY <1>3, ApplyReplyStep
<1>4. CASE Forward \/ ApplyEvent \/ List(Tasks) \/ List(Todos) \/ load
  BY <1>4, ForwardStep, ApplyEventStep, ListStep, LoadStep
<1>5. CASE UNCHANGED boardVars
  BY <1>5 DEF boardVars, tableVars, wireVars, BoardInv, BoardTypes, IdsGiven, InsertsFresh, UpdatesJudged,
              Followed, Pending, Told, Exists
<1> QED
  BY <1>1, <1>2, <1>3, <1>4, <1>5 DEF BoardNext

THEOREM BoardInvariant == BoardSpec => []BoardInv
<1>1. BoardInit => BoardInv
  BY InitBoardInv
<1>2. BoardInv /\ [BoardNext]_boardVars => BoardInv'
  BY NextBoardInv
<1> QED
  BY <1>1, <1>2, PTL DEF BoardSpec

\* "so all clients stay in sync": whatever requests interleave and whatever the
\* channels drop, a client that has received everything differs from the tables
\* only in the rows that history calls apart.
THEOREM ClientsGetInSync == BoardSpec => []ClientInSync
<1>1. BoardInv => ClientInSync
  <2> SUFFICES ASSUME BoardInv, \A w \in Workers : job[w] = NoJob, busq = <<>>, wsq = <<>>,
                      NEW i \in Ids \ apart
               PROVE  view[i] = rows[i]
    BY DEF ClientInSync
  <2>1. ~Pending(i)
    BY DEF Pending, NoJob
  <2>2. Told(i)
    BY <2>1 DEF BoardInv, Followed
  <2> QED
    BY <2>2 DEF Told, SaysLast
<1> QED
  BY <1>1, BoardInvariant, PTL

\* No interleaving of requests takes a task from one status to another that
\* allowedTaskStatus does not list, but for a check that went stale.
LEMMA TransitionStep ==
  ASSUME BoardInv, [BoardNext]_boardVars, NEW i \in Tasks,
         rows[i].st # rows'[i].st, rows[i] # NoRow, rows'[i] # NoRow
  PROVE  Allowed(rows[i].st, rows'[i].st) \/ i \in raced'
<1> i \in Ids
  BY DEF Ids
<1>1. PICK w \in Workers : Insert(w) \/ Update(w) \/ Delete(w)
  <2>1. rows' # rows
    OBVIOUS
  <2>2. ASSUME NEW w \in Workers, TaskRequest(w) \/ TodoRequest(w) PROVE FALSE
    <3>1. PICK at \in {"insert", "check", "update", "delete"}, k \in Ids,
                st \in Statuses \cup {"keep"}, x \in Others, mine \in BOOLEAN :
            Takes(w, Asked(at, k, st, x, mine))
      BY <2>2, RequestShape
    <3> QED
      BY <2>1, <3>1 DEF Takes
  <2>3. ASSUME NEW w \in Workers, CheckStatus(w) \/ Get(w) \/ RequestCancelled(w) \/ Publish(w) PROVE FALSE
    BY <2>1, <2>3 DEF CheckStatus, Get, RequestCancelled, Publish, tableVars
  <2>4. ASSUME Forward \/ ApplyEvent \/ (\E e \in replies : ApplyReply(e)) \/ List(Tasks) \/ List(Todos)
                 \/ load \/ UNCHANGED boardVars
        PROVE  FALSE
    BY <2>1, <2>4 DEF Forward, ApplyEvent, ApplyReply, List, load, tableVars, boardVars
  <2> QED
    BY <2>2, <2>3, <2>4 DEF BoardNext
<1>2. job[w].i \in Ids /\ job[w] \in JobSet
  BY <1>1 DEF BoardInv, BoardTypes, IdsGiven, Insert, Update, Delete, Is
<1>3. CASE Insert(w)
  <2>1. ~Exists(job[w].i)
    BY <1>3 DEF Insert, Is, BoardInv, InsertsFresh
  <2>2. job[w].i # i
    BY <2>1 DEF Exists
  <2> QED
    BY <1>3, <2>2 DEF Insert, BoardInv, BoardTypes
<1>4. CASE Update(w)
  <2>1. rows' = [rows EXCEPT ![job[w].i] = Patched(w)] /\ job[w].at = "update"
        /\ raced' = IF job[w].seen \notin {"-", rows[job[w].i].st} THEN raced \cup {job[w].i} ELSE raced
    BY <1>4 DEF Update, Is
  <2>2. job[w].i = i
    BY <1>2, <2>1 DEF BoardInv, BoardTypes
  <2>3. job[w].st # "keep" /\ rows'[i].st = job[w].st
    BY <1>2, <2>1, <2>2 DEF BoardInv, BoardTypes, Patched, Row
  <2>4. Allowed(job[w].seen, job[w].st)
    BY <2>1, <2>2, <2>3 DEF BoardInv, UpdatesJudged
  <2>5. job[w].seen # "-"
    BY <2>4 DEF Allowed
  <2> QED
    BY <2>1, <2>2, <2>3, <2>4, <2>5
<1>5. CASE Delete(w)
  <2>1. rows' = [r \in Ids |-> CASE r = job[w].i -> NoRow
                                 [] r \in Unbound(job[w].i) -> [rows[r] EXCEPT !.x = "-"]
                                 [] OTHER -> rows[r]]
    BY <1>5 DEF Delete
  <2>2. i \notin Unbound(job[w].i)
    BY BoardConstants DEF Unbound
  <2>3. rows'[i] = NoRow \/ rows'[i] = rows[i]
    BY <2>1, <2>2
  <2> QED
    BY <2>3
<1> QED
  BY <1>1, <1>3, <1>4, <1>5

THEOREM OnlyAllowedTransitions == BoardSpec => TransitionsAllowed
<1>1. BoardInv /\ [BoardNext]_boardVars =>
        [\A i \in Tasks : /\ rows[i].st # rows'[i].st
                          /\ rows[i] # NoRow /\ rows'[i] # NoRow
           => Allowed(rows[i].st, rows'[i].st) \/ i \in raced']_boardVars
  BY TransitionStep
<1> QED
  BY <1>1, BoardInvariant, PTL DEF BoardSpec, TransitionsAllowed
=============================================================================
