--------------------------- MODULE StoreRefinement ----------------------------
(***************************************************************************)
(* db.py implements RowStore: under the mapping of module HealthDb the      *)
(* first statement of insert_* asks for a row, its last one stores it, a    *)
(* DELETE expires rows, a failure or a crash gives up what the threads were *)
(* at, and every other statement is a stutter.                              *)
(***************************************************************************)
EXTENDS HealthDbProofs, SequenceTheorems

\* What RowStore sees, as functions.
Known  == [f \in Files |-> {a \in Ips : ids[f][a] # 0}]
Tables == [f \in Files |-> [i \in DOMAIN log[f] |-> AsRead(f, log[f][i])]]
Tasks  == [t \in Threads |-> Task(t)]

\* A row as it was stored, with the address its insert was called for.
Stored(row) == [kind |-> row.kind, ip |-> row.ip, time |-> row.time]

\* The invariant that the refinement needs.
Reading == Attribution /\ IdsApart

-----------------------------------------------------------------------------
(* What readers see *)

LEMMA AlwaysReading == Spec => []Reading
<1>1. Init => IdsApart
  BY DEF Init, IdsApart
<1>2. Attribution /\ IdsApart /\ [Next]_vars => IdsApart'
  BY IdsApartStep
<1>3. QED
  BY <1>1, <1>2, AttributionInit, AttributionStep, PTL DEF Spec, Reading

\* Joining a row with servers gives the address it was stored for.
LEMMA ReaderSeesAddress ==
  ASSUME Reading, NEW f \in Files, NEW i \in DOMAIN log[f]
  PROVE  AsRead(f, log[f][i]) = Stored(log[f][i])
<1> DEFINE row == log[f][i]
<1>1. row \in Row /\ row.ip \in Ips
  BY RowsType DEF Reading, Attribution
<1>2. row.server \in Ids /\ row.server # 0
  BY <1>1, HealthDbAssumption DEF Row
<1>3. ids[f][row.ip] = row.server
  BY DEF Reading, Attribution, RowsBelongToTheirServer
<1>4. \A a \in Ips : ids[f][a] = row.server => a = row.ip
  BY <1>1, <1>2, <1>3 DEF Reading, IdsApart
<1>5. (CHOOSE a \in Ips : ids[f][a] = row.server) = row.ip
  BY <1>1, <1>3, <1>4
<1>6. QED
  BY <1>5 DEF AsRead, Stored

\* The tables, as they were stored.
StoredTables == [f \in Files |-> [i \in DOMAIN log[f] |-> Stored(log[f][i])]]

LEMMA TablesAreStored == Reading => Tables = StoredTables
BY ReaderSeesAddress DEF Tables, StoredTables

LEMMA TablesAreStoredNext == (Reading => Tables = StoredTables)'
BY TablesAreStored, PTL

\* As long as no row is inserted, the tables read the same.
LEMMA TablesStay ==
  ASSUME Reading, Reading', log' = log
  PROVE  Tables' = Tables
<1>1. Tables' = StoredTables'
  BY TablesAreStoredNext
<1>2. StoredTables' = StoredTables
  BY DEF StoredTables
<1>3. QED
  BY <1>1, <1>2, TablesAreStored

-----------------------------------------------------------------------------
(* What threads are at *)

\* An insert under way is one.
LEMMA TaskType ==
  ASSUME Reading, NEW t \in Threads, call[t].at \in InsertSteps
  PROVE  /\ Task(t) = [file |-> conn[t], kind |-> call[t].kind, ip |-> call[t].ip]
         /\ Task(t) # None
         /\ conn[t] \in Files /\ conn[t] # None
<1>1. InsertAgrees(t) /\ TypeOK /\ CallsConnected
  BY DEF Reading, Attribution
<1>2. conn[t] \in Files /\ conn[t] # None
  BY <1>1, ConnectionsAssumption
  DEF TypeOK, ConnectionsTypeOK, CallsConnected, Idle, InsertSteps
<1>3. call[t].ip \in Ips /\ call[t].kind \in KindsOfRow
  BY <1>1 DEF InsertAgrees
<1>4. Task(t) = [file |-> conn[t], kind |-> call[t].kind, ip |-> call[t].ip]
  BY DEF Task
<1>5. Task(t) \in [file : Files, kind : KindsOfRow, ip : Ips]
  BY <1>2, <1>3, <1>4
<1>6. QED
  BY <1>2, <1>4, <1>5, HealthDbAssumption

\* One thread changes what it is at.
LEMMA TasksExcept ==
  ASSUME Reading, NEW t \in Threads, ThreadStep(t), NEW x, Task(t)' = x
  PROVE  Tasks' = [Tasks EXCEPT ![t] = x]
<1>1. \A u \in Threads \ {t} : Task(u)' = Task(u)
  BY OthersSame DEF Reading, Attribution, Same, Task
<1>2. QED
  BY <1>1 DEF Tasks

\* A statement that only reads, and leaves every insert where it is, is a stutter.
LEMMA Stutter ==
  ASSUME Reading, Reading', UNCHANGED <<now, ids, log, live>>, Tasks' = Tasks
  PROVE  UNCHANGED Abstract!storeVars
<1>1. Known' = Known
  BY DEF Known
<1>2. Tables' = Tables
  BY TablesStay
<1>3. QED
  BY <1>1, <1>2 DEF Abstract!storeVars, Known, Tables, Tasks

-----------------------------------------------------------------------------
(* Step by step *)

LEMMA InsertServerAsks ==
  ASSUME Reading, Reading', NEW t \in Threads, InsertServer(t)
  PROVE  Abstract!Ask(t)
<1>1. TypeOK /\ File(t) \in Files
  BY FileType DEF Reading, Attribution
<1>2. PICK k \in Kinds, a \in Ips :
        /\ Begin(t, "select", k, a)
        /\ IF ids[File(t)][a] # 0 THEN UNCHANGED ids
           ELSE \E id \in Ids : /\ \A b \in Ips : ids[File(t)][b] < id
                                /\ ids' = [ids EXCEPT ![File(t)][a] = id]
  BY DEF InsertServer
<1>3. Task(t) = None /\ Tasks[t] = None
  BY DEF InsertServer, First, Idle, Task, Tasks, InsertSteps
<1>4. conn'[t] = File(t)
  BY <1>1 DEF InsertServer, First, Connect, TypeOK, ConnectionsTypeOK
<1>5. call'[t].at = "select" /\ call'[t].kind = k /\ call'[t].ip = a
  BY <1>1, <1>2 DEF Begin, NoCall, TypeOK
<1>6. Task(t)' = [file |-> File(t), kind |-> k, ip |-> a]
  BY <1>4, <1>5 DEF Task, InsertSteps
<1>7. Tasks' = [Tasks EXCEPT ![t] = [file |-> File(t), kind |-> k, ip |-> a]]
  BY <1>6, TasksExcept DEF ThreadStep
<1>8. Known' = [Known EXCEPT ![File(t)] = @ \cup {a}]
  <2>1. CASE ids[File(t)][a] # 0
    BY <1>1, <1>2, <2>1 DEF Known
  <2>2. CASE ids[File(t)][a] = 0
    <3>1. PICK id \in Ids : ids' = [ids EXCEPT ![File(t)][a] = id]
      BY <1>2, <2>2
    <3>2. id # 0
      BY HealthDbAssumption
    <3>3. ids \in [Files -> [Ips -> Ids \cup {0}]]
      BY <1>1 DEF TypeOK
    <3>4. \A f \in Files, b \in Ips :
            ids'[f][b] = IF f = File(t) /\ b = a THEN id ELSE ids[f][b]
      BY <1>1, <3>1, <3>3
    <3>5. \A f \in Files :
            {b \in Ips : ids'[f][b] # 0} =
              IF f = File(t) THEN {b \in Ips : ids[f][b] # 0} \cup {a}
              ELSE {b \in Ips : ids[f][b] # 0}
      BY <3>2, <3>4
    <3>6. QED
      BY <1>1, <3>5 DEF Known
  <2>3. QED
    BY <2>1, <2>2
<1>9. UNCHANGED <<now, log, live>>
  BY DEF InsertServer, First
<1>10. Tables' = Tables
  BY <1>9, TablesStay
<1>11. \E f \in Files, l \in Kinds, b \in Ips :
         /\ Tasks' = [Tasks EXCEPT ![t] = [file |-> f, kind |-> l, ip |-> b]]
         /\ Known' = [Known EXCEPT ![f] = @ \cup {b}]
  BY <1>1, <1>7, <1>8
<1>12. QED
  BY <1>3, <1>9, <1>10, <1>11 DEF Abstract!Ask, Known, Tables, Tasks

\* Append, on a sequence given as a function.
LEMMA AppendExtends ==
  ASSUME NEW S, NEW n \in Nat \ {0}, NEW s \in [1 .. n - 1 -> S], NEW e \in S
  PROVE  /\ Len(s) + 1 = n
         /\ Append(s, e) = [i \in 1 .. n |-> IF i = n THEN e ELSE s[i]]
<1>1. n - 1 \in Nat
  OBVIOUS
<1>2. s \in Seq(S)
  BY <1>1, SeqDef
<1>3. Len(s) \in Nat /\ DOMAIN s = 1 .. Len(s) /\ DOMAIN s = 1 .. n - 1
  BY <1>2, LenProperties
<1>4. Len(s) = n - 1
  BY <1>1, <1>3
<1>5. /\ Append(s, e) \in Seq(S) /\ Len(Append(s, e)) = n
      /\ \A i \in 1 .. n - 1 : Append(s, e)[i] = s[i]
      /\ Append(s, e)[n] = e
  BY <1>2, <1>4, AppendProperties
<1>6. Append(s, e) = [i \in 1 .. n |-> Append(s, e)[i]]
  BY <1>5, LenProperties
<1>7. \A i \in 1 .. n : Append(s, e)[i] = IF i = n THEN e ELSE s[i]
  BY <1>5
<1>8. QED
  BY <1>4, <1>6, <1>7

LEMMA InsertRowStores ==
  ASSUME Reading, Reading', NEW t \in Threads, InsertRow(t)
  PROVE  Abstract!Store(t)
<1>1. PICK f \in Files, n \in Nat \ {0}, row \in Row : Added(t, f, n, row)
  BY RowAdded DEF Reading
<1>2. call[t].at = "insert" /\ call' = [call EXCEPT ![t] = NoCall]
      /\ UNCHANGED <<now, ids>>
  BY DEF InsertRow, Return
<1>3. /\ Task(t) = [file |-> f, kind |-> call[t].kind, ip |-> call[t].ip]
      /\ Task(t) # None /\ Tasks[t] = Task(t)
  BY <1>1, <1>2, TaskType DEF Added, InsertSteps, Tasks
<1>4. Task(t)' = None
  BY <1>2 DEF Reading, Attribution, TypeOK, Task, NoCall, InsertSteps
<1>5. Tasks' = [Tasks EXCEPT ![t] = None]
  BY <1>4, TasksExcept DEF ThreadStep
<1>6. Known' = Known
  BY <1>2 DEF Known
<1>7. log \in [Files -> Seq(Row)] /\ live \in [Files -> SUBSET Nat]
  BY DEF Reading, Attribution, TypeOK
<1> DEFINE Rows == {Stored(r) : r \in Row}
           old == [i \in 1 .. n - 1 |-> Stored(log[f][i])]
<1>8. Tables[f] = old
  BY <1>1, TablesAreStored DEF StoredTables, Added
<1>9. old \in [1 .. n - 1 -> Rows] /\ Stored(row) \in Rows
  <2>1. \A i \in 1 .. n - 1 : log[f][i] \in Row
    BY <1>1, RowsType DEF Added, Reading, Attribution
  <2>2. \A i \in 1 .. n - 1 : Stored(log[f][i]) \in Rows
    BY <2>1
  <2> HIDE DEF Rows
  <2>3. old \in [1 .. n - 1 -> Rows]
    BY <2>2
  <2>4. Stored(row) \in Rows
    BY <1>1 DEF Rows
  <2>5. QED
    BY <2>3, <2>4
<1>10. /\ Len(Tables[f]) + 1 = n
       /\ Append(Tables[f], Stored(row)) =
            [i \in 1 .. n |-> IF i = n THEN Stored(row) ELSE old[i]]
  <2> HIDE DEF Rows, old
  <2>1. QED
    BY <1>8, <1>9, AppendExtends
<1>11. Tables' = [Tables EXCEPT ![f] = Append(Tables[f], Stored(row))]
  <2>1. Tables' = StoredTables'
    BY TablesAreStoredNext
  <2>2. Tables = StoredTables
    BY TablesAreStored
  <2>3. \A g \in Files \ {f} : log'[g] = log[g]
    BY <1>1, <1>7 DEF Added
  <2>4. \A i \in 1 .. n : log'[f][i] = IF i = n THEN row ELSE log[f][i]
    BY <1>1 DEF Added
  <2>5. StoredTables'[f] = [i \in 1 .. n |-> IF i = n THEN Stored(row) ELSE old[i]]
    <3>1. StoredTables'[f] = [i \in 1 .. n |-> Stored(log'[f][i])]
      BY <1>1 DEF StoredTables, Added
    <3>2. \A i \in 1 .. n : Stored(log'[f][i]) = IF i = n THEN Stored(row) ELSE old[i]
      BY <2>4
    <3> HIDE DEF old
    <3>3. QED
      BY <3>1, <3>2
  <2>6. \A g \in Files \ {f} : StoredTables'[g] = StoredTables[g]
    BY <2>3 DEF StoredTables
  <2>7. QED
    BY <1>10, <2>1, <2>2, <2>5, <2>6 DEF StoredTables
<1>12. live' = [live EXCEPT ![f] = @ \cup {Len(Tables[f]) + 1}]
  BY <1>1, <1>10 DEF Added
<1>13. Stored(row) = [kind |-> Tasks[t].kind, ip |-> Tasks[t].ip, time |-> now]
  BY <1>1, <1>3 DEF Added, NewRow, Stored
<1>14. Tasks[t].file = f /\ Tasks[t] # None
  BY <1>3
<1>15. QED
  <2> HIDE DEF old, Rows
  <2>1. /\ Tables' = [Tables EXCEPT ![Tasks[t].file] = Append(@,
              [kind |-> Tasks[t].kind, ip |-> Tasks[t].ip, time |-> now])]
        /\ live' = [live EXCEPT ![Tasks[t].file] = @ \cup {Len(Tables[Tasks[t].file]) + 1}]
    BY <1>11, <1>12, <1>13, <1>14
  <2>2. QED
    BY <1>2, <1>5, <1>6, <1>14, <2>1 DEF Abstract!Store, Known, Tables, Tasks

\* A DELETE takes rows that are old enough.
LEMMA DeleteExpires ==
  ASSUME Reading, Reading', NEW t \in Threads, NEW f \in Files, NEW kinds,
         Delete(f, kinds), UNCHANGED <<now, ids, log>>, Tasks' = Tasks
  PROVE  \E g \in Files : \E left \in SUBSET live[g] : Abstract!Expire(g, left)
<1>1. live \in [Files -> SUBSET Nat] /\ live[f] \subseteq DOMAIN log[f]
  BY DEF Reading, Attribution, TypeOK
<1>2. PICK left : left = live'[f]
  OBVIOUS
<1>3. left = {i \in live[f] : ~(log[f][i].kind \in kinds /\ log[f][i].time + Keep < now)}
  BY <1>1, <1>2 DEF Delete
<1>4. left \in SUBSET live[f] /\ live' = [live EXCEPT ![f] = left]
  BY <1>1, <1>2, <1>3 DEF Delete
<1>5. \A i \in live[f] \ left : log[f][i].time + Keep < now
  BY <1>3
<1>6. \A i \in live[f] : Tables[f][i].time = log[f][i].time
  BY <1>1 DEF Tables, AsRead
<1>7. \A i \in live[f] \ left : Tables[f][i].time + Keep < now
  BY <1>5, <1>6
<1>8. Tables' = Tables /\ Known' = Known
  BY TablesStay DEF Known
<1>9. Abstract!Expire(f, left)
  BY <1>4, <1>7, <1>8 DEF Abstract!Expire, Known, Tables, Tasks
<1>10. QED
  BY <1>4, <1>9

\* Outside of an insert, a thread that does not begin one is at nothing.
LEMMA TasksStay ==
  ASSUME Reading, NEW t \in Threads, ThreadStep(t), Task(t)' = Task(t)
  PROVE  Tasks' = Tasks
<1>1. Tasks' = [Tasks EXCEPT ![t] = Task(t)]
  BY TasksExcept
<1>2. QED
  BY <1>1 DEF Tasks

\* A cleanup is no insert.
LEMMA CleanupSimulated ==
  ASSUME Reading, Reading', NEW t \in Threads,
         DeleteHealth(t) \/ DeleteEvents(t) \/ DeleteTimestamps(t)
  PROVE  \E f \in Files : \E left \in SUBSET live[f] : Abstract!Expire(f, left)
<1>1. TypeOK /\ CallsConnected
  BY DEF Reading, Attribution
<1>2. call[t].at \notin InsertSteps /\ call'[t].at \notin InsertSteps
  <2>1. CASE DeleteHealth(t)
    BY <1>1, <2>1 DEF DeleteHealth, First, Idle, Begin, NoCall, InsertSteps, TypeOK
  <2>2. CASE DeleteEvents(t) \/ DeleteTimestamps(t)
    <3>1. call[t].at \in CleanupSteps /\ call'[t].at \in CleanupSteps
      BY <1>1, <2>2
      DEF DeleteEvents, DeleteTimestamps, Later, Goto, CleanupSteps, TypeOK, Call
    <3>2. QED
      BY <3>1 DEF CleanupSteps, InsertSteps
  <2>3. QED
    BY <2>1, <2>2
<1>3. Task(t)' = Task(t)
  BY <1>2 DEF Task
<1>4. Tasks' = Tasks
  BY <1>3, TasksStay DEF ThreadStep
<1>5. UNCHANGED <<now, ids, log>>
  BY DEF DeleteHealth, DeleteEvents, DeleteTimestamps, First, Later
<1>6. \E f \in Files, kinds \in SUBSET KindsOfRow : Delete(f, kinds)
  <2>1. CASE DeleteHealth(t)
    BY <1>1, <2>1, FileType DEF DeleteHealth, KindsOfRow
  <2>2. CASE DeleteEvents(t) \/ DeleteTimestamps(t)
    <3>1. conn[t] \in Files
      BY <1>1, <2>2 DEF DeleteEvents, DeleteTimestamps, Later, TypeOK, ConnectionsTypeOK
    <3>2. QED
      BY <2>2, <3>1 DEF DeleteEvents, DeleteTimestamps, KindsOfRow
  <2>3. QED
    BY <2>1, <2>2
<1>7. QED
  BY <1>4, <1>5, <1>6, DeleteExpires

\* An insert that fails, or whose process ends, gives up.
LEMMA FailureGivesUp ==
  ASSUME Reading, Reading', NEW ts \in SUBSET Threads,
         \A t \in ts : call'[t] = NoCall,
         \A t \in Threads \ ts : Same(t),
         UNCHANGED <<now, ids, log, live>>
  PROVE  Abstract!GiveUp(ts)
<1>1. \A t \in Threads : Task(t)' = IF t \in ts THEN None ELSE Task(t)
  BY DEF Same, Task, NoCall, InsertSteps
<1>2. Tasks' = [t \in Threads |-> IF t \in ts THEN None ELSE Tasks[t]]
  BY <1>1 DEF Tasks
<1>3. Tables' = Tables /\ Known' = Known
  BY TablesStay DEF Known
<1>4. QED
  BY <1>2, <1>3 DEF Abstract!GiveUp, Known, Tables, Tasks

\* All other statements, and the calls of the path, change no row and no insert.
LEMMA QuietStatement ==
  ASSUME Reading, Reading', NEW t \in Threads,
         \/ SelectServer(t) \/ UpdateLastSeen(t) \/ Vacuum(t) \/ FindServer(t)
         \/ CountMeasurements(t) \/ CountTimeouts(t) \/ Averages(t)
         \/ Read(t) \/ Administer(t)
  PROVE  UNCHANGED Abstract!storeVars
<1>1. TypeOK
  BY DEF Reading, Attribution
<1>2. UNCHANGED <<now, ids, log, live>>
  BY DEF SelectServer, UpdateLastSeen, Vacuum, FindServer, CountMeasurements,
         CountTimeouts, Averages, Read, Administer, First, Later, dbVars
<1>3. Task(t)' = Task(t)
  <2>1. CASE SelectServer(t) \/ UpdateLastSeen(t)
    BY <1>1, <2>1
    DEF SelectServer, UpdateLastSeen, Later, Goto, Task, InsertSteps, TypeOK, Call, connVars
  <2>2. CASE ~(SelectServer(t) \/ UpdateLastSeen(t))
    <3>1. call[t].at \notin InsertSteps /\ call'[t].at \notin InsertSteps
      <4>1. CASE Vacuum(t) \/ Averages(t)
        <5>1. call[t].at \in {"vacuum", "averages"} /\ call'[t] = NoCall
          BY <1>1, <4>1 DEF Vacuum, Averages, Later, Return, TypeOK
        <5>2. QED
          BY <5>1 DEF NoCall, InsertSteps
      <4>2. CASE FindServer(t)
        <5>1. call[t].at = "idle" /\ call'[t].at = "count"
          BY <1>1, <4>2 DEF FindServer, First, Idle, NoCall, TypeOK
        <5>2. QED
          BY <5>1 DEF InsertSteps
      <4>3. CASE CountMeasurements(t) \/ CountTimeouts(t)
        <5>1. call[t].at \in StatsSteps /\ call'[t].at \in StatsSteps
          BY <1>1, <4>3
          DEF CountMeasurements, CountTimeouts, Later, StatsSteps, TypeOK, Call
        <5>2. QED
          BY <5>1 DEF StatsSteps, InsertSteps
      <4>4. CASE Read(t) \/ Administer(t)
        BY <4>4 DEF Read, Administer, Idle, InsertSteps
      <4>5. QED
        BY <2>2, <4>1, <4>2, <4>3, <4>4
    <3>2. QED
      BY <3>1 DEF Task
  <2>3. QED
    BY <2>1, <2>2
<1>4. Tasks' = Tasks
  BY <1>3, TasksStay DEF ThreadStep
<1>5. QED
  BY <1>2, <1>4, Stutter

-----------------------------------------------------------------------------
(* The refinement *)

LEMMA ThreadStepSimulated ==
  ASSUME Reading, Reading', NEW t \in Threads, ThreadStep(t)
  PROVE  [Abstract!StoreNext]_(Abstract!storeVars)
<1>1. CASE InsertServer(t)
  BY <1>1, InsertServerAsks DEF Abstract!StoreNext
<1>2. CASE InsertRow(t)
  BY <1>2, InsertRowStores DEF Abstract!StoreNext
<1>3. CASE DeleteHealth(t) \/ DeleteEvents(t) \/ DeleteTimestamps(t)
  BY <1>3, CleanupSimulated DEF Abstract!StoreNext
<1>4. CASE StatementFails(t)
  <2>1. TypeOK
    BY DEF Reading, Attribution
  <2>2. call'[t] = NoCall /\ UNCHANGED <<now, ids, log, live>>
    BY <1>4, <2>1 DEF StatementFails, Return, dbVars, TypeOK
  <2>3. \A u \in Threads \ {t} : Same(u)
    BY <2>1, OthersSame
  <2>4. Abstract!GiveUp({t})
    BY <2>2, <2>3, FailureGivesUp
  <2>5. QED
    BY <2>4 DEF Abstract!StoreNext
<1>5. QED
  BY <1>1, <1>2, <1>3, <1>4, QuietStatement DEF ThreadStep

LEMMA StepSimulatedByStore ==
  ASSUME Reading, Reading', [Next]_vars
  PROVE  [Abstract!StoreNext]_(Abstract!storeVars)
<1>1. CASE \E t \in Threads : ThreadStep(t)
  BY <1>1, ThreadStepSimulated
<1>2. CASE \E p \in Processes : Crash(p)
  <2>1. PICK p \in Processes : Crash(p)
    BY <1>2
  <2>2. UNCHANGED <<now, ids, log, live>>
    BY <2>1 DEF Crash, dbVars
  <2>3. PICK ts \in SUBSET Threads : ts = {t \in Threads : ProcessOf[t] = p}
    OBVIOUS
  <2>4. /\ \A t \in ts : call'[t] = NoCall
        /\ \A t \in Threads \ ts : Same(t)
    BY <2>1, <2>3 DEF Crash, RestartProcess, Same
  <2>5. Abstract!GiveUp(ts)
    BY <2>2, <2>4, FailureGivesUp
  <2>6. QED
    BY <2>5 DEF Abstract!StoreNext
<1>3. CASE Tick
  <2>1. UNCHANGED <<conn, ids, log, live, call>> /\ now' = now + 1
    BY <1>3 DEF Tick, connVars, dbVars
  <2>2. Tables' = Tables /\ Known' = Known /\ Tasks' = Tasks
    BY <2>1, TablesStay DEF Known, Tasks, Task
  <2>3. Abstract!Pass
    BY <2>1, <2>2 DEF Abstract!Pass, Known, Tables, Tasks
  <2>4. QED
    BY <2>3 DEF Abstract!StoreNext
<1>4. CASE UNCHANGED vars
  <2>1. UNCHANGED <<now, ids, log, live>> /\ Tasks' = Tasks
    BY <1>4 DEF vars, connVars, Tasks, Task
  <2>2. QED
    BY <2>1, Stutter
<1>5. QED
  BY <1>1, <1>2, <1>3, <1>4 DEF Next

LEMMA InitSimulatedByStore == Init => Abstract!StoreInit
<1>1. SUFFICES ASSUME Init PROVE Abstract!StoreInit
  OBVIOUS
<1>2. Known = [f \in Files |-> {}]
  BY <1>1 DEF Init, Known
<1>3. Tables = [f \in Files |-> << >>]
  <2>1. \A f \in Files : log[f] = << >>
    BY <1>1 DEF Init
  <2>2. \A f \in Files : [i \in DOMAIN log[f] |-> AsRead(f, log[f][i])] = << >>
    BY <2>1
  <2>3. QED
    BY <2>2 DEF Tables
<1>4. Tasks = [t \in Threads |-> None]
  BY <1>1 DEF Init, Tasks, Task, NoCall, InsertSteps
<1>5. QED
  BY <1>1, <1>2, <1>3, <1>4 DEF Init, Abstract!StoreInit, Known, Tables, Tasks

\* However the statements of db.py interleave, fail or are cut off by crashes, its
\* inserts and its cleanup look atomic to whoever reads the tables: a row is stored once
\* and whole, in the file its call began with, for the address it was called with, and
\* goes only when it is old enough.
THEOREM InsertsLookAtomic == Spec => ImplementsStore
<1>1. Reading /\ Reading' /\ [Next]_vars => [Abstract!StoreNext]_(Abstract!storeVars)
  BY StepSimulatedByStore
<1>2. QED
  BY <1>1, InitSimulatedByStore, AlwaysReading, PTL
  DEF Spec, ImplementsStore, Abstract!StoreSpec
=============================================================================
