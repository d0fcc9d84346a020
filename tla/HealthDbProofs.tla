---------------------------- MODULE HealthDbProofs ----------------------------
(***************************************************************************)
(* What holds of shared database files for any threads, processes, files    *)
(* and addresses: rows stay with their servers, ids with their addresses,   *)
(* last_seen with the rows, cleanup_old_data leaves nothing old, and        *)
(* get_server_stats counts what it should.                                  *)
(***************************************************************************)
EXTENDS HealthDb, FiniteSetTheorems, TLAPS

\* A thread whose connection and call stay as they are.
Same(u) == conn'[u] = conn[u] /\ call'[u] = call[u]

-----------------------------------------------------------------------------
(* Steps as the files see them *)

\* The file of a thread is a file.
LEMMA FileType ==
  ASSUME TypeOK, NEW t \in Threads
  PROVE  File(t) \in Files
BY ConnectionsAssumption DEF TypeOK, ConnectionsTypeOK, File

\* A step of thread t is nobody else's.
LEMMA OthersSame ==
  ASSUME TypeOK, NEW t \in Threads, ThreadStep(t), NEW u \in Threads \ {t}
  PROVE  Same(u)
<1> USE DEF TypeOK, ConnectionsTypeOK
<1>1. CASE InsertServer(t) \/ DeleteHealth(t)
  BY <1>1 DEF InsertServer, DeleteHealth, First, Connect, Begin, Same
<1>2. CASE FindServer(t)
  BY <1>2 DEF FindServer, First, Connect, Same
<1>3. CASE SelectServer(t) \/ UpdateLastSeen(t) \/ DeleteEvents(t) \/ DeleteTimestamps(t)
  BY <1>3
  DEF SelectServer, UpdateLastSeen, DeleteEvents, DeleteTimestamps, Later, Goto, Same, connVars
<1>4. CASE CountMeasurements(t) \/ CountTimeouts(t) \/ Averages(t) \/ Vacuum(t)
  BY <1>4 DEF CountMeasurements, CountTimeouts, Averages, Vacuum, Later, Return, Same, connVars
<1>5. CASE InsertRow(t)
  BY <1>5 DEF InsertRow, Connect, Return, Same
<1>6. CASE Read(t) \/ StatementFails(t)
  BY <1>6 DEF Read, StatementFails, Connect, Return, Same, connVars
<1>7. CASE Administer(t)
  BY <1>7
  DEF Administer, SetDbPath, CloseThreadConnection, InitDatabase, Disconnect, Same
<1>8. QED
  BY <1>1, <1>2, <1>3, <1>4, <1>5, <1>6, <1>7 DEF ThreadStep

\* A crash ends every call of its process and leaves the other threads alone.
LEMMA CrashEffect ==
  ASSUME NEW p \in Processes, Crash(p), NEW u \in Threads
  PROVE  Same(u) \/ (conn'[u] = None /\ call'[u] = NoCall)
BY DEF Crash, RestartProcess, Same

\* Servers are only added.
LEMMA IdsStayInStep ==
  ASSUME TypeOK, [Next]_vars
  PROVE  IdsStay
<1>1. CASE UNCHANGED ids
  BY <1>1 DEF IdsStay
<1>2. CASE \E t \in Threads : InsertServer(t)
  <2>1. PICK t \in Threads : InsertServer(t)
    BY <1>2
  <2>2. PICK a \in Ips : IF ids[File(t)][a] # 0 THEN UNCHANGED ids
                         ELSE \E id \in Ids : ids' = [ids EXCEPT ![File(t)][a] = id]
    BY <2>1 DEF InsertServer
  <2>3. CASE \E id \in Ids : ids' = [ids EXCEPT ![File(t)][a] = id] /\ ids[File(t)][a] = 0
    <3>1. PICK id \in Ids : ids' = [ids EXCEPT ![File(t)][a] = id]
      BY <2>3
    <3>2. ids \in [Files -> [Ips -> Ids \cup {0}]] /\ File(t) \in Files
      BY FileType DEF TypeOK
    <3>3. SUFFICES ASSUME NEW f \in Files, NEW b \in Ips, ids[f][b] # 0
                   PROVE  ids'[f][b] = ids[f][b]
      BY DEF IdsStay
    <3>4. CASE f = File(t)
      BY <2>3, <3>1, <3>2, <3>3, <3>4
    <3>5. CASE f # File(t)
      BY <3>1, <3>2, <3>5
    <3>6. QED
      BY <3>4, <3>5
  <2>4. QED
    BY <1>1, <2>2, <2>3
<1>3. QED
  BY <1>1, <1>2
  DEF Next, vars, ThreadStep, SelectServer, UpdateLastSeen, InsertRow, DeleteHealth,
      DeleteEvents, DeleteTimestamps, Vacuum, FindServer, CountMeasurements, CountTimeouts,
      Averages, Read, Administer, StatementFails, Crash, Tick, dbVars

\* Rows are only deleted from the tables, never from the log, except that InsertRow
\* adds one to both.
LEMMA LogStep ==
  ASSUME TypeOK, NEW t \in Threads, ThreadStep(t)
  PROVE  InsertRow(t) \/ (log' = log /\ \A f \in Files : live'[f] \subseteq live[f])
<1>1. CASE DeleteHealth(t) \/ DeleteEvents(t) \/ DeleteTimestamps(t)
  BY <1>1 DEF DeleteHealth, DeleteEvents, DeleteTimestamps, Delete, TypeOK
<1>2. CASE log' = log /\ live' = live
  BY <1>2
<1>3. QED
  BY <1>1, <1>2
  DEF ThreadStep, InsertServer, SelectServer, UpdateLastSeen, Vacuum, FindServer,
      CountMeasurements, CountTimeouts, Averages, Read, Administer, StatementFails, dbVars

\* The row that InsertRow adds, as number n of the file f the thread holds.
NewRow(t) ==
    [kind |-> call[t].kind, server |-> call[t].server, time |-> now,
     ip |-> call[t].ip, begun |-> call[t].since]

Added(t, f, n, row) ==
    /\ f = conn[t] /\ f = File(t) /\ row = NewRow(t) /\ row \in Row
    /\ log' = [log EXCEPT ![f] = Append(log[f], row)]
    /\ live' = [live EXCEPT ![f] = live[f] \cup {n}]
    /\ DOMAIN log[f] = 1 .. n - 1 /\ DOMAIN log'[f] = 1 .. n
    /\ log'[f][n] = row
    /\ \A i \in DOMAIN log[f] : log'[f][i] = log[f][i]
    /\ conn' = conn
    /\ row.server = ids[f][row.ip]

LEMMA RowAdded ==
  ASSUME Attribution, NEW t \in Threads, InsertRow(t)
  PROVE  \E f \in Files, n \in Nat \ {0}, row \in Row : Added(t, f, n, row)
<1>1. PICK row : row = NewRow(t)
  OBVIOUS
<1>2. PICK f : f = conn[t]
  OBVIOUS
<1>3. PICK n : n = Len(log[f]) + 1
  OBVIOUS
<1>4. conn[t] # None /\ call[t].at = "insert" /\ InsertAgrees(t)
  BY DEF Attribution, CallsConnected, InsertRow, Idle
<1>5. f \in Files /\ f = File(t) /\ conn' = conn
  BY <1>4, <1>2 DEF Attribution, TypeOK, ConnectionsTypeOK, File, InsertRow, Connect
<1>6. /\ call[t] \in Call /\ call[t].ip \in Ips /\ call[t].kind \in KindsOfRow
      /\ call[t].server = ids[f][call[t].ip] /\ ids[f][call[t].ip] # 0
  BY <1>4, <1>2 DEF Attribution, TypeOK, InsertAgrees, InsertSteps
<1>7. call[t].server \in Ids /\ call[t].since \in Nat /\ now \in Nat
  BY <1>5, <1>6 DEF Attribution, TypeOK, Call
<1>8. row \in Row /\ row.server = ids[f][row.ip]
  BY <1>1, <1>6, <1>7 DEF Row, NewRow
<1>9. /\ log' = [log EXCEPT ![f] = Append(log[f], row)]
      /\ live' = [live EXCEPT ![f] = live[f] \cup {n}]
  BY <1>1, <1>2, <1>3, <1>5 DEF InsertRow, NewRow
<1>10. log[f] \in Seq(Row) /\ log'[f] = Append(log[f], row)
  BY <1>5, <1>9 DEF Attribution, TypeOK
<1>11. Len(log[f]) \in Nat
  BY <1>10
<1>12. /\ DOMAIN log[f] = 1 .. n - 1 /\ DOMAIN log'[f] = 1 .. n
      /\ log'[f][n] = row /\ \A i \in DOMAIN log[f] : log'[f][i] = log[f][i]
  BY <1>3, <1>8, <1>10, <1>11
<1>13. QED
  <2>1. n \in Nat \ {0}
    BY <1>3, <1>11
  <2>2. QED
    BY <1>1, <1>2, <1>5, <1>8, <1>9, <1>12, <2>1 DEF Added

-----------------------------------------------------------------------------
(* Types, and rows with their servers *)

\* A count of rows is a number.
LEMMA CountType ==
  ASSUME TypeOK, NEW f \in Files, NEW kinds, NEW server
  PROVE  CountRecent(f, kinds, server) \in Nat
<1> DEFINE found == {i \in live[f] : /\ log[f][i].kind \in kinds
                                    /\ log[f][i].server = server
                                    /\ log[f][i].time + Window >= now}
<1>1. /\ log[f] \in Seq(Row) /\ DOMAIN log[f] = 1 .. Len(log[f]) /\ Len(log[f]) \in Nat
      /\ found \subseteq DOMAIN log[f]
  BY DEF TypeOK
<1>2. IsFiniteSet(1 .. Len(log[f]))
  BY <1>1, FS_Interval
<1>3. IsFiniteSet(found)
  BY <1>1, <1>2, FS_Subset
<1>4. QED
  BY <1>3, FS_CardinalityType DEF CountRecent

\* An id is a number.
LEMMA IdType ==
  ASSUME TypeOK, NEW f \in Files, NEW a \in Ips
  PROVE  ids[f][a] \in Nat
<1>1. ids[f][a] \in Ids \cup {0}
  BY DEF TypeOK
<1>2. \A id \in Ids \cup {0} : id \in Nat
  BY HealthDbAssumption
<1>3. QED
  BY <1>1, <1>2

LEMMA NoCallType == NoCall \in Call
BY DEF NoCall, Call

\* The connections keep their type.
LEMMA ConnectionsStep ==
  ASSUME TypeOK, [Next]_vars
  PROVE  ConnectionsTypeOK'
<1>0. ConnectionsTypeOK
  BY DEF TypeOK
<1>1. CASE UNCHANGED connVars
  BY <1>0, <1>1 DEF connVars, ConnectionsTypeOK
<1>2. CASE \E t \in Threads : Connect(t) /\ UNCHANGED <<path, ready>>
  BY <1>0, <1>2, FileType DEF Connect, ConnectionsTypeOK
<1>3. CASE \E t \in Threads : Administer(t)
  BY <1>0, <1>3, ConnectionsAssumption
  DEF Administer, SetDbPath, CloseThreadConnection, InitDatabase, Disconnect, ConnectionsTypeOK
<1>4. CASE \E p \in Processes : Crash(p)
  BY <1>0, <1>4, ConnectionsAssumption DEF Crash, RestartProcess, ConnectionsTypeOK
<1>5. QED
  BY <1>1, <1>2, <1>3, <1>4
  DEF Next, vars, ThreadStep, InsertServer, SelectServer, UpdateLastSeen, InsertRow,
      DeleteHealth, DeleteEvents, DeleteTimestamps, Vacuum, FindServer, CountMeasurements,
      CountTimeouts, Averages, Read, StatementFails, Tick, First, Later

\* What a thread is doing keeps its type.
LEMMA CallStep ==
  ASSUME Attribution, [Next]_vars
  PROVE  call' \in [Threads -> Call]
<1>1. /\ TypeOK /\ call \in [Threads -> Call] /\ now \in Nat
      /\ ids \in [Files -> [Ips -> Ids \cup {0}]] /\ Ids \subseteq Nat
      /\ Kinds \subseteq KindsOfRow
  BY HealthDbAssumption DEF Attribution, TypeOK
<1>2. CASE UNCHANGED call \/ \E t \in Threads : Return(t)
  BY <1>1, <1>2, NoCallType DEF Return
<1>3. CASE \E t \in Threads, k \in Kinds, a \in Ips : Begin(t, "select", k, a)
  <2>1. PICK t \in Threads, k \in Kinds, a \in Ips : Begin(t, "select", k, a)
    BY <1>3
  <2> DEFINE new == [NoCall EXCEPT !.at = "select", !.kind = k, !.ip = a, !.since = now]
  <2>2. new \in Call
    BY <1>1 DEF NoCall, Call, InsertSteps
  <2>3. call' = [call EXCEPT ![t] = new]
    BY <2>1 DEF Begin
  <2> HIDE DEF new
  <2>4. QED
    BY <1>1, <2>2, <2>3
<1>4. CASE \E t \in Threads : Begin(t, "events", None, None)
  <2>1. PICK t \in Threads : Begin(t, "events", None, None)
    BY <1>4
  <2> DEFINE new == [NoCall EXCEPT !.at = "events", !.kind = None, !.ip = None, !.since = now]
  <2>2. new \in Call
    BY <1>1 DEF NoCall, Call, CleanupSteps
  <2>3. call' = [call EXCEPT ![t] = new]
    BY <2>1 DEF Begin
  <2> HIDE DEF new
  <2>4. QED
    BY <1>1, <2>2, <2>3
<1>5. CASE \E t \in Threads : \/ Goto(t, "insert") \/ Goto(t, "timestamps")
                              \/ Goto(t, "vacuum")
  BY <1>1, <1>5 DEF Goto, Call, InsertSteps, CleanupSteps
<1>6. CASE \E t \in Threads : SelectServer(t)
  <2>1. PICK t \in Threads : SelectServer(t)
    BY <1>6
  <2>2. conn[t] \in Files /\ call[t].ip \in Ips
    BY <2>1
    DEF Attribution, TypeOK, ConnectionsTypeOK, SelectServer, Later, InsertAgrees, InsertSteps
  <2>3. ids[conn[t]][call[t].ip] \in Nat
    BY <2>2, IdType DEF Attribution
  <2>4. PICK id \in Nat : call' = [call EXCEPT ![t].at = "update", ![t].server = id]
    BY <2>1, <2>3 DEF SelectServer
  <2>5. call[t] \in Call
    BY <1>1
  <2>6. [call[t] EXCEPT !.at = "update", !.server = id] \in Call
    BY <2>5 DEF Call, InsertSteps
  <2>7. call' = [call EXCEPT ![t] = [call[t] EXCEPT !.at = "update", !.server = id]]
    BY <1>1, <2>4
  <2>8. QED
    BY <1>1, <2>6, <2>7
<1>7. CASE \E t \in Threads : FindServer(t)
  <2>1. PICK t \in Threads, a \in Ips : call' = [call EXCEPT ![t] = [NoCall EXCEPT
              !.at = "count", !.ip = a, !.server = ids[File(t)][a],
              !.since = now, !.upto = Len(log[File(t)])]]
    BY <1>7 DEF FindServer
  <2> DEFINE new == [NoCall EXCEPT !.at = "count", !.ip = a, !.server = ids[File(t)][a],
                                   !.since = now, !.upto = Len(log[File(t)])]
  <2>2. File(t) \in Files
    BY <1>1, FileType
  <2>3. ids[File(t)][a] \in Nat
    BY <1>1, <2>2, IdType
  <2>4. Len(log[File(t)]) \in Nat
    BY <1>1, <2>2 DEF TypeOK
  <2>5. new \in Call
    BY <1>1, <2>3, <2>4 DEF NoCall, Call, StatsSteps
  <2>6. call' = [call EXCEPT ![t] = new]
    BY <2>1
  <2> HIDE DEF new
  <2>7. QED
    BY <1>1, <2>5, <2>6
<1>8. CASE \E t \in Threads : CountMeasurements(t) \/ CountTimeouts(t)
  <2>1. PICK t \in Threads : CountMeasurements(t) \/ CountTimeouts(t)
    BY <1>8
  <2>2. conn[t] \in Files
    BY <2>1 DEF Attribution, TypeOK, ConnectionsTypeOK, CountMeasurements, CountTimeouts, Later
  <2>3. PICK n \in Nat : \/ call' = [call EXCEPT ![t].at = "timeouts", ![t].measurements = n]
                        \/ call' = [call EXCEPT ![t].at = "averages", ![t].timeouts = n]
    <3>1. CountRecent(conn[t], {"health"}, call[t].server) \in Nat
      BY <1>1, <2>2, CountType
    <3>2. CountRecent(conn[t], {"timeout"}, call[t].server) \in Nat
      BY <1>1, <2>2, CountType
    <3>3. QED
      BY <2>1, <3>1, <3>2 DEF CountMeasurements, CountTimeouts
  <2>4. call[t] \in Call
    BY <1>1
  <2>5. /\ [call[t] EXCEPT !.at = "timeouts", !.measurements = n] \in Call
        /\ [call[t] EXCEPT !.at = "averages", !.timeouts = n] \in Call
    BY <2>4 DEF Call, StatsSteps
  <2>6. PICK new \in Call : call' = [call EXCEPT ![t] = new]
    BY <1>1, <2>3, <2>5
  <2>7. QED
    BY <1>1, <2>6
<1>9. CASE \E p \in Processes : Crash(p)
  BY <1>1, <1>9, NoCallType DEF Crash
<1>10. CASE \E t \in Threads : ThreadStep(t)
  BY <1>2, <1>3, <1>4, <1>5, <1>6, <1>7, <1>8, <1>10
  DEF ThreadStep, InsertServer, UpdateLastSeen, InsertRow, DeleteHealth, DeleteEvents,
      DeleteTimestamps, Vacuum, Averages, Read, Administer, StatementFails
<1>11. QED
  BY <1>2, <1>9, <1>10 DEF Next, vars, Tick

\* The servers and the clock keep their type.
LEMMA ServersStep ==
  ASSUME Attribution, [Next]_vars
  PROVE  /\ now' \in Nat
         /\ ids' \in [Files -> [Ips -> Ids \cup {0}]]
         /\ seen' \in [Files -> [Ips -> Nat \cup {None}]]
<1>1. /\ TypeOK /\ now \in Nat /\ ids \in [Files -> [Ips -> Ids \cup {0}]]
      /\ seen \in [Files -> [Ips -> Nat \cup {None}]]
  BY DEF Attribution, TypeOK
<1>2. CASE UNCHANGED <<now, ids, seen>>
  BY <1>1, <1>2
<1>3. CASE \E t \in Threads : InsertServer(t)
  <2>1. PICK t \in Threads, a \in Ips :
          \/ ids' = ids
          \/ \E id \in Ids : ids' = [ids EXCEPT ![File(t)][a] = id]
    BY <1>3 DEF InsertServer
  <2>2. now' = now /\ seen' = seen
    BY <1>3 DEF InsertServer, First
  <2>3. File(t) \in Files
    BY <1>1, FileType
  <2>4. ids' \in [Files -> [Ips -> Ids \cup {0}]]
    BY <1>1, <2>1, <2>3
  <2>5. QED
    BY <1>1, <2>2, <2>4
<1>4. CASE \E t \in Threads : UpdateLastSeen(t)
  <2>1. PICK t \in Threads : UpdateLastSeen(t)
    BY <1>4
  <2>2. conn[t] \in Files
    BY <1>1, <2>1 DEF TypeOK, ConnectionsTypeOK, UpdateLastSeen, Later
  <2>3. UNCHANGED <<now, ids>>
        /\ seen' = [seen EXCEPT ![conn[t]][call[t].ip] = now]
    BY <2>1 DEF UpdateLastSeen, Later
  <2>4. QED
    BY <1>1, <2>2, <2>3
<1>5. CASE Tick
  BY <1>1, <1>5 DEF Tick, dbVars
<1>6. QED
  BY <1>2, <1>3, <1>4, <1>5
  DEF Next, vars, ThreadStep, SelectServer, InsertRow, DeleteHealth, DeleteEvents,
      DeleteTimestamps, Vacuum, FindServer, CountMeasurements, CountTimeouts, Averages, Read,
      Administer, StatementFails, Crash, First, Later, connVars, dbVars

\* The rows keep their type.
LEMMA RowsStep ==
  ASSUME Attribution, [Next]_vars
  PROVE  /\ log' \in [Files -> Seq(Row)]
         /\ live' \in [Files -> SUBSET Nat]
         /\ \A f \in Files : live'[f] \subseteq DOMAIN log'[f]
<1>1. /\ TypeOK /\ log \in [Files -> Seq(Row)] /\ live \in [Files -> SUBSET Nat]
      /\ \A f \in Files : live[f] \subseteq DOMAIN log[f]
  BY DEF Attribution, TypeOK
<1>2. CASE UNCHANGED <<log, live>>
  BY <1>1, <1>2
<1>3. CASE \E t \in Threads : DeleteHealth(t) \/ DeleteEvents(t) \/ DeleteTimestamps(t)
  <2>1. log' = log
    BY <1>3 DEF DeleteHealth, DeleteEvents, DeleteTimestamps
  <2>2. PICK g, kinds : Delete(g, kinds)
    BY <1>3 DEF DeleteHealth, DeleteEvents, DeleteTimestamps
  <2>3. /\ live' \in [Files -> SUBSET Nat]
        /\ \A f \in Files : live'[f] \subseteq live[f]
    BY <1>1, <2>2 DEF Delete
  <2>4. QED
    BY <1>1, <2>1, <2>3
<1>4. CASE \E t \in Threads : InsertRow(t)
  <2>1. PICK t \in Threads : InsertRow(t)
    BY <1>4
  <2>2. PICK f \in Files, n \in Nat \ {0}, row \in Row : Added(t, f, n, row)
    BY <2>1, RowAdded
  <2>3. log' \in [Files -> Seq(Row)] /\ live' \in [Files -> SUBSET Nat]
    BY <1>1, <2>2 DEF Added
  <2>4. ASSUME NEW g \in Files PROVE live'[g] \subseteq DOMAIN log'[g]
    BY <1>1, <2>2 DEF Added
  <2>5. QED
    BY <2>3, <2>4
<1>5. QED
  BY <1>2, <1>3, <1>4
  DEF Next, vars, ThreadStep, InsertServer, SelectServer, UpdateLastSeen, Vacuum, FindServer,
      CountMeasurements, CountTimeouts, Averages, Read, Administer, StatementFails, Crash, Tick,
      dbVars

\* A thread with a call keeps its connection through it, and gets one with it.
LEMMA ConnectedStep ==
  ASSUME Attribution, [Next]_vars
  PROVE  CallsConnected'
<1>1. TypeOK /\ CallsConnected
  BY DEF Attribution
<1>2. CASE UNCHANGED <<conn, call>>
  BY <1>1, <1>2 DEF CallsConnected, Idle
<1>3. CASE \E p \in Processes : Crash(p)
  BY <1>1, <1>3, CrashEffect DEF CallsConnected, Same, Idle, NoCall
<1>4. CASE \E t \in Threads : ThreadStep(t)
  <2>1. PICK t \in Threads : ThreadStep(t)
    BY <1>4
  <2>2. call'[t].at # "idle" => conn'[t] # None
    <3>1. CASE Connect(t)
      <4>1. conn'[t] = File(t)
        BY <1>1, <3>1 DEF Connect, TypeOK, ConnectionsTypeOK
      <4>2. QED
        BY <1>1, <4>1, FileType, ConnectionsAssumption
    <3>2. CASE conn' = conn /\ conn[t] # None
      BY <3>2
    <3>3. CASE Return(t)
      BY <1>1, <3>3 DEF Return, TypeOK, NoCall
    <3>4. CASE Administer(t)
      BY <1>1, <3>4 DEF Administer, Idle
    <3>5. QED
      BY <2>1, <3>1, <3>2, <3>3, <3>4
      DEF ThreadStep, InsertServer, SelectServer, UpdateLastSeen, InsertRow, DeleteHealth,
          DeleteEvents, DeleteTimestamps, Vacuum, FindServer, CountMeasurements,
          CountTimeouts, Averages, Read, StatementFails, First, Later, connVars
  <2>3. ASSUME NEW u \in Threads \ {t} PROVE call'[u].at # "idle" => conn'[u] # None
    BY <1>1, <2>1, OthersSame DEF CallsConnected, Same, Idle
  <2>4. QED
    BY <2>2, <2>3 DEF CallsConnected, Idle
<1>5. QED
  BY <1>2, <1>3, <1>4 DEF Next, vars, Tick, connVars

\* An insert keeps the address it began with, and the id stays that address's.
LEMMA InsertStep ==
  ASSUME Attribution, [Next]_vars, NEW u \in Threads
  PROVE  InsertAgrees(u)'
<1>1. /\ TypeOK /\ InsertAgrees(u) /\ IdsStay
      /\ ~Idle(u) => conn[u] \in Files
  BY IdsStayInStep DEF Attribution, CallsConnected, TypeOK, ConnectionsTypeOK
<1>2. CASE Same(u)
  BY <1>1, <1>2 DEF InsertAgrees, Same, IdsStay, Idle, InsertSteps
<1>3. CASE call'[u].at \notin InsertSteps
  BY <1>3 DEF InsertAgrees
<1>4. CASE ThreadStep(u)
  <2>1. CASE InsertServer(u)
    <3>1. PICK k \in Kinds, a \in Ips :
             /\ Begin(u, "select", k, a)
             /\ IF ids[File(u)][a] # 0 THEN UNCHANGED ids
                ELSE \E id \in Ids : ids' = [ids EXCEPT ![File(u)][a] = id]
      BY <2>1 DEF InsertServer
    <3>2. call'[u].at = "select" /\ call'[u].ip = a /\ call'[u].kind = k
      BY <1>1, <3>1 DEF Begin, NoCall, TypeOK
    <3>3. conn'[u] = File(u) /\ File(u) \in Files
      BY <1>1, <2>1, FileType DEF InsertServer, First, Connect, TypeOK, ConnectionsTypeOK
    <3>4. CASE ids[File(u)][a] # 0 /\ ids' = ids
      BY <3>2, <3>3, <3>4, HealthDbAssumption DEF InsertAgrees
    <3>5. CASE \E id \in Ids : ids' = [ids EXCEPT ![File(u)][a] = id]
      <4>1. PICK id \in Ids : ids' = [ids EXCEPT ![File(u)][a] = id]
        BY <3>5
      <4>2. ids'[File(u)][a] = id
        BY <1>1, <3>3, <4>1 DEF TypeOK
      <4>3. id # 0
        BY HealthDbAssumption
      <4>4. QED
        BY <3>2, <3>3, <4>2, <4>3, HealthDbAssumption DEF InsertAgrees
    <3>6. QED
      BY <3>1, <3>4, <3>5
  <2>2. CASE SelectServer(u)
    <3>1. /\ call[u].at = "select" /\ call'[u].ip = call[u].ip /\ call'[u].kind = call[u].kind
          /\ call'[u].server = ids[conn[u]][call[u].ip] /\ UNCHANGED <<conn, ids>>
      BY <1>1, <2>2 DEF SelectServer, Later, TypeOK, Call, connVars, dbVars
    <3>2. QED
      BY <1>1, <3>1 DEF InsertAgrees, InsertSteps
  <2>3. CASE UpdateLastSeen(u)
    <3>1. /\ call[u].at = "update" /\ call'[u].ip = call[u].ip /\ call'[u].kind = call[u].kind
          /\ call'[u].server = call[u].server /\ UNCHANGED <<conn, ids>>
      BY <1>1, <2>3 DEF UpdateLastSeen, Later, Goto, TypeOK, Call, connVars
    <3>2. QED
      BY <1>1, <3>1 DEF InsertAgrees, InsertSteps
  <2>4. CASE Return(u)
    BY <1>1, <1>3, <2>4 DEF Return, NoCall, TypeOK, InsertSteps
  <2>5. CASE call'[u].at \in CleanupSteps \cup StatsSteps
    BY <1>3, <2>5 DEF CleanupSteps, StatsSteps, InsertSteps
  <2>6. CASE Idle(u) /\ call' = call
    BY <1>3, <2>6 DEF Idle, InsertSteps
  <2>7. CASE DeleteHealth(u)
    BY <1>1, <2>5, <2>7 DEF DeleteHealth, Begin, NoCall, TypeOK, CleanupSteps
  <2>8. CASE DeleteEvents(u) \/ DeleteTimestamps(u)
    BY <1>1, <2>5, <2>8 DEF DeleteEvents, DeleteTimestamps, Goto, TypeOK, CleanupSteps, Call
  <2>9. CASE FindServer(u)
    BY <1>1, <2>5, <2>9 DEF FindServer, NoCall, TypeOK, StatsSteps
  <2>10. CASE CountMeasurements(u) \/ CountTimeouts(u)
    BY <1>1, <2>5, <2>10 DEF CountMeasurements, CountTimeouts, TypeOK, StatsSteps, Call
  <2>11. QED
    BY <1>4, <2>1, <2>2, <2>3, <2>4, <2>6, <2>7, <2>8, <2>9, <2>10
    DEF ThreadStep, InsertRow, Vacuum, Averages, Read, Administer, StatementFails
<1>5. CASE \E t \in Threads : t # u /\ ThreadStep(t)
  BY <1>1, <1>2, <1>5, OthersSame
<1>6. CASE \E p \in Processes : Crash(p)
  BY <1>2, <1>3, <1>6, CrashEffect DEF NoCall, InsertSteps
<1>7. CASE UNCHANGED <<conn, call>>
  BY <1>2, <1>7 DEF Same
<1>8. QED
  BY <1>4, <1>5, <1>6, <1>7 DEF Next, vars, Tick, connVars

\* Old rows keep their server, whose id stays; the new one has the id of its own.
LEMMA RowsOfServersStep ==
  ASSUME Attribution, [Next]_vars
  PROVE  RowsBelongToTheirServer'
<1>1. TypeOK /\ RowsBelongToTheirServer /\ IdsStay
  BY IdsStayInStep DEF Attribution
<1>2. ASSUME NEW f \in Files, NEW i \in DOMAIN log[f]
      PROVE  log[f][i].server = ids'[f][log[f][i].ip]
  <2>1. log[f][i] \in Row
    BY <1>1 DEF TypeOK
  <2>2. log[f][i].server \in Ids /\ log[f][i].ip \in Ips
    BY <2>1 DEF Row
  <2>3. ids[f][log[f][i].ip] # 0
    BY <1>1, <2>2, HealthDbAssumption DEF RowsBelongToTheirServer
  <2>4. QED
    BY <1>1, <2>2, <2>3 DEF RowsBelongToTheirServer, IdsStay
<1>3. CASE log' = log
  BY <1>2, <1>3 DEF RowsBelongToTheirServer
<1>4. CASE \E t \in Threads : InsertRow(t)
  <2>1. PICK t \in Threads : InsertRow(t)
    BY <1>4
  <2>2. PICK f \in Files, n \in Nat \ {0}, row \in Row : Added(t, f, n, row)
    BY <2>1, RowAdded
  <2>3. ids' = ids
    BY <2>1 DEF InsertRow
  <2>4. SUFFICES ASSUME NEW g \in Files, NEW i \in DOMAIN log'[g]
                 PROVE  log'[g][i].server = ids'[g][log'[g][i].ip]
    BY DEF RowsBelongToTheirServer
  <2>5. CASE g = f /\ i = n
    BY <2>2, <2>3, <2>5 DEF Added
  <2>6. CASE g = f /\ i # n
    <3>1. i \in DOMAIN log[g] /\ log'[g][i] = log[g][i]
      BY <2>2, <2>6 DEF Added
    <3>2. QED
      BY <1>2, <3>1
  <2>7. CASE g # f
    <3>1. log'[g] = log[g]
      BY <1>1, <2>2, <2>7 DEF Added, TypeOK
    <3>2. QED
      BY <1>2, <3>1
  <2>8. QED
    BY <2>5, <2>6, <2>7
<1>5. QED
  <2>1. CASE \E t \in Threads : ThreadStep(t)
    BY <1>1, <1>3, <1>4, <2>1, LogStep
  <2>2. QED
    BY <1>3, <2>1 DEF Next, vars, Crash, Tick, dbVars

LEMMA AttributionInit == Init => Attribution
<1> SUFFICES ASSUME Init PROVE Attribution
  OBVIOUS
<1>1. ConnectionsTypeOK
  BY ConnectionsAssumption DEF Init, ConnectionsInit, ConnectionsTypeOK
<1>2. TypeOK
  BY <1>1, NoCallType DEF Init, TypeOK
<1>3. CallsConnected /\ \A t \in Threads : InsertAgrees(t)
  BY DEF Init, CallsConnected, InsertAgrees, Idle, NoCall, InsertSteps
<1>4. RowsBelongToTheirServer
  BY DEF Init, RowsBelongToTheirServer
<1>5. QED
  BY <1>2, <1>3, <1>4 DEF Attribution

LEMMA AttributionStep == Attribution /\ [Next]_vars => Attribution'
<1> SUFFICES ASSUME Attribution, [Next]_vars PROVE Attribution'
  OBVIOUS
<1>1. TypeOK'
  BY ConnectionsStep, CallStep, ServersStep, RowsStep DEF Attribution, TypeOK
<1>2. QED
  BY <1>1, ConnectedStep, InsertStep, RowsOfServersStep DEF Attribution

LEMMA AlwaysAttribution == Spec => []Attribution
BY AttributionInit, AttributionStep, PTL DEF Spec

\* The tables, the connections and what the threads are doing keep their types,
\* through every interleaving of statements, failure and crash.
THEOREM DbTypeCorrect == Spec => []TypeOK
<1>1. Attribution => TypeOK
  BY DEF Attribution
<1>2. QED
  BY <1>1, AlwaysAttribution, PTL

\* A stored row is attributed to the server it was inserted for, in the file it is
\* in, whatever other threads do between the statements of insert_*.
THEOREM RowsStayWithServers == Spec => []RowsBelongToTheirServer
<1>1. Attribution => RowsBelongToTheirServer
  BY DEF Attribution
<1>2. QED
  BY <1>1, AlwaysAttribution, PTL

\* An address keeps the id that INSERT OR IGNORE gave it.
THEOREM IdsAreStable == Spec => ServerIdsStable
<1>1. Attribution /\ [Next]_vars => IdsStay
  BY IdsStayInStep DEF Attribution
<1>2. QED
  BY <1>1, AlwaysAttribution, PTL DEF Spec, ServerIdsStable

-----------------------------------------------------------------------------
(* cleanup_old_data *)

\* A row that is new is no older than any cleanup, and one that is not is only
\* ever deleted.
LEMMA CleanedRowsStay ==
  ASSUME Attribution, CleanupProgress, [Next]_vars, NEW f \in Files, NEW i \in live'[f]
  PROVE  \/ i \in live[f] /\ log'[f][i] = log[f][i]
         \/ \A u \in Threads : log'[f][i].time + Keep >= call[u].since
<1>1. TypeOK /\ \A u \in Threads : call[u].since <= now
  BY DEF Attribution, CleanupProgress
<1>2. CASE log' = log /\ live'[f] \subseteq live[f]
  BY <1>2
<1>3. CASE \E t \in Threads : InsertRow(t)
  <2>1. PICK t \in Threads : InsertRow(t)
    BY <1>3
  <2>2. PICK g \in Files, n \in Nat \ {0}, row \in Row : Added(t, g, n, row)
    BY <2>1, RowAdded
  <2>3. CASE f = g /\ i = n
    <3>1. log'[f][i].time = now
      BY <2>2, <2>3 DEF Added, NewRow
    <3>2. \A u \in Threads : call[u].since \in Nat
      BY <1>1 DEF TypeOK, Call
    <3>3. now \in Nat /\ Keep \in Nat
      BY <1>1, HealthDbAssumption DEF TypeOK
    <3>4. QED
      BY <1>1, <3>1, <3>2, <3>3
  <2>4. CASE f = g /\ i # n
    <3>1. i \in live[f]
      BY <1>1, <2>2, <2>4 DEF Added, TypeOK
    <3>2. i \in DOMAIN log[f]
      BY <1>1, <3>1 DEF TypeOK
    <3>3. QED
      BY <2>2, <2>4, <3>1, <3>2 DEF Added
  <2>5. CASE f # g
    BY <1>1, <2>2, <2>5 DEF Added, TypeOK
  <2>6. QED
    BY <2>3, <2>4, <2>5
<1>4. QED
  <2>1. CASE \E t \in Threads : ThreadStep(t)
    BY <1>1, <1>2, <1>3, <2>1, LogStep
  <2>2. QED
    BY <1>2, <2>1 DEF Next, vars, Crash, Tick, dbVars

\* What thread u has cleaned stays clean while it rests.
LEMMA RestingCleanup ==
  ASSUME Attribution, CleanupProgress, [Next]_vars, NEW u \in Threads, ~Idle(u),
         conn'[u] = conn[u], call'[u].since = call[u].since,
         KindsCleaned(u)' = KindsCleaned(u)
  PROVE  CleanedSoFar(u)'
<1>1. CleanedSoFar(u) /\ conn[u] \in Files
  BY DEF CleanupProgress, Attribution, CallsConnected, TypeOK, ConnectionsTypeOK
<1>2. SUFFICES ASSUME NEW i \in live'[conn[u]], log'[conn[u]][i].kind \in KindsCleaned(u)
               PROVE  log'[conn[u]][i].time + Keep >= call[u].since
  BY DEF CleanedSoFar
<1>3. QED
  BY <1>1, <1>2, CleanedRowsStay DEF CleanedSoFar

\* A DELETE cleans its kinds, and leaves the others as they were.
LEMMA DeleteCleans ==
  ASSUME Attribution, CleanupProgress, NEW u \in Threads, NEW f \in Files, NEW kinds,
         Delete(f, kinds), log' = log, conn'[u] = f, call'[u].since <= now,
         call'[u].since \in Nat,
         \/ KindsCleaned(u)' = kinds
         \/ /\ ~Idle(u) /\ conn[u] = f /\ call'[u].since = call[u].since
            /\ KindsCleaned(u)' \subseteq KindsCleaned(u) \cup kinds
  PROVE  CleanedSoFar(u)'
<1>1. TypeOK /\ (~Idle(u) => CleanedSoFar(u))
  BY DEF Attribution, CleanupProgress
<1>2. live'[f] = {i \in live[f] : ~(log[f][i].kind \in kinds /\ log[f][i].time + Keep < now)}
  BY <1>1 DEF Delete, TypeOK
<1>3. SUFFICES ASSUME NEW i \in live'[f], log[f][i].kind \in KindsCleaned(u)'
               PROVE  log[f][i].time + Keep >= call'[u].since
  BY DEF CleanedSoFar
<1>4. i \in live[f] /\ log[f][i] \in Row
  BY <1>1, <1>2 DEF TypeOK
<1>5. log[f][i].time \in Nat /\ Keep \in Nat /\ now \in Nat
  BY <1>1, <1>4, HealthDbAssumption DEF TypeOK, Row
<1>6. CASE log[f][i].kind \in kinds
  BY <1>2, <1>5, <1>6
<1>7. CASE log[f][i].kind \notin kinds
  BY <1>1, <1>3, <1>4, <1>7 DEF CleanedSoFar
<1>8. QED
  BY <1>6, <1>7

LEMMA CleanupStep == Attribution /\ CleanupProgress /\ [Next]_vars => CleanupProgress'
<1> SUFFICES ASSUME Attribution, CleanupProgress, [Next]_vars, NEW u \in Threads
             PROVE  (call[u].since <= now)' /\ (~Idle(u)' => CleanedSoFar(u)')
  BY DEF CleanupProgress
<1>1. /\ TypeOK /\ now \in Nat /\ call[u] \in Call /\ call[u].since \in Nat
      /\ call[u].since <= now
  BY DEF Attribution, CleanupProgress, TypeOK, Call
<1>2. now' \in Nat /\ now <= now'
  <2>1. CASE now' = now
    BY <1>1, <2>1
  <2>2. CASE Tick
    BY <1>1, <2>2 DEF Tick
  <2>3. QED
    BY <2>1, <2>2
    DEF Next, vars, ThreadStep, InsertServer, SelectServer, UpdateLastSeen, InsertRow,
        DeleteHealth, DeleteEvents, DeleteTimestamps, Vacuum, FindServer, CountMeasurements,
        CountTimeouts, Averages, Read, Administer, StatementFails, Crash, First, Later
<1>3. CASE Same(u)
  BY <1>1, <1>2, <1>3, RestingCleanup DEF Same, Idle, KindsCleaned
<1>4. CASE call'[u] = NoCall
  BY <1>2, <1>4 DEF NoCall, Idle
<1>5. CASE /\ call'[u].since \in {now, call[u].since}
           /\ KindsCleaned(u)' = {}
  BY <1>1, <1>2, <1>5 DEF CleanedSoFar
<1>6. CASE ThreadStep(u)
  <2>1. CASE InsertServer(u) \/ FindServer(u)
    <3>1. call'[u].since = now /\ call'[u].at \in {"select", "count"}
      <4>1. CASE InsertServer(u)
        BY <1>1, <4>1 DEF InsertServer, Begin, NoCall, TypeOK
      <4>2. CASE FindServer(u)
        BY <1>1, <4>2 DEF FindServer, NoCall, TypeOK
      <4>3. QED
        BY <2>1, <4>1, <4>2
    <3>2. QED
      BY <1>5, <3>1 DEF KindsCleaned
  <2>2. CASE SelectServer(u) \/ UpdateLastSeen(u) \/ CountMeasurements(u) \/ CountTimeouts(u)
    <3>1. /\ call'[u].since = call[u].since
          /\ call'[u].at \in {"update", "insert", "timeouts", "averages"}
      BY <1>1, <2>2
      DEF SelectServer, UpdateLastSeen, CountMeasurements, CountTimeouts, Goto, TypeOK, Call
    <3>2. QED
      BY <1>5, <3>1 DEF KindsCleaned
  <2>3. CASE Return(u)
    BY <1>1, <1>4, <2>3 DEF Return, TypeOK
  <2>4. CASE Idle(u) /\ call' = call
    BY <1>1, <1>2, <2>4 DEF Idle
  <2>5. CASE DeleteHealth(u)
    <3>1. PICK f \in Files : f = File(u)
      BY <1>1, FileType
    <3>2. conn'[u] = f /\ Delete(f, {"health"}) /\ log' = log
      BY <1>1, <2>5, <3>1
      DEF DeleteHealth, First, Connect, TypeOK, ConnectionsTypeOK
    <3>3. call'[u].since = now /\ call'[u].at = "events"
      BY <1>1, <2>5 DEF DeleteHealth, Begin, NoCall, TypeOK
    <3>4. KindsCleaned(u)' = {"health"}
      BY <3>3 DEF KindsCleaned
    <3>5. CleanedSoFar(u)'
      <4>1. call'[u].since \in Nat /\ call'[u].since <= now
        BY <1>1, <3>3
      <4>2. QED
        BY <3>2, <3>4, <4>1, DeleteCleans
    <3>6. QED
      BY <1>1, <1>2, <3>3, <3>5
  <2>6. CASE DeleteEvents(u)
    <3>1. PICK f \in Files : f = conn[u]
      BY <1>1, <2>6 DEF DeleteEvents, Later, TypeOK, ConnectionsTypeOK
    <3>2. /\ conn'[u] = f /\ Delete(f, {"timeout", "icmp_error"}) /\ log' = log
          /\ call[u].at = "events"
      BY <2>6, <3>1 DEF DeleteEvents, Later, connVars
    <3>3. call'[u].since = call[u].since /\ call'[u].at = "timestamps"
      BY <1>1, <2>6 DEF DeleteEvents, Goto, TypeOK, Call
    <3>4. KindsCleaned(u)' \subseteq KindsCleaned(u) \cup {"timeout", "icmp_error"}
      BY <3>2, <3>3 DEF KindsCleaned
    <3>5. CleanedSoFar(u)'
      BY <1>1, <3>1, <3>2, <3>3, <3>4, DeleteCleans DEF Idle
    <3>6. QED
      BY <1>1, <1>2, <3>3, <3>5
  <2>7. CASE DeleteTimestamps(u)
    <3>1. PICK f \in Files : f = conn[u]
      BY <1>1, <2>7 DEF DeleteTimestamps, Later, TypeOK, ConnectionsTypeOK
    <3>2. /\ conn'[u] = f /\ Delete(f, {"timestamp"}) /\ log' = log
          /\ call[u].at = "timestamps"
      BY <2>7, <3>1 DEF DeleteTimestamps, Later, connVars
    <3>3. call'[u].since = call[u].since /\ call'[u].at = "vacuum"
      BY <1>1, <2>7 DEF DeleteTimestamps, Goto, TypeOK, Call
    <3>4. KindsCleaned(u)' \subseteq KindsCleaned(u) \cup {"timestamp"}
      BY <3>2, <3>3 DEF KindsCleaned, KindsOfRow
    <3>5. CleanedSoFar(u)'
      BY <1>1, <3>1, <3>2, <3>3, <3>4, DeleteCleans DEF Idle
    <3>6. QED
      BY <1>1, <1>2, <3>3, <3>5
  <2>8. QED
    BY <1>6, <2>1, <2>2, <2>3, <2>4, <2>5, <2>6, <2>7
    DEF ThreadStep, InsertRow, Vacuum, Averages, Read, Administer, StatementFails
<1>7. QED
  BY <1>1, <1>3, <1>4, <1>6, OthersSame, CrashEffect DEF Next, vars, Tick, connVars, Same

LEMMA AlwaysCleanup == Spec => [](Attribution /\ CleanupProgress)
<1>1. Init => CleanupProgress
  BY DEF Init, CleanupProgress, Idle, NoCall
<1>2. QED
  BY <1>1, AttributionInit, AttributionStep, CleanupStep, PTL DEF Spec

\* When the last DELETE of a cleanup is done, no table holds a row that was too old
\* when it began, although other threads insert in between.
THEOREM CleanupIsComplete == Spec => []CleanupLeavesNothingOld
<1>1. ASSUME Attribution, CleanupProgress PROVE CleanupLeavesNothingOld
  <2>1. SUFFICES ASSUME NEW t \in Threads, call[t].at = "vacuum", NEW i \in live[conn[t]]
                 PROVE  log[conn[t]][i].time + Keep >= call[t].since
    BY DEF CleanupLeavesNothingOld
  <2>2. CleanedSoFar(t) /\ KindsCleaned(t) = KindsOfRow
    BY <1>1, <2>1 DEF CleanupProgress, Idle, KindsCleaned
  <2>3. log[conn[t]][i].kind \in KindsOfRow
    <3>1. conn[t] \in Files
      BY <1>1, <2>1 DEF Attribution, CallsConnected, Idle, TypeOK, ConnectionsTypeOK
    <3>2. i \in DOMAIN log[conn[t]] /\ log[conn[t]] \in Seq(Row)
      BY <1>1, <2>1, <3>1 DEF Attribution, TypeOK
    <3>3. log[conn[t]][i] \in Row
      BY <3>2
    <3>4. QED
      BY <3>3 DEF Row
  <2>4. QED
    BY <2>1, <2>2, <2>3 DEF CleanedSoFar
<1>2. QED
  BY <1>1, AlwaysCleanup, PTL

-----------------------------------------------------------------------------
(* last_seen *)

\* last_seen, once set, only grows.
LEMMA SeenGrows ==
  ASSUME Attribution, Sightings, [Next]_vars, NEW f \in Files, NEW a \in Ips, seen[f][a] # None
  PROVE  seen'[f][a] # None /\ seen'[f][a] >= seen[f][a]
<1>1. /\ seen \in [Files -> [Ips -> Nat \cup {None}]] /\ now \in Nat
      /\ seen[f][a] <= now
  BY DEF Attribution, TypeOK, Sightings, SeenByNow
<1>2. seen[f][a] \in Nat
  BY <1>1
<1>3. CASE seen' = seen
  BY <1>2, <1>3
<1>4. CASE \E t \in Threads : UpdateLastSeen(t)
  <2>1. PICK g, b : seen' = [seen EXCEPT ![g][b] = now]
    BY <1>4 DEF UpdateLastSeen
  <2>2. seen'[f][a] = seen[f][a] \/ seen'[f][a] = now
    BY <1>1, <2>1
  <2>3. QED
    BY <1>1, <1>2, <2>2, HealthDbAssumption
<1>5. QED
  BY <1>3, <1>4
  DEF Next, vars, ThreadStep, InsertServer, SelectServer, InsertRow, DeleteHealth, DeleteEvents,
      DeleteTimestamps, Vacuum, FindServer, CountMeasurements, CountTimeouts, Averages, Read,
      Administer, StatementFails, Crash, Tick, dbVars

\* The clock does not go back.
LEMMA ClockStep ==
  ASSUME Attribution, [Next]_vars
  PROVE  now \in Nat /\ now' \in Nat /\ now <= now'
<1>1. now \in Nat
  BY DEF Attribution, TypeOK
<1>2. CASE now' = now
  BY <1>1, <1>2
<1>3. CASE Tick
  BY <1>1, <1>3 DEF Tick
<1>4. QED
  BY <1>2, <1>3
  DEF Next, vars, ThreadStep, InsertServer, SelectServer, UpdateLastSeen, InsertRow,
      DeleteHealth, DeleteEvents, DeleteTimestamps, Vacuum, FindServer, CountMeasurements,
      CountTimeouts, Averages, Read, Administer, StatementFails, Crash, First, Later

LEMMA SeenByNowStep ==
  ASSUME Attribution, Sightings, [Next]_vars
  PROVE  SeenByNow'
<1> SUFFICES ASSUME NEW f \in Files, NEW a \in Ips, seen'[f][a] # None
             PROVE  seen'[f][a] <= now'
  BY DEF SeenByNow
<1>1. /\ seen \in [Files -> [Ips -> Nat \cup {None}]]
      /\ now \in Nat /\ now' \in Nat /\ now <= now'
  BY ClockStep DEF Attribution, TypeOK
<1>2. seen[f][a] # None => seen[f][a] <= now /\ seen[f][a] \in Nat
  BY <1>1 DEF Sightings, SeenByNow
<1>3. seen'[f][a] = seen[f][a] \/ seen'[f][a] = now
  <2>1. CASE seen' = seen
    BY <2>1
  <2>2. CASE \E t \in Threads : UpdateLastSeen(t)
    <3>1. PICK g, b : seen' = [seen EXCEPT ![g][b] = now]
      BY <2>2 DEF UpdateLastSeen
    <3>2. QED
      BY <1>1, <3>1
  <2>3. QED
    BY <2>1, <2>2
    DEF Next, vars, ThreadStep, InsertServer, SelectServer, InsertRow, DeleteHealth,
        DeleteEvents, DeleteTimestamps, Vacuum, FindServer, CountMeasurements, CountTimeouts,
        Averages, Read, Administer, StatementFails, Crash, Tick, dbVars
<1>4. QED
  BY <1>1, <1>2, <1>3

\* A thread that comes to its INSERT has seen the server in this call.
LEMMA SeenBeforeInsertStep ==
  ASSUME Attribution, Sightings, [Next]_vars, NEW u \in Threads
  PROVE  SeenBeforeInsert(u)'
<1>1. /\ TypeOK /\ call[u] \in Call /\ call[u].since \in Nat
      /\ now \in Nat /\ now' \in Nat /\ now <= now'
  BY ClockStep DEF Attribution, TypeOK, Call
<1>2. SeenBeforeInsert(u) /\ InsertAgrees(u)
  BY DEF Attribution, Sightings
<1>3. CASE Same(u)
  <2>1. call'[u].since = call[u].since /\ call'[u].since <= now'
    BY <1>1, <1>2, <1>3 DEF Same, SeenBeforeInsert
  <2>2. ASSUME call[u].at = "insert"
        PROVE  LET last == seen'[conn[u]][call[u].ip] IN last # None /\ last >= call[u].since
    <3>1. PICK f \in Files, a \in Ips : f = conn[u] /\ a = call[u].ip
      BY <1>2, <2>2
      DEF Attribution, CallsConnected, Idle, TypeOK, ConnectionsTypeOK, InsertAgrees, InsertSteps
    <3>2. seen[f][a] # None /\ seen[f][a] >= call[u].since
      BY <1>2, <2>2, <3>1 DEF SeenBeforeInsert
    <3>3. seen'[f][a] # None /\ seen'[f][a] >= seen[f][a]
      BY <3>2, SeenGrows
    <3>4. seen[f][a] \in Nat
      BY <1>1, <3>2 DEF TypeOK
    <3>5. seen' \in [Files -> [Ips -> Nat \cup {None}]]
      BY ServersStep
    <3>6. seen'[f][a] \in Nat
      BY <3>3, <3>5
    <3>7. QED
      BY <1>1, <3>1, <3>2, <3>3, <3>4, <3>6
  <2>3. QED
    BY <1>3, <2>1, <2>2 DEF Same, SeenBeforeInsert
<1>4. CASE call'[u].at # "insert" /\ call'[u].since \in {now, call[u].since, 0}
  BY <1>1, <1>2, <1>4 DEF SeenBeforeInsert
<1>5. CASE call'[u] = NoCall
  BY <1>4, <1>5 DEF NoCall
<1>6. CASE ThreadStep(u)
  <2>1. CASE InsertServer(u) \/ DeleteHealth(u)
    <3>1. call'[u].at \in {"select", "events"} /\ call'[u].since = now
      <4>1. CASE InsertServer(u)
        BY <1>1, <4>1 DEF InsertServer, Begin, NoCall, TypeOK
      <4>2. CASE DeleteHealth(u)
        BY <1>1, <4>2 DEF DeleteHealth, Begin, NoCall, TypeOK
      <4>3. QED
        BY <2>1, <4>1, <4>2
    <3>2. QED
      BY <1>4, <3>1
  <2>2. CASE FindServer(u)
    BY <1>1, <1>4, <2>2 DEF FindServer, NoCall, TypeOK
  <2>3. CASE \/ SelectServer(u) \/ CountMeasurements(u) \/ CountTimeouts(u)
             \/ DeleteEvents(u) \/ DeleteTimestamps(u)
    BY <1>1, <1>4, <2>3
    DEF SelectServer, CountMeasurements, CountTimeouts, DeleteEvents, DeleteTimestamps, Goto,
        TypeOK, Call
  <2>4. CASE UpdateLastSeen(u)
    <3>1. /\ call'[u].since = call[u].since /\ call'[u].ip = call[u].ip /\ conn' = conn
          /\ call[u].at = "update"
      BY <1>1, <2>4 DEF UpdateLastSeen, Later, Goto, connVars, TypeOK, Call
    <3>2. conn[u] \in Files /\ call[u].ip \in Ips
      BY <1>2, <3>1
      DEF Attribution, CallsConnected, Idle, TypeOK, ConnectionsTypeOK, InsertAgrees, InsertSteps
    <3>3. seen'[conn[u]][call[u].ip] = now
      BY <1>1, <2>4, <3>2 DEF UpdateLastSeen, TypeOK
    <3>4. now # None
      BY <1>1, HealthDbAssumption
    <3>5. call[u].since <= now /\ call[u].since <= now'
      BY <1>1, <1>2 DEF SeenBeforeInsert
    <3>6. conn'[u] = conn[u]
      BY <3>1
    <3>7. seen'[conn'[u]][call'[u].ip] = now
      BY <3>1, <3>3, <3>6
    <3>8. now >= call[u].since
      BY <1>1, <3>5
    <3>9. QED
      BY <3>1, <3>4, <3>5, <3>7, <3>8 DEF SeenBeforeInsert
  <2>5. CASE Return(u)
    BY <1>1, <1>5, <2>5 DEF Return, TypeOK
  <2>6. CASE Idle(u) /\ call' = call
    BY <1>1, <1>4, <2>6 DEF Idle
  <2>7. QED
    BY <1>6, <2>1, <2>2, <2>3, <2>4, <2>5, <2>6
    DEF ThreadStep, InsertRow, Vacuum, Averages, Read, Administer, StatementFails
<1>7. QED
  BY <1>1, <1>3, <1>5, <1>6, OthersSame, CrashEffect DEF Next, vars, Tick, connVars, Same

\* A new row finds its server seen, and last_seen of the old ones only grows.
LEMMA RowsSeenStep ==
  ASSUME Attribution, Sightings, [Next]_vars
  PROVE  MeasuredServersWereSeen'
<1>1. TypeOK /\ MeasuredServersWereSeen
  BY DEF Attribution, Sightings
<1>2. ASSUME NEW f \in Files, NEW i \in DOMAIN log[f]
      PROVE  LET last == seen'[f][log[f][i].ip] IN last # None /\ last >= log[f][i].begun
  <2>1. log[f][i] \in Row
    BY <1>1 DEF TypeOK
  <2>2. PICK a \in Ips : a = log[f][i].ip
    BY <2>1 DEF Row
  <2>3. log[f][i].begun \in Nat
    BY <2>1 DEF Row
  <2>4. seen[f][a] # None /\ seen[f][a] >= log[f][i].begun
    BY <1>1, <2>2 DEF MeasuredServersWereSeen
  <2>5. seen'[f][a] # None /\ seen'[f][a] >= seen[f][a]
    BY <2>4, SeenGrows
  <2>6. seen[f][a] \in Nat
    BY <1>1, <2>4 DEF TypeOK
  <2>7. seen' \in [Files -> [Ips -> Nat \cup {None}]]
    BY ServersStep
  <2>8. seen'[f][a] \in Nat
    BY <2>5, <2>7
  <2>9. QED
    BY <2>2, <2>3, <2>4, <2>5, <2>6, <2>8
<1>3. CASE log' = log
  BY <1>2, <1>3 DEF MeasuredServersWereSeen
<1>4. CASE \E t \in Threads : InsertRow(t)
  <2>1. PICK t \in Threads : InsertRow(t)
    BY <1>4
  <2>2. PICK f \in Files, n \in Nat \ {0}, row \in Row : Added(t, f, n, row)
    BY <2>1, RowAdded
  <2>3. seen' = seen
    BY <2>1 DEF InsertRow
  <2>4. SUFFICES ASSUME NEW g \in Files, NEW i \in DOMAIN log'[g]
                 PROVE  LET last == seen'[g][log'[g][i].ip]
                        IN  last # None /\ last >= log'[g][i].begun
    BY DEF MeasuredServersWereSeen
  <2>5. CASE g = f /\ i = n
    <3>1. log'[g][i].ip = call[t].ip /\ log'[g][i].begun = call[t].since /\ g = conn[t]
      BY <2>2, <2>5 DEF Added, NewRow
    <3>2. SeenBeforeInsert(t) /\ call[t].at = "insert"
      BY <2>1 DEF Sightings, InsertRow
    <3>3. QED
      BY <2>3, <3>1, <3>2 DEF SeenBeforeInsert
  <2>6. CASE g = f /\ i # n
    <3>1. i \in DOMAIN log[g] /\ log'[g][i] = log[g][i]
      BY <2>2, <2>6 DEF Added
    <3>2. QED
      BY <1>2, <3>1
  <2>7. CASE g # f
    <3>1. log'[g] = log[g]
      BY <1>1, <2>2, <2>7 DEF Added, TypeOK
    <3>2. QED
      BY <1>2, <3>1
  <2>8. QED
    BY <2>5, <2>6, <2>7
<1>5. QED
  <2>1. CASE \E t \in Threads : ThreadStep(t)
    BY <1>1, <1>3, <1>4, <2>1, LogStep
  <2>2. QED
    BY <1>3, <2>1 DEF Next, vars, Crash, Tick, dbVars

\* A server that has a row was seen, and not before the call that stored the row.
THEOREM RowsImplySightings == Spec => []MeasuredServersWereSeen
<1>1. Init => Sightings
  BY HealthDbAssumption
  DEF Init, Sightings, SeenByNow, SeenBeforeInsert, MeasuredServersWereSeen, NoCall
<1>2. Attribution /\ Sightings /\ [Next]_vars => Sightings'
  BY SeenByNowStep, SeenBeforeInsertStep, RowsSeenStep DEF Sightings
<1>3. Sightings => MeasuredServersWereSeen
  BY DEF Sightings
<1>4. QED
  BY <1>1, <1>2, <1>3, AlwaysAttribution, PTL DEF Spec
-----------------------------------------------------------------------------
(* get_server_stats *)

\* What a step adds to a log it adds behind the rows that are there, which stay.
LEMMA LogGrows ==
  ASSUME Attribution, [Next]_vars, NEW f \in Files
  PROVE  /\ DOMAIN log[f] \subseteq DOMAIN log'[f]
         /\ \A i \in DOMAIN log[f] : log'[f][i] = log[f][i]
<1>1. TypeOK
  BY DEF Attribution
<1>2. CASE log' = log
  BY <1>2
<1>3. CASE \E t \in Threads : InsertRow(t)
  <2>1. PICK t \in Threads : InsertRow(t)
    BY <1>3
  <2>2. PICK g \in Files, n \in Nat \ {0}, row \in Row : Added(t, g, n, row)
    BY <2>1, RowAdded
  <2>3. CASE f = g
    BY <2>2, <2>3 DEF Added
  <2>4. CASE f # g
    BY <1>1, <2>2, <2>4 DEF Added, TypeOK
  <2>5. QED
    BY <2>3, <2>4
<1>4. QED
  <2>1. CASE \E t \in Threads : ThreadStep(t)
    BY <1>1, <1>2, <1>3, <2>1, LogStep
  <2>2. QED
    BY <1>2, <2>1 DEF Next, vars, Crash, Tick, dbVars

\* The rows of a file, and the times they were inserted at.
LEMMA RowsType ==
  ASSUME TypeOK, NEW f \in Files
  PROVE  /\ IsFiniteSet(DOMAIN log[f])
         /\ \A i \in DOMAIN log[f] :
              log[f][i] \in Row /\ log[f][i].time \in Nat /\ log[f][i].ip \in Ips
<1>1. /\ log[f] \in Seq(Row) /\ DOMAIN log[f] = 1 .. Len(log[f]) /\ Len(log[f]) \in Nat
  BY DEF TypeOK
<1>2. IsFiniteSet(1 .. Len(log[f]))
  BY <1>1, FS_Interval
<1>3. \A i \in DOMAIN log[f] : log[f][i] \in Row
  BY <1>1
<1>4. \A row \in Row : row.time \in Nat /\ row.ip \in Ips
  BY DEF Row
<1>5. QED
  BY <1>1, <1>2, <1>3, <1>4

\* A DELETE takes no row younger than the limit, and nothing else takes any.
LEMMA YoungRowsStep ==
  ASSUME Attribution, YoungRowsLive, [Next]_vars
  PROVE  YoungRowsLive'
<1>1. TypeOK /\ now \in Nat /\ now' \in Nat /\ now <= now' /\ Keep \in Nat
  BY ClockStep, HealthDbAssumption DEF Attribution
<1>2. SUFFICES ASSUME NEW f \in Files, NEW i \in DOMAIN log'[f], log'[f][i].time + Keep >= now'
               PROVE  i \in live'[f]
  BY DEF YoungRowsLive
<1>3. ASSUME i \in DOMAIN log[f]
      PROVE  /\ log'[f][i] = log[f][i] /\ log[f][i].time \in Nat
             /\ log[f][i].time + Keep >= now /\ i \in live[f]
  <2>1. log'[f][i] = log[f][i] /\ log[f][i].time \in Nat
    BY <1>1, <1>3, LogGrows, RowsType
  <2>2. log[f][i].time + Keep >= now
    BY <1>1, <1>2, <2>1
  <2>3. QED
    BY <1>3, <2>1, <2>2 DEF YoungRowsLive
<1>4. CASE log' = log /\ live' = live
  BY <1>2, <1>3, <1>4
<1>5. CASE \E t \in Threads : DeleteHealth(t) \/ DeleteEvents(t) \/ DeleteTimestamps(t)
  <2>1. log' = log /\ i \in DOMAIN log[f]
    BY <1>2, <1>5 DEF DeleteHealth, DeleteEvents, DeleteTimestamps
  <2>2. PICK g, kinds : Delete(g, kinds)
    BY <1>5 DEF DeleteHealth, DeleteEvents, DeleteTimestamps
  <2>3. ~(log[f][i].time + Keep < now)
    BY <1>1, <1>3, <2>1
  <2>4. QED
    BY <1>1, <1>3, <2>1, <2>2, <2>3 DEF Delete, TypeOK
<1>6. CASE \E t \in Threads : InsertRow(t)
  <2>1. PICK t \in Threads : InsertRow(t)
    BY <1>6
  <2>2. PICK g \in Files, n \in Nat \ {0}, row \in Row : Added(t, g, n, row)
    BY <2>1, RowAdded
  <2>3. CASE f # g
    BY <1>1, <1>2, <1>3, <2>2, <2>3 DEF Added, TypeOK
  <2>4. CASE f = g
    <3>1. live'[f] = live[f] \cup {n}
      BY <1>1, <2>2, <2>4 DEF Added, TypeOK
    <3>2. i \in DOMAIN log[f] \/ i = n
      BY <1>2, <2>2, <2>4 DEF Added
    <3>3. QED
      BY <1>3, <3>1, <3>2
  <2>5. QED
    BY <2>3, <2>4
<1>7. QED
  BY <1>4, <1>5, <1>6
  DEF Next, vars, ThreadStep, InsertServer, SelectServer, UpdateLastSeen, Vacuum, FindServer,
      CountMeasurements, CountTimeouts, Averages, Read, Administer, StatementFails, Crash, Tick,
      dbVars

\* A new server gets an id above those of all others.
LEMMA IdsApartStep ==
  ASSUME Attribution, IdsApart, [Next]_vars
  PROVE  IdsApart'
<1>1. TypeOK /\ ids \in [Files -> [Ips -> Ids \cup {0}]]
  BY DEF Attribution, TypeOK
<1>2. CASE ids' = ids
  BY <1>2 DEF IdsApart
<1>3. CASE \E t \in Threads : InsertServer(t)
  <2>1. PICK t \in Threads : InsertServer(t)
    BY <1>3
  <2>2. PICK c \in Ips :
          IF ids[File(t)][c] # 0 THEN UNCHANGED ids
          ELSE \E id \in Ids : /\ \A b \in Ips : ids[File(t)][b] < id
                               /\ ids' = [ids EXCEPT ![File(t)][c] = id]
    BY <2>1 DEF InsertServer
  <2>3. CASE ids' = ids
    BY <1>2, <2>3
  <2>4. CASE \E id \in Ids : /\ \A b \in Ips : ids[File(t)][b] < id
                             /\ ids' = [ids EXCEPT ![File(t)][c] = id]
    <3>1. PICK id \in Ids : /\ \A b \in Ips : ids[File(t)][b] < id
                            /\ ids' = [ids EXCEPT ![File(t)][c] = id]
      BY <2>4
    <3>2. SUFFICES ASSUME NEW f \in Files, NEW a \in Ips, NEW b \in Ips,
                          ids'[f][a] # 0, ids'[f][a] = ids'[f][b]
                   PROVE  a = b
      BY DEF IdsApart
    <3>3. PICK g \in Files : g = File(t)
      BY <1>1, FileType
    <3>4. CASE f # g
      <4>1. ids'[f] = ids[f]
        BY <1>1, <3>1, <3>3, <3>4
      <4>2. QED
        BY <3>2, <4>1 DEF IdsApart
    <3>5. CASE f = g
      <4>1. \A x \in Ips : ids'[f][x] = IF x = c THEN id ELSE ids[f][x]
        BY <1>1, <3>1, <3>3, <3>5
      <4>2. id \in Nat /\ \A x \in Ips : ids[f][x] \in Nat /\ ids[f][x] < id
        BY <1>1, <3>1, <3>3, <3>5, IdType, HealthDbAssumption
      <4>3. \A x \in Ips : ids[f][x] # id
        BY <4>2
      <4>4. CASE a # c /\ b # c
        BY <3>2, <4>1, <4>4 DEF IdsApart
      <4>5. QED
        BY <3>2, <4>1, <4>3, <4>4
    <3>6. QED
      BY <3>4, <3>5
  <2>5. QED
    BY <2>2, <2>3, <2>4
<1>4. QED
  BY <1>2, <1>3
  DEF Next, vars, ThreadStep, SelectServer, UpdateLastSeen, InsertRow, DeleteHealth,
      DeleteEvents, DeleteTimestamps, Vacuum, FindServer, CountMeasurements, CountTimeouts,
      Averages, Read, Administer, StatementFails, Crash, Tick, dbVars

\* The probes of one kind are finitely many.
LEMMA ProbesFinite ==
  ASSUME TypeOK, NEW kind, NEW f \in Files, NEW a, NEW positions \in SUBSET DOMAIN log[f], NEW w
  PROVE  /\ IsFiniteSet(ProbesOfKind(kind, f, a, positions, w))
         /\ Cardinality(ProbesOfKind(kind, f, a, positions, w)) \in Nat
<1>1. ProbesOfKind(kind, f, a, positions, w) \subseteq DOMAIN log[f]
  BY DEF ProbesOfKind, Probes
<1>2. IsFiniteSet(DOMAIN log[f])
  BY RowsType
<1>3. QED
  BY <1>1, <1>2, FS_Subset, FS_CardinalityType

\* The two bounds move apart: what was stored before the call leaves the window, and
\* what is stored grows.
LEMMA BoundsMoveApart ==
  ASSUME Attribution, TypeOK', [Next]_vars, NEW t \in Threads, conn[t] \in Files,
         conn'[t] = conn[t], call'[t].upto = call[t].upto, call'[t].ip = call[t].ip,
         call'[t].since = call[t].since, 1 .. call[t].upto \subseteq DOMAIN log[conn[t]],
         NEW kind, NEW n \in Nat, Between(t, kind, n)
  PROVE  Between(t, kind, n)'
<1>1. PICK f \in Files : f = conn[t]
  OBVIOUS
<1>2. /\ TypeOK /\ now \in Nat /\ now' \in Nat /\ now <= now' /\ Window \in Nat
  BY ClockStep, HealthDbAssumption DEF Attribution
<1>3. /\ DOMAIN log[f] \subseteq DOMAIN log'[f]
      /\ \A i \in DOMAIN log[f] : log'[f][i] = log[f][i]
  BY LogGrows
<1>4. \A i \in DOMAIN log[f] : log[f][i].time \in Nat
  BY <1>2, RowsType
<1> DEFINE low  == ProbesOfKind(kind, f, call[t].ip, 1 .. call[t].upto, now)
           high == ProbesOfKind(kind, f, call[t].ip, DOMAIN log[f], call[t].since)
           low2 == ProbesOfKind(kind, f, call[t].ip, 1 .. call[t].upto, now)'
           high2 == ProbesOfKind(kind, f, call[t].ip, DOMAIN log[f], call[t].since)'
<1>5. low2 \subseteq low
  <2>1. SUFFICES ASSUME NEW i \in low2
                 PROVE  i \in low
    OBVIOUS
  <2>2. i \in DOMAIN log[f] /\ log'[f][i] = log[f][i] /\ log[f][i].time \in Nat
    BY <1>1, <1>3, <1>4 DEF ProbesOfKind, Probes
  <2>3. log[f][i].time + Window >= now' => log[f][i].time + Window >= now
    BY <1>2, <2>2
  <2>4. QED
    BY <1>1, <2>2, <2>3 DEF ProbesOfKind, Probes
<1>6. high \subseteq high2
  BY <1>1, <1>3 DEF ProbesOfKind, Probes
<1>7. /\ IsFiniteSet(low) /\ Cardinality(low) \in Nat
      /\ Cardinality(high) \in Nat
  BY <1>1, <1>2, ProbesFinite
<1>8. IsFiniteSet(high2) /\ Cardinality(high2) \in Nat
  <2>1. log'[f] \in Seq(Row)
    BY DEF TypeOK
  <2>2. PICK n2 \in Nat : DOMAIN log'[f] = 1 .. n2
    BY <2>1
  <2>3. 1 \in Int /\ n2 \in Int
    OBVIOUS
  <2>4. IsFiniteSet(1 .. n2)
    BY <2>3, FS_Interval
  <2>5. IsFiniteSet(DOMAIN log'[f])
    BY <2>2, <2>4
  <2>6. high2 \subseteq DOMAIN log'[f]
    BY DEF ProbesOfKind, Probes
  <2>7. QED
    BY <2>5, <2>6, FS_Subset, FS_CardinalityType
<1>9. Cardinality(low2) <= Cardinality(low) /\ Cardinality(low2) \in Nat
  BY <1>5, <1>7, FS_Subset, FS_CardinalityType
<1>10. Cardinality(high) <= Cardinality(high2)
  BY <1>6, <1>8, FS_Subset
<1>11. Cardinality(low) <= n /\ n <= Cardinality(high)
  BY <1>1 DEF Between
<1>12. Cardinality(low2) <= n /\ n <= Cardinality(high2)
  <2> HIDE DEF low, high, low2, high2
  <2>1. QED
    BY <1>7, <1>8, <1>9, <1>10, <1>11
<1>13. QED
  BY <1>1, <1>12 DEF Between

\* What one SELECT COUNT finds: every row stored before the call that is in the window
\* now, for cleanup has not taken it, and no row but the server's own.
LEMMA CountIsBetween ==
  ASSUME Attribution, YoungRowsLive, IdsApart, Window <= Keep, NEW t \in Threads,
         SummaryAgrees(t), call[t].at \in StatsSteps, conn[t] \in Files,
         NEW kind \in {"health", "timeout"}
  PROVE  Between(t, kind, CountRecent(conn[t], {kind}, call[t].server))
<1>1. PICK f \in Files : f = conn[t]
  OBVIOUS
<1>2. PICK a \in Ips : a = call[t].ip
  BY DEF SummaryAgrees
<1>3. /\ call[t].server = ids[f][a] /\ ids[f][a] # 0 /\ call[t].since <= now
      /\ 1 .. call[t].upto \subseteq DOMAIN log[f]
  BY <1>1, <1>2 DEF SummaryAgrees
<1>4. /\ TypeOK /\ now \in Nat /\ Window \in Nat /\ Keep \in Nat /\ call[t].since \in Nat
      /\ live[f] \subseteq DOMAIN log[f] /\ RowsBelongToTheirServer
  BY HealthDbAssumption DEF Attribution, TypeOK, Call
<1>5. \A i \in DOMAIN log[f] : log[f][i].time \in Nat /\ log[f][i].ip \in Ips
  BY <1>4, RowsType
<1> DEFINE low   == ProbesOfKind(kind, f, a, 1 .. call[t].upto, now)
           high  == ProbesOfKind(kind, f, a, DOMAIN log[f], call[t].since)
           found == {i \in live[f] : /\ log[f][i].kind \in {kind}
                                     /\ log[f][i].server = call[t].server
                                     /\ log[f][i].time + Window >= now}
<1>6. low \subseteq found
  <2>1. SUFFICES ASSUME NEW i \in low
                 PROVE  i \in found
    OBVIOUS
  <2>2. /\ i \in DOMAIN log[f] /\ log[f][i].ip = a /\ log[f][i].kind = kind
        /\ log[f][i].time + Window >= now
    BY <1>3 DEF ProbesOfKind, Probes
  <2>3. log[f][i].time \in Nat
    BY <1>5, <2>2
  <2>4. log[f][i].time + Keep >= now
    BY <1>4, <2>2, <2>3
  <2>5. i \in live[f]
    BY <2>2, <2>4 DEF YoungRowsLive
  <2>6. log[f][i].server = ids[f][a]
    BY <1>4, <2>2 DEF RowsBelongToTheirServer
  <2>7. QED
    BY <1>3, <2>2, <2>5, <2>6
<1>7. found \subseteq high
  <2>1. SUFFICES ASSUME NEW i \in found
                 PROVE  i \in high
    OBVIOUS
  <2>2. i \in DOMAIN log[f] /\ log[f][i].kind = kind /\ log[f][i].server = ids[f][a]
    BY <1>3, <1>4
  <2>3. log[f][i].time \in Nat /\ log[f][i].ip \in Ips
    BY <1>5, <2>2
  <2>4. ids[f][log[f][i].ip] = ids[f][a]
    BY <1>4, <2>2 DEF RowsBelongToTheirServer
  <2>5. log[f][i].ip = a
    BY <1>3, <2>3, <2>4 DEF IdsApart
  <2>6. log[f][i].time + Window >= call[t].since
    BY <1>3, <1>4, <2>1, <2>3
  <2>7. QED
    BY <2>2, <2>5, <2>6 DEF ProbesOfKind, Probes
<1>8. IsFiniteSet(high)
  <2>1. DOMAIN log[f] \in SUBSET DOMAIN log[f]
    OBVIOUS
  <2>2. QED
    BY <1>4, <2>1, ProbesFinite
<1>9. IsFiniteSet(found) /\ Cardinality(found) <= Cardinality(high)
  BY <1>7, <1>8, FS_Subset
<1>10. Cardinality(low) <= Cardinality(found)
  BY <1>6, <1>9, FS_Subset
<1>11. CountRecent(f, {kind}, call[t].server) = Cardinality(found)
  BY DEF CountRecent
<1>12. QED
  BY <1>1, <1>2, <1>9, <1>10, <1>11 DEF Between

\* A summary's numbers stay between their bounds while other threads insert, clean up
\* and add servers, and while the clock runs.
LEMMA RestingSummary ==
  ASSUME Attribution, TypeOK', [Next]_vars, NEW t \in Threads, SummaryAgrees(t), Same(t)
  PROVE  SummaryAgrees(t)'
<1>1. SUFFICES ASSUME call[t].at \in StatsSteps
               PROVE  SummaryAgrees(t)'
  BY DEF Same, SummaryAgrees
<1>2. /\ conn[t] \in Files /\ call[t] \in Call /\ call[t].measurements \in Nat
      /\ call[t].timeouts \in Nat /\ call[t].since \in Nat
  BY <1>1 DEF Attribution, CallsConnected, Idle, TypeOK, ConnectionsTypeOK, Call, StatsSteps
<1>3. now \in Nat /\ now' \in Nat /\ now <= now' /\ IdsStay
  BY ClockStep, IdsStayInStep DEF Attribution
<1>4. conn'[t] = conn[t] /\ call'[t] = call[t]
  BY DEF Same
<1>5. /\ call[t].ip \in Ips /\ ids'[conn[t]][call[t].ip] # 0
      /\ call[t].server = ids'[conn[t]][call[t].ip]
  BY <1>1, <1>2, <1>3 DEF SummaryAgrees, IdsStay
<1>6. 1 .. call[t].upto \subseteq DOMAIN log[conn[t]]
  BY <1>1 DEF SummaryAgrees
<1>7. 1 .. call[t].upto \subseteq DOMAIN log'[conn[t]]
  BY <1>2, <1>6, LogGrows
<1>8. call[t].since <= now'
  BY <1>1, <1>2, <1>3 DEF SummaryAgrees
<1>9. call[t].at # "count" => Between(t, "health", call[t].measurements)'
  <2>1. SUFFICES ASSUME call[t].at # "count"
                 PROVE  Between(t, "health", call[t].measurements)'
    OBVIOUS
  <2>2. Between(t, "health", call[t].measurements)
    BY <1>1, <2>1 DEF SummaryAgrees
  <2>3. PICK n \in Nat : n = call[t].measurements
    BY <1>2
  <2>4. Between(t, "health", n)'
    BY <1>2, <1>4, <1>6, <2>2, <2>3, BoundsMoveApart
  <2>5. QED
    BY <1>4, <2>3, <2>4 DEF Between
<1>10. call[t].at = "averages" => Between(t, "timeout", call[t].timeouts)'
  <2>1. SUFFICES ASSUME call[t].at = "averages"
                 PROVE  Between(t, "timeout", call[t].timeouts)'
    OBVIOUS
  <2>2. Between(t, "timeout", call[t].timeouts)
    BY <1>1, <2>1 DEF SummaryAgrees
  <2>3. PICK n \in Nat : n = call[t].timeouts
    BY <1>2
  <2>4. Between(t, "timeout", n)'
    BY <1>2, <1>4, <1>6, <2>2, <2>3, BoundsMoveApart
  <2>5. QED
    BY <1>4, <2>3, <2>4 DEF Between
<1>11. QED
  BY <1>4, <1>5, <1>7, <1>8, <1>9, <1>10 DEF SummaryAgrees

\* What a summary begins with.
LEMMA FindServerAgrees ==
  ASSUME Attribution, TypeOK', NEW t \in Threads, FindServer(t)
  PROVE  SummaryAgrees(t)'
<1>1. PICK a \in Ips :
        /\ ids[File(t)][a] # 0
        /\ call' = [call EXCEPT ![t] = [NoCall EXCEPT
             !.at = "count", !.ip = a, !.server = ids[File(t)][a],
             !.since = now, !.upto = Len(log[File(t)])]]
  BY DEF FindServer
<1>2. PICK f \in Files : f = File(t)
  BY FileType DEF Attribution
<1>3. /\ call'[t].at = "count" /\ call'[t].ip = a /\ call'[t].server = ids[f][a]
      /\ call'[t].since = now /\ call'[t].upto = Len(log[f])
  BY <1>1, <1>2 DEF Attribution, TypeOK, NoCall
<1>4. conn'[t] = f /\ now' = now /\ ids' = ids /\ log' = log
  BY <1>2 DEF FindServer, First, Connect, Attribution, TypeOK, ConnectionsTypeOK, dbVars
<1>5. 1 .. Len(log[f]) = DOMAIN log[f] /\ now \in Nat
  BY <1>2 DEF Attribution, TypeOK
<1>6. QED
  BY <1>1, <1>2, <1>3, <1>4, <1>5 DEF SummaryAgrees

\* A number stays between its bounds in a step that changes neither.
LEMMA BoundsStay ==
  ASSUME NEW t \in Threads, UNCHANGED <<conn, now, log>>, call'[t].ip = call[t].ip,
         call'[t].since = call[t].since, call'[t].upto = call[t].upto,
         NEW kind, NEW n, Between(t, kind, n)
  PROVE  Between(t, kind, n)'
BY DEF Between, ProbesOfKind, Probes

\* The first count, and the second, which leaves the first as it is.
LEMMA CountAgrees ==
  ASSUME Attribution, YoungRowsLive, IdsApart, Window <= Keep, NEW t \in Threads,
         SummaryAgrees(t), CountMeasurements(t) \/ CountTimeouts(t)
  PROVE  SummaryAgrees(t)'
<1>1. call[t] \in Call /\ call \in [Threads -> Call] /\ conn[t] \in Files
  BY DEF Attribution, TypeOK, ConnectionsTypeOK, CountMeasurements, CountTimeouts, Later
<1>2. UNCHANGED <<conn, now, ids, log>>
  BY DEF CountMeasurements, CountTimeouts, Later, connVars, dbVars
<1>3. call[t].at \in StatsSteps
  BY DEF CountMeasurements, CountTimeouts, Later, StatsSteps
<1>4. /\ call[t].ip \in Ips /\ ids[conn[t]][call[t].ip] # 0
      /\ call[t].server = ids[conn[t]][call[t].ip]
      /\ 1 .. call[t].upto \subseteq DOMAIN log[conn[t]]
      /\ call[t].since <= now
      /\ call[t].at # "count" => Between(t, "health", call[t].measurements)
  BY <1>3 DEF SummaryAgrees
<1>5. /\ Between(t, "health", CountRecent(conn[t], {"health"}, call[t].server))
      /\ Between(t, "timeout", CountRecent(conn[t], {"timeout"}, call[t].server))
  BY <1>1, <1>3, CountIsBetween
<1>6. CASE CountMeasurements(t)
  <2>1. PICK n : n = CountRecent(conn[t], {"health"}, call[t].server)
    OBVIOUS
  <2>2. /\ call'[t].at = "timeouts" /\ call'[t].ip = call[t].ip
        /\ call'[t].server = call[t].server /\ call'[t].since = call[t].since
        /\ call'[t].upto = call[t].upto /\ call'[t].measurements = n
    BY <1>1, <1>6, <2>1 DEF CountMeasurements, Call
  <2>3. Between(t, "health", n)'
    BY <1>2, <1>5, <2>1, <2>2, BoundsStay
  <2>4. QED
    BY <1>2, <1>4, <2>2, <2>3 DEF SummaryAgrees, Between
<1>7. CASE CountTimeouts(t)
  <2>1. PICK m, n : /\ m = call[t].measurements
                    /\ n = CountRecent(conn[t], {"timeout"}, call[t].server)
    OBVIOUS
  <2>2. /\ call[t].at = "timeouts"
        /\ call'[t].at = "averages" /\ call'[t].ip = call[t].ip
        /\ call'[t].server = call[t].server /\ call'[t].since = call[t].since
        /\ call'[t].upto = call[t].upto /\ call'[t].measurements = m
        /\ call'[t].timeouts = n
    BY <1>1, <1>7, <2>1 DEF CountTimeouts, Later, Call
  <2>3. Between(t, "health", m)'
    BY <1>2, <1>4, <2>1, <2>2, BoundsStay
  <2>4. Between(t, "timeout", n)'
    BY <1>2, <1>5, <2>1, <2>2, BoundsStay
  <2>5. QED
    BY <1>2, <1>4, <2>2, <2>3, <2>4 DEF SummaryAgrees, Between
<1>8. QED
  BY <1>6, <1>7

\* Every step leaves every summary with numbers between their bounds.
LEMMA SummaryStep ==
  ASSUME Attribution, TypeOK', YoungRowsLive, IdsApart, Window <= Keep, [Next]_vars,
         NEW u \in Threads, SummaryAgrees(u)
  PROVE  SummaryAgrees(u)'
<1>1. TypeOK /\ call \in [Threads -> Call]
  BY DEF Attribution, TypeOK
<1>2. CASE Same(u)
  BY <1>2, RestingSummary
<1>3. CASE call'[u].at \notin StatsSteps
  BY <1>3 DEF SummaryAgrees
<1>4. CASE ThreadStep(u)
  <2>1. CASE FindServer(u)
    BY <2>1, FindServerAgrees
  <2>2. CASE CountMeasurements(u) \/ CountTimeouts(u)
    BY <2>2, CountAgrees
  <2>3. CASE Return(u)
    BY <1>1, <1>3, <2>3 DEF Return, NoCall, StatsSteps
  <2>4. CASE Idle(u) /\ call' = call
    BY <1>3, <2>4 DEF Idle, StatsSteps
  <2>5. CASE InsertServer(u) \/ DeleteHealth(u)
    <3>1. call'[u].at \in {"select", "events"}
      BY <1>1, <2>5 DEF InsertServer, DeleteHealth, Begin, NoCall
    <3>2. QED
      BY <1>3, <3>1 DEF StatsSteps
  <2>6. CASE SelectServer(u) \/ UpdateLastSeen(u) \/ DeleteEvents(u) \/ DeleteTimestamps(u)
    BY <1>1, <1>3, <2>6
    DEF SelectServer, UpdateLastSeen, DeleteEvents, DeleteTimestamps, Goto, Call, StatsSteps
  <2>7. QED
    BY <1>4, <2>1, <2>2, <2>3, <2>4, <2>5, <2>6
    DEF ThreadStep, InsertRow, Vacuum, Averages, Read, Administer, StatementFails
<1>5. QED
  BY <1>1, <1>2, <1>3, <1>4, OthersSame, CrashEffect
  DEF Next, vars, Tick, connVars, Same, NoCall, StatsSteps

\* The probes are the measurements and the timeouts.
LEMMA ProbesByKind ==
  ASSUME TypeOK, NEW f \in Files, NEW a, NEW positions \in SUBSET DOMAIN log[f], NEW w
  PROVE  /\ Cardinality(Probes(f, a, positions, w)) =
              Cardinality(ProbesOfKind("health", f, a, positions, w))
              + Cardinality(ProbesOfKind("timeout", f, a, positions, w))
         /\ Cardinality(ProbesOfKind("health", f, a, positions, w)) \in Nat
         /\ Cardinality(ProbesOfKind("timeout", f, a, positions, w)) \in Nat
<1> DEFINE health  == ProbesOfKind("health", f, a, positions, w)
           timeout == ProbesOfKind("timeout", f, a, positions, w)
<1>1. Probes(f, a, positions, w) = health \cup timeout /\ health \cap timeout = {}
  BY DEF ProbesOfKind, Probes
<1>2. /\ IsFiniteSet(health) /\ IsFiniteSet(timeout)
      /\ Cardinality(health) \in Nat /\ Cardinality(timeout) \in Nat
  BY ProbesFinite
<1> HIDE DEF health, timeout
<1>3. Cardinality(health \cup timeout) =
        Cardinality(health) + Cardinality(timeout) - Cardinality(health \cap timeout)
  BY <1>2, FS_Union
<1>4. Cardinality(health \cap timeout) = 0
  BY <1>1, FS_EmptySet
<1>5. QED
  BY <1>1, <1>2, <1>3, <1>4 DEF health, timeout

\* A summary whose window is no longer than what cleanup keeps counts every probe that
\* was stored before it began and is in the window when it ends, and none that it
\* should not, although it reads in several statements while others write and clean up.
THEOREM SummariesAreTrue == Window <= Keep => (Spec => []StatsBracketTruth)
<1> SUFFICES ASSUME Window <= Keep PROVE Spec => []StatsBracketTruth
  OBVIOUS
<1>1. Init => Summaries
  BY DEF Init, Summaries, YoungRowsLive, IdsApart, SummaryAgrees, NoCall, StatsSteps
<1>2. Attribution /\ Attribution' /\ Summaries /\ [Next]_vars => Summaries'
  <2>1. SUFFICES ASSUME Attribution, Attribution', Summaries, [Next]_vars PROVE Summaries'
    OBVIOUS
  <2>2. TypeOK'
    BY <2>1 DEF Attribution
  <2>3. QED
    BY <2>1, <2>2, YoungRowsStep, IdsApartStep, SummaryStep DEF Summaries
<1>3. ASSUME Attribution, Summaries
      PROVE  StatsBracketTruth
  <2>1. SUFFICES
          ASSUME NEW t \in Threads, call[t].at = "averages"
          PROVE  /\ Cardinality(Probes(conn[t], call[t].ip, 1 .. call[t].upto, now))
                      <= call[t].measurements + call[t].timeouts
                 /\ call[t].measurements + call[t].timeouts
                      <= Cardinality(Probes(conn[t], call[t].ip, DOMAIN log[conn[t]],
                                            call[t].since))
    BY DEF StatsBracketTruth
  <2>2. /\ TypeOK /\ conn[t] \in Files
        /\ call[t].measurements \in Nat /\ call[t].timeouts \in Nat
    BY <1>3, <2>1 DEF Attribution, CallsConnected, Idle, TypeOK, ConnectionsTypeOK, Call
  <2>3. /\ 1 .. call[t].upto \in SUBSET DOMAIN log[conn[t]]
        /\ Between(t, "health", call[t].measurements)
        /\ Between(t, "timeout", call[t].timeouts)
    BY <1>3, <2>1 DEF Summaries, SummaryAgrees, StatsSteps
  <2>4. DOMAIN log[conn[t]] \in SUBSET DOMAIN log[conn[t]]
    OBVIOUS
  <2>5. /\ Cardinality(Probes(conn[t], call[t].ip, 1 .. call[t].upto, now)) =
             Cardinality(ProbesOfKind("health", conn[t], call[t].ip, 1 .. call[t].upto, now))
             + Cardinality(ProbesOfKind("timeout", conn[t], call[t].ip, 1 .. call[t].upto, now))
        /\ Cardinality(ProbesOfKind("health", conn[t], call[t].ip, 1 .. call[t].upto, now))
             \in Nat
        /\ Cardinality(ProbesOfKind("timeout", conn[t], call[t].ip, 1 .. call[t].upto, now))
             \in Nat
    BY <2>2, <2>3, ProbesByKind
  <2>6. /\ Cardinality(Probes(conn[t], call[t].ip, DOMAIN log[conn[t]], call[t].since)) =
             Cardinality(ProbesOfKind("health", conn[t], call[t].ip, DOMAIN log[conn[t]],
                                      call[t].since))
             + Cardinality(ProbesOfKind("timeout", conn[t], call[t].ip, DOMAIN log[conn[t]],
                                        call[t].since))
        /\ Cardinality(ProbesOfKind("health", conn[t], call[t].ip, DOMAIN log[conn[t]],
                                    call[t].since)) \in Nat
        /\ Cardinality(ProbesOfKind("timeout", conn[t], call[t].ip, DOMAIN log[conn[t]],
                                    call[t].since)) \in Nat
    BY <2>2, <2>4, ProbesByKind
  <2>7. QED
    BY <2>2, <2>3, <2>5, <2>6 DEF Between
<1>4. QED
  BY <1>1, <1>2, <1>3, AlwaysAttribution, PTL DEF Spec
=============================================================================
