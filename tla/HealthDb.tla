------------------------------- MODULE HealthDb -------------------------------
(***************************************************************************)
(* db.py: threads of one or more processes insert, summarise and clean up   *)
(* in shared SQLite files.  Connections are in autocommit mode, so each     *)
(* statement is a transaction and an action of its own, and a call of db.py *)
(* is several of them; call[t] says which one thread t executes next.       *)
(*                                                                         *)
(* Time is counted in units of the two windows, Keep and Window, which are  *)
(* days and hours in the code.                                              *)
(***************************************************************************)
EXTENDS Connections, Sequences

CONSTANTS
    Ips,      \* the monitored addresses
    Ids,      \* values of servers.id.  sqlite may leave gaps between them
    Kinds,    \* what rows are inserted, see KindsOfRow
    Keep,     \* days in cleanup_old_data
    Window,   \* hours in get_server_stats
    MaxRows,  \* bound on the rows inserted into a file
    MaxNow    \* bound on the clock

\* The rows of health_measurements, of icmp_events with event_type 'timeout' and
\* 'icmp_error', and of timestamp_measurements.
KindsOfRow == {"health", "timeout", "icmp_error", "timestamp"}

ASSUME HealthDbAssumption ==
    /\ Ids \subseteq Nat \ {0}
    /\ Kinds \subseteq KindsOfRow
    /\ Keep \in Nat /\ Window \in Nat /\ MaxRows \in Nat /\ MaxNow \in Nat
    /\ None \notin Nat /\ None \notin Ips /\ None \notin KindsOfRow
    /\ None \notin [file : Files, kind : KindsOfRow, ip : Ips]

VARIABLES
    now,   \* CURRENT_TIMESTAMP, as long as nobody sets the wall clock back
    ids,   \* ids[f][a]: servers.id of address a in file f, 0 when it has no row
    seen,  \* seen[f][a]: its last_seen
    log,   \* log[f]: history, every row ever inserted into file f, oldest first
    live,  \* live[f]: which rows of log[f] the tables still hold
    call   \* call[t]: what thread t is doing

vars == <<connVars, now, ids, seen, log, live, call>>

\* A row.  ip and begun are history: the address insert_* was called with, and
\* when its first statement was executed.
Row == [kind : KindsOfRow, server : Ids, time : Nat, ip : Ips, begun : Nat]

\* The next statement of insert_*, of cleanup_old_data, and of get_server_stats.
InsertSteps  == {"select", "update", "insert"}
CleanupSteps == {"events", "timestamps", "vacuum"}
StatsSteps   == {"count", "timeouts", "averages"}

\* The locals of a call: the row's kind, the address, server_id, and the numbers
\* of measurements and timeouts found.  since and upto are history: the clock, and
\* in get_server_stats the length of the log, at the call's first statement.
Call ==
    [at : {"idle"} \cup InsertSteps \cup CleanupSteps \cup StatsSteps,
     kind : KindsOfRow \cup {None}, ip : Ips \cup {None}, server : Nat,
     measurements : Nat, timeouts : Nat, since : Nat, upto : Nat]

NoCall ==
    [at |-> "idle", kind |-> None, ip |-> None, server |-> 0,
     measurements |-> 0, timeouts |-> 0, since |-> 0, upto |-> 0]

TypeOK ==
    /\ ConnectionsTypeOK
    /\ now \in Nat
    /\ ids \in [Files -> [Ips -> Ids \cup {0}]]
    /\ seen \in [Files -> [Ips -> Nat \cup {None}]]
    /\ log \in [Files -> Seq(Row)]
    /\ live \in [Files -> SUBSET Nat]
    /\ \A f \in Files : live[f] \subseteq DOMAIN log[f]
    /\ call \in [Threads -> Call]

Init ==
    /\ ConnectionsInit
    /\ now = 0
    /\ ids = [f \in Files |-> [a \in Ips |-> 0]]
    /\ seen = [f \in Files |-> [a \in Ips |-> None]]
    /\ log = [f \in Files |-> << >>]
    /\ live = [f \in Files |-> {}]
    /\ call = [t \in Threads |-> NoCall]

-----------------------------------------------------------------------------
(* Steps shared by several actions. *)

dbVars == <<ids, seen, log, live>>

Idle(t) == call[t].at = "idle"

\* The first statement of a call runs on a connection that may be new, in a file
\* that has the tables.
First(t) == Idle(t) /\ File(t) \in ready /\ Connect(t) /\ UNCHANGED <<path, ready, now>>

Begin(t, step, kind, a) ==
    call' = [call EXCEPT ![t] =
      [NoCall EXCEPT !.at = step, !.kind = kind, !.ip = a, !.since = now]]

\* A later statement, on the connection the call holds.
Later(t, step) == call[t].at = step /\ conn[t] # None /\ UNCHANGED <<connVars, now>>

Goto(t, step) == call' = [call EXCEPT ![t].at = step]

Return(t) == call' = [call EXCEPT ![t] = NoCall]

\* Mutant of Delete: a row at the limit goes, too.
DeleteUpToLimit(f, kinds) ==
    live' = [live EXCEPT ![f] =
      {i \in @ : ~(log[f][i].kind \in kinds /\ log[f][i].time + Keep <= now)}]

\* DELETE FROM a table WHERE timestamp < datetime('now', '-' || days || ' days')
Delete(f, kinds) ==
    live' = [live EXCEPT ![f] =
      {i \in @ : ~(log[f][i].kind \in kinds /\ log[f][i].time + Keep < now)}]

\* COUNT(*) ... WHERE timestamp >= datetime('now', '-' || hours || ' hours')
CountRecent(f, kinds, server) ==
    Cardinality({i \in live[f] : /\ log[f][i].kind \in kinds
                                 /\ log[f][i].server = server
                                 /\ log[f][i].time + Window >= now})

-----------------------------------------------------------------------------
(* get_or_create_server, and the INSERT of insert_health_measurement, *)
(* insert_icmp_event and insert_timestamp_measurement                  *)

\* Mutant of InsertServer: INSERT OR REPLACE gives a known address a new id.
ReplaceServer(t) ==
    /\ First(t)
    /\ \E k \in Kinds, a \in Ips :
         /\ Begin(t, "select", k, a)
         /\ \E id \in Ids : /\ \A b \in Ips : ids[File(t)][b] < id
                            /\ ids' = [ids EXCEPT ![File(t)][a] = id]
    /\ UNCHANGED <<seen, log, live>>

\* INSERT OR IGNORE INTO servers
InsertServer(t) ==
    /\ First(t)
    /\ \E k \in Kinds, a \in Ips :
         /\ Begin(t, "select", k, a)
         /\ IF ids[File(t)][a] # 0 THEN UNCHANGED ids
            ELSE \E id \in Ids : /\ \A b \in Ips : ids[File(t)][b] < id
                                 /\ ids' = [ids EXCEPT ![File(t)][a] = id]
    /\ UNCHANGED <<seen, log, live>>

\* SELECT id FROM servers WHERE ip_address = ?
SelectServer(t) ==
    /\ Later(t, "select")
    /\ call' = [call EXCEPT ![t].at = "update", ![t].server = ids[conn[t]][call[t].ip]]
    /\ UNCHANGED dbVars

\* Mutant of UpdateLastSeen: last_seen is only set for an address that is new.
UpdateFirstSeen(t) ==
    /\ Later(t, "update")
    /\ seen' = [seen EXCEPT ![conn[t]][call[t].ip] = IF @ = None THEN now ELSE @]
    /\ Goto(t, "insert")
    /\ UNCHANGED <<ids, log, live>>

\* UPDATE servers SET last_seen = CURRENT_TIMESTAMP
UpdateLastSeen(t) ==
    /\ Later(t, "update")
    /\ seen' = [seen EXCEPT ![conn[t]][call[t].ip] = now]
    /\ Goto(t, "insert")
    /\ UNCHANGED <<ids, log, live>>

\* Mutant of InsertRow: it is stored, and tried again as if it had not been.
InsertRowAndRetry(t) ==
    /\ call[t].at = "insert"
    /\ Len(log[File(t)]) < MaxRows
    /\ log' = [log EXCEPT ![File(t)] = Append(@,
         [kind |-> call[t].kind, server |-> call[t].server, time |-> now,
          ip |-> call[t].ip, begun |-> call[t].since])]
    /\ live' = [live EXCEPT ![File(t)] = @ \cup {Len(log[File(t)]) + 1}]
    /\ UNCHANGED <<connVars, now, ids, seen, call>>

\* insert_* asks for the connection again.  The foreign key wants a server with
\* that id in the file.
InsertRow(t) ==
    /\ call[t].at = "insert"
    /\ Len(log[File(t)]) < MaxRows
    /\ \E a \in Ips : ids[File(t)][a] = call[t].server
    /\ log' = [log EXCEPT ![File(t)] = Append(@,
         [kind |-> call[t].kind, server |-> call[t].server, time |-> now,
          ip |-> call[t].ip, begun |-> call[t].since])]
    /\ live' = [live EXCEPT ![File(t)] = @ \cup {Len(log[File(t)]) + 1}]
    /\ Connect(t)
    /\ Return(t)
    /\ UNCHANGED <<path, ready, now, ids, seen>>

-----------------------------------------------------------------------------
(* cleanup_old_data *)

DeleteHealth(t) ==
    /\ First(t)
    /\ Begin(t, "events", None, None)
    /\ Delete(File(t), {"health"})
    /\ UNCHANGED <<ids, seen, log>>

\* Mutant of DeleteEvents: timeouts go, the other events stay.
DeleteTimeouts(t) ==
    /\ Later(t, "events")
    /\ Delete(conn[t], {"timeout"})
    /\ Goto(t, "timestamps")
    /\ UNCHANGED <<ids, seen, log>>

DeleteEvents(t) ==
    /\ Later(t, "events")
    /\ Delete(conn[t], {"timeout", "icmp_error"})
    /\ Goto(t, "timestamps")
    /\ UNCHANGED <<ids, seen, log>>

DeleteTimestamps(t) ==
    /\ Later(t, "timestamps")
    /\ Delete(conn[t], {"timestamp"})
    /\ Goto(t, "vacuum")
    /\ UNCHANGED <<ids, seen, log>>

\* VACUUM moves rows and changes none.
Vacuum(t) ==
    /\ Later(t, "vacuum")
    /\ Return(t)
    /\ UNCHANGED dbVars

-----------------------------------------------------------------------------
(* get_server_stats, and the calls of a single read *)

FindServer(t) ==
    /\ First(t)
    /\ \E a \in Ips :
         /\ ids[File(t)][a] # 0
         /\ call' = [call EXCEPT ![t] = [NoCall EXCEPT
              !.at = "count", !.ip = a, !.server = ids[File(t)][a],
              !.since = now, !.upto = Len(log[File(t)])]]
    /\ UNCHANGED dbVars

CountMeasurements(t) ==
    /\ Later(t, "count")
    /\ call' = [call EXCEPT ![t].at = "timeouts",
         ![t].measurements = CountRecent(conn[t], {"health"}, call[t].server)]
    /\ UNCHANGED dbVars

\* Mutant of CountTimeouts: the test of event_type is missing.
CountEvents(t) ==
    /\ Later(t, "timeouts")
    /\ call' = [call EXCEPT ![t].at = "averages",
         ![t].timeouts = CountRecent(conn[t], {"timeout", "icmp_error"}, call[t].server)]
    /\ UNCHANGED dbVars

CountTimeouts(t) ==
    /\ Later(t, "timeouts")
    /\ call' = [call EXCEPT ![t].at = "averages",
         ![t].timeouts = CountRecent(conn[t], {"timeout"}, call[t].server)]
    /\ UNCHANGED dbVars

\* The averages are read, and the call returns.
Averages(t) ==
    /\ Later(t, "averages")
    /\ Return(t)
    /\ UNCHANGED dbVars

\* get_recent_measurements, get_all_servers, verify_database, or get_server_stats
\* of an unknown address: the database stays as it is, but the connection is made.
Read(t) ==
    /\ Idle(t)
    /\ Connect(t)
    /\ UNCHANGED <<path, ready, now, dbVars, call>>

-----------------------------------------------------------------------------
(* The path, failures, crashes and the clock *)

\* Only a thread that is not in the middle of a call can start one of these.
Administer(t) ==
    /\ Idle(t)
    /\ \/ \E f \in Files : SetDbPath(t, f)
       \/ CloseThreadConnection(t)
       \/ InitDatabase(t)
    /\ UNCHANGED <<now, dbVars, call>>

\* sqlite3.Error: the file is locked, or it is full.  The call is over, and what
\* its earlier statements did stays.  That the error of the last INSERT is caught
\* and logged, and any other raised, is for the caller to see.
StatementFails(t) ==
    /\ ~Idle(t)
    /\ Return(t)
    /\ UNCHANGED <<connVars, now, dbVars>>

\* The process ends between two statements, or is killed, and starts again.
Crash(p) ==
    /\ RestartProcess(p)
    /\ call' = [t \in Threads |-> IF ProcessOf[t] = p THEN NoCall ELSE call[t]]
    /\ UNCHANGED <<now, dbVars>>

\* Time passes.  sqlite reads the wall clock, which may also be set back; that is left
\* out here, so what is shown of old and young rows, of last_seen and of expiry holds
\* of a clock that never runs back.
Tick ==
    /\ now < MaxNow
    /\ now' = now + 1
    /\ UNCHANGED <<connVars, dbVars, call>>

-----------------------------------------------------------------------------
ThreadStep(t) ==
    \/ InsertServer(t) \/ SelectServer(t) \/ UpdateLastSeen(t) \/ InsertRow(t)
    \/ DeleteHealth(t) \/ DeleteEvents(t) \/ DeleteTimestamps(t) \/ Vacuum(t)
    \/ FindServer(t) \/ CountMeasurements(t) \/ CountTimeouts(t) \/ Averages(t)
    \/ Read(t) \/ Administer(t) \/ StatementFails(t)

Next ==
    \/ \E t \in Threads : ThreadStep(t)
    \/ \E p \in Processes : Crash(p)
    \/ Tick

Spec == Init /\ [][Next]_vars

-----------------------------------------------------------------------------
(* Properties *)

\* A stored row is attributed to the server it was inserted for, in the file it
\* is in: the id that get_or_create_server found is still that address's id when
\* insert_* uses it, whatever other threads do to the servers or to db_path.
RowsBelongToTheirServer ==
    \A f \in Files : \A i \in DOMAIN log[f] : log[f][i].server = ids[f][log[f][i].ip]

\* An address keeps its id: a client may hold one over statements of others (INSERT
\* OR IGNORE, and nothing deletes a server).
IdsStay ==
    \A f \in Files : \A a \in Ips : ids[f][a] # 0 => ids'[f][a] = ids[f][a]

ServerIdsStable == [][IdsStay]_vars

\* A server that has a row was seen, and not before the call that stored the row.
MeasuredServersWereSeen ==
    \A f \in Files : \A i \in DOMAIN log[f] :
      LET last == seen[f][log[f][i].ip] IN last # None /\ last >= log[f][i].begun

\* When cleanup_old_data has executed its last DELETE, no row in any table is
\* older than the limit was when it began, with inserts in between, and whatever
\* an earlier, interrupted cleanup left.
CleanupLeavesNothingOld ==
    \A t \in Threads : call[t].at = "vacuum" =>
      \A i \in live[conn[t]] : log[conn[t]][i].time + Keep >= call[t].since

\* Measurements and timeouts of address a inserted into f, by the log's positions
\* and not older than time w.
Probes(f, a, positions, w) ==
    {i \in positions : /\ log[f][i].ip = a
                       /\ log[f][i].kind \in {"health", "timeout"}
                       /\ log[f][i].time + Window >= w}

\* total_probes of get_server_stats counts every probe that was stored before the
\* call and is in the window at its end, and none that was not in the window at
\* its start or stored by its end, although it reads in several statements while
\* others insert and cleanup deletes: cleanup takes nothing the window needs.
StatsBracketTruth ==
    \A t \in Threads : call[t].at = "averages" =>
      LET total == call[t].measurements + call[t].timeouts
          f     == conn[t]
      IN  /\ Cardinality(Probes(f, call[t].ip, 1 .. call[t].upto, now)) <= total
          /\ total <= Cardinality(Probes(f, call[t].ip, DOMAIN log[f], call[t].since))

-----------------------------------------------------------------------------
(* What RowStore promises, of this program *)

\* What a reader who joins the table with servers, as get_recent_measurements does, is
\* told about a row.
AsRead(f, row) ==
    [kind |-> row.kind, ip |-> CHOOSE a \in Ips : ids[f][a] = row.server,
     time |-> row.time]

\* The insert that thread t is at.
Task(t) ==
    IF call[t].at \in InsertSteps
    THEN [file |-> conn[t], kind |-> call[t].kind, ip |-> call[t].ip]
    ELSE None

Abstract == INSTANCE RowStore WITH
    clock <- now,
    known <- [f \in Files |-> {a \in Ips : ids[f][a] # 0}],
    table <- [f \in Files |-> [i \in DOMAIN log[f] |-> AsRead(f, log[f][i])]],
    held <- live,
    task <- [t \in Threads |-> Task(t)]

\* insert_* and cleanup_old_data, whose statements interleave with those of others and
\* fail or are cut off at any of them, look to a reader like the atomic operations of
\* RowStore: no row twice, none in another file or under another address than its
\* call was for, none rewritten, and none deleted before its time.
ImplementsStore == Abstract!StoreSpec

-----------------------------------------------------------------------------
(* The inductive invariants behind the properties *)

\* A thread in the middle of a call has a connection.
CallsConnected == \A t \in Threads : ~Idle(t) => conn[t] # None

\* An insert works for an address of its file, and with the id of that address
\* once it has read it.
InsertAgrees(t) ==
    call[t].at \in InsertSteps =>
      /\ call[t].ip \in Ips /\ call[t].kind \in KindsOfRow
      /\ ids[conn[t]][call[t].ip] # 0
      /\ call[t].at # "select" => call[t].server = ids[conn[t]][call[t].ip]

Attribution ==
    /\ TypeOK
    /\ CallsConnected
    /\ \A t \in Threads : InsertAgrees(t)
    /\ RowsBelongToTheirServer

\* Nothing happened later than now, and an insert that comes to its last statement
\* has seen its server.
SeenBeforeInsert(t) ==
    /\ call[t].since <= now
    /\ call[t].at = "insert" =>
         LET last == seen[conn[t]][call[t].ip] IN last # None /\ last >= call[t].since

SeenByNow == \A f \in Files, a \in Ips : seen[f][a] # None => seen[f][a] <= now

Sightings ==
    /\ SeenByNow
    /\ \A t \in Threads : SeenBeforeInsert(t)
    /\ MeasuredServersWereSeen

\* The kinds of row that the cleanup of thread t has been through.
KindsCleaned(t) ==
    CASE call[t].at = "events"     -> {"health"}
      [] call[t].at = "timestamps" -> {"health", "timeout", "icmp_error"}
      [] call[t].at = "vacuum"     -> KindsOfRow
      [] OTHER                     -> {}

\* None of them is left that was too old when the cleanup began.
CleanedSoFar(t) ==
    \A i \in live[conn[t]] : log[conn[t]][i].kind \in KindsCleaned(t) =>
      log[conn[t]][i].time + Keep >= call[t].since

CleanupProgress ==
    \A t \in Threads : call[t].since <= now /\ (~Idle(t) => CleanedSoFar(t))

\* cleanup_old_data has not taken a row that is younger than its limit.
YoungRowsLive ==
    \A f \in Files : \A i \in DOMAIN log[f] : log[f][i].time + Keep >= now => i \in live[f]

\* No two addresses of a file share an id.
IdsApart ==
    \A f \in Files : \A a, b \in Ips : ids[f][a] # 0 /\ ids[f][a] = ids[f][b] => a = b

\* Of Probes, those of one kind.
ProbesOfKind(kind, f, a, positions, w) ==
    {i \in Probes(f, a, positions, w) : log[f][i].kind = kind}

\* n lies between what was stored before the call of thread t and is in the window
\* now, and what is stored now and was in the window when the call began.
Between(t, kind, n) ==
    LET f == conn[t]
        a == call[t].ip
    IN  /\ Cardinality(ProbesOfKind(kind, f, a, 1 .. call[t].upto, now)) <= n
        /\ n <= Cardinality(ProbesOfKind(kind, f, a, DOMAIN log[f], call[t].since))

\* A summary works for a server of its file, of whose log it found the first upto
\* rows, and its numbers so far are between what they may be.
SummaryAgrees(t) ==
    call[t].at \in StatsSteps =>
      /\ call[t].ip \in Ips
      /\ ids[conn[t]][call[t].ip] # 0
      /\ call[t].server = ids[conn[t]][call[t].ip]
      /\ 1 .. call[t].upto \subseteq DOMAIN log[conn[t]]
      /\ call[t].since <= now
      /\ call[t].at # "count" => Between(t, "health", call[t].measurements)
      /\ call[t].at = "averages" => Between(t, "timeout", call[t].timeouts)

Summaries == YoungRowsLive /\ IdsApart /\ \A t \in Threads : SummaryAgrees(t)
=============================================================================
