----------------------------- MODULE Connections -----------------------------
(***************************************************************************)
(* Which database file a statement of db.py reaches.  Each process has one  *)
(* path, each thread its own connection, which is made at the first use and *)
(* kept; the path is read only when a connection is made.                   *)
(***************************************************************************)
EXTENDS Integers, FiniteSets

CONSTANTS
    Processes,  \* programs that import db.py
    Threads,    \* their threads
    ProcessOf,  \* ProcessOf[t]: the process of thread t
    Files,      \* the database files
    ModulePath, \* the path db.py starts with, next to the module
    None        \* Python's None, and the NULL of SQL

ASSUME ConnectionsAssumption ==
    /\ ProcessOf \in [Threads -> Processes]
    /\ ModulePath \in Files
    /\ None \notin Files

VARIABLES
    path,  \* path[p]: the global db_path of process p
    conn,  \* conn[t]: the file _thread_local.conn of thread t is open on, or None
    ready  \* the files the schema was applied to

connVars == <<path, conn, ready>>

ConnectionsTypeOK ==
    /\ path \in [Processes -> Files]
    /\ conn \in [Threads -> Files \cup {None}]
    /\ ready \subseteq Files

ConnectionsInit ==
    /\ path = [p \in Processes |-> ModulePath]
    /\ conn = [t \in Threads |-> None]
    /\ ready = {}

-----------------------------------------------------------------------------
\* The file get_thread_connection gives thread t.
File(t) == IF conn[t] = None THEN path[ProcessOf[t]] ELSE conn[t]

\* get_thread_connection
Connect(t) == conn' = [conn EXCEPT ![t] = File(t)]

\* Mutant of Disconnect: the connection is closed, but not set to None.
DisconnectOnly(t) == conn' = [conn EXCEPT ![t] = "closed"]

\* close_thread_connection
Disconnect(t) == conn' = [conn EXCEPT ![t] = None]

CloseThreadConnection(t) ==
    /\ conn[t] # None
    /\ Disconnect(t)
    /\ UNCHANGED <<path, ready>>

\* Mutant of SetDbPath: the connections of all threads of the process are closed.
SetDbPathForAll(t, f) ==
    /\ path' = [path EXCEPT ![ProcessOf[t]] = f]
    /\ conn' = [u \in Threads |-> IF ProcessOf[u] = ProcessOf[t] THEN None ELSE conn[u]]
    /\ UNCHANGED ready

SetDbPath(t, f) ==
    /\ Disconnect(t)
    /\ path' = [path EXCEPT ![ProcessOf[t]] = f]
    /\ UNCHANGED ready

\* init_database, on a connection of its own.  Every CREATE says IF NOT EXISTS,
\* and one that fails leaves the file for the next call to complete.
InitDatabase(t) ==
    /\ ready' = ready \cup {path[ProcessOf[t]]}
    /\ UNCHANGED <<path, conn>>

\* Process p ends, with all its threads, and starts again.
RestartProcess(p) ==
    /\ path' = [path EXCEPT ![p] = ModulePath]
    /\ conn' = [t \in Threads |-> IF ProcessOf[t] = p THEN None ELSE conn[t]]
    /\ UNCHANGED ready
=============================================================================
