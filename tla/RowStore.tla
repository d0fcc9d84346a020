------------------------------- MODULE RowStore -------------------------------
(***************************************************************************)
(* What a caller of db.py and a reader of its tables may rely on, without   *)
(* connections, ids or statements: a row is stored at one instant, as a     *)
(* whole, at most once, in the file its call began with, for the address it *)
(* was called with, and after that address is known.  A call that fails, or *)
(* whose process ends, leaves no row.  What is stored stays as it is until  *)
(* it is older than Keep, and then may go.                                  *)
(***************************************************************************)
EXTENDS Integers, Sequences

CONSTANTS
    Threads,  \* those that insert
    Files,    \* the database files
    Ips,      \* the monitored addresses
    Kinds,    \* what rows are inserted
    Keep,     \* the age up to which a row is kept
    None      \* what a thread without an insert is doing

VARIABLES
    clock,  \* the time
    known,  \* known[f]: the addresses that file f knows
    table,  \* table[f]: every row ever stored in file f, oldest first
    held,   \* held[f]: which of them are still there
    task    \* task[t]: the insert that thread t is at, or None

storeVars == <<clock, known, table, held, task>>

StoreInit ==
    /\ clock = 0
    /\ known = [f \in Files |-> {}]
    /\ table = [f \in Files |-> << >>]
    /\ held = [f \in Files |-> {}]
    /\ task = [t \in Threads |-> None]

\* An insert is called, and makes its address known.
Ask(t) ==
    /\ task[t] = None
    /\ \E f \in Files, k \in Kinds, a \in Ips :
         /\ task' = [task EXCEPT ![t] = [file |-> f, kind |-> k, ip |-> a]]
         /\ known' = [known EXCEPT ![f] = @ \cup {a}]
    /\ UNCHANGED <<clock, table, held>>

\* It stores its row, and is over.
Store(t) ==
    /\ task[t] # None
    /\ task' = [task EXCEPT ![t] = None]
    /\ LET f == task[t].file
       IN  /\ table' = [table EXCEPT ![f] = Append(@,
                [kind |-> task[t].kind, ip |-> task[t].ip, time |-> clock])]
           /\ held' = [held EXCEPT ![f] = @ \cup {Len(table[f]) + 1}]
    /\ UNCHANGED <<clock, known>>

\* The inserts of some threads fail, or their process ends.
GiveUp(ts) ==
    /\ task' = [t \in Threads |-> IF t \in ts THEN None ELSE task[t]]
    /\ UNCHANGED <<clock, known, table, held>>

\* Of file f, only the rows in left are left.
Expire(f, left) ==
    /\ held' = [held EXCEPT ![f] = left]
    /\ \A i \in held[f] \ left : table[f][i].time + Keep < clock
    /\ UNCHANGED <<clock, known, table, task>>

Pass ==
    /\ clock' = clock + 1
    /\ UNCHANGED <<known, table, held, task>>

StoreNext ==
    \/ \E t \in Threads : Ask(t) \/ Store(t)
    \/ \E ts \in SUBSET Threads : GiveUp(ts)
    \/ \E f \in Files : \E left \in SUBSET held[f] : Expire(f, left)
    \/ Pass

StoreSpec == StoreInit /\ [][StoreNext]_storeVars
=============================================================================
