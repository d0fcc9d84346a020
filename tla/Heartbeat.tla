------------------------------ MODULE Heartbeat ------------------------------
(***************************************************************************)
(* heartbeat_monitor: the clients and the servers on one network, and what  *)
(* the monitoring data they produce can be relied on for.                   *)
(***************************************************************************)
EXTENDS ICMPClient, ICMPServer

vars == <<net, clientVars, serving>>

Init == NetInit /\ ClientInit /\ ServerInit

Next ==
    \/ \E c \in Clients : /\ ClientStep(c) \/ Deadline(c) \/ Interrupt(c)
                          /\ UNCHANGED serving
    \/ \E s \in Servers : ServerStep(s) /\ UNCHANGED clientVars
    \/ NetStep /\ UNCHANGED <<clientVars, serving>>

Spec == Init /\ [][Next]_vars

\* A client thread is not starved, and its clock advances.  Nothing is assumed
\* of the network, of the servers, or of the person at the keyboard.
Fairness ==
    \A c \in Clients : /\ WF_vars(ClientStep(c) /\ UNCHANGED serving)
                       /\ WF_vars(Deadline(c) /\ UNCHANGED serving)

FairSpec == Spec /\ Fairness

-----------------------------------------------------------------------------
(* Properties *)

\* Every variable holds a value of its type: one per state that ICMPClient,
\* ICMPServer and the network keep.
TypeOK == NetTypeOK /\ ClientTypeOK /\ ServerTypeOK

\* The packet behind a row descends from the very probe the row reports.
AnswersProbe(c, row) == row.cause.of = c /\ row.cause.n = row.probe

HealthRowIsOurs(c, row) ==
    row.kind = "health" =>
      /\ row.cause # None
      /\ row.cause.intact => AnswersProbe(c, row) /\ row.cause.src = row.addr

ErrorRowIsOurs(c, row) ==
    row.kind = "icmp_error" =>
      /\ row.cause # None
      /\ row.cause.intact => AnswersProbe(c, row)

\* A stored health measurement was caused by the probe it is stored for: not by
\* an earlier probe whose late or duplicated reply comes in now, not by another
\* client's probe, and not by another host (the tests of ping_once at 275-279).
\* A packet damaged on the way is excepted: ping_once verifies no checksum.
HealthIsOurs ==
    \A c \in Clients : \A i \in DOMAIN rows[c] : HealthRowIsOurs(c, rows[c][i])

\* A stored icmp_error was raised by a packet about the client's own current
\* probe, "ours (same pid and seq)" as ping_once puts it.
ErrorsAreOurs ==
    \A c \in Clients : \A i \in DOMAIN rows[c] : ErrorRowIsOurs(c, rows[c][i])

\* A client writes at most one row per probe, in the order of its probes: a
\* probe that timed out is never also a success, however late its reply.
OneRowPerProbe ==
    \A c \in Clients : \A i, j \in DOMAIN rows[c] :
      i < j => rows[c][i].probe < rows[c][j].probe

\* ping_once has begun the current probe and no row of it is written or lost.
Unsettled(c) == pc[c] \in {"await", "recv", "register", "insert"}

\* Probes of client c that are in its table or were lost by a failed insert.
Settled(c) == Len(rows[c]) + dropped[c]

\* No probe disappears.  Each one the client began is in its table, was lost by
\* a failed insert, is the one in progress, or is the one the end of the
\* process cut short; and a client that stopped by itself did Count rounds over
\* all its hosts.
ProbesAccountedFor ==
    \A c \in Clients :
      /\ ended[c] = "running" =>
           probe[c] = Settled(c) + (IF Unsettled(c) THEN 1 ELSE 0)
      /\ ended[c] \in {"interrupt", "exception"} =>
           probe[c] - Settled(c) \in {0, 1}
      /\ ended[c] = "count" =>
           probe[c] = Settled(c) /\ probe[c] + skipped[c] = Count * Len(Hosts[c])

\* A row names the address that was probed.
RowNamesProbedAddress ==
    \A c \in Clients : \A i \in DOMAIN rows[c] :
      rows[c][i].ip = rows[c][i].addr

\* The row of an ICMP error stores the error's type and code.
ErrorDetailsStored ==
    \A c \in Clients : \A i \in DOMAIN rows[c] :
      LET row == rows[c][i]
      IN  row.kind = "icmp_error" =>
            row.icmp_type = row.cause.type /\ row.icmp_code = row.cause.code

\* The loop is left at the end of the count or by the keyboard.
LeavesLoopOnlyWhenTold ==
    \A c \in Clients : ended[c] # "exception"

\* Request q is what reply p answers.
Mirrors(p, q) ==
    /\ q.type = ECHO_REQUEST /\ q.intact
    /\ q.of = p.of /\ q.n = p.n
    /\ q.id = p.id /\ q.seq = p.seq /\ q.src = p.dst

IsHealthReply(p) == p.type = ECHO_REPLY /\ p.payload = "health" /\ p.intact

\* Every health reply on the wire mirrors an intact request that is, or was, on
\* the wire with it: servers never answer replies, errors or damaged packets, so
\* two of them cannot keep each other busy.
RepliesMirrorRequests ==
    \A p \in net : IsHealthReply(p) => \E q \in net : Mirrors(p, q)

\* ping_once is waiting for an answer.
Waiting(c) == pc[c] \in {"await", "recv"}

\* The places of loop in the order in which a probe passes them; the deadline divides
\* the wait.
Phase(c) ==
    CASE pc[c] = "round"                   -> 0
      [] pc[c] = "host"                    -> 1
      [] pc[c] = "ping"                    -> 2
      [] Waiting(c) /\ ~expired[c]         -> 3
      [] pc[c] = "recv" /\ expired[c]      -> 4
      [] pc[c] = "await" /\ expired[c]     -> 5
      [] pc[c] = "register"                -> 6
      [] pc[c] = "insert"                  -> 7
      [] OTHER                             -> 8

\* The host whose turn it is in the round, 0 before the first.
Turn(c) == IF pc[c] = "round" THEN 0 ELSE index[c]

\* Client c comes to a later round, a later host of the round, or a later phase of the
\* probe, or to the end.
Advances(c) ==
    /\ pc[c] # "closed"
    /\ \/ pc'[c] = "closed"
       \/ round[c] < round'[c]
       \/ round[c] = round'[c] /\ Turn(c) < Turn(c)'
       \/ round[c] = round'[c] /\ Turn(c) = Turn(c)' /\ Phase(c) < Phase(c)'

\* It goes around the receive loop, before the deadline of the same probe.
Polls(c) ==
    /\ Waiting(c) /\ Waiting(c)' /\ ~expired[c]
    /\ UNCHANGED <<round[c], index[c], probe[c], expired[c]>>

\* The loop never goes back: nothing that arrives or fails restarts the timer of a
\* probe, repeats a statement, or returns to a host of the round.  All it may repeat is
\* to look at packets until the deadline.
NeverBack ==
    [][\A c \in Clients :
         Advances(c) \/ Polls(c) \/ UNCHANGED <<pc[c], round[c], index[c], expired[c]>>]_vars

\* Whatever arrives, and however much of it, the deadline ends the wait for a probe:
\* packets that are ignored do not extend it.  (When the packet that select saw is gone,
\* recvfrom blocks for up to the socket's timeout before it raises, RecvError here, so
\* that the last poll may overrun the deadline by as much.)
WaitEnds == \A c \in Clients : Waiting(c) ~> ~Waiting(c)

\* A client with a finite count comes to the end of its loop.
LoopEnds == \A c \in Clients : <>(pc[c] = "closed")

-----------------------------------------------------------------------------
(* What ProbeLedger promises, of this program *)

\* Where the ledger's view of client c is.
Stage(c) ==
    IF pc[c] = "closed" THEN "stopped" ELSE IF Unsettled(c) THEN "open" ELSE "idle"

\* The table's rows as the ledger has them.
Book(c) ==
    [i \in DOMAIN rows[c] |-> [probe |-> rows[c][i].probe, outcome |-> rows[c][i].kind]]

Abstract == INSTANCE ProbeLedger WITH
    Outcomes <- {"health", "timeout", "icmp_error"},
    stage <- [c \in Clients |-> Stage(c)],
    begun <- probe,
    book <- [c \in Clients |-> Book(c)],
    lost <- dropped

\* loop and what it calls keep a ledger of probes: opened one at a time, settled
\* once, in order, and never rewritten, whatever the network, the resolver, the
\* sockets and the database do to them.
ImplementsLedger == Abstract!LedgerSpec

\* And, when the client's thread is scheduled, no probe stays open: each is filed,
\* lost, or cut short by the end of its process.
ImplementsFairLedger == Abstract!FairLedgerSpec

-----------------------------------------------------------------------------
(* The inductive invariant behind HealthIsOurs and ErrorsAreOurs *)

\* No two clients anywhere have the same identifier.
AllIdentsDistinct == \A c, d \in Clients : Ident(c) = Ident(d) => c = d

\* A packet descends from one of the last MaxAge probes of its client, and unless
\* it was damaged it carries that probe's identifiers; requests come from the
\* client's host and replies go there.
Traceable(p) ==
    /\ 1 <= p.n /\ p.n <= probe[p.of]
    /\ probe[p.of] < p.n + MaxAge
    /\ p.intact =>
         /\ p.id = Ident(p.of)
         /\ p.seq = p.n % SeqMod
         /\ p.type = ECHO_REQUEST => p.src = AddrOf[p.of]
         /\ p.type = ECHO_REPLY => p.dst = AddrOf[p.of]

RowIsOurs(c, row) ==
    /\ HealthRowIsOurs(c, row)
    /\ AllIdentsDistinct => ErrorRowIsOurs(c, row)

NetTraceable == \A p \in net : Traceable(p)

SeqTruncatesProbe == \A c \in Clients : seq[c] = probe[c] % SeqMod

PendingIsOurs ==
    \A c \in Clients : pc[c] \in {"register", "insert"} => RowIsOurs(c, pending[c])

RowsAreOurs == \A c \in Clients : \A i \in DOMAIN rows[c] : RowIsOurs(c, rows[c][i])

Provenance ==
    TypeOK /\ NetTraceable /\ SeqTruncatesProbe /\ PendingIsOurs /\ RowsAreOurs

-----------------------------------------------------------------------------
(* The inductive invariant behind RowNamesProbedAddress *)

\* Every lookup of a name returns the same address, if any.
DnsIsStable == \A h \in DOMAIN Dns : \A a, b \in Dns[h] : a = b

\* ip[c] is what the second lookup will return, and then what it has returned.
LookupsAgree ==
    \A c \in Clients :
      /\ pc[c] = "ping" => ip[c] \in Dns[Host(c)]
      /\ pc[c] \in {"await", "recv"} => ip[c] = addr[c]
      /\ pc[c] \in {"register", "insert"} => pending[c].ip = pending[c].addr

AddressesAgree == TypeOK /\ LookupsAgree /\ RowNamesProbedAddress

-----------------------------------------------------------------------------
(* The inductive invariant behind LeavesLoopOnlyWhenTold *)

\* Lookups and sends do not fail, the database takes every row, no packet is cut
\* short or damaged on the way, and at the addresses that are probed nobody but the
\* servers answers.  recvfrom may fail, routers may report errors, packets may be
\* lost, late, duplicated and reordered, and servers may stop.
HealthyEnvironment ==
    /\ Faults \cap {"dns", "send", "db", "truncate", "damage"} = {}
    /\ \A c \in Clients : \A i \in DOMAIN Hosts[c] : \A r \in Responders :
         r[1] \notin Dns[Hosts[c][i]]

\* Every error quotes the message it is about.
ErrorsQuoted == \A p \in net : IsIcmpErrorType(p) => p.payload \in {"request", "reply"}

\* A reply that is not a server's comes from the address of another responder.
RepliesFromServers ==
    \A p \in net : p.type = ECHO_REPLY =>
      Decodes(p) \/ \E r \in Responders : p.src = r[1]

\* A client waits for an answer from an address of its current host.
AwaitsItsHost == \A c \in Clients : pc[c] \in {"await", "recv"} => addr[c] \in Dns[Host(c)]

Undisturbed ==
    /\ TypeOK /\ ErrorsQuoted /\ RepliesFromServers /\ AwaitsItsHost
    /\ LeavesLoopOnlyWhenTold

-----------------------------------------------------------------------------
(* The inductive invariant behind OneRowPerProbe and ProbesAccountedFor *)

\* The rows of client c are in the order of its probes.
InOrder(c) == \A i, j \in DOMAIN rows[c] : i < j => rows[c][i].probe < rows[c][j].probe

\* No row reports a probe not begun, nor the current one before it is settled;
\* the row being written is the current one's.
Behind(c) ==
    /\ \A i \in DOMAIN rows[c] : rows[c][i].probe <= probe[c]
    /\ Unsettled(c) => \A i \in DOMAIN rows[c] : rows[c][i].probe # probe[c]
    /\ pc[c] \in {"register", "insert"} => pending[c].probe = probe[c]

\* Hosts client c is done with or has begun to probe, by the loop's counters.
Position(c) ==
    round[c] * Len(Hosts[c]) +
      (IF pc[c] = "round" THEN 0 ELSE IF Unsettled(c) THEN index[c] ELSE index[c] - 1)

\* Every host the loop passed was probed, and the probe settled, or was skipped.
\* Inside a round the last one has yet to come.
Balanced(c) ==
    /\ pc[c] # "closed" =>
         /\ ended[c] = "running"
         /\ probe[c] = Settled(c) + (IF Unsettled(c) THEN 1 ELSE 0)
         /\ probe[c] + skipped[c] = Position(c)
         /\ Count # None => IF pc[c] = "round" THEN round[c] <= Count ELSE round[c] < Count
    /\ pc[c] = "closed" =>
         \/ /\ ended[c] = "count"
            /\ probe[c] = Settled(c)
            /\ probe[c] + skipped[c] = Count * Len(Hosts[c])
         \/ /\ ended[c] \in {"interrupt", "exception"}
            /\ probe[c] - Settled(c) \in {0, 1}

Ledger ==
    TypeOK /\ \A c \in Clients : InOrder(c) /\ Behind(c) /\ Balanced(c)
=============================================================================
