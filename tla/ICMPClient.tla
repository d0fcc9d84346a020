----------------------------- MODULE ICMPClient -----------------------------
(***************************************************************************)
(* ICMPClient: the monitoring loop, one probe per host and round, and the   *)
(* rows it writes.  Each client process runs                                *)
(*                                                                         *)
(*   loop -> _process_host -> ping_once -> _handle_* -> insert_*            *)
(*                                                                         *)
(* as one thread; pc[c] says where it is.  A step ends where the outside    *)
(* world can act: at a lookup, at a send, at select and recvfrom, at each   *)
(* statement that writes the database.                                      *)
(***************************************************************************)
EXTENDS Network, Sequences

CONSTANTS
    Hosts,  \* Hosts[c]: the host names client c is told to probe
    Dns,    \* Dns[h]: the addresses a lookup of host name h may return
    Count   \* the number of rounds, None for a client that never stops

ASSUME ClientAssumption ==
    /\ \A c \in Clients : Hosts[c] \in Seq(DOMAIN Dns) /\ Hosts[c] # << >>
    /\ \A h \in DOMAIN Dns : Dns[h] \subseteq Addrs
    /\ Count \in Nat \cup {None}
    /\ None \notin Nat

VARIABLES
    pc,       \* where client c is, see Locations
    round,    \* pings_sent in loop
    index,    \* position of host in hosts
    seq,      \* self.seq
    probe,    \* history: the number of probes begun; seq is this, truncated
    ip,       \* ip_address in _process_host
    addr,     \* addr[0] in ping_once
    expired,  \* time.monotonic() has reached the deadline
    pending,  \* the row _handle_* is writing
    rows,     \* rows[c]: what client c inserted, oldest first
    servers,  \* the ip_address column of table servers
    skipped,  \* history: hosts passed over because DNS failed
    dropped,  \* history: rows an insert lost and only logged
    ended     \* why loop was left

clientVars == <<pc, round, index, seq, probe, ip, addr, expired, pending,
                rows, servers, skipped, dropped, ended>>

Locations ==
    {"round",     \* loop: head of while True
     "host",      \* _process_host: before the first lookup
     "ping",      \* ping_once: before the second lookup
     "await",     \* ping_once: head of while True
     "recv",      \* ping_once: select said readable, before recvfrom
     "register",  \* insert_*: before get_or_create_server
     "insert",    \* insert_*: before the INSERT
     "closed"}    \* loop has returned or raised, and closed

\* A row of health_measurements or of icmp_events.  probe, addr and cause are
\* history: the probe it reports, the address that probe went to, and the packet
\* the code took for the answer (None for a timeout).
Row ==
    [kind : {"health", "timeout", "icmp_error"}, ip : Addrs,
     icmp_type : Nat \cup {None}, icmp_code : Nat \cup {None},
     probe : Nat, addr : Addrs, cause : Packet \cup {None}]

ClientTypeOK ==
    /\ pc \in [Clients -> Locations]
    /\ round \in [Clients -> Nat]
    /\ index \in [Clients -> Nat]
    /\ \A c \in Clients : index[c] \in 1 .. Len(Hosts[c])
    /\ seq \in [Clients -> 0 .. SeqMod - 1]
    /\ probe \in [Clients -> Nat]
    /\ ip \in [Clients -> Addrs]
    /\ addr \in [Clients -> Addrs]
    /\ expired \in [Clients -> BOOLEAN]
    /\ pending \in [Clients -> Row \cup {None}]
    /\ \A c \in Clients : pc[c] \in {"register", "insert"} => pending[c] \in Row
    /\ rows \in [Clients -> Seq(Row)]
    /\ servers \subseteq Addrs
    /\ skipped \in [Clients -> Nat]
    /\ dropped \in [Clients -> Nat]
    /\ ended \in [Clients -> {"running", "count", "interrupt", "exception"}]

\* ICMPClient.__init__; the addresses are set before they are read.
ClientInit ==
    /\ pc = [c \in Clients |-> "round"]
    /\ round = [c \in Clients |-> 0]
    /\ index = [c \in Clients |-> 1]
    /\ seq = [c \in Clients |-> 0]
    /\ probe = [c \in Clients |-> 0]
    /\ ip = [c \in Clients |-> AddrOf[c]]
    /\ addr = [c \in Clients |-> AddrOf[c]]
    /\ expired = [c \in Clients |-> FALSE]
    /\ pending = [c \in Clients |-> None]
    /\ rows = [c \in Clients |-> << >>]
    /\ servers = {}
    /\ skipped = [c \in Clients |-> 0]
    /\ dropped = [c \in Clients |-> 0]
    /\ ended = [c \in Clients |-> "running"]

-----------------------------------------------------------------------------
(* Steps shared by several actions. *)

Host(c) == Hosts[c][index[c]]

Goto(c, l) == pc' = [pc EXCEPT ![c] = l]

\* The for statement takes the next host, or pings_sent += 1 and around again.
NextHost(c) ==
    IF index[c] < Len(Hosts[c])
    THEN /\ Goto(c, "host")
         /\ index' = [index EXCEPT ![c] = @ + 1]
         /\ UNCHANGED round
    ELSE /\ Goto(c, "round")
         /\ round' = [round EXCEPT ![c] = @ + 1]
         /\ UNCHANGED index

\* finally: self.close()
Close(c, why) ==
    /\ Goto(c, "closed")
    /\ ended' = [ended EXCEPT ![c] = why]

\* Mutant of NextSeq: the mask & 0xFFFF is gone.
NextSeqUnmasked(c) ==
    /\ seq' = [seq EXCEPT ![c] = @ + 1]
    /\ probe' = [probe EXCEPT ![c] = @ + 1]

\* _next_seq
NextSeq(c) ==
    /\ seq' = [seq EXCEPT ![c] = (@ + 1) % SeqMod]
    /\ probe' = [probe EXCEPT ![c] = @ + 1]

\* ping_once is over; _handle_timeout, _handle_icmp_error or _handle_success
\* has called insert_*(ip_address=...) for a probe n that went to address a.
Record(c, kind, type, code, n, a, cause) ==
    /\ Goto(c, "register")
    /\ pending' = [pending EXCEPT ![c] =
         [kind |-> kind, ip |-> ip[c], icmp_type |-> type, icmp_code |-> code,
          probe |-> n, addr |-> a, cause |-> cause]]

-----------------------------------------------------------------------------
(* loop *)

CountReached(c) == Count # None /\ round[c] >= Count

StopAtCount(c) ==
    /\ pc[c] = "round"
    /\ CountReached(c)
    /\ Close(c, "count")
    /\ UNCHANGED <<round, index, seq, probe, ip, addr, expired, pending, rows,
                   servers, skipped, dropped, net>>

StartRound(c) ==
    /\ pc[c] = "round"
    /\ ~CountReached(c)
    /\ Goto(c, "host")
    /\ index' = [index EXCEPT ![c] = 1]
    /\ UNCHANGED <<round, seq, probe, ip, addr, expired, pending, rows, servers,
                   skipped, dropped, ended, net>>

\* KeyboardInterrupt, wherever it finds the thread.
Interrupt(c) ==
    /\ "interrupt" \in Faults
    /\ pc[c] # "closed"
    /\ Close(c, "interrupt")
    /\ UNCHANGED <<round, index, seq, probe, ip, addr, expired, pending, rows,
                   servers, skipped, dropped, net>>

-----------------------------------------------------------------------------
(* _process_host, up to ping_once *)

\* Mutant of Resolve: only the first lookup of the process is kept.
ResolveOnce(c) ==
    /\ pc[c] = "host"
    /\ \E a \in Dns[Host(c)] :
         ip' = [ip EXCEPT ![c] = IF probe[c] = 0 THEN a ELSE @]
    /\ Goto(c, "ping")
    /\ UNCHANGED <<round, index, seq, probe, addr, expired, pending, rows, servers,
                   skipped, dropped, ended, net>>

Resolve(c) ==
    /\ pc[c] = "host"
    /\ \E a \in Dns[Host(c)] : ip' = [ip EXCEPT ![c] = a]
    /\ Goto(c, "ping")
    /\ UNCHANGED <<round, index, seq, probe, addr, expired, pending, rows, servers,
                   skipped, dropped, ended, net>>

\* gaierror: logged, nothing is recorded for this host.
ResolveFails(c) ==
    /\ pc[c] = "host"
    /\ "dns" \in Faults \/ Dns[Host(c)] = {}
    /\ NextHost(c)
    /\ skipped' = [skipped EXCEPT ![c] = @ + 1]
    /\ UNCHANGED <<seq, probe, ip, addr, expired, pending, rows, servers, dropped,
                   ended, net>>

-----------------------------------------------------------------------------
(* ping_once *)

\* _next_seq, create_echo_request, gethostbyname and sendto.
SendEchoRequest(c) ==
    /\ pc[c] = "ping"
    /\ NextSeq(c)
    /\ \E a \in Dns[Host(c)] :
         /\ addr' = [addr EXCEPT ![c] = a]
         /\ net' = Surviving(c, probe[c] + 1) \cup
              {CreateEchoRequest(Ident(c), (seq[c] + 1) % SeqMod, AddrOf[c], a,
                                 c, probe[c] + 1)}
    /\ expired' = [expired EXCEPT ![c] = FALSE]
    /\ Goto(c, "await")
    /\ UNCHANGED <<round, index, ip, pending, rows, servers, skipped, dropped, ended>>

\* The socket's own timeout runs out in sendto: TimeoutError, like an answer
\* that never came.
SendTimesOut(c) ==
    /\ pc[c] = "ping"
    /\ "send" \in Faults
    /\ NextSeq(c)
    /\ net' = Surviving(c, probe[c] + 1)
    /\ \E a \in Dns[Host(c)] :
         /\ addr' = [addr EXCEPT ![c] = a]
         /\ Record(c, "timeout", None, None, probe[c] + 1, a, None)
    /\ UNCHANGED <<round, index, ip, expired, rows, servers, skipped, dropped, ended>>

\* The second lookup, or sendto, raises another OSError.  Nobody catches it
\* between here and loop's finally.
PingRaises(c) ==
    /\ pc[c] = "ping"
    /\ "send" \in Faults \/ "dns" \in Faults
    /\ NextSeq(c)
    /\ net' = Surviving(c, probe[c] + 1)
    /\ Close(c, "exception")
    /\ UNCHANGED <<round, index, ip, addr, expired, pending, rows, servers, skipped,
                   dropped>>

\* The clock reaches the deadline; the thread notices at the head of the loop
\* or when select runs out.
Deadline(c) ==
    /\ pc[c] \in {"await", "recv"}
    /\ ~expired[c]
    /\ expired' = [expired EXCEPT ![c] = TRUE]
    /\ UNCHANGED <<pc, round, index, seq, probe, ip, addr, pending, rows, servers,
                   skipped, dropped, ended, net>>

\* The raw socket is handed every ICMP packet for this host's address.
Visible(c) == {p \in net : p.dst = AddrOf[c]}

\* remaining > 0, and select says readable.
SelectReady(c) ==
    /\ pc[c] = "await"
    /\ ~expired[c]
    /\ Visible(c) # {}
    /\ Goto(c, "recv")
    /\ UNCHANGED <<round, index, seq, probe, ip, addr, expired, pending, rows,
                   servers, skipped, dropped, ended, net>>

\* Mutant of RequestTimesOut: the timeout is logged and not recorded.
RequestTimesOutUnrecorded(c) ==
    /\ pc[c] = "await"
    /\ expired[c]
    /\ NextHost(c)
    /\ UNCHANGED <<seq, probe, ip, addr, expired, pending, rows, servers, skipped,
                   dropped, ended, net>>

\* remaining <= 0 or select returned nothing: TimeoutError, _handle_timeout.
\* There may be an answer in the socket's buffer.
RequestTimesOut(c) ==
    /\ pc[c] = "await"
    /\ expired[c]
    /\ Record(c, "timeout", None, None, probe[c], addr[c], None)
    /\ UNCHANGED <<round, index, seq, probe, ip, addr, expired, rows, servers,
                   skipped, dropped, ended, net>>

\* Mutant of RecvError: the wait is given up, and the next select starts over.
RecvErrorRestartsTimer(c) ==
    /\ pc[c] = "recv"
    /\ "recv" \in Faults \/ Visible(c) = {}
    /\ Goto(c, "await")
    /\ expired' = [expired EXCEPT ![c] = FALSE]
    /\ UNCHANGED <<round, index, seq, probe, ip, addr, pending, rows, servers,
                   skipped, dropped, ended, net>>

\* recvfrom raises OSError, which a TimeoutError is when the packet that select
\* saw is gone: logged, continue.
RecvError(c) ==
    /\ pc[c] = "recv"
    /\ "recv" \in Faults \/ Visible(c) = {}
    /\ Goto(c, "await")
    /\ UNCHANGED <<round, index, seq, probe, ip, addr, expired, pending, rows,
                   servers, skipped, dropped, ended, net>>

\* Mutants of IsOurError: one of the two comparisons is missing.
IsOurErrorOfAnySeq(c, p) ==
    IsIcmpErrorType(p) /\ QuotedIdentifiersAre(p, Ident(c), p.seq)

IsOurErrorOfAnyId(c, p) ==
    IsIcmpErrorType(p) /\ QuotedIdentifiersAre(p, p.id, seq[c])

\* An error that quotes this probe.
IsOurError(c, p) ==
    IsIcmpErrorType(p) /\ QuotedIdentifiersAre(p, Ident(c), seq[c])

\* Mutants of IsOurReply: one of its tests is missing.
IsOurReplyOfAnySeq(c, p) ==
    p.src = addr[c] /\ p.type = ECHO_REPLY /\ EchoIdentifiersAre(p, Ident(c), p.seq)

IsOurReplyOfAnyId(c, p) ==
    p.src = addr[c] /\ p.type = ECHO_REPLY /\ EchoIdentifiersAre(p, p.id, seq[c])

IsOurReplyOfAnyType(c, p) ==
    p.src = addr[c] /\ EchoIdentifiersAre(p, Ident(c), seq[c])

\* An echo reply to this probe from the host it went to.
IsOurReply(c, p) ==
    /\ p.src = addr[c]
    /\ p.type = ECHO_REPLY
    /\ EchoIdentifiersAre(p, Ident(c), seq[c])

\* payload[0] of an error with no payload raises IndexError.
IsBareError(p) == IsIcmpErrorType(p) /\ p.payload = "empty"

\* Mutant of Ignore: every packet starts the timeout afresh.
IgnoreAndRestartTimer(c) ==
    /\ pc[c] = "recv"
    /\ \E p \in Visible(c) : ~IsOurError(c, p) /\ ~IsOurReply(c, p) /\ ~IsBareError(p)
    /\ Goto(c, "await")
    /\ expired' = [expired EXCEPT ![c] = FALSE]
    /\ UNCHANGED <<round, index, seq, probe, ip, addr, pending, rows, servers,
                   skipped, dropped, ended, net>>

\* Everything else a raw socket hears, the client's own requests included.
Ignore(c) ==
    /\ pc[c] = "recv"
    /\ \E p \in Visible(c) : ~IsOurError(c, p) /\ ~IsOurReply(c, p) /\ ~IsBareError(p)
    /\ Goto(c, "await")
    /\ UNCHANGED <<round, index, seq, probe, ip, addr, expired, pending, rows,
                   servers, skipped, dropped, ended, net>>

\* getattr(error, name, None)
GetAttr(error, name) == IF name \in DOMAIN error THEN error[name] ELSE None

\* raise err, and _handle_icmp_error.
RaiseIcmpError(c) ==
    /\ pc[c] = "recv"
    /\ \E p \in Visible(c) :
         /\ IsOurError(c, p)
         /\ LET error == BuildIcmpError(p)
            IN  Record(c, "icmp_error", GetAttr(error, "icmp_type"),
                       GetAttr(error, "icmp_code"), probe[c], addr[c], p)
    /\ UNCHANGED <<round, index, seq, probe, ip, addr, expired, rows, servers,
                   skipped, dropped, ended, net>>

\* return rtt, hd, and _handle_success.  The clock is not read again: an answer
\* taken after the deadline counts.
AcceptReply(c) ==
    /\ pc[c] = "recv"
    /\ \E p \in Visible(c) :
         /\ IsOurReply(c, p)
         /\ Decodes(p)
         /\ Record(c, "health", None, None, probe[c], addr[c], p)
    /\ UNCHANGED <<round, index, seq, probe, ip, addr, expired, rows, servers,
                   skipped, dropped, ended, net>>

\* decode_health_data raises ValueError for the reply, or the quotation of an
\* error is missing.  Neither is a TimeoutError or an ICMPError.
ReceiveRaises(c) ==
    /\ pc[c] = "recv"
    /\ \E p \in Visible(c) : \/ IsOurReply(c, p) /\ ~Decodes(p)
                             \/ IsBareError(p)
    /\ Close(c, "exception")
    /\ UNCHANGED <<round, index, seq, probe, ip, addr, expired, pending, rows,
                   servers, skipped, dropped, net>>

-----------------------------------------------------------------------------
(* insert_health_measurement, insert_icmp_event *)

\* get_or_create_server(ip_address)
Register(c) ==
    /\ pc[c] = "register"
    /\ servers' = servers \cup {pending[c].ip}
    /\ Goto(c, "insert")
    /\ UNCHANGED <<round, index, seq, probe, ip, addr, expired, pending, rows,
                   skipped, dropped, ended, net>>

\* A statement of get_or_create_server fails.  It is outside the try block.
RegisterRaises(c) ==
    /\ pc[c] = "register"
    /\ "db" \in Faults
    /\ servers' \in {servers, servers \cup {pending[c].ip}}
    /\ Close(c, "exception")
    /\ UNCHANGED <<round, index, seq, probe, ip, addr, expired, pending, rows,
                   skipped, dropped, net>>

\* Mutant of InsertRow: a host has one row, which the next one replaces.
InsertOrReplaceRow(c) ==
    /\ pc[c] = "insert"
    /\ rows' = [rows EXCEPT ![c] =
         Append(SelectSeq(@, LAMBDA row : row.ip # pending[c].ip), pending[c])]
    /\ pending' = [pending EXCEPT ![c] = None]
    /\ NextHost(c)
    /\ UNCHANGED <<seq, probe, ip, addr, expired, servers, skipped, dropped, ended, net>>

InsertRow(c) ==
    /\ pc[c] = "insert"
    /\ rows' = [rows EXCEPT ![c] = Append(@, pending[c])]
    /\ pending' = [pending EXCEPT ![c] = None]
    /\ NextHost(c)
    /\ UNCHANGED <<seq, probe, ip, addr, expired, servers, skipped, dropped, ended, net>>

\* Mutant of InsertFails: an INSERT whose outcome is unknown is tried again.
InsertFailsAndRetries(c) ==
    /\ pc[c] = "insert"
    /\ "db" \in Faults
    /\ rows' = [rows EXCEPT ![c] = Append(@, pending[c])]
    /\ UNCHANGED <<pc, round, index, pending, seq, probe, ip, addr, expired, servers,
                   skipped, dropped, ended, net>>

\* Mutant of InsertFails: a failed insert_* is called again until it succeeds.
InsertFailsAndStartsOver(c) ==
    /\ pc[c] = "insert"
    /\ "db" \in Faults
    /\ Goto(c, "register")
    /\ UNCHANGED <<round, index, pending, rows, dropped, seq, probe, ip, addr, expired,
                   servers, skipped, ended, net>>

\* sqlite3.Error: logged, the row is lost.
InsertFails(c) ==
    /\ pc[c] = "insert"
    /\ "db" \in Faults
    /\ dropped' = [dropped EXCEPT ![c] = @ + 1]
    /\ pending' = [pending EXCEPT ![c] = None]
    /\ NextHost(c)
    /\ UNCHANGED <<seq, probe, ip, addr, expired, rows, servers, skipped, ended, net>>

-----------------------------------------------------------------------------
\* What the thread of client c does by itself.
ClientStep(c) ==
    \/ StopAtCount(c) \/ StartRound(c)
    \/ Resolve(c) \/ ResolveFails(c)
    \/ SendEchoRequest(c) \/ SendTimesOut(c) \/ PingRaises(c)
    \/ SelectReady(c) \/ RequestTimesOut(c) \/ RecvError(c) \/ Ignore(c)
    \/ RaiseIcmpError(c) \/ AcceptReply(c) \/ ReceiveRaises(c)
    \/ Register(c) \/ RegisterRaises(c) \/ InsertRow(c) \/ InsertFails(c)
=============================================================================
