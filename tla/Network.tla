------------------------------- MODULE Network -------------------------------
(***************************************************************************)
(* The ICMP packets of heartbeat_monitor and the network that carries them. *)
(*                                                                         *)
(* Client and server share nothing but IPv4/ICMP.  The constructors and the *)
(* predicates translate icmp_utils.py; the network itself (routers, kernels,*)
(* other responders, bit errors) is external and is modelled from what the  *)
(* code in client.py and server.py defends against.                         *)
(*                                                                         *)
(* net is the set of packets some receiver may still be handed.  A receive  *)
(* does not remove a packet and nothing obliges a receiver to take one, so  *)
(* every packet may be lost, delayed, reordered, duplicated, and is seen by *)
(* each raw socket on its destination host, as the kernel does it.          *)
(***************************************************************************)
EXTENDS Integers, FiniteSets

CONSTANTS
    Clients,     \* the client processes
    Addrs,       \* the IPv4 addresses
    AddrOf,      \* AddrOf[c]: the address of the host client c runs on
    Pid,         \* Pid[c]: the operating system's process id of client c
    IdMod,       \* values of the ICMP identifier; 2^16 in the code
    SeqMod,      \* values of the ICMP sequence number; 2^16 in the code
    MaxAge,      \* probes of a client for which a packet may stay in flight
    Capacity,    \* packets in flight beyond which the network drops new ones
    Errors,      \* <<type, code>> pairs the routers may send
    Responders,  \* <<address, payload>>: other programs that answer echo requests
    Faults,      \* the kinds of failure an instance explores
    Router,      \* the address ICMP errors come from; no receiver reads it
    None         \* Python's None

ECHO_REPLY              == 0
DESTINATION_UNREACHABLE == 3
REDIRECT                == 5
ECHO_REQUEST            == 8
TIME_EXCEEDED           == 11
PARAMETER_PROBLEM       == 12

EchoTypes  == {ECHO_REQUEST, ECHO_REPLY}
ErrorTypes == {DESTINATION_UNREACHABLE, REDIRECT, TIME_EXCEEDED, PARAMETER_PROBLEM}
ICMPTypes  == EchoTypes \cup ErrorTypes

\* What follows the 8-byte header, up to what the receivers tell apart.
\*   "empty"    nothing              "health"  a payload decode_health_data accepts
\*   "foreign"  a payload it rejects "request" the quotation of an echo request
\*   "reply"    the quotation of an echo reply
Payloads == {"empty", "health", "foreign", "request", "reply"}

ASSUME NetworkAssumption ==
    /\ IdMod \in Nat \ {0}
    /\ SeqMod \in Nat \ {0}
    /\ MaxAge \in 1 .. SeqMod
    /\ Capacity \in Nat
    /\ Router \in Addrs
    /\ AddrOf \in [Clients -> Addrs]
    /\ Pid \in [Clients -> Nat]
    /\ Errors \subseteq ErrorTypes \X Nat
    /\ Responders \subseteq Addrs \X {"empty", "foreign"}

\* os.getpid() & 0xFFFF
Ident(c) == Pid[c] % IdMod

\* The processes on one host are told apart by their identifiers.  The code
\* counts on it; the operating system does not promise it for 16 bits.
IdentsDistinct ==
    \A c, d \in Clients : AddrOf[c] = AddrOf[d] /\ Ident(c) = Ident(d) => c = d

-----------------------------------------------------------------------------
(* Packets.  id and seq are the echo identifiers of an echo message, and the *)
(* quoted ones of an error message.  of and n are history: the client whose  *)
(* probe the packet descends from, and the number of that probe.             *)

Packet ==
    [type : ICMPTypes, code : Nat, id : 0 .. IdMod - 1, seq : 0 .. SeqMod - 1,
     src : Addrs, dst : Addrs, payload : Payloads, intact : BOOLEAN,
     of : Clients, n : Nat]

ASSUME NoneAssumption == None \notin Packet

IsIcmpErrorType(p) == p.type \in ErrorTypes

IsEcho(p) == p.type \in EchoTypes

\* header.try_extract_echo_identifiers() = (id, seq)
EchoIdentifiersAre(p, id, seq) == IsEcho(p) /\ p.id = id /\ p.seq = seq

\* extract_quoted_echo_identifiers(payload) = (id, seq)
QuotedIdentifiersAre(p, id, seq) ==
    p.payload \in {"request", "reply"} /\ p.id = id /\ p.seq = seq

\* The exception carries the header's type and code as icmp_type and code.
BuildIcmpError(p) == [icmp_type |-> p.type, code |-> p.code]

\* decode_health_data(payload) returns, and raises no ValueError
Decodes(p) == p.payload = "health"

\* The sender's checksum covers header and payload; intact says that neither
\* changed on the way.
VerifyChecksum(p) == p.intact

CreateEchoRequest(id, seq, src, dst, c, n) ==
    [type |-> ECHO_REQUEST, code |-> 0, id |-> id % IdMod, seq |-> seq % SeqMod,
     src |-> src, dst |-> dst, payload |-> "empty", intact |-> TRUE,
     of |-> c, n |-> n]

\* A reply that mirrors the identifiers of request q, sent from src.
CreateEchoReply(q, src, payload) ==
    [type |-> ECHO_REPLY, code |-> 0, id |-> q.id % IdMod, seq |-> q.seq % SeqMod,
     src |-> src, dst |-> q.src, payload |-> payload, intact |-> TRUE,
     of |-> q.of, n |-> q.n]

-----------------------------------------------------------------------------
VARIABLE net

NetTypeOK == net \subseteq Packet

NetInit == net = {}

\* What is left of client c's older packets once it starts probe n.  Probes of a
\* client are at least 10 ms apart (time.sleep(0.01) after every host), so one
\* that is SeqMod probes old was sent more than ten minutes ago.
Surviving(c, n) == {p \in net : p.of = c => p.n + MaxAge > n}

\* Someone other than the client whose probe it is puts packet p on the wire.
Emit(p) == Cardinality(net) < Capacity /\ net' = net \cup {p}

\* A router, or the destination's kernel, reports an echo message as
\* undeliverable to its sender, quoting the message.
RouterError ==
    \E p \in net, e \in Errors :
      /\ IsEcho(p) /\ p.intact
      /\ Emit([p EXCEPT !.type = e[1], !.code = e[2], !.src = Router, !.dst = p.src,
                      !.payload = IF p.type = ECHO_REQUEST THEN "request" ELSE "reply"])

\* A middlebox truncates an ICMP error to its header.
TruncateError ==
    /\ "truncate" \in Faults
    /\ \E p \in net : /\ IsIcmpErrorType(p)
                      /\ Emit([p EXCEPT !.payload = "empty"])

\* Somebody else at the destination answers: the kernel mirrors the (empty)
\* payload, another version of the server sends one of its own.
ForeignReply ==
    \E q \in net, r \in Responders :
      /\ q.type = ECHO_REQUEST /\ q.dst = r[1] /\ VerifyChecksum(q)
      /\ Emit(CreateEchoReply(q, r[1], r[2]))

\* Bits of a packet change on the way: its sequence number, or its payload.
Damage ==
    /\ "damage" \in Faults
    /\ \E p \in net, s \in 0 .. SeqMod - 1, pl \in {"health", "foreign"} :
         /\ p.intact
         /\ Emit([p EXCEPT !.intact = FALSE, !.seq = s,
                         !.payload = IF p.payload = "health" THEN pl ELSE p.payload])

NetStep == RouterError \/ TruncateError \/ ForeignReply \/ Damage
=============================================================================
