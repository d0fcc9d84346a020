--------------------------- MODULE HeartbeatProofs ---------------------------
(***************************************************************************)
(* Theorems about Heartbeat, for every number of clients, servers, hosts    *)
(* and addresses, every width of identifiers and sequence numbers, every    *)
(* capacity of the network, and every set of faults.                        *)
(***************************************************************************)
EXTENDS Heartbeat, ModuloFacts

-----------------------------------------------------------------------------
(* Facts about the operators of the packet layer. *)

\* The identifier of a client fits its field of the header.
LEMMA IdentType ==
  ASSUME NEW c \in Clients
  PROVE  Ident(c) \in 0 .. IdMod - 1
BY NetworkAssumption, DivMod DEF Ident

\* What survives of the network is part of it.
LEMMA SurvivingSubset ==
  ASSUME NEW c, NEW n
  PROVE  Surviving(c, n) \subseteq net
BY DEF Surviving

\* create_echo_request builds a packet.
LEMMA RequestType ==
  ASSUME NEW c \in Clients, NEW s \in 0 .. SeqMod - 1, NEW a \in Addrs, NEW n \in Nat
  PROVE  /\ CreateEchoRequest(Ident(c), s, AddrOf[c], a, c, n) \in Packet
         /\ CreateEchoRequest(Ident(c), s, AddrOf[c], a, c, n).id = Ident(c)
         /\ CreateEchoRequest(Ident(c), s, AddrOf[c], a, c, n).seq = s
<1>1. Ident(c) % IdMod = Ident(c) /\ s % SeqMod = s
  BY NetworkAssumption, IdentType, SmallMod
<1>2. Ident(c) \in 0 .. IdMod - 1 /\ AddrOf[c] \in Addrs
  BY NetworkAssumption, IdentType
<1>3. QED
  BY <1>1, <1>2 DEF CreateEchoRequest, Packet, ICMPTypes, EchoTypes, Payloads

\* create_echo_reply builds a packet with the identifiers of the request.
LEMMA ReplyType ==
  ASSUME NEW q \in Packet, NEW a \in Addrs, NEW pl \in Payloads
  PROVE  /\ CreateEchoReply(q, a, pl) \in Packet
         /\ CreateEchoReply(q, a, pl).id = q.id
         /\ CreateEchoReply(q, a, pl).seq = q.seq
<1>1. q.id \in 0 .. IdMod - 1 /\ q.seq \in 0 .. SeqMod - 1
  BY DEF Packet
<1>2. q.id % IdMod = q.id /\ q.seq % SeqMod = q.seq
  BY <1>1, NetworkAssumption, SmallMod
<1>3. q.src \in Addrs /\ q.of \in Clients /\ q.n \in Nat
  BY DEF Packet
<1>4. QED
  BY <1>1, <1>2, <1>3 DEF CreateEchoReply, Packet, ICMPTypes, EchoTypes

-----------------------------------------------------------------------------
(* Type correctness *)

\* The network's own steps keep every packet well formed.
LEMMA NetStepType ==
  ASSUME TypeOK, NetStep, UNCHANGED <<clientVars, serving>>
  PROVE  TypeOK'
<1>1. net' \subseteq Packet
  <2>1. net \subseteq Packet
    BY DEF TypeOK, NetTypeOK
  <2>2. CASE RouterError
    <3>1. PICK p \in net, e \in Errors :
            Emit([p EXCEPT !.type = e[1], !.code = e[2], !.src = Router, !.dst = p.src,
                      !.payload = IF p.type = ECHO_REQUEST THEN "request" ELSE "reply"])
      BY <2>2 DEF RouterError
    <3>2. p \in Packet /\ e[1] \in ErrorTypes /\ e[2] \in Nat /\ Router \in Addrs
      BY <2>1, NetworkAssumption
    <3>3. QED
      BY <2>1, <3>1, <3>2 DEF Emit, Packet, ICMPTypes, Payloads
  <2>3. CASE TruncateError
    BY <2>1, <2>3 DEF TruncateError, Emit, Packet, Payloads
  <2>4. CASE ForeignReply
    <3>1. PICK q \in net, r \in Responders : Emit(CreateEchoReply(q, r[1], r[2]))
      BY <2>4 DEF ForeignReply
    <3>2. q \in Packet /\ r[1] \in Addrs /\ r[2] \in Payloads
      BY <2>1, NetworkAssumption DEF Payloads
    <3>3. QED
      BY <2>1, <3>1, <3>2, ReplyType DEF Emit
  <2>5. CASE Damage
    BY <2>1, <2>5 DEF Damage, Emit, Packet, Payloads
  <2>6. QED
    BY <2>2, <2>3, <2>4, <2>5 DEF NetStep
<1>2. QED
  BY <1>1 DEF TypeOK, NetTypeOK, ClientTypeOK, ServerTypeOK, clientVars

\* So do the servers.
LEMMA ServerStepType ==
  ASSUME TypeOK, NEW s \in Servers, ServerStep(s), UNCHANGED clientVars
  PROVE  TypeOK'
<1>1. net \subseteq Packet /\ serving \subseteq Servers
  BY DEF TypeOK, NetTypeOK, ServerTypeOK
<1>2. net' \subseteq Packet /\ serving' \subseteq Servers
  <2>1. CASE Reply(s)
    <3>1. PICK q \in net, a \in Homes[s] :
            Emit(CreateEchoReply(q, a, "health")) /\ UNCHANGED serving
      BY <2>1 DEF Reply
    <3>2. q \in Packet /\ a \in Addrs /\ "health" \in Payloads
      BY <1>1, ServerAssumption DEF Payloads
    <3>3. QED
      BY <1>1, <3>1, <3>2, ReplyType DEF Emit
  <2>2. CASE Stop(s) \/ Start(s)
    BY <1>1, <2>2 DEF Stop, Start
  <2>3. QED
    BY <2>1, <2>2 DEF ServerStep
<1>3. QED
  BY <1>2 DEF TypeOK, NetTypeOK, ClientTypeOK, ServerTypeOK, clientVars

\* A host a client probes has addresses that are addresses.
LEMMA HostAddress ==
  ASSUME ClientTypeOK, NEW c \in Clients, NEW a \in Dns[Host(c)]
  PROVE  a \in Addrs
<1>1. index[c] \in 1 .. Len(Hosts[c]) /\ Hosts[c] \in Seq(DOMAIN Dns)
  BY ClientAssumption DEF ClientTypeOK
<1>2. Host(c) \in DOMAIN Dns
  BY <1>1 DEF Host
<1>3. QED
  BY <1>2, ClientAssumption

\* The first host exists.
LEMMA FirstHost ==
  ASSUME NEW c \in Clients
  PROVE  1 \in 1 .. Len(Hosts[c])
<1>1. Hosts[c] \in Seq(DOMAIN Dns) /\ Hosts[c] # << >>
  BY ClientAssumption
<1>2. Len(Hosts[c]) \in Nat /\ Len(Hosts[c]) # 0
  BY <1>1
<1>3. QED
  BY <1>2

\* Going to the next host keeps the variables of the loop well typed and has
\* nothing pending.
LEMMA NextHostType ==
  ASSUME ClientTypeOK, NEW c \in Clients, NextHost(c)
  PROVE  /\ pc' \in [Clients -> Locations]
         /\ pc'[c] \in {"host", "round"}
         /\ \A d \in Clients \ {c} : pc'[d] = pc[d]
         /\ round' \in [Clients -> Nat]
         /\ index' \in [Clients -> Nat]
         /\ \A d \in Clients : index'[d] \in 1 .. Len(Hosts[d])
<1>1. /\ pc \in [Clients -> Locations] /\ round \in [Clients -> Nat]
      /\ index \in [Clients -> Nat]
      /\ \A d \in Clients : index[d] \in 1 .. Len(Hosts[d])
  BY DEF ClientTypeOK
<1>2. Len(Hosts[c]) \in Nat
  BY ClientAssumption
<1>3. CASE index[c] < Len(Hosts[c])
  <2>1. /\ pc' = [pc EXCEPT ![c] = "host"] /\ round' = round
        /\ index' = [index EXCEPT ![c] = index[c] + 1]
    BY <1>3 DEF NextHost, Goto
  <2>2. QED
    BY <1>1, <1>2, <1>3, <2>1 DEF Locations
<1>4. CASE ~(index[c] < Len(Hosts[c]))
  <2>1. /\ pc' = [pc EXCEPT ![c] = "round"] /\ index' = index
        /\ round' = [round EXCEPT ![c] = round[c] + 1]
    BY <1>4 DEF NextHost, Goto
  <2>2. QED
    BY <1>1, <2>1 DEF Locations
<1>5. QED
  BY <1>3, <1>4

\* A row _handle_* asks for is a row.
LEMMA RecordType ==
  ASSUME ClientTypeOK, NEW c \in Clients,
         NEW kind \in {"health", "timeout", "icmp_error"},
         NEW type \in Nat \cup {None}, NEW code \in Nat \cup {None},
         NEW n \in Nat, NEW a \in Addrs, NEW cause \in Packet \cup {None},
         Record(c, kind, type, code, n, a, cause)
  PROVE  /\ pc' = [pc EXCEPT ![c] = "register"]
         /\ pending' \in [Clients -> Row \cup {None}]
         /\ pending'[c] \in Row
         /\ \A d \in Clients \ {c} : pending'[d] = pending[d]
<1> DEFINE row == [kind |-> kind, ip |-> ip[c], icmp_type |-> type, icmp_code |-> code,
                   probe |-> n, addr |-> a, cause |-> cause]
<1>1. row \in Row
  BY DEF ClientTypeOK, Row
<1>2. pending' = [pending EXCEPT ![c] = row] /\ pc' = [pc EXCEPT ![c] = "register"]
  BY DEF Record, Goto
<1> HIDE DEF row
<1>3. QED
  BY <1>1, <1>2 DEF ClientTypeOK

\* So does a client, by itself, by the passing of time and when interrupted.
LEMMA ClientStepType ==
  ASSUME TypeOK, NEW c \in Clients, ClientStep(c) \/ Deadline(c) \/ Interrupt(c),
         UNCHANGED serving
  PROVE  TypeOK'
<1>1. NetTypeOK /\ ClientTypeOK /\ ServerTypeOK
  BY DEF TypeOK
<1>2. ServerTypeOK'
  BY <1>1 DEF ServerTypeOK
<1>3. ClientTypeOK'
  <2> USE <1>1
  <2>1. CASE StopAtCount(c) \/ Interrupt(c)
    BY <2>1 DEF StopAtCount, Interrupt, Close, Goto, ClientTypeOK, Locations
  <2>2. CASE StartRound(c)
    BY <2>2, FirstHost DEF StartRound, Goto, ClientTypeOK, Locations
  <2>3. CASE Resolve(c)
    BY <2>3, HostAddress DEF Resolve, Goto, ClientTypeOK, Locations
  <2>4. CASE ResolveFails(c)
    <3>1. NextHost(c)
      BY <2>4 DEF ResolveFails
    <3>2. /\ pc' \in [Clients -> Locations]
          /\ pc'[c] \in {"host", "round"}
          /\ \A d \in Clients \ {c} : pc'[d] = pc[d]
          /\ round' \in [Clients -> Nat]
          /\ index' \in [Clients -> Nat]
          /\ \A d \in Clients : index'[d] \in 1 .. Len(Hosts[d])
      BY <3>1, NextHostType
    <3>3. skipped' \in [Clients -> Nat]
      BY <2>4 DEF ResolveFails, ClientTypeOK
    <3>4. pending' \in [Clients -> Row \cup {None}]
      BY <2>4 DEF ResolveFails, ClientTypeOK
    <3>5. \A d \in Clients :
            pc'[d] \in {"register", "insert"} => pending'[d] \in Row
      BY <2>4, <3>2 DEF ResolveFails, ClientTypeOK
    <3>6. QED
      BY <2>4, <3>2, <3>3, <3>4, <3>5 DEF ResolveFails, ClientTypeOK
  <2>5. ASSUME NextSeq(c)
        PROVE  seq' \in [Clients -> 0 .. SeqMod - 1] /\ probe' \in [Clients -> Nat]
    <3>1. (seq[c] + 1) % SeqMod \in 0 .. SeqMod - 1
      <4>1. seq[c] + 1 \in Nat
        BY NetworkAssumption DEF ClientTypeOK
      <4>2. QED
        BY <4>1, NetworkAssumption, DivMod
    <3>2. QED
      BY <2>5, <3>1 DEF NextSeq, ClientTypeOK
  <2>6. CASE SendEchoRequest(c)
    <3>1. NextSeq(c)
      BY <2>6 DEF SendEchoRequest
    <3>2. QED
      BY <2>5, <2>6, <3>1, HostAddress DEF SendEchoRequest, Goto, ClientTypeOK, Locations
  <2>7. CASE SendTimesOut(c)
    <3>1. NextSeq(c)
      BY <2>7 DEF SendTimesOut
    <3>2. PICK a \in Dns[Host(c)] :
            /\ addr' = [addr EXCEPT ![c] = a]
            /\ Record(c, "timeout", None, None, probe[c] + 1, a, None)
      BY <2>7 DEF SendTimesOut
    <3>3. a \in Addrs /\ probe[c] + 1 \in Nat
      BY HostAddress DEF ClientTypeOK
    <3>4. /\ pc' = [pc EXCEPT ![c] = "register"]
          /\ pending' \in [Clients -> Row \cup {None}]
          /\ pending'[c] \in Row
          /\ \A d \in Clients \ {c} : pending'[d] = pending[d]
      BY <3>2, <3>3, RecordType
    <3>5. QED
      BY <2>5, <2>7, <3>1, <3>2, <3>3, <3>4 DEF SendTimesOut, ClientTypeOK, Locations
  <2>8. CASE PingRaises(c)
    <3>1. NextSeq(c)
      BY <2>8 DEF PingRaises
    <3>2. QED
      BY <2>5, <2>8, <3>1 DEF PingRaises, Close, Goto, ClientTypeOK, Locations
  <2>9. CASE Deadline(c)
    BY <2>9 DEF Deadline, ClientTypeOK
  <2>10. CASE SelectReady(c) \/ RecvError(c) \/ Ignore(c) \/ ReceiveRaises(c)
    BY <2>10 DEF SelectReady, RecvError, Ignore, ReceiveRaises, Close, Goto,
                 ClientTypeOK, Locations
  <2>11. ASSUME NEW kind \in {"health", "timeout", "icmp_error"},
                NEW type \in Nat \cup {None}, NEW code \in Nat \cup {None},
                NEW cause \in Packet \cup {None},
                Record(c, kind, type, code, probe[c], addr[c], cause),
                UNCHANGED <<round, index, seq, probe, ip, addr, expired, rows, servers,
                            skipped, dropped, ended>>
         PROVE  ClientTypeOK'
    <3>1. probe[c] \in Nat /\ addr[c] \in Addrs
      BY DEF ClientTypeOK
    <3>2. /\ pc' = [pc EXCEPT ![c] = "register"]
          /\ pending' \in [Clients -> Row \cup {None}]
          /\ pending'[c] \in Row
          /\ \A d \in Clients \ {c} : pending'[d] = pending[d]
      BY <2>11, <3>1, RecordType
    <3>3. QED
      BY <2>11, <3>2 DEF ClientTypeOK, Locations
  <2>12. CASE RequestTimesOut(c)
    BY <2>11, <2>12 DEF RequestTimesOut
  <2>13. CASE RaiseIcmpError(c)
    <3>1. PICK p \in Visible(c) :
            Record(c, "icmp_error", GetAttr(BuildIcmpError(p), "icmp_type"),
                   GetAttr(BuildIcmpError(p), "icmp_code"), probe[c], addr[c], p)
      BY <2>13 DEF RaiseIcmpError
    <3>2. p \in Packet /\ p.type \in Nat /\ p.code \in Nat
      BY DEF Visible, NetTypeOK, Packet, ICMPTypes, EchoTypes, ErrorTypes, ECHO_REPLY,
             ECHO_REQUEST, DESTINATION_UNREACHABLE, REDIRECT, TIME_EXCEEDED,
             PARAMETER_PROBLEM
    <3>3. /\ GetAttr(BuildIcmpError(p), "icmp_type") \in Nat \cup {None}
          /\ GetAttr(BuildIcmpError(p), "icmp_code") \in Nat \cup {None}
      BY <3>2 DEF GetAttr, BuildIcmpError
    <3>4. QED
      BY <2>11, <2>13, <3>1, <3>2, <3>3 DEF RaiseIcmpError
  <2>14. CASE AcceptReply(c)
    <3>1. PICK p \in Visible(c) : Record(c, "health", None, None, probe[c], addr[c], p)
      BY <2>14 DEF AcceptReply
    <3>2. p \in Packet
      BY DEF Visible, NetTypeOK
    <3>3. QED
      BY <2>11, <2>14, <3>1, <3>2 DEF AcceptReply
  <2>15. CASE Register(c) \/ RegisterRaises(c)
    <3>1. pending[c].ip \in Addrs
      BY <2>15 DEF Register, RegisterRaises, ClientTypeOK, Row
    <3>2. QED
      BY <2>15, <3>1 DEF Register, RegisterRaises, Close, Goto, ClientTypeOK, Locations
  <2>16. CASE InsertRow(c)
    <3>1. NextHost(c) /\ pending[c] \in Row
      BY <2>16 DEF InsertRow, ClientTypeOK
    <3>2. rows' \in [Clients -> Seq(Row)]
      <4>1. Append(rows[c], pending[c]) \in Seq(Row)
        BY <3>1 DEF ClientTypeOK
      <4>2. QED
        BY <2>16, <4>1 DEF InsertRow, ClientTypeOK
    <3>3. /\ pc' \in [Clients -> Locations]
          /\ pc'[c] \in {"host", "round"}
          /\ \A d \in Clients \ {c} : pc'[d] = pc[d]
          /\ round' \in [Clients -> Nat]
          /\ index' \in [Clients -> Nat]
          /\ \A d \in Clients : index'[d] \in 1 .. Len(Hosts[d])
      BY <3>1, NextHostType
    <3>4. QED
      BY <2>16, <3>2, <3>3 DEF InsertRow, ClientTypeOK
  <2>17. CASE InsertFails(c)
    <3>1. NextHost(c)
      BY <2>17 DEF InsertFails
    <3>2. /\ pc' \in [Clients -> Locations]
          /\ pc'[c] \in {"host", "round"}
          /\ \A d \in Clients \ {c} : pc'[d] = pc[d]
          /\ round' \in [Clients -> Nat]
          /\ index' \in [Clients -> Nat]
          /\ \A d \in Clients : index'[d] \in 1 .. Len(Hosts[d])
      BY <3>1, NextHostType
    <3>3. dropped' \in [Clients -> Nat]
      BY <2>17 DEF InsertFails, ClientTypeOK
    <3>4. pending' \in [Clients -> Row \cup {None}]
      BY <2>17 DEF InsertFails, ClientTypeOK
    <3>5. \A d \in Clients :
            pc'[d] \in {"register", "insert"} => pending'[d] \in Row
      BY <2>17, <3>2 DEF InsertFails, ClientTypeOK
    <3>6. QED
      BY <2>17, <3>2, <3>3, <3>4, <3>5 DEF InsertFails, ClientTypeOK
  <2>18. QED
    BY <2>1, <2>2, <2>3, <2>4, <2>6, <2>7, <2>8, <2>9, <2>10, <2>12, <2>13, <2>14,
       <2>15, <2>16, <2>17 DEF ClientStep
<1>4. NetTypeOK'
  <2>1. CASE SendEchoRequest(c)
    <3>1. PICK a \in Dns[Host(c)] :
            net' = Surviving(c, probe[c] + 1) \cup
                     {CreateEchoRequest(Ident(c), (seq[c] + 1) % SeqMod, AddrOf[c], a,
                                        c, probe[c] + 1)}
      BY <2>1 DEF SendEchoRequest
    <3>2. /\ a \in Addrs
          /\ probe[c] + 1 \in Nat
          /\ seq[c] + 1 \in Nat
      <4>1. a \in Addrs
        BY <1>1, HostAddress
      <4>2. QED
        BY <1>1, <4>1, NetworkAssumption DEF ClientTypeOK
    <3>3. (seq[c] + 1) % SeqMod \in 0 .. SeqMod - 1
      BY <3>2, NetworkAssumption, DivMod
    <3>4. QED
      BY <1>1, <3>1, <3>2, <3>3, RequestType, SurvivingSubset DEF NetTypeOK
  <2>2. CASE SendTimesOut(c) \/ PingRaises(c)
    BY <1>1, <2>2, SurvivingSubset DEF SendTimesOut, PingRaises, NetTypeOK
  <2>3. CASE UNCHANGED net
    BY <1>1, <2>3 DEF NetTypeOK
  <2>4. QED
    BY <2>1, <2>2, <2>3 DEF ClientStep, StopAtCount, StartRound, Interrupt, Resolve,
       ResolveFails, Deadline, SelectReady, RequestTimesOut, RecvError, Ignore,
       RaiseIcmpError, AcceptReply, ReceiveRaises, Register, RegisterRaises,
       InsertRow, InsertFails
<1>5. QED
  BY <1>2, <1>3, <1>4 DEF TypeOK

\* The initial state is well typed.
LEMMA TypeInit == Init => TypeOK
BY NetworkAssumption, FirstHost DEF Init, NetInit, ClientInit, ServerInit,
   TypeOK, NetTypeOK, ClientTypeOK, ServerTypeOK, Locations

\* Type correctness: the variables of the clients, the servers and the network
\* stay in their types; in particular seq fits its 16 bits, and the loop never
\* takes a host that is not in its list.
THEOREM TypeCorrect == Spec => []TypeOK
<1>1. Init => TypeOK
  BY TypeInit
<1>2. TypeOK /\ [Next]_vars => TypeOK'
  <2>1. SUFFICES ASSUME TypeOK, [Next]_vars PROVE TypeOK'
    OBVIOUS
  <2>2. ASSUME NEW c \in Clients, ClientStep(c) \/ Deadline(c) \/ Interrupt(c),
               UNCHANGED serving
        PROVE  TypeOK'
    BY <2>1, <2>2, ClientStepType
  <2>3. ASSUME NEW s \in Servers, ServerStep(s), UNCHANGED clientVars
        PROVE  TypeOK'
    BY <2>1, <2>3, ServerStepType
  <2>4. CASE NetStep /\ UNCHANGED <<clientVars, serving>>
    BY <2>1, <2>4, NetStepType
  <2>5. CASE UNCHANGED vars
    BY <2>1, <2>5 DEF vars, clientVars, TypeOK, NetTypeOK, ClientTypeOK, ServerTypeOK
  <2>6. QED
    BY <2>1, <2>2, <2>3, <2>4, <2>5 DEF Next
<1>3. QED
  BY <1>1, <1>2, PTL DEF Spec

-----------------------------------------------------------------------------
(* Provenance: whose probe a packet, and so a row, is about *)

\* Among the packets in flight, a client's current sequence number occurs only on
\* packets of its current probe: older ones have left before the number repeats.
LEMMA SeqNamesProbe ==
  ASSUME TypeOK, NetTraceable, SeqTruncatesProbe, NEW c \in Clients, NEW p \in net,
         p.intact, p.of = c, p.seq = seq[c]
  PROVE  p.n = probe[c]
<1>1. p.n \in Nat /\ probe[c] \in Nat
  BY DEF TypeOK, NetTypeOK, ClientTypeOK, Packet
<1>2. p.n <= probe[c] /\ probe[c] < p.n + MaxAge /\ p.seq = p.n % SeqMod
  BY DEF NetTraceable, Traceable
<1>3. MaxAge \in Nat /\ MaxAge <= SeqMod /\ SeqMod \in Nat \ {0}
  BY NetworkAssumption
<1>4. probe[c] < p.n + SeqMod /\ p.n < probe[c] + SeqMod
  BY <1>1, <1>2, <1>3
<1>5. p.n % SeqMod = probe[c] % SeqMod
  BY <1>2 DEF SeqTruncatesProbe
<1>6. QED
  BY <1>1, <1>3, <1>4, <1>5, NearbyNumbersDiffer

\* The tests of ping_once on an echo reply tell whose it is.
LEMMA ReplyIsOurs ==
  ASSUME IdentsDistinct, TypeOK, NetTraceable, SeqTruncatesProbe,
         NEW c \in Clients, NEW p \in Visible(c), p.intact, IsOurReply(c, p)
  PROVE  p.of = c /\ p.n = probe[c] /\ p.src = addr[c]
<1>1. p \in net /\ p.dst = AddrOf[c] /\ p.of \in Clients
  BY DEF Visible, TypeOK, NetTypeOK, Packet
<1>2. /\ p.type = ECHO_REPLY /\ p.id = Ident(c) /\ p.seq = seq[c]
      /\ p.src = addr[c]
  BY DEF IsOurReply, EchoIdentifiersAre
<1>3. Ident(p.of) = Ident(c) /\ AddrOf[p.of] = AddrOf[c]
  BY <1>1, <1>2 DEF NetTraceable, Traceable
<1>4. p.of = c
  BY <1>1, <1>3 DEF IdentsDistinct
<1>5. QED
  BY <1>1, <1>2, <1>4, SeqNamesProbe

\* Its tests on an error do only where identifiers are distinct everywhere: the
\* quoted message may be an echo reply that this host sent for somebody else.
LEMMA ErrorIsOurs ==
  ASSUME AllIdentsDistinct, TypeOK, NetTraceable, SeqTruncatesProbe,
         NEW c \in Clients, NEW p \in Visible(c), p.intact, IsOurError(c, p)
  PROVE  p.of = c /\ p.n = probe[c]
<1>1. p \in net /\ p.of \in Clients
  BY DEF Visible, TypeOK, NetTypeOK, Packet
<1>2. p.id = Ident(c) /\ p.seq = seq[c]
  BY DEF IsOurError, QuotedIdentifiersAre
<1>3. p.of = c
  BY <1>1, <1>2 DEF NetTraceable, Traceable, AllIdentsDistinct
<1>4. QED
  BY <1>1, <1>2, <1>3, SeqNamesProbe

\* A packet that joins the network keeps it traceable if it is.
LEMMA EmitTraceable ==
  ASSUME NetTraceable, NEW p, Emit(p), Traceable(p), UNCHANGED probe
  PROVE  NetTraceable'
BY DEF NetTraceable, Traceable, Emit

\* A reply is as traceable as the request it mirrors.
LEMMA ReplyTraceable ==
  ASSUME NEW q \in Packet, Traceable(q), q.intact, q.type = ECHO_REQUEST,
         NEW a \in Addrs, NEW pl \in Payloads
  PROVE  Traceable(CreateEchoReply(q, a, pl))
<1> DEFINE r == CreateEchoReply(q, a, pl)
<1>1. r.id = q.id /\ r.seq = q.seq
  BY ReplyType
<1>2. r.of = q.of /\ r.n = q.n /\ r.dst = q.src /\ r.type = ECHO_REPLY
  BY DEF CreateEchoReply
<1> HIDE DEF r
<1>3. Traceable(r)
  BY <1>1, <1>2 DEF Traceable, ECHO_REPLY, ECHO_REQUEST
<1>4. QED
  BY <1>3 DEF r

\* The network and the servers derive traceable packets from traceable ones.
LEMMA EnvironmentTraceable ==
  ASSUME TypeOK, NetTraceable, UNCHANGED probe,
         NetStep \/ \E s \in Servers : ServerStep(s)
  PROVE  NetTraceable'
<1>1. net \subseteq Packet
  BY DEF TypeOK, NetTypeOK
<1>2. CASE RouterError
  <2>1. PICK p \in net, e \in Errors :
          Emit([p EXCEPT !.type = e[1], !.code = e[2], !.src = Router, !.dst = p.src,
                      !.payload = IF p.type = ECHO_REQUEST THEN "request" ELSE "reply"])
    BY <1>2 DEF RouterError
  <2> DEFINE q == [p EXCEPT !.type = e[1], !.code = e[2], !.src = Router, !.dst = p.src,
                      !.payload = IF p.type = ECHO_REQUEST THEN "request" ELSE "reply"]
  <2>2. p \in Packet /\ Traceable(p)
    BY <1>1 DEF NetTraceable
  <2>3. /\ q.of = p.of /\ q.n = p.n /\ q.intact = p.intact
        /\ q.id = p.id /\ q.seq = p.seq /\ q.type = e[1]
    BY <2>2 DEF Packet
  <2>4. e[1] # ECHO_REQUEST /\ e[1] # ECHO_REPLY
    BY NetworkAssumption DEF ErrorTypes, ECHO_REQUEST, ECHO_REPLY,
       DESTINATION_UNREACHABLE, REDIRECT, TIME_EXCEEDED, PARAMETER_PROBLEM
  <2>5. Emit(q)
    BY <2>1
  <2> HIDE DEF q
  <2>6. Traceable(q)
    BY <2>2, <2>3, <2>4 DEF Traceable
  <2>7. QED
    BY <2>5, <2>6, EmitTraceable
<1>3. CASE TruncateError
  <2>1. PICK p \in net : Emit([p EXCEPT !.payload = "empty"])
    BY <1>3 DEF TruncateError
  <2>2. p \in Packet /\ Traceable(p)
    BY <1>1 DEF NetTraceable
  <2>3. Traceable([p EXCEPT !.payload = "empty"])
    BY <2>2 DEF Traceable, Packet
  <2>4. QED
    BY <2>1, <2>3, EmitTraceable
<1>4. CASE ForeignReply
  <2>1. PICK q \in net, r \in Responders :
          /\ q.type = ECHO_REQUEST /\ VerifyChecksum(q)
          /\ Emit(CreateEchoReply(q, r[1], r[2]))
    BY <1>4 DEF ForeignReply
  <2>2. q \in Packet /\ Traceable(q) /\ r[1] \in Addrs /\ r[2] \in Payloads
    BY <1>1, NetworkAssumption DEF NetTraceable, Payloads
  <2>3. QED
    BY <2>1, <2>2, ReplyTraceable, EmitTraceable DEF VerifyChecksum
<1>5. CASE Damage
  <2>1. PICK p \in net, s \in 0 .. SeqMod - 1, pl \in {"health", "foreign"} :
          Emit([p EXCEPT !.intact = FALSE, !.seq = s,
                         !.payload = IF p.payload = "health" THEN pl ELSE p.payload])
    BY <1>5 DEF Damage
  <2> DEFINE q == [p EXCEPT !.intact = FALSE, !.seq = s,
                         !.payload = IF p.payload = "health" THEN pl ELSE p.payload]
  <2>2. p \in Packet /\ Traceable(p)
    BY <1>1 DEF NetTraceable
  <2>3. q.intact = FALSE /\ q.of = p.of /\ q.n = p.n
    BY <2>2 DEF Packet
  <2>4. Emit(q)
    BY <2>1
  <2> HIDE DEF q
  <2>5. Traceable(q)
    BY <2>2, <2>3 DEF Traceable
  <2>6. QED
    BY <2>4, <2>5, EmitTraceable
<1>6. ASSUME NEW s \in Servers, ServerStep(s)
      PROVE  NetTraceable'
  <2>1. CASE Reply(s)
    <3>1. PICK q \in net, a \in Homes[s] :
            /\ VerifyChecksum(q) /\ q.type = ECHO_REQUEST
            /\ Emit(CreateEchoReply(q, a, "health"))
      BY <2>1 DEF Reply
    <3>2. q \in Packet /\ Traceable(q) /\ a \in Addrs /\ "health" \in Payloads
      BY <1>1, ServerAssumption DEF NetTraceable, Payloads
    <3>3. QED
      BY <3>1, <3>2, ReplyTraceable, EmitTraceable DEF VerifyChecksum
  <2>2. CASE Stop(s) \/ Start(s)
    BY <2>2 DEF Stop, Start, NetTraceable, Traceable
  <2>3. QED
    BY <1>6, <2>1, <2>2 DEF ServerStep
<1>7. QED
  BY <1>2, <1>3, <1>4, <1>5, <1>6 DEF NetStep

\* Beginning a probe advances the sequence number with it, and what survives in
\* the network stays traceable although the client is one probe further.
LEMMA BeginProbe ==
  ASSUME TypeOK, NetTraceable, SeqTruncatesProbe, NEW c \in Clients, NextSeq(c)
  PROVE  /\ probe'[c] = probe[c] + 1
         /\ (seq[c] + 1) % SeqMod = (probe[c] + 1) % SeqMod
         /\ SeqTruncatesProbe'
         /\ \A p \in Surviving(c, probe[c] + 1) : Traceable(p)'
<1>1. /\ probe \in [Clients -> Nat] /\ seq \in [Clients -> 0 .. SeqMod - 1]
      /\ net \subseteq Packet
  BY DEF TypeOK, ClientTypeOK, NetTypeOK
<1>2. /\ seq' = [seq EXCEPT ![c] = (seq[c] + 1) % SeqMod]
      /\ probe' = [probe EXCEPT ![c] = probe[c] + 1]
  BY DEF NextSeq
<1>3. (seq[c] + 1) % SeqMod = (probe[c] + 1) % SeqMod
  <2>1. seq[c] = probe[c] % SeqMod
    BY DEF SeqTruncatesProbe
  <2>2. probe[c] \in Nat
    BY <1>1
  <2>3. ((probe[c] % SeqMod) + 1) % SeqMod = (probe[c] + 1) % SeqMod
    BY <2>2, SuccessorMod, NetworkAssumption
  <2>4. QED
    BY <2>1, <2>3
<1>4. SeqTruncatesProbe'
  <2>1. SUFFICES ASSUME NEW d \in Clients PROVE seq'[d] = probe'[d] % SeqMod
    BY DEF SeqTruncatesProbe
  <2>2. CASE d = c
    BY <1>1, <1>2, <1>3, <2>2
  <2>3. CASE d # c
    BY <1>1, <1>2, <2>3 DEF SeqTruncatesProbe
  <2>4. QED
    BY <2>2, <2>3
<1>5. ASSUME NEW p \in Surviving(c, probe[c] + 1)
      PROVE  Traceable(p)'
  <2>1. p \in net /\ (p.of = c => p.n + MaxAge > probe[c] + 1)
    BY DEF Surviving
  <2>2. Traceable(p) /\ p.of \in Clients /\ p.n \in Nat /\ MaxAge \in Nat
    BY <1>1, <2>1, NetworkAssumption DEF NetTraceable, Packet
  <2>3. /\ 1 <= p.n /\ p.n <= probe'[p.of] /\ probe'[p.of] < p.n + MaxAge
    <3>1. CASE p.of = c
      BY <1>1, <1>2, <2>1, <2>2, <3>1 DEF Traceable
    <3>2. CASE p.of # c
      BY <1>1, <1>2, <2>2, <3>2 DEF Traceable
    <3>3. QED
      BY <3>1, <3>2
  <2>4. QED
    BY <2>2, <2>3 DEF Traceable
<1>6. QED
  BY <1>1, <1>2, <1>3, <1>4, <1>5

\* Every step of a client keeps the network traceable and the sequence number in
\* step with the probes.
LEMMA ClientTraceable ==
  ASSUME TypeOK, NetTraceable, SeqTruncatesProbe, NEW c \in Clients,
         ClientStep(c) \/ Deadline(c) \/ Interrupt(c)
  PROVE  NetTraceable' /\ SeqTruncatesProbe'
<1>1. CASE SendEchoRequest(c)
  <2>1. NextSeq(c)
    BY <1>1 DEF SendEchoRequest
  <2>2. PICK a \in Dns[Host(c)] :
          net' = Surviving(c, probe[c] + 1) \cup
                   {CreateEchoRequest(Ident(c), (seq[c] + 1) % SeqMod, AddrOf[c], a,
                                      c, probe[c] + 1)}
    BY <1>1 DEF SendEchoRequest
  <2>3. PICK q : q = CreateEchoRequest(Ident(c), (seq[c] + 1) % SeqMod, AddrOf[c], a,
                                       c, probe[c] + 1)
    OBVIOUS
  <2>4. probe[c] \in Nat /\ seq[c] \in 0 .. SeqMod - 1 /\ ClientTypeOK
    BY DEF TypeOK, ClientTypeOK
  <2>5. a \in Addrs
    BY <2>4, HostAddress
  <2>6. probe[c] + 1 \in Nat /\ (seq[c] + 1) % SeqMod \in 0 .. SeqMod - 1
    <3>1. seq[c] + 1 \in Nat /\ probe[c] + 1 \in Nat
      BY <2>4, NetworkAssumption
    <3>2. QED
      BY <3>1, NetworkAssumption, DivMod
  <2>7. /\ (seq[c] + 1) % SeqMod = (probe[c] + 1) % SeqMod
        /\ probe'[c] = probe[c] + 1
    BY <2>1, BeginProbe
  <2>8. q.id = Ident(c) /\ q.seq = (seq[c] + 1) % SeqMod
    BY <2>3, <2>5, <2>6, RequestType
  <2>9. /\ q.of = c /\ q.n = probe[c] + 1
        /\ q.src = AddrOf[c] /\ q.type = ECHO_REQUEST
    BY <2>3 DEF CreateEchoRequest
  <2>10. Traceable(q)'
    <3>1. 1 <= probe[c] + 1 /\ probe[c] + 1 < (probe[c] + 1) + MaxAge
      BY <2>4, NetworkAssumption
    <3>2. 1 <= q.n /\ q.n <= probe'[q.of] /\ probe'[q.of] < q.n + MaxAge
      BY <2>4, <2>7, <2>9, <3>1
    <3>3. q.id = Ident(q.of) /\ q.seq = q.n % SeqMod
      BY <2>7, <2>8, <2>9
    <3>4. QED
      BY <2>9, <3>2, <3>3 DEF Traceable, ECHO_REQUEST, ECHO_REPLY
  <2>11. net' = Surviving(c, probe[c] + 1) \cup {q}
    BY <2>2, <2>3
  <2>12. QED
    BY <2>1, <2>10, <2>11, BeginProbe DEF NetTraceable
<1>2. CASE SendTimesOut(c) \/ PingRaises(c)
  <2>1. NextSeq(c) /\ net' = Surviving(c, probe[c] + 1)
    BY <1>2 DEF SendTimesOut, PingRaises
  <2>2. QED
    BY <2>1, BeginProbe DEF NetTraceable
<1>3. CASE UNCHANGED <<net, seq, probe>>
  BY <1>3 DEF NetTraceable, Traceable, SeqTruncatesProbe
<1>4. QED
  BY <1>1, <1>2, <1>3 DEF ClientStep, StopAtCount, StartRound, Interrupt, Resolve,
     ResolveFails, Deadline, SelectReady, RequestTimesOut, RecvError, Ignore,
     RaiseIcmpError, AcceptReply, ReceiveRaises, Register, RegisterRaises,
     InsertRow, InsertFails

\* Recording a row that is the client's own keeps every pending row so.
LEMMA RecordOurs ==
  ASSUME TypeOK, PendingIsOurs, NEW c \in Clients,
         NEW kind, NEW type, NEW code, NEW n, NEW a, NEW cause,
         Record(c, kind, type, code, n, a, cause),
         kind = "health" => /\ cause # None
                            /\ cause.intact => cause.of = c /\ cause.n = n /\ cause.src = a,
         AllIdentsDistinct /\ kind = "icmp_error" =>
           cause # None /\ (cause.intact => cause.of = c /\ cause.n = n)
  PROVE  PendingIsOurs'
<1> DEFINE row == [kind |-> kind, ip |-> ip[c], icmp_type |-> type, icmp_code |-> code,
                   probe |-> n, addr |-> a, cause |-> cause]
<1>1. /\ pc' = [pc EXCEPT ![c] = "register"] /\ pending' = [pending EXCEPT ![c] = row]
      /\ pc \in [Clients -> Locations] /\ pending \in [Clients -> Row \cup {None}]
  BY DEF Record, Goto, TypeOK, ClientTypeOK
<1>2. RowIsOurs(c, row)
  BY DEF RowIsOurs, HealthRowIsOurs, ErrorRowIsOurs, AnswersProbe
<1> HIDE DEF row
<1>3. ASSUME NEW d \in Clients, pc'[d] \in {"register", "insert"}
      PROVE  RowIsOurs(d, pending'[d])
  BY <1>1, <1>2, <1>3 DEF PendingIsOurs
<1>4. QED
  BY <1>3 DEF PendingIsOurs, RowIsOurs, HealthRowIsOurs, ErrorRowIsOurs, AnswersProbe

\* Whatever a client takes for an answer to its probe, and goes on to record, is
\* about that probe.
LEMMA ClientPendingOurs ==
  ASSUME IdentsDistinct, Provenance, NEW c \in Clients,
         ClientStep(c) \/ Deadline(c) \/ Interrupt(c)
  PROVE  PendingIsOurs'
<1>1. TypeOK /\ NetTraceable /\ SeqTruncatesProbe /\ PendingIsOurs
  BY DEF Provenance
<1>2. /\ pc \in [Clients -> Locations]
      /\ pending \in [Clients -> Row \cup {None}]
      /\ ClientTypeOK
  BY <1>1 DEF TypeOK, ClientTypeOK
<1>3. ASSUME \A d \in Clients : pc'[d] \in {"register", "insert"} =>
               pc[d] \in {"register", "insert"} /\ pending'[d] = pending[d]
      PROVE  PendingIsOurs'
  BY <1>1, <1>3 DEF PendingIsOurs
<1>4. CASE \/ StopAtCount(c) \/ StartRound(c) \/ Interrupt(c) \/ Resolve(c)
           \/ SendEchoRequest(c) \/ PingRaises(c) \/ Deadline(c) \/ SelectReady(c)
           \/ RecvError(c) \/ Ignore(c) \/ ReceiveRaises(c)
           \/ Register(c) \/ RegisterRaises(c)
  BY <1>2, <1>3, <1>4 DEF StopAtCount, StartRound, Interrupt, Resolve, SendEchoRequest,
     PingRaises, Deadline, SelectReady, RecvError, Ignore, ReceiveRaises, Register,
     RegisterRaises, Close, Goto
<1>5. CASE ResolveFails(c) \/ InsertRow(c) \/ InsertFails(c)
  <2>1. /\ NextHost(c)
        /\ \A d \in Clients \ {c} : pending'[d] = pending[d]
    BY <1>2, <1>5 DEF ResolveFails, InsertRow, InsertFails
  <2>2. /\ pc'[c] \in {"host", "round"}
        /\ \A d \in Clients \ {c} : pc'[d] = pc[d]
    BY <1>2, <2>1, NextHostType
  <2>3. QED
    BY <1>3, <2>1, <2>2
<1>6. CASE SendTimesOut(c)
  <2>1. PICK a \in Dns[Host(c)] :
          Record(c, "timeout", None, None, probe[c] + 1, a, None)
    BY <1>6 DEF SendTimesOut
  <2>2. QED
    BY <1>1, <2>1, RecordOurs
<1>7. CASE RequestTimesOut(c)
  <2>1. Record(c, "timeout", None, None, probe[c], addr[c], None)
    BY <1>7 DEF RequestTimesOut
  <2>2. QED
    BY <1>1, <2>1, RecordOurs
<1>8. ASSUME NEW p \in net
      PROVE  p # None
  BY <1>1, NoneAssumption DEF TypeOK, NetTypeOK
<1>9. CASE AcceptReply(c)
  <2>1. PICK p \in Visible(c) :
          /\ IsOurReply(c, p)
          /\ Record(c, "health", None, None, probe[c], addr[c], p)
    BY <1>9 DEF AcceptReply
  <2>2. p.intact => p.of = c /\ p.n = probe[c] /\ p.src = addr[c]
    BY <1>1, <2>1, ReplyIsOurs
  <2>3. p # None
    BY <1>8 DEF Visible
  <2>4. QED
    BY <1>1, <2>1, <2>2, <2>3, RecordOurs
<1>10. CASE RaiseIcmpError(c)
  <2>1. PICK p \in Visible(c) :
          /\ IsOurError(c, p)
          /\ Record(c, "icmp_error", GetAttr(BuildIcmpError(p), "icmp_type"),
                    GetAttr(BuildIcmpError(p), "icmp_code"), probe[c], addr[c], p)
    BY <1>10 DEF RaiseIcmpError
  <2>2. AllIdentsDistinct /\ p.intact => p.of = c /\ p.n = probe[c]
    BY <1>1, <2>1, ErrorIsOurs
  <2>3. p # None
    BY <1>8 DEF Visible
  <2>4. QED
    BY <1>1, <2>1, <2>2, <2>3, RecordOurs
<1>11. QED
  BY <1>4, <1>5, <1>6, <1>7, <1>9, <1>10 DEF ClientStep

\* Inserting moves the pending row to the table; nothing else touches a table.
LEMMA ClientRowsOurs ==
  ASSUME Provenance, NEW c \in Clients, ClientStep(c) \/ Deadline(c) \/ Interrupt(c)
  PROVE  RowsAreOurs'
<1>1. rows \in [Clients -> Seq(Row)] /\ PendingIsOurs /\ RowsAreOurs
  BY DEF Provenance, TypeOK, ClientTypeOK
<1>2. CASE UNCHANGED rows
  BY <1>1, <1>2 DEF RowsAreOurs
<1>3. CASE InsertRow(c)
  <2>1. PICK row : row = pending[c]
    OBVIOUS
  <2>2. RowIsOurs(c, row) /\ rows' = [rows EXCEPT ![c] = Append(rows[c], row)]
    BY <1>1, <1>3, <2>1 DEF InsertRow, PendingIsOurs
  <2>3. ASSUME NEW d \in Clients, NEW i \in DOMAIN rows'[d]
        PROVE  RowIsOurs(d, rows'[d][i])
    <3>1. CASE d # c
      BY <1>1, <2>2, <2>3, <3>1 DEF RowsAreOurs
    <3>2. CASE d = c
      <4>1. rows'[c] = Append(rows[c], row) /\ rows[c] \in Seq(Row)
        BY <1>1, <2>2
      <4>2. i \in 1 .. Len(rows[c]) + 1
        BY <2>3, <3>2, <4>1
      <4>3. CASE i = Len(rows[c]) + 1
        BY <2>2, <3>2, <4>1, <4>3
      <4>4. CASE i \in 1 .. Len(rows[c])
        BY <1>1, <3>2, <4>1, <4>4 DEF RowsAreOurs
      <4>5. QED
        BY <4>1, <4>2, <4>3, <4>4
    <3>3. QED
      BY <3>1, <3>2
  <2>4. QED
    BY <2>3 DEF RowsAreOurs, RowIsOurs, HealthRowIsOurs, ErrorRowIsOurs, AnswersProbe
<1>4. QED
  BY <1>2, <1>3 DEF ClientStep, StopAtCount, StartRound, Interrupt, Resolve, ResolveFails,
     SendEchoRequest, SendTimesOut, PingRaises, Deadline, SelectReady, RequestTimesOut,
     RecvError, Ignore, RaiseIcmpError, AcceptReply, ReceiveRaises, Register,
     RegisterRaises, InsertFails

\* Provenance is inductive wherever identifiers tell the clients of a host apart.
LEMMA ProvenanceInductive ==
  ASSUME IdentsDistinct
  PROVE  /\ Init => Provenance
         /\ Provenance /\ [Next]_vars => Provenance'
<1>1. Init => Provenance
  <2>1. Init => TypeOK
    BY NetworkAssumption, FirstHost DEF Init, NetInit, ClientInit, ServerInit,
       TypeOK, NetTypeOK, ClientTypeOK, ServerTypeOK, Locations
  <2>2. 0 % SeqMod = 0
    BY NetworkAssumption, SmallMod
  <2>3. QED
    BY <2>1, <2>2 DEF Init, NetInit, ClientInit, Provenance, NetTraceable,
       SeqTruncatesProbe, PendingIsOurs, RowsAreOurs
<1>2. ASSUME Provenance, [Next]_vars
      PROVE  Provenance'
  <2>1. TypeOK /\ NetTraceable /\ SeqTruncatesProbe /\ PendingIsOurs /\ RowsAreOurs
    BY <1>2 DEF Provenance
  <2>2. ASSUME UNCHANGED clientVars
        PROVE  SeqTruncatesProbe' /\ PendingIsOurs' /\ RowsAreOurs'
    BY <2>1, <2>2 DEF clientVars, SeqTruncatesProbe, PendingIsOurs, RowsAreOurs
  <2>3. ASSUME NEW c \in Clients, ClientStep(c) \/ Deadline(c) \/ Interrupt(c),
               UNCHANGED serving
        PROVE  Provenance'
    <3>1. TypeOK'
      BY <2>1, <2>3, ClientStepType
    <3>2. NetTraceable' /\ SeqTruncatesProbe'
      BY <2>1, <2>3, ClientTraceable
    <3>3. PendingIsOurs' /\ RowsAreOurs'
      BY <1>2, <2>3, ClientPendingOurs, ClientRowsOurs
    <3>4. QED
      BY <3>1, <3>2, <3>3 DEF Provenance
  <2>4. ASSUME NEW s \in Servers, ServerStep(s), UNCHANGED clientVars
        PROVE  Provenance'
    <3>1. TypeOK'
      BY <2>1, <2>4, ServerStepType
    <3>2. NetTraceable'
      BY <2>1, <2>4, EnvironmentTraceable DEF clientVars
    <3>3. QED
      BY <2>2, <2>4, <3>1, <3>2 DEF Provenance
  <2>5. CASE NetStep /\ UNCHANGED <<clientVars, serving>>
    <3>1. TypeOK'
      BY <2>1, <2>5, NetStepType
    <3>2. NetTraceable'
      BY <2>1, <2>5, EnvironmentTraceable DEF clientVars
    <3>3. QED
      BY <2>2, <2>5, <3>1, <3>2 DEF Provenance
  <2>6. CASE UNCHANGED vars
    <3>1. TypeOK'
      BY <2>1, <2>6 DEF vars, clientVars, TypeOK, NetTypeOK, ClientTypeOK, ServerTypeOK
    <3>2. NetTraceable'
      BY <2>1, <2>6 DEF vars, clientVars, NetTraceable, Traceable
    <3>3. QED
      BY <2>2, <2>6, <3>1, <3>2 DEF Provenance, vars
  <2>7. QED
    BY <1>2, <2>3, <2>4, <2>5, <2>6 DEF Next
<1>3. QED
  BY <1>1, <1>2

\* Every stored health measurement that came in intact answers the very probe,
\* of the very client, to the very address it is stored for.
THEOREM HealthRowsAnswerTheirProbe ==
  ASSUME IdentsDistinct
  PROVE  Spec => []HealthIsOurs
<1>1. Provenance => HealthIsOurs
  BY DEF Provenance, RowsAreOurs, RowIsOurs, HealthIsOurs
<1>2. (Init => Provenance) /\ (Provenance /\ [Next]_vars => Provenance')
  BY ProvenanceInductive
<1>3. QED
  BY <1>1, <1>2, PTL DEF Spec

\* The same of every stored ICMP error, where no two clients anywhere share an
\* identifier; the tests of ping_once do not suffice for less.
THEOREM ErrorRowsAnswerTheirProbe ==
  ASSUME AllIdentsDistinct
  PROVE  Spec => []ErrorsAreOurs
<1>1. IdentsDistinct
  BY DEF IdentsDistinct, AllIdentsDistinct
<1>2. Provenance => ErrorsAreOurs
  BY DEF Provenance, RowsAreOurs, RowIsOurs, ErrorsAreOurs
<1>3. (Init => Provenance) /\ (Provenance /\ [Next]_vars => Provenance')
  BY <1>1, ProvenanceInductive
<1>4. QED
  BY <1>2, <1>3, PTL DEF Spec
=============================================================================
