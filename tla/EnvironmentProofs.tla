-------------------------- MODULE EnvironmentProofs --------------------------
(***************************************************************************)
(* What clients and servers can count on from the world around them, and    *)
(* what it makes of their promises: with stable name lookups a row names    *)
(* the address that was probed, health replies exist only as answers to     *)
(* requests whatever the network does, and in a healthy environment nothing *)
(* but the count and the keyboard ends the loop.                            *)
(***************************************************************************)
EXTENDS HeartbeatProofs

\* Nothing that the probe of client d depends on changes.
SameOf(d) ==
    /\ pc'[d] = pc[d] /\ index'[d] = index[d] /\ ip'[d] = ip[d] /\ addr'[d] = addr[d]
    /\ pending'[d] = pending[d] /\ rows'[d] = rows[d] /\ ended'[d] = ended[d]

\* A step of client c changes nothing of another client.
LEMMA OthersUnchanged ==
  ASSUME ClientTypeOK, NEW c \in Clients,
         ClientStep(c) \/ Deadline(c) \/ Interrupt(c),
         NEW d \in Clients \ {c}
  PROVE  SameOf(d)
<1> USE DEF ClientTypeOK, SameOf
<1>1. CASE StopAtCount(c) \/ Interrupt(c) \/ StartRound(c)
  BY <1>1 DEF StopAtCount, Interrupt, StartRound, Close, Goto
<1>2. CASE Resolve(c) \/ Deadline(c)
  BY <1>2 DEF Resolve, Deadline, Goto
<1>3. CASE ResolveFails(c) \/ InsertRow(c) \/ InsertFails(c)
  BY <1>3 DEF ResolveFails, InsertRow, InsertFails, NextHost, Goto
<1>4. CASE SendEchoRequest(c) \/ PingRaises(c)
  BY <1>4 DEF SendEchoRequest, PingRaises, Close, Goto
<1>5. CASE SendTimesOut(c)
  BY <1>5 DEF SendTimesOut, Record, Goto
<1>6. CASE SelectReady(c) \/ RecvError(c) \/ Ignore(c) \/ ReceiveRaises(c)
  BY <1>6 DEF SelectReady, RecvError, Ignore, ReceiveRaises, Close, Goto
<1>7. CASE RequestTimesOut(c) \/ RaiseIcmpError(c) \/ AcceptReply(c)
  BY <1>7 DEF RequestTimesOut, RaiseIcmpError, AcceptReply, Record, Goto
<1>8. CASE Register(c) \/ RegisterRaises(c)
  BY <1>8 DEF Register, RegisterRaises, Close, Goto
<1>9. QED
  BY <1>1, <1>2, <1>3, <1>4, <1>5, <1>6, <1>7, <1>8 DEF ClientStep

-----------------------------------------------------------------------------
(* Rows name the address that was probed *)

\* What LookupsAgree says of one client.
LookupAgrees(c) ==
    /\ pc[c] = "ping" => ip[c] \in Dns[Host(c)]
    /\ pc[c] \in {"await", "recv"} => ip[c] = addr[c]
    /\ pc[c] \in {"register", "insert"} => pending[c].ip = pending[c].addr

\* What RowNamesProbedAddress says of one client.
RowsAgree(c) == \A i \in DOMAIN rows[c] : rows[c][i].ip = rows[c][i].addr

\* ip_address and addr[0] are the same address of the host being probed.
LEMMA SecondLookup ==
  ASSUME DnsIsStable, ClientTypeOK, NEW c \in Clients, LookupAgrees(c), pc[c] = "ping",
         NEW a \in Dns[Host(c)]
  PROVE  a = ip[c]
<1>1. index[c] \in 1 .. Len(Hosts[c]) /\ Hosts[c] \in Seq(DOMAIN Dns)
  BY ClientAssumption DEF ClientTypeOK
<1>2. Host(c) \in DOMAIN Dns
  BY <1>1 DEF Host
<1>3. ip[c] \in Dns[Host(c)]
  BY DEF LookupAgrees
<1>4. QED
  BY <1>2, <1>3 DEF DnsIsStable

\* Each step of a client keeps its lookups in agreement.
LEMMA ClientLookupAgrees ==
  ASSUME DnsIsStable, ClientTypeOK, NEW c \in Clients, LookupAgrees(c),
         ClientStep(c) \/ Deadline(c) \/ Interrupt(c)
  PROVE  LookupAgrees(c)'
<1>1. CASE StopAtCount(c) \/ Interrupt(c) \/ ReceiveRaises(c) \/ RegisterRaises(c)
           \/ PingRaises(c)
  <2>1. pc'[c] = "closed"
    BY <1>1 DEF StopAtCount, Interrupt, ReceiveRaises, RegisterRaises, PingRaises,
       Close, Goto, ClientTypeOK
  <2>2. QED
    BY <2>1 DEF LookupAgrees
<1>2. CASE StartRound(c)
  <2>1. pc'[c] = "host"
    BY <1>2 DEF StartRound, Goto, ClientTypeOK
  <2>2. QED
    BY <2>1 DEF LookupAgrees
<1>3. CASE Resolve(c)
  <2>1. /\ pc'[c] = "ping" /\ index' = index
        /\ \E a \in Dns[Host(c)] : ip'[c] = a
    BY <1>3 DEF Resolve, Goto, ClientTypeOK
  <2>2. Host(c)' = Host(c)
    BY <2>1 DEF Host
  <2>3. QED
    BY <2>1, <2>2 DEF LookupAgrees
<1>4. CASE ResolveFails(c) \/ InsertRow(c) \/ InsertFails(c)
  <2>1. NextHost(c)
    BY <1>4 DEF ResolveFails, InsertRow, InsertFails
  <2>2. pc'[c] \in {"host", "round"}
    BY <2>1 DEF NextHost, Goto, ClientTypeOK
  <2>3. QED
    BY <2>2 DEF LookupAgrees
<1>5. CASE SendEchoRequest(c)
  <2>1. /\ pc[c] = "ping" /\ pc'[c] = "await" /\ ip'[c] = ip[c]
        /\ \E a \in Dns[Host(c)] : addr'[c] = a
    BY <1>5 DEF SendEchoRequest, Goto, ClientTypeOK
  <2>2. addr'[c] = ip[c]
    BY <2>1, SecondLookup
  <2>3. QED
    BY <2>1, <2>2 DEF LookupAgrees
<1>6. CASE SendTimesOut(c)
  <2>1. PICK a \in Dns[Host(c)] : Record(c, "timeout", None, None, probe[c] + 1, a, None)
    BY <1>6 DEF SendTimesOut
  <2>2. pc[c] = "ping"
    BY <1>6 DEF SendTimesOut
  <2>3. a = ip[c]
    BY <2>2, SecondLookup
  <2>4. pc'[c] = "register" /\ pending'[c].ip = ip[c] /\ pending'[c].addr = a
    BY <2>1 DEF Record, Goto, ClientTypeOK
  <2>5. QED
    BY <2>3, <2>4 DEF LookupAgrees
<1>7. CASE Deadline(c) \/ SelectReady(c) \/ RecvError(c) \/ Ignore(c)
  <2>1. /\ pc[c] \in {"await", "recv"} /\ pc'[c] \in {"await", "recv"}
        /\ ip'[c] = ip[c] /\ addr'[c] = addr[c]
    BY <1>7 DEF Deadline, SelectReady, RecvError, Ignore, Goto, ClientTypeOK
  <2>2. QED
    BY <2>1 DEF LookupAgrees
<1>8. CASE RequestTimesOut(c) \/ RaiseIcmpError(c) \/ AcceptReply(c)
  <2>1. /\ pc[c] \in {"await", "recv"} /\ pc'[c] = "register"
        /\ pending'[c].ip = ip[c] /\ pending'[c].addr = addr[c]
    BY <1>8 DEF RequestTimesOut, RaiseIcmpError, AcceptReply, Record, Goto, ClientTypeOK
  <2>2. QED
    BY <2>1 DEF LookupAgrees
<1>9. CASE Register(c)
  <2>1. pc[c] = "register" /\ pc'[c] = "insert" /\ pending'[c] = pending[c]
    BY <1>9 DEF Register, Goto, ClientTypeOK
  <2>2. QED
    BY <2>1 DEF LookupAgrees
<1>10. QED
  BY <1>1, <1>2, <1>3, <1>4, <1>5, <1>6, <1>7, <1>8, <1>9 DEF ClientStep

\* Each step of a client leaves rows that agree, if the row being written does.
LEMMA ClientRowsAgree ==
  ASSUME ClientTypeOK, NEW c \in Clients, LookupAgrees(c), RowsAgree(c),
         ClientStep(c) \/ Deadline(c) \/ Interrupt(c)
  PROVE  RowsAgree(c)'
<1>1. CASE UNCHANGED rows
  BY <1>1 DEF RowsAgree
<1>2. CASE InsertRow(c)
  <2>1. PICK row : row = pending[c]
    OBVIOUS
  <2>2. rows'[c] = Append(rows[c], row) /\ pc[c] = "insert" /\ rows[c] \in Seq(Row)
    BY <1>2, <2>1 DEF InsertRow, ClientTypeOK
  <2>3. row.ip = row.addr
    BY <2>1, <2>2 DEF LookupAgrees
  <2>4. ASSUME NEW i \in DOMAIN rows'[c] PROVE rows'[c][i].ip = rows'[c][i].addr
    <3>1. i \in 1 .. Len(rows[c]) + 1
      BY <2>2, <2>4
    <3>2. CASE i = Len(rows[c]) + 1
      BY <2>2, <2>3, <3>2
    <3>3. CASE i \in 1 .. Len(rows[c])
      BY <2>2, <3>3 DEF RowsAgree
    <3>4. QED
      BY <2>2, <3>1, <3>2, <3>3
  <2>5. QED
    BY <2>4 DEF RowsAgree
<1>3. QED
  BY <1>1, <1>2 DEF ClientStep, StopAtCount, StartRound, Interrupt, Resolve, ResolveFails,
     SendEchoRequest, SendTimesOut, PingRaises, Deadline, SelectReady, RequestTimesOut,
     RecvError, Ignore, RaiseIcmpError, AcceptReply, ReceiveRaises, Register,
     RegisterRaises, InsertFails

\* What another client reads of its own variables does not change.
LEMMA OthersAgree ==
  ASSUME ClientTypeOK, NEW c \in Clients,
         ClientStep(c) \/ Deadline(c) \/ Interrupt(c),
         NEW d \in Clients \ {c}, LookupAgrees(d), RowsAgree(d)
  PROVE  LookupAgrees(d)' /\ RowsAgree(d)'
<1>1. SameOf(d)
  BY OthersUnchanged
<1>2. QED
  BY <1>1 DEF SameOf, LookupAgrees, RowsAgree, Host

\* With stable DNS the two lookups of a probe agree, and so a row names the address
\* its probe went to.  Run v_dns shows that the hypothesis is needed.
THEOREM RowsNameTheirAddress == DnsIsStable => (Spec => []RowNamesProbedAddress)
<1> SUFFICES ASSUME DnsIsStable PROVE Spec => []RowNamesProbedAddress
  OBVIOUS
<1>1. Init => AddressesAgree
  <2>1. SUFFICES ASSUME Init PROVE AddressesAgree
    OBVIOUS
  <2>2. \A c \in Clients : pc[c] = "round" /\ rows[c] = << >>
    BY <2>1 DEF Init, ClientInit
  <2>3. QED
    BY <2>1, <2>2, TypeInit DEF AddressesAgree, LookupsAgree, RowNamesProbedAddress
<1>2. AddressesAgree /\ TypeOK' /\ [Next]_vars => AddressesAgree'
  <2>1. SUFFICES ASSUME AddressesAgree, TypeOK', [Next]_vars PROVE AddressesAgree'
    OBVIOUS
  <2>2. ClientTypeOK /\ \A c \in Clients : LookupAgrees(c) /\ RowsAgree(c)
    BY <2>1 DEF AddressesAgree, TypeOK, LookupsAgree, LookupAgrees,
       RowNamesProbedAddress, RowsAgree
  <2>3. \A c \in Clients : LookupAgrees(c)' /\ RowsAgree(c)'
    <3>1. ASSUME NEW c \in Clients, ClientStep(c) \/ Deadline(c) \/ Interrupt(c)
          PROVE  \A d \in Clients : LookupAgrees(d)' /\ RowsAgree(d)'
      <4>1. LookupAgrees(c)' /\ RowsAgree(c)'
        BY <2>2, <3>1, ClientLookupAgrees, ClientRowsAgree
      <4>2. ASSUME NEW d \in Clients \ {c} PROVE LookupAgrees(d)' /\ RowsAgree(d)'
        BY <2>2, <3>1, OthersAgree
      <4>3. QED
        BY <4>1, <4>2
    <3>2. ASSUME UNCHANGED clientVars
          PROVE  \A d \in Clients : LookupAgrees(d)' /\ RowsAgree(d)'
      BY <2>2, <3>2 DEF clientVars, LookupAgrees, RowsAgree, Host
    <3>3. QED
      BY <2>1, <3>1, <3>2 DEF Next, vars
  <2>4. QED
    BY <2>1, <2>3 DEF AddressesAgree, LookupsAgree, LookupAgrees,
       RowNamesProbedAddress, RowsAgree
<1>3. AddressesAgree => RowNamesProbedAddress
  BY DEF AddressesAgree
<1>4. QED
  BY <1>1, <1>2, <1>3, TypeCorrect, PTL DEF Spec

-----------------------------------------------------------------------------
(* Servers only answer *)

\* A packet on the wire keeps its mirror image when one is added that is no health
\* reply, or has a mirror image on the wire.
LEMMA EmitKeepsMirrors ==
  ASSUME RepliesMirrorRequests, NEW p, Emit(p),
         IsHealthReply(p) => \E q \in net : Mirrors(p, q)
  PROVE  RepliesMirrorRequests'
BY DEF RepliesMirrorRequests, Emit, IsHealthReply, Mirrors

\* A reply and the request it answers leave the network together.
LEMMA SurvivorsKeepMirrors ==
  ASSUME RepliesMirrorRequests, NEW c, NEW n, net' = Surviving(c, n)
  PROVE  RepliesMirrorRequests'
<1>1. ASSUME NEW p \in Surviving(c, n), IsHealthReply(p)
      PROVE  \E q \in Surviving(c, n) : Mirrors(p, q)
  <2>1. PICK q \in net : Mirrors(p, q)
    BY <1>1 DEF RepliesMirrorRequests, Surviving
  <2>2. q \in Surviving(c, n)
    BY <1>1, <2>1 DEF Surviving, Mirrors
  <2>3. QED
    BY <2>1, <2>2
<1>2. QED
  BY <1>1 DEF RepliesMirrorRequests, IsHealthReply, Mirrors

\* A new request needs no mirror image, and takes none away.
LEMMA RequestKeepsMirrors ==
  ASSUME RepliesMirrorRequests, NEW c, NEW n, NEW id, NEW s, NEW a, NEW b,
         net' = Surviving(c, n) \cup {CreateEchoRequest(id, s, a, b, c, n)}
  PROVE  RepliesMirrorRequests'
<1> DEFINE r == CreateEchoRequest(id, s, a, b, c, n)
<1>1. ~IsHealthReply(r)
  BY DEF CreateEchoRequest, IsHealthReply, ECHO_REQUEST, ECHO_REPLY
<1>2. net' = Surviving(c, n) \cup {r}
  OBVIOUS
<1> HIDE DEF r
<1>3. ASSUME NEW p \in net', IsHealthReply(p)
      PROVE  \E q \in net' : Mirrors(p, q)
  <2>1. p \in Surviving(c, n)
    BY <1>1, <1>2, <1>3
  <2>2. PICK q \in net : Mirrors(p, q)
    BY <1>3, <2>1 DEF RepliesMirrorRequests, Surviving
  <2>3. q \in Surviving(c, n)
    BY <2>1, <2>2 DEF Surviving, Mirrors
  <2>4. QED
    BY <1>2, <2>2, <2>3
<1>4. QED
  BY <1>3 DEF RepliesMirrorRequests, IsHealthReply, Mirrors

\* The network's own packets are no health replies: errors have types of their own,
\* other responders send payloads of their own, and damage shows.
LEMMA NetStepKeepsMirrors ==
  ASSUME NetTypeOK, RepliesMirrorRequests, NetStep
  PROVE  RepliesMirrorRequests'
<1>1. CASE RouterError
  <2>1. PICK p \in net, e \in Errors :
          Emit([p EXCEPT !.type = e[1], !.code = e[2], !.src = Router, !.dst = p.src,
                    !.payload = IF p.type = ECHO_REQUEST THEN "request" ELSE "reply"])
    BY <1>1 DEF RouterError
  <2>2. p \in Packet /\ e[1] \in ErrorTypes
    BY NetworkAssumption DEF NetTypeOK
  <2>3. e[1] # ECHO_REPLY
    BY <2>2 DEF ErrorTypes, ECHO_REPLY, DESTINATION_UNREACHABLE, REDIRECT,
       TIME_EXCEEDED, PARAMETER_PROBLEM
  <2>4. PICK r : r = [p EXCEPT !.type = e[1], !.code = e[2], !.src = Router,
                    !.dst = p.src,
                    !.payload = IF p.type = ECHO_REQUEST THEN "request" ELSE "reply"]
    OBVIOUS
  <2>5. ~IsHealthReply(r)
    BY <2>2, <2>3, <2>4 DEF IsHealthReply, Packet
  <2>6. QED
    BY <2>1, <2>4, <2>5, EmitKeepsMirrors
<1>2. CASE TruncateError
  <2>1. PICK p \in net : IsIcmpErrorType(p) /\ Emit([p EXCEPT !.payload = "empty"])
    BY <1>2 DEF TruncateError
  <2>2. PICK r : r = [p EXCEPT !.payload = "empty"]
    OBVIOUS
  <2>3. r.payload = "empty"
    BY <2>2 DEF NetTypeOK, Packet
  <2>4. QED
    BY <2>1, <2>2, <2>3, EmitKeepsMirrors DEF IsHealthReply
<1>3. CASE ForeignReply
  <2>1. PICK q \in net, r \in Responders : Emit(CreateEchoReply(q, r[1], r[2]))
    BY <1>3 DEF ForeignReply
  <2>2. r[2] \in {"empty", "foreign"}
    BY NetworkAssumption
  <2>3. ~IsHealthReply(CreateEchoReply(q, r[1], r[2]))
    BY <2>2 DEF IsHealthReply, CreateEchoReply
  <2>4. QED
    BY <2>1, <2>3, EmitKeepsMirrors
<1>4. CASE Damage
  <2>1. PICK p \in net, s \in 0 .. SeqMod - 1, pl \in {"health", "foreign"} :
          Emit([p EXCEPT !.intact = FALSE, !.seq = s,
                    !.payload = IF p.payload = "health" THEN pl ELSE p.payload])
    BY <1>4 DEF Damage
  <2>2. PICK r : r = [p EXCEPT !.intact = FALSE, !.seq = s,
                    !.payload = IF p.payload = "health" THEN pl ELSE p.payload]
    OBVIOUS
  <2>3. r.intact = FALSE
    BY <2>2 DEF NetTypeOK, Packet
  <2>4. QED
    BY <2>1, <2>2, <2>3, EmitKeepsMirrors DEF IsHealthReply
<1>5. QED
  BY <1>1, <1>2, <1>3, <1>4 DEF NetStep

\* A server's reply mirrors the intact request it read.
LEMMA ServerKeepsMirrors ==
  ASSUME NetTypeOK, RepliesMirrorRequests, NEW s \in Servers, ServerStep(s)
  PROVE  RepliesMirrorRequests'
<1>1. CASE Reply(s)
  <2>1. PICK q \in net, a \in Homes[s] :
          /\ VerifyChecksum(q) /\ q.type = ECHO_REQUEST
          /\ Emit(CreateEchoReply(q, a, "health"))
    BY <1>1 DEF Reply
  <2>2. q \in Packet /\ a \in Addrs /\ "health" \in Payloads
    BY ServerAssumption DEF NetTypeOK, Payloads
  <2>3. /\ CreateEchoReply(q, a, "health").id = q.id
        /\ CreateEchoReply(q, a, "health").seq = q.seq
    BY <2>2, ReplyType
  <2>4. /\ CreateEchoReply(q, a, "health").of = q.of
        /\ CreateEchoReply(q, a, "health").n = q.n
        /\ CreateEchoReply(q, a, "health").dst = q.src
    BY DEF CreateEchoReply
  <2>5. Mirrors(CreateEchoReply(q, a, "health"), q)
    BY <2>1, <2>3, <2>4 DEF Mirrors, VerifyChecksum
  <2>6. QED
    BY <2>1, <2>5, EmitKeepsMirrors
<1>2. CASE Stop(s) \/ Start(s)
  BY <1>2 DEF Stop, Start, RepliesMirrorRequests, IsHealthReply, Mirrors
<1>3. QED
  BY <1>1, <1>2 DEF ServerStep

\* Clients add requests, and retire what is old.
LEMMA ClientKeepsMirrors ==
  ASSUME RepliesMirrorRequests, NEW c \in Clients,
         ClientStep(c) \/ Deadline(c) \/ Interrupt(c)
  PROVE  RepliesMirrorRequests'
<1>1. CASE SendEchoRequest(c)
  BY <1>1, RequestKeepsMirrors DEF SendEchoRequest
<1>2. CASE SendTimesOut(c) \/ PingRaises(c)
  BY <1>2, SurvivorsKeepMirrors DEF SendTimesOut, PingRaises
<1>3. CASE UNCHANGED net
  BY <1>3 DEF RepliesMirrorRequests, IsHealthReply, Mirrors
<1>4. QED
  BY <1>1, <1>2, <1>3 DEF ClientStep, StopAtCount, StartRound, Interrupt, Resolve,
     ResolveFails, Deadline, SelectReady, RequestTimesOut, RecvError, Ignore,
     RaiseIcmpError, AcceptReply, ReceiveRaises, Register, RegisterRaises,
     InsertRow, InsertFails

\* No health reply without an intact request it mirrors, whatever the network
\* does: serve_forever answers nothing else, so servers never answer each other.
THEOREM ServersOnlyAnswer == Spec => []RepliesMirrorRequests
<1>1. Init => RepliesMirrorRequests
  BY DEF Init, NetInit, RepliesMirrorRequests
<1>2. TypeOK /\ RepliesMirrorRequests /\ [Next]_vars => RepliesMirrorRequests'
  <2>1. SUFFICES ASSUME TypeOK, RepliesMirrorRequests, [Next]_vars
                 PROVE  RepliesMirrorRequests'
    OBVIOUS
  <2>2. NetTypeOK
    BY <2>1 DEF TypeOK
  <2>3. ASSUME NEW c \in Clients, ClientStep(c) \/ Deadline(c) \/ Interrupt(c)
        PROVE  RepliesMirrorRequests'
    BY <2>1, <2>3, ClientKeepsMirrors
  <2>4. ASSUME NEW s \in Servers, ServerStep(s)
        PROVE  RepliesMirrorRequests'
    BY <2>1, <2>2, <2>4, ServerKeepsMirrors
  <2>5. CASE NetStep
    BY <2>1, <2>2, <2>5, NetStepKeepsMirrors
  <2>6. CASE UNCHANGED vars
    BY <2>1, <2>6 DEF vars, RepliesMirrorRequests, IsHealthReply, Mirrors
  <2>7. QED
    BY <2>1, <2>3, <2>4, <2>5, <2>6 DEF Next
<1>3. QED
  BY <1>1, <1>2, TypeCorrect, PTL DEF Spec

-----------------------------------------------------------------------------
(* The loop survives a healthy environment *)

\* What is on the wire stays fit to be received when a packet is added that is.
LEMMA EmitFit ==
  ASSUME ErrorsQuoted, RepliesFromServers, NEW p, Emit(p),
         IsIcmpErrorType(p) => p.payload \in {"request", "reply"},
         p.type = ECHO_REPLY => Decodes(p) \/ \E r \in Responders : p.src = r[1]
  PROVE  ErrorsQuoted' /\ RepliesFromServers'
BY DEF ErrorsQuoted, RepliesFromServers, Emit, IsIcmpErrorType, Decodes

\* A reply is no error.
LEMMA ReplyIsNoError ==
  ASSUME NEW q, NEW a, NEW pl
  PROVE  ~IsIcmpErrorType(CreateEchoReply(q, a, pl))
BY DEF IsIcmpErrorType, CreateEchoReply, ErrorTypes, ECHO_REPLY, DESTINATION_UNREACHABLE,
   REDIRECT, TIME_EXCEEDED, PARAMETER_PROBLEM

\* Routers quote, other responders answer from their own addresses, and nothing else
\* touches the packets of a healthy network.
LEMMA NetStepFit ==
  ASSUME HealthyEnvironment, NetTypeOK, ErrorsQuoted, RepliesFromServers, NetStep
  PROVE  ErrorsQuoted' /\ RepliesFromServers'
<1>1. CASE RouterError
  <2>1. PICK p \in net, e \in Errors :
          Emit([p EXCEPT !.type = e[1], !.code = e[2], !.src = Router, !.dst = p.src,
                    !.payload = IF p.type = ECHO_REQUEST THEN "request" ELSE "reply"])
    BY <1>1 DEF RouterError
  <2>2. p \in Packet /\ e[1] \in ErrorTypes
    BY NetworkAssumption DEF NetTypeOK
  <2>3. e[1] # ECHO_REPLY
    BY <2>2 DEF ErrorTypes, ECHO_REPLY, DESTINATION_UNREACHABLE, REDIRECT,
       TIME_EXCEEDED, PARAMETER_PROBLEM
  <2>4. PICK r : r = [p EXCEPT !.type = e[1], !.code = e[2], !.src = Router,
                    !.dst = p.src,
                    !.payload = IF p.type = ECHO_REQUEST THEN "request" ELSE "reply"]
    OBVIOUS
  <2>5. r.type # ECHO_REPLY /\ r.payload \in {"request", "reply"}
    BY <2>2, <2>3, <2>4 DEF Packet
  <2>6. QED
    BY <2>1, <2>4, <2>5, EmitFit
<1>2. CASE ForeignReply
  <2>1. PICK q \in net, r \in Responders : Emit(CreateEchoReply(q, r[1], r[2]))
    BY <1>2 DEF ForeignReply
  <2>2. CreateEchoReply(q, r[1], r[2]).src = r[1]
    BY DEF CreateEchoReply
  <2>3. QED
    BY <2>1, <2>2, ReplyIsNoError, EmitFit
<1>3. ~TruncateError /\ ~Damage
  BY DEF HealthyEnvironment, TruncateError, Damage
<1>4. QED
  BY <1>1, <1>2, <1>3 DEF NetStep

\* Servers answer with health data that decodes.
LEMMA ServerFit ==
  ASSUME ErrorsQuoted, RepliesFromServers, NEW s \in Servers, ServerStep(s)
  PROVE  ErrorsQuoted' /\ RepliesFromServers'
<1>1. CASE Reply(s)
  <2>1. PICK q \in net, a \in Homes[s] : Emit(CreateEchoReply(q, a, "health"))
    BY <1>1 DEF Reply
  <2>2. Decodes(CreateEchoReply(q, a, "health"))
    BY DEF Decodes, CreateEchoReply
  <2>3. QED
    BY <2>1, <2>2, ReplyIsNoError, EmitFit
<1>2. CASE Stop(s) \/ Start(s)
  BY <1>2 DEF Stop, Start, ErrorsQuoted, RepliesFromServers
<1>3. QED
  BY <1>1, <1>2 DEF ServerStep

\* Clients send requests only.
LEMMA ClientFit ==
  ASSUME ErrorsQuoted, RepliesFromServers, NEW c \in Clients,
         ClientStep(c) \/ Deadline(c) \/ Interrupt(c)
  PROVE  ErrorsQuoted' /\ RepliesFromServers'
<1>1. CASE SendEchoRequest(c)
  <2>1. PICK a \in Dns[Host(c)] :
          net' = Surviving(c, probe[c] + 1) \cup
            {CreateEchoRequest(Ident(c), (seq[c] + 1) % SeqMod, AddrOf[c], a, c, probe[c] + 1)}
    BY <1>1 DEF SendEchoRequest
  <2>2. PICK r : r = CreateEchoRequest(Ident(c), (seq[c] + 1) % SeqMod, AddrOf[c], a, c,
                                       probe[c] + 1)
    OBVIOUS
  <2>3. net' = Surviving(c, probe[c] + 1) \cup {r} /\ r.type = ECHO_REQUEST
    BY <2>1, <2>2 DEF CreateEchoRequest
  <2>4. net' \subseteq net \cup {r}
    BY <2>3, SurvivingSubset
  <2>5. r.type # ECHO_REPLY /\ ~IsIcmpErrorType(r)
    BY <2>3 DEF IsIcmpErrorType, ErrorTypes, ECHO_REQUEST, ECHO_REPLY,
       DESTINATION_UNREACHABLE, REDIRECT, TIME_EXCEEDED, PARAMETER_PROBLEM
  <2>6. QED
    BY <2>4, <2>5 DEF ErrorsQuoted, RepliesFromServers, IsIcmpErrorType
<1>2. CASE net' \subseteq net
  BY <1>2 DEF ErrorsQuoted, RepliesFromServers
<1>3. CASE SendTimesOut(c) \/ PingRaises(c)
  BY <1>2, <1>3, SurvivingSubset DEF SendTimesOut, PingRaises
<1>4. CASE UNCHANGED net
  BY <1>2, <1>4
<1>5. QED
  BY <1>1, <1>3, <1>4 DEF ClientStep, StopAtCount, StartRound, Interrupt, Resolve,
     ResolveFails, Deadline, SelectReady, RequestTimesOut, RecvError, Ignore,
     RaiseIcmpError, AcceptReply, ReceiveRaises, Register, RegisterRaises,
     InsertRow, InsertFails

\* What AwaitsItsHost and LeavesLoopOnlyWhenTold say of one client.
Awaits(c) == pc[c] \in {"await", "recv"} => addr[c] \in Dns[Host(c)]
NotRaised(c) == ended[c] # "exception"

\* Whatever a client can be handed while it waits, it ignores or takes for its answer.
LEMMA ReceiveDoesNotRaise ==
  ASSUME HealthyEnvironment, ClientTypeOK, ErrorsQuoted, RepliesFromServers,
         NEW c \in Clients, Awaits(c)
  PROVE  ~ReceiveRaises(c)
<1>1. SUFFICES ASSUME pc[c] = "recv", NEW p \in net,
                      (IsOurReply(c, p) /\ ~Decodes(p)) \/ IsBareError(p)
               PROVE  FALSE
  BY DEF ReceiveRaises, Visible
<1>2. CASE IsBareError(p)
  BY <1>1, <1>2 DEF IsBareError, ErrorsQuoted
<1>3. CASE IsOurReply(c, p) /\ ~Decodes(p)
  <2>1. PICK r \in Responders : p.src = r[1]
    BY <1>1, <1>3 DEF IsOurReply, RepliesFromServers
  <2>2. r[1] \in Dns[Host(c)]
    BY <1>1, <1>3, <2>1 DEF IsOurReply, Awaits
  <2>3. index[c] \in DOMAIN Hosts[c]
    BY ClientAssumption DEF ClientTypeOK
  <2>4. QED
    BY <2>2, <2>3 DEF HealthyEnvironment, Host
<1>4. QED
  BY <1>1, <1>2, <1>3

\* A step of the client does not raise, and its probe goes to its current host.
LEMMA ClientSurvives ==
  ASSUME HealthyEnvironment, ClientTypeOK, ErrorsQuoted, RepliesFromServers,
         NEW c \in Clients, Awaits(c), NotRaised(c),
         ClientStep(c) \/ Deadline(c) \/ Interrupt(c)
  PROVE  Awaits(c)' /\ NotRaised(c)'
<1>1. ~ReceiveRaises(c) /\ ~RegisterRaises(c) /\ ~PingRaises(c)
  BY ReceiveDoesNotRaise DEF HealthyEnvironment, RegisterRaises, PingRaises
<1>2. CASE StopAtCount(c) \/ Interrupt(c)
  <2>1. pc'[c] = "closed" /\ ended'[c] \in {"count", "interrupt"}
    BY <1>2 DEF StopAtCount, Interrupt, Close, Goto, ClientTypeOK
  <2>2. QED
    BY <2>1 DEF Awaits, NotRaised
<1>3. CASE StartRound(c) \/ Resolve(c)
  <2>1. pc'[c] \in {"host", "ping"} /\ ended'[c] = ended[c]
    BY <1>3 DEF StartRound, Resolve, Goto, ClientTypeOK
  <2>2. QED
    BY <2>1 DEF Awaits, NotRaised
<1>4. CASE ResolveFails(c) \/ InsertRow(c) \/ InsertFails(c)
  <2>1. NextHost(c) /\ ended'[c] = ended[c]
    BY <1>4 DEF ResolveFails, InsertRow, InsertFails
  <2>2. pc'[c] \in {"host", "round"}
    BY <2>1 DEF NextHost, Goto, ClientTypeOK
  <2>3. QED
    BY <2>1, <2>2 DEF Awaits, NotRaised
<1>5. CASE SendEchoRequest(c)
  <2>1. /\ pc'[c] = "await" /\ ended'[c] = ended[c] /\ index' = index
        /\ \E a \in Dns[Host(c)] : addr'[c] = a
    BY <1>5 DEF SendEchoRequest, Goto, ClientTypeOK
  <2>2. QED
    BY <2>1 DEF Awaits, NotRaised, Host
<1>6. CASE SendTimesOut(c)
  BY <1>6 DEF HealthyEnvironment, SendTimesOut
<1>7. CASE Deadline(c) \/ SelectReady(c) \/ RecvError(c) \/ Ignore(c)
  <2>1. /\ pc[c] \in {"await", "recv"} /\ pc'[c] \in {"await", "recv"}
        /\ ended'[c] = ended[c] /\ index' = index /\ addr' = addr
    BY <1>7 DEF Deadline, SelectReady, RecvError, Ignore, Goto, ClientTypeOK
  <2>2. QED
    BY <2>1 DEF Awaits, NotRaised, Host
<1>8. CASE RequestTimesOut(c) \/ RaiseIcmpError(c) \/ AcceptReply(c) \/ Register(c)
  <2>1. pc'[c] \in {"register", "insert"} /\ ended'[c] = ended[c]
    BY <1>8 DEF RequestTimesOut, RaiseIcmpError, AcceptReply, Register, Record, Goto,
       ClientTypeOK
  <2>2. QED
    BY <2>1 DEF Awaits, NotRaised
<1>9. QED
  BY <1>1, <1>2, <1>3, <1>4, <1>5, <1>6, <1>7, <1>8 DEF ClientStep

\* The other clients are where they were.
LEMMA OthersSurvive ==
  ASSUME ClientTypeOK, NEW c \in Clients,
         ClientStep(c) \/ Deadline(c) \/ Interrupt(c),
         NEW d \in Clients \ {c}, Awaits(d), NotRaised(d)
  PROVE  Awaits(d)' /\ NotRaised(d)'
<1>1. SameOf(d)
  BY OthersUnchanged
<1>2. QED
  BY <1>1 DEF SameOf, Awaits, NotRaised, Host

\* In a healthy environment nothing that arrives, in whatever order and however often,
\* ends the monitoring: not the packets of other clients and servers, not errors about
\* older probes, not the answers of other responders.  Run v_foreign_payload shows that
\* one other responder at a probed address is enough to end it.
THEOREM LoopSurvives == HealthyEnvironment => (Spec => []LeavesLoopOnlyWhenTold)
<1> SUFFICES ASSUME HealthyEnvironment PROVE Spec => []LeavesLoopOnlyWhenTold
  OBVIOUS
<1>1. Init => Undisturbed
  <2>1. SUFFICES ASSUME Init PROVE Undisturbed
    OBVIOUS
  <2>2. \A c \in Clients : pc[c] = "round" /\ ended[c] = "running"
    BY <2>1 DEF Init, ClientInit
  <2>3. net = {}
    BY <2>1 DEF Init, NetInit
  <2>4. QED
    BY <2>1, <2>2, <2>3, TypeInit DEF Undisturbed, ErrorsQuoted, RepliesFromServers,
       AwaitsItsHost, LeavesLoopOnlyWhenTold
<1>2. Undisturbed /\ TypeOK' /\ [Next]_vars => Undisturbed'
  <2>1. SUFFICES ASSUME Undisturbed, TypeOK', [Next]_vars PROVE Undisturbed'
    OBVIOUS
  <2>2. /\ NetTypeOK /\ ClientTypeOK /\ ErrorsQuoted /\ RepliesFromServers
        /\ \A c \in Clients : Awaits(c) /\ NotRaised(c)
    BY <2>1 DEF Undisturbed, TypeOK, AwaitsItsHost, LeavesLoopOnlyWhenTold, Awaits, NotRaised
  <2>3. ErrorsQuoted' /\ RepliesFromServers'
    <3>1. CASE UNCHANGED net
      BY <2>2, <3>1 DEF ErrorsQuoted, RepliesFromServers
    <3>2. QED
      BY <2>1, <2>2, <3>1, NetStepFit, ServerFit, ClientFit DEF Next, vars
  <2>4. \A c \in Clients : Awaits(c)' /\ NotRaised(c)'
    <3>1. ASSUME NEW c \in Clients, ClientStep(c) \/ Deadline(c) \/ Interrupt(c)
          PROVE  \A d \in Clients : Awaits(d)' /\ NotRaised(d)'
      <4>1. Awaits(c)' /\ NotRaised(c)'
        BY <2>2, <3>1, ClientSurvives
      <4>2. ASSUME NEW d \in Clients \ {c} PROVE Awaits(d)' /\ NotRaised(d)'
        BY <2>2, <3>1, OthersSurvive
      <4>3. QED
        BY <4>1, <4>2
    <3>2. ASSUME UNCHANGED clientVars
          PROVE  \A d \in Clients : Awaits(d)' /\ NotRaised(d)'
      BY <2>2, <3>2 DEF clientVars, Awaits, NotRaised, Host
    <3>3. QED
      BY <2>1, <3>1, <3>2 DEF Next, vars
  <2>5. QED
    BY <2>1, <2>3, <2>4 DEF Undisturbed, AwaitsItsHost, LeavesLoopOnlyWhenTold, Awaits,
       NotRaised
<1>3. Undisturbed => LeavesLoopOnlyWhenTold
  BY DEF Undisturbed
<1>4. QED
  BY <1>1, <1>2, <1>3, TypeCorrect, PTL DEF Spec
==============================================================================
