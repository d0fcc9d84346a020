----------------------------- MODULE ICMPServer -----------------------------
(***************************************************************************)
(* ICMPServer.serve_forever: answer every intact echo request that reaches  *)
(* a raw socket of this host with the host's health data.  The handler      *)
(* keeps no state between packets, and touches shared state (the network)   *)
(* only when it sends, so one action models it from recvfrom to sendto.  A  *)
(* packet it ignores changes nothing and is no step of the model.           *)
(***************************************************************************)
EXTENDS Network

CONSTANTS
    Servers,  \* the server processes
    Homes     \* Homes[s]: the addresses server s hears on and sends from; one
              \* address when --bind is given, all of the host's otherwise

ASSUME ServerAssumption == Homes \in [Servers -> SUBSET Addrs]

VARIABLE serving  \* the servers that are in serve_forever

ServerTypeOK == serving \subseteq Servers

ServerInit == serving = Servers

-----------------------------------------------------------------------------
\* The raw socket of s hands it every ICMP packet for its addresses.
Hears(s, p) == p.dst \in Homes[s]

\* Mutant of Reply: any echo message is answered.
ReplyToEchoes(s) ==
    \E q \in net, a \in Homes[s] :
      /\ s \in serving
      /\ Hears(s, q)
      /\ VerifyChecksum(q)
      /\ IsEcho(q)
      /\ Emit(CreateEchoReply(q, a, "health"))
      /\ UNCHANGED serving

\* Mutant of Reply: the request is answered before its checksum is verified.
ReplyUnverified(s) ==
    \E q \in net, a \in Homes[s] :
      /\ s \in serving
      /\ Hears(s, q)
      /\ q.type = ECHO_REQUEST
      /\ Emit(CreateEchoReply(q, a, "health"))
      /\ UNCHANGED serving

\* recvfrom, strip, verify_checksum, parse, the type test, get_basic_health,
\* encode_health_data, create_echo_reply and sendto.  An OSError from sendto is
\* suppressed, which is a reply that nobody receives.  The source address of the
\* reply is the kernel's choice.
Reply(s) ==
    \E q \in net, a \in Homes[s] :
      /\ s \in serving
      /\ Hears(s, q)
      /\ VerifyChecksum(q)
      /\ q.type = ECHO_REQUEST
      /\ Emit(CreateEchoReply(q, a, "health"))
      /\ UNCHANGED serving

\* Ctrl-C, a kill, or an exception of psutil leaves the loop; finally closes.
Stop(s) ==
    /\ "stop" \in Faults
    /\ s \in serving
    /\ serving' = serving \ {s}
    /\ UNCHANGED net

\* Somebody starts the program again: main() builds a new ICMPServer.
Start(s) ==
    /\ s \notin serving
    /\ serving' = serving \cup {s}
    /\ UNCHANGED net

ServerStep(s) == Reply(s) \/ Stop(s) \/ Start(s)
=============================================================================
