----------------------------- MODULE LedgerProofs -----------------------------
(***************************************************************************)
(* The books of the monitoring loop balance: OneRowPerProbe and             *)
(* ProbesAccountedFor for every instance, from the invariant Ledger.  And   *)
(* the loop implements ProbeLedger: under the mapping of module Heartbeat   *)
(* every step of a client opens, files or loses a probe or stops the        *)
(* client, or is a stutter, and every other step is a stutter.  And it      *)
(* never goes back.                                                         *)
(***************************************************************************)
EXTENDS HeartbeatProofs, SequenceTheorems

\* The variables of client c that Ledger reads.
SameBooks(c) ==
    /\ pc'[c] = pc[c] /\ ended'[c] = ended[c]
    /\ round'[c] = round[c] /\ index'[c] = index[c]
    /\ probe'[c] = probe[c] /\ skipped'[c] = skipped[c] /\ dropped'[c] = dropped[c]
    /\ pending'[c] = pending[c] /\ rows'[c] = rows[c]

\* What Ledger says of one client.
Books(c) == InOrder(c) /\ Behind(c) /\ Balanced(c)

-----------------------------------------------------------------------------
(* Arithmetic and types *)

\* One more round of h hosts.
LEMMA OneMoreRound ==
  ASSUME NEW r \in Nat, NEW h \in Nat
  PROVE  r * h \in Nat /\ (r + 1) * h = r * h + h
OBVIOUS

\* One more probe moves the balance from before host i to host i, where base stands
\* for the hosts of the rounds that are over.
LEMMA OneMoreProbe ==
  ASSUME NEW p \in Nat, NEW s \in Nat, NEW base \in Nat, NEW i \in Nat,
         p + s = base + (i - 1)
  PROVE  (p + 1) + s = base + i
OBVIOUS

\* The types of the counters of one client.
LEMMA CounterTypes ==
  ASSUME ClientTypeOK, NEW c \in Clients
  PROVE  /\ pc[c] \in Locations
         /\ round[c] \in Nat /\ index[c] \in Nat /\ probe[c] \in Nat
         /\ skipped[c] \in Nat /\ dropped[c] \in Nat
         /\ rows[c] \in Seq(Row) /\ Len(rows[c]) \in Nat
         /\ Len(Hosts[c]) \in Nat
         /\ 1 <= index[c] /\ index[c] <= Len(Hosts[c])
         /\ round[c] * Len(Hosts[c]) \in Nat
<1>1. /\ pc[c] \in Locations
      /\ round[c] \in Nat /\ index[c] \in Nat /\ probe[c] \in Nat
      /\ skipped[c] \in Nat /\ dropped[c] \in Nat /\ rows[c] \in Seq(Row)
  BY DEF ClientTypeOK
<1>2. Len(rows[c]) \in Nat /\ Len(Hosts[c]) \in Nat
  BY <1>1, ClientAssumption
<1>3. 1 <= index[c] /\ index[c] <= Len(Hosts[c])
  BY <1>2 DEF ClientTypeOK
<1>4. round[c] * Len(Hosts[c]) \in Nat
  BY <1>1, <1>2, OneMoreRound
<1>5. QED
  BY <1>1, <1>2, <1>3, <1>4

\* The probe a row reports is a number.
LEMMA RowProbeType ==
  ASSUME ClientTypeOK, NEW c \in Clients, NEW i \in DOMAIN rows[c]
  PROVE  rows[c][i].probe \in Nat
<1>1. rows[c] \in Seq(Row)
  BY DEF ClientTypeOK
<1>2. rows[c][i] \in Row
  BY <1>1
<1>3. QED
  BY <1>2 DEF Row

-----------------------------------------------------------------------------
(* Steps that leave a client's books alone *)

\* A client whose variables do not change has the books it had.
LEMMA SameBooksKept ==
  ASSUME NEW c \in Clients, Books(c), SameBooks(c)
  PROVE  Books(c)'
BY DEF Books, SameBooks, InOrder, Behind, Balanced, Unsettled, Settled, Position

\* A step of client c leaves the books of another client d alone.
LEMMA OthersUntouched ==
  ASSUME ClientTypeOK, NEW c \in Clients,
         ClientStep(c) \/ Deadline(c) \/ Interrupt(c),
         NEW d \in Clients \ {c}
  PROVE  SameBooks(d)
<1> USE DEF ClientTypeOK
<1>1. CASE StopAtCount(c) \/ Interrupt(c) \/ StartRound(c)
  BY <1>1 DEF StopAtCount, Interrupt, StartRound, Close, Goto, SameBooks
<1>2. CASE Resolve(c) \/ Deadline(c)
  BY <1>2 DEF Resolve, Deadline, Goto, SameBooks
<1>3. CASE ResolveFails(c)
  BY <1>3 DEF ResolveFails, NextHost, Goto, SameBooks
<1>4. CASE SendEchoRequest(c) \/ PingRaises(c)
  <2>1. CASE SendEchoRequest(c)
    BY <2>1 DEF SendEchoRequest, NextSeq, Goto, SameBooks
  <2>2. CASE PingRaises(c)
    BY <2>2 DEF PingRaises, NextSeq, Close, Goto, SameBooks
  <2>3. QED
    BY <1>4, <2>1, <2>2
<1>5. CASE SendTimesOut(c)
  BY <1>5 DEF SendTimesOut, NextSeq, Record, Goto, SameBooks
<1>6. CASE SelectReady(c) \/ RecvError(c) \/ Ignore(c) \/ ReceiveRaises(c)
  BY <1>6 DEF SelectReady, RecvError, Ignore, ReceiveRaises, Close, Goto, SameBooks
<1>7. CASE RequestTimesOut(c) \/ RaiseIcmpError(c) \/ AcceptReply(c)
  BY <1>7 DEF RequestTimesOut, RaiseIcmpError, AcceptReply, Record, Goto, SameBooks
<1>8. CASE Register(c) \/ RegisterRaises(c)
  BY <1>8 DEF Register, RegisterRaises, Close, Goto, SameBooks
<1>9. CASE InsertRow(c)
  BY <1>9 DEF InsertRow, NextHost, Goto, SameBooks
<1>10. CASE InsertFails(c)
  BY <1>10 DEF InsertFails, NextHost, Goto, SameBooks
<1>11. QED
  BY <1>1, <1>2, <1>3, <1>4, <1>5, <1>6, <1>7, <1>8, <1>9, <1>10 DEF ClientStep

-----------------------------------------------------------------------------
(* Steps of the client itself *)

\* Going to the next host moves the position past the current one, and a new
\* round is one that the count allows, or the end.
LEMMA NextHostPosition ==
  ASSUME ClientTypeOK, NEW c \in Clients, NextHost(c), Count # None => round[c] < Count
  PROVE  /\ pc'[c] # "closed" /\ ~Unsettled(c)'
         /\ pc'[c] \notin {"register", "insert"}
         /\ Position(c)' = round[c] * Len(Hosts[c]) + index[c]
         /\ Count # None =>
              IF pc'[c] = "round" THEN round'[c] <= Count ELSE round'[c] < Count
<1>1. /\ round[c] \in Nat /\ index[c] \in Nat /\ Len(Hosts[c]) \in Nat
      /\ 1 <= index[c] /\ index[c] <= Len(Hosts[c])
      /\ round[c] * Len(Hosts[c]) \in Nat
  BY CounterTypes
<1>2. CASE index[c] < Len(Hosts[c])
  <2>1. pc'[c] = "host" /\ index'[c] = index[c] + 1 /\ round'[c] = round[c]
    BY <1>2 DEF NextHost, Goto, ClientTypeOK
  <2>2. ~Unsettled(c)'
    BY <2>1 DEF Unsettled
  <2>3. Position(c)' = round[c] * Len(Hosts[c]) + ((index[c] + 1) - 1)
    BY <2>1, <2>2 DEF Position
  <2>4. QED
    BY <1>1, <2>1, <2>2, <2>3
<1>3. CASE ~(index[c] < Len(Hosts[c]))
  <2>1. pc'[c] = "round" /\ round'[c] = round[c] + 1
    BY <1>3 DEF NextHost, Goto, ClientTypeOK
  <2>2. ~Unsettled(c)'
    BY <2>1 DEF Unsettled
  <2>3. Position(c)' = (round[c] + 1) * Len(Hosts[c]) + 0
    BY <2>1 DEF Position
  <2>4. index[c] = Len(Hosts[c])
    BY <1>1, <1>3
  <2>5. (round[c] + 1) * Len(Hosts[c]) = round[c] * Len(Hosts[c]) + Len(Hosts[c])
    BY <1>1, OneMoreRound
  <2>6. Position(c)' = round[c] * Len(Hosts[c]) + index[c]
    BY <1>1, <2>3, <2>4, <2>5
  <2>7. Count # None => round'[c] <= Count
    BY <1>1, <2>1, ClientAssumption
  <2>8. QED
    BY <2>1, <2>2, <2>6, <2>7
<1>4. QED
  BY <1>2, <1>3

\* Leaving the loop in the middle cuts at most the current probe short.
LEMMA CloseKeepsBooks ==
  ASSUME ClientTypeOK, NEW c \in Clients, Books(c), pc[c] # "closed",
         pc'[c] = "closed", ended'[c] \in {"interrupt", "exception"},
         rows'[c] = rows[c], dropped'[c] = dropped[c],
         \/ probe'[c] = probe[c]
         \/ probe'[c] = probe[c] + 1 /\ ~Unsettled(c)
  PROVE  Books(c)'
<1>1. /\ probe[c] \in Nat /\ dropped[c] \in Nat /\ Len(rows[c]) \in Nat
      /\ rows[c] \in Seq(Row)
  BY CounterTypes
<1>2. InOrder(c)'
  BY DEF Books, InOrder
<1>3. Behind(c)'
  <2>1. \A i \in DOMAIN rows[c] : rows[c][i].probe \in Nat
    BY RowProbeType
  <2>2. QED
    BY <1>1, <2>1 DEF Books, Behind, Unsettled
<1>4. Balanced(c)'
  <2>1. probe[c] = Settled(c) + (IF Unsettled(c) THEN 1 ELSE 0)
    BY DEF Books, Balanced
  <2>2. Settled(c)' = Settled(c) /\ Settled(c) \in Nat
    BY <1>1 DEF Settled
  <2>3. probe'[c] - Settled(c)' \in {0, 1}
    BY <1>1, <2>1, <2>2
  <2>4. QED
    BY <2>3 DEF Balanced
<1>5. QED
  BY <1>2, <1>3, <1>4 DEF Books

\* A step inside an iteration, or the wait for a probe, moves no counter.
LEMMA QuietStepKeepsBooks ==
  ASSUME ClientTypeOK, NEW c \in Clients, Books(c), pc[c] # "closed", pc[c] # "round",
         pc'[c] \notin {"closed", "round"},
         Unsettled(c)' <=> Unsettled(c),
         pc'[c] \in {"register", "insert"} => pending'[c].probe = probe[c],
         round'[c] = round[c], index'[c] = index[c], probe'[c] = probe[c],
         rows'[c] = rows[c], skipped'[c] = skipped[c], dropped'[c] = dropped[c],
         ended'[c] = ended[c]
  PROVE  Books(c)'
<1>1. InOrder(c)'
  BY DEF Books, InOrder
<1>2. Behind(c)'
  BY DEF Books, Behind
<1>3. Settled(c)' = Settled(c)
  BY DEF Settled
<1>4. Position(c)' = Position(c)
  BY DEF Position
<1>5. Balanced(c)'
  BY <1>3, <1>4 DEF Books, Balanced
<1>6. QED
  BY <1>1, <1>2, <1>5 DEF Books

\* ping_once begins the next probe, which no row reports yet.
LEMMA BeginKeepsBooks ==
  ASSUME ClientTypeOK, NEW c \in Clients, Books(c), pc[c] = "ping", NextSeq(c),
         pc'[c] \in {"await", "register"},
         pc'[c] = "register" => pending'[c].probe = probe[c] + 1,
         round'[c] = round[c], index'[c] = index[c],
         rows'[c] = rows[c], skipped'[c] = skipped[c], dropped'[c] = dropped[c],
         ended'[c] = ended[c]
  PROVE  Books(c)'
<1>1. /\ probe[c] \in Nat /\ skipped[c] \in Nat /\ index[c] \in Nat
      /\ dropped[c] \in Nat /\ Len(rows[c]) \in Nat
      /\ round[c] * Len(Hosts[c]) \in Nat
  BY CounterTypes
<1>2. probe'[c] = probe[c] + 1
  BY DEF NextSeq, ClientTypeOK
<1>3. ~Unsettled(c) /\ Unsettled(c)'
  BY DEF Unsettled
<1>4. InOrder(c)'
  BY DEF Books, InOrder
<1>5. Behind(c)'
  <2>1. \A i \in DOMAIN rows[c] : rows[c][i].probe \in Nat
    BY RowProbeType
  <2>2. \A i \in DOMAIN rows[c] : rows[c][i].probe <= probe[c]
    BY DEF Books, Behind
  <2>3. \A i \in DOMAIN rows[c] :
          rows[c][i].probe <= probe[c] + 1 /\ rows[c][i].probe # probe[c] + 1
    BY <1>1, <2>1, <2>2
  <2>4. QED
    BY <1>2, <2>3 DEF Behind
<1>6. Balanced(c)'
  <2>1. /\ ended[c] = "running"
        /\ probe[c] = Settled(c) + 0
        /\ probe[c] + skipped[c] = round[c] * Len(Hosts[c]) + (index[c] - 1)
        /\ Count # None => round[c] < Count
    BY <1>3 DEF Books, Balanced, Position
  <2>2. Settled(c)' = Settled(c) /\ Settled(c) \in Nat
    BY <1>1 DEF Settled
  <2>3. probe'[c] = Settled(c)' + 1
    BY <1>1, <1>2, <2>1, <2>2
  <2>4. Position(c)' = round[c] * Len(Hosts[c]) + index[c]
    BY <1>3 DEF Position
  <2>5. probe'[c] + skipped'[c] = Position(c)'
    <3>1. (probe[c] + 1) + skipped[c] = round[c] * Len(Hosts[c]) + index[c]
      BY <1>1, <2>1, OneMoreProbe
    <3>2. QED
      BY <1>2, <2>4, <3>1, Zenon
  <2>6. QED
    BY <1>3, <2>1, <2>3, <2>5, SMTT(20) DEF Balanced
<1>7. QED
  BY <1>4, <1>5, <1>6 DEF Books

\* Going to the next host keeps the books if the current one was skipped, or its
\* probe written or lost: exactly one of the three counters has grown.
LEMMA NextHostKeepsBalance ==
  ASSUME ClientTypeOK, NEW c \in Clients, Books(c), NextHost(c), ended'[c] = ended[c],
         probe'[c] = probe[c],
         \/ /\ pc[c] = "host" /\ skipped'[c] = skipped[c] + 1
            /\ Settled(c)' = Settled(c)
         \/ /\ pc[c] = "insert" /\ skipped'[c] = skipped[c]
            /\ Settled(c)' = Settled(c) + 1
  PROVE  Balanced(c)'
<1>1. /\ probe[c] \in Nat /\ skipped[c] \in Nat /\ index[c] \in Nat
      /\ dropped[c] \in Nat /\ Len(rows[c]) \in Nat
      /\ round[c] * Len(Hosts[c]) \in Nat
  BY CounterTypes
<1>2. Settled(c) \in Nat
  BY <1>1 DEF Settled
<1>3. /\ ended[c] = "running"
      /\ probe[c] = Settled(c) + (IF Unsettled(c) THEN 1 ELSE 0)
      /\ probe[c] + skipped[c] =
           round[c] * Len(Hosts[c]) + (IF Unsettled(c) THEN index[c] ELSE index[c] - 1)
      /\ Count # None => round[c] < Count
  BY DEF Books, Balanced, Position
<1>4. /\ pc'[c] # "closed" /\ ~Unsettled(c)'
      /\ Position(c)' = round[c] * Len(Hosts[c]) + index[c]
      /\ Count # None =>
           IF pc'[c] = "round" THEN round'[c] <= Count ELSE round'[c] < Count
  BY <1>3, NextHostPosition
<1>5. probe'[c] = Settled(c)' /\ probe'[c] + skipped'[c] = Position(c)'
  BY <1>1, <1>2, <1>3, <1>4 DEF Unsettled
<1>6. QED
  BY <1>1, <1>2, <1>3, <1>4, <1>5, SMTT(20) DEF Balanced

-----------------------------------------------------------------------------
(* Every step *)

\* Each step of a client keeps its own books.
LEMMA ClientStepKeepsBooks ==
  ASSUME ClientTypeOK, NEW c \in Clients, Books(c),
         ClientStep(c) \/ Deadline(c) \/ Interrupt(c)
  PROVE  Books(c)'
<1>1. CASE StopAtCount(c)
  <2>1. /\ pc[c] = "round" /\ Count # None /\ round[c] >= Count
        /\ pc'[c] = "closed" /\ ended'[c] = "count"
        /\ probe'[c] = probe[c] /\ skipped'[c] = skipped[c] /\ pending' = pending
        /\ rows'[c] = rows[c] /\ dropped'[c] = dropped[c]
    BY <1>1 DEF StopAtCount, CountReached, Close, Goto, ClientTypeOK
  <2>2. round[c] \in Nat /\ Count \in Nat /\ probe[c] \in Nat
        /\ Settled(c) \in Nat /\ round[c] * Len(Hosts[c]) \in Nat
    BY <2>1, CounterTypes, ClientAssumption DEF Settled
  <2>3. /\ probe[c] = Settled(c) + 0
        /\ probe[c] + skipped[c] = round[c] * Len(Hosts[c]) + 0
        /\ round[c] <= Count
    BY <2>1 DEF Books, Balanced, Position, Unsettled
  <2>4. round[c] = Count
    BY <2>1, <2>2, <2>3
  <2>5. Settled(c)' = Settled(c)
    BY <2>1 DEF Settled
  <2>6. Balanced(c)'
    BY <2>1, <2>2, <2>3, <2>4, <2>5 DEF Balanced
  <2>7. InOrder(c)' /\ Behind(c)'
    BY <2>1 DEF Books, InOrder, Behind, Unsettled
  <2>8. QED
    BY <2>6, <2>7 DEF Books
<1>2. CASE StartRound(c)
  <2>1. /\ pc[c] = "round" /\ pc'[c] = "host" /\ index'[c] = 1 /\ ended'[c] = ended[c]
        /\ round'[c] = round[c]
        /\ Count # None => ~(round[c] >= Count)
        /\ probe'[c] = probe[c] /\ skipped'[c] = skipped[c]
        /\ rows'[c] = rows[c] /\ dropped'[c] = dropped[c]
    BY <1>2 DEF StartRound, CountReached, Goto, ClientTypeOK
  <2>2. round[c] \in Nat /\ round[c] * Len(Hosts[c]) \in Nat
    BY CounterTypes
  <2>3. ~Unsettled(c) /\ ~Unsettled(c)'
    BY <2>1 DEF Unsettled
  <2>4. Settled(c)' = Settled(c)
    BY <2>1 DEF Settled
  <2>5. Position(c)' = Position(c)
    <3>1. Position(c) = round[c] * Len(Hosts[c]) + 0
      BY <2>1 DEF Position
    <3>2. Position(c)' = round'[c] * Len(Hosts[c]) + (index'[c] - 1)
      BY <2>1, <2>3 DEF Position
    <3>3. index'[c] - 1 = 0
      BY <2>1
    <3>4. QED
      BY <2>1, <2>2, <3>1, <3>2, <3>3
  <2>6. Balanced(c)'
    <3>1. Count # None => round'[c] < Count
      <4>1. Count # None => Count \in Nat
        BY ClientAssumption
      <4>2. QED
        BY <2>1, <2>2, <4>1
    <3>2. /\ ended[c] = "running" /\ probe[c] = Settled(c) + 0
          /\ probe[c] + skipped[c] = Position(c)
      BY <2>1, <2>3 DEF Books, Balanced
    <3>3. QED
      BY <2>1, <2>3, <2>4, <2>5, <3>1, <3>2 DEF Balanced
  <2>7. InOrder(c)' /\ Behind(c)'
    BY <2>1, <2>3 DEF Books, InOrder, Behind
  <2>8. QED
    BY <2>6, <2>7 DEF Books
<1>3. CASE Interrupt(c) \/ ReceiveRaises(c) \/ RegisterRaises(c)
  <2>1. /\ pc[c] # "closed" /\ pc'[c] = "closed"
        /\ ended'[c] \in {"interrupt", "exception"}
        /\ rows'[c] = rows[c] /\ dropped'[c] = dropped[c] /\ probe'[c] = probe[c]
    BY <1>3 DEF Interrupt, ReceiveRaises, RegisterRaises, Close, Goto, ClientTypeOK
  <2>2. QED
    BY <2>1, CloseKeepsBooks
<1>4. CASE PingRaises(c)
  <2>1. /\ pc[c] = "ping" /\ pc'[c] = "closed"
        /\ ended'[c] \in {"interrupt", "exception"}
        /\ rows'[c] = rows[c] /\ dropped'[c] = dropped[c] /\ probe'[c] = probe[c] + 1
    BY <1>4 DEF PingRaises, NextSeq, Close, Goto, ClientTypeOK
  <2>2. QED
    BY <2>1, CloseKeepsBooks DEF Unsettled
<1>5. CASE SendEchoRequest(c)
  <2>1. /\ pc[c] = "ping" /\ pc'[c] = "await" /\ NextSeq(c)
        /\ round'[c] = round[c] /\ index'[c] = index[c] /\ rows'[c] = rows[c]
        /\ skipped'[c] = skipped[c] /\ dropped'[c] = dropped[c] /\ ended'[c] = ended[c]
    BY <1>5 DEF SendEchoRequest, Goto, ClientTypeOK
  <2>2. QED
    BY <2>1, BeginKeepsBooks
<1>6. CASE SendTimesOut(c)
  <2>1. /\ pc[c] = "ping" /\ NextSeq(c)
        /\ round'[c] = round[c] /\ index'[c] = index[c] /\ rows'[c] = rows[c]
        /\ skipped'[c] = skipped[c] /\ dropped'[c] = dropped[c] /\ ended'[c] = ended[c]
    BY <1>6 DEF SendTimesOut
  <2>2. pc'[c] = "register" /\ pending'[c].probe = probe[c] + 1
    BY <1>6 DEF SendTimesOut, Record, Goto, ClientTypeOK
  <2>3. QED
    BY <2>1, <2>2, BeginKeepsBooks
<1>7. CASE Resolve(c) \/ Deadline(c)
  <2>1. /\ pc[c] \notin {"closed", "round", "register", "insert"}
        /\ pc'[c] \notin {"closed", "round", "register", "insert"}
        /\ Unsettled(c)' <=> Unsettled(c)
        /\ round'[c] = round[c] /\ index'[c] = index[c] /\ probe'[c] = probe[c]
        /\ rows'[c] = rows[c] /\ skipped'[c] = skipped[c] /\ dropped'[c] = dropped[c]
        /\ ended'[c] = ended[c]
    BY <1>7 DEF Resolve, Deadline, Goto, Unsettled, ClientTypeOK
  <2>2. QED
    BY <2>1, QuietStepKeepsBooks
<1>8. CASE SelectReady(c) \/ RecvError(c) \/ Ignore(c)
  <2>1. /\ pc[c] \in {"await", "recv"} /\ pc'[c] \in {"await", "recv"}
        /\ round'[c] = round[c] /\ index'[c] = index[c] /\ probe'[c] = probe[c]
        /\ rows'[c] = rows[c] /\ skipped'[c] = skipped[c] /\ dropped'[c] = dropped[c]
        /\ ended'[c] = ended[c]
    BY <1>8 DEF SelectReady, RecvError, Ignore, Goto, ClientTypeOK
  <2>2. QED
    BY <2>1, QuietStepKeepsBooks DEF Unsettled
<1>9. CASE RequestTimesOut(c) \/ RaiseIcmpError(c) \/ AcceptReply(c)
  <2>1. /\ pc[c] \in {"await", "recv"} /\ pc'[c] = "register"
        /\ pending'[c].probe = probe[c]
        /\ round'[c] = round[c] /\ index'[c] = index[c] /\ probe'[c] = probe[c]
        /\ rows'[c] = rows[c] /\ skipped'[c] = skipped[c] /\ dropped'[c] = dropped[c]
        /\ ended'[c] = ended[c]
    BY <1>9 DEF RequestTimesOut, RaiseIcmpError, AcceptReply, Record, Goto, ClientTypeOK
  <2>2. QED
    BY <2>1, QuietStepKeepsBooks DEF Unsettled
<1>10. CASE Register(c)
  <2>1. /\ pc[c] = "register" /\ pc'[c] = "insert" /\ pending'[c] = pending[c]
        /\ round'[c] = round[c] /\ index'[c] = index[c] /\ probe'[c] = probe[c]
        /\ rows'[c] = rows[c] /\ skipped'[c] = skipped[c] /\ dropped'[c] = dropped[c]
        /\ ended'[c] = ended[c]
    BY <1>10 DEF Register, Goto, ClientTypeOK
  <2>2. pending[c].probe = probe[c]
    BY <2>1 DEF Books, Behind
  <2>3. QED
    BY <2>1, <2>2, QuietStepKeepsBooks DEF Unsettled
<1>11. CASE ResolveFails(c)
  <2>1. /\ pc[c] = "host" /\ NextHost(c) /\ ended'[c] = ended[c] /\ probe'[c] = probe[c]
        /\ rows'[c] = rows[c] /\ dropped'[c] = dropped[c]
        /\ skipped'[c] = skipped[c] + 1
    BY <1>11 DEF ResolveFails, ClientTypeOK
  <2>2. Settled(c)' = Settled(c)
    BY <2>1 DEF Settled
  <2>3. Balanced(c)'
    BY <2>1, <2>2, NextHostKeepsBalance
  <2>4. pc'[c] \notin {"await", "recv", "register", "insert"}
    BY <2>1 DEF NextHost, Goto, ClientTypeOK
  <2>5. InOrder(c)' /\ Behind(c)'
    BY <2>1, <2>4 DEF Books, InOrder, Behind, Unsettled
  <2>6. QED
    BY <2>3, <2>5 DEF Books
<1>12. CASE InsertRow(c)
  <2>1. /\ pc[c] = "insert" /\ NextHost(c) /\ ended'[c] = ended[c] /\ probe'[c] = probe[c]
        /\ rows'[c] = Append(rows[c], pending[c]) /\ dropped'[c] = dropped[c]
        /\ skipped'[c] = skipped[c]
    BY <1>12 DEF InsertRow, ClientTypeOK
  <2>2. rows[c] \in Seq(Row) /\ pending[c] \in Row /\ dropped[c] \in Nat /\ probe[c] \in Nat
    BY <2>1 DEF ClientTypeOK
  <2>3. /\ Len(rows[c]) \in Nat /\ Len(rows'[c]) = Len(rows[c]) + 1
        /\ rows'[c][Len(rows[c]) + 1] = pending[c]
        /\ \A i \in 1 .. Len(rows[c]) : rows'[c][i] = rows[c][i]
        /\ DOMAIN rows[c] = 1 .. Len(rows[c])
        /\ DOMAIN rows'[c] = 1 .. Len(rows[c]) + 1
    BY <2>1, <2>2
  <2>4. Settled(c)' = Settled(c) + 1
    BY <2>1, <2>2, <2>3 DEF Settled
  <2>5. Balanced(c)'
    BY <2>1, <2>4, NextHostKeepsBalance
  <2>6. pc'[c] \notin {"await", "recv", "register", "insert"}
    BY <2>1 DEF NextHost, Goto, ClientTypeOK
  <2>7. pending[c].probe = probe[c]
    BY <2>1 DEF Books, Behind
  <2>8. \A i \in 1 .. Len(rows[c]) : rows[c][i].probe \in Nat /\ rows[c][i].probe < probe[c]
    <3>1. \A i \in DOMAIN rows[c] : rows[c][i].probe \in Nat
      BY RowProbeType
    <3>2. \A i \in DOMAIN rows[c] :
            rows[c][i].probe <= probe[c] /\ rows[c][i].probe # probe[c]
      BY <2>1 DEF Books, Behind, Unsettled
    <3>3. QED
      BY <2>2, <2>3, <3>1, <3>2
  <2>9. \A i \in DOMAIN rows'[c] : rows'[c][i].probe <= probe[c]
    BY <2>2, <2>3, <2>7, <2>8, SMTT(20)
  <2>10. InOrder(c)'
    <3>1. SUFFICES ASSUME NEW i \in 1 .. Len(rows[c]) + 1, NEW j \in 1 .. Len(rows[c]) + 1,
                          i < j
                   PROVE  rows'[c][i].probe < rows'[c][j].probe
      BY <2>3 DEF InOrder
    <3>2. i \in 1 .. Len(rows[c])
      BY <2>3, <3>1
    <3>3. CASE j = Len(rows[c]) + 1
      BY <2>3, <2>7, <2>8, <3>2, <3>3
    <3>4. CASE j \in 1 .. Len(rows[c])
      BY <2>3, <3>1, <3>2, <3>4 DEF Books, InOrder
    <3>5. QED
      BY <2>3, <3>3, <3>4
  <2>11. Behind(c)'
    BY <2>1, <2>6, <2>9 DEF Behind, Unsettled
  <2>12. QED
    BY <2>5, <2>10, <2>11 DEF Books
<1>13. CASE InsertFails(c)
  <2>1. /\ pc[c] = "insert" /\ NextHost(c) /\ ended'[c] = ended[c] /\ probe'[c] = probe[c]
        /\ rows'[c] = rows[c] /\ dropped'[c] = dropped[c] + 1
        /\ skipped'[c] = skipped[c]
    BY <1>13 DEF InsertFails, ClientTypeOK
  <2>2. Settled(c)' = Settled(c) + 1
    <3>1. Len(rows[c]) \in Nat /\ dropped[c] \in Nat
      BY CounterTypes
    <3>2. QED
      BY <2>1, <3>1 DEF Settled
  <2>3. Balanced(c)'
    BY <2>1, <2>2, NextHostKeepsBalance
  <2>4. pc'[c] \notin {"await", "recv", "register", "insert"}
    BY <2>1 DEF NextHost, Goto, ClientTypeOK
  <2>5. InOrder(c)' /\ Behind(c)'
    BY <2>1, <2>4 DEF Books, InOrder, Behind, Unsettled
  <2>6. QED
    BY <2>3, <2>5 DEF Books
<1>14. QED
  BY <1>1, <1>2, <1>3, <1>4, <1>5, <1>6, <1>7, <1>8, <1>9, <1>10, <1>11, <1>12, <1>13
  DEF ClientStep

\* Ledger is an invariant.
LEMMA LedgerInvariant == Spec => []Ledger
<1>1. Init => Ledger
  <2>1. SUFFICES ASSUME Init PROVE Ledger
    OBVIOUS
  <2>2. TypeOK
    BY <2>1, TypeInit
  <2>3. ASSUME NEW c \in Clients PROVE Books(c)
    <3>1. /\ pc[c] = "round" /\ round[c] = 0 /\ probe[c] = 0 /\ skipped[c] = 0
          /\ dropped[c] = 0 /\ rows[c] = << >> /\ ended[c] = "running"
      BY <2>1 DEF Init, ClientInit
    <3>2. Len(rows[c]) = 0 /\ DOMAIN rows[c] = {} /\ ~Unsettled(c)
      BY <3>1 DEF Unsettled
    <3>3. InOrder(c) /\ Behind(c)
      BY <3>1, <3>2 DEF InOrder, Behind
    <3>4. 0 * Len(Hosts[c]) = 0
      BY ClientAssumption
    <3>5. Settled(c) = 0 /\ Position(c) = 0
      BY <3>1, <3>2, <3>4 DEF Settled, Position
    <3>6. Count # None => 0 <= Count
      BY ClientAssumption
    <3>7. Balanced(c)
      BY <3>1, <3>2, <3>5, <3>6 DEF Balanced
    <3>8. QED
      BY <3>3, <3>7 DEF Books
  <2>4. QED
    BY <2>2, <2>3 DEF Ledger, Books
<1>2. Ledger /\ TypeOK' /\ [Next]_vars => Ledger'
  <2>1. SUFFICES ASSUME Ledger, TypeOK', [Next]_vars PROVE Ledger'
    OBVIOUS
  <2>2. ClientTypeOK /\ \A c \in Clients : Books(c)
    BY <2>1 DEF Ledger, Books, TypeOK
  <2>3. \A c \in Clients : Books(c)'
    <3>1. ASSUME NEW c \in Clients, ClientStep(c) \/ Deadline(c) \/ Interrupt(c)
          PROVE  \A d \in Clients : Books(d)'
      <4>1. Books(c)'
        BY <2>2, <3>1, ClientStepKeepsBooks
      <4>2. ASSUME NEW d \in Clients \ {c} PROVE Books(d)'
        <5>1. SameBooks(d)
          BY <2>2, <3>1, OthersUntouched
        <5>2. QED
          BY <2>2, <5>1, SameBooksKept
      <4>3. QED
        BY <4>1, <4>2
    <3>2. ASSUME UNCHANGED clientVars PROVE \A d \in Clients : Books(d)'
      <4>1. ASSUME NEW d \in Clients PROVE SameBooks(d)
        BY <3>2 DEF clientVars, SameBooks
      <4>2. QED
        BY <2>2, <4>1, SameBooksKept
    <3>3. QED
      BY <2>1, <3>1, <3>2 DEF Next, vars
  <2>4. QED
    BY <2>1, <2>3 DEF Ledger, Books
<1>3. QED
  BY <1>1, <1>2, TypeCorrect, PTL DEF Spec

\* A client writes at most one row per probe, in the order of its probes: what
\* ping_once gives up on it never takes up again.
THEOREM ProbesRecordedOnce == Spec => []OneRowPerProbe
<1>1. Ledger => OneRowPerProbe
  BY DEF Ledger, InOrder, OneRowPerProbe
<1>2. QED
  BY <1>1, LedgerInvariant, PTL

\* Every probe of the loop is written, lost by a failed insert that was logged, or
\* the one in hand; after Count rounds every host was probed or skipped Count times.
THEOREM BooksBalance == Spec => []ProbesAccountedFor
<1>1. Ledger => ProbesAccountedFor
  <2>1. SUFFICES ASSUME Ledger, NEW c \in Clients
        PROVE  /\ ended[c] = "running" =>
                    probe[c] = Settled(c) + (IF Unsettled(c) THEN 1 ELSE 0)
               /\ ended[c] \in {"interrupt", "exception"} =>
                    probe[c] - Settled(c) \in {0, 1}
               /\ ended[c] = "count" =>
                    probe[c] = Settled(c) /\ probe[c] + skipped[c] = Count * Len(Hosts[c])
    BY DEF ProbesAccountedFor
  <2>2. Balanced(c)
    BY <2>1 DEF Ledger
  <2>3. QED
    BY <2>2 DEF Balanced
<1>2. QED
  BY <1>1, LedgerInvariant, PTL

-----------------------------------------------------------------------------
(* The refinement of ProbeLedger *)

\* What the ledger sees of the clients, as functions.
Stages == [c \in Clients |-> Stage(c)]
BooksOf == [c \in Clients |-> Book(c)]

-----------------------------------------------------------------------------
(* From one client to all of them *)

\* A client whose books do not change looks the same to the ledger.
LEMMA SameBooksSameView ==
  ASSUME NEW d \in Clients, SameBooks(d)
  PROVE  Stage(d)' = Stage(d) /\ Book(d)' = Book(d)
BY DEF SameBooks, Stage, Book, Unsettled

\* The stage of one client changes.
LEMMA StagesExcept ==
  ASSUME NEW c \in Clients, NEW s, Stage(c)' = s,
         \A d \in Clients \ {c} : Stage(d)' = Stage(d)
  PROVE  Stages' = [Stages EXCEPT ![c] = s]
BY DEF Stages

\* The book of one client changes.
LEMMA BooksExcept ==
  ASSUME NEW c \in Clients, NEW b, Book(c)' = b,
         \A d \in Clients \ {c} : Book(d)' = Book(d)
  PROVE  BooksOf' = [BooksOf EXCEPT ![c] = b]
BY DEF BooksOf

\* Nothing the ledger sees of any client changes.
LEMMA SameView ==
  ASSUME \A d \in Clients : Stage(d)' = Stage(d) /\ Book(d)' = Book(d),
         probe' = probe, dropped' = dropped
  PROVE  UNCHANGED Abstract!ledgerVars
BY DEF Abstract!ledgerVars

\* A new row is a new entry of the book.
LEMMA NewRowNewEntry ==
  ASSUME ClientTypeOK, NEW c \in Clients, pending[c] \in Row,
         rows'[c] = Append(rows[c], pending[c])
  PROVE  Book(c)' = Append(Book(c), [probe |-> pending[c].probe,
                                     outcome |-> pending[c].kind])
<1>1. rows[c] \in Seq(Row)
  BY DEF ClientTypeOK
<1>2. /\ Len(rows[c]) \in Nat
      /\ DOMAIN rows[c] = 1 .. Len(rows[c])
      /\ DOMAIN rows'[c] = 1 .. Len(rows[c]) + 1
      /\ \A i \in 1 .. Len(rows[c]) : rows'[c][i] = rows[c][i]
      /\ rows'[c][Len(rows[c]) + 1] = pending[c]
  BY <1>1
<1> DEFINE Entry(row) == [probe |-> row.probe, outcome |-> row.kind]
           Entries == {Entry(row) : row \in Row}
<1>3. Book(c) = [i \in 1 .. Len(rows[c]) |-> Entry(rows[c][i])]
  BY <1>2 DEF Book
<1>4. \A i \in 1 .. Len(rows[c]) : rows[c][i] \in Row
  BY <1>1
<1>5. Book(c) \in Seq(Entries) /\ Len(Book(c)) = Len(rows[c])
  <2>1. \A i \in 1 .. Len(rows[c]) : Entry(rows[c][i]) \in Entries
    BY <1>4
  <2>2. \A i \in 1 .. Len(rows[c]) : Book(c)[i] \in Entries
    BY <1>3, <2>1
  <2> HIDE DEF Entries, Entry
  <2>3. Book(c) \in [1 .. Len(rows[c]) -> Entries]
    BY <1>3, <2>2
  <2>4. Book(c) \in Seq(Entries)
    BY <1>2, <2>3, SeqDef
  <2>5. Len(Book(c)) \in Nat /\ DOMAIN Book(c) = 1 .. Len(Book(c))
    BY <2>4, LenProperties
  <2>6. 1 .. Len(Book(c)) = 1 .. Len(rows[c])
    BY <2>3, <2>5
  <2>7. Len(Book(c)) = Len(rows[c])
    BY <1>2, <2>5, <2>6
  <2>8. QED
    BY <2>4, <2>7
<1>6. Book(c)' = [i \in 1 .. Len(rows[c]) + 1 |-> Entry(rows'[c][i])]
  BY <1>2 DEF Book
<1>7. Entry(pending[c]) \in Entries
  OBVIOUS
<1>8. Append(Book(c), Entry(pending[c])) =
        [i \in 1 .. Len(rows[c]) + 1 |->
           IF i = Len(rows[c]) + 1 THEN Entry(pending[c]) ELSE Book(c)[i]]
  <2> HIDE DEF Entries, Entry
  <2>1. QED
    BY <1>2, <1>5, <1>7
<1>9. \A i \in 1 .. Len(rows[c]) + 1 :
        Entry(rows'[c][i]) =
          IF i = Len(rows[c]) + 1 THEN Entry(pending[c]) ELSE Book(c)[i]
  <2>1. \A i \in 1 .. Len(rows[c]) + 1 : i # Len(rows[c]) + 1 => i \in 1 .. Len(rows[c])
    BY <1>2
  <2> HIDE DEF Entry
  <2>2. QED
    BY <1>2, <1>3, <2>1
<1>10. QED
  <2> HIDE DEF Entry
  <2>1. Book(c)' = Append(Book(c), Entry(pending[c]))
    BY <1>6, <1>8, <1>9
  <2>2. QED
    BY <2>1 DEF Entry
-----------------------------------------------------------------------------
(* The steps *)

\* A step that moves a client to its next host leaves it with no probe open.
LEMMA NextHostIdle ==
  ASSUME ClientTypeOK, NEW c \in Clients, NextHost(c)
  PROVE  Stage(c)' = "idle"
<1>1. pc'[c] \in {"host", "round"}
  BY DEF NextHost, Goto, ClientTypeOK
<1>2. QED
  BY <1>1 DEF Stage, Unsettled

\* Every step of client c is a step of the ledger, or a stutter.
LEMMA ClientStepSimulated ==
  ASSUME Ledger, NEW c \in Clients, ClientStep(c) \/ Deadline(c) \/ Interrupt(c)
  PROVE  [Abstract!LedgerNext]_(Abstract!ledgerVars)
<1>1. ClientTypeOK /\ Behind(c)
  BY DEF Ledger, TypeOK
<1>2. \A d \in Clients \ {c} : Stage(d)' = Stage(d) /\ Book(d)' = Book(d)
  BY <1>1, OthersUntouched, SameBooksSameView
<1>3. ASSUME Stage(c)' = Stage(c), rows'[c] = rows[c], probe' = probe, dropped' = dropped
      PROVE  UNCHANGED Abstract!ledgerVars
  <2>1. Book(c)' = Book(c)
    BY <1>3 DEF Book
  <2>2. QED
    BY <1>2, <1>3, <2>1, SameView
<1>4. ASSUME rows' = rows PROVE BooksOf' = BooksOf
  BY <1>4 DEF BooksOf, Book
<1>5. ASSUME NEW s, Stage(c)' = s PROVE Stages' = [Stages EXCEPT ![c] = s]
  BY <1>2, <1>5, StagesExcept
<1>6. CASE StartRound(c) \/ Resolve(c) \/ Deadline(c)
  <2>1. Stage(c)' = Stage(c)
    BY <1>1, <1>6 DEF StartRound, Resolve, Deadline, Goto, Stage, Unsettled, ClientTypeOK
  <2>2. QED
    BY <1>3, <1>6, <2>1 DEF StartRound, Resolve, Deadline
<1>7. CASE SelectReady(c) \/ RecvError(c) \/ Ignore(c)
  <2>1. Stage(c)' = Stage(c)
    BY <1>1, <1>7 DEF SelectReady, RecvError, Ignore, Goto, Stage, Unsettled, ClientTypeOK
  <2>2. QED
    BY <1>3, <1>7, <2>1 DEF SelectReady, RecvError, Ignore
<1>8. CASE RequestTimesOut(c) \/ RaiseIcmpError(c) \/ AcceptReply(c) \/ Register(c)
  <2>1. Stage(c)' = Stage(c)
    BY <1>1, <1>8
    DEF RequestTimesOut, RaiseIcmpError, AcceptReply, Register, Record, Goto, Stage,
        Unsettled, ClientTypeOK
  <2>2. QED
    BY <1>3, <1>8, <2>1 DEF RequestTimesOut, RaiseIcmpError, AcceptReply, Register
<1>9. CASE ResolveFails(c)
  <2>1. Stage(c)' = "idle" /\ Stage(c) = "idle"
    BY <1>1, <1>9, NextHostIdle DEF ResolveFails, Stage, Unsettled
  <2>2. QED
    BY <1>3, <1>9, <2>1 DEF ResolveFails
<1>10. CASE SendEchoRequest(c) \/ SendTimesOut(c)
  <2>1. /\ Stage(c) = "idle" /\ Stage(c)' = "open"
        /\ rows' = rows /\ dropped' = dropped /\ probe' = [probe EXCEPT ![c] = @ + 1]
    BY <1>1, <1>10
    DEF SendEchoRequest, SendTimesOut, NextSeq, Record, Goto, Stage, Unsettled, ClientTypeOK
  <2>2. Stages[c] = "idle" /\ Stages' = [Stages EXCEPT ![c] = "open"] /\ BooksOf' = BooksOf
    BY <1>4, <1>5, <2>1 DEF Stages
  <2>3. Abstract!Open(c)
    BY <2>1, <2>2 DEF Abstract!Open, Stages, BooksOf
  <2>4. QED
    BY <2>3 DEF Abstract!LedgerNext
<1>11. CASE \/ StopAtCount(c) \/ Interrupt(c) \/ PingRaises(c) \/ ReceiveRaises(c)
            \/ RegisterRaises(c)
  <2>1. /\ Stage(c) # "stopped" /\ Stage(c)' = "stopped"
        /\ rows' = rows /\ dropped' = dropped
    BY <1>1, <1>11
    DEF StopAtCount, Interrupt, PingRaises, ReceiveRaises, RegisterRaises, Close, Goto,
        Stage, Unsettled, ClientTypeOK
  <2>2. \/ probe' = probe
        \/ Stage(c) = "idle" /\ probe' = [probe EXCEPT ![c] = @ + 1]
    BY <1>11
    DEF StopAtCount, Interrupt, PingRaises, NextSeq, ReceiveRaises, RegisterRaises,
        Stage, Unsettled
  <2>3. /\ Stages[c] = Stage(c) /\ Stages' = [Stages EXCEPT ![c] = "stopped"]
        /\ BooksOf' = BooksOf
    BY <1>4, <1>5, <2>1 DEF Stages
  <2>4. Abstract!StopLedger(c)
    BY <2>1, <2>2, <2>3 DEF Abstract!StopLedger, Stages, BooksOf
  <2>5. QED
    BY <2>4 DEF Abstract!LedgerNext
<1>12. CASE InsertRow(c)
  <2>1. /\ pc[c] = "insert" /\ dropped' = dropped /\ probe' = probe
        /\ rows'[c] = Append(rows[c], pending[c])
    BY <1>1, <1>12 DEF InsertRow, ClientTypeOK
  <2>2. /\ pending[c] \in Row /\ pending[c].probe = probe[c]
        /\ pending[c].kind \in {"health", "timeout", "icmp_error"}
    BY <1>1, <2>1 DEF ClientTypeOK, Behind, Row
  <2>3. Stage(c) = "open" /\ Stage(c)' = "idle"
    BY <1>1, <1>12, <2>1, NextHostIdle DEF InsertRow, Stage, Unsettled
  <2>4. Book(c)' = Append(Book(c), [probe |-> probe[c], outcome |-> pending[c].kind])
    BY <1>1, <2>1, <2>2, NewRowNewEntry
  <2>5. PICK o \in {"health", "timeout", "icmp_error"} : o = pending[c].kind
    BY <2>2
  <2>6. Stages[c] = "open" /\ Stages' = [Stages EXCEPT ![c] = "idle"]
    BY <1>5, <2>3 DEF Stages
  <2>7. BooksOf' = [BooksOf EXCEPT ![c] = Append(@, [probe |-> probe[c], outcome |-> o])]
    <3>1. BooksOf[c] = Book(c)
      BY DEF BooksOf
    <3>2. BooksOf' = [BooksOf EXCEPT ![c] =
                        Append(Book(c), [probe |-> probe[c], outcome |-> o])]
      BY <1>2, <2>4, <2>5, BooksExcept
    <3>3. QED
      BY <3>1, <3>2
  <2>8. Abstract!File(c)
    BY <2>1, <2>6, <2>7 DEF Abstract!File, Stages, BooksOf
  <2>9. QED
    BY <2>8 DEF Abstract!LedgerNext
<1>13. CASE InsertFails(c)
  <2>1. /\ pc[c] = "insert" /\ probe' = probe /\ rows' = rows
        /\ dropped' = [dropped EXCEPT ![c] = @ + 1]
    BY <1>13 DEF InsertFails
  <2>2. Stage(c) = "open" /\ Stage(c)' = "idle"
    BY <1>1, <1>13, <2>1, NextHostIdle DEF InsertFails, Stage, Unsettled
  <2>3. Stages[c] = "open" /\ Stages' = [Stages EXCEPT ![c] = "idle"] /\ BooksOf' = BooksOf
    BY <1>4, <1>5, <2>1, <2>2 DEF Stages
  <2>4. Abstract!Lose(c)
    BY <2>1, <2>3 DEF Abstract!Lose, Stages, BooksOf
  <2>5. QED
    BY <2>4 DEF Abstract!LedgerNext
<1>14. QED
  BY <1>6, <1>7, <1>8, <1>9, <1>10, <1>11, <1>12, <1>13 DEF ClientStep

\* A step of the program is a step of the ledger, or a stutter.
LEMMA StepSimulated ==
  ASSUME Ledger, [Next]_vars
  PROVE  [Abstract!LedgerNext]_(Abstract!ledgerVars)
<1>1. CASE \E c \in Clients : ClientStep(c) \/ Deadline(c) \/ Interrupt(c)
  BY <1>1, ClientStepSimulated
<1>2. CASE UNCHANGED clientVars
  <2>1. \A d \in Clients : Stage(d)' = Stage(d) /\ Book(d)' = Book(d)
    BY <1>2 DEF clientVars, Stage, Book, Unsettled
  <2>2. QED
    BY <1>2, <2>1, SameView DEF clientVars
<1>3. QED
  BY <1>1, <1>2 DEF Next, vars

\* The program starts as the ledger does.
LEMMA InitSimulated == Init => Abstract!LedgerInit
<1>1. SUFFICES ASSUME Init PROVE Abstract!LedgerInit
  OBVIOUS
<1>2. \A c \in Clients : pc[c] = "round" /\ rows[c] = << >>
  BY <1>1 DEF Init, ClientInit
<1>3. \A c \in Clients : Stage(c) = "idle"
  BY <1>2 DEF Stage, Unsettled
<1>4. \A c \in Clients : Book(c) = << >>
  BY <1>2 DEF Book
<1>5. QED
  BY <1>1, <1>3, <1>4 DEF Init, ClientInit, Abstract!LedgerInit

\* The monitoring loop implements the ledger: with any loss, duplication, delay and
\* failure, a client opens its probes one at a time, settles each once and in order,
\* and never touches what it filed.
THEOREM LoopKeepsLedger == Spec => ImplementsLedger
<1>1. Ledger /\ [Next]_vars => [Abstract!LedgerNext]_(Abstract!ledgerVars)
  BY StepSimulated
<1>2. QED
  BY <1>1, InitSimulated, LedgerInvariant, PTL
  DEF Spec, ImplementsLedger, Abstract!LedgerSpec

-----------------------------------------------------------------------------
(* The loop never goes back *)

\* The phases, place by place.
LEMMA Phases ==
  ASSUME NEW c \in Clients
  PROVE  /\ pc[c] = "round" => Phase(c) = 0
         /\ pc[c] = "host" => Phase(c) = 1
         /\ pc[c] = "ping" => Phase(c) = 2
         /\ Waiting(c) /\ ~expired[c] => Phase(c) = 3
         /\ pc[c] = "recv" /\ expired[c] => Phase(c) = 4
         /\ pc[c] = "await" /\ expired[c] => Phase(c) = 5
         /\ pc[c] = "register" => Phase(c) = 6
         /\ pc[c] = "insert" => Phase(c) = 7
BY DEF Phase, Waiting

LEMMA PhasesNext ==
  ASSUME NEW c \in Clients
  PROVE  /\ pc'[c] = "round" => Phase(c)' = 0
         /\ pc'[c] = "host" => Phase(c)' = 1
         /\ pc'[c] = "ping" => Phase(c)' = 2
         /\ Waiting(c)' /\ ~expired'[c] => Phase(c)' = 3
         /\ pc'[c] = "recv" /\ expired'[c] => Phase(c)' = 4
         /\ pc'[c] = "await" /\ expired'[c] => Phase(c)' = 5
         /\ pc'[c] = "register" => Phase(c)' = 6
         /\ pc'[c] = "insert" => Phase(c)' = 7
BY DEF Phase, Waiting

\* The next host is a later one, or one of the next round.
LEMMA NextHostAdvances ==
  ASSUME ClientTypeOK, NEW c \in Clients, pc[c] \in {"host", "insert"}, NextHost(c)
  PROVE  Advances(c)
<1>1. pc \in [Clients -> Locations] /\ round[c] \in Nat /\ index[c] \in Nat
  BY DEF ClientTypeOK
<1>2. CASE index[c] < Len(Hosts[c])
  <2>1. pc'[c] = "host" /\ index'[c] = index[c] + 1 /\ round'[c] = round[c]
    BY <1>1, <1>2 DEF NextHost, Goto, ClientTypeOK
  <2>2. Turn(c) = index[c] /\ Turn(c)' = index[c] + 1
    BY <2>1 DEF Turn
  <2>3. QED
    BY <1>1, <2>1, <2>2 DEF Advances
<1>3. CASE ~(index[c] < Len(Hosts[c]))
  <2>1. round'[c] = round[c] + 1
    BY <1>1, <1>3 DEF NextHost, ClientTypeOK
  <2>2. QED
    BY <1>1, <2>1 DEF Advances
<1>4. QED
  BY <1>2, <1>3

\* A later phase of the same probe.
LEMMA LaterPhase ==
  ASSUME NEW c \in Clients, round'[c] = round[c], index'[c] = index[c],
         pc[c] \notin {"closed", "round"}, pc'[c] # "round", Phase(c) < Phase(c)'
  PROVE  Advances(c)
BY DEF Advances, Turn

LEMMA ClientStepAdvances ==
  ASSUME ClientTypeOK, NEW c \in Clients,
         ClientStep(c) \/ Deadline(c) \/ Interrupt(c)
  PROVE  Advances(c) \/ Polls(c)
<1>1. /\ pc \in [Clients -> Locations] /\ round[c] \in Nat
      /\ index \in [Clients -> Nat] /\ 1 <= index[c]
      /\ expired \in [Clients -> BOOLEAN]
  BY DEF ClientTypeOK
<1>2. CASE StopAtCount(c) \/ Interrupt(c) \/ PingRaises(c) \/ ReceiveRaises(c)
           \/ RegisterRaises(c)
  <2>1. pc[c] # "closed" /\ pc'[c] = "closed"
    BY <1>1, <1>2
    DEF StopAtCount, Interrupt, PingRaises, ReceiveRaises, RegisterRaises, Close, Goto
  <2>2. QED
    BY <2>1 DEF Advances
<1>3. CASE StartRound(c)
  <2>1. pc[c] = "round" /\ pc'[c] = "host" /\ index'[c] = 1 /\ round'[c] = round[c]
    BY <1>1, <1>3 DEF StartRound, Goto
  <2>2. Turn(c) = 0 /\ Turn(c)' = 1
    BY <2>1 DEF Turn
  <2>3. QED
    BY <2>1, <2>2 DEF Advances
<1>4. CASE ResolveFails(c) \/ InsertRow(c) \/ InsertFails(c)
  BY <1>4, NextHostAdvances DEF ResolveFails, InsertRow, InsertFails
<1>5. CASE Resolve(c)
  <2>1. pc[c] = "host" /\ pc'[c] = "ping"
    BY <1>1, <1>5 DEF Resolve, Goto
  <2>2. round'[c] = round[c] /\ index'[c] = index[c]
    BY <1>5 DEF Resolve
  <2>3. Phase(c) = 1 /\ Phase(c)' = 2
    BY <2>1, Phases, PhasesNext
  <2>4. QED
    BY <2>1, <2>2, <2>3, LaterPhase
<1>6. CASE SendEchoRequest(c)
  <2>1. pc[c] = "ping" /\ pc'[c] = "await" /\ expired'[c] = FALSE
    BY <1>1, <1>6 DEF SendEchoRequest, Goto
  <2>2. round'[c] = round[c] /\ index'[c] = index[c]
    BY <1>6 DEF SendEchoRequest
  <2>3. Phase(c) = 2 /\ Phase(c)' = 3
    BY <2>1, Phases, PhasesNext DEF Waiting
  <2>4. QED
    BY <2>1, <2>2, <2>3, LaterPhase
<1>7. CASE SendTimesOut(c) \/ RequestTimesOut(c) \/ RaiseIcmpError(c) \/ AcceptReply(c)
  <2>1. pc[c] \in {"ping", "await", "recv"} /\ pc'[c] = "register"
    BY <1>1, <1>7
    DEF SendTimesOut, RequestTimesOut, RaiseIcmpError, AcceptReply, Record, Goto
  <2>2. round'[c] = round[c] /\ index'[c] = index[c]
    BY <1>7 DEF SendTimesOut, RequestTimesOut, RaiseIcmpError, AcceptReply
  <2>3. Phase(c) \in 2 .. 5 /\ Phase(c)' = 6
    BY <1>1, <2>1, Phases, PhasesNext DEF Waiting
  <2>4. QED
    BY <2>1, <2>2, <2>3, LaterPhase
<1>8. CASE Deadline(c)
  <2>1. Waiting(c) /\ ~expired[c] /\ expired'[c] = TRUE /\ pc' = pc
    BY <1>1, <1>8 DEF Deadline, Waiting
  <2>2. round'[c] = round[c] /\ index'[c] = index[c]
    BY <1>8 DEF Deadline
  <2>3. Phase(c) = 3 /\ Phase(c)' \in {4, 5}
    BY <2>1, Phases, PhasesNext DEF Waiting
  <2>4. QED
    BY <2>1, <2>2, <2>3, LaterPhase DEF Waiting
<1>9. CASE SelectReady(c)
  <2>1. pc[c] = "await" /\ pc'[c] = "recv" /\ ~expired[c]
    BY <1>1, <1>9 DEF SelectReady, Goto
  <2>2. UNCHANGED <<round[c], index[c], probe[c], expired[c]>>
    BY <1>9 DEF SelectReady
  <2>3. QED
    BY <2>1, <2>2 DEF Polls, Waiting
<1>10. CASE RecvError(c) \/ Ignore(c)
  <2>1. pc[c] = "recv" /\ pc'[c] = "await"
    BY <1>1, <1>10 DEF RecvError, Ignore, Goto
  <2>2. UNCHANGED <<round[c], index[c], probe[c], expired[c]>>
    BY <1>10 DEF RecvError, Ignore
  <2>3. CASE ~expired[c]
    BY <2>1, <2>2, <2>3 DEF Polls, Waiting
  <2>4. CASE expired[c]
    <3>1. Phase(c) = 4 /\ Phase(c)' = 5
      BY <2>1, <2>2, <2>4, Phases, PhasesNext
    <3>2. QED
      BY <2>1, <2>2, <3>1, LaterPhase
  <2>5. QED
    BY <2>3, <2>4
<1>11. CASE Register(c)
  <2>1. pc[c] = "register" /\ pc'[c] = "insert"
    BY <1>1, <1>11 DEF Register, Goto
  <2>2. round'[c] = round[c] /\ index'[c] = index[c]
    BY <1>11 DEF Register
  <2>3. Phase(c) = 6 /\ Phase(c)' = 7
    BY <2>1, Phases, PhasesNext
  <2>4. QED
    BY <2>1, <2>2, <2>3, LaterPhase
<1>12. QED
  BY <1>2, <1>3, <1>4, <1>5, <1>6, <1>7, <1>8, <1>9, <1>10, <1>11 DEF ClientStep

\* A step of one client touches no other's timer.
LEMMA OthersTimersRun ==
  ASSUME ClientTypeOK, NEW c \in Clients,
         ClientStep(c) \/ Deadline(c) \/ Interrupt(c),
         NEW d \in Clients \ {c}
  PROVE  expired'[d] = expired[d]
<1>1. expired \in [Clients -> BOOLEAN]
  BY DEF ClientTypeOK
<1>2. CASE SendEchoRequest(c) \/ Deadline(c)
  BY <1>1, <1>2 DEF SendEchoRequest, Deadline
<1>3. QED
  BY <1>2
  DEF ClientStep, StopAtCount, Interrupt, StartRound, Resolve, ResolveFails, PingRaises,
      SendTimesOut, SelectReady, RecvError, Ignore, ReceiveRaises, RequestTimesOut,
      RaiseIcmpError, AcceptReply, Register, RegisterRaises, InsertRow, InsertFails

\* Whatever arrives and whatever fails, no step takes a client back: the receive loop
\* before the deadline is the only place it passes more than once.
THEOREM LoopNeverTurnsBack == Spec => NeverBack
<1> DEFINE Still(c) == UNCHANGED <<pc[c], round[c], index[c], expired[c]>>
<1>1. TypeOK /\ [Next]_vars =>
        [\A c \in Clients : Advances(c) \/ Polls(c) \/ Still(c)]_vars
  <2>1. SUFFICES ASSUME TypeOK, [Next]_vars, NEW d \in Clients
        PROVE  Advances(d) \/ Polls(d) \/ Still(d)
    OBVIOUS
  <2>2. ClientTypeOK
    BY <2>1 DEF TypeOK
  <2>3. ASSUME NEW c \in Clients, ClientStep(c) \/ Deadline(c) \/ Interrupt(c)
        PROVE  Advances(d) \/ Polls(d) \/ Still(d)
    <3>1. CASE d = c
      BY <2>2, <2>3, <3>1, ClientStepAdvances
    <3>2. CASE d # c
      BY <2>2, <2>3, <3>2, OthersUntouched, OthersTimersRun DEF SameBooks
    <3>3. QED
      BY <3>1, <3>2
  <2>4. CASE UNCHANGED clientVars
    BY <2>4 DEF clientVars
  <2>5. QED
    BY <2>1, <2>3, <2>4 DEF Next, vars
<1>2. QED
  BY <1>1, TypeCorrect, PTL DEF Spec, NeverBack
=============================================================================
