---------------------------- MODULE ChecksumProofs ----------------------------
(***************************************************************************)
(* The checksum of icmp_utils.py for bytes of any size and packets of any   *)
(* length: one fold per word keeps the accumulator a one's complement sum,  *)
(* what was not damaged is accepted, and damage to one word is detected.    *)
(***************************************************************************)
EXTENDS Checksum, ModuloFacts, SequenceTheorems

-----------------------------------------------------------------------------
(* Arithmetic *)

LEMMA WType == B \in Nat /\ B >= 2 /\ W \in Nat /\ W >= 4 /\ W = B * B
<1>1. B \in Nat /\ B >= 2
  BY ChecksumAssumption
<1>2. B * B \in Nat /\ B * B >= 2 * 2
  BY <1>1, SMTT(30)
<1>3. QED
  BY <1>1, <1>2 DEF W

\* Quotient and remainder of what is less than twice the divisor.
LEMMA DivOnce ==
  ASSUME NEW m \in Nat \ {0}, NEW x \in Nat, x < 2 * m
  PROVE  /\ x < m => x \div m = 0 /\ x % m = x
         /\ x >= m => x \div m = 1 /\ x % m = x - m
<1>1. PICK q \in Int, r \in 0 .. m - 1 : q = x \div m /\ r = x % m /\ x = m * q + r
  BY DivMod
<1>2. CASE x < m
  <2>1. m * q + r = m * 0 + x
    BY <1>1
  <2>2. x \in 0 .. m - 1
    BY <1>2
  <2>3. q = 0 /\ r = x
    BY <2>1, <2>2, DivModUnique
  <2>4. QED
    BY <1>1, <1>2, <2>3
<1>3. CASE x >= m
  <2>1. m * q + r = m * 1 + (x - m)
    BY <1>1
  <2>2. x - m \in 0 .. m - 1
    BY <1>3
  <2>3. q = 1 /\ r = x - m
    BY <2>1, <2>2, DivModUnique
  <2>4. QED
    BY <1>1, <1>3, <2>3
<1>4. QED
  BY <1>2, <1>3

\* Two bytes make a word, and only one.
LEMMA BytesMakeWord ==
  ASSUME NEW h \in Byte, NEW l \in Byte
  PROVE  h * B + l \in 0 .. W - 1
<1>1. B \in Nat /\ W \in Nat /\ W = B * B /\ h \in 0 .. B - 1 /\ l \in 0 .. B - 1
  BY WType DEF Byte
<1>2. h * B \in Nat /\ h * B <= (B - 1) * B
  BY <1>1, SMTT(30)
<1>3. (B - 1) * B = B * B - B
  BY <1>1, SMTT(30)
<1>4. QED
  BY <1>1, <1>2, <1>3

LEMMA WordMakesBytes ==
  ASSUME NEW h1 \in Byte, NEW l1 \in Byte, NEW h2 \in Byte, NEW l2 \in Byte,
         h1 * B + l1 = h2 * B + l2
  PROVE  h1 = h2 /\ l1 = l2
<1>1. /\ B \in Nat \ {0}
      /\ h1 \in Int /\ h2 \in Int /\ l1 \in 0 .. B - 1 /\ l2 \in 0 .. B - 1
  BY WType DEF Byte
<1>2. B * h1 = h1 * B /\ B * h2 = h2 * B
  BY <1>1, SMTT(30)
<1>3. B * h1 + l1 = B * h2 + l2
  BY <1>2
<1>4. QED
  BY <1>1, <1>3, DivModUnique

\* Splitting a word into bytes, as struct.pack does.
LEMMA SplitWord ==
  ASSUME NEW x \in 0 .. W - 1
  PROVE  x \div B \in Byte /\ x % B \in Byte /\ (x \div B) * B + (x % B) = x
<1>1. PICK q \in Int, r \in 0 .. B - 1 : q = x \div B /\ r = x % B /\ x = B * q + r
  BY WType, DivMod
<1>2. B \in Nat /\ B >= 2 /\ B * q <= B * B - 1 /\ B * q > - B
  BY <1>1, WType
<1>3. q >= 0
  <2>1. SUFFICES ASSUME q <= -1 PROVE FALSE
    BY <1>1
  <2>2. B * q <= - B
    BY <1>2, <2>1, SMTT(30)
  <2>3. QED
    BY <1>2, <2>2
<1>4. q <= B - 1
  <2>1. SUFFICES ASSUME q >= B PROVE FALSE
    BY <1>1, <1>2
  <2>2. B * q >= B * B
    BY <1>2, <2>1, SMTT(30)
  <2>3. QED
    BY <1>2, <2>2
<1>5. q * B = B * q
  BY <1>2, SMTT(30)
<1>6. QED
  BY <1>1, <1>3, <1>4, <1>5 DEF Byte

\* One fold is enough for the sum of two words: it carries at most one around.
LEMMA FoldOnce ==
  ASSUME NEW x \in Nat, x <= 2 * (W - 1)
  PROVE  /\ Fold(x) \in 0 .. W - 1
         /\ x \div W \in {0, 1}
         /\ x = Fold(x) + (x \div W) * (W - 1)
         /\ Fold(x) = 0 => x = 0
         /\ x < W => Fold(x) = x
<1>1. W \in Nat \ {0} /\ W >= 4
  BY WType
<1>2. CASE x < W
  <2>1. x \div W = 0 /\ x % W = x
    BY <1>1, <1>2, DivOnce
  <2>2. QED
    BY <1>1, <1>2, <2>1 DEF Fold
<1>3. CASE x >= W
  <2>1. x \div W = 1 /\ x % W = x - W
    BY <1>1, <1>3, DivOnce
  <2>2. QED
    BY <1>1, <1>3, <2>1 DEF Fold
<1>4. QED
  BY <1>1, <1>2, <1>3

\* r is the one's complement sum of words that add up to t.
Sums(t, r) ==
    /\ r \in 0 .. W - 1
    /\ \E c \in Nat : t = r + c * (W - 1)
    /\ r = 0 => t = 0

\* Sums of which one is at most W - 1 more than the other: equal, or the two zeros.
LEMMA NearbySums ==
  ASSUME NEW t \in Nat, NEW u \in Nat, NEW r, Sums(t, r), Sums(u, r), t <= u, u <= t + (W - 1)
  PROVE  t = u \/ u = t + (W - 1)
<1>1. PICK c \in Nat, d \in Nat : t = r + c * (W - 1) /\ u = r + d * (W - 1)
  BY DEF Sums
<1>2. r \in Nat /\ W \in Nat /\ W >= 4
  BY WType DEF Sums
<1> DEFINE m == W - 1
<1>3. m \in Nat \ {0} /\ m = W - 1
  BY <1>2
<1>4. c * m \in Nat /\ d * m \in Nat /\ m * (d - c) = d * m - c * m
  BY <1>3, SMTT(30)
<1> DEFINE e == d - c
<1>5. e \in Int /\ m * e = u - t
  BY <1>1, <1>2, <1>4
<1> HIDE DEF m, e
<1>6. CASE u = t + m
  BY <1>3, <1>6
<1>7. CASE u < t + m
  <2>1. -m < m * e /\ m * e < m
    BY <1>3, <1>5, <1>7
  <2>2. e = 0
    BY <1>3, <1>5, <2>1, SmallMultiple
  <2>3. u - t = 0
    BY <1>3, <1>5, <2>2
  <2>4. QED
    BY <2>3
<1>8. QED
  BY <1>3, <1>6, <1>7

\* Exchanging one word changes the one's complement sum, unless it exchanges the zeros.
LEMMA OnlyZerosExchanged ==
  ASSUME NEW t \in Nat, NEW u \in Nat, NEW r, Sums(t, r), Sums(u, r),
         NEW w \in 0 .. W - 1, NEW v \in 0 .. W - 1, w # v, u = t + (w - v)
  PROVE  {v, w} = {0, W - 1}
<1>1. PICK m \in Nat : m = W - 1
  BY WType
<1>2. w \in 0 .. m /\ v \in 0 .. m
  BY <1>1
<1>3. CASE t <= u
  <2>1. u <= t + (W - 1)
    BY <1>1, <1>2
  <2>2. u = t \/ u = t + m
    BY <1>1, <1>3, <2>1, NearbySums
  <2>3. w = m /\ v = 0
    BY <1>2, <2>2
  <2>4. QED
    BY <1>1, <2>3
<1>4. CASE u <= t
  <2>1. t <= u + (W - 1)
    BY <1>1, <1>2
  <2>2. t = u \/ t = u + m
    BY <1>1, <1>4, <2>1, NearbySums
  <2>3. v = m /\ w = 0
    BY <1>2, <2>2
  <2>4. QED
    BY <1>1, <2>3
<1>5. t <= u \/ u <= t
  OBVIOUS
<1>6. QED
  BY <1>3, <1>4, <1>5

\* A total has one one's complement sum.
LEMMA SumsUnique ==
  ASSUME NEW t \in Nat, NEW r1, NEW r2, Sums(t, r1), Sums(t, r2)
  PROVE  r1 = r2
<1>1. PICK c \in Nat, d \in Nat : t = r1 + c * (W - 1) /\ t = r2 + d * (W - 1)
  BY DEF Sums
<1>2. PICK m \in Nat \ {0} : m = W - 1
  BY WType
<1>3. r1 \in 0 .. m /\ r2 \in 0 .. m /\ (r1 = 0 => t = 0) /\ (r2 = 0 => t = 0)
  BY <1>2, WType DEF Sums
<1>4. t = m * c + r1 /\ t = m * d + r2
  <2>1. c * m = m * c /\ d * m = m * d /\ m * c \in Nat /\ m * d \in Nat
    BY <1>2, SMTT(30)
  <2>2. QED
    BY <1>1, <1>2, <1>3, <2>1
<1>5. CASE r1 = 0 \/ r2 = 0
  <2>1. t = 0 /\ m * c \in Nat /\ m * d \in Nat
    BY <1>2, <1>3, <1>5, SMTT(30)
  <2>2. QED
    BY <1>3, <1>4, <2>1
<1>6. CASE r1 # 0 /\ r2 # 0
  <2>1. PICK a \in 0 .. m - 1, b \in 0 .. m - 1 : a = r1 - 1 /\ b = r2 - 1
    BY <1>2, <1>3, <1>6
  <2>2. m * c + a = m * d + b
    <3>1. m * c \in Nat /\ m * d \in Nat
      BY <1>2, SMTT(30)
    <3>2. QED
      BY <1>3, <1>4, <2>1, <3>1
  <2>3. c \in Int /\ d \in Int
    OBVIOUS
  <2>4. a = b
    BY <2>2, <2>3, DivModUnique
  <2>5. QED
    BY <1>3, <2>1, <2>4
<1>7. QED
  BY <1>5, <1>6

-----------------------------------------------------------------------------
(* Packets *)

\* A byte of a packet or of its padding is a byte.
LEMMA ByteAtType ==
  ASSUME NEW p \in Seq(Byte), NEW k \in Nat \ {0}
  PROVE  ByteAt(p, k) \in Byte
<1>1. 0 \in Byte
  BY WType DEF Byte
<1>2. k <= Len(p) => p[k] \in Byte
  OBVIOUS
<1>3. QED
  BY <1>1, <1>2 DEF ByteAt

LEMMA WordType ==
  ASSUME NEW p \in Seq(Byte), NEW k \in Nat \ {0}
  PROVE  Word(p, k) \in 0 .. W - 1 /\ Summed(p, k) \in 0 .. W - 1
<1>1. 2 * k - 1 \in Nat \ {0} /\ 2 * k \in Nat \ {0}
  OBVIOUS
<1>2. PICK h \in Byte, l \in Byte : h = ByteAt(p, 2 * k - 1) /\ l = ByteAt(p, 2 * k)
  BY <1>1, ByteAtType
<1>3. Word(p, k) = h * B + l
  BY <1>2 DEF Word
<1>4. Word(p, k) \in 0 .. W - 1
  BY <1>3, BytesMakeWord
<1>5. QED
  BY <1>4, WType DEF Summed

LEMMA WordsType ==
  ASSUME NEW p \in Seq(Byte)
  PROVE  Words(p) \in Nat /\ Len(p) <= 2 * Words(p) /\ 2 * Words(p) <= Len(p) + 1
BY DEF Words

\* The word of a packet determines its bytes.
LEMMA SameWordSameBytes ==
  ASSUME NEW p \in Seq(Byte), NEW q \in Seq(Byte), NEW k \in Nat \ {0}, Len(p) = Len(q),
         Word(p, k) = Word(q, k)
  PROVE  \A b \in {2 * k - 1, 2 * k} \cap (1 .. Len(p)) : p[b] = q[b]
<1>1. 2 * k - 1 \in Nat \ {0} /\ 2 * k \in Nat \ {0}
  OBVIOUS
<1>2. PICK h \in Byte, l \in Byte : h = ByteAt(p, 2 * k - 1) /\ l = ByteAt(p, 2 * k)
  BY <1>1, ByteAtType
<1>3. PICK g \in Byte, m \in Byte : g = ByteAt(q, 2 * k - 1) /\ m = ByteAt(q, 2 * k)
  BY <1>1, ByteAtType
<1>4. h * B + l = g * B + m
  BY <1>2, <1>3 DEF Word
<1>5. h = g /\ l = m
  BY <1>4, WordMakesBytes
<1>6. QED
  BY <1>2, <1>3, <1>5 DEF ByteAt

\* A word whose bytes are the same is the same.
LEMMA SameBytesSameWord ==
  ASSUME NEW p \in Seq(Byte), NEW q \in Seq(Byte), NEW k \in Nat \ {0}, Len(p) = Len(q),
         \A b \in {2 * k - 1, 2 * k} \cap (1 .. Len(p)) : p[b] = q[b]
  PROVE  Word(p, k) = Word(q, k) /\ Summed(p, k) = Summed(q, k)
<1>1. ByteAt(p, 2 * k - 1) = ByteAt(q, 2 * k - 1) /\ ByteAt(p, 2 * k) = ByteAt(q, 2 * k)
  BY DEF ByteAt
<1>2. QED
  BY <1>1 DEF Word, Summed

\* Changing two bytes of a packet leaves a packet of that length.
Patched(p, j, h, k, l) == [p EXCEPT ![j] = h, ![k] = l]

LEMMA BytesChanged ==
  ASSUME NEW p \in Seq(Byte), NEW j, NEW k, NEW h \in Byte, NEW l \in Byte
  PROVE  /\ Patched(p, j, h, k, l) \in Seq(Byte)
         /\ Len(Patched(p, j, h, k, l)) = Len(p)
         /\ \A b \in 1 .. Len(p) :
              Patched(p, j, h, k, l)[b] = IF b = k THEN l ELSE IF b = j THEN h ELSE p[b]
<1>1. PICK n \in Nat : p \in [1 .. n -> Byte] /\ n = Len(p)
  BY LenProperties
<1>2. PICK q : q = Patched(p, j, h, k, l)
  OBVIOUS
<1>3. /\ q \in [1 .. n -> Byte]
      /\ \A b \in 1 .. n : q[b] = IF b = k THEN l ELSE IF b = j THEN h ELSE p[b]
  BY <1>1, <1>2 DEF Patched
<1>4. q \in Seq(Byte)
  BY <1>3, SeqDef
<1>5. Len(q) = n
  BY <1>3, <1>4, LenProperties
<1>6. QED
  BY <1>1, <1>2, <1>3, <1>4, <1>5

-----------------------------------------------------------------------------
(* The inductive invariant *)

\* What calculate_checksum knows of the words it has summed.
Accumulator ==
    /\ i \in Nat /\ s \in 0 .. W - 1 /\ total \in Nat /\ carries \in Nat
    /\ total = s + carries * (W - 1)
    /\ s = 0 => total = 0

\* The total of the first k words when the packet was created.
Before(k) == IF k = 0 THEN 0 ELSE trace[k]

\* trace holds the totals of p.
Traced(p) == \A j \in 1 .. Len(trace) : trace[j] = Before(j - 1) + Summed(p, j)

Creating ==
    phase = "create" =>
      /\ Len(packet) >= Header
      /\ i = Len(trace) /\ i <= Words(packet)
      /\ total = Before(i)
      /\ Traced(packet)

\* The packet as sent carries the complement of its sum.
Sending ==
    phase # "create" =>
      /\ Len(sent) >= Header
      /\ Len(trace) = Words(sent)
      /\ Traced(sent)
      /\ \E r : Sums(Before(Len(trace)), r) /\ Word(sent, ChecksumWord) = W - 1 - r

\* Nothing but word k may differ.
Within(k) ==
    /\ Len(packet) = Len(sent)
    /\ \A j \in 1 .. Len(sent) : j \notin {2 * k - 1, 2 * k} => packet[j] = sent[j]

\* verify_checksum sums the same totals, shifted by the damage once it has passed it.
Verifying ==
    phase \in {"verify", "accepted", "rejected"} =>
      /\ i <= Words(packet)
      /\ \A k \in Nat \ {0} : Within(k) =>
           total = Before(i) + (IF i >= k THEN Summed(packet, k) - Summed(sent, k) ELSE 0)

\* What the verdict was based on.
Judged ==
    /\ phase = "accepted" => i = Words(packet) /\ Result = Word(packet, ChecksumWord)
    /\ phase = "rejected" =>
         Len(packet) < Header \/ (i = Words(packet) /\ Result # Word(packet, ChecksumWord))

Inv ==
    /\ TypeOK
    /\ Accumulator
    /\ Creating
    /\ Sending
    /\ Verifying
    /\ Judged

\* One turn of the loop keeps the accumulator a one's complement sum.
LEMMA AddWordKeepsSum ==
  ASSUME packet \in Seq(Byte), Accumulator, AddWord
  PROVE  Accumulator'
<1>0. /\ W \in Nat /\ W >= 4 /\ s \in Nat /\ s <= W - 1
      /\ i \in Nat /\ total \in Nat /\ carries \in Nat /\ (s = 0 => total = 0)
  BY WType DEF Accumulator
<1>1. PICK w \in Nat : w = Summed(packet, i + 1) /\ w <= W - 1
  BY <1>0, WordType
<1>2. PICK x \in Nat : x = s + w /\ x <= 2 * (W - 1)
  BY <1>0, <1>1
<1>3. PICK q \in {0, 1} : q = x \div W
  BY <1>2, FoldOnce
<1>4. /\ s' = Fold(x) /\ total' = total + w /\ carries' = carries + q /\ i' = i + 1
  BY <1>1, <1>2, <1>3 DEF AddWord
<1>5. /\ Fold(x) \in 0 .. W - 1 /\ x = Fold(x) + q * (W - 1) /\ (Fold(x) = 0 => x = 0)
  BY <1>2, <1>3, FoldOnce
<1>6. (carries + q) * (W - 1) = carries * (W - 1) + q * (W - 1)
  BY <1>3, WType, SMTT(30) DEF Accumulator
<1>7. carries * (W - 1) \in Nat /\ q * (W - 1) \in Nat
  BY <1>3, WType, SMTT(30) DEF Accumulator
<1>8. total' = s' + carries' * (W - 1)
  <2>1. PICK c \in Nat, d \in Nat : c = carries * (W - 1) /\ d = q * (W - 1)
    BY <1>7
  <2>2. total = s + c /\ s \in Nat
    BY <2>1, WType DEF Accumulator
  <2>3. x = Fold(x) + d /\ Fold(x) \in Nat
    BY <1>5, <2>1, WType
  <2>4. carries' * (W - 1) = c + d
    BY <1>4, <1>6, <2>1
  <2>5. total' = s + c + w /\ s' = Fold(x)
    BY <1>1, <1>4, <2>2
  <2>6. PICK f \in Nat : f = Fold(x)
    BY <2>3
  <2>7. s + w = f + d
    BY <1>2, <2>3, <2>6
  <2>8. s + c + w = f + (c + d)
    BY <1>1, <2>2, <2>7
  <2>9. QED
    BY <2>4, <2>5, <2>6, <2>8
<1>9. s' = 0 => total' = 0
  <2>1. s' = 0 => s = 0 /\ w = 0
    <3>1. s' = 0 => x = 0
      BY <1>4, <1>5
    <3>2. x = 0 => s = 0 /\ w = 0
      BY <1>0, <1>1, <1>2
    <3>3. QED
      BY <3>1, <3>2
  <2>2. QED
    BY <1>0, <1>4, <2>1
<1>10. /\ i' \in Nat /\ total' \in Nat /\ carries' \in Nat
  BY <1>0, <1>1, <1>3, <1>4
<1>11. s' \in 0 .. W - 1
  BY <1>4, <1>5
<1>12. QED
  BY <1>8, <1>9, <1>10, <1>11 DEF Accumulator

LEMMA AccumulatorStep ==
  ASSUME TypeOK, Accumulator, [Next]_vars
  PROVE  Accumulator'
<1>1. CASE AddWord
  BY <1>1, AddWordKeepsSum DEF TypeOK
<1>2. CASE UNCHANGED sumVars
  BY <1>2 DEF Accumulator, sumVars
<1>3. CASE VerifyStart
  BY <1>3, WType DEF Accumulator, VerifyStart
<1>4. QED
  BY <1>1, <1>2, <1>3
  DEF Next, vars, CreateSum, CreateDone, DamageWord, Truncate, VerifySum, VerifyDone

\* What calculate_checksum returns is the complement of s, a word.
LEMMA ResultIsComplement ==
  ASSUME Accumulator
  PROVE  Result = W - 1 - s /\ Result \in 0 .. W - 1 /\ Sums(total, s)
<1>1. s \in Nat /\ s < W /\ s <= 2 * (W - 1)
  BY WType DEF Accumulator
<1>2. Fold(s) = s
  BY <1>1, FoldOnce
<1>3. QED
  BY <1>1, <1>2, WType DEF Result, Sums, Accumulator

LEMMA TypeStep ==
  ASSUME TypeOK, Accumulator, [Next]_vars
  PROVE  TypeOK'
<1>1. /\ i' \in Nat /\ s' \in Nat /\ total' \in Nat /\ carries' \in Nat
  BY AccumulatorStep, WType DEF Accumulator
<1>2. CASE CreateSum
  <2>1. trace' \in Seq(Nat)
    BY <1>1, <1>2 DEF CreateSum, TypeOK
  <2>2. QED
    BY <1>1, <1>2, <2>1 DEF CreateSum, TypeOK
<1>3. CASE CreateDone
  <2>1. PICK h \in Byte, l \in Byte : h = Result \div B /\ l = Result % B
    BY ResultIsComplement, SplitWord
  <2>2. packet' = Patched(packet, 3, h, 4, l) /\ sent' = packet'
    BY <1>3, <2>1 DEF CreateDone, Patched
  <2>3. packet' \in Seq(Byte)
    BY <2>2, BytesChanged DEF TypeOK
  <2>4. QED
    BY <1>1, <1>3, <2>2, <2>3 DEF CreateDone, TypeOK, Phases
<1>4. CASE DamageWord
  <2>1. PICK k \in 1 .. Len(packet), h \in Byte, l \in Byte :
          packet' = Patched(packet, 2 * k - 1, h, 2 * k, l)
    BY <1>4 DEF DamageWord, Patched
  <2>2. packet' \in Seq(Byte)
    BY <2>1, BytesChanged DEF TypeOK
  <2>3. QED
    BY <1>1, <1>4, <2>2 DEF DamageWord, TypeOK
<1>5. CASE Truncate
  <2>1. PICK n \in 0 .. Len(packet) : packet' = SubSeq(packet, 1, n)
    BY <1>5 DEF Truncate
  <2>2. packet' \in Seq(Byte)
    BY <2>1 DEF TypeOK
  <2>3. QED
    BY <1>1, <1>5, <2>2 DEF Truncate, TypeOK
<1>6. CASE VerifyStart \/ VerifySum \/ VerifyDone \/ UNCHANGED vars
  BY <1>1, <1>6 DEF VerifyStart, VerifySum, VerifyDone, TypeOK, Phases, vars
<1>7. QED
  BY <1>2, <1>3, <1>4, <1>5, <1>6 DEF Next

LEMMA CreatingStep ==
  ASSUME Inv, [Next]_vars
  PROVE  Creating'
<1>1. /\ packet \in Seq(Byte) /\ trace \in Seq(Nat) /\ i \in Nat /\ total \in Nat
      /\ Creating
  BY DEF Inv, TypeOK
<1>2. CASE CreateSum
  <2>1. /\ Len(packet) >= Header /\ i = Len(trace) /\ total = Before(i) /\ Traced(packet)
    BY <1>1, <1>2 DEF Creating, CreateSum
  <2>2. PICK w \in Nat : w = Summed(packet, i + 1)
    BY <1>1, WordType, WType
  <2>3. /\ i' = i + 1 /\ i < Words(packet) /\ total' = total + w
        /\ trace' = Append(trace, total + w) /\ packet' = packet
    BY <1>2, <2>2 DEF CreateSum, AddWord
  <2>4. /\ Len(trace') = i + 1 /\ trace'[i + 1] = total + w
        /\ \A j \in 1 .. i : trace'[j] = trace[j]
    BY <1>1, <2>1, <2>2, <2>3
  <2>5. \A j \in 0 .. i : Before(j)' = Before(j)
    BY <2>4 DEF Before
  <2>6. Traced(packet)'
    <3>1. SUFFICES ASSUME NEW j \in 1 .. Len(trace')
                   PROVE  trace'[j] = Before(j - 1)' + Summed(packet, j)
      BY <2>3 DEF Traced, Summed, Word
    <3>2. CASE j \in 1 .. i
      <4>1. trace[j] = Before(j - 1) + Summed(packet, j)
        BY <2>1, <3>2 DEF Traced
      <4>2. Before(j - 1)' = Before(j - 1)
        BY <1>1, <2>5, <3>2
      <4>3. QED
        BY <2>4, <3>2, <4>1, <4>2
    <3>3. CASE j = i + 1
      <4>1. j - 1 = i /\ Before(j - 1)' = total
        BY <1>1, <2>1, <2>5, <3>3
      <4>2. QED
        BY <2>2, <2>4, <3>3, <4>1
    <3>4. QED
      BY <1>1, <2>4, <3>2, <3>3
  <2>7. total' = Before(i)'
    BY <1>1, <2>3, <2>4 DEF Before
  <2>8. i' <= Words(packet)
    BY <1>1, <2>3, WordsType
  <2>9. QED
    BY <2>1, <2>3, <2>4, <2>6, <2>7, <2>8 DEF Creating, Words
<1>3. CASE UNCHANGED vars
  BY <1>1, <1>3
  DEF Creating, Traced, Before, vars, sumVars, Words, Summed, Word, ByteAt
<1>4. CASE phase' # "create"
  BY <1>4 DEF Creating
<1>5. QED
  BY <1>2, <1>3, <1>4
  DEF Next, CreateDone, DamageWord, Truncate, VerifyStart, VerifySum, VerifyDone

\* create_icmp_packet puts the complement of the sum into the second word, which the
\* sum takes as zero before and after.
LEMMA SendingStep ==
  ASSUME Inv, [Next]_vars
  PROVE  Sending'
<1>1. /\ packet \in Seq(Byte) /\ trace \in Seq(Nat) /\ Accumulator /\ Creating /\ Sending
  BY DEF Inv, TypeOK
<1>2. CASE CreateDone
  <2>1. /\ Len(packet) >= Header /\ Len(trace) = Words(packet) /\ Len(trace) = i
        /\ total = Before(i) /\ Traced(packet)
    BY <1>1, <1>2 DEF Creating, CreateDone
  <2>2. PICK h \in Byte, l \in Byte :
          h = Result \div B /\ l = Result % B /\ h * B + l = Result
    BY <1>1, ResultIsComplement, SplitWord
  <2>3. PICK p : p = Patched(packet, 3, h, 4, l)
    OBVIOUS
  <2>4. sent' = p /\ trace' = trace
    BY <1>2, <2>2, <2>3 DEF CreateDone, Patched
  <2>5. /\ p \in Seq(Byte) /\ Len(p) = Len(packet)
        /\ \A b \in 1 .. Len(p) : p[b] = IF b = 4 THEN l ELSE IF b = 3 THEN h ELSE packet[b]
    <3>1. /\ p \in Seq(Byte) /\ Len(p) = Len(packet)
          /\ \A b \in 1 .. Len(packet) :
               p[b] = IF b = 4 THEN l ELSE IF b = 3 THEN h ELSE packet[b]
      BY <1>1, <2>3, BytesChanged
    <3>2. QED
      BY <3>1
  <2>6. Len(p) >= 4 /\ Len(p) >= Header /\ Words(p) = Words(packet)
    BY <2>1, <2>5, ChecksumAssumption DEF Words
  <2>7. Word(p, ChecksumWord) = W - 1 - s
    <3>1. p[3] = h /\ p[4] = l
      BY <2>5, <2>6
    <3>2. Word(p, 2) = p[3] * B + p[4]
      BY <2>6 DEF Word, ByteAt
    <3>3. QED
      BY <1>1, <2>2, <3>1, <3>2, ResultIsComplement DEF ChecksumWord
  <2>8. ASSUME NEW k \in Nat \ {0} PROVE Summed(p, k) = Summed(packet, k)
    <3>1. CASE k = ChecksumWord
      BY <3>1 DEF Summed
    <3>2. CASE k # ChecksumWord
      <4>1. \A b \in {2 * k - 1, 2 * k} : b # 3 /\ b # 4
        BY <3>2 DEF ChecksumWord
      <4>2. QED
        BY <1>1, <2>5, <4>1, SameBytesSameWord
    <3>3. QED
      BY <3>1, <3>2
  <2>9. Traced(p)
    BY <2>1, <2>8 DEF Traced
  <2>10. Traced(sent)' /\ Before(Len(trace))' = total
    BY <2>1, <2>4, <2>9 DEF Traced, Before, Summed, Word, ByteAt
  <2>11. Word(sent, ChecksumWord)' = W - 1 - s /\ Words(sent)' = Words(p)
    BY <2>4, <2>7 DEF Word, ByteAt, Words
  <2>12. Sums(total, s)
    BY <1>1, ResultIsComplement
  <2>13. PICK r : r = s
    OBVIOUS
  <2>14. Sums(Before(Len(trace))', r) /\ Word(sent, ChecksumWord)' = W - 1 - r
    BY <2>10, <2>11, <2>12, <2>13
  <2>15. QED
    BY <2>1, <2>4, <2>6, <2>10, <2>11, <2>14 DEF Sending
<1>3. CASE UNCHANGED <<sent, trace>> /\ phase # "create"
  BY <1>1, <1>3 DEF Sending, Traced, Before, Words, Summed, Word, ByteAt
<1>4. CASE phase' = "create"
  BY <1>4 DEF Sending
<1>5. QED
  BY <1>2, <1>3, <1>4
  DEF Next, vars, CreateSum, DamageWord, Truncate, VerifyStart, VerifySum, VerifyDone

\* Within one word's damage, verify_checksum follows the totals of create_icmp_packet.
LEMMA VerifyingStep ==
  ASSUME Inv, [Next]_vars
  PROVE  Verifying'
<1>1. /\ packet \in Seq(Byte) /\ sent \in Seq(Byte) /\ trace \in Seq(Nat)
      /\ i \in Nat /\ total \in Nat /\ Sending /\ Verifying
  BY DEF Inv, TypeOK
<1>2. CASE VerifyStart
  <2>1. i' = 0 /\ total' = 0 /\ packet' = packet
    BY <1>2 DEF VerifyStart
  <2>2. 0 <= Words(packet)
    BY <1>1, WordsType
  <2>3. QED
    BY <2>1, <2>2 DEF Verifying, Before, Words
<1>3. CASE VerifySum
  <2>1. /\ i <= Words(packet) /\ i' = i + 1 /\ i < Words(packet)
        /\ total' = total + Summed(packet, i + 1)
        /\ UNCHANGED <<packet, sent, trace>> /\ phase = "verify"
    BY <1>1, <1>3 DEF VerifySum, AddWord, Verifying
  <2>2. i' <= Words(packet)
    BY <1>1, <2>1, WordsType
  <2>3. ASSUME NEW k \in Nat \ {0}, Within(k)
        PROVE  total' = Before(i + 1) +
                 (IF i + 1 >= k THEN Summed(packet, k) - Summed(sent, k) ELSE 0)
    <3>1. total = Before(i) + (IF i >= k THEN Summed(packet, k) - Summed(sent, k) ELSE 0)
      BY <1>1, <2>1, <2>3 DEF Verifying
    <3>2. Traced(sent) /\ Len(trace) = Words(sent) /\ Words(sent) = Words(packet)
      BY <1>1, <2>1, <2>3 DEF Sending, Within, Words
    <3>3. i + 1 \in 1 .. Len(trace)
      BY <1>1, <2>1, <3>2
    <3>4. Before(i + 1) = Before(i) + Summed(sent, i + 1)
      <4>1. trace[i + 1] = Before((i + 1) - 1) + Summed(sent, i + 1)
        BY <3>2, <3>3 DEF Traced
      <4>2. (i + 1) - 1 = i /\ i + 1 # 0
        BY <1>1
      <4>3. QED
        BY <4>1, <4>2 DEF Before
    <3>5. PICK n \in Nat \ {0} : n = i + 1
      BY <1>1
    <3>6. /\ Summed(packet, n) \in Int /\ Summed(sent, n) \in Int
          /\ Summed(packet, k) \in Int /\ Summed(sent, k) \in Int
      <4>1. \A z \in 0 .. W - 1 : z \in Int
        BY WType
      <4>2. QED
        BY <1>1, <4>1, WordType
    <3>7. PICK w \in Int, v \in Int, d \in Int :
             w = Summed(packet, n) /\ v = Summed(sent, n) /\ d = Summed(packet, k) - Summed(sent, k)
      BY <3>6
    <3>8. PICK b \in Nat : b = Before(i)
      BY <1>1, <3>3 DEF Before
    <3>9. /\ total = b + (IF i >= k THEN d ELSE 0) /\ total' = total + w
          /\ Before(n) = b + v /\ i = n - 1
      BY <1>1, <2>1, <3>1, <3>4, <3>5, <3>7, <3>8
    <3>10. SUFFICES total' = (b + v) + (IF n >= k THEN d ELSE 0)
      BY <3>5, <3>7, <3>9
    <3>11. CASE n = k
      <4>1. d = w - v
        BY <3>11, <3>7
      <4>2. ~(i >= k) /\ n >= k
        BY <3>9, <3>11
      <4>3. QED
        BY <3>9, <4>1, <4>2
    <3>12. CASE n # k
      <4>1. \A c \in {2 * n - 1, 2 * n} : c # 2 * k - 1 /\ c # 2 * k
        BY <3>12
      <4>2. Len(packet) = Len(sent)
            /\ \A c \in {2 * n - 1, 2 * n} \cap (1 .. Len(packet)) : packet[c] = sent[c]
        BY <2>3, <4>1 DEF Within
      <4>3. w = v
        BY <1>1, <3>7, <4>2, SameBytesSameWord
      <4>4. (n >= k) <=> (i >= k)
        BY <3>9, <3>12
      <4>5. QED
        BY <3>9, <4>3, <4>4
    <3>13. QED
      BY <3>11, <3>12
  <2>4. ASSUME NEW k \in Nat \ {0}
        PROVE  /\ Within(k)' <=> Within(k)
               /\ Summed(packet, k)' = Summed(packet, k) /\ Summed(sent, k)' = Summed(sent, k)
    BY <2>1 DEF Within, Summed, Word, ByteAt
  <2>5. \A k \in Nat : Before(k)' = Before(k)
    BY <2>1 DEF Before
  <2>6. Before(i)' = Before(i + 1) /\ Words(packet)' = Words(packet)
    BY <2>1 DEF Before, Words
  <2>7. QED
    BY <2>1, <2>2, <2>3, <2>4, <2>6 DEF Verifying
<1>4. CASE VerifyDone \/ UNCHANGED vars
  <2>1. /\ UNCHANGED <<packet, sent, trace, i, total>>
        /\ phase' \in {"verify", "accepted", "rejected"} =>
             phase \in {"verify", "accepted", "rejected"}
    BY <1>4 DEF VerifyDone, vars, sumVars
  <2>2. ASSUME NEW k \in Nat \ {0}
        PROVE  /\ Within(k)' <=> Within(k)
               /\ Summed(packet, k)' = Summed(packet, k) /\ Summed(sent, k)' = Summed(sent, k)
    BY <2>1 DEF Within, Summed, Word, ByteAt
  <2>3. Before(i)' = Before(i) /\ Words(packet)' = Words(packet)
    BY <2>1 DEF Before, Words
  <2>4. QED
    BY <1>1, <2>1, <2>2, <2>3 DEF Verifying
<1>5. CASE phase' \in {"create", "sent"}
  BY <1>5 DEF Verifying
<1>6. QED
  BY <1>2, <1>3, <1>4, <1>5 DEF Next, CreateSum, CreateDone, DamageWord, Truncate

LEMMA JudgedStep ==
  ASSUME Inv, [Next]_vars
  PROVE  Judged'
<1>1. Judged
  BY DEF Inv
<1>2. CASE VerifyDone
  BY <1>2 DEF VerifyDone, Judged, sumVars, Words, Word, ByteAt, Result, Fold
<1>3. CASE VerifyStart
  BY <1>3 DEF VerifyStart, Judged
<1>4. CASE UNCHANGED vars
  BY <1>1, <1>4 DEF Judged, vars, sumVars, Words, Word, ByteAt, Result, Fold
<1>5. CASE phase' \in {"create", "sent", "verify"}
  BY <1>5 DEF Judged
<1>6. QED
  BY <1>2, <1>3, <1>4, <1>5
  DEF Next, CreateSum, CreateDone, DamageWord, Truncate, VerifySum

LEMMA InvInit == Init => Inv
<1> SUFFICES ASSUME Init PROVE Inv
  OBVIOUS
<1>1. PICK n \in Header .. MaxLen : packet \in [1 .. n -> Byte]
  BY DEF Init, Packet
<1>2. n \in Nat
  BY ChecksumAssumption
<1>3. packet \in Seq(Byte) /\ Len(packet) = n
  BY <1>1, <1>2, SeqDef, LenProperties
<1>4. TypeOK
  BY <1>3 DEF Init, TypeOK, Phases
<1>5. Accumulator
  <2>1. 0 * (W - 1) = 0 /\ 0 \in 0 .. W - 1
    BY WType
  <2>2. QED
    BY <2>1 DEF Init, Accumulator
<1>6. Creating
  BY <1>1, <1>3, WordsType, ChecksumAssumption DEF Init, Creating, Before, Traced
<1>7. Sending /\ Verifying /\ Judged
  BY DEF Init, Sending, Verifying, Judged
<1>8. QED
  BY <1>4, <1>5, <1>6, <1>7 DEF Inv

LEMMA AlwaysInv == Spec => []Inv
<1>1. Inv /\ [Next]_vars => Inv'
  <2>1. SUFFICES ASSUME Inv, [Next]_vars PROVE Inv'
    OBVIOUS
  <2>2. TypeOK' /\ Accumulator'
    BY <2>1, TypeStep, AccumulatorStep DEF Inv
  <2>3. Creating' /\ Sending' /\ Verifying' /\ Judged'
    BY <2>1, CreatingStep, SendingStep, VerifyingStep, JudgedStep
  <2>4. QED
    BY <2>2, <2>3 DEF Inv
<1>2. QED
  BY <1>1, InvInit, PTL DEF Spec

-----------------------------------------------------------------------------
(* Theorems *)

\* Bytes stay bytes: what create_icmp_packet stores as the checksum fits its field.
THEOREM ChecksumTypeCorrect == Spec => []TypeOK
<1>1. Inv => TypeOK
  BY DEF Inv
<1>2. QED
  BY <1>1, AlwaysInv, PTL

\* The accumulator of calculate_checksum is the one's complement sum of the words so
\* far, folded, for packets of every length.
THEOREM SumIsOnesComplement == Spec => []OnesComplementSum
<1>1. ASSUME Inv PROVE OnesComplementSum
  <2>1. s \in Nat /\ s < W /\ s <= 2 * (W - 1) /\ Accumulator
    BY <1>1, WType DEF Inv, Accumulator
  <2>2. Fold(s) = s
    BY <2>1, FoldOnce
  <2>3. QED
    BY <2>1, <2>2 DEF OnesComplementSum, Accumulator
<1>2. QED
  BY <1>1, AlwaysInv, PTL

\* When verify_checksum has summed a packet that differs in nothing but word k, it
\* has the total of the packet as sent, with word k exchanged.
LEMMA FinalTotal ==
  ASSUME Inv, phase \in {"accepted", "rejected"}, i = Words(packet),
         NEW k \in Nat \ {0}, Within(k)
  PROVE  \E t \in Nat, r \in 0 .. W - 1 :
           /\ Sums(t, r) /\ Word(sent, ChecksumWord) = W - 1 - r
           /\ Sums(total, s)
           /\ total = t + (IF k <= Words(sent) THEN Summed(packet, k) - Summed(sent, k) ELSE 0)
<1>1. /\ packet \in Seq(Byte) /\ sent \in Seq(Byte) /\ trace \in Seq(Nat)
      /\ Accumulator /\ Sending /\ Verifying
  BY DEF Inv, TypeOK
<1>2. Len(trace) = Words(sent) /\ Words(sent) = Words(packet) /\ i = Len(trace)
  BY <1>1 DEF Sending, Within, Words
<1>3. PICK r : Sums(Before(Len(trace)), r) /\ Word(sent, ChecksumWord) = W - 1 - r
  BY <1>1 DEF Sending
<1>4. PICK t \in Nat : t = Before(Len(trace))
  BY <1>1 DEF Before
<1>5. r \in 0 .. W - 1
  BY <1>3 DEF Sums
<1>6. total = t + (IF i >= k THEN Summed(packet, k) - Summed(sent, k) ELSE 0)
  BY <1>1, <1>2, <1>4 DEF Verifying
<1>7. (i >= k) <=> (k <= Words(sent))
  BY <1>1, <1>2, WordsType
<1>8. QED
  BY <1>1, <1>2, <1>3, <1>4, <1>5, <1>6, <1>7, ResultIsComplement

\* Packets that differ in no byte are equal.
LEMMA SamePacket ==
  ASSUME NEW p \in Seq(Byte), NEW q \in Seq(Byte), Len(p) = Len(q),
         \A b \in 1 .. Len(p) : p[b] = q[b]
  PROVE  p = q
BY SeqEqual

\* verify_checksum accepts every packet of create_icmp_packet that arrives as it was
\* sent, whatever its length and its bytes.
THEOREM GoodPacketsAccepted == Spec => []UndamagedAccepted
<1>1. ASSUME Inv, phase = "rejected", packet = sent PROVE FALSE
  <2>1. Within(1) /\ packet \in Seq(Byte) /\ Accumulator
    BY <1>1 DEF Within, Inv, TypeOK
  <2>2. i = Words(packet) /\ Result # Word(packet, ChecksumWord)
    BY <1>1, ChecksumAssumption DEF Inv, Judged, Sending, TypeOK
  <2>3. PICK t \in Nat, r \in 0 .. W - 1 :
          /\ Sums(t, r) /\ Word(sent, ChecksumWord) = W - 1 - r
          /\ Sums(total, s)
          /\ total = t + (IF 1 <= Words(sent) THEN Summed(packet, 1) - Summed(sent, 1) ELSE 0)
    BY <1>1, <2>1, <2>2, FinalTotal
  <2>4. Summed(packet, 1) = Summed(sent, 1) /\ Summed(sent, 1) \in 0 .. W - 1
    BY <1>1, <2>1, WordType
  <2>5. total = t
    BY <2>3, <2>4, WType
  <2>6. r = s
    BY <2>3, <2>5, SumsUnique
  <2>7. Result = W - 1 - s
    BY <2>1, ResultIsComplement
  <2>8. QED
    BY <1>1, <2>2, <2>3, <2>6, <2>7
<1>2. Inv => UndamagedAccepted
  BY <1>1 DEF UndamagedAccepted
<1>3. QED
  BY <1>2, AlwaysInv, PTL

\* A packet of which one word was changed is rejected, except where the change is from
\* one zero of one's complement arithmetic to the other.
THEOREM OneWordDetected == Spec => []WordDamageDetected
<1>1. ASSUME Inv, phase = "accepted", NEW k \in 1 .. Len(sent), DiffersOnlyIn(k)
      PROVE  k # ChecksumWord /\ {Word(sent, k), Word(packet, k)} = {0, W - 1}
  <2>1. /\ Within(k) /\ k \in Nat \ {0} /\ packet # sent /\ Len(packet) = Len(sent)
        /\ packet \in Seq(Byte) /\ sent \in Seq(Byte) /\ Accumulator
    BY <1>1 DEF Within, DiffersOnlyIn, Inv, TypeOK
  <2>2. i = Words(packet) /\ Result = Word(packet, ChecksumWord)
    BY <1>1 DEF Inv, Judged
  <2>3. PICK t \in Nat, r \in 0 .. W - 1 :
          /\ Sums(t, r) /\ Word(sent, ChecksumWord) = W - 1 - r
          /\ Sums(total, s)
          /\ total = t + (IF k <= Words(sent) THEN Summed(packet, k) - Summed(sent, k) ELSE 0)
    BY <1>1, <2>1, <2>2, FinalTotal
  <2>4. Word(packet, k) # Word(sent, k)
    <3>1. SUFFICES ASSUME Word(packet, k) = Word(sent, k) PROVE FALSE
      OBVIOUS
    <3>2. \A b \in {2 * k - 1, 2 * k} \cap (1 .. Len(packet)) : packet[b] = sent[b]
      BY <2>1, <3>1, SameWordSameBytes
    <3>3. \A b \in 1 .. Len(packet) : packet[b] = sent[b]
      BY <2>1, <3>2 DEF Within
    <3>4. QED
      BY <2>1, <3>3, SamePacket
  <2>5. Result = W - 1 - s /\ s \in 0 .. W - 1
    BY <2>1, ResultIsComplement DEF Accumulator
  <2>6. k # ChecksumWord
    <3>1. SUFFICES ASSUME k = ChecksumWord PROVE FALSE
      OBVIOUS
    <3>2. total = t
      BY <2>3, <3>1 DEF Summed
    <3>3. r = s
      BY <2>3, <3>2, SumsUnique
    <3>4. QED
      BY <2>2, <2>3, <2>4, <2>5, <3>1, <3>3
  <2>7. k <= Words(sent)
    <3>1. SUFFICES ASSUME k > Words(sent) PROVE FALSE
      BY <2>1, WordsType
    <3>2. \A b \in 1 .. Len(packet) : b # 2 * k - 1 /\ b # 2 * k
      BY <2>1, <3>1, WordsType
    <3>3. QED
      BY <2>1, <3>2, SamePacket DEF Within
  <2>8. r = s
    <3>1. \A b \in {2 * ChecksumWord - 1, 2 * ChecksumWord} : b # 2 * k - 1 /\ b # 2 * k
      BY <2>1, <2>6 DEF ChecksumWord
    <3>2. ChecksumWord \in Nat \ {0}
      BY DEF ChecksumWord
    <3>3. Word(packet, ChecksumWord) = Word(sent, ChecksumWord)
      BY <2>1, <3>1, <3>2, SameBytesSameWord DEF Within
    <3>4. W - 1 - s = W - 1 - r
      BY <2>2, <2>3, <2>5, <3>3
    <3>5. s \in Int /\ r \in Int /\ W \in Int
      BY <2>5, WType
    <3>6. QED
      BY <3>4, <3>5
  <2>9. PICK w \in 0 .. W - 1, v \in 0 .. W - 1 : w = Word(packet, k) /\ v = Word(sent, k)
    BY <2>1, WordType
  <2>10. total = t + (w - v) /\ total \in Nat
    BY <2>1, <2>3, <2>6, <2>7, <2>9 DEF Summed, Accumulator
  <2>11. W \in Nat /\ W >= 4 /\ Sums(total, r) /\ Sums(t, r) /\ w # v
    BY <2>3, <2>4, <2>8, <2>9, WType
  <2>12. {v, w} = {0, W - 1}
    BY <2>10, <2>11, OnlyZerosExchanged
  <2>13. QED
    BY <2>6, <2>9, <2>12
<1>2. Inv => WordDamageDetected
  BY <1>1 DEF WordDamageDetected
<1>3. QED
  BY <1>2, AlwaysInv, PTL
=============================================================================
