------------------------------- MODULE Checksum -------------------------------
(***************************************************************************)
(* The ICMP checksum of icmp_utils.py: create_icmp_packet sums a packet and *)
(* stores the complement, the network may change the packet, and            *)
(* verify_checksum sums it again.  calculate_checksum runs word by word, so *)
(* that its accumulator, which folds the carry once per word, is a variable *)
(* here.  A byte has B values, 256 in the code; a word W = B^2.             *)
(***************************************************************************)
EXTENDS Integers, Sequences

CONSTANTS
    B,       \* values of a byte
    Header,  \* ICMP_SIZE: bytes of type, code, checksum and rest of header
    MaxLen   \* the longest packet create_icmp_packet allows

W == B * B
Byte == 0 .. B - 1

ASSUME ChecksumAssumption ==
    /\ B \in Nat /\ B >= 2
    /\ Header \in Nat /\ Header >= 4
    /\ MaxLen \in Nat

\* Bytes 3 and 4, the second word, hold the checksum.
ChecksumWord == 2

Packet == UNION {[1 .. n -> Byte] : n \in Header .. MaxLen}

\* Byte k, with the zero byte that pads a packet of odd length.
ByteAt(p, k) == IF k <= Len(p) THEN p[k] ELSE 0

\* Mutant of Words: an odd byte at the end is left out.
WholeWords(p) == Len(p) \div 2

Words(p) == (Len(p) + 1) \div 2

\* (data[i] << 8) + data[i + 1]
Word(p, k) == ByteAt(p, 2 * k - 1) * B + ByteAt(p, 2 * k)

\* Mutant of Summed: the checksum field is not taken as zero.
SummedAsIs(p, k) == Word(p, k)

\* What the sum takes from word k: both callers zero the checksum field first.
Summed(p, k) == IF k = ChecksumWord THEN 0 ELSE Word(p, k)

\* Mutant of Fold: the carry is dropped.
FoldDropsCarry(x) == x % W

\* (s & 0xFFFF) + (s >> 16)
Fold(x) == (x % W) + (x \div W)

VARIABLES
    phase,   \* what is done with the packet
    packet,  \* the bytes, as they are now
    i,       \* words summed so far
    s,       \* the accumulator s of calculate_checksum
    total,   \* history: the sum of those words as a number
    carries, \* history: what Fold has carried around
    sent,    \* history: the packet as create_icmp_packet returned it
    trace    \* history: total after each word of sent

sumVars == <<i, s, total, carries>>
vars == <<phase, packet, sumVars, sent, trace>>

Phases == {"create", "sent", "verify", "accepted", "rejected"}

TypeOK ==
    /\ phase \in Phases
    /\ packet \in Seq(Byte)
    /\ i \in Nat /\ s \in Nat /\ total \in Nat /\ carries \in Nat
    /\ sent \in Seq(Byte)
    /\ trace \in Seq(Nat)

\* Any header and payload, with zero in the checksum field.
Init ==
    /\ phase = "create"
    /\ packet \in Packet
    /\ packet[3] = 0 /\ packet[4] = 0
    /\ i = 0 /\ s = 0 /\ total = 0 /\ carries = 0
    /\ sent = << >> /\ trace = << >>

-----------------------------------------------------------------------------
(* calculate_checksum *)

\* One turn of the for loop.
AddWord ==
    /\ i < Words(packet)
    /\ i' = i + 1
    /\ s' = Fold(s + Summed(packet, i + 1))
    /\ total' = total + Summed(packet, i + 1)
    /\ carries' = carries + (s + Summed(packet, i + 1)) \div W

\* Mutant of Result: the mask of ~s is gone.
ResultUnmasked == -1 - Fold(s)

\* ~s & 0xFFFF of the accumulator, after the last fold.
Result == W - 1 - Fold(s)

-----------------------------------------------------------------------------
CreateSum ==
    /\ phase = "create"
    /\ AddWord
    /\ trace' = Append(trace, total')
    /\ UNCHANGED <<phase, packet, sent>>

\* The header is packed again, with the checksum.
CreateDone ==
    /\ phase = "create"
    /\ i = Words(packet)
    /\ packet' = [packet EXCEPT ![3] = Result \div B, ![4] = Result % B]
    /\ sent' = packet'
    /\ phase' = "sent"
    /\ UNCHANGED <<sumVars, trace>>

\* The bytes of a word change on the way; of the last one of an odd packet only the
\* first exists.
DamageWord ==
    /\ phase = "sent"
    /\ \E k \in 1 .. Len(packet), high, low \in Byte :
         2 * k - 1 <= Len(packet) /\ packet' = [packet EXCEPT ![2 * k - 1] = high, ![2 * k] = low]
    /\ UNCHANGED <<phase, sumVars, sent, trace>>

\* The end of the packet is lost.
Truncate ==
    /\ phase = "sent"
    /\ \E n \in 0 .. Len(packet) : packet' = SubSeq(packet, 1, n)
    /\ UNCHANGED <<phase, sumVars, sent, trace>>

\* verify_checksum: shorter than a header, or zeroed and summed.
VerifyStart ==
    /\ phase = "sent"
    /\ phase' = IF Len(packet) < Header THEN "rejected" ELSE "verify"
    /\ i' = 0 /\ s' = 0 /\ total' = 0 /\ carries' = 0
    /\ UNCHANGED <<packet, sent, trace>>

VerifySum ==
    /\ phase = "verify"
    /\ AddWord
    /\ UNCHANGED <<phase, packet, sent, trace>>

VerifyDone ==
    /\ phase = "verify"
    /\ i = Words(packet)
    /\ phase' = IF Result = Word(packet, ChecksumWord) THEN "accepted" ELSE "rejected"
    /\ UNCHANGED <<packet, sumVars, sent, trace>>

Next ==
    \/ CreateSum \/ CreateDone \/ DamageWord \/ Truncate
    \/ VerifyStart \/ VerifySum \/ VerifyDone

Spec == Init /\ [][Next]_vars

-----------------------------------------------------------------------------
(* Properties *)

\* The accumulator is the one's complement sum of the words so far: it fits a word,
\* so that one fold per word is enough and the last one changes nothing; it is
\* congruent to the true sum modulo W - 1; and it is zero for zeros alone.
OnesComplementSum ==
    /\ s < W /\ Fold(s) = s
    /\ total = s + carries * (W - 1)
    /\ s = 0 => total = 0

\* What arrives as it was created is accepted, whatever its length and its bytes.
UndamagedAccepted == phase = "rejected" => packet # sent

\* packet differs from sent, in nothing but word k.
DiffersOnlyIn(k) ==
    /\ Len(packet) = Len(sent) /\ packet # sent
    /\ \A j \in 1 .. Len(sent) : j \notin {2 * k - 1, 2 * k} => packet[j] = sent[j]

\* A change of one word is detected, unless it exchanges the two zeros of one's
\* complement; a change of the checksum field itself always is.
WordDamageDetected ==
    phase = "accepted" =>
      \A k \in 1 .. Len(sent) : DiffersOnlyIn(k) =>
        k # ChecksumWord /\ {Word(sent, k), Word(packet, k)} = {0, W - 1}
=============================================================================
