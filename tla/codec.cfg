\* Bytes of three values, packets of two and of three words, even and odd.
SPECIFICATION Spec
CONSTANTS
    B = 3
    Header = 4
    MaxLen = 6
INVARIANTS
    TypeOK
    OnesComplementSum
    UndamagedAccepted
    WordDamageDetected
CHECK_DEADLOCK FALSE
