------------------------ MODULE VideoSettingsProofs -------------------------
(***************************************************************************)
(* Proofs about VideoSettings, for every number of callers, every EDID     *)
(* text, quality, source and kernel log, and every block size.             *)
(***************************************************************************)
EXTENDS VideoSettings, FiniteSetTheorems, WellFoundedInduction, TLAPS

-----------------------------------------------------------------------------
(***************************************************************************)
(* The parts of the inductive invariant.                                   *)
(***************************************************************************)

\* videoLock is held exactly by the caller past its Lock(), and extraLock by nobody
\* or by that caller while it runs.
LockInv ==
    /\ \A c \in Callers : pc[c] \in {"try", "run", "extra", "refused", "unlock"} <=> videoLock = c
    /\ \A c \in Callers : pc[c] = "extra" => extraLock = c
    /\ extraLock # Nobody => videoLock = extraLock /\ pc[extraLock] \in {"run", "extra"}

\* An answer of VideoLogStatus comes from a kernel log.
Answered(a) ==
    /\ a.op = "answered" /\ a.log \in Logs
    /\ a.text # Error => a.text = videoc_log_status(a.log)

ArgInv ==
    /\ arg = [c \in Callers |-> arg[c]]
    /\ \A c \in Callers : arg[c] \in Calls \cup {NoCall} \/ Answered(arg[c])

\* The characters of a text.
Chars == 0..Other

\* The chip shows no EDID before one has been accepted, and afterwards the bytes of
\* the last text that was, with the checksums mended.
Accepted(s) ==
    LET w == hex_to_bytes(s, 2 * BlockSize)
    IN  /\ s \in Seq(Chars)
        /\ w # Error /\ ValidSize(w)
        /\ edid = fix_edid_checksum(w)
EdidInv == (edid = <<>> /\ asked = <<>>) \/ Accepted(asked)

IInv ==
    /\ TypeOK /\ LockInv /\ NeverRefused /\ ArgInv /\ EdidInv
    /\ codec \in 0..1 /\ EncoderAccepts

-----------------------------------------------------------------------------
(***************************************************************************)
(* Least and greatest numbers.                                             *)
(***************************************************************************)

\* A set of natural numbers that is not empty has a least member.
LEMMA LeastMember ==
    ASSUME NEW S \in SUBSET Nat, S # {}
    PROVE  \E i \in S : \A j \in S : i <= j
<1> DEFINE R == OpToRel(<, Nat)
<1>1. IsWellFoundedOn(R, Nat)
  BY NatLessThanWellFounded
<1> HIDE DEF R
<1>2. PICK i \in S : \A j \in S : <<j, i>> \notin R
  BY <1>1, WFMin
<1>3. \A m, n \in Nat : m < n => <<m, n>> \in R
  BY DEF R, OpToRel
<1>4. ASSUME NEW j \in S
      PROVE  i <= j
  <2>1. i \in Nat /\ j \in Nat
    OBVIOUS
  <2>2. ~(j < i)
    BY <1>2, <1>3, <2>1, Zenon
  <2>3. QED
    BY <2>1, <2>2
<1>5. QED
  BY <1>4

\* A bounded set of natural numbers that is not empty has a greatest member, and
\* Max returns it.
LEMMA MaxIsGreatest ==
    ASSUME NEW n \in Nat, NEW S \in SUBSET (0..n), S # {}
    PROVE  Max(S) \in S /\ \A j \in S : j <= Max(S)
<1> DEFINE T == {n - i : i \in S}
<1>1. T \in SUBSET Nat /\ T # {}
  OBVIOUS
<1>2. PICK m \in T : \A j \in T : m <= j
  BY <1>1, LeastMember
<1>3. PICK i \in S : m = n - i
  OBVIOUS
<1>4. \A j \in S : n - j \in T /\ j \in 0..n
  OBVIOUS
<1>5. ASSUME NEW j \in S
      PROVE  i >= j
  <2>1. n - i <= n - j
    BY <1>2, <1>3, <1>4
  <2>2. i \in Int /\ j \in Int /\ n \in Int
    OBVIOUS
  <2>3. QED
    BY <2>1, <2>2
<1>6. Max(S) \in S /\ \A j \in S : Max(S) >= j
  BY <1>5 DEF Max
<1>7. QED
  BY <1>6

-----------------------------------------------------------------------------
(***************************************************************************)
(* ctrl.c and edid.c.                                                      *)
(***************************************************************************)

Byte == 0..255

\* A byte is an integer, and so is the remainder of a sum.
LEMMA ByteIsInt ==
    /\ \A x \in Byte : x \in Int /\ 0 <= x /\ x <= 255
    /\ \A x \in Int : x % 256 \in Byte
BY DEF Byte

\* What fix_edid_checksum stores makes the sum zero.
LEMMA ByteComplement ==
    ASSUME NEW x \in Byte
    PROVE  (x + ((256 - x) % 256)) % 256 = 0
<1>1. CASE x = 0
  BY <1>1
<1>2. CASE x # 0
  <2>1. (256 - x) % 256 = 256 - x
    BY <1>2 DEF Byte
  <2>2. x + (256 - x) = 256
    BY DEF Byte
  <2>3. QED
    BY <2>1, <2>2
<1>3. QED
  BY <1>1, <1>2

\* A byte is made of two hexadecimal digits.
LEMMA ByteDigits ==
    ASSUME NEW x \in Byte
    PROVE  /\ Digit(x \div 16) /\ Digit(x % 16)
           /\ 16 * (x \div 16) + (x % 16) = x
BY DEF Byte, Digit

\* The value of two characters is a byte or -1.
LEMMA PairIsByte ==
    ASSUME NEW x \in Chars, NEW y \in Chars
    PROVE  PairValue(x, y) \in Byte \cup {-1}
BY DEF Chars, PairValue, Digit, Byte, Other, Space, Plus, Minus

\* The value of two digits.
LEMMA PairOfDigits ==
    ASSUME NEW x, NEW y, Digit(x), Digit(y)
    PROVE  PairValue(x, y) = 16 * x + y
BY DEF PairValue, Digit, Space, Plus, Minus

\* hex_to_bytes of a text that it accepts: bytes, one per two characters.
LEMMA BytesOfText ==
    ASSUME NEW s \in Seq(Chars), NEW max \in Nat, hex_to_bytes(s, max) # Error
    PROVE  /\ hex_to_bytes(s, max) \in Seq(Byte)
           /\ hex_to_bytes(s, max) = [i \in 1..(Len(s) \div 2) |-> PairValue(s[2 * i - 1], s[2 * i])]
           /\ Len(hex_to_bytes(s, max)) = Len(s) \div 2
<1> DEFINE n     == Len(s) \div 2
           bytes == [i \in 1..n |-> PairValue(s[2 * i - 1], s[2 * i])]
<1>1. n \in Nat /\ Len(s) \in Nat /\ 2 * n <= Len(s)
  OBVIOUS
<1>2. hex_to_bytes(s, max) = bytes /\ -1 \notin {bytes[i] : i \in DOMAIN bytes}
  BY DEF hex_to_bytes
<1>3. ASSUME NEW i \in 1..n
      PROVE  bytes[i] \in Byte
  <2>1. 2 * i - 1 \in 1..Len(s) /\ 2 * i \in 1..Len(s)
    BY <1>1
  <2>2. s[2 * i - 1] \in Chars /\ s[2 * i] \in Chars
    BY <2>1
  <2>3. bytes[i] # -1
    BY <1>2
  <2>4. QED
    BY <2>2, <2>3, PairIsByte
<1>4. bytes \in Seq(Byte) /\ Len(bytes) = n
  BY <1>1, <1>3
<1>5. QED
  BY <1>2, <1>4

\* hex_to_bytes of what bytes_to_hex makes of bytes gives the bytes back.
LEMMA HexRoundTrip ==
    ASSUME NEW b \in Seq(Byte), NEW max \in Nat, Len(b) <= max
    PROVE  hex_to_bytes(bytes_to_hex(b), max) = b
<1> DEFINE s == bytes_to_hex(b)
           n == Len(b)
           bytes == [i \in 1..(Len(s) \div 2) |-> PairValue(s[2 * i - 1], s[2 * i])]
<1>1. n \in Nat /\ \A i \in 1..n : b[i] \in Byte
  OBVIOUS
<1>2. s = [i \in 1..(2 * n) |-> IF i % 2 = 1 THEN b[(i + 1) \div 2] \div 16 ELSE (b[i \div 2]) % 16]
  BY DEF bytes_to_hex
<1>3. Len(s) = 2 * n
  <2>1. 2 * n \in Nat
    BY <1>1
  <2> HIDE DEF s, n
  <2>2. QED
    BY <1>2, <2>1
<1>4. ASSUME NEW i \in 1..n
      PROVE  PairValue(s[2 * i - 1], s[2 * i]) = b[i]
  <2>1. /\ 2 * i - 1 \in 1..(2 * n) /\ (2 * i - 1) % 2 = 1 /\ ((2 * i - 1) + 1) \div 2 = i
        /\ 2 * i \in 1..(2 * n) /\ (2 * i) % 2 = 0 /\ (2 * i) \div 2 = i
    BY <1>1
  <2>2. s[2 * i - 1] = b[i] \div 16 /\ s[2 * i] = b[i] % 16
    BY <1>2, <2>1
  <2>3. /\ Digit(b[i] \div 16) /\ Digit(b[i] % 16)
        /\ 16 * (b[i] \div 16) + (b[i] % 16) = b[i]
    BY <1>1, ByteDigits
  <2> HIDE DEF s
  <2>4. QED
    BY <2>2, <2>3, PairOfDigits
<1>5. Len(s) % 2 = 0 /\ Len(s) \div 2 = n
  BY <1>1, <1>3
<1>6. bytes = [i \in 1..n |-> b[i]]
  BY <1>4, <1>5
<1>7. bytes = b
  BY <1>6
<1>8. -1 \notin {bytes[i] : i \in DOMAIN bytes}
  <2> HIDE DEF bytes
  <2>1. \A i \in DOMAIN b : b[i] # -1
    BY <1>1, ByteIsInt
  <2>2. QED
    BY <1>7, <2>1
<1>9. QED
  BY <1>5, <1>7, <1>8 DEF hex_to_bytes

\* The loop of fix_edid_checksum has a result: a sum of the first n bytes exists for
\* every n.
LEMMA SumsExist ==
    ASSUME NEW b \in Seq(Byte), NEW base \in Nat, base + BlockSize <= Len(b)
    PROVE  \A m \in 0..BlockSize : \E f \in [0..m -> Byte] :
              \A n \in 0..m : f[n] = IF n = 0 THEN 0 ELSE (f[n - 1] + b[base + n]) % 256
<1> DEFINE Sums(m, f) == \A n \in 0..m : f[n] = IF n = 0 THEN 0 ELSE (f[n - 1] + b[base + n]) % 256
           Bad == {m \in 0..BlockSize : ~\E f \in [0..m -> Byte] : Sums(m, f)}
<1>1. SUFFICES ASSUME Bad # {}
               PROVE  FALSE
  OBVIOUS
<1>2. BlockSize \in Nat /\ Bad \in SUBSET Nat
  BY BlockAssumption
<1>3. PICK m \in Bad : \A j \in Bad : m <= j
  BY <1>1, <1>2, LeastMember
<1>4. m \in 0..BlockSize /\ ~\E f \in [0..m -> Byte] : Sums(m, f)
  BY <1>3
<1>5. CASE m = 0
  <2> DEFINE f == [n \in 0..m |-> 0]
  <2>1. f \in [0..m -> Byte] /\ Sums(m, f)
    BY <1>5 DEF Byte
  <2>2. QED
    BY <1>4, <2>1
<1>6. CASE m # 0
  <2> HIDE DEF Bad
  <2>1. m - 1 \in 0..BlockSize /\ m - 1 \notin Bad
    BY <1>2, <1>3, <1>4, <1>6
  <2> USE DEF Bad
  <2>2. PICK g \in [0..(m - 1) -> Byte] : Sums(m - 1, g)
    BY <2>1
  <2> DEFINE f == [n \in 0..m |-> IF n = m THEN (g[m - 1] + b[base + m]) % 256 ELSE g[n]]
  <2>3. b[base + m] \in Byte /\ g[m - 1] \in Byte
    BY <1>2, <1>4, <1>6, <2>1
  <2>4. (g[m - 1] + b[base + m]) % 256 \in Byte
    <3>1. g[m - 1] + b[base + m] \in Int
      BY <2>3, ByteIsInt
    <3>2. QED
      BY <3>1, ByteIsInt
  <2>5. f \in [0..m -> Byte]
    BY <1>2, <1>4, <2>4
  <2>6. ASSUME NEW n \in 0..m
        PROVE  f[n] = IF n = 0 THEN 0 ELSE (f[n - 1] + b[base + n]) % 256
    <3>1. CASE n = m
      BY <1>2, <1>4, <1>6, <3>1
    <3>2. CASE n # m
      <4>1. n \in 0..(m - 1) /\ f[n] = g[n] /\ (n # 0 => n - 1 \in 0..m /\ f[n - 1] = g[n - 1])
        BY <1>2, <1>4, <1>6, <3>2
      <4>2. QED
        BY <2>2, <4>1
    <3>3. QED
      BY <3>1, <3>2
  <2>7. QED
    BY <1>4, <2>5, <2>6
<1>7. QED
  BY <1>5, <1>6

\* What the loop of fix_edid_checksum computes, step by step.
LEMMA BlockSumSteps ==
    ASSUME NEW b \in Seq(Byte), NEW base \in Nat, base + BlockSize <= Len(b)
    PROVE  /\ BlockSum(b, base) = [n \in 0..BlockSize |->
                  IF n = 0 THEN 0 ELSE (BlockSum(b, base)[n - 1] + b[base + n]) % 256]
           /\ BlockSum(b, base) \in [0..BlockSize -> Byte]
<1>0. BlockSize \in Nat /\ BlockSize \in 0..BlockSize
  BY BlockAssumption
<1>a. \A m \in 0..BlockSize : \E f \in [0..m -> Byte] :
         \A n \in 0..m : f[n] = IF n = 0 THEN 0 ELSE (f[n - 1] + b[base + n]) % 256
  BY SumsExist
<1>1. PICK f \in [0..BlockSize -> Byte] :
        \A n \in 0..BlockSize : f[n] = IF n = 0 THEN 0 ELSE (f[n - 1] + b[base + n]) % 256
  BY <1>0, <1>a
<1>2. f = [n \in 0..BlockSize |-> IF n = 0 THEN 0 ELSE (f[n - 1] + b[base + n]) % 256]
  BY <1>1
<1> DEFINE g == BlockSum(b, base)
<1>3. g = [n \in 0..BlockSize |-> IF n = 0 THEN 0 ELSE (g[n - 1] + b[base + n]) % 256]
  BY <1>2 DEF BlockSum
<1> HIDE DEF g
<1> DEFINE Bad == {n \in 0..BlockSize : g[n] \notin Byte}
<1>4. Bad = {}
  <2>1. SUFFICES ASSUME Bad # {}
                 PROVE  FALSE
    OBVIOUS
  <2>2. PICK m \in Bad : \A j \in Bad : m <= j
    <3>1. Bad \in SUBSET Nat
      BY <1>0
    <3> HIDE DEF Bad
    <3>2. QED
      BY <2>1, <3>1, LeastMember
  <2>3. m # 0
    BY <1>0, <1>3 DEF Byte
  <2>4. m \in 0..BlockSize /\ m - 1 \in 0..BlockSize /\ m - 1 \notin Bad
    BY <1>0, <2>2, <2>3
  <2>5. g[m - 1] \in Byte /\ b[base + m] \in Byte
    BY <1>0, <2>3, <2>4
  <2>6. g[m] = (g[m - 1] + b[base + m]) % 256
    BY <1>3, <2>3, <2>4
  <2>7. g[m] \in Byte
    <3>1. g[m - 1] + b[base + m] \in Int
      BY <2>5, ByteIsInt
    <3>2. QED
      BY <2>6, <3>1, ByteIsInt
  <2>8. QED
    BY <2>2, <2>7
<1>5. \A n \in 0..BlockSize : g[n] \in Byte
  BY <1>4
<1>6. QED
  BY <1>3, <1>5 DEF g

\* Blocks that agree in their first m bytes have the same sum of these.
LEMMA BlockSumAgrees ==
    ASSUME NEW b \in Seq(Byte), NEW w \in Seq(Byte), NEW base \in Nat,
           base + BlockSize <= Len(b), base + BlockSize <= Len(w),
           NEW m \in 0..BlockSize, \A n \in 1..m : b[base + n] = w[base + n]
    PROVE  BlockSum(b, base)[m] = BlockSum(w, base)[m]
<1> DEFINE f == BlockSum(b, base)
           g == BlockSum(w, base)
           Bad == {n \in 0..m : f[n] # g[n]}
<1>0. BlockSize \in Nat
  BY BlockAssumption
<1>1. /\ f = [n \in 0..BlockSize |-> IF n = 0 THEN 0 ELSE (f[n - 1] + b[base + n]) % 256]
      /\ g = [n \in 0..BlockSize |-> IF n = 0 THEN 0 ELSE (g[n - 1] + w[base + n]) % 256]
  BY BlockSumSteps
<1> HIDE DEF f, g
<1>2. Bad = {}
  <2>1. SUFFICES ASSUME Bad # {}
                 PROVE  FALSE
    OBVIOUS
  <2>2. PICK k \in Bad : \A j \in Bad : k <= j
    <3>1. Bad \in SUBSET Nat
      BY <1>0
    <3> HIDE DEF Bad
    <3>2. QED
      BY <2>1, <3>1, LeastMember
  <2>3. k # 0
    BY <1>0, <1>1
  <2>4. k \in 1..m /\ k \in 0..BlockSize /\ k - 1 \in 0..m /\ k - 1 \notin Bad
    BY <1>0, <2>2, <2>3
  <2>5. f[k - 1] = g[k - 1] /\ b[base + k] = w[base + k]
    BY <2>4
  <2>6. f[k] = g[k]
    <3>1. f[k] = (f[k - 1] + b[base + k]) % 256
      BY <1>1, <2>3, <2>4
    <3>2. g[k] = (g[k - 1] + w[base + k]) % 256
      BY <1>1, <2>3, <2>4
    <3>3. QED
      BY <2>5, <3>1, <3>2
  <2>7. QED
    BY <2>2, <2>6
<1>3. m \in 0..m
  BY <1>0
<1>4. QED
  BY <1>2, <1>3 DEF f, g

\* The ends of the blocks of an EDID of at most two.
LEMMA BlockEnds ==
    ASSUME NEW i \in 1..(2 * BlockSize)
    PROVE  i % BlockSize = 0 <=> i \in {BlockSize, 2 * BlockSize}
BY BlockAssumption

\* fix_edid_checksum changes only the last byte of each block and makes the block
\* add up to zero.
LEMMA ChecksumMends ==
    ASSUME NEW w \in Seq(Byte), ValidSize(w)
    PROVE  LET b == fix_edid_checksum(w) IN
           /\ b \in Seq(Byte) /\ Len(b) = Len(w) /\ DOMAIN b = 1..Len(w)
           /\ \A i \in 1..Len(w) : IF i % BlockSize # 0 THEN b[i] = w[i]
                                   ELSE BlockSum(b, i - BlockSize)[BlockSize] = 0
<1> DEFINE b == fix_edid_checksum(w)
<1>0. BlockSize \in Nat \ {0} /\ Len(w) \in {BlockSize, 2 * BlockSize}
  BY BlockAssumption DEF ValidSize
<1>1. b = [i \in 1..Len(w) |-> IF i % BlockSize # 0 THEN w[i]
                               ELSE (256 - BlockSum(w, i - BlockSize)[BlockSize - 1]) % 256]
  BY DEF fix_edid_checksum
<1> HIDE DEF b
<1>2. ASSUME NEW i \in 1..Len(w), i % BlockSize = 0
      PROVE  /\ i - BlockSize \in Nat /\ (i - BlockSize) + BlockSize = i /\ i <= Len(w)
             /\ i \in {BlockSize, 2 * BlockSize}
             /\ BlockSum(w, i - BlockSize)[BlockSize - 1] \in Byte
  <2>1. i \in 1..(2 * BlockSize)
    BY <1>0
  <2>2. i \in {BlockSize, 2 * BlockSize}
    BY <1>2, <2>1, BlockEnds
  <2>3. i - BlockSize \in Nat /\ (i - BlockSize) + BlockSize = i /\ i <= Len(w)
    BY <1>0, <2>2
  <2>4. BlockSum(w, i - BlockSize) \in [0..BlockSize -> Byte]
    BY <2>3, BlockSumSteps
  <2>5. QED
    BY <1>0, <2>2, <2>3, <2>4
<1>3. \A i \in 1..Len(w) : b[i] \in Byte
  <2>1. ASSUME NEW i \in 1..Len(w), i % BlockSize = 0
        PROVE  b[i] \in Byte
    <3>1. b[i] = (256 - BlockSum(w, i - BlockSize)[BlockSize - 1]) % 256
      BY <1>1, <2>1
    <3>2. BlockSum(w, i - BlockSize)[BlockSize - 1] \in Byte
      BY <1>2, <2>1
    <3>3. 256 - BlockSum(w, i - BlockSize)[BlockSize - 1] \in Int
      BY <3>2, ByteIsInt
    <3>4. QED
      BY <3>1, <3>3, ByteIsInt
  <2>2. ASSUME NEW i \in 1..Len(w), i % BlockSize # 0
        PROVE  b[i] \in Byte
    BY <1>1, <2>2
  <2>3. QED
    BY <2>1, <2>2
<1>4. b \in Seq(Byte) /\ Len(b) = Len(w) /\ DOMAIN b = 1..Len(w)
  BY <1>1, <1>3
<1>5. ASSUME NEW i \in 1..Len(w), i % BlockSize = 0
      PROVE  BlockSum(b, i - BlockSize)[BlockSize] = 0
  <2> DEFINE base == i - BlockSize
             f    == BlockSum(b, base)
             sum  == BlockSum(w, base)[BlockSize - 1]
  <2>1. /\ base \in Nat /\ base + BlockSize = i /\ i <= Len(w)
        /\ i \in {BlockSize, 2 * BlockSize} /\ sum \in Byte
    BY <1>2, <1>5
  <2>2. \A n \in 1..(BlockSize - 1) : b[base + n] = w[base + n]
    <3>1. ASSUME NEW n \in 1..(BlockSize - 1)
          PROVE  b[base + n] = w[base + n]
      <4>1. base + n \in 1..(2 * BlockSize) /\ base + n \in 1..Len(w)
        BY <1>0, <2>1
      <4>2. base + n \notin {BlockSize, 2 * BlockSize}
        BY <1>0, <2>1
      <4>3. (base + n) % BlockSize # 0
        BY <4>1, <4>2, BlockEnds
      <4>4. QED
        BY <1>1, <4>1, <4>3
    <3>2. QED
      BY <3>1
  <2>3. BlockSize - 1 \in 0..BlockSize /\ BlockSize \in 0..BlockSize
    BY <1>0
  <2>4. f[BlockSize - 1] = sum
    BY <1>4, <2>1, <2>2, <2>3, BlockSumAgrees
  <2>5. f = [n \in 0..BlockSize |-> IF n = 0 THEN 0 ELSE (f[n - 1] + b[base + n]) % 256]
    <3> HIDE DEF base
    <3>1. base + BlockSize <= Len(b)
      BY <1>4, <2>1
    <3>2. QED
      BY <1>4, <2>1, <3>1, BlockSumSteps, Zenon
  <2>6. b[base + BlockSize] = (256 - sum) % 256
    BY <1>1, <1>5, <2>1
  <2> HIDE DEF f, sum, base
  <2>7. f[BlockSize] = (sum + ((256 - sum) % 256)) % 256
    <3>1. f[BlockSize] = (f[BlockSize - 1] + b[base + BlockSize]) % 256
      BY <1>0, <2>3, <2>5
    <3>2. QED
      BY <2>4, <2>6, <3>1, Zenon
  <2>8. f[BlockSize] = 0
    BY <2>1, <2>7, ByteComplement
  <2>9. QED
    BY <2>8 DEF f, base
<1>6. QED
  BY <1>1, <1>4, <1>5 DEF b

\* The text that VideoGetEDID returns is the bytes of the chip, and these are the
\* bytes of the text that was accepted, with its checksums mended.
LEMMA AcceptedReadsBack ==
    ASSUME EdidInv
    PROVE  ReadsBack
<1>0. BlockSize \in Nat \ {0} /\ 2 * BlockSize \in Nat
  BY BlockAssumption
<1>1. CASE edid = <<>> /\ asked = <<>>
  <2>1. hex_to_bytes(VideoGetEDID, 2 * BlockSize) = <<>>
    <3>1. <<>> \in Seq(Byte) /\ Len(<<>>) <= 2 * BlockSize
      BY <1>0
    <3>2. hex_to_bytes(bytes_to_hex(<<>>), 2 * BlockSize) = <<>>
      BY <1>0, <3>1, HexRoundTrip
    <3>3. QED
      BY <1>1, <3>2 DEF VideoGetEDID
  <2>2. hex_to_bytes(asked, 2 * BlockSize) = <<>>
    BY <1>0, <1>1 DEF hex_to_bytes
  <2>3. QED
    BY <2>1, <2>2 DEF ReadsBack
<1>2. CASE Accepted(asked)
  <2> DEFINE w == hex_to_bytes(asked, 2 * BlockSize)
  <2>1. w \in Seq(Byte) /\ ValidSize(w) /\ edid = fix_edid_checksum(w)
    BY <1>0, <1>2, BytesOfText DEF Accepted
  <2> HIDE DEF w
  <2>2. /\ edid \in Seq(Byte) /\ Len(edid) = Len(w) /\ DOMAIN edid = 1..Len(w)
        /\ \A i \in 1..Len(w) : IF i % BlockSize # 0 THEN edid[i] = w[i]
                                ELSE BlockSum(edid, i - BlockSize)[BlockSize] = 0
    BY <2>1, ChecksumMends
  <2>3. Len(edid) <= 2 * BlockSize
    <3>1. Len(w) \in {BlockSize, 2 * BlockSize}
      BY <2>1 DEF ValidSize
    <3>2. Len(edid) = Len(w)
      BY <2>2
    <3>3. BlockSize <= 2 * BlockSize /\ 2 * BlockSize <= 2 * BlockSize
      BY <1>0
    <3>4. QED
      BY <3>1, <3>2, <3>3
  <2>4. hex_to_bytes(VideoGetEDID, 2 * BlockSize) = edid
    BY <1>0, <2>2, <2>3, HexRoundTrip DEF VideoGetEDID
  <2>5. QED
    BY <2>2, <2>4 DEF ReadsBack, w
<1>3. QED
  BY <1>1, <1>2 DEF EdidInv

-----------------------------------------------------------------------------
(***************************************************************************)
(* The status in the kernel log.                                           *)
(***************************************************************************)

\* What StatusIsNewest says of an answer.
Newest(log, text) ==
    LET newest == {i \in DOMAIN log : log[i] = Start /\ \A j \in (i + 1)..Len(log) : log[j] # Start}
    IN  /\ Quantify(DOMAIN text, LAMBDA i : text[i] = Start) = Cardinality(newest)
        /\ \A i \in newest : /\ Len(text) >= Len(log) - i + 1
                              /\ \A j \in DOMAIN text : text[j] # Mark

\* videoc_log_status cuts the log at the last mark before its last status.
LEMMA LogIsCut ==
    ASSUME NEW log \in Logs
    PROVE  Newest(log, videoc_log_status(log))
<1> DEFINE starts == {i \in DOMAIN log : log[i] = Start}
           last   == Max(starts)
           marks  == {i \in DOMAIN log : log[i] \in {Mark, Level} /\ i <= last}
           from   == IF marks = {} THEN 1 ELSE Max(marks)
           newest == {i \in DOMAIN log : log[i] = Start /\ \A j \in (i + 1)..Len(log) : log[j] # Start}
           text   == videoc_log_status(log)
           shown  == {i \in DOMAIN text : text[i] = Start}
<1>1. /\ log \in Seq(Mark..Text) /\ Len(log) \in Nat /\ DOMAIN log = 1..Len(log)
      /\ \A i, j \in DOMAIN log : i < j /\ log[i] = Start /\ log[j] = Start =>
             \E k \in i..j : log[k] \in {Mark, Level}
  BY LogAssumption
<1>2. CASE starts = {}
  <2>1. text = log
    BY <1>2 DEF videoc_log_status
  <2>2. newest = {} /\ shown = {}
    BY <1>2, <2>1
  <2>3. Quantify(DOMAIN text, LAMBDA i : text[i] = Start) = Cardinality(shown)
    BY DEF Quantify
  <2>4. QED
    BY <2>2, <2>3 DEF Newest
<1>3. CASE starts # {}
  <2>1. last \in starts /\ \A j \in starts : j <= last
    <3>1. starts \in SUBSET (0..Len(log))
      BY <1>1
    <3> HIDE DEF starts
    <3>2. QED
      BY <1>1, <1>3, <3>1, MaxIsGreatest
  <2>2. last \in 1..Len(log) /\ log[last] = Start
    BY <1>1, <2>1
  <2>3. marks # {} => Max(marks) \in marks /\ \A j \in marks : j <= Max(marks)
    <3>1. marks \in SUBSET (0..Len(log))
      BY <1>1
    <3> HIDE DEF marks
    <3>2. QED
      BY <1>1, <3>1, MaxIsGreatest
  <2>4. from \in 1..last /\ \A j \in marks : j <= from
    <3>1. CASE marks = {}
      BY <2>2, <3>1
    <3>2. CASE marks # {}
      <4>1. Max(marks) \in 1..Len(log) /\ Max(marks) <= last
        BY <1>1, <2>3, <3>2
      <4> HIDE DEF marks, last
      <4>2. QED
        BY <2>2, <2>3, <3>2, <4>1
    <3>3. QED
      BY <3>1, <3>2
  <2>5. text = [i \in 1..(Len(log) - from + 1) |->
                  IF log[from + i - 1] = Mark THEN Blank ELSE log[from + i - 1]]
    BY <1>3 DEF videoc_log_status
  <2>6. \A i \in starts : from <= i => i = last
    <3>1. SUFFICES ASSUME NEW i \in starts, from <= i, i # last
                   PROVE  FALSE
      OBVIOUS
    <3>2. i \in 1..Len(log) /\ log[i] = Start /\ i < last
      <4>1. i \in 1..Len(log) /\ log[i] = Start /\ i <= last
        BY <1>1, <2>1, <3>1
      <4> HIDE DEF last
      <4>2. QED
        BY <1>1, <2>2, <3>1, <4>1
    <3>3. PICK k \in i..last : log[k] \in {Mark, Level}
      BY <1>1, <2>2, <3>2
    <3>4. k # i /\ k \in marks
      BY <1>1, <2>2, <3>2, <3>3 DEF Mark, Level, Start
    <3> HIDE DEF marks, from, last
    <3>5. QED
      BY <2>2, <2>4, <3>1, <3>2, <3>3, <3>4
  <2>7. newest = {last}
    <3>1. last \in newest
      <4>1. \A j \in (last + 1)..Len(log) : j \in 1..Len(log) /\ ~(j <= last)
        <5> HIDE DEF last
        <5>1. QED
          BY <1>1, <2>2
      <4>2. \A j \in (last + 1)..Len(log) : log[j] # Start
        BY <1>1, <2>1, <4>1
      <4>3. QED
        BY <1>1, <2>2, <4>2
    <3>2. ASSUME NEW i \in newest
          PROVE  i = last
      <4>1. i \in starts /\ i \in 1..Len(log) /\ \A j \in (i + 1)..Len(log) : log[j] # Start
        BY <1>1
      <4>2. i <= last
        BY <2>1, <4>1
      <4>3. ~(i < last)
        <5>1. i < last => last \in (i + 1)..Len(log)
          <6> HIDE DEF last
          <6>1. QED
            BY <1>1, <2>2, <4>1
        <5>2. QED
          BY <2>2, <4>1, <5>1
      <4> HIDE DEF last
      <4>4. QED
        BY <1>1, <2>2, <4>1, <4>2, <4>3
    <3>3. QED
      BY <3>1, <3>2
  <2> DEFINE at == last - from + 1
  <2> HIDE DEF starts, marks, from, newest, last, text
  <2>8. /\ Len(text) = Len(log) - from + 1 /\ DOMAIN text = 1..(Len(log) - from + 1)
        /\ at \in DOMAIN text /\ from + at - 1 = last
    BY <1>1, <2>2, <2>4, <2>5
  <2>9. \A i \in DOMAIN text : /\ from + i - 1 \in 1..Len(log) /\ from <= from + i - 1
                               /\ from + i - 1 = last => i = at
    BY <1>1, <2>2, <2>4, <2>8
  <2>10. \A i \in DOMAIN text : text[i] = Start <=> log[from + i - 1] = Start
    BY <2>5, <2>8 DEF Start, Blank, Mark
  <2>11. shown = {at}
    <3>1. text[at] = Start
      BY <2>2, <2>8, <2>10
    <3>2. ASSUME NEW i \in DOMAIN text, text[i] = Start
          PROVE  i = at
      <4>1. log[from + i - 1] = Start
        BY <2>10, <3>2
      <4>2. from + i - 1 \in starts
        BY <1>1, <2>9, <4>1 DEF starts
      <4>3. from + i - 1 = last
        BY <2>6, <2>9, <4>2
      <4>4. QED
        BY <2>9, <4>3
    <3>3. QED
      BY <2>8, <3>1, <3>2
  <2>12. Cardinality(shown) = 1 /\ Cardinality(newest) = 1
    BY <2>7, <2>11, FS_Singleton
  <2>13. \A j \in DOMAIN text : text[j] # Mark
    BY <2>5, <2>8 DEF Blank, Mark
  <2>14. Len(text) >= Len(log) - last + 1
    BY <1>1, <2>2, <2>4, <2>8
  <2>15. Quantify(DOMAIN text, LAMBDA i : text[i] = Start) = Cardinality(shown)
    BY DEF Quantify
  <2>16. QED
    BY <2>7, <2>12, <2>13, <2>14, <2>15 DEF Newest, newest, text
<1>4. QED
  BY <1>2, <1>3

-----------------------------------------------------------------------------
(***************************************************************************)
(* venc_start.                                                             *)
(***************************************************************************)

\* The remainder of a number that is below the divisor.
LEMMA SmallRemainder ==
    ASSUME NEW n \in Nat \ {0}, NEW x \in 0..(n - 1)
    PROVE  x % n = x
OBVIOUS

\* Numbers that an int32_t holds are left alone by its arithmetic.
LEMMA InRange ==
    ASSUME NEW x \in 0..MaxInt
    PROVE  Wrap(x) = x /\ Cast(x) = {x} /\ Half(x) = x \div 2 /\ Unsigned(x \div 2) = x \div 2
<1>1. MaxInt \in Nat
  BY IntAssumption
<1> DEFINE n == 2 * MaxInt + 2
<1>2. n \in Nat \ {0} /\ x + MaxInt + 1 \in 0..(n - 1) /\ x \div 2 \in 0..(n - 1)
  BY <1>1
<1> HIDE DEF n
<1>3. (x + MaxInt + 1) % n = x + MaxInt + 1 /\ (x \div 2) % n = x \div 2
  BY <1>2, SmallRemainder
<1>4. Wrap(x) = x
  BY <1>1, <1>3 DEF Wrap, n
<1>5. Cast(x) = {x} /\ Half(x) = x \div 2
  BY <1>1 DEF Cast, Half
<1>6. Unsigned(x \div 2) = x \div 2
  BY <1>3 DEF Unsigned, n
<1>7. QED
  BY <1>4, <1>5, <1>6

\* A factor of at most 1 overflows nothing: three times the bit rate is still an
\* int32_t.
LEMMA OfferedRate ==
    ASSUME NEW t \in Timings, NEW q \in Nat, q <= Offered,
           NEW kbit \in calculate_bitrate(q, t.width, t.height)
    PROVE  kbit \in Nat /\ kbit >= 200 /\ 3 * kbit <= MaxInt
<1>1. t.width \in Nat /\ t.height \in Nat
  BY TimingAssumption
<1>2. MaxInt \in Nat /\ MaxInt >= 4000
  BY IntAssumption
<1> DEFINE part   == ((4000 - 512) * q) \div 100
           base   == 512 + part
           pixels == t.width * t.height
           tiles  == pixels \div 64
           scaled == (base * tiles) \div 32400
           most   == (4000 * tiles) \div 32400
<1>3. part \in 0..3488
  BY DEF Offered
<1> HIDE DEF part
<1>4. part \in 0..MaxInt /\ base \in 0..MaxInt /\ base \in 0..4000
  BY <1>2, <1>3
<1>5. 3 * most <= MaxInt
  BY IntAssumption
<1>6. pixels \in Nat
  BY <1>1
<1> HIDE DEF pixels
<1>7. tiles \in Nat
  BY <1>6
<1> HIDE DEF tiles
<1>8. base * tiles \in Nat /\ 4000 * tiles \in Nat /\ base * tiles <= 4000 * tiles
  BY <1>4, <1>7
<1>9. scaled \in Nat /\ most \in Nat /\ scaled <= most
  <2> DEFINE x == base * tiles
             y == 4000 * tiles
  <2> HIDE DEF x, y
  <2>1. x \in Nat /\ y \in Nat /\ x <= y => /\ x \div 32400 \in Nat /\ y \div 32400 \in Nat
                                           /\ x \div 32400 <= y \div 32400
    OBVIOUS
  <2>2. QED
    BY <1>8, <2>1 DEF x, y
<1> HIDE DEF scaled, most
<1>10. scaled \in 0..MaxInt
  BY <1>2, <1>5, <1>9
<1>11. {Wrap(512 + x) : x \in Cast(part)} = {base}
  <2>1. Cast(part) = {part}
    BY <1>4, InRange
  <2>2. Wrap(base) = base
    BY <1>4, InRange
  <2>3. QED
    BY <2>1, <2>2
<1>12. Cast(scaled) = {scaled}
  BY <1>10, InRange
<1>13. kbit = Larger(200, scaled)
  <2>1. calculate_bitrate(q, t.width, t.height) =
          {Larger(200, r) : r \in UNION {Cast((b * tiles) \div 32400) : b \in {base}}}
    BY <1>11 DEF calculate_bitrate, tiles, pixels, part
  <2>2. {Cast((b * tiles) \div 32400) : b \in {base}} = {Cast(scaled)}
    BY DEF scaled
  <2>3. UNION {Cast(scaled)} = {scaled}
    BY <1>12
  <2>4. kbit \in {Larger(200, r) : r \in {scaled}}
    BY <2>1, <2>2, <2>3
  <2>5. QED
    BY <2>4
<1>14. QED
  BY <1>2, <1>5, <1>9, <1>13 DEF Larger

\* Whatever the quality and the timings of the source, the attributes can be
\* encoded, as far as the int32_t arithmetic allows.
LEMMA AttributesFit ==
    ASSUME NEW t \in Timings, NEW q \in Nat, NEW k \in 0..1,
           NEW kbit \in calculate_bitrate(q, t.width, t.height),
           attr' = populate_venc_attr(q, kbit, k, t)
    PROVE  EncoderAccepts'
<1>1. /\ t.width \in Nat /\ t.height \in Nat /\ t.clock \in Nat
      /\ t.htotal \in Nat \ {0} /\ t.vtotal \in Nat \ {0}
  BY TimingAssumption
<1> DEFINE rate == FrameRate(t)
           top  == Unsigned(Half(Wrap(kbit * 3)))
<1>2. rate \in Nat /\ rate >= 1
  <2> DEFINE total == t.htotal * t.vtotal
             round == (2 * t.clock + total) \div (2 * total)
  <2>1. total \in Nat \ {0}
    BY <1>1
  <2> HIDE DEF total
  <2>2. 2 * t.clock + total \in Nat /\ 2 * total \in Nat \ {0}
    BY <1>1, <2>1
  <2>3. round \in Int
    BY <2>2
  <2>4. rate = Larger(1, round)
    BY DEF FrameRate, total
  <2> HIDE DEF round, rate
  <2>5. QED
    BY <2>3, <2>4 DEF Larger
<1> HIDE DEF rate
<1>3. ASSUME q <= Offered
      PROVE  Larger(2, kbit \div 2) <= kbit /\ kbit <= top
  <2>1. kbit \in Nat /\ kbit >= 200 /\ 3 * kbit <= MaxInt
    BY <1>3, OfferedRate
  <2> DEFINE x == kbit * 3
  <2>2. x \in 0..MaxInt /\ kbit <= x \div 2
    BY <2>1, IntAssumption
  <2> HIDE DEF x
  <2>3. Unsigned(Half(Wrap(x))) = x \div 2
    BY <2>2, InRange
  <2>4. kbit <= top
    BY <2>2, <2>3 DEF x
  <2>5. Larger(2, kbit \div 2) <= kbit
    BY <2>1 DEF Larger
  <2>6. QED
    BY <2>4, <2>5
<1> HIDE DEF top
<1>4. attr' = [factor |-> q, codec |-> k, bitrate |-> kbit, max |-> top,
               min |-> Larger(2, kbit \div 2), gop |-> Larger(1, rate \div 2), rate |-> rate,
               stride |-> Align16(t.width), width |-> t.width]
  BY DEF populate_venc_attr, top, rate
<1>5. /\ Larger(1, rate \div 2) >= 1
      /\ 2 * Larger(1, rate \div 2) <= rate \/ Larger(1, rate \div 2) = 1
  BY <1>2 DEF Larger
<1>6. Align16(t.width) % 16 = 0 /\ Align16(t.width) >= t.width
  BY <1>1 DEF Align16
<1>7. QED
  BY <1>3, <1>4, <1>5, <1>6 DEF EncoderAccepts, RatesOrdered

-----------------------------------------------------------------------------
(***************************************************************************)
(* Every step keeps the invariant.                                         *)
(***************************************************************************)

\* The locks and the callers, with their types.
Locking ==
    /\ LockInv /\ NeverRefused
    /\ videoLock \in Callers \cup {Nobody} /\ extraLock \in Callers \cup {Nobody}
    /\ pc \in [Callers -> {"idle", "lock", "try", "run", "extra", "refused", "unlock"}]

\* The steps of a caller keep the locks, and TryLock never finds its lock taken.
LEMMA LockStep ==
    ASSUME Locking, [Next]_vars
    PROVE  Locking'
<1> USE CallerAssumption DEF Locking, LockInv, NeverRefused
<1>1. ASSUME NEW c \in Callers, Begin(c)
      PROVE  Locking'
  BY <1>1 DEF Begin
<1>2. ASSUME NEW c \in Callers, TakeVideoLock(c)
      PROVE  Locking'
  BY <1>2 DEF TakeVideoLock
<1>3. ASSUME NEW c \in Callers, TryExtraLock(c)
      PROVE  Locking'
  <2>1. videoLock = c /\ extraLock = Nobody
    BY <1>3 DEF TryExtraLock
  <2>2. QED
    BY <1>3, <2>1 DEF TryExtraLock
<1>4. ASSUME NEW c \in Callers, pc[c] = "run", After(c), UNCHANGED <<videoLock, extraLock>>
      PROVE  Locking'
  BY <1>4 DEF After
<1>5. ASSUME NEW c \in Callers,
             \/ SetEdid(c) \/ SetQualityFactor(c) \/ SetCodecType(c) \/ GetEdid(c)
             \/ VideoLogStatus(c)
      PROVE  pc[c] = "run" /\ After(c) /\ UNCHANGED <<videoLock, extraLock>>
  BY <1>5 DEF SetEdid, SetQualityFactor, SetCodecType, GetEdid, VideoLogStatus
<1>6. ASSUME NEW c \in Callers, ReleaseExtraLock(c)
      PROVE  Locking'
  BY <1>6 DEF ReleaseExtraLock
<1>7. ASSUME NEW c \in Callers, ReleaseVideoLock(c)
      PROVE  Locking'
  BY <1>7 DEF ReleaseVideoLock
<1>8. ASSUME VencStart \/ UNCHANGED vars
      PROVE  Locking'
  BY <1>8 DEF VencStart, vars
<1>9. QED
  BY <1>1, <1>2, <1>3, <1>4, <1>5, <1>6, <1>7, <1>8 DEF Next, Serve

\* The steps of a caller keep the calls and their answers.
LEMMA ArgStep ==
    ASSUME ArgInv, [Next]_vars
    PROVE  ArgInv'
<1>1. ASSUME UNCHANGED arg
      PROVE  ArgInv'
  BY <1>1 DEF ArgInv
<1>2. ASSUME NEW c \in Callers, NEW a, arg' = [arg EXCEPT ![c] = a],
             a \in Calls \cup {NoCall} \/ Answered(a)
      PROVE  ArgInv'
  <2>1. arg' = [d \in Callers |-> IF d = c THEN a ELSE arg[d]]
    BY <1>2 DEF ArgInv
  <2>2. QED
    BY <1>2, <2>1 DEF ArgInv
<1>3. ASSUME NEW c \in Callers, Begin(c)
      PROVE  ArgInv'
  BY <1>2, <1>3 DEF Begin
<1>4. ASSUME NEW c \in Callers, VideoLogStatus(c)
      PROVE  ArgInv'
  <2>1. PICK log \in Logs, ok \in BOOLEAN :
          arg' = [arg EXCEPT ![c] = [op |-> "answered", log |-> log,
                                     text |-> IF ok THEN videoc_log_status(log) ELSE Error]]
    BY <1>4 DEF VideoLogStatus
  <2> DEFINE a == [op |-> "answered", log |-> log,
                   text |-> IF ok THEN videoc_log_status(log) ELSE Error]
  <2>2. Answered(a)
    BY DEF Answered
  <2> HIDE DEF a
  <2>3. QED
    BY <1>2, <2>1, <2>2 DEF a
<1>5. ASSUME NEW c \in Callers, ReleaseVideoLock(c)
      PROVE  ArgInv'
  BY <1>2, <1>5 DEF ReleaseVideoLock
<1>6. ASSUME NEW c \in Callers, Serve(c), ~VideoLogStatus(c), ~ReleaseVideoLock(c)
      PROVE  UNCHANGED arg
  BY <1>6 DEF Serve, TakeVideoLock, TryExtraLock, SetEdid, SetQualityFactor, SetCodecType,
              GetEdid, ReleaseExtraLock
<1>7. QED
  BY <1>1, <1>3, <1>4, <1>5, <1>6 DEF Next, VencStart, vars

\* A text that is asked for, or the default in its place.
LEMMA WantedIsText ==
    ASSUME NEW s \in Texts
    PROVE  Wanted(s) \in Seq(Chars)
BY TextAssumption DEF Wanted, Chars

\* Only set_edid changes what the chip shows.
LEMMA EdidStep ==
    ASSUME ArgInv, EdidInv, [Next]_vars
    PROVE  EdidInv'
<1>1. ASSUME UNCHANGED <<edid, asked>>
      PROVE  EdidInv'
  BY <1>1 DEF EdidInv, Accepted
<1>2. ASSUME NEW c \in Callers, SetEdid(c), ~UNCHANGED <<edid, asked>>
      PROVE  EdidInv'
  <2> DEFINE s == Wanted(arg[c].text)
             w == hex_to_bytes(s, 2 * BlockSize)
  <2>1. arg[c].text \in Texts
    BY <1>2 DEF SetEdid, ArgInv, Answered, Calls, NoCall
  <2>2. s \in Seq(Chars)
    BY <2>1, WantedIsText
  <2> HIDE DEF s
  <2>3. PICK b \in SetEdidResults(s) : b # Error /\ edid' = b /\ asked' = s
    BY <1>2 DEF SetEdid, s
  <2>4. w # Error /\ ValidSize(w) /\ b = fix_edid_checksum(w)
    BY <2>3 DEF SetEdidResults
  <2>5. Accepted(asked)'
    BY <2>2, <2>3, <2>4 DEF Accepted
  <2>6. QED
    BY <2>5 DEF EdidInv
<1>3. ASSUME NEW c \in Callers, Begin(c) \/ (Serve(c) /\ ~SetEdid(c))
      PROVE  UNCHANGED <<edid, asked>>
  BY <1>3 DEF Begin, Serve, TakeVideoLock, TryExtraLock, SetQualityFactor, SetCodecType,
              GetEdid, VideoLogStatus, ReleaseExtraLock, ReleaseVideoLock
<1>4. QED
  BY <1>1, <1>2, <1>3 DEF Next, Serve, VencStart, vars

\* What is written to the chip is one or two blocks of bytes.
LEMMA WholeBlocks ==
    ASSUME NEW s \in Seq(Chars), hex_to_bytes(s, 2 * BlockSize) # Error,
           ValidSize(hex_to_bytes(s, 2 * BlockSize)),
           NEW b, b = fix_edid_checksum(hex_to_bytes(s, 2 * BlockSize))
    PROVE  Len(b) \in {0, BlockSize, 2 * BlockSize} /\ \A i \in DOMAIN b : b[i] \in 0..255
<1> DEFINE w == hex_to_bytes(s, 2 * BlockSize)
<1>1. 2 * BlockSize \in Nat
  BY BlockAssumption
<1>2. w \in Seq(Byte) /\ ValidSize(w) /\ b = fix_edid_checksum(w)
  BY <1>1, BytesOfText
<1> HIDE DEF w
<1>3. b \in Seq(Byte) /\ Len(b) = Len(w)
  BY <1>2, ChecksumMends
<1>4. Len(w) \in {BlockSize, 2 * BlockSize}
  BY <1>2 DEF ValidSize
<1>5. \A i \in DOMAIN b : b[i] \in Byte
  BY <1>3
<1>6. QED
  BY <1>3, <1>4, <1>5 DEF Byte

\* The settings of the encoder and its attributes.
LEMMA EncoderStep ==
    ASSUME ArgInv, quality \in Nat \ {0}, codec \in 0..1, EncoderAccepts, [Next]_vars
    PROVE  quality' \in Nat \ {0} /\ codec' \in 0..1 /\ EncoderAccepts'
<1>1. ASSUME NEW c \in Callers, SetQualityFactor(c)
      PROVE  quality' \in Nat \ {0} /\ codec' \in 0..1 /\ EncoderAccepts'
  <2>1. arg[c].factor \in Qualities
    BY <1>1 DEF SetQualityFactor, ArgInv, Answered, Calls, NoCall
  <2>2. arg[c].factor \in Int
    BY <2>1, QualityAssumption
  <2>3. QED
    BY <1>1, <2>2 DEF SetQualityFactor, EncoderAccepts, RatesOrdered
<1>2. ASSUME NEW c \in Callers, SetCodecType(c)
      PROVE  quality' \in Nat \ {0} /\ codec' \in 0..1 /\ EncoderAccepts'
  BY <1>2 DEF SetCodecType, EncoderAccepts, RatesOrdered
<1>3. ASSUME VencStart
      PROVE  quality' \in Nat \ {0} /\ codec' \in 0..1 /\ EncoderAccepts'
  BY <1>3, AttributesFit DEF VencStart
<1>4. ASSUME UNCHANGED <<quality, codec, attr>>
      PROVE  quality' \in Nat \ {0} /\ codec' \in 0..1 /\ EncoderAccepts'
  BY <1>4 DEF EncoderAccepts, RatesOrdered
<1>5. ASSUME NEW c \in Callers, Begin(c) \/ (Serve(c) /\ ~SetQualityFactor(c) /\ ~SetCodecType(c))
      PROVE  UNCHANGED <<quality, codec, attr>>
  BY <1>5 DEF Begin, Serve, TakeVideoLock, TryExtraLock, SetEdid, GetEdid, VideoLogStatus,
              ReleaseExtraLock, ReleaseVideoLock
<1>6. QED
  BY <1>1, <1>2, <1>3, <1>4, <1>5 DEF Next, Serve, vars

\* Every step keeps the inductive invariant.
LEMMA NextInvariant ==
    ASSUME IInv, [Next]_vars
    PROVE  IInv'
<1>1. Locking /\ quality \in Nat \ {0}
  BY DEF IInv, TypeOK, Locking
<1>2. Locking' /\ ArgInv' /\ EdidInv'
  BY <1>1, LockStep, ArgStep, EdidStep DEF IInv
<1>3. quality' \in Nat \ {0} /\ codec' \in 0..1 /\ EncoderAccepts'
  BY <1>1, EncoderStep DEF IInv
<1>4. Len(edid') \in {0, BlockSize, 2 * BlockSize} /\ \A i \in DOMAIN edid' : edid'[i] \in 0..255
  <2>1. CASE edid' = <<>>
    BY <2>1
  <2>2. CASE Accepted(asked)'
    BY <2>2, WholeBlocks DEF Accepted
  <2>3. QED
    BY <1>2, <2>1, <2>2 DEF EdidInv
<1>5. QED
  BY <1>2, <1>3, <1>4 DEF IInv, TypeOK, Locking, ArgInv, Answered

\* The inductive invariant holds when the program starts.
LEMMA InitInvariant ==
    ASSUME Init
    PROVE  IInv
<1> USE CallerAssumption DEF Init
<1>1. EdidInv
  BY DEF EdidInv
<1>2. TypeOK
  BY DEF TypeOK
<1>3. LockInv /\ NeverRefused /\ ArgInv
  BY DEF LockInv, NeverRefused, ArgInv
<1>4. codec \in 0..1 /\ EncoderAccepts
  BY DEF EncoderAccepts, RatesOrdered, NoAttr
<1>5. QED
  BY <1>1, <1>2, <1>3, <1>4 DEF IInv

-----------------------------------------------------------------------------
(***************************************************************************)
(* The theorems.                                                           *)
(***************************************************************************)

\* The inductive invariant holds in every reachable state.
THEOREM SettingsInvariant == Spec => []IInv
BY InitInvariant, NextInvariant, PTL DEF Spec

\* Every variable keeps its type; in particular the chip never holds anything but
\* whole blocks of bytes.
THEOREM TypeCorrect == Spec => []TypeOK
<1>1. IInv => TypeOK
  BY DEF IInv
<1>2. QED
  BY <1>1, SettingsInvariant, PTL

\* useExtraLock never refuses a call: its TryLock always succeeds.
THEOREM TryLockSucceeds == Spec => []NeverRefused
<1>1. IInv => NeverRefused
  BY DEF IInv
<1>2. QED
  BY <1>1, SettingsInvariant, PTL

\* For every picture and every factor up to 1 that the user interface offers, the
\* int32_t arithmetic of calculate_bitrate and venc_start overflows nowhere and the
\* rates are in order; group of pictures, stride and codec are right for all factors.
THEOREM EncoderAlwaysAccepts == Spec => []EncoderAccepts
<1>1. IInv => EncoderAccepts
  BY DEF IInv
<1>2. QED
  BY <1>1, SettingsInvariant, PTL

\* VideoGetEDID returns the last EDID accepted, with checksums that add up.
THEOREM EdidReadsBack == Spec => []ReadsBack
<1>1. IInv => ReadsBack
  BY AcceptedReadsBack DEF IInv
<1>2. QED
  BY <1>1, SettingsInvariant, PTL

\* VideoLogStatus answers with the newest status of the log and the whole of it.
THEOREM StatusAlwaysNewest == Spec => []StatusIsNewest
<1>1. ASSUME IInv
      PROVE  StatusIsNewest
  <2>1. ASSUME NEW c \in Callers, arg[c].op = "answered", arg[c].text # Error
        PROVE  Newest(arg[c].log, arg[c].text)
    <3>1. Answered(arg[c])
      BY <1>1, <2>1 DEF IInv, ArgInv, Calls, NoCall
    <3>2. arg[c].log \in Logs /\ arg[c].text = videoc_log_status(arg[c].log)
      BY <2>1, <3>1 DEF Answered
    <3>3. QED
      BY <3>2, LogIsCut
  <2>2. QED
    BY <2>1 DEF StatusIsNewest, Newest
<1>2. QED
  BY <1>1, SettingsInvariant, PTL
=============================================================================
