------------------------------ MODULE GridSafety ------------------------------
(***************************************************************************)
(* The cells of a grid as bits: what is stored is found, whatever the      *)
(* memory held, and a walker never leaves the map nor loses its place, for *)
(* maps of all dimensions whose ids and coordinates do not wrap.           *)
(***************************************************************************)
EXTENDS GridWalk, TLAPS

-----------------------------------------------------------------------------
(* Bits of words.                                                          *)

\* dbword is uint8_t; the rows are padded to 64 cells.
Bytes == BaseBits = 8 /\ WordBits = 64

\* Bit n of a table, counted from the first bit of its first word.
Bit(table, n) == n % 8 \in table[n \div 8]

LEMMA ShlBits ==
  ASSUME NEW v, v \subseteq Int, NEW k \in Int, NEW w \in Nat
  PROVE  \A b : b \in Shl(v, k, w) <=> b \in 0 .. w - 1 /\ b - k \in v
<1> SUFFICES ASSUME NEW b
             PROVE  b \in Shl(v, k, w) <=> b \in 0 .. w - 1 /\ b - k \in v
  OBVIOUS
<1>1. ASSUME b \in 0 .. w - 1, b - k \in v
      PROVE  b \in {c + k : c \in v}
  <2>1. b = (b - k) + k
    BY <1>1
  <2> QED
    BY <1>1, <2>1
<1>2. ASSUME NEW c \in v, b = c + k
      PROVE  b - k \in v
  <2>1. c \in Int
    OBVIOUS
  <2>2. b - k = c
    BY <1>2, <2>1
  <2> QED
    BY <2>2
<1> QED
  BY <1>1, <1>2 DEF Shl, Ones

LEMMA ShrBits ==
  ASSUME NEW v, v \subseteq Nat, NEW k \in Nat
  PROVE  \A b : b \in Shr(v, k) <=> b \in Nat /\ b + k \in v
<1> SUFFICES ASSUME NEW b
             PROVE  b \in Shr(v, k) <=> b \in Nat /\ b + k \in v
  OBVIOUS
<1>1. ASSUME b \in Nat, b + k \in v
      PROVE  b \in {c - k : c \in {a \in v : a >= k}}
  <2>1. b = (b + k) - k /\ b + k \in {a \in v : a >= k}
    BY <1>1
  <2> QED
    BY <2>1
<1>2. ASSUME NEW c \in v, c >= k, b = c - k
      PROVE  b \in Nat /\ b + k \in v
  <2>1. c \in Nat
    OBVIOUS
  <2>2. b \in Nat /\ b + k = c
    BY <1>2, <2>1
  <2> QED
    BY <2>2
<1> QED
  BY <1>1, <1>2 DEF Shr

\* Where a value of vb bits lies.
LEMMA SpotFacts ==
  ASSUME Bytes, NEW vb \in {1, 2, 4}, NEW i \in Nat
  PROVE  /\ Word(vb, i) \in Nat /\ Offset(vb, i) \in 0 .. 7
         /\ Offset(vb, i) + vb <= 8 /\ Offset(vb, i) % vb = 0
         /\ i * vb = 8 * Word(vb, i) + Offset(vb, i)
<1> USE DEF Bytes, Word, Offset
<1>1. CASE vb = 1
  BY <1>1
<1>2. CASE vb = 2
  BY <1>2
<1>3. CASE vb = 4
  BY <1>3
<1> QED
  BY <1>1, <1>2, <1>3

LEMMA OffsetFacts ==
  ASSUME Bytes, NEW vb \in {1, 2, 4}, NEW i \in Nat
  PROVE  Offset(vb, i) \in Nat /\ Offset(vb, i) \in Int
<1>1. Offset(vb, i) \in 0 .. 7
  BY SpotFacts
<1> QED
  BY <1>1

\* A number is eight times a word and an offset in one way only.
LEMMA SplitFacts ==
  ASSUME NEW w \in Int, NEW m \in 0 .. 7
  PROVE  (8 * w + m) \div 8 = w /\ (8 * w + m) % 8 = m
  OBVIOUS

LEMMA GetBits ==
  ASSUME Bytes, NEW vb \in {1, 2, 4}, NEW i \in Nat, NEW table,
         table[Word(vb, i)] \subseteq 0 .. 7
  PROVE  \A b : b \in Get(vb, table, i) <=>
                  b \in 0 .. vb - 1 /\ Bit(table, i * vb + b)
<1> DEFINE w == Word(vb, i)
           off == Offset(vb, i)
<1>1. /\ w \in Nat /\ off \in 0 .. 7 /\ off + vb <= 8
      /\ i * vb = 8 * w + off
  BY SpotFacts
<1>2. \A b : b \in Get(vb, table, i) <=> b \in 0 .. vb - 1 /\ b + off \in table[w]
  <2>1. table[w] \subseteq Nat /\ off \in Nat
    BY <1>1
  <2> HIDE DEF w, off
  <2>2. \A b : b \in Shr(table[w], off) <=> b \in Nat /\ b + off \in table[w]
    BY <2>1, ShrBits
  <2> QED
    BY <2>2 DEF Get, Ones, w, off
<1> HIDE DEF w, off
<1>3. ASSUME NEW b \in 0 .. vb - 1
      PROVE  Bit(table, i * vb + b) <=> b + off \in table[w]
  <2>1. i * vb + b = 8 * w + (off + b) /\ off + b \in 0 .. 7
    BY <1>1
  <2>2. (i * vb + b) \div 8 = w /\ (i * vb + b) % 8 = off + b
    BY <1>1, <2>1, SplitFacts
  <2>3. off + b = b + off
    BY <1>1
  <2> QED
    BY <2>2, <2>3 DEF Bit
<1> QED
  BY <1>2, <1>3

-----------------------------------------------------------------------------
(* Writes.                                                                 *)

Words(n) == [0 .. n -> SUBSET (0 .. 7)]

\* The table d is the table before with v stored at index i.
Stored(d, table, n, vb, i, v) ==
  /\ d \in Words(n)
  /\ \A m \in Nat : m \div 8 \in 0 .. n =>
       (Bit(d, m) <=> IF m - i * vb \in 0 .. vb - 1 THEN m - i * vb \in v
                      ELSE Bit(table, m))

\* The word new is the word old with v stored at the offset of an index.
Fits(new, old, vb, i, v) ==
  /\ new \in SUBSET (0 .. 7)
  /\ \A m \in 0 .. 7 :
       m \in new <=> IF m - Offset(vb, i) \in 0 .. vb - 1
                     THEN m - Offset(vb, i) \in v ELSE m \in old

LEMMA WordStored ==
  ASSUME Bytes, NEW vb \in {1, 2, 4}, NEW i \in Nat, NEW n \in Nat,
         NEW table \in Words(n), NEW d, NEW new, NEW v,
         Word(vb, i) \in 0 .. n, Fits(new, table[Word(vb, i)], vb, i, v),
         d = [table EXCEPT ![Word(vb, i)] = new]
  PROVE  Stored(d, table, n, vb, i, v)
<1> DEFINE w == Word(vb, i)
           off == Offset(vb, i)
<1>1. /\ w \in Nat /\ off \in 0 .. 7 /\ off + vb <= 8
      /\ i * vb = 8 * w + off
  BY SpotFacts
<1>2. d \in Words(n) /\ d[w] = new /\ \A u \in 0 .. n : u # w => d[u] = table[u]
  BY DEF Words, Fits
<1>0. \A m \in 0 .. 7 :
        m \in new <=> IF m - off \in 0 .. vb - 1 THEN m - off \in v
                      ELSE m \in table[w]
  BY DEF Fits
<1> HIDE DEF w, off
<1>3. ASSUME NEW m \in Nat, m \div 8 \in 0 .. n
      PROVE  Bit(d, m) <=> IF m - i * vb \in 0 .. vb - 1 THEN m - i * vb \in v
                           ELSE Bit(table, m)
  <2>1. m % 8 \in 0 .. 7 /\ m = 8 * (m \div 8) + (m % 8)
    OBVIOUS
  <2>2. CASE m \div 8 = w
    <3>1. m - i * vb = (m % 8) - off
      BY <1>1, <2>1, <2>2
    <3>2. Bit(d, m) <=> m % 8 \in new
      BY <1>2, <2>2 DEF Bit
    <3>3. Bit(table, m) <=> m % 8 \in table[w]
      BY <2>2 DEF Bit
    <3> QED
      BY <1>0, <2>1, <3>1, <3>2, <3>3
  <2>3. CASE m \div 8 # w
    <3>1. ~(m - i * vb \in 0 .. vb - 1)
      BY <1>1, <2>1, <2>3
    <3> QED
      BY <1>2, <1>3, <2>3, <3>1 DEF Bit
  <2> QED
    BY <2>2, <2>3
<1> QED
  BY <1>2, <1>3 DEF Stored

\* The words of the operations, bit by bit.  m stands for a bit of the word.
LEMMA FieldBits ==
  ASSUME Bytes, NEW vb \in {1, 2, 4}, NEW i \in Nat, NEW v \in SUBSET Ones(vb),
         NEW m \in 0 .. 7
  PROVE  /\ m \in Shl(v, Offset(vb, i), BaseBits) <=> m - Offset(vb, i) \in v
         /\ m \in Shl(Ones(vb), Offset(vb, i), BaseBits)
              <=> m - Offset(vb, i) \in 0 .. vb - 1
         /\ m - Offset(vb, i) \in v => m - Offset(vb, i) \in 0 .. vb - 1
<1> DEFINE off == Offset(vb, i)
<1>1. off \in Int
  BY OffsetFacts
<1>2. v \subseteq 0 .. vb - 1 /\ v \subseteq Int /\ Ones(vb) \subseteq Int
      /\ Ones(vb) = 0 .. vb - 1
  BY DEF Ones
<1>3. BaseBits = 8
  BY DEF Bytes
<1> HIDE DEF off
<1>4. \A b : b \in Shl(v, off, 8) <=> b \in 0 .. 8 - 1 /\ b - off \in v
  BY <1>1, <1>2, ShlBits
<1>5. \A b : b \in Shl(Ones(vb), off, 8) <=> b \in 0 .. 8 - 1 /\ b - off \in Ones(vb)
  BY <1>1, <1>2, ShlBits
<1>6. m \in 0 .. 8 - 1
  OBVIOUS
<1>7. /\ m \in Shl(v, off, 8) <=> m - off \in v
      /\ m \in Shl(Ones(vb), off, 8) <=> m - off \in 0 .. vb - 1
      /\ m - off \in v => m - off \in 0 .. vb - 1
  BY <1>2, <1>4, <1>5, <1>6
<1> QED
  BY <1>3, <1>7 DEF off

LEMMA FieldInWord ==
  ASSUME Bytes, NEW v, v \subseteq Int, NEW k \in Int
  PROVE  Shl(v, k, BaseBits) \in SUBSET (0 .. 7)
<1>1. \A b : b \in Shl(v, k, 8) <=> b \in 0 .. 8 - 1 /\ b - k \in v
  BY ShlBits
<1> QED
  BY <1>1 DEF Bytes

\* Rotating keeps the bits of a word, and those next to a value where they
\* were one bits.
LEMMA RotlBits ==
  ASSUME Bytes, NEW vb \in {1, 2, 4}, NEW i \in Nat, NEW v \in SUBSET Ones(vb),
         NEW m \in 0 .. 7
  PROVE  m \in Rotl(v \cup (Ones(BaseBits) \ Ones(vb)), Offset(vb, i), BaseBits)
           <=> (m - Offset(vb, i) \in 0 .. vb - 1 => m - Offset(vb, i) \in v)
<1> DEFINE off == Offset(vb, i)
           u == v \cup (Ones(BaseBits) \ Ones(vb))
<1>1. off \in 0 .. 7 /\ off + vb <= 8
  BY SpotFacts
<1>2. \A b : b \in u <=> b \in v \/ b \in vb .. 7
  BY DEF Ones, Bytes
<1>3. v \subseteq 0 .. vb - 1
  BY DEF Ones
<1> HIDE DEF off, u
<1>4. ASSUME NEW b \in u, m = (b + off) % 8, m - off \in 0 .. vb - 1
      PROVE  m - off \in v
  <2>1. b \in 0 .. 7
    <3>1. b \in 0 .. vb - 1 \/ b \in vb .. 7
      BY <1>2, <1>3, <1>4
    <3> QED
      BY <3>1
  <2>2. b + off = m \/ b + off = m + 8
    BY <1>1, <1>4, <2>1
  <2>3. b = m - off
    BY <1>1, <1>4, <2>1, <2>2
  <2> QED
    BY <1>2, <1>4, <2>1, <2>3
<1>5. ASSUME m - off \in 0 .. vb - 1 => m - off \in v
      PROVE  \E b \in u : m = (b + off) % 8
  <2>1. CASE m - off \in 0 .. vb - 1
    <3>1. m - off \in u /\ m = ((m - off) + off) % 8
      BY <1>1, <1>2, <1>5, <2>1
    <3> QED
      BY <3>1
  <2>2. CASE m - off >= vb
    <3>1. m - off \in u /\ m = ((m - off) + off) % 8
      BY <1>1, <1>2, <2>2
    <3> QED
      BY <3>1
  <2>3. CASE m - off < 0
    <3>1. m - off + 8 \in u /\ m = ((m - off + 8) + off) % 8
      BY <1>1, <1>2, <2>3
    <3> QED
      BY <3>1
  <2> QED
    BY <1>1, <2>1, <2>2, <2>3
<1>6. m \in Rotl(u, off, 8) <=> \E b \in u : m = (b + off) % 8
  BY DEF Rotl
<1> QED
  BY <1>4, <1>5, <1>6 DEF Bytes, off, u

LEMMA RotlInWord ==
  ASSUME NEW v, v \subseteq 0 .. 7, NEW k \in 0 .. 7
  PROVE  Rotl(v, k, 8) \in SUBSET (0 .. 7)
<1>1. \A b \in v : (b + k) % 8 \in 0 .. 7
  OBVIOUS
<1> QED
  BY <1>1 DEF Rotl

\* The value that is there before a write.
LEMMA OldBits ==
  ASSUME Bytes, NEW vb \in {1, 2, 4}, NEW i \in Nat, NEW table,
         table[Word(vb, i)] \in SUBSET (0 .. 7), NEW m \in 0 .. 7,
         m - Offset(vb, i) \in 0 .. vb - 1
  PROVE  m - Offset(vb, i) \in Get(vb, table, i) <=> m \in table[Word(vb, i)]
<1> DEFINE w == Word(vb, i)
           off == Offset(vb, i)
<1>1. \A b : b \in Shr(table[w], off) <=> b \in Nat /\ b + off \in table[w]
  <2>1. table[w] \subseteq Nat
    OBVIOUS
  <2>2. off \in Nat
    BY OffsetFacts
  <2> HIDE DEF w, off
  <2> QED
    BY <2>1, <2>2, ShrBits
<1>2. (m - off) + off = m /\ m - off \in Nat
  <2>1. off \in Nat
    BY OffsetFacts
  <2> HIDE DEF off
  <2> QED
    BY <2>1 DEF off
<1> HIDE DEF w, off
<1>3. m - off \in Shr(table[w], off) <=> m \in table[w]
  BY <1>1, <1>2
<1> QED
  BY <1>3 DEF Get, Ones, w, off

LEMMA PlaceFacts ==
  ASSUME Bytes, NEW vb \in {1, 2, 4}, NEW i \in Nat, NEW n \in Nat,
         NEW table \in Words(n), Word(vb, i) \in 0 .. n
  PROVE  Offset(vb, i) \in Int /\ table[Word(vb, i)] \in SUBSET (0 .. 7)
<1>1. Offset(vb, i) \in Int
  BY OffsetFacts
<1>2. table[Word(vb, i)] \in SUBSET (0 .. 7)
  BY DEF Words
<1> QED
  BY <1>1, <1>2

\* What each operation stores.
LEMMA SetStores ==
  ASSUME Bytes, NEW vb \in {1, 2, 4}, NEW i \in Nat, NEW n \in Nat,
         NEW table \in Words(n), NEW v \in SUBSET Ones(vb), Word(vb, i) \in 0 .. n
  PROVE  Stored(Set(vb, table, i, v), table, n, vb, i, v)
<1> DEFINE w == Word(vb, i)
           off == Offset(vb, i)
           new == (table[w] \ Shl(Ones(vb), off, BaseBits)) \cup Shl(v, off, BaseBits)
<1>1. off \in Int /\ v \subseteq Int /\ table[w] \in SUBSET (0 .. 7)
  BY PlaceFacts DEF Ones
<1>2. new \in SUBSET (0 .. 7)
  BY <1>1, FieldInWord
<1>3. ASSUME NEW m \in 0 .. 7
      PROVE  m \in new <=> IF m - off \in 0 .. vb - 1 THEN m - off \in v
                           ELSE m \in table[w]
  BY FieldBits
<1>4. Set(vb, table, i, v) = [table EXCEPT ![w] = new]
  BY DEF Set
<1> HIDE DEF new
<1>5. Fits(new, table[w], vb, i, v)
  BY <1>2, <1>3 DEF Fits
<1> QED
  BY <1>4, <1>5, WordStored

LEMMA OrStores ==
  ASSUME Bytes, NEW vb \in {1, 2, 4}, NEW i \in Nat, NEW n \in Nat,
         NEW table \in Words(n), NEW v \in SUBSET Ones(vb), Word(vb, i) \in 0 .. n
  PROVE  Stored(BitOr(vb, table, i, v), table, n, vb, i, Get(vb, table, i) \cup v)
<1> DEFINE w == Word(vb, i)
           off == Offset(vb, i)
           new == table[w] \cup Shl(v, off, BaseBits)
<1>1. off \in Int /\ v \subseteq Int /\ table[w] \in SUBSET (0 .. 7)
  BY PlaceFacts DEF Ones
<1>2. new \in SUBSET (0 .. 7)
  BY <1>1, FieldInWord
<1>3. ASSUME NEW m \in 0 .. 7
      PROVE  m \in new <=> IF m - off \in 0 .. vb - 1
                           THEN m - off \in Get(vb, table, i) \cup v
                           ELSE m \in table[w]
  BY <1>1, FieldBits, OldBits
<1>4. BitOr(vb, table, i, v) = [table EXCEPT ![w] = new]
  BY DEF BitOr
<1> HIDE DEF new
<1>5. Fits(new, table[w], vb, i, Get(vb, table, i) \cup v)
  BY <1>2, <1>3 DEF Fits
<1> QED
  BY <1>4, <1>5, WordStored

LEMMA AndStores ==
  ASSUME Bytes, NEW vb \in {1, 2, 4}, NEW i \in Nat, NEW n \in Nat,
         NEW table \in Words(n), NEW v \in SUBSET Ones(vb), Word(vb, i) \in 0 .. n
  PROVE  Stored(BitAnd(vb, table, i, v), table, n, vb, i, Get(vb, table, i) \cap v)
<1> DEFINE w == Word(vb, i)
           off == Offset(vb, i)
           mask == Rotl(v \cup (Ones(BaseBits) \ Ones(vb)), off, BaseBits)
           new == table[w] \cap mask
<1>1. off \in Int /\ v \subseteq Int /\ table[w] \in SUBSET (0 .. 7)
  BY PlaceFacts DEF Ones
<1>2. new \in SUBSET (0 .. 7)
  BY <1>1
<1>3. ASSUME NEW m \in 0 .. 7
      PROVE  m \in new <=> IF m - off \in 0 .. vb - 1
                           THEN m - off \in Get(vb, table, i) \cap v
                           ELSE m \in table[w]
  <2>1. m \in mask <=> (m - off \in 0 .. vb - 1 => m - off \in v)
    BY RotlBits
  <2> HIDE DEF mask
  <2> QED
    BY <1>1, <2>1, OldBits
<1>4. BitAnd(vb, table, i, v) = [table EXCEPT ![w] = new]
  BY DEF BitAnd
<1> HIDE DEF new
<1>5. Fits(new, table[w], vb, i, Get(vb, table, i) \cap v)
  BY <1>2, <1>3 DEF Fits
<1> QED
  BY <1>4, <1>5, WordStored

LEMMA XorStores ==
  ASSUME Bytes, NEW vb \in {1, 2, 4}, NEW i \in Nat, NEW n \in Nat,
         NEW table \in Words(n), NEW v \in SUBSET Ones(vb), Word(vb, i) \in 0 .. n
  PROVE  Stored(BitXor(vb, table, i, v), table, n, vb, i,
                Xor(Get(vb, table, i), v))
<1> DEFINE w == Word(vb, i)
           off == Offset(vb, i)
           new == Xor(table[w], Shl(v, off, BaseBits))
<1>1. off \in Int /\ v \subseteq Int /\ table[w] \in SUBSET (0 .. 7)
  BY PlaceFacts DEF Ones
<1>2. new \in SUBSET (0 .. 7)
  BY <1>1, FieldInWord DEF Xor
<1>3. ASSUME NEW m \in 0 .. 7
      PROVE  m \in new <=> IF m - off \in 0 .. vb - 1
                           THEN m - off \in Xor(Get(vb, table, i), v)
                           ELSE m \in table[w]
  BY <1>1, FieldBits, OldBits DEF Xor
<1>4. BitXor(vb, table, i, v) = [table EXCEPT ![w] = new]
  BY DEF BitXor
<1> HIDE DEF new
<1>5. Fits(new, table[w], vb, i, Xor(Get(vb, table, i), v))
  BY <1>2, <1>3 DEF Fits
<1> QED
  BY <1>4, <1>5, WordStored

LEMMA NegStores ==
  ASSUME Bytes, NEW vb \in {1, 2, 4}, NEW i \in Nat, NEW n \in Nat,
         NEW table \in Words(n), Word(vb, i) \in 0 .. n
  PROVE  Stored(BitNeg(vb, table, i), table, n, vb, i,
                Ones(vb) \ Get(vb, table, i))
<1> DEFINE w == Word(vb, i)
           off == Offset(vb, i)
           new == Xor(table[w], Shl(Ones(vb), off, BaseBits))
<1>1. off \in Int /\ Ones(vb) \subseteq Int /\ table[w] \in SUBSET (0 .. 7)
      /\ Ones(vb) = 0 .. vb - 1
  BY PlaceFacts DEF Ones
<1>2. new \in SUBSET (0 .. 7)
  BY <1>1, FieldInWord DEF Xor
<1>3. ASSUME NEW m \in 0 .. 7
      PROVE  m \in new <=> IF m - off \in 0 .. vb - 1
                           THEN m - off \in Ones(vb) \ Get(vb, table, i)
                           ELSE m \in table[w]
  BY <1>1, FieldBits, OldBits DEF Xor
<1>4. BitNeg(vb, table, i) = [table EXCEPT ![w] = new]
  BY DEF BitNeg
<1> HIDE DEF new
<1>5. Fits(new, table[w], vb, i, Ones(vb) \ Get(vb, table, i))
  BY <1>2, <1>3 DEF Fits
<1> QED
  BY <1>4, <1>5, WordStored

(* What is stored at an index is found there; at all others is found what  *)
(* was there before.                                                       *)
LEMMA StoredIsLocal ==
  ASSUME Bytes, NEW vb \in {1, 2, 4}, NEW i \in Nat, NEW n \in Nat,
         NEW table \in Words(n), NEW d, NEW v \in SUBSET Ones(vb),
         Stored(d, table, n, vb, i, v),
         NEW j \in Nat, Word(vb, j) \in 0 .. n
  PROVE  Get(vb, d, j) = IF j = i THEN v ELSE Get(vb, table, j)
<1>1. /\ d[Word(vb, j)] \subseteq 0 .. 7 /\ table[Word(vb, j)] \subseteq 0 .. 7
  BY DEF Stored, Words
<1>2. /\ \A b : b \in Get(vb, d, j) <=> b \in 0 .. vb - 1 /\ Bit(d, j * vb + b)
      /\ \A b : b \in Get(vb, table, j) <=>
                  b \in 0 .. vb - 1 /\ Bit(table, j * vb + b)
  BY <1>1, GetBits
<1>3. v \subseteq 0 .. vb - 1
  BY DEF Ones
<1>4. ASSUME NEW b \in 0 .. vb - 1
      PROVE  Bit(d, j * vb + b) <=>
               IF j = i THEN b \in v ELSE Bit(table, j * vb + b)
  <2>1. /\ Word(vb, j) \in Nat /\ Offset(vb, j) \in 0 .. 7
        /\ Offset(vb, j) + vb <= 8 /\ j * vb = 8 * Word(vb, j) + Offset(vb, j)
    BY SpotFacts
  <2> DEFINE m == j * vb + b
  <2>2. m = 8 * Word(vb, j) + (Offset(vb, j) + b) /\ Offset(vb, j) + b \in 0 .. 7
    BY <2>1
  <2>3. m \div 8 = Word(vb, j) /\ m \in Nat
    <3> DEFINE w == Word(vb, j)
               o == Offset(vb, j) + b
    <3>1. w \in Int /\ o \in 0 .. 7 /\ w \in Nat /\ m = 8 * w + o
      BY <2>1, <2>2
    <3> HIDE DEF w, o, m
    <3>2. (8 * w + o) \div 8 = w
      BY <3>1, SplitFacts
    <3> QED
      BY <3>1, <3>2 DEF w
  <2>4. Bit(d, m) <=> IF m - i * vb \in 0 .. vb - 1 THEN m - i * vb \in v
                      ELSE Bit(table, m)
    BY <2>3 DEF Stored
  <2>5. /\ j = i => m - i * vb = b
        /\ j # i => ~(m - i * vb \in 0 .. vb - 1)
    <3>1. CASE vb = 1
      BY <3>1
    <3>2. CASE vb = 2
      BY <3>2
    <3>3. CASE vb = 4
      BY <3>3
    <3> QED
      BY <3>1, <3>2, <3>3
  <2> QED
    BY <2>4, <2>5
<1> QED
  BY <1>2, <1>3, <1>4

-----------------------------------------------------------------------------
(* Rows and columns.                                                       *)

LEMMA DivExists ==
  ASSUME NEW n \in Int, NEW d \in Nat \ {0}
  PROVE  /\ n = (n \div d) * d + (n % d)
         /\ n % d \in 0 .. d - 1 /\ n \div d \in Int
  OBVIOUS

LEMMA MultipleFacts ==
  ASSUME NEW a \in Int, NEW d \in Nat \ {0}, a >= 1
  PROVE  a * d >= d /\ a * d \in Int
  OBVIOUS

\* A number is a multiple of d and a rest below d in one way only.
LEMMA DivUnique ==
  ASSUME NEW d \in Nat \ {0}, NEW q \in Int, NEW r \in 0 .. d - 1
  PROVE  (q * d + r) \div d = q /\ (q * d + r) % d = r
<1> DEFINE n == q * d + r
           p == n \div d
           s == n % d
<1>1. n \in Int
  OBVIOUS
<1>2. n = p * d + s /\ s \in 0 .. d - 1 /\ p \in Int
  <2> HIDE DEF n
  <2> QED
    BY <1>1, DivExists
<1>3. p * d + s = q * d + r
  BY <1>2
<1> HIDE DEF p, s
<1>4. (p - q) * d = r - s /\ (q - p) * d = s - r
  BY <1>2, <1>3
<1>5. ~(p - q >= 1)
  <2> SUFFICES ASSUME p - q >= 1
               PROVE  FALSE
    OBVIOUS
  <2>1. p - q \in Int
    BY <1>2
  <2>2. (p - q) * d >= d
    BY <2>1, MultipleFacts
  <2> QED
    BY <1>2, <1>4, <2>2
<1>6. ~(q - p >= 1)
  <2> SUFFICES ASSUME q - p >= 1
               PROVE  FALSE
    OBVIOUS
  <2>1. q - p \in Int
    BY <1>2
  <2>2. (q - p) * d >= d
    BY <2>1, MultipleFacts
  <2> QED
    BY <1>2, <1>4, <2>2
<1>7. p = q
  BY <1>2, <1>5, <1>6
<1>8. s = r
  BY <1>2, <1>3, <1>7
<1> QED
  BY <1>7, <1>8 DEF p, s

\* A remainder may be taken before a sum or after it.
LEMMA ModSum ==
  ASSUME NEW d \in Nat \ {0}, NEW a \in Int, NEW b \in Int
  PROVE  /\ ((a % d) + b) % d = (a + b) % d
         /\ (-(a % d) + b) % d = (-a + b) % d
<1> DEFINE q == a \div d
           r == a % d
<1>1. a = q * d + r /\ r \in 0 .. d - 1 /\ q \in Int
  BY DivExists
<1> HIDE DEF q, r
<1>2. ASSUME NEW c \in Int, NEW e \in Int, NEW k \in Int, e = k * d + c
      PROVE  c % d = e % d
  <2> DEFINE p == c \div d
             s == c % d
  <2>1. c = p * d + s /\ s \in 0 .. d - 1 /\ p \in Int
    BY DivExists
  <2> HIDE DEF p, s
  <2>2. e = (k + p) * d + s /\ k + p \in Int
    BY <1>2, <2>1
  <2>3. e % d = s
    BY <2>1, <2>2, DivUnique
  <2> QED
    BY <2>3 DEF s
<1>3. (r + b) % d = (a + b) % d
  <2>1. a + b = q * d + (r + b) /\ a + b \in Int /\ r + b \in Int
    BY <1>1
  <2> QED
    BY <1>1, <1>2, <2>1
<1>4. (-r + b) % d = (-a + b) % d
  <2>1. -a + b = (-q) * d + (-r + b) /\ -a + b \in Int /\ -r + b \in Int /\ -q \in Int
    BY <1>1
  <2> QED
    BY <1>2, <2>1
<1> QED
  BY <1>3, <1>4 DEF r

LEMMA SmallMod ==
  ASSUME NEW d \in Nat \ {0}, NEW a \in 0 .. d - 1
  PROVE  a % d = a
<1>1. a = 0 * d + a /\ 0 \in Int
  OBVIOUS
<1>2. (0 * d + a) % d = a
  BY DivUnique
<1> QED
  BY <1>1, <1>2

LEMMA SizeFacts ==
  ASSUME Bytes
  PROVE  /\ HeaderWidth \in Nat \ {0} /\ HeaderHeight \in Nat \ {0}
         /\ Width \in Nat \ {0} /\ Height \in Nat \ {0}
         /\ HeaderWidth < Width /\ Width % 64 = 0 /\ Width >= 64
         /\ Height = HeaderHeight + 6
         /\ PaddingPerRow = Width - HeaderWidth
  BY HeaderAssumption
  DEF Bytes, Width, Height, PaddingPerRow, PADDED_ROWS

\* The cell in column x and row y of the padded grid.
LEMMA CellAt ==
  ASSUME Bytes, NEW x \in 0 .. HeaderWidth - 1, NEW y \in 3 .. HeaderHeight + 2
  PROVE  /\ PaddedId(x, y) \in Cells
         /\ PaddedId(x, y) % Width = x /\ PaddedId(x, y) \div Width = y
         /\ (y - 3) * HeaderWidth + x \in PackIds
         /\ ((y - 3) * HeaderWidth + x) % HeaderWidth = x
         /\ ((y - 3) * HeaderWidth + x) \div HeaderWidth = y - 3
         /\ ToPaddedId((y - 3) * HeaderWidth + x) = PaddedId(x, y)
<1> DEFINE w == HeaderWidth
           h == HeaderHeight
           k == (y - 3) * w + x
<1>1. /\ w \in Nat \ {0} /\ h \in Nat \ {0} /\ Width \in Nat \ {0} /\ w < Width
      /\ PaddingPerRow = Width - w
  BY SizeFacts
<1>2. x \in 0 .. Width - 1 /\ y \in Int /\ y - 3 \in Int
  BY <1>1
<1>3. (y * Width + x) % Width = x /\ (y * Width + x) \div Width = y
  BY <1>1, <1>2, DivUnique
<1>4. k % w = x /\ k \div w = y - 3
  BY <1>1, <1>2, DivUnique
<1>5. k \in PackIds
  <2>1. (h - (y - 3)) * w >= w /\ h - (y - 3) \in Int
    BY <1>1, MultipleFacts
  <2>2. (y - 3) * w \in Int /\ (y - 3) * w >= 0
    BY <1>1
  <2>3. (h - (y - 3)) * w = w * h - (y - 3) * w
    BY <1>1
  <2>4. w * h \in Int
    BY <1>1
  <2> DEFINE a == (y - 3) * w
             c == w * h
  <2>5. a \in Int /\ a >= 0 /\ c \in Int /\ c - a >= w
    BY <2>1, <2>2, <2>3, <2>4
  <2> HIDE DEF a, c
  <2>6. a + x \in 0 .. c - 1
    BY <1>1, <2>5
  <2> QED
    BY <2>6 DEF PackIds, a, c
<1>6. ToPaddedId(k) = y * Width + x
  <2>1. ToPaddedId(k) = k + 3 * Width + (y - 3) * (Width - w)
    BY <1>1, <1>4 DEF ToPaddedId, PADDED_ROWS
  <2>2. (y - 3) * (Width - w) = (y - 3) * Width - (y - 3) * w
    BY <1>1
  <2>3. (y - 3) * Width = y * Width - 3 * Width
    BY <1>1
  <2> DEFINE a == (y - 3) * w
             c == y * Width
             e == (y - 3) * Width
  <2>4. a \in Int /\ c \in Int /\ e \in Int
    BY <1>1
  <2>5. ToPaddedId(k) = (a + x) + 3 * Width + (e - a) /\ e = c - 3 * Width
    BY <2>1, <2>2, <2>3
  <2> HIDE DEF a, c, e
  <2>6. ToPaddedId(k) = c + x
    BY <1>1, <2>4, <2>5
  <2> QED
    BY <2>6 DEF c
<1>7. y * Width + x \in Cells
  BY <1>5, <1>6 DEF Cells
<1> QED
  BY <1>3, <1>4, <1>5, <1>6, <1>7 DEF PaddedId

\* Every cell is in some column and row.
LEMMA CellFacts ==
  ASSUME Bytes, NEW c \in Cells
  PROVE  \E x \in 0 .. HeaderWidth - 1 : \E y \in 3 .. HeaderHeight + 2 :
           c = PaddedId(x, y)
<1> DEFINE w == HeaderWidth
           h == HeaderHeight
<1>1. w \in Nat \ {0} /\ h \in Nat \ {0}
  BY SizeFacts
<1>2. PICK k \in PackIds : c = ToPaddedId(k)
  BY DEF Cells
<1> DEFINE x == k % w
           r == k \div w
<1>3. w * h \in Nat
  BY <1>1
<1>4. k \in 0 .. w * h - 1
  BY DEF PackIds
<1>5. k \in Int /\ 0 <= k /\ k < w * h
  BY <1>3, <1>4
<1>6. k = r * w + x /\ x \in 0 .. w - 1 /\ r \in Int
  BY <1>1, <1>5, DivExists
<1> HIDE DEF x, r
<1>7. r >= 0
  <2> SUFFICES ASSUME ~(r >= 0)
               PROVE  FALSE
    OBVIOUS
  <2>1. (-r) * w >= w
    BY <1>1, <1>6, MultipleFacts
  <2>2. (-r) * w = -(r * w) /\ r * w \in Int
    BY <1>1, <1>6
  <2> QED
    BY <1>1, <1>5, <1>6, <2>1, <2>2
<1>8. r < h
  <2> SUFFICES ASSUME ~(r < h)
               PROVE  FALSE
    OBVIOUS
  <2>1. r - h \in Nat /\ (r - h) * w >= 0
    BY <1>1, <1>6
  <2>2. (r - h) * w = r * w - w * h /\ r * w \in Int /\ w * h \in Int
    BY <1>1, <1>6
  <2> DEFINE a == r * w
             b == w * h
  <2>3. a \in Int /\ b \in Int /\ a - b >= 0 /\ k = a + x /\ k < b
    BY <1>5, <1>6, <2>1, <2>2
  <2> HIDE DEF a, b
  <2> QED
    BY <1>6, <2>3
<1>9. r + 3 \in 3 .. h + 2
  BY <1>1, <1>6, <1>7, <1>8
<1>10. ToPaddedId(((r + 3) - 3) * w + x) = PaddedId(x, r + 3)
  BY <1>6, <1>9, CellAt
<1>11. ((r + 3) - 3) * w + x = k
  BY <1>6
<1>12. c = PaddedId(x, r + 3)
  BY <1>2, <1>10, <1>11
<1> QED
  BY <1>6, <1>9, <1>12

-----------------------------------------------------------------------------
(* The walker.                                                             *)

\* The ids and the coordinates of the padded grid do not wrap, and the build
\* does not spread the bits of a direction with _pdep_u32.
NothingWraps ==
  /\ Width * Height <= Wrap /\ Width <= PointWrap /\ Height <= PointWrap
  /\ BMI2 = FALSE

\* Only cells of the file are ever open.
OnlyCellsAreOpen ==
  /\ data \in Words(data_elements + 7)
  /\ \A pad \in 0 .. Width * Height - 1 : Open(pad) => pad \in Cells

\* The directions, clockwise from north.
Ring == <<NORTH, NORTHEAST, EAST, SOUTHEAST, SOUTH, SOUTHWEST, WEST, NORTHWEST>>

\* The walker stands on a cell, and came straight from where it turned.
WalksStraight ==
  /\ id \in Cells /\ from \in (0 .. Width - 1) \X (0 .. Height - 1)
  /\ point = Place(id)
  /\ heading \in Direction /\ angle \in 0 .. 7
  /\ heading = At(Ring, angle)
  /\ \E steps \in Nat :
       /\ point[1] = from[1] + steps * UnitPoint(heading)[1]
       /\ point[2] = from[2] + steps * UnitPoint(heading)[2]

GridInv == OnlyCellsAreOpen /\ WalksStraight

\* Where a step goes, as an id and as a point.
LEMMA UnitFacts ==
  ASSUME BMI2 = FALSE, NEW d \in Direction, NEW w \in Int
  PROVE  /\ UnitPoint(d)[1] \in {-1, 0, 1} /\ UnitPoint(d)[2] \in {-1, 0, 1}
         /\ DirIdAdj(d, w) = (UnitPoint(d)[2] * w + UnitPoint(d)[1]) % Wrap
         /\ DirIdAdjVert(d, w) = (UnitPoint(d)[2] * w) % Wrap
         /\ DirIdAdjHori(d) = UnitPoint(d)[1]
<1> USE DEF UnitPoint, At, DirIdAdj, DirIdAdjVert, DirIdAdjHori, Direction
<1>1. CASE d = 0
  BY <1>1
<1>2. CASE d = 1
  BY <1>2
<1>3. CASE d = 2
  BY <1>3
<1>4. CASE d = 3
  BY <1>4
<1>5. CASE d = 4
  BY <1>5
<1>6. CASE d = 5
  BY <1>6
<1>7. CASE d = 6
  BY <1>7
<1>8. CASE d = 7
  BY <1>8
<1>9. d \in {0, 1, 2, 3, 4, 5, 6, 7}
  OBVIOUS
<1> QED
  BY <1>1, <1>2, <1>3, <1>4, <1>5, <1>6, <1>7, <1>8, <1>9

\* The id of a cell, and what lies around it.
LEMMA AroundFacts ==
  ASSUME Bytes, NothingWraps, NEW x \in 0 .. HeaderWidth - 1,
         NEW y \in 3 .. HeaderHeight + 2, NEW dx \in {-1, 0, 1}, NEW dy \in {-1, 0, 1}
  PROVE  /\ (PaddedId(x, y) + ((dy * Width + dx) % Wrap)) % Wrap
              = PaddedId(x, y) + (dy * Width + dx)
         /\ PaddedId(x, y) + (dy * Width + dx) \in 0 .. Width * Height - 1
<1> DEFINE a == y * Width
           b == dy * Width
           c == HeaderHeight * Width
           t == Width * Height
           p == a + x
           e == b + dx
<1>1. /\ HeaderWidth \in Nat \ {0} /\ HeaderHeight \in Nat \ {0}
      /\ Width \in Nat \ {0} /\ HeaderWidth < Width /\ Width >= 64
      /\ Height = HeaderHeight + 6
  BY SizeFacts
<1>2. a \in Int /\ c \in Int /\ b \in {-Width, 0, Width} /\ t = c + 6 * Width
  BY <1>1
<1>3. a >= 3 * Width
  BY <1>1
<1>4. a <= c + 2 * Width
  <2> DEFINE m == HeaderHeight + 2 - y
  <2>1. m \in Nat /\ y \in Int /\ HeaderHeight \in Int
    BY <1>1
  <2>2. m * Width >= 0
    <3> HIDE DEF m
    <3> QED
      BY <1>1, <2>1
  <2>3. (HeaderHeight + 2 - y) * Width
          = HeaderHeight * Width + 2 * Width - y * Width
    BY <1>1, <2>1
  <2>4. c + 2 * Width - a >= 0
    BY <2>2, <2>3
  <2> HIDE DEF a, c
  <2> QED
    BY <1>1, <1>2, <2>4
<1>5. t <= Wrap /\ Wrap \in Nat \ {0}
  BY RangeAssumption DEF NothingWraps
<1> HIDE DEF a, b, c, t
<1>6. p \in Int /\ e \in Int /\ p + e \in 0 .. t - 1
  BY <1>1, <1>2, <1>3, <1>4
<1>7. ((e % Wrap) + p) % Wrap = (e + p) % Wrap
  BY <1>5, <1>6, ModSum
<1>8. p + e \in 0 .. Wrap - 1 /\ p + e = e + p
  BY <1>2, <1>5, <1>6
<1>9. (p + e) % Wrap = p + e
  BY <1>5, <1>8, SmallMod
<1>10. e % Wrap \in Int /\ (e % Wrap) + p = p + (e % Wrap)
  BY <1>5, <1>6
<1>11. (p + (e % Wrap)) % Wrap = p + e
  BY <1>7, <1>8, <1>9, <1>10
<1> QED
  BY <1>6, <1>11 DEF PaddedId, a, b, t

\* A step onto an open cell is a step on the map: no row is crossed unseen.
LEMMA StepFacts ==
  ASSUME Bytes, NothingWraps, GridInv, Step
  PROVE  /\ id' \in Cells
         /\ point' = Place(id')
         /\ point'[1] = point[1] + UnitPoint(heading)[1]
         /\ point'[2] = point[2] + UnitPoint(heading)[2]
<1> DEFINE dx == UnitPoint(heading)[1]
           dy == UnitPoint(heading)[2]
<1>1. /\ HeaderWidth \in Nat \ {0} /\ HeaderHeight \in Nat \ {0}
      /\ Width \in Nat \ {0} /\ HeaderWidth < Width /\ Width >= 64
      /\ Height = HeaderHeight + 6
  BY SizeFacts
<1>2. heading \in Direction /\ id \in Cells /\ point = Place(id)
  BY DEF GridInv, WalksStraight
<1>3. PICK x \in 0 .. HeaderWidth - 1 : \E y \in 3 .. HeaderHeight + 2 :
        id = PaddedId(x, y)
  BY <1>2, CellFacts
<1>4. PICK y \in 3 .. HeaderHeight + 2 : id = PaddedId(x, y)
  BY <1>3
<1>5. point = <<x, y>>
  BY <1>2, <1>4, CellAt DEF Place, ToPaddedXY
<1>6. /\ dx \in {-1, 0, 1} /\ dy \in {-1, 0, 1}
      /\ DirIdAdj(heading, Width) = (dy * Width + dx) % Wrap
  <2>1. BMI2 = FALSE
    BY DEF NothingWraps
  <2>2. Width \in Int
    BY <1>1
  <2> QED
    BY <1>2, <2>1, <2>2, UnitFacts
<1>7. point' = Plus(point, UnitPoint(heading))
      /\ id' = (id + DirIdAdj(heading, Width)) % Wrap /\ Open(id')
  BY DEF Step
<1> HIDE DEF dx, dy
<1>8. id' = id + (dy * Width + dx) /\ id' \in 0 .. Width * Height - 1
  BY <1>4, <1>6, <1>7, AroundFacts
<1>9. id' \in Cells
  BY <1>7, <1>8 DEF GridInv, OnlyCellsAreOpen
<1>10. PICK u \in 0 .. HeaderWidth - 1 : \E v \in 3 .. HeaderHeight + 2 :
         id' = PaddedId(u, v)
  BY <1>9, CellFacts
<1>11. PICK v \in 3 .. HeaderHeight + 2 : id' = PaddedId(u, v)
  BY <1>10
<1>12. id' % Width = u /\ id' \div Width = v
  BY <1>11, CellAt
<1>13. id' = (y + dy) * Width + (x + dx)
  <2>1. id = y * Width + x
    BY <1>4 DEF PaddedId
  <2>2. (y + dy) * Width = y * Width + dy * Width /\ y * Width \in Int
        /\ dy * Width \in Int
    BY <1>1, <1>6
  <2> DEFINE a == y * Width
             b == dy * Width
             c == (y + dy) * Width
  <2>3. id' = (a + x) + (b + dx) /\ c = a + b /\ a \in Int /\ b \in Int
    BY <1>8, <2>1, <2>2
  <2> HIDE DEF a, b, c
  <2>4. id' = c + (x + dx)
    BY <1>6, <2>3
  <2> QED
    BY <2>4 DEF c
<1>14. x + dx \in 0 .. Width - 1
  <2>1. x + dx \in -1 .. Width - 1
    BY <1>1, <1>6
  <2>2. x + dx # -1
    <3> SUFFICES ASSUME x + dx = -1
                 PROVE  FALSE
      OBVIOUS
    <3>1. id' = (y + dy - 1) * Width + (Width - 1)
      <4>1. (y + dy - 1) * Width = (y + dy) * Width - Width
            /\ (y + dy) * Width \in Int
        BY <1>1, <1>6
      <4> QED
        BY <1>1, <1>13, <4>1
    <3>2. y + dy - 1 \in Int /\ Width - 1 \in 0 .. Width - 1
      BY <1>1, <1>6
    <3>3. id' % Width = Width - 1
      BY <1>1, <3>1, <3>2, DivUnique
    <3> QED
      BY <1>1, <1>12, <3>3
  <2> QED
    BY <2>1, <2>2
<1>15. u = x + dx /\ v = y + dy
  <2>1. y + dy \in Int
    BY <1>6
  <2>2. id' % Width = x + dx /\ id' \div Width = y + dy
    BY <1>1, <1>13, <1>14, <2>1, DivUnique
  <2> QED
    BY <1>12, <2>2
<1>16. point' = <<x + dx, y + dy>>
  <2>1. PointWrap \in Nat \ {0} /\ u \in 0 .. PointWrap - 1 /\ v \in 0 .. PointWrap - 1
    BY <1>1, RangeAssumption DEF NothingWraps
  <2>2. u % PointWrap = u /\ v % PointWrap = v
    BY <2>1, SmallMod
  <2> QED
    BY <1>5, <1>7, <1>15, <2>2 DEF Plus, dx, dy
<1>17. Place(id') = <<u, v>>
  BY <1>12 DEF Place, ToPaddedXY
<1> QED
  BY <1>5, <1>9, <1>15, <1>16, <1>17 DEF dx, dy

\* Where a cell is in the table, and when it is open.
LEMMA WordOfCell ==
  ASSUME Bytes, NEW pad \in 0 .. Width * Height - 1
  PROVE  /\ pad \in Nat /\ Word(1, pad) = pad \div 8
         /\ pad \div 8 \in 0 .. data_elements - 1
         /\ data_elements \in Nat \ {0}
<1> DEFINE t == Width * Height
<1>1. t \in Nat /\ data_elements = (t + 7) \div 8
  <2>1. Width \in Nat /\ Height \in Nat
    BY SizeFacts
  <2>2. t \in Nat
    BY <2>1
  <2> HIDE DEF t
  <2>3. (t * 1 + 8 - 1) \div 8 = (t + 7) \div 8
    BY <2>2
  <2> QED
    BY <2>2, <2>3 DEF data_elements, calc_array_size, Bytes, t
<1>2. pad \in 0 .. t - 1
  OBVIOUS
<1> HIDE DEF t
<1>3. pad \in Nat /\ pad * 1 = pad
  BY <1>1, <1>2
<1>4. pad \div 8 \in 0 .. ((t + 7) \div 8) - 1
  BY <1>1, <1>2
<1>5. (t + 7) \div 8 \in Nat \ {0}
  BY <1>1, <1>2
<1> QED
  BY <1>1, <1>3, <1>4, <1>5 DEF Word, Bytes

LEMMA CellBit ==
  ASSUME Bytes, NEW n \in Nat, NEW d \in Words(n), NEW pad \in Nat,
         pad \div 8 \in 0 .. n
  PROVE  GetLabel(d, pad) = {0} <=> Bit(d, pad)
<1>1. Word(1, pad) = pad \div 8
  BY DEF Word, Bytes
<1>2. d[Word(1, pad)] \subseteq 0 .. 7
  BY <1>1 DEF Words
<1>3. \A b : b \in Get(1, d, pad) <=> b \in 0 .. 1 - 1 /\ Bit(d, pad * 1 + b)
  BY <1>2, GetBits
<1>4. \A b : b \in Get(1, d, pad) <=> b = 0 /\ Bit(d, pad)
  <2> SUFFICES ASSUME NEW b
               PROVE  b \in Get(1, d, pad) <=> b = 0 /\ Bit(d, pad)
    OBVIOUS
  <2>1. b \in 0 .. 1 - 1 <=> b = 0
    OBVIOUS
  <2>2. pad * 1 + 0 = pad
    OBVIOUS
  <2> QED
    BY <1>3, <2>1, <2>2
<1> QED
  BY <1>4 DEF GetLabel

\* A cell keeps its state until it is written.
LEMMA LabelStored ==
  ASSUME Bytes, NEW d \in Words(data_elements + 7), NEW label \in {{}, {0}},
         NEW c \in 0 .. Width * Height - 1
  PROVE  /\ SetLabel(d, c, label) \in Words(data_elements + 7)
         /\ Stored(SetLabel(d, c, label), d, data_elements + 7, 1, c, label)
<1> DEFINE n == data_elements + 7
<1>1. c \in Nat /\ Word(1, c) \in 0 .. n /\ n \in Nat
  BY WordOfCell
<1>2. label \in SUBSET Ones(1)
  BY DEF Ones
<1>3. Stored(SetLabel(d, c, label), d, n, 1, c, label)
  BY <1>1, <1>2, SetStores DEF SetLabel
<1> QED
  BY <1>3 DEF Stored

LEMMA OthersKeep ==
  ASSUME Bytes, NEW d \in Words(data_elements + 7), NEW label \in {{}, {0}},
         NEW c \in 0 .. Width * Height - 1, NEW pad \in 0 .. Width * Height - 1,
         pad # c
  PROVE  GetLabel(SetLabel(d, c, label), pad) = GetLabel(d, pad)
<1> DEFINE n == data_elements + 7
<1>1. c \in Nat /\ Word(1, c) \in 0 .. n /\ n \in Nat
  BY WordOfCell
<1>2. label \in SUBSET Ones(1)
  BY DEF Ones
<1>3. Stored(SetLabel(d, c, label), d, n, 1, c, label)
  BY LabelStored
<1>4. pad \in Nat /\ Word(1, pad) \in 0 .. n
  BY WordOfCell
<1> QED
  BY <1>1, <1>2, <1>3, <1>4, StoredIsLocal DEF GetLabel

\* Cells lie in the table.
LEMMA CellInTable ==
  ASSUME Bytes, NEW c \in Cells
  PROVE  c \in 0 .. Width * Height - 1
<1>1. /\ HeaderWidth \in Nat \ {0} /\ HeaderHeight \in Nat \ {0}
      /\ Width \in Nat \ {0} /\ HeaderWidth < Width /\ Width >= 64
      /\ Height = HeaderHeight + 6
  BY SizeFacts
<1>2. PICK x \in 0 .. HeaderWidth - 1 : \E y \in 3 .. HeaderHeight + 2 :
        c = PaddedId(x, y)
  BY CellFacts
<1>3. PICK y \in 3 .. HeaderHeight + 2 : c = y * Width + x
  BY <1>2 DEF PaddedId
<1>4. y + 1 <= Height /\ y \in Nat /\ Height - (y + 1) \in Nat
  BY <1>1
<1>5. (Height - (y + 1)) * Width >= 0
  <2> DEFINE m == Height - (y + 1)
  <2>1. m \in Nat
    BY <1>4
  <2> HIDE DEF m
  <2>2. m * Width >= 0
    BY <1>1, <2>1
  <2> QED
    BY <2>2 DEF m
<1>6. (Height - (y + 1)) * Width = Width * Height - y * Width - Width
  BY <1>1, <1>4
<1> DEFINE a == y * Width
           t == Width * Height
<1>7. a \in Nat /\ t \in Nat /\ t - a - Width >= 0 /\ c = a + x
  BY <1>1, <1>3, <1>4, <1>5, <1>6
<1> HIDE DEF a, t
<1>8. c \in 0 .. t - 1
  BY <1>1, <1>7
<1> QED
  BY <1>8 DEF t

\* The place of a cell is on the map, and names it.
LEMMA PlaceOfCell ==
  ASSUME Bytes, NEW c \in Cells
  PROVE  /\ Place(c) \in (0 .. Width - 1) \X (0 .. Height - 1)
         /\ PaddedId(Place(c)[1], Place(c)[2]) = c
         /\ ToUnpaddedId(c) \in PackIds
         /\ ToPaddedId(ToUnpaddedId(c)) = c
         /\ PackXY(ToUnpaddedId(c)) = ToUnpaddedXY(c)
         /\ ToPaddedIdFromUnpadded(ToUnpaddedXY(c)[1], ToUnpaddedXY(c)[2]) = c
<1>1. /\ HeaderWidth \in Nat \ {0} /\ HeaderHeight \in Nat \ {0}
      /\ Width \in Nat \ {0} /\ HeaderWidth < Width
      /\ Height = HeaderHeight + 6 /\ PaddingPerRow = Width - HeaderWidth
  BY SizeFacts
<1>2. PICK x \in 0 .. HeaderWidth - 1 : \E y \in 3 .. HeaderHeight + 2 :
        c = PaddedId(x, y)
  BY CellFacts
<1>3. PICK y \in 3 .. HeaderHeight + 2 : c = PaddedId(x, y)
  BY <1>2
<1>4. c % Width = x /\ c \div Width = y
  BY <1>3, CellAt
<1>5. Place(c) = <<x, y>> /\ ToUnpaddedXY(c) = <<x, y - 3>>
  BY <1>4 DEF Place, ToUnpaddedXY, ToPaddedXY, PADDED_ROWS
<1>6. x \in 0 .. Width - 1 /\ y \in 0 .. Height - 1
  BY <1>1
<1> DEFINE k == (y - 3) * HeaderWidth + x
<1>7. /\ k \in PackIds /\ k % HeaderWidth = x /\ k \div HeaderWidth = y - 3
      /\ ToPaddedId(k) = c
  BY <1>3, CellAt
<1>8. ToUnpaddedId(c) = k
  <2>1. ToUnpaddedId(c) = (y * Width + x) - y * (Width - HeaderWidth)
                            - 3 * HeaderWidth
    BY <1>1, <1>3, <1>4 DEF ToUnpaddedId, PaddedId, PADDED_ROWS
  <2>2. y * (Width - HeaderWidth) = y * Width - y * HeaderWidth
    BY <1>1
  <2>3. (y - 3) * HeaderWidth = y * HeaderWidth - 3 * HeaderWidth
    BY <1>1
  <2> DEFINE a == y * Width
             b == y * HeaderWidth
             e == y * (Width - HeaderWidth)
             f == (y - 3) * HeaderWidth
  <2>4. a \in Int /\ b \in Int /\ e = a - b /\ f = b - 3 * HeaderWidth
        /\ ToUnpaddedId(c) = (a + x) - e - 3 * HeaderWidth
    BY <1>1, <2>1, <2>2, <2>3
  <2> HIDE DEF a, b, e, f
  <2>5. ToUnpaddedId(c) = f + x
    BY <1>1, <2>4
  <2> QED
    BY <2>5 DEF f
<1> HIDE DEF k
<1>9. PackXY(k) = <<x, y - 3>>
  BY <1>7 DEF PackXY
<1>10. ToPaddedIdFromUnpadded(x, y - 3) = c
  <2>1. (y - 3) + 3 = y
    OBVIOUS
  <2> QED
    BY <1>3, <2>1 DEF ToPaddedIdFromUnpadded, PADDED_ROWS
<1> QED
  BY <1>3, <1>5, <1>6, <1>7, <1>8, <1>9, <1>10

\* What a turn of each of the five kinds does to the heading.
LEMMA TurnsAddUp ==
  ASSUME NEW a \in 0 .. 7, NEW d, d = At(Ring, a)
  PROVE  /\ Cw45(d) = At(Ring, (a + 1) % 8) /\ Cw90(d) = At(Ring, (a + 2) % 8)
         /\ Flip180(d) = At(Ring, (a + 4) % 8)
         /\ Ccw90(d) = At(Ring, (a + 6) % 8) /\ Ccw45(d) = At(Ring, (a + 7) % 8)
         /\ d \in Direction
<1> USE DEF Ring, At, Cw45, Cw90, Flip180, Ccw90, Ccw45, Direction, NORTH,
            NORTHEAST, EAST, SOUTHEAST, SOUTH, SOUTHWEST, WEST, NORTHWEST
<1>1. CASE a = 0
  BY <1>1
<1>2. CASE a = 1
  BY <1>2
<1>3. CASE a = 2
  BY <1>3
<1>4. CASE a = 3
  BY <1>4
<1>5. CASE a = 4
  BY <1>5
<1>6. CASE a = 5
  BY <1>6
<1>7. CASE a = 6
  BY <1>7
<1>8. CASE a = 7
  BY <1>8
<1>9. a \in {0, 1, 2, 3, 4, 5, 6, 7}
  OBVIOUS
<1> QED
  BY <1>1, <1>2, <1>3, <1>4, <1>5, <1>6, <1>7, <1>8, <1>9

LEMMA GridInvInit ==
  ASSUME Bytes, NothingWraps, Init
  PROVE  GridInv
<1>1. PICK k \in Walkable, junk \in Junk :
        /\ data = SetLabel(EmptyDb(junk), ToPaddedId(k), {0})
        /\ id = ToPaddedId(k)
        /\ point = Place(id) /\ from = Place(id)
        /\ heading = NORTH /\ angle = 0
  BY DEF Init
<1>2. id \in Cells
  BY <1>1, WalkAssumption DEF Cells
<1>3. id \in 0 .. Width * Height - 1
  BY <1>2, CellInTable
<1>4. data_elements \in Nat \ {0}
  BY <1>3, WordOfCell
<1> DEFINE n == data_elements + 7
           empty == EmptyDb(junk)
<1>5. empty \in Words(n) /\ n \in Nat
  <2>1. junk \in SUBSET (0 .. 7)
    <3>1. Ones(BaseBits) = 0 .. 7
      BY DEF Bytes, Ones
    <3> QED
      BY <3>1, WalkAssumption
  <2> QED
    BY <1>4, <2>1 DEF EmptyDb, Words
<1>6. \A pad \in 0 .. Width * Height - 1 : GetLabel(empty, pad) # {0}
  <2> SUFFICES ASSUME NEW pad \in 0 .. Width * Height - 1
               PROVE  GetLabel(empty, pad) # {0}
    OBVIOUS
  <2>1. pad \in Nat /\ pad \div 8 \in 0 .. data_elements - 1
    BY WordOfCell
  <2>2. pad \div 8 \in 0 .. n
    BY <1>4, <2>1
  <2>3. empty[pad \div 8] = {}
    BY <1>4, <2>1, <2>2 DEF EmptyDb
  <2>4. ~Bit(empty, pad)
    BY <2>3 DEF Bit
  <2> HIDE DEF empty, n
  <2> QED
    BY <1>5, <2>1, <2>2, <2>4, CellBit
<1> HIDE DEF empty
<1>7. data \in Words(n) /\ \A pad \in 0 .. Width * Height - 1 :
        pad # id => GetLabel(data, pad) = GetLabel(empty, pad)
  <2>1. data = SetLabel(empty, id, {0})
    BY <1>1 DEF empty
  <2>2. SetLabel(empty, id, {0}) \in Words(n)
    BY <1>3, <1>5, LabelStored
  <2>3. ASSUME NEW pad \in 0 .. Width * Height - 1, pad # id
        PROVE  GetLabel(SetLabel(empty, id, {0}), pad) = GetLabel(empty, pad)
    BY <1>3, <1>5, <2>3, OthersKeep
  <2> QED
    BY <2>1, <2>2, <2>3
<1>8. OnlyCellsAreOpen
  BY <1>2, <1>6, <1>7 DEF OnlyCellsAreOpen, Open
<1>9. point \in (0 .. Width - 1) \X (0 .. Height - 1) /\ from = point
  BY <1>1, <1>2, PlaceOfCell
<1>10. heading = At(Ring, angle) /\ heading \in Direction
       /\ angle \in 0 .. 7
  BY <1>1 DEF At, Ring, NORTH, Direction
<1>11. BMI2 = FALSE /\ Width \in Int
  BY SizeFacts DEF NothingWraps
<1>12. UnitPoint(heading)[1] \in Int /\ UnitPoint(heading)[2] \in Int
  <2>1. UnitPoint(heading)[1] \in {-1, 0, 1} /\ UnitPoint(heading)[2] \in {-1, 0, 1}
    BY <1>10, <1>11, UnitFacts
  <2> QED
    BY <2>1
<1>13. \E steps \in Nat :
         /\ point[1] = from[1] + steps * UnitPoint(heading)[1]
         /\ point[2] = from[2] + steps * UnitPoint(heading)[2]
  <2>1. point[1] \in Int /\ point[2] \in Int
    BY <1>1, <1>9, SizeFacts
  <2>2. /\ point[1] = from[1] + 0 * UnitPoint(heading)[1]
        /\ point[2] = from[2] + 0 * UnitPoint(heading)[2]
    BY <1>9, <1>12, <2>1
  <2> QED
    BY <2>2
<1>14. WalksStraight
  BY <1>1, <1>2, <1>9, <1>10, <1>13 DEF WalksStraight
<1> QED
  BY <1>8, <1>14 DEF GridInv

LEMMA GridInvChange ==
  ASSUME Bytes, NothingWraps, GridInv,
         NEW k \in Walkable, NEW label \in {{}, {0}}, Change(ToPaddedId(k), label)
  PROVE  GridInv'
<1> DEFINE c == ToPaddedId(k)
<1>1. c \in Cells /\ c \in 0 .. Width * Height - 1
  <2>1. c \in Cells
    BY WalkAssumption DEF Cells
  <2> QED
    BY <2>1, CellInTable
<1>2. data' = SetLabel(data, c, label)
      /\ UNCHANGED <<id, point, heading, angle, from>>
  BY DEF Change
<1>3. data \in Words(data_elements + 7)
  BY DEF GridInv, OnlyCellsAreOpen
<1> HIDE DEF c
<1>4. data' \in Words(data_elements + 7)
  BY <1>1, <1>2, <1>3, LabelStored
<1>5. ASSUME NEW pad \in 0 .. Width * Height - 1, Open(pad)'
      PROVE  pad \in Cells
  <2>1. CASE pad = c
    BY <1>1, <2>1
  <2>2. CASE pad # c
    <3>1. GetLabel(data', pad) = GetLabel(data, pad)
      BY <1>1, <1>2, <1>3, <2>2, OthersKeep
    <3>2. Open(pad)
      BY <1>5, <3>1 DEF Open
    <3> QED
      BY <3>2 DEF GridInv, OnlyCellsAreOpen
  <2> QED
    BY <2>1, <2>2
<1>6. OnlyCellsAreOpen'
  BY <1>4, <1>5 DEF OnlyCellsAreOpen
<1>7. WalksStraight'
  BY <1>2 DEF GridInv, WalksStraight, Place
<1> QED
  BY <1>6, <1>7 DEF GridInv

LEMMA GridInvTurn ==
  ASSUME Bytes, NothingWraps, GridInv, Turn
  PROVE  GridInv'
<1>1. /\ id \in Cells /\ point = Place(id)
      /\ angle \in 0 .. 7 /\ heading = At(Ring, angle)
  BY DEF GridInv, WalksStraight
<1>2. PICK e \in {1, 2, 4, 6, 7} : \E d : TurnTo(d, e) /\ d = At(Ring, (angle + e) % 8)
  BY <1>1, TurnsAddUp DEF Turn
<1>3. /\ heading' = At(Ring, (angle + e) % 8) /\ angle' = (angle + e) % 8
      /\ from' = point /\ UNCHANGED <<data, id, point>>
  BY <1>2 DEF TurnTo
<1>4. angle' \in 0 .. 7 /\ heading' = At(Ring, angle')
  <2>1. (angle + e) % 8 \in 0 .. 7
    BY <1>1
  <2> QED
    BY <1>3, <2>1
<1>5. heading' \in Direction
  BY <1>4, TurnsAddUp
<1>6. point \in (0 .. Width - 1) \X (0 .. Height - 1)
  BY <1>1, PlaceOfCell
<1>7. UnitPoint(heading')[1] \in Int /\ UnitPoint(heading')[2] \in Int
  <2>1. BMI2 = FALSE /\ Width \in Int
    BY SizeFacts DEF NothingWraps
  <2>2. /\ UnitPoint(heading')[1] \in {-1, 0, 1}
        /\ UnitPoint(heading')[2] \in {-1, 0, 1}
    BY <1>5, <2>1, UnitFacts
  <2> QED
    BY <2>2
<1>8. \E steps \in Nat :
        /\ point'[1] = from'[1] + steps * UnitPoint(heading')[1]
        /\ point'[2] = from'[2] + steps * UnitPoint(heading')[2]
  <2>1. point[1] \in Int /\ point[2] \in Int
    BY <1>6, SizeFacts
  <2>2. /\ point'[1] = from'[1] + 0 * UnitPoint(heading')[1]
        /\ point'[2] = from'[2] + 0 * UnitPoint(heading')[2]
    BY <1>3, <1>7, <2>1
  <2> QED
    BY <2>2
<1>9. WalksStraight'
  BY <1>1, <1>3, <1>4, <1>5, <1>6, <1>8 DEF WalksStraight, Place
<1>10. OnlyCellsAreOpen'
  BY <1>3 DEF GridInv, OnlyCellsAreOpen, Open
<1> QED
  BY <1>9, <1>10 DEF GridInv

LEMMA GridInvStep ==
  ASSUME Bytes, NothingWraps, GridInv, Step
  PROVE  GridInv'
<1>1. /\ id' \in Cells /\ point' = Place(id')
      /\ point'[1] = point[1] + UnitPoint(heading)[1]
      /\ point'[2] = point[2] + UnitPoint(heading)[2]
  BY StepFacts
<1>2. UNCHANGED <<data, heading, angle, from>>
  BY DEF Step
<1> DEFINE dx == UnitPoint(heading)[1]
           dy == UnitPoint(heading)[2]
<1>3. dx \in Int /\ dy \in Int
  <2>1. BMI2 = FALSE /\ Width \in Int /\ heading \in Direction
    BY SizeFacts DEF NothingWraps, GridInv, WalksStraight
  <2>2. dx \in {-1, 0, 1} /\ dy \in {-1, 0, 1}
    BY <2>1, UnitFacts
  <2> HIDE DEF dx, dy
  <2> QED
    BY <2>2
<1>4. PICK steps \in Nat : /\ point[1] = from[1] + steps * dx
                           /\ point[2] = from[2] + steps * dy
  BY DEF GridInv, WalksStraight
<1>5. from[1] \in Int /\ from[2] \in Int
  BY SizeFacts DEF GridInv, WalksStraight
<1>6. point'[1] = from[1] + (steps + 1) * dx /\ point'[2] = from[2] + (steps + 1) * dy
  <2>1. (steps + 1) * dx = steps * dx + dx /\ (steps + 1) * dy = steps * dy + dy
    <3> HIDE DEF dx, dy
    <3> QED
      BY <1>3
  <2>2. steps * dx \in Int /\ steps * dy \in Int
    <3> HIDE DEF dx, dy
    <3> QED
      BY <1>3
  <2> DEFINE a == steps * dx
             b == steps * dy
             e == (steps + 1) * dx
             f == (steps + 1) * dy
  <2>3. /\ a \in Int /\ b \in Int /\ e = a + dx /\ f = b + dy
        /\ point[1] = from[1] + a /\ point[2] = from[2] + b
    BY <1>4, <2>1, <2>2
  <2>4. point'[1] = point[1] + dx /\ point'[2] = point[2] + dy
    BY <1>1
  <2> HIDE DEF a, b, e, f, dx, dy
  <2>5. point'[1] = from[1] + e /\ point'[2] = from[2] + f
    BY <1>3, <1>5, <2>3, <2>4
  <2> QED
    BY <2>5 DEF e, f
<1>7. WalksStraight'
  <2>1. steps + 1 \in Nat
    OBVIOUS
  <2> HIDE DEF dx, dy
  <2>2. \E s \in Nat : point'[1] = from[1] + s * dx /\ point'[2] = from[2] + s * dy
    BY <1>6, <2>1
  <2> USE DEF dx, dy
  <2> QED
    BY <1>1, <1>2, <2>2 DEF GridInv, WalksStraight, Place
<1>8. OnlyCellsAreOpen'
  BY <1>2 DEF GridInv, OnlyCellsAreOpen, Open
<1> QED
  BY <1>7, <1>8 DEF GridInv

LEMMA GridInvAlways ==
  ASSUME Bytes, NothingWraps
  PROVE  Spec => []GridInv
<1>1. Init => GridInv
  BY GridInvInit
<1>2. GridInv /\ [Next]_vars => GridInv'
  <2> SUFFICES ASSUME GridInv, [Next]_vars
               PROVE  GridInv'
    OBVIOUS
  <2>1. ASSUME NEW k \in Walkable, NEW label \in {{}, {0}},
               Change(ToPaddedId(k), label)
        PROVE  GridInv'
    BY <2>1, GridInvChange
  <2>2. CASE Turn
    BY <2>2, GridInvTurn
  <2>3. CASE Step
    BY <2>3, GridInvStep
  <2>4. CASE UNCHANGED vars
    BY <2>4 DEF vars, GridInv, OnlyCellsAreOpen, WalksStraight, Open, Place
  <2> QED
    BY <2>1, <2>2, <2>3, <2>4 DEF Next
<1> QED
  BY <1>1, <1>2, PTL DEF Spec

\* The parts of a step, for each of the eight directions.
LEMMA PartsOfStep ==
  ASSUME NEW w \in Nat, w < Wrap, NEW d \in Direction, BMI2 = FALSE
  PROVE  /\ DirIdAdj(d, w) = (DirIdAdjVert(d, w) + DirIdAdjHori(d)) % Wrap
         /\ d >= NORTHEAST =>
              /\ DirIdAdjInv(d, DirIdAdj(d, w)) = w
              /\ DirIdAdjVert(d, w) = DirIdAdj(Vert(d), w)
              /\ DirIdAdjHori(d) % Wrap = DirIdAdj(Hori(d), w)
<1>1. Wrap \in Nat \ {0} /\ w \in Int
  BY RangeAssumption
<1>2. DirIdAdj(d, w) = (DirIdAdjVert(d, w) + DirIdAdjHori(d)) % Wrap
  <2> DEFINE dx == UnitPoint(d)[1]
             dy == UnitPoint(d)[2]
  <2>1. dx \in {-1, 0, 1} /\ dy \in {-1, 0, 1}
    BY <1>1, UnitFacts
  <2>2. /\ DirIdAdj(d, w) = (dy * w + dx) % Wrap
        /\ DirIdAdjVert(d, w) = (dy * w) % Wrap /\ DirIdAdjHori(d) = dx
    BY <1>1, UnitFacts
  <2> HIDE DEF dx, dy
  <2> DEFINE e == dy * w
  <2>3. e \in Int /\ dx \in Int
    BY <2>1
  <2> HIDE DEF e
  <2>4. ((e % Wrap) + dx) % Wrap = (e + dx) % Wrap
    BY <1>1, <2>3, ModSum
  <2> QED
    BY <2>2, <2>4 DEF e
<1>3. w % Wrap = w
  BY <1>1, SmallMod
<1>4. ASSUME NEW a \in Int, NEW b \in Int
      PROVE  /\ ((a % Wrap) + b) % Wrap = (a + b) % Wrap
             /\ (-(a % Wrap) + b) % Wrap = (-a + b) % Wrap
  BY <1>1, ModSum
<1> USE DEF At, DirIdAdj, DirIdAdjVert, DirIdAdjHori, Hori, Vert, EAST, NORTH
<1>5. CASE d = 4
  <2>1. DirIdAdj(d, w) = (-w + 1) % Wrap
    BY <1>5
  <2>2. DirIdAdjInv(d, DirIdAdj(d, w)) = (-((-w + 1) % Wrap) + 1) % Wrap
    BY <1>5, <2>1 DEF DirIdAdjInv, NORTHEAST, NORTHWEST, SOUTHEAST, SOUTHWEST
  <2>3. (-((-w + 1) % Wrap) + 1) % Wrap = (-(-w + 1) + 1) % Wrap
    BY <1>4
  <2>4. -(-w + 1) + 1 = w
    OBVIOUS
  <2>5. /\ DirIdAdjVert(d, w) = DirIdAdj(Vert(d), w)
        /\ DirIdAdjHori(d) % Wrap = DirIdAdj(Hori(d), w)
    BY <1>5
  <2> QED
    BY <1>2, <1>3, <2>2, <2>3, <2>4, <2>5
<1>6. CASE d = 5
  <2>1. DirIdAdj(d, w) = (-w - 1) % Wrap
    BY <1>6
  <2>2. DirIdAdjInv(d, DirIdAdj(d, w)) = (-((-w - 1) % Wrap) + (-1)) % Wrap
    <3>1. DirIdAdjInv(d, DirIdAdj(d, w)) = (-((-w - 1) % Wrap) - 1) % Wrap
      BY <1>6, <2>1 DEF DirIdAdjInv, NORTHEAST, NORTHWEST, SOUTHEAST, SOUTHWEST
    <3>2. (-w - 1) % Wrap \in Int
      BY <1>1
    <3>3. -((-w - 1) % Wrap) - 1 = -((-w - 1) % Wrap) + (-1)
      BY <3>2
    <3> QED
      BY <3>1, <3>3
  <2>3. (-((-w - 1) % Wrap) + (-1)) % Wrap = (-(-w - 1) + (-1)) % Wrap
    BY <1>4
  <2>4. -(-w - 1) + (-1) = w
    OBVIOUS
  <2>5. /\ DirIdAdjVert(d, w) = DirIdAdj(Vert(d), w)
        /\ DirIdAdjHori(d) % Wrap = DirIdAdj(Hori(d), w)
    BY <1>6
  <2> QED
    BY <1>2, <1>3, <2>2, <2>3, <2>4, <2>5
<1>7. CASE d = 6
  <2>1. DirIdAdj(d, w) = (w + 1) % Wrap
    BY <1>7
  <2>2. DirIdAdjInv(d, DirIdAdj(d, w)) = (((w + 1) % Wrap) + (-1)) % Wrap
    <3>1. DirIdAdjInv(d, DirIdAdj(d, w)) = (((w + 1) % Wrap) - 1) % Wrap
      BY <1>7, <2>1 DEF DirIdAdjInv, NORTHEAST, NORTHWEST, SOUTHEAST, SOUTHWEST
    <3>2. (w + 1) % Wrap \in Int
      BY <1>1
    <3>3. ((w + 1) % Wrap) - 1 = ((w + 1) % Wrap) + (-1)
      BY <3>2
    <3> QED
      BY <3>1, <3>3
  <2>3. (((w + 1) % Wrap) + (-1)) % Wrap = ((w + 1) + (-1)) % Wrap
    BY <1>4
  <2>4. (w + 1) + (-1) = w
    OBVIOUS
  <2>5. /\ DirIdAdjVert(d, w) = DirIdAdj(Vert(d), w)
        /\ DirIdAdjHori(d) % Wrap = DirIdAdj(Hori(d), w)
    BY <1>7
  <2> QED
    BY <1>2, <1>3, <2>2, <2>3, <2>4, <2>5
<1>8. CASE d = 7
  <2>1. DirIdAdj(d, w) = (w - 1) % Wrap
    BY <1>8
  <2>2. DirIdAdjInv(d, DirIdAdj(d, w)) = (((w - 1) % Wrap) + 1) % Wrap
    BY <1>8, <2>1 DEF DirIdAdjInv, NORTHEAST, NORTHWEST, SOUTHEAST, SOUTHWEST
  <2>3. (((w - 1) % Wrap) + 1) % Wrap = ((w - 1) + 1) % Wrap
    BY <1>4
  <2>4. (w - 1) + 1 = w
    OBVIOUS
  <2>5. /\ DirIdAdjVert(d, w) = DirIdAdj(Vert(d), w)
        /\ DirIdAdjHori(d) % Wrap = DirIdAdj(Hori(d), w)
    BY <1>8
  <2> QED
    BY <1>2, <1>3, <2>2, <2>3, <2>4, <2>5
<1>9. d < 4 \/ d \in {4, 5, 6, 7}
  BY DEF Direction
<1>10. CASE d < 4
  BY <1>2, <1>10 DEF NORTHEAST, Direction
<1> QED
  BY <1>5, <1>6, <1>7, <1>8, <1>9, <1>10

\* Seen from where it turned, a straight walker is in its direction.
LEMMA SeenInDirection ==
  ASSUME BMI2 = FALSE, NEW d \in Direction, NEW steps \in Nat \ {0},
         NEW p, NEW q, p[1] \in Int, p[2] \in Int,
         q[1] = p[1] + steps * UnitPoint(d)[1], q[2] = p[2] + steps * UnitPoint(d)[2]
  PROVE  PointToDirection(p, q) = d
<1> DEFINE x == p[1]
           y == p[2]
<1> USE DEF UnitPoint, At, PointToDirection, Direction, NORTH, NORTHEAST, EAST,
            SOUTHEAST, SOUTH, SOUTHWEST, WEST, NORTHWEST
<1>1. CASE d = 0
  <2>1. q[1] = x /\ q[2] = y - steps
    BY <1>1
  <2> QED
    BY <1>1, <2>1
<1>2. CASE d = 1
  <2>1. q[1] = x /\ q[2] = y + steps
    BY <1>2
  <2> QED
    BY <1>2, <2>1
<1>3. CASE d = 2
  <2>1. q[1] = x + steps /\ q[2] = y
    BY <1>3
  <2> QED
    BY <1>3, <2>1
<1>4. CASE d = 3
  <2>1. q[1] = x - steps /\ q[2] = y
    BY <1>4
  <2> QED
    BY <1>4, <2>1
<1>5. CASE d = 4
  <2>1. q[1] = x + steps /\ q[2] = y - steps
    BY <1>5
  <2> QED
    BY <1>5, <2>1
<1>6. CASE d = 5
  <2>1. q[1] = x - steps /\ q[2] = y - steps
    BY <1>6
  <2> QED
    BY <1>6, <2>1
<1>7. CASE d = 6
  <2>1. q[1] = x + steps /\ q[2] = y + steps
    BY <1>7
  <2> QED
    BY <1>7, <2>1
<1>8. CASE d = 7
  <2>1. q[1] = x - steps /\ q[2] = y + steps
    BY <1>8
  <2> QED
    BY <1>8, <2>1
<1>9. d \in {0, 1, 2, 3, 4, 5, 6, 7}
  OBVIOUS
<1> QED
  BY <1>1, <1>2, <1>3, <1>4, <1>5, <1>6, <1>7, <1>8, <1>9

LEMMA StraightIsSeen ==
  ASSUME Bytes, NothingWraps, GridInv, point # from
  PROVE  PointToDirection(from, point) = heading
<1> DEFINE x == from[1]
           y == from[2]
           dx == UnitPoint(heading)[1]
           dy == UnitPoint(heading)[2]
<1>1. /\ BMI2 = FALSE /\ heading \in Direction /\ Width \in Int
      /\ from \in (0 .. Width - 1) \X (0 .. Height - 1)
      /\ point = Place(id) /\ id \in Cells
  BY SizeFacts DEF NothingWraps, GridInv, WalksStraight
<1>2. x \in Int /\ y \in Int /\ from = <<x, y>>
  BY <1>1, SizeFacts
<1>3. dx \in {-1, 0, 1} /\ dy \in {-1, 0, 1}
  BY <1>1, UnitFacts
<1>4. PICK steps \in Nat : point[1] = x + steps * dx /\ point[2] = y + steps * dy
  BY DEF GridInv, WalksStraight
<1>5. steps # 0
  <2> SUFFICES ASSUME steps = 0
               PROVE  FALSE
    OBVIOUS
  <2>1. point = <<point[1], point[2]>>
    BY <1>1 DEF Place, ToPaddedXY
  <2>2. 0 * dx = 0 /\ 0 * dy = 0
    <3> HIDE DEF dx, dy
    <3> QED
      BY <1>3
  <2>3. point[1] = x /\ point[2] = y
    <3> HIDE DEF x, y, dx, dy
    <3> QED
      BY <1>2, <1>4, <2>2
  <2> QED
    BY <1>2, <2>1, <2>3
<1>6. steps \in Nat \ {0}
  BY <1>5
<1> QED
  BY <1>1, <1>2, <1>4, <1>6, SeenInDirection

LEMMA InvGivesPlaces ==
  ASSUME Bytes, NothingWraps, GridInv
  PROVE  PlacesAgree
<1>1. /\ id \in Cells /\ from \in (0 .. Width - 1) \X (0 .. Height - 1)
      /\ point = Place(id) /\ heading \in Direction /\ angle \in 0 .. 7
      /\ heading = At(Ring, angle) /\ data \in Words(data_elements + 7)
  BY DEF GridInv, WalksStraight, OnlyCellsAreOpen
<1>2. /\ point \in (0 .. Width - 1) \X (0 .. Height - 1)
      /\ PaddedId(point[1], point[2]) = id
      /\ ToUnpaddedId(id) \in PackIds /\ ToPaddedId(ToUnpaddedId(id)) = id
      /\ PackXY(ToUnpaddedId(id)) = ToUnpaddedXY(id)
      /\ ToPaddedIdFromUnpadded(ToUnpaddedXY(id)[1], ToUnpaddedXY(id)[2]) = id
  BY <1>1, PlaceOfCell
<1>3. TypeOK
  <2>1. Ones(BaseBits) = 0 .. 7
    BY DEF Bytes, Ones
  <2> QED
    BY <1>1, <1>2, <2>1 DEF TypeOK, Words
<1>4. Width \in Nat /\ Width < Wrap
  <2>1. Width \in Nat \ {0} /\ HeaderHeight \in Nat \ {0} /\ Height = HeaderHeight + 6
    BY SizeFacts
  <2>2. Width * Height = HeaderHeight * Width + 6 * Width
        /\ HeaderHeight * Width \in Nat
    BY <2>1
  <2>3. HeaderHeight * Width + 6 * Width <= Wrap /\ Wrap \in Int
    BY <2>2, RangeAssumption DEF NothingWraps
  <2> QED
    BY <2>1, <2>2, <2>3
<1>5. StepHasParts
  <2>1. BMI2 = FALSE
    BY DEF NothingWraps
  <2> QED
    BY <1>1, <1>4, <2>1, PartsOfStep DEF StepHasParts
<1>6. HeadingIsTurned
  BY <1>1, StraightIsSeen DEF HeadingIsTurned, Ring
<1> QED
  BY <1>1, <1>2, <1>3, <1>5, <1>6 DEF PlacesAgree

(* On every map, however it is opened, closed and walked, the padded id,   *)
(* the point and the pack id of a walker's place stay the same place, its  *)
(* steps never cross the padding between two rows, and its heading is the  *)
(* sum of its turns (gridmap.h, grid.h).  The map must be small enough for *)
(* its ids and coordinates, and the build must not use _pdep_u32.          *)
THEOREM PlacesStayTrue ==
  ASSUME Bytes, NothingWraps
  PROVE  Spec => []PlacesAgree
<1>1. GridInv => PlacesAgree
  BY InvGivesPlaces
<1> QED
  BY <1>1, GridInvAlways, PTL

-----------------------------------------------------------------------------
(* Writes near the walker.                                                 *)

\* The ids of cells start behind the padding above the first row.
LEMMA CellIsInside ==
  ASSUME Bytes, NEW c \in Cells
  PROVE  c \in Int /\ c >= 192 /\ c < Width * Height
<1>1. /\ HeaderWidth \in Nat \ {0} /\ HeaderHeight \in Nat \ {0}
      /\ Width \in Nat /\ Width >= 64 /\ Width * Height \in Nat
  BY SizeFacts
<1>2. c \in 0 .. Width * Height - 1
  BY CellInTable
<1>3. PICK x \in 0 .. HeaderWidth - 1 : \E y \in 3 .. HeaderHeight + 2 :
        c = PaddedId(x, y)
  BY CellFacts
<1>4. PICK y \in 3 .. HeaderHeight + 2 : c = y * Width + x
  BY <1>3 DEF PaddedId
<1>5. y * Width >= 192 /\ y * Width \in Int
  <2>1. y * Width = 3 * Width + (y - 3) * Width
    BY <1>1
  <2> DEFINE m == y - 3
             e == m * Width
  <2>2. m \in Nat
    BY <1>1
  <2> HIDE DEF m
  <2>3. e \in Nat
    BY <1>1, <2>2
  <2>4. y * Width = 3 * Width + e
    BY <2>1 DEF m
  <2> HIDE DEF e
  <2> QED
    BY <1>1, <2>3, <2>4
<1> DEFINE t == Width * Height
           a == y * Width
<1>6. t \in Nat /\ c \in 0 .. t - 1 /\ a >= 192 /\ a \in Int /\ c = a + x
  BY <1>1, <1>2, <1>4, <1>5
<1> HIDE DEF t, a
<1>7. c \in Int /\ c >= 192 /\ c < t
  BY <1>1, <1>6
<1> QED
  BY <1>7 DEF t

LEMMA NearFacts ==
  ASSUME Bytes, NEW c \in Cells, NEW vb \in {1, 2, 4},
         NEW j \in c \div vb - 2 .. c \div vb + 2
  PROVE  j \in Nat /\ Word(vb, j) \in 0 .. data_elements + 7
<1> DEFINE t == Width * Height
<1>1. c \in Int /\ c >= 192 /\ c < t
  BY CellIsInside
<1>2. t \in Nat
  <2>1. Width \in Nat /\ Height \in Nat
    BY SizeFacts
  <2> QED
    BY <2>1
<1>3. data_elements = (t + 7) \div 8
  <2> HIDE DEF t
  <2>1. (t * 1 + 8 - 1) \div 8 = (t + 7) \div 8
    BY <1>2
  <2> QED
    BY <2>1 DEF data_elements, calc_array_size, Bytes, t
<1> HIDE DEF t
<1>4. j \in Nat /\ j * vb \in 0 .. c + 8
  <2>1. CASE vb = 1
    BY <1>1, <2>1
  <2>2. CASE vb = 2
    BY <1>1, <2>2
  <2>3. CASE vb = 4
    BY <1>1, <2>3
  <2> QED
    BY <2>1, <2>2, <2>3
<1> DEFINE n == j * vb
<1>5. Word(vb, j) = n \div 8
  BY DEF Word, Bytes
<1>6. n \in 0 .. c + 8
  BY <1>4
<1> HIDE DEF n
<1>7. n \div 8 \in 0 .. (t + 7) \div 8 + 7
  BY <1>1, <1>2, <1>6
<1> QED
  BY <1>3, <1>4, <1>5, <1>7

LEMMA GetIsValue ==
  ASSUME Bytes, NEW vb \in {1, 2, 4}, NEW i \in Nat, NEW n \in Nat,
         NEW table \in Words(n), Word(vb, i) \in 0 .. n
  PROVE  Get(vb, table, i) \in SUBSET Ones(vb)
  BY DEF Get

\* A value that is doubled until it fills a word.
LEMMA DoubledIsDone ==
  ASSUME Bytes, NEW vb \in {1, 2, 4}, NEW v \in SUBSET Ones(vb)
  PROVE  LET E(w, u) == IF w <= vb THEN v ELSE Shl(u, w \div 2, 8) \cup u
         IN  Doubled(vb, v) = E(8, E(4, E(2, v)))
<1> DEFINE E(w, u) == IF w <= vb THEN v ELSE Shl(u, w \div 2, 8) \cup u
           Is(f) == f = [w \in 1 .. 8 |-> IF w <= vb THEN v
                           ELSE Shl(f[w \div 2], w \div 2, 8) \cup f[w \div 2]]
           g == [w \in 1 .. 8 |->
                   IF w = 1 THEN v ELSE
                   IF w \in {2, 3} THEN E(w, v) ELSE
                   IF w \in {4, 5} THEN E(w, E(2, v)) ELSE
                   IF w \in {6, 7} THEN E(w, E(3, v)) ELSE
                   E(w, E(4, E(2, v)))]
           F == CHOOSE f : Is(f)
<1>1. Doubled(vb, v) = F[8]
  BY DEF Doubled, Bytes
<1>2. Is(g)
  <2>1. ASSUME NEW w \in 1 .. 8
        PROVE  g[w] = IF w <= vb THEN v
                      ELSE Shl(g[w \div 2], w \div 2, 8) \cup g[w \div 2]
    <3>1. /\ g[1] = v /\ g[2] = E(2, v) /\ g[3] = E(3, v) /\ g[4] = E(4, E(2, v))
          /\ g[5] = E(5, E(2, v)) /\ g[6] = E(6, E(3, v)) /\ g[7] = E(7, E(3, v))
          /\ g[8] = E(8, E(4, E(2, v)))
      OBVIOUS
    <3> HIDE DEF g
    <3>2. w = 1 \/ w = 2 \/ w = 3 \/ w = 4 \/ w = 5 \/ w = 6 \/ w = 7 \/ w = 8
      BY <2>1
    <3>3. /\ 2 \div 2 = 1 /\ 3 \div 2 = 1 /\ 4 \div 2 = 2 /\ 5 \div 2 = 2
          /\ 6 \div 2 = 3 /\ 7 \div 2 = 3 /\ 8 \div 2 = 4
      OBVIOUS
    <3> QED
      BY <3>1, <3>2, <3>3
  <2> QED
    BY <2>1
<1> HIDE DEF Is, g
<1>3. Is(F)
  BY <1>2, Zenon
<1>4. ASSUME NEW w \in 1 .. 8
      PROVE  F[w] = IF w <= vb THEN v
                    ELSE Shl(F[w \div 2], w \div 2, 8) \cup F[w \div 2]
  <2> HIDE DEF F
  <2>1. Is(F)
    BY <1>3
  <2> QED
    BY <2>1 DEF Is
<1> HIDE DEF F
<1>5. F[1] = v /\ F[2] = E(2, F[1]) /\ F[4] = E(4, F[2]) /\ F[8] = E(8, F[4])
  BY <1>4
<1>6. E(2, F[1]) = E(2, v)
  BY <1>5
<1> QED
  BY <1>1, <1>5, <1>6

LEMMA DoubleBits ==
  ASSUME NEW u, u \subseteq 0 .. 7, NEW k \in Nat
  PROVE  \A b : b \in Shl(u, k, 8) \cup u
                  <=> b \in 0 .. 7 /\ (b \in u \/ b - k \in u)
<1>1. u \subseteq Int /\ 8 \in Nat /\ k \in Int
  OBVIOUS
<1>2. \A b : b \in Shl(u, k, 8) <=> b \in 0 .. 8 - 1 /\ b - k \in u
  BY <1>1, ShlBits
<1>3. ASSUME NEW b
      PROVE  b \in Shl(u, k, 8) \cup u
               <=> b \in 0 .. 7 /\ (b \in u \/ b - k \in u)
  <2>1. b \in 0 .. 8 - 1 <=> b \in 0 .. 7
    OBVIOUS
  <2>2. b \in u => b \in 0 .. 7
    OBVIOUS
  <2> QED
    BY <1>2, <2>1, <2>2, Zenon
<1> QED
  BY <1>3

LEMMA DoubledBits ==
  ASSUME Bytes, NEW vb \in {1, 2, 4}, NEW v \in SUBSET Ones(vb), NEW b \in 0 .. 7
  PROVE  b \in Doubled(vb, v) <=> b % vb \in v
<1> DEFINE two == Shl(v, 1, 8) \cup v
           twice == Shl(v, 2, 8) \cup v
           last == Shl(v, 4, 8) \cup v
           next == Shl(two, 2, 8) \cup two
           all == Shl(next, 4, 8) \cup next
           half == Shl(twice, 4, 8) \cup twice
<1>1. v \subseteq 0 .. 7 /\ \A m \in v : m \in 0 .. vb - 1
  BY DEF Ones
<1>2. b \in {0, 1, 2, 3, 4, 5, 6, 7}
  OBVIOUS
<1>3. \A m : m \in two <=> m \in 0 .. 7 /\ (m \in v \/ m - 1 \in v)
  BY <1>1, DoubleBits
<1>4. \A m : m \in twice <=> m \in 0 .. 7 /\ (m \in v \/ m - 2 \in v)
  BY <1>1, DoubleBits
<1>5. \A m : m \in last <=> m \in 0 .. 7 /\ (m \in v \/ m - 4 \in v)
  BY <1>1, DoubleBits
<1> HIDE DEF two, twice, last
<1>6. \A m : m \in next <=> m \in 0 .. 7 /\ (m \in two \/ m - 2 \in two)
  BY <1>3, DoubleBits
<1>7. \A m : m \in half <=> m \in 0 .. 7 /\ (m \in twice \/ m - 4 \in twice)
  BY <1>4, DoubleBits
<1> HIDE DEF next, half
<1>8. \A m : m \in all <=> m \in 0 .. 7 /\ (m \in next \/ m - 4 \in next)
  BY <1>6, DoubleBits
<1> HIDE DEF all
<1>9. CASE vb = 1
  <2>1. Doubled(vb, v) = all
    BY <1>9, DoubledIsDone DEF all, next, two
  <2>2. \A m \in v : m = 0
    BY <1>1, <1>9
  <2>3. b \in all <=> 0 \in v
    BY <1>2, <1>3, <1>6, <1>8, <2>2
  <2>4. b % 1 = 0
    OBVIOUS
  <2> QED
    BY <1>9, <2>1, <2>3, <2>4
<1>10. CASE vb = 2
  <2>1. Doubled(vb, v) = half
    BY <1>10, DoubledIsDone DEF half, twice
  <2>2. \A m \in v : m = 0 \/ m = 1
    BY <1>1, <1>10
  <2>3. b \in half <=> b % 2 \in v
    BY <1>2, <1>4, <1>7, <2>2
  <2> QED
    BY <1>10, <2>1, <2>3
<1>11. CASE vb = 4
  <2>1. Doubled(vb, v) = last
    BY <1>11, DoubledIsDone DEF last
  <2>2. \A m \in v : m \in 0 .. 3
    BY <1>1, <1>11
  <2>3. b \in last <=> b % 4 \in v
    BY <1>2, <1>5, <2>2
  <2> QED
    BY <1>11, <2>1, <2>3
<1> QED
  BY <1>9, <1>10, <1>11

LEMMA DoubledInWord ==
  ASSUME Bytes, NEW vb \in {1, 2, 4}, NEW v \in SUBSET Ones(vb)
  PROVE  Doubled(vb, v) \subseteq 0 .. 7
<1> DEFINE E(w, u) == IF w <= vb THEN v ELSE Shl(u, w \div 2, 8) \cup u
           u4 == E(4, E(2, v))
<1>1. Doubled(vb, v) = E(8, u4)
  BY DoubledIsDone
<1>2. v \subseteq 0 .. 7
  BY DEF Ones
<1>3. \A u, k : Shl(u, k, 8) \subseteq 0 .. 7
  BY DEF Shl, Ones
<1>4. \A u, w : u \subseteq 0 .. 7 => E(w, u) \subseteq 0 .. 7
  BY <1>2, <1>3
<1> HIDE DEF E
<1>5. u4 \subseteq 0 .. 7
  BY <1>2, <1>4
<1> QED
  BY <1>1, <1>4, <1>5

\* All values are v after fill.
LEMMA FillIsValue ==
  ASSUME Bytes, NEW vb \in {1, 2, 4}, NEW i \in Nat, NEW n \in Nat,
         NEW table \in Words(n), NEW v \in SUBSET Ones(vb), Word(vb, i) \in 0 .. n
  PROVE  Get(vb, Fill(vb, table, v), i) = v
<1> DEFINE d == Fill(vb, table, v)
           w == Word(vb, i)
           off == Offset(vb, i)
<1>1. d[w] = Doubled(vb, v)
  BY DEF Fill, Words
<1>2. d[w] \subseteq 0 .. 7
  BY <1>1, DoubledInWord
<1> HIDE DEF d
<1>3. \A b : b \in Get(vb, d, i) <=> b \in 0 .. vb - 1 /\ Bit(d, i * vb + b)
  BY <1>2, GetBits
<1>4. /\ w \in Nat /\ off \in 0 .. 7 /\ off + vb <= 8 /\ off % vb = 0
      /\ i * vb = 8 * w + off
  BY SpotFacts
<1>5. ASSUME NEW b \in 0 .. vb - 1
      PROVE  Bit(d, i * vb + b) <=> b \in v
  <2>1. i * vb + b = 8 * w + (off + b) /\ w \in Int
    <3> HIDE DEF w, off
    <3> QED
      BY <1>4
  <2>2. off + b \in 0 .. 7
    <3> HIDE DEF off, w
    <3> QED
      BY <1>4
  <2>3. (i * vb + b) \div 8 = w /\ (i * vb + b) % 8 = off + b
    BY <2>1, <2>2, SplitFacts
  <2>4. (off + b) % vb = b
    <3> HIDE DEF off
    <3>1. CASE vb = 1
      BY <1>4, <3>1
    <3>2. CASE vb = 2
      BY <1>4, <3>2
    <3>3. CASE vb = 4
      BY <1>4, <3>3
    <3> QED
      BY <3>1, <3>2, <3>3
  <2>5. off + b \in Doubled(vb, v) <=> (off + b) % vb \in v
    BY <2>2, DoubledBits
  <2> QED
    BY <1>1, <2>3, <2>4, <2>5 DEF Bit
<1>6. \A b \in v : b \in 0 .. vb - 1
  BY DEF Ones
<1>7. Get(vb, d, i) = v
  BY <1>3, <1>5, <1>6
<1> QED
  BY <1>7 DEF d

\* All values are complements after flip.
LEMMA FlipIsComplement ==
  ASSUME Bytes, NEW vb \in {1, 2, 4}, NEW i \in Nat, NEW n \in Nat,
         NEW table \in Words(n), Word(vb, i) \in 0 .. n
  PROVE  Get(vb, Flip(table), i) = Ones(vb) \ Get(vb, table, i)
<1> DEFINE d == Flip(table)
           w == Word(vb, i)
           off == Offset(vb, i)
<1>1. d[w] = (0 .. 7) \ table[w] /\ table[w] \subseteq 0 .. 7
  <2>1. Ones(BaseBits) = 0 .. 7
    BY DEF Ones, Bytes
  <2> QED
    BY <2>1 DEF Flip, Words
<1> HIDE DEF d
<1>2. \A b : b \in Get(vb, d, i) <=> b \in 0 .. vb - 1 /\ Bit(d, i * vb + b)
  BY <1>1, GetBits
<1>3. \A b : b \in Get(vb, table, i) <=> b \in 0 .. vb - 1 /\ Bit(table, i * vb + b)
  BY <1>1, GetBits
<1>4. w \in Nat /\ off \in 0 .. 7 /\ off + vb <= 8 /\ i * vb = 8 * w + off
  BY SpotFacts
<1>5. ASSUME NEW b \in 0 .. vb - 1
      PROVE  Bit(d, i * vb + b) <=> ~Bit(table, i * vb + b)
  <2>1. i * vb + b = 8 * w + (off + b) /\ w \in Int
    <3> HIDE DEF w, off
    <3> QED
      BY <1>4
  <2>2. off + b \in 0 .. 7
    <3> HIDE DEF off, w
    <3> QED
      BY <1>4
  <2>3. (i * vb + b) \div 8 = w /\ (i * vb + b) % 8 = off + b
    BY <2>1, <2>2, SplitFacts
  <2> QED
    BY <1>1, <2>2, <2>3 DEF Bit
<1>6. Get(vb, d, i) = Ones(vb) \ Get(vb, table, i)
  BY <1>2, <1>3, <1>5 DEF Ones
<1> QED
  BY <1>6 DEF d

LEMMA InvGivesLocalWrites ==
  ASSUME Bytes, NothingWraps, GridInv
  PROVE  WritesAreLocal
<1>1. id \in Cells /\ data \in Words(data_elements + 7)
  BY DEF GridInv, WalksStraight, OnlyCellsAreOpen
<1>2. data_elements + 7 \in Nat
  <2>1. id \in 0 .. Width * Height - 1
    BY <1>1, CellInTable
  <2> QED
    BY <2>1, WordOfCell
<1> DEFINE n == data_elements + 7
<1> HIDE DEF n
<1>3. data \in Words(n) /\ n \in Nat
  BY <1>1, <1>2 DEF n
<1>4. ASSUME NEW vb \in {1, 2, 4}, NEW j \in Near(vb)
      PROVE  j \in Nat /\ Word(vb, j) \in 0 .. n
  <2>1. j \in id \div vb - 2 .. id \div vb + 2
    BY DEF Near
  <2> QED
    BY <1>1, <2>1, NearFacts DEF n
<1>5. ASSUME NEW vb \in {1, 2, 4}, NEW i \in Near(vb), NEW v \in SUBSET Ones(vb),
             NEW d, Stored(d, data, n, vb, i, v)
      PROVE  Writes(vb, d, i, v)
  <2> SUFFICES ASSUME NEW j \in Near(vb)
               PROVE  Get(vb, d, j) = IF j = i THEN v ELSE Get(vb, data, j)
    BY DEF Writes
  <2>1. j \in Nat /\ Word(vb, j) \in 0 .. n /\ i \in Nat
    BY <1>4
  <2> QED
    BY <1>3, <1>5, <2>1, StoredIsLocal
<1>6. ASSUME NEW vb \in {1, 2, 4}, NEW i \in Near(vb), NEW v \in SUBSET Ones(vb)
      PROVE  LET old == Get(vb, data, i)
             IN  /\ Writes(vb, Set(vb, data, i, v), i, v)
                 /\ Writes(vb, BitAnd(vb, data, i, v), i, old \cap v)
                 /\ Writes(vb, BitOr(vb, data, i, v), i, old \cup v)
                 /\ Writes(vb, BitXor(vb, data, i, v), i, Xor(old, v))
                 /\ Writes(vb, BitNeg(vb, data, i), i, Ones(vb) \ old)
                 /\ Get(vb, Fill(vb, data, v), i) = v
                 /\ Get(vb, Flip(data), i) = Ones(vb) \ old
  <2> DEFINE old == Get(vb, data, i)
  <2>1. i \in Nat /\ Word(vb, i) \in 0 .. n
    BY <1>4
  <2>2. old \in SUBSET Ones(vb)
    BY <1>3, <2>1, GetIsValue
  <2>3. Writes(vb, Set(vb, data, i, v), i, v)
    BY <1>3, <1>5, <2>1, SetStores
  <2>4. Writes(vb, BitAnd(vb, data, i, v), i, old \cap v)
    <3>1. Stored(BitAnd(vb, data, i, v), data, n, vb, i, old \cap v)
      BY <1>3, <2>1, AndStores
    <3>2. old \cap v \in SUBSET Ones(vb)
      BY <2>2
    <3> QED
      BY <1>5, <3>1, <3>2
  <2>5. Writes(vb, BitOr(vb, data, i, v), i, old \cup v)
    <3>1. Stored(BitOr(vb, data, i, v), data, n, vb, i, old \cup v)
      BY <1>3, <2>1, OrStores
    <3>2. old \cup v \in SUBSET Ones(vb)
      BY <2>2
    <3> QED
      BY <1>5, <3>1, <3>2
  <2>6. Writes(vb, BitXor(vb, data, i, v), i, Xor(old, v))
    <3>1. Stored(BitXor(vb, data, i, v), data, n, vb, i, Xor(old, v))
      BY <1>3, <2>1, XorStores
    <3>2. Xor(old, v) \in SUBSET Ones(vb)
      BY <2>2 DEF Xor
    <3> QED
      BY <1>5, <3>1, <3>2
  <2>7. Writes(vb, BitNeg(vb, data, i), i, Ones(vb) \ old)
    <3>1. Stored(BitNeg(vb, data, i), data, n, vb, i, Ones(vb) \ old)
      BY <1>3, <2>1, NegStores
    <3>2. Ones(vb) \ old \in SUBSET Ones(vb)
      OBVIOUS
    <3> QED
      BY <1>5, <3>1, <3>2
  <2>8. Get(vb, Fill(vb, data, v), i) = v
    BY <1>3, <2>1, FillIsValue
  <2>9. Get(vb, Flip(data), i) = Ones(vb) \ old
    BY <1>3, <2>1, FlipIsComplement
  <2> QED
    BY <2>3, <2>4, <2>5, <2>6, <2>7, <2>8, <2>9
<1> QED
  BY <1>6 DEF WritesAreLocal

(* On every map and whatever the memory behind it holds, a write of a      *)
(* value of 1, 2 or 4 bits by set, bit_and, bit_or, bit_xor or bit_neg     *)
(* (bitarray.h) changes its own value as it should and no other one near   *)
(* it, in the same word or in the next; fill and flip change every one.    *)
THEOREM WritesStayLocal ==
  ASSUME Bytes, NothingWraps
  PROVE  Spec => []WritesAreLocal
<1>1. GridInv => WritesAreLocal
  BY InvGivesLocalWrites
<1> QED
  BY <1>1, GridInvAlways, PTL

-----------------------------------------------------------------------------
(* Reads of more than a word.                                              *)

\* A read shows the bits from its first word on.
LEMMA ReadBits ==
  ASSUME Bytes, NEW n \in Nat, NEW table \in Words(n), NEW p \in Nat,
         NEW w \in {8, 16, 32, 64}, p + (w \div 8) - 1 <= n
  PROVE  \A b : b \in Read(table, p, w) <=> b \in 0 .. w - 1 /\ Bit(table, 8 * p + b)
<1> DEFINE last == (w \div 8) - 1
<1>1. w \in Nat /\ last \in Nat /\ 8 * (last + 1) = w /\ p + last <= n
  OBVIOUS
<1>2. \A b : b \in Read(table, p, w)
               <=> \E k \in 0 .. last : b \in Shl(table[p + k], k * 8, w)
  BY DEF Read, Bytes
<1> HIDE DEF last
<1>3. ASSUME NEW k \in 0 .. last
      PROVE  /\ table[p + k] \subseteq 0 .. 7
             /\ \A b : b \in Shl(table[p + k], k * 8, w)
                         <=> b \in 0 .. w - 1 /\ b - k * 8 \in table[p + k]
  <2>1. p + k \in 0 .. n
    BY <1>1
  <2>2. table[p + k] \subseteq 0 .. 7
    BY <2>1 DEF Words
  <2>3. table[p + k] \subseteq Int /\ k * 8 \in Int
    BY <1>1, <2>2
  <2> QED
    BY <1>1, <2>2, <2>3, ShlBits
<1>4. ASSUME NEW b
      PROVE  b \in Read(table, p, w) <=> b \in 0 .. w - 1 /\ Bit(table, 8 * p + b)
  <2>1. ASSUME b \in Read(table, p, w)
        PROVE  b \in 0 .. w - 1 /\ Bit(table, 8 * p + b)
    <3>1. PICK k \in 0 .. last : b \in Shl(table[p + k], k * 8, w)
      BY <1>2, <2>1
    <3>2. b \in 0 .. w - 1 /\ b - k * 8 \in table[p + k] /\ b - k * 8 \in 0 .. 7
      BY <1>3, <3>1
    <3>3. b \in Int
      BY <1>1, <3>2
    <3>4. 8 * p + b = 8 * (p + k) + (b - k * 8) /\ p + k \in Int
      BY <1>1, <3>3
    <3>5. (8 * p + b) \div 8 = p + k /\ (8 * p + b) % 8 = b - k * 8
      BY <3>2, <3>4, SplitFacts
    <3> QED
      BY <3>2, <3>5 DEF Bit
  <2>2. ASSUME b \in 0 .. w - 1, Bit(table, 8 * p + b)
        PROVE  b \in Read(table, p, w)
    <3> DEFINE k == b \div 8
               m == b % 8
    <3>1. b \in Nat /\ k \in 0 .. last /\ m \in 0 .. 7 /\ b = 8 * k + m
      BY <1>1, <2>2
    <3> HIDE DEF k, m
    <3>2. 8 * p + b = 8 * (p + k) + m /\ p + k \in Int /\ b - k * 8 = m
      BY <1>1, <3>1
    <3>3. (8 * p + b) \div 8 = p + k /\ (8 * p + b) % 8 = m
      BY <3>1, <3>2, SplitFacts
    <3>4. m \in table[p + k]
      BY <2>2, <3>3 DEF Bit
    <3>5. b \in Shl(table[p + k], k * 8, w)
      <4>1. b \in Shl(table[p + k], k * 8, w)
              <=> b \in 0 .. w - 1 /\ b - k * 8 \in table[p + k]
        BY <1>3, <3>1
      <4> QED
        BY <2>2, <3>2, <3>4, <4>1
    <3> QED
      BY <1>2, <3>1, <3>5
  <2> QED
    BY <2>1, <2>2
<1> QED
  BY <1>4

\* A set of bits that shows m bits of a table, from the bit first on.
Shows(u, table, first, m) ==
  \A b : b \in u <=> b \in 0 .. m - 1 /\ Bit(table, first + b)

\* A part of a read, as bits.
LEMMA ShiftedBits ==
  ASSUME Bytes, NEW n \in Nat, NEW table \in Words(n), NEW p \in Nat,
         NEW w \in {8, 16, 32, 64}, NEW last, last = p + (w \div 8) - 1, last <= n,
         NEW s \in Nat, NEW m \in Nat, s + m <= w, NEW first, first = 8 * p + s
  PROVE  Shows(Shr(Read(table, p, w), s) \cap Ones(m), table, first, m)
<1>1. \A b : b \in Read(table, p, w) <=> b \in 0 .. w - 1 /\ Bit(table, 8 * p + b)
  BY ReadBits
<1>2. Read(table, p, w) \subseteq Nat
  BY <1>1
<1>3. \A b : b \in Shr(Read(table, p, w), s) <=> b \in Nat /\ b + s \in Read(table, p, w)
  BY <1>2, ShrBits
<1>4. ASSUME NEW b \in 0 .. m - 1
      PROVE  b \in Nat /\ b + s \in 0 .. w - 1 /\ 8 * p + (b + s) = first + b
  OBVIOUS
<1>5. \A b : b \in Ones(m) <=> b \in 0 .. m - 1
  BY DEF Ones
<1> QED
  BY <1>1, <1>3, <1>4, <1>5 DEF Shows

\* Whatever its offset, a span fits into the type it is read with.
LEMMA SpanFits ==
  ASSUME NEW bits \in 2 .. 57
  PROVE  /\ SpanType(bits) \in {16, 32, 64}
         /\ SpanType(bits) >= bits + 7
<1>1. CASE bits \in 2 .. 9
  <2>1. SpanType(bits) = 16
    BY <1>1 DEF SpanType
  <2> QED
    BY <1>1, <2>1
<1>2. CASE bits \in 10 .. 25
  <2>1. SpanType(bits) = 32
    BY <1>2 DEF SpanType
  <2> QED
    BY <1>2, <2>1
<1>3. CASE bits \in 26 .. 57
  <2>1. SpanType(bits) = 64
    BY <1>3 DEF SpanType
  <2> QED
    BY <1>3, <2>1
<1> QED
  BY <1>1, <1>2, <1>3

\* The words of the values of a span.
LEMMA SpanWords ==
  ASSUME Bytes, NEW vb \in {1, 2, 4}, NEW i \in Nat, NEW n \in Nat,
         Word(vb, i) + 7 <= n, NEW k \in Nat, k * vb <= 56
  PROVE  /\ i + k \in Nat /\ Word(vb, i + k) \in 0 .. n
         /\ (i + k) * vb = i * vb + k * vb
<1> USE DEF Word, Bytes
<1>1. CASE vb = 1
  BY <1>1
<1>2. CASE vb = 2
  BY <1>2
<1>3. CASE vb = 4
  BY <1>3
<1> QED
  BY <1>1, <1>2, <1>3

\* Bit b of a span belongs to value b \div vb.
LEMMA BitOfValue ==
  ASSUME NEW vb \in {1, 2, 4}, NEW b \in Nat, NEW count \in Nat
  PROVE  /\ b \div vb \in Nat /\ b - (b \div vb) * vb \in 0 .. vb - 1
         /\ b < count * vb => b \div vb \in 0 .. count - 1
         /\ (b \div vb) * vb \in Nat
         /\ \A k \in Nat : b - k * vb \in 0 .. vb - 1 /\ k <= count - 1
                             => b < count * vb
<1>1. CASE vb = 1
  BY <1>1
<1>2. CASE vb = 2
  BY <1>2
<1>3. CASE vb = 4
  BY <1>3
<1> QED
  BY <1>1, <1>2, <1>3

\* The values that a span puts together.
Together(vb, table, i, count) ==
  UNION {Shl(Get(vb, table, i + k), k * vb, 64) : k \in 0 .. count - 1}

LEMMA ValuesAsBits ==
  ASSUME Bytes, NEW vb \in {1, 2, 4}, NEW i \in Nat, NEW n \in Nat,
         NEW table \in Words(n), Word(vb, i) + 7 <= n,
         NEW count \in Nat \ {0}, count * vb <= 57
  PROVE  \A b : b \in Together(vb, table, i, count)
                  <=> b \in 0 .. count * vb - 1 /\ Bit(table, i * vb + b)
<1> DEFINE Part(k) == Shl(Get(vb, table, i + k), k * vb, 64)
           U == UNION {Part(k) : k \in 0 .. count - 1}
<1>1. \A b : b \in U <=> \E k \in 0 .. count - 1 : b \in Part(k)
  BY DEF U
<1>2. ASSUME NEW k \in 0 .. count - 1
      PROVE  /\ k \in Nat /\ k * vb \in Nat /\ k * vb + vb <= count * vb
             /\ k * vb <= 56
  <2>1. CASE vb = 1
    BY <2>1
  <2>2. CASE vb = 2
    BY <2>2
  <2>3. CASE vb = 4
    BY <2>3
  <2> QED
    BY <2>1, <2>2, <2>3
<1>3. ASSUME NEW k \in 0 .. count - 1
      PROVE  \A b : b \in Part(k) <=> /\ b \in 0 .. 63 /\ b - k * vb \in 0 .. vb - 1
                                      /\ Bit(table, i * vb + b)
  <2>1. /\ i + k \in Nat /\ Word(vb, i + k) \in 0 .. n
        /\ (i + k) * vb = i * vb + k * vb
    <3>1. k \in Nat /\ k * vb <= 56
      BY <1>2
    <3>2. Word(vb, i + k) \in 0 .. n
      BY <3>1, SpanWords
    <3>3. (i + k) * vb = i * vb + k * vb
      BY <3>1, SpanWords
    <3> QED
      BY <3>1, <3>2, <3>3
  <2>2. table[Word(vb, i + k)] \subseteq 0 .. 7
    BY <2>1 DEF Words
  <2>3. \A b : b \in Get(vb, table, i + k)
                 <=> b \in 0 .. vb - 1 /\ Bit(table, (i + k) * vb + b)
    BY <2>1, <2>2, GetBits
  <2>4. Get(vb, table, i + k) \subseteq Int
    BY <2>3
  <2>5. \A b : b \in Part(k)
                 <=> b \in 0 .. 64 - 1 /\ b - k * vb \in Get(vb, table, i + k)
    BY <1>2, <2>4, ShlBits
  <2>6. ASSUME NEW b \in 0 .. 63
        PROVE  (i + k) * vb + (b - k * vb) = i * vb + b
    <3> DEFINE e == k * vb
               f == i * vb
               h == (i + k) * vb
    <3>1. e \in Int /\ f \in Int /\ h = f + e
      BY <1>2, <2>1
    <3> HIDE DEF e, f, h
    <3>2. h + (b - e) = f + b
      BY <3>1
    <3> QED
      BY <3>2 DEF e, f, h
  <2>7. \A b : b \in 0 .. 64 - 1 <=> b \in 0 .. 63
    OBVIOUS
  <2> HIDE DEF Part
  <2> QED
    BY <2>3, <2>5, <2>6, <2>7
<1> HIDE DEF Part, U
<1>4. ASSUME NEW b
      PROVE  b \in U <=> b \in 0 .. count * vb - 1 /\ Bit(table, i * vb + b)
  <2>1. ASSUME b \in U
        PROVE  b \in 0 .. count * vb - 1 /\ Bit(table, i * vb + b)
    <3>1. PICK k \in 0 .. count - 1 : b \in Part(k)
      BY <1>1, <2>1
    <3>2. b \in 0 .. 63 /\ b - k * vb \in 0 .. vb - 1 /\ Bit(table, i * vb + b)
      BY <1>3, <3>1
    <3>3. k * vb \in Nat /\ k * vb + vb <= count * vb
      BY <1>2
    <3>4. count * vb \in Int
      OBVIOUS
    <3> DEFINE e == k * vb
               f == count * vb
    <3>5. e \in Nat /\ f \in Int /\ e + vb <= f /\ b - e \in 0 .. vb - 1
          /\ b \in 0 .. 63
      BY <3>2, <3>3, <3>4
    <3> HIDE DEF e, f
    <3>6. b \in 0 .. f - 1
      BY <3>5
    <3> QED
      BY <3>2, <3>6 DEF f
  <2>2. ASSUME b \in 0 .. count * vb - 1, Bit(table, i * vb + b)
        PROVE  b \in U
    <3> DEFINE k == b \div vb
    <3>1. count * vb \in Int
      OBVIOUS
    <3>2. b \in Nat /\ b < count * vb /\ b \in 0 .. 63
      BY <2>2, <3>1
    <3>3. k \in 0 .. count - 1 /\ b - k * vb \in 0 .. vb - 1
      BY <3>2, BitOfValue
    <3> HIDE DEF k
    <3>4. b \in Part(k)
      BY <1>3, <2>2, <3>2, <3>3
    <3> QED
      BY <1>1, <3>3, <3>4
  <2> QED
    BY <2>1, <2>2
<1> QED
  BY <1>4 DEF U, Part, Together

\* A read with the type of a span shows the bits of the span.
LEMMA SpanShows ==
  ASSUME Bytes, NEW n \in Nat, NEW table \in Words(n), NEW w \in Nat, w + 7 <= n,
         NEW off \in 0 .. 7, NEW bits \in 2 .. 57, NEW first, first = 8 * w + off
  PROVE  Shows(Shr(Read(table, w, SpanType(bits)), off) \cap Ones(bits),
               table, first, bits)
<1> DEFINE type == SpanType(bits)
           last == w + (type \div 8) - 1
<1>1. type \in {16, 32, 64} /\ type >= bits + 7
  BY SpanFits
<1> HIDE DEF type
<1>2. type \in {8, 16, 32, 64} /\ off \in Nat /\ bits \in Nat
  BY <1>1
<1>3. last = w + (type \div 8) - 1 /\ last <= n
  BY <1>1
<1>4. off + bits <= type
  BY <1>1
<1> HIDE DEF last
<1>5. ASSUME NEW y \in {8, 16, 32, 64}, NEW l, l = w + (y \div 8) - 1, l <= n,
             NEW s \in Nat, NEW m \in Nat, s + m <= y, NEW f, f = 8 * w + s
      PROVE  Shows(Shr(Read(table, w, y), s) \cap Ones(m), table, f, m)
  BY <1>5, ShiftedBits, SMTT(30)
<1>6. Shows(Shr(Read(table, w, type), off) \cap Ones(bits), table, first, bits)
  BY <1>2, <1>3, <1>4, <1>5, SMTT(30)
<1> QED
  BY <1>6 DEF type

LEMMA SpanIsRead ==
  ASSUME Bytes, NEW vb \in {1, 2, 4}, NEW i \in Nat, NEW n \in Nat,
         NEW table \in Words(n), Word(vb, i) + 7 <= n,
         NEW count \in Nat \ {0}, count * vb <= 57
  PROVE  GetSpan(vb, table, i, count) = Together(vb, table, i, count)
<1> DEFINE values == Together(vb, table, i, count)
           w == Word(vb, i)
           off == Offset(vb, i)
           bits == count * vb
           type == SpanType(bits)
<1>1. \A b : b \in values <=> b \in 0 .. count * vb - 1 /\ Bit(table, i * vb + b)
  BY ValuesAsBits
<1> HIDE DEF values
<1>2. w \in Nat /\ off \in 0 .. 7 /\ i * vb = 8 * w + off
  BY SpotFacts
<1>3. CASE count = 1
  <2>1. GetSpan(vb, table, i, count) = Get(vb, table, i)
    BY <1>3 DEF GetSpan
  <2>2. table[w] \subseteq 0 .. 7
    <3>1. w \in 0 .. n
      <4> HIDE DEF w
      <4>1. w + 7 <= n
        BY DEF w
      <4> QED
        BY <1>2, <4>1
    <3> QED
      BY <3>1 DEF Words
  <2>3. \A b : b \in Get(vb, table, i) <=> b \in 0 .. vb - 1 /\ Bit(table, i * vb + b)
    BY <2>2, GetBits
  <2>4. count * vb = vb
    BY <1>3
  <2>5. Get(vb, table, i) = values
    BY <1>1, <2>3, <2>4
  <2> QED
    BY <2>1, <2>5 DEF values
<1>4. CASE count # 1
  <2>1. bits \in 2 .. 57
    <3>1. CASE vb = 1
      BY <1>4, <3>1
    <3>2. CASE vb = 2
      BY <1>4, <3>2
    <3>3. CASE vb = 4
      BY <1>4, <3>3
    <3> QED
      BY <3>1, <3>2, <3>3
  <2> HIDE DEF bits
  <2> DEFINE first == 8 * w + off
  <2>2. w + 7 <= n /\ first = 8 * w + off
    OBVIOUS
  <2> HIDE DEF w, off, first
  <2>3. w \in Nat /\ off \in 0 .. 7 /\ first = i * vb
    BY <1>2, <2>2
  <2>4. Shows(Shr(Read(table, w, type), off) \cap Ones(bits), table, first, bits)
    BY <2>1, <2>2, <2>3, SpanShows DEF type
  <2>6. GetSpan(vb, table, i, count) = Shr(Read(table, w, type), off) \cap Ones(bits)
    BY <1>4 DEF GetSpan, w, off, bits
  <2>7. GetSpan(vb, table, i, count) = values
    <3>1. \A b : b \in values <=> b \in 0 .. bits - 1 /\ Bit(table, first + b)
      BY <1>1, <2>3 DEF bits
    <3> QED
      BY <2>4, <2>6, <3>1 DEF Shows
  <2> QED
    BY <2>7 DEF values
<1> QED
  BY <1>3, <1>4

LEMMA InvGivesSpans ==
  ASSUME Bytes, NothingWraps, GridInv
  PROVE  SpansAreRead
<1>1. id \in Cells /\ data \in Words(data_elements + 7)
  BY DEF GridInv, WalksStraight, OnlyCellsAreOpen
<1> DEFINE t == Width * Height
           n == data_elements + 7
<1>2. id \in Int /\ id >= 192 /\ id < t /\ t \in Nat
  <2>1. Width \in Nat /\ Height \in Nat
    BY SizeFacts
  <2> QED
    BY <1>1, <2>1, CellIsInside
<1>3. data_elements = (t + 7) \div 8
  <2> HIDE DEF t
  <2>1. (t * 1 + 8 - 1) \div 8 = (t + 7) \div 8
    BY <1>2
  <2> QED
    BY <2>1 DEF data_elements, calc_array_size, Bytes, t
<1> HIDE DEF t
<1>4. n \in Nat /\ n >= (t + 7) \div 8 + 7
  BY <1>2, <1>3
<1> HIDE DEF n
<1>5. ASSUME NEW vb \in {1, 2, 4}, NEW bit \in {id - 7, id - 4, id},
             NEW count \in {m \in 1 .. 57 \div vb : m * vb \in SpanBits}
      PROVE  GetSpan(vb, data, bit \div vb, count) =
               UNION {Shl(Get(vb, data, bit \div vb + k), k * vb, 64) :
                        k \in 0 .. count - 1}
  <2> DEFINE i == bit \div vb
  <2>1. bit \in Int /\ bit >= 185 /\ bit <= id
    BY <1>2
  <2>2. i \in Nat /\ i * vb \in 0 .. bit
    <3>1. CASE vb = 1
      BY <2>1, <3>1
    <3>2. CASE vb = 2
      BY <2>1, <3>2
    <3>3. CASE vb = 4
      BY <2>1, <3>3
    <3> QED
      BY <3>1, <3>2, <3>3
  <2>3. count \in Nat \ {0} /\ count * vb <= 57
    <3>1. count \in 1 .. 57 \div vb
      OBVIOUS
    <3>2. CASE vb = 1
      BY <3>1, <3>2
    <3>3. CASE vb = 2
      BY <3>1, <3>3
    <3>4. CASE vb = 4
      BY <3>1, <3>4
    <3> QED
      BY <3>2, <3>3, <3>4
  <2> HIDE DEF i
  <2>4. Word(vb, i) + 7 <= n
    <3> DEFINE m == i * vb
    <3>1. Word(vb, i) = m \div 8
      BY DEF Word, Bytes
    <3>2. m \in 0 .. bit
      BY <2>2
    <3> HIDE DEF m
    <3>3. m \div 8 <= (t + 7) \div 8 /\ m \div 8 \in Int
      BY <1>2, <2>1, <3>2
    <3> QED
      BY <1>2, <1>4, <3>1, <3>3
  <2>5. data \in Words(n)
    BY <1>1 DEF n
  <2>6. GetSpan(vb, data, i, count) = Together(vb, data, i, count)
    <3>1. n \in Nat /\ i \in Nat /\ count \in Nat \ {0}
      BY <1>4, <2>2, <2>3
    <3>2. count * vb <= 57
      BY <2>3
    <3> QED
      BY <2>4, <2>5, <3>1, <3>2, SpanIsRead
  <2> QED
    BY <2>6 DEF i, Together
<1> QED
  BY <1>5 DEF SpansAreRead

(* On every map and whatever the memory behind it holds, get_span          *)
(* (bittable.h) shows the values from an index on, whatever the offset of  *)
(* the first one in its word and however many of the 57 bits are read: the *)
(* type that bittable_span_type chooses is never a bit too narrow.         *)
THEOREM SpansStayTrue ==
  ASSUME Bytes, NothingWraps
  PROVE  Spec => []SpansAreRead
<1>1. GridInv => SpansAreRead
  BY InvGivesSpans
<1> QED
  BY <1>1, GridInvAlways, PTL

-----------------------------------------------------------------------------
(* Reads around the walker.                                                *)

\* The surroundings of a cell lie between the first row and the last.
LEMMA RowIsInside ==
  ASSUME Bytes, NEW c \in Cells
  PROVE  /\ c \in Int /\ Width \in Int /\ Width >= 64
         /\ c >= 3 * Width /\ c + 3 * Width < Width * Height
         /\ Width * Height \in Nat
<1>1. /\ HeaderWidth \in Nat \ {0} /\ HeaderHeight \in Nat \ {0}
      /\ Width \in Nat \ {0} /\ HeaderWidth < Width /\ Width >= 64
      /\ Height = HeaderHeight + 6
  BY SizeFacts
<1>2. PICK x \in 0 .. HeaderWidth - 1 : \E y \in 3 .. HeaderHeight + 2 :
        c = PaddedId(x, y)
  BY CellFacts
<1>3. PICK y \in 3 .. HeaderHeight + 2 : c = y * Width + x
  BY <1>2 DEF PaddedId
<1> DEFINE m == y - 3
           k == HeaderHeight + 2 - y
<1>4. m \in Nat /\ k \in Nat
  BY <1>1
<1>5. m * Width = y * Width - 3 * Width /\ y * Width \in Int
  BY <1>1
<1>6. k * Width = HeaderHeight * Width + 2 * Width - y * Width
  BY <1>1
<1>7. Width * Height = HeaderHeight * Width + 6 * Width /\ HeaderHeight * Width \in Int
  BY <1>1
<1> HIDE DEF m, k
<1>8. m * Width >= 0 /\ k * Width >= 0
  BY <1>1, <1>4
<1> DEFINE a == y * Width
           b == HeaderHeight * Width
           t == Width * Height
<1>9. /\ a \in Int /\ b \in Int /\ a - 3 * Width >= 0 /\ b + 2 * Width - a >= 0
      /\ t = b + 6 * Width /\ c = a + x
  BY <1>3, <1>5, <1>6, <1>7, <1>8
<1> HIDE DEF a, b, t
<1>10. /\ c \in Int /\ c >= 3 * Width /\ c + 3 * Width < t /\ t \in Nat
  BY <1>1, <1>9
<1> QED
  BY <1>1, <1>10 DEF t

\* The first word of a row around a cell, in words of 8 bits and of 64 bits.
RowWord(c, row) == c \div BaseBits + row * dbwidth
RowWord64(c, row) == 8 * (c \div 64 + row * dbwidth64)

LEMMA RowFacts ==
  ASSUME Bytes, NEW c \in Cells, NEW row \in -1 .. 1,
         NEW middle, middle = c + row * Width
  PROVE  /\ data_elements + 7 \in Nat
         /\ RowWord(c, row) \in Nat /\ RowWord(c, row) - 1 \in Nat
         /\ RowWord(c, row) - 4 \in Nat /\ RowWord64(c, row) \in Nat
         /\ RowWord(c, row) + 7 <= data_elements + 7
         /\ RowWord64(c, row) + 7 <= data_elements + 7
         /\ 8 * RowWord(c, row) = middle - (c % 8)
         /\ 8 * RowWord64(c, row) = middle - (c % 64)
         /\ middle \in Int
<1> DEFINE t == Width * Height
           R == row * Width
<1>1. /\ c \in Int /\ Width \in Int /\ Width >= 64
      /\ c >= 3 * Width /\ c + 3 * Width < t /\ t \in Nat
  BY RowIsInside
<1>2. data_elements = (t + 7) \div 8
  <2> HIDE DEF t
  <2>1. (t * 1 + 8 - 1) \div 8 = (t + 7) \div 8
    BY <1>1
  <2> QED
    BY <2>1 DEF data_elements, calc_array_size, Bytes, t
<1> HIDE DEF t
<1>3. Width % 64 = 0
  BY SizeFacts
<1>4. Width = 8 * dbwidth /\ dbwidth \in Int /\ Width = 64 * dbwidth64 /\ dbwidth64 \in Int
  BY <1>1, <1>3 DEF dbwidth, dbwidth64, Bytes
<1>5. row = -1 \/ row = 0 \/ row = 1
  OBVIOUS
<1>6. /\ R \in Int /\ R \in {-Width, 0, Width}
      /\ R = 8 * (row * dbwidth) /\ R = 64 * (row * dbwidth64)
      /\ row * dbwidth \in Int /\ row * dbwidth64 \in Int
  BY <1>1, <1>4, <1>5
<1> DEFINE u == row * dbwidth
           v == row * dbwidth64
<1>7. u \in Int /\ v \in Int /\ R = 8 * u /\ R = 64 * v
  BY <1>6
<1>8. RowWord(c, row) = c \div 8 + u /\ RowWord64(c, row) = 8 * (c \div 64 + v)
  BY DEF RowWord, RowWord64, Bytes
<1> HIDE DEF u, v, R
<1>9. /\ 8 * (c \div 8 + u) = c + R - (c % 8) /\ c % 8 \in 0 .. 7
      /\ c \div 8 + u \in Int
  BY <1>1, <1>7
<1>10. /\ 8 * (8 * (c \div 64 + v)) = c + R - (c % 64) /\ c % 64 \in 0 .. 63
       /\ 8 * (c \div 64 + v) \in Int
  BY <1>1, <1>7
<1> DEFINE p == RowWord(c, row)
           q == RowWord64(c, row)
<1>11. /\ p \in Int /\ 8 * p = c + R - (c % 8)
       /\ q \in Int /\ 8 * q = c + R - (c % 64)
  BY <1>8, <1>9, <1>10
<1>12. c + R >= 2 * Width /\ c + R + 2 * Width < t /\ c % 8 \in 0 .. 7 /\ c % 64 \in 0 .. 63
  BY <1>1, <1>6, <1>9, <1>10
<1> HIDE DEF p, q
<1>13. /\ p - 4 >= 0 /\ q >= 0 /\ p + 7 <= (t + 7) \div 8 + 7 /\ q + 7 <= (t + 7) \div 8 + 7
       /\ (t + 7) \div 8 + 7 \in Nat
  <2> DEFINE e == c % 8
             f == c % 64
  <2>6. /\ e \in 0 .. 7 /\ f \in 0 .. 63 /\ R \in Int
        /\ 8 * p = c + R - e /\ 8 * q = c + R - f
    BY <1>6, <1>11, <1>12
  <2> HIDE DEF e, f
  <2>1. 8 * p >= 121 /\ 8 * q >= 65 /\ 8 * p < t /\ 8 * q < t
    BY <1>1, <1>12, <2>6
  <2>2. p - 4 >= 0 /\ q >= 0
    BY <1>11, <2>1
  <2>3. p <= (t + 7) \div 8
    BY <1>1, <1>11, <2>1
  <2>4. q <= (t + 7) \div 8
    BY <1>1, <1>11, <2>1
  <2>5. (t + 7) \div 8 \in Nat
    BY <1>1
  <2> QED
    BY <1>11, <2>2, <2>3, <2>4, <2>5
<1>14. p \in Nat /\ p - 1 \in Nat /\ p - 4 \in Nat /\ q \in Nat
  BY <1>11, <1>13
<1>15. middle = c + R /\ middle \in Int
  BY <1>1, <1>6 DEF R
<1>16. 8 * p = middle - (c % 8) /\ 8 * q = middle - (c % 64)
  BY <1>1, <1>6, <1>11, <1>12, <1>15
<1>17. p + 7 <= data_elements + 7 /\ q + 7 <= data_elements + 7
       /\ data_elements + 7 \in Nat
  BY <1>2, <1>13
<1> QED
  BY <1>14, <1>15, <1>16, <1>17 DEF p, q

\* The open cells among m cells of a table, from the cell first on.
CutOf(d, first, m) == {b \in Ones(m) : GetLabel(d, first + b) = {0}}

\* A read shows which cells are open.
LEMMA TileIsCut ==
  ASSUME Bytes, NEW n \in Nat, NEW d \in Words(n), NEW p \in Nat,
         NEW w \in {8, 16, 32, 64}, NEW last, last = p + (w \div 8) - 1, last <= n,
         NEW s \in Nat, NEW m \in Nat, s + m <= w, NEW first, first = 8 * p + s
  PROVE  Shr(Read(d, p, w), s) \cap Ones(m) = CutOf(d, first, m)
<1>1. Shows(Shr(Read(d, p, w), s) \cap Ones(m), d, first, m)
  BY ShiftedBits, SMTT(30)
<1>2. ASSUME NEW b \in 0 .. m - 1
      PROVE  GetLabel(d, first + b) = {0} <=> Bit(d, first + b)
  <2> DEFINE pad == first + b
  <2>1. pad \in Nat /\ pad \div 8 \in 0 .. n
    OBVIOUS
  <2> HIDE DEF pad
  <2>2. GetLabel(d, pad) = {0} <=> Bit(d, pad)
    BY <2>1, CellBit
  <2> QED
    BY <2>2 DEF pad
<1>3. \A b : b \in CutOf(d, first, m) <=> b \in 0 .. m - 1 /\ GetLabel(d, first + b) = {0}
  BY DEF CutOf, Ones
<1>4. \A b : b \in Shr(Read(d, p, w), s) \cap Ones(m)
               <=> b \in 0 .. m - 1 /\ Bit(d, first + b)
  BY <1>1 DEF Shows
<1> QED
  BY <1>2, <1>3, <1>4

LEMMA ReadIsCut ==
  ASSUME Bytes, NEW n \in Nat, NEW d \in Words(n), NEW p \in Nat,
         NEW w \in {8, 16, 32, 64}, NEW last, last = p + (w \div 8) - 1, last <= n,
         NEW first, first = 8 * p
  PROVE  Read(d, p, w) = CutOf(d, first, w)
<1>1. w \in Nat /\ 0 + w <= w /\ first = 8 * p + 0 /\ 0 \in Nat
  OBVIOUS
<1>2. Shr(Read(d, p, w), 0) \cap Ones(w) = CutOf(d, first, w)
  BY <1>1, TileIsCut
<1>3. \A b : b \in Read(d, p, w) => b \in 0 .. w - 1
  BY ReadBits
<1>4. Read(d, p, w) \subseteq Nat
  BY <1>3
<1>5. \A b : b \in Shr(Read(d, p, w), 0) <=> b \in Nat /\ b + 0 \in Read(d, p, w)
  BY <1>4, ShrBits
<1>6. \A b \in Nat : b + 0 = b
  OBVIOUS
<1>7. Shr(Read(d, p, w), 0) \cap Ones(w) = Read(d, p, w)
  BY <1>3, <1>4, <1>5, <1>6 DEF Ones
<1> QED
  BY <1>2, <1>7

LEMMA InvGivesTiles ==
  ASSUME Bytes, NothingWraps, GridInv, NEW r \in -1 .. 1
  PROVE  LET middle == id + r * Width
         IN  /\ GetNeighbours(data, id)[r] = Cut(middle - 1, 8)
             /\ GetNeighbours32(data, id)[r] = Cut(middle, 32)
             /\ GetNeighboursUpper32(data, id)[r] = Cut(middle - 31, 32)
             /\ GetNeighbours64(data, id)[r] = Cut(middle - (id % 64), 64)
             /\ SliderNeighbours64(data, id)[r] = Cut(middle - (id % 8), 64)
<1> DEFINE n == data_elements + 7
           middle == id + r * Width
           p == RowWord(id, r)
           q == RowWord64(id, r)
           e == id % 8
           f == id % 64
<1>1. id \in Cells /\ data \in Words(n)
  BY DEF GridInv, WalksStraight, OnlyCellsAreOpen
<1>2. id \in Int /\ e \in 0 .. 7 /\ f \in 0 .. 63
  <2>1. id \in Int
    BY <1>1, CellIsInside
  <2> QED
    BY <2>1
<1>3. middle = id + r * Width
  OBVIOUS
<1> HIDE DEF middle
<1>4. /\ n \in Nat /\ middle \in Int
      /\ p \in Nat /\ p - 1 \in Nat /\ p - 4 \in Nat /\ q \in Nat
  BY <1>1, <1>3, RowFacts
<1>5. p + 7 <= n /\ q + 7 <= n
  BY <1>1, <1>3, RowFacts
<1>6. 8 * p = middle - e /\ 8 * q = middle - f
  BY <1>1, <1>3, RowFacts
<1>7. \A first, m : Cut(first, m) = CutOf(data, first, m)
  BY DEF Cut, CutOf, Open
<1>8. /\ GetNeighbours(data, id)[r] = Shr(Read(data, p - 1, 32), e + 7) \cap Ones(8)
      /\ GetNeighbours32(data, id)[r] = Shr(Read(data, p, 64), e) \cap Ones(32)
      /\ GetNeighbours64(data, id)[r] = Read(data, q, 64)
      /\ SliderNeighbours64(data, id)[r] = Read(data, p, 64)
  <2>1. BaseBits = 8
    BY DEF Bytes
  <2>2. GetNeighbours(data, id)[r] = Shr(Read(data, p - 1, 32), e + 7) \cap Ones(8)
    <3> DEFINE u == id \div 8
               v == r * dbwidth
    <3>1. GetNeighbours(data, id)[r]
            = Shr(Read(data, u + (v - 1), 32), e + 7) \cap Ones(8)
      BY <2>1 DEF GetNeighbours, Rows
    <3>2. u \in Int /\ v \in Int /\ p = u + v
      <4>1. Width \in Int /\ dbwidth = Width \div 8
        BY SizeFacts DEF dbwidth, Bytes
      <4>2. dbwidth \in Int
        BY <4>1
      <4> QED
        BY <1>2, <2>1, <4>2 DEF RowWord
    <3> HIDE DEF u, v, p
    <3>3. u + (v - 1) = p - 1
      BY <3>2
    <3> QED
      BY <3>1, <3>3
  <2>3. GetNeighbours32(data, id)[r] = Shr(Read(data, p, 64), e) \cap Ones(32)
    BY <2>1 DEF GetNeighbours32, Rows, RowWord
  <2>4. GetNeighbours64(data, id)[r] = Read(data, q, 64)
    BY DEF GetNeighbours64, Rows, RowWord64
  <2>5. SliderNeighbours64(data, id)[r] = Read(data, p, 64)
    BY DEF SliderNeighbours64, Rows, RowWord
  <2> QED
    BY <2>2, <2>3, <2>4, <2>5
<1>9. GetNeighboursUpper32(data, id)[r]
        = Shr(Read(data, p - 4, 64), e + 1) \cap Ones(32)
  <2>1. GetNeighboursUpper32(data, id)[r]
          = Shr(Read(data, id \div 8 - 4 + r * dbwidth, 64), e + 1) \cap Ones(32)
    BY DEF GetNeighboursUpper32, Rows, Bytes
  <2> DEFINE u == r * dbwidth
             v == id \div 8
  <2>2. u \in Int /\ v \in Int
    <3>1. Width \in Int /\ dbwidth = Width \div 8
      BY SizeFacts DEF dbwidth, Bytes
    <3>2. dbwidth \in Int
      BY <3>1
    <3> QED
      BY <1>2, <3>2
  <2>3. p = v + u
    BY DEF RowWord, Bytes
  <2> HIDE DEF u, v, p
  <2>4. v - 4 + u = p - 4
    BY <2>2, <2>3
  <2> USE DEF u, v
  <2> QED
    BY <2>1, <2>4
<1> HIDE DEF n, p, q, e, f, middle
<1>10. Shr(Read(data, p - 1, 32), e + 7) \cap Ones(8) = Cut(middle - 1, 8)
  <2> DEFINE w == p - 1
             last == w + (32 \div 8) - 1
             s == e + 7
             first == middle - 1
  <2>1. /\ w \in Nat /\ last = w + (32 \div 8) - 1 /\ last <= n
        /\ s \in Nat /\ s + 8 <= 32 /\ first = 8 * w + s
    BY <1>2, <1>4, <1>5, <1>6
  <2> HIDE DEF w, last, s, first
  <2>2. Shr(Read(data, w, 32), s) \cap Ones(8) = CutOf(data, first, 8)
    BY <1>1, <1>4, <2>1, TileIsCut
  <2> QED
    BY <1>7, <2>2 DEF w, s, first
<1>11. Shr(Read(data, p, 64), e) \cap Ones(32) = Cut(middle, 32)
  <2> DEFINE last == p + (64 \div 8) - 1
  <2>1. /\ last = p + (64 \div 8) - 1 /\ last <= n
        /\ e \in Nat /\ e + 32 <= 64 /\ middle = 8 * p + e
    BY <1>2, <1>4, <1>5, <1>6
  <2> HIDE DEF last
  <2>2. Shr(Read(data, p, 64), e) \cap Ones(32) = CutOf(data, middle, 32)
    BY <1>1, <1>4, <2>1, TileIsCut
  <2> QED
    BY <1>7, <2>2
<1>12. Shr(Read(data, p - 4, 64), e + 1) \cap Ones(32) = Cut(middle - 31, 32)
  <2> DEFINE w == p - 4
             last == w + (64 \div 8) - 1
             s == e + 1
             first == middle - 31
  <2>1. /\ w \in Nat /\ last = w + (64 \div 8) - 1 /\ last <= n
        /\ s \in Nat /\ s + 32 <= 64 /\ first = 8 * w + s
    BY <1>2, <1>4, <1>5, <1>6
  <2> HIDE DEF w, last, s, first
  <2>2. Shr(Read(data, w, 64), s) \cap Ones(32) = CutOf(data, first, 32)
    BY <1>1, <1>4, <2>1, TileIsCut
  <2> QED
    BY <1>7, <2>2 DEF w, s, first
<1>13. Read(data, q, 64) = Cut(middle - f, 64)
  <2> DEFINE last == q + (64 \div 8) - 1
             first == middle - f
  <2>1. last = q + (64 \div 8) - 1 /\ last <= n /\ first = 8 * q
    BY <1>2, <1>4, <1>5, <1>6
  <2> HIDE DEF last, first
  <2>2. Read(data, q, 64) = CutOf(data, first, 64)
    BY <1>1, <1>4, <2>1, ReadIsCut
  <2> QED
    BY <1>7, <2>2 DEF first
<1>14. Read(data, p, 64) = Cut(middle - e, 64)
  <2> DEFINE last == p + (64 \div 8) - 1
             first == middle - e
  <2>1. last = p + (64 \div 8) - 1 /\ last <= n /\ first = 8 * p
    BY <1>2, <1>4, <1>5, <1>6
  <2> HIDE DEF last, first
  <2>2. Read(data, p, 64) = CutOf(data, first, 64)
    BY <1>1, <1>4, <2>1, ReadIsCut
  <2> QED
    BY <1>7, <2>2 DEF first
<1> QED
  BY <1>8, <1>9, <1>10, <1>11, <1>12, <1>13, <1>14 DEF middle, e, f

\* The moves that an expansion policy makes from a cell.
LEMMA OpenNeighbour ==
  ASSUME Bytes, NothingWraps, GridInv, NEW dx \in -1 .. 1, NEW dy \in -1 .. 1,
         NEW c, c = id + dy * Width + dx
  PROVE  <<dx, dy>> \in Neighbours({a \in Cells : Open(a)}, id) <=> Open(c)
<1> DEFINE t == Width * Height
           R == dy * Width
<1>1. id \in Cells
  BY DEF GridInv, WalksStraight
<1>2. /\ id \in Int /\ Width \in Int /\ Width >= 64
      /\ id >= 3 * Width /\ id + 3 * Width < t /\ t \in Nat
  BY <1>1, RowIsInside
<1>3. R \in {-Width, 0, Width} /\ c = id + R + dx
  BY <1>2
<1> HIDE DEF t, R
<1>4. c \in 0 .. t - 1
  BY <1>2, <1>3
<1>5. Open(c) => c \in Cells
  BY <1>4 DEF GridInv, OnlyCellsAreOpen, t
<1>6. <<dx, dy>> \in Neighbours({a \in Cells : Open(a)}, id)
        <=> c \in {a \in Cells : Open(a)}
  BY DEF Neighbours
<1> QED
  BY <1>5, <1>6

LEMMA PackedBits ==
  ASSUME NEW n, NEW m, NEW s, n \subseteq 0 .. 7, m \subseteq 0 .. 7, s \subseteq 0 .. 7,
         NEW tiles, tiles = [r \in -1 .. 1 |-> IF r = -1 THEN n ELSE IF r = 0 THEN m ELSE s]
  PROVE  \A b : b \in PackNeighbours(tiles)
                  <=> \/ b \in 0 .. 2 /\ b \in n
                      \/ b = 3 /\ 0 \in m
                      \/ b = 4 /\ 2 \in m
                      \/ b \in 5 .. 7 /\ b - 5 \in s
<1>1. tiles[-1] = n /\ tiles[0] = m /\ tiles[1] = s
  OBVIOUS
<1>2. \A b : b \in Shl(m \cap {0}, 3, 8) <=> b \in 0 .. 8 - 1 /\ b - 3 \in m \cap {0}
  <2>1. m \cap {0} \subseteq Int /\ 3 \in Int /\ 8 \in Nat
    OBVIOUS
  <2> QED
    BY <2>1, ShlBits
<1>3. \A b : b \in Shl(m \cap {2}, 2, 8) <=> b \in 0 .. 8 - 1 /\ b - 2 \in m \cap {2}
  <2>1. m \cap {2} \subseteq Int /\ 2 \in Int /\ 8 \in Nat
    OBVIOUS
  <2> QED
    BY <2>1, ShlBits
<1>4. \A b : b \in Shl(s, 5, 8) <=> b \in 0 .. 8 - 1 /\ b - 5 \in s
  <2>1. s \subseteq Int /\ 5 \in Int /\ 8 \in Nat
    OBVIOUS
  <2> QED
    BY <2>1, ShlBits
<1>5. \A b : b \in n \cap Ones(3) <=> b \in 0 .. 2 /\ b \in n
  BY DEF Ones
<1>6. \A b : (b \in 0 .. 8 - 1 /\ b - 3 \in m \cap {0}) <=> (b = 3 /\ 0 \in m)
  OBVIOUS
<1>7. \A b : (b \in 0 .. 8 - 1 /\ b - 2 \in m \cap {2}) <=> (b = 4 /\ 2 \in m)
  OBVIOUS
<1>8. \A b : (b \in 0 .. 8 - 1 /\ b - 5 \in s) <=> (b \in 5 .. 7 /\ b - 5 \in s)
  OBVIOUS
<1>9. \A b : b \in PackNeighbours(tiles)
               <=> \/ b \in n \cap Ones(3)
                   \/ b \in Shl(m \cap {0}, 3, 8)
                   \/ b \in Shl(m \cap {2}, 2, 8)
                   \/ b \in Shl(s, 5, 8)
  BY <1>1 DEF PackNeighbours
<1> QED
  BY <1>2, <1>3, <1>4, <1>5, <1>6, <1>7, <1>8, <1>9

LEMMA InvGivesMoves ==
  ASSUME Bytes, NothingWraps, GridInv
  PROVE  PackNeighbours(GetNeighbours(data, id)) =
           {b \in Ones(8) :
              At(Around, b) \in Neighbours({c \in Cells : Open(c)}, id)}
<1> DEFINE T(r) == Cut((id + r * Width) - 1, 8)
           db == {c \in Cells : Open(c)}
           tiles == [r \in -1 .. 1 |-> IF r = -1 THEN T(-1) ELSE IF r = 0 THEN T(0) ELSE T(1)]
           D(b) == At(Around, b)
<1>1. id \in Int /\ Width \in Int
  <2>1. id \in Cells
    BY DEF GridInv, WalksStraight
  <2> QED
    BY <2>1, RowIsInside
<1>2. GetNeighbours(data, id) = tiles
  <2>1. ASSUME NEW r \in -1 .. 1
        PROVE  GetNeighbours(data, id)[r] = T(r)
    BY InvGivesTiles
  <2>2. GetNeighbours(data, id) = [r \in -1 .. 1 |-> GetNeighbours(data, id)[r]]
    BY DEF GetNeighbours, Rows
  <2>3. \A r \in -1 .. 1 : r = -1 \/ r = 0 \/ r = 1
    OBVIOUS
  <2>4. \A r \in -1 .. 1 : tiles[r] = T(r)
    <3> HIDE DEF T
    <3> QED
      BY <2>3
  <2> HIDE DEF T
  <2> QED
    BY <2>1, <2>2, <2>4
<1>3. \A r : T(r) \subseteq 0 .. 7
  BY DEF Cut, Ones
<1>4. \A r, b : b \in 0 .. 7 => (b \in T(r) <=> Open(((id + r * Width) - 1) + b))
  BY DEF Cut, Ones
<1> HIDE DEF T
<1>5. \A b : b \in PackNeighbours(tiles)
               <=> \/ b \in 0 .. 2 /\ b \in T(-1)
                   \/ b = 3 /\ 0 \in T(0)
                   \/ b = 4 /\ 2 \in T(0)
                   \/ b \in 5 .. 7 /\ b - 5 \in T(1)
  BY <1>3, PackedBits
<1>6. ASSUME NEW r \in -1 .. 1, NEW k \in 0 .. 2
      PROVE  k \in T(r) <=> <<k - 1, r>> \in Neighbours(db, id)
  <2> DEFINE c == id + r * Width + (k - 1)
             R == r * Width
  <2>1. R \in Int
    BY <1>1
  <2> HIDE DEF R
  <2>2. ((id + R) - 1) + k = id + R + (k - 1)
    BY <1>1, <2>1
  <2>3. k \in T(r) <=> Open(((id + r * Width) - 1) + k)
    BY <1>4
  <2>4. ((id + r * Width) - 1) + k = c
    BY <2>2 DEF R
  <2>5. k - 1 \in -1 .. 1 /\ c = id + r * Width + (k - 1)
    OBVIOUS
  <2> HIDE DEF c
  <2>6. <<k - 1, r>> \in Neighbours(db, id) <=> Open(c)
    BY <2>5, OpenNeighbour
  <2> QED
    BY <2>3, <2>4, <2>6
<1>7. /\ D(0) = <<0 - 1, -1>> /\ D(1) = <<1 - 1, -1>> /\ D(2) = <<2 - 1, -1>>
      /\ D(3) = <<0 - 1, 0>> /\ D(4) = <<2 - 1, 0>>
      /\ D(5) = <<0 - 1, 1>> /\ D(6) = <<1 - 1, 1>> /\ D(7) = <<2 - 1, 1>>
  BY DEF At, Around
<1> DEFINE Move(b) == D(b) \in Neighbours(db, id)
<1> HIDE DEF D, db
<1>8. /\ (Move(0) <=> 0 \in T(-1)) /\ (Move(1) <=> 1 \in T(-1))
      /\ (Move(2) <=> 2 \in T(-1)) /\ (Move(3) <=> 0 \in T(0))
      /\ (Move(4) <=> 2 \in T(0)) /\ (Move(5) <=> 0 \in T(1))
      /\ (Move(6) <=> 1 \in T(1)) /\ (Move(7) <=> 2 \in T(1))
  BY <1>6, <1>7
<1> HIDE DEF Move, tiles
<1>9. ASSUME NEW b \in 0 .. 7
      PROVE  b \in PackNeighbours(tiles) <=> Move(b)
  <2>1. b = 0 \/ b = 1 \/ b = 2 \/ b = 3 \/ b = 4 \/ b = 5 \/ b = 6 \/ b = 7
    OBVIOUS
  <2>2. 5 - 5 = 0 /\ 6 - 5 = 1 /\ 7 - 5 = 2
    OBVIOUS
  <2> QED
    BY <1>5, <1>8, <2>1, <2>2
<1>10. \A b : b \in PackNeighbours(tiles) => b \in 0 .. 7
  BY <1>5
<1>11. PackNeighbours(tiles) = {b \in Ones(8) : Move(b)}
  BY <1>9, <1>10 DEF Ones
<1> QED
  BY <1>2, <1>11 DEF Move, D, db

LEMMA InvGivesCells ==
  ASSUME Bytes, NothingWraps, GridInv
  PROVE  TilesAreCells
<1>1. ASSUME NEW row \in -1 .. 1
      PROVE  LET middle == id + row * Width
             IN  /\ GetNeighbours(data, id)[row] \cap Ones(3) = Cut(middle - 1, 3)
                 /\ GetNeighbours32(data, id)[row] = Cut(middle, 32)
                 /\ GetNeighboursUpper32(data, id)[row] = Cut(middle - 31, 32)
                 /\ GetNeighbours64(data, id)[row] = Cut(middle - (id % 64), 64)
                 /\ SliderNeighbours64(data, id)[row]
                      = Cut(middle - (id % BaseBits), 64)
  <2> DEFINE middle == id + row * Width
             first == middle - 1
  <2>1. GetNeighbours(data, id)[row] = Cut(first, 8)
    BY InvGivesTiles
  <2>2. /\ GetNeighbours32(data, id)[row] = Cut(middle, 32)
        /\ GetNeighboursUpper32(data, id)[row] = Cut(middle - 31, 32)
    BY InvGivesTiles
  <2>3. /\ GetNeighbours64(data, id)[row] = Cut(middle - (id % 64), 64)
        /\ SliderNeighbours64(data, id)[row] = Cut(middle - (id % 8), 64)
    BY InvGivesTiles
  <2> HIDE DEF first
  <2>4. Cut(first, 8) \cap Ones(3) = Cut(first, 3)
    BY DEF Cut, Ones
  <2>5. BaseBits = 8
    BY DEF Bytes
  <2> QED
    BY <2>1, <2>2, <2>3, <2>4, <2>5 DEF first
<1> QED
  BY <1>1, InvGivesMoves DEF TilesAreCells

(* On every map, however it was changed and wherever the walker is,        *)
(* get_neighbours, its wider forms and the slider (gridmap.h) show the     *)
(* cells of the three rows as they are open, from whichever word and       *)
(* offset they read, and the packed neighbours are the moves of the        *)
(* expansion policy.                                                       *)
THEOREM TilesStayTrue ==
  ASSUME Bytes, NothingWraps
  PROVE  Spec => []TilesAreCells
<1>1. GridInv => TilesAreCells
  BY InvGivesCells
<1> QED
  BY <1>1, GridInvAlways, PTL


=============================================================================
