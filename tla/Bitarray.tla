------------------------------ MODULE Bitarray ------------------------------
(***************************************************************************)
(* warthog::memory::bitarray: values of vb bits, packed into an array of   *)
(* words of BaseBits bits.  An unsigned integer is the set of the places   *)
(* of its one bits; value 0 is the empty set.                              *)
(***************************************************************************)
EXTENDS Integers

CONSTANT BaseBits    \* base_bit_count, 8 for dbword

ASSUME BaseAssumption == BaseBits \in Nat \ {0}

\* The integer of w ones, and <<, >>, std::rotl and ^ on w bits.
Ones(w) == 0 .. w - 1
Shl(v, k, w) == {b + k : b \in v} \cap Ones(w)
Shr(v, k) == {b - k : b \in {c \in v : c >= k}}
Rotl(v, k, w) == {(b + k) % w : b \in v}
Xor(u, v) == (u \ v) \cup (v \ u)

\* id_split
Word(vb, id) == (id * vb) \div BaseBits
Offset(vb, id) == (id * vb) % BaseBits

Get(vb, data, id) == Shr(data[Word(vb, id)], Offset(vb, id)) \cap Ones(vb)

\* Mutant: the old value shines through.
SetOr(vb, data, id, v) ==
  [data EXCEPT ![Word(vb, id)] = @ \cup Shl(v, Offset(vb, id), BaseBits)]

Set(vb, data, id, v) ==
  [data EXCEPT ![Word(vb, id)] =
     (@ \ Shl(Ones(vb), Offset(vb, id), BaseBits))
       \cup Shl(v, Offset(vb, id), BaseBits)]

BitAnd(vb, data, id, v) ==
  [data EXCEPT ![Word(vb, id)] =
     @ \cap Rotl(v \cup (Ones(BaseBits) \ Ones(vb)), Offset(vb, id), BaseBits)]

BitOr(vb, data, id, v) ==
  [data EXCEPT ![Word(vb, id)] = @ \cup Shl(v, Offset(vb, id), BaseBits)]

BitXor(vb, data, id, v) ==
  [data EXCEPT ![Word(vb, id)] = Xor(@, Shl(v, Offset(vb, id), BaseBits))]

BitNeg(vb, data, id) ==
  [data EXCEPT ![Word(vb, id)] =
     Xor(@, Shl(Ones(vb), Offset(vb, id), BaseBits))]

\* The word that fill writes: the value is doubled until it fills a word.
Doubled(vb, v) ==
  LET f[w \in 1 .. BaseBits] ==
        IF w <= vb THEN v ELSE Shl(f[w \div 2], w \div 2, BaseBits) \cup f[w \div 2]
  IN  f[BaseBits]

Fill(vb, data, v) == [k \in DOMAIN data |-> Doubled(vb, v)]
Flip(data) == [k \in DOMAIN data |-> Ones(BaseBits) \ data[k]]

calc_array_size(vb, elements) == (elements * vb + BaseBits - 1) \div BaseBits

\* A little-endian read of w bits from word p on.
Read(data, p, w) ==
  UNION {Shl(data[p + k], k * BaseBits, w) : k \in 0 .. w \div BaseBits - 1}

\* Mutant: one bit more than a read of 16 bits is sure to hold.
SpanTypeLate(bits) ==
  CASE bits = 1 -> 8 [] bits \in 2 .. 10 -> 16
    [] bits \in 11 .. 25 -> 32 [] bits \in 26 .. 57 -> 64

\* details::bittable_span_type
SpanType(bits) ==
  CASE bits = 1 -> 8 [] bits \in 2 .. 9 -> 16
    [] bits \in 10 .. 25 -> 32 [] bits \in 26 .. 57 -> 64

\* get_span with Mask
GetSpan(vb, data, id, count) ==
  IF count = 1 THEN Get(vb, data, id)
  ELSE Shr(Read(data, Word(vb, id), SpanType(count * vb)), Offset(vb, id))
         \cap Ones(count * vb)
=============================================================================
