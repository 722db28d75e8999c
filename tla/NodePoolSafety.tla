--------------------------- MODULE NodePoolSafety ---------------------------
(***************************************************************************)
(* Searches see one record per id, whatever the size of blocks, chunks and *)
(* pool: the records stay in their blocks, and the blocks apart, because   *)
(* the cpool hands out no object twice.                                    *)
(***************************************************************************)
EXTENDS ExpansionPolicy, SequenceTheorems, FiniteSetTheorems, TLAPS

-----------------------------------------------------------------------------
(* Facts about remainders and stacks.                                      *)

LEMMA Remainder ==
  ASSUME NEW W \in Nat \ {0}, NEW x \in Int, -W < x, x < W
  PROVE  x % W = IF x >= 0 THEN x ELSE x + W
<1>1. CASE x >= 0
  BY <1>1
<1>2. CASE x < 0
  BY <1>2
<1> QED
  BY <1>1, <1>2

LEMMA PoppedStack ==
  ASSUME NEW S, NEW s \in Seq(S), s # <<>>
  PROVE  LET t == SubSeq(s, 1, Len(s) - 1)
         IN  /\ Len(s) \in Nat \ {0} /\ s[Len(s)] \in S
             /\ t \in Seq(S) /\ Len(t) = Len(s) - 1
             /\ \A p \in 1 .. Len(t) : t[p] = s[p]
<1>1. Len(s) \in Nat \ {0}
  BY EmptySeq
<1>2. \A p \in 1 .. Len(s) : s[p] \in S
  BY ElementOfSeq
<1>3. 1 \in Int /\ Len(s) - 1 \in Int /\ \A p \in 1 .. Len(s) - 1 : s[p] \in S
  BY <1>1, <1>2
<1> DEFINE t == SubSeq(s, 1, Len(s) - 1)
<1>4. /\ t \in Seq(S)
      /\ Len(t) = IF 1 <= Len(s) - 1 THEN Len(s) - 1 - 1 + 1 ELSE 0
      /\ \A p \in 1 .. Len(s) - 1 - 1 + 1 : t[p] = s[1 + p - 1]
  BY <1>3, SubSeqProperties
<1> HIDE DEF t
<1>5. Len(t) = Len(s) - 1
  <2>1. CASE Len(s) = 1
    BY <2>1, <1>4
  <2>2. CASE Len(s) > 1
    <3>1. 1 <= Len(s) - 1 /\ Len(s) - 1 - 1 + 1 = Len(s) - 1
      BY <1>1, <2>2
    <3> QED
      BY <3>1, <1>4
  <2>3. \A n \in Nat \ {0} : n = 1 \/ n > 1
    OBVIOUS
  <2>4. Len(s) = 1 \/ Len(s) > 1
    BY <1>1, <2>3, Zenon
  <2> QED
    BY <2>1, <2>2, <2>4
<1>6. ASSUME NEW p \in 1 .. Len(t)
      PROVE  t[p] = s[p]
  <2>1. p \in 1 .. Len(s) - 1 - 1 + 1 /\ 1 + p - 1 = p
    BY <1>1, <1>5
  <2>2. t[p] = s[1 + p - 1]
    BY <1>4, <2>1
  <2> QED
    BY <2>1, <2>2
<1> QED
  BY <1>1, <1>2, <1>4, <1>5, <1>6 DEF t

LEMMA FunctionIsSeq ==
  ASSUME NEW S, NEW n \in Nat, NEW f \in [1 .. n -> S]
  PROVE  f \in Seq(S) /\ Len(f) = n
<1>1. f \in Seq(S)
  BY SeqDef
<1> QED
  BY <1>1, LenProperties

LEMMA PushedStack ==
  ASSUME NEW S, NEW s \in Seq(S), NEW x \in S
  PROVE  LET t == Append(s, x)
         IN  /\ Len(s) \in Nat
             /\ t \in Seq(S) /\ Len(t) = Len(s) + 1 /\ t[Len(t)] = x
             /\ \A p \in 1 .. Len(s) : t[p] = s[p]
  OBVIOUS

-----------------------------------------------------------------------------
(* Where an address is.                                                    *)

Inv == TypeOK /\ PoolInv

LEMMA Places ==
  ASSUME TypeOK
  PROVE  /\ Chunk = 1 .. Len(mem) /\ Len(mem) \in Nat
         /\ \A k \in Chunk : mem[k] \in Bases /\ mem[k] \in Nat
<1>1. mem \in Seq(Bases)
  BY DEF TypeOK
<1>2. Chunk = 1 .. Len(mem) /\ Len(mem) \in Nat
      /\ \A k \in Chunk : mem[k] \in Bases
  BY <1>1 DEF Chunk
<1> QED
  BY <1>2, PoolAssumption

(* An address is one object of one chunk.                                  *)
LEMMA OneObject ==
  ASSUME Inv, NEW j \in Chunk, NEW k \in Chunk,
         NEW o \in 0 .. Slots - 1, NEW q \in 0 .. Slots - 1,
         mem[j] + o = mem[k] + q
  PROVE  j = k /\ o = q
<1>1. mem[j] \in Nat /\ mem[k] \in Nat /\ Slots \in Nat
  BY Places, PoolAssumption DEF Inv
<1>2. mem[j] + o \in Objects(mem[j]) /\ mem[j] + o \in Objects(mem[k])
  BY <1>1 DEF Objects
<1>3. j = k
  BY <1>2 DEF Inv, PoolInv, Apart
<1> QED
  BY <1>1, <1>3

(* deallocate finds the chunk of an address.                               *)
LEMMA HoldsIsExact ==
  ASSUME Inv, NEW k \in Chunk, NEW o \in 0 .. Slots - 1, NEW j \in Chunk
  PROVE  Holds(j, mem[k] + o) <=> j = k
<1>1. /\ mem[j] \in Nat /\ mem[k] \in Nat /\ Slots \in Nat \ {0}
      /\ mem[j] + Slots <= Width /\ mem[k] + Slots <= Width
      /\ Width \in Nat \ {0} /\ o \in Nat /\ o < Slots
  BY Places, PoolAssumption, WidthAssumption DEF Inv
<1> DEFINE x == mem[k] + o - mem[j]
<1>2. x \in Int /\ -Width < x /\ x < Width
  BY <1>1
<1>3. x % Width = IF x >= 0 THEN x ELSE x + Width
  BY <1>1, <1>2, Remainder
<1>4. ASSUME Holds(j, mem[k] + o)
      PROVE  j = k
  <2>1. x >= 0 /\ x < Slots
    BY <1>1, <1>3, <1>4 DEF Holds
  <2>2. mem[j] + x = mem[k] + o /\ x \in 0 .. Slots - 1
    BY <1>1, <2>1
  <2> HIDE DEF x
  <2> QED
    BY <2>2, OneObject
<1>5. j = k => Holds(j, mem[k] + o)
  BY <1>1, <1>3 DEF Holds
<1> QED
  BY <1>4, <1>5

(* An object that the user has, by chunk and offset.                       *)
LEMMA Located ==
  ASSUME Inv, NEW a \in live
  PROVE  \E k \in Chunk, o \in 0 .. Slots - 1 :
           a = mem[k] + o /\ o < next[k] /\ ~InStack(k, o)
<1>1. PICK k \in Chunk : a \in Objects(mem[k])
  BY DEF Inv, PoolInv
<1>2. mem[k] \in Nat /\ Slots \in Nat /\ a \in Nat
  BY Places, PoolAssumption DEF Inv, TypeOK
<1> DEFINE o == a - mem[k]
<1>3. o \in 0 .. Slots - 1 /\ a = mem[k] + o
  BY <1>1, <1>2 DEF Objects
<1> HIDE DEF o
<1> QED
  BY <1>3 DEF Inv, PoolInv

-----------------------------------------------------------------------------
LEMMA InvInit ==
  ASSUME Init
  PROVE  Inv
<1> USE PoolAssumption DEF Init
<1>1. mem \in Seq(Bases) /\ Len(mem) = InitChunks /\ Chunk = 1 .. InitChunks
  BY DEF Chunk
<1>2. TypeOK
  BY <1>1 DEF TypeOK
<1>3. \A k \in Chunk : Len(freed[k]) = 0
  OBVIOUS
<1> QED
  BY <1>1, <1>2, <1>3 DEF Inv, PoolInv

(* The object that allocate takes from a chunk was free.                   *)
LEMMA TakenObject ==
  ASSUME Inv, NEW k \in Chunk, AllocateFrom(k)
  PROVE  \E o \in 0 .. Slots - 1 :
           /\ addr' = mem[k] + o /\ ~(o < next[k] /\ ~InStack(k, o))
           /\ next' \in [Chunk -> 0 .. Slots]
           /\ freed' \in [Chunk -> Seq(0 .. Slots - 1)]
           /\ \A j \in Chunk \ {k} : next'[j] = next[j] /\ freed'[j] = freed[j]
           /\ \A p \in 1 .. Len(freed'[k]) :
                /\ freed'[k][p] < next'[k]
                /\ \A q \in 1 .. Len(freed'[k]) :
                     freed'[k][p] = freed'[k][q] => p = q
           /\ \A q \in 0 .. Slots - 1 :
                q < next'[k] /\ ~InStack(k, q)'
                  <=> q = o \/ (q < next[k] /\ ~InStack(k, q))
<1> USE DEF Inv
<1>1. next \in [Chunk -> 0 .. Slots] /\ freed \in [Chunk -> Seq(0 .. Slots - 1)]
      /\ Slots \in Nat \ {0}
  BY PoolAssumption DEF TypeOK
<1>2. \A p \in 1 .. Len(freed[k]) :
        /\ freed[k][p] < next[k]
        /\ \A q \in 1 .. Len(freed[k]) : freed[k][p] = freed[k][q] => p = q
  BY DEF PoolInv
<1>3. CASE next[k] < Slots
  <2>1. /\ addr' = mem[k] + next[k]
        /\ next' = [next EXCEPT ![k] = next[k] + 1] /\ freed' = freed
    BY <1>3 DEF AllocateFrom
  <2>2. next[k] \in 0 .. Slots - 1 /\ next'[k] = next[k] + 1
        /\ next' \in [Chunk -> 0 .. Slots]
    BY <1>1, <1>3, <2>1
  <2>3. ~InStack(k, next[k])
    BY <1>1, <1>2 DEF InStack
  <2>4. \A q \in 0 .. Slots - 1 : InStack(k, q)' <=> InStack(k, q)
    BY <2>1 DEF InStack
  <2>5. \A p \in 1 .. Len(freed[k]) : freed[k][p] < next'[k]
    <3>1. \A p \in 1 .. Len(freed[k]) : freed[k][p] \in 0 .. Slots - 1
      BY <1>1
    <3> QED
      BY <1>2, <2>2, <3>1
  <2>6. \A q \in 0 .. Slots - 1 :
          q < next'[k] /\ ~InStack(k, q)'
            <=> q = next[k] \/ (q < next[k] /\ ~InStack(k, q))
    BY <2>2, <2>3, <2>4
  <2> QED
    BY <1>1, <1>2, <2>1, <2>2, <2>5, <2>6
<1>4. CASE ~(next[k] < Slots)
  <2> DEFINE L == Len(freed[k])
             o == freed[k][L]
  <2>1. freed[k] # <<>> /\ addr' = mem[k] + o /\ next' = next
        /\ freed' = [freed EXCEPT ![k] = SubSeq(freed[k], 1, L - 1)]
    BY <1>4 DEF AllocateFrom, Chosen, HasRoom
  <2>2. /\ L \in Nat \ {0} /\ o \in 0 .. Slots - 1
        /\ freed'[k] \in Seq(0 .. Slots - 1) /\ Len(freed'[k]) = L - 1
        /\ \A p \in 1 .. L - 1 : freed'[k][p] = freed[k][p]
    BY <1>1, <2>1, PoppedStack, SMTT(30)
  <2>3. freed' \in [Chunk -> Seq(0 .. Slots - 1)]
    BY <1>1, <2>1, <2>2
  <2>4. InStack(k, o)
    BY <2>2 DEF InStack
  <2>5. \A q : InStack(k, q)' <=> InStack(k, q) /\ q # o
    <3>1. \A p \in 1 .. L : p \in 1 .. L - 1 <=> freed[k][p] # o
      BY <1>2, <2>2
    <3> HIDE DEF o, L
    <3>2. ASSUME NEW q, InStack(k, q)'
          PROVE  InStack(k, q) /\ q # o
      <4>1. PICK p \in 1 .. Len(freed'[k]) : freed'[k][p] = q
        BY <3>2 DEF InStack
      <4>2. p \in 1 .. L - 1 /\ p \in 1 .. L /\ freed[k][p] = q
        BY <2>2, <4>1
      <4> QED
        BY <3>1, <4>2 DEF InStack, L
    <3>3. ASSUME NEW q, InStack(k, q), q # o
          PROVE  InStack(k, q)'
      <4>1. PICK p \in 1 .. L : freed[k][p] = q
        BY <3>3 DEF InStack, L
      <4>2. p \in 1 .. Len(freed'[k]) /\ freed'[k][p] = q
        BY <2>2, <3>1, <3>3, <4>1
      <4> QED
        BY <4>2 DEF InStack
    <3> QED
      BY <3>2, <3>3
  <2>6. o < next[k]
    BY <1>2, <2>2
  <2>7. \A q \in 0 .. Slots - 1 :
          q < next'[k] /\ ~InStack(k, q)'
            <=> q = o \/ (q < next[k] /\ ~InStack(k, q))
    BY <2>1, <2>4, <2>5, <2>6
  <2>8. \A p \in 1 .. Len(freed'[k]) :
          /\ freed'[k][p] < next'[k]
          /\ \A q \in 1 .. Len(freed'[k]) :
               freed'[k][p] = freed'[k][q] => p = q
    BY <1>2, <2>1, <2>2
  <2>9. \A j \in Chunk \ {k} : next'[j] = next[j] /\ freed'[j] = freed[j]
    BY <2>1
  <2> HIDE DEF o, L
  <2> QED
    BY <1>1, <2>1, <2>2, <2>3, <2>4, <2>7, <2>8, <2>9
<1> QED
  BY <1>3, <1>4
LEMMA AllocateFromStep ==
  ASSUME Inv, NEW k \in Chunk, AllocateFrom(k)
  PROVE  Inv' /\ addr' \in Nat \ live
<1> USE DEF Inv
<1>1. PICK o \in 0 .. Slots - 1 :
           /\ addr' = mem[k] + o /\ ~(o < next[k] /\ ~InStack(k, o))
           /\ next' \in [Chunk -> 0 .. Slots]
           /\ freed' \in [Chunk -> Seq(0 .. Slots - 1)]
           /\ \A j \in Chunk \ {k} : next'[j] = next[j] /\ freed'[j] = freed[j]
           /\ \A p \in 1 .. Len(freed'[k]) :
                /\ freed'[k][p] < next'[k]
                /\ \A q \in 1 .. Len(freed'[k]) :
                     freed'[k][p] = freed'[k][q] => p = q
           /\ \A q \in 0 .. Slots - 1 :
                q < next'[k] /\ ~InStack(k, q)'
                  <=> q = o \/ (q < next[k] /\ ~InStack(k, q))
  BY TakenObject
<1>2. /\ mem' = mem /\ maxchunks' = maxchunks /\ current' = k
      /\ live' = live \cup {addr'} /\ Chunk' = Chunk
  BY DEF AllocateFrom, Chunk
<1>3. /\ mem[k] \in Nat /\ Slots \in Nat /\ addr' \in Nat
      /\ addr' \in Objects(mem[k])
  BY <1>1, Places, PoolAssumption DEF Objects
<1>4. addr' \notin live
  BY <1>1 DEF PoolInv
<1>5. TypeOK'
  BY <1>1, <1>2, <1>3 DEF TypeOK
<1>6. \A j \in Chunk : \A p \in 1 .. Len(freed'[j]) :
           /\ freed'[j][p] < next'[j]
           /\ \A q \in 1 .. Len(freed'[j]) : freed'[j][p] = freed'[j][q] => p = q
  BY <1>1 DEF PoolInv
<1>7. ASSUME NEW j \in Chunk, NEW q \in 0 .. Slots - 1
      PROVE  mem[j] + q \in live' <=> q < next'[j] /\ ~InStack(j, q)'
  <2>1. mem[j] + q = addr' <=> j = k /\ q = o
    BY <1>1, OneObject
  <2>2. mem[j] + q \in live <=> q < next[j] /\ ~InStack(j, q)
    BY DEF PoolInv
  <2>3. CASE j = k
    BY <1>1, <1>2, <2>1, <2>2, <2>3
  <2>4. CASE j # k
    BY <1>1, <1>2, <2>1, <2>2, <2>4 DEF InStack
  <2> QED
    BY <2>3, <2>4
<1>8. PoolInv'
  BY <1>2, <1>3, <1>6, <1>7 DEF PoolInv, Apart, Objects
<1> QED
  BY <1>3, <1>4, <1>5, <1>8

LEMMA AllocateNewStep ==
  ASSUME Inv, NEW base \in Bases, AllocateNew(base)
  PROVE  Inv' /\ addr' \in Nat \ live
<1> USE DEF Inv
<1> DEFINE n == Len(mem) + 1
<1>1. /\ mem \in Seq(Bases) /\ next \in Seq(0 .. Slots)
      /\ freed \in Seq(Seq(0 .. Slots - 1)) /\ Chunk = 1 .. n - 1
      /\ Len(next) = n - 1 /\ Len(freed) = n - 1 /\ n \in Nat \ {0}
      /\ Slots \in Nat \ {0} /\ base \in Nat
  <2>1. Chunk = 1 .. n - 1 /\ n - 1 \in Nat /\ mem \in Seq(Bases)
        /\ n \in Nat \ {0} /\ Slots \in Nat \ {0} /\ base \in Nat
    BY Places, PoolAssumption DEF TypeOK
  <2>2. next \in [1 .. n - 1 -> 0 .. Slots]
        /\ freed \in [1 .. n - 1 -> Seq(0 .. Slots - 1)]
    BY <2>1 DEF TypeOK
  <2> DEFINE m == n - 1
  <2> HIDE DEF n, m
  <2>3. m \in Nat /\ next \in [1 .. m -> 0 .. Slots]
        /\ freed \in [1 .. m -> Seq(0 .. Slots - 1)]
    BY <2>1, <2>2 DEF m
  <2>4. next \in Seq(0 .. Slots) /\ Len(next) = m
    BY <2>3, FunctionIsSeq
  <2>5. freed \in Seq(Seq(0 .. Slots - 1)) /\ Len(freed) = m
    BY <2>3, FunctionIsSeq
  <2> QED
    BY <2>1, <2>4, <2>5 DEF m
<1>2. /\ mem' = Append(mem, base) /\ next' = Append(next, 1)
      /\ freed' = Append(freed, <<>>) /\ current' = n /\ addr' = base
      /\ live' = live \cup {base} /\ \A k \in Chunk : Apart(base, mem[k])
  BY DEF AllocateNew
<1>3. /\ Chunk' = 1 .. n /\ mem' \in Seq(Bases) /\ Len(mem') = n
      /\ mem'[n] = base /\ \A k \in Chunk : mem'[k] = mem[k]
  BY <1>1, <1>2 DEF Chunk
<1>4. /\ next' \in [1 .. n -> 0 .. Slots] /\ next'[n] = 1
      /\ \A k \in Chunk : next'[k] = next[k]
  <2>1. 1 \in 0 .. Slots
    BY <1>1
  <2> HIDE DEF n
  <2>2. /\ next' \in Seq(0 .. Slots) /\ Len(next') = n
        /\ next'[n] = 1 /\ \A k \in 1 .. n - 1 : next'[k] = next[k]
    BY <1>1, <1>2, <2>1, PushedStack
  <2> QED
    BY <1>1, <2>2, LenProperties
<1>5. /\ freed' \in [1 .. n -> Seq(0 .. Slots - 1)] /\ freed'[n] = <<>>
      /\ \A k \in Chunk : freed'[k] = freed[k]
  <2>1. <<>> \in Seq(0 .. Slots - 1)
    OBVIOUS
  <2> HIDE DEF n
  <2>2. /\ freed' \in Seq(Seq(0 .. Slots - 1)) /\ Len(freed') = n
        /\ freed'[n] = <<>> /\ \A k \in 1 .. n - 1 : freed'[k] = freed[k]
    BY <1>1, <1>2, <2>1, PushedStack
  <2> QED
    BY <1>1, <2>2, LenProperties
<1> HIDE DEF n
<1>6. n \in Chunk' /\ n \notin Chunk /\ Chunk' = Chunk \cup {n}
  BY <1>1, <1>3
<1>7. base \notin live /\ base \in Objects(base)
  <2>1. base \in Objects(base)
    BY <1>1 DEF Objects
  <2> QED
    BY <1>2, <2>1 DEF PoolInv, Apart
<1>8. TypeOK'
  <2>1. maxchunks' \in Nat /\ Len(mem') <= maxchunks'
    BY <1>1, <1>3 DEF AllocateNew, TypeOK, n
  <2>2. Len(mem') >= 1 /\ current' \in Chunk'
    BY <1>1, <1>2, <1>3
  <2>3. live' \subseteq Nat /\ addr' \in Nat
    BY <1>1, <1>2 DEF TypeOK
  <2> QED
    BY <1>3, <1>4, <1>5, <2>1, <2>2, <2>3 DEF TypeOK
<1>9. \A j, k \in Chunk' : j # k => Apart(mem'[j], mem'[k])
  BY <1>2, <1>3, <1>6 DEF PoolInv, Apart
<1>10. \A k \in Chunk' : \A p \in 1 .. Len(freed'[k]) :
           /\ freed'[k][p] < next'[k]
           /\ \A q \in 1 .. Len(freed'[k]) : freed'[k][p] = freed'[k][q] => p = q
  BY <1>4, <1>5, <1>6 DEF PoolInv
<1>11. live' \subseteq UNION {Objects(mem'[k]) : k \in Chunk'}
  BY <1>2, <1>3, <1>6, <1>7 DEF PoolInv
<1>12. ASSUME NEW k \in Chunk', NEW o \in 0 .. Slots - 1
       PROVE  mem'[k] + o \in live' <=> o < next'[k] /\ ~InStack(k, o)'
  <2>1. CASE k = n
    <3>1. base + o \in Objects(base)
      BY <1>1 DEF Objects
    <3>2. base + o \notin live
      BY <1>2, <3>1 DEF PoolInv, Apart
    <3>3. mem'[k] + o \in live' <=> o = 0
      BY <1>1, <1>2, <1>3, <2>1, <3>2
    <3>4. ~InStack(k, o)'
      BY <1>5, <2>1 DEF InStack
    <3> QED
      BY <1>4, <2>1, <3>3, <3>4
  <2>2. CASE k \in Chunk
    <3>1. mem[k] + o \in Objects(mem[k])
      <4>1. mem[k] \in Nat
        BY <2>2, Places
      <4> QED
        BY <1>1, <4>1 DEF Objects
    <3>2. mem[k] + o # base
      BY <1>2, <1>7, <2>2, <3>1 DEF Apart
    <3>3. mem[k] + o \in live <=> o < next[k] /\ ~InStack(k, o)
      BY <2>2 DEF PoolInv
    <3> QED
      BY <1>2, <1>3, <1>4, <1>5, <2>2, <3>2, <3>3 DEF InStack
  <2> QED
    BY <1>6, <2>1, <2>2
<1>13. PoolInv'
  BY <1>9, <1>10, <1>11, <1>12 DEF PoolInv, Apart, Objects
<1> QED
  BY <1>1, <1>2, <1>7, <1>8, <1>13

LEMMA DeallocateStep ==
  ASSUME Inv, NEW a \in live, Deallocate(a)
  PROVE  Inv'
<1> USE DEF Inv
<1>1. PICK k \in Chunk, o \in 0 .. Slots - 1 :
        a = mem[k] + o /\ o < next[k] /\ ~InStack(k, o)
  BY Located
<1>2. /\ mem[k] \in Nat /\ Slots \in Nat \ {0} /\ a - mem[k] = o
      /\ freed[k] \in Seq(0 .. Slots - 1) /\ next[k] \in 0 .. Slots
  BY <1>1, Places, PoolAssumption DEF TypeOK
<1>3. /\ freed' = [freed EXCEPT ![k] = Append(freed[k], o)]
      /\ live' = live \ {a} /\ UNCHANGED <<mem, next, current, maxchunks, addr>>
      /\ Chunk' = Chunk
  BY <1>1, <1>2, HoldsIsExact DEF Deallocate, Chunk
<1> DEFINE L == Len(freed[k])
<1>4. /\ L \in Nat /\ freed'[k] \in Seq(0 .. Slots - 1)
      /\ Len(freed'[k]) = L + 1 /\ freed'[k][L + 1] = o
      /\ \A p \in 1 .. L : freed'[k][p] = freed[k][p]
      /\ \A j \in Chunk \ {k} : freed'[j] = freed[j]
  <2>1. freed'[k] = Append(freed[k], o)
        /\ \A j \in Chunk \ {k} : freed'[j] = freed[j]
    BY <1>3 DEF TypeOK
  <2> QED
    BY <1>2, <2>1, PushedStack
<1> HIDE DEF L
<1>5. TypeOK'
  BY <1>2, <1>3, <1>4 DEF TypeOK
<1>6. \A p \in 1 .. L : freed[k][p] # o
  BY <1>1 DEF InStack, L
<1>7. \A p \in 1 .. L + 1 :
        /\ freed'[k][p] < next[k]
        /\ \A q \in 1 .. L + 1 : freed'[k][p] = freed'[k][q] => p = q
  <2>1. \A p \in 1 .. L + 1 : p = L + 1 \/ p \in 1 .. L
    BY <1>4
  <2>2. \A p \in 1 .. L :
          /\ freed[k][p] < next[k]
          /\ \A q \in 1 .. L : freed[k][p] = freed[k][q] => p = q
    BY DEF PoolInv, L
  <2> QED
    BY <1>1, <1>4, <1>6, <2>1, <2>2
<1>8. \A q : InStack(k, q)' <=> InStack(k, q) \/ q = o
  <2>1. \A p : p \in 1 .. L + 1 <=> p = L + 1 \/ p \in 1 .. L
    BY <1>4
  <2> QED
    BY <1>4, <2>1 DEF InStack, L
<1>9. \A j \in Chunk : \A p \in 1 .. Len(freed'[j]) :
           /\ freed'[j][p] < next'[j]
           /\ \A q \in 1 .. Len(freed'[j]) : freed'[j][p] = freed'[j][q] => p = q
  <2> SUFFICES ASSUME NEW j \in Chunk
               PROVE  \A p \in 1 .. Len(freed'[j]) :
                        /\ freed'[j][p] < next'[j]
                        /\ \A q \in 1 .. Len(freed'[j]) :
                             freed'[j][p] = freed'[j][q] => p = q
    OBVIOUS
  <2>1. CASE j = k
    BY <1>3, <1>4, <1>7, <2>1
  <2>2. CASE j # k
    BY <1>3, <1>4, <2>2 DEF PoolInv
  <2> QED
    BY <2>1, <2>2
<1>10. ASSUME NEW j \in Chunk, NEW q \in 0 .. Slots - 1
       PROVE  mem[j] + q \in live' <=> q < next[j] /\ ~InStack(j, q)'
  <2>1. mem[j] + q = a <=> j = k /\ q = o
    BY <1>1, OneObject
  <2>2. mem[j] + q \in live <=> q < next[j] /\ ~InStack(j, q)
    BY DEF PoolInv
  <2>3. CASE j = k
    BY <1>3, <1>8, <2>1, <2>2, <2>3
  <2>4. CASE j # k
    BY <1>3, <1>4, <2>1, <2>2, <2>4 DEF InStack
  <2> QED
    BY <2>3, <2>4
<1>11. PoolInv'
  BY <1>3, <1>9, <1>10 DEF PoolInv, Apart, Objects
<1> QED
  BY <1>5, <1>11

LEMMA ReclaimStep ==
  ASSUME Inv, Reclaim
  PROVE  Inv'
<1> USE DEF Inv
<1>1. /\ next' = [k \in Chunk |-> 0] /\ freed' = [k \in Chunk |-> <<>>]
      /\ live' = {} /\ UNCHANGED <<mem, current, maxchunks, addr>>
      /\ Chunk' = Chunk
  BY DEF Reclaim, NoStacks, Chunk
<1>2. Slots \in Nat
  BY PoolAssumption
<1>3. TypeOK'
  BY <1>1, <1>2 DEF TypeOK
<1>4. PoolInv'
  BY <1>1, <1>2 DEF PoolInv, Apart, Objects
<1> QED
  BY <1>3, <1>4

LEMMA InvStep ==
  ASSUME Inv, [Next]_vars
  PROVE  Inv'
<1>1. CASE UNCHANGED vars
  BY <1>1 DEF vars, Inv, TypeOK, PoolInv, Apart, InStack, Chunk
<1> QED
  BY <1>1, AllocateFromStep, AllocateNewStep, DeallocateStep, ReclaimStep
  DEF Next

(* The fields of the pool keep their types.                                *)
THEOREM TypeCorrect == Spec => []TypeOK
<1>1. Inv /\ [Next]_vars => Inv'
  BY InvStep
<1>2. Inv => TypeOK
  BY DEF Inv
<1> QED
  BY <1>1, <1>2, InvInit, PTL DEF Spec

(* Chunks do not overlap, and every object that was handed out is either   *)
(* with the user or once on the stack of its own chunk.                    *)
THEOREM PoolCorrect == Spec => []PoolInv
<1>1. Inv /\ [Next]_vars => Inv'
  BY InvStep
<1>2. Inv => PoolInv
  BY DEF Inv
<1> QED
  BY <1>1, <1>2, InvInit, PTL DEF Spec

(* The stack of freed objects never outgrows its array: its elements are   *)
(* different offsets of one chunk.                                         *)
THEOREM StackNeverOverflows == Spec => []StackFits
<1>1. ASSUME Inv, NEW k \in Chunk
      PROVE  Len(freed[k]) <= Slots
  <2> DEFINE D == 1 .. Len(freed[k])
             S == 0 .. Slots - 1
  <2>1. Len(freed[k]) \in Nat /\ freed[k] \in [D -> S] /\ Slots \in Nat \ {0}
    BY <1>1, PoolAssumption, LenProperties DEF Inv, TypeOK
  <2>2. \A p, q \in D : freed[k][p] = freed[k][q] => p = q
    BY <1>1 DEF Inv, PoolInv
  <2>3. freed[k] \in Injection(D, S)
    BY <2>1, <2>2 DEF Injection, IsInjective
  <2>4. IsFiniteSet(S) /\ Cardinality(S) = Slots
    <3>1. 0 \in Int /\ Slots - 1 \in Int
      BY <2>1
    <3>2. Cardinality(S) = IF 0 > Slots - 1 THEN 0 ELSE Slots - 1 - 0 + 1
      BY <3>1, FS_Interval
    <3> QED
      BY <2>1, <3>1, <3>2, FS_Interval
  <2>5. Cardinality(D) = Len(freed[k])
    <3>1. Cardinality(D) = IF 1 > Len(freed[k]) THEN 0
                           ELSE Len(freed[k]) - 1 + 1
      BY <2>1, FS_Interval, SMTT(30)
    <3> QED
      BY <2>1, <3>1
  <2>6. Cardinality(D) <= Cardinality(S)
    BY <2>3, <2>4, FS_Injection
  <2> QED
    BY <2>4, <2>5, <2>6
<1>2. Inv => StackFits
  BY <1>1 DEF StackFits
<1>3. Inv /\ [Next]_vars => Inv'
  BY InvStep
<1> QED
  BY <1>2, <1>3, InvInit, PTL DEF Spec

(* The pool asks for more memory only when the user has every object.      *)
THEOREM GrowthIsNeeded == Spec => GrowsWhenFull
<1> DEFINE Needed == Len(mem') > Len(mem)
                       => live = UNION {Objects(mem[k]) : k \in Chunk}
<1>1. ASSUME Inv, NEW base \in Bases, AllocateNew(base)
      PROVE  live = UNION {Objects(mem[k]) : k \in Chunk}
  <2> SUFFICES ASSUME NEW k \in Chunk, NEW a \in Objects(mem[k])
               PROVE  a \in live
    BY <1>1 DEF Inv, PoolInv
  <2>1. mem[k] \in Nat /\ Slots \in Nat /\ next[k] \in 0 .. Slots
    BY <1>1, Places, PoolAssumption DEF Inv, TypeOK
  <2>2. ~(next[k] < Slots) /\ freed[k] = <<>>
    BY <1>1 DEF AllocateNew, HasRoom
  <2> DEFINE o == a - mem[k]
  <2>3. o \in 0 .. Slots - 1 /\ a = mem[k] + o
    BY <2>1 DEF Objects
  <2> HIDE DEF o
  <2>4. o < next[k] /\ ~InStack(k, o)
    BY <2>1, <2>2, <2>3 DEF InStack
  <2> QED
    BY <1>1, <2>3, <2>4 DEF Inv, PoolInv
<1>2. ASSUME Inv, [Next]_vars
      PROVE  Needed
  <2>1. CASE \E base \in Bases : AllocateNew(base)
    BY <1>1, <1>2, <2>1
  <2>2. CASE ~ \E base \in Bases : AllocateNew(base)
    <3>1. mem' = mem
      BY <1>2, <2>2 DEF Next, AllocateFrom, Deallocate, Reclaim, vars
    <3>2. Len(mem) \in Nat
      BY <1>2, Places DEF Inv
    <3> QED
      BY <3>1, <3>2
  <2> QED
    BY <2>1, <2>2
<1>3. Inv /\ [Next]_vars => [Needed]_vars
  BY <1>2
<1>4. Inv /\ [Next]_vars => Inv'
  BY InvStep
<1> QED
  BY <1>3, <1>4, InvInit, PTL DEF Spec, GrowsWhenFull

(* The pool implements the abstract allocator: it hands out no object that *)
(* its user has.                                                           *)
THEOREM PoolKeepsPromise == Spec => IsAnAllocator
<1>1. Init => Promise!Init
  BY PoolAssumption DEF Init, Promise!Init
<1>2. ASSUME Inv, [Next]_vars
      PROVE  [Promise!Next]_(Promise!avars)
  <2> USE DEF Promise!Next, Promise!avars
  <2>1. ASSUME NEW k \in Chunk, AllocateFrom(k)
        PROVE  Promise!Allocate
    BY <1>2, <2>1, AllocateFromStep DEF AllocateFrom, Promise!Allocate
  <2>2. ASSUME NEW base \in Bases, AllocateNew(base)
        PROVE  Promise!Allocate
    BY <1>2, <2>2, AllocateNewStep DEF AllocateNew, Promise!Allocate
  <2>3. ASSUME NEW a \in live, Deallocate(a)
        PROVE  Promise!Deallocate(a)
    BY <2>3 DEF Deallocate, Promise!Deallocate
  <2>4. CASE Reclaim
    BY <2>4 DEF Reclaim, Promise!Reclaim
  <2>5. CASE UNCHANGED vars
    BY <2>5 DEF vars
  <2> QED
    BY <1>2, <2>1, <2>2, <2>3, <2>4, <2>5 DEF Next
<1>3. Inv /\ [Next]_vars => Inv'
  BY InvStep
<1>4. Inv /\ [Next]_vars => [Promise!Next]_(Promise!avars)
  BY <1>2
<1> QED
  BY <1>1, <1>3, <1>4, InvInit, PTL DEF Spec, IsAnAllocator, Promise!Spec

-----------------------------------------------------------------------------
(* The records of the node pool.                                           *)

(* An id is its block and its place in it, in one way only.                *)
LEMMA IdParts ==
  ASSUME NEW d \in Nat
  PROVE  /\ BlockOf(d) \in Nat /\ ListId(d) \in 0 .. NBS - 1
         /\ d = BlockOf(d) * NBS + ListId(d)
         /\ FirstId(d) = BlockOf(d) * NBS /\ FirstId(d) \in Nat
<1>1. NBS \in Nat /\ NBS > 0
  BY NodesAssumption
<1>2. d = NBS * (d \div NBS) + (d % NBS)
      /\ d \div NBS \in Nat /\ d % NBS \in 0 .. NBS - 1
  BY <1>1
<1>3. NBS * (d \div NBS) = (d \div NBS) * NBS /\ NBS * (d \div NBS) \in Nat
  BY <1>1, <1>2
<1> QED
  BY <1>1, <1>2, <1>3 DEF BlockOf, ListId, FirstId

LEMMA PartsAreUnique ==
  ASSUME NEW b \in Nat, NEW c \in Nat,
         NEW o \in 0 .. NBS - 1, NEW q \in 0 .. NBS - 1,
         b * NBS + o = c * NBS + q
  PROVE  b = c /\ o = q
<1>1. NBS \in Nat /\ NBS > 0
  BY NodesAssumption
<1>2. ASSUME NEW x \in Nat, NEW y \in Nat, x < y
      PROVE  x * NBS + NBS <= y * NBS
  <2>1. y = x + 1 + (y - x - 1) /\ y - x - 1 \in Nat
    BY <1>2
  <2> DEFINE z == y - x - 1
  <2>2. y * NBS = x * NBS + NBS + z * NBS
    BY <1>1, <2>1
  <2>3. z * NBS >= 0 /\ z * NBS \in Int /\ x * NBS \in Int
    BY <1>1, <2>1
  <2> HIDE DEF z
  <2> QED
    BY <1>1, <2>2, <2>3
<1>3. b * NBS \in Int /\ c * NBS \in Int
  BY <1>1
<1>4. CASE b < c
  BY <1>1, <1>2, <1>3, <1>4
<1>5. CASE c < b
  BY <1>1, <1>2, <1>3, <1>5
<1>6. CASE b = c
  BY <1>1, <1>3, <1>6
<1> QED
  BY <1>4, <1>5, <1>6

-----------------------------------------------------------------------------
(* What generate takes from the cpool is nobody's yet.                     *)
LEMMA PoolTakes ==
  ASSUME Inv,
         (\E k \in Chunk : AllocateFrom(k)) \/ \E base \in Bases : AllocateNew(base)
  PROVE  Inv' /\ addr' \in Nat \ live /\ live' = live \cup {addr'}
<1>1. CASE \E k \in Chunk : AllocateFrom(k)
  <2>1. PICK k \in Chunk : AllocateFrom(k)
    BY <1>1
  <2> QED
    BY <2>1, AllocateFromStep DEF AllocateFrom
<1>2. CASE \E base \in Bases : AllocateNew(base)
  <2>1. PICK base \in Bases : AllocateNew(base)
    BY <1>2
  <2> QED
    BY <2>1, AllocateNewStep DEF AllocateNew
<1> QED
  BY <1>1, <1>2

LEMMA PoolRests ==
  ASSUME Inv, UNCHANGED vars
  PROVE  Inv'
BY DEF vars, Inv, TypeOK, PoolInv, Apart, InStack, Chunk

NodesIInv == Inv /\ NodesTypeOK /\ NodesInv /\ ptr \in ptrs \cup {Null}

LEMMA NodesInit ==
  ASSUME InitNodes
  PROVE  NodesIInv
<1>1. Inv
  BY InvInit DEF InitNodes
<1>2. NodesTypeOK /\ NodesInv /\ ptr = Null
  BY <1>1, NodesAssumption DEF InitNodes, Init, Inv, NodesTypeOK, NodesInv
<1> QED
  BY <1>1, <1>2 DEF NodesIInv

LEMMA NumBlocksType == num_blocks \in Nat \ {0}
BY NodesAssumption DEF num_blocks

(* The ids of the pool are those that are asked for in its blocks.         *)
LEMMA IdsOfPool ==
  ASSUME NEW d \in Ids
  PROVE  /\ d \in Nat /\ BlockOf(d) # num_blocks
         /\ d < NumNodes <=> BlockOf(d) < num_blocks
<1>1. d \in Nat /\ NumNodes \in Nat /\ NBS \in Nat \ {0}
  BY NodesAssumption
<1> DEFINE b == BlockOf(d)
           q == BlockOf(NumNodes)
<1>2. /\ b \in Nat /\ d >= b * NBS
      /\ q \in Nat /\ NumNodes < q * NBS + NBS
  <2>1. \A x \in Nat : /\ BlockOf(x) \in Nat /\ ListId(x) \in 0 .. NBS - 1
                       /\ x = BlockOf(x) * NBS + ListId(x)
    BY IdParts
  <2>2. \A x, y \in Nat, o \in 0 .. NBS - 1 :
          x = y * NBS + o => x >= y * NBS /\ x < y * NBS + NBS
    <3>1. \A y \in Nat : y * NBS \in Nat
      BY <1>1
    <3> QED
      BY <1>1, <3>1
  <2> QED
    BY <1>1, <2>1, <2>2
<1>3. num_blocks = q + 1
  BY DEF num_blocks, BlockOf
<1> HIDE DEF b, q
<1>4. ASSUME d < NumNodes
      PROVE  b < q + 1
  <2>1. SUFFICES ASSUME b >= q + 1
                 PROVE  FALSE
    BY <1>2
  <2>2. b * NBS >= q * NBS + NBS
    <3>1. b = q + 1 + (b - q - 1) /\ b - q - 1 \in Nat
      BY <1>2, <2>1
    <3> DEFINE z == b - q - 1
    <3>2. b * NBS = q * NBS + NBS + z * NBS
      BY <1>1, <1>2, <3>1
    <3>3. z * NBS >= 0 /\ z * NBS \in Int /\ q * NBS \in Int
      BY <1>1, <1>2, <3>1
    <3> HIDE DEF z
    <3> QED
      BY <1>1, <3>2, <3>3
  <2>3. b * NBS \in Int /\ q * NBS \in Int
    BY <1>1, <1>2
  <2> QED
    BY <1>1, <1>2, <1>4, <2>2, <2>3
<1>5. b # num_blocks /\ (b < num_blocks => d < NumNodes)
  <2>1. d < NumNodes \/ b > num_blocks
    BY NodesAssumption DEF b
  <2>2. num_blocks \in Nat
    BY <1>2, <1>3
  <2> QED
    BY <1>2, <1>3, <1>4, <2>1, <2>2
<1> QED
  BY <1>1, <1>3, <1>4, <1>5 DEF b

(* The table has an entry for every id that is not out of range.           *)
LEMMA EntryType ==
  ASSUME NodesIInv, NEW d \in Ids, ~OutOfRange(d)
  PROVE  /\ BlockOf(d) \in DOMAIN blocks /\ d \in Nat
         /\ blocks[BlockOf(d)] \in live \cup {Null}
<1>1. d \in Nat /\ BlockOf(d) # num_blocks
  BY IdsOfPool
<1>2. BlockOf(d) \in 0 .. num_blocks - 1
  BY <1>1, IdParts, NumBlocksType DEF OutOfRange
<1> QED
  BY <1>1, <1>2 DEF NodesIInv, NodesTypeOK, NodesInv

LEMMA ReturnType ==
  ASSUME NEW p, Return(p), ptrs \subseteq Pointer, p \in Pointer \cup {Null}
  PROVE  ptr' \in Pointer \cup {Null} /\ ptrs' \subseteq Pointer
         /\ ptr' \in ptrs' \cup {Null}
         /\ \A q \in ptrs' : q \in ptrs \/ (q = p /\ p # Null)
BY DEF Return

LEMMA GenerateBlockStep ==
  ASSUME NodesIInv, NEW d \in Ids, GenerateBlock(d)
  PROVE  NodesIInv'
<1> DEFINE b == BlockOf(d)
<1>1. /\ Inv /\ Inv' /\ addr' \in Nat \ live /\ live' = live \cup {addr'}
  BY PoolTakes DEF NodesIInv, GenerateBlock
<1>2. d \in Nat /\ b \in 0 .. num_blocks - 1 /\ blocks[b] = Null
  BY NodesAssumption, IdParts, NumBlocksType DEF GenerateBlock, Lacks
<1>3. /\ ListId(d) \in 0 .. NBS - 1 /\ FirstId(d) = b * NBS /\ b * NBS \in Nat
      /\ NBS \in Nat \ {0}
  BY <1>2, IdParts, NodesAssumption
<1>4. Null \notin Nat
  BY PoolAssumption
<1>5. /\ blocks \in [0 .. num_blocks - 1 -> Nat \cup {Null}]
      /\ blocks' = [blocks EXCEPT ![b] = addr']
      /\ DOMAIN memory = live
      /\ memory' = [a \in live \cup {addr'} |->
                     IF a = addr' THEN Constructed(d) ELSE memory[a]]
      /\ Return(<<addr', ListId(d)>>) /\ ptrs \subseteq Pointer
  BY DEF NodesIInv, NodesTypeOK, GenerateBlock
<1>6. /\ Constructed(d) \in [0 .. NBS - 1 -> [id : Nat, num : Nums \cup {Unused}]]
      /\ \A o \in 0 .. NBS - 1 : Constructed(d)[o].id = b * NBS + o
  BY <1>3 DEF Constructed
<1>7. /\ ptr' \in Pointer \cup {Null} /\ ptrs' \subseteq Pointer
      /\ ptr' \in ptrs' \cup {Null}
      /\ \A q \in ptrs' : q \in ptrs \/ q = <<addr', ListId(d)>>
  BY <1>1, <1>3, <1>5, ReturnType DEF Pointer
<1>8. NodesTypeOK'
  <2>1. \A a \in live' :
          memory'[a] \in [0 .. NBS - 1 -> [id : Nat, num : Nums \cup {Unused}]]
    BY <1>1, <1>5, <1>6 DEF NodesIInv, NodesTypeOK
  <2> QED
    BY <1>1, <1>2, <1>5, <1>7, <2>1 DEF NodesTypeOK, Inv, num_blocks, Pointer
<1>9. NodesInv'
  <2> DEFINE B == 0 .. num_blocks - 1
  <2>0. DOMAIN blocks = B /\ DOMAIN blocks' = B
    BY <1>5
  <2>1. \A c \in B : blocks[c] # Null => blocks[c] \in live
    BY <2>0 DEF NodesIInv, NodesInv
  <2>2. blocks'[b] = addr' /\ \A c \in B \ {b} : blocks'[c] = blocks[c]
    BY <1>2, <1>5
  <2>3. ASSUME NEW c \in B, blocks'[c] # Null
        PROVE  /\ blocks'[c] \in live'
               /\ \A o \in 0 .. NBS - 1 : memory'[blocks'[c]][o].id = c * NBS + o
    <3>1. CASE c = b
      BY <1>1, <1>5, <1>6, <2>2, <3>1
    <3>2. CASE c # b
      <4>1. blocks'[c] = blocks[c] /\ blocks[c] \in live /\ blocks[c] # addr'
        BY <1>1, <2>1, <2>2, <2>3, <3>2
      <4>2. memory'[blocks'[c]] = memory[blocks[c]]
        BY <1>5, <4>1
      <4> QED
        BY <1>1, <2>0, <2>3, <4>1, <4>2 DEF NodesIInv, NodesInv
    <3> QED
      BY <3>1, <3>2
  <2>4. ASSUME NEW c \in B, NEW e \in B,
               blocks'[c] = blocks'[e], blocks'[c] # Null
        PROVE  c = e
    BY <1>1, <1>4, <2>0, <2>1, <2>2, <2>4 DEF NodesIInv, NodesInv
  <2>5. \A p \in ptrs' : \E c \in B : p[1] = blocks'[c]
    BY <1>2, <1>4, <1>5, <1>7, <2>0, <2>2
    DEF NodesIInv, NodesInv, Pointer
  <2> QED
    BY <2>0, <2>3, <2>4, <2>5 DEF NodesInv
<1> QED
  BY <1>1, <1>7, <1>8, <1>9 DEF NodesIInv

(* A pointer into a block that is there can be returned at any time.       *)
LEMMA ReturnStep ==
  ASSUME NodesIInv, NEW d \in Ids, NEW p, Return(p),
         p = Null \/ (Present(d) /\ p = <<blocks[BlockOf(d)], ListId(d)>>),
         UNCHANGED <<vars, blocks, memory>>
  PROVE  NodesIInv'
<1>1. Inv' /\ blocks' = blocks /\ memory' = memory /\ live' = live
  BY PoolRests DEF NodesIInv, vars
<1>2. p # Null => /\ p = <<blocks[BlockOf(d)], ListId(d)>>
                  /\ BlockOf(d) \in DOMAIN blocks /\ blocks[BlockOf(d)] \in live
                  /\ ListId(d) \in 0 .. NBS - 1
  <2>1. CASE Present(d) /\ p = <<blocks[BlockOf(d)], ListId(d)>>
    <3>1. BlockOf(d) \in DOMAIN blocks /\ d \in Nat
          /\ blocks[BlockOf(d)] \in live \cup {Null}
      BY <2>1, EntryType DEF Present
    <3>2. BlockOf(d) < num_blocks
      BY <3>1, NumBlocksType DEF NodesIInv, NodesTypeOK
    <3> QED
      BY <2>1, <3>1, <3>2, IdParts DEF Present, Lacks
  <2> QED
    BY <2>1
<1>3. live \subseteq Nat /\ ptrs \subseteq Pointer
  BY DEF NodesIInv, NodesTypeOK, TypeOK
<1>4. /\ ptr' \in Pointer \cup {Null} /\ ptrs' \subseteq Pointer
      /\ ptr' \in ptrs' \cup {Null}
      /\ \A q \in ptrs' : q \in ptrs \/ (q = p /\ p # Null)
  BY <1>2, <1>3, ReturnType DEF Pointer
<1>5. NodesTypeOK'
  BY <1>1, <1>4 DEF NodesIInv, NodesTypeOK, Inv, num_blocks, Pointer
<1>6. \A q \in ptrs' : \E b \in DOMAIN blocks : q[1] = blocks[b]
  BY <1>2, <1>4 DEF NodesIInv, NodesInv
<1>7. NodesInv'
  BY <1>1, <1>6 DEF NodesIInv, NodesInv
<1> QED
  BY <1>1, <1>4, <1>5, <1>7 DEF NodesIInv

LEMMA GenerateStep ==
  ASSUME NodesIInv, NEW d \in Ids, Generate(d)
  PROVE  NodesIInv'
<1> DEFINE p == IF OutOfRange(d) THEN Null ELSE <<blocks[BlockOf(d)], ListId(d)>>
<1>1. Return(p) /\ UNCHANGED <<vars, blocks, memory>>
  BY DEF Generate
<1>2. p = Null \/ (Present(d) /\ p = <<blocks[BlockOf(d)], ListId(d)>>)
  BY DEF Generate, Present
<1> HIDE DEF p
<1> QED
  BY <1>1, <1>2, ReturnStep

LEMMA GetPtrStep ==
  ASSUME NodesIInv, NEW d \in Ids, NEW n \in Nums, GetPtr(d, n)
  PROVE  NodesIInv'
<1> DEFINE q == <<blocks[BlockOf(d)], ListId(d)>>
           p == IF Present(d) /\ Record(q).num = n THEN q ELSE Null
<1>1. Return(p) /\ UNCHANGED <<vars, blocks, memory>>
  BY DEF GetPtr
<1>2. p = Null \/ (Present(d) /\ p = <<blocks[BlockOf(d)], ListId(d)>>)
  OBVIOUS
<1> HIDE DEF p
<1> QED
  BY <1>1, <1>2, ReturnStep

(* A pointer lies in a block, and a write through it keeps the id.         *)
LEMMA PointerType ==
  ASSUME NodesIInv, NEW p \in ptrs
  PROVE  /\ p[1] \in live /\ p[2] \in 0 .. NBS - 1
         /\ \E b \in DOMAIN blocks :
              p[1] = blocks[b] /\ Record(p).id = b * NBS + p[2]
<1>1. p \in Pointer
  BY DEF NodesIInv, NodesTypeOK
<1>2. PICK b \in DOMAIN blocks : p[1] = blocks[b]
  BY DEF NodesIInv, NodesInv
<1>3. p[1] # Null /\ p[2] \in 0 .. NBS - 1
  BY <1>1, PoolAssumption DEF Pointer
<1> QED
  BY <1>2, <1>3 DEF NodesIInv, NodesInv, Record

LEMMA Written ==
  ASSUME NodesIInv, NEW p \in ptrs, NEW n \in Nums, InitNode(p, n)
  PROVE  /\ UNCHANGED <<vars, blocks, ptr, ptrs>>
         /\ DOMAIN memory' = live
         /\ \A a \in live, o \in 0 .. NBS - 1 :
              memory'[a][o] = IF a = p[1] /\ o = p[2]
                              THEN [id |-> Record(p).id, num |-> n]
                              ELSE memory[a][o]
         /\ \A a \in live :
              memory'[a] \in [0 .. NBS - 1 -> [id : Nat, num : Nums \cup {Unused}]]
<1>1. p[1] \in live /\ p[2] \in 0 .. NBS - 1
  BY PointerType
<1>2. /\ DOMAIN memory = live
      /\ \A a \in live :
           memory[a] \in [0 .. NBS - 1 -> [id : Nat, num : Nums \cup {Unused}]]
  BY DEF NodesIInv, NodesTypeOK
<1>3. memory' = [memory EXCEPT ![p[1]][p[2]].num = n]
      /\ UNCHANGED <<vars, blocks, ptr, ptrs>>
  BY DEF InitNode
<1>4. Record(p) \in [id : Nat, num : Nums \cup {Unused}]
  BY <1>1, <1>2 DEF Record
<1>5. DOMAIN memory' = live
  BY <1>1, <1>2, <1>3
<1>6. \A a \in live \ {p[1]} : memory'[a] = memory[a]
  BY <1>1, <1>2, <1>3
<1>7. memory'[p[1]] = [memory[p[1]] EXCEPT ![p[2]] = [@ EXCEPT !.num = n]]
  BY <1>1, <1>2, <1>3
<1>8. [Record(p) EXCEPT !.num = n] = [id |-> Record(p).id, num |-> n]
  BY <1>4
<1>9. \A o \in 0 .. NBS - 1 :
        memory'[p[1]][o] = IF o = p[2] THEN [id |-> Record(p).id, num |-> n]
                           ELSE memory[p[1]][o]
  BY <1>1, <1>2, <1>7, <1>8 DEF Record
<1>10. memory'[p[1]] \in [0 .. NBS - 1 -> [id : Nat, num : Nums \cup {Unused}]]
  <2>1. [id |-> Record(p).id, num |-> n] \in [id : Nat, num : Nums \cup {Unused}]
    BY <1>4
  <2> QED
    BY <1>1, <1>2, <1>7, <1>8, <2>1 DEF Record
<1> QED
  BY <1>2, <1>3, <1>5, <1>6, <1>9, <1>10

LEMMA InitNodeStep ==
  ASSUME NodesIInv, NEW p \in ptrs, NEW n \in Nums, InitNode(p, n)
  PROVE  NodesIInv'
<1>1. Inv' /\ blocks' = blocks /\ live' = live /\ ptr' = ptr /\ ptrs' = ptrs
  BY Written, PoolRests DEF NodesIInv, vars
<1>2. NodesTypeOK'
  BY <1>1, Written DEF NodesIInv, NodesTypeOK, Inv, num_blocks, Pointer
<1>3. \A a \in live, o \in 0 .. NBS - 1 : memory'[a][o].id = memory[a][o].id
  <2> DEFINE new == [id |-> Record(p).id, num |-> n]
  <2>1. \A a \in live, o \in 0 .. NBS - 1 :
          memory'[a][o] = IF a = p[1] /\ o = p[2] THEN new ELSE memory[a][o]
    BY Written
  <2>2. new.id = memory[p[1]][p[2]].id
    BY DEF Record
  <2> HIDE DEF new
  <2> QED
    BY <2>1, <2>2
<1>4. NodesInv'
  BY <1>1, <1>3 DEF NodesIInv, NodesInv
<1> QED
  BY <1>1, <1>2, <1>4 DEF NodesIInv

LEMMA NodesStep ==
  ASSUME NodesIInv, [NextNodes]_nvars
  PROVE  NodesIInv'
<1>1. CASE UNCHANGED nvars
  <2>1. Inv' /\ UNCHANGED <<blocks, memory, ptr, ptrs, live>>
    BY <1>1, PoolRests DEF NodesIInv, nvars, vars
  <2> QED
    BY <2>1 DEF NodesIInv, NodesTypeOK, NodesInv, Inv, num_blocks, Pointer
<1> QED
  BY <1>1, GenerateBlockStep, GenerateStep, GetPtrStep, InitNodeStep DEF NextNodes

(* The table, the blocks and the pointers keep their types.                *)
THEOREM NodesTypeCorrect == SpecNodes => []NodesTypeOK
<1>1. NodesIInv /\ [NextNodes]_nvars => NodesIInv'
  BY NodesStep
<1>2. NodesIInv => NodesTypeOK
  BY DEF NodesIInv
<1> QED
  BY <1>1, <1>2, NodesInit, PTL DEF SpecNodes

(* Records bear the ids of their places, blocks belong to one entry of the *)
(* table each, and no pointer that was returned is left behind.            *)
THEOREM NodesCorrect == SpecNodes => []NodesInv
<1>1. NodesIInv /\ [NextNodes]_nvars => NodesIInv'
  BY NodesStep
<1>2. NodesIInv => NodesInv
  BY DEF NodesIInv
<1> QED
  BY <1>1, <1>2, NodesInit, PTL DEF SpecNodes

-----------------------------------------------------------------------------
(* The refinement of NodeStore.                                            *)

HeldIds == {Record(p).id : p \in ptrs}

GivenId == IF ptr = Null THEN Null ELSE Record(ptr).id

SearchNumbers == [d \in Known |-> SearchNumber(d)]

(* A pointer that generate or get_ptr returns is to the record of the id.  *)
LEMMA RecordOfId ==
  ASSUME NodesIInv, NEW d \in Ids, Present(d)
  PROVE  /\ d \in Known /\ d \in Nat
         /\ <<blocks[BlockOf(d)], ListId(d)>> # Null
         /\ Record(<<blocks[BlockOf(d)], ListId(d)>>).id = d
         /\ Record(<<blocks[BlockOf(d)], ListId(d)>>).num = SearchNumber(d)
<1>1. /\ BlockOf(d) \in DOMAIN blocks /\ d \in Nat
      /\ blocks[BlockOf(d)] \in live \cup {Null}
  BY EntryType DEF Present
<1>2. BlockOf(d) < num_blocks
  BY <1>1, NumBlocksType DEF NodesIInv, NodesTypeOK
<1>3. blocks[BlockOf(d)] # Null
  BY <1>2 DEF Present, Lacks
<1>4. ListId(d) \in 0 .. NBS - 1 /\ d = BlockOf(d) * NBS + ListId(d)
  BY <1>1, IdParts
<1>5. memory[blocks[BlockOf(d)]][ListId(d)].id = d
  BY <1>1, <1>3, <1>4 DEF NodesIInv, NodesInv
<1>6. blocks[BlockOf(d)] \in Nat /\ ListId(d) \in Nat
  BY <1>1, <1>3, <1>4, NodesAssumption DEF NodesIInv, NodesTypeOK, TypeOK
<1>7. <<blocks[BlockOf(d)], ListId(d)>> # Null
  BY <1>6, NodesAssumption
<1> QED
  BY <1>1, <1>2, <1>3, <1>5, <1>7, IdsOfPool DEF Known, Record, SearchNumber

LEMMA KnownType ==
  ASSUME NodesIInv, NEW d \in Known
  PROVE  /\ d \in Ids /\ d \in Nat /\ BlockOf(d) \in DOMAIN blocks
         /\ ListId(d) \in 0 .. NBS - 1 /\ d = BlockOf(d) * NBS + ListId(d)
         /\ blocks[BlockOf(d)] # Null => blocks[BlockOf(d)] \in live
         /\ ~OutOfRange(d)
<1>1. d \in Ids /\ d \in Nat /\ BlockOf(d) < num_blocks
  BY IdsOfPool DEF Known
<1>2. ~OutOfRange(d)
  BY <1>1, IdParts, NumBlocksType DEF OutOfRange
<1> QED
  BY <1>1, <1>2, IdParts, EntryType

LEMMA GenerateBlockStores ==
  ASSUME NodesIInv, NEW d \in Ids, GenerateBlock(d)
  PROVE  /\ d \in Known /\ GivenId' = d /\ HeldIds' = HeldIds \cup {d}
         /\ SearchNumbers' = SearchNumbers
<1> DEFINE new == <<addr', ListId(d)>>
<1>1. addr' \in Nat \ live
  BY PoolTakes DEF NodesIInv, GenerateBlock
<1>2. d \in Known /\ blocks[BlockOf(d)] = Null
  BY IdsOfPool DEF GenerateBlock, Lacks, Known
<1>3. /\ d \in Nat /\ BlockOf(d) \in DOMAIN blocks /\ ListId(d) \in 0 .. NBS - 1
      /\ FirstId(d) \in Nat /\ d = FirstId(d) + ListId(d)
  BY <1>2, KnownType, IdParts
<1>4. /\ blocks' = [blocks EXCEPT ![BlockOf(d)] = addr']
      /\ DOMAIN memory = live /\ ptrs' = ptrs \cup {new} /\ ptr' = new
      /\ memory' = [a \in live \cup {addr'} |->
                     IF a = addr' THEN Constructed(d) ELSE memory[a]]
      /\ new # Null
  <2>1. new \in Nat \X Nat /\ new # Null
    BY <1>1, <1>3, NodesAssumption
  <2> QED
    BY <2>1 DEF GenerateBlock, Return, NodesIInv, NodesTypeOK
<1>5. memory'[addr'][ListId(d)].id = d
  BY <1>3, <1>4 DEF Constructed
<1>6. \A p \in ptrs : memory'[p[1]][p[2]] = memory[p[1]][p[2]]
  BY <1>1, <1>4, PointerType
<1>7. GivenId' = d
  <2>1. ptr'[1] = addr' /\ ptr'[2] = ListId(d) /\ ptr' # Null
    BY <1>4
  <2> QED
    BY <1>5, <2>1 DEF GivenId, Record
<1>8. HeldIds' = HeldIds \cup {d}
  <2>1. HeldIds' = {memory'[p[1]][p[2]].id : p \in ptrs \cup {new}}
    BY <1>4 DEF HeldIds, Record
  <2>2. \A p \in ptrs : memory'[p[1]][p[2]].id = memory[p[1]][p[2]].id
    BY <1>6
  <2>3. new[1] = addr' /\ new[2] = ListId(d)
    OBVIOUS
  <2>4. memory'[new[1]][new[2]].id = d
    BY <1>5, <2>3
  <2> HIDE DEF new
  <2> QED
    BY <2>1, <2>2, <2>4 DEF HeldIds, Record
<1>9. ASSUME NEW e \in Known
      PROVE  SearchNumber(e)' = SearchNumber(e)
  <2>1. /\ BlockOf(e) \in DOMAIN blocks /\ ListId(e) \in 0 .. NBS - 1
        /\ blocks[BlockOf(e)] # Null => blocks[BlockOf(e)] \in live
    BY KnownType
  <2>2. CASE BlockOf(e) = BlockOf(d)
    <3>1. blocks'[BlockOf(e)] = addr' /\ blocks[BlockOf(e)] = Null
      BY <1>2, <1>4, <2>1, <2>2
    <3>2. memory'[addr'][ListId(e)].num = Unused
      BY <1>4, <2>1 DEF Constructed
    <3> QED
      BY <3>1, <3>2 DEF SearchNumber
  <2>3. CASE BlockOf(e) # BlockOf(d)
    <3>1. blocks'[BlockOf(e)] = blocks[BlockOf(e)]
      BY <1>4, <2>1, <2>3
    <3>2. blocks[BlockOf(e)] # Null
            => memory'[blocks[BlockOf(e)]] = memory[blocks[BlockOf(e)]]
      BY <1>1, <1>4, <2>1
    <3> QED
      BY <3>1, <3>2 DEF SearchNumber
  <2> QED
    BY <2>2, <2>3
<1>10. Known' = Known
  BY DEF Known, num_blocks
<1> QED
  BY <1>2, <1>7, <1>8, <1>9, <1>10 DEF SearchNumbers

LEMMA ReturnStores ==
  ASSUME NodesIInv, NEW d \in Ids, NEW p, Return(p),
         p = Null \/ (Present(d) /\ p = <<blocks[BlockOf(d)], ListId(d)>>),
         UNCHANGED <<vars, blocks, memory>>
  PROVE  /\ p = Null => GivenId' = Null /\ HeldIds' = HeldIds
         /\ p # Null => GivenId' = d /\ HeldIds' = HeldIds \cup {d}
         /\ SearchNumbers' = SearchNumbers
<1>1. memory' = memory /\ blocks' = blocks
  OBVIOUS
<1>2. SearchNumbers' = SearchNumbers
  BY <1>1 DEF SearchNumbers, SearchNumber, Known, num_blocks
<1>3. CASE p = Null
  BY <1>1, <1>2, <1>3 DEF Return, GivenId, HeldIds, Record
<1>4. CASE p # Null
  <2>1. Record(p).id = d
    BY <1>4, RecordOfId
  <2>2. ptr' = p /\ ptrs' = ptrs \cup {p}
    BY <1>4 DEF Return
  <2>3. GivenId' = d
    BY <1>1, <1>4, <2>1, <2>2 DEF GivenId, Record
  <2>4. HeldIds' = {Record(q).id : q \in ptrs \cup {p}}
    BY <1>1, <2>2 DEF HeldIds, Record
  <2> QED
    BY <1>2, <1>4, <2>1, <2>3, <2>4 DEF HeldIds
<1> QED
  BY <1>3, <1>4

(* A write reaches the record whose id the pointer's record has.           *)
LEMMA InitNodeStores ==
  ASSUME NodesIInv, NEW p \in ptrs, NEW n \in Nums, InitNode(p, n)
  PROVE  /\ Record(p).id \in HeldIds
         /\ GivenId' = GivenId /\ HeldIds' = HeldIds
         /\ SearchNumbers' = [SearchNumbers EXCEPT ![Record(p).id] = n]
<1>1. PICK b \in DOMAIN blocks :
         p[1] = blocks[b] /\ Record(p).id = b * NBS + p[2]
  BY PointerType
<1>2. p[1] \in live /\ p[2] \in 0 .. NBS - 1
  BY PointerType
<1> DEFINE new == [id |-> Record(p).id, num |-> n]
<1>3. /\ UNCHANGED <<vars, blocks, ptr, ptrs>>
      /\ \A a \in live, o \in 0 .. NBS - 1 :
           memory'[a][o] = IF a = p[1] /\ o = p[2] THEN new ELSE memory[a][o]
  BY Written
<1>4. new.id = memory[p[1]][p[2]].id /\ new.num = n
  BY DEF Record
<1> HIDE DEF new
<1>5. \A q \in ptrs : memory'[q[1]][q[2]].id = memory[q[1]][q[2]].id
  BY <1>3, <1>4, PointerType
<1>6. HeldIds' = HeldIds
  BY <1>3, <1>5 DEF HeldIds, Record
<1>7. GivenId' = GivenId
  BY <1>3, <1>5 DEF GivenId, Record, NodesIInv
<1>8. ASSUME NEW e \in Known
      PROVE  SearchNumber(e)' = IF e = Record(p).id THEN n ELSE SearchNumber(e)
  <2>1. /\ BlockOf(e) \in DOMAIN blocks /\ ListId(e) \in 0 .. NBS - 1
        /\ blocks[BlockOf(e)] # Null => blocks[BlockOf(e)] \in live
        /\ e = BlockOf(e) * NBS + ListId(e) /\ e \in Nat
    BY KnownType
  <2>2. CASE blocks[BlockOf(e)] = p[1] /\ ListId(e) = p[2]
    <3>1. blocks[BlockOf(e)] # Null
      BY <1>2, <2>2, PoolAssumption DEF NodesIInv, NodesTypeOK, TypeOK
    <3>2. BlockOf(e) = b
      BY <1>1, <2>1, <2>2, <3>1 DEF NodesIInv, NodesInv
    <3>3. e = Record(p).id
      BY <1>1, <2>1, <2>2, <3>2
    <3>4. memory'[blocks[BlockOf(e)]][ListId(e)].num = n
      BY <1>2, <1>3, <1>4, <2>2
    <3> QED
      BY <1>3, <3>1, <3>3, <3>4 DEF SearchNumber
  <2>3. CASE ~(blocks[BlockOf(e)] = p[1] /\ ListId(e) = p[2])
    <3>1. e # Record(p).id
      <4>1. SUFFICES ASSUME e = Record(p).id PROVE FALSE
        OBVIOUS
      <4>2. b \in Nat /\ BlockOf(e) \in Nat
        BY <2>1, NumBlocksType DEF NodesIInv, NodesTypeOK
      <4>3. BlockOf(e) * NBS + ListId(e) = b * NBS + p[2]
        BY <1>1, <2>1, <4>1
      <4>4. BlockOf(e) = b /\ ListId(e) = p[2]
        BY <1>2, <2>1, <4>2, <4>3, PartsAreUnique
      <4> QED
        BY <1>1, <2>3, <4>4
    <3>2. blocks[BlockOf(e)] # Null =>
            memory'[blocks[BlockOf(e)]][ListId(e)]
              = memory[blocks[BlockOf(e)]][ListId(e)]
      BY <1>3, <2>1, <2>3
    <3> QED
      BY <1>3, <3>1, <3>2 DEF SearchNumber
  <2> QED
    BY <2>2, <2>3
<1>9. Known' = Known
  BY DEF Known, num_blocks
<1>10. SearchNumbers' = [SearchNumbers EXCEPT ![Record(p).id] = n]
  BY <1>8, <1>9 DEF SearchNumbers
<1> QED
  BY <1>6, <1>7, <1>10 DEF HeldIds

(* Searches see one record per id, the same one on every call, and no      *)
(* write reaches the record of another id: the pool implements NodeStore.  *)
THEOREM PoolStoresNodes == SpecNodes => OneRecordPerId
<1> USE DEF Store!Next, Store!svars, Store!Give, Store!GiveNothing
<1>1. ASSUME InitNodes
      PROVE  Store!Init
  <2>1. ASSUME NEW d \in Known
        PROVE  SearchNumber(d) = Unused
    <3>1. BlockOf(d) \in 0 .. num_blocks - 1
      BY <1>1, NodesInit, KnownType DEF InitNodes
    <3> QED
      BY <1>1, <3>1 DEF InitNodes, SearchNumber
  <2>2. ptr = Null /\ ptrs = {}
    BY <1>1 DEF InitNodes
  <2> QED
    BY <2>1, <2>2 DEF Store!Init
<1>2. ASSUME NodesIInv, [NextNodes]_nvars
      PROVE  [Store!Next]_(Store!svars)
  <2>1. ASSUME NEW d \in Ids, GenerateBlock(d)
        PROVE  Store!Generate(d)
    BY <1>2, <2>1, GenerateBlockStores
    DEF Store!Generate, SearchNumbers, GivenId, HeldIds
  <2>2. ASSUME NEW d \in Ids, Generate(d)
        PROVE  Store!Generate(d)
    <3> DEFINE p == IF OutOfRange(d) THEN Null
                    ELSE <<blocks[BlockOf(d)], ListId(d)>>
    <3>1. Return(p) /\ UNCHANGED <<vars, blocks, memory>>
      BY <2>2 DEF Generate
    <3>2. p = Null \/ (Present(d) /\ p = <<blocks[BlockOf(d)], ListId(d)>>)
      BY <2>2 DEF Generate, Present
    <3>3. d \in Known <=> p # Null
      <4>1. CASE OutOfRange(d)
        BY <1>2, <4>1, KnownType
      <4>2. CASE ~OutOfRange(d)
        <5>1. Present(d)
          BY <2>2, <4>2 DEF Generate, Present
        <5> QED
          BY <1>2, <4>2, <5>1, RecordOfId
      <4> QED
        BY <4>1, <4>2
    <3> HIDE DEF p
    <3> QED
      BY <1>2, <3>1, <3>2, <3>3, ReturnStores
      DEF Store!Generate, SearchNumbers, GivenId, HeldIds
  <2>3. ASSUME NEW d \in Ids, NEW n \in Nums, GetPtr(d, n)
        PROVE  Store!GetPtr(d, n)
    <3> DEFINE q == <<blocks[BlockOf(d)], ListId(d)>>
               p == IF Present(d) /\ Record(q).num = n THEN q ELSE Null
    <3>1. Return(p) /\ UNCHANGED <<vars, blocks, memory>>
      BY <2>3 DEF GetPtr
    <3>2. p = Null \/ (Present(d) /\ p = <<blocks[BlockOf(d)], ListId(d)>>)
      OBVIOUS
    <3>3. d \in Known /\ SearchNumber(d) = n <=> p # Null
      <4>1. CASE Present(d)
        <5>1. d \in Known /\ Record(q).num = SearchNumber(d) /\ q # Null
          BY <1>2, <4>1, RecordOfId
        <5> QED
          BY <4>1, <5>1
      <4>2. CASE ~Present(d)
        <5>1. d \in Known => SearchNumber(d) = Unused
          BY <1>2, <4>2, KnownType DEF Present, Lacks, SearchNumber
        <5> QED
          BY <4>2, <5>1, NodesAssumption
      <4> QED
        BY <4>1, <4>2
    <3> HIDE DEF p
    <3>4. d \in Known => SearchNumbers[d] = SearchNumber(d)
      BY DEF SearchNumbers
    <3> QED
      BY <1>2, <3>1, <3>2, <3>3, <3>4, ReturnStores
      DEF Store!GetPtr, SearchNumbers, GivenId, HeldIds
  <2>4. ASSUME NEW p \in ptrs, NEW n \in Nums, InitNode(p, n)
        PROVE  Store!Write(Record(p).id, n) /\ Record(p).id \in HeldIds
    BY <1>2, <2>4, InitNodeStores
    DEF Store!Write, SearchNumbers, GivenId, HeldIds
  <2>5. CASE UNCHANGED nvars
    BY <2>5 DEF nvars, SearchNumber, Known, num_blocks, Record
  <2> QED
    BY <1>2, <2>1, <2>2, <2>3, <2>4, <2>5 DEF NextNodes, HeldIds
<1>3. NodesIInv /\ [NextNodes]_nvars => NodesIInv'
  BY NodesStep
<1>4. NodesIInv /\ [NextNodes]_nvars => [Store!Next]_(Store!svars)
  BY <1>2
<1> QED
  BY <1>1, <1>3, <1>4, NodesInit, PTL DEF SpecNodes, OneRecordPerId, Store!Spec

-----------------------------------------------------------------------------
(* A pointer that was returned stays one, and its record keeps its id.     *)
LEMMA PointersStay ==
  ASSUME NodesIInv, [NextNodes]_nvars, NEW p \in ptrs
  PROVE  p \in ptrs' /\ Record(p)'.id = Record(p).id
<1>1. NodesIInv'
  BY NodesStep
<1>2. /\ ptrs \subseteq ptrs'
      /\ DOMAIN blocks' = DOMAIN blocks
      /\ \A b \in DOMAIN blocks : blocks[b] # Null => blocks'[b] = blocks[b]
  <2>1. ASSUME NEW d \in Ids, GenerateBlock(d)
        PROVE  <1>2!:
    BY <2>1 DEF GenerateBlock, Lacks, Return, NodesIInv, NodesTypeOK
  <2>2. ASSUME NEW d \in Ids, Generate(d) \/ \E n \in Nums : GetPtr(d, n)
        PROVE  <1>2!:
    BY <2>2 DEF Generate, GetPtr, Return
  <2>3. CASE \E q \in ptrs, n \in Nums : InitNode(q, n)
    BY <2>3 DEF InitNode
  <2>4. CASE UNCHANGED nvars
    BY <2>4 DEF nvars
  <2> QED
    BY <2>1, <2>2, <2>3, <2>4 DEF NextNodes
<1>3. PICK b \in DOMAIN blocks : p[1] = blocks[b] /\ Record(p).id = b * NBS + p[2]
  BY PointerType
<1>4. p[1] \in live /\ p[2] \in 0 .. NBS - 1 /\ Null \notin live
  BY PointerType, PoolAssumption DEF NodesIInv, Inv, TypeOK
<1>5. p[1] = blocks'[b] /\ blocks'[b] # Null
  BY <1>2, <1>3, <1>4
<1>6. memory'[p[1]][p[2]].id = b * NBS + p[2]
  BY <1>1, <1>2, <1>4, <1>5 DEF NodesIInv, NodesInv
<1> QED
  BY <1>2, <1>3, <1>6 DEF Record

-----------------------------------------------------------------------------
(* Whatever a policy does with the list, of its steps the pool sees those  *)
(* of its own specification and no others.                                 *)
LEMMA PolicyUsesPool ==
  ASSUME [NextPolicy]_<<nvars, lvars>>
  PROVE  [NextNodes]_nvars
BY DEF NextPolicy, AddNeighbour, Reset, First, NextSuccessor, GetSuccessor,
       MoveTo, Search, NextNodes

(* The steps of a policy move the elements in use to no other place.       *)
ListTypeOK ==
  /\ max_size \in Nat \ {0} /\ used \in 0 .. max_size /\ cursor \in Nat
  /\ DOMAIN collection = 0 .. max_size - 1
  /\ added \in Seq(Ids)

PolicyIInv == NodesIInv /\ ListTypeOK /\ SuccessorsAreAdded

LEMMA PolicyInit ==
  ASSUME InitPolicy
  PROVE  PolicyIInv
<1>1. NodesIInv
  BY NodesInit DEF InitPolicy
<1>2. ListTypeOK /\ used = Len(added) /\ used = 0
  BY ListAssumption DEF InitPolicy, ListTypeOK
<1> QED
  BY <1>1, <1>2 DEF PolicyIInv, SuccessorsAreAdded, N, InitPolicy

(* The cursor is on an element in use, or N returns nothing.               *)
LEMMA CursorFollows ==
  ASSUME ListTypeOK', used' = Len(added'),
         \A k \in 1 .. used' : /\ collection'[k - 1] \in ptrs'
                               /\ Record(collection[k - 1])'.id = added'[k]
  PROVE  SuccessorsAreAdded'
<1>1. CASE cursor' < used'
  <2>1. cursor' + 1 \in 1 .. used' /\ (cursor' + 1) - 1 = cursor'
    BY <1>1 DEF ListTypeOK
  <2>2. Record(collection[cursor])'.id = added'[cursor' + 1]
    BY <2>1 DEF Record
  <2> QED
    BY <1>1, <2>2 DEF SuccessorsAreAdded, N, Record
<1>2. CASE ~(cursor' < used')
  BY <1>2 DEF SuccessorsAreAdded, N, Record
<1> QED
  BY <1>1, <1>2

LEMMA AddNeighbourStep ==
  ASSUME PolicyIInv, NEW d \in Ids, AddNeighbour(d)
  PROVE  PolicyIInv'
<1>1. NodesIInv' /\ [NextNodes]_nvars
  BY NodesStep DEF PolicyIInv, AddNeighbour, NextNodes
<1>2. ptr' \in ptrs' /\ Record(ptr)'.id = d
  <2>1. CASE GenerateBlock(d)
    <3>1. GivenId' = d /\ d # Null
      BY <2>1, GenerateBlockStores, NodesAssumption, PoolAssumption DEF PolicyIInv
    <3>2. ptr' # Null /\ Record(ptr)'.id = d
      BY <3>1 DEF GivenId
    <3> QED
      BY <1>1, <3>2 DEF NodesIInv
  <2>2. CASE Generate(d)
    <3> DEFINE p == <<blocks[BlockOf(d)], ListId(d)>>
    <3>1. ~OutOfRange(d) /\ Present(d)
      <4>1. BlockOf(d) \in Nat /\ BlockOf(d) < num_blocks
        BY IdsOfPool, IdParts DEF AddNeighbour
      <4> QED
        BY <2>2, <4>1, NumBlocksType DEF OutOfRange, Present, Generate
    <3>2. p # Null /\ Record(p).id = d
      BY <3>1, RecordOfId DEF PolicyIInv
    <3>3. ptr' = p /\ ptrs' = ptrs \cup {p} /\ memory' = memory
      BY <2>2, <3>1, <3>2 DEF Generate, Return
    <3> HIDE DEF p
    <3> QED
      BY <3>2, <3>3 DEF Record
  <2> QED
    BY <2>1, <2>2 DEF AddNeighbour
<1>3. /\ ListTypeOK' /\ used' = Len(added') /\ used' = used + 1
      /\ added'[used + 1] = d
      /\ \A k \in 1 .. used : added'[k] = added[k]
  BY DEF PolicyIInv, ListTypeOK, SuccessorsAreAdded, AddNeighbour, PushBack, Grown
<1>4. /\ collection'[used] = ptr'
      /\ \A k \in 0 .. used - 1 : collection'[k] = collection[k]
  <2>1. /\ max_size \in Nat \ {0} /\ used \in 0 .. max_size
        /\ DOMAIN collection = 0 .. max_size - 1 /\ PushBack(ptr')
    BY DEF PolicyIInv, ListTypeOK, AddNeighbour
  <2>2. CASE used < max_size
    <3>1. collection' = [collection EXCEPT ![used] = ptr']
      BY <2>1, <2>2 DEF PushBack
    <3>2. used \in DOMAIN collection /\ \A k \in 0 .. used - 1 : k \in DOMAIN collection /\ k # used
      BY <2>1, <2>2
    <3> QED
      BY <3>1, <3>2
  <2>3. CASE ~(used < max_size)
    <3>1. used = max_size
      BY <2>1, <2>3
    <3>2. collection' = [Grown(used * 2) EXCEPT ![used] = ptr']
      BY <2>3, <2>1 DEF PushBack
    <3>3. /\ used \in 0 .. used * 2 - 1
          /\ \A k \in 0 .. used - 1 : k \in 0 .. used * 2 - 1 /\ k # used /\ k < max_size
      BY <2>1, <3>1
    <3> QED
      BY <3>2, <3>3 DEF Grown
  <2> QED
    BY <2>2, <2>3
<1>5. ASSUME NEW k \in 1 .. used'
      PROVE  /\ collection'[k - 1] \in ptrs'
             /\ Record(collection[k - 1])'.id = added'[k]
  <2>1. CASE k = used + 1
    <3>1. k - 1 = used
      BY <2>1 DEF PolicyIInv, ListTypeOK
    <3>2. collection'[k - 1] = ptr' /\ added'[k] = d
      BY <1>3, <1>4, <2>1, <3>1
    <3> QED
      BY <1>2, <3>2 DEF Record
  <2>2. CASE k # used + 1
    <3>1. k \in 1 .. used /\ k - 1 \in 0 .. used - 1
      BY <1>3, <2>2 DEF PolicyIInv, ListTypeOK
    <3>2. PICK p \in ptrs : p = collection[k - 1] /\ Record(p).id = added[k]
      BY <3>1 DEF PolicyIInv, SuccessorsAreAdded
    <3>3. p \in ptrs' /\ Record(p)'.id = added[k]
      BY <1>1, <3>2, PointersStay DEF PolicyIInv
    <3>4. collection'[k - 1] = p /\ added'[k] = added[k]
      BY <1>3, <1>4, <3>1, <3>2
    <3> QED
      BY <3>3, <3>4 DEF Record
  <2> QED
    BY <2>1, <2>2
<1>6. SuccessorsAreAdded'
  BY <1>3, <1>5, CursorFollows
<1> QED
  BY <1>1, <1>3, <1>6 DEF PolicyIInv

(* All other steps leave the list alone, empty it, or move the cursor.     *)
LEMMA CursorStep ==
  ASSUME PolicyIInv, [NextNodes]_nvars, UNCHANGED <<collection, max_size>>,
         cursor' \in Nat,
         (used' = 0 /\ added' = <<>>) \/ (UNCHANGED <<used, added>>)
  PROVE  PolicyIInv'
<1>1. NodesIInv'
  BY NodesStep DEF PolicyIInv
<1>2. ListTypeOK' /\ used' = Len(added')
  <2>1. CASE used' = 0 /\ added' = <<>>
    <3>1. added' \in Seq(Ids) /\ Len(added') = 0 /\ 0 \in 0 .. max_size
      BY <2>1 DEF PolicyIInv, ListTypeOK
    <3> QED
      BY <2>1, <3>1 DEF PolicyIInv, ListTypeOK
  <2>2. CASE UNCHANGED <<used, added>>
    BY <2>2 DEF PolicyIInv, ListTypeOK, SuccessorsAreAdded
  <2> QED
    BY <2>1, <2>2
<1>3. ASSUME NEW k \in 1 .. used'
      PROVE  /\ collection'[k - 1] \in ptrs'
             /\ Record(collection[k - 1])'.id = added'[k]
  <2>1. used' = used /\ added' = added
    BY <1>3
  <2>2. PICK p \in ptrs : p = collection[k - 1] /\ Record(p).id = added[k]
    BY <1>3, <2>1 DEF PolicyIInv, SuccessorsAreAdded
  <2>3. p \in ptrs' /\ Record(p)'.id = added[k]
    BY <2>2, PointersStay DEF PolicyIInv
  <2> QED
    BY <2>1, <2>2, <2>3 DEF Record
<1>4. SuccessorsAreAdded'
  BY <1>2, <1>3, CursorFollows
<1> QED
  BY <1>1, <1>2, <1>4 DEF PolicyIInv

LEMMA PolicyStep ==
  ASSUME PolicyIInv, [NextPolicy]_<<nvars, lvars>>
  PROVE  PolicyIInv'
<1>1. [NextNodes]_nvars
  BY PolicyUsesPool
<1>2. ASSUME NEW d \in Ids, AddNeighbour(d)
      PROVE  PolicyIInv'
  BY <1>2, AddNeighbourStep
<1>3. CASE Reset
  BY <1>1, <1>3, CursorStep DEF Reset
<1>4. CASE First \/ NextSuccessor
  BY <1>1, <1>4, CursorStep
  DEF First, NextSuccessor, MoveTo, PolicyIInv, ListTypeOK
<1>5. ASSUME NEW which \in 0 .. ListLimit - 1, GetSuccessor(which)
      PROVE  PolicyIInv'
  BY <1>1, <1>5, CursorStep DEF GetSuccessor, MoveTo
<1>6. CASE Search \/ UNCHANGED lvars
  BY <1>1, <1>6, CursorStep DEF Search, lvars, PolicyIInv, ListTypeOK
<1> QED
  BY <1>2, <1>3, <1>4, <1>5, <1>6 DEF NextPolicy

(* The successors that the engine is given are those that expand added,    *)
(* for every number of them and every size of the first array and of the   *)
(* blocks: enlarging the list and making blocks lose none and mix up none. *)
THEOREM ListCorrect == SpecPolicy => []SuccessorsAreAdded
<1>1. PolicyIInv => SuccessorsAreAdded
  BY DEF PolicyIInv
<1> QED
  BY <1>1, PolicyInit, PolicyStep, PTL DEF SpecPolicy

(* A pool under a policy is a pool: what is proved of SpecNodes holds of   *)
(* its records as long as a policy lists them.                             *)
THEOREM PolicyStoresNodes == SpecPolicy => []NodesInv /\ OneRecordPerId
<1>1. InitPolicy => InitNodes
  BY DEF InitPolicy
<1>2. [NextPolicy]_<<nvars, lvars>> => [NextNodes]_nvars
  BY PolicyUsesPool
<1>3. SpecPolicy => SpecNodes
  BY <1>1, <1>2, PTL DEF SpecPolicy, SpecNodes
<1> QED
  BY <1>3, NodesCorrect, PoolStoresNodes
=============================================================================
