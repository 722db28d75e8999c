---------------------------- MODULE PQueueSafety ----------------------------
(***************************************************************************)
(* The heap keeps its invariants and implements PriorityQueue, for every   *)
(* set of nodes, every key and both orders.                                *)
(***************************************************************************)
EXTENDS PQueue, TLAPS, WellFoundedInduction

-----------------------------------------------------------------------------
(* Facts about the natural numbers, the order and the array.               *)

LEMMA SmallestOf ==
  ASSUME NEW T, T \subseteq Nat, T # {}
  PROVE  \E x \in T : \A y \in T : x <= y
<1> DEFINE R == OpToRel(<, Nat)
<1>1. IsWellFoundedOn(R, Nat)
  BY NatLessThanWellFounded
<1>2. \A x, y \in Nat : y < x => <<y, x>> \in R
  BY DEF OpToRel
<1> HIDE DEF R
<1>3. PICK x \in T : \A y \in T : ~ (<<y, x>> \in R)
  BY <1>1, WFMin
<1>4. \A y \in T : ~ (y < x)
  BY <1>2, <1>3
<1>5. x \in Nat /\ \A y \in T : y \in Nat
  OBVIOUS
<1> QED
  BY <1>4, <1>5

(* Both comparators are strict weak orders.                                *)
LEMMA WeakOrder ==
  ASSUME NEW a \in Key, NEW b \in Key, NEW c \in Key
  PROVE  /\ ~Before(a, a)
         /\ Before(a, b) => ~Before(b, a)
         /\ ~Before(a, b) /\ ~Before(b, c) => ~Before(a, c)
<1>1. a.f \in Nat /\ b.f \in Nat /\ c.f \in Nat
      /\ a.g \in Nat /\ b.g \in Nat /\ c.g \in Nat
  BY DEF Key
<1> QED
  BY <1>1 DEF Before

LEMMA Parents ==
  ASSUME NEW k \in Nat \ {0}
  PROVE  /\ Parent(k) \in Nat /\ Parent(k) < k
         /\ \A i \in Nat : Parent(k) = i <=> k \in {2 * i + 1, 2 * i + 2}
  BY DEF Parent

LEMMA TypeInit ==
  ASSUME Init
  PROVE  TypeOK
  BY QueueAssumption DEF Init, TypeOK, Capacity

(* A swap of two elements of the queue.                                    *)
LEMMA SwapFacts ==
  ASSUME TypeOK, Indexed, NEW i \in Places, NEW j \in Places, i # j,
         Swap(i, j)
  PROVE  /\ TypeOK' /\ Indexed' /\ Places' = Places /\ Items' = Items
         /\ elts'[i] = elts[j] /\ elts'[j] = elts[i]
         /\ \A k \in Places \ {i, j} : elts'[k] = elts[k]
<1> USE DEF TypeOK
<1>1. Places \subseteq 0 .. maxsize - 1 /\ Places \subseteq Nat
  BY DEF Places
<1>2. elts[i] \in Node /\ elts[j] \in Node /\ elts[i] # elts[j]
  BY DEF Indexed
<1>3. /\ elts' \in [0 .. maxsize - 1 -> Node \cup {Null}]
      /\ elts'[i] = elts[j] /\ elts'[j] = elts[i]
      /\ \A k \in Places \ {i, j} : elts'[k] = elts[k]
  BY <1>1, <1>2 DEF Swap
<1>4. /\ priority' \in [Node -> Nat]
      /\ priority'[elts[j]] = i /\ priority'[elts[i]] = j
      /\ \A n \in Node \ {elts[i], elts[j]} : priority'[n] = priority[n]
  BY <1>1, <1>2 DEF Swap
<1>5. UNCHANGED <<key, queuesize, maxsize, pc, popped>> /\ index' = j
      /\ j < queuesize /\ j \in Nat
  BY <1>1 DEF Swap, Places
<1>6. TypeOK'
  BY <1>3, <1>4, <1>5
<1>7. Places' = Places
  BY <1>5 DEF Places
<1>8. Indexed'
  <2> SUFFICES ASSUME NEW k \in Places
               PROVE  elts'[k] \in Node /\ priority'[elts'[k]] = k
    BY <1>7 DEF Indexed
  <2>1. CASE k \in {i, j}
    BY <2>1, <1>2, <1>3, <1>4
  <2>2. CASE k \notin {i, j}
    <3>1. elts'[k] = elts[k]
      BY <2>2, <1>3
    <3>2. elts[k] \in Node /\ priority[elts[k]] = k
          /\ priority[elts[i]] = i /\ priority[elts[j]] = j
      BY DEF Indexed
    <3>3. elts[k] \notin {elts[i], elts[j]}
      BY <2>2, <3>2
    <3> QED
      BY <3>1, <3>2, <3>3, <1>4
  <2> QED
    BY <2>1, <2>2
<1>9. Items' = Items
  BY <1>3, <1>7 DEF Items
<1> QED
  BY <1>3, <1>6, <1>7, <1>8, <1>9

(* Where Up and Down swap.                                                 *)
LEMMA SwapPlaces ==
  ASSUME TypeOK, pc # "idle"
  PROVE  /\ index \in Places
         /\ index > 0 => Parent(index) \in Places /\ Parent(index) # index
         /\ index < queuesize \div 2 =>
              Which \in Places /\ Which # index /\ Parent(Which) = index
<1> USE DEF TypeOK, Places
<1>1. index \in Places
  OBVIOUS
<1>2. index > 0 => Parent(index) \in Places /\ Parent(index) # index
  BY Parents
<1>3. index < queuesize \div 2 =>
        Which \in {2 * index + 1, 2 * index + 2} /\ Which < queuesize
  BY DEF Which
<1>4. Which \in {2 * index + 1, 2 * index + 2}
        => Which \in Nat \ {0} /\ Which # index /\ Parent(Which) = index
  BY Parents
<1> QED
  BY <1>1, <1>2, <1>3, <1>4

(* The array keeps its type whatever new keys the nodes get.               *)
LEMMA PushType ==
  ASSUME TypeOK, Indexed, NEW n \in Node, Push(n), key' \in [Node -> Key]
  PROVE  TypeOK'
<1> USE QueueAssumption DEF TypeOK
<1>1. maxsize' \in Nat /\ maxsize' >= maxsize /\ queuesize + 1 <= maxsize'
  BY DEF Push, Full, Capacity
<1>2. elts' \in [0 .. maxsize' - 1 -> Node \cup {Null}]
  BY DEF Push, Full, Resized, Capacity
<1>3. /\ priority' \in [Node -> Nat] /\ queuesize' = queuesize + 1
      /\ pc' = "up" /\ index' = queuesize /\ popped' = popped
  BY DEF Push
<1>4. queuesize' \in 0 .. maxsize' /\ maxsize' >= MinSize /\ index' \in Nat
      /\ index' < queuesize' /\ popped' \in Node \cup {Null}
  BY <1>1, <1>3
<1> QED
  BY <1>1, <1>2, <1>3, <1>4

LEMMA PopType ==
  ASSUME TypeOK, Indexed, Pop, key' \in [Node -> Key]
  PROVE  TypeOK'
<1> USE QueueAssumption DEF TypeOK
<1>1. elts[0] \in Node /\ elts[queuesize - 1] \in Node
  BY DEF Pop, Indexed, Places
<1> QED
  BY <1>1 DEF Pop

LEMMA TypeStep ==
  ASSUME TypeOK, Indexed, [Next]_vars
  PROVE  TypeOK'
<1> USE QueueAssumption DEF TypeOK
<1>1. ASSUME NEW n \in Node, Push(n), UNCHANGED key
      PROVE  TypeOK'
  BY <1>1, PushType
<1>2. CASE Pop /\ UNCHANGED key
  BY <1>2, PopType
<1>3. CASE PopNothing /\ UNCHANGED key
  BY <1>3 DEF PopNothing
<1>4. CASE Clear /\ UNCHANGED key
  BY <1>4 DEF Clear
<1>5. ASSUME NEW n \in Node, NEW k \in Keys,
             DecreaseKey(n, k) \/ IncreaseKey(n, k)
      PROVE  TypeOK'
  BY <1>5 DEF DecreaseKey, IncreaseKey, Contains
<1>6. ASSUME NEW n \in Node, NEW k \in Keys, Rekey(n, k)
      PROVE  TypeOK'
  BY <1>6 DEF Rekey
<1>7. ASSUME Return
      PROVE  TypeOK'
  BY <1>7 DEF Return
<1>8. CASE Up
  BY <1>7, <1>8, SwapPlaces, SwapFacts DEF Up
<1>9. CASE Down
  BY <1>7, <1>9, SwapPlaces, SwapFacts DEF Down
<1>10. CASE UNCHANGED vars
  BY <1>10 DEF vars
<1> QED
  BY <1>1, <1>2, <1>3, <1>4, <1>5, <1>6, <1>8, <1>9, <1>10
  DEF Next, Operation

-----------------------------------------------------------------------------
(* Membership and places.                                                  *)

LEMMA Membership ==
  ASSUME TypeOK, Indexed
  PROVE  ContainsIsMembership
<1>1. Null \notin Items
  BY QueueAssumption DEF Items, Indexed
<1>2. ASSUME NEW n \in Node, Contains(n)
      PROVE  n \in Items
  BY <1>2 DEF Contains, Items, Places, TypeOK
<1>3. ASSUME NEW n \in Items
      PROVE  Contains(n)
  <2>1. PICK k \in Places : n = elts[k]
    BY DEF Items
  <2>2. priority[n] = k /\ k < queuesize
    BY <2>1 DEF Indexed, Places, TypeOK
  <2> QED
    BY <2>1, <2>2 DEF Contains
<1> QED
  BY <1>1, <1>2, <1>3 DEF ContainsIsMembership

LEMMA PushFacts ==
  ASSUME TypeOK, Indexed, NEW n \in Node, Push(n)
  PROVE  /\ Indexed' /\ Items' = Items \cup {n}
         /\ Places' = Places \cup {queuesize} /\ queuesize \notin Places
         /\ elts'[queuesize] = n /\ \A k \in Places : elts'[k] = elts[k]
<1> USE DEF TypeOK
<1>1. Places' = Places \cup {queuesize} /\ queuesize \notin Places
  BY DEF Push, Places
<1>2. maxsize' >= maxsize /\ queuesize < maxsize'
  BY QueueAssumption DEF Push, Full, Capacity
<1>3. elts'[queuesize] = n /\ \A k \in Places : elts'[k] = elts[k]
  <2>1. CASE Full
    BY <2>1, <1>2 DEF Push, Full, Resized, Capacity, Places
  <2>2. CASE ~Full
    BY <2>2, <1>2 DEF Push, Full, Places
  <2> QED
    BY <2>1, <2>2
<1>4. priority' = [priority EXCEPT ![n] = queuesize] /\ ~Contains(n)
  BY DEF Push
<1>5. \A k \in Places : elts[k] \in Node /\ priority[elts[k]] = k /\ elts[k] # n
  BY <1>4 DEF Indexed, Contains, Places
<1>6. Indexed'
  BY <1>1, <1>3, <1>4, <1>5 DEF Indexed
<1>7. Items' = Items \cup {n}
  BY <1>1, <1>3 DEF Items
<1> QED
  BY <1>1, <1>3, <1>6, <1>7

LEMMA PopFacts ==
  ASSUME TypeOK, Indexed, Pop
  PROVE  /\ Indexed' /\ Items' = Items \ {elts[0]} /\ elts[0] \in Items
         /\ Places' = Places \ {queuesize - 1}
         /\ \A k \in Places' \ {0} : elts'[k] = elts[k]
<1> USE DEF TypeOK
<1>1. queuesize > 0 /\ queuesize' = queuesize - 1 /\ 0 \in Places
      /\ queuesize - 1 \in Places
  BY DEF Pop, Places
<1>2. Places' = Places \ {queuesize - 1} /\ Places' \subseteq Nat
  BY <1>1 DEF Places
<1>3. elts[0] \in Node /\ priority[elts[0]] = 0 /\ elts[queuesize - 1] \in Node
      /\ priority[elts[queuesize - 1]] = queuesize - 1
  BY <1>1 DEF Indexed
<1>4. CASE queuesize = 1
  <2>1. Places = {0} /\ Places' = {}
    BY <1>1, <1>2, <1>4 DEF Places
  <2> QED
    BY <2>1, <1>1, <1>2, <1>3 DEF Indexed, Items
<1>5. CASE queuesize > 1
  <2>1. /\ elts' = [elts EXCEPT ![0] = elts[queuesize - 1]]
        /\ priority' = [priority EXCEPT ![elts[queuesize - 1]] = 0]
    BY <1>5 DEF Pop
  <2>2. /\ elts'[0] = elts[queuesize - 1] /\ 0 \in Places'
        /\ \A k \in Places' \ {0} : elts'[k] = elts[k] /\ k \in Places
    BY <2>1, <1>1, <1>2, <1>5
  <2>3. \A k \in Places' \ {0} :
          elts[k] \in Node /\ priority[elts[k]] = k
          /\ elts[k] # elts[queuesize - 1] /\ elts[k] # elts[0]
    <3> SUFFICES ASSUME NEW k \in Places' \ {0}
                 PROVE  elts[k] \in Node /\ priority[elts[k]] = k
                        /\ elts[k] # elts[queuesize - 1] /\ elts[k] # elts[0]
      OBVIOUS
    <3>1. k \in Places /\ k # queuesize - 1 /\ k # 0
      BY <1>2
    <3>2. elts[k] \in Node /\ priority[elts[k]] = k
      BY <3>1 DEF Indexed
    <3> QED
      BY <3>1, <3>2, <1>3
  <2>4. Indexed'
    <3> SUFFICES ASSUME NEW k \in Places'
                 PROVE  elts'[k] \in Node /\ priority'[elts'[k]] = k
      BY DEF Indexed
    <3>1. CASE k = 0
      BY <3>1, <2>1, <2>2, <1>3
    <3>2. CASE k # 0
      BY <3>2, <2>1, <2>2, <2>3, <1>3
    <3> QED
      BY <3>1, <3>2
  <2>5. elts[queuesize - 1] # elts[0]
    BY <1>3, <1>5
  <2>6. Items' = Items \ {elts[0]}
    <3>1. Items' = {elts'[0]} \cup {elts'[k] : k \in Places' \ {0}}
      BY <2>2 DEF Items
    <3>2. Items = {elts[0], elts[queuesize - 1]} \cup {elts[k] : k \in Places' \ {0}}
      BY <1>1, <1>2 DEF Items
    <3>3. {elts'[k] : k \in Places' \ {0}} = {elts[k] : k \in Places' \ {0}}
      BY <2>2
    <3> DEFINE Rest == {elts[k] : k \in Places' \ {0}}
    <3>4. elts[0] \notin Rest
      BY <2>3
    <3>5. Items' = {elts[queuesize - 1]} \cup Rest
      BY <3>1, <3>3, <2>2
    <3>6. Items = {elts[0], elts[queuesize - 1]} \cup Rest
      BY <3>2
    <3> HIDE DEF Rest
    <3> QED
      BY <3>4, <3>5, <3>6, <2>5
  <2>7. elts[0] \in Items
    BY <1>1 DEF Items
  <2> QED
    BY <2>2, <2>4, <2>6, <2>7, <1>2
<1> QED
  BY <1>1, <1>4, <1>5

-----------------------------------------------------------------------------
(* The heap order, operation by operation.                                 *)

Ordered == TypeOK /\ QueueInv

LEMMA KeysOfPlaces ==
  ASSUME Ordered
  PROVE  /\ Places \subseteq Nat
         /\ \A k \in Places : elts[k] \in Node /\ key[elts[k]] \in Key
         /\ \A k \in Places \ {0} : Parent(k) \in Places /\ Parent(k) < k
<1>1. Places \subseteq Nat /\ \A k \in Places : \A j \in Nat : j < k => j \in Places
  BY DEF Ordered, TypeOK, Places
<1>2. \A k \in Places \ {0} : Parent(k) \in Nat /\ Parent(k) < k
  BY <1>1, Parents
<1>3. \A k \in Places : elts[k] \in Node /\ key[elts[k]] \in Key
  BY DEF Ordered, QueueInv, Indexed, TypeOK
<1> QED
  BY <1>1, <1>2, <1>3

(* Less is a strict weak order on the places.                              *)
LEMMA LessOrder ==
  ASSUME Ordered, NEW a \in Places, NEW b \in Places, NEW c \in Places
  PROVE  /\ Less(a, b) => ~Less(b, a)
         /\ ~Less(a, b) /\ ~Less(b, c) => ~Less(a, c)
  BY KeysOfPlaces, WeakOrder DEF Less

LEMMA UpOrder ==
  ASSUME Ordered, Up
  PROVE  HeapOrder'
<1> DEFINE p == Parent(index)
           After(a, b) == Before(key[elts'[a]], key[elts'[b]])
<1>1. pc = "up" /\ index \in Places /\ HeapOrder
  BY SwapPlaces DEF Up, Ordered, QueueInv
<1>2. CASE index > 0 /\ Less(index, p)
  <2>1. Swap(index, p) /\ p \in Places /\ p # index
    BY <1>1, <1>2, SwapPlaces DEF Up, Ordered
  <2>2. /\ Places' = Places /\ pc' = "up" /\ index' = p /\ key' = key
        /\ elts'[index] = elts[p] /\ elts'[p] = elts[index]
        /\ \A k \in Places \ {index, p} : elts'[k] = elts[k]
    BY <1>1, <2>1, SwapFacts DEF Swap, Ordered, QueueInv
  <2> SUFFICES ASSUME NEW k \in Places \ {0}
               PROVE  /\ ~After(k, Parent(k)) \/ k = p
                      /\ Parent(k) = p /\ p > 0 => ~After(k, Parent(p))
    BY <2>2 DEF HeapOrder, Less
  <2>3. Parent(k) \in Places /\ Parent(k) # k
    BY KeysOfPlaces
  <2>4. ~Less(k, Parent(k)) \/ k = index
    BY <1>1 DEF HeapOrder
  <2>5. ~Less(p, index)
    BY <1>1, <1>2, <2>1, LessOrder
  <2>6. ~After(k, Parent(k)) \/ k = p
    <3>1. CASE k = index
      BY <3>1, <2>2, <2>5 DEF Less, Parent
    <3>2. CASE k \notin {index, p} /\ Parent(k) = index
      <4>1. ~Less(k, p)
        BY <3>2, <1>1, <1>2 DEF HeapOrder
      <4> QED
        BY <3>2, <4>1, <2>2 DEF Less, Parent
    <3>3. CASE k \notin {index, p} /\ Parent(k) = p
      <4>1. ~Less(k, index)
        BY <3>3, <1>1, <2>1, <2>4, <2>5, LessOrder
      <4> QED
        BY <3>3, <4>1, <2>2 DEF Less, Parent
    <3>4. CASE k \notin {index, p} /\ Parent(k) \notin {index, p}
      BY <3>4, <2>2, <2>3, <2>4 DEF Less, Parent
    <3> QED
      BY <3>1, <3>2, <3>3, <3>4
  <2>7. ASSUME Parent(k) = p, p > 0
        PROVE  ~After(k, Parent(p))
    <3>1. Parent(p) \in Places /\ Parent(p) \notin {p, index} /\ k # p
          /\ ~Less(p, Parent(p))
      <4>1. Parent(p) < p /\ p < index /\ Parent(p) \in Places /\ p \in Nat
            /\ index \in Nat
        BY <1>1, <1>2, <2>1, <2>7, KeysOfPlaces
      <4>2. ~Less(p, Parent(p))
        BY <1>1, <2>1, <2>7, <4>1 DEF HeapOrder
      <4> QED
        BY <4>1, <4>2, <2>3, <2>7
    <3>2. CASE k = index
      BY <3>1, <3>2, <2>2 DEF Less, Parent
    <3>3. CASE k # index
      <4>1. ~Less(k, Parent(p))
        BY <3>1, <3>3, <2>1, <2>4, <2>7, LessOrder
      <4> QED
        BY <4>1, <3>1, <3>3, <2>2 DEF Less, Parent
    <3> QED
      BY <3>2, <3>3
  <2> QED
    BY <2>6, <2>7
<1>3. CASE ~(index > 0 /\ Less(index, p))
  <2>1. Return
    BY <1>3 DEF Up
  <2>2. \A k \in Places \ {0} : ~Less(k, Parent(k))
    BY <1>1, <1>3, KeysOfPlaces DEF HeapOrder
  <2> QED
    BY <2>1, <2>2 DEF Return, HeapOrder, Less, Places, Parent
<1> QED
  BY <1>2, <1>3

LEMMA DownOrder ==
  ASSUME Ordered, Down
  PROVE  HeapOrder'
<1> DEFINE w == Which
           After(a, b) == Before(key[elts'[a]], key[elts'[b]])
<1>1. pc = "down" /\ index \in Places /\ HeapOrder
  BY SwapPlaces DEF Down, Ordered, QueueInv
<1>2. ASSUME NEW k \in Places \ {0}, Parent(k) = index
      PROVE  index < queuesize \div 2 /\ w \in Places /\ w # 0 /\ ~Less(k, w)
  <2>1. k \in {2 * index + 1, 2 * index + 2} /\ index \in Nat
    BY <1>1, <1>2, Parents, KeysOfPlaces
  <2>2. index < queuesize \div 2 /\ queuesize \in Nat /\ k < queuesize
    BY <2>1 DEF Places, Ordered, TypeOK
  <2>3. w \in Places /\ w # 0
    <3>1. w \in {2 * index + 1, 2 * index + 2}
      BY DEF Which
    <3> QED
      BY <1>1, <2>1, <2>2, <3>1, SwapPlaces DEF Ordered
  <2>4. ~Less(k, w)
    BY <2>1, <2>2, <2>3, LessOrder DEF Which
  <2> QED
    BY <2>2, <2>3, <2>4
<1>3. CASE index < queuesize \div 2 /\ Less(w, index)
  <2>1. Swap(index, w) /\ w \in Places /\ w # index /\ Parent(w) = index /\ w # 0
    BY <1>1, <1>3, SwapPlaces DEF Down, Ordered, Which, TypeOK
  <2>2. /\ Places' = Places /\ pc' = "down" /\ index' = w /\ key' = key
        /\ elts'[index] = elts[w] /\ elts'[w] = elts[index]
        /\ \A k \in Places \ {index, w} : elts'[k] = elts[k]
    BY <1>1, <2>1, SwapFacts, ZenonT(30) DEF Swap, Ordered, QueueInv
  <2> HIDE DEF w
  <2> SUFFICES ASSUME NEW k \in Places \ {0}
               PROVE  /\ ~After(k, Parent(k)) \/ Parent(k) = w
                      /\ Parent(k) = w => ~After(k, Parent(w))
    BY <2>2 DEF HeapOrder, Less
  <2>3. Parent(k) \in Places /\ Parent(k) # k
    BY KeysOfPlaces
  <2>4. ~Less(k, Parent(k)) \/ Parent(k) = index
    BY <1>1 DEF HeapOrder
  <2>5. ~After(k, Parent(k)) \/ Parent(k) = w
    <3>1. CASE Parent(k) = index /\ k # w
      BY <3>1, <1>2, <2>2, <2>3 DEF Less, Parent
    <3>2. CASE k = w
      <4>1. ~Less(index, w)
        BY <1>1, <1>3, <2>1, LessOrder DEF w
      <4> QED
        BY <3>2, <4>1, <2>1, <2>2 DEF Less, Parent
    <3>3. CASE k = index
      <4>1. ~Less(w, Parent(index))
        BY <3>3, <1>1, <2>1, KeysOfPlaces DEF HeapOrder
      <4>2. Parent(index) # w
        BY <2>1, KeysOfPlaces, <3>3
      <4> QED
        BY <3>3, <4>1, <4>2, <2>2, <2>3 DEF Less, Parent
    <3>4. CASE k \notin {index, w} /\ Parent(k) \notin {index, w}
      BY <3>4, <2>2, <2>3, <2>4 DEF Less, Parent
    <3> QED
      BY <3>1, <3>2, <3>3, <3>4
  <2>6. ASSUME Parent(k) = w
        PROVE  ~After(k, Parent(w))
    <3>1. k \notin {index, w} /\ ~Less(k, w)
      BY <2>1, <2>3, <2>4, <2>6, KeysOfPlaces
    <3> QED
      BY <3>1, <2>1, <2>2 DEF Less, Parent
  <2> QED
    BY <2>5, <2>6
<1>4. CASE ~(index < queuesize \div 2 /\ Less(w, index))
  <2>1. Return
    BY <1>4 DEF Down
  <2>2. \A k \in Places \ {0} : ~Less(k, Parent(k))
    <3> SUFFICES ASSUME NEW k \in Places \ {0}
                 PROVE  ~Less(k, Parent(k))
      OBVIOUS
    <3>1. CASE Parent(k) = index
      BY <3>1, <1>1, <1>2, <1>4, LessOrder
    <3>2. CASE Parent(k) # index
      BY <3>2, <1>1 DEF HeapOrder
    <3> QED
      BY <3>1, <3>2
  <2> QED
    BY <2>1, <2>2 DEF Return, HeapOrder, Less, Places, Parent
<1> QED
  BY <1>3, <1>4

LEMMA PushOrder ==
  ASSUME Ordered, NEW n \in Node, Push(n), \A m \in Items : key'[m] = key[m]
  PROVE  HeapOrder'
<1>1. pc = "idle" /\ pc' = "up" /\ index' = queuesize
  BY DEF Push
<1>2. /\ Places' = Places \cup {queuesize} /\ queuesize \notin Places
      /\ \A k \in Places : elts'[k] = elts[k]
  BY PushFacts DEF Ordered, QueueInv
<1>3. \A k \in Places \ {0} : ~Less(k, Parent(k)) /\ Parent(k) \in Places
  BY <1>1, KeysOfPlaces DEF Ordered, QueueInv, HeapOrder
<1>4. \A k \in Places' : k = queuesize \/ k \in Places
  BY <1>2
<1>5. \A k \in Places' \ {0} : Parent(k) # queuesize
  <2>1. queuesize \in Nat
    BY DEF Ordered, TypeOK
  <2>2. \A k \in Places' \ {0} : k \in Nat \ {0} /\ k <= queuesize
    BY <1>2, <2>1 DEF Places
  <2> QED
    BY <2>1, <2>2, Parents
<1>6. ASSUME NEW k \in Places' \ {0}, k # queuesize
      PROVE  ~Less(k, Parent(k))'
  <2>1. k \in Places \ {0} /\ Parent(k) \in Places /\ ~Less(k, Parent(k))
    BY <1>3, <1>4, <1>6
  <2>2. elts'[k] = elts[k] /\ elts'[Parent(k)] = elts[Parent(k)]
    BY <2>1, <1>2
  <2>3. key'[elts[k]] = key[elts[k]] /\ key'[elts[Parent(k)]] = key[elts[Parent(k)]]
    BY <2>1 DEF Items
  <2> QED
    BY <2>1, <2>2, <2>3 DEF Less, Parent
<1>7. \A k \in Places' \ {0} : Parent(k) # index'
  BY <1>1, <1>5
<1>8. \A k \in Places' \ {0} : k # queuesize => ~Less(k, Parent(k))'
  BY <1>6
<1> QED
  BY <1>1, <1>7, <1>8 DEF HeapOrder, Parent

LEMMA PopOrder ==
  ASSUME Ordered, Pop, \A m \in Items' : key'[m] = key[m]
  PROVE  HeapOrder'
<1>1. pc = "idle" /\ queuesize \in Nat \ {0}
      /\ queuesize' = queuesize - 1
  BY DEF Pop, Ordered, TypeOK
<1>2. /\ Places' = Places \ {queuesize - 1} /\ Places \subseteq Nat
      /\ \A k \in Places' \ {0} : elts'[k] = elts[k]
  BY PopFacts, KeysOfPlaces DEF Ordered, QueueInv
<1>3. \A k \in Places \ {0} : ~Less(k, Parent(k)) /\ Parent(k) \in Places
                              /\ Parent(k) < k
  BY <1>1, KeysOfPlaces DEF Ordered, QueueInv, HeapOrder
<1>4. \A k \in Places' \ {0} : k \in Places /\ Parent(k) \in Places'
  BY <1>1, <1>2, <1>3 DEF Places
<1>5. CASE queuesize > 1
  <2>1. pc' = "down" /\ index' = 0
    BY <1>5 DEF Pop
  <2>2. ASSUME NEW k \in Places' \ {0}, Parent(k) # 0
        PROVE  ~Less(k, Parent(k))'
    <3>1. k \in Places \ {0} /\ Parent(k) \in Places' \ {0}
          /\ ~Less(k, Parent(k))
      BY <2>2, <1>3, <1>4
    <3>2. elts'[k] = elts[k] /\ elts'[Parent(k)] = elts[Parent(k)]
      BY <3>1, <1>2
    <3>3. elts'[k] \in Items' /\ elts'[Parent(k)] \in Items'
      BY <2>2, <3>1 DEF Items
    <3> QED
      BY <3>1, <3>2, <3>3 DEF Less, Parent
  <2>3. ~(index' > 0)
    BY <2>1
  <2>4. \A k \in Places' \ {0} : Parent(k) # 0 => ~Less(k, Parent(k))'
    BY <2>2
  <2> QED
    BY <2>1, <2>3, <2>4 DEF HeapOrder, Parent
<1>6. CASE queuesize = 1
  <2>1. Places' = {}
    BY <1>1, <1>6 DEF Places
  <2> QED
    BY <2>1 DEF HeapOrder
<1> QED
  BY <1>1, <1>5, <1>6

(* An element of the queue gets a new key, and heapify starts at its place *)
(* in the direction of the change.                                         *)
LEMMA RekeyOrder ==
  ASSUME Ordered, NEW n \in Node, NEW k \in Key, pc = "idle", Contains(n),
         key' = [key EXCEPT ![n] = k], index' = priority[n],
         UNCHANGED <<elts, queuesize>>,
         \/ pc' = "up" /\ Before(k, key[n])
         \/ pc' = "down" /\ Before(key[n], k)
  PROVE  HeapOrder'
<1> DEFINE p == priority[n]
<1>1. p \in Places /\ elts[p] = n /\ key[n] \in Key
  BY DEF Contains, Ordered, TypeOK, Places
<1>2. key'[elts[p]] = k
      /\ \A j \in Places \ {p} : key'[elts[j]] = key[elts[j]]
  BY <1>1 DEF Ordered, QueueInv, Indexed, TypeOK
<1>3. Places' = Places /\ elts' = elts /\ pc' # "idle"
  BY DEF Places
<1> SUFFICES ASSUME NEW j \in Places \ {0}
             PROVE  /\ \/ ~Before(key'[elts[j]], key'[elts[Parent(j)]])
                       \/ pc' = "up" /\ j = p
                       \/ pc' = "down" /\ Parent(j) = p
                    /\ Parent(j) = p /\ p > 0
                         => ~Before(key'[elts[j]], key'[elts[Parent(p)]])
  BY <1>3 DEF HeapOrder, Less
<1>4. Parent(j) \in Places /\ Parent(j) # j /\ key[elts[j]] \in Key
      /\ key[elts[Parent(j)]] \in Key
  BY KeysOfPlaces
<1>5. ~Before(key[elts[j]], key[elts[Parent(j)]])
  BY DEF Ordered, QueueInv, HeapOrder, Less
<1>6. \/ ~Before(key'[elts[j]], key'[elts[Parent(j)]])
      \/ pc' = "up" /\ j = p
      \/ pc' = "down" /\ Parent(j) = p
  <2>1. CASE p \notin {j, Parent(j)}
    BY <2>1, <1>2, <1>4, <1>5
  <2>2. CASE p = Parent(j) /\ pc' = "up"
    <3>1. ~Before(key[n], k)
      BY <2>2, <1>1, WeakOrder
    <3>2. ~Before(key[elts[j]], k)
      BY <3>1, <2>2, <1>1, <1>4, <1>5, WeakOrder
    <3> QED
      BY <3>2, <2>2, <1>2, <1>4
  <2>3. CASE p = j /\ pc' = "down"
    <3>1. ~Before(k, key[n])
      BY <2>3, <1>1, WeakOrder
    <3>2. ~Before(k, key[elts[Parent(j)]])
      BY <3>1, <2>3, <1>1, <1>4, <1>5, WeakOrder
    <3> QED
      BY <3>2, <2>3, <1>2, <1>4
  <2> QED
    BY <2>1, <2>2, <2>3
<1>7. ASSUME Parent(j) = p, p > 0
      PROVE  ~Before(key'[elts[j]], key'[elts[Parent(p)]])
  <2>1. p \in Places \ {0} /\ Parent(p) \in Places /\ Parent(p) < p /\ p < j
        /\ key[elts[Parent(p)]] \in Key
    BY <1>1, <1>7, KeysOfPlaces
  <2>2. ~Before(key[elts[p]], key[elts[Parent(p)]])
    BY <2>1 DEF Ordered, QueueInv, HeapOrder, Less
  <2>3. ~Before(key[elts[j]], key[elts[Parent(p)]])
    BY <2>1, <2>2, <1>1, <1>4, <1>5, <1>7, WeakOrder
  <2>4. Parent(p) # p /\ j # p
    <3>1. Places \subseteq Nat
      BY KeysOfPlaces
    <3>2. p \in Nat /\ Parent(p) \in Nat
      BY <3>1, <2>1
    <3>3. Parent(p) < p
      BY <2>1
    <3>4. Parent(p) # p
      BY <3>2, <3>3
    <3> QED
      BY <3>4, <1>4, <1>7
  <2> QED
    BY <2>1, <2>3, <2>4, <1>2
<1> QED
  BY <1>6, <1>7

LEMMA MembershipNext == TypeOK' /\ Indexed' => ContainsIsMembership'
<1>1. TypeOK /\ Indexed => ContainsIsMembership
  BY Membership
<1> QED
  BY <1>1, PTL

LEMMA PushQueue ==
  ASSUME Ordered, NEW n \in Node, Push(n), key' \in [Node -> Key],
         \A m \in Items : key'[m] = key[m]
  PROVE  Ordered' /\ Items' = Items \cup {n}
<1>1. TypeOK' /\ Indexed' /\ Items' = Items \cup {n}
  BY PushType, PushFacts DEF Ordered, QueueInv
<1> QED
  BY <1>1, PushOrder, MembershipNext DEF Ordered, QueueInv

LEMMA PopQueue ==
  ASSUME Ordered, Pop, key' \in [Node -> Key],
         \A m \in Items \ {elts[0]} : key'[m] = key[m]
  PROVE  Ordered' /\ Items' = Items \ {elts[0]} /\ elts[0] \in Items
<1>1. TypeOK' /\ Indexed' /\ Items' = Items \ {elts[0]} /\ elts[0] \in Items
  BY PopType, PopFacts DEF Ordered, QueueInv
<1> QED
  BY <1>1, PopOrder, MembershipNext DEF Ordered, QueueInv

\* The queue is left alone, and so are the keys of its elements.
LEMMA KeepQueue ==
  ASSUME Ordered, key' \in [Node -> Key], \A m \in Items : key'[m] = key[m],
         UNCHANGED <<priority, elts, queuesize, maxsize, pc, index>>,
         popped' \in Node \cup {Null}
  PROVE  Ordered' /\ Items' = Items
<1>1. TypeOK'
  BY DEF Ordered, TypeOK
<1>2. Places' = Places /\ Items' = Items /\ Indexed'
  BY DEF Ordered, QueueInv, Indexed, Places, Items
<1>3. \A j \in Places : key'[elts[j]] = key[elts[j]]
  BY DEF Items
<1>4. \A j \in Places \ {0} : Parent(j) \in Places /\ Parent(j) < j /\ j \in Nat
  BY KeysOfPlaces
<1>5. HeapOrder'
  <2> SUFFICES ASSUME NEW k \in Places \ {0}
               PROVE  /\ \/ ~Less(k, Parent(k))'
                         \/ pc = "up" /\ k = index
                         \/ pc = "down" /\ Parent(k) = index
                      /\ pc # "idle" /\ Parent(k) = index /\ index > 0
                           => ~Less(k, Parent(index))'
    BY <1>2 DEF HeapOrder, Parent
  <2>1. Less(k, Parent(k))' <=> Less(k, Parent(k))
    BY <1>3, <1>4 DEF Less, Parent
  <2>2. ASSUME Parent(k) = index, index > 0
        PROVE  Less(k, Parent(index))' <=> Less(k, Parent(index))
    <3>1. index \in Places \ {0} /\ Parent(index) \in Places
      BY <2>2, <1>4
    <3> QED
      BY <3>1, <1>3 DEF Less, Parent
  <2> QED
    BY <2>1, <2>2 DEF Ordered, QueueInv, HeapOrder
<1> QED
  BY <1>1, <1>2, <1>5, MembershipNext DEF Ordered, QueueInv

LEMMA ClearQueue ==
  ASSUME Ordered, Clear, key' \in [Node -> Key]
  PROVE  Ordered' /\ Items' = {}
<1>1. TypeOK' /\ Places' = {}
  BY DEF Clear, Ordered, TypeOK, Places
<1>2. Indexed' /\ HeapOrder' /\ Items' = {}
  BY <1>1 DEF Indexed, HeapOrder, Items
<1> QED
  BY <1>1, <1>2, MembershipNext DEF Ordered, QueueInv

\* A key in the queue falls or rises.
LEMMA RekeyQueue ==
  ASSUME Ordered, NEW n \in Node, NEW k \in Key,
         DecreaseKey(n, k) \/ IncreaseKey(n, k)
  PROVE  Ordered' /\ Items' = Items
<1>1. /\ pc = "idle" /\ Contains(n) /\ index' = priority[n]
      /\ key' = [key EXCEPT ![n] = k]
      /\ UNCHANGED <<priority, elts, queuesize, maxsize, popped>>
      /\ pc' \in {"up", "down"}
  BY DEF DecreaseKey, IncreaseKey
<1>2. key[n] \in Key
  BY DEF Ordered, TypeOK
<1>3. \/ pc' = "up" /\ Before(k, key[n])
      \/ pc' = "down" /\ Before(key[n], k)
  <2>1. CASE DecreaseKey(n, k)
    BY <2>1, <1>2, QueueAssumption DEF DecreaseKey, Before, Key
  <2>2. CASE IncreaseKey(n, k)
    BY <2>2, <1>2, QueueAssumption DEF IncreaseKey, Before, Key
  <2> QED
    BY <2>1, <2>2
<1>4. HeapOrder'
  BY <1>1, <1>2, <1>3, RekeyOrder
<1>5. Indexed' /\ Items' = Items
  BY <1>1 DEF Ordered, QueueInv, Indexed, Places, Items
<1>6. TypeOK'
  BY <1>1 DEF Ordered, TypeOK, Contains
<1> QED
  BY <1>4, <1>5, <1>6, MembershipNext DEF Ordered, QueueInv

\* A step of heapify.
LEMMA HeapifyQueue ==
  ASSUME Ordered, Up \/ Down
  PROVE  Ordered' /\ Items' = Items
<1>1. TypeOK'
  BY TypeStep DEF Ordered, QueueInv, Next
<1>2. HeapOrder'
  BY UpOrder, DownOrder
<1>3. CASE Return
  BY <1>1, <1>2, <1>3, MembershipNext
     DEF Return, Ordered, QueueInv, Indexed, Places, Items
<1>4. CASE ~Return
  <2>1. Indexed' /\ Items' = Items
    BY <1>4, SwapPlaces, SwapFacts DEF Up, Down, Ordered, QueueInv
  <2> QED
    BY <1>1, <1>2, <2>1, MembershipNext DEF Ordered, QueueInv
<1> QED
  BY <1>3, <1>4

LEMMA QueueStep ==
  ASSUME TypeOK, QueueInv, [Next]_vars
  PROVE  QueueInv'
<1>1. Ordered
  BY DEF Ordered
<1>2. key \in [Node -> Key] /\ popped \in Node \cup {Null}
  BY DEF TypeOK
<1> SUFFICES Ordered'
  BY DEF Ordered
<1>3. ASSUME NEW n \in Node, Push(n), UNCHANGED key
      PROVE  Ordered'
  BY <1>1, <1>2, <1>3, PushQueue
<1>4. CASE Pop /\ UNCHANGED key
  BY <1>1, <1>2, <1>4, PopQueue
<1>5. CASE PopNothing /\ UNCHANGED key
  BY <1>1, <1>2, <1>5, KeepQueue DEF PopNothing
<1>6. CASE Clear /\ UNCHANGED key
  BY <1>1, <1>2, <1>6, ClearQueue
<1>7. ASSUME NEW n \in Node, NEW k \in Keys,
             DecreaseKey(n, k) \/ IncreaseKey(n, k)
      PROVE  Ordered'
  BY <1>1, <1>7, RekeyQueue, QueueAssumption
<1>8. ASSUME NEW n \in Node, NEW k \in Keys, Rekey(n, k)
      PROVE  Ordered'
  <2>1. n \notin Items /\ key' = [key EXCEPT ![n] = k] /\ k \in Key
    BY <1>8, QueueAssumption DEF Rekey, QueueInv, ContainsIsMembership
  <2>2. key' \in [Node -> Key] /\ \A m \in Items : key'[m] = key[m]
    BY <2>1, <1>2 DEF QueueInv, Indexed, Items
  <2>3. UNCHANGED <<priority, elts, queuesize, maxsize, pc, index, popped>>
    BY <1>8 DEF Rekey
  <2> QED
    BY <1>1, <1>2, <2>2, <2>3, KeepQueue
<1>9. CASE Up \/ Down
  BY <1>1, <1>9, HeapifyQueue
<1>10. CASE UNCHANGED vars
  BY <1>1, <1>2, <1>10, KeepQueue DEF vars
<1> QED
  BY <1>3, <1>4, <1>5, <1>6, <1>7, <1>8, <1>9, <1>10 DEF Next, Operation

LEMMA QueueInit ==
  ASSUME Init
  PROVE  TypeOK /\ QueueInv
<1>1. Places = {} /\ TypeOK
  BY TypeInit DEF Init, Places
<1>2. Indexed /\ HeapOrder
  BY <1>1 DEF Indexed, HeapOrder
<1> QED
  BY <1>1, <1>2, Membership DEF QueueInv

(* The variables of the heap keep their types.                             *)
THEOREM TypeCorrect == Spec => []TypeOK
<1>1. TypeOK /\ QueueInv /\ [Next]_vars => (TypeOK /\ QueueInv)'
  BY TypeStep, QueueStep DEF QueueInv
<1> QED
  BY <1>1, QueueInit, PTL DEF Spec

(* Elements know their places, contains() is membership, and no element    *)
(* precedes its parent but where heapify is at work: after any sequence of *)
(* calls, and in the middle of one.                                        *)
THEOREM QueueCorrect == Spec => []QueueInv
<1>1. TypeOK /\ QueueInv /\ [Next]_vars => (TypeOK /\ QueueInv)'
  BY TypeStep, QueueStep DEF QueueInv
<1> QED
  BY <1>1, QueueInit, PTL DEF Spec

-----------------------------------------------------------------------------
(* The abstract queue.                                                     *)

(* The top of a heap precedes or equals every element: otherwise the least *)
(* place of an element that precedes the top has a parent that does.       *)
LEMMA TopIsFirst ==
  ASSUME TypeOK, QueueInv, pc = "idle", NEW m \in Items
  PROVE  ~Before(key[m], key[elts[0]])
<1> DEFINE T == {k \in Places : Less(k, 0)}
<1>1. Places \subseteq Nat /\ Ordered
  BY KeysOfPlaces DEF Ordered
<1>2. ASSUME T # {}
      PROVE  FALSE
  <2>1. PICK k \in T : \A j \in T : k <= j
    BY <1>1, <1>2, SmallestOf
  <2>2. k \in Places /\ 0 \in Places /\ Less(k, 0)
    <3>1. k \in Places /\ Less(k, 0)
      BY <2>1
    <3>2. queuesize \in Nat /\ k \in Nat
      BY <3>1, <1>1 DEF TypeOK
    <3> QED
      BY <3>1, <3>2 DEF Places
  <2>3. k # 0
    BY <1>1, <2>2, LessOrder
  <2>4. Parent(k) \in Places /\ Parent(k) < k /\ ~Less(k, Parent(k))
    BY <1>1, <2>2, <2>3, KeysOfPlaces DEF QueueInv, HeapOrder
  <2>5. Less(Parent(k), 0)
    BY <1>1, <2>2, <2>4, LessOrder
  <2>6. k \in Nat /\ Parent(k) \in Nat
    BY <1>1, <2>2, <2>4
  <2>7. k <= Parent(k)
    BY <2>1, <2>4, <2>5
  <2> QED
    BY <2>4, <2>6, <2>7
<1> QED
  BY <1>2 DEF Items, Less

LEMMA PromiseStep ==
  ASSUME TypeOK, QueueInv, [Next]_vars
  PROVE  [Promise!Next]_(Promise!qvars)
<1> USE DEF Promise!Next, Promise!qvars
<1>1. ASSUME NEW n \in Node, Push(n), UNCHANGED key
      PROVE  Promise!Push(n)
  BY <1>1, PushFacts DEF Push, Promise!Push, QueueInv
<1>2. ASSUME Pop, UNCHANGED key
      PROVE  Promise!Pop
  <2>1. Items' = Items \ {elts[0]} /\ elts[0] \in Items
    BY <1>2, PopFacts DEF QueueInv
  <2>2. popped' = elts[0] /\ key' = key /\ pc = "idle"
    BY <1>2 DEF Pop
  <2>3. elts[0] \in Promise!Firsts
    BY <2>1, <2>2, TopIsFirst DEF Promise!Firsts, Promise!Before, Before
  <2> QED
    BY <2>1, <2>2, <2>3 DEF Promise!Pop
<1>3. ASSUME PopNothing, UNCHANGED key
      PROVE  Promise!Pop
  <2>1. Items = {} /\ Items' = {}
    BY <1>3 DEF PopNothing, Items, Places
  <2> QED
    BY <1>3, <2>1 DEF PopNothing, Promise!Pop
<1>4. ASSUME Clear, UNCHANGED key
      PROVE  Promise!Clear
  <2>1. Items' = {}
    BY <1>4 DEF Clear, Items, Places
  <2> QED
    BY <1>4, <2>1 DEF Clear, Promise!Clear
<1>5. ASSUME NEW n \in Node, NEW k \in Keys,
             DecreaseKey(n, k) \/ IncreaseKey(n, k) \/ Rekey(n, k)
      PROVE  Promise!Rekey(n)
  <2>1. key' = [key EXCEPT ![n] = k] /\ UNCHANGED <<elts, queuesize, popped>>
    BY <1>5 DEF DecreaseKey, IncreaseKey, Rekey
  <2>2. k \in Key
    BY QueueAssumption
  <2> QED
    BY <2>1, <2>2
    DEF Promise!Rekey, Promise!Key, Key, TypeOK, Items, Places
<1>6. ASSUME Up \/ Down
      PROVE  UNCHANGED <<key, Items, popped>>
  <2>1. CASE Up
    BY <2>1, SwapPlaces, SwapFacts
    DEF Up, QueueInv, Return, Swap, Items, Places
  <2>2. CASE Down
    BY <2>2, SwapPlaces, SwapFacts
    DEF Down, QueueInv, Return, Swap, Items, Places
  <2> QED
    BY <1>6, <2>1, <2>2
<1>7. ASSUME UNCHANGED vars
      PROVE  UNCHANGED <<key, Items, popped>>
  BY <1>7 DEF vars, Items, Places
<1> QED
  BY <1>1, <1>2, <1>3, <1>4, <1>5, <1>6, <1>7 DEF Next, Operation

LEMMA PromiseInit ==
  ASSUME Init
  PROVE  Promise!Init
  BY QueueAssumption
  DEF Init, Promise!Init, Promise!Key, Key, Items, Places

(* The heap implements the abstract priority queue: no operation loses,    *)
(* doubles or invents an element, and pop returns one that no other        *)
(* precedes.                                                               *)
THEOREM HeapKeepsPromise == Spec => IsAPriorityQueue
<1>1. TypeOK /\ QueueInv /\ [Next]_vars => [Promise!Next]_(Promise!qvars)
  BY PromiseStep
<1> QED
  BY <1>1, PromiseInit, TypeCorrect, QueueCorrect, PTL
  DEF Spec, IsAPriorityQueue, Promise!Spec
=============================================================================
