------------------------------- MODULE CPool -------------------------------
(***************************************************************************)
(* cpool and its cchunks: memory for objects of one size.  A chunk hands   *)
(* out its objects in order, and then those on its stack of freed ones.    *)
(* Addresses count objects.  The build is one with NDEBUG: the assertions  *)
(* of cchunk are the wrong way round and stop every other build at the     *)
(* first object that is freed and not the first of its chunk.              *)
(***************************************************************************)
EXTENDS Integers, Sequences

CONSTANTS
  Slots,        \* objects in a chunk
  InitChunks,   \* max_chunks argument of the constructor
  ChunkLimit,   \* BOUND: number of chunks
  Bases,        \* BOUND: addresses that operator new returns
  Width,        \* 2^32, by which deallocate takes its difference
  Null

Objects(base) == base .. base + Slots - 1

ASSUME PoolAssumption ==
  /\ Slots \in Nat \ {0} /\ InitChunks \in Nat \ {0} /\ ChunkLimit \in Nat
  /\ Bases \subseteq Nat
  /\ Width \in Nat \ {0}
  /\ Null \notin Nat

\* The chunks of a pool lie within 4 GB.
ASSUME WidthAssumption == \A b \in Bases : b + Slots <= Width

VARIABLES
  mem, next, freed,    \* fields of the chunks, by chunk
  current,             \* current_chunk_
  maxchunks,           \* max_chunks_
  live,                \* objects the user has
  addr                 \* result of the latest allocate

vars == <<mem, next, freed, current, maxchunks, live, addr>>

Chunk == DOMAIN mem

Apart(a, b) == Objects(a) \cap Objects(b) = {}

Init ==
  /\ mem \in [1 .. InitChunks -> Bases]
  /\ \A j, k \in Chunk : j # k => Apart(mem[j], mem[k])
  /\ next = [k \in Chunk |-> 0]
  /\ freed = [k \in Chunk |-> <<>>]
  /\ current = 1 /\ maxchunks = InitChunks
  /\ live = {} /\ addr = Null

-----------------------------------------------------------------------------
\* Mutant: freed objects are forgotten.
HasFresh(k) == next[k] < Slots

\* cchunk::allocate finds something.
HasRoom(k) == next[k] < Slots \/ freed[k] # <<>>

\* The current chunk, or else the first one with room.
Chosen(k) ==
  /\ HasRoom(k)
  /\ k # current =>
       ~HasRoom(current) /\ \A j \in Chunk : j < k => ~HasRoom(j)

AllocateFrom(k) ==
  /\ Chosen(k)
  /\ IF next[k] < Slots
     THEN /\ addr' = mem[k] + next[k]
          /\ next' = [next EXCEPT ![k] = @ + 1]
          /\ UNCHANGED freed
     ELSE /\ addr' = mem[k] + freed[k][Len(freed[k])]
          /\ freed' = [freed EXCEPT ![k] = SubSeq(@, 1, Len(@) - 1)]
          /\ UNCHANGED next
  /\ current' = k
  /\ live' = live \cup {addr'}
  /\ UNCHANGED <<mem, maxchunks>>

\* add_chunk, in a larger table if need be, and its first object.
AllocateNew(base) ==
  /\ \A k \in Chunk : ~HasRoom(k)
  /\ Len(mem) < ChunkLimit
  /\ \A k \in Chunk : Apart(base, mem[k])
  /\ mem' = Append(mem, base)
  /\ next' = Append(next, 1)
  /\ freed' = Append(freed, <<>>)
  /\ current' = Len(mem) + 1
  /\ maxchunks' = IF Len(mem) < maxchunks THEN maxchunks ELSE maxchunks * 2
  /\ addr' = base
  /\ live' = live \cup {base}

\* Mutant: the difference is not taken unsigned.
HoldsSigned(k, a) == a - mem[k] < Slots

\* (unsigned)(addr - first_addr()) < pool_size()
Holds(k, a) == (a - mem[k]) % Width < Slots

\* The user gives back an object that it has; the first chunk that takes
\* the address for one of its own puts it on its stack.
Deallocate(a) ==
  /\ a \in live
  /\ \E k \in Chunk :
       /\ Holds(k, a) /\ \A j \in Chunk : j < k => ~Holds(j, a)
       /\ freed' = [freed EXCEPT ![k] = Append(@, a - mem[k])]
  /\ live' = live \ {a}
  /\ UNCHANGED <<mem, next, current, maxchunks, addr>>

\* Mutant: the stacks of freed objects survive.
KeptStacks == freed

NoStacks == [k \in Chunk |-> <<>>]

Reclaim ==
  /\ next' = [k \in Chunk |-> 0]
  /\ freed' = NoStacks
  /\ live' = {}
  /\ UNCHANGED <<mem, current, maxchunks, addr>>

Next ==
  \/ \E k \in Chunk : AllocateFrom(k)
  \/ \E base \in Bases : AllocateNew(base)
  \/ \E a \in live : Deallocate(a)
  \/ Reclaim

Spec == Init /\ [][Next]_vars

-----------------------------------------------------------------------------
TypeOK ==
  /\ mem \in Seq(Bases) /\ Len(mem) >= 1 /\ Len(mem) <= maxchunks
  /\ next \in [Chunk -> 0 .. Slots]
  /\ freed \in [Chunk -> Seq(0 .. Slots - 1)]
  /\ current \in Chunk
  /\ maxchunks \in Nat
  /\ live \subseteq Nat
  /\ addr \in Nat \cup {Null}

InStack(k, o) == \E p \in 1 .. Len(freed[k]) : freed[k][p] = o

(* Chunks do not overlap; an object that was handed out is either with the *)
(* user or once on the stack of its own chunk.                             *)
PoolInv ==
  /\ \A j, k \in Chunk : j # k => Apart(mem[j], mem[k])
  /\ \A k \in Chunk : \A p \in 1 .. Len(freed[k]) :
       /\ freed[k][p] < next[k]
       /\ \A q \in 1 .. Len(freed[k]) : freed[k][p] = freed[k][q] => p = q
  /\ live \subseteq UNION {Objects(mem[k]) : k \in Chunk}
  /\ \A k \in Chunk, o \in 0 .. Slots - 1 :
       mem[k] + o \in live <=> o < next[k] /\ ~InStack(k, o)

(* The stack of a chunk, whose memory is never checked or enlarged, has    *)
(* room for every object that is put on it.                                *)
StackFits == \A k \in Chunk : Len(freed[k]) <= Slots

(* Memory is only added to the pool when the user has every object of it.  *)
GrowsWhenFull ==
  [][Len(mem') > Len(mem) => live = UNION {Objects(mem[k]) : k \in Chunk}]_vars

Promise == INSTANCE Allocator WITH Object <- Nat

(* The pool keeps the promise of an allocator: no object is handed out     *)
(* that somebody has.                                                      *)
IsAnAllocator == Promise!Spec
=============================================================================
