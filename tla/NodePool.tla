------------------------------ MODULE NodePool ------------------------------
(***************************************************************************)
(* node_pool: the search_node records of an expansion policy, in blocks    *)
(* that a cpool supplies when the first record of a block is asked for.    *)
(* An object of the pool is a block; a pointer is a block and an index.    *)
(* Of a record only the id and the search number are kept.                 *)
(***************************************************************************)
EXTENDS CPool

CONSTANTS
  NBS,       \* records in a block
  NumNodes,  \* num_nodes argument of the constructor
  Ids,       \* ids that are asked for
  Nums,      \* search numbers of searches
  Unused     \* that of a record which no search has used, UINT32_MAX

BlockOf(d) == d \div NBS

ListId(d) == d % NBS

num_blocks == NumNodes \div NBS + 1

(* The ids from num_nodes to the end of the last block, which have records *)
(* although the policy's comments promise null for them, and those of the  *)
(* block right after the table, which `block_id > num_blocks_' lets        *)
(* through to a word outside it, are not asked for: ids are in the pool,   *)
(* or far beyond it.                                                       *)
ASSUME NodesAssumption ==
  /\ InitChunks = 1
  /\ NBS \in Nat \ {0} /\ NumNodes \in Nat
  /\ Ids \subseteq Nat
  /\ \A d \in Ids : d < NumNodes \/ BlockOf(d) > num_blocks
  /\ Unused \notin Nums /\ Null \notin Nat \X Nat

VARIABLES
  blocks,   \* blocks_
  memory,   \* contents of the blocks
  ptr,      \* result of the latest call
  ptrs      \* pointers that were returned

nvars == <<vars, blocks, memory, ptr, ptrs>>

InitNodes ==
  /\ Init
  /\ blocks = [b \in 0 .. num_blocks - 1 |-> Null]
  /\ memory = <<>> /\ ptr = Null /\ ptrs = {}

-----------------------------------------------------------------------------
\* Mutant: the ids of a block are counted from the one that is asked for.
FirstIdAsked(d) == d

FirstId(d) == d - ListId(d)

\* The constructors of a block.
Constructed(d) ==
  [o \in 0 .. NBS - 1 |-> [id |-> FirstId(d) + o, num |-> Unused]]

\* Mutant: every call makes a block.
LacksAlways(d) == BlockOf(d) < num_blocks

\* The id is in the address range, but its block is not there yet.
Lacks(d) == BlockOf(d) < num_blocks /\ blocks[BlockOf(d)] = Null

OutOfRange(d) == BlockOf(d) > num_blocks

Present(d) == ~Lacks(d) /\ ~OutOfRange(d)

Record(p) == memory[p[1]][p[2]]

Return(p) ==
  /\ ptr' = p
  /\ ptrs' = IF p = Null THEN ptrs ELSE ptrs \cup {p}

\* generate: a new block, by `allocate' of the pool
GenerateBlock(d) ==
  /\ Lacks(d)
  /\ \/ \E k \in Chunk : AllocateFrom(k)
     \/ \E base \in Bases : AllocateNew(base)
  /\ blocks' = [blocks EXCEPT ![BlockOf(d)] = addr']
  /\ memory' = [a \in DOMAIN memory \cup {addr'} |->
                 IF a = addr' THEN Constructed(d) ELSE memory[a]]
  /\ Return(<<addr', ListId(d)>>)

\* generate: the block is there, or the id is out of range
Generate(d) ==
  /\ ~Lacks(d)
  /\ Return(IF OutOfRange(d) THEN Null ELSE <<blocks[BlockOf(d)], ListId(d)>>)
  /\ UNCHANGED <<vars, blocks, memory>>

\* get_ptr of the pool and the test of the search number in the policy's
GetPtr(d, n) ==
  /\ LET p == <<blocks[BlockOf(d)], ListId(d)>>
     IN Return(IF Present(d) /\ Record(p).num = n THEN p ELSE Null)
  /\ UNCHANGED <<vars, blocks, memory>>

\* search_node::init by a search, through any pointer it was given
InitNode(p, n) ==
  /\ memory' = [memory EXCEPT ![p[1]][p[2]].num = n]
  /\ UNCHANGED <<vars, blocks, ptr, ptrs>>

NextNodes ==
  \/ \E d \in Ids :
       GenerateBlock(d) \/ Generate(d) \/ \E n \in Nums : GetPtr(d, n)
  \/ \E p \in ptrs, n \in Nums : InitNode(p, n)

SpecNodes == InitNodes /\ [][NextNodes]_nvars

-----------------------------------------------------------------------------
Pointer == Nat \X (0 .. NBS - 1)

NodesTypeOK ==
  /\ TypeOK
  /\ blocks \in [0 .. num_blocks - 1 -> Nat \cup {Null}]
  /\ DOMAIN memory = live
  /\ \A a \in live :
       memory[a] \in [0 .. NBS - 1 -> [id : Nat, num : Nums \cup {Unused}]]
  /\ ptr \in Pointer \cup {Null}
  /\ ptrs \subseteq Pointer

(* A record bears the id of its place, the memory of a block belongs to    *)
(* one entry of the table, and no block is left behind: every pointer ever *)
(* returned is the one that its id has now.                                *)
NodesInv ==
  /\ \A b \in DOMAIN blocks : blocks[b] # Null =>
       /\ blocks[b] \in live
       /\ \A o \in 0 .. NBS - 1 : memory[blocks[b]][o].id = b * NBS + o
  /\ \A b, c \in DOMAIN blocks :
       blocks[b] = blocks[c] /\ blocks[b] # Null => b = c
  /\ \A p \in ptrs : \E b \in DOMAIN blocks : p[1] = blocks[b]

-----------------------------------------------------------------------------
Known == {d \in Ids : d < NumNodes}

SearchNumber(d) ==
  IF blocks[BlockOf(d)] = Null THEN Unused
  ELSE memory[blocks[BlockOf(d)]][ListId(d)].num

Store == INSTANCE NodeStore WITH
  Id <- Ids, Num <- Nums,
  num <- [d \in Known |-> SearchNumber(d)],
  given <- IF ptr = Null THEN Null ELSE Record(ptr).id,
  held <- {Record(p).id : p \in ptrs}

(* Whatever the blocks and chunks do, searches see one record per id of    *)
(* the pool, the same one on every call, none for an id far beyond it, and *)
(* no write reaches the record of another id.                              *)
OneRecordPerId == Store!Spec
=============================================================================
