------------------------------- MODULE PageAlloc -------------------------------
(***************************************************************************)
(* The first-fit page allocator, kern/mm/pmm/ff.c, behind the interface of *)
(* kern/mm/pmm/pmm.c.  Addresses and sizes are counted in page frames; the *)
(* alignment tests of the code become the parameter aligned.               *)
(*                                                                         *)
(* The callers (kmalloc, the slab allocator, the page tables, the address  *)
(* spaces and the boot code that donates memory) are one environment.  It  *)
(* releases any frames it owns, in runs that need not be the ones it was   *)
(* given: kfree() returns pages in other groupings than it got them.       *)
(***************************************************************************)
EXTENDS Integers, SequencesExt, FiniteSets

CONSTANTS
  RAM,      \* the page frames the boot code hands to the page allocator
  MaxSize,  \* largest request, in frames
  InPaddr   \* what pages->paddr may hold when alloc_pages() is called

ASSUME RAMAssumption == RAM \in SUBSET Nat /\ IsFiniteSet(RAM)
ASSUME MaxSizeAssumption == MaxSize \in Nat
ASSUME InPaddrAssumption == InPaddr \in SUBSET Nat

VARIABLES
  blocks,      \* the list at __head, as <<[paddr, size], ...>>
  free_space,  \* __free_space
  owned,       \* frames in the hands of callers
  reply,       \* what the last call returned, and the request it was for
  panicked     \* panic() was called: this CPU does nothing more

vars == <<blocks, free_space, owned, reply, panicked>>

-------------------------------------------------------------------------------
EOF == -1

Block == [paddr : Nat, size : Nat]

Frames(p, n) == p .. (p + n - 1)

(* The frames the blocks of list s cover. *)
ListFrames(s) == UNION {Frames(s[i].paddr, s[i].size) : i \in DOMAIN s}

FreeFrames == ListFrames(blocks)

get_free_memory == free_space

Reply(op, ret, paddr, size) ==
  reply' = [op |-> op, ret |-> ret, paddr |-> paddr, size |-> size]

Init ==
  /\ blocks = <<>>
  /\ free_space = 0
  /\ owned = RAM
  /\ reply = [op |-> "init", ret |-> 0, paddr |-> 0, size |-> 0]
  /\ panicked = FALSE

-------------------------------------------------------------------------------
(***************************************************************************)
(* __alloc(pages): paddr is what pages->paddr holds at the call.           *)
(***************************************************************************)
(* Mutant: the search passes over a block of exactly the size. *)
FitsStrict(size) == {i \in DOMAIN blocks : blocks[i].size > size}

(* Indices of the blocks that are large enough. *)
Fits(size) == {i \in DOMAIN blocks : blocks[i].size >= size}

(* Mutant: what is left of the block still starts at the frames handed out. *)
CutBack(i, size) ==
  IF blocks[i].size = size
  THEN RemoveAt(blocks, i)
  ELSE ReplaceAt(blocks, i, [paddr |-> blocks[i].paddr, size |-> blocks[i].size - size])

(* Take size frames off the front of block i, which goes when it is empty. *)
Cut(i, size) ==
  IF blocks[i].size = size
  THEN RemoveAt(blocks, i)
  ELSE ReplaceAt(blocks, i, [paddr |-> blocks[i].paddr + size,
                             size  |-> blocks[i].size - size])

Alloc(size, aligned, paddr) ==
  /\ ~panicked
  /\ \/ /\ ~aligned                       \* return NULL, which is 0
        /\ Reply("misaligned", 0, 0, 0)
        /\ UNCHANGED <<blocks, free_space, owned>>
     \/ /\ aligned /\ size > free_space    \* return NULL, which is 0
        /\ Reply("alloc", 0, paddr, size)
        /\ UNCHANGED <<blocks, free_space, owned>>
     \/ /\ aligned /\ size <= free_space /\ Fits(size) = {}
        /\ Reply("alloc", EOF, paddr, size)
        /\ UNCHANGED <<blocks, free_space, owned>>
     \/ /\ aligned /\ size <= free_space /\ Fits(size) # {}
        /\ LET i == Min(Fits(size)) IN
             /\ blocks' = Cut(i, size)
             /\ owned' = owned \cup Frames(blocks[i].paddr, size)
             /\ Reply("alloc", 0, blocks[i].paddr, size)
        /\ free_space' = free_space - size
  /\ UNCHANGED panicked

-------------------------------------------------------------------------------
(***************************************************************************)
(* __free(pages)                                                           *)
(***************************************************************************)
(* How many blocks the search passes: it stops at the first paddr >= p. *)
Before(p) ==
  LET later == {i \in DOMAIN blocks : blocks[i].paddr >= p}
  IN  IF later = {} THEN Len(blocks) ELSE Min(later) - 1

(* Block i of list s absorbs its successor when that starts where i ends. *)
Touching(s, i) ==
  /\ i \in 1 .. (Len(s) - 1)
  /\ s[i].paddr + s[i].size = s[i + 1].paddr

(* Mutant: neighbours are never merged. *)
MergeNever(s, i) == s

(* Mutant: the merge drops the size of the block it removes. *)
MergeDropsSize(s, i) == IF Touching(s, i) THEN RemoveAt(s, i + 1) ELSE s

Merge(s, i) ==
  IF Touching(s, i)
  THEN RemoveAt(ReplaceAt(s, i, [paddr |-> s[i].paddr,
                                 size  |-> s[i].size + s[i + 1].size]), i + 1)
  ELSE s

(* Mutant: without the downward merge. *)
InsertUpOnly(p, n) ==
  LET k == Before(p)
  IN  Merge(InsertAt(blocks, k + 1, [paddr |-> p, size |-> n]), k + 1)

(* Insert after the k blocks passed, merge downwards, then merge upwards the
   block that now holds the pages. *)
Insert(p, n) ==
  LET k      == Before(p)
      listed == InsertAt(blocks, k + 1, [paddr |-> p, size |-> n])
      this   == IF Touching(listed, k) THEN k ELSE k + 1
  IN  Merge(Merge(listed, k), this)

Free(p, n, aligned) ==
  /\ ~panicked
  /\ n > 0
  /\ Frames(p, n) \subseteq owned
  /\ \/ /\ ~aligned
        /\ Reply("misaligned", 0, 0, 0)
        /\ UNCHANGED <<blocks, free_space, owned, panicked>>
     \/ /\ aligned                        \* kmalloc() of the list node fails
        /\ panicked' = TRUE
        /\ UNCHANGED <<blocks, free_space, owned, reply>>
     \/ /\ aligned
        /\ blocks' = Insert(p, n)
        /\ free_space' = free_space + n
        /\ owned' = owned \ Frames(p, n)
        /\ Reply("free", 0, p, n)
        /\ UNCHANGED panicked

(* panic() never returns. *)
Panic == panicked /\ UNCHANGED vars

Next ==
  \/ \E n \in 0 .. MaxSize, aligned \in BOOLEAN :
       \/ \E p \in InPaddr : Alloc(n, aligned, p)
       \/ \E p \in RAM : Free(p, n, aligned)
  \/ Panic

Spec == Init /\ [][Next]_vars

-------------------------------------------------------------------------------
(* The types of the variables; sizes and addresses are never negative, which
   in the code would be a wrapped addr_t. *)
TypeOK ==
  /\ blocks \in Seq(Block)
  /\ free_space \in Nat
  /\ owned \in SUBSET RAM
  /\ reply \in [op : {"init", "alloc", "free", "misaligned"}, ret : {0, EOF},
                paddr : Nat, size : Nat]
  /\ panicked \in BOOLEAN

(* No frame is both on the free list and in the hands of a caller, and none
   is lost: __alloc() cuts exactly what it hands out, and the insertion and
   the two merges of __free() list exactly what was given back. *)
FramesPartitioned ==
  /\ FreeFrames \cap owned = {}
  /\ FreeFrames \cup owned = RAM

(* The list is in address order, has no empty block, and no two neighbours
   touch: the merges of __free() leave no pair that should be one block. *)
ListCoalesced ==
  /\ \A i \in DOMAIN blocks : blocks[i].size > 0
  /\ \A i, j \in DOMAIN blocks :
       i < j => blocks[i].paddr + blocks[i].size < blocks[j].paddr

(* get_free_memory() is the number of free frames. *)
AccountExact == get_free_memory = Cardinality(FreeFrames)

(* alloc_pages() returns EOF only when no run of free frames is as long as the
   request: first fit over a list that keeps free neighbours merged misses
   nothing. *)
EOFMeansNoRun ==
  reply.op = "alloc" /\ reply.ret = EOF /\ reply.size > 0 =>
    ~ \E p \in FreeFrames : Frames(p, reply.size) \subseteq FreeFrames

(* The list implements the set of free frames: see FrameStore. *)
Store == INSTANCE FrameStore WITH free <- FreeFrames
StoreSpec == Store!Spec
===============================================================================
