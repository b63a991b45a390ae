------------------------------- MODULE KernelHeap -------------------------------
(***************************************************************************)
(* kmalloc() and kfree() (kern/mm/vmm/flff.c) together with the page       *)
(* allocator (kern/mm/pmm/ff.c) they are entangled with: the heap gets its *)
(* pages from the page allocator, which keeps its list nodes in the heap.  *)
(* A call therefore may re-enter either allocator in the middle of a list  *)
(* operation.  The calls in progress are on a stack, and an action is what *)
(* a function does from one call to the next.                              *)
(*                                                                         *)
(* Memory is counted in units of ALLOC_ALIGN (16) bytes; virtual and       *)
(* physical addresses wrap at Space.  After a step whose outcome the C     *)
(* code leaves undefined, fault says why and nothing more happens.         *)
(***************************************************************************)
EXTENDS Integers, SequencesExt, FiniteSetsExt

CONSTANTS
  Page,      \* PAGE_SIZE
  Hdr,       \* sizeof(struct blockhdr)
  NodeSize,  \* sizeof(struct block) of ff.c, rounded to ALLOC_ALIGN
  Space,     \* size of the address space
  KOffset,   \* pa2kva(pa) - pa
  Workloads, \* [regions, sizes]: the memory add_memory_pages() donates, as
             \* <<[paddr, size], ...>>, and the sizes kmalloc() is called with
  Pool,      \* bootstrap_pool of master_init(): [addr, size]
  MaxPages   \* pages a client of alloc_pages() asks for at most

EOF == -1
NULL == -2

pa2kva(pa) == (pa + KOffset) % Space

ALIGN_ABOVE(x) == ((x + Page - 1) \div Page) * Page
ALIGN_BELOW(x) == (x \div Page) * Page

VARIABLES
  work,     \* the memory of this machine and the sizes its clients ask for
  free,     \* free["heap"] and free["pool"]: the lists at __head and
            \* __bootstrap_head of flff.c, which are sorted by address, as
            \* sets of [addr, size]
  use,      \* the list the current simple allocator works on
  live,     \* the allocated blocks
  held,     \* the pages the heap has got from the page allocator
  pages,    \* the list of ff.c: <<[paddr, size, node], ...>>, node being the
            \* address kmalloc() returned for the struct block
  space,    \* __free_space
  stack,    \* the calls in progress, innermost first
  ret,      \* what the last call returned, and what alloc_pages() handed out
  fault,    \* "none", or why the kernel stopped
  phase,    \* how far master_init() is
  objects,  \* what clients got from kmalloc() and still have
  frames    \* pages clients got from alloc_pages() and still have

heapvars == <<free, use, live, held>>
pagevars == <<pages, space>>
clients  == <<phase, objects, frames>>
vars     == <<work, heapvars, pagevars, stack, ret, fault, clients>>

Regions == work.regions

Answer(value, granted, paddr) == [value |-> value, granted |-> granted, paddr |-> paddr]

Init ==
  /\ work \in Workloads
  /\ free = [heap |-> {}, pool |-> {Pool}]
  /\ use = "pool"
  /\ live = {}
  /\ held = {}
  /\ pages = <<>>
  /\ space = 0
  /\ stack = <<>>
  /\ ret = Answer(0, FALSE, 0)
  /\ fault = "none"
  /\ phase = 1
  /\ objects = {}
  /\ frames = {}

-------------------------------------------------------------------------------
kmalloc(size)          == [at |-> "kmalloc", size |-> size]
kfree(list, obj)       == [at |-> "kfree", list |-> list, obj |-> obj]
alloc_pages(size)      == [at |-> "alloc_pages", size |-> size]
free_pages(paddr, size) == [at |-> "free_pages", paddr |-> paddr, size |-> size]

Top == Head(stack)
At(place) == stack # <<>> /\ fault = "none" /\ Top.at = place

(* The function at the top of the stack goes on as these calls. *)
Become(calls) == stack' = calls \o Tail(stack) /\ UNCHANGED <<ret, fault>>

Reply(answer) == stack' = Tail(stack) /\ ret' = answer /\ UNCHANGED fault

Return(value) == Reply(Answer(value, FALSE, 0))

Stop(why) == fault' = why /\ UNCHANGED <<stack, ret, heapvars, pagevars>>

(* The whole pages of units a .. a + n - 1. *)
WholePages(a, n) == {p \in a .. (a + n - 1) : p % Page = 0}

-------------------------------------------------------------------------------
(***************************************************************************)
(* __alloc() of flff.c                                                     *)
(***************************************************************************)
(* Mutant: the block is cut even when nothing remains of it. *)
CarveAlways(list, b, need) ==
  /\ free' = [free EXCEPT ![use] =
                (list \ {b}) \cup {[addr |-> b.addr + need, size |-> b.size - need]}]
  /\ live' = live \cup {[addr |-> b.addr, size |-> need]}
  /\ Return(b.addr + Hdr)

(* Cut block b of the list down to need units, if a block remains, and hand it
   out. *)
Carve(list, b, need) ==
  LET rest  == [addr |-> b.addr + need, size |-> b.size - need]
      split == rest.size >= Hdr + 1
  IN  /\ free' = [free EXCEPT ![use] = (list \ {b}) \cup IF split THEN {rest} ELSE {}]
      /\ live' = live \cup {[b EXCEPT !.size = IF split THEN need ELSE b.size]}
      /\ Return(b.addr + Hdr)

KmallocStep ==
  LET need == Top.size + Hdr
      fits == {b \in free[use] : b.size >= need}
  IN  /\ At("kmalloc")
      /\ \/ \E b \in fits : /\ \A x \in fits : b.addr <= x.addr
                           /\ Carve(free[use], b, need)
                           /\ UNCHANGED <<use, held>>
         \/ /\ fits = {}
            /\ Become(<<alloc_pages(ALIGN_ABOVE(Top.size)), [at |-> "grow", size |-> Top.size]>>)
            /\ UNCHANGED heapvars
      /\ UNCHANGED <<pagevars, clients>>

(* alloc_pages() has returned.  When it answers 0 without handing out pages the
   heap starts to use page 0; a page listed by its virtual address is mapped to
   a wild one; and the new block may be too small, since want has no room for
   the header: newsize wraps. *)
Grow ==
  LET want == ALIGN_ABOVE(Top.size)
      new  == [addr |-> pa2kva(ret.paddr), size |-> want]
  IN  /\ At("grow")
      /\ \/ /\ ret.value = EOF
            /\ Return(NULL)
            /\ UNCHANGED heapvars
         \/ /\ ret.value = 0 /\ ret.granted /\ ret.paddr < KOffset /\ want >= Top.size + Hdr
            /\ held' = held \cup WholePages(new.addr, want)
            /\ Carve(free[use] \cup {new}, new, Top.size + Hdr)
            /\ UNCHANGED use
         \/ ret.value = 0 /\ ~ret.granted /\ Stop("page 0")
         \/ ret.value = 0 /\ ret.paddr >= KOffset /\ Stop("wild address")
         \/ ret.value = 0 /\ want < Top.size + Hdr /\ Stop("underflow")
      /\ UNCHANGED <<pagevars, clients>>

(***************************************************************************)
(* __free() of flff.c.  The slices around the pages that are returned get  *)
(* a header of their own, which overwrites what follows a slice too short  *)
(* for it.                                                                 *)
(***************************************************************************)
(* Mutant: neighbours are taken off the list but their size is forgotten. *)
MergedDropsSize(this, near) == [addr |-> Min({x.addr : x \in near}), size |-> this.size]

(* The block this, grown by its direct neighbours; near is all of them. *)
Merged(this, near) ==
  [addr |-> Min({x.addr : x \in near}), size |-> MapThenSumSet(LAMBDA x : x.size, near)]

KfreeStep ==
  /\ At("kfree")
  /\ \E this \in live :
       LET list  == free[Top.list]
           near  == {this} \cup {x \in list : \/ x.addr + x.size = this.addr
                                            \/ this.addr + this.size = x.addr}
           b     == Merged(this, near)
           end   == b.addr + b.size
           first == ALIGN_ABOVE(b.addr)
           last  == ALIGN_BELOW(end)
           lower == [addr |-> b.addr, size |-> first - b.addr]
           upper == [addr |-> last, size |-> end - last]
           slices == {x \in {lower, upper} : x.size > 0}
       IN  /\ this.addr = Top.obj - Hdr
           /\ live' = live \ {this}
           /\ \/ /\ first >= last
                 /\ free' = [free EXCEPT ![Top.list] = (list \ near) \cup {b}]
                 /\ Return(0)
                 /\ UNCHANGED <<use, held, pagevars>>
              \/ /\ first < last
                 /\ free' = [free EXCEPT ![Top.list] = (list \ near) \cup slices]
                 /\ held' = held \ WholePages(first, last - first)
                 /\ IF \E x \in slices : x.size < Hdr
                    THEN fault' = "spill" /\ UNCHANGED <<stack, ret>>
                    ELSE Become(<<free_pages(first, last - first)>>)
                 /\ UNCHANGED <<use, pagevars>>
  /\ UNCHANGED clients

-------------------------------------------------------------------------------
(***************************************************************************)
(* __alloc() of ff.c; sizes are multiples of Page.                         *)
(***************************************************************************)
(* Mutant: __free() does not count what it gets. *)
CountDown(n) == space' = IF n > 0 THEN space ELSE space + n

(* __free_space is adjusted by n. *)
Count(n) == space' = space + n

AllocPagesStep ==
  LET size == Top.size
      fits == {i \in DOMAIN pages : pages[i].size >= size}
      i    == Min(fits)
      b    == pages[i]
  IN  /\ At("alloc_pages")
      /\ \/ /\ size > space
            /\ Return(0)
            /\ UNCHANGED pagevars
         \/ /\ size <= space /\ fits = {}
            /\ Return(EOF)
            /\ UNCHANGED pagevars
         \/ /\ size <= space /\ fits # {} /\ b.size > size
            /\ pages' = [pages EXCEPT ![i].paddr = @ + size, ![i].size = @ - size]
            /\ Count(-size)
            /\ Reply(Answer(0, TRUE, b.paddr))
         \/ /\ size <= space /\ fits # {} /\ b.size = size
            /\ pages' = RemoveAt(pages, i)
            /\ Become(<<kfree(use, b.node), [at |-> "emptied", paddr |-> b.paddr, size |-> size]>>)
            /\ UNCHANGED space
      /\ UNCHANGED <<heapvars, clients>>

(* The node of the emptied block is freed. *)
Emptied ==
  /\ At("emptied")
  /\ Count(-Top.size)
  /\ Reply(Answer(0, TRUE, Top.paddr))
  /\ UNCHANGED <<pages, heapvars, clients>>

(***************************************************************************)
(* __free() of ff.c                                                        *)
(***************************************************************************)
FreePagesStep ==
  /\ At("free_pages")
  /\ Become(<<kmalloc(NodeSize), [at |-> "insert", paddr |-> Top.paddr, size |-> Top.size]>>)
  /\ UNCHANGED <<heapvars, pagevars, clients>>

(* Mutant: neighbours are not recognised. *)
AdjacentNever(list, i) == FALSE

(* Blocks i and i + 1 of the page list are direct neighbours. *)
Adjacent(list, i) ==
  /\ i \in 1 .. (Len(list) - 1)
  /\ list[i].paddr + list[i].size = list[i + 1].paddr

(* Mutants: the size of the absorbed block is forgotten; its node is not freed. *)
AbsorbDropsSize(list, i, next) ==
  /\ pages' = RemoveAt(list, i + 1)
  /\ Become(<<kfree(use, list[i + 1].node), next>>)

AbsorbLeaks(list, i, next) ==
  /\ pages' = RemoveAt([list EXCEPT ![i].size = @ + list[i + 1].size], i + 1)
  /\ Become(<<next>>)

(* Block i absorbs its successor, whose node is freed before going on. *)
Absorb(list, i, next) ==
  /\ pages' = RemoveAt([list EXCEPT ![i].size = @ + list[i + 1].size], i + 1)
  /\ Become(<<kfree(use, list[i + 1].node), next>>)

(* kmalloc() has returned: insert the block and merge downwards.  this is the
   node the function goes on with. *)
InsertBlock ==
  LET k     == Cardinality({i \in DOMAIN pages : \A j \in 1 .. i : pages[j].paddr < Top.paddr})
      list  == InsertAt(pages, k + 1, [paddr |-> Top.paddr, size |-> Top.size, node |-> ret.value])
      on(node) == [at |-> "merge_up", this |-> node, size |-> Top.size]
  IN  /\ At("insert")
      /\ \/ ret.value = NULL /\ Stop("panic")
         \/ /\ ret.value # NULL /\ Adjacent(list, k)
            /\ Absorb(list, k, on(list[k].node))
            /\ UNCHANGED <<space, heapvars>>
         \/ /\ ret.value # NULL /\ ~Adjacent(list, k)
            /\ pages' = list
            /\ Become(<<on(ret.value)>>)
            /\ UNCHANGED <<space, heapvars>>
      /\ UNCHANGED clients

(* Mutant: the function loops until there is an upper neighbour. *)
MergeUpForever ==
  /\ At("merge_up")
  /\ \E i \in DOMAIN pages :
       /\ pages[i].node = Top.this
       /\ Adjacent(pages, i)
       /\ Absorb(pages, i, [at |-> "freed", size |-> Top.size])
  /\ UNCHANGED <<space, heapvars, clients>>

(* Merge upwards, unless the node in hand has been freed meanwhile. *)
MergeUp ==
  LET at == CHOOSE i \in DOMAIN pages : pages[i].node = Top.this
  IN  /\ At("merge_up")
      /\ \/ /\ \A i \in DOMAIN pages : pages[i].node # Top.this
            /\ Stop("stale node")
         \/ /\ \E i \in DOMAIN pages : pages[i].node = Top.this
            /\ Adjacent(pages, at)
            /\ Absorb(pages, at, [at |-> "freed", size |-> Top.size])
            /\ UNCHANGED <<space, heapvars>>
         \/ /\ \E i \in DOMAIN pages : pages[i].node = Top.this
            /\ ~Adjacent(pages, at)
            /\ Become(<<[at |-> "freed", size |-> Top.size]>>)
            /\ UNCHANGED <<pagevars, heapvars>>
      /\ UNCHANGED clients

Freed ==
  /\ At("freed")
  /\ Count(Top.size)
  /\ Return(0)
  /\ UNCHANGED <<pages, heapvars, clients>>

-------------------------------------------------------------------------------
(***************************************************************************)
(* master_init(): the regions of memory are added one by one, the nodes of *)
(* the page list being in the bootstrap pool; then kmalloc() is switched   *)
(* over and page_allocator_move() replaces the nodes.                      *)
(***************************************************************************)
Idle == stack = <<>> /\ fault = "none"

Call(calls) == Idle /\ stack' = calls /\ UNCHANGED <<ret, fault, pagevars>>

AddMemory ==
  /\ phase \in DOMAIN Regions
  /\ Call(<<free_pages(Regions[phase].paddr, Regions[phase].size)>>)
  /\ phase' = phase + 1
  /\ UNCHANGED <<heapvars, objects, frames>>

simple_allocator_init ==
  /\ phase = Len(Regions) + 1
  /\ Call(<<[at |-> "move", i |-> 1]>>)
  /\ use' = "heap"
  /\ free' = [free EXCEPT !["heap"] = {}]
  /\ phase' = phase + 1
  /\ UNCHANGED <<live, held, objects, frames>>

(* The loop of page_allocator_move(), at block i. *)
Move ==
  /\ At("move")
  /\ IF Top.i > Len(pages)
     THEN Return(0)
     ELSE Become(<<kmalloc(NodeSize), [at |-> "moved", old |-> pages[Top.i].node]>>)
  /\ UNCHANGED <<heapvars, pagevars, clients>>

(* kmalloc() may have taken its pages from the block, and even all of it. *)
Moved ==
  LET at == {i \in DOMAIN pages : pages[i].node = Top.old}
  IN  /\ At("moved")
      /\ \/ /\ ret.value = NULL \/ at = {}
            /\ Stop(IF ret.value = NULL THEN "panic" ELSE "stale node")
         \/ /\ ret.value # NULL /\ at # {}
            /\ pages' = [i \in DOMAIN pages |->
                           IF i \in at THEN [pages[i] EXCEPT !.node = ret.value] ELSE pages[i]]
            /\ Become(<<kfree("pool", Top.old), [at |-> "move", i |-> Min(at) + 1]>>)
            /\ UNCHANGED <<space, heapvars>>
      /\ UNCHANGED clients

-------------------------------------------------------------------------------
(***************************************************************************)
(* The clients of both allocators in the running kernel.                   *)
(***************************************************************************)
Running == phase = Len(Regions) + 2

CallKmalloc(size) ==
  /\ Running /\ Call(<<kmalloc(size), [at |-> "object"]>>)
  /\ UNCHANGED <<heapvars, clients>>

GetObject ==
  /\ At("object")
  /\ objects' = IF ret.value = NULL THEN objects ELSE objects \cup {ret.value}
  /\ Return(0)
  /\ UNCHANGED <<heapvars, pagevars, phase, frames>>

CallKfree(obj) ==
  /\ Running /\ Call(<<kfree(use, obj)>>)
  /\ objects' = objects \ {obj}
  /\ UNCHANGED <<heapvars, phase, frames>>

CallAllocPages(n) ==
  /\ Running /\ Call(<<alloc_pages(n * Page), [at |-> "frames", size |-> n * Page]>>)
  /\ UNCHANGED <<heapvars, clients>>

GetFrames ==
  /\ At("frames")
  /\ frames' = IF ret.granted THEN frames \cup WholePages(ret.paddr, Top.size) ELSE frames
  /\ Return(0)
  /\ UNCHANGED <<heapvars, pagevars, phase, objects>>

CallFreePages(p, n) ==
  /\ Running
  /\ WholePages(p, n * Page) \subseteq frames
  /\ Call(<<free_pages(p, n * Page)>>)
  /\ frames' = frames \ WholePages(p, n * Page)
  /\ UNCHANGED <<heapvars, phase, objects>>

Client ==
  \/ \E size \in work.sizes : CallKmalloc(size)
  \/ \E obj \in objects : CallKfree(obj)
  \/ \E n \in 1 .. MaxPages : CallAllocPages(n)
  \/ \E n \in 1 .. MaxPages, p \in frames : CallFreePages(p, n)

Step ==
  \/ KmallocStep \/ Grow \/ KfreeStep
  \/ AllocPagesStep \/ Emptied
  \/ FreePagesStep \/ InsertBlock \/ MergeUp \/ Freed
  \/ Move \/ Moved
  \/ GetObject \/ GetFrames

Next == (AddMemory \/ simple_allocator_init \/ Client \/ Step) /\ UNCHANGED work

Spec == Init /\ [][Next]_vars

(* The CPU goes on executing the call it is in. *)
FairSpec == Spec /\ WF_vars(Step /\ UNCHANGED work)

-------------------------------------------------------------------------------
Units(b) == b.addr .. (b.addr + b.size - 1)

FreeBlocks == free["heap"] \cup free["pool"]

(* Pages as physical pages: __free() of flff.c passes virtual addresses to
   free_pages(). *)
Physical(P) == {p % KOffset : p \in P}

Listed(b) == Physical(WholePages(b.paddr, b.size))

Donated == UNION {WholePages(Regions[i].paddr, Regions[i].size) :
                    i \in {j \in DOMAIN Regions : j < phase}}

(* Types of the variables; the lists hold non-empty blocks. *)
TypeOK ==
  /\ FreeBlocks \cup live \subseteq [addr : 0 .. (Space - 1), size : 1 .. Space]
  /\ Range(pages) \subseteq
       [paddr : 0 .. (Space - 1), size : 1 .. Space, node : 0 .. (Space - 1)]
  /\ use \in {"pool", "heap"}
  /\ held \cup frames \subseteq {p \in 0 .. (Space - 1) : p % Page = 0}
  /\ space \in 0 .. Space
  /\ phase \in 1 .. (Len(Regions) + 2)
  /\ objects \subseteq 0 .. (Space - 1)

(* However alloc_pages(), free_pages(), kmalloc() and kfree() re-enter each
   other, between calls a page of memory is in one place: in one block of the
   page list, with a client, or with the heap; and no page is lost. *)
MemoryConserved ==
  Idle =>
    LET listed == UNION {Listed(b) : b \in Range(pages)}
    IN  /\ \A i, j \in DOMAIN pages : i # j => Listed(pages[i]) \cap Listed(pages[j]) = {}
        /\ listed \cap Physical(frames) = {}
        /\ listed \cap Physical(held) = {}
        /\ Physical(frames) \cap Physical(held) = {}
        /\ listed \cup Physical(frames) \cup Physical(held) = Donated

(* At every step the free and the allocated blocks of flff.c tile the bootstrap
   pool and the pages of the heap: none overlaps another, no unit is lost. *)
HeapTiled ==
  fault = "none" =>
    LET all == FreeBlocks \cup live
    IN  /\ \A x, y \in all : x # y => Units(x) \cap Units(y) = {}
        /\ free["heap"] \cap free["pool"] = {} /\ FreeBlocks \cap live = {}
        /\ UNION {Units(b) : b \in all} =
             Units(Pool) \cup UNION {p .. (p + Page - 1) : p \in held}

(* The allocated blocks are the clients' objects and the nodes of the page
   list: ff.c frees every node it takes off the list, and no other. *)
NodesOwned ==
  Idle => LET nodes == {pages[i].node : i \in DOMAIN pages}
          IN  /\ nodes \cap objects = {}
              /\ Cardinality(nodes) = Len(pages)
              /\ {b.addr + Hdr : b \in live} = nodes \cup objects

(* __free_space is the size of the listed blocks, though it is changed only
   after the calls that re-enter __alloc() and __free(). *)
AccountExact ==
  Idle => space = FoldSeq(LAMBDA b, n : b.size + n, 0, pages)

(* The page list stays sorted and merged when it is changed by a nested call
   between the insertion of a node and its merging. *)
PagesCoalesced ==
  Idle => \A i \in 1 .. (Len(pages) - 1) :
            pages[i].paddr + pages[i].size < pages[i + 1].paddr

(* The two allocators do not call each other for ever, and kfree() is only called
   for what is allocated: every call returns, or the kernel stops. *)
CallsReturn == stack # <<>> ~> Idle \/ fault # "none"

-------------------------------------------------------------------------------
(* init.c:51 "We break such circular dependency by": a node of the page list
   that __free() of ff.c or page_allocator_move() goes on with after a call of
   kmalloc() or kfree() is still on the list. *)
CircularityBroken == fault # "stale node"
===============================================================================
