---------------------------------- MODULE MCObjects ----------------------------------
(* What the kernel keeps its objects in: the heap with the page allocator below     *)
(* it, the caching allocator, and the counts of references to pages.  A run takes   *)
(* one of them at Init; the others rest.                                            *)
(*                                                                                  *)
(* Caches: slabs of two bytes with two bits each, two nodes, memory for three       *)
(* slabs, which the rest of the kernel may have taken.  Heap: up to five pages in   *)
(* two regions; a page is 8 units of 16 bytes, a header and a node of the page list *)
(* are 2 units each, and the pool holds two nodes.                                  *)
EXTENDS Slab

VARIABLES part,
          work, free, use, live, hheld, pages, space, stack, ret, fault, phase, objects, frames,
          aarch, counter, refheld, link, op, freed  \* Atomic
heap == <<work, free, use, live, hheld, pages, space, stack, ret, fault, phase, objects, frames>>
refs == <<aarch, counter, refheld, link, op, freed>>

Map(first, second) == <<[paddr |-> 8, size |-> 8 * first], [paddr |-> 32, size |-> 8 * second]>>
Workloads == {[regions |-> Map(2, 1), sizes |-> {1, 4, 7}],
              [regions |-> Map(1, 1), sizes |-> {4}],
              [regions |-> Map(2, 3), sizes |-> {4}]}
Heap == INSTANCE KernelHeap WITH
  Page <- 8, Hdr <- 2, NodeSize <- 2, Space <- 128, KOffset <- 64, MaxPages <- 2,
  Pool <- [addr |-> 4, size |-> 8], held <- hheld

CPUs == {"p", "q"}
Refs == INSTANCE Atomic WITH
  AtomicArches <- {"armv7a", "mips", "i386"}, MaxHeld <- 2, held <- refheld

MCInit ==
  /\ part \in {"heap", "cache", "refs"}
  /\ Init
  /\ Heap!Init /\ (part # "heap" => 7 \in work.sizes)
  /\ Refs!AtomicInit /\ (part # "refs" => aarch = "mips" /\ \A c \in CPUs : refheld[c] = 1)

MCNext ==
  \/ part = "cache" /\ Next            /\ UNCHANGED <<part, heap, refs>>
  \/ part = "heap"  /\ Heap!Next       /\ UNCHANGED <<part, vars, refs>>
  \/ part = "refs"  /\ Refs!AtomicNext /\ UNCHANGED <<part, vars, heap>>

\* No step that fairness is about is enabled in a component that rests.
MCSpec == /\ MCInit /\ [][MCNext]_<<part, vars, heap, refs>>
          /\ WF_heap(Heap!Step /\ UNCHANGED work)

\* Every page is free on the list of ff.c, with the heap, with a client or on its
\* way between them, and in one of these places only.
MemoryConserved == Heap!MemoryConserved

\* Free and allocated blocks of flff.c tile the heap's pages and the pool.
HeapTiled == Heap!HeapTiled

\* The allocated blocks are the clients' objects and the nodes of the page list.
NodesOwned == Heap!NodesOwned

\* Between calls, __free_space is the sum of the blocks on the list of ff.c, and
\* neighbouring blocks are merged, although the list's nodes come from the heap
\* and kmalloc() and kfree() call alloc_pages() and free_pages() in mid-operation.
PageListTrue == Heap!TypeOK /\ Heap!AccountExact /\ Heap!PagesCoalesced

\* The two allocators do not call each other for ever: a call returns or the
\* kernel stops.
CallsReturn == Heap!CallsReturn

\* However inc and dec of several CPUs interleave, the count is the number of
\* references; pages with a holder are not freed, and pages without one are.
ReferencesTrue == Refs!CountTrue /\ Refs!FreedWhenUnused

\* An object of a slab's first byte is with as many clients as its bit is set, and
\* no object but the one behind the first byte is handed out besides.
ObjectsExclusive == RecordedExclusive /\ OthersNeverUsed
===============================================================================
