------------------------------- MODULE I386Pgtable -------------------------------
(***************************************************************************)
(* The page tables of i386, kern/arch/i386/pgtable.c, as words in memory:  *)
(* a page directory whose entries lead to page tables.  One address space; *)
(* addresses and sizes are counted in pages.  map_pages() is two passes,   *)
(* of which the first is taken page by page; unmap_pages() is one step.    *)
(*                                                                         *)
(* pgalloc() takes the lowest free frame.  It cannot fail: with no frame   *)
(* left it answers with an address that was never set (ff.c:51).           *)
(***************************************************************************)
EXTENDS Integers, FiniteSetsExt

CONSTANTS
  Pages,     \* the user pages in use, by number
  Fan,       \* NR_PTENTRIES
  Pool,    \* the page frames given to the page allocator
  Half,      \* KERN_BASE, in pages
  PAddrs,    \* the frames that callers map
  MaxLen     \* the longest range asked for

VARIABLES
  pgindex,   \* the frame of the page directory, 0 if there is none
  mem,       \* mem[f][i]: the words of the frames
  avail,     \* the frames the page allocator has
  call,      \* the map_pages() in progress
  fault      \* why the kernel stopped

vars == <<pgindex, mem, avail, call, fault>>

(* mkpte(): an entry is a frame, PTE_P and PTE_R. *)
mkpte(f, p, r) == [pa |-> f, p |-> p, r |-> r]
Zero == mkpte(0, FALSE, FALSE)
PDX(v) == v \div Fan
Clean == [i \in 0 .. Fan - 1 |-> Zero]
NoCall == [len |-> 0]

Init ==
  /\ pgindex = 0
  /\ mem = [f \in {g + PDX(v) : g \in Pool, v \in Pages} \cup Pool |-> Clean]
  /\ avail = Pool
  /\ call = NoCall
  /\ fault = "none"

(* pgalloc() and pgfree(), which leaves the frames fs free. *)
pgalloc == Min(avail)
pgfree(fs) == avail' = avail \cup fs

Idle == fault = "none" /\ call = NoCall
Halt(why) == fault' = why /\ UNCHANGED <<pgindex, mem, avail, call>>

(* kva2pa() of what is a physical address already: KERN_BASE too low, which is
   KERN_BASE too high modulo 2^32. *)
Ghost(f) == f + Half
Ghosts == {Ghost(f) : f \in Pool}

(* PTX() is not reduced modulo NR_PTENTRIES. *)
PTX(v) == v

(* The entry of page v in the table at frame f, as the code addresses it. *)
Word(f, v) == [frame |-> f + PTX(v) \div Fan, index |-> PTX(v) % Fan]

Leaf(m, v) == m[pgindex][PDX(v)].pa
HasLeaf(v) == mem[pgindex][PDX(v)].p
ptep(v) == LET w == Word(Leaf(mem, v), v) IN mem[w.frame][w.index]

-------------------------------------------------------------------------------
init_pgindex ==
  /\ Idle /\ pgindex = 0
  /\ \/ avail \ Ghosts = {} /\ Halt("page index nowhere")
     \/ /\ avail \ Ghosts # {}
        /\ LET f == pgalloc
           IN  pgindex' = f /\ avail' = avail \ {f} /\ mem' = [mem EXCEPT ![f] = Clean]
        /\ UNCHANGED <<call, fault>>

(* Only the directory is freed. *)
destroy_pgindex ==
  /\ Idle /\ pgindex # 0
  /\ pgindex' = 0 /\ pgfree({pgindex})
  /\ UNCHANGED <<mem, call, fault>>

map_pages(v, n, p, w) ==
  /\ Idle /\ pgindex # 0
  /\ call' = [len |-> n, v |-> v, p |-> p, w |-> w, done |-> 0]
  /\ UNCHANGED <<pgindex, mem, avail, fault>>

Busy == fault = "none" /\ call # NoCall
Vcur == call.v + call.done
InPass1 == Busy /\ call.done < call.len

(* __getpagedesc() of a page without a table. *)
AddLeaf ==
  /\ InPass1 /\ ~HasLeaf(Vcur)
  /\ \/ avail \ Ghosts = {} /\ Halt("leaf table nowhere")
     \/ /\ avail \ Ghosts # {}
        /\ LET f == pgalloc
           IN  /\ mem' = [mem EXCEPT ![f] = Clean, ![pgindex][PDX(Vcur)] = mkpte(f, TRUE, TRUE)]
               /\ avail' = avail \ {f}
        /\ UNCHANGED <<pgindex, call, fault>>

Validate ==
  /\ InPass1 /\ HasLeaf(Vcur)
  /\ ~ptep(Vcur).p
  /\ call' = [call EXCEPT !.done = @ + 1]
  /\ UNCHANGED <<pgindex, mem, avail, fault>>

(* Mutant: the first entry alone decides. *)
TableEmptyFirst(m, f) == ~m[f][0].p

TableEmpty(m, f) == \A i \in 0 .. Fan - 1 : ~m[f][i].p

(* __free_intermediate_pgtable() for n pages from v: PTE_P of the directory entry
   is cleared, and a frame that does not exist is freed in place of the table.
   For no pages the last directory is that of the page before v. *)
__free_intermediate_pgtable(m, v, n) ==
  LET dead == {d \in PDX(v) .. PDX(v + n - 1) : TableEmpty(m, m[pgindex][d].pa)}
  IN  /\ mem' = [m EXCEPT ![pgindex] = [d \in DOMAIN @ |->
                   IF d \in dead THEN [@[d] EXCEPT !.p = FALSE] ELSE @[d]]]
      /\ pgfree({Ghost(m[pgindex][d].pa) : d \in dead})

(* EEXIST *)
Exists ==
  /\ InPass1 /\ HasLeaf(Vcur)
  /\ ptep(Vcur).p
  /\ __free_intermediate_pgtable(mem, call.v, call.done)
  /\ call' = NoCall
  /\ UNCHANGED <<pgindex, fault>>

(* The entry of page v + i in m, set to e. *)
Store(m, v, e) ==
  LET w == Word(Leaf(m, v), v) IN [m EXCEPT ![w.frame][w.index] = e]

(* Mutant: PTE_R for every page. *)
__pgtable_permAlways(f, w) == mkpte(f, TRUE, TRUE)

__pgtable_perm(f, w) == mkpte(f, TRUE, w)

(* The second pass. *)
Fill ==
  /\ Busy /\ call.done = call.len
  /\ LET set[i \in 0 .. call.len] ==
           IF i = 0 THEN mem
           ELSE Store(set[i - 1], call.v + i - 1, __pgtable_perm(call.p + i - 1, call.w))
     IN  mem' = set[call.len]
  /\ call' = NoCall
  /\ UNCHANGED <<pgindex, avail, fault>>

(* The first page is unmapped whatever its entry is.  The next one is compared,
   flags and all, with the frame behind the first: it never matches, so the loop
   ends there, or panics if that page has no table. *)
unmap_pages(v, n) ==
  /\ Idle /\ pgindex # 0
  /\ LET after == Store(mem, v, Zero)
         second == mkpte(ptep(v).pa + 1, FALSE, FALSE)
     IN  \/ ~HasLeaf(v) /\ Halt("unmap_pages non-existent")
         \/ /\ HasLeaf(v) /\ n > 1 /\ ~HasLeaf(v + 1)
            /\ mem' = after /\ fault' = "unmap_pages non-existent"
            /\ UNCHANGED <<pgindex, avail, call>>
         \/ /\ HasLeaf(v) /\ (n > 1 => HasLeaf(v + 1) /\ ptep(v + 1) # second)
            /\ __free_intermediate_pgtable(after, v, 1)
            /\ UNCHANGED <<pgindex, call, fault>>

Next ==
  \/ init_pgindex \/ destroy_pgindex
  \/ \E v \in Pages, n \in 1 .. MaxLen :
       /\ v .. v + n - 1 \subseteq Pages
       /\ unmap_pages(v, n) \/ \E p \in PAddrs, w \in BOOLEAN : map_pages(v, n, p, w)
  \/ AddLeaf \/ Validate \/ Exists \/ Fill

Spec == Init /\ [][Next]_vars

-------------------------------------------------------------------------------
(* What the processor finds for page v: it reduces the index of the table. *)
Walk(v) ==
  IF pgindex = 0 \/ ~HasLeaf(v) \/ ~mem[Leaf(mem, v)][v % Fan].p THEN {}
  ELSE LET e == mem[Leaf(mem, v)][v % Fan] IN {<<e.pa, e.r>>}

Hardware == INSTANCE PageMap WITH
  map <- [v \in Pages |-> Walk(v)],
  req <- IF call = NoCall THEN {} ELSE {<<call.v, call.len, call.p, call.w>>}

(* The translation that the processor makes of the tables changes as include/mm.h
   says map_pages() and unmap_pages() change it, also when a call fails half way and
   when tables are freed. *)
MapSpec == Hardware!Spec
===============================================================================
