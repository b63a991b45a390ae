----------------------------------- MODULE Uvm -----------------------------------
(***************************************************************************)
(* User address spaces, kern/mm/uvm.c, over the two-level page tables of   *)
(* 32-bit MIPS, kern/arch/mips/pgtable.c.  The kernel makes these calls    *)
(* one at a time, but several address spaces share the frames.             *)
(*                                                                         *)
(* Addresses, sizes and frames are counted in pages.  A page index is a    *)
(* frame of its own, pde[m] the frames of its leaf tables, pte[m] the      *)
(* entries of all leaf tables, 0 being an empty entry.  An area is always  *)
(* one page long and refs of its struct pages is always 1, so an area is   *)
(* its start and its frame, and dropping its reference frees the frame.    *)
(*                                                                         *)
(* kmalloc() may answer NULL at any time.  alloc_pages() for one page      *)
(* fails only by answering 0 without a page (ff.c:51), which is taken for  *)
(* success.  What happens then, and after a panic, is not modelled.        *)
(***************************************************************************)
EXTENDS Integers, SequencesExt, FiniteSetsExt

CONSTANTS
  Mms,       \* what kmalloc() can return for a struct mm
  Pages,     \* the user pages in use, by number
  Fan,       \* NR_PTENTRIES
  Frames,    \* the page frames given to the page allocator, 0 not among them
  Junk,      \* what sentry->size, which is heap padding, can hold
  MaxLen     \* the longest range asked for

ASSUME UvmAssumption ==
  Pages \subseteq Nat \ {0} /\ Fan \in Nat \ {0} /\ 0 \notin Frames /\ Junk \subseteq Nat

VARIABLES
  pgindex,   \* pgindex[m]: the frame of the page index, 0 if there is no mm
  junk,      \* junk[m]: sentry->size
  areas,     \* areas[m]: the list of areas, each [start, frame]
  pde, pte,
  avail,     \* the frames the page allocator has
  call,      \* the create_uvm() in progress
  fault      \* why the kernel stopped

vars == <<pgindex, junk, areas, pde, pte, avail, call, fault>>

PDX(v) == v \div Fan
Dirs == {PDX(v) : v \in Pages}
NoCall == [mm |-> "none"]

Init ==
  /\ pgindex = [m \in Mms |-> 0]
  /\ junk = [m \in Mms |-> 0]
  /\ areas = [m \in Mms |-> <<>>]
  /\ pde = [m \in Mms |-> [d \in Dirs |-> 0]]
  /\ pte = [m \in Mms |-> [v \in Pages |-> 0]]
  /\ avail = Frames
  /\ call = NoCall
  /\ fault = "none"

Idle == fault = "none" /\ call = NoCall
Alive(m) == pgindex[m] # 0

Halt(why) ==
  /\ fault' = why
  /\ UNCHANGED <<pgindex, junk, areas, pde, pte, avail, call>>

-------------------------------------------------------------------------------
(* Unmapping areas one after the other: entries are zeroed and the leaf tables
   that become empty are freed.  A missing table makes unmap_pages() panic; an
   entry that is not what its area says fails an assertion of __clean_vma(). *)
HaveTables(m, as) == \A a \in as : pde[m][PDX(a.start)] # 0
__clean_vma(m, as) == \A a \in as : pte[m][a.start] = a.frame

(* The directory entries of unmapped pages whose tables are empty. *)
__free_intermediate_pgtable(m, gone) ==
  {d \in {PDX(v) : v \in gone} : \A v \in Pages \ gone : PDX(v) = d => pte[m][v] = 0}

(* Mutant: the entries are left as they are. *)
unmap_pagesKeeps(m, gone) == pte[m]

unmap_pages(m, gone) == [v \in Pages |-> IF v \in gone THEN 0 ELSE pte[m][v]]

(* Mutant: the frames of the areas are not freed. *)
ReleasedTables(as, tables) == tables

(* The frames given back for areas as and leaf tables in frames tables. *)
Released(as, tables) == {a.frame : a \in as} \cup tables

(* list_del(), unmap_pages() and the release of the frames for areas as of m. *)
UnmapAndFree(m, as) ==
  LET gone == {a.start : a \in as}
      dead == __free_intermediate_pgtable(m, gone)
  IN  /\ pte' = [pte EXCEPT ![m] = unmap_pages(m, gone)]
      /\ pde' = [pde EXCEPT ![m] = [d \in Dirs |-> IF d \in dead THEN 0 ELSE @[d]]]
      /\ areas' = [areas EXCEPT ![m] = SelectSeq(@, LAMBDA a : a \notin as)]
      /\ avail' = avail \cup Released(as, {pde[m][d] : d \in dead})
                        \cup (IF pgindex'[m] = 0 THEN {pgindex[m]} ELSE {})

-------------------------------------------------------------------------------
(* When kmalloc() fails nothing changes.  The page index is cleared. *)
mm_new(m) ==
  /\ Idle /\ ~Alive(m)
  /\ \/ /\ avail = {}
        /\ Halt("page index nowhere")
     \/ \E f \in avail, j \in Junk :
          /\ pgindex' = [pgindex EXCEPT ![m] = f]
          /\ junk' = [junk EXCEPT ![m] = j]
          /\ avail' = avail \ {f}
          /\ UNCHANGED <<areas, pde, pte, call, fault>>

(* __clean_vma() for every area, with its assertions; then the page index. *)
mm_destroy(m) ==
  /\ Idle /\ Alive(m)
  /\ pgindex' = [pgindex EXCEPT ![m] = 0]
  /\ UnmapAndFree(m, Range(areas[m]))
  /\ fault' = IF HaveTables(m, Range(areas[m])) /\ __clean_vma(m, Range(areas[m]))
              THEN "none" ELSE "assertion"
  /\ UNCHANGED <<junk, call>>

(* The areas in front of which a range ending at e would go start with this one,
   the sentry being one behind the last. *)
FirstFrom(m, e) ==
  Min({k \in 1 .. Len(areas[m]) : areas[m][k].start >= e} \cup {Len(areas[m]) + 1})

(* Whether the area before that leaves room from a.  The code takes the size of
   the area behind the gap, which for the sentry is junk; and the sentry as the
   area before has a kernel address as its start, above every user address. *)
__find_vma_before(m, a, n) ==
  LET k    == FirstFrom(m, a + n)
      size == IF k > Len(areas[m]) THEN junk[m] ELSE 1
  IN  \/ areas[m] = <<>>
      \/ k > 1 /\ a >= areas[m][k - 1].start + size

(* A range that is refused changes nothing. *)
create_uvm(m, a, n) ==
  /\ Idle /\ Alive(m)
  /\ __find_vma_before(m, a, n)
  /\ LET k == FirstFrom(m, a + n) - 1
     IN  call' = [mm |-> m, addr |-> a, len |-> n, mapped |-> 0, vma_start |-> k,
                  vma_cur |-> k, before |-> areas[m], failed |-> FALSE]
  /\ UNCHANGED <<pgindex, junk, areas, pde, pte, avail, fault>>

Vcur == call.addr + call.mapped

(* Mutant: one page too many. *)
InLoopMore ==
  fault = "none" /\ call # NoCall /\ ~call.failed /\ call.mapped <= call.len /\ Vcur \in Pages

InLoop == fault = "none" /\ call # NoCall /\ ~call.failed /\ call.mapped < call.len
LeafMissing == pde[call.mm][PDX(Vcur)] = 0

(* kmalloc() of the area or of its struct pages fails. *)
NoMemory ==
  /\ InLoop
  /\ call' = [call EXCEPT !.failed = TRUE]
  /\ UNCHANGED <<pgindex, junk, areas, pde, pte, avail, fault>>

(* alloc_pages() leaves paddr 0, or pgalloc() returns an address it never set. *)
NoFrame ==
  /\ InLoop
  /\ \/ avail = {} /\ Halt("page 0 mapped")
     \/ LeafMissing /\ Cardinality(avail) = 1 /\ Halt("leaf table nowhere")

(* Mutant: the cursor is not advanced, so areas are linked in reverse. *)
LinkedBackwards(s, a) == InsertAt(s, call.vma_start + 1, a)

(* list_add_after() the current area. *)
Linked(s, a) == InsertAt(s, call.vma_cur + 1, a)

(* Mutant: the frame of the leaf table is entered for the page. *)
EntryOfLeaf(f, t) == t

(* The entry for a page on frame f, its leaf table being in frame t. *)
Entry(f, t) == f

(* A frame, a leaf table if there is none yet, the entry, the area. *)
MapOne ==
  /\ InLoop
  /\ pte[call.mm][Vcur] = 0
  /\ \E f \in avail :
     \E t \in IF LeafMissing THEN avail \ {f} ELSE {pde[call.mm][PDX(Vcur)]} :
       /\ avail' = avail \ {f, t}
       /\ pde' = [pde EXCEPT ![call.mm][PDX(Vcur)] = t]
       /\ pte' = [pte EXCEPT ![call.mm][Vcur] = Entry(f, t)]
       /\ areas' = [areas EXCEPT ![call.mm] = Linked(@, [start |-> Vcur, frame |-> f])]
  /\ call' = [call EXCEPT !.mapped = @ + 1, !.vma_cur = @ + 1]
  /\ UNCHANGED <<pgindex, junk, fault>>

(* map_pages() finds the entry in use; the frame goes back. *)
Exists ==
  /\ InLoop
  /\ avail # {}
  /\ pte[call.mm][Vcur] # 0
  /\ call' = [call EXCEPT !.failed = TRUE]
  /\ UNCHANGED <<pgindex, junk, areas, pde, pte, avail, fault>>

create_uvmDone ==
  /\ fault = "none" /\ call # NoCall /\ ~call.failed /\ call.mapped = call.len
  /\ call' = NoCall
  /\ UNCHANGED <<pgindex, junk, areas, pde, pte, avail, fault>>

(* __unmap_and_free_vma() from the area BEFORE the new ones, as many as are new.
   Starting at the sentry it unmaps a kernel address and panics. *)
Rollback ==
  LET as == {areas[call.mm][k] : k \in call.vma_start .. call.vma_start + call.mapped - 1}
  IN  /\ fault = "none" /\ call # NoCall /\ call.failed
      /\ \/ /\ call.mapped = 0
            /\ call' = NoCall
            /\ UNCHANGED <<pgindex, junk, areas, pde, pte, avail, fault>>
         \/ /\ call.mapped > 0 /\ call.vma_start = 0
            /\ Halt("rollback from the sentry")
         \/ /\ call.mapped > 0 /\ call.vma_start > 0
            /\ fault' = IF HaveTables(call.mm, as) THEN "none" ELSE "assertion"
            /\ UNCHANGED <<pgindex, junk>>
            /\ UnmapAndFree(call.mm, as)
            /\ call' = NoCall

(* Refused unless there is an area for every page of the range, in a row. *)
destroy_uvm(m, a, n) ==
  LET ks == {k \in 1 .. Len(areas[m]) : areas[m][k].start = a}
      k0 == Min(ks)
      as == {areas[m][k0 + i] : i \in 0 .. n - 1}
  IN  /\ Idle /\ Alive(m)
      /\ ks # {}
      /\ \A i \in 0 .. n - 1 : /\ k0 + i <= Len(areas[m])
                               /\ areas[m][k0 + i].start = a + i
      /\ fault' = IF HaveTables(m, as) THEN "none" ELSE "assertion"
      /\ UNCHANGED <<pgindex, junk, call>>
      /\ UnmapAndFree(m, as)

Next ==
  \/ \E m \in Mms : mm_new(m) \/ mm_destroy(m)
  \/ \E m \in Mms, a \in Pages, n \in 1 .. MaxLen :
       /\ a + n - 1 \in Pages
       /\ create_uvm(m, a, n) \/ destroy_uvm(m, a, n)
  \/ NoMemory \/ NoFrame \/ MapOne \/ Exists \/ create_uvmDone \/ Rollback

Spec == Init /\ [][Next]_vars

-------------------------------------------------------------------------------
(* Types of the variables. *)
TypeOK ==
  /\ \A m \in Mms :
       /\ pgindex[m] \in Frames \cup {0} /\ junk[m] \in Junk \cup {0}
       /\ Range(areas[m]) \subseteq [start : Pages, frame : Frames]
       /\ Range(pde[m]) \subseteq Frames \cup {0}
       /\ Range(pte[m]) \subseteq Frames \cup {0}
  /\ avail \subseteq Frames
  /\ call = NoCall \/ call.mapped \in 0 .. call.len

(* The list of areas is in ascending order and areas do not overlap, as struct
   vma demands, whatever the sentry's size is read as and also after create_uvm()
   failed halfway. *)
AreasOrdered ==
  \A m \in Mms : \A j, k \in 1 .. Len(areas[m]) :
    j < k => areas[m][j].start < areas[m][k].start

(* The page table maps what the areas say and nothing else, and has leaf tables
   only where something is mapped: the two records of an address space, which
   create_uvm() and destroy_uvm() update separately, never drift apart. *)
TablesMatchAreas ==
  \A m \in Mms :
    /\ {v \in Pages : pte[m][v] # 0} = {a.start : a \in Range(areas[m])}
    /\ __clean_vma(m, Range(areas[m]))
    /\ {d \in Dirs : pde[m][d] # 0} = {PDX(a.start) : a \in Range(areas[m])}

(* The frames behind the areas, tables and page indices. *)
Data(m) == {a.frame : a \in Range(areas[m])}
Leaves(m) == {pde[m][d] : d \in Dirs} \ {0}
Used(m) == Data(m) \cup Leaves(m) \cup ({pgindex[m]} \ {0})

(* Every frame is free or has one use in one address space: none leaks when a
   range is destroyed, when a creation is rolled back or when the address space
   goes, and none is used twice. *)
FramesConserved ==
  /\ avail = Frames \ UNION {Used(m) : m \in Mms}
  /\ \A m, n \in Mms : m # n => Used(m) \cap Used(n) = {}
  /\ \A m \in Mms : Cardinality(Used(m)) =
       Len(areas[m]) + Cardinality({d \in Dirs : pde[m][d] # 0}) + (IF Alive(m) THEN 1 ELSE 0)

(* The assertions of __clean_vma() and __unmap_and_free_vma() hold, and what they
   unmap has a leaf table: unmap_pages() does not panic. *)
AssertionsHold == fault # "assertion"

(* create_uvm() creates areas: when it is over, with or without success, the
   areas that were there are still there. *)
CreateOnlyAdds ==
  [][call # NoCall /\ call' = NoCall =>
       Range(call.before) \subseteq Range(areas'[call.mm])]_vars
===============================================================================
