------------------------------ MODULE Mips64Pgtable ------------------------------
(***************************************************************************)
(* The four-level page tables of 64-bit MIPS, kern/arch/mips/pgtable.c, as *)
(* words in memory: PGD, PUD, PMD and the leaf table.  One address space;  *)
(* addresses and sizes are counted in pages.  Each table that map_pages()  *)
(* adds and each page that it validates is a step.  pgalloc() is as in     *)
(* I386Pgtable, where the rest of the allocator's behaviour is told.       *)
(***************************************************************************)
EXTENDS Integers, FiniteSetsExt

CONSTANTS
  Pages,     \* the user pages in use, by number
  Fan,       \* NR_PTENTRIES
  Pool,    \* the page frames given to the page allocator
  PAddrs,    \* the frames that callers map
  MaxLen     \* the longest range asked for

VARIABLES
  pgindex,   \* the frame of the PGD, 0 if there is none
  mem,       \* mem[f][i]: the words of the frames
  avail,     \* the frames the page allocator has
  call,      \* the map_pages() in progress
  fault      \* why the kernel stopped

vars == <<pgindex, mem, avail, call, fault>>

(* An entry: a frame, and PTE_VALID and PTE_DIRTY.  A table's has no flags. *)
Entry(f, v, d) == [pa |-> f, valid |-> v, dirty |-> d]
Zero == Entry(0, FALSE, FALSE)
Clean == [i \in 0 .. Fan - 1 |-> Zero]
NoCall == [len |-> 0]

Init ==
  /\ pgindex = 0
  /\ mem = [f \in Pool |-> Clean]
  /\ avail = Pool
  /\ call = NoCall
  /\ fault = "none"

(* pgalloc() and pgfree(), which leaves the frames fs free. *)
pgalloc == Min(avail)
pgfree(fs) == avail' = avail \cup fs

Idle == fault = "none" /\ call = NoCall
Halt(why) == fault' = why /\ UNCHANGED <<pgindex, mem, avail, call>>

(* PTX, PMX, PUX and PGX: the index into the table of level 0, 1, 2 and 3. *)
Index(l, v) == (v \div (Fan ^ l)) % Fan

(* The frame of the table of level l for page v, 0 if it or one above is missing:
   pte, pmd, pud and pgd of __getpagedesc(). *)
Table(l, v) ==
  LET t[k \in 0 .. 3] ==
        IF k = 3 THEN pgindex
        ELSE IF t[k + 1] = 0 THEN 0 ELSE mem[t[k + 1]][Index(k + 1, v)].pa
  IN  t[l]

Pte(v) == mem[Table(0, v)][Index(0, v)]

-------------------------------------------------------------------------------
init_pgindex ==
  /\ Idle /\ pgindex = 0
  /\ \/ avail = {} /\ Halt("page index nowhere")
     \/ /\ avail # {}
        /\ LET f == pgalloc
           IN  pgindex' = f /\ avail' = avail \ {f} /\ mem' = [mem EXCEPT ![f] = Clean]
        /\ UNCHANGED <<call, fault>>

(* Only the PGD is freed. *)
destroy_pgindex ==
  /\ Idle /\ pgindex # 0
  /\ pgindex' = 0 /\ pgfree({pgindex})
  /\ UNCHANGED <<mem, call, fault>>

map_pages(v, n, p, w) ==
  /\ Idle /\ pgindex # 0
  /\ call' = [len |-> n, v |-> v, p |-> p, w |-> w, done |-> 0]
  /\ UNCHANGED <<pgindex, mem, avail, fault>>

Busy == fault = "none" /\ call # NoCall
Vcur == call.v + call.done
InPass1 == Busy /\ call.done < call.len

(* The highest table that is missing. *)
__addpgdir ==
  /\ InPass1
  /\ \E l \in 0 .. 2 :
       /\ Table(l, Vcur) = 0 /\ Table(l + 1, Vcur) # 0
       /\ \/ avail = {} /\ Halt("table nowhere")
          \/ /\ avail # {}
             /\ LET f == pgalloc
                IN  /\ avail' = avail \ {f}
                    /\ mem' = [mem EXCEPT
                         ![f] = Clean,
                         ![Table(l + 1, Vcur)][Index(l + 1, Vcur)] = Entry(f, FALSE, FALSE)]
             /\ UNCHANGED <<pgindex, call, fault>>

Validate ==
  /\ InPass1 /\ Table(0, Vcur) # 0
  /\ Pte(Vcur) = Zero
  /\ call' = [call EXCEPT !.done = @ + 1]
  /\ UNCHANGED <<pgindex, mem, avail, fault>>

(* Mutant: the test the name asks for, but not all of it. *)
DeletesFirstFree(t) == t[0] = Zero

(* __del_empty_pgdir() deletes a table when it finds no empty entry. *)
__del_empty_pgdir(t) == \A i \in 0 .. Fan - 1 : t[i] # Zero

(* __free_intermediate_pgtable() for pages vs whose entries in memory m are zero.
   The tables above are only looked at when the leaf table has gone, and a leaf
   table with a zero entry does not go. *)
__free_intermediate_pgtable(m, vs) ==
  LET dead == {v \in vs : __del_empty_pgdir(m[Table(0, v)])}
  IN  /\ mem' = [f \in Pool |-> [i \in 0 .. Fan - 1 |->
           IF \E v \in dead : f = Table(1, v) /\ i = Index(1, v) THEN Zero ELSE m[f][i]]]
      /\ pgfree({Table(0, v) : v \in dead})

(* EEXIST *)
Exists ==
  /\ InPass1 /\ Table(0, Vcur) # 0
  /\ Pte(Vcur) # Zero
  /\ __free_intermediate_pgtable(mem, call.v .. Vcur - 1)
  /\ call' = NoCall
  /\ UNCHANGED <<pgindex, fault>>

__pgtable_perm(f, w) == Entry(f, TRUE, w)

(* The second pass. *)
Fill ==
  /\ Busy /\ call.done = call.len
  /\ LET range == call.v .. call.v + call.len - 1
         at(f, i) == {v \in range : Table(0, v) = f /\ Index(0, v) = i}
     IN  mem' = [f \in Pool |-> [i \in 0 .. Fan - 1 |->
           IF at(f, i) = {} THEN mem[f][i]
           ELSE __pgtable_perm(call.p + (Min(at(f, i)) - call.v), call.w)]]
  /\ call' = NoCall
  /\ UNCHANGED <<pgindex, avail, fault>>

(* As on i386: the loop ends at the second page, or panics there. *)
unmap_pages(v, n) ==
  /\ Idle /\ pgindex # 0
  /\ LET after == [mem EXCEPT ![Table(0, v)][Index(0, v)] = Zero]
     IN  \/ Table(0, v) = 0 /\ Halt("unmap_pages non-existent")
         \/ /\ Table(0, v) # 0 /\ n > 1 /\ Table(0, v + 1) = 0
            /\ mem' = after /\ fault' = "unmap_pages non-existent"
            /\ UNCHANGED <<pgindex, avail, call>>
         \/ /\ Table(0, v) # 0
            /\ n > 1 => /\ Table(0, v + 1) # 0
                        /\ Pte(v + 1) # Entry(Pte(v).pa + 1, FALSE, FALSE)
            /\ __free_intermediate_pgtable(after, {v})
            /\ UNCHANGED <<pgindex, call, fault>>

Next ==
  \/ init_pgindex \/ destroy_pgindex
  \/ \E v \in Pages, n \in 1 .. MaxLen :
       /\ v .. v + n - 1 \subseteq Pages
       /\ unmap_pages(v, n) \/ \E p \in PAddrs, w \in BOOLEAN : map_pages(v, n, p, w)
  \/ __addpgdir \/ Validate \/ Exists \/ Fill

Spec == Init /\ [][Next]_vars

-------------------------------------------------------------------------------
(* What the TLB refill handler finds for page v: a missing table
   and an entry without PTE_VALID are exceptions. *)
Walk(v) ==
  IF pgindex = 0 \/ Table(0, v) = 0 \/ ~Pte(v).valid THEN {} ELSE {<<Pte(v).pa, Pte(v).dirty>>}

Refill == INSTANCE PageMap WITH
  map <- [v \in Pages |-> Walk(v)],
  req <- IF call = NoCall THEN {} ELSE {<<call.v, call.len, call.p, call.w>>}

(* What the refill handler finds in the tables changes as include/mm.h says
   map_pages() and unmap_pages() change it, although tables of any level are added
   on the way and a call may stop half way. *)
MapSpec == Refill!Spec
===============================================================================
