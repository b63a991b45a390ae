------------------------------- MODULE ArmPgtable --------------------------------
(***************************************************************************)
(* The page tables of ARMv7-A, kern/arch/armv7a/mm.c: an L1 table whose    *)
(* entries map a section or lead to an L2 table of pages.  One address     *)
(* space; addresses and sizes are counted in pages.  A step is one section *)
(* or page that map_pages() maps.                                          *)
(*                                                                         *)
(* The code reaches L2 tables by their physical address, which the low     *)
(* mapping of the boot page index makes valid.                             *)
(*                                                                         *)
(* The tables come from two caches.  cache_free() gets the physical address*)
(* of an L2 table, finds no slab there and does nothing, so L2 tables are  *)
(* never used again.  The cache has a limited number of exclusive objects  *)
(* (see Slab); what happens with a shared one is not modelled.             *)
(***************************************************************************)
EXTENDS Integers, FiniteSetsExt

CONSTANTS
  Pages,     \* the user pages in use: an interval
  Sect,      \* pages in a section
  Tables,    \* the exclusive objects of pt_l2_cache
  Flags,     \* what callers pass: sets of VMA_READ, VMA_WRITE and VMA_EXEC
  PAddrs,    \* the frames that callers map
  MaxLen     \* the longest range asked for

VARIABLES
  alive,     \* there is a page index
  l1, l2,    \* l1[s]: the entry of a section; l2[t][i]: the entries of a table
  fresh,     \* the tables that pt_l2_cache still has
  call,      \* the map_pages() in progress
  ret,       \* the answer of the last unmap_pages(): first page and size
  fault      \* why the kernel stopped

vars == <<alive, l1, l2, fresh, call, ret, fault>>

SectOf(v) == v \div Sect
Sections == {SectOf(v) : v \in Pages}
FREE == [type |-> "FREE"]
NoCall == [len |-> 0]
NoRet == [v |-> 0, size |-> 0]

Init ==
  /\ alive = FALSE
  /\ l1 = [s \in Sections |-> FREE]
  /\ l2 = [t \in Tables |-> [i \in 0 .. Sect - 1 |-> FREE]]
  /\ fresh = Tables
  /\ call = NoCall /\ ret = NoRet
  /\ fault = "none"

Idle == fault = "none" /\ call = NoCall

(* Mutant: pages to be written are only readable. *)
convert_flagsRead(fl) == [ap |-> IF "READ" \in fl THEN "READ" ELSE "NONE", xn |-> "EXEC" \notin fl]

convert_flags(fl) ==
  [ap |-> IF "WRITE" \in fl THEN "BOTH" ELSE IF "READ" \in fl THEN "READ" ELSE "NONE",
   xn |-> "EXEC" \notin fl]

-------------------------------------------------------------------------------
(* page_index_clear() *)
init_pgindex ==
  /\ Idle /\ ~alive
  /\ alive' = TRUE /\ l1' = [s \in Sections |-> FREE]
  /\ UNCHANGED <<l2, fresh, call, ret, fault>>

destroy_pgindex ==
  /\ Idle /\ alive
  /\ alive' = FALSE /\ l1' = [s \in Sections |-> FREE] /\ ret' = NoRet
  /\ UNCHANGED <<l2, fresh, call, fault>>

map_pages(v, n, p, fl) ==
  /\ Idle /\ alive
  /\ call' = [len |-> n, v |-> v, p |-> p, fl |-> fl, done |-> 0]
  /\ ret' = NoRet
  /\ UNCHANGED <<alive, l1, l2, fresh, fault>>

InLoop == fault = "none" /\ call.len > 0 /\ call.done < call.len
Vcur == call.v + call.done
Pcur == call.p + call.done

(* Mutant: the physical address is not looked at. *)
SectFitsVirtual == Vcur % Sect = 0 /\ call.len - call.done >= Sect

SectFits == Vcur % Sect = 0 /\ Pcur % Sect = 0 /\ call.len - call.done >= Sect

(* Mutant: the section behind is unmapped, too. *)
__arm_unmap_l1Two(s) == [l1 EXCEPT ![s] = FREE, ![s + 1] = FREE]

(* A table that is there is forgotten: cache_free() does not take it back. *)
__arm_unmap_l1(s) == [l1 EXCEPT ![s] = FREE]

(* The base of a section has no low bits. *)
__arm_map_sect ==
  /\ InLoop /\ SectFits
  /\ l1' = [__arm_unmap_l1(SectOf(Vcur)) EXCEPT ![SectOf(Vcur)] =
       [type |-> "SECT", pa |-> Pcur - (Pcur % Sect), attr |-> convert_flags(call.fl)]]
  /\ call' = [call EXCEPT !.done = @ + Sect]
  /\ UNCHANGED <<alive, l2, fresh, ret, fault>>

Page == [type |-> "PAGE", pa |-> Pcur, attr |-> convert_flags(call.fl)]

(* The section has a table. *)
__arm_map_page ==
  /\ InLoop /\ ~SectFits
  /\ l1[SectOf(Vcur)].type = "TABLE"
  /\ l2' = [l2 EXCEPT ![l1[SectOf(Vcur)].table][Vcur % Sect] = Page]
  /\ call' = [call EXCEPT !.done = @ + 1]
  /\ UNCHANGED <<alive, l1, fresh, ret, fault>>

(* An empty table takes the place of whatever the section had. *)
__arm_map_table ==
  /\ InLoop /\ ~SectFits
  /\ l1[SectOf(Vcur)].type # "TABLE"
  /\ \/ /\ fresh = {}
        /\ fault' = "table shared"
        /\ UNCHANGED <<alive, l1, l2, fresh, call, ret>>
     \/ /\ fresh # {}
        /\ LET t == Min(fresh)
           IN  /\ l1' = [l1 EXCEPT ![SectOf(Vcur)] = [type |-> "TABLE", table |-> t]]
               /\ l2' = [l2 EXCEPT ![t][Vcur % Sect] = Page]
               /\ fresh' = fresh \ {t}
        /\ call' = [call EXCEPT !.done = @ + 1]
        /\ UNCHANGED <<alive, ret, fault>>

map_pagesDone ==
  /\ fault = "none" /\ call.len > 0 /\ call.done = call.len
  /\ call' = NoCall
  /\ UNCHANGED <<alive, l1, l2, fresh, ret, fault>>

(* Base and size of what a page is mapped by: for a section its own base, for an
   empty entry of a table frame 0. *)
get_mapped(v) ==
  IF v \notin Pages THEN [pa |-> 0, size |-> 0]
  ELSE LET e == l1[SectOf(v)]
           f == l2[e.table][v % Sect]
       IN  CASE e.type = "FREE"  -> [pa |-> 0, size |-> 0]
             [] e.type = "SECT"  -> [pa |-> e.pa, size |-> Sect]
             [] e.type = "TABLE" -> [pa |-> IF f = FREE THEN 0 ELSE f.pa, size |-> 1]

(* The size that unmap_pages() answers: what is mapped in a row, and contiguous. *)
BlockSize(v, n) ==
  LET head == get_mapped(v)
      block[b \in 0 .. n + Sect] ==
        LET this == get_mapped(v + b)
        IN  IF b >= n \/ this.size = 0 \/ this.pa # head.pa + b THEN b ELSE block[b + this.size]
  IN  IF head.size = 0 THEN 0 ELSE block[head.size]

(* It answers and leaves the tables as they are. *)
unmap_pages(v, n) ==
  /\ Idle /\ alive
  /\ ret' = [v |-> v, size |-> BlockSize(v, n)]
  /\ UNCHANGED <<alive, l1, l2, fresh, call, fault>>

Next ==
  \/ init_pgindex \/ destroy_pgindex
  \/ \E v \in Pages, n \in 1 .. MaxLen :
       /\ v + n - 1 \in Pages
       /\ unmap_pages(v, n) \/ \E p \in PAddrs, fl \in Flags : map_pages(v, n, p, fl)
  \/ __arm_map_sect \/ __arm_map_page \/ __arm_map_table \/ map_pagesDone

Spec == Init /\ [][Next]_vars

-------------------------------------------------------------------------------
(* What the processor finds for page v. *)
Walk(v) ==
  LET e == l1[SectOf(v)]
  IN  CASE e.type = "FREE"  -> FREE
        [] e.type = "SECT"  -> [type |-> "PAGE", pa |-> e.pa + (v % Sect), attr |-> e.attr]
        [] e.type = "TABLE" -> l2[e.table][v % Sect]

(* While map_pages() is at work, every page up to where it is has the frame and the
   rights that were asked for: no section or table put in later takes the place of a
   page of the same call, and no frame is cut to its section. *)
RangeMapped ==
  \A i \in 0 .. IF call = NoCall THEN -1 ELSE call.done - 1 :
    LET w == Walk(call.v + i)
    IN  /\ w # FREE /\ w.pa = call.p + i
        /\ w.attr.ap = "BOTH" <=> "WRITE" \in call.fl
        /\ w.attr.xn <=> "EXEC" \notin call.fl

(* A step of map_pages() changes the translation of no page of another section, and
   in its own section takes a page away only together with a section. *)
OthersKept ==
  [][call # NoCall =>
       \A v \in Pages :
         \/ v \in call.v .. call.v + call.len - 1
         \/ Walk(v)' = Walk(v)
         \/ l1[SectOf(v)].type = "SECT" /\ SectOf(v) = SectOf(Vcur)]_vars

(* unmap_pages() removes the pages whose size it answers. *)
UnmapRemoves == \A i \in 0 .. ret.size - 1 : ret.v + i \in Pages => Walk(ret.v + i) = FREE
===============================================================================
