---------------------------------- MODULE Slab ----------------------------------
(***************************************************************************)
(* The caching allocator, kern/mm/vmm/slab.c, behind the wrappers of       *)
(* kern/mm/vmm/vmm.c.  A wrapper holds the lock of the cache from its      *)
(* first step to its last, so one call on a cache is one action.  There    *)
(* is one cache, and its clients use it only between cache_create() and    *)
(* cache_destroy().                                                        *)
(*                                                                         *)
(* A slab has Chars bytes of Bits bits each, numbered from 1; a byte is    *)
(* the set of its bits that are 1.  Objects are numbered from 0.  The page *)
(* allocator hands out runs of pages of the size of a slab, Places; when   *)
(* less than that is free it answers 0 and leaves the address 0.           *)
(***************************************************************************)
EXTENDS Integers, SequencesExt, FiniteSetsExt

CONSTANTS
  Chars,    \* SLAB_MASK_CHARS
  Bits,     \* bits of a byte
  Nodes,    \* what kmalloc() can return for a struct slab
  Places,   \* runs of free pages, by their address, which is not 0
  MaxHeld   \* objects the clients have at a time, at most

ASSUME SlabAssumption == Chars \in Nat \ {0} /\ Bits \in Nat \ {0} /\ 0 \notin Places

VARIABLES
  head,     \* cache->head is not NULL
  list,     \* list["empty"], list["partial"], list["full"]: sequences of nodes
  slab,     \* slab[n] = [vaddr, used], used[i] being a byte
  avail,    \* the places the page allocator still has
  others,   \* the places other users of the page allocator have
  held,     \* held[<<vaddr, index>>]: how often clients have this object
  bogus     \* alloc_pages() has answered 0 without handing out pages

vars == <<head, list, slab, avail, others, held, bogus>>

Lists == {"empty", "partial", "full"}
Indices == 0 .. (Chars * Bits)
Objects == (Places \cup {0}) \X Indices

Clear == [i \in 1 .. Chars |-> {}]
NoLists == [l \in Lists |-> <<>>]
Listed(l) == Range(list[l])
InUse == UNION {Listed(l) : l \in Lists}

Init ==
  /\ head = FALSE
  /\ list = NoLists
  /\ slab = [n \in Nodes |-> [vaddr |-> 0, used |-> Clear]]
  /\ avail = Places
  /\ others = {}
  /\ held = [o \in Objects |-> 0]
  /\ bogus = FALSE

TotalHeld == MapThenSumSet(LAMBDA o : held[o], Objects)

-------------------------------------------------------------------------------
__is_full(used) == \A i \in 1 .. Chars : used[i] = 1 .. Bits
__is_empty(used) == \A i \in 1 .. Chars : used[i] = {}

(* Mutant: only the bits of the byte are looked at. *)
ffzByte(byte) == IF byte = 1 .. Bits THEN 0 ELSE Min((1 .. Bits) \ byte)

(* ffz() works on an int, whose bits above the byte are 0. *)
ffz(byte) == Min((1 .. (Bits + 1)) \ byte)

(* Mutant: the bit is not set. *)
MarkNot(used, i, j) == used

(* used[i] |= 1 << j, in a byte. *)
Mark(used, i, j) == [used EXCEPT ![i] = @ \cup ({j} \cap (1 .. Bits))]

(* Node n leaves its list and becomes the first of list l. *)
MoveTo(lists, n, l) ==
  [[k \in Lists |-> Remove(lists[k], n)] EXCEPT ![l] = <<n>> \o @]

(* Node n is the first of list l: its prev is the head of l. *)
IsFirst(lists, n, l) == lists[l] # <<>> /\ Head(lists[l]) = n

(* The single allocation from node n, which is first of its list. *)
Take(lists, slabs, n) ==
  LET i     == Min({k \in 1 .. Chars : ffz(slabs[n].used[k]) # 0})
      j     == ffz(slabs[n].used[i])
      used  == Mark(slabs[n].used, i, j)
      obj   == <<slabs[n].vaddr, (i - 1) * Bits + j - 1>>
  IN  /\ slab' = [slabs EXCEPT ![n].used = used]
      /\ held' = [held EXCEPT ![obj] = @ + 1]
      /\ list' = IF __is_full(used) THEN MoveTo(lists, n, "full")
                 ELSE IF IsFirst(lists, n, "empty") THEN MoveTo(lists, n, "partial")
                 ELSE lists

-------------------------------------------------------------------------------
cache_create ==
  /\ ~head
  /\ head' = TRUE
  /\ list' = NoLists
  /\ UNCHANGED <<slab, avail, others, held, bogus>>

(* From the partial list, else from the empty one. *)
AllocListed ==
  /\ head /\ TotalHeld < MaxHeld
  /\ \E n \in Nodes :
       /\ \/ IsFirst(list, n, "partial")
          \/ list["partial"] = <<>> /\ IsFirst(list, n, "empty")
       /\ Take(list, slab, n)
  /\ UNCHANGED <<head, avail, others, bogus>>

(* __extend() first: a node from kmalloc() and pages from alloc_pages().  When
   either fails the call returns NULL and changes nothing. *)
AllocExtended ==
  /\ head /\ TotalHeld < MaxHeld
  /\ list["partial"] = <<>> /\ list["empty"] = <<>>
  /\ \E n \in Nodes \ InUse, p \in avail \cup (IF avail = {} THEN {0} ELSE {}) :
       /\ Take([list EXCEPT !["empty"] = <<n>>],
               [slab EXCEPT ![n] = [vaddr |-> p, used |-> Clear]], n)
       /\ avail' = avail \ {p}
       /\ bogus' = (bogus \/ p = 0)
  /\ UNCHANGED <<head, others>>

(* The node on list l whose pages hold the object, if any; when wild addresses
   make two slabs share their pages it is the first of them. *)
Owner(l, obj) == SelectSeq(list[l], LAMBDA n : slab[n].vaddr = obj[1])

(* Mutant: the slab does not change lists when its last object is freed. *)
RelistNever(n, used) ==
  IF IsFirst(list, n, "full") THEN MoveTo(list, n, "partial") ELSE list

(* The lists after a free. *)
Relist(n, used) ==
  IF __is_empty(used) THEN MoveTo(list, n, "empty")
  ELSE IF IsFirst(list, n, "full") THEN MoveTo(list, n, "partial")
  ELSE list

(* A client gives back an object it has.  A slab that is neither full nor
   partial is not searched, and the call returns EOF. *)
cache_free(obj) ==
  LET owners == Owner("full", obj) \o Owner("partial", obj)
      n      == Head(owners)
      i      == (obj[2] \div Bits) + 1
      used   == [slab[n].used EXCEPT ![i] = @ \ {(obj[2] % Bits) + 1}]
  IN  /\ head /\ held[obj] > 0
      /\ held' = [held EXCEPT ![obj] = @ - 1]
      /\ \/ /\ owners = <<>>
            /\ UNCHANGED <<slab, list>>
         \/ /\ owners # <<>>
            /\ slab' = [slab EXCEPT ![n].used = used]
            /\ list' = Relist(n, used)
      /\ UNCHANGED <<head, avail, others, bogus>>

(* Mutant: the pages of the slabs are not given back. *)
TrimKeepsPages ==
  /\ list' = [list EXCEPT !["empty"] = <<>>]
  /\ UNCHANGED avail

(* Every slab of the empty list goes, with its pages. *)
Trim ==
  /\ list' = [list EXCEPT !["empty"] = <<>>]
  /\ avail' = avail \cup {slab[n].vaddr : n \in Listed("empty")}

cache_trim ==
  /\ head
  /\ Trim
  /\ UNCHANGED <<head, slab, others, held, bogus>>

(* Refused, with EOF, while a slab is partial or full. *)
cache_destroy ==
  /\ head /\ list["partial"] = <<>> /\ list["full"] = <<>>
  /\ Trim
  /\ head' = FALSE
  /\ UNCHANGED <<slab, others, held, bogus>>

(* The rest of the kernel allocates and frees pages. *)
OthersAlloc(p) ==
  /\ p \in avail
  /\ avail' = avail \ {p}
  /\ others' = others \cup {p}
  /\ UNCHANGED <<head, list, slab, held, bogus>>

OthersFree(p) ==
  /\ p \in others
  /\ others' = others \ {p}
  /\ avail' = avail \cup {p}
  /\ UNCHANGED <<head, list, slab, held, bogus>>

Next ==
  \/ cache_create \/ AllocListed \/ AllocExtended
  \/ \E obj \in Objects : cache_free(obj)
  \/ cache_trim \/ cache_destroy
  \/ \E p \in Places : OthersAlloc(p) \/ OthersFree(p)

Spec == Init /\ [][Next]_vars

-------------------------------------------------------------------------------
(* A slab is on one list, once, and its pages are its own; all pages that are
   not with other users are with the page allocator.  So destroying the cache loses nothing.  (Not once
   alloc_pages() has answered 0 without giving pages: __extend() takes that for
   success.) *)
SlabsConserved ==
  ~bogus => /\ Len(list["empty"]) + Len(list["partial"]) + Len(list["full"]) = Cardinality(InUse)
            /\ \A m, n \in InUse : m # n => slab[m].vaddr # slab[n].vaddr
            /\ {slab[n].vaddr : n \in InUse} \cap others = {}
            /\ avail = Places \ (others \cup {slab[n].vaddr : n \in InUse})

(* The list a slab is on tells how much of it is used, which __alloc(),
   __trim() and __destroy() rely on. *)
ListsTrue ==
  /\ \A n \in Listed("empty") : __is_empty(slab[n].used)
  /\ \A n \in Listed("partial") : ~__is_empty(slab[n].used) /\ ~__is_full(slab[n].used)

(* An object of the first byte of a slab is with exactly one client while its
   bit is set and with none while it is clear, also across trimming and
   destroying: no recorded object is handed out twice or dangles. *)
RecordedExclusive ==
  ~bogus => \A p \in Places, x \in 0 .. (Bits - 1) :
    held[<<p, x>>] = Cardinality({n \in InUse : slab[n].vaddr = p /\ x + 1 \in slab[n].used[1]})

(* The search of __alloc() never leaves the first byte, so the one object that
   several clients may have is the one just behind it. *)
OthersNeverUsed ==
  \A o \in Objects : o[2] > Bits => held[o] = 0
===============================================================================
