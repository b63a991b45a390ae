--------------------------------- MODULE PageMap ---------------------------------
(***************************************************************************)
(* What map_pages() and unmap_pages() promise in include/mm.h: an address  *)
(* space is a partial map from pages to frames.  A range is mapped as a    *)
(* whole, or refused because a page of it is mapped.  Unmapping a range    *)
(* takes away its first pages, how many is up to the machine.              *)
(***************************************************************************)
EXTENDS Integers

CONSTANTS Pages, PAddrs, MaxLen

VARIABLES
  map,      \* map[v]: {<<frame, writable>>}, or {} if v is not mapped
  req       \* the map_pages() in progress: {<<first page, pages, frame, writable>>} or {}

vars == <<map, req>>
Nothing == [v \in Pages |-> {}]
Init == map = Nothing /\ req = {}

Ranges == {<<v, n>> \in Pages \X (1 .. MaxLen) : v .. v + n - 1 \subseteq Pages}

Request ==
  /\ req = {}
  /\ \E r \in Ranges, p \in PAddrs, w \in BOOLEAN : req' = {<<r[1], r[2], p, w>>}
  /\ UNCHANGED map

Free(v, n) == \A i \in 0 .. n - 1 : map[v + i] = {}

Map ==
  /\ \E <<v, n, p, w>> \in req :
       /\ Free(v, n)
       /\ map' = [u \in Pages |-> IF u \in v .. v + n - 1 THEN {<<p + (u - v), w>>} ELSE map[u]]
  /\ req' = {}

Refuse ==
  /\ \E <<v, n, p, w>> \in req : ~Free(v, n)
  /\ req' = {}
  /\ UNCHANGED map

Unmap ==
  /\ req = {}
  /\ \E r \in Ranges : \E k \in 1 .. r[2] :
       map' = [u \in Pages |-> IF u \in r[1] .. r[1] + k - 1 THEN {} ELSE map[u]]
  /\ UNCHANGED req

Destroy == req = {} /\ map' = Nothing /\ UNCHANGED req

Next == Request \/ Map \/ Refuse \/ Unmap \/ Destroy

Spec == Init /\ [][Next]_vars
===============================================================================
