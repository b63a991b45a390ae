--------------------------------- MODULE DevList ---------------------------------
(***************************************************************************)
(* The device index, kern/dev/index: dev_add(), dev_remove(), dev_from_id()*)
(* and dev_from_name() called by several CPUs.  Each call walks a circular *)
(* list of entries (include/list.h) under one spinlock, which is the one   *)
(* of SpinLock.  A step is one entry of a walk, or what a call does at its *)
(* end.  Before <devlist> is initialised the calls answer at once.         *)
(***************************************************************************)
EXTENDS Integers, FiniteSetsExt

CONSTANTS
  CPUs,
  Devices,    \* the drivers' struct device
  Id,         \* Id[d]: the pair of id_major and id_minor, as one number
  Name,       \* Name[d]
  Bus,        \* Bus[d]: the device that is its bus, or NULL
  Nodes       \* what kmalloc() can return for an entry

NULL == "NULL"
Head == "__head"
Links == Nodes \cup {Head}

VARIABLES
  ready,      \* set_device_index() has been called
  next, prev, \* the links of the entries and of the sentry __head
  dev,        \* dev[n]: the device of an entry; NULL if n is free
  holders,    \* __lock
  call        \* call[c]: what a CPU is doing

vars == <<ready, next, prev, dev, holders, call>>

Lock == INSTANCE SpinLock

Idle == [op |-> "none"]

(* The links of free memory hold anything; that they point to the sentry makes no
   difference to code that does not follow them. *)
Init ==
  /\ ready = FALSE
  /\ next = [n \in Links |-> Head] /\ prev = [n \in Links |-> Head]
  /\ dev = [n \in Nodes |-> NULL]
  /\ Lock!Init
  /\ call = [c \in CPUs |-> Idle]

set_device_index ==
  /\ ~ready /\ ready' = TRUE
  /\ UNCHANGED <<next, prev, dev, holders, call>>

-------------------------------------------------------------------------------
(* __list_add(): four stores in this order. *)
__list_add(new, p, n) ==
  /\ prev' = [prev EXCEPT ![n] = new, ![new] = p]
  /\ next' = [[next EXCEPT ![new] = n] EXCEPT ![p] = new]

(* Mutant: only the forward link is taken out. *)
list_delForward(n) ==
  next' = [next EXCEPT ![prev[n]] = next[n], ![n] = Head] /\ prev' = [prev EXCEPT ![n] = Head]

(* The entry itself is free memory afterwards. *)
list_del(n) ==
  /\ prev' = [prev EXCEPT ![next[n]] = prev[n], ![n] = Head]
  /\ next' = [next EXCEPT ![prev[n]] = next[n], ![n] = Head]

(* for_each_entry(): tmp is the first entry, or the sentry. *)
Walking(c) == call[c].op # "none" /\ call[c].tmp \in Links
Return(c) == call' = [call EXCEPT ![c] = Idle]
Advance(c) == call' = [call EXCEPT ![c].tmp = next[@]]

-------------------------------------------------------------------------------
(* dev_add(): the entry is allocated before the lock is taken, or EOF.  Where it
   is makes no difference: entries are not compared. *)
CallAdd(c, d) ==
  /\ ready /\ call[c] = Idle
  /\ \E n \in Nodes : dev[n] = NULL
  /\ LET n == CHOOSE x \in Nodes : dev[x] = NULL
     IN  /\ dev' = [dev EXCEPT ![n] = d]
         /\ call' = [call EXCEPT ![c] = [op |-> "add", arg |-> n, tmp |-> "spin", this |-> NULL]]
  /\ UNCHANGED <<ready, next, prev, holders>>

Start(c, op, arg) ==
  /\ ready /\ call[c] = Idle
  /\ call' = [call EXCEPT ![c] = [op |-> op, arg |-> arg, tmp |-> "spin", this |-> NULL]]
  /\ UNCHANGED <<ready, next, prev, dev, holders>>

CallRemove(c, d) == Start(c, "remove", d)
CallFromId(c, i) == Start(c, "id", i)
CallFromName(c, s) == Start(c, "name", s)

(* Mutant: a lock that does not keep others out. *)
NoLock(c) == holders' = holders \cup {c}

spin_lock(c) == Lock!Acquire(c)
spin_unlock(c) == Lock!Release(c)

Enter(c) ==
  /\ call[c].op # "none" /\ call[c].tmp = "spin"
  /\ spin_lock(c)
  /\ call' = [call EXCEPT ![c].tmp = next[Head]]
  /\ UNCHANGED <<ready, next, prev, dev>>

Step(c) == Walking(c) /\ Advance(c) /\ UNCHANGED <<ready, next, prev, dev, holders>>

(* __cmp(a, b) > 0 *)
__cmp(a, b) == Id[dev[a]] > Id[dev[b]]

AddGoesOn(c) ==
  call[c].op = "add" /\ call[c].tmp \in Nodes /\ ~__cmp(call[c].tmp, call[c].arg) /\ Step(c)

AddInsert(c) ==
  /\ Walking(c) /\ call[c].op = "add"
  /\ call[c].tmp # Head => __cmp(call[c].tmp, call[c].arg)
  /\ __list_add(call[c].arg, prev[call[c].tmp], call[c].tmp)
  /\ spin_unlock(c) /\ Return(c)
  /\ UNCHANGED <<ready, dev>>

Attached(c) == Walking(c) /\ call[c].tmp # Head /\ Bus[dev[call[c].tmp]] = call[c].arg

(* Mutant: the walk ends at the entry, without a look at the others. *)
RemoveGoesOnToEntry(c) ==
  /\ call[c].op = "remove" /\ Walking(c) /\ call[c].tmp # Head /\ ~Attached(c)
  /\ call' = [call EXCEPT ![c] = IF dev[@.tmp] = @.arg
                                 THEN [@ EXCEPT !.this = call[c].tmp, !.tmp = Head]
                                 ELSE [@ EXCEPT !.tmp = next[@]]]
  /\ UNCHANGED <<ready, next, prev, dev, holders>>

(* The last entry of the device is remembered. *)
RemoveGoesOn(c) ==
  /\ call[c].op = "remove" /\ Walking(c) /\ call[c].tmp # Head /\ ~Attached(c)
  /\ call' = [call EXCEPT ![c] =
       [@ EXCEPT !.this = IF dev[call[c].tmp] = call[c].arg THEN call[c].tmp ELSE @,
                 !.tmp = next[@]]]
  /\ UNCHANGED <<ready, next, prev, dev, holders>>

(* EOF: a device is connected, or there is no entry. *)
RemoveRefused(c) ==
  /\ Walking(c) /\ call[c].op = "remove"
  /\ Attached(c) \/ (call[c].tmp = Head /\ call[c].this = NULL)
  /\ spin_unlock(c) /\ Return(c)
  /\ UNCHANGED <<ready, next, prev, dev>>

RemoveEntry(c) ==
  /\ call[c].op = "remove" /\ call[c].tmp = Head /\ call[c].this # NULL
  /\ list_del(call[c].this)
  /\ dev' = [dev EXCEPT ![call[c].this] = NULL]
  /\ spin_unlock(c) /\ Return(c)
  /\ UNCHANGED ready

Matches(c, n) ==
  \/ call[c].op = "id" /\ Id[dev[n]] = call[c].arg
  \/ call[c].op = "name" /\ Name[dev[n]] = call[c].arg

LookupGoesOn(c) ==
  call[c].op \in {"id", "name"} /\ call[c].tmp \in Nodes /\ ~Matches(c, call[c].tmp) /\ Step(c)

(* The device, or NULL at the sentry. *)
LookupEnds(c) ==
  /\ Walking(c) /\ call[c].op \in {"id", "name"}
  /\ call[c].tmp # Head => Matches(c, call[c].tmp)
  /\ spin_unlock(c) /\ Return(c)
  /\ UNCHANGED <<ready, next, prev, dev>>

Work(c) ==
  \/ Enter(c) \/ AddGoesOn(c) \/ AddInsert(c) \/ RemoveGoesOn(c) \/ RemoveRefused(c)
  \/ RemoveEntry(c) \/ LookupGoesOn(c) \/ LookupEnds(c)

Next ==
  \/ set_device_index
  \/ \E c \in CPUs :
       \/ \E d \in Devices : CallAdd(c, d) \/ CallRemove(c, d)
                             \/ CallFromId(c, Id[d]) \/ CallFromName(c, Name[d])
       \/ Work(c)

Spec == Init /\ [][Next]_vars

(* A CPU goes on executing. *)
Fairness == \A c \in CPUs : WF_vars(Work(c))

-------------------------------------------------------------------------------
InUse == {n \in Nodes : dev[n] # NULL}
BeingAdded == {call[c].arg : c \in {x \in CPUs : call[x].op = "add"}}
Listed == InUse \ BeingAdded

(* Whatever the CPUs add and remove, the entries in use are the listed ones and the
   ones on their way in, both chains visit every listed entry, one backwards, and
   the devices are in the order of their ids. *)
ListIntact ==
  LET ring == Listed \cup {Head}
  IN  /\ \A n \in ring : next[n] \in ring /\ prev[next[n]] = n /\ next[prev[n]] = n
      /\ \A S \in SUBSET ring : Head \in S /\ (\A n \in S : next[n] \in S) => S = ring
      /\ \A n \in Listed : next[n] # Head => Id[dev[n]] <= Id[dev[next[n]]]

(* A walk stands on the sentry or on a listed entry, never on one that dev_remove()
   has freed meanwhile. *)
WalksOnList == \A c \in CPUs : Walking(c) => call[c].tmp \in Listed \cup {Head}

(* A bus does not disappear from under a device: dev_remove() takes an entry out
   only while no listed device has it as its bus. *)
BusKept ==
  [][\A n \in Listed : dev'[n] = NULL => \A m \in Listed : Bus[dev[m]] # dev[n]]_vars

(* Every walk comes to its end. *)
WalksEnd == \A c \in CPUs : Walking(c) ~> call[c] = Idle
===============================================================================
