---------------------------- MODULE UntypedTable ----------------------------
(***************************************************************************)
(* The root server's table of untyped memory (root_server/src/ut.rs) and   *)
(* what is built on it: alloc_retype and dealloc_retyped (util.rs) and the *)
(* page tables of map_frame (mapping.rs).                                  *)
(*                                                                         *)
(* A UT structure stands for one untyped capability.  Structures are       *)
(* linked through `next` into one list per size and one list of spares;    *)
(* an allocation that finds its list empty allocates the next size up and  *)
(* splits it, which takes two spares, and the spares come from pages of    *)
(* the table itself.  What a structure is for is written nowhere: a        *)
(* structure on two lists, or on none, looks like any other.               *)
(*                                                                         *)
(* Sizes are 0 .. Top, Top the page.  Slots of the capability space come   *)
(* from SlotTable; here an alloc_slot may fail.                            *)
(***************************************************************************)
EXTENDS Integers, FiniteSets

CONSTANTS
  Pages,      \* 4K untypeds that add_untyped_range puts on the free list
  Top,        \* seL4_PageBits, counted from the smallest size
  PerPage,    \* UT structures that fit in a page
  MaxTables,  \* MAPPING_SLOTS: page tables one mapping may need
  None

ASSUME UntypedAssumption ==
  /\ Pages \in Nat /\ Top \in Nat \ {0} /\ MaxTables \in Nat
  /\ PerPage \in Nat \ {0, 1}
  /\ None \notin Nat

Sizes == 0 .. Top
Spare == -1    \* the list of spare structures
Lists == Sizes \cup {Spare}
UTs == 1 .. Pages * (PerPage + 1) \* every page could become structures
MaxUT == Pages * (PerPage + 1)

VARIABLES
  head,     \* free_untypeds and free_structures
  next,     \* UT.next
  size,     \* UT.size_bits
  made,     \* structures that exist: those of the pages, then the table's
  parent,   \* the untyped a structure's was split from, None for a page
  live,     \* capabilities derived from each untyped (the kernel's)
  held,     \* untypeds under the objects that alloc_retype has handed out
  tables,   \* untypeds under page tables and pages of structures
  lost,     \* untypeds nobody has a record of
  call,     \* an alloc in progress: the size wanted, and what it has so far
  result,   \* how the last allocation ended
  incidents \* history: what has happened so far of Incidents

vars == <<head, next, size, made, parent, live, held, tables, lost, call,
          result, incidents>>

(* "leak": ensure_new_structures or map_frame failed with an untyped in    *)
(* hand.                                                                   *)
Incidents == {"leak"}

Idle == [want |-> None, ut |-> None]

Init ==
  /\ head = [l \in Lists |-> IF l = Top /\ Pages > 0 THEN Pages ELSE None]
  /\ next = [u \in UTs |-> IF u \in 2 .. Pages THEN u - 1 ELSE None]
  /\ size = [u \in UTs |-> Top]
  /\ made = Pages
  /\ parent = [u \in UTs |-> None]
  /\ live = [u \in UTs |-> 0]
  /\ held = {}
  /\ tables = {}
  /\ lost = {}
  /\ call = Idle
  /\ result = "none"
  /\ incidents = {}

(* push and pop of ut.rs, on a pair [head, next].                          *)
Push(h, l, u) == [head |-> [h.head EXCEPT ![l] = u],
                  next |-> [h.next EXCEPT ![u] = h.head[l]]]
Pop(h, l) == [h EXCEPT !.head[l] = h.next[h.head[l]]]
Now == [head |-> head, next |-> next]
Become(h) == head' = h.head /\ next' = h.next

GiveNot(h, u) == IF u = None THEN h ELSE h
Give(h, u) == Push(h, size[u], u) \* UTTable::free

(* The call returns, with an error or with "none".                         *)
Return(why) == call' = Idle /\ result' = why

-----------------------------------------------------------------------------
(* UTTable::alloc(want), called by alloc_retype: the recursion goes up to  *)
(* the first size with something on its list and takes that.               *)
Nearest(want, l) ==
  /\ l \in want .. Top
  /\ head[l] # None
  /\ \A k \in want .. l - 1 : head[k] = None

AllocFails(want) ==
  /\ call = Idle
  /\ \A l \in want .. Top : head[l] = None
  /\ Return("no_memory")
  /\ UNCHANGED <<head, next, size, made, parent, live, held, tables, lost,
                 incidents>>

AllocBegins(want) ==
  /\ call = Idle
  /\ \E l \in want .. Top :
       /\ Nearest(want, l)
       /\ call' = [want |-> want, ut |-> head[l]]
       /\ Become(Pop(Now, l))
  /\ UNCHANGED <<size, made, parent, live, held, tables, lost, result,
                 incidents>>

Splitting == call # Idle /\ size[call.ut] > call.want

(* ensure_new_structures: a split needs two spares at hand.                *)
TwoSpares == head[Spare] # None /\ next[head[Spare]] # None

MorePushed(h) ==
  LET up[n \in 0 .. PerPage] ==
        IF n = 0 THEN h ELSE Push(up[n - 1], Spare, made + n)
  IN up[PerPage]

EnsureStructures ==
  /\ Splitting
  /\ ~TwoSpares
  /\ IF head[Top] = None
     THEN /\ Become(Give(Now, call.ut))
          /\ Return("no_memory")
          /\ UNCHANGED <<made, live, tables, lost, incidents>>
     ELSE LET page == head[Top] IN
          \/ /\ Become(MorePushed(Pop(Now, Top)))
             /\ made' = made + PerPage
             /\ tables' = tables \cup {page}
             /\ live' = [live EXCEPT ![page] = 1]
             /\ UNCHANGED <<lost, call, result, incidents>>
          \/ \* no slot, or the page cannot be retyped or mapped
             /\ Become(Give(Pop(Now, Top), call.ut))
             /\ lost' = lost \cup {page}
             /\ incidents' = incidents \cup {"leak"}
             /\ Return("no_structures")
             /\ UNCHANGED <<made, live, tables>>
  /\ UNCHANGED <<size, parent, held>>

(* One level of the split: two structures, two slots, two retypes; then    *)
(* the second half is popped again for the level below.                    *)
Halves(u, n1, n2) ==
  /\ size' = [size EXCEPT ![n1] = size[u] - 1, ![n2] = size[u] - 1]
  /\ parent' = [parent EXCEPT ![n1] = u, ![n2] = u]
  /\ live' = [live EXCEPT ![u] = 2, ![n1] = 0, ![n2] = 0]

(* The first pop of the spares, and the second; the two others are for the *)
(* mutants: the second half not popped, and what is split up freed too.    *)
AfterOnePop == Pop(Now, Spare)
AfterPopsAndFree == Give(Pop(Pop(Now, Spare), Spare), call.ut)
AfterPops == Pop(Pop(Now, Spare), Spare)

Split ==
  /\ Splitting
  /\ TwoSpares
  /\ live[call.ut] = 0
  /\ LET u  == call.ut
         n1 == head[Spare]
         n2 == next[n1]
         l  == size[u] - 1
     IN /\ Halves(u, n1, n2)
        /\ Become(Pop(Push(Push(AfterPops, l, n1), l, n2), l))
        /\ call' = [call EXCEPT !.ut = n2]
  /\ UNCHANGED <<made, held, tables, lost, result, incidents>>

(* No slot for the first half, or for the second, or a retype is refused:  *)
(* larger is freed and the spares are put back in the order they came.     *)
SplitFails ==
  /\ Splitting
  /\ TwoSpares
  /\ LET n1 == head[Spare]
         n2 == next[n1]
         larger == Give(AfterPops, call.ut)
     IN \/ Become(Push([larger EXCEPT !.head[Spare] = n2], Spare, n1))
        \/ Become(Push(Push(larger, Spare, n1), Spare, n2))
  /\ Return(IF live[call.ut] = 0 THEN "no_slot" ELSE "retype")
  /\ UNCHANGED <<size, made, parent, live, held, tables, lost, incidents>>

(* alloc has what was wanted: alloc_retype takes a slot and retypes.  The  *)
(* kernel refuses an untyped that still has something derived from it.     *)
Retype ==
  /\ call # Idle
  /\ size[call.ut] = call.want
  /\ \/ /\ live[call.ut] = 0
        /\ live' = [live EXCEPT ![call.ut] = 1]
        /\ held' = held \cup {call.ut}
        /\ Return("none")
        /\ UNCHANGED <<head, next>>
     \/ /\ Become(Give(Now, call.ut))
        /\ Return(IF live[call.ut] = 0 THEN "no_slot" ELSE "retype")
        /\ UNCHANGED <<live, held>>
  /\ UNCHANGED <<size, made, parent, tables, lost, incidents>>

-----------------------------------------------------------------------------
(* dealloc_retyped: the object's capability is deleted and the untyped     *)
(* freed.                                                                  *)
Dealloc(u) ==
  /\ call = Idle
  /\ u \in held
  /\ live' = [live EXCEPT ![u] = 0]
  /\ held' = held \ {u}
  /\ Become(Give(Now, u))
  /\ UNCHANGED <<size, made, parent, tables, lost, call, result, incidents>>

(* map_frame, one page table of it: the untyped is recorded nowhere, and   *)
(* is gone at once if there is no slot or the table cannot be made.        *)
MapTable ==
  /\ call = Idle
  /\ Cardinality(tables) < MaxTables
  /\ head[Top] # None
  /\ Become(Pop(Now, Top))
  /\ \/ /\ tables' = tables \cup {head[Top]}
        /\ live' = [live EXCEPT ![head[Top]] = 1]
        /\ UNCHANGED <<lost, incidents>>
     \/ /\ lost' = lost \cup {head[Top]}
        /\ incidents' = incidents \cup {"leak"}
        /\ UNCHANGED <<tables, live>>
  /\ UNCHANGED <<size, made, parent, held, call, result>>

-----------------------------------------------------------------------------
Next ==
  \/ \E want \in Sizes : AllocFails(want) \/ AllocBegins(want)
  \/ EnsureStructures
  \/ Split
  \/ SplitFails
  \/ Retype
  \/ \E u \in held : Dealloc(u)
  \/ MapTable

Spec == Init /\ [][Next]_vars

-----------------------------------------------------------------------------
TypeOK ==
  /\ head \in [Lists -> UTs \cup {None}]
  /\ next \in [UTs -> UTs \cup {None}]
  /\ size \in [UTs -> Sizes]
  /\ made \in Pages .. MaxUT
  /\ parent \in [UTs -> UTs \cup {None}]
  /\ live \in [UTs -> 0 .. 2]
  /\ held \subseteq UTs /\ tables \subseteq UTs /\ lost \subseteq UTs
  /\ call \in {Idle} \cup [want : Sizes, ut : UTs]
  /\ result \in {"none", "no_memory", "no_structures", "no_slot", "retype"}
  /\ incidents \subseteq Incidents

(* Where a list's links lead from its head; a list that ends leads to None *)
(* and one tied into a knot never does.                                    *)
Hop(U) == U \cup {next[u] : u \in U \ {None}}
Led(l) ==
  LET after[n \in 0 .. MaxUT] == IF n = 0 THEN {head[l]} ELSE Hop(after[n - 1])
  IN after[MaxUT]
On(l) == Led(l) \ {None}
Ends(l) == None \in Led(l)

(* Every list ends and holds structures of its size, and no structure is   *)
(* on two: popping one list never disturbs another, and nothing is used    *)
(* after it was pushed.                                                    *)
ListsAreApart ==
  LET on == [l \in Lists |-> On(l)] IN
  /\ TypeOK
  /\ \A l \in Lists : Ends(l)
  /\ \A l \in Sizes : \A u \in on[l] : size[u] = l
  /\ \A l, k \in Lists : l # k => on[l] \cap on[k] = {}

Free == UNION {On(l) : l \in Sizes}
InCall == IF call = Idle THEN {} ELSE {call.ut}
WasSplit == {parent[v] : v \in 1 .. made} \ {None}

(* No untyped is forgotten: one that is not free, held, in the hands of a  *)
(* call, under a page table or split up has been leaked where a failure    *)
(* leaks, and nothing is two of these at once.                             *)
Ownership == <<Free, On(Spare), held, tables, lost, InCall, WasSplit>>
IsPartition(P, S) ==
  /\ UNION {P[k] : k \in DOMAIN P} = S
  /\ \A j, k \in DOMAIN P : j # k => P[j] \cap P[k] = {}
NothingForgotten ==
  /\ IsPartition(Ownership, 1 .. made)
  /\ "leak" \notin incidents => lost = {}

(* Two untypeds that can be handed out or are in use never share memory:   *)
(* one is not a part of the other.  And what alloc hands out is empty, so  *)
(* the kernel never refuses to retype it: an untyped goes back only after  *)
(* the object on it was deleted.                                           *)
Ancestors(u) ==
  LET up[n \in 0 .. Top] ==
        IF n = 0 THEN {u} ELSE {parent[v] : v \in up[n - 1] \ {None}}
  IN UNION {up[n] : n \in 1 .. Top}
Whole == Free \cup held \cup tables \cup InCall
NoOverlap ==
  /\ LET whole == Whole IN \A u \in whole : Ancestors(u) \cap whole = {}
  /\ result # "retype"

=============================================================================
