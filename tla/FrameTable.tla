----------------------------- MODULE FrameTable -----------------------------
(***************************************************************************)
(* The root server's frame table (root_server/src/frame_table.rs).         *)
(*                                                                         *)
(* Every 4K frame of anonymous memory has an entry that sits on one of two *)
(* doubly-linked lists, threaded through the entries by frame reference.   *)
(* Callers (memory objects, IPC and shared buffers, notification buffers)  *)
(* keep references they got from alloc_frame and hand them back to         *)
(* free_frame; nothing but the lists says who owns a frame.                *)
(***************************************************************************)
EXTENDS Integers, FiniteSets

CONSTANTS
  MaxFrames,     \* bound: entries the untyped memory can ever back
  PerPage,       \* entries gained by one bump_capacity: those in a page
  MaxHolders,    \* bound: holders counted per frame
  None           \* Option::None

ASSUME FrameTableAssumption ==
  /\ MaxFrames \in Nat \ {0}
  /\ PerPage \in Nat \ {0}
  /\ MaxHolders \in Nat \ {0}
  /\ None \notin Nat

Ref    == 0 .. MaxFrames - 1
OptRef == Ref \cup {None}
Lists  == {"FreeList", "AllocatedList"}
ListID == Lists \cup {"NoList"}

VARIABLES
  table,    \* the entries' links and the two list headers
  used,     \* FrameTable.used
  capacity, \* FrameTable.capacity
  holders,  \* how many callers believe they own each frame
  panicked, \* an assert! or unwrap() of the table failed
  strayed   \* history: a page that is not the table's was released to it

vars == <<table, used, capacity, holders, panicked, strayed>>

Table == [prev:   [Ref -> OptRef],
          next:   [Ref -> OptRef],
          id:     [Ref -> ListID],
          first:  [Lists -> OptRef],
          last:   [Lists -> OptRef],
          length: [Lists -> Int]]

EmptyTable ==
  [prev   |-> [f \in Ref |-> None],
   next   |-> [f \in Ref |-> None],
   id     |-> [f \in Ref |-> "NoList"],
   first  |-> [l \in Lists |-> None],
   last   |-> [l \in Lists |-> None],
   length |-> [l \in Lists |-> 0]]

-----------------------------------------------------------------------------
(* The list operations, as functions of the table.  push_front and         *)
(* push_back also assert that the entry is on no list; every caller pops,  *)
(* removes or resets it just before, so that is left out.                  *)

PopAsserts(t, l) ==
  LET h == t.first[l] IN
  /\ t.prev[h] = None
  /\ (t.last[l] = h) <=> (t.next[h] = None)

PopFront(t, l) ==
  LET h == t.first[l]
      n == t.next[h]
  IN [prev   |-> [f \in Ref |-> IF f \in {h, n} THEN None ELSE t.prev[f]],
      next   |-> [t.next EXCEPT ![h] = None],
      id     |-> [t.id EXCEPT ![h] = "NoList"],
      first  |-> [t.first EXCEPT ![l] = n],
      last   |-> [t.last EXCEPT ![l] = IF @ = h THEN None ELSE @],
      length |-> [t.length EXCEPT ![l] = @ - 1]]

PushFront(t, l, f) ==
  LET h == t.first[l]
  IN [prev   |-> [g \in Ref |-> IF g = h THEN f ELSE t.prev[g]],
      next   |-> [t.next EXCEPT ![f] = h],
      id     |-> [t.id EXCEPT ![f] = l],
      first  |-> [t.first EXCEPT ![l] = f],
      last   |-> [t.last EXCEPT ![l] = IF @ = None THEN f ELSE @],
      length |-> [t.length EXCEPT ![l] = @ + 1]]

(* A push_back that forgets to link the old last entry to the new one.     *)
PushBackUnlinked(t, l, f) ==
  LET b == t.last[l]
  IN IF b = None
     THEN PushFront(t, l, f)
     ELSE [t EXCEPT !.prev[f] = b, !.id[f] = l, !.last[l] = f,
                    !.length[l] = @ + 1]

PushBack(t, l, f) ==
  LET b == t.last[l]
  IN IF b = None
     THEN PushFront(t, l, f)
     ELSE [prev   |-> [t.prev EXCEPT ![f] = b],
           next   |-> [t.next EXCEPT ![b] = f],
           id     |-> [t.id EXCEPT ![f] = l],
           first  |-> t.first,
           last   |-> [t.last EXCEPT ![l] = f],
           length |-> [t.length EXCEPT ![l] = @ + 1]]

RemoveFrame(t, l, f) ==
  LET p == t.prev[f]
      n == t.next[f]
  IN [prev   |-> [g \in Ref |-> IF g = f THEN None
                               ELSE IF g = n THEN p ELSE t.prev[g]],
      next   |-> [g \in Ref |-> IF g = f THEN None
                               ELSE IF g = p THEN n ELSE t.next[g]],
      id     |-> [t.id EXCEPT ![f] = "NoList"],
      first  |-> [t.first EXCEPT ![l] = IF p = None THEN n ELSE @],
      last   |-> [t.last EXCEPT ![l] = IF n = None THEN p ELSE @],
      length |-> [t.length EXCEPT ![l] = @ - 1]]

-----------------------------------------------------------------------------
Init ==
  /\ table = EmptyTable
  /\ used = 0
  /\ capacity = 0
  /\ holders = [f \in Ref |-> 0]
  /\ panicked = FALSE
  /\ strayed = FALSE

Panic ==
  /\ panicked' = TRUE
  /\ UNCHANGED <<table, used, capacity, holders>>

(* An alloc_frame that hands the frame out without listing it.             *)
HandOutUnlisted(t, f) ==
  /\ table' = t
  /\ holders' = [holders EXCEPT ![f] = @ + 1]

(* The tail of alloc_frame: link the frame and hand its reference out.     *)
HandOut(t, f) ==
  /\ table' = PushBack(t, "AllocatedList", f)
  /\ holders' = [holders EXCEPT ![f] = @ + 1]

(* alloc_frame when the free list has a frame.                             *)
AllocFromFreeList ==
  LET h == table.first["FreeList"]
      t == PopFront(table, "FreeList")
  IN
  /\ h # None
  /\ holders[h] < MaxHolders
  /\ IF PopAsserts(table, "FreeList")
     THEN /\ HandOut(t, h)
          /\ UNCHANGED <<used, capacity, panicked>>
     ELSE Panic
  /\ UNCHANGED strayed

(* alloc_frame when the free list is empty: alloc_fresh_frame, which first *)
(* grows the entry array if it is full (bump_capacity).  An untyped, a     *)
(* slot, the retype or the mapping can fail in either allocation.          *)
BumpedCapacity == IF used = capacity THEN capacity + PerPage ELSE capacity

(* The entry of a fresh frame: set_list_id, set_prev and set_next.         *)
Reset(t, f) ==
  [prev   |-> [t.prev EXCEPT ![f] = None],
   next   |-> [t.next EXCEPT ![f] = None],
   id     |-> [t.id EXCEPT ![f] = "NoList"],
   first  |-> t.first,
   last   |-> t.last,
   length |-> t.length]

AllocFresh ==
  /\ table.first["FreeList"] = None
  /\ used < MaxFrames
  /\ holders[used] < MaxHolders
  /\ capacity' = BumpedCapacity
  /\ used' = used + 1
  /\ HandOut(Reset(table, used), used)
  /\ UNCHANGED <<panicked, strayed>>

(* bump_capacity fails: `?` returns before anything is changed.            *)
AllocFailsBumping ==
  /\ table.first["FreeList"] = None
  /\ used = capacity
  /\ UNCHANGED vars

(* The same without `used -= 1` on the way out.                            *)
AllocFailsFreshUncounted ==
  /\ table.first["FreeList"] = None
  /\ used' = used + 1
  /\ capacity' = BumpedCapacity
  /\ UNCHANGED <<table, holders, panicked, strayed>>

(* The frame itself fails after a successful bump: `used` is put back.     *)
AllocFailsFresh ==
  /\ table.first["FreeList"] = None
  /\ capacity' = BumpedCapacity
  /\ UNCHANGED <<table, used, holders, panicked, strayed>>

(* free_frame on a reference: it must be inside the array and allocated.   *)
Release(f) ==
  IF f < capacity /\ f \in Ref /\ table.id[f] = "AllocatedList"
  THEN LET t == RemoveFrame(table, "AllocatedList", f) IN
       /\ table' = PushFront(t, "FreeList", f)
       /\ UNCHANGED <<used, capacity, panicked>>
  ELSE /\ panicked' = TRUE
       /\ UNCHANGED <<table, used, capacity>>

(* A caller gives back a frame it was handed.                              *)
FreeFrame(f) ==
  /\ holders[f] > 0
  /\ holders' = [holders EXCEPT ![f] = @ - 1]
  /\ Release(f)
  /\ UNCHANGED strayed

(* One page of a DEVICE or CONTIGUOUS object is cleaned up.  Such a page   *)
(* did not come from the table and its entry carries frame_ref 0.          *)
FreeDevicePage ==
  /\ Release(0)
  /\ strayed' = TRUE
  /\ UNCHANGED holders

Next ==
  /\ ~panicked
  /\ \/ AllocFromFreeList
     \/ AllocFresh
     \/ AllocFailsBumping
     \/ AllocFailsFresh
     \/ \E f \in Ref : FreeFrame(f)
     \/ FreeDevicePage

Spec == Init /\ [][Next]_vars

-----------------------------------------------------------------------------
TypeOK ==
  /\ table \in Table
  /\ used \in 0 .. MaxFrames
  /\ capacity \in 0 .. MaxFrames + PerPage
  /\ holders \in [Ref -> 0 .. MaxHolders]
  /\ panicked \in BOOLEAN
  /\ strayed \in BOOLEAN

On(t, l) == {f \in Ref : t.id[f] = l}

(* Neighbours agree about each other and are on the same list; an entry on *)
(* no list has no neighbours.                                              *)
LinksMutual(t) ==
  \A f \in Ref :
    /\ t.id[f] = "NoList" => t.prev[f] = None /\ t.next[f] = None
    /\ t.next[f] # None => /\ t.prev[t.next[f]] = f
                           /\ t.id[t.next[f]] = t.id[f]
    /\ t.prev[f] # None => /\ t.next[t.prev[f]] = f
                           /\ t.id[t.prev[f]] = t.id[f]

(* A header points at exactly the entry of its list without a predecessor, *)
(* and at the one without a successor.                                     *)
HeadersAgree(t) ==
  \A l \in Lists :
    /\ t.first[l] = None <=> t.last[l] = None
    /\ \A f \in Ref :
         /\ t.first[l] = f <=> t.id[f] = l /\ t.prev[f] = None
         /\ t.last[l]  = f <=> t.id[f] = l /\ t.next[f] = None

LengthsAgree(t) == \A l \in Lists : t.length[l] = Cardinality(On(t, l))

(* The links of the two lists stay consistent through every alloc_frame,   *)
(* free_frame and failed allocation: what pop_front, push_front, push_back *)
(* and remove_frame must preserve together.                                *)
ListInv ==
  /\ LinksMutual(table)
  /\ HeadersAgree(table)
  /\ LengthsAgree(table)

(* Walking `next` from a list's first entry visits every entry marked as   *)
(* being on that list: no entry is stranded on a detached cycle, out of    *)
(* the reach of pop_front.                                                 *)
Walk(t, l) ==
  LET step[n \in 0 .. MaxFrames] ==
        IF n = 0 THEN t.first[l]
        ELSE IF step[n - 1] = None THEN None ELSE t.next[step[n - 1]]
  IN {step[n] : n \in 0 .. MaxFrames} \ {None}

ListsAreChains == \A l \in Lists : Walk(table, l) = On(table, l)

(* Until a page that is not its own is released to it, the table counts    *)
(* right: a frame is allocated exactly while one caller holds it.          *)
(* alloc_frame never hands out a held frame and free_frame never loses     *)
(* one, so two memory objects never share a page by accident, and no       *)
(* assertion of the table can fail.                                        *)
ExclusiveOwnership ==
  ~strayed =>
    /\ ~panicked
    /\ \A f \in Ref :
         holders[f] = (IF table.id[f] = "AllocatedList" THEN 1 ELSE 0)

(* Every entry below `used` is on one of the lists, and none above it,     *)
(* whatever allocations failed: alloc_fresh_frame's `used -= 1` gives the  *)
(* entry back, and a frame that was ever created can be reused.            *)
NoFrameLost ==
  /\ used <= capacity
  /\ \A f \in Ref : table.id[f] # "NoList" <=> f < used

(* All of this together is what each of the table's routines relies on and *)
(* keeps: the routines that link entries need to know which entries are on *)
(* the list, and nothing is lost only as long as the links are right.      *)
TableInv == TypeOK /\ ListInv /\ NoFrameLost

(* object.rs and frame_table.rs say of DEVICE pages that they are not from *)
(* the frame table and have no real reference, so cleaning one up must not *)
(* take a frame from whoever holds it.                                     *)
HeldFramesStayAllocated ==
  \A f \in Ref : holders[f] > 0 => table.id[f] = "AllocatedList"

(* To its callers the table is the pool that FramePool describes: the      *)
(* frame alloc_frame returns is one that nobody holds, memory is taken     *)
(* only when the frames there are are all held, and a failed allocation    *)
(* changes nothing they can see.                                           *)
Pool == INSTANCE FramePool WITH made <- used, spoilt <- strayed
ImplementsPool == Pool!Spec

=============================================================================
