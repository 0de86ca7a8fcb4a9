----------------------------- MODULE SlotTable -----------------------------
(***************************************************************************)
(* The root server's two-level capability space                            *)
(* (root_server/src/cspace.rs) on the bit fields of bitfield/src/lib.rs,   *)
(* as smos_bootstrap leaves it (root_server/src/bootstrap.rs).             *)
(*                                                                         *)
(* A bit field is the set of its bits that are set.  The top-level field   *)
(* says which bottom-level CNodes are full, and each bottom-level field    *)
(* says which slots of its CNode are taken.  The two are kept apart, and   *)
(* only a CNode that is not marked full is ever searched.                  *)
(***************************************************************************)
EXTENDS Integers

CONSTANTS
  NumCnodes,      \* bottom-level CNodes made by bootstrap (n_cnodes)
  SlotsPerCnode,  \* CNODE_SLOTS(CNODE_SIZE_BITS)
  CnodesPerNode,  \* BOT_LVL_PER_NODE: CNodes that share a bookkeeping page
  BootSizes,      \* values first_free_slot may have at the end of bootstrap
  WatermarkSlots  \* WATERMARK_SLOTS

ASSUME SlotAssumption ==
  /\ NumCnodes \in Nat \ {0}
  /\ SlotsPerCnode \in Nat \ {0, 1}
  /\ CnodesPerNode \in Nat \ {0}
  /\ WatermarkSlots \in Nat
  /\ BootSizes \subseteq 1 .. NumCnodes * SlotsPerCnode - 1

Cnodes == 0 .. NumCnodes - 1
Bits == 0 .. SlotsPerCnode - 1
Slots == 0 .. NumCnodes * SlotsPerCnode - 1

TopIndex(c) == c \div SlotsPerCnode
BotIndex(c) == c % SlotsPerCnode
LastBit == SlotsPerCnode - 1

(* bf_first_free, where there is one: the lowest bit that is not set.      *)
Least(S) == CHOOSE m \in S : \A k \in S : m <= k

-----------------------------------------------------------------------------
(* What smos_bootstrap records of the slots below first_free_slot, which   *)
(* it has used.  The CNodes they fill are marked full at the top level; of *)
(* their own bit fields only the first one's of each bookkeeping page is   *)
(* set, whatever the CNode, because the inner loop's index hides the       *)
(* outer's.  The CNode they only begin has its bits set one by one.        *)
BootstrappedShort(first) == \* for a mutant: the last full CNode unmarked
  [top |-> {n \in Cnodes : n < TopIndex(first) - 1},
   bot |-> [n \in Cnodes |->
              IF n = TopIndex(first)
              THEN {b \in Bits : b < BotIndex(first)}
              ELSE IF n < TopIndex(first) /\ n % CnodesPerNode = 0
              THEN Bits
              ELSE {}]]
Bootstrapped(first) ==
  [top |-> {n \in Cnodes : n < TopIndex(first)},
   bot |-> [n \in Cnodes |->
              IF n = TopIndex(first)
              THEN {b \in Bits : b < BotIndex(first)}
              ELSE IF n < TopIndex(first) /\ n % CnodesPerNode = 0
              THEN Bits
              ELSE {}]]

(* The CNode alloc_slot looks in: the first not marked full.  NumCnodes    *)
(* stands for one that does not exist yet.                                 *)
Candidate(cs) == Least({n \in Cnodes \cup {NumCnodes} : n \notin cs.top})
Room(cs) == Bits \ cs.bot[Candidate(cs)]

(* How alloc_slot ends.  "panic": ensure_levels is a todo!().  "stuck":    *)
(* the CNode is full but not marked, an error.  "spent": the slot taken    *)
(* was the CNode's last, and the search for the next free one fails after  *)
(* the bit is set: an error too.                                           *)
Outcome(cs) ==
  IF Candidate(cs) = NumCnodes THEN "panic"
  ELSE IF Room(cs) = {} THEN "stuck"
  ELSE IF Room(cs) = {Least(Room(cs))} THEN "spent"
  ELSE "slot"

FirstSlot(cs) == Candidate(cs) * SlotsPerCnode + Least(Room(cs))

(* A CNode is marked full when its first free slot is its last.            *)
IsNowFullLate(room) == Least(room) > LastBit \* for a mutant
IsNowFull(room) == Least(room) >= LastBit

Taken(cs) ==
  LET n == Candidate(cs)
      b == Least(Room(cs))
  IN [top |-> IF Outcome(cs) = "slot" /\ IsNowFull(Room(cs) \ {b})
              THEN cs.top \cup {n} ELSE cs.top,
      bot |-> [cs.bot EXCEPT ![n] = @ \cup {b}]]

(* alloc_slot: the capability space afterwards.                            *)
Allocated(cs) ==
  IF Outcome(cs) \in {"slot", "spent"} THEN Taken(cs) ELSE cs

(* free_slot: slot 0 is nobody's, and slots that do not exist are refused. *)
Freed(cs, c) ==
  IF c = 0 \/ c \notin Slots THEN cs
  ELSE [top |-> cs.top \ {TopIndex(c)},
        bot |-> [cs.bot EXCEPT ![TopIndex(c)] = @ \ {BotIndex(c)}]]

-----------------------------------------------------------------------------
VARIABLES
  cspace,    \* CSpace: top_bf and the bottom-level bit fields
  boot,      \* first_free_slot when bootstrap recorded the slots it used
  watermark, \* how many of the watermark slots are filled
  owned,     \* the slots alloc_slot has handed out and not got back
  last,      \* the slot the last call has returned, NoSlot if none
  result     \* how the last alloc_slot ended

vars == <<cspace, boot, watermark, owned, last, result>>

NoSlot == -1

Init ==
  /\ boot \in BootSizes
  /\ cspace = Bootstrapped(boot)
  /\ watermark = 0
  /\ owned = {}
  /\ last = NoSlot
  /\ result = "none"

(* alloc_slot, for whoever calls it.                                       *)
Alloc ==
  /\ result' = Outcome(cspace)
  /\ cspace' = Allocated(cspace)
  /\ owned' = IF Outcome(cspace) = "slot"
              THEN owned \cup {FirstSlot(cspace)} ELSE owned
  /\ last' = IF Outcome(cspace) = "slot" THEN FirstSlot(cspace) ELSE NoSlot
  /\ UNCHANGED boot

(* The last act of bootstrap: filling the watermark.  An error there is    *)
(* the end of the root server, as a panic is.                              *)
FillWatermark ==
  /\ watermark < WatermarkSlots
  /\ result \in {"none", "slot"}
  /\ Alloc
  /\ watermark' = watermark + 1

(* The root server at work: alloc_slot and alloc_cap ...                   *)
AllocSlot ==
  /\ watermark = WatermarkSlots
  /\ result # "panic"
  /\ Alloc
  /\ UNCHANGED watermark

(* ... and free_slot and free_cap, of slots alloc_slot has handed out.     *)
FreeSlot(c) ==
  /\ watermark = WatermarkSlots
  /\ result # "panic"
  /\ c \in owned
  /\ cspace' = Freed(cspace, c)
  /\ owned' = owned \ {c}
  /\ last' = NoSlot
  /\ UNCHANGED <<boot, watermark, result>>

Next ==
  \/ FillWatermark
  \/ AllocSlot
  \/ \E c \in owned : FreeSlot(c)

Spec == Init /\ [][Next]_vars

-----------------------------------------------------------------------------
TypeOK ==
  /\ cspace \in [top : SUBSET Cnodes, bot : [Cnodes -> SUBSET Bits]]
  /\ boot \in BootSizes
  /\ watermark \in 0 .. WatermarkSlots
  /\ owned \subseteq Slots
  /\ last \in Slots \cup {NoSlot}
  /\ result \in {"none", "slot", "spent", "stuck", "panic"}

BootSlots == 0 .. boot - 1
InUse == BootSlots \cup owned

(* Bootstrap may stop one short of the end of a CNode.                     *)
AtTheBrim == BotIndex(boot) = LastBit

(* The slot the next alloc_slot returns is in nobody's hands, although the *)
(* bit fields of the CNodes that bootstrap filled do not say what is in    *)
(* them: nothing is ever searched for there, as long as nothing there is   *)
(* freed.                                                                  *)
NoSlotTwice ==
  Outcome(cspace) = "slot" => FirstSlot(cspace) \notin InUse

(* alloc_slot never fails for having searched a CNode with nothing in it,  *)
(* and a slot is never lost to a search that fails halfway: the mark is    *)
(* set one slot early so that neither can happen, unless bootstrap itself  *)
(* stopped one slot short of the end of a CNode.                           *)
NeverStuck ==
  ~AtTheBrim => Outcome(cspace) \in {"slot", "panic"}

(* The root server stops for want of slots only when it has used all but   *)
(* the last slot of every CNode: a mark is dropped with the first slot     *)
(* freed, and no bit stays set after its slot is freed.                    *)
StopsWhenFull ==
  result = "panic" =>
    \A c \in Slots : BotIndex(c) # LastBit => c \in InUse

(* alloc_slot fails for one reason only.                                   *)
FailsWhenFull == NeverStuck /\ StopsWhenFull

(* Whoever allocates and frees sees a pool of slots.                       *)
Pool == INSTANCE SlotPool WITH used <- InUse
PoolSpec == Pool!Spec

=============================================================================
