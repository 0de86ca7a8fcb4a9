------------------------ MODULE SlotsAndCalls_proofs ------------------------
(***************************************************************************)
(* Proofs about the two modules that are about slots for capabilities: the *)
(* root server's table of them (SlotTable), and the one slot in which each *)
(* server receives a capability with a call (Invocations).                 *)
(*                                                                         *)
(* SlotTable, for every number of CNodes and of slots in one, and wherever *)
(* bootstrap stopped: the two levels of bits implement a pool of slots,    *)
(* and alloc_slot fails only when there is nothing left.                   *)
(*                                                                         *)
(* Invocations, for any number of clients and of calls made by a handler:  *)
(* every call is decoded as it was meant and answered as its stub expects, *)
(* and leaves the server ready for the next.                               *)
(***************************************************************************)
EXTENDS SlotTable, Invocations, FiniteSetTheorems, WellFoundedInduction, TLAPS

-----------------------------------------------------------------------------
(* Slots for capabilities in the root server's capability space.           *)

(* The least-number principle, for bf_first_free.                          *)
LEMMA LeastIsLeast ==
  ASSUME NEW S, S \subseteq Nat, S # {}
  PROVE  Least(S) \in S /\ \A k \in S : Least(S) <= k
<1>1. \E m \in S : \A k \in S : ~(<<k, m>> \in OpToRel(<, Nat))
  BY WFMin, NatLessThanWellFounded, Zenon
<1>2. PICK m \in S : \A k \in S : ~(k < m)
  BY <1>1, Zenon DEF OpToRel
<1>3. \A k \in S : m <= k
  BY <1>2
<1> QED
  BY <1>3 DEF Least

(* A slot is a CNode and a bit of it, and the other way round.             *)
SlotAt(n, b) == n * SlotsPerCnode + b

LEMMA SlotToBit ==
  ASSUME NEW c \in Slots
  PROVE  /\ TopIndex(c) \in Cnodes /\ BotIndex(c) \in Bits
         /\ c = SlotAt(TopIndex(c), BotIndex(c))
  BY SlotAssumption
     DEF Slots, TopIndex, BotIndex, Cnodes, Bits, SlotAt

LEMMA BitToSlot ==
  ASSUME NEW n \in Cnodes, NEW b \in Bits
  PROVE  /\ SlotAt(n, b) \in Slots
         /\ TopIndex(SlotAt(n, b)) = n /\ BotIndex(SlotAt(n, b)) = b
  BY SlotAssumption
     DEF Slots, TopIndex, BotIndex, Cnodes, Bits, SlotAt

LEMMA SlotOrder ==
  ASSUME NEW n \in Cnodes, NEW b \in Bits, NEW d \in Slots
  PROVE  /\ n < TopIndex(d) => SlotAt(n, b) < d
         /\ n > TopIndex(d) => SlotAt(n, b) > d
         /\ n = TopIndex(d) => (SlotAt(n, b) < d <=> b < BotIndex(d))
<1> DEFINE t == TopIndex(d)
<1>1. t \in Cnodes /\ BotIndex(d) \in Bits /\ d = SlotAt(t, BotIndex(d))
  BY SlotToBit
<1> HIDE DEF t
<1>2. n < t => (n + 1) * SlotsPerCnode <= t * SlotsPerCnode
  BY <1>1, SlotAssumption DEF Cnodes
<1>3. n > t => (t + 1) * SlotsPerCnode <= n * SlotsPerCnode
  BY <1>1, SlotAssumption DEF Cnodes
<1>4. n * SlotsPerCnode \in Int /\ t * SlotsPerCnode \in Int
  BY <1>1, SlotAssumption DEF Cnodes
<1>5. /\ (n + 1) * SlotsPerCnode = n * SlotsPerCnode + SlotsPerCnode
      /\ (t + 1) * SlotsPerCnode = t * SlotsPerCnode + SlotsPerCnode
  BY <1>1, SlotAssumption DEF Cnodes
<1> QED
  BY <1>1, <1>2, <1>3, <1>4, <1>5, SlotAssumption DEF Bits, SlotAt, t

LEMMA BootIsSlot == boot \in BootSizes => boot \in Slots /\ boot >= 1
  BY SlotAssumption DEF Slots

-----------------------------------------------------------------------------
(* The CNodes bootstrap filled stay marked and are never searched, so that *)
(* what their own bits say does not matter.                                *)
FilledAreMarked ==
  \A n \in Cnodes : n < TopIndex(boot) => n \in cspace.top

(* Above them, the bits say what is in use, but for the last of the CNode  *)
(* that bootstrap left at the brim, which is lost when it is taken.        *)
BitsAreRight ==
  \A n \in Cnodes, b \in Bits : n >= TopIndex(boot) =>
    /\ SlotAt(n, b) \in InUse => b \in cspace.bot[n]
    /\ b \in cspace.bot[n] /\ b # LastBit => SlotAt(n, b) \in InUse
    /\ b \in cspace.bot[n] /\ b = LastBit => AtTheBrim /\ n = TopIndex(boot)

(* And a mark says that all but the last bit are set.                      *)
MarksAreRight ==
  \A n \in Cnodes : n >= TopIndex(boot) =>
    /\ n \in cspace.top => Bits \ {LastBit} \subseteq cspace.bot[n]
    /\ n \notin cspace.top /\ ~(AtTheBrim /\ n = TopIndex(boot)) =>
         \E b \in Bits : b # LastBit /\ b \notin cspace.bot[n]

(* Nobody is handed a slot of bootstrap's or the last slot of a CNode.     *)
OwnedAreOwn == \A c \in owned : c >= boot /\ BotIndex(c) # LastBit

PanicsWhenMarked == result = "panic" => Cnodes \subseteq cspace.top

IInv ==
  /\ TypeOK
  /\ FilledAreMarked
  /\ BitsAreRight
  /\ MarksAreRight
  /\ OwnedAreOwn
  /\ PanicsWhenMarked

(* What bootstrap records is enough.                                       *)
LEMMA InitIInv == Init => IInv
<1> SUFFICES ASSUME Init PROVE IInv
  OBVIOUS
<1> USE DEF Init
<1>1. /\ boot \in Slots /\ boot >= 1
      /\ TopIndex(boot) \in Cnodes /\ BotIndex(boot) \in Bits
  BY BootIsSlot, SlotToBit
<1>2. InUse = BootSlots /\ \A c \in Slots : c \in BootSlots <=> c < boot
  BY <1>1 DEF InUse, BootSlots, Slots
<1>3. /\ \A n \in Cnodes : n \in cspace.top <=> n < TopIndex(boot)
      /\ \A n \in Cnodes : n >= TopIndex(boot) =>
           cspace.bot[n] = {b \in Bits : n = TopIndex(boot)
                                         /\ b < BotIndex(boot)}
  <2>1. \A n \in Cnodes : n \in cspace.top <=> n < TopIndex(boot)
    BY DEF Bootstrapped
  <2> SUFFICES ASSUME NEW n \in Cnodes, n >= TopIndex(boot)
               PROVE  cspace.bot[n] = {b \in Bits : n = TopIndex(boot)
                                                   /\ b < BotIndex(boot)}
    BY <2>1
  <2>2. ~(n < TopIndex(boot))
    BY <1>1 DEF Cnodes
  <2>3. CASE n = TopIndex(boot)
    BY <2>3 DEF Bootstrapped
  <2>4. CASE n # TopIndex(boot)
    BY <2>2, <2>4 DEF Bootstrapped
  <2> QED
    BY <2>3, <2>4
<1>4. TypeOK
  BY SlotAssumption DEF TypeOK, Bootstrapped, NoSlot
<1>5. FilledAreMarked
  BY <1>3 DEF FilledAreMarked
<1>6. BitsAreRight
  <2> SUFFICES ASSUME NEW n \in Cnodes, NEW b \in Bits, n >= TopIndex(boot)
               PROVE  /\ SlotAt(n, b) \in InUse <=> b \in cspace.bot[n]
                      /\ b \in cspace.bot[n] => b # LastBit
    BY DEF BitsAreRight
  <2>1. SlotAt(n, b) \in Slots
    BY BitToSlot
  <2>2. SlotAt(n, b) \in InUse <=> n = TopIndex(boot) /\ b < BotIndex(boot)
    BY <1>1, <1>2, <2>1, SlotOrder DEF Cnodes, Slots
  <2> QED
    BY <1>1, <1>3, <2>2 DEF Bits, LastBit
<1>7. MarksAreRight
  <2> SUFFICES ASSUME NEW n \in Cnodes, n >= TopIndex(boot)
               PROVE  /\ n \notin cspace.top
                      /\ ~(AtTheBrim /\ n = TopIndex(boot)) =>
                           \E b \in Bits : b # LastBit /\ b \notin cspace.bot[n]
    BY DEF MarksAreRight
  <2>1. n \notin cspace.top
    BY <1>1, <1>3 DEF Cnodes
  <2>2. CASE n = TopIndex(boot)
    BY <1>1, <1>3, <2>1, <2>2 DEF AtTheBrim, Bits
  <2>3. CASE n # TopIndex(boot)
    <3>1. 0 \in Bits /\ 0 # LastBit
      BY SlotAssumption DEF Bits, LastBit
    <3> QED
      BY <1>3, <2>1, <2>3, <3>1
  <2> QED
    BY <2>2, <2>3
<1> QED
  BY <1>4, <1>5, <1>6, <1>7
     DEF IInv, OwnedAreOwn, PanicsWhenMarked

-----------------------------------------------------------------------------
(* The CNode alloc_slot searches is not marked; there is none if all are.  *)
LEMMA CandidateIsUnmarked ==
  ASSUME IInv, NEW n, n = Candidate(cspace)
  PROVE  /\ n \in Cnodes \cup {NumCnodes} /\ n \notin cspace.top
         /\ n \in Cnodes => n >= TopIndex(boot)
         /\ n = NumCnodes => n \notin Cnodes /\ Cnodes \subseteq cspace.top
<1> DEFINE S == {m \in Cnodes \cup {NumCnodes} : m \notin cspace.top}
<1>1. S \subseteq Nat /\ NumCnodes \notin Cnodes
  BY SlotAssumption DEF Cnodes
<1>2. NumCnodes \in S
  BY <1>1 DEF IInv, TypeOK
<1>3. n \in S /\ \A k \in S : n <= k
  BY <1>1, <1>2, LeastIsLeast DEF Candidate
<1>4. n = NumCnodes => Cnodes \subseteq cspace.top
  BY <1>3, SlotAssumption DEF Cnodes
<1>5. n \in Cnodes => n >= TopIndex(boot)
  <2>1. TopIndex(boot) \in Cnodes
    BY BootIsSlot, SlotToBit DEF IInv, TypeOK
  <2> QED
    BY <1>3, <2>1 DEF IInv, FilledAreMarked, Cnodes
<1> QED
  BY <1>1, <1>3, <1>4, <1>5

(* What is free of the CNode searched.                                     *)
LEMMA RoomIsFree ==
  ASSUME IInv, NEW n \in Cnodes, n = Candidate(cspace)
  PROVE  /\ \A b \in Bits : b \in Room(cspace) <=> b \notin cspace.bot[n]
         /\ Room(cspace) \subseteq Bits
         /\ Room(cspace) # {} =>
              /\ Least(Room(cspace)) \in Room(cspace)
              /\ \A k \in Room(cspace) : Least(Room(cspace)) <= k
<1>1. Room(cspace) \subseteq Bits /\ Bits \subseteq Nat
  BY DEF Room, Bits
<1>2. Room(cspace) # {} =>
        /\ Least(Room(cspace)) \in Room(cspace)
        /\ \A k \in Room(cspace) : Least(Room(cspace)) <= k
  BY <1>1, LeastIsLeast
<1>3. \A b \in Bits : b \in Room(cspace) <=> b \notin cspace.bot[n]
  BY DEF Room
<1> QED
  BY <1>1, <1>2, <1>3

(* The CNode at the brim has nothing to give but its last slot.            *)
LEMMA BrimHasItsLast ==
  ASSUME IInv, NEW n \in Cnodes, n = Candidate(cspace),
         AtTheBrim, n = TopIndex(boot)
  PROVE  Room(cspace) \subseteq {LastBit}
<1>1. boot \in Slots /\ BotIndex(boot) = LastBit
  BY BootIsSlot DEF IInv, TypeOK, AtTheBrim
<1>2. ASSUME NEW b \in Bits, b # LastBit PROVE b \in cspace.bot[n]
  <2>1. b < LastBit
    BY <1>2, SlotAssumption DEF Bits, LastBit
  <2>2. SlotAt(n, b) < boot /\ SlotAt(n, b) \in Slots
    BY <1>1, <2>1, SlotOrder, BitToSlot
  <2>3. SlotAt(n, b) \in InUse
    BY <1>1, <2>2 DEF InUse, BootSlots, Slots
  <2> QED
    BY <2>3 DEF IInv, BitsAreRight, Cnodes, TopIndex
<1> QED
  BY <1>2, RoomIsFree

(* Any other CNode searched has its last slot and another to give.         *)
LEMMA OthersHaveTwo ==
  ASSUME IInv, NEW n \in Cnodes, n = Candidate(cspace),
         ~(AtTheBrim /\ n = TopIndex(boot))
  PROVE  /\ Outcome(cspace) = "slot"
         /\ Least(Room(cspace)) \in Bits /\ Least(Room(cspace)) # LastBit
         /\ Least(Room(cspace)) \notin cspace.bot[n]
         /\ LastBit \in Room(cspace)
<1>1. n \notin cspace.top /\ n >= TopIndex(boot) /\ n # NumCnodes
  BY CandidateIsUnmarked
<1>2. PICK b \in Bits : b # LastBit /\ b \notin cspace.bot[n]
  BY <1>1 DEF IInv, MarksAreRight
<1>3. LastBit \in Bits /\ LastBit \notin cspace.bot[n]
  <2>1. LastBit \in Bits
    BY SlotAssumption DEF Bits, LastBit
  <2> QED
    BY <1>1, <2>1 DEF IInv, BitsAreRight
<1>4. b \in Room(cspace) /\ LastBit \in Room(cspace)
  BY <1>2, <1>3, RoomIsFree
<1>5. /\ Least(Room(cspace)) \in Room(cspace)
      /\ Least(Room(cspace)) \in Bits
      /\ Least(Room(cspace)) <= b
  BY <1>4, RoomIsFree
<1>6. Least(Room(cspace)) # LastBit
  BY <1>2, <1>5, SlotAssumption DEF Bits, LastBit
<1>7. Outcome(cspace) = "slot"
  BY <1>1, <1>4, <1>6 DEF Outcome
<1> QED
  BY <1>4, <1>5, <1>6, <1>7, RoomIsFree

(* The slot alloc_slot returns is in no one's hands.                       *)
LEMMA FirstSlotIsFree ==
  ASSUME IInv, Outcome(cspace) = "slot"
  PROVE  LET n == Candidate(cspace)
             b == Least(Room(cspace))
         IN /\ n \in Cnodes /\ n >= TopIndex(boot) /\ n \notin cspace.top
            /\ ~(AtTheBrim /\ n = TopIndex(boot))
            /\ b \in Bits /\ b # LastBit /\ b \notin cspace.bot[n]
            /\ FirstSlot(cspace) = SlotAt(n, b)
            /\ FirstSlot(cspace) \in Slots \ InUse
            /\ FirstSlot(cspace) >= boot
<1> DEFINE n == Candidate(cspace)
           b == Least(Room(cspace))
<1>1. n \in Cnodes /\ n >= TopIndex(boot) /\ n \notin cspace.top
  BY CandidateIsUnmarked DEF Outcome
<1>2. ~(AtTheBrim /\ n = TopIndex(boot))
  <2> SUFFICES ASSUME AtTheBrim, n = TopIndex(boot) PROVE FALSE
    OBVIOUS
  <2>1. Room(cspace) \subseteq {LastBit} /\ Room(cspace) # {}
    BY <1>1, BrimHasItsLast DEF Outcome
  <2>2. b = LastBit
    BY <1>1, <2>1, RoomIsFree
  <2>3. Room(cspace) = {b}
    BY <2>1, <2>2
  <2> QED
    BY <2>3 DEF Outcome
<1>3. b \in Bits /\ b # LastBit /\ b \notin cspace.bot[n]
  BY <1>1, <1>2, OthersHaveTwo
<1>4. FirstSlot(cspace) = SlotAt(n, b)
  BY DEF FirstSlot, SlotAt
<1> HIDE DEF n, b
<1>5. FirstSlot(cspace) \in Slots
  BY <1>1, <1>3, <1>4, BitToSlot
<1>6. FirstSlot(cspace) \notin InUse
  BY <1>1, <1>3, <1>4 DEF IInv, BitsAreRight
<1>7. FirstSlot(cspace) >= boot
  <2>1. boot \in Slots
    BY BootIsSlot DEF IInv, TypeOK
  <2> QED
    BY <1>5, <1>6, <2>1 DEF InUse, BootSlots, Slots
<1> QED
  BY <1>1, <1>2, <1>3, <1>4, <1>5, <1>6, <1>7 DEF n, b

-----------------------------------------------------------------------------
(* alloc_slot keeps the two levels of bits in step.  It may return a slot  *)
(* or lose the last one of the CNode at the brim; otherwise it changes     *)
(* nothing.                                                                *)
LEMMA AllocSlotKeeps ==
  ASSUME IInv, Alloc, watermark' \in 0 .. WatermarkSlots,
         Outcome(cspace) = "slot"
  PROVE  IInv'
<1> DEFINE n == Candidate(cspace)
           b == Least(Room(cspace))
           c == FirstSlot(cspace)
<1>1. /\ n \in Cnodes /\ n >= TopIndex(boot) /\ n \notin cspace.top
      /\ ~(AtTheBrim /\ n = TopIndex(boot))
      /\ b \in Bits /\ b # LastBit /\ b \notin cspace.bot[n]
      /\ c = SlotAt(n, b) /\ c \in Slots \ InUse /\ c >= boot
  BY FirstSlotIsFree
<1>2. boot' = boot /\ owned' = owned \cup {c} /\ last' = c
      /\ result' = "slot"
  BY DEF Alloc
<1>3. cspace' = Taken(cspace)
  BY DEF Alloc, Allocated
<1>4. LastBit \in Room(cspace)
  BY <1>1, OthersHaveTwo
<1>5. \A k \in Bits : k \in Room(cspace) \ {b} <=>
                        k # b /\ k \notin cspace.bot[n]
  BY <1>1, RoomIsFree
<1> DEFINE full == IsNowFull(Room(cspace) \ {b})
<1>6. full => \A k \in Bits : k = LastBit \/ k = b \/ k \in cspace.bot[n]
  <2>1. Room(cspace) \ {b} \subseteq Nat
    BY DEF Room, Bits
  <2>2. ASSUME full, NEW k \in Room(cspace) \ {b}
        PROVE  k >= LastBit
    <3>1. /\ Least(Room(cspace) \ {b}) \in Nat
          /\ Least(Room(cspace) \ {b}) <= k
      BY <2>1, <2>2, LeastIsLeast
    <3> QED
      BY <2>1, <2>2, <3>1, SlotAssumption DEF IsNowFull, LastBit
  <2> QED
    BY <1>5, <2>2, SlotAssumption DEF Bits, LastBit
<1>7. ~full => \E k \in Bits : k # LastBit /\ k # b /\ k \notin cspace.bot[n]
  <2>1. Room(cspace) \ {b} \subseteq Nat /\ LastBit \in Room(cspace) \ {b}
    BY <1>1, <1>4 DEF Room, Bits
  <2>2. Least(Room(cspace) \ {b}) \in Room(cspace) \ {b}
    BY <2>1, LeastIsLeast
  <2>3. ~full => Least(Room(cspace) \ {b}) # LastBit
    BY <2>1, <2>2, SlotAssumption DEF IsNowFull, LastBit
  <2>4. Least(Room(cspace) \ {b}) \in Bits
    BY <2>2 DEF Room
  <2> QED
    BY <1>5, <2>2, <2>3, <2>4
<1> HIDE DEF full
<1>8. /\ cspace'.top = IF full THEN cspace.top \cup {n} ELSE cspace.top
      /\ cspace'.bot = [cspace.bot EXCEPT ![n] = @ \cup {b}]
  BY <1>3 DEF Taken, full
<1>9. TypeOK'
  <2>1. TypeOK /\ c \in Slots /\ cspace' \in [top : SUBSET Cnodes,
                                               bot : [Cnodes -> SUBSET Bits]]
    BY <1>1, <1>3 DEF IInv, TypeOK, Taken
  <2> QED
    BY <1>2, <2>1 DEF TypeOK
<1> HIDE DEF n, b, c
<1>10. \A m \in Cnodes, k \in Bits :
         k \in cspace'.bot[m] <=>
           k \in cspace.bot[m] \/ (m = n /\ k = b)
  BY <1>1, <1>8 DEF IInv, TypeOK
<1>11. \A m \in Cnodes :
         m \in cspace'.top <=> m \in cspace.top \/ (full /\ m = n)
  BY <1>8
<1>12. \A m \in Cnodes, k \in Bits :
         SlotAt(m, k) \in InUse' <=>
           SlotAt(m, k) \in InUse \/ (m = n /\ k = b)
  BY <1>1, <1>2, BitToSlot DEF InUse, BootSlots
<1>13. TopIndex(boot)' = TopIndex(boot) /\ AtTheBrim' = AtTheBrim
  BY <1>2 DEF TopIndex, AtTheBrim, BotIndex
<1>14. FilledAreMarked'
  BY <1>11, <1>13 DEF IInv, FilledAreMarked
<1>15. BitsAreRight'
  BY <1>1, <1>10, <1>12, <1>13 DEF IInv, BitsAreRight
<1>16. MarksAreRight'
  <2> SUFFICES ASSUME NEW m \in Cnodes, m >= TopIndex(boot)
               PROVE  /\ m \in cspace'.top =>
                           \A k \in Bits \ {LastBit} : k \in cspace'.bot[m]
                      /\ m \notin cspace'.top
                         /\ ~(AtTheBrim /\ m = TopIndex(boot)) =>
                           \E k \in Bits : k # LastBit
                                           /\ k \notin cspace'.bot[m]
    BY <1>13 DEF MarksAreRight
  <2>1. CASE m # n
    BY <1>10, <1>11, <2>1 DEF IInv, MarksAreRight
  <2>2. CASE m = n
    BY <1>1, <1>6, <1>7, <1>10, <1>11, <2>2
  <2> QED
    BY <2>1, <2>2
<1>17. OwnedAreOwn'
  BY <1>1, <1>2, BitToSlot DEF IInv, OwnedAreOwn
<1>18. PanicsWhenMarked'
  BY <1>2 DEF PanicsWhenMarked
<1> QED
  BY <1>9, <1>14, <1>15, <1>16, <1>17, <1>18 DEF IInv

LEMMA AllocFailsKeeps ==
  ASSUME IInv, Alloc, watermark' \in 0 .. WatermarkSlots,
         Outcome(cspace) # "slot"
  PROVE  IInv'
<1> DEFINE n == Candidate(cspace)
<1>1. /\ boot' = boot /\ owned' = owned /\ last' = NoSlot
      /\ result' = Outcome(cspace)
      /\ Outcome(cspace) \in {"panic", "stuck", "spent"}
  BY DEF Alloc, Outcome
<1>2. /\ TopIndex(boot)' = TopIndex(boot) /\ AtTheBrim' = AtTheBrim
      /\ InUse' = InUse
  BY <1>1 DEF TopIndex, AtTheBrim, BotIndex, InUse, BootSlots
<1>3. Outcome(cspace) = "panic" => Cnodes \subseteq cspace.top
  BY CandidateIsUnmarked DEF Outcome
<1>4. CASE Outcome(cspace) # "spent"
  <2>1. cspace' = cspace
    BY <1>1, <1>4 DEF Alloc, Allocated
  <2>2. TypeOK'
    BY <1>1, <2>1 DEF IInv, TypeOK
  <2>3. PanicsWhenMarked'
    BY <1>1, <1>3, <2>1 DEF PanicsWhenMarked
  <2> QED
    BY <1>1, <1>2, <2>1, <2>2, <2>3
       DEF IInv, FilledAreMarked, BitsAreRight, MarksAreRight, OwnedAreOwn
<1>5. CASE Outcome(cspace) = "spent"
  <2>1. /\ n \in Cnodes /\ n >= TopIndex(boot) /\ n \notin cspace.top
        /\ Room(cspace) # {}
    BY <1>5, CandidateIsUnmarked DEF Outcome
  <2>2. AtTheBrim /\ n = TopIndex(boot)
    BY <1>5, <2>1, OthersHaveTwo
  <2>3. Room(cspace) \subseteq {LastBit}
    BY <2>1, <2>2, BrimHasItsLast
  <2>4. Least(Room(cspace)) = LastBit /\ LastBit \in Bits
    BY <2>1, <2>3, RoomIsFree DEF Room
  <2>5. /\ cspace'.top = cspace.top
        /\ cspace'.bot = [cspace.bot EXCEPT ![n] = @ \cup {LastBit}]
        /\ cspace' \in [top : SUBSET Cnodes, bot : [Cnodes -> SUBSET Bits]]
    BY <1>5, <2>1, <2>4 DEF Alloc, Allocated, Taken, IInv, TypeOK
  <2> HIDE DEF n
  <2>6. \A m \in Cnodes, k \in Bits :
          k \in cspace'.bot[m] <=> k \in cspace.bot[m]
                                   \/ (m = n /\ k = LastBit)
    BY <2>1, <2>5 DEF IInv, TypeOK
  <2>7. TypeOK'
    BY <1>1, <2>5 DEF IInv, TypeOK
  <2>8. FilledAreMarked'
    BY <1>2, <2>5 DEF IInv, FilledAreMarked
  <2>9. BitsAreRight'
    BY <1>2, <2>2, <2>6 DEF IInv, BitsAreRight
  <2>10. MarksAreRight'
    BY <1>2, <2>2, <2>5, <2>6 DEF IInv, MarksAreRight
  <2>11. OwnedAreOwn' /\ PanicsWhenMarked'
    BY <1>1, <1>5 DEF IInv, OwnedAreOwn, PanicsWhenMarked
  <2> QED
    BY <2>7, <2>8, <2>9, <2>10, <2>11 DEF IInv
<1> QED
  BY <1>4, <1>5

(* free_slot clears a bit of a CNode above those bootstrap filled, and the *)
(* CNode's mark.                                                           *)
LEMMA FreeSlotKeeps ==
  ASSUME IInv, NEW c \in owned, FreeSlot(c)
  PROVE  IInv'
<1> DEFINE n == TopIndex(c)
           b == BotIndex(c)
<1>1. /\ c \in Slots /\ c >= boot /\ c # 0
      /\ boot \in Slots
  BY BootIsSlot DEF IInv, TypeOK, OwnedAreOwn, Slots
<1>2. /\ n \in Cnodes /\ b \in Bits /\ c = SlotAt(n, b) /\ b # LastBit
  BY <1>1, SlotToBit DEF IInv, OwnedAreOwn
<1>3. n >= TopIndex(boot)
  <2>1. ~(n < TopIndex(boot))
    BY <1>1, <1>2, SlotOrder DEF Slots
  <2> QED
    BY <1>1, <1>2, <2>1, SlotToBit DEF Cnodes
<1>4. /\ boot' = boot /\ owned' = owned \ {c} /\ last' = NoSlot
      /\ result' = result /\ watermark' = watermark /\ result # "panic"
  BY DEF FreeSlot
<1>5. /\ cspace'.top = cspace.top \ {n}
      /\ cspace'.bot = [cspace.bot EXCEPT ![n] = @ \ {b}]
      /\ cspace' \in [top : SUBSET Cnodes, bot : [Cnodes -> SUBSET Bits]]
  BY <1>1, <1>2 DEF FreeSlot, Freed, IInv, TypeOK
<1> HIDE DEF n, b
<1>6. \A m \in Cnodes, k \in Bits :
        k \in cspace'.bot[m] <=> k \in cspace.bot[m] /\ ~(m = n /\ k = b)
  BY <1>2, <1>5 DEF IInv, TypeOK
<1>7. \A m \in Cnodes, k \in Bits :
        SlotAt(m, k) \in InUse' <=>
          SlotAt(m, k) \in InUse /\ ~(m = n /\ k = b)
  <2> SUFFICES ASSUME NEW m \in Cnodes, NEW k \in Bits
               PROVE  SlotAt(m, k) \in InUse' <=>
                        SlotAt(m, k) \in InUse /\ SlotAt(m, k) # c
    BY <1>2, BitToSlot
  <2>1. c \notin BootSlots
    BY <1>1 DEF BootSlots, Slots
  <2> QED
    BY <1>4, <2>1 DEF InUse, BootSlots
<1>8. TopIndex(boot)' = TopIndex(boot) /\ AtTheBrim' = AtTheBrim
  BY <1>4 DEF TopIndex, AtTheBrim, BotIndex
<1>9. TypeOK'
  BY <1>4, <1>5 DEF IInv, TypeOK
<1>10. FilledAreMarked'
  BY <1>2, <1>3, <1>5, <1>8, <1>1, SlotToBit
     DEF IInv, FilledAreMarked, Cnodes
<1>11. BitsAreRight'
  BY <1>6, <1>7, <1>8 DEF IInv, BitsAreRight
<1>12. MarksAreRight'
  <2> SUFFICES ASSUME NEW m \in Cnodes, m >= TopIndex(boot)
               PROVE  /\ m \in cspace'.top =>
                           \A k \in Bits \ {LastBit} : k \in cspace'.bot[m]
                      /\ m \notin cspace'.top
                         /\ ~(AtTheBrim /\ m = TopIndex(boot)) =>
                           \E k \in Bits : k # LastBit
                                           /\ k \notin cspace'.bot[m]
    BY <1>8 DEF MarksAreRight
  <2>1. CASE m # n
    BY <1>5, <1>6, <2>1 DEF IInv, MarksAreRight
  <2>2. CASE m = n
    BY <1>2, <1>5, <1>6, <2>2
  <2> QED
    BY <2>1, <2>2
<1>13. OwnedAreOwn' /\ PanicsWhenMarked'
  BY <1>4 DEF IInv, OwnedAreOwn, PanicsWhenMarked
<1> QED
  BY <1>9, <1>10, <1>11, <1>12, <1>13 DEF IInv

LEMMA StepKeeps == IInv /\ [Next]_vars => IInv'
<1> SUFFICES ASSUME IInv, [Next]_vars PROVE IInv'
  OBVIOUS
<1>1. CASE FillWatermark
  <2>1. Alloc /\ watermark' \in 0 .. WatermarkSlots
    BY <1>1, SlotAssumption DEF FillWatermark, IInv, TypeOK
  <2> QED
    BY <2>1, AllocSlotKeeps, AllocFailsKeeps
<1>2. CASE AllocSlot
  <2>1. Alloc /\ watermark' \in 0 .. WatermarkSlots
    BY <1>2 DEF AllocSlot, IInv, TypeOK
  <2> QED
    BY <2>1, AllocSlotKeeps, AllocFailsKeeps
<1>3. CASE \E c \in owned : FreeSlot(c)
  BY <1>3, FreeSlotKeeps
<1>4. CASE UNCHANGED vars
  BY <1>4 DEF vars, IInv, TypeOK, FilledAreMarked, BitsAreRight,
     MarksAreRight, OwnedAreOwn, PanicsWhenMarked, InUse, BootSlots,
     AtTheBrim
<1> QED
  BY <1>1, <1>2, <1>3, <1>4 DEF Next

(* The inductive invariant: what the two levels of bits say of the slots   *)
(* in use, after any number of alloc_slot and free_slot.                   *)
THEOREM SlotTableSound == Spec => []IInv
  BY InitIInv, StepKeeps, PTL DEF Spec

(* alloc_slot never returns a slot that is in use, bootstrap's own         *)
(* included, although the bits of the CNodes bootstrap filled do not say   *)
(* what is in them.                                                        *)
THEOREM NoSlotIsHandedOutTwice == Spec => []NoSlotTwice
<1>1. IInv => NoSlotTwice
  BY FirstSlotIsFree DEF NoSlotTwice
<1> QED
  BY <1>1, SlotTableSound, PTL

(* alloc_slot fails only when all but the last slot of every CNode are in  *)
(* use, unless bootstrap stopped one slot short of the end of a CNode.     *)
THEOREM AllocFailsWhenFull == Spec => []FailsWhenFull
<1>1. IInv => NeverStuck
  <2> SUFFICES ASSUME IInv, ~AtTheBrim
               PROVE  Outcome(cspace) \in {"slot", "panic"}
    BY DEF NeverStuck
  <2>1. CASE Candidate(cspace) \in Cnodes
    BY <2>1, OthersHaveTwo
  <2>2. CASE Candidate(cspace) = NumCnodes
    BY <2>2 DEF Outcome
  <2> QED
    BY <2>1, <2>2, CandidateIsUnmarked
<1>2. IInv => StopsWhenFull
  <2> SUFFICES ASSUME IInv, result = "panic",
                      NEW c \in Slots, BotIndex(c) # LastBit
               PROVE  c \in InUse
    BY DEF StopsWhenFull
  <2> DEFINE n == TopIndex(c)
             b == BotIndex(c)
  <2>1. n \in Cnodes /\ b \in Bits /\ c = SlotAt(n, b)
    BY SlotToBit
  <2>2. boot \in Slots /\ TopIndex(boot) \in Cnodes
    BY BootIsSlot, SlotToBit DEF IInv, TypeOK
  <2>3. CASE n < TopIndex(boot)
    <3>1. c < boot
      BY <2>1, <2>2, <2>3, SlotOrder
    <3> QED
      BY <2>2, <3>1 DEF InUse, BootSlots, Slots
  <2>4. CASE n >= TopIndex(boot)
    <3>1. n \in cspace.top
      BY <2>1 DEF IInv, PanicsWhenMarked
    <3>2. b \in cspace.bot[n]
      BY <2>1, <2>4, <3>1 DEF IInv, MarksAreRight
    <3> QED
      BY <2>1, <2>4, <3>2 DEF IInv, BitsAreRight
  <2> QED
    BY <2>1, <2>2, <2>3, <2>4 DEF Cnodes
<1>3. IInv => FailsWhenFull
  BY <1>1, <1>2 DEF FailsWhenFull
<1> QED
  BY <1>3, SlotTableSound, PTL

-----------------------------------------------------------------------------
(* Every step of the two-level table is a step of the pool of slots.       *)
LEMMA InUseAreSlots == IInv => InUse \subseteq Slots
<1> SUFFICES ASSUME IInv PROVE InUse \subseteq Slots
  OBVIOUS
<1> DEFINE end == NumCnodes * SlotsPerCnode
<1>1. boot \in 0 .. end - 1 /\ end \in Int /\ owned \subseteq Slots
  BY BootIsSlot, SlotAssumption DEF IInv, TypeOK, Slots
<1>2. Slots = 0 .. end - 1
  BY DEF Slots
<1> HIDE DEF end
<1> QED
  BY <1>1, <1>2 DEF InUse, BootSlots

LEMMA AllocIsAllocOrRefuse ==
  ASSUME IInv, Alloc
  PROVE  Pool!Next
<1>1. CASE Outcome(cspace) = "slot"
  <2> DEFINE c == FirstSlot(cspace)
  <2>1. c \in Slots \ InUse
    BY <1>1, FirstSlotIsFree
  <2>2. /\ last' = c
        /\ InUse' = InUse \cup {c}
    BY <1>1 DEF Alloc, InUse, BootSlots
  <2>3. Pool!Alloc(c)
    BY <2>1, <2>2 DEF Pool!Alloc
  <2> QED
    BY <2>1, <2>3 DEF Pool!Next
<1>2. CASE Outcome(cspace) # "slot"
  <2>1. last' = NoSlot /\ InUse' = InUse
    BY <1>2 DEF Alloc, InUse, BootSlots
  <2> QED
    BY <2>1 DEF Pool!Next, Pool!Refuse
<1> QED
  BY <1>1, <1>2

LEMMA FreeSlotIsFree ==
  ASSUME IInv, NEW c \in owned, FreeSlot(c)
  PROVE  Pool!Next
<1>1. c \in Slots /\ c \in InUse /\ c \notin BootSlots
  BY BootIsSlot DEF IInv, TypeOK, OwnedAreOwn, InUse, BootSlots, Slots
<1>2. last' = NoSlot /\ InUse' = InUse \ {c}
  BY <1>1 DEF FreeSlot, InUse, BootSlots
<1>3. Pool!Free(c)
  BY <1>1, <1>2 DEF Pool!Free
<1> QED
  BY <1>1, <1>3 DEF Pool!Next

(* The two-level table implements a pool of slots: it hands out only what  *)
(* is not in use and takes back only what it is given.                     *)
THEOREM SlotTableIsAPool == Spec => PoolSpec
<1>1. Init => Pool!Init
  <2>1. Init => InUse \subseteq Slots
    BY InitIInv, InUseAreSlots
  <2> QED
    BY <2>1 DEF Init, Pool!Init
<1>2. IInv /\ [Next]_vars => [Pool!Next]_Pool!vars
  <2> SUFFICES ASSUME IInv, [Next]_vars PROVE [Pool!Next]_Pool!vars
    OBVIOUS
  <2>1. CASE FillWatermark
    BY <2>1, AllocIsAllocOrRefuse DEF FillWatermark
  <2>2. CASE AllocSlot
    BY <2>2, AllocIsAllocOrRefuse DEF AllocSlot
  <2>3. CASE \E c \in owned : FreeSlot(c)
    BY <2>3, FreeSlotIsFree
  <2>4. CASE UNCHANGED vars
    BY <2>4 DEF vars, Pool!vars, InUse, BootSlots
  <2> QED
    BY <2>1, <2>2, <2>3, <2>4 DEF Next
<1> QED
  BY <1>1, <1>2, SlotTableSound, PTL DEF Spec, PoolSpec, Pool!Spec

-----------------------------------------------------------------------------
(* Calls.                                                                  *)

(* A call of a stub has the shape its operation gives it.                  *)
LEMMA CallShape ==
  ASSUME NEW c \in CallSet
  PROVE  /\ c.op \in Op /\ c.args \in Args(c.op) /\ c.ret \in BOOLEAN
         /\ c.op \notin Returning \cup Kinded => ~c.ret
         /\ c = Call(c.op, c.args, c.ret)
<1>1. PICK op \in Op : c \in Calls(op)
  BY DEF CallSet
<1>2. PICK a \in Args(op), r \in Rets(op) : c = Call(op, a, r)
  BY <1>1 DEF Calls
<1>3. c.op = op /\ c.args = a /\ c.ret = r
  BY <1>2 DEF Call
<1>4. QED
  BY <1>2, <1>3 DEF Rets

(* The operations of the stubs, by interface.                              *)
LEMMA Interfaces ==
  /\ DOMAIN ConnStubs = {"ConnCreate", "ConnRegister", "IRQRegister",
                         "ConnDeregister", "ConnPublish", "ConnDestroy"}
  /\ DOMAIN WindowStubs = {"TestSimple", "WindowCreate", "WindowRegister",
                           "WindowDeregister", "PageMap", "WindowDestroy"}
  /\ DOMAIN ProcessStubs = {"ReplyCreate", "ServerHandleCapCreate",
                            "ProcSpawn", "ProcWait", "ProcExit",
                            "LoadComplete"}
  /\ DOMAIN ChannelStubs = {"ChannelOpen", "ServerCreateChannel"}
  /\ DOMAIN NonRootStubs = {"ConnOpen", "ConnClose"}
  /\ DOMAIN ObjectStubs = {"ObjCreate", "ObjOpen", "ObjClose", "ObjDestroy"}
  /\ DOMAIN ViewStubs = {"ObjStat", "View", "Unview"}
  /\ DOMAIN SddfStubs = {"sDDFChannelRegisterBidirectional",
                         "sDDFChannelRegisterReceiveOnly",
                         "sDDFQueueRegister", "sDDFGetDataRegion",
                         "sDDFProvideDataRegion"}
  BY DEF ConnStubs, WindowStubs, ProcessStubs, ChannelStubs, NonRootStubs,
         ObjectStubs, ViewStubs, SddfStubs

(* A connection offers what its server supports.                           *)
LEMMA OffersAreSupported ==
  ASSUME NEW s \in Server
  PROVE  Speaks[s] = IsSupported[s]
<1>1. CASE s = "root"
  BY <1>1, Interfaces
     DEF Speaks, IsSupported, RootInvocations, ObjectInvocations
<1>2. CASE s = "object"
  BY <1>2, Interfaces
     DEF Speaks, IsSupported, NonRootInvocations, ObjectInvocations
<1>3. CASE s = "sddf"
  BY <1>3, Interfaces
     DEF Speaks, IsSupported, NonRootInvocations, SddfInvocations
<1>4. QED
  BY <1>1, <1>2, <1>3 DEF Server

(* What the kernel gives a server whose receive slot is empty and in       *)
(* place, when at most n capabilities fit.                                 *)
Given(n, u, x) == [n |-> n, unwrapped |-> u, slot |-> x]
Foreign(s, caps, k) == {i \in 1 .. k : caps[i] # s}
Own(s, caps, k) == {i \in 1 .. k : caps[i] = s}

(* Of the first two capabilities, how many are not to the endpoint called  *)
(* on.                                                                     *)
LEMMA FewForeign ==
  ASSUME NEW s, NEW caps
  PROVE  /\ Cardinality(Foreign(s, caps, 0)) = 0
         /\ Cardinality(Foreign(s, caps, 1)) = IF caps[1] # s THEN 1 ELSE 0
         /\ Cardinality(Foreign(s, caps, 2)) =
              (IF caps[1] # s THEN 1 ELSE 0) + (IF caps[2] # s THEN 1 ELSE 0)
<1>1. /\ Cardinality({}) = 0
      /\ Cardinality({1}) = 1 /\ Cardinality({2}) = 1
      /\ Cardinality({1} \cup {2}) = 2
  <2>1. Cardinality({}) = 0
    BY FS_EmptySet
  <2>2. \A x : Cardinality({x}) = 1
    BY FS_Singleton
  <2>3. IsFiniteSet({1}) /\ 2 \notin {1}
    <3>1. IsFiniteSet({1})
      BY FS_Singleton, Zenon
    <3>2. QED
      BY <3>1
  <2>4. Cardinality({1} \cup {2}) = Cardinality({1}) + 1
    BY <2>3, FS_AddElement
  <2>5. Cardinality({1}) = 1 /\ Cardinality({2}) = 1
    BY <2>2, Zenon
  <2>6. QED
    BY <2>1, <2>4, <2>5
<1>2. Foreign(s, caps, 0) = {}
  BY DEF Foreign
<1>3. Foreign(s, caps, 1) = IF caps[1] # s THEN {1} ELSE {}
  BY DEF Foreign
<1>4. Foreign(s, caps, 2) =
        IF caps[1] # s THEN IF caps[2] # s THEN {1} \cup {2} ELSE {1}
                       ELSE IF caps[2] # s THEN {2} ELSE {}
  BY DEF Foreign
<1>5. Cardinality(Foreign(s, caps, 0)) = 0
  BY <1>1, <1>2
<1>6. Cardinality(Foreign(s, caps, 1)) = IF caps[1] # s THEN 1 ELSE 0
  BY <1>1, <1>3
<1>7. Cardinality(Foreign(s, caps, 2)) =
        (IF caps[1] # s THEN 1 ELSE 0) + (IF caps[2] # s THEN 1 ELSE 0)
  BY <1>1, <1>4
<1>8. QED
  BY <1>5, <1>6, <1>7

Gives(s, caps, n, x) ==
  Given(n, Own(s, caps, n),
        IF Foreign(s, caps, n) = {} THEN x
        ELSE caps[CHOOSE i \in Foreign(s, caps, n) : TRUE])

(* The delivery to a slot that is empty and in place: at most one          *)
(* capability is not unwrapped.                                            *)
LEMMA DeliverGives ==
  ASSUME NEW s \in Server, slot[s] = None, home[s] = TRUE,
         NEW caps, Len(caps) \in 0 .. 2,
         NEW n \in 0 .. Len(caps),
         Cardinality(Foreign(s, caps, n)) <= 1,
         \A j \in n + 1 .. Len(caps) : Cardinality(Foreign(s, caps, j)) > 1
  PROVE  Deliver(s, caps) = Gives(s, caps, n, None)
<1> DEFINE room == IF slot[s] = None /\ home[s] THEN 1 ELSE 0
           Fits(k) == /\ Cardinality(Foreign(s, caps, k)) <= room
                      /\ \A j \in k + 1 .. Len(caps) :
                           Cardinality(Foreign(s, caps, j)) > room
           m == CHOOSE k \in 0 .. Len(caps) : Fits(k)
<1>1. Deliver(s, caps) = Gives(s, caps, m, slot[s])
  BY Zenon DEF Deliver, Gives, Given, Foreign, Own
<1>2. room = 1
  OBVIOUS
<1>3. Fits(n)
  BY <1>2
<1>4. \A j \in 0 .. Len(caps) : Cardinality(Foreign(s, caps, j)) \in Nat
  <2>1. \A j \in {0, 1, 2} : Cardinality(Foreign(s, caps, j)) \in Nat
    BY FewForeign
  <2>2. \A L \in 0 .. 2 : 0 .. L \subseteq {0, 1, 2}
    OBVIOUS
  <2>3. QED
    BY <2>1, <2>2
<1>5. ASSUME NEW k \in 0 .. Len(caps), Fits(k) PROVE k = n
  <2>1. ~(k < n)
    BY <1>2, <1>4, <1>5, <1>3
  <2>2. ~(n < k)
    BY <1>2, <1>4, <1>5, <1>3
  <2>3. QED
    BY <2>1, <2>2
<1> HIDE DEF Fits
<1>6. m = n
  BY <1>3, <1>5
<1> HIDE DEF m
<1>7. QED
  BY <1>1, <1>6

(* An empty slot takes the first capability of another server.             *)
LEMMA NothingDelivered ==
  ASSUME NEW s \in Server, slot[s] = None, home[s] = TRUE
  PROVE  Deliver(s, <<>>) = Given(0, {}, None)
<1>1. Deliver(s, <<>>) = Gives(s, <<>>, 0, None)
  <2>1. Cardinality(Foreign(s, <<>>, 0)) <= 1
    BY FewForeign
  <2>2. Len(<<>>) \in 0 .. 2 /\ 0 \in 0 .. Len(<<>>)
    OBVIOUS
  <2>3. \A j \in 0 + 1 .. Len(<<>>) : FALSE
    OBVIOUS
  <2>4. QED
    BY <2>1, <2>2, <2>3, DeliverGives
<1>2. Foreign(s, <<>>, 0) = {}
  BY DEF Foreign
<1>3. Own(s, <<>>, 0) = {}
  BY DEF Own
<1>4. QED
  BY <1>1, <1>2, <1>3 DEF Gives

(* One capability is unwrapped or fills the slot.                          *)
LEMMA OneDelivered ==
  ASSUME NEW s \in Server, slot[s] = None, home[s] = TRUE, NEW a
  PROVE  Deliver(s, <<a>>) = IF a = s THEN Given(1, {1}, None)
                                      ELSE Given(1, {}, a)
<1> DEFINE caps == <<a>>
<1>1. caps[1] = a /\ Len(caps) = 1
  OBVIOUS
<1> HIDE DEF caps
<1>2. Deliver(s, caps) = Gives(s, caps, 1, None)
  <2>1. Cardinality(Foreign(s, caps, 1)) <= 1
    BY FewForeign
  <2>2. 1 \in 0 .. Len(caps) /\ Len(caps) \in 0 .. 2
    BY <1>1
  <2>3. \A j \in 1 + 1 .. Len(caps) : Cardinality(Foreign(s, caps, j)) > 1
    BY <1>1
  <2>4. QED
    BY <2>1, <2>2, <2>3, DeliverGives
<1>3. CASE a = s
  <2>1. Foreign(s, caps, 1) = {}
    BY <1>1, <1>3 DEF Foreign
  <2>2. Own(s, caps, 1) = {1}
    BY <1>1, <1>3 DEF Own
  <2>3. QED
    BY <1>2, <1>3, <2>1, <2>2 DEF Gives, caps
<1>4. CASE a # s
  <2>1. Foreign(s, caps, 1) = {1}
    BY <1>1, <1>4 DEF Foreign
  <2>2. Own(s, caps, 1) = {}
    BY <1>1, <1>4 DEF Own
  <2>3. caps[CHOOSE i \in Foreign(s, caps, 1) : TRUE] = a
    BY <1>1, <2>1
  <2>4. QED
    BY <1>2, <1>4, <2>1, <2>2, <2>3 DEF Gives, caps
<1>5. QED
  BY <1>3, <1>4

(* Of two, the second gets through unless neither is unwrapped.            *)
LEMMA TwoDelivered ==
  ASSUME NEW s \in Server, slot[s] = None, home[s] = TRUE, NEW a, NEW b
  PROVE  LET d == Deliver(s, <<a, b>>) IN
         /\ a # s /\ b # s => d.n = 1
         /\ d.slot = IF a # s THEN a ELSE IF b # s THEN b ELSE None
         /\ ~(a # s /\ b # s) => (1 \in d.unwrapped <=> a = s)
         /\ ~(a # s /\ b # s) => (2 \in d.unwrapped <=> b = s)
<1> DEFINE caps == <<a, b>>
           d == Deliver(s, caps)
<1>1. caps[1] = a /\ caps[2] = b /\ Len(caps) = 2
  OBVIOUS
<1> HIDE DEF caps
<1>2. CASE a # s /\ b # s
  <2>1. d = Gives(s, caps, 1, None)
    <3>1. Cardinality(Foreign(s, caps, 1)) <= 1
      BY FewForeign
    <3>2. 1 \in 0 .. Len(caps) /\ Len(caps) \in 0 .. 2
      BY <1>1
    <3>3. Cardinality(Foreign(s, caps, 2)) > 1
      BY <1>1, <1>2, FewForeign
    <3>4. \A j \in 1 + 1 .. Len(caps) : j = 2
      BY <1>1
    <3>5. QED
      BY <3>1, <3>2, <3>3, <3>4, DeliverGives
  <2>2. Foreign(s, caps, 1) = {1}
    BY <1>1, <1>2 DEF Foreign
  <2>3. caps[CHOOSE i \in Foreign(s, caps, 1) : TRUE] = a
    BY <1>1, <2>2
  <2>4. d.n = 1 /\ d.slot = a
    BY <2>1, <2>2, <2>3 DEF Gives, Given
  <2>5. QED
    BY <1>2, <2>4 DEF caps
<1>3. CASE ~(a # s /\ b # s)
  <2>1. d = Gives(s, caps, 2, None)
    <3>1. Cardinality(Foreign(s, caps, 2)) <= 1
      BY <1>1, <1>3, FewForeign
    <3>2. 2 \in 0 .. Len(caps) /\ Len(caps) \in 0 .. 2
      BY <1>1
    <3>3. \A j \in 2 + 1 .. Len(caps) : FALSE
      BY <1>1
    <3>4. QED
      BY <3>1, <3>2, <3>3, DeliverGives
  <2>2. d.unwrapped = Own(s, caps, 2)
    BY <2>1 DEF Gives, Given
  <2>3. (1 \in d.unwrapped <=> a = s) /\ (2 \in d.unwrapped <=> b = s)
    BY <1>1, <2>2 DEF Own
  <2>4. d.slot = IF Foreign(s, caps, 2) = {} THEN None
                 ELSE caps[CHOOSE i \in Foreign(s, caps, 2) : TRUE]
    BY <2>1 DEF Gives, Given
  <2>5. CASE a # s
    <3>1. Foreign(s, caps, 2) = {1}
      BY <1>1, <1>3, <2>5 DEF Foreign
    <3>2. caps[CHOOSE i \in Foreign(s, caps, 2) : TRUE] = a
      BY <1>1, <3>1
    <3>3. d.slot = a
      BY <2>4, <3>1, <3>2
    <3>4. QED
      BY <1>3, <2>3, <2>5, <3>3 DEF caps
  <2>6. CASE b # s
    <3>1. Foreign(s, caps, 2) = {2}
      BY <1>1, <1>3, <2>6 DEF Foreign
    <3>2. caps[CHOOSE i \in Foreign(s, caps, 2) : TRUE] = b
      BY <1>1, <3>1
    <3>3. d.slot = b
      BY <2>4, <3>1, <3>2
    <3>4. QED
      BY <1>3, <2>3, <2>6, <3>3 DEF caps
  <2>7. CASE a = s /\ b = s
    <3>1. Foreign(s, caps, 2) = {}
      BY <1>1, <2>7 DEF Foreign
    <3>2. d.slot = None
      BY <2>4, <3>1
    <3>3. QED
      BY <1>3, <2>3, <2>7, <3>2 DEF caps
  <2>8. QED
    BY <2>5, <2>6, <2>7
<1>4. QED
  BY <1>2, <1>3

(* Every operation has the stub of its interface.                          *)
LEMMA StubOf ==
  /\ \A op \in DOMAIN ConnStubs : Stubs[op] = ConnStubs[op]
  /\ \A op \in DOMAIN WindowStubs : Stubs[op] = WindowStubs[op]
  /\ \A op \in DOMAIN ProcessStubs : Stubs[op] = ProcessStubs[op]
  /\ \A op \in DOMAIN ChannelStubs : Stubs[op] = ChannelStubs[op]
  /\ \A op \in DOMAIN NonRootStubs : Stubs[op] = NonRootStubs[op]
  /\ \A op \in DOMAIN ObjectStubs : Stubs[op] = ObjectStubs[op]
  /\ \A op \in DOMAIN ViewStubs : Stubs[op] = ViewStubs[op]
  /\ \A op \in DOMAIN SddfStubs : Stubs[op] = SddfStubs[op]
<1>1. \A op \in DOMAIN ConnStubs : Stubs[op] = ConnStubs[op]
  BY Interfaces DEF Stubs, Op
<1>2. \A op \in DOMAIN WindowStubs : Stubs[op] = WindowStubs[op]
  BY Interfaces DEF Stubs, Op
<1>3. \A op \in DOMAIN ProcessStubs : Stubs[op] = ProcessStubs[op]
  BY Interfaces DEF Stubs, Op
<1>4. \A op \in DOMAIN ChannelStubs : Stubs[op] = ChannelStubs[op]
  BY Interfaces DEF Stubs, Op
<1>5. \A op \in DOMAIN NonRootStubs : Stubs[op] = NonRootStubs[op]
  BY Interfaces DEF Stubs, Op
<1>6. \A op \in DOMAIN ObjectStubs : Stubs[op] = ObjectStubs[op]
  BY Interfaces DEF Stubs, Op
<1>7. \A op \in DOMAIN ViewStubs : Stubs[op] = ViewStubs[op]
  BY Interfaces DEF Stubs, Op
<1>8. \A op \in DOMAIN SddfStubs : Stubs[op] = SddfStubs[op]
  BY Interfaces DEF Stubs, Op
<1>9. QED
  BY <1>1, <1>2, <1>3, <1>4, <1>5, <1>6, <1>7, <1>8

(* handle_reply fits the stub of every call.                               *)
LEMMA ReplyFitsStub ==
  ASSUME NEW c \in CallSet
  PROVE  Unpacked(c, HandleReply(c.op, c.ret)) = "ok"
<1> USE Interfaces, StubOf, CallShape
    DEF Unpacked, HandleReply, NamesSlot, Gets, Returning, Kinded,
        ReplyShape, Stub
<1>1. CASE c.op \in DOMAIN ConnStubs
  BY <1>1 DEF ConnStubs
<1>2. CASE c.op \in DOMAIN WindowStubs
  BY <1>2 DEF WindowStubs
<1>3. CASE c.op \in DOMAIN ProcessStubs
  BY <1>3 DEF ProcessStubs
<1>4. CASE c.op \in DOMAIN ChannelStubs
  BY <1>4 DEF ChannelStubs
<1>5. CASE c.op \in DOMAIN NonRootStubs
  BY <1>5 DEF NonRootStubs
<1>6. CASE c.op \in DOMAIN ObjectStubs
  BY <1>6 DEF ObjectStubs
<1>7. CASE c.op \in DOMAIN ViewStubs
  BY <1>7 DEF ViewStubs
<1>8. CASE c.op \in DOMAIN SddfStubs
  BY <1>8 DEF SddfStubs
<1>9. QED
  BY <1>1, <1>2, <1>3, <1>4, <1>5, <1>6, <1>7, <1>8 DEF Op

(* The label of an error a handler returns stands for that error.          *)
LEMMA LabelTellsError ==
  ASSUME NEW e \in HandlerError
  PROVE  UnpackError(HandleError(e)) = e
<1>1. DOMAIN Label =
        {"InvalidInvocation", "NotEnoughArgs", "NotEnoughCaps", "InvalidType",
         "CSpaceFull", "UnsupportedInvocation", "OutOfHandles",
         "OutOfHandleCaps", "AlignmentError", "InvalidArguments",
         "InvalidHandle", "InvalidHandleCapability", "DataBufferNotSet",
         "BufferTooLarge", "InsufficientResources", "ServerError"}
  BY DEF Label
<1>2. \A f \in DOMAIN Label : Label[f] = Label[e] => f = e
  BY <1>1 DEF Label, HandlerError
<1>3. e \in DOMAIN Label /\ HandleError(e) = Label[e]
  BY <1>1 DEF HandleError, HandlerError
<1>4. QED
  BY <1>2, <1>3 DEF UnpackError

(* The arguments a call can have: none, one, or the two of view.           *)
OneArg == EitherOps \cup MustBeCap \cup CapOps

LEMMA ArgShapes ==
  ASSUME NEW c \in CallSet
  PROVE  \/ c.args = <<>> /\ c.op \notin OneArg \cup {"View"}
         \/ \E a \in Arg : /\ c.args = <<a>>
                           /\ c.op \in OneArg \cup {"ConnOpen"}
                           /\ c.op \in CapOps => a \in Issuer
         \/ \E w \in Arg, o \in Arg : c.args = <<w, o>> /\ c.op = "View"
<1> USE CallShape DEF Args, OneArg
<1>1. CASE c.op \in EitherOps \cup MustBeCap
  <2>1. c.args \in One(Arg)
    BY <1>1 DEF EitherOps, MustBeCap, CapOps
  <2>2. QED
    BY <1>1, <2>1 DEF One, EitherOps, MustBeCap, CapOps
<1>2. CASE c.op \in CapOps
  <2>1. c.args \in One(Issuer)
    BY <1>2 DEF EitherOps, MustBeCap, CapOps
  <2>2. QED
    BY <1>2, <2>1 DEF One, Arg
<1>3. CASE c.op = "ConnOpen"
  <2>1. c.args \in {<<>>} \cup One(Arg)
    BY <1>3 DEF EitherOps, MustBeCap, CapOps
  <2>2. QED
    BY <1>3, <2>1 DEF One, EitherOps, MustBeCap, CapOps
<1>4. CASE c.op = "View"
  <2>1. c.args \in Two(Arg)
    BY <1>4 DEF EitherOps, MustBeCap, CapOps
  <2>2. QED
    BY <1>4, <2>1 DEF Two
<1>5. CASE c.op \notin OneArg \cup {"ConnOpen", "View"}
  <2>1. c.args \in {<<>>}
    BY <1>5
  <2>2. QED
    BY <1>5, <2>1
<1>6. QED
  BY <1>1, <1>2, <1>3, <1>4, <1>5

(* The capabilities of the arguments, in their order.                      *)
LEMMA CapsOf ==
  ASSUME NEW c, NEW w, NEW o
  PROVE  /\ c.args = <<>> => Caps(c) = <<>>
         /\ c.args = <<w>> => Caps(c) = IF w = "handle" THEN <<>> ELSE <<w>>
         /\ c.args = <<w, o>> =>
              Caps(c) = IF w = "handle"
                        THEN IF o = "handle" THEN <<>> ELSE <<o>>
                        ELSE IF o = "handle" THEN <<w>> ELSE <<w, o>>
<1> DEFINE caps == {i \in DOMAIN c.args : IsCap(c.args[i])}
<1>1. CASE c.args = <<>>
  <2>1. caps = DOMAIN c.args
    BY <1>1
  <2>2. QED
    BY <1>1, <2>1 DEF Caps
<1>2. CASE c.args = <<w>>
  <2>1. caps = IF w = "handle" THEN {} ELSE DOMAIN c.args
    BY <1>2 DEF IsCap
  <2>2. DOMAIN c.args # {}
    BY <1>2
  <2>3. QED
    BY <1>2, <2>1, <2>2 DEF Caps
<1>3. CASE c.args = <<w, o>>
  <2>1. CASE w = "handle" /\ o = "handle"
    <3>1. caps = {} /\ DOMAIN c.args # {}
      BY <1>3, <2>1 DEF IsCap
    <3>2. QED
      BY <1>3, <2>1, <3>1 DEF Caps
  <2>2. CASE w = "handle" /\ o # "handle"
    <3>1. caps = {2} /\ DOMAIN c.args # {2}
      BY <1>3, <2>2 DEF IsCap
    <3>2. QED
      BY <1>3, <2>2, <3>1 DEF Caps
  <2>3. CASE w # "handle" /\ o = "handle"
    <3>1. caps = {1} /\ DOMAIN c.args # {1}
      BY <1>3, <2>3 DEF IsCap
    <3>2. QED
      BY <1>3, <2>3, <3>1 DEF Caps
  <2>4. CASE w # "handle" /\ o # "handle"
    <3>1. caps = DOMAIN c.args
      BY <1>3, <2>4 DEF IsCap
    <3>2. QED
      BY <1>3, <2>4, <3>1 DEF Caps
  <2>5. QED
    BY <2>1, <2>2, <2>3, <2>4
<1>4. QED
  BY <1>1, <1>2, <1>3

(* What a decoding may say of a call whose delivery was d: it refuses with *)
(* one of two errors, or sees the arguments as they were meant, and can    *)
(* tell whether a capability is in the slot now.                           *)
Meant(s, c, args) ==
  /\ args \in Seq({"handle", "unwrapped", "wrapped"})
  /\ Len(args) = Len(c.args)
  /\ \A i \in DOMAIN args :
       args[i] = CASE c.args[i] = "handle" -> "handle"
                   [] c.args[i] = s -> "unwrapped"
                   [] OTHER -> "wrapped"

Faithful(s, c, d, r) ==
  \/ r.err \in {"InvalidArguments", "DataBufferNotSet"}
  \/ /\ r.err = "none"
     /\ Meant(s, c, r.args)
     /\ (\E i \in DOMAIN r.args : r.args[i] = "wrapped") <=> d.slot # None
     /\ d.slot # None => ContainsCap(c.op, r.args)
     /\ d.slot # None /\ s = "root" => c.op = "View" /\ c.args[1] = "object"

(* Without a capability nothing is consumed.                               *)
LEMMA NothingConsumed == ~Consumed(Given(0, {}, None))
  BY DEF Consumed, Given

(* Each operation has one way of decoding.                                 *)
LEMMA Dispatch ==
  ASSUME NEW s, NEW c, NEW d, NEW buffered,
         c.op \in IsSupported[s],
         ~Consumed(d) \/ c.op \in CanContainWrappedCap
  PROVE  /\ c.op = "ObjStat" => Decode(s, c, d, buffered) = StatArg(c, d)
         /\ c.op \in EitherOps \ {"ObjStat"}
              => Decode(s, c, d, buffered) = EitherArg(c, d)
         /\ c.op \in {"WindowRegister", "ChannelOpen"}
              => Decode(s, c, d, buffered) = UnwrappedArg(c, d)
         /\ c.op \in WrappedOps
              => Decode(s, c, d, buffered) = WrappedArg(c, d)
         /\ c.op = "View" => Decode(s, c, d, buffered) = ViewArgs(c, d)
         /\ c.op = "ConnOpen" => Decode(s, c, d, buffered) = OpenArgs(c, d)
         /\ c.op \notin OneArg \cup {"View", "ConnOpen"}
              => Decode(s, c, d, buffered) = PlainArgs(c, buffered)
  BY DEF Decode, OneArg, EitherOps, WrappedOps, MustBeCap, CapOps

(* The root server takes no call whose capability goes into the slot, but  *)
(* view.                                                                   *)
LEMMA RootOps ==
  ASSUME NEW op, op \in IsSupported["root"]
  PROVE  op \notin WrappedOps \cup {"ConnOpen"}
  BY DEF IsSupported, RootInvocations, ObjectInvocations, WrappedOps,
         MustBeCap, CapOps

(* conn_open sends the registers of its buffer if it has one.              *)
LEMMA ConnOpenSends ==
  ASSUME NEW c, c.op = "ConnOpen"
  PROVE  Sends(c) = IF c.args = <<>> THEN 0 ELSE 2
  BY Interfaces, StubOf DEF Sends, EitherOps, Kinded, NonRootStubs, Stub

(* Calls without arguments are length and buffer checks.                   *)
LEMMA PlainIsFaithful ==
  ASSUME NEW s \in Server, NEW c \in CallSet, c.op \in Speaks[s],
         c.args = <<>>, NEW buffered \in BOOLEAN
  PROVE  Faithful(s, c, Given(0, {}, None),
                  Decode(s, c, Given(0, {}, None), buffered))
<1> DEFINE d == Given(0, {}, None)
           r == Decode(s, c, d, buffered)
<1>1. r \in {Invalid, Refused("DataBufferNotSet"), Decoded(<<>>)}
  <2>1. c.op \notin OneArg \cup {"View"}
    BY ArgShapes
  <2>2. CASE c.op = "ConnOpen"
    <3>1. r = OpenArgs(c, d)
      BY <2>2, OffersAreSupported, NothingConsumed, Dispatch
    <3>2. Sends(c) = 0
      BY <2>2, ConnOpenSends
    <3>3. QED
      BY <3>1, <3>2 DEF OpenArgs
  <2>3. CASE c.op # "ConnOpen"
    <3>1. r = PlainArgs(c, buffered)
      BY <2>1, <2>3, OffersAreSupported, NothingConsumed, Dispatch
    <3>2. QED
      BY <3>1 DEF PlainArgs
  <2>4. QED
    BY <2>2, <2>3
<1> HIDE DEF r
<1>2. CASE r = Decoded(<<>>)
  <2>1. r.err = "none" /\ r.args = <<>>
    BY <1>2 DEF Decoded
  <2>2. Meant(s, c, <<>>)
    BY DEF Meant
  <2>3. d.slot = None
    BY DEF Given
  <2>4. QED
    BY <2>1, <2>2, <2>3 DEF Faithful, r
<1>3. CASE r \in {Invalid, Refused("DataBufferNotSet")}
  BY <1>3 DEF Faithful, Invalid, Refused, r
<1>4. QED
  BY <1>1, <1>2, <1>3 DEF r

(* What the decodings answer.                                              *)
LEMMA RefusedIsFaithful ==
  ASSUME NEW s, NEW c, NEW d
  PROVE  Faithful(s, c, d, Invalid)
  BY DEF Faithful, Invalid, Refused

(* The argument seen as it was meant, for a delivery that put it there.    *)
LEMMA OneIsFaithful ==
  ASSUME NEW s \in Server, NEW c, NEW a \in Arg, c.args = <<a>>, NEW x, NEW d,
         x = IF a = "handle" THEN "handle"
             ELSE IF a = s THEN "unwrapped" ELSE "wrapped",
         d.slot = IF x = "wrapped" THEN a ELSE None,
         x = "wrapped" => ContainsCap(c.op, <<x>>) /\ s # "root"
  PROVE  Faithful(s, c, d, Decoded(<<x>>))
<1>1. x \in {"handle", "unwrapped", "wrapped"}
  OBVIOUS
<1>2. Meant(s, c, <<x>>)
  <2>1. /\ <<x>> \in Seq({"handle", "unwrapped", "wrapped"})
        /\ Len(<<x>>) = Len(c.args)
    BY <1>1
  <2>2. x = CASE a = "handle" -> "handle"
              [] a = s -> "unwrapped"
              [] OTHER -> "wrapped"
    BY DEF Server
  <2>3. \A i \in DOMAIN <<x>> : i = 1 /\ <<x>>[i] = x /\ c.args[i] = a
    OBVIOUS
  <2>4. QED
    BY <2>1, <2>2, <2>3 DEF Meant
<1>3. x = "wrapped" => d.slot # None
  BY InvocationsAssumption DEF Arg
<1>4. (\E i \in DOMAIN <<x>> : <<x>>[i] = "wrapped") <=> x = "wrapped"
  OBVIOUS
<1>5. Decoded(<<x>>).err = "none" /\ Decoded(<<x>>).args = <<x>>
  BY DEF Decoded
<1>6. QED
  BY <1>2, <1>3, <1>4, <1>5 DEF Faithful

(* Calls with one argument: a handle where the length says so, a           *)
(* capability where one came.                                              *)
LEMMA SingleIsFaithful ==
  ASSUME NEW s \in Server, slot[s] = None, home[s] = TRUE,
         NEW c \in CallSet, c.op \in Speaks[s],
         NEW a \in Arg, c.args = <<a>>, NEW buffered \in BOOLEAN
  PROVE  Faithful(s, c, Deliver(s, Caps(c)),
                  Decode(s, c, Deliver(s, Caps(c)), buffered))
<1> DEFINE d == Deliver(s, Caps(c))
           r == Decode(s, c, d, buffered)
<1>1. /\ c.op \in OneArg \cup {"ConnOpen"}
      /\ c.op \in CapOps => a \in Issuer
  <2>1. Len(c.args) = 1 /\ c.args[1] = a
    OBVIOUS
  <2>2. c.args # <<>> /\ \A w, o : c.args # <<w, o>>
    BY <2>1
  <2>3. \A b : c.args = <<b>> => b = a
    BY <2>1
  <2>4. QED
    BY <2>2, <2>3, ArgShapes
<1>2. c.op \in IsSupported[s]
  BY OffersAreSupported
<1>3. s = "root" => c.op \notin WrappedOps \cup {"ConnOpen"}
  BY <1>2, RootOps
<1>4. c.op = "ConnOpen" => Sends(c) = 2
  <2>1. c.args # <<>>
    <3>1. Len(c.args) = 1
      OBVIOUS
    <3>2. QED
      BY <3>1
  <2>2. QED
    BY <2>1, ConnOpenSends
<1>5. \/ c.op = "ObjStat" \/ c.op \in EitherOps \ {"ObjStat"}
      \/ c.op \in {"WindowRegister", "ChannelOpen"}
      \/ c.op \in WrappedOps \/ c.op = "ConnOpen"
  BY <1>1 DEF OneArg, WrappedOps, CapOps
<1>6. CASE a = "handle"
  <2>1. d = Given(0, {}, None)
    BY <1>6, CapsOf, NothingDelivered
  <2>2. d.n = 0 /\ d.slot = None /\ ~Consumed(d)
    BY <2>1, NothingConsumed DEF Given
  <2> HIDE DEF d
  <2>3. Faithful(s, c, d, Decoded(<<"handle">>))
    BY <1>6, <2>2, OneIsFaithful
  <2>4. /\ StatArg(c, d) \in {Decoded(<<"handle">>), Invalid}
        /\ EitherArg(c, d) \in {Decoded(<<"handle">>), Invalid}
        /\ WrappedArg(c, d) = Invalid
        /\ c.op = "ConnOpen" => OpenArgs(c, d) = Decoded(<<"handle">>)
    BY <1>4, <2>2 DEF StatArg, EitherArg, WrappedArg, OpenArgs
  <2>5. c.op \notin {"WindowRegister", "ChannelOpen"}
    BY <1>1, <1>6 DEF Issuer, CapOps
  <2>6. r \in {Decoded(<<"handle">>), Invalid}
    BY <1>2, <1>5, <2>2, <2>4, <2>5, Dispatch
  <2>7. QED
    BY <2>3, <2>6, RefusedIsFaithful DEF d
<1>7. CASE a = s
  <2>1. d = Given(1, {1}, None)
    BY <1>7, CapsOf, OneDelivered DEF Server
  <2>2. d.n = 1 /\ d.unwrapped = {1} /\ d.slot = None
    BY <2>1 DEF Given
  <2>3. ~Consumed(d)
    BY <2>2 DEF Consumed
  <2> HIDE DEF d
  <2>4. Faithful(s, c, d, Decoded(<<"unwrapped">>))
    BY <1>7, <2>2, OneIsFaithful DEF Server
  <2>5. /\ StatArg(c, d) = Decoded(<<"unwrapped">>)
        /\ EitherArg(c, d) = Decoded(<<"unwrapped">>)
    BY <2>2, Zenon DEF StatArg, EitherArg
  <2>6. WrappedArg(c, d) = Invalid
    <3>1. d.unwrapped # {}
      BY <2>2
    <3>2. QED
      BY <3>1 DEF WrappedArg
  <2>7. UnwrappedArg(c, d) \in {Decoded(<<"unwrapped">>), Invalid}
    BY DEF UnwrappedArg
  <2>8. c.op = "ConnOpen" => OpenArgs(c, d) = Decoded(<<"unwrapped">>)
    <3>1. 1 \in d.unwrapped
      BY <2>2
    <3>2. QED
      BY <1>4, <2>2, <3>1 DEF OpenArgs, TakenAs
  <2>9. r \in {Decoded(<<"unwrapped">>), Invalid}
    BY <1>2, <1>5, <2>3, <2>5, <2>6, <2>7, <2>8, Dispatch
  <2>10. QED
    BY <2>4, <2>9, RefusedIsFaithful DEF d
<1>8. CASE a # "handle" /\ a # s
  <2>1. d = Given(1, {}, a)
    BY <1>8, CapsOf, OneDelivered
  <2>2. d.n = 1 /\ d.unwrapped = {} /\ d.slot = a
    BY <2>1 DEF Given
  <2>3. Consumed(d)
    BY <2>2 DEF Consumed
  <2> HIDE DEF d
  <2>4. CASE c.op \in WrappedOps \cup {"ConnOpen"}
    <3>1. ContainsCap(c.op, <<"wrapped">>)
      BY <2>4 DEF ContainsCap
    <3>2. Faithful(s, c, d, Decoded(<<"wrapped">>))
      BY <1>3, <1>8, <2>2, <2>4, <3>1, OneIsFaithful
    <3>3. WrappedArg(c, d) \in {Decoded(<<"wrapped">>), Invalid}
      BY DEF WrappedArg
    <3>4. c.op = "ConnOpen" => OpenArgs(c, d) = Decoded(<<"wrapped">>)
      BY <1>4, <2>2 DEF OpenArgs, TakenAs
    <3>5. c.op \in CanContainWrappedCap
      BY <2>4 DEF CanContainWrappedCap, WrappedOps, MustBeCap, CapOps
    <3>6. r \in {Decoded(<<"wrapped">>), Invalid}
      BY <1>2, <2>4, <3>3, <3>4, <3>5, Dispatch
    <3>7. QED
      BY <3>2, <3>6, RefusedIsFaithful DEF d
  <2>5. CASE c.op \notin WrappedOps \cup {"ConnOpen"}
    <3>1. c.op \notin CanContainWrappedCap
      BY <1>1, <2>5 DEF CanContainWrappedCap, WrappedOps, MustBeCap, CapOps,
                        OneArg, EitherOps
    <3>2. r = Invalid
      BY <1>2, <2>3, <3>1 DEF Decode
    <3>3. QED
      BY <3>2, RefusedIsFaithful DEF d
  <2>6. QED
    BY <2>4, <2>5
<1>9. QED
  BY <1>6, <1>7, <1>8

(* view's window and object, as handles and capabilities.                  *)
ArgSeen(s, a) ==
  IF a = "handle" THEN "handle" ELSE IF a = s THEN "unwrapped" ELSE "wrapped"

(* What view_args makes of them, when it does not refuse: the window, and  *)
(* only the window, may be in the slot.                                    *)
LEMMA ViewArgsAreSeen ==
  ASSUME NEW s \in Server, slot[s] = None, home[s] = TRUE,
         NEW c, NEW w \in Arg, NEW o \in Arg, c.args = <<w, o>>
  PROVE  LET d == Deliver(s, Caps(c)) IN
         \/ ViewArgs(c, d) = Invalid
         \/ /\ ViewArgs(c, d) = Decoded(<<ArgSeen(s, w), ArgSeen(s, o)>>)
            /\ ArgSeen(s, o) # "wrapped"
            /\ d.slot = IF ArgSeen(s, w) = "wrapped" THEN w ELSE None
<1> DEFINE d == Deliver(s, Caps(c))
           at == Cardinality({i \in 1 .. 2 : IsCap(c.args[i])})
           window == IF IsCap(c.args[1]) THEN TakenAs(1, d) ELSE "handle"
           object == IF IsCap(c.args[2]) THEN TakenAs(at, d) ELSE "handle"
<1>1. c.args[1] = w /\ c.args[2] = o
  OBVIOUS
<1>2. ViewArgs(c, d) = IF d.n < at \/ object = "wrapped" THEN Invalid
                       ELSE Decoded(<<window, object>>)
  BY DEF ViewArgs
<1>3. at = (IF w # "handle" THEN 1 ELSE 0) + (IF o # "handle" THEN 1 ELSE 0)
  <2>1. Foreign("handle", c.args, 2) = {i \in 1 .. 2 : IsCap(c.args[i])}
    BY Zenon DEF Foreign, IsCap
  <2>2. at = Cardinality(Foreign("handle", c.args, 2))
    BY <2>1, Zenon
  <2> HIDE DEF at
  <2>3. QED
    BY <1>1, <2>2, FewForeign
<1> HIDE DEF at
<1>4. CASE w = "handle" /\ o = "handle"
  <2>1. d = Given(0, {}, None)
    <3>1. Caps(c) = <<>>
      BY <1>4, CapsOf
    <3>2. QED
      BY <3>1, NothingDelivered
  <2>2. d.n = 0 /\ d.slot = None
    BY <2>1 DEF Given
  <2> HIDE DEF d
  <2>3. at = 0 /\ window = "handle" /\ object = "handle"
    BY <1>1, <1>3, <1>4 DEF IsCap
  <2>4. QED
    BY <1>2, <1>4, <2>2, <2>3 DEF ArgSeen, d
<1>5. CASE w # "handle" /\ o = "handle"
  <2>1. d = IF w = s THEN Given(1, {1}, None) ELSE Given(1, {}, w)
    <3>1. Caps(c) = <<w>>
      BY <1>5, CapsOf
    <3>2. Deliver(s, <<w>>) = IF w = s THEN Given(1, {1}, None)
                                     ELSE Given(1, {}, w)
      BY OneDelivered, Zenon
    <3>3. QED
      BY <3>1, <3>2, Zenon
  <2>2. d.slot = (IF w = s THEN None ELSE w) /\ (1 \in d.unwrapped <=> w = s)
    BY <2>1 DEF Given
  <2> HIDE DEF d
  <2>3. object = "handle" /\ window = ArgSeen(s, w)
    BY <1>1, <1>5, <2>2 DEF IsCap, TakenAs, ArgSeen
  <2>4. QED
    BY <1>2, <1>5, <2>2, <2>3 DEF ArgSeen, d
<1>6. CASE w = "handle" /\ o # "handle"
  <2>1. d = IF o = s THEN Given(1, {1}, None) ELSE Given(1, {}, o)
    <3>1. Caps(c) = <<o>>
      BY <1>6, CapsOf
    <3>2. Deliver(s, <<o>>) = IF o = s THEN Given(1, {1}, None)
                                     ELSE Given(1, {}, o)
      BY OneDelivered, Zenon
    <3>3. QED
      BY <3>1, <3>2, Zenon
  <2>2. d.slot = (IF o = s THEN None ELSE o) /\ (1 \in d.unwrapped <=> o = s)
    BY <2>1 DEF Given
  <2> HIDE DEF d
  <2>3. at = 1 /\ window = "handle" /\ object = ArgSeen(s, o)
    BY <1>1, <1>3, <1>6, <2>2 DEF IsCap, TakenAs, ArgSeen
  <2>4. QED
    BY <1>2, <1>6, <2>2, <2>3 DEF ArgSeen, d
<1>7. CASE w # "handle" /\ o # "handle"
  <2>1. Caps(c) = <<w, o>>
    BY <1>7, CapsOf
  <2>2. /\ w # s /\ o # s => d.n = 1
        /\ d.slot = IF w # s THEN w ELSE IF o # s THEN o ELSE None
        /\ ~(w # s /\ o # s) => (1 \in d.unwrapped <=> w = s)
        /\ ~(w # s /\ o # s) => (2 \in d.unwrapped <=> o = s)
    <3> DEFINE e == Deliver(s, <<w, o>>)
    <3>1. /\ w # s /\ o # s => e.n = 1
          /\ e.slot = IF w # s THEN w ELSE IF o # s THEN o ELSE None
          /\ ~(w # s /\ o # s) => (1 \in e.unwrapped <=> w = s)
          /\ ~(w # s /\ o # s) => (2 \in e.unwrapped <=> o = s)
      BY TwoDelivered
    <3>2. d = e
      BY <2>1
    <3> HIDE DEF d, e
    <3>3. QED
      BY <3>1, <3>2
  <2> HIDE DEF d
  <2>3. at = 2
    BY <1>3, <1>7
  <2>4. CASE w # s /\ o # s
    BY <1>2, <2>2, <2>3, <2>4 DEF d
  <2>5. CASE ~(w # s /\ o # s)
    <3>1. window = TakenAs(1, d) /\ object = TakenAs(2, d)
      BY <1>1, <1>7, <2>3 DEF IsCap
    <3>2. TakenAs(1, d) = ArgSeen(s, w)
      BY <1>7, <2>2, <2>5 DEF TakenAs, ArgSeen
    <3>3. TakenAs(2, d) = ArgSeen(s, o)
      BY <1>7, <2>2, <2>5 DEF TakenAs, ArgSeen
    <3>4. QED
      BY <1>2, <1>7, <2>2, <2>5, <3>1, <3>2, <3>3 DEF ArgSeen, d
  <2>6. QED
    BY <2>4, <2>5
<1>8. QED
  BY <1>4, <1>5, <1>6, <1>7

(* So view is decoded as it was meant, or refused.                         *)
LEMMA ViewIsFaithful ==
  ASSUME NEW s \in Server, slot[s] = None, home[s] = TRUE,
         NEW c \in CallSet, c.op = "View", c.op \in Speaks[s],
         NEW w \in Arg, NEW o \in Arg, c.args = <<w, o>>,
         NEW buffered \in BOOLEAN
  PROVE  Faithful(s, c, Deliver(s, Caps(c)),
                  Decode(s, c, Deliver(s, Caps(c)), buffered))
<1> DEFINE d == Deliver(s, Caps(c))
           r == Decode(s, c, d, buffered)
           x == ArgSeen(s, w)
           y == ArgSeen(s, o)
<1>1. r = ViewArgs(c, d)
  BY OffersAreSupported, Dispatch DEF CanContainWrappedCap
<1>2. \/ ViewArgs(c, d) = Invalid
      \/ /\ ViewArgs(c, d) = Decoded(<<x, y>>)
         /\ y # "wrapped"
         /\ d.slot = IF x = "wrapped" THEN w ELSE None
  BY ViewArgsAreSeen
<1> HIDE DEF d, r
<1>3. CASE r = Invalid
  BY <1>3, RefusedIsFaithful DEF d, r
<1>4. CASE /\ r = Decoded(<<x, y>>)
           /\ y # "wrapped"
           /\ d.slot = IF x = "wrapped" THEN w ELSE None
  <2>1. r.err = "none" /\ r.args = <<x, y>>
    BY <1>4 DEF Decoded
  <2>2. Meant(s, c, <<x, y>>)
    <3>1. {x, y} \subseteq {"handle", "unwrapped", "wrapped"}
      BY DEF ArgSeen
    <3>2. /\ <<x, y>> \in Seq({"handle", "unwrapped", "wrapped"})
          /\ Len(<<x, y>>) = Len(c.args)
      BY <3>1
    <3>3. /\ x = CASE w = "handle" -> "handle"
                   [] w = s -> "unwrapped"
                   [] OTHER -> "wrapped"
          /\ y = CASE o = "handle" -> "handle"
                   [] o = s -> "unwrapped"
                   [] OTHER -> "wrapped"
      BY DEF Server, ArgSeen
    <3> HIDE DEF x, y
    <3>4. \A i \in DOMAIN <<x, y>> :
            \/ i = 1 /\ <<x, y>>[i] = x /\ c.args[i] = w
            \/ i = 2 /\ <<x, y>>[i] = y /\ c.args[i] = o
      OBVIOUS
    <3>5. QED
      BY <3>2, <3>3, <3>4 DEF Meant
  <2>3. x = "wrapped" => w \in Issuer /\ w # s
    BY DEF ArgSeen, Arg
  <2>4. (\E i \in DOMAIN <<x, y>> : <<x, y>>[i] = "wrapped") <=> x = "wrapped"
    BY <1>4
  <2>5. d.slot # None <=> x = "wrapped"
    BY <1>4, <2>3, InvocationsAssumption
  <2>6. x = "wrapped" => ContainsCap(c.op, <<x, y>>)
    BY DEF ContainsCap
  <2>7. x = "wrapped" /\ s = "root" => c.args[1] = "object"
    BY <2>3 DEF Issuer
  <2> HIDE DEF x, y
  <2>8. QED
    BY <2>1, <2>2, <2>4, <2>5, <2>6, <2>7 DEF Faithful, d, r
<1>5. QED
  BY <1>1, <1>2, <1>3, <1>4

(* Every call is decoded faithfully by a server that was ready for it.     *)
LEMMA DecodesFaithfully ==
  ASSUME NEW s \in Server, slot[s] = None, home[s] = TRUE,
         NEW c \in CallSet, c.op \in Speaks[s], NEW buffered \in BOOLEAN
  PROVE  Faithful(s, c, Deliver(s, Caps(c)),
                  Decode(s, c, Deliver(s, Caps(c)), buffered))
<1>1. CASE c.args = <<>>
  <2>1. Caps(c) = <<>>
    BY <1>1, CapsOf
  <2>2. Deliver(s, Caps(c)) = Given(0, {}, None)
    BY <2>1, NothingDelivered
  <2>3. QED
    BY <1>1, <2>2, PlainIsFaithful
<1>2. ASSUME NEW a \in Arg, c.args = <<a>>
      PROVE  Faithful(s, c, Deliver(s, Caps(c)),
                      Decode(s, c, Deliver(s, Caps(c)), buffered))
  BY <1>2, SingleIsFaithful
<1>3. ASSUME NEW w \in Arg, NEW o \in Arg, c.args = <<w, o>>, c.op = "View"
      PROVE  Faithful(s, c, Deliver(s, Caps(c)),
                      Decode(s, c, Deliver(s, Caps(c)), buffered))
  BY <1>3, ViewIsFaithful
<1>4. QED
  BY <1>1, <1>2, <1>3, ArgShapes

(* What is left in the slot is a capability of a server, and the delivery  *)
(* tells that the slot was used.                                           *)
LEMMA DeliveredSlot ==
  ASSUME NEW s \in Server, slot[s] = None, home[s] = TRUE, NEW c \in CallSet
  PROVE  LET d == Deliver(s, Caps(c)) IN
         /\ d.slot \in Issuer \cup {None}
         /\ ~Consumed(d) => d.slot = None
<1> DEFINE caps == Caps(c)
           d == Deliver(s, caps)
<1>1. /\ Len(caps) \in 0 .. 2
      /\ \A i \in 1 .. Len(caps) : caps[i] \in Issuer
  <2>1. CASE c.args = <<>>
    <3>1. caps = <<>>
      BY <2>1, CapsOf
    <3>2. QED
      BY <3>1
  <2>2. ASSUME NEW a \in Arg, c.args = <<a>>
        PROVE  /\ Len(caps) \in 0 .. 2
               /\ \A i \in 1 .. Len(caps) : caps[i] \in Issuer
    <3>1. caps = IF a = "handle" THEN <<>> ELSE <<a>>
      BY <2>2, CapsOf
    <3> HIDE DEF caps
    <3>2. QED
      BY <3>1 DEF Arg
  <2>3. ASSUME NEW w \in Arg, NEW o \in Arg, c.args = <<w, o>>
        PROVE  /\ Len(caps) \in 0 .. 2
               /\ \A i \in 1 .. Len(caps) : caps[i] \in Issuer
    <3>1. caps = IF w = "handle"
                 THEN IF o = "handle" THEN <<>> ELSE <<o>>
                 ELSE IF o = "handle" THEN <<w>> ELSE <<w, o>>
      BY <2>3, CapsOf
    <3> HIDE DEF caps
    <3>2. QED
      BY <3>1 DEF Arg
  <2> HIDE DEF caps
  <2>4. QED
    BY <2>1, <2>2, <2>3, ArgShapes
<1> HIDE DEF caps
<1>2. PICK n \in 0 .. Len(caps) : d = Gives(s, caps, n, None)
  <2>1. /\ Cardinality(Foreign(s, caps, 0)) = 0
        /\ Cardinality(Foreign(s, caps, 1)) \in {0, 1}
        /\ Cardinality(Foreign(s, caps, 2)) \in {0, 1, 2}
    BY FewForeign
  <2>2. CASE Cardinality(Foreign(s, caps, Len(caps))) <= 1
    <3>1. \A j \in Len(caps) + 1 .. Len(caps) : FALSE
      BY <1>1
    <3>2. Len(caps) \in 0 .. Len(caps)
      BY <1>1
    <3>3. d = Gives(s, caps, Len(caps), None)
      BY <1>1, <2>2, <3>1, <3>2, DeliverGives
    <3>4. QED
      BY <3>2, <3>3
  <2>3. CASE ~(Cardinality(Foreign(s, caps, Len(caps))) <= 1)
    <3>1. Len(caps) = 2
      BY <1>1, <2>1, <2>3
    <3>2. \A j \in 1 + 1 .. Len(caps) : j = 2
      BY <3>1
    <3>3. 1 \in 0 .. Len(caps) /\ Cardinality(Foreign(s, caps, 1)) <= 1
          /\ Cardinality(Foreign(s, caps, 2)) > 1
      BY <2>1, <2>3, <3>1
    <3>4. d = Gives(s, caps, 1, None)
      BY <1>1, <3>2, <3>3, DeliverGives
    <3>5. QED
      BY <3>3, <3>4
  <2>4. QED
    BY <2>2, <2>3
<1> HIDE DEF d
<1>3. /\ d.n = n /\ d.unwrapped = Own(s, caps, n)
      /\ d.slot = IF Foreign(s, caps, n) = {} THEN None
                  ELSE caps[CHOOSE i \in Foreign(s, caps, n) : TRUE]
  BY <1>2 DEF Gives, Given
<1>4. CASE Foreign(s, caps, n) = {}
  BY <1>3, <1>4 DEF d, caps
<1>5. CASE Foreign(s, caps, n) # {}
  <2>1. PICK k \in Foreign(s, caps, n) :
          k = CHOOSE i \in Foreign(s, caps, n) : TRUE
    BY <1>5
  <2>2. k \in 1 .. n /\ caps[k] # s
    BY DEF Foreign
  <2>3. d.slot = caps[k] /\ caps[k] \in Issuer
    BY <1>1, <1>3, <1>5, <2>1, <2>2
  <2>4. d.unwrapped # 1 .. d.n
    BY <1>3, <2>2 DEF Own
  <2>5. QED
    BY <2>3, <2>4 DEF Consumed, d, caps
<1>6. QED
  BY <1>4, <1>5

(* A call is one the connection offers, servers call the root server only, *)
(* and opening is the first call and the first only.                       *)
CallsAreOrderly ==
  \A t \in Thread : calling[t] # None =>
    LET s == calling[t].to
        c == calling[t].call
    IN /\ c.op \in Speaks[s]
       /\ s = "root" \/ t \in App
       /\ s # "root" => (c.op = "ConnOpen") = (known[t][s] = "closed")

(* The registers a handler reads without asking were sent.                 *)
RegistersSuffice(c) ==
  c.op \in DOMAIN Unchecked /\ (c.op = "ConnOpen" => c.args # <<>>)
    => Unchecked[c.op] <= Sends(c)

(* What a server knows of the call it handles and of its receive slot: the *)
(* slot is used by a call that clean-up will recognise, on the root server *)
(* only by view with a window of somebody else; and only such a call lets  *)
(* the handler move the IPC buffer away.                                   *)
HandledAsMeant(s) ==
  LET h == handling[s]
      c == calling[h.from].call
  IN /\ calling[h.from] # None
     /\ calling[h.from].to = s
     /\ Meant(s, c, h.args)
     /\ (\E i \in DOMAIN h.args : h.args[i] = "wrapped") <=> slot[s] # None
     /\ slot[s] # None => h.consumed /\ ContainsCap(c.op, h.args)
     /\ slot[s] # None /\ s = "root"
          => c.op = "View" /\ c.args[1] = "object"
     /\ home[s] \/ (ContainsCap(c.op, h.args) /\ s # "root")

(* Its receive slot when it handles none.                                  *)
AtRest(s) == slot[s] = None /\ home[s] = TRUE

(* The inductive invariant: the two records of a connection are the same,  *)
(* calls are orderly, replies have fitted and stops been the handlers' own *)
(* so far, and a server is as its call left it or ready for one.           *)
CallIInv ==
  /\ CallTypeOK
  /\ buf = known
  /\ RepliesFit
  /\ StopsAreHandlersOwn
  /\ CallsAreOrderly
  /\ \A s \in Server : handling[s] # None => HandledAsMeant(s)
  /\ \A s \in Server : handling[s] = None => AtRest(s)

(* A stub sends what the decoding of its call reads without asking.        *)
LEMMA RegistersAreSent ==
  ASSUME NEW c \in CallSet
  PROVE  RegistersSuffice(c)
<1> SUFFICES ASSUME c.op \in DOMAIN Unchecked,
                    c.op = "ConnOpen" => c.args # <<>>
             PROVE  Unchecked[c.op] <= Sends(c)
  BY DEF RegistersSuffice
<1>1. c.op \in {"WindowCreate", "ConnPublish", "ObjCreate", "ObjOpen", "View",
               "sDDFProvideDataRegion", "ConnOpen"}
  BY DEF Unchecked
<1>2. CASE c.op = "ConnOpen"
  BY <1>2, ConnOpenSends DEF Unchecked
<1>3. CASE c.op # "ConnOpen"
  <2>1. Sends(c) = Stubs[c.op].sends
    BY <1>1, <1>3 DEF Sends, EitherOps, Kinded
  <2>2. Unchecked[c.op] <= Stubs[c.op].sends
    BY <1>1, <1>3, Interfaces, StubOf
       DEF Unchecked, Stub, ConnStubs, WindowStubs, ObjectStubs, ViewStubs,
           SddfStubs
  <2>3. QED
    BY <2>1, <2>2
<1>4. QED
  BY <1>2, <1>3

-----------------------------------------------------------------------------
(* Initially nothing is called.                                            *)
LEMMA InitCallIInv == CallInit => CallIInv
<1> SUFFICES ASSUME CallInit PROVE CallIInv
  OBVIOUS
<1> USE DEF CallInit
<1>1. CallTypeOK
  BY DEF CallTypeOK, Unpacking
<1>2. buf = known /\ RepliesFit
  BY DEF RepliesFit
<1>3. StopsAreHandlersOwn /\ CallsAreOrderly
  BY DEF StopsAreHandlersOwn, CallsAreOrderly
<1>4. \A s \in Server : handling[s] = None /\ AtRest(s)
  BY DEF AtRest
<1>5. QED
  BY <1>1, <1>2, <1>3, <1>4 DEF CallIInv

(* What a handler asks of the root server the root server supports, and    *)
(* only the handlers of wrapped capabilities ask for a capability.         *)
LEMMA NestedCalls ==
  ASSUME NEW s \in Server \ {"root"}, NEW op, NEW args, NEW c,
         c \in Nested(s, op, args)
  PROVE  /\ c.op \in Speaks["root"]
         /\ NamesSlot(c) => op \in WrappedOps
<1> DEFINE Quiet == {"ConnRegister", "ConnDeregister", "WindowCreate", "View",
                     "WindowDestroy", "Unview", "WindowRegister",
                     "WindowDeregister", "ObjStat"}
<1>1. \/ c.op \in Quiet /\ c.ret = FALSE
      \/ c.op \in {"ChannelOpen", "ServerCreateChannel"} /\ op \in WrappedOps
  <2>1. CASE op = "ConnOpen"
    BY <2>1 DEF Nested, NestedInOpen, Plain, DestroyWindow, Call
  <2>2. CASE op # "ConnOpen" /\ s = "object"
    BY <2>2 DEF Nested, NestedInObject, Plain, DestroyWindow, Call
  <2>3. CASE op # "ConnOpen" /\ s # "object"
    BY <2>3 DEF Nested, NestedInSddf, Plain, Call, WrappedOps, CapOps,
                MustBeCap
  <2>4. QED
    BY <2>1, <2>2, <2>3
<1>2. c.op \in Speaks["root"]
  BY <1>1, Interfaces DEF Speaks
<1>3. c.op \in Quiet /\ c.ret = FALSE => ~NamesSlot(c)
  BY Interfaces, StubOf
     DEF NamesSlot, Returning, Stub, ConnStubs, WindowStubs, ViewStubs
<1>4. QED
  BY <1>1, <1>2, <1>3

(* A call that is handled goes on being handled while its caller waits.    *)
LEMMA StillHandled ==
  ASSUME NEW s \in Server, HandledAsMeant(s), handling[s] # None,
         handling'[s].from = handling[s].from,
         handling'[s].args = handling[s].args,
         handling'[s].consumed = handling[s].consumed,
         calling'[handling[s].from] = calling[handling[s].from],
         slot'[s] = slot[s],
         home'[s] = home[s] \/ (/\ s # "root"
                               /\ ContainsCap(
                                    calling[handling[s].from].call.op,
                                    handling[s].args))
  PROVE  HandledAsMeant(s)'
  BY DEF HandledAsMeant

(* A stub that sends, of a client or from within a handler, which may move *)
(* the IPC buffer away.                                                    *)
LEMMA SendsKeeps ==
  ASSUME CallIInv, NEW t \in Thread, NEW s \in Server, NEW op \in Op,
         NEW c \in Calls(op), StubSends(t, s, c)
  PROVE  CallIInv'
<1> DEFINE k == [to |-> s, call |-> c, taken |-> FALSE]
<1>1. /\ calling[t] = None
      /\ calling' = [calling EXCEPT ![t] = k]
      /\ returned' = returned /\ buf' = buf /\ known' = known
      /\ slot' = slot /\ panicked' = panicked
  BY DEF StubSends
<1>2. c \in CallSet /\ k \in Calling /\ k # None
  <2>1. c \in CallSet
    BY DEF CallSet
  <2>2. k \in Calling
    BY <2>1 DEF Calling
  <2>3. QED
    BY <2>1, <2>2, InvocationsAssumption
<1> HIDE DEF k
<1>3. /\ t \in Server => /\ t \notin App /\ t # "root" /\ s = "root"
                        /\ handling[t] \in Handling /\ handling[t] # None
                        /\ handling[t].left > 0
                        /\ c \in Nested(t, calling[handling[t].from].call.op,
                                        handling[t].args)
      /\ t \notin Server => t \in App
  <2>1. t \in Server => t \notin App /\ t # "root"
    BY InvocationsAssumption DEF Thread, Server
  <2>2. t \notin Server => t \in App
    BY DEF Thread
  <2>3. t \notin App => /\ s = "root"
                      /\ handling[t] # None /\ handling[t].left > 0
                      /\ c \in Nested(t, calling[handling[t].from].call.op,
                                      handling[t].args)
    BY DEF StubSends, MayCall
  <2>4. QED
    BY <2>1, <2>2, <2>3 DEF CallIInv, CallTypeOK
<1>4. handling' = IF t \in Server
                  THEN [handling EXCEPT
                         ![t] = [handling[t] EXCEPT !.left = @ - 1]]
                  ELSE handling
  BY DEF StubSends
<1>5. t \in Server =>
        /\ [handling[t] EXCEPT !.left = @ - 1] \in Handling
        /\ [handling[t] EXCEPT !.left = @ - 1] # None
  BY <1>3, InvocationsAssumption DEF Handling
<1>6. home' = IF t \in Server /\ NamesSlot(c) THEN [home EXCEPT ![t] = FALSE]
              ELSE home
  BY DEF StubSends
<1>7. CallTypeOK'
  <2>1. calling' \in [Thread -> Calling \cup {None}]
    BY <1>1, <1>2 DEF CallIInv, CallTypeOK
  <2>2. handling' \in [Server -> Handling \cup {None}]
    BY <1>4, <1>5 DEF CallIInv, CallTypeOK
  <2>3. home' \in [Server -> BOOLEAN]
    BY <1>6 DEF CallIInv, CallTypeOK
  <2>4. QED
    BY <1>1, <2>1, <2>2, <2>3 DEF CallIInv, CallTypeOK
<1>8. buf' = known' /\ RepliesFit' /\ StopsAreHandlersOwn'
  BY <1>1 DEF CallIInv, RepliesFit, StopsAreHandlersOwn
<1>9. CallsAreOrderly'
  <2>1. /\ c.op \in Speaks[s]
        /\ s = "root" \/ t \in App
        /\ s # "root" => (c.op = "ConnOpen") = (known[t][s] = "closed")
    <3>1. CASE t \in App
      BY <3>1 DEF StubSends, MayCall, CallIInv
    <3>2. CASE t \notin App
      BY <1>3, <3>2, NestedCalls
    <3>3. QED
      BY <3>1, <3>2
  <2>2. calling'[t] = k /\ k.to = s /\ k.call = c
    BY <1>1 DEF CallIInv, CallTypeOK, k
  <2>3. \A u \in Thread \ {t} : calling'[u] = calling[u]
    BY <1>1 DEF CallIInv, CallTypeOK
  <2>4. QED
    BY <1>1, <2>1, <2>2, <2>3 DEF CallIInv, CallsAreOrderly
<1>10. ASSUME NEW q \in Server
       PROVE  /\ handling'[q] # None => HandledAsMeant(q)'
              /\ handling'[q] = None => AtRest(q)'
  <2>1. CASE handling[q] = None
    <3>1. q # t
      BY <1>3, <2>1
    <3>2. handling'[q] = None /\ home'[q] = home[q]
      BY <1>4, <1>6, <2>1, <3>1 DEF CallIInv, CallTypeOK
    <3>3. QED
      BY <1>1, <2>1, <3>2 DEF CallIInv, AtRest
  <2>2. CASE handling[q] # None
    <3>1. HandledAsMeant(q)
      BY <2>2 DEF CallIInv
    <3>2. handling[q] \in Handling /\ handling[q].from \in Thread
      BY <2>2 DEF CallIInv, CallTypeOK, Handling
    <3>3. /\ handling'[q] # None
          /\ handling'[q].from = handling[q].from
          /\ handling'[q].args = handling[q].args
          /\ handling'[q].consumed = handling[q].consumed
      <4>1. CASE q = t
        <5>1. handling'[q] = [handling[q] EXCEPT !.left = @ - 1]
          BY <1>4, <4>1 DEF CallIInv, CallTypeOK
        <5>2. QED
          BY <1>5, <3>2, <4>1, <5>1 DEF Handling
      <4>2. CASE q # t
        BY <1>4, <2>2, <4>2 DEF CallIInv, CallTypeOK
      <4>3. QED
        BY <4>1, <4>2
    <3>4. calling'[handling[q].from] = calling[handling[q].from]
      <4>1. handling[q].from # t
        BY <1>1, <3>1 DEF HandledAsMeant
      <4>2. QED
        BY <1>1, <3>2, <4>1 DEF CallIInv, CallTypeOK
    <3>5. home'[q] = home[q]
          \/ (/\ q # "root"
              /\ ContainsCap(calling[handling[q].from].call.op,
                             handling[q].args))
      <4>1. CASE q = t /\ NamesSlot(c)
        <5>1. calling[handling[q].from].call.op \in WrappedOps
          BY <1>3, <4>1, NestedCalls
        <5>2. QED
          BY <1>3, <4>1, <5>1 DEF ContainsCap
      <4>2. CASE ~(q = t /\ NamesSlot(c))
        BY <1>6, <4>2 DEF CallIInv, CallTypeOK
      <4>3. QED
        BY <4>1, <4>2
    <3>6. QED
      BY <1>1, <2>2, <3>1, <3>3, <3>4, <3>5, StillHandled
  <2>3. QED
    BY <2>1, <2>2
<1>11. QED
  BY <1>7, <1>8, <1>9, <1>10 DEF CallIInv

(* A stub that refuses on its own touches no server.                       *)
LEMMA ReturnsKeeps ==
  ASSUME CallIInv, NEW t \in Thread, NEW s \in Server, NEW op \in Op,
         NEW c \in Calls(op), StubReturns(t, s, c)
  PROVE  CallIInv'
<1> USE DEF StubReturns
<1>1. returned' \in [given : {"none"} \cup Error, got : Unpacking]
      /\ returned'.given = "none"
      /\ returned'.got \in {"DataBufferNotSet", "InvalidArguments"}
  BY DEF Error, HandlerError, Unpacking
<1>2. CallTypeOK'
  BY <1>1 DEF CallIInv, CallTypeOK
<1>3. buf' = known' /\ RepliesFit' /\ StopsAreHandlersOwn'
  BY <1>1 DEF CallIInv, RepliesFit, StopsAreHandlersOwn
<1>4. CallsAreOrderly'
  BY DEF CallIInv, CallsAreOrderly
<1>5. \A q \in Server : /\ HandledAsMeant(q)' = HandledAsMeant(q)
                        /\ AtRest(q)' = AtRest(q)
  BY DEF HandledAsMeant, AtRest
<1>6. QED
  BY <1>2, <1>3, <1>4, <1>5 DEF CallIInv

(* A server that receives is ready for the call, and decodes it as meant.  *)
LEMMA Received ==
  ASSUME CallIInv, NEW s \in Server, NEW t \in Thread, Arriving(s, t)
  PROVE  /\ handling[s] = None /\ slot[s] = None /\ home[s] = TRUE
         /\ calling[t] \in Calling /\ calling[t] # None /\ calling[t].to = s
         /\ calling[t].call \in CallSet
         /\ Faithful(s, calling[t].call, Delivery(s, t), Decoding(s, t))
         /\ Delivery(s, t).slot \in Issuer \cup {None}
         /\ ~Consumed(Delivery(s, t)) => Delivery(s, t).slot = None
<1>1. /\ handling[s] = None /\ AtRest(s)
      /\ calling[t] # None /\ calling[t].to = s
  BY DEF Arriving, Waits, CallIInv
<1>2. calling[t] \in Calling /\ calling[t].call \in CallSet
  BY <1>1 DEF CallIInv, CallTypeOK, Calling
<1>3. slot[s] = None /\ home[s] = TRUE
  BY <1>1 DEF AtRest
<1>4. calling[t].call.op \in Speaks[s]
  BY <1>1 DEF CallIInv, CallsAreOrderly
<1>5. Buffered(s, t) \in BOOLEAN
  BY DEF Buffered
<1>6. Faithful(s, calling[t].call, Delivery(s, t), Decoding(s, t))
  BY <1>2, <1>3, <1>4, <1>5, DecodesFaithfully DEF Delivery, Decoding
<1>7. /\ Delivery(s, t).slot \in Issuer \cup {None}
      /\ ~Consumed(Delivery(s, t)) => Delivery(s, t).slot = None
  BY <1>2, <1>3, DeliveredSlot DEF Delivery
<1>8. QED
  BY <1>1, <1>2, <1>3, <1>6, <1>7

(* Servers that handle another call than t's do not notice.                *)
LEMMA OthersHandled ==
  ASSUME CallIInv, NEW s \in Server, NEW t \in Thread, calling[t].to = s,
         NEW q \in Server \ {s}, handling[q] # None,
         handling'[q] = handling[q], slot'[q] = slot[q], home'[q] = home[q],
         \A u \in Thread \ {t} : calling'[u] = calling[u]
  PROVE  HandledAsMeant(q)'
<1>1. HandledAsMeant(q)
  BY DEF CallIInv
<1>2. handling[q].from \in Thread \ {t}
  BY <1>1 DEF CallIInv, CallTypeOK, Handling, HandledAsMeant
<1>3. calling'[handling[q].from] = calling[handling[q].from]
  BY <1>2
<1>4. QED
  BY <1>1, <1>3, StillHandled

(* A call refused leaves nothing in the slot: it was empty, and is emptied *)
(* of what came.                                                           *)
LEMMA RejectKeeps ==
  ASSUME CallIInv, NEW s \in Server, NEW t \in Thread, Reject(s, t)
  PROVE  CallIInv'
<1> DEFINE d == Delivery(s, t)
           e == Decoding(s, t).err
<1>1. /\ Arriving(s, t) /\ e # "none"
      /\ slot' = [slot EXCEPT ![s] = IF Consumed(d) THEN None ELSE d.slot]
      /\ home' = [home EXCEPT ![s] = TRUE]
      /\ returned' = [given |-> e, got |-> UnpackError(HandleError(e))]
      /\ calling' = [calling EXCEPT ![t] = None]
      /\ UNCHANGED <<buf, known, handling, panicked>>
  BY DEF Reject
<1>2. /\ handling[s] = None /\ slot[s] = None /\ home[s] = TRUE
      /\ calling[t].to = s
      /\ ~Consumed(d) => d.slot = None
      /\ e \in {"InvalidArguments", "DataBufferNotSet"}
  <2> DEFINE r == Decoding(s, t)
  <2>1. /\ handling[s] = None /\ slot[s] = None /\ home[s] = TRUE
        /\ calling[t].to = s
        /\ ~Consumed(d) => d.slot = None
        /\ Faithful(s, calling[t].call, d, r)
    BY <1>1, Received
  <2>2. r.err # "none"
    BY <1>1
  <2> HIDE DEF r, d
  <2>3. r.err \in {"InvalidArguments", "DataBufferNotSet"}
    BY <2>1, <2>2 DEF Faithful
  <2>4. QED
    BY <2>1, <2>3 DEF r
<1> HIDE DEF d, e
<1>3. e \in HandlerError /\ UnpackError(HandleError(e)) = e
  BY <1>2, LabelTellsError DEF HandlerError
<1>4. slot' = slot /\ home' = home
  BY <1>1, <1>2 DEF CallIInv, CallTypeOK
<1>5. CallTypeOK'
  <2>1. returned' \in [given : {"none"} \cup Error, got : Unpacking]
    BY <1>1, <1>3 DEF Error, Unpacking
  <2>2. calling' \in [Thread -> Calling \cup {None}]
    BY <1>1 DEF CallIInv, CallTypeOK
  <2>3. QED
    BY <1>1, <1>4, <2>1, <2>2 DEF CallIInv, CallTypeOK
<1>6. RepliesFit'
  BY <1>1, <1>2, <1>3 DEF RepliesFit
<1>7. buf' = known' /\ StopsAreHandlersOwn'
  BY <1>1 DEF CallIInv, StopsAreHandlersOwn
<1>8. /\ \A u \in Thread \ {t} : calling'[u] = calling[u]
      /\ calling'[t] = None
  BY <1>1 DEF CallIInv, CallTypeOK
<1>9. CallsAreOrderly'
  BY <1>1, <1>8 DEF CallIInv, CallsAreOrderly
<1>10. ASSUME NEW q \in Server
       PROVE  /\ handling'[q] # None => HandledAsMeant(q)'
              /\ handling'[q] = None => AtRest(q)'
  <2>1. CASE handling[q] = None
    BY <1>1, <1>4, <2>1 DEF CallIInv, AtRest
  <2>2. CASE handling[q] # None
    BY <1>1, <1>2, <1>4, <1>8, <2>2, OthersHandled
  <2>3. QED
    BY <2>1, <2>2
<1>11. QED
  BY <1>5, <1>6, <1>7, <1>9, <1>10 DEF CallIInv

(* A call accepted is decoded as it was meant, and fills the slot only if  *)
(* clean-up will know.                                                     *)
LEMMA AcceptKeeps ==
  ASSUME CallIInv, NEW s \in Server, NEW t \in Thread, Accept(s, t)
  PROVE  CallIInv'
<1> DEFINE c == calling[t].call
           d == Delivery(s, t)
           r == Decoding(s, t)
           h == [from |-> t, args |-> r.args, consumed |-> Consumed(d),
                 left |-> MaxNested]
<1>1. /\ Arriving(s, t) /\ r.err = "none"
      /\ handling' = [handling EXCEPT ![s] = h]
      /\ slot' = [slot EXCEPT ![s] = d.slot]
      /\ calling' = [calling EXCEPT ![t].taken = TRUE]
      /\ UNCHANGED <<returned, buf, known, home, panicked>>
  BY DEF Accept
<1>2. /\ handling[s] = None /\ slot[s] = None /\ home[s] = TRUE
      /\ calling[t] \in Calling /\ calling[t] # None /\ calling[t].to = s
      /\ Faithful(s, c, d, r)
      /\ d.slot \in Issuer \cup {None}
      /\ ~Consumed(d) => d.slot = None
  BY <1>1, Received
<1>3. /\ Meant(s, c, r.args)
      /\ (\E i \in DOMAIN r.args : r.args[i] = "wrapped") <=> d.slot # None
      /\ d.slot # None => ContainsCap(c.op, r.args)
      /\ d.slot # None /\ s = "root" => c.op = "View" /\ c.args[1] = "object"
  BY <1>1, <1>2 DEF Faithful
<1>4. h \in Handling /\ h # None
  <2>1. Consumed(d) \in BOOLEAN
    BY DEF Consumed
  <2>2. r.args \in Seq({"handle", "unwrapped", "wrapped"})
    BY <1>3 DEF Meant
  <2>3. h \in Handling
    BY <2>1, <2>2, InvocationsAssumption DEF Handling
  <2>4. QED
    BY <2>3, InvocationsAssumption
<1>5. /\ h.from = t /\ h.args = r.args /\ h.consumed = Consumed(d)
  OBVIOUS
<1> HIDE DEF c, d, r, h
<1>6. /\ calling'[t] \in Calling /\ calling'[t] # None
      /\ calling'[t].to = s /\ calling'[t].call = c
      /\ \A u \in Thread \ {t} : calling'[u] = calling[u]
      /\ calling' \in [Thread -> Calling \cup {None}]
  <2>1. calling'[t] = [calling[t] EXCEPT !.taken = TRUE]
    BY <1>1 DEF CallIInv, CallTypeOK
  <2>2. /\ calling'[t] \in Calling
        /\ calling'[t].to = s /\ calling'[t].call = c
    BY <1>2, <2>1 DEF Calling, c
  <2>3. \A u \in Thread \ {t} : calling'[u] = calling[u]
    BY <1>1 DEF CallIInv, CallTypeOK
  <2>4. calling' \in [Thread -> Calling \cup {None}]
    BY <1>1, <2>2, <2>3 DEF CallIInv, CallTypeOK
  <2>5. QED
    BY <2>2, <2>3, <2>4, InvocationsAssumption
<1>7. /\ handling'[s] = h /\ slot'[s] = d.slot /\ home'[s] = TRUE
      /\ \A q \in Server \ {s} : /\ handling'[q] = handling[q]
                                 /\ slot'[q] = slot[q] /\ home'[q] = home[q]
  BY <1>1, <1>2 DEF CallIInv, CallTypeOK
<1>8. CallTypeOK'
  BY <1>1, <1>2, <1>4, <1>6 DEF CallIInv, CallTypeOK
<1>9. buf' = known' /\ RepliesFit' /\ StopsAreHandlersOwn'
  BY <1>1 DEF CallIInv, RepliesFit, StopsAreHandlersOwn
<1>10. CallsAreOrderly'
  BY <1>1, <1>2, <1>6 DEF CallIInv, CallsAreOrderly, c
<1>11. HandledAsMeant(s)'
  BY <1>2, <1>3, <1>5, <1>6, <1>7 DEF HandledAsMeant
<1>12. ASSUME NEW q \in Server \ {s}
       PROVE  /\ handling'[q] # None => HandledAsMeant(q)'
              /\ handling'[q] = None => AtRest(q)'
  <2>1. CASE handling[q] = None
    BY <1>7, <2>1 DEF CallIInv, AtRest
  <2>2. CASE handling[q] # None
    BY <1>2, <1>6, <1>7, <2>2, OthersHandled
  <2>3. QED
    BY <2>1, <2>2
<1>13. QED
  BY <1>4, <1>7, <1>8, <1>9, <1>10, <1>11, <1>12 DEF CallIInv

-----------------------------------------------------------------------------
(* Whichever way a server cleans up, its receive slot is ready again: what *)
(* the call brought is gone, and the IPC buffer names the slot.            *)
LEMMA CleanupReadies ==
  ASSUME CallIInv, NEW s \in Server, handling[s] # None, Cleanup(s)
  PROVE  /\ slot'[s] = None /\ home'[s] = TRUE
         /\ \A q \in Server \ {s} : slot'[q] = slot[q] /\ home'[q] = home[q]
         /\ slot' \in [Server -> Issuer \cup {None}]
         /\ home' \in [Server -> BOOLEAN]
<1> DEFINE h == handling[s]
           op == calling[h.from].call.op
<1>1. HandledAsMeant(s)
  BY DEF CallIInv
<1>2. /\ slot[s] # None => h.consumed /\ ContainsCap(op, h.args)
      /\ home[s] \/ (ContainsCap(op, h.args) /\ s # "root")
  BY <1>1 DEF HandledAsMeant
<1>3. /\ slot \in [Server -> Issuer \cup {None}]
      /\ home \in [Server -> BOOLEAN]
  BY DEF CallIInv, CallTypeOK
<1>4. CASE s = "root"
  <2>1. /\ slot' = IF h.consumed THEN [slot EXCEPT ![s] = None] ELSE slot
        /\ home' = [home EXCEPT ![s] = TRUE]
    BY <1>4 DEF Cleanup
  <2> HIDE DEF h, op
  <2>2. QED
    BY <1>2, <1>3, <2>1
<1>5. CASE s # "root" /\ ContainsCap(op, h.args)
  <2>1. /\ slot' = [slot EXCEPT ![s] = None]
        /\ home' = [home EXCEPT ![s] = TRUE]
    BY <1>5 DEF Cleanup
  <2> HIDE DEF h, op
  <2>2. QED
    BY <1>3, <2>1
<1>6. CASE s # "root" /\ ~ContainsCap(op, h.args)
  <2>1. slot' = slot /\ home' = home
    BY <1>6 DEF Cleanup
  <2> HIDE DEF h, op
  <2>2. QED
    BY <1>2, <1>3, <1>6, <2>1
<1>7. QED
  BY <1>4, <1>5, <1>6

(* A call that stops a server comes in its order, and brings a lookup a    *)
(* wrapped capability only as view on the root server with a window of     *)
(* somebody else.                                                          *)
LEMMA StopsKeeps ==
  ASSUME CallIInv, NEW s \in Server, Stops(s)
  PROVE  CallIInv'
<1> DEFINE h == handling[s]
           c == calling[h.from].call
<1>1. PICK why \in Why :
        /\ StopsFor(s, why)
        /\ panicked' = [panicked EXCEPT ![s] = [call |-> c, why |-> why]]
  BY DEF Stops
<1>2. /\ handling[s] # None
      /\ UNCHANGED <<calling, returned, buf, known, handling, slot, home>>
  BY DEF Stops, Handles
<1>3. /\ HandledAsMeant(s)
      /\ calling[h.from] # None /\ calling[h.from].to = s
      /\ h.from \in Thread
  BY <1>2 DEF CallIInv, HandledAsMeant, CallTypeOK, Handling
<1>4. c \in CallSet
  BY <1>3 DEF CallIInv, CallTypeOK, Calling
<1>5. why # "out_of_order"
  <2>1. ~OutOfOrder(s, h.from, c.op)
    BY <1>3 DEF CallIInv, CallsAreOrderly, OutOfOrder
  <2>2. QED
    BY <1>1, <2>1 DEF StopsFor
<1>6. why = "wrapped" => /\ s = "root" /\ c.op = "View"
                         /\ c.args[1] = "object"
  <2>1. why = "wrapped" => LooksUpWrapped(s, h.args)
    BY <1>1 DEF StopsFor
  <2>2. /\ (\E i \in DOMAIN h.args : h.args[i] = "wrapped") => slot[s] # None
        /\ slot[s] # None /\ s = "root"
             => c.op = "View" /\ c.args[1] = "object"
    BY <1>3 DEF HandledAsMeant
  <2>3. QED
    BY <2>1, <2>2 DEF LooksUpWrapped
<1> HIDE DEF h, c
<1>7. /\ panicked'[s] = [call |-> c, why |-> why]
      /\ \A q \in Server \ {s} : panicked'[q] = panicked[q]
      /\ panicked' \in [Server -> Panic \cup {None}]
  BY <1>1, <1>4 DEF CallIInv, CallTypeOK, Panic
<1>8. StopsAreHandlersOwn'
  <2> SUFFICES ASSUME NEW q \in Server, panicked'[q] # None
               PROVE  /\ panicked'[q].why # "out_of_order"
                      /\ panicked'[q].why = "wrapped" =>
                           /\ q = "root" /\ panicked'[q].call.op = "View"
                           /\ panicked'[q].call.args[1] = "object"
    BY DEF StopsAreHandlersOwn
  <2>1. CASE q = s
    BY <1>5, <1>6, <1>7, <2>1
  <2>2. CASE q # s
    BY <1>7, <2>2 DEF CallIInv, StopsAreHandlersOwn
  <2>3. QED
    BY <2>1, <2>2
<1>9. CallTypeOK' /\ buf' = known' /\ RepliesFit' /\ CallsAreOrderly'
  BY <1>2, <1>7 DEF CallIInv, CallTypeOK, RepliesFit, CallsAreOrderly
<1>10. \A q \in Server : /\ HandledAsMeant(q)' = HandledAsMeant(q)
                         /\ AtRest(q)' = AtRest(q)
  BY <1>2 DEF HandledAsMeant, AtRest
<1>11. QED
  BY <1>2, <1>8, <1>9, <1>10 DEF CallIInv

(* What an answer tells the client and what it changes in the two records  *)
(* of the connection, which stay alike: a reply always fits its stub.      *)
LEMMA Answered ==
  ASSUME CallIInv, NEW s \in Server, Answer(s)
  PROVE  LET t == handling[s].from IN
         /\ handling[s] # None /\ t \in Thread
         /\ calling[t] # None /\ calling[t].to = s
         /\ buf' = known' /\ known' \in
              [App -> [Server \ {"root"} -> {"closed", "open", "buffered"}]]
         /\ \A u \in App \ {t} : known'[u] = known[u]
         /\ returned' \in [given : {"none"} \cup Error, got : Unpacking]
         /\ RepliesFit'
<1> DEFINE h == handling[s]
           t == h.from
           c == calling[t].call
<1>1. /\ handling[s] # None /\ t \in Thread
      /\ calling[t] # None /\ calling[t].to = s
  BY DEF CallIInv, HandledAsMeant, CallTypeOK, Handling, Answer, Handles
<1>2. c \in CallSet
  BY <1>1 DEF CallIInv, CallTypeOK, Calling
<1>3. s # "root" => t \in App
  BY <1>1 DEF CallIInv, CallsAreOrderly
<1>4. PICK e \in {"none"} \cup HandlerError :
        LET got == IF e = "none" THEN Unpacked(c, HandleReply(c.op, c.ret))
                   ELSE UnpackError(HandleError(e))
        IN /\ returned' = [given |-> e, got |-> got]
           /\ IF s # "root" /\ e = "none"
              THEN /\ known' = [known EXCEPT ![t][s] = ClientAfter(c, @)]
                   /\ buf' = IF got = "ok"
                             THEN [buf EXCEPT ![t][s] = Status(c, @)]
                             ELSE buf
              ELSE UNCHANGED <<known, buf>>
  BY DEF Answer
<1>5. Unpacked(c, HandleReply(c.op, c.ret)) = "ok"
  BY <1>2, ReplyFitsStub
<1>6. e # "none" => UnpackError(HandleError(e)) = e
  BY LabelTellsError
<1> HIDE DEF h, t, c
<1>7. returned' = [given |-> e, got |-> IF e = "none" THEN "ok" ELSE e]
  BY <1>4, <1>5, <1>6
<1>8. /\ returned' \in [given : {"none"} \cup Error, got : Unpacking]
      /\ RepliesFit'
  BY <1>7 DEF RepliesFit, Error, HandlerError, Unpacking
<1>9. \/ known' = known /\ buf' = buf
      \/ /\ s # "root"
         /\ known' = [known EXCEPT ![t][s] = Status(c, @)]
         /\ buf' = [buf EXCEPT ![t][s] = Status(c, @)]
  BY <1>4, <1>5 DEF ClientAfter
<1>10. /\ buf = known
       /\ known \in
            [App -> [Server \ {"root"} -> {"closed", "open", "buffered"}]]
  BY DEF CallIInv, CallTypeOK
<1>11. \A x \in {"closed", "open", "buffered"} :
         Status(c, x) \in {"closed", "open", "buffered"}
  BY DEF Status
<1> HIDE DEF CallIInv
<1>12. /\ buf' = known' /\ known' \in
            [App -> [Server \ {"root"} -> {"closed", "open", "buffered"}]]
       /\ \A u \in App \ {t} : known'[u] = known[u]
  BY <1>3, <1>9, <1>10, <1>11
<1>13. QED
  BY <1>1, <1>8, <1>12 DEF t, h

(* Others may be blocked in calls to the same server: the order of their   *)
(* connections is their own.                                               *)
LEMMA AnswerKeeps ==
  ASSUME CallIInv, NEW s \in Server, Answer(s)
  PROVE  CallIInv'
<1> DEFINE t == handling[s].from
<1>1. /\ Cleanup(s)
      /\ calling' = [calling EXCEPT ![t] = None]
      /\ handling' = [handling EXCEPT ![s] = None]
      /\ panicked' = panicked
  BY DEF Answer
<1>2. /\ handling[s] # None /\ t \in Thread
      /\ calling[t] # None /\ calling[t].to = s
      /\ buf' = known' /\ known' \in
           [App -> [Server \ {"root"} -> {"closed", "open", "buffered"}]]
      /\ \A u \in App \ {t} : known'[u] = known[u]
      /\ returned' \in [given : {"none"} \cup Error, got : Unpacking]
      /\ RepliesFit'
  BY Answered
<1>3. /\ slot'[s] = None /\ home'[s] = TRUE
      /\ \A q \in Server \ {s} : slot'[q] = slot[q] /\ home'[q] = home[q]
      /\ slot' \in [Server -> Issuer \cup {None}]
      /\ home' \in [Server -> BOOLEAN]
  BY <1>1, <1>2, CleanupReadies
<1> HIDE DEF t
<1>4. /\ calling'[t] = None
      /\ \A u \in Thread \ {t} : calling'[u] = calling[u]
      /\ calling' \in [Thread -> Calling \cup {None}]
      /\ handling'[s] = None
      /\ \A q \in Server \ {s} : handling'[q] = handling[q]
      /\ handling' \in [Server -> Handling \cup {None}]
  BY <1>1, <1>2 DEF CallIInv, CallTypeOK
<1>5. CallTypeOK'
  BY <1>1, <1>2, <1>3, <1>4 DEF CallIInv, CallTypeOK
<1>6. StopsAreHandlersOwn'
  BY <1>1 DEF CallIInv, StopsAreHandlersOwn
<1>7. CallsAreOrderly'
  <2>1. ASSUME NEW u \in Thread, calling'[u] # None
        PROVE  /\ calling'[u] = calling[u]
               /\ u \in App => known'[u] = known[u]
    BY <1>2, <1>4, <2>1
  <2>2. QED
    BY <2>1 DEF CallIInv, CallsAreOrderly
<1>8. AtRest(s)'
  BY <1>3 DEF AtRest
<1>9. ASSUME NEW q \in Server \ {s}
      PROVE  /\ handling'[q] # None => HandledAsMeant(q)'
             /\ handling'[q] = None => AtRest(q)'
  <2>1. CASE handling[q] = None
    BY <1>3, <1>4, <2>1 DEF CallIInv, AtRest
  <2>2. CASE handling[q] # None
    BY <1>2, <1>3, <1>4, <2>2, OthersHandled
  <2>3. QED
    BY <2>1, <2>2
<1>10. QED
  BY <1>2, <1>4, <1>5, <1>6, <1>7, <1>8, <1>9 DEF CallIInv

(* A call whose reply is kept for later is cleaned up like any other.      *)
LEMMA KeptCallKeeps ==
  ASSUME CallIInv, NEW s \in Server, Keep(s)
  PROVE  CallIInv'
<1>1. /\ handling[s] # None /\ Cleanup(s)
      /\ handling' = [handling EXCEPT ![s] = None]
      /\ UNCHANGED <<calling, returned, buf, known, panicked>>
  BY DEF Keep, Handles
<1>2. /\ slot'[s] = None /\ home'[s] = TRUE
      /\ \A q \in Server \ {s} : slot'[q] = slot[q] /\ home'[q] = home[q]
      /\ slot' \in [Server -> Issuer \cup {None}]
      /\ home' \in [Server -> BOOLEAN]
  BY <1>1, CleanupReadies
<1>3. /\ handling'[s] = None
      /\ \A q \in Server \ {s} : handling'[q] = handling[q]
      /\ handling' \in [Server -> Handling \cup {None}]
  BY <1>1 DEF CallIInv, CallTypeOK
<1>4. CallTypeOK'
  BY <1>1, <1>2, <1>3 DEF CallIInv, CallTypeOK
<1>5. /\ buf' = known' /\ RepliesFit' /\ StopsAreHandlersOwn'
      /\ CallsAreOrderly'
  BY <1>1 DEF CallIInv, RepliesFit, StopsAreHandlersOwn, CallsAreOrderly
<1>6. AtRest(s)'
  BY <1>2 DEF AtRest
<1>7. ASSUME NEW q \in Server \ {s}
      PROVE  /\ handling'[q] # None => HandledAsMeant(q)'
             /\ handling'[q] = None => AtRest(q)'
  <2>1. CASE handling[q] = None
    BY <1>2, <1>3, <2>1 DEF CallIInv, AtRest
  <2>2. CASE handling[q] # None
    BY <1>1, <1>2, <1>3, <2>2, StillHandled DEF CallIInv
  <2>3. QED
    BY <2>1, <2>2
<1>8. QED
  BY <1>3, <1>4, <1>5, <1>6, <1>7 DEF CallIInv

(* Every step keeps the invariant.                                         *)
LEMMA NextCallIInv == CallIInv /\ [CallNext]_callVars => CallIInv'
<1> SUFFICES ASSUME CallIInv, [CallNext]_callVars
             PROVE  CallIInv'
  OBVIOUS
<1>1. ASSUME NEW t \in App, NEW s \in Server, NEW op \in Op,
             NEW c \in Calls(op), StubSends(t, s, c) \/ StubReturns(t, s, c)
      PROVE  CallIInv'
  <2>1. t \in Thread
    BY DEF Thread
  <2>2. QED
    BY <1>1, <2>1, SendsKeeps, ReturnsKeeps
<1>2. ASSUME NEW s \in Server \ {"root"}, HandlerCalls(s)
      PROVE  CallIInv'
  <2>1. s \in Thread /\ "root" \in Server
    BY DEF Thread, Server
  <2>2. QED
    BY <1>2, <2>1, SendsKeeps DEF HandlerCalls
<1>3. ASSUME NEW s \in Server, NEW t \in Thread,
             Reject(s, t) \/ Accept(s, t)
      PROVE  CallIInv'
  BY <1>3, RejectKeeps, AcceptKeeps
<1>4. ASSUME NEW s \in Server, ServerStep(s)
      PROVE  CallIInv'
  BY <1>4, StopsKeeps, AnswerKeeps, KeptCallKeeps DEF ServerStep
<1>5. CASE UNCHANGED callVars
  <2>1. UNCHANGED <<calling, returned, buf, known, handling, slot, home,
                    panicked>>
    BY <1>5 DEF callVars
  <2>2. /\ CallTypeOK' /\ buf' = known' /\ RepliesFit'
        /\ StopsAreHandlersOwn' /\ CallsAreOrderly'
    BY <2>1 DEF CallIInv, CallTypeOK, RepliesFit, StopsAreHandlersOwn,
                CallsAreOrderly
  <2>3. \A q \in Server : /\ HandledAsMeant(q)' = HandledAsMeant(q)
                          /\ AtRest(q)' = AtRest(q)
    BY <2>1 DEF HandledAsMeant, AtRest
  <2>4. QED
    BY <2>1, <2>2, <2>3 DEF CallIInv
<1>6. QED
  BY <1>1, <1>2, <1>3, <1>4, <1>5 DEF CallNext

(* The inductive invariant of calls: what a server knows of the call it    *)
(* handles, of its receive slot and of the connection, with the types.     *)
THEOREM CallsSound == CallSpec => []CallIInv
  BY InitCallIInv, NextCallIInv, PTL DEF CallSpec

(* A server that waits in reply_recv has an empty receive slot that its    *)
(* IPC buffer names, whatever the calls before it brought, how they were   *)
(* refused or answered, and which calls their handlers made; and client    *)
(* and server agree on their connection between calls.                     *)
THEOREM EveryCallFindsAServerReady == CallSpec => []ReadyForTheNext
<1>1. CallIInv => ReadyForTheNext
  <2>1. CallIInv => SlotAwaits
    BY DEF CallIInv, AtRest, SlotAwaits, Waits
  <2>2. CallIInv => BuffersAgree
    BY DEF CallIInv, BuffersAgree
  <2>3. QED
    BY <2>1, <2>2 DEF CallIInv, ReadyForTheNext
<1>2. QED
  BY <1>1, CallsSound, PTL

(* Every argument of a call is decoded as the handle or capability the     *)
(* client passed, and no register is read that the stub did not send.      *)
THEOREM EveryCallArrivesAsMeant == CallSpec => []ArrivesAsMeant
<1>1. CallIInv => ArrivesAsMeant
  <2> SUFFICES ASSUME CallIInv, NEW s \in Server, handling[s] # None
               PROVE
        LET c == calling[handling[s].from].call
            args == handling[s].args
        IN /\ Len(args) = Len(c.args) \/ c.op = "TestSimple"
           /\ \A i \in DOMAIN args :
                args[i] = CASE c.args[i] = "handle" -> "handle"
                            [] c.args[i] = s -> "unwrapped"
                            [] OTHER -> "wrapped"
           /\ (\E i \in DOMAIN args : args[i] = "wrapped") => slot[s] # None
           /\ c.op \in DOMAIN Unchecked /\ (c.op = "ConnOpen" => c.args # <<>>)
                => Unchecked[c.op] <= Sends(c)
    BY DEF ArrivesAsMeant
  <2> DEFINE c == calling[handling[s].from].call
  <2>1. HandledAsMeant(s)
    BY DEF CallIInv
  <2>2. c \in CallSet
    BY <2>1 DEF CallIInv, CallTypeOK, Handling, Calling, HandledAsMeant
  <2>3. RegistersSuffice(c)
    BY <2>2, RegistersAreSent
  <2>4. QED
    BY <2>1, <2>3 DEF HandledAsMeant, Meant, RegistersSuffice
<1>2. QED
  BY <1>1, CallsSound, PTL

(* A stub meets no reply of the wrong shape (handle_reply) and no label of *)
(* another error than the one given (handle_error), and no connection      *)
(* offers a call its server does not support.                              *)
THEOREM EveryReplyFitsItsStub == CallSpec => []RepliesFit
<1>1. CallIInv => RepliesFit
  BY DEF CallIInv
<1>2. QED
  BY <1>1, CallsSound, PTL

(* Whatever handlers do, and whatever empty handles they unwrap: no loop   *)
(* meets a call before conn_open or a second one, and generic_get_handle   *)
(* meets no wrapped capability but the window of somebody else in view on  *)
(* the root server.                                                        *)
THEOREM DecodingStopsNoServer == CallSpec => []StopsAreHandlersOwn
<1>1. CallIInv => StopsAreHandlersOwn
  BY DEF CallIInv
<1>2. QED
  BY <1>1, CallsSound, PTL

=============================================================================
