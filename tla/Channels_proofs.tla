--------------------------- MODULE Channels_proofs ---------------------------
(***************************************************************************)
(* Proofs about how components signal each other.  Notifications, for any  *)
(* servers, lines and number of bits: a bit means one thing, and a masked  *)
(* line is owed its acknowledgement.  SddfSetup, for any systems, any      *)
(* calls that fail and any unruly clients: what set-up keeps, of what      *)
(* calls a component dies, when it goes on, how channels pair up, and that *)
(* nobody panics where all do their part.                                  *)
(***************************************************************************)
EXTENDS Notifications, SddfSetup, WellFoundedInduction, TLAPS


(* The least-number principle, for bf_first_free and NtfnWordIterator.     *)
LEMMA MinIsLeast ==
  ASSUME NEW S, S \subseteq Nat, S # {}
  PROVE  Min(S) \in S /\ \A k \in S : Min(S) <= k
<1>1. \E m \in S : \A k \in S : ~(<<k, m>> \in OpToRel(<, Nat))
  BY WFMin, NatLessThanWellFounded, Zenon
<1>2. PICK m \in S : \A k \in S : ~(k < m)
  BY <1>1, Zenon DEF OpToRel
<1>3. \A k \in S : m <= k
  BY <1>2
<1> QED
  BY <1>3 DEF Min

-----------------------------------------------------------------------------
(* Before it is published a server has no dispatch, hence no bits.         *)
UnpublishedHaveNone ==
  \A p \in Server, b \in Bit : status[p] = "no" => source[p][b] = None

(* Only a bound line fires.                                                *)
MaskedAreBound == \A l \in masked : line[l] # None

IInv ==
  /\ TypeOK
  /\ BitsTellTheirSource
  /\ MaskedLinesAreOwed
  /\ UnpublishedHaveNone
  /\ MaskedAreBound

LEMMA InitIInv == Init => IInv
<1> SUFFICES ASSUME Init PROVE IInv
  OBVIOUS
<1>1. TypeOK
  BY NotificationsAssumption DEF Init, TypeOK
<1>2. BitsTellTheirSource
  BY DEF Init, BitsTellTheirSource
<1>3. MaskedLinesAreOwed /\ UnpublishedHaveNone /\ MaskedAreBound
  BY DEF Init, MaskedLinesAreOwed, UnpublishedHaveNone, MaskedAreBound
<1> QED
  BY <1>1, <1>2, <1>3 DEF IInv

(* A bit is allocated once: every other bit keeps what it is for.          *)
LEMMA AllocatesAFreeBit ==
  ASSUME TypeOK, NEW p \in Server, FreeBits(p) # {}, NEW what,
         Allocate(p, what)
  PROVE  /\ NextBit(p) \in Bit /\ source[p][NextBit(p)] = None
         /\ \A q \in Server, b \in Bit :
              source'[q][b] = IF q = p /\ b = NextBit(p) THEN what
                              ELSE source[q][b]
<1>1. FreeBits(p) \subseteq Nat
  BY NotificationsAssumption DEF FreeBits, Bit
<1>2. NextBit(p) \in FreeBits(p)
  BY <1>1, MinIsLeast DEF NextBit
<1>3. NextBit(p) \in Bit /\ source[p][NextBit(p)] = None
  BY <1>2 DEF FreeBits
<1> QED
  BY <1>3 DEF Allocate, TypeOK

(* A line is bound to a bit of a driver's.                                 *)
LEMMA LinesAreBoundToBits ==
  ASSUME TypeOK
  PROVE  \A l \in Line : line[l] # None =>
           line[l][1] \in Driver /\ line[l][1] \in Server /\ line[l][2] \in Bit
  BY DEF TypeOK, Server

-----------------------------------------------------------------------------
(* The bits of a server: who they are allocated to.                        *)

(* The owners of bits are told apart, and nothing is owned by None.        *)
LEMMA OwnersDiffer ==
  /\ None \notin Line /\ None # "root" /\ None # "peer"
  /\ "root" \notin Line /\ "peer" \notin Line
  BY NotificationsAssumption

(* An action that allocates one bit, and binds no line, changes what no    *)
(* other bit means; the root server has bit 0 of a server it publishes.    *)
LEMMA AllocatingKeepsBits ==
  ASSUME IInv, NEW p \in Server, FreeBits(p) # {},
         NEW what, Allocate(p, what), what # None,
         UNCHANGED <<opened, line, word, taken>>,
         \A q \in Server : status'[q] = "published" =>
           status[q] = "published" \/ source'[q][0] = "root"
  PROVE  BitsTellTheirSource'
<1>1. \A q \in Server, b \in Bit : source[q][b] # None =>
                                     source'[q][b] = source[q][b]
  BY AllocatesAFreeBit DEF IInv
<1>2. /\ 0 \in Bit
      /\ \A q \in Server : /\ opened[q] \subseteq Bit /\ word[q] \subseteq Bit
                           /\ taken[q] \subseteq Bit
  BY NotificationsAssumption DEF Bit, IInv, TypeOK
<1>3. \A q \in Server : status'[q] = "published" => source'[q][0] = "root"
  BY <1>1, <1>2, OwnersDiffer DEF IInv, BitsTellTheirSource
<1>4. \A l \in Line : line[l] # None => source'[line[l][1]][line[l][2]] = l
  BY <1>1, OwnersDiffer, LinesAreBoundToBits DEF IInv, BitsTellTheirSource
<1>5. \A q \in Server : \A b \in opened[q] : source'[q][b] = "peer"
  BY <1>1, <1>2, OwnersDiffer DEF IInv, BitsTellTheirSource
<1>6. \A q \in Server : \A b \in word[q] \cup taken[q] : source'[q][b] # None
  BY <1>1, <1>2, OwnersDiffer DEF IInv, BitsTellTheirSource
<1> QED
  BY <1>3, <1>4, <1>5, <1>6 DEF BitsTellTheirSource

LEMMA PublishKeeps ==
  ASSUME IInv, NEW p \in Server, Publish(p)
  PROVE  IInv'
<1>1. /\ status[p] = "no" /\ \A b \in Bit : source[p][b] = None
      /\ FreeBits(p) = Bit /\ 0 \in Bit /\ Bit \subseteq Nat
  BY NotificationsAssumption
     DEF Publish, IInv, UnpublishedHaveNone, FreeBits, Bit
<1>2. NextBit(p) = 0
  <2>1. NextBit(p) \in Bit /\ NextBit(p) <= 0
    BY <1>1, MinIsLeast DEF NextBit
  <2> QED
    BY <1>1, <2>1 DEF Bit
<1>3. UNCHANGED <<told, opened, line, masked, word, taken, dropped, running,
                  inbox>>
  BY DEF Publish
<1>4. MaskedLinesAreOwed' /\ MaskedAreBound'
  BY <1>3 DEF IInv, MaskedLinesAreOwed, MaskedAreBound
<1>5. CASE source' = source
  <2>1. ~Allocate(p, "root")
    BY <1>1, <1>2, <1>5, AllocatesAFreeBit, OwnersDiffer DEF IInv
  <2>2. status' = [status EXCEPT ![p] = "stranded"] \/ status' = status
    BY <2>1 DEF Publish
  <2>3. TypeOK'
    BY <1>3, <1>5, <2>2 DEF Publish, IInv, TypeOK
  <2>4. \A q \in Server : status'[q] = status[q] \/ status'[q] = "stranded"
    BY <2>2 DEF IInv, TypeOK
  <2>5. BitsTellTheirSource'
    BY <1>3, <1>5, <2>4 DEF IInv, BitsTellTheirSource
  <2>6. UnpublishedHaveNone'
    BY <1>5, <2>4 DEF IInv, UnpublishedHaveNone
  <2> QED
    BY <1>4, <2>3, <2>5, <2>6 DEF IInv
<1>6. CASE source' # source
  <2>1. /\ status' = [status EXCEPT ![p] = "published"]
        /\ Allocate(p, "root") /\ UNCHANGED rootDown
    BY <1>6 DEF Publish
  <2>2. \A q \in Server, b \in Bit :
          source'[q][b] = IF q = p /\ b = 0 THEN "root" ELSE source[q][b]
    BY <1>1, <1>2, <2>1, AllocatesAFreeBit DEF IInv
  <2>3. \A q \in Server : status'[q] = IF q = p THEN "published" ELSE status[q]
    BY <2>1 DEF IInv, TypeOK
  <2>4. TypeOK'
    BY <1>2, <1>1, <1>3, <2>1 DEF IInv, TypeOK, Allocate
  <2>5. BitsTellTheirSource'
    BY <1>1, <1>3, <2>1, <2>2, <2>3, AllocatingKeepsBits, OwnersDiffer
  <2>6. UnpublishedHaveNone'
    BY <2>2, <2>3 DEF IInv, UnpublishedHaveNone
  <2> QED
    BY <1>4, <2>4, <2>5, <2>6 DEF IInv
<1> QED
  BY <1>5, <1>6

LEMMA CreateChannelKeeps ==
  ASSUME IInv, NEW p \in Driver, CreateChannel(p)
  PROVE  IInv'
<1>1. /\ p \in Server /\ FreeBits(p) # {} /\ Allocate(p, "peer")
      /\ status[p] = "published"
      /\ told' = [told EXCEPT ![p] = @ \cup {NextBit(p)}]
      /\ UNCHANGED <<status, opened, line, masked, word, taken, dropped,
                     running, inbox, rootDown>>
  BY DEF CreateChannel, SetsUp, Server
<1>2. /\ NextBit(p) \in Bit /\ source[p][NextBit(p)] = None
      /\ \A q \in Server, b \in Bit :
           source'[q][b] = IF q = p /\ b = NextBit(p) THEN "peer"
                           ELSE source[q][b]
  BY <1>1, AllocatesAFreeBit DEF IInv
<1>3. TypeOK'
  BY <1>1, <1>2 DEF IInv, TypeOK, Allocate
<1>4. BitsTellTheirSource'
  BY <1>1, OwnersDiffer, AllocatingKeepsBits
<1>5. MaskedLinesAreOwed'
  <2> SUFFICES ASSUME NEW l \in masked
               PROVE  \/ line[l][2] \in word[line[l][1]] \cup taken[line[l][1]]
                                        \cup dropped[line[l][1]]
                      \/ line[l][2] \notin told'[line[l][1]]
    BY <1>1 DEF MaskedLinesAreOwed
  <2>1. l \in Line /\ line[l] # None
    BY DEF IInv, TypeOK, MaskedAreBound
  <2>2. line[l][1] \in Server /\ source[line[l][1]][line[l][2]] = l
    BY <2>1, LinesAreBoundToBits DEF IInv, BitsTellTheirSource
  <2>3. ~(line[l][1] = p /\ line[l][2] = NextBit(p))
    BY <1>2, <2>1, <2>2, OwnersDiffer
  <2> QED
    BY <1>1, <2>2, <2>3 DEF IInv, MaskedLinesAreOwed, TypeOK
<1>6. UnpublishedHaveNone' /\ MaskedAreBound'
  BY <1>1, <1>2 DEF IInv, UnpublishedHaveNone, MaskedAreBound
<1> QED
  BY <1>3, <1>4, <1>5, <1>6 DEF IInv

(* A line is bound to a bit that is allocated to it in the same step.      *)
LEMMA BindingKeeps ==
  ASSUME IInv, NEW p \in Driver, NEW l \in Line, Bind(p, l), Allocate(p, l),
         told' \in [Server -> SUBSET Bit],
         \A q \in Server, b \in Bit :
           b \in told'[q] => b \in told[q] \/ (q = p /\ b = NextBit(p))
  PROVE  IInv'
<1>1. /\ p \in Server /\ FreeBits(p) # {} /\ line[l] = None
      /\ status[p] = "published"
      /\ line' = [line EXCEPT ![l] = <<p, NextBit(p)>>]
      /\ UNCHANGED <<status, opened, masked, word, taken, dropped, running,
                     inbox, rootDown>>
  BY DEF Bind, SetsUp, Server
<1>2. /\ NextBit(p) \in Bit /\ source[p][NextBit(p)] = None
      /\ \A q \in Server, b \in Bit :
           source'[q][b] = IF q = p /\ b = NextBit(p) THEN l
                           ELSE source[q][b]
  BY <1>1, AllocatesAFreeBit DEF IInv
<1>3. TypeOK'
  <2>1. source' \in [Server -> [Bit -> {None, "root", "peer"} \cup Line]]
    BY <1>1, <1>2 DEF IInv, TypeOK, Allocate
  <2>2. line' \in [Line -> {None} \cup (Driver \X Bit)]
    BY <1>1, <1>2 DEF IInv, TypeOK
  <2> QED
    BY <1>1, <2>1, <2>2 DEF IInv, TypeOK
<1>4. \A q \in Server, b \in Bit : source[q][b] # None =>
                                     source'[q][b] = source[q][b]
  BY <1>2
<1>5. \A m \in Line : line'[m] = IF m = l THEN <<p, NextBit(p)>> ELSE line[m]
  BY <1>1 DEF IInv, TypeOK
<1>6. BitsTellTheirSource'
  <2>1. /\ 0 \in Bit
        /\ \A q \in Server : /\ opened[q] \subseteq Bit
                             /\ word[q] \subseteq Bit
                             /\ taken[q] \subseteq Bit
    BY NotificationsAssumption DEF Bit, IInv, TypeOK
  <2>2. \A q \in Server : status[q] = "published" => source'[q][0] = "root"
    BY <1>4, <2>1, OwnersDiffer DEF IInv, BitsTellTheirSource
  <2>3. ASSUME NEW m \in Line, line'[m] # None
        PROVE  source'[line'[m][1]][line'[m][2]] = m
    <3>1. CASE m = l
      BY <1>1, <1>2, <1>5, <3>1
    <3>2. CASE m # l
      <4>1. line'[m] = line[m] /\ line[m] # None
        BY <1>5, <2>3, <3>2
      <4>2. line[m][1] \in Server /\ line[m][2] \in Bit
        BY <4>1, LinesAreBoundToBits DEF IInv
      <4>3. source[line[m][1]][line[m][2]] = m
        BY <4>1 DEF IInv, BitsTellTheirSource
      <4> QED
        BY <1>4, <4>1, <4>2, <4>3, OwnersDiffer
    <3> QED
      BY <3>1, <3>2
  <2>4. \A q \in Server : \A b \in opened[q] : source'[q][b] = "peer"
    BY <1>4, <2>1, OwnersDiffer DEF IInv, BitsTellTheirSource
  <2>5. \A q \in Server : \A b \in word[q] \cup taken[q] :
          source'[q][b] # None
    BY <1>4, <2>1, OwnersDiffer DEF IInv, BitsTellTheirSource
  <2> QED
    BY <1>1, <2>2, <2>3, <2>4, <2>5 DEF BitsTellTheirSource
<1>7. MaskedLinesAreOwed'
  <2> SUFFICES ASSUME NEW m \in masked
               PROVE  \/ line'[m][2] \in word[line'[m][1]]
                                         \cup taken[line'[m][1]]
                                         \cup dropped[line'[m][1]]
                      \/ line'[m][2] \notin told'[line'[m][1]]
    BY <1>1 DEF MaskedLinesAreOwed
  <2>1. m \in Line /\ line[m] # None /\ m # l /\ line'[m] = line[m]
    BY <1>1, <1>5 DEF IInv, TypeOK, MaskedAreBound
  <2>2. /\ line[m][1] \in Server /\ line[m][2] \in Bit
        /\ source[line[m][1]][line[m][2]] = m
    BY <2>1, LinesAreBoundToBits DEF IInv, BitsTellTheirSource
  <2>3. ~(line[m][1] = p /\ line[m][2] = NextBit(p))
    BY <1>2, <2>1, <2>2, OwnersDiffer
  <2> QED
    BY <2>1, <2>2, <2>3 DEF IInv, MaskedLinesAreOwed
<1>8. UnpublishedHaveNone'
  BY <1>1, <1>2 DEF IInv, UnpublishedHaveNone
<1>9. MaskedAreBound'
  <2>1. <<p, NextBit(p)>> # None \/ l \notin masked
    BY <1>1 DEF IInv, MaskedAreBound
  <2> QED
    BY <1>1, <1>5, <2>1 DEF IInv, TypeOK, MaskedAreBound
<1> QED
  BY <1>3, <1>6, <1>7, <1>8, <1>9 DEF IInv

(* handle_irq_register, and its failure after the line was bound.          *)
LEMMA IrqRegisterKeeps ==
  ASSUME IInv, NEW p \in Driver, NEW l \in Line,
         IrqRegister(p, l) \/ IrqRegisterFails(p, l)
  PROVE  IInv'
<1>1. Bind(p, l) /\ Allocate(p, l)
  BY DEF IrqRegister, IrqRegisterFails
<1>2. p \in Server /\ NextBit(p) \in Bit
  BY <1>1, AllocatesAFreeBit DEF IInv, Bind, Server
<1>3. /\ told' \in [Server -> SUBSET Bit]
      /\ \A q \in Server, b \in Bit :
           b \in told'[q] => b \in told[q] \/ (q = p /\ b = NextBit(p))
  BY <1>2 DEF IrqRegister, IrqRegisterFails, IInv, TypeOK
<1> QED
  BY <1>1, <1>3, BindingKeeps

-----------------------------------------------------------------------------
(* Who sets a bit: the peer, the line or the root server it belongs to.    *)
LEMMA OpenChannelKeeps ==
  ASSUME IInv, NEW p \in Driver, NEW b \in Bit, OpenChannel(p, b)
  PROVE  IInv'
<1>1. /\ p \in Server /\ source[p][b] = "peer"
      /\ opened' = [opened EXCEPT ![p] = @ \cup {b}]
      /\ UNCHANGED <<status, source, told, line, masked, word, taken, dropped,
                     running, inbox, rootDown>>
  BY DEF OpenChannel, Server
<1>2. \A q \in Server, c \in Bit :
        c \in opened'[q] => c \in opened[q] \/ (q = p /\ c = b)
  BY <1>1 DEF IInv, TypeOK
<1>3. TypeOK'
  BY <1>1 DEF IInv, TypeOK
<1>4. BitsTellTheirSource'
  BY <1>1, <1>2, <1>3 DEF IInv, BitsTellTheirSource, TypeOK
<1>5. MaskedLinesAreOwed' /\ UnpublishedHaveNone' /\ MaskedAreBound'
  BY <1>1 DEF IInv, MaskedLinesAreOwed, UnpublishedHaveNone, MaskedAreBound
<1> QED
  BY <1>3, <1>4, <1>5 DEF IInv

LEMMA SettingKeeps ==
  ASSUME IInv, NEW p \in Server, NEW b \in Bit, source[p][b] # None, Set(p, b),
         masked' \subseteq Line,
         \A l \in masked' :
           l \in masked \/ (line[l] # None /\ line[l] = <<p, b>>),
         inbox' \in [Server -> 0 .. Capacity],
         rootDown' \in {None, "unbind", "full"},
         UNCHANGED <<status, source, told, opened, line, taken, dropped,
                     running>>
  PROVE  IInv'
<1>1. \A q \in Server, c \in Bit :
        c \in word'[q] <=> c \in word[q] \/ (q = p /\ c = b)
  BY DEF Set, IInv, TypeOK
<1>2. TypeOK'
  BY DEF Set, IInv, TypeOK
<1>3. BitsTellTheirSource'
  BY <1>1, <1>2 DEF IInv, BitsTellTheirSource, TypeOK
<1>4. MaskedAreBound'
  BY DEF IInv, MaskedAreBound
<1>5. MaskedLinesAreOwed'
  <2> SUFFICES ASSUME NEW l \in masked'
               PROVE  \/ line[l][2] \in word'[line[l][1]] \cup taken[line[l][1]]
                                        \cup dropped[line[l][1]]
                      \/ line[l][2] \notin told[line[l][1]]
    BY DEF MaskedLinesAreOwed
  <2>1. CASE l \in masked
    <3>1. line[l][1] \in Server /\ line[l][2] \in Bit
      BY <2>1, LinesAreBoundToBits DEF IInv, TypeOK, MaskedAreBound
    <3> QED
      BY <1>1, <2>1, <3>1 DEF IInv, MaskedLinesAreOwed
  <2>2. CASE line[l] = <<p, b>>
    BY <1>1, <2>2
  <2> QED
    BY <2>1, <2>2
<1>6. UnpublishedHaveNone'
  BY DEF IInv, UnpublishedHaveNone
<1> QED
  BY <1>2, <1>3, <1>4, <1>5, <1>6 DEF IInv

LEMMA InterruptKeeps ==
  ASSUME IInv, NEW l \in Line, Interrupt(l)
  PROVE  IInv'
<1> DEFINE p == line[l][1]
           b == line[l][2]
<1>1. line[l] # None /\ p \in Server /\ b \in Bit /\ line[l] = <<p, b>>
  BY LinesAreBoundToBits DEF Interrupt, IInv, TypeOK
<1>2. source[p][b] # None
  BY <1>1, OwnersDiffer DEF IInv, BitsTellTheirSource
<1>3. /\ Set(p, b) /\ masked' = masked \cup {l}
      /\ UNCHANGED <<status, source, told, opened, line, taken, dropped,
                     running, inbox, rootDown>>
  BY DEF Interrupt
<1>4. /\ masked' \subseteq Line
      /\ \A m \in masked' :
           m \in masked \/ (line[m] # None /\ line[m] = <<p, b>>)
      /\ inbox' \in [Server -> 0 .. Capacity]
      /\ rootDown' \in {None, "unbind", "full"}
  BY <1>1, <1>3 DEF IInv, TypeOK
<1> HIDE DEF p, b
<1> QED
  BY <1>1, <1>2, <1>3, <1>4, SettingKeeps

LEMMA NotifyKeeps ==
  ASSUME IInv, NEW p \in Driver, NEW b \in Bit, Notify(p, b)
  PROVE  IInv'
<1>1. p \in Server /\ source[p][b] # None
  BY OwnersDiffer DEF Notify, IInv, BitsTellTheirSource, Server
<1> QED
  BY <1>1, SettingKeeps DEF Notify, IInv, TypeOK

LEMMA RootSignalKeeps ==
  ASSUME IInv, NEW p \in Server, RootSignal(p)
  PROVE  IInv'
<1>1. 0 \in Bit /\ source[p][0] # None
  BY NotificationsAssumption, OwnersDiffer
     DEF RootSignal, IInv, BitsTellTheirSource, Bit
<1>2. CASE ~Full(p)
  <2>1. /\ inbox' = [inbox EXCEPT ![p] = @ + 1]
        /\ Set(p, 0)
        /\ UNCHANGED <<status, source, told, opened, line, masked, taken,
                       dropped, running, rootDown>>
    BY <1>2 DEF RootSignal
  <2>2. inbox[p] + 1 \in 0 .. Capacity
    <3>1. inbox[p] \in 0 .. Capacity /\ inbox[p] # Capacity
      BY <1>2 DEF Full, IInv, TypeOK
    <3> QED
      BY <3>1, NotificationsAssumption
  <2>3. /\ inbox' \in [Server -> 0 .. Capacity]
        /\ rootDown' \in {None, "unbind", "full"}
        /\ masked' \subseteq Line /\ \A l \in masked' : l \in masked
    BY <2>1, <2>2 DEF IInv, TypeOK
  <2> QED
    BY <1>1, <2>1, <2>3, SettingKeeps
<1>3. CASE Full(p)
  <2>1. /\ rootDown' = "full"
        /\ UNCHANGED <<status, source, told, opened, line, masked, word, taken,
                       dropped, running, inbox>>
    BY <1>3 DEF RootSignal
  <2> QED
    BY <2>1 DEF IInv, TypeOK, BitsTellTheirSource, MaskedLinesAreOwed,
                UnpublishedHaveNone, MaskedAreBound
<1> QED
  BY <1>2, <1>3

-----------------------------------------------------------------------------
(* What becomes of a bit: ignored, or taken and gone through.              *)
LEMMA IgnoreKeeps ==
  ASSUME IInv, NEW p \in Driver, Ignore(p)
  PROVE  IInv'
<1>1. /\ p \in Server
      /\ dropped' = [dropped EXCEPT ![p] = @ \cup word[p]]
      /\ word' = [word EXCEPT ![p] = {}]
      /\ UNCHANGED <<status, source, told, opened, line, masked, taken,
                     running, inbox, rootDown>>
  BY DEF Ignore, Server
<1>2. \A q \in Server :
        /\ word'[q] \subseteq word[q] /\ dropped[q] \subseteq dropped'[q]
        /\ word[q] \subseteq word'[q] \cup dropped'[q]
  BY <1>1 DEF IInv, TypeOK
<1>3. TypeOK'
  BY <1>1 DEF IInv, TypeOK
<1>4. BitsTellTheirSource'
  BY <1>1, <1>2 DEF IInv, BitsTellTheirSource
<1>5. MaskedLinesAreOwed'
  <2>1. \A l \in masked : line[l][1] \in Server
    BY LinesAreBoundToBits DEF IInv, TypeOK, MaskedAreBound
  <2> QED
    BY <1>1, <1>2, <2>1 DEF IInv, MaskedLinesAreOwed
<1>6. UnpublishedHaveNone' /\ MaskedAreBound'
  BY <1>1 DEF IInv, UnpublishedHaveNone, MaskedAreBound
<1> QED
  BY <1>3, <1>4, <1>5, <1>6 DEF IInv

LEMMA ReceiveKeeps ==
  ASSUME IInv, NEW p \in Server, Receive(p)
  PROVE  IInv'
<1>1. /\ taken[p] = {}
      /\ taken' = [taken EXCEPT ![p] = word[p]]
      /\ word' = [word EXCEPT ![p] = {}]
      /\ UNCHANGED <<status, source, told, opened, line, masked, dropped,
                     running, inbox, rootDown>>
  BY DEF Receive, AllOf
<1>2. \A q \in Server : word'[q] \cup taken'[q] = word[q] \cup taken[q]
  BY <1>1 DEF IInv, TypeOK
<1>3. TypeOK'
  BY <1>1 DEF IInv, TypeOK
<1>4. BitsTellTheirSource'
  BY <1>1, <1>2 DEF IInv, BitsTellTheirSource
<1>5. MaskedLinesAreOwed'
  <2>1. \A l \in masked : line[l][1] \in Server
    BY LinesAreBoundToBits DEF IInv, TypeOK, MaskedAreBound
  <2> QED
    BY <1>1, <1>2, <2>1 DEF IInv, MaskedLinesAreOwed
<1>6. UnpublishedHaveNone' /\ MaskedAreBound'
  BY <1>1 DEF IInv, UnpublishedHaveNone, MaskedAreBound
<1> QED
  BY <1>3, <1>4, <1>5, <1>6 DEF IInv

LEMMA NotifiedKeeps ==
  ASSUME IInv, NEW p \in Server, Notified(p)
  PROVE  IInv'
<1> DEFINE b == Min(taken[p])
<1>1. /\ taken' = [taken EXCEPT ![p] = @ \ {b}]
      /\ masked' = masked \ Acknowledged(p, b)
      /\ inbox' = [inbox EXCEPT ![p] = Left(p, b)]
      /\ UNCHANGED <<status, source, told, opened, line, word, dropped,
                     running, rootDown>>
  BY DEF Notified
<1> HIDE DEF b
<1>2. \A q \in Server :
        /\ taken'[q] \subseteq taken[q]
        /\ \A c \in taken[q] : c \in taken'[q] \/ (q = p /\ c = b)
  BY <1>1 DEF IInv, TypeOK
<1>3. TypeOK'
  <2>1. inbox' \in [Server -> 0 .. Capacity]
    BY <1>1, NotificationsAssumption DEF Left, IInv, TypeOK
  <2> QED
    BY <1>1, <2>1 DEF IInv, TypeOK
<1>4. BitsTellTheirSource'
  BY <1>1, <1>2 DEF IInv, BitsTellTheirSource
<1>5. MaskedLinesAreOwed'
  <2> SUFFICES ASSUME NEW l \in masked'
               PROVE  \/ line[l][2] \in word[line[l][1]] \cup taken'[line[l][1]]
                                        \cup dropped[line[l][1]]
                      \/ line[l][2] \notin told[line[l][1]]
    BY <1>1 DEF MaskedLinesAreOwed
  <2>1. l \in masked /\ l \in Line /\ l \notin Acknowledged(p, b)
    BY <1>1 DEF IInv, TypeOK
  <2>2. line[l] # None /\ line[l][1] \in Server
    BY <2>1, LinesAreBoundToBits DEF IInv, MaskedAreBound
  <2>3. line[l] = <<line[l][1], line[l][2]>>
    BY <2>1, <2>2 DEF IInv, TypeOK
  <2>4. source[line[l][1]][line[l][2]] = l
    BY <2>1, <2>2 DEF IInv, BitsTellTheirSource
  <2>5. CASE line[l][1] = p /\ line[l][2] = b
    BY <2>1, <2>3, <2>4, <2>5 DEF Acknowledged
  <2>6. CASE ~(line[l][1] = p /\ line[l][2] = b)
    BY <1>2, <2>1, <2>2, <2>6 DEF IInv, MaskedLinesAreOwed
  <2> QED
    BY <2>5, <2>6
<1>6. UnpublishedHaveNone' /\ MaskedAreBound'
  BY <1>1 DEF IInv, UnpublishedHaveNone, MaskedAreBound
<1> QED
  BY <1>3, <1>4, <1>5, <1>6 DEF IInv

-----------------------------------------------------------------------------
LEMMA StepKeeps == IInv /\ [Next]_vars => IInv'
<1> SUFFICES ASSUME IInv, [Next]_vars PROVE IInv'
  OBVIOUS
<1>1. ASSUME NEW p \in Server,
             Publish(p) \/ RootSignal(p) \/ Receive(p) \/ Notified(p)
      PROVE  IInv'
  BY <1>1, PublishKeeps, RootSignalKeeps, ReceiveKeeps, NotifiedKeeps
<1>2. ASSUME NEW p \in Server, Enter(p)
      PROVE  IInv'
  BY <1>2 DEF Enter, IInv, TypeOK, BitsTellTheirSource, MaskedLinesAreOwed,
              UnpublishedHaveNone, MaskedAreBound
<1>3. ASSUME NEW p \in Driver, CreateChannel(p) \/ Ignore(p)
      PROVE  IInv'
  BY <1>3, CreateChannelKeeps, IgnoreKeeps
<1>4. ASSUME NEW p \in Driver, NEW b \in Bit,
             OpenChannel(p, b) \/ Notify(p, b)
      PROVE  IInv'
  BY <1>4, OpenChannelKeeps, NotifyKeeps
<1>5. ASSUME NEW p \in Driver, NEW l \in Line,
             IrqRegister(p, l) \/ IrqRegisterFails(p, l)
      PROVE  IInv'
  BY <1>5, IrqRegisterKeeps
<1>6. ASSUME NEW l \in Line, Interrupt(l)
      PROVE  IInv'
  BY <1>6, InterruptKeeps
<1>7. CASE UNCHANGED vars
  BY <1>7 DEF vars, IInv, TypeOK, BitsTellTheirSource, MaskedLinesAreOwed,
              UnpublishedHaveNone, MaskedAreBound
<1> QED
  BY <1>1, <1>2, <1>3, <1>4, <1>5, <1>6, <1>7 DEF Next

(* The inductive invariant, with the types.                                *)
THEOREM NotificationsSound == Spec => []IInv
  BY InitIInv, StepKeeps, PTL DEF Spec

(* handle_conn_publish, create_channel and irq_register give each bit one  *)
(* owner, and no failure frees a bit that somebody may still set.          *)
THEOREM BitsAlwaysTellTheirSource == Spec => []BitsTellTheirSource
<1>1. IInv => BitsTellTheirSource
  BY DEF IInv
<1> QED
  BY <1>1, NotificationsSound, PTL

(* An interrupt that fired is on its way to be acknowledged, or its server *)
(* ignored it in pre_init or was never told of its bit.                    *)
THEOREM MaskedLinesAlwaysOwed == Spec => []MaskedLinesAreOwed
<1>1. IInv => MaskedLinesAreOwed
  BY DEF IInv
<1> QED
  BY <1>1, NotificationsSound, PTL

-----------------------------------------------------------------------------
(* SddfSetup.                                                              *)


(* Who is not spawned is not there; a server is in its loop before it      *)
(* calls anybody; and who has left the loop has all its clients.           *)
Fresh(c) ==
  /\ phase[c] = "unborn" => bits[c] = <<>> /\ call[c] = NoCall
  /\ phase[c] \in {"unborn", "serving"} =>
       pos[c] = <<1, 1>> /\ chans[c] = {} /\ call[c] = NoCall
  /\ phase[c] \notin {"running", "dead"} => table[c] = {}
  /\ phase[c] = "unborn" \/ Kind(c) \in {"blk_driver", "client"} =>
       Clients(c) = <<>>
  /\ Kind(c) = "timer" => chans[c] = {}
  /\ phase[c] # "unborn" => c \in Members
  /\ phase[c] = "serving" => Kind(c) # "client"
  /\ Past(c) /\ Kind(c) # "client" => CheckDone(Kind(c), Clients(c))

(* Servers are there before their clients.                                 *)
ServersAreBorn ==
  \A c \in Members : phase[c] # "unborn" =>
    \A n \in DOMAIN Links(c) : phase[Links(c)[n].to] # "unborn"

(* A call is the one the caller's place in its script asks for, or a       *)
(* protected one later.                                                    *)
CallIsDue(c) ==
  /\ pos[c][1] \in DOMAIN Links(c) /\ c \notin sys.unruly =>
       pos[c][2] <= Len(Script(Kind(Target(c))))
  /\ call[c] # NoCall =>
       \/ /\ phase[c] = "calling"
          /\ pos[c][1] \in DOMAIN Links(c)
          /\ call[c].to = Target(c)
          /\ call[c].req \in Wanted(c)
       \/ phase[c] \in {"running", "dead"} /\ call[c].req = "ppcall"
  /\ call[c].shared => c \in sys.unruly

(* A client's record, as far as its channel goes.                          *)
RecordIsSound(k, cl) ==
  /\ k # "blk_driver" /\ cl.queues # {} => cl.chan # NoChan
  /\ k \in Drivers => (cl.virt # Nothing <=> cl.chan # NoChan)
  /\ cl.got => HasAll(k, cl)
RecordsAreSound(c) ==
  \A n \in DOMAIN Clients(c) : RecordIsSound(Kind(c), Clients(c)[n])

(* The copier and the timer have the one client that calls.                *)
OneClient(k) == k \in {"copier", "timer"}
SoleClient(c) ==
  /\ phase[c] = "calling"
  /\ pos[c][1] \in DOMAIN Links(c)
  /\ OneClient(Kind(Target(c)))
  /\ pos[c][2] > 1 \/ call[c].answer \in {"ok", "error"}
  => Clients(Target(c)) # <<>> /\ Clients(Target(c))[1].id = c

(* Clients are different, and the bits of all channels.                    *)
IsPending(c) == call[c] # NoCall /\ IsChannel(call[c].req)
Reserved(c, k) ==
  /\ k \in 1 .. Len(bits[c])
  /\ HasIrq(Kind(c)) => k # 1
  /\ IsPending(c) => k # call[c].bit
Filed(c, n) == Clients(c)[n].chan # NoChan
BitsAreOwn(c) ==
  /\ HasIrq(Kind(c)) /\ phase[c] # "unborn" => Len(bits[c]) >= 1
  /\ IsPending(c) => /\ call[c].bit = Len(bits[c]) /\ call[c].bit >= 1
                     /\ HasIrq(Kind(c)) => call[c].bit >= 2
  /\ \A n, m \in DOMAIN Clients(c) :
       Clients(c)[n].id = Clients(c)[m].id => n = m
  /\ Kind(c) # "timer" =>
       \A n \in DOMAIN Clients(c) : Filed(c, n) =>
         /\ Reserved(c, Clients(c)[n].chan.from)
         /\ \A m \in DOMAIN Clients(c) :
              Filed(c, m) /\ Clients(c)[m].chan.from = Clients(c)[n].chan.from
                => n = m
         /\ \A ch \in chans[c] : ch.from # Clients(c)[n].chan.from
  /\ \A ch \in chans[c] :
       /\ Reserved(c, ch.from)
       /\ \A d \in chans[c] : d.from = ch.from => d = ch

Holds(c) == Fresh(c) /\ CallIsDue(c) /\ RecordsAreSound(c) /\ BitsAreOwn(c)

SetupInv ==
  /\ SetupTypeOK
  /\ ServersAreBorn
  /\ \A c \in Components : Holds(c) /\ SoleClient(c)

-----------------------------------------------------------------------------
LEMMA ElementTyped ==
  ASSUME NEW T, NEW l \in Seq(T), NEW n \in DOMAIN l
  PROVE  l[n] \in T /\ n \in 1 .. Len(l)
  OBVIOUS

LEMMA UpdateTyped ==
  ASSUME NEW S, NEW T, NEW f \in [S -> T], NEW x \in S, NEW v \in T
  PROVE  /\ [f EXCEPT ![x] = v] \in [S -> T] /\ [f EXCEPT ![x] = v][x] = v
         /\ \A y \in S \ {x} : [f EXCEPT ![x] = v][y] = f[y]
  OBVIOUS

LEMMA AppendShape ==
  ASSUME NEW T, NEW l \in Seq(T), NEW v \in T
  PROVE  /\ Append(l, v) \in Seq(T) /\ Len(Append(l, v)) = Len(l) + 1
         /\ Append(l, v) # <<>>
         /\ \A n \in DOMAIN Append(l, v) :
              \/ n \in DOMAIN l /\ Append(l, v)[n] = l[n]
              \/ n \notin DOMAIN l /\ n = Len(l) + 1 /\ Append(l, v)[n] = v
         /\ \A n \in DOMAIN l :
              n \in DOMAIN Append(l, v) /\ Append(l, v)[n] = l[n]
         /\ l = <<>> => Append(l, v)[1] = v
  OBVIOUS

LEMMA ReplaceShape ==
  ASSUME NEW T, NEW l \in Seq(T), NEW k \in DOMAIN l, NEW v \in T
  PROVE  /\ [l EXCEPT ![k] = v] \in Seq(T)
         /\ Len([l EXCEPT ![k] = v]) = Len(l)
         /\ DOMAIN [l EXCEPT ![k] = v] = DOMAIN l
         /\ [l EXCEPT ![k] = v][k] = v
         /\ \A n \in DOMAIN l \ {k} : [l EXCEPT ![k] = v][n] = l[n]
  OBVIOUS

(* What the types and the assumption say of one component.                 *)
LEMMA Typed ==
  ASSUME SetupTypeOK, NEW c \in Components
  PROVE  /\ Kind(c) \in Kinds
         /\ Links(c) \in Seq([to : Components, virt : Virts \cup {Nothing}])
         /\ sys.order \in Seq(Components)
         /\ Clients(c) \in Seq(ClientType)
         /\ Len(Clients(c)) \in Nat /\ Len(Clients(c)) <= Places(Kind(c))
         /\ bits[c] \in Seq(Components \cup {"irq"}) /\ Len(bits[c]) \in Nat
         /\ pos[c][1] \in Nat \ {0} /\ pos[c][2] \in Nat \ {0}
         /\ call[c] \in CallType
         /\ sys \in SystemType /\ IsBootable(sys)
<1>1. sys \in SystemType /\ IsBootable(sys)
  BY SetupAssumption DEF SetupTypeOK
<1>2. /\ Kind(c) \in Kinds
      /\ Links(c) \in Seq([to : Components, virt : Virts \cup {Nothing}])
      /\ sys.order \in Seq(Components)
  BY <1>1 DEF SystemType, Kind, Links
<1>3. srv[c] \in [clients : Seq(ClientType), virts : SUBSET Virts,
                  data : SUBSET (Virts \cup {Nothing})]
  BY DEF SetupTypeOK
<1>4. /\ Clients(c) \in Seq(ClientType)
      /\ Len(Clients(c)) \in Nat /\ Len(Clients(c)) <= Places(Kind(c))
  BY <1>3 DEF SetupTypeOK, Clients
<1>5. bits[c] \in Seq(Components \cup {"irq"}) /\ Len(bits[c]) \in Nat
  BY DEF SetupTypeOK
<1>6. pos[c][1] \in Nat \ {0} /\ pos[c][2] \in Nat \ {0}
  BY DEF SetupTypeOK
<1>7. call[c] \in CallType
  BY DEF SetupTypeOK
<1>8. QED
  BY <1>1, <1>2, <1>4, <1>5, <1>6, <1>7

LEMMA MembersAreComponents ==
  ASSUME SetupTypeOK
  PROVE  Members \subseteq Components
<1>1. sys.order \in Seq(Components)
  BY SetupAssumption DEF SetupTypeOK, SystemType
<1>2. QED
  BY <1>1 DEF Members

(* A link leads to a server that was spawned before.                       *)
LEMMA LinkLeads ==
  ASSUME SetupTypeOK, NEW c \in Components, NEW n \in DOMAIN Links(c)
  PROVE  /\ Links(c)[n].to \in Components
         /\ Links(c)[n].virt \in Virts \cup {Nothing}
         /\ Kind(Links(c)[n].to) \in Kinds \ {"blk_driver", "client"}
         /\ Kind(c) # "timer"
         /\ \A j \in DOMAIN Links(c) : Links(c)[j].to = Links(c)[n].to => j = n
<1>1. /\ Links(c)[n].to \in Components
      /\ Links(c)[n].virt \in Virts \cup {Nothing}
  <2>1. Links(c)[n] \in [to : Components, virt : Virts \cup {Nothing}]
    BY Typed, ElementTyped
  <2>2. QED
    BY <2>1
<1>2. Kind(Links(c)[n].to) \in Kinds
  BY <1>1, Typed
<1>3. IsBootable(sys)
  BY Typed
<1>4. QED
  BY <1>1, <1>2, <1>3 DEF IsBootable, Links, Kind

(* Every script begins with open and a channel, and neither comes again.   *)
LEMMA ScriptShape ==
  ASSUME NEW k \in Kinds \ {"client"}
  PROVE  /\ Script(k) \in Seq(Requests \ {"ppcall"})
         /\ Len(Script(k)) \in 2 .. 5
         /\ Script(k)[1] = "open"
         /\ IsChannel(Script(k)[2])
         /\ Script(k)[2] = IF k = "timer" THEN "receive" ELSE "channel"
         /\ \A j \in 2 .. Len(Script(k)) : Script(k)[j] # "open"
         /\ \A j \in 3 .. Len(Script(k)) :
              Script(k)[j] \in Queues \cup {"provide", "get"}
         /\ \A i, j \in 1 .. Len(Script(k)) :
              Script(k)[i] = Script(k)[j] => i = j
<1> USE DEF Script, Requests, Queues, IsChannel
<1>1. CASE k = "net_driver"
  BY <1>1
<1>2. CASE k = "serial_driver"
  BY <1>2
<1>3. CASE k = "blk_driver"
  BY <1>3
<1>4. CASE k = "net_virt_rx"
  BY <1>4
<1>5. CASE k = "net_virt_tx"
  BY <1>5
<1>6. CASE k = "copier"
  BY <1>6
<1>7. CASE k = "serial_virt"
  BY <1>7
<1>8. CASE k = "timer"
  BY <1>8
<1>9. QED
  BY <1>1, <1>2, <1>3, <1>4, <1>5, <1>6, <1>7, <1>8 DEF Kinds

LEMMA HandledShape ==
  ASSUME NEW k \in Kinds \ {"client"}
  PROVE  /\ Handled(k) \subseteq Requests \ {"open", "ppcall"}
         /\ Handled(k) \subseteq
              {"channel", "receive", "provide", "get"} \cup Queues
         /\ k = "timer" => Handled(k) = {"receive"}
         /\ k # "timer" => "receive" \notin Handled(k)
<1>1. Handled(k) \subseteq Requests \ {"open", "ppcall"}
  BY ScriptShape DEF Handled
<1>2. k = "timer" => Handled(k) = {"receive"}
  BY DEF Handled, Script
<1>3. k # "timer" => "receive" \notin Handled(k)
  <2>1. k # "timer" => \A j \in 2 .. Len(Script(k)) : Script(k)[j] # "receive"
    BY ScriptShape DEF Queues
  <2>2. QED
    BY <2>1 DEF Handled
<1>4. Handled(k) \subseteq {"channel", "receive", "provide", "get"} \cup Queues
  <2>1. \A j \in 2 .. Len(Script(k)) : j = 2 \/ j \in 3 .. Len(Script(k))
    BY ScriptShape
  <2>2. QED
    BY <2>1, ScriptShape DEF Handled, IsChannel
<1>5. QED
  BY <1>1, <1>2, <1>3, <1>4

(* Every server but the timer expects a queue.                             *)
LEMMA SomeQueue ==
  ASSUME NEW k \in Kinds \ {"client", "timer"}
  PROVE  QueuesOf(k) # {}
<1>1. Script(k)[3] \in Queues /\ 3 \in 2 .. Len(Script(k))
  BY DEF Kinds, Script, Queues
<1>2. QED
  BY <1>1 DEF QueuesOf, Handled

-----------------------------------------------------------------------------
(* A step moves one component; of the others everything is the same.       *)
Same(d) ==
  /\ phase'[d] = phase[d] /\ pos'[d] = pos[d] /\ srv'[d] = srv[d]
  /\ bits'[d] = bits[d] /\ chans'[d] = chans[d] /\ table'[d] = table[d]
  /\ call'[d] = call[d]

LEMMA FreshStays ==
  ASSUME NEW d, sys' = sys, Same(d), Fresh(d)
  PROVE  Fresh(d)'
<1>1. Kind(d)' = Kind(d) /\ Clients(d)' = Clients(d) /\ Members' = Members
  BY DEF Same, Kind, Clients, Members
<1>2. Past(d)' <=> Past(d)
  BY DEF Past, Same
<1>3. QED
  BY <1>1, <1>2 DEF Fresh, Same

LEMMA CallStays ==
  ASSUME NEW d, sys' = sys, Same(d), CallIsDue(d)
  PROVE  CallIsDue(d)'
<1>1. Links(d)' = Links(d) /\ \A e : Kind(e)' = Kind(e)
  BY DEF Kind, Links
<1>2. Target(d)' = Target(d)
  BY <1>1 DEF Target, Same
<1>3. Wanted(d)' = Wanted(d)
  BY <1>1, <1>2 DEF Wanted, Same
<1>4. QED
  BY <1>1, <1>2, <1>3 DEF CallIsDue, Same

LEMMA RecordsStay ==
  ASSUME NEW d, sys' = sys, srv'[d] = srv[d], RecordsAreSound(d)
  PROVE  RecordsAreSound(d)'
<1>1. Kind(d)' = Kind(d) /\ Clients(d)' = Clients(d)
  BY DEF Kind, Clients
<1>2. QED
  BY <1>1 DEF RecordsAreSound

LEMMA BitsStay ==
  ASSUME NEW d, sys' = sys, Same(d), BitsAreOwn(d)
  PROVE  BitsAreOwn(d)'
<1>1. /\ Kind(d)' = Kind(d) /\ Clients(d)' = Clients(d)
      /\ bits'[d] = bits[d] /\ chans'[d] = chans[d] /\ call'[d] = call[d]
      /\ phase'[d] = phase[d]
  BY DEF Kind, Clients, Same
<1>2. /\ IsPending(d)' <=> IsPending(d)
      /\ \A n : Filed(d, n)' <=> Filed(d, n)
  BY <1>1 DEF IsPending, Filed
<1>3. \A k : Reserved(d, k)' <=> Reserved(d, k)
  BY <1>1, <1>2 DEF Reserved
<1>4. QED
  BY <1>1, <1>2, <1>3 DEF BitsAreOwn

LEMMA SoleStays ==
  ASSUME NEW d, sys' = sys, srv' = srv, phase'[d] = phase[d],
         pos'[d] = pos[d], call'[d] = call[d], SoleClient(d)
  PROVE  SoleClient(d)'
<1>1. /\ Links(d)' = Links(d)
      /\ \A e : Kind(e)' = Kind(e) /\ Clients(e)' = Clients(e)
  BY DEF Kind, Links, Clients
<1>2. Target(d)' = Target(d)
  BY <1>1 DEF Target
<1>3. QED
  BY <1>1, <1>2 DEF SoleClient

LEMMA SameHolds ==
  ASSUME NEW d, sys' = sys, Same(d), Holds(d)
  PROVE  Holds(d)'
BY FreshStays, CallStays, RecordsStay, BitsStay DEF Holds, Same

LEMMA BornStay ==
  ASSUME SetupTypeOK, ServersAreBorn, sys' = sys,
         \A d \in Components : phase'[d] = "unborn" <=> phase[d] = "unborn"
  PROVE  ServersAreBorn'
<1>1. Members' = Members /\ \A d : Links(d)' = Links(d)
  BY DEF Members, Links
<1>2. \A d \in Members : \A n \in DOMAIN Links(d) :
        d \in Components /\ Links(d)[n].to \in Components
  BY MembersAreComponents, LinkLeads
<1>3. QED
  BY <1>1, <1>2 DEF ServersAreBorn

LEMMA OneMoves ==
  ASSUME SetupInv, NEW c \in Components, SetupTypeOK', sys' = sys, srv' = srv,
         \A d \in Components \ {c} : Same(d),
         phase[c] = "unborn" <=> phase'[c] = "unborn",
         Holds(c)', SoleClient(c)'
  PROVE  SetupInv'
<1>1. ServersAreBorn'
  BY BornStay DEF SetupInv, Same
<1>2. \A d \in Components \ {c} : Holds(d)' /\ SoleClient(d)'
  BY SameHolds, SoleStays DEF SetupInv, Same
<1>3. QED
  BY <1>1, <1>2 DEF SetupInv

LEMMA TypesStay ==
  ASSUME SetupTypeOK, sys' = sys, srv' = srv, table' = table,
         phase' \in [Components ->
                     {"unborn", "serving", "calling", "running", "dead"}],
         pos' \in [Components -> (Nat \ {0}) \X (Nat \ {0})],
         bits' \in [Components -> Seq(Components \cup {"irq"})],
         chans' \in [Components ->
                     SUBSET [kind : {"bi", "recv"}, from : Nat,
                             peer : Components, to : Nat]],
         call' \in [Components -> CallType],
         faults' \in 0 .. sys.faults,
         \A d \in Components : Len(bits'[d]) >= Len(bits[d])
  PROVE  SetupTypeOK'
<1>1. \A d \in Components : /\ Len(Clients(d)') <= Places(Kind(d)')
                            /\ Len(bits[d]) \in Nat /\ Len(bits'[d]) \in Nat
  BY Typed DEF Clients, Kind
<1>2. \A d \in Components : \A e \in table'[d] :
        e.index \in 1 .. Len(bits'[d]) + 1
  <2>1. \A d \in Components : \A e \in table[d] :
          e.index \in 1 .. Len(bits[d]) + 1
    BY DEF SetupTypeOK
  <2>2. \A k, l \in Nat : k >= l => 1 .. l + 1 \subseteq 1 .. k + 1
    OBVIOUS
  <2>3. \A d \in Components :
          1 .. Len(bits[d]) + 1 \subseteq 1 .. Len(bits'[d]) + 1
    BY <1>1, <2>2
  <2>4. QED
    BY <2>1, <2>3
<1>3. QED
  BY <1>1, <1>2 DEF SetupTypeOK

LEMMA FaultsTyped ==
  ASSUME SetupTypeOK, sys' = sys, Fails \/ UNCHANGED faults
  PROVE  faults' \in 0 .. sys.faults
<1>1. sys.faults \in Nat /\ faults \in 0 .. sys.faults
  BY SetupAssumption DEF SetupTypeOK, SystemType
<1>2. QED
  BY <1>1 DEF Fails

(* What a client may ask for.                                              *)
LEMMA WantedShape ==
  ASSUME SetupTypeOK, NEW c \in Components, CallIsDue(c),
         pos[c][1] \in DOMAIN Links(c), NEW req \in Wanted(c)
  PROVE  /\ Target(c) \in Components
         /\ Kind(Target(c)) \in Kinds \ {"client", "blk_driver"}
         /\ req \in Handled(Kind(Target(c))) \cup {"open"}
         /\ req \in Requests \ {"ppcall"}
         /\ pos[c][2] = 1 => req = "open"
         /\ pos[c][2] \in Nat \ {0}
         /\ c \notin sys.unruly =>
              /\ req = Script(Kind(Target(c)))[pos[c][2]]
              /\ pos[c][2] \in 1 .. Len(Script(Kind(Target(c))))
              /\ req = "open" => pos[c][2] = 1
<1> DEFINE k == Kind(Target(c))
<1>1. Target(c) \in Components /\ k \in Kinds \ {"client", "blk_driver"}
  BY LinkLeads DEF Target
<1>2. pos[c][2] \in Nat \ {0}
  BY Typed
<1>3. /\ Script(k)[1] = "open" /\ Len(Script(k)) \in 2 .. 5
      /\ \A j \in 2 .. Len(Script(k)) : Script(k)[j] # "open"
  BY <1>1, ScriptShape
<1>4. Handled(k) \subseteq Requests \ {"open", "ppcall"}
  BY <1>1, HandledShape
<1>5. CASE c \notin sys.unruly
  <2>1. req = Script(k)[pos[c][2]]
    BY <1>5 DEF Wanted
  <2>2. pos[c][2] \in 1 .. Len(Script(k))
    BY <1>2, <1>3, <1>5 DEF CallIsDue
  <2>3. CASE pos[c][2] = 1
    BY <1>1, <1>2, <1>3, <2>1, <2>2, <2>3 DEF Requests
  <2>4. CASE pos[c][2] # 1
    <3>1. pos[c][2] \in 2 .. Len(Script(k))
      BY <1>3, <2>2, <2>4
    <3>2. req \in Handled(k) /\ req # "open"
      BY <1>3, <2>1, <3>1 DEF Handled
    <3>3. QED
      BY <1>1, <1>2, <1>4, <2>1, <2>2, <2>4, <3>2
  <2>5. QED
    BY <2>3, <2>4
<1>6. CASE c \in sys.unruly
  <2>1. CASE pos[c][2] = 1
    BY <1>1, <1>2, <1>3, <1>6, <2>1 DEF Wanted, Requests
  <2>2. CASE pos[c][2] # 1
    BY <1>1, <1>2, <1>4, <1>6, <2>2 DEF Wanted, Requests
  <2>3. QED
    BY <2>1, <2>2
<1>7. QED
  BY <1>5, <1>6

-----------------------------------------------------------------------------
(* What keeps a component's bits apart, when its channels stay.            *)
LEMMA BitsKept ==
  ASSUME NEW c, sys' = sys, srv'[c] = srv[c], chans'[c] = chans[c],
         BitsAreOwn(c),
         \A k : Reserved(c, k) => Reserved(c, k)',
         HasIrq(Kind(c)) /\ phase'[c] # "unborn" => Len(bits'[c]) >= 1,
         IsPending(c)' => /\ call'[c].bit = Len(bits'[c])
                          /\ call'[c].bit >= 1
                          /\ HasIrq(Kind(c)) => call'[c].bit >= 2
  PROVE  BitsAreOwn(c)'
<1>1. Kind(c)' = Kind(c) /\ Clients(c)' = Clients(c)
  BY DEF Kind, Clients
<1>2. \A n : Filed(c, n)' <=> Filed(c, n)
  BY <1>1 DEF Filed
<1>3. QED
  BY <1>1, <1>2 DEF BitsAreOwn

LEMMA NoCallTyped ==
  /\ NoCall \in CallType
  /\ NoCall.answer = Nothing /\ NoCall.to = Nothing /\ NoCall.req = Nothing
  /\ \A s \in Components : \A req, virt, bit, shared :
       Asking(s, req, virt, bit, shared) # NoCall
  /\ NoCall.shared = FALSE
  /\ Nothing \notin Components \cup Answers \cup Requests \cup Virts
BY SetupAssumption DEF NoCall, Asking, CallType

(* Whoever is calling calls the server that is next.                       *)
LEMMA CallLeads ==
  ASSUME SetupInv, NEW c \in Components, call[c] # NoCall, phase[c] = "calling"
  PROVE  /\ pos[c][1] \in DOMAIN Links(c)
         /\ Target(c) \in Components /\ call[c].to = Target(c)
         /\ Kind(Target(c)) \in Kinds \ {"client", "blk_driver"}
         /\ call[c].req \in Wanted(c)
         /\ call[c].req \in Handled(Kind(Target(c))) \cup {"open"}
         /\ call[c].req \in Requests \ {"ppcall"}
         /\ Kind(c) # "timer"
<1>1. SetupTypeOK /\ CallIsDue(c)
  BY DEF SetupInv, Holds
<1>2. /\ pos[c][1] \in DOMAIN Links(c)
      /\ call[c].to = Target(c) /\ call[c].req \in Wanted(c)
  BY <1>1 DEF CallIsDue
<1>3. Kind(c) # "timer"
  BY <1>1, <1>2, LinkLeads
<1>4. QED
  BY <1>1, <1>2, <1>3, WantedShape

LEMMA Dying ==
  ASSUME SetupInv, NEW c \in Components, phase[c] # "unborn",
         phase' = [phase EXCEPT ![c] = "dead"],
         call' = call \/ call' = [call EXCEPT ![c] = NoCall],
         call'[c] = NoCall \/ phase[c] = "running",
         Fails \/ UNCHANGED faults,
         UNCHANGED <<sys, pos, srv, bits, chans, table>>
  PROVE  SetupInv'
<1>1. SetupTypeOK /\ Holds(c) /\ SoleClient(c)
  BY DEF SetupInv
<1>2. /\ phase' \in [Components ->
                     {"unborn", "serving", "calling", "running", "dead"}]
      /\ phase'[c] = "dead"
      /\ \A d \in Components \ {c} : phase'[d] = phase[d]
  BY <1>1 DEF SetupTypeOK
<1>3. /\ call' \in [Components -> CallType]
      /\ call'[c] \in {call[c], NoCall}
      /\ \A d \in Components \ {c} : call'[d] = call[d]
  <2>1. call \in [Components -> CallType] /\ NoCall \in CallType
    BY <1>1, NoCallTyped DEF SetupTypeOK
  <2>2. CASE call' = [call EXCEPT ![c] = NoCall]
    BY <2>1, <2>2, UpdateTyped
  <2>3. QED
    BY <2>1, <2>2
<1>4. SetupTypeOK'
  <2>1. \A d \in Components : Len(bits'[d]) >= Len(bits[d])
    BY <1>1, Typed
  <2>2. faults' \in 0 .. sys.faults
    BY <1>1, FaultsTyped
  <2>3. QED
    BY <1>1, <1>2, <1>3, <2>1, <2>2, TypesStay DEF SetupTypeOK
<1>5. Fresh(c)'
  BY <1>1, <1>2 DEF Holds, Fresh, Past, Kind, Clients, Members
<1>6. CallIsDue(c)'
  <2>1. Links(c)' = Links(c) /\ Target(c)' = Target(c)
        /\ \A d : Kind(d)' = Kind(d)
    BY DEF Links, Target, Kind
  <2>2. call'[c] # NoCall => call'[c].req = "ppcall"
    BY <1>1, <1>3 DEF Holds, CallIsDue
  <2>3. call'[c].shared => c \in sys.unruly
    BY <1>1, <1>3, NoCallTyped DEF Holds, CallIsDue
  <2>4. QED
    BY <1>1, <1>2, <2>1, <2>2, <2>3 DEF Holds, CallIsDue
<1>7. RecordsAreSound(c)'
  BY <1>1, RecordsStay DEF Holds
<1>8. BitsAreOwn(c)'
  <2>1. IsPending(c)' => IsPending(c) /\ call'[c] = call[c]
    BY <1>3 DEF IsPending
  <2>2. \A k : Reserved(c, k) => Reserved(c, k)'
    BY <2>1 DEF Reserved, Kind
  <2>3. QED
    BY <1>1, <2>1, <2>2, BitsKept DEF Holds, BitsAreOwn
<1>9. SoleClient(c)'
  BY <1>2 DEF SoleClient
<1>10. QED
  BY <1>2, <1>3, <1>4, <1>5, <1>6, <1>7, <1>8, <1>9, OneMoves DEF Holds, Same

LEMMA RequestSteps ==
  ASSUME SetupInv, NEW c \in Members, NEW req, Request(c, req)
  PROVE  SetupInv'
<1>1. /\ SetupTypeOK /\ c \in Components /\ Holds(c) /\ SoleClient(c)
      /\ UNCHANGED <<sys, phase, pos, srv, chans, table, faults>>
      /\ phase[c] = "calling" /\ call[c] = NoCall /\ req \in Wanted(c)
  BY MembersAreComponents DEF SetupInv, Request, Ready
<1>2. pos[c][1] \in DOMAIN Links(c)
  BY <1>1, Typed DEF Request, Ready
<1>3. /\ Target(c) \in Components /\ req \in Requests \ {"ppcall"}
      /\ Nothing \notin Requests
  BY <1>1, <1>2, WantedShape, SetupAssumption DEF Holds
<1>4. PICK virt \in IF req = "channel" THEN Types(c) ELSE {Nothing},
           shared \in Buffers(c, req) :
        call' = [call EXCEPT ![c] =
                   Asking(Target(c), req, virt, Len(bits'[c]), shared)]
  BY DEF Request
<1>5. virt \in Virts \cup {Nothing} /\ shared \in BOOLEAN
      /\ (shared => c \in sys.unruly)
  <2>1. Links(c)[pos[c][1]].virt \in Virts \cup {Nothing}
    BY <1>1, <1>2, LinkLeads
  <2>2. QED
    BY <1>4, <2>1 DEF Types, Buffers
<1>6. /\ bits' \in [Components -> Seq(Components \cup {"irq"})]
      /\ bits'[c] = IF IsChannel(req) THEN Append(bits[c], Target(c))
                    ELSE bits[c]
      /\ \A d \in Components \ {c} : bits'[d] = bits[d]
  <2>1. bits[c] \in Seq(Components \cup {"irq"})
    BY <1>1, Typed
  <2>2. (IF IsChannel(req) THEN Append(bits[c], Target(c)) ELSE bits[c])
          \in Seq(Components \cup {"irq"})
    BY <1>3, <2>1
  <2>3. QED
    BY <1>1, <2>2, UpdateTyped DEF Request, SetupTypeOK
<1>7. /\ Len(bits[c]) \in Nat
      /\ Len(bits'[c]) = IF IsChannel(req) THEN Len(bits[c]) + 1
                         ELSE Len(bits[c])
  BY <1>1, <1>3, <1>6, Typed
<1>8. /\ call' \in [Components -> CallType]
      /\ call'[c] = Asking(Target(c), req, virt, Len(bits'[c]), shared)
      /\ call'[c] # NoCall
      /\ \A d \in Components \ {c} : call'[d] = call[d]
  <2>1. Asking(Target(c), req, virt, Len(bits'[c]), shared) \in CallType
    BY <1>3, <1>5, <1>7 DEF Asking, CallType
  <2>2. QED
    BY <1>1, <1>3, <1>4, <2>1, NoCallTyped DEF SetupTypeOK
<1>9. SetupTypeOK'
  <2>1. \A d \in Components : Len(bits[d]) \in Nat
    BY <1>1, Typed
  <2>2. /\ Len(bits'[c]) >= Len(bits[c])
        /\ \A d \in Components \ {c} : Len(bits'[d]) = Len(bits[d])
    BY <1>6, <1>7
  <2>3. \A d \in Components : Len(bits'[d]) >= Len(bits[d])
    BY <2>1, <2>2
  <2>4. QED
    BY <1>1, <1>6, <1>8, <2>3, TypesStay DEF SetupTypeOK
<1>10. Links(c)' = Links(c) /\ Target(c)' = Target(c) /\ Wanted(c)' = Wanted(c)
       /\ \A d : Kind(d)' = Kind(d) /\ Clients(d)' = Clients(d)
  BY <1>1 DEF Links, Target, Kind, Clients, Wanted
<1>11. call'[c].to = Target(c) /\ call'[c].req = req
       /\ call'[c].bit = Len(bits'[c]) /\ call'[c].answer = Nothing
       /\ call'[c].shared = shared
  BY <1>8 DEF Asking
<1>12. Fresh(c)'
  BY <1>1, <1>10 DEF Holds, Fresh, Past, Members
<1>13. CallIsDue(c)'
  BY <1>1, <1>2, <1>5, <1>10, <1>11 DEF Holds, CallIsDue
<1>14. RecordsAreSound(c)'
  BY <1>1, RecordsStay DEF Holds
<1>15. BitsAreOwn(c)'
  <2>1. ~IsPending(c)
    BY <1>1 DEF IsPending
  <2>2. IsPending(c)' <=> IsChannel(req)
    BY <1>8, <1>11 DEF IsPending
  <2>3. \A k : Reserved(c, k) => Reserved(c, k)'
    BY <1>7, <1>10, <1>11, <2>2 DEF Reserved
  <2>4. HasIrq(Kind(c)) => Len(bits[c]) >= 1
    BY <1>1 DEF Holds, BitsAreOwn
  <2>5. HasIrq(Kind(c)) => Len(bits'[c]) >= 1
    BY <1>7, <2>4
  <2>6. IsPending(c)' => /\ call'[c].bit >= 1
                         /\ HasIrq(Kind(c)) => call'[c].bit >= 2
    BY <1>7, <1>11, <2>2, <2>4
  <2>7. QED
    BY <1>1, <1>11, <2>3, <2>5, <2>6, BitsKept DEF Holds
<1>16. SoleClient(c)'
  <2>1. Nothing \notin {"ok", "error"}
    BY SetupAssumption DEF Answers
  <2>2. QED
    BY <1>1, <1>10, <1>11, <2>1 DEF SoleClient
<1>17. QED
  BY <1>1, <1>6, <1>8, <1>9, <1>12, <1>13, <1>14, <1>15, <1>16, OneMoves
  DEF Holds, Same

LEMMA RequestFailsSteps ==
  ASSUME SetupInv, NEW c \in Members, NEW req, RequestFails(c, req)
  PROVE  SetupInv'
<1>1. c \in Components /\ phase[c] = "calling" /\ call[c] = NoCall
  BY MembersAreComponents DEF SetupInv, RequestFails, Ready
<1>2. /\ phase' = [phase EXCEPT ![c] = "dead"] /\ call' = call
      /\ Fails \/ UNCHANGED faults
      /\ UNCHANGED <<sys, pos, srv, bits, chans, table>>
  BY DEF RequestFails, Dies
<1>3. QED
  BY <1>1, <1>2, Dying

LEMMA GiveUpSteps ==
  ASSUME SetupInv, NEW c \in Members, GiveUp(c)
  PROVE  SetupInv'
<1>1. c \in Components /\ phase[c] = "calling"
  BY MembersAreComponents DEF SetupInv, GiveUp, Answered
<1>2. /\ phase' = [phase EXCEPT ![c] = "dead"]
      /\ call' = [call EXCEPT ![c] = NoCall]
      /\ Fails \/ UNCHANGED faults
      /\ UNCHANGED <<sys, pos, srv, bits, chans, table>>
  BY DEF GiveUp, Dies
<1>3. call'[c] = NoCall
  BY <1>1, <1>2 DEF SetupInv, SetupTypeOK
<1>4. QED
  BY <1>1, <1>2, <1>3, Dying

(* Where a client goes on.                                                 *)
LEMMA OnwardShape ==
  ASSUME SetupTypeOK, NEW c \in Components, CallIsDue(c),
         pos[c][1] \in DOMAIN Links(c)
  PROVE  /\ Onward(c) \in (Nat \ {0}) \X (Nat \ {0})
         /\ \/ /\ Onward(c)[1] = pos[c][1] /\ Onward(c)[2] = pos[c][2] + 1
               /\ c \notin sys.unruly =>
                    Onward(c)[2] <= Len(Script(Kind(Target(c))))
            \/ /\ Onward(c)[1] = pos[c][1] + 1 /\ Onward(c)[2] = 1
               /\ c \notin sys.unruly =>
                    pos[c][2] = Len(Script(Kind(Target(c))))
<1>1. pos[c][1] \in Nat \ {0} /\ pos[c][2] \in Nat \ {0}
  BY Typed
<1>2. Len(Script(Kind(Target(c)))) \in 2 .. 5
  <2>1. Kind(Target(c)) \in Kinds \ {"client"}
    BY LinkLeads DEF Target
  <2>2. QED
    BY <2>1, ScriptShape
<1>3. c \notin sys.unruly => pos[c][2] <= Len(Script(Kind(Target(c))))
  BY DEF CallIsDue
<1>4. QED
  BY <1>1, <1>2, <1>3 DEF Onward

LEMMA ProceedSteps ==
  ASSUME SetupInv, NEW c \in Members, Proceed(c)
  PROVE  SetupInv'
<1>1. /\ SetupTypeOK /\ c \in Components /\ Holds(c) /\ SoleClient(c)
      /\ UNCHANGED <<sys, phase, srv, bits, table, faults>>
      /\ phase[c] = "calling" /\ call[c].answer # Nothing
  BY MembersAreComponents DEF SetupInv, Proceed, Answered
<1>2. call[c] # NoCall
  BY <1>1, NoCallTyped
<1>3. /\ pos[c][1] \in DOMAIN Links(c) /\ Target(c) \in Components
      /\ call[c].to = Target(c) /\ Kind(c) # "timer"
  BY <1>1, <1>2, CallLeads
<1>4. /\ call' \in [Components -> CallType] /\ call'[c] = NoCall
      /\ \A d \in Components \ {c} : call'[d] = call[d]
  BY <1>1, NoCallTyped, UpdateTyped DEF Proceed, SetupTypeOK
<1>5. CallIsDue(c)
  BY <1>1 DEF Holds
<1>6. /\ Onward(c) \in (Nat \ {0}) \X (Nat \ {0})
      /\ \/ /\ Onward(c)[1] = pos[c][1] /\ Onward(c)[2] = pos[c][2] + 1
            /\ c \notin sys.unruly =>
                 Onward(c)[2] <= Len(Script(Kind(Target(c))))
         \/ Onward(c)[1] = pos[c][1] + 1 /\ Onward(c)[2] = 1
  BY <1>1, <1>3, <1>5, OnwardShape
<1>7. /\ pos' \in [Components -> (Nat \ {0}) \X (Nat \ {0})]
      /\ pos'[c] = Onward(c)
      /\ \A d \in Components \ {c} : pos'[d] = pos[d]
  BY <1>1, <1>6, UpdateTyped DEF Proceed, SetupTypeOK
<1>8. call[c] \in CallType
  BY <1>1, Typed
<1>9. Channel(c) \in [kind : {"bi", "recv"}, from : Nat,
                      peer : Components, to : Nat]
  BY <1>3, <1>8 DEF Channel, CallType
<1>10. /\ chans' \in [Components ->
                      SUBSET [kind : {"bi", "recv"}, from : Nat,
                              peer : Components, to : Nat]]
       /\ chans'[c] = IF IsChannel(call[c].req) /\ call[c].answer = "ok"
                      THEN chans[c] \cup {Channel(c)} ELSE chans[c]
       /\ \A d \in Components \ {c} : chans'[d] = chans[d]
  <2> DEFINE T == [kind : {"bi", "recv"}, from : Nat,
                   peer : Components, to : Nat]
             v == IF IsChannel(call[c].req) /\ call[c].answer = "ok"
                  THEN chans[c] \cup {Channel(c)} ELSE chans[c]
  <2>1. chans \in [Components -> SUBSET T] /\ Channel(c) \in T
    BY <1>1, <1>9 DEF SetupTypeOK
  <2> HIDE DEF T
  <2>2. v \in SUBSET T
    BY <1>1, <2>1
  <2>3. chans' = [chans EXCEPT ![c] = v]
    BY DEF Proceed
  <2> HIDE DEF v
  <2>4. /\ chans' \in [Components -> SUBSET T] /\ chans'[c] = v
        /\ \A d \in Components \ {c} : chans'[d] = chans[d]
    BY <1>1, <2>1, <2>2, <2>3
  <2>5. QED
    BY <2>4 DEF T, v
<1>11. SetupTypeOK'
  <2>1. \A d \in Components : Len(bits'[d]) >= Len(bits[d])
    BY <1>1, Typed
  <2>2. QED
    BY <1>1, <1>4, <1>7, <1>10, <2>1, TypesStay DEF SetupTypeOK
<1>12. /\ Links(c)' = Links(c) /\ \A d : Kind(d)' = Kind(d)
       /\ \A d : Clients(d)' = Clients(d)
  BY <1>1 DEF Links, Kind, Clients
<1>13. Fresh(c)'
  BY <1>1, <1>3, <1>12 DEF Holds, Fresh, Past, Members
<1>14. pos'[c][1] = pos[c][1] => Target(c)' = Target(c)
  BY <1>12 DEF Target
<1>15. CallIsDue(c)'
  <2>1. SUFFICES ASSUME pos'[c][1] \in DOMAIN Links(c), c \notin sys.unruly
                 PROVE  pos'[c][2] <= Len(Script(Kind(Target(c)')))
    BY <1>1, <1>4, <1>12, NoCallTyped DEF CallIsDue
  <2>2. CASE pos'[c][1] = pos[c][1] /\ pos'[c][2] = pos[c][2] + 1
    <3>1. pos[c][1] \in Nat /\ pos[c][2] \in Nat
      BY <1>1, Typed
    <3>2. Onward(c)[2] <= Len(Script(Kind(Target(c))))
      BY <1>6, <1>7, <2>1, <2>2, <3>1
    <3>3. QED
      BY <1>7, <1>14, <2>2, <3>2
  <2>3. CASE pos'[c][2] = 1
    <3>1. PICK k : k = Kind(Target(c)')
      OBVIOUS
    <3>2. k \in Kinds \ {"client"}
      <4>1. Target(c)' = Links(c)[pos'[c][1]].to
        BY <1>12 DEF Target
      <4>2. QED
        BY <1>1, <2>1, <3>1, <4>1, LinkLeads
    <3>3. 1 <= Len(Script(k))
      BY <3>2, ScriptShape
    <3>4. QED
      BY <2>3, <3>1, <3>3
  <2>4. QED
    BY <1>6, <1>7, <2>2, <2>3
<1>16. RecordsAreSound(c)'
  BY <1>1, RecordsStay DEF Holds
<1>17. BitsAreOwn(c)'
  <2>1. BitsAreOwn(c)
    BY <1>1 DEF Holds
  <2>2. ~IsPending(c)'
    BY <1>4 DEF IsPending
  <2>3. \A k : Reserved(c, k) => Reserved(c, k)'
    BY <1>1, <1>12, <2>2 DEF Reserved
  <2>4. CASE chans'[c] = chans[c]
    BY <1>1, <1>12, <2>1, <2>2, <2>3, <2>4, BitsKept DEF BitsAreOwn
  <2>5. CASE IsPending(c) /\ chans'[c] = chans[c] \cup {Channel(c)}
    <3>1. Channel(c).from = call[c].bit
      BY DEF Channel
    <3>2. /\ call[c].bit = Len(bits[c]) /\ call[c].bit >= 1
          /\ HasIrq(Kind(c)) => call[c].bit >= 2
      BY <2>1, <2>5 DEF BitsAreOwn
    <3>3. call[c].bit \in Nat
      BY <1>8 DEF CallType
    <3>4. /\ call[c].bit \in 1 .. Len(bits[c])
          /\ HasIrq(Kind(c)) => call[c].bit # 1
      <4>1. \A k \in Nat : (k >= 1 => k \in 1 .. k) /\ (k >= 2 => k # 1)
        OBVIOUS
      <4>2. QED
        BY <3>2, <3>3, <4>1
    <3>5. PICK h : h = Channel(c)
      OBVIOUS
    <3>6. chans'[c] = chans[c] \cup {h} /\ h.from = call[c].bit
      BY <2>5, <3>1, <3>5
    <3>7. Reserved(c, h.from)'
      BY <1>1, <1>12, <2>2, <3>4, <3>6 DEF Reserved
    <3>8. \A k : Reserved(c, k) => k # h.from
      BY <2>5, <3>6 DEF Reserved
    <3>9. /\ \A n : Filed(c, n)' <=> Filed(c, n)
          /\ Clients(c)' = Clients(c) /\ Kind(c)' = Kind(c)
      BY <1>12 DEF Filed
    <3>10. QED
      BY <1>1, <2>1, <2>2, <2>3, <3>6, <3>7, <3>8, <3>9 DEF BitsAreOwn
  <2>6. QED
    BY <1>2, <1>10, <2>4, <2>5 DEF IsPending
<1>18. SoleClient(c)'
  <2>1. SUFFICES ASSUME pos'[c][1] \in DOMAIN Links(c),
                        OneClient(Kind(Target(c)')), pos'[c][2] > 1
                 PROVE  /\ Clients(Target(c)') # <<>>
                        /\ Clients(Target(c)')[1].id = c
    BY <1>4, <1>12, NoCallTyped, SetupAssumption DEF SoleClient, Answers
  <2>2. pos'[c][1] = pos[c][1] /\ Target(c)' = Target(c)
    BY <1>6, <1>7, <1>14, <2>1
  <2>3. call[c].answer \in {"ok", "error"}
    BY DEF Proceed
  <2>4. QED
    BY <1>1, <1>3, <2>1, <2>2, <2>3 DEF SoleClient
<1>19. QED
  BY <1>1, <1>4, <1>7, <1>10, <1>11, <1>13, <1>15, <1>16, <1>17, <1>18,
     OneMoves
  DEF Holds, Same

LEMMA PpcallSteps ==
  ASSUME SetupInv, NEW c \in Members, Ppcall(c)
  PROVE  SetupInv'
<1>1. /\ SetupTypeOK /\ c \in Components /\ Holds(c) /\ SoleClient(c)
      /\ UNCHANGED <<sys, phase, pos, srv, bits, chans, table, faults>>
      /\ phase[c] = "running" /\ call[c] = NoCall
  BY MembersAreComponents DEF SetupInv, Ppcall
<1>2. PICK e \in table[c] :
        call' = [call EXCEPT ![c] =
                   Asking(e.peer, "ppcall", Nothing, 0, FALSE)]
  BY DEF Ppcall
<1>3. Asking(e.peer, "ppcall", Nothing, 0, FALSE) \in CallType
  <2>1. e.peer \in Components \cup {Nothing}
    BY <1>1, <1>2 DEF SetupTypeOK
  <2>2. QED
    BY <2>1 DEF Asking, CallType, Requests
<1>4. /\ call' \in [Components -> CallType]
      /\ call'[c] = Asking(e.peer, "ppcall", Nothing, 0, FALSE)
      /\ \A d \in Components \ {c} : call'[d] = call[d]
  BY <1>1, <1>2, <1>3 DEF SetupTypeOK
<1>5. call'[c].req = "ppcall" /\ ~IsChannel("ppcall") /\ ~call'[c].shared
  BY <1>4 DEF Asking, IsChannel
<1>6. SetupTypeOK'
  <2>1. \A d \in Components : Len(bits'[d]) >= Len(bits[d])
    BY <1>1, Typed
  <2>2. QED
    BY <1>1, <1>4, <2>1, TypesStay DEF SetupTypeOK
<1>7. /\ Links(c)' = Links(c) /\ Target(c)' = Target(c)
      /\ \A d : Kind(d)' = Kind(d) /\ Clients(d)' = Clients(d)
  BY <1>1 DEF Links, Target, Kind, Clients
<1>8. Fresh(c)'
  BY <1>1, <1>7 DEF Holds, Fresh, Past, Members
<1>9. CallIsDue(c)'
  BY <1>1, <1>5, <1>7 DEF Holds, CallIsDue
<1>10. RecordsAreSound(c)'
  BY <1>1, RecordsStay DEF Holds
<1>11. BitsAreOwn(c)'
  <2>1. ~IsPending(c)'
    BY <1>5 DEF IsPending
  <2>2. \A k : Reserved(c, k) => Reserved(c, k)'
    BY <1>1, <1>7, <2>1 DEF Reserved
  <2>3. QED
    BY <1>1, <2>1, <2>2, BitsKept DEF Holds, BitsAreOwn
<1>12. SoleClient(c)'
  BY <1>1 DEF SoleClient
<1>13. QED
  BY <1>1, <1>4, <1>6, <1>8, <1>9, <1>10, <1>11, <1>12, OneMoves
  DEF Holds, Same

LEMMA StartSteps ==
  ASSUME SetupInv, NEW c \in Members, Start(c)
  PROVE  SetupInv'
<1>1. /\ SetupTypeOK /\ c \in Components /\ Holds(c) /\ ServersAreBorn
      /\ UNCHANGED <<sys, pos, srv, chans, table, call, faults>>
      /\ phase[c] = "unborn"
  BY MembersAreComponents DEF SetupInv, Start
<1>2. /\ phase' \in [Components ->
                     {"unborn", "serving", "calling", "running", "dead"}]
      /\ phase'[c] = IF Kind(c) = "client" THEN "calling" ELSE "serving"
      /\ \A d \in Components \ {c} : phase'[d] = phase[d]
  BY <1>1 DEF Start, SetupTypeOK
<1>3. /\ bits' \in [Components -> Seq(Components \cup {"irq"})]
      /\ bits'[c] = IF HasIrq(Kind(c)) THEN <<"irq">> ELSE <<>>
      /\ \A d \in Components \ {c} : bits'[d] = bits[d]
  <2>1. /\ <<"irq">> \in Seq(Components \cup {"irq"})
        /\ <<>> \in Seq(Components \cup {"irq"})
    OBVIOUS
  <2>2. (IF HasIrq(Kind(c)) THEN <<"irq">> ELSE <<>>)
          \in Seq(Components \cup {"irq"})
    BY <2>1, Zenon
  <2>3. QED
    BY <1>1, <2>2, UpdateTyped DEF Start, SetupTypeOK
<1>4. /\ bits[c] = <<>> /\ call[c] = NoCall /\ pos[c] = <<1, 1>>
      /\ chans[c] = {} /\ table[c] = {} /\ Clients(c) = <<>>
  BY <1>1 DEF Holds, Fresh
<1>5. SetupTypeOK'
  <2>1. \A d \in Components : Len(bits[d]) \in Nat
    BY <1>1, Typed
  <2>2. Len(bits'[c]) >= Len(bits[c])
    BY <1>3, <1>4
  <2>3. \A d \in Components \ {c} : Len(bits'[d]) = Len(bits[d])
    BY <1>3
  <2>4. \A d \in Components : Len(bits'[d]) >= Len(bits[d])
    BY <2>1, <2>2, <2>3
  <2>5. QED
    BY <1>1, <1>2, <1>3, <2>4, TypesStay DEF SetupTypeOK
<1>6. /\ \A d : Links(d)' = Links(d) /\ Kind(d)' = Kind(d)
      /\ \A d : Clients(d)' = Clients(d)
      /\ Members' = Members
  BY <1>1 DEF Links, Kind, Clients, Members
<1>7. Fresh(c)'
  BY <1>1, <1>2, <1>4, <1>6 DEF Fresh, Past
<1>8. CallIsDue(c)'
  <2>1. call'[c] = NoCall /\ pos'[c] = <<1, 1>>
    BY <1>1, <1>4
  <2>2. ASSUME 1 \in DOMAIN Links(c)
        PROVE  1 <= Len(Script(Kind(Links(c)[1].to)))
    <3>1. Kind(Links(c)[1].to) \in Kinds \ {"client"}
      BY <1>1, <2>2, LinkLeads
    <3>2. QED
      BY <3>1, ScriptShape
  <2>3. QED
    BY <1>6, <2>1, <2>2, NoCallTyped DEF CallIsDue, Target
<1>9. RecordsAreSound(c)'
  BY <1>1, RecordsStay DEF Holds
<1>10. BitsAreOwn(c)'
  <2>1. ~IsPending(c)' /\ Clients(c)' = <<>> /\ chans'[c] = {}
    BY <1>1, <1>4, <1>6 DEF IsPending
  <2>2. HasIrq(Kind(c)) => Len(bits'[c]) >= 1
    BY <1>3
  <2>3. QED
    BY <1>6, <2>1, <2>2 DEF BitsAreOwn
<1>11. SoleClient(c)'
  <2>1. call'[c].answer = Nothing /\ pos'[c][2] = 1
    BY <1>1, <1>4, NoCallTyped
  <2>2. Nothing \notin {"ok", "error"}
    BY SetupAssumption DEF Answers
  <2>3. QED
    BY <2>1, <2>2 DEF SoleClient
<1>12. ServersAreBorn'
  <2>1. PICK n \in 1 .. Len(sys.order) :
          /\ sys.order[n] = c
          /\ \A m \in 1 .. n - 1 : phase[sys.order[m]] # "unborn"
    BY DEF Start
  <2>2. n \in DOMAIN sys.order
    BY <1>1, <2>1, Typed
  <2>3. \A j \in DOMAIN Links(c) : phase[Links(c)[j].to] # "unborn"
    <3>1. \A j \in DOMAIN Links(c) : \E m \in 1 .. n - 1 :
            sys.order[m] = Links(c)[j].to
      <4>1. IsBootable(sys)
        BY <1>1, Typed
      <4>2. \A k \in DOMAIN sys.order :
              \A j \in DOMAIN sys.links[sys.order[k]] :
                \E m \in 1 .. k - 1 :
                  sys.order[m] = sys.links[sys.order[k]][j].to
        BY <4>1 DEF IsBootable
      <4>3. QED
        BY <2>1, <2>2, <4>2 DEF Links
    <3>2. QED
      BY <2>1, <3>1
  <2>4. \A d \in Components : phase[d] # "unborn" => phase'[d] # "unborn"
    BY <1>1, <1>2
  <2>5. \A d \in Members : \A j \in DOMAIN Links(d) :
          Links(d)[j].to \in Components
    BY <1>1, MembersAreComponents, LinkLeads
  <2>6. ASSUME NEW d \in Members, phase'[d] # "unborn",
               NEW j \in DOMAIN Links(d)
        PROVE  phase'[Links(d)[j].to] # "unborn"
    <3>1. phase[Links(d)[j].to] # "unborn"
      BY <1>1, <1>2, <2>3, <2>6, MembersAreComponents DEF ServersAreBorn
    <3>2. QED
      BY <2>4, <2>5, <2>6, <3>1
  <2>7. QED
    BY <1>6, <2>6 DEF ServersAreBorn
<1>13. \A d \in Components \ {c} : Holds(d)' /\ SoleClient(d)'
  <2>1. \A d \in Components \ {c} : Same(d)
    BY <1>1, <1>2, <1>3 DEF Same
  <2>2. QED
    BY <1>1, <2>1, SameHolds, SoleStays DEF SetupInv, Same
<1>14. QED
  BY <1>5, <1>7, <1>8, <1>9, <1>10, <1>11, <1>12, <1>13 DEF SetupInv, Holds

(* What the table is filled with.                                          *)
LEMMA EntriesTyped ==
  ASSUME SetupInv, NEW c \in Components, phase[c] = "calling", CanSet(c),
         NEW e \in Entries(c)
  PROVE  /\ e \in [index : Nat, kind : {"irq", "bi", "send", "recv"},
                   peer : Components \cup {Nothing}, to : Nat]
         /\ e.index \in 1 .. Len(bits[c]) + 1
<1>1. /\ SetupTypeOK /\ BitsAreOwn(c) /\ Len(bits[c]) \in Nat
      /\ Clients(c) \in Seq(ClientType)
  BY Typed DEF SetupInv, Holds
<1>2. CASE e = OfIrq
  BY <1>1, <1>2 DEF OfIrq
<1>3. ASSUME NEW n \in Served(c), e = OfClient(c, n)
      PROVE  /\ e \in [index : Nat, kind : {"irq", "bi", "send", "recv"},
                       peer : Components \cup {Nothing}, to : Nat]
             /\ e.index \in 1 .. Len(bits[c]) + 1
  <2>1. n \in DOMAIN Clients(c) /\ Clients(c)[n].chan # NoChan
    BY <1>3 DEF Served, CanSet
  <2>2. Clients(c)[n].chan \in ChanType
    <3>1. Clients(c)[n] \in ClientType
      BY <1>1, <2>1, ElementTyped
    <3>2. QED
      BY <3>1 DEF ClientType
  <2>3. CASE Kind(c) = "timer"
    <3>1. Len(bits[c]) >= 1
      BY <1>1, <2>3 DEF BitsAreOwn, HasIrq
    <3>2. 2 \in 1 .. Len(bits[c]) + 1
      BY <1>1, <3>1
    <3>3. QED
      BY <1>3, <2>2, <2>3, <3>2 DEF OfClient, TimerChannel, ChanType
  <2>4. CASE Kind(c) # "timer"
    <3>1. Clients(c)[n].chan.from \in 1 .. Len(bits[c])
      BY <1>1, <2>1, <2>4 DEF BitsAreOwn, Filed, Reserved
    <3>2. Clients(c)[n].chan.from \in 1 .. Len(bits[c]) + 1
      BY <1>1, <3>1
    <3>3. QED
      BY <1>3, <2>2, <2>4, <3>2 DEF OfClient, ChanType
  <2>5. QED
    BY <2>3, <2>4
<1>4. ASSUME NEW ch \in chans[c], e = OfServer(ch)
      PROVE  /\ e \in [index : Nat, kind : {"irq", "bi", "send", "recv"},
                       peer : Components \cup {Nothing}, to : Nat]
             /\ e.index \in 1 .. Len(bits[c]) + 1
  <2>1. ch \in [kind : {"bi", "recv"}, from : Nat, peer : Components, to : Nat]
    BY <1>1, <1>4 DEF SetupTypeOK
  <2>2. ch.from \in 1 .. Len(bits[c])
    BY <1>1, <1>4 DEF BitsAreOwn, Reserved
  <2>3. ch.from \in 1 .. Len(bits[c]) + 1
    BY <1>1, <2>2
  <2>4. QED
    BY <1>4, <2>1, <2>3 DEF OfServer
<1>5. QED
  BY <1>2, <1>3, <1>4 DEF Entries

LEMMA SetChannelsSteps ==
  ASSUME SetupInv, NEW c \in Members, SetChannels(c)
  PROVE  SetupInv'
<1>1. /\ SetupTypeOK /\ c \in Components /\ Holds(c) /\ SoleClient(c)
      /\ UNCHANGED <<sys, pos, srv, bits, chans, call, faults>>
      /\ phase[c] = "calling"
  BY MembersAreComponents DEF SetupInv, SetChannels, AllCalled
<1>2. call[c] = NoCall
  <2>1. pos[c][1] > Len(Links(c)) /\ pos[c][1] \in Nat
    BY <1>1, Typed DEF SetChannels, AllCalled
  <2>2. pos[c][1] \notin DOMAIN Links(c)
    BY <1>1, <2>1, Typed
  <2>3. QED
    BY <1>1, <2>2 DEF Holds, CallIsDue
<1>3. CASE ~CanSet(c)
  BY <1>1, <1>2, <1>3, Dying DEF SetChannels, Dies
<1>4. CASE CanSet(c)
  <2>1. /\ phase' \in [Components ->
                       {"unborn", "serving", "calling", "running", "dead"}]
        /\ phase'[c] = "running"
        /\ \A d \in Components \ {c} : phase'[d] = phase[d]
    BY <1>1, <1>4 DEF SetChannels, SetupTypeOK
  <2> DEFINE T == [index : Nat, kind : {"irq", "bi", "send", "recv"},
                   peer : Components \cup {Nothing}, to : Nat]
  <2>2. Entries(c) \in SUBSET T
    BY <1>1, <1>4, EntriesTyped
  <2>3. /\ table' \in [Components -> SUBSET T] /\ table'[c] = Entries(c)
        /\ \A d \in Components \ {c} : table'[d] = table[d]
    <3>1. table \in [Components -> SUBSET T]
      BY <1>1 DEF SetupTypeOK
    <3>2. table' = [table EXCEPT ![c] = Entries(c)]
      BY <1>4 DEF SetChannels
    <3> HIDE DEF T
    <3>3. QED
      BY <1>1, <2>2, <3>1, <3>2, UpdateTyped
  <2>4. \A d \in Components : \A e \in table'[d] :
          e.index \in 1 .. Len(bits[d]) + 1
    BY <1>1, <1>4, <2>3, EntriesTyped DEF SetupTypeOK
  <2>5. \A d : Kind(d)' = Kind(d) /\ Clients(d)' = Clients(d)
    BY <1>1 DEF Kind, Clients
  <2>6. SetupTypeOK'
    BY <1>1, <2>1, <2>3, <2>4, <2>5 DEF SetupTypeOK
  <2>7. Fresh(c)'
    BY <1>1, <2>1, <2>5 DEF Holds, Fresh, Past, Members
  <2>8. CallIsDue(c)'
    BY <1>1, <1>2 DEF Holds, CallIsDue, Links, Target, Kind
  <2>9. RecordsAreSound(c)'
    BY <1>1, RecordsStay DEF Holds
  <2>10. BitsAreOwn(c)'
    <3>1. ~IsPending(c) /\ (IsPending(c)' <=> IsPending(c))
      BY <1>1, <1>2 DEF IsPending
    <3>2. \A k : Reserved(c, k) => Reserved(c, k)'
      BY <1>1, <2>5, <3>1 DEF Reserved
    <3>3. QED
      BY <1>1, <2>1, <3>1, <3>2, BitsKept DEF Holds, BitsAreOwn
  <2>11. SoleClient(c)'
    BY <2>1 DEF SoleClient
  <2>12. QED
    BY <1>1, <2>1, <2>3, <2>6, <2>7, <2>8, <2>9, <2>10, <2>11, OneMoves
    DEF Holds, Same
<1>5. QED
  BY <1>3, <1>4

-----------------------------------------------------------------------------
LEMMA AnswerGiven ==
  ASSUME SetupTypeOK, NEW c \in Components, NEW what \in Answers,
         NEW bit \in Nat, Answer(c, what, bit)
  PROVE  /\ call' \in [Components -> CallType]
         /\ call'[c].answer = what /\ call'[c].back = bit
         /\ call'[c].to = call[c].to /\ call'[c].req = call[c].req
         /\ call'[c].virt = call[c].virt /\ call'[c].bit = call[c].bit
         /\ call'[c].shared = call[c].shared
         /\ call'[c] # NoCall
         /\ \A d \in Components \ {c} : call'[d] = call[d]
<1>1. call \in [Components -> CallType] /\ call[c] \in CallType
  BY DEF SetupTypeOK
<1>2. call' = [call EXCEPT ![c] = [call[c] EXCEPT !.answer = what,
                                                  !.back = bit]]
  BY <1>1 DEF Answer, CallType
<1>3. [call[c] EXCEPT !.answer = what, !.back = bit] \in CallType
  BY <1>1 DEF CallType
<1>4. /\ call' \in [Components -> CallType]
      /\ call'[c] = [call[c] EXCEPT !.answer = what, !.back = bit]
      /\ \A d \in Components \ {c} : call'[d] = call[d]
  BY <1>1, <1>2, <1>3
<1>5. call'[c].answer = what /\ call'[c].back = bit
  BY <1>1, <1>4 DEF CallType
<1>6. call'[c] # NoCall
  BY <1>5, NoCallTyped
<1>7. QED
  BY <1>1, <1>4, <1>5, <1>6 DEF CallType

(* For itself, the caller is where it was.                                 *)
LEMMA AnswerHolds ==
  ASSUME SetupInv, NEW c \in Components, call[c] # NoCall, call'[c] # NoCall,
         sys' = sys, srv'[c] = srv[c], phase'[c] = phase[c], pos'[c] = pos[c],
         bits'[c] = bits[c], chans'[c] = chans[c], table'[c] = table[c],
         call'[c].to = call[c].to, call'[c].req = call[c].req,
         call'[c].bit = call[c].bit, call'[c].shared = call[c].shared
  PROVE  Holds(c)'
<1>1. SetupTypeOK /\ Holds(c)
  BY DEF SetupInv
<1>2. /\ \A d : Kind(d)' = Kind(d) /\ Links(c)' = Links(c)
      /\ Clients(c)' = Clients(c) /\ Members' = Members
  BY DEF Kind, Links, Clients, Members
<1>3. Fresh(c)'
  BY <1>1, <1>2 DEF Holds, Fresh, Past
<1>4. CallIsDue(c)'
  <2>1. Target(c)' = Target(c) /\ Wanted(c)' = Wanted(c)
    BY <1>2 DEF Target, Wanted
  <2>2. QED
    BY <1>1, <1>2, <2>1 DEF Holds, CallIsDue
<1>5. RecordsAreSound(c)'
  BY <1>1, RecordsStay DEF Holds
<1>6. BitsAreOwn(c)'
  <2>1. IsPending(c)' <=> IsPending(c)
    BY DEF IsPending
  <2>2. \A k : Reserved(c, k) => Reserved(c, k)'
    BY <1>2, <2>1 DEF Reserved
  <2>3. QED
    BY <1>1, <2>1, <2>2, BitsKept DEF Holds, BitsAreOwn
<1>7. QED
  BY <1>3, <1>4, <1>5, <1>6 DEF Holds

LEMMA LateAnswer ==
  ASSUME SetupInv, NEW s \in Components, NEW c \in Components,
         phase[s] = "running", Asks(c, s), NEW what \in {"ok", "never"},
         Answer(c, what, 0),
         what = "ok" => Kind(s) = "timer" /\ Clients(s)[1].id = c,
         UNCHANGED <<sys, phase, pos, srv, bits, chans, table, faults>>
  PROVE  SetupInv'
<1>1. SetupTypeOK /\ SoleClient(c) /\ Holds(c) /\ Holds(s)
  BY DEF SetupInv
<1>2. call[c] # NoCall
  BY NoCallTyped DEF Asks
<1>3. /\ call' \in [Components -> CallType] /\ call'[c] # NoCall
      /\ call'[c].answer = what
      /\ call'[c].to = call[c].to /\ call'[c].req = call[c].req
      /\ call'[c].bit = call[c].bit /\ call'[c].shared = call[c].shared
      /\ \A d \in Components \ {c} : call'[d] = call[d]
  BY <1>1, AnswerGiven DEF Answers
<1>4. SetupTypeOK'
  <2>1. \A d \in Components : Len(bits'[d]) >= Len(bits[d])
    BY <1>1, Typed
  <2>2. QED
    BY <1>1, <1>3, <2>1, TypesStay DEF SetupTypeOK
<1>5. Holds(c)'
  BY <1>2, <1>3, AnswerHolds
<1>6. SoleClient(c)'
  <2>1. /\ Links(c)' = Links(c) /\ Target(c)' = Target(c)
        /\ \A d : Kind(d)' = Kind(d) /\ Clients(d)' = Clients(d)
    BY DEF Links, Target, Kind, Clients
  <2>2. CASE what = "ok" /\ phase[c] = "calling"
    <3>1. Target(c) = s
      BY <1>2, <2>2, CallLeads DEF Asks
    <3>2. Clients(s) # <<>>
      <4>1. CheckDone(Kind(s), Clients(s)) /\ Kind(s) = "timer"
        BY <1>1, <2>2 DEF Holds, Fresh, Past
      <4>2. Len(Clients(s)) >= 1
        BY <4>1 DEF CheckDone, Drivers
      <4>3. QED
        BY <4>2
    <3>3. QED
      BY <2>1, <2>2, <3>1, <3>2 DEF SoleClient
  <2>3. CASE what = "never"
    BY <1>1, <1>3, <2>1, <2>3 DEF SoleClient
  <2>4. QED
    BY <2>2, <2>3 DEF SoleClient
<1>7. QED
  BY <1>3, <1>4, <1>5, <1>6, OneMoves DEF Same

LEMMA InterruptedSteps ==
  ASSUME SetupInv, NEW s \in Members, Interrupted(s)
  PROVE  SetupInv'
<1>1. SetupTypeOK /\ s \in Components
  BY MembersAreComponents DEF SetupInv
<1>2. phase[s] = "serving" /\ phase' = [phase EXCEPT ![s] = "dead"] /\ Fails
      /\ UNCHANGED <<sys, pos, srv, bits, chans, table, call>>
  BY DEF Interrupted, Dies
<1>3. call[s] = NoCall
  BY <1>1, <1>2 DEF SetupInv, Holds, Fresh
<1>4. QED
  BY <1>1, <1>2, <1>3, Dying

LEMMA LateSteps ==
  ASSUME SetupInv, NEW s \in Members, NEW c \in Members,
         ServeDies(s, c) \/ Drops(s, c) \/ Protected(s, c)
  PROVE  SetupInv'
<1>1. SetupTypeOK /\ s \in Components /\ c \in Components
  BY MembersAreComponents DEF SetupInv
<1>2. CASE ServeDies(s, c)
  <2>1. phase[s] = "serving" /\ phase' = [phase EXCEPT ![s] = "dead"]
        /\ (Fails \/ UNCHANGED faults)
        /\ UNCHANGED <<sys, pos, srv, bits, chans, table, call>>
    BY <1>2 DEF ServeDies, Dies
  <2>2. call[s] = NoCall
    BY <1>1, <2>1 DEF SetupInv, Holds, Fresh
  <2>3. QED
    BY <1>1, <2>1, <2>2, Dying
<1>3. CASE Drops(s, c)
  BY <1>1, <1>3, LateAnswer DEF Drops
<1>4. CASE Protected(s, c)
  <2>1. CASE Clients(s)[1].id = c
    BY <1>1, <1>4, <2>1, LateAnswer DEF Protected
  <2>2. CASE Clients(s)[1].id # c
    BY <1>1, <1>4, <2>2, Dying DEF Protected, Dies
  <2>3. QED
    BY <2>1, <2>2
<1>5. QED
  BY <1>2, <1>3, <1>4

-----------------------------------------------------------------------------
(* Whoever is served calls the server behind its next link, for something  *)
(* that server handles; and but for open it has a record there.            *)
LEMMA Foreseen ==
  ASSUME SetupInv, NEW s \in Components, NEW c \in Components,
         phase[s] = "serving", Asks(c, s), ~Unforeseen(s, c)
  PROVE  /\ phase[c] = "calling" /\ call[c] # NoCall /\ s # c
         /\ pos[c][1] \in DOMAIN Links(c) /\ Target(c) = s
         /\ Kind(s) \in Kinds \ {"client", "blk_driver"}
         /\ call[c].req \in Handled(Kind(s)) \cup {"open"}
         /\ call[s] = NoCall
         /\ call[c].req = "open" =>
              /\ \A n \in DOMAIN Clients(s) : Clients(s)[n].id # c
              /\ OneClient(Kind(s)) => Clients(s) = <<>>
         /\ call[c].req # "open" =>
              /\ Record(s, c) \in DOMAIN Clients(s)
              /\ Clients(s)[Record(s, c)].id = c
              /\ call[c].req \in Handled(Kind(s))
<1>1. SetupTypeOK /\ Holds(c) /\ Holds(s) /\ SoleClient(c)
  BY DEF SetupInv
<1>2. call[c] # NoCall
  BY NoCallTyped DEF Asks
<1>3. call[s] = NoCall
  BY <1>1 DEF Holds, Fresh
<1>4. phase[c] = "calling"
  <2>1. SUFFICES ASSUME call[c].req = "ppcall" PROVE FALSE
    BY <1>1, <1>2 DEF Holds, CallIsDue
  <2>2. Kind(s) \in Kinds \ {"client"}
    BY <1>1, Typed DEF Holds, Fresh
  <2>3. "ppcall" \notin Handled(Kind(s))
    BY <2>2, HandledShape
  <2>4. QED
    BY <2>1, <2>3 DEF Unforeseen
<1>5. /\ pos[c][1] \in DOMAIN Links(c) /\ Target(c) = s
      /\ Kind(s) \in Kinds \ {"client", "blk_driver"}
      /\ call[c].req \in Handled(Kind(s)) \cup {"open"}
      /\ call[c].req \in Wanted(c)
  BY <1>2, <1>4, CallLeads DEF Asks
<1>6. Clients(s) \in Seq(ClientType)
  BY <1>1, Typed
<1>7. ASSUME call[c].req = "open"
      PROVE  /\ \A n \in DOMAIN Clients(s) : Clients(s)[n].id # c
             /\ OneClient(Kind(s)) => Clients(s) = <<>>
  <2>1. CASE OneClient(Kind(s))
    BY <1>7, <2>1 DEF Unforeseen, OneClient
  <2>2. CASE ~OneClient(Kind(s))
    BY <1>7, <2>2 DEF Unforeseen, OneClient, IsKnown
  <2>3. QED
    BY <2>1, <2>2
<1>8. ASSUME call[c].req # "open"
      PROVE  /\ Record(s, c) \in DOMAIN Clients(s)
             /\ Clients(s)[Record(s, c)].id = c
             /\ call[c].req \in Handled(Kind(s))
  <2>1. CASE OneClient(Kind(s))
    <3>1. Record(s, c) = 1
      BY <2>1 DEF Record, OneClient
    <3>2. pos[c][2] > 1
      <4>1. pos[c][2] # 1 /\ pos[c][2] \in Nat \ {0}
        BY <1>1, <1>5, <1>8, WantedShape DEF Holds
      <4>2. QED
        BY <4>1
    <3>3. Clients(s) # <<>> /\ Clients(s)[1].id = c
      BY <1>1, <1>4, <1>5, <2>1, <3>2 DEF SoleClient
    <3>4. 1 \in DOMAIN Clients(s)
      BY <1>6, <3>3
    <3>5. QED
      BY <1>5, <1>8, <3>1, <3>3, <3>4
  <2>2. CASE ~OneClient(Kind(s))
    <3>1. Record(s, c) = At(s, c)
      BY <2>2 DEF Record, OneClient
    <3>2. \E n \in DOMAIN Clients(s) : Clients(s)[n].id = c
      BY <1>8, <2>2 DEF Unforeseen, OneClient, IsKnown
    <3>3. At(s, c) \in DOMAIN Clients(s) /\ Clients(s)[At(s, c)].id = c
      BY <3>2 DEF At
    <3>4. QED
      BY <1>5, <1>8, <3>1, <3>3
  <2>3. QED
    BY <2>1, <2>2
<1>9. s # c
  BY <1>4
<1>10. QED
  BY <1>2, <1>3, <1>4, <1>5, <1>7, <1>8, <1>9

(* A record after a call, field by field.                                  *)
Kept(new, old) == new \in ClientType /\ new.id = old.id
LEMMA RevisedFields ==
  ASSUME SetupTypeOK, NEW s \in Components, NEW c \in Components,
         NEW cl \in ClientType, cl = Clients(s)[Record(s, c)],
         Kind(s) \in Kinds \ {"client", "blk_driver"},
         call[c].req \in Handled(Kind(s)), Accepts(s, c)
  PROVE  /\ Kept(Revised(s, c), cl)
         /\ IsChannel(call[c].req) =>
              /\ Revised(s, c).chan = Opened(s, c)
              /\ Opened(s, c) # NoChan /\ Opened(s, c).peer = c
              /\ Revised(s, c).virt = IF Kind(s) \in Drivers THEN call[c].virt
                                      ELSE cl.virt
              /\ Kind(s) \in Drivers =>
                   call[c].virt \in Virts \ srv[s].virts
              /\ Revised(s, c).queues = cl.queues
              /\ Revised(s, c).got = cl.got /\ Revised(s, c).data = cl.data
         /\ ~IsChannel(call[c].req) =>
              /\ Revised(s, c).chan = cl.chan /\ Revised(s, c).virt = cl.virt
              /\ cl.queues \subseteq Revised(s, c).queues
              /\ Revised(s, c).queues # {} =>
                   cl.queues # {} \/ MayQueue(s, cl, call[c].req)
              /\ Revised(s, c).got => cl.got \/ HasAll(Kind(s), cl)
<1> DEFINE req == call[c].req
<1>1. call[c] \in CallType /\ Len(bits[s]) \in Nat
  BY Typed
<1>2. /\ Opened(s, c) \in ChanType /\ Opened(s, c) # NoChan
      /\ Opened(s, c).peer = c
  BY <1>1, SetupAssumption DEF Opened, CallType, ChanType, NoChan
<1>3. req \in {"channel", "receive", "provide", "get"} \cup Queues
  BY HandledShape
<1>4. /\ cl.id \in Components /\ cl.virt \in Virts \cup {Nothing}
      /\ cl.chan \in ChanType /\ cl.queues \in SUBSET Queues
      /\ cl.data \in BOOLEAN /\ cl.got \in BOOLEAN
      /\ cl = [id |-> cl.id, virt |-> cl.virt, chan |-> cl.chan,
               queues |-> cl.queues, data |-> cl.data, got |-> cl.got]
  BY DEF ClientType
<1>5. CASE IsChannel(req)
  <2>1. Revised(s, c) = Registered(s, c, cl)
    BY <1>5 DEF Revised, IsChannel, Queues
  <2>2. req \notin Queues \cup {"provide", "get", "open"}
    BY <1>5 DEF IsChannel, Queues
  <2>3. MayRegister(s, c)
    BY <1>5, <2>2 DEF Accepts
  <2>4. Kind(s) \in Drivers => call[c].virt \in Virts \ srv[s].virts
    BY <2>3 DEF MayRegister, Drivers
  <2> DEFINE v == IF Kind(s) \in Drivers THEN call[c].virt ELSE cl.virt
  <2>5. v \in Virts \cup {Nothing}
    BY <1>4, <2>4
  <2> DEFINE o == Opened(s, c)
  <2>6. Registered(s, c, cl) = [cl EXCEPT !.chan = o, !.virt = v]
    BY DEF Registered, ClientType
  <2>7. o \in ChanType
    BY <1>2
  <2> HIDE DEF o, v
  <2>8. /\ Registered(s, c, cl) \in ClientType
        /\ Registered(s, c, cl).id = cl.id
        /\ Registered(s, c, cl).virt = v
        /\ Registered(s, c, cl).chan = o
        /\ Registered(s, c, cl).queues = cl.queues
        /\ Registered(s, c, cl).got = cl.got
        /\ Registered(s, c, cl).data = cl.data
    BY <2>5, <2>6, <2>7 DEF ClientType
  <2>9. QED
    BY <1>2, <1>5, <2>1, <2>4, <2>8 DEF Kept, o, v
<1>6. CASE req \in Queues
  <2>1. ~IsChannel(req) /\ req \notin {"open", "provide", "get"}
    BY <1>6 DEF IsChannel, Queues
  <2>2. Revised(s, c) = [cl EXCEPT !.queues = @ \cup {req}]
    BY <1>6, <2>1 DEF Revised
  <2>3. MayQueue(s, cl, req)
    BY <1>6, <2>1 DEF Accepts
  <2>4. Revised(s, c) =
          [id |-> cl.id, virt |-> cl.virt, chan |-> cl.chan,
           queues |-> cl.queues \cup {req}, data |-> cl.data, got |-> cl.got]
    BY <1>4, <2>2
  <2>5. QED
    BY <1>4, <1>6, <2>1, <2>3, <2>4 DEF Kept, ClientType
<1>7. CASE req = "provide"
  <2>1. ~IsChannel(req) /\ req \notin Queues
    BY <1>7 DEF IsChannel, Queues
  <2>2. Revised(s, c) = [cl EXCEPT !.data = TRUE]
    BY <1>7, <2>1 DEF Revised
  <2>3. Revised(s, c) =
          [id |-> cl.id, virt |-> cl.virt, chan |-> cl.chan,
           queues |-> cl.queues, data |-> TRUE, got |-> cl.got]
    BY <1>4, <2>2
  <2>4. Revised(s, c) \in ClientType
    BY <1>4, <2>3 DEF ClientType
  <2>5. /\ Revised(s, c).id = cl.id /\ Revised(s, c).chan = cl.chan
        /\ Revised(s, c).virt = cl.virt /\ Revised(s, c).queues = cl.queues
        /\ Revised(s, c).got = cl.got
    BY <2>3
  <2>6. QED
    BY <2>1, <2>4, <2>5 DEF Kept
<1>8. CASE req = "get"
  <2>1. ~IsChannel(req) /\ req \notin Queues /\ req \notin {"open", "provide"}
    BY <1>8 DEF IsChannel, Queues
  <2>2. Revised(s, c) = [cl EXCEPT !.got = TRUE]
    BY <1>8, <2>1 DEF Revised
  <2>3. HasAll(Kind(s), cl)
    BY <1>8, <2>1 DEF Accepts
  <2>4. Revised(s, c) =
          [id |-> cl.id, virt |-> cl.virt, chan |-> cl.chan,
           queues |-> cl.queues, data |-> cl.data, got |-> TRUE]
    BY <1>4, <2>2
  <2>5. Revised(s, c) \in ClientType
    BY <1>4, <2>4 DEF ClientType
  <2>6. /\ Revised(s, c).id = cl.id /\ Revised(s, c).chan = cl.chan
        /\ Revised(s, c).virt = cl.virt /\ Revised(s, c).queues = cl.queues
        /\ Revised(s, c).got = TRUE
    BY <2>4
  <2>7. QED
    BY <2>1, <2>3, <2>5, <2>6 DEF Kept
<1>9. QED
  BY <1>3, <1>5, <1>6, <1>7, <1>8 DEF IsChannel

-----------------------------------------------------------------------------
(* The three ways a call is served.                                        *)
Refused(s, c) ==
  /\ call[c].req = "open" => ~MayOpen(s, c)
  /\ srv' = srv /\ bits' = bits /\ call'[c].answer = "error"
Opens(s, c) ==
  /\ call[c].req = "open" /\ MayOpen(s, c)
  /\ Clients(s)' = Append(Clients(s), NewClient(c))
  /\ srv'[s].virts = srv[s].virts
  /\ bits' = bits /\ call'[c].answer = "ok"
Revises(s, c) ==
  /\ call[c].req # "open" /\ Accepts(s, c)
  /\ Clients(s)' = [Clients(s) EXCEPT ![Record(s, c)] = Revised(s, c)]
  /\ srv'[s].virts = srv[s].virts
       \cup IF IsChannel(call[c].req) THEN {call[c].virt} \ {Nothing} ELSE {}
  /\ bits'[s] = IF call[c].req = "channel" THEN Append(bits[s], c) ELSE bits[s]
  /\ call'[c].answer = "ok"
  /\ call'[c].back = IF call[c].req = "channel" THEN Len(bits[s]) + 1 ELSE 0

LEMMA NewClientTyped ==
  ASSUME NEW c \in Components
  PROVE  /\ NewClient(c) \in ClientType /\ NewClient(c).id = c
         /\ NewClient(c).virt = Nothing /\ NewClient(c).chan = NoChan
         /\ NewClient(c).queues = {} /\ NewClient(c).got = FALSE
<1>1. NoChan \in ChanType
  BY DEF NoChan, ChanType
<1>2. NewClient(c) \in ClientType
  BY <1>1 DEF NewClient, ClientType
<1>3. QED
  BY <1>2 DEF NewClient

LEMMA UpdatedTyped ==
  ASSUME SetupInv, NEW s \in Components, NEW c \in Components,
         phase[s] = "serving", Asks(c, s), ~Unforeseen(s, c), Accepts(s, c)
  PROVE  /\ Updated(s, c) \in [clients : Seq(ClientType), virts : SUBSET Virts,
                               data : SUBSET (Virts \cup {Nothing})]
         /\ Len(Updated(s, c).clients) <= Places(Kind(s))
         /\ call[c].req = "open" =>
              /\ MayOpen(s, c) /\ Updated(s, c).virts = srv[s].virts
              /\ Updated(s, c).clients = Append(Clients(s), NewClient(c))
         /\ call[c].req # "open" =>
              Updated(s, c).clients =
                [Clients(s) EXCEPT ![Record(s, c)] = Revised(s, c)]
         /\ Updated(s, c).virts = srv[s].virts
              \cup IF IsChannel(call[c].req)
                   THEN {call[c].virt} \ {Nothing} ELSE {}
<1>1. SetupTypeOK /\ call[c] \in CallType
  BY Typed DEF SetupInv
<1>2. /\ Kind(s) \in Kinds \ {"client", "blk_driver"}
      /\ call[c].req # "open" =>
           /\ Record(s, c) \in DOMAIN Clients(s)
           /\ call[c].req \in Handled(Kind(s))
  BY Foreseen
<1>3. /\ Clients(s) \in Seq(ClientType) /\ Len(Clients(s)) \in Nat
      /\ Len(Clients(s)) <= Places(Kind(s)) /\ Places(Kind(s)) \in Nat
  BY <1>1, Typed DEF Places
<1>4. /\ srv[s].virts \in SUBSET Virts
      /\ srv[s].data \in SUBSET (Virts \cup {Nothing})
  BY <1>1 DEF SetupTypeOK
<1>5. srv[s].virts \cup (IF IsChannel(call[c].req)
                         THEN {call[c].virt} \ {Nothing} ELSE {})
        \in SUBSET Virts
  <2>1. call[c].virt \in Virts \cup {Nothing}
    BY <1>1 DEF CallType
  <2>2. QED
    BY <1>4, <2>1
<1>6. CASE call[c].req = "open"
  <2> DEFINE l == Append(Clients(s), NewClient(c))
  <2>1. MayOpen(s, c)
    BY <1>6 DEF Accepts, IsChannel, Queues
  <2>2. l \in Seq(ClientType) /\ Len(l) = Len(Clients(s)) + 1
    <3>1. PICK v \in ClientType : v = NewClient(c)
      BY NewClientTyped
    <3>2. QED
      BY <1>3, <3>1
  <2>3. Len(l) <= Places(Kind(s))
    BY <1>3, <2>1, <2>2 DEF MayOpen
  <2>4. ~IsChannel("open")
    BY DEF IsChannel
  <2> HIDE DEF l
  <2>5. Updated(s, c) = [clients |-> l, virts |-> srv[s].virts,
                         data |-> srv[s].data]
    BY <1>6, <2>4 DEF Updated, l
  <2>6. Updated(s, c) \in [clients : Seq(ClientType), virts : SUBSET Virts,
                           data : SUBSET (Virts \cup {Nothing})]
    BY <1>4, <2>2, <2>5
  <2>7. Updated(s, c).clients = l /\ Updated(s, c).virts = srv[s].virts
    BY <2>5
  <2>8. QED
    BY <1>6, <2>1, <2>3, <2>4, <2>6, <2>7 DEF l
<1>7. CASE call[c].req # "open"
  <2> DEFINE l == [Clients(s) EXCEPT ![Record(s, c)] = Revised(s, c)]
             v == srv[s].virts \cup (IF IsChannel(call[c].req)
                                     THEN {call[c].virt} \ {Nothing} ELSE {})
             w == srv[s].data \cup IF call[c].req = "provide"
                                   THEN {Clients(s)[Record(s, c)].virt} ELSE {}
  <2>1. Clients(s)[Record(s, c)] \in ClientType
    BY <1>2, <1>3, <1>7, ElementTyped
  <2>2. Revised(s, c) \in ClientType
    BY <1>1, <1>2, <1>7, <2>1, RevisedFields DEF Kept
  <2>3. l \in Seq(ClientType) /\ Len(l) = Len(Clients(s))
    BY <1>2, <1>3, <1>7, <2>2, ReplaceShape
  <2>4. w \in SUBSET (Virts \cup {Nothing})
    BY <1>4, <2>1 DEF ClientType
  <2>5. Updated(s, c) = [clients |-> l, virts |-> v, data |-> w]
    BY <1>7 DEF Updated
  <2> HIDE DEF l, v, w
  <2>6. Updated(s, c) \in [clients : Seq(ClientType), virts : SUBSET Virts,
                           data : SUBSET (Virts \cup {Nothing})]
    BY <1>5, <2>3, <2>4, <2>5 DEF v
  <2>7. Updated(s, c).clients = l /\ Updated(s, c).virts = v
    BY <2>5
  <2>8. QED
    BY <1>3, <1>7, <2>3, <2>6, <2>7 DEF l, v
<1>8. QED
  BY <1>6, <1>7

LEMMA ServeShape ==
  ASSUME SetupInv, NEW s \in Members, NEW c \in Members, Serve(s, c)
  PROVE  /\ s \in Components /\ c \in Components
         /\ phase[s] = "serving" /\ Asks(c, s) /\ ~Unforeseen(s, c)
         /\ Refused(s, c) \/ Opens(s, c) \/ Revises(s, c)
         /\ phase' = IF CheckDone(Kind(s), Clients(s)')
                     THEN [phase EXCEPT ![s] = "calling"] ELSE phase
         /\ UNCHANGED <<sys, pos, chans, table>>
         /\ SetupTypeOK'
         /\ \A d \in Components \ {s} : srv'[d] = srv[d] /\ bits'[d] = bits[d]
         /\ \A d \in Components \ {c} : call'[d] = call[d]
         /\ call'[c].to = call[c].to /\ call'[c].req = call[c].req
         /\ call'[c].virt = call[c].virt /\ call'[c].bit = call[c].bit
         /\ call'[c].shared = call[c].shared
         /\ call'[c] # NoCall
         /\ Len(bits'[s]) >= Len(bits[s])
<1>1. /\ SetupTypeOK /\ s \in Components /\ c \in Components
      /\ phase[s] = "serving" /\ Asks(c, s) /\ ~Unforeseen(s, c)
      /\ UNCHANGED <<sys, pos, chans, table>>
  BY MembersAreComponents DEF SetupInv, Serve
<1>2. phase' = IF CheckDone(Kind(s), Clients(s)')
               THEN [phase EXCEPT ![s] = "calling"] ELSE phase
  BY DEF Serve, Clients
<1>3. call[c].req \in Requests
  BY <1>1, Foreseen, CallLeads
<1>4. bits[s] \in Seq(Components \cup {"irq"}) /\ Len(bits[s]) \in Nat
  BY <1>1, Typed
<1>5. ASSUME NEW what \in Answers, NEW bit \in Nat, Answer(c, what, bit),
             srv' \in [Components ->
                       [clients : Seq(ClientType), virts : SUBSET Virts,
                        data : SUBSET (Virts \cup {Nothing})]],
             bits' \in [Components -> Seq(Components \cup {"irq"})],
             Len(Clients(s)') <= Places(Kind(s)),
             Len(bits'[s]) >= Len(bits[s]),
             Fails \/ UNCHANGED faults,
             \A d \in Components \ {s} :
               srv'[d] = srv[d] /\ bits'[d] = bits[d]
      PROVE  SetupTypeOK'
  <2>1. phase' \in [Components ->
                    {"unborn", "serving", "calling", "running", "dead"}]
    BY <1>1, <1>2 DEF SetupTypeOK
  <2>2. call' \in [Components -> CallType]
    BY <1>1, <1>5, AnswerGiven
  <2>3. \A d \in Components : Len(Clients(d)') <= Places(Kind(d)')
    BY <1>1, <1>5, Typed DEF Clients, Kind
  <2>4. \A d \in Components : \A e \in table[d] :
          e.index \in 1 .. Len(bits'[d]) + 1
    <3>1. \A d \in Components : \A e \in table[d] :
            e.index \in 1 .. Len(bits[d]) + 1
      BY <1>1 DEF SetupTypeOK
    <3>2. \A k, l \in Nat : k >= l => 1 .. l + 1 \subseteq 1 .. k + 1
      OBVIOUS
    <3>3. Len(bits'[s]) \in Nat
      BY <1>1, <1>5
    <3>4. 1 .. Len(bits[s]) + 1 \subseteq 1 .. Len(bits'[s]) + 1
      BY <1>4, <1>5, <3>2, <3>3
    <3>5. QED
      BY <1>5, <3>1, <3>4
  <2>5. faults' \in 0 .. sys.faults
    BY <1>1, <1>5, FaultsTyped
  <2>6. QED
    BY <1>1, <1>5, <2>1, <2>2, <2>3, <2>4, <2>5 DEF SetupTypeOK
<1>6. ASSUME NEW what \in Answers, NEW bit \in Nat, Answer(c, what, bit)
      PROVE  /\ call'[c].answer = what /\ call'[c].back = bit
             /\ call'[c].to = call[c].to /\ call'[c].req = call[c].req
             /\ call'[c].shared = call[c].shared
             /\ call'[c].virt = call[c].virt /\ call'[c].bit = call[c].bit
             /\ call'[c] # NoCall
             /\ \A d \in Components \ {c} : call'[d] = call[d]
  BY <1>1, <1>6, AnswerGiven
<1>7. CASE /\ Accepts(s, c)
           /\ srv' = [srv EXCEPT ![s] = Updated(s, c)]
           /\ bits' = [bits EXCEPT ![s] = IF call[c].req = "channel"
                                          THEN Append(@, c) ELSE @]
           /\ Answer(c, "ok",
                     IF call[c].req = "channel" THEN Len(bits'[s]) ELSE 0)
           /\ UNCHANGED faults
  <2> DEFINE b == IF call[c].req = "channel" THEN Append(bits[s], c)
                  ELSE bits[s]
             back == IF call[c].req = "channel" THEN Len(bits'[s]) ELSE 0
  <2>1. b \in Seq(Components \cup {"irq"})
        /\ Len(b) = IF call[c].req = "channel" THEN Len(bits[s]) + 1
                    ELSE Len(bits[s])
    BY <1>1, <1>4
  <2>2. bits' = [bits EXCEPT ![s] = b]
    BY <1>1, <1>7 DEF SetupTypeOK
  <2> HIDE DEF b
  <2>3. /\ bits' \in [Components -> Seq(Components \cup {"irq"})]
        /\ bits'[s] = b
        /\ \A d \in Components \ {s} : bits'[d] = bits[d]
    BY <1>1, <2>1, <2>2, UpdateTyped DEF SetupTypeOK
  <2>4. /\ srv' \in [Components ->
                     [clients : Seq(ClientType), virts : SUBSET Virts,
                      data : SUBSET (Virts \cup {Nothing})]]
        /\ srv'[s] = Updated(s, c)
        /\ \A d \in Components \ {s} : srv'[d] = srv[d]
    BY <1>1, <1>7, UpdatedTyped, UpdateTyped DEF SetupTypeOK
  <2>5. Clients(s)' = Updated(s, c).clients
    BY <2>4 DEF Clients
  <2>6. Len(Clients(s)') <= Places(Kind(s))
    BY <1>1, <1>7, <2>5, UpdatedTyped
  <2>7. Len(bits'[s]) >= Len(bits[s]) /\ Len(bits'[s]) \in Nat
    BY <1>4, <2>1, <2>3
  <2>8. back \in Nat /\ Answer(c, "ok", back) /\ "ok" \in Answers
    BY <1>7, <2>7 DEF Answers
  <2> HIDE DEF back
  <2>9. SetupTypeOK'
    BY <1>5, <1>7, <2>3, <2>4, <2>6, <2>7, <2>8
  <2>10. call'[c].answer = "ok" /\ call'[c].back = back
    BY <1>6, <2>8
  <2>11. CASE call[c].req = "open"
    <3>1. bits' = bits
      BY <1>1, <2>2, <2>11 DEF b, SetupTypeOK
    <3>2. Opens(s, c)
      BY <1>1, <1>7, <2>4, <2>5, <2>10, <2>11, <3>1, UpdatedTyped DEF Opens
    <3>3. QED
      BY <1>1, <1>2, <1>6, <2>3, <2>4, <2>7, <2>8, <2>9, <3>2
  <2>12. CASE call[c].req # "open"
    <3>1. back = IF call[c].req = "channel" THEN Len(bits[s]) + 1 ELSE 0
      BY <2>1, <2>3 DEF back
    <3>2. Revises(s, c)
      BY <1>1, <1>7, <2>3, <2>4, <2>5, <2>10, <2>12, <3>1, UpdatedTyped
      DEF Revises, b
    <3>3. QED
      BY <1>1, <1>2, <1>6, <2>3, <2>4, <2>7, <2>8, <2>9, <3>2
  <2>13. QED
    BY <2>11, <2>12
<1>8. CASE /\ call[c].req = "open" => ~Accepts(s, c)
           /\ Answer(c, "error", 0) /\ UNCHANGED <<srv, bits>>
           /\ Fails \/ UNCHANGED faults
  <2>1. call[c].req = "open" => ~MayOpen(s, c)
    BY <1>8 DEF Accepts, IsChannel, Queues
  <2>2. "error" \in Answers /\ 0 \in Nat
    BY DEF Answers
  <2>3. Len(Clients(s)') <= Places(Kind(s)) /\ Len(bits'[s]) >= Len(bits[s])
    BY <1>1, <1>4, <1>8, Typed DEF Clients
  <2>4. SetupTypeOK'
    BY <1>1, <1>5, <1>8, <2>2, <2>3 DEF SetupTypeOK
  <2>5. Refused(s, c)
    BY <1>6, <1>8, <2>1, <2>2 DEF Refused
  <2>6. QED
    BY <1>1, <1>2, <1>6, <1>8, <2>2, <2>3, <2>4, <2>5
<1>9. QED
  BY <1>7, <1>8 DEF Serve

LEMMA RecordMoves ==
  ASSUME SetupInv, NEW s \in Members, NEW c \in Members, Serve(s, c),
         NEW cls, cls = Clients(s)'
  PROVE  /\ cls \in Seq(ClientType)
         /\ DOMAIN Clients(s) \subseteq DOMAIN cls
         /\ \A n \in DOMAIN Clients(s) : cls[n].id = Clients(s)[n].id
         /\ \A n \in DOMAIN cls :
              \/ n \in DOMAIN Clients(s) /\ cls[n] = Clients(s)[n]
              \/ /\ Opens(s, c) /\ n \notin DOMAIN Clients(s)
                 /\ n = Len(Clients(s)) + 1
                 /\ cls[n] = NewClient(c)
              \/ /\ Revises(s, c) /\ n \in DOMAIN Clients(s)
                 /\ n = Record(s, c) /\ cls[n] = Revised(s, c)
<1>1. /\ s \in Components /\ c \in Components /\ SetupTypeOK
      /\ phase[s] = "serving" /\ Asks(c, s) /\ ~Unforeseen(s, c)
  BY ServeShape DEF SetupInv
<1>2. Refused(s, c) \/ Opens(s, c) \/ Revises(s, c)
  BY ServeShape
<1>3. Clients(s) \in Seq(ClientType)
  BY <1>1, Typed
<1>4. CASE Refused(s, c)
  BY <1>3, <1>4 DEF Refused, Clients
<1>5. CASE Opens(s, c)
  <2>1. PICK v \in ClientType : v = NewClient(c)
    BY <1>1, NewClientTyped
  <2>2. cls = Append(Clients(s), v)
    BY <1>5, <2>1 DEF Opens
  <2>3. QED
    BY <1>3, <1>5, <2>1, <2>2, AppendShape
<1>6. CASE Revises(s, c)
  <2>1. /\ Record(s, c) \in DOMAIN Clients(s) /\ Accepts(s, c)
        /\ call[c].req \in Handled(Kind(s))
        /\ Kind(s) \in Kinds \ {"client", "blk_driver"}
    BY <1>1, <1>6, Foreseen DEF Revises
  <2>2. Clients(s)[Record(s, c)] \in ClientType
    BY <1>3, <2>1, ElementTyped
  <2>3. Kept(Revised(s, c), Clients(s)[Record(s, c)])
    BY <1>1, <2>1, <2>2, RevisedFields
  <2>4. PICK v \in ClientType : v = Revised(s, c)
    BY <2>3 DEF Kept
  <2>5. cls = [Clients(s) EXCEPT ![Record(s, c)] = v]
    BY <1>6, <2>4 DEF Revises
  <2>6. QED
    BY <1>3, <1>6, <2>1, <2>3, <2>4, <2>5, ReplaceShape DEF Kept
<1>7. QED
  BY <1>2, <1>4, <1>5, <1>6

(* What Revised does, without the conditions of RevisedFields.             *)
LEMMA Revision ==
  ASSUME SetupInv, NEW s \in Members, NEW c \in Members, Serve(s, c),
         Revises(s, c), NEW cl, cl = Clients(s)[Record(s, c)]
  PROVE  /\ Record(s, c) \in DOMAIN Clients(s) /\ cl.id = c
         /\ cl \in ClientType
         /\ Kind(s) \in Kinds \ {"client", "blk_driver"}
         /\ call[c].req = IF Kind(s) = "timer" THEN "receive" ELSE call[c].req
         /\ call[c].req = "receive" => Kind(s) = "timer"
         /\ Kept(Revised(s, c), cl)
         /\ IsChannel(call[c].req) =>
              /\ Revised(s, c).chan = Opened(s, c)
              /\ Opened(s, c) # NoChan /\ Opened(s, c).peer = c
              /\ Revised(s, c).virt = IF Kind(s) \in Drivers THEN call[c].virt
                                      ELSE cl.virt
              /\ Kind(s) \in Drivers =>
                   call[c].virt \in Virts \ srv[s].virts
              /\ Revised(s, c).queues = cl.queues
              /\ Revised(s, c).got = cl.got /\ Revised(s, c).data = cl.data
         /\ ~IsChannel(call[c].req) =>
              /\ Revised(s, c).chan = cl.chan /\ Revised(s, c).virt = cl.virt
              /\ cl.queues \subseteq Revised(s, c).queues
              /\ Revised(s, c).queues # {} =>
                   cl.queues # {} \/ MayQueue(s, cl, call[c].req)
              /\ Revised(s, c).got => cl.got \/ HasAll(Kind(s), cl)
<1>1. /\ s \in Components /\ c \in Components /\ SetupTypeOK
      /\ phase[s] = "serving" /\ Asks(c, s) /\ ~Unforeseen(s, c)
  BY ServeShape DEF SetupInv
<1>2. /\ Record(s, c) \in DOMAIN Clients(s) /\ Accepts(s, c) /\ cl.id = c
      /\ call[c].req \in Handled(Kind(s))
      /\ Kind(s) \in Kinds \ {"client", "blk_driver"}
  BY <1>1, Foreseen DEF Revises
<1>3. cl \in ClientType
  BY <1>1, <1>2, Typed, ElementTyped
<1>4. /\ Kind(s) = "timer" => call[c].req = "receive"
      /\ call[c].req = "receive" => Kind(s) = "timer"
  BY <1>2, HandledShape
<1>5. QED
  BY <1>1, <1>2, <1>3, <1>4, RevisedFields

LEMMA ServeRecords ==
  ASSUME SetupInv, NEW s \in Members, NEW c \in Members, Serve(s, c)
  PROVE  RecordsAreSound(s)'
<1>1. s \in Components /\ sys' = sys /\ RecordsAreSound(s) /\ SetupTypeOK
  BY ServeShape DEF SetupInv, Holds
<1>2. PICK cls : cls = Clients(s)'
  OBVIOUS
<1>3. ASSUME NEW n \in DOMAIN cls
      PROVE  RecordIsSound(Kind(s), cls[n])
  <2>1. CASE n \in DOMAIN Clients(s) /\ cls[n] = Clients(s)[n]
    BY <1>1, <2>1 DEF RecordsAreSound
  <2>2. CASE cls[n] = NewClient(c)
    <3>1. /\ cls[n].virt = Nothing /\ cls[n].chan = NoChan
          /\ cls[n].queues = {} /\ cls[n].got = FALSE
      BY <2>2 DEF NewClient
    <3>2. QED
      BY <3>1 DEF RecordIsSound
  <2>3. CASE Revises(s, c) /\ n = Record(s, c) /\ cls[n] = Revised(s, c)
    <3>1. PICK cl : cl = Clients(s)[Record(s, c)]
      OBVIOUS
    <3>2. RecordIsSound(Kind(s), cl)
      BY <1>1, <2>3, <3>1, Revision DEF RecordsAreSound
    <3>3. CASE IsChannel(call[c].req)
      <4>1. /\ cls[n].chan # NoChan
            /\ Kind(s) \in Drivers => cls[n].virt \in Virts
            /\ cls[n].queues = cl.queues /\ cls[n].got = cl.got
        BY <2>3, <3>1, <3>3, Revision
      <4>2. Nothing \notin Virts
        BY SetupAssumption
      <4>3. QED
        BY <3>2, <4>1, <4>2 DEF RecordIsSound, HasAll
    <3>4. CASE ~IsChannel(call[c].req)
      <4>1. /\ cls[n].chan = cl.chan /\ cls[n].virt = cl.virt
            /\ cl.queues \subseteq cls[n].queues
            /\ cls[n].queues # {} =>
                 cl.queues # {} \/ MayQueue(s, cl, call[c].req)
            /\ cls[n].got => cl.got \/ HasAll(Kind(s), cl)
        BY <2>3, <3>1, <3>4, Revision
      <4>2. /\ MayQueue(s, cl, call[c].req) /\ Kind(s) # "blk_driver" =>
                 cl.chan # NoChan
        BY <3>2 DEF MayQueue, RecordIsSound
      <4>3. HasAll(Kind(s), cl) => HasAll(Kind(s), cls[n])
        BY <4>1 DEF HasAll
      <4>4. QED
        BY <3>2, <4>1, <4>2, <4>3 DEF RecordIsSound
    <3>5. QED
      BY <3>3, <3>4
  <2>4. QED
    BY <1>2, <2>1, <2>2, <2>3, RecordMoves
<1>4. Kind(s)' = Kind(s)
  BY <1>1 DEF Kind
<1>5. QED
  BY <1>2, <1>3, <1>4 DEF RecordsAreSound

LEMMA ServeBits ==
  ASSUME SetupInv, NEW s \in Members, NEW c \in Members, Serve(s, c)
  PROVE  BitsAreOwn(s)'
<1>1. /\ s \in Components /\ c \in Components /\ sys' = sys /\ BitsAreOwn(s)
      /\ SetupTypeOK
      /\ phase[s] = "serving" /\ chans' = chans /\ Fresh(s)
      /\ Asks(c, s) /\ ~Unforeseen(s, c)
      /\ \A d \in Components \ {c} : call'[d] = call[d]
      /\ Len(bits'[s]) >= Len(bits[s])
  BY ServeShape DEF SetupInv, Holds
<1>2. s # c /\ call[s] = NoCall /\ chans[s] = {}
  BY <1>1, Foreseen DEF Fresh
<1>3. call'[s] = NoCall /\ chans'[s] = {}
  BY <1>1, <1>2
<1>4. ~IsPending(s) /\ ~IsPending(s)'
  BY <1>2, <1>3 DEF IsPending
<1>5. Kind(s)' = Kind(s) /\ Len(bits[s]) \in Nat /\ Len(bits'[s]) \in Nat
  <2>1. SetupTypeOK'
    BY ServeShape
  <2>2. bits'[s] \in Seq(Components \cup {"irq"})
    BY <1>1, <2>1 DEF SetupTypeOK
  <2>3. QED
    BY <1>1, <2>2, Typed DEF Kind
<1>6. PICK cls : cls = Clients(s)'
  OBVIOUS
<1>7. \A n, m \in DOMAIN cls : cls[n].id = cls[m].id => n = m
  <2>1. \A n, m \in DOMAIN Clients(s) :
          Clients(s)[n].id = Clients(s)[m].id => n = m
    BY <1>1 DEF BitsAreOwn
  <2>2. \A n \in DOMAIN cls :
          \/ n \in DOMAIN Clients(s) /\ cls[n].id = Clients(s)[n].id
          \/ Opens(s, c) /\ n = Len(Clients(s)) + 1 /\ cls[n].id = c
    <3>1. NewClient(c).id = c
      BY DEF NewClient
    <3>2. QED
      BY <1>6, <3>1, RecordMoves
  <2>3. Opens(s, c) => \A n \in DOMAIN Clients(s) : Clients(s)[n].id # c
    BY <1>1, Foreseen DEF Opens
  <2>4. QED
    BY <2>1, <2>2, <2>3
<1>8. \A k : Reserved(s, k) => Reserved(s, k)'
  <2>1. 1 .. Len(bits[s]) \subseteq 1 .. Len(bits'[s])
    BY <1>1, <1>5
  <2>2. QED
    BY <1>4, <1>5, <2>1 DEF Reserved
<1>9. HasIrq(Kind(s)) => Len(bits'[s]) >= 1
  BY <1>1, <1>5 DEF BitsAreOwn
<1>10. ASSUME Kind(s) # "timer", NEW n \in DOMAIN cls, cls[n].chan # NoChan
       PROVE  \/ /\ n \in DOMAIN Clients(s) /\ Clients(s)[n].chan = cls[n].chan
              \/ /\ n = Record(s, c)
                 /\ cls[n].chan.from = Len(bits[s]) + 1
                 /\ Len(bits'[s]) = Len(bits[s]) + 1
  <2>1. CASE n \in DOMAIN Clients(s) /\ cls[n] = Clients(s)[n]
    BY <2>1
  <2>2. CASE cls[n] = NewClient(c)
    BY <1>1, <1>10, <2>2, NewClientTyped
  <2>3. CASE /\ Revises(s, c) /\ n \in DOMAIN Clients(s)
             /\ n = Record(s, c) /\ cls[n] = Revised(s, c)
    <3>1. PICK cl : cl = Clients(s)[Record(s, c)]
      OBVIOUS
    <3>2. CASE IsChannel(call[c].req)
      <4>1. call[c].req = "channel"
        BY <1>10, <2>3, <3>1, <3>2, Revision DEF IsChannel
      <4>2. cls[n].chan = Opened(s, c)
        BY <2>3, <3>1, <3>2, Revision
      <4>3. bits'[s] = Append(bits[s], c)
        BY <2>3, <4>1 DEF Revises
      <4>4. Len(bits'[s]) = Len(bits[s]) + 1
        BY <1>1, <4>3, Typed
      <4>5. QED
        BY <2>3, <4>1, <4>2, <4>4 DEF Opened
    <3>3. CASE ~IsChannel(call[c].req)
      BY <2>3, <3>1, <3>3, Revision
    <3>4. QED
      BY <3>2, <3>3
  <2>4. QED
    BY <1>6, <2>1, <2>2, <2>3, RecordMoves
<1>11. ASSUME Kind(s) # "timer", NEW n \in DOMAIN cls, cls[n].chan # NoChan
       PROVE  /\ Reserved(s, cls[n].chan.from)'
              /\ \A m \in DOMAIN cls :
                   /\ cls[m].chan # NoChan
                   /\ cls[m].chan.from = cls[n].chan.from
                   => n = m
  <2>1. \A m \in DOMAIN Clients(s) : Clients(s)[m].chan # NoChan =>
          /\ Reserved(s, Clients(s)[m].chan.from)
          /\ Clients(s)[m].chan.from \in 1 .. Len(bits[s])
          /\ \A l \in DOMAIN Clients(s) :
               /\ Clients(s)[l].chan # NoChan
               /\ Clients(s)[l].chan.from = Clients(s)[m].chan.from
               => m = l
    BY <1>1, <1>11 DEF BitsAreOwn, Filed, Reserved
  <2>2. \A m \in DOMAIN Clients(s) : Clients(s)[m].chan # NoChan =>
          Clients(s)[m].chan.from # Len(bits[s]) + 1
    BY <1>5, <2>1
  <2>3. PICK k : k = cls[n].chan.from
    OBVIOUS
  <2>4. Reserved(s, k)'
    <3>1. CASE n \in DOMAIN Clients(s) /\ Clients(s)[n].chan = cls[n].chan
      BY <1>8, <1>11, <2>1, <2>3, <3>1
    <3>2. CASE k = Len(bits[s]) + 1 /\ Len(bits'[s]) = Len(bits[s]) + 1
      <4>1. k \in 1 .. Len(bits'[s])
        BY <1>5, <3>2
      <4>2. HasIrq(Kind(s)) => k # 1
        BY <1>1, <1>5, <3>2 DEF BitsAreOwn
      <4>3. QED
        BY <1>4, <1>5, <4>1, <4>2 DEF Reserved
    <3>3. QED
      BY <1>10, <1>11, <2>3, <3>1, <3>2
  <2>5. ASSUME NEW m \in DOMAIN cls, cls[m].chan # NoChan,
               cls[m].chan.from = cls[n].chan.from
        PROVE  n = m
    BY <1>10, <1>11, <2>1, <2>2, <2>5
  <2>6. QED
    BY <2>3, <2>4, <2>5
<1>12. QED
  <2>1. \A n : Filed(s, n)' <=> cls[n].chan # NoChan
    BY <1>6 DEF Filed
  <2>2. QED
    BY <1>3, <1>4, <1>5, <1>6, <1>7, <1>9, <1>11, <2>1 DEF BitsAreOwn

LEMMA ServeKeepsSole ==
  ASSUME SetupInv, NEW s \in Members, NEW c \in Members, Serve(s, c),
         NEW d \in Components
  PROVE  SoleClient(d)'
<1>1. /\ s \in Components /\ c \in Components /\ SetupTypeOK
      /\ phase[s] = "serving" /\ Asks(c, s) /\ ~Unforeseen(s, c)
      /\ UNCHANGED <<sys, pos, chans, table>>
      /\ \A e \in Components \ {s} : srv'[e] = srv[e]
      /\ \A e \in Components \ {c} : call'[e] = call[e]
      /\ phase' = IF CheckDone(Kind(s), Clients(s)')
                  THEN [phase EXCEPT ![s] = "calling"] ELSE phase
      /\ Refused(s, c) \/ Opens(s, c) \/ Revises(s, c)
  BY ServeShape DEF SetupInv
<1>2. /\ Fresh(s) /\ SoleClient(d) /\ Clients(s) \in Seq(ClientType)
      /\ phase[c] = "calling" /\ Target(c) = s /\ s # c
      /\ call[s] = NoCall
  BY <1>1, Foreseen, Typed DEF SetupInv, Holds
<1>3. /\ Links(d)' = Links(d) /\ Target(d)' = Target(d)
      /\ \A e : Kind(e)' = Kind(e)
      /\ \A e \in Components \ {s} : Clients(e)' = Clients(e)
  BY <1>1 DEF Links, Target, Kind, Clients
<1>4. Nothing \notin {"ok", "error"}
  BY SetupAssumption DEF Answers
<1>5. CASE d = s
  <2>1. call'[d].answer = Nothing /\ pos'[d][2] = 1
    BY <1>1, <1>2, <1>5, NoCallTyped DEF Fresh
  <2>2. QED
    BY <1>4, <2>1 DEF SoleClient
<1>6. CASE d # s
  <2>1. phase'[d] = phase[d] /\ pos'[d] = pos[d]
    BY <1>1, <1>6 DEF SetupTypeOK
  <2>2. SUFFICES ASSUME phase[d] = "calling", pos[d][1] \in DOMAIN Links(d),
                        OneClient(Kind(Target(d))),
                        pos[d][2] > 1 \/ call'[d].answer \in {"ok", "error"}
                 PROVE  /\ srv'[Target(d)].clients # <<>>
                        /\ srv'[Target(d)].clients[1].id = d
    BY <1>3, <2>1 DEF SoleClient, Clients
  <2>3. Target(d) \in Components
    BY <1>1, <2>2, LinkLeads DEF Target
  <2>4. PICK cls : cls = Clients(s)' /\ cls = srv'[s].clients
    BY DEF Clients
  <2>5. /\ cls \in Seq(ClientType) /\ DOMAIN Clients(s) \subseteq DOMAIN cls
        /\ \A n \in DOMAIN Clients(s) : cls[n].id = Clients(s)[n].id
    BY <2>4, RecordMoves
  <2>6. Clients(s) # <<>> => 1 \in DOMAIN Clients(s)
    BY <1>2
  <2>7. Clients(s) # <<>> /\ Clients(s)[1].id = d =>
          cls # <<>> /\ cls[1].id = d
    BY <2>5, <2>6
  <2>8. CASE Target(d) # s
    <3>1. d # c
      BY <1>2, <2>8
    <3>2. QED
      BY <1>1, <1>2, <1>3, <2>2, <2>3, <2>8, <3>1 DEF SoleClient, Clients
  <2>9. CASE Target(d) = s /\ d # c
    <3>1. Clients(s) # <<>> /\ Clients(s)[1].id = d
      BY <1>1, <1>2, <2>2, <2>9 DEF SoleClient
    <3>2. QED
      BY <2>4, <2>7, <2>9, <3>1
  <2>10. CASE d = c
    <3>1. OneClient(Kind(s))
      BY <1>2, <2>2, <2>10
    <3>2. CASE call[c].req = "open"
      <4>1. Clients(s) = <<>>
        BY <1>1, <3>1, <3>2, Foreseen
      <4>2. MayOpen(s, c)
        BY <3>1, <4>1 DEF MayOpen, Places, Serve, Unwraps, OneClient
      <4>3. Opens(s, c)
        BY <1>1, <3>2, <4>2 DEF Refused, Revises
      <4>4. PICK v \in ClientType : v = NewClient(c) /\ v.id = c
        BY <1>1, NewClientTyped
      <4>5. cls = Append(<<>>, v)
        BY <2>4, <4>1, <4>3, <4>4 DEF Opens
      <4>6. cls # <<>> /\ cls[1].id = c
        BY <4>4, <4>5
      <4>7. QED
        BY <1>2, <2>4, <2>10, <4>6
    <3>3. CASE call[c].req # "open"
      <4>1. /\ Record(s, c) \in DOMAIN Clients(s)
            /\ Clients(s)[Record(s, c)].id = c
        BY <1>1, <3>3, Foreseen
      <4>2. Record(s, c) = 1
        BY <3>1 DEF Record, OneClient
      <4>3. Clients(s) # <<>> /\ Clients(s)[1].id = c
        BY <1>2, <4>1, <4>2
      <4>4. QED
        BY <1>2, <2>4, <2>7, <2>10, <4>3
    <3>4. QED
      BY <3>2, <3>3
  <2>11. QED
    BY <2>8, <2>9, <2>10
<1>7. QED
  BY <1>5, <1>6

LEMMA ServeSteps ==
  ASSUME SetupInv, NEW s \in Members, NEW c \in Members, Serve(s, c)
  PROVE  SetupInv'
<1>1. /\ s \in Components /\ c \in Components /\ SetupTypeOK /\ SetupTypeOK'
      /\ ServersAreBorn
      /\ phase[s] = "serving" /\ Asks(c, s) /\ ~Unforeseen(s, c)
      /\ UNCHANGED <<sys, pos, chans, table>>
      /\ \A d \in Components \ {s} : srv'[d] = srv[d] /\ bits'[d] = bits[d]
      /\ \A d \in Components \ {c} : call'[d] = call[d]
      /\ phase' = IF CheckDone(Kind(s), Clients(s)')
                  THEN [phase EXCEPT ![s] = "calling"] ELSE phase
      /\ call'[c].to = call[c].to /\ call'[c].req = call[c].req
      /\ call'[c].bit = call[c].bit /\ call'[c].shared = call[c].shared
      /\ call'[c] # NoCall
  BY ServeShape DEF SetupInv
<1>2. /\ Holds(s) /\ phase[c] = "calling" /\ s # c
      /\ call[c] # NoCall /\ call[s] = NoCall
      /\ Kind(s) \in Kinds \ {"client", "blk_driver"}
  BY <1>1, Foreseen DEF SetupInv
<1>3. /\ \A d \in Components \ {s} : phase'[d] = phase[d]
      /\ \/ phase'[s] = "serving"
         \/ phase'[s] = "calling" /\ CheckDone(Kind(s), Clients(s)')
  BY <1>1 DEF SetupTypeOK
<1>4. Fresh(s)'
  <2>1. Kind(s)' = Kind(s) /\ Members' = Members
    BY <1>1 DEF Kind, Members
  <2>2. CheckDone(Kind(s), Clients(s)') => CheckDone(Kind(s), Clients(s))'
    BY <2>1
  <2>3. call'[s] = NoCall /\ pos'[s] = <<1, 1>> /\ chans'[s] = {}
        /\ table'[s] = {}
    BY <1>1, <1>2 DEF Holds, Fresh
  <2>4. QED
    BY <1>1, <1>2, <1>3, <2>1, <2>2, <2>3 DEF Fresh, Past
<1>5. CallIsDue(s)'
  <2>1. Links(s)' = Links(s) /\ Target(s)' = Target(s)
        /\ \A d : Kind(d)' = Kind(d)
    BY <1>1 DEF Links, Target, Kind
  <2>2. QED
    BY <1>1, <1>2, <2>1 DEF Holds, CallIsDue
<1>6. Holds(s)'
  BY <1>4, <1>5, ServeRecords, ServeBits DEF Holds
<1>7. Holds(c)'
  BY <1>1, <1>2, <1>3, AnswerHolds
<1>8. \A d \in Components \ {s, c} : Holds(d)'
  <2>1. \A d \in Components \ {s, c} : Same(d)
    BY <1>1, <1>3 DEF Same
  <2>2. QED
    BY <1>1, <2>1, SameHolds DEF SetupInv
<1>9. ServersAreBorn'
  BY <1>1, <1>3, BornStay
<1>10. \A d \in Components : SoleClient(d)'
  BY ServeKeepsSole
<1>11. QED
  BY <1>1, <1>6, <1>7, <1>8, <1>9, <1>10 DEF SetupInv

-----------------------------------------------------------------------------
LEMMA StutterSteps ==
  ASSUME SetupInv, UNCHANGED setupVars
  PROVE  SetupInv'
<1>1. /\ sys' = sys /\ srv' = srv /\ \A d : Same(d)
      /\ UNCHANGED <<phase, pos, bits, chans, table, call, faults>>
  BY DEF setupVars, Same
<1>2. SetupTypeOK'
  <2>1. \A d : Clients(d)' = Clients(d) /\ Kind(d)' = Kind(d)
    BY <1>1 DEF Clients, Kind
  <2>2. QED
    BY <1>1, <2>1 DEF SetupInv, SetupTypeOK
<1>3. ServersAreBorn'
  BY <1>1, BornStay DEF SetupInv
<1>4. \A d \in Components : Holds(d)' /\ SoleClient(d)'
  BY <1>1, SameHolds, SoleStays DEF SetupInv, Same
<1>5. QED
  BY <1>2, <1>3, <1>4 DEF SetupInv

LEMMA SetupStarts ==
  ASSUME SetupInit
  PROVE  SetupInv
<1>1. /\ sys \in Systems /\ sys \in SystemType /\ faults = 0
      /\ \A c \in Components :
           /\ phase[c] = "unborn" /\ pos[c] = <<1, 1>> /\ srv[c] = NoSrv
           /\ bits[c] = <<>> /\ chans[c] = {} /\ table[c] = {}
           /\ call[c] = NoCall
  BY SetupAssumption DEF SetupInit
<1>2. \A c \in Components : Clients(c) = <<>>
  BY <1>1 DEF Clients, NoSrv
<1>3. SetupTypeOK
  <2>1. NoSrv \in [clients : Seq(ClientType), virts : SUBSET Virts,
                   data : SUBSET (Virts \cup {Nothing})]
    BY DEF NoSrv
  <2>2. \A c \in Components : Len(Clients(c)) <= Places(Kind(c))
    BY <1>2 DEF Places
  <2>3. sys.faults \in Nat
    BY <1>1 DEF SystemType
  <2>4. <<>> \in Seq(Components \cup {"irq"})
    OBVIOUS
  <2>5. phase \in [Components ->
                   {"unborn", "serving", "calling", "running", "dead"}]
    BY DEF SetupInit
  <2>6. pos \in [Components -> (Nat \ {0}) \X (Nat \ {0})]
    BY DEF SetupInit
  <2>7. /\ srv \in [Components ->
                    [clients : Seq(ClientType), virts : SUBSET Virts,
                     data : SUBSET (Virts \cup {Nothing})]]
        /\ call \in [Components -> CallType]
    BY <2>1, NoCallTyped DEF SetupInit
  <2>8. bits \in [Components -> Seq(Components \cup {"irq"})]
    BY <2>4 DEF SetupInit
  <2>9. /\ chans \in [Components ->
                      SUBSET [kind : {"bi", "recv"}, from : Nat,
                              peer : Components, to : Nat]]
        /\ table \in [Components ->
                SUBSET [index : Nat, kind : {"irq", "bi", "send", "recv"},
                        peer : Components \cup {Nothing}, to : Nat]]
    BY DEF SetupInit
  <2>10. QED
    BY <1>1, <2>2, <2>3, <2>5, <2>6, <2>7, <2>8, <2>9 DEF SetupTypeOK
<1>4. ServersAreBorn
  BY <1>1, <1>3, MembersAreComponents DEF ServersAreBorn
<1>5. ASSUME NEW c \in Components
      PROVE  Holds(c) /\ SoleClient(c)
  <2>1. Fresh(c)
    BY <1>1, <1>2 DEF Fresh, Past
  <2>2. CallIsDue(c)
    <3>1. ASSUME 1 \in DOMAIN Links(c)
          PROVE  1 <= Len(Script(Kind(Links(c)[1].to)))
      <4>1. Kind(Links(c)[1].to) \in Kinds \ {"client"}
        BY <1>3, <3>1, LinkLeads
      <4>2. QED
        BY <4>1, ScriptShape
    <3>2. QED
      BY <1>1, <3>1, NoCallTyped DEF CallIsDue, Target
  <2>3. RecordsAreSound(c)
    BY <1>2 DEF RecordsAreSound
  <2>4. BitsAreOwn(c)
    <3>1. ~IsPending(c)
      BY <1>1 DEF IsPending
    <3>2. QED
      BY <1>1, <1>2, <3>1 DEF BitsAreOwn
  <2>5. SoleClient(c)
    BY <1>1 DEF SoleClient
  <2>6. QED
    BY <2>1, <2>2, <2>3, <2>4, <2>5 DEF Holds
<1>6. QED
  BY <1>3, <1>4, <1>5 DEF SetupInv

LEMMA SetupSteps ==
  ASSUME SetupInv, [SetupNext]_setupVars
  PROVE  SetupInv'
<1>1. CASE UNCHANGED setupVars
  BY <1>1, StutterSteps
<1>2. ASSUME NEW c \in Members, Start(c)
      PROVE  SetupInv'
  BY <1>2, StartSteps
<1>3. ASSUME NEW c \in Members, NEW req, Request(c, req)
      PROVE  SetupInv'
  BY <1>3, RequestSteps
<1>4. ASSUME NEW c \in Members, NEW req, RequestFails(c, req)
      PROVE  SetupInv'
  BY <1>4, RequestFailsSteps
<1>5. ASSUME NEW c \in Members, Proceed(c)
      PROVE  SetupInv'
  BY <1>5, ProceedSteps
<1>6. ASSUME NEW c \in Members, GiveUp(c)
      PROVE  SetupInv'
  BY <1>6, GiveUpSteps
<1>7. ASSUME NEW c \in Members, SetChannels(c)
      PROVE  SetupInv'
  BY <1>7, SetChannelsSteps
<1>8. ASSUME NEW c \in Members, Ppcall(c)
      PROVE  SetupInv'
  BY <1>8, PpcallSteps
<1>9. ASSUME NEW s \in Members, NEW c \in Members, Attend(s, c)
      PROVE  SetupInv'
  BY <1>9, ServeSteps, LateSteps DEF Attend
<1>10. QED
  <2>1. ASSUME NEW c \in Members, Interrupted(c)
        PROVE  SetupInv'
    BY <2>1, InterruptedSteps
  <2>2. QED
    BY <1>1, <1>2, <1>3, <1>4, <1>5, <1>6, <1>7, <1>8, <1>9, <2>1
    DEF SetupNext

(* Through set-up, whatever fails and whatever unruly clients do, every    *)
(* component is where its records, its channels and its bits say it is.    *)
THEOREM SetupStaysSound == SetupSpec => []SetupInv
<1>1. SetupInit => SetupInv
  BY SetupStarts
<1>2. SetupInv /\ [SetupNext]_setupVars => SetupInv'
  BY SetupSteps
<1>3. QED
  BY <1>1, <1>2, PTL DEF SetupSpec

-----------------------------------------------------------------------------
(* A client that is set up has its channel.                                *)
LEMMA InitializedShape ==
  ASSUME NEW k \in Kinds \ {"client", "blk_driver"}, NEW cl,
         RecordIsSound(k, cl), Initialized(k, cl)
  PROVE  cl.chan # NoChan
<1>1. CASE k = "timer"
  BY <1>1 DEF Initialized
<1>2. CASE k # "timer"
  <2>1. HasAll(k, cl)
    <3>1. CASE k = "net_driver"
      BY <3>1 DEF Initialized
    <3>2. CASE k \in {"serial_driver", "copier"}
      BY <3>2 DEF Initialized
    <3>3. CASE k = "net_virt_rx"
      BY <3>3 DEF Initialized, RecordIsSound
    <3>4. CASE k \in {"net_virt_tx", "serial_virt"}
      BY <3>4 DEF Initialized
    <3>5. QED
      BY <1>2, <3>1, <3>2, <3>3, <3>4 DEF Kinds
  <2>2. QueuesOf(k) # {}
    BY <1>2, SomeQueue
  <2>3. cl.queues # {}
    BY <2>1, <2>2 DEF HasAll
  <2>4. QED
    BY <2>3 DEF RecordIsSound
<1>3. QED
  BY <1>1, <1>2

LEMMA ServedHaveChannels ==
  ASSUME SetupInv, NEW c \in Components, Past(c), NEW n \in Served(c)
  PROVE  n \in DOMAIN Clients(c) /\ Clients(c)[n].chan # NoChan
<1>1. /\ n \in DOMAIN Clients(c)
      /\ n \in IF Kind(c) \in Drivers THEN 1 .. 2 ELSE {1}
  BY DEF Served
<1>2. Kind(c) \in Kinds /\ Fresh(c) /\ RecordsAreSound(c)
      /\ Clients(c) \in Seq(ClientType)
  BY Typed DEF SetupInv, Holds
<1>3. Clients(c) # <<>>
  BY <1>1
<1>4. Kind(c) \in Kinds \ {"client", "blk_driver"}
  BY <1>2, <1>3 DEF Fresh
<1>5. CheckDone(Kind(c), Clients(c))
  BY <1>2, <1>4 DEF Fresh
<1>6. Initialized(Kind(c), Clients(c)[n])
  BY <1>1, <1>5 DEF CheckDone
<1>7. RecordIsSound(Kind(c), Clients(c)[n])
  BY <1>1, <1>2 DEF RecordsAreSound
<1>8. QED
  BY <1>1, <1>4, <1>6, <1>7, InitializedShape

(* Nobody finds an index taken twice, nor a client without a channel.      *)
LEMMA ChannelsCanBeSet ==
  ASSUME SetupInv, NEW c \in Components, phase[c] = "calling"
  PROVE  CanSet(c)
<1>1. \A n \in Served(c) : Clients(c)[n].chan # NoChan
  BY ServedHaveChannels DEF Past
<1>2. BitsAreOwn(c) /\ (Kind(c) = "timer" => chans[c] = {})
  BY DEF SetupInv, Holds, Fresh
<1>3. \A n \in Served(c) : n \in DOMAIN Clients(c) /\ Filed(c, n)
  BY ServedHaveChannels DEF Filed, Past
<1>4. CASE Kind(c) = "timer"
  <2>1. Served(c) \subseteq {1}
    BY <1>4 DEF Served, Drivers
  <2>2. Entries(c) \subseteq {OfIrq, OfClient(c, 1)}
    BY <1>2, <1>4, <2>1 DEF Entries
  <2>3. OfIrq.index = 1 /\ OfClient(c, 1).index = 2
    BY <1>4 DEF OfIrq, OfClient, TimerChannel
  <2>4. QED
    BY <1>1, <2>2, <2>3 DEF CanSet
<1>5. CASE Kind(c) # "timer"
  <2>1. \A n \in Served(c) : /\ OfClient(c, n).index = Clients(c)[n].chan.from
                             /\ HasIrq(Kind(c)) => OfClient(c, n).index # 1
    BY <1>2, <1>3, <1>5 DEF OfClient, BitsAreOwn, Reserved
  <2>2. \A ch \in chans[c] : /\ OfServer(ch).index = ch.from
                             /\ HasIrq(Kind(c)) => ch.from # 1
    BY <1>2 DEF OfServer, BitsAreOwn, Reserved
  <2>3. OfIrq.index = 1
    BY DEF OfIrq
  <2>4. \A n, m \in Served(c) :
          OfClient(c, n).index = OfClient(c, m).index => n = m
    BY <1>2, <1>3, <1>5, <2>1 DEF BitsAreOwn
  <2>5. \A n \in Served(c), ch \in chans[c] :
          OfClient(c, n).index # OfServer(ch).index
    BY <1>2, <1>3, <1>5, <2>1, <2>2 DEF BitsAreOwn
  <2>6. \A h, d \in chans[c] : OfServer(h).index = OfServer(d).index => h = d
    BY <1>2, <2>2 DEF BitsAreOwn
  <2>7. ASSUME NEW e \in Entries(c), NEW f \in Entries(c), e.index = f.index
        PROVE  e = f
    <3>1. \/ HasIrq(Kind(c)) /\ e = OfIrq
          \/ \E n \in Served(c) : e = OfClient(c, n)
          \/ \E ch \in chans[c] : e = OfServer(ch)
      BY DEF Entries
    <3>2. \/ HasIrq(Kind(c)) /\ f = OfIrq
          \/ \E n \in Served(c) : f = OfClient(c, n)
          \/ \E ch \in chans[c] : f = OfServer(ch)
      BY DEF Entries
    <3>3. CASE HasIrq(Kind(c)) /\ e = OfIrq
      BY <2>1, <2>2, <2>3, <2>7, <3>2, <3>3
    <3>4. CASE \E n \in Served(c) : e = OfClient(c, n)
      BY <2>1, <2>3, <2>4, <2>5, <2>7, <3>2, <3>4
    <3>5. CASE \E ch \in chans[c] : e = OfServer(ch)
      BY <2>2, <2>3, <2>5, <2>6, <2>7, <3>2, <3>5
    <3>6. QED
      BY <3>1, <3>3, <3>4, <3>5
  <2>8. QED
    BY <1>1, <2>7 DEF CanSet
<1>6. QED
  BY <1>4, <1>5

(* What a component may die of.                                            *)
Excused(c) ==
  \/ faults' > faults
  \/ call[c].answer = "error"
  \/ \E d \in Members : Asks(d, c) /\ (Unforeseen(c, d) \/ Unwraps(c, d))

LEMMA FaultsCount ==
  ASSUME SetupTypeOK, Fails
  PROVE  faults' > faults
<1>1. sys.faults \in Nat /\ faults \in 0 .. sys.faults
  BY SetupAssumption DEF SetupTypeOK, SystemType
<1>2. QED
  BY <1>1 DEF Fails

LEMMA OnlyThisDies ==
  ASSUME SetupTypeOK, NEW c \in Components, NEW d \in Components, Dies(c),
         phase[d] # "dead", phase'[d] = "dead"
  PROVE  d = c
BY DEF Dies, SetupTypeOK

(* The running timer is called out of line only by those who are not its   *)
(* client.                                                                 *)
LEMMA StrangerIsUnforeseen ==
  ASSUME SetupInv, NEW s \in Components, NEW c \in Components,
         phase[s] = "running", Kind(s) = "timer", Asks(c, s),
         Clients(s)[1].id # c
  PROVE  Unforeseen(s, c)
<1>1. SetupTypeOK /\ Fresh(s) /\ CallIsDue(c) /\ SoleClient(c)
  BY DEF SetupInv, Holds
<1>2. Clients(s) # <<>>
  <2>1. CheckDone(Kind(s), Clients(s))
    BY <1>1 DEF Fresh, Past
  <2>2. Len(Clients(s)) >= 1
    BY <2>1 DEF CheckDone, Drivers
  <2>3. QED
    BY <2>2
<1>3. call[c] # NoCall
  BY NoCallTyped DEF Asks
<1>4. call[c].req # "receive"
  <2>1. SUFFICES ASSUME call[c].req = "receive" PROVE FALSE
    OBVIOUS
  <2>2. phase[c] = "calling"
    BY <1>1, <1>3, <2>1 DEF CallIsDue
  <2>3. /\ pos[c][1] \in DOMAIN Links(c) /\ Target(c) = s
        /\ call[c].req \in Wanted(c)
    BY <1>3, <2>2, CallLeads DEF Asks
  <2>4. pos[c][2] # 1 /\ pos[c][2] \in Nat \ {0}
    BY <1>1, <2>1, <2>3, WantedShape
  <2>5. pos[c][2] > 1
    BY <2>4
  <2>6. QED
    BY <1>1, <2>2, <2>3, <2>5 DEF SoleClient, OneClient
<1>5. Handled("timer") = {"receive"}
  BY HandledShape DEF Kinds
<1>6. QED
  BY <1>2, <1>4, <1>5 DEF Unforeseen

LEMMA DeathIsOwn ==
  ASSUME SetupInv, SetupNext, NEW d \in Components,
         phase[d] # "dead", phase'[d] = "dead"
  PROVE  Excused(d)
<1>1. SetupTypeOK /\ Members \subseteq Components
  BY MembersAreComponents DEF SetupInv
<1>2. ASSUME NEW c \in Members, Start(c)
      PROVE  FALSE
  BY <1>1, <1>2 DEF Start, SetupTypeOK
<1>3. ASSUME NEW c \in Members, NEW req, RequestFails(c, req)
      PROVE  Excused(d)
  <2>1. d = c /\ Ready(c)
    BY <1>1, <1>3, OnlyThisDies DEF RequestFails
  <2>2. pos[c][1] \in DOMAIN Links(c) /\ phase[c] # "unborn"
    BY <1>1, <2>1, Typed DEF Ready
  <2>3. phase[Target(c)] # "unborn"
    BY <1>3, <2>2 DEF SetupInv, ServersAreBorn, Target
  <2>4. Fails
    BY <1>3, <2>3 DEF RequestFails
  <2>5. QED
    BY <1>1, <2>4, FaultsCount DEF Excused
<1>4. ASSUME NEW c \in Members, GiveUp(c)
      PROVE  Excused(d)
  <2>1. d = c
    BY <1>1, <1>4, OnlyThisDies DEF GiveUp
  <2>2. QED
    BY <1>1, <1>4, <2>1, FaultsCount DEF GiveUp, Excused
<1>5. ASSUME NEW c \in Members, SetChannels(c)
      PROVE  FALSE
  <2>1. CanSet(c)
    BY <1>1, <1>5, ChannelsCanBeSet DEF SetChannels, AllCalled
  <2>2. QED
    BY <1>1, <1>5, <2>1 DEF SetChannels, SetupTypeOK
<1>6. ASSUME NEW s \in Members, NEW c \in Members, Serve(s, c)
      PROVE  FALSE
  <2>1. /\ s \in Components
        /\ phase' = IF CheckDone(Kind(s), Clients(s)')
                    THEN [phase EXCEPT ![s] = "calling"] ELSE phase
    BY <1>6, ServeShape
  <2>2. phase' = phase \/ phase' = [phase EXCEPT ![s] = "calling"]
    BY <2>1
  <2>3. QED
    BY <1>1, <2>1, <2>2 DEF SetupTypeOK
<1>7. ASSUME NEW s \in Members, NEW c \in Members, ServeDies(s, c)
      PROVE  Excused(d)
  <2>1. d = s
    BY <1>1, <1>7, OnlyThisDies DEF ServeDies
  <2>2. QED
    BY <1>1, <1>7, <2>1, FaultsCount DEF ServeDies, Excused
<1>8. ASSUME NEW s \in Members, NEW c \in Members, Protected(s, c)
      PROVE  Excused(d)
  <2>1. Clients(s)[1].id # c /\ Dies(s)
    BY <1>8 DEF Protected
  <2>2. d = s
    BY <1>1, <2>1, OnlyThisDies
  <2>3. QED
    BY <1>1, <1>8, <2>1, <2>2, StrangerIsUnforeseen DEF Protected, Excused
<1>9. ASSUME NEW s \in Members, Interrupted(s)
      PROVE  Excused(d)
  BY <1>1, <1>9, FaultsCount DEF Interrupted, Excused
<1>10. CASE UNCHANGED phase
  BY <1>10
<1>11. QED
  BY <1>2, <1>3, <1>4, <1>5, <1>6, <1>7, <1>8, <1>9, <1>10
  DEF SetupNext, Attend, Request, Proceed, Ppcall, Drops

(* Of what components die: besides a first open with a shared buffer that  *)
(* stops the copier or the timer, and an interrupt before the timer has a  *)
(* client, a call a server handles never kills it, whenever, however often *)
(* and however wrongly a client makes it; and setting the channels kills   *)
(* nobody.                                                                 *)
THEOREM SetupDeathsAreOwn == SetupSpec => DeathsAreOwn
<1>1. SetupInit => SetupInv
  BY SetupStarts
<1>2. SetupInv /\ [SetupNext]_setupVars => SetupInv'
  BY SetupSteps
<1>3. SetupInv /\ [SetupNext]_setupVars =>
        [\A c \in Components :
           phase[c] # "dead" /\ phase'[c] = "dead" =>
             \/ faults' > faults
             \/ call[c].answer = "error"
             \/ \E d \in Members : Asks(d, c) /\ (Unforeseen(c, d) \/ Unwraps(c, d))]_setupVars
  BY DeathIsOwn DEF Excused
<1>4. QED
  BY <1>1, <1>2, <1>3, PTL DEF SetupSpec, DeathsAreOwn

-----------------------------------------------------------------------------
(* When a device is started: init spawns in order, a driver takes one      *)
(* client of each type, and whoever has a record has left its own loop.    *)
BornInOrder ==
  \A c \in Components : phase[c] # "unborn" =>
    \E n \in 1 .. Len(sys.order) :
      /\ sys.order[n] = c
      /\ \A m \in 1 .. n - 1 : phase[sys.order[m]] # "unborn"
VirtsDiffer(s) ==
  Kind(s) \in Drivers =>
    \A n \in DOMAIN Clients(s) : Clients(s)[n].virt # Nothing =>
      /\ Clients(s)[n].virt \in srv[s].virts
      /\ \A m \in DOMAIN Clients(s) :
           Clients(s)[m].virt = Clients(s)[n].virt => m = n
HasStarted(c) == phase[c] \notin {"unborn", "serving"}
UsersHaveStarted(s) ==
  \A n \in DOMAIN Clients(s) :
    LET c == Clients(s)[n].id IN c \in Members /\ Uses(c, s) /\ HasStarted(c)
StartInv ==
  /\ SetupInv
  /\ IsUncrowded(sys)
  /\ BornInOrder
  /\ \A s \in Components : VirtsDiffer(s) /\ UsersHaveStarted(s)

(* Nobody goes back to where it was spawned, and only Start spawns.        *)
LEMMA PhasesGrow ==
  ASSUME SetupInv, [SetupNext]_setupVars, NEW d \in Components
  PROVE  /\ phase[d] # "unborn" => phase'[d] # "unborn"
         /\ HasStarted(d) => HasStarted(d)'
         /\ phase'[d] # "unborn" => phase[d] # "unborn" \/ Start(d)
         /\ sys' = sys
<1>1. SetupTypeOK /\ Members \subseteq Components
  BY MembersAreComponents DEF SetupInv
<1>2. ASSUME NEW c \in Members, Start(c)
      PROVE  /\ phase[d] # "unborn" => phase'[d] # "unborn"
             /\ HasStarted(d) => HasStarted(d)'
             /\ phase'[d] # "unborn" => phase[d] # "unborn" \/ Start(d)
             /\ sys' = sys
  <2>1. /\ phase'[c] = IF Kind(c) = "client" THEN "calling" ELSE "serving"
        /\ phase[c] = "unborn" /\ sys' = sys
        /\ \A e \in Components \ {c} : phase'[e] = phase[e]
    BY <1>1, <1>2 DEF Start, SetupTypeOK
  <2>2. QED
    BY <1>2, <2>1 DEF HasStarted
<1>3. ASSUME NEW c \in Members, phase[c] # "unborn", sys' = sys,
             NEW p \in {"calling", "running", "dead"},
             phase' = [phase EXCEPT ![c] = p]
      PROVE  /\ phase[d] # "unborn" => phase'[d] # "unborn"
             /\ HasStarted(d) => HasStarted(d)'
             /\ phase'[d] # "unborn" => phase[d] # "unborn" \/ Start(d)
             /\ sys' = sys
  <2>1. /\ phase'[c] = p /\ \A e \in Components \ {c} : phase'[e] = phase[e]
    BY <1>1, <1>3 DEF SetupTypeOK
  <2>2. QED
    BY <1>3, <2>1 DEF HasStarted
<1>4. CASE UNCHANGED <<sys, phase>>
  BY <1>4 DEF HasStarted
<1>5. ASSUME NEW c \in Members, NEW req, RequestFails(c, req)
      PROVE  /\ phase[c] # "unborn" /\ sys' = sys
             /\ phase' = [phase EXCEPT ![c] = "dead"]
  BY <1>5 DEF RequestFails, Ready, Dies
<1>6. ASSUME NEW c \in Members, GiveUp(c)
      PROVE  /\ phase[c] # "unborn" /\ sys' = sys
             /\ phase' = [phase EXCEPT ![c] = "dead"]
  BY <1>6 DEF GiveUp, Answered, Dies
<1>7. ASSUME NEW c \in Members, SetChannels(c)
      PROVE  /\ phase[c] # "unborn" /\ sys' = sys
             /\ \/ phase' = [phase EXCEPT ![c] = "dead"]
                \/ phase' = [phase EXCEPT ![c] = "running"]
  BY <1>7 DEF SetChannels, AllCalled, Dies
<1>8. ASSUME NEW s \in Members, NEW c \in Members, Attend(s, c)
      PROVE  /\ phase[s] # "unborn" /\ sys' = sys
             /\ \/ phase' = [phase EXCEPT ![s] = "dead"]
                \/ phase' = [phase EXCEPT ![s] = "calling"]
                \/ phase' = phase
  <2>1. Serve(s, c) => /\ phase[s] # "unborn" /\ sys' = sys
                       /\ \/ phase' = [phase EXCEPT ![s] = "calling"]
                          \/ phase' = phase
    BY DEF Serve
  <2>2. QED
    BY <1>8, <2>1 DEF Attend, ServeDies, Drops, Protected, Dies
<1>9. QED
  <2>1. CASE UNCHANGED setupVars
    BY <1>4, <2>1 DEF setupVars
  <2>2. CASE \E c \in Members : Start(c)
    BY <1>2, <2>2
  <2>3. CASE \E c \in Members : \E req \in Wanted(c) : RequestFails(c, req)
    BY <1>3, <1>5, <2>3
  <2>4. CASE \E c \in Members : GiveUp(c)
    BY <1>3, <1>6, <2>4
  <2>5. CASE \E c \in Members : SetChannels(c)
    BY <1>3, <1>7, <2>5
  <2>6. CASE \E s, c \in Members : Attend(s, c)
    BY <1>3, <1>4, <1>8, <2>6
  <2>7. CASE \E c \in Members : \/ Proceed(c) \/ Ppcall(c)
                                \/ \E req \in Wanted(c) : Request(c, req)
    BY <1>4, <2>7 DEF Proceed, Ppcall, Request
  <2>8. ASSUME NEW c \in Members, Interrupted(c)
        PROVE  /\ phase[c] # "unborn" /\ sys' = sys
               /\ phase' = [phase EXCEPT ![c] = "dead"]
    BY <2>8 DEF Interrupted, Dies
  <2>9. CASE \E c \in Members : Interrupted(c)
    BY <1>3, <2>8, <2>9
  <2>10. QED
    BY <2>1, <2>2, <2>3, <2>4, <2>5, <2>6, <2>7, <2>9 DEF SetupNext

LEMMA SystemStays ==
  ASSUME [SetupNext]_setupVars
  PROVE  sys' = sys
<1>1. ASSUME NEW s, NEW c, Attend(s, c)
      PROVE  sys' = sys
  BY <1>1 DEF Attend, Serve, ServeDies, Drops, Protected
<1>2. ASSUME NEW c, Start(c) \/ Proceed(c) \/ GiveUp(c) \/ SetChannels(c)
                    \/ Ppcall(c) \/ Interrupted(c)
      PROVE  sys' = sys
  BY <1>2 DEF Start, Proceed, GiveUp, SetChannels, Ppcall, Interrupted
<1>3. ASSUME NEW c, NEW req, Request(c, req) \/ RequestFails(c, req)
      PROVE  sys' = sys
  BY <1>3 DEF Request, RequestFails
<1>4. QED
  BY <1>1, <1>2, <1>3 DEF SetupNext, setupVars

LEMMA OrderTyped ==
  ASSUME SetupTypeOK, NEW n \in 1 .. Len(sys.order), NEW m \in 1 .. n - 1
  PROVE  m \in 1 .. Len(sys.order) /\ sys.order[m] \in Components
<1>1. sys.order \in Seq(Components)
  BY SetupAssumption DEF SetupTypeOK, SystemType
<1>2. Len(sys.order) \in Nat
  BY <1>1
<1>3. m \in 1 .. Len(sys.order)
  BY <1>2
<1>4. QED
  BY <1>1, <1>3

LEMMA OrderStays ==
  ASSUME SetupInv, BornInOrder, [SetupNext]_setupVars
  PROVE  BornInOrder'
<1>1. SetupTypeOK
  BY DEF SetupInv
<1>2. /\ sys' = sys
      /\ \A d \in Components : /\ phase[d] # "unborn" => phase'[d] # "unborn"
                               /\ phase'[d] # "unborn" =>
                                    phase[d] # "unborn" \/ Start(d)
  BY PhasesGrow, SystemStays
<1>3. ASSUME NEW c \in Components, phase'[c] # "unborn"
      PROVE  \E n \in 1 .. Len(sys.order) :
               /\ sys.order[n] = c
               /\ \A m \in 1 .. n - 1 : phase[sys.order[m]] # "unborn"
  BY <1>2, <1>3 DEF BornInOrder, Start
<1>4. ASSUME NEW c \in Components, phase'[c] # "unborn"
      PROVE  \E n \in 1 .. Len(sys.order) :
               /\ sys.order[n] = c
               /\ \A m \in 1 .. n - 1 : phase'[sys.order[m]] # "unborn"
  <2>1. PICK n \in 1 .. Len(sys.order) :
          /\ sys.order[n] = c
          /\ \A m \in 1 .. n - 1 : phase[sys.order[m]] # "unborn"
    BY <1>3, <1>4
  <2>2. \A m \in 1 .. n - 1 : phase'[sys.order[m]] # "unborn"
    BY <1>1, <1>2, <2>1, OrderTyped
  <2>3. QED
    BY <2>1, <2>2
<1>5. QED
  BY <1>2, <1>4 DEF BornInOrder

LEMMA SrvChanges ==
  ASSUME SetupInv, [SetupNext]_setupVars, srv' # srv
  PROVE  \E s, c \in Members : Serve(s, c)
BY DEF SetupNext, setupVars, Start, Request, RequestFails, Proceed, GiveUp,
       SetChannels, Ppcall, Interrupted, Attend, ServeDies, Drops, Protected

LEMMA VirtsStay ==
  ASSUME SetupInv, sys' = sys, NEW d \in Components, srv'[d] = srv[d],
         VirtsDiffer(d)
  PROVE  VirtsDiffer(d)'
<1>1. Clients(d)' = Clients(d) /\ Kind(d)' = Kind(d)
  BY DEF Clients, Kind
<1>2. QED
  BY <1>1 DEF VirtsDiffer

LEMMA ServeVirts ==
  ASSUME SetupInv, NEW s \in Members, NEW c \in Members, Serve(s, c),
         VirtsDiffer(s)
  PROVE  VirtsDiffer(s)'
<1>1. /\ s \in Components /\ sys' = sys
      /\ Refused(s, c) \/ Opens(s, c) \/ Revises(s, c)
  BY ServeShape
<1>2. Kind(s)' = Kind(s)
  BY <1>1 DEF Kind
<1>3. PICK cls : cls = Clients(s)'
  OBVIOUS
<1>4. CASE Refused(s, c)
  BY <1>1, <1>4, VirtsStay DEF Refused
<1>5. CASE Opens(s, c)
  <2>1. ASSUME NEW n \in DOMAIN cls
        PROVE  \/ n \in DOMAIN Clients(s) /\ cls[n].virt = Clients(s)[n].virt
               \/ cls[n].virt = Nothing
    <3>1. NewClient(c).virt = Nothing
      BY DEF NewClient
    <3>2. QED
      BY <1>3, <1>5, <3>1, RecordMoves DEF Opens, Revises
  <2>2. srv'[s].virts = srv[s].virts
    BY <1>5 DEF Opens
  <2>3. QED
    BY <1>2, <1>3, <2>1, <2>2 DEF VirtsDiffer
<1>6. CASE Revises(s, c)
  <2>1. PICK cl : cl = Clients(s)[Record(s, c)]
    OBVIOUS
  <2>2. \A n \in DOMAIN cls :
          /\ n \in DOMAIN Clients(s)
          /\ \/ cls[n] = Clients(s)[n]
             \/ n = Record(s, c) /\ cls[n] = Revised(s, c)
    BY <1>3, <1>6, RecordMoves DEF Opens, Revises
  <2>3. SUFFICES ASSUME Kind(s) \in Drivers
                 PROVE  \A n \in DOMAIN cls : cls[n].virt # Nothing =>
                          /\ cls[n].virt \in srv'[s].virts
                          /\ \A m \in DOMAIN cls :
                               cls[m].virt = cls[n].virt => m = n
    BY <1>2, <1>3 DEF VirtsDiffer
  <2>4. \A n \in DOMAIN Clients(s) : Clients(s)[n].virt # Nothing =>
          /\ Clients(s)[n].virt \in srv[s].virts
          /\ \A m \in DOMAIN Clients(s) :
               Clients(s)[m].virt = Clients(s)[n].virt => m = n
    BY <2>3 DEF VirtsDiffer
  <2>5. CASE IsChannel(call[c].req)
    <3>1. /\ Revised(s, c).virt = call[c].virt
          /\ call[c].virt \in Virts \ srv[s].virts
      BY <1>6, <2>1, <2>3, <2>5, Revision
    <3>2. call[c].virt # Nothing
      BY <3>1, SetupAssumption
    <3>3. srv'[s].virts = srv[s].virts \cup {call[c].virt}
      BY <1>6, <2>5, <3>2 DEF Revises
    <3>4. QED
      BY <2>2, <2>4, <3>1, <3>2, <3>3
  <2>6. CASE ~IsChannel(call[c].req)
    <3>1. Revised(s, c).virt = cl.virt
      BY <1>6, <2>1, <2>6, Revision
    <3>2. srv[s].virts \subseteq srv'[s].virts
      BY <1>6 DEF Revises
    <3>3. \A n \in DOMAIN cls : cls[n].virt = Clients(s)[n].virt
      BY <2>1, <2>2, <3>1
    <3>4. QED
      BY <2>2, <2>4, <3>2, <3>3
  <2>7. QED
    BY <2>5, <2>6
<1>7. QED
  BY <1>1, <1>4, <1>5, <1>6

LEMMA UsersStay ==
  ASSUME SetupInv, [SetupNext]_setupVars, NEW s \in Components,
         UsersHaveStarted(s)
  PROVE  UsersHaveStarted(s)'
<1>1. SetupTypeOK /\ Members \subseteq Components
  BY MembersAreComponents DEF SetupInv
<1>2. /\ sys' = sys /\ Members' = Members
      /\ \A d : Uses(d, s)' <=> Uses(d, s)
      /\ \A d \in Components : HasStarted(d) => HasStarted(d)'
  BY PhasesGrow DEF Members, Uses, Links
<1>3. PICK cls : cls = Clients(s)'
  OBVIOUS
<1>4. SUFFICES ASSUME NEW n \in DOMAIN cls
               PROVE  /\ cls[n].id \in Members /\ Uses(cls[n].id, s)
                      /\ HasStarted(cls[n].id)
  <2>1. \A d : d \in Members /\ HasStarted(d) => HasStarted(d)'
    BY <1>1, <1>2
  <2>2. ASSUME NEW n \in DOMAIN cls
        PROVE  /\ cls[n].id \in Members /\ Uses(cls[n].id, s)
               /\ phase'[cls[n].id] \notin {"unborn", "serving"}
    <3>1. /\ cls[n].id \in Members /\ Uses(cls[n].id, s)
          /\ HasStarted(cls[n].id)
      BY <1>4, <2>2
    <3>2. PICK d : d = cls[n].id
      OBVIOUS
    <3>3. HasStarted(d)'
      BY <2>1, <3>1, <3>2
    <3>4. QED
      BY <3>1, <3>2, <3>3 DEF HasStarted
  <2>3. QED
    BY <1>2, <1>3, <2>2 DEF UsersHaveStarted, HasStarted
<1>5. CASE srv'[s] = srv[s]
  BY <1>3, <1>5 DEF UsersHaveStarted, Clients
<1>6. CASE srv'[s] # srv[s]
  <2>1. PICK t \in Members, c \in Members : Serve(t, c)
    BY <1>6, SrvChanges
  <2>2. t = s
    BY <1>6, <2>1, ServeShape
  <2>3. \/ n \in DOMAIN Clients(s) /\ cls[n].id = Clients(s)[n].id
        \/ cls[n] = NewClient(c)
    BY <1>3, <1>4, <2>1, <2>2, RecordMoves
  <2>4. CASE cls[n] = NewClient(c)
    <3>1. cls[n].id = c
      BY <2>4 DEF NewClient
    <3>2. /\ phase[c] = "calling" /\ pos[c][1] \in DOMAIN Links(c)
          /\ Target(c) = s
      BY <2>1, <2>2, ServeShape, Foreseen
    <3>3. QED
      BY <2>1, <3>1, <3>2 DEF Uses, Target, HasStarted
  <2>5. QED
    BY <2>3, <2>4 DEF UsersHaveStarted
<1>7. QED
  BY <1>5, <1>6

(* What IsUncrowded says of the system that was spawned.                   *)
LEMMA NobodyTooMany ==
  ASSUME IsUncrowded(sys), NEW s \in Members
  PROVE  /\ \A c, d, e \in Settled : Uses(c, s) /\ Uses(d, s) /\ Uses(e, s) =>
              c = d \/ (Kind(s) \in Drivers /\ (c = e \/ d = e))
         /\ \A c \in Settled, d \in Members \ Settled :
              Uses(c, s) /\ Uses(d, s) =>
                /\ Kind(c) = "client"
                /\ \A n \in 1 .. Len(sys.order) : sys.order[n] = d =>
                     \E m \in 1 .. n - 1 : sys.order[m] = c
BY DEF IsUncrowded, Settled, Members, Uses, Kind, Links

(* Once a stranger calls, the settled client it shares the server with has *)
(* started.                                                                *)
LEMMA StrangersComeLater ==
  ASSUME StartInv, NEW s \in Members, NEW c \in Settled, Uses(c, s),
         NEW d \in Members \ Settled, Uses(d, s), HasStarted(d)
  PROVE  HasStarted(c)
<1>1. SetupTypeOK /\ Members \subseteq Components /\ Settled \subseteq Members
  BY MembersAreComponents DEF StartInv, SetupInv, Settled
<1>2. /\ Kind(c) = "client"
      /\ \A n \in 1 .. Len(sys.order) : sys.order[n] = d =>
           \E m \in 1 .. n - 1 : sys.order[m] = c
  BY NobodyTooMany DEF StartInv
<1>3. PICK n \in 1 .. Len(sys.order) :
        /\ sys.order[n] = d
        /\ \A m \in 1 .. n - 1 : phase[sys.order[m]] # "unborn"
  BY <1>1 DEF StartInv, BornInOrder, HasStarted
<1>4. phase[c] # "unborn"
  BY <1>2, <1>3
<1>5. phase[c] # "serving"
  BY <1>1, <1>2 DEF StartInv, SetupInv, Holds, Fresh
<1>6. QED
  BY <1>4, <1>5 DEF HasStarted

LEMMA PastShape ==
  ASSUME StartInv, NEW s \in Members, Past(s),
         Kind(s) \notin {"client", "blk_driver"}
  PROVE  /\ 1 \in DOMAIN Clients(s)
         /\ Kind(s) \in Drivers => 2 \in DOMAIN Clients(s)
         /\ Kind(s) \in Drivers => DOMAIN Clients(s) = {1, 2}
         /\ \A n \in DOMAIN Clients(s) :
              /\ Clients(s)[n] \in ClientType
              /\ Kind(s) \in Drivers => Clients(s)[n].chan # NoChan
<1>1. SetupTypeOK /\ s \in Components /\ Fresh(s) /\ RecordsAreSound(s)
  BY MembersAreComponents DEF StartInv, SetupInv, Holds
<1>2. CheckDone(Kind(s), Clients(s))
  BY <1>1 DEF Fresh
<1>3. /\ Clients(s) \in Seq(ClientType) /\ Len(Clients(s)) \in Nat
      /\ Len(Clients(s)) <= Places(Kind(s)) /\ Kind(s) \in Kinds
  BY <1>1, Typed
<1>4. CASE Kind(s) \in Drivers
  <2>1. Len(Clients(s)) = 2
    <3>1. Places(Kind(s)) = 2
      BY <1>4 DEF Places
    <3>2. Len(Clients(s)) >= 2
      BY <1>2, <1>4 DEF CheckDone
    <3>3. PICK l \in Nat : l = Len(Clients(s))
      BY <1>3
    <3>4. l <= 2 /\ l >= 2
      BY <1>3, <3>1, <3>2, <3>3
    <3>5. l = 2
      BY <3>4
    <3>6. QED
      BY <3>3, <3>5
  <2>3. DOMAIN Clients(s) = 1 .. 2
    BY <1>3, <2>1
  <2>4. ASSUME NEW n \in DOMAIN Clients(s)
        PROVE  Clients(s)[n] \in ClientType /\ Clients(s)[n].chan # NoChan
    <3>1. Initialized(Kind(s), Clients(s)[n])
      BY <1>2, <1>4, <2>3, <2>4 DEF CheckDone
    <3>2. RecordIsSound(Kind(s), Clients(s)[n])
      BY <1>1, <2>4 DEF RecordsAreSound
    <3>3. QED
      BY <1>3, <2>4, <3>1, <3>2, ElementTyped, InitializedShape
  <2>5. 1 .. 2 = {1, 2}
    OBVIOUS
  <2>6. QED
    BY <2>3, <2>4, <2>5
<1>5. CASE Kind(s) \notin Drivers
  <2>1. Len(Clients(s)) >= 1
    BY <1>2, <1>5 DEF CheckDone
  <2>2. 1 \in DOMAIN Clients(s)
    BY <1>3, <2>1
  <2>3. QED
    BY <1>3, <1>5, <2>2, ElementTyped
<1>6. QED
  BY <1>4, <1>5

LEMMA UsersHaveStartedLast ==
  ASSUME StartInv, NEW s \in Members, Past(s), NEW c \in Settled, Uses(c, s)
  PROVE  HasStarted(c)
<1>1. /\ SetupTypeOK /\ s \in Components /\ c \in Members
      /\ Members \subseteq Components /\ UsersHaveStarted(s) /\ BitsAreOwn(s)
  BY MembersAreComponents DEF StartInv, SetupInv, Holds, Settled
<1>2. Kind(s) \notin {"client", "blk_driver"}
  BY <1>1, LinkLeads DEF Uses
<1>3. SUFFICES ASSUME ~HasStarted(c) PROVE FALSE
  OBVIOUS
<1>4. ASSUME NEW n \in DOMAIN Clients(s)
      PROVE  /\ Clients(s)[n].id \in Settled /\ Uses(Clients(s)[n].id, s)
             /\ Clients(s)[n].id # c
  <2>1. PICK d : d = Clients(s)[n].id
    OBVIOUS
  <2>2. d \in Members /\ Uses(d, s) /\ HasStarted(d)
    BY <1>1, <1>4, <2>1 DEF UsersHaveStarted
  <2>3. d # c
    BY <1>3, <2>2
  <2>4. d \in Settled
    BY <1>3, <2>2, StrangersComeLater
  <2>5. QED
    BY <2>1, <2>2, <2>3, <2>4
<1>5. /\ 1 \in DOMAIN Clients(s)
      /\ Kind(s) \in Drivers => 2 \in DOMAIN Clients(s)
  BY <1>2, PastShape
<1>6. \A d, e \in Settled : Uses(d, s) /\ Uses(e, s) =>
        c = d \/ (Kind(s) \in Drivers /\ (c = e \/ d = e))
  BY NobodyTooMany DEF StartInv
<1>7. Kind(s) \in Drivers
  BY <1>4, <1>5, <1>6
<1>8. Clients(s)[1].id # Clients(s)[2].id
  BY <1>1, <1>5, <1>7 DEF BitsAreOwn
<1>9. QED
  BY <1>4, <1>5, <1>6, <1>7, <1>8

LEMMA DriversHaveBoth ==
  ASSUME StartInv, NEW s \in Members, Past(s), Kind(s) \in Drivers
  PROVE  {Clients(s)[n].virt : n \in DOMAIN Clients(s)} = Virts
<1>1. Kind(s) \notin {"client", "blk_driver"}
  BY DEF Drivers
<1>2. /\ DOMAIN Clients(s) = {1, 2}
      /\ \A n \in DOMAIN Clients(s) : /\ Clients(s)[n] \in ClientType
                                      /\ Clients(s)[n].chan # NoChan
  BY <1>1, PastShape
<1>3. s \in Components /\ RecordsAreSound(s) /\ VirtsDiffer(s)
  BY MembersAreComponents DEF StartInv, SetupInv, Holds
<1>4. \A n \in DOMAIN Clients(s) :
        Clients(s)[n].virt \in Virts /\ Clients(s)[n].virt # Nothing
  <2>1. \A n \in DOMAIN Clients(s) : Clients(s)[n].virt # Nothing
    BY <1>2, <1>3 DEF RecordsAreSound, RecordIsSound
  <2>2. \A n \in DOMAIN Clients(s) :
          Clients(s)[n].virt \in Virts \cup {Nothing}
    BY <1>2 DEF ClientType
  <2>3. QED
    BY <2>1, <2>2
<1>5. Clients(s)[1].virt # Clients(s)[2].virt
  BY <1>2, <1>3, <1>4 DEF VirtsDiffer
<1>6. PICK a, b : a = Clients(s)[1].virt /\ b = Clients(s)[2].virt
  OBVIOUS
<1>7. a \in Virts /\ b \in Virts /\ a # b
  BY <1>2, <1>4, <1>5, <1>6
<1>8. {Clients(s)[n].virt : n \in DOMAIN Clients(s)} = {a, b}
  BY <1>2, <1>6
<1>9. QED
  BY <1>7, <1>8 DEF Virts

LEMMA StartInvSteps ==
  ASSUME StartInv, [SetupNext]_setupVars
  PROVE  StartInv'
<1>1. SetupInv /\ sys' = sys
  BY SystemStays DEF StartInv
<1>2. SetupInv' /\ BornInOrder'
  BY <1>1, SetupSteps, OrderStays DEF StartInv
<1>3. IsUncrowded(sys)'
  BY <1>1 DEF StartInv
<1>4. ASSUME NEW s \in Components
      PROVE  VirtsDiffer(s)' /\ UsersHaveStarted(s)'
  <2>1. UsersHaveStarted(s)'
    BY <1>1, <1>4, UsersStay DEF StartInv
  <2>2. CASE srv'[s] = srv[s]
    BY <1>1, <2>1, <2>2, VirtsStay DEF StartInv
  <2>3. CASE srv'[s] # srv[s]
    <3>1. PICK t \in Members, c \in Members : Serve(t, c)
      BY <1>1, <2>3, SrvChanges
    <3>2. t = s
      BY <1>1, <2>3, <3>1, ServeShape
    <3>3. QED
      BY <1>1, <2>1, <3>1, <3>2, ServeVirts DEF StartInv
  <2>4. QED
    BY <2>2, <2>3
<1>5. QED
  BY <1>2, <1>3, <1>4 DEF StartInv

LEMMA StartInvStarts ==
  ASSUME SetupInit, IsUncrowded(sys)
  PROVE  StartInv
<1>1. SetupInv
  BY SetupStarts
<1>2. \A c \in Components : Clients(c) = <<>> /\ phase[c] = "unborn"
  BY DEF SetupInit, Clients, NoSrv
<1>3. QED
  BY <1>1, <1>2 DEF StartInv, BornInOrder, VirtsDiffer, UsersHaveStarted

(* A device is started only after all that is settled behind it, and with  *)
(* both of its virtualisers, wherever nobody is spawned whom a server has  *)
(* no place for.                                                           *)
THEOREM SetupStartsDevicesLast ==
  SetupSpec /\ IsUncrowded(sys) => []DevicesStartLast
<1>1. SetupInit /\ IsUncrowded(sys) => StartInv
  BY StartInvStarts
<1>2. StartInv /\ [SetupNext]_setupVars => StartInv'
  BY StartInvSteps
<1>3. StartInv => DevicesStartLast
  BY UsersHaveStartedLast, DriversHaveBoth DEF DevicesStartLast, HasStarted
<1>4. QED
  BY <1>1, <1>2, <1>3, PTL DEF SetupSpec

-----------------------------------------------------------------------------
(* How channels come in pairs.  What a client has, or is about to have; a  *)
(* channel and the server's record of it; and how far the client is.       *)
Awaited(c) == IsChannel(call[c].req) /\ call[c].answer = "ok"
Known(c) == chans[c] \cup (IF Awaited(c) THEN {Channel(c)} ELSE {})
Fits(c, ch, cl) ==
  /\ cl.id = c /\ cl.chan # NoChan
  /\ cl.chan.from = ch.to /\ cl.chan.to = ch.from
Recorded(c, ch) ==
  \E n \in DOMAIN Clients(ch.peer) : Fits(c, ch, Clients(ch.peer)[n])
Reached(c, ch) ==
  \E j \in DOMAIN Links(c) :
    /\ Links(c)[j].to = ch.peer
    /\ \/ j < pos[c][1]
       \/ j = pos[c][1] /\ (pos[c][2] > 2 \/ (pos[c][2] = 2 /\ Awaited(c)))
OfKind(ch) == ch.kind = IF Kind(ch.peer) = "timer" THEN "recv" ELSE "bi"
KnowsRecords(c) ==
  \A s \in Components : \A n \in DOMAIN Clients(s) :
    Filed(s, n) /\ Clients(s)[n].id = c =>
      \E ch \in Known(c) : ch.peer = s /\ Fits(c, ch, Clients(s)[n])
Meets(c) ==
  c \notin sys.unruly /\ phase[c] # "dead" =>
    /\ \A ch \in Known(c) : Recorded(c, ch) /\ Reached(c, ch) /\ OfKind(ch)
    /\ KnowsRecords(c)

TableIsFiled(c) == phase[c] = "running" => table[c] = Entries(c)
PeersAreClients(s) ==
  \A n \in DOMAIN Clients(s) :
    Filed(s, n) => Clients(s)[n].chan.peer = Clients(s)[n].id

(* Where nobody is unruly no bit is forgotten.                             *)
Used(c, k) ==
  \/ HasIrq(Kind(c)) /\ k = 1
  \/ \E ch \in chans[c] : ch.from = k
  \/ /\ Kind(c) # "timer"
     /\ \E n \in DOMAIN Clients(c) :
          Filed(c, n) /\ Clients(c)[n].chan.from = k
  \/ IsPending(c) /\ call[c].bit = k
BitsAreUsed(c) ==
  sys.unruly = {} /\ phase[c] # "dead" =>
    \A k \in 1 .. Len(bits[c]) : Used(c, k)

PairInv ==
  /\ SetupInv
  /\ \A c \in Components : /\ Meets(c) /\ BitsAreUsed(c)
                           /\ TableIsFiled(c) /\ PeersAreClients(c)

-----------------------------------------------------------------------------
(* A channel is asked for once.                                            *)
LEMMA AskedOnce ==
  ASSUME SetupInv, NEW c \in Components, NEW s \in Components, Meets(c),
         c \notin sys.unruly, phase[c] = "calling", Asks(c, s),
         IsChannel(call[c].req)
  PROVE  /\ ~Awaited(c)
         /\ pos[c][2] = 2 /\ pos[c][1] \in DOMAIN Links(c) /\ Target(c) = s
         /\ \A n \in DOMAIN Clients(s) : Clients(s)[n].id = c => ~Filed(s, n)
<1>1. SetupTypeOK /\ CallIsDue(c)
  BY DEF SetupInv, Holds
<1>2. call[c] # NoCall
  BY NoCallTyped DEF Asks
<1>3. /\ pos[c][1] \in DOMAIN Links(c) /\ Target(c) = s
      /\ call[c].req \in Wanted(c) /\ Kind(s) \in Kinds \ {"client"}
  BY <1>2, CallLeads DEF Asks
<1>4. ~Awaited(c)
  BY SetupAssumption DEF Awaited, Asks, Answers
<1>5. pos[c][2] = 2
  <2>1. /\ call[c].req = Script(Kind(s))[pos[c][2]]
        /\ pos[c][2] \in 1 .. Len(Script(Kind(s)))
    BY <1>1, <1>3, WantedShape
  <2>2. /\ Script(Kind(s))[1] = "open" /\ Len(Script(Kind(s))) \in 2 .. 5
        /\ \A j \in 3 .. Len(Script(Kind(s))) :
             Script(Kind(s))[j] \in Queues \cup {"provide", "get"}
    BY <1>3, ScriptShape
  <2>3. pos[c][2] # 1 /\ pos[c][2] \notin 3 .. Len(Script(Kind(s)))
    BY <2>1, <2>2 DEF IsChannel, Queues
  <2>4. QED
    BY <2>1, <2>2, <2>3
<1>6. \A ch \in Known(c) : ch.peer # s
  <2>1. SUFFICES ASSUME NEW ch \in Known(c), ch.peer = s PROVE FALSE
    OBVIOUS
  <2>2. PICK j \in DOMAIN Links(c) :
          /\ Links(c)[j].to = s
          /\ \/ j < pos[c][1]
             \/ j = pos[c][1] /\ (pos[c][2] > 2 \/ (pos[c][2] = 2 /\ Awaited(c)))
    BY <2>1 DEF Meets, Reached
  <2>3. j = pos[c][1]
    BY <1>1, <1>3, <2>2, LinkLeads DEF Target
  <2>4. QED
    <3>1. j \in Nat
      BY <1>1, <2>3, Typed
    <3>2. QED
      BY <1>4, <1>5, <2>2, <2>3, <3>1
<1>7. QED
  BY <1>3, <1>4, <1>5, <1>6 DEF Meets, KnowsRecords

(* Steps that leave the records and a client's channels as they were.      *)
LEMMA MeetsStays ==
  ASSUME NEW c, sys' = sys, srv' = srv, Meets(c),
         phase'[c] # "dead" => /\ phase[c] # "dead" /\ Known(c)' = Known(c)
                               /\ pos'[c] = pos[c] /\ (Awaited(c)' <=> Awaited(c))
  PROVE  Meets(c)'
<1>1. /\ \A d : Clients(d)' = Clients(d) /\ Kind(d)' = Kind(d)
      /\ Links(c)' = Links(c)
  BY DEF Clients, Kind, Links
<1>2. \A ch : /\ Recorded(c, ch)' <=> Recorded(c, ch)
              /\ OfKind(ch)' <=> OfKind(ch)
  BY <1>1 DEF Recorded, Fits, OfKind
<1>3. SUFFICES ASSUME c \notin sys.unruly, phase'[c] # "dead"
               PROVE  /\ \A ch \in Known(c)' : /\ Recorded(c, ch)'
                                               /\ Reached(c, ch)' /\ OfKind(ch)'
                      /\ KnowsRecords(c)'
  BY DEF Meets
<1>4. \A ch : Reached(c, ch) => Reached(c, ch)'
  BY <1>1, <1>3 DEF Reached
<1>5. KnowsRecords(c) => KnowsRecords(c)'
  BY <1>1, <1>3 DEF KnowsRecords, Filed, Fits
<1>6. QED
  BY <1>2, <1>3, <1>4, <1>5 DEF Meets

LEMMA BitsAreUsedStays ==
  ASSUME NEW c, sys' = sys, BitsAreUsed(c),
         phase'[c] # "dead" =>
           /\ phase[c] # "dead" /\ srv'[c] = srv[c] /\ bits'[c] = bits[c]
           /\ chans'[c] = chans[c]
           /\ IsPending(c) => IsPending(c)' /\ call'[c].bit = call[c].bit
  PROVE  BitsAreUsed(c)'
<1>1. Kind(c)' = Kind(c)
  BY DEF Kind
<1>2. SUFFICES ASSUME sys.unruly = {}, phase'[c] # "dead"
               PROVE  \A k \in 1 .. Len(bits'[c]) : Used(c, k)'
  BY DEF BitsAreUsed
<1>3. Clients(c)' = Clients(c) /\ \A n : Filed(c, n)' <=> Filed(c, n)
  BY <1>2 DEF Clients, Filed
<1>4. \A k : Used(c, k) => Used(c, k)'
  BY <1>1, <1>2, <1>3 DEF Used
<1>5. QED
  BY <1>2, <1>4 DEF BitsAreUsed

LEMMA TableStays ==
  ASSUME NEW c, sys' = sys, TableIsFiled(c),
         phase'[c] = "running" =>
           /\ phase[c] = "running" /\ srv'[c] = srv[c]
           /\ chans'[c] = chans[c] /\ table'[c] = table[c]
  PROVE  TableIsFiled(c)'
<1>1. SUFFICES ASSUME phase'[c] = "running" PROVE table'[c] = Entries(c)'
  BY DEF TableIsFiled
<1>2. Kind(c)' = Kind(c) /\ Clients(c)' = Clients(c)
  BY <1>1 DEF Kind, Clients
<1>3. Entries(c)' = Entries(c)
  BY <1>1, <1>2 DEF Entries, Served, OfClient
<1>4. QED
  BY <1>1, <1>3 DEF TableIsFiled

LEMMA PeersStay ==
  ASSUME NEW s, srv'[s] = srv[s], PeersAreClients(s)
  PROVE  PeersAreClients(s)'
BY DEF PeersAreClients, Filed, Clients

(* One component moves, and all records stay.                              *)
LEMMA PairsStay ==
  ASSUME PairInv, SetupInv', sys' = sys, srv' = srv, NEW c \in Components,
         \A d \in Components \ {c} : Same(d),
         Meets(c)', BitsAreUsed(c)', TableIsFiled(c)'
  PROVE  PairInv'
<1>1. \A d \in Components : PeersAreClients(d)'
  BY PeersStay DEF PairInv
<1>2. ASSUME NEW d \in Components \ {c}
      PROVE  Meets(d)' /\ BitsAreUsed(d)' /\ TableIsFiled(d)'
  <2>1. Same(d) /\ Meets(d) /\ BitsAreUsed(d) /\ TableIsFiled(d)
    BY <1>2 DEF PairInv
  <2>2. /\ Awaited(d)' <=> Awaited(d)
        /\ Channel(d)' = Channel(d) /\ (IsPending(d)' <=> IsPending(d))
    BY <2>1 DEF Same, Awaited, Channel, IsPending
  <2>3. Known(d)' = Known(d)
    BY <2>1, <2>2 DEF Known, Same
  <2>5. Meets(d)'
    BY <2>1, <2>2, <2>3, MeetsStays DEF Same
  <2>6. BitsAreUsed(d)'
    BY <2>1, <2>2, BitsAreUsedStays DEF Same
  <2>7. TableIsFiled(d)'
    BY <2>1, TableStays DEF Same
  <2>8. QED
    BY <2>5, <2>6, <2>7
<1>3. QED
  BY <1>1, <1>2 DEF PairInv

LEMMA DyingKeepsPairs ==
  ASSUME PairInv, SetupInv', NEW c \in Components,
         phase' = [phase EXCEPT ![c] = "dead"],
         call' = call \/ call' = [call EXCEPT ![c] = NoCall],
         UNCHANGED <<sys, pos, srv, bits, chans, table>>
  PROVE  PairInv'
<1>1. SetupTypeOK
  BY DEF PairInv, SetupInv
<1>2. phase'[c] = "dead" /\ \A d \in Components \ {c} : Same(d)
  BY <1>1 DEF SetupTypeOK, Same
<1>3. Meets(c)' /\ BitsAreUsed(c)' /\ TableIsFiled(c)'
  BY <1>2 DEF Meets, BitsAreUsed, TableIsFiled
<1>4. QED
  BY <1>2, <1>3, PairsStay

LEMMA StartKeepsPairs ==
  ASSUME PairInv, SetupInv', NEW c \in Members, Start(c)
  PROVE  PairInv'
<1>1. SetupTypeOK /\ c \in Components /\ Meets(c)
  BY MembersAreComponents DEF PairInv, SetupInv
<1>2. /\ phase[c] = "unborn" /\ phase'[c] \in {"calling", "serving"}
      /\ bits'[c] = IF HasIrq(Kind(c)) THEN <<"irq">> ELSE <<>>
      /\ UNCHANGED <<sys, pos, srv, chans, table, call, faults>>
      /\ \A d \in Components \ {c} : Same(d)
  BY <1>1 DEF Start, SetupTypeOK, Same
<1>3. Meets(c)'
  <2>1. (Awaited(c)' <=> Awaited(c)) /\ Channel(c)' = Channel(c)
    BY <1>2 DEF Awaited, Channel
  <2>2. Known(c)' = Known(c)
    BY <1>2, <2>1 DEF Known
  <2>3. QED
    BY <1>1, <1>2, <2>1, <2>2, MeetsStays
<1>4. BitsAreUsed(c)'
  <2>1. Kind(c)' = Kind(c)
    BY <1>2 DEF Kind
  <2>2. CASE HasIrq(Kind(c))
    <3>1. 1 .. Len(bits'[c]) = {1}
      BY <1>2, <2>2
    <3>2. QED
      BY <2>1, <2>2, <3>1 DEF BitsAreUsed, Used
  <2>3. CASE ~HasIrq(Kind(c))
    <3>1. 1 .. Len(bits'[c]) = {}
      BY <1>2, <2>3
    <3>2. QED
      BY <3>1 DEF BitsAreUsed
  <2>4. QED
    BY <2>2, <2>3
<1>5. TableIsFiled(c)'
  BY <1>2 DEF TableIsFiled
<1>6. QED
  BY <1>1, <1>2, <1>3, <1>4, <1>5, PairsStay

LEMMA RequestKeepsPairs ==
  ASSUME PairInv, SetupInv', NEW c \in Members, NEW req, Request(c, req)
  PROVE  PairInv'
<1>1. SetupTypeOK /\ SetupTypeOK' /\ c \in Components /\ Meets(c)
      /\ BitsAreUsed(c) /\ BitsAreOwn(c)'
  BY MembersAreComponents DEF PairInv, SetupInv, Holds
<1>2. /\ UNCHANGED <<sys, phase, pos, srv, chans, table, faults>>
      /\ phase[c] = "calling" /\ call[c] = NoCall
      /\ \A d \in Components \ {c} : Same(d)
  BY <1>1 DEF Request, Ready, SetupTypeOK, Same
<1>3. PICK virt, shared :
        call'[c] = Asking(Target(c), req, virt, Len(bits'[c]), shared)
  BY <1>1 DEF Request, SetupTypeOK
<1>4. call'[c].req = req /\ call'[c].answer = Nothing
      /\ call'[c].bit = Len(bits'[c])
  BY <1>3 DEF Asking
<1>5. ~Awaited(c) /\ ~Awaited(c)'
  BY <1>2, <1>4, NoCallTyped, SetupAssumption DEF Awaited, Answers
<1>6. Meets(c)'
  <2>1. Known(c)' = Known(c)
    BY <1>2, <1>5 DEF Known
  <2>2. QED
    BY <1>1, <1>2, <1>5, <2>1, MeetsStays
<1>7. BitsAreUsed(c)'
  <2>1. ~IsPending(c)
    BY <1>2 DEF IsPending
  <2>2. Kind(c)' = Kind(c) /\ Clients(c)' = Clients(c)
        /\ \A n : Filed(c, n)' <=> Filed(c, n)
    BY <1>2 DEF Kind, Clients, Filed
  <2>3. \A k : Used(c, k) => Used(c, k)'
    BY <1>2, <2>1, <2>2 DEF Used
  <2>4. CASE ~IsChannel(req)
    <3>1. bits'[c] = bits[c]
      BY <1>1, <2>4 DEF Request, SetupTypeOK
    <3>2. QED
      BY <1>1, <1>2, <2>3, <3>1 DEF BitsAreUsed
  <2>5. CASE IsChannel(req)
    <3>1. bits[c] \in Seq(Components \cup {"irq"})
      BY <1>1, Typed
    <3>2. bits'[c] = Append(bits[c], Target(c))
      BY <1>1, <2>5 DEF Request, SetupTypeOK
    <3>3. Len(bits[c]) \in Nat /\ Len(bits'[c]) = Len(bits[c]) + 1
      BY <3>1, <3>2
    <3>4. IsPending(c)'
      <4>2. call'[c].req # Nothing
        BY <1>4, <2>5, SetupAssumption DEF IsChannel, Requests
      <4>3. call'[c] # NoCall
        BY <4>2, NoCallTyped
      <4>4. IsChannel(call'[c].req)
        BY <1>4, <2>5
      <4>5. QED
        BY <4>3, <4>4 DEF IsPending, NoCall, Asking
    <3>5. \A k : k = Len(bits'[c]) => Used(c, k)'
      BY <1>4, <3>4 DEF Used
    <3>6. ASSUME NEW k \in 1 .. Len(bits'[c])
          PROVE  k = Len(bits'[c]) \/ k \in 1 .. Len(bits[c])
      <4>1. PICK l \in Nat : l = Len(bits[c])
        BY <3>3
      <4>2. Len(bits'[c]) = l + 1
        BY <3>3, <4>1
      <4>3. k \in 1 .. l + 1
        BY <4>2
      <4>4. k = l + 1 \/ k \in 1 .. l
        BY <4>1, <4>3
      <4>5. QED
        BY <4>1, <4>2, <4>4
    <3>7. \A k \in 1 .. Len(bits'[c]) : sys.unruly = {} => Used(c, k)'
      BY <1>1, <1>2, <2>3, <3>5, <3>6 DEF BitsAreUsed
    <3>8. QED
      BY <1>2, <3>7 DEF BitsAreUsed
  <2>6. QED
    BY <2>4, <2>5
<1>8. TableIsFiled(c)'
  BY <1>2 DEF TableIsFiled
<1>9. QED
  BY <1>1, <1>2, <1>6, <1>7, <1>8, PairsStay

LEMMA ProceedKeepsPairs ==
  ASSUME PairInv, SetupInv', NEW c \in Members, Proceed(c)
  PROVE  PairInv'
<1>1. SetupInv /\ SetupTypeOK /\ c \in Components /\ Meets(c)
      /\ BitsAreUsed(c) /\ CallIsDue(c)
  BY MembersAreComponents DEF PairInv, SetupInv, Holds
<1>2. /\ UNCHANGED <<sys, phase, srv, bits, table, faults>>
      /\ phase[c] = "calling" /\ call[c].answer # Nothing
      /\ call'[c] = NoCall /\ pos'[c] = Onward(c)
      /\ chans'[c] = IF Awaited(c) THEN chans[c] \cup {Channel(c)} ELSE chans[c]
      /\ \A d \in Components \ {c} : Same(d)
  BY <1>1 DEF Proceed, Answered, Awaited, SetupTypeOK, Same
<1>3. c \notin sys.unruly => call[c].answer = "ok"
  BY DEF Proceed
<1>4. pos[c][1] \in DOMAIN Links(c)
  BY <1>1, <1>2, CallLeads, NoCallTyped
<1>5. ~Awaited(c)'
  BY <1>2, NoCallTyped, SetupAssumption DEF Awaited, Answers
<1>6. Known(c)' = Known(c)
  BY <1>2, <1>5 DEF Known
<1>7. Meets(c)'
  <2>1. SUFFICES ASSUME c \notin sys.unruly PROVE Meets(c)'
    BY <1>2 DEF Meets
  <2>2. /\ \A d : Clients(d)' = Clients(d) /\ Kind(d)' = Kind(d)
        /\ Links(c)' = Links(c)
    BY <1>2 DEF Clients, Kind, Links
  <2>3. \A ch : /\ Recorded(c, ch)' <=> Recorded(c, ch)
                /\ OfKind(ch)' <=> OfKind(ch)
    BY <2>2 DEF Recorded, Fits, OfKind
  <2>4. KnowsRecords(c)'
    <3>1. KnowsRecords(c)
      BY <1>1, <1>2, <2>1 DEF Meets
    <3>2. QED
      BY <1>6, <2>2, <3>1 DEF KnowsRecords, Filed, Fits
  <2>5. ASSUME NEW ch, Reached(c, ch)
        PROVE  Reached(c, ch)'
    <3>1. pos[c][1] \in Nat /\ pos[c][2] \in Nat
      BY <1>1, Typed
    <3>2. \/ pos'[c][1] = pos[c][1] /\ pos'[c][2] = pos[c][2] + 1
          \/ pos'[c][1] = pos[c][1] + 1
      BY <1>1, <1>2, <1>4, OnwardShape
    <3>3. PICK j \in DOMAIN Links(c) :
            /\ Links(c)[j].to = ch.peer
            /\ \/ j < pos[c][1]
               \/ /\ j = pos[c][1]
                  /\ pos[c][2] > 2 \/ (pos[c][2] = 2 /\ Awaited(c))
      BY <2>5 DEF Reached
    <3>4. j \in Nat
      BY <1>1, <3>3, Typed, ElementTyped
    <3>5. j < pos'[c][1] \/ (j = pos'[c][1] /\ pos'[c][2] > 2)
      <4>1. \/ j < pos[c][1]
            \/ j = pos[c][1] /\ pos[c][2] >= 2
        BY <3>1, <3>3
      <4>2. PICK m \in Nat, n \in Nat : m = pos[c][1] /\ n = pos[c][2]
        BY <3>1
      <4>3. PICK v, w : v = pos'[c][1] /\ w = pos'[c][2]
        OBVIOUS
      <4>4. (v = m /\ w = n + 1) \/ v = m + 1
        BY <3>2, <4>2, <4>3
      <4>5. j < m \/ (j = m /\ n >= 2)
        BY <4>1, <4>2
      <4>6. j < v \/ (j = v /\ w > 2)
        BY <3>4, <4>2, <4>4, <4>5
      <4>7. QED
        BY <4>3, <4>6
    <3>6. QED
      BY <2>2, <3>3, <3>5 DEF Reached
  <2>6. \A ch \in Known(c) : Recorded(c, ch) /\ Reached(c, ch) /\ OfKind(ch)
    BY <1>1, <1>2, <2>1 DEF Meets
  <2>7. QED
    BY <1>6, <2>3, <2>4, <2>5, <2>6 DEF Meets
<1>8. BitsAreUsed(c)'
  <2>1. SUFFICES ASSUME sys.unruly = {} PROVE BitsAreUsed(c)'
    BY <1>2 DEF BitsAreUsed
  <2>2. IsPending(c) => Awaited(c)
    BY <1>3, <2>1 DEF IsPending, Awaited
  <2>3. Kind(c)' = Kind(c) /\ Clients(c)' = Clients(c)
        /\ \A n : Filed(c, n)' <=> Filed(c, n)
    BY <1>2 DEF Kind, Clients, Filed
  <2>4. Channel(c).from = call[c].bit
    BY DEF Channel
  <2>5. chans[c] \subseteq chans'[c]
    BY <1>2
  <2>6. IsPending(c) => \E ch \in chans'[c] : ch.from = call[c].bit
    BY <1>2, <2>2, <2>4
  <2>7. \A k : Used(c, k) => Used(c, k)'
    BY <2>3, <2>5, <2>6 DEF Used
  <2>8. QED
    BY <1>1, <1>2, <2>1, <2>7 DEF BitsAreUsed
<1>9. TableIsFiled(c)'
  BY <1>2 DEF TableIsFiled
<1>10. QED
  BY <1>1, <1>2, <1>7, <1>8, <1>9, PairsStay DEF PairInv

LEMMA SetChannelsKeepsPairs ==
  ASSUME PairInv, SetupInv', NEW c \in Members, SetChannels(c)
  PROVE  PairInv'
<1>1. SetupTypeOK /\ c \in Components /\ Meets(c) /\ BitsAreUsed(c)
  BY MembersAreComponents DEF PairInv, SetupInv
<1>2. CASE ~CanSet(c)
  BY <1>1, <1>2, DyingKeepsPairs DEF SetChannels, Dies
<1>3. CASE CanSet(c)
  <2>1. /\ phase'[c] = "running" /\ phase[c] = "calling"
        /\ table'[c] = Entries(c)
        /\ UNCHANGED <<sys, pos, srv, bits, chans, call, faults>>
        /\ \A d \in Components \ {c} : Same(d)
    BY <1>1, <1>3 DEF SetChannels, AllCalled, SetupTypeOK, Same
  <2>2. /\ Awaited(c)' <=> Awaited(c)
        /\ Channel(c)' = Channel(c) /\ (IsPending(c)' <=> IsPending(c))
    BY <2>1 DEF Awaited, Channel, IsPending
  <2>3. Known(c)' = Known(c)
    BY <2>1, <2>2 DEF Known
  <2>4. Meets(c)' /\ BitsAreUsed(c)'
    BY <1>1, <2>1, <2>2, <2>3, MeetsStays, BitsAreUsedStays
  <2>5. TableIsFiled(c)'
    <3>1. Kind(c)' = Kind(c) /\ Clients(c)' = Clients(c)
      BY <2>1 DEF Kind, Clients
    <3>2. Entries(c)' = Entries(c)
      BY <2>1, <3>1 DEF Entries, Served, OfClient
    <3>3. QED
      BY <2>1, <3>2 DEF TableIsFiled
  <2>6. QED
    BY <1>1, <2>1, <2>4, <2>5, PairsStay
<1>4. QED
  BY <1>2, <1>3

LEMMA PpcallKeepsPairs ==
  ASSUME PairInv, SetupInv', NEW c \in Members, Ppcall(c)
  PROVE  PairInv'
<1>1. SetupTypeOK /\ c \in Components /\ Meets(c) /\ BitsAreUsed(c)
      /\ TableIsFiled(c)
  BY MembersAreComponents DEF PairInv, SetupInv
<1>2. /\ phase[c] = "running" /\ call[c] = NoCall
      /\ UNCHANGED <<sys, phase, pos, srv, bits, chans, table, faults>>
      /\ \A d \in Components \ {c} : Same(d)
  BY <1>1 DEF Ppcall, SetupTypeOK, Same
<1>3. call'[c].req = "ppcall"
  BY <1>1 DEF Ppcall, SetupTypeOK, Asking
<1>4. ~Awaited(c) /\ ~Awaited(c)' /\ ~IsPending(c)
  BY <1>2, <1>3, NoCallTyped, SetupAssumption
  DEF Awaited, IsPending, Answers, IsChannel
<1>5. Known(c)' = Known(c)
  BY <1>2, <1>4 DEF Known
<1>6. Meets(c)' /\ BitsAreUsed(c)' /\ TableIsFiled(c)'
  BY <1>1, <1>2, <1>4, <1>5, MeetsStays, BitsAreUsedStays, TableStays
<1>7. QED
  BY <1>1, <1>2, <1>6, PairsStay

(* A running server answers; what it answers, it tells nobody of a new     *)
(* channel.                                                                *)
LEMMA AnswerKeepsPairs ==
  ASSUME PairInv, SetupInv', NEW c \in Components, NEW s \in Components,
         Asks(c, s), NEW what \in Answers, Answer(c, what, 0),
         what = "ok" => \/ c \in sys.unruly \/ phase[c] = "dead"
                        \/ ~IsChannel(call[c].req),
         UNCHANGED <<sys, phase, pos, srv, bits, chans, table>>
  PROVE  PairInv'
<1>1. SetupTypeOK /\ Meets(c) /\ BitsAreUsed(c) /\ TableIsFiled(c)
  BY DEF PairInv, SetupInv
<1>2. /\ call'[c].answer = what
      /\ call'[c].req = call[c].req /\ call'[c].bit = call[c].bit
      /\ call'[c] # NoCall
      /\ \A d \in Components \ {c} : call'[d] = call[d]
  BY <1>1, AnswerGiven DEF Answers
<1>3. \A d \in Components \ {c} : Same(d)
  BY <1>2 DEF Same
<1>4. ~Awaited(c)
  BY NoCallTyped DEF Asks, Awaited, Answers
<1>5. Meets(c)'
  <2>1. SUFFICES ASSUME c \notin sys.unruly, phase[c] # "dead"
                 PROVE  Meets(c)'
    BY DEF Meets
  <2>2. ~Awaited(c)'
    BY <1>2, <2>1 DEF Awaited, IsChannel
  <2>3. Known(c)' = Known(c)
    BY <1>4, <2>2 DEF Known
  <2>4. QED
    BY <1>1, <1>4, <2>1, <2>2, <2>3, MeetsStays
<1>6. IsPending(c) => IsPending(c)'
  BY <1>2 DEF IsPending, IsChannel, NoCall, Asking
<1>7. BitsAreUsed(c)' /\ TableIsFiled(c)'
  BY <1>1, <1>2, <1>6, BitsAreUsedStays, TableStays
<1>8. QED
  BY <1>3, <1>5, <1>7, PairsStay

LEMMA LateKeepsPairs ==
  ASSUME PairInv, SetupInv', NEW s \in Members, NEW c \in Members,
         ServeDies(s, c) \/ Drops(s, c) \/ Protected(s, c)
  PROVE  PairInv'
<1>1. /\ SetupInv /\ SetupTypeOK /\ c \in Components /\ s \in Components
      /\ Meets(c) /\ CallIsDue(c) /\ Fresh(c) /\ Fresh(s)
      /\ RecordsAreSound(s)
  BY MembersAreComponents DEF PairInv, SetupInv, Holds
<1>2. CASE ServeDies(s, c)
  BY <1>1, <1>2, DyingKeepsPairs DEF ServeDies, Dies
<1>3. CASE Drops(s, c)
  <2>1. "never" \in Answers /\ "never" # "ok"
    BY DEF Answers
  <2>2. QED
    BY <1>1, <1>3, <2>1, AnswerKeepsPairs DEF Drops
<1>4. CASE Protected(s, c) /\ Clients(s)[1].id # c
  BY <1>1, <1>4, DyingKeepsPairs DEF Protected, Dies
<1>5. CASE Protected(s, c) /\ Clients(s)[1].id = c
  <2>1. /\ phase[s] = "running" /\ Kind(s) = "timer" /\ Asks(c, s)
        /\ Answer(c, "ok", 0)
        /\ UNCHANGED <<sys, phase, pos, srv, bits, chans, table>>
    BY <1>5 DEF Protected
  <2>2. call[c] # NoCall
    BY <1>1, <2>1, NoCallTyped DEF Asks
  <2>3. \/ c \in sys.unruly \/ phase[c] = "dead" \/ ~IsChannel(call[c].req)
    <3>1. SUFFICES ASSUME c \notin sys.unruly, phase[c] # "dead",
                          IsChannel(call[c].req)
                   PROVE  FALSE
      OBVIOUS
    <3>2. phase[c] = "calling"
      <4>1. call[c].req # "ppcall"
        BY <3>1 DEF IsChannel
      <4>2. QED
        BY <1>1, <2>2, <4>1 DEF CallIsDue
    <3>3. \A n \in DOMAIN Clients(s) : Clients(s)[n].id = c => ~Filed(s, n)
      BY <1>1, <2>1, <3>1, <3>2, AskedOnce
    <3>4. 1 \in Served(s)
      <4>1. CheckDone(Kind(s), Clients(s))
        BY <1>1, <2>1 DEF Fresh, Past
      <4>2. Len(Clients(s)) >= 1
        BY <2>1, <4>1 DEF CheckDone, Drivers
      <4>3. Clients(s) \in Seq(ClientType) /\ Len(Clients(s)) \in Nat
        BY <1>1, Typed
      <4>4. 1 \in DOMAIN Clients(s)
        BY <4>2, <4>3
      <4>5. QED
        BY <4>4 DEF Served
    <3>5. 1 \in DOMAIN Clients(s) /\ Clients(s)[1].chan # NoChan
      BY <1>1, <2>1, <3>4, ServedHaveChannels DEF Past
    <3>6. QED
      BY <1>5, <3>3, <3>5 DEF Filed
  <2>4. "ok" \in Answers
    BY DEF Answers
  <2>5. QED
    BY <1>1, <2>1, <2>3, <2>4, AnswerKeepsPairs
<1>6. QED
  BY <1>2, <1>3, <1>4, <1>5

(* What a served call does to the channels on record.                      *)
LEMMA FiledMoves ==
  ASSUME PairInv, NEW s \in Members, NEW c \in Members, Serve(s, c),
         NEW cls, cls = Clients(s)', NEW n \in DOMAIN cls,
         cls[n].chan # NoChan
  PROVE  \/ /\ n \in DOMAIN Clients(s) /\ Filed(s, n)
            /\ cls[n].chan = Clients(s)[n].chan
            /\ cls[n].id = Clients(s)[n].id
         \/ /\ Revises(s, c) /\ IsChannel(call[c].req) /\ n = Record(s, c)
            /\ cls[n].id = c /\ cls[n].chan = Opened(s, c)
<1>1. SetupInv /\ c \in Components
  BY MembersAreComponents DEF PairInv, SetupInv
<1>2. \/ n \in DOMAIN Clients(s) /\ cls[n] = Clients(s)[n]
      \/ cls[n] = NewClient(c)
      \/ /\ Revises(s, c) /\ n \in DOMAIN Clients(s)
         /\ n = Record(s, c) /\ cls[n] = Revised(s, c)
  BY <1>1, RecordMoves
<1>3. CASE n \in DOMAIN Clients(s) /\ cls[n] = Clients(s)[n]
  BY <1>3 DEF Filed
<1>4. CASE cls[n] = NewClient(c)
  BY <1>1, <1>4, NewClientTyped
<1>5. CASE /\ Revises(s, c) /\ n \in DOMAIN Clients(s)
           /\ n = Record(s, c) /\ cls[n] = Revised(s, c)
  <2>1. PICK cl : cl = Clients(s)[Record(s, c)]
    OBVIOUS
  <2>2. /\ cl.id = c /\ Revised(s, c).id = cl.id
        /\ IsChannel(call[c].req) => Revised(s, c).chan = Opened(s, c)
        /\ ~IsChannel(call[c].req) => Revised(s, c).chan = cl.chan
    BY <1>1, <1>5, <2>1, Revision DEF Kept
  <2>3. QED
    BY <1>5, <2>1, <2>2 DEF Filed
<1>6. QED
  BY <1>2, <1>3, <1>4, <1>5

LEMMA FiledStays ==
  ASSUME PairInv, NEW s \in Members, NEW c \in Members, Serve(s, c),
         NEW cls, cls = Clients(s)', NEW n \in DOMAIN Clients(s),
         Filed(s, n), Clients(s)[n].id \notin sys.unruly
  PROVE  /\ n \in DOMAIN cls /\ cls[n].id = Clients(s)[n].id
         /\ cls[n].chan = Clients(s)[n].chan
<1>1. /\ SetupInv /\ c \in Components /\ s \in Components /\ Meets(c)
      /\ phase[s] = "serving" /\ Asks(c, s) /\ ~Unforeseen(s, c)
  BY ServeShape DEF PairInv
<1>2. /\ n \in DOMAIN cls /\ cls[n].id = Clients(s)[n].id
      /\ \/ cls[n] = Clients(s)[n]
         \/ Revises(s, c) /\ n = Record(s, c) /\ cls[n] = Revised(s, c)
  BY <1>1, RecordMoves
<1>3. CASE Revises(s, c) /\ n = Record(s, c) /\ cls[n] = Revised(s, c)
  <2>1. /\ Clients(s)[n].id = c
        /\ ~IsChannel(call[c].req) => Revised(s, c).chan = Clients(s)[n].chan
    BY <1>1, <1>3, Revision
  <2>2. ~IsChannel(call[c].req)
    <3>1. phase[c] = "calling"
      BY <1>1, Foreseen
    <3>2. c \notin sys.unruly
      BY <2>1
    <3>3. QED
      BY <1>1, <2>1, <3>1, <3>2, AskedOnce
  <2>3. QED
    BY <1>2, <1>3, <2>1, <2>2
<1>4. QED
  BY <1>2, <1>3

LEMMA ServeKeepsRecorded ==
  ASSUME PairInv, NEW s \in Members, NEW c \in Members, Serve(s, c),
         NEW d \in Components \ sys.unruly, NEW ch,
         ch.peer \in Components, Recorded(d, ch)
  PROVE  Recorded(d, ch)'
<1>1. \A e \in Components \ {s} : srv'[e] = srv[e]
  BY ServeShape DEF PairInv
<1>2. PICK n \in DOMAIN Clients(ch.peer) : Fits(d, ch, Clients(ch.peer)[n])
  BY DEF Recorded
<1>3. PICK cls : cls = Clients(ch.peer)'
  OBVIOUS
<1>4. \A cl : Fits(d, ch, cl)' <=> Fits(d, ch, cl)
  BY DEF Fits
<1>5. n \in DOMAIN cls /\ Fits(d, ch, cls[n])
  <2>1. CASE ch.peer = s
    <3>1. Filed(s, n) /\ Clients(s)[n].id = d
      BY <1>2, <2>1 DEF Fits, Filed
    <3>2. /\ n \in DOMAIN cls /\ cls[n].id = Clients(s)[n].id
          /\ cls[n].chan = Clients(s)[n].chan
      BY <1>2, <1>3, <2>1, <3>1, FiledStays
    <3>3. QED
      BY <1>2, <2>1, <3>2 DEF Fits
  <2>2. CASE ch.peer # s
    <3>1. srv'[ch.peer] = srv[ch.peer]
      BY <1>1, <2>2
    <3>2. QED
      BY <1>2, <1>3, <3>1 DEF Clients
  <2>3. QED
    BY <2>1, <2>2
<1>6. QED
  BY <1>3, <1>4, <1>5 DEF Recorded

(* What the caller knows of it.                                            *)
LEMMA ServeLetsKnow ==
  ASSUME PairInv, NEW s \in Members, NEW c \in Members, Serve(s, c)
  PROVE  /\ ~Awaited(c)
         /\ Awaited(c)' <=> Revises(s, c) /\ IsChannel(call[c].req)
         /\ Known(c) = chans[c] /\ chans'[c] = chans[c]
         /\ \A ch \in Known(c)' : ch \in Known(c) \/ ch = Channel(c)'
         /\ Known(c) \subseteq Known(c)'
         /\ Awaited(c)' => Channel(c)' \in Known(c)'
         /\ Channel(c)'.peer = s
         /\ Revises(s, c) => /\ Channel(c)'.from = Opened(s, c).to
                             /\ Channel(c)'.to = Opened(s, c).from
         /\ Channel(c)'.kind = IF call[c].req = "receive" THEN "recv" ELSE "bi"
<1>1. /\ Asks(c, s) /\ chans' = chans
      /\ call'[c].to = call[c].to /\ call'[c].req = call[c].req
      /\ call'[c].bit = call[c].bit
      /\ Refused(s, c) \/ Opens(s, c) \/ Revises(s, c)
  BY ServeShape DEF PairInv
<1>2. ~Awaited(c)
  BY <1>1, NoCallTyped DEF Asks, Awaited, Answers
<1>3. Awaited(c)' <=> call'[c].answer = "ok" /\ IsChannel(call[c].req)
  BY <1>1 DEF Awaited, IsChannel
<1>4. IsChannel(call[c].req) => call[c].req # "open"
  BY DEF IsChannel
<1>5. Awaited(c)' <=> Revises(s, c) /\ IsChannel(call[c].req)
  BY <1>1, <1>3, <1>4 DEF Refused, Opens, Revises
<1>6. /\ Known(c) = chans[c] /\ chans'[c] = chans[c]
      /\ \A ch \in Known(c)' : ch \in Known(c) \/ ch = Channel(c)'
      /\ Known(c) \subseteq Known(c)'
      /\ Awaited(c)' => Channel(c)' \in Known(c)'
  BY <1>1, <1>2 DEF Known
<1>7. Channel(c)'.peer = s
  BY <1>1 DEF Channel, Asks
<1>8. Revises(s, c) => /\ Channel(c)'.from = Opened(s, c).to
                       /\ Channel(c)'.to = Opened(s, c).from
  BY <1>1 DEF Channel, Opened, Revises
<1>9. Channel(c)'.kind = IF call[c].req = "receive" THEN "recv" ELSE "bi"
  BY <1>1 DEF Channel
<1>10. QED
  BY <1>2, <1>5, <1>6, <1>7, <1>8, <1>9

LEMMA ServeKeepsReached ==
  ASSUME PairInv, NEW s \in Members, NEW c \in Members, Serve(s, c),
         NEW d \in Components, NEW ch, Reached(d, ch)
  PROVE  Reached(d, ch)'
<1>1. /\ sys' = sys /\ pos' = pos
      /\ \A e \in Components \ {c} : call'[e] = call[e]
  BY ServeShape DEF PairInv
<1>2. Links(d)' = Links(d)
  BY <1>1 DEF Links
<1>3. Awaited(d) => Awaited(d)'
  <2>1. CASE d = c
    BY <2>1, ServeLetsKnow
  <2>2. CASE d # c
    BY <1>1, <2>2 DEF Awaited
  <2>3. QED
    BY <2>1, <2>2
<1>4. QED
  BY <1>1, <1>2, <1>3 DEF Reached

LEMMA ServeKeepsMeets ==
  ASSUME PairInv, NEW s \in Members, NEW c \in Members, Serve(s, c),
         NEW d \in Components
  PROVE  Meets(d)'
<1>1. /\ SetupInv /\ SetupTypeOK /\ s \in Components /\ c \in Components
      /\ Meets(d) /\ Meets(c)
      /\ phase[s] = "serving" /\ Asks(c, s) /\ ~Unforeseen(s, c)
      /\ UNCHANGED <<sys, pos, chans, table>>
      /\ \A e \in Components \ {s} : srv'[e] = srv[e]
      /\ \A e \in Components \ {c} : call'[e] = call[e]
  BY ServeShape DEF PairInv, SetupInv
<1>2. phase'[d] # "dead" => phase[d] # "dead"
  BY <1>1, ServeShape DEF SetupTypeOK
<1>3. SUFFICES ASSUME d \notin sys.unruly, phase[d] # "dead"
               PROVE  /\ \A ch \in Known(d)' : /\ Recorded(d, ch)'
                                               /\ Reached(d, ch)' /\ OfKind(ch)'
                      /\ KnowsRecords(d)'
  BY <1>1, <1>2 DEF Meets
<1>4. /\ \A ch \in Known(d) : Recorded(d, ch) /\ Reached(d, ch) /\ OfKind(ch)
      /\ KnowsRecords(d)
  BY <1>1, <1>3 DEF Meets
<1>5. \A ch : OfKind(ch)' <=> OfKind(ch)
  BY <1>1 DEF OfKind, Kind
<1>6. /\ Known(d) \subseteq Known(d)'
      /\ \A ch \in Known(d)' :
           \/ ch \in Known(d)
           \/ d = c /\ Awaited(c)' /\ ch = Channel(c)'
  <2>1. CASE d = c
    <3>1. ~Awaited(c)' => Known(c)' = chans'[c]
      BY DEF Known
    <3>2. QED
      BY <2>1, <3>1, ServeLetsKnow
  <2>2. CASE d # c
    <3>1. call'[d] = call[d] /\ chans'[d] = chans[d]
      BY <1>1, <2>2
    <3>2. Known(d)' = Known(d)
      BY <3>1 DEF Known, Awaited, Channel
    <3>3. QED
      BY <3>2
  <2>3. QED
    BY <2>1, <2>2
<1>7. PICK cls : cls = Clients(s)'
  OBVIOUS
<1>8. ASSUME d = c, Awaited(c)'
      PROVE  /\ Recorded(c, Channel(c))' /\ Reached(c, Channel(c))'
             /\ OfKind(Channel(c))'
  <2>1. /\ Revises(s, c) /\ IsChannel(call[c].req)
        /\ Channel(c)'.peer = s
        /\ Channel(c)'.from = Opened(s, c).to
        /\ Channel(c)'.to = Opened(s, c).from
        /\ Channel(c)'.kind = IF call[c].req = "receive" THEN "recv" ELSE "bi"
    BY <1>8, ServeLetsKnow
  <2>2. PICK ch : ch = Channel(c)'
    OBVIOUS
  <2>3. /\ Record(s, c) \in DOMAIN Clients(s)
        /\ Revised(s, c).chan = Opened(s, c) /\ Revised(s, c).id = c
        /\ Opened(s, c) # NoChan
        /\ Kind(s) = "timer" <=> call[c].req = "receive"
    <3>1. PICK cl : cl = Clients(s)[Record(s, c)]
      OBVIOUS
    <3>2. QED
      BY <1>1, <2>1, <3>1, Revision DEF Kept
  <2>4. Recorded(c, ch)'
    <3>1. cls = [Clients(s) EXCEPT ![Record(s, c)] = Revised(s, c)]
      BY <1>7, <2>1 DEF Revises
    <3>2. /\ Record(s, c) \in DOMAIN cls
          /\ cls[Record(s, c)] = Revised(s, c)
      BY <2>3, <3>1
    <3>3. PICK n : n = Record(s, c)
      OBVIOUS
    <3>4. n \in DOMAIN cls /\ Fits(c, ch, cls[n])
      BY <2>1, <2>2, <2>3, <3>2, <3>3 DEF Fits
    <3>5. ch.peer = s
      BY <2>1, <2>2
    <3>6. QED
      BY <1>7, <3>4, <3>5 DEF Recorded, Fits
  <2>5. Reached(c, ch)'
    <3>1. phase[c] = "calling"
      BY <1>1, Foreseen
    <3>2. /\ pos[c][2] = 2 /\ pos[c][1] \in DOMAIN Links(c)
          /\ Target(c) = s
      BY <1>1, <1>3, <1>8, <2>1, <3>1, AskedOnce
    <3>3. PICK j \in DOMAIN Links(c) : j = pos[c][1]
      BY <3>2
    <3>4. Links(c)[j].to = ch.peer
      BY <2>1, <2>2, <3>2, <3>3 DEF Target
    <3>5. Links(c)' = Links(c) /\ pos'[c] = pos[c]
      BY <1>1 DEF Links
    <3>6. QED
      BY <1>8, <3>2, <3>3, <3>4, <3>5 DEF Reached
  <2>6. OfKind(ch)
    BY <2>1, <2>2, <2>3 DEF OfKind
  <2>7. QED
    BY <1>5, <2>2, <2>4, <2>5, <2>6
<1>9. ASSUME NEW ch \in Known(d)'
      PROVE  Recorded(d, ch)' /\ Reached(d, ch)' /\ OfKind(ch)'
  <2>1. CASE ch \in Known(d)
    <3>1. Recorded(d, ch) /\ Reached(d, ch) /\ OfKind(ch)
      BY <1>4, <2>1
    <3>2. ch.peer \in Components
      BY <1>1, <3>1, LinkLeads DEF Reached
    <3>3. Recorded(d, ch)' /\ Reached(d, ch)'
      BY <1>3, <3>1, <3>2, ServeKeepsRecorded, ServeKeepsReached
    <3>4. QED
      BY <1>5, <3>1, <3>3
  <2>2. CASE d = c /\ Awaited(c)' /\ ch = Channel(c)'
    BY <1>8, <2>2
  <2>3. QED
    BY <1>6, <1>9, <2>1, <2>2
<1>10. KnowsRecords(d)'
  <2>1. ASSUME NEW t \in Components, NEW n \in DOMAIN Clients(t)',
               NEW cl, cl = Clients(t)'[n],
               cl.chan # NoChan, cl.id = d
        PROVE  \E ch \in Known(d)' : ch.peer = t /\ Fits(d, ch, cl)
    <3>1. CASE t # s
      <4>1. Clients(t)' = Clients(t)
        BY <1>1, <3>1 DEF Clients
      <4>2. QED
        BY <1>4, <1>6, <2>1, <4>1 DEF KnowsRecords, Filed
    <3>2. CASE /\ t = s /\ n \in DOMAIN Clients(s) /\ Filed(s, n)
               /\ cl.chan = Clients(s)[n].chan /\ cl.id = Clients(s)[n].id
      <4>1. PICK ch \in Known(d) :
              ch.peer = s /\ Fits(d, ch, Clients(s)[n])
        BY <1>1, <1>4, <2>1, <3>2 DEF KnowsRecords
      <4>2. QED
        BY <1>6, <2>1, <3>2, <4>1 DEF Fits
    <3>3. CASE /\ t = s /\ Revises(s, c) /\ IsChannel(call[c].req)
               /\ cl.id = c /\ cl.chan = Opened(s, c)
      <4>1. /\ Channel(c)' \in Known(c)' /\ Channel(c)'.peer = s
            /\ Channel(c)'.from = Opened(s, c).to
            /\ Channel(c)'.to = Opened(s, c).from
        BY <3>3, ServeLetsKnow
      <4>2. Fits(c, Channel(c)', cl)
        BY <2>1, <3>3, <4>1 DEF Fits
      <4>3. QED
        BY <2>1, <3>3, <4>1, <4>2
    <3>4. QED
      <4>1. CASE t = s
        <5>1. cls = Clients(t)'
          BY <1>7, <4>1
        <5>2. QED
          BY <2>1, <3>2, <3>3, <4>1, <5>1, FiledMoves
      <4>2. QED
        BY <3>1, <4>1
  <2>2. QED
    BY <2>1 DEF KnowsRecords, Filed, Fits
<1>11. QED
  BY <1>9, <1>10

LEMMA ServeKeepsPeers ==
  ASSUME PairInv, NEW s \in Members, NEW c \in Members, Serve(s, c)
  PROVE  PeersAreClients(s)'
<1>1. PICK cls : cls = Clients(s)'
  OBVIOUS
<1>2. ASSUME NEW n \in DOMAIN cls, cls[n].chan # NoChan
      PROVE  cls[n].chan.peer = cls[n].id
  <2>1. CASE /\ n \in DOMAIN Clients(s) /\ Filed(s, n)
             /\ cls[n].chan = Clients(s)[n].chan
             /\ cls[n].id = Clients(s)[n].id
    <3>1. PeersAreClients(s)
      BY ServeShape DEF PairInv
    <3>2. QED
      BY <2>1, <3>1 DEF PeersAreClients
  <2>2. CASE cls[n].id = c /\ cls[n].chan = Opened(s, c)
    BY <2>2 DEF Opened
  <2>3. QED
    BY <1>1, <1>2, <2>1, <2>2, FiledMoves
<1>3. QED
  BY <1>1, <1>2 DEF PeersAreClients, Filed

LEMMA ServeKeepsUsed ==
  ASSUME PairInv, NEW s \in Members, NEW c \in Members, Serve(s, c)
  PROVE  BitsAreUsed(s)'
<1>1. /\ SetupInv /\ SetupTypeOK /\ s \in Components /\ c \in Components
      /\ phase[s] = "serving" /\ Asks(c, s) /\ ~Unforeseen(s, c)
      /\ UNCHANGED <<sys, pos, chans, table>>
      /\ \A e \in Components \ {c} : call'[e] = call[e]
      /\ Refused(s, c) \/ Opens(s, c) \/ Revises(s, c)
      /\ BitsAreUsed(s)
  BY ServeShape DEF PairInv, SetupInv
<1>2. s # c /\ call[s] = NoCall
  BY <1>1, Foreseen
<1>3. Kind(s)' = Kind(s) /\ chans'[s] = chans[s] /\ call'[s] = call[s]
  BY <1>1, <1>2 DEF Kind
<1>4. SUFFICES ASSUME sys.unruly = {}
               PROVE  \A k \in 1 .. Len(bits'[s]) : Used(s, k)'
  BY <1>1 DEF BitsAreUsed
<1>5. PICK cls : cls = Clients(s)'
  OBVIOUS
<1>6. ASSUME NEW k, Used(s, k)
      PROVE  Used(s, k)'
  <2>1. ~IsPending(s)
    BY <1>2 DEF IsPending
  <2>2. CASE HasIrq(Kind(s)) /\ k = 1
    BY <1>3, <2>2 DEF Used
  <2>3. CASE \E ch \in chans[s] : ch.from = k
    BY <1>3, <2>3 DEF Used
  <2>4. CASE /\ Kind(s) # "timer"
             /\ \E n \in DOMAIN Clients(s) :
                  Filed(s, n) /\ Clients(s)[n].chan.from = k
    <3>1. PICK n \in DOMAIN Clients(s) :
            Filed(s, n) /\ Clients(s)[n].chan.from = k
      BY <2>4
    <3>2. n \in DOMAIN cls /\ cls[n].chan = Clients(s)[n].chan
      BY <1>4, <1>5, <3>1, FiledStays
    <3>3. cls[n].chan # NoChan /\ cls[n].chan.from = k
      BY <3>1, <3>2 DEF Filed
    <3>4. QED
      BY <1>3, <1>5, <2>4, <3>2, <3>3 DEF Used, Filed
  <2>5. QED
    BY <1>6, <2>1, <2>2, <2>3, <2>4 DEF Used
<1>7. \A k \in 1 .. Len(bits[s]) : Used(s, k)
  BY <1>1, <1>4 DEF BitsAreUsed
<1>8. CASE bits'[s] = bits[s]
  BY <1>6, <1>7, <1>8
<1>9. CASE Revises(s, c) /\ call[c].req = "channel"
  <2>1. PICK l \in Nat : l = Len(bits[s])
    BY <1>1, Typed
  <2>2. Len(bits'[s]) = l + 1
    <3>1. bits[s] \in Seq(Components \cup {"irq"})
      BY <1>1, Typed
    <3>2. bits'[s] = Append(bits[s], c)
      BY <1>9 DEF Revises
    <3>3. QED
      BY <1>1, <2>1, <3>1, <3>2, AppendShape
  <2>3. /\ Record(s, c) \in DOMAIN Clients(s) /\ Kind(s) # "timer"
        /\ Revised(s, c).chan = Opened(s, c) /\ Opened(s, c) # NoChan
    <3>1. PICK cl : cl = Clients(s)[Record(s, c)]
      OBVIOUS
    <3>2. IsChannel(call[c].req)
      BY <1>9 DEF IsChannel
    <3>3. QED
      BY <1>1, <1>9, <3>1, <3>2, Revision
  <2>4. Opened(s, c).from = l + 1
    BY <1>9, <2>1 DEF Opened
  <2>5. cls = [Clients(s) EXCEPT ![Record(s, c)] = Revised(s, c)]
    BY <1>5, <1>9 DEF Revises
  <2>6. PICK n : n = Record(s, c)
    OBVIOUS
  <2>7. n \in DOMAIN cls /\ cls[n].chan # NoChan /\ cls[n].chan.from = l + 1
    BY <2>3, <2>4, <2>5, <2>6
  <2>8. \A k : k = l + 1 => Used(s, k)'
    BY <1>3, <1>5, <2>3, <2>7 DEF Used, Filed
  <2>9. \A k \in 1 .. l + 1 : k = l + 1 \/ k \in 1 .. l
    BY <2>1
  <2>10. \A k \in 1 .. l + 1 : Used(s, k)'
    BY <1>6, <1>7, <2>1, <2>8, <2>9
  <2>11. QED
    BY <2>2, <2>10
<1>10. QED
  BY <1>1, <1>8, <1>9 DEF Refused, Opens, Revises

LEMMA ServeKeepsPairs ==
  ASSUME PairInv, SetupInv', NEW s \in Members, NEW c \in Members, Serve(s, c)
  PROVE  PairInv'
<1>1. /\ SetupInv /\ SetupTypeOK /\ s \in Components /\ c \in Components
      /\ phase[s] = "serving" /\ Asks(c, s) /\ ~Unforeseen(s, c)
      /\ phase' = IF CheckDone(Kind(s), Clients(s)')
                  THEN [phase EXCEPT ![s] = "calling"] ELSE phase
      /\ UNCHANGED <<sys, pos, chans, table>>
      /\ \A d \in Components \ {s} : srv'[d] = srv[d] /\ bits'[d] = bits[d]
      /\ \A d \in Components \ {c} : call'[d] = call[d]
      /\ call'[c].req = call[c].req /\ call'[c].bit = call[c].bit
      /\ call'[c] # NoCall
  BY ServeShape DEF PairInv, SetupInv
<1>2. /\ \A d \in Components \ {s} : phase'[d] = phase[d]
      /\ phase'[s] # "running"
  BY <1>1 DEF SetupTypeOK
<1>3. \A d \in Components \ {s} : PeersAreClients(d)'
  BY <1>1, PeersStay DEF PairInv
<1>4. \A d \in Components \ {s} : TableIsFiled(d)'
  BY <1>1, <1>2, TableStays DEF PairInv
<1>5. TableIsFiled(s)'
  BY <1>2 DEF TableIsFiled
<1>6. \A d \in Components :
        IsPending(d) => IsPending(d)' /\ call'[d].bit = call[d].bit
  <2>1. IsPending(c)' <=> IsPending(c) /\ call'[c] # NoCall
    BY <1>1, NoCallTyped DEF IsPending, IsChannel, Asks, NoCall, Asking
  <2>2. \A d \in Components \ {c} : IsPending(d)' <=> IsPending(d)
    BY <1>1 DEF IsPending, IsChannel, NoCall, Asking
  <2>3. QED
    BY <1>1, <2>1, <2>2
<1>7. \A d \in Components \ {s} : BitsAreUsed(d)'
  BY <1>1, <1>2, <1>6, BitsAreUsedStays DEF PairInv
<1>8. QED
  BY <1>1, <1>3, <1>4, <1>5, <1>7, ServeKeepsMeets, ServeKeepsPeers,
     ServeKeepsUsed DEF PairInv

LEMMA PairsStart ==
  ASSUME SetupInit
  PROVE  PairInv
<1>1. SetupInv
  BY SetupStarts
<1>2. ASSUME NEW c \in Components
      PROVE  /\ Clients(c) = <<>> /\ phase[c] = "unborn" /\ bits[c] = <<>>
             /\ chans[c] = {} /\ call[c] = NoCall
  BY <1>2 DEF SetupInit, Clients, NoSrv
<1>3. ASSUME NEW c \in Components
      PROVE  Known(c) = {}
  <2>1. ~Awaited(c)
    BY <1>2, <1>3, NoCallTyped DEF Awaited, Answers
  <2>2. QED
    BY <1>2, <1>3, <2>1 DEF Known
<1>4. \A c \in Components : /\ Meets(c) /\ BitsAreUsed(c)
                            /\ TableIsFiled(c) /\ PeersAreClients(c)
  BY <1>2, <1>3
  DEF Meets, KnowsRecords, BitsAreUsed, TableIsFiled, PeersAreClients
<1>5. QED
  BY <1>1, <1>4 DEF PairInv

LEMMA PairsIdle ==
  ASSUME PairInv, SetupInv', UNCHANGED setupVars
  PROVE  PairInv'
<1>1. \A c \in Components : PeersAreClients(c)'
  BY PeersStay DEF PairInv, setupVars
<1>2. ASSUME NEW c \in Components
      PROVE  Meets(c)' /\ BitsAreUsed(c)' /\ TableIsFiled(c)'
  <2>1. Meets(c) /\ BitsAreUsed(c) /\ TableIsFiled(c)
    BY <1>2 DEF PairInv
  <2>2. /\ Awaited(c)' <=> Awaited(c)
        /\ Channel(c)' = Channel(c) /\ (IsPending(c)' <=> IsPending(c))
    BY DEF setupVars, Awaited, Channel, IsPending
  <2>3. Known(c)' = Known(c)
    BY <2>2 DEF Known, setupVars
  <2>4. Meets(c)'
    BY <2>1, <2>2, <2>3, MeetsStays DEF setupVars
  <2>5. BitsAreUsed(c)'
    BY <2>1, <2>2, BitsAreUsedStays DEF setupVars
  <2>6. TableIsFiled(c)'
    BY <2>1, TableStays DEF setupVars
  <2>7. QED
    BY <2>4, <2>5, <2>6
<1>3. QED
  BY <1>1, <1>2 DEF PairInv

LEMMA PairSteps ==
  ASSUME PairInv, [SetupNext]_setupVars
  PROVE  PairInv'
<1>1. SetupInv' /\ Members \subseteq Components
  BY SetupSteps, MembersAreComponents DEF PairInv, SetupInv
<1>2. CASE UNCHANGED setupVars
  BY <1>1, <1>2, PairsIdle
<1>3. CASE \E c \in Members : Start(c)
  BY <1>1, <1>3, StartKeepsPairs
<1>4. CASE \E c \in Members : \E req \in Wanted(c) : Request(c, req)
  BY <1>1, <1>4, RequestKeepsPairs
<1>5. CASE \E c \in Members : \E req \in Wanted(c) : RequestFails(c, req)
  BY <1>1, <1>5, DyingKeepsPairs DEF RequestFails, Dies
<1>6. CASE \E c \in Members : Proceed(c)
  BY <1>1, <1>6, ProceedKeepsPairs
<1>7. CASE \E c \in Members : GiveUp(c)
  BY <1>1, <1>7, DyingKeepsPairs DEF GiveUp, Dies
<1>8. CASE \E c \in Members : SetChannels(c)
  BY <1>1, <1>8, SetChannelsKeepsPairs
<1>9. CASE \E c \in Members : Ppcall(c)
  BY <1>1, <1>9, PpcallKeepsPairs
<1>10. CASE \E s, c \in Members : Attend(s, c)
  BY <1>1, <1>10, ServeKeepsPairs, LateKeepsPairs DEF Attend
<1>11. CASE \E c \in Members : Interrupted(c)
  BY <1>1, <1>11, DyingKeepsPairs DEF Interrupted, Dies
<1>12. QED
  BY <1>2, <1>3, <1>4, <1>5, <1>6, <1>7, <1>8, <1>9, <1>10, <1>11
  DEF SetupNext

-----------------------------------------------------------------------------
(* Every client on record is one a channel is set for.                     *)
LEMMA AllAreServed ==
  ASSUME SetupInv, NEW c \in Components, NEW n \in DOMAIN Clients(c)
  PROVE  n \in Served(c)
<1>1. /\ SetupTypeOK /\ Fresh(c) /\ Clients(c) \in Seq(ClientType)
      /\ Len(Clients(c)) \in Nat /\ Len(Clients(c)) <= Places(Kind(c))
  BY Typed DEF SetupInv, Holds
<1>2. PICK l \in Nat : l = Len(Clients(c))
  BY <1>1
<1>3. n \in 1 .. l
  BY <1>1, <1>2
<1>4. Kind(c) # "blk_driver"
  BY <1>1 DEF Fresh
<1>5. CASE Kind(c) \in Drivers
  <2>1. l <= 2
    BY <1>1, <1>2, <1>5 DEF Places
  <2>2. n \in 1 .. 2
    BY <1>3, <2>1
  <2>3. QED
    BY <1>5, <2>2 DEF Served
<1>6. CASE Kind(c) \notin Drivers
  <2>1. l <= 1
    BY <1>1, <1>2, <1>4, <1>6 DEF Places
  <2>2. n \in {1}
    BY <1>3, <2>1
  <2>3. QED
    BY <1>6, <2>2 DEF Served
<1>7. QED
  BY <1>5, <1>6

LEMMA RunningWaitsForNone ==
  ASSUME SetupInv, NEW c \in Components, phase[c] = "running"
  PROVE  ~Awaited(c) /\ ~IsPending(c)
<1>1. call[c] # NoCall => call[c].req = "ppcall"
  BY DEF SetupInv, Holds, CallIsDue
<1>2. CASE call[c] = NoCall
  BY <1>2, NoCallTyped DEF Awaited, IsPending, Answers
<1>3. CASE call[c].req = "ppcall"
  BY <1>3 DEF Awaited, IsPending, IsChannel
<1>4. QED
  BY <1>1, <1>2, <1>3

LEMMA ClientsAreMatched ==
  ASSUME PairInv, NEW a \in Settled, NEW b \in Settled,
         phase[a] = "running", phase[b] = "running",
         NEW n \in Served(a), OfClient(a, n).peer = b
  PROVE  Matched(OfClient(a, n), a, b)
<1>1. /\ SetupInv /\ a \in Components /\ b \in Components
      /\ b \notin sys.unruly /\ Meets(b) /\ TableIsFiled(b)
      /\ PeersAreClients(a)
  BY MembersAreComponents DEF PairInv, SetupInv, Settled
<1>2. n \in DOMAIN Clients(a) /\ Filed(a, n)
  BY <1>1, ServedHaveChannels DEF Past, Filed
<1>3. PICK cl : cl = Clients(a)[n]
  OBVIOUS
<1>4. cl.id = b /\ cl.chan.peer = b
  BY <1>1, <1>2, <1>3 DEF PeersAreClients, OfClient
<1>5. Known(b) = chans[b]
  BY <1>1, RunningWaitsForNone DEF Known
<1>6. PICK ch \in chans[b] : ch.peer = a /\ Fits(b, ch, cl)
  BY <1>1, <1>2, <1>3, <1>4, <1>5 DEF Meets, KnowsRecords
<1>7. ch.kind = IF Kind(a) = "timer" THEN "recv" ELSE "bi"
  BY <1>1, <1>5, <1>6 DEF Meets, OfKind
<1>8. OfServer(ch) \in table[b]
  BY <1>1 DEF TableIsFiled, Entries
<1>9. PICK e : e = OfClient(a, n)
  OBVIOUS
<1>10. /\ e.to = cl.chan.to
       /\ e.kind = IF Kind(a) = "timer" THEN "send" ELSE "bi"
       /\ Kind(a) # "timer" => e.index = cl.chan.from
  BY <1>3, <1>9 DEF OfClient
<1>11. cl.chan.to = ch.from /\ cl.chan.from = ch.to
  BY <1>6 DEF Fits
<1>12. Matched(e, a, b)
  BY <1>6, <1>7, <1>8, <1>10, <1>11 DEF Matched, OfServer
<1>13. QED
  BY <1>9, <1>12

LEMMA ServersAreMatched ==
  ASSUME PairInv, NEW a \in Settled, NEW b \in Settled,
         phase[a] = "running", phase[b] = "running",
         NEW ch \in chans[a], ch.peer = b, ch.kind = "bi"
  PROVE  Matched(OfServer(ch), a, b)
<1>1. /\ SetupInv /\ a \in Components /\ b \in Components
      /\ a \notin sys.unruly /\ Meets(a) /\ TableIsFiled(b)
      /\ PeersAreClients(b)
  BY MembersAreComponents DEF PairInv, SetupInv, Settled
<1>2. Recorded(a, ch) /\ OfKind(ch)
  BY <1>1 DEF Meets, Known
<1>3. Kind(b) # "timer"
  BY <1>2 DEF OfKind
<1>4. PICK n \in DOMAIN Clients(b) : Fits(a, ch, Clients(b)[n])
  BY <1>2 DEF Recorded
<1>5. PICK cl : cl = Clients(b)[n]
  OBVIOUS
<1>6. /\ cl.id = a /\ cl.chan # NoChan
      /\ cl.chan.from = ch.to /\ cl.chan.to = ch.from
  BY <1>4, <1>5 DEF Fits
<1>7. cl.chan.peer = a
  BY <1>1, <1>5, <1>6 DEF PeersAreClients, Filed
<1>8. OfClient(b, n) \in table[b]
  BY <1>1, AllAreServed DEF TableIsFiled, Entries
<1>9. OfClient(b, n) =
        [index |-> ch.to, kind |-> "bi", peer |-> a, to |-> ch.from]
  BY <1>3, <1>5, <1>6, <1>7 DEF OfClient
<1>10. QED
  BY <1>8, <1>9 DEF Matched, OfServer

LEMMA UsedHasChannel ==
  ASSUME PairInv, NEW c \in Components, phase[c] = "running",
         NEW k, Used(c, k)
  PROVE  HasChannel(c, k)
<1>1. SetupInv /\ SetupTypeOK /\ table[c] = Entries(c) /\ ~IsPending(c)
  BY RunningWaitsForNone DEF PairInv, SetupInv, TableIsFiled
<1>2. CASE HasIrq(Kind(c)) /\ k = 1
  <2>1. OfIrq \in table[c]
    BY <1>1, <1>2 DEF Entries
  <2>2. QED
    BY <1>2, <2>1 DEF HasChannel, OfIrq
<1>3. CASE \E ch \in chans[c] : ch.from = k
  <2>1. PICK ch \in chans[c] : ch.from = k
    BY <1>3
  <2>2. ch.kind # "send"
    <3>1. ch \in [kind : {"bi", "recv"}, from : Nat,
                  peer : Components, to : Nat]
      BY <1>1, <2>1 DEF SetupTypeOK
    <3>2. QED
      BY <3>1
  <2>3. OfServer(ch) \in table[c]
    BY <1>1 DEF Entries
  <2>4. QED
    BY <2>1, <2>2, <2>3 DEF HasChannel, OfServer
<1>4. CASE /\ Kind(c) # "timer"
           /\ \E n \in DOMAIN Clients(c) :
                Filed(c, n) /\ Clients(c)[n].chan.from = k
  <2>1. PICK n \in DOMAIN Clients(c) : Clients(c)[n].chan.from = k
    BY <1>4
  <2>2. OfClient(c, n) \in table[c]
    BY <1>1, AllAreServed DEF Entries
  <2>3. OfClient(c, n).index = k /\ OfClient(c, n).kind # "send"
    BY <1>4, <2>1 DEF OfClient
  <2>4. QED
    BY <2>2, <2>3 DEF HasChannel
<1>5. QED
  BY <1>1, <1>2, <1>3, <1>4 DEF Used

LEMMA PairsAreMatched ==
  ASSUME PairInv
  PROVE  ChannelsPairUp
<1>1. SetupTypeOK /\ Members \subseteq Components
  BY MembersAreComponents DEF PairInv, SetupInv
<1>2. ASSUME NEW a \in Settled, NEW b \in Settled,
             phase[a] = "running", phase[b] = "running",
             NEW e \in table[a], e.kind \in {"bi", "send"}, e.peer = b
      PROVE  Matched(e, a, b)
  <2>1. e \in Entries(a)
    BY <1>1, <1>2 DEF PairInv, TableIsFiled, Settled
  <2>2. CASE e = OfIrq
    BY <1>2, <2>2 DEF OfIrq
  <2>3. CASE \E n \in Served(a) : e = OfClient(a, n)
    BY <1>2, <2>3, ClientsAreMatched
  <2>4. CASE \E ch \in chans[a] : e = OfServer(ch)
    <3>1. PICK ch \in chans[a] : e = OfServer(ch)
      BY <2>4
    <3>2. ch.peer = b /\ ch.kind = e.kind
      BY <1>2, <3>1 DEF OfServer
    <3>3. ch.kind = "bi"
      <4>1. a \in Components
        BY <1>1 DEF Settled
      <4>2. ch \in [kind : {"bi", "recv"}, from : Nat,
                    peer : Components, to : Nat]
        BY <1>1, <3>1, <4>1 DEF SetupTypeOK
      <4>3. QED
        BY <1>2, <3>2, <4>2
    <3>4. QED
      BY <1>2, <3>1, <3>2, <3>3, ServersAreMatched
  <2>5. QED
    BY <2>1, <2>2, <2>3, <2>4 DEF Entries
<1>3. ASSUME sys.unruly = {}, NEW c \in Settled, phase[c] = "running",
             NEW k \in 1 .. Len(bits[c])
      PROVE  HasChannel(c, k)
  <2>1. c \in Components /\ Used(c, k)
    BY <1>1, <1>3 DEF PairInv, BitsAreUsed, Settled
  <2>2. QED
    BY <1>3, <2>1, UsedHasChannel
<1>4. QED
  BY <1>1, <1>2, <1>3 DEF ChannelsPairUp

(* Of two components that run, each signals the bit under which the other  *)
(* has filed their channel; and where all keep to the order, a component   *)
(* that runs has a channel for every bit of its notification that somebody *)
(* may signal.                                                             *)
THEOREM SetupChannelsPairUp == SetupSpec => []ChannelsPairUp
<1>1. SetupInit => PairInv
  BY PairsStart
<1>2. PairInv /\ [SetupNext]_setupVars => PairInv'
  BY PairSteps
<1>3. PairInv => ChannelsPairUp
  BY PairsAreMatched
<1>4. QED
  BY <1>1, <1>2, <1>3, PTL DEF SetupSpec

-----------------------------------------------------------------------------
(* Why nobody panics.  How many calls of a link's script have been served, *)
(* as far as the client knows or could know; and the record that goes with *)
(* that.                                                                   *)
Progress(c, j) ==
  IF pos[c][1] > j THEN Len(Script(Kind(Links(c)[j].to)))
  ELSE IF pos[c][1] < j THEN 0
  ELSE IF call[c].answer = "ok" THEN pos[c][2] ELSE pos[c][2] - 1
Made(k, m) == {Script(k)[i] : i \in 1 .. m}
RecordFollows(k, m, cl, virt) ==
  /\ cl.chan # NoChan <=> m >= 2
  /\ cl.queues = Made(k, m) \cap Queues
  /\ cl.data <=> "provide" \in Made(k, m)
  /\ cl.got <=> "get" \in Made(k, m)
  /\ k \in Drivers => cl.virt = IF m >= 2 THEN virt ELSE Nothing
  /\ k \notin Drivers => cl.virt = Nothing
KeepsUp(c, j) ==
  LET s == Links(c)[j].to
      m == Progress(c, j)
  IN IF m = 0 THEN \A n \in DOMAIN Clients(s) : Clients(s)[n].id # c
     ELSE \E n \in DOMAIN Clients(s) :
            /\ Clients(s)[n].id = c
            /\ RecordFollows(Kind(s), m, Clients(s)[n], Links(c)[j].virt)

(* What a server holds against further clients comes from its records.     *)
HoldsNoMore(s) ==
  /\ Kind(s) \in Drivers => \A v \in srv[s].virts :
       \E n \in DOMAIN Clients(s) : Clients(s)[n].virt = v
  /\ \A v \in srv[s].data :
       \E n \in DOMAIN Clients(s) :
         Clients(s)[n].data /\ Clients(s)[n].virt = v
  /\ phase[s] = "serving" => ~CheckDone(Kind(s), Clients(s))

IsCalm(c) ==
  /\ phase[c] # "dead"
  /\ call[c].answer # "error"
  /\ phase[c] = "calling" /\ call[c].req = "channel" =>
       call[c].virt = Links(c)[pos[c][1]].virt
  /\ phase[c] = "running" => pos[c][1] > Len(Links(c))
  /\ call[c].req = "ppcall" => \E j \in DOMAIN Links(c) :
       Links(c)[j].to = call[c].to /\ Kind(call[c].to) = "timer"
  /\ \A j \in DOMAIN Links(c) : KeepsUp(c, j)
  /\ HoldsNoMore(c)

CalmInv ==
  /\ PairInv /\ StartInv
  /\ IsMatched(sys)
  /\ faults = 0 => \A c \in Members : IsCalm(c)

-----------------------------------------------------------------------------
(* Whatever comes after the queues ends a script.                          *)
LEMMA ScriptEnds ==
  ASSUME NEW k \in Kinds \ {"client", "blk_driver"},
         NEW i \in 1 .. Len(Script(k)), Script(k)[i] \in {"provide", "get"}
  PROVE  i = Len(Script(k))
<1> USE DEF Script
<1>1. CASE k = "net_driver"
  BY <1>1
<1>2. CASE k = "serial_driver"
  BY <1>2
<1>3. CASE k = "net_virt_rx"
  BY <1>3
<1>4. CASE k = "net_virt_tx"
  BY <1>4
<1>5. CASE k = "copier"
  BY <1>5
<1>6. CASE k = "serial_virt"
  BY <1>6
<1>7. CASE k = "timer"
  BY <1>7
<1>8. QED
  BY <1>1, <1>2, <1>3, <1>4, <1>5, <1>6, <1>7 DEF Kinds

LEMMA MadeGrows ==
  ASSUME NEW k, NEW m \in Nat
  PROVE  /\ Made(k, 0) = {} /\ Made(k, 1) = {Script(k)[1]}
         /\ Made(k, m + 1) = Made(k, m) \cup {Script(k)[m + 1]}
<1>1. 1 .. m + 1 = 1 .. m \cup {m + 1} /\ 1 .. 1 = {1} /\ 1 .. 0 = {}
  OBVIOUS
<1>2. QED
  BY <1>1 DEF Made

LEMMA NotYetMade ==
  ASSUME NEW k \in Kinds \ {"client"}, NEW m \in Nat,
         m + 1 \in 1 .. Len(Script(k))
  PROVE  Script(k)[m + 1] \notin Made(k, m)
<1>1. SUFFICES ASSUME NEW i \in 1 .. m, Script(k)[i] = Script(k)[m + 1]
               PROVE  FALSE
  BY DEF Made
<1>2. PICK l \in Nat : l = Len(Script(k))
  BY ScriptShape
<1>3. i \in 1 .. l /\ m + 1 \in 1 .. l
  BY <1>2
<1>4. i = m + 1
  BY <1>1, <1>2, <1>3, ScriptShape
<1>5. QED
  BY <1>4

(* Before the last calls all the queues have been registered.              *)
LEMMA AllBeforeLast ==
  ASSUME NEW k \in Kinds \ {"client", "blk_driver"}, NEW m \in Nat,
         m + 1 \in 1 .. Len(Script(k)),
         Script(k)[m + 1] \in {"provide", "get"},
         NEW cl, NEW virt, RecordFollows(k, m, cl, virt)
  PROVE  HasAll(k, cl)
<1>1. m + 1 = Len(Script(k))
  BY ScriptEnds
<1>2. ASSUME NEW q \in QueuesOf(k)
      PROVE  q \in Made(k, m) \cap Queues
  <2>1. q \in Queues
    BY <1>2 DEF QueuesOf
  <2>2. PICK i \in 2 .. Len(Script(k)) : q = Script(k)[i]
    BY <1>2 DEF QueuesOf, Handled
  <2>3. i # m + 1
    BY <2>1, <2>2 DEF Queues
  <2>4. i \in 1 .. m
    BY <1>1, <2>2, <2>3
  <2>5. QED
    BY <2>1, <2>2, <2>4 DEF Made
<1>3. QED
  BY <1>2 DEF HasAll, RecordFollows

LEMMA LastWasMade ==
  ASSUME NEW k \in Kinds \ {"client"}, NEW m \in 0 .. Len(Script(k)),
         NEW i \in 1 .. Len(Script(k)), i = Len(Script(k)),
         Script(k)[i] \in Made(k, m)
  PROVE  m = Len(Script(k))
<1>1. PICK l \in Nat : l = Len(Script(k))
  BY ScriptShape
<1>2. PICK n \in 1 .. m : Script(k)[n] = Script(k)[i]
  BY DEF Made
<1>3. m \in 0 .. l /\ i = l /\ n \in 1 .. l
  BY <1>1, <1>2
<1>4. n = i
  BY <1>1, <1>2, <1>3, ScriptShape
<1>5. QED
  BY <1>1, <1>3, <1>4

LEMMA InitializedIsLast ==
  ASSUME NEW k \in Kinds \ {"client", "blk_driver"},
         NEW m \in 0 .. Len(Script(k)), NEW cl, NEW virt,
         RecordFollows(k, m, cl, virt), Initialized(k, cl)
  PROVE  m = Len(Script(k))
<1>1. CASE k = "net_driver"
  <2>1. Script(k) = <<"open", "channel", "active", "free">>
    BY <1>1 DEF Script
  <2>2. PICK i \in 1 .. Len(Script(k)) :
          i = Len(Script(k)) /\ Script(k)[i] = "free"
    BY <2>1
  <2>3. "free" \in QueuesOf(k)
    BY <2>1 DEF QueuesOf, Handled, Queues
  <2>4. "free" \in Made(k, m)
    BY <1>1, <2>3 DEF Initialized, HasAll, RecordFollows
  <2>5. QED
    BY <2>2, <2>4, LastWasMade
<1>2. CASE k \in {"serial_driver", "copier", "net_virt_tx", "serial_virt"}
  <2>1. "provide" \in Made(k, m)
    BY <1>2 DEF Initialized, RecordFollows
  <2>2. PICK i \in 1 .. Len(Script(k)) :
          i = Len(Script(k)) /\ Script(k)[i] = "provide"
    <3>1. CASE k \in {"serial_driver", "serial_virt"}
      <4>1. Script(k) = <<"open", "channel", "none", "provide">>
        BY <3>1 DEF Script
      <4>2. QED
        BY <4>1
    <3>2. CASE k \in {"copier", "net_virt_tx"}
      <4>1. Script(k) = <<"open", "channel", "active", "free", "provide">>
        BY <3>2 DEF Script
      <4>2. QED
        BY <4>1
    <3>3. QED
      BY <1>2, <3>1, <3>2
  <2>3. QED
    BY <2>1, <2>2, LastWasMade
<1>3. CASE k = "net_virt_rx"
  <2>1. Script(k) = <<"open", "channel", "active", "free", "get">>
    BY <1>3 DEF Script
  <2>2. PICK i \in 1 .. Len(Script(k)) :
          i = Len(Script(k)) /\ Script(k)[i] = "get"
    BY <2>1
  <2>3. "get" \in Made(k, m)
    BY <1>3 DEF Initialized, RecordFollows
  <2>4. QED
    BY <2>2, <2>3, LastWasMade
<1>4. CASE k = "timer"
  <2>1. Script(k) = <<"open", "receive">>
    BY <1>4 DEF Script
  <2>2. m >= 2
    BY <1>4 DEF Initialized, RecordFollows
  <2>3. Len(Script(k)) = 2
    BY <2>1
  <2>4. QED
    BY <2>2, <2>3
<1>5. QED
  BY <1>1, <1>2, <1>3, <1>4 DEF Kinds

LEMMA NewFollows ==
  ASSUME NEW k \in Kinds \ {"client"}, NEW c \in Components, NEW virt
  PROVE  RecordFollows(k, 1, NewClient(c), virt)
<1>1. Made(k, 1) = {"open"}
  BY ScriptShape, MadeGrows
<1>2. QED
  BY <1>1, NewClientTyped DEF RecordFollows, NewClient, Queues

LEMMA NextFollows ==
  ASSUME NEW k \in Kinds \ {"client"}, NEW m \in Nat \ {0},
         m + 1 \in 1 .. Len(Script(k)), NEW cl, NEW new, NEW virt, NEW req,
         RecordFollows(k, m, cl, virt), req = Script(k)[m + 1],
         new.queues = IF req \in Queues THEN cl.queues \cup {req}
                      ELSE cl.queues,
         new.data <=> cl.data \/ req = "provide",
         new.got <=> cl.got \/ req = "get",
         m # 1 => new.chan = cl.chan /\ new.virt = cl.virt,
         m = 1 => /\ new.chan # NoChan
                  /\ new.virt = IF k \in Drivers THEN virt ELSE cl.virt
  PROVE  RecordFollows(k, m + 1, new, virt)
<1>1. Made(k, m + 1) = Made(k, m) \cup {req}
  BY MadeGrows
<1>2. CASE m = 1
  BY <1>1, <1>2 DEF RecordFollows
<1>3. CASE m # 1
  <2>1. m >= 2 /\ m + 1 >= 2
    BY <1>3
  <2>2. QED
    BY <1>1, <1>3, <2>1 DEF RecordFollows
<1>4. QED
  BY <1>2, <1>3

-----------------------------------------------------------------------------
LEMMA ProgressShape ==
  ASSUME SetupTypeOK, NEW c \in Components, CallIsDue(c),
         c \notin sys.unruly, NEW j \in DOMAIN Links(c)
  PROVE  /\ Progress(c, j) \in 0 .. Len(Script(Kind(Links(c)[j].to)))
         /\ j \in Nat /\ pos[c][1] \in Nat \ {0} /\ pos[c][2] \in Nat \ {0}
         /\ pos[c][1] > j =>
              Progress(c, j) = Len(Script(Kind(Links(c)[j].to)))
         /\ pos[c][1] = j => Progress(c, j) = IF call[c].answer = "ok"
                                              THEN pos[c][2] ELSE pos[c][2] - 1
         /\ pos[c][1] < j => Progress(c, j) = 0
<1>1. j \in Nat /\ pos[c][1] \in Nat \ {0} /\ pos[c][2] \in Nat \ {0}
  BY Typed, ElementTyped
<1>2. Kind(Links(c)[j].to) \in Kinds \ {"client"}
  BY LinkLeads
<1>3. PICK l \in Nat : l = Len(Script(Kind(Links(c)[j].to)))
  BY <1>2, ScriptShape
<1>4. pos[c][1] = j => pos[c][2] <= l
  BY <1>3 DEF CallIsDue, Target
<1>5. PICK p \in Nat \ {0}, q \in Nat \ {0} : p = pos[c][1] /\ q = pos[c][2]
  BY <1>1
<1>6. Progress(c, j) = IF p > j THEN l ELSE IF p < j THEN 0
                       ELSE IF call[c].answer = "ok" THEN q ELSE q - 1
  BY <1>3, <1>5 DEF Progress
<1>7. p = j => q <= l
  BY <1>4, <1>5
<1>8. Progress(c, j) \in 0 .. l
  <2>1. CASE p > j
    BY <1>1, <1>6, <2>1
  <2>2. CASE p < j
    BY <1>1, <1>6, <2>2
  <2>3. CASE p = j
    BY <1>1, <1>6, <1>7, <2>3
  <2>4. QED
    BY <1>1, <2>1, <2>2, <2>3
<1>9. /\ p > j => Progress(c, j) = l
      /\ p = j => Progress(c, j) = IF call[c].answer = "ok"
                                   THEN q ELSE q - 1
      /\ p < j => Progress(c, j) = 0
  BY <1>1, <1>6
<1>10. QED
  BY <1>1, <1>3, <1>5, <1>8, <1>9

LEMMA ProgressStays ==
  ASSUME SetupTypeOK, NEW c \in Components, sys' = sys, pos'[c] = pos[c],
         \/ call'[c].answer = "ok" <=> call[c].answer = "ok"
         \/ pos[c][1] > Len(Links(c))
  PROVE  \A j \in DOMAIN Links(c) : Progress(c, j)' = Progress(c, j)
<1>1. Links(c)' = Links(c) /\ \A d : Kind(d)' = Kind(d)
  BY DEF Links, Kind
<1>2. CASE call'[c].answer = "ok" <=> call[c].answer = "ok"
  BY <1>1, <1>2 DEF Progress
<1>3. CASE pos[c][1] > Len(Links(c))
  <2>1. \A j \in DOMAIN Links(c) : pos[c][1] > j
    <3>1. pos[c][1] \in Nat /\ Len(Links(c)) \in Nat
          /\ DOMAIN Links(c) = 1 .. Len(Links(c))
      BY Typed
    <3>2. QED
      BY <1>3, <3>1
  <2>2. QED
    BY <1>1, <2>1 DEF Progress
<1>4. QED
  BY <1>2, <1>3

LEMMA FollowsStays ==
  \A k, m, cl, v : RecordFollows(k, m, cl, v)' <=> RecordFollows(k, m, cl, v)
  BY DEF RecordFollows

LEMMA KeepsUpStays ==
  ASSUME NEW c, sys' = sys, NEW j, Progress(c, j)' = Progress(c, j),
         srv'[Links(c)[j].to] = srv[Links(c)[j].to], KeepsUp(c, j)
  PROVE  KeepsUp(c, j)'
<1>1. PICK s : s = Links(c)[j].to
  OBVIOUS
<1>2. /\ Links(c)' = Links(c) /\ Clients(s)' = Clients(s)
      /\ Kind(s)' = Kind(s)
  BY <1>1 DEF Links, Clients, Kind
<1>3. \A k, m, cl, v :
        RecordFollows(k, m, cl, v)' <=> RecordFollows(k, m, cl, v)
  BY FollowsStays
<1>4. QED
  BY <1>1, <1>2, <1>3 DEF KeepsUp

LEMMA HoldsNoMoreStays ==
  ASSUME NEW s, sys' = sys, srv'[s] = srv[s], HoldsNoMore(s),
         phase'[s] = "serving" => phase[s] = "serving" \/ Clients(s) = <<>>
  PROVE  HoldsNoMore(s)'
<1>1. Kind(s)' = Kind(s) /\ Clients(s)' = Clients(s)
  BY DEF Kind, Clients
<1>2. Clients(s) = <<>> => ~CheckDone(Kind(s), Clients(s))
  <2>1. Len(<<>>) = 0
    OBVIOUS
  <2>2. QED
    BY <2>1 DEF CheckDone
<1>3. phase'[s] = "serving" => ~CheckDone(Kind(s), Clients(s))
  BY <1>2 DEF HoldsNoMore
<1>4. QED
  BY <1>1, <1>3 DEF HoldsNoMore

(* A step that leaves the records.                                         *)
LEMMA CalmStays ==
  ASSUME NEW c, sys' = sys, srv' = srv, IsCalm(c),
         phase'[c] # "dead", call'[c].answer # "error",
         phase'[c] = "calling" /\ call'[c].req = "channel" =>
           call'[c].virt = Links(c)[pos'[c][1]].virt,
         phase'[c] = "running" => pos'[c][1] > Len(Links(c)),
         call'[c].req = "ppcall" => \E j \in DOMAIN Links(c) :
           Links(c)[j].to = call'[c].to /\ Kind(call'[c].to) = "timer",
         \A j \in DOMAIN Links(c) : Progress(c, j)' = Progress(c, j),
         phase'[c] = "serving" => phase[c] = "serving" \/ Clients(c) = <<>>
  PROVE  IsCalm(c)'
<1>1. Links(c)' = Links(c)
  BY DEF Links
<1>2. \A j \in DOMAIN Links(c) : KeepsUp(c, j)'
  BY KeepsUpStays DEF IsCalm
<1>3. HoldsNoMore(c)'
  BY HoldsNoMoreStays DEF IsCalm
<1>4. \A d : Kind(d)' = Kind(d)
  BY DEF Kind
<1>5. QED
  BY <1>1, <1>2, <1>3, <1>4 DEF IsCalm

LEMMA OthersStayCalm ==
  ASSUME CalmInv, faults = 0, NEW c \in Members, sys' = sys, srv' = srv,
         \A d \in Components \ {c} : Same(d), IsCalm(c)'
  PROVE  \A d \in Members : IsCalm(d)'
<1>1. SetupTypeOK /\ Members \subseteq Components
  BY MembersAreComponents DEF CalmInv, StartInv, SetupInv
<1>2. ASSUME NEW d \in Members, d # c
      PROVE  IsCalm(d)'
  <2>1. d \in Components /\ IsCalm(d) /\ Same(d)
    BY <1>1, <1>2 DEF CalmInv
  <2>2. \A j \in DOMAIN Links(d) : Progress(d, j)' = Progress(d, j)
    BY <1>1, <2>1, ProgressStays DEF Same
  <2>3. /\ phase'[d] = phase[d] /\ call'[d] = call[d] /\ pos'[d] = pos[d]
    BY <2>1 DEF Same
  <2>4. /\ phase'[d] # "dead" /\ call'[d].answer # "error"
        /\ phase'[d] = "calling" /\ call'[d].req = "channel" =>
             call'[d].virt = Links(d)[pos'[d][1]].virt
        /\ phase'[d] = "running" => pos'[d][1] > Len(Links(d))
        /\ call'[d].req = "ppcall" => \E j \in DOMAIN Links(d) :
             Links(d)[j].to = call'[d].to /\ Kind(call'[d].to) = "timer"
        /\ phase'[d] = "serving" => phase[d] = "serving"
    BY <2>1, <2>3 DEF IsCalm
  <2>5. QED
    BY <2>1, <2>2, <2>4, CalmStays
<1>3. QED
  BY <1>2

(* All who are spawned are settled.                                        *)
LEMMA AllAreSettled ==
  ASSUME CalmInv
  PROVE  /\ SetupInv /\ SetupTypeOK /\ Members \subseteq Components
         /\ Members = Settled /\ \A c \in Members : c \notin sys.unruly
<1>1. SetupInv /\ SetupTypeOK /\ Members \subseteq Components
  BY MembersAreComponents DEF CalmInv, StartInv, SetupInv
<1>2. QED
  BY <1>1 DEF CalmInv, IsMatched, Members, Settled

-----------------------------------------------------------------------------
(* Who calls a server has called it as far as its script says, and its     *)
(* record shows it.                                                        *)
HasRecord(c, s, m, virt) ==
  \E n \in DOMAIN Clients(s) :
    Clients(s)[n].id = c /\ RecordFollows(Kind(s), m, Clients(s)[n], virt)

LEMMA CallerShape ==
  ASSUME CalmInv, faults = 0, NEW c \in Members, NEW s \in Components,
         phase[c] = "calling", Asks(c, s),
         NEW m, m = pos[c][2] - 1
  PROVE  /\ s \in Members /\ Uses(c, s)
         /\ pos[c][1] \in DOMAIN Links(c) /\ Links(c)[pos[c][1]].to = s
         /\ Kind(s) \in Kinds \ {"client", "blk_driver"}
         /\ m \in Nat /\ m + 1 \in 1 .. Len(Script(Kind(s)))
         /\ call[c].req = Script(Kind(s))[m + 1]
         /\ Progress(c, pos[c][1]) = m
         /\ m = 0 => \A n \in DOMAIN Clients(s) : Clients(s)[n].id # c
         /\ m # 0 => HasRecord(c, s, m, Links(c)[pos[c][1]].virt)
<1>1. /\ SetupInv /\ SetupTypeOK /\ c \in Components /\ c \notin sys.unruly
      /\ CallIsDue(c) /\ IsCalm(c)
  BY AllAreSettled DEF CalmInv, SetupInv, Holds
<1>2. call[c] # NoCall
  BY NoCallTyped DEF Asks
<1>3. /\ pos[c][1] \in DOMAIN Links(c) /\ Target(c) = s
      /\ Links(c)[pos[c][1]].to = s
      /\ Kind(s) \in Kinds \ {"client", "blk_driver"}
      /\ call[c].req \in Wanted(c)
  BY <1>1, <1>2, CallLeads DEF Asks, Target
<1>4. Uses(c, s)
  BY <1>3 DEF Uses
<1>5. s \in Members
  <2>1. phase[s] # "unborn"
    BY <1>1, <1>3 DEF SetupInv, ServersAreBorn
  <2>2. QED
    BY <1>1, <2>1 DEF SetupInv, Holds, Fresh
<1>6. /\ call[c].req = Script(Kind(s))[pos[c][2]]
      /\ pos[c][2] \in 1 .. Len(Script(Kind(s)))
  BY <1>1, <1>3, WantedShape
<1>7. m \in Nat /\ m + 1 = pos[c][2]
  <2>1. pos[c][2] \in Nat \ {0}
    BY <1>1, Typed
  <2>2. QED
    BY <2>1
<1>8. Progress(c, pos[c][1]) = m
  <2>1. call[c].answer # "ok"
    BY NoCallTyped DEF Asks, Answers
  <2>2. QED
    BY <1>1, <1>3, <2>1, ProgressShape
<1>9. KeepsUp(c, pos[c][1])
  BY <1>1, <1>3 DEF IsCalm
<1>10. m = 0 => \A n \in DOMAIN Clients(s) : Clients(s)[n].id # c
  BY <1>3, <1>8, <1>9 DEF KeepsUp
<1>11. m # 0 => HasRecord(c, s, m, Links(c)[pos[c][1]].virt)
  BY <1>3, <1>8, <1>9 DEF KeepsUp, HasRecord
<1>12. QED
  BY <1>3, <1>4, <1>5, <1>6, <1>7, <1>8, <1>10, <1>11

(* Its record, once it has opened the connection.                          *)
LEMMA CallersRecord ==
  ASSUME CalmInv, faults = 0, NEW c \in Members, NEW s \in Components,
         phase[c] = "calling", Asks(c, s),
         NEW m, m = pos[c][2] - 1, m # 0
  PROVE  \E n \in DOMAIN Clients(s) :
           /\ Clients(s)[n].id = c
           /\ RecordFollows(Kind(s), m, Clients(s)[n],
                            Links(c)[pos[c][1]].virt)
<1>1. HasRecord(c, s, m, Links(c)[pos[c][1]].virt)
  BY CallerShape
<1>2. QED
  BY <1>1 DEF HasRecord

(* A server has room for a client it does not know yet.                    *)
LEMMA ThereIsRoom ==
  ASSUME CalmInv, NEW c \in Members, NEW s \in Members, Uses(c, s),
         \A n \in DOMAIN Clients(s) : Clients(s)[n].id # c
  PROVE  /\ Len(Clients(s)) < IF Kind(s) \in Drivers THEN 2 ELSE 1
         /\ OneClient(Kind(s)) => Clients(s) = <<>>
<1>1. /\ SetupTypeOK /\ s \in Components /\ Members = Settled
      /\ BitsAreOwn(s) /\ UsersHaveStarted(s) /\ IsUncrowded(sys)
  BY AllAreSettled DEF CalmInv, StartInv, SetupInv, Holds
<1>2. Clients(s) \in Seq(ClientType) /\ Len(Clients(s)) \in Nat
  BY <1>1, Typed
<1>3. \A n \in DOMAIN Clients(s) :
        LET d == Clients(s)[n].id IN d \in Members /\ Uses(d, s) /\ d # c
  BY <1>1 DEF UsersHaveStarted
<1>4. \A d, e \in Members : Uses(d, s) /\ Uses(e, s) =>
        c = d \/ (Kind(s) \in Drivers /\ (c = e \/ d = e))
  BY <1>1, NobodyTooMany
<1>5. PICK l \in Nat : l = Len(Clients(s)) /\ DOMAIN Clients(s) = 1 .. l
  BY <1>2
<1>6. l < IF Kind(s) \in Drivers THEN 2 ELSE 1
  <2>1. CASE Kind(s) \in Drivers
    <3>1. SUFFICES ASSUME l >= 2 PROVE FALSE
      BY <2>1
    <3>2. 1 \in DOMAIN Clients(s) /\ 2 \in DOMAIN Clients(s)
      BY <1>5, <3>1
    <3>3. Clients(s)[1].id # Clients(s)[2].id
      BY <1>1, <3>2 DEF BitsAreOwn
    <3>4. QED
      BY <1>3, <1>4, <3>2, <3>3
  <2>2. CASE Kind(s) \notin Drivers
    <3>1. SUFFICES ASSUME l >= 1 PROVE FALSE
      BY <2>2
    <3>2. 1 \in DOMAIN Clients(s)
      BY <1>5, <3>1
    <3>3. QED
      BY <1>3, <1>4, <2>2, <3>2
  <2>3. QED
    BY <2>1, <2>2
<1>7. OneClient(Kind(s)) => Clients(s) = <<>>
  <2>1. OneClient(Kind(s)) => Kind(s) \notin Drivers
    BY DEF OneClient, Drivers
  <2>2. l < 1 => Clients(s) = <<>>
    BY <1>2, <1>5
  <2>3. QED
    BY <1>6, <2>1, <2>2
<1>8. QED
  BY <1>5, <1>6, <1>7

(* A server is in its loop as long as anybody calls it.                    *)
LEMMA ServersAreServing ==
  ASSUME CalmInv, faults = 0, NEW c \in Members, NEW s \in Components,
         phase[c] = "calling", Asks(c, s)
  PROVE  phase[s] = "serving"
<1>1. PICK m : m = pos[c][2] - 1
  OBVIOUS
<1>2. /\ s \in Members /\ Uses(c, s) /\ m \in Nat
      /\ Kind(s) \in Kinds \ {"client", "blk_driver"}
      /\ m + 1 \in 1 .. Len(Script(Kind(s)))
      /\ m = 0 => \A n \in DOMAIN Clients(s) : Clients(s)[n].id # c
  BY <1>1, CallerShape
<1>3. SetupInv /\ SetupTypeOK /\ Fresh(s)
  BY AllAreSettled DEF SetupInv, Holds
<1>4. phase[s] # "dead"
  BY <1>2 DEF CalmInv, IsCalm
<1>5. phase[s] # "unborn"
  <2>1. pos[c][1] \in DOMAIN Links(c) /\ Links(c)[pos[c][1]].to = s
    BY <1>1, CallerShape
  <2>2. QED
    BY <1>3, <2>1 DEF SetupInv, ServersAreBorn
<1>6. ~Past(s)
  <2>1. SUFFICES ASSUME Past(s) PROVE FALSE
    OBVIOUS
  <2>2. CheckDone(Kind(s), Clients(s))
    BY <1>2, <1>3, <2>1 DEF Fresh
  <2>3. m # 0
    <3>1. Len(Clients(s)) \in Nat
      BY <1>3, Typed
    <3>2. Len(Clients(s)) >= IF Kind(s) \in Drivers THEN 2 ELSE 1
      BY <2>2 DEF CheckDone
    <3>3. QED
      BY <1>2, <3>1, <3>2, ThereIsRoom
  <2>4. PICK n \in DOMAIN Clients(s) :
          RecordFollows(Kind(s), m, Clients(s)[n],
                        Links(c)[pos[c][1]].virt)
    BY <1>1, <2>3, CallersRecord
  <2>5. n \in 1 .. IF Kind(s) \in Drivers THEN 2 ELSE 1
    <3>1. n \in Served(s) /\ 1 .. 1 = {1}
      BY <1>3, <2>4, AllAreServed
    <3>2. QED
      BY <3>1 DEF Served
  <2>6. Initialized(Kind(s), Clients(s)[n])
    BY <2>2, <2>5 DEF CheckDone
  <2>7. PICK l \in Nat : l = Len(Script(Kind(s)))
    BY <1>2, ScriptShape
  <2>8. m \in 0 .. l /\ m # l
    BY <1>2, <2>7
  <2>9. QED
    BY <1>2, <2>4, <2>6, <2>7, <2>8, InitializedIsLast
<1>7. QED
  BY <1>3, <1>4, <1>5, <1>6 DEF SetupTypeOK, Past

LEMMA MatchedLinks ==
  ASSUME CalmInv, NEW c \in Members, NEW i \in DOMAIN Links(c)
  PROVE  /\ Kind(Links(c)[i].to) \in Drivers => Links(c)[i].virt \in Virts
         /\ Kind(Links(c)[i].to) \notin Drivers => Links(c)[i].virt = Nothing
         /\ \A d \in Members : \A j \in DOMAIN Links(d) :
              /\ Kind(Links(c)[i].to) \in Drivers
              /\ Links(d)[j].to = Links(c)[i].to
              /\ Links(d)[j].virt = Links(c)[i].virt
              => c = d
<1>1. SetupTypeOK /\ Members \subseteq Components
  BY AllAreSettled
<1>2. /\ IF Kind(Links(c)[i].to) \in Drivers THEN Links(c)[i].virt \in Virts
         ELSE Links(c)[i].virt = Nothing
      /\ \A d \in Members : \A j \in DOMAIN Links(d) :
           Kind(Links(c)[i].to) \in Drivers /\ Links(c)[i] = Links(d)[j]
             => c = d
  BY DEF CalmInv, IsMatched, Members, Links, Kind
<1>3. \A d \in Members : \A j \in DOMAIN Links(d) :
        Links(d)[j] \in [to : Components, virt : Virts \cup {Nothing}]
  BY <1>1, Typed, ElementTyped
<1>4. \A d \in Members : \A j \in DOMAIN Links(d) :
        /\ Links(d)[j].to = Links(c)[i].to
        /\ Links(d)[j].virt = Links(c)[i].virt
        => Links(c)[i] = Links(d)[j]
  <2>1. \A a, b \in [to : Components, virt : Virts \cup {Nothing}] :
          a.to = b.to /\ a.virt = b.virt => b = a
    OBVIOUS
  <2>2. QED
    BY <1>3, <2>1
<1>5. QED
  BY <1>2, <1>4

(* The type a virtualiser calls as is not taken.                           *)
LEMMA VirtIsFree ==
  ASSUME CalmInv, faults = 0, NEW c \in Members, NEW s \in Members,
         NEW j \in DOMAIN Links(c), Links(c)[j].to = s, Kind(s) \in Drivers,
         NEW r \in DOMAIN Clients(s), Clients(s)[r].id = c,
         Clients(s)[r].virt = Nothing
  PROVE  Links(c)[j].virt \in Virts \ srv[s].virts
<1>1. /\ SetupTypeOK /\ s \in Components /\ BitsAreOwn(s) /\ IsCalm(s)
      /\ UsersHaveStarted(s)
  BY AllAreSettled DEF CalmInv, StartInv, SetupInv, Holds
<1>2. PICK v : v = Links(c)[j].virt
  OBVIOUS
<1>3. v \in Virts /\ v # Nothing
  BY <1>2, MatchedLinks, SetupAssumption
<1>4. SUFFICES ASSUME v \in srv[s].virts PROVE FALSE
  BY <1>2, <1>3
<1>5. PICK n \in DOMAIN Clients(s) : Clients(s)[n].virt = v
  BY <1>1, <1>4 DEF IsCalm, HoldsNoMore
<1>6. PICK d : d = Clients(s)[n].id
  OBVIOUS
<1>7. d \in Members /\ Uses(d, s)
  BY <1>1, <1>5, <1>6 DEF UsersHaveStarted
<1>8. PICK i \in DOMAIN Links(d) : Links(d)[i].to = s
  BY <1>7 DEF Uses
<1>9. KeepsUp(d, i)
  BY <1>7, <1>8 DEF CalmInv, IsCalm
<1>10. PICK m : m = Progress(d, i)
  OBVIOUS
<1>11. PICK q \in DOMAIN Clients(s) :
         /\ Clients(s)[q].id = d
         /\ RecordFollows(Kind(s), m, Clients(s)[q], Links(d)[i].virt)
  BY <1>5, <1>6, <1>8, <1>9, <1>10 DEF KeepsUp
<1>12. q = n
  BY <1>1, <1>5, <1>6, <1>11 DEF BitsAreOwn
<1>13. Links(d)[i].virt = v
  BY <1>3, <1>5, <1>11, <1>12 DEF RecordFollows
<1>14. c = d
  BY <1>2, <1>7, <1>8, <1>13, MatchedLinks
<1>15. r = n
  BY <1>1, <1>5, <1>6, <1>14 DEF BitsAreOwn
<1>16. QED
  BY <1>3, <1>5, <1>15

(* Its data has not been provided before.                                  *)
LEMMA DataIsWanted ==
  ASSUME CalmInv, faults = 0, NEW s \in Members,
         Kind(s) \notin {"client", "blk_driver"},
         NEW r \in DOMAIN Clients(s), ~Clients(s)[r].data,
         Kind(s) \in Drivers => Clients(s)[r].virt # Nothing
  PROVE  Clients(s)[r].virt \notin srv[s].data
<1>1. SetupInv /\ s \in Components /\ IsCalm(s) /\ VirtsDiffer(s)
  BY AllAreSettled DEF CalmInv, StartInv
<1>2. SUFFICES ASSUME NEW n \in DOMAIN Clients(s), Clients(s)[n].data,
                      Clients(s)[n].virt = Clients(s)[r].virt
               PROVE  FALSE
  BY <1>1 DEF IsCalm, HoldsNoMore
<1>3. n = r
  <2>1. CASE Kind(s) \in Drivers
    BY <1>1, <1>2, <2>1 DEF VirtsDiffer
  <2>2. CASE Kind(s) \notin Drivers
    <3>1. n \in Served(s) /\ r \in Served(s)
      BY <1>1, AllAreServed
    <3>2. n = 1 /\ r = 1
      BY <2>2, <3>1 DEF Served
    <3>3. QED
      BY <3>2
  <2>3. QED
    BY <2>1, <2>2
<1>4. QED
  BY <1>2, <1>3

(* Only those who keep to no order ask for a shared buffer.                *)
LEMMA NothingIsShared ==
  ASSUME CalmInv, NEW c \in Members
  PROVE  ~call[c].shared
<1>1. CallIsDue(c) /\ c \in Settled
  BY AllAreSettled, MembersAreComponents DEF CalmInv, SetupInv, Holds
<1>2. QED
  BY <1>1 DEF CallIsDue, Settled

(* Every call of a script is foreseen and accepted.                        *)
LEMMA CallsAreForeseen ==
  ASSUME CalmInv, faults = 0, NEW c \in Members, NEW s \in Components,
         phase[c] = "calling", Asks(c, s)
  PROVE  ~Unforeseen(s, c)
<1>1. PICK m : m = pos[c][2] - 1
  OBVIOUS
<1>2. /\ s \in Members /\ Uses(c, s) /\ m \in Nat
      /\ Kind(s) \in Kinds \ {"client", "blk_driver"}
      /\ m + 1 \in 1 .. Len(Script(Kind(s)))
      /\ call[c].req = Script(Kind(s))[m + 1]
  BY <1>1, CallerShape
<1>3. CASE m = 0
  <2>1. call[c].req = "open"
    BY <1>2, <1>3, ScriptShape
  <2>2. \A n \in DOMAIN Clients(s) : Clients(s)[n].id # c
    BY <1>1, <1>3, CallerShape
  <2>3. OneClient(Kind(s)) => Clients(s) = <<>>
    BY <1>2, <2>2, ThereIsRoom
  <2>4. QED
    BY <2>1, <2>2, <2>3 DEF Unforeseen, OneClient, IsKnown
<1>4. CASE m # 0
  <2>1. m + 1 \in 2 .. Len(Script(Kind(s)))
    <3>1. PICK l \in Nat : l = Len(Script(Kind(s)))
      BY <1>2, ScriptShape
    <3>2. QED
      BY <1>2, <1>4, <3>1
  <2>2. call[c].req \in Handled(Kind(s)) /\ call[c].req # "open"
    BY <1>2, <2>1, ScriptShape DEF Handled
  <2>3. PICK n \in DOMAIN Clients(s) :
          /\ Clients(s)[n].id = c
          /\ RecordFollows(Kind(s), m, Clients(s)[n],
                           Links(c)[pos[c][1]].virt)
    BY <1>1, <1>4, CallersRecord
  <2>4. Clients(s) # <<>>
    BY <2>3
  <2>5. QED
    BY <2>2, <2>3, <2>4 DEF Unforeseen, IsKnown
<1>5. QED
  BY <1>3, <1>4

LEMMA CallsAreAccepted ==
  ASSUME CalmInv, faults = 0, NEW c \in Members, NEW s \in Components,
         phase[c] = "calling", Asks(c, s),
         NEW m \in Nat, pos[c][2] = m + 1
  PROVE  /\ Accepts(s, c)
         /\ m # 0 =>
              /\ Record(s, c) \in DOMAIN Clients(s)
              /\ RecordFollows(Kind(s), m, Clients(s)[Record(s, c)],
                               Links(c)[pos[c][1]].virt)
<1>0. m = pos[c][2] - 1
  OBVIOUS
<1>1. /\ s \in Members /\ Uses(c, s)
      /\ pos[c][1] \in DOMAIN Links(c) /\ Links(c)[pos[c][1]].to = s
      /\ Kind(s) \in Kinds \ {"client", "blk_driver"}
      /\ m + 1 \in 1 .. Len(Script(Kind(s)))
      /\ call[c].req = Script(Kind(s))[m + 1]
  BY <1>0, CallerShape
<1>2. /\ SetupInv /\ SetupTypeOK /\ c \in Components /\ BitsAreOwn(s)
      /\ IsCalm(c)
  BY <1>1, AllAreSettled DEF CalmInv, SetupInv, Holds
<1>3. phase[s] = "serving" /\ ~Unforeseen(s, c)
  BY ServersAreServing, CallsAreForeseen
<1>4. PICK k, virt, r, cl : /\ k = Kind(s) /\ virt = Links(c)[pos[c][1]].virt
                            /\ r = Record(s, c) /\ cl = Clients(s)[r]
  OBVIOUS
<1>5. /\ k \in Kinds \ {"client", "blk_driver"}
       /\ m + 1 \in 1 .. Len(Script(k)) /\ call[c].req = Script(k)[m + 1]
  BY <1>1, <1>4
<1>6. CASE m = 0
  <2>1. call[c].req = "open"
    BY <1>6, <1>5, ScriptShape
  <2>2. \A n \in DOMAIN Clients(s) : Clients(s)[n].id # c
    BY <1>0, <1>6, CallerShape
  <2>3. Len(Clients(s)) < IF Kind(s) \in Drivers THEN 2 ELSE 1
    BY <1>1, <2>2, ThereIsRoom
  <2>4. MayOpen(s, c)
    BY <1>1, <2>3, NothingIsShared DEF MayOpen, Places
  <2>5. QED
    BY <1>6, <2>1, <2>4 DEF Accepts, IsChannel, Queues
<1>7. CASE m # 0
  <2>1. m + 1 \in 2 .. Len(Script(k)) /\ k \in Kinds \ {"client"}
    <3>1. PICK l \in Nat : l = Len(Script(k))
      BY <1>5, ScriptShape
    <3>2. QED
      BY <1>7, <1>5, <3>1
  <2>2. call[c].req \in Handled(k) /\ call[c].req # "open"
    BY <1>5, <2>1, ScriptShape DEF Handled
  <2>3. r \in DOMAIN Clients(s) /\ cl.id = c
    BY <1>2, <1>3, <1>4, <2>2, Foreseen
  <2>4. RecordFollows(k, m, cl, virt)
    <3>1. PICK n \in DOMAIN Clients(s) :
            /\ Clients(s)[n].id = c
            /\ RecordFollows(Kind(s), m, Clients(s)[n],
                             Links(c)[pos[c][1]].virt)
      BY <1>0, <1>7, CallersRecord
    <3>2. n = r
      BY <1>2, <1>4, <2>3, <3>1 DEF BitsAreOwn
    <3>3. QED
      BY <1>4, <3>1, <3>2
  <2>5. call[c].req \notin Made(k, m)
    BY <1>5, NotYetMade
  <2>6. m = 1 <=> IsChannel(call[c].req)
    <3>1. m = 1 => IsChannel(call[c].req)
      BY <1>5, <2>1, ScriptShape
    <3>2. m # 1 => m + 1 \in 3 .. Len(Script(k))
      <4>1. PICK l \in Nat : l = Len(Script(k))
        BY <2>1, ScriptShape
      <4>2. QED
        BY <1>7, <2>1, <4>1
    <3>3. m # 1 => call[c].req \in Queues \cup {"provide", "get"}
      BY <1>5, <2>1, <3>2, ScriptShape
    <3>4. QED
      BY <3>1, <3>3 DEF IsChannel, Queues
  <2>7. m # 1 => /\ cl.chan # NoChan
                 /\ k \in Drivers => cl.virt # Nothing
    <3>1. m # 1 => m >= 2
      BY <1>7
    <3>2. k \in Drivers => virt # Nothing
      BY <1>1, <1>4, MatchedLinks, SetupAssumption
    <3>3. QED
      BY <2>4, <3>1, <3>2 DEF RecordFollows
  <2>8. CASE IsChannel(call[c].req)
    <3>1. k # "timer" => call[c].req = "channel"
      BY <2>1, <2>2, <2>8, HandledShape DEF IsChannel
    <3>2. k # "timer" => call[c].virt = virt
      BY <1>2, <1>4, <3>1 DEF IsCalm
    <3>3. k \in Drivers => virt \in Virts \ srv[s].virts
      <4>1. cl.virt = Nothing
        <5>1. ~(m >= 2)
          BY <2>6, <2>8
        <5>2. QED
          BY <2>4, <5>1 DEF RecordFollows
      <4>2. QED
        BY <1>1, <1>4, <2>3, <4>1, VirtIsFree
    <3>4. k \notin Drivers => virt = Nothing
      BY <1>1, <1>4, MatchedLinks
    <3>5. MayRegister(s, c)
      BY <1>4, <2>1, <3>2, <3>3, <3>4 DEF MayRegister, Drivers
    <3>6. QED
      BY <1>4, <2>2, <2>3, <2>4, <2>8, <3>5
      DEF Accepts, IsChannel, Queues
  <2>9. CASE call[c].req \in Queues
    <3>1. ~IsChannel(call[c].req) /\ m # 1
      BY <2>6, <2>9 DEF Queues, IsChannel
    <3>2. call[c].req \notin cl.queues
      BY <2>4, <2>5 DEF RecordFollows
    <3>3. MayQueue(s, cl, call[c].req)
      BY <1>4, <2>7, <3>1, <3>2 DEF MayQueue, QueueSize, WantedQueue
    <3>4. QED
      BY <1>4, <2>2, <2>3, <2>4, <2>9, <3>1, <3>3
      DEF Accepts, IsChannel, Queues
  <2>10. CASE call[c].req \in {"provide", "get"}
    <3>1. /\ ~IsChannel(call[c].req) /\ call[c].req \notin Queues /\ m # 1
      BY <2>6, <2>10 DEF Queues, IsChannel
    <3>2. HasAll(k, cl)
      BY <1>5, <2>4, <2>10, AllBeforeLast
    <3>3. call[c].req = "provide" => MayProvide(s, cl)
      <4>1. SUFFICES ASSUME call[c].req = "provide" PROVE MayProvide(s, cl)
        OBVIOUS
      <4>2. ~cl.data
        BY <2>4, <2>5, <4>1 DEF RecordFollows
      <4>3. cl.virt \notin srv[s].data
        BY <1>1, <1>4, <2>3, <2>7, <3>1, <4>2, DataIsWanted
      <4>4. DataSize(k) = WantedData(k)
        BY DEF DataSize, WantedData
      <4>5. QED
        BY <1>4, <3>2, <4>3, <4>4 DEF MayProvide
    <3>4. QED
      BY <1>4, <2>3, <2>4, <2>10, <3>1, <3>2, <3>3 DEF Accepts
  <2>11. QED
    BY <2>1, <2>2, <2>8, <2>9, <2>10, HandledShape DEF IsChannel
<1>8. QED
  BY <1>6, <1>7

-----------------------------------------------------------------------------
(* The steps of a client.                                                  *)
LEMMA NoFailure ==
  ASSUME SetupTypeOK, Fails
  PROVE  faults' # 0
  BY DEF Fails, SetupTypeOK

LEMMA NoCallIsCalm ==
  /\ NoCall.req \notin {"channel", "ppcall"}
  /\ NoCall.answer \notin {"ok", "error"}
  BY NoCallTyped DEF Requests, Answers

LEMMA StartKeepsCalm ==
  ASSUME CalmInv, faults = 0, NEW c \in Members, Start(c)
  PROVE  \A d \in Members : IsCalm(d)'
<1>1. SetupTypeOK /\ c \in Components /\ Fresh(c) /\ IsCalm(c)
  BY AllAreSettled DEF CalmInv, SetupInv, Holds
<1>2. /\ phase[c] = "unborn" /\ call[c] = NoCall /\ Clients(c) = <<>>
      /\ UNCHANGED <<sys, pos, srv, chans, table, call, faults>>
  BY <1>1 DEF Start, Fresh
<1>3. /\ phase'[c] \in {"calling", "serving"}
      /\ \A d \in Components \ {c} : Same(d)
  BY <1>1, <1>2 DEF Start, Same, SetupTypeOK
<1>4. \A j \in DOMAIN Links(c) : Progress(c, j)' = Progress(c, j)
  BY <1>1, <1>2, ProgressStays
<1>5. IsCalm(c)'
  BY <1>1, <1>2, <1>3, <1>4, CalmStays, NoCallIsCalm
<1>6. QED
  BY <1>2, <1>3, <1>5, OthersStayCalm

LEMMA RequestKeepsCalm ==
  ASSUME CalmInv, faults = 0, NEW c \in Members, NEW req, Request(c, req)
  PROVE  \A d \in Members : IsCalm(d)'
<1>1. /\ SetupTypeOK /\ c \in Components /\ CallIsDue(c) /\ IsCalm(c)
      /\ c \notin sys.unruly
  BY AllAreSettled DEF CalmInv, SetupInv, Holds
<1>2. /\ phase[c] = "calling" /\ call[c] = NoCall
      /\ UNCHANGED <<sys, phase, pos, srv, chans, table, faults>>
  BY DEF Request, Ready
<1>3. pos[c][1] \in DOMAIN Links(c)
  <2>1. pos[c][1] \in Nat \ {0} /\ pos[c][1] <= Len(Links(c))
        /\ Len(Links(c)) \in Nat /\ DOMAIN Links(c) = 1 .. Len(Links(c))
    BY <1>1, Typed DEF Request, Ready
  <2>2. QED
    BY <2>1
<1>4. req # "ppcall"
  BY <1>1, <1>3, WantedShape DEF Request
<1>5. PICK virt, bit, shared :
        /\ call' = [call EXCEPT ![c] =
                      Asking(Target(c), req, virt, bit, shared)]
        /\ req = "channel" => virt = Links(c)[pos[c][1]].virt
  BY <1>1 DEF Request, Types
<1>6. /\ call'[c] = Asking(Target(c), req, virt, bit, shared)
      /\ \A d \in Components \ {c} : call'[d] = call[d]
  BY <1>1, <1>5 DEF SetupTypeOK
<1>7. /\ call'[c].answer = Nothing /\ call'[c].req = req
      /\ call'[c].virt = virt
  BY <1>6 DEF Asking
<1>8. Nothing \notin {"ok", "error"}
  BY NoCallTyped DEF Answers
<1>9. \A d \in Components \ {c} : Same(d)
  BY <1>1, <1>2, <1>6 DEF Same, Request, SetupTypeOK
<1>10. \A j \in DOMAIN Links(c) : Progress(c, j)' = Progress(c, j)
  BY <1>1, <1>2, <1>7, <1>8, ProgressStays, NoCallIsCalm
<1>11. IsCalm(c)'
  BY <1>1, <1>2, <1>4, <1>5, <1>7, <1>8, <1>10, CalmStays
<1>12. QED
  BY <1>2, <1>9, <1>11, OthersStayCalm

LEMMA ProceedKeepsCalm ==
  ASSUME CalmInv, faults = 0, NEW c \in Members, Proceed(c)
  PROVE  \A d \in Members : IsCalm(d)'
<1>1. /\ SetupInv /\ SetupTypeOK /\ c \in Components /\ CallIsDue(c)
      /\ IsCalm(c) /\ c \notin sys.unruly
  BY AllAreSettled DEF CalmInv, SetupInv, Holds
<1>2. /\ phase[c] = "calling" /\ call[c].answer = "ok"
      /\ UNCHANGED <<sys, phase, srv, bits, table, faults>>
      /\ pos'[c] = Onward(c) /\ call'[c] = NoCall
      /\ \A d \in Components \ {c} : Same(d)
  BY <1>1 DEF Proceed, Answered, SetupTypeOK, Same
<1>3. pos[c][1] \in DOMAIN Links(c)
  <2>1. call[c] # NoCall
    BY <1>2, NoCallIsCalm
  <2>2. QED
    BY <1>1, <1>2, <2>1, CallLeads
<1>4. ASSUME NEW j \in DOMAIN Links(c)
      PROVE  Progress(c, j)' = Progress(c, j)
  <2>1. PICK p \in Nat \ {0}, q \in Nat \ {0} : p = pos[c][1] /\ q = pos[c][2]
    BY <1>1, Typed
  <2>2. j \in Nat
    BY <1>1, Typed, ElementTyped
  <2>3. PICK l : l = Len(Script(Kind(Links(c)[j].to)))
    OBVIOUS
  <2>4. PICK p2, q2 : p2 = pos'[c][1] /\ q2 = pos'[c][2]
    OBVIOUS
  <2>5. /\ Progress(c, j) = IF p > j THEN l ELSE IF p < j THEN 0 ELSE q
        /\ Progress(c, j)' = IF p2 > j THEN l ELSE IF p2 < j THEN 0 ELSE q2 - 1
    <3>1. Links(c)' = Links(c) /\ \A d : Kind(d)' = Kind(d)
      BY <1>2 DEF Links, Kind
    <3>2. QED
      BY <1>2, <2>1, <2>3, <2>4, <3>1, NoCallIsCalm DEF Progress
  <2>6. \/ p2 = p /\ q2 = q + 1
        \/ p2 = p + 1 /\ q2 = 1 /\ (j = p => q = l)
    BY <1>1, <1>2, <1>3, <2>1, <2>3, <2>4, OnwardShape DEF Target
  <2>7. QED
    BY <2>1, <2>2, <2>5, <2>6
<1>5. IsCalm(c)'
  BY <1>1, <1>2, <1>4, CalmStays, NoCallIsCalm
<1>6. QED
  BY <1>2, <1>5, OthersStayCalm

LEMMA SetChannelsKeepsCalm ==
  ASSUME CalmInv, faults = 0, NEW c \in Members, SetChannels(c)
  PROVE  \A d \in Members : IsCalm(d)'
<1>1. SetupInv /\ SetupTypeOK /\ c \in Components /\ IsCalm(c)
  BY AllAreSettled DEF CalmInv
<1>2. phase[c] = "calling" /\ pos[c][1] > Len(Links(c))
  BY DEF SetChannels, AllCalled
<1>3. CanSet(c)
  BY <1>1, <1>2, ChannelsCanBeSet
<1>4. /\ phase'[c] = "running" /\ \A d \in Components \ {c} : Same(d)
      /\ UNCHANGED <<sys, pos, srv, bits, chans, call, faults>>
  BY <1>1, <1>3 DEF SetChannels, SetupTypeOK, Same
<1>5. \A j \in DOMAIN Links(c) : Progress(c, j)' = Progress(c, j)
  BY <1>1, <1>4, ProgressStays
<1>6. /\ call'[c].answer # "error"
      /\ call'[c].req = "ppcall" => \E j \in DOMAIN Links(c) :
           Links(c)[j].to = call'[c].to /\ Kind(call'[c].to) = "timer"
  BY <1>1, <1>4 DEF IsCalm
<1>7. IsCalm(c)'
  BY <1>1, <1>2, <1>4, <1>5, <1>6, CalmStays
<1>8. QED
  BY <1>4, <1>7, OthersStayCalm

LEMMA PpcallKeepsCalm ==
  ASSUME CalmInv, faults = 0, NEW c \in Members, Ppcall(c)
  PROVE  \A d \in Members : IsCalm(d)'
<1>1. /\ SetupInv /\ SetupTypeOK /\ c \in Components /\ IsCalm(c)
      /\ Meets(c) /\ TableIsFiled(c) /\ c \notin sys.unruly
  BY AllAreSettled DEF CalmInv, PairInv
<1>2. /\ phase[c] = "running" /\ call[c] = NoCall
      /\ UNCHANGED <<sys, phase, pos, srv, bits, chans, table, faults>>
  BY DEF Ppcall
<1>3. PICK e \in Entries(c) :
        /\ e.kind = "recv"
        /\ call' = [call EXCEPT ![c] = Asking(e.peer, "ppcall", Nothing, 0, FALSE)]
  BY <1>1, <1>2 DEF Ppcall, TableIsFiled
<1>4. PICK ch \in chans[c] : e = OfServer(ch)
  <2>1. OfIrq.kind = "irq" /\ \A n : OfClient(c, n).kind \in {"send", "bi"}
    BY DEF OfIrq, OfClient
  <2>2. QED
    BY <1>3, <2>1 DEF Entries
<1>5. ch.kind = "recv" /\ e.peer = ch.peer
  BY <1>3, <1>4 DEF OfServer
<1>6. Kind(ch.peer) = "timer"
      /\ \E j \in DOMAIN Links(c) : Links(c)[j].to = ch.peer
  <2>1. ch \in Known(c)
    BY DEF Known
  <2>2. Reached(c, ch) /\ OfKind(ch)
    BY <1>1, <1>2, <2>1 DEF Meets
  <2>3. QED
    BY <1>5, <2>2 DEF Reached, OfKind
<1>7. /\ call'[c] = Asking(ch.peer, "ppcall", Nothing, 0, FALSE)
      /\ \A d \in Components \ {c} : Same(d)
  BY <1>1, <1>2, <1>3, <1>5 DEF SetupTypeOK, Same
<1>8. call'[c].to = ch.peer /\ call'[c].req = "ppcall"
      /\ call'[c].answer = Nothing /\ Nothing \notin {"ok", "error"}
  BY <1>7, NoCallTyped DEF Asking, Answers
<1>9. \A j \in DOMAIN Links(c) : Progress(c, j)' = Progress(c, j)
  BY <1>1, <1>2, <1>8, ProgressStays, NoCallIsCalm
<1>10. pos'[c][1] > Len(Links(c))
  BY <1>1, <1>2 DEF IsCalm
<1>11. IsCalm(c)'
  BY <1>1, <1>2, <1>6, <1>8, <1>9, <1>10, CalmStays
<1>12. QED
  BY <1>2, <1>7, <1>11, OthersStayCalm

-----------------------------------------------------------------------------
(* Whoever calls outside its set-up calls the timer it has set up, and     *)
(* that has left its loop.                                                 *)
LEMMA LateCallers ==
  ASSUME CalmInv, faults = 0, NEW c \in Members, NEW s \in Components,
         phase[c] # "calling", Asks(c, s)
  PROVE  /\ pos[c][1] > Len(Links(c))
         /\ Kind(s) = "timer" /\ Clients(s)[1].id = c
         /\ phase[s] # "serving"
<1>1. /\ SetupInv /\ SetupTypeOK /\ c \in Components /\ CallIsDue(c)
      /\ IsCalm(c) /\ c \notin sys.unruly
  BY AllAreSettled DEF CalmInv, SetupInv, Holds
<1>2. call[c] # NoCall
  BY NoCallTyped DEF Asks
<1>3. phase[c] = "running" /\ call[c].req = "ppcall"
  BY <1>1, <1>2 DEF CallIsDue, IsCalm
<1>4. pos[c][1] > Len(Links(c))
  BY <1>1, <1>3 DEF IsCalm
<1>5. PICK j \in DOMAIN Links(c) : Links(c)[j].to = s /\ Kind(s) = "timer"
  BY <1>1, <1>3 DEF IsCalm, Asks
<1>6. s \in Members
  <2>1. phase[s] # "unborn"
    BY <1>1, <1>3, <1>5 DEF SetupInv, ServersAreBorn
  <2>2. QED
    BY <1>1, <2>1 DEF SetupInv, Holds, Fresh
<1>7. Progress(c, j) = 2
  <2>1. pos[c][1] > j
    <3>1. /\ pos[c][1] \in Nat /\ Len(Links(c)) \in Nat
          /\ DOMAIN Links(c) = 1 .. Len(Links(c))
      BY <1>1, Typed
    <3>2. QED
      BY <1>4, <3>1
  <2>2. Script("timer") = <<"open", "receive">>
    BY DEF Script
  <2>3. Len(Script("timer")) = 2
    BY <2>2
  <2>4. QED
    BY <1>5, <2>1, <2>3 DEF Progress
<1>8. KeepsUp(c, j)
  BY <1>1 DEF IsCalm
<1>9. PICK n \in DOMAIN Clients(s) :
        /\ Clients(s)[n].id = c
        /\ RecordFollows("timer", 2, Clients(s)[n], Links(c)[j].virt)
  BY <1>5, <1>7, <1>8 DEF KeepsUp
<1>10. n = 1
  <2>1. n \in Served(s)
    BY <1>1, AllAreServed
  <2>2. QED
    BY <1>5, <2>1 DEF Served, Drivers
<1>11. CheckDone(Kind(s), Clients(s))
  <2>1. Len(Clients(s)) >= 1
    <3>1. Clients(s) \in Seq(ClientType) /\ Len(Clients(s)) \in Nat
      BY <1>1, Typed
    <3>2. QED
      BY <1>10, <3>1
  <2>2. Initialized("timer", Clients(s)[1])
    BY <1>9, <1>10 DEF RecordFollows, Initialized
  <2>3. QED
    BY <1>5, <2>1, <2>2 DEF CheckDone, Drivers
<1>12. phase[s] # "serving"
  BY <1>6, <1>11 DEF CalmInv, IsCalm, HoldsNoMore
<1>13. QED
  BY <1>4, <1>5, <1>9, <1>10, <1>12

LEMMA AnswerKeepsCalm ==
  ASSUME CalmInv, faults = 0, NEW c \in Members, NEW s \in Components,
         Asks(c, s), NEW what \in {"ok", "never"}, Answer(c, what, 0),
         what = "ok" => phase[c] # "calling",
         UNCHANGED <<sys, phase, pos, srv, bits, chans, table>>
  PROVE  \A d \in Members : IsCalm(d)'
<1>1. SetupTypeOK /\ c \in Components /\ IsCalm(c)
  BY AllAreSettled DEF CalmInv
<1>2. /\ call'[c].answer = what
      /\ call'[c].to = call[c].to /\ call'[c].req = call[c].req
      /\ call'[c].virt = call[c].virt
      /\ \A d \in Components \ {c} : call'[d] = call[d]
  BY <1>1, AnswerGiven DEF Answers
<1>3. call[c].answer = Nothing /\ Nothing \notin {"ok", "error"}
  BY NoCallTyped DEF Asks, Answers
<1>4. \A j \in DOMAIN Links(c) : Progress(c, j)' = Progress(c, j)
  <2>1. CASE what = "ok"
    <3>1. pos[c][1] > Len(Links(c))
      BY <2>1, LateCallers
    <3>2. QED
      BY <1>1, <3>1, ProgressStays
  <2>2. CASE what = "never"
    BY <1>1, <1>2, <1>3, <2>2, ProgressStays
  <2>3. QED
    BY <2>1, <2>2
<1>5. IsCalm(c)'
  <2>1. /\ phase[c] # "dead"
        /\ phase[c] = "calling" /\ call[c].req = "channel" =>
             call[c].virt = Links(c)[pos[c][1]].virt
        /\ phase[c] = "running" => pos[c][1] > Len(Links(c))
        /\ call[c].req = "ppcall" => \E j \in DOMAIN Links(c) :
             Links(c)[j].to = call[c].to /\ Kind(call[c].to) = "timer"
    BY <1>1 DEF IsCalm
  <2>2. QED
    BY <1>1, <1>2, <1>4, <2>1, CalmStays
<1>6. QED
  BY <1>2, <1>5, OthersStayCalm DEF Same

LEMMA DropsKeepsCalm ==
  ASSUME CalmInv, faults = 0, NEW s \in Members, NEW c \in Members,
         Drops(s, c)
  PROVE  \A d \in Members : IsCalm(d)'
<1>1. s \in Components
  BY AllAreSettled
<1>2. QED
  BY <1>1, AnswerKeepsCalm DEF Drops

LEMMA ProtectedKeepsCalm ==
  ASSUME CalmInv, faults = 0, NEW s \in Members, NEW c \in Members,
         Protected(s, c)
  PROVE  \A d \in Members : IsCalm(d)'
<1>1. s \in Components /\ phase[s] = "running" /\ Asks(c, s)
  BY AllAreSettled DEF Protected
<1>2. phase[c] # "calling"
  BY <1>1, ServersAreServing
<1>3. Clients(s)[1].id = c
  BY <1>1, <1>2, LateCallers
<1>4. QED
  BY <1>1, <1>2, <1>3, AnswerKeepsCalm DEF Protected

(* What only a failing call can bring about.                               *)
LEMMA NoRequestFails ==
  ASSUME CalmInv, faults = 0, NEW c \in Members, NEW req,
         RequestFails(c, req)
  PROVE  faults' # 0
<1>1. SetupInv /\ SetupTypeOK /\ c \in Components
  BY AllAreSettled
<1>2. phase[Target(c)] # "unborn"
  <2>1. phase[c] = "calling" /\ pos[c][1] <= Len(Links(c))
    BY DEF RequestFails, Ready
  <2>2. pos[c][1] \in DOMAIN Links(c)
    <3>1. /\ pos[c][1] \in Nat \ {0} /\ Len(Links(c)) \in Nat
          /\ DOMAIN Links(c) = 1 .. Len(Links(c))
      BY <1>1, Typed
    <3>2. QED
      BY <2>1, <3>1
  <2>3. QED
    BY <1>1, <2>1, <2>2 DEF SetupInv, ServersAreBorn, Target
<1>3. QED
  BY <1>1, <1>2, NoFailure DEF RequestFails

LEMMA NobodyGivesUp ==
  ASSUME CalmInv, faults = 0, NEW c \in Members, GiveUp(c)
  PROVE  faults' # 0
<1>1. SetupTypeOK /\ IsCalm(c)
  BY AllAreSettled DEF CalmInv
<1>2. QED
  BY <1>1, NoFailure DEF GiveUp, IsCalm

LEMMA NoServerDies ==
  ASSUME CalmInv, faults = 0, NEW s \in Members, NEW c \in Members,
         ServeDies(s, c)
  PROVE  faults' # 0
<1>1. /\ SetupTypeOK /\ s \in Components
      /\ phase[s] = "serving" /\ Asks(c, s)
  BY AllAreSettled DEF ServeDies
<1>2. phase[c] = "calling"
  BY <1>1, LateCallers
<1>3. ~Unforeseen(s, c)
  BY <1>1, <1>2, CallsAreForeseen
<1>4. ~Unwraps(s, c)
  BY NothingIsShared DEF Unwraps
<1>5. QED
  BY <1>1, <1>3, <1>4, NoFailure DEF ServeDies

-----------------------------------------------------------------------------
(* A call is served.                                                       *)
LEMMA RevisedExactly ==
  ASSUME NEW s, NEW c, NEW cl \in ClientType, cl = Clients(s)[Record(s, c)],
         call[c].req \in {"channel", "receive", "provide", "get"} \cup Queues
  PROVE  /\ Revised(s, c).queues = IF call[c].req \in Queues
                                   THEN cl.queues \cup {call[c].req}
                                   ELSE cl.queues
         /\ Revised(s, c).data <=> cl.data \/ call[c].req = "provide"
         /\ Revised(s, c).got <=> cl.got \/ call[c].req = "get"
<1> DEFINE req == call[c].req
<1>1. CASE IsChannel(req)
  <2>1. Revised(s, c) = Registered(s, c, cl)
    BY <1>1 DEF Revised, IsChannel, Queues
  <2>2. req \notin Queues \cup {"provide", "get"}
    BY <1>1 DEF IsChannel, Queues
  <2>3. /\ Registered(s, c, cl).queues = cl.queues
        /\ Registered(s, c, cl).data = cl.data
        /\ Registered(s, c, cl).got = cl.got
    BY DEF Registered, ClientType
  <2>4. QED
    BY <2>1, <2>2, <2>3
<1>2. CASE req \in Queues
  <2>1. Revised(s, c) = [cl EXCEPT !.queues = @ \cup {req}]
    BY <1>2 DEF Revised, IsChannel, Queues
  <2>2. req \notin {"provide", "get"}
    BY <1>2 DEF Queues
  <2>3. QED
    BY <1>2, <2>1, <2>2 DEF ClientType
<1>3. CASE req = "provide"
  <2>1. Revised(s, c) = [cl EXCEPT !.data = TRUE]
    BY <1>3 DEF Revised, IsChannel, Queues
  <2>2. QED
    BY <1>3, <2>1 DEF ClientType, Queues
<1>4. CASE req = "get"
  <2>1. Revised(s, c) = [cl EXCEPT !.got = TRUE]
    BY <1>4 DEF Revised, IsChannel, Queues
  <2>2. QED
    BY <1>4, <2>1 DEF ClientType, Queues
<1>5. QED
  BY <1>1, <1>2, <1>3, <1>4 DEF IsChannel

LEMMA ServeSucceeds ==
  ASSUME CalmInv, faults = 0, NEW s \in Members, NEW c \in Members,
         Serve(s, c), faults' = 0
  PROVE  /\ s \in Components /\ c \in Components /\ s # c
         /\ phase[s] = "serving" /\ phase[c] = "calling" /\ Asks(c, s)
         /\ call'[c].answer = "ok"
         /\ Opens(s, c) \/ Revises(s, c)
         /\ srv'[s].data = srv[s].data
              \cup IF call[c].req = "provide"
                   THEN {Clients(s)[Record(s, c)].virt} ELSE {}
<1>1. /\ SetupInv /\ SetupTypeOK /\ s \in Components /\ c \in Components
      /\ phase[s] = "serving" /\ Asks(c, s) /\ ~Unforeseen(s, c)
      /\ Refused(s, c) \/ Opens(s, c) \/ Revises(s, c)
  BY AllAreSettled, ServeShape
<1>2. phase[c] = "calling"
  BY <1>1, Foreseen
<1>3. PICK m \in Nat : pos[c][2] = m + 1
  <2>1. pos[c][2] \in Nat \ {0}
    BY <1>1, Typed
  <2>2. pos[c][2] - 1 \in Nat /\ pos[c][2] = (pos[c][2] - 1) + 1
    BY <2>1
  <2>3. QED
    BY <2>2
<1>4. Accepts(s, c)
  BY <1>1, <1>2, <1>3, CallsAreAccepted
<1>5. PICK bit : /\ Answer(c, "ok", bit)
                 /\ srv' = [srv EXCEPT ![s] = Updated(s, c)]
  BY <1>1, <1>4, NoFailure DEF Serve
<1>6. call'[c].answer = "ok"
  BY <1>1, <1>5 DEF Answer, SetupTypeOK, CallType
<1>7. srv'[s] = Updated(s, c)
  BY <1>1, <1>5 DEF SetupTypeOK
<1>8. QED
  BY <1>1, <1>2, <1>6, <1>7 DEF Updated, Refused

(* Its record goes with it.                                                *)
LEMMA CallersRecordFollows ==
  ASSUME CalmInv, faults = 0, NEW s \in Members, NEW c \in Members,
         Serve(s, c), faults' = 0, NEW m \in Nat, pos[c][2] = m + 1,
         NEW cls, cls = Clients(s)'
  PROVE  \E n \in DOMAIN cls :
           /\ cls[n].id = c
           /\ RecordFollows(Kind(s), m + 1, cls[n], Links(c)[pos[c][1]].virt)
<1>0. m = pos[c][2] - 1
  OBVIOUS
<1>1. /\ SetupInv /\ SetupTypeOK /\ s \in Components /\ c \in Components
      /\ phase[c] = "calling" /\ Asks(c, s)
      /\ Opens(s, c) \/ Revises(s, c)
  BY AllAreSettled, ServeSucceeds
<1>2. PICK k, virt : k = Kind(s) /\ virt = Links(c)[pos[c][1]].virt
  OBVIOUS
<1>3. /\ k \in Kinds \ {"client", "blk_driver"}
      /\ m + 1 \in 1 .. Len(Script(k)) /\ call[c].req = Script(k)[m + 1]
      /\ pos[c][1] \in DOMAIN Links(c)
  BY <1>0, <1>1, <1>2, CallerShape
<1>4. PICK l \in Nat : l = Len(Script(k))
  BY <1>3, ScriptShape
<1>5. CASE m = 0
  <2>1. call[c].req = "open"
    BY <1>3, <1>5, ScriptShape
  <2>2. cls = Append(Clients(s), NewClient(c))
    BY <1>1, <2>1 DEF Opens, Revises
  <2>3. PICK n \in DOMAIN cls : cls[n] = NewClient(c)
    <3>1. Clients(s) \in Seq(ClientType)
      BY <1>1, Typed
    <3>2. PICK v \in ClientType : v = NewClient(c)
      BY <1>1, NewClientTyped
    <3>3. Len(Clients(s)) + 1 \in DOMAIN Append(Clients(s), v)
          /\ Append(Clients(s), v)[Len(Clients(s)) + 1] = v
      BY <3>1
    <3>4. QED
      BY <2>2, <3>2, <3>3
  <2>4. cls[n].id = c
    BY <1>1, <2>3, NewClientTyped
  <2>5. RecordFollows(k, 1, NewClient(c), virt)
    BY <1>1, <1>3, NewFollows
  <2>6. m + 1 = 1
    BY <1>5
  <2>7. QED
    BY <1>2, <2>3, <2>4, <2>5, <2>6
<1>6. CASE m # 0
  <2>1. m + 1 \in 2 .. Len(Script(k)) /\ k \in Kinds \ {"client"}
    BY <1>3, <1>4, <1>6
  <2>2. call[c].req # "open" /\ call[c].req \in Handled(k)
    BY <1>3, <2>1, ScriptShape DEF Handled
  <2>3. Revises(s, c)
    BY <1>1, <2>2 DEF Opens
  <2>4. PICK n, cl : n = Record(s, c) /\ cl = Clients(s)[n]
    OBVIOUS
  <2>5. /\ n \in DOMAIN Clients(s) /\ cl.id = c /\ cl \in ClientType
        /\ Kept(Revised(s, c), cl)
    BY <1>1, <2>3, <2>4, Revision
  <2>6. RecordFollows(k, m, cl, virt)
    BY <1>1, <1>2, <1>6, <2>4, CallsAreAccepted
  <2>7. n \in DOMAIN cls /\ cls[n] = Revised(s, c)
    <3>1. Clients(s) \in Seq(ClientType)
      BY <1>1, Typed
    <3>2. PICK v \in ClientType : v = Revised(s, c)
      BY <2>5 DEF Kept
    <3>3. cls = [Clients(s) EXCEPT ![n] = v]
      BY <2>3, <2>4, <3>2 DEF Revises
    <3>4. QED
      BY <2>5, <3>1, <3>2, <3>3, ReplaceShape
  <2>8. cls[n].id = c
    BY <2>5, <2>7 DEF Kept
  <2>9. call[c].req \in {"channel", "receive", "provide", "get"} \cup Queues
    BY <2>1, <2>2, HandledShape
  <2>10. /\ cls[n].queues = IF call[c].req \in Queues
                            THEN cl.queues \cup {call[c].req}
                            ELSE cl.queues
         /\ cls[n].data <=> cl.data \/ call[c].req = "provide"
         /\ cls[n].got <=> cl.got \/ call[c].req = "get"
    BY <2>4, <2>5, <2>7, <2>9, RevisedExactly
  <2>11. m = 1 <=> IsChannel(call[c].req)
    <3>1. m = 1 => IsChannel(call[c].req)
      BY <1>3, <2>1, ScriptShape
    <3>2. m # 1 => m + 1 \in 3 .. Len(Script(k))
      BY <1>4, <1>6, <2>1
    <3>3. m # 1 => call[c].req \in Queues \cup {"provide", "get"}
      BY <1>3, <2>1, <3>2, ScriptShape
    <3>4. QED
      BY <3>1, <3>3 DEF IsChannel, Queues
  <2>12. m # 1 => cls[n].chan = cl.chan /\ cls[n].virt = cl.virt
    BY <2>3, <2>4, <2>7, <2>11, Revision, <1>1
  <2>13. m = 1 => /\ cls[n].chan # NoChan
                  /\ cls[n].virt = IF k \in Drivers THEN virt ELSE cl.virt
    <3>1. SUFFICES ASSUME m = 1
                   PROVE  /\ cls[n].chan # NoChan
                          /\ cls[n].virt = IF k \in Drivers THEN virt
                                           ELSE cl.virt
      OBVIOUS
    <3>2. /\ cls[n].chan # NoChan
          /\ cls[n].virt = IF k \in Drivers THEN call[c].virt ELSE cl.virt
      BY <1>1, <1>2, <2>3, <2>4, <2>7, <2>11, <3>1, Revision
    <3>3. k \in Drivers => call[c].virt = virt
      <4>1. k \in Drivers => call[c].req = "channel"
        BY <2>1, <2>2, <2>11, <3>1, HandledShape DEF IsChannel, Drivers
      <4>2. QED
        BY <1>1, <1>2, <4>1 DEF CalmInv, IsCalm
    <3>4. QED
      BY <3>2, <3>3
  <2>14. m \in Nat \ {0} /\ m + 1 \in 1 .. Len(Script(k))
    BY <1>3, <1>6
  <2>15. RecordFollows(k, m + 1, cls[n], virt)
    BY <1>3, <2>1, <2>6, <2>10, <2>12, <2>13, <2>14, NextFollows
  <2>16. QED
    BY <1>2, <2>7, <2>8, <2>15
<1>7. QED
  BY <1>5, <1>6

(* Everybody's records keep up.                                            *)
LEMMA ServeKeepsUp ==
  ASSUME CalmInv, faults = 0, NEW s \in Members, NEW c \in Members,
         Serve(s, c), faults' = 0, NEW d \in Members, NEW j \in DOMAIN Links(d)
  PROVE  KeepsUp(d, j)'
<1>1. /\ SetupInv /\ SetupTypeOK /\ s \in Components /\ c \in Components
      /\ d \in Components /\ KeepsUp(d, j)
      /\ phase[c] = "calling" /\ Asks(c, s) /\ call'[c].answer = "ok"
      /\ sys' = sys /\ pos' = pos
      /\ \A e \in Components \ {s} : srv'[e] = srv[e]
      /\ \A e \in Components \ {c} : call'[e] = call[e]
  BY AllAreSettled, ServeSucceeds, ServeShape DEF CalmInv, IsCalm
<1>2. PICK m \in Nat : pos[c][2] = m + 1
  <2>1. pos[c][2] \in Nat \ {0}
    BY <1>1, Typed
  <2>2. pos[c][2] - 1 \in Nat /\ pos[c][2] = (pos[c][2] - 1) + 1
    BY <2>1
  <2>3. QED
    BY <2>2
<1>3. pos[c][1] \in DOMAIN Links(c) /\ Links(c)[pos[c][1]].to = s
  <2>1. m = pos[c][2] - 1
    BY <1>2
  <2>2. QED
    BY <1>1, <2>1, CallerShape
<1>4. PICK t : t = Links(d)[j].to
  OBVIOUS
<1>5. t \in Components /\ Kind(t) \in Kinds \ {"client"}
  BY <1>1, <1>4, LinkLeads
<1>6. d # c \/ t # s => Progress(d, j)' = Progress(d, j)
  <2>1. CASE d # c
    BY <1>1, <2>1, ProgressStays
  <2>2. CASE d = c /\ t # s
    <3>1. pos[c][1] # j
      BY <1>3, <1>4, <2>2
    <3>2. pos[c][1] \in Nat /\ j \in Nat
      BY <1>1, Typed, ElementTyped
    <3>3. /\ Links(c)' = Links(c) /\ \A e : Kind(e)' = Kind(e)
          /\ pos'[c] = pos[c]
      BY <1>1 DEF Links, Kind
    <3>4. pos[c][1] > j \/ pos[c][1] < j
      BY <3>1, <3>2
    <3>5. QED
      BY <2>2, <3>3, <3>4 DEF Progress
  <2>3. QED
    BY <2>1, <2>2
<1>7. CASE t # s
  BY <1>1, <1>4, <1>5, <1>6, <1>7, KeepsUpStays
<1>8. PICK cls : cls = Clients(s)'
  OBVIOUS
<1>9. Links(d)' = Links(d) /\ Kind(s)' = Kind(s)
  BY <1>1 DEF Links, Kind
<1>10. \A k, i, cl, v :
         RecordFollows(k, i, cl, v)' <=> RecordFollows(k, i, cl, v)
  BY FollowsStays
<1>11. CASE t = s /\ d = c
  <2>1. j = pos[c][1]
    <3>1. j \in DOMAIN Links(c) /\ Links(c)[j].to = s
      BY <1>4, <1>11
    <3>2. \A i \in DOMAIN Links(c) :
            Links(c)[i].to = Links(c)[j].to => i = j
      BY <1>1, <3>1, LinkLeads
    <3>3. QED
      BY <1>3, <3>1, <3>2
  <2>2. Progress(d, j)' = m + 1
    <3>1. pos'[c][1] = j /\ pos'[c][2] = m + 1
      BY <1>1, <1>2, <2>1
    <3>2. j \in Nat
      BY <1>1, ElementTyped, Typed
    <3>3. ~(j > j) /\ ~(j < j)
      BY <3>2
    <3>4. QED
      BY <1>1, <1>11, <3>1, <3>3 DEF Progress
  <2>3. PICK n \in DOMAIN cls :
          /\ cls[n].id = c
          /\ RecordFollows(Kind(s), m + 1, cls[n], Links(c)[pos[c][1]].virt)
    BY <1>2, <1>8, CallersRecordFollows
  <2>4. m + 1 # 0
    BY <1>2
  <2>5. QED
    BY <1>4, <1>8, <1>9, <1>10, <1>11, <2>1, <2>2, <2>3, <2>4 DEF KeepsUp
<1>12. CASE t = s /\ d # c
  <2>1. /\ DOMAIN Clients(s) \subseteq DOMAIN cls
        /\ \A n \in DOMAIN Clients(s) : cls[n].id = Clients(s)[n].id
        /\ \A n \in DOMAIN cls :
             \/ n \in DOMAIN Clients(s) /\ cls[n] = Clients(s)[n]
             \/ n \notin DOMAIN Clients(s) /\ cls[n] = NewClient(c)
             \/ Revises(s, c) /\ n = Record(s, c) /\ n \in DOMAIN Clients(s)
    BY <1>1, <1>8, RecordMoves
  <2>2. NewClient(c).id = c
    BY <1>1, NewClientTyped
  <2>3. Revises(s, c) => Clients(s)[Record(s, c)].id = c
    BY <1>1, Revision
  <2>4. PICK i : i = Progress(d, j)
    OBVIOUS
  <2>5. CASE i = 0
    <3>1. \A n \in DOMAIN Clients(s) : Clients(s)[n].id # d
      BY <1>1, <1>4, <1>12, <2>4, <2>5 DEF KeepsUp
    <3>2. \A n \in DOMAIN cls : cls[n].id # d
      BY <1>12, <2>1, <2>2, <3>1
    <3>3. QED
      BY <1>4, <1>6, <1>8, <1>9, <1>10, <1>12, <2>4, <2>5, <3>2 DEF KeepsUp
  <2>6. CASE i # 0
    <3>1. PICK n \in DOMAIN Clients(s) :
            /\ Clients(s)[n].id = d
            /\ RecordFollows(Kind(s), i, Clients(s)[n], Links(d)[j].virt)
      BY <1>1, <1>4, <1>12, <2>4, <2>6 DEF KeepsUp
    <3>2. n \in DOMAIN cls /\ cls[n] = Clients(s)[n]
      BY <1>12, <2>1, <2>3, <3>1
    <3>3. QED
      BY <1>4, <1>6, <1>8, <1>9, <1>10, <1>12, <2>4, <2>6, <3>1, <3>2
      DEF KeepsUp
  <2>7. QED
    BY <2>5, <2>6
<1>13. QED
  BY <1>7, <1>11, <1>12

(* What it holds is still somebody's.                                      *)
LEMMA ServeHoldsNoMore ==
  ASSUME CalmInv, faults = 0, NEW s \in Members, NEW c \in Members,
         Serve(s, c), faults' = 0
  PROVE  HoldsNoMore(s)'
<1>1. /\ SetupInv /\ SetupTypeOK /\ s \in Components /\ c \in Components
      /\ phase[s] = "serving" /\ phase[c] = "calling" /\ Asks(c, s)
      /\ Opens(s, c) \/ Revises(s, c)
      /\ sys' = sys
      /\ phase' = IF CheckDone(Kind(s), Clients(s)')
                  THEN [phase EXCEPT ![s] = "calling"] ELSE phase
      /\ srv'[s].data = srv[s].data
           \cup IF call[c].req = "provide"
                THEN {Clients(s)[Record(s, c)].virt} ELSE {}
  BY AllAreSettled, ServeSucceeds, ServeShape DEF CalmInv, IsCalm
<1>2. PICK cls : cls = Clients(s)'
  OBVIOUS
<1>3. HoldsNoMore(s)
  BY DEF CalmInv, IsCalm
<1>4. /\ DOMAIN Clients(s) \subseteq DOMAIN cls
      /\ \A n \in DOMAIN cls :
           \/ n \in DOMAIN Clients(s) /\ cls[n] = Clients(s)[n]
           \/ n \notin DOMAIN Clients(s)
           \/ Revises(s, c) /\ n = Record(s, c) /\ cls[n] = Revised(s, c)
  BY <1>1, <1>2, RecordMoves
<1>5. PICK r : r = Record(s, c)
  OBVIOUS
<1>6. ASSUME Revises(s, c)
      PROVE  /\ r \in DOMAIN cls /\ cls[r] = Revised(s, c)
             /\ IsChannel(call[c].req) =>
                  ~Clients(s)[r].data
                  /\ (Kind(s) \in Drivers =>
                        Clients(s)[r].virt = Nothing
                        /\ cls[r].virt = call[c].virt)
             /\ ~IsChannel(call[c].req) => cls[r].virt = Clients(s)[r].virt
             /\ cls[r].data <=> Clients(s)[r].data \/ call[c].req = "provide"
  <2>1. PICK cl : cl = Clients(s)[r]
    OBVIOUS
  <2>2. /\ r \in DOMAIN Clients(s) /\ cl \in ClientType
        /\ Kind(s) \in Kinds \ {"client", "blk_driver"}
        /\ Kept(Revised(s, c), cl)
        /\ IsChannel(call[c].req) /\ Kind(s) \in Drivers =>
             Revised(s, c).virt = call[c].virt
        /\ ~IsChannel(call[c].req) => Revised(s, c).virt = cl.virt
    BY <1>1, <1>5, <1>6, <2>1, Revision
  <2>3. r \in DOMAIN cls /\ cls[r] = Revised(s, c)
    <3>1. Clients(s) \in Seq(ClientType)
      BY <1>1, Typed
    <3>2. PICK v \in ClientType : v = Revised(s, c)
      BY <2>2 DEF Kept
    <3>3. cls = [Clients(s) EXCEPT ![r] = v]
      BY <1>2, <1>5, <1>6, <3>2 DEF Revises
    <3>4. QED
      BY <2>2, <3>1, <3>2, <3>3, ReplaceShape
  <2>4. call[c].req # "open" /\ call[c].req \in Handled(Kind(s))
    <3>1. ~Unforeseen(s, c)
      BY <1>1, CallsAreForeseen
    <3>2. QED
      BY <1>1, <1>6, <3>1, Foreseen DEF Revises
  <2>5. cls[r].data <=> Clients(s)[r].data \/ call[c].req = "provide"
    <3>1. call[c].req \in {"channel", "receive", "provide", "get"} \cup Queues
      BY <2>2, <2>4, HandledShape
    <3>2. cl = Clients(s)[Record(s, c)] /\ cl \in ClientType
      BY <1>5, <2>1, <2>2
    <3>3. Revised(s, c).data <=> cl.data \/ call[c].req = "provide"
      BY <3>1, <3>2, RevisedExactly
    <3>4. QED
      BY <2>1, <2>3, <3>3
  <2>6. ASSUME IsChannel(call[c].req)
        PROVE  ~cl.data /\ (Kind(s) \in Drivers => cl.virt = Nothing)
    <3>1. pos[c][2] = 2
      <4>1. Meets(c) /\ c \notin sys.unruly
        BY <1>1, AllAreSettled DEF CalmInv, PairInv
      <4>2. QED
        BY <1>1, <2>6, <4>1, AskedOnce
    <3>2. 1 \in Nat /\ pos[c][2] = 1 + 1 /\ 1 # 0
      BY <3>1
    <3>3. PICK virt : RecordFollows(Kind(s), 1, cl, virt)
      BY <1>1, <1>5, <2>1, <3>2, CallsAreAccepted
    <3>4. Made(Kind(s), 1) = {"open"}
      BY <2>2, ScriptShape, MadeGrows
    <3>5. QED
      BY <3>3, <3>4 DEF RecordFollows
  <2>7. QED
    BY <2>1, <2>2, <2>3, <2>5, <2>6
<1>7. ASSUME Kind(s) \in Drivers, NEW v \in srv'[s].virts
      PROVE  \E n \in DOMAIN cls : cls[n].virt = v
  <2>1. CASE v \in srv[s].virts
    <3>1. v \in Virts /\ v # Nothing
      BY <1>1, <2>1, SetupAssumption DEF SetupTypeOK
    <3>2. PICK n \in DOMAIN Clients(s) : Clients(s)[n].virt = v
      BY <1>3, <1>7, <2>1 DEF HoldsNoMore
    <3>3. n \in DOMAIN cls /\ cls[n].virt = v
      BY <1>4, <1>5, <1>6, <1>7, <3>1, <3>2
    <3>4. QED
      BY <3>3
  <2>2. CASE v \notin srv[s].virts
    <3>1. Revises(s, c) /\ IsChannel(call[c].req) /\ v = call[c].virt
      BY <1>1, <1>7, <2>2 DEF Opens, Revises
    <3>2. QED
      BY <1>6, <1>7, <3>1
  <2>3. QED
    BY <2>1, <2>2
<1>8. ASSUME NEW v \in srv'[s].data
      PROVE  \E n \in DOMAIN cls : cls[n].data /\ cls[n].virt = v
  <2>1. CASE v \in srv[s].data
    <3>1. PICK n \in DOMAIN Clients(s) :
            Clients(s)[n].data /\ Clients(s)[n].virt = v
      BY <1>3, <2>1 DEF HoldsNoMore
    <3>2. n \in DOMAIN cls /\ cls[n].data /\ cls[n].virt = v
      BY <1>4, <1>5, <1>6, <3>1
    <3>3. QED
      BY <3>2
  <2>2. CASE v \notin srv[s].data
    <3>1. call[c].req = "provide" /\ v = Clients(s)[r].virt
      BY <1>1, <1>5, <1>8, <2>2
    <3>2. Revises(s, c) /\ ~IsChannel(call[c].req)
      BY <1>1, <3>1 DEF Opens, IsChannel
    <3>3. QED
      BY <1>6, <3>1, <3>2
  <2>3. QED
    BY <2>1, <2>2
<1>9. phase'[s] = "serving" => ~CheckDone(Kind(s), cls)
  BY <1>1, <1>2 DEF SetupTypeOK
<1>10. Kind(s)' = Kind(s)
  BY <1>1 DEF Kind
<1>11. QED
  BY <1>2, <1>7, <1>8, <1>9, <1>10 DEF HoldsNoMore

LEMMA ServeKeepsCalm ==
  ASSUME CalmInv, faults = 0, NEW s \in Members, NEW c \in Members,
         Serve(s, c), faults' = 0
  PROVE  \A d \in Members : IsCalm(d)'
<1>1. /\ SetupInv /\ SetupTypeOK /\ s \in Components /\ c \in Components
      /\ s # c /\ phase[s] = "serving" /\ phase[c] = "calling" /\ Asks(c, s)
      /\ call'[c].answer = "ok"
      /\ sys' = sys /\ pos' = pos
      /\ phase' = phase \/ phase' = [phase EXCEPT ![s] = "calling"]
      /\ \A e \in Components \ {s} : srv'[e] = srv[e]
      /\ \A e \in Components \ {c} : call'[e] = call[e]
      /\ call'[c].to = call[c].to /\ call'[c].req = call[c].req
      /\ call'[c].virt = call[c].virt
  BY AllAreSettled, ServeSucceeds, ServeShape
<1>2. ASSUME NEW d \in Members
      PROVE  IsCalm(d)'
  <2>1. d \in Components /\ IsCalm(d)
    BY AllAreSettled DEF CalmInv
  <2>2. /\ phase'[d] = phase[d] \/ (d = s /\ phase'[d] = "calling")
        /\ d # s => srv'[d] = srv[d] /\ phase'[d] = phase[d]
    BY <1>1, <2>1 DEF SetupTypeOK
  <2>3. Links(d)' = Links(d) /\ \A e : Kind(e)' = Kind(e)
    BY <1>1 DEF Links, Kind
  <2>4. call'[d].answer # "error"
    BY <1>1, <2>1 DEF IsCalm
  <2>5. /\ call'[d].req = call[d].req /\ call'[d].virt = call[d].virt
        /\ call'[d].to = call[d].to
    BY <1>1, <2>1
  <2>6. phase'[d] = "calling" /\ call'[d].req = "channel" =>
          call'[d].virt = Links(d)[pos[d][1]].virt
    <3>1. call[s] = NoCall
      BY <1>1 DEF SetupInv, Holds, Fresh
    <3>2. QED
      BY <2>1, <2>2, <2>5, <3>1, NoCallIsCalm DEF IsCalm
  <2>7. phase'[d] # "dead"
        /\ (phase'[d] = "running" => pos[d][1] > Len(Links(d)))
    BY <2>1, <2>2 DEF IsCalm
  <2>8. call'[d].req = "ppcall" => \E j \in DOMAIN Links(d) :
          Links(d)[j].to = call'[d].to /\ Kind(call'[d].to) = "timer"
    BY <2>1, <2>5 DEF IsCalm
  <2>9. \A j \in DOMAIN Links(d) : KeepsUp(d, j)'
    BY ServeKeepsUp
  <2>10. HoldsNoMore(d)'
    <3>1. CASE d = s
      BY <3>1, ServeHoldsNoMore
    <3>2. CASE d # s
      BY <1>1, <2>1, <2>2, <3>2, HoldsNoMoreStays DEF IsCalm
    <3>3. QED
      BY <3>1, <3>2
  <2>11. QED
    BY <1>1, <2>3, <2>4, <2>6, <2>7, <2>8, <2>9, <2>10 DEF IsCalm
<1>3. QED
  BY <1>2

-----------------------------------------------------------------------------
LEMMA CalmIdles ==
  ASSUME CalmInv, faults = 0, UNCHANGED setupVars
  PROVE  \A d \in Members : IsCalm(d)'
<1>1. ASSUME NEW c \in Members
      PROVE  IsCalm(c)'
  <2>1. /\ SetupTypeOK /\ c \in Components /\ IsCalm(c)
        /\ UNCHANGED <<sys, phase, pos, srv, call>>
    BY AllAreSettled DEF CalmInv, setupVars
  <2>2. \A j \in DOMAIN Links(c) : Progress(c, j)' = Progress(c, j)
    BY <2>1, ProgressStays
  <2>3. /\ phase[c] # "dead" /\ call[c].answer # "error"
        /\ phase[c] = "calling" /\ call[c].req = "channel" =>
             call[c].virt = Links(c)[pos[c][1]].virt
        /\ phase[c] = "running" => pos[c][1] > Len(Links(c))
        /\ call[c].req = "ppcall" => \E j \in DOMAIN Links(c) :
             Links(c)[j].to = call[c].to /\ Kind(call[c].to) = "timer"
    BY <2>1 DEF IsCalm
  <2>4. QED
    BY <2>1, <2>2, <2>3, CalmStays
<1>2. QED
  BY <1>1

LEMMA CalmSteps ==
  ASSUME CalmInv, [SetupNext]_setupVars
  PROVE  CalmInv'
<1>1. PairInv' /\ StartInv' /\ sys' = sys
  BY PairSteps, StartInvSteps, SystemStays DEF CalmInv
<1>2. SetupTypeOK /\ Members' = Members /\ IsMatched(sys')
  BY <1>1, AllAreSettled DEF CalmInv, Members
<1>3. SUFFICES ASSUME faults' = 0
               PROVE  \A d \in Members : IsCalm(d)'
  BY <1>1, <1>2 DEF CalmInv
<1>4. ~Fails
  BY <1>2, <1>3, NoFailure
<1>5. faults = 0
  <2>1. CASE UNCHANGED setupVars
    BY <1>3, <2>1 DEF setupVars
  <2>2. ASSUME NEW c \in Members,
               \/ Start(c)
               \/ \E req : Request(c, req) \/ RequestFails(c, req)
               \/ Proceed(c) \/ GiveUp(c) \/ SetChannels(c) \/ Ppcall(c)
               \/ Interrupted(c)
        PROVE  UNCHANGED faults
    BY <1>4, <2>2 DEF Start, Request, RequestFails, Proceed, GiveUp,
                      SetChannels, Ppcall, Interrupted
  <2>3. ASSUME NEW s \in Members, NEW c \in Members, Attend(s, c)
        PROVE  UNCHANGED faults
    BY <1>4, <2>3 DEF Attend, Serve, ServeDies, Drops, Protected
  <2>4. QED
    BY <1>3, <2>1, <2>2, <2>3 DEF SetupNext
<1>6. ASSUME NEW c \in Members, Start(c)
      PROVE  \A d \in Members : IsCalm(d)'
  BY <1>5, <1>6, StartKeepsCalm
<1>7. ASSUME NEW c \in Members, NEW req, Request(c, req)
      PROVE  \A d \in Members : IsCalm(d)'
  BY <1>5, <1>7, RequestKeepsCalm
<1>8. ASSUME NEW c \in Members, NEW req, RequestFails(c, req)
      PROVE  FALSE
  BY <1>3, <1>5, <1>8, NoRequestFails
<1>9. ASSUME NEW c \in Members, Proceed(c)
      PROVE  \A d \in Members : IsCalm(d)'
  BY <1>5, <1>9, ProceedKeepsCalm
<1>10. ASSUME NEW c \in Members, GiveUp(c)
       PROVE  FALSE
  BY <1>3, <1>5, <1>10, NobodyGivesUp
<1>11. ASSUME NEW c \in Members, SetChannels(c)
       PROVE  \A d \in Members : IsCalm(d)'
  BY <1>5, <1>11, SetChannelsKeepsCalm
<1>12. ASSUME NEW c \in Members, Ppcall(c)
       PROVE  \A d \in Members : IsCalm(d)'
  BY <1>5, <1>12, PpcallKeepsCalm
<1>13. ASSUME NEW s \in Members, NEW c \in Members, Serve(s, c)
       PROVE  \A d \in Members : IsCalm(d)'
  BY <1>3, <1>5, <1>13, ServeKeepsCalm
<1>14. ASSUME NEW s \in Members, NEW c \in Members, ServeDies(s, c)
       PROVE  FALSE
  BY <1>3, <1>5, <1>14, NoServerDies
<1>15. ASSUME NEW s \in Members, NEW c \in Members, Drops(s, c)
       PROVE  \A d \in Members : IsCalm(d)'
  BY <1>5, <1>15, DropsKeepsCalm
<1>16. ASSUME NEW s \in Members, NEW c \in Members, Protected(s, c)
       PROVE  \A d \in Members : IsCalm(d)'
  BY <1>5, <1>16, ProtectedKeepsCalm
<1>17. ASSUME NEW c \in Members, Interrupted(c)
       PROVE  FALSE
  BY <1>4, <1>17 DEF Interrupted
<1>18. CASE UNCHANGED setupVars
  BY <1>5, <1>18, CalmIdles
<1>19. QED
  BY <1>6, <1>7, <1>8, <1>9, <1>10, <1>11, <1>12, <1>13, <1>14, <1>15,
     <1>16, <1>17, <1>18 DEF SetupNext, Attend

LEMMA CalmStarts ==
  ASSUME SetupInit, IsUncrowded(sys), IsMatched(sys)
  PROVE  CalmInv
<1>1. PairInv /\ StartInv
  BY PairsStart, StartInvStarts
<1>2. SetupTypeOK /\ Members \subseteq Components
  BY <1>1, MembersAreComponents DEF StartInv, SetupInv
<1>3. ASSUME NEW c \in Members
      PROVE  IsCalm(c)
  <2>1. /\ c \in Components /\ phase[c] = "unborn" /\ pos[c] = <<1, 1>>
        /\ call[c] = NoCall /\ srv[c] = NoSrv
    BY <1>2 DEF SetupInit
  <2>2. ASSUME NEW j \in DOMAIN Links(c)
        PROVE  KeepsUp(c, j)
    <3>1. j \in Nat \ {0}
      BY <1>2, <2>1, Typed, ElementTyped
    <3>2. Progress(c, j) = 0
      <4>1. ~(1 > j) /\ 1 - 1 = 0
        BY <3>1
      <4>2. QED
        BY <2>1, <4>1, NoCallIsCalm DEF Progress
    <3>3. Links(c)[j].to \in Components
      BY <1>2, <2>1, LinkLeads
    <3>4. Clients(Links(c)[j].to) = <<>>
      BY <3>3 DEF SetupInit, Clients, NoSrv
    <3>5. QED
      BY <3>2, <3>4 DEF KeepsUp
  <2>3. HoldsNoMore(c)
    BY <2>1 DEF HoldsNoMore, NoSrv
  <2>4. QED
    BY <2>1, <2>2, <2>3, NoCallIsCalm DEF IsCalm
<1>4. QED
  BY <1>1, <1>3 DEF CalmInv

LEMMA CalmIsEnough ==
  ASSUME CalmInv
  PROVE  NobodyPanics
  BY AllAreSettled DEF CalmInv, IsCalm, NobodyPanics

(* In every system that is neither crowded nor mismatched, however many    *)
(* components it has and whoever waits for whom, nobody panics as long as  *)
(* no call of the root server fails: each call a client makes finds its    *)
(* server in its loop, with room for it, with everything registered before *)
(* it that it needs, and nothing that it registers a second time.          *)
THEOREM SetupNobodyPanics ==
  SetupSpec /\ IsUncrowded(sys) /\ IsMatched(sys) => []NobodyPanics
<1>1. SetupInit /\ IsUncrowded(sys) /\ IsMatched(sys) => CalmInv
  BY CalmStarts
<1>2. CalmInv /\ [SetupNext]_setupVars => CalmInv'
  BY CalmSteps
<1>3. CalmInv => NobodyPanics
  BY CalmIsEnough
<1>4. QED
  BY <1>1, <1>2, <1>3, PTL DEF SetupSpec

=============================================================================
