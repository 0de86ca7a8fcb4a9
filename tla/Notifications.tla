--------------------------- MODULE Notifications ---------------------------
(***************************************************************************)
(* The notification of a published server: who may set which bit of it,    *)
(* and what becomes of the bit.  handle_conn_publish and                   *)
(* handle_server_create_channel (root_server/src/connection.rs), the bits  *)
(* and interrupt lines of UserNotificationDispatch (irq.rs), the loops     *)
(* that receive the notification (smos-sddf/src/driver_setup.rs and        *)
(* sddf_bindings.rs, boot_file_server/src/main.rs) and the acknowledgement *)
(* of interrupts (irq_channel.rs).                                         *)
(*                                                                         *)
(* What the kernel does is external: a signal sets bits in a word that     *)
(* the next receive takes as a whole, and an interrupt line that fired is  *)
(* masked until it is acknowledged.                                        *)
(***************************************************************************)
EXTENDS Integers, FiniteSets, FiniteSetsExt

CONSTANTS
  Object,   \* servers that run the boot file server's loop
  Driver,   \* servers that set up with sddf_driver_pre_init
  Line,     \* interrupt lines
  Top,      \* the highest identity bit (62: bit 63 marks a notification)
  Capacity, \* NTFN_BUFFER_CAPACITY
  None

ASSUME NotificationsAssumption ==
  /\ Top \in Nat /\ Capacity \in Nat \ {0}
  /\ Object \cap Driver = {}
  /\ {None, "root", "peer"} \cap Line = {} /\ None \notin {"root", "peer"}

Server == Object \cup Driver
Bit == 0 .. Top

VARIABLES
  status,  \* per server: "no", "published", or "stranded" half-way there
  source,  \* per server: what each bit of its dispatch is allocated to
  told,    \* per server: the bits its own calls have returned to it
  opened,  \* per server: bits of channels that a peer has opened
  line,    \* per line: the server and the bit its handler is bound to
  masked,  \* lines that fired and were not acknowledged
  word,    \* per server: the bits set in its notification
  taken,   \* per server: the bits its loop has still to go through
  dropped, \* history: per server, bits ignored while it was setting up
  running, \* servers that have left their set-up for their main loop
  inbox,   \* per server: messages in its notification buffer
  rootDown \* what the root server has panicked over, or None

vars == <<status, source, told, opened, line, masked, word, taken, dropped,
          running, inbox, rootDown>>

Init ==
  /\ status = [p \in Server |-> "no"]
  /\ source = [p \in Server |-> [b \in Bit |-> None]]
  /\ told = [p \in Server |-> {}]
  /\ opened = [p \in Server |-> {}]
  /\ line = [l \in Line |-> None]
  /\ masked = {}
  /\ word = [p \in Server |-> {}]
  /\ taken = [p \in Server |-> {}]
  /\ dropped = [p \in Server |-> {}]
  /\ running = {}
  /\ inbox = [p \in Server |-> 0]
  /\ rootDown = None

-----------------------------------------------------------------------------
(* bf_first_free over the dispatch's bits.                                 *)
FreeBits(p) == {b \in Bit : source[p][b] = None}

NextBit(p) == Min(FreeBits(p))

Allocate(p, what) == source' = [source EXCEPT ![p][NextBit(p)] = what]

(* A server that sets up: it has a Server of the root server's, and calls  *)
(* the root server from its main or from a handler of its pre_init loop.   *)
SetsUp(p) ==
  /\ rootDown = None
  /\ status[p] = "published"
  /\ p \in Driver \ running

(* handle_conn_publish.  Early failures undo all they did.  A failure to   *)
(* allocate the frame of the notification buffer destroys the dispatch,    *)
(* and the notification with it, before it unbinds the notification: the   *)
(* kernel refuses that, and expect panics.  A failure to allocate a handle *)
(* comes last and undoes nothing.                                          *)
Publish(p) ==
  /\ rootDown = None
  /\ status[p] = "no"
  /\ \/ /\ status' = [status EXCEPT ![p] = "published"]
        /\ Allocate(p, "root")
        /\ UNCHANGED rootDown
     \/ /\ status' = [status EXCEPT ![p] = "stranded"]
        /\ UNCHANGED <<source, rootDown>>
     \/ /\ rootDown' = "unbind"
        /\ UNCHANGED <<status, source>>
  /\ UNCHANGED <<told, opened, line, masked, word, taken, dropped, running,
                 inbox>>

(* handle_server_create_channel: the badge is minted and the bit told.     *)
CreateChannel(p) ==
  /\ SetsUp(p)
  /\ FreeBits(p) # {}
  /\ Allocate(p, "peer")
  /\ told' = [told EXCEPT ![p] = @ \cup {NextBit(p)}]
  /\ UNCHANGED <<status, opened, line, masked, word, taken, dropped, running,
                 inbox, rootDown>>

(* handle_channel_open, by a peer that was given the authority.            *)
OpenChannel(p, b) ==
  /\ rootDown = None
  /\ source[p][b] = "peer" /\ b \in told[p]
  /\ opened' = [opened EXCEPT ![p] = @ \cup {b}]
  /\ UNCHANGED <<status, source, told, line, masked, word, taken, dropped,
                 running, inbox, rootDown>>

(* irq_register.  irq_control_get refuses a line that has a handler, and   *)
(* the bit is freed again.                                                 *)
Bind(p, l) ==
  /\ SetsUp(p)
  /\ FreeBits(p) # {}
  /\ line[l] = None
  /\ line' = [line EXCEPT ![l] = <<p, NextBit(p)>>]
  /\ UNCHANGED <<status, opened, masked, word, taken, dropped, running, inbox,
                 rootDown>>

(* handle_irq_register.                                                    *)
IrqRegister(p, l) ==
  /\ Bind(p, l)
  /\ Allocate(p, l)
  /\ told' = [told EXCEPT ![p] = @ \cup {NextBit(p)}]

(* A failure to allocate the handle that frees the bit.                    *)
IrqRegisterFreed(p, l) == Bind(p, l) /\ UNCHANGED <<source, told>>

(* A failure to allocate the handle leaves bit, handler and binding as     *)
(* they are, and the server does not know of them.                         *)
IrqRegisterFails(p, l) ==
  /\ Bind(p, l)
  /\ Allocate(p, l)
  /\ UNCHANGED told

-----------------------------------------------------------------------------
Set(p, b) == word' = [word EXCEPT ![p] = @ \cup {b}]

(* The kernel: a line fires, if its handler is bound and it is not masked. *)
Interrupt(l) ==
  /\ line[l] # None /\ l \notin masked
  /\ masked' = masked \cup {l}
  /\ Set(line[l][1], line[l][2])
  /\ UNCHANGED <<status, source, told, opened, line, taken, dropped, running,
                 inbox, rootDown>>

(* NotificationChannel::notify, by that peer, whatever the server is at.   *)
Notify(p, b) ==
  /\ b \in opened[p]
  /\ Set(p, b)
  /\ UNCHANGED <<status, source, told, opened, line, masked, taken, dropped,
                 running, inbox, rootDown>>

Full(p) == inbox[p] = Capacity

(* The root server puts a message into the buffer and signals bit 0: a     *)
(* connection or a window was destroyed, or a client faulted.  It does not *)
(* survive a message that finds no room.                                   *)
RootSignal(p) ==
  /\ rootDown = None
  /\ status[p] = "published"
  /\ \/ /\ ~Full(p)
        /\ inbox' = [inbox EXCEPT ![p] = @ + 1]
        /\ Set(p, 0)
        /\ UNCHANGED rootDown
     \/ /\ Full(p)
        /\ rootDown' = "full"
        /\ UNCHANGED <<inbox, word>>
  /\ UNCHANGED <<status, source, told, opened, line, masked, taken, dropped,
                 running>>

(* The pre_init loop: "We ignore notifications in this pre-init phase".    *)
Ignore(p) ==
  /\ SetsUp(p)
  /\ word[p] # {}
  /\ dropped' = [dropped EXCEPT ![p] = @ \cup word[p]]
  /\ word' = [word EXCEPT ![p] = {}]
  /\ UNCHANGED <<status, source, told, opened, line, masked, taken, running,
                 inbox, rootDown>>

(* A driver's set-up ends, or the boot file server enters its loop.        *)
Enter(p) ==
  /\ status[p] = "published"
  /\ p \notin running
  /\ running' = running \cup {p}
  /\ UNCHANGED <<status, source, told, opened, line, masked, word, taken,
                 dropped, inbox, rootDown>>

(* The main loops take the word as a whole.                                *)
LowestOf(p) == {Min(word[p])} \* for a mutant: one bit of it
AllOf(p) == word[p]
Receive(p) ==
  /\ p \in running
  /\ taken[p] = {} /\ word[p] # {}
  /\ taken' = [taken EXCEPT ![p] = AllOf(p)]
  /\ word' = [word EXCEPT ![p] = {}]
  /\ UNCHANGED <<status, source, told, opened, line, masked, dropped, running,
                 inbox, rootDown>>

(* An acknowledgement that takes the bit for the next one's.               *)
AcknowledgedNext(p, b) == {l \in masked : line[l] = <<p, b + 1>>}

(* And go through it, lowest bit first (NtfnWordIterator).  notified is    *)
(* the driver's own: for the bit of an interrupt it knows, it acknowledges *)
(* the line.                                                               *)
Acknowledged(p, b) ==
  {l \in masked : line[l] = <<p, b>> /\ source[p][b] = l /\ b \in told[p]}

(* handle_notification of the boot file server empties the buffer at bit   *)
(* 0; the sDDF loops never look into it.                                   *)
Emptied(p, b) == p \in Object /\ b = 0

(* A loop that takes one message per signal, though signals merge.         *)
LeftByOne(p, b) == IF Emptied(p, b) THEN inbox[p] - 1 ELSE inbox[p]
Left(p, b) == IF Emptied(p, b) THEN 0 ELSE inbox[p]

Notified(p) ==
  /\ taken[p] # {}
  /\ LET b == Min(taken[p]) IN
       /\ taken' = [taken EXCEPT ![p] = @ \ {b}]
       /\ masked' = masked \ Acknowledged(p, b)
       /\ inbox' = [inbox EXCEPT ![p] = Left(p, b)]
  /\ UNCHANGED <<status, source, told, opened, line, word, dropped, running,
                 rootDown>>

-----------------------------------------------------------------------------
Next ==
  \/ \E p \in Server : \/ Publish(p) \/ RootSignal(p)
                       \/ Enter(p) \/ Receive(p) \/ Notified(p)
  \/ \E p \in Driver : CreateChannel(p) \/ Ignore(p)
  \/ \E p \in Driver, b \in Bit : OpenChannel(p, b) \/ Notify(p, b)
  \/ \E p \in Driver, l \in Line : IrqRegister(p, l) \/ IrqRegisterFails(p, l)
  \/ \E l \in Line : Interrupt(l)

(* A running server is scheduled, and a thread that waits on an endpoint   *)
(* takes its bound notification before any call.                           *)
Spec ==
  /\ Init
  /\ [][Next]_vars
  /\ \A p \in Server : WF_vars(Receive(p)) /\ WF_vars(Notified(p))

-----------------------------------------------------------------------------
TypeOK ==
  /\ status \in [Server -> {"no", "published", "stranded"}]
  /\ source \in [Server -> [Bit -> {None, "root", "peer"} \cup Line]]
  /\ told \in [Server -> SUBSET Bit]
  /\ opened \in [Server -> SUBSET Bit]
  /\ line \in [Line -> {None} \cup (Driver \X Bit)]
  /\ masked \subseteq Line
  /\ word \in [Server -> SUBSET Bit]
  /\ taken \in [Server -> SUBSET Bit]
  /\ dropped \in [Server -> SUBSET Bit]
  /\ running \subseteq Server
  /\ inbox \in [Server -> 0 .. Capacity]
  /\ rootDown \in {None, "unbind", "full"}

(* A bit tells its server who set it: bit 0 the root server, the bit of a  *)
(* line that line, the bit of a channel a peer.  So no two lines and no    *)
(* line and channel share a bit, and nobody holds a badge for bit 0.  And  *)
(* every bit set, in the word or out of it, is still allocated to what set *)
(* it: no bit is freed while its badge or binding exists, which            *)
(* irq_register must see to on each of its failures.                       *)
BitsTellTheirSource ==
  /\ \A p \in Server : status[p] = "published" => source[p][0] = "root"
  /\ \A l \in Line : line[l] # None => source[line[l][1]][line[l][2]] = l
  /\ \A p \in Server : \A b \in opened[p] : source[p][b] = "peer"
  /\ \A p \in Server : \A b \in word[p] \cup taken[p] : source[p][b] # None

(* A line that fired is on its way to be acknowledged, or it stays masked  *)
(* for one of two reasons: its server ignored the notification while it    *)
(* was setting up, or never learnt of the bit because the handle could not *)
(* be allocated after the line was bound.                                  *)
MaskedLinesAreOwed ==
  \A l \in masked :
    LET p == line[l][1] b == line[l][2]
    IN b \in word[p] \cup taken[p] \cup dropped[p] \/ b \notin told[p]

(* An interrupt that reaches a running server is acknowledged, whatever    *)
(* else keeps signalling it.                                               *)
InterruptsAreAcknowledged ==
  \A l \in Line :
    (/\ l \in masked
     /\ line[l][1] \in running
     /\ line[l][2] \in told[line[l][1]]
     /\ line[l][2] \in word[line[l][1]] \cup taken[line[l][1]])
      ~> l \notin masked

(* The boot file server reads its buffer to the end, though any number of  *)
(* messages arrive under one setting of bit 0.                             *)
BuffersAreRead ==
  \A p \in Object : (p \in running /\ inbox[p] > 0) ~> inbox[p] = 0

(* handle_conn_publish: expect("Failed to unbind notification")            *)
(* (root_server/src/connection.rs:393).                                    *)
NotificationsUnbind == rootDown # "unbind"

=============================================================================
