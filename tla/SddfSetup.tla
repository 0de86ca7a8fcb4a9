----------------------------- MODULE SddfSetup -----------------------------
(***************************************************************************)
(* How the device drivers, virtualisers, copiers and clients of an sDDF    *)
(* system find each other (smos-sddf/src and the main.rs of each).         *)
(*                                                                         *)
(* A component publishes itself, serves the set-up calls of its clients    *)
(* (pre_init) until it has all of them, then calls the servers behind it,  *)
(* puts its channels in a table and enters its event loop.  A channel is   *)
(* a bit of one side's notification for each direction: the client sends   *)
(* the right to signal one of its own bits and gets the right to signal a  *)
(* bit of the server's back.                                               *)
(*                                                                         *)
(* Every failure is an `expect`: a component dies of it.  What init()      *)
(* and notified() do, in C, is not here.                                   *)
(***************************************************************************)
EXTENDS Integers, Sequences, FiniteSets

CONSTANTS
  Components,
  Systems,    \* what may be spawned: see SystemType
  MaxUnruly,  \* bound: calls of a client that keeps to no order
  Nothing

Requests == {"open", "channel", "receive", "active", "free", "none",
             "request", "response", "provide", "get", "ppcall"}
Answers == {"ok", "error", "never"}
Kinds == {"net_driver", "serial_driver", "blk_driver", "net_virt_rx",
          "net_virt_tx", "copier", "serial_virt", "timer", "client"}
Virts == {"rx", "tx"}
Drivers == {"net_driver", "serial_driver"} \* of two virtualisers

(* order: the sequence in which init spawns; links: the servers each calls *)
(* in turn, and as what; unruly: clients that make the calls in any order; *)
(* strangers: those init does not spawn; strict: a client, being below all *)
(* servers in priority, calls only when they are blocked; faults: a bound  *)
(* on the root server's calls that fail and on interrupts that come early. *)
SystemType ==
  [order : Seq(Components), kind : [Components -> Kinds],
   links : [Components -> Seq([to : Components, virt : Virts \cup {Nothing}])],
   unruly : SUBSET Components, strangers : SUBSET Components,
   strict : BOOLEAN, faults : Nat]

(* What init spawns, and all that is assumed of it: a component calls      *)
(* servers that were spawned before it, each once, the drivers as one type *)
(* of virtualiser.  The timer calls nobody, and nobody the block driver    *)
(* (no virtualiser for blocks is spawned).                                 *)
IsBootable(y) ==
  /\ \A n \in DOMAIN y.order : \A j \in DOMAIN y.links[y.order[n]] :
       \E m \in 1 .. n - 1 : y.order[m] = y.links[y.order[n]][j].to
  /\ \A c \in Components : \A i, j \in DOMAIN y.links[c] :
       LET s == y.links[c][i].to IN
       /\ y.kind[s] \notin {"blk_driver", "client"}
       /\ y.kind[c] # "timer"
       /\ s = y.links[c][j].to => i = j

(* Nobody is spawned whom a server has no place for: of the clients that   *)
(* do their part it has one, a driver two, and others come after such a    *)
(* client only if that is the end of its chain.  DevicesStartLast          *)
(* depends on it, and the proof of NobodyPanics.                           *)
IsUncrowded(y) ==
  LET spawned == {y.order[n] : n \in 1 .. Len(y.order)}
      settled == spawned \ (y.unruly \cup y.strangers)
      calls(c, s) == \E j \in DOMAIN y.links[c] : y.links[c][j].to = s
  IN \A s \in spawned :
       /\ \A c, d, e \in settled : calls(c, s) /\ calls(d, s) /\ calls(e, s) =>
            \/ c = d
            \/ y.kind[s] \in Drivers /\ (c = e \/ d = e)
       /\ \A c \in settled, d \in spawned \ settled :
            calls(c, s) /\ calls(d, s) =>
              /\ y.kind[c] = "client"
              /\ \A n \in 1 .. Len(y.order) : y.order[n] = d =>
                   \E m \in 1 .. n - 1 : y.order[m] = c

(* All who are spawned do their part, and a driver is called once as each  *)
(* type of virtualiser, the other servers as none.  NobodyPanics is proved *)
(* of such a system.                                                       *)
IsMatched(y) ==
  LET spawned == {y.order[n] : n \in 1 .. Len(y.order)}
  IN /\ spawned \cap (y.unruly \cup y.strangers) = {}
     /\ \A c, d \in spawned :
          \A i \in DOMAIN y.links[c], j \in DOMAIN y.links[d] :
            LET one == y.links[c][i]
                isDriver == y.kind[one.to] \in Drivers
            IN /\ IF isDriver THEN one.virt \in Virts ELSE one.virt = Nothing
               /\ isDriver /\ one = y.links[d][j] => c = d

ASSUME SetupAssumption ==
  /\ Nothing \notin Components \cup Virts \cup Requests \cup Answers
  /\ "irq" \notin Components
  /\ MaxUnruly \in Nat
  /\ \A y \in Systems : y \in SystemType /\ IsBootable(y)

(* The calls a server of each kind expects, in the order its client makes  *)
(* them.                                                                   *)
Script(k) ==
  CASE k = "net_driver"    -> <<"open", "channel", "active", "free">>
    [] k = "serial_driver" -> <<"open", "channel", "none", "provide">>
    [] k = "blk_driver" ->
         <<"open", "channel", "request", "response", "provide">>
    [] k = "net_virt_rx" -> <<"open", "channel", "active", "free", "get">>
    [] k \in {"net_virt_tx", "copier"} ->
         <<"open", "channel", "active", "free", "provide">>
    [] k = "serial_virt" -> <<"open", "channel", "none", "provide">>
    [] k = "timer"       -> <<"open", "receive">>
    [] k = "client"      -> <<>>

Handled(k) == {Script(k)[j] : j \in 2 .. Len(Script(k))}
Queues == {"active", "free", "none", "request", "response"}
QueuesOf(k) == Handled(k) \cap Queues

(* Sizes in pages, as each side has them among its constants.              *)
QueueSize(k) == \* what the client registers
  IF k \in {"serial_driver", "serial_virt", "blk_driver"} THEN 1 ELSE 512
WantedQueue(k) == \* what the server compares with
  IF k \in {"serial_driver", "serial_virt", "blk_driver"} THEN 1 ELSE 512
DataSize(k) == IF k \in {"copier", "net_virt_tx"} THEN 512 ELSE 2
WantedData(k) == IF k \in {"copier", "net_virt_tx"} THEN 512 ELSE DataSize(k)

HasIrq(k) == k \in Drivers \cup {"blk_driver", "timer"}
TimerOnIrq == 1 \* for a mutant: the bit the timer's IRQ takes
TimerChannel == 2 \* the timer's table index for its client, "hardcoded"

VARIABLES
  sys,    \* the system that was spawned
  phase,  \* unborn, serving, calling, running, dead
  pos,    \* in "calling": the link and the call of its script, or a count
  srv,    \* each server's clients, virt_reg and the data windows it has made
  bits,   \* allocated_bits of each component's notification: who has bit k
  chans,  \* the channels each component has made as a client
  table,  \* CHANNELS
  call,   \* what each component waits for: a call, or its answer
  faults  \* how many calls have failed, or interrupts come early, so far

setupVars == <<sys, phase, pos, srv, bits, chans, table, call, faults>>

Members == {sys.order[n] : n \in 1 .. Len(sys.order)}
Kind(c) == sys.kind[c]
Links(c) == sys.links[c]
Settled == Members \ (sys.unruly \cup sys.strangers)

NoSrv == [clients |-> <<>>, virts |-> {}, data |-> {}]
Asking(s, req, virt, bit, shared) == \* shared: open, with a shared buffer
  [to |-> s, req |-> req, virt |-> virt, bit |-> bit, shared |-> shared,
   answer |-> Nothing, back |-> 0]
NoCall == Asking(Nothing, Nothing, Nothing, 0, FALSE)

SetupInit ==
  /\ sys \in Systems
  /\ phase = [c \in Components |-> "unborn"]
  /\ pos = [c \in Components |-> <<1, 1>>]
  /\ srv = [c \in Components |-> NoSrv]
  /\ bits = [c \in Components |-> <<>>]
  /\ chans = [c \in Components |-> {}]
  /\ table = [c \in Components |-> {}]
  /\ call = [c \in Components |-> NoCall]
  /\ faults = 0

Fails == faults < sys.faults /\ faults' = faults + 1

-----------------------------------------------------------------------------
Asks(c, s) == call[c].to = s /\ call[c].answer = Nothing

IsBlocked(c) ==
  IF phase[c] = "calling" THEN call[c].answer = Nothing /\ call[c] # NoCall
  ELSE phase[c] \in {"unborn", "dead"} \/ \A d \in Members : ~Asks(d, c)

(* main up to pre_init.  init is the lowest of all in priority: it spawns  *)
(* the next when everybody it has spawned is blocked.  Bit 0 of a          *)
(* notification is the root server's, the IRQ comes next.                  *)
Start(c) ==
  /\ phase[c] = "unborn"
  /\ \E n \in 1 .. Len(sys.order) :
       /\ sys.order[n] = c
       /\ \A m \in 1 .. n - 1 : phase[sys.order[m]] # "unborn"
  /\ c \in sys.unruly \/ \A d \in Members : IsBlocked(d)
  /\ bits' = [bits EXCEPT ![c] = IF HasIrq(Kind(c)) THEN <<"irq">> ELSE <<>>]
  /\ phase' = [phase EXCEPT ![c] = IF Kind(c) = "client" THEN "calling"
                                   ELSE "serving"]
  /\ UNCHANGED <<sys, pos, srv, chans, table, call, faults>>

Dies(c) == phase' = [phase EXCEPT ![c] = "dead"]

(* The client's half of set-up: one call of the script at a time.          *)
Target(c) == Links(c)[pos[c][1]].to
Ready(c) ==
  /\ phase[c] = "calling"
  /\ call[c] = NoCall
  /\ pos[c][1] <= Len(Links(c))
  /\ sys.strict /\ Kind(c) = "client" =>
       \A d \in Members : Kind(d) = "client" \/ IsBlocked(d)
Wanted(c) ==
  IF c \notin sys.unruly \/ pos[c][2] = 1
  THEN {Script(Kind(Target(c)))[pos[c][2]]}
  ELSE Handled(Kind(Target(c))) \cup {"open"}
IsChannel(req) == req \in {"channel", "receive"}
Types(c) == IF c \in sys.unruly /\ Kind(Target(c)) \in Drivers
            THEN Virts \cup {Nothing} ELSE {Links(c)[pos[c][1]].virt}
Buffers(c, req) == IF c \in sys.unruly /\ req = "open" THEN BOOLEAN ELSE {FALSE}

(* conn_create expects a server of the name; a channel takes a bit first.  *)
Request(c, req) ==
  /\ Ready(c)
  /\ req \in Wanted(c)
  /\ req = "open" => phase[Target(c)] # "unborn"
  /\ bits' = [bits EXCEPT ![c] = IF IsChannel(req)
                                 THEN Append(@, Target(c)) ELSE @]
  /\ \E virt \in IF req = "channel" THEN Types(c) ELSE {Nothing},
        shared \in Buffers(c, req) :
       call' = [call EXCEPT ![c] =
                  Asking(Target(c), req, virt, Len(bits'[c]), shared)]
  /\ UNCHANGED <<sys, phase, pos, srv, chans, table, faults>>

RequestFails(c, req) ==
  /\ Ready(c)
  /\ req \in Wanted(c)
  /\ IF req = "open" /\ phase[Target(c)] = "unborn" THEN UNCHANGED faults
     ELSE Fails
  /\ Dies(c)
  /\ UNCHANGED <<sys, pos, srv, bits, chans, table, call>>

(* After the last call of a script comes the next server.                  *)
Onward(c) ==
  IF c \in sys.unruly
  THEN IF pos[c][2] >= MaxUnruly THEN <<pos[c][1] + 1, 1>>
       ELSE <<pos[c][1], pos[c][2] + 1>>
  ELSE IF pos[c][2] = Len(Script(Kind(Target(c))))
       THEN <<pos[c][1] + 1, 1>>
       ELSE <<pos[c][1], pos[c][2] + 1>>

Channel(c) == \* NotificationChannel::new
  [kind |-> IF call[c].req = "receive" THEN "recv" ELSE "bi",
   from |-> call[c].bit, peer |-> call[c].to, to |-> call[c].back]

Answered(c) == phase[c] = "calling" /\ call[c].answer # Nothing
Proceed(c) ==
  /\ Answered(c)
  /\ call[c].answer = "ok" \/ (call[c].answer = "error" /\ c \in sys.unruly)
  /\ chans' = [chans EXCEPT ![c] =
                 IF IsChannel(call[c].req) /\ call[c].answer = "ok"
                 THEN @ \cup {Channel(c)} ELSE @]
  /\ pos' = [pos EXCEPT ![c] = Onward(c)]
  /\ call' = [call EXCEPT ![c] = NoCall]
  /\ UNCHANGED <<sys, phase, srv, bits, table, faults>>

(* An error is not expected, nor is channel_open's failure.                *)
GiveUp(c) ==
  /\ Answered(c)
  /\ c \notin sys.unruly
  /\ \/ call[c].answer = "error" /\ UNCHANGED faults
     \/ call[c].answer = "ok" /\ call[c].req = "channel" /\ Fails
  /\ Dies(c)
  /\ call' = [call EXCEPT ![c] = NoCall]
  /\ UNCHANGED <<sys, pos, srv, bits, chans, table>>

-----------------------------------------------------------------------------
(* The server's half: sddf_driver_pre_init, or the copier's and the        *)
(* timer's pre_init.                                                       *)
NoChan == [from |-> 0, peer |-> Nothing, to |-> 0]
NewClient(c) == [id |-> c, virt |-> Nothing, chan |-> NoChan, queues |-> {},
                 data |-> FALSE, got |-> FALSE]

Clients(s) == srv[s].clients
Places(k) == IF k \in Drivers \cup {"blk_driver"} THEN 2 ELSE 1
IsKnown(s, c) == \E n \in DOMAIN Clients(s) : Clients(s)[n].id = c
At(s, c) == CHOOSE n \in DOMAIN Clients(s) : Clients(s)[n].id = c

(* The copier and the timer take whoever calls for their one client.       *)
Record(s, c) == IF Kind(s) \in {"copier", "timer"} THEN 1 ELSE At(s, c)

(* todo!() and panic!(): a first call other than open, a second open, and  *)
(* a call there is no handler for.  The running timer indexes its channels *)
(* with whoever calls.                                                     *)
Unforeseen(s, c) ==
  LET one == Kind(s) \in {"copier", "timer"}
      known == IF one THEN Clients(s) # <<>> ELSE IsKnown(s, c)
  IN IF call[c].req = "open" THEN known
     ELSE ~known \/ call[c].req \notin Handled(Kind(s))

(* The copier and the timer unwrap their client after every call, although *)
(* a first open that is refused leaves them without.                       *)
Unwraps(s, c) ==
  Kind(s) \in {"copier", "timer"} /\ Clients(s) = <<>> /\ call[c].shared

HasAll(k, cl) == QueuesOf(k) \subseteq cl.queues

(* handle_conn_open, handle_virt_register and handle_client_register,      *)
(* handle_queue_register, handle_provide_data_region,                      *)
(* handle_get_data_region: what they check before they act.  A window for  *)
(* data is where the virtualiser's type says, so it is made once for each. *)
MayOpen(s, c) == ~call[c].shared /\ Len(Clients(s)) < Places(Kind(s))
MayRegister(s, c) ==
  CASE Kind(s) \in Drivers -> call[c].virt \in Virts \ srv[s].virts
    [] Kind(s) \in {"blk_driver", "timer"} -> TRUE
    [] OTHER -> call[c].virt = Nothing
MayQueueUnchecked(s, cl, q) == \* for a mutant: no channel asked for
  QueueSize(Kind(s)) = WantedQueue(Kind(s)) /\ q \notin cl.queues /\ cl.id # s
MayQueue(s, cl, q) ==
  /\ Kind(s) \in Drivers => cl.virt # Nothing
  /\ Kind(s) \notin Drivers \cup {"blk_driver"} => cl.chan # NoChan
  /\ QueueSize(Kind(s)) = WantedQueue(Kind(s))
  /\ q \notin cl.queues
MayProvide(s, cl) ==
  /\ HasAll(Kind(s), cl)
  /\ DataSize(Kind(s)) = WantedData(Kind(s))
  /\ cl.virt \notin srv[s].data

Accepts(s, c) ==
  LET cl == Clients(s)[Record(s, c)]
      req == call[c].req
  IN CASE req = "open"    -> MayOpen(s, c)
       [] IsChannel(req)  -> MayRegister(s, c)
       [] req \in Queues  -> MayQueue(s, cl, req)
       [] req = "provide" -> MayProvide(s, cl)
       [] req = "get"     -> HasAll(Kind(s), cl)

(* NotificationChannel::open: the bidirectional one takes a bit, the       *)
(* send-only one does not.                                                 *)
OpenedCrosswise(s, c) == \* for a mutant: the bits are swapped
  [from |-> call[c].bit, peer |-> c,
   to |-> IF call[c].req = "channel" THEN Len(bits[s]) + 1 ELSE 0]
Opened(s, c) == [from |-> IF call[c].req = "channel" THEN Len(bits[s]) + 1
                          ELSE 0,
                 peer |-> c, to |-> call[c].bit]
Registered(s, c, cl) ==
  [cl EXCEPT !.chan = Opened(s, c),
             !.virt = IF Kind(s) \in Drivers THEN call[c].virt ELSE @]

Revised(s, c) ==
  LET cl == Clients(s)[Record(s, c)]
      req == call[c].req
  IN CASE IsChannel(req)  -> Registered(s, c, cl)
       [] req \in Queues  -> [cl EXCEPT !.queues = @ \cup {req}]
       [] req = "provide" -> [cl EXCEPT !.data = TRUE]
       [] req = "get"     -> [cl EXCEPT !.got = TRUE]

Updated(s, c) ==
  LET n == Record(s, c)
      req == call[c].req
  IN [clients |-> IF req = "open" THEN Append(Clients(s), NewClient(c))
                  ELSE [Clients(s) EXCEPT ![n] = Revised(s, c)],
      virts |-> srv[s].virts \cup IF IsChannel(req)
                                 THEN {call[c].virt} \ {Nothing} ELSE {},
      data |-> srv[s].data \cup IF req = "provide"
                               THEN {Clients(s)[n].virt} ELSE {}]

(* check_done, and each client's initialized.                              *)
Initialized(k, cl) ==
  CASE k = "net_driver" -> HasAll(k, cl)
    [] k \in {"serial_driver", "blk_driver", "copier"} ->
         HasAll(k, cl) /\ cl.data
    [] k = "net_virt_rx" -> cl.got
    [] k \in {"net_virt_tx", "serial_virt"} ->
         cl.chan # NoChan /\ HasAll(k, cl) /\ cl.data
    [] k = "timer" -> cl.chan # NoChan

DoneEarly(k, cls) == \* for a mutant: one client is enough
  cls # <<>> /\ Initialized(k, cls[1])
DoneLate(k, cls) == \* for a mutant: waits for a client nobody starts
  /\ Len(cls) > IF k \in Drivers THEN 2 ELSE 1
  /\ \A n \in DOMAIN cls : Initialized(k, cls[n])
CheckDone(k, cls) ==
  /\ Len(cls) >= IF k \in Drivers THEN 2 ELSE 1
  /\ \A n \in 1 .. IF k \in Drivers THEN 2 ELSE 1 : Initialized(k, cls[n])

Answer(c, what, bit) ==
  call' = [call EXCEPT ![c].answer = what, ![c].back = bit]

(* One turn of the loop.  Whatever the handler returns is the answer; the  *)
(* last one is sent before the server goes on.                             *)
Serve(s, c) ==
  /\ phase[s] = "serving"
  /\ Asks(c, s)
  /\ ~Unforeseen(s, c) /\ ~Unwraps(s, c)
  /\ \/ /\ Accepts(s, c)
        /\ srv' = [srv EXCEPT ![s] = Updated(s, c)]
        /\ bits' = [bits EXCEPT ![s] = IF call[c].req = "channel"
                                       THEN Append(@, c) ELSE @]
        /\ Answer(c, "ok",
                  IF call[c].req = "channel" THEN Len(bits'[s]) ELSE 0)
        /\ UNCHANGED faults
     \/ /\ Accepts(s, c)
        /\ call[c].req \notin {"open", "get"}
        /\ Fails
        /\ Answer(c, "error", 0)
        /\ UNCHANGED <<srv, bits>>
     \/ /\ ~Accepts(s, c)
        /\ Answer(c, "error", 0)
        /\ UNCHANGED <<srv, bits, faults>>
  /\ phase' = IF CheckDone(Kind(s), srv'[s].clients)
              THEN [phase EXCEPT ![s] = "calling"] ELSE phase
  /\ UNCHANGED <<sys, pos, chans, table>>

(* conn_register is expected to work.                                      *)
ServeDies(s, c) ==
  /\ phase[s] = "serving"
  /\ Asks(c, s)
  /\ IF Unforeseen(s, c) \/ Unwraps(s, c) THEN UNCHANGED faults
     ELSE call[c].req = "open" /\ Accepts(s, c) /\ Fails
  /\ Dies(s)
  /\ UNCHANGED <<sys, pos, srv, bits, chans, table, call>>

(* An interrupt of the timer before its first client opens: the loop takes *)
(* it for no call, but unwraps the client all the same.                    *)
Interrupted(s) ==
  /\ phase[s] = "serving" /\ Kind(s) = "timer" /\ Clients(s) = <<>>
  /\ Fails
  /\ Dies(s)
  /\ UNCHANGED <<sys, pos, srv, bits, chans, table, call>>

-----------------------------------------------------------------------------
(* sddf_set_channel for each channel: an index taken twice is an error     *)
(* nobody expects, and so is a client without a channel.                   *)
Served(c) ==
  DOMAIN Clients(c) \cap IF Kind(c) \in Drivers THEN 1 .. 2 ELSE {1}
OfClient(c, n) ==
  LET ch == Clients(c)[n].chan IN
  [index |-> IF Kind(c) = "timer" THEN TimerChannel ELSE ch.from,
   kind |-> IF Kind(c) = "timer" THEN "send" ELSE "bi",
   peer |-> ch.peer, to |-> ch.to]
OfServer(ch) ==
  [index |-> ch.from, kind |-> ch.kind, peer |-> ch.peer, to |-> ch.to]
OfIrq == [index |-> 1, kind |-> "irq", peer |-> Nothing, to |-> 0]

Entries(c) ==
  (IF HasIrq(Kind(c)) THEN {OfIrq} ELSE {})
  \cup {OfClient(c, n) : n \in Served(c)}
  \cup {OfServer(ch) : ch \in chans[c]}

CanSet(c) ==
  /\ \A n \in Served(c) : Clients(c)[n].chan # NoChan
  /\ \A e, f \in Entries(c) : e.index = f.index => e = f

AllCalled(c) == phase[c] = "calling" /\ pos[c][1] > Len(Links(c))

SetChannels(c) ==
  /\ AllCalled(c)
  /\ IF CanSet(c)
     THEN /\ table' = [table EXCEPT ![c] = Entries(c)]
          /\ phase' = [phase EXCEPT ![c] = "running"]
     ELSE Dies(c) /\ UNCHANGED table
  /\ UNCHANGED <<sys, pos, srv, bits, chans, call, faults>>

(* sddf_event_loop answers nobody: the reply object is used for the next   *)
(* call.  sddf_event_loop_ppc answers clients it has a channel for.        *)
Drops(s, c) ==
  /\ phase[s] = "running"
  /\ Kind(s) # "timer"
  /\ Asks(c, s)
  /\ Answer(c, "never", 0)
  /\ UNCHANGED <<sys, phase, pos, srv, bits, chans, table, faults>>

Ppcall(c) ==
  /\ phase[c] = "running"
  /\ call[c] = NoCall
  /\ \E e \in table[c] :
       /\ e.kind = "recv"
       /\ call' = [call EXCEPT ![c] =
                     Asking(e.peer, "ppcall", Nothing, 0, FALSE)]
  /\ UNCHANGED <<sys, phase, pos, srv, bits, chans, table, faults>>

Protected(s, c) ==
  /\ phase[s] = "running"
  /\ Kind(s) = "timer"
  /\ Asks(c, s)
  /\ IF Clients(s)[1].id = c
     THEN Answer(c, "ok", 0) /\ UNCHANGED phase
     ELSE Dies(s) /\ UNCHANGED call
  /\ UNCHANGED <<sys, pos, srv, bits, chans, table, faults>>

-----------------------------------------------------------------------------
Attend(s, c) ==
  Serve(s, c) \/ ServeDies(s, c) \/ Drops(s, c) \/ Protected(s, c)

SetupNext ==
  \/ \E c \in Members :
       \/ Start(c)
       \/ Ready(c) /\ \E req \in Wanted(c) :
                        Request(c, req) \/ RequestFails(c, req)
       \/ Proceed(c)
       \/ GiveUp(c)
       \/ SetChannels(c)
       \/ Ppcall(c)
       \/ Interrupted(c)
  \/ \E s, c \in Members : Attend(s, c)

(* Threads are scheduled by priority and all of them block: none is kept   *)
(* from its next step for ever.  A client is not bound to make ppcalls.    *)
Advance(c) ==
  \/ Start(c)
  \/ Ready(c) /\ \E req \in Wanted(c) : Request(c, req) \/ RequestFails(c, req)
  \/ Proceed(c)
  \/ GiveUp(c)
  \/ SetChannels(c)

Fairness ==
  \A c \in Components :
    /\ WF_setupVars(c \in Members /\ Advance(c))
    /\ WF_setupVars(c \in Members /\ \E d \in Members : Attend(c, d))

SetupSpec == SetupInit /\ [][SetupNext]_setupVars /\ Fairness

-----------------------------------------------------------------------------
ChanType == [from : Nat, peer : Components \cup {Nothing}, to : Nat]
ClientType ==
  [id : Components, virt : Virts \cup {Nothing}, chan : ChanType,
   queues : SUBSET Queues, data : BOOLEAN, got : BOOLEAN]
CallType ==
  [to : Components \cup {Nothing}, req : Requests \cup {Nothing},
   virt : Virts \cup {Nothing}, bit : Nat, shared : BOOLEAN,
   answer : Answers \cup {Nothing}, back : Nat]

SetupTypeOK ==
  /\ sys \in Systems
  /\ phase \in [Components ->
                {"unborn", "serving", "calling", "running", "dead"}]
  /\ pos \in [Components -> (Nat \ {0}) \X (Nat \ {0})]
  /\ srv \in [Components ->
              [clients : Seq(ClientType), virts : SUBSET Virts,
               data : SUBSET (Virts \cup {Nothing})]]
  /\ bits \in [Components -> Seq(Components \cup {"irq"})]
  /\ chans \in [Components ->
                SUBSET [kind : {"bi", "recv"}, from : Nat,
                        peer : Components, to : Nat]]
  /\ call \in [Components -> CallType]
  /\ table \in [Components ->
                SUBSET [index : Nat, kind : {"irq", "bi", "send", "recv"},
                        peer : Components \cup {Nothing}, to : Nat]]
  /\ \A c \in Components :
       /\ Len(Clients(c)) <= Places(Kind(c))
       /\ \A e \in table[c] : e.index \in 1 .. Len(bits[c]) + 1
  /\ faults \in 0 .. sys.faults

IsSettled(c) == c \in Settled
Past(s) == phase[s] \in {"calling", "running"}

(* The components init spawns, each doing its part, never meet an error    *)
(* while no call fails and no interrupt comes early: every call finds its  *)
(* server in the state it wants, every size agrees, and no two channels    *)
(* have the same index.                                                    *)
NobodyPanics ==
  faults = 0 /\ sys.unruly = {} => \A c \in Settled : phase[c] # "dead"

(* A component dies only of a call of its own that fails, of an early      *)
(* interrupt, of a call it has no handler for, or, the copier and the      *)
(* timer, of a first open refused for its buffer.  All other calls, right  *)
(* or refused, in whatever order and however often a client makes them, do *)
(* not bring a server down, neither then nor when the channels are set.    *)
DeathsAreOwn ==
  [][\A c \in Components :
       phase[c] # "dead" /\ phase'[c] = "dead" =>
         \/ faults' > faults
         \/ call[c].answer = "error"
         \/ \E d \in Members :
              Asks(d, c) /\ (Unforeseen(c, d) \/ Unwraps(c, d))]_setupVars

(* Two components that run agree on the channel between them: what one     *)
(* signals is the bit under which the other has filed it; and whatever bit *)
(* of its notification somebody may signal, a component that runs has a    *)
(* channel for it.                                                         *)
Matched(e, a, b) ==
  \E f \in table[b] :
    /\ f.index = e.to
    /\ f.peer = a
    /\ IF e.kind = "bi" THEN f.kind = "bi" /\ f.to = e.index
       ELSE f.kind = "recv"
HasChannel(c, k) == \E e \in table[c] : e.index = k /\ e.kind # "send"
ChannelsPairUp ==
  /\ SetupTypeOK
  /\ \A a, b \in Settled :
       phase[a] = "running" /\ phase[b] = "running" =>
         \A e \in table[a] :
           e.kind \in {"bi", "send"} /\ e.peer = b => Matched(e, a, b)
  /\ faults = 0 /\ sys.unruly = {} =>
       \A c \in Settled :
         phase[c] = "running" => \A k \in 1 .. Len(bits[c]) : HasChannel(c, k)

(* A device is started only when the whole chain of clients behind it is   *)
(* set up; and a driver goes on with one virtualiser of each type, so that *)
(* what it calls rx_virt is the one for receiving.                         *)
Uses(c, s) == \E n \in DOMAIN Links(c) : Links(c)[n].to = s
DevicesStartLast ==
  \A s \in Members : Past(s) =>
    /\ \A c \in Settled : Uses(c, s) => phase[c] \notin {"unborn", "serving"}
    /\ Kind(s) \in Drivers =>
         {Clients(s)[n].virt : n \in DOMAIN Clients(s)} = Virts

(* Everybody who has clients gets to run, and so do the clients: nobody    *)
(* waits for somebody who waits for him.                                   *)
HasClients(c) == Kind(c) = "client" \/ \E d \in Members : Uses(d, c)
EverybodyRuns ==
  sys.unruly = {} =>
    <>(faults > 0 \/ \A c \in Settled : HasClients(c) => phase[c] = "running")

=============================================================================
