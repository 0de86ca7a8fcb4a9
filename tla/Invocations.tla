---------------------------- MODULE Invocations ----------------------------
(***************************************************************************)
(* One call, from the client's stub to the stub's return: the stubs of     *)
(* smos-common/src/syscall.rs, the decoding and the encoding of            *)
(* smos-server (syscalls.rs, event.rs, reply.rs, error.rs) and the loops   *)
(* of the root server, the boot file server and the sDDF servers, which    *)
(* call the root server themselves while they handle a call.               *)
(*                                                                         *)
(* What a handler does with its arguments is the subject of the other      *)
(* modules.  Here it succeeds, returns any error or, where it can, panics, *)
(* and what matters is the way there and back: registers and capabilities  *)
(* laid out by one file and read by another, and the one slot in which a   *)
(* server receives a capability, which every call must find empty and in   *)
(* place.                                                                  *)
(***************************************************************************)
EXTENDS Integers, Sequences, FiniteSets

CONSTANTS
  App,       \* client processes that are no servers
  MaxNested, \* bound: calls of one handler to the root server
  None

(* root_server, boot_file_server, and any server of an sDDFConnection.     *)
Server == {"root", "object", "sddf"}

(* Those that hand out handle capabilities: badged copies of their own     *)
(* endpoint.                                                               *)
Issuer == {"root", "object"}
Thread == App \cup (Server \ {"root"})

VARIABLES
  calling,  \* per thread: the call it is blocked in
  returned, \* the last return of a stub: what the server gave, what it made
  buf,      \* per app and server: the client's view of its connection
  known,    \* per app and server: the server's
  handling, \* per server: the call being handled
  slot,     \* per server: what its receive slot holds
  home,     \* per server: its IPC buffer names that slot
  panicked  \* per server: the call it did not survive, and why

callVars == <<calling, returned, buf, known, handling, slot, home, panicked>>

CallInit ==
  /\ calling = [t \in Thread |-> None]
  /\ returned = [given |-> "none", got |-> "ok"]
  /\ buf = [t \in App |-> [s \in Server \ {"root"} |-> "closed"]]
  /\ known = [t \in App |-> [s \in Server \ {"root"} |-> "closed"]]
  /\ handling = [s \in Server |-> None]
  /\ slot = [s \in Server |-> None]
  /\ home = [s \in Server |-> TRUE]
  /\ panicked = [s \in Server |-> None]

-----------------------------------------------------------------------------
(* The stubs: how many registers each sends, how many of the reply it      *)
(* reads, and whether it names a slot for a capability to come back in.    *)
Stub(n, g, b) == [sends |-> n, gets |-> g, slot |-> b]

ConnStubs ==
  [ConnCreate     |-> Stub(0, 1, TRUE),
   ConnRegister   |-> Stub(2, 1, FALSE),
   IRQRegister    |-> Stub(3, 2, TRUE),
   ConnDeregister |-> Stub(1, 0, FALSE),
   ConnPublish    |-> Stub(1, 1, TRUE),
   ConnDestroy    |-> Stub(1, 0, FALSE)]

WindowStubs ==
  [TestSimple       |-> Stub(1, 0, FALSE),
   WindowCreate     |-> Stub(3, 1, FALSE),
   WindowRegister   |-> Stub(3, 1, FALSE),
   WindowDeregister |-> Stub(1, 0, FALSE),
   PageMap          |-> Stub(3, 0, FALSE),
   WindowDestroy    |-> Stub(1, 0, FALSE)]

ProcessStubs ==
  [ReplyCreate           |-> Stub(0, 1, TRUE),
   ServerHandleCapCreate |-> Stub(2, 1, TRUE),
   ProcSpawn             |-> Stub(2, 1, FALSE),
   ProcWait              |-> Stub(1, 0, FALSE),
   ProcExit              |-> Stub(0, 0, FALSE),
   LoadComplete          |-> Stub(2, 0, FALSE)]

ChannelStubs ==
  [ChannelOpen         |-> Stub(0, 0, TRUE),
   ServerCreateChannel |-> Stub(1, 1, TRUE)]

NonRootStubs ==
  [ConnOpen  |-> Stub(2, 0, FALSE),
   ConnClose |-> Stub(0, 0, FALSE)]

ObjectStubs ==
  [ObjCreate  |-> Stub(5, 1, FALSE),
   ObjOpen    |-> Stub(3, 1, FALSE),
   ObjClose   |-> Stub(1, 0, FALSE),
   ObjDestroy |-> Stub(1, 0, FALSE)]

ViewStubs ==
  [ObjStat |-> Stub(1, 2, FALSE),
   View    |-> Stub(6, 1, FALSE),
   Unview  |-> Stub(1, 0, FALSE)]

SddfStubs ==
  [sDDFChannelRegisterBidirectional |-> Stub(1, 0, TRUE),
   sDDFChannelRegisterReceiveOnly   |-> Stub(0, 0, FALSE),
   sDDFQueueRegister                |-> Stub(2, 0, FALSE),
   sDDFGetDataRegion                |-> Stub(0, 0, TRUE),
   sDDFProvideDataRegion            |-> Stub(1, 0, FALSE)]

Op == DOMAIN ConnStubs \cup DOMAIN WindowStubs \cup DOMAIN ProcessStubs \cup
      DOMAIN ChannelStubs \cup DOMAIN NonRootStubs \cup DOMAIN ObjectStubs \cup
      DOMAIN ViewStubs \cup DOMAIN SddfStubs

Stubs ==
  [op \in Op |->
     CASE op \in DOMAIN ConnStubs -> ConnStubs[op]
       [] op \in DOMAIN WindowStubs -> WindowStubs[op]
       [] op \in DOMAIN ProcessStubs -> ProcessStubs[op]
       [] op \in DOMAIN ChannelStubs -> ChannelStubs[op]
       [] op \in DOMAIN NonRootStubs -> NonRootStubs[op]
       [] op \in DOMAIN ObjectStubs -> ObjectStubs[op]
       [] op \in DOMAIN ViewStubs -> ViewStubs[op]
       [] OTHER -> SddfStubs[op]]

(* The interfaces a connection of each type has.                           *)
Speaks ==
  [root   |-> DOMAIN ConnStubs \cup DOMAIN WindowStubs \cup
              DOMAIN ProcessStubs \cup DOMAIN ChannelStubs \cup
              DOMAIN ObjectStubs \cup DOMAIN ViewStubs,
   object |-> DOMAIN NonRootStubs \cup DOMAIN ObjectStubs \cup
              DOMAIN ViewStubs,
   sddf   |-> DOMAIN NonRootStubs \cup DOMAIN SddfStubs]

(* Arguments that are a HandleOrHandleCap: a handle of the server called,  *)
(* or a capability, told apart by who issued it.                           *)
Arg == {"handle"} \cup Issuer
EitherOps == {"WindowDestroy", "ObjClose", "ObjDestroy", "ObjStat"}
MustBeCap == {"sDDFQueueRegister", "sDDFProvideDataRegion"}
CapOps == {"WindowRegister", "ChannelOpen", "sDDFChannelRegisterReceiveOnly",
           "sDDFChannelRegisterBidirectional"}

(* A second alternative of a stub: a capability is asked back, or the kind *)
(* of the channel is told.                                                 *)
Returning == {"WindowCreate", "ObjCreate", "ObjOpen"}
Kinded == {"sDDFChannelRegisterBidirectional"}

(* Strings travel in the buffer shared with the server.                    *)
Named == {"ConnCreate", "ConnPublish", "ObjOpen", "ProcSpawn"}

One(S) == {<<a>> : a \in S}
Two(S) == {<<a, b>> : a \in S, b \in S}
Args(op) ==
  CASE op \in EitherOps \cup MustBeCap -> One(Arg)
    [] op \in CapOps -> One(Issuer)
    [] op = "ConnOpen" -> {<<>>} \cup One(Arg)
    [] op = "View" -> Two(Arg)
    [] OTHER -> {<<>>}

Call(op, args, ret) == [op |-> op, args |-> args, ret |-> ret]
Rets(op) == IF op \in Returning \cup Kinded THEN BOOLEAN ELSE {FALSE}
Calls(op) == {Call(op, a, r) : a \in Args(op), r \in Rets(op)}

CallSet == UNION {Calls(op) : op \in Op}

(* What a caller is blocked in, and what a server works on: the arguments  *)
(* as decoded, whether the receive slot was consumed, the calls the        *)
(* handler may still make.                                                 *)
Calling == [to : Server, call : CallSet, taken : BOOLEAN]
Handling == [from : Thread,
             args : Seq({"handle", "unwrapped", "wrapped"}),
             consumed : BOOLEAN,
             left : 0 .. MaxNested]

(* A server that panicked did so at a call, for one of four reasons.       *)
Why == {"no_handler", "out_of_order", "wrapped", "handler"}
Panic == [call : CallSet, why : Why]

ASSUME InvocationsAssumption ==
  /\ App \cap Server = {}
  /\ MaxNested \in Nat
  /\ None \notin Issuer \cup Calling \cup Handling

IsCap(a) == a # "handle"

(* The length field of the message.                                        *)
Sends(c) ==
  CASE c.op \in EitherOps -> IF IsCap(c.args[1]) THEN 0 ELSE 1
    [] c.op = "ConnOpen" /\ c.args = <<>> -> 0
    [] c.op \in Kinded /\ ~c.ret -> 0
    [] OTHER -> Stubs[c.op].sends

(* The capabilities travel in the order of the arguments; View marks the   *)
(* register of an argument that does with u64::MAX.                        *)
Caps(c) ==
  LET caps == {i \in DOMAIN c.args : IsCap(c.args[i])}
  IN CASE caps = DOMAIN c.args -> c.args
       [] caps = {} -> <<>>
       [] OTHER -> <<c.args[CHOOSE i \in caps : TRUE]>> \* one of two

(* The stub names a slot for the reply's capability, and the registers it  *)
(* reads.                                                                  *)
NamesSlot(c) == IF c.op \in Returning THEN c.ret ELSE Stubs[c.op].slot
Gets(c) == IF c.op \in Returning /\ c.ret THEN 0 ELSE Stubs[c.op].gets

-----------------------------------------------------------------------------
(* The kernel's side of it: a capability to the endpoint called on is      *)
(* unwrapped to its badge, any other goes into the receive slot if that is *)
(* empty, and the transfer ends at the first that finds no room.           *)
Deliver(s, caps) ==
  LET foreign(k) == {i \in 1 .. k : caps[i] # s}
      room == IF slot[s] = None /\ home[s] THEN 1 ELSE 0
      n == CHOOSE k \in 0 .. Len(caps) :
             /\ Cardinality(foreign(k)) <= room
             /\ \A j \in k + 1 .. Len(caps) : Cardinality(foreign(j)) > room
  IN [n |-> n,
      unwrapped |-> {i \in 1 .. n : caps[i] = s},
      slot |-> IF foreign(n) = {} THEN slot[s]
               ELSE caps[CHOOSE i \in foreign(n) : TRUE]]

(* get_from_ipc_buffer's consumed_recv_slot.                               *)
Consumed(d) == d.unwrapped # 1 .. d.n

-----------------------------------------------------------------------------
(* Decoding: the arguments as the handler sees them, or an error.          *)
Refused(e) == [err |-> e, args |-> <<>>]
Decoded(args) == [err |-> "none", args |-> args]
Invalid == Refused("InvalidArguments")

TakenAs(i, d) == IF i \in d.unwrapped THEN "unwrapped" ELSE "wrapped"

EitherArg(c, d) ==
  IF d.n = 1 /\ d.unwrapped = {1} THEN Decoded(<<"unwrapped">>)
  ELSE IF Sends(c) = 1 THEN Decoded(<<"handle">>) ELSE Invalid

StatArg(c, d) ==
  IF d.n = 1 THEN IF d.unwrapped = {1} THEN Decoded(<<"unwrapped">>)
                                       ELSE Invalid
  ELSE IF Sends(c) = 1 THEN Decoded(<<"handle">>) ELSE Invalid

(* The sDDF calls take the capability in the receive slot.                 *)
WrappedArg(c, d) ==
  LET lengths == CASE c.op = "sDDFChannelRegisterBidirectional" -> {0, 1}
                   [] c.op = "sDDFQueueRegister" -> {2}
                   [] OTHER -> Nat
  IN IF Sends(c) \in lengths /\ d.n = 1 /\ d.unwrapped = {}
     THEN Decoded(<<"wrapped">>) ELSE Invalid

(* window_register and channel_open take a capability of the root server.  *)
UnwrappedArg(c, d) ==
  IF \/ c.op = "WindowRegister" /\ (d.n # 1 \/ d.unwrapped # {1}
                                     \/ Sends(c) # 3)
     \/ c.op = "ChannelOpen" /\ d.n # 1 /\ d.unwrapped # {1}
  THEN Invalid ELSE Decoded(<<"unwrapped">>)

(* A decoding that takes the object for the second capability whether or   *)
(* not the window is the first.                                            *)
ViewArgsFixed(c, d) ==
  LET window == IF IsCap(c.args[1]) THEN TakenAs(1, d) ELSE "handle"
      object == IF IsCap(c.args[2]) THEN TakenAs(2, d) ELSE "handle"
  IN IF IsCap(c.args[2]) /\ d.n < 1 THEN Invalid
     ELSE Decoded(<<window, object>>)

(* A decoding that takes any object.                                       *)
ViewArgsLoose(c, d) ==
  LET at == Cardinality({i \in 1 .. 2 : IsCap(c.args[i])})
      window == IF IsCap(c.args[1]) THEN TakenAs(1, d) ELSE "handle"
      object == IF IsCap(c.args[2]) THEN TakenAs(at, d) ELSE "handle"
  IN IF d.n < at THEN Invalid ELSE Decoded(<<window, object>>)

(* A window may be anybody's; an object must be the server's own.          *)
ViewArgs(c, d) ==
  LET at == Cardinality({i \in 1 .. 2 : IsCap(c.args[i])})
      window == IF IsCap(c.args[1]) THEN TakenAs(1, d) ELSE "handle"
      object == IF IsCap(c.args[2]) THEN TakenAs(at, d) ELSE "handle"
  IN IF d.n < at \/ object = "wrapped" THEN Invalid
     ELSE Decoded(<<window, object>>)

OpenArgs(c, d) ==
  IF Sends(c) = 0 THEN Decoded(<<>>)
  ELSE IF d.n = 1 THEN Decoded(<<TakenAs(1, d)>>) ELSE Decoded(<<"handle">>)

(* Calls whose only arguments are registers, with the length they check.   *)
Lengths ==
  [ServerCreateChannel |-> 1, WindowDeregister |-> 1, PageMap |-> 3,
   Unview |-> 1, ConnDestroy |-> 1, ConnDeregister |-> 1, LoadComplete |-> 2,
   ConnRegister |-> 2, IRQRegister |-> 3, ServerHandleCapCreate |-> 2,
   ProcSpawn |-> 2, ProcWait |-> 1]

(* And those that read registers without checking it.                      *)
Unchecked ==
  [WindowCreate |-> 3, ConnPublish |-> 1, ObjCreate |-> 5, ObjOpen |-> 2,
   View |-> 6, sDDFProvideDataRegion |-> 1, ConnOpen |-> 2]

PlainArgs(c, buffered) ==
  IF c.op \in Named /\ ~buffered THEN Refused("DataBufferNotSet")
  ELSE IF c.op \in DOMAIN Lengths /\ Sends(c) # Lengths[c.op] THEN Invalid
  ELSE Decoded(<<>>)

(* The *_INVOCATIONS lists and is_supported.                               *)
RootInvocations ==
  {"ConnCreate", "ConnDestroy", "ConnPublish", "ConnRegister",
   "ConnDeregister", "TestSimple", "WindowCreate", "WindowDestroy",
   "WindowRegister", "WindowDeregister", "ReplyCreate",
   "ServerHandleCapCreate", "ProcSpawn", "ProcWait", "ProcExit", "PageMap",
   "LoadComplete", "IRQRegister", "ServerCreateChannel", "ChannelOpen"}
ObjectInvocations ==
  {"ObjCreate", "View", "Unview", "ObjOpen", "ObjClose", "ObjDestroy",
   "ObjStat"}
NonRootInvocations == {"ConnOpen", "ConnClose"}
SddfInvocations ==
  {"sDDFChannelRegisterBidirectional", "sDDFChannelRegisterReceiveOnly",
   "sDDFQueueRegister", "sDDFGetDataRegion", "sDDFProvideDataRegion"}
IsSupported ==
  [root   |-> RootInvocations \cup ObjectInvocations,
   object |-> NonRootInvocations \cup ObjectInvocations,
   sddf   |-> NonRootInvocations \cup SddfInvocations]

(* can_contain_wrapped_cap.                                                *)
CanContainWrappedCap ==
  {"sDDFChannelRegisterBidirectional", "sDDFChannelRegisterReceiveOnly",
   "sDDFQueueRegister", "sDDFProvideDataRegion", "View", "ConnOpen"}

WrappedOps == MustBeCap \cup (CapOps \ {"WindowRegister", "ChannelOpen"})

Decode(s, c, d, buffered) ==
  IF c.op \notin IsSupported[s] THEN Refused("UnsupportedInvocation")
  ELSE IF c.op \notin CanContainWrappedCap /\ Consumed(d) THEN Invalid
  ELSE CASE c.op = "ObjStat" -> StatArg(c, d)
         [] c.op \in EitherOps \ {"ObjStat"} -> EitherArg(c, d)
         [] c.op \in {"WindowRegister", "ChannelOpen"} -> UnwrappedArg(c, d)
         [] c.op \in WrappedOps -> WrappedArg(c, d)
         [] c.op = "View" -> ViewArgs(c, d)
         [] c.op = "ConnOpen" -> OpenArgs(c, d)
         [] OTHER -> PlainArgs(c, buffered)

(* A contains_cap that forgets a call.                                     *)
ContainsCapButView(op, args) ==
  op # "View" /\ \E i \in DOMAIN args : args[i] = "wrapped"

(* contains_cap, by which the servers but the root server tell whether the *)
(* receive slot needs emptying: for View it looks at the window only.      *)
ContainsCap(op, args) ==
  \/ op \in WrappedOps
  \/ op \in {"View", "ConnOpen"} /\ args # <<>> /\ args[1] = "wrapped"

-----------------------------------------------------------------------------
(* The reply of a handler that succeeds; None where handle_reply panics.   *)
ReplyShape(n, m) == [length |-> n, caps |-> m]

(* A reply to irq_register without its handler.                            *)
HandleReplyBare(op, ret) ==
  CASE op \in Returning -> IF ret THEN ReplyShape(0, 1) ELSE ReplyShape(1, 0)
    [] op \in {"ConnCreate", "ServerCreateChannel", "ServerHandleCapCreate",
               "ConnPublish", "ReplyCreate"} -> ReplyShape(1, 1)
    [] op \in {"IRQRegister", "ObjStat"} -> ReplyShape(2, 0)
    [] OTHER -> ReplyShape(1, 1)

HandleReply(op, ret) ==
  CASE op \in Returning -> IF ret THEN ReplyShape(0, 1) ELSE ReplyShape(1, 0)
    [] op \in {"ConnCreate", "ServerCreateChannel", "ServerHandleCapCreate",
               "ConnPublish", "ReplyCreate"} -> ReplyShape(1, 1)
    [] op \in {"sDDFChannelRegisterBidirectional", "sDDFGetDataRegion",
               "ChannelOpen"} -> ReplyShape(0, 1)
    [] op \in {"View", "WindowRegister", "ConnRegister", "ProcSpawn"}
         -> ReplyShape(1, 0)
    [] op = "IRQRegister" -> ReplyShape(2, 1)
    [] op = "ObjStat" -> ReplyShape(2, 0)
    [] OTHER -> ReplyShape(0, 0)

(* The errors handlers return.                                             *)
HandlerError ==
  {"OutOfHandles", "OutOfHandleCaps", "AlignmentError", "InvalidArguments",
   "InvalidHandle", "InvalidHandleCapability", "DataBufferNotSet",
   "BufferTooLarge", "InsufficientResources"}
Error == HandlerError \cup {"UnsupportedInvocation"}

Label ==
  [InvalidInvocation |-> 1, NotEnoughArgs |-> 2, NotEnoughCaps |-> 3,
   InvalidType |-> 4, CSpaceFull |-> 5, UnsupportedInvocation |-> 6,
   OutOfHandles |-> 7, OutOfHandleCaps |-> 8, AlignmentError |-> 9,
   InvalidArguments |-> 10, InvalidHandle |-> 11,
   InvalidHandleCapability |-> 12, DataBufferNotSet |-> 13,
   BufferTooLarge |-> 14, InsufficientResources |-> 15, ServerError |-> 16]

(* handle_error and try_unpack_error: label 0 is NoError.  The label of    *)
(* InvalidType is NotEnoughCaps'; no handler returns it.                   *)
HandleError(e) == Label[IF e = "InvalidType" THEN "NotEnoughCaps" ELSE e]
UnpackError(n) == CHOOSE e \in DOMAIN Label : Label[e] = n

(* What the stub makes of a reply.  It needs a capability where it named a *)
(* slot, the registers it reads, and no capability where it named no slot: *)
(* that would fall into the slot of an earlier call.  Most stubs check it. *)
Unpacked(c, r) ==
  IF \/ NamesSlot(c) /\ r.caps # 1
     \/ ~NamesSlot(c) /\ r.caps # 0
     \/ r.length < Gets(c)
  THEN "unfit" ELSE "ok"

-----------------------------------------------------------------------------
(* The calls a handler makes to the root server, x being what the receive  *)
(* slot of its server holds.                                               *)
Plain(op) == Call(op, <<>>, FALSE)
DestroyWindow == Call("WindowDestroy", <<"handle">>, FALSE)

NestedInOpen(s, args, x) ==
  IF args = <<>> THEN {Plain("ConnRegister")}
  ELSE IF s = "object" /\ args = <<"wrapped">>
  THEN {Plain("ConnRegister"), Plain("ConnDeregister"), Plain("WindowCreate"),
        Call("View", <<"handle", x>>, FALSE), DestroyWindow}
  ELSE {}

NestedInObject(op, args, x) ==
  CASE op = "ConnClose" ->
         {Plain("Unview"), DestroyWindow, Plain("ConnDeregister")}
    [] op = "View" /\ args[1] = "wrapped" ->
         {Call("WindowRegister", <<x>>, FALSE)}
    [] op = "Unview" -> {Plain("WindowDeregister")}
    [] OTHER -> {}

NestedInSddf(op, x) ==
  CASE op = "sDDFChannelRegisterBidirectional" ->
         {Call("ChannelOpen", <<x>>, FALSE), Plain("ServerCreateChannel")}
    [] op = "sDDFChannelRegisterReceiveOnly" ->
         {Call("ChannelOpen", <<x>>, FALSE)}
    [] op \in MustBeCap ->
         {Call("ObjStat", <<x>>, FALSE), Plain("WindowCreate"),
          Call("View", <<"handle", x>>, FALSE)}
    [] OTHER -> {}

Nested(s, op, args) ==
  IF op = "ConnOpen" THEN NestedInOpen(s, args, slot[s])
  ELSE IF s = "object" THEN NestedInObject(op, args, slot[s])
  ELSE NestedInSddf(op, slot[s])

(* A handler calls from within; an application when it likes, in the order *)
(* the connection's life asks for.                                         *)
MayCall(t, s, c) ==
  IF t \in App
  THEN /\ c.op \in Speaks[s]
       /\ s # "root" => (c.op = "ConnOpen") = (buf[t][s] = "closed")
  ELSE /\ s = "root"
       /\ panicked[t] = None
       /\ handling[t] # None
       /\ handling[t].left > 0
       /\ c \in Nested(t, calling[handling[t].from].call.op, handling[t].args)

(* The stub refuses a handle where only a capability will do, and a name   *)
(* when there is no buffer to put it in.                                   *)
StubRefuses(t, s, c) ==
  \/ c.op \in MustBeCap /\ ~IsCap(c.args[1])
  \/ c.op \in Named /\ s # "root" /\ buf[t][s] # "buffered"

(* A stub is called: it sends, or returns an error of its own.  A stub     *)
(* that names a slot leaves the IPC buffer pointing at it.                 *)
StubSends(t, s, c) ==
  /\ calling[t] = None
  /\ MayCall(t, s, c)
  /\ ~StubRefuses(t, s, c)
  /\ calling' = [calling EXCEPT ![t] = [to |-> s, call |-> c,
                                        taken |-> FALSE]]
  /\ home' = IF t \in Server /\ NamesSlot(c) THEN [home EXCEPT ![t] = FALSE]
             ELSE home
  /\ handling' = IF t \in Server THEN [handling EXCEPT ![t].left = @ - 1]
                 ELSE handling
  /\ UNCHANGED <<returned, buf, known, slot, panicked>>

StubReturns(t, s, c) ==
  /\ calling[t] = None
  /\ MayCall(t, s, c)
  /\ StubRefuses(t, s, c)
  /\ returned' = [given |-> "none",
                  got |-> IF c.op \in Named THEN "DataBufferNotSet"
                                            ELSE "InvalidArguments"]
  /\ UNCHANGED <<calling, buf, known, handling, slot, home, panicked>>

-----------------------------------------------------------------------------
(* A server waits in smos_serv_replyrecv, or ep.reply_recv.                *)
Waits(s) == panicked[s] = None /\ handling[s] = None

Arriving(s, t) ==
  /\ Waits(s)
  /\ calling[t] # None
  /\ calling[t].to = s
  /\ ~calling[t].taken

(* What the receive step makes of t's call.                                *)
Delivery(s, t) == Deliver(s, Caps(calling[t].call))
Buffered(s, t) == s = "root" \/ (t \in App /\ known[t][s] = "buffered")
Decoding(s, t) ==
  Decode(s, calling[t].call, Delivery(s, t), Buffered(s, t))

(* A rejection that goes back to waiting without an answer.                *)
RejectSilently(s, t) ==
  /\ Arriving(s, t)
  /\ Decoding(s, t).err # "none"
  /\ calling' = [calling EXCEPT ![t].taken = TRUE]
  /\ UNCHANGED <<returned, buf, known, handling, slot, home, panicked>>

(* An error is answered at once; the slot is emptied if anything came, and *)
(* the IPC buffer pointed at it.                                           *)
Reject(s, t) ==
  /\ Arriving(s, t)
  /\ Decoding(s, t).err # "none"
  /\ slot' = [slot EXCEPT ![s] = IF Consumed(Delivery(s, t)) THEN None
                                 ELSE Delivery(s, t).slot]
  /\ home' = [home EXCEPT ![s] = TRUE]
  /\ returned' = [given |-> Decoding(s, t).err,
                  got |-> UnpackError(HandleError(Decoding(s, t).err))]
  /\ calling' = [calling EXCEPT ![t] = None]
  /\ UNCHANGED <<buf, known, handling, panicked>>

Accept(s, t) ==
  /\ Arriving(s, t)
  /\ Decoding(s, t).err = "none"
  /\ handling' = [handling EXCEPT
       ![s] = [from |-> t, args |-> Decoding(s, t).args,
               consumed |-> Consumed(Delivery(s, t)), left |-> MaxNested]]
  /\ slot' = [slot EXCEPT ![s] = Delivery(s, t).slot]
  /\ calling' = [calling EXCEPT ![t].taken = TRUE]
  /\ UNCHANGED <<returned, buf, known, home, panicked>>

-----------------------------------------------------------------------------
(* Calls that get past the decoding and have no handler: test_simple       *)
(* panics, obj_open and obj_close are todo!() in the root server,          *)
(* obj_create and obj_destroy in the boot file server, and conn_close in   *)
(* the sDDF servers.                                                       *)
Unserved(s, op) ==
  CASE s = "root" -> op \in {"TestSimple", "ObjOpen", "ObjClose"}
    [] s = "object" -> op \in {"ObjCreate", "ObjDestroy"}
    [] OTHER -> op = "ConnClose"

(* A wrapped capability stops generic_get_handle.                          *)
LooksUpWrapped(s, args) ==
  s = "root" /\ \E i \in DOMAIN args : args[i] = "wrapped"

(* Handlers that can panic whatever the decoding made of the call: they    *)
(* unwrap the entry of a handle, which may be empty, expect a frame or a   *)
(* call of their own to succeed, or meet a todo!() (obj_close of an object *)
(* with views, process_exit with handles left); and of the servers of an   *)
(* sDDFConnection each lacks some handlers, and those that unwrap their    *)
(* client stop after a conn_open they refused.                             *)
HandlerPanics ==
  [root   |-> {"ConnRegister", "ConnDeregister", "ConnDestroy", "IRQRegister",
               "WindowRegister", "WindowDeregister", "WindowDestroy",
               "PageMap", "ServerHandleCapCreate", "ServerCreateChannel",
               "ChannelOpen", "ProcSpawn", "ProcWait", "ProcExit",
               "LoadComplete", "ObjCreate", "ObjDestroy", "ObjStat", "View",
               "Unview"},
   object |-> {"ConnOpen", "ConnClose", "ObjStat", "ObjClose", "View",
               "Unview"},
   sddf   |-> {"ConnOpen"} \cup DOMAIN SddfStubs]

(* The loops of the boot file server and of the sDDF servers stop at a     *)
(* client that calls before it has opened, or opens again.                 *)
OutOfOrder(s, t, op) ==
  /\ s # "root"
  /\ (op = "ConnOpen") # (known[t][s] = "closed")

(* The handler runs to its end when it has no call of its own open.        *)
Handles(s) ==
  /\ panicked[s] = None
  /\ handling[s] # None
  /\ s # "root" => calling[s] = None

StopsFor(s, why) ==
  LET h == handling[s]
      op == calling[h.from].call.op
  IN CASE why = "no_handler" -> Unserved(s, op)
       [] why = "out_of_order" -> OutOfOrder(s, h.from, op)
       [] why = "wrapped" -> LooksUpWrapped(s, h.args)
       [] why = "handler" -> op \in HandlerPanics[s]

Stops(s) ==
  /\ Handles(s)
  /\ \E why \in Why :
       /\ StopsFor(s, why)
       /\ panicked' = [panicked EXCEPT
            ![s] = [call |-> calling[handling[s].from].call, why |-> why]]
  /\ UNCHANGED <<calling, returned, buf, known, handling, slot, home>>

(* handle_view of the boot file server wants a wrapped window, its         *)
(* handle_conn_open a wrapped buffer, and that of the sDDF servers none.   *)
MustFail(s, op, args) ==
  \/ s = "object" /\ op = "View" /\ args[1] # "wrapped"
  \/ s = "object" /\ op = "ConnOpen" /\ args # <<>> /\ args[1] # "wrapped"
  \/ s = "sddf" /\ op = "ConnOpen" /\ args # <<>>

(* The connection after a call that succeeded.  Closing is the object      *)
(* server's handle_conn_close and delete_client.                           *)
Status(c, old) ==
  CASE c.op = "ConnOpen" -> IF c.args = <<>> THEN "open" ELSE "buffered"
    [] c.op = "ConnClose" -> "closed"
    [] OTHER -> old

(* The server's record of the client after the same call.                  *)
ClientAfter(c, old) == Status(c, old)

(* The receive slot after the handler: the root server empties it of what  *)
(* a call brought and points the IPC buffer at it in every case, the other *)
(* servers (smos_serv_cleanup) go by contains_cap in both.                 *)
Cleanup(s) ==
  LET h == handling[s]
      op == calling[h.from].call.op
  IN IF s = "root"
     THEN /\ slot' = IF h.consumed THEN [slot EXCEPT ![s] = None] ELSE slot
          /\ home' = [home EXCEPT ![s] = TRUE]
     ELSE IF ContainsCap(op, h.args)
          THEN /\ slot' = [slot EXCEPT ![s] = None]
               /\ home' = [home EXCEPT ![s] = TRUE]
          ELSE UNCHANGED <<slot, home>>

(* Calls whose caller is answered later or never: Process models both.     *)
Kept == {"ProcWait", "ProcExit"}

Answer(s) ==
  LET h == handling[s]
      t == h.from
      c == calling[t].call
  IN /\ Handles(s)
     /\ \A why \in Why \ {"handler"} : ~StopsFor(s, why)
     /\ c.op \notin Kept
     /\ \E e \in {"none"} \cup HandlerError :
          /\ MustFail(s, c.op, h.args) => e = "InvalidArguments"
          /\ LET got == IF e = "none"
                        THEN Unpacked(c, HandleReply(c.op, c.ret))
                        ELSE UnpackError(HandleError(e))
             IN /\ returned' = [given |-> e, got |-> got]
                /\ IF s # "root" /\ e = "none"
                   THEN /\ known' = [known EXCEPT
                                      ![t][s] = ClientAfter(c, @)]
                        /\ buf' = IF got = "ok"
                                  THEN [buf EXCEPT ![t][s] = Status(c, @)]
                                  ELSE buf
                   ELSE UNCHANGED <<known, buf>>
     /\ Cleanup(s)
     /\ calling' = [calling EXCEPT ![t] = None]
     /\ handling' = [handling EXCEPT ![s] = None]
     /\ UNCHANGED panicked

(* process_wait keeps the reply object, process_exit has nobody to answer. *)
Keep(s) ==
  /\ Handles(s)
  /\ calling[handling[s].from].call.op \in Kept
  /\ Cleanup(s)
  /\ handling' = [handling EXCEPT ![s] = None]
  /\ UNCHANGED <<calling, returned, buf, known, panicked>>

-----------------------------------------------------------------------------
HandlerCalls(s) == \E op \in Op : \E c \in Calls(op) : StubSends(s, "root", c)

ServerStep(s) == Stops(s) \/ Answer(s) \/ Keep(s)

CallNext ==
  \/ \E t \in App, s \in Server, op \in Op : \E c \in Calls(op) :
       StubSends(t, s, c) \/ StubReturns(t, s, c)
  \/ \E s \in Server \ {"root"} : HandlerCalls(s)
  \/ \E s \in Server, t \in Thread : Reject(s, t) \/ Accept(s, t)
  \/ \E s \in Server : ServerStep(s)

(* A handler comes to its end, and the endpoint's queue lets no caller     *)
(* overtake another for ever.                                              *)
CallSpec ==
  /\ CallInit
  /\ [][CallNext]_callVars
  /\ \A s \in Server : WF_callVars(ServerStep(s))
  /\ \A s \in Server, t \in Thread : SF_callVars(Reject(s, t) \/ Accept(s, t))

-----------------------------------------------------------------------------
Unpacking == {"ok", "unfit"} \cup Error

CallTypeOK ==
  /\ calling \in [Thread -> Calling \cup {None}]
  /\ returned \in [given : {"none"} \cup Error, got : Unpacking]
  /\ {buf, known} \subseteq
       [App -> [Server \ {"root"} -> {"closed", "open", "buffered"}]]
  /\ handling \in [Server -> Handling \cup {None}]
  /\ slot \in [Server -> Issuer \cup {None}]
  /\ home \in [Server -> BOOLEAN]
  /\ panicked \in [Server -> Panic \cup {None}]

(* A call arrives as it was meant: every argument the client passed as a   *)
(* handle is decoded as a handle, every capability of the server called as *)
(* the object it stands for, every other as the one in the receive slot,   *)
(* and no register is read that the message did not carry (get_with checks *)
(* the length of most calls, not of window_create, obj_create, view...).   *)
ArrivesAsMeant ==
  \A s \in Server : handling[s] # None =>
    LET c == calling[handling[s].from].call
        args == handling[s].args
    IN /\ Len(args) = Len(c.args) \/ c.op = "TestSimple"
       /\ \A i \in DOMAIN args :
            args[i] = CASE c.args[i] = "handle" -> "handle"
                        [] c.args[i] = s -> "unwrapped"
                        [] OTHER -> "wrapped"
       /\ (\E i \in DOMAIN args : args[i] = "wrapped") => slot[s] # None
       /\ c.op \in DOMAIN Unchecked /\ (c.op = "ConnOpen" => c.args # <<>>)
            => Unchecked[c.op] <= Sends(c)

(* A server that waits for a call has an empty receive slot, and its IPC   *)
(* buffer names it: otherwise the next capability sent is dropped by the   *)
(* kernel and the call refused.  Handlers move the pointer (channel_open,  *)
(* server_channel_create) and only calls that contains_cap knows reset it. *)
SlotAwaits ==
  \A s \in Server : Waits(s) => slot[s] = None /\ home[s]

(* Between calls client and server agree on the connection and on whether  *)
(* it has a buffer: a name is never decoded without one, and no client     *)
(* that opened is taken for one that did not.                              *)
BuffersAgree ==
  \A t \in App : calling[t] = None => buf[t] = known[t]

(* Whatever a call was and however it ended, it leaves both sides fit for  *)
(* the next one.                                                           *)
ReadyForTheNext == CallTypeOK /\ SlotAwaits /\ BuffersAgree

(* What a stub returns is what the server answered: it never meets a reply *)
(* of the wrong shape, which is an assertion failure or a ServerError, nor *)
(* a label that stands for another error than the one given, and no        *)
(* connection offers a call that its server does not support.              *)
RepliesFit ==
  /\ returned.got \notin {"unfit", "UnsupportedInvocation"}
  /\ returned.given # "none" => returned.got = returned.given

(* No call made through the stubs stops a server by its order or by the    *)
(* kind of its capabilities: no loop meets a call before conn_open, nor a  *)
(* second conn_open, and generic_get_handle meets a wrapped capability in  *)
(* view on the root server with a window of somebody else only.  Every     *)
(* other stop is a handler's own: it is missing, or panics at what it      *)
(* looked up (an empty handle, an object with views).                      *)
StopsAreHandlersOwn ==
  \A s \in Server : panicked[s] # None =>
    /\ panicked[s].why # "out_of_order"
    /\ panicked[s].why = "wrapped" =>
         /\ s = "root" /\ panicked[s].call.op = "View"
         /\ panicked[s].call.args[1] = "object"

(* Every call returns, but those kept, unless the server called has        *)
(* stopped, or the root server, on which every handler may depend: what    *)
(* the decoding refuses is answered too, and a server that calls the root  *)
(* server from its handler comes back to its own client.                   *)
CallsReturn ==
  \A t \in Thread :
    calling[t] # None ~>
      \/ calling[t] = None
      \/ calling[t].call.op \in Kept
      \/ panicked[calling[t].to] # None
      \/ panicked["root"] # None

=============================================================================
