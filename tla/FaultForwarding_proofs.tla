----------------------- MODULE FaultForwarding_proofs -----------------------
(***************************************************************************)
(* Proofs about FaultForwarding, for any clients, windows, registrations,  *)
(* view arguments and handles.  SInv holds always; OInv, until one of the  *)
(* Incidents: the view tables and the registrations agree, and each        *)
(* blocked thread has its message.  The ring must take one message of      *)
(* each client (RingHoldsAll).                                             *)
(***************************************************************************)
EXTENDS FaultForwarding, FiniteSetTheorems, TLAPS

(* The calls on the endpoint: each is the only one of its caller, which    *)
(* waits for it and is known unless it is opening.                         *)
Calls ==
  /\ \A k \in DOMAIN endpoint :
       LET m == endpoint[k] IN
       /\ proc[m.id] = "calling"
       /\ m.op = "open" <=> m.id \notin Known
       /\ m.op = "view" => m.win \in Windows /\ m.arg \in ViewArgs
  /\ \A j, k \in DOMAIN endpoint : endpoint[j].id = endpoint[k].id => j = k

InUse(id, h) == id \in Known /\ table[id][h] # None

(* What the server has in hand between two of its steps.                   *)
Serving ==
  /\ server.at \in {"register", "deregister"} =>
       /\ endpoint # <<>> /\ Head(endpoint).id = server.id
       /\ server.id \in Known
  /\ server.at = "register" =>
       /\ server.win \in Windows /\ server.arg \in ViewArgs
       /\ table[server.id][server.hndl] = None
  /\ server.at \in {"deregister", "map"} => InUse(server.id, server.hndl)

(* A thread waits for one fault.                                           *)
Pendings ==
  /\ \A r \in Regs : reg[r].pending # None =>
       proc[reg[r].pending.proc] = "faulting"
  /\ \A r, s \in Regs :
       /\ reg[r].pending # None /\ reg[s].pending # None
       /\ reg[r].pending.proc = reg[s].pending.proc
       => r = s

(* A window is bound to a registration that somebody made for it.          *)
Bound ==
  /\ \A w \in Windows : win[w].view # None => reg[win[w].view].win = w
  /\ \A r \in Regs : reg[r].win # None => reg[r].client # None

SInv == TypeOK /\ Calls /\ Serving /\ Pendings /\ Bound

Call == [id : Procs, win : Windows \cup {None},
         op : {"open", "close", "view", "unview"},
         arg : ViewArgs \cup {None}, hndl : Handle]
Record == [win : Windows \cup {None}, client : Procs \cup {None},
           ref : Handle, pages : OptPages, seen : OptPages,
           pending : [proc : Procs, page : Page] \cup {None}]
Message == [id : Procs, ref : Handle, page : Page]
Entry == [reg : Regs, arg : ViewArgs] \cup {None}
Step == [at : {"recv", "register", "deregister", "drain", "map"},
         id : Procs \cup {None}, hndl : Handle, page : Page,
         win : Windows \cup {None}, arg : ViewArgs \cup {None}]

LEMMA Zero == 0 \in Handle /\ 0 \in Page
  BY FaultForwardingAssumption DEF Handle, Page

LEMMA Blanks ==
  /\ Blank \in OptPages /\ NoReg \in Record /\ NoReg.pending = None
  /\ Empty \in [Handle -> Entry] /\ \A h \in Handle : Empty[h] = None
  /\ Idle \in Step /\ Idle.at = "recv"
<1>1. Blank \in OptPages
  BY DEF Blank, OptPages
<1> QED
  BY <1>1, Zero DEF NoReg, Record, Empty, Entry, Idle, Step

LEMMA TypeFacts ==
  ASSUME TypeOK
  PROVE  /\ win \in [Windows -> [owner : Procs \cup {None},
                                 view : Regs \cup {None}]]
         /\ reg \in [Regs -> Record]
         /\ proc \in [Procs -> {"running", "calling", "faulting", "stopped"}]
         /\ endpoint \in Seq(Call)
         /\ ring \in Seq(Message)
         /\ signalled \in BOOLEAN
         /\ server \in Step
         /\ Known \subseteq Procs
         /\ table \in [Known -> [Handle -> Entry]]
         /\ panicked \in BOOLEAN
         /\ incidents \subseteq Incidents
  BY DEF TypeOK, Call, Record, Message, Entry, Step

LEMMA Elements ==
  ASSUME TypeOK
  PROVE  /\ \A k \in DOMAIN endpoint : endpoint[k] \in Call
         /\ \A k \in DOMAIN ring : ring[k] \in Message
<1>1. endpoint \in Seq(Call) /\ ring \in Seq(Message)
  BY TypeFacts
<1> QED
  BY <1>1

LEMMA FactsType ==
  ASSUME /\ win \in [Windows -> [owner : Procs \cup {None},
                                 view : Regs \cup {None}]]
         /\ reg \in [Regs -> Record]
         /\ proc \in [Procs -> {"running", "calling", "faulting", "stopped"}]
         /\ endpoint \in Seq(Call)
         /\ ring \in Seq(Message)
         /\ signalled \in BOOLEAN
         /\ server \in Step
         /\ Known \subseteq Procs
         /\ table \in [Known -> [Handle -> Entry]]
         /\ panicked \in BOOLEAN
         /\ incidents \subseteq Incidents
  PROVE  TypeOK
  BY DEF TypeOK, Call, Record, Message, Entry, Step

LEMMA EmptyTuple == \A T : DOMAIN <<>> = {} /\ <<>> \in [{} -> T]
<1>1. \A T : <<>> \in [1 .. 0 -> T]
  OBVIOUS
<1>2. 1 .. 0 = {}
  OBVIOUS
<1> QED
  BY <1>1, <1>2

LEMMA InitSInv == Init => SInv
<1> SUFFICES ASSUME Init PROVE SInv
  OBVIOUS
<1> USE DEF Init
<1>1. TypeOK
  <2>1. Known = {} /\ table \in [{} -> [Handle -> Entry]]
    <3>1. DOMAIN table = {}
      BY Zenon, EmptyTuple
    <3> QED
      BY <3>1, EmptyTuple DEF Known
  <2>2. reg \in [Regs -> Record] /\ server \in Step
    BY Blanks
  <2>4. endpoint \in Seq(Call) /\ ring \in Seq(Message)
    OBVIOUS
  <2>3. /\ win \in [Windows -> [owner : Procs \cup {None},
                               view : Regs \cup {None}]]
        /\ proc \in [Procs -> {"running", "calling", "faulting", "stopped"}]
    BY DEF NoWin
  <2> QED
    BY <2>1, <2>2, <2>3, <2>4, FactsType DEF Incidents
<1>2. Calls
  BY DEF Calls
<1>3. Serving
  BY Blanks DEF Serving
<1>4. Pendings
  BY Blanks DEF Pendings
<1>5. Bound
  BY FaultForwardingAssumption DEF Bound, NoWin, NoReg
<1> QED
  BY <1>1, <1>2, <1>3, <1>4, <1>5 DEF SInv

(* The head of a sequence and the rest.                                    *)
LEMMA Rest ==
  ASSUME NEW S, NEW s \in Seq(S), s # <<>>
  PROVE  /\ 1 \in DOMAIN s /\ Head(s) = s[1] /\ s[1] \in S
         /\ Tail(s) \in Seq(S) /\ Len(s) > 0
         /\ \A k \in DOMAIN Tail(s) : k + 1 \in DOMAIN s /\ k + 1 # 1
                                      /\ Tail(s)[k] = s[k + 1]
         /\ \A k \in DOMAIN s : k # 1 => /\ k - 1 \in DOMAIN Tail(s)
                                         /\ Tail(s)[k - 1] = s[k]
<1>1. Len(s) \in Nat /\ Len(s) > 0 /\ DOMAIN s = 1 .. Len(s)
  OBVIOUS
<1>2. Tail(s) \in Seq(S) /\ Len(Tail(s)) = Len(s) - 1
  OBVIOUS
<1>3. \A k \in 1 .. Len(s) - 1 : Tail(s)[k] = s[k + 1]
  OBVIOUS
<1>4. DOMAIN Tail(s) = 1 .. Len(s) - 1
  BY <1>1, <1>2
<1>5. Head(s) = s[1] /\ s[1] \in S
  BY <1>1
<1> QED
  BY <1>1, <1>2, <1>3, <1>4, <1>5

LEMMA Longer ==
  ASSUME NEW S, NEW s \in Seq(S), NEW x \in S
  PROVE  /\ Append(s, x) \in Seq(S) /\ Append(s, x) # <<>>
         /\ s # <<>> => Head(Append(s, x)) = Head(s)
         /\ \A k \in DOMAIN Append(s, x) :
              \/ k \in DOMAIN s /\ Append(s, x)[k] = s[k]
              \/ k = Len(s) + 1 /\ Append(s, x)[k] = x
         /\ \A k \in DOMAIN s : k \in DOMAIN Append(s, x)
                                /\ Append(s, x)[k] = s[k]
         /\ Len(s) + 1 \in DOMAIN Append(s, x)
         /\ Append(s, x)[Len(s) + 1] = x
<1> DEFINE t == Append(s, x)
<1>1. /\ t \in Seq(S) /\ Len(t) = Len(s) + 1 /\ Len(s) \in Nat
      /\ DOMAIN s = 1 .. Len(s) /\ DOMAIN t = 1 .. Len(t)
  OBVIOUS
<1>2. /\ t[Len(s) + 1] = x
      /\ \A k \in 1 .. Len(s) : t[k] = s[k]
  OBVIOUS
<1>3. s # <<>> => Head(t) = Head(s)
  <2>1. ASSUME s # <<>> PROVE Len(s) > 0
    BY <2>1
  <2>2. Head(t) = t[1] /\ (s # <<>> => Head(s) = s[1])
    BY <1>1
  <2> QED
    BY <1>1, <1>2, <2>1, <2>2
<1>4. t # <<>>
  BY <1>1
<1> QED
  BY <1>1, <1>2, <1>3, <1>4

LEMMA CallsKept ==
  ASSUME Calls, UNCHANGED endpoint, Known' = Known,
         \A p \in Procs : proc[p] = "calling" => proc'[p] = "calling",
         TypeOK
  PROVE  Calls'
<1>1. \A k \in DOMAIN endpoint : endpoint[k].id \in Procs
  BY Elements DEF Call
<1> QED
  BY <1>1 DEF Calls

LEMMA ServingKept ==
  ASSUME Serving, UNCHANGED <<endpoint, server, table>>
  PROVE  Serving'
BY DEF Serving, InUse, Known

LEMMA NotServing ==
  ASSUME server'.at \in {"recv", "drain"}
  PROVE  Serving'
BY DEF Serving

LEMMA PendingsKept ==
  ASSUME Pendings, TypeOK,
         \A r \in Regs : reg'[r].pending # None =>
           reg'[r].pending = reg[r].pending,
         \A p \in Procs : proc[p] = "faulting" => proc'[p] = "faulting"
  PROVE  Pendings'
<1>1. \A r \in Regs : reg[r].pending # None => reg[r].pending.proc \in Procs
  BY DEF TypeOK
<1> QED
  BY <1>1 DEF Pendings

LEMMA BoundKept ==
  ASSUME Bound, TypeOK,
         \A w \in Windows : win'[w].view # None => win'[w].view = win[w].view,
         \A r \in Regs : reg'[r].win = reg[r].win
                         /\ reg'[r].client = reg[r].client
  PROVE  Bound'
BY DEF Bound, TypeOK

LEMMA PanicKeeps ==
  ASSUME SInv, Panic, incidents' \subseteq Incidents
  PROVE  SInv'
<1> USE DEF Panic
<1>1. TypeOK'
  BY DEF SInv, TypeOK, Known
<1>2. Calls' /\ Serving' /\ Pendings' /\ Bound'
  BY CallsKept, ServingKept, PendingsKept, BoundKept DEF SInv, Known
<1> QED
  BY <1>1, <1>2 DEF SInv

LEMMA SameKeeps ==
  ASSUME SInv, UNCHANGED vars
  PROVE  SInv'
<1> USE DEF vars
<1>1. TypeOK'
  BY DEF SInv, TypeOK, Known
<1>2. Calls' /\ Serving' /\ Pendings' /\ Bound'
  BY CallsKept, ServingKept, PendingsKept, BoundKept DEF SInv, Known
<1> QED
  BY <1>1, <1>2 DEF SInv

(* Steps of the clients that neither call nor fault.                       *)
LEMMA WindowsKeep ==
  ASSUME SInv, NEW p \in Procs, WindowCreate(p) \/ WindowDestroy(p)
  PROVE  SInv'
<1>1. CASE WindowDestroy(p) /\ Panic
  BY <1>1, PanicKeeps DEF WindowDestroy, Note, Incidents, SInv, TypeOK
<1>2. CASE ~Panic
  <2>1. PICK w \in Windows :
          /\ win' = [win EXCEPT ![w].owner = p]
             \/ win' = [win EXCEPT ![w] = NoWin]
          /\ UNCHANGED <<reg, proc, endpoint, ring, signalled, server, table,
                         panicked, incidents>>
    BY <1>2 DEF WindowCreate, WindowDestroy
  <2>2. win' \in [Windows -> [owner : Procs \cup {None},
                             view : Regs \cup {None}]]
    <3>1. win \in [Windows -> [owner : Procs \cup {None},
                              view : Regs \cup {None}]]
      BY DEF SInv, TypeOK
    <3> QED
      BY <2>1, <3>1 DEF NoWin
  <2>3. TypeOK'
    BY <2>1, <2>2 DEF SInv, TypeOK, Known
  <2>4. Calls' /\ Serving' /\ Pendings'
    BY <2>1, CallsKept, ServingKept, PendingsKept DEF SInv, Known
  <2>5. Bound'
    <3>1. \A v \in Windows : win'[v].view # None => win'[v].view = win[v].view
      <4>1. win \in [Windows -> [owner : Procs \cup {None},
                                view : Regs \cup {None}]]
        BY DEF SInv, TypeOK
      <4>2. CASE win' = [win EXCEPT ![w].owner = p]
        BY <4>1, <4>2
      <4>3. CASE win' = [win EXCEPT ![w] = NoWin]
        BY <4>1, <4>3 DEF NoWin
      <4> QED
        BY <2>1, <4>2, <4>3
    <3> QED
      BY <2>1, <3>1 DEF SInv, Bound
  <2> QED
    BY <2>3, <2>4, <2>5 DEF SInv
<1>3. CASE WindowCreate(p) /\ Panic
  BY <1>3, PanicKeeps DEF WindowCreate, SInv, TypeOK
<1> QED
  BY <1>1, <1>2, <1>3

LEMMA SendKeeps ==
  ASSUME SInv, NEW p \in Procs, CallServer(p)
  PROVE  SInv'
<1>1. PICK m \in Call :
        /\ m.id = p
        /\ m.op = "open" <=> p \notin Known
        /\ m.op = "view" => m.win \in Windows /\ m.arg \in ViewArgs
        /\ proc[p] = "running"
        /\ proc' = [proc EXCEPT ![p] = "calling"]
        /\ endpoint' = Append(endpoint, m)
  <2> DEFINE call(op, w, a, h) ==
               [id |-> p, op |-> op, win |-> w, arg |-> a, hndl |-> h]
  <2>1. CASE p \notin Known
    <3>1. call("open", None, None, 0) \in Call
      BY Zero DEF Call
    <3> QED
      BY <2>1, <3>1 DEF CallServer, Send
  <2>2. CASE p \in Known /\ Send(p, "close", None, None, 0)
    <3>1. call("close", None, None, 0) \in Call
      BY Zero DEF Call
    <3> QED
      BY <2>2, <3>1 DEF Send
  <2>3. ASSUME p \in Known, NEW w \in Windows, NEW a \in ViewArgs,
               Send(p, "view", w, a, 0)
        PROVE  \E m \in Call :
                 /\ m.id = p
                 /\ m.op = "open" <=> p \notin Known
                 /\ m.op = "view" => m.win \in Windows /\ m.arg \in ViewArgs
                 /\ proc[p] = "running"
                 /\ proc' = [proc EXCEPT ![p] = "calling"]
                 /\ endpoint' = Append(endpoint, m)
    <3>1. call("view", w, a, 0) \in Call
      BY Zero DEF Call
    <3> QED
      BY <2>3, <3>1 DEF Send
  <2>4. ASSUME p \in Known, NEW h \in Handle, Send(p, "unview", None, None, h)
        PROVE  \E m \in Call :
                 /\ m.id = p
                 /\ m.op = "open" <=> p \notin Known
                 /\ m.op = "view" => m.win \in Windows /\ m.arg \in ViewArgs
                 /\ proc[p] = "running"
                 /\ proc' = [proc EXCEPT ![p] = "calling"]
                 /\ endpoint' = Append(endpoint, m)
    <3>1. call("unview", None, None, h) \in Call
      BY DEF Call
    <3> QED
      BY <2>4, <3>1 DEF Send
  <2> QED
    BY <2>1, <2>2, <2>3, <2>4 DEF CallServer
<1>2. UNCHANGED <<win, reg, ring, signalled, server, table, panicked,
                  incidents>>
  BY DEF CallServer
<1>3. /\ endpoint \in Seq(Call)
      /\ proc \in [Procs -> {"running", "calling", "faulting", "stopped"}]
  BY TypeFacts DEF SInv
<1>4. TypeOK'
  <2>1. endpoint' \in Seq(Call)
    BY <1>1, <1>3
  <2>2. proc' \in [Procs -> {"running", "calling", "faulting", "stopped"}]
    BY <1>1, <1>3
  <2> QED
    BY <1>2, <2>1, <2>2 DEF SInv, TypeOK, Known, Call
<1>5. Calls'
  <2>1. \A k \in DOMAIN endpoint : endpoint[k].id # p
    BY <1>1 DEF SInv, Calls
  <2>2. \A k \in DOMAIN endpoint' :
          \/ k \in DOMAIN endpoint /\ endpoint'[k] = endpoint[k]
          \/ k = Len(endpoint) + 1 /\ endpoint'[k] = m
    BY <1>1, <1>3, Longer
  <2>3. \A q \in Procs : q # p => proc'[q] = proc[q]
    BY <1>1, <1>3
  <2>4. proc'[p] = "calling"
    BY <1>1, <1>3
  <2>5. \A k \in DOMAIN endpoint : endpoint[k] \in Call
    BY <1>3
  <2>6. Known' = Known
    BY <1>2 DEF Known
  <2>7. ASSUME NEW k \in DOMAIN endpoint'
        PROVE  /\ proc'[endpoint'[k].id] = "calling"
               /\ endpoint'[k].op = "open" <=> endpoint'[k].id \notin Known'
               /\ endpoint'[k].op = "view" =>
                    /\ endpoint'[k].win \in Windows
                    /\ endpoint'[k].arg \in ViewArgs
    <3>1. CASE k \in DOMAIN endpoint /\ endpoint'[k] = endpoint[k]
      BY <2>1, <2>3, <2>5, <2>6, <3>1 DEF SInv, Calls, Call
    <3>2. CASE endpoint'[k] = m
      BY <1>1, <2>4, <2>6, <3>2
    <3> QED
      BY <2>2, <3>1, <3>2
  <2>8. \A j, k \in DOMAIN endpoint' :
          endpoint'[j].id = endpoint'[k].id => j = k
    BY <1>1, <2>1, <2>2 DEF SInv, Calls
  <2> QED
    BY <2>7, <2>8 DEF Calls
<1>6. Serving'
  <2>1. endpoint # <<>> => endpoint' # <<>> /\ Head(endpoint') = Head(endpoint)
    BY <1>1, <1>3, Longer
  <2> QED
    BY <1>2, <2>1 DEF SInv, Serving, InUse, Known
<1>7. Pendings'
  <2>1. \A q \in Procs : proc[q] = "faulting" => proc'[q] = "faulting"
    BY <1>1, <1>3
  <2> QED
    BY <1>2, <2>1, PendingsKept DEF SInv
<1>8. Bound'
  BY <1>2, BoundKept DEF SInv
<1> QED
  BY <1>4, <1>5, <1>6, <1>7, <1>8 DEF SInv

LEMMA FaultForwardsKeeps ==
  ASSUME SInv, NEW p \in Procs, FaultForwards(p)
  PROVE  SInv'
<1>1. PICK w \in Windows, i \in Page :
        /\ proc[p] = "running"
        /\ win[w].view # None
        /\ LET r == win[w].view IN
           IF Len(ring) = NtfnCapacity
           THEN Panic
           ELSE /\ ring' = Append(ring, [id |-> reg[r].client,
                                         ref |-> reg[r].ref, page |-> i])
                /\ signalled' = TRUE
                /\ reg' = [reg EXCEPT ![r].pending = [proc |-> p, page |-> i]]
                /\ proc' = [proc EXCEPT ![p] = "faulting"]
                /\ UNCHANGED <<win, endpoint, server, table, panicked>>
        /\ UNCHANGED incidents
  BY DEF FaultForwards
<1>2. CASE Len(ring) = NtfnCapacity
  BY <1>1, <1>2, PanicKeeps DEF SInv, TypeOK
<1>3. CASE Len(ring) # NtfnCapacity
  <2> DEFINE r == win[w].view
             m == [id |-> reg[r].client, ref |-> reg[r].ref, page |-> i]
  <2>1. r \in Regs
    BY <1>1 DEF SInv, TypeOK
  <2>2. /\ ring' = Append(ring, m)
        /\ reg' = [reg EXCEPT ![r].pending = [proc |-> p, page |-> i]]
        /\ proc' = [proc EXCEPT ![p] = "faulting"]
        /\ signalled' = TRUE
        /\ UNCHANGED <<win, endpoint, server, table, panicked, incidents>>
    BY <1>1, <1>3
  <2> HIDE DEF r
  <2>3. /\ ring \in Seq(Message) /\ reg \in [Regs -> Record]
        /\ proc \in [Procs -> {"running", "calling", "faulting", "stopped"}]
    BY TypeFacts DEF SInv
  <2>4. m \in Message
    BY <1>1, <2>1, <2>3, FaultForwardingAssumption
       DEF r, SInv, Bound, Message, Record
  <2>5. TypeOK'
    <3>1. ring' \in Seq(Message)
      BY <2>2, <2>3, <2>4
    <3>2. reg' \in [Regs -> Record]
      <4>1. [proc |-> p, page |-> i] \in [proc : Procs, page : Page]
        OBVIOUS
      <4>2. reg' = [reg EXCEPT ![r] = [reg[r] EXCEPT
                                         !.pending = [proc |-> p, page |-> i]]]
        BY <2>1, <2>2, <2>3
      <4>3. [reg[r] EXCEPT !.pending = [proc |-> p, page |-> i]] \in Record
        BY <2>1, <2>3, <4>1 DEF Record
      <4> QED
        BY <2>1, <2>3, <4>2, <4>3
    <3>3. proc' \in [Procs -> {"running", "calling", "faulting", "stopped"}]
      BY <2>2, <2>3
    <3> QED
      BY <2>2, <3>1, <3>2, <3>3 DEF SInv, TypeOK, Known, Record, Message
  <2>6. /\ \A q \in Procs : q # p => proc'[q] = proc[q]
        /\ proc'[p] = "faulting"
    BY <2>2, <2>3
  <2>7. Calls' /\ Serving'
    BY <1>1, <2>2, <2>6, CallsKept, ServingKept DEF SInv, Known
  <2>8. Pendings'
    <3>1. /\ \A s \in Regs : s # r => reg'[s] = reg[s]
          /\ reg'[r].pending.proc = p
      BY <2>1, <2>2, <2>3 DEF Record
    <3>2. \A s \in Regs : reg[s].pending # None =>
            /\ reg[s].pending.proc # p
            /\ reg[s].pending.proc \in Procs
      BY <1>1, <2>3 DEF SInv, Pendings, Record
    <3> QED
      BY <2>1, <2>6, <3>1, <3>2 DEF SInv, Pendings
  <2>9. Bound'
    <3>1. \A s \in Regs : reg'[s].win = reg[s].win
                          /\ reg'[s].client = reg[s].client
      BY <2>1, <2>2, <2>3 DEF Record
    <3> QED
      BY <2>2, <3>1, BoundKept DEF SInv
  <2> QED
    BY <2>5, <2>7, <2>8, <2>9 DEF SInv
<1> QED
  BY <1>2, <1>3

LEMMA FaultRemapsKeeps ==
  ASSUME SInv, NEW p \in Procs, FaultRemaps(p)
  PROVE  SInv'
<1>1. PICK w \in Windows, i \in Page :
        /\ win[w].view # None
        /\ reg' = [reg EXCEPT ![win[w].view].seen[i] =
                     reg[win[w].view].pages[i]]
        /\ UNCHANGED <<win, proc, endpoint, ring, signalled, server, table,
                       panicked, incidents>>
  BY DEF FaultRemaps
<1> DEFINE r == win[w].view
<1>2. r \in Regs /\ reg \in [Regs -> Record]
  BY <1>1, TypeFacts DEF SInv, TypeOK
<1> HIDE DEF r
<1>3. reg' = [reg EXCEPT ![r].seen[i] = reg[r].pages[i]]
  BY <1>1 DEF r
<1>4. reg' \in [Regs -> Record]
  <2>1. reg[r] \in Record /\ reg[r].seen \in OptPages
        /\ reg[r].pages \in OptPages
    BY <1>2 DEF Record
  <2>2. [reg[r].seen EXCEPT ![i] = reg[r].pages[i]] \in OptPages
    BY <2>1 DEF OptPages
  <2>3. [reg[r] EXCEPT !.seen[i] = reg[r].pages[i]] \in Record
    BY <2>1, <2>2 DEF Record
  <2>4. reg' = [reg EXCEPT ![r] = [reg[r] EXCEPT !.seen[i] = reg[r].pages[i]]]
    BY <1>2, <1>3
  <2> QED
    BY <1>2, <2>3, <2>4
<1>5. \A s \in Regs : /\ reg'[s].win = reg[s].win
                      /\ reg'[s].client = reg[s].client
                      /\ reg'[s].pending = reg[s].pending
  BY <1>2, <1>3 DEF Record
<1>6. TypeOK'
  BY <1>1, <1>4 DEF SInv, TypeOK, Known, Record
<1>7. Calls' /\ Serving'
  BY <1>1, CallsKept, ServingKept DEF SInv, Known
<1>8. Pendings'
  BY <1>1, <1>5, PendingsKept DEF SInv
<1>9. Bound'
  BY <1>1, <1>5, BoundKept DEF SInv
<1> QED
  BY <1>6, <1>7, <1>8, <1>9 DEF SInv

LEMMA FaultUnansweredKeeps ==
  ASSUME SInv, NEW p \in Procs, FaultUnanswered(p)
  PROVE  SInv'
<1>1. /\ proc[p] = "running"
      /\ proc' = [proc EXCEPT ![p] = "stopped"]
      /\ UNCHANGED <<win, reg, endpoint, ring, signalled, server, table,
                     panicked, incidents>>
  BY DEF FaultUnanswered
<1>2. proc \in [Procs -> {"running", "calling", "faulting", "stopped"}]
  BY TypeFacts DEF SInv
<1>3. \A q \in Procs : q # p => proc'[q] = proc[q]
  BY <1>1, <1>2
<1>4. proc' \in [Procs -> {"running", "calling", "faulting", "stopped"}]
  BY <1>1, <1>2
<1>5. TypeOK'
  BY <1>1, <1>4 DEF SInv, TypeOK, Known
<1>6. Calls' /\ Serving' /\ Pendings' /\ Bound'
  BY <1>1, <1>3, CallsKept, ServingKept, PendingsKept, BoundKept
     DEF SInv, Known
<1> QED
  BY <1>5, <1>6 DEF SInv

LEMMA CallerFacts ==
  ASSUME SInv, endpoint # <<>>
  PROVE  /\ Head(endpoint) \in Call /\ Caller \in Procs
         /\ proc[Caller] = "calling"
         /\ Head(endpoint).op = "open" <=> Caller \notin Known
         /\ Head(endpoint).op = "view" =>
              Head(endpoint).win \in Windows /\ Head(endpoint).arg \in ViewArgs
<1>1. endpoint \in Seq(Call)
  BY TypeFacts DEF SInv
<1>2. 1 \in DOMAIN endpoint /\ Head(endpoint) = endpoint[1]
      /\ endpoint[1] \in Call
  BY <1>1, Rest
<1> QED
  BY <1>2 DEF SInv, Calls, Caller, Call

LEMMA ReplyKeeps ==
  ASSUME SInv, endpoint # <<>>, Reply,
         \A c \in Procs : c # Caller => (c \in Known' <=> c \in Known)
  PROVE  /\ endpoint' \in Seq(Call) /\ server' = Idle
         /\ proc' \in [Procs -> {"running", "calling", "faulting", "stopped"}]
         /\ proc'[Caller] = "running"
         /\ \A q \in Procs : q # Caller => proc'[q] = proc[q]
         /\ \A q \in Procs : proc[q] = "faulting" => proc'[q] = "faulting"
         /\ Calls' /\ Serving'
<1>1. /\ endpoint \in Seq(Call) /\ endpoint' = Tail(endpoint)
      /\ proc \in [Procs -> {"running", "calling", "faulting", "stopped"}]
      /\ server' = Idle /\ proc' = [proc EXCEPT ![Caller] = "running"]
  BY TypeFacts DEF SInv, Reply
<1>2. Caller \in Procs /\ proc[Caller] = "calling"
  BY CallerFacts
<1>3. /\ endpoint' \in Seq(Call)
      /\ proc' \in [Procs -> {"running", "calling", "faulting", "stopped"}]
      /\ proc'[Caller] = "running"
      /\ \A q \in Procs : q # Caller => proc'[q] = proc[q]
  BY <1>1, <1>2, Rest
<1>4. /\ 1 \in DOMAIN endpoint /\ Caller = endpoint[1].id
      /\ \A k \in DOMAIN endpoint' :
           /\ k + 1 \in DOMAIN endpoint /\ k + 1 # 1
           /\ endpoint'[k] = endpoint[k + 1]
  BY <1>1, Rest DEF Caller
<1>5. \A k \in DOMAIN endpoint' :
        /\ endpoint'[k].id \in Procs /\ endpoint'[k].id # Caller
  BY <1>1, <1>4, Elements DEF SInv, Calls, Call
<1>6. \A k \in DOMAIN endpoint' :
        /\ proc'[endpoint'[k].id] = "calling"
        /\ endpoint'[k].op = "open" <=> endpoint'[k].id \notin Known'
        /\ endpoint'[k].op = "view" =>
             endpoint'[k].win \in Windows /\ endpoint'[k].arg \in ViewArgs
  BY <1>3, <1>4, <1>5 DEF SInv, Calls
<1>7. \A j, k \in DOMAIN endpoint' :
        endpoint'[j].id = endpoint'[k].id => j = k
  <2>1. \A k \in DOMAIN endpoint' : k \in Int
    BY <1>3
  <2>2. \A j, k \in DOMAIN endpoint' :
          endpoint'[j].id = endpoint'[k].id => j + 1 = k + 1
    BY <1>4 DEF SInv, Calls
  <2> QED
    BY <2>1, <2>2
<1>8. Serving'
  BY <1>1, Blanks, NotServing
<1> QED
  BY <1>1, <1>2, <1>3, <1>6, <1>7, <1>8 DEF Calls

LEMMA OpenKeeps ==
  ASSUME SInv, OpenArrives
  PROVE  SInv'
<1>1. /\ endpoint # <<>> /\ Reply
      /\ table' = [c \in Known \cup {Caller} |->
                     IF c = Caller THEN Empty ELSE table[c]]
      /\ UNCHANGED <<win, reg, ring, signalled, panicked, incidents>>
  BY DEF OpenArrives, Receives
<1>2. Caller \in Procs /\ Known' = Known \cup {Caller}
  BY <1>1, CallerFacts DEF Known
<1>3. TypeOK'
  <2>1. table' \in [Known' -> [Handle -> Entry]]
    BY <1>1, <1>2, Blanks, TypeFacts DEF SInv
  <2>2. /\ endpoint' \in Seq(Call) /\ server' \in Step
        /\ proc' \in [Procs -> {"running", "calling", "faulting", "stopped"}]
    BY <1>1, <1>2, ReplyKeeps, Blanks
  <2>3. Known' \subseteq Procs
    BY <1>2, TypeFacts DEF SInv
  <2> QED
    BY <1>1, <2>1, <2>2, <2>3 DEF SInv, TypeOK, Call, Step, Entry
<1>4. Calls' /\ Serving'
  BY <1>1, <1>2, ReplyKeeps
<1>5. Pendings' /\ Bound'
  BY <1>1, <1>2, ReplyKeeps, PendingsKept, BoundKept DEF SInv
<1> QED
  BY <1>3, <1>4, <1>5 DEF SInv

LEMMA CloseKeeps ==
  ASSUME SInv, CloseArrives
  PROVE  SInv'
<1>1. /\ endpoint # <<>> /\ Reply
      /\ table' = [c \in Known \ {Caller} |-> table[c]]
      /\ incidents' \subseteq Incidents
      /\ UNCHANGED <<win, reg, ring, signalled, panicked>>
  BY DEF CloseArrives, Receives, Note, SInv, TypeOK, Incidents
<1>2. Caller \in Procs /\ Known' = Known \ {Caller}
  BY <1>1, CallerFacts DEF Known
<1>3. TypeOK'
  <2>1. table' \in [Known' -> [Handle -> Entry]]
    BY <1>1, <1>2, TypeFacts DEF SInv
  <2>2. /\ endpoint' \in Seq(Call) /\ server' \in Step
        /\ proc' \in [Procs -> {"running", "calling", "faulting", "stopped"}]
    BY <1>1, <1>2, ReplyKeeps, Blanks
  <2>3. Known' \subseteq Procs
    BY <1>2, TypeFacts DEF SInv
  <2> QED
    BY <1>1, <2>1, <2>2, <2>3 DEF SInv, TypeOK, Call, Step, Entry
<1>4. Calls' /\ Serving'
  BY <1>1, <1>2, ReplyKeeps
<1>5. Pendings' /\ Bound'
  BY <1>1, <1>2, ReplyKeeps, PendingsKept, BoundKept DEF SInv
<1> QED
  BY <1>3, <1>4, <1>5 DEF SInv

(* A call that is answered later.                                          *)
LEMMA BeginKeeps ==
  ASSUME SInv, endpoint # <<>>, NEW step \in {"register", "deregister"},
         NEW h \in Handle, Begin(step, h),
         step = "register" =>
           Head(endpoint).op = "view" /\ table[Caller][h] = None,
         step = "deregister" =>
           Head(endpoint).op = "unview" /\ table[Caller][h] # None,
         UNCHANGED <<win, reg, proc, endpoint, ring, signalled, table,
                     panicked, incidents>>
  PROVE  SInv'
<1>1. /\ Caller \in Procs /\ Head(endpoint) \in Call /\ Caller \in Known
      /\ step = "register" => Head(endpoint).win \in Windows
                              /\ Head(endpoint).arg \in ViewArgs
  BY CallerFacts
<1>2. server' = [at |-> step, id |-> Caller, hndl |-> h,
                 win |-> Head(endpoint).win, arg |-> Head(endpoint).arg,
                 page |-> 0]
  BY DEF Begin
<1>3. server' \in Step
  BY <1>1, <1>2, Zero DEF Call, Step
<1>4. TypeOK'
  BY <1>3 DEF SInv, TypeOK, Known, Step
<1>5. Serving'
  BY <1>1, <1>2 DEF Serving, InUse, Known, Caller
<1>6. Calls' /\ Pendings' /\ Bound'
  BY CallsKept, PendingsKept, BoundKept DEF SInv, Known
<1> QED
  BY <1>4, <1>5, <1>6 DEF SInv

LEMMA ViewKeeps ==
  ASSUME SInv, ViewArrives
  PROVE  SInv'
<1>1. CASE \E h \in 0 .. MaxHandles : FreeHandle(Caller, h)
  <2>1. PICK h \in 0 .. MaxHandles :
          FreeHandle(Caller, h) /\ Begin("register", h)
    BY <1>1 DEF ViewArrives
  <2>2. /\ endpoint # <<>> /\ Head(endpoint).op = "view"
        /\ UNCHANGED <<win, reg, proc, endpoint, ring, signalled, table,
                       panicked, incidents>>
    BY <1>1 DEF ViewArrives, Receives
  <2> QED
    BY <2>1, <2>2, BeginKeeps DEF FreeHandle
<1>2. CASE ~(\E h \in 0 .. MaxHandles : FreeHandle(Caller, h))
  <2>1. /\ endpoint # <<>> /\ Reply
        /\ UNCHANGED <<win, reg, ring, signalled, table, panicked, incidents>>
    BY <1>2 DEF ViewArrives, Receives
  <2>2. Known' = Known
    BY <2>1 DEF Known
  <2>3. TypeOK'
    BY <2>1, <2>2, ReplyKeeps, Blanks DEF SInv, TypeOK, Call, Step
  <2>4. Calls' /\ Serving' /\ Pendings' /\ Bound'
    BY <2>1, <2>2, ReplyKeeps, PendingsKept, BoundKept DEF SInv
  <2> QED
    BY <2>3, <2>4 DEF SInv
<1> QED
  BY <1>1, <1>2

LEMMA UnviewKeeps ==
  ASSUME SInv, UnviewArrives
  PROVE  SInv'
<1>1. /\ endpoint # <<>> /\ Head(endpoint).op = "unview"
      /\ IF table[Caller][Head(endpoint).hndl] = None
         THEN Panic /\ Note({"no_view"})
         ELSE /\ Begin("deregister", Head(endpoint).hndl)
              /\ UNCHANGED <<win, reg, proc, endpoint, ring, signalled, table,
                             panicked, incidents>>
  BY DEF UnviewArrives, Receives
<1>2. Head(endpoint).hndl \in Handle
  BY <1>1, CallerFacts DEF Call
<1>3. CASE table[Caller][Head(endpoint).hndl] = None
  BY <1>1, <1>3, PanicKeeps DEF Note, Incidents, SInv, TypeOK
<1>4. CASE table[Caller][Head(endpoint).hndl] # None
  BY <1>1, <1>2, <1>4, BeginKeeps
<1> QED
  BY <1>3, <1>4

(* What a registration is for its view.                                    *)
NewReg(w, c, h) == [NoReg EXCEPT !.win = w, !.client = c, !.ref = h]

LEMMA NewRegs ==
  ASSUME NEW w \in Windows, NEW c \in Procs, NEW h \in Handle
  PROVE  /\ NewReg(w, c, h) \in Record
         /\ NewReg(w, c, h).win = w /\ NewReg(w, c, h).client = c
         /\ NewReg(w, c, h).ref = h /\ NewReg(w, c, h).pending = None
         /\ NewReg(w, c, h).pages = Blank /\ NewReg(w, c, h).seen = Blank
BY Blanks DEF NewReg, NoReg, Record

(* A registration: the window's, the view's and the server's side of it.   *)
Registers(r) ==
  LET w == server.win
      c == server.id
  IN /\ reg[r] = NoReg /\ \A v \in Windows : win[v].view # r
     /\ win[w].owner # None
     /\ reg' = [reg EXCEPT ![r] = NewReg(w, c, server.hndl)]
     /\ win' = [win EXCEPT ![w].view = r]
     /\ table' = [table EXCEPT ![c][server.hndl] =
                    [reg |-> r, arg |-> server.arg]]

LEMMA RegisterCases ==
  ASSUME Register
  PROVE  /\ server.at = "register" /\ Reply
         /\ UNCHANGED <<ring, signalled, panicked>>
         /\ \/ UNCHANGED <<win, reg, table, incidents>>
            \/ /\ \E r \in Regs : Registers(r)
               /\ Note((IF win[server.win].owner # server.id THEN {"lent"}
                        ELSE {}) \cup
                       (IF win[server.win].view # None THEN {"rebound"}
                        ELSE {}))
BY DEF Register, Registers, NewReg

(* The server's step is for the caller at the head of the endpoint.        *)
LEMMA ServedFacts ==
  ASSUME SInv, server.at \in {"register", "deregister"}
  PROVE  /\ endpoint # <<>> /\ Caller = server.id
         /\ server.id \in Known /\ server.id \in Procs
         /\ server.hndl \in Handle /\ proc[server.id] = "calling"
<1>1. /\ endpoint # <<>> /\ Caller = server.id /\ server.id \in Known
  BY DEF SInv, Serving, Caller
<1> QED
  BY <1>1, CallerFacts DEF SInv, TypeOK

LEMMA RegistersFacts ==
  ASSUME SInv, server.at = "register", NEW r \in Regs, Registers(r)
  PROVE  /\ server.win \in Windows
         /\ reg' \in [Regs -> Record]
         /\ reg'[r] = NewReg(server.win, server.id, server.hndl)
         /\ \A s \in Regs : s # r => reg'[s] = reg[s]
         /\ win' \in [Windows -> [owner : Procs \cup {None},
                                 view : Regs \cup {None}]]
         /\ win'[server.win].view = r
         /\ win'[server.win].owner = win[server.win].owner
         /\ \A v \in Windows : v # server.win => win'[v] = win[v]
         /\ Known' = Known
         /\ table' \in [Known -> [Handle -> Entry]]
         /\ table'[server.id][server.hndl] = [reg |-> r, arg |-> server.arg]
         /\ \A c \in Known, h \in Handle :
              c # server.id \/ h # server.hndl => table'[c][h] = table[c][h]
<1>1. /\ server.id \in Known /\ server.id \in Procs /\ server.hndl \in Handle
      /\ server.win \in Windows /\ server.arg \in ViewArgs
  BY ServedFacts DEF SInv, Serving
<1> DEFINE w == server.win
           c == server.id
           h == server.hndl
           e == [reg |-> r, arg |-> server.arg]
           n == NewReg(w, c, h)
<1>2. /\ reg' = [reg EXCEPT ![r] = n]
      /\ win' = [win EXCEPT ![w].view = r]
      /\ table' = [table EXCEPT ![c][h] = e]
  BY DEF Registers
<1>3. e \in Entry /\ n \in Record
  BY <1>1, NewRegs DEF Entry
<1>4. /\ win \in [Windows -> [owner : Procs \cup {None},
                             view : Regs \cup {None}]]
      /\ reg \in [Regs -> Record]
      /\ table \in [Known -> [Handle -> Entry]]
  BY TypeFacts DEF SInv
<1>5. w \in Windows /\ c \in Known /\ h \in Handle
  BY <1>1
<1> HIDE DEF w, c, h, e, n
<1>6. /\ reg' \in [Regs -> Record] /\ reg'[r] = n
      /\ \A s \in Regs : s # r => reg'[s] = reg[s]
  BY <1>2, <1>3, <1>4
<1>7. /\ win' \in [Windows -> [owner : Procs \cup {None},
                              view : Regs \cup {None}]]
      /\ win'[w].view = r /\ win'[w].owner = win[w].owner
      /\ \A v \in Windows : v # w => win'[v] = win[v]
  BY <1>2, <1>4, <1>5
<1>8. /\ DOMAIN table' = Known
      /\ table' \in [Known -> [Handle -> Entry]]
      /\ table'[c][h] = e
      /\ \A d \in Known, g \in Handle :
           d # c \/ g # h => table'[d][g] = table[d][g]
  BY <1>2, <1>3, <1>4, <1>5
<1>9. Known' = Known
  BY <1>8 DEF Known
<1> QED
  BY <1>1, <1>6, <1>7, <1>8, <1>9 DEF w, c, h, e, n

LEMMA RegisterKeeps ==
  ASSUME SInv, Register
  PROVE  SInv'
<1>1. /\ server.at = "register" /\ Reply
      /\ UNCHANGED <<ring, signalled, panicked>>
  BY RegisterCases
<1>2. /\ endpoint # <<>> /\ server.id \in Procs
      /\ incidents' \subseteq Incidents
  BY <1>1, ServedFacts, RegisterCases DEF Note, Incidents, SInv, TypeOK
<1>3. CASE UNCHANGED <<win, reg, table, incidents>>
  <2>1. Known' = Known
    BY <1>3 DEF Known
  <2>2. TypeOK'
    BY <1>1, <1>2, <1>3, <2>1, ReplyKeeps, Blanks DEF SInv, TypeOK, Call, Step
  <2>3. Calls' /\ Serving' /\ Pendings' /\ Bound'
    BY <1>1, <1>2, <1>3, <2>1, ReplyKeeps, PendingsKept, BoundKept DEF SInv
  <2> QED
    BY <2>2, <2>3 DEF SInv
<1>4. ASSUME NEW r \in Regs, Registers(r)
      PROVE  SInv'
  <2> DEFINE n == NewReg(server.win, server.id, server.hndl)
  <2>1. /\ server.hndl \in Handle /\ server.win \in Windows
        /\ Caller = server.id
    BY <1>1, <1>4, ServedFacts, RegistersFacts
  <2>2. /\ reg'[r] = n /\ \A s \in Regs : s # r => reg'[s] = reg[s]
        /\ win'[server.win].view = r
        /\ \A v \in Windows : v # server.win => win'[v] = win[v]
        /\ Known' = Known
    BY <1>1, <1>4, RegistersFacts
  <2>3. /\ n.win = server.win /\ n.client = server.id /\ n.pending = None
    BY <1>2, <2>1, NewRegs
  <2> HIDE DEF n
  <2>4. /\ endpoint' \in Seq(Call) /\ server' \in Step
        /\ proc' \in [Procs -> {"running", "calling", "faulting", "stopped"}]
        /\ \A p \in Procs : proc[p] = "faulting" => proc'[p] = "faulting"
        /\ Calls' /\ Serving'
    BY <1>1, <1>2, <2>1, <2>2, ReplyKeeps, Blanks
  <2>5. TypeOK'
    BY <1>1, <1>2, <1>4, <2>4, RegistersFacts
       DEF SInv, TypeOK, Call, Record, Entry, Step
  <2>6. Pendings'
    BY <2>2, <2>3, <2>4, PendingsKept DEF SInv
  <2>7. Bound'
    <3>1. server.id # None
      BY <1>2, FaultForwardingAssumption
    <3>2. \A v \in Windows : win[v].view # r
      BY <1>4 DEF Registers
    <3>3. \A v \in Windows : win[v].view \in Regs \cup {None}
      BY DEF SInv, TypeOK
    <3> QED
      BY <2>1, <2>2, <2>3, <3>1, <3>2, <3>3 DEF SInv, Bound
  <2> QED
    BY <2>4, <2>5, <2>6, <2>7 DEF SInv
<1> QED
  BY <1>3, <1>4, RegisterCases

LEMMA DeregisterFacts ==
  ASSUME SInv, Deregister
  PROVE  LET c == server.id
             h == server.hndl
             r == table[c][h].reg
         IN /\ endpoint # <<>> /\ Reply /\ Caller = c
            /\ c \in Known /\ c \in Procs /\ h \in Handle /\ r \in Regs
            /\ table[c][h] # None /\ proc[c] = "calling"
            /\ reg' \in [Regs -> Record] /\ reg'[r] = NoReg
            /\ \A s \in Regs : s # r => reg'[s] = reg[s]
            /\ win' \in [Windows -> [owner : Procs \cup {None},
                                    view : Regs \cup {None}]]
            /\ \A w \in Windows :
                 /\ win'[w].owner = win[w].owner
                 /\ win'[w].view = IF w = reg[r].win THEN None
                                   ELSE win[w].view
            /\ Known' = Known
            /\ table' \in [Known -> [Handle -> Entry]]
            /\ table'[c][h] = None
            /\ \A d \in Known, g \in Handle :
                 d # c \/ g # h => table'[d][g] = table[d][g]
            /\ UNCHANGED <<ring, signalled, panicked, incidents>>
<1> DEFINE c == server.id
           h == server.hndl
           r == table[c][h].reg
<1>1. server.at = "deregister"
  BY DEF Deregister
<1>2. /\ endpoint # <<>> /\ Caller = c /\ c \in Known /\ c \in Procs
      /\ h \in Handle /\ proc[c] = "calling"
  BY <1>1, ServedFacts
<1>3. table[c][h] # None
  BY <1>1 DEF SInv, Serving, InUse
<1>4. /\ win \in [Windows -> [owner : Procs \cup {None},
                             view : Regs \cup {None}]]
      /\ reg \in [Regs -> Record]
      /\ table \in [Known -> [Handle -> Entry]]
  BY TypeFacts DEF SInv
<1>5. r \in Regs
  <2>1. table[c][h] \in Entry
    BY <1>2, <1>4
  <2> QED
    BY <1>3, <2>1 DEF Entry
<1>6. /\ win' = [win EXCEPT ![reg[r].win].view = None]
      /\ reg' = [reg EXCEPT ![r] = NoReg]
      /\ table' = [table EXCEPT ![c][h] = None]
      /\ Reply
      /\ UNCHANGED <<ring, signalled, panicked, incidents>>
  BY DEF Deregister, Unbind
<1> HIDE DEF c, h, r
<1>7. /\ reg' \in [Regs -> Record] /\ reg'[r] = NoReg
      /\ \A s \in Regs : s # r => reg'[s] = reg[s]
  BY <1>4, <1>5, <1>6, Blanks
<1>8. /\ win' \in [Windows -> [owner : Procs \cup {None},
                              view : Regs \cup {None}]]
      /\ \A w \in Windows :
           /\ win'[w].owner = win[w].owner
           /\ win'[w].view = IF w = reg[r].win THEN None ELSE win[w].view
  BY <1>4, <1>6
<1>9. /\ DOMAIN table' = Known
      /\ table' \in [Known -> [Handle -> Entry]]
      /\ table'[c][h] = None
      /\ \A d \in Known, g \in Handle :
           d # c \/ g # h => table'[d][g] = table[d][g]
  BY <1>2, <1>4, <1>6 DEF Entry
<1> QED
  BY <1>2, <1>3, <1>5, <1>6, <1>7, <1>8, <1>9 DEF c, h, r, Known

LEMMA DeregisterKeeps ==
  ASSUME SInv, Deregister
  PROVE  SInv'
<1> DEFINE r == table[server.id][server.hndl].reg
<1>1. TypeOK'
  <2>1. /\ endpoint' \in Seq(Call) /\ server' \in Step
        /\ proc' \in [Procs -> {"running", "calling", "faulting", "stopped"}]
    BY DeregisterFacts, ReplyKeeps, Blanks
  <2> QED
    BY <2>1, DeregisterFacts DEF SInv, TypeOK, Call, Record, Entry, Step
<1>2. /\ Calls' /\ Serving'
      /\ \A p \in Procs : proc[p] = "faulting" => proc'[p] = "faulting"
  BY DeregisterFacts, ReplyKeeps
<1>3. /\ r \in Regs /\ reg'[r] = NoReg
      /\ \A s \in Regs : s # r => reg'[s] = reg[s]
      /\ \A w \in Windows :
           win'[w].view = IF w = reg[r].win THEN None ELSE win[w].view
  BY DeregisterFacts
<1> HIDE DEF r
<1>4. Pendings'
  BY <1>2, <1>3, Blanks, PendingsKept DEF SInv
<1>5. Bound'
  <2>1. NoReg.win = None
    BY DEF NoReg
  <2>2. \A w \in Windows : win[w].view \in Regs \cup {None}
    BY DEF SInv, TypeOK
  <2> QED
    BY <1>3, <2>1, <2>2 DEF SInv, Bound
<1> QED
  BY <1>1, <1>2, <1>4, <1>5 DEF SInv

LEMMA NotifiedKeeps ==
  ASSUME SInv, Notified
  PROVE  SInv'
<1>1. /\ server' = [Idle EXCEPT !.at = "drain"] /\ signalled' = FALSE
      /\ UNCHANGED <<win, reg, proc, endpoint, ring, table, panicked,
                     incidents>>
  BY DEF Notified
<1>2. server' \in Step /\ server'.at = "drain"
  BY <1>1, Blanks DEF Idle, Step
<1>3. TypeOK'
  BY <1>1, <1>2 DEF SInv, TypeOK, Known, Step
<1>4. Calls' /\ Serving' /\ Pendings' /\ Bound'
  BY <1>1, <1>2, CallsKept, NotServing, PendingsKept, BoundKept
     DEF SInv, Known
<1> QED
  BY <1>3, <1>4 DEF SInv

(* What the server takes from the ring.                                    *)
Taken(m) == [Idle EXCEPT !.at = "map", !.id = m.id, !.hndl = m.ref,
                         !.page = m.page]

LEMMA TakenSteps ==
  ASSUME NEW m \in Message
  PROVE  /\ Taken(m) \in Step /\ Taken(m).at = "map" /\ Taken(m).id = m.id
         /\ Taken(m).hndl = m.ref /\ Taken(m).page = m.page
BY Blanks DEF Taken, Message, Step, Idle

LEMMA DrainCases ==
  ASSUME Drain
  PROVE  LET m == Head(ring)
             a == table[m.id][m.ref].arg
         IN /\ server.at = "drain"
            /\ \/ /\ ring = <<>> /\ server' = Idle
                  /\ UNCHANGED <<win, reg, proc, endpoint, ring, signalled,
                                 table, panicked, incidents>>
               \/ /\ ring # <<>> /\ ~InUse(m.id, m.ref)
                  /\ Panic /\ UNCHANGED incidents
               \/ /\ ring # <<>> /\ Panic
                  /\ Before(a, m.page) \/ Behind(a, m.page)
                  /\ Note(IF InView(a, m.page) THEN {} ELSE {"outside"})
               \/ /\ ring # <<>> /\ InUse(m.id, m.ref)
                  /\ Note(IF InView(a, m.page) THEN {} ELSE {"outside"})
                  /\ ring' = Tail(ring) /\ server' = Taken(m)
                  /\ UNCHANGED <<win, reg, proc, endpoint, signalled, table,
                                 panicked>>
BY Zenon DEF Drain, InUse, Taken

LEMMA DrainKeeps ==
  ASSUME SInv, Drain
  PROVE  SInv'
<1> DEFINE m == Head(ring)
<1>1. incidents' \subseteq Incidents
  BY DrainCases DEF Note, Incidents, SInv, TypeOK
<1>2. CASE Panic
  BY <1>1, <1>2, PanicKeeps
<1>3. CASE /\ ring = <<>> /\ server' = Idle
           /\ UNCHANGED <<win, reg, proc, endpoint, ring, signalled, table,
                          panicked, incidents>>
  <2>1. TypeOK'
    BY <1>3, Blanks DEF SInv, TypeOK, Known, Step
  <2>2. Calls' /\ Serving' /\ Pendings' /\ Bound'
    BY <1>3, Blanks, CallsKept, NotServing, PendingsKept, BoundKept
       DEF SInv, Known
  <2> QED
    BY <2>1, <2>2 DEF SInv
<1>4. CASE /\ ring # <<>> /\ InUse(m.id, m.ref)
           /\ ring' = Tail(ring) /\ server' = Taken(m)
           /\ UNCHANGED <<win, reg, proc, endpoint, signalled, table, panicked>>
  <2>1. m \in Message /\ ring' \in Seq(Message)
    <3>1. ring \in Seq(Message)
      BY TypeFacts DEF SInv
    <3> QED
      BY <1>4, <3>1, Rest
  <2>2. /\ server' \in Step /\ server'.at = "map" /\ server'.id = m.id
        /\ server'.hndl = m.ref
    BY <1>4, <2>1, TakenSteps
  <2>3. TypeOK'
    BY <1>1, <1>4, <2>1, <2>2 DEF SInv, TypeOK, Known, Step, Message
  <2>4. Serving'
    BY <1>4, <2>2 DEF Serving, InUse, Known
  <2>5. Calls' /\ Pendings' /\ Bound'
    BY <1>4, CallsKept, PendingsKept, BoundKept DEF SInv, Known
  <2> QED
    BY <2>3, <2>4, <2>5 DEF SInv
<1> QED
  BY <1>2, <1>3, <1>4, DrainCases

(* A page that is supplied.                                                *)
LEMMA PageMapFacts ==
  ASSUME SInv, PageMap
  PROVE  LET v == table[server.id][server.hndl]
             r == v.reg
             f == reg[r].pending
             i == server.page
             c == Content(v.arg, i)
         IN /\ server.id \in Known /\ server.hndl \in Handle
            /\ v \in [reg : Regs, arg : ViewArgs] /\ r \in Regs /\ i \in Page
            /\ server.at = "map" /\ UNCHANGED incidents
            /\ \/ reg[r].pages[i] # None /\ Panic
               \/ /\ reg[r].pages[i] = None
                  /\ reg' \in [Regs -> Record]
                  /\ \A s \in Regs : s # r => reg'[s] = reg[s]
                  /\ reg'[r].win = reg[r].win
                  /\ reg'[r].client = reg[r].client
                  /\ reg'[r].ref = reg[r].ref
                  /\ reg'[r].pages = [reg[r].pages EXCEPT ![i] = c]
                  /\ reg'[r].seen = IF f = None THEN reg[r].seen
                                    ELSE [reg[r].seen EXCEPT ![f.page] = c]
                  /\ reg'[r].pending = None
                  /\ proc' = IF f = None THEN proc
                             ELSE [proc EXCEPT ![f.proc] = "running"]
                  /\ server' = [Idle EXCEPT !.at = "drain"]
                  /\ UNCHANGED <<win, endpoint, ring, signalled, table,
                                 panicked>>
<1> DEFINE v == table[server.id][server.hndl]
           r == v.reg
           f == reg[r].pending
           i == server.page
           c == Content(v.arg, i)
           seen == IF f = None THEN reg[r].seen
                   ELSE [reg[r].seen EXCEPT ![f.page] = c]
<1>1. /\ server.at = "map" /\ UNCHANGED incidents
      /\ IF reg[r].pages[i] # None
         THEN Panic
         ELSE /\ reg' = [reg EXCEPT
                           ![r].pages[i] = c,
                           ![r].seen = IF f = None THEN @
                                       ELSE [@ EXCEPT ![f.page] = c],
                           ![r].pending = Answer(@)]
              /\ proc' = IF f = None THEN proc
                         ELSE [proc EXCEPT ![f.proc] = "running"]
              /\ server' = [Idle EXCEPT !.at = "drain"]
              /\ UNCHANGED <<win, endpoint, ring, signalled, table, panicked>>
  BY DEF PageMap
<1>2. server.id \in Known /\ server.hndl \in Handle /\ i \in Page /\ v # None
  BY <1>1 DEF SInv, Serving, InUse, TypeOK
<1>3. v \in [reg : Regs, arg : ViewArgs]
  <2>1. table \in [Known -> [Handle -> Entry]]
    BY TypeFacts DEF SInv
  <2> QED
    BY <1>2, <2>1 DEF Entry
<1>4. r \in Regs /\ v.arg \in ViewArgs
  BY <1>3
<1>5. c \in Int
  BY <1>2, <1>4, FaultForwardingAssumption DEF Content, Page
<1>6. reg \in [Regs -> Record] /\ reg[r] \in Record
  BY <1>4, TypeFacts DEF SInv
<1>7. CASE reg[r].pages[i] = None
  <2>1. reg' = [reg EXCEPT ![r] = [reg[r] EXCEPT !.pages[i] = c,
                                     !.seen = seen, !.pending = None]]
    <3>1. Answer(f) = None
      BY DEF Answer
    <3>2. reg' = [reg EXCEPT
                    ![r].pages[i] = c,
                    ![r].seen = IF f = None THEN @
                                ELSE [@ EXCEPT ![f.page] = c],
                    ![r].pending = Answer(@)]
      BY <1>1, <1>7
    <3> HIDE DEF c, i
    <3> QED
      BY <1>4, <1>6, <3>1, <3>2 DEF Record
  <2>2. seen \in OptPages /\ [reg[r].pages EXCEPT ![i] = c] \in OptPages
    <3>1. reg[r].seen \in OptPages /\ reg[r].pages \in OptPages
      BY <1>6 DEF Record
    <3> HIDE DEF c, i, f
    <3> QED
      BY <1>2, <1>5, <3>1 DEF OptPages
  <2> DEFINE n == [reg[r] EXCEPT !.pages[i] = c, !.seen = seen,
                                 !.pending = None]
  <2>3. /\ n \in Record /\ n.win = reg[r].win /\ n.client = reg[r].client
        /\ n.ref = reg[r].ref /\ n.seen = seen /\ n.pending = None
        /\ n.pages = [reg[r].pages EXCEPT ![i] = c]
    <3> HIDE DEF c, i, seen, r
    <3> QED
      BY <1>6, <2>2 DEF Record
  <2>4. /\ reg' \in [Regs -> Record] /\ reg'[r] = n
        /\ \A s \in Regs : s # r => reg'[s] = reg[s]
    <3> HIDE DEF n
    <3> QED
      BY <1>4, <1>6, <2>1, <2>3 DEF n
  <2> HIDE DEF n
  <2> QED
    BY <1>1, <1>2, <1>3, <1>4, <1>7, <2>3, <2>4
<1>8. CASE reg[r].pages[i] # None
  BY <1>1, <1>2, <1>3, <1>4, <1>8
<1> QED
  BY <1>7, <1>8

LEMMA PageMapKeeps ==
  ASSUME SInv, PageMap
  PROVE  SInv'
<1> DEFINE v == table[server.id][server.hndl]
           r == v.reg
           f == reg[r].pending
           i == server.page
<1>1. CASE Panic
  BY <1>1, PanicKeeps, PageMapFacts DEF SInv, TypeOK
<1>2. CASE ~Panic
  <2>1. /\ r \in Regs /\ reg' \in [Regs -> Record]
        /\ \A s \in Regs : s # r => reg'[s] = reg[s]
        /\ reg'[r].win = reg[r].win /\ reg'[r].client = reg[r].client
        /\ reg'[r].pending = None
        /\ proc' = IF f = None THEN proc
                   ELSE [proc EXCEPT ![f.proc] = "running"]
        /\ server' = [Idle EXCEPT !.at = "drain"]
        /\ UNCHANGED <<win, endpoint, ring, signalled, table, panicked,
                       incidents>>
    BY <1>2, PageMapFacts
  <2> HIDE DEF r
  <2>2. server' \in Step /\ server'.at = "drain"
    BY <2>1, Blanks DEF Idle, Step
  <2>3. /\ proc \in [Procs -> {"running", "calling", "faulting", "stopped"}]
        /\ reg \in [Regs -> Record]
    BY TypeFacts DEF SInv
  <2>4. proc' \in [Procs -> {"running", "calling", "faulting", "stopped"}]
    BY <2>1, <2>3
  <2>5. TypeOK'
    BY <2>1, <2>2, <2>4 DEF SInv, TypeOK, Known, Step, Record
  <2>6. f # None => f.proc \in Procs /\ proc[f.proc] = "faulting"
    BY <2>1, <2>3 DEF SInv, Pendings, Record
  <2>7. \A q \in Procs :
          proc'[q] = IF f # None /\ q = f.proc THEN "running" ELSE proc[q]
    BY <2>1, <2>3
  <2>8. Calls' /\ Serving'
    BY <2>1, <2>2, <2>6, <2>7, CallsKept, NotServing DEF SInv, Known
  <2>9. Pendings'
    <3>1. \A s \in Regs : reg'[s].pending # None =>
            /\ s # r /\ reg'[s].pending = reg[s].pending
            /\ reg[s].pending.proc \in Procs
      BY <2>1, <2>3 DEF Record
    <3>2. \A s \in Regs : reg'[s].pending # None =>
            ~(f # None /\ reg[s].pending.proc = f.proc)
      BY <2>1, <3>1 DEF SInv, Pendings
    <3> HIDE DEF f
    <3> QED
      BY <2>7, <3>1, <3>2 DEF SInv, Pendings
  <2>10. Bound'
    BY <2>1, BoundKept DEF SInv
  <2> QED
    BY <2>5, <2>8, <2>9, <2>10 DEF SInv
<1> QED
  BY <1>1, <1>2

LEMMA NextKeeps == SInv /\ [Next]_vars => SInv'
<1> SUFFICES ASSUME SInv, [Next]_vars PROVE SInv'
  OBVIOUS
<1>1. CASE UNCHANGED vars
  BY <1>1, SameKeeps
<1>2. CASE ClientNext
  BY <1>2, WindowsKeep, SendKeeps, FaultForwardsKeeps, FaultRemapsKeeps,
     FaultUnansweredKeeps DEF ClientNext
<1>3. CASE ServerNext
  BY <1>3, OpenKeeps, CloseKeeps, ViewKeeps, RegisterKeeps, UnviewKeeps,
     DeregisterKeeps, NotifiedKeeps, DrainKeeps, PageMapKeeps DEF ServerNext
<1> QED
  BY <1>1, <1>2, <1>3 DEF Next

-----------------------------------------------------------------------------
(***************************************************************************)
(* What holds until an incident.                                           *)
(***************************************************************************)
BoundEntry(c, h) ==
  LET r == table[c][h].reg IN
  /\ reg[r].client = c /\ reg[r].ref = h
  /\ reg[r].win \in Windows
  /\ win[reg[r].win].view = r /\ win[reg[r].win].owner = c

EntriesAreBound ==
  \A c \in Procs, h \in Handle : InUse(c, h) => BoundEntry(c, h)

HeldWindow(w) ==
  LET r == win[w].view IN
  /\ reg[r].win = w
  /\ InUse(reg[r].client, reg[r].ref)
  /\ table[reg[r].client][reg[r].ref].reg = r

WindowsAreHeld ==
  \A w \in Windows : win[w].view # None => HeldWindow(w)

PagesInPlace ==
  \A c \in Procs, h \in Handle : InUse(c, h) =>
    LET v == table[c][h] IN
    \A i \in Page :
      /\ reg[v.reg].pages[i] # None =>
           reg[v.reg].pages[i] = Content(v.arg, i)
      /\ reg[v.reg].seen[i] # None =>
           reg[v.reg].seen[i] = reg[v.reg].pages[i]

(* A message names a view that still waits for just that page.             *)
Owed(m) ==
  /\ InUse(m.id, m.ref)
  /\ LET r == table[m.id][m.ref].reg IN
     /\ reg[r].pending = [proc |-> m.id, page |-> m.page]
     /\ reg[r].pages[m.page] = None

Sent(m) == (\E k \in DOMAIN ring : ring[k] = m) \/ m \in InHand

(* The messages on their way are for the threads that wait, one for each.  *)
Promised ==
  /\ \A m \in Message : Sent(m) => Owed(m)
  /\ \A j, k \in DOMAIN ring : ring[j].id = ring[k].id => j = k
  /\ \A k \in DOMAIN ring, m \in InHand : ring[k].id # m.id
  /\ \A p \in Procs : proc[p] = "faulting" =>
       \/ \E k \in DOMAIN ring : ring[k].id = p
       \/ \E m \in InHand : m.id = p

OInv == /\ ~panicked /\ EntriesAreBound /\ WindowsAreHeld /\ PagesInPlace
        /\ Promised

(* The ring must take one fault of each process.                           *)
RingHoldsAll == IsFiniteSet(Procs) /\ Cardinality(Procs) <= NtfnCapacity

LEMMA InUseFacts ==
  ASSUME SInv, NEW c \in Procs, NEW h \in Handle, InUse(c, h)
  PROVE  /\ c \in Known /\ table[c][h] # None
         /\ table[c][h] \in [reg : Regs, arg : ViewArgs]
         /\ table[c][h].reg \in Regs /\ table[c][h].arg \in ViewArgs
<1>1. table \in [Known -> [Handle -> Entry]]
  BY TypeFacts DEF SInv
<1>2. c \in Known /\ table[c][h] # None
  BY DEF InUse
<1>3. table[c][h] \in Entry
  BY <1>1, <1>2
<1>4. table[c][h] \in [reg : Regs, arg : ViewArgs]
  BY <1>2, <1>3 DEF Entry
<1> QED
  BY <1>2, <1>4

LEMMA InHandFacts ==
  ASSUME SInv
  PROVE  /\ server.at # "map" => InHand = {}
         /\ \A m \in InHand :
              /\ server.at = "map" /\ m \in Message
              /\ m = [id |-> server.id, ref |-> server.hndl,
                      page |-> server.page]
<1>1. server \in Step
  BY TypeFacts DEF SInv
<1>2. server.at = "map" => server.id \in Procs
  BY DEF SInv, Serving, InUse, TypeOK
<1> QED
  BY <1>1, <1>2 DEF InHand, Message, Step

(* Threads that messages name are waiting.                                 *)
LEMMA NamedWait ==
  ASSUME SInv, NEW m \in Message, Owed(m)
  PROVE  proc[m.id] = "faulting"
<1>1. /\ m.id \in Procs /\ m.ref \in Handle /\ InUse(m.id, m.ref)
      /\ reg[table[m.id][m.ref].reg].pending
           = [proc |-> m.id, page |-> m.page]
      /\ m.page \in Page
  BY DEF Message, Owed
<1>2. table[m.id][m.ref].reg \in Regs
  BY <1>1, InUseFacts
<1>3. [proc |-> m.id, page |-> m.page] # None
  BY <1>1, FaultForwardingAssumption DEF Page
<1> QED
  BY <1>1, <1>2, <1>3 DEF SInv, Pendings

LEMMA EntryFacts ==
  ASSUME OInv, NEW c \in Procs, NEW h \in Handle, InUse(c, h)
  PROVE  BoundEntry(c, h)
BY DEF OInv, EntriesAreBound

LEMMA WindowFacts ==
  ASSUME SInv, OInv, NEW w \in Windows, win[w].view # None
  PROVE  /\ HeldWindow(w)
         /\ win[w].view \in Regs
         /\ reg[win[w].view].client \in Procs
         /\ reg[win[w].view].ref \in Handle
<1> DEFINE r == win[w].view
<1>1. HeldWindow(w)
  BY DEF OInv, WindowsAreHeld
<1>2. r \in Regs
  BY DEF SInv, TypeOK
<1>3. InUse(reg[r].client, reg[r].ref)
  BY <1>1 DEF HeldWindow
<1> HIDE DEF r
<1>4. reg[r].client \in Procs /\ reg[r].ref \in Handle
  BY <1>2, <1>3 DEF SInv, TypeOK, InUse
<1> QED
  BY <1>1, <1>2, <1>4 DEF r

(* What a step leaves to an entry, to a window and to the pages.           *)
EntriesStay ==
  \A c \in Procs, h \in Handle :
    InUse(c, h)' => InUse(c, h) /\ table'[c][h] = table[c][h]

LinksStay ==
  \A r \in Regs : /\ reg'[r].win = reg[r].win
                  /\ reg'[r].client = reg[r].client
                  /\ reg'[r].ref = reg[r].ref

LEMMA SameTable ==
  ASSUME SInv, UNCHANGED table
  PROVE  /\ EntriesStay
         /\ \A c \in Procs, h \in Handle : InUse(c, h)' <=> InUse(c, h)
BY DEF EntriesStay, InUse, Known

LEMMA BoundStay ==
  ASSUME SInv, OInv, EntriesStay, LinksStay, UNCHANGED win
  PROVE  EntriesAreBound'
<1> SUFFICES ASSUME NEW c \in Procs, NEW h \in Handle, InUse(c, h)'
             PROVE  BoundEntry(c, h)'
  BY DEF EntriesAreBound
<1> DEFINE r == table[c][h].reg
<1>1. InUse(c, h) /\ table'[c][h].reg = r
  BY DEF EntriesStay
<1>2. r \in Regs /\ BoundEntry(c, h)
  BY <1>1, InUseFacts, EntryFacts
<1>3. /\ reg[r].client = c /\ reg[r].ref = h /\ reg[r].win \in Windows
      /\ win[reg[r].win].view = r /\ win[reg[r].win].owner = c
  BY <1>2 DEF BoundEntry
<1> HIDE DEF r
<1>4. /\ reg'[r].win = reg[r].win /\ reg'[r].client = reg[r].client
      /\ reg'[r].ref = reg[r].ref
  BY <1>2 DEF LinksStay
<1> QED
  BY <1>1, <1>3, <1>4 DEF BoundEntry

LEMMA HeldStay ==
  ASSUME SInv, OInv, LinksStay,
         \A w \in Windows : win'[w].view = win[w].view,
         \A c \in Procs, h \in Handle : InUse(c, h) =>
           InUse(c, h)' /\ table'[c][h].reg = table[c][h].reg
  PROVE  WindowsAreHeld'
<1> SUFFICES ASSUME NEW w \in Windows, win[w].view # None
             PROVE  HeldWindow(w)'
  BY DEF WindowsAreHeld
<1>1. PICK r \in Regs, c \in Procs, h \in Handle :
        r = win[w].view /\ c = reg[r].client /\ h = reg[r].ref
  BY WindowFacts
<1>2. reg[r].win = w /\ InUse(c, h) /\ table[c][h].reg = r
  BY <1>1, WindowFacts DEF HeldWindow
<1>3. InUse(c, h)' /\ table'[c][h].reg = r
  BY <1>2
<1>4. reg'[r].win = w /\ reg'[r].client = c /\ reg'[r].ref = h
  BY <1>1, <1>2 DEF LinksStay
<1>5. win'[w].view = r
  BY <1>1
<1> QED
  BY <1>3, <1>4, <1>5 DEF HeldWindow

LEMMA InPlaceStay ==
  ASSUME SInv, OInv, EntriesStay,
         \A r \in Regs : /\ reg'[r].pages = reg[r].pages
                         /\ reg'[r].seen = reg[r].seen
  PROVE  PagesInPlace'
<1> SUFFICES ASSUME NEW c \in Procs, NEW h \in Handle, InUse(c, h)',
                    NEW i \in Page
             PROVE  LET v == table'[c][h] IN
                    /\ reg'[v.reg].pages[i] # None =>
                         reg'[v.reg].pages[i] = Content(v.arg, i)
                    /\ reg'[v.reg].seen[i] # None =>
                         reg'[v.reg].seen[i] = reg'[v.reg].pages[i]
  BY DEF PagesInPlace
<1>1. InUse(c, h) /\ table'[c][h] = table[c][h]
  BY DEF EntriesStay
<1> DEFINE v == table[c][h]
<1>2. /\ reg[v.reg].pages[i] # None =>
           reg[v.reg].pages[i] = Content(v.arg, i)
      /\ reg[v.reg].seen[i] # None =>
           reg[v.reg].seen[i] = reg[v.reg].pages[i]
  BY <1>1 DEF OInv, PagesInPlace
<1>3. v.reg \in Regs
  BY <1>1, InUseFacts
<1> HIDE DEF v
<1>4. reg'[v.reg].pages = reg[v.reg].pages /\ reg'[v.reg].seen = reg[v.reg].seen
  BY <1>3
<1> QED
  BY <1>1, <1>2, <1>4 DEF v

(* A step that moves nothing between the records.                          *)
LEMMA SameEntries ==
  ASSUME SInv, OInv, UNCHANGED <<win, reg, ring, panicked>>,
         InHand' = InHand,
         \A c \in Procs, h \in Handle :
           /\ InUse(c, h)' <=> InUse(c, h)
           /\ InUse(c, h) => table'[c][h] = table[c][h],
         \A p \in Procs : proc'[p] = "faulting" => proc[p] = "faulting"
  PROVE  OInv'
<1>1. EntriesStay /\ LinksStay
  BY DEF EntriesStay, LinksStay
<1>2. EntriesAreBound'
  BY <1>1, BoundStay
<1>3. WindowsAreHeld' /\ PagesInPlace'
  BY <1>1, HeldStay, InPlaceStay
<1>4. ASSUME NEW m \in Message, Owed(m) PROVE Owed(m)'
  BY <1>4 DEF Owed, Message
<1>5. Promised'
  <2>1. \A m \in Message : Sent(m)' => Sent(m)
    BY DEF Sent
  <2>2. \A m \in Message : Sent(m)' => Owed(m)'
    BY <1>4, <2>1 DEF OInv, Promised
  <2> QED
    BY <2>2 DEF OInv, Promised
<1> QED
  BY <1>2, <1>3, <1>5 DEF OInv

LEMMA WindowsOrderly ==
  ASSUME SInv, OInv, Orderly', NEW p \in Procs,
         WindowCreate(p) \/ WindowDestroy(p)
  PROVE  OInv'
<1>1. PICK w \in Windows :
        /\ win[w].view = None
        /\ win' = [win EXCEPT ![w].owner = p]
           \/ win' = [win EXCEPT ![w] = NoWin]
        /\ UNCHANGED <<reg, proc, endpoint, ring, signalled, server, table,
                       panicked>>
  <2>1. CASE WindowCreate(p)
    <3>1. PICK w \in Windows :
            /\ win[w] = NoWin
            /\ win' = [win EXCEPT ![w].owner = p]
            /\ UNCHANGED <<reg, proc, endpoint, ring, signalled, server, table,
                           panicked>>
      BY <2>1 DEF WindowCreate
    <3>2. win[w].view = None
      BY <3>1 DEF NoWin
    <3> QED
      BY <3>1, <3>2
  <2>2. CASE WindowDestroy(p)
    BY <2>2 DEF WindowDestroy, Orderly, Note
  <2> QED
    BY <2>1, <2>2
<1>2. \A v \in Windows : /\ win'[v].view = win[v].view
                         /\ v # w => win'[v] = win[v]
  <2>1. win \in [Windows -> [owner : Procs \cup {None},
                            view : Regs \cup {None}]]
    BY DEF SInv, TypeOK
  <2>2. CASE win' = [win EXCEPT ![w].owner = p]
    BY <2>1, <2>2
  <2>3. CASE win' = [win EXCEPT ![w] = NoWin]
    BY <1>1, <2>1, <2>3 DEF NoWin
  <2> QED
    BY <1>1, <2>2, <2>3
<1>3. /\ EntriesStay /\ LinksStay
      /\ \A c \in Procs, h \in Handle : InUse(c, h)' <=> InUse(c, h)
  BY <1>1, SameTable DEF LinksStay
<1>4. EntriesAreBound'
  <2> SUFFICES ASSUME NEW c \in Procs, NEW h \in Handle, InUse(c, h)'
               PROVE  BoundEntry(c, h)'
    BY DEF EntriesAreBound
  <2>1. PICK r \in Regs : r = table[c][h].reg /\ r # None
    BY <1>3, InUseFacts, FaultForwardingAssumption
  <2>2. /\ reg[r].client = c /\ reg[r].ref = h /\ reg[r].win \in Windows
        /\ win[reg[r].win].view = r /\ win[reg[r].win].owner = c
    BY <1>3, <2>1, EntryFacts DEF BoundEntry
  <2>3. win'[reg[r].win] = win[reg[r].win]
    BY <1>1, <1>2, <2>1, <2>2
  <2> QED
    BY <1>1, <2>1, <2>2, <2>3 DEF BoundEntry
<1>5. WindowsAreHeld'
  BY <1>1, <1>2, <1>3, HeldStay
<1>6. PagesInPlace'
  BY <1>1, <1>3, InPlaceStay
<1>7. InHand' = InHand
  BY <1>1 DEF InHand
<1>8. \A m \in Message : (Sent(m)' <=> Sent(m)) /\ (Owed(m) => Owed(m)')
  BY <1>1, <1>3, <1>7 DEF Sent, Owed, Message
<1>9. Promised'
  BY <1>1, <1>7, <1>8 DEF OInv, Promised
<1> QED
  BY <1>1, <1>4, <1>5, <1>6, <1>9 DEF OInv

LEMMA SendOrderly ==
  ASSUME SInv, OInv, NEW p \in Procs, CallServer(p) \/ FaultUnanswered(p)
  PROVE  OInv'
<1>1. PICK s \in {"calling", "stopped"} :
        /\ proc' = [proc EXCEPT ![p] = s]
        /\ UNCHANGED <<win, reg, ring, signalled, server, table, panicked>>
  <2>1. CASE CallServer(p)
    BY <2>1 DEF CallServer, Send
  <2>2. CASE FaultUnanswered(p)
    BY <2>2 DEF FaultUnanswered
  <2> QED
    BY <2>1, <2>2
<1>2. proc \in [Procs -> {"running", "calling", "faulting", "stopped"}]
  BY TypeFacts DEF SInv
<1>3. \A q \in Procs : proc'[q] = "faulting" => proc[q] = "faulting"
  BY <1>1, <1>2
<1> QED
  BY <1>1, <1>3, SameEntries DEF InUse, Known, InHand

LEMMA FaultRemapsOrderly ==
  ASSUME SInv, OInv, NEW p \in Procs, FaultRemaps(p)
  PROVE  OInv'
<1>1. PICK w \in Windows, i \in Page :
        /\ win[w].view # None
        /\ reg' = [reg EXCEPT ![win[w].view].seen[i] =
                     reg[win[w].view].pages[i]]
        /\ UNCHANGED <<win, proc, endpoint, ring, signalled, server, table,
                       panicked, incidents>>
  BY DEF FaultRemaps
<1> DEFINE r == win[w].view
<1>2. r \in Regs /\ reg \in [Regs -> Record]
  BY <1>1, TypeFacts DEF SInv, TypeOK
<1> HIDE DEF r
<1>3. reg' = [reg EXCEPT ![r].seen[i] = reg[r].pages[i]]
  BY <1>1 DEF r
<1>4. /\ \A s \in Regs : /\ reg'[s].win = reg[s].win
                         /\ reg'[s].client = reg[s].client
                         /\ reg'[s].ref = reg[s].ref
                         /\ reg'[s].pages = reg[s].pages
                         /\ reg'[s].pending = reg[s].pending
                         /\ s # r => reg'[s].seen = reg[s].seen
      /\ reg'[r].seen = [reg[r].seen EXCEPT ![i] = reg[r].pages[i]]
  BY <1>2, <1>3 DEF Record
<1>5. /\ EntriesStay /\ LinksStay
      /\ \A c \in Procs, h \in Handle : InUse(c, h)' <=> InUse(c, h)
  BY <1>1, <1>4, SameTable DEF LinksStay
<1>6. EntriesAreBound' /\ WindowsAreHeld'
  BY <1>1, <1>5, BoundStay, HeldStay
<1>7. PagesInPlace'
  <2> SUFFICES ASSUME NEW c \in Procs, NEW h \in Handle, InUse(c, h)',
                      NEW j \in Page
               PROVE  LET v == table'[c][h] IN
                      /\ reg'[v.reg].pages[j] # None =>
                           reg'[v.reg].pages[j] = Content(v.arg, j)
                      /\ reg'[v.reg].seen[j] # None =>
                           reg'[v.reg].seen[j] = reg'[v.reg].pages[j]
    BY DEF PagesInPlace
  <2>1. PICK q \in Regs : /\ q = table[c][h].reg /\ InUse(c, h)
                          /\ table'[c][h] = table[c][h]
    BY <1>1, <1>5, InUseFacts
  <2>2. /\ reg[q].pages[j] # None =>
             reg[q].pages[j] = Content(table[c][h].arg, j)
        /\ reg[q].seen[j] # None => reg[q].seen[j] = reg[q].pages[j]
    BY <2>1 DEF OInv, PagesInPlace
  <2>3. reg'[q].pages = reg[q].pages
    BY <1>4, <2>1
  <2>4. reg'[q].seen[j] \in {reg[q].seen[j], reg[q].pages[j]}
    <3>1. reg[r].seen \in [Page -> Int \cup {None}]
      BY <1>2 DEF Record, OptPages
    <3> QED
      BY <1>4, <2>1, <3>1
  <2> QED
    <3>1. /\ reg'[q].pages[j] # None =>
               reg'[q].pages[j] = Content(table[c][h].arg, j)
          /\ reg'[q].seen[j] # None => reg'[q].seen[j] = reg'[q].pages[j]
      BY <2>2, <2>3, <2>4
    <3> QED
      BY <2>1, <3>1
<1>8. Promised'
  <2>1. ASSUME NEW m \in Message, Owed(m) PROVE Owed(m)'
    <3>1. PICK s \in Regs : s = table[m.id][m.ref].reg
      BY <2>1, InUseFacts DEF Owed, Message
    <3>2. /\ reg[s].pending = [proc |-> m.id, page |-> m.page]
          /\ reg[s].pages[m.page] = None /\ InUse(m.id, m.ref)
      BY <2>1, <3>1 DEF Owed
    <3>3. /\ reg'[s].pending = [proc |-> m.id, page |-> m.page]
          /\ reg'[s].pages[m.page] = None
      BY <1>4, <3>2
    <3>4. InUse(m.id, m.ref)' /\ table'[m.id][m.ref].reg = s
      BY <1>1, <1>5, <3>1, <3>2 DEF Message
    <3> QED
      BY <3>3, <3>4 DEF Owed
  <2>2. \A m \in Message : Sent(m)' => Sent(m)
    BY <1>1 DEF Sent, InHand
  <2>3. \A m \in Message : Sent(m)' => Owed(m)'
    BY <2>1, <2>2 DEF OInv, Promised
  <2> QED
    BY <1>1, <2>3 DEF OInv, Promised, InHand
<1> QED
  BY <1>1, <1>5, <1>6, <1>7, <1>8 DEF OInv

LEMMA UpTo == ASSUME NEW n \in Nat PROVE Cardinality(1 .. n) = n
<1>1. 1 \in Int /\ n \in Int
  OBVIOUS
<1>2. Cardinality(1 .. n) = IF 1 > n THEN 0 ELSE n - 1 + 1
  BY <1>1, FS_Interval, Zenon
<1> QED
  BY <1>2

(* While a thread runs, there is room for its fault.                       *)
LEMMA RingHasRoom ==
  ASSUME SInv, OInv, RingHoldsAll, NEW p \in Procs, proc[p] = "running"
  PROVE  Len(ring) < NtfnCapacity
<1> DEFINE n == Len(ring)
           f == [k \in 1 .. n |-> ring[k].id]
           T == Procs \ {p}
<1>1. n \in Nat /\ DOMAIN ring = 1 .. n
  BY TypeFacts DEF SInv
<1>2. \A k \in 1 .. n : ring[k] \in Message /\ Sent(ring[k])
  BY <1>1, Elements DEF SInv, Sent
<1>3. \A k \in 1 .. n : ring[k].id \in T
  <2> SUFFICES ASSUME NEW k \in 1 .. n
               PROVE  ring[k].id \in T
    OBVIOUS
  <2>1. ring[k] \in Message /\ Owed(ring[k])
    BY <1>2 DEF OInv, Promised
  <2>2. proc[ring[k].id] = "faulting"
    BY <2>1, NamedWait
  <2> QED
    BY <2>1, <2>2 DEF Message
<1>4. f \in Injection(1 .. n, T)
  <2>1. f \in [1 .. n -> T]
    BY <1>3
  <2>2. \A j, k \in 1 .. n : f[j] = f[k] => j = k
    BY <1>1 DEF OInv, Promised
  <2> HIDE DEF f
  <2> QED
    BY <2>1, <2>2 DEF Injection, IsInjective
<1>5. IsFiniteSet(T) /\ Cardinality(T) = Cardinality(Procs) - 1
  BY FS_RemoveElement DEF RingHoldsAll
<1>6. Cardinality(1 .. n) <= Cardinality(T)
  BY <1>4, <1>5, FS_Injection, Zenon
<1>7. Cardinality(1 .. n) = n
  BY <1>1, UpTo
<1>8. Cardinality(Procs) \in Nat /\ NtfnCapacity \in Nat
  BY FS_CardinalityType, FaultForwardingAssumption DEF RingHoldsAll
<1>9. Cardinality(Procs) <= NtfnCapacity
  BY DEF RingHoldsAll
<1> HIDE DEF n, f, T
<1>10. n < NtfnCapacity
  BY <1>1, <1>5, <1>6, <1>7, <1>8, <1>9
<1> QED
  BY <1>10 DEF n

LEMMA FaultForwardsOrderly ==
  ASSUME SInv, SInv', OInv, RingHoldsAll, NEW p \in Procs, FaultForwards(p)
  PROVE  OInv'
<1>1. PICK w \in Windows, i \in Page :
        /\ proc[p] = "running"
        /\ win[w].owner = p
        /\ win[w].view # None
        /\ LET r == win[w].view IN
           /\ reg[r].pages[i] = None
           /\ IF Len(ring) = NtfnCapacity
              THEN Panic
              ELSE /\ ring' = Append(ring, [id |-> reg[r].client,
                                            ref |-> reg[r].ref, page |-> i])
                   /\ reg' = [reg EXCEPT ![r].pending =
                                [proc |-> p, page |-> i]]
                   /\ proc' = [proc EXCEPT ![p] = "faulting"]
                   /\ UNCHANGED <<win, endpoint, server, table, panicked>>
  BY DEF FaultForwards
<1>2. Len(ring) # NtfnCapacity
  <2>1. Len(ring) < NtfnCapacity
    BY <1>1, RingHasRoom
  <2>2. Len(ring) \in Nat /\ NtfnCapacity \in Nat
    BY TypeFacts, FaultForwardingAssumption DEF SInv
  <2> QED
    BY <2>1, <2>2
<1> DEFINE r == win[w].view
           h == reg[r].ref
           m == [id |-> p, ref |-> h, page |-> i]
           f == [proc |-> p, page |-> i]
<1>3. /\ r \in Regs /\ h \in Handle /\ InUse(p, h)
      /\ reg[r].client = p /\ table[p][h].reg = r
  <2> HIDE DEF m, f
  <2>1. r \in Regs /\ reg[r].client \in Procs /\ h \in Handle /\ HeldWindow(w)
    BY <1>1, WindowFacts
  <2>2. /\ reg[r].win = w /\ InUse(reg[r].client, h)
        /\ table[reg[r].client][h].reg = r
    BY <2>1 DEF HeldWindow
  <2>3. BoundEntry(reg[r].client, h)
    BY <2>1, <2>2, EntryFacts
  <2> HIDE DEF h, r
  <2>4. win[w].owner = reg[r].client
    BY <2>2, <2>3 DEF BoundEntry
  <2> QED
    BY <1>1, <2>1, <2>2, <2>4
<1>4. /\ ring' = Append(ring, m)
      /\ reg' = [reg EXCEPT ![r].pending = f]
      /\ proc' = [proc EXCEPT ![p] = "faulting"]
      /\ reg[r].pages[i] = None
      /\ UNCHANGED <<win, endpoint, server, table, panicked>>
  BY <1>1, <1>2, <1>3
<1>5. /\ reg \in [Regs -> Record] /\ ring \in Seq(Message) /\ m \in Message
      /\ proc \in [Procs -> {"running", "calling", "faulting", "stopped"}]
  BY <1>3, TypeFacts DEF SInv, Message
<1> HIDE DEF r, h
<1>6. /\ reg'[r].pending = f
      /\ \A s \in Regs : /\ reg'[s].win = reg[s].win
                         /\ reg'[s].client = reg[s].client
                         /\ reg'[s].ref = reg[s].ref
                         /\ reg'[s].pages = reg[s].pages
                         /\ reg'[s].seen = reg[s].seen
                         /\ s # r => reg'[s].pending = reg[s].pending
  BY <1>3, <1>4, <1>5 DEF Record
<1>7. /\ \A q \in Procs : q # p => proc'[q] = proc[q]
      /\ proc[p] = "running"
  BY <1>1, <1>4, <1>5
<1>8. \A c \in Procs, g \in Handle :
        /\ InUse(c, g)' <=> InUse(c, g)
        /\ table'[c][g] = table[c][g]
        /\ InUse(c, g) => table[c][g].reg \in Regs
  BY <1>4, InUseFacts DEF InUse, Known
<1>9. EntriesStay /\ LinksStay
  BY <1>4, <1>6, SameTable DEF LinksStay
<1>10. EntriesAreBound' /\ WindowsAreHeld'
  BY <1>4, <1>8, <1>9, BoundStay, HeldStay
<1>11. PagesInPlace'
  BY <1>6, <1>9, InPlaceStay
<1>12. /\ \A k \in DOMAIN ring' : \/ k \in DOMAIN ring /\ ring'[k] = ring[k]
                                  \/ k = Len(ring) + 1 /\ ring'[k] = m
       /\ \A k \in DOMAIN ring : k \in DOMAIN ring' /\ ring'[k] = ring[k]
       /\ Len(ring) + 1 \in DOMAIN ring' /\ ring'[Len(ring) + 1] = m
  BY <1>4, <1>5, Longer
<1>13. InHand' = InHand
  BY <1>4 DEF InHand
<1>14. ASSUME NEW x \in Message, Sent(x)
       PROVE  x.id # p /\ Owed(x) /\ Owed(x)'
  <2>1. Owed(x) /\ proc[x.id] = "faulting"
    BY <1>14, NamedWait DEF OInv, Promised
  <2>2. x.id # p /\ x.id \in Procs /\ x.ref \in Handle
    BY <1>7, <2>1 DEF Message
  <2>3. PICK s \in Regs : s = table[x.id][x.ref].reg /\ InUse(x.id, x.ref)
    BY <2>1, <2>2, InUseFacts DEF Owed
  <2>4. reg[s].client = x.id
    BY <2>2, <2>3, EntryFacts DEF BoundEntry
  <2>5. s # r
    BY <1>3, <2>2, <2>4
  <2>6. /\ reg[s].pending = [proc |-> x.id, page |-> x.page]
        /\ reg[s].pages[x.page] = None
    BY <2>1, <2>3 DEF Owed
  <2>7. /\ reg'[s].pending = [proc |-> x.id, page |-> x.page]
        /\ reg'[s].pages[x.page] = None
    BY <1>6, <2>5, <2>6
  <2>8. InUse(x.id, x.ref)' /\ table'[x.id][x.ref].reg = s
    BY <1>8, <2>2, <2>3
  <2>9. Owed(x)'
    BY <2>7, <2>8 DEF Owed
  <2> QED
    BY <2>1, <2>2, <2>9
<1>15. ASSUME NEW x \in Message, Sent(x)'
       PROVE  Owed(x)'
  <2>1. CASE Sent(x)
    BY <1>14, <2>1
  <2>2. CASE x = m
    <3>1. x.id = p /\ x.ref = h /\ x.page = i
      BY <2>2
    <3>2. InUse(x.id, x.ref)' /\ table'[x.id][x.ref].reg = r
      BY <1>3, <1>8, <3>1
    <3>3. /\ reg'[r].pending = [proc |-> x.id, page |-> x.page]
          /\ reg'[r].pages[x.page] = None
      BY <1>3, <1>4, <1>6, <3>1
    <3> QED
      BY <3>2, <3>3 DEF Owed
  <2> QED
    BY <1>12, <1>13, <1>15, <2>1, <2>2 DEF Sent
<1>16. /\ \A k \in DOMAIN ring : ring[k].id # p
       /\ \A x \in InHand : x.id # p
  BY <1>14, Elements, InHandFacts DEF Sent, SInv
<1>17. Promised'
  <2>1. \A j, k \in DOMAIN ring' : ring'[j].id = ring'[k].id => j = k
    BY <1>12, <1>16 DEF OInv, Promised
  <2>2. \A k \in DOMAIN ring', x \in InHand' : ring'[k].id # x.id
    BY <1>12, <1>13, <1>16 DEF OInv, Promised
  <2>3. \A q \in Procs : proc'[q] = "faulting" =>
          \/ \E k \in DOMAIN ring' : ring'[k].id = q
          \/ \E x \in InHand' : x.id = q
    <3> SUFFICES ASSUME NEW q \in Procs, proc'[q] = "faulting"
                 PROVE  \/ \E k \in DOMAIN ring' : ring'[k].id = q
                        \/ \E x \in InHand' : x.id = q
      OBVIOUS
    <3>1. CASE q = p
      BY <1>12, <3>1
    <3>2. CASE q # p
      BY <1>7, <1>12, <1>13, <3>2 DEF OInv, Promised
    <3> QED
      BY <3>1, <3>2
  <2> QED
    BY <1>15, <2>1, <2>2, <2>3 DEF Promised
<1> QED
  BY <1>4, <1>9, <1>10, <1>11, <1>17 DEF OInv

(* Calls that come in and are answered at once, or begin.                  *)
LEMMA ArrivalsOrderly ==
  ASSUME SInv, OInv, Orderly',
         OpenArrives \/ CloseArrives \/ ViewArrives \/ UnviewArrives
  PROVE  OInv'
<1>1. server.at = "recv" /\ endpoint # <<>>
  BY DEF OpenArrives, CloseArrives, ViewArrives, UnviewArrives, Receives
<1>2. /\ Caller \in Procs /\ InHand = {}
      /\ Head(endpoint).op = "open" => Caller \notin Known
      /\ proc \in [Procs -> {"running", "calling", "faulting", "stopped"}]
  BY <1>1, CallerFacts, InHandFacts, TypeFacts DEF SInv
<1>3. ASSUME NEW step \in {"register", "deregister"}, NEW h, Begin(step, h)
      PROVE  InHand' = {}
  BY <1>3 DEF Begin, InHand
<1>4. ASSUME Reply
      PROVE  /\ InHand' = {}
             /\ \A p \in Procs : proc'[p] = "faulting" => proc[p] = "faulting"
  BY <1>2, <1>4, Blanks DEF Reply, InHand
<1>5. CASE OpenArrives
  <2>1. /\ Head(endpoint).op = "open" /\ Reply
        /\ table' = [c \in Known \cup {Caller} |->
                       IF c = Caller THEN Empty ELSE table[c]]
        /\ UNCHANGED <<win, reg, ring, panicked>>
    BY <1>5 DEF OpenArrives, Receives
  <2>2. \A c \in Procs, h \in Handle :
          /\ InUse(c, h)' <=> InUse(c, h)
          /\ InUse(c, h) => table'[c][h] = table[c][h]
    BY <1>2, <2>1, Blanks DEF InUse, Known
  <2> QED
    BY <1>2, <1>4, <2>1, <2>2, SameEntries
<1>6. CASE CloseArrives
  <2>1. /\ Reply
        /\ table' = [c \in Known \ {Caller} |-> table[c]]
        /\ UNCHANGED <<win, reg, ring, panicked>>
        /\ table[Caller] = Empty
    BY <1>6 DEF CloseArrives, Receives, Note, Orderly
  <2>2. \A c \in Procs, h \in Handle :
          /\ InUse(c, h)' <=> InUse(c, h)
          /\ InUse(c, h) => table'[c][h] = table[c][h]
    BY <1>2, <2>1, Blanks DEF InUse, Known
  <2> QED
    BY <1>2, <1>4, <2>1, <2>2, SameEntries
<1>7. CASE ViewArrives
  <2>1. /\ UNCHANGED <<win, reg, ring, table, panicked>>
        /\ Reply \/ (UNCHANGED proc /\ \E h : Begin("register", h))
    BY <1>7 DEF ViewArrives
  <2>2. /\ InHand' = {}
        /\ \A p \in Procs : proc'[p] = "faulting" => proc[p] = "faulting"
    BY <1>3, <1>4, <2>1
  <2> QED
    BY <1>2, <2>1, <2>2, SameEntries DEF InUse, Known
<1>8. CASE UnviewArrives
  <2>1. /\ UNCHANGED <<win, reg, ring, table, panicked, proc>>
        /\ \E h : Begin("deregister", h)
    BY <1>8 DEF UnviewArrives, Note, Orderly
  <2>2. InHand' = {}
    BY <1>3, <2>1
  <2> QED
    BY <1>2, <2>1, <2>2, SameEntries DEF InUse, Known
<1> QED
  BY <1>5, <1>6, <1>7, <1>8

LEMMA NotifiedOrderly ==
  ASSUME SInv, OInv, Notified
  PROVE  OInv'
<1>1. /\ server.at = "recv" /\ server' = [Idle EXCEPT !.at = "drain"]
      /\ UNCHANGED <<win, reg, proc, ring, table, panicked>>
  BY DEF Notified
<1>2. InHand = {} /\ InHand' = {}
  BY <1>1 DEF InHand, Idle
<1> QED
  BY <1>1, <1>2, SameEntries DEF InUse, Known

LEMMA RegisterOrderly ==
  ASSUME SInv, OInv, Orderly', Register
  PROVE  OInv'
<1>1. /\ server.at = "register" /\ Reply
      /\ UNCHANGED <<ring, signalled, panicked>>
      /\ endpoint # <<>> /\ Caller = server.id /\ Caller \in Procs
      /\ server.id \in Known /\ server.hndl \in Handle
  BY RegisterCases, ServedFacts
<1>2. /\ InHand = {} /\ InHand' = {}
      /\ \A p \in Procs : proc'[p] = "faulting" => proc[p] = "faulting"
  <2>1. proc \in [Procs -> {"running", "calling", "faulting", "stopped"}]
    BY TypeFacts DEF SInv
  <2> QED
    BY <1>1, <2>1, Blanks DEF InHand, Reply
<1>3. CASE UNCHANGED <<win, reg, table, incidents>>
  BY <1>1, <1>2, <1>3, SameEntries DEF InUse, Known
<1>4. ASSUME NEW r \in Regs, Registers(r),
             win[server.win].owner = server.id, win[server.win].view = None
      PROVE  OInv'
  <2> DEFINE w == server.win
             c == server.id
             h == server.hndl
             n == NewReg(w, c, h)
  <2>1. /\ w \in Windows /\ c \in Known /\ c \in Procs /\ h \in Handle
        /\ reg'[r] = n
        /\ \A s \in Regs : s # r => reg'[s] = reg[s]
        /\ win'[w].view = r /\ win'[w].owner = c
        /\ \A v \in Windows : v # w => win'[v] = win[v]
        /\ Known' = Known
        /\ table'[c][h] = [reg |-> r, arg |-> server.arg]
        /\ \A d \in Known, g \in Handle :
             d # c \/ g # h => table'[d][g] = table[d][g]
    BY <1>1, <1>4, RegistersFacts
  <2>2. /\ n.win = w /\ n.client = c /\ n.ref = h
        /\ n.pages = Blank /\ n.seen = Blank
    BY <2>1, NewRegs
  <2>3. /\ table[c][h] = None /\ server.arg \in ViewArgs
        /\ win[w].view = None /\ reg[r] = NoReg
        /\ \A v \in Windows : win[v].view # r
    BY <1>1, <1>4 DEF SInv, Serving, Registers
  <2>4. table'[c][h] # None
    BY <2>1, <2>3, FaultForwardingAssumption
  <2> HIDE DEF w, c, h, n
  <2>5. \A d \in Procs, g \in Handle :
          InUse(d, g)' <=> InUse(d, g) \/ (d = c /\ g = h)
    BY <2>1, <2>4 DEF InUse
  <2>6. ASSUME NEW d \in Procs, NEW g \in Handle, InUse(d, g)
        PROVE  /\ d # c \/ g # h
               /\ table'[d][g] = table[d][g]
               /\ table[d][g].reg \in Regs /\ table[d][g].reg # r
               /\ reg'[table[d][g].reg] = reg[table[d][g].reg]
               /\ reg[table[d][g].reg].win \in Windows
               /\ reg[table[d][g].reg].win # w
    <3>1. d \in Known /\ (d # c \/ g # h) /\ table'[d][g] = table[d][g]
      BY <2>1, <2>3, <2>6 DEF InUse
    <3>2. PICK s \in Regs : s = table[d][g].reg /\ s # None
      BY <2>6, InUseFacts, FaultForwardingAssumption
    <3>3. reg[s].win \in Windows /\ win[reg[s].win].view = s
      BY <2>6, <3>2, EntryFacts DEF BoundEntry
    <3>4. s # r /\ reg[s].win # w
      BY <2>3, <3>2, <3>3
    <3>5. reg'[s] = reg[s]
      BY <2>1, <3>2, <3>4
    <3> QED
      BY <3>1, <3>2, <3>3, <3>4, <3>5
  <2>7. EntriesAreBound'
    <3> SUFFICES ASSUME NEW d \in Procs, NEW g \in Handle, InUse(d, g)'
                 PROVE  BoundEntry(d, g)'
      BY DEF EntriesAreBound
    <3>1. CASE d = c /\ g = h
      <4>1. table'[d][g].reg = r
        BY <2>1, <3>1
      <4>2. /\ reg'[r].client = d /\ reg'[r].ref = g /\ reg'[r].win = w
            /\ win'[w].view = r /\ win'[w].owner = d
        BY <2>1, <2>2, <3>1
      <4> QED
        BY <2>1, <4>1, <4>2 DEF BoundEntry
    <3>2. CASE InUse(d, g)
      <4>1. PICK s \in Regs : s = table[d][g].reg /\ reg'[s] = reg[s]
        BY <2>6, <3>2
      <4>2. /\ reg[s].client = d /\ reg[s].ref = g /\ reg[s].win \in Windows
            /\ win[reg[s].win].view = s /\ win[reg[s].win].owner = d
        BY <3>2, <4>1, EntryFacts DEF BoundEntry
      <4>3. table'[d][g].reg = s /\ reg[s].win # w
        BY <2>6, <3>2, <4>1
      <4>4. win'[reg[s].win] = win[reg[s].win]
        BY <2>1, <4>2, <4>3
      <4> QED
        BY <4>1, <4>2, <4>3, <4>4 DEF BoundEntry
    <3> QED
      BY <2>5, <3>1, <3>2
  <2>8. WindowsAreHeld'
    <3> SUFFICES ASSUME NEW v \in Windows, win'[v].view # None
                 PROVE  LET s == win'[v].view IN
                        /\ reg'[s].win = v
                        /\ reg'[s].client \in Known'
                        /\ table'[reg'[s].client][reg'[s].ref] # None
                        /\ table'[reg'[s].client][reg'[s].ref].reg = s
      BY DEF WindowsAreHeld, HeldWindow, InUse, Known
    <3>1. CASE v = w
      <4>1. /\ win'[v].view = r /\ reg'[r].win = v
            /\ reg'[r].client = c /\ reg'[r].ref = h
        BY <2>1, <2>2, <3>1
      <4>2. c \in Known' /\ table'[c][h] # None /\ table'[c][h].reg = r
        BY <2>1, <2>4
      <4> QED
        BY <4>1, <4>2
    <3>2. CASE v # w
      <4> DEFINE s == win[v].view
                 d == reg[s].client
                 g == reg[s].ref
      <4>1. win'[v].view = s /\ s # None
        BY <2>1, <3>2
      <4>2. reg[s].win = v /\ InUse(d, g) /\ table[d][g].reg = s
        BY <4>1 DEF OInv, WindowsAreHeld, HeldWindow
      <4>3. d \in Procs /\ g \in Handle
        <5>1. s \in Regs
          BY <4>1 DEF SInv, TypeOK
        <5> QED
          BY <4>2, <5>1 DEF SInv, TypeOK, InUse
      <4> HIDE DEF s, d, g
      <4>4. /\ table'[d][g] = table[d][g] /\ reg'[s] = reg[s]
            /\ d \in Known' /\ table'[d][g] # None
        BY <2>1, <2>6, <4>2, <4>3 DEF InUse
      <4> QED
        BY <4>1, <4>2, <4>4 DEF d, g
    <3> QED
      BY <3>1, <3>2
  <2>9. PagesInPlace'
    <3> SUFFICES ASSUME NEW d \in Procs, NEW g \in Handle, InUse(d, g)',
                        NEW i \in Page
                 PROVE  LET v == table'[d][g] IN
                        /\ reg'[v.reg].pages[i] # None =>
                             reg'[v.reg].pages[i] = Content(v.arg, i)
                        /\ reg'[v.reg].seen[i] # None =>
                             reg'[v.reg].seen[i] = reg'[v.reg].pages[i]
      BY DEF PagesInPlace, Content
    <3>1. CASE d = c /\ g = h
      <4>1. table'[d][g].reg = r /\ reg'[r] = n
        BY <2>1, <3>1
      <4>2. n.pages[i] = None /\ n.seen[i] = None
        BY <2>2 DEF Blank
      <4> QED
        BY <4>1, <4>2
    <3>2. CASE InUse(d, g)
      <4>1. /\ table'[d][g] = table[d][g]
            /\ reg'[table[d][g].reg] = reg[table[d][g].reg]
        BY <2>6, <3>2
      <4> QED
        BY <3>2, <4>1 DEF OInv, PagesInPlace
    <3> QED
      BY <2>5, <3>1, <3>2
  <2>10. Promised'
    <3>1. ASSUME NEW m \in Message, Owed(m) PROVE Owed(m)'
      <4>1. InUse(m.id, m.ref) /\ m.id \in Procs /\ m.ref \in Handle
        BY <3>1 DEF Owed, Message
      <4>2. /\ InUse(m.id, m.ref)'
            /\ table'[m.id][m.ref] = table[m.id][m.ref]
            /\ reg'[table[m.id][m.ref].reg] = reg[table[m.id][m.ref].reg]
        BY <2>5, <2>6, <4>1
      <4> QED
        BY <3>1, <4>2 DEF Owed
    <3>2. \A m \in Message : Sent(m)' => Owed(m)'
      BY <1>1, <1>2, <3>1 DEF OInv, Promised, Sent
    <3> QED
      BY <1>1, <1>2, <3>2 DEF OInv, Promised
  <2> QED
    BY <1>1, <2>7, <2>8, <2>9, <2>10 DEF OInv
<1>5. CASE /\ \E r \in Regs : Registers(r)
           /\ Note((IF win[server.win].owner # server.id THEN {"lent"}
                    ELSE {}) \cup
                   (IF win[server.win].view # None THEN {"rebound"}
                    ELSE {}))
  <2>1. win[server.win].owner = server.id /\ win[server.win].view = None
    BY <1>5 DEF Note, Orderly
  <2> QED
    BY <1>4, <1>5, <2>1
<1> QED
  BY <1>3, <1>5, RegisterCases

LEMMA DeregisterOrderly ==
  ASSUME SInv, OInv, Deregister
  PROVE  OInv'
<1> DEFINE c == server.id
           h == server.hndl
           r == table[c][h].reg
           w == reg[r].win
<1>1. /\ endpoint # <<>> /\ Reply /\ Caller = c
      /\ c \in Known /\ c \in Procs /\ h \in Handle /\ r \in Regs
      /\ table[c][h] # None /\ proc[c] = "calling"
      /\ reg'[r] = NoReg
      /\ \A s \in Regs : s # r => reg'[s] = reg[s]
      /\ \A x \in Windows :
           /\ win'[x].owner = win[x].owner
           /\ win'[x].view = IF x = w THEN None ELSE win[x].view
      /\ Known' = Known
      /\ table'[c][h] = None
      /\ \A d \in Known, g \in Handle :
           d # c \/ g # h => table'[d][g] = table[d][g]
      /\ UNCHANGED <<ring, panicked>>
  BY DeregisterFacts
<1>2. /\ InHand = {} /\ InHand' = {}
      /\ \A p \in Procs : proc'[p] = "faulting" => proc[p] = "faulting"
  <2>1. proc \in [Procs -> {"running", "calling", "faulting", "stopped"}]
    BY TypeFacts DEF SInv
  <2>2. server.at = "deregister"
    BY DEF Deregister
  <2> QED
    BY <1>1, <2>1, <2>2, Blanks DEF InHand, Reply
<1>3. /\ InUse(c, h) /\ reg[r].client = c /\ reg[r].ref = h
      /\ w \in Windows /\ win[w].view = r
  <2>1. c \in Procs /\ h \in Handle /\ InUse(c, h)
    BY <1>1 DEF InUse
  <2>2. BoundEntry(c, h)
    BY <2>1, EntryFacts
  <2> HIDE DEF c, h
  <2> QED
    BY <2>1, <2>2 DEF BoundEntry
<1> HIDE DEF c, h, r, w
<1>4. \A d \in Procs, g \in Handle :
        InUse(d, g)' <=> InUse(d, g) /\ (d # c \/ g # h)
  BY <1>1 DEF InUse
<1>5. ASSUME NEW d \in Procs, NEW g \in Handle, InUse(d, g), d # c \/ g # h
      PROVE  /\ table'[d][g] = table[d][g]
             /\ reg'[table[d][g].reg] = reg[table[d][g].reg]
             /\ reg[table[d][g].reg].win \in Windows
             /\ reg[table[d][g].reg].win # w
             /\ win'[reg[table[d][g].reg].win].view = table[d][g].reg
             /\ win'[reg[table[d][g].reg].win].owner = d
  <2>1. PICK s \in Regs : s = table[d][g].reg /\ d \in Known
    BY <1>5, InUseFacts
  <2>2. /\ reg[s].client = d /\ reg[s].ref = g /\ reg[s].win \in Windows
        /\ win[reg[s].win].view = s /\ win[reg[s].win].owner = d
    BY <1>5, <2>1, EntryFacts DEF BoundEntry
  <2>3. table'[d][g] = table[d][g]
    BY <1>1, <1>5, <2>1
  <2>4. s # r /\ reg[s].win # w
    BY <1>3, <1>5, <2>2
  <2>5. /\ reg'[s] = reg[s] /\ win'[reg[s].win].view = s
        /\ win'[reg[s].win].owner = d
    BY <1>1, <2>1, <2>2, <2>4
  <2> QED
    BY <2>1, <2>2, <2>3, <2>4, <2>5
<1>6. EntriesAreBound'
  <2> SUFFICES ASSUME NEW d \in Procs, NEW g \in Handle, InUse(d, g)'
               PROVE  BoundEntry(d, g)'
    BY DEF EntriesAreBound
  <2>1. InUse(d, g) /\ (d # c \/ g # h)
    BY <1>4
  <2>2. BoundEntry(d, g)
    BY <2>1, EntryFacts
  <2>3. PICK s : s = table[d][g].reg
    OBVIOUS
  <2>4. /\ table'[d][g].reg = s /\ reg'[s] = reg[s]
        /\ win'[reg[s].win].view = s /\ win'[reg[s].win].owner = d
    BY <1>5, <2>1, <2>3
  <2>5. reg[s].client = d /\ reg[s].ref = g /\ reg[s].win \in Windows
    BY <2>2, <2>3 DEF BoundEntry
  <2> QED
    BY <2>4, <2>5 DEF BoundEntry
<1>7. WindowsAreHeld'
  <2> SUFFICES ASSUME NEW v \in Windows, win'[v].view # None
               PROVE  LET s == win'[v].view IN
                      /\ reg'[s].win = v
                      /\ reg'[s].client \in Known'
                      /\ table'[reg'[s].client][reg'[s].ref] # None
                      /\ table'[reg'[s].client][reg'[s].ref].reg = s
    BY DEF WindowsAreHeld, HeldWindow, InUse, Known
  <2> DEFINE s == win[v].view
             d == reg[s].client
             g == reg[s].ref
  <2>1. win'[v].view = s /\ s # None /\ v # w
    BY <1>1
  <2>2. reg[s].win = v /\ InUse(d, g) /\ table[d][g].reg = s
    BY <2>1 DEF OInv, WindowsAreHeld, HeldWindow
  <2>3. d \in Procs /\ g \in Handle
    <3>1. s \in Regs
      BY <2>1 DEF SInv, TypeOK
    <3> QED
      BY <2>2, <3>1 DEF SInv, TypeOK, InUse
  <2> HIDE DEF s, d, g
  <2>4. d # c \/ g # h
    <3>1. s # r
      BY <2>1, <2>2 DEF w
    <3> QED
      BY <2>2, <3>1 DEF r
  <2>5. /\ table'[d][g] = table[d][g] /\ reg'[s] = reg[s]
        /\ d \in Known' /\ table'[d][g] # None
    BY <1>1, <1>5, <2>2, <2>3, <2>4 DEF InUse
  <2> QED
    BY <2>1, <2>2, <2>5 DEF d, g
<1>8. PagesInPlace'
  <2> SUFFICES ASSUME NEW d \in Procs, NEW g \in Handle, InUse(d, g)',
                      NEW i \in Page
               PROVE  LET v == table'[d][g] IN
                      /\ reg'[v.reg].pages[i] # None =>
                           reg'[v.reg].pages[i] = Content(v.arg, i)
                      /\ reg'[v.reg].seen[i] # None =>
                           reg'[v.reg].seen[i] = reg'[v.reg].pages[i]
    BY DEF PagesInPlace, Content
  <2>1. InUse(d, g) /\ (d # c \/ g # h)
    BY <1>4
  <2>2. /\ table'[d][g] = table[d][g]
        /\ reg'[table[d][g].reg] = reg[table[d][g].reg]
    BY <1>5, <2>1
  <2> QED
    BY <2>1, <2>2 DEF OInv, PagesInPlace
<1>9. Promised'
  <2>1. ASSUME NEW m \in Message, Sent(m) PROVE Owed(m)'
    <3>1. /\ Owed(m) /\ InUse(m.id, m.ref)
          /\ m.id \in Procs /\ m.ref \in Handle
      BY <2>1 DEF OInv, Promised, Owed, Message
    <3>2. m.id # c
      BY <1>1, <3>1, NamedWait
    <3>3. /\ InUse(m.id, m.ref)'
          /\ table'[m.id][m.ref] = table[m.id][m.ref]
          /\ reg'[table[m.id][m.ref].reg] = reg[table[m.id][m.ref].reg]
      BY <1>4, <1>5, <3>1, <3>2
    <3> QED
      BY <3>1, <3>3 DEF Owed
  <2>2. \A m \in Message : Sent(m)' => Owed(m)'
    BY <1>1, <1>2, <2>1 DEF Sent
  <2> QED
    BY <1>1, <1>2, <2>2 DEF OInv, Promised
<1> QED
  BY <1>1, <1>6, <1>7, <1>8, <1>9 DEF OInv

LEMMA DrainOrderly ==
  ASSUME SInv, SInv', OInv, Orderly', Drain
  PROVE  OInv'
<1> DEFINE m == Head(ring)
           a == table[m.id][m.ref].arg
<1>1. server.at = "drain" /\ InHand = {}
  BY DrainCases, InHandFacts
<1>2. CASE /\ ring = <<>> /\ server' = Idle
           /\ UNCHANGED <<win, reg, proc, endpoint, ring, signalled,
                          table, panicked, incidents>>
  <2>1. InHand' = {}
    BY <1>2, Blanks DEF InHand
  <2> QED
    BY <1>1, <1>2, <2>1, SameEntries DEF InUse, Known
<1>3. ASSUME ring # <<>>
      PROVE  /\ m \in Message /\ Sent(m) /\ Owed(m) /\ InUse(m.id, m.ref)
             /\ a \in ViewArgs
  <2>1. ring \in Seq(Message)
    BY TypeFacts DEF SInv
  <2>2. m \in Message /\ Sent(m)
    BY <1>3, <2>1, Rest DEF Sent
  <2>3. Owed(m) /\ InUse(m.id, m.ref) /\ m.id \in Procs /\ m.ref \in Handle
    BY <2>2 DEF OInv, Promised, Owed, Message
  <2> QED
    BY <2>2, <2>3, InUseFacts
<1>4. ASSUME ring # <<>>, Before(a, m.page) \/ Behind(a, m.page),
             Note(IF InView(a, m.page) THEN {} ELSE {"outside"})
      PROVE  FALSE
  <2>1. InView(a, m.page)
    BY <1>4 DEF Note, Orderly
  <2>2. a.win_offset \in Nat /\ a.size \in Nat /\ m.page \in Nat
    <3>1. m \in Message /\ a \in ViewArgs
      BY <1>3, <1>4
    <3> HIDE DEF m, a
    <3>2. a \in [win_offset : Nat, obj_offset : Nat, size : Nat]
      BY <3>1, FaultForwardingAssumption
    <3> QED
      BY <3>1, <3>2, FaultForwardingAssumption DEF Message, Page
  <2> QED
    BY <1>4, <2>1, <2>2 DEF InView, Before, Behind
<1>5. CASE /\ ring # <<>>
           /\ ring' = Tail(ring) /\ server' = Taken(m)
           /\ UNCHANGED <<win, reg, proc, endpoint, signalled, table, panicked>>
  <2>1. /\ ring \in Seq(Message) /\ ring' \in Seq(Message)
        /\ m \in Message /\ Sent(m)
    BY <1>3, <1>5, TypeFacts, Rest DEF SInv
  <2>2. /\ 1 \in DOMAIN ring /\ m = ring[1]
        /\ \A k \in DOMAIN ring' : /\ k + 1 \in DOMAIN ring /\ k + 1 # 1
                                   /\ ring'[k] = ring[k + 1] /\ k \in Int
        /\ \A k \in DOMAIN ring : k # 1 => /\ k - 1 \in DOMAIN ring'
                                           /\ ring'[k - 1] = ring[k]
    BY <1>5, <2>1, Rest
  <2>3. InHand' = {m}
    <3>1. /\ server'.at = "map" /\ server'.id = m.id /\ server'.hndl = m.ref
          /\ server'.page = m.page
      BY <1>5, <2>1, TakenSteps
    <3>2. [id |-> m.id, ref |-> m.ref, page |-> m.page] = m
      BY <2>1 DEF Message
    <3> QED
      BY <3>1, <3>2 DEF InHand
  <2> HIDE DEF m
  <2>4. /\ EntriesStay /\ LinksStay
        /\ \A c \in Procs, h \in Handle : InUse(c, h)' <=> InUse(c, h)
    BY <1>5, SameTable DEF LinksStay
  <2>5. EntriesAreBound' /\ WindowsAreHeld' /\ PagesInPlace'
    BY <1>5, <2>4, BoundStay, HeldStay, InPlaceStay
  <2>6. \A x \in Message : Sent(x)' => Owed(x)'
    <3>1. \A x \in Message : Sent(x)' => Sent(x)
      BY <2>1, <2>2, <2>3 DEF Sent
    <3>2. \A x \in Message : Owed(x) => Owed(x)'
      BY <1>5 DEF Owed, InUse, Known
    <3> QED
      BY <3>1, <3>2 DEF OInv, Promised
  <2>7. \A j, k \in DOMAIN ring' : ring'[j].id = ring'[k].id => j = k
    <3>1. \A j, k \in DOMAIN ring' :
            ring'[j].id = ring'[k].id => j + 1 = k + 1
      BY <2>2 DEF OInv, Promised
    <3> QED
      BY <2>2, <3>1
  <2>8. \A k \in DOMAIN ring', x \in InHand' : ring'[k].id # x.id
    BY <2>2, <2>3 DEF OInv, Promised
  <2>9. \A p \in Procs : proc'[p] = "faulting" =>
          \/ \E k \in DOMAIN ring' : ring'[k].id = p
          \/ \E x \in InHand' : x.id = p
    <3> SUFFICES ASSUME NEW p \in Procs, proc[p] = "faulting"
                 PROVE  \/ \E k \in DOMAIN ring' : ring'[k].id = p
                        \/ \E x \in InHand' : x.id = p
      BY <1>5
    <3>1. PICK k \in DOMAIN ring : ring[k].id = p
      BY <1>1 DEF OInv, Promised
    <3> QED
      BY <2>2, <2>3, <3>1
  <2> QED
    BY <1>5, <2>4, <2>5, <2>6, <2>7, <2>8, <2>9 DEF OInv, Promised
<1> QED
  BY <1>2, <1>3, <1>4, <1>5, DrainCases

LEMMA PageMapOrderly ==
  ASSUME SInv, OInv, PageMap
  PROVE  OInv'
<1> DEFINE v == table[server.id][server.hndl]
           r == v.reg
           i == server.page
           c == Content(v.arg, i)
           f == reg[r].pending
           m == [id |-> server.id, ref |-> server.hndl, page |-> i]
<1>1. /\ server.id \in Known /\ server.hndl \in Handle
      /\ r \in Regs /\ i \in Page /\ server.at = "map"
      /\ \/ reg[r].pages[i] # None /\ Panic
         \/ /\ reg[r].pages[i] = None
            /\ \A s \in Regs : s # r => reg'[s] = reg[s]
            /\ reg'[r].win = reg[r].win
            /\ reg'[r].client = reg[r].client
            /\ reg'[r].ref = reg[r].ref
            /\ reg'[r].pages = [reg[r].pages EXCEPT ![i] = c]
            /\ reg'[r].seen = IF f = None THEN reg[r].seen
                              ELSE [reg[r].seen EXCEPT ![f.page] = c]
            /\ proc' = IF f = None THEN proc
                       ELSE [proc EXCEPT ![f.proc] = "running"]
            /\ server' = [Idle EXCEPT !.at = "drain"]
            /\ UNCHANGED <<win, endpoint, ring, signalled, table, panicked>>
  BY PageMapFacts
<1>2. InHand = {m} /\ server.id \in Procs
  BY <1>1 DEF InHand, SInv, TypeOK
<1>3. m \in Message /\ Sent(m)
  BY <1>1, <1>2 DEF Message, Sent
<1>4. /\ InUse(server.id, server.hndl) /\ reg[r].pages[i] = None
      /\ f = [proc |-> server.id, page |-> i]
  BY <1>3 DEF OInv, Promised, Owed
<1>5. f # None /\ f.proc = server.id /\ f.page = i
  <2> HIDE DEF v, r, i, c, f, m
  <2>1. [proc |-> server.id, page |-> i] \in [proc : Procs, page : Page]
    BY <1>1, <1>2
  <2> QED
    BY <1>4, <2>1, FaultForwardingAssumption DEF Page
<1>6. /\ proc' = [proc EXCEPT ![server.id] = "running"]
      /\ reg'[r].pages = [reg[r].pages EXCEPT ![i] = c]
      /\ reg'[r].seen = [reg[r].seen EXCEPT ![i] = c]
      /\ \A s \in Regs :
           /\ reg'[s].win = reg[s].win /\ reg'[s].client = reg[s].client
           /\ reg'[s].ref = reg[s].ref
           /\ s # r => reg'[s] = reg[s]
      /\ server' = [Idle EXCEPT !.at = "drain"]
      /\ UNCHANGED <<win, ring, table, panicked>>
  BY <1>1, <1>4, <1>5
<1>7. reg[r].client = server.id /\ reg[r].ref = server.hndl
  <2>1. BoundEntry(server.id, server.hndl)
    BY <1>1, <1>2, <1>4, EntryFacts
  <2> QED
    BY <2>1 DEF BoundEntry
<1>8. InHand' = {}
  BY <1>6 DEF InHand, Idle
<1>9. ASSUME NEW d \in Procs, NEW g \in Handle, InUse(d, g)
      PROVE  /\ table[d][g].reg \in Regs
             /\ table[d][g].reg = r => d = server.id /\ g = server.hndl
  <2> HIDE DEF v, r, i, c, f, m
  <2>1. PICK s \in Regs : s = table[d][g].reg
    BY <1>9, InUseFacts
  <2>2. reg[s].client = d /\ reg[s].ref = g
    BY <1>9, <2>1, EntryFacts DEF BoundEntry
  <2> QED
    BY <1>7, <2>1, <2>2
<1>10. /\ EntriesStay /\ LinksStay
       /\ \A d \in Procs, g \in Handle : InUse(d, g)' <=> InUse(d, g)
  <2> HIDE DEF v, r, i, c, f, m
  <2> QED
    BY <1>6, SameTable DEF LinksStay
<1>11. EntriesAreBound' /\ WindowsAreHeld'
  <2>1. UNCHANGED <<win, table>>
    BY <1>6
  <2> QED
    BY <1>10, <2>1, BoundStay, HeldStay
<1>12. PagesInPlace'
  <2> HIDE DEF v, r, i, c, f, m
  <2> SUFFICES ASSUME NEW d \in Procs, NEW g \in Handle, InUse(d, g)',
                      NEW j \in Page
               PROVE  LET x == table'[d][g] IN
                      /\ reg'[x.reg].pages[j] # None =>
                           reg'[x.reg].pages[j] = Content(x.arg, j)
                      /\ reg'[x.reg].seen[j] # None =>
                           reg'[x.reg].seen[j] = reg'[x.reg].pages[j]
    BY DEF PagesInPlace
  <2> InUse(d, g) /\ table'[d][g] = table[d][g]
    BY <1>10 DEF EntriesStay
  <2>1. LET x == table[d][g] IN
        /\ reg[x.reg].pages[j] # None =>
             reg[x.reg].pages[j] = Content(x.arg, j)
        /\ reg[x.reg].seen[j] # None =>
             reg[x.reg].seen[j] = reg[x.reg].pages[j]
    BY DEF OInv, PagesInPlace
  <2>2. CASE table[d][g].reg # r
    BY <1>6, <1>9, <2>1, <2>2
  <2>3. CASE table[d][g].reg = r
    <3>1. table[d][g] = v
      BY <1>9, <2>3 DEF v
    <3>2. /\ reg[r].pages \in [Page -> Int \cup {None}]
          /\ reg[r].seen \in [Page -> Int \cup {None}]
      BY <1>1, TypeFacts DEF SInv, Record, OptPages
    <3> HIDE DEF v, r, i, c
    <3>3. /\ reg'[r].pages[j] = IF j = i THEN c ELSE reg[r].pages[j]
          /\ reg'[r].seen[j] = IF j = i THEN c ELSE reg[r].seen[j]
      BY <1>1, <1>6, <3>2
    <3>4. j = i => c = Content(v.arg, j)
      BY DEF c
    <3> QED
      BY <2>1, <2>3, <3>1, <3>3, <3>4
  <2> QED
    BY <2>2, <2>3
<1>13. Promised'
  <2>1. \A x \in Message : Sent(x)' => Sent(x) /\ x.id # server.id
    <3> SUFFICES ASSUME NEW x \in Message, NEW k \in DOMAIN ring,
                        ring[k] = x
                 PROVE  Sent(x) /\ x.id # server.id
      BY <1>6, <1>8 DEF Sent
    <3>1. ring[k].id # m.id
      BY <1>2 DEF OInv, Promised
    <3> QED
      BY <3>1 DEF Sent
  <2>2. ASSUME NEW x \in Message, Sent(x), x.id # server.id
        PROVE  Owed(x)'
    <3>1. /\ Owed(x) /\ InUse(x.id, x.ref)
          /\ x.id \in Procs /\ x.ref \in Handle
      BY <2>2 DEF OInv, Promised, Owed, Message
    <3>2. /\ table'[x.id][x.ref] = table[x.id][x.ref]
          /\ InUse(x.id, x.ref)'
          /\ reg'[table[x.id][x.ref].reg] = reg[table[x.id][x.ref].reg]
      BY <1>6, <1>9, <2>2, <3>1 DEF InUse, Known
    <3> QED
      BY <3>1, <3>2 DEF Owed
  <2>3. \A p \in Procs : proc'[p] = "faulting" =>
          \E k \in DOMAIN ring : ring[k].id = p
    <3> SUFFICES ASSUME NEW p \in Procs, proc'[p] = "faulting"
                 PROVE  \E k \in DOMAIN ring : ring[k].id = p
      OBVIOUS
    <3>1. proc \in [Procs -> {"running", "calling", "faulting", "stopped"}]
      BY TypeFacts DEF SInv
    <3>2. p # server.id /\ proc[p] = "faulting"
      BY <1>2, <1>6, <3>1
    <3> QED
      BY <1>2, <3>2 DEF OInv, Promised
  <2> QED
    BY <1>6, <1>8, <2>1, <2>2, <2>3 DEF OInv, Promised
<1> QED
  BY <1>6, <1>10, <1>11, <1>12, <1>13 DEF OInv

(* Incidents are never taken back.                                         *)
LEMMA IncidentsStay ==
  ASSUME SInv, [Next]_vars, Orderly'
  PROVE  Orderly
<1>1. CASE UNCHANGED vars
  BY <1>1 DEF vars, Orderly
<1>2. CASE ClientNext
  BY <1>2 DEF ClientNext, WindowCreate, WindowDestroy, CallServer,
     FaultForwards, FaultRemaps, FaultUnanswered, Note, Orderly
<1>3. CASE ServerNext
  <2>1. CASE Drain
    BY <2>1, DrainCases DEF Note, Orderly
  <2>2. CASE PageMap
    BY <2>2 DEF PageMap, Orderly
  <2>3. CASE Deregister \/ Notified
    BY <2>3 DEF Deregister, Notified, Orderly
  <2>4. CASE Register
    BY <2>4, RegisterCases DEF Note, Orderly
  <2>5. CASE OpenArrives \/ CloseArrives \/ ViewArrives \/ UnviewArrives
    BY <2>5 DEF OpenArrives, CloseArrives, ViewArrives, UnviewArrives,
       Note, Orderly
  <2> QED
    BY <1>3, <2>1, <2>2, <2>3, <2>4, <2>5 DEF ServerNext
<1> QED
  BY <1>1, <1>2, <1>3 DEF Next

IInv == SInv /\ (Orderly => OInv)

LEMMA InitIInv == Init => IInv
<1> SUFFICES ASSUME Init PROVE OInv
  BY InitSInv DEF IInv
<1>1. Known = {} /\ InHand = {} /\ DOMAIN ring = {}
  <2>1. DOMAIN <<>> = {}
    BY EmptyTuple
  <2> QED
    BY <2>1, Blanks DEF Init, Known, InHand
<1>2. EntriesAreBound /\ PagesInPlace
  BY <1>1 DEF EntriesAreBound, BoundEntry, PagesInPlace, InUse
<1>3. WindowsAreHeld
  BY DEF Init, NoWin, WindowsAreHeld, HeldWindow
<1>4. Promised
  BY <1>1 DEF Init, Promised, Sent
<1> QED
  BY <1>2, <1>3, <1>4 DEF Init, OInv

LEMMA NextOrderly ==
  ASSUME RingHoldsAll, IInv, [Next]_vars
  PROVE  IInv'
<1>1. SInv'
  BY NextKeeps DEF IInv
<1> SUFFICES ASSUME Orderly' PROVE OInv'
  BY <1>1 DEF IInv
<1>2. SInv /\ OInv
  BY IncidentsStay DEF IInv
<1>3. CASE UNCHANGED vars
  BY <1>2, <1>3, SameEntries DEF vars, InUse, Known, InHand
<1>4. CASE ClientNext
  BY <1>1, <1>2, <1>4, WindowsOrderly, SendOrderly, FaultForwardsOrderly,
     FaultRemapsOrderly DEF ClientNext
<1>5. CASE ServerNext
  BY <1>1, <1>2, <1>5, ArrivalsOrderly, RegisterOrderly, DeregisterOrderly,
     NotifiedOrderly, DrainOrderly, PageMapOrderly DEF ServerNext
<1> QED
  BY <1>3, <1>4, <1>5 DEF Next

-----------------------------------------------------------------------------
LEMMA RecordsDoAgree == IInv => RecordsAgree
<1> SUFFICES ASSUME SInv, OInv
             PROVE  RecordsAgree
  BY DEF IInv, RecordsAgree, SInv
<1>1. TypeOK /\ ~panicked /\ Known \subseteq Procs
  BY DEF SInv, OInv, TypeOK
<1>2. \A c \in Known, h \in Handle : table[c][h] # None =>
        LET r == table[c][h].reg IN
        /\ reg[r].client = c /\ reg[r].ref = h
        /\ win[reg[r].win].view = r
  BY <1>1, EntryFacts DEF BoundEntry, InUse
<1>3. \A w \in Windows : win[w].view # None =>
        LET r == win[w].view IN
        /\ reg[r].win = w
        /\ reg[r].client \in Known
        /\ table[reg[r].client][reg[r].ref] # None
        /\ table[reg[r].client][reg[r].ref].reg = r
  BY WindowFacts DEF HeldWindow, InUse
<1> QED
  BY <1>1, <1>2, <1>3 DEF RecordsAgree

LEMMA PagesDoShow == IInv => PagesAreRight
<1> SUFFICES ASSUME SInv, OInv,
                    NEW c \in Known, NEW h \in Handle, table[c][h] # None,
                    NEW i \in Page, reg[table[c][h].reg].seen[i] # None
             PROVE  LET v == table[c][h] IN
                    /\ reg[v.reg].seen[i] = reg[v.reg].pages[i]
                    /\ reg[v.reg].seen[i]
                         = v.arg.obj_offset + (i - v.arg.win_offset)
  BY DEF IInv, PagesAreRight
<1>1. InUse(c, h) /\ c \in Procs
  BY DEF InUse, SInv, TypeOK
<1> QED
  BY <1>1 DEF OInv, PagesInPlace, Content

LEMMA FaultsDoWait == IInv => FaultsAreOwed
<1> SUFFICES ASSUME SInv, OInv, NEW p \in Procs
             PROVE  IF proc[p] # "faulting" THEN Owing(p) = {}
                    ELSE \E r \in Regs :
                      /\ Owing(p) = {r}
                      /\ Cardinality({k \in DOMAIN ring : Names(ring[k], r)})
                         + Cardinality({m \in InHand : Names(m, r)}) = 1
  BY DEF IInv, FaultsAreOwed
<1>1. CASE proc[p] # "faulting"
  BY <1>1 DEF SInv, Pendings, Owing
<1>2. CASE proc[p] = "faulting"
  <2>1. PICK m \in Message : Sent(m) /\ m.id = p
    BY <1>2, Elements, InHandFacts DEF OInv, Promised, Sent, SInv
  <2> DEFINE r == table[p][m.ref].reg
  <2>2. /\ InUse(p, m.ref) /\ m.ref \in Handle /\ m.page \in Page
        /\ reg[r].pending = [proc |-> p, page |-> m.page]
    BY <2>1 DEF OInv, Promised, Owed, Message
  <2>3. r \in Regs /\ reg[r].client = p /\ reg[r].ref = m.ref
    <3>1. r \in Regs /\ BoundEntry(p, m.ref)
      BY <2>2, InUseFacts, EntryFacts
    <3> QED
      BY <3>1 DEF BoundEntry
  <2>4. /\ reg[r].pending # None /\ reg[r].pending.proc = p
        /\ reg[r].pending.page = m.page
    BY <2>2, FaultForwardingAssumption DEF Page
  <2> HIDE DEF r
  <2>5. Owing(p) = {r}
    BY <2>3, <2>4 DEF SInv, Pendings, Owing
  <2>6. \A x : Names(x, r) <=> x.id = p /\ x.ref = m.ref /\ x.page = m.page
    BY <2>3, <2>4 DEF Names
  <2> DEFINE inRing == {k \in DOMAIN ring : Names(ring[k], r)}
             inHand == {x \in InHand : Names(x, r)}
  <2>7. CASE m \in InHand
    <3>1. inHand = {m}
      BY <2>1, <2>6, <2>7, InHandFacts
    <3>2. inRing = {}
      BY <2>1, <2>6, <2>7 DEF OInv, Promised
    <3> HIDE DEF inRing, inHand
    <3>3. Cardinality(inRing) = 0 /\ Cardinality(inHand) = 1
      BY <3>1, <3>2, FS_EmptySet, FS_Singleton
    <3>4. Cardinality(inRing) + Cardinality(inHand) = 1
      BY <3>3
    <3> QED
      BY <1>2, <2>3, <2>5, <3>4 DEF inRing, inHand
  <2>8. CASE \E k \in DOMAIN ring : ring[k] = m
    <3>1. PICK k \in DOMAIN ring : ring[k] = m
      BY <2>8
    <3>2. inRing = {k}
      BY <2>1, <2>6, <3>1 DEF OInv, Promised
    <3>3. inHand = {}
      BY <2>1, <2>6, <3>1 DEF OInv, Promised
    <3> HIDE DEF inRing, inHand
    <3>4. Cardinality(inRing) = 1 /\ Cardinality(inHand) = 0
      BY <3>2, <3>3, FS_EmptySet, FS_Singleton
    <3>5. Cardinality(inRing) + Cardinality(inHand) = 1
      BY <3>4
    <3> QED
      BY <1>2, <2>3, <2>5, <3>5 DEF inRing, inHand
  <2> QED
    BY <2>1, <2>7, <2>8 DEF Sent
<1> QED
  BY <1>1, <1>2

LEMMA SpecKeeps == ASSUME RingHoldsAll PROVE Spec => []IInv
<1>1. IInv /\ [Next]_vars => IInv'
  BY NextOrderly
<1> QED
  BY InitIInv, <1>1, PTL DEF Spec

(* However clients map, fault, unmap, come and go, the view tables of the  *)
(* boot file server and the registrations of the root server agree, and    *)
(* neither server stops before one of the Incidents has happened: every    *)
(* fault message finds the client and the view it names, page_map finds no *)
(* page where it puts one, and the ring has room.                          *)
THEOREM RecordsAlwaysAgree ==
  ASSUME RingHoldsAll
  PROVE  Spec => []RecordsAgree
  BY SpecKeeps, RecordsDoAgree, PTL

(* A thread that forward_vm_fault blocked is never forgotten: one view     *)
(* holds its reply, and one message, in the ring or in the server's hands, *)
(* names its page.                                                         *)
THEOREM FaultsAlwaysOwed ==
  ASSUME RingHoldsAll
  PROVE  Spec => []FaultsAreOwed
  BY SpecKeeps, FaultsDoWait, PTL

(* What page_map puts into a window is the page of the file that belongs   *)
(* there, for every view and every order of faults and answers.            *)
THEOREM PagesAlwaysRight ==
  ASSUME RingHoldsAll
  PROVE  Spec => []PagesAreRight
  BY SpecKeeps, PagesDoShow, PTL
=============================================================================
