-------------------------- MODULE Connection_proofs --------------------------
(***************************************************************************)
(* Proofs about Connection, for any number of clients, connections and     *)
(* handles: no message waits for a notification that nobody will send, for *)
(* any size of the ring; and, with a ring that takes a message of each     *)
(* client the server can know (RingHoldsAll), the marks of the root server *)
(* and the client table agree and nobody panics until clients are          *)
(* disorderly (SInv always, OInv until then).                              *)
(***************************************************************************)
EXTENDS Connection, FiniteSetTheorems, TLAPS

(* Only the loop that empties the ring leaves it with the notification     *)
(* spent, and it leaves no message behind; what enqueues is the root       *)
(* server in the middle of a conn_destroy, which ends in the signal.       *)
LEMMA ClientsKeepWakeups ==
  ASSUME NoLostWakeup, NEW c \in Clients,
         ConnCreate(c) \/ CallServer(c) \/ ConnDestroy(c) \/ ObjCall(c)
  PROVE  NoLostWakeup'
<1>1. CASE ConnCreate(c)
  BY <1>1 DEF ConnCreate, NoLostWakeup, serverVars
<1>2. CASE CallServer(c)
  BY <1>2 DEF CallServer, NoLostWakeup, rsVars, serverVars
<1>3. CASE ConnDestroy(c)
  <2>1. CASE ~conns[held[c]].registered
    BY <1>3, <2>1 DEF ConnDestroy, NoLostWakeup, serverVars
  <2>2. CASE conns[held[c]].registered /\ RingFull
    BY <1>3, <2>2 DEF ConnDestroy, Panic, NoLostWakeup
  <2>3. CASE conns[held[c]].registered /\ ~RingFull
    <3>1. rs' # None
      BY <1>3, <2>3, ConnectionAssumption DEF ConnDestroy
    <3> QED
      BY <3>1 DEF NoLostWakeup
  <2> QED
    BY <2>1, <2>2, <2>3
<1>4. CASE ObjCall(c)
  BY <1>4 DEF ObjCall, Panic, NoLostWakeup, rsVars
<1> QED
  BY <1>1, <1>2, <1>3, <1>4

LEMMA ServerKeepsWakeups ==
  ASSUME NoLostWakeup, ServerNext
  PROVE  NoLostWakeup'
<1> USE DEF NoLostWakeup, Idle, Doing, Reply
<1>1. ASSUME NEW c \in Clients, OpenArrives(c) PROVE NoLostWakeup'
  BY <1>1 DEF OpenArrives, Receives, Panic, rsVars
<1>2. ASSUME NEW c \in Clients, CloseArrives(c) PROVE NoLostWakeup'
  BY <1>2 DEF CloseArrives, Receives, Panic
<1>3. CASE Register
  BY <1>3 DEF Register
<1>4. CASE Store
  BY <1>4 DEF Store, rsVars
<1>5. CASE Deregister
  BY <1>5 DEF Deregister
<1>6. CASE DeleteClient
  BY <1>6 DEF DeleteClient, rsVars
<1>7. CASE Notified
  BY <1>7 DEF Notified
<1>8. CASE Drain
  <2>1. CASE ring = <<>>
    BY <1>8, <2>1 DEF Drain
  <2>2. CASE ring # <<>>
    BY <1>8, <2>2 DEF Drain, Panic, rsVars
  <2> QED
    BY <2>1, <2>2
<1> QED
  BY <1>1, <1>2, <1>3, <1>4, <1>5, <1>6, <1>7, <1>8 DEF ServerNext

(* A conn_destroy message in the ring is never left there with nobody      *)
(* coming, whatever clients do and whatever else has gone wrong.           *)
THEOREM NoWakeupIsLost == Spec => []NoLostWakeup
<1>1. Init => NoLostWakeup
  BY DEF Init, NoLostWakeup
<1>2. NoLostWakeup /\ [Next]_vars => NoLostWakeup'
  <2> SUFFICES ASSUME NoLostWakeup, [Next]_vars PROVE NoLostWakeup'
    OBVIOUS
  <2>1. CASE ClientNext
    BY <2>1, ClientsKeepWakeups DEF ClientNext
  <2>2. CASE Signal
    BY <2>2 DEF Signal, NoLostWakeup
  <2>3. CASE ServerNext
    BY <2>3, ServerKeepsWakeups
  <2>4. CASE UNCHANGED vars
    BY <2>4 DEF vars, rsVars, serverVars, NoLostWakeup
  <2> QED
    BY <2>1, <2>2, <2>3, <2>4 DEF Next
<1> QED
  BY <1>1, <1>2, PTL DEF Spec

-----------------------------------------------------------------------------
(***************************************************************************)
(* What always holds: the server is busy with the client at the head of    *)
(* the endpoint, each client waits there once, and who has a connection    *)
(* has one of its own.                                                     *)
(***************************************************************************)
Waiting ==
  /\ \A k \in DOMAIN endpoint : client[endpoint[k]] \in {"opening", "closing"}
  /\ \A j, k \in DOMAIN endpoint : endpoint[j] = endpoint[k] => j = k

AtServer ==
  /\ server.at = "recv" => server = Idle
  /\ server.at \in {"register", "store", "undo", "close", "delete"} =>
       /\ endpoint # <<>> /\ server.id = Head(endpoint)
       /\ client[server.id] = IF server.at \in {"close", "delete"}
                              THEN "closing" ELSE "opening"
  /\ server.at \in {"store", "undo", "close", "delete"} =>
       server.reg \in DOMAIN conns /\ conns[server.reg].id = server.id
  /\ server.at \in {"register", "store", "undo"} =>
       Cardinality(Known) < MaxClients /\ server.id \notin Known

Holders ==
  /\ \A c \in Clients : client[c] # "idle" =>
       held[c] \in DOMAIN conns /\ conns[held[c]].id = c
  /\ \A c \in Clients : client[c] = "idle" => held[c] = 0
  /\ rs # None => client[rs] = "destroying"
  /\ \A c \in Known : conns[table[c].reg].id = c
  /\ IsFiniteSet(Known)

SInv == TypeOK /\ Waiting /\ AtServer /\ Holders

Conn == [id : Clients, registered : BOOLEAN]
Life == {"idle", "connected", "opening", "open", "closing", "destroying"}
Steps == {"recv", "register", "store", "undo", "close", "delete", "drain"}

(* Sequences that grow at the end or lose their head.                      *)
LEMMA Longer ==
  ASSUME NEW S, NEW s \in Seq(S), NEW x \in S
  PROVE  /\ Append(s, x) \in Seq(S) /\ Append(s, x) # <<>>
         /\ s # <<>> => Head(Append(s, x)) = Head(s)
         /\ Len(Append(s, x)) = Len(s) + 1 /\ Len(s) \in Nat
         /\ DOMAIN s = 1 .. Len(s)
         /\ DOMAIN Append(s, x) = DOMAIN s \cup {Len(s) + 1}
         /\ Len(s) + 1 \notin DOMAIN s
         /\ \A k \in DOMAIN s : Append(s, x)[k] = s[k]
         /\ Append(s, x)[Len(s) + 1] = x
<1>1. /\ Len(s) \in Nat /\ DOMAIN s = 1 .. Len(s)
      /\ Append(s, x) \in Seq(S) /\ Len(Append(s, x)) = Len(s) + 1
      /\ DOMAIN Append(s, x) = 1 .. Len(s) + 1
  OBVIOUS
<1>2. /\ \A k \in 1 .. Len(s) : Append(s, x)[k] = s[k]
      /\ Append(s, x)[Len(s) + 1] = x
  OBVIOUS
<1>3. ASSUME s # <<>> PROVE Head(Append(s, x)) = Head(s)
  <2>1. Head(s) = s[1] /\ 1 \in 1 .. Len(s)
    BY <1>1, <1>3
  <2>2. Head(Append(s, x)) = Append(s, x)[1]
    BY <1>1
  <2> QED
    BY <1>2, <2>1, <2>2
<1> QED
  BY <1>1, <1>2, <1>3

LEMMA Shorter ==
  ASSUME NEW S, NEW s \in Seq(S), s # <<>>
  PROVE  /\ 1 \in DOMAIN s /\ Head(s) = s[1] /\ s[1] \in S
         /\ Tail(s) \in Seq(S) /\ Len(Tail(s)) < Len(s)
         /\ Len(s) \in Nat /\ Len(Tail(s)) \in Nat
         /\ \A k \in DOMAIN Tail(s) : /\ k \in Int /\ k + 1 \in DOMAIN s
                                      /\ k + 1 # 1 /\ Tail(s)[k] = s[k + 1]
         /\ \A k \in DOMAIN s : k # 1 => /\ k - 1 \in DOMAIN Tail(s)
                                         /\ Tail(s)[k - 1] = s[k]
<1>1. Len(s) \in Nat /\ Len(s) > 0 /\ DOMAIN s = 1 .. Len(s)
  OBVIOUS
<1>2. Tail(s) \in Seq(S) /\ Len(Tail(s)) = Len(s) - 1
  OBVIOUS
<1>3. \A k \in 1 .. Len(s) - 1 : Tail(s)[k] = s[k + 1]
  OBVIOUS
<1>4. DOMAIN Tail(s) = 1 .. Len(s) - 1
  BY <1>1, <1>2
<1>5. Head(s) = s[1] /\ s[1] \in S
  BY <1>1
<1> QED
  BY <1>1, <1>2, <1>3, <1>4, <1>5

LEMMA TypeFacts ==
  ASSUME TypeOK
  PROVE  /\ conns \in Seq(Conn) /\ Len(conns) \in Nat
         /\ DOMAIN conns = 1 .. Len(conns)
         /\ \A i \in DOMAIN conns : conns[i] \in Conn
         /\ held \in [Clients -> 0 .. Len(conns)]
         /\ client \in [Clients -> Life]
         /\ ring \in Seq(Clients) /\ Len(ring) \in Nat
         /\ Len(ring) <= NtfnCapacity
         /\ \A k \in DOMAIN ring : ring[k] \in Clients
         /\ endpoint \in Seq(Clients)
         /\ \A k \in DOMAIN endpoint : endpoint[k] \in Clients
         /\ endpoint # <<>> => Head(endpoint) \in Clients
         /\ server \in [at : Steps, id : Clients \cup {None},
                        reg : 0 .. Len(conns)]
         /\ Known \subseteq Clients
         /\ table \in [Known -> [reg : DOMAIN conns, objs : 0 .. MaxObjs]]
<1>1. conns \in Seq(Conn) /\ ring \in Seq(Clients) /\ endpoint \in Seq(Clients)
  BY DEF TypeOK, Conn
<1>2. /\ Len(conns) \in Nat /\ DOMAIN conns = 1 .. Len(conns)
      /\ \A i \in DOMAIN conns : conns[i] \in Conn
      /\ Len(ring) \in Nat /\ \A k \in DOMAIN ring : ring[k] \in Clients
      /\ \A k \in DOMAIN endpoint : endpoint[k] \in Clients
      /\ endpoint # <<>> => Head(endpoint) \in Clients
  BY <1>1
<1> QED
  BY <1>1, <1>2 DEF TypeOK, Life, Steps

(* The types, when no connection is added.                                 *)
LEMMA TypeKept ==
  ASSUME TypeOK,
         conns' \in Seq(Conn), Len(conns') = Len(conns),
         held' \in [Clients -> 0 .. Len(conns)],
         client' \in [Clients -> Life],
         rs' \in Clients \cup {None},
         ring' \in Seq(Clients), Len(ring') <= NtfnCapacity,
         signalled' \in BOOLEAN,
         endpoint' \in Seq(Clients),
         server' \in [at : Steps, id : Clients \cup {None},
                      reg : 0 .. Len(conns)],
         Known' \subseteq Clients, Cardinality(Known') <= MaxClients,
         table' \in [Known' -> [reg : DOMAIN conns, objs : 0 .. MaxObjs]],
         panicked' \in BOOLEAN,
         incidents' \subseteq Incidents
  PROVE  TypeOK'
<1>1. DOMAIN conns = 1 .. Len(conns')
  BY TypeFacts
<1> QED
  BY <1>1 DEF TypeOK, Conn, Life, Steps

(* Marking a connection and taking the mark away.                          *)
LEMMA Marking ==
  ASSUME TypeOK, NEW i \in DOMAIN conns, NEW b \in BOOLEAN,
         conns' = [conns EXCEPT ![i].registered = b]
  PROVE  /\ conns' \in Seq(Conn) /\ Len(conns') = Len(conns)
         /\ DOMAIN conns' = DOMAIN conns
         /\ \A j \in DOMAIN conns :
              /\ conns'[j].id = conns[j].id
              /\ conns'[j].registered = IF j = i THEN b
                                        ELSE conns[j].registered
<1>1. conns \in Seq(Conn) /\ \A j \in DOMAIN conns : conns[j] \in Conn
  BY TypeFacts
<1>2. conns' = [conns EXCEPT ![i] = [conns[i] EXCEPT !.registered = b]]
  OBVIOUS
<1>3. [conns[i] EXCEPT !.registered = b] \in Conn
  BY <1>1 DEF Conn
<1>4. /\ conns' \in Seq(Conn) /\ Len(conns') = Len(conns)
      /\ DOMAIN conns' = DOMAIN conns
  BY <1>1, <1>2, <1>3
<1>5. \A j \in DOMAIN conns :
        conns'[j] = IF j = i THEN [conns[i] EXCEPT !.registered = b]
                    ELSE conns[j]
  BY <1>1, <1>2
<1>6. /\ [conns[i] EXCEPT !.registered = b].id = conns[i].id
      /\ [conns[i] EXCEPT !.registered = b].registered = b
  BY <1>1 DEF Conn
<1> QED
  BY <1>4, <1>5, <1>6

(* The client table.                                                       *)
LEMMA Learning ==
  ASSUME TypeOK, IsFiniteSet(Known), NEW c \in Clients, c \notin Known,
         Cardinality(Known) < MaxClients, NEW i \in DOMAIN conns,
         table' = Learn(c, i)
  PROVE  /\ Known' = Known \cup {c} /\ Known' \subseteq Clients
         /\ IsFiniteSet(Known') /\ Cardinality(Known') <= MaxClients
         /\ table' \in [Known' -> [reg : DOMAIN conns, objs : 0 .. MaxObjs]]
         /\ table'[c] = [reg |-> i, objs |-> 0]
         /\ \A d \in Known : table'[d] = table[d]
<1>1. Known' = Known \cup {c}
  BY DEF Known, Learn
<1>2. /\ Known \subseteq Clients
      /\ table \in [Known -> [reg : DOMAIN conns, objs : 0 .. MaxObjs]]
  BY TypeFacts
<1>3. [reg |-> i, objs |-> 0] \in [reg : DOMAIN conns, objs : 0 .. MaxObjs]
  BY ConnectionAssumption
<1>4. /\ table'[c] = [reg |-> i, objs |-> 0]
      /\ \A d \in Known : table'[d] = table[d]
      /\ table' \in [Known' -> [reg : DOMAIN conns, objs : 0 .. MaxObjs]]
  BY <1>1, <1>2, <1>3 DEF Learn
<1>5. IsFiniteSet(Known') /\ Cardinality(Known') = Cardinality(Known) + 1
  BY <1>1, FS_AddElement
<1>6. Cardinality(Known) \in Nat
  BY FS_CardinalityType
<1>7. Cardinality(Known') <= MaxClients
  BY <1>5, <1>6, ConnectionAssumption
<1> QED
  BY <1>1, <1>2, <1>4, <1>5, <1>7

LEMMA Forgetting ==
  ASSUME TypeOK, IsFiniteSet(Known), NEW c, table' = Forget(c)
  PROVE  /\ Known' = Known \ {c} /\ Known' \subseteq Clients
         /\ IsFiniteSet(Known') /\ Cardinality(Known') <= MaxClients
         /\ table' \in [Known' -> [reg : DOMAIN conns, objs : 0 .. MaxObjs]]
         /\ \A d \in Known' : table'[d] = table[d]
<1>1. Known' = Known \ {c}
  BY DEF Known, Forget
<1>2. /\ Known \subseteq Clients /\ Cardinality(Known) <= MaxClients
      /\ table \in [Known -> [reg : DOMAIN conns, objs : 0 .. MaxObjs]]
  BY TypeFacts DEF TypeOK
<1>3. /\ \A d \in Known' : table'[d] = table[d]
      /\ table' \in [Known' -> [reg : DOMAIN conns, objs : 0 .. MaxObjs]]
  BY <1>1, <1>2 DEF Forget
<1>4. IsFiniteSet(Known') /\ Cardinality(Known') <= Cardinality(Known)
  BY <1>1, FS_Subset
<1>5. Cardinality(Known) \in Nat /\ Cardinality(Known') \in Nat
  BY <1>4, FS_CardinalityType
<1>6. Cardinality(Known') <= MaxClients
  BY <1>2, <1>4, <1>5, ConnectionAssumption
<1> QED
  BY <1>1, <1>2, <1>3, <1>4, <1>6

ServerStates == [at : Steps, id : Clients \cup {None}, reg : 0 .. Len(conns)]

LEMMA States ==
  ASSUME TypeOK
  PROVE  /\ Idle \in ServerStates /\ Idle.at = "recv"
         /\ \A s \in Steps, c \in Clients \cup {None}, i \in 0 .. Len(conns) :
              /\ Doing(s, c, i) \in ServerStates
              /\ Doing(s, c, i).at = s /\ Doing(s, c, i).id = c
              /\ Doing(s, c, i).reg = i
<1>1. 0 \in 0 .. Len(conns)
  BY TypeFacts
<1> QED
  BY <1>1 DEF Idle, Doing, ServerStates, Steps

LEMMA InitSInv == Init => SInv
<1> SUFFICES ASSUME Init PROVE SInv
  OBVIOUS
<1>1. DOMAIN table = {}
  <2>1. \A T : <<>> \in [1 .. 0 -> T]
    OBVIOUS
  <2> QED
    BY <2>1 DEF Init
<1>2. /\ Known = {} /\ IsFiniteSet(Known) /\ Cardinality(Known) = 0
      /\ \A T : table \in [{} -> T]
  BY <1>1, FS_EmptySet DEF Known, Init
<1>3. TypeOK
  <2>1. /\ conns \in Seq([id : Clients, registered : BOOLEAN])
        /\ Len(conns) = 0 /\ ring \in Seq(Clients) /\ Len(ring) = 0
        /\ endpoint \in Seq(Clients)
    BY DEF Init
  <2>2. /\ held \in [Clients -> 0 .. Len(conns)]
        /\ server \in [at : {"recv", "register", "store", "undo", "close",
                             "delete", "drain"},
                       id : Clients \cup {None}, reg : 0 .. Len(conns)]
    <3>1. 0 \in 0 .. Len(conns)
      BY <2>1
    <3> QED
      BY <3>1 DEF Init, Idle
  <2>3. 0 <= MaxClients /\ 0 <= NtfnCapacity
    BY ConnectionAssumption
  <2>4. table \in [Known -> [reg : 1 .. Len(conns), objs : 0 .. MaxObjs]]
    BY <1>2
  <2>5. client \in [Clients -> {"idle", "connected", "opening", "open",
                               "closing", "destroying"}]
    BY DEF Init
  <2>6. /\ rs \in Clients \cup {None} /\ signalled \in BOOLEAN
        /\ panicked \in BOOLEAN /\ incidents \subseteq Incidents
    BY DEF Init
  <2> QED
    BY <1>2, <2>1, <2>2, <2>3, <2>4, <2>5, <2>6 DEF TypeOK
<1>4. Waiting /\ AtServer
  BY DEF Init, Waiting, AtServer, Idle
<1>5. Holders
  BY <1>2 DEF Init, Holders
<1> QED
  BY <1>3, <1>4, <1>5 DEF SInv

LEMMA PanicKeeps == ASSUME SInv, Panic PROVE SInv'
<1>1. TypeOK' /\ Known' = Known
  BY DEF SInv, Panic, TypeOK, Known
<1> QED
  BY <1>1 DEF SInv, Panic, Waiting, AtServer, Holders, Idle

LEMMA ReplyFacts ==
  ASSUME SInv, endpoint # <<>>, NEW c, c = Head(endpoint),
         NEW state \in Life, Reply(c, state)
  PROVE  /\ c \in Clients /\ client[c] \in {"opening", "closing"}
         /\ client' \in [Clients -> Life]
         /\ \A d \in Clients : client'[d] = IF d = c THEN state ELSE client[d]
         /\ endpoint' \in Seq(Clients)
         /\ server' = Idle /\ server' \in ServerStates
         /\ server'.at = "recv"
         /\ Waiting'
<1>1. /\ endpoint \in Seq(Clients) /\ client \in [Clients -> Life] /\ TypeOK
  BY TypeFacts DEF SInv
<1>2. /\ 1 \in DOMAIN endpoint /\ c = endpoint[1] /\ c \in Clients
      /\ endpoint' \in Seq(Clients)
      /\ \A k \in DOMAIN endpoint' :
           /\ k \in Int /\ k + 1 \in DOMAIN endpoint /\ k + 1 # 1
           /\ endpoint'[k] = endpoint[k + 1]
  BY <1>1, Shorter DEF Reply
<1>3. /\ client' \in [Clients -> Life]
      /\ \A d \in Clients : client'[d] = IF d = c THEN state ELSE client[d]
  BY <1>1, <1>2 DEF Reply
<1>4. \A k \in DOMAIN endpoint :
        /\ endpoint[k] \in Clients
        /\ client[endpoint[k]] \in {"opening", "closing"}
  BY <1>1, TypeFacts DEF SInv, Waiting
<1>5. \A j, k \in DOMAIN endpoint' : endpoint'[j] = endpoint'[k] => j = k
  <2>1. \A j, k \in DOMAIN endpoint' :
          endpoint'[j] = endpoint'[k] => j + 1 = k + 1
    BY <1>2 DEF SInv, Waiting
  <2> QED
    BY <1>2, <2>1
<1>6. \A k \in DOMAIN endpoint' :
        client'[endpoint'[k]] \in {"opening", "closing"}
  <2> SUFFICES ASSUME NEW k \in DOMAIN endpoint'
               PROVE  client'[endpoint'[k]] \in {"opening", "closing"}
    OBVIOUS
  <2>1. /\ k + 1 \in DOMAIN endpoint /\ endpoint'[k] = endpoint[k + 1]
        /\ k + 1 # 1
    BY <1>2
  <2>2. endpoint[k + 1] # endpoint[1]
    BY <1>2, <2>1 DEF SInv, Waiting
  <2> QED
    BY <1>2, <1>3, <1>4, <2>1, <2>2
<1>7. server' = Idle /\ server' \in ServerStates /\ server'.at = "recv"
  BY <1>1, States DEF Reply
<1> QED
  BY <1>2, <1>3, <1>4, <1>5, <1>6, <1>7 DEF Waiting

LEMMA ConnCreateKeeps ==
  ASSUME SInv, NEW c \in Clients, ConnCreate(c)
  PROVE  SInv'
<1> DEFINE new == [id |-> c, registered |-> FALSE]
           n == Len(conns) + 1
<1>1. /\ client[c] = "idle" /\ rs = None
      /\ conns' = Append(conns, new)
      /\ \/ /\ held' = [held EXCEPT ![c] = Len(conns')]
            /\ client' = [client EXCEPT ![c] = "connected"]
         \/ UNCHANGED <<held, client>>
      /\ UNCHANGED <<rs, ring, signalled, endpoint, server, table, panicked>>
      /\ incidents' \subseteq incidents \cup {"reconnect", "handles"}
  BY DEF ConnCreate, serverVars, Note
<1>2. TypeOK /\ new \in Conn /\ conns \in Seq(Conn)
  BY TypeFacts DEF SInv, Conn
<1>3. /\ conns' \in Seq(Conn) /\ Len(conns') = n /\ n \in Nat
      /\ DOMAIN conns = 1 .. Len(conns) /\ Len(conns) \in Nat
      /\ DOMAIN conns' = DOMAIN conns \cup {n}
      /\ \A i \in DOMAIN conns : conns'[i] = conns[i]
      /\ conns'[n] = new
  BY <1>1, <1>2, Longer
<1>4. /\ held \in [Clients -> 0 .. Len(conns)] /\ client \in [Clients -> Life]
      /\ server \in ServerStates /\ Known \subseteq Clients
      /\ table \in [Known -> [reg : DOMAIN conns, objs : 0 .. MaxObjs]]
  BY <1>2, TypeFacts DEF ServerStates
<1>5. Known' = Known
  BY <1>1 DEF Known
<1>6. /\ held' \in [Clients -> 0 .. n] /\ client' \in [Clients -> Life]
      /\ \A d \in Clients :
           d # c => client'[d] = client[d] /\ held'[d] = held[d]
      /\ \/ client'[c] = "connected" /\ held'[c] = n
         \/ client'[c] = "idle" /\ held'[c] = held[c]
  <2>1. n \in 0 .. n /\ 0 .. Len(conns) \subseteq 0 .. n
    BY <1>3
  <2>2. Len(conns') = n
    BY <1>3
  <2> HIDE DEF n
  <2>3. held \in [Clients -> 0 .. n]
    BY <1>4, <2>1
  <2>4. CASE /\ held' = [held EXCEPT ![c] = Len(conns')]
             /\ client' = [client EXCEPT ![c] = "connected"]
    BY <1>4, <2>1, <2>2, <2>3, <2>4 DEF Life
  <2>5. CASE UNCHANGED <<held, client>>
    BY <1>1, <1>4, <2>3, <2>5
  <2> QED
    BY <1>1, <2>4, <2>5
<1> HIDE DEF n
<1>7. TypeOK'
  <2>1. /\ server \in [at : Steps, id : Clients \cup {None},
                       reg : 0 .. Len(conns')]
        /\ table \in [Known -> [reg : 1 .. Len(conns'), objs : 0 .. MaxObjs]]
    <3>1. 0 .. Len(conns) \subseteq 0 .. n /\ DOMAIN conns \subseteq 1 .. n
      BY <1>3 DEF n
    <3> QED
      BY <1>3, <1>4, <3>1 DEF ServerStates
  <2>2. incidents' \subseteq Incidents
    BY <1>1, <1>2 DEF TypeOK, Incidents
  <2> QED
    BY <1>1, <1>2, <1>3, <1>5, <1>6, <2>1, <2>2 DEF TypeOK, Conn, Life, Steps
<1>8. Waiting'
  <2>1. \A k \in DOMAIN endpoint : endpoint[k] \in Clients /\ endpoint[k] # c
    BY <1>1, <1>2, TypeFacts DEF SInv, Waiting
  <2> QED
    BY <1>1, <1>6, <2>1 DEF SInv, Waiting
<1>9. AtServer'
  <2>1. endpoint # <<>> => Head(endpoint) \in Clients
    BY <1>2, TypeFacts
  <2>2. server.at \in {"register", "store", "undo", "close", "delete"} =>
          server.id \in Clients /\ server.id # c
    BY <1>1, <2>1 DEF SInv, AtServer
  <2> QED
    BY <1>1, <1>3, <1>5, <1>6, <2>2 DEF SInv, AtServer, Idle
<1>10. Holders'
  <2>1. \A d \in Known : table[d].reg \in DOMAIN conns
    BY <1>4
  <2> QED
    BY <1>1, <1>3, <1>5, <1>6, <2>1 DEF SInv, Holders
<1> QED
  BY <1>7, <1>8, <1>9, <1>10 DEF SInv

LEMMA CallServerKeeps ==
  ASSUME SInv, NEW c \in Clients, CallServer(c)
  PROVE  SInv'
<1>1. /\ client[c] \in {"connected", "open"}
      /\ \/ client' = [client EXCEPT ![c] = "opening"]
         \/ client' = [client EXCEPT ![c] = "closing"]
      /\ endpoint' = Append(endpoint, c)
      /\ UNCHANGED <<conns, held, rs, ring, signalled, server, table,
                     panicked, incidents>>
  BY DEF CallServer, rsVars, serverVars
<1>2. /\ TypeOK /\ client \in [Clients -> Life] /\ endpoint \in Seq(Clients)
      /\ \A k \in DOMAIN endpoint : endpoint[k] \in Clients
  BY TypeFacts DEF SInv
<1>3. Known' = Known
  BY <1>1 DEF Known
<1>4. /\ client' \in [Clients -> Life]
      /\ client'[c] \in {"opening", "closing"}
      /\ \A d \in Clients : d # c => client'[d] = client[d]
  BY <1>1, <1>2 DEF Life
<1>5. /\ endpoint' \in Seq(Clients) /\ endpoint' # <<>>
      /\ endpoint # <<>> => Head(endpoint') = Head(endpoint)
      /\ DOMAIN endpoint' = DOMAIN endpoint \cup {Len(endpoint) + 1}
      /\ Len(endpoint) + 1 \notin DOMAIN endpoint
      /\ \A k \in DOMAIN endpoint : endpoint'[k] = endpoint[k]
      /\ endpoint'[Len(endpoint) + 1] = c
  BY <1>1, <1>2, Longer
<1>6. TypeOK'
  BY <1>1, <1>2, <1>3, <1>4, <1>5 DEF TypeOK, Life
<1>7. \A k \in DOMAIN endpoint : endpoint[k] # c
  BY <1>1 DEF SInv, Waiting
<1>8. Waiting'
  BY <1>2, <1>4, <1>5, <1>7 DEF SInv, Waiting
<1>9. AtServer'
  <2>1. endpoint # <<>> => Head(endpoint) \in Clients
    BY <1>2, TypeFacts
  <2>2. server.at \in {"register", "store", "undo", "close", "delete"} =>
          server.id \in Clients /\ server.id # c
    BY <1>1, <2>1 DEF SInv, AtServer
  <2> QED
    BY <1>1, <1>3, <1>4, <1>5, <2>2 DEF SInv, AtServer, Idle
<1>10. Holders'
  <2>1. rs # None => rs \in Clients /\ rs # c
    BY <1>1, <1>2 DEF SInv, Holders, TypeOK
  <2> QED
    BY <1>1, <1>3, <1>4, <2>1 DEF SInv, Holders
<1> QED
  BY <1>6, <1>8, <1>9, <1>10 DEF SInv

(* What conn_destroy and its signal change.                                *)
LEMMA ConnDestroyFacts ==
  ASSUME SInv, NEW c \in Clients, ConnDestroy(c)
  PROVE  /\ rs = None /\ client[c] \in {"connected", "open"}
         /\ held[c] \in DOMAIN conns /\ conns[held[c]].id = c
         /\ \A d \in Clients :
              d # c => client'[d] = client[d] /\ held'[d] = held[d]
         /\ client' \in [Clients -> Life]
         /\ held' \in [Clients -> 0 .. Len(conns)]
         /\ UNCHANGED <<conns, signalled, endpoint, server, table>>
         /\ \/ /\ conns[held[c]].registered /\ RingFull /\ Panic
            \/ /\ ~conns[held[c]].registered
               /\ held'[c] = 0 /\ client'[c] = "idle"
               /\ Note(Vanishing(c))
               /\ UNCHANGED <<rs, ring, panicked>>
            \/ /\ conns[held[c]].registered
               /\ Len(ring) < NtfnCapacity
               /\ ring' = Append(ring, c)
               /\ rs' = c /\ held' = held
               /\ client'[c] = "destroying"
               /\ Note(Vanishing(c))
               /\ UNCHANGED panicked
<1>1. /\ TypeOK /\ client \in [Clients -> Life]
      /\ held \in [Clients -> 0 .. Len(conns)]
      /\ Len(ring) \in Nat /\ Len(ring) <= NtfnCapacity
      /\ 0 \in 0 .. Len(conns)
  BY TypeFacts DEF SInv
<1>2. /\ rs = None /\ client[c] \in {"connected", "open"}
      /\ held[c] \in DOMAIN conns /\ conns[held[c]].id = c
  BY DEF ConnDestroy, SInv, Holders
<1>3. CASE ~conns[held[c]].registered
  BY <1>1, <1>2, <1>3 DEF ConnDestroy, serverVars, Life
<1>4. CASE conns[held[c]].registered /\ RingFull
  BY <1>1, <1>2, <1>4 DEF ConnDestroy, Panic, Life
<1>5. CASE conns[held[c]].registered /\ ~RingFull
  <2>1. Len(ring) < NtfnCapacity
    BY <1>1, <1>5, ConnectionAssumption DEF RingFull
  <2> QED
    BY <1>1, <1>2, <1>5, <2>1 DEF ConnDestroy, serverVars, Life
<1> QED
  BY <1>3, <1>4, <1>5

(* Steps at which a client that does not wait for the server changes.      *)
LEMMA OthersWait ==
  ASSUME SInv, NEW c \in Clients, client[c] \notin {"opening", "closing"},
         UNCHANGED <<conns, endpoint, server, table>>,
         \A d \in Clients : d # c => client'[d] = client[d]
  PROVE  Waiting' /\ AtServer'
<1>1. /\ \A k \in DOMAIN endpoint : endpoint[k] \in Clients /\ endpoint[k] # c
      /\ endpoint # <<>> => Head(endpoint) \in Clients
  BY TypeFacts DEF SInv, Waiting
<1>2. server.at \in {"register", "store", "undo", "close", "delete"} =>
        server.id \in Clients /\ server.id # c
  BY <1>1 DEF SInv, AtServer
<1>3. Known' = Known
  BY DEF Known
<1> QED
  BY <1>1, <1>2, <1>3 DEF SInv, Waiting, AtServer, Idle

LEMMA ConnDestroyKeeps ==
  ASSUME SInv, NEW c \in Clients, ConnDestroy(c)
  PROVE  SInv'
<1>1. /\ rs = None /\ client[c] \in {"connected", "open"}
      /\ held[c] \in DOMAIN conns /\ conns[held[c]].id = c
      /\ \A d \in Clients :
           d # c => client'[d] = client[d] /\ held'[d] = held[d]
      /\ client' \in [Clients -> Life]
      /\ held' \in [Clients -> 0 .. Len(conns)]
      /\ UNCHANGED <<conns, signalled, endpoint, server, table>>
      /\ \/ Panic
         \/ /\ held'[c] = 0 /\ client'[c] = "idle"
            /\ Note(Vanishing(c))
            /\ UNCHANGED <<rs, ring, panicked>>
         \/ /\ Len(ring) < NtfnCapacity
            /\ ring' = Append(ring, c)
            /\ rs' = c /\ held' = held
            /\ client'[c] = "destroying"
            /\ Note(Vanishing(c))
            /\ UNCHANGED panicked
  BY ConnDestroyFacts
<1>2. CASE Panic
  BY <1>2, PanicKeeps
<1>3. CASE ~Panic
  <2>1. /\ TypeOK /\ Known' = Known
        /\ ring \in Seq(Clients) /\ Len(ring) \in Nat
        /\ Len(ring) <= NtfnCapacity
    BY <1>1, TypeFacts DEF SInv, Known
  <2>2. /\ ring' \in Seq(Clients) /\ Len(ring') <= NtfnCapacity
    <3>1. CASE ring' = ring
      BY <2>1, <3>1
    <3>2. CASE ring' = Append(ring, c) /\ Len(ring) < NtfnCapacity
      <4>1. ring' \in Seq(Clients) /\ Len(ring') = Len(ring) + 1
        BY <2>1, <3>2, Longer
      <4> QED
        BY <2>1, <3>2, <4>1, ConnectionAssumption
    <3> QED
      BY <1>1, <1>3, <3>1, <3>2
  <2>3. /\ rs' \in Clients \cup {None} /\ panicked' \in BOOLEAN
        /\ incidents' \subseteq Incidents
    BY <1>1, <1>3, <2>1 DEF TypeOK, Note, Vanishing, Incidents
  <2>4. TypeOK'
    BY <1>1, <2>1, <2>2, <2>3 DEF TypeOK, Life
  <2>5. Waiting' /\ AtServer'
    BY <1>1, OthersWait
  <2>6. Holders'
    BY <1>1, <1>3, <2>1 DEF SInv, Holders
  <2> QED
    BY <2>4, <2>5, <2>6 DEF SInv
<1> QED
  BY <1>2, <1>3

LEMMA SignalFacts ==
  ASSUME SInv, Signal
  PROVE  /\ rs \in Clients /\ client[rs] = "destroying"
         /\ \A d \in Clients :
              /\ client'[d] = IF d = rs THEN "idle" ELSE client[d]
              /\ held'[d] = IF d = rs THEN 0 ELSE held[d]
         /\ client' \in [Clients -> Life]
         /\ held' \in [Clients -> 0 .. Len(conns)]
         /\ rs' = None /\ signalled' = TRUE
         /\ UNCHANGED <<conns, ring, endpoint, server, table, panicked,
                        incidents>>
<1>1. /\ rs \in Clients /\ client[rs] = "destroying"
      /\ client \in [Clients -> Life] /\ 0 \in 0 .. Len(conns)
      /\ held \in [Clients -> 0 .. Len(conns)]
  BY TypeFacts DEF Signal, SInv, Holders, TypeOK
<1> QED
  BY <1>1 DEF Signal, serverVars, Life

LEMMA SignalKeeps ==
  ASSUME SInv, Signal
  PROVE  SInv'
<1>1. /\ rs \in Clients /\ client[rs] = "destroying"
      /\ \A d \in Clients :
           /\ client'[d] = IF d = rs THEN "idle" ELSE client[d]
           /\ held'[d] = IF d = rs THEN 0 ELSE held[d]
      /\ client' \in [Clients -> Life]
      /\ held' \in [Clients -> 0 .. Len(conns)]
      /\ rs' = None /\ signalled' = TRUE
      /\ UNCHANGED <<conns, ring, endpoint, server, table, panicked,
                     incidents>>
  BY SignalFacts
<1>2. Known' = Known
  BY <1>1 DEF Known
<1>3. TypeOK'
  BY <1>1, <1>2 DEF SInv, TypeOK, Life
<1>4. Waiting' /\ AtServer'
  BY <1>1, OthersWait
<1>5. Holders'
  BY <1>1, <1>2 DEF SInv, Holders
<1> QED
  BY <1>3, <1>4, <1>5 DEF SInv

LEMMA ObjCallKeeps ==
  ASSUME SInv, NEW c \in Clients, ObjCall(c)
  PROVE  /\ SInv'
         /\ Panic \/ /\ c \in Known /\ Known' = Known
                     /\ \A d \in Known : table'[d].reg = table[d].reg
                     /\ \A d \in Known : d # c => table'[d] = table[d]
<1>1. CASE c \notin Known
  BY <1>1, PanicKeeps DEF ObjCall
<1>2. CASE c \in Known
  <2>1. /\ table \in [Known -> [reg : DOMAIN conns, objs : 0 .. MaxObjs]]
        /\ TypeOK /\ DOMAIN conns = 1 .. Len(conns)
    BY TypeFacts DEF SInv
  <2>2. /\ \/ /\ table[c].objs < MaxObjs
              /\ table' = [table EXCEPT ![c].objs = @ + 1]
           \/ /\ table[c].objs > 0
              /\ table' = [table EXCEPT ![c].objs = @ - 1]
        /\ UNCHANGED <<conns, held, client, rs, ring, signalled, endpoint,
                       server, panicked, incidents>>
    BY <1>2 DEF ObjCall, rsVars
  <2>3. table[c].reg \in DOMAIN conns /\ table[c].objs \in 0 .. MaxObjs
    BY <1>2, <2>1
  <2>4. PICK n \in 0 .. MaxObjs : table' = [table EXCEPT ![c].objs = n]
    <3>1. CASE /\ table[c].objs < MaxObjs
               /\ table' = [table EXCEPT ![c].objs = @ + 1]
      <4>1. table[c].objs + 1 \in 0 .. MaxObjs
        BY <2>3, <3>1, ConnectionAssumption
      <4> QED
        BY <3>1, <4>1
    <3>2. CASE /\ table[c].objs > 0
               /\ table' = [table EXCEPT ![c].objs = @ - 1]
      <4>1. table[c].objs - 1 \in 0 .. MaxObjs
        BY <2>3, <3>2, ConnectionAssumption
      <4> QED
        BY <3>2, <4>1
    <3> QED
      BY <2>2, <3>1, <3>2
  <2>5. /\ DOMAIN table' = Known
        /\ table' \in [Known -> [reg : DOMAIN conns, objs : 0 .. MaxObjs]]
        /\ \A d \in Known : table'[d].reg = table[d].reg
        /\ \A d \in Known : d # c => table'[d] = table[d]
    BY <1>2, <2>1, <2>3, <2>4
  <2>6. Known' = Known
    BY <2>5 DEF Known
  <2>7. TypeOK'
    BY <2>1, <2>2, <2>5, <2>6 DEF TypeOK
  <2>8. Waiting' /\ AtServer'
    BY <2>2, <2>6 DEF SInv, Waiting, AtServer, Idle
  <2>9. Holders'
    BY <2>2, <2>5, <2>6 DEF SInv, Holders
  <2> QED
    BY <1>2, <2>5, <2>6, <2>7, <2>8, <2>9 DEF SInv
<1> QED
  BY <1>1, <1>2

(* A step in which the server only moves on.                               *)
LEMMA ServerMoves ==
  ASSUME SInv, server' \in ServerStates,
         UNCHANGED <<conns, held, client, rs, ring, endpoint, table, panicked,
                     incidents>>,
         signalled' \in BOOLEAN
  PROVE  TypeOK' /\ Waiting' /\ Holders' /\ Known' = Known
<1>1. Known' = Known
  BY DEF Known
<1>2. TypeOK'
  BY <1>1 DEF SInv, TypeOK, ServerStates, Steps
<1> QED
  BY <1>1, <1>2 DEF SInv, Waiting, Holders

(* Steps that answer the client the server is busy with, and leave the     *)
(* connections alone.                                                      *)
LEMMA AnswerKeeps ==
  ASSUME SInv, endpoint # <<>>, NEW c, c = Head(endpoint),
         NEW state \in Life, state # "idle", Reply(c, state),
         UNCHANGED <<conns, held, rs, ring, signalled, table, panicked>>,
         incidents' \subseteq Incidents
  PROVE  SInv'
<1>1. /\ c \in Clients /\ client[c] \in {"opening", "closing"}
      /\ client' \in [Clients -> Life]
      /\ \A d \in Clients : client'[d] = IF d = c THEN state ELSE client[d]
      /\ endpoint' \in Seq(Clients)
      /\ server' = Idle /\ server' \in ServerStates /\ server'.at = "recv"
      /\ Waiting'
  BY ReplyFacts
<1>2. Known' = Known
  BY DEF Known
<1>3. TypeOK'
  BY <1>1, <1>2 DEF SInv, TypeOK, ServerStates, Life, Steps
<1>4. AtServer'
  BY <1>1 DEF AtServer, Idle
<1>5. rs # None => rs \in Clients /\ rs # c
  BY <1>1 DEF SInv, Holders, TypeOK
<1>6. Holders'
  BY <1>1, <1>2, <1>5 DEF SInv, Holders
<1> QED
  BY <1>1, <1>3, <1>4, <1>6 DEF SInv

LEMMA OpenArrivesFacts ==
  ASSUME SInv, NEW c \in Clients, OpenArrives(c)
  PROVE  /\ endpoint # <<>> /\ c = Head(endpoint) /\ client[c] = "opening"
         /\ server.at = "recv"
         /\ \/ c \in Known /\ Panic
            \/ /\ c \notin Known /\ Reply(c, "connected")
               /\ UNCHANGED <<conns, held, rs, ring, signalled, table,
                              panicked, incidents>>
            \/ /\ c \notin Known /\ Cardinality(Known) < MaxClients
               /\ server' = Doing("register", c, 0)
               /\ UNCHANGED <<conns, held, client, rs, ring, signalled,
                              endpoint, table, panicked, incidents>>
<1>1. Cardinality(Known) \in Nat /\ Cardinality(Known) <= MaxClients
  BY FS_CardinalityType DEF SInv, Holders, TypeOK
<1>2. ~TableFull => Cardinality(Known) < MaxClients
  BY <1>1, ConnectionAssumption DEF TableFull
<1> QED
  BY <1>2 DEF OpenArrives, Receives, rsVars, Idle

LEMMA OpenArrivesKeeps ==
  ASSUME SInv, NEW c \in Clients, OpenArrives(c)
  PROVE  SInv'
<1>1. CASE Panic
  BY <1>1, PanicKeeps
<1>2. CASE /\ Reply(c, "connected")
           /\ UNCHANGED <<conns, held, rs, ring, signalled, table, panicked,
                          incidents>>
  BY <1>2, OpenArrivesFacts, AnswerKeeps DEF SInv, TypeOK, Life
<1>3. CASE /\ Cardinality(Known) < MaxClients /\ c \notin Known
           /\ server' = Doing("register", c, 0)
           /\ UNCHANGED <<conns, held, client, rs, ring, signalled,
                          endpoint, table, panicked, incidents>>
  <2>1. /\ server' \in ServerStates /\ server'.at = "register"
        /\ server'.id = c /\ signalled \in BOOLEAN
    <3>1. TypeOK /\ 0 \in 0 .. Len(conns) /\ "register" \in Steps
      BY TypeFacts DEF SInv, Steps
    <3> QED
      BY <1>3, <3>1, States DEF TypeOK
  <2>2. TypeOK' /\ Waiting' /\ Holders' /\ Known' = Known
    BY <1>3, <2>1, ServerMoves
  <2>3. AtServer'
    BY <1>3, <2>1, <2>2, OpenArrivesFacts DEF AtServer
  <2> QED
    BY <2>2, <2>3 DEF SInv
<1> QED
  BY <1>1, <1>2, <1>3, OpenArrivesFacts

LEMMA CloseArrivesFacts ==
  ASSUME SInv, NEW c \in Clients, CloseArrives(c)
  PROVE  /\ endpoint # <<>> /\ c = Head(endpoint) /\ client[c] = "closing"
         /\ server.at = "recv"
         /\ \/ c \notin Known /\ Panic
            \/ /\ c \in Known
               /\ table[c].reg \in DOMAIN conns
               /\ conns[table[c].reg].id = c
               /\ server' = Doing("close", c, table[c].reg)
               /\ server' \in ServerStates
               /\ server'.at = "close" /\ server'.id = c
               /\ server'.reg = table[c].reg
               /\ UNCHANGED <<conns, held, client, rs, ring, signalled,
                              endpoint, table, panicked, incidents>>
<1>1. /\ endpoint # <<>> /\ c = Head(endpoint) /\ client[c] = "closing"
      /\ server.at = "recv"
      /\ IF c \in Known
         THEN /\ server' = Doing("close", c, table[c].reg)
              /\ UNCHANGED <<conns, held, client, rs, ring, signalled,
                             endpoint, table, panicked, incidents>>
         ELSE Panic
  BY DEF CloseArrives, Receives, Idle
<1>2. ASSUME c \in Known
      PROVE  /\ table[c].reg \in DOMAIN conns /\ conns[table[c].reg].id = c
             /\ table[c].reg \in 0 .. Len(conns)
  <2>1. /\ table \in [Known -> [reg : DOMAIN conns, objs : 0 .. MaxObjs]]
        /\ DOMAIN conns = 1 .. Len(conns) /\ Len(conns) \in Nat
    BY TypeFacts DEF SInv
  <2>2. table[c].reg \in DOMAIN conns
    BY <1>2, <2>1
  <2> QED
    BY <1>2, <2>1, <2>2 DEF SInv, Holders
<1>3. "close" \in Steps /\ TypeOK
  BY DEF Steps, SInv
<1> QED
  BY <1>1, <1>2, <1>3, States

LEMMA CloseArrivesKeeps ==
  ASSUME SInv, NEW c \in Clients, CloseArrives(c)
  PROVE  SInv'
<1>1. CASE Panic
  BY <1>1, PanicKeeps
<1>2. CASE ~Panic
  <2>1. /\ endpoint # <<>> /\ c = Head(endpoint) /\ client[c] = "closing"
        /\ table[c].reg \in DOMAIN conns /\ conns[table[c].reg].id = c
        /\ server' \in ServerStates
        /\ server'.at = "close" /\ server'.id = c
        /\ server'.reg = table[c].reg
        /\ UNCHANGED <<conns, held, client, rs, ring, signalled,
                       endpoint, table, panicked, incidents>>
    BY <1>2, CloseArrivesFacts
  <2>2. TypeOK' /\ Waiting' /\ Holders' /\ Known' = Known
    BY <2>1, ServerMoves DEF SInv, TypeOK
  <2>3. AtServer'
    BY <2>1, <2>2 DEF AtServer
  <2> QED
    BY <2>2, <2>3 DEF SInv
<1> QED
  BY <1>1, <1>2

(* conn_register marks one connection of the client.                       *)
LEMMA RegisterFacts ==
  ASSUME SInv, Register
  PROVE  /\ server.at = "register" /\ endpoint # <<>>
         /\ server.id = Head(endpoint) /\ server.id \in Clients
         /\ client[server.id] = "opening"
         /\ conns' \in Seq(Conn) /\ Len(conns') = Len(conns)
         /\ DOMAIN conns' = DOMAIN conns
         /\ \E i \in DOMAIN conns :
              /\ IsFirst(server.id, i) /\ conns[i].id = server.id
              /\ conns' = Mark(i)
              /\ \A j \in DOMAIN conns :
                   /\ conns'[j].id = conns[j].id
                   /\ conns'[j].registered = (j = i \/ conns[j].registered)
              /\ \/ /\ server' \in ServerStates
                    /\ server'.at = "store" /\ server'.id = server.id
                    /\ server'.reg = i
                    /\ UNCHANGED <<client, endpoint, incidents>>
                 \/ /\ Reply(server.id, "connected")
                    /\ Note({"handles"})
         /\ UNCHANGED <<held, rs, ring, signalled, table, panicked>>
<1>1. /\ server.at = "register" /\ endpoint # <<>>
      /\ server.id = Head(endpoint) /\ server.id \in Clients
      /\ client[server.id] = "opening" /\ TypeOK
      /\ UNCHANGED <<held, rs, ring, signalled, table, panicked>>
  BY TypeFacts DEF Register, SInv, AtServer
<1>2. PICK i \in DOMAIN conns :
        /\ IsFirst(server.id, i) /\ conns' = Mark(i)
        /\ \/ /\ server' = Doing("store", server.id, i)
              /\ UNCHANGED <<client, endpoint, incidents>>
           \/ /\ Reply(server.id, "connected")
              /\ Note({"handles"})
  BY Zenon DEF Register
<1>3. conns' = [conns EXCEPT ![i].registered = TRUE] /\ conns[i].id = server.id
  BY <1>2 DEF Mark, IsFirst
<1>4. /\ conns' \in Seq(Conn) /\ Len(conns') = Len(conns)
      /\ DOMAIN conns' = DOMAIN conns
      /\ \A j \in DOMAIN conns :
           /\ conns'[j].id = conns[j].id
           /\ conns'[j].registered = IF j = i THEN TRUE ELSE conns[j].registered
  BY <1>1, <1>3, Marking
<1>5. \A j \in DOMAIN conns :
        conns'[j].registered = (j = i \/ conns[j].registered)
  <2>1. \A j \in DOMAIN conns : conns[j].registered \in BOOLEAN
    BY <1>1, TypeFacts DEF Conn
  <2> QED
    BY <1>4, <2>1
<1>6. LET s == Doing("store", server.id, i) IN
      /\ s \in ServerStates /\ s.at = "store" /\ s.id = server.id /\ s.reg = i
  <2>1. i \in 0 .. Len(conns) /\ "store" \in Steps
    BY <1>1, TypeFacts DEF Steps
  <2> QED
    BY <1>1, <2>1, States
<1> QED
  BY <1>1, <1>2, <1>3, <1>4, <1>5, <1>6

(* A step of the server: it may mark or unmark a connection, answer the    *)
(* client it is busy with, and add to its table or take from it.           *)
LEMMA ServerKeeps ==
  ASSUME SInv,
         conns' \in Seq(Conn), Len(conns') = Len(conns),
         DOMAIN conns' = DOMAIN conns,
         \A j \in DOMAIN conns : conns'[j].id = conns[j].id,
         UNCHANGED <<held, rs, panicked>>,
         ring' \in Seq(Clients), Len(ring') <= NtfnCapacity,
         signalled' \in BOOLEAN,
         client' \in [Clients -> Life], endpoint' \in Seq(Clients), Waiting',
         \A d \in Clients : client'[d] # client[d] =>
           client[d] \in {"opening", "closing"} /\ client'[d] # "idle",
         server' \in ServerStates, AtServer',
         Known' \subseteq Clients, IsFiniteSet(Known'),
         Cardinality(Known') <= MaxClients,
         table' \in [Known' -> [reg : DOMAIN conns, objs : 0 .. MaxObjs]],
         \A d \in Known' : conns[table'[d].reg].id = d,
         incidents' \subseteq Incidents
  PROVE  SInv'
<1>1. TypeOK'
  BY TypeKept DEF SInv, TypeOK, ServerStates
<1>2. \A d \in Known' : table'[d].reg \in DOMAIN conns
  OBVIOUS
<1>3. rs # None => rs \in Clients
  BY DEF SInv, TypeOK
<1>4. Holders'
  BY <1>2, <1>3 DEF SInv, Holders
<1> QED
  BY <1>1, <1>4 DEF SInv

LEMMA TableFacts ==
  ASSUME SInv
  PROVE  /\ Known \subseteq Clients /\ IsFiniteSet(Known)
         /\ Cardinality(Known) <= MaxClients
         /\ table \in [Known -> [reg : DOMAIN conns, objs : 0 .. MaxObjs]]
         /\ \A d \in Known : /\ table[d].reg \in DOMAIN conns
                             /\ conns[table[d].reg].id = d
  BY TypeFacts DEF SInv, Holders, TypeOK

LEMMA RegisterKeeps ==
  ASSUME SInv, Register
  PROVE  SInv'
<1> DEFINE c == server.id
<1>1. /\ endpoint # <<>> /\ c = Head(endpoint) /\ c \in Clients
      /\ client[c] = "opening" /\ server.at = "register"
      /\ conns' \in Seq(Conn) /\ Len(conns') = Len(conns)
      /\ DOMAIN conns' = DOMAIN conns
      /\ UNCHANGED <<held, rs, ring, signalled, table, panicked>>
  BY RegisterFacts
<1>2. PICK i \in DOMAIN conns :
        /\ conns[i].id = c
        /\ \A j \in DOMAIN conns : conns'[j].id = conns[j].id
        /\ \/ /\ server' \in ServerStates
              /\ server'.at = "store" /\ server'.id = c /\ server'.reg = i
              /\ UNCHANGED <<client, endpoint, incidents>>
           \/ Reply(c, "connected") /\ Note({"handles"})
  BY RegisterFacts
<1>3. /\ TypeOK /\ Known' = Known
      /\ client \in [Clients -> Life] /\ endpoint \in Seq(Clients)
      /\ ring \in Seq(Clients) /\ Len(ring) <= NtfnCapacity
      /\ signalled \in BOOLEAN
  BY <1>1, TypeFacts DEF SInv, Known, TypeOK
<1>4. CASE /\ server' \in ServerStates
           /\ server'.at = "store" /\ server'.id = c /\ server'.reg = i
           /\ UNCHANGED <<client, endpoint, incidents>>
  <2>1. AtServer'
    BY <1>1, <1>2, <1>3, <1>4 DEF SInv, AtServer
  <2>2. Waiting' /\ incidents' \subseteq Incidents
    BY <1>4 DEF SInv, Waiting, TypeOK
  <2> QED
    BY <1>1, <1>2, <1>3, <1>4, <2>1, <2>2, TableFacts, ServerKeeps
<1>5. CASE Reply(c, "connected") /\ Note({"handles"})
  <2>1. /\ client' \in [Clients -> Life] /\ endpoint' \in Seq(Clients)
        /\ \A d \in Clients : client'[d] = IF d = c THEN "connected"
                                           ELSE client[d]
        /\ server' = Idle /\ server' \in ServerStates /\ server'.at = "recv"
        /\ Waiting'
    BY <1>1, <1>5, ReplyFacts DEF Life
  <2>2. AtServer'
    BY <2>1 DEF AtServer, Idle
  <2>3. incidents' \subseteq Incidents
    BY <1>5, <1>3 DEF Note, TypeOK, Incidents
  <2> QED
    BY <1>1, <1>2, <1>3, <2>1, <2>2, <2>3, TableFacts, ServerKeeps
<1> QED
  BY <1>2, <1>4, <1>5

(* The rest of conn_open.                                                  *)
LEMMA StoreFacts ==
  ASSUME SInv, Store
  PROVE  /\ server.at = "store" /\ endpoint # <<>>
         /\ server.id = Head(endpoint) /\ server.id \in Clients
         /\ server.id \notin Known
         /\ client[server.id] = "opening"
         /\ server.reg \in DOMAIN conns /\ conns[server.reg].id = server.id
         /\ Cardinality(Known) < MaxClients
         /\ UNCHANGED <<conns, held, rs, ring, signalled, panicked>>
         /\ \/ /\ table' = Learn(server.id, server.reg)
               /\ Reply(server.id, "open")
               /\ UNCHANGED incidents
            \/ /\ server' \in ServerStates /\ server'.at = "undo"
               /\ server'.id = server.id /\ server'.reg = server.reg
               /\ UNCHANGED <<client, endpoint, table, incidents>>
            \/ /\ Reply(server.id, "connected")
               /\ Note({"shared_buffer"})
               /\ UNCHANGED table
<1>1. /\ server.at = "store" /\ endpoint # <<>>
      /\ server.id = Head(endpoint) /\ server.id \in Clients
      /\ server.id \notin Known
      /\ client[server.id] = "opening" /\ TypeOK
      /\ server.reg \in DOMAIN conns /\ conns[server.reg].id = server.id
      /\ Cardinality(Known) < MaxClients
      /\ UNCHANGED <<conns, held, rs, ring, signalled, panicked>>
  BY TypeFacts DEF Store, SInv, AtServer, rsVars
<1>2. LET s == Doing("undo", server.id, server.reg) IN
      /\ s \in ServerStates /\ s.at = "undo" /\ s.id = server.id
      /\ s.reg = server.reg
  <2>1. server.reg \in 0 .. Len(conns) /\ "undo" \in Steps
    BY <1>1, TypeFacts DEF Steps
  <2> QED
    BY <1>1, <2>1, States
<1> QED
  BY <1>1, <1>2 DEF Store

LEMMA StoreKeeps ==
  ASSUME SInv, Store
  PROVE  SInv'
<1> DEFINE c == server.id
<1>1. /\ endpoint # <<>> /\ c = Head(endpoint) /\ c \in Clients
      /\ client[c] = "opening" /\ c \notin Known
      /\ server.reg \in DOMAIN conns /\ conns[server.reg].id = c
      /\ Cardinality(Known) < MaxClients
      /\ UNCHANGED <<conns, held, rs, ring, signalled, panicked>>
  BY StoreFacts
<1>2. /\ TypeOK /\ conns \in Seq(Conn)
      /\ client \in [Clients -> Life] /\ endpoint \in Seq(Clients)
      /\ ring \in Seq(Clients) /\ Len(ring) <= NtfnCapacity
      /\ signalled \in BOOLEAN
  BY TypeFacts DEF SInv, TypeOK
<1>3. CASE /\ server' \in ServerStates /\ server'.at = "undo"
           /\ server'.id = c /\ server'.reg = server.reg
           /\ UNCHANGED <<client, endpoint, table, incidents>>
  <2>1. /\ TypeOK' /\ Waiting' /\ Holders' /\ Known' = Known
    BY <1>1, <1>2, <1>3, ServerMoves
  <2>2. AtServer'
    BY <1>1, <1>3, <2>1 DEF AtServer
  <2> QED
    BY <2>1, <2>2 DEF SInv
<1>4. CASE Reply(c, "connected") /\ Note({"shared_buffer"}) /\ UNCHANGED table
  BY <1>1, <1>2, <1>4, AnswerKeeps DEF Life, Note, TypeOK, Incidents
<1>5. CASE table' = Learn(c, server.reg) /\ Reply(c, "open")
           /\ UNCHANGED incidents
  <2>1. /\ client' \in [Clients -> Life] /\ endpoint' \in Seq(Clients)
        /\ \A d \in Clients : client'[d] = IF d = c THEN "open" ELSE client[d]
        /\ server' = Idle /\ server' \in ServerStates /\ server'.at = "recv"
        /\ Waiting'
    BY <1>1, <1>5, ReplyFacts DEF Life
  <2>2. AtServer'
    BY <2>1 DEF AtServer, Idle
  <2>3. /\ Known' = Known \cup {c} /\ Known' \subseteq Clients
        /\ IsFiniteSet(Known') /\ Cardinality(Known') <= MaxClients
        /\ table' \in [Known' -> [reg : DOMAIN conns, objs : 0 .. MaxObjs]]
        /\ table'[c] = [reg |-> server.reg, objs |-> 0]
        /\ \A d \in Known : table'[d] = table[d]
    BY <1>1, <1>2, <1>5, TableFacts, Learning
  <2>4. \A d \in Known' : conns[table'[d].reg].id = d
    BY <1>1, <2>3, TableFacts
  <2>5. incidents' \subseteq Incidents
    BY <1>2, <1>5 DEF TypeOK
  <2> QED
    BY <1>1, <1>2, <2>1, <2>2, <2>3, <2>4, <2>5, ServerKeeps
<1> QED
  BY <1>3, <1>4, <1>5, StoreFacts

(* conn_deregister takes one mark away.                                    *)
LEMMA DeregisterFacts ==
  ASSUME SInv, Deregister
  PROVE  /\ server.at \in {"undo", "close"} /\ endpoint # <<>>
         /\ server.id = Head(endpoint) /\ server.id \in Clients
         /\ client[server.id] \in {"opening", "closing"}
         /\ server.reg \in DOMAIN conns /\ conns[server.reg].id = server.id
         /\ conns' \in Seq(Conn) /\ Len(conns') = Len(conns)
         /\ DOMAIN conns' = DOMAIN conns
         /\ \A j \in DOMAIN conns :
              /\ conns'[j].id = conns[j].id
              /\ conns'[j].registered =
                   (j # server.reg /\ conns[j].registered)
         /\ \/ /\ server.at = "undo" /\ Reply(server.id, "connected")
            \/ /\ server.at = "close" /\ client[server.id] = "closing"
               /\ server' \in ServerStates /\ server'.at = "delete"
               /\ server'.id = server.id /\ server'.reg = server.reg
               /\ UNCHANGED <<client, endpoint>>
         /\ UNCHANGED <<held, rs, ring, signalled, table, panicked, incidents>>
<1>1. /\ server.at \in {"undo", "close"} /\ endpoint # <<>>
      /\ server.id = Head(endpoint) /\ server.id \in Clients
      /\ client[server.id] \in {"opening", "closing"}
      /\ server.at = "close" => client[server.id] = "closing"
      /\ server.reg \in DOMAIN conns /\ conns[server.reg].id = server.id
      /\ TypeOK /\ server \in ServerStates
      /\ conns' = [conns EXCEPT ![server.reg].registered = FALSE]
      /\ UNCHANGED <<held, rs, ring, signalled, table, panicked, incidents>>
  BY TypeFacts DEF Deregister, SInv, AtServer, Unmark, ServerStates
<1>2. /\ conns' \in Seq(Conn) /\ Len(conns') = Len(conns)
      /\ DOMAIN conns' = DOMAIN conns
      /\ \A j \in DOMAIN conns :
           /\ conns'[j].id = conns[j].id
           /\ conns'[j].registered = IF j = server.reg THEN FALSE
                                     ELSE conns[j].registered
  BY <1>1, Marking
<1>3. \A j \in DOMAIN conns :
        conns'[j].registered = (j # server.reg /\ conns[j].registered)
  <2>1. \A j \in DOMAIN conns : conns[j].registered \in BOOLEAN
    BY <1>1, TypeFacts DEF Conn
  <2> QED
    BY <1>2, <2>1
<1>4. LET s == [server EXCEPT !.at = "delete"] IN
      /\ s \in ServerStates /\ s.at = "delete" /\ s.id = server.id
      /\ s.reg = server.reg
  BY <1>1 DEF ServerStates, Steps
<1>5. \/ server.at = "undo" /\ Reply(server.id, "connected")
      \/ /\ server.at = "close" /\ server' = [server EXCEPT !.at = "delete"]
         /\ UNCHANGED <<client, endpoint>>
  BY DEF Deregister
<1> QED
  BY <1>1, <1>2, <1>3, <1>4, <1>5

LEMMA DeregisterKeeps ==
  ASSUME SInv, Deregister
  PROVE  SInv'
<1> DEFINE c == server.id
<1>1. /\ server.at \in {"undo", "close"} /\ endpoint # <<>>
      /\ c = Head(endpoint) /\ c \in Clients
      /\ client[c] \in {"opening", "closing"}
      /\ server.reg \in DOMAIN conns /\ conns[server.reg].id = c
      /\ conns' \in Seq(Conn) /\ Len(conns') = Len(conns)
      /\ DOMAIN conns' = DOMAIN conns
      /\ \A j \in DOMAIN conns : conns'[j].id = conns[j].id
      /\ UNCHANGED <<held, rs, ring, signalled, table, panicked, incidents>>
  BY DeregisterFacts
<1>2. /\ TypeOK /\ Known' = Known
      /\ client \in [Clients -> Life] /\ endpoint \in Seq(Clients)
      /\ ring \in Seq(Clients) /\ Len(ring) <= NtfnCapacity
      /\ signalled \in BOOLEAN /\ incidents \subseteq Incidents
  BY <1>1, TypeFacts DEF SInv, Known, TypeOK
<1>3. CASE Reply(c, "connected")
  <2>1. /\ client' \in [Clients -> Life] /\ endpoint' \in Seq(Clients)
        /\ \A d \in Clients : client'[d] = IF d = c THEN "connected"
                                           ELSE client[d]
        /\ server' = Idle /\ server' \in ServerStates /\ server'.at = "recv"
        /\ Waiting'
    BY <1>1, <1>3, ReplyFacts DEF Life
  <2>2. AtServer'
    BY <2>1 DEF AtServer, Idle
  <2> QED
    BY <1>1, <1>2, <2>1, <2>2, TableFacts, ServerKeeps
<1>4. CASE /\ client[c] = "closing"
           /\ server' \in ServerStates /\ server'.at = "delete"
           /\ server'.id = c /\ server'.reg = server.reg
           /\ UNCHANGED <<client, endpoint>>
  <2>1. AtServer'
    BY <1>1, <1>4 DEF AtServer
  <2>2. Waiting'
    BY <1>4 DEF SInv, Waiting
  <2> QED
    BY <1>1, <1>2, <1>4, <2>1, <2>2, TableFacts, ServerKeeps
<1> QED
  BY <1>3, <1>4, DeregisterFacts

LEMMA DeleteClientFacts ==
  ASSUME SInv, DeleteClient
  PROVE  /\ server.at = "delete" /\ endpoint # <<>>
         /\ server.id = Head(endpoint) /\ server.id \in Clients
         /\ client[server.id] = "closing"
         /\ server.reg \in DOMAIN conns
         /\ table' = Forget(server.id) /\ Reply(server.id, "connected")
         /\ UNCHANGED <<conns, held, rs, ring, signalled, panicked, incidents>>
  BY TypeFacts DEF DeleteClient, SInv, AtServer, rsVars

LEMMA DeleteClientKeeps ==
  ASSUME SInv, DeleteClient
  PROVE  SInv'
<1> DEFINE c == server.id
<1>1. /\ endpoint # <<>> /\ c = Head(endpoint) /\ c \in Clients
      /\ table' = Forget(c) /\ Reply(c, "connected")
      /\ UNCHANGED <<conns, held, rs, ring, signalled, panicked, incidents>>
  BY DeleteClientFacts
<1>2. /\ TypeOK /\ conns \in Seq(Conn)
      /\ ring \in Seq(Clients) /\ Len(ring) <= NtfnCapacity
      /\ signalled \in BOOLEAN /\ incidents \subseteq Incidents
  BY TypeFacts DEF SInv, TypeOK
<1>3. /\ client' \in [Clients -> Life] /\ endpoint' \in Seq(Clients)
      /\ client[c] \in {"opening", "closing"}
      /\ \A d \in Clients : client'[d] = IF d = c THEN "connected"
                                         ELSE client[d]
      /\ server' = Idle /\ server' \in ServerStates /\ server'.at = "recv"
      /\ Waiting'
  BY <1>1, ReplyFacts DEF Life
<1>4. AtServer'
  BY <1>3 DEF AtServer, Idle
<1>5. /\ Known' = Known \ {c} /\ Known' \subseteq Clients
      /\ IsFiniteSet(Known') /\ Cardinality(Known') <= MaxClients
      /\ table' \in [Known' -> [reg : DOMAIN conns, objs : 0 .. MaxObjs]]
      /\ \A d \in Known' : table'[d] = table[d]
  BY <1>1, <1>2, TableFacts, Forgetting
<1>6. \A d \in Known' : conns[table'[d].reg].id = d
  BY <1>5, TableFacts
<1> QED
  BY <1>1, <1>2, <1>3, <1>4, <1>5, <1>6, ServerKeeps

LEMMA NotifiedKeeps ==
  ASSUME SInv, Notified
  PROVE  SInv' /\ server.at = "recv" /\ server'.at = "drain"
<1>1. /\ server.at = "recv" /\ server' = Doing("drain", None, 0)
      /\ signalled' = FALSE
      /\ UNCHANGED <<conns, held, rs, client, ring, endpoint, table, panicked,
                     incidents>>
  BY DEF Notified, rsVars, Idle
<1>2. server' \in ServerStates /\ server'.at = "drain"
  <2>1. TypeOK /\ 0 \in 0 .. Len(conns) /\ "drain" \in Steps
    BY TypeFacts DEF SInv, Steps
  <2> QED
    BY <1>1, <2>1, States
<1>3. TypeOK' /\ Waiting' /\ Holders'
  BY <1>1, <1>2, ServerMoves
<1>4. AtServer'
  BY <1>2 DEF AtServer
<1> QED
  BY <1>1, <1>2, <1>3, <1>4 DEF SInv

LEMMA DrainFacts ==
  ASSUME SInv, Drain
  PROVE  /\ server.at = "drain"
         /\ \/ /\ ring = <<>> /\ server' = Idle
               /\ UNCHANGED <<conns, held, client, rs, ring, signalled,
                              endpoint, table, panicked, incidents>>
            \/ /\ ring # <<>>
               /\ ~(Head(ring) \in Known /\ table[Head(ring)].objs = 0)
               /\ Panic
            \/ /\ ring # <<>>
               /\ ring' = Tail(ring) /\ table' = Forget(Head(ring))
               /\ UNCHANGED <<conns, held, client, rs, signalled, endpoint,
                              server, panicked, incidents>>
  BY DEF Drain, rsVars

LEMMA DrainKeeps ==
  ASSUME SInv, Drain
  PROVE  SInv'
<1>1. /\ TypeOK /\ conns \in Seq(Conn) /\ client \in [Clients -> Life]
      /\ ring \in Seq(Clients) /\ Len(ring) <= NtfnCapacity
      /\ endpoint \in Seq(Clients) /\ server \in ServerStates
      /\ signalled \in BOOLEAN /\ incidents \subseteq Incidents
  BY TypeFacts DEF SInv, TypeOK, ServerStates
<1>2. CASE /\ ring = <<>> /\ server' = Idle
           /\ UNCHANGED <<conns, held, client, rs, ring, signalled,
                          endpoint, table, panicked, incidents>>
  <2>1. server' \in ServerStates /\ server'.at = "recv"
    BY <1>1, <1>2, States
  <2>2. TypeOK' /\ Waiting' /\ Holders'
    BY <1>1, <1>2, <2>1, ServerMoves
  <2>3. AtServer'
    BY <1>2, <2>1 DEF AtServer, Idle
  <2> QED
    BY <2>2, <2>3 DEF SInv
<1>3. CASE Panic
  BY <1>3, PanicKeeps
<1>4. CASE /\ ring # <<>>
           /\ ring' = Tail(ring) /\ table' = Forget(Head(ring))
           /\ UNCHANGED <<conns, held, client, rs, signalled, endpoint,
                          server, panicked, incidents>>
  <2>1. ring' \in Seq(Clients) /\ Len(ring') <= NtfnCapacity
    <3>1. /\ ring' \in Seq(Clients) /\ Len(ring') < Len(ring)
          /\ Len(ring) \in Nat /\ Len(ring') \in Nat
      BY <1>1, <1>4, Shorter
    <3> QED
      BY <1>1, <3>1, ConnectionAssumption
  <2>2. /\ Known' = Known \ {Head(ring)} /\ Known' \subseteq Clients
        /\ IsFiniteSet(Known') /\ Cardinality(Known') <= MaxClients
        /\ table' \in [Known' -> [reg : DOMAIN conns, objs : 0 .. MaxObjs]]
        /\ \A d \in Known' : table'[d] = table[d]
    BY <1>1, <1>4, TableFacts, Forgetting
  <2>3. \A d \in Known' : conns[table'[d].reg].id = d
    BY <2>2, TableFacts
  <2>4. AtServer'
    BY <1>4, DrainFacts DEF AtServer
  <2>5. Waiting'
    BY <1>4 DEF SInv, Waiting
  <2> QED
    BY <1>1, <1>4, <2>1, <2>2, <2>3, <2>4, <2>5, ServerKeeps
<1> QED
  BY <1>2, <1>3, <1>4, DrainFacts

LEMMA NextKeeps == ASSUME SInv, [Next]_vars PROVE SInv'
<1>1. CASE ClientNext
  BY <1>1, ConnCreateKeeps, CallServerKeeps, ConnDestroyKeeps, ObjCallKeeps
     DEF ClientNext
<1>2. CASE Signal
  BY <1>2, SignalKeeps
<1>3. CASE ServerNext
  BY <1>3, OpenArrivesKeeps, CloseArrivesKeeps, RegisterKeeps, StoreKeeps,
     DeregisterKeeps, DeleteClientKeeps, NotifiedKeeps, DrainKeeps
     DEF ServerNext
<1>4. CASE UNCHANGED vars
  <2>1. Known' = Known /\ TypeOK'
    BY <1>4 DEF vars, rsVars, serverVars, Known, SInv, TypeOK
  <2> QED
    BY <1>4, <2>1 DEF vars, rsVars, serverVars, SInv, Waiting, AtServer,
       Holders, Idle
<1> QED
  BY <1>1, <1>2, <1>3, <1>4 DEF Next

-----------------------------------------------------------------------------
(***************************************************************************)
(* What holds as long as clients are orderly.  A mark is the server's      *)
(* registration of a client it knows or is busy with, or is left over from *)
(* a client that vanished.                                                 *)
(***************************************************************************)
Marks ==
  \A i \in DOMAIN conns : conns[i].registered =>
    LET c == conns[i].id IN
    \/ c \in Known /\ table[c].reg = i
    \/ server.at \in {"store", "undo"} /\ server.reg = i
    \/ "vanish" \in incidents /\ (held[c] # i \/ client[c] = "destroying")

Users ==
  /\ \A c \in Clients :
       /\ client[c] \in {"open", "closing"} => c \in Known
       /\ client[c] \in {"connected", "opening"} => c \notin Known
       /\ client[c] = "open" => conns[table[c].reg].registered
       /\ client[c] = "closing" =>
            \/ conns[table[c].reg].registered
            \/ server.at = "delete" /\ server.id = c
  /\ server.at \in {"store", "undo", "close"} => conns[server.reg].registered
  /\ server.at \in {"close", "delete"} => table[server.id].reg = server.reg
  /\ server.at = "delete" => ~conns[server.reg].registered

(* The clients that are gone but known, and the messages about them.       *)
Ghosts ==
  /\ \A c \in Known : client[c] \notin {"open", "closing"} =>
       table[c].objs = 0 /\ \E k \in DOMAIN ring : ring[k] = c
  /\ \A k \in DOMAIN ring :
       ring[k] \in Known /\ client[ring[k]] \in {"idle", "destroying"}
  /\ \A j, k \in DOMAIN ring : ring[j] = ring[k] => j = k
  /\ ring # <<>> => "vanish" \in incidents

Once ==
  "reconnect" \notin incidents =>
    \A i, j \in DOMAIN conns : conns[i].id = conns[j].id => i = j

OInv == ~panicked /\ Marks /\ Users /\ Ghosts /\ Once

(* The ring takes one message of each client the server can know.          *)
RingHoldsAll == MaxClients <= NtfnCapacity

LEMMA OneKind ==
  ASSUME NEW i, i \in (SUBSET {"vanish"}) \cup (SUBSET {"reconnect"})
  PROVE  /\ ~("vanish" \in i /\ "reconnect" \in i)
         /\ "abandon" \notin i /\ "handles" \notin i
         /\ "shared_buffer" \notin i
<1>1. CASE i \in SUBSET {"vanish"}
  <2>1. \A x \in i : x = "vanish"
    BY <1>1
  <2> QED
    BY <2>1
<1>2. CASE i \in SUBSET {"reconnect"}
  <2>1. \A x \in i : x = "reconnect"
    BY <1>2
  <2> QED
    BY <2>1
<1> QED
  BY <1>1, <1>2

LEMMA OrderlyFacts ==
  ASSUME Orderly'
  PROVE  /\ ~("vanish" \in incidents' /\ "reconnect" \in incidents')
         /\ "abandon" \notin incidents' /\ "handles" \notin incidents'
         /\ "shared_buffer" \notin incidents'
  BY OneKind DEF Orderly

LEMMA InitOInv == Init => OInv
<1> SUFFICES ASSUME Init PROVE OInv
  OBVIOUS
<1>1. Known = {} /\ DOMAIN conns = {} /\ DOMAIN ring = {}
  <2>1. \A T : <<>> \in [1 .. 0 -> T]
    OBVIOUS
  <2> QED
    BY <2>1 DEF Known, Init
<1>2. Marks /\ Users
  BY <1>1 DEF Init, Marks, Users, Idle
<1>3. Ghosts /\ Once
  BY <1>1 DEF Init, Ghosts, Once
<1> QED
  BY <1>2, <1>3 DEF OInv, Init

LEMMA ConnCreateOrderly ==
  ASSUME SInv, OInv, Orderly', NEW c \in Clients, ConnCreate(c)
  PROVE  OInv'
<1> DEFINE n == Len(conns) + 1
<1>1. /\ client[c] = "idle" /\ rs = None
      /\ conns' = Append(conns, [id |-> c, registered |-> FALSE])
      /\ held' = [held EXCEPT ![c] = Len(conns')]
      /\ client' = [client EXCEPT ![c] = "connected"]
      /\ UNCHANGED <<rs, ring, signalled, endpoint, server, table, panicked>>
      /\ incidents \subseteq incidents'
      /\ (\E i \in DOMAIN conns : conns[i].id = c) => "reconnect" \in incidents'
  BY OrderlyFacts DEF ConnCreate, serverVars, Note
<1>2. /\ TypeOK /\ [id |-> c, registered |-> FALSE] \in Conn
      /\ conns \in Seq(Conn) /\ client \in [Clients -> Life]
      /\ held \in [Clients -> 0 .. Len(conns)]
      /\ \A i \in DOMAIN conns : conns[i].id \in Clients
  BY TypeFacts DEF SInv, Conn
<1>3. /\ DOMAIN conns' = DOMAIN conns \cup {n} /\ n \notin DOMAIN conns
      /\ \A i \in DOMAIN conns : conns'[i] = conns[i]
      /\ conns'[n].id = c /\ conns'[n].registered = FALSE
  BY <1>1, <1>2, Longer
<1>4. /\ \A d \in Clients :
           d # c => client'[d] = client[d] /\ held'[d] = held[d]
      /\ client'[c] = "connected"
  BY <1>1, <1>2
<1>5. Known' = Known /\ Orderly' /\ ~panicked'
  BY <1>1 DEF Known, OInv
<1>6. "vanish" \in incidents' => \A i \in DOMAIN conns : conns[i].id # c
  BY <1>1, OrderlyFacts
<1>7. c \notin Known
  <2>1. ASSUME c \in Known PROVE "vanish" \in incidents
    BY <1>1, <2>1 DEF OInv, Ghosts
  <2>2. c \in Known =>
          table[c].reg \in DOMAIN conns /\ conns[table[c].reg].id = c
    BY TableFacts
  <2> QED
    BY <1>1, <1>6, <2>1, <2>2
<1> HIDE DEF n
<1>8. Marks'
  <2> SUFFICES ASSUME NEW i \in DOMAIN conns', conns'[i].registered
               PROVE  LET d == conns'[i].id IN
                      \/ d \in Known /\ table[d].reg = i
                      \/ server.at \in {"store", "undo"} /\ server.reg = i
                      \/ /\ "vanish" \in incidents'
                         /\ held'[d] # i \/ client'[d] = "destroying"
    BY <1>1, <1>5 DEF Marks
  <2>1. i \in DOMAIN conns /\ conns'[i] = conns[i] /\ conns[i].registered
    BY <1>3
  <2>2. conns[i].id \in Clients
    BY <1>2, <2>1
  <2> QED
    BY <1>1, <1>4, <1>6, <2>1, <2>2 DEF OInv, Marks
<1>9. Users'
  <2>1. \A d \in Known : table[d].reg \in DOMAIN conns
    BY TableFacts
  <2>2. server.at \in {"store", "undo", "close", "delete"} =>
          server.reg \in DOMAIN conns
    BY DEF SInv, AtServer
  <2> QED
    BY <1>1, <1>3, <1>4, <1>5, <1>7, <2>1, <2>2 DEF OInv, Users
<1>10. Ghosts'
  <2>1. Known \subseteq Clients
    BY TableFacts
  <2> QED
    BY <1>1, <1>4, <1>5, <1>7, <2>1 DEF OInv, Ghosts
<1>11. Once'
  BY <1>1, <1>3 DEF OInv, Once
<1> QED
  BY <1>5, <1>8, <1>9, <1>10, <1>11 DEF OInv

LEMMA CallServerOrderly ==
  ASSUME SInv, OInv, NEW c \in Clients, CallServer(c)
  PROVE  OInv'
<1>1. /\ \/ /\ client[c] = "connected"
            /\ client' = [client EXCEPT ![c] = "opening"]
         \/ /\ client[c] = "open"
            /\ client' = [client EXCEPT ![c] = "closing"]
      /\ UNCHANGED <<conns, held, rs, ring, signalled, server, table,
                     panicked, incidents>>
  BY DEF CallServer, rsVars, serverVars
<1>2. /\ client \in [Clients -> Life] /\ Known \subseteq Clients
      /\ \A i \in DOMAIN conns : conns[i].id \in Clients
  BY TypeFacts DEF SInv, Conn
<1>3. Known' = Known
  BY <1>1 DEF Known
<1>4. /\ \A d \in Clients : d # c => client'[d] = client[d]
      /\ \/ client[c] = "connected" /\ client'[c] = "opening"
         \/ client[c] = "open" /\ client'[c] = "closing"
  BY <1>1, <1>2
<1>5. Marks'
  BY <1>1, <1>2, <1>3, <1>4 DEF OInv, Marks
<1>6. Users'
  BY <1>1, <1>3, <1>4 DEF OInv, Users
<1>7. Ghosts'
  BY <1>1, <1>2, <1>3, <1>4 DEF OInv, Ghosts
<1> QED
  BY <1>1, <1>5, <1>6, <1>7 DEF OInv, Once

LEMMA SignalOrderly ==
  ASSUME SInv, OInv, Signal
  PROVE  OInv'
<1>1. /\ rs \in Clients /\ client[rs] = "destroying"
      /\ \A d \in Clients :
           /\ client'[d] = IF d = rs THEN "idle" ELSE client[d]
           /\ held'[d] = IF d = rs THEN 0 ELSE held[d]
      /\ UNCHANGED <<conns, ring, endpoint, server, table, panicked,
                     incidents>>
  BY SignalFacts
<1>2. /\ Known \subseteq Clients
      /\ \A i \in DOMAIN conns : conns[i].id \in Clients /\ i # 0
  BY TypeFacts DEF SInv, Conn
<1>3. Known' = Known
  BY <1>1 DEF Known
<1>4. Marks'
  BY <1>1, <1>2, <1>3 DEF OInv, Marks
<1>5. Users'
  BY <1>1, <1>3 DEF OInv, Users
<1>6. Ghosts'
  BY <1>1, <1>2, <1>3 DEF OInv, Ghosts
<1> QED
  BY <1>1, <1>4, <1>5, <1>6 DEF OInv, Once

LEMMA ObjCallOrderly ==
  ASSUME SInv, OInv, NEW c \in Clients, ObjCall(c)
  PROVE  OInv'
<1>1. client[c] = "open" /\ c \in Known
  BY DEF ObjCall, OInv, Users
<1>2. UNCHANGED <<conns, held, client, rs, ring, signalled, endpoint, server,
                  panicked, incidents>>
  BY <1>1 DEF ObjCall, rsVars
<1>3. /\ Known' = Known
      /\ \A d \in Known : table'[d].reg = table[d].reg
      /\ \A d \in Known : d # c => table'[d] = table[d]
  BY <1>2, ObjCallKeeps DEF Panic, OInv
<1>4. server.at \in {"close", "delete"} => server.id \in Known
  <2>1. endpoint # <<>> => Head(endpoint) \in Clients
    BY TypeFacts DEF SInv
  <2> QED
    BY <2>1 DEF SInv, AtServer, OInv, Users
<1>5. Marks'
  BY <1>2, <1>3 DEF OInv, Marks
<1>6. Users'
  BY <1>2, <1>3, <1>4 DEF OInv, Users
<1>7. Ghosts'
  BY <1>1, <1>2, <1>3 DEF OInv, Ghosts
<1> QED
  BY <1>2, <1>5, <1>6, <1>7 DEF OInv, Once

LEMMA UpTo == ASSUME NEW n \in Nat PROVE Cardinality(1 .. n) = n
<1>1. 1 \in Int /\ n \in Int
  OBVIOUS
<1>2. Cardinality(1 .. n) = IF 1 > n THEN 0 ELSE n - 1 + 1
  BY <1>1, FS_Interval
<1> QED
  BY <1>2

(* The messages are about known clients, one for each.                     *)
LEMMA RoomInRing ==
  ASSUME SInv, Ghosts, RingHoldsAll, NEW c \in Known,
         \A k \in DOMAIN ring : ring[k] # c
  PROVE  Len(ring) < NtfnCapacity
<1>1. /\ ring \in Seq(Clients) /\ Len(ring) \in Nat
      /\ IsFiniteSet(Known) /\ Cardinality(Known) <= MaxClients
  BY TypeFacts, TableFacts DEF SInv
<1> DEFINE others == Known \ {c}
<1>2. /\ IsFiniteSet(others) /\ Cardinality(others) = Cardinality(Known) - 1
      /\ Cardinality(Known) \in Nat /\ Cardinality(others) \in Nat
  BY <1>1, FS_RemoveElement, FS_CardinalityType
<1>3. ring \in [1 .. Len(ring) -> others]
  <2>1. DOMAIN ring = 1 .. Len(ring)
    BY <1>1
  <2>2. ring \in [1 .. Len(ring) -> Clients]
    BY <1>1
  <2>3. \A k \in 1 .. Len(ring) : ring[k] \in others
    BY <2>1 DEF Ghosts
  <2> QED
    BY <2>2, <2>3
<1>4. \A j, k \in 1 .. Len(ring) : ring[j] = ring[k] => j = k
  BY <1>1 DEF Ghosts
<1> HIDE DEF others
<1>5. ring \in Injection(1 .. Len(ring), others)
  BY <1>3, <1>4 DEF Injection, IsInjective
<1>6. Cardinality(1 .. Len(ring)) <= Cardinality(others)
  BY <1>2, <1>5, FS_Injection
<1>7. Len(ring) <= Cardinality(others)
  BY <1>1, <1>6, UpTo
<1> QED
  BY <1>1, <1>2, <1>7, ConnectionAssumption DEF RingHoldsAll

LEMMA ConnDestroyOrderly ==
  ASSUME SInv, OInv, Orderly', RingHoldsAll,
         NEW c \in Clients, ConnDestroy(c)
  PROVE  OInv'
<1> DEFINE i == held[c]
<1>1. /\ rs = None /\ client[c] \in {"connected", "open"}
      /\ i \in DOMAIN conns /\ conns[i].id = c
      /\ \A d \in Clients :
           d # c => client'[d] = client[d] /\ held'[d] = held[d]
      /\ UNCHANGED <<conns, signalled, endpoint, server, table>>
  BY ConnDestroyFacts
<1>2. /\ Known \subseteq Clients /\ Known' = Known /\ ~panicked
      /\ \A d \in Known : table[d].reg \in DOMAIN conns
                          /\ conns[table[d].reg].id = d
      /\ \A j \in DOMAIN conns : conns[j].id \in Clients /\ j # 0
      /\ ring \in Seq(Clients)
  BY <1>1, TableFacts, TypeFacts DEF SInv, Conn, Known, OInv
<1>3. ASSUME conns[i].registered PROVE client[c] = "open"
  <2>1. server.at \in {"store", "undo"} => server.id = conns[server.reg].id
                                           /\ client[server.id] = "opening"
    BY DEF SInv, AtServer
  <2>2. client[c] = "connected" => c \notin Known
    BY DEF OInv, Users
  <2> QED
    BY <1>1, <1>3, <2>1, <2>2 DEF OInv, Marks
<1> HIDE DEF i
<1>4. \A k \in DOMAIN ring : ring[k] # c
  BY <1>1 DEF OInv, Ghosts
<1>5. ~Panic
  <2> SUFFICES ASSUME Panic PROVE FALSE
    OBVIOUS
  <2>1. conns[held[c]].registered /\ RingFull
    BY ConnDestroyFacts DEF Note, Panic, OInv
  <2>2. c \in Known
    BY <1>3, <2>1 DEF OInv, Users, i
  <2>3. Len(ring) < NtfnCapacity
    BY <1>4, <2>2, RoomInRing DEF OInv
  <2>4. Len(ring) = NtfnCapacity
    BY <2>1 DEF RingFull
  <2> QED
    BY <2>3, <2>4, ConnectionAssumption
<1>6. /\ ~panicked' /\ incidents \subseteq incidents'
      /\ client[c] = "open" => "vanish" \in incidents'
      /\ c \in Known /\ table[c].objs > 0 => "abandon" \in incidents'
  BY <1>2, <1>5, ConnDestroyFacts DEF Note, Vanishing
<1>7. Users'
  <2>1. client'[c] \in {"idle", "destroying"}
    BY <1>5, ConnDestroyFacts
  <2> QED
    BY <1>1, <1>2, <2>1 DEF OInv, Users
<1>8. Once'
  BY <1>1, <1>6 DEF OInv, Once
<1>9. CASE /\ ~conns[i].registered
           /\ held'[c] = 0 /\ client'[c] = "idle"
           /\ UNCHANGED <<rs, ring, panicked>>
  <2>1. client[c] # "open"
    <3> SUFFICES ASSUME client[c] = "open" PROVE FALSE
      OBVIOUS
    <3>1. c \in Known /\ conns[table[c].reg].registered
      BY DEF OInv, Users
    <3>2. table[c].reg # i /\ table[c].reg \in DOMAIN conns
      BY <1>2, <1>9, <3>1
    <3>3. "reconnect" \in incidents
      BY <1>1, <1>2, <3>1, <3>2 DEF OInv, Once
    <3> QED
      BY <1>6, <3>3, OrderlyFacts
  <2>2. c \notin Known
    BY <1>1, <2>1 DEF OInv, Users
  <2>3. Marks'
    BY <1>1, <1>2, <1>6, <1>9 DEF OInv, Marks
  <2>4. Ghosts'
    BY <1>1, <1>2, <1>4, <1>6, <1>9, <2>2 DEF OInv, Ghosts
  <2> QED
    BY <1>6, <1>7, <1>8, <2>3, <2>4 DEF OInv
<1>10. CASE /\ conns[i].registered
            /\ ring' = Append(ring, c)
            /\ held' = held /\ client'[c] = "destroying"
  <2>1. /\ client[c] = "open" /\ c \in Known /\ "vanish" \in incidents'
    BY <1>3, <1>6, <1>10 DEF OInv, Users
  <2>2. table[c].objs = 0
    <3>1. table[c].objs \in 0 .. MaxObjs
      BY <2>1, TableFacts
    <3>2. ~(table[c].objs > 0)
      BY <1>6, <2>1, OrderlyFacts
    <3> QED
      BY <3>1, <3>2, ConnectionAssumption
  <2>3. /\ DOMAIN ring' = DOMAIN ring \cup {Len(ring) + 1}
        /\ \A k \in DOMAIN ring : ring'[k] = ring[k]
        /\ ring'[Len(ring) + 1] = c /\ ring' # <<>>
        /\ Len(ring) + 1 \notin DOMAIN ring
    BY <1>2, <1>10, Longer
  <2>4. Marks'
    BY <1>1, <1>2, <1>6, <1>10, <2>1 DEF OInv, Marks
  <2>5. \A d \in Known : client'[d] \notin {"open", "closing"} =>
          table'[d].objs = 0 /\ \E k \in DOMAIN ring' : ring'[k] = d
    <3> SUFFICES ASSUME NEW d \in Known, client'[d] \notin {"open", "closing"}
                 PROVE  /\ table[d].objs = 0
                        /\ \E k \in DOMAIN ring' : ring'[k] = d
      BY <1>1
    <3>1. CASE d = c
      BY <2>2, <2>3, <3>1
    <3>2. CASE d # c
      <4>1. table[d].objs = 0 /\ \E k \in DOMAIN ring : ring[k] = d
        BY <1>1, <1>2, <3>2 DEF OInv, Ghosts
      <4> QED
        BY <2>3, <4>1
    <3> QED
      BY <3>1, <3>2
  <2>6. \A k \in DOMAIN ring' :
          ring'[k] \in Known /\ client'[ring'[k]] \in {"idle", "destroying"}
    <3>1. \A k \in DOMAIN ring :
            ring[k] \in Known /\ client'[ring[k]] \in {"idle", "destroying"}
      BY <1>1, <1>2, <1>4 DEF OInv, Ghosts
    <3> QED
      BY <1>10, <2>1, <2>3, <3>1
  <2>7. \A j, k \in DOMAIN ring' : ring'[j] = ring'[k] => j = k
    BY <1>4, <2>3 DEF OInv, Ghosts
  <2> QED
    BY <1>2, <1>6, <1>7, <1>8, <2>1, <2>4, <2>5, <2>6, <2>7 DEF OInv, Ghosts
<1> QED
  BY <1>5, <1>9, <1>10, ConnDestroyFacts DEF i

LEMMA OpenArrivesOrderly ==
  ASSUME SInv, OInv, NEW c \in Clients, OpenArrives(c)
  PROVE  OInv'
<1>1. client[c] = "opening" /\ server.at = "recv" /\ c \notin Known
  BY OpenArrivesFacts DEF OInv, Users
<1>2. /\ Known \subseteq Clients
      /\ \A i \in DOMAIN conns : conns[i].id \in Clients
  BY TypeFacts DEF SInv, Conn
<1>3. /\ endpoint # <<>> /\ c = Head(endpoint)
      /\ UNCHANGED <<conns, held, rs, ring, table, panicked, incidents>>
      /\ \/ Reply(c, "connected")
         \/ server' = Doing("register", c, 0) /\ client' = client
  BY <1>1, OpenArrivesFacts
<1>4. /\ server'.at \in {"recv", "register"}
      /\ \A d \in Clients :
           client'[d] = IF d = c THEN client'[c] ELSE client[d]
      /\ client'[c] \in {client[c], "connected"}
  <2>1. CASE Reply(c, "connected")
    BY <1>3, <2>1, ReplyFacts DEF Life
  <2>2. CASE server' = Doing("register", c, 0) /\ client' = client
    BY <2>2 DEF Doing
  <2> QED
    BY <1>3, <2>1, <2>2
<1>5. Known' = Known
  BY <1>3 DEF Known
<1>6. Marks'
  BY <1>1, <1>2, <1>3, <1>4, <1>5 DEF OInv, Marks
<1>7. Users'
  BY <1>1, <1>3, <1>4, <1>5 DEF OInv, Users
<1>8. Ghosts'
  BY <1>1, <1>2, <1>3, <1>4, <1>5 DEF OInv, Ghosts
<1> QED
  BY <1>3, <1>6, <1>7, <1>8 DEF OInv, Once

LEMMA CloseArrivesOrderly ==
  ASSUME SInv, OInv, NEW c \in Clients, CloseArrives(c)
  PROVE  OInv'
<1>1. client[c] = "closing" /\ server.at = "recv" /\ c \in Known
  BY CloseArrivesFacts DEF OInv, Users
<1>2. /\ server'.at = "close" /\ server'.id = c /\ server'.reg = table[c].reg
      /\ UNCHANGED <<conns, held, client, rs, ring, table, panicked, incidents>>
  BY <1>1, CloseArrivesFacts
<1>3. Known' = Known
  BY <1>2 DEF Known
<1>4. Marks'
  BY <1>1, <1>2, <1>3 DEF OInv, Marks
<1>5. Users'
  BY <1>1, <1>2, <1>3 DEF OInv, Users
<1>6. Ghosts'
  BY <1>2, <1>3 DEF OInv, Ghosts
<1> QED
  BY <1>2, <1>4, <1>5, <1>6 DEF OInv, Once

LEMMA RegisterOrderly ==
  ASSUME SInv, OInv, Orderly', Register
  PROVE  OInv'
<1>1. /\ server.at = "register" /\ DOMAIN conns' = DOMAIN conns
      /\ UNCHANGED <<held, rs, ring, table, panicked>>
  BY RegisterFacts
<1>2. PICK i \in DOMAIN conns :
        /\ \A j \in DOMAIN conns :
             /\ conns'[j].id = conns[j].id
             /\ conns'[j].registered = (j = i \/ conns[j].registered)
        /\ server'.at = "store" /\ server'.reg = i
        /\ UNCHANGED <<client, incidents>>
  BY RegisterFacts, OrderlyFacts DEF Note
<1>3. Known' = Known /\ \A d \in Known : table[d].reg \in DOMAIN conns
  BY <1>1, TableFacts DEF Known
<1>4. Marks'
  BY <1>1, <1>2, <1>3, ZenonT(90) DEF OInv, Marks
<1>5. Users'
  BY <1>1, <1>2, <1>3 DEF OInv, Users
<1>6. Ghosts'
  BY <1>1, <1>2, <1>3 DEF OInv, Ghosts
<1>7. Once'
  BY <1>1, <1>2 DEF OInv, Once
<1> QED
  BY <1>1, <1>4, <1>5, <1>6, <1>7 DEF OInv

LEMMA StoreOrderly ==
  ASSUME SInv, OInv, Orderly', Store
  PROVE  OInv'
<1> DEFINE c == server.id
<1>1. /\ server.at = "store" /\ endpoint # <<>> /\ c = Head(endpoint)
      /\ c \in Clients /\ c \notin Known /\ client[c] = "opening"
      /\ server.reg \in DOMAIN conns /\ conns[server.reg].id = c
      /\ Cardinality(Known) < MaxClients
      /\ conns[server.reg].registered
      /\ UNCHANGED <<conns, held, rs, ring, panicked>>
  BY StoreFacts DEF OInv, Users
<1>2. /\ \/ /\ table' = Learn(c, server.reg) /\ Reply(c, "open")
         \/ /\ server'.at = "undo" /\ server'.reg = server.reg
            /\ UNCHANGED <<client, table>>
      /\ UNCHANGED incidents
  BY StoreFacts, OrderlyFacts DEF Note
<1>3. /\ Known \subseteq Clients
      /\ \A i \in DOMAIN conns : conns[i].id \in Clients
  BY TypeFacts DEF SInv, Conn
<1> HIDE DEF c
<1>4. CASE /\ server'.at = "undo" /\ server'.reg = server.reg
           /\ UNCHANGED <<client, table>>
  <2>1. Known' = Known
    BY <1>4 DEF Known
  <2>2. Marks'
    BY <1>1, <1>2, <1>4, <2>1 DEF OInv, Marks
  <2>3. Users'
    BY <1>1, <1>4, <2>1 DEF OInv, Users
  <2>4. Ghosts'
    BY <1>1, <1>2, <1>4, <2>1 DEF OInv, Ghosts
  <2> QED
    BY <1>1, <1>2, <2>2, <2>3, <2>4 DEF OInv, Once
<1>5. CASE table' = Learn(c, server.reg) /\ Reply(c, "open")
  <2>1. /\ \A d \in Clients : client'[d] = IF d = c THEN "open" ELSE client[d]
        /\ server'.at = "recv"
    BY <1>1, <1>5, ReplyFacts DEF Life
  <2>2. /\ Known' = Known \cup {c}
        /\ table'[c] = [reg |-> server.reg, objs |-> 0]
        /\ \A d \in Known : table'[d] = table[d]
    BY <1>1, <1>5, TableFacts, Learning DEF SInv
  <2>3. Marks'
    BY <1>1, <1>2, <1>3, <2>1, <2>2 DEF OInv, Marks
  <2>4. Users'
    BY <1>1, <2>1, <2>2 DEF OInv, Users
  <2>5. Ghosts'
    BY <1>1, <1>2, <1>3, <2>1, <2>2 DEF OInv, Ghosts
  <2> QED
    BY <1>1, <1>2, <2>3, <2>4, <2>5 DEF OInv, Once
<1> QED
  BY <1>2, <1>4, <1>5

LEMMA DeregisterOrderly ==
  ASSUME SInv, OInv, Deregister
  PROVE  OInv'
<1> DEFINE c == server.id
<1>1. /\ server.at \in {"undo", "close"} /\ endpoint # <<>>
      /\ c = Head(endpoint) /\ c \in Clients
      /\ server.reg \in DOMAIN conns /\ conns[server.reg].id = c
      /\ DOMAIN conns' = DOMAIN conns
      /\ \A j \in DOMAIN conns :
           /\ conns'[j].id = conns[j].id
           /\ conns'[j].registered = (j # server.reg /\ conns[j].registered)
      /\ \/ /\ server.at = "undo" /\ Reply(c, "connected")
         \/ /\ server.at = "close" /\ client[c] = "closing"
            /\ server'.at = "delete"
            /\ server'.id = c /\ server'.reg = server.reg
            /\ client' = client
      /\ UNCHANGED <<held, rs, ring, table, panicked, incidents>>
  BY DeregisterFacts
<1>2. /\ Known \subseteq Clients /\ Known' = Known
      /\ \A i \in DOMAIN conns : conns[i].id \in Clients
      /\ \A d \in Known : table[d].reg \in DOMAIN conns
                          /\ conns[table[d].reg].id = d
  BY <1>1, TypeFacts, TableFacts DEF SInv, Conn, Known
<1>3. Once'
  BY <1>1 DEF OInv, Once
<1>4. \A d \in Known : d # c =>
        conns'[table[d].reg].registered = conns[table[d].reg].registered
  <2>1. \A j \in DOMAIN conns : conns[j].registered \in BOOLEAN
    BY TypeFacts DEF SInv, Conn
  <2> QED
    BY <1>1, <1>2, <2>1
<1>5. \A j \in DOMAIN conns :
        /\ conns'[j].id = conns[j].id
        /\ conns'[j].registered => j # server.reg /\ conns[j].registered
  BY <1>1
<1> HIDE DEF c
<1>6. CASE server.at = "undo" /\ Reply(c, "connected")
  <2>1. /\ client[c] = "opening" /\ c \notin Known
    BY <1>1, <1>6 DEF SInv, AtServer, c
  <2>2. /\ \A d \in Clients : client'[d] = IF d = c THEN "connected"
                                           ELSE client[d]
        /\ server'.at = "recv"
    BY <1>1, <1>6, ReplyFacts DEF Life
  <2>3. Marks'
    <3> SUFFICES ASSUME NEW j \in DOMAIN conns, conns'[j].registered
                 PROVE  LET d == conns[j].id IN
                        \/ d \in Known /\ table[d].reg = j
                        \/ server'.at \in {"store", "undo"} /\ server'.reg = j
                        \/ /\ "vanish" \in incidents
                           /\ held[d] # j \/ client'[d] = "destroying"
      BY <1>1, <1>2, <1>5 DEF Marks
    <3>1. j # server.reg /\ conns[j].registered
      BY <1>5
    <3> QED
      BY <1>2, <2>1, <2>2, <3>1 DEF OInv, Marks
  <2>4. Users'
    BY <1>1, <1>2, <1>4, <1>6, <2>1, <2>2 DEF OInv, Users
  <2>5. Ghosts'
    BY <1>1, <1>2, <2>1, <2>2 DEF OInv, Ghosts
  <2> QED
    BY <1>1, <1>3, <2>3, <2>4, <2>5 DEF OInv
<1>7. CASE /\ server.at = "close" /\ client[c] = "closing"
           /\ server'.at = "delete"
           /\ server'.id = c /\ server'.reg = server.reg
           /\ client' = client
  <2>1. table[c].reg = server.reg
    BY <1>7 DEF OInv, Users, c
  <2>2. Marks'
    <3> SUFFICES ASSUME NEW j \in DOMAIN conns, conns'[j].registered
                 PROVE  LET d == conns[j].id IN
                        \/ d \in Known /\ table[d].reg = j
                        \/ server'.at \in {"store", "undo"} /\ server'.reg = j
                        \/ /\ "vanish" \in incidents
                           /\ held[d] # j \/ client'[d] = "destroying"
      BY <1>1, <1>2, <1>5 DEF Marks
    <3>1. conns[j].registered
      BY <1>5
    <3> QED
      BY <1>7, <3>1 DEF OInv, Marks
  <2>3. Users'
    BY <1>1, <1>2, <1>4, <1>7, <2>1 DEF OInv, Users
  <2>4. Ghosts'
    BY <1>1, <1>2, <1>7 DEF OInv, Ghosts
  <2> QED
    BY <1>1, <1>3, <2>2, <2>3, <2>4 DEF OInv
<1> QED
  BY <1>1, <1>6, <1>7

LEMMA DeleteClientOrderly ==
  ASSUME SInv, OInv, DeleteClient
  PROVE  OInv'
<1> DEFINE c == server.id
<1>1. /\ server.at = "delete" /\ endpoint # <<>> /\ c = Head(endpoint)
      /\ c \in Clients /\ client[c] = "closing"
      /\ server.reg \in DOMAIN conns
      /\ table' = Forget(c) /\ Reply(c, "connected")
      /\ UNCHANGED <<conns, held, rs, ring, panicked, incidents>>
  BY DeleteClientFacts
<1>2. /\ Known \subseteq Clients
      /\ \A i \in DOMAIN conns : conns[i].id \in Clients
      /\ table[c].reg = server.reg /\ ~conns[server.reg].registered
  BY <1>1, TypeFacts DEF SInv, Conn, OInv, Users
<1>3. /\ \A d \in Clients : client'[d] = IF d = c THEN "connected"
                                         ELSE client[d]
      /\ server'.at = "recv"
  BY <1>1, ReplyFacts DEF Life
<1>4. /\ Known' = Known \ {c} /\ \A d \in Known' : table'[d] = table[d]
  BY <1>1, TableFacts, Forgetting DEF SInv
<1>5. Marks'
  BY <1>1, <1>2, <1>3, <1>4 DEF OInv, Marks
<1>6. Users'
  BY <1>1, <1>2, <1>3, <1>4 DEF OInv, Users
<1>7. Ghosts'
  BY <1>1, <1>2, <1>3, <1>4 DEF OInv, Ghosts
<1> QED
  BY <1>1, <1>5, <1>6, <1>7 DEF OInv, Once

LEMMA NotifiedOrderly ==
  ASSUME SInv, OInv, Notified
  PROVE  OInv'
<1>1. /\ server.at = "recv" /\ server'.at = "drain"
      /\ UNCHANGED <<conns, held, client, ring, table, panicked, incidents>>
  BY NotifiedKeeps DEF Notified, rsVars
<1>2. Known' = Known
  BY <1>1 DEF Known
<1>3. Marks'
  BY <1>1, <1>2 DEF OInv, Marks
<1>4. Users'
  BY <1>1, <1>2 DEF OInv, Users
<1> QED
  BY <1>1, <1>2, <1>3, <1>4 DEF OInv, Ghosts, Once

LEMMA DrainOrderly ==
  ASSUME SInv, OInv, Drain
  PROVE  OInv'
<1> DEFINE c == Head(ring)
<1>1. server.at = "drain"
  BY DrainFacts
<1>2. CASE /\ ring = <<>> /\ server' = Idle
           /\ UNCHANGED <<conns, held, client, rs, ring, signalled,
                          endpoint, table, panicked, incidents>>
  <2>1. Known' = Known /\ server'.at = "recv"
    BY <1>2 DEF Known, Idle
  <2>2. Marks'
    BY <1>1, <1>2, <2>1 DEF OInv, Marks
  <2>3. Users'
    BY <1>1, <1>2, <2>1 DEF OInv, Users
  <2> QED
    BY <1>2, <2>1, <2>2, <2>3 DEF OInv, Ghosts, Once
<1>3. CASE ring # <<>>
  <2>1. ring \in Seq(Clients)
    BY TypeFacts DEF SInv
  <2>2. /\ 1 \in DOMAIN ring /\ c = ring[1] /\ c \in Clients
        /\ \A k \in DOMAIN Tail(ring) :
             /\ k \in Int /\ k + 1 \in DOMAIN ring
             /\ k + 1 # 1 /\ Tail(ring)[k] = ring[k + 1]
        /\ \A k \in DOMAIN ring : k # 1 => /\ k - 1 \in DOMAIN Tail(ring)
                                           /\ Tail(ring)[k - 1] = ring[k]
    BY <1>3, <2>1, Shorter
  <2>3. /\ c \in Known /\ client[c] \in {"idle", "destroying"}
        /\ table[c].objs = 0 /\ "vanish" \in incidents
    BY <1>3, <2>2 DEF OInv, Ghosts
  <2>4. /\ ring' = Tail(ring) /\ table' = Forget(c)
        /\ UNCHANGED <<conns, held, client, rs, signalled, endpoint,
                       server, panicked, incidents>>
    BY <1>3, <2>3, DrainFacts
  <2> HIDE DEF c
  <2>5. /\ Known' = Known \ {c} /\ \A d \in Known' : table'[d] = table[d]
    BY <2>4, TableFacts, Forgetting DEF SInv
  <2>6. /\ Known \subseteq Clients
        /\ \A i \in DOMAIN conns : conns[i].id \in Clients /\ i # 0
    BY TypeFacts DEF SInv, Conn
  <2>7. client[c] = "idle" => held[c] = 0
    BY <2>2 DEF SInv, Holders
  <2>8. Marks'
    BY <2>3, <2>4, <2>5, <2>6, <2>7 DEF OInv, Marks
  <2>9. Users'
    BY <1>1, <2>3, <2>4, <2>5 DEF OInv, Users
  <2>10. \A d \in Known' : client'[d] \notin {"open", "closing"} =>
           table'[d].objs = 0 /\ \E k \in DOMAIN ring' : ring'[k] = d
    <3> SUFFICES ASSUME NEW d \in Known', client[d] \notin {"open", "closing"}
                 PROVE  /\ table[d].objs = 0
                        /\ \E k \in DOMAIN Tail(ring) : Tail(ring)[k] = d
      BY <2>4, <2>5
    <3>1. d \in Known /\ d # c
      BY <2>5
    <3>2. PICK k \in DOMAIN ring : ring[k] = d
      BY <3>1 DEF OInv, Ghosts
    <3>3. k - 1 \in DOMAIN Tail(ring) /\ Tail(ring)[k - 1] = d
      BY <2>2, <3>1, <3>2
    <3> QED
      BY <3>1, <3>3 DEF OInv, Ghosts
  <2>11. \A k \in DOMAIN ring' :
           ring'[k] \in Known' /\ client'[ring'[k]] \in {"idle", "destroying"}
    <3> SUFFICES ASSUME NEW k \in DOMAIN Tail(ring)
                 PROVE  /\ Tail(ring)[k] \in Known /\ Tail(ring)[k] # c
                        /\ client[Tail(ring)[k]] \in {"idle", "destroying"}
      BY <2>4, <2>5
    <3> QED
      BY <2>2 DEF OInv, Ghosts
  <2>12. \A j, k \in DOMAIN ring' : ring'[j] = ring'[k] => j = k
    <3>1. \A j, k \in DOMAIN Tail(ring) :
            Tail(ring)[j] = Tail(ring)[k] => j + 1 = k + 1
      BY <2>2 DEF OInv, Ghosts
    <3> QED
      BY <2>2, <2>4, <3>1
  <2> QED
    BY <2>3, <2>4, <2>8, <2>9, <2>10, <2>11, <2>12 DEF OInv, Ghosts, Once
<1> QED
  BY <1>2, <1>3, DrainFacts

(* Incidents are never taken back.                                         *)
LEMMA IncidentsStay ==
  ASSUME SInv, [Next]_vars, Orderly'
  PROVE  Orderly
<1>1. incidents \subseteq incidents'
  <2>1. CASE UNCHANGED vars
    BY <2>1 DEF vars
  <2>2. CASE ClientNext
    BY <2>2 DEF ClientNext, ConnCreate, CallServer, ConnDestroy, ObjCall,
       Panic, Note
  <2>3. CASE Signal
    BY <2>3 DEF Signal
  <2>4. CASE ServerNext
    <3>1. CASE \E c \in Clients : OpenArrives(c) \/ CloseArrives(c)
      BY <3>1 DEF OpenArrives, CloseArrives, Panic
    <3>2. CASE Register
      BY <3>2, RegisterFacts DEF Note
    <3>3. CASE Store
      BY <3>3 DEF Store, Note
    <3>4. CASE Deregister \/ DeleteClient \/ Notified
      BY <3>4 DEF Deregister, DeleteClient, Notified
    <3>5. CASE Drain
      BY <3>5, DrainFacts DEF Panic
    <3> QED
      BY <2>4, <3>1, <3>2, <3>3, <3>4, <3>5 DEF ServerNext
  <2> QED
    BY <2>1, <2>2, <2>3, <2>4 DEF Next
<1> QED
  BY <1>1 DEF Orderly

IInv == SInv /\ (Orderly => OInv)

LEMMA NextOrderly ==
  ASSUME RingHoldsAll, IInv, [Next]_vars
  PROVE  IInv'
<1>1. SInv' /\ SInv
  BY NextKeeps DEF IInv
<1> SUFFICES ASSUME Orderly' PROVE OInv'
  BY <1>1 DEF IInv
<1>2. OInv
  BY <1>1, IncidentsStay DEF IInv
<1>3. CASE UNCHANGED vars
  <2>1. Known' = Known
    BY <1>3 DEF vars, serverVars, Known
  <2> QED
    BY <1>2, <1>3, <2>1 DEF vars, rsVars, serverVars, OInv, Marks, Users,
       Ghosts, Once
<1>4. CASE ClientNext
  BY <1>1, <1>2, <1>4, ConnCreateOrderly, CallServerOrderly,
     ConnDestroyOrderly, ObjCallOrderly DEF ClientNext
<1>5. CASE Signal
  BY <1>1, <1>2, <1>5, SignalOrderly
<1>6. CASE ServerNext
  BY <1>1, <1>2, <1>6, OpenArrivesOrderly, CloseArrivesOrderly,
     RegisterOrderly, StoreOrderly, DeregisterOrderly, DeleteClientOrderly,
     NotifiedOrderly, DrainOrderly DEF ServerNext
<1> QED
  BY <1>3, <1>4, <1>5, <1>6 DEF Next

LEMMA SpecKeeps == ASSUME RingHoldsAll PROVE Spec => []IInv
<1>1. Init => IInv
  BY InitSInv, InitOInv DEF IInv
<1>2. IInv /\ [Next]_vars => IInv'
  BY NextOrderly
<1> QED
  BY <1>1, <1>2, PTL DEF Spec

LEMMA RegistrationsDoMatch == IInv => RegistrationsMatch
<1> SUFFICES ASSUME SInv, Orderly => OInv PROVE RegistrationsMatch
  BY DEF IInv
<1>1. ASSUME Orderly, NEW i \in DOMAIN conns, conns[i].registered
      PROVE  LET c == conns[i].id IN
             \/ c \in Known /\ table[c].reg = i
             \/ server.at \in {"store", "undo"} /\ server.reg = i
             \/ held[c] # i \/ client[c] = "destroying"
  BY <1>1 DEF OInv, Marks
<1>2. ASSUME Orderly, NEW c \in Clients, client[c] = "open"
      PROVE  c \in Known /\ conns[table[c].reg].registered
  BY <1>2 DEF OInv, Users
<1>3. ASSUME Orderly, NEW c \in Known, client[c] \notin {"open", "closing"}
      PROVE  Announced(c)
  <2>1. PICK k \in DOMAIN ring : ring[k] = c
    BY <1>3 DEF OInv, Ghosts
  <2>2. {j \in DOMAIN ring : ring[j] = c} = {k}
    BY <1>3, <2>1 DEF OInv, Ghosts
  <2> QED
    BY <2>2, FS_Singleton DEF Announced
<1> QED
  BY <1>1, <1>2, <1>3 DEF RegistrationsMatch, SInv

(* Whatever clients do, alone or against each other, neither the server    *)
(* nor the root server stops at a todo!() or an expect before one of them  *)
(* was disorderly: every conn_destroy message finds its client known and   *)
(* without handles, no conn_open finds a record left over, and the ring    *)
(* has room.                                                               *)
THEOREM OrderlyClientsPanicNobody ==
  ASSUME RingHoldsAll
  PROVE  Spec => []NobodyPanics
<1>1. IInv => NobodyPanics
  BY DEF IInv, OInv, NobodyPanics
<1> QED
  BY <1>1, SpecKeeps, PTL

(* The root server's marks and the server's client table tell the same     *)
(* story after any interleaving of conn_open, conn_close and conn_destroy, *)
(* and each client that is gone but still known has one message coming.    *)
THEOREM RegistrationsAlwaysMatch ==
  ASSUME RingHoldsAll
  PROVE  Spec => []RegistrationsMatch
  BY RegistrationsDoMatch, SpecKeeps, PTL
=============================================================================
