----------------------------- MODULE Connection -----------------------------
(***************************************************************************)
(* Connections between client processes and one published server: the      *)
(* root server's side (root_server/src/connection.rs), the ring buffer it  *)
(* tells the server through (smos-server/src/ntfn_buffer.rs), and the      *)
(* server's side as the boot file server has it                            *)
(* (boot_file_server/src/main.rs).                                         *)
(*                                                                         *)
(* Three parties run concurrently.  The root server handles one call at a  *)
(* time; the server blocks in its own calls to the root server, so what it *)
(* does for one client is interleaved with what the root server does for   *)
(* the others; and a client's conn_destroy reaches the server only as a    *)
(* message in the ring and a signal on its bound notification.             *)
(***************************************************************************)
EXTENDS Integers, Sequences, FiniteSets

CONSTANTS
  Clients,      \* the client processes: pid, badge and connection id are one
  MaxConns,     \* bound: connections ever created
  MaxClients,   \* MAX_CLIENTS of the server
  MaxObjs,      \* MAX_HANDLES of the server, per client
  NtfnCapacity, \* entries the notification ring can hold
  None

ASSUME ConnectionAssumption ==
  /\ None \notin Clients
  /\ MaxConns \in Nat /\ MaxClients \in Nat /\ MaxObjs \in Nat
  /\ NtfnCapacity \in Nat

VARIABLES
  conns,     \* Server.connections: nothing is ever removed from it
  held,      \* per client: the connection its handle is for, 0 for no handle
  client,    \* per client: where it is in the life of a connection
  rs,        \* the client whose conn_destroy is between enqueue and signal
  ring,      \* the notification ring: client ids of conn_destroy messages
  signalled, \* the server's bound notification is pending
  endpoint,  \* clients blocked in a call to the server, in order
  server,    \* what the server is doing, and for whom
  table,     \* CLIENTS: known id -> its registration and open objects
  panicked,  \* a todo!(), expect or unwrap failed in the server or root server
  incidents  \* history: what has happened so far of Incidents

rsVars     == <<conns, held, rs>>
serverVars == <<server, table>>
vars == <<conns, held, client, rs, ring, signalled, endpoint, server, table,
          panicked, incidents>>

(* "vanish": a client destroyed an open connection without conn_close.     *)
(* "abandon": it did so with server-side handles open.                     *)
(* "reconnect": a pid created another connection.                          *)
(* "handles": a handle table of the root server was full.                  *)
(* "shared_buffer": a client passed a plain handle as its shared buffer.   *)
Incidents == {"vanish", "abandon", "reconnect", "handles", "shared_buffer"}
Note(kinds) == incidents' = incidents \cup kinds

Idle == [at |-> "recv", id |-> None, reg |-> 0]
Doing(step, c, i) == [at |-> step, id |-> c, reg |-> i]

Init ==
  /\ conns = <<>>
  /\ held = [c \in Clients |-> 0]
  /\ client = [c \in Clients |-> "idle"]
  /\ rs = None
  /\ ring = <<>>
  /\ signalled = FALSE
  /\ endpoint = <<>>
  /\ server = Idle
  /\ table = <<>>
  /\ panicked = FALSE
  /\ incidents = {}

Known == DOMAIN table
Learn(c, i) == [d \in Known \cup {c} |->
                  IF d = c THEN [reg |-> i, objs |-> 0] ELSE table[d]]
ForgetNot(c) == [d \in Known |-> table[d]] \* a delete_client that finds nobody
Forget(c) == [d \in Known \ {c} |-> table[d]]

TableFull == Cardinality(Known) = MaxClients

(* enqueue_and_commit refuses a full ring, and enqueue expects it not to.  *)
RingFull == Len(ring) = NtfnCapacity

(* The mark of a connection, and the two ways to lose it.                  *)
MarkNot(i)   == IF i \in DOMAIN conns THEN conns ELSE <<>>
Mark(i)      == [conns EXCEPT ![i].registered = TRUE]
UnmarkNot(i) == IF i \in DOMAIN conns THEN conns ELSE <<>>
Unmark(i)    == [conns EXCEPT ![i].registered = FALSE]

Panic ==
  /\ panicked' = TRUE
  /\ UNCHANGED <<conns, held, client, rs, ring, signalled, endpoint, server,
                 table, incidents>>

-----------------------------------------------------------------------------
(* conn_create: the connection joins the server's list before the caller's *)
(* handle is allocated, and stays there if that allocation fails.          *)
ConnCreate(c) ==
  /\ rs = None
  /\ client[c] = "idle"
  /\ Len(conns) < MaxConns
  /\ conns' = Append(conns, [id |-> c, registered |-> FALSE])
  /\ LET again == IF \E i \in DOMAIN conns : conns[i].id = c
                  THEN {"reconnect"} ELSE {}
     IN \/ /\ held' = [held EXCEPT ![c] = Len(conns')]
           /\ client' = [client EXCEPT ![c] = "connected"]
           /\ Note(again)
        \/ /\ UNCHANGED <<held, client>>
           /\ Note(again \cup {"handles"})
  /\ UNCHANGED <<rs, ring, signalled, endpoint, serverVars, panicked>>

(* conn_open and conn_close are calls on the server's endpoint: the client *)
(* blocks.                                                                 *)
CallServer(c) ==
  /\ \/ /\ client[c] = "connected"
        /\ client' = [client EXCEPT ![c] = "opening"]
     \/ /\ client[c] = "open"
        /\ client' = [client EXCEPT ![c] = "closing"]
  /\ endpoint' = Append(endpoint, c)
  /\ UNCHANGED <<rsVars, ring, signalled, serverVars, panicked, incidents>>

Vanishing(c) ==
  (IF client[c] = "open" THEN {"vanish"} ELSE {}) \cup
  (IF c \in Known /\ table[c].objs > 0 THEN {"abandon"} ELSE {})

(* conn_destroy up to the signal.  The server hears of it only if the      *)
(* connection is marked registered; a full ring stops the root server.     *)
ConnDestroy(c) ==
  /\ rs = None
  /\ client[c] \in {"connected", "open"}
  /\ IF ~conns[held[c]].registered
     THEN /\ held' = [held EXCEPT ![c] = 0]
          /\ client' = [client EXCEPT ![c] = "idle"]
          /\ Note(Vanishing(c))
          /\ UNCHANGED <<conns, rs, ring, signalled, endpoint, serverVars,
                         panicked>>
     ELSE IF RingFull
     THEN Panic
     ELSE /\ ring' = Append(ring, c)
          /\ rs' = c
          /\ client' = [client EXCEPT ![c] = "destroying"]
          /\ Note(Vanishing(c))
          /\ UNCHANGED <<conns, held, signalled, endpoint, serverVars,
                         panicked>>

(* The signal, and the end of conn_destroy.                                *)
Signal ==
  /\ rs # None
  /\ signalled' = TRUE
  /\ held' = [held EXCEPT ![rs] = 0]
  /\ client' = [client EXCEPT ![rs] = "idle"]
  /\ rs' = None
  /\ UNCHANGED <<conns, ring, endpoint, serverVars, panicked, incidents>>

-----------------------------------------------------------------------------
(* The server's loop.  A receive on the endpoint returns the bound         *)
(* notification first if it is pending.                                    *)
Receives(c, call) ==
  /\ server = Idle
  /\ ~signalled
  /\ endpoint # <<>>
  /\ c = Head(endpoint)
  /\ client[c] = call

Reply(c, state) ==
  /\ client' = [client EXCEPT ![c] = state]
  /\ endpoint' = Tail(endpoint)
  /\ server' = Idle

(* conn_open arrives: opening twice is a todo!(), and a full client table  *)
(* is refused before anything is registered.                               *)
OpenArrives(c) ==
  /\ Receives(c, "opening")
  /\ IF c \in Known
     THEN Panic
     ELSE /\ IF TableFull
             THEN Reply(c, "connected")
             ELSE /\ server' = Doing("register", c, 0)
                  /\ UNCHANGED <<client, endpoint>>
          /\ UNCHANGED <<rsVars, ring, signalled, table, panicked, incidents>>

(* conn_register: the root server marks the first connection with that id  *)
(* and then allocates the registration handle.                             *)
IsFirst(c, i) ==
  /\ conns[i].id = c
  /\ \A j \in 1 .. i - 1 : conns[j].id # c

Register ==
  /\ server.at = "register"
  /\ rs = None
  /\ \E i \in DOMAIN conns :
       /\ IsFirst(server.id, i)
       /\ conns' = Mark(i)
       /\ \/ /\ server' = Doing("store", server.id, i)
             /\ UNCHANGED <<client, endpoint, incidents>>
          \/ /\ Reply(server.id, "connected")
             /\ Note({"handles"})
  /\ UNCHANGED <<held, rs, ring, signalled, table, panicked>>

(* The rest of conn_open: the shared buffer is mapped and the client       *)
(* stored.  Most failures deregister on the way out; the conversion of the *)
(* shared buffer's handle returns straight away.                           *)
Store ==
  /\ server.at = "store"
  /\ \/ /\ table' = Learn(server.id, server.reg)
        /\ Reply(server.id, "open")
        /\ UNCHANGED incidents
     \/ /\ server' = Doing("undo", server.id, server.reg)
        /\ UNCHANGED <<client, endpoint, table, incidents>>
     \/ /\ Reply(server.id, "connected")
        /\ Note({"shared_buffer"})
        /\ UNCHANGED table
  /\ UNCHANGED <<rsVars, ring, signalled, panicked>>

(* conn_close arrives: handles still open are only reported.               *)
CloseArrives(c) ==
  /\ Receives(c, "closing")
  /\ IF c \in Known
     THEN /\ server' = Doing("close", c, table[c].reg)
          /\ UNCHANGED <<conns, held, client, rs, ring, signalled, endpoint,
                         table, panicked, incidents>>
     ELSE Panic

(* conn_deregister, for a failed conn_open and for conn_close; the root    *)
(* server clears the mark of the connection the registration was for.      *)
Deregister ==
  /\ server.at \in {"undo", "close"}
  /\ rs = None
  /\ conns' = Unmark(server.reg)
  /\ IF server.at = "undo"
     THEN Reply(server.id, "connected")
     ELSE /\ server' = [server EXCEPT !.at = "delete"]
          /\ UNCHANGED <<client, endpoint>>
  /\ UNCHANGED <<held, rs, ring, signalled, table, panicked, incidents>>

DeleteClientSilently == \* the loop goes on without a reply
  /\ server.at = "delete"
  /\ table' = Forget(server.id)
  /\ server' = Idle
  /\ endpoint' = Tail(endpoint)
  /\ UNCHANGED <<rsVars, client, ring, signalled, panicked, incidents>>

DeleteClient ==
  /\ server.at = "delete"
  /\ table' = Forget(server.id)
  /\ Reply(server.id, "connected")
  /\ UNCHANGED <<rsVars, ring, signalled, panicked, incidents>>

(* obj_open and obj_close, answered within the server.                     *)
ObjCall(c) ==
  /\ client[c] = "open"
  /\ server = Idle
  /\ ~signalled
  /\ endpoint = <<>>
  /\ IF c \in Known
     THEN /\ \/ /\ table[c].objs < MaxObjs
                /\ table' = [table EXCEPT ![c].objs = @ + 1]
             \/ /\ table[c].objs > 0
                /\ table' = [table EXCEPT ![c].objs = @ - 1]
          /\ UNCHANGED <<rsVars, client, ring, signalled, endpoint, server,
                         panicked, incidents>>
     ELSE Panic

-----------------------------------------------------------------------------
(* The notification arrives; handle_notification then empties the ring.    *)
Notified ==
  /\ server = Idle
  /\ signalled
  /\ signalled' = FALSE
  /\ server' = Doing("drain", None, 0)
  /\ UNCHANGED <<rsVars, client, ring, endpoint, table, panicked, incidents>>

(* A handler that takes one message per notification.                      *)
DrainOne ==
  /\ server.at = "drain"
  /\ server' = Idle
  /\ IF ring = <<>>
     THEN UNCHANGED <<ring, table>>
     ELSE /\ ring' = Tail(ring)
          /\ table' = Forget(Head(ring))
  /\ UNCHANGED <<rsVars, client, signalled, endpoint, panicked, incidents>>

(* One message: handle_conn_destroy_ntfn expects to know the client, and   *)
(* has a todo!() for one that left handles open.                           *)
Drain ==
  /\ server.at = "drain"
  /\ IF ring = <<>>
     THEN /\ server' = Idle
          /\ UNCHANGED <<ring, table, panicked, rsVars, client, signalled,
                         endpoint, incidents>>
     ELSE LET c == Head(ring) IN
          IF c \in Known /\ table[c].objs = 0
          THEN /\ ring' = Tail(ring)
               /\ table' = Forget(c)
               /\ UNCHANGED <<rsVars, client, signalled, endpoint, server,
                              panicked, incidents>>
          ELSE Panic

-----------------------------------------------------------------------------
ServerNext ==
  \/ \E c \in Clients : OpenArrives(c) \/ CloseArrives(c)
  \/ Register
  \/ Store
  \/ Deregister
  \/ DeleteClient
  \/ Notified
  \/ Drain

ClientNext ==
  \E c \in Clients :
    ConnCreate(c) \/ CallServer(c) \/ ConnDestroy(c) \/ ObjCall(c)

(* The bounds on connections let every client come to rest.                *)
Next == ~panicked /\ (ClientNext \/ Signal \/ ServerNext)

(* The root server finishes each call it starts, and the server keeps      *)
(* running its loop; clients owe nothing.                                  *)
Fairness == WF_vars(~panicked /\ Signal) /\ WF_vars(~panicked /\ ServerNext)

Spec == Init /\ [][Next]_vars /\ Fairness

-----------------------------------------------------------------------------
TypeOK ==
  /\ conns \in Seq([id : Clients, registered : BOOLEAN])
  /\ held \in [Clients -> 0 .. Len(conns)]
  /\ client \in [Clients -> {"idle", "connected", "opening", "open",
                             "closing", "destroying"}]
  /\ rs \in Clients \cup {None}
  /\ ring \in Seq(Clients) /\ Len(ring) <= NtfnCapacity
  /\ signalled \in BOOLEAN
  /\ endpoint \in Seq(Clients)
  /\ server \in [at : {"recv", "register", "store", "undo", "close", "delete",
                       "drain"},
                 id : Clients \cup {None}, reg : 0 .. Len(conns)]
  /\ Known \subseteq Clients /\ Cardinality(Known) <= MaxClients
  /\ table \in [Known -> [reg : 1 .. Len(conns), objs : 0 .. MaxObjs]]
  /\ panicked \in BOOLEAN
  /\ incidents \subseteq Incidents

(* Clients that come and go as the protocol provides: they vanish but      *)
(* never come back, or come back but never vanish, nothing runs out, and   *)
(* shared buffers are what the server expects.                             *)
Orderly == incidents \in (SUBSET {"vanish"}) \cup (SUBSET {"reconnect"})

(* A message in the ring is never left there with nobody coming: either    *)
(* the notification is pending, or the root server is about to raise it,   *)
(* or the server is in the loop that empties the ring, whatever else has   *)
(* gone wrong.  (enqueue before signal, and a loop instead of one dequeue  *)
(* per notification.)                                                      *)
NoLostWakeup ==
  ring # <<>> => signalled \/ rs # None \/ server.at = "drain"

(* Orderly clients cannot reach the todo!()s and expects of the three      *)
(* parties: each conn_destroy message finds its client in the table and    *)
(* without handles, no conn_open finds a record left over from an earlier  *)
(* connection, and the ring has room.                                      *)
NobodyPanics == Orderly => ~panicked

(* The mark `registered`, kept by the root server, and the client table,   *)
(* kept by the server, tell the same story: a marked connection is one the *)
(* server knows the client of or is busy with, unless that client          *)
(* destroyed it (the mark is then left behind), and a client that is using *)
(* its connection is known under a marked one.  A client that is gone      *)
(* while the server still keeps its record is on its way to being          *)
(* forgotten: exactly one message for it is in the ring.                   *)
Announced(c) ==
  Cardinality({k \in DOMAIN ring : ring[k] = c}) = 1
RegistrationsMatch ==
  /\ TypeOK
  /\ Orderly =>
    /\ \A i \in DOMAIN conns : conns[i].registered =>
         LET c == conns[i].id IN
         \/ c \in Known /\ table[c].reg = i
         \/ server.at \in {"store", "undo"} /\ server.reg = i
         \/ held[c] # i \/ client[c] = "destroying"
    /\ \A c \in Clients : client[c] = "open" =>
         c \in Known /\ conns[table[c].reg].registered
    /\ \A c \in Known :
         client[c] \notin {"open", "closing"} => Announced(c)

(* connection.rs and the loader say that destroying an open connection     *)
(* notifies the server.  Said of clients that vanish and connect again,    *)
(* with no table full and no shared buffer refused.                        *)
ReturningGhostsAreAnnounced ==
  incidents \subseteq {"vanish", "reconnect"} =>
    \A c \in Known : client[c] \notin {"open", "closing"} => Announced(c)

(* A full handle table of the root server is an error its callers get as a *)
(* reply; it must not stop anybody later.                                  *)
FullTablesAreSurvived == incidents \subseteq {"handles"} => ~panicked

(* The server does not hold on to a vanished client for ever.              *)
GhostsAreForgotten ==
  \A c \in Clients :
    c \in Known /\ client[c] = "idle" ~> c \notin Known \/ ~Orderly

(* Every conn_open and conn_close is answered, whatever the other clients  *)
(* do in the meantime, as long as nobody panics.                           *)
CallsAreAnswered ==
  \A c \in Clients :
    client[c] \in {"opening", "closing"} ~>
      client[c] \in {"connected", "open"} \/ panicked

=============================================================================
