--------------------------- MODULE FaultForwarding ---------------------------
(***************************************************************************)
(* Windows whose pages a server supplies: registration of a window with    *)
(* the root server (root_server/src/window.rs), VM faults forwarded to the *)
(* server through its notification ring and answered by page_map           *)
(* (root_server/src/vm.rs), and the server's side of it: the views of the  *)
(* boot file server (boot_file_server/src/main.rs).                        *)
(*                                                                         *)
(* A process has one thread.  While its fault is forwarded it is blocked,  *)
(* and its reply object lies in the view of the window, at the root server.*)
(* Files and windows are counted in pages.  Registrations are the views    *)
(* the root server makes for windows without an object.                    *)
(***************************************************************************)
EXTENDS Integers, Sequences, FiniteSets

CONSTANTS
  Procs,        \* the clients of the server
  Windows,      \* bound: identities of live or referenced windows
  Regs,         \* bound: identities of live or referenced registrations
  WinPages,     \* the pages of each window
  MaxHandles,   \* MAX_HANDLES of the server, per client
  ViewArgs,     \* the [win_offset, obj_offset, size] clients ask views for
  NtfnCapacity, \* NTFN_BUFFER_CAPACITY
  None

ASSUME FaultForwardingAssumption ==
  /\ WinPages \in Nat \ {0} /\ MaxHandles \in Nat \ {0}
  /\ NtfnCapacity \in Nat
  /\ ViewArgs \subseteq [win_offset : Nat, obj_offset : Nat, size : Nat]
  /\ None \notin Procs \cup Windows \cup Regs \cup Int \cup ViewArgs
  /\ None \notin [proc : Procs, page : 0 .. WinPages - 1]
  /\ None \notin [reg : Regs, arg : ViewArgs]

Page   == 0 .. WinPages - 1
Handle == 0 .. MaxHandles - 1

VARIABLES
  win,       \* Window: the process it belongs to, and bound_view
  reg,       \* View: bound_window, managing_server_info, pages, pending_fault
  proc,      \* per process: what its thread is doing
  endpoint,  \* calls to the server, in order
  ring,      \* VMFaultNotifications for the server, in order
  signalled, \* the server's bound notification is pending
  server,    \* what the server is doing
  table,     \* CLIENTS: known id -> its handle table
  panicked,  \* a todo!(), expect or unwrap failed in the server or root server
  incidents  \* history: what has happened so far of Incidents

vars == <<win, reg, proc, endpoint, ring, signalled, server, table, panicked,
          incidents>>

(* "lent": the client of a view is not the process the window belongs to.  *)
(* "rebound": a window was registered while it had a view.                 *)
(* "abandon": conn_close with handles open.                                *)
(* "outside": a fault before or behind the view in its window.             *)
(* "in_use": a window was destroyed while it was registered.               *)
(* "no_view": unview of a handle that is not in use.                       *)
Incidents == {"lent", "rebound", "abandon", "outside", "in_use", "no_view"}
Note(kinds) == incidents' = incidents \cup kinds

NoWin   == [owner |-> None, view |-> None]
Blank   == [i \in Page |-> None]
NoReg   == [win |-> None, client |-> None, ref |-> 0, pages |-> Blank,
            seen |-> Blank, pending |-> None]
Empty   == [h \in Handle |-> None]
Idle    == [at |-> "recv", id |-> None, hndl |-> 0, win |-> None,
            arg |-> None, page |-> 0]
Known   == DOMAIN table

Init ==
  /\ win = [w \in Windows |-> NoWin]
  /\ reg = [r \in Regs |-> NoReg]
  /\ proc = [p \in Procs |-> "running"]
  /\ endpoint = <<>>
  /\ ring = <<>>
  /\ signalled = FALSE
  /\ server = Idle
  /\ table = <<>>
  /\ panicked = FALSE
  /\ incidents = {}

Panic ==
  /\ panicked' = TRUE
  /\ UNCHANGED <<win, reg, proc, endpoint, ring, signalled, server, table>>

-----------------------------------------------------------------------------
(* The clients.  Windows are made as handle capabilities, which is what    *)
(* the server takes.                                                       *)
WindowCreate(p) ==
  \E w \in Windows :
    /\ proc[p] = "running"
    /\ win[w] = NoWin /\ \A r \in Regs : reg[r].win # w
    /\ server.win # w /\ \A k \in DOMAIN endpoint : endpoint[k].win # w
    /\ win' = [win EXCEPT ![w].owner = p]
    /\ UNCHANGED <<reg, proc, endpoint, ring, signalled, server, table,
                   panicked, incidents>>

(* window_destroy announces a registered window to the server and then     *)
(* unwraps the object its view does not have.                              *)
WindowDestroy(p) ==
  \E w \in Windows :
    /\ proc[p] = "running"
    /\ win[w].owner = p
    /\ IF win[w].view # None
       THEN Panic /\ Note({"in_use"})
       ELSE /\ win' = [win EXCEPT ![w] = NoWin]
            /\ UNCHANGED <<reg, proc, endpoint, ring, signalled, server,
                           table, panicked, incidents>>

(* A call on the server's endpoint blocks its caller.                      *)
Send(p, op, w, a, h) ==
  /\ proc[p] = "running"
  /\ proc' = [proc EXCEPT ![p] = "calling"]
  /\ endpoint' = Append(endpoint,
                        [id |-> p, op |-> op, win |-> w, arg |-> a, hndl |-> h])

CallServer(p) ==
  /\ IF p \notin Known
     THEN Send(p, "open", None, None, 0)
     ELSE \/ Send(p, "close", None, None, 0)
          \/ \E w \in Windows, a \in ViewArgs :
               win[w].owner # None /\ Send(p, "view", w, a, 0)
          \/ \E h \in Handle : Send(p, "unview", None, None, h)
  /\ UNCHANGED <<win, reg, ring, signalled, server, table, panicked, incidents>>

-----------------------------------------------------------------------------
(* VM faults, at the root server.                                          *)

(* forward_vm_fault.  The message, the signal and the pending fault are    *)
(* one step: page_map, which needs the last, is served after it.           *)
FaultForwards(p) ==
  \E w \in Windows, i \in Page :
    /\ proc[p] = "running"
    /\ win[w].owner = p
    /\ win[w].view # None
    /\ LET r == win[w].view IN
       /\ reg[r].pages[i] = None
       /\ IF Len(ring) = NtfnCapacity
          THEN Panic
          ELSE /\ ring' = Append(ring, [id |-> reg[r].client,
                                        ref |-> reg[r].ref, page |-> i])
               /\ signalled' = TRUE
               /\ reg' = [reg EXCEPT ![r].pending = [proc |-> p, page |-> i]]
               /\ proc' = [proc EXCEPT ![p] = "faulting"]
               /\ UNCHANGED <<win, endpoint, server, table, panicked>>
    /\ UNCHANGED incidents

(* The view has the page already: it is mapped and the thread goes on.     *)
FaultRemaps(p) ==
  \E w \in Windows, i \in Page :
    /\ proc[p] = "running"
    /\ win[w].owner = p
    /\ win[w].view # None
    /\ LET r == win[w].view IN
       /\ reg[r].pages[i] # None
       /\ reg' = [reg EXCEPT ![r].seen[i] = reg[r].pages[i]]
    /\ UNCHANGED <<win, proc, endpoint, ring, signalled, server, table,
                   panicked, incidents>>

(* A window without a view: the fault gets no answer.                      *)
FaultUnanswered(p) ==
  /\ proc[p] = "running"
  /\ \E w \in Windows : win[w].owner = p /\ win[w].view = None
  /\ proc' = [proc EXCEPT ![p] = "stopped"]
  /\ UNCHANGED <<win, reg, endpoint, ring, signalled, server, table, panicked,
                 incidents>>

-----------------------------------------------------------------------------
(* The server's loop.  A receive returns the bound notification first.     *)
Receives(op) ==
  /\ server.at = "recv"
  /\ ~signalled
  /\ endpoint # <<>>
  /\ Head(endpoint).op = op

Caller == Head(endpoint).id

(* The answer to the caller, with whom the server is done.                 *)
Reply ==
  /\ proc' = [proc EXCEPT ![Caller] = "running"]
  /\ endpoint' = Tail(endpoint)
  /\ server' = Idle

Begin(step, h) ==
  server' = [at |-> step, id |-> Caller, hndl |-> h, win |-> Head(endpoint).win,
             arg |-> Head(endpoint).arg, page |-> 0]

(* conn_open and conn_close, as far as views are concerned.                *)
OpenArrives ==
  /\ Receives("open")
  /\ table' = [c \in Known \cup {Caller} |->
                 IF c = Caller THEN Empty ELSE table[c]]
  /\ Reply
  /\ UNCHANGED <<win, reg, ring, signalled, panicked, incidents>>

CloseArrives ==
  /\ Receives("close")
  /\ table' = [c \in Known \ {Caller} |-> table[c]]
  /\ Note(IF table[Caller] = Empty THEN {} ELSE {"abandon"})
  /\ Reply
  /\ UNCHANGED <<win, reg, ring, signalled, panicked>>

(* allocate_handle.                                                        *)
FreeHandle(c, h) ==
  /\ h \in Handle
  /\ table[c][h] = None
  /\ \A g \in Handle : g < h => table[c][g] # None

(* view: the handle is found first, and names the view in the messages     *)
(* that the registration will cause.                                       *)
ViewArrives ==
  /\ Receives("view")
  /\ IF \E h \in 0 .. MaxHandles : FreeHandle(Caller, h)
     THEN /\ \E h \in 0 .. MaxHandles :
               FreeHandle(Caller, h) /\ Begin("register", h)
          /\ UNCHANGED <<proc, endpoint>>
     ELSE Reply
  /\ UNCHANGED <<win, reg, ring, signalled, table, panicked, incidents>>

(* window_register, and what the server does with its result, which nobody *)
(* sees before the reply.  Without a free handle at the root server the    *)
(* call fails; a view the window already has is replaced.                  *)
Register ==
  /\ server.at = "register"
  /\ LET w == server.win
         c == server.id IN
     \/ /\ UNCHANGED <<win, reg, table, incidents>>
        /\ Reply
     \/ /\ win[w].owner # None
        /\ \E r \in Regs :
             /\ reg[r] = NoReg /\ \A v \in Windows : win[v].view # r
             /\ reg' = [reg EXCEPT ![r] =
                          [NoReg EXCEPT !.win = w, !.client = c,
                                        !.ref = server.hndl]]
             /\ win' = [win EXCEPT ![w].view = r]
             /\ table' = [table EXCEPT ![c][server.hndl] =
                            [reg |-> r, arg |-> server.arg]]
        /\ Note((IF win[w].owner # c THEN {"lent"} ELSE {}) \cup
                (IF win[w].view # None THEN {"rebound"} ELSE {}))
        /\ Reply
  /\ UNCHANGED <<ring, signalled, panicked>>

UnviewArrives ==
  /\ Receives("unview")
  /\ IF table[Caller][Head(endpoint).hndl] = None
     THEN Panic /\ Note({"no_view"})
     ELSE /\ Begin("deregister", Head(endpoint).hndl)
          /\ UNCHANGED <<win, reg, proc, endpoint, ring, signalled, table,
                         panicked, incidents>>

(* A deregistration that leaves the window bound to its view, and the view *)
(* with it.                                                                *)
UnbindNot(w) == IF w \in Windows THEN win ELSE <<>>
Unbind(w) == [win EXCEPT ![w].view = None]

(* window_deregister deletes the pages, unbinds whatever view the window   *)
(* has, and drops the registration with its pending fault, which is never  *)
(* answered; the server then forgets the view.                             *)
Deregister ==
  /\ server.at = "deregister"
  /\ LET r == table[server.id][server.hndl].reg IN
     /\ win' = Unbind(reg[r].win)
     /\ reg' = [reg EXCEPT ![r] = NoReg]
     /\ table' = [table EXCEPT ![server.id][server.hndl] = None]
     /\ Reply
  /\ UNCHANGED <<ring, signalled, panicked, incidents>>

-----------------------------------------------------------------------------
(* The notification arrives, and handle_notification empties the ring.     *)
Notified ==
  /\ server.at = "recv"
  /\ signalled
  /\ signalled' = FALSE
  /\ server' = [Idle EXCEPT !.at = "drain"]
  /\ UNCHANGED <<win, reg, proc, endpoint, ring, table, panicked, incidents>>

Before(a, i) == i < a.win_offset
Behind(a, i) == i > a.win_offset + a.size \* as the server tests it
InView(a, i) == a.win_offset <= i /\ i < a.win_offset + a.size

(* One message: the client and the handle it names must be there, and the  *)
(* fault must be in the view.                                              *)
Drain ==
  /\ server.at = "drain"
  /\ IF ring = <<>>
     THEN /\ server' = Idle
          /\ UNCHANGED <<win, reg, proc, endpoint, ring, signalled, table,
                         panicked, incidents>>
     ELSE LET m == Head(ring) IN
          IF ~(m.id \in Known /\ table[m.id][m.ref] # None)
          THEN Panic /\ UNCHANGED incidents
          ELSE LET a == table[m.id][m.ref].arg IN
               /\ Note(IF InView(a, m.page) THEN {} ELSE {"outside"})
               /\ IF Before(a, m.page) \/ Behind(a, m.page)
                  THEN Panic
                  ELSE /\ ring' = Tail(ring)
                       /\ server' = [Idle EXCEPT !.at = "map", !.id = m.id,
                                       !.hndl = m.ref, !.page = m.page]
                       /\ UNCHANGED <<win, reg, proc, endpoint, signalled,
                                      table, panicked>>

(* The file's page for a page of the window, with and without the view's   *)
(* place in the window.                                                    *)
ContentUnshifted(a, i) == a.obj_offset + i
Content(a, i) == a.obj_offset + (i - a.win_offset)

(* What page_map does to the registration: the fault is kept, or done with.*)
AnswerKept(f) == f
Answer(f) == IF f = None THEN f ELSE None

(* page_map: the page joins the view; if a fault is pending there, the     *)
(* page is mapped where that fault was, and its thread goes on.            *)
PageMap ==
  /\ server.at = "map"
  /\ LET v == table[server.id][server.hndl]
         r == v.reg
         f == reg[r].pending
         i == server.page
         c == Content(v.arg, i)
     IN IF reg[r].pages[i] # None
        THEN Panic
        ELSE /\ reg' = [reg EXCEPT
                          ![r].pages[i] = c,
                          ![r].seen = IF f = None THEN @
                                      ELSE [@ EXCEPT ![f.page] = c],
                          ![r].pending = Answer(@)]
             /\ proc' = IF f = None THEN proc
                        ELSE [proc EXCEPT ![f.proc] = "running"]
             /\ server' = [Idle EXCEPT !.at = "drain"]
             /\ UNCHANGED <<win, endpoint, ring, signalled, table, panicked>>
  /\ UNCHANGED incidents

-----------------------------------------------------------------------------
ClientNext ==
  \E p \in Procs :
    \/ WindowCreate(p)
    \/ WindowDestroy(p)
    \/ CallServer(p)
    \/ FaultForwards(p)
    \/ FaultRemaps(p)
    \/ FaultUnanswered(p)

ServerNext ==
  \/ OpenArrives
  \/ CloseArrives
  \/ ViewArrives
  \/ Register
  \/ UnviewArrives
  \/ Deregister
  \/ Notified
  \/ Drain
  \/ PageMap

Next == ~panicked /\ (ClientNext \/ ServerNext)

(* The server keeps running its loop, and the root server answers it.      *)
Spec == Init /\ [][Next]_vars /\ WF_vars(~panicked /\ ServerNext)

-----------------------------------------------------------------------------
OptPages == [Page -> Int \cup {None}]

TypeOK ==
  /\ win \in [Windows -> [owner : Procs \cup {None}, view : Regs \cup {None}]]
  /\ reg \in [Regs -> [win : Windows \cup {None}, client : Procs \cup {None},
                       ref : Handle, pages : OptPages, seen : OptPages,
                       pending : [proc : Procs, page : Page] \cup {None}]]
  /\ proc \in [Procs -> {"running", "calling", "faulting", "stopped"}]
  /\ endpoint \in Seq([id : Procs, win : Windows \cup {None},
                       op : {"open", "close", "view", "unview"},
                       arg : ViewArgs \cup {None}, hndl : Handle])
  /\ ring \in Seq([id : Procs, ref : Handle, page : Page])
  /\ signalled \in BOOLEAN
  /\ server \in [at : {"recv", "register", "deregister", "drain", "map"},
                 id : Procs \cup {None}, hndl : Handle, page : Page,
                 win : Windows \cup {None}, arg : ViewArgs \cup {None}]
  /\ Known \subseteq Procs
  /\ table \in [Known -> [Handle -> [reg : Regs, arg : ViewArgs] \cup {None}]]
  /\ panicked \in BOOLEAN
  /\ incidents \subseteq Incidents

Orderly == incidents = {}

(* Server and root server agree on each view: the handle in the server's   *)
(* table is the one that the registration will name in a message, and the  *)
(* registration is the one its window is bound to.  So clients that view   *)
(* their own windows once, keep to the view and take everything down in    *)
(* order stop neither server: every fault message finds the client and the *)
(* view it names, page_map never meets a page that is already there, and   *)
(* the ring has room.                                                      *)
RecordsAgree ==
  /\ TypeOK
  /\ Orderly =>
    /\ ~panicked
    /\ \A c \in Known, h \in Handle : table[c][h] # None =>
         LET r == table[c][h].reg IN
         /\ reg[r].client = c /\ reg[r].ref = h
         /\ win[reg[r].win].view = r
    /\ \A w \in Windows : win[w].view # None =>
         LET r == win[w].view IN
         /\ reg[r].win = w
         /\ reg[r].client \in Known
         /\ table[reg[r].client][reg[r].ref] # None
         /\ table[reg[r].client][reg[r].ref].reg = r

(* A blocked thread is never forgotten: its reply lies in one view, and    *)
(* the page it waits for is named by one message, still in the ring or the *)
(* one the server is about to answer with page_map.                        *)
Owing(p) == {r \in Regs : reg[r].pending # None /\ reg[r].pending.proc = p}
Names(m, r) == m.id = reg[r].client /\ m.ref = reg[r].ref
               /\ m.page = reg[r].pending.page
InHand == IF server.at = "map"
          THEN {[id |-> server.id, ref |-> server.hndl, page |-> server.page]}
          ELSE {}
FaultsAreOwed ==
  Orderly => \A p \in Procs :
    IF proc[p] # "faulting" THEN Owing(p) = {}
    ELSE \E r \in Regs :
           /\ Owing(p) = {r}
           /\ Cardinality({k \in DOMAIN ring : Names(ring[k], r)})
              + Cardinality({m \in InHand : Names(m, r)}) = 1

(* A page of a window shows the page of the file that belongs there, and   *)
(* is the one its view keeps.                                              *)
PagesAreRight ==
  Orderly => \A c \in Known, h \in Handle : table[c][h] # None =>
    LET v == table[c][h] IN
    \A i \in Page : reg[v.reg].seen[i] # None =>
      /\ reg[v.reg].seen[i] = reg[v.reg].pages[i]
      /\ reg[v.reg].seen[i] = v.arg.obj_offset + (i - v.arg.win_offset)

(* Every forwarded fault is answered.                                      *)
FaultsAreAnswered ==
  \A p \in Procs : proc[p] = "faulting" ~> proc[p] = "running" \/ ~Orderly

(* The server has a todo!() for "The case where the fault occurs after the *)
(* view"; so no page is ever supplied behind it.                           *)
PagesStayInView ==
  \A c \in Known, h \in Handle : table[c][h] # None =>
    LET v == table[c][h] IN
    \A i \in Page : reg[v.reg].seen[i] # None /\ incidents \subseteq {"outside"}
      => InView(v.arg, i)

=============================================================================
