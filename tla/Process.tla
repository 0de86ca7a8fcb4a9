------------------------------ MODULE Process ------------------------------
(***************************************************************************)
(* Process lifetimes in the root server: process_spawn, process_wait and   *)
(* process_exit (root_server/src/proc.rs) and the lookup by badge that     *)
(* starts every system call and fault (syscall.rs, fault.rs).              *)
(*                                                                         *)
(* A process is a reference-counted ProcessType.  Two kinds of reference   *)
(* exist: PROCS[pid], through which a caller is found, and the Process     *)
(* handle of the parent, through which it waits.  Much of this module is   *)
(* about the two going out of step.                                        *)
(***************************************************************************)
EXTENDS Integers

CONSTANTS
  MaxProcs,   \* MAX_PROCS
  MaxHandles, \* MAX_HANDLES, per process
  MaxRcs,     \* bound: ProcessType values ever created
  Other,      \* a handle that UserProcess::destroy cannot release: a
              \* connection, server, reply, handle capability, registration,
              \* channel
  None        \* Option::None

ASSUME ProcessAssumption ==
  /\ MaxProcs \in Nat \ {0}
  /\ MaxHandles \in Nat \ {0}
  /\ MaxRcs \in Nat \ {0}
  /\ Other # None
  /\ {Other, None} \cap Nat = {}

Pid    == 0 .. MaxProcs - 1
Handle == 0 .. MaxHandles - 1
Rc     == 1 .. MaxRcs

VARIABLES
  procs,    \* PROCS: pid -> Rc or None
  rcs,      \* the number of Rcs created; they are numbered in that order
  kind,     \* per Rc: ActiveProcess or ZombieProcess
  pidOf,    \* per Rc: UserProcess.pid, also the badge of the thread's endpoint
  waiter,   \* per Rc: UserProcess.waiter, as the process whose call it answers
  handles,  \* per Rc: UserProcess.handle_table
  thread,   \* per Rc: what the thread the process was created with is doing
  panicked  \* the root server hit a todo!() or a panic!()

vars == <<procs, rcs, kind, pidOf, waiter, handles, thread, panicked>>

NoHandles == [h \in Handle |-> None]

(* main() starts the boot file server before the system call loop.        *)
Init ==
  /\ procs = [pid \in Pid |-> IF pid = 0 THEN 1 ELSE None]
  /\ rcs = 1
  /\ kind = [r \in Rc |-> "Active"]
  /\ pidOf = [r \in Rc |-> 0]
  /\ waiter = [r \in Rc |-> None]
  /\ handles = [r \in Rc |-> NoHandles]
  /\ thread = [r \in Rc |-> IF r = 1 THEN "running" ELSE "none"]
  /\ panicked = FALSE

-----------------------------------------------------------------------------
(* The process a thread's system call or fault is charged to: whatever     *)
(* PROCS holds under its badge.  An empty entry or a zombie is a panic;    *)
(* PidsAreSpent implies that no thread able to call meets either.          *)
Invokes(t, p) ==
  /\ thread[t] = "running"
  /\ p = procs[pidOf[t]]
  /\ p # None
  /\ kind[p] = "Active"

(* A search that stops at the first index without looking whether it is    *)
(* taken.                                                                  *)
FirstIndex(f, i) == \A j \in DOMAIN f : j < i => f[j] # None

(* allocate_handle and find_free_proc both take the lowest free index.     *)
LowestFree(f, i) == f[i] = None /\ \A j \in DOMAIN f : j < i => f[j] # None

(* handle_process_spawn and start_process: the handle index is found       *)
(* first, the table entry is set last, and the handle after it.            *)
Spawn(t) ==
  \E p \in Rc, h \in Handle, pid \in Pid :
    /\ Invokes(t, p)
    /\ LowestFree(handles[p], h)
    /\ LowestFree(procs, pid)
    /\ rcs < MaxRcs
    /\ rcs' = rcs + 1
    /\ kind' = [kind EXCEPT ![rcs'] = "Active"]
    /\ pidOf' = [pidOf EXCEPT ![rcs'] = pid]
    /\ procs' = [procs EXCEPT ![pid] = rcs']
    /\ handles' = [handles EXCEPT ![p][h] = rcs']
    /\ thread' = [thread EXCEPT ![rcs'] = "running"]
    /\ UNCHANGED <<waiter, panicked>>

(* No handle, no pid, or some allocation of start_process fails: nothing   *)
(* of the process table or of the caller's handles has been changed yet.   *)
SpawnFails(t) ==
  /\ \E p \in Rc : Invokes(t, p)
  /\ UNCHANGED vars

(* handle_process_wait on a Process handle.  Waiting on an active process  *)
(* stores the reply object in it and answers nobody: as process_exit never *)
(* gets to send a stored reply (ExitToWaiter), the caller has run for the  *)
(* last time.  A handle keeps the Rc it was made with, so that it never    *)
(* shows the zombie of PROCS: the second case, which would free the pid    *)
(* and whose answer handle_reply has no case for, is never taken.          *)
Wait(t) ==
  \E p, q \in Rc, h \in Handle :
    /\ Invokes(t, p)
    /\ handles[p][h] = q
    /\ IF kind[q] = "Active"
       THEN /\ waiter' = [waiter EXCEPT ![q] = t]
            /\ thread' = [thread EXCEPT ![t] = "waiting"]
            /\ UNCHANGED <<procs, panicked>>
       ELSE /\ procs' = [procs EXCEPT ![pidOf[q]] = None]
            /\ panicked' = TRUE
            /\ UNCHANGED <<waiter, thread>>
    /\ UNCHANGED <<rcs, kind, pidOf, handles>>

(* Any other call that leaves such a handle open, and its inverse.         *)
OpenOther(t) ==
  \E p \in Rc, h \in Handle :
    /\ Invokes(t, p)
    /\ LowestFree(handles[p], h)
    /\ handles' = [handles EXCEPT ![p][h] = Other]
    /\ UNCHANGED <<procs, rcs, kind, pidOf, waiter, thread, panicked>>

CloseOther(t) ==
  \E p \in Rc, h \in Handle :
    /\ Invokes(t, p)
    /\ handles[p][h] = Other
    /\ handles' = [handles EXCEPT ![p][h] = None]
    /\ UNCHANGED <<procs, rcs, kind, pidOf, waiter, thread, panicked>>

-----------------------------------------------------------------------------
(* A destroy that drops the handles it has no code for.                    *)
CanAlwaysDestroy(p) == p \in Rc

(* UserProcess::destroy runs over the handle table first and stops the     *)
(* root server at a handle it has no code for, a Process handle included.  *)
CanDestroy(p) == \A h \in Handle : handles[p][h] = None

ExitStopsServer(t) ==
  /\ \E p \in Rc : Invokes(t, p) /\ ~CanDestroy(p)
  /\ panicked' = TRUE
  /\ UNCHANGED <<procs, rcs, kind, pidOf, waiter, handles, thread>>

(* The rest of handle_process_exit with somebody waiting: its process is   *)
(* gone when handle_reply, which has no case for ProcessWait, panics over  *)
(* the message that was to be sent to the stored reply.                    *)
ExitToWaiter(t) ==
  \E p \in Rc :
    /\ Invokes(t, p)
    /\ CanDestroy(p)
    /\ waiter[p] # None
    /\ thread' = [thread EXCEPT ![p] = "exited"]
    /\ panicked' = TRUE
    /\ UNCHANGED <<procs, rcs, kind, pidOf, waiter, handles>>

(* And with nobody waiting: PROCS gets a new Rc, a zombie.                 *)
ExitToZombie(t) ==
  \E p \in Rc :
    /\ Invokes(t, p)
    /\ CanDestroy(p)
    /\ waiter[p] = None
    /\ rcs < MaxRcs
    /\ rcs' = rcs + 1
    /\ kind' = [kind EXCEPT ![rcs'] = "Zombie"]
    /\ pidOf' = [pidOf EXCEPT ![rcs'] = pidOf[p]]
    /\ procs' = [procs EXCEPT ![pidOf[p]] = rcs']
    /\ thread' = [thread EXCEPT ![p] = "exited"]
    /\ UNCHANGED <<waiter, handles, panicked>>

Next ==
  /\ ~panicked
  /\ \E t \in Rc :
       \/ Spawn(t)
       \/ SpawnFails(t)
       \/ Wait(t)
       \/ OpenOther(t)
       \/ CloseOther(t)
       \/ ExitStopsServer(t)
       \/ ExitToWaiter(t)
       \/ ExitToZombie(t)

Spec == Init /\ [][Next]_vars

-----------------------------------------------------------------------------
TypeOK ==
  /\ procs \in [Pid -> Rc \cup {None}]
  /\ rcs \in Rc
  /\ kind \in [Rc -> {"Active", "Zombie"}]
  /\ pidOf \in [Rc -> Pid]
  /\ waiter \in [Rc -> Rc \cup {None}]
  /\ handles \in [Rc -> [Handle -> Rc \cup {None, Other}]]
  /\ thread \in [Rc -> {"none", "running", "waiting", "exited"}]
  /\ panicked \in BOOLEAN

Alive(r) == thread[r] \in {"running", "waiting"}

(* Those that were ever spawned; the other Rcs are zombies or not created. *)
Spawned == {r \in Rc : thread[r] # "none"}

(* A pid is given to one process and to no other: a process is found under *)
(* its badge as long as it can call, one that has exited leaves a zombie   *)
(* there which nothing removes, and spawn takes neither for a free entry.  *)
(* So the two panics of handle_syscall and of handle_fault ("invalid       *)
(* badge", "Zombie process invoked root server") cannot happen, no badge   *)
(* that outlives its process names another, and MAX_PROCS processes are    *)
(* all that process_spawn creates until the machine is restarted.          *)
PidsAreSpent ==
  /\ \A r \in Spawned :
       \/ procs[pidOf[r]] = r /\ kind[r] = "Active"
       \/ /\ thread[r] = "exited"
          /\ procs[pidOf[r]] \in Rc
          /\ kind[procs[pidOf[r]]] = "Zombie"
  /\ \A r, s \in Spawned : pidOf[r] = pidOf[s] => r = s

(* Every process but the first stays referenced by a handle of a process   *)
(* that is itself alive.  destroy has no code for a Process handle, so a   *)
(* parent cannot leave and orphans (proc.rs asks who would adopt them) do  *)
(* not arise; and process_exit, which drops the Rc in PROCS while it still *)
(* borrows it, never drops the last one (main() keeps that of the first).  *)
NoOrphans ==
  \A t \in Rc : Alive(t) /\ t # 1 =>
    \E p \in Rc, h \in Handle : Alive(p) /\ p # t /\ handles[p][h] = t

(* A blocked wait is for a process that can still exit, and its exit ends  *)
(* the wait.  proc.rs says over the stored reply "Send a message saying    *)
(* that this process terminated", but the root server panics on the way to *)
(* that message.  It says too that a process nobody waits for makes the    *)
(* transition to a zombie, and handle_process_wait answers at once when it *)
(* meets one; the transition however replaces the Rc in PROCS and leaves   *)
(* the parent's handle with the old Rc, still an ActiveProcess.            *)
NoWaiterLost ==
  \A t \in Rc : thread[t] = "waiting" =>
    \E r \in Rc : waiter[r] = t /\ Alive(r)

=============================================================================
