--------------------------- MODULE Process_proofs ---------------------------
(***************************************************************************)
(* Proofs about Process, for every size of the process table and of the    *)
(* handle tables, and any number of processes.                             *)
(***************************************************************************)
EXTENDS Process, TLAPS

(* What has not been created yet has no thread, and no table entry.        *)
Unborn ==
  /\ \A r \in Rc : r > rcs => thread[r] = "none"
  /\ \A pid \in Pid : procs[pid] \in Rc => procs[pid] <= rcs

(* A Process handle refers to an Rc that was created as a process: zombies *)
(* are new Rcs that nobody has a handle to.                                *)
HandlesAreActive ==
  \A p \in Rc, h \in Handle : handles[p][h] \in Rc =>
    handles[p][h] <= rcs /\ kind[handles[p][h]] = "Active"

(* PidsAreSpent needs HandlesAreActive, without which a wait would free    *)
(* the pid of a zombie; and Unborn, for new Rcs to be nobody's.            *)
IInv ==
  /\ TypeOK
  /\ PidsAreSpent
  /\ NoOrphans
  /\ Unborn
  /\ HandlesAreActive

(* The markers are no references.                                          *)
LEMMA Markers == None \notin Rc /\ Other \notin Rc /\ Other # None
  BY ProcessAssumption DEF Rc

(* Initially only the first process exists.                                *)
LEMMA InitIInv == Init => IInv
<1> SUFFICES ASSUME Init PROVE IInv
  OBVIOUS
<1> USE ProcessAssumption, Markers DEF Init
<1>1. TypeOK
  <2>1. 0 \in Pid /\ 1 \in Rc
    BY DEF Pid, Rc
  <2>2. /\ procs \in [Pid -> Rc \cup {None}]
        /\ rcs \in Rc
        /\ waiter \in [Rc -> Rc \cup {None}]
        /\ thread \in [Rc -> {"none", "running", "waiting", "exited"}]
    BY <2>1
  <2>3. /\ kind \in [Rc -> {"Active", "Zombie"}]
        /\ pidOf \in [Rc -> Pid]
        /\ panicked \in BOOLEAN
    BY <2>1
  <2>4. handles \in [Rc -> [Handle -> Rc \cup {None, Other}]]
    BY DEF NoHandles
  <2>5. QED
    BY <2>2, <2>3, <2>4 DEF TypeOK
<1>2. PidsAreSpent
  <2>1. Spawned = {1} /\ 0 \in Pid
    BY DEF Spawned, Pid, Rc
  <2>2. QED
    BY <2>1 DEF PidsAreSpent, Rc
<1>3. NoOrphans
  BY DEF NoOrphans, Alive, Rc
<1>4. Unborn /\ HandlesAreActive
  BY DEF Unborn, HandlesAreActive, NoHandles, Rc
<1>5. QED
  BY <1>1, <1>2, <1>3, <1>4 DEF IInv

(* The caller of a system call is charged to its own process.              *)
LEMMA CallerIsSelf ==
  ASSUME IInv, NEW t \in Rc, NEW p \in Rc, Invokes(t, p)
  PROVE  /\ p = t /\ thread[t] = "running"
         /\ procs[pidOf[t]] = t /\ kind[t] = "Active"
<1>1. thread[t] = "running" /\ t \in Spawned
  BY DEF Invokes, Spawned
<1>2. procs[pidOf[t]] = t /\ kind[t] = "Active"
  BY <1>1 DEF IInv, PidsAreSpent
<1>3. QED
  BY <1>1, <1>2 DEF Invokes

(* What keeps PidsAreSpent: no thread starts anew, no pid or kind of a     *)
(* spawned process changes, and entries of processes stay.                 *)
LEMMA StillSpent ==
  ASSUME IInv, UNCHANGED <<procs, kind, pidOf>>,
         \A r \in Rc : (thread'[r] = "none") <=> (thread[r] = "none"),
         \A r \in Rc : thread[r] = "exited" => thread'[r] = "exited"
  PROVE  PidsAreSpent'
<1>1. Spawned' = Spawned
  BY DEF Spawned
<1>2. Spawned \subseteq Rc
  BY DEF Spawned
<1>3. QED
  BY <1>1, <1>2 DEF IInv, PidsAreSpent

(* process_spawn: the new pid's entry was empty, and the new process is    *)
(* referenced by its parent.                                               *)
LEMMA SpawnIInv == ASSUME IInv, NEW t \in Rc, Spawn(t) PROVE IInv'
<1>1. PICK h \in Handle, pid \in Pid :
        /\ LowestFree(handles[t], h)
        /\ LowestFree(procs, pid)
        /\ rcs < MaxRcs
        /\ rcs' = rcs + 1
        /\ kind' = [kind EXCEPT ![rcs'] = "Active"]
        /\ pidOf' = [pidOf EXCEPT ![rcs'] = pid]
        /\ procs' = [procs EXCEPT ![pid] = rcs']
        /\ handles' = [handles EXCEPT ![t][h] = rcs']
        /\ thread' = [thread EXCEPT ![rcs'] = "running"]
        /\ UNCHANGED <<waiter, panicked>>
  BY CallerIsSelf DEF Spawn
<1> DEFINE n == rcs + 1
<1>2. /\ n \in Rc /\ rcs \in Rc
      /\ thread[n] = "none"
      /\ thread[t] = "running" /\ t # n
      /\ procs[pid] = None
      /\ handles[t][h] = None
  <2>1. n \in Rc /\ rcs \in Rc /\ n > rcs
    BY <1>1, ProcessAssumption DEF IInv, TypeOK, Rc
  <2>2. thread[t] = "running"
    BY CallerIsSelf DEF Spawn
  <2>3. QED
    BY <1>1, <2>1, <2>2 DEF IInv, Unborn, LowestFree
<1>3. TypeOK'
  BY <1>1, <1>2 DEF IInv, TypeOK
<1>4. \A r \in Rc \ {n} : thread'[r] = thread[r] /\ pidOf'[r] = pidOf[r]
                          /\ kind'[r] = kind[r]
  BY <1>1, <1>2 DEF IInv, TypeOK
<1>5. /\ thread'[n] = "running" /\ pidOf'[n] = pid /\ kind'[n] = "Active"
      /\ procs'[pid] = n /\ handles'[t][h] = n
  BY <1>1, <1>2 DEF IInv, TypeOK
<1>6. \A q \in Rc, g \in Handle : \A r \in Rc :
        handles[q][g] = r => handles'[q][g] = r
  BY <1>1, <1>2, Markers DEF IInv, TypeOK
<1>7. \A r \in Spawned : /\ r \in Rc \ {n} /\ pidOf[r] \in Pid
                          /\ pidOf[r] # pid
                          /\ procs'[pidOf[r]] = procs[pidOf[r]]
                          /\ procs[pidOf[r]] # n
  <2> SUFFICES ASSUME NEW r \in Spawned
               PROVE  /\ r \in Rc \ {n} /\ pidOf[r] \in Pid
                      /\ pidOf[r] # pid
                      /\ procs'[pidOf[r]] = procs[pidOf[r]]
                      /\ procs[pidOf[r]] # n
    OBVIOUS
  <2>1. r \in Rc \ {n} /\ pidOf[r] \in Pid
    BY <1>2 DEF IInv, TypeOK, Spawned
  <2>2. procs[pidOf[r]] \in Rc
    BY <2>1 DEF IInv, PidsAreSpent
  <2>3. pidOf[r] # pid
    BY <1>2, <2>2, Markers
  <2>4. procs'[pidOf[r]] = procs[pidOf[r]]
    BY <1>1, <2>1, <2>3 DEF IInv, TypeOK
  <2>5. procs[pidOf[r]] # n
    <3>1. n \in Rc /\ rcs \in Int
      BY <1>2 DEF Rc
    <3>2. procs[pidOf[r]] \in Rc => procs[pidOf[r]] <= rcs
      BY <2>1 DEF IInv, Unborn
    <3>3. QED
      BY <3>1, <3>2
  <2>6. QED
    BY <2>1, <2>3, <2>4, <2>5
<1>8. PidsAreSpent'
  <2>1. Spawned' = Spawned \cup {n}
    BY <1>2, <1>4, <1>5 DEF Spawned
  <2>2. ASSUME NEW r \in Spawned
        PROVE  \/ procs'[pidOf'[r]] = r /\ kind'[r] = "Active"
               \/ /\ thread'[r] = "exited"
                  /\ procs'[pidOf'[r]] \in Rc
                  /\ kind'[procs'[pidOf'[r]]] = "Zombie"
    <3>1. /\ pidOf'[r] = pidOf[r] /\ kind'[r] = kind[r]
          /\ thread'[r] = thread[r]
          /\ procs'[pidOf[r]] = procs[pidOf[r]]
          /\ procs[pidOf[r]] \in Rc => kind'[procs[pidOf[r]]] = kind[procs[pidOf[r]]]
      BY <1>4, <1>7
    <3>2. QED
      BY <3>1 DEF IInv, PidsAreSpent
  <2>3. \A r, s \in Spawned : pidOf'[r] = pidOf'[s] => r = s
    BY <1>4, <1>7 DEF IInv, PidsAreSpent
  <2>4. \A r \in Spawned : pidOf'[r] # pidOf'[n]
    BY <1>4, <1>5, <1>7
  <2>5. QED
    BY <1>5, <2>1, <2>2, <2>3, <2>4 DEF PidsAreSpent
<1>9. NoOrphans'
  <2> SUFFICES ASSUME NEW s \in Rc, Alive(s)', s # 1
               PROVE  \E q \in Rc, g \in Handle :
                        Alive(q)' /\ q # s /\ handles'[q][g] = s
    BY DEF NoOrphans
  <2>1. CASE s = n
    BY <1>2, <1>4, <1>5, <2>1 DEF Alive
  <2>2. CASE s # n
    <3>1. PICK q \in Rc, g \in Handle :
            Alive(q) /\ q # s /\ handles[q][g] = s
      BY <1>4, <2>2 DEF IInv, NoOrphans, Alive
    <3>2. Alive(q)'
      BY <1>2, <1>4, <3>1 DEF Alive
    <3>3. QED
      BY <1>6, <3>1, <3>2
  <2>3. QED
    BY <2>1, <2>2
<1>10. Unborn'
  BY <1>1, <1>2, <1>4 DEF IInv, TypeOK, Unborn, Rc
<1>11. HandlesAreActive'
  <2> SUFFICES ASSUME NEW q \in Rc, NEW g \in Handle, handles'[q][g] \in Rc
               PROVE  /\ handles'[q][g] <= rcs'
                      /\ kind'[handles'[q][g]] = "Active"
    BY DEF HandlesAreActive
  <2>1. handles'[q][g] = n \/ handles'[q][g] = handles[q][g]
    BY <1>1, <1>2 DEF IInv, TypeOK
  <2>2. QED
    BY <1>1, <1>2, <1>4, <1>5, <2>1 DEF IInv, HandlesAreActive, Rc
<1>12. QED
  BY <1>3, <1>7, <1>8, <1>9, <1>10, <1>11 DEF IInv

(* process_wait: a handle refers to an active process, so the reply is     *)
(* kept, and the branch that frees a zombie's pid is never taken.          *)
LEMMA WaitIInv == ASSUME IInv, NEW t \in Rc, Wait(t) PROVE IInv'
<1>1. PICK q \in Rc, h \in Handle :
        /\ handles[t][h] = q
        /\ IF kind[q] = "Active"
           THEN /\ waiter' = [waiter EXCEPT ![q] = t]
                /\ thread' = [thread EXCEPT ![t] = "waiting"]
                /\ UNCHANGED <<procs, panicked>>
           ELSE /\ procs' = [procs EXCEPT ![pidOf[q]] = None]
                /\ panicked' = TRUE
                /\ UNCHANGED <<waiter, thread>>
        /\ UNCHANGED <<rcs, kind, pidOf, handles>>
  BY CallerIsSelf DEF Wait
<1>2. /\ kind[q] = "Active" /\ q <= rcs
      /\ thread[t] = "running" /\ rcs \in Rc
      /\ t <= rcs
  <2>1. thread[t] = "running"
    BY CallerIsSelf DEF Wait
  <2>2. t <= rcs
    BY <2>1 DEF IInv, Unborn, TypeOK, Rc
  <2>3. QED
    BY <1>1, <2>1, <2>2 DEF IInv, HandlesAreActive, TypeOK
<1>3. /\ waiter' = [waiter EXCEPT ![q] = t]
      /\ thread' = [thread EXCEPT ![t] = "waiting"]
      /\ UNCHANGED <<procs, rcs, kind, pidOf, handles, panicked>>
  BY <1>1, <1>2
<1>4. \A r \in Rc : Alive(r)' <=> Alive(r)
  BY <1>2, <1>3 DEF IInv, TypeOK, Alive
<1>5. TypeOK'
  BY <1>3 DEF IInv, TypeOK
<1>6. NoOrphans' /\ HandlesAreActive'
  BY <1>3, <1>4 DEF IInv, NoOrphans, HandlesAreActive
<1>7. Unborn'
  BY <1>2, <1>3 DEF IInv, TypeOK, Unborn, Rc
<1>8. PidsAreSpent'
  <2>1. /\ thread'[t] = "waiting"
        /\ \A r \in Rc \ {t} : thread'[r] = thread[r]
    BY <1>3 DEF IInv, TypeOK
  <2>2. QED
    BY <1>2, <1>3, <2>1, StillSpent
<1>9. QED
  BY <1>3, <1>5, <1>6, <1>7, <1>8 DEF IInv

(* Handles of other kinds come and go beside the Process handles.          *)
LEMMA OtherHandlesIInv ==
  ASSUME IInv, NEW t \in Rc, OpenOther(t) \/ CloseOther(t)
  PROVE  IInv'
<1>1. PICK h \in Handle, v \in {Other, None} :
        /\ handles[t][h] \notin Rc
        /\ handles' = [handles EXCEPT ![t][h] = v]
        /\ UNCHANGED <<procs, rcs, kind, pidOf, waiter, thread, panicked>>
  BY CallerIsSelf, Markers DEF OpenOther, CloseOther, LowestFree
<1>2. TypeOK'
  BY <1>1 DEF IInv, TypeOK
<1>3. \A q \in Rc, g \in Handle : \A r \in Rc :
        handles'[q][g] = r <=> handles[q][g] = r
  BY <1>1, Markers DEF IInv, TypeOK
<1>4. \A r \in Rc : Alive(r)' <=> Alive(r)
  BY <1>1 DEF Alive
<1>5. PidsAreSpent' /\ Unborn'
  BY <1>1, StillSpent DEF IInv, Unborn
<1>6. NoOrphans' /\ HandlesAreActive'
  BY <1>1, <1>3, <1>4 DEF IInv, NoOrphans, HandlesAreActive
<1>7. QED
  BY <1>2, <1>5, <1>6 DEF IInv

(* What both forms of process_exit leave behind: the process t is dead, no *)
(* other thread dies, and what belonged to others is untouched.            *)
Departs(t) ==
  /\ thread[t] = "running" /\ thread'[t] = "exited"
  /\ \A r \in Rc \ {t} : Alive(r)' <=> Alive(r)
  /\ \A h \in Handle : handles[t][h] = None
  /\ handles' = handles

(* An exiting process has no handles, so it orphans nobody.                *)
LEMMA DepartureNoOrphans ==
  ASSUME IInv, NEW t \in Rc, Departs(t)
  PROVE  NoOrphans'
<1> SUFFICES ASSUME NEW s \in Rc, Alive(s)', s # 1
             PROVE  \E q \in Rc, g \in Handle :
                      Alive(q)' /\ q # s /\ handles'[q][g] = s
  BY DEF NoOrphans
<1>1. s # t /\ Alive(s)
  BY DEF Departs, Alive
<1>2. PICK q \in Rc, g \in Handle : Alive(q) /\ q # s /\ handles[q][g] = s
  BY <1>1 DEF IInv, NoOrphans
<1>3. q # t
  BY <1>2, Markers DEF Departs
<1>4. QED
  BY <1>2, <1>3 DEF Departs

(* process_exit with a stored reply: all that is left is a panic.          *)
LEMMA ExitToWaiterIInv == ASSUME IInv, NEW t \in Rc, ExitToWaiter(t) PROVE IInv'
<1>1. /\ \A h \in Handle : handles[t][h] = None
      /\ thread' = [thread EXCEPT ![t] = "exited"]
      /\ panicked' = TRUE
      /\ UNCHANGED <<procs, rcs, kind, pidOf, waiter, handles>>
  <2>1. \A p \in Rc : Invokes(t, p) => p = t
    BY CallerIsSelf
  <2>2. QED
    BY <2>1 DEF ExitToWaiter, CanDestroy
<1>2. thread[t] = "running" /\ procs[pidOf[t]] = t
  BY CallerIsSelf DEF ExitToWaiter
<1>3. /\ thread'[t] = "exited"
      /\ \A r \in Rc \ {t} : thread'[r] = thread[r]
  BY <1>1 DEF IInv, TypeOK
<1>4. Departs(t)
  BY <1>1, <1>2, <1>3 DEF Departs, Alive
<1>5. TypeOK'
  BY <1>1 DEF IInv, TypeOK
<1>6. PidsAreSpent'
  BY <1>1, <1>2, <1>3, StillSpent
<1>8. NoOrphans'
  BY <1>4, DepartureNoOrphans
<1>9. Unborn' /\ HandlesAreActive'
  BY <1>1, <1>2, <1>3 DEF IInv, Unborn, HandlesAreActive
<1>10. QED
  BY <1>5, <1>6, <1>8, <1>9 DEF IInv

(* process_exit without one: PROCS gets an Rc nobody has a handle to.      *)
LEMMA ExitToZombieIInv == ASSUME IInv, NEW t \in Rc, ExitToZombie(t) PROVE IInv'
<1>1. /\ \A h \in Handle : handles[t][h] = None
      /\ waiter[t] = None
      /\ rcs < MaxRcs
      /\ rcs' = rcs + 1
      /\ kind' = [kind EXCEPT ![rcs'] = "Zombie"]
      /\ pidOf' = [pidOf EXCEPT ![rcs'] = pidOf[t]]
      /\ procs' = [procs EXCEPT ![pidOf[t]] = rcs']
      /\ thread' = [thread EXCEPT ![t] = "exited"]
      /\ UNCHANGED <<waiter, handles, panicked>>
  <2>1. \A p \in Rc : Invokes(t, p) => p = t
    BY CallerIsSelf
  <2>2. QED
    BY <2>1 DEF ExitToZombie, CanDestroy
<1> DEFINE n == rcs + 1
<1>2. thread[t] = "running" /\ procs[pidOf[t]] = t
  BY CallerIsSelf DEF ExitToZombie
<1>3. /\ n \in Rc /\ rcs \in Rc /\ n > rcs
      /\ thread[n] = "none" /\ n # t
  <2>1. n \in Rc /\ rcs \in Rc /\ n > rcs
    BY <1>1, ProcessAssumption DEF IInv, TypeOK, Rc
  <2>2. QED
    BY <1>2, <2>1 DEF IInv, Unborn
<1>4. /\ thread'[t] = "exited"
      /\ \A r \in Rc \ {t} : thread'[r] = thread[r]
      /\ \A r \in Rc \ {n} : kind'[r] = kind[r] /\ pidOf'[r] = pidOf[r]
  BY <1>1, <1>3 DEF IInv, TypeOK
<1>5. Departs(t)
  BY <1>1, <1>2, <1>4 DEF Departs, Alive
<1>6. TypeOK'
  BY <1>1, <1>3 DEF IInv, TypeOK
<1>7. /\ Spawned' = Spawned /\ Spawned \subseteq Rc \ {n}
      /\ t \in Spawned
  BY <1>2, <1>3, <1>4 DEF Spawned
<1>8. PidsAreSpent'
  <2>1. ASSUME NEW r \in Spawned
        PROVE  \/ procs'[pidOf'[r]] = r /\ kind'[r] = "Active"
               \/ /\ thread'[r] = "exited"
                  /\ procs'[pidOf'[r]] \in Rc
                  /\ kind'[procs'[pidOf'[r]]] = "Zombie"
    <3>1. pidOf'[r] = pidOf[r] /\ kind'[r] = kind[r] /\ pidOf[r] \in Pid
      BY <1>4, <1>7 DEF IInv, TypeOK
    <3>2. CASE r = t
      <4>1. procs'[pidOf[t]] = n /\ kind'[n] = "Zombie"
        BY <1>1, <1>3, <3>1, <3>2 DEF IInv, TypeOK
      <4>2. QED
        BY <1>3, <1>4, <3>1, <3>2, <4>1
    <3>3. CASE r # t
      <4>1. pidOf[r] # pidOf[t]
        BY <1>7, <3>3 DEF IInv, PidsAreSpent
      <4>2. procs'[pidOf[r]] = procs[pidOf[r]] /\ procs[pidOf[r]] # n
        <5>1. procs'[pidOf[r]] = procs[pidOf[r]]
          BY <1>1, <3>1, <4>1 DEF IInv, TypeOK
        <5>2. procs[pidOf[r]] \in Rc => procs[pidOf[r]] <= rcs
          BY <3>1 DEF IInv, Unborn
        <5>3. n \in Rc /\ rcs \in Int
          BY <1>3 DEF Rc
        <5>4. QED
          BY <5>1, <5>2, <5>3
      <4>3. thread'[r] = thread[r]
        BY <1>4, <1>7, <3>3
      <4>4. procs[pidOf[r]] \in Rc =>
              kind'[procs[pidOf[r]]] = kind[procs[pidOf[r]]]
        BY <1>4, <4>2
      <4>5. QED
        BY <3>1, <4>2, <4>3, <4>4 DEF IInv, PidsAreSpent
    <3>4. QED
      BY <3>2, <3>3
  <2>2. \A r, s \in Spawned : pidOf'[r] = pidOf'[s] => r = s
    BY <1>4, <1>7 DEF IInv, PidsAreSpent
  <2>3. QED
    BY <1>7, <2>1, <2>2 DEF PidsAreSpent
<1>9. NoOrphans'
  BY <1>5, DepartureNoOrphans
<1>10. Unborn'
  BY <1>1, <1>2, <1>3, <1>4 DEF IInv, Unborn, Rc
<1>11. HandlesAreActive'
  <2> SUFFICES ASSUME NEW q \in Rc, NEW g \in Handle, handles[q][g] \in Rc
               PROVE  handles[q][g] <= n /\ kind'[handles[q][g]] = "Active"
    BY <1>1 DEF HandlesAreActive
  <2>1. handles[q][g] <= rcs /\ kind[handles[q][g]] = "Active"
    BY DEF IInv, HandlesAreActive
  <2>2. QED
    BY <1>3, <1>4, <2>1 DEF Rc
<1>12. QED
  BY <1>6, <1>7, <1>8, <1>9, <1>10, <1>11 DEF IInv

(* Every step preserves the invariant.                                     *)
LEMMA NextIInv == IInv /\ [Next]_vars => IInv'
<1> SUFFICES ASSUME IInv, [Next]_vars PROVE IInv'
  OBVIOUS
<1>1. CASE UNCHANGED vars
  BY <1>1 DEF vars, IInv, TypeOK, PidsAreSpent, Spawned, NoOrphans, Unborn,
              HandlesAreActive, Alive
<1>2. ASSUME NEW t \in Rc, Spawn(t) PROVE IInv'
  BY <1>2, SpawnIInv
<1>3. ASSUME NEW t \in Rc, SpawnFails(t) PROVE IInv'
  BY <1>1, <1>3 DEF SpawnFails
<1>4. ASSUME NEW t \in Rc, Wait(t) PROVE IInv'
  BY <1>4, WaitIInv
<1>5. ASSUME NEW t \in Rc, OpenOther(t) \/ CloseOther(t) PROVE IInv'
  BY <1>5, OtherHandlesIInv
<1>6. ASSUME NEW t \in Rc, ExitStopsServer(t) PROVE IInv'
  BY <1>6 DEF ExitStopsServer, IInv, TypeOK, PidsAreSpent, Spawned, NoOrphans,
              Unborn, HandlesAreActive, Alive
<1>7. ASSUME NEW t \in Rc, ExitToWaiter(t) PROVE IInv'
  BY <1>7, ExitToWaiterIInv
<1>8. ASSUME NEW t \in Rc, ExitToZombie(t) PROVE IInv'
  BY <1>8, ExitToZombieIInv
<1>9. QED
  BY <1>1, <1>2, <1>3, <1>4, <1>5, <1>6, <1>7, <1>8 DEF Next

(* The inductive invariant holds of every reachable state.                 *)
THEOREM ProcessesSound == Spec => []IInv
  BY InitIInv, NextIInv, PTL DEF Spec

(* No pid is given out twice: whoever can call is found under its badge,   *)
(* and the entry of one that exited keeps its zombie.                      *)
THEOREM PidsAlwaysSpent == Spec => []PidsAreSpent
<1>1. IInv => PidsAreSpent
  BY DEF IInv
<1>2. QED
  BY <1>1, ProcessesSound, PTL

(* No process outlives its parent.                                         *)
THEOREM NeverOrphans == Spec => []NoOrphans
<1>1. IInv => NoOrphans
  BY DEF IInv
<1>2. QED
  BY <1>1, ProcessesSound, PTL

=============================================================================
