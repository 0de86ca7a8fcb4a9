----------------------------- MODULE FramePool -----------------------------
(***************************************************************************)
(* What frame_table.rs promises to its callers: a pool of frames, each of  *)
(* which at most one of them holds, and which takes fresh memory only when *)
(* all frames it ever made are held.  The promise ends with the first page *)
(* that is released to the pool but not its own.                           *)
(***************************************************************************)
EXTENDS Integers

CONSTANTS MaxFrames, MaxHolders

VARIABLES
  holders, \* how many callers hold each frame
  made,    \* the frames made so far are those below it
  spoilt   \* a page that is not the pool's was released to it

Frame == 0 .. MaxFrames - 1

Init ==
  /\ holders = [f \in Frame |-> 0]
  /\ made = 0
  /\ spoilt = FALSE

(* alloc_frame finds a frame that nobody holds.                            *)
Take(f) ==
  /\ f < made
  /\ holders[f] = 0
  /\ holders' = [holders EXCEPT ![f] = 1]
  /\ UNCHANGED <<made, spoilt>>

(* alloc_frame makes a frame, with all others held.                        *)
Make ==
  /\ made < MaxFrames
  /\ \A f \in Frame : f < made => holders[f] = 1
  /\ holders' = [holders EXCEPT ![made] = 1]
  /\ made' = made + 1
  /\ UNCHANGED spoilt

(* free_frame.                                                             *)
Give(f) ==
  /\ holders[f] = 1
  /\ holders' = [holders EXCEPT ![f] = 0]
  /\ UNCHANGED <<made, spoilt>>

(* From here on nothing is promised but that frames stay made.             *)
Spoil ==
  /\ spoilt' = TRUE
  /\ made' \in made .. MaxFrames
  /\ holders' \in [Frame -> 0 .. MaxHolders]

Next ==
  \/ ~spoilt /\ (Make \/ \E f \in Frame : Take(f) \/ Give(f))
  \/ Spoil

Spec == Init /\ [][Next]_<<holders, made, spoilt>>

=============================================================================
