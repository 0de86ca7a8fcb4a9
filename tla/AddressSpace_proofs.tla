------------------------- MODULE AddressSpace_proofs -------------------------
(***************************************************************************)
(* Proofs about AddressSpace, for any processes, windows, objects, views   *)
(* and frames and any addresses.  The three records of a binding agree     *)
(* (IInv); every frame has one holder and is seen where it should be       *)
(* (MInv, PagesInPlace); the root server survives (SInv).                  *)
(***************************************************************************)
EXTENDS AddressSpace, FiniteSetTheorems, TLAPS

(* A view that is on its object's list and has a handle is in a window of  *)
(* the process that holds the handle: only window_destroy parts the two,   *)
(* and it takes the view off the list.                                     *)
AttachedAreAtHome ==
  \A o \in Objects : \A v \in assoc[o] :
    view[v].proc # None => win[view[v].win].proc = view[v].proc

(* A view has an object as long as it has a window.                        *)
ViewsAreWhole == \A v \in Views : view[v].win # None => view[v].obj # None

IInv == BindingsAgree /\ AttachedAreAtHome /\ ViewsAreWhole

LEMMA NoneIsApart ==
  /\ None \notin Procs /\ None \notin Windows /\ None \notin Objects
  /\ None \notin Views /\ None \notin Frames
  /\ Revoked \notin Frames /\ Revoked # None
  BY AddressSpaceAssumption

LEMMA PagesAreInts == Pages \subseteq Int
  BY DEF Pages

(* What cleanup leaves, and what an object holds.                          *)
LEMMA CleanedPages ==
  ASSUME NEW pages \in [Pages -> Frames \cup {None, Revoked}]
  PROVE  Cleaned(pages) \in [Pages -> Frames \cup {None, Revoked}]
  BY DEF Cleaned

LEMMA HeldAreFrames == \A pages : Held(pages) \subseteq Frames
  BY DEF Held

LEMMA InitIInv == Init => IInv
<1> SUFFICES ASSUME Init PROVE IInv
  OBVIOUS
<1>1. TypeOK
  BY DEF Init, TypeOK, NoWin, NoView, NoObj, NoPages, Incidents
<1>2. BindingsAgree
  BY <1>1 DEF Init, BindingsAgree, NoWin
<1>3. AttachedAreAtHome /\ ViewsAreWhole
  BY DEF Init, AttachedAreAtHome, ViewsAreWhole, NoView
<1> QED
  BY <1>2, <1>3 DEF IInv

(* A stop changes nothing but that, and neither do most of the records     *)
(* when only pages come and go.                                            *)
LEMMA PanicKeeps ==
  ASSUME IInv, Panic, incidents' \subseteq Incidents
  PROVE  IInv'
<1> USE DEF Panic
<1>1. TypeOK'
  BY DEF IInv, BindingsAgree, TypeOK
<1>2. BindingsAgree'
  BY <1>1 DEF IInv, BindingsAgree
<1>3. AttachedAreAtHome' /\ ViewsAreWhole'
  BY DEF IInv, AttachedAreAtHome, ViewsAreWhole
<1> QED
  BY <1>2, <1>3 DEF IInv

LEMMA SameBindings ==
  ASSUME IInv, TypeOK', UNCHANGED <<win, view, assoc>>
  PROVE  IInv'
<1>1. BindingsAgree'
  BY DEF IInv, BindingsAgree
<1>2. AttachedAreAtHome' /\ ViewsAreWhole'
  BY DEF IInv, AttachedAreAtHome, ViewsAreWhole
<1> QED
  BY <1>1, <1>2 DEF IInv

-----------------------------------------------------------------------------
LEMMA WindowCreateKeeps ==
  ASSUME IInv, NEW p \in Procs, WindowCreate(p)
  PROVE  IInv'
<1>1. PICK w \in Windows, place \in Places :
        /\ Unused(w)
        /\ win' = [win EXCEPT ![w] = [proc |-> p, start |-> place.start,
                                      size |-> place.size, view |-> None]]
        /\ Note(IF Encloses(p, place.start, place.size)
                THEN {"enclosing"} ELSE {})
        /\ UNCHANGED <<view, caps, obj, frames, assoc, free, lost, panicked>>
  BY DEF WindowCreate
<1>t. incidents' \subseteq Incidents
  BY <1>1 DEF IInv, BindingsAgree, TypeOK, Note, Incidents
<1>2. place.start \in Nat /\ place.size \in Nat
  BY AddressSpaceAssumption
<1>3. TypeOK'
  BY <1>1, <1>2, <1>t DEF IInv, BindingsAgree, TypeOK
<1>4. /\ win'[w].view = None
      /\ \A x \in Windows : x # w => win'[x] = win[x]
      /\ \A v \in Views : view[v].win # w
  BY <1>1 DEF Unused, IInv, BindingsAgree, TypeOK
<1>5. \A o \in Objects : \A v \in assoc[o] :
        /\ v \in Views /\ view[v].win \in Windows
        /\ view[v].win # w
  BY <1>4, NoneIsApart DEF IInv, BindingsAgree, TypeOK, NoView
<1>6. BindingsAgree'
  BY <1>1, <1>3, <1>4, <1>5 DEF IInv, BindingsAgree
<1>7. AttachedAreAtHome' /\ ViewsAreWhole'
  BY <1>1, <1>4, <1>5 DEF IInv, AttachedAreAtHome, ViewsAreWhole
<1> QED
  BY <1>6, <1>7 DEF IInv

(* The facts a step uses of the records before it.                         *)
LEMMA BindingFacts ==
  ASSUME IInv
  PROVE  /\ \A w \in Windows : win[w].view # None =>
              win[w].view \in Views /\ view[win[w].view].win = w
         /\ \A o \in Objects : \A v \in assoc[o] :
              /\ v \in Views /\ view[v].obj = o /\ view[v].win \in Windows
              /\ win[view[v].win].view = v
         /\ \A v \in Views : view[v].win # None =>
              view[v].win \in Windows /\ view[v].obj \in Objects
<1>1. \A w \in Windows : win[w].view # None =>
        win[w].view \in Views /\ view[win[w].view].win = w
  BY DEF IInv, BindingsAgree, TypeOK
<1>2. \A v \in Views : view[v].win # None =>
        view[v].win \in Windows /\ view[v].obj \in Objects
  BY DEF IInv, BindingsAgree, TypeOK, ViewsAreWhole
<1>3. \A o \in Objects : \A v \in assoc[o] :
        /\ v \in Views /\ view[v].obj = o /\ view[v].win \in Windows
        /\ win[view[v].win].view = v
  <2> SUFFICES ASSUME NEW o \in Objects, NEW v \in assoc[o]
               PROVE  /\ v \in Views /\ view[v].obj = o
                      /\ view[v].win \in Windows
                      /\ win[view[v].win].view = v
    OBVIOUS
  <2>1. v \in Views /\ view[v].obj = o /\ win[view[v].win].view = v
    BY DEF IInv, BindingsAgree, TypeOK
  <2>2. view[v].win # None
    BY <2>1, NoneIsApart DEF IInv, BindingsAgree, TypeOK, NoView
  <2> QED
    BY <1>2, <2>1, <2>2
<1> QED
  BY <1>1, <1>2, <1>3

(* Taking a view off the list of its object.                               *)
LEMMA DelistedViews ==
  ASSUME IInv, NEW v \in Views
  PROVE  /\ Delisted(v) \in [Objects -> SUBSET Views]
         /\ \A o \in Objects, u \in Views :
              u \in Delisted(v)[o] <=> u \in assoc[o] /\ u # v
<1>1. assoc \in [Objects -> SUBSET Views]
  BY DEF IInv, BindingsAgree, TypeOK
<1>2. \A o \in Objects : v \in assoc[o] => o = view[v].obj
  BY BindingFacts
<1>3. \A o \in Objects : Delisted(v)[o] = IF o = view[v].obj
                                          THEN assoc[o] \ {v} ELSE assoc[o]
  BY <1>1 DEF Delisted
<1> QED
  BY <1>1, <1>2, <1>3 DEF Delisted

LEMMA WindowDestroyKeeps ==
  ASSUME IInv, NEW p \in Procs, WindowDestroy(p)
  PROVE  IInv'
<1>1. PICK w \in Windows :
        /\ win[w].proc = p
        /\ LET v == win[w].view IN
           IF v = None
           THEN UNCHANGED <<caps, assoc, incidents>>
           ELSE /\ Note({"window_in_use"})
                /\ assoc' = Delisted(v)
                /\ caps' = [caps EXCEPT ![v] = Cleaned(@)]
        /\ win' = [win EXCEPT ![w].proc = None]
        /\ UNCHANGED <<view, obj, frames, free, lost, panicked>>
  BY DEF WindowDestroy
<1>2. \A x \in Windows : /\ win'[x].view = win[x].view
                         /\ x # w => win'[x].proc = win[x].proc
                         /\ x = w => win'[x].proc = None
  BY <1>1 DEF IInv, BindingsAgree, TypeOK
<1>3. /\ win' \in [Windows -> [proc : Procs \cup {None}, start : Nat,
                               size : Nat, view : Views \cup {None}]]
      /\ caps' \in [Views -> [Pages -> Frames \cup {None, Revoked}]]
      /\ assoc' \in [Objects -> SUBSET Views]
      /\ incidents' \subseteq Incidents
  <2>1. win' \in [Windows -> [proc : Procs \cup {None}, start : Nat,
                              size : Nat, view : Views \cup {None}]]
    <3>1. /\ win' = [win EXCEPT ![w].proc = None]
          /\ win \in [Windows -> [proc : Procs \cup {None}, start : Nat,
                                  size : Nat, view : Views \cup {None}]]
      BY <1>1 DEF IInv, BindingsAgree, TypeOK
    <3> QED
      BY <3>1
  <2>2. CASE win[w].view = None
    <3>1. UNCHANGED <<caps, assoc, incidents>>
      BY <1>1, <2>2
    <3> QED
      BY <2>1, <3>1 DEF IInv, BindingsAgree, TypeOK
  <2>3. CASE win[w].view # None
    <3>1. win[w].view \in Views
      BY <2>3 DEF IInv, BindingsAgree, TypeOK
    <3>2. caps' \in [Views -> [Pages -> Frames \cup {None, Revoked}]]
      <4>1. caps[win[w].view] \in [Pages -> Frames \cup {None, Revoked}]
        BY <3>1 DEF IInv, BindingsAgree, TypeOK
      <4>2. Cleaned(caps[win[w].view])
              \in [Pages -> Frames \cup {None, Revoked}]
        BY <4>1, CleanedPages
      <4>3. caps' = [caps EXCEPT ![win[w].view] = Cleaned(caps[win[w].view])]
        BY <1>1, <2>3
      <4> QED
        BY <4>2, <4>3 DEF IInv, BindingsAgree, TypeOK
    <3>3. assoc' \in [Objects -> SUBSET Views]
      BY <1>1, <2>3, <3>1, DelistedViews
    <3>4. incidents' \subseteq Incidents
      BY <1>1, <2>3 DEF IInv, BindingsAgree, TypeOK, Note, Incidents
    <3> QED
      BY <2>1, <3>2, <3>3, <3>4
  <2> QED
    BY <2>2, <2>3
<1>4. TypeOK'
  BY <1>1, <1>3 DEF IInv, BindingsAgree, TypeOK
<1>5. \A o \in Objects, v \in Views :
        v \in assoc'[o] <=> v \in assoc[o] /\ v # win[w].view
  <2>1. CASE win[w].view = None
    BY <1>1, <2>1, NoneIsApart
  <2>2. CASE win[w].view # None
    <3>1. win[w].view \in Views
      BY <2>2, BindingFacts
    <3> QED
      BY <1>1, <2>2, <3>1, DelistedViews
  <2> QED
    BY <2>1, <2>2
<1>6. BindingsAgree'
  <2>1. \A x \in Windows : win'[x].view # None => view[win'[x].view].win = x
    BY <1>2, BindingFacts
  <2>2. \A o \in Objects : \A v \in assoc'[o] :
          view[v].obj = o /\ win'[view[v].win].view = v
    BY <1>2, <1>3, <1>5, BindingFacts
  <2>3. ASSUME NEW x \in Windows, win'[x].proc # None, win'[x].view # None
        PROVE  win'[x].view \in assoc'[view[win'[x].view].obj]
    <3> DEFINE v == win[x].view
    <3>1. x # w /\ win[x].proc # None /\ win'[x].view = v
      BY <1>2, <2>3
    <3>2. v \in Views /\ view[v].win = x /\ view[v].obj \in Objects
      BY <2>3, <3>1, BindingFacts, NoneIsApart
    <3>3. v \in assoc[view[v].obj]
      BY <2>3, <3>1 DEF IInv, BindingsAgree
    <3>4. v # win[w].view
      BY <3>1, <3>2, BindingFacts, NoneIsApart
    <3> QED
      BY <1>5, <3>1, <3>2, <3>3, <3>4
  <2> QED
    BY <1>1, <1>4, <2>1, <2>2, <2>3 DEF BindingsAgree
<1>7. AttachedAreAtHome'
  <2> SUFFICES ASSUME NEW o \in Objects, NEW v \in assoc'[o],
                      view[v].proc # None
               PROVE  win'[view[v].win].proc = view[v].proc
    BY <1>1 DEF AttachedAreAtHome
  <2>1. v \in assoc[o] /\ v \in Views /\ v # win[w].view
    BY <1>3, <1>5
  <2>2. /\ view[v].win \in Windows /\ view[v].win # w
        /\ win[view[v].win].proc = view[v].proc
    BY <2>1, BindingFacts DEF IInv, AttachedAreAtHome
  <2> QED
    BY <1>2, <2>2
<1>8. ViewsAreWhole'
  BY <1>1 DEF IInv, ViewsAreWhole
<1> QED
  BY <1>6, <1>7, <1>8 DEF IInv

-----------------------------------------------------------------------------
(* The frames an EAGER object takes.                                       *)
LEMMA EagerFacts ==
  ASSUME IInv, NEW size, NEW pages \in {NoPages} \cup EagerPages(size)
  PROVE  /\ pages \in [Pages -> Frames \cup {None}]
         /\ \A i \in Pages : pages[i] \in Frames => pages[i] \in free
         /\ \A i, j \in Pages : pages[i] \in Frames /\ pages[i] = pages[j]
                                  => i = j
         /\ \A f : f \in Held(pages) <=>
              f \in Frames /\ \E i \in Pages : pages[i] = f
         /\ Held(pages) \subseteq free
<1>1. \A f : f \in Held(pages) <=>
        f \in Frames /\ \E i \in Pages : pages[i] = f
  BY DEF Held
<1>2. free \subseteq Frames
  BY DEF IInv, BindingsAgree, TypeOK
<1>3. CASE pages = NoPages
  BY <1>1, <1>3, NoneIsApart DEF NoPages
<1>4. CASE pages \in EagerPages(size)
  <2>1. /\ pages \in [Pages -> free \cup {None}]
        /\ \A i, j \in Pages : pages[i] # None /\ pages[i] = pages[j] => i = j
    BY <1>4 DEF EagerPages
  <2> QED
    BY <1>1, <1>2, <2>1, NoneIsApart
<1> QED
  BY <1>3, <1>4

LEMMA ObjCreateKeeps ==
  ASSUME IInv, NEW p \in Procs, ObjCreate(p)
  PROVE  IInv'
<1>p. PICK o \in Objects, size \in ObjSizes, holder \in {p, Shared} :
        /\ \E pages \in {NoPages} \cup EagerPages(size) :
             /\ frames' = [frames EXCEPT ![o] = pages]
             /\ free' = free \ Held(pages)
        /\ obj' = [obj EXCEPT ![o] = [size |-> size, proc |-> holder]]
        /\ UNCHANGED <<win, view, caps, assoc, lost, panicked, incidents>>
  BY DEF ObjCreate
<1>1. PICK pages \in {NoPages} \cup EagerPages(size) :
        /\ obj' = [obj EXCEPT ![o] = [size |-> size, proc |-> holder]]
        /\ frames' = [frames EXCEPT ![o] = pages]
        /\ free' = free \ Held(pages)
        /\ UNCHANGED <<win, view, caps, assoc, lost, panicked, incidents>>
  BY <1>p
<1>2. size \in Nat
  BY AddressSpaceAssumption
<1>3. pages \in [Pages -> Frames \cup {None}]
  BY EagerFacts
<1>4. TypeOK'
  BY <1>1, <1>2, <1>3 DEF IInv, BindingsAgree, TypeOK
<1> QED
  BY <1>1, <1>4, SameBindings

LEMMA ObjCreateFailsKeeps ==
  ASSUME IInv, NEW p \in Procs, ObjCreateFails(p)
  PROVE  IInv'
<1>p. PICK size \in ObjSizes : \E pages \in EagerPages(size) :
        /\ free' = free \ Held(pages)
        /\ lost' = lost \cup Held(pages)
  BY DEF ObjCreateFails
<1>1. PICK pages \in EagerPages(size) :
        /\ free' = free \ Held(pages)
        /\ lost' = lost \cup Held(pages)
        /\ UNCHANGED <<win, view, caps, obj, frames, assoc, panicked,
                       incidents>>
  BY <1>p DEF ObjCreateFails
<1>2. TypeOK'
  BY <1>1, HeldAreFrames DEF IInv, BindingsAgree, TypeOK
<1> QED
  BY <1>1, <1>2, SameBindings

(* The calls that stop the server for want of a frame or of a handle.      *)
LEMMA StopsKeep ==
  ASSUME IInv, NEW p \in Procs, ObjCreateStarves(p) \/ NoHandle(p)
  PROVE  /\ Panic /\ IInv'
         /\ incidents \subseteq incidents' /\ incidents' # {}
<1>1. /\ Panic /\ incidents' \subseteq Incidents
      /\ incidents \subseteq incidents' /\ incidents' # {}
  BY DEF ObjCreateStarves, NoHandle, IInv, BindingsAgree, TypeOK, Note,
         Incidents
<1> QED
  BY <1>1, PanicKeeps

LEMMA ObjDestroyKeeps ==
  ASSUME IInv, NEW p \in Procs, ObjDestroy(p)
  PROVE  IInv'
<1>1. PICK o \in Objects :
        IF assoc[o] # {}
        THEN Panic /\ Note({"object_in_use"})
        ELSE /\ free' = free \cup Held(frames[o])
             /\ frames' = [frames EXCEPT ![o] = NoPages]
             /\ obj' = [obj EXCEPT ![o] = NoObj]
             /\ UNCHANGED <<win, view, caps, assoc, lost, panicked, incidents>>
  BY DEF ObjDestroy
<1>2. CASE assoc[o] # {}
  <2>1. Panic /\ incidents' \subseteq Incidents
    BY <1>1, <1>2 DEF IInv, BindingsAgree, TypeOK, Note, Incidents
  <2> QED
    BY <2>1, PanicKeeps
<1>3. CASE assoc[o] = {}
  <2>1. TypeOK'
    <3>1. Held(frames[o]) \subseteq Frames
      BY HeldAreFrames
    <3>2. free' \subseteq Frames
      BY <1>1, <1>3, <3>1 DEF IInv, BindingsAgree, TypeOK
    <3>3. /\ obj' \in [Objects -> [size : Nat,
                                   proc : Procs \cup {Shared, None}]]
          /\ frames' \in [Objects -> [Pages -> Frames \cup {None}]]
      <4>1. NoPages \in [Pages -> Frames \cup {None}]
        BY DEF NoPages
      <4>2. frames' \in [Objects -> [Pages -> Frames \cup {None}]]
        <5>1. /\ frames' = [frames EXCEPT ![o] = NoPages]
              /\ frames \in [Objects -> [Pages -> Frames \cup {None}]]
          BY <1>1, <1>3 DEF IInv, BindingsAgree, TypeOK
        <5> QED
          BY <4>1, <5>1
      <4>3. obj' \in [Objects -> [size : Nat,
                                 proc : Procs \cup {Shared, None}]]
        <5>1. /\ obj' = [obj EXCEPT ![o] = NoObj]
              /\ obj \in [Objects -> [size : Nat,
                                     proc : Procs \cup {Shared, None}]]
          BY <1>1, <1>3 DEF IInv, BindingsAgree, TypeOK
        <5>2. NoObj \in [size : Nat, proc : Procs \cup {Shared, None}]
          BY DEF NoObj
        <5> QED
          BY <5>1, <5>2
      <4> QED
        BY <4>2, <4>3
    <3> QED
      BY <1>1, <1>3, <3>2, <3>3 DEF IInv, BindingsAgree, TypeOK
  <2> QED
    BY <1>1, <1>3, <2>1, SameBindings
<1> QED
  BY <1>2, <1>3

-----------------------------------------------------------------------------
(* A view without a window is on no list and in no window.                 *)
LEMMA ViewKeeps ==
  ASSUME IInv, NEW p \in Procs, View(p)
  PROVE  IInv'
<1>1. PICK v \in Views, w \in Windows, o \in Objects, a \in ViewArgs :
        /\ view[v] = NoView
        /\ win[w].proc = p
        /\ MayUse(p, o)
        /\ a.size # 0
        /\ PassesAlignment(a.win_offset)
        /\ PassesAlignment(a.obj_offset)
        /\ a.obj_offset + a.size <= obj[o].size
        /\ a.win_offset + a.size <= win[w].size
        /\ win[w].view = None
        /\ win' = [win EXCEPT ![w].view = v]
        /\ assoc' = [assoc EXCEPT ![o] = @ \cup {v}]
        /\ \E holder \in {p, None} :
             /\ view' = [view EXCEPT ![v] =
                           [win |-> w, obj |-> o, win_offset |-> a.win_offset,
                            obj_offset |-> a.obj_offset, proc |-> holder]]
             /\ Note((IF holder = None THEN {"handles"} ELSE {}) \cup
                     (IF a.win_offset > 0 THEN {"offset"} ELSE {}))
        /\ caps' = [caps EXCEPT ![v] = NoPages]
        /\ UNCHANGED <<obj, frames, free, lost, panicked>>
  BY Zenon DEF View
<1>h. PICK holder \in {p, None} :
        /\ view' = [view EXCEPT ![v] =
                      [win |-> w, obj |-> o, win_offset |-> a.win_offset,
                       obj_offset |-> a.obj_offset, proc |-> holder]]
        /\ Note((IF holder = None THEN {"handles"} ELSE {}) \cup
                (IF a.win_offset > 0 THEN {"offset"} ELSE {}))
  BY <1>1
<1>2. a.win_offset \in Nat /\ a.obj_offset \in Nat
  BY AddressSpaceAssumption
<1>3. /\ \A x \in Windows : win[x].view # v
      /\ \A x \in Objects : v \notin assoc[x]
  BY <1>1, BindingFacts, NoneIsApart DEF NoView
<1>4. /\ win'[w].view = v /\ win'[w].proc = p
      /\ \A x \in Windows : /\ x # w => win'[x] = win[x]
                            /\ win'[x].proc = win[x].proc
  BY <1>1 DEF IInv, BindingsAgree, TypeOK
<1>5. /\ view'[v].win = w /\ view'[v].obj = o /\ view'[v].proc = holder
      /\ \A u \in Views : u # v => view'[u] = view[u]
  BY <1>h DEF IInv, BindingsAgree, TypeOK
<1>6. \A x \in Objects, u \in Views :
        u \in assoc'[x] <=> (u \in assoc[x] \/ (x = o /\ u = v))
  BY <1>1 DEF IInv, BindingsAgree, TypeOK
<1>7. TypeOK'
  <2>1. /\ win' \in [Windows -> [proc : Procs \cup {None}, start : Nat,
                                 size : Nat, view : Views \cup {None}]]
        /\ assoc' \in [Objects -> SUBSET Views]
    <3>1. win' \in [Windows -> [proc : Procs \cup {None}, start : Nat,
                                size : Nat, view : Views \cup {None}]]
      <4>1. /\ win' = [win EXCEPT ![w].view = v] /\ v \in Views
            /\ win \in [Windows -> [proc : Procs \cup {None}, start : Nat,
                                    size : Nat, view : Views \cup {None}]]
        BY <1>1 DEF IInv, BindingsAgree, TypeOK
      <4> QED
        BY <4>1
    <3>2. assoc' \in [Objects -> SUBSET Views]
      BY <1>1 DEF IInv, BindingsAgree, TypeOK
    <3> QED
      BY <3>1, <3>2
  <2>2. view' \in [Views -> [win : Windows \cup {None},
                             obj : Objects \cup {None},
                             win_offset : Nat, obj_offset : Nat,
                             proc : Procs \cup {None}]]
    BY <1>h, <1>2 DEF IInv, BindingsAgree, TypeOK
  <2>3. \A u \in Views : view'[u].win = None => view'[u] = NoView
    BY <1>5, NoneIsApart DEF IInv, BindingsAgree, TypeOK
  <2>4. caps' \in [Views -> [Pages -> Frames \cup {None, Revoked}]]
    BY <1>1 DEF IInv, BindingsAgree, TypeOK, NoPages
  <2>5. incidents' \subseteq Incidents
    BY <1>h DEF IInv, BindingsAgree, TypeOK, Note, Incidents
  <2> QED
    BY <1>1, <2>1, <2>2, <2>3, <2>4, <2>5 DEF IInv, BindingsAgree, TypeOK
<1>8. BindingsAgree'
  <2>1. \A x \in Windows : win'[x].view # None =>
          view'[win'[x].view].win = x
    BY <1>3, <1>4, <1>5, BindingFacts
  <2>2. ASSUME NEW x \in Objects, NEW u \in assoc'[x]
        PROVE  view'[u].obj = x /\ win'[view'[u].win].view = u
    <3>1. u \in Views
      BY <1>7, <2>2 DEF TypeOK
    <3>2. CASE u = v
      BY <1>3, <1>4, <1>5, <1>6, <2>2, <3>1, <3>2
    <3>3. CASE u # v
      <4>1. u \in assoc[x]
        BY <1>6, <2>2, <3>1, <3>3
      <4>2. view[u].win # w
        BY <1>1, <4>1, <3>1, BindingFacts, NoneIsApart
      <4> QED
        BY <1>4, <1>5, <3>1, <3>3, <4>1, <4>2, BindingFacts
    <3> QED
      BY <3>2, <3>3
  <2>3. ASSUME NEW x \in Windows, win'[x].proc # None, win'[x].view # None
        PROVE  win'[x].view \in assoc'[view'[win'[x].view].obj]
    <3>1. CASE x = w
      BY <1>4, <1>5, <1>6, <3>1
    <3>2. CASE x # w
      <4> DEFINE u == win[x].view
      <4>1. win'[x].view = u /\ u # None /\ u # v /\ win[x].proc # None
        BY <1>3, <1>4, <2>3, <3>2
      <4>2. u \in Views /\ view[u].win = x /\ view[u].obj \in Objects
        BY <4>1, BindingFacts, NoneIsApart
      <4>3. u \in assoc[view[u].obj]
        BY <4>1 DEF IInv, BindingsAgree
      <4> QED
        BY <1>5, <1>6, <4>1, <4>2, <4>3
    <3> QED
      BY <3>1, <3>2
  <2> QED
    BY <1>7, <2>1, <2>2, <2>3 DEF BindingsAgree
<1>9. AttachedAreAtHome'
  <2> SUFFICES ASSUME NEW x \in Objects, NEW u \in assoc'[x],
                      view'[u].proc # None
               PROVE  win'[view'[u].win].proc = view'[u].proc
    BY DEF AttachedAreAtHome
  <2>1. u \in Views
    BY <1>7 DEF TypeOK
  <2>2. CASE u = v
    BY <1>4, <1>5, <2>2
  <2>3. CASE u # v
    <3>1. u \in assoc[x] /\ view'[u] = view[u]
      BY <1>5, <1>6, <2>1, <2>3
    <3>2. /\ view[u].win \in Windows
          /\ win[view[u].win].proc = view[u].proc
      BY <3>1, BindingFacts DEF IInv, AttachedAreAtHome
    <3> QED
      BY <1>4, <3>1, <3>2
  <2> QED
    BY <2>2, <2>3
<1>10. ViewsAreWhole'
  BY <1>5, NoneIsApart DEF IInv, ViewsAreWhole
<1> QED
  BY <1>8, <1>9, <1>10 DEF IInv

-----------------------------------------------------------------------------
LEMMA UnviewKeeps ==
  ASSUME IInv, NEW p \in Procs, Unview(p)
  PROVE  IInv'
<1>1. PICK v \in Owned(p) :
        IF Attached(v)
        THEN /\ win' = [win EXCEPT ![view[v].win].view = None]
             /\ assoc' = Delisted(v)
             /\ view' = Dropped(v)
             /\ caps' = [caps EXCEPT ![v] = NoPages]
             /\ UNCHANGED <<obj, frames, free, lost, panicked, incidents>>
        ELSE Panic /\ UNCHANGED incidents
  BY DEF Unview
<1>2. CASE ~Attached(v)
  BY <1>1, <1>2, PanicKeeps DEF IInv, BindingsAgree, TypeOK
<1>3. CASE Attached(v)
  <2> DEFINE w == view[v].win
  <2>1. v \in Views /\ view[v].proc = p
    BY <1>1 DEF Owned
  <2>2. view[v].obj \in Objects /\ w \in Windows
    <3>1. view[v].win # None
      BY <2>1, NoneIsApart DEF IInv, BindingsAgree, TypeOK, NoView
    <3> QED
      BY <2>1, <3>1, BindingFacts
  <2>3. v \in assoc[view[v].obj] /\ win[w].view = v
    BY <1>3, <2>2, BindingFacts DEF Attached
  <2>4. /\ win' = [win EXCEPT ![w].view = None]
        /\ assoc' = Delisted(v)
        /\ view' = [view EXCEPT ![v] = NoView]
        /\ caps' = [caps EXCEPT ![v] = NoPages]
        /\ UNCHANGED <<obj, frames, free, lost, panicked, incidents>>
    BY <1>1, <1>3 DEF Dropped
  <2>5. /\ win' \in [Windows -> [proc : Procs \cup {None}, start : Nat,
                                 size : Nat, view : Views \cup {None}]]
        /\ win'[w].view = None
        /\ \A x \in Windows : /\ win'[x].proc = win[x].proc
                              /\ x # w => win'[x].view = win[x].view
    <3>1. /\ win' = [win EXCEPT ![w].view = None] /\ w \in Windows
          /\ win \in [Windows -> [proc : Procs \cup {None}, start : Nat,
                                  size : Nat, view : Views \cup {None}]]
      BY <2>2, <2>4 DEF IInv, BindingsAgree, TypeOK
    <3> HIDE DEF w
    <3> QED
      BY <3>1
  <2>6. /\ view'[v] = NoView
        /\ \A u \in Views : u # v => view'[u] = view[u]
    BY <2>1, <2>4 DEF IInv, BindingsAgree, TypeOK
  <2>7. \A x \in Objects, u \in Views :
          u \in assoc'[x] <=> (u \in assoc[x] /\ u # v)
    BY <2>1, <2>4, DelistedViews
  <2>8. TypeOK'
    <3>1. assoc' \in [Objects -> SUBSET Views]
      BY <2>1, <2>4, DelistedViews
    <3>2. view' \in [Views -> [win : Windows \cup {None},
                               obj : Objects \cup {None},
                               win_offset : Nat, obj_offset : Nat,
                               proc : Procs \cup {None}]]
      BY <2>4 DEF IInv, BindingsAgree, TypeOK, NoView
    <3>3. \A u \in Views : view'[u].win = None => view'[u] = NoView
      BY <2>6 DEF IInv, BindingsAgree, TypeOK
    <3>4. caps' \in [Views -> [Pages -> Frames \cup {None, Revoked}]]
      BY <2>4 DEF IInv, BindingsAgree, TypeOK, NoPages
    <3> QED
      BY <2>4, <2>5, <3>1, <3>2, <3>3, <3>4 DEF IInv, BindingsAgree, TypeOK
  <2>9. \A x \in Windows : win[x].view = v => x = w
    BY <2>1, BindingFacts, NoneIsApart
  <2>10. \A u \in Views : view[u].win = w /\ win[w].view = u => u = v
    BY <2>3
  <2>11. BindingsAgree'
    <3>1. \A x \in Windows : win'[x].view # None =>
            view'[win'[x].view].win = x
      BY <2>5, <2>6, <2>9, BindingFacts
    <3>2. \A x \in Objects : \A u \in assoc'[x] :
            view'[u].obj = x /\ win'[view'[u].win].view = u
      <4> SUFFICES ASSUME NEW x \in Objects, NEW u \in assoc'[x]
                   PROVE  view'[u].obj = x /\ win'[view'[u].win].view = u
        OBVIOUS
      <4>1. u \in Views
        BY <2>8 DEF TypeOK
      <4>2. u \in assoc[x] /\ u # v /\ view'[u] = view[u]
        BY <2>6, <2>7, <4>1
      <4>3. view[u].win \in Windows /\ view[u].win # w
        BY <2>3, <4>2, BindingFacts
      <4> QED
        BY <2>5, <4>2, <4>3, BindingFacts
    <3>3. ASSUME NEW x \in Windows, win'[x].proc # None, win'[x].view # None
          PROVE  win'[x].view \in assoc'[view'[win'[x].view].obj]
      <4> DEFINE u == win[x].view
      <4>1. x # w /\ win'[x].view = u /\ u # None /\ win[x].proc # None
        BY <2>5, <3>3
      <4>2. /\ u \in Views /\ u # v /\ view'[u] = view[u]
            /\ view[u].win = x /\ view[u].obj \in Objects
        BY <2>6, <2>9, <4>1, BindingFacts, NoneIsApart
      <4>3. u \in assoc[view[u].obj]
        BY <4>1 DEF IInv, BindingsAgree
      <4> QED
        BY <2>7, <4>1, <4>2, <4>3
    <3> QED
      BY <2>8, <3>1, <3>2, <3>3 DEF BindingsAgree
  <2>12. AttachedAreAtHome'
    <3> SUFFICES ASSUME NEW x \in Objects, NEW u \in assoc'[x],
                        view'[u].proc # None
                 PROVE  win'[view'[u].win].proc = view'[u].proc
      BY DEF AttachedAreAtHome
    <3>1. u \in Views
      BY <2>8 DEF TypeOK
    <3>2. u \in assoc[x] /\ view'[u] = view[u]
      BY <2>6, <2>7, <3>1
    <3>3. /\ view[u].win \in Windows
          /\ win[view[u].win].proc = view[u].proc
      BY <3>2, BindingFacts DEF IInv, AttachedAreAtHome
    <3> QED
      BY <2>5, <3>2, <3>3
  <2>13. ViewsAreWhole'
    BY <2>6 DEF IInv, ViewsAreWhole, NoView
  <2> QED
    BY <2>11, <2>12, <2>13 DEF IInv
<1> QED
  BY <1>2, <1>3

-----------------------------------------------------------------------------
(* Faults change what pages show, not which view is where.                 *)
LEMMA FaultFillsKeeps ==
  ASSUME IInv, NEW p \in Procs, FaultFills(p)
  PROVE  IInv'
<1> DEFINE offset(a, w) == a - win[w].start
           page(a, w) ==
             Page(view[win[w].view].obj_offset
                  + (offset(a, w) - view[win[w].view].win_offset))
<1>1. PICK a \in 0 .. MaxAddr, w \in Windows :
        /\ Resolves(p, a, w)
        /\ LET v == win[w].view
               o == view[v].obj
           IN /\ page(a, w) \in Pages \/ offset(a, w) < view[v].win_offset
              /\ IF offset(a, w) < view[v].win_offset
                 THEN Panic /\ UNCHANGED incidents
                 ELSE IF frames[o][page(a, w)] = None /\ free = {}
                 THEN Panic /\ Note({"memory"})
                 ELSE IF Occupied(p, a, w)
                 THEN Panic /\ UNCHANGED incidents
                 ELSE /\ \E f \in IF frames[o][page(a, w)] = None THEN free
                                  ELSE {frames[o][page(a, w)]} :
                           /\ frames' = [frames EXCEPT ![o][page(a, w)] = f]
                           /\ caps' =
                                [caps EXCEPT ![v][Page(offset(a, w))] = f]
                           /\ free' = free \ {f}
                      /\ UNCHANGED <<win, view, obj, assoc, lost, panicked,
                                     incidents>>
  BY Zenon DEF FaultFills
<1> DEFINE v == win[w].view
           o == view[v].obj
           i == page(a, w)
           j == Page(offset(a, w))
<1> DEFINE stops == \/ offset(a, w) < view[v].win_offset
                    \/ frames[o][i] = None /\ free = {}
                    \/ Occupied(p, a, w)
<1>2. CASE stops
  <2>0. incidents \subseteq Incidents
    BY DEF IInv, BindingsAgree, TypeOK
  <2>1. Panic /\ incidents' \subseteq Incidents
    BY <1>1, <1>2, <2>0 DEF Note, Incidents
  <2> QED
    BY <2>1, PanicKeeps
<1>3. CASE ~stops
  <2>1. PICK f \in IF frames[o][i] = None THEN free ELSE {frames[o][i]} :
          /\ frames' = [frames EXCEPT ![o][i] = f]
          /\ caps' = [caps EXCEPT ![v][j] = f]
          /\ free' = free \ {f}
    BY <1>1, <1>3
  <2>2. i \in Pages /\ UNCHANGED <<win, view, obj, assoc, lost, panicked, incidents>>
    BY <1>1, <1>3
  <2>3. v \in Views /\ view[v].win # None
    <3>1. v # None
      BY <1>1 DEF Resolves
    <3> QED
      BY <3>1, BindingFacts, NoneIsApart
  <2>4. o \in Objects
    BY <2>3, BindingFacts
  <2> HIDE DEF v, o, i, j
  <2>5. f \in Frames
    <3>1. frames[o][i] \in Frames \cup {None} /\ free \subseteq Frames
      BY <2>2, <2>4 DEF IInv, BindingsAgree, TypeOK
    <3> QED
      BY <2>1, <3>1
  <2>6. frames' \in [Objects -> [Pages -> Frames \cup {None}]]
    <3>1. frames \in [Objects -> [Pages -> Frames \cup {None}]]
      BY DEF IInv, BindingsAgree, TypeOK
    <3> QED
      BY <2>1, <2>5, <3>1
  <2>7. caps' \in [Views -> [Pages -> Frames \cup {None, Revoked}]]
    <3>1. caps \in [Views -> [Pages -> Frames \cup {None, Revoked}]]
      BY DEF IInv, BindingsAgree, TypeOK
    <3> QED
      BY <2>1, <2>5, <3>1
  <2>8. free' \subseteq Frames
    BY <2>1 DEF IInv, BindingsAgree, TypeOK
  <2>9. TypeOK'
    BY <2>2, <2>6, <2>7, <2>8 DEF IInv, BindingsAgree, TypeOK
  <2> QED
    BY <2>2, <2>9, SameBindings
<1> QED
  BY <1>2, <1>3

LEMMA FaultRemapsKeeps ==
  ASSUME IInv, NEW p \in Procs, FaultRemaps(p)
  PROVE  IInv'
<1>1. CASE Panic /\ UNCHANGED incidents
  BY <1>1, PanicKeeps DEF IInv, BindingsAgree, TypeOK
<1>2. CASE UNCHANGED vars
  <2>1. TypeOK'
    BY <1>2 DEF IInv, BindingsAgree, TypeOK, vars
  <2> QED
    BY <1>2, <2>1, SameBindings DEF vars
<1> QED
  BY <1>1, <1>2 DEF FaultRemaps

LEMMA FaultUnansweredKeeps ==
  ASSUME IInv, NEW p \in Procs, FaultUnanswered(p)
  PROVE  IInv'
<1>1. UNCHANGED vars
  BY DEF FaultUnanswered
<1>2. TypeOK'
  BY <1>1 DEF IInv, BindingsAgree, TypeOK, vars
<1> QED
  BY <1>1, <1>2, SameBindings DEF vars

-----------------------------------------------------------------------------
(* A process that exits takes its windows and the views it has handles to  *)
(* with it.  Each such view is still on a list, so it is in a window of    *)
(* the process, and each view in such a window is owned or without handle. *)
LEMMA ExitKeeps ==
  ASSUME IInv, NEW p \in Procs, Exit(p)
  PROVE  IInv'
<1> DEFINE mine == {o \in Objects : obj[o].proc = p}
           loose == {v \in Views : /\ view[v].proc = None /\ view[v].win # None
                                  /\ win[view[v].win].proc = p}
<1>1. CASE ~(\A v \in Owned(p) : Attached(v))
  <2>1. Panic /\ incidents' \subseteq Incidents
    BY <1>1 DEF Exit, IInv, BindingsAgree, TypeOK
  <2> QED
    BY <2>1, PanicKeeps
<1>2. CASE \A v \in Owned(p) : Attached(v)
  <2>1. /\ win' = [w \in Windows |->
                     IF win[w].proc # p THEN win[w]
                     ELSE [win[w] EXCEPT
                             !.proc = None,
                             !.view = IF @ \in loose THEN @ ELSE None]]
        /\ view' = [v \in Views |->
                      IF v \in Owned(p) THEN NoView ELSE view[v]]
        /\ caps' = [v \in Views |-> IF v \in Owned(p) THEN NoPages
                                    ELSE IF v \in loose THEN Cleaned(caps[v])
                                    ELSE caps[v]]
        /\ assoc' = [o \in Objects |-> assoc[o] \ Owned(p)]
        /\ obj' = [o \in Objects |-> IF o \in mine THEN NoObj ELSE obj[o]]
        /\ free' = free \cup UNION {Held(frames[o]) : o \in mine}
        /\ frames' = [o \in Objects |->
                        IF o \in mine THEN NoPages ELSE frames[o]]
        /\ UNCHANGED <<lost, panicked, incidents>>
    BY <1>2 DEF Exit
  <2>2. \A v \in Owned(p) :
          /\ v \in Views /\ view[v].proc = p /\ view[v].win \in Windows
          /\ win[view[v].win].view = v /\ win[view[v].win].proc = p
    <3> SUFFICES ASSUME NEW v \in Owned(p)
                 PROVE  /\ v \in Views /\ view[v].proc = p
                        /\ view[v].win \in Windows
                        /\ win[view[v].win].view = v
                        /\ win[view[v].win].proc = p
      OBVIOUS
    <3>1. v \in Views /\ view[v].proc = p
      BY DEF Owned
    <3>2. view[v].win # None
      BY <3>1, NoneIsApart DEF IInv, BindingsAgree, TypeOK, NoView
    <3>3. view[v].obj \in Objects /\ v \in assoc[view[v].obj]
      BY <1>2, <3>1, <3>2, BindingFacts DEF Attached
    <3> QED
      BY <3>1, <3>3, BindingFacts, NoneIsApart DEF IInv, AttachedAreAtHome
  <2>3. loose \subseteq Views /\ \A v \in loose : v \notin Owned(p)
    BY NoneIsApart DEF Owned
  <2>4. \A w \in Windows :
          /\ win[w].proc # p => win'[w] = win[w]
          /\ win[w].proc = p =>
               /\ win'[w].proc = None
               /\ win'[w].view = IF win[w].view \in loose THEN win[w].view
                                 ELSE None
    <3>1. win \in [Windows -> [proc : Procs \cup {None}, start : Nat,
                              size : Nat, view : Views \cup {None}]]
      BY DEF IInv, BindingsAgree, TypeOK
    <3> HIDE DEF loose
    <3> QED
      BY <2>1, <3>1
  <2>5. \A v \in Views : view'[v] = IF v \in Owned(p) THEN NoView ELSE view[v]
    BY <2>1
  <2>6. \A o \in Objects : assoc'[o] = assoc[o] \ Owned(p)
    BY <2>1
  <2>7. \A o \in Objects : \A v \in assoc[o] :
          v \notin Owned(p) =>
            /\ v \in Views /\ view[v].win \in Windows
            /\ win'[view[v].win].view = v
            /\ view[v].proc # None => win[view[v].win].proc # p
    <3> SUFFICES ASSUME NEW o \in Objects, NEW v \in assoc[o],
                        v \notin Owned(p)
                 PROVE  /\ v \in Views /\ view[v].win \in Windows
                        /\ win'[view[v].win].view = v
                        /\ view[v].proc # None => win[view[v].win].proc # p
      OBVIOUS
    <3>1. /\ v \in Views /\ view[v].win \in Windows /\ view[v].proc # p
          /\ win[view[v].win].view = v
      BY BindingFacts DEF Owned
    <3>2. view[v].proc # None => win[view[v].win].proc # p
      BY <3>1 DEF IInv, AttachedAreAtHome
    <3>3. win[view[v].win].proc = p => v \in loose
      BY <3>1, <3>2, NoneIsApart
    <3> HIDE DEF loose
    <3> QED
      BY <2>4, <3>1, <3>2, <3>3
  <2>8. \A w \in Windows : win'[w].view # None =>
          /\ win'[w].view = win[w].view
          /\ win[w].view \in Views /\ view[win[w].view].win = w
          /\ win[w].view \notin Owned(p)
    <3> SUFFICES ASSUME NEW w \in Windows, win'[w].view # None
                 PROVE  /\ win'[w].view = win[w].view
                        /\ win[w].view \in Views
                        /\ view[win[w].view].win = w
                        /\ win[w].view \notin Owned(p)
      OBVIOUS
    <3> HIDE DEF loose
    <3>1. win'[w].view = win[w].view
      BY <2>4
    <3>2. win[w].view \in Views /\ view[win[w].view].win = w
      BY <3>1, BindingFacts
    <3>3. win[w].view \notin Owned(p)
      BY <2>2, <2>3, <2>4, <3>2
    <3> QED
      BY <3>1, <3>2, <3>3
  <2>9. TypeOK'
    <3>1. win' \in [Windows -> [proc : Procs \cup {None}, start : Nat,
                               size : Nat, view : Views \cup {None}]]
      <4>1. win \in [Windows -> [proc : Procs \cup {None}, start : Nat,
                                size : Nat, view : Views \cup {None}]]
        BY DEF IInv, BindingsAgree, TypeOK
      <4> HIDE DEF loose
      <4> QED
        BY <2>1, <4>1
    <3>2. /\ view' \in [Views -> [win : Windows \cup {None},
                                  obj : Objects \cup {None},
                                  win_offset : Nat, obj_offset : Nat,
                                  proc : Procs \cup {None}]]
          /\ \A v \in Views : view'[v].win = None => view'[v] = NoView
      <4>1. NoView \in [win : Windows \cup {None}, obj : Objects \cup {None},
                        win_offset : Nat, obj_offset : Nat,
                        proc : Procs \cup {None}]
        BY DEF NoView
      <4> QED
        BY <2>1, <4>1 DEF IInv, BindingsAgree, TypeOK
    <3>3. caps' \in [Views -> [Pages -> Frames \cup {None, Revoked}]]
      <4>1. \A v \in Views : caps[v] \in [Pages -> Frames \cup {None, Revoked}]
        BY DEF IInv, BindingsAgree, TypeOK
      <4>2. \A v \in Views :
              Cleaned(caps[v]) \in [Pages -> Frames \cup {None, Revoked}]
        BY <4>1, CleanedPages
      <4>3. NoPages \in [Pages -> Frames \cup {None, Revoked}]
        BY DEF NoPages
      <4> HIDE DEF loose
      <4> QED
        BY <2>1, <4>1, <4>2, <4>3
    <3>4. assoc' \in [Objects -> SUBSET Views]
      BY <2>1 DEF IInv, BindingsAgree, TypeOK
    <3>5. obj' \in [Objects -> [size : Nat, proc : Procs \cup {Shared, None}]]
      <4>1. NoObj \in [size : Nat, proc : Procs \cup {Shared, None}]
        BY DEF NoObj
      <4> QED
        BY <2>1, <4>1 DEF IInv, BindingsAgree, TypeOK
    <3>6. frames' \in [Objects -> [Pages -> Frames \cup {None}]]
      <4>1. NoPages \in [Pages -> Frames \cup {None}]
        BY DEF NoPages
      <4> QED
        BY <2>1, <4>1 DEF IInv, BindingsAgree, TypeOK
    <3>7. free' \subseteq Frames
      <4>1. free \subseteq Frames
        BY DEF IInv, BindingsAgree, TypeOK
      <4>2. UNION {Held(frames[o]) : o \in mine} \subseteq Frames
        BY HeldAreFrames
      <4> HIDE DEF mine
      <4> QED
        BY <2>1, <4>1, <4>2
    <3> QED
      BY <2>1, <3>1, <3>2, <3>3, <3>4, <3>5, <3>6, <3>7
         DEF IInv, BindingsAgree, TypeOK
  <2> HIDE DEF loose, mine
  <2>10. BindingsAgree'
    <3>1. \A w \in Windows : win'[w].view # None =>
            view'[win'[w].view].win = w
      BY <2>5, <2>8
    <3>2. \A o \in Objects : \A v \in assoc'[o] :
            view'[v].obj = o /\ win'[view'[v].win].view = v
      <4> SUFFICES ASSUME NEW o \in Objects, NEW v \in assoc'[o]
                   PROVE  view'[v].obj = o /\ win'[view'[v].win].view = v
        OBVIOUS
      <4>1. v \in assoc[o] /\ v \notin Owned(p)
        BY <2>6
      <4>2. /\ v \in Views /\ view'[v] = view[v]
            /\ win'[view[v].win].view = v
        BY <2>5, <2>7, <4>1
      <4> QED
        BY <4>1, <4>2, BindingFacts
    <3>3. ASSUME NEW w \in Windows, win'[w].proc # None, win'[w].view # None
          PROVE  win'[w].view \in assoc'[view'[win'[w].view].obj]
      <4>1. /\ win'[w].view = win[w].view /\ win[w].view \in Views
            /\ view[win[w].view].win = w /\ win[w].view \notin Owned(p)
        BY <2>8, <3>3
      <4>2. view[win[w].view].obj \in Objects /\ win[w].proc # None
        BY <2>4, <3>3, <4>1, BindingFacts, NoneIsApart
      <4>3. win[w].view \in assoc[view[win[w].view].obj]
        BY <3>3, <4>1, <4>2 DEF IInv, BindingsAgree
      <4> QED
        BY <2>5, <2>6, <4>1, <4>2, <4>3
    <3> QED
      BY <2>9, <3>1, <3>2, <3>3 DEF BindingsAgree
  <2>11. AttachedAreAtHome'
    <3> SUFFICES ASSUME NEW o \in Objects, NEW v \in assoc'[o],
                        view'[v].proc # None
                 PROVE  win'[view'[v].win].proc = view'[v].proc
      BY DEF AttachedAreAtHome
    <3>1. /\ v \in assoc[o] /\ v \notin Owned(p)
          /\ v \in Views /\ view[v].win \in Windows /\ view'[v] = view[v]
      BY <2>5, <2>6, <2>7
    <3>2. /\ win[view[v].win].proc = view[v].proc
          /\ win[view[v].win].proc # p
      BY <2>7, <3>1 DEF IInv, AttachedAreAtHome
    <3> QED
      BY <2>4, <3>1, <3>2
  <2>12. ViewsAreWhole'
    BY <2>5 DEF IInv, ViewsAreWhole, NoView
  <2> QED
    BY <2>10, <2>11, <2>12 DEF IInv
<1> QED
  BY <1>1, <1>2

-----------------------------------------------------------------------------
LEMMA NextKeeps == IInv /\ [Next]_vars => IInv'
<1> SUFFICES ASSUME IInv, [Next]_vars PROVE IInv'
  OBVIOUS
<1>1. CASE UNCHANGED vars
  <2>1. TypeOK'
    BY <1>1 DEF IInv, BindingsAgree, TypeOK, vars
  <2> QED
    BY <1>1, <2>1, SameBindings DEF vars
<1>2. ASSUME NEW p \in Procs, WindowCreate(p) PROVE IInv'
  BY <1>2, WindowCreateKeeps
<1>3. ASSUME NEW p \in Procs, WindowDestroy(p) PROVE IInv'
  BY <1>3, WindowDestroyKeeps
<1>4. ASSUME NEW p \in Procs, ObjCreate(p) \/ ObjCreateFails(p) PROVE IInv'
  BY <1>4, ObjCreateKeeps, ObjCreateFailsKeeps
<1>s. ASSUME NEW p \in Procs, ObjCreateStarves(p) \/ NoHandle(p) PROVE IInv'
  BY <1>s, StopsKeep
<1>5. ASSUME NEW p \in Procs, ObjDestroy(p) PROVE IInv'
  BY <1>5, ObjDestroyKeeps
<1>6. ASSUME NEW p \in Procs, View(p) PROVE IInv'
  BY <1>6, ViewKeeps
<1>7. ASSUME NEW p \in Procs, Unview(p) PROVE IInv'
  BY <1>7, UnviewKeeps
<1>8. ASSUME NEW p \in Procs, FaultFills(p) PROVE IInv'
  BY <1>8, FaultFillsKeeps
<1>9. ASSUME NEW p \in Procs, FaultRemaps(p) PROVE IInv'
  BY <1>9, FaultRemapsKeeps
<1>10. ASSUME NEW p \in Procs, FaultUnanswered(p) PROVE IInv'
  BY <1>10, FaultUnansweredKeeps
<1>11. ASSUME NEW p \in Procs, Exit(p) PROVE IInv'
  BY <1>11, ExitKeeps
<1> QED
  BY <1>1, <1>2, <1>3, <1>4, <1>5, <1>6, <1>7, <1>8, <1>9, <1>10, <1>11,
     <1>s DEF Next

(* Whatever calls, faults, exits and failures come in whatever order, the  *)
(* window's bound_view, the view's bound_window and bound_object and the   *)
(* object's associated_views never contradict each other where obj_destroy,*)
(* unview, window_destroy and handle_vm_fault rely on them.                *)
THEOREM BindingsAlwaysAgree == Spec => []BindingsAgree
<1>1. IInv => BindingsAgree
  BY DEF IInv
<1> QED
  BY InitIInv, NextKeeps, <1>1, PTL DEF Spec

-----------------------------------------------------------------------------
(***************************************************************************)
(* Frames.  The second invariant follows each frame from the free list     *)
(* through its object to the pages that show it.                           *)
(***************************************************************************)
FramesApart ==
  /\ free \cap lost = {}
  /\ \A o \in Objects, i \in Pages :
       frames[o][i] \in Frames =>
         frames[o][i] \notin free /\ frames[o][i] \notin lost
  /\ \A o, q \in Objects, i, j \in Pages :
       frames[o][i] \in Frames /\ frames[o][i] = frames[q][j]
         => o = q /\ i = j

NoFrameLeaks ==
  \A f \in Frames \ (free \cup lost) : \E o \in Objects, i \in Pages : frames[o][i] = f

(* Objects that nobody has a handle to hold nothing.                       *)
DeadAreEmpty ==
  \A o \in Objects : obj[o].proc = None => \A i \in Pages : frames[o][i] = None

(* Only an object whose handle is a capability is viewed by others than    *)
(* the process that made it.                                               *)
PrivateAtHome ==
  \A o \in Objects : \A v \in assoc[o] :
    LET q == win[view[v].win].proc IN q # None => obj[o].proc \in {Shared, q}

(* A view shows pages only in a window that a process has, and only pages  *)
(* that its object holds.                                                  *)
MappedAreAttached ==
  \A v \in Views, i \in Pages : caps[v][i] \in Frames =>
    /\ view[v].win # None
    /\ win[view[v].win].proc # None /\ win[view[v].win].view = v

MappedAreHeld ==
  \A v \in Views, i \in Pages : caps[v][i] \in Frames =>
    \E k \in Pages : frames[view[v].obj][k] = caps[v][i]

MInv == /\ FramesApart /\ NoFrameLeaks /\ DeadAreEmpty /\ PrivateAtHome
        /\ MappedAreAttached /\ MappedAreHeld

LEMMA MappedFacts ==
  ASSUME IInv, MInv, NEW v \in Views, NEW i \in Pages, caps[v][i] \in Frames
  PROVE  /\ view[v].win \in Windows /\ view[v].obj \in Objects
         /\ v \in assoc[view[v].obj]
         /\ win[view[v].win].proc # None /\ win[view[v].win].view = v
         /\ obj[view[v].obj].proc \in {Shared, win[view[v].win].proc}
<1>1. /\ view[v].win # None /\ win[view[v].win].view = v
      /\ win[view[v].win].proc # None
  BY DEF MInv, MappedAreAttached
<1>2. view[v].win \in Windows /\ view[v].obj \in Objects
  BY <1>1, BindingFacts
<1>3. v \in assoc[view[v].obj]
  BY <1>1, <1>2, NoneIsApart DEF IInv, BindingsAgree
<1> QED
  BY <1>1, <1>2, <1>3 DEF MInv, PrivateAtHome

LEMMA InitMInv == Init => MInv
<1> SUFFICES ASSUME Init PROVE MInv
  OBVIOUS
<1>1. \A v \in Views, i \in Pages : caps[v][i] \notin Frames
  BY NoneIsApart DEF Init, NoPages
<1>2. \A o \in Objects, i \in Pages : frames[o][i] \notin Frames
  BY NoneIsApart DEF Init, NoPages
<1>3. FramesApart /\ NoFrameLeaks
  BY <1>2 DEF Init, FramesApart, NoFrameLeaks
<1>4. DeadAreEmpty
  BY DEF Init, NoPages, DeadAreEmpty
<1>5. PrivateAtHome
  BY DEF Init, PrivateAtHome
<1> QED
  BY <1>1, <1>3, <1>4, <1>5 DEF MInv, MappedAreAttached, MappedAreHeld

(* What a process sees after a step it saw at the same place before.       *)
PagesKept ==
  \A v \in Views, i \in Pages : caps'[v][i] \in Frames =>
    /\ caps'[v][i] = caps[v][i] /\ view'[v] = view[v]
    /\ win'[view[v].win] = win[view[v].win]
    /\ frames'[view[v].obj] = frames[view[v].obj]

LEMMA SameMemory ==
  ASSUME MInv, UNCHANGED <<win, view, caps, obj, frames, assoc, free, lost>>
  PROVE  MInv' /\ PagesKept
<1>1. FramesApart' /\ NoFrameLeaks' /\ DeadAreEmpty'
  BY DEF MInv, FramesApart, NoFrameLeaks, DeadAreEmpty
<1>2. PrivateAtHome' /\ MappedAreAttached' /\ MappedAreHeld'
  BY DEF MInv, PrivateAtHome, MappedAreAttached, MappedAreHeld
<1> QED
  BY <1>1, <1>2 DEF MInv, PagesKept

(* A step that touches no frame, and neither makes pages nor attaches      *)
(* views.                                                                  *)
LEMMA SameFrames ==
  ASSUME IInv, IInv', MInv, UNCHANGED <<obj, frames, free, lost>>,
         \A o \in Objects : assoc'[o] \subseteq assoc[o],
         \A o \in Objects : \A v \in assoc'[o] :
           /\ view'[v].win = view[v].win
           /\ \/ win'[view[v].win].proc = win[view[v].win].proc
              \/ win'[view[v].win].proc = None,
         \A v \in Views, i \in Pages : caps'[v][i] \in Frames =>
           /\ caps'[v][i] = caps[v][i] /\ view'[v] = view[v]
           /\ win'[view[v].win] = win[view[v].win]
  PROVE  MInv' /\ PagesKept
<1>1. FramesApart' /\ NoFrameLeaks' /\ DeadAreEmpty'
  BY DEF MInv, FramesApart, NoFrameLeaks, DeadAreEmpty
<1>2. PrivateAtHome'
  BY DEF MInv, PrivateAtHome
<1>3. MappedAreAttached' /\ MappedAreHeld'
  BY DEF MInv, MappedAreAttached, MappedAreHeld
<1> QED
  BY <1>1, <1>2, <1>3 DEF MInv, PagesKept

LEMMA WindowCreateKeepsM ==
  ASSUME IInv, IInv', MInv, NEW p \in Procs, WindowCreate(p)
  PROVE  MInv' /\ PagesKept
<1>1. PICK w \in Windows :
        /\ \A v \in Views : view[v].win # w
        /\ \A x \in Windows : x # w => win'[x] = win[x]
        /\ UNCHANGED <<view, caps, obj, frames, assoc, free, lost>>
  BY DEF WindowCreate, Unused, IInv, BindingsAgree, TypeOK
<1>2. \A o \in Objects : \A v \in assoc[o] :
        win'[view[v].win] = win[view[v].win]
  BY <1>1, BindingFacts
<1>3. \A v \in Views, i \in Pages : caps[v][i] \in Frames =>
        win'[view[v].win] = win[view[v].win]
  BY <1>1, MappedFacts
<1> QED
  BY <1>1, <1>2, <1>3, SameFrames

LEMMA WindowDestroyKeepsM ==
  ASSUME IInv, IInv', MInv, NEW p \in Procs, WindowDestroy(p)
  PROVE  MInv' /\ PagesKept
<1>1. PICK w \in Windows :
        /\ LET v == win[w].view IN
           IF v = None
           THEN UNCHANGED <<caps, assoc, incidents>>
           ELSE /\ Note({"window_in_use"})
                /\ assoc' = Delisted(v)
                /\ caps' = [caps EXCEPT ![v] = Cleaned(@)]
        /\ win' = [win EXCEPT ![w].proc = None]
        /\ UNCHANGED <<view, obj, frames, free, lost, panicked>>
  BY DEF WindowDestroy
<1>2. \A x \in Windows : x # w => win'[x] = win[x]
  BY <1>1 DEF IInv, BindingsAgree, TypeOK
<1>3. win'[w].proc = None
  BY <1>1 DEF IInv, BindingsAgree, TypeOK
<1>4. \A o \in Objects : assoc'[o] \subseteq assoc[o]
  <2>1. CASE win[w].view = None
    BY <1>1, <2>1
  <2>2. CASE win[w].view # None
    BY <1>1, <2>2, BindingFacts, DelistedViews
       DEF IInv, BindingsAgree, TypeOK
  <2> QED
    BY <2>1, <2>2
<1>5. \A o \in Objects : \A v \in assoc'[o] :
        \/ win'[view[v].win].proc = win[view[v].win].proc
        \/ win'[view[v].win].proc = None
  BY <1>2, <1>3, <1>4, BindingFacts
<1>6. \A v \in Views, i \in Pages : caps'[v][i] \in Frames =>
        caps'[v][i] = caps[v][i] /\ v # win[w].view
  <2>1. CASE win[w].view = None
    BY <1>1, <2>1, NoneIsApart
  <2>2. CASE win[w].view # None
    <3> DEFINE u == win[w].view
    <3>1. u \in Views /\ caps' = [caps EXCEPT ![u] = Cleaned(caps[u])]
      BY <1>1, <2>2, BindingFacts
    <3>2. \A i \in Pages : Cleaned(caps[u])[i] \notin Frames
      BY NoneIsApart DEF Cleaned
    <3> HIDE DEF u
    <3>3. \A v \in Views, i \in Pages : caps'[v][i] \in Frames =>
            caps'[v][i] = caps[v][i] /\ v # u
      BY <3>1, <3>2 DEF IInv, BindingsAgree, TypeOK
    <3> QED
      BY <3>3 DEF u
  <2> QED
    BY <2>1, <2>2
<1>7. \A v \in Views, i \in Pages : caps'[v][i] \in Frames =>
        win'[view[v].win] = win[view[v].win]
  BY <1>2, <1>6, MappedFacts
<1> QED
  BY <1>1, <1>4, <1>5, <1>6, <1>7, SameFrames

(* The frames of other objects stay when those of one are exchanged.       *)
LEMMA ObjCreateKeepsM ==
  ASSUME IInv, IInv', MInv, NEW p \in Procs, ObjCreate(p)
  PROVE  MInv' /\ PagesKept
<1>p. PICK o \in Objects, size \in ObjSizes, holder \in {p, Shared} :
        /\ UnusedObj(o)
        /\ \E pages \in {NoPages} \cup EagerPages(size) :
             /\ frames' = [frames EXCEPT ![o] = pages]
             /\ free' = free \ Held(pages)
        /\ obj' = [obj EXCEPT ![o] = [size |-> size, proc |-> holder]]
        /\ UNCHANGED <<win, view, caps, assoc, lost, panicked, incidents>>
  BY Zenon DEF ObjCreate
<1>1. PICK pages \in {NoPages} \cup EagerPages(size) :
        /\ UnusedObj(o)
        /\ obj' = [obj EXCEPT ![o] = [size |-> size, proc |-> holder]]
        /\ frames' = [frames EXCEPT ![o] = pages]
        /\ free' = free \ Held(pages)
        /\ UNCHANGED <<win, view, caps, assoc, lost, panicked, incidents>>
  BY <1>p
<1>2. /\ frames'[o] = pages /\ obj'[o].proc = holder /\ holder # None
      /\ \A q \in Objects : q # o => frames'[q] = frames[q] /\ obj'[q] = obj[q]
  BY <1>1, NoneIsApart, AddressSpaceAssumption DEF IInv, BindingsAgree, TypeOK
<1>3. \A v \in Views : view[v].obj # o
  BY <1>1 DEF UnusedObj
<1>4. /\ \A i \in Pages : frames[o][i] = None
      /\ \A v \in Views : v \notin assoc[o]
  BY <1>1, <1>3, BindingFacts DEF UnusedObj, NoObj, MInv, DeadAreEmpty
<1>5. /\ \A i \in Pages : pages[i] \in Frames => pages[i] \in free
      /\ \A i, j \in Pages : pages[i] \in Frames /\ pages[i] = pages[j] => i = j
      /\ \A f : f \in Held(pages) <=>
           f \in Frames /\ \E i \in Pages : pages[i] = f
  BY EagerFacts
<1>6. FramesApart'
  <2>1. ASSUME NEW q \in Objects, NEW i \in Pages, frames'[q][i] \in Frames
        PROVE  frames'[q][i] \notin free' /\ frames'[q][i] \notin lost'
    BY <1>1, <1>2, <1>5, <2>1 DEF MInv, FramesApart
  <2>2. ASSUME NEW q \in Objects, NEW r \in Objects, NEW i \in Pages,
               NEW j \in Pages,
               frames'[q][i] \in Frames, frames'[q][i] = frames'[r][j]
        PROVE  q = r /\ i = j
    <3>1. CASE q # o /\ r # o
      BY <1>2, <2>2, <3>1 DEF MInv, FramesApart
    <3>2. CASE q = o /\ r = o
      BY <1>2, <1>5, <2>2, <3>2
    <3>3. CASE q = o /\ r # o
      BY <1>2, <1>5, <2>2, <3>3 DEF MInv, FramesApart
    <3>4. CASE q # o /\ r = o
      BY <1>2, <1>5, <2>2, <3>4 DEF MInv, FramesApart
    <3> QED
      BY <3>1, <3>2, <3>3, <3>4
  <2>3. free' \cap lost' = {}
    BY <1>1 DEF MInv, FramesApart
  <2> QED
    BY <2>1, <2>2, <2>3 DEF FramesApart
<1>7. NoFrameLeaks'
  <2> SUFFICES ASSUME NEW f \in Frames \ (free' \cup lost')
               PROVE  \E q \in Objects, i \in Pages : frames'[q][i] = f
    BY DEF NoFrameLeaks
  <2>1. CASE f \in Held(pages)
    BY <1>2, <1>5, <2>1
  <2>2. CASE f \notin free
    <3>1. PICK q \in Objects, i \in Pages : frames[q][i] = f
      BY <1>1, <2>2 DEF MInv, NoFrameLeaks
    <3>2. q # o
      BY <1>4, <3>1, NoneIsApart
    <3> QED
      BY <1>2, <3>1, <3>2
  <2> QED
    BY <1>1, <2>1, <2>2
<1>8. DeadAreEmpty'
  BY <1>2 DEF MInv, DeadAreEmpty
<1>9. PrivateAtHome'
  <2> SUFFICES ASSUME NEW q \in Objects, NEW v \in assoc[q],
                      win[view[v].win].proc # None
               PROVE  obj'[q].proc \in {Shared, win[view[v].win].proc}
    BY <1>1 DEF PrivateAtHome
  <2>1. q # o
    BY <1>4, BindingFacts
  <2> QED
    BY <1>2, <2>1 DEF MInv, PrivateAtHome
<1>10. MappedAreAttached'
  BY <1>1 DEF MInv, MappedAreAttached
<1>11. MappedAreHeld'
  BY <1>1, <1>2, <1>3, MappedFacts DEF MInv, MappedAreHeld
<1>12. PagesKept
  BY <1>1, <1>2, <1>3, MappedFacts DEF PagesKept
<1> QED
  BY <1>6, <1>7, <1>8, <1>9, <1>10, <1>11, <1>12 DEF MInv

(* Frames that are lost were free, and nobody sees them.                   *)
LEMMA ObjCreateFailsKeepsM ==
  ASSUME IInv, MInv, NEW p \in Procs, ObjCreateFails(p)
  PROVE  MInv' /\ PagesKept
<1>p. PICK size \in ObjSizes : \E pages \in EagerPages(size) :
        /\ free' = free \ Held(pages)
        /\ lost' = lost \cup Held(pages)
  BY DEF ObjCreateFails
<1>1. PICK pages \in EagerPages(size) :
        /\ free' = free \ Held(pages)
        /\ lost' = lost \cup Held(pages)
        /\ UNCHANGED <<win, view, caps, obj, frames, assoc, panicked,
                       incidents>>
  BY <1>p DEF ObjCreateFails
<1>2. Held(pages) \subseteq free
  BY EagerFacts
<1>3. FramesApart' /\ NoFrameLeaks' /\ DeadAreEmpty'
  BY <1>1, <1>2 DEF MInv, FramesApart, NoFrameLeaks, DeadAreEmpty
<1>4. PrivateAtHome' /\ MappedAreAttached' /\ MappedAreHeld'
  BY <1>1 DEF MInv, PrivateAtHome, MappedAreAttached, MappedAreHeld
<1> QED
  BY <1>1, <1>3, <1>4 DEF MInv, PagesKept

LEMMA ObjDestroyKeepsM ==
  ASSUME IInv, IInv', MInv, NEW p \in Procs, ObjDestroy(p)
  PROVE  MInv' /\ PagesKept
<1>1. PICK o \in Objects :
        IF assoc[o] # {}
        THEN Panic /\ Note({"object_in_use"})
        ELSE /\ free' = free \cup Held(frames[o])
             /\ frames' = [frames EXCEPT ![o] = NoPages]
             /\ obj' = [obj EXCEPT ![o] = NoObj]
             /\ UNCHANGED <<win, view, caps, assoc, lost, panicked, incidents>>
  BY DEF ObjDestroy
<1>2. CASE assoc[o] # {}
  BY <1>1, <1>2, SameMemory DEF Panic
<1>3. CASE assoc[o] = {}
  <2>1. /\ \A i \in Pages : frames'[o][i] = None
        /\ \A q \in Objects : q # o =>
             frames'[q] = frames[q] /\ obj'[q] = obj[q]
    BY <1>1, <1>3 DEF NoPages, IInv, BindingsAgree, TypeOK
  <2>2. \A f : f \in free' <=> f \in free \/
          (f \in Frames /\ \E i \in Pages : frames[o][i] = f)
    BY <1>1, <1>3 DEF Held
  <2>l. lost' = lost
    BY <1>1, <1>3
  <2>3. FramesApart'
    <3>1. ASSUME NEW q \in Objects, NEW i \in Pages, frames'[q][i] \in Frames
          PROVE  frames'[q][i] \notin free' /\ frames'[q][i] \notin lost'
      BY <2>1, <2>2, <2>l, <3>1, NoneIsApart DEF MInv, FramesApart
    <3>2. ASSUME NEW q \in Objects, NEW r \in Objects, NEW i \in Pages,
                 NEW j \in Pages,
                 frames'[q][i] \in Frames, frames'[q][i] = frames'[r][j]
          PROVE  q = r /\ i = j
      BY <2>1, <3>2, NoneIsApart DEF MInv, FramesApart
    <3>3. free' \cap lost' = {}
      BY <2>2, <2>l DEF MInv, FramesApart
    <3> QED
      BY <3>1, <3>2, <3>3 DEF FramesApart
  <2>4. NoFrameLeaks'
    BY <2>1, <2>2, <2>l DEF MInv, NoFrameLeaks
  <2>5. DeadAreEmpty'
    BY <2>1 DEF MInv, DeadAreEmpty
  <2>6. PrivateAtHome'
    <3> SUFFICES ASSUME NEW q \in Objects, NEW v \in assoc[q],
                        win[view[v].win].proc # None
                 PROVE  obj'[q].proc \in {Shared, win[view[v].win].proc}
      BY <1>1, <1>3 DEF PrivateAtHome
    <3> QED
      BY <1>3, <2>1 DEF MInv, PrivateAtHome
  <2>7. MappedAreAttached'
    BY <1>1, <1>3 DEF MInv, MappedAreAttached
  <2>8. MappedAreHeld'
    <3> SUFFICES ASSUME NEW v \in Views, NEW i \in Pages, caps[v][i] \in Frames
                 PROVE  \E k \in Pages : frames'[view[v].obj][k] = caps[v][i]
      BY <1>1, <1>3 DEF MappedAreHeld
    <3>1. view[v].obj \in Objects /\ view[v].obj # o
      BY <1>3, MappedFacts
    <3> QED
      BY <2>1, <3>1 DEF MInv, MappedAreHeld
  <2>9. PagesKept
    <3>1. \A v \in Views, i \in Pages : caps[v][i] \in Frames =>
            view[v].obj \in Objects /\ view[v].obj # o
      BY <1>3, MappedFacts
    <3> QED
      BY <1>1, <1>3, <2>1, <3>1 DEF PagesKept
  <2> QED
    BY <2>3, <2>4, <2>5, <2>6, <2>7, <2>8, <2>9 DEF MInv
<1> QED
  BY <1>2, <1>3

LEMMA ViewKeepsM ==
  ASSUME IInv, IInv', MInv, NEW p \in Procs, View(p)
  PROVE  MInv' /\ PagesKept
<1>1. PICK v \in Views, w \in Windows, o \in Objects, a \in ViewArgs :
        /\ view[v] = NoView
        /\ win[w].proc = p
        /\ MayUse(p, o)
        /\ a.size # 0
        /\ PassesAlignment(a.win_offset)
        /\ PassesAlignment(a.obj_offset)
        /\ a.obj_offset + a.size <= obj[o].size
        /\ a.win_offset + a.size <= win[w].size
        /\ win[w].view = None
        /\ win' = [win EXCEPT ![w].view = v]
        /\ assoc' = [assoc EXCEPT ![o] = @ \cup {v}]
        /\ \E holder \in {p, None} :
             /\ view' = [view EXCEPT ![v] =
                           [win |-> w, obj |-> o, win_offset |-> a.win_offset,
                            obj_offset |-> a.obj_offset, proc |-> holder]]
             /\ Note((IF holder = None THEN {"handles"} ELSE {}) \cup
                     (IF a.win_offset > 0 THEN {"offset"} ELSE {}))
        /\ caps' = [caps EXCEPT ![v] = NoPages]
        /\ UNCHANGED <<obj, frames, free, lost, panicked>>
  BY Zenon DEF View
<1>2. /\ view'[v].win = w
      /\ \A u \in Views : u # v => view'[u] = view[u]
  BY <1>1 DEF IInv, BindingsAgree, TypeOK
<1>3. /\ \A x \in Windows : x # w => win'[x] = win[x]
      /\ \A x \in Windows : win'[x].proc = win[x].proc
  BY <1>1 DEF IInv, BindingsAgree, TypeOK
<1>4. \A q \in Objects, u \in Views :
        u \in assoc'[q] <=> (u \in assoc[q] \/ (q = o /\ u = v))
  BY <1>1 DEF IInv, BindingsAgree, TypeOK
<1>5. \A u \in Views, i \in Pages : caps'[u][i] \in Frames =>
        caps'[u][i] = caps[u][i] /\ u # v
  BY <1>1, NoneIsApart DEF NoPages, IInv, BindingsAgree, TypeOK
<1>6. FramesApart' /\ NoFrameLeaks' /\ DeadAreEmpty'
  BY <1>1 DEF MInv, FramesApart, NoFrameLeaks, DeadAreEmpty
<1>7. PrivateAtHome'
  <2> SUFFICES ASSUME NEW q \in Objects, NEW u \in assoc'[q],
                      win'[view'[u].win].proc # None
               PROVE  obj[q].proc \in {Shared, win'[view'[u].win].proc}
    BY <1>1 DEF PrivateAtHome
  <2>1. u \in Views
    BY DEF IInv, BindingsAgree, TypeOK
  <2>2. CASE u = v
    <3>1. v \notin assoc[q]
      BY <1>1, BindingFacts, NoneIsApart DEF NoView
    <3>2. q = o
      BY <1>4, <2>1, <2>2, <3>1
    <3> QED
      BY <1>1, <1>2, <1>3, <2>2, <3>2 DEF MayUse
  <2>3. CASE u # v
    <3>1. u \in assoc[q] /\ view'[u] = view[u]
      BY <1>2, <1>4, <2>1, <2>3
    <3> QED
      BY <1>3, <3>1, BindingFacts DEF MInv, PrivateAtHome
  <2> QED
    BY <2>2, <2>3
<1>8. ASSUME NEW u \in Views, NEW i \in Pages, caps'[u][i] \in Frames
      PROVE  /\ caps'[u][i] = caps[u][i] /\ view'[u] = view[u]
             /\ view[u].win \in Windows
             /\ win'[view[u].win] = win[view[u].win]
  <2>1. caps[u][i] \in Frames /\ u # v /\ caps'[u][i] = caps[u][i]
    BY <1>5, <1>8
  <2>2. view[u].win \in Windows /\ win[view[u].win].view = u
    BY <2>1, MappedFacts
  <2> QED
    BY <1>1, <1>2, <1>3, <2>1, <2>2, NoneIsApart
<1>9. MappedAreAttached'
  BY <1>8, NoneIsApart DEF MInv, MappedAreAttached
<1>10. MappedAreHeld'
  BY <1>1, <1>8 DEF MInv, MappedAreHeld
<1>11. PagesKept
  BY <1>1, <1>8 DEF PagesKept
<1> QED
  BY <1>6, <1>7, <1>9, <1>10, <1>11 DEF MInv

LEMMA UnviewKeepsM ==
  ASSUME IInv, IInv', MInv, NEW p \in Procs, Unview(p)
  PROVE  MInv' /\ PagesKept
<1>1. PICK v \in Owned(p) :
        IF Attached(v)
        THEN /\ win' = [win EXCEPT ![view[v].win].view = None]
             /\ assoc' = Delisted(v)
             /\ view' = Dropped(v)
             /\ caps' = [caps EXCEPT ![v] = NoPages]
             /\ UNCHANGED <<obj, frames, free, lost, panicked, incidents>>
        ELSE Panic /\ UNCHANGED incidents
  BY DEF Unview
<1>2. CASE ~Attached(v)
  BY <1>1, <1>2, SameMemory DEF Panic
<1>3. CASE Attached(v)
  <2>1. v \in Views
    BY DEF Owned
  <2>2. \A u \in Views : u # v => view'[u] = view[u]
    BY <1>1, <1>3, <2>1 DEF Dropped, IInv, BindingsAgree, TypeOK
  <2>3. \A q \in Objects : \A u \in assoc'[q] :
          u \in Views /\ u \in assoc[q] /\ u # v
    BY <1>1, <1>3, <2>1, DelistedViews DEF IInv, BindingsAgree, TypeOK
  <2>4. \A x \in Windows :
          /\ win'[x].proc = win[x].proc
          /\ x # view[v].win => win'[x] = win[x]
    <3>1. win' = [win EXCEPT ![view[v].win].view = None]
      BY <1>1, <1>3
    <3> QED
      BY <3>1 DEF IInv, BindingsAgree, TypeOK
  <2>5. \A u \in Views, i \in Pages : caps'[u][i] \in Frames =>
          caps'[u][i] = caps[u][i] /\ u # v
    BY <1>1, <1>3, NoneIsApart DEF NoPages, IInv, BindingsAgree, TypeOK
  <2>6. ASSUME NEW u \in Views, NEW i \in Pages, caps'[u][i] \in Frames
        PROVE  /\ caps'[u][i] = caps[u][i] /\ view'[u] = view[u]
               /\ win'[view[u].win] = win[view[u].win]
    <3>1. caps[u][i] \in Frames /\ u # v /\ caps'[u][i] = caps[u][i]
      BY <2>5, <2>6
    <3>2. view[u].win \in Windows /\ win[view[u].win].view = u
      BY <3>1, MappedFacts
    <3>3. view[u].win # view[v].win
      <4>1. v \in assoc[view[v].obj] /\ view[v].win # None
        BY <1>3, <2>1, NoneIsApart
           DEF Attached, Owned, IInv, BindingsAgree, TypeOK, NoView
      <4>2. win[view[v].win].view = v
        BY <2>1, <4>1, BindingFacts
      <4> QED
        BY <3>1, <3>2, <4>2
    <3> QED
      BY <2>2, <2>4, <3>1, <3>2, <3>3
  <2>7. \A q \in Objects : \A u \in assoc'[q] :
          /\ view'[u].win = view[u].win
          /\ win'[view[u].win].proc = win[view[u].win].proc
    BY <2>2, <2>3, <2>4, BindingFacts
  <2> QED
    BY <1>1, <1>3, <2>3, <2>6, <2>7, SameFrames
<1> QED
  BY <1>2, <1>3

LEMMA FaultFillsKeepsM ==
  ASSUME IInv, IInv', MInv, NEW p \in Procs, FaultFills(p)
  PROVE  MInv'
<1> DEFINE offset(a, w) == a - win[w].start
           page(a, w) ==
             Page(view[win[w].view].obj_offset
                  + (offset(a, w) - view[win[w].view].win_offset))
<1>1. PICK a \in 0 .. MaxAddr, w \in Windows :
        /\ Resolves(p, a, w)
        /\ LET v == win[w].view
               o == view[v].obj
           IN /\ page(a, w) \in Pages \/ offset(a, w) < view[v].win_offset
              /\ IF offset(a, w) < view[v].win_offset
                 THEN Panic /\ UNCHANGED incidents
                 ELSE IF frames[o][page(a, w)] = None /\ free = {}
                 THEN Panic /\ Note({"memory"})
                 ELSE IF Occupied(p, a, w)
                 THEN Panic /\ UNCHANGED incidents
                 ELSE /\ \E f \in IF frames[o][page(a, w)] = None THEN free
                                  ELSE {frames[o][page(a, w)]} :
                           /\ frames' = [frames EXCEPT ![o][page(a, w)] = f]
                           /\ caps' =
                                [caps EXCEPT ![v][Page(offset(a, w))] = f]
                           /\ free' = free \ {f}
                      /\ UNCHANGED <<win, view, obj, assoc, lost, panicked,
                                     incidents>>
  BY Zenon DEF FaultFills
<1> DEFINE v == win[w].view
           o == view[v].obj
           k == page(a, w)
           j == Page(offset(a, w))
<1> DEFINE stops == \/ offset(a, w) < view[v].win_offset
                    \/ frames[o][k] = None /\ free = {}
                    \/ Occupied(p, a, w)
<1>2. CASE stops
  BY <1>1, <1>2, SameMemory DEF Panic
<1>3. CASE ~stops
  <2>1. PICK f \in IF frames[o][k] = None THEN free ELSE {frames[o][k]} :
          /\ frames' = [frames EXCEPT ![o][k] = f]
          /\ caps' = [caps EXCEPT ![v][j] = f]
          /\ free' = free \ {f}
    BY <1>1, <1>3
  <2>2. k \in Pages /\ UNCHANGED <<win, view, obj, assoc, lost, panicked, incidents>>
    BY <1>1, <1>3
  <2>3. /\ v \in Views /\ view[v].win = w /\ o \in Objects
        /\ win[w].proc = p /\ v \in assoc[o]
    <3>1. win[w].proc = p /\ v # None
      BY <1>1 DEF Resolves
    <3>2. v \in Views /\ view[v].win = w /\ o \in Objects
      BY <3>1, BindingFacts, NoneIsApart
    <3>3. v \in assoc[o]
      BY <3>1, NoneIsApart DEF IInv, BindingsAgree
    <3> QED
      BY <3>1, <3>2, <3>3
  <2>4. obj[o].proc # None
    BY <2>3, NoneIsApart, AddressSpaceAssumption DEF MInv, PrivateAtHome
  <2>5. win[w].proc # None /\ win[view[v].win].view = v
    BY <2>3, NoneIsApart
  <2> HIDE DEF v, o, k, j
  <2>6. /\ \A q \in Objects, i \in Pages :
             frames'[q][i] = IF q = o /\ i = k THEN f ELSE frames[q][i]
        /\ \A u \in Views, i \in Pages :
             caps'[u][i] = IF u = v /\ i = j THEN f ELSE caps[u][i]
    BY <2>1, <2>2, <2>3 DEF IInv, BindingsAgree, TypeOK
  <2>7. /\ f \in Frames
        /\ frames[o][k] = None => f \in free
        /\ frames[o][k] # None => f = frames[o][k]
    <3>1. frames[o][k] \in Frames \cup {None} /\ free \subseteq Frames
      BY <2>2, <2>3 DEF IInv, BindingsAgree, TypeOK
    <3> QED
      BY <2>1, <3>1
  <2>8. FramesApart'
    <3>1. ASSUME NEW q \in Objects, NEW i \in Pages, frames'[q][i] \in Frames
          PROVE  frames'[q][i] \notin free' /\ frames'[q][i] \notin lost'
      BY <2>1, <2>2, <2>6, <2>7, <3>1 DEF MInv, FramesApart
    <3>2. ASSUME NEW q \in Objects, NEW r \in Objects, NEW i \in Pages,
                 NEW m \in Pages,
                 frames'[q][i] \in Frames, frames'[q][i] = frames'[r][m]
          PROVE  q = r /\ i = m
      <4>1. CASE frames[o][k] = None
        BY <2>2, <2>6, <2>7, <3>2, <4>1 DEF MInv, FramesApart
      <4>2. CASE frames[o][k] # None
        BY <2>2, <2>6, <2>7, <3>2, <4>2 DEF MInv, FramesApart
      <4> QED
        BY <4>1, <4>2
    <3>3. free' \cap lost' = {}
      BY <2>1, <2>2 DEF MInv, FramesApart
    <3> QED
      BY <3>1, <3>2, <3>3 DEF FramesApart
  <2>9. NoFrameLeaks'
    <3> SUFFICES ASSUME NEW g \in Frames \ (free' \cup lost')
                 PROVE  \E q \in Objects, i \in Pages : frames'[q][i] = g
      BY DEF NoFrameLeaks
    <3>1. CASE g = f
      BY <2>2, <2>3, <2>6, <3>1
    <3>2. CASE g # f
      <4>1. PICK q \in Objects, i \in Pages : frames[q][i] = g
        BY <2>1, <2>2, <3>2 DEF MInv, NoFrameLeaks
      <4>2. ~(q = o /\ i = k)
        BY <2>7, <3>2, <4>1, NoneIsApart
      <4> QED
        BY <2>6, <4>1, <4>2
    <3> QED
      BY <3>1, <3>2
  <2>10. DeadAreEmpty'
    BY <2>2, <2>4, <2>6 DEF MInv, DeadAreEmpty
  <2>11. PrivateAtHome'
    BY <2>2 DEF MInv, PrivateAtHome
  <2>12. MappedAreAttached'
    BY <2>2, <2>3, <2>5, <2>6, NoneIsApart DEF MInv, MappedAreAttached
  <2>13. MappedAreHeld'
    <3> SUFFICES ASSUME NEW u \in Views, NEW i \in Pages, caps'[u][i] \in Frames
                 PROVE  \E m \in Pages : frames'[view[u].obj][m] = caps'[u][i]
      BY <2>2 DEF MappedAreHeld
    <3>1. CASE u = v /\ i = j
      BY <2>2, <2>3, <2>6, <3>1 DEF o
    <3>2. CASE ~(u = v /\ i = j)
      <4>1. caps'[u][i] = caps[u][i]
        BY <2>6, <3>2
      <4>2. PICK m \in Pages : frames[view[u].obj][m] = caps[u][i]
        BY <4>1 DEF MInv, MappedAreHeld
      <4>3. view[u].obj \in Objects
        BY <4>1, MappedFacts
      <4>4. frames'[view[u].obj][m] = frames[view[u].obj][m]
        BY <2>6, <2>7, <4>1, <4>2, <4>3, NoneIsApart
      <4> QED
        BY <4>1, <4>2, <4>4
    <3> QED
      BY <3>1, <3>2
  <2> QED
    BY <2>8, <2>9, <2>10, <2>11, <2>12, <2>13 DEF MInv
<1> QED
  BY <1>2, <1>3

LEMMA FaultRemapsKeepsM ==
  ASSUME MInv, NEW p \in Procs, FaultRemaps(p)
  PROVE  MInv' /\ PagesKept
BY SameMemory DEF FaultRemaps, Panic, vars

LEMMA FaultUnansweredKeepsM ==
  ASSUME MInv, NEW p \in Procs, FaultUnanswered(p)
  PROVE  MInv' /\ PagesKept
BY SameMemory DEF FaultUnanswered, vars

(* Whatever an exiting process sees is in its own windows, whose views it  *)
(* owns or nobody does; both lose their pages.  Its objects are private or *)
(* stay, so nobody else sees their frames.                                 *)
LEMMA ExitKeepsM ==
  ASSUME IInv, IInv', MInv, NEW p \in Procs, Exit(p)
  PROVE  MInv' /\ PagesKept
<1> DEFINE mine == {o \in Objects : obj[o].proc = p}
           loose == {v \in Views : /\ view[v].proc = None /\ view[v].win # None
                                  /\ win[view[v].win].proc = p}
<1>1. CASE ~(\A v \in Owned(p) : Attached(v))
  BY <1>1, SameMemory DEF Exit, Panic
<1>2. CASE \A v \in Owned(p) : Attached(v)
  <2>1. /\ win' = [w \in Windows |->
                     IF win[w].proc # p THEN win[w]
                     ELSE [win[w] EXCEPT
                             !.proc = None,
                             !.view = IF @ \in loose THEN @ ELSE None]]
        /\ view' = [v \in Views |->
                      IF v \in Owned(p) THEN NoView ELSE view[v]]
        /\ caps' = [v \in Views |-> IF v \in Owned(p) THEN NoPages
                                    ELSE IF v \in loose THEN Cleaned(caps[v])
                                    ELSE caps[v]]
        /\ assoc' = [o \in Objects |-> assoc[o] \ Owned(p)]
        /\ obj' = [o \in Objects |-> IF o \in mine THEN NoObj ELSE obj[o]]
        /\ free' = free \cup UNION {Held(frames[o]) : o \in mine}
        /\ frames' = [o \in Objects |->
                        IF o \in mine THEN NoPages ELSE frames[o]]
        /\ UNCHANGED <<lost, panicked, incidents>>
    BY <1>2 DEF Exit
  <2>2. \A w \in Windows :
          /\ win[w].proc # p => win'[w] = win[w]
          /\ win[w].proc = p => win'[w].proc = None
    <3>1. win \in [Windows -> [proc : Procs \cup {None}, start : Nat,
                              size : Nat, view : Views \cup {None}]]
      BY DEF IInv, BindingsAgree, TypeOK
    <3> HIDE DEF loose
    <3> QED
      BY <2>1, <3>1
  <2>3. \A v \in Views, i \in Pages : caps'[v][i] \in Frames =>
          /\ v \notin Owned(p) /\ v \notin loose
          /\ caps'[v][i] = caps[v][i] /\ view'[v] = view[v]
    <3>1. \A v \in Views, i \in Pages :
            NoPages[i] \notin Frames /\ Cleaned(caps[v])[i] \notin Frames
      BY NoneIsApart DEF NoPages, Cleaned
    <3> HIDE DEF loose
    <3> QED
      BY <2>1, <3>1
  <2>4. /\ \A o \in mine : \A i \in Pages : frames'[o][i] = None
        /\ \A o \in Objects : o \notin mine =>
             frames'[o] = frames[o] /\ obj'[o] = obj[o]
    BY <2>1 DEF NoPages
  <2>5. \A f : f \in free' <=> f \in free \/
          (f \in Frames /\ \E o \in mine, i \in Pages : frames[o][i] = f)
    <3>1. \A f, o : f \in Held(frames[o]) <=>
            f \in Frames /\ \E i \in Pages : frames[o][i] = f
      BY DEF Held
    <3>2. \A f : f \in UNION {Held(frames[o]) : o \in mine} <=>
                  \E o \in mine : f \in Held(frames[o])
      OBVIOUS
    <3> HIDE DEF mine
    <3> QED
      BY <2>1, <3>1, <3>2
  <2>6. ASSUME NEW v \in Views, NEW i \in Pages, caps'[v][i] \in Frames
        PROVE  /\ caps'[v][i] = caps[v][i] /\ view'[v] = view[v]
               /\ view[v].win \in Windows /\ win[view[v].win].proc # p
               /\ win'[view[v].win] = win[view[v].win]
               /\ view[v].obj \in Objects /\ view[v].obj \notin mine
    <3>1. /\ caps[v][i] \in Frames /\ v \notin Owned(p) /\ v \notin loose
          /\ caps'[v][i] = caps[v][i] /\ view'[v] = view[v]
      BY <2>3, <2>6
    <3>2. /\ view[v].win \in Windows /\ view[v].obj \in Objects
          /\ v \in assoc[view[v].obj]
          /\ obj[view[v].obj].proc \in {Shared, win[view[v].win].proc}
      BY <3>1, MappedFacts
    <3>3. win[view[v].win].proc # p
      <4>1. view[v].proc # p
        BY <3>1 DEF Owned
      <4>2. view[v].proc = None => win[view[v].win].proc # p
        BY <3>1, <3>2, NoneIsApart
      <4>3. view[v].proc # None => win[view[v].win].proc = view[v].proc
        BY <3>2 DEF IInv, AttachedAreAtHome
      <4> QED
        BY <4>1, <4>2, <4>3
    <3>4. view[v].obj \notin mine
      BY <3>2, <3>3, AddressSpaceAssumption
    <3> QED
      BY <2>2, <3>1, <3>2, <3>3, <3>4
  <2>7. \A o \in Objects : \A v \in assoc'[o] :
          /\ v \in assoc[o] /\ v \in Views /\ view'[v] = view[v]
          /\ view[v].win \in Windows
    <3>1. \A o \in Objects : \A v \in assoc'[o] :
            v \in assoc[o] /\ v \notin Owned(p)
      BY <2>1
    <3> QED
      BY <2>1, <3>1, BindingFacts
  <2>l. lost' = lost
    BY <2>1
  <2>8. mine \subseteq Objects /\ \A o \in mine : obj[o].proc = p
    OBVIOUS
  <2>o. \A o \in Objects : o \notin mine => obj[o].proc # p
    OBVIOUS
  <2> HIDE DEF mine, loose
  <2>9. FramesApart'
    <3>1. ASSUME NEW o \in Objects, NEW i \in Pages, frames'[o][i] \in Frames
          PROVE  frames'[o][i] \notin free' /\ frames'[o][i] \notin lost'
      BY <2>4, <2>5, <2>8, <2>l, <3>1, NoneIsApart DEF MInv, FramesApart
    <3>2. ASSUME NEW o \in Objects, NEW q \in Objects, NEW i \in Pages,
                 NEW j \in Pages,
                 frames'[o][i] \in Frames, frames'[o][i] = frames'[q][j]
          PROVE  o = q /\ i = j
      BY <2>4, <3>2, NoneIsApart DEF MInv, FramesApart
    <3>3. free' \cap lost' = {}
      BY <2>5, <2>8, <2>l DEF MInv, FramesApart
    <3> QED
      BY <3>1, <3>2, <3>3 DEF FramesApart
  <2>10. NoFrameLeaks'
    <3> SUFFICES ASSUME NEW f \in Frames \ (free' \cup lost')
                 PROVE  \E o \in Objects, i \in Pages : frames'[o][i] = f
      BY DEF NoFrameLeaks
    <3>1. PICK o \in Objects, i \in Pages : frames[o][i] = f
      BY <2>5, <2>l DEF MInv, NoFrameLeaks
    <3> QED
      BY <2>4, <2>5, <3>1
  <2>11. DeadAreEmpty'
    BY <2>4 DEF MInv, DeadAreEmpty
  <2>12. PrivateAtHome'
    <3> SUFFICES ASSUME NEW o \in Objects, NEW v \in assoc'[o],
                        win'[view'[v].win].proc # None
                 PROVE  obj'[o].proc \in {Shared, win'[view'[v].win].proc}
      BY DEF PrivateAtHome
    <3>1. /\ v \in assoc[o] /\ view'[v] = view[v] /\ view[v].win \in Windows
          /\ win[view[v].win].proc # p
          /\ win'[view[v].win] = win[view[v].win]
      BY <2>2, <2>7
    <3>2. obj[o].proc \in {Shared, win[view[v].win].proc}
      BY <3>1 DEF MInv, PrivateAtHome
    <3>3. o \notin mine
      BY <2>8, <3>1, <3>2, AddressSpaceAssumption
    <3> QED
      BY <2>4, <3>1, <3>2, <3>3
  <2>13. MappedAreAttached'
    BY <2>6, NoneIsApart DEF MInv, MappedAreAttached
  <2>14. MappedAreHeld'
    BY <2>4, <2>6 DEF MInv, MappedAreHeld
  <2>15. PagesKept
    BY <2>4, <2>6 DEF PagesKept
  <2> QED
    BY <2>9, <2>10, <2>11, <2>12, <2>13, <2>14, <2>15 DEF MInv
<1> QED
  BY <1>1, <1>2

LEMMA NextKeepsM ==
  ASSUME IInv, MInv, [Next]_vars
  PROVE  MInv' /\ (PagesKept \/ \E p \in Procs : FaultFills(p))
<1>i. IInv'
  BY NextKeeps
<1>1. CASE UNCHANGED vars
  BY <1>1, SameMemory DEF vars
<1>2. ASSUME NEW p \in Procs, WindowCreate(p) PROVE MInv' /\ PagesKept
  BY <1>i, <1>2, WindowCreateKeepsM
<1>3. ASSUME NEW p \in Procs, WindowDestroy(p) PROVE MInv' /\ PagesKept
  BY <1>i, <1>3, WindowDestroyKeepsM
<1>4. ASSUME NEW p \in Procs, ObjCreate(p) \/ ObjCreateFails(p)
      PROVE  MInv' /\ PagesKept
  BY <1>i, <1>4, ObjCreateKeepsM, ObjCreateFailsKeepsM
<1>s. ASSUME NEW p \in Procs, ObjCreateStarves(p) \/ NoHandle(p)
      PROVE  MInv' /\ PagesKept
  BY <1>s, StopsKeep, SameMemory DEF Panic
<1>5. ASSUME NEW p \in Procs, ObjDestroy(p) PROVE MInv' /\ PagesKept
  BY <1>i, <1>5, ObjDestroyKeepsM
<1>6. ASSUME NEW p \in Procs, View(p) PROVE MInv' /\ PagesKept
  BY <1>i, <1>6, ViewKeepsM
<1>7. ASSUME NEW p \in Procs, Unview(p) PROVE MInv' /\ PagesKept
  BY <1>i, <1>7, UnviewKeepsM
<1>8. ASSUME NEW p \in Procs, FaultFills(p) PROVE MInv'
  BY <1>i, <1>8, FaultFillsKeepsM
<1>9. ASSUME NEW p \in Procs, FaultRemaps(p) PROVE MInv' /\ PagesKept
  BY <1>9, FaultRemapsKeepsM
<1>10. ASSUME NEW p \in Procs, FaultUnanswered(p) PROVE MInv' /\ PagesKept
  BY <1>10, FaultUnansweredKeepsM
<1>11. ASSUME NEW p \in Procs, Exit(p) PROVE MInv' /\ PagesKept
  BY <1>i, <1>11, ExitKeepsM
<1> QED
  BY <1>1, <1>2, <1>3, <1>4, <1>5, <1>6, <1>7, <1>8, <1>9, <1>10, <1>11,
     <1>s DEF Next

(* No frame is leaked but those noted, and none is in two hands.           *)
LEMMA HoldersAreOne == IInv /\ MInv => FramesHaveOneHolder
<1> SUFFICES ASSUME IInv, MInv, NEW f \in Frames
             PROVE  Cardinality({h \in Objects \X Pages :
                                   frames[h[1]][h[2]] = f})
                      = (IF f \in free \cup lost THEN 0 ELSE 1)
  BY DEF FramesHaveOneHolder, MInv, FramesApart
<1> DEFINE holders == {h \in Objects \X Pages : frames[h[1]][h[2]] = f}
<1>1. CASE f \in free \cup lost
  <2>1. holders = {}
    BY <1>1 DEF MInv, FramesApart
  <2> QED
    BY <1>1, <2>1, FS_EmptySet
<1>2. CASE f \notin free \cup lost
  <2>1. PICK o \in Objects, i \in Pages : frames[o][i] = f
    BY <1>2 DEF MInv, NoFrameLeaks
  <2>2. ASSUME NEW h \in Objects \X Pages, frames[h[1]][h[2]] = f
        PROVE  h = <<o, i>>
    <3>1. h = <<h[1], h[2]>> /\ h[1] \in Objects /\ h[2] \in Pages
      OBVIOUS
    <3>2. h[1] = o /\ h[2] = i
      BY <2>1, <2>2, <3>1 DEF MInv, FramesApart
    <3> QED
      BY <3>1, <3>2
  <2>3. holders = {<<o, i>>}
    BY <2>1, <2>2
  <2> QED
    BY <1>2, <2>3, FS_Singleton
<1> QED
  BY <1>1, <1>2

(* If two processes see one frame, the objects they see it through are one,*)
(* since a frame has one holder; and it is not private to either.          *)
LEMMA SharedIsShared == IInv /\ MInv => SharingIsExplicit
<1> SUFFICES ASSUME IInv, MInv,
                    NEW u \in Views, NEW v \in Views,
                    NEW i \in Pages, NEW j \in Pages,
                    caps[u][i] \in Frames, caps[u][i] = caps[v][j],
                    win[view[u].win].proc # win[view[v].win].proc
             PROVE  /\ view[u].obj = view[v].obj
                    /\ obj[view[u].obj].proc = Shared
  BY DEF SharingIsExplicit
<1>1. /\ view[u].obj \in Objects
      /\ obj[view[u].obj].proc \in {Shared, win[view[u].win].proc}
  BY MappedFacts
<1>2. /\ view[v].obj \in Objects
      /\ obj[view[v].obj].proc \in {Shared, win[view[v].win].proc}
  BY MappedFacts
<1>3. PICK k \in Pages : frames[view[u].obj][k] = caps[u][i]
  BY DEF MInv, MappedAreHeld
<1>4. PICK m \in Pages : frames[view[v].obj][m] = caps[u][i]
  BY DEF MInv, MappedAreHeld
<1>5. view[u].obj = view[v].obj
  BY <1>1, <1>2, <1>3, <1>4 DEF MInv, FramesApart
<1> QED
  BY <1>1, <1>2, <1>5

-----------------------------------------------------------------------------
(***************************************************************************)
(* Which page.  view does not check that offsets are multiples of the page *)
(* size (PassesAlignment).  A view with others shows, at one page of its   *)
(* window, one of the two pages of its object that the addresses of that   *)
(* page stand for: the one whose address faulted first.                    *)
(***************************************************************************)
PagesInPlace ==
  \A v \in Views, i \in Pages : caps[v][i] \in Frames =>
    /\ i * PageSize < win[view[v].win].size
    /\ \E k \in Stretch(v, i) \cap Pages : caps[v][i] = frames[view[v].obj][k]

LEMMA InitInPlace == Init => PagesInPlace
  BY NoneIsApart DEF Init, NoPages, PagesInPlace

LEMMA PageMonotone ==
  ASSUME NEW a \in Int, NEW b \in Int, a <= b
  PROVE  Page(a) \in Int /\ Page(b) \in Int /\ Page(a) <= Page(b)
<1> DEFINE q == a \div PageSize
           r == b \div PageSize
<1>1. /\ q \in Int /\ q * PageSize <= a
      /\ r \in Int /\ b < (r + 1) * PageSize
  BY AddressSpaceAssumption
<1>2. PageSize \in Nat /\ PageSize > 0
  BY AddressSpaceAssumption
<1> HIDE DEF q, r
<1>3. q * PageSize < (r + 1) * PageSize
  BY <1>1, <1>2
<1>4. q < r + 1
  BY <1>1, <1>2, <1>3
<1> QED
  BY <1>1, <1>4 DEF Page, q, r

(* An address stands for a page in the stretch of the page it is on.       *)
LEMMA WithinStretch ==
  ASSUME NEW a \in Nat, NEW wo \in Nat, NEW oo \in Nat
  PROVE  LET first == oo + (Page(a) * PageSize - wo)
         IN /\ Page(a) \in Nat /\ Page(a) * PageSize <= a
            /\ Page(oo + (a - wo)) \in Page(first) .. Page(first + PageSize - 1)
<1> DEFINE q == a \div PageSize
           d == q * PageSize
           first == oo + (d - wo)
<1>1. /\ q \in Nat /\ d <= a /\ a < (q + 1) * PageSize
      /\ PageSize \in Nat /\ PageSize > 0
  BY AddressSpaceAssumption
<1>2. d \in Int /\ a <= d + PageSize - 1
  <2> HIDE DEF q
  <2>1. (q + 1) * PageSize = q * PageSize + PageSize
    BY <1>1
  <2> QED
    BY <1>1, <2>1
<1>d. d <= a /\ PageSize \in Nat
  BY <1>1
<1>3. /\ first \in Int /\ first + PageSize - 1 \in Int
      /\ oo + (a - wo) \in Int
      /\ first <= oo + (a - wo) /\ oo + (a - wo) <= first + PageSize - 1
  <2> HIDE DEF d
  <2> QED
    BY <1>2, <1>d
<1>4. Page(oo + (a - wo)) \in Page(first) .. Page(first + PageSize - 1)
  <2> HIDE DEF first
  <2> QED
    BY <1>3, PageMonotone
<1> QED
  BY <1>1, <1>4 DEF Page

LEMMA KeptInPlace ==
  ASSUME IInv, MInv, PagesInPlace, PagesKept
  PROVE  PagesInPlace'
<1> SUFFICES ASSUME NEW v \in Views, NEW i \in Pages, caps'[v][i] \in Frames
             PROVE  /\ i * PageSize < win'[view'[v].win].size
                    /\ \E k \in Stretch(v, i)' \cap Pages :
                         caps'[v][i] = frames'[view'[v].obj][k]
  BY DEF PagesInPlace, Pages, Page
<1>1. /\ caps'[v][i] = caps[v][i] /\ view'[v] = view[v]
      /\ win'[view[v].win] = win[view[v].win]
      /\ frames'[view[v].obj] = frames[view[v].obj]
  BY DEF PagesKept
<1>2. Stretch(v, i)' = Stretch(v, i)
  BY <1>1 DEF Stretch, Page
<1> QED
  BY <1>1, <1>2 DEF PagesInPlace

LEMMA FillsInPlace ==
  ASSUME IInv, MInv, PagesInPlace, NEW p \in Procs, FaultFills(p)
  PROVE  PagesInPlace'
<1> DEFINE offset(a, w) == a - win[w].start
           page(a, w) ==
             Page(view[win[w].view].obj_offset
                  + (offset(a, w) - view[win[w].view].win_offset))
<1>1. PICK a \in 0 .. MaxAddr, w \in Windows :
        /\ Resolves(p, a, w)
        /\ LET v == win[w].view
               o == view[v].obj
           IN /\ page(a, w) \in Pages \/ offset(a, w) < view[v].win_offset
              /\ IF offset(a, w) < view[v].win_offset
                 THEN Panic /\ UNCHANGED incidents
                 ELSE IF frames[o][page(a, w)] = None /\ free = {}
                 THEN Panic /\ Note({"memory"})
                 ELSE IF Occupied(p, a, w)
                 THEN Panic /\ UNCHANGED incidents
                 ELSE /\ \E f \in IF frames[o][page(a, w)] = None THEN free
                                  ELSE {frames[o][page(a, w)]} :
                           /\ frames' = [frames EXCEPT ![o][page(a, w)] = f]
                           /\ caps' =
                                [caps EXCEPT ![v][Page(offset(a, w))] = f]
                           /\ free' = free \ {f}
                      /\ UNCHANGED <<win, view, obj, assoc, lost, panicked,
                                     incidents>>
  BY Zenon DEF FaultFills
<1> DEFINE v == win[w].view
           o == view[v].obj
           k == page(a, w)
           j == Page(offset(a, w))
<1> DEFINE stops == \/ offset(a, w) < view[v].win_offset
                    \/ frames[o][k] = None /\ free = {}
                    \/ Occupied(p, a, w)
<1>2. CASE stops
  BY <1>1, <1>2, SameMemory, KeptInPlace DEF Panic
<1>3. CASE ~stops
  <2>1. PICK f \in IF frames[o][k] = None THEN free ELSE {frames[o][k]} :
          /\ frames' = [frames EXCEPT ![o][k] = f]
          /\ caps' = [caps EXCEPT ![v][j] = f]
    BY <1>1, <1>3
  <2>2. k \in Pages /\ UNCHANGED <<win, view>>
    BY <1>1, <1>3
  <2>3. v \in Views /\ view[v].win = w /\ o \in Objects
    <3>1. v # None
      BY <1>1 DEF Resolves
    <3> QED
      BY <3>1, BindingFacts, NoneIsApart
  <2>4. j * PageSize < win[w].size /\ k \in Stretch(v, j)
    <3>1. /\ a - win[w].start \in Nat /\ a - win[w].start < win[w].size
          /\ win[w].size \in Nat
      <4>1. win[w].start \in Nat /\ win[w].size \in Nat
        BY DEF IInv, BindingsAgree, TypeOK
      <4>2. a \in Int /\ win[w].start <= a /\ a < win[w].start + win[w].size
        <5>1. a \in 0 .. MaxAddr /\ Resolves(p, a, w)
          BY <1>1
        <5> QED
          BY <5>1, AddressSpaceAssumption DEF Resolves
      <4> QED
        BY <4>1, <4>2
    <3>2. view[v].win_offset \in Nat /\ view[v].obj_offset \in Nat
      BY <2>3 DEF IInv, BindingsAgree, TypeOK
    <3>3. /\ j \in Nat /\ j * PageSize <= a - win[w].start
          /\ k \in Stretch(v, j)
      BY <3>1, <3>2, WithinStretch DEF Stretch
    <3> QED
      BY <3>1, <3>3, AddressSpaceAssumption
  <2> HIDE DEF v, o, k, j
  <2>5. /\ \A q \in Objects, i \in Pages :
             frames'[q][i] = IF q = o /\ i = k THEN f ELSE frames[q][i]
        /\ \A u \in Views, i \in Pages :
             caps'[u][i] = IF u = v /\ i = j THEN f ELSE caps[u][i]
    BY <2>1, <2>2, <2>3 DEF IInv, BindingsAgree, TypeOK
  <2> SUFFICES ASSUME NEW u \in Views, NEW i \in Pages, caps'[u][i] \in Frames
               PROVE  /\ i * PageSize < win[view[u].win].size
                      /\ \E m \in Stretch(u, i) \cap Pages :
                           caps'[u][i] = frames'[view[u].obj][m]
    BY <2>2 DEF PagesInPlace, Stretch, Page, Pages
  <2>6. CASE u = v /\ i = j
    BY <2>2, <2>3, <2>4, <2>5, <2>6 DEF o
  <2>7. CASE ~(u = v /\ i = j)
    <3>1. caps'[u][i] = caps[u][i]
      BY <2>5, <2>7
    <3>2. i * PageSize < win[view[u].win].size
      BY <3>1 DEF PagesInPlace
    <3>3. PICK m \in Stretch(u, i) \cap Pages :
            caps[u][i] = frames[view[u].obj][m]
      BY <3>1 DEF PagesInPlace
    <3>4. view[u].obj \in Objects
      BY <3>1, MappedFacts
    <3>5. frames[view[u].obj][m] # None
      BY <3>1, <3>3, NoneIsApart
    <3>6. frames'[view[u].obj][m] = frames[view[u].obj][m]
      BY <2>1, <2>5, <3>3, <3>4, <3>5
    <3> QED
      BY <3>1, <3>2, <3>3, <3>6
  <2> QED
    BY <2>6, <2>7
<1> QED
  BY <1>2, <1>3

LEMMA NextInPlace ==
  ASSUME IInv, MInv, PagesInPlace, [Next]_vars
  PROVE  PagesInPlace'
BY NextKeepsM, KeptInPlace, FillsInPlace

LEMMA BackedInPlace ==
  ASSUME IInv, MInv, PagesInPlace
  PROVE  MappingsAreBacked
<1>1. PagesAreBacked
  <2> SUFFICES ASSUME NEW v \in Views, NEW i \in Pages, caps[v][i] \in Frames
               PROVE  LET w == view[v].win
                          o == view[v].obj
                      IN /\ win[w].proc # None /\ win[w].view = v
                         /\ i * PageSize < win[w].size
                         /\ caps[v][i] \notin free
                         /\ \E k \in Stretch(v, i) \cap Pages :
                              caps[v][i] = frames[o][k]
    BY DEF PagesAreBacked
  <2>1. PICK k \in Pages : frames[view[v].obj][k] = caps[v][i]
    BY DEF MInv, MappedAreHeld
  <2>2. caps[v][i] \notin free
    BY <2>1, MappedFacts DEF MInv, FramesApart
  <2> QED
    BY <2>2, MappedFacts DEF PagesInPlace
<1> QED
  BY <1>1, SharedIsShared DEF MappingsAreBacked

-----------------------------------------------------------------------------
(***************************************************************************)
(* The server.  overlapping_window looks only for ends of the new window   *)
(* inside an old one: windows stay apart until one is created around       *)
(* another, and what overlaps is nested.                                   *)
(***************************************************************************)
WindowsApart == "enclosing" \notin incidents => WindowsDisjoint

(* A page is mapped under a capability that is gone only where nobody can  *)
(* fault any more.                                                         *)
RevokedAreGone ==
  \A v \in Views, i \in Pages : caps[v][i] = Revoked =>
    view[v].win # None /\ win[view[v].win].proc = None

AllAttached == \A v \in Views : view[v].win # None => Attached(v)
NoOffsets   == \A v \in Views : view[v].win_offset = 0

SInv ==
  /\ WindowsNest /\ WindowsApart /\ RevokedAreGone
  /\ incidents = {} => ~panicked /\ AllAttached /\ NoOffsets

WindowsKept ==
  \A w \in Windows : win'[w].proc # None =>
    /\ win'[w].proc = win[w].proc
    /\ win'[w].start = win[w].start /\ win'[w].size = win[w].size

LEMMA InitSInv == Init => SInv
<1> SUFFICES ASSUME Init PROVE SInv
  OBVIOUS
<1>1. WindowsNest /\ WindowsApart
  BY DEF Init, NoWin, WindowsNest, WindowsApart, WindowsDisjoint
<1>2. RevokedAreGone
  BY NoneIsApart DEF Init, NoPages, RevokedAreGone
<1>3. AllAttached /\ NoOffsets
  BY DEF Init, NoView, AllAttached, NoOffsets
<1> QED
  BY <1>1, <1>2, <1>3 DEF Init, SInv

LEMMA KeptApart ==
  ASSUME SInv, WindowsKept, incidents \subseteq incidents'
  PROVE  WindowsNest' /\ WindowsApart'
<1>1. WindowsNest'
  BY DEF SInv, WindowsNest, WindowsKept, Inside
<1>2. WindowsApart'
  BY DEF SInv, WindowsApart, WindowsDisjoint, WindowsKept
<1> QED
  BY <1>1, <1>2

(* A step that moves neither windows nor views.                            *)
LEMMA SameServer ==
  ASSUME SInv, UNCHANGED <<win, view, assoc, panicked, incidents>>,
         \A v \in Views, i \in Pages :
           caps'[v][i] = Revoked => caps[v][i] = Revoked
  PROVE  SInv'
<1>1. WindowsKept
  BY DEF WindowsKept
<1>2. RevokedAreGone'
  BY DEF SInv, RevokedAreGone
<1>3. AllAttached' <=> AllAttached
  BY DEF AllAttached, Attached
<1>4. NoOffsets' <=> NoOffsets
  BY DEF NoOffsets
<1> QED
  BY <1>1, <1>2, <1>3, <1>4, KeptApart DEF SInv

(* A stop with an incident.                                                *)
LEMMA StopAfterIncident ==
  ASSUME SInv, Panic, incidents \subseteq incidents', incidents' # {}
  PROVE  SInv'
<1>1. WindowsKept
  BY DEF WindowsKept, Panic
<1>2. RevokedAreGone'
  BY DEF SInv, RevokedAreGone, Panic
<1> QED
  BY <1>1, <1>2, KeptApart DEF SInv

LEMMA WindowCreateSurvives ==
  ASSUME IInv, SInv, NEW p \in Procs, WindowCreate(p)
  PROVE  SInv'
<1>1. PICK w \in Windows, place \in Places :
        /\ Unused(w)
        /\ ~Overlaps(p, place.start, place.size)
        /\ Note(IF Encloses(p, place.start, place.size)
                THEN {"enclosing"} ELSE {})
        /\ win' = [win EXCEPT ![w] = [proc |-> p, start |-> place.start,
                                      size |-> place.size, view |-> None]]
        /\ UNCHANGED <<view, caps, obj, frames, assoc, free, lost, panicked>>
  BY DEF WindowCreate
<1>2. /\ win'[w] = [proc |-> p, start |-> place.start, size |-> place.size,
                    view |-> None]
      /\ \A x \in Windows : x # w => win'[x] = win[x]
      /\ \A v \in Views : view[v].win # w
  BY <1>1 DEF Unused, IInv, BindingsAgree, TypeOK
<1>3. /\ place.start \in Nat /\ place.size \in Nat /\ place.size > 0
      /\ \A x \in Windows : win[x].start \in Nat /\ win[x].size \in Nat
  BY AddressSpaceAssumption DEF IInv, BindingsAgree, TypeOK
<1>4. incidents \subseteq incidents'
  BY <1>1 DEF Note
<1>5. ASSUME NEW x \in Windows, x # w, win[x].proc = p
      PROVE  \/ place.start + place.size <= win[x].start
             \/ win[x].start + win[x].size <= place.start
             \/ /\ place.start < win[x].start
                /\ win[x].start + win[x].size <= place.start + place.size
                /\ "enclosing" \in incidents'
  <2>1. /\ ~(win[x].start <= place.start
             /\ place.start < win[x].start + win[x].size)
        /\ ~(win[x].start < place.start + place.size
             /\ place.start + place.size < win[x].start + win[x].size)
    BY <1>1, <1>5 DEF Overlaps
  <2>2. place.start < win[x].start
        /\ win[x].start + win[x].size <= place.start + place.size
          => "enclosing" \in incidents'
    BY <1>1, <1>5 DEF Encloses, Note
  <2> QED
    BY <1>3, <2>1, <2>2
<1>6. WindowsNest' /\ WindowsApart'
  <2>1. ASSUME NEW x \in Windows, NEW y \in Windows, x # y,
               win'[x].proc # None, win'[x].proc = win'[y].proc
        PROVE  \/ win'[x].start + win'[x].size <= win'[y].start
               \/ win'[y].start + win'[y].size <= win'[x].start
               \/ /\ Inside(x, y)' \/ Inside(y, x)'
                  /\ "enclosing" \in incidents'
    <3>1. CASE x = w
      <4>1. win'[y] = win[y] /\ win[y].proc = p /\ y # w
        BY <1>2, <2>1, <3>1
      <4> QED
        BY <1>2, <1>5, <3>1, <4>1 DEF Inside
    <3>2. CASE y = w
      <4>1. win'[x] = win[x] /\ win[x].proc = p /\ x # w
        BY <1>2, <2>1, <3>2
      <4> QED
        BY <1>2, <1>5, <3>2, <4>1 DEF Inside
    <3>3. CASE x # w /\ y # w
      <4>1. /\ win'[x] = win[x] /\ win'[y] = win[y]
            /\ win[x].proc # None /\ win[x].proc = win[y].proc
        BY <1>2, <2>1, <3>3
      <4>2. \/ win[x].start + win[x].size <= win[y].start
            \/ win[y].start + win[y].size <= win[x].start
            \/ Inside(x, y) \/ Inside(y, x)
        BY <2>1, <4>1 DEF SInv, WindowsNest
      <4>3. \/ win[x].start + win[x].size <= win[y].start
            \/ win[y].start + win[y].size <= win[x].start
            \/ "enclosing" \in incidents
        BY <2>1, <4>1 DEF SInv, WindowsApart, WindowsDisjoint
      <4> QED
        BY <1>4, <4>1, <4>2, <4>3 DEF Inside
    <3> QED
      BY <3>1, <3>2, <3>3
  <2> QED
    BY <2>1 DEF WindowsNest, WindowsApart, WindowsDisjoint
<1>7. RevokedAreGone'
  <2> SUFFICES ASSUME NEW v \in Views, NEW i \in Pages, caps[v][i] = Revoked
               PROVE  view[v].win # None /\ win'[view[v].win].proc = None
    BY <1>1 DEF RevokedAreGone
  <2>1. view[v].win # None /\ win[view[v].win].proc = None
    BY DEF SInv, RevokedAreGone
  <2>2. view[v].win \in Windows
    BY <2>1, BindingFacts
  <2> QED
    BY <1>2, <2>1, <2>2
<1>8. (AllAttached' <=> AllAttached) /\ (NoOffsets' <=> NoOffsets)
  BY <1>1 DEF AllAttached, Attached, NoOffsets
<1>9. incidents' = {} => incidents = {}
  BY <1>4
<1> QED
  BY <1>1, <1>6, <1>7, <1>8, <1>9 DEF SInv

LEMMA WindowDestroySurvives ==
  ASSUME IInv, SInv, NEW p \in Procs, WindowDestroy(p)
  PROVE  SInv'
<1>1. PICK w \in Windows :
        /\ LET v == win[w].view IN
           IF v = None
           THEN UNCHANGED <<caps, assoc, incidents>>
           ELSE /\ Note({"window_in_use"})
                /\ assoc' = Delisted(v)
                /\ caps' = [caps EXCEPT ![v] = Cleaned(@)]
        /\ win' = [win EXCEPT ![w].proc = None]
        /\ UNCHANGED <<view, obj, frames, free, lost, panicked>>
  BY DEF WindowDestroy
<1>2. /\ \A x \in Windows : x # w => win'[x] = win[x]
      /\ win'[w].proc = None
  BY <1>1 DEF IInv, BindingsAgree, TypeOK
<1>3. WindowsKept
  BY <1>2 DEF WindowsKept
<1>4. \A v \in Views, i \in Pages : caps'[v][i] = Revoked =>
        caps[v][i] = Revoked \/ (v = win[w].view /\ v # None)
  <2>1. CASE win[w].view = None
    BY <1>1, <2>1
  <2>2. CASE win[w].view # None
    <3> DEFINE u == win[w].view
    <3>1. u \in Views /\ caps' = [caps EXCEPT ![u] = Cleaned(caps[u])]
      BY <1>1, <2>2, BindingFacts
    <3> HIDE DEF u
    <3>2. \A v \in Views, i \in Pages : caps'[v][i] = Revoked =>
            caps[v][i] = Revoked \/ v = u
      BY <3>1 DEF IInv, BindingsAgree, TypeOK
    <3> QED
      BY <2>2, <3>2 DEF u
  <2> QED
    BY <2>1, <2>2
<1>5. RevokedAreGone'
  <2> SUFFICES ASSUME NEW v \in Views, NEW i \in Pages, caps'[v][i] = Revoked
               PROVE  view[v].win # None /\ win'[view[v].win].proc = None
    BY <1>1 DEF RevokedAreGone
  <2>1. CASE caps[v][i] = Revoked
    BY <1>2, <2>1, BindingFacts DEF SInv, RevokedAreGone
  <2>2. CASE v = win[w].view /\ v # None
    BY <1>2, <2>2, BindingFacts, NoneIsApart
  <2> QED
    BY <1>4, <2>1, <2>2
<1>6. CASE win[w].view = None
  <2>1. (AllAttached' <=> AllAttached) /\ (NoOffsets' <=> NoOffsets)
    BY <1>1, <1>6 DEF AllAttached, Attached, NoOffsets
  <2> QED
    BY <1>1, <1>3, <1>5, <1>6, <2>1, KeptApart DEF SInv
<1>7. CASE win[w].view # None
  <2>1. incidents' # {} /\ incidents \subseteq incidents'
    BY <1>1, <1>7 DEF Note
  <2> QED
    BY <1>3, <1>5, <2>1, KeptApart DEF SInv
<1> QED
  BY <1>6, <1>7

LEMMA ObjectsSurvive ==
  ASSUME SInv, NEW p \in Procs, ObjCreate(p) \/ ObjCreateFails(p) \/ ObjDestroy(p)
  PROVE  SInv'
<1>1. CASE ObjCreate(p) \/ ObjCreateFails(p)
  BY <1>1, SameServer DEF ObjCreate, ObjCreateFails
<1>2. CASE ObjDestroy(p)
  <2>1. PICK o \in Objects :
          IF assoc[o] # {}
          THEN Panic /\ Note({"object_in_use"})
          ELSE UNCHANGED <<win, view, caps, assoc, lost, panicked, incidents>>
    BY <1>2 DEF ObjDestroy
  <2>2. CASE assoc[o] # {}
    BY <2>1, <2>2, StopAfterIncident DEF Note
  <2>3. CASE assoc[o] = {}
    BY <2>1, <2>3, SameServer
  <2> QED
    BY <2>2, <2>3
<1> QED
  BY <1>1, <1>2

LEMMA ViewSurvives ==
  ASSUME IInv, IInv', SInv, NEW p \in Procs, View(p)
  PROVE  SInv'
<1>1. PICK v \in Views, w \in Windows, o \in Objects, a \in ViewArgs :
        /\ view[v] = NoView
        /\ win[w].proc = p
        /\ MayUse(p, o)
        /\ a.size # 0
        /\ PassesAlignment(a.win_offset)
        /\ PassesAlignment(a.obj_offset)
        /\ a.obj_offset + a.size <= obj[o].size
        /\ a.win_offset + a.size <= win[w].size
        /\ win[w].view = None
        /\ win' = [win EXCEPT ![w].view = v]
        /\ assoc' = [assoc EXCEPT ![o] = @ \cup {v}]
        /\ \E holder \in {p, None} :
             /\ view' = [view EXCEPT ![v] =
                           [win |-> w, obj |-> o, win_offset |-> a.win_offset,
                            obj_offset |-> a.obj_offset, proc |-> holder]]
             /\ Note((IF holder = None THEN {"handles"} ELSE {}) \cup
                     (IF a.win_offset > 0 THEN {"offset"} ELSE {}))
        /\ caps' = [caps EXCEPT ![v] = NoPages]
        /\ UNCHANGED <<obj, frames, free, lost, panicked>>
  BY Zenon DEF View
<1>2. /\ view'[v].win = w /\ view'[v].obj = o
      /\ view'[v].win_offset = a.win_offset
      /\ \A u \in Views : u # v => view'[u] = view[u]
  BY <1>1 DEF IInv, BindingsAgree, TypeOK
<1>3. \A x \in Windows :
        /\ win'[x].proc = win[x].proc
        /\ win'[x].start = win[x].start /\ win'[x].size = win[x].size
  BY <1>1 DEF IInv, BindingsAgree, TypeOK
<1>4. \A q \in Objects, u \in Views :
        u \in assoc'[q] <=> (u \in assoc[q] \/ (q = o /\ u = v))
  BY <1>1 DEF IInv, BindingsAgree, TypeOK
<1>5. \A u \in Views, i \in Pages : caps'[u][i] = Revoked =>
        caps[u][i] = Revoked /\ u # v
  BY <1>1, NoneIsApart DEF NoPages, IInv, BindingsAgree, TypeOK
<1>6. WindowsKept
  BY <1>3 DEF WindowsKept
<1>7. RevokedAreGone'
  <2> SUFFICES ASSUME NEW u \in Views, NEW i \in Pages, caps'[u][i] = Revoked
               PROVE  view'[u].win # None /\ win'[view'[u].win].proc = None
    BY DEF RevokedAreGone
  <2>1. /\ view'[u] = view[u] /\ view[u].win # None
        /\ win[view[u].win].proc = None
    BY <1>2, <1>5 DEF SInv, RevokedAreGone
  <2> QED
    BY <1>3, <2>1, BindingFacts
<1>8. ASSUME incidents' = {}
      PROVE  incidents = {} /\ a.win_offset = 0
  <2>1. PICK holder \in {p, None} :
          Note((IF holder = None THEN {"handles"} ELSE {}) \cup
               (IF a.win_offset > 0 THEN {"offset"} ELSE {}))
    BY <1>1
  <2>2. incidents = {} /\ ~(a.win_offset > 0)
    BY <1>8, <2>1 DEF Note
  <2> QED
    BY <2>2, AddressSpaceAssumption
<1>9. AllAttached => AllAttached'
  <2> SUFFICES ASSUME AllAttached, NEW u \in Views, view'[u].win # None
               PROVE  u \in assoc'[view'[u].obj]
    BY DEF AllAttached, Attached
  <2>1. CASE u = v
    BY <1>2, <1>4, <2>1
  <2>2. CASE u # v
    <3>1. view'[u] = view[u] /\ u \in assoc[view[u].obj]
      BY <1>2, <2>2 DEF AllAttached, Attached
    <3>2. view[u].obj \in Objects
      BY <3>1, BindingFacts
    <3> QED
      BY <1>4, <3>1, <3>2
  <2> QED
    BY <2>1, <2>2
<1>10. ASSUME NoOffsets, a.win_offset = 0
       PROVE  NoOffsets'
  BY <1>2, <1>10 DEF NoOffsets
<1>11. incidents \subseteq incidents'
  BY <1>1 DEF Note
<1> QED
  BY <1>1, <1>6, <1>7, <1>8, <1>9, <1>10, <1>11, KeptApart DEF SInv

LEMMA UnviewSurvives ==
  ASSUME IInv, SInv, NEW p \in Procs, Unview(p)
  PROVE  SInv'
<1>1. PICK v \in Owned(p) :
        IF Attached(v)
        THEN /\ win' = [win EXCEPT ![view[v].win].view = None]
             /\ assoc' = Delisted(v)
             /\ view' = Dropped(v)
             /\ caps' = [caps EXCEPT ![v] = NoPages]
             /\ UNCHANGED <<obj, frames, free, lost, panicked, incidents>>
        ELSE Panic /\ UNCHANGED incidents
  BY DEF Unview
<1>2. v \in Views /\ view[v].win # None
  BY NoneIsApart DEF Owned, IInv, BindingsAgree, TypeOK, NoView
<1>3. CASE ~Attached(v)
  <2>1. incidents' # {}
    BY <1>1, <1>2, <1>3 DEF SInv, AllAttached
  <2> QED
    BY <1>1, <1>3, <2>1, StopAfterIncident
<1>4. CASE Attached(v)
  <2>1. /\ view'[v] = NoView
        /\ \A u \in Views : u # v => view'[u] = view[u]
    BY <1>1, <1>2, <1>4 DEF Dropped, IInv, BindingsAgree, TypeOK
  <2>2. \A x \in Windows :
          /\ win'[x].proc = win[x].proc
          /\ win'[x].start = win[x].start /\ win'[x].size = win[x].size
    <3>1. win' = [win EXCEPT ![view[v].win].view = None]
      BY <1>1, <1>4
    <3> QED
      BY <3>1 DEF IInv, BindingsAgree, TypeOK
  <2>3. \A o \in Objects, u \in Views :
          u \in assoc'[o] <=> u \in assoc[o] /\ u # v
    BY <1>1, <1>2, <1>4, DelistedViews
  <2>4. \A u \in Views, i \in Pages : caps'[u][i] = Revoked =>
          caps[u][i] = Revoked /\ u # v
    BY <1>1, <1>4, NoneIsApart DEF NoPages, IInv, BindingsAgree, TypeOK
  <2>5. WindowsKept
    BY <2>2 DEF WindowsKept
  <2>6. RevokedAreGone'
    <3> SUFFICES ASSUME NEW u \in Views, NEW i \in Pages,
                        caps'[u][i] = Revoked
                 PROVE  view'[u].win # None /\ win'[view'[u].win].proc = None
      BY DEF RevokedAreGone
    <3>1. /\ view'[u] = view[u] /\ view[u].win # None
          /\ win[view[u].win].proc = None
      BY <2>1, <2>4 DEF SInv, RevokedAreGone
    <3> QED
      BY <2>2, <3>1, BindingFacts
  <2>7. AllAttached => AllAttached'
    <3> SUFFICES ASSUME AllAttached, NEW u \in Views, view'[u].win # None
                 PROVE  u \in assoc'[view'[u].obj]
      BY DEF AllAttached, Attached
    <3>1. u # v /\ view'[u] = view[u] /\ u \in assoc[view[u].obj]
      BY <2>1 DEF AllAttached, Attached, NoView
    <3>2. view[u].obj \in Objects
      BY <3>1, BindingFacts
    <3> QED
      BY <2>3, <3>1, <3>2
  <2>8. NoOffsets => NoOffsets'
    BY <2>1 DEF NoOffsets, NoView
  <2> QED
    BY <1>1, <1>4, <2>5, <2>6, <2>7, <2>8, KeptApart DEF SInv
<1> QED
  BY <1>3, <1>4

LEMMA PageOrder ==
  ASSUME NEW a \in Nat, NEW b \in Nat, a <= b
  PROVE  Page(a) \in 0 .. Page(b)
<1> DEFINE q == a \div PageSize
           r == b \div PageSize
<1>1. /\ q \in Nat /\ q * PageSize <= a
      /\ r \in Nat /\ b < (r + 1) * PageSize
  BY AddressSpaceAssumption
<1>2. PageSize \in Nat /\ PageSize > 0
  BY AddressSpaceAssumption
<1> HIDE DEF q, r
<1>3. q * PageSize < (r + 1) * PageSize
  BY <1>1, <1>2
<1>4. q < r + 1
  BY <1>1, <1>2, <1>3
<1> QED
  BY <1>1, <1>4 DEF Page, q, r

(* A fault finds at most one window, no view starts behind the start of    *)
(* its window, and a page that is there can be mapped.                     *)
LEMMA FaultFillsSurvives ==
  ASSUME IInv, SInv, NEW p \in Procs, FaultFills(p)
  PROVE  SInv'
<1> DEFINE offset(a, w) == a - win[w].start
<1>1. PICK a \in 0 .. MaxAddr, w \in Windows :
        /\ Resolves(p, a, w)
        /\ LET v == win[w].view
               o == view[v].obj
               i == Page(view[v].obj_offset
                         + (offset(a, w) - view[v].win_offset))
           IN /\ i \in Pages \/ offset(a, w) < view[v].win_offset
              /\ IF offset(a, w) < view[v].win_offset
                 THEN Panic /\ UNCHANGED incidents
                 ELSE IF frames[o][i] = None /\ free = {}
                 THEN Panic /\ Note({"memory"})
                 ELSE IF Occupied(p, a, w)
                 THEN Panic /\ UNCHANGED incidents
                 ELSE /\ \E f \in IF frames[o][i] = None THEN free
                                  ELSE {frames[o][i]} :
                           /\ frames' = [frames EXCEPT ![o][i] = f]
                           /\ caps' =
                                [caps EXCEPT ![v][Page(offset(a, w))] = f]
                           /\ free' = free \ {f}
                      /\ UNCHANGED <<win, view, obj, assoc, lost, panicked,
                                     incidents>>
  BY Zenon DEF FaultFills
<1> DEFINE v == win[w].view
           o == view[v].obj
           i == Page(view[v].obj_offset
                     + (offset(a, w) - view[v].win_offset))
           j == Page(offset(a, w))
           starved == frames[o][i] = None /\ free = {}
<1>2. v \in Views /\ o \in Objects
  <2>1. v # None
    BY <1>1 DEF Resolves
  <2> QED
    BY <2>1, BindingFacts, NoneIsApart
<1>3. ASSUME incidents = {}
      PROVE  ~Occupied(p, a, w)
  <2> SUFFICES ASSUME NEW x \in Windows \ {w}, Resolves(p, a, x)
               PROVE  FALSE
    BY DEF Occupied
  <2>1. /\ win[w].proc = p /\ win[x].proc = p /\ p # None /\ x # w
        /\ win[w].start <= a /\ a < win[w].start + win[w].size
        /\ win[x].start <= a /\ a < win[x].start + win[x].size
    BY <1>1, NoneIsApart DEF Resolves
  <2>2. \/ win[w].start + win[w].size <= win[x].start
        \/ win[x].start + win[x].size <= win[w].start
    BY <1>3, <2>1 DEF SInv, WindowsApart, WindowsDisjoint
  <2>3. /\ win[w].start \in Nat /\ win[w].size \in Nat
        /\ win[x].start \in Nat /\ win[x].size \in Nat /\ a \in Int
    BY AddressSpaceAssumption DEF IInv, BindingsAgree, TypeOK
  <2> QED
    BY <2>1, <2>2, <2>3
<1>4. CASE offset(a, w) < view[v].win_offset
  <2>1. view[v].win_offset # 0
    <3>1. win[w].start <= a /\ win[w].start \in Nat /\ a \in Int
      <4>1. a \in 0 .. MaxAddr /\ Resolves(p, a, w)
        BY <1>1
      <4>2. win[w].start \in Nat
        BY DEF IInv, BindingsAgree, TypeOK
      <4> QED
        BY <4>1, <4>2, AddressSpaceAssumption DEF Resolves
    <3> QED
      BY <1>4, <3>1
  <2>2. incidents' = incidents /\ incidents' # {} /\ Panic
    BY <1>1, <1>2, <1>4, <2>1 DEF SInv, NoOffsets
  <2> QED
    BY <2>2, StopAfterIncident
<1>5. CASE ~(offset(a, w) < view[v].win_offset) /\ starved
  <2>1. Panic /\ incidents' = incidents \cup {"memory"}
    BY <1>1, <1>5 DEF Note
  <2> QED
    BY <2>1, StopAfterIncident
<1>6. CASE /\ ~(offset(a, w) < view[v].win_offset) /\ ~starved
           /\ Occupied(p, a, w)
  <2>1. Panic /\ incidents' = incidents /\ incidents # {}
    BY <1>1, <1>3, <1>6
  <2> QED
    BY <2>1, StopAfterIncident
<1>7. CASE /\ ~(offset(a, w) < view[v].win_offset) /\ ~starved
           /\ ~Occupied(p, a, w)
  <2>1. PICK f \in IF frames[o][i] = None THEN free ELSE {frames[o][i]} :
          caps' = [caps EXCEPT ![v][j] = f]
    BY <1>1, <1>7
  <2>2. i \in Pages /\ UNCHANGED <<win, view, assoc, panicked, incidents>>
    BY <1>1, <1>7
  <2> HIDE DEF v, o, i, j
  <2>3. f # Revoked
    <3>1. frames[o][i] \in Frames \cup {None} /\ free \subseteq Frames
      BY <1>2, <2>2 DEF IInv, BindingsAgree, TypeOK
    <3> QED
      BY <2>1, <3>1, NoneIsApart
  <2>4. \A u \in Views, k \in Pages :
          caps'[u][k] = Revoked => caps[u][k] = Revoked
    BY <1>2, <2>1, <2>3 DEF IInv, BindingsAgree, TypeOK
  <2> QED
    BY <2>2, <2>4, SameServer
<1> QED
  BY <1>4, <1>5, <1>6, <1>7

LEMMA FaultRemapsSurvives ==
  ASSUME IInv, SInv, NEW p \in Procs, FaultRemaps(p)
  PROVE  SInv'
<1>1. PICK a \in 0 .. MaxAddr, w \in Windows :
        /\ Resolves(p, a, w)
        /\ IF caps[win[w].view][Page(a - win[w].start)] = Revoked
           THEN Panic /\ UNCHANGED incidents
           ELSE UNCHANGED vars
  BY DEF FaultRemaps
<1>2. win[w].proc = p /\ win[w].view \in Views /\ view[win[w].view].win = w
  BY <1>1, BindingFacts DEF Resolves
<1>3. Page(a - win[w].start) \in Pages
  <2>1. win[w].start \in Nat /\ win[w].start <= a
    BY <1>1 DEF Resolves, IInv, BindingsAgree, TypeOK
  <2>2. /\ a - win[w].start \in Nat /\ a - win[w].start <= MaxAddr
        /\ MaxAddr \in Nat
    BY <2>1, AddressSpaceAssumption
  <2> QED
    BY <2>2, PageOrder DEF Pages
<1>4. caps[win[w].view][Page(a - win[w].start)] # Revoked
  BY <1>2, <1>3, NoneIsApart DEF SInv, RevokedAreGone
<1>5. UNCHANGED vars
  BY <1>1, <1>4
<1> QED
  BY <1>5, SameServer DEF vars

LEMMA ExitSurvives ==
  ASSUME IInv, SInv, NEW p \in Procs, Exit(p)
  PROVE  SInv'
<1> DEFINE mine == {o \in Objects : obj[o].proc = p}
           loose == {v \in Views : /\ view[v].proc = None /\ view[v].win # None
                                  /\ win[view[v].win].proc = p}
<1>1. CASE ~(\A v \in Owned(p) : Attached(v))
  <2>1. Panic /\ UNCHANGED incidents
    BY <1>1 DEF Exit
  <2>2. ~AllAttached
    <3>1. PICK v \in Owned(p) : ~Attached(v)
      BY <1>1
    <3>2. v \in Views /\ view[v].win # None
      BY NoneIsApart DEF Owned, IInv, BindingsAgree, TypeOK, NoView
    <3> QED
      BY <3>1, <3>2 DEF AllAttached
  <2> QED
    BY <2>1, <2>2, StopAfterIncident DEF SInv
<1>2. CASE \A v \in Owned(p) : Attached(v)
  <2>1. /\ win' = [w \in Windows |->
                     IF win[w].proc # p THEN win[w]
                     ELSE [win[w] EXCEPT
                             !.proc = None,
                             !.view = IF @ \in loose THEN @ ELSE None]]
        /\ view' = [v \in Views |->
                      IF v \in Owned(p) THEN NoView ELSE view[v]]
        /\ caps' = [v \in Views |-> IF v \in Owned(p) THEN NoPages
                                    ELSE IF v \in loose THEN Cleaned(caps[v])
                                    ELSE caps[v]]
        /\ assoc' = [o \in Objects |-> assoc[o] \ Owned(p)]
        /\ UNCHANGED <<lost, panicked, incidents>>
    BY <1>2 DEF Exit
  <2>2. \A w \in Windows : /\ win[w].proc # p => win'[w] = win[w]
                           /\ win[w].proc = p => win'[w].proc = None
    <3>1. win \in [Windows -> [proc : Procs \cup {None}, start : Nat,
                              size : Nat, view : Views \cup {None}]]
      BY DEF IInv, BindingsAgree, TypeOK
    <3> HIDE DEF loose
    <3> QED
      BY <2>1, <3>1
  <2>3. \A v \in Views : view'[v] = IF v \in Owned(p) THEN NoView ELSE view[v]
    BY <2>1
  <2>4. WindowsKept
    BY <2>2 DEF WindowsKept
  <2>5. \A v \in Views, i \in Pages : caps'[v][i] = Revoked =>
          /\ v \notin Owned(p)
          /\ v \in loose \/ caps[v][i] = Revoked
    <3> HIDE DEF loose
    <3> QED
      BY <2>1, NoneIsApart DEF NoPages
  <2>6. RevokedAreGone'
    <3> SUFFICES ASSUME NEW v \in Views, NEW i \in Pages,
                        caps'[v][i] = Revoked
                 PROVE  view'[v].win # None /\ win'[view'[v].win].proc = None
      BY DEF RevokedAreGone
    <3>1. view'[v] = view[v] /\ (v \in loose \/ caps[v][i] = Revoked)
      BY <2>3, <2>5
    <3>2. view[v].win # None /\ win[view[v].win].proc \in {p, None}
      BY <3>1 DEF SInv, RevokedAreGone
    <3>3. view[v].win \in Windows
      BY <3>2, BindingFacts
    <3> QED
      BY <2>2, <3>1, <3>2, <3>3, NoneIsApart
  <2>7. AllAttached => AllAttached'
    <3> SUFFICES ASSUME AllAttached, NEW v \in Views, view'[v].win # None
                 PROVE  v \in assoc'[view'[v].obj]
      BY DEF AllAttached, Attached
    <3>1. /\ v \notin Owned(p) /\ view'[v] = view[v]
          /\ v \in assoc[view[v].obj]
      BY <2>3 DEF AllAttached, Attached, NoView
    <3>2. view[v].obj \in Objects
      BY <3>1, BindingFacts
    <3> QED
      BY <2>1, <3>1, <3>2
  <2>8. NoOffsets => NoOffsets'
    BY <2>3 DEF NoOffsets, NoView
  <2> QED
    BY <2>1, <2>4, <2>6, <2>7, <2>8, KeptApart DEF SInv
<1> QED
  BY <1>1, <1>2

LEMMA NextSurvives ==
  ASSUME IInv, SInv, [Next]_vars
  PROVE  SInv'
<1>i. IInv'
  BY NextKeeps
<1>1. CASE UNCHANGED vars
  BY <1>1, SameServer DEF vars
<1>2. ASSUME NEW p \in Procs, WindowCreate(p) PROVE SInv'
  BY <1>2, WindowCreateSurvives
<1>3. ASSUME NEW p \in Procs, WindowDestroy(p) PROVE SInv'
  BY <1>3, WindowDestroySurvives
<1>4. ASSUME NEW p \in Procs,
             ObjCreate(p) \/ ObjCreateFails(p) \/ ObjDestroy(p)
      PROVE  SInv'
  BY <1>4, ObjectsSurvive
<1>s. ASSUME NEW p \in Procs, ObjCreateStarves(p) \/ NoHandle(p) PROVE SInv'
  BY <1>s, StopsKeep, StopAfterIncident
<1>6. ASSUME NEW p \in Procs, View(p) PROVE SInv'
  BY <1>i, <1>6, ViewSurvives
<1>7. ASSUME NEW p \in Procs, Unview(p) PROVE SInv'
  BY <1>7, UnviewSurvives
<1>8. ASSUME NEW p \in Procs, FaultFills(p) PROVE SInv'
  BY <1>8, FaultFillsSurvives
<1>9. ASSUME NEW p \in Procs, FaultRemaps(p) PROVE SInv'
  BY <1>9, FaultRemapsSurvives
<1>10. ASSUME NEW p \in Procs, FaultUnanswered(p) PROVE SInv'
  BY <1>10, SameServer DEF FaultUnanswered, vars
<1>11. ASSUME NEW p \in Procs, Exit(p) PROVE SInv'
  BY <1>11, ExitSurvives
<1> QED
  BY <1>1, <1>2, <1>3, <1>4, <1>6, <1>7, <1>8, <1>9, <1>10, <1>11, <1>s
     DEF Next

-----------------------------------------------------------------------------
LEMMA SpecKeepsMemory == Spec => [](IInv /\ MInv)
<1>1. Init => IInv /\ MInv
  BY InitIInv, InitMInv
<1>2. (IInv /\ MInv) /\ [Next]_vars => (IInv /\ MInv)'
  BY NextKeeps, NextKeepsM
<1> QED
  BY <1>1, <1>2, PTL DEF Spec

(* Whatever is created, viewed, filled, destroyed or exits in whatever     *)
(* order, no frame is given to two pages, and the only ones that obj_create*)
(* handle_vm_fault, obj_destroy and process_exit lose are those an EAGER   *)
(* obj_create had taken when generic_allocate_handle failed.               *)
THEOREM EveryFrameHasOneHolder == Spec => []FramesHaveOneHolder
<1>1. IInv /\ MInv => FramesHaveOneHolder
  BY HoldersAreOne
<1> QED
  BY <1>1, SpecKeepsMemory, PTL

(* Two processes never see one frame unless an object with a handle        *)
(* capability holds it, whatever offsets view was given and whether or not *)
(* windows overlap.                                                        *)
THEOREM MemoryIsPrivate == Spec => []SharingIsExplicit
<1>1. IInv /\ MInv => SharingIsExplicit
  BY SharedIsShared
<1> QED
  BY <1>1, SpecKeepsMemory, PTL

(* What a process sees is what the object of its view holds where the      *)
(* addresses it sees it at stand, whatever offsets view was given: nothing *)
(* of a window, view, object or process that is gone stays mapped.         *)
THEOREM MappingsAlwaysBacked == Spec => []MappingsAreBacked
<1> DEFINE J == IInv /\ MInv /\ PagesInPlace
<1>1. Init => J
  BY InitIInv, InitMInv, InitInPlace
<1>2. J /\ [Next]_vars => J'
  BY NextKeeps, NextKeepsM, NextInPlace
<1>3. J => MappingsAreBacked
  BY BackedInPlace
<1> QED
  BY <1>1, <1>2, <1>3, PTL DEF Spec

LEMMA SpecKeepsServer == Spec => [](IInv /\ SInv)
<1>1. Init => IInv /\ SInv
  BY InitIInv, InitSInv
<1>2. (IInv /\ SInv) /\ [Next]_vars => (IInv /\ SInv)'
  BY NextKeeps, NextSurvives
<1> QED
  BY <1>1, <1>2, PTL DEF Spec

(* What overlapping_window gives for the disjoint windows it is meant to:  *)
(* windows of a process that overlap are one inside the other.             *)
THEOREM OverlapsAreNested == Spec => []WindowsNest
<1>1. IInv /\ SInv => WindowsNest
  BY DEF SInv
<1> QED
  BY <1>1, SpecKeepsServer, PTL

(* No calls, faults or exits lead the root server to a todo!(), an         *)
(* unwrap() of None, an expect() or a failed assertion of window.rs,       *)
(* object.rs, view.rs and vm.rs before one of the Incidents has happened.  *)
THEOREM ServerAlwaysSurvives == Spec => []ServerSurvives
<1>1. IInv /\ SInv => ServerSurvives
  BY DEF SInv, ServerSurvives
<1> QED
  BY <1>1, SpecKeepsServer, PTL
=============================================================================
