---------------------------- MODULE AddressSpace ----------------------------
(***************************************************************************)
(* Memory that processes see: windows (window.rs), anonymous memory        *)
(* objects (object.rs), the views that tie an object to a window (view.rs) *)
(* and the VM faults that fill them page by page (vm.rs), as the root      *)
(* server handles them for several processes, together with the part of    *)
(* process_exit that undoes them (proc.rs).                                *)
(*                                                                         *)
(* A page of a process is mapped through a copy, kept in the view, of the  *)
(* capability its object holds.  Deleting the copy unmaps the page, so     *)
(* what is mapped is what the views hold.  Frames come from and go back to *)
(* the frame table, here only a set of free frames (see FrameTable).       *)
(***************************************************************************)
EXTENDS Integers, FiniteSets

CONSTANTS
  Procs,     \* the processes; one that exits is replaced by a fresh one
  PageSize,  \* units of address per page; 1 unless alignment is at stake
  MaxAddr,   \* bound: end of the addresses and offsets considered
  Places,    \* the [start, size] a process asks windows for
  ObjSizes,  \* the sizes it asks objects for
  ViewArgs,  \* the [win_offset, obj_offset, size] it asks views for
  Windows, Objects, Views, \* bounds: identities of live or referenced values
  Frames,    \* bound: the frames of the machine
  Shared,    \* the handle of an object is a handle capability
  Revoked,   \* an entry of a view whose capability was deleted
  None       \* Option::None

ASSUME AddressSpaceAssumption ==
  /\ PageSize \in Nat \ {0} /\ MaxAddr \in Nat
  /\ Places \subseteq [start : Nat, size : Nat \ {0}]
  /\ ObjSizes \subseteq Nat
  /\ ViewArgs \subseteq [win_offset : Nat, obj_offset : Nat, size : Nat]
  /\ Shared \notin Procs \cup {None}
  /\ None \notin Procs \cup Windows \cup Objects \cup Views \cup Frames
  /\ Revoked \notin Frames \cup {None}

Page(a) == a \div PageSize
Pages   == 0 .. Page(MaxAddr)

VARIABLES
  win,    \* Window: owner (None once removed from it), start, size, view
  view,   \* View: bound_window, bound_object, offsets, holder of its handle
  caps,   \* View.caps, by page of the window
  obj,    \* AnonymousMemoryObject: size, and the holder of its handle
  frames, \* AnonymousMemoryObject.frames, by page of the object
  assoc,  \* AnonymousMemoryObject.associated_views
  free,   \* frames on the frame table's free list or never allocated
  lost,   \* history: frames of EAGER objects that found no handle
  panicked, \* a todo!(), unwrap, expect or assertion failed in the root server
  incidents \* history: what has happened so far of Incidents

vars == <<win, view, caps, obj, frames, assoc, free, lost, panicked, incidents>>

(* "window_in_use": a window was destroyed under a view.                   *)
(* "object_in_use": an object was destroyed under a view.                  *)
(* "handles": the caller of view had no free handle.                       *)
(* "offset": a view started behind the start of its window.                *)
(* "enclosing": a window was created around another of its process.        *)
(* "no_handle": a call named an index under which there is no handle.      *)
(* "memory": the frame table had no frame to give.                         *)
Incidents == {"window_in_use", "object_in_use", "handles", "offset",
              "enclosing", "no_handle", "memory"}
Note(kinds) == incidents' = incidents \cup kinds

NoWin   == [proc |-> None, start |-> 0, size |-> 0, view |-> None]
NoView  == [win |-> None, obj |-> None, win_offset |-> 0, obj_offset |-> 0,
            proc |-> None]
NoObj   == [size |-> 0, proc |-> None]
NoPages == [i \in Pages |-> None]

Init ==
  /\ win = [w \in Windows |-> NoWin]
  /\ view = [v \in Views |-> NoView]
  /\ caps = [v \in Views |-> NoPages]
  /\ obj = [o \in Objects |-> NoObj]
  /\ frames = [o \in Objects |-> NoPages]
  /\ assoc = [o \in Objects |-> {}]
  /\ free = Frames
  /\ lost = {}
  /\ panicked = FALSE
  /\ incidents = {}

Panic ==
  /\ panicked' = TRUE
  /\ UNCHANGED <<win, view, caps, obj, frames, assoc, free, lost>>

(* Neither takes the frames of EAGER objects nor returns freed ones.       *)
HeldNone(pages) == Frames \ Frames

(* The frames of an object.                                                *)
Held(pages) == {pages[i] : i \in Pages} \cap Frames

(* A Window or an object is dropped with its last reference, which may be  *)
(* the one in a view.                                                      *)
Unused(w) == win[w].proc = None /\ \A v \in Views : view[v].win # w
UnusedObj(o) == obj[o] = NoObj /\ \A v \in Views : view[v].obj # o

-----------------------------------------------------------------------------
(* Windows.                                                                *)

(* A check of the new window's start only.                                 *)
StartsInside(p, start, size) ==
  \E w \in Windows :
    /\ win[w].proc = p
    /\ win[w].start <= start /\ start < win[w].start + win[w].size

(* overlapping_window: the new window starts or ends inside an old one.    *)
Overlaps(p, start, size) ==
  \E w \in Windows :
    /\ win[w].proc = p
    /\ LET s == win[w].start
           e == win[w].start + win[w].size
       IN \/ s <= start /\ start < e
          \/ s < start + size /\ start + size < e

(* What that does not find: an old window inside the new one.              *)
Encloses(p, start, size) ==
  \E w \in Windows :
    /\ win[w].proc = p
    /\ start < win[w].start
    /\ win[w].start + win[w].size <= start + size

WindowCreate(p) ==
  \E w \in Windows, place \in Places :
    /\ Unused(w)
    /\ place.start % PageSize = 0
    /\ ~Overlaps(p, place.start, place.size)
    /\ Note(IF Encloses(p, place.start, place.size) THEN {"enclosing"} ELSE {})
    /\ win' = [win EXCEPT ![w] = [proc |-> p, start |-> place.start,
                                  size |-> place.size, view |-> None]]
    /\ UNCHANGED <<view, caps, obj, frames, assoc, free, lost, panicked>>

(* A cleanup that only forgets the capabilities, and a view that stays on  *)
(* its object's list.                                                      *)
Uncleaned(pages) == [i \in Pages |-> pages[i]]
StillListed(v) == [o \in Objects |-> assoc[o] \cup ({v} \cap assoc[o])]

(* What cleanup_cap_table leaves behind: the capabilities are deleted but  *)
(* the table still lists them.                                             *)
Cleaned(pages) == [i \in Pages |-> IF pages[i] = None THEN None ELSE Revoked]

(* The lists of views without a view, which is found in that of its object.*)
Delisted(v) == [assoc EXCEPT ![view[v].obj] = @ \ {v}]

(* window_destroy: a bound view loses its pages and leaves its object, but *)
(* its handle stays with whoever made it, and the two stay tied together.  *)
WindowDestroy(p) ==
  \E w \in Windows :
    /\ win[w].proc = p
    /\ LET v == win[w].view IN
       IF v = None
       THEN UNCHANGED <<caps, assoc, incidents>>
       ELSE /\ Note({"window_in_use"})
            /\ assoc' = Delisted(v)
            /\ caps' = [caps EXCEPT ![v] = Cleaned(@)]
    /\ win' = [win EXCEPT ![w].proc = None]
    /\ UNCHANGED <<view, obj, frames, free, lost, panicked>>

-----------------------------------------------------------------------------
(* Objects.  One whose handle is a capability can be passed to others.     *)

(* The pages of an EAGER object of some size: distinct free frames.        *)
EagerPages(size) ==
  {pages \in [Pages -> free \cup {None}] :
     /\ \A i \in Pages : pages[i] # None <=> i < Page(size)
     /\ \A i, j \in Pages : pages[i] # None /\ pages[i] = pages[j] => i = j}

(* Other objects start without frames.                                     *)
ObjCreate(p) ==
  \E o \in Objects, size \in ObjSizes, holder \in {p, Shared} :
    /\ UnusedObj(o)
    /\ size # 0 /\ size % PageSize = 0
    /\ \E pages \in {NoPages} \cup EagerPages(size) :
         /\ frames' = [frames EXCEPT ![o] = pages]
         /\ free' = free \ Held(pages)
    /\ obj' = [obj EXCEPT ![o] = [size |-> size, proc |-> holder]]
    /\ UNCHANGED <<win, view, caps, assoc, lost, panicked, incidents>>

(* EAGER frames are taken before the handle: without a handle the object   *)
(* is dropped, and its frames go nowhere.                                  *)
ObjCreateFails(p) ==
  \E size \in ObjSizes :
    /\ size # 0 /\ size % PageSize = 0
    /\ \E pages \in EagerPages(size) :
         /\ free' = free \ Held(pages)
         /\ lost' = lost \cup Held(pages)
    /\ UNCHANGED <<win, view, caps, obj, frames, assoc, panicked, incidents>>

(* A frame that cannot be had is an expect().                              *)
ObjCreateStarves(p) ==
  /\ \E size \in ObjSizes : /\ size # 0 /\ size % PageSize = 0
                            /\ Cardinality(free) < Page(size)
  /\ Panic /\ Note({"memory"})

MayUseAny(p, o) == obj[o].proc # None \* whoever holds the handle
MayUse(p, o) == obj[o].proc \in {p, Shared}

(* obj_destroy: a todo!() while views remain; without views nothing is     *)
(* revoked, and the frames go back to the frame table.                     *)
ObjDestroy(p) ==
  \E o \in Objects :
    /\ MayUse(p, o)
    /\ IF assoc[o] # {}
       THEN Panic /\ Note({"object_in_use"})
       ELSE /\ free' = free \cup Held(frames[o])
            /\ frames' = [frames EXCEPT ![o] = NoPages]
            /\ obj' = [obj EXCEPT ![o] = NoObj]
            /\ UNCHANGED <<win, view, caps, assoc, lost, panicked, incidents>>

-----------------------------------------------------------------------------
(* Views.                                                                  *)

(* The test view.rs makes for a page-aligned offset: offset & PAGE_SIZE.   *)
PassesAlignment(offset) == Page(offset) % 2 = 0

View(p) ==
  \E v \in Views, w \in Windows, o \in Objects, a \in ViewArgs :
    /\ view[v] = NoView
    /\ win[w].proc = p
    /\ MayUse(p, o)
    /\ a.size # 0
    /\ PassesAlignment(a.win_offset)
    /\ PassesAlignment(a.obj_offset)
    /\ a.obj_offset + a.size <= obj[o].size
    /\ a.win_offset + a.size <= win[w].size
    /\ win[w].view = None
    /\ win' = [win EXCEPT ![w].view = v]
    /\ assoc' = [assoc EXCEPT ![o] = @ \cup {v}]
    \* the handle is allocated last: without one the binding stays behind
    /\ \E holder \in {p, None} :
         /\ view' = [view EXCEPT ![v] =
                       [win |-> w, obj |-> o, win_offset |-> a.win_offset,
                        obj_offset |-> a.obj_offset, proc |-> holder]]
         /\ Note((IF holder = None THEN {"handles"} ELSE {}) \cup
                 (IF a.win_offset > 0 THEN {"offset"} ELSE {}))
    /\ caps' = [caps EXCEPT ![v] = NoPages]
    /\ UNCHANGED <<obj, frames, free, lost, panicked>>

(* The views a process holds handles to; and the object side of a binding, *)
(* which window_destroy may have removed behind the handle's back.         *)
Owned(p) == {v \in Views : view[v].proc = p}
Attached(v) == v \in assoc[view[v].obj]

(* unview drops the handle, and with it the view.                          *)
Dropped(v) == [view EXCEPT ![v] = NoView]

(* unview: a view that its window's destruction already took from the      *)
(* object's list is an unwrap() on None.                                   *)
Unview(p) ==
  \E v \in Owned(p) :
    IF Attached(v)
    THEN /\ win' = [win EXCEPT ![view[v].win].view = None]
         /\ assoc' = Delisted(v)
         /\ view' = Dropped(v)
         /\ caps' = [caps EXCEPT ![v] = NoPages]
         /\ UNCHANGED <<obj, frames, free, lost, panicked, incidents>>
    ELSE Panic /\ UNCHANGED incidents

(* generic_get_handle and get_handle answer Ok for every index of the      *)
(* table: a handle that is gone, or was never given out, is an unwrap() on *)
(* None in window_destroy, obj_destroy, obj_stat, view and unview.         *)
NoHandle(p) == Panic /\ Note({"no_handle"})

-----------------------------------------------------------------------------
(* VM faults.                                                              *)

(* Some window of the process contains the address and has a view.         *)
Resolves(p, a, w) ==
  /\ win[w].proc = p
  /\ win[w].start <= a /\ a < win[w].start + win[w].size
  /\ win[w].view # None

(* The page is already mapped through another view of the process.         *)
Occupied(p, a, w) ==
  \E x \in Windows \ {w} :
    /\ Resolves(p, a, x)
    /\ caps[win[x].view][Page(a - win[x].start)] # None

(* handle_vm_fault on a page the view has no capability for.  The offset   *)
(* into the object is computed from where the view starts, with overflow   *)
(* checks; it is not compared with where the view or the object ends.  A   *)
(* frame that cannot be had is an expect(), and so is a page that is       *)
(* mapped already.                                                         *)
FaultFills(p) ==
  \E a \in 0 .. MaxAddr, w \in Windows :
    /\ Resolves(p, a, w)
    /\ LET v      == win[w].view
           o      == view[v].obj
           offset == a - win[w].start
           i      == Page(view[v].obj_offset + (offset - view[v].win_offset))
       IN /\ caps[v][Page(offset)] = None
          /\ i \in Pages \/ offset < view[v].win_offset
          /\ IF offset < view[v].win_offset
             THEN Panic /\ UNCHANGED incidents
             ELSE IF frames[o][i] = None /\ free = {}
             THEN Panic /\ Note({"memory"})
             ELSE IF Occupied(p, a, w)
             THEN Panic /\ UNCHANGED incidents
             ELSE /\ \E f \in IF frames[o][i] = None THEN free
                              ELSE {frames[o][i]} :
                       /\ frames' = [frames EXCEPT ![o][i] = f]
                       /\ caps' = [caps EXCEPT ![v][Page(offset)] = f]
                       /\ free' = free \ {f}
                  /\ UNCHANGED <<win, view, obj, assoc, lost, panicked,
                                 incidents>>

(* The view has an entry: it is mapped again, which fails if the           *)
(* capability is gone.                                                     *)
FaultRemaps(p) ==
  \E a \in 0 .. MaxAddr, w \in Windows :
    /\ Resolves(p, a, w)
    /\ LET c == caps[win[w].view][Page(a - win[w].start)] IN
       /\ c # None
       /\ IF c = Revoked THEN Panic /\ UNCHANGED incidents
          ELSE UNCHANGED vars

(* Outside every window, or in one without a view, the fault gets no       *)
(* answer: only the faulting thread stops.                                 *)
FaultUnanswered(p) ==
  /\ \E a \in 0 .. MaxAddr : \A w \in Windows : ~Resolves(p, a, w)
  /\ UNCHANGED vars

-----------------------------------------------------------------------------
(* UserProcess::destroy over the handles for windows, objects and views.   *)
(* Its views are undone, and objects held by a local handle are destroyed  *)
(* whatever views they have; those held by a handle capability stay.  A    *)
(* view without a handle is forgotten where it is; its pages go with the   *)
(* address space.                                                          *)
Exit(p) ==
  LET mine == {o \in Objects : obj[o].proc = p}
      loose == {v \in Views : view[v].proc = None /\ view[v].win # None
                              /\ win[view[v].win].proc = p}
  IN
  IF \A v \in Owned(p) : Attached(v)
  THEN /\ win' = [w \in Windows |->
                    IF win[w].proc # p THEN win[w]
                    ELSE [win[w] EXCEPT
                            !.proc = None,
                            !.view = IF @ \in loose THEN @ ELSE None]]
       /\ view' = [v \in Views |-> IF v \in Owned(p) THEN NoView ELSE view[v]]
       /\ caps' = [v \in Views |-> IF v \in Owned(p) THEN NoPages
                                   ELSE IF v \in loose THEN Cleaned(caps[v])
                                   ELSE caps[v]]
       /\ assoc' = [o \in Objects |-> assoc[o] \ Owned(p)]
       /\ obj' = [o \in Objects |-> IF o \in mine THEN NoObj ELSE obj[o]]
       /\ free' = free \cup UNION {Held(frames[o]) : o \in mine}
       /\ frames' = [o \in Objects |->
                       IF o \in mine THEN NoPages ELSE frames[o]]
       /\ UNCHANGED <<lost, panicked, incidents>>
  ELSE Panic /\ UNCHANGED incidents

Next ==
  /\ ~panicked
  /\ \E p \in Procs :
       \/ WindowCreate(p)
       \/ WindowDestroy(p)
       \/ ObjCreate(p)
       \/ ObjCreateFails(p)
       \/ ObjCreateStarves(p)
       \/ ObjDestroy(p)
       \/ View(p)
       \/ Unview(p)
       \/ NoHandle(p)
       \/ FaultFills(p)
       \/ FaultRemaps(p)
       \/ FaultUnanswered(p)
       \/ Exit(p)

Spec == Init /\ [][Next]_vars

-----------------------------------------------------------------------------
TypeOK ==
  /\ win \in [Windows -> [proc : Procs \cup {None}, start : Nat, size : Nat,
                          view : Views \cup {None}]]
  /\ view \in [Views -> [win : Windows \cup {None}, obj : Objects \cup {None},
                         win_offset : Nat, obj_offset : Nat,
                         proc : Procs \cup {None}]]
  /\ \A v \in Views : view[v].win = None => view[v] = NoView
  /\ caps \in [Views -> [Pages -> Frames \cup {None, Revoked}]]
  /\ obj \in [Objects -> [size : Nat, proc : Procs \cup {Shared, None}]]
  /\ frames \in [Objects -> [Pages -> Frames \cup {None}]]
  /\ assoc \in [Objects -> SUBSET Views]
  /\ free \subseteq Frames
  /\ lost \subseteq Frames
  /\ panicked \in BOOLEAN
  /\ incidents \subseteq Incidents

(* The three records of a binding agree: the window's bound_view, the      *)
(* view's bound_window and bound_object, and the object's list of views.   *)
(* obj_destroy, unview and window_destroy each rely on a different one.    *)
BindingsAgree ==
  /\ TypeOK
  /\ \A w \in Windows : win[w].view # None =>
       view[win[w].view].win = w
  /\ \A o \in Objects : \A v \in assoc[o] :
       view[v].obj = o /\ win[view[v].win].view = v
  /\ \A w \in Windows : win[w].proc # None /\ win[w].view # None =>
       win[w].view \in assoc[view[win[w].view].obj]

(* A frame that is free or lost is held by nobody, any other by one page   *)
(* of one object: two objects never share memory, and view, unview,        *)
(* destroy, exit and faults leak no frame.  The only frames lost are those *)
(* an EAGER obj_create took before it found no handle.                     *)
FramesHaveOneHolder ==
  /\ free \cap lost = {}
  /\ \A f \in Frames :
       LET holders == {h \in Objects \X Pages : frames[h[1]][h[2]] = f}
       IN Cardinality(holders) = (IF f \in free \cup lost THEN 0 ELSE 1)

(* The pages of the object that the addresses of a page of a view's window *)
(* stand for: one if the view starts at whole pages, and otherwise two.    *)
Stretch(v, i) ==
  LET first == view[v].obj_offset + (i * PageSize - view[v].win_offset)
  IN Page(first) .. Page(first + PageSize - 1)

(* A page a process can touch shows a frame that the object of its view    *)
(* holds at that place, in a window the process still has: when a window,  *)
(* view, object or process goes away, nothing of it stays mapped, and a    *)
(* frame given to somebody else is never still visible to its old user.    *)
PagesAreBacked ==
  \A v \in Views, i \in Pages : caps[v][i] \in Frames =>
    LET w == view[v].win
        o == view[v].obj
    IN /\ win[w].proc # None /\ win[w].view = v
       /\ i * PageSize < win[w].size
       /\ caps[v][i] \notin free
       /\ \E k \in Stretch(v, i) \cap Pages : caps[v][i] = frames[o][k]

(* Two processes see one frame only through an object whose handle is a    *)
(* capability.                                                             *)
SharingIsExplicit ==
  \A u, v \in Views : \A i, j \in Pages :
    /\ caps[u][i] \in Frames
    /\ caps[u][i] = caps[v][j]
    /\ win[view[u].win].proc # win[view[v].win].proc
    => view[u].obj = view[v].obj /\ obj[view[u].obj].proc = Shared

(* What a process sees is its own and current: every mapping is backed by  *)
(* the object it was made from, and memory is private unless it was        *)
(* shared.                                                                 *)
MappingsAreBacked == PagesAreBacked /\ SharingIsExplicit

(* No sequence of calls, faults and exits stops the root server at a       *)
(* todo!(), unwrap, expect or failed assertion before one of the Incidents *)
(* that can: a window or object destroyed under a view, a view without a   *)
(* handle or behind the start of its window, a window around another, a    *)
(* call that names no handle, or no frame left.                            *)
ServerSurvives == incidents = {} => ~panicked

(* window.rs: "Ensure that the window does not overlap with any other      *)
(* windows".                                                               *)
WindowsDisjoint ==
  \A w, x \in Windows :
    /\ w # x
    /\ win[w].proc # None
    /\ win[w].proc = win[x].proc
    => \/ win[w].start + win[w].size <= win[x].start
       \/ win[x].start + win[x].size <= win[w].start

(* What overlapping_window does ensure: windows of a process that overlap  *)
(* are one inside the other.                                               *)
Inside(w, x) == /\ win[x].start < win[w].start
                /\ win[w].start + win[w].size <= win[x].start + win[x].size

WindowsNest ==
  \A w, x \in Windows :
    /\ w # x
    /\ win[w].proc # None
    /\ win[w].proc = win[x].proc
    => \/ win[w].start + win[w].size <= win[x].start
       \/ win[x].start + win[x].size <= win[w].start
       \/ Inside(w, x)
       \/ Inside(x, w)

(* view.rs: "Ensure that the object is big enough" for the view, so that   *)
(* an object never grows frames beyond its size.                           *)
FramesStayInObject ==
  \A o \in Objects, i \in Pages :
    frames[o][i] # None => i * PageSize < obj[o].size

=============================================================================
