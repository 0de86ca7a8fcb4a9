# A TLA+ verification of smos

smos is a multi-server operating system on seL4, written in Rust
(`src/crates`). A *root server* owns all memory, capabilities, processes and
interrupts and serves one call at a time. Everything else is a user process:
servers (the boot file server, the timer, drivers, virtualisers) publish
*connections*, through which clients call them directly; the root server only
brokers the connection and tells the server, through a shared ring buffer and
a bound notification, when a client goes away or faults on memory the server
manages.

This directory holds TLA+ modules translated from that code, TLC
configurations that check them, and TLAPS proofs. Each definition names its
source lines in the `map` of `PROJECT.json`.

## 1. Inventory

Paths are below `src/crates`; `rs/` stands for `root_server/src/`.

| component | state | operations | who it interacts with | what makes it correct |
|---|---|---|---|---|
| frame table, `rs/frame_table.rs` | an array of entries threaded into a *free* and an *allocated* list; `used`, `capacity`, `byte_length` | `alloc_frame`, `free_frame`, `alloc_device_mem` | objects, ELF loading, DMA; takes untypeds and slots | lists well formed, each frame held once, none lost, whatever allocation fails half way |
| processes, `rs/proc.rs`, `syscall.rs`, `fault.rs` | `PROCS` (pid -> `Rc<ProcessType>`), handle table, stored reply of a waiter | `process_spawn`, `_wait`, `_exit`, badge lookup, `load_complete` | everything a process owns | a pid stands for one process for good; a waiter is answered; nobody outlives its parent |
| windows, `rs/window.rs` | start, size, bound view, registration | `window_create`, `_destroy`, `_register`, `_deregister` | views, faults, the server that registered it | windows of a process do not overlap; destroying one unmaps it |
| memory objects, `rs/object.rs` | two-level table of frames, associated views | `obj_create` (lazy, EAGER, DEVICE, CONTIGUOUS), `_destroy`, `_stat` | frame table, views | frames go back once, and only when nobody sees them |
| views, `rs/view.rs` | two-level table of capability copies, bindings, pending fault | `view`, `unview` | window and object | window, view and object agree on the binding |
| VM faults, `rs/vm.rs`, `mapping.rs` | - (works on the above) | `handle_vm_fault`, `forward_vm_fault`, `page_map` | servers that manage objects | a faulting page shows the right frame; each fault is answered once |
| connections, `rs/connection.rs` | `Server.connections` with their `registered` marks | `conn_publish`, `_create`, `_destroy`, `_register`, `_deregister`, channels | servers, through the ring | a server knows each client it serves and hears of each that vanishes |
| notification buffer, `smos-server/src/ntfn_buffer.rs` | ring with head and tail in a shared page | `enqueue`, `dequeue` | root server -> server | nothing lost, order kept, room assured |
| boot file server, `boot_file_server/src/main.rs` | `CLIENTS`, open objects, views | `conn_open`, `_close`, `obj_open`, `_close`, `view`, notifications, faults | clients, root server | its table agrees with the root server's marks; every call answered |
| handles, `smos-server/src/handle.rs`, `handle_capability.rs` | tables of handles and of handle capabilities | allocate, look up, clean up, badge | all calls | a handle means what it meant when it was made |
| notifications and interrupts, `rs/irq.rs`, `smos-sddf/src/irq_channel.rs` | bits of a server's notification word, bindings of interrupt lines | `irq_register`, channels, signals, the receiving loops, `irq_ack` | kernel, drivers, root server | a bit means one thing; what reaches a running server is dealt with |
| capability space, `rs/cspace.rs` on `bitfield` | two levels of bit fields, watermark | `alloc_slot`, `free_slot` | every allocation | a slot has one user; only a full table fails |
| untyped table, `rs/ut.rs`, `util.rs`, `mapping.rs` | free lists by size, supply of list entries | `alloc`, `free`, `ensure_new_structures`, `alloc_retype`, `map_frame` | every allocation; feeds on itself | memory is split without loss or overlap |
| calls and replies: `smos-common/src/syscall.rs`, `returns.rs`, `error.rs`, `smos-server/src/syscalls.rs`, `event.rs`, `reply.rs` | connection buffers, a server's receive slot | every stub, its decoding, its reply | all clients and servers | a call arrives as it was meant, returns, and leaves the server ready for the next |
| sDDF components: `smos-sddf`, drivers, virtualisers, copiers, `timer`, `echo_server`, `init` | client lists, allocated bits, channel table | publish, the set-up loops, registration, `sddf_set_channel`, event loop | each other, in a chain of servers | channels pair up, devices start last, everybody gets to run |
| clock, `rs/clock.rs` | sorted list of timeouts in an array | register, remove, interrupt | - | each timeout fires once, in order |
| ELF loading, `rs/elf_load.rs`, `smos-loader` | windows and objects of a new process | load, `load_complete` | process creation | segments do not overlap; the loader's memory goes once it is unused |
| DMA pool, bootstrap, FAT, printing, tests | | | | see section 6 |

**Where it is hard.** The root server itself is sequential: main's loop
receives a message, handles it to the end and replies. Difficulty comes from

* *lifetimes*: two references to one thing going out of step (a process is
  reachable through `PROCS` and through its parent's handle; a binding is
  recorded in window, view and object; a connection in the root server, in the
  server and in the client), and sequences of calls that undo them in an order
  nobody planned;
* *concurrency*: servers and clients run between the root server's calls, the
  ring and the signal are not one step, signals merge in one word, a client can
  vanish while the server is in the middle of its `conn_open`;
* *chains of servers*: a server calls the root server from its own handlers, a
  driver's clients are servers themselves, and each blocks on the next;
* *partial failure*: nearly every handler allocates several things in turn and
  unwinds by hand;
* *panics*: `todo!()`, `expect` and `unwrap` stop a server, and in the root
  server's case the system, so "this is never reached" is a property;
* *boundaries*: page and size arithmetic, full tables, full rings.

`PROJECT.json` lists these as `hazards`, each at the line where it bites and
with the properties that watch it.

## 2. Modules

| module | models | instance | theorems |
|---|---|---|---|
| `FramePool` | what `rs/frame_table.rs` promises its callers; abstract, implemented by `FrameTable` | in `MCFrameTable` | |
| `FrameTable` | `rs/frame_table.rs`, and the clean-up of DEVICE pages in `rs/object.rs` | `MCFrameTable` | `FrameTable_proofs` |
| `SlotPool` | what `rs/cspace.rs` promises its callers; abstract, implemented by `SlotTable` | in `MCSlotTable` | |
| `SlotTable` | `rs/cspace.rs` over `bitfield`, and the state `rs/bootstrap.rs` leaves it in | `MCSlotTable` | `SlotsAndCalls_proofs` |
| `UntypedTable` | `rs/ut.rs`, `util.rs`, `map_frame` of `mapping.rs` | `MCUntypedTable` | `UntypedTable_proofs` |
| `Process` | `rs/proc.rs` lifetimes, badge lookup in `syscall.rs` and `fault.rs` | `MCProcess` | `Process_proofs` |
| `Connection` | `rs/connection.rs`, `ntfn_buffer.rs`, the loop of the boot file server | `MCConnection` | `Connection_proofs` |
| `AddressSpace` | `rs/window.rs`, `object.rs`, `view.rs`, `vm.rs`, and `UserProcess::destroy` over them | `MCAddressSpace` | `AddressSpace_proofs` |
| `FaultForwarding` | registered windows: `rs/window.rs`, `forward_vm_fault` and `page_map` of `rs/vm.rs`, views and VM faults of the boot file server | `MCFaultForwarding` | `FaultForwarding_proofs` |
| `Notifications` | `conn_publish` and channels of `rs/connection.rs`, dispatch bits and lines of `rs/irq.rs`, the receiving loops, acknowledgement | `MCNotifications` | `Channels_proofs` |
| `Invocations` | stubs of `smos-common`, decoding and replies of `smos-server`, the loops of the servers | `MCInvocations` | `SlotsAndCalls_proofs` |
| `SddfSetup` | `smos-sddf/src` and the `main.rs` of drivers, virtualisers, copiers, timer, `echo_server` | `MCSddfSetup` | `Channels_proofs` |

Conventions: variables and actions keep the source's names; one action is one
whole handler of the root server, because nothing runs inside it, except where
a handler lets other processes see it half done (`conn_destroy`: the message is
in the ring before the signal is raised; the boot file server's handlers: each
of its own calls to the root server is a step, since the root server may serve
others in between). `panicked` is set where the code reaches a `todo!()`,
`unwrap`, `expect` or assertion, and stops the system. Operators that stand
before the one they resemble and are used nowhere (their comments say "for a
mutant", or which mistake they are) do not belong to the specification: they are
the plausible mistakes the `mutants` of `PROJECT.json` substitute, to
show that the properties notice them.

### FrameTable

`table` holds the links of the entries (`prev`, `next`, `id`) and the headers of
the two lists (`first`, `last`, `length`); references are indices, as in
`FrameRef`. `PopFront`, `PushFront`,
`PushBack` and `RemoveFrame` are the four pointer routines translated field by
field. `HandOut`, `AllocFresh` and the two failing actions are the outcomes of
`alloc_frame`: from the free list, fresh (growing the array when `used =
capacity`), failing while growing (`capacity` unchanged), and failing after.
`holders` counts who holds a frame, which is what the callers of the table
know.
`FreeDevicePage` is what `cleanup_obj_table_inner` does for a page whose
reference is 0. `strayed` is a history variable: it is TRUE once that has
happened.

### FramePool

The promise behind the table: `Take` returns a frame nobody holds, `Make` makes
one when all there are are held, `Give` takes one back. After a stray release
(`Spoil`) nothing is promised but that frames stay made. `FrameTable!Pool` maps
`used` to `made` and `strayed` to `spoilt`, and a failed allocation to a
stutter.

### Process

A reference-counted `ProcessType` is a number `Rc`, `PROCS` is `procs`, the
handle table keeps `Rc`s of children, or `Other` for a handle `destroy` has no
code for. The badge of a thread is the pid of the process it was created with
(`pidOf`). A stored reply is the thread blocked on it (`waiter`); none is ever
sent. `start_process`
is one step that succeeds, or fails and changes nothing here. `ExitToWaiter` is
the exit of a process somebody waits for: `process_exit` builds the waiter's
message with `handle_reply`, which has no case for it, and the root server
panics with the process already destroyed. `ExitStopsServer` is an exit over a
handle `destroy` has no code for, `ExitToZombie` any other. It puts a new `Rc` into `PROCS`, and the
parent's handle keeps the old one: `process_wait` therefore never meets a zombie,
its branch that frees a pid (kept in `Wait`) is dead code, and a pid that has been
given out is not given out again.

### Connection

Clients, one server, and the root server. `conns` is `Server.connections` (never
shortened, as in the code), `held` the client's handle, `ring` and `signalled`
the channel from root server to server, `table` the server's `CLIENTS`. A
client that calls the server queues at `endpoint`. `server` holds the program
counter of the server's loop with the client and registration it works on.
`incidents` is a history variable that records which of five circumstances has
occurred: a client vanished without `conn_close`, it did so with open handles,
a pid connected again, a handle table was full, a shared buffer was refused.
Properties that need *orderly* clients are stated under it, so that the same
run also explores everything that happens after.

### AddressSpace

`win`, `view`, `obj` are the three records; `caps` and `frames` the two
two-level tables as functions of the page; `assoc` an object's list of views.
What is mapped is what `caps` holds, because deleting a capability copy unmaps
the page. `Exit` is the loop of `UserProcess::destroy` over windows, views and
objects. An EAGER `obj_create` takes its frames before its handle
(`EagerPages`): without a handle the object is dropped and its frames are on no
list any more (`ObjCreateFails`, the history variable `lost`), and a frame that is
not to be had is an `expect` (`ObjCreateStarves`, and `FaultFills` for a fault).
`NoHandle` is a call that names an index with nothing under it, which the lookup
returns as `Ok(&None)` and the handler unwraps. `incidents` records what has
happened: a window or object was destroyed under a view, `view` found no handle, a
view started behind its window's start, a window was put around another, a call
named no handle, or the frames ran out.

### FaultForwarding

The second actor of a fault. `win` and `reg` are the root server's windows and
the views it makes for `window_register`; `reg[r].pending` is `pending_fault`.
`table` is the boot file server's `CLIENTS` with the view each handle stands
for. A fault in a registered window whose page is missing (`FaultForwards`)
appends a message to `ring`, signals, and blocks its thread; `Drain` reads a
message, finds client, handle and view, and `PageMap` is the call that adds the
page and answers the pending fault. `pages` holds what the view keeps, `seen`
what the process has mapped, both as pages of the file. The server's local work
after a call to the root server is joined with the call, since nobody sees it
before the reply; the choice of the handle (`ViewArrives`) and the registration
that names it (`Register`) are two steps, between which clients fault and call.

### SlotTable and SlotPool

`cspace.top` and `cspace.bot` are the bit fields of the two levels, each the set
of its bits that are set. `Bootstrapped` is what `smos_bootstrap` records of the
slots it used: it marks the CNodes it filled, but because an inner loop's index
hides the outer's, not all of those CNodes' own bits. `Alloc` is `alloc_slot`
with its four outcomes: a slot; `ensure_levels`, which is a `todo!()`
("panic"); a CNode with no free bit that is not marked ("stuck"); and the last
bit taken before the search for the next one fails ("spent"). A CNode is marked
full one slot early, which makes the last two impossible except in a CNode that
bootstrap itself left at the brim. `SlotPool` has a set of used slots and three
actions; `SlotTable!PoolSpec` maps what bootstrap used and what is handed out to
`used`.

### UntypedTable

A structure `UT` is a number, `head` and `next` the lists by size and the list of
spares. An allocation in progress (`call`) goes up to the nearest size that has
something (`AllocBegins`), then splits it down one size at a time (`Split`);
between two splits it may run out of spares and turn a page into structures
(`EnsureStructures`), taking from the lists the call is working on. Each failure is an
action of its own, with what it leaves behind in `lost`. `parent` and `live` are
what the kernel knows: what was split from what, and which untypeds have
children, so that a retype it would refuse is visible ("retype").

### Notifications

For each server, `source` says what each bit of its dispatch is allocated to,
`told` the bits it knows of, `opened` the bits whose channel a peer has opened.
`word` is the kernel's notification word, `taken` what the server's loop has
received and not yet gone through, `masked` the lines that fired and were not
acknowledged. Two kinds of server: the boot file server's loop empties its ring
at bit 0; sDDF components ignore what arrives while they set up (`Ignore`,
`dropped`), then pass each bit to their channel table. `Publish`, `IrqRegister`
and their failures come from the handlers; so does the panic of `conn_publish`'s
unwinding (`rootDown`).

### Invocations

One call from stub to stub. `Stubs` is the table of what each stub sends and
reads, `Decode` what `SMOS_Invocation::new` and the argument functions make of
the registers and of the capability that came along, `HandleReply` and
`HandleError` the encoding of the answer and `Unpacked` its decoding; the two
sides are written in different crates, so each table is translated from its own
file. `slot` and `home` are the receive slot of a server and whether its IPC
buffer names it; `StubSends` moves the pointer when a handler's own call wants a
capability back, `Cleanup` is what resets it. What a handler does is left to the
other modules: it succeeds, returns any error or, where its source can, panics
(`HandlerPanics`: it unwraps an empty handle, expects a call of its own to
succeed, or meets a `todo!()` such as that of `obj_close` with views), and calls
the root server as its source says (`Nested`). `panicked` records the call a
server stopped at and which of four reasons it had (`StopsFor`). The names of the
specification (`CallInit`, `CallNext`, `CallSpec`) differ from the other modules' because one module of proofs extends it
and `SlotTable`.

### SddfSetup

Each component goes from `serving` (its pre-init loop, until it has the clients
its kind wants) through `calling` (the servers behind it, in the order of its
`main`) to `running`. `Script` lists the calls of a client of each kind; `Serve`
is the handler, `ServeDies` each of its `unwrap`s and `expect`s; among them the
`unwrap` of a client that the copier and the timer do not have after a first
`conn_open` they refused for its shared buffer (`Unwraps`; unruly clients bring
one, `Buffers`), and `Interrupted` the same after an interrupt before the timer's
first client. `Drops` is the
event loop that leaves a late caller without an answer, `Protected` the
protected call of a running client. `bits` are the allocated bits of a
notification in the order of allocation, `chans` and `table` the channels made
and filed (`SetChannels`). The specification is `SetupSpec`, its parts are
`SetupInit` and `SetupNext`, because one module of proofs extends it and
`Notifications`.

## 3. Runs

| run | bounds | what it shows |
|---|---|---|
| `frames` | 5 frames, 2 entries added per growth, up to 2 holders counted | `TableInv` (types, `ListInv`, `NoFrameLost`), `ListsAreChains` and `ImplementsPool` in every interleaving of allocation, failure, free and stray free; `ExclusiveOwnership` until a DEVICE page strays |
| `slots` | 4 CNodes of 4 slots, 3 CNodes to a bookkeeping page, 1 watermark slot, five places where bootstrap stops | `FailsWhenFull`; `PoolSpec` |
| `untyped` | 3 pages, 3 sizes, 3 structures to a page, up to 2 page tables per mapping | `ListsAreApart`, `NothingForgotten`, `NoOverlap` |
| `processes` | 4 pids, 2 handles, 8 Rcs | a pid is given to one process only, callers are found as themselves (`PidsAreSpent`); no orphans (`NoOrphans`) |
| `process_lost_waiter` | 3 pids, 4 Rcs | **violation**: a wait is not answered, in either order of wait and exit |
| `connections` | 3 clients, 3 connections, room for 2 clients, ring of 2, 1 object each | `NoLostWakeup` always; `NobodyPanics`, `RegistrationsMatch` and (liveness) `GhostsAreForgotten` for orderly clients; (liveness) `CallsAreAnswered` unless somebody panics |
| `connections_reconnect` | 2 clients | **violation**: the second connection of a pid is registered on the first, dead one |
| `address_space` | 2 processes, 2 windows, objects, views, frames, 5 addresses | `BindingsAgree`, `FramesHaveOneHolder` (frames are lost only by an EAGER `obj_create` without a handle), `MappingsAreBacked` always; `ServerSurvives` until an incident |
| `faults` | 2 processes, 2 windows of 2 pages, 2 registrations, 2 handles, ring of 2 | until a first incident: `RecordsAgree` (and nobody panics), `FaultsAreOwed`, `PagesAreRight`, and (liveness) `FaultsAreAnswered` |
| `notifications` | the boot file server and a driver, 2 lines, 3 bits, ring of 2 | `BitsTellTheirSource`, `MaskedLinesAreOwed`; (liveness) `InterruptsAreAcknowledged`, `BuffersAreRead` |
| `invocations` | the root server, the boot file server, an sDDF server and 1 application; up to 2 nested calls | `ArrivesAsMeant`, `ReadyForTheNext`, `RepliesFit`, `StopsAreHandlersOwn`; (liveness) `CallsReturn` |
| `sddf_setup` | init's ten components and a late client, with one failing call; its network and serial halves with calls at any time; each kind of server with a client that keeps to no order (6 calls) | `NobodyPanics`, `ChannelsPairUp`, `DevicesStartLast`, `DeathsAreOwn`; (liveness) `EverybodyRuns` |

The exact values are in the `.cfg` files. Why they are enough:

* *frames*: list operations tell apart an empty list, its only element, an
  end and the middle; five frames give each of them on both lists at once, and
  the array grows three times, the last time in part.
* *slots*: bootstrap stops inside the first CNode, at its brim, at its end, in
  the second and in the third, so that a filled CNode whose bits are set and one
  whose bits are not both exist; four slots tell the last, the last but one and
  the others apart. The proofs of section 5 cover every other size.
* *untyped*: three sizes make an allocation split twice; three structures to a
  page run out in the middle of an allocation, so that the table feeds on the
  list being split; three pages let two pages become structures and one be used.
* *processes*: two handles let a table be full with two children or with a child
  and something else; four pids let there be a grandchild too, children exit with
  their pids spent, and a spawn find none left. A process takes one `Rc` and its
  exit to a zombie another, so that the bound of eight is never what stops a step.
* *connections*: two clients fill the server's table and the ring, the third is
  refused; three connections allow one pid to come back. `MaxConns` bounds the
  run, hence no deadlock check.
* *address_space*: two processes to share, two windows to be disjoint or overlap
  in each way the test tells apart (`SidePlaces`), two of everything else to be
  confused with each other; two frames so that freed memory is reused at once.
  Windows, views, objects, frames and processes are symmetric.
* *faults*: two clients whose messages mix in the ring, each able to register,
  undo and register again with the other's message in flight; two handles so
  that a handle can be reused while another is in use; one view that fills its
  window and shows a later part of the file, and one that starts behind its
  window's start. `StopAtIncident` ends the exploration where an incident has
  happened: incidents stay, and every property is conditional on there being
  none. The ring holds one message for each thread, the most there can be.
* *notifications*: three bits hold the root server, a line and a channel, or two
  lines, and run out; two lines can fire in one word and in two; a ring of two
  can be filled by messages under one setting of the bit.
* *invocations*: two of the three servers call the third, so that a capability
  can travel, be refused or be left behind while another call is under way; the
  servers compete with the application for the root server. A handler makes at
  most two calls: the second meets what the first has done to the receive slot.
* *sddf_setup*: the whole system as `init` starts it, with its priorities, and
  once without them, in halves because everything else is independent between
  network and serial; one failing call wherever one can fail. Six calls are more
  than any script has.

Deadlock is not checked in the runs whose system may stop: a component has
panicked, memory or a bound of the model is used up, or everybody waits for a
client that need not call.

**Further configurations.** Six `.cfg` files without a run of their own in
`PROJECT.json` show what the runs above leave out by their conditions; each ends
in a violation. `MCFrameTable_device_owner`: a DEVICE or CONTIGUOUS object frees
frame 0 under its holder. `MCConnection_handles`: a full handle table at
`conn_register` stops the server later. `MCAddressSpace_nested`: a window that
encloses another is accepted. `MCAddressSpace_beyond`: a fault behind the end of
a view grows the object. `MCFaultForwarding_behind`: the first page behind a
view is supplied. `MCNotifications_unbind`: the unwinding of `conn_publish`
stops the root server.

**Fairness.** `Connection` assumes that the
root server finishes a call it has begun (`WF` of `Signal`: main's loop does
nothing else in between) and that the server's loop keeps running (`WF` of
`ServerNext`: an endless loop in a scheduled thread); `FaultForwarding` the
latter only, its root server calls being parts of the server's steps.
`Notifications` assumes that a running server is scheduled: `WF` of `Receive`
and of `Notified`; seL4 delivers a bound notification before a queued call, and
nothing is assumed of devices, peers or the root server. `Invocations` has `WF`
of the end of each handler, and `SF` of receiving each caller: the queue of an
endpoint is FIFO, so that a caller is not overtaken for ever, but the server is
not always waiting. `SddfSetup` has `WF` of each component's next step and of
its attention to somebody's call: priorities differ, but every thread blocks
when it has nothing to do, on one processor. Nothing is assumed of applications
anywhere: they may stop, and a failing call or a panic may come at any time.

## 4. What the runs found

The two violation runs state what a comment of the code says; the `findings` of
`PROJECT.json` quote it.

* `process_lost_waiter`: a wait that comes before the exit stops the root server
  (`handle_reply` has no case for its answer, `smos-server/src/reply.rs:208`); a
  wait that comes after it blocks for ever, because the zombie in the process
  table is not the `Rc` the parent's handle holds (`proc.rs:1161`).
* `connections_reconnect`: `conn_register` takes the first connection with a pid
  (`connection.rs:79`), dead or not.

The further configurations of section 3 show, in short: reference 0 of DEVICE
and CONTIGUOUS pages is freed as if it were a frame (`object.rs:180`);
`conn_register` sets its mark before it may fail (`connection.rs:81`);
`overlapping_window` misses an enclosing window (`proc.rs:230`); a fault is not
bounded by its view (`vm.rs:286`); the boot file server tests the end of a view
with `>` and supplies the page behind it (`main.rs:475`); `conn_publish` destroys
a notification it has still to unbind (`connection.rs:393`).

Facts that became conditions of properties, and are stated there: an
allocation of a slot fails half-way only where bootstrap stopped one slot short of
the end of a CNode (`FailsWhenFull`); `ensure_new_structures` and `map_frame`
keep an untyped when they fail (`NothingForgotten`); an interrupt that arrives
while a driver sets up, or whose handle could not be allocated, stays masked
(`MaskedLinesAreOwed`); a pid is spent for good (`PidsAreSpent`); an EAGER
`obj_create` that finds no handle loses its frames (`FramesHaveOneHolder`); a call
that names an empty index of a handle table stops the server called where its
handler unwraps what it looked up (`ServerSurvives`, `StopsAreHandlersOwn`); a
first `conn_open` with a shared buffer stops the copier or the timer
(`DeathsAreOwn`); test_simple, obj_open and obj_close on the root server,
obj_create and obj_destroy on the boot file server, conn_close on an sDDF server,
and `view` on the root server with somebody else's window stop the server called
(`StopsAreHandlersOwn`); a client that arrives at an sDDF server after its
set-up waits for ever (`Drops`), and the timer has room for one client
(`TimerChannel`).

## 5. What is proved

TLAPS checks the following for every value of the constants that satisfies the
modules' assumptions. A theorem that needs more than those has it as a named
hypothesis, explained with it.

**`FrameTable_proofs`.** The inductive invariant is
`TableInv /\ Acyclic(table)`. `TableInv` is `TypeOK /\ ListInv /\ NoFrameLost`:
`prev` and `next` are mutual, heads and tails are the ends, counts are right, and
every frame is on the list its entry names. A pointer routine keeps `ListInv`
only if every entry it reaches is in the table and on the list (`NoFrameLost`),
and `NoFrameLost` needs the head of a non-empty list to be a member (`ListInv`).
None of it excludes a ring beside the list, so `Acyclic` adds that some rank of
the entries goes up along `next`; each routine says how the rank changes. There is
a lemma for each routine and a step for each action.

* `FrameTableSound`: `Spec => []TableInv`.
* `FramesHaveOneOwner`: `Spec => []ExclusiveOwnership`: a frame leaves the
  allocated list only with its holder, unless a DEVICE page strays.
* `TableIsAPool`: `Spec => ImplementsPool`, the refinement. `alloc_frame` makes a
  frame when the free list's `first` is None, and the pool allows that only if
  every frame is held: the member of least rank has no predecessor, so that a list
  without a first has no member.
* `ListsAlwaysAreChains`: `Spec => []ListsAreChains`: following `next` from
  `first` meets every member once and ends. Ranks go up along the walk, so by the
  pigeonhole principle it ends; and a member it missed would have a predecessor
  it missed, of lower rank.

**`SlotsAndCalls_proofs`**, on slots. This module has the proofs of `SlotTable` and
of `Invocations`. The inductive invariant of the former says where the bits may be
trusted: every CNode bootstrap filled is marked, so it is never searched
(`FilledAreMarked`); from the CNode bootstrap stopped in upwards a bit is set
exactly when its slot is in use (`BitsAreRight`), but for the last bit of a CNode
left at the brim; a mark says that all bits but the last are set, and no mark that
one of them is not (`MarksAreRight`); nobody owns a slot of bootstrap's or the
last of a CNode (`OwnedAreOwn`), so that freeing never clears a mark below. Slots
and bits are related by three lemmas about division; the first free bit exists by
the least-number principle.

* `SlotTableSound`, `NoSlotIsHandedOutTwice`, `AllocFailsWhenFull`:
  `Spec => []IInv`, `[]NoSlotTwice`, `[]FailsWhenFull`.
* `SlotTableIsAPool`: `Spec => PoolSpec`, the refinement: each outcome of
  `alloc_slot` is `SlotPool!Alloc` or `Refuse`, `free_slot` is `Free`.

**`SlotsAndCalls_proofs`**, on calls. A receive slot is empty for the next call
only if clean-up recognises every call that filled it, and clean-up looks at the
arguments as they were decoded. So the proof follows a call from its stub: what
its arguments can be (`ArgShapes`), in which order its capabilities travel
(`CapsOf`), what the kernel makes of them if the slot is empty and in place
(`NothingDelivered`, `OneDelivered`, `TwoDelivered`), and that each decoding then
refuses or sees each argument as it was meant, with a wrapped one exactly if the
slot was filled, by a call that `contains_cap` knows (`DecodesFaithfully`, over
`PlainIsFaithful`, `SingleIsFaithful`, `ViewIsFaithful`). The invariant `CallIInv` is
the types, equal records of each connection on both sides, `RepliesFit`,
`StopsAreHandlersOwn`, that whoever waits in a call made one its connection
offers and its state allows (`CallsAreOrderly`), and that a server is either as the
call it handles left it (`HandledAsMeant`) or has its slot empty and in place
(`AtRest`). That handlers may move the IPC buffer away needs that only calls of
`contains_cap` make nested calls that name a slot (`NestedCalls`). The two ends of a
reply are compared operation by operation (`ReplyFitsStub`, `LabelTellsError`).

* `EveryCallFindsAServerReady`, `EveryCallArrivesAsMeant`, `EveryReplyFitsItsStub`,
  `DecodingStopsNoServer`: `CallSpec => []ReadyForTheNext`,
  `[]ArrivesAsMeant`, `[]RepliesFit`, `[]StopsAreHandlersOwn`, for any number of
  clients and any number of calls from within a handler (the run has one client and
  two such calls).

**`UntypedTable_proofs`.** The code records nowhere what a structure is for, so
the inductive invariant says that a record could be kept: there is a function from
structures to places (a list, held, under a table, lost, in a call, split up, not
yet made) that agrees with the holders (`Holdings`), with the parents
(`Families`), with the sizes (`Sized`), with the kernel (`Unused`) and with the
number made (`Counted`), and by which every list is a stack: its structures have
positions from 1 up, `head` is the highest, and `next` leads to the position
below. Pushing what is on no list and popping keep stacks (`PushStacks`,
`PopStacks`), and each action is a few pushes and pops with a new place for what
it moved; the pages that become structures are pushed one after the other, by
induction on their number. That `made` never passes `MaxUT` is part of it: only
whole pages of those at the start become structures (`PagesAreFew`).

* `ListsStayApart`: `Spec => []ListsAreApart`. Positions go down along the links,
  so that a walk of as many steps as there are structures has come to the end
  (`ListsAreFollowed`).
* `NothingIsForgotten`: `Spec => []NothingForgotten`, by the places.
* `NothingOverlaps`: `Spec => []NoOverlap`. An ancestor is somebody's parent, hence
  split up, hence not whole.

**`Process_proofs`.** `IInv` is the type invariant with `PidsAreSpent`,
`NoOrphans`, `Unborn` and `HandlesAreActive`. No part is inductive alone: that a
process stays under its pid needs that a wait frees no entry, which is
`HandlesAreActive` (handles refer to `Rc`s made as processes, never to a zombie);
that pids differ needs that an entry with a zombie is not free; a parent leaves no
orphan only if the process its exit destroys is the one whose thread calls, which
is `PidsAreSpent` again; and `Rc`s not yet created (`Unborn`) must not be
anybody's. There is one lemma per action, with `Departs` for what the two exits
share.

* `ProcessesSound`: `Spec => []IInv`, and its parts `PidsAlwaysSpent` and
  `NeverOrphans`: `Spec => []PidsAreSpent`, `Spec => []NoOrphans`.

**`Channels_proofs`, `Notifications`.** `BitsTellTheirSource` and `MaskedLinesAreOwed` support
each other: that a masked line is owed survives the allocation of another bit only
because a bit that is bound is not free, and what is acknowledged is the right
line only because its bit is its own. Beside the types they need that a server not
yet published has no bits (`UnpublishedHaveNone`: its first is bit 0) and that
only bound lines are masked (`MaskedAreBound`). One lemma per action, with
`SettingKeeps` for the three that set a bit and `AllocatingKeepsBits` for those
that allocate one.

* `NotificationsSound`, `BitsAlwaysTellTheirSource`, `MaskedLinesAlwaysOwed`.

**`Channels_proofs`, `SddfSetup`.** For every set of systems that satisfies
`SetupAssumption`: who calls whom is the order in which init spawns (`IsBootable`);
calls may fail, and clients be unruly. `SetupInv` says where each component is and
what it may therefore have: a call is the one its place in the script asks for
(`CallIsDue`), a record that has queues has a channel (`RecordsAreSound`), the
copier and the timer, which take whoever calls for their one client, have the
client that calls (`SoleClient`, without which their handlers would write into the
record of another), and the bits of a component's channels are its own and
different (`BitsAreOwn`, also of the bit a call in flight has reserved). One lemma
per action; `Same` and `OneMoves` carry the components that do not move.

* `SetupStaysSound`: `SetupSpec => []SetupInv`.
* `SetupDeathsAreOwn`: `SetupSpec => DeathsAreOwn`. It takes that channels can be
  set whenever all calls are made (`ChannelsCanBeSet`), which is what the bits are
  followed for, and has the copier's and the timer's `unwrap` after a refused first
  open among the causes it allows.
* `SetupStartsDevicesLast`: `SetupSpec /\ IsUncrowded(sys) => []DevicesStartLast`.
  `IsUncrowded` says that init spawns nobody a server has no place for, except a
  client after the one that is to be served; the module of the run checks that
  every system it spawns has it. A record is of one who has started
  (`UsersHaveStarted`), a driver's records are of different types
  (`VirtsDiffer`), and a server that goes on has filled its places: a client it
  is still to have would be one too many.
* `SetupChannelsPairUp`: `SetupSpec => []ChannelsPairUp`. `PairInv` relates what a
  client has to its servers' records while both change: each channel of a client,
  and the one whose answer it has not read yet (`Known`), has a record that fits
  it, and each record with a channel is of a channel its client knows (`Meets`).
  What makes this inductive is that a client asks each server for one channel only
  (`AskedOnce`), so that no record is ever overwritten; this in turn rests on how
  far in its links the client is (`Reached`). `BitsAreUsed` adds that no bit is
  forgotten where nobody is unruly.
* `SetupNobodyPanics`: `SetupSpec /\ IsUncrowded(sys) /\ IsMatched(sys) =>
  []NobodyPanics`. `IsMatched` says that all who are spawned do their part, and that
  a driver is called once as each type of virtualiser; the module of the run checks
  that all init spawns is so, and its network half alone. `CalmInv` ties each
  server's record to its client's place in the script: `Progress` counts the calls
  that have been served, `RecordFollows` says what the record holds after so many,
  and `HoldsNoMore` that a server holds no type and no data window but those of its
  records. From that every call finds its server in its loop (`ServersAreServing`:
  one that has left it has complete records only, and a client that still calls has
  an incomplete one or none), with room (`ThereIsRoom`), foreseen and accepted
  (`CallsAreForeseen`, `CallsAreAccepted`); and only the timer is called later,
  after it has left its loop (`LateCallers`).

**`Connection_proofs`.** `NoLostWakeup` is inductive as it stands: a message enters
the ring only while the root server still owes the signal, and the server spends
its notification only in the loop that leaves the ring empty. The other two
theorems rest on an invariant in two halves: `SInv` holds whatever clients do (who
is in a call, whom the server answers, who holds a reply), `OInv` as long as they
are orderly (nobody has panicked, a mark is for a client the server knows or is
busy with, or left over from one that vanished, and a client that is gone but known
has one message coming). That the ring is never full when a client vanishes is a
matter of counting: each message is for a client of its own, so `RingHoldsAll`
(`MaxClients <= NtfnCapacity`) is their hypothesis. The code has it: 16 clients
(`boot_file_server/src/main.rs:116`) and a ring of 64
(`smos-server/src/ntfn_buffer.rs:8`).

* `NoWakeupIsLost`: `Spec => []NoLostWakeup`.
* `OrderlyClientsPanicNobody`, `RegistrationsAlwaysMatch`:
  `Spec => []NobodyPanics`, `Spec => []RegistrationsMatch`.

**`AddressSpace_proofs`.** `BindingsAgree` is strengthened in two ways: a view on
its object's list whose handle is held lies in a window of the holder
(`AttachedAreAtHome`), since otherwise a process that exits would leave its own
views in other processes' windows; and a view with a window has an object
(`ViewsAreWhole`). Frames are counted by who holds them, mappings by the view that
made them. One lemma per action; `PanicKeeps` serves every `todo!()` and `unwrap`,
`SameBindings` every step that moves only frames and pages.

* `BindingsAlwaysAgree`, `EveryFrameHasOneHolder`: `Spec => []BindingsAgree`,
  `Spec => []FramesHaveOneHolder`.
* `MemoryIsPrivate`: `Spec => []SharingIsExplicit`: two processes see a frame only
  through an object with a handle capability.
* `MappingsAlwaysBacked`: `Spec => []MappingsAreBacked`, whatever windows overlap
  and for offsets inside a page too, which `view` lets through (`view.rs:206` tests
  bit 12): the addresses of one page then stand for parts of two pages of the
  object (`Stretch`), and what is mapped is one of them.
* `OverlapsAreNested`: `Spec => []WindowsNest`. `overlapping_window` does not keep
  windows apart; what it promises is that two that overlap are one strictly inside
  the other.
* `ServerAlwaysSurvives`: `Spec => []ServerSurvives`, without a hypothesis: until
  one of the incidents no window encloses another, so that windows are disjoint and
  no page is mapped twice, and every view starts where its window does.

**`FaultForwarding_proofs`.** Again two halves: `SInv` always (types, the calls in
progress, what the file server is doing, a thread that waits for one fault, a
window bound to a registration made for it), `OInv` until an incident (nobody has
panicked; the server's view table and the root server's registrations name each
other; what a window is bound to is in the table; pages hold what the file says;
every thread that waits for a fault has one message on its way, and every message
such a thread). `RingHoldsAll`: the ring has room for one message of each process.
The code has it: 64 processes at most, the server among them
(`root_server/src/proc.rs:35`), and a ring of 64.

* `RecordsAlwaysAgree`, `FaultsAlwaysOwed`, `PagesAlwaysRight`:
  `Spec => []RecordsAgree`, `[]FaultsAreOwed`, `[]PagesAreRight`.

The proofs rest on the assumptions about constants named in the modules they are
about (positive bounds, markers that are different from each other and from what
they mark, bootstrap leaving at least one slot), on the hypotheses named above,
and on nothing else. Where a proof is by induction on a number (steps of a walk,
pages that become structures), the induction is over a set of numbers and from the
least-number principle (`NumbersAreReached`).

Only model-checked: `NobodyPanics` of `SddfSetup` where strangers are spawned too
(the late client); liveness
(`InterruptsAreAcknowledged`, `BuffersAreRead`, `GhostsAreForgotten`,
`CallsAreAnswered`, `FaultsAreAnswered`, `CallsReturn`, `EverybodyRuns`), which is
out of the prover's reach; and the properties that runs refute.

## 6. What is not modelled

Simplifications inside the modules:

* `start_process` is atomic; neither its unwinding (`proc.rs:684`) nor the slots
  that each exit leaves behind (`proc.rs:207`) are modelled.
* Where windows overlap (which `MCAddressSpace_nested` shows possible) the
  window of a fault is any that contains the address and has a view; the code
  takes the first in handle order.
* Objects are shared through handle capabilities, windows and connections are
  not.
* Arithmetic is checked, as in the development profile: an underflow panics.
* The alignment test of `view` (`offset & PAGE_SIZE_4K`) refuses every odd page and
  lets offsets inside a page through (`PassesAlignment`); the run has whole pages
  only, the theorems of section 5 hold for both.
* A thread that faults where nothing is mapped stops; the root server leaves it
  without a reply.
* `FaultForwarding`: a process has one thread; `forward_vm_fault` is one step,
  since the answer needs what it writes last; `conn_open` and `conn_close` are
  reduced to the table of handles, and clients that vanish are in `Connection`
  only; `page_map`'s source page (in the server's own window on the file) stands
  for a page of the file; a client only views windows that are live when it
  calls.

* `SlotTable`: `ensure_levels` is a `todo!()` and stops the model as it stops the
  root server. A process's own capability space (`UserCSpace`) has one level.
* `UntypedTable`: `alloc_slot` succeeds or fails freely; device untypeds are
  found by address and never freed.
* `Notifications`: the root server's own dispatch never has a handler, because
  the only registration is commented out (`clock.rs:194`), so that the loop of
  `handle_irq` (`irq.rs:89`) never meets a bit. A peer signals only channels it
  has opened; what `init()` and `notified()` of a component do is C code outside
  the tree.
* `Invocations`: the values in registers are left out but for their kind
  (handle, capability of the called server, other capability); handlers are
  nondeterministic in their errors; a client's own connection state is one
  status per server.
* `SddfSetup`: queues and data regions count by their presence and size. The
  queues' contents are the sDDF library's (`sddf`, a submodule that is empty in this
  tree).

Not modelled, with reasons in `components`:

* the clock's list of timeouts: main registers one at start-up, and the
  interrupt that would look at it is never registered;
* `load_complete` and ELF loading: the windows and objects it makes are made by
  the handlers of `AddressSpace`; the elf crate parses;
* bootstrap but for what it leaves in the capability space: it runs once, alone;
* the DMA pool: a bump allocator that frees nothing;
* FAT, printing, tests, the runtime's start-up, `test_app`; the contents of files
  and of `obj_stat`.

Three hazards have no property for these reasons: the unwinding of
`start_process`, offsets inside a page in the boot file server's `page_map`, and
objects whose frames are lent by `page_map` without a view of their own.

## 7. Plan

What is left, in order.

1. The chain of allocations in `start_process` with its unwinding, and
   `load_complete`; the property is that nothing leaks from any failure but what
   `proc.rs` is known to leak.
2. The source page of `page_map` in `AddressSpace`, with offsets inside a page.
3. `ut.rs` over `cspace.rs`: one composition in place of a free choice of
   failure.

## 8. Running

`tlc -config MCConnection.cfg MCConnection` and likewise for each `.cfg` (its
module is the part before the first underscore); `tlapm` on
each `..._proofs.tla` for the proofs.
