# 2ksbox in TLA+

2ksbox runs old Windows machines: a fork of QEMU linked into a player as a
library (`embed/`), the player's core (`player-core/`) around it, two front ends
(`player/` on winit, `player-mitsuami/` native), a launcher, and the devices and
guest programs the machines use. This directory models the parts where the
program's own difficulty lies. The first is the boundary between QEMU's threads
and the player's. Four kinds of traffic cross it, each with threads on both ends
and no common clock: pictures out, input in, sound out, and the handle itself,
which one thread frees while others may hold it. The second is the paravirtual
display adapter with the drivers it is written for: what of VRAM is on screen,
when a flip and its fence are done, and how a Direct3D record gets from a Windows
7 process to an executor that may be another process of the host.

## 1. The system's parts

| part | state it keeps | operations | what is hard |
| --- | --- | --- | --- |
| display path (`player-core/src/qemu_vm.rs`, `gpu.rs`, `session.rs`) | the copy of the guest's surface and its dirty rectangle; the published frame, its pending rectangle and sequence number; 3D slots; the upload texture | QEMU's display callbacks, the 3D backend's callbacks on the vCPU thread, the render thread's take | partial copies and partial uploads across resizes, readbacks, sprites; two deadlines (1 s, 1.5 s) |
| input path (`input.rs`, `pad.rs`, `embed/libqemu_embed.c`) | keys held, the chord, the pad's keys; a queue of 512 events, a flag for the scheduled bottom half | keys, chord, focus, pad polls; enqueue, flush, drain | a queue that drops, a drain that falls between two calls, three sources pressing the same keys |
| machine lifecycle (`qemu_vm.rs` start, `session.rs`, `clipboard.rs`, `qmp.rs`) | the raw handle, `stopped`, `released`, the QMP waiters | start, wake, power-off, close, join, destroy | a freed handle, deadlines of 5, 10 and 15 s, waits in a circle |
| sound path (`embed/embedaudio.c`, `audio.rs`) | a ring with one index per side, what is owed to the guest's clock | the mixer's three calls, the device's callback | no lock; a consumer that stops or asks for odd sizes |
| clipboard (`clipboard.rs`, `guest-agent/`) | the text last seen | host poll, guest text | text bouncing between two clipboards |
| QMP client (`qmp.rs`) | waiters by id, 256 events | execute, reader thread | replies that come only at the cleanup |
| folder share (`libsmb/`) | leases by file and client key, remembered stamps | open, write, close, break, acknowledge, the watcher | breaks against grants, the share's own writes |
| snapshots (`launcher-core/src/snaps.rs`) | a job over QMP | save, load, delete, resume | one step of several failing |
| display adapter (`d3dpt/hw/d3dpt_vga.c`) | mode, palette, ramp and cursor registers; the mode shown, its shadow, dirty spans; interrupt and fence registers; the command window | register writes, the display's tick, the idle timer, the vertical blank, the doorbell | a picture kept up by dirty spans while flips, pushes and other devices change what is on the console; a sprite that flips hide |
| Windows 7 display driver (`guest-tools/src/d3dptvid/wddm/`) | fence and flip held for the vertical blank; allocations and where the host was told they are; a release queue; the user-mode driver's buffer | submit, preempt, vertical blank on and off, the interrupt, its DPC; create, destroy, page, render, query | three CPUs and one interrupt lock, with `vsync_on` outside it; what the host knows against what the driver thinks it knows |
| 3D executor (`d3dpt/exec/`) | surfaces by handle; a child process behind a pipe, what is mapped in it | batches, replies with dirty ranges, the death of the child | a child gone in a call, a batch refused half way |
| other devices (`libsynth/`, `gamepad/`, `voodoo/`, `tpm/`, `libdisc/`) | registers | guest I/O | mostly sequential; interrupt lines |
| launcher, shader chain, bindings, guest tools, docs, scripts | files, widgets, GPU passes | | not protocols |

How they meet: QEMU's thread and the vCPU threads run the display callbacks under
one mutex (`Shared`) and wake the front end; the front end's thread takes the
frame, polls the pad and reads QMP on every wake, and calls the library through a
copied raw handle; the library's calls queue work for QEMU's main loop (bottom
halves); the audio backend runs in the main loop and the device's callback in a
thread of the host's; the clipboard has a thread of its own, and in
`player-mitsuami` so has the host screen's vertical blank, both with copies of
the handle. The guest's drivers
reach the adapter by register writes, each of which runs under QEMU's lock on the
vCPU that makes it; the doorbell's write returns when the executor ran the batch;
the adapter answers by an interrupt line and by what it writes into VRAM. Its
picture is the surface the display path copies. `PROJECT.json` lists
the components with what is modelled of each, and the hazards with their lines.

What makes each part correct, in a sentence: *display*: what is on screen is the
last picture published, and what the guest drew last gets there; *input*: the
guest holds no key the front end does not know of, and a pad catches up;
*lifecycle*: no thread the shutdown waits for is inside the library when the
handle is freed, and every way out ends; *sound*: heard in order, each frame once, at the guest's own pace;
*clipboard*: a text is not sent back to where it came from; *share*: a client with
a lease never serves stale data; *snapshots*: a machine stopped for a job runs
again; *adapter*: a tick leaves the picture of the page scanned out, and the
pointer is up when the guest has it up; *driver*: a fence is done after its flip
was shown, in order, and every fence is; *executor*: the host knows exactly the
allocations the driver registered, and the adapter learns of every byte written.

## 2. Modules

| module | what it is |
| --- | --- |
| `LatestFrame` | abstract: whole pictures are published, the last one is shown, with the cursor where it was last placed |
| `FrameHandoff` | the display path, one action per callback and per step of the render thread |
| `FrameSettles` | the same under fairness, with a guest that may go quiet |
| `FrameHandoffProof` | theorems about `FrameHandoff` |
| `InputQueue`, `InputQueueProof` | front end, library queue, main loop and the guest's hands, and theorems |
| `VmLifecycle`, `VmLifecycleProof` | the threads around one handle, and theorems |
| `AudioStream` | abstract: a FIFO that may lose at its entry and skip at its exit |
| `AudioRing`, `AudioRingProof` | the ring, the mixer's calls and the device's callback, and theorems |
| `WddmFence` | the Windows 7 driver's fences, flips and vertical blank on the adapter's interrupt registers |
| `WddmFenceProof` | theorems about `WddmFence` |
| `VgaScanout` | the adapter's linear mode and its sprite, one action per register write, tick and timer |
| `VgaScanoutProof` | theorems about `VgaScanout` |
| `D3dWindow` | the command window: user-mode driver, kernel-mode driver, doorbell, executor process |
| `D3dWindowProof` | theorems about `D3dWindow` |
| `SetLemmas` | facts about sets and sequences that the proofs share, induction among them |
| `MC*` | constants for TLC; `MCDevices` runs `VgaScanout` and `D3dWindow` side by side |

### FrameHandoff and the code

A frame is one row of `width` columns, a rectangle a set of consecutive columns
({} for `None`); `Union` is the bounding box, as in the code. `back`,
`back_dirty`, `vga_dirty`, `three_d`, `zero_copy`, `dmabufs`, `ext_slot`,
`pixels`, `pending`, `front_stale`, `fb_whole`, `ext_current` have the source's
names. Time is two flags: `recent_3d` (the last 3D frame is younger than
VGA_FALLBACK) and `in_grace` (`switched_at` is set and younger than
SWITCH_GRACE), each cleared by an action at any moment. `front.seq` against the
render thread's `last_seq` is the flag `newer`: a take always reads the newest
number. `is_uniform` samples every 61st pixel in the code and is exact here.
Callbacks are atomic because each runs under the mutex from its first line to
its last state change; a take is two steps, because the slots and the sprite are
read before the frame is locked. A panic in a callback (`extern "C"`) ends the
process: `aborted`.

### InputQueue and the code

`todo` holds the library calls an operation of the front end has yet to make, so
that the main loop's drain can fall between any two; `Flush` is the call of
`qemu_embed_input_flush`. `in_q` and `in_bh_pending` are the queue and the flag
under `in_lock`; `DrainTake` is the locked copy, `DrainDeliver` the loop over the
batch, atomic because it runs under QEMU's big lock. `dropped` remembers that the
queue was full once. Pointer events only take room. `inputs` bounds what the hands
do; past the bound they are off, which is where the liveness properties look.

### VmLifecycle and the code

Each thread is a program counter: `qemu` for `start`'s thread, `ui` for the main
thread (start, event loop, `Session::wake`, `shut_down`, `join`), `clip` for the
clipboard's thread, `vblank` for the vertical blank's (`HostVBlank`, which
`player-mitsuami` starts and nobody stops before the process exits). A library call is two steps, so the handle can be freed under
it. A deadline is an action enabled only while the awaited thread cannot go on by
itself (it waits, or is wedged): the deadlines are seconds, a step is
milliseconds, and a model that let them pass at any moment would say nothing
about the code.

### AudioRing and the code

The unit is a frame; indices wrap at `RingFrames` and one slot stays free. The
producer's steps are `buffer_get_free` (with `tick`), `get_buffer_out` and
`put_buffer_out`, the mixer's loop between them; the consumer's are the loads of
`wr` in `fill`, `skip` and `pop_f32`, so that each side moves between any two of
the other's. The clock counts frames the guest's time has played, the rate
correction included. The frame numbers in `buf` are history: nothing reads them
but the device and the abstract stream.

### WddmFence and the code

The fields of `D3DPT_ADAPTER` keep their names; `irq_enable`, `irq_status`,
`fence_reg` (FENCE_DONE) and `offset` are the device's registers, in which a write
takes effect at once. dxgkrnl makes one submission at a time and preempts between
two (its contract with a driver of one node; the code relies on it), but switches
the vertical blank from another CPU, and the device interrupts a third.
`DxgkCbSynchronizeExecution` and the interrupt routine exclude each other:
whatever runs under that lock is one action. The interrupt routine is two,
`Interrupt` and `InterruptVblank`, because it reads `vsync_on` twice and
`vsync_on` is written outside the lock. A submission is three: `SubmitCommand`
(up to the look at `vsync_on`), `Run`, `FinishSubmission`. `Run` leaves out what
the driver checks and is never given: a flip's packet is the driver's own
(`d3dptkmd.c:2375-2390`), so its magic and size are right (2013-2018); its source
is a primary or a Direct3D allocation, which may be in VRAM only (1274-1276) and
is resident when dxgkrnl submits, so its segment is 1 (2031-2036); a DMA buffer
is in system memory and has an address (2664). With any of these a deferred flip
would hand on the `flip_addr` of the flip before it. ControlInterrupt is two or
three. A flip's address is the id of its submission, so that "older" can
be said of addresses; `shown` is history. `caps` is what `StartDevice` read: a
device with or without interrupts, with or without the fence register.

### VgaScanout and the code

A page of VRAM is one colour, the dirty log one bit per page, and `shown` what the
display was last told: the page's colour with the depth, palette and ramp it went
through. `shadow` is whether the surface is a converted copy or stands on VRAM,
`surface` whose surface the console has. A 15 or 16 bit mode behaves as a 32 bit
one that always has a shadow, and sizes and pitches change a mode as the depth
does: both are left out. Pages do not overlap. `CursorEnable` requires a defined
shape, as both drivers define one first. Wall-clock and guest-clock deadlines
(`GraceEnds`, `FlipIdle`) may pass at any moment.

### D3dWindow and the code

Records are kept by what they do to the host's tables and to VRAM: a surface
registered, one released, one bound as a target (refused when unknown), one read
back (which writes VRAM), and the answer of an occlusion query. `alloc` holds,
per allocation, where it is in VRAM, if it is (`cur`: an evicted allocation has
none, and `run_reg` skips it), and where the host was told it is (`host`, the
driver's `host_addr`). An allocation's description may be one the host refuses
(`Refused`), or of a format it does not mirror (`Unmirrored`): that one the
executor passes over without an error, while the driver takes it for registered. `todo` is the submission while `run` walks it, `batch` the
window, `slot` the return slot in the window, `res` the user-mode driver's result
allocation. `own` marks an answer written by the record that is waited for. The
executor process is `exec`; it may die after any number of a batch's records. The
library gives it VRAM once (`has_vram`) and maps the window again on every
submission that finds it unmapped (`mapped`). Left out: contexts (their release
does nothing the second time), allocations without a handle (the host never hears
of them), a registration that does not fit an empty window (one of at most 16
levels always does), the copying path for memory that is not shared, a driver
stopped and started without a machine reset.

`MCDevices` has `VgaScanout` and `D3dWindow` in one run. They share no state in
these models (what the executor writes is `Draw` to the picture), so each
behaviour runs one part: `part` picks the picture, the cursor, or Direct3D, and
the others stand still. The register writes that both the picture and the cursor
depend on (`ModeStep`) belong to both parts. The theorems of `VgaScanoutProof`
are about `ScanSpec`, in which everything moves together.

## 3. Runs

| run | what it asks | bounds and why they are enough |
| --- | --- | --- |
| `frame_cpu` | type, regions, no stale pixels, refinement of `LatestFrame` | two widths (grow, shrink, same), two colours, a cursor at one column: every hazard needs one resize and one partial update |
| `frame_settles` | what the guest drew last is shown; a slot leaves the screen | two widths, two colours, a cursor at one column: the guest's last picture may follow a resize, an update of a part, a readback of 3D and a sprite. With ring slots, which `SurfaceShown` says nothing of, one width and no hardware cursor (`SlotWidth`, `GuestBound`); the cursor's shape is defined once, and a readback is of one colour and of the surface's size |
| `frame_switch` | **violated**: two switches and no publish | as `frame_cpu` |
| `frame_ring` | **violated**: a slot's take eats the pending region | one column, one slot |
| `input` | type, no lost wakeup, no stuck key, no impossible combination, catching up | a queue of two, shorter than the chord, so that it overflows; four moves of the hands with keys |
| `input_asking` | **violated**: the pad while the question is up | the same |
| `lifecycle` | whose call the handle may be freed under, deadlines, ends | none: the state is finite |
| `audio` | ring as FIFO, pacing, skip, liveness | a ring of six that wraps, callbacks of one and three frames, nine frames of the guest's clock |
| `wddm_fence` | fences, flips and preemptions in order; all fences reported | two submissions of every kind: one held and one behind it. The safety part is proved for any number |
| `wddm_flip` | **violated**: the vertical blank goes off between a flip's submission and its end | the same |
| `devices` | the picture at a tick, the sprite, the host's surfaces, the dirty ranges | two pages, colours, palettes and ramps; two allocations of three in two places or in none (two the host mirrors, or one and one it does not: two that are mirrored are what one batch must write to for ranges to fold), a window of two records and one dirty range, so that it runs full and folds in the middle of a submission, and a release queue of one, so that it overflows. After a refused batch or the death of the process the guest creates and moves no more, and after a death records no more, until a restart (`GuestBound`): most of the properties say nothing there, and what they say is proved without the bound |
| `window_query` | **violated**: a stale query answer after a refused batch | one allocation, which the host refuses |

The violated runs are findings (`PROJECT.json`): each states what a comment or a
document of the repository says, and TLC shows a behaviour of the code against it.

Fairness, and why the code justifies it. Display: QEMU re-arms its display timer,
the event loop presents after every wake, time passes; nothing is asked of the
guest or the 3D backend. Input: a call returns, a scheduled bottom half runs, and
published frames keep waking the front end, which polls. Lifecycle: each thread
that can run does; a wake, an event of the same queue as the window's, is taken
although window events keep coming (strong fairness); the clipboard's thread
sleeps half a second between its calls, so `stop` gets the lock (strong); nothing
is asked of the host's screen. Sound:
the mixer's timer ticks; the host's device is fair only where a property says so
(`Listening`), as it may stall. Windows 7 driver: a routine that began goes on, a
queued DPC and a pending interrupt are served, and while the vertical blank is
unmasked one comes (the device's timer is its own watchdog); who waits for the
interrupt lock gets it although others take it in between (strong). Nothing makes
dxgkrnl submit, preempt or switch the vertical blank. `VgaScanout` and
`D3dWindow` state no fairness: every property there is of safety.

## 4. Proofs

`FrameHandoffProof`, for every width, palette, set of slots and cursor columns:

- `TypeCorrect`, `RegionInsideFrame`, `DirtyIsKept`: the invariants, each
  inductive with the type invariant.
- `PublishedIsSurface`: `FrontHasSurface` is inductive because `back_dirty` only
  grows until a publish, and a publish copies it or everything.
- `TextureIsPublished`: `TextureHasFront` needs, besides the type invariant, that
  without ring slots no slot is ever published (`NoSlotPublished`).
- `Implements`: with `ZeroCopy = {FALSE}`, every step is a publish, a placed
  sprite, a show or a stutter of `LatestFrame`; a take shows the whole picture
  exactly because of `TextureHasFront`.

`VmLifecycleProof`: `FreedUnderVblankOnly`, `OrderlyExit` and `DeadlineOnlyAtStart` from
one inductive invariant, `Inv`: the handle is freed only in the last step
(`HandleInv`), past the wait the main thread has promised or was cut, and having
promised it is in `join`; the clipboard calls only with its static set, which is
cleared before the cleanup (`ClipInv`); there is no session during the start
(`StartInv`); the main thread leaves only after the loop was told to end
(`EndInv`). `FreedUnderVblankOnly` alone is not inductive: it says nothing of the
steps before the free. Of the vertical blank's thread it needs nothing but where
the front end is, since nothing else stands between that thread and the free.

`WddmFenceProof`, for any number of submissions: `TypeOK`, `HeldIsReleased` and
`FenceWaitsForFlip` are conjuncts of one inductive invariant, `IInv`, whose other
parts say what the registers mirror (`Registers`), that everything submitted is
done or held, with the last held fence standing for all of them (`InFlight`), and
where the flip dxgkrnl waits for is: being run, pending, or on the scanout
(`FlipPlace`). `ReportsInOrder`, `PreemptionsAnswered` and `FlipsInOrder`, about
steps, follow from it. Assumption: `MaxFence` is a positive number.

`VgaScanoutProof`, for any pages, colours, palettes and ramps: `TypeCorrect`;
`SpriteIsGuests` and `HiddenComesBack` from `SpriteInv` (a sprite that is on has a
shape; a hidden one has a linear mode and a driver that does not own it);
`TickIsExact` from `PictureInv`: while the linear mode has the console and owes
nothing (no full update, new ramp, new palette in 8 bits, or dirty page), what is
shown is the page of `lin` exactly. `TickShowsPage` itself speaks only of states
in which the next tick has nothing to repaint, so it cannot carry an induction.
It is a statement about states and not about the tick's step, because such a
tick changes nothing: a property of steps would not see it. Assumption:
the reset's page and ramp are among them.

`AudioRingProof`, for every ring, pacing, cushion and set of callback sizes:
`TypeOK`, `HandedOutIsFree`, `NeverAhead` and `SkipLeavesCushion` are conjuncts of
one inductive invariant. Its other parts: the buffer handed out lies below the
ring's end and is within what is owed (`HandedOut`), and holds the frames after
the last one delivered (`HoldsNext`); the clock bounds what was delivered and what
is owed together (`Paced`); and a callback still finds what it counted
(`CallbackHas`), since the mixer only ever adds. `Implements`: each step is an entry, an exit or a stutter
of `AudioStream`. The wrap of an index is an `IF` and not `%`, which the provers
do not know.

`InputQueueProof`, for any finite sets of keys and controls (`FiniteAssumption`: a
keyboard and a pad have that many), any bindings, chord and queue length. The
conjuncts of the inductive invariant that no run states are: every operation's
calls end with a flush (`EndsFlushed`), the keys the pad's map holds belong to one
position of the pad (`HeldMeans`), and the same is true of the guest wherever what
is queued and what is still to be called is cut (`CutsMean`), since the drain may
fall there. The proof's substance is a calculus of runs of key events:
`HeldAfter(s, before)` is what is held after the run `s`, it composes over
concatenation (`HeldConcat`), and so do its cuts (`CutsConcat`); each operation of
the front end is then one lemma on the run it sends (`KeyInputSends` to
`PollPadsSends`). `NeverBothWays` is false if the pad presses before it lifts:
`KeyMapApply`'s order is what the lemma on it uses.

`D3dWindowProof`, for any allocations, places, refusals, formats that are not
mirrored, window, buffer, release queue and reply sizes. What `HostAgrees` says of
records on their way is kept because nothing moves until they ran (`Placed`). Of
the host it says nothing while records are on their way, so the inductive
invariant says of each record that it is in keeping with what the driver thinks
(`Told`), and of each allocation no record on its way places that the executor
knows just what the driver thinks (`Settled`). It needs
that a release is of an allocation that is gone, either queued or lost, and that
the user-mode driver's buffer names living ones only (`Lives`): otherwise a
release and a registration of one allocation could be on their way at once and
their order would matter. Batches and dirty ranges are recursive functions; that
they exist (`ExecRun`, `NotedRun`) is proved by induction on their length, and
`ExecBatchIs` and `DirtyCovers` are inductions over the records and the writes. The
finding of `window_query` apart, a process that died or a refused batch are the
only excuses, as in the run.

`SetLemmas`: the library's induction theorems take an operator as a parameter,
which the provers cannot instantiate. Induction is stated about a set instead
(`SetInduction`: a set of naturals with 0 and every successor is all of them) and
comes from one fact of the library that takes no operator, that strict inclusion
of finite sets is well-founded. The greatest and least element of a bounded set,
and the sequence that a finite set is laid out in, rest on the same.

How far the findings go. Each violated run has a theorem that bounds it: what
the run shows cannot happen in any other way.

| run | theorem | the one way |
| --- | --- | --- |
| `frame_switch` | `PanicNeedsDirtyShrink` | a switch to a smaller surface while something of the larger one is unpublished (`back_dirty` stays inside the surface otherwise) |
| `frame_ring` | `StaleNeedsSlotOverPending` | a slot's frame taken while a copied region is pending (`TextureHasFront` holds with ring slots otherwise) |
| `input_asking` | `QuestionTakesTheKeyboard` | the pad: while the question is up no key of the keyboard is left held or gets through |
| `wddm_flip` | `LossNeedsStopInSubmission` | the vertical blank on when the flip is submitted and off when its submission ends |
| `window_query` | `AnswerIsOwnUnlessRefused` | a refused batch, or a query that falls into another buffer than its copy (`Splits`) |

Those with a hypothesis about steps (`[][...]_vars`) speak of the behaviours in
which the named step does not happen; a fix that makes it impossible makes the
property a theorem.

Only model-checked are the liveness properties (`SurfaceShown`, `SlotLeavesScreen`,
`PadCatchesUp`, `FocusLossLifts`, `EndEnds`, `CloseEnds`, `MixerNeverBlocks`,
`FullRingPlays`, `EveryFenceReported`): this prover does not do liveness under
fairness. Every safety property of a passing run is a theorem.

## 5. Plan

Done since the first version: the Windows 7 driver's fences and flips, the
adapter's picture and sprite, the command window with the executor process, and
proofs of every safety property that a passing run checks. Next:

1. An abstract specification for `D3dWindow` (a table that register, release and
   restart change) and for `InputQueue` (keys in the guest's hands against keys
   the user holds), with their refinements.
2. `SmbLeases`: `libsmb/src/lease.rs` and `conn.rs` against an abstract cache; the
   watcher's breaks against grants and acknowledgements.
3. `Snapshots`: the job's states over QMP, and that the machine resumes.
4. `Clipboard`: "a text never bounces back"; a text copied last wins on both sides.
5. `Mpu401`: the acknowledge queue and the interrupt line.

Composition: the display path and the lifecycle meet in `wake` (a publish wakes
the front end), which `VmLifecycle` keeps as the flag `woken`; the clipboard's use
of the handle is in `VmLifecycle`, its texts will be a module of their own. The
adapter's surface is the guest of the display path: a tick's update is the
callback `FrameHandoff` calls `OnUpdate`.

## 6. Not modelled

Scripted keys and pads, dumps and screenshots; the pointer and its grabs; the
limiter and the statistics; wgpu, cpal and QEMU beyond what the code asks of them;

the drawing half of the executor, the translation of Direct3D calls to records,
mode enumeration and paging transfers of the drivers, the other devices, the
launcher, the GL pass-through and vendored code. The window in
which a start's `query-version` outlives the main loop by five seconds is in the
model and excused in `FreedUnderVblankOnly` (`overdue`).

Much of the repository is out of a model's reach, or not worth one: the largest
files are a vendored Voodoo rasteriser with its tables and code generators,
translators of Direct3D tokens and OpenGL calls, file formats and test programs,
whose work is data. What is modelled is a small share of the lines and most of
the protocols; the share of the Rust code, which carries the player, is larger.

Known from the code and without a run of its own:

- `player-mitsuami`'s vertical blank thread (`screen.rs:62-114`, started at
  `main.rs:651-653`) has its own copy of the raw handle, which neither `shut_down`
  nor `join` takes from it: it calls `qemu_embed_vblank` with a handle that
  `qemu_embed_destroy` has freed (`libqemu_embed.c:582-601`) until the process
  exits (`main.rs:182-194`), though `session.rs:407-408` says of the end
  that "nothing calls the handle again". The model has the thread, and `FreedUnderVblankOnly`
  what is left. The pointer is only passed to a bottom half that does not look at
  it (`libqemu_embed.c:295-303`); but a bottom half is scheduled on the main
  loop's context while QEMU tears down.
- The sprite is read under one lock and the frame taken under a later one
  (`gpu.rs:991`): a cursor moved or hidden between the two is drawn at its old
  place until the next take. `LatestFrame` lets the sprite be anywhere.
- An allocation of a format the host does not mirror is registered without an
  error and never known (`d3dpt_exec_ddi.cpp:3264-3267`): a later record that
  binds it is refused. `HostAgrees` leaves such allocations out (`Unmirrored`).
- The first flip of a chain is not pushed (`WriteOffset`, `d3dpt_vga.c:1186`: the
  offset is already the new one at 1195); the tick shows it a little later, as
  `TickShowsPage` says.
- `fb_copy` that fails half way (430-440) has changed VRAM without a dirty bit.
- `D3D_STATUS` answers READY after the executor process died (1116, "the answer
  must be honest"), and a process that hangs without dying stops the vCPU.
- A query whose return record and its own fall into two command buffers
  (`d3dptumd.c:378-380`) has nothing copied; `Splits` allows it, and it ends as
  the run `window_query` does. The runs leave it out, the theorems have it.
- A driver stopped and started again counts its handles from zero
  (`d3dptkmd.c:420`) while the host keeps the surfaces of the first life.
- A sound cushion near the ring's size (`PLAYER_AUDIO_MS` above some 300 ms,
  which `docs/development.md:325-328` says to raise without an end) never lets the
  stream start: `audio.rs` does not clamp it as `embedaudio.c:321` does.
- A slot offered and made ready inside one take is shown a wake late
  (`gpu.rs:985`); a short sound waits for the next stream (`audio.rs:244`); a
  press and release in one drain have no length (`libqemu_embed.c:791`).
