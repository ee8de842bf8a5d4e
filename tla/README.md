# PixelGrab: models, checks and proofs

PixelGrab is a Windows screenshot tool: a Tauri 2 back end in Rust
(`src-tauri/src`, with shared types in `crates/pixelgrab-contracts`) and Svelte
pages (`src/`). It freezes the desktop, lets the user crop and annotate the
frozen frame in an overlay, and keeps the results as cards on a shelf, backed by
a capture cache on disk. Cards can be dragged out, pinned, edited again and
dismissed; they expire, and the cache evicts them by age and size.

This directory holds TLA+ models of that code, their TLC configurations, and
TLAPS proofs. `PROJECT.json` lists components, runs, seeded faults, hazards and
theorems, and maps each definition to the lines it stands for.

Contents: [the system](#the-system), [modules](#modules), [runs](#runs),
[fairness](#fairness), [disagreements](#where-the-code-and-its-documentation-disagree),
[proofs](#proofs), [what is only model-checked](#what-is-only-model-checked),
[what is not modelled](#not-modelled-and-why), [what is left](#what-is-left).

## The system

| Component | State | Operations | Correct when |
|---|---|---|---|
| Capture cache (`cache/store.rs`, `atomic.rs`) | entry map, owned guards, entry directories | two-phase commit, metadata update, dismiss, recover, revision sidecar, clear | an entry in use is never dropped; the manifest is the last file of a commit; removal takes nothing that is registered |
| Lock registry (`cache/locks.rs`) | reference count per entry and owner (Shelf, Editor, Drag, Pin) | acquire, release, dismiss | the counts are the guards that exist |
| Sweeper (`cache/sweeper.rs`) | a usage snapshot | TTL pass, quota loop, debris pass, startup recovery | evicts only what nobody holds, removes only debris |
| Cache policy, preferences, hotkey store (`cache/policy.rs`, `preferences/`, `hotkey/store.rs`) | current value, pending write, primary, backup and temporary file | update, debounced write, flush, load | the last value set is the one on disk in the end; no kill loses a value whose write was reported |
| Shelf queue (`shelf/queue.rs`) | visible and overflow cards, one timer each | add, hover, tick, dismiss, rehydrate, drag | a card leaves once and when it is due; a hovered or dragged card does not expire |
| Shelf window and page (`shelf/mod.rs`, `shelf/controller.svelte.ts`) | snapshot on its way, visibility, what the page shows | publish, place, hide for a capture, bring back | window and page end on the queue; nothing is clipped |
| Session (`session/state.rs`) | one state, the last capture | capture, select, commit, cancel, reopen, revision commit | one capture or one editor at a time; no command stops half way |
| Commands (`ipc/commands.rs`) | none | glue of the above, with roll backs | a command that fails leaves nothing behind |
| Overlay and main window (`overlay/mod.rs`, `lib.rs`, `OverlayApp.svelte`, `App.svelte`, `RevisionEditor.svelte`) | visibility, capture on stage, crop, editor scene | reveal, load, commit, Escape, close | the pages end on what the back end is doing |
| Capture engine (`platform/windows/capture.rs`, `annotation.rs`, `coordinate.rs`) | cached layout, frozen frame | grab, compose, crop, rasterise | the picture delivered is the desktop that was selected, redactions included |
| Annotation store (`annotation/store.svelte.ts`, `revision.rs`) | scene, history, gesture, counters | draw, drag, undo, redo, delete, reopen, commit | ids and numbers are distinct; a mark is painted once |
| Hotkeys (`hotkey/`) | bindings, the backend's two maps, paused | apply, replace, pause, resume | what is shown as active is what the system has |
| Pins (`pin/`) | open pins with transforms, guards, windows | open, close, apply, re-anchor | one guard per pin; no pin without a window; none out of reach |
| External drag (`platform/windows/drag.rs`) | COM objects and their counts | the OLE loop and the vtables | nothing freed early, twice or never; what is offered is rendered |
| Display watcher, tray, second launch | the last layout seen, labels | poll, forward intents | every change of layout is reacted to |

How they interact. Synchronous commands, window events and hotkeys run on the
**main** thread, one at a time. The **ticker** (every 500 ms) pops expired cards
and dismisses them. The **sweeper** wakes up periodically; the **startup
recovery** runs beside the first commands; the **display watcher** polls every
three seconds. Preference writes happen on debouncer threads, `save_capture_as`
and `save_shelf_card_as` on the async runtime. Threads share the cache, whose
mutex covers its maps and not the disk, the lock registry, the queue, the pin
registry, the capture engine and the session, each behind a mutex of its own.
The pages reach the back end by calls and hear from it by answers and by events,
on different channels.

What is hard here: file operations outside a mutex racing removals on other
threads; kills between any two of them; checks made outside the critical section
that acts on them; guards released by four kinds of owner in any order; calls,
answers, events, close requests and hotkeys overtaking each other; snapshots
published after they have aged; a roll back that the operating system refuses;
and code called back, by OLE, in the middle of its own loop.

## Modules

| Module | Models | Used by |
|---|---|---|
| `LockRegistry` | `ActiveLockSet` as operators on a registry value | `CaptureCache` |
| `CaptureCache` | cache, sweeper, ticker and recovery threads, kills | `CaptureCacheMC`, `CaptureCacheProofs` |
| `CaptureStore` | abstract: what the capture cache promises its users | `CaptureCache` |
| `SessionMachine` | the orchestrator's methods as functions of its state | `CaptureFlow` |
| `CaptureFlow` | session commands, overlay page, main page and editor, launch intents, tray | `CaptureFlowMC`, `CaptureFlowProofs` |
| `DurableRegister` | abstract: what a settings store promises its callers | `SettingsStore` |
| `SettingsStore` | the three settings stores, their debouncer and file writer | `SettingsStoreProofs` |
| `ShelfQueue` | shelf queue, card timers, the commands and the drag that use them, both tickers | `ShelfProofs` |
| `ShelfWindow` | snapshots of the queue, native window, page, placement, captures hiding it | `ShelfWindowMC`, `ShelfProofs` |
| `HotkeyGrammar` | the accelerator grammar of `contracts/hotkey.rs` | `HotkeysMC` |
| `Hotkeys` | registry, backend maps, the system's table, store and tray labels | `HotkeysMC`, `HotkeysProofs` |
| `Geometry` | rectangles, layouts, zoom and anchoring, on integers of the code's width | `Pins`, `Annotations`, `ShelfWindow` |
| `Pins` | pin registry, guards, windows, display watcher | `PinsMC`, `PinsProofs` |
| `Annotations` | the rasteriser, pixel by pixel | `CaptureEngine` |
| `CaptureEngine` | grab, composition, frozen frame, crop, commit and save | `CaptureEngineMC`, `DeliveryProofs` |
| `AnnotationEditor` | annotation store, its history and gestures, revisions | `AnnotationEditorProofs` |
| `DragSource` | COM objects of a drag, the client that calls them, nested loops | `DragSourceMC`, `DeliveryProofs` |
| `...Proofs` (eight) | the inductive invariants and theorems of the module named; `DeliveryProofs` those of `CaptureEngine` and `DragSource` | - |
| `...MC` | values and symmetry for TLC | the runs |

Operators whose comment says "Seeded fault" or "Mutant" are not part of any
specification: each is a plausible bug of the definition after it, and
`PROJECT.json` ("mutants") says which property finds it. Every property of a
passing run is violated by one of them under the same configuration.

### CaptureCache and CaptureStore

A shelf id stands for its entry directory: both are fresh UUIDs. The maps of
`CacheInner` are `entries`, `shelfGuards`, `editorGuards`, `pinGuards`; the
registry is `refs` (counts) and `known` (rows); `dragGuards` are the guards on
the stack of a running drag. `dirs` and `disk` say which directories exist and
which files they hold. Each thread has a control point `pc`, a batch (`mode`,
`todo`: the ids a loop of the code has still to visit) and a target.

A critical section of the cache mutex is one action. Each file operation outside
it is one action, in the code's order: `CommitBegin`, `CommitWrite` (one file of
`WriteOrder` at a time), `CommitSize`, `CommitRegister`, `CommitEnqueue`. A
dismissal is `DropEntry`, then `ReapFile` once per file in any order (the order
of `remove_dir_all` is the file system's), then `ReapEnd`. `EvictCheck` and
`DismissPicked` are two steps because the sweeper's check and its dismissal are.
`Crash` empties memory and keeps the disk; `Boot` is `load_or_recover`.
`UpdateMetadata` and `RefreshManifest` rewrite a manifest, which has an effect
only on an entry a debris pass is tearing. Time is abstracted: any card may have
expired at a tick, any entry at a sweep, so the model has every behaviour the
clocks allow and more. Ids are never reused; the model counts each once.

`CaptureStore` is the abstract specification: captures that are stored, kept,
held by any number of holders and discarded while nobody holds them. Nothing in
it speaks of threads, locks or files. `StoreOf` maps the cache to it: `entries`
are the captures kept, a commit before `CommitRegister` is one being stored, and
the holders of a capture are its editor, pin and drag guards, counted where the
guards are owned and not where the registry counts them. Of a start it promises
only that the captures kept had been stored before, because a kill in the middle
of a removal may leave a manifest (`store.rs:683`) and the entry is then
back; within one life of the process what is gone stays away.

### SessionMachine and CaptureFlow

`SessionMachine` has one operator per method of the orchestrator: a walk along
`AllowedNext` that stops at the first edge that is refused. `CaptureFlow` makes
each command one action, because a command runs to its end on the main thread.
`session`, `lastCapture` and `locks` are the back end; `overlayVisible` is the
window. `mount`, `shown`, `crop`, `committing` are `OverlayApp`; `scene` is
`App`'s `revisionScene`. The `busy` flag of an editor is not a variable: it is
set exactly while a call of that editor is unanswered, so calls and answers carry
a mark `mine`, which `Disown` takes away when the editor of another card replaces
the component. `overlayCalls`, `overlayAnswers` and `overlayEvents` are three
FIFO channels. Calls of the main and shelf windows are a set, since two windows
send them.

Captures also come from a second launch (`ParseLaunchIntent`: the first flag that
is known decides) and from the tray (`OnMenuEvent`, `OnTrayIconEvent`), which
forward the same intents. `ClassifyFlag` takes a flag as the code sees it after
its case and its leading dashes are gone. `Ready` is part of the model because
`capture_native` treats it specially, though no command leaves the session there
(`RestsBetweenCommands`).

### SettingsStore and DurableRegister

A behaviour is about one of the three stores, chosen in `Init` (`store`), since
they share code and not state. A value is the number of the change that set it,
so "older" is `<`. `memory` is `Inner.current`, `pending` the value captured by
the debouncer's callback, `root` whether `set_root` succeeded. `up` follows the
process: the exit flush runs once for `ExitRequested` and once for `Exit`.

`write_to_disk` is one action per file operation (`Look`, `Unback`, `Rotate`,
`Create`, `Write`, `Publish`), taken by the main thread or the debouncer's
worker, because the worker runs its callback outside the debouncer's mutex and
nothing else orders the two. An open file goes with its name: when another
thread renames the temporary file while this one has it open, what this one
writes lands in the file under its new name. `at` records that name. A file is
truncated when created (`Torn` until written), and one text written over another
may leave a tail (`Over`). A kill (`Kill`) may fall between any two operations,
and each may fail once bounds allow.

`Loaded` is what the next start finds: the primary, else the backup, else the
defaults. `raced` is a history variable: both threads have been in
`write_to_disk` at once. It is the one circumstance in which the stores promise
nothing (`CleanExitKeepsChange` states what the code's comment promises, and does
not hold). `failed`, `saved` are history too.

`DurableRegister` is the abstract specification: a change is in memory at once
and on disk later, the disk only moves forward and never ahead of memory, and a
start finds the disk (or the default, when the directory cannot be made). The
refinement maps `durable` to `Loaded`, so it says that none of the five file
operations but the last is visible to a later start: between the rotation and the
rename, `Loaded` reads the backup.

### ShelfQueue

A card is the number of its commit, so newest first is largest first. `cards` and
`index` are `QueueInner`; positions count from 1, as sequences do. `deadline` and
`left` are `ShelfTimerState`: `left` stands for `paused_remaining_ms`, and is
`Running` when the card is not paused. A timer belongs to a card, so it is
dropped with it.

Every operation holds the engine's mutex, and all but `tick` are one action.
`tick` computes the expired positions once (`TickBegin`) and then removes one card
per step, from the back (`TickRemove`), so that `IndexIsPosition` speaks of every
intermediate list. The commands run on the main thread; the ticker thread does
`TickBegin`, `TickRemove` and `CacheDismiss` beside them. A drag is three actions:
the guard, the pause, and after the modal loop the resumption. Inside the loop the
main thread still handles the commands of other windows (`DragLock` to `DragEnd`),
which is why `unhover_shelf_card` looks at the Drag guard.

A thread reads the clock before it locks, and here the reading is the time of the
locked operation. `now`, `ran`, `life` and `resumed` keep what `ExpiryIsEarned`
compares: how long a timer ran, for which lifetime, and when it was last resumed.
Nothing is kept of a card's entry, which CaptureCache models: a card whose
entry is gone can be hovered as well, and any committed card may be dragged.

### ShelfWindow

What is published of the queue is a script: the steps a thread has still to take
(`snapshot`, `show`, `sync`, `emit`, ...), in the code's order, with the snapshot
they carry. No thread holds a lock from its snapshot to its last step, so the main
thread and one background thread, which stands for the ticker or the display
watcher, take them in any order. Of the queue only the list is kept, as a set of
commit numbers, whose order is that of the commits (newest first in the code); any
card may be due. `placement_for_overflow` and `fit_shelf_snapshot` are computed on
physical pixels, the preferences are sanitised as in the code, and the monitors
may be any of `Layouts` whenever they are asked for. The history variable `aged`
names who was last given a snapshot that had aged, or that had no place because
the layout could not be had: `PageShowsQueue` and `ShelfComesBack` exempt exactly
those.

### Hotkeys and HotkeyGrammar

`HotkeyGrammar` is `ParseBinding`, the canonical text and the id of a chord, on
token sequences. `Hotkeys` takes the parser as a constant. `doc` is the registry's
document, `registered` and `handler` the backend's two maps, `hooks` what the
system holds for PixelGrab and `foreign` what it holds for others. Each call of
the backend is a step, so another program may take or give up a chord between
any two. `next` is how far the loop over the actions has come, `previous` the
document a refused replacement goes back to. A start may find any document on
disk; how it got there is `SettingsStore`. The store and the tray labels are
written after the registry, each in its own step.

### Geometry and Pins

`Geometry` is on integers of width `MaxInt`, with the code's wrapping sums and
saturating ones. Zoom is in twentieths, a zoom factor a fraction. `Pins` splits a
command where it lets go of the registry or the cache: `open_pin` is look,
acquire, insert, make the window, each a step, between which the cache may evict
the entry. The commands that only read (`copy`, `save`) change nothing. Of a
native window the model keeps whether it shows its pin's view or one the view has
left behind. The watcher is `Poll`, `AnchorPins`, `ListPins`, `PushView`,
`PollEnds`; its pushes run on the main thread between commands. A poll that only
records the layout it finds does not count as following it: `LayoutIsFollowed`
asks of every layout that differs from the one the watcher knows that the pins be
anchored for the newly recorded one and all their views pushed, unless the layout
goes back before a poll has seen it.

### Annotations and CaptureEngine

`Annotations` rasterises each kind of annotation on a row-major buffer as
`annotation.rs` does (clipping, thick lines, the blur's clipped kernel, the
font's bitmap, wrapping of words), with a colour kept as where it comes from: a
source pixel, a paint, a mean, or the plate and tint chosen below a text, whose
choice by luminance is left open. `CaptureEngine` follows the pixels: the layout, one grab per monitor on
its own thread, the composition in a frame, the overlay's selection at a scale in
per cent, the crop and the delivery. Steps are split where the engine's mutex is
let go; `save_capture_as` runs beside the commands, and the watcher's poll beside
both. A commit and a save are two steps each: the page sends what was drawn
(`RequestCommit`, `RequestSave`), and the handler (`BeginCommit`, `BeginSave`)
takes the session's last capture as it is when it runs and looks neither at the
session nor at what the crop was drawn over. In between the selection may be
cancelled and another capture taken, so a crop may meet a capture, even of another
desktop, it was not drawn over (`drawn` and `ask.id` differ then). Of such a late
call `PictureIsDesktop` says no more than the code keeps: the picture is cut from
one capture, the one the handler took, at the crop's place or, where that begins
outside the frame, from its edge. That it is not the picture the user selected is
what `EscapingCropIsRefused` is about, and `CancelledIsNotCommitted` in
`CaptureFlow`, two claims the code does not keep (see below).
Only a crop drawn over the capture it is cut from is delivered from its place.
Arithmetic that is in floats in the code is exact here. `Composite` and
`FlattenAnnotations` are folds: over the monitors in any order, since each is
blitted as its thread ends, and over the annotations from the bottom to the top
(`Topmost` is the one painted last).

`LayoutsAssumption` says what a system may report: finitely many screens, no two
in one place or under one name, one of them primary, on a desktop whose places and
extents are 32-bit. Of two layouts it asks that they be `Steady`, which leaves two
changes between the query of the layout and the grab out of the model: a screen
that is turned (as many pixels in rows of another length, which the check of a
grab's size does not notice) and another screen that becomes the primary one (what
`capture_single_monitor` looks for, whatever the layout said). The code guards
against neither, in the few milliseconds there are. `ScenesAssumption`: the
annotations drawn are finitely many, and blurs have a positive radius (the toolbar
draws with `DEFAULT_BLUR_RADIUS`, 4, and nothing changes a radius).

### AnnotationEditor

One store stands for the overlay's and the editor's, whose sessions exclude each
other. A look is an annotation's geometry, style and z-order; annotations are a
set, the array being in the order of ids. A drag is a gesture with a snapshot of
where it began, during which keys still come. `history` and `future` are the undo
and redo stacks, bounded as in the code. A card keeps a scene, what is under it
(the crop or, for old cards without a source, the old picture) and the counters;
opening it recomputes the counters as `store.svelte.ts` does. A picture is the
list of scenes painted over the bare crop, so that a mark painted twice is seen.
A card's files are read twice, when the editor opens and at the commit; what each
look finds is in `Readings`, where `FilesFail` lets a source or a scene be
unreadable. `shown` is the picture the editor was given. The `editor` run and the
theorem on marks are for files that can be read; for those that cannot
`RevisionsPaintWhatIsShown` states a claim the code does not keep. A drag of the select tool over the bare image takes the crop away
and leaves the scene (`DragCropAnew`), unlike Escape (`ClearForRecrop`).

### DragSource

COM objects at addresses that the allocator gives out again, with kind, count and
cursor. `held` counts the references of PixelGrab and of its client, which is OLE
and the drop targets together; the client may call what it holds a reference to or
was lent for the loop, and may keep objects after the drag. `loops` is the stack
of drags, since `DoDragDrop` serves messages and another drag may begin inside.
Of the bytes of a format the model keeps how many there are and what their
headers announce; that the request they come from was consistent is
`DragRequest::validate`.

## Runs

Deadlock is checked in `shelf_queue`, `hotkeys`, `capture_engine` and `drag`: in
the others a program whose bounded captures, cards or faults are used up, and
whose user does nothing, stops.

| Run | Question | Bounds | Distinct states |
|---|---|---|---|
| `cache_one_entry` | do all interleavings of four threads over one entry's life keep guards, removals, locks of the shelf and publication order right, and keep the promises of `CaptureStore`? | 1 id, 4 threads, 1 pin, 1 drag, 2 kills or I/O failures | 2.4 million |
| `flow_overlay` | is the session at rest, on screen and on the right capture after any traffic, and does it get there? | 3 captures, 2 calls under way, 2 failures, no editor, delivery fair | 79 thousand |
| `flow_editor` | does an editing session always have a card that can end it, and is a revision commit all or nothing? | 2 cards, 1 capture, 2 calls under way, 1 failure | 596 thousand |
| `settings_stores` | does every store catch up with memory and keep what it reported, over exits, kills and failures? | 3 stores, 3 changes, 2 kills or I/O failures, worker fair | 85 thousand |
| `shelf_queue` | does every operation act on the card it names, and does each card leave when its time has come and not before? | 3 cards, clock 0..2, lifetimes off and 2, grace 1, ticker fair | 163 thousand |
| `shelf_window` | do page and window end on the queue, and is the shelf inside the work area? | 2 cards, 1 event on its way, 1 background thread, 2 layouts | 4.6 million |
| `hotkeys` | do registry, backend, system and store agree after every replacement, refusal, pause and restart? | 2 actions, 4 texts, 2 of them one chord | 766 thousand |
| `pins` | do guards match pins on every route, and are layout changes followed and escaped pins brought back? | 2 ids, 1 capture, 1 slot, 2 layouts, integers to 11 | 428 thousand |
| `capture_engine` | is a delivered picture cut from one capture, at its crop's place, with its redactions, however late it is asked for? | 2 layouts of 2 monitors, 2 captures, scale 150 %, 2 scenes | 624 thousand |
| `editor` | do ids and numbers stay distinct, and are marks painted once? | ids to 2, history 1, 3 cards, files readable | 1.2 million |
| `drag` | are references counted right whatever the client does, and is what is offered rendered? | 4 addresses, 2 loops, 1 reference per object | 218 thousand |
| `frame_dropped` | is the frozen frame kept as long as a selection needs it? (it is not) | as `capture_engine`, no failures | 244 until it is violated |

Why the bounds are enough. One entry suffices for the races of
`cache_one_entry`: every command, guard and removal concerns one id and ids are
never reused; batches of several ids and other numbers of everything are what the
proofs are for: that a tick with several cards in hand leaks no lock of the shelf is
shown by `ShelfLocksDoNotLeak` alone. Two faults allow a kill during the recovery from a failure. In
`flow_overlay` three captures allow an event or an answer of a first capture to
meet the third, with one in between; two calls under way allow a commit or cancel
to be overtaken by a close request and a new capture. In `flow_editor` two cards
are what a stale answer needs. In `settings_stores` three changes allow one on
disk, one being written and one pending; two faults allow a kill in the write that
follows an interrupted one, when only the backup is good. In `shelf_queue` three
cards allow a removal in the middle of the list, and two removals in one tick with
a survivor between them; the clock reaches the deadline of a card added at the
start, and a pause after one unit leaves less than, or as much as, the grace. In
`shelf_window` two cards distinguish an old snapshot from a new one that is not
empty, and one of the two monitors has room for one card and the control, the
other, scaled and at a negative origin, for two; the placement itself is asked for
up to five cards. In `hotkeys` two actions can want one chord, which has two
spellings, one of which has a canonical text too long to be parsed again; `F12` is
a chord of its own without modifiers. In `pins` one slot makes a second opening be
refused while it holds a guard, two ids make a window that is closing meet a new
pin, and integers to 11 hold both monitors while a drag, a doubled zoom or an
initial place goes past their edges. In `capture_engine` the desktops are the
smallest with a negative origin and with a hole; the second capture may meet what
is left of the first; the scenes have one annotation of every kind but those that
differ in their corners alone, and a blur clipped at two borders. In `editor` two
ids are what a collision needs, and a history of one drops its oldest entry at
once; three cards are a revision of a revision, one of them without a source (a
history of two, with two cards, has been explored as well). In `drag` four
addresses hold the two objects of a loop, and an enumerator and its clone, or the
objects of a nested loop, and every address is given out again.

### Fairness

`CaptureFlow` assumes that handlers run, that the overlay page loads, and that
events and answers are taken (weak fairness, since each stays enabled until it
happens): the message loop of the main thread and the event loops of the webviews.
`SettingsStore` assumes that the worker wakes at the deadline of a pending
callback (its wait has a timeout) and that a thread inside a write goes on.
`ShelfQueue` assumes that the ticker thread wakes while a card is due (it sleeps
500 ms at a time and ends with the process) and that a tick that has begun goes
on. `Pins` assumes that a command goes on, that the watcher thread is scheduled
and its queries succeed in the end, and, strongly, `SF(PushView)`: what the
watcher posts to the event loop is served in order, so it runs though commands
keep coming and each disables it for a while. Nothing is assumed of the user, of
hotkeys, of the shelf page or of failures.

### Where the code and its documentation disagree

One is a run. `frame_dropped`: `capture.rs:9-10` says that the frozen framebuffer "is
retained for the lifetime of the session so the commit pipeline can crop without
re-capturing". The display watcher calls `invalidate_layout` at the start of every
poll, every three seconds, and that sets the frozen frame to `None` too: a commit
or a save asked for after a poll finds no frame and is refused, and the session
ends. A Save As clears the frame as well, even when its dialog is cancelled, where
`OverlayApp.svelte` says "User cancelled — session is unchanged."

The following were met while modelling; the models keep the code's behaviour, and
the formula named, at the end of its module, states the claim the code does not
keep. No run lists them. TLC finds `EscapingCropIsRefused` violated with the
constants of `frame_dropped` (after 23 thousand states), and
`RevisionsPaintWhatIsShown` with those of `editor` and `FilesFail = TRUE` (after
816).

| Claim | Formula | What happens |
|---|---|---|
| no card without its pixels (ADR-0005) | `NoPhantomCards` | a kill during a dismissal's removal leaves the manifest; the next start shows the card (`store.rs:683`) |
| the recovery reaps debris "without touching valid active captures" (`sweeper.rs`) | `DebrisSparesCommits` | a debris pass takes a directory without a manifest for debris while the commit into it is running (`store.rs:1192`) |
| the session "returns to `Idle` deterministically on every exit path" (the repository's README) | `FailuresReturnToIdle` | a platform error leaves `Capturing`; every later capture is refused until restart |
| a capture dismissed by Escape "must not be available to the commit pipeline" (`reset` in `state.rs`) | `CancelledIsNotCommitted` | cancelling keeps the last capture, and a commit handled afterwards delivers it |
| the session is the source of truth for an open editor (ADR-0009) | `EditorIsOnScreen` | the answer to one card's commit closes the editor of the next (`RevisionEditor.svelte:87`) |
| an exit within the debounce window "does not lose the most recent change" (`preferences/store.rs`) | `CleanExitKeepsChange` | the flush cancels what is pending, not what the worker is writing: the older value can be renamed into place last |
| a refused replacement leaves the old bindings active (`hotkey/mod.rs:363-366`, `docs/validation/v1-validation-record.md:83`) | `RefusalKeepsBindings` | the backend does not give up the old chord, so the roll back is refused its own chord, and its result is ignored |
| the registry stays the source of truth of a pin's transform (`pin/window.rs`) | `SyncsKeepTrack` | the watcher's late push undoes a user's zoom on the screen |
| "The cache lock guarantees the file is still on disk" (`commands.rs:1937`) | `PinsCanBeRead` | an eviction between the check and the acquisition leaves a pin without its file |
| a full-screen capture is of the monitor asked for (`commands.rs:334-336`, `capture.rs:191-193`) | `FullScreenShowsItsMonitor` | `capture_single_monitor` always grabs the primary one |
| the shelf is hidden before the screen is read (`commands.rs:216-218`) | `ShelfIsNotInPicture` | ticker or watcher may show it before the grab |
| the window's bounds are "in lockstep with the queue event" (`commands.rs:108`) | `WindowFollowsQueue` | an older snapshot may be applied last |
| the page rehydrates on startup (`shelf.test.ts`) | `PageIsNotBlank` | an event that says only what has gone makes the page drop its first answer |
| a crop that escapes the frame is refused (`capture.rs:91-92`) | `EscapingCropIsRefused` | a commit or save handled after a newer capture of another desktop: a crop that begins left of the frame or above it is moved to the edge and keeps its extent (`coordinate.rs:546-549`), so it passes the length check of `commit_body` and other pixels are delivered |
| a missing source or scene "preserves existing visible marks" (ADR-0012) | `RevisionsPaintWhatIsShown` | `commit_revision_inner` reads the files again and decides anew (`commands.rs:623-631`): a file unreadable at the opening and readable at the commit loses the marks that were seen, the other way round each is applied twice |
| every change of the scene is undoable | `ChangesAreUndoable` | Ctrl+Z during a drag leaves the gesture writing outside the history |

Smaller ones, described in comments or only here: clear and evictions do not tell
the shelf queue, whose cards outlive their entries (ADR-0005: "can never drift out
of lockstep"); the policy is not flushed at exit; a size read that fails after
publication returns an error and leaves the directory, which the next start loads;
`update_revision` removes the sidecar before it renames the new one; a dismissal
of a pinned capture leaves an entry that the next start resurrects;
`update_metadata` is "rewritten atomically" by a function that refuses bytes that
differ; `touch_entries` (ADR-0007) is never called; `request_cancel` in
`Reopening` releases no editor lock; `PinAction::Copy` publishes the bytes of the
PNG file as pixels; a pin that misses the work area edge to edge is not brought
back; a reset and a display change asked for by a command are not synced; the
tray's labels are not refreshed when bindings are replaced; the stage draws
annotations by id while the export paints them by z-order; blur of radius 0 does
not redact; the over-long first word of a text is not broken; an enumerator offers
format 0, which is then refused, when the PNG format cannot be registered.

## Proofs

TLC checks the small instances above; TLAPS checks the following for every value
of the constants that satisfies the modules' named assumptions. TLC evaluates
those assumptions in the runs. They say what kind of thing a constant is (bounds
are numbers, sentinels are not values, `"main"` is a thread). Those with content:
`ParseAssumption` (a canonical accelerator parses to itself or, too long, not at
all), `PinIdsAssumption` (finitely many pins are ever opened), `ScalesAssumption`
(a display scale and a smallest selection are positive), `ScenesAssumption` and
`LayoutsAssumption` (for `CaptureEngine` see [there](#annotations-and-captureengine);
in `Pins` work areas are of 32-bit integers, in `ShelfWindow` each has in addition
room for one card and the control for older ones at the largest margin: the code
does not enforce that, and on a smaller work area the shelf is clipped), and `ExtentsAssumption` (a desktop has an
area and, like a window at its largest zoom, is less than 2^31 pixels wide and
high), which only the theorem on re-anchoring uses.

Each invariant below was first checked by TLC on the run of its module.

**`CaptureCacheProofs`.** The claims that matter (`RefsCountGuards`,
`HeldEntriesSurvive`, `RevisionOfHeldEntry`) are not inductive. `CacheInv` adds
`IndexesAgree` (a registry row exists exactly for the entries; without it a
dismissal could meet an entry with no row), `CommitsAreFresh` (the id of a commit
in flight is in use and not an entry yet), `ReapsAreFinal` (an id being removed by
a dismissal is in use, not an entry, and not in flight, so it can never be
registered again) and `DownIsEmpty`. Freshness of ids carries the argument: an id
leaves `entries` for good. `CountsAreExact`, `HeldNeverDropped`, `ReapsUnowned`,
`RevisionsAreHeld` are consequences (the last, which follows from `HeldEntriesSurvive`
and the busy main thread, has no run of its own); `EvictionSpares` is a step property: only
`ReapFile`, `Boot` and the debris pass take pixels away, and a removal that is not
a debris pass has, by `ReapsAreFinal`, a target that is not an entry. Two more
invariants stand on top of `CacheInv`. `ShelfLocksInv` accounts for every Shelf
lock: it is of a card shown, of one about to be enqueued, or of one in the batch
of a thread that is dropping cards (`DropsAreBatches`: such a thread is between
two of them); a lock whose card is in none of the three would have leaked
(`ShelfLocksDoNotLeak`). `PublishedInv` says that in a directory no removal has
touched a manifest, or an entry, comes with its pixels, and that a commit which
has come to its k-th file has written the k-1 before it (`ManifestIsLast`): the
order of the writes is what makes the manifest a sign of a whole entry, at every
point where a kill may fall.

`StoreRefinement` shows that every step of the cache is a step of `CaptureStore`
or a stutter: a stutter wherever entries, guards, ids and the commit in flight
stay (`SameStore`), else the one step the store has for it. What needs `CacheInv`
is `RemovesUnheld`: a dismissal reads the registry, not the guards, and only
because the counts are exact does an empty row mean that nobody holds the entry.

**`CaptureFlowProofs`.** `FlowInv` is types, `RestsBetweenCommands`,
`NoStrandedSelection`, `EditingHoldsACard` and one strengthening,
`SelectionHasCapture` (a session in Selecting retains a capture), which the types
need: a cancelled selection records the retained capture. One lemma per group of
actions shows the step. `SelectionKeepsItsCapture` and `RevisionCommitsAreAtomic`
are step properties: no command but a new capture, which a busy session refuses,
replaces the retained one; and a commit of a revision leaves the page's calls only
by its own handler, or by being disowned, which touches neither session nor lock.
`PageShowsTheSelection` is `OverlayConverges`, about a state in which all mail has
been read; `PageInv` is what is true before. The page asks for its snapshot once,
and after it has begun to listen. From then on, while a selection is under way,
the last event on its way is the retained capture; or none is on its way and the
stage shows it; or the stage is empty, and the question or its answer, which
carries that capture, is still to be read. The last case needs that the question
and its answer are never both there, that each is there once (`Single`), and that
the answer is used only on an empty stage. The lemmas on `Hits` (where the
snapshots are in a queue) say what appending and taking leave of them.

**`SettingsStoreProofs`** proves `StoreInv` inductive and from it `TypeOK`,
`SettledIsPersisted` and `AcknowledgedIsDurable`, then that every step of the
store is a step of `DurableRegister` or a stutter (`Refinement`). The
strengthening says, as long as the two threads have not raced: what each control
point of the writer implies of the three files (after the rotation the backup
holds what the next start must find, after the write the temporary holds the
value), that values in files, pending and in flight are ordered below memory, and
that a store with neither a pending nor a running write and no failure has memory
on disk.

**`ShelfProofs`.** Of the queue, none of the claims in `QueueInv` is inductive alone.
`ExpiryIsEarned` is about a removal, and the positions a tick removes were found
earlier: `StaleOK` carries that they still hold expired cards, which needs that
every command waits for the tick (`popper`) and that removing from the back leaves
the smaller positions alone (`RemoveCardList`, from the library's facts on
sequences). `TimerOK` then says why an expired card has earned it: at every moment
its deadline, or what is left of it when paused, and the time it ran make up at
least its lifetime. `DraggedIsHeld` needs that a new card is not the dragged one
(`KnownOK`) and that the index acts on the card it is given (`IndexedCard`).

Of the window and the page (`ShelfWindow`, whose names differ from `ShelfQueue`'s
so that one proof module can extend both), `WindowsInv` has four parts.
`ScriptsOK`: the scripts are well-formed, that is, a step that replaces a script
is its last, and a session is finished only before a step that shows the shelf.
`CardsOK`: a card once said to be gone never comes back, so an event that removes
it never takes a card of the queue off the page. `PageOK` is `PageShowsQueue`
before everything has arrived: unless some thread has still to emit, or the last
list sent was an old one, the last whole list among the events is the queue; with
no such list, the page shows the queue or no list at all, and while it awaits its
first answer and has heard nothing, that answer is the queue. `WindowOK` is the
same for the window: unless a thread has still a step that shows it, it is shown
exactly when there are cards, the user has not closed it and no session is under
way. From it follow `PageIsTheQueue` and `ShelfIsBack`. `ShelfIsInside`
(`ShelfIsNotClipped`) is about every sanitised preference, every monitor of a
layout with room and every number of cards: the row chosen is one card or fits
with both margins, and in a corner what fits lies inside the work area, no sum
having wrapped around.

**`PinsProofs`.** `PinsInv` is the types, `PinsCanBeClosed` and `GuardsMatchPins`
with: an id not given out has no pin; the pin whose window is being made is open;
the registry fits, also while an acquired guard waits for its insertion; and the
watcher anchors only to a layout it knows. The types carry the arithmetic: a
saturating drag, a zoom about the cursor and an anchoring all end in 32-bit
integers, a zoom and an opacity within their bounds. `DisplayChangesReach` proves
`ReanchorReaches`: on each axis (`AxisReaches`) the new place overlaps the work
area unless the old one was edge to edge with it, also when the sum that gives
the far edge of the window wraps around, because a window that far out is past
the far edge or put at the origin.

**`HotkeysProofs`.** `HotkeysInv` has, beside the types, three independent parts.
`BackendOK`: the chords the backend has registered are held by the system for
PixelGrab, and its two maps are inverse (`ChordsReachOneAction`). `ChordsOK`: a
case for each state of the loop over the actions (`RestingOK`, `ApplyingOK`,
`ResumingOK`, `DownOK`) saying how far it has come, and that the registrations
before that point follow the new document and those behind it the previous one;
at rest that is `ActiveIsLive` and `NothingIsLeftBehind`. `DocumentsOK`: every
document came out of the parser, so parsing it once more changes it at most once,
and the store's is the registry's up to that (`StoreKeepsUp`). The whole step is
by cases on the action for each part, so that no case needs more than one.

**`AnnotationEditorProofs`.** That ids and numbers are distinct is not inductive,
since undo, Escape in a drag and reopening a card bring scenes back. `EditorInv`
says of everything that can come back (the canvas, each entry of the history both
ways, the snapshot of a gesture) that its ids and numbers are distinct and below
the counters; that the draft is in none of them yet (found to be needed when the
invariant without it failed to be inductive); and of a card that its counter is
above its numbers and its picture is its scene painted once over pixels nobody
drew on, or, for an old card, the picture it came with; the last part, from which
`MarksAreNotPaintedTwice` follows, is for files that can be read, the rest for
files that fail as well.

**`DeliveryProofs`, pictures.** Neither claim is inductive: about a picture that
leaves it says nothing of how it came about. `EngineInv` follows the picture back.
`GrabInv`: a grab under way belongs to a capture of some layout, and what each
thread has brought is a failure or the pixels of a monitor of that name in some
layout. `SessionInv`: a selection or a reveal is of a capture that was taken. `FrameInv`: the
capture the session remembers is the last one taken, and a frame that is still
there is that capture's and shows its desktop. `CallsInv`: a crop on the stage or on
its way to a handler was drawn over a capture taken so far and, if that is still
the last one, does not begin outside its bounds (`SelectionsFit`: rounding a corner
and an extent on their own does not take a crop over the corner it began from). `TaskInv`: a commit
or a save works on the capture its handler took, which is the last one as long as
the ids agree, and what it has cut, if it has as many pixels as the crop, is the
part of that capture's desktop at the crop's place, or at the frame's edge for a
crop that begins outside. The check of a grab's size is what makes a monitor that changed
meanwhile harmless (`GrabOfItsSize`), the check of the id in `flatten_crop` what
keeps a save that outlives its capture from another's frame (`CutTask`), and the
check of the crop's length what catches a crop clipped at the far edge
(`WholeCropShows`).

What the two folds compute is proved by induction over finite sets.
`SetInduction` is stated for a set of good subsets instead of an operator, and
follows from the well-foundedness of the proper-subset order on them; that a fold
has the step its definition says (`CompositeSteps`, `PaintSteps`) is an induction
over cardinalities. `CompositeIsDesktop`: after the blits of some monitors a cell
shows the one of them that is there, or nothing, and screens do not overlap, so the
order does not matter; the offsets are exact because no edge of a desktop wraps
around. `FlattenHides`: a blur makes a mean of the kernel's pixels, a kernel in a
picture of more than one pixel has a neighbour (`Neighbour`), two places of a
desktop never show one pixel (`PixelsDiffer`), and so the mean is not of one pixel
alone (`KernelMixes`); whatever is painted later is a paint, a plate, a tint or
another such mean, never a pixel of the capture (`PaintIsOver`, `StaysHidden`).

**`DeliveryProofs`, drags.** `IInv` adds to `RefsAreHeld` what the application holds: one
reference to each of the two objects of each loop under way, which are distinct
from each other and from those of other loops. So a `Release` of the client never
takes the last reference of an object that is lent, and what may be called is
alive (`CallableIsAlive`). `RendersWhatItOffers`: what an enumerator has given out
stays classified, because the PNG format, once registered, does not change.

## What is only model-checked

- Liveness (`SelectionIsShown`, `CommitsAreAnswered`, `ChangeReachesDisk`,
  `DueCardsLeave`, `LayoutIsFollowed`): the prover has no rule for fairness and
  `ENABLED`.
- `HotkeyGrammar` against `ParseAssumption`: the lengths and canonical texts are folds over token sequences; the
  `hotkeys` run evaluates the assumption on its texts.
- The claims of the table above.

## Not modelled, and why

Encoding, clipboards, dialogs, the layout of the pages and everything else that is
I/O without a state of its own. Of files only which exist, except where torn or
old contents matter (`SettingsStore`). Access times and the LRU order of the quota
loop (any order is allowed), the assets of frozen frames and their reaping,
`touch_entries`, `cancel_pending`, `rebind`, `set_binding`, `report_selection`:
nothing calls them, or nothing depends on them. The overlay's
native geometry, the shutdown sequence beyond flushes and kills, the form of title
and notes, the building of the tray menu, the synthetic platform and the fixtures
of the tests. Preferences, hotkey and pin pages are thin stores over the commands.

## What is left

1. A composition of cache, queue, editor and session: what a card on the shelf can
   promise, on top of `CaptureStore`.
2. The overlay's native geometry and the shutdown sequence.
