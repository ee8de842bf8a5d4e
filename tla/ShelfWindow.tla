------------------------------ MODULE ShelfWindow ------------------------------
(***************************************************************************)
(* What the shelf shows: the snapshots of the queue that the main thread,  *)
(* the ticker and the display watcher publish, to the native window        *)
(* (shelf/mod.rs) and as events to the page (shelf/controller.svelte.ts),  *)
(* placed by the preferences (contracts/shelf_preferences.rs), and the     *)
(* captures, which hide the shelf and bring it back.                       *)
(*                                                                         *)
(* A publication is a script: the steps a thread has still to take, in the *)
(* code's order, with the snapshot they carry.  Threads take their steps   *)
(* in any order, since none of them holds a lock from its snapshot to its  *)
(* last step.  Of the queue the cards are kept: a card is the number of    *)
(* its commit, the newest is first, and the timers and their ticks are in  *)
(* ShelfQueue, so here any card may be due.  The monitors may be any of    *)
(* Layouts whenever they are asked for.  The removals from the cache,      *)
(* copy, save and the countdown on the page are left out.                  *)
(***************************************************************************)
EXTENDS Geometry, Sequences

CONSTANTS
  MaxCommits,        \* bound: cards committed
  MaxCount,          \* bound: cards put in place
  MaxEvents,         \* bound: events on their way to the page
  Background,        \* the threads that do the ticker's or the watcher's work
  Layouts,           \* sets of [id, primary, bounds, work, scale]
  Requests,          \* preferences the settings page may send
  Cursors,           \* where the pointer may be
  SystemFails,       \* whether a layout query, a grab or a delivery may fail
  NoCards

ASSUME CountsAssumption == MaxCommits \in Nat \ {0} /\ MaxEvents \in Nat \ {0}

VARIABLES
  queue,             \* ShelfQueueEngine: the cards
  prefs,             \* PreferencesStore.current
  session,           \* "idle", "capturing" or "selecting"
  script, snap,      \* of each thread: its next steps, and their snapshot
  shown,             \* whether the native window is
  events,            \* on their way to the page
  page, answer,      \* the page; the answer to its first question
  committed,         \* cards committed so far
  removed,           \* the card the last dismissal took off
  closed,            \* history: hidden by the user and not shown since
  aged               \* history: who was last given a snapshot that was old,
                     \* or had no place: "window", "page"

listVars   == <<queue, committed, removed>>
threadVars == <<script, snap>>
screenVars == <<shown, closed>>
pageVars   == <<page, answer>>
windowVars == <<listVars, threadVars, screenVars, pageVars, prefs, session, events, aged>>

Publishers == {"main"} \cup Background

--------------------------------------------------------------------------------
(* Preferences and placement.                                              *)

MinMargin == 0
MaxMargin == 128
MinVisible == 1
MaxVisible == 8

DefaultPreferences ==
  [corner |-> "bottom_right", target |-> "primary", margin |-> 24, visible |-> 4]

\* Seeded fault: the margin is taken as it comes.
SanitizeCount(p) == [p EXCEPT !.visible = ClampTo(@, MinVisible, MaxVisible)]

Sanitize(p) == [p EXCEPT !.margin = ClampTo(@, MinMargin, MaxMargin),
                         !.visible = ClampTo(@, MinVisible, MaxVisible)]

CardWidth      == 260
CardHeight     == 220
CardGap        == 12
OverflowHeight == 44

\* A length in WebView pixels at a scale in per cent, rounded up.
ToPhysical(n, scale) == (n * scale + 99) \div 100

QueueHeight(count, overflow) ==
  CardHeight * count + CardGap * (count - 1) + IF overflow THEN CardGap + OverflowHeight ELSE 0

\* placement_for_overflow: the corner, never past the near edges' margin.
PlacementForOverflow(p, monitor, visible, overflow) ==
  LET work   == monitor.work
      width  == ToPhysical(CardWidth, monitor.scale)
      height == ToPhysical(QueueHeight(ClampTo(visible, 1, p.visible), overflow), monitor.scale)
      left   == work.x + p.margin
      top    == work.y + p.margin
      right  == Larger(work.x + work.w - p.margin - width, left)
      bottom == Larger(work.y + work.h - p.margin - height, top)
  IN  Rect(IF p.corner \in {"top_left", "bottom_left"} THEN left ELSE right,
           IF p.corner \in {"top_left", "top_right"} THEN top ELSE bottom,
           width, height)

\* Seeded fault: the margins are not taken off the room there is.
FitsIgnoringMargin(p, monitor, count, visible) ==
  PlacementForOverflow(p, monitor, visible, count > visible).h <= monitor.work.h

Fits(p, monitor, count, visible) ==
  PlacementForOverflow(p, monitor, visible, count > visible).h
    <= Larger(monitor.work.h - 2 * p.margin, 0)

\* fit_shelf_snapshot: how many of the cards the row shows, the others are in
\* the overflow; and where that puts the shelf.
RowThatFits(count, p, monitor) ==
  Max({1} \cup {v \in 1..Smaller(count, p.visible) : Fits(p, monitor, count, v)})

FittedPosition(count, p, monitor) ==
  LET visible == RowThatFits(count, p, monitor)
  IN  PlacementForOverflow(p, monitor, visible, count > visible)

\* A system has a monitor, and on each room for one card and the control for
\* older ones, whatever the margin; the settings page sends numbers.
HasRoom(monitor) ==
  LET work == monitor.work
  IN  /\ work.x \in Int32 /\ work.w \in 1..MaxInt /\ work.x + work.w <= MaxInt
      /\ work.y \in Int32 /\ work.h \in 1..MaxInt /\ work.y + work.h <= MaxInt
      /\ monitor.scale \in Nat \ {0}
      /\ MaxMargin + ToPhysical(CardWidth, monitor.scale) <= work.w
      /\ MaxMargin + ToPhysical(QueueHeight(1, TRUE), monitor.scale) <= work.h
ASSUME LayoutsAssumption == \A l \in Layouts : l # {} /\ \A m \in l : HasRoom(m)

Corners == {"top_left", "top_right", "bottom_left", "bottom_right"}
Targets == {"primary", "cursor"} \cup {m.id : m \in UNION Layouts}
ASSUME RequestsAssumption ==
  Requests \subseteq [corner : Corners, target : Targets, margin : Nat, visible : Nat]

Covers(bounds, point) == /\ bounds.x <= point.x /\ point.x < Right(bounds)
                         /\ bounds.y <= point.y /\ point.y < Bottom(bounds)
MonitorsContaining(l, point) == {m \in l : Covers(m.bounds, point)}

\* resolve_preferred_monitor: what may be chosen for a cursor.
PreferredMonitor(p, l, cursor) ==
  LET named   == IF p.target = "cursor" THEN MonitorsContaining(l, cursor)
                                        ELSE {m \in l : m.id = p.target}
      primary == {m \in l : m.primary}
  IN  CHOOSE m \in l : IF named # {} THEN m \in named
                       ELSE IF primary # {} THEN m \in primary ELSE TRUE

\* snapshot_with_resolved_position, with_position: a queue with cards gets a
\* place, unless the layout cannot be had.
Snapshots(cards) ==
  {[cards |-> cards, placed |-> b] : b \in IF cards = {} THEN {FALSE}
                                         ELSE IF SystemFails THEN BOOLEAN ELSE {TRUE}}

NoSnapshot == [cards |-> {}, placed |-> FALSE]

--------------------------------------------------------------------------------
(* Scripts.                                                                *)

\* What follows an operation that keeps the snapshot it took, one that takes
\* it when it is done, a dismissal of an entry that is gone, a commit of a
\* revision and of a capture, a capture that is not delivered, and a change
\* that nobody announces.
Announce == <<"sync", "emit">>
Publish  == <<"snapshot", "sync", "emit">>
Clear    == <<"snapshot", "sync", "emit", "cleared">>
Reveal   == <<"snapshot", "show", "emit">>
Return   == <<"snapshot", "show", "emit", "finish", "snapshot", "sync">>
GiveUp   == <<"finish", "snapshot", "sync">>
Resync   == <<"snapshot", "sync">>

WindowInit ==
  /\ queue \in SUBSET (1..(MaxCommits - 1))
  /\ committed = MaxCommits - 1 /\ removed = 0
  /\ prefs = DefaultPreferences
  /\ session = "idle"
  /\ script = [t \in Publishers |-> IF t = "main" THEN Publish ELSE <<>>]
  /\ snap = [t \in Publishers |-> NoSnapshot]
  /\ shown = FALSE /\ closed = FALSE
  /\ events = <<>>
  /\ page = [at |-> "loading", cards |-> NoCards, heard |-> FALSE]
  /\ answer = NoCards
  /\ aged = {}

Idle(t) == script[t] = <<>>
At(t, step) == ~Idle(t) /\ Head(script[t]) = step
Begin(t, steps) == script' = [script EXCEPT ![t] = steps]

\* A snapshot lives as long as its script.
StepOn(t) == /\ script' = [script EXCEPT ![t] = Tail(@)]
             /\ snap' = IF Len(script[t]) = 1 THEN [snap EXCEPT ![t] = NoSnapshot] ELSE snap

Carry(t, s) == snap' = [snap EXCEPT ![t] = s]

TakeSnapshot(t) ==
  /\ At(t, "snapshot")
  /\ script' = [script EXCEPT ![t] = Tail(@)]
  /\ \E s \in Snapshots(queue) : Carry(t, s)
  /\ UNCHANGED <<listVars, screenVars, pageVars, prefs, session, events, aged>>

\* What a thread gives away may have aged in its hands.
Give(t, to) == aged' = IF snap[t].cards = queue THEN aged \ {to} ELSE aged \cup {to}

\* show_queue and hide_card; a snapshot without a place moves nothing.
Hide == shown' = FALSE /\ UNCHANGED closed
ShowAt(t) ==
  \/ /\ snap[t].placed
     /\ shown' = TRUE /\ closed' = FALSE /\ Give(t, "window")
  \/ /\ ~snap[t].placed
     /\ aged' = aged \cup {"window"} /\ UNCHANGED screenVars

Show(t) ==
  /\ At(t, "show") /\ StepOn(t)
  /\ ShowAt(t)
  /\ UNCHANGED <<listVars, pageVars, prefs, session, events>>

\* sync_shelf_window.
SyncWindow(t) == IF snap[t].cards = {} THEN Hide /\ Give(t, "window") ELSE ShowAt(t)

Sync(t) ==
  /\ At(t, "sync") /\ StepOn(t)
  /\ SyncWindow(t)
  /\ UNCHANGED <<listVars, pageVars, prefs, session, events>>

Send(message) ==
  /\ Len(events) < MaxEvents
  /\ events' = IF page.at = "loading" THEN events ELSE Append(events, message)

Emit(t) ==
  /\ At(t, "emit") /\ StepOn(t)
  /\ Send([cards |-> snap[t].cards])
  /\ Give(t, "page")
  /\ UNCHANGED <<listVars, screenVars, pageVars, prefs, session>>

EmitCleared ==
  /\ At("main", "cleared") /\ StepOn("main")
  /\ Send([gone |-> removed])
  /\ UNCHANGED <<listVars, screenVars, pageVars, prefs, session, aged>>

--------------------------------------------------------------------------------
(* Operations on the queue.                                                *)

\* dismiss_cache_entry.  The entry is reaped unless something else holds it;
\* Cache::dismiss never fails, so its card is never put back.
DismissEntry(c) ==
  /\ Idle("main") /\ c \in queue
  /\ queue' = queue \ {c} /\ removed' = c
  /\ \E steps \in {Publish, Clear} : Begin("main", steps)
  /\ UNCHANGED <<committed, snap, screenVars, pageVars, prefs, session, events, aged>>

\* hover_shelf_card, unhover_shelf_card: the snapshot is the engine's.
TouchCard(c) ==
  /\ Idle("main") /\ c \in queue
  /\ \E s \in Snapshots(queue) : Carry("main", s)
  /\ Begin("main", Announce)
  /\ UNCHANGED <<listVars, screenVars, pageVars, prefs, session, events, aged>>

Expire(S) == /\ queue' = queue \ S
             /\ UNCHANGED <<committed, removed>>

\* tick_shelf_queue publishes what its tick left.
TickCommand(S) ==
  /\ Idle("main")
  /\ Expire(S)
  /\ \E s \in Snapshots(queue') : Carry("main", s)
  /\ Begin("main", Announce)
  /\ UNCHANGED <<screenVars, pageVars, prefs, session, events, aged>>

\* shelf_ticker_loop takes a new snapshot when it has dismissed the cards.
TickerWakes(t, S) ==
  /\ Idle(t) /\ S # {}
  /\ Expire(S)
  /\ Begin(t, Publish)
  /\ UNCHANGED <<snap, screenVars, pageVars, prefs, session, events, aged>>

\* react_to_layout_change, its shelf part.
WatcherReacts(t) ==
  /\ Idle(t)
  /\ Begin(t, Reveal)
  /\ UNCHANGED <<listVars, snap, screenVars, pageVars, prefs, session, events, aged>>

\* update_shelf_preferences: a preview changes what is kept, a commit what is
\* seen.
UpdatePreferences(request, commit) ==
  /\ Idle("main")
  /\ prefs' = Sanitize(request)
  /\ Begin("main", IF commit THEN Publish ELSE <<>>)
  /\ UNCHANGED <<queue, committed, removed, snap, screenVars, pageVars, session, events, aged>>

\* show_shelf_queue: the tray, a second launch, the hotkey.
ShowHistory ==
  /\ Idle("main")
  /\ Begin("main", <<"snapshot", "present">>)
  /\ UNCHANGED <<listVars, snap, screenVars, pageVars, prefs, session, events, aged>>

\* The first failure ends it: without a place nothing is published.
Present ==
  /\ At("main", "present")
  /\ SyncWindow("main")
  /\ IF snap["main"].cards # {} /\ ~snap["main"].placed
     THEN StepOn("main")
     ELSE Begin("main", <<"emit">>) /\ UNCHANGED snap
  /\ UNCHANGED <<listVars, pageVars, prefs, session, events>>

--------------------------------------------------------------------------------
(* Captures.                                                               *)

\* capture_native: the shelf is hidden before the platform reads the screen.
RequestCapture ==
  /\ Idle("main") /\ session = "idle"
  /\ session' = "capturing"
  /\ Hide
  /\ Begin("main", <<"grab">>)
  /\ UNCHANGED <<listVars, snap, pageVars, prefs, events, aged>>

\* The overlay comes up, or cannot, or a full-screen capture is delivered at
\* once, or the grab fails.
Grab ==
  /\ At("main", "grab")
  /\ \/ session' = "selecting" /\ Begin("main", <<>>)
     \/ session' = "capturing" /\ Begin("main", <<"deliver">>)
     \/ SystemFails /\ session' \in {"capturing", "idle"} /\ Begin("main", Resync)
  /\ UNCHANGED <<listVars, snap, screenVars, pageVars, prefs, events, aged>>

RequestCommit ==
  /\ Idle("main") /\ session = "selecting"
  /\ Begin("main", <<"deliver">>)
  /\ UNCHANGED <<listVars, snap, screenVars, pageVars, prefs, session, events, aged>>

AddCard == /\ committed < MaxCommits
           /\ committed' = committed + 1
           /\ queue' = queue \cup {committed'}
           /\ UNCHANGED removed

\* commit_capture: the card is added and shown if all goes well, and the shelf
\* comes back whatever happens.
Deliver ==
  /\ At("main", "deliver")
  /\ \/ AddCard /\ Begin("main", Return)
     \/ UNCHANGED listVars /\ Begin("main", GiveUp)
  /\ UNCHANGED <<snap, screenVars, pageVars, prefs, session, events, aged>>

Finish ==
  /\ At("main", "finish") /\ StepOn("main")
  /\ session' = "idle"
  /\ UNCHANGED <<listVars, screenVars, pageVars, prefs, events, aged>>

\* commit_revision.
CommitRevision ==
  /\ Idle("main") /\ session = "idle"
  /\ AddCard
  /\ Begin("main", Reveal)
  /\ UNCHANGED <<snap, screenVars, pageVars, prefs, session, events, aged>>

\* Seeded fault: the shelf stays hidden when a selection is given up.
RequestCancelQuietly ==
  /\ Idle("main") /\ session = "selecting"
  /\ session' = "idle"
  /\ Begin("main", <<>>)
  /\ UNCHANGED <<listVars, snap, screenVars, pageVars, prefs, events, aged>>

\* request_cancel, and the close of the overlay window.
RequestCancel ==
  /\ Idle("main") /\ session = "selecting"
  /\ session' = "idle"
  /\ Begin("main", Resync)
  /\ UNCHANGED <<listVars, snap, screenVars, pageVars, prefs, events, aged>>

\* The user closes the shelf window: it is hidden instead.
CloseShelf ==
  /\ Idle("main") /\ shown
  /\ shown' = FALSE /\ closed' = TRUE
  /\ UNCHANGED <<listVars, threadVars, pageVars, prefs, session, events, aged>>

--------------------------------------------------------------------------------
(* The page.                                                               *)

Subscribe ==
  /\ page.at = "loading"
  /\ page' = [page EXCEPT !.at = "listening"]
  /\ UNCHANGED <<listVars, threadVars, screenVars, answer, prefs, session, events, aged>>

\* get_shelf_queue_snapshot, asked once the page listens.
AnswerPage ==
  /\ page.at = "listening" /\ Idle("main")
  /\ page' = [page EXCEPT !.at = "asked"]
  /\ answer' = queue
  /\ UNCHANGED <<listVars, threadVars, screenVars, prefs, session, events, aged>>

\* Seeded fault: the answer is shown whatever came before it.
TakeAnswerAlways ==
  /\ page.at = "asked"
  /\ page' = [page EXCEPT !.at = "ready", !.cards = answer]
  /\ answer' = NoCards
  /\ UNCHANGED <<listVars, threadVars, screenVars, prefs, session, events, aged>>

\* An answer that an event has overtaken is dropped.
TakeAnswer ==
  /\ page.at = "asked"
  /\ page' = [page EXCEPT !.at = "ready", !.cards = IF page.heard THEN @ ELSE answer]
  /\ answer' = NoCards
  /\ UNCHANGED <<listVars, threadVars, screenVars, prefs, session, events, aged>>

\* Both kinds of events count as heard.
TakeEvent ==
  /\ events # <<>>
  /\ LET e == Head(events)
     IN  page' = [page EXCEPT !.heard = TRUE,
                    !.cards = IF "cards" \in DOMAIN e THEN e.cards
                              ELSE IF @ = NoCards THEN NoCards ELSE @ \ {e.gone}]
  /\ events' = Tail(events)
  /\ UNCHANGED <<listVars, threadVars, screenVars, answer, prefs, session, aged>>

--------------------------------------------------------------------------------
Steps == \E t \in Publishers : TakeSnapshot(t) \/ Show(t) \/ Sync(t) \/ Emit(t)

Commands ==
  \/ \E c \in 1..MaxCommits : DismissEntry(c) \/ TouchCard(c)
  \/ \E S \in SUBSET queue : TickCommand(S) \/ \E t \in Background : TickerWakes(t, S)
  \/ \E request \in Requests, commit \in BOOLEAN : UpdatePreferences(request, commit)
  \/ \E t \in Background : WatcherReacts(t)
  \/ ShowHistory \/ Present \/ EmitCleared \/ CloseShelf

Captures == RequestCapture \/ Grab \/ RequestCommit \/ Deliver \/ Finish \/ CommitRevision
            \/ RequestCancel

Page == Subscribe \/ AnswerPage \/ TakeAnswer \/ TakeEvent

WindowNext == Steps \/ Commands \/ Captures \/ Page

WindowSpec == WindowInit /\ [][WindowNext]_windowVars

--------------------------------------------------------------------------------
(* Properties.                                                             *)

AtRest == /\ \A t \in Publishers : Idle(t)
          /\ events = <<>> /\ page.at = "ready"

\* Every change of the queue is announced: once nothing is on its way, and
\* unless the last snapshot it was sent was an old one, a page that shows cards
\* shows those of the queue, whatever was lost while it loaded and however its
\* first answer and the events crossed (controller.svelte.ts `start').
PageShowsQueue ==
  AtRest /\ "page" \notin aged /\ page.cards # NoCards => page.cards = queue

\* A capture hides the shelf, and every way out of it brings the shelf back:
\* between captures it is on the screen exactly when it has cards, unless the
\* user closed it, or the last snapshot was an old one or had no place (commands.rs
\* `capture_native', `commit_capture', `request_cancel'; lib.rs close handler).
ShelfComesBack ==
  AtRest /\ session = "idle" /\ "window" \notin aged /\ ~closed
    => (shown <=> queue # {})

\* The shelf is never clipped: whatever the monitors, and however many the
\* cards, it is put inside the work area, where a card and the control for
\* older ones have room (shelf_preferences.rs `placement_for_overflow').  It is
\* asked at rest, which every choice of preferences reaches.
Inside(inner, outer) == /\ inner.x >= outer.x /\ Right(inner) <= Right(outer)
                        /\ inner.y >= outer.y /\ Bottom(inner) <= Bottom(outer)
ShelfIsNotClipped ==
  AtRest => \A l \in Layouts, c \in Cursors, count \in 1..MaxCount :
              LET monitor == PreferredMonitor(prefs, l, c)
              IN  Inside(FittedPosition(count, prefs, monitor), monitor.work)

--------------------------------------------------------------------------------
(* Claims the code does not keep.                                          *)

\* commands.rs:216-218, "Hide the companion before the platform reads the
\* framebuffer": the shelf is not in the picture.
ShelfIsNotInPicture == [][Grab => ~shown]_windowVars

\* commands.rs:108, "Keep the native shelf window's bounds in lockstep with the
\* queue event".
WindowFollowsQueue ==
  AtRest /\ session = "idle" /\ ~closed => (shown <=> queue # {})

\* shelf.test.ts:1-4: the page rehydrates on startup.
PageIsNotBlank == AtRest => page.cards # NoCards
================================================================================
