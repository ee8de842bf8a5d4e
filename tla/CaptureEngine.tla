----------------------------- MODULE CaptureEngine -----------------------------
(***************************************************************************)
(* The pixels of a capture, from the monitors to what is delivered: the    *)
(* native capture engine (platform/windows/capture.rs, platform.rs), the   *)
(* commands that capture, commit and save (ipc/commands.rs), the overlay's *)
(* selection, and the display watcher, which shares the engine's layout.   *)
(*                                                                         *)
(* Commands run on the main thread, one at a time; save_capture_as runs on *)
(* a thread of the async runtime, the watcher and the monitors' grabs on   *)
(* their own.  Steps are split where the engine's mutex is let go.  A      *)
(* pixel names its monitor and its place there.  The session is reduced to *)
(* what the pixels depend on (CaptureFlow has all of it), its revisions    *)
(* left out, and the clipboard, the shelf and the file a picture goes to   *)
(* to whether they fail.                                                   *)
(*                                                                         *)
(* The overlay's commits and saves are calls: what was drawn goes along,   *)
(* and the handler, when it runs, takes the last capture as it is then.  A *)
(* page that lags behind is a call that is late.                           *)
(***************************************************************************)
EXTENDS Annotations

CONSTANTS
  Layouts,           \* what the system may report: sets of [id, primary, bounds]
  NoLayout, NoFrame, NoCapture,
  MaxCaptures,       \* bound: captures taken
  MaxMonitors,       \* MAX_MONITORS_PER_CAPTURE
  MaxPixels,         \* MAX_FRAMEBUFFER_PIXELS
  ScalePercent,      \* display scale: physical pixels per hundred CSS pixels
  MinSelection,      \* the smallest selection the overlay reports
  Scenes,            \* the annotations the user may have drawn
  SystemFails        \* whether queries, grabs, writes and reveals may fail

\* What a system reports: screens of some extent, no two in one place or under
\* one name, on a desktop of 32-bit places and extents, one of them primary.
IsDesktop(l) ==
  /\ \A m \in l : /\ m.bounds \in [x : Int32, y : Int32, w : 1..MaxInt, h : 1..MaxInt]
                  /\ m.primary \in BOOLEAN
  /\ \A m, n \in l : /\ m.id = n.id => m = n
                     /\ m # n => Intersect(m.bounds, n.bounds) = Empty
                     /\ m.bounds.x + m.bounds.w <= MaxInt + Smaller(n.bounds.x, 0)
                     /\ m.bounds.y + m.bounds.h <= MaxInt + Smaller(n.bounds.y, 0)
  /\ \E m \in l : m.primary

\* Excluded: a screen that is turned, and another one that becomes primary,
\* between the query of the layout and the grab.
Steady(m, n) ==
  /\ m.id = n.id /\ Area(m.bounds) = Area(n.bounds) => m.bounds.w = n.bounds.w
  /\ m.primary /\ n.primary =>
       m.id = n.id /\ m.bounds.x = n.bounds.x /\ m.bounds.y = n.bounds.y

ASSUME LayoutsAssumption ==
  /\ \A l \in Layouts : IsFiniteSet(l) /\ IsDesktop(l)
  /\ \A m, n \in UNION Layouts : Steady(m, n)

\* A stage has an extent; the toolbar draws blurs of one positive radius.
ASSUME ScalesAssumption == ScalePercent \in Nat \ {0} /\ MinSelection \in Nat \ {0}
ASSUME ScenesAssumption ==
  \A scene \in Scenes :
    /\ DOMAIN scene \subseteq Nat /\ IsFiniteSet(DOMAIN scene)
    /\ \A n \in DOMAIN scene : /\ IsAnnotation(scene[n])
                               /\ scene[n].kind = "blur" => scene[n].radius > 0

VARIABLES
  layout,            \* the monitors there are
  frozen, cached, dirty,   \* EngineState
  main,              \* the command under way on the main thread
  save,              \* the save_capture_as under way
  session,           \* "idle", "capturing", "ready" or "selecting"
  last,              \* SessionOrchestrator.last_capture
  selection,         \* the overlay's crop and annotations
  sent,              \* its request_commit on the way to the main thread
  taken,             \* captures taken; the newest one's id
  watcher            \* its next step

engineVars  == <<frozen, cached, dirty>>
sessionVars == <<session, last, selection, sent, taken>>
captureVars == <<layout, engineVars, main, save, sessionVars, watcher>>

Idle == [at |-> "idle"]

EngineInit ==
  /\ layout \in Layouts
  /\ frozen = NoFrame /\ cached = NoLayout /\ dirty = TRUE
  /\ main = Idle /\ save = Idle
  /\ session = "idle" /\ last = NoCapture /\ taken = 0
  /\ selection = NoCapture /\ sent = NoCapture
  /\ watcher = "invalidate"

--------------------------------------------------------------------------------
\* monitor_layout: the cached layout unless it is suspect.
Trusted == ~dirty /\ cached # NoLayout
MonitorLayout(l) ==
  IF Trusted THEN l = cached /\ UNCHANGED <<cached, dirty>>
             ELSE l = layout /\ cached' = l /\ dirty' = FALSE
QueryFails == SystemFails /\ ~Trusted

The(l, id) == CHOOSE m \in l : m.id = id
Has(l, id) == \E m \in l : m.id = id

\* What a monitor's grab returns: its pixels, row by row.
Grab(m) == Buffer(Size(m.bounds.w, m.bounds.h), LAMBDA x, y : [pixel |-> <<m.id, x, y>>])
Failed  == <<>>
With(shots, id, shot) == [n \in DOMAIN shots \cup {id} |-> IF n = id THEN shot ELSE shots[n]]

\* The rows of a buffer inside a region (copy_region, capture_region).
CopyRegion(src, width, region) ==
  Buffer(region, LAMBDA x, y : src[(region.y + y) * width + region.x + x])

\* The pixels of a monitor land at its offset (blit_rgba).
BlitRgba(dst, size, offset, src) ==
  [i \in DOMAIN dst |->
     LET x == (i % size.w) - offset.x
         y == (i \div size.w) - offset.y
     IN  IF x \in 0..(offset.w - 1) /\ y \in 0..(offset.h - 1) THEN src[y * offset.w + x] ELSE dst[i]]

Uncovered == [pixel |-> <<>>]
Composite(l, bounds, shots) ==
  LET offset(m) == MonitorToCaptureBuffer(m.bounds, bounds, bounds)
  IN  FoldSet(LAMBDA m, dst : BlitRgba(dst, bounds, offset(m), shots[m.id]),
              Buffer(bounds, LAMBDA x, y : Uncovered), l)

--------------------------------------------------------------------------------
\* capture_native, its resolve_capture_request: a region capture takes the
\* whole desktop, a full-screen capture one monitor of the layout.
RequestRegion ==
  /\ main = Idle /\ session = "idle" /\ taken < MaxCaptures
  /\ main' = [at |-> "layout", target |-> "desktop"]
  /\ session' = "capturing"
  /\ UNCHANGED <<layout, engineVars, save, last, selection, sent, taken, watcher>>

RequestFullScreen ==
  /\ main = Idle /\ session = "idle" /\ taken < MaxCaptures
  /\ \E l \in Layouts : /\ MonitorLayout(l)
                        /\ \E m \in l : main' = [at |-> "layout", target |-> m.id]
  /\ session' = "capturing"
  /\ UNCHANGED <<layout, frozen, save, last, selection, sent, taken, watcher>>

\* CaptureEngine::capture: its bounds come from the layout.
BoundsOf(l, target) == IF target = "desktop" THEN VirtualBounds(l) ELSE The(l, target).bounds
Capturable(l, target) ==
  IF target = "desktop" THEN Cardinality(l) <= MaxMonitors /\ Area(VirtualBounds(l)) <= MaxPixels
                        ELSE Has(l, target)

TakeLayout ==
  /\ main.at = "layout"
  /\ \E l \in Layouts :
       /\ MonitorLayout(l) /\ Capturable(l, main.target)
       /\ main' = [at |-> "grab", target |-> main.target, of |-> l,
                   bounds |-> BoundsOf(l, main.target), shots |-> <<>>]
  /\ UNCHANGED <<layout, frozen, save, sessionVars, watcher>>

\* A capture that fails is over; nothing moves the session on.
LayoutRefused ==
  /\ main.at = "layout"
  /\ \/ QueryFails /\ UNCHANGED <<cached, dirty>>
     \/ \E l \in Layouts : MonitorLayout(l) /\ ~Capturable(l, main.target)
  /\ main' = Idle
  /\ UNCHANGED <<layout, frozen, save, sessionVars, watcher>>

\* capture_one_monitor, on a thread for each monitor of the layout: it looks
\* the monitor up again.
ShootMonitor(m) ==
  /\ main.at = "grab" /\ main.target = "desktop"
  /\ m \in main.of /\ m.id \notin DOMAIN main.shots
  /\ \E shot \in (IF Has(layout, m.id) THEN {Grab(The(layout, m.id))} ELSE {Failed})
                    \cup (IF SystemFails THEN {Failed} ELSE {}) :
       main' = [main EXCEPT !.shots = With(@, m.id, shot)]
  /\ UNCHANGED <<layout, engineVars, save, sessionVars, watcher>>

\* capture_single_monitor: the primary monitor is grabbed, whatever the
\* bounds, and the region clipped to it.
PrimaryOf(l) == IF \E m \in l : m.primary THEN CHOOSE m \in l : m.primary ELSE CHOOSE m \in l : TRUE
LocalRegion(bounds, m) ==
  LET x == Larger(bounds.x - m.bounds.x, 0)
      y == Larger(bounds.y - m.bounds.y, 0)
  IN  Rect(x, y, Smaller(bounds.w, Larger(m.bounds.w - x, 0)), Smaller(bounds.h, Larger(m.bounds.h - y, 0)))

ShootPrimary ==
  /\ main.at = "grab" /\ main.target # "desktop" /\ main.shots = <<>>
  /\ LET m      == PrimaryOf(layout)
         region == LocalRegion(main.bounds, m)
     IN  \E shot \in (IF IsEmpty(region) THEN {Failed} ELSE {CopyRegion(Grab(m), m.bounds.w, region)})
                       \cup (IF SystemFails THEN {Failed} ELSE {}) :
           main' = [main EXCEPT !.shots = With(@, main.target, shot)]
  /\ UNCHANGED <<layout, engineVars, save, sessionVars, watcher>>

\* Every grab came and has as many pixels as the layout says.
Shot == IF main.target = "desktop" THEN DOMAIN main.shots = {m.id : m \in main.of}
                                   ELSE main.shots # <<>>
Sized(shot, bounds) == shot # Failed /\ Cardinality(DOMAIN shot) = Area(bounds)
ShotsWhole ==
  IF main.target = "desktop" THEN \A m \in main.of : Sized(main.shots[m.id], m.bounds)
                             ELSE Sized(main.shots[main.target], main.bounds)

\* The frame, and the capture the session remembers.  `of' and `target' are
\* for the properties, as is `drawn', the capture a crop was drawn over.
Frame == [id |-> taken + 1, bounds |-> main.bounds,
          rgba |-> IF main.target = "desktop" THEN Composite(main.of, main.bounds, main.shots)
                                              ELSE main.shots[main.target]]
Resolution == [id |-> taken + 1, bounds |-> main.bounds, target |-> main.target, of |-> main.of]

FreezeFrame ==
  /\ main.at = "grab" /\ Shot /\ ShotsWhole
  /\ frozen' = Frame /\ last' = Resolution /\ taken' = taken + 1
  /\ main' = IF main.target = "desktop" THEN [at |-> "reveal"]
             ELSE [at |-> "flatten", ask |-> Resolution, drawn |-> taken + 1,
                   crop |-> main.bounds, annotations |-> <<>>]
  /\ session' = "ready"
  /\ UNCHANGED <<layout, cached, dirty, save, selection, sent, watcher>>

\* A grab that failed or has the wrong size, or a frame file not written.
CaptureFails ==
  /\ main.at = "grab" /\ Shot /\ (~ShotsWhole \/ SystemFails)
  /\ main' = Idle
  /\ UNCHANGED <<layout, engineVars, save, sessionVars, watcher>>

\* The overlay is revealed over the current layout, or cannot be.
Reveal ==
  /\ main.at = "reveal"
  /\ \/ \E l \in Layouts : MonitorLayout(l)
     \/ QueryFails /\ UNCHANGED <<cached, dirty>>
  /\ main' = Idle
  /\ \/ session' = "selecting"
     \/ SystemFails /\ session' = "idle"
  /\ UNCHANGED <<layout, frozen, save, last, selection, sent, taken, watcher>>

--------------------------------------------------------------------------------
\* The overlay: a drag on the stage becomes a crop, its corner and its extent
\* rounded on their own (KonvaStage emitPhysicalSelection).
Stage(bounds) == Size(RoundDiv(bounds.w * 100, ScalePercent), RoundDiv(bounds.h * 100, ScalePercent))
Drags(stage) == {r \in [x : 0..stage.w, y : 0..stage.h, w : 1..stage.w, h : 1..stage.h] :
                   r.x + r.w <= stage.w /\ r.y + r.h <= stage.h}
PhysicalSelection(r, bounds) ==
  Rect(bounds.x + StageToPhysical(r.x, bounds.w, Stage(bounds).w),
       bounds.y + StageToPhysical(r.y, bounds.h, Stage(bounds).h),
       StageToPhysical(r.w, bounds.w, Stage(bounds).w),
       StageToPhysical(r.h, bounds.h, Stage(bounds).h))
Selections(bounds) == {s \in {PhysicalSelection(r, bounds) : r \in Drags(Stage(bounds))} :
                         s.w >= MinSelection /\ s.h >= MinSelection}

Select ==
  /\ session = "selecting" /\ selection = NoCapture
  /\ \E crop \in Selections(last.bounds), scene \in Scenes :
       selection' = [drawn |-> last.id, crop |-> crop, annotations |-> scene]
  /\ UNCHANGED <<layout, engineVars, main, save, session, last, sent, taken, watcher>>

\* The page sends a commit unless one of its is not answered yet (onCommit).
Committing == main.at \in {"flatten", "clear", "deliver", "finish"}
RequestCommit ==
  /\ selection # NoCapture /\ sent = NoCapture /\ ~Committing
  /\ sent' = selection
  /\ UNCHANGED <<layout, engineVars, main, save, session, last, selection, taken, watcher>>

\* commit_body and save_capture_as take the last capture as it is now, whatever
\* the session does.
Asked(call) == [at |-> "flatten", ask |-> last, drawn |-> call.drawn,
                crop |-> call.crop, annotations |-> call.annotations]

BeginCommit ==
  /\ main = Idle /\ sent # NoCapture
  /\ main' = Asked(sent) /\ sent' = NoCapture
  /\ UNCHANGED <<layout, engineVars, save, session, last, selection, taken, watcher>>

\* The picture a commit or a save is to deliver is cut from the frozen frame,
\* which must be of the capture the handler took (flatten_crop,
\* FrozenFrame::crop), and the frame is cleared.  Mutant: any frame will do.
FrameOfAny(task) == frozen # NoFrame

FrameOf(task) == frozen # NoFrame /\ frozen.id = task.ask.id
CropInBuffer(crop, bounds) == ClampToCaptureBuffer(PhysicalToCaptureBuffer(crop, bounds), bounds)
Croppable(task) == FrameOf(task) /\ ~IsEmpty(CropInBuffer(task.crop, frozen.bounds))

Cut(task) ==
  [at |-> "clear", ask |-> task.ask, drawn |-> task.drawn,
   crop |-> task.crop, annotations |-> task.annotations,
   rgba |-> CopyRegion(frozen.rgba, frozen.bounds.w, CropInBuffer(task.crop, frozen.bounds))]

\* commit_body delivers what it flattened if it has the length of the crop;
\* commit_capture then ends the session, however it went and whichever it is
\* (session.finish does nothing while it is idle or captures).
WholeCrop(task) == Cardinality(DOMAIN task.rgba) = Area(task.crop)

FlattenForCommit ==
  /\ main.at = "flatten" /\ Croppable(main)
  /\ main' = Cut(main)
  /\ UNCHANGED <<layout, engineVars, save, sessionVars, watcher>>

ClearForCommit ==
  /\ main.at = "clear"
  /\ frozen' = NoFrame
  /\ main' = IF WholeCrop(main) THEN [main EXCEPT !.at = "deliver"] ELSE [at |-> "finish"]
  /\ UNCHANGED <<layout, cached, dirty, save, sessionVars, watcher>>

CommitRefused ==
  /\ main.at = "flatten" /\ ~Croppable(main)
  /\ main' = [at |-> "finish"]
  /\ UNCHANGED <<layout, engineVars, save, sessionVars, watcher>>

Deliver ==
  /\ main.at = "deliver"
  /\ main' = [at |-> "finish"]
  /\ UNCHANGED <<layout, engineVars, save, sessionVars, watcher>>

FinishCommit ==
  /\ main.at = "finish"
  /\ main' = Idle /\ selection' = NoCapture
  /\ session' = IF session \in {"ready", "selecting"} THEN "idle" ELSE session
  /\ UNCHANGED <<layout, engineVars, save, last, sent, taken, watcher>>

\* request_cancel: the session goes, the frame stays.
RequestCancel ==
  /\ main = Idle /\ session = "selecting"
  /\ session' = "idle" /\ selection' = NoCapture
  /\ UNCHANGED <<layout, engineVars, main, save, last, sent, taken, watcher>>

--------------------------------------------------------------------------------
\* save_capture_as.  A crop of the wrong length is flattened all the same,
\* which panics; the dialog may be cancelled and the write fail.  Bound: one
\* save at a time.
RequestSave ==
  /\ save = Idle /\ selection # NoCapture
  /\ save' = [at |-> "sent", call |-> selection]
  /\ UNCHANGED <<layout, engineVars, main, sessionVars, watcher>>

BeginSave ==
  /\ save.at = "sent"
  /\ save' = Asked(save.call)
  /\ UNCHANGED <<layout, engineVars, main, sessionVars, watcher>>

FlattenForSave ==
  /\ save.at = "flatten"
  /\ save' = IF Croppable(save) THEN Cut(save) ELSE Idle
  /\ UNCHANGED <<layout, engineVars, main, sessionVars, watcher>>

ClearForSave ==
  /\ save.at = "clear"
  /\ frozen' = NoFrame
  /\ save' = IF WholeCrop(save) THEN [save EXCEPT !.at = "deliver"] ELSE Idle
  /\ UNCHANGED <<layout, cached, dirty, main, sessionVars, watcher>>

FinishSave ==
  /\ save.at = "deliver"
  /\ save' = Idle
  /\ UNCHANGED <<layout, engineVars, main, sessionVars, watcher>>

--------------------------------------------------------------------------------
\* Every poll of the display watcher (display.rs) starts with
\* invalidate_layout, which drops the frozen frame, and asks for the layout.
InvalidateLayout ==
  /\ watcher = "invalidate"
  /\ dirty' = TRUE /\ frozen' = NoFrame
  /\ watcher' = "query"
  /\ UNCHANGED <<layout, cached, main, save, sessionVars>>

QueryLayout ==
  /\ watcher = "query"
  /\ \/ \E l \in Layouts : MonitorLayout(l)
     \/ QueryFails /\ UNCHANGED <<cached, dirty>>
  /\ watcher' = "invalidate"
  /\ UNCHANGED <<layout, frozen, main, save, sessionVars>>

LayoutChange ==
  /\ layout' \in Layouts \ {layout}
  /\ UNCHANGED <<engineVars, main, save, sessionVars, watcher>>

Capture == \/ RequestRegion \/ RequestFullScreen \/ TakeLayout \/ LayoutRefused
           \/ (\E m \in UNION Layouts : ShootMonitor(m))
           \/ ShootPrimary \/ FreezeFrame \/ CaptureFails \/ Reveal
Commit  == \/ Select \/ RequestCommit \/ BeginCommit \/ RequestCancel \/ FlattenForCommit \/ ClearForCommit
           \/ CommitRefused \/ Deliver \/ FinishCommit
Save    == RequestSave \/ BeginSave \/ FlattenForSave \/ ClearForSave \/ FinishSave
Watcher == InvalidateLayout \/ QueryLayout

EngineNext == Capture \/ Commit \/ Save \/ Watcher \/ LayoutChange
EngineSpec == EngineInit /\ [][EngineNext]_captureVars

--------------------------------------------------------------------------------
\* The pictures about to leave: what the commit or the save flattened.
Leaving == {t \in {main, save} : t.at = "deliver"}
Picture(t) == FlattenAnnotations(t.rgba, t.crop, t.annotations)

\* The pixel of a layout's desktop at a place.
DesktopAt(l, x, y) ==
  IF \E m \in l : ~IsEmpty(Intersect(m.bounds, Rect(x, y, 1, 1)))
    THEN LET m == CHOOSE n \in l : ~IsEmpty(Intersect(n.bounds, Rect(x, y, 1, 1)))
         IN  [pixel |-> <<m.id, x - m.bounds.x, y - m.bounds.y>>]
    ELSE Uncovered
Truth(crop, l) == Buffer(crop, LAMBDA x, y : DesktopAt(l, crop.x + x, crop.y + y))

\* Where a crop is cut that may start left of a capture or above it.
CutAt(crop, bounds) == Rect(Larger(crop.x, bounds.x), Larger(crop.y, bounds.y), crop.w, crop.h)

\* What is delivered of a region, or of the primary monitor in full, is, pixel
\* by pixel, what the monitors showed when one capture was taken, all of them
\* and of that capture alone: neither the offsets, nor a monitor that fails, nor
\* a save that outlives its capture mixes anything in.  A crop drawn over that
\* capture is delivered from its place; what an older crop is cut from is the
\* capture its handler found (capture.rs `composite_virtual_desktop', platform.rs
\* `flatten_crop').
OfWhatItShows(ask) == ask.target = "desktop" \/ The(ask.of, ask.target).primary
PictureIsDesktop ==
  \A t \in Leaving :
    LET place == IF t.drawn = t.ask.id THEN t.crop ELSE CutAt(t.crop, t.ask.bounds)
    IN  OfWhatItShows(t.ask) => t.rgba = Truth(place, t.ask.of)

\* No pixel below a blur of the delivered picture is a pixel of the capture,
\* in whatever order annotations were drawn (annotation.rs `paint_blur').
Blurs(t) == {n \in DOMAIN t.annotations :
               t.annotations[n].kind = "blur" /\ t.annotations[n].radius > 0}
Readable(value, pixel) == pixel # Uncovered /\ value \in {pixel, [mean |-> {pixel}]}
RedactionHolds ==
  \A t \in Leaving : Area(t.crop) > 1 =>
    LET picture == Picture(t)
    IN  \A n \in Blurs(t) : \A i \in DOMAIN picture :
          <<i % t.crop.w, i \div t.crop.w>> \in BoxInk(t.annotations[n].box)
            => ~Readable(picture[i], t.rgba[i])

\* capture.rs: "The frozen framebuffer is retained for the lifetime of the
\* session so the commit pipeline can crop without re-capturing".
FrameOutlivesSelection ==
  session = "selecting" /\ main = Idle => frozen # NoFrame /\ frozen.id = last.id

\* commands.rs: "The `FullScreen` intent resolves the target monitor [...] and
\* issues a `SingleMonitor` capture at the monitor's native resolution": what
\* it delivers shows that monitor.
FullScreenShowsItsMonitor ==
  \A t \in Leaving : t.ask.target # "desktop" /\ t.drawn = t.ask.id => t.rgba = Truth(t.crop, t.ask.of)

\* capture.rs, of FrozenFrame::crop: "Crop the frozen framebuffer to the
\* requested physical bounds. Returns an error if the crop escapes the
\* framebuffer's extent."  What is delivered did not escape it.
Within(bounds, b) == /\ b.x >= bounds.x /\ b.x + b.w <= bounds.x + bounds.w
                     /\ b.y >= bounds.y /\ b.y + b.h <= bounds.y + bounds.h
EscapingCropIsRefused == \A t \in Leaving : Within(t.ask.bounds, t.crop)
================================================================================
