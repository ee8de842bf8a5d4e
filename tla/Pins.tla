--------------------------------- MODULE Pins ----------------------------------
(***************************************************************************)
(* Pins: the registry (pin/registry.rs), the cache lock each pin holds     *)
(* (pin/lock.rs), its native window (pin/window.rs), the pin commands of   *)
(* ipc/commands.rs, the close handler of lib.rs, and the display watcher   *)
(* thread (display.rs).                                                    *)
(*                                                                         *)
(* Commands and window events run on the main thread, one at a time; the   *)
(* watcher and the cache's evictions run beside it.  A command is split    *)
(* where it lets go of the registry or the cache.  Of what a native window *)
(* shows the model keeps whether it is its pin's view or one the view has  *)
(* left behind; the same of a view on its way to a window.  Left out:      *)
(* reading a pin (get_pin, list_pins, the bytes that copy and save read)   *)
(* and the events sent to webviews.                                        *)
(***************************************************************************)
EXTENDS Geometry

CONSTANTS
  PinIds,            \* the ids Uuid::new_v4 will return
  Captures,          \* capture ids
  MaxPins,           \* MAX_PINS
  Stagger,           \* PIN_STAGGER_PX
  Source,            \* extent of a captured image: [w, h]
  Positions,         \* initial positions a request may carry
  Drags, Cursors,    \* deltas, and cursor positions of a zoom
  Factors,           \* zoom factors: [num, den]
  Opacities,         \* opacities a command may carry
  Layouts, None,     \* monitor layouts the system may report
  SystemRefuses,     \* whether a window operation may fail
  NoPin

ASSUME NumbersAssumption  == /\ MaxPins \in Nat \ {0} /\ Stagger \in Nat
                             /\ (MaxPins + 1) * Stagger <= MaxInt
                             /\ Source \in [w : 1..MaxInt, h : 1..MaxInt]
                             /\ Factors \subseteq [num : Nat \ {0}, den : Nat \ {0}]
                             /\ Opacities \subseteq Int
                             /\ SystemRefuses \in BOOLEAN
ASSUME PointsAssumption   == Positions \subseteq Point /\ Drags \subseteq Point /\ Cursors \subseteq Point

\* A pin's place and look (contracts/pin.rs PinViewModel).
View == [capture : Captures, position : Point,
         zoom : MinZoom..MaxZoom, opacity : MinOpacity..MaxOpacity]

ASSUME LayoutsAssumption  == \A l \in Layouts \ {{}} :
                               UnionWorkArea(l) \in [x : Int32, y : Int32, w : Nat, h : Nat]
\* A desktop has an area and both it and a window at its largest fit the numbers.
ASSUME ExtentsAssumption  ==
  /\ \A l \in Layouts \ {{}} :
       LET area == UnionWorkArea(l)
       IN  /\ area.w \in 1..MaxInt /\ area.x + area.w <= MaxInt
           /\ area.h \in 1..MaxInt /\ area.y + area.h <= MaxInt
  /\ \A zoom \in MinZoom..MaxZoom : /\ Scaled(Source.w, zoom) <= MaxInt
                                   /\ Scaled(Source.h, zoom) <= MaxInt
ASSUME PinIdsAssumption   == IsFiniteSet(PinIds)
ASSUME SentinelAssumption == /\ None \notin Layouts /\ None \notin Positions
                             /\ None \notin Factors
                             /\ NoPin \notin View

VARIABLES
  pins,              \* PinRegistryInner.pins
  windows,           \* what each native window shows, if there is one
  live,              \* captures with a committed entry
  guards,            \* the entry's pin guards
  main,              \* the command under way
  fresh,             \* ids not given out yet
  layout,            \* what the system reports now
  known,             \* the watcher's remembered fingerprint
  watcher,           \* its next step
  views              \* the pins it has yet to push, and what it will push

pinVars   == <<pins, windows, fresh>>
lockVars  == <<live, guards>>
watchVars == <<layout, known, watcher, views>>
vars      == <<pinVars, lockVars, main, watchVars>>

Open     == {p \in PinIds : pins[p] # NoPin}
Shown(v) == Rect(v.position.x, v.position.y, Scaled(Source.w, v.zoom), Scaled(Source.h, v.zoom))

Shows    == {"current", "behind"}

\* contracts/pin.rs.  A request may leave the position to the registry; the
\* factor of a zoom need not be a positive number.
OpenPinRequest == [capture : Captures, initialPosition : Positions \cup {None}]
PinCommand ==
  [kind : {"drag"}, delta : Drags]
    \cup [kind : {"zoom"}, cursor : Cursors, factor : Factors \cup {None}]
    \cup [kind : {"set_opacity"}, opacity : Opacities]
    \cup [kind : {"reset"}]
PinAction  == {"copy", "save_as", "reset", "close"}

Idle   == main.at = "idle"
AtRest == [at |-> "idle"]

Init ==
  /\ pins = [p \in PinIds |-> NoPin]
  /\ windows = [p \in PinIds |-> "none"]
  /\ fresh = PinIds
  /\ live = Captures /\ guards = [c \in Captures |-> 0]
  /\ main = AtRest
  /\ layout \in Layouts /\ known = None
  /\ watcher = "poll" /\ views = <<>>

--------------------------------------------------------------------------------
\* CachePinLockProvider: a capture without an entry acquires and releases
\* nothing.
Acquired(c) == [guards EXCEPT ![c] = IF c \in live THEN @ + 1 ELSE @]
Released(c) == [guards EXCEPT ![c] = IF c \in live /\ @ > 0 THEN @ - 1 ELSE @]

\* PinRegistry::close: dropping the entry drops its lock guard.
Remove(p) == /\ pins' = [pins EXCEPT ![p] = NoPin]
             /\ guards' = Released(pins[p].capture)

\* A view that changes leaves what shows the old one behind.
Aged(shows, p) ==
  IF shows = "current" /\ p \in Open /\ Shown(pins'[p]) # Shown(pins[p]) THEN "behind" ELSE shows
Age(busy) == /\ windows' = [p \in PinIds |-> Aged(windows[p], p)]
             /\ views' = [p \in DOMAIN views |-> Aged(views[p], p)]
             /\ main' = IF busy.at \in {"window", "sync"} THEN [busy EXCEPT !.shows = Aged(@, busy.pin)] ELSE busy

--------------------------------------------------------------------------------
\* open_pin.  The entry must exist when the command looks, the registry must
\* have a slot; the lock is acquired, whatever comes of it, and the pin
\* inserted; then the window is made, and on failure the pin removed.
Staggered == LET offset == (Cardinality(Open) + 1) * Stagger IN [x |-> offset, y |-> offset]

PlacedAt(position) == IF position = None THEN Staggered ELSE position
OpenPin(request) ==
  /\ Idle /\ request.capture \in live
  /\ fresh # {} \/ Cardinality(Open) >= MaxPins
  /\ main' = [at |-> "acquire",
              view |-> [capture |-> request.capture,
                        position |-> PlacedAt(request.initialPosition),
                        zoom |-> DefaultZoom, opacity |-> DefaultOpacity]]
  /\ UNCHANGED <<pinVars, lockVars, watchVars>>

\* Mutant: the lock is acquired before the registry is found full.
OpenRefusedLocked ==
  /\ main.at = "acquire" /\ Cardinality(Open) >= MaxPins
  /\ guards' = Acquired(main.view.capture) /\ main' = AtRest
  /\ UNCHANGED <<pinVars, live, watchVars>>

OpenRefused ==
  /\ main.at = "acquire" /\ Cardinality(Open) >= MaxPins
  /\ main' = AtRest
  /\ UNCHANGED <<pinVars, lockVars, watchVars>>

AcquireLock ==
  /\ main.at = "acquire" /\ Cardinality(Open) < MaxPins
  /\ guards' = Acquired(main.view.capture)
  /\ main' = [main EXCEPT !.at = "insert"]
  /\ UNCHANGED <<pinVars, live, watchVars>>

Insert ==
  /\ main.at = "insert"
  /\ \E p \in fresh :
       /\ fresh' = fresh \ {p}
       /\ pins' = [pins EXCEPT ![p] = main.view]
       /\ main' = [at |-> "window", pin |-> p, shows |-> "current"]
  /\ UNCHANGED <<windows, lockVars, watchVars>>

\* The builder succeeds and the exact geometry is applied.
CreateWindow ==
  /\ main.at = "window"
  /\ windows' = [windows EXCEPT ![main.pin] = main.shows]
  /\ main' = AtRest
  /\ UNCHANGED <<pins, fresh, lockVars, watchVars>>

\* Mutant: the pin stays when its window cannot be made.
CreateWindowFailsAlone ==
  /\ main.at = "window" /\ SystemRefuses
  /\ main' = AtRest
  /\ UNCHANGED <<pinVars, lockVars, watchVars>>

\* The builder fails, or the window is made and then refuses its geometry:
\* it stays, without a pin.
CreateWindowFails ==
  /\ main.at = "window" /\ SystemRefuses
  /\ windows' \in {windows, [windows EXCEPT ![main.pin] = "behind"]}
  /\ Remove(main.pin)
  /\ main' = AtRest
  /\ UNCHANGED <<fresh, live, watchVars>>

--------------------------------------------------------------------------------
\* close_pin; the window is asked to close, and the event loop will.
ClosePin(p) ==
  /\ Idle /\ p \in Open
  /\ Remove(p)
  /\ UNCHANGED <<windows, fresh, live, main, watchVars>>

\* The event loop closes a window, one asked to or one the user closes: its
\* close handler closes the pin, if there still is one.
WindowClosed(p) ==
  /\ Idle /\ windows[p] # "none"
  /\ IF p \in Open THEN Remove(p) ELSE UNCHANGED <<pins, guards>>
  /\ windows' = [windows EXCEPT ![p] = "none"]
  /\ UNCHANGED <<fresh, live, main, watchVars>>

--------------------------------------------------------------------------------
\* apply_command of the registry.
Dragged(v, d) ==
  [v EXCEPT !.position = [x |-> Saturate(@.x + d.x), y |-> Saturate(@.y + d.y)]]
Times(zoom, factor) == RoundDiv(zoom * factor.num, factor.den)
Zoomed(v, cursor, factor) ==
  LET new == ClampZoom(Times(v.zoom, factor))
  IN  [v EXCEPT !.position = CursorCenteredZoom(@, cursor, v.zoom, new), !.zoom = new]
Faded(v, o) == [v EXCEPT !.opacity = ClampOpacity(o)]
ResetView(v) == [v EXCEPT !.zoom = DefaultZoom, !.opacity = DefaultOpacity]

AfterCommand(v, command) ==
  CASE command.kind = "drag"        -> Dragged(v, command.delta)
    [] command.kind = "zoom"        -> IF command.factor = None THEN v
                                       ELSE Zoomed(v, command.cursor, command.factor)
    [] command.kind = "set_opacity" -> Faded(v, command.opacity)
    [] command.kind = "reset"       -> ResetView(v)

\* apply_pin_command; its window is synced once the registry is let go.
ApplyPinCommand(p, command) ==
  /\ Idle /\ p \in Open
  /\ pins' = [pins EXCEPT ![p] = AfterCommand(@, command)]
  /\ windows' = [windows EXCEPT ![p] = Aged(@, p)]
  /\ views' = [q \in DOMAIN views |-> Aged(views[q], q)]
  /\ main' = [at |-> "sync", pin |-> p, shows |-> "current"]
  /\ UNCHANGED <<fresh, lockVars, layout, known, watcher>>

\* sync_window_to_view: nothing without a window; the move, or after it the
\* resize, may be refused.
Synced(p, shows) ==
  IF windows[p] = "none" THEN {"none"}
  ELSE {shows} \cup IF SystemRefuses THEN {windows[p], "behind"} ELSE {}

SyncWindow ==
  /\ main.at = "sync"
  /\ \E g \in Synced(main.pin, main.shows) : windows' = [windows EXCEPT ![main.pin] = g]
  /\ main' = AtRest
  /\ UNCHANGED <<pins, fresh, lockVars, watchVars>>

\* pin_action.  Copy and save read the PNG the pin names, which goes with
\* its entry, and hand on its bytes; a reset is not synced.
ReadPinSource(v) == v.capture \in live

ResetPin(p) ==
  /\ pins' = [pins EXCEPT ![p] = AfterCommand(@, [kind |-> "reset"])]
  /\ Age(main)
  /\ UNCHANGED <<fresh, lockVars, layout, known, watcher>>

PerformPinAction(p, action) ==
  /\ Idle /\ p \in Open
  /\ \/ action \in {"copy", "save_as"} /\ UNCHANGED vars
     \/ action = "reset" /\ ResetPin(p)
     \/ action = "close" /\ ClosePin(p)

--------------------------------------------------------------------------------
\* PinRegistry::handle_display_change.
Anchored(v, area) == [v EXCEPT !.position = Reanchor(Shown(v), area)]
HandleDisplayChange(l) ==
  /\ pins' = [p \in PinIds |->
               IF p \in Open /\ l # {} THEN Anchored(pins[p], UnionWorkArea(l)) ELSE pins[p]]
  /\ Age(main)

NotifyPinDisplayChange ==
  /\ Idle
  /\ \E l \in Layouts : HandleDisplayChange(l)
  /\ UNCHANGED <<fresh, lockVars, layout, known, watcher>>

\* Mutant: every query records the layout and none reacts to it.
PollOnlyRecords ==
  /\ watcher = "poll" /\ known # layout
  /\ known' = layout
  /\ UNCHANGED <<pinVars, lockVars, main, layout, watcher, views>>

\* react_to_layout_change.  A query that fails leaves everything for the next
\* poll; the first success only records.
Poll ==
  /\ watcher = "poll" /\ known # layout
  /\ known' = layout
  /\ watcher' = IF known = None THEN "poll" ELSE "anchor"
  /\ UNCHANGED <<pinVars, lockVars, main, layout, views>>

AnchorPins ==
  /\ watcher = "anchor"
  /\ HandleDisplayChange(known)
  /\ watcher' = "list"
  /\ UNCHANGED <<fresh, lockVars, layout, known>>

ListPins ==
  /\ watcher = "list"
  /\ views' = [p \in Open |-> "current"]
  /\ watcher' = "push"
  /\ UNCHANGED <<pinVars, lockVars, main, layout, known>>

\* The event loop runs the watcher's next move and resize between commands.
PushView ==
  /\ watcher = "push" /\ Idle
  /\ \E p \in DOMAIN views :
       /\ \E g \in Synced(p, views[p]) : windows' = [windows EXCEPT ![p] = g]
       /\ views' = [q \in DOMAIN views \ {p} |-> views[q]]
  /\ UNCHANGED <<pins, fresh, lockVars, main, layout, known, watcher>>

PollEnds ==
  /\ watcher = "push" /\ DOMAIN views = {}
  /\ watcher' = "poll"
  /\ UNCHANGED <<pinVars, lockVars, main, layout, known, views>>

--------------------------------------------------------------------------------
\* The cache drops an entry nothing guards; the system changes the layout.
Vanish(c) ==
  /\ c \in live /\ guards[c] = 0
  /\ live' = live \ {c}
  /\ UNCHANGED <<pinVars, guards, main, watchVars>>

LayoutChange ==
  /\ layout' \in Layouts \ {layout}
  /\ UNCHANGED <<pinVars, lockVars, main, known, watcher, views>>

Main    == \/ OpenRefused \/ AcquireLock \/ Insert \/ CreateWindow
           \/ CreateWindowFails \/ SyncWindow
User    == \/ \E request \in OpenPinRequest : OpenPin(request)
           \/ \E p \in PinIds : \/ ClosePin(p) \/ WindowClosed(p)
                               \/ \E command \in PinCommand : ApplyPinCommand(p, command)
                               \/ \E action \in PinAction : PerformPinAction(p, action)
           \/ NotifyPinDisplayChange
Watcher == Poll \/ AnchorPins \/ ListPins \/ PushView \/ PollEnds

Next == Main \/ User \/ Watcher \/ LayoutChange \/ \E c \in Captures : Vanish(c)
Spec == Init /\ [][Next]_vars

\* A command runs to its end, the watcher thread is scheduled and its queries
\* succeed in the end, and the event loop serves its queue in order, so what
\* the watcher posted runs though commands keep coming.
FairSpec == /\ Spec /\ WF_vars(Main)
            /\ WF_vars(Poll \/ ListPins \/ PollEnds) /\ SF_vars(PushView)
            /\ WF_watcher(watcher = "anchor" /\ watcher' = "list")    \* AnchorPins

--------------------------------------------------------------------------------
TypeOK ==
  /\ pins \in [PinIds -> View \cup {NoPin}]
  /\ windows \in [PinIds -> Shows \cup {"none"}]
  /\ fresh \subseteq PinIds
  /\ live \subseteq Captures /\ guards \in [Captures -> Nat]
  /\ layout \in Layouts /\ known \in Layouts \cup {None}
  /\ watcher \in {"poll", "anchor", "list", "push"}
  /\ DOMAIN views \subseteq PinIds /\ \A p \in DOMAIN views : views[p] \in Shows
  /\ \/ main = AtRest
     \/ main \in [at : {"acquire", "insert"}, view : View]
     \/ main \in [at : {"window", "sync"}, pin : PinIds, shows : Shows]

\* The cache holds one pin guard for every pin of a capture it still has, and
\* none when the last one closes, whichever route closed it and however its
\* opening ended (pin/registry.rs `open', `close'; lib.rs close handler).
PinsOf(c)    == {p \in Open : pins[p].capture = c}
Acquiring(c) == main.at = "insert" /\ main.view.capture = c
GuardsMatchPins ==
  \A c \in Captures :
    guards[c] = IF c \notin live THEN 0
                ELSE Cardinality(PinsOf(c)) + (IF Acquiring(c) THEN 1 ELSE 0)

\* A pin without a window could not be seen or closed: there is none, unless
\* its opening is still under way (commands.rs `open_pin').
PinsCanBeClosed ==
  \A p \in Open : windows[p] # "none" \/ (main.at = "window" /\ main.pin = p)

\* A display change leaves a pin that can be reached where it is, brings one
\* that cannot be back into the work area, and never changes its zoom or its
\* opacity (pin.rs `reanchor').  A pin that just misses the area, edge to
\* edge, is neither; a layout without monitors moves nothing.
EdgeToEdge(w, area) == \/ w.x \in {Right(area), area.x - w.w}
                       \/ w.y \in {Bottom(area), area.y - w.h}
Reached(v, new, area) ==
  /\ new.zoom = v.zoom /\ new.opacity = v.opacity
  /\ IF Touches(Shown(v), area) THEN new = v
     ELSE EdgeToEdge(Shown(v), area) \/ Touches(Shown(new), area)
ReanchorReaches ==
  [][AnchorPins /\ known # {} =>
       \A p \in Open : Reached(pins[p], pins'[p], UnionWorkArea(known))]_vars

\* A layout that differs from the one the watcher knows is not only recorded:
\* the watcher goes on from the record to anchor the pins and to push every
\* view, unless the layout first goes back to the one it knows (display.rs
\* `react_to_layout_change').
Reacted == watcher = "push" /\ DOMAIN views = {}
LayoutIsFollowed ==
  \A k \in Layouts :
    (known = k /\ layout # k) ~> ((known # k /\ Reacted) \/ (known = k /\ layout = k))

\* pin/window.rs: "The registry stays the single source of truth for the
\* transform: after every `apply` / re-anchor the IPC layer calls
\* [`sync_window_to_view`] so the native window tracks the view model": no
\* sync makes a window leave the view of its pin.
SyncsKeepTrack ==
  [][(SyncWindow \/ PushView) => \A p \in Open : windows[p] = "current" => windows'[p] = "current"]_vars

\* commands.rs: "The cache lock guarantees the file is still on disk": the
\* picture of an open pin can be read (`read_pin_source').
PinsCanBeRead == \A p \in Open : ReadPinSource(pins[p])
================================================================================
