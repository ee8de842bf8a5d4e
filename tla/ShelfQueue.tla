------------------------------ MODULE ShelfQueue ------------------------------
(***************************************************************************)
(* The shelf queue engine (shelf/queue.rs) with the timers of its cards    *)
(* (contracts/shelf_queue.rs), the commands of the two windows that show   *)
(* the cards, the external drag, and the two threads that tick the queue.  *)
(*                                                                         *)
(* The engine's mutex covers one operation.  All are atomic but `tick',    *)
(* whose loop removes one card per step while its thread (`popper') holds  *)
(* the mutex; the cards are dismissed from the cache after it is given     *)
(* back.  The clock an operation has read does not go on before it has the *)
(* mutex: an older reading can only expire a card later.                   *)
(*                                                                         *)
(* A card is the number of its commit, since shelf ids are fresh and       *)
(* created_at_ms follows the commits; positions count from 1, the newest.  *)
(* `Never' is i64::MAX.  The entries themselves are in CaptureCache: here  *)
(* any committed card may still have one.  Left out: the split into        *)
(* visible and overflow cards, and the branches no caller reaches: a card  *)
(* pushed twice, and a cache dismissal that fails.                         *)
(***************************************************************************)
EXTENDS Integers, SequencesExt

CONSTANTS
  MaxCards,          \* bound: cards committed
  MaxTime,           \* bound: the clock of a process
  Lifetimes,         \* lifetimes the user may choose, 0 is off
  Grace,             \* the least time left to a card the pointer leaves
  NoCard, NoTime, Never, Running

ASSUME BoundsAssumption   == MaxCards \in Nat /\ MaxTime \in Nat
ASSUME TimesAssumption    == Lifetimes \subseteq Nat /\ Grace \in Nat
ASSUME MarksAssumption    ==
  /\ {NoCard, NoTime, Never, Running} \cap Int = {}
  /\ Running # Never

VARIABLES
  up,                \* the process runs
  now,               \* monotonic time since its start
  lifetime,          \* ShelfTimerConfig.lifetime_ms
  cards, index,      \* QueueInner
  deadline, left,    \* the timer of each card; left is Running or what remains
  popper,            \* the thread inside `tick'
  stale,             \* positions its loop has still to remove
  expired,           \* cards a thread has still to dismiss from the cache
  drag, phase,       \* the card of a running drag and how far it is
  made,              \* cards committed so far, by earlier processes too
  ran, life, resumed \* history: time a timer ran, its lifetime, last resumption

queueVars   == <<cards, index>>
timerVars   == <<deadline, left>>
tickVars    == <<popper, stale, expired>>
dragVars    == <<drag, phase>>
historyVars == <<ran, life, resumed>>
vars == <<up, now, lifetime, queueVars, timerVars, tickVars, dragVars, made,
          historyVars>>

Cards   == 1..MaxCards
Threads == {"main", "ticker"}
Queued  == Range(cards)

TypeOK ==
  /\ up \in BOOLEAN
  /\ now \in Nat /\ lifetime \in Nat
  /\ cards \in Seq(Cards)
  /\ index \in [Queued -> Nat]
  /\ deadline \in [Cards -> Nat \cup {Never}]
  /\ left \in [Cards -> Nat \cup {Never, Running}]
  /\ popper \in Threads \cup {"none"}
  /\ stale \subseteq DOMAIN cards
  /\ expired \in [Threads -> SUBSET Cards]
  /\ drag \in Cards \cup {NoCard}
  /\ phase \in {"none", "locked", "dragging"}
  /\ made \in 0..MaxCards
  /\ ran \in [Cards -> Nat] /\ life \in [Cards -> Nat]
  /\ resumed \in [Cards -> Nat \cup {NoTime}]

Init ==
  /\ up = FALSE /\ now = 0 /\ lifetime = 0
  /\ cards = << >> /\ index = << >>
  /\ deadline = [c \in Cards |-> Never] /\ left = [c \in Cards |-> Running]
  /\ popper = "none" /\ stale = {}
  /\ expired = [t \in Threads |-> {}]
  /\ made \in 0..MaxCards
  /\ drag = NoCard /\ phase = "none"
  /\ ran = [c \in Cards |-> 0] /\ life = [c \in Cards |-> 0]
  /\ resumed = [c \in Cards |-> NoTime]

-----------------------------------------------------------------------------
(* Timers: ShelfTimerState.                                                *)

\* started: fresh timers for the cards in S under the configuration.
Start(S, config) ==
  /\ deadline' = [c \in Cards |->
       IF c \notin S THEN deadline[c]
       ELSE IF config = 0 THEN Never ELSE now' + config]
  /\ left' = [c \in Cards |-> IF c \in S THEN Running ELSE left[c]]
  /\ ran' = [c \in Cards |-> IF c \in S THEN 0 ELSE ran[c]]
  /\ life' = [c \in Cards |-> IF c \in S THEN config ELSE life[c]]
  /\ resumed' = [c \in Cards |-> IF c \in S THEN NoTime ELSE resumed[c]]

\* A timer goes with its entry.
Drop(S) ==
  /\ deadline' = [c \in Cards |-> IF c \in S THEN Never ELSE deadline[c]]
  /\ left' = [c \in Cards |-> IF c \in S THEN Running ELSE left[c]]
  /\ ran' = [c \in Cards |-> IF c \in S THEN 0 ELSE ran[c]]
  /\ life' = [c \in Cards |-> IF c \in S THEN 0 ELSE life[c]]
  /\ resumed' = [c \in Cards |-> IF c \in S THEN NoTime ELSE resumed[c]]

Remaining(c) ==
  IF deadline[c] = Never THEN Never
  ELSE IF deadline[c] > now THEN deadline[c] - now ELSE 0

Hover(c) ==
  /\ left' = IF left[c] # Running THEN left ELSE [left EXCEPT ![c] = Remaining(c)]
  /\ UNCHANGED <<deadline, historyVars>>

\* Seeded fault: the grace period replaces what is left.
UnhoverToGrace(c) ==
  /\ left' = [left EXCEPT ![c] = Running]
  /\ IF left[c] = Running \/ deadline[c] = Never
     THEN UNCHANGED <<deadline, resumed>>
     ELSE /\ deadline' = [deadline EXCEPT ![c] = now + Grace]
          /\ resumed' = [resumed EXCEPT ![c] = now]
  /\ UNCHANGED <<ran, life>>

Unhover(c) ==
  /\ left' = [left EXCEPT ![c] = Running]
  /\ IF left[c] = Running \/ deadline[c] = Never
     THEN UNCHANGED <<deadline, resumed>>
     ELSE /\ deadline' = [deadline EXCEPT ![c] =
                            now + IF left[c] > Grace THEN left[c] ELSE Grace]
          /\ resumed' = [resumed EXCEPT ![c] = now]
  /\ UNCHANGED <<ran, life>>

\* Seeded fault: a card expires after its deadline, not at it.
IsExpiredLate(c) == left[c] = Running /\ deadline[c] # Never /\ now > deadline[c]

IsExpired(c) == left[c] = Running /\ deadline[c] # Never /\ now >= deadline[c]

-----------------------------------------------------------------------------
(* The list and its lookup index.                                          *)

PushFront(c) ==
  /\ cards' = <<c>> \o cards
  /\ index' = [d \in Queued \cup {c} |-> IF d = c THEN 1 ELSE index[d] + 1]

\* Seeded fault: the cards behind the removed one keep their index.
RemoveCardOnly(p) ==
  /\ cards' = RemoveAt(cards, p)
  /\ Drop({cards[p]})
  /\ index' = [d \in DOMAIN index \ {cards[p]} |-> index[d]]

RemoveCard(p) ==
  /\ cards' = RemoveAt(cards, p)
  /\ Drop({cards[p]})
  /\ index' = [d \in DOMAIN index \ {cards[p]} |->
                 IF index[d] > p THEN index[d] - 1 ELSE index[d]]

\* The card an operation on `c' acts on.
Indexed(c) == cards[index[c]]

-----------------------------------------------------------------------------
(* Commands of the main thread.  While the drag runs its modal loop, the   *)
(* other windows' commands are handled inside it.                          *)

MainFree == /\ up /\ phase # "locked"
            /\ popper # "main" /\ expired["main"] = {}

\* The main thread has the engine's mutex for one operation.
Locks == MainFree /\ popper = "none"

\* A commit, of a capture or a revision, adds its card.
Add ==
  /\ Locks /\ made < MaxCards
  /\ made' = made + 1
  /\ UNCHANGED <<up, now, lifetime, tickVars, dragVars>>
  /\ PushFront(made')
  /\ Start({made'}, lifetime)

HoverCard(c) ==
  /\ Locks /\ c \in DOMAIN index
  /\ Hover(Indexed(c))
  /\ UNCHANGED <<up, now, lifetime, queueVars, tickVars, dragVars, made>>

\* Seeded fault: leaving a card resumes its timer whatever is dragged.
UnhoverDragged(c) ==
  /\ Locks /\ c \in DOMAIN index
  /\ Unhover(Indexed(c))
  /\ UNCHANGED <<up, now, lifetime, queueVars, tickVars, dragVars, made>>

\* A card with a Drag guard is left alone.
UnhoverCard(c) ==
  /\ Locks /\ c \in DOMAIN index /\ c # drag
  /\ Unhover(Indexed(c))
  /\ UNCHANGED <<up, now, lifetime, queueVars, tickVars, dragVars, made>>

\* The card leaves the queue first and the cache then.
Dismiss(c) ==
  /\ Locks /\ c \in DOMAIN index
  /\ RemoveCard(index[c])
  /\ expired' = [expired EXCEPT !["main"] = {c}]
  /\ UNCHANGED <<up, now, lifetime, popper, stale, dragVars, made>>

\* apply_timer_config, from a committed change of the preferences.
Configure(config) ==
  /\ Locks
  /\ lifetime' = config
  /\ UNCHANGED now
  /\ Start(IF config = 0 THEN Queued ELSE {}, config)
  /\ UNCHANGED <<up, queueVars, tickVars, dragVars, made>>

\* start_shelf_drag: the Drag guard, then the pause, then the modal loop.
\* The pointer drags one card at a time.
DragLock(c) ==
  /\ MainFree /\ phase = "none" /\ c \in 1..made
  /\ drag' = c /\ phase' = "locked"
  /\ UNCHANGED <<up, now, lifetime, queueVars, timerVars, tickVars, made,
                 historyVars>>

DragPause ==
  /\ up /\ phase = "locked" /\ popper = "none"
  /\ phase' = "dragging"
  /\ IF drag \in DOMAIN index THEN Hover(Indexed(drag))
     ELSE UNCHANGED <<timerVars, historyVars>>
  /\ UNCHANGED <<up, now, lifetime, queueVars, tickVars, drag, made>>

DragEnd ==
  /\ Locks /\ phase = "dragging"
  /\ drag' = NoCard /\ phase' = "none"
  /\ IF drag \in DOMAIN index THEN Unhover(Indexed(drag))
     ELSE UNCHANGED <<timerVars, historyVars>>
  /\ UNCHANGED <<up, now, lifetime, queueVars, tickVars, made>>

-----------------------------------------------------------------------------
(* tick, by the ticker thread and by the command tick_shelf_queue.         *)

tickOther == <<up, now, lifetime, dragVars, made>>

\* A tick that finds no card due changes nothing.
TickBegin(t) ==
  /\ up /\ popper = "none" /\ expired[t] = {}
  /\ t = "main" => MainFree
  /\ popper' = t
  /\ stale' = {p \in DOMAIN cards : IsExpired(cards[p])}
  /\ stale' # {}
  /\ UNCHANGED <<tickOther, timerVars, historyVars, queueVars, expired>>

\* Seeded fault: the loop removes from the front.
TickRemoveForward(t) ==
  /\ popper = t /\ stale # {}
  /\ \E p \in stale : /\ \A q \in stale : p <= q
                      /\ stale' = stale \ {p}
                      /\ popper' = IF stale' = {} THEN "none" ELSE t
                      /\ p \in DOMAIN cards
                      /\ RemoveCard(p)
                      /\ expired' = [expired EXCEPT ![t] = @ \cup {cards[p]}]
  /\ UNCHANGED tickOther

\* The loop removes from the back, so that the other positions stay valid.
TickRemove(t) ==
  /\ popper = t /\ stale # {}
  /\ \E p \in stale : /\ \A q \in stale : q <= p
                      /\ stale' = stale \ {p}
                      /\ popper' = IF stale' = {} THEN "none" ELSE t
                      /\ RemoveCard(p)
                      /\ expired' = [expired EXCEPT ![t] = @ \cup {cards[p]}]
  /\ UNCHANGED tickOther

\* Cache::dismiss; what becomes of the entry is the cache's affair.
CacheDismiss(t, c) ==
  /\ popper # t /\ c \in expired[t]
  /\ expired' = [expired EXCEPT ![t] = @ \ {c}]
  /\ UNCHANGED <<tickOther, timerVars, historyVars, queueVars, popper, stale>>

-----------------------------------------------------------------------------
(* The process and its clock.                                              *)

Tock ==
  /\ up /\ now < MaxTime
  /\ now' = now + 1
  /\ ran' = [c \in Cards |-> IF left[c] = Running /\ deadline[c] # Never
                             THEN ran[c] + 1 ELSE ran[c]]
  /\ UNCHANGED <<up, lifetime, queueVars, timerVars, tickVars, dragVars, made, life, resumed>>

\* Set-up: the timer configuration, then the cards of the entries the cache
\* still has, newest first, each with a fresh timer.
Boot ==
  /\ ~up /\ up' = TRUE
  /\ now' = 0
  /\ lifetime' \in Lifetimes
  /\ \E kept \in SUBSET (1..made) : \E s \in [1..Cardinality(kept) -> kept] :
       /\ Range(s) = kept
       /\ \A i, j \in DOMAIN s : i < j => s[i] > s[j]
       /\ cards' = s
       /\ index' = [c \in kept |-> CHOOSE i \in DOMAIN s : s[i] = c]
       /\ Start(kept, lifetime')
  /\ UNCHANGED <<tickVars, dragVars, made>>

-----------------------------------------------------------------------------
Command == \/ \E c \in Cards : \/ HoverCard(c) \/ UnhoverCard(c)
                               \/ Dismiss(c) \/ DragLock(c)
           \/ Add \/ DragPause \/ DragEnd
           \/ \E config \in Lifetimes : Configure(config)

TickStep(t) == TickRemove(t) \/ \E c \in Cards : CacheDismiss(t, c)

Next == \/ Command \/ Tock \/ Boot
        \/ \E t \in Threads : TickBegin(t) \/ TickStep(t)

Spec == Init /\ [][Next]_vars

\* The ticker thread wakes up; a tick that has begun goes on.
FairSpec == /\ Spec /\ WF_vars(TickBegin("ticker"))
            /\ \A t \in Threads : WF_vars(TickStep(t))

-----------------------------------------------------------------------------
(* The lookup index and the list agree, also between two removals of one   *)
(* tick: an operation on a card never acts on its neighbour.               *)
IndexIsPosition ==
  /\ DOMAIN index = Queued
  /\ \A p \in DOMAIN cards : index[cards[p]] = p

(* A card that is dragged out keeps its timer paused until the drag ends,  *)
(* whatever windows, preferences and ticks do meanwhile (ADR-0012).        *)
DraggedIsHeld ==
  phase = "dragging" /\ drag \in Queued =>
    left[drag] # Running \/ deadline[drag] = Never

(* A tick takes no card before its timer has run for its whole lifetime,   *)
(* pauses not counted, nor within the grace period after the pointer left. *)
Earned(c) == /\ ran[c] >= life[c]
             /\ resumed[c] # NoTime => now >= resumed[c] + Grace

Expires(c) == popper # "none" /\ c \in Queued /\ c \notin Queued'

ExpiryIsEarned == [][\A c \in Cards : Expires(c) => Earned(c)]_vars

(* A card that is due leaves the queue without anybody's help, unless it   *)
(* is paused again or expiry is switched off first: a hidden or throttled  *)
(* shelf page strands no card (lib.rs, shelf_ticker_loop).                 *)
Due(c) == left[c] = Running /\ deadline[c] # Never /\ deadline[c] <= now

DueCardsLeave == \A c \in Cards : c \in Queued /\ Due(c)
                                  ~> c \notin Queued \/ ~Due(c)
=============================================================================
