------------------------------ MODULE ShelfProofs ------------------------------
(***************************************************************************)
(* What holds of the shelf queue for every number of cards, every clock,   *)
(* every set of lifetimes and every grace period, and, further below, of   *)
(* the window and the page that show it.                                   *)
(*                                                                         *)
(* The invariant of the queue has two independent parts.  The list: the    *)
(* index is its inverse, so no card is in it twice.  The timers: TimerOK   *)
(* relates each deadline to the time its timer has run, which no step can  *)
(* break; the positions a tick has found hold expired cards until they are *)
(* removed.                                                                *)
(*                                                                         *)
(* The invariant of the window and the page is about what is on its way: a *)
(* thread that has still to send, or the last list sent, carries the       *)
(* queue, or the page is known to have been given an old one.              *)
(***************************************************************************)
EXTENDS ShelfQueue, ShelfWindow, SequenceTheorems, FiniteSetTheorems, TLAPS

ListOK ==
  /\ cards \in Seq(Cards)
  /\ index \in [Queued -> Nat]
  /\ IndexIsPosition

(* Cards are committed before they are queued or dragged.                  *)
KnownOK ==
  /\ made \in 0..MaxCards
  /\ Queued \subseteq 1..made
  /\ drag \in (1..made) \cup {NoCard}

TimerTypes ==
  /\ deadline \in [Cards -> Nat \cup {Never}]
  /\ left \in [Cards -> Nat \cup {Never, Running}]
  /\ ran \in [Cards -> Nat]
  /\ life \in [Cards -> Nat]
  /\ resumed \in [Cards -> Nat \cup {NoTime}]

(* What is left of a timer, and what it ran, make up its lifetime.         *)
TimerOK(c) ==
  deadline[c] # Never =>
    IF left[c] = Running
    THEN /\ deadline[c] + ran[c] >= now + life[c]
         /\ resumed[c] # NoTime => deadline[c] >= resumed[c] + Grace
    ELSE /\ left[c] # Never
         /\ left[c] + ran[c] >= life[c]

TimersOK == TimerTypes /\ \A c \in Cards : TimerOK(c)

(* The positions a tick has still to remove hold expired cards.            *)
StaleOK ==
  /\ popper \in Threads \cup {"none"}
  /\ stale \subseteq DOMAIN cards
  /\ stale # {} <=> popper # "none"
  /\ \A p \in stale : IsExpired(cards[p])

(* Before set-up nothing is queued, dragged, ticked or timed.              *)
DownOK ==
  ~up => /\ cards = << >> /\ phase = "none" /\ popper = "none"
         /\ \A c \in Cards : deadline[c] = Never

OtherTypes ==
  /\ up \in BOOLEAN
  /\ now \in Nat /\ lifetime \in Nat
  /\ expired \in [Threads -> SUBSET Cards]
  /\ phase \in {"none", "locked", "dragging"}

QueueInv == /\ ListOK /\ KnownOK /\ TimersOK /\ StaleOK /\ DownOK /\ OtherTypes
            /\ DraggedIsHeld

-----------------------------------------------------------------------------
(* The list.                                                               *)

\* The marks are no numbers.
LEMMA Marks ==
  /\ NoCard \notin Int /\ NoTime \notin Int
  /\ Never \notin Int /\ Running \notin Int
  /\ Running # Never
  BY MarksAssumption

\* RemoveAt closes the gap.
LEMMA RemoveAtElements ==
  ASSUME NEW S, NEW s \in Seq(S), NEW p \in 1..Len(s)
  PROVE  /\ RemoveAt(s, p) \in Seq(S)
         /\ Len(RemoveAt(s, p)) = Len(s) - 1
         /\ \A q \in 1..(Len(s) - 1) :
              RemoveAt(s, p)[q] = IF q < p THEN s[q] ELSE s[q + 1]
<1> DEFINE a == SubSeq(s, 1, p - 1)
           b == SubSeq(s, p + 1, Len(s))
<1>0. Len(s) \in Nat /\ p \in Int
  BY LenProperties
<1>1. \A i \in 1..Len(s) : s[i] \in S
  BY ElementOfSeq
<1>2. /\ a \in Seq(S) /\ Len(a) = p - 1
      /\ \A i \in 1..(p - 1) : a[i] = s[i]
  <2>1. p - 1 \in Int /\ \A i \in 1..(p - 1) : s[i] \in S
    BY <1>0, <1>1
  <2>2. /\ a \in Seq(S) /\ Len(a) = IF 1 <= p - 1 THEN p - 1 - 1 + 1 ELSE 0
        /\ \A i \in 1..(p - 1 - 1 + 1) : a[i] = s[1 + i - 1]
    BY <2>1, SubSeqProperties
  <2> QED
    BY <2>2, <1>0
<1>3. /\ b \in Seq(S) /\ Len(b) = Len(s) - p
      /\ \A i \in 1..(Len(s) - p) : b[i] = s[p + i]
  <2>1. p + 1 \in Int /\ \A i \in (p + 1)..Len(s) : s[i] \in S
    BY <1>0, <1>1
  <2>2. /\ b \in Seq(S)
        /\ Len(b) = IF p + 1 <= Len(s) THEN Len(s) - (p + 1) + 1 ELSE 0
        /\ \A i \in 1..(Len(s) - (p + 1) + 1) : b[i] = s[p + 1 + i - 1]
    BY <2>1, <1>0, SubSeqProperties
  <2> QED
    BY <2>2, <1>0
<1>4. RemoveAt(s, p) = a \o b
  BY DEF RemoveAt
<1> HIDE DEF a, b
<1>5. /\ a \o b \in Seq(S)
      /\ Len(a \o b) = Len(a) + Len(b)
      /\ \A i \in 1..(Len(a) + Len(b)) :
           (a \o b)[i] = IF i <= Len(a) THEN a[i] ELSE b[i - Len(a)]
  BY <1>2, <1>3, ConcatProperties
<1> QED
  BY <1>0, <1>2, <1>3, <1>4, <1>5

\* Removing a card keeps the list and its index in step.
LEMMA RemoveCardList ==
  ASSUME ListOK, NEW p \in DOMAIN cards, RemoveCard(p)
  PROVE  /\ ListOK'
         /\ Queued' = Queued \ {cards[p]}
         /\ DOMAIN cards' = 1..(Len(cards) - 1)
         /\ \A q \in DOMAIN cards : q < p => cards'[q] = cards[q]
<1>1. Len(cards) \in Nat /\ DOMAIN cards = 1..Len(cards)
  BY LenProperties DEF ListOK
<1>2. /\ cards' \in Seq(Cards) /\ Len(cards') = Len(cards) - 1
      /\ \A q \in 1..(Len(cards) - 1) :
           cards'[q] = IF q < p THEN cards[q] ELSE cards[q + 1]
  BY <1>1, RemoveAtElements DEF ListOK, RemoveCard
<1>3. DOMAIN cards' = 1..(Len(cards) - 1)
  BY <1>2, LenProperties
<1>4. \A q, r \in DOMAIN cards : cards[q] = cards[r] => q = r
  BY DEF ListOK, IndexIsPosition
<1>5. Queued' = Queued \ {cards[p]}
  <2>1. ASSUME NEW c \in Queued' PROVE c \in Queued \ {cards[p]}
    <3>1. PICK q \in 1..(Len(cards) - 1) : c = cards'[q]
      BY <2>1, <1>3 DEF Queued, Range
    <3>2. CASE q < p
      BY <3>1, <3>2, <1>1, <1>2, <1>4 DEF Queued, Range
    <3>3. CASE ~(q < p)
      <4>1. c = cards[q + 1] /\ q + 1 \in DOMAIN cards /\ q + 1 # p
        BY <3>1, <3>3, <1>1, <1>2
      <4> QED
        BY <4>1, <1>4 DEF Queued, Range
    <3> QED BY <3>2, <3>3
  <2>2. ASSUME NEW c \in Queued \ {cards[p]} PROVE c \in Queued'
    <3>1. PICK q \in DOMAIN cards : c = cards[q]
      BY <2>2 DEF Queued, Range
    <3>2. CASE q < p
      <4>1. q \in 1..(Len(cards) - 1) /\ cards'[q] = c
        BY <3>1, <3>2, <1>1, <1>2
      <4> QED BY <4>1, <1>3 DEF Queued, Range
    <3>3. CASE q > p
      <4>1. q - 1 \in 1..(Len(cards) - 1) /\ cards'[q - 1] = c
        BY <3>1, <3>3, <1>1, <1>2
      <4> QED BY <4>1, <1>3 DEF Queued, Range
    <3> QED BY <3>1, <3>2, <3>3, <1>1, <2>2
  <2> QED BY <2>1, <2>2
<1>6. /\ DOMAIN index' = Queued'
      /\ \A c \in Queued' :
           index'[c] = IF index[c] > p THEN index[c] - 1 ELSE index[c]
  BY <1>5 DEF RemoveCard, ListOK
<1>7. \A q \in DOMAIN cards' : index'[cards'[q]] = q
  <2> SUFFICES ASSUME NEW q \in DOMAIN cards' PROVE index'[cards'[q]] = q
    OBVIOUS
  <2>1. cards'[q] \in Queued'
    BY DEF Queued, Range
  <2>2. CASE q < p
    <3>1. q \in DOMAIN cards /\ cards'[q] = cards[q]
      BY <2>2, <1>1, <1>2, <1>3
    <3>2. index[cards[q]] = q
      BY <3>1 DEF ListOK, IndexIsPosition
    <3> QED BY <2>1, <2>2, <3>1, <3>2, <1>1, <1>3, <1>6
  <2>3. CASE ~(q < p)
    <3>1. q + 1 \in DOMAIN cards /\ cards'[q] = cards[q + 1] /\ q \in Int
      BY <2>3, <1>1, <1>2, <1>3
    <3>2. index[cards[q + 1]] = q + 1
      BY <3>1 DEF ListOK, IndexIsPosition
    <3> QED BY <2>1, <2>3, <3>1, <3>2, <1>1, <1>6
  <2> QED BY <2>2, <2>3
<1>8. index' \in [Queued' -> Nat]
  <2>1. \A c \in Queued' : index'[c] \in Nat
    <3> SUFFICES ASSUME NEW c \in Queued' PROVE index'[c] \in Nat
      OBVIOUS
    <3>1. PICK q \in DOMAIN cards' : c = cards'[q]
      BY DEF Queued, Range
    <3> QED BY <3>1, <1>1, <1>3, <1>7
  <2>2. index' = [c \in Queued' |-> index'[c]]
    BY <1>6 DEF RemoveCard
  <2> QED BY <2>1, <2>2
<1> QED
  BY <1>1, <1>2, <1>3, <1>5, <1>6, <1>7, <1>8 DEF ListOK, IndexIsPosition

\* Pushing a new card keeps the list and its index in step.
LEMMA PushFrontList ==
  ASSUME ListOK, NEW c \in Cards \ Queued, PushFront(c)
  PROVE  ListOK' /\ Queued' = Queued \cup {c}
<1>1. Len(cards) \in Nat /\ DOMAIN cards = 1..Len(cards)
  BY LenProperties DEF ListOK
<1>2. /\ <<c>> \in Seq(Cards) /\ Len(<<c>>) = 1 /\ <<c>>[1] = c
  OBVIOUS
<1>3. /\ cards' \in Seq(Cards) /\ Len(cards') = Len(cards) + 1
      /\ \A q \in 1..(Len(cards) + 1) :
           cards'[q] = IF q = 1 THEN c ELSE cards[q - 1]
  <2>1. /\ <<c>> \o cards \in Seq(Cards)
        /\ Len(<<c>> \o cards) = 1 + Len(cards)
        /\ \A q \in 1..(1 + Len(cards)) :
             (<<c>> \o cards)[q] = IF q <= 1 THEN <<c>>[q] ELSE cards[q - 1]
    BY <1>2, ConcatProperties DEF ListOK
  <2> QED
    BY <1>1, <1>2, <2>1 DEF PushFront
<1>4. DOMAIN cards' = 1..(Len(cards) + 1)
  BY <1>3, LenProperties
<1>5. Queued' = Queued \cup {c}
  <2>1. ASSUME NEW d \in Queued' PROVE d \in Queued \cup {c}
    <3>1. PICK q \in 1..(Len(cards) + 1) : d = cards'[q]
      BY <2>1, <1>4 DEF Queued, Range
    <3>2. CASE q = 1
      BY <3>1, <3>2, <1>1, <1>3
    <3>3. CASE q # 1
      <4>1. d = cards[q - 1] /\ q - 1 \in DOMAIN cards
        BY <3>1, <3>3, <1>1, <1>3
      <4> QED BY <4>1 DEF Queued, Range
    <3> QED BY <3>2, <3>3
  <2>2. ASSUME NEW d \in Queued PROVE d \in Queued'
    <3>1. PICK q \in DOMAIN cards : d = cards[q]
      BY <2>2 DEF Queued, Range
    <3>2. q + 1 \in 1..(Len(cards) + 1) /\ cards'[q + 1] = d
      BY <3>1, <1>1, <1>3
    <3> QED BY <3>2, <1>4 DEF Queued, Range
  <2>3. c \in Queued'
    <3>1. 1 \in DOMAIN cards' /\ cards'[1] = c
      BY <1>1, <1>3, <1>4
    <3> QED BY <3>1 DEF Queued, Range
  <2> QED BY <2>1, <2>2, <2>3
<1>6. /\ DOMAIN index' = Queued'
      /\ \A d \in Queued' : index'[d] = IF d = c THEN 1 ELSE index[d] + 1
  BY <1>5 DEF PushFront
<1>7. \A q \in DOMAIN cards' : index'[cards'[q]] = q
  <2> SUFFICES ASSUME NEW q \in DOMAIN cards' PROVE index'[cards'[q]] = q
    OBVIOUS
  <2>1. cards'[q] \in Queued'
    BY DEF Queued, Range
  <2>2. CASE q = 1
    BY <2>1, <2>2, <1>1, <1>3, <1>4, <1>6
  <2>3. CASE q # 1
    <3>1. /\ q - 1 \in DOMAIN cards /\ cards'[q] = cards[q - 1]
          /\ q \in Int
      BY <2>3, <1>1, <1>3, <1>4
    <3>2. index[cards[q - 1]] = q - 1 /\ cards[q - 1] # c
      BY <3>1 DEF ListOK, IndexIsPosition, Queued, Range
    <3> QED BY <2>1, <3>1, <3>2, <1>6
  <2> QED BY <2>2, <2>3
<1>8. index' \in [Queued' -> Nat]
  <2>1. \A d \in Queued' : index'[d] \in Nat
    BY <1>5, <1>6 DEF ListOK
  <2>2. index' = [d \in Queued' |-> index'[d]]
    BY <1>6 DEF PushFront
  <2> QED BY <2>1, <2>2
<1>9. IndexIsPosition'
  BY <1>6, <1>7 DEF IndexIsPosition
<1> QED
  BY <1>3, <1>5, <1>8, <1>9 DEF ListOK

-----------------------------------------------------------------------------
(* The timers.                                                             *)

\* A fresh timer has its whole lifetime before it.
LEMMA StartTimers ==
  ASSUME TimersOK, NEW S \in SUBSET Cards, NEW config \in Nat, Start(S, config),
         NEW n \in Nat, now' = n, \A c \in Cards \ S : deadline[c] = Never \/ n = now
  PROVE  TimersOK'
<1>1. TimerTypes'
  <2>1. deadline' \in [Cards -> Nat \cup {Never}]
    <3>1. n + config \in Nat
      OBVIOUS
    <3>2. \A c \in Cards : deadline[c] \in Nat \cup {Never}
      BY DEF TimersOK, TimerTypes
    <3> QED
      BY <3>1, <3>2 DEF Start
  <2>2. left' \in [Cards -> Nat \cup {Never, Running}]
    BY DEF TimersOK, TimerTypes, Start
  <2> QED
    BY <2>1, <2>2 DEF TimersOK, TimerTypes, Start
<1>2. ASSUME NEW c \in Cards PROVE TimerOK(c)'
  <2>1. CASE c \in S
    BY <2>1, Marks DEF TimersOK, TimerTypes, TimerOK, Start
  <2>2. CASE c \notin S
    BY <2>2, Marks DEF TimersOK, TimerTypes, TimerOK, Start
  <2> QED BY <2>1, <2>2
<1> QED
  BY <1>1, <1>2 DEF TimersOK

\* Dropping a timer leaves the others alone.
LEMMA DropTimers ==
  ASSUME TimersOK, NEW S \in SUBSET Cards, Drop(S), now' = now
  PROVE  TimersOK'
<1>1. TimerTypes'
  BY Marks DEF TimersOK, TimerTypes, Drop
<1>2. ASSUME NEW c \in Cards PROVE TimerOK(c)'
  BY Marks DEF TimersOK, TimerTypes, TimerOK, Drop
<1> QED
  BY <1>1, <1>2 DEF TimersOK

\* A pause takes what is left and stops the timer.
LEMMA HoverTimers ==
  ASSUME TimersOK, NEW c \in Cards, Hover(c), now' = now, now \in Nat
  PROVE  TimersOK' /\ left'[c] # Running
<1>1. Remaining(c) \in Nat \cup {Never}
  BY DEF Remaining, TimersOK, TimerTypes
<1>2. TimerTypes' /\ left'[c] # Running
  BY <1>1, Marks DEF TimersOK, TimerTypes, Hover, historyVars
<1>3. ASSUME NEW d \in Cards PROVE TimerOK(d)'
  BY <1>1, Marks DEF TimersOK, TimerTypes, TimerOK, Hover, Remaining, historyVars
<1> QED
  BY <1>2, <1>3 DEF TimersOK

\* A resumption gives back what was left, and no less than the grace.
LEMMA UnhoverTimers ==
  ASSUME TimersOK, NEW c \in Cards, Unhover(c), now' = now, now \in Nat
  PROVE  TimersOK'
<1>1. Grace \in Nat
  BY TimesAssumption
<1>2. TimerTypes'
  BY <1>1, Marks DEF TimersOK, TimerTypes, TimerOK, Unhover
<1>3. ASSUME NEW d \in Cards PROVE TimerOK(d)'
  <2>1. CASE d = c
    BY <2>1, <1>1, Marks DEF TimersOK, TimerTypes, TimerOK, Unhover
  <2>2. CASE d # c
    BY <2>2, Marks DEF TimersOK, TimerTypes, TimerOK, Unhover
  <2> QED BY <2>1, <2>2
<1> QED
  BY <1>2, <1>3 DEF TimersOK

\* The clock and the running timers go on together.
LEMMA TockTimers ==
  ASSUME TimersOK, now \in Nat, Tock
  PROVE  TimersOK'
<1>1. TimerTypes'
  BY DEF TimersOK, TimerTypes, Tock, timerVars
<1>2. ASSUME NEW c \in Cards PROVE TimerOK(c)'
  BY Marks DEF TimersOK, TimerTypes, TimerOK, Tock, timerVars
<1> QED
  BY <1>1, <1>2 DEF TimersOK

-----------------------------------------------------------------------------
(* Steps of the invariant.                                                 *)

\* An operation acts on the card it is given.
LEMMA IndexedCard ==
  ASSUME ListOK, NEW c \in DOMAIN index
  PROVE  /\ Indexed(c) = c
         /\ index[c] \in DOMAIN cards /\ cards[index[c]] = c
         /\ c \in Queued /\ c \in Cards
<1>1. PICK p \in DOMAIN cards : c = cards[p]
  BY DEF ListOK, IndexIsPosition, Queued, Range
<1>2. index[c] = p
  BY <1>1 DEF ListOK, IndexIsPosition
<1>3. cards[p] \in Cards
  BY <1>1, ElementOfSeq, LenProperties DEF ListOK
<1> QED
  BY <1>1, <1>2, <1>3 DEF Indexed, Queued, Range

\* Steps that leave the list alone leave alone what is said about it.
LEMMA SameList ==
  ASSUME ListOK, UNCHANGED queueVars
  PROVE  ListOK' /\ Queued' = Queued /\ DOMAIN cards' = DOMAIN cards
  BY DEF ListOK, queueVars, Queued, IndexIsPosition, Range

\* A command on the timer of one card, while no tick is under way.
LEMMA OneTimer ==
  ASSUME QueueInv, up, popper = "none", UNCHANGED <<up, now, lifetime>>,
         UNCHANGED queueVars, UNCHANGED tickVars, UNCHANGED made,
         TimersOK', drag' \in {drag, NoCard},
         phase' \in {"none", "locked", "dragging"}, DraggedIsHeld'
  PROVE  QueueInv'
<1>1. ListOK' /\ Queued' = Queued
  BY SameList DEF QueueInv
<1>2. KnownOK'
  BY <1>1 DEF QueueInv, KnownOK
<1>3. StaleOK'
  BY DEF QueueInv, StaleOK, tickVars
<1>4. DownOK' /\ OtherTypes'
  BY DEF QueueInv, DownOK, OtherTypes, tickVars
<1> QED
  BY <1>1, <1>2, <1>3, <1>4 DEF QueueInv

\* The pointer enters or leaves a card, and the drag pauses and resumes one.
LEMMA PointerInv ==
  ASSUME QueueInv,
         \/ \E c \in Cards : HoverCard(c) \/ UnhoverCard(c)
         \/ DragPause \/ DragEnd
  PROVE  QueueInv'
<1>0. now \in Nat /\ TimersOK /\ ListOK
  BY DEF QueueInv, OtherTypes
<1>1. ASSUME NEW c \in Cards, HoverCard(c) PROVE QueueInv'
  <2>1. Indexed(c) = c /\ Hover(c) /\ up /\ popper = "none"
    BY <1>0, <1>1, IndexedCard DEF HoverCard, Locks, MainFree
  <2>2. UNCHANGED <<up, now, lifetime, queueVars, tickVars, dragVars, made>>
    BY <1>1 DEF HoverCard
  <2>3. TimersOK' /\ left'[c] # Running
    BY <1>0, <2>1, <2>2, HoverTimers
  <2>4. \A d \in Cards \ {c} : left'[d] = left[d]
    BY <1>0, <2>1 DEF Hover, TimersOK, TimerTypes
  <2>5. DraggedIsHeld'
    <3>1. DraggedIsHeld /\ Queued' = Queued
      BY <1>0, <2>2, SameList DEF QueueInv
    <3>2. deadline' = deadline
      BY <2>1 DEF Hover
    <3>3. Queued \subseteq Cards
      BY <1>0, ElementOfSeq, LenProperties DEF ListOK, Queued, Range
    <3> QED
      BY <2>2, <2>3, <2>4, <3>1, <3>2, <3>3 DEF DraggedIsHeld, dragVars
  <2>6. drag' = drag /\ phase' = phase
    BY <2>2 DEF dragVars
  <2> QED
    BY <2>1, <2>2, <2>3, <2>5, <2>6, OneTimer DEF QueueInv, OtherTypes
<1>2. ASSUME NEW c \in Cards, UnhoverCard(c) PROVE QueueInv'
  <2>1. Indexed(c) = c /\ Unhover(c) /\ up /\ popper = "none" /\ c # drag
    BY <1>0, <1>2, IndexedCard DEF UnhoverCard, Locks, MainFree
  <2>2. UNCHANGED <<up, now, lifetime, queueVars, tickVars, dragVars, made>>
    BY <1>2 DEF UnhoverCard
  <2>3. TimersOK'
    BY <1>0, <2>1, <2>2, UnhoverTimers
  <2>4. \A d \in Cards \ {c} : left'[d] = left[d] /\ deadline'[d] = deadline[d]
    BY <1>0, <2>1 DEF Unhover, TimersOK, TimerTypes
  <2>5. DraggedIsHeld'
    <3>1. DraggedIsHeld /\ Queued' = Queued
      BY <1>0, <2>2, SameList DEF QueueInv
    <3>2. Queued \subseteq Cards
      BY <1>0, ElementOfSeq, LenProperties DEF ListOK, Queued, Range
    <3> QED
      BY <2>1, <2>2, <2>4, <3>1, <3>2 DEF DraggedIsHeld, dragVars
  <2>6. drag' = drag /\ phase' = phase
    BY <2>2 DEF dragVars
  <2> QED
    BY <2>1, <2>2, <2>3, <2>5, <2>6, OneTimer DEF QueueInv, OtherTypes
<1>3. ASSUME DragPause PROVE QueueInv'
  <2>1. /\ UNCHANGED <<up, now, lifetime, queueVars, tickVars, drag, made>>
        /\ up /\ popper = "none" /\ phase' = "dragging"
    BY <1>3 DEF DragPause
  <2>2. CASE drag \in DOMAIN index
    <3>1. drag \in Cards /\ Hover(drag)
      BY <1>0, <1>3, <2>2, IndexedCard DEF DragPause
    <3>2. TimersOK' /\ left'[drag] # Running
      BY <1>0, <2>1, <3>1, HoverTimers
    <3>3. DraggedIsHeld'
      BY <2>1, <3>2 DEF DraggedIsHeld
    <3> QED
      BY <2>1, <3>2, <3>3, OneTimer
  <2>3. CASE drag \notin DOMAIN index
    <3>1. UNCHANGED <<timerVars, historyVars>>
      BY <1>3, <2>3 DEF DragPause
    <3>2. TimersOK'
      BY <1>0, <2>1, <3>1
         DEF TimersOK, TimerTypes, TimerOK, timerVars, historyVars
    <3>3. DraggedIsHeld'
      <4>1. drag' \notin Queued'
        BY <1>0, <2>1, <2>3, SameList DEF ListOK, IndexIsPosition
      <4> QED BY <4>1 DEF DraggedIsHeld
    <3> QED
      BY <2>1, <3>2, <3>3, OneTimer
  <2> QED BY <2>2, <2>3
<1>4. ASSUME DragEnd PROVE QueueInv'
  <2>1. /\ UNCHANGED <<up, now, lifetime, queueVars, tickVars, made>>
        /\ up /\ popper = "none" /\ phase' = "none" /\ drag' = NoCard
    BY <1>4 DEF DragEnd, Locks, MainFree
  <2>2. DraggedIsHeld'
    BY <2>1 DEF DraggedIsHeld
  <2>3. TimersOK'
    <3>1. CASE drag \in DOMAIN index
      <4>1. drag \in Cards /\ Unhover(drag)
        BY <1>0, <1>4, <3>1, IndexedCard DEF DragEnd
      <4> QED
        BY <1>0, <2>1, <4>1, UnhoverTimers
    <3>2. CASE drag \notin DOMAIN index
      <4>1. UNCHANGED <<timerVars, historyVars>>
        BY <1>4, <3>2 DEF DragEnd
      <4> QED
        BY <1>0, <2>1, <4>1
           DEF TimersOK, TimerTypes, TimerOK, timerVars, historyVars
    <3> QED BY <3>1, <3>2
  <2> QED
    BY <2>1, <2>2, <2>3, OneTimer
<1> QED
  BY <1>1, <1>2, <1>3, <1>4

\* The steps that leave list and timers alone.
LEMMA QuietInv ==
  ASSUME QueueInv,
         \/ \E c \in Cards : DragLock(c)
         \/ \E t \in Threads, c \in Cards : CacheDismiss(t, c)
         \/ \E t \in Threads : TickBegin(t)
         \/ UNCHANGED vars
  PROVE  QueueInv'
<1>1. UNCHANGED <<up, now, lifetime, queueVars, timerVars, historyVars, made>>
  BY DEF DragLock, CacheDismiss, TickBegin, tickOther, vars
<1>2. ListOK' /\ Queued' = Queued /\ DOMAIN cards' = DOMAIN cards
  BY <1>1, SameList DEF QueueInv
<1>3. TimersOK'
  BY <1>1 DEF QueueInv, TimersOK, TimerTypes, TimerOK, timerVars, historyVars
<1>4. cards' = cards /\ deadline' = deadline /\ left' = left
  BY <1>1 DEF queueVars, timerVars
<1>5. \A c : IsExpired(c)' <=> IsExpired(c)
  BY <1>1, <1>4 DEF IsExpired
<1>6. ASSUME NEW c \in Cards, DragLock(c) PROVE QueueInv'
  <2>1. KnownOK'
    BY <1>1, <1>2, <1>6 DEF QueueInv, KnownOK, DragLock
  <2>2. StaleOK' /\ DownOK' /\ OtherTypes' /\ DraggedIsHeld'
    BY <1>1, <1>4, <1>5, <1>6 DEF QueueInv, StaleOK, DownOK, OtherTypes,
       DraggedIsHeld, DragLock, MainFree, tickVars
  <2> QED
    BY <1>2, <1>3, <2>1, <2>2 DEF QueueInv
<1>7. ASSUME NEW t \in Threads, NEW c \in Cards, CacheDismiss(t, c)
      PROVE  QueueInv'
  <2>1. /\ UNCHANGED <<popper, stale, dragVars>>
        /\ expired' \in [Threads -> SUBSET Cards]
    BY <1>7 DEF CacheDismiss, tickOther, QueueInv, OtherTypes
  <2>2. KnownOK' /\ StaleOK' /\ DownOK' /\ OtherTypes' /\ DraggedIsHeld'
    BY <1>1, <1>2, <1>4, <1>5, <2>1 DEF QueueInv, KnownOK, StaleOK, DownOK,
       OtherTypes, DraggedIsHeld, dragVars
  <2> QED
    BY <1>2, <1>3, <2>2 DEF QueueInv
<1>8. ASSUME NEW t \in Threads, TickBegin(t) PROVE QueueInv'
  <2>1. /\ UNCHANGED <<expired, dragVars>> /\ popper' = t /\ up
        /\ stale' = {p \in DOMAIN cards : IsExpired(cards[p])} /\ stale' # {}
    BY <1>8 DEF TickBegin, tickOther
  <2>2. KnownOK' /\ DownOK' /\ OtherTypes' /\ DraggedIsHeld'
    BY <1>1, <1>2, <1>4, <2>1 DEF QueueInv, KnownOK, DownOK,
       OtherTypes, DraggedIsHeld, dragVars
  <2>3. StaleOK'
    BY <1>2, <1>4, <1>5, <2>1 DEF StaleOK, Threads
  <2> QED
    BY <1>2, <1>3, <2>2, <2>3 DEF QueueInv
<1>9. ASSUME UNCHANGED vars PROVE QueueInv'
  <2>1. KnownOK' /\ StaleOK' /\ DownOK' /\ OtherTypes' /\ DraggedIsHeld'
    BY <1>1, <1>2, <1>4, <1>5, <1>9 DEF QueueInv, KnownOK, StaleOK, DownOK,
       OtherTypes, DraggedIsHeld, vars, tickVars, dragVars
  <2> QED
    BY <1>2, <1>3, <2>1 DEF QueueInv
<1> QED
  BY <1>6, <1>7, <1>8, <1>9

\* A card that leaves takes its timer along and disturbs no other card.
LEMMA RemovalInv ==
  ASSUME QueueInv, up, NEW p \in DOMAIN cards, RemoveCard(p),
         UNCHANGED <<up, now, lifetime, dragVars, made>>
  PROVE  /\ ListOK' /\ KnownOK' /\ TimersOK' /\ DownOK' /\ DraggedIsHeld'
         /\ \A q \in DOMAIN cards : q < p =>
              /\ q \in DOMAIN cards' /\ cards'[q] = cards[q]
              /\ IsExpired(cards[q]) => IsExpired(cards[q])'
<1>0. ListOK /\ TimersOK /\ cards[p] \in Cards /\ Drop({cards[p]})
  BY ElementOfSeq, LenProperties DEF QueueInv, ListOK, RemoveCard
<1>1. /\ ListOK'
      /\ Queued' = Queued \ {cards[p]}
      /\ DOMAIN cards' = 1..(Len(cards) - 1)
      /\ \A q \in DOMAIN cards : q < p => cards'[q] = cards[q]
  BY <1>0, RemoveCardList
<1>2. KnownOK'
  BY <1>1 DEF QueueInv, KnownOK, dragVars
<1>3. TimersOK'
  BY <1>0, DropTimers
<1>4. \A d \in Cards \ {cards[p]} : left'[d] = left[d] /\ deadline'[d] = deadline[d]
  BY <1>0 DEF Drop
<1>5. Queued \subseteq Cards
  BY <1>0, ElementOfSeq, LenProperties DEF ListOK, Queued, Range
<1>6. DraggedIsHeld'
  BY <1>1, <1>4, <1>5 DEF QueueInv, DraggedIsHeld, dragVars
<1>7. DownOK'
  BY DEF DownOK
<1>8. ASSUME NEW q \in DOMAIN cards, q < p
      PROVE  /\ q \in DOMAIN cards' /\ cards'[q] = cards[q]
             /\ IsExpired(cards[q]) => IsExpired(cards[q])'
  <2>1. q \in 1..(Len(cards) - 1)
    BY <1>0, <1>8, LenProperties DEF ListOK
  <2>2. cards[q] # cards[p] /\ cards[q] \in Cards
    BY <1>0, <1>5, <1>8 DEF ListOK, IndexIsPosition, Queued, Range
  <2> QED
    BY <1>1, <1>4, <1>8, <2>1, <2>2 DEF IsExpired
<1> QED
  BY <1>1, <1>2, <1>3, <1>6, <1>7, <1>8

\* A card is dismissed, by hand or by a tick.
LEMMA LeaveInv ==
  ASSUME QueueInv,
         (\E c \in Cards : Dismiss(c)) \/ \E t \in Threads : TickRemove(t)
  PROVE  QueueInv'
<1>0. ListOK /\ (\A p \in DOMAIN cards : cards[p] \in Cards)
  BY ElementOfSeq, LenProperties DEF QueueInv, ListOK
<1>1. ASSUME NEW c \in Cards, Dismiss(c) PROVE QueueInv'
  <2>1. /\ index[c] \in DOMAIN cards /\ RemoveCard(index[c]) /\ up
        /\ UNCHANGED <<up, now, lifetime, dragVars, made>>
        /\ UNCHANGED <<popper, stale>> /\ popper = "none"
    BY <1>0, <1>1, IndexedCard DEF Dismiss, Locks, MainFree
  <2>2. ListOK' /\ KnownOK' /\ TimersOK' /\ DownOK' /\ DraggedIsHeld'
    BY <2>1, RemovalInv
  <2>3. StaleOK'
    BY <2>1 DEF QueueInv, StaleOK
  <2>4. OtherTypes'
    BY <1>1, <2>1 DEF QueueInv, OtherTypes, Dismiss, dragVars
  <2> QED
    BY <2>2, <2>3, <2>4 DEF QueueInv
<1>2. ASSUME NEW t \in Threads, TickRemove(t) PROVE QueueInv'
  <2>1. PICK p \in stale : /\ \A q \in stale : q <= p
                           /\ stale' = stale \ {p}
                           /\ popper' = IF stale' = {} THEN "none" ELSE t
                           /\ RemoveCard(p)
                           /\ expired' = [expired EXCEPT ![t] = @ \cup {cards[p]}]
    BY <1>2 DEF TickRemove
  <2>2. /\ UNCHANGED <<up, now, lifetime, dragVars, made>>
        /\ p \in DOMAIN cards /\ up
    BY <1>2 DEF TickRemove, tickOther, QueueInv, StaleOK, DownOK, Threads
  <2>3. /\ ListOK' /\ KnownOK' /\ TimersOK' /\ DownOK' /\ DraggedIsHeld'
        /\ \A q \in DOMAIN cards : q < p =>
             /\ q \in DOMAIN cards' /\ cards'[q] = cards[q]
             /\ IsExpired(cards[q]) => IsExpired(cards[q])'
    BY <2>1, <2>2, RemovalInv
  <2>4. \A q \in stale' : q \in stale /\ q \in DOMAIN cards /\ q < p
    <3>1. DOMAIN cards = 1..Len(cards) /\ Len(cards) \in Nat
      BY <1>0, LenProperties DEF ListOK
    <3> QED
      BY <2>1, <3>1 DEF QueueInv, StaleOK
  <2>5. StaleOK'
    <3>1. popper' \in Threads \cup {"none"} /\ (stale' # {} <=> popper' # "none")
      BY <2>1 DEF Threads
    <3>2. stale' \subseteq DOMAIN cards' /\ \A q \in stale' : IsExpired(cards[q])'
      BY <2>3, <2>4 DEF QueueInv, StaleOK
    <3> QED
      BY <3>1, <3>2 DEF StaleOK
  <2>6. OtherTypes'
    BY <1>0, <2>1, <2>2 DEF QueueInv, OtherTypes, dragVars
  <2> QED
    BY <2>3, <2>5, <2>6 DEF QueueInv
<1> QED
  BY <1>1, <1>2

\* A commit, a change of the preferences and the clock.
LEMMA StartInv ==
  ASSUME QueueInv, Add \/ (\E config \in Lifetimes : Configure(config)) \/ Tock
  PROVE  QueueInv'
<1>0. /\ ListOK /\ TimersOK /\ now \in Nat /\ lifetime \in Nat
      /\ made \in Nat /\ MaxCards \in Nat /\ Queued \subseteq 1..made
  BY BoundsAssumption DEF QueueInv, OtherTypes, KnownOK
<1>1. ASSUME Add PROVE QueueInv'
  <2> DEFINE c == made + 1
  <2>1. /\ made' = c /\ PushFront(c) /\ Start({c}, lifetime)
        /\ UNCHANGED <<up, now, lifetime, tickVars, dragVars>>
        /\ up /\ popper = "none" /\ made < MaxCards
    BY <1>1 DEF Add, Locks, MainFree
  <2>2. c \in Cards \ Queued
    BY <1>0, <2>1 DEF Cards
  <2>3. ListOK' /\ Queued' = Queued \cup {c}
    BY <1>0, <2>1, <2>2, PushFrontList
  <2>4. KnownOK'
    BY <1>0, <2>1, <2>3 DEF QueueInv, KnownOK, dragVars
  <2>5. TimersOK'
    <3>1. {c} \in SUBSET Cards /\ now' = now
      BY <2>1, <2>2
    <3> QED
      BY <1>0, <2>1, <3>1, StartTimers
  <2>6. StaleOK'
    <3>1. stale = {} /\ stale' = {} /\ popper' = "none"
      BY <2>1 DEF QueueInv, StaleOK, tickVars
    <3> QED
      BY <3>1 DEF StaleOK
  <2>7. DownOK' /\ OtherTypes'
    BY <2>1 DEF QueueInv, DownOK, OtherTypes, tickVars, dragVars
  <2>8. DraggedIsHeld'
    <3>1. drag # c
      BY <1>0, Marks DEF QueueInv, KnownOK
    <3>2. \A d \in Cards \ {c} : left'[d] = left[d] /\ deadline'[d] = deadline[d]
      BY <2>1 DEF Start
    <3>3. Queued \subseteq Cards \ {c}
      BY <1>0, <2>1 DEF Cards
    <3> QED
      BY <2>1, <2>3, <3>1, <3>2, <3>3 DEF QueueInv, DraggedIsHeld, dragVars
  <2> QED
    BY <2>3, <2>4, <2>5, <2>6, <2>7, <2>8 DEF QueueInv
<1>2. ASSUME NEW config \in Lifetimes, Configure(config) PROVE QueueInv'
  <2>1. /\ UNCHANGED <<up, now, queueVars, tickVars, dragVars, made>>
        /\ lifetime' = config /\ up /\ popper = "none"
        /\ Start(IF config = 0 THEN Queued ELSE {}, config)
        /\ config \in Nat
    BY <1>2, TimesAssumption DEF Configure, Locks, MainFree
  <2>2. ListOK' /\ Queued' = Queued
    BY <1>0, <2>1, SameList
  <2>3. Queued \subseteq Cards
    BY <1>0, ElementOfSeq, LenProperties DEF ListOK, Queued, Range
  <2>4. TimersOK'
    <3>1. (IF config = 0 THEN Queued ELSE {}) \in SUBSET Cards /\ now' = now
      BY <2>1, <2>3
    <3> QED
      BY <1>0, <2>1, <3>1, StartTimers
  <2>5. KnownOK' /\ DownOK' /\ OtherTypes'
    BY <2>1, <2>2 DEF QueueInv, KnownOK, DownOK, OtherTypes, tickVars, dragVars
  <2>6. StaleOK'
    <3>1. stale = {} /\ stale' = {} /\ popper' = "none"
      BY <2>1 DEF QueueInv, StaleOK, tickVars
    <3> QED
      BY <3>1 DEF StaleOK
  <2>7. DraggedIsHeld'
    <3>1. \A d \in Queued : \/ deadline'[d] = Never
                            \/ left'[d] = left[d] /\ deadline'[d] = deadline[d]
      BY <2>1, <2>3 DEF Start
    <3> QED
      BY <2>1, <2>2, <3>1 DEF QueueInv, DraggedIsHeld, dragVars
  <2> QED
    BY <2>2, <2>4, <2>5, <2>6, <2>7 DEF QueueInv
<1>3. ASSUME Tock PROVE QueueInv'
  <2>1. /\ UNCHANGED <<up, lifetime, queueVars, timerVars, tickVars, dragVars, made>>
        /\ now' = now + 1 /\ up
    BY <1>3 DEF Tock
  <2>2. ListOK' /\ Queued' = Queued /\ cards' = cards
    BY <1>0, <2>1, SameList DEF queueVars
  <2>3. TimersOK'
    BY <1>0, <1>3, TockTimers
  <2>4. KnownOK' /\ DownOK' /\ OtherTypes' /\ DraggedIsHeld'
    BY <1>0, <2>1, <2>2 DEF QueueInv, KnownOK, DownOK, OtherTypes, DraggedIsHeld,
       tickVars, dragVars, timerVars
  <2>5. \A p \in stale : IsExpired(cards[p]) => IsExpired(cards[p])'
    <3> SUFFICES ASSUME NEW p \in stale, IsExpired(cards[p])
                 PROVE  IsExpired(cards[p])'
      OBVIOUS
    <3>1. cards[p] \in Cards
      BY ElementOfSeq, LenProperties DEF QueueInv, ListOK, StaleOK
    <3>2. deadline[cards[p]] \in Nat
      BY <1>0, <3>1 DEF IsExpired, TimersOK, TimerTypes
    <3> QED
      BY <1>0, <2>1, <2>2, <3>2 DEF IsExpired, timerVars
  <2>6. StaleOK'
    BY <2>1, <2>2, <2>5 DEF QueueInv, StaleOK, tickVars
  <2> QED
    BY <2>2, <2>3, <2>4, <2>6 DEF QueueInv
<1> QED
  BY <1>1, <1>2, <1>3

\* Set-up: the cards of the cache, each once, each with a fresh timer.
LEMMA BootInv ==
  ASSUME QueueInv, Boot
  PROVE  QueueInv'
<1>0. PICK kept \in SUBSET (1..made) :
        \E s \in [1..Cardinality(kept) -> kept] :
          /\ Range(s) = kept
          /\ \A i, j \in DOMAIN s : i < j => s[i] > s[j]
          /\ cards' = s
          /\ index' = [c \in kept |-> CHOOSE i \in DOMAIN s : s[i] = c]
          /\ Start(kept, lifetime')
  BY DEF Boot
<1>1. PICK s \in [1..Cardinality(kept) -> kept] :
        /\ Range(s) = kept
        /\ \A i, j \in DOMAIN s : i < j => s[i] > s[j]
        /\ cards' = s
        /\ index' = [c \in kept |-> CHOOSE i \in DOMAIN s : s[i] = c]
        /\ Start(kept, lifetime')
  BY <1>0
<1>2. /\ ~up /\ up' = TRUE /\ now' = 0 /\ lifetime' \in Nat
      /\ UNCHANGED <<tickVars, dragVars, made>>
      /\ phase = "none" /\ popper = "none" /\ stale = {}
      /\ \A c \in Cards : deadline[c] = Never
      /\ made \in Nat /\ kept \subseteq Cards
  BY BoundsAssumption, TimesAssumption
     DEF Boot, QueueInv, DownOK, StaleOK, KnownOK, Cards
<1>3. Cardinality(kept) \in Nat
  <2>1. IsFiniteSet(1..made)
    BY <1>2, FS_Interval
  <2>2. IsFiniteSet(kept)
    BY <2>1, FS_Subset
  <2> QED
    BY <2>2, FS_CardinalityType
<1>4. s \in Seq(Cards) /\ DOMAIN s = 1..Cardinality(kept)
  <2>1. s \in [1..Cardinality(kept) -> Cards]
    BY <1>2
  <2>2. [1..Cardinality(kept) -> Cards] \subseteq Seq(Cards)
    BY <1>3, SeqDef
  <2> QED
    BY <2>1, <2>2
<1>5. \A i, j \in DOMAIN s : s[i] = s[j] => i = j
  <2> SUFFICES ASSUME NEW i \in DOMAIN s, NEW j \in DOMAIN s, i # j
               PROVE  s[i] # s[j]
    OBVIOUS
  <2>1. i \in Nat /\ j \in Nat /\ s[i] \in kept /\ s[j] \in kept
    BY <1>3, <1>4
  <2>2. \A c \in kept : c \in Nat
    <3>1. \A c \in 1..made : c \in Nat
      OBVIOUS
    <3> QED
      BY <3>1
  <2>3. s[i] \in Nat /\ s[j] \in Nat
    BY <2>1, <2>2
  <2> QED
    BY <1>1, <2>1, <2>3
<1>6. Queued' = kept
  BY <1>1 DEF Queued, Range
<1>7. \A c \in kept : index'[c] \in DOMAIN s /\ s[index'[c]] = c
  BY <1>1 DEF Range
<1>8. ListOK'
  <2>1. index' \in [kept -> Nat]
    BY <1>1, <1>3, <1>4, <1>7
  <2>2. \A p \in DOMAIN s : s[p] \in kept /\ index'[s[p]] = p
    BY <1>1, <1>5, <1>7 DEF Range
  <2> QED
    BY <1>1, <1>4, <1>6, <2>1, <2>2 DEF ListOK, IndexIsPosition
<1>9. TimersOK'
  <2>1. TimersOK /\ kept \in SUBSET Cards /\ 0 \in Nat
    BY <1>2 DEF QueueInv
  <2> QED
    BY <1>1, <1>2, <2>1, StartTimers
<1>10. KnownOK' /\ StaleOK' /\ DownOK' /\ OtherTypes' /\ DraggedIsHeld'
  BY <1>1, <1>2, <1>6 DEF QueueInv, KnownOK, StaleOK, DownOK, OtherTypes,
     DraggedIsHeld, tickVars, dragVars
<1> QED
  BY <1>8, <1>9, <1>10 DEF QueueInv

LEMMA InitInv ==
  ASSUME Init
  PROVE  QueueInv
<1>1. cards = << >> /\ index = << >> /\ Queued = {} /\ DOMAIN cards = {}
  BY DEF Init, Queued, Range
<1>2. ListOK
  BY <1>1, EmptySeq DEF ListOK, IndexIsPosition
<1>3. KnownOK /\ DownOK /\ DraggedIsHeld
  BY <1>1 DEF Init, KnownOK, DownOK, DraggedIsHeld
<1>4. TimersOK
  BY Marks DEF Init, TimersOK, TimerTypes, TimerOK
<1>5. StaleOK /\ OtherTypes
  BY <1>1 DEF Init, StaleOK, OtherTypes, Threads
<1> QED
  BY <1>2, <1>3, <1>4, <1>5 DEF QueueInv

LEMMA NextInv ==
  ASSUME QueueInv, [Next]_vars
  PROVE  QueueInv'
  BY PointerInv, QuietInv, LeaveInv, StartInv, BootInv
     DEF Next, Command, TickStep

(* The inductive invariant of the shelf queue holds in every reachable     *)
(* state, for every number of cards and any lifetimes.                     *)
THEOREM Invariance == Spec => []QueueInv
<1>1. Init => QueueInv
  BY InitInv
<1>2. QueueInv /\ [Next]_vars => QueueInv'
  BY NextInv
<1> QED
  BY <1>1, <1>2, PTL DEF Spec

(* Every variable keeps its type.                                          *)
THEOREM TypeCorrect == Spec => []TypeOK
<1>1. QueueInv => TypeOK
  <2> SUFFICES ASSUME QueueInv PROVE TypeOK
    OBVIOUS
  <2>1. drag \in Cards \cup {NoCard} /\ made \in 0..MaxCards
    BY BoundsAssumption DEF QueueInv, KnownOK, Cards
  <2> QED
    BY <2>1 DEF QueueInv, ListOK, TimersOK, TimerTypes, StaleOK, OtherTypes, TypeOK
<1> QED
  BY <1>1, Invariance, PTL

(* An operation on a card acts on that card: the lookup index names its    *)
(* position, also between two removals of one tick.                        *)
THEOREM IndexAgrees == Spec => []IndexIsPosition
<1>1. QueueInv => IndexIsPosition
  BY DEF QueueInv, ListOK
<1> QED
  BY <1>1, Invariance, PTL

(* A dragged card is not running down, whatever the windows, the           *)
(* preferences and the ticks do.                                           *)
THEOREM DraggedStaysHeld == Spec => []DraggedIsHeld
<1>1. QueueInv => DraggedIsHeld
  BY DEF QueueInv
<1> QED
  BY <1>1, Invariance, PTL

(* No tick takes a card that has not run for its whole lifetime, or within *)
(* the grace period.                                                       *)
THEOREM ExpiryEarned == Spec => ExpiryIsEarned
<1>1. ASSUME QueueInv, [Next]_vars,
             NEW c \in Cards, Expires(c)
      PROVE  Earned(c)
  <2>1. ListOK /\ TimersOK /\ now \in Nat /\ up
    BY <1>1 DEF QueueInv, OtherTypes, DownOK, Expires
  <2>2. cards' # cards
    BY <1>1 DEF Queued, Range, Expires
  <2>3. PICK t \in Threads : TickRemove(t)
    BY <1>1, <2>1, <2>2 DEF Next, Command, TickStep, Add, HoverCard, UnhoverCard,
       Dismiss, DragLock, DragPause, DragEnd, Configure, Tock, Boot, TickBegin,
       CacheDismiss, Locks, vars, queueVars, Expires
  <2>4. PICK p \in stale : RemoveCard(p)
    BY <2>3 DEF TickRemove
  <2>5. p \in DOMAIN cards /\ IsExpired(cards[p])
    BY <1>1 DEF QueueInv, StaleOK
  <2>6. c = cards[p]
    BY <1>1, <2>1, <2>4, <2>5, RemoveCardList DEF Expires
  <2>7. TimerOK(c) /\ IsExpired(c) /\ deadline[c] \in Nat
        /\ ran[c] \in Nat /\ life[c] \in Nat /\ resumed[c] \in Nat \cup {NoTime}
    BY <2>1, <2>5, <2>6 DEF TimersOK, TimerTypes, IsExpired
  <2>8. Grace \in Nat
    BY TimesAssumption
  <2> QED
    BY <2>1, <2>7, <2>8 DEF TimerOK, IsExpired, Earned
<1>2. QueueInv /\ [Next]_vars =>
        [\A c \in Cards : Expires(c) => Earned(c)]_vars
  BY <1>1
<1> QED
  BY <1>2, Invariance, PTL DEF Spec, ExpiryIsEarned

-----------------------------------------------------------------------------
(* The window and the page: scripts.                                       *)

StepNames == {"snapshot", "sync", "emit", "show", "cleared", "present", "grab",
              "deliver", "finish"}
ShowSteps == {"sync", "show", "present"}

(* The steps of S a script has still to take.                              *)
Ahead(steps, S) == \E i \in 1..Len(steps) : steps[i] \in S
Nobody(scripts, S) == \A t \in Publishers : ~Ahead(scripts[t], S)

(* The steps that replace a script end it; a session is finished before    *)
(* the shelf is shown again.                                               *)
WellFormed(steps) ==
  /\ \A i \in 1..Len(steps) : steps[i] \in {"present", "grab", "deliver"} => i = Len(steps)
  /\ \A i \in 1..Len(steps) : steps[i] = "finish" =>
       \E j \in 1..Len(steps) : i < j /\ steps[j] = "sync"

ScriptsOK ==
  /\ script \in [Publishers -> Seq(StepNames)]
  /\ \A t \in Publishers : WellFormed(script[t])
  /\ snap \in [Publishers -> [cards : SUBSET Nat, placed : BOOLEAN]]
  /\ \A t \in Publishers : snap[t].placed => snap[t].cards # {}

\* What is left of a script when its first step is taken.
LEMMA TailOK ==
  ASSUME NEW steps \in Seq(StepNames), steps # <<>>, WellFormed(steps)
  PROVE  /\ Tail(steps) \in Seq(StepNames)
         /\ WellFormed(Tail(steps))
         /\ \A S : Head(steps) \notin S /\ Ahead(steps, S) => Ahead(Tail(steps), S)
         /\ Head(steps) = "finish" => Ahead(Tail(steps), {"sync"})
         /\ Head(steps) \in {"present", "grab", "deliver"} => Tail(steps) = <<>>
<1> DEFINE rest == Tail(steps)
<1>1. /\ Len(steps) \in Nat \ {0} /\ rest \in Seq(StepNames) /\ Len(rest) = Len(steps) - 1
      /\ Head(steps) = steps[1]
      /\ \A i \in 1..Len(rest) : rest[i] = steps[i + 1]
  BY HeadTailProperties, EmptySeq
<1> HIDE DEF rest
<1>2. WellFormed(rest)
  <2>1. ASSUME NEW i \in 1..Len(rest), rest[i] \in {"present", "grab", "deliver"}
        PROVE  i = Len(rest)
    BY <1>1, <2>1 DEF WellFormed
  <2>2. ASSUME NEW i \in 1..Len(rest), rest[i] = "finish"
        PROVE  \E j \in 1..Len(rest) : i < j /\ rest[j] = "sync"
    <3>1. steps[i + 1] = "finish" /\ i + 1 \in 1..Len(steps)
      BY <1>1, <2>2
    <3>2. PICK j \in 1..Len(steps) : i + 1 < j /\ steps[j] = "sync"
      BY <3>1 DEF WellFormed
    <3>3. j - 1 \in 1..Len(rest) /\ i < j - 1 /\ rest[j - 1] = "sync"
      BY <1>1, <3>2
    <3> QED
      BY <3>3
  <2> QED
    BY <2>1, <2>2 DEF WellFormed
<1>3. ASSUME NEW S, Head(steps) \notin S, Ahead(steps, S)
      PROVE  Ahead(rest, S)
  <2>1. PICK i \in 1..Len(steps) : steps[i] \in S
    BY <1>3 DEF Ahead
  <2>2. i # 1
    BY <1>1, <1>3, <2>1
  <2>3. i - 1 \in 1..Len(rest) /\ rest[i - 1] \in S
    BY <1>1, <2>1, <2>2
  <2> QED
    BY <2>3 DEF Ahead
<1>4. ASSUME Head(steps) = "finish" PROVE Ahead(rest, {"sync"})
  <2>1. PICK j \in 1..Len(steps) : 1 < j /\ steps[j] = "sync"
    BY <1>1, <1>4 DEF WellFormed
  <2>2. j - 1 \in 1..Len(rest) /\ rest[j - 1] = "sync"
    BY <1>1, <2>1
  <2> QED
    BY <2>2 DEF Ahead
<1>5. ASSUME Head(steps) \in {"present", "grab", "deliver"} PROVE rest = <<>>
  <2>1. Len(steps) = 1
    BY <1>1, <1>5 DEF WellFormed
  <2> QED
    BY <1>1, <2>1, EmptySeq
<1> QED
  BY <1>1, <1>2, <1>3, <1>4, <1>5 DEF rest

\* The scripts there are.
Scripts == {<<>>, Announce, Publish, Clear, Reveal, Return, GiveUp, Resync,
            <<"snapshot", "present">>, <<"emit">>, <<"grab">>, <<"deliver">>}

LEMMA ScriptsAreWellFormed ==
  ASSUME NEW steps \in Scripts
  PROVE  steps \in Seq(StepNames) /\ WellFormed(steps)
<1>1. CASE steps = <<>>
  BY <1>1 DEF StepNames, WellFormed
<1>2. CASE steps = Announce
  BY <1>2 DEF StepNames, WellFormed, Announce
<1>3. CASE steps = Publish
  BY <1>3 DEF StepNames, WellFormed, Publish
<1>4. CASE steps = Clear
  BY <1>4 DEF StepNames, WellFormed, Clear
<1>5. CASE steps = Reveal
  BY <1>5 DEF StepNames, WellFormed, Reveal
<1>6. CASE steps = Return
  BY <1>6 DEF StepNames, WellFormed, Return
<1>7. CASE steps = GiveUp
  BY <1>7 DEF StepNames, WellFormed, GiveUp
<1>8. CASE steps = Resync
  BY <1>8 DEF StepNames, WellFormed, Resync
<1>9. CASE steps = <<"snapshot", "present">>
  BY <1>9 DEF StepNames, WellFormed
<1>10. CASE steps = <<"emit">>
  BY <1>10 DEF StepNames, WellFormed
<1>11. CASE steps = <<"grab">>
  BY <1>11 DEF StepNames, WellFormed
<1>12. CASE steps = <<"deliver">>
  BY <1>12 DEF StepNames, WellFormed
<1> QED
  BY <1>1, <1>2, <1>3, <1>4, <1>5, <1>6, <1>7, <1>8, <1>9, <1>10, <1>11, <1>12
     DEF Scripts

\* What a script will still do for the page and for the window.
LEMMA WhatScriptsDo ==
  /\ \A S : ~Ahead(<<>>, S)
  /\ \A steps \in {Announce, Publish, Clear, Reveal, Return} : Ahead(steps, {"emit"})
  /\ \A steps \in {Announce, Publish, Clear, Reveal, Return, GiveUp, Resync} :
       Ahead(steps, ShowSteps)
  /\ Ahead(<<"emit">>, {"emit"})
<1>1. \A S : ~Ahead(<<>>, S)
  BY DEF Ahead
<1>2. \A steps \in {Announce, Publish, Clear, Reveal, Return} : Ahead(steps, {"emit"})
  BY DEF Ahead, Announce, Publish, Clear, Reveal, Return
<1>3. \A steps \in {Announce, Publish, Clear, Reveal, Return, GiveUp, Resync} :
        Ahead(steps, ShowSteps)
  BY DEF Ahead, ShowSteps, Announce, Publish, Clear, Reveal, Return,
     GiveUp, Resync
<1>4. Ahead(<<"emit">>, {"emit"})
  BY DEF Ahead
<1> QED
  BY <1>1, <1>2, <1>3, <1>4

-----------------------------------------------------------------------------
(* How a step changes what its thread has still to do.                     *)

\* A thread takes its next step.
Advances(t) == /\ t \in Publishers /\ script[t] # <<>>
             /\ script' = [script EXCEPT ![t] = Tail(@)]

LEMMA StepScripts ==
  ASSUME ScriptsOK, NEW t, Advances(t)
  PROVE  /\ script' \in [Publishers -> Seq(StepNames)]
         /\ \A u \in Publishers : WellFormed(script'[u])
         /\ \A S : Head(script[t]) \notin S /\ Nobody(script', S) => Nobody(script, S)
         /\ Head(script[t]) = "finish" => Ahead(script'[t], {"sync"})
         /\ Head(script[t]) \in {"present", "grab", "deliver"} => script'[t] = <<>>
<1>1. /\ script[t] \in Seq(StepNames) /\ WellFormed(script[t])
      /\ script' \in [Publishers -> Seq(StepNames)] \/ Tail(script[t]) \notin Seq(StepNames)
      /\ script'[t] = Tail(script[t])
      /\ \A u \in Publishers : u # t => script'[u] = script[u]
  BY DEF ScriptsOK, Advances
<1>2. \A S : Head(script[t]) \notin S /\ Nobody(script', S) => Nobody(script, S)
  BY <1>1, TailOK DEF Nobody, Advances
<1> QED
  BY <1>1, <1>2, TailOK DEF Advances, ScriptsOK

\* An idle thread, or one whose last step it is, begins another script.
Begins(t, steps) == /\ t \in Publishers /\ steps \in Scripts
                    /\ script' = [script EXCEPT ![t] = steps]
Ends(t) == script[t] = <<>> \/ Head(script[t]) \in {"present", "grab", "deliver"}

LEMMA BeginScripts ==
  ASSUME ScriptsOK, NEW t, NEW steps, Begins(t, steps)
  PROVE  /\ script' \in [Publishers -> Seq(StepNames)]
         /\ \A u \in Publishers : WellFormed(script'[u])
         /\ \A S : Ahead(steps, S) => ~Nobody(script', S)
         /\ \A S : script[t] = <<>> /\ Nobody(script', S) => Nobody(script, S)
         /\ \A S : /\ script[t] # <<>> /\ Nobody(script', S)
                  /\ Head(script[t]) \in {"present", "grab", "deliver"} \ S
                  => Nobody(script, S)
<1>1. /\ script' \in [Publishers -> Seq(StepNames)]
      /\ script'[t] = steps /\ WellFormed(steps)
      /\ \A u \in Publishers : u # t => script'[u] = script[u]
  BY ScriptsAreWellFormed DEF ScriptsOK, Begins
<1>2. \A u \in Publishers : WellFormed(script'[u])
  BY <1>1 DEF ScriptsOK
<1>3. \A S : Ahead(steps, S) => ~Nobody(script', S)
  BY <1>1 DEF Nobody, Begins
<1>4. \A S : script[t] = <<>> /\ Nobody(script', S) => Nobody(script, S)
  BY <1>1, WhatScriptsDo DEF Nobody
<1>5. ASSUME NEW S, script[t] # <<>>, Nobody(script', S),
             Head(script[t]) \in {"present", "grab", "deliver"} \ S
      PROVE  Nobody(script, S)
  <2>1. script[t] \in Seq(StepNames) /\ WellFormed(script[t])
    BY DEF ScriptsOK, Begins
  <2>2. Tail(script[t]) = <<>> /\ ~Ahead(Tail(script[t]), S)
    BY <1>5, <2>1, TailOK, WhatScriptsDo
  <2>3. Head(script[t]) \notin S
    BY <1>5
  <2>4. ~Ahead(script[t], S)
    BY <1>5, <2>1, <2>2, <2>3, TailOK
  <2> QED
    BY <1>1, <1>5, <2>4 DEF Nobody
<1> QED
  BY <1>1, <1>2, <1>3, <1>4, <1>5

-----------------------------------------------------------------------------
(* The invariant.                                                          *)

Messages == [cards : SUBSET Nat] \cup [gone : Nat]
Full(message) == "cards" \in DOMAIN message

(* A card that is said to be gone never comes back.                        *)
GoneOK(mail, list, newest) ==
  \A i \in 1..Len(mail) : ~Full(mail[i]) => mail[i].gone \in (0..newest) \ list

CardsOK ==
  /\ committed \in Nat
  /\ queue \in SUBSET (1..committed)
  /\ removed \in (0..committed) \ queue
  /\ events \in Seq(Messages)
  /\ GoneOK(events, queue, committed)

SnapsOK(snaps) ==
  /\ snaps \in [Publishers -> [cards : SUBSET Nat, placed : BOOLEAN]]
  /\ \A t \in Publishers : snaps[t].placed => snaps[t].cards # {}

\* A thread keeps a good snapshot with any other.
LEMMA NewSnapshot ==
  ASSUME NEW snaps, SnapsOK(snaps), NEW list \in SUBSET Nat, NEW t,
         NEW s \in Snapshots(list) \cup {NoSnapshot}
  PROVE  SnapsOK([snaps EXCEPT ![t] = s])
<1>1. s \in [cards : SUBSET Nat, placed : BOOLEAN] /\ (s.placed => s.cards # {})
  <2>1. CASE s = NoSnapshot
    BY <2>1 DEF NoSnapshot
  <2>2. CASE s \in Snapshots(list)
    <3>1. PICK b \in IF list = {} THEN {FALSE} ELSE IF SystemFails THEN BOOLEAN ELSE {TRUE} :
            s = [cards |-> list, placed |-> b]
      BY <2>2, Zenon DEF Snapshots
    <3>2. b \in BOOLEAN /\ (list = {} => b = FALSE)
      BY <3>1
    <3> QED
      BY <3>1, <3>2
  <2> QED
    BY <2>1, <2>2
<1> QED
  BY <1>1 DEF SnapsOK

\* Every step keeps the scripts well-formed.
LEMMA ScriptsInv ==
  ASSUME ScriptsOK, CardsOK, [WindowNext]_windowVars
  PROVE  ScriptsOK'
<1>1. SnapsOK(snap) /\ queue \in SUBSET Nat
  BY DEF ScriptsOK, SnapsOK, CardsOK
<1>2. ASSUME NEW t, Advances(t), SnapsOK(snap') PROVE ScriptsOK'
  BY <1>2, StepScripts DEF ScriptsOK, SnapsOK
<1>3. ASSUME NEW t, NEW steps, Begins(t, steps), SnapsOK(snap') PROVE ScriptsOK'
  BY <1>3, BeginScripts DEF ScriptsOK, SnapsOK
<1>4. CASE Steps
  <2> SUFFICES ASSUME NEW t \in Publishers, TakeSnapshot(t) \/ Show(t) \/ Sync(t) \/ Emit(t)
               PROVE  Advances(t) /\ SnapsOK(snap')
    BY <1>2, <1>4 DEF Steps
  <2>1. CASE TakeSnapshot(t)
    <3>1. Advances(t)
      BY <2>1 DEF TakeSnapshot, At, Idle, Advances
    <3>2. PICK s \in Snapshots(queue) : snap' = [snap EXCEPT ![t] = s]
      BY <2>1 DEF TakeSnapshot, Carry
    <3> QED
      BY <1>1, <3>1, <3>2, NewSnapshot
  <2>2. CASE ~TakeSnapshot(t)
    <3>1. Advances(t) /\ StepOn(t)
      BY <2>2 DEF Show, Sync, Emit, At, Idle, StepOn, Advances
    <3> QED
      BY <1>1, <3>1, NewSnapshot DEF StepOn
  <2> QED
    BY <2>1, <2>2
<1>5. CASE EmitCleared \/ Finish
  <2>1. Advances("main") /\ StepOn("main")
    BY <1>5 DEF EmitCleared, Finish, At, Idle, StepOn, Advances, Publishers
  <2> QED
    BY <1>1, <1>2, <2>1, NewSnapshot DEF StepOn
<1>6. CASE Present
  <2>1. CASE StepOn("main")
    <3>1. Advances("main")
      BY <1>6, <2>1 DEF Present, At, Idle, StepOn, Advances, Publishers
    <3> QED
      BY <1>1, <1>2, <2>1, <3>1, NewSnapshot DEF StepOn
  <2>2. CASE Begin("main", <<"emit">>) /\ UNCHANGED snap
    <3>1. Begins("main", <<"emit">>)
      BY <2>2 DEF Begin, Begins, Publishers, Scripts
    <3> QED
      BY <1>1, <1>3, <2>2, <3>1
  <2> QED
    BY <1>6, <2>1, <2>2 DEF Present
<1>7. CASE \E c \in 1..MaxCommits : DismissEntry(c) \/ TouchCard(c)
  <2> PICK c \in 1..MaxCommits : DismissEntry(c) \/ TouchCard(c)
    BY <1>7
  <2>1. CASE DismissEntry(c)
    <3>1. PICK steps \in {Publish, Clear} : Begin("main", steps)
      BY <2>1 DEF DismissEntry
    <3>2. Begins("main", steps) /\ UNCHANGED snap
      BY <2>1, <3>1 DEF DismissEntry, Begin, Begins, Publishers, Scripts
    <3> QED
      BY <1>1, <1>3, <3>2
  <2>2. CASE TouchCard(c)
    <3>1. Begins("main", Announce) /\ \E s \in Snapshots(queue) : Carry("main", s)
      BY <2>2 DEF TouchCard, Begin, Begins, Publishers, Scripts
    <3>2. PICK s \in Snapshots(queue) : snap' = [snap EXCEPT !["main"] = s]
      BY <3>1 DEF Carry
    <3>3. SnapsOK(snap')
      BY <1>1, <3>2, NewSnapshot
    <3> QED
      BY <1>3, <3>1, <3>3
  <2> QED
    BY <2>1, <2>2
<1>8. CASE \E S \in SUBSET queue : TickCommand(S)
  <2> PICK S \in SUBSET queue : TickCommand(S)
    BY <1>8
  <2>1. /\ Begins("main", Announce) /\ queue' \in SUBSET Nat
        /\ \E s \in Snapshots(queue') : Carry("main", s)
    BY <1>1 DEF TickCommand, Expire, Begin, Begins, Publishers, Scripts
  <2>2. PICK s \in Snapshots(queue') : snap' = [snap EXCEPT !["main"] = s]
    BY <2>1 DEF Carry
  <2>3. SnapsOK(snap')
    BY <1>1, <2>1, <2>2, NewSnapshot
  <2> QED
    BY <1>3, <2>1, <2>3
<1>9. CASE \E S \in SUBSET queue : \E t \in Background : TickerWakes(t, S)
  <2> PICK S \in SUBSET queue, t \in Background : TickerWakes(t, S)
    BY <1>9
  <2>1. Begins(t, Publish) /\ UNCHANGED snap
    BY DEF TickerWakes, Begin, Begins, Publishers, Scripts
  <2> QED
    BY <1>1, <1>3, <2>1
<1>10. CASE \E request \in Requests, commit \in BOOLEAN : UpdatePreferences(request, commit)
  <2> PICK request \in Requests, commit \in BOOLEAN : UpdatePreferences(request, commit)
    BY <1>10
  <2>1. Begins("main", IF commit THEN Publish ELSE <<>>) /\ UNCHANGED snap
    BY DEF UpdatePreferences, Begin, Begins, Publishers, Scripts
  <2> QED
    BY <1>1, <1>3, <2>1
<1>11. CASE \E t \in Background : WatcherReacts(t)
  <2> PICK t \in Background : WatcherReacts(t)
    BY <1>11
  <2>1. Begins(t, Reveal) /\ UNCHANGED snap
    BY DEF WatcherReacts, Begin, Begins, Publishers, Scripts
  <2> QED
    BY <1>1, <1>3, <2>1
<1>12. CASE ShowHistory \/ RequestCapture \/ RequestCommit \/ CommitRevision \/ RequestCancel
  <2>1. /\ \E steps \in {<<"snapshot", "present">>, <<"grab">>, <<"deliver">>, Reveal, Resync} :
             Begin("main", steps)
        /\ UNCHANGED snap
    BY <1>12 DEF ShowHistory, RequestCapture, RequestCommit, CommitRevision,
       RequestCancel
  <2>2. PICK steps : Begins("main", steps)
    BY <2>1 DEF Begin, Begins, Publishers, Scripts
  <2> QED
    BY <1>1, <1>3, <2>1, <2>2
<1>13. CASE Grab \/ Deliver
  <2>1. /\ \E steps \in {<<>>, <<"deliver">>, Resync, Return, GiveUp} : Begin("main", steps)
        /\ UNCHANGED snap
    BY <1>13 DEF Grab, Deliver
  <2>2. PICK steps : Begins("main", steps)
    BY <2>1 DEF Begin, Begins, Publishers, Scripts
  <2> QED
    BY <1>1, <1>3, <2>1, <2>2
<1>14. CASE CloseShelf \/ Page \/ UNCHANGED windowVars
  <2>1. UNCHANGED <<script, snap>>
    BY <1>14 DEF CloseShelf, Page, Subscribe, AnswerPage, TakeAnswer,
       TakeEvent, windowVars, threadVars
  <2> QED
    BY <2>1 DEF ScriptsOK
<1> QED
  BY <1>4, <1>5, <1>6, <1>7, <1>8, <1>9, <1>10, <1>11, <1>12, <1>13, <1>14
     DEF WindowNext, Commands, Captures

-----------------------------------------------------------------------------
(* The cards and the mail.                                                 *)

\* Lists and single cards are told apart.
LEMMA Mail ==
  /\ \A c \in SUBSET Nat : [cards |-> c] \in Messages /\ Full([cards |-> c])
  /\ \A c \in Nat : [gone |-> c] \in Messages /\ ~Full([gone |-> c])
  BY DEF Messages, Full

\* What sending and taking do to the mail.
LEMMA AppendMail ==
  ASSUME NEW mail \in Seq(Messages), NEW m \in Messages
  PROVE  /\ Append(mail, m) \in Seq(Messages)
         /\ Len(mail) \in Nat /\ Len(Append(mail, m)) = Len(mail) + 1
         /\ \A i \in 1..Len(mail) : Append(mail, m)[i] = mail[i]
         /\ Append(mail, m)[Len(mail) + 1] = m
  BY AppendProperties

LEMMA TailMail ==
  ASSUME NEW mail \in Seq(Messages), mail # <<>>
  PROVE  /\ Tail(mail) \in Seq(Messages) /\ Head(mail) = mail[1]
         /\ Len(mail) \in Nat \ {0} /\ Len(Tail(mail)) = Len(mail) - 1
         /\ \A i \in 1..Len(Tail(mail)) : Tail(mail)[i] = mail[i + 1]
  BY HeadTailProperties, EmptySeq

\* Every step keeps the cards apart that are gone.
LEMMA CardsInv ==
  ASSUME ScriptsOK, CardsOK, [WindowNext]_windowVars
  PROVE  CardsOK'
<1>1. /\ committed \in Nat /\ queue \in SUBSET (1..committed) /\ removed \in (0..committed) \ queue
      /\ events \in Seq(Messages) /\ GoneOK(events, queue, committed)
      /\ \A t \in Publishers : snap[t].cards \in SUBSET Nat
  BY DEF CardsOK, GoneOK, ScriptsOK
<1>2. ASSUME queue' \in SUBSET queue, committed' = committed, removed' \in (0..committed) \ queue',
             events' = events
      PROVE  CardsOK'
  BY <1>1, <1>2 DEF CardsOK, GoneOK
<1>3. ASSUME AddCard, events' = events PROVE CardsOK'
  <2>1. committed' = committed + 1 /\ queue' = queue \cup {committed + 1} /\ removed' = removed
    BY <1>3 DEF AddCard
  <2>2. queue' \in SUBSET (1..committed') /\ committed' \in Nat /\ removed' \in (0..committed') \ queue'
    BY <1>1, <2>1
  <2>3. GoneOK(events', queue', committed')
    BY <1>1, <1>3, <2>1 DEF GoneOK
  <2> QED
    BY <1>1, <1>3, <2>2, <2>3 DEF CardsOK, GoneOK
<1>4. ASSUME UNCHANGED listVars, NEW m \in Messages, Send(m),
             ~Full(m) => m.gone \in (0..committed) \ queue
      PROVE  CardsOK'
  <2>1. CASE events' = events
    BY <1>1, <1>2, <1>4, <2>1 DEF listVars
  <2>2. CASE events' = Append(events, m)
    <3>1. GoneOK(events', queue, committed)
      BY <1>1, <1>4, <2>2, AppendMail DEF GoneOK
    <3> QED
      BY <1>1, <1>4, <2>2, <3>1, AppendMail DEF CardsOK, GoneOK, listVars
  <2> QED
    BY <1>4, <2>1, <2>2 DEF Send
<1>5. CASE \E t \in Publishers : Emit(t)
  <2> PICK t \in Publishers : Emit(t)
    BY <1>5
  <2>1. UNCHANGED listVars /\ Send([cards |-> snap[t].cards])
    BY DEF Emit
  <2> QED
    BY <1>1, <1>4, <2>1, Mail
<1>6. CASE EmitCleared
  <2>1. UNCHANGED listVars /\ Send([gone |-> removed])
    BY <1>6 DEF EmitCleared
  <2> QED
    BY <1>1, <1>4, <2>1, Mail
<1>7. CASE TakeEvent
  <2>1. events # <<>> /\ events' = Tail(events) /\ UNCHANGED listVars
    BY <1>7 DEF TakeEvent
  <2>2. GoneOK(Tail(events), queue, committed)
    BY <1>1, <2>1, TailMail DEF GoneOK
  <2> QED
    BY <1>1, <2>1, <2>2, TailMail DEF CardsOK, GoneOK, listVars
<1>8. CASE \E c \in 1..MaxCommits : DismissEntry(c)
  BY <1>1, <1>2, <1>8 DEF DismissEntry
<1>9. CASE \E S \in SUBSET queue : TickCommand(S)
  BY <1>1, <1>2, <1>9 DEF TickCommand, Expire
<1>10. CASE \E S \in SUBSET queue : \E t \in Background : TickerWakes(t, S)
  BY <1>1, <1>2, <1>10 DEF TickerWakes, Expire
<1>11. CASE Deliver \/ CommitRevision
  BY <1>1, <1>2, <1>3, <1>11 DEF Deliver, CommitRevision, listVars
<1>12. CASE UNCHANGED <<listVars, events>>
  BY <1>1, <1>2, <1>12 DEF listVars
<1>13. \/ \E t \in Publishers : TakeSnapshot(t) \/ Show(t) \/ Sync(t)
       \/ \E c \in 1..MaxCommits : TouchCard(c)
       \/ \E request \in Requests, commit \in BOOLEAN : UpdatePreferences(request, commit)
       \/ \E t \in Background : WatcherReacts(t)
       \/ ShowHistory \/ Present \/ CloseShelf \/ RequestCapture \/ Grab \/ RequestCommit
       \/ Finish \/ RequestCancel \/ Subscribe \/ AnswerPage \/ TakeAnswer \/ UNCHANGED windowVars
       => UNCHANGED <<listVars, events>>
  BY DEF TakeSnapshot, Show, Sync, TouchCard, UpdatePreferences,
     WatcherReacts, ShowHistory, Present, CloseShelf, RequestCapture,
     Grab, RequestCommit, Finish, RequestCancel, Subscribe, AnswerPage,
     TakeAnswer, windowVars, listVars
<1> QED
  BY <1>5, <1>6, <1>7, <1>8, <1>9, <1>10, <1>11, <1>12, <1>13
     DEF WindowNext, Steps, Commands, Captures, Page

-----------------------------------------------------------------------------
(* The page.                                                               *)

(* What the page will show: the last whole list on its way, or, with none  *)
(* on its way, its own or the answer it waits for.                         *)
Learns(mail, shows, told, list) ==
  /\ \A i \in 1..Len(mail) :
       Full(mail[i]) /\ (\A j \in 1..Len(mail) : i < j => ~Full(mail[j])) => mail[i].cards = list
  /\ (\A i \in 1..Len(mail) : ~Full(mail[i])) =>
       /\ shows.cards \in {NoCards, list}
       /\ shows.at = "asked" /\ ~shows.heard => told = list

Lists == (SUBSET Nat) \cup {NoCards}
Stages == {"loading", "listening", "asked", "ready"}
PageOK ==
  /\ page \in [at : Stages, cards : Lists, heard : BOOLEAN] /\ answer \in Lists
  /\ page.at = "loading" => events = <<>> /\ page.cards = NoCards
  /\ Nobody(script, {"emit"}) /\ "page" \notin aged => Learns(events, page, answer, queue)

\* What matters of the script is whether a list is still to be sent.
LEMMA PageFrame ==
  ASSUME PageOK, UNCHANGED <<queue, page, answer, events>>,
         "page" \notin aged' => "page" \notin aged,
         Nobody(script', {"emit"}) => Nobody(script, {"emit"})
  PROVE  PageOK'
  BY DEF PageOK

LEMMA PageSending ==
  ASSUME PageOK, UNCHANGED <<page, answer, events>>, ~Nobody(script', {"emit"})
  PROVE  PageOK'
  BY DEF PageOK

\* A list that is sent is the queue, or known to be old.
LEMMA EmitPage ==
  ASSUME ScriptsOK, CardsOK, PageOK, NEW t \in Publishers, Emit(t)
  PROVE  PageOK'
<1>1. /\ UNCHANGED <<page, answer, queue>>
      /\ Send([cards |-> snap[t].cards])
      /\ "page" \notin aged' => snap[t].cards = queue
  BY DEF Emit, Give, pageVars, listVars
<1>2. CASE page.at = "loading"
  <2>1. events' = <<>> /\ page.cards = NoCards /\ Len(<<>>) = 0
    BY <1>1, <1>2 DEF Send, PageOK
  <2>2. Learns(events', page, answer, queue)
    BY <1>2, <2>1 DEF Learns
  <2> QED
    BY <1>1, <2>1, <2>2 DEF PageOK
<1>3. CASE page.at # "loading"
  <2> DEFINE m == [cards |-> snap[t].cards]
  <2>1. m \in Messages /\ Full(m) /\ events \in Seq(Messages)
    BY Mail DEF ScriptsOK, CardsOK
  <2>2. events' = Append(events, m)
    BY <1>1, <1>3 DEF Send
  <2>3. "page" \notin aged' => Learns(events', page, answer, queue)
    <3>1. SUFFICES ASSUME m.cards = queue PROVE Learns(events', page, answer, queue)
      BY <1>1
    <3> HIDE DEF m
    <3>2. /\ Len(events') = Len(events) + 1 /\ Len(events) \in Nat
          /\ events'[Len(events) + 1] = m
      BY <2>1, <2>2, AppendMail
    <3>3. Full(events'[Len(events')])
      BY <2>1, <3>2
    <3> QED
      BY <3>1, <3>2, <3>3 DEF Learns
  <2> QED
    BY <1>1, <1>3, <2>3 DEF PageOK
<1> QED
  BY <1>2, <1>3

\* A card that is said to be gone changes nothing the page will show.
LEMMA ClearedPage ==
  ASSUME ScriptsOK, CardsOK, PageOK, EmitCleared
  PROVE  PageOK'
<1>1. /\ UNCHANGED <<page, answer, queue, aged>> /\ Send([gone |-> removed])
      /\ Advances("main") /\ Head(script["main"]) = "cleared"
  BY DEF EmitCleared, At, Idle, StepOn, Advances, Publishers, pageVars,
     listVars
<1>2. Nobody(script', {"emit"}) => Nobody(script, {"emit"})
  BY <1>1, StepScripts
<1>3. CASE page.at = "loading"
  BY <1>1, <1>2, <1>3, PageFrame DEF Send
<1>4. CASE page.at # "loading"
  <2> DEFINE m == [gone |-> removed]
  <2>1. m \in Messages /\ ~Full(m) /\ events \in Seq(Messages)
    BY Mail DEF CardsOK
  <2>2. events' = Append(events, m)
    BY <1>1, <1>4 DEF Send
  <2> HIDE DEF m
  <2>3. ASSUME Learns(events, page, answer, queue) PROVE Learns(events', page, answer, queue)
    <3>1. /\ Len(events') = Len(events) + 1 /\ Len(events) \in Nat
          /\ \A i \in 1..Len(events) : events'[i] = events[i]
          /\ ~Full(events'[Len(events) + 1])
      BY <2>1, <2>2, AppendMail
    <3>2. ASSUME NEW i \in 1..Len(events'), Full(events'[i]),
                 \A j \in 1..Len(events') : i < j => ~Full(events'[j])
          PROVE  events'[i].cards = queue
      <4>1. i \in 1..Len(events) /\ events'[i] = events[i]
        BY <3>1, <3>2
      <4>2. \A j \in 1..Len(events) : i < j => ~Full(events[j])
        BY <3>1, <3>2
      <4> QED
        BY <2>3, <3>2, <4>1, <4>2 DEF Learns
    <3>3. ASSUME \A i \in 1..Len(events') : ~Full(events'[i])
          PROVE  \A i \in 1..Len(events) : ~Full(events[i])
      BY <3>1, <3>3
    <3> QED
      BY <2>3, <3>2, <3>3 DEF Learns
  <2> QED
    BY <1>1, <1>2, <1>4, <2>3 DEF PageOK
<1> QED
  BY <1>3, <1>4

\* Taking an event changes nothing the page will show.
LEMMA TakePage ==
  ASSUME CardsOK, PageOK, TakeEvent
  PROVE  PageOK'
<1> DEFINE e == events[1]
<1>1. /\ UNCHANGED <<script, answer, queue, aged>> /\ events # <<>> /\ events' = Tail(events)
      /\ page' = [page EXCEPT !.heard = TRUE,
                    !.cards = IF Full(Head(events)) THEN Head(events).cards
                              ELSE IF @ = NoCards THEN NoCards ELSE @ \ {Head(events).gone}]
  BY DEF TakeEvent, Full, listVars, threadVars
<1>2. /\ events \in Seq(Messages) /\ GoneOK(events, queue, committed)
      /\ page \in [at : Stages, cards : Lists, heard : BOOLEAN] /\ answer \in Lists
  BY DEF CardsOK, PageOK
<1>3. /\ Head(events) = e /\ e \in Messages /\ Len(events) \in Nat \ {0}
      /\ Len(events') = Len(events) - 1
      /\ \A i \in 1..Len(events') : events'[i] = events[i + 1]
  BY <1>1, <1>2, TailMail
<1> DEFINE next == IF Full(e) THEN e.cards
                   ELSE IF page.cards = NoCards THEN NoCards ELSE page.cards \ {e.gone}
<1>4. page' = [page EXCEPT !.heard = TRUE, !.cards = next]
  BY <1>1, <1>3
<1>5. Full(e) => e.cards \in SUBSET Nat
  BY <1>3 DEF Messages, Full
<1>6. next \in Lists
  BY <1>2, <1>5 DEF Lists
<1>7. ~Full(e) => e.gone \notin queue
  BY <1>2, <1>3 DEF GoneOK
<1> HIDE DEF e, next
<1>8. /\ page' \in [at : Stages, cards : Lists, heard : BOOLEAN]
      /\ page'.at = page.at /\ page'.heard /\ page'.cards = next
  BY <1>2, <1>4, <1>6
<1>9. page.at # "loading"
  BY <1>1 DEF PageOK
<1>10. ASSUME Learns(events, page, answer, queue) PROVE Learns(events', page', answer, queue)
  <2>1. ASSUME NEW i \in 1..Len(events'), Full(events'[i]),
               \A j \in 1..Len(events') : i < j => ~Full(events'[j])
        PROVE  events'[i].cards = queue
    <3>1. i + 1 \in 1..Len(events) /\ events'[i] = events[i + 1]
      BY <1>3, <2>1
    <3>2. ASSUME NEW j \in 1..Len(events), i + 1 < j PROVE ~Full(events[j])
      <4>1. j - 1 \in 1..Len(events') /\ i < j - 1 /\ events'[j - 1] = events[j]
        BY <1>3, <3>2
      <4> QED
        BY <2>1, <4>1
    <3> QED
      BY <1>10, <2>1, <3>1, <3>2 DEF Learns
  <2>2. ASSUME \A i \in 1..Len(events') : ~Full(events'[i])
        PROVE  next \in {NoCards, queue}
    <3>1. ASSUME NEW j \in 1..Len(events), 1 < j PROVE ~Full(events[j])
      <4>1. j - 1 \in 1..Len(events') /\ events'[j - 1] = events[j]
        BY <1>3, <3>1
      <4> QED
        BY <2>2, <4>1
    <3>2. 1 \in 1..Len(events)
      BY <1>3
    <3>3. CASE Full(e)
      <4>1. e.cards = queue
        BY <1>10, <3>1, <3>2, <3>3 DEF Learns, e
      <4> QED
        BY <3>3, <4>1 DEF next
    <3>4. CASE ~Full(e)
      <4>1. \A i \in 1..Len(events) : ~Full(events[i])
        BY <1>3, <3>1, <3>4 DEF e
      <4>2. page.cards \in {NoCards, queue}
        BY <1>10, <4>1 DEF Learns
      <4> QED
        BY <1>7, <3>4, <4>2 DEF next
    <3> QED
      BY <3>3, <3>4
  <2> QED
    BY <1>8, <2>1, <2>2 DEF Learns
<1> QED
  BY <1>1, <1>2, <1>8, <1>9, <1>10 DEF PageOK

\* Every step keeps what the page will show.
LEMMA PageInv ==
  ASSUME ScriptsOK, CardsOK, PageOK, [WindowNext]_windowVars
  PROVE  PageOK'
<1>1. ASSUME NEW t, Advances(t), Head(script[t]) # "emit",
             UNCHANGED <<queue, page, answer, events>>,
             "page" \notin aged' => "page" \notin aged
      PROVE  PageOK'
  <2>1. Nobody(script', {"emit"}) => Nobody(script, {"emit"})
    BY <1>1, StepScripts
  <2> QED
    BY <1>1, <2>1, PageFrame
<1>2. ASSUME NEW t, NEW steps, Begins(t, steps), Ends(t),
             UNCHANGED <<queue, page, answer, events>>,
             "page" \notin aged' => "page" \notin aged
      PROVE  PageOK'
  <2>1. Nobody(script', {"emit"}) => Nobody(script, {"emit"})
    BY <1>2, BeginScripts DEF Ends
  <2> QED
    BY <1>2, <2>1, PageFrame
<1>3. ASSUME NEW t, NEW steps \in {Announce, Publish, Clear, Reveal, Return, <<"emit">>},
             Begins(t, steps), UNCHANGED <<page, answer, events>>
      PROVE  PageOK'
  <2>1. ~Nobody(script', {"emit"})
    BY <1>3, BeginScripts, WhatScriptsDo
  <2> QED
    BY <1>3, <2>1, PageSending
<1>4. CASE \E t \in Publishers : TakeSnapshot(t) \/ Show(t) \/ Sync(t)
  <2> PICK t \in Publishers : TakeSnapshot(t) \/ Show(t) \/ Sync(t)
    BY <1>4
  <2>1. Advances(t) /\ Head(script[t]) # "emit" /\ UNCHANGED <<queue, page, answer, events>>
    BY DEF TakeSnapshot, Show, Sync, At, Idle, StepOn, Advances,
       listVars, pageVars
  <2>2. "page" \notin aged' => "page" \notin aged
    BY DEF TakeSnapshot, Show, Sync, ShowAt, SyncWindow, Give
  <2> QED
    BY <1>1, <2>1, <2>2
<1>5. CASE Finish
  BY <1>1, <1>5 DEF Finish, At, Idle, StepOn, Advances, Publishers,
     listVars, pageVars
<1>6. CASE Present
  <2>1. CASE StepOn("main")
    <3>1. Advances("main") /\ Head(script["main"]) # "emit" /\ UNCHANGED <<queue, page, answer, events>>
      BY <1>6, <2>1 DEF Present, At, Idle, StepOn, Advances, Publishers,
         listVars, pageVars
    <3>2. "page" \notin aged' => "page" \notin aged
      BY <1>6 DEF Present, ShowAt, SyncWindow, Give
    <3> QED
      BY <1>1, <3>1, <3>2
  <2>2. CASE Begin("main", <<"emit">>)
    BY <1>3, <1>6, <2>2 DEF Present, Begin, Begins, Publishers, Scripts, pageVars
  <2> QED
    BY <1>6, <2>1, <2>2 DEF Present
<1>7. CASE \E c \in 1..MaxCommits : DismissEntry(c) \/ TouchCard(c)
  <2> PICK c \in 1..MaxCommits : DismissEntry(c) \/ TouchCard(c)
    BY <1>7
  <2>1. /\ \E steps \in {Publish, Clear, Announce} : Begin("main", steps)
        /\ UNCHANGED <<page, answer, events>>
    BY DEF DismissEntry, TouchCard, pageVars
  <2> QED
    BY <1>3, <2>1 DEF Begin, Begins, Publishers, Scripts
<1>8. CASE \E S \in SUBSET queue : TickCommand(S) \/ \E t \in Background : TickerWakes(t, S)
  <2> PICK S \in SUBSET queue : TickCommand(S) \/ \E t \in Background : TickerWakes(t, S)
    BY <1>8
  <2>1. /\ \E t \in Publishers, steps \in {Publish, Announce} : Begin(t, steps)
        /\ UNCHANGED <<page, answer, events>>
    BY DEF TickCommand, TickerWakes, pageVars, Publishers
  <2> QED
    BY <1>3, <2>1 DEF Begin, Begins, Scripts
<1>9. CASE \E request \in Requests, commit \in BOOLEAN : UpdatePreferences(request, commit)
  <2> PICK request \in Requests, commit \in BOOLEAN : UpdatePreferences(request, commit)
    BY <1>9
  <2> DEFINE steps == IF commit THEN Publish ELSE <<>>
  <2>1. Begins("main", steps) /\ Ends("main") /\ UNCHANGED <<queue, page, answer, events, aged>>
    BY DEF UpdatePreferences, Begin, Begins, Idle, Ends, Publishers, Scripts,
       pageVars
  <2> QED
    BY <1>2, <2>1
<1>10. CASE \E t \in Background : WatcherReacts(t)
  BY <1>3, <1>10 DEF WatcherReacts, Begin, Begins, Publishers, Scripts, pageVars
<1>11. CASE ShowHistory \/ RequestCapture \/ RequestCommit \/ RequestCancel
  <2>1. /\ \E steps \in {<<"snapshot", "present">>, <<"grab">>, <<"deliver">>, Resync} :
             Begin("main", steps)
        /\ Idle("main") /\ UNCHANGED <<queue, page, answer, events, aged>>
    BY <1>11 DEF ShowHistory, RequestCapture, RequestCommit, RequestCancel,
       pageVars, listVars
  <2>2. (\E steps : Begins("main", steps)) /\ Ends("main")
    BY <2>1 DEF Begin, Begins, Publishers, Scripts, Ends, Idle
  <2> QED
    BY <1>2, <2>1, <2>2
<1>12. CASE CommitRevision
  BY <1>3, <1>12 DEF CommitRevision, Begin, Begins, Publishers, Scripts, pageVars
<1>13. CASE Grab
  <2>1. /\ \E steps \in {<<>>, <<"deliver">>, Resync} : Begin("main", steps)
        /\ At("main", "grab") /\ UNCHANGED <<queue, page, answer, events, aged>>
    BY <1>13 DEF Grab, pageVars, listVars
  <2>2. (\E steps : Begins("main", steps)) /\ Ends("main")
    BY <2>1 DEF Begin, Begins, Publishers, Scripts, Ends, At
  <2> QED
    BY <1>2, <2>1, <2>2
<1>14. CASE Deliver
  <2>1. CASE Begin("main", Return)
    BY <1>3, <1>14, <2>1 DEF Deliver, Begin, Begins, Publishers, Scripts, pageVars
  <2>2. CASE UNCHANGED listVars /\ Begin("main", GiveUp)
    <3>1. Begins("main", GiveUp) /\ Ends("main") /\ UNCHANGED <<queue, page, answer, events, aged>>
      BY <1>14, <2>2 DEF Deliver, At, Begin, Begins, Ends, Publishers, Scripts,
         pageVars, listVars
    <3> QED
      BY <1>2, <3>1
  <2> QED
    BY <1>14, <2>1, <2>2 DEF Deliver
<1>15. CASE Subscribe
  <2>1. /\ page.at = "loading" /\ page' = [page EXCEPT !.at = "listening"]
        /\ UNCHANGED <<queue, script, events, answer, aged>>
    BY <1>15 DEF Subscribe, listVars, threadVars
  <2> QED
    BY <2>1 DEF PageOK, Stages, Learns
<1>16. CASE AnswerPage
  <2>1. /\ page.at = "listening" /\ page' = [page EXCEPT !.at = "asked"] /\ answer' = queue
        /\ UNCHANGED <<queue, script, events, aged>>
    BY <1>16 DEF AnswerPage, listVars, threadVars
  <2>2. queue \in Lists
    BY DEF CardsOK, Lists
  <2> QED
    BY <2>1, <2>2 DEF PageOK, Stages, Learns
<1>17. CASE TakeAnswer
  <2>1. /\ page.at = "asked" /\ answer' = NoCards
        /\ page' = [page EXCEPT !.at = "ready", !.cards = IF page.heard THEN @ ELSE answer]
        /\ UNCHANGED <<queue, script, events, aged>>
    BY <1>17 DEF TakeAnswer, listVars, threadVars
  <2>2. page' \in [at : Stages, cards : Lists, heard : BOOLEAN] /\ answer' \in Lists
        /\ page'.at = "ready"
    BY <2>1 DEF PageOK, Stages, Lists
  <2>3. Learns(events, page, answer, queue) => Learns(events', page', answer', queue)
    BY <2>1, <2>2 DEF Learns, PageOK
  <2> QED
    BY <2>1, <2>2, <2>3 DEF PageOK
<1>18. CASE CloseShelf \/ UNCHANGED windowVars
  <2>1. UNCHANGED <<queue, page, answer, events, aged, script>>
    BY <1>18 DEF CloseShelf, windowVars, threadVars, pageVars, listVars
  <2> QED
    BY <2>1 DEF PageOK
<1> QED
  BY <1>4, <1>5, <1>6, <1>7, <1>8, <1>9, <1>10, <1>11, <1>12, <1>13, <1>14, <1>15,
     <1>16, <1>17, <1>18, EmitPage, ClearedPage, TakePage DEF WindowNext, Steps,
     Commands, Captures, Page

-----------------------------------------------------------------------------
(* The window.                                                             *)

WindowOK ==
  /\ session = "idle" /\ Nobody(script, ShowSteps) /\ "window" \notin aged /\ ~closed
  => (shown <=> queue # {})

\* A thread that gives its snapshot to the window leaves it right, or is
\* known to have had an old one.
LEMMA Shown ==
  ASSUME ScriptsOK, NEW t \in Publishers, UNCHANGED queue, ShowAt(t) \/ SyncWindow(t)
  PROVE  WindowOK'
<1>1. snap[t].placed => snap[t].cards # {}
  BY DEF ScriptsOK
<1>2. "window" \notin aged' => snap[t].cards = queue
  BY DEF ShowAt, SyncWindow, Give
<1>3. "window" \notin aged' => (shown' <=> snap[t].cards # {})
  BY <1>1 DEF ShowAt, SyncWindow, Hide
<1> QED
  BY <1>2, <1>3 DEF WindowOK

\* Every step keeps what the window shows.
LEMMA WindowInv ==
  ASSUME ScriptsOK, WindowOK, [WindowNext]_windowVars
  PROVE  WindowOK'
<1>1. ASSUME UNCHANGED <<queue, session, shown, closed>>,
             "window" \notin aged' => "window" \notin aged,
             Nobody(script', ShowSteps) => Nobody(script, ShowSteps)
      PROVE  WindowOK'
  BY <1>1 DEF WindowOK
<1>2. ASSUME NEW t, Advances(t), Head(script[t]) \notin ShowSteps,
             UNCHANGED <<queue, session, shown, closed>>,
             "window" \notin aged' => "window" \notin aged
      PROVE  WindowOK'
  BY <1>1, <1>2, StepScripts
<1>3. ASSUME NEW t, NEW steps, Begins(t, steps), script[t] = <<>>,
             UNCHANGED <<queue, session, shown, closed, aged>>
      PROVE  WindowOK'
  BY <1>1, <1>3, BeginScripts
<1>4. ASSUME NEW t, NEW steps \in {Announce, Publish, Clear, Reveal, Return, GiveUp, Resync},
             Begins(t, steps)
      PROVE  WindowOK'
  BY <1>4, BeginScripts, WhatScriptsDo DEF WindowOK
<1>5. CASE \E t \in Publishers : Show(t) \/ Sync(t)
  BY <1>5, Shown DEF Show, Sync, listVars
<1>6. CASE Present
  BY <1>6, Shown DEF Present, listVars, Publishers
<1>7. CASE \E t \in Publishers : TakeSnapshot(t) \/ Emit(t)
  <2> PICK t \in Publishers : TakeSnapshot(t) \/ Emit(t)
    BY <1>7
  <2>1. /\ Advances(t) /\ Head(script[t]) \notin ShowSteps
        /\ UNCHANGED <<queue, session, shown, closed>>
    BY DEF TakeSnapshot, Emit, At, Idle, StepOn, Advances, ShowSteps,
       listVars, screenVars
  <2>2. "window" \notin aged' => "window" \notin aged
    BY DEF TakeSnapshot, Emit, Give
  <2> QED
    BY <1>2, <2>1, <2>2
<1>8. CASE EmitCleared
  BY <1>2, <1>8 DEF EmitCleared, At, Idle, StepOn, Advances, ShowSteps,
     Publishers, listVars, screenVars
<1>9. CASE Finish
  <2>1. Advances("main") /\ Head(script["main"]) = "finish"
    BY <1>9 DEF Finish, At, Idle, StepOn, Advances, Publishers
  <2>2. ~Nobody(script', ShowSteps)
    BY <2>1, StepScripts DEF Nobody, Ahead, ShowSteps, Advances
  <2> QED
    BY <2>2 DEF WindowOK
<1>10. CASE \E c \in 1..MaxCommits : DismissEntry(c) \/ TouchCard(c)
  <2>1. \E steps \in {Publish, Clear, Announce} : Begin("main", steps)
    BY <1>10 DEF DismissEntry, TouchCard
  <2> QED
    BY <1>4, <2>1 DEF Begin, Begins, Publishers, Scripts
<1>11. CASE \E S \in SUBSET queue : TickCommand(S) \/ \E t \in Background : TickerWakes(t, S)
  <2>1. \E t \in Publishers, steps \in {Publish, Announce} : Begin(t, steps)
    BY <1>11 DEF TickCommand, TickerWakes, Publishers
  <2> QED
    BY <1>4, <2>1 DEF Begin, Begins, Scripts
<1>12. CASE \E request \in Requests, commit \in BOOLEAN : UpdatePreferences(request, commit)
  <2> PICK request \in Requests, commit \in BOOLEAN : UpdatePreferences(request, commit)
    BY <1>12
  <2> DEFINE steps == IF commit THEN Publish ELSE <<>>
  <2>1. Begins("main", steps) /\ script["main"] = <<>>
        /\ UNCHANGED <<queue, session, shown, closed, aged>>
    BY DEF UpdatePreferences, Begin, Begins, Idle, Publishers, Scripts,
       screenVars
  <2> QED
    BY <1>3, <2>1
<1>13. CASE (\E t \in Background : WatcherReacts(t)) \/ CommitRevision \/ RequestCancel
  <2>1. \E t \in Publishers, steps \in {Reveal, Resync} : Begin(t, steps)
    BY <1>13 DEF WatcherReacts, CommitRevision, RequestCancel, Publishers
  <2> QED
    BY <1>4, <2>1 DEF Begin, Begins, Scripts
<1>14. CASE ShowHistory
  BY <1>3, <1>14 DEF ShowHistory, Begin, Begins, Idle, Publishers, Scripts,
     listVars, screenVars
<1>15. CASE RequestCapture \/ RequestCommit
  BY <1>15 DEF RequestCapture, RequestCommit, WindowOK
<1>16. CASE Grab
  <2>1. CASE session' \in {"selecting", "capturing"}
    BY <2>1 DEF WindowOK
  <2>2. CASE Begin("main", Resync)
    BY <1>4, <2>2 DEF Begin, Begins, Publishers, Scripts
  <2> QED
    BY <1>16, <2>1, <2>2 DEF Grab
<1>17. CASE Deliver
  <2>1. \E steps \in {Return, GiveUp} : Begin("main", steps)
    BY <1>17 DEF Deliver
  <2> QED
    BY <1>4, <2>1 DEF Begin, Begins, Publishers, Scripts
<1>18. CASE CloseShelf
  BY <1>18 DEF CloseShelf, WindowOK
<1>19. CASE Page \/ UNCHANGED windowVars
  BY <1>19 DEF Page, Subscribe, AnswerPage, TakeAnswer, TakeEvent, windowVars,
     listVars, threadVars, screenVars, WindowOK
<1> QED
  BY <1>5, <1>6, <1>7, <1>8, <1>9, <1>10, <1>11, <1>12, <1>13, <1>14, <1>15, <1>16,
     <1>17, <1>18, <1>19 DEF WindowNext, Steps, Commands, Captures

-----------------------------------------------------------------------------
(* The invariant of the window and the page.                               *)
WindowsInv == ScriptsOK /\ CardsOK /\ PageOK /\ WindowOK

\* The invariant holds at the start, and every step keeps it.
LEMMA InitWindows ==
  ASSUME WindowInit
  PROVE  WindowsInv
<1>1. /\ committed = MaxCommits - 1 /\ committed \in Nat /\ queue \in SUBSET (1..committed) /\ removed = 0
      /\ events = <<>>
  BY CountsAssumption DEF WindowInit
<1>2. CardsOK
  <2>1. events \in Seq(Messages) /\ Len(events) = 0
    BY <1>1
  <2> QED
    BY <1>1, <2>1 DEF CardsOK, GoneOK
<1>3. ScriptsOK
  <2>1. \A t \in Publishers : script[t] \in {<<>>, Publish} /\ snap[t] = NoSnapshot
    BY DEF WindowInit
  <2>2. \A t \in Publishers : script[t] \in Seq(StepNames) /\ WellFormed(script[t])
    BY <2>1, ScriptsAreWellFormed DEF Scripts
  <2> QED
    BY <2>1, <2>2 DEF WindowInit, ScriptsOK, NoSnapshot
<1>4. ~Nobody(script, {"emit"}) /\ ~Nobody(script, ShowSteps)
  <2>1. "main" \in Publishers /\ script["main"] = Publish
    BY DEF WindowInit, Publishers
  <2> QED
    BY <2>1, WhatScriptsDo DEF Nobody
<1>5. PageOK
  BY <1>1, <1>4 DEF WindowInit, PageOK, Stages, Lists
<1>6. WindowOK
  BY <1>4 DEF WindowOK
<1> QED
  BY <1>2, <1>3, <1>5, <1>6 DEF WindowsInv

LEMMA NextWindows ==
  ASSUME WindowsInv, [WindowNext]_windowVars
  PROVE  WindowsInv'
<1>1. ScriptsOK /\ CardsOK /\ PageOK /\ WindowOK
  BY DEF WindowsInv
<1> QED
  BY <1>1, ScriptsInv, CardsInv, PageInv, WindowInv DEF WindowsInv

(* The inductive invariant of the window and the page holds in every       *)
(* reachable state, for every number of cards, events and threads.         *)
THEOREM WindowInvariance == WindowSpec => []WindowsInv
<1>1. WindowInit => WindowsInv
  BY InitWindows
<1>2. WindowsInv /\ [WindowNext]_windowVars => WindowsInv'
  BY NextWindows
<1> QED
  BY <1>1, <1>2, PTL DEF WindowSpec

\* With nothing on its way, what is on its way is what is there.
LEMMA RestIsQuiet ==
  ASSUME AtRest, NEW S
  PROVE  Nobody(script, S) /\ events = <<>> /\ page.at = "ready"
  BY WhatScriptsDo DEF AtRest, Idle, Nobody

(* Once nothing is on its way, a page that shows cards shows the queue's,  *)
(* unless the last list it was sent was an old one: whatever was lost      *)
(* while it loaded and however its first answer and the events crossed.    *)
THEOREM PageIsTheQueue == WindowSpec => []PageShowsQueue
<1>1. ASSUME WindowsInv PROVE PageShowsQueue
  <2> SUFFICES ASSUME AtRest, "page" \notin aged, page.cards # NoCards
               PROVE  page.cards = queue
    BY DEF PageShowsQueue
  <2>1. Learns(events, page, answer, queue) /\ events = <<>>
    BY <1>1, RestIsQuiet DEF WindowsInv, PageOK
  <2>2. Len(events) = 0
    BY <2>1
  <2> QED
    BY <2>1, <2>2 DEF Learns
<1> QED
  BY <1>1, WindowInvariance, PTL

(* Every way out of a capture brings the shelf back: between captures it   *)
(* is on the screen exactly when it has cards, unless the user closed it   *)
(* or the last snapshot was an old one or had no place.                    *)
THEOREM ShelfIsBack == WindowSpec => []ShelfComesBack
<1>1. ASSUME WindowsInv PROVE ShelfComesBack
  BY <1>1, RestIsQuiet DEF WindowsInv, WindowOK, ShelfComesBack
<1> QED
  BY <1>1, WindowInvariance, PTL

-----------------------------------------------------------------------------
(* The place of the shelf.                                                 *)

Preferences == [corner : Corners, target : Targets,
                margin : MinMargin..MaxMargin, visible : MinVisible..MaxVisible]
PreferencesOK == prefs \in Preferences

\* Clamping keeps the limits.
LEMMA Clamped ==
  ASSUME NEW n \in Int, NEW low \in Int, NEW high \in Int, low <= high
  PROVE  ClampTo(n, low, high) \in low..high
  BY DEF ClampTo, Larger, Smaller

LEMMA Limits ==
  /\ MinMargin \in Int /\ MaxMargin \in Int /\ MinMargin <= MaxMargin /\ 24 \in MinMargin..MaxMargin
  /\ MinVisible \in Int /\ MaxVisible \in Int /\ MinVisible <= MaxVisible /\ 4 \in MinVisible..MaxVisible
  BY DEF MinMargin, MaxMargin, MinVisible, MaxVisible

\* Preferences are kept within their limits.
LEMMA PreferencesInv == WindowSpec => []PreferencesOK
<1>1. WindowInit => PreferencesOK
  <2>1. DefaultPreferences \in Preferences
    BY Limits DEF DefaultPreferences, Preferences, Corners, Targets
  <2> QED
    BY <2>1 DEF WindowInit, PreferencesOK
<1>2. PreferencesOK /\ [WindowNext]_windowVars => PreferencesOK'
  <2> SUFFICES ASSUME PreferencesOK, [WindowNext]_windowVars PROVE PreferencesOK'
    OBVIOUS
  <2>1. ASSUME NEW request \in Requests PROVE Sanitize(request) \in Preferences
    <3>1. request \in [corner : Corners, target : Targets, margin : Nat, visible : Nat]
      BY RequestsAssumption
    <3>2. /\ ClampTo(request.margin, MinMargin, MaxMargin) \in MinMargin..MaxMargin
          /\ ClampTo(request.visible, MinVisible, MaxVisible) \in MinVisible..MaxVisible
      <4>1. request.margin \in Int /\ request.visible \in Int
        BY <3>1
      <4> QED
        BY <4>1, Clamped, Limits
    <3> QED
      BY <3>1, <3>2 DEF Sanitize, Preferences
  <2>2. (\E request \in Requests : prefs' = Sanitize(request)) \/ UNCHANGED prefs
    BY DEF WindowNext, Steps, Commands, Captures, Page, TakeSnapshot, Show,
       Sync, Emit, EmitCleared, DismissEntry, TouchCard, TickCommand,
       TickerWakes, WatcherReacts, UpdatePreferences, ShowHistory,
       Present, RequestCapture, Grab, RequestCommit, Deliver, Finish,
       CommitRevision, RequestCancel, CloseShelf, Subscribe, AnswerPage,
       TakeAnswer, TakeEvent, windowVars
  <2> QED
    BY <2>1, <2>2 DEF PreferencesOK
<1> QED
  BY <1>1, <1>2, PTL DEF WindowSpec

\* Upwards of nothing, a length stays one in physical pixels.
LEMMA PhysicalLength ==
  ASSUME NEW n \in Nat, NEW scale \in Nat
  PROVE  ToPhysical(n, scale) \in Nat
<1>1. n * scale \in Nat
  OBVIOUS
<1> QED
  BY <1>1 DEF ToPhysical

\* A queue with cards has a height.
LEMMA ShelfHeight ==
  ASSUME NEW count \in Nat \ {0}, NEW overflow \in BOOLEAN
  PROVE  QueueHeight(count, overflow) \in Nat
  BY DEF QueueHeight, CardHeight, CardGap, OverflowHeight

\* One card, with the control or without it, has room.
LEMMA OneCardHasRoom ==
  ASSUME NEW monitor, HasRoom(monitor), NEW overflow \in BOOLEAN
  PROVE  MaxMargin + ToPhysical(QueueHeight(1, overflow), monitor.scale) <= monitor.work.h
<1>1. QueueHeight(1, TRUE) = 276 /\ QueueHeight(1, FALSE) = 220
  BY DEF QueueHeight, CardHeight, CardGap, OverflowHeight
<1>2. monitor.scale \in Nat
  BY DEF HasRoom
<1>3. ToPhysical(220, monitor.scale) <= ToPhysical(276, monitor.scale)
  BY <1>2 DEF ToPhysical
<1> 220 \in Nat /\ 276 \in Nat
  OBVIOUS
<1>4. /\ ToPhysical(220, monitor.scale) \in Nat /\ ToPhysical(276, monitor.scale) \in Nat
  BY <1>2, PhysicalLength
<1>5. MaxMargin + ToPhysical(276, monitor.scale) <= monitor.work.h
  BY <1>1 DEF HasRoom
<1>6. monitor.work.h \in Int
  BY DEF HasRoom
<1>7. CASE overflow = TRUE
  BY <1>1, <1>5, <1>7
<1>8. CASE overflow = FALSE
  <2>1. MaxMargin + ToPhysical(220, monitor.scale) <= monitor.work.h
    BY <1>3, <1>4, <1>5, <1>6 DEF MaxMargin
  <2> QED
    BY <1>1, <1>8, <2>1
<1> QED
  BY <1>7, <1>8

\* Far edges are within the integers' width.
LEMMA FarEdge ==
  ASSUME NEW n \in Int, MinInt <= n, NEW length \in 0..MaxInt, n + length <= MaxInt
  PROVE  Saturate(n + Wrap(length)) = n + length
<1> DEFINE a == length + MaxInt + 1
           d == 2 * MaxInt + 2
<1>1. MaxInt \in Nat \ {0}
  BY MaxIntAssumption
<1>2. a \in Nat /\ d \in Nat \ {0} /\ a < d
  BY <1>1
<1>3. a - MaxInt - 1 = length
  BY <1>1
<1> HIDE DEF a, d
<1>4. a % d = a
  BY <1>2
<1>5. Wrap(length) = length
  BY <1>3, <1>4 DEF Wrap, a, d
<1> QED
  BY <1>1, <1>5 DEF Saturate, ClampTo, Larger, Smaller, MinInt

\* On each axis, both ends keep a length inside that fits with its margin.
LEMMA AxisIsInside ==
  ASSUME NEW from \in Int, NEW extent \in Nat, NEW margin \in Nat, NEW length \in Nat,
         margin + length <= extent
  PROVE  LET near == from + margin
             far  == Larger(from + extent - margin - length, near)
         IN  /\ near \in Int /\ from <= near /\ near + length <= from + extent
             /\ far \in Int /\ from <= far /\ far + length <= from + extent
  BY DEF Larger

\* What is put in a corner and is, with its margin, no larger than the work
\* area is inside it.
LEMMA CornerIsInside ==
  ASSUME NEW p \in Preferences, NEW monitor, HasRoom(monitor),
         NEW visible \in 1..p.visible, NEW overflow \in BOOLEAN,
         p.margin + ToPhysical(QueueHeight(visible, overflow), monitor.scale) <= monitor.work.h
  PROVE  Inside(PlacementForOverflow(p, monitor, visible, overflow), monitor.work)
<1> DEFINE work == monitor.work
           width == ToPhysical(CardWidth, monitor.scale)
           height == ToPhysical(QueueHeight(visible, overflow), monitor.scale)
           west == work.x + p.margin
           north == work.y + p.margin
           east == Larger(work.x + work.w - p.margin - width, west)
           south == Larger(work.y + work.h - p.margin - height, north)
           x == IF p.corner \in {"top_left", "bottom_left"} THEN west ELSE east
           y == IF p.corner \in {"top_left", "top_right"} THEN north ELSE south
<1>1. p.margin \in 0..128 /\ p.visible \in 1..8 /\ visible \in 1..8
  BY DEF Preferences, MinMargin, MaxMargin, MinVisible, MaxVisible
<1>2. ClampTo(visible, 1, p.visible) = visible
  BY <1>1 DEF ClampTo, Larger, Smaller
<1>3. PlacementForOverflow(p, monitor, visible, overflow) = Rect(x, y, width, height)
  BY <1>2 DEF PlacementForOverflow
<1>4. /\ MaxInt \in Nat /\ MinInt \in Int
      /\ work.x \in Int /\ MinInt <= work.x /\ work.w \in 1..MaxInt /\ work.x + work.w <= MaxInt
      /\ work.y \in Int /\ MinInt <= work.y /\ work.h \in 1..MaxInt /\ work.y + work.h <= MaxInt
  BY MaxIntAssumption DEF HasRoom, Int32, MinInt
<1>5. width \in Nat /\ height \in Nat
  <2>1. CardWidth \in Nat /\ visible \in Nat \ {0} /\ monitor.scale \in Nat
    BY <1>1 DEF CardWidth, HasRoom
  <2> QED
    BY <2>1, PhysicalLength, ShelfHeight
<1>6. MaxMargin + width <= work.w /\ p.margin + height <= work.h
  BY DEF HasRoom
<1> HIDE DEF width, height, work
<1>7. p.margin + width <= work.w
  BY <1>1, <1>4, <1>5, <1>6 DEF MaxMargin
<1> p.margin \in Nat /\ work.w \in Nat /\ work.h \in Nat
  BY <1>1, <1>4
<1>8. /\ west \in Int /\ work.x <= west /\ west + width <= work.x + work.w
      /\ east \in Int /\ work.x <= east /\ east + width <= work.x + work.w
  BY <1>1, <1>4, <1>5, <1>7, AxisIsInside
<1>9. /\ north \in Int /\ work.y <= north /\ north + height <= work.y + work.h
      /\ south \in Int /\ work.y <= south /\ south + height <= work.y + work.h
  BY <1>1, <1>4, <1>5, <1>6, AxisIsInside
<1> HIDE DEF west, east, north, south
<1>10. /\ x \in Int /\ work.x <= x /\ x + width <= work.x + work.w
       /\ y \in Int /\ work.y <= y /\ y + height <= work.y + work.h
  BY <1>8, <1>9
<1> HIDE DEF x, y
<1>11. /\ Saturate(work.x + Wrap(work.w)) = work.x + work.w
       /\ Saturate(work.y + Wrap(work.h)) = work.y + work.h
  BY <1>4, FarEdge
<1>12. /\ MinInt <= x /\ width \in 0..MaxInt /\ x + width <= MaxInt
       /\ MinInt <= y /\ height \in 0..MaxInt /\ y + height <= MaxInt
  BY <1>1, <1>4, <1>5, <1>6, <1>7, <1>10
<1>13. /\ Saturate(x + Wrap(width)) = x + width
       /\ Saturate(y + Wrap(height)) = y + height
  BY <1>10, <1>12, FarEdge
<1>14. /\ Right(Rect(x, y, width, height)) = x + width
       /\ Bottom(Rect(x, y, width, height)) = y + height
       /\ Right(work) = work.x + work.w /\ Bottom(work) = work.y + work.h
  BY <1>11, <1>13 DEF Right, Bottom, Rect
<1>15. Inside(Rect(x, y, width, height), work)
  BY <1>4, <1>10, <1>14 DEF Inside, Rect
<1> QED
  BY <1>3, <1>15 DEF work

\* The row that is chosen is one card, or fits.
LEMMA RowFits ==
  ASSUME NEW p \in Preferences, NEW monitor, NEW count \in Nat \ {0}
  PROVE  LET v == RowThatFits(count, p, monitor)
         IN  v \in 1..p.visible /\ (v = 1 \/ Fits(p, monitor, count, v))
<1> DEFINE S == {1} \cup {v \in 1..Smaller(count, p.visible) : Fits(p, monitor, count, v)}
<1>1. p.visible \in 1..8
  BY DEF Preferences, MinVisible, MaxVisible
<1>2. S \subseteq 1..p.visible /\ 1 \in S
  BY <1>1 DEF Smaller
<1> HIDE DEF S
<1>3. \E x \in S : \A y \in S : x >= y
  <2>1. S \subseteq 1..8
    BY <1>1, <1>2
  <2> QED
    BY <1>2, <2>1
<1>4. Max(S) \in S
  BY <1>3 DEF Max
<1>5. RowThatFits(count, p, monitor) = Max(S)
  BY DEF RowThatFits, S
<1>6. \A v \in S : v = 1 \/ Fits(p, monitor, count, v)
  BY DEF S
<1> QED
  BY <1>2, <1>4, <1>5, <1>6

\* The row that fits is put inside.
LEMMA FittedIsInside ==
  ASSUME NEW p \in Preferences, NEW monitor, HasRoom(monitor), NEW count \in Nat \ {0}
  PROVE  Inside(FittedPosition(count, p, monitor), monitor.work)
<1> DEFINE v == RowThatFits(count, p, monitor)
           height == ToPhysical(QueueHeight(v, count > v), monitor.scale)
<1>1. /\ v \in 1..p.visible /\ (v = 1 \/ Fits(p, monitor, count, v))
      /\ p.margin \in 0..128 /\ p.visible \in 1..8
  BY RowFits DEF Preferences, MinMargin, MaxMargin, MinVisible, MaxVisible
<1> HIDE DEF v
<1>2. v \in Nat \ {0} /\ v <= p.visible /\ (count > v) \in BOOLEAN
  BY <1>1
<1>3. height \in Nat /\ monitor.work.h \in Nat
  <2>1. monitor.scale \in Nat /\ monitor.work.h \in Nat
    BY DEF HasRoom
  <2> QED
    BY <1>2, <2>1, ShelfHeight, PhysicalLength
<1>4. p.margin + height <= monitor.work.h
  <2>1. CASE v = 1
    <3>1. MaxMargin + height <= monitor.work.h
      BY <1>2, <2>1, OneCardHasRoom
    <3> HIDE DEF height
    <3> QED
      BY <1>1, <1>3, <3>1 DEF MaxMargin
  <2>2. CASE Fits(p, monitor, count, v)
    <3>1. PlacementForOverflow(p, monitor, v, count > v).h = height
      <4>1. ClampTo(v, 1, p.visible) = v
        BY <1>1, <1>2 DEF ClampTo, Larger, Smaller
      <4> QED
        BY <4>1 DEF PlacementForOverflow, Rect
    <3>2. height <= Larger(monitor.work.h - 2 * p.margin, 0)
      BY <2>2, <3>1 DEF Fits
    <3>3. height > 0
      <4>1. QueueHeight(v, count > v) \in Nat \ {0} /\ monitor.scale \in Nat \ {0}
        BY <1>2 DEF QueueHeight, CardHeight, CardGap, OverflowHeight, HasRoom
      <4>2. \A n \in Nat \ {0} : n * monitor.scale \in Nat \ {0}
        BY <4>1
      <4>3. \A k \in Nat \ {0} : (k + 99) \div 100 > 0
        OBVIOUS
      <4> QED
        BY <4>1, <4>2, <4>3 DEF ToPhysical
    <3> HIDE DEF height
    <3> QED
      BY <1>1, <1>3, <3>2, <3>3 DEF Larger
  <2> QED
    BY <1>1, <2>1, <2>2
<1>5. Inside(PlacementForOverflow(p, monitor, v, count > v), monitor.work)
  BY <1>1, <1>2, <1>4, CornerIsInside
<1> QED
  BY <1>5 DEF FittedPosition, v

\* The monitor chosen is one of those there are.
LEMMA MonitorIsChosen ==
  ASSUME NEW p, NEW l, l # {}, NEW cursor
  PROVE  PreferredMonitor(p, l, cursor) \in l
<1> DEFINE named == IF p.target = "cursor" THEN MonitorsContaining(l, cursor)
                                           ELSE {m \in l : m.id = p.target}
           primary == {m \in l : m.primary}
           Wanted(m) == IF named # {} THEN m \in named
                        ELSE IF primary # {} THEN m \in primary ELSE TRUE
<1>1. named \subseteq l /\ primary \subseteq l
  BY DEF MonitorsContaining
<1> HIDE DEF named, primary
<1>2. \E m \in l : Wanted(m)
  BY <1>1
<1>3. (CHOOSE m \in l : Wanted(m)) \in l
  BY <1>2
<1> QED
  BY <1>3 DEF PreferredMonitor, named, primary

(* The shelf is put inside the work area on every monitor that has room    *)
(* for one card and the control, whatever the preferences, the scale and   *)
(* the number of cards.                                                    *)
THEOREM ShelfIsInside == WindowSpec => []ShelfIsNotClipped
<1>1. ASSUME PreferencesOK PROVE ShelfIsNotClipped
  <2> SUFFICES ASSUME NEW l \in Layouts, NEW c \in Cursors, NEW count \in 1..MaxCount
               PROVE  LET monitor == PreferredMonitor(prefs, l, c)
                      IN  Inside(FittedPosition(count, prefs, monitor), monitor.work)
    BY DEF ShelfIsNotClipped
  <2>1. PreferredMonitor(prefs, l, c) \in l /\ HasRoom(PreferredMonitor(prefs, l, c))
    BY MonitorIsChosen, LayoutsAssumption
  <2>2. count \in Nat \ {0}
    OBVIOUS
  <2> QED
    BY <1>1, <2>1, <2>2, FittedIsInside DEF PreferencesOK
<1> QED
  BY <1>1, PreferencesInv, PTL
================================================================================
