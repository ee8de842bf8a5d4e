---------------------------- MODULE CaptureStore ----------------------------
(***************************************************************************)
(* What the capture cache promises its users, whatever its threads, files  *)
(* and locks do meanwhile.  A capture is stored under a name nobody had;   *)
(* once kept it can be held, by any number of holders; it is discarded     *)
(* only while nobody holds it; and what was given up or discarded stays    *)
(* away for as long as the process is up.  A new process keeps some of the *)
(* captures ever stored, and starts without holders.                       *)
(***************************************************************************)
EXTENDS Naturals

CONSTANT Captures    \* names of captures

VARIABLES
  up,                \* the process is running
  used,              \* names handed out so far, by any process
  storing,           \* captures being stored
  kept,              \* captures stored and not discarded
  holds              \* number of holders of each capture

vars == <<up, used, storing, kept, holds>>

Unheld == [c \in Captures |-> 0]

Init == /\ ~up
        /\ used = {} /\ storing = {} /\ kept = {}
        /\ holds = Unheld

Start == /\ ~up /\ up'
         /\ kept' \in SUBSET used
         /\ UNCHANGED <<used, storing, holds>>

\* An exit or a kill, at any moment.
Stop == /\ up /\ ~up'
        /\ storing' = {} /\ kept' = {}
        /\ holds' = Unheld
        /\ UNCHANGED used

Store(c) == /\ up /\ c \notin used
            /\ used' = used \cup {c}
            /\ storing' = storing \cup {c}
            /\ UNCHANGED <<up, kept, holds>>

Abandon(c) == /\ c \in storing
              /\ storing' = storing \ {c}
              /\ UNCHANGED <<up, used, kept, holds>>

Keep(c) == /\ c \in storing
           /\ storing' = storing \ {c}
           /\ kept' = kept \cup {c}
           /\ UNCHANGED <<up, used, holds>>

Hold(c) == /\ c \in kept
           /\ holds' = [holds EXCEPT ![c] = @ + 1]
           /\ UNCHANGED <<up, used, storing, kept>>

LetGo(c) == /\ holds[c] > 0
            /\ holds' = [holds EXCEPT ![c] = @ - 1]
            /\ UNCHANGED <<up, used, storing, kept>>

Discard(c) == /\ c \in kept /\ holds[c] = 0
              /\ kept' = kept \ {c}
              /\ UNCHANGED <<up, used, storing, holds>>

Next == \/ Start \/ Stop
        \/ \E c \in Captures : \/ Store(c) \/ Abandon(c) \/ Keep(c)
                               \/ Hold(c) \/ LetGo(c) \/ Discard(c)

Spec == Init /\ [][Next]_vars
=============================================================================
