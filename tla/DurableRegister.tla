--------------------------- MODULE DurableRegister ---------------------------
(***************************************************************************)
(* What a settings store promises its callers: a value that is changed in  *)
(* memory at once and on disk some time later, and never on disk before or *)
(* backwards, whatever stops the process.  Values are numbered in the      *)
(* order they are set; 0 is the default.                                   *)
(*                                                                         *)
(* A store two threads have written at the same time is `tainted': from    *)
(* then on nothing is promised of its disk.                                *)
(***************************************************************************)
EXTENDS Naturals

VARIABLES
  running,           \* the process is up
  memory,            \* the value in force
  latest,            \* the last value ever set
  durable,           \* the value the next start will find
  tainted            \* two threads have written at the same time

vars == <<running, memory, latest, durable, tainted>>

Init == /\ running = FALSE
        /\ memory = 0 /\ latest = 0 /\ durable = 0
        /\ tainted = FALSE

Set == /\ running
       /\ latest' = latest + 1 /\ memory' = latest + 1
       /\ UNCHANGED <<running, durable>>

\* The disk follows, in order; values may be skipped.
Persist == /\ running
           /\ durable' \in (durable + 1)..memory
           /\ UNCHANGED <<running, memory, latest>>

\* Exit and kill are the same to the disk.
Stop == /\ running /\ ~running'
        /\ UNCHANGED <<latest, durable>>

\* A store without its directory starts with the default.
Start == /\ ~running /\ running'
         /\ memory' \in {durable, 0}
         /\ UNCHANGED <<latest, durable>>

Spoil == /\ tainted
         /\ durable' \in 0..latest
         /\ UNCHANGED <<running, memory, latest>>

Idle == UNCHANGED <<running, memory, latest, durable>>

Next == /\ tainted' \in {tainted, TRUE}
        /\ Set \/ Persist \/ Stop \/ Start \/ Spoil \/ Idle

Spec == Init /\ [][Next]_vars
=============================================================================
