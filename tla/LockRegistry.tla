---------------------------- MODULE LockRegistry ----------------------------
(***************************************************************************)
(* The reference-counted lock registry of the capture cache                *)
(* (src-tauri/src/cache/locks.rs, ActiveLockSet).  A registry is a pair:   *)
(* `refs', the reference count of every (shelf id, owner) pair, and        *)
(* `known', the shelf ids that have a row at all.  A row with no owner is  *)
(* kept until a cleanup removes it, which is how a dismissal tells an      *)
(* unowned entry from an unknown one.                                      *)
(*                                                                         *)
(* The module has no state of its own: the operators below are functions   *)
(* of a registry value, each one a critical section of the registry mutex. *)
(***************************************************************************)
EXTENDS Naturals

CONSTANT Shelves     \* shelf ids (UUIDs in the code)

Owners == {"Shelf", "Editor", "Drag", "Pin"}

Registry == [Shelves -> [Owners -> Nat]]

NoRefs == [s \in Shelves |-> [o \in Owners |-> 0]]

AcquireRef(refs, s, o) == [refs EXCEPT ![s][o] = @ + 1]

\* Releasing a reference nobody holds is ignored.
ReleaseRef(refs, s, o) ==
  IF refs[s][o] = 0 THEN refs ELSE [refs EXCEPT ![s][o] = @ - 1]

OwnersOf(refs, s) == {o \in Owners : refs[s][o] > 0}

\* Only an owner other than the card itself keeps an entry from eviction.
Protected(refs, s) == \E o \in Owners \ {"Shelf"} : refs[s][o] > 0

\* Seeded fault: a dismissal forgets every owner of the row.
DismissedRefsOfAll(refs, s) == [refs EXCEPT ![s] = [o \in Owners |-> 0]]
\* Seeded fault: a dismissal removes whatever it finds.
DismissRemovesOwned(refs, known, s) == s \in known

\* What a dismissal leaves of the counts, and whether it may remove the entry.
DismissedRefs(refs, s) == ReleaseRef(refs, s, "Shelf")
DismissRemoves(refs, known, s) ==
  s \in known /\ OwnersOf(DismissedRefs(refs, s), s) = {}
=============================================================================
