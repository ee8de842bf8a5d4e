---------------------------- MODULE CaptureCache ----------------------------
(***************************************************************************)
(* The capture cache (src-tauri/src/cache/store.rs) with the threads that  *)
(* drive it:                                                               *)
(*   main      every synchronous command: commit, dismiss, clear, revision *)
(*             sidecar, editor / pin / drag guards;                        *)
(*   ticker    the shelf ticker, which dismisses expired cards;            *)
(*   sweeper   the periodic TTL + quota + debris pass;                     *)
(*   recovery  the startup debris pass, run beside the first commands.     *)
(*                                                                         *)
(* The cache mutex covers the in-memory maps only.  Directory removal, the *)
(* two-phase commit and the debris pass run outside it, one file at a      *)
(* time, so each file operation is a step of its own.  The process may be  *)
(* killed between any two steps; the disk is what the next start finds.    *)
(*                                                                         *)
(* Abstractions: a shelf id stands for its entry directory (both are fresh *)
(* UUIDs); file contents are not modelled, only which files exist; time is *)
(* left out, so any entry may be past its TTL and any card past its        *)
(* deadline; an entry's size is 1, so the low-water test counts entries.   *)
(***************************************************************************)
EXTENDS LockRegistry, FiniteSets, Sequences

CONSTANTS
  Threads,           \* the threads of this instance
  LowWater,          \* low-water number of entries of the cache policy
  MaxPins,           \* bound: pin windows open on one entry
  MaxDrags,          \* bound: nested drags of one entry
  MaxFaults,         \* bound: kills, failed writes and failed removals
  NoShelf            \* the target of a thread that has none

ASSUME ThreadsAssumption ==
  /\ "main" \in Threads
  /\ Threads \subseteq {"main", "ticker", "sweeper", "recovery"}
ASSUME LowWaterAssumption == LowWater \in Nat
ASSUME BoundsAssumption ==
  MaxPins \in Nat /\ MaxDrags \in Nat /\ MaxFaults \in Nat
ASSUME NoShelfAssumption == NoShelf \notin Shelves

VARIABLES
  entries,           \* registered entries (CacheInner.entries)
  refs, known,       \* the lock registry
  shelfGuards,       \* entries whose Shelf guard the cache owns
  editorGuards,      \* entries whose Editor guard the cache owns
  pinGuards,         \* number of Pin guards per entry
  dragGuards,        \* number of live drag guards per entry (on the stack)
  queue,             \* cards of the shelf queue, as a set
  dirs, disk,        \* entry directories, and the files in each
  used,              \* ids handed out so far (UUIDs are never reused)
  torn,              \* history: ids a removal has taken a file from
  phase,             \* "down", "loaded" (before rehydration) or "running"
  pc, mode, tgt, todo,  \* per thread: control point, batch kind, target, rest
  step,              \* main: position in the commit or revision write
  faults,            \* kills and I/O failures so far
  calm               \* sweeper: the stats snapshot was within low water

memVars    == <<entries, refs, known, shelfGuards, editorGuards, pinGuards,
                dragGuards>>
diskVars   == <<dirs, disk, torn>>
threadVars == <<pc, mode, tgt, todo>>
vars == <<memVars, queue, diskVars, used, phase, threadVars, step, calm,
          faults>>

\* Seeded fault: the manifest is written before the files it announces.
WriteOrderManifestFirst == <<"manifest.json", "capture.png", "metadata.json",
                             "source.png", "revision.json">>

\* The publication order of a commit: the manifest is the sentinel, last.
WriteOrder == <<"capture.png", "metadata.json", "source.png",
                "revision.json", "manifest.json">>
Files == {"capture.png", "metadata.json", "source.png", "revision.json",
          "manifest.json", "revision.json.tmp"}
\* The files whose size the commit reads before it registers the entry.
SizedFiles == {"capture.png", "metadata.json", "revision.json"}

TypeOK ==
  /\ entries \subseteq Shelves /\ known \subseteq Shelves
  /\ refs \in Registry
  /\ shelfGuards \subseteq Shelves /\ editorGuards \subseteq Shelves
  /\ pinGuards \in [Shelves -> Nat] /\ dragGuards \in [Shelves -> Nat]
  /\ queue \subseteq Shelves
  /\ dirs \subseteq Shelves /\ disk \in [Shelves -> SUBSET Files]
  /\ used \subseteq Shelves /\ torn \subseteq Shelves
  /\ phase \in {"down", "loaded", "running"}
  /\ pc \in [Threads -> {"idle", "pick", "dismiss", "reap", "write", "size",
                         "register", "enqueue", "revision", "metadata"}]
  /\ mode \in [Threads -> {"none", "drop", "evict", "quota", "debris",
                           "abort"}]
  /\ tgt \in [Threads -> Shelves \cup {NoShelf}]
  /\ todo \in [Threads -> SUBSET Shelves]
  /\ step \in 0..5
  /\ calm \in BOOLEAN
  /\ faults \in Nat

-----------------------------------------------------------------------------
\* A kill or an I/O failure, of which there are finitely many.
Fault == faults < MaxFaults /\ faults' = faults + 1

\* Thread bookkeeping: t moves to control point p with target x and rest d.
Goto(t, p, m, x, d) ==
  /\ pc' = [pc EXCEPT ![t] = p]
  /\ mode' = [mode EXCEPT ![t] = m]
  /\ tgt' = [tgt EXCEPT ![t] = x]
  /\ todo' = [todo EXCEPT ![t] = d]

Rest(t) == Goto(t, "idle", "none", NoShelf, {})
Batch(t, m, d) == Goto(t, "pick", m, NoShelf, d)

\* A synchronous command runs on the main thread once the app is set up.
MainFree == phase = "running" /\ pc["main"] = "idle"

\* stats: an entry's bytes are one unit of the usage.
Usage == Cardinality(entries)
WithinLowWater == Usage <= LowWater

\* What a look at a directory finds.  An entry is read back from its manifest,
\* a file that is missing beside it counts for nothing (load_manifest);
\* temporaries are stale (reap_zero_byte_assets); there must be pixels or
\* metadata (reap_empty_assets).  write_atomic publishes whole files only.
HasManifest(files) == "manifest.json" \in files
Healed(files)      == files \ {"revision.json.tmp"}
Hollow(files)      == files \cap {"capture.png", "metadata.json"} = {}

Init ==
  /\ entries = {} /\ refs = NoRefs /\ known = {}
  /\ shelfGuards = {} /\ editorGuards = {}
  /\ pinGuards = [s \in Shelves |-> 0] /\ dragGuards = [s \in Shelves |-> 0]
  /\ queue = {}
  /\ dirs = {} /\ disk = [s \in Shelves |-> {}] /\ used = {} /\ torn = {}
  /\ phase = "down"
  /\ pc = [t \in Threads |-> "idle"] /\ mode = [t \in Threads |-> "none"]
  /\ tgt = [t \in Threads |-> NoShelf] /\ todo = [t \in Threads |-> {}]
  /\ step = 0 /\ calm = FALSE /\ faults = 0

-----------------------------------------------------------------------------
(* Process life: a kill at any step, and the next start.                   *)

Crash ==
  /\ phase # "down" /\ Fault
  /\ phase' = "down"
  /\ entries' = {} /\ refs' = NoRefs /\ known' = {}
  /\ shelfGuards' = {} /\ editorGuards' = {}
  /\ pinGuards' = [s \in Shelves |-> 0] /\ dragGuards' = [s \in Shelves |-> 0]
  /\ queue' = {}
  /\ pc' = [t \in Threads |-> "idle"] /\ mode' = [t \in Threads |-> "none"]
  /\ tgt' = [t \in Threads |-> NoShelf] /\ todo' = [t \in Threads |-> {}]
  /\ step' = 0 /\ calm' = FALSE
  /\ UNCHANGED <<diskVars, used>>

\* load_or_recover: a directory with a manifest becomes an entry with its
\* Shelf guard, whatever else it holds; one without is removed.  The debris
\* pass of the startup recovery is then spawned on a thread of its own.
Boot ==
  LET durable == {s \in dirs : HasManifest(disk[s])}
  IN /\ phase = "down"
     /\ phase' = "loaded"
     /\ entries' = durable /\ known' = durable /\ shelfGuards' = durable
     /\ refs' = [s \in Shelves |-> [o \in Owners |->
                   IF s \in durable /\ o = "Shelf" THEN 1 ELSE 0]]
     /\ dirs' = durable
     /\ disk' = [s \in Shelves |-> IF s \in durable THEN disk[s] ELSE {}]
     /\ torn' = torn \cup (dirs \ durable)
     /\ mode' = [t \in Threads |-> IF t = "recovery" THEN "debris" ELSE mode[t]]
     /\ UNCHANGED <<editorGuards, pinGuards, dragGuards, queue, used, pc, tgt,
                    todo, step, calm, faults>>

\* Seeded fault: the recovered entries get no card.
RehydrateNothing ==
  /\ phase = "loaded"
  /\ phase' = "running"
  /\ UNCHANGED <<memVars, queue, diskVars, used, threadVars, step, calm, faults>>

\* The queue is rebuilt from the entries of that moment.
Rehydrate ==
  /\ phase = "loaded"
  /\ phase' = "running"
  /\ queue' = entries
  /\ UNCHANGED <<memVars, diskVars, used, threadVars, step, calm, faults>>

-----------------------------------------------------------------------------
(* The two-phase commit (commit_inner) and the queue insertion after it.   *)

\* Seeded fault: an id is fresh when no entry has it, whatever the disk holds.
CommitBeginReusing(s) ==
  /\ MainFree
  /\ s \notin entries
  /\ used' = used \cup {s}
  /\ dirs' = dirs \cup {s}
  /\ step' = 1
  /\ Goto("main", "write", "none", s, {})
  /\ UNCHANGED <<memVars, queue, disk, torn, phase, calm, faults>>

CommitBegin(s) ==
  /\ MainFree
  /\ s \notin used
  /\ used' = used \cup {s}
  /\ dirs' = dirs \cup {s}
  /\ step' = 1
  /\ Goto("main", "write", "none", s, {})
  /\ UNCHANGED <<memVars, queue, disk, torn, phase, calm, faults>>

\* write_atomic of the next file; it creates the directory when it is gone.
CommitWrite ==
  /\ pc["main"] = "write"
  /\ LET s == tgt["main"]
     IN /\ dirs' = dirs \cup {s}
        /\ disk' = [disk EXCEPT ![s] = @ \cup {WriteOrder[step]}]
        /\ IF step = Len(WriteOrder)
             THEN Goto("main", "size", "none", s, {}) /\ step' = 0
             ELSE step' = step + 1 /\ UNCHANGED threadVars
  /\ UNCHANGED <<memVars, queue, used, torn, phase, calm, faults>>

\* Any write may fail; the commit then removes its directory.
CommitWriteFails ==
  /\ pc["main"] = "write" /\ Fault
  /\ Goto("main", "reap", "abort", tgt["main"], {})
  /\ step' = 0
  /\ UNCHANGED <<memVars, queue, diskVars, used, phase, calm>>

\* The sizes of the published files.  When one is missing or unreadable
\* the commit returns its error and leaves the directory as it is.
CommitSize ==
  /\ pc["main"] = "size"
  /\ \/ /\ SizedFiles \subseteq disk[tgt["main"]]
        /\ Goto("main", "register", "none", tgt["main"], {})
        /\ UNCHANGED faults
     \/ /\ ~(SizedFiles \subseteq disk[tgt["main"]])
        /\ Rest("main")
        /\ UNCHANGED faults
     \/ Fault /\ Rest("main")
  /\ UNCHANGED <<memVars, queue, diskVars, used, phase, step, calm>>

CommitRegister ==
  /\ pc["main"] = "register"
  /\ LET s == tgt["main"]
     IN /\ entries' = entries \cup {s}
        /\ refs' = AcquireRef(refs, s, "Shelf")
        /\ known' = known \cup {s}
        /\ shelfGuards' = shelfGuards \cup {s}
        /\ Goto("main", "enqueue", "none", s, {})
  /\ UNCHANGED <<editorGuards, pinGuards, dragGuards, queue, diskVars, used,
                 phase, step, calm, faults>>

CommitEnqueue ==
  /\ pc["main"] = "enqueue"
  /\ queue' = queue \cup {tgt["main"]}
  /\ Rest("main")
  /\ UNCHANGED <<memVars, diskVars, used, phase, step, calm, faults>>

-----------------------------------------------------------------------------
(* Editor, pin and drag guards.                                            *)

OpenEditor(s) ==
  /\ MainFree /\ s \in entries
  /\ s \notin editorGuards
  /\ editorGuards' = editorGuards \cup {s}
  /\ refs' = AcquireRef(refs, s, "Editor")
  /\ known' = known \cup {s}
  /\ UNCHANGED <<entries, shelfGuards, pinGuards, dragGuards, queue, diskVars,
                 used, phase, threadVars, step, calm, faults>>

CloseEditor(s) ==
  /\ MainFree /\ s \in editorGuards
  /\ editorGuards' = editorGuards \ {s}
  /\ refs' = ReleaseRef(refs, s, "Editor")
  /\ UNCHANGED <<entries, known, shelfGuards, pinGuards, dragGuards, queue,
                 diskVars, used, phase, threadVars, step, calm, faults>>

OpenPin(s) ==
  /\ MainFree /\ s \in entries
  /\ pinGuards[s] < MaxPins
  /\ pinGuards' = [pinGuards EXCEPT ![s] = @ + 1]
  /\ refs' = AcquireRef(refs, s, "Pin")
  /\ known' = known \cup {s}
  /\ UNCHANGED <<entries, shelfGuards, editorGuards, dragGuards, queue,
                 diskVars, used, phase, threadVars, step, calm, faults>>

ClosePin(s) ==
  /\ MainFree /\ pinGuards[s] > 0
  /\ pinGuards' = [pinGuards EXCEPT ![s] = @ - 1]
  /\ refs' = ReleaseRef(refs, s, "Pin")
  /\ UNCHANGED <<entries, known, shelfGuards, editorGuards, dragGuards, queue,
                 diskVars, used, phase, threadVars, step, calm, faults>>

\* The OLE loop of a drag pumps messages, so commands run while it lasts.
DragStart(s) ==
  /\ MainFree /\ s \in entries
  /\ dragGuards[s] < MaxDrags
  /\ dragGuards' = [dragGuards EXCEPT ![s] = @ + 1]
  /\ refs' = AcquireRef(refs, s, "Drag")
  /\ known' = known \cup {s}
  /\ UNCHANGED <<entries, shelfGuards, editorGuards, pinGuards, queue,
                 diskVars, used, phase, threadVars, step, calm, faults>>

DragEnd(s) ==
  /\ MainFree /\ dragGuards[s] > 0
  /\ dragGuards' = [dragGuards EXCEPT ![s] = @ - 1]
  /\ refs' = ReleaseRef(refs, s, "Drag")
  /\ UNCHANGED <<entries, known, shelfGuards, editorGuards, pinGuards, queue,
                 diskVars, used, phase, threadVars, step, calm, faults>>

-----------------------------------------------------------------------------
(* The revision sidecar (update_revision, write_revision): the old file is *)
(* deleted first, because write_atomic refuses to overwrite.               *)

RevisionBegin(s) ==
  /\ MainFree /\ s \in editorGuards /\ s \in entries
  /\ disk' = [disk EXCEPT ![s] = @ \ {"revision.json"}]
  /\ step' = 1
  /\ Goto("main", "revision", "none", s, {})
  /\ UNCHANGED <<memVars, queue, dirs, used, torn, phase, calm, faults>>

RevisionTmp ==
  /\ pc["main"] = "revision" /\ step = 1
  /\ dirs' = dirs \cup {tgt["main"]}
  /\ disk' = [disk EXCEPT ![tgt["main"]] = @ \cup {"revision.json.tmp"}]
  /\ step' = 2
  /\ UNCHANGED <<memVars, queue, used, torn, phase, threadVars, calm, faults>>

\* The rename fails when a debris pass has taken the temporary file.
RevisionRename ==
  /\ pc["main"] = "revision" /\ step = 2
  /\ LET s == tgt["main"]
     IN disk' = IF "revision.json.tmp" \in disk[s]
                  THEN [disk EXCEPT ![s] = (@ \ {"revision.json.tmp"})
                                              \cup {"revision.json"}]
                  ELSE disk
  /\ step' = 0
  /\ Rest("main")
  /\ UNCHANGED <<memVars, queue, dirs, used, torn, phase, calm, faults>>

\* update_metadata.  write_atomic refuses other bytes than those that are
\* there, so the call changes nothing of a whole entry; of one a debris pass
\* takes apart it may write back the metadata and, when the sizes can be read,
\* the manifest.
UpdateMetadata(s) ==
  /\ MainFree /\ s \in entries
  /\ dirs' = dirs \cup {s}
  /\ disk' = [disk EXCEPT ![s] = @ \cup {"metadata.json"}]
  /\ Goto("main", "metadata", "none", s, {})
  /\ UNCHANGED <<memVars, queue, used, torn, phase, step, calm, faults>>

RefreshManifest ==
  /\ pc["main"] = "metadata"
  /\ LET s == tgt["main"]
     IN \/ /\ SizedFiles \subseteq disk[s]
           /\ disk' = [disk EXCEPT ![s] = @ \cup {"manifest.json"}]
           /\ UNCHANGED faults
        \/ ~(SizedFiles \subseteq disk[s]) /\ UNCHANGED <<disk, faults>>
        \/ Fault /\ UNCHANGED disk
  /\ Rest("main")
  /\ UNCHANGED <<memVars, queue, dirs, used, torn, phase, step, calm>>

-----------------------------------------------------------------------------
(* Dismissal.  A batch is the set of ids one loop of the code goes over.   *)

\* dismiss_cache_entry: the card leaves the queue, then the cache.
DismissCard(s) ==
  /\ MainFree /\ s \in queue \cup entries
  /\ queue' = queue \ {s}
  /\ Batch("main", "drop", {s})
  /\ UNCHANGED <<memVars, diskVars, used, phase, step, calm, faults>>

\* Seeded fault: of the expired cards it pops, a tick dismisses only one.
TickOfOne(t) ==
  /\ t \in {"main", "ticker"} /\ phase = "running" /\ pc[t] = "idle"
  /\ \E expired \in SUBSET queue \ {{}} :
       /\ queue' = queue \ expired
       /\ \E s \in expired : Batch(t, "drop", {s})
  /\ UNCHANGED <<memVars, diskVars, used, phase, step, calm, faults>>

\* tick_shelf_queue and the ticker thread: some cards have expired.
Tick(t) ==
  /\ t \in {"main", "ticker"} /\ phase = "running" /\ pc[t] = "idle"
  /\ \E expired \in SUBSET queue \ {{}} :
       queue' = queue \ expired /\ Batch(t, "drop", expired)
  /\ UNCHANGED <<memVars, diskVars, used, phase, step, calm, faults>>

\* clear_cache, and the purge on exit.
ClearUnlocked ==
  /\ MainFree
  /\ Batch("main", "evict", entries)
  /\ UNCHANGED <<memVars, queue, diskVars, used, phase, step, calm, faults>>

\* sweep_once: the usage snapshot, then the expired entries of a snapshot.
SweepBegin ==
  /\ "sweeper" \in Threads /\ phase # "down" /\ pc["sweeper"] = "idle"
  /\ calm' = WithinLowWater
  /\ \E expired \in SUBSET entries : Batch("sweeper", "evict", expired)
  /\ UNCHANGED <<memVars, queue, diskVars, used, phase, step, faults>>

\* recover_startup begins with the debris pass over a directory listing.
RecoveryBegin ==
  /\ "recovery" \in Threads
  /\ pc["recovery"] = "idle" /\ mode["recovery"] = "debris"
  /\ Batch("recovery", "debris", dirs)
  /\ UNCHANGED <<memVars, queue, diskVars, used, phase, step, calm, faults>>

\* The protection check of an eviction, outside the cache mutex.
EvictCheck(t, s) ==
  /\ pc[t] = "pick" /\ mode[t] = "evict" /\ s \in todo[t]
  /\ IF Protected(refs, s)
       THEN Batch(t, "evict", todo[t] \ {s})
       ELSE Goto(t, "dismiss", "evict", s, todo[t] \ {s})
  /\ UNCHANGED <<memVars, queue, diskVars, used, phase, step, calm, faults>>

\* The quota loop takes an unprotected candidate while above low water.
QuotaPick(t, s) ==
  /\ pc[t] = "pick" /\ mode[t] = "quota" /\ s \in todo[t]
  /\ ~WithinLowWater /\ ~Protected(refs, s)
  /\ Goto(t, "dismiss", "quota", s, todo[t] \ {s})
  /\ UNCHANGED <<memVars, queue, diskVars, used, phase, step, calm, faults>>

QuotaEnd(t) ==
  /\ pc[t] = "pick" /\ mode[t] = "quota"
  /\ WithinLowWater \/ \A s \in todo[t] : Protected(refs, s)
  /\ Rest(t)
  /\ UNCHANGED <<memVars, queue, diskVars, used, phase, step, calm, faults>>

\* Seeded fault: the directory goes first, the entry would go afterwards.
DropEntryLate(t, s, rest) ==
  LET r == IF s \in shelfGuards THEN ReleaseRef(refs, s, "Shelf") ELSE refs
  IN /\ shelfGuards' = shelfGuards \ {s}
     /\ refs' = IF s \in known THEN DismissedRefs(r, s) ELSE r
     /\ UNCHANGED <<known, entries>>
     /\ IF DismissRemoves(r, known, s) THEN Goto(t, "reap", mode[t], s, rest)
                                       ELSE Batch(t, mode[t], rest)

\* The critical section of Cache::dismiss: the cache drops its Shelf guard,
\* then the registry decides.  Afterwards t removes the directory, goes on
\* with its batch, or, in the quota loop, gives up.
DropEntry(t, s, rest) ==
  LET r == IF s \in shelfGuards THEN ReleaseRef(refs, s, "Shelf") ELSE refs
  IN /\ shelfGuards' = shelfGuards \ {s}
     /\ refs' = IF s \in known THEN DismissedRefs(r, s) ELSE r
     /\ IF DismissRemoves(r, known, s)
          THEN /\ known' = known \ {s}
               /\ entries' = entries \ {s}
               /\ Goto(t, "reap", mode[t], s, rest)
          ELSE /\ UNCHANGED <<known, entries>>
               /\ IF mode[t] = "quota" THEN Rest(t)
                                       ELSE Batch(t, mode[t], rest)

DropNext(t, s) ==
  /\ pc[t] = "pick" /\ mode[t] = "drop" /\ s \in todo[t]
  /\ DropEntry(t, s, todo[t] \ {s})
  /\ UNCHANGED <<editorGuards, pinGuards, dragGuards, queue, diskVars, used,
                 phase, step, calm, faults>>

DismissPicked(t) ==
  /\ pc[t] = "dismiss"
  /\ DropEntry(t, tgt[t], todo[t])
  /\ UNCHANGED <<editorGuards, pinGuards, dragGuards, queue, diskVars, used,
                 phase, step, calm, faults>>

\* recover_debris looks at one directory of its listing: without a manifest
\* it is removed; with one, stale temporaries go, and the whole directory
\* does when it has neither pixels nor metadata.
DebrisInspect(t, s) ==
  /\ pc[t] = "pick" /\ mode[t] = "debris" /\ s \in todo[t]
  /\ LET durable == HasManifest(disk[s])
     IN /\ disk' = IF durable THEN [disk EXCEPT ![s] = Healed(@)] ELSE disk
        /\ IF s \in dirs /\ (~durable \/ Hollow(Healed(disk[s])))
             THEN Goto(t, "reap", "debris", s, todo[t] \ {s})
             ELSE Batch(t, "debris", todo[t] \ {s})
  /\ UNCHANGED <<memVars, queue, dirs, used, torn, phase, step, calm, faults>>

\* Directory removal, one file at a time.  It ends when the directory is
\* empty, or on an error, which every caller ignores.
ReapFile(t) ==
  /\ pc[t] = "reap"
  /\ \E f \in disk[tgt[t]] : disk' = [disk EXCEPT ![tgt[t]] = @ \ {f}]
  /\ torn' = torn \cup {tgt[t]}
  /\ UNCHANGED <<memVars, queue, dirs, used, phase, threadVars, step, calm,
                 faults>>

ReapEnd(t) ==
  /\ pc[t] = "reap"
  /\ \/ disk[tgt[t]] = {} /\ dirs' = dirs \ {tgt[t]} /\ UNCHANGED faults
     \/ Fault /\ UNCHANGED dirs
  /\ IF mode[t] = "abort" THEN Rest(t) ELSE Batch(t, mode[t], todo[t])
  /\ UNCHANGED <<memVars, queue, disk, torn, used, phase, step, calm>>

\* A batch is done: the sweeper goes on to the quota loop or, when its
\* snapshot was within low water, to a debris pass; the startup recovery
\* goes on from the debris pass to the expired entries.
BatchEnd(t) ==
  /\ pc[t] = "pick" /\ mode[t] # "quota" /\ todo[t] = {}
  /\ IF t = "sweeper" /\ mode[t] = "evict"
       THEN IF calm THEN Batch(t, "debris", dirs)
                    ELSE Batch(t, "quota", entries)
       ELSE IF t = "recovery" /\ mode[t] = "debris"
         THEN \E expired \in SUBSET entries : Batch(t, "evict", expired)
         ELSE Rest(t)
  /\ UNCHANGED <<memVars, queue, diskVars, used, phase, step, calm, faults>>

-----------------------------------------------------------------------------
Commit == \/ \E s \in Shelves : CommitBegin(s)
          \/ CommitWrite \/ CommitWriteFails \/ CommitSize
          \/ CommitRegister \/ CommitEnqueue

Guards(s) == \/ OpenEditor(s) \/ CloseEditor(s) \/ OpenPin(s) \/ ClosePin(s)
             \/ DragStart(s) \/ DragEnd(s)

Revision == \/ \E s \in Shelves : RevisionBegin(s)
            \/ RevisionTmp \/ RevisionRename

Metadata == RefreshManifest \/ \E s \in Shelves : UpdateMetadata(s)

Batches(t) == \/ \E s \in Shelves : \/ EvictCheck(t, s) \/ QuotaPick(t, s)
                                    \/ DropNext(t, s) \/ DebrisInspect(t, s)
              \/ QuotaEnd(t) \/ DismissPicked(t) \/ ReapFile(t) \/ ReapEnd(t)
              \/ BatchEnd(t)

Next == \/ Crash \/ Boot \/ Rehydrate
        \/ Commit \/ Revision \/ Metadata
        \/ \E s \in Shelves : Guards(s) \/ DismissCard(s)
        \/ ClearUnlocked \/ SweepBegin \/ RecoveryBegin
        \/ \E t \in Threads : Tick(t) \/ Batches(t)

Spec == Init /\ [][Next]_vars

-----------------------------------------------------------------------------
Held(s) == s \in editorGuards \/ pinGuards[s] > 0 \/ dragGuards[s] > 0

Removing(t, s) == pc[t] = "reap" /\ tgt[t] = s

(* The registry counts exactly the guards somebody still owns: a dismissal *)
(* that releases the Shelf reference twice, or one owner's for another's,  *)
(* or a guard dropped after its row was removed, would break the balance.  *)
RefsCountGuards ==
  \A s \in Shelves :
    /\ refs[s]["Shelf"] = IF s \in shelfGuards THEN 1 ELSE 0
    /\ refs[s]["Editor"] = IF s \in editorGuards THEN 1 ELSE 0
    /\ refs[s]["Pin"] = pinGuards[s]
    /\ refs[s]["Drag"] = dragGuards[s]

(* An entry somebody edits, pins or drags is never dropped from the cache, *)
(* however the evictions' check and their dismissal interleave with it.    *)
HeldEntriesSurvive ==
  \A s \in Shelves : Held(s) => s \in entries

(* A directory removed by a dismissal or an eviction belongs to no entry,  *)
(* and nobody can hold it again: no thread deletes pixels still in use.    *)
OnlyUnownedAreReaped ==
  \A t \in Threads, s \in Shelves :
    Removing(t, s) /\ mode[t] # "debris" => s \notin entries /\ ~Held(s)

(* The cache never keeps a card's Shelf lock for a card that no shelf      *)
(* shows and no thread is about to show or to dismiss.                     *)
NoShelfLockLeaks ==
  phase = "running" =>
    \A s \in shelfGuards :
      \/ s \in queue
      \/ pc["main"] = "enqueue" /\ tgt["main"] = s
      \/ \E t \in Threads : mode[t] = "drop" /\ s \in todo[t]

(* The manifest is the publication sentinel: whenever the process dies, a  *)
(* manifest on disk means the pixels are there, unless a removal was       *)
(* already taking that directory apart.                                    *)
ManifestPublishesLast ==
  \A s \in dirs \ torn :
    "manifest.json" \in disk[s] =>
      {"capture.png", "metadata.json", "source.png"} \subseteq disk[s]

(* The revision sidecar is only ever written into a live entry the editor  *)
(* holds: the eviction of that entry cannot overtake the write.            *)
RevisionOfHeldEntry ==
  pc["main"] = "revision" =>
    tgt["main"] \in entries /\ tgt["main"] \in editorGuards

(* Pixels of a registered entry disappear only under a debris pass that    *)
(* judged the directory before its manifest was there.                     *)
EvictionSparesRegistered ==
  [][\A s \in entries :
       "capture.png" \in disk[s] /\ "capture.png" \notin disk'[s] =>
         \E t \in Threads : Removing(t, s) /\ mode[t] = "debris"]_vars

(* The inductive strengthening of the invariants above: registry rows are  *)
(* the entries, ids in use are never handed out again, a commit in flight  *)
(* is not an entry yet, and a directory on its way out is neither.         *)
InFlight(s) == pc["main"] \in {"write", "size", "register"} /\ tgt["main"] = s

IndexesAgree ==
  /\ known = entries
  /\ shelfGuards \subseteq entries
  /\ entries \subseteq used
  /\ dirs \subseteq used

CommitsAreFresh ==
  /\ \A s \in Shelves : InFlight(s) => s \in used /\ s \notin entries
  /\ pc["main"] = "write" => step # 0
  /\ pc["main"] \in {"write", "size", "register", "enqueue", "revision", "metadata"} =>
       tgt["main"] \in Shelves /\ tgt["main"] \in used

ReapsAreFinal ==
  \A t \in Threads :
    /\ pc[t] \in {"dismiss", "reap"} => tgt[t] \in Shelves
    /\ pc[t] = "reap" /\ mode[t] # "debris" =>
         /\ tgt[t] \in used /\ tgt[t] \notin entries
         /\ ~InFlight(tgt[t])

DownIsEmpty ==
  phase = "down" =>
    /\ entries = {} /\ shelfGuards = {} /\ editorGuards = {}
    /\ \A s \in Shelves : pinGuards[s] = 0 /\ dragGuards[s] = 0
    /\ \A t \in Threads : pc[t] = "idle" /\ mode[t] = "none"

CacheInv ==
  /\ TypeOK /\ RefsCountGuards /\ HeldEntriesSurvive /\ RevisionOfHeldEntry
  /\ IndexesAgree /\ CommitsAreFresh /\ ReapsAreFinal /\ DownIsEmpty

-----------------------------------------------------------------------------
(* The guards of an entry, other than the card's own, are its holders.     *)
HoldersOf(s) ==
  (IF s \in editorGuards THEN 1 ELSE 0) + pinGuards[s] + dragGuards[s]

StoreOf == INSTANCE CaptureStore WITH
             Captures <- Shelves,
             up <- phase # "down",
             storing <- {s \in Shelves : InFlight(s)},
             kept <- entries,
             holds <- [s \in Shelves |-> HoldersOf(s)]

(* The whole cache, its threads and its directories, keeps the promises of *)
(* CaptureStore: a capture a user edits, pins or drags is never discarded, *)
(* one that was dismissed or given up does not come back before the next   *)
(* start, and nothing but a finished commit becomes an entry.              *)
IsCaptureStore == StoreOf!Spec

(* Claim of sweeper.rs and ADR-0005: the recovery pass runs "without       *)
(* touching valid active captures"; no file of a commit in flight goes.    *)
DebrisSparesCommits ==
  [][\A s \in Shelves :
       pc["main"] \in {"write", "size", "register"} /\ tgt["main"] = s
         => disk[s] \subseteq disk'[s] \/ phase' = "down"]_vars

(* Claim of ADR-0005: no phantom card, a card on the shelf whose entry     *)
(* exists but whose pixels are not on disk.                                *)
NoPhantomCards ==
  phase = "running" =>
    \A s \in queue \cap entries : "capture.png" \in disk[s]
=============================================================================
