---------------------------- MODULE SettingsStore ----------------------------
(***************************************************************************)
(* The three settings stores: shelf preferences (preferences/store.rs),    *)
(* cache policy (cache/policy.rs) and hotkey bindings (hotkey/store.rs).   *)
(* They share one two-file writer; the first two put a trailing debouncer  *)
(* (preferences/debouncer.rs) with a worker thread in front of it.         *)
(*                                                                         *)
(*   preferences   update is debounced; a committed change and the exit    *)
(*                 flush from the main thread                              *)
(*   policy        update is debounced; the start flushes, the exit does   *)
(*                 not                                                     *)
(*   hotkeys       update writes on the main thread; the exit flushes      *)
(*                                                                         *)
(* The worker runs a callback outside the debouncer's mutex, so a flush    *)
(* cancels what is pending and not what is being written: main thread and  *)
(* worker may write at the same time, under the same three file names.     *)
(*                                                                         *)
(* Abstractions: a value is the number of the change that set it, 0 is the *)
(* default; a file holds a value or is torn (cut short, or one text over   *)
(* the rest of another); fsync is part of the write, since only the        *)
(* process is killed, not the machine.  cancel_pending and last_persisted, *)
(* which only cancel_pending reads, are left out: no command calls it.     *)
(***************************************************************************)
EXTENDS Naturals

CONSTANTS
  Stores,            \* the stores considered
  NoFile, Torn,      \* content of a file that is missing or does not parse
  NoValue,           \* nothing pending
  MaxSets,           \* bound: changes made
  MaxFaults          \* bound: I/O failures and kills

ASSUME StoresAssumption == Stores \subseteq {"preferences", "policy", "hotkeys"}
ASSUME MarksAssumption  ==
  {NoFile, Torn, NoValue} \cap Nat = {} /\ NoFile # Torn
ASSUME BoundsAssumption == MaxSets \in Nat /\ MaxFaults \in Nat

VARIABLES
  store,             \* the store this behaviour is about
  up,                \* "down", "running", "requested", "exit", "exited"
  root,              \* set_root has succeeded
  memory,            \* Inner.current
  pending,           \* the value of the debouncer's pending callback
  disk,              \* content of the files, by name
  pc,                \* where a thread is in write_to_disk
  val,               \* the value it writes
  at,                \* the name of the file it has open
  sets,              \* changes made so far
  faults,            \* failures so far
  failed,            \* history: the last write of this run failed
  saved,             \* history: the newest value whose write succeeded
  raced              \* history: both threads have been in write_to_disk

memVars  == <<up, root, memory, pending, sets>>
diskVars == <<disk, at>>
vars == <<store, memVars, diskVars, pc, val, faults, failed, saved, raced>>

Threads == {"main", "worker"}
Names   == {"primary", "backup", "tmp"}
Values  == 0..MaxSets

TypeOK ==
  /\ store \in Stores
  /\ up \in {"down", "running", "requested", "exit", "exited"}
  /\ root \in BOOLEAN
  /\ memory \in Values /\ sets \in Values /\ saved \in Values
  /\ pending \in Values \cup {NoValue}
  /\ disk \in [Names -> Values \cup {NoFile, Torn}]
  /\ pc \in [Threads -> {"idle", "look", "unback", "rotate", "create",
                         "write", "publish"}]
  /\ val \in [Threads -> Values]
  /\ at \in [Threads -> Names \cup {"none"}]
  /\ faults \in Nat
  /\ failed \in BOOLEAN /\ raced \in BOOLEAN

Init ==
  /\ store \in Stores
  /\ up = "down" /\ root = FALSE
  /\ memory = 0 /\ pending = NoValue
  /\ disk = [n \in Names |-> NoFile]
  /\ pc = [t \in Threads |-> "idle"] /\ val = [t \in Threads |-> 0]
  /\ at = [t \in Threads |-> "none"]
  /\ sets = 0 /\ faults = 0
  /\ failed = FALSE /\ saved = 0 /\ raced = FALSE

\* A failure of the disk, or a kill.
Fault == faults < MaxFaults /\ faults' = faults + 1

-----------------------------------------------------------------------------
(* The files.                                                              *)

\* load_from_disk: the primary, else the backup, else the default.
Loaded == IF disk["primary"] \in Nat THEN disk["primary"]
          ELSE IF disk["backup"] \in Nat THEN disk["backup"] ELSE 0

\* An open file keeps its content when its name changes or goes.
Rename(from, to) ==
  /\ disk' = [disk EXCEPT ![to] = disk[from], ![from] = NoFile]
  /\ at' = [t \in Threads |-> CASE at[t] = from -> to
                                [] at[t] = to   -> "none"
                                [] OTHER        -> at[t]]

Remove(name) ==
  /\ disk' = [disk EXCEPT ![name] = NoFile]
  /\ at' = [t \in Threads |-> IF at[t] = name THEN "none" ELSE at[t]]

-----------------------------------------------------------------------------
(* write_to_disk, one file operation at a time.                            *)

Writing(t) == pc[t] # "idle"

\* Thread t enters write_to_disk with value v.
StartWrite(t, v) ==
  /\ pc'  = [pc EXCEPT ![t] = "look"]
  /\ val' = [val EXCEPT ![t] = v]
  /\ raced' = (raced \/ \E u \in Threads \ {t} : Writing(u))

Goto(t, step) ==
  /\ pc' = [pc EXCEPT ![t] = step]
  /\ UNCHANGED <<store, memVars, val, failed, saved, raced>>

\* write_to_disk returns its error, which is logged at most.
Fails(t) ==
  /\ pc' = [pc EXCEPT ![t] = "idle"]
  /\ failed' = TRUE
  /\ UNCHANGED <<store, memVars, val, saved, raced>>

Look(t) ==
  /\ pc[t] = "look"
  /\ Goto(t, IF disk["primary"] = NoFile THEN "create" ELSE "unback")
  /\ UNCHANGED <<diskVars, faults>>

\* A backup that cannot be removed is replaced by the rotation.
Unback(t) ==
  /\ pc[t] = "unback"
  /\ Remove("backup")
  /\ Goto(t, "rotate")
  /\ UNCHANGED faults

\* Seeded fault: the old primary is removed, not kept as the backup.
RotateAway(t) ==
  /\ pc[t] = "rotate"
  /\ \/ /\ disk["primary"] # NoFile /\ Remove("primary")
        /\ Goto(t, "create") /\ UNCHANGED faults
     \/ /\ IF disk["primary"] = NoFile THEN UNCHANGED faults ELSE Fault
        /\ Fails(t) /\ UNCHANGED diskVars

Rotate(t) ==
  /\ pc[t] = "rotate"
  /\ \/ /\ disk["primary"] # NoFile /\ Rename("primary", "backup")
        /\ Goto(t, "create") /\ UNCHANGED faults
     \/ /\ IF disk["primary"] = NoFile THEN UNCHANGED faults ELSE Fault
        /\ Fails(t) /\ UNCHANGED diskVars

\* File::create truncates a temporary file that is already there.
Create(t) ==
  /\ pc[t] = "create"
  /\ \/ /\ disk' = [disk EXCEPT !["tmp"] = Torn]
        /\ at' = [at EXCEPT ![t] = "tmp"]
        /\ Goto(t, "write") /\ UNCHANGED faults
     \/ Fault /\ Fails(t) /\ UNCHANGED diskVars

\* What the open file holds after v is written from its start: another
\* value may have been longer.
Over(old, v) == IF old = Torn THEN {v} ELSE {v, Torn}

Write(t) ==
  /\ pc[t] = "write"
  /\ \/ /\ IF at[t] = "none" THEN UNCHANGED disk
           ELSE \E c \in Over(disk[at[t]], val[t]) :
                  disk' = [disk EXCEPT ![at[t]] = c]
        /\ at' = [at EXCEPT ![t] = "none"]
        /\ Goto(t, "publish") /\ UNCHANGED faults
     \/ Fault /\ Remove("tmp") /\ Fails(t)

\* Seeded fault: the write is reported before the file has its name.
PublishUnchecked(t) ==
  /\ pc[t] = "publish"
  /\ pc' = [pc EXCEPT ![t] = "idle"]
  /\ failed' = FALSE
  /\ saved' = IF val[t] > saved THEN val[t] ELSE saved
  /\ \/ disk["tmp"] # NoFile /\ Rename("tmp", "primary") /\ UNCHANGED faults
     \/ /\ IF disk["tmp"] = NoFile THEN UNCHANGED faults ELSE Fault
        /\ Remove("tmp")
  /\ UNCHANGED <<store, memVars, val, raced>>

Publish(t) ==
  /\ pc[t] = "publish"
  /\ \/ /\ disk["tmp"] # NoFile /\ Rename("tmp", "primary")
        /\ pc' = [pc EXCEPT ![t] = "idle"]
        /\ failed' = FALSE
        /\ saved' = IF val[t] > saved THEN val[t] ELSE saved
        /\ UNCHANGED <<store, memVars, val, faults, raced>>
     \/ /\ IF disk["tmp"] = NoFile THEN UNCHANGED faults ELSE Fault
        /\ Remove("tmp") /\ Fails(t)

WriteStep(t) == \/ Look(t) \/ Unback(t) \/ Rotate(t) \/ Create(t) \/ Write(t)
                \/ Publish(t)

-----------------------------------------------------------------------------
(* The debouncer's worker and the operations of the main thread.           *)

\* The window has passed: the callback is taken and runs without the mutex.
Fire ==
  /\ pending # NoValue /\ ~Writing("worker")
  /\ pending' = NoValue
  /\ StartWrite("worker", pending)
  /\ UNCHANGED <<store, up, root, memory, sets, diskVars, faults, failed, saved>>

\* The main thread is between two commands.
Ready == up = "running" /\ ~Writing("main")

\* A command changes the value.
NewValue == /\ sets < MaxSets
            /\ sets' = sets + 1 /\ memory' = sets + 1

\* flush_blocking, or the synchronous write of the hotkey store.
WriteNow ==
  /\ pending' = NoValue
  /\ IF root THEN StartWrite("main", memory') ELSE UNCHANGED <<pc, val, raced>>
  /\ UNCHANGED <<store, diskVars, faults, failed, saved>>

\* Debouncer::schedule: the latest callback stands for all before it.
ScheduleWrite == pending' = IF root THEN sets' ELSE pending

\* Seeded fault: a callback that is already pending is not replaced.
UpdateFirst ==
  /\ Ready /\ store # "hotkeys" /\ NewValue
  /\ pending' = IF root /\ pending = NoValue THEN sets' ELSE pending
  /\ UNCHANGED <<store, up, root, diskVars, pc, val, faults, failed, saved, raced>>

\* Seeded fault: no callback is scheduled while the worker is busy.
UpdateWhenIdle ==
  /\ Ready /\ store # "hotkeys" /\ NewValue
  /\ pending' = IF root /\ ~Writing("worker") THEN sets' ELSE pending
  /\ UNCHANGED <<store, up, root, diskVars, pc, val, faults, failed, saved, raced>>

\* update of the debounced stores.
Update ==
  /\ Ready /\ store # "hotkeys" /\ NewValue
  /\ ScheduleWrite
  /\ UNCHANGED <<store, up, root, diskVars, pc, val, faults, failed, saved, raced>>

\* update_shelf_preferences with `commit'.  The 500 ms of the debouncer do
\* not pass between its two calls.
CommitPreferences ==
  /\ Ready /\ store = "preferences" /\ NewValue
  /\ WriteNow
  /\ UNCHANGED <<up, root>>

\* update and set_paused of the hotkey store, which has no debouncer.
UpdateBindings ==
  /\ Ready /\ store = "hotkeys" /\ NewValue
  /\ WriteNow
  /\ UNCHANGED <<up, root>>

\* set_root takes over what the disk holds, or fails to make its directory.
SetRoot == \/ root' = TRUE /\ memory' = Loaded /\ UNCHANGED faults
           \/ root' = FALSE /\ memory' = 0 /\ Fault

\* The start, and for the policy the flush that follows set_root.
Boot ==
  /\ up \in {"down", "exited"}
  /\ up' = "running" /\ failed' = FALSE
  /\ SetRoot
  /\ IF root' /\ store = "policy" THEN StartWrite("main", memory')
     ELSE UNCHANGED <<pc, val, raced>>
  /\ UNCHANGED <<store, pending, sets, diskVars, saved>>

\* The exit flush runs for ExitRequested and again for Exit.
ExitFlush ==
  /\ ~Writing("main") /\ store # "policy"
  /\ \/ up = "running" /\ up' = "requested"
     \/ up = "requested" /\ up' = "exit"
  /\ UNCHANGED <<root, memory, sets>>
  /\ WriteNow

\* The end of the process takes its threads along.
Ends(state) ==
  /\ up' = state
  /\ pending' = NoValue
  /\ pc' = [t \in Threads |-> "idle"] /\ at' = [t \in Threads |-> "none"]
  /\ UNCHANGED <<store, root, memory, sets, disk, val, failed, saved, raced>>

Exit == /\ ~Writing("main")
        /\ up = IF store = "policy" THEN "running" ELSE "exit"
        /\ Ends("exited") /\ UNCHANGED faults

Kill == up \notin {"down", "exited"} /\ Fault /\ Ends("down")

-----------------------------------------------------------------------------
MainUser == Update \/ CommitPreferences \/ UpdateBindings \/ ExitFlush \/ Exit
Next == \/ \E t \in Threads : WriteStep(t)
        \/ Fire \/ MainUser \/ Boot \/ Kill

Spec == Init /\ [][Next]_vars

\* Threads that are inside a write go on; the worker wakes at its deadline.
FairSpec == Spec /\ WF_vars(Fire) /\ \A t \in Threads : WF_vars(WriteStep(t))

-----------------------------------------------------------------------------
(* When nothing is pending and nobody writes, the next start finds what is *)
(* in force: no order of previews, commits, flushes, failures and kills    *)
(* drops a change, except the exit of the policy store, which flushes      *)
(* nothing, and two threads writing at once.                               *)
SettledIsPersisted ==
  /\ up # "down" /\ (up = "exited" => store # "policy")
  /\ root /\ ~failed /\ ~raced
  /\ pending = NoValue /\ \A t \in Threads : ~Writing(t)
  => Loaded = memory

(* A value whose write was reported as done is found again, or a newer     *)
(* one, at whatever point the process ends.                                *)
AcknowledgedIsDurable == raced \/ Loaded >= saved

(* A change reaches the disk without any further command, unless its write *)
(* fails or the process ends first.                                        *)
ChangeReachesDisk ==
  \A v \in 1..MaxSets :
    up = "running" /\ memory = v ~>
      Loaded >= v \/ failed \/ raced \/ ~root \/ up # "running"

(* What callers may rely on.                                               *)
Register == INSTANCE DurableRegister
  WITH running <- up \notin {"down", "exited"}, latest <- sets,
       durable <- Loaded, tainted <- raced

(* Every store is a durable register until both of its threads have been   *)
(* in write_to_disk at once.                                               *)
IsDurableRegister == Register!Spec

(* Claim of store.rs (Debounced): flush_blocking, used during clean        *)
(* shutdown, keeps the most recent change of a process that exits inside   *)
(* the debounce window.                                                    *)
CleanExitKeepsChange ==
  up = "exited" /\ store # "policy" /\ root /\ ~failed => Loaded = memory
=============================================================================
