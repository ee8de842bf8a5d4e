------------------------- MODULE SettingsStoreProofs -------------------------
(***************************************************************************)
(* What holds of the settings stores for every set of stores and every     *)
(* bound: nothing is lost, and the store implements DurableRegister.       *)
(*                                                                         *)
(* The invariant says where the files are while one thread writes alone;   *)
(* once both have written at the same time (`raced') it promises only the  *)
(* types and that nothing is newer than the last change.                   *)
(***************************************************************************)
EXTENDS SettingsStore, TLAPS

Live  == up \notin {"down", "exited"}
Quiet == pending = NoValue /\ \A t \in Threads : ~Writing(t)

NothingNewer ==
  /\ memory <= sets
  /\ \A t \in Threads : val[t] <= sets
  /\ \A n \in Names : disk[n] \in Nat => disk[n] <= sets

(* Without a process, or without a root, nobody writes.                    *)
StopsClean == ~Live \/ ~root => Quiet

(* The exit flush cancels what is pending, and no command comes after it.  *)
ExitsAlone ==
  up \in {"requested", "exit"} =>
    pending = NoValue /\ (raced \/ ~Writing("worker"))

PendingIsNewest == pending # NoValue => pending = memory

(* What the files hold while t writes alone.                               *)
WriterAt(t) ==
  /\ pc[t] \in {"unback", "rotate"} => disk["primary"] \in Nat
  /\ pc[t] \in {"create", "write", "publish"} => disk["primary"] = NoFile
  /\ pc[t] = "write" => at[t] = "tmp" /\ disk["tmp"] = Torn
  /\ pc[t] = "publish" => disk["tmp"] = val[t]
  /\ Writing(t) => Loaded <= val[t] /\ val[t] <= memory
  /\ Writing(t) /\ pending = NoValue => val[t] = memory

Alone ==
  ~raced =>
    /\ ~(Writing("main") /\ Writing("worker"))
    /\ disk["primary"] # Torn /\ disk["backup"] # Torn
    /\ \A t \in Threads : WriterAt(t)
    /\ Live /\ root => Loaded <= memory
    /\ saved <= Loaded

StoreInv == /\ TypeOK /\ NothingNewer /\ StopsClean /\ ExitsAlone
            /\ PendingIsNewest /\ Alone /\ SettledIsPersisted

-----------------------------------------------------------------------------
\* The marks are no values.
LEMMA Marks ==
  /\ NoFile \notin Nat /\ Torn \notin Nat /\ NoValue \notin Nat
  /\ NoFile # Torn
  BY MarksAssumption

\* What a start finds is a value, and none that was never set.
LEMMA LoadedType ==
  ASSUME TypeOK, NothingNewer
  PROVE  Loaded \in Values /\ Loaded <= sets
<1>1. "primary" \in Names /\ "backup" \in Names
  BY DEF Names
<1>2. \A n \in Names : disk[n] \in Nat => disk[n] \in Values
  BY Marks DEF TypeOK
<1>3. 0 \in Values /\ sets \in Values
  BY BoundsAssumption DEF TypeOK, Values
<1>. QED  BY <1>1, <1>2, <1>3 DEF Loaded, NothingNewer, Values

\* A failure is counted.
LEMMA FaultCounts ==
  ASSUME TypeOK, Fault \/ UNCHANGED faults
  PROVE  faults' \in Nat
  BY DEF TypeOK, Fault

\* A renamed or removed file leaves directories and handles of their types.
LEMMA FilesType ==
  ASSUME TypeOK, NEW n \in Names, NEW m \in Names, Rename(n, m) \/ Remove(n)
  PROVE  /\ disk' \in [Names -> Values \cup {NoFile, Torn}]
         /\ at' \in [Threads -> Names \cup {"none"}]
<1>1. CASE Rename(n, m)
  BY <1>1 DEF Rename, TypeOK
<1>2. CASE Remove(n)
  BY <1>2 DEF Remove, TypeOK
<1>. QED  BY <1>1, <1>2

\* The first state: nothing on disk, no process.
LEMMA StoreInit == Init => StoreInv
<1>. SUFFICES ASSUME Init PROVE StoreInv
  OBVIOUS
<1>1. Loaded = 0
  BY Marks DEF Init, Loaded, Names
<1>2. TypeOK
  <2>1. 0 \in Values
    BY BoundsAssumption DEF Values
  <2>. QED  BY <2>1 DEF Init, TypeOK
<1>3. NothingNewer /\ StopsClean /\ ExitsAlone /\ PendingIsNewest
  BY Marks
     DEF Init, NothingNewer, StopsClean, ExitsAlone, PendingIsNewest, Quiet,
         Live, Writing
<1>4. Alone /\ SettledIsPersisted
  BY <1>1, Marks
     DEF Init, Alone, WriterAt, SettledIsPersisted, Writing, Live, Names, Threads
<1>. QED  BY <1>2, <1>3, <1>4 DEF StoreInv

-----------------------------------------------------------------------------
(* The steps of write_to_disk.                                             *)

\* A step of a write keeps the types, and writes nothing that was not set.
LEMMA StepTypes ==
  ASSUME StoreInv, NEW t \in Threads, WriteStep(t)
  PROVE  TypeOK' /\ NothingNewer'
<1>. USE DEF StoreInv
<1>. DEFINE Others == <<store, memVars, val, raced>>
<1>0. ASSUME UNCHANGED Others, faults' \in Nat, failed' \in BOOLEAN,
             saved' \in Values,
             pc' \in [Threads -> {"idle", "look", "unback", "rotate", "create",
                                  "write", "publish"}],
             at' \in [Threads -> Names \cup {"none"}],
             disk' \in [Names -> Values \cup {NoFile, Torn}],
             \A n \in Names : disk'[n] \in Nat => disk'[n] <= sets
      PROVE  TypeOK' /\ NothingNewer'
  BY <1>0 DEF Others, TypeOK, NothingNewer, memVars
<1>1. "primary" \in Names /\ "backup" \in Names /\ "tmp" \in Names
  BY DEF Names
<1>2. CASE Look(t)
  <2>1. faults' \in Nat
    BY <1>2, FaultCounts DEF Look
  <2>. QED
    BY <1>0, <1>2, <2>1 DEF Look, Goto, Others, diskVars, TypeOK, NothingNewer
<1>3. CASE Unback(t)
  <2>1. /\ disk' \in [Names -> Values \cup {NoFile, Torn}]
        /\ at' \in [Threads -> Names \cup {"none"}]
    BY <1>1, <1>3, FilesType DEF Unback
  <2>2. \A n \in Names : disk'[n] \in Nat => disk'[n] <= sets
    BY <1>3, Marks DEF Unback, Remove, TypeOK, NothingNewer
  <2>. QED
    BY <1>0, <1>3, <2>1, <2>2 DEF Unback, Goto, Others, TypeOK
<1>4. CASE Rotate(t)
  <2>1. CASE UNCHANGED diskVars /\ Fails(t)
    <3>1. faults' \in Nat
      BY <1>4, FaultCounts DEF Rotate
    <3>. QED
      BY <1>0, <2>1, <3>1 DEF Fails, Others, diskVars, TypeOK, NothingNewer
  <2>2. CASE Rename("primary", "backup") /\ Goto(t, "create") /\ UNCHANGED faults
    <3>1. /\ disk' \in [Names -> Values \cup {NoFile, Torn}]
          /\ at' \in [Threads -> Names \cup {"none"}]
      BY <1>1, <2>2, FilesType
    <3>2. \A n \in Names : disk'[n] \in Nat => disk'[n] <= sets
      BY <1>1, <2>2, Marks DEF Rename, TypeOK, NothingNewer
    <3>. QED
      BY <1>0, <2>2, <3>1, <3>2 DEF Goto, Others, TypeOK
  <2>. QED  BY <1>4, <2>1, <2>2 DEF Rotate
<1>5. CASE Create(t)
  <2>1. faults' \in Nat
    BY <1>5, FaultCounts DEF Create
  <2>2. /\ disk' \in [Names -> Values \cup {NoFile, Torn}]
        /\ at' \in [Threads -> Names \cup {"none"}]
    BY <1>1, <1>5 DEF Create, diskVars, TypeOK
  <2>3. \A n \in Names : disk'[n] \in Nat => disk'[n] <= sets
    BY <1>1, <1>5, Marks DEF Create, diskVars, TypeOK, NothingNewer
  <2>. QED
    BY <1>0, <1>5, <2>1, <2>2, <2>3 DEF Create, Goto, Fails, Others, TypeOK
<1>6. CASE Write(t)
  <2>1. CASE Fault /\ Remove("tmp") /\ Fails(t)
    <3>1. /\ disk' \in [Names -> Values \cup {NoFile, Torn}]
          /\ at' \in [Threads -> Names \cup {"none"}]
      BY <1>1, <2>1, FilesType
    <3>2. \A n \in Names : disk'[n] \in Nat => disk'[n] <= sets
      BY <2>1, Marks DEF Remove, TypeOK, NothingNewer
    <3>3. faults' \in Nat
      BY <2>1, FaultCounts
    <3>. QED
      BY <1>0, <2>1, <3>1, <3>2, <3>3 DEF Fails, Others, TypeOK
  <2>2. CASE /\ \/ UNCHANGED disk
                \/ /\ at[t] \in Names
                   /\ \E c \in {val[t], Torn} : disk' = [disk EXCEPT ![at[t]] = c]
             /\ at' = [at EXCEPT ![t] = "none"]
             /\ Goto(t, "publish") /\ UNCHANGED faults
    <3>1. val[t] \in Values /\ val[t] <= sets
      BY DEF TypeOK, NothingNewer
    <3>2. disk' \in [Names -> Values \cup {NoFile, Torn}]
      BY <2>2, <3>1 DEF TypeOK
    <3>3. \A n \in Names : disk'[n] \in Nat => disk'[n] <= sets
      BY <2>2, <3>1, Marks DEF TypeOK, NothingNewer
    <3>. QED
      BY <1>0, <2>2, <3>2, <3>3 DEF Goto, Others, TypeOK
  <2>3. at[t] \in Names \cup {"none"}
    BY DEF TypeOK
  <2>. QED  BY <1>6, <2>1, <2>2, <2>3 DEF Write, Over
<1>7. CASE Publish(t)
  <2>1. /\ disk' \in [Names -> Values \cup {NoFile, Torn}]
        /\ at' \in [Threads -> Names \cup {"none"}]
    BY <1>1, <1>7, FilesType DEF Publish
  <2>2. \A n \in Names : disk'[n] \in Nat => disk'[n] <= sets
    BY <1>1, <1>7, Marks DEF Publish, Rename, Remove, TypeOK, NothingNewer
  <2>3. faults' \in Nat
    BY <1>7, FaultCounts DEF Publish
  <2>4. saved' \in Values /\ failed' \in BOOLEAN
    <3>1. val[t] \in Values /\ saved \in Values /\ failed \in BOOLEAN
      BY DEF TypeOK
    <3>. QED  BY <1>7, <3>1 DEF Publish, Fails
  <2>. QED
    BY <1>0, <1>7, <2>1, <2>2, <2>3, <2>4 DEF Publish, Fails, Others, TypeOK
<1>. QED  BY <1>2, <1>3, <1>4, <1>5, <1>6, <1>7 DEF WriteStep

\* While a thread writes alone, its steps keep what a start finds, until the
\* last one replaces it by the value written.
LEMMA StepLoaded ==
  ASSUME StoreInv, ~raced, NEW t \in Threads, WriteStep(t)
  PROVE  \/ Loaded' = Loaded /\ saved' = saved /\ (failed' \/ Writing(t)')
         \/ /\ pc[t] = "publish" /\ ~Writing(t)'
            /\ Loaded' = val[t] /\ saved' = val[t]
<1>. USE DEF StoreInv
<1>1. "primary" \in Names /\ "backup" \in Names /\ "tmp" \in Names
  BY DEF Names
<1>2. WriterAt(t) /\ disk["primary"] # Torn /\ disk["backup"] # Torn
      /\ saved <= Loaded
  BY DEF Alone
<1>3. CASE Look(t)
  BY <1>3 DEF Look, Goto, diskVars, Loaded, Writing, TypeOK
<1>4. CASE Unback(t)
  BY <1>1, <1>2, <1>4 DEF Unback, Remove, Goto, Loaded, Writing, TypeOK, WriterAt
<1>5. CASE Rotate(t)
  <2>1. disk["primary"] \in Nat
    BY <1>2, <1>5 DEF Rotate, WriterAt
  <2>. QED
    BY <1>1, <1>5, <2>1, Marks
       DEF Rotate, Rename, Goto, Fails, diskVars, Loaded, Writing, TypeOK
<1>6. CASE Create(t)
  BY <1>1, <1>6 DEF Create, Goto, Fails, diskVars, Loaded, Writing, TypeOK
<1>7. CASE Write(t)
  <2>1. at[t] = "tmp"
    BY <1>2, <1>7 DEF Write, WriterAt
  <2>. QED
    BY <1>1, <1>7, <2>1
       DEF Write, Remove, Goto, Fails, Loaded, Writing, TypeOK
<1>8. CASE Publish(t)
  <2>1. val[t] \in Nat /\ saved <= val[t] /\ saved \in Nat
    <3>1. Loaded <= val[t] /\ Loaded \in Nat /\ val[t] \in Nat /\ saved \in Nat
      BY <1>2, <1>8, LoadedType DEF Publish, WriterAt, Writing, TypeOK, Values
    <3>. QED  BY <1>2, <3>1
  <2>2. disk["tmp"] = val[t]
    BY <1>2, <1>8 DEF Publish, WriterAt
  <2>3. CASE Rename("tmp", "primary") /\ pc' = [pc EXCEPT ![t] = "idle"]
             /\ saved' = IF val[t] > saved THEN val[t] ELSE saved
    BY <1>1, <1>8, <2>1, <2>2, <2>3 DEF Rename, Loaded, Publish, Writing, TypeOK
  <2>4. CASE Remove("tmp") /\ Fails(t)
    BY <1>1, <2>4 DEF Remove, Fails, Loaded, TypeOK
  <2>. QED  BY <1>8, <2>3, <2>4 DEF Publish
<1>. QED  BY <1>3, <1>4, <1>5, <1>6, <1>7, <1>8 DEF WriteStep

\* While a thread writes alone, the files are where its next step needs them.
LEMMA StepFiles ==
  ASSUME StoreInv, ~raced, NEW t \in Threads, WriteStep(t)
  PROVE  /\ disk'["primary"] # Torn /\ disk'["backup"] # Torn
         /\ pc'[t] \in {"unback", "rotate"} => disk'["primary"] \in Nat
         /\ pc'[t] \in {"create", "write", "publish"} => disk'["primary"] = NoFile
         /\ pc'[t] = "write" => at'[t] = "tmp" /\ disk'["tmp"] = Torn
         /\ pc'[t] = "publish" => disk'["tmp"] = val[t]
<1>. USE DEF StoreInv
<1>1. "primary" \in Names /\ "backup" \in Names /\ "tmp" \in Names
  BY DEF Names
<1>2. WriterAt(t) /\ disk["primary"] # Torn /\ disk["backup"] # Torn
  BY DEF Alone
<1>3. CASE Look(t)
  BY <1>1, <1>2, <1>3, Marks DEF Look, Goto, diskVars, TypeOK, Values
<1>4. CASE Unback(t)
  BY <1>1, <1>2, <1>4, Marks DEF Unback, Remove, Goto, TypeOK, WriterAt
<1>5. CASE Rotate(t)
  BY <1>1, <1>2, <1>5, Marks
     DEF Rotate, Rename, Goto, Fails, diskVars, TypeOK, WriterAt
<1>6. CASE Create(t)
  BY <1>1, <1>2, <1>6, Marks
     DEF Create, Goto, Fails, diskVars, TypeOK, WriterAt
<1>7. CASE Write(t)
  <2>1. at[t] = "tmp" /\ disk["tmp"] = Torn /\ disk["primary"] = NoFile
    BY <1>2, <1>7 DEF Write, WriterAt
  <2>. QED
    BY <1>1, <1>2, <1>7, <2>1, Marks
       DEF Write, Over, Remove, Goto, Fails, TypeOK
<1>8. CASE Publish(t)
  <2>1. disk["tmp"] = val[t] /\ val[t] # Torn
    BY <1>2, <1>8, Marks DEF Publish, WriterAt, TypeOK, Values
  <2>. QED
    BY <1>1, <1>2, <1>8, <2>1, Marks
       DEF Publish, Rename, Remove, Fails, TypeOK
<1>. QED  BY <1>3, <1>4, <1>5, <1>6, <1>7, <1>8 DEF WriteStep

\* A step of a write keeps the invariant.
LEMMA StepInv ==
  ASSUME StoreInv, NEW t \in Threads, WriteStep(t)
  PROVE  StoreInv'
<1>. USE DEF StoreInv
<1>1. TypeOK' /\ NothingNewer'
  BY StepTypes
<1>2. /\ UNCHANGED <<store, memVars, val, raced>>
      /\ \E step : pc' = [pc EXCEPT ![t] = step]
      /\ Writing(t)
  BY DEF WriteStep, Look, Unback, Rotate, Create, Write, Publish, Goto, Fails,
         Writing
<1>3. Live /\ root /\ Live' /\ root'
  BY <1>2 DEF StopsClean, Quiet, Live, memVars
<1>4. \A u \in Threads \ {t} : pc'[u] = pc[u] /\ Writing(u)' = Writing(u)
  BY <1>2 DEF TypeOK, Writing
<1>5. StopsClean' /\ ExitsAlone' /\ PendingIsNewest'
  <2>1. Writing("worker")' => Writing("worker")
    BY <1>2, <1>4 DEF Threads
  <2>. QED
    BY <1>2, <1>3, <2>1 DEF StopsClean, ExitsAlone, PendingIsNewest, memVars
<1>6. ASSUME ~raced PROVE Alone' /\ SettledIsPersisted'
  <2>1. \A u \in Threads \ {t} : ~Writing(u)
    BY <1>2, <1>6 DEF Alone, Threads
  <2>2. WriterAt(t)
    BY <1>6 DEF Alone
  <2>3. /\ val[t] \in Nat /\ memory \in Nat /\ saved \in Nat /\ Loaded \in Nat
        /\ Loaded <= val[t] /\ val[t] <= memory /\ saved <= Loaded
    BY <1>2, <1>6, <2>2, LoadedType DEF TypeOK, Values, Alone, WriterAt
  <2>4. /\ Loaded' \in Nat /\ Loaded' <= val[t] /\ Loaded' <= memory
        /\ saved' <= Loaded'
    BY <1>6, <2>3, StepLoaded
  <2>5. WriterAt(t)'
    BY <1>2, <1>6, <2>2, <2>4, StepFiles DEF WriterAt, memVars
  <2>6. ASSUME NEW u \in Threads \ {t} PROVE WriterAt(u)'
    BY <1>4, <2>1 DEF WriterAt, Writing
  <2>7. Alone'
    <3>1. ~(Writing("main") /\ Writing("worker"))'
      BY <1>4, <2>1 DEF Threads
    <3>2. disk'["primary"] # Torn /\ disk'["backup"] # Torn
      BY <1>6, StepFiles
    <3>. QED
      BY <1>2, <2>4, <2>5, <2>6, <3>1, <3>2 DEF Alone, memVars
  <2>8. SettledIsPersisted'
    <3>1. ASSUME ~Writing(t)', ~failed', pending = NoValue PROVE Loaded' = memory
      BY <1>2, <1>6, <2>2, <3>1, StepLoaded DEF WriterAt
    <3>. QED  BY <1>2, <3>1 DEF SettledIsPersisted, memVars
  <2>. QED  BY <2>7, <2>8
<1>7. ASSUME raced PROVE Alone' /\ SettledIsPersisted'
  BY <1>2, <1>7 DEF Alone, SettledIsPersisted
<1>. QED  BY <1>1, <1>5, <1>6, <1>7

-----------------------------------------------------------------------------
(* The other actions leave the files alone.                                *)

\* A thread that starts to write the value in force, newer than the disk's,
\* is alone at the start of its write, or both threads write.
LEMMA StartKeeps ==
  ASSUME StoreInv, NEW t \in Threads, ~Writing(t), StartWrite(t, memory'),
         UNCHANGED <<diskVars, saved, failed>>, memory' \in Nat,
         ~raced => Loaded <= memory'
  PROVE  Alone' /\ SettledIsPersisted'
<1>. USE DEF StoreInv
<1>1. Loaded' = Loaded
  BY DEF diskVars, Loaded
<1>2. pc'[t] = "look" /\ Writing(t)' /\ val'[t] = memory'
      /\ \A u \in Threads \ {t} : pc'[u] = pc[u]
  BY DEF StartWrite, TypeOK, Writing
<1>3. ASSUME ~raced' PROVE Alone'
  <2>1. ~raced /\ \A u \in Threads \ {t} : ~Writing(u)
    BY <1>3 DEF StartWrite
  <2>2. Loaded <= memory' /\ Loaded \in Nat
    BY <2>1, LoadedType DEF Values
  <2>3. ASSUME NEW u \in Threads \ {t} PROVE WriterAt(u)' /\ ~Writing(u)'
    BY <1>2, <2>1 DEF WriterAt, Writing
  <2>4. WriterAt(t)'
    BY <1>1, <1>2, <2>2 DEF WriterAt, Writing
  <2>. QED
    BY <1>1, <2>1, <2>2, <2>3, <2>4 DEF Alone, diskVars, Threads
<1>4. SettledIsPersisted'
  BY <1>2 DEF SettledIsPersisted
<1>. QED  BY <1>3, <1>4 DEF Alone

\* The debouncer's worker starts with the value in force.
LEMMA FireInv ==
  ASSUME StoreInv, Fire
  PROVE  StoreInv'
<1>. USE DEF StoreInv, Fire
<1>1. pending = memory /\ pending \in Values /\ memory <= sets
  BY DEF PendingIsNewest, TypeOK, NothingNewer
<1>2. Live /\ root
  BY DEF StopsClean, Quiet
<1>3. TypeOK'
  BY <1>1 DEF TypeOK, StartWrite, diskVars
<1>4. NothingNewer' /\ PendingIsNewest'
  BY <1>1 DEF NothingNewer, PendingIsNewest, StartWrite, diskVars, TypeOK
<1>5. StopsClean' /\ ExitsAlone'
  BY <1>2 DEF StopsClean, ExitsAlone, Live
<1>6. Alone' /\ SettledIsPersisted'
  <2>1. ~raced => Loaded <= memory
    BY <1>2 DEF Alone
  <2>. QED
    BY <1>1, <2>1, StartKeeps DEF Threads, Values
<1>. QED  BY <1>3, <1>4, <1>5, <1>6

\* A new value is newer than everything on disk.
LEMMA NewValueTypes ==
  ASSUME StoreInv, NewValue
  PROVE  /\ memory' \in Values /\ sets' \in Values
         /\ memory' = sets' /\ sets <= sets' /\ Loaded <= memory'
<1>1. Loaded <= sets /\ Loaded \in Nat /\ sets \in Nat
  BY LoadedType DEF StoreInv, Values, TypeOK
<1>. QED
  BY <1>1, BoundsAssumption DEF NewValue, Values

\* A debounced update replaces what is pending.
LEMMA UpdateInv ==
  ASSUME StoreInv, Update
  PROVE  StoreInv'
<1>. USE DEF StoreInv, Update, ScheduleWrite
<1>1. /\ memory' \in Values /\ sets' \in Values
      /\ memory' = sets' /\ sets <= sets' /\ Loaded <= memory'
  BY NewValueTypes
<1>2. TypeOK'
  BY <1>1 DEF TypeOK, diskVars
<1>3. NothingNewer'
  BY <1>1, Marks DEF NothingNewer, diskVars, TypeOK, Values
<1>4. StopsClean' /\ ExitsAlone' /\ PendingIsNewest'
  BY <1>1 DEF StopsClean, ExitsAlone, PendingIsNewest, Ready, Quiet, Live,
              Writing
<1>5. Loaded' = Loaded
  BY DEF diskVars, Loaded
<1>6. Alone'
  <2>1. SUFFICES ASSUME ~raced PROVE Alone'
    BY DEF Alone
  <2>2. ASSUME NEW t \in Threads PROVE WriterAt(t)'
    <3>1. WriterAt(t) /\ val[t] <= sets /\ val[t] \in Nat
      BY <2>1 DEF Alone, NothingNewer, TypeOK, Values
    <3>2. Writing(t) => root
      BY DEF StopsClean, Quiet
    <3>3. sets' \in Nat /\ sets' # NoValue /\ sets \in Nat
      BY <1>1, Marks DEF Values, TypeOK
    <3>. QED
      BY <1>1, <1>5, <3>1, <3>2, <3>3 DEF WriterAt, Writing, diskVars
  <2>. QED  BY <1>1, <1>5, <2>1, <2>2 DEF Alone, Writing, diskVars
<1>7. SettledIsPersisted'
  BY <1>1, Marks DEF SettledIsPersisted, Ready, Values
<1>. QED  BY <1>2, <1>3, <1>4, <1>6, <1>7

\* A write on the main thread of the value in force, old or new.
LEMMA WriteNowInv ==
  ASSUME StoreInv, WriteNow, ~Writing("main"), Live, Live',
         UNCHANGED root, memory' \in Values, sets' \in Values,
         memory' <= sets', sets <= sets', root => (~raced => Loaded <= memory'),
         up' \in {"running", "requested", "exit"}
  PROVE  StoreInv'
<1>. USE DEF StoreInv, WriteNow
<1>1. CASE root
  <2>1. StartWrite("main", memory')
    BY <1>1
  <2>2. TypeOK'
    BY <2>1 DEF TypeOK, StartWrite, diskVars
  <2>3. NothingNewer'
    <3>1. sets \in Nat /\ sets' \in Nat /\ memory' \in Nat
      BY DEF TypeOK, Values
    <3>. QED
      BY <2>1, <3>1 DEF NothingNewer, StartWrite, diskVars, TypeOK, Values
  <2>4. StopsClean' /\ PendingIsNewest'
    BY <1>1 DEF StopsClean, PendingIsNewest
  <2>5. ExitsAlone'
    <3>1. Writing("worker") => raced'
      BY <2>1 DEF StartWrite, Threads
    <3>2. Writing("worker")' = Writing("worker")
      BY <2>1 DEF StartWrite, TypeOK, Threads, Writing
    <3>. QED  BY <3>1, <3>2 DEF ExitsAlone
  <2>6. Alone' /\ SettledIsPersisted'
    BY <1>1, <2>1, StartKeeps DEF Threads, Values
  <2>. QED  BY <2>2, <2>3, <2>4, <2>5, <2>6
<1>2. CASE ~root
  <2>1. Quiet
    BY <1>2 DEF StopsClean
  <2>2. TypeOK'
    BY <1>2 DEF TypeOK, diskVars
  <2>3. NothingNewer'
    <3>1. sets \in Nat /\ sets' \in Nat /\ memory' \in Nat
      BY DEF TypeOK, Values
    <3>. QED
      BY <1>2, <3>1 DEF NothingNewer, diskVars, TypeOK, Values
  <2>4. StopsClean' /\ PendingIsNewest' /\ ExitsAlone'
    BY <1>2, <2>1 DEF StopsClean, PendingIsNewest, ExitsAlone, Quiet, Writing,
                      Threads
  <2>5. Alone' /\ SettledIsPersisted'
    BY <1>2, <2>1 DEF Alone, WriterAt, SettledIsPersisted, Quiet, Writing,
                      diskVars, Loaded
  <2>. QED  BY <2>2, <2>3, <2>4, <2>5
<1>. QED  BY <1>1, <1>2 DEF TypeOK

\* A committed change, and the update of the hotkey store.
LEMMA UpdateNowInv ==
  ASSUME StoreInv, CommitPreferences \/ UpdateBindings
  PROVE  StoreInv'
<1>1. /\ memory' \in Values /\ sets' \in Values
      /\ memory' = sets' /\ sets <= sets' /\ Loaded <= memory'
  BY NewValueTypes DEF CommitPreferences, UpdateBindings
<1>2. memory' <= sets' /\ Live /\ Live' /\ ~Writing("main")
      /\ up' \in {"running", "requested", "exit"} /\ UNCHANGED root
  BY <1>1 DEF CommitPreferences, UpdateBindings, Ready, Live, Values
<1>. QED  BY <1>1, <1>2, WriteNowInv DEF CommitPreferences, UpdateBindings

\* The exit flush writes the value in force.
LEMMA ExitFlushInv ==
  ASSUME StoreInv, ExitFlush
  PROVE  StoreInv'
<1>1. /\ memory' \in Values /\ sets' \in Values
      /\ memory' <= sets' /\ sets <= sets' /\ Live /\ Live'
      /\ up' \in {"running", "requested", "exit"} /\ UNCHANGED root
  BY DEF ExitFlush, StoreInv, TypeOK, NothingNewer, Live, Values
<1>2. root => (~raced => Loaded <= memory')
  BY <1>1 DEF ExitFlush, StoreInv, Alone
<1>. QED  BY <1>1, <1>2, WriteNowInv DEF ExitFlush

\* A start takes over what the disk holds.
LEMMA BootInv ==
  ASSUME StoreInv, Boot
  PROVE  StoreInv'
<1>. USE DEF StoreInv, Boot, SetRoot
<1>1. Quiet /\ ~Live /\ Live'
  BY DEF StopsClean, Live
<1>2. Loaded \in Values /\ Loaded <= sets /\ 0 \in Values /\ 0 <= sets
  BY LoadedType, BoundsAssumption DEF Values, TypeOK
<1>3. memory' \in Values /\ memory' <= sets /\ root' \in BOOLEAN /\ faults' \in Nat
  BY <1>2, FaultCounts
<1>4. Loaded' = Loaded
  BY DEF diskVars, Loaded
<1>5. CASE root' /\ store = "policy"
  <2>1. StartWrite("main", memory') /\ memory' = Loaded
    BY <1>5
  <2>2. TypeOK'
    BY <1>3, <2>1 DEF TypeOK, StartWrite, diskVars
  <2>3. NothingNewer'
    BY <1>3, <2>1 DEF NothingNewer, StartWrite, diskVars, TypeOK
  <2>4. StopsClean' /\ ExitsAlone' /\ PendingIsNewest'
    BY <1>1, <1>5 DEF StopsClean, ExitsAlone, PendingIsNewest, Quiet
  <2>5. Alone'
    <3>1. ASSUME ~raced' PROVE Alone'
      <4>1. ~raced
        BY <2>1, <3>1 DEF StartWrite
      <4>2. pc'["main"] = "look" /\ val'["main"] = memory' /\ pc'["worker"] = "idle"
        BY <1>1, <2>1 DEF StartWrite, TypeOK, Quiet, Writing, Threads
      <4>3. Loaded <= memory' /\ memory' <= memory'
        BY <1>2, <2>1 DEF Values
      <4>4. \A t \in Threads : WriterAt(t)'
        BY <1>4, <4>2, <4>3 DEF WriterAt, Writing, Threads
      <4>. QED
        BY <1>4, <4>1, <4>2, <4>3, <4>4 DEF Alone, Writing, diskVars
    <3>. QED  BY <3>1 DEF Alone
  <2>6. SettledIsPersisted'
    BY <1>4, <2>1 DEF SettledIsPersisted
  <2>. QED  BY <2>2, <2>3, <2>4, <2>5, <2>6
<1>6. CASE ~(root' /\ store = "policy")
  <2>1. UNCHANGED <<pc, val, raced>>
    BY <1>6
  <2>2. TypeOK'
    BY <1>3, <2>1 DEF TypeOK, diskVars
  <2>3. NothingNewer'
    BY <1>3, <2>1 DEF NothingNewer, diskVars
  <2>4. StopsClean' /\ ExitsAlone' /\ PendingIsNewest'
    BY <1>1, <2>1 DEF StopsClean, ExitsAlone, PendingIsNewest, Quiet, Writing
  <2>5. Alone'
    <3>1. Loaded <= Loaded
      BY <1>2 DEF Values
    <3>. QED
      BY <1>1, <1>4, <2>1, <3>1 DEF Alone, WriterAt, Quiet, Writing, diskVars
  <2>6. SettledIsPersisted'
    BY <1>4 DEF SettledIsPersisted
  <2>. QED  BY <2>2, <2>3, <2>4, <2>5, <2>6
<1>. QED  BY <1>5, <1>6

\* The end of a process leaves the files as they are.
LEMMA EndsInv ==
  ASSUME StoreInv, Exit \/ Kill
  PROVE  StoreInv'
<1>. USE DEF StoreInv
<1>1. PICK state \in {"down", "exited"} : Ends(state)
  BY DEF Exit, Kill
<1>2. Quiet' /\ ~Live'
  BY <1>1 DEF Ends, Quiet, Live, Writing
<1>3. TypeOK'
  BY <1>1, FaultCounts DEF Ends, Exit, Kill, TypeOK
<1>4. NothingNewer'
  BY <1>1 DEF Ends, NothingNewer
<1>5. StopsClean' /\ ExitsAlone' /\ PendingIsNewest'
  BY <1>1, <1>2 DEF StopsClean, ExitsAlone, PendingIsNewest, Quiet, Live, Ends
<1>6. Loaded' = Loaded
  BY <1>1 DEF Ends, Loaded
<1>7. Alone'
  BY <1>1, <1>2, <1>6 DEF Alone, WriterAt, Quiet, Ends, Threads
<1>8. SettledIsPersisted'
  <2>1. CASE Kill
    BY <2>1 DEF Kill, Ends, SettledIsPersisted
  <2>2. CASE Exit
    <3>1. ASSUME store # "policy", ~raced PROVE Quiet /\ up = "exit"
      BY <2>2, <3>1 DEF Exit, ExitsAlone, Quiet, Threads
    <3>2. ASSUME store # "policy", ~raced, root, ~failed PROVE Loaded = memory
      <4>1. Quiet /\ up = "exit"
        BY <3>1, <3>2
      <4>. QED  BY <3>2, <4>1 DEF SettledIsPersisted, Quiet
    <3>. QED
      BY <1>6, <2>2, <3>2 DEF Exit, Ends, SettledIsPersisted
  <2>. QED  BY <2>1, <2>2
<1>. QED  BY <1>3, <1>4, <1>5, <1>7, <1>8

\* Every step keeps the invariant.
LEMMA StoreNext == StoreInv /\ [Next]_vars => StoreInv'
<1>. SUFFICES ASSUME StoreInv, [Next]_vars PROVE StoreInv'
  OBVIOUS
<1>1. CASE UNCHANGED vars
  BY <1>1 DEF vars, memVars, diskVars, StoreInv, TypeOK, NothingNewer,
              StopsClean, ExitsAlone, PendingIsNewest, Alone, WriterAt,
              SettledIsPersisted, Live, Quiet, Writing, Loaded
<1>2. ASSUME NEW t \in Threads, WriteStep(t) PROVE StoreInv'
  BY <1>2, StepInv
<1>3. CASE Fire \/ MainUser
  BY <1>3, FireInv, UpdateInv, UpdateNowInv, ExitFlushInv, EndsInv DEF MainUser
<1>4. CASE Boot \/ Kill
  BY <1>4, BootInv, EndsInv
<1>. QED  BY <1>1, <1>2, <1>3, <1>4 DEF Next

-----------------------------------------------------------------------------
\* The invariant of the writer holds in every reachable state.
LEMMA StoreInvariance == Spec => []StoreInv
  BY StoreInit, StoreNext, PTL DEF Spec

\* The stores keep their types.
THEOREM StoreTypes == Spec => []TypeOK
<1>1. StoreInv => TypeOK
  BY DEF StoreInv
<1>. QED  BY <1>1, StoreInvariance, PTL

\* Once nothing is pending and nobody writes, the next start of any store
\* finds the value in force, unless both threads have written at once.
THEOREM SettledPersisted == Spec => []SettledIsPersisted
<1>1. StoreInv => SettledIsPersisted
  BY DEF StoreInv
<1>. QED  BY <1>1, StoreInvariance, PTL

\* A write that was reported as done survives every kill and failure.
THEOREM AcknowledgedDurable == Spec => []AcknowledgedIsDurable
<1>1. StoreInv => AcknowledgedIsDurable
  BY LoadedType DEF StoreInv, Alone, AcknowledgedIsDurable, TypeOK, Values
<1>. QED  BY <1>1, StoreInvariance, PTL

-----------------------------------------------------------------------------
(* The refinement.                                                         *)

\* A step of a write is a Persist of the register, or nothing to it.
LEMMA StepPersists ==
  ASSUME StoreInv, NEW t \in Threads, WriteStep(t)
  PROVE  Register!Next \/ UNCHANGED Register!vars
<1>. USE DEF StoreInv
<1>1. UNCHANGED <<store, memVars, val, raced>> /\ Writing(t)
  BY DEF WriteStep, Look, Unback, Rotate, Create, Write, Publish, Goto, Fails,
         Writing
<1>2. StoreInv' /\ Loaded \in Nat /\ Loaded' \in Nat /\ sets \in Nat
      /\ memory \in Nat /\ Loaded' <= sets
  <2>1. StoreInv'
    BY StepInv
  <2>2. Loaded' \in Values /\ Loaded' <= sets'
    <3>1. "primary" \in Names /\ "backup" \in Names
      BY DEF Names
    <3>2. \A n \in Names : disk'[n] \in Nat => disk'[n] \in Values
      BY <2>1, Marks DEF TypeOK
    <3>3. 0 \in Values /\ sets' \in Values
      BY <2>1, BoundsAssumption DEF TypeOK, Values
    <3>. QED  BY <2>1, <3>1, <3>2, <3>3 DEF Loaded, NothingNewer, Values
  <2>. QED  BY <1>1, <2>1, <2>2, LoadedType DEF TypeOK, Values, memVars
<1>3. CASE raced
  BY <1>1, <1>2, <1>3
     DEF Register!Next, Register!Spoil, memVars
<1>4. CASE ~raced
  <2>1. CASE Loaded' = Loaded
    BY <1>1, <2>1 DEF Register!vars, memVars
  <2>2. CASE Loaded' = val[t]
    <3>1. Loaded <= val[t] /\ val[t] <= memory /\ val[t] \in Nat
      BY <1>1, <1>4 DEF Alone, WriterAt, TypeOK, Values
    <3>2. up \notin {"down", "exited"}
      BY <1>1 DEF StopsClean, Quiet, Live
    <3>. QED
      BY <1>1, <1>2, <2>2, <3>1, <3>2
         DEF Register!Next, Register!Persist, Register!vars, memVars
  <2>. QED  BY <1>4, <2>1, <2>2, StepLoaded
<1>. QED  BY <1>3, <1>4

\* Every step of a store is a step of the register or a stutter.
LEMMA NextRefines ==
  ASSUME StoreInv, [Next]_vars
  PROVE  Register!Next \/ UNCHANGED Register!vars
<1>1. CASE UNCHANGED vars
  BY <1>1 DEF vars, memVars, diskVars, Register!vars, Loaded
<1>2. ASSUME NEW t \in Threads, WriteStep(t)
      PROVE  Register!Next \/ UNCHANGED Register!vars
  BY <1>2, StepPersists
<1>3. ASSUME UNCHANGED disk PROVE Loaded' = Loaded
  BY <1>3 DEF Loaded
<1>4. raced \in BOOLEAN
  BY DEF StoreInv, TypeOK
<1>5. CASE Fire
  BY <1>3, <1>4, <1>5
     DEF Fire, StartWrite, diskVars, Register!Next, Register!Idle
<1>6. CASE Update
  BY <1>3, <1>4, <1>6
     DEF Update, ScheduleWrite, Ready, NewValue, diskVars, Register!Next, Register!Set
<1>7. CASE CommitPreferences \/ UpdateBindings
  <2>1. raced' \in {raced, TRUE}
    BY <1>4, <1>7 DEF CommitPreferences, UpdateBindings, WriteNow, StartWrite
  <2>. QED
    BY <1>3, <1>7, <2>1
       DEF CommitPreferences, UpdateBindings, WriteNow, Ready, NewValue, diskVars, Register!Next,
           Register!Set
<1>8. CASE ExitFlush
  <2>1. raced' \in {raced, TRUE}
    BY <1>4, <1>8 DEF ExitFlush, WriteNow, StartWrite
  <2>. QED
    BY <1>3, <1>8, <2>1
       DEF ExitFlush, WriteNow, diskVars, Register!Next, Register!Idle
<1>9. CASE Boot
  <2>1. raced' \in {raced, TRUE}
    BY <1>4, <1>9 DEF Boot, SetRoot, StartWrite
  <2>. QED
    BY <1>3, <1>9, <2>1 DEF Boot, SetRoot, diskVars, Register!Next, Register!Start
<1>10. CASE Exit \/ Kill
  BY <1>3, <1>4, <1>10
     DEF Exit, Kill, Ends, Register!Next, Register!Stop
<1>. QED
  BY <1>1, <1>2, <1>5, <1>6, <1>7, <1>8, <1>9, <1>10 DEF Next, MainUser

\* Every store implements the durable register: what is on disk follows what
\* was set, in order, and neither a failure nor a kill takes it back.
THEOREM Refinement == Spec => IsDurableRegister
<1>1. Init => Register!Init
  BY Marks DEF Init, Register!Init, Loaded, Names
<1>2. StoreInv /\ [Next]_vars => [Register!Next]_(Register!vars)
  BY NextRefines
<1>. QED
  BY <1>1, <1>2, StoreInvariance, PTL DEF Spec, IsDurableRegister, Register!Spec
=============================================================================
