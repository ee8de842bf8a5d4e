------------------------- MODULE CaptureCacheProofs -------------------------
(***************************************************************************)
(* The safety of the capture cache, for every set of shelf ids and every   *)
(* bound.  CacheInv is inductive: each action preserves it, and most of    *)
(* the properties of CaptureCache follow from it.  The Shelf locks and the *)
(* published files have an invariant each on top of it.                    *)
(***************************************************************************)
EXTENDS CaptureCache, TLAPS

\* Taking a reference adds one to that count and to no other.
LEMMA AcquireCounts ==
  ASSUME NEW r \in Registry, NEW s \in Shelves, NEW o \in Owners
  PROVE  /\ AcquireRef(r, s, o) \in Registry
         /\ AcquireRef(r, s, o)[s][o] = r[s][o] + 1
         /\ \A x \in Shelves, p \in Owners :
              x # s \/ p # o => AcquireRef(r, s, o)[x][p] = r[x][p]
  BY DEF AcquireRef, Registry

\* Releasing one takes it back, and is ignored when there is none.
LEMMA ReleaseCounts ==
  ASSUME NEW r \in Registry, NEW s \in Shelves, NEW o \in Owners
  PROVE  /\ ReleaseRef(r, s, o) \in Registry
         /\ ReleaseRef(r, s, o)[s][o] = IF r[s][o] = 0 THEN 0 ELSE r[s][o] - 1
         /\ \A x \in Shelves, p \in Owners :
              x # s \/ p # o => ReleaseRef(r, s, o)[x][p] = r[x][p]
  <1>1. CASE r[s][o] = 0
    BY <1>1 DEF ReleaseRef
  <1>2. CASE r[s][o] # 0
    <2>1. r[s][o] \in Nat /\ r[s][o] - 1 \in Nat
      BY <1>2 DEF Registry
    <2> QED
      BY <1>2, <2>1 DEF ReleaseRef, Registry
  <1> QED
    BY <1>1, <1>2

LEMMA OwnerNames == {"Shelf", "Editor", "Drag", "Pin"} = Owners
  BY DEF Owners

\* Every position of a commit writes one of the files of an entry.
LEMMA WriteOrderFiles ==
  /\ Len(WriteOrder) = 5
  /\ \A i \in 1..5 : WriteOrder[i] \in Files
  BY DEF WriteOrder, Files

-----------------------------------------------------------------------------
LEMMA InitInv == Init => CacheInv
  BY ThreadsAssumption, NoShelfAssumption
  DEF Init, CacheInv, TypeOK, RefsCountGuards, HeldEntriesSurvive, Held,
      RevisionOfHeldEntry, IndexesAgree, CommitsAreFresh, InFlight,
      ReapsAreFinal, DownIsEmpty, Registry, NoRefs, Owners

\* Once the card's own reference is given back, a dismissal removes an entry
\* only when nobody else holds it.
LEMMA RemovesUnheld ==
  ASSUME CacheInv, NEW s \in Shelves,
         DismissRemoves(IF s \in shelfGuards THEN ReleaseRef(refs, s, "Shelf")
                                             ELSE refs, known, s)
  PROVE  s \in entries /\ s \notin editorGuards /\ pinGuards[s] = 0
           /\ dragGuards[s] = 0
  <1> DEFINE r == IF s \in shelfGuards THEN ReleaseRef(refs, s, "Shelf")
                                       ELSE refs
  <1>1. /\ r \in Registry
        /\ r[s]["Shelf"] = 0
        /\ \A x \in Shelves, p \in Owners :
             x # s \/ p # "Shelf" => r[x][p] = refs[x][p]
    BY ReleaseCounts, OwnerNames DEF CacheInv, TypeOK, RefsCountGuards
  <1>2. DismissedRefs(r, s) = r
    BY <1>1 DEF DismissedRefs, ReleaseRef
  <1>3. s \in entries
    BY DEF DismissRemoves, CacheInv, IndexesAgree
  <1>4. \A o \in Owners : ~(r[s][o] > 0)
    BY <1>2 DEF DismissRemoves, OwnersOf
  <1>5. \A o \in Owners : r[s][o] = 0
    BY <1>4, <1>1 DEF Registry
  <1>6. refs[s]["Editor"] = 0 /\ refs[s]["Pin"] = 0 /\ refs[s]["Drag"] = 0
    BY <1>5, <1>1, OwnerNames
  <1> QED
    BY <1>3, <1>6 DEF CacheInv, RefsCountGuards

\* The critical section of a dismissal, whoever runs it.
LEMMA DropInv ==
  ASSUME CacheInv, NEW t \in Threads, NEW s \in Shelves,
         NEW rest \in SUBSET Shelves,
         pc[t] \in {"pick", "dismiss"},
         DropEntry(t, s, rest),
         UNCHANGED <<editorGuards, pinGuards, dragGuards, queue, diskVars,
                     used, phase, step, calm, faults>>
  PROVE  CacheInv'
  <1> DEFINE r == IF s \in shelfGuards THEN ReleaseRef(refs, s, "Shelf")
                                       ELSE refs
  <1>1. /\ r \in Registry
        /\ r[s]["Shelf"] = 0
        /\ \A x \in Shelves, p \in Owners :
             x # s \/ p # "Shelf" => r[x][p] = refs[x][p]
    BY ReleaseCounts, OwnerNames DEF CacheInv, TypeOK, RefsCountGuards
  <1>2. DismissedRefs(r, s) = r
    BY <1>1 DEF DismissedRefs, ReleaseRef
  <1>3. refs' = r
    BY <1>2 DEF DropEntry
  <1>4. DismissRemoves(r, known, s) =>
          s \in entries /\ s \notin editorGuards /\ pinGuards[s] = 0
            /\ dragGuards[s] = 0
    BY RemovesUnheld
  <1>5. pc[t] # "reap" /\ pc'[t] \in {"reap", "pick", "idle"}
          /\ tgt'[t] \in Shelves \cup {NoShelf}
          /\ (\A u \in Threads : u # t => pc'[u] = pc[u] /\ mode'[u] = mode[u]
                /\ tgt'[u] = tgt[u] /\ todo'[u] = todo[u])
    BY DEF DropEntry, Goto, Rest, Batch, CacheInv, TypeOK
  <1>6. TypeOK'
    BY <1>1, <1>3 DEF CacheInv, TypeOK, DropEntry, Goto, Rest, Batch, diskVars
  <1>7. RefsCountGuards'
    BY <1>1, <1>3, OwnerNames DEF CacheInv, RefsCountGuards, DropEntry
  <1>8. HeldEntriesSurvive'
    BY <1>4 DEF CacheInv, HeldEntriesSurvive, Held, DropEntry
  <1>9. RevisionOfHeldEntry'
    BY <1>4, <1>5, ThreadsAssumption
    DEF CacheInv, RevisionOfHeldEntry, DropEntry
  <1>10. IndexesAgree'
    BY DEF CacheInv, IndexesAgree, DropEntry, diskVars
  <1>11. CommitsAreFresh'
    BY <1>5, ThreadsAssumption
    DEF CacheInv, CommitsAreFresh, InFlight, DropEntry
  <1>12. ReapsAreFinal'
    BY <1>4, <1>5, ThreadsAssumption
    DEF CacheInv, ReapsAreFinal, CommitsAreFresh, InFlight, IndexesAgree,
        DropEntry, Goto, Rest, Batch, TypeOK
  <1>13. DownIsEmpty'
    BY <1>5 DEF CacheInv, DownIsEmpty
  <1> QED
    BY <1>6, <1>7, <1>8, <1>9, <1>10, <1>11, <1>12, <1>13 DEF CacheInv

\* A step that takes or gives back one guard of a registered entry: the
\* counts follow, and nothing else of the invariant moves.
LEMMA GuardInv ==
  ASSUME CacheInv, NEW s \in Shelves, Guards(s)
  PROVE  CacheInv'
  <1>1. \/ OpenEditor(s) \/ CloseEditor(s) \/ OpenPin(s) \/ ClosePin(s)
        \/ DragStart(s) \/ DragEnd(s)
    BY DEF Guards
  <1>2. /\ UNCHANGED <<entries, shelfGuards, queue, diskVars, used, phase,
                       threadVars, step, calm, faults>>
        /\ MainFree
    BY <1>1 DEF OpenEditor, CloseEditor, OpenPin, ClosePin, DragStart, DragEnd
  <1>3. known' = known
    BY <1>1 DEF OpenEditor, CloseEditor, OpenPin, ClosePin, DragStart, DragEnd,
        CacheInv, IndexesAgree
  <1>4. TypeOK' /\ RefsCountGuards' /\ HeldEntriesSurvive'
    <2> USE <1>2, <1>3, OwnerNames DEF CacheInv, diskVars, threadVars
    <2> DEFINE Counted(o, n) ==
          /\ refs' \in Registry
          /\ refs'[s][o] = n
          /\ \A x \in Shelves, p \in Owners :
               x # s \/ p # o => refs'[x][p] = refs[x][p]
    <2>1. CASE OpenEditor(s)
      <3>1. Counted("Editor", refs[s]["Editor"] + 1)
        BY <2>1, AcquireCounts DEF OpenEditor, TypeOK
      <3>2. TypeOK'
        BY <2>1, <3>1 DEF OpenEditor, TypeOK
      <3>3. RefsCountGuards'
        BY <2>1, <3>1 DEF OpenEditor, TypeOK, RefsCountGuards
      <3>4. HeldEntriesSurvive'
        BY <2>1 DEF OpenEditor, TypeOK, HeldEntriesSurvive, Held
      <3> QED
        BY <3>2, <3>3, <3>4
    <2>2. CASE CloseEditor(s)
      <3>1. Counted("Editor", refs[s]["Editor"] - 1)
        BY <2>2, ReleaseCounts DEF CloseEditor, TypeOK, RefsCountGuards
      <3>2. TypeOK'
        BY <2>2, <3>1 DEF CloseEditor, TypeOK
      <3>3. RefsCountGuards'
        BY <2>2, <3>1 DEF CloseEditor, TypeOK, RefsCountGuards
      <3>4. HeldEntriesSurvive'
        BY <2>2 DEF CloseEditor, TypeOK, HeldEntriesSurvive, Held
      <3> QED
        BY <3>2, <3>3, <3>4
    <2>3. CASE OpenPin(s)
      <3>1. Counted("Pin", refs[s]["Pin"] + 1)
        BY <2>3, AcquireCounts DEF OpenPin, TypeOK
      <3>2. TypeOK'
        BY <2>3, <3>1 DEF OpenPin, TypeOK
      <3>3. RefsCountGuards'
        BY <2>3, <3>1 DEF OpenPin, TypeOK, RefsCountGuards
      <3>4. HeldEntriesSurvive'
        BY <2>3 DEF OpenPin, TypeOK, HeldEntriesSurvive, Held
      <3> QED
        BY <3>2, <3>3, <3>4
    <2>4. CASE ClosePin(s)
      <3>1. Counted("Pin", refs[s]["Pin"] - 1)
        <4>1. refs \in Registry /\ refs[s]["Pin"] # 0
                /\ refs' = ReleaseRef(refs, s, "Pin")
          BY <2>4 DEF ClosePin, TypeOK, RefsCountGuards
        <4> QED
          BY <4>1, ReleaseCounts
      <3>2. TypeOK'
        BY <2>4, <3>1 DEF ClosePin, TypeOK
      <3>3. RefsCountGuards'
        BY <2>4, <3>1 DEF ClosePin, TypeOK, RefsCountGuards
      <3>4. HeldEntriesSurvive'
        BY <2>4 DEF ClosePin, TypeOK, HeldEntriesSurvive, Held
      <3> QED
        BY <3>2, <3>3, <3>4
    <2>5. CASE DragStart(s)
      <3>1. Counted("Drag", refs[s]["Drag"] + 1)
        BY <2>5, AcquireCounts DEF DragStart, TypeOK
      <3>2. TypeOK'
        BY <2>5, <3>1 DEF DragStart, TypeOK
      <3>3. RefsCountGuards'
        BY <2>5, <3>1 DEF DragStart, TypeOK, RefsCountGuards
      <3>4. HeldEntriesSurvive'
        BY <2>5 DEF DragStart, TypeOK, HeldEntriesSurvive, Held
      <3> QED
        BY <3>2, <3>3, <3>4
    <2>6. CASE DragEnd(s)
      <3>1. Counted("Drag", refs[s]["Drag"] - 1)
        <4>1. refs \in Registry /\ refs[s]["Drag"] # 0
                /\ refs' = ReleaseRef(refs, s, "Drag")
          BY <2>6 DEF DragEnd, TypeOK, RefsCountGuards
        <4> QED
          BY <4>1, ReleaseCounts
      <3>2. TypeOK'
        BY <2>6, <3>1 DEF DragEnd, TypeOK
      <3>3. RefsCountGuards'
        BY <2>6, <3>1 DEF DragEnd, TypeOK, RefsCountGuards
      <3>4. HeldEntriesSurvive'
        BY <2>6 DEF DragEnd, TypeOK, HeldEntriesSurvive, Held
      <3> QED
        BY <3>2, <3>3, <3>4
    <2> QED
      BY <1>1, <2>1, <2>2, <2>3, <2>4, <2>5, <2>6
  <1>5. RevisionOfHeldEntry' /\ IndexesAgree' /\ CommitsAreFresh'
          /\ ReapsAreFinal' /\ DownIsEmpty'
    BY <1>2, <1>3
    DEF CacheInv, RevisionOfHeldEntry, IndexesAgree, CommitsAreFresh, InFlight,
        ReapsAreFinal, DownIsEmpty, MainFree, diskVars, threadVars
  <1> QED
    BY <1>4, <1>5 DEF CacheInv

-----------------------------------------------------------------------------
LEMMA ProcessInv ==
  ASSUME CacheInv, Crash \/ Boot \/ Rehydrate
  PROVE  CacheInv'
  <1>1. CASE Crash
    <2>1. refs' \in Registry
      BY <1>1 DEF Crash, NoRefs, Registry
    <2>5. /\ pinGuards' \in [Shelves -> Nat] /\ dragGuards' \in [Shelves -> Nat]
          /\ pc' = [t \in Threads |-> "idle"]
          /\ mode' = [t \in Threads |-> "none"]
          /\ tgt' \in [Threads -> Shelves \cup {NoShelf}]
          /\ todo' \in [Threads -> SUBSET Shelves]
          /\ step' \in 0..5 /\ faults' \in Nat
      BY <1>1 DEF Crash, Fault, CacheInv, TypeOK
    <2>2. TypeOK'
      BY <1>1, <2>1, <2>5 DEF Crash, CacheInv, TypeOK, diskVars
    <2>3. RefsCountGuards' /\ HeldEntriesSurvive'
      BY <1>1 DEF Crash, NoRefs, Owners, RefsCountGuards, HeldEntriesSurvive,
         Held
    <2>4. RevisionOfHeldEntry' /\ IndexesAgree' /\ CommitsAreFresh'
            /\ ReapsAreFinal' /\ DownIsEmpty'
      BY <1>1, ThreadsAssumption
      DEF Crash, CacheInv, RevisionOfHeldEntry, IndexesAgree, CommitsAreFresh,
          InFlight, ReapsAreFinal, DownIsEmpty, diskVars
    <2> QED
      BY <2>2, <2>3, <2>4 DEF CacheInv
  <1>2. CASE Boot
    <2> DEFINE durable == {s \in dirs : HasManifest(disk[s])}
    <2>1. durable \subseteq Shelves /\ durable \subseteq used
      BY DEF CacheInv, TypeOK, IndexesAgree
    <2>2. refs' \in Registry
      BY <1>2 DEF Boot, Registry
    <2>3. TypeOK'
      BY <1>2, <2>1, <2>2 DEF Boot, CacheInv, TypeOK
    <2>4. RefsCountGuards' /\ HeldEntriesSurvive'
      BY <1>2 DEF Boot, CacheInv, RefsCountGuards, HeldEntriesSurvive, Held,
         DownIsEmpty, Owners, TypeOK
    <2>5. \A t \in Threads : pc'[t] = "idle"
      BY <1>2 DEF Boot, CacheInv, DownIsEmpty
    <2>6. RevisionOfHeldEntry' /\ IndexesAgree' /\ CommitsAreFresh'
            /\ ReapsAreFinal' /\ DownIsEmpty'
      BY <1>2, <2>1, <2>5, ThreadsAssumption
      DEF Boot, CacheInv, RevisionOfHeldEntry, IndexesAgree, CommitsAreFresh,
          InFlight, ReapsAreFinal, DownIsEmpty
    <2> QED
      BY <2>3, <2>4, <2>6 DEF CacheInv
  <1>3. CASE Rehydrate
    BY <1>3
    DEF Rehydrate, CacheInv, TypeOK, RefsCountGuards, HeldEntriesSurvive,
        Held, RevisionOfHeldEntry, IndexesAgree, CommitsAreFresh, InFlight,
        ReapsAreFinal, DownIsEmpty, memVars, diskVars, threadVars
  <1> QED
    BY <1>1, <1>2, <1>3

-----------------------------------------------------------------------------
\* The commit: its id is fresh until CommitRegister makes it an entry.
LEMMA CommitInv ==
  ASSUME CacheInv, Commit
  PROVE  CacheInv'
  <1> USE ThreadsAssumption DEF CacheInv
  <1>1. ASSUME NEW s \in Shelves, CommitBegin(s) PROVE CacheInv'
    <2>1. TypeOK'
      BY <1>1 DEF CommitBegin, MainFree, Goto, TypeOK, memVars
    <2>2. s \notin entries
      BY <1>1 DEF CommitBegin, IndexesAgree
    <2>3. RefsCountGuards' /\ HeldEntriesSurvive' /\ IndexesAgree'
      BY <1>1 DEF CommitBegin, RefsCountGuards, HeldEntriesSurvive, Held,
         IndexesAgree, memVars
    <2>4. RevisionOfHeldEntry' /\ CommitsAreFresh' /\ DownIsEmpty'
      BY <1>1, <2>2 DEF CommitBegin, MainFree, Goto, TypeOK, memVars,
         RevisionOfHeldEntry, CommitsAreFresh, InFlight, DownIsEmpty
    <2>5. ReapsAreFinal'
      BY <1>1, <2>2 DEF CommitBegin, MainFree, Goto, TypeOK, memVars,
         ReapsAreFinal, InFlight
    <2> QED
      BY <2>1, <2>3, <2>4, <2>5
  <1>2. CASE CommitWrite
    <2>1. tgt["main"] \in Shelves /\ step \in 1..5 /\ tgt["main"] \in used
      BY <1>2 DEF CommitWrite, CommitsAreFresh, TypeOK
    <2>2. WriteOrder[step] \in Files
      BY <2>1, WriteOrderFiles
    <2>3. /\ step' \in 0..5
          /\ \/ pc' = pc /\ step' # 0
             \/ pc' = [pc EXCEPT !["main"] = "size"]
          /\ tgt' \in [Threads -> Shelves \cup {NoShelf}]
          /\ tgt'["main"] = tgt["main"]
          /\ \A t \in Threads : t # "main" => tgt'[t] = tgt[t]
                                                /\ mode'[t] = mode[t]
          /\ mode'["main"] \in {mode["main"], "none"}
      BY <1>2, <2>1, WriteOrderFiles DEF CommitWrite, Goto, threadVars, TypeOK
    <2>4. TypeOK'
      BY <1>2, <2>1, <2>2, WriteOrderFiles
      DEF CommitWrite, Goto, threadVars, TypeOK, memVars
    <2>5. RefsCountGuards' /\ HeldEntriesSurvive' /\ IndexesAgree'
      BY <1>2, <2>1 DEF CommitWrite, RefsCountGuards, HeldEntriesSurvive, Held,
         IndexesAgree, memVars
    <2>6. RevisionOfHeldEntry' /\ CommitsAreFresh' /\ DownIsEmpty'
      BY <1>2, <2>1, <2>3 DEF CommitWrite, TypeOK, memVars,
         RevisionOfHeldEntry, CommitsAreFresh, InFlight, DownIsEmpty
    <2>7. ReapsAreFinal'
      BY <1>2, <2>1, <2>3 DEF CommitWrite, TypeOK, memVars,
         ReapsAreFinal, InFlight
    <2> QED
      BY <2>4, <2>5, <2>6, <2>7
  <1>3. CASE CommitWriteFails
    BY <1>3 DEF CommitWriteFails, Fault, Goto, TypeOK, RefsCountGuards,
       HeldEntriesSurvive, Held, RevisionOfHeldEntry, IndexesAgree,
       CommitsAreFresh, InFlight, ReapsAreFinal, DownIsEmpty, memVars, diskVars
  <1>4. CASE CommitSize
    <2>1. \/ Goto("main", "register", "none", tgt["main"], {})
          \/ Goto("main", "idle", "none", NoShelf, {})
      BY <1>4 DEF CommitSize, Rest
    <2>2. TypeOK'
      BY <1>4, <2>1 DEF CommitSize, Fault, Goto, TypeOK, memVars, diskVars
    <2>3. RefsCountGuards' /\ HeldEntriesSurvive' /\ IndexesAgree'
      BY <1>4 DEF CommitSize, RefsCountGuards, HeldEntriesSurvive, Held,
         IndexesAgree, memVars, diskVars
    <2>4. RevisionOfHeldEntry' /\ CommitsAreFresh' /\ DownIsEmpty'
            /\ ReapsAreFinal'
      BY <1>4, <2>1 DEF CommitSize, Goto, TypeOK, RevisionOfHeldEntry,
         CommitsAreFresh, InFlight, ReapsAreFinal, DownIsEmpty, memVars,
         diskVars
    <2> QED
      BY <2>2, <2>3, <2>4
  <1>5. CASE CommitRegister
    <2> DEFINE s == tgt["main"]
    <2>1. s \in Shelves /\ s \in used /\ s \notin entries /\ InFlight(s)
      BY <1>5 DEF CommitRegister, CommitsAreFresh, InFlight
    <2>2. s \notin shelfGuards
      BY <2>1 DEF IndexesAgree
    <2>3. /\ refs' \in Registry
          /\ refs'[s]["Shelf"] = refs[s]["Shelf"] + 1
          /\ \A x \in Shelves, p \in Owners :
               x # s \/ p # "Shelf" => refs'[x][p] = refs[x][p]
      BY <1>5, <2>1, AcquireCounts, OwnerNames DEF CommitRegister, TypeOK
    <2>7. TypeOK'
      BY <1>5, <2>1, <2>3 DEF CommitRegister, Goto, TypeOK, diskVars
    <2>8. RefsCountGuards'
      BY <1>5, <2>2, <2>3, OwnerNames DEF CommitRegister, RefsCountGuards
    <2>4. HeldEntriesSurvive' /\ IndexesAgree'
      BY <1>5, <2>1 DEF CommitRegister, HeldEntriesSurvive, Held, IndexesAgree,
         diskVars
    <2>5. RevisionOfHeldEntry' /\ CommitsAreFresh' /\ DownIsEmpty'
      BY <1>5, <2>1 DEF CommitRegister, Goto, TypeOK, RevisionOfHeldEntry,
         CommitsAreFresh, InFlight, DownIsEmpty
    <2>6. ReapsAreFinal'
      BY <1>5, <2>1 DEF CommitRegister, Goto, TypeOK, ReapsAreFinal, InFlight
    <2> QED
      BY <2>4, <2>5, <2>6, <2>7, <2>8
  <1>6. CASE CommitEnqueue
    BY <1>6 DEF CommitEnqueue, Rest, Goto, TypeOK, RefsCountGuards,
       HeldEntriesSurvive, Held, RevisionOfHeldEntry, IndexesAgree,
       CommitsAreFresh, InFlight, ReapsAreFinal, DownIsEmpty, memVars, diskVars
  <1> QED
    BY <1>1, <1>2, <1>3, <1>4, <1>5, <1>6 DEF Commit

-----------------------------------------------------------------------------
LEMMA RevisionInv ==
  ASSUME CacheInv, Revision
  PROVE  CacheInv'
  <1> USE ThreadsAssumption DEF CacheInv
  <1>1. ASSUME NEW s \in Shelves, RevisionBegin(s) PROVE CacheInv'
    <2>1. TypeOK'
      BY <1>1 DEF RevisionBegin, MainFree, Goto, TypeOK, memVars
    <2>2. RefsCountGuards' /\ HeldEntriesSurvive' /\ IndexesAgree'
      BY <1>1 DEF RevisionBegin, RefsCountGuards, HeldEntriesSurvive, Held,
         IndexesAgree, memVars
    <2>3. RevisionOfHeldEntry' /\ CommitsAreFresh' /\ ReapsAreFinal'
            /\ DownIsEmpty'
      BY <1>1 DEF RevisionBegin, MainFree, Goto, TypeOK, memVars, IndexesAgree,
         RevisionOfHeldEntry, CommitsAreFresh, InFlight, ReapsAreFinal,
         DownIsEmpty
    <2> QED
      BY <2>1, <2>2, <2>3
  <1>2. CASE RevisionTmp
    BY <1>2 DEF RevisionTmp, TypeOK, RefsCountGuards, HeldEntriesSurvive, Held,
       RevisionOfHeldEntry, IndexesAgree, CommitsAreFresh, InFlight,
       ReapsAreFinal, DownIsEmpty, memVars, threadVars, Files
  <1>3. CASE RevisionRename
    <2>1. disk' \in [Shelves -> SUBSET Files]
      BY <1>3 DEF RevisionRename, TypeOK, Files
    <2> QED
      BY <1>3, <2>1 DEF RevisionRename, Rest, Goto, TypeOK, RefsCountGuards,
         HeldEntriesSurvive, Held, RevisionOfHeldEntry, IndexesAgree,
         CommitsAreFresh, InFlight, ReapsAreFinal, DownIsEmpty, memVars
  <1> QED
    BY <1>1, <1>2, <1>3 DEF Revision

\* An update of the metadata touches a known directory and no index.
LEMMA MetadataInv ==
  ASSUME CacheInv, Metadata
  PROVE  CacheInv'
  <1> USE ThreadsAssumption DEF CacheInv
  <1>1. ASSUME NEW s \in Shelves, UpdateMetadata(s) PROVE CacheInv'
    <2>1. disk' \in [Shelves -> SUBSET Files]
      BY <1>1 DEF UpdateMetadata, TypeOK, Files
    <2>2. TypeOK'
      BY <1>1, <2>1 DEF UpdateMetadata, MainFree, Goto, TypeOK, memVars
    <2>3. RefsCountGuards' /\ HeldEntriesSurvive' /\ IndexesAgree'
      BY <1>1 DEF UpdateMetadata, RefsCountGuards, HeldEntriesSurvive, Held,
         IndexesAgree, memVars
    <2>4. RevisionOfHeldEntry' /\ CommitsAreFresh' /\ ReapsAreFinal'
            /\ DownIsEmpty'
      BY <1>1 DEF UpdateMetadata, MainFree, Goto, TypeOK, memVars, IndexesAgree,
         RevisionOfHeldEntry, CommitsAreFresh, InFlight, ReapsAreFinal,
         DownIsEmpty
    <2> QED
      BY <2>2, <2>3, <2>4
  <1>2. CASE RefreshManifest
    <2>1. disk' \in [Shelves -> SUBSET Files] /\ faults' \in Nat
      BY <1>2 DEF RefreshManifest, Fault, TypeOK, Files
    <2> QED
      BY <1>2, <2>1 DEF RefreshManifest, Rest, Goto, TypeOK, RefsCountGuards,
         HeldEntriesSurvive, Held, RevisionOfHeldEntry, IndexesAgree,
         CommitsAreFresh, InFlight, ReapsAreFinal, DownIsEmpty, memVars
  <1> QED
    BY <1>1, <1>2 DEF Metadata

-----------------------------------------------------------------------------
\* The steps that start a batch.  Ids only enter a batch from the sets the
\* cache, the queue and the disk know.
LEMMA StartInv ==
  ASSUME CacheInv,
         \/ \E s \in Shelves : DismissCard(s)
         \/ ClearUnlocked \/ SweepBegin \/ RecoveryBegin
         \/ \E t \in Threads : Tick(t)
  PROVE  CacheInv'
  <1> USE ThreadsAssumption DEF CacheInv
  <1>1. PICK t \in Threads :
          /\ pc[t] = "idle" /\ phase # "down"
          /\ \E m \in {"drop", "evict", "debris"}, d \in SUBSET Shelves :
               Batch(t, m, d)
          /\ queue' \subseteq queue
          /\ calm' \in BOOLEAN
          /\ UNCHANGED <<memVars, diskVars, used, phase, step, faults>>
    <2>1. CASE \E s \in Shelves : DismissCard(s)
      BY <2>1 DEF DismissCard, MainFree, TypeOK
    <2>2. CASE ClearUnlocked
      BY <2>2 DEF ClearUnlocked, MainFree, TypeOK
    <2>3. CASE SweepBegin
      BY <2>3 DEF SweepBegin, WithinLowWater, TypeOK
    <2>4. CASE RecoveryBegin
      <3>1. phase # "down"
        BY <2>4 DEF RecoveryBegin, DownIsEmpty
      <3> QED
        BY <2>4, <3>1 DEF RecoveryBegin, TypeOK
    <2>5. CASE \E t \in Threads : Tick(t)
      BY <2>5 DEF Tick, TypeOK
    <2> QED
      BY <2>1, <2>2, <2>3, <2>4, <2>5
  <1>2. PICK m \in {"drop", "evict", "debris"}, d \in SUBSET Shelves :
          Batch(t, m, d)
    BY <1>1
  <1>3. TypeOK'
    BY <1>1, <1>2 DEF Batch, Goto, TypeOK, memVars, diskVars
  <1>4. RefsCountGuards' /\ HeldEntriesSurvive' /\ IndexesAgree'
    BY <1>1 DEF RefsCountGuards, HeldEntriesSurvive, Held, IndexesAgree,
       memVars, diskVars
  <1>5. RevisionOfHeldEntry' /\ CommitsAreFresh' /\ ReapsAreFinal'
          /\ DownIsEmpty'
    BY <1>1, <1>2 DEF Batch, Goto, TypeOK, memVars, RevisionOfHeldEntry,
       CommitsAreFresh, InFlight, ReapsAreFinal, DownIsEmpty
  <1> QED
    BY <1>3, <1>4, <1>5

\* The steps of a batch that leave the cache alone: t stays where it is or
\* moves to another control point of its batch.
Walks(t) ==
  \/ UNCHANGED threadVars
  \/ Rest(t)
  \/ \E m \in {"none", "drop", "evict", "quota", "debris", "abort"},
        d \in SUBSET Shelves :
       \/ Batch(t, m, d)
       \/ \E x \in Shelves : Goto(t, "dismiss", m, x, d)
  \/ \E x \in Shelves, d \in SUBSET Shelves : Goto(t, "reap", "debris", x, d)

LEMMA WalkInv ==
  ASSUME CacheInv, NEW t \in Threads,
         pc[t] \in {"pick", "reap"},
         Walks(t),
         disk' \in [Shelves -> SUBSET Files],
         dirs' \subseteq dirs, torn' \subseteq Shelves,
         faults' \in Nat,
         UNCHANGED <<memVars, queue, used, phase, step, calm>>
  PROVE  CacheInv'
  <1> USE ThreadsAssumption DEF CacheInv
  <1>1. /\ pc' \in [Threads -> {"idle", "pick", "dismiss", "reap", "write",
                                "size", "register", "enqueue", "revision",
                                "metadata"}]
        /\ mode' \in [Threads -> {"none", "drop", "evict", "quota", "debris",
                                  "abort"}]
        /\ tgt' \in [Threads -> Shelves \cup {NoShelf}]
        /\ todo' \in [Threads -> SUBSET Shelves]
    BY DEF Walks, Rest, Batch, Goto, TypeOK, threadVars
  <1>2. /\ \A u \in Threads :
             u # t => pc'[u] = pc[u] /\ mode'[u] = mode[u] /\ tgt'[u] = tgt[u]
        /\ pc'[t] \in {"idle", "pick", "dismiss", "reap"}
        /\ pc'[t] \in {"dismiss", "reap"} =>
             \/ tgt'[t] = tgt[t] /\ mode'[t] = mode[t] /\ pc'[t] = pc[t]
             \/ tgt'[t] \in Shelves /\ (pc'[t] = "reap" => mode'[t] = "debris")
    BY DEF Walks, Rest, Batch, Goto, TypeOK, threadVars
  <1>3. TypeOK'
    BY <1>1 DEF TypeOK, memVars
  <1>4. RefsCountGuards' /\ HeldEntriesSurvive' /\ IndexesAgree'
    BY DEF RefsCountGuards, HeldEntriesSurvive, Held, IndexesAgree, memVars
  <1>5. RevisionOfHeldEntry' /\ CommitsAreFresh'
    BY <1>2 DEF memVars, RevisionOfHeldEntry, CommitsAreFresh, InFlight
  <1>6. ReapsAreFinal'
    BY <1>2 DEF memVars, ReapsAreFinal, InFlight
  <1>7. DownIsEmpty'
    BY DEF memVars, DownIsEmpty
  <1> QED
    BY <1>3, <1>4, <1>5, <1>6, <1>7

LEMMA BatchesInv ==
  ASSUME CacheInv, NEW t \in Threads, Batches(t)
  PROVE  CacheInv'
  <1> USE DEF CacheInv
  <1>1. ASSUME NEW s \in Shelves, EvictCheck(t, s) PROVE CacheInv'
    <2>1. Walks(t)
      BY <1>1 DEF EvictCheck, Walks, TypeOK
    <2> QED
      BY <1>1, <2>1, WalkInv DEF EvictCheck, TypeOK, diskVars
  <1>2. ASSUME NEW s \in Shelves, QuotaPick(t, s) PROVE CacheInv'
    <2>1. Walks(t)
      BY <1>2 DEF QuotaPick, Walks, TypeOK
    <2> QED
      BY <1>2, <2>1, WalkInv DEF QuotaPick, TypeOK, diskVars
  <1>3. CASE QuotaEnd(t)
    <2>1. Walks(t)
      BY <1>3 DEF QuotaEnd, Walks
    <2> QED
      BY <1>3, <2>1, WalkInv DEF QuotaEnd, TypeOK, diskVars
  <1>4. ASSUME NEW s \in Shelves, DropNext(t, s) PROVE CacheInv'
    <2>1. todo[t] \ {s} \in SUBSET Shelves
      BY DEF TypeOK
    <2> QED
      BY <1>4, <2>1, DropInv DEF DropNext
  <1>5. CASE DismissPicked(t)
    <2>1. tgt[t] \in Shelves /\ todo[t] \in SUBSET Shelves
      BY <1>5 DEF DismissPicked, ReapsAreFinal, TypeOK
    <2> QED
      BY <1>5, <2>1, DropInv DEF DismissPicked
  <1>6. ASSUME NEW s \in Shelves, DebrisInspect(t, s) PROVE CacheInv'
    <2>1. Walks(t)
      BY <1>6 DEF DebrisInspect, Walks, TypeOK
    <2>2. disk' \in [Shelves -> SUBSET Files]
      BY <1>6 DEF DebrisInspect, Healed, TypeOK
    <2> QED
      BY <1>6, <2>1, <2>2, WalkInv DEF DebrisInspect, TypeOK
  <1>7. CASE ReapFile(t)
    <2>1. tgt[t] \in Shelves /\ Walks(t)
      BY <1>7 DEF ReapFile, ReapsAreFinal, Walks
    <2>2. disk' \in [Shelves -> SUBSET Files] /\ torn' \subseteq Shelves
      BY <1>7, <2>1 DEF ReapFile, TypeOK
    <2> QED
      BY <1>7, <2>1, <2>2, WalkInv DEF ReapFile, TypeOK
  <1>8. CASE ReapEnd(t)
    <2>1. Walks(t)
      BY <1>8 DEF ReapEnd, Walks, TypeOK
    <2>2. dirs' \subseteq dirs /\ faults' \in Nat
      BY <1>8 DEF ReapEnd, Fault, TypeOK
    <2> QED
      BY <1>8, <2>1, <2>2, WalkInv DEF ReapEnd, TypeOK
  <1>9. CASE BatchEnd(t)
    <2>1. Walks(t)
      BY <1>9 DEF BatchEnd, Walks, TypeOK
    <2> QED
      BY <1>9, <2>1, WalkInv DEF BatchEnd, TypeOK, diskVars
  <1> QED
    BY <1>1, <1>2, <1>3, <1>4, <1>5, <1>6, <1>7, <1>8, <1>9 DEF Batches

-----------------------------------------------------------------------------
LEMMA StepInv == CacheInv /\ [Next]_vars => CacheInv'
  <1> SUFFICES ASSUME CacheInv, [Next]_vars PROVE CacheInv'
    OBVIOUS
  <1>1. CASE UNCHANGED vars
    BY <1>1 DEF vars, memVars, diskVars, threadVars, CacheInv, TypeOK,
       RefsCountGuards, HeldEntriesSurvive, Held, RevisionOfHeldEntry,
       IndexesAgree, CommitsAreFresh, InFlight, ReapsAreFinal, DownIsEmpty
  <1>2. CASE Next
    BY <1>2, ProcessInv, CommitInv, RevisionInv, MetadataInv, GuardInv,
       StartInv, BatchesInv DEF Next
  <1> QED
    BY <1>1, <1>2

\* The strengthened invariant holds in every reachable state.
THEOREM Invariance == Spec => []CacheInv
  BY InitInv, StepInv, PTL DEF Spec

\* Type correctness, for any number of shelf ids and any bounds.
THEOREM TypeCorrect == Spec => []TypeOK
  <1>1. CacheInv => TypeOK
    BY DEF CacheInv
  <1> QED
    BY <1>1, Invariance, PTL

\* The registry of locks.rs counts exactly the live guards of the cache.
THEOREM CountsAreExact == Spec => []RefsCountGuards
  <1>1. CacheInv => RefsCountGuards
    BY DEF CacheInv
  <1> QED
    BY <1>1, Invariance, PTL

\* No dismissal, eviction, clear or sweep drops an entry that an editor, a
\* pin or a drag holds, although the check and the dismissal of an eviction
\* are two critical sections.
THEOREM HeldNeverDropped == Spec => []HeldEntriesSurvive
  <1>1. CacheInv => HeldEntriesSurvive
    BY DEF CacheInv
  <1> QED
    BY <1>1, Invariance, PTL

\* A directory being removed on account of a dismissal, an eviction or an
\* aborted commit is no entry's and nobody's.
THEOREM ReapsUnowned == Spec => []OnlyUnownedAreReaped
  <1>1. CacheInv => OnlyUnownedAreReaped
    BY DEF CacheInv, OnlyUnownedAreReaped, ReapsAreFinal, Removing,
       HeldEntriesSurvive
  <1> QED
    BY <1>1, Invariance, PTL

\* A revision sidecar is only written into a live entry the editor holds.
THEOREM RevisionsAreHeld == Spec => []RevisionOfHeldEntry
  <1>1. CacheInv => RevisionOfHeldEntry
    BY DEF CacheInv
  <1> QED
    BY <1>1, Invariance, PTL

\* A step takes the pixels of a registered entry only as a removal that the
\* debris pass decided: every other removal is of a directory without entry,
\* a commit only adds files and a revision only replaces its sidecar.
LEMMA SparesStep ==
  ASSUME CacheInv, [Next]_vars, NEW s \in entries,
         "capture.png" \in disk[s], "capture.png" \notin disk'[s]
  PROVE  \E t \in Threads : Removing(t, s) /\ mode[t] = "debris"
  <1> USE DEF CacheInv
  <1>1. s \in Shelves /\ phase # "down" /\ disk' # disk
    BY DEF TypeOK, DownIsEmpty
  <1>2. PICK t \in Threads : ReapFile(t)
    <2>1. ~(Crash \/ Boot \/ Rehydrate)
      BY <1>1 DEF Crash, Boot, Rehydrate, diskVars
    <2>2. ~Commit
      <3>1. ~CommitWrite
        <4>1. CommitWrite => disk[s] \subseteq disk'[s]
          <5> SUFFICES ASSUME CommitWrite PROVE disk[s] \subseteq disk'[s]
            OBVIOUS
          <5>1. disk' = [disk EXCEPT ![tgt["main"]] =
                           @ \cup {WriteOrder[step]}]
            BY DEF CommitWrite
          <5> QED
            BY <5>1, <1>1 DEF TypeOK
        <4> QED
          BY <4>1
      <3>2. ~(CommitWriteFails \/ CommitSize \/ CommitRegister \/ CommitEnqueue)
        BY <1>1 DEF CommitWriteFails, CommitSize, CommitRegister, CommitEnqueue,
           diskVars
      <3> QED
        BY <1>1, <3>1, <3>2 DEF Commit, CommitBegin
    <2>3. ~Revision
      BY <1>1 DEF Revision, RevisionBegin, RevisionTmp, RevisionRename, TypeOK
    <2>9. ~Metadata
      BY <1>1 DEF Metadata, UpdateMetadata, RefreshManifest, TypeOK
    <2>4. \A x \in Shelves : ~(Guards(x) \/ DismissCard(x))
      BY <1>1 DEF Guards, OpenEditor, CloseEditor, OpenPin, ClosePin,
         DragStart, DragEnd, DismissCard, diskVars
    <2>5. ~(ClearUnlocked \/ SweepBegin \/ RecoveryBegin)
      BY <1>1 DEF ClearUnlocked, SweepBegin, RecoveryBegin, diskVars
    <2>6. \A t \in Threads :
            ~(Tick(t) \/ QuotaEnd(t) \/ DismissPicked(t) \/ ReapEnd(t)
                \/ BatchEnd(t))
      BY <1>1 DEF Tick, QuotaEnd, DismissPicked, ReapEnd, BatchEnd, diskVars
    <2>7. \A t \in Threads, x \in Shelves :
            ~(EvictCheck(t, x) \/ QuotaPick(t, x) \/ DropNext(t, x)
                \/ DebrisInspect(t, x))
      BY <1>1 DEF EvictCheck, QuotaPick, DropNext, DebrisInspect, Healed,
         diskVars, TypeOK
    <2>8. Next
      BY <1>1 DEF vars, diskVars
    <2> QED
      BY <2>1, <2>2, <2>3, <2>4, <2>5, <2>6, <2>7, <2>8, <2>9
      DEF Next, Batches
  <1>3. tgt[t] = s
    BY <1>1, <1>2 DEF ReapFile, TypeOK, ReapsAreFinal
  <1> QED
    BY <1>2, <1>3 DEF ReapFile, Removing, ReapsAreFinal

THEOREM EvictionSpares == Spec => EvictionSparesRegistered
  <1>1. CacheInv /\ [Next]_vars =>
          [\A s \in entries :
             "capture.png" \in disk[s] /\ "capture.png" \notin disk'[s] =>
               \E t \in Threads : Removing(t, s) /\ mode[t] = "debris"]_vars
    BY SparesStep
  <1> QED
    BY <1>1, Invariance, PTL DEF Spec, EvictionSparesRegistered

-----------------------------------------------------------------------------
(* The Shelf locks.                                                        *)

\* A thread is in the middle of a dismissal batch, or has none.
DropsAreBatches ==
  \A t \in Threads : mode[t] = "drop" => pc[t] \in {"pick", "reap"}

ShelfLocksInv == NoShelfLockLeaks /\ DropsAreBatches

\* A card whose lock is accounted for: shown, about to be, or on its way out.
Accounted(s) ==
  \/ s \in queue
  \/ pc["main"] = "enqueue" /\ tgt["main"] = s
  \/ \E t \in Threads : mode[t] = "drop" /\ s \in todo[t]


LEMMA LeaksAccounted ==
  NoShelfLockLeaks <=> (phase = "running" => \A s \in shelfGuards : Accounted(s))
  BY DEF NoShelfLockLeaks, Accounted

\* A step of one thread leaves every lock accounted for, when it takes cards
\* off the queue only into its own batch, and out of its batch only cards
\* whose lock is gone.
LEMMA LocksKept ==
  ASSUME CacheInv, ShelfLocksInv, NEW t \in Threads,
         phase' = phase, shelfGuards' \subseteq shelfGuards,
         \A u \in Threads \ {t} : /\ pc'[u] = pc[u] /\ mode'[u] = mode[u]
                                  /\ tgt'[u] = tgt[u] /\ todo'[u] = todo[u],
         \A s \in queue \cap shelfGuards' :
           s \in queue' \/ (mode'[t] = "drop" /\ s \in todo'[t]),
         mode[t] = "drop" =>
           \A s \in todo[t] \cap shelfGuards' : mode'[t] = "drop" /\ s \in todo'[t],
         mode'[t] = "drop" => pc'[t] \in {"pick", "reap"},
         t = "main" => pc[t] # "enqueue"
  PROVE  ShelfLocksInv'
  <1>1. DropsAreBatches'
    BY DEF ShelfLocksInv, DropsAreBatches
  <1>2. ASSUME phase = "running", NEW s \in shelfGuards' PROVE Accounted(s)'
    <2>1. Accounted(s)
      BY <1>2, LeaksAccounted DEF ShelfLocksInv
    <2>2. CASE s \in queue
      BY <1>2, <2>2 DEF Accounted
    <2>3. CASE pc["main"] = "enqueue" /\ tgt["main"] = s
      BY <2>3, ThreadsAssumption DEF Accounted
    <2>4. CASE \E u \in Threads : mode[u] = "drop" /\ s \in todo[u]
      <3>1. PICK u \in Threads : mode[u] = "drop" /\ s \in todo[u]
        BY <2>4
      <3>2. CASE u = t
        BY <1>2, <3>1, <3>2 DEF Accounted
      <3>3. CASE u # t
        BY <3>1, <3>3 DEF Accounted
      <3> QED
        BY <3>2, <3>3
    <2> QED
      BY <2>1, <2>2, <2>3, <2>4 DEF Accounted
  <1> QED
    BY <1>1, <1>2 DEF ShelfLocksInv, NoShelfLockLeaks, Accounted

\* The steps of the main thread outside any batch.
LEMMA MainLocks ==
  ASSUME CacheInv, ShelfLocksInv,
         \/ Commit \/ Revision \/ Metadata
         \/ \E s \in Shelves : Guards(s)
  PROVE  ShelfLocksInv'
  <1> USE ThreadsAssumption DEF CacheInv
  <1>1. CASE CommitRegister
    <2>1. PICK s \in Shelves : s = tgt["main"]
      BY <1>1 DEF CommitRegister, CommitsAreFresh
    <2>2. /\ shelfGuards' = shelfGuards \cup {s} /\ queue' = queue /\ phase' = phase
          /\ pc'["main"] = "enqueue" /\ tgt'["main"] = s /\ mode'["main"] = "none"
          /\ mode["main"] # "drop"
          /\ \A u \in Threads \ {"main"} : /\ pc'[u] = pc[u] /\ mode'[u] = mode[u]
                                           /\ todo'[u] = todo[u]
      BY <1>1, <2>1 DEF CommitRegister, Goto, TypeOK, ShelfLocksInv, DropsAreBatches
    <2>3. DropsAreBatches'
      BY <2>2 DEF ShelfLocksInv, DropsAreBatches
    <2>4. ASSUME phase = "running", NEW x \in shelfGuards' PROVE Accounted(x)'
      <3>1. CASE x = s
        BY <2>2, <3>1 DEF Accounted
      <3>2. CASE x # s
        <4>1. Accounted(x)
          BY <2>2, <2>4, <3>2, LeaksAccounted DEF ShelfLocksInv
        <4>2. ~(pc["main"] = "enqueue")
          BY <1>1 DEF CommitRegister
        <4> QED
          BY <2>2, <4>1, <4>2 DEF Accounted
      <3> QED
        BY <3>1, <3>2
    <2> QED
      BY <2>2, <2>3, <2>4 DEF ShelfLocksInv, NoShelfLockLeaks, Accounted
  <1>2. CASE CommitEnqueue
    <2>1. /\ queue' = queue \cup {tgt["main"]} /\ phase' = phase /\ shelfGuards' = shelfGuards
          /\ mode'["main"] = "none" /\ mode["main"] # "drop"
          /\ \A u \in Threads \ {"main"} : /\ pc'[u] = pc[u] /\ mode'[u] = mode[u]
                                           /\ todo'[u] = todo[u]
      BY <1>2 DEF CommitEnqueue, Rest, Goto, TypeOK, ShelfLocksInv, DropsAreBatches, memVars
    <2>2. DropsAreBatches'
      BY <2>1 DEF ShelfLocksInv, DropsAreBatches
    <2>3. \A x : Accounted(x) => Accounted(x)'
      BY <2>1 DEF Accounted
    <2> QED
      BY <2>1, <2>2, <2>3 DEF ShelfLocksInv, NoShelfLockLeaks, Accounted
  <1>3. CASE \/ \E s \in Shelves : CommitBegin(s)
             \/ CommitWrite \/ CommitWriteFails \/ CommitSize \/ Revision \/ Metadata
             \/ \E s \in Shelves : Guards(s)
    <2>1. pc["main"] \in {"idle", "write", "size", "revision", "metadata"}
      BY <1>3 DEF CommitBegin, CommitWrite, CommitWriteFails, CommitSize, MainFree,
         Revision, RevisionBegin, RevisionTmp, RevisionRename, Metadata, UpdateMetadata,
         RefreshManifest, Guards, OpenEditor, CloseEditor, OpenPin, ClosePin, DragStart, DragEnd
    <2>2. mode["main"] # "drop"
      BY <2>1 DEF ShelfLocksInv, DropsAreBatches
    <2>3. phase' = phase /\ shelfGuards' = shelfGuards /\ queue' = queue
      BY <1>3 DEF CommitBegin, CommitWrite, CommitWriteFails, CommitSize,
         Revision, RevisionBegin, RevisionTmp, RevisionRename, Metadata, UpdateMetadata,
         RefreshManifest, Guards, OpenEditor, CloseEditor, OpenPin, ClosePin, DragStart,
         DragEnd, memVars
    <2>4. \/ UNCHANGED threadVars
          \/ \E q, m, x, d : m # "drop" /\ Goto("main", q, m, x, d)
      <3>1. CASE \E s \in Shelves : CommitBegin(s) \/ UpdateMetadata(s) \/ RevisionBegin(s)
        BY <3>1 DEF CommitBegin, UpdateMetadata, RevisionBegin
      <3>2. CASE CommitWrite \/ CommitWriteFails \/ CommitSize
        BY <3>2 DEF CommitWrite, CommitWriteFails, CommitSize, Rest
      <3>3. CASE RevisionTmp \/ RevisionRename \/ RefreshManifest
        BY <3>3 DEF RevisionTmp, RevisionRename, RefreshManifest, Rest
      <3>4. CASE \E s \in Shelves : Guards(s)
        BY <3>4 DEF Guards, OpenEditor, CloseEditor, OpenPin, ClosePin, DragStart, DragEnd
      <3> QED
        BY <1>3, <3>1, <3>2, <3>3, <3>4 DEF Revision, Metadata
    <2>5. /\ \A u \in Threads \ {"main"} : /\ pc'[u] = pc[u] /\ mode'[u] = mode[u]
                                           /\ tgt'[u] = tgt[u] /\ todo'[u] = todo[u]
          /\ mode'["main"] # "drop"
      BY <2>2, <2>4 DEF Goto, TypeOK, threadVars
    <2> QED
      BY <2>1, <2>2, <2>3, <2>5, LocksKept
  <1> QED
    BY <1>1, <1>2, <1>3 DEF Commit

\* The start of a batch.
LEMMA StartLocks ==
  ASSUME CacheInv, ShelfLocksInv,
         \/ \E s \in Shelves : DismissCard(s)
         \/ ClearUnlocked \/ SweepBegin \/ RecoveryBegin
         \/ \E t \in Threads : Tick(t)
  PROVE  ShelfLocksInv'
  <1> USE ThreadsAssumption DEF CacheInv
  <1>1. PICK t \in Threads :
          /\ pc[t] = "idle" /\ phase' = phase /\ shelfGuards' = shelfGuards
          /\ \E m, d : /\ Batch(t, m, d)
                       /\ queue' = queue \/ (m = "drop" /\ queue \ queue' \subseteq d)
    <2>1. CASE \E s \in Shelves : DismissCard(s)
      BY <2>1 DEF DismissCard, MainFree, memVars
    <2>2. CASE ClearUnlocked \/ SweepBegin \/ RecoveryBegin
      BY <2>2 DEF ClearUnlocked, SweepBegin, RecoveryBegin, MainFree, memVars
    <2>3. CASE \E t \in Threads : Tick(t)
      <3>1. PICK t \in Threads : Tick(t)
        BY <2>3
      <3>2. PICK d \in SUBSET queue : queue' = queue \ d /\ Batch(t, "drop", d)
        BY <3>1 DEF Tick
      <3>3. queue \ queue' \subseteq d
        BY <3>2
      <3> QED
        BY <3>1, <3>2, <3>3 DEF Tick, memVars
    <2> QED
      BY <2>1, <2>2, <2>3
  <1>2. PICK m, d : /\ Batch(t, m, d)
                    /\ queue' = queue \/ (m = "drop" /\ queue \ queue' \subseteq d)
    BY <1>1
  <1>3. mode[t] # "drop"
    BY <1>1 DEF ShelfLocksInv, DropsAreBatches
  <1>4. /\ pc'[t] = "pick" /\ mode'[t] = m /\ todo'[t] = d
        /\ \A u \in Threads \ {t} : /\ pc'[u] = pc[u] /\ mode'[u] = mode[u]
                                    /\ tgt'[u] = tgt[u] /\ todo'[u] = todo[u]
    BY <1>2 DEF Batch, Goto, TypeOK
  <1> QED
    BY <1>1, <1>2, <1>3, <1>4, LocksKept

\* The steps of a batch: a card leaves the batch as its lock is released.
LEMMA BatchesLocks ==
  ASSUME CacheInv, ShelfLocksInv, NEW t \in Threads, Batches(t)
  PROVE  ShelfLocksInv'
  <1> USE DEF CacheInv
  <1>1. /\ pc[t] \in {"pick", "dismiss", "reap"} /\ phase' = phase /\ queue' = queue
        /\ shelfGuards' \subseteq shelfGuards
    BY DEF Batches, EvictCheck, QuotaPick, DropNext, DebrisInspect, QuotaEnd, DismissPicked,
       ReapFile, ReapEnd, BatchEnd, DropEntry, memVars
  <1>2. \/ UNCHANGED threadVars
        \/ \E q, m, x, d : /\ Goto(t, q, m, x, d)
                           /\ m = "drop" => mode[t] = "drop" /\ q \in {"pick", "reap"}
                           /\ mode[t] = "drop" =>
                                /\ todo[t] \cap shelfGuards' \subseteq d
                                /\ m = "drop" \/ todo[t] = {}
    <2>1. CASE \E s \in Shelves : EvictCheck(t, s) \/ QuotaPick(t, s) \/ DebrisInspect(t, s)
      BY <2>1 DEF EvictCheck, QuotaPick, DebrisInspect, Batch
    <2>2. CASE QuotaEnd(t)
      BY <2>2 DEF QuotaEnd, Rest
    <2>3. CASE \E s \in Shelves : DropNext(t, s)
      <3>1. PICK s \in Shelves : DropNext(t, s)
        BY <2>3
      <3>2. \/ Goto(t, "reap", "drop", s, todo[t] \ {s})
            \/ Goto(t, "pick", "drop", NoShelf, todo[t] \ {s})
        BY <3>1 DEF DropNext, DropEntry, Batch
      <3>3. shelfGuards' = shelfGuards \ {s} /\ mode[t] = "drop"
        BY <3>1 DEF DropNext, DropEntry
      <3> QED
        BY <3>2, <3>3
    <2>4. CASE DismissPicked(t)
      <3>1. mode[t] # "drop"
        BY <2>4 DEF DismissPicked, ShelfLocksInv, DropsAreBatches
      <3> QED
        BY <2>4, <3>1 DEF DismissPicked, DropEntry, Batch, Rest
    <2>5. CASE ReapFile(t)
      BY <2>5 DEF ReapFile
    <2>6. CASE ReapEnd(t)
      BY <2>6 DEF ReapEnd, Rest, Batch
    <2>7. CASE BatchEnd(t)
      BY <2>7 DEF BatchEnd, Rest, Batch
    <2> QED
      BY <2>1, <2>2, <2>3, <2>4, <2>5, <2>6, <2>7 DEF Batches
  <1>3. CASE UNCHANGED threadVars
    <2>1. /\ pc' = pc /\ mode' = mode /\ tgt' = tgt /\ todo' = todo
      BY <1>3 DEF threadVars
    <2>2. mode'[t] = "drop" => pc'[t] \in {"pick", "reap"}
      BY <2>1 DEF ShelfLocksInv, DropsAreBatches
    <2> QED
      BY <1>1, <2>1, <2>2, LocksKept
  <1>4. CASE \E q, m, x, d : /\ Goto(t, q, m, x, d)
                             /\ m = "drop" => mode[t] = "drop" /\ q \in {"pick", "reap"}
                             /\ mode[t] = "drop" =>
                                  /\ todo[t] \cap shelfGuards' \subseteq d
                                  /\ m = "drop" \/ todo[t] = {}
    <2>1. PICK q, m, x, d :
            /\ Goto(t, q, m, x, d)
            /\ m = "drop" => mode[t] = "drop" /\ q \in {"pick", "reap"}
            /\ mode[t] = "drop" => /\ todo[t] \cap shelfGuards' \subseteq d
                                   /\ m = "drop" \/ todo[t] = {}
      BY <1>4
    <2>2. /\ pc'[t] = q /\ mode'[t] = m /\ todo'[t] = d
          /\ \A u \in Threads \ {t} : /\ pc'[u] = pc[u] /\ mode'[u] = mode[u]
                                      /\ tgt'[u] = tgt[u] /\ todo'[u] = todo[u]
      BY <2>1 DEF Goto, TypeOK
    <2> QED
      BY <1>1, <2>1, <2>2, LocksKept
  <1> QED
    BY <1>2, <1>3, <1>4

LEMMA LocksStep ==
  ASSUME CacheInv, ShelfLocksInv, [Next]_vars
  PROVE  ShelfLocksInv'
  <1>1. CASE UNCHANGED vars
    BY <1>1 DEF vars, memVars, threadVars, ShelfLocksInv, NoShelfLockLeaks, DropsAreBatches
  <1>2. CASE Crash
    BY <1>2 DEF Crash, ShelfLocksInv, NoShelfLockLeaks, DropsAreBatches
  <1>3. CASE Boot
    <2>1. \A t \in Threads : mode'[t] # "drop"
      BY <1>3 DEF Boot, CacheInv, DownIsEmpty, TypeOK
    <2> QED
      BY <1>3, <2>1 DEF Boot, ShelfLocksInv, NoShelfLockLeaks, DropsAreBatches
  <1>4. CASE Rehydrate
    BY <1>4 DEF Rehydrate, memVars, threadVars, CacheInv, IndexesAgree, ShelfLocksInv,
       NoShelfLockLeaks, DropsAreBatches
  <1> QED
    BY <1>1, <1>2, <1>3, <1>4, MainLocks, StartLocks, BatchesLocks DEF Next

\* However dismissals, ticks, evictions and commits interleave, a Shelf lock
\* belongs to a card that is shown, about to be shown, or being dismissed.
THEOREM ShelfLocksDoNotLeak == Spec => []NoShelfLockLeaks
  <1>1. Init => ShelfLocksInv
    BY DEF Init, ShelfLocksInv, NoShelfLockLeaks, DropsAreBatches
  <1>2. ShelfLocksInv => NoShelfLockLeaks
    BY DEF ShelfLocksInv
  <1>3. CacheInv /\ ShelfLocksInv /\ [Next]_vars => ShelfLocksInv'
    BY LocksStep
  <1> QED
    BY <1>1, <1>2, <1>3, Invariance, PTL DEF Spec

-----------------------------------------------------------------------------
(* The published files.                                                    *)

Pixels == {"capture.png", "metadata.json", "source.png"}

\* Whatever no removal has touched is whole where it is published or an
\* entry, and holds the files written so far where a commit is writing it.
Whole(s) ==
  /\ HasManifest(disk[s]) => Pixels \subseteq disk[s]
  /\ s \in entries => Pixels \subseteq disk[s]
  /\ pc["main"] \in {"size", "register", "metadata"} /\ tgt["main"] = s =>
       Pixels \subseteq disk[s]
  /\ pc["main"] = "write" /\ tgt["main"] = s =>
       \A i \in 1..(step - 1) : WriteOrder[i] \in disk[s]

PublishedInv == \A s \in Shelves \ torn : Whole(s)

\* A step of another thread than the main one, or one that ends what the main
\* thread was writing, and takes no file a commit wrote.
LEMMA WholeKept ==
  ASSUME CacheInv, NEW s \in Shelves, Whole(s),
         \/ /\ pc'["main"] = pc["main"] /\ tgt'["main"] = tgt["main"] /\ step' = step
            /\ disk[s] \ {"revision.json.tmp"} \subseteq disk'[s]
         \/ /\ pc'["main"] \notin {"size", "register", "metadata", "write"}
            /\ disk[s] \ {"revision.json", "revision.json.tmp"} \subseteq disk'[s],
         HasManifest(disk'[s]) => HasManifest(disk[s]),
         s \in entries' => s \in entries
  PROVE  Whole(s)'
  <1>1. /\ HasManifest(disk'[s]) => Pixels \subseteq disk'[s]
        /\ s \in entries' => Pixels \subseteq disk'[s]
    BY DEF Whole, Pixels
  <1>2. pc'["main"] \in {"size", "register", "metadata"} /\ tgt'["main"] = s =>
          Pixels \subseteq disk'[s]
    BY DEF Whole, Pixels
  <1>3. pc'["main"] = "write" /\ tgt'["main"] = s =>
          \A i \in 1..(step' - 1) : WriteOrder[i] \in disk'[s]
    <2> SUFFICES ASSUME pc'["main"] = "write" /\ tgt'["main"] = s,
                        NEW i \in 1..(step' - 1)
                 PROVE  WriteOrder[i] \in disk'[s]
      OBVIOUS
    <2>1. WriteOrder[i] \in disk[s]
      BY DEF Whole
    <2>2. WriteOrder[i] # "revision.json.tmp"
      <3>1. i \in 1..5
        BY DEF CacheInv, TypeOK
      <3> QED
        BY <3>1 DEF WriteOrder
    <2> QED
      BY <2>1, <2>2
  <1> QED
    BY <1>1, <1>2, <1>3 DEF Whole

\* The commit writes its files in order, the manifest after the pixels.
LEMMA CommitPublishes ==
  ASSUME CacheInv, PublishedInv, Commit
  PROVE  PublishedInv'
  <1> USE ThreadsAssumption DEF CacheInv
  <1>1. torn' = torn
    BY DEF Commit, CommitBegin, CommitWrite, CommitWriteFails, CommitSize, CommitRegister,
       CommitEnqueue, diskVars
  <1>2. SUFFICES ASSUME NEW s \in Shelves, s \notin torn, Whole(s) PROVE Whole(s)'
    BY <1>1 DEF PublishedInv
  <1>3. ASSUME NEW x \in Shelves, CommitBegin(x) PROVE Whole(s)'
    <2>1. /\ disk' = disk /\ entries' = entries /\ step' = 1 /\ pc'["main"] = "write"
      BY <1>3 DEF CommitBegin, Goto, TypeOK, memVars
    <2> QED
      BY <1>2, <2>1 DEF Whole
  <1>4. CASE CommitWrite
    <2>1. /\ tgt["main"] \in Shelves /\ step \in 1..5 /\ pc["main"] = "write"
          /\ entries' = entries /\ disk' = [disk EXCEPT ![tgt["main"]] = @ \cup {WriteOrder[step]}]
      BY <1>4 DEF CommitWrite, CommitsAreFresh, TypeOK, memVars
    <2>2. CASE tgt["main"] # s
      <3>1. /\ disk'[s] = disk[s] /\ tgt'["main"] = tgt["main"]
        BY <1>4, <2>1, <2>2 DEF CommitWrite, Goto, TypeOK, threadVars
      <3> QED
        BY <1>2, <2>1, <2>2, <3>1 DEF Whole
    <2>3. CASE tgt["main"] = s
      <3>1. disk'[s] = disk[s] \cup {WriteOrder[step]}
        BY <2>1, <2>3 DEF TypeOK
      <3>2. \A i \in 1..(step - 1) : WriteOrder[i] \in disk[s]
        BY <1>2, <2>1, <2>3 DEF Whole
      <3>3. CASE step = 5
        <4>1. WriteOrder[1] \in disk[s] /\ WriteOrder[2] \in disk[s] /\ WriteOrder[3] \in disk[s]
          BY <3>2, <3>3
        <4>2. Pixels \subseteq disk'[s]
          BY <3>1, <4>1 DEF Pixels, WriteOrder
        <4>3. pc'["main"] = "size"
          BY <1>4, <3>3, WriteOrderFiles DEF CommitWrite, Goto, TypeOK
        <4> QED
          BY <4>2, <4>3 DEF Whole
      <3>4. CASE step # 5
        <4>1. /\ step' = step + 1 /\ pc' = pc /\ tgt' = tgt
          BY <1>4, <3>4, WriteOrderFiles DEF CommitWrite, threadVars
        <4>2. ~HasManifest({WriteOrder[step]})
          BY <2>1, <3>4 DEF HasManifest, WriteOrder
        <4>3. HasManifest(disk'[s]) => HasManifest(disk[s])
          BY <3>1, <4>2 DEF HasManifest
        <4>4. \A i \in 1..step : WriteOrder[i] \in disk'[s]
          BY <2>1, <3>1, <3>2
        <4>5. step' - 1 = step
          BY <2>1, <4>1
        <4> QED
          BY <1>2, <2>1, <3>1, <4>1, <4>3, <4>4, <4>5 DEF Whole
      <3> QED
        BY <3>3, <3>4
    <2> QED
      BY <2>2, <2>3
  <1>5. CASE CommitWriteFails
    <2>1. disk' = disk /\ entries' = entries /\ pc'["main"] = "reap"
      BY <1>5 DEF CommitWriteFails, Goto, TypeOK, memVars, diskVars
    <2> QED
      BY <1>2, <2>1, WholeKept
  <1>6. CASE CommitSize
    <2>1. /\ disk' = disk /\ entries' = entries /\ pc["main"] = "size"
          /\ \/ pc'["main"] = "register" /\ tgt'["main"] = tgt["main"]
             \/ pc'["main"] = "idle"
      BY <1>6 DEF CommitSize, Rest, Goto, TypeOK, memVars, diskVars
    <2> QED
      BY <1>2, <2>1 DEF Whole
  <1>7. CASE CommitRegister
    <2>1. /\ disk' = disk /\ entries' = entries \cup {tgt["main"]}
          /\ pc["main"] = "register" /\ pc'["main"] = "enqueue"
      BY <1>7 DEF CommitRegister, Goto, TypeOK, diskVars
    <2> QED
      BY <1>2, <2>1 DEF Whole
  <1>8. CASE CommitEnqueue
    <2>1. disk' = disk /\ entries' = entries /\ pc'["main"] = "idle"
      BY <1>8 DEF CommitEnqueue, Rest, Goto, TypeOK, memVars, diskVars
    <2> QED
      BY <1>2, <2>1, WholeKept
  <1> QED
    BY <1>3, <1>4, <1>5, <1>6, <1>7, <1>8 DEF Commit

\* The sidecar is none of the files a manifest stands for; a manifest that is
\* written again is that of an entry.
LEMMA UpdatesPublish ==
  ASSUME CacheInv, PublishedInv, Revision \/ Metadata
  PROVE  PublishedInv'
  <1> USE ThreadsAssumption DEF CacheInv
  <1>1. torn' = torn /\ entries' = entries
    BY DEF Revision, RevisionBegin, RevisionTmp, RevisionRename, Metadata, UpdateMetadata,
       RefreshManifest, memVars
  <1>2. SUFFICES ASSUME NEW s \in Shelves, s \notin torn, Whole(s) PROVE Whole(s)'
    BY <1>1 DEF PublishedInv
  <1>3. CASE Revision
    <2>1. pc'["main"] \in {"revision", "idle"}
      BY <1>3 DEF Revision, RevisionBegin, RevisionTmp, RevisionRename, Rest, Goto, TypeOK,
         threadVars
    <2>2. /\ disk[s] \ {"revision.json", "revision.json.tmp"} \subseteq disk'[s]
          /\ HasManifest(disk'[s]) => HasManifest(disk[s])
      BY <1>3 DEF Revision, RevisionBegin, RevisionTmp, RevisionRename, HasManifest, TypeOK
    <2> QED
      BY <1>1, <1>2, <2>1, <2>2, WholeKept
  <1>4. ASSUME NEW x \in Shelves, UpdateMetadata(x) PROVE Whole(s)'
    <2>1. /\ x \in entries /\ pc'["main"] = "metadata" /\ tgt'["main"] = x
          /\ disk' = [disk EXCEPT ![x] = @ \cup {"metadata.json"}]
      BY <1>4 DEF UpdateMetadata, Goto, TypeOK
    <2>2. /\ disk[s] \subseteq disk'[s] /\ HasManifest(disk'[s]) => HasManifest(disk[s])
      BY <2>1 DEF TypeOK, HasManifest
    <2> QED
      BY <1>1, <1>2, <2>1, <2>2 DEF Whole
  <1>5. CASE RefreshManifest
    <2>1. /\ pc'["main"] = "idle" /\ pc["main"] = "metadata"
          /\ \/ disk' = disk
             \/ disk' = [disk EXCEPT ![tgt["main"]] = @ \cup {"manifest.json"}]
      BY <1>5 DEF RefreshManifest, Rest, Goto, TypeOK
    <2>2. disk[s] \subseteq disk'[s]
      BY <2>1 DEF TypeOK
    <2>3. HasManifest(disk'[s]) => HasManifest(disk[s]) \/ tgt["main"] = s
      BY <2>1 DEF TypeOK, HasManifest
    <2> QED
      BY <1>1, <1>2, <2>1, <2>2, <2>3 DEF Whole
  <1> QED
    BY <1>3, <1>4, <1>5 DEF Metadata

\* A batch takes files only from a directory that is torn from then on.
LEMMA BatchesPublish ==
  ASSUME CacheInv, PublishedInv, NEW t \in Threads, Batches(t)
  PROVE  PublishedInv'
  <1> USE ThreadsAssumption DEF CacheInv
  <1>1. torn \subseteq torn' /\ entries' \subseteq entries /\ step' = step
    BY DEF Batches, EvictCheck, QuotaPick, DropNext, DebrisInspect, QuotaEnd, DismissPicked,
       ReapFile, ReapEnd, BatchEnd, DropEntry, memVars, diskVars
  <1>2. SUFFICES ASSUME NEW s \in Shelves, s \notin torn', Whole(s) PROVE Whole(s)'
    BY <1>1 DEF PublishedInv
  <1>3. /\ disk[s] \ {"revision.json.tmp"} \subseteq disk'[s]
        /\ disk'[s] \subseteq disk[s]
    <2>1. CASE ReapFile(t)
      BY <1>2, <2>1 DEF ReapFile, TypeOK, ReapsAreFinal
    <2>2. CASE \E x \in Shelves : DebrisInspect(t, x)
      BY <2>2 DEF DebrisInspect, Healed, TypeOK
    <2>3. CASE disk' = disk
      BY <2>3
    <2> QED
      BY <2>1, <2>2, <2>3 DEF Batches, EvictCheck, QuotaPick, DropNext, QuotaEnd,
         DismissPicked, ReapEnd, BatchEnd, diskVars
  <1>4. \/ pc'["main"] = pc["main"] /\ tgt'["main"] = tgt["main"]
        \/ pc'["main"] \in {"idle", "pick", "dismiss", "reap"}
    <2>1. \/ UNCHANGED threadVars
          \/ \E q \in {"idle", "pick", "dismiss", "reap"} : \E m, x, d : Goto(t, q, m, x, d)
      BY DEF Batches, EvictCheck, QuotaPick, DropNext, DebrisInspect, QuotaEnd, DismissPicked,
         ReapFile, ReapEnd, BatchEnd, DropEntry, Rest, Batch
    <2> QED
      BY <2>1 DEF Goto, TypeOK, threadVars
  <1>5. HasManifest(disk'[s]) => HasManifest(disk[s])
    BY <1>3 DEF HasManifest
  <1> QED
    BY <1>1, <1>2, <1>3, <1>4, <1>5, WholeKept

LEMMA PublishedStep ==
  ASSUME CacheInv, PublishedInv, [Next]_vars
  PROVE  PublishedInv'
  <1> USE ThreadsAssumption DEF CacheInv
  <1>1. CASE UNCHANGED vars
    BY <1>1 DEF vars, memVars, diskVars, threadVars, PublishedInv, Whole
  <1>2. CASE Crash
    BY <1>2 DEF Crash, diskVars, PublishedInv, Whole
  <1>3. CASE Boot
    <2>1. pc'["main"] = "idle"
      BY <1>3 DEF Boot, DownIsEmpty
    <2>2. ASSUME NEW s \in Shelves, s \notin torn' PROVE Whole(s)'
      <3>1. Whole(s)
        BY <1>3, <2>2 DEF Boot, PublishedInv
      <3>2. CASE HasManifest(disk[s]) /\ s \in dirs
        <4>1. disk'[s] = disk[s]
          BY <1>3, <3>2 DEF Boot
        <4> QED
          BY <2>1, <3>1, <3>2, <4>1 DEF Whole
      <3>3. CASE ~(HasManifest(disk[s]) /\ s \in dirs)
        <4>1. disk'[s] = {} /\ s \notin entries'
          BY <1>3, <3>3 DEF Boot
        <4> QED
          BY <2>1, <4>1 DEF Whole, HasManifest
      <3> QED
        BY <3>2, <3>3
    <2> QED
      BY <2>2 DEF PublishedInv
  <1>4. CASE \/ Rehydrate \/ ClearUnlocked \/ SweepBegin \/ RecoveryBegin
             \/ \E s \in Shelves : Guards(s) \/ DismissCard(s)
             \/ \E t \in Threads : Tick(t)
    <2>1. disk' = disk /\ torn' = torn /\ entries' = entries /\ step' = step
      BY <1>4 DEF Rehydrate, ClearUnlocked, SweepBegin, RecoveryBegin, Guards, OpenEditor,
         CloseEditor, OpenPin, ClosePin, DragStart, DragEnd, DismissCard, Tick, memVars, diskVars
    <2>2. \/ UNCHANGED threadVars
          \/ \E t \in Threads : \E m, d : Batch(t, m, d)
      BY <1>4 DEF Rehydrate, ClearUnlocked, SweepBegin, RecoveryBegin, Guards, OpenEditor,
         CloseEditor, OpenPin, ClosePin, DragStart, DragEnd, DismissCard, Tick
    <2>3. \/ pc'["main"] = pc["main"] /\ tgt'["main"] = tgt["main"]
          \/ pc'["main"] = "pick"
      BY <2>2 DEF Batch, Goto, TypeOK, threadVars
    <2> QED
      BY <2>1, <2>3, WholeKept DEF PublishedInv
  <1> QED
    BY <1>1, <1>2, <1>3, <1>4, CommitPublishes, UpdatesPublish, BatchesPublish DEF Next

\* Whenever the process dies, a manifest that is found later stands for
\* pixels, metadata and source, unless a removal was under way.
THEOREM ManifestIsLast == Spec => []ManifestPublishesLast
  <1>1. Init => PublishedInv
    BY ThreadsAssumption DEF Init, PublishedInv, Whole, HasManifest
  <1>2. CacheInv /\ PublishedInv => ManifestPublishesLast
    BY DEF CacheInv, TypeOK, PublishedInv, Whole, HasManifest, Pixels, ManifestPublishesLast
  <1>3. CacheInv /\ PublishedInv /\ [Next]_vars => PublishedInv'
    BY PublishedStep
  <1> QED
    BY <1>1, <1>2, <1>3, Invariance, PTL DEF Spec

-----------------------------------------------------------------------------
(* The refinement of CaptureStore.  Most steps move nothing it sees.       *)

SameStore ==
  /\ UNCHANGED <<entries, editorGuards, pinGuards, dragGuards, used>>
  /\ (phase = "down") <=> (phase' = "down")
  /\ \A s \in Shelves : InFlight(s) <=> InFlight(s)'

LEMMA SameStoreStutters == SameStore => UNCHANGED StoreOf!vars
  <1> SUFFICES ASSUME SameStore PROVE UNCHANGED StoreOf!vars
    OBVIOUS
  <1>1. {s \in Shelves : InFlight(s)}' = {s \in Shelves : InFlight(s)}
    BY DEF SameStore
  <1>2. [s \in Shelves |-> HoldersOf(s)]' = [s \in Shelves |-> HoldersOf(s)]
    BY DEF SameStore, HoldersOf
  <1>3. UNCHANGED entries /\ UNCHANGED used
          /\ (phase # "down")' = (phase # "down")
    BY DEF SameStore
  <1> QED
    BY <1>1, <1>2, <1>3 DEF StoreOf!vars

\* A process that stops takes its holders and its commit with it; one that
\* starts keeps entries whose ids were handed out before.
LEMMA ProcessRefines ==
  ASSUME CacheInv, Crash \/ Boot \/ Rehydrate
  PROVE  StoreOf!Next \/ UNCHANGED StoreOf!vars
  <1>1. CASE Crash
    <2>1. {s \in Shelves : InFlight(s)}' = {}
      BY <1>1, ThreadsAssumption DEF Crash, InFlight
    <2>2. [s \in Shelves |-> HoldersOf(s)]' = StoreOf!Unheld
      BY <1>1 DEF Crash, HoldersOf, StoreOf!Unheld
    <2>3. StoreOf!Stop
      BY <1>1, <2>1, <2>2 DEF Crash, StoreOf!Stop
    <2> QED
      BY <2>3 DEF StoreOf!Next
  <1>2. CASE Boot
    <2>1. entries' \in SUBSET used
      BY <1>2 DEF Boot, CacheInv, IndexesAgree
    <2>2. {s \in Shelves : InFlight(s)}' = {s \in Shelves : InFlight(s)}
      BY <1>2 DEF Boot, InFlight
    <2>3. [s \in Shelves |-> HoldersOf(s)]' = [s \in Shelves |-> HoldersOf(s)]
      BY <1>2 DEF Boot, HoldersOf
    <2>4. ~(phase # "down") /\ (phase # "down")' /\ UNCHANGED used
      BY <1>2 DEF Boot
    <2>5. StoreOf!Start
      BY <2>1, <2>2, <2>3, <2>4 DEF StoreOf!Start
    <2> QED
      BY <2>5 DEF StoreOf!Next
  <1>3. CASE Rehydrate
    <2>1. SameStore
      BY <1>3 DEF Rehydrate, SameStore, InFlight, memVars, threadVars
    <2> QED
      BY <2>1, SameStoreStutters
  <1> QED
    BY <1>1, <1>2, <1>3

\* A commit stores its capture at the first step, and keeps it or gives it
\* up at the end.
LEMMA CommitRefines ==
  ASSUME CacheInv, Commit
  PROVE  StoreOf!Next \/ UNCHANGED StoreOf!vars
  <1> USE ThreadsAssumption DEF CacheInv, TypeOK
  <1> DEFINE Storing == {s \in Shelves : InFlight(s)}
             Leaves == /\ pc["main"] \in {"write", "size", "register"}
                       /\ pc'["main"] \notin {"write", "size", "register"}
  <1>1. ASSUME NEW s \in Shelves, CommitBegin(s)
        PROVE  StoreOf!Next \/ UNCHANGED StoreOf!vars
    <2>1. Storing = {} /\ Storing' = {s}
      BY <1>1 DEF CommitBegin, MainFree, Goto, InFlight
    <2>2. [c \in Shelves |-> HoldersOf(c)]' = [c \in Shelves |-> HoldersOf(c)]
      BY <1>1 DEF CommitBegin, HoldersOf, memVars
    <2>3. StoreOf!Store(s)
      BY <1>1, <2>1, <2>2 DEF CommitBegin, MainFree, memVars, StoreOf!Store
    <2> QED
      BY <2>3 DEF StoreOf!Next
  <1>2. ASSUME Leaves PROVE /\ tgt["main"] \in Storing
                            /\ Storing' = Storing \ {tgt["main"]}
    BY <1>2 DEF InFlight, CommitsAreFresh
  <1>3. ASSUME Leaves, UNCHANGED <<memVars, used, phase>>
        PROVE  StoreOf!Next \/ UNCHANGED StoreOf!vars
    <2>1. [c \in Shelves |-> HoldersOf(c)]' = [c \in Shelves |-> HoldersOf(c)]
      BY <1>3 DEF HoldersOf, memVars
    <2>2. StoreOf!Abandon(tgt["main"])
      BY <1>2, <1>3, <2>1 DEF memVars, StoreOf!Abandon
    <2> QED
      BY <1>2, <1>3, <2>2 DEF StoreOf!Next
  <1>4. CASE CommitWrite
    <2>1. SameStore
      BY <1>4 DEF CommitWrite, Goto, SameStore, InFlight, memVars, threadVars
    <2> QED
      BY <2>1, SameStoreStutters
  <1>5. CASE CommitWriteFails
    BY <1>3, <1>5 DEF CommitWriteFails, Goto
  <1>6. CASE CommitSize
    <2>1. CASE pc'["main"] = "register"
      <3>1. SameStore
        BY <1>6, <2>1 DEF CommitSize, Goto, Rest, SameStore, InFlight, memVars
      <3> QED
        BY <3>1, SameStoreStutters
    <2>2. CASE pc'["main"] # "register"
      BY <1>3, <1>6, <2>2 DEF CommitSize, Goto, Rest
    <2> QED
      BY <2>1, <2>2
  <1>7. CASE CommitRegister
    <2>1. Leaves
      BY <1>7 DEF CommitRegister, Goto
    <2>2. [c \in Shelves |-> HoldersOf(c)]' = [c \in Shelves |-> HoldersOf(c)]
      BY <1>7 DEF CommitRegister, HoldersOf
    <2>3. StoreOf!Keep(tgt["main"])
      BY <1>2, <1>7, <2>1, <2>2 DEF CommitRegister, StoreOf!Keep
    <2> QED
      BY <1>2, <2>1, <2>3 DEF StoreOf!Next
  <1>8. CASE CommitEnqueue
    <2>1. SameStore
      BY <1>8 DEF CommitEnqueue, Goto, Rest, SameStore, InFlight, memVars
    <2> QED
      BY <2>1, SameStoreStutters
  <1> QED
    BY <1>1, <1>4, <1>5, <1>6, <1>7, <1>8 DEF Commit

\* A guard taken or given back is one holder more or one less.
LEMMA GuardRefines ==
  ASSUME CacheInv, NEW s \in Shelves, Guards(s)
  PROVE  StoreOf!Next \/ UNCHANGED StoreOf!vars
  <1> DEFINE Holders == [c \in Shelves |-> HoldersOf(c)]
  <1>1. \/ OpenEditor(s) \/ CloseEditor(s) \/ OpenPin(s) \/ ClosePin(s)
        \/ DragStart(s) \/ DragEnd(s)
    BY DEF Guards
  <1>2. /\ UNCHANGED <<entries, used, phase>>
        /\ {c \in Shelves : InFlight(c)}' = {c \in Shelves : InFlight(c)}
    BY <1>1 DEF OpenEditor, CloseEditor, OpenPin, ClosePin, DragStart, DragEnd,
       threadVars, InFlight
  <1>3. pinGuards \in [Shelves -> Nat] /\ dragGuards \in [Shelves -> Nat]
    BY DEF CacheInv, TypeOK
  <1>4. \A c \in Shelves : HoldersOf(c) \in Nat
    BY <1>3 DEF HoldersOf
  <1>5. CASE OpenEditor(s) \/ OpenPin(s) \/ DragStart(s)
    <2>1. HoldersOf(s)' = HoldersOf(s) + 1
      BY <1>3, <1>5 DEF OpenEditor, OpenPin, DragStart, HoldersOf
    <2>2. \A c \in Shelves \ {s} : HoldersOf(c)' = HoldersOf(c)
      BY <1>3, <1>5 DEF OpenEditor, OpenPin, DragStart, HoldersOf
    <2>3. Holders' = [Holders EXCEPT ![s] = @ + 1]
      BY <2>1, <2>2
    <2>4. StoreOf!Hold(s)
      BY <1>2, <1>5, <2>3 DEF OpenEditor, OpenPin, DragStart, StoreOf!Hold
    <2> QED
      BY <2>4 DEF StoreOf!Next
  <1>6. CASE CloseEditor(s) \/ ClosePin(s) \/ DragEnd(s)
    <2>1. HoldersOf(s) > 0 /\ HoldersOf(s)' = HoldersOf(s) - 1
      BY <1>3, <1>6 DEF CloseEditor, ClosePin, DragEnd, HoldersOf
    <2>2. \A c \in Shelves \ {s} : HoldersOf(c)' = HoldersOf(c)
      BY <1>3, <1>6 DEF CloseEditor, ClosePin, DragEnd, HoldersOf
    <2>3. Holders' = [Holders EXCEPT ![s] = @ - 1]
      BY <2>1, <2>2
    <2>4. StoreOf!LetGo(s)
      BY <1>2, <2>1, <2>3 DEF StoreOf!LetGo
    <2> QED
      BY <2>4 DEF StoreOf!Next
  <1> QED
    BY <1>1, <1>5, <1>6

\* A dismissal discards its entry, when nobody holds it, or leaves it.
LEMMA DropRefines ==
  ASSUME CacheInv, NEW t \in Threads, NEW s \in Shelves,
         NEW rest \in SUBSET Shelves,
         pc[t] \in {"pick", "dismiss"},
         DropEntry(t, s, rest),
         UNCHANGED <<editorGuards, pinGuards, dragGuards, used, phase>>
  PROVE  StoreOf!Next \/ UNCHANGED StoreOf!vars
  <1> DEFINE r == IF s \in shelfGuards THEN ReleaseRef(refs, s, "Shelf")
                                       ELSE refs
  <1>1. \A c \in Shelves : InFlight(c) <=> InFlight(c)'
    BY ThreadsAssumption
    DEF DropEntry, Goto, Rest, Batch, InFlight, CacheInv, TypeOK
  <1>2. CASE DismissRemoves(r, known, s)
    <2>1. s \in entries /\ HoldersOf(s) = 0
      BY <1>2, RemovesUnheld DEF HoldersOf
    <2>2. entries' = entries \ {s}
      BY <1>2 DEF DropEntry
    <2>3. [c \in Shelves |-> HoldersOf(c)]' = [c \in Shelves |-> HoldersOf(c)]
      BY DEF HoldersOf
    <2>4. {c \in Shelves : InFlight(c)}' = {c \in Shelves : InFlight(c)}
      BY <1>1
    <2>5. StoreOf!Discard(s)
      BY <2>1, <2>2, <2>3, <2>4 DEF StoreOf!Discard
    <2> QED
      BY <2>5 DEF StoreOf!Next
  <1>3. CASE ~DismissRemoves(r, known, s)
    <2>1. SameStore
      BY <1>1, <1>3 DEF DropEntry, SameStore
    <2> QED
      BY <2>1, SameStoreStutters
  <1> QED
    BY <1>2, <1>3

\* The other steps of a batch move no entry and no commit.
LEMMA BatchesRefine ==
  ASSUME CacheInv, NEW t \in Threads, Batches(t)
  PROVE  StoreOf!Next \/ UNCHANGED StoreOf!vars
  <1>1. ASSUME NEW s \in Shelves, DropNext(t, s)
        PROVE  StoreOf!Next \/ UNCHANGED StoreOf!vars
    <2>1. todo[t] \ {s} \in SUBSET Shelves
      BY DEF CacheInv, TypeOK
    <2> QED
      BY <1>1, <2>1, DropRefines DEF DropNext
  <1>2. CASE DismissPicked(t)
    <2>1. tgt[t] \in Shelves /\ todo[t] \in SUBSET Shelves
      BY <1>2 DEF DismissPicked, CacheInv, ReapsAreFinal, TypeOK
    <2> QED
      BY <1>2, <2>1, DropRefines DEF DismissPicked
  <1>3. CASE \/ \E s \in Shelves : \/ EvictCheck(t, s) \/ QuotaPick(t, s)
                                   \/ DebrisInspect(t, s)
             \/ QuotaEnd(t) \/ ReapFile(t) \/ ReapEnd(t) \/ BatchEnd(t)
    <2> USE DEF EvictCheck, QuotaPick, DebrisInspect, QuotaEnd, ReapFile,
                ReapEnd, BatchEnd
    <2>1. /\ UNCHANGED <<memVars, used, phase>>
          /\ pc[t] \in {"pick", "reap"}
      BY <1>3
    <2>2. /\ pc'[t] \in {"pick", "dismiss", "reap", "idle"}
          /\ \A u \in Threads : u # t => pc'[u] = pc[u] /\ tgt'[u] = tgt[u]
      BY <1>3 DEF Goto, Batch, Rest, threadVars, CacheInv, TypeOK
    <2>3. \A c \in Shelves : InFlight(c) <=> InFlight(c)'
      BY <2>1, <2>2, ThreadsAssumption DEF InFlight
    <2>4. SameStore
      BY <2>1, <2>3 DEF SameStore, memVars
    <2> QED
      BY <2>4, SameStoreStutters
  <1> QED
    BY <1>1, <1>2, <1>3 DEF Batches

\* The starts of the batches, and the writes into an entry.
LEMMA OthersRefine ==
  ASSUME CacheInv,
         \/ Revision \/ Metadata
         \/ \E s \in Shelves : DismissCard(s)
         \/ ClearUnlocked \/ SweepBegin \/ RecoveryBegin
         \/ \E t \in Threads : Tick(t)
  PROVE  StoreOf!Next \/ UNCHANGED StoreOf!vars
  <1> USE ThreadsAssumption DEF CacheInv, TypeOK, Goto, Batch, Rest, InFlight,
          SameStore, memVars, threadVars
  <1>1. CASE Revision
    <2>1. SameStore
      BY <1>1 DEF Revision, RevisionBegin, RevisionTmp, RevisionRename, MainFree
    <2> QED
      BY <2>1, SameStoreStutters
  <1>2. CASE Metadata
    <2>1. SameStore
      BY <1>2 DEF Metadata, UpdateMetadata, RefreshManifest, MainFree
    <2> QED
      BY <2>1, SameStoreStutters
  <1>3. CASE (\E s \in Shelves : DismissCard(s)) \/ ClearUnlocked
    <2>1. SameStore
      BY <1>3 DEF DismissCard, ClearUnlocked, MainFree
    <2> QED
      BY <2>1, SameStoreStutters
  <1>4. CASE SweepBegin \/ RecoveryBegin
    <2>1. SameStore
      BY <1>4 DEF SweepBegin, RecoveryBegin
    <2> QED
      BY <2>1, SameStoreStutters
  <1>5. CASE \E t \in Threads : Tick(t)
    <2>1. SameStore
      BY <1>5 DEF Tick
    <2> QED
      BY <2>1, SameStoreStutters
  <1> QED
    BY <1>1, <1>2, <1>3, <1>4, <1>5

\* Every step of the cache is a step of the store or a stutter.
LEMMA NextRefines ==
  ASSUME CacheInv, [Next]_vars
  PROVE  [StoreOf!Next]_(StoreOf!vars)
  <1>1. CASE UNCHANGED vars
    <2>1. SameStore
      BY <1>1 DEF vars, memVars, threadVars, SameStore, InFlight
    <2> QED
      BY <2>1, SameStoreStutters
  <1>2. CASE Next
    BY <1>2, ProcessRefines, CommitRefines, GuardRefines, BatchesRefine,
       OthersRefine DEF Next
  <1> QED
    BY <1>1, <1>2

\* The cache implements the capture store: a capture somebody edits, pins or
\* drags is never discarded, whichever thread dismisses or evicts it and
\* wherever a kill falls, and a capture that is gone stays away until the
\* next start.
THEOREM StoreRefinement == Spec => IsCaptureStore
  <1>1. Init => StoreOf!Init
    <2> SUFFICES ASSUME Init PROVE StoreOf!Init
      OBVIOUS
    <2>1. {s \in Shelves : InFlight(s)} = {}
      BY ThreadsAssumption DEF Init, InFlight
    <2>2. [s \in Shelves |-> HoldersOf(s)] = StoreOf!Unheld
      BY DEF Init, HoldersOf, StoreOf!Unheld
    <2> QED
      BY <2>1, <2>2 DEF Init, StoreOf!Init
  <1>2. CacheInv /\ [Next]_vars => [StoreOf!Next]_(StoreOf!vars)
    BY NextRefines
  <1> QED
    BY <1>1, <1>2, Invariance, PTL DEF Spec, IsCaptureStore, StoreOf!Spec
=============================================================================
