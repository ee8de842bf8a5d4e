-------------------------------- MODULE Hotkeys --------------------------------
(***************************************************************************)
(* The hotkey registry (hotkey/mod.rs) over the global shortcut backend    *)
(* (hotkey/tauri_backend.rs) and the operating system's hotkey table, with *)
(* the commands, the start and the exit that drive it, the bindings store  *)
(* they persist to (hotkey/store.rs) and the tray labels.                  *)
(*                                                                         *)
(* Commands run on the main thread, one at a time; each call of the        *)
(* backend is a step, between which other programs take and give up        *)
(* chords.  Actions are numbered in the order of HotkeyAction::ALL.  What   *)
(* a start finds on the disk may be any document: how a write gets there   *)
(* is SettingsStore.  Left out: `rebind' and `set_binding', which    *)
(* nothing in the program calls, error texts, and an unregistration the    *)
(* system refuses.                                                         *)
(***************************************************************************)
EXTENDS Integers, FiniteSets

CONSTANTS
  LastAction,        \* HotkeyAction::ALL is 1..LastAction
  Texts,             \* accelerators a command may carry
  Parse(_),          \* parse_binding
  Ids, Id(_),        \* the system's identity of a chord
  Unbound

Actions  == 1..LastAction
NoAction == 0
Slot     == Texts \cup {Unbound}
Document == [binding : [Actions -> Slot], paused : BOOLEAN]

ASSUME ActionsAssumption == LastAction \in Nat /\ Unbound \notin Texts
ASSUME IdsAssumption     == \A t \in Texts : Id(t) \in Ids
\* A canonical text parses to itself or, when too long, not at all.
ASSUME ParseAssumption   ==
  \A t \in Texts : /\ Parse(t) \in Slot
                   /\ Parse(t) # Unbound => Parse(Parse(t)) \in {Parse(t), Unbound}
VARIABLES
  up,                \* the process runs
  doc,               \* RegistryInner.bindings
  active, conflict,  \* RegistryInner.status
  statusPaused,      \* its copy of the flag
  registered,        \* SharedState.registered
  handler,           \* SharedState.id_to_action
  hooks, foreign,    \* ids the system holds for us, and for others
  work, next, done,  \* the command under way, its next action, registered_now
  previous,          \* the document a refused replacement goes back to
  store,             \* HotkeyPreferencesStore.current
  tray,              \* what the menu and the icon show
  wasActive, outcome \* history: the status before the last replacement, its end

statusVars  == <<active, conflict, statusPaused>>
backendVars == <<registered, handler, hooks>>
pastVars    == <<wasActive, outcome>>
loopVars    == <<work, next, done>>
vars == <<up, doc, statusVars, backendVars, foreign, loopVars, previous,
          store, tray, pastVars>>

Applying == {"boot", "update", "rollback"}
Saving   == {"save", "savePaused"}

Shown == [labels : [Actions -> Slot], icon : {"idle", "paused", "conflict"}]

TypeOK ==
  /\ up \in BOOLEAN
  /\ doc \in Document /\ previous \in Document
  /\ store \in Document
  /\ active \in BOOLEAN /\ statusPaused \in BOOLEAN
  /\ conflict \in Actions \cup {NoAction}
  /\ registered \in [Actions -> Slot] /\ wasActive \in BOOLEAN
  /\ handler \in [Ids -> Actions \cup {NoAction}]
  /\ hooks \subseteq Ids /\ foreign \subseteq Ids
  /\ work \in {"idle", "resume"} \cup Applying \cup Saving
  /\ next \in 1..LastAction + 1
  /\ done \subseteq Actions
  /\ tray \in Shown
  /\ outcome \in {"none", "ok", "conflict"}

\* refresh_labels: a status with a conflict shows it before the pause.
Face(d, refused) ==
  [labels |-> d.binding,
   icon   |-> IF refused # NoAction THEN "conflict" ELSE IF d.paused THEN "paused"
              ELSE "idle"]

NothingRegistered == [a \in Actions |-> Unbound]
NoDocument == [binding |-> NothingRegistered, paused |-> FALSE]

Init ==
  /\ up = FALSE /\ doc = NoDocument /\ previous = NoDocument
  /\ store = NoDocument
  /\ active = FALSE /\ statusPaused = FALSE /\ conflict = NoAction
  /\ registered = NothingRegistered /\ wasActive = FALSE
  /\ handler = [i \in Ids |-> NoAction]
  /\ hooks = {} /\ foreign \in SUBSET Ids
  /\ work = "idle" /\ next = 1 /\ done = {}
  /\ tray = Face(NoDocument, NoAction)
  /\ outcome = "none"

-----------------------------------------------------------------------------
(* The document.                                                           *)

Reparse(t) == IF t = Unbound THEN Unbound ELSE Parse(t)

\* Invalid accelerators become unbound, valid ones canonical.
Sanitize(d) == [d EXCEPT !.binding = [a \in Actions |-> Reparse(d.binding[a])]]

AnyBound(d) == \E a \in Actions : d.binding[a] # Unbound

-----------------------------------------------------------------------------
(* The backend.                                                            *)

HookOf(a) == IF registered[a] = Unbound THEN {} ELSE {Id(registered[a])}

\* Seeded fault: any registration of the action will do.
AlreadyAny(a, t) == registered[a] # Unbound

AlreadyIs(a, t) == registered[a] # Unbound /\ Id(registered[a]) = Id(t)
Free(t)         == Id(t) \notin hooks \cup foreign
Accepts(a, t)   == AlreadyIs(a, t) \/ Free(t)

\* Seeded fault: the second map keeps the chord the action had.
RegisterOverOld(a, t) ==
  IF AlreadyIs(a, t) THEN UNCHANGED backendVars
  ELSE /\ hooks' = hooks \cup {Id(t)}
       /\ handler' = [handler EXCEPT ![Id(t)] = a]
       /\ registered' = [registered EXCEPT ![a] = t]

\* The chord the action had leaves the two maps, not the system's table.
Register(a, t) ==
  IF AlreadyIs(a, t) THEN UNCHANGED backendVars
  ELSE /\ hooks' = hooks \cup {Id(t)}
       /\ handler' = [i \in Ids |-> IF i = Id(t) THEN a
                                    ELSE IF i \in HookOf(a) THEN NoAction
                                    ELSE handler[i]]
       /\ registered' = [registered EXCEPT ![a] = t]

Unregister(S) ==
  LET gone == UNION {HookOf(a) : a \in S}
  IN  /\ hooks' = hooks \ gone
      /\ handler' = [i \in Ids |-> IF i \in gone THEN NoAction ELSE handler[i]]
      /\ registered' = [a \in Actions |-> IF a \in S THEN Unbound ELSE registered[a]]

\* The closure the plugin calls on a press.
Dispatch(i) == IF i \in hooks THEN handler[i] ELSE NoAction

-----------------------------------------------------------------------------
(* apply.                                                                  *)

Status(isActive, isPaused, refused) ==
  active' = isActive /\ statusPaused' = isPaused /\ conflict' = refused

\* What follows an apply that went through: a replacement is written.
Applied ==
  /\ work' = IF work = "update" THEN "save" ELSE "idle"
  /\ outcome' = IF work = "update" THEN "ok" ELSE outcome
  /\ tray' = IF work = "boot" THEN Face(doc, NoAction) ELSE tray
  /\ next' = 1 /\ done' = {} /\ previous' = NoDocument

ApplyPaused ==
  /\ work \in Applying /\ doc.paused
  /\ Unregister(Actions)
  /\ Status(FALSE, TRUE, NoAction)
  /\ Applied
  /\ UNCHANGED <<up, doc, foreign, store, wasActive>>

\* Seeded fault: an action that became unbound keeps its chord.
ApplyUnboundKeeping ==
  /\ work \in Applying /\ ~doc.paused /\ next \in Actions
  /\ doc.binding[next] = Unbound
  /\ next' = next + 1
  /\ UNCHANGED <<up, doc, statusVars, backendVars, foreign, work, done, previous,
                 store, tray, pastVars>>

ApplyUnbound ==
  /\ work \in Applying /\ ~doc.paused /\ next \in Actions
  /\ doc.binding[next] = Unbound
  /\ Unregister({next})
  /\ next' = next + 1
  /\ UNCHANGED <<up, doc, statusVars, foreign, work, done, previous, store,
                 tray, pastVars>>

ApplyBound ==
  /\ work \in Applying /\ ~doc.paused /\ next \in Actions
  /\ doc.binding[next] # Unbound
  /\ Accepts(next, doc.binding[next])
  /\ Register(next, doc.binding[next])
  /\ next' = next + 1 /\ done' = done \cup {next}
  /\ UNCHANGED <<up, doc, statusVars, foreign, work, previous, store, tray,
                 pastVars>>

\* What this apply registered goes; a replacement is taken back and applied.
ApplyRefused ==
  /\ work \in Applying /\ ~doc.paused /\ next \in Actions
  /\ doc.binding[next] # Unbound
  /\ ~Accepts(next, doc.binding[next])
  /\ Unregister(done)
  /\ Status(FALSE, FALSE, next)
  /\ doc' = IF work = "update" THEN previous ELSE doc
  /\ work' = IF work = "update" THEN "rollback" ELSE "idle"
  /\ outcome' = IF work = "update" THEN "conflict" ELSE outcome
  /\ tray' = IF work = "boot" THEN Face(doc, NoAction) ELSE tray
  /\ next' = 1 /\ done' = {} /\ previous' = NoDocument
  /\ UNCHANGED <<up, foreign, store, wasActive>>

ApplyEnd ==
  /\ work \in Applying /\ ~doc.paused /\ next = LastAction + 1
  /\ Status(TRUE, FALSE, NoAction)
  /\ Applied
  /\ UNCHANGED <<up, doc, backendVars, foreign, store, wasActive>>

-----------------------------------------------------------------------------
(* Commands.                                                               *)

\* update_hotkey_bindings: apply_replacements begins.
Update(new) ==
  /\ up /\ work = "idle"
  /\ previous' = doc /\ doc' = Sanitize(new)
  /\ work' = "update" /\ next' = 1 /\ done' = {}
  /\ wasActive' = active /\ outcome' = "none"
  /\ UNCHANGED <<up, statusVars, backendVars, foreign, store, tray>>

\* HotkeyPreferencesStore::update; the tray is left as it was.
SaveReplacement ==
  /\ work = "save"
  /\ store' = Sanitize(doc)
  /\ work' = "idle"
  /\ UNCHANGED <<up, doc, statusVars, backendVars, foreign, next, done, previous,
                 tray, pastVars>>

\* set_hotkey_paused, with set_paused of the registry.
Pause ==
  /\ up /\ work = "idle" /\ ~doc.paused
  /\ doc' = [doc EXCEPT !.paused = TRUE]
  /\ Unregister(Actions)
  /\ Status(FALSE, TRUE, NoAction)
  /\ work' = "savePaused" /\ outcome' = "none"
  /\ UNCHANGED <<up, foreign, next, done, previous, store, tray, wasActive>>

Resume ==
  /\ up /\ work = "idle" /\ doc.paused
  /\ doc' = [doc EXCEPT !.paused = FALSE]
  /\ work' = "resume" /\ next' = 1 /\ outcome' = "none"
  /\ UNCHANGED <<up, statusVars, backendVars, foreign, done, previous, store,
                 tray, wasActive>>

ResumeUnbound ==
  /\ work = "resume" /\ next \in Actions /\ doc.binding[next] = Unbound
  /\ next' = next + 1
  /\ UNCHANGED <<up, doc, statusVars, backendVars, foreign, work, done, previous,
                 store, tray, pastVars>>

ResumeBound ==
  /\ work = "resume" /\ next \in Actions /\ doc.binding[next] # Unbound
  /\ Accepts(next, doc.binding[next])
  /\ Register(next, doc.binding[next])
  /\ next' = next + 1
  /\ UNCHANGED <<up, doc, statusVars, foreign, work, done, previous, store,
                 tray, pastVars>>

\* Seeded fault: the document is left unpaused when the resume is refused.
ResumeRefusedUnpaused ==
  /\ work = "resume" /\ next \in Actions /\ doc.binding[next] # Unbound
  /\ ~Accepts(next, doc.binding[next])
  /\ Unregister(Actions)
  /\ Status(FALSE, TRUE, next)
  /\ work' = "idle" /\ next' = 1
  /\ UNCHANGED <<up, doc, foreign, done, previous, store, tray, pastVars>>

ResumeRefused ==
  /\ work = "resume" /\ next \in Actions /\ doc.binding[next] # Unbound
  /\ ~Accepts(next, doc.binding[next])
  /\ doc' = [doc EXCEPT !.paused = TRUE]
  /\ Unregister(Actions)
  /\ Status(FALSE, TRUE, next)
  /\ work' = "idle" /\ next' = 1
  /\ UNCHANGED <<up, foreign, done, previous, store, tray, pastVars>>

ResumeEnd ==
  /\ work = "resume" /\ next = LastAction + 1
  /\ Status(AnyBound(doc), FALSE, NoAction)
  /\ work' = "savePaused" /\ next' = 1
  /\ UNCHANGED <<up, doc, backendVars, foreign, done, previous, store, tray,
                 pastVars>>

\* The flag is stored; only if the files could be written is the tray refreshed.
SavePaused ==
  /\ work = "savePaused"
  /\ store' = Sanitize([store EXCEPT !.paused = doc.paused])
  /\ tray' \in {tray, Face(doc, conflict)}
  /\ work' = "idle"
  /\ UNCHANGED <<up, doc, statusVars, backendVars, foreign, next, done, previous,
                 pastVars>>

-----------------------------------------------------------------------------
(* Start, exit, kill, and the other programs.                              *)

Boot(disk) ==
  /\ ~up
  /\ up' = TRUE
  /\ store' = Sanitize(disk) /\ doc' = store'
  /\ Status(FALSE, store'.paused, NoAction)
  /\ work' = "boot" /\ next' = 1 /\ done' = {}
  /\ outcome' = "none"
  /\ UNCHANGED <<backendVars, foreign, previous, tray, wasActive>>

\* The process ends: the system gives back its chords.
Gone ==
  /\ up' = FALSE
  /\ hooks' = {} /\ registered' = NothingRegistered
  /\ handler' = [i \in Ids |-> NoAction]
  /\ Status(FALSE, FALSE, NoAction)
  /\ work' = "idle" /\ next' = 1 /\ done' = {} /\ outcome' = "none"
  /\ wasActive' = FALSE
  /\ doc' = NoDocument /\ previous' = NoDocument /\ store' = NoDocument
  /\ tray' = Face(NoDocument, NoAction)
  /\ UNCHANGED foreign

\* handle_run_event between two commands, or a kill inside one.
Exit == up /\ Gone

ForeignTake(i) ==
  /\ i \notin hooks \cup foreign
  /\ foreign' = foreign \cup {i}
  /\ UNCHANGED <<up, doc, statusVars, backendVars, loopVars, previous, store,
                 tray, pastVars>>

ForeignRelease(i) ==
  /\ i \in foreign
  /\ foreign' = foreign \ {i}
  /\ UNCHANGED <<up, doc, statusVars, backendVars, loopVars, previous, store,
                 tray, pastVars>>

Apply  == ApplyPaused \/ ApplyUnbound \/ ApplyBound \/ ApplyRefused \/ ApplyEnd
Toggle == Pause \/ Resume \/ ResumeUnbound \/ ResumeBound \/ ResumeRefused
          \/ ResumeEnd \/ SavePaused

Next ==
  \/ Apply
  \/ \E new \in Document : Update(new)
  \/ SaveReplacement
  \/ Toggle
  \/ \E disk \in Document : Boot(disk)
  \/ Exit
  \/ \E i \in Ids : ForeignTake(i) \/ ForeignRelease(i)

Spec == Init /\ [][Next]_vars

-----------------------------------------------------------------------------
(* Properties.                                                             *)

\* The two maps of the backend are each other's inverse and every chord in them
\* is held by the system: a press reaches the action it is registered for, and
\* no chord two of them (`SharedState': "they cannot drift").
MapsAgree ==
  \A i \in Ids, a \in Actions :
    handler[i] = a <=> (registered[a] # Unbound /\ Id(registered[a]) = i
                        /\ i \in hooks)

\* What the status calls active is: every bound action answers to its chord,
\* whatever replacements, refusals and resumes went before (status.active).
ActiveMeansLive ==
  (up /\ work = "idle" /\ active) =>
    /\ ~doc.paused
    /\ \A a \in Actions : doc.binding[a] # Unbound => Dispatch(Id(doc.binding[a])) = a

\* Nothing answers to a chord its owner did not choose: none while paused, and
\* after a refused replacement only chords of the document it went back to.
NothingStrays ==
  (up /\ work = "idle") =>
    \A a \in Actions : registered[a] # Unbound =>
      /\ ~doc.paused
      /\ doc.binding[a] # Unbound /\ Id(doc.binding[a]) = Id(registered[a])

\* Between commands the store, which every exit writes and a toggle of the pause
\* starts from, and the registry are the same document to the next start.
StoreFollowsRegistry == (up /\ work = "idle") => Sanitize(store) = Sanitize(doc)

-----------------------------------------------------------------------------
(* Claims the code does not keep.                                          *)

\* hotkey/mod.rs:363-366 and docs/validation/v1-validation-record.md:83: a refused
\* replacement leaves a registry that was active active again.
RefusalKeepsBindings ==
  (up /\ work = "idle" /\ outcome = "conflict" /\ wasActive) => active
=============================================================================
