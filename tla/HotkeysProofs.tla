----------------------------- MODULE HotkeysProofs -----------------------------
(***************************************************************************)
(* What holds of the hotkeys for every number of actions, every set of     *)
(* accelerators, every parser whose canonical texts parse to themselves or *)
(* not at all, and whatever other programs take.                           *)
(*                                                                         *)
(* The invariant has three independent parts.  The backend: what it thinks *)
(* it registered, the system holds, and its two maps are inverse.  The     *)
(* chords: how far each loop over the actions has come, and which document *)
(* the registrations before and behind it belong to.  The documents: every *)
(* one comes out of the parser, and the store has the registry's.          *)
(***************************************************************************)
EXTENDS Hotkeys, TLAPS

--------------------------------------------------------------------------------
\* The backend.
RegisteredAreHeld == \A a \in Actions : registered[a] # Unbound => Id(registered[a]) \in hooks
BackendOK == RegisteredAreHeld /\ MapsAgree

\* What is registered for an action is what a document asks for, if anything
\* is; what a document asks for is registered.
Follows(a, d) ==
  registered[a] # Unbound =>
    /\ ~d.paused /\ d.binding[a] # Unbound /\ Id(d.binding[a]) = Id(registered[a])
Serves(a, d) ==
  d.binding[a] # Unbound => registered[a] # Unbound /\ Id(registered[a]) = Id(d.binding[a])

\* The document the registrations follow that an apply has not reached yet.
Behind == IF work = "update" THEN previous ELSE doc

RestingOK ==
  work \in {"idle"} \cup Saving =>
    /\ \A a \in Actions : Follows(a, doc)
    /\ up /\ active => ~doc.paused /\ \A a \in Actions : Serves(a, doc)
ApplyingOK ==
  work \in Applying =>
    /\ \A a \in done : a < next /\ ~doc.paused /\ doc.binding[a] # Unbound /\ Serves(a, doc)
    /\ \A a \in Actions \ done : IF a < next THEN registered[a] = Unbound /\ doc.binding[a] = Unbound
                                 ELSE Follows(a, Behind)
ResumingOK ==
  work = "resume" =>
    /\ ~doc.paused
    /\ \A a \in Actions : IF a < next THEN Follows(a, doc) /\ Serves(a, doc)
                          ELSE registered[a] = Unbound
DownOK == ~up => work = "idle" /\ registered = NothingRegistered
ChordsOK == RestingOK /\ ApplyingOK /\ ResumingOK /\ DownOK

\* A document out of the parser: parsing it once more changes it at most once.
Parsed(d) == \A a \in Actions : Reparse(Reparse(d.binding[a])) = Reparse(d.binding[a])
Alike(d, e) == \A a \in Actions : Reparse(d.binding[a]) = Reparse(e.binding[a])
DocumentsOK ==
  /\ Parsed(doc) /\ Parsed(previous)
  /\ CASE work = "update"              -> Alike(store, previous) /\ store.paused = previous.paused
       [] work = "resume"              -> Alike(store, doc) /\ store.paused
       [] work = "save"                -> TRUE
       [] work = "savePaused"          -> Alike(store, doc)
       [] work \in {"idle", "boot", "rollback"} -> Alike(store, doc) /\ store.paused = doc.paused

HotkeysInv == TypeOK /\ BackendOK /\ ChordsOK /\ DocumentsOK

--------------------------------------------------------------------------------
\* Documents.
LEMMA ReparseFacts ==
  ASSUME NEW t \in Slot
  PROVE  Reparse(t) \in Slot /\ Reparse(Reparse(Reparse(t))) = Reparse(Reparse(t))
BY ParseAssumption, ActionsAssumption DEF Reparse, Slot

LEMMA SanitizeFacts ==
  ASSUME NEW d \in Document
  PROVE  /\ Sanitize(d) \in Document /\ Sanitize(d).paused = d.paused
         /\ \A a \in Actions : Sanitize(d).binding[a] = Reparse(d.binding[a])
         /\ Parsed(Sanitize(d))
<1>1. \A a \in Actions : d.binding[a] \in Slot
  BY DEF Document
<1>2. [a \in Actions |-> Reparse(d.binding[a])] \in [Actions -> Slot]
  BY <1>1, ReparseFacts
<1>3. /\ Sanitize(d) \in Document /\ Sanitize(d).paused = d.paused
      /\ \A a \in Actions : Sanitize(d).binding[a] = Reparse(d.binding[a])
  BY <1>2 DEF Sanitize, Document
<1>4. Parsed(Sanitize(d))
  BY <1>1, <1>3, ReparseFacts DEF Parsed
<1> QED BY <1>3, <1>4

LEMMA AlikeMeansSame ==
  ASSUME NEW d \in Document, NEW e \in Document, Alike(d, e), d.paused = e.paused
  PROVE  Sanitize(d) = Sanitize(e)
<1>1. [a \in Actions |-> Reparse(d.binding[a])] = [a \in Actions |-> Reparse(e.binding[a])]
  BY DEF Alike
<1> QED BY <1>1 DEF Sanitize, Document

LEMMA NoDocumentFacts == NoDocument \in Document /\ Parsed(NoDocument)
BY DEF NoDocument, NothingRegistered, Document, Slot, Parsed, Reparse

--------------------------------------------------------------------------------
\* The backend's two operations.
BackendTypes == /\ registered \in [Actions -> Slot] /\ hooks \subseteq Ids
                /\ handler \in [Ids -> Actions \cup {NoAction}]

LEMMA RegisteredIds ==
  ASSUME BackendTypes
  PROVE  \A a \in Actions : registered[a] # Unbound => Id(registered[a]) \in Ids
BY IdsAssumption DEF BackendTypes, Slot

LEMMA RegisterStep ==
  ASSUME BackendTypes, BackendOK, NEW a \in Actions, NEW t \in Texts,
         Accepts(a, t), Register(a, t)
  PROVE  /\ BackendTypes' /\ BackendOK'
         /\ registered'[a] # Unbound /\ Id(registered'[a]) = Id(t)
         /\ \A b \in Actions \ {a} : registered'[b] = registered[b]
<1>1. CASE AlreadyIs(a, t)
  <2>1. UNCHANGED <<registered, handler, hooks>>
    BY <1>1 DEF Register, backendVars
  <2> QED BY <1>1, <2>1 DEF AlreadyIs, BackendTypes, BackendOK, RegisteredAreHeld, MapsAgree
<1>2. CASE ~AlreadyIs(a, t)
  <2>1. /\ hooks' = hooks \cup {Id(t)}
        /\ handler' = [i \in Ids |-> IF i = Id(t) THEN a
                                     ELSE IF i \in HookOf(a) THEN NoAction ELSE handler[i]]
        /\ registered' = [registered EXCEPT ![a] = t]
        /\ Id(t) \notin hooks /\ Id(t) \in Ids
    BY <1>2, IdsAssumption DEF Register, Accepts, Free
  <2>2. /\ registered'[a] = t /\ t # Unbound /\ t \in Slot
        /\ \A b \in Actions \ {a} : registered'[b] = registered[b]
    BY <2>1, ActionsAssumption DEF BackendTypes, Slot
  <2>3. BackendTypes'
    BY <2>1, <2>2 DEF BackendTypes
  <2>4. RegisteredAreHeld'
    BY <2>1, <2>2 DEF BackendOK, RegisteredAreHeld
  <2>5. ASSUME NEW i \in Ids, NEW b \in Actions
        PROVE  handler'[i] = b <=> (registered'[b] # Unbound /\ Id(registered'[b]) = i /\ i \in hooks')
    <3>1. handler[i] = b <=> (registered[b] # Unbound /\ Id(registered[b]) = i /\ i \in hooks)
      BY DEF BackendOK, MapsAgree
    <3>2. handler[i] = a <=> (registered[a] # Unbound /\ Id(registered[a]) = i /\ i \in hooks)
      BY DEF BackendOK, MapsAgree
    <3>3. registered[b] # Unbound => Id(registered[b]) \in hooks
      BY DEF BackendOK, RegisteredAreHeld
    <3>4. b # NoAction
      BY DEF Actions, NoAction
    <3>5. i \in HookOf(a) <=> registered[a] # Unbound /\ Id(registered[a]) = i
      BY DEF HookOf
    <3>6. CASE i = Id(t)
      BY <2>1, <2>2, <3>1, <3>3, <3>6
    <3>7. CASE i # Id(t)
      <4>1. handler'[i] = IF i \in HookOf(a) THEN NoAction ELSE handler[i]
        BY <2>1, <3>7
      <4>2. CASE b = a
        BY <2>1, <2>2, <3>2, <3>4, <3>5, <3>7, <4>1, <4>2 DEF BackendOK, RegisteredAreHeld
      <4>3. CASE b # a
        BY <2>1, <2>2, <3>1, <3>2, <3>4, <3>5, <3>7, <4>1, <4>3 DEF BackendOK, RegisteredAreHeld
      <4> QED BY <4>2, <4>3
    <3> QED BY <3>6, <3>7
  <2>6. MapsAgree'
    BY <2>5 DEF MapsAgree
  <2> QED BY <2>2, <2>3, <2>4, <2>6 DEF BackendOK
<1> QED BY <1>1, <1>2

LEMMA UnregisterStep ==
  ASSUME BackendTypes, BackendOK, NEW S \in SUBSET Actions, Unregister(S)
  PROVE  /\ BackendTypes' /\ BackendOK'
         /\ registered' = [a \in Actions |-> IF a \in S THEN Unbound ELSE registered[a]]
<1>1. PICK gone : gone = UNION {HookOf(a) : a \in S}
  OBVIOUS
<1>2. /\ hooks' = hooks \ gone
      /\ handler' = [i \in Ids |-> IF i \in gone THEN NoAction ELSE handler[i]]
      /\ registered' = [a \in Actions |-> IF a \in S THEN Unbound ELSE registered[a]]
  BY <1>1 DEF Unregister
<1>3. \A i : i \in gone <=> \E a \in S : registered[a] # Unbound /\ Id(registered[a]) = i
  BY <1>1 DEF HookOf
<1>4. BackendTypes'
  BY <1>2 DEF BackendTypes, Slot
\* No two actions share a chord.
<1>5. ASSUME NEW a \in Actions, NEW b \in Actions, registered[a] # Unbound,
             registered[b] # Unbound, Id(registered[a]) = Id(registered[b])
      PROVE  a = b
  <2>1. PICK i \in Ids : i = Id(registered[a])
    BY <1>5, RegisteredIds
  <2>2. handler[i] = a /\ handler[i] = b
    BY <1>5, <2>1 DEF BackendOK, MapsAgree, RegisteredAreHeld
  <2> QED BY <2>2
<1>6. RegisteredAreHeld'
  <2> SUFFICES ASSUME NEW b \in Actions, registered'[b] # Unbound
               PROVE  Id(registered'[b]) \in hooks'
    BY DEF RegisteredAreHeld
  <2>1. b \notin S /\ registered'[b] = registered[b]
    BY <1>2
  <2>2. Id(registered[b]) \in hooks
    BY <2>1 DEF BackendOK, RegisteredAreHeld
  <2>3. Id(registered[b]) \notin gone
    BY <1>3, <1>5, <2>1
  <2> QED BY <1>2, <2>1, <2>2, <2>3
<1>7. ASSUME NEW i \in Ids, NEW b \in Actions
      PROVE  handler'[i] = b <=> (registered'[b] # Unbound /\ Id(registered'[b]) = i /\ i \in hooks')
  <2>1. handler[i] = b <=> (registered[b] # Unbound /\ Id(registered[b]) = i /\ i \in hooks)
    BY DEF BackendOK, MapsAgree
  <2>2. b # NoAction
    BY DEF Actions, NoAction
  <2>3. CASE b \in S
    <3>1. registered'[b] = Unbound
      BY <1>2, <2>3
    <3>2. handler[i] = b => i \in gone
      BY <1>3, <2>1, <2>3
    <3> QED BY <1>2, <2>2, <3>1, <3>2
  <2>4. CASE b \notin S
    <3>1. registered'[b] = registered[b]
      BY <1>2, <2>4
    <3>2. registered[b] # Unbound /\ Id(registered[b]) = i => i \notin gone
      BY <1>3, <1>5, <2>4
    <3> QED BY <1>2, <2>1, <2>2, <3>1, <3>2
  <2> QED BY <2>3, <2>4
<1>8. MapsAgree'
  BY <1>7 DEF MapsAgree
<1> QED BY <1>2, <1>4, <1>6, <1>8 DEF BackendOK

--------------------------------------------------------------------------------
\* The backend through every step.
LEMMA BackendStep ==
  ASSUME TypeOK, BackendOK, [Next]_vars
  PROVE  BackendTypes' /\ BackendOK'
<1>0. BackendTypes /\ {next} \subseteq Actions \cup {LastAction + 1} /\ done \subseteq Actions
  BY ActionsAssumption DEF TypeOK, BackendTypes, Actions
<1>1. ASSUME UNCHANGED backendVars PROVE BackendTypes' /\ BackendOK'
  BY <1>0, <1>1 DEF backendVars, BackendTypes, BackendOK, RegisteredAreHeld, MapsAgree
<1>2. ASSUME NEW S \in SUBSET Actions, Unregister(S) PROVE BackendTypes' /\ BackendOK'
  BY <1>0, <1>2, UnregisterStep
<1>3. ASSUME next \in Actions, doc.binding[next] # Unbound, Accepts(next, doc.binding[next]),
             Register(next, doc.binding[next])
      PROVE  BackendTypes' /\ BackendOK'
  <2>1. doc.binding[next] \in Texts
    BY <1>3 DEF TypeOK, Document, Slot
  <2> QED BY <1>0, <1>3, <2>1, RegisterStep
<1>4. ASSUME Apply PROVE BackendTypes' /\ BackendOK'
  BY <1>0, <1>1, <1>2, <1>3, <1>4
     DEF Apply, ApplyPaused, ApplyUnbound, ApplyBound, ApplyRefused, ApplyEnd
<1>5. ASSUME Toggle PROVE BackendTypes' /\ BackendOK'
  BY <1>0, <1>1, <1>2, <1>3, <1>5 DEF Toggle, Pause, Resume, ResumeUnbound, ResumeBound,
     ResumeRefused, ResumeEnd, SavePaused
<1>6. ASSUME Exit PROVE BackendTypes' /\ BackendOK'
  <2>1. /\ hooks' = {} /\ registered' = [a \in Actions |-> Unbound]
        /\ handler' = [i \in Ids |-> NoAction]
    BY <1>6 DEF Exit, Gone, NothingRegistered
  <2>2. \A a \in Actions : a # NoAction
    BY DEF Actions, NoAction
  <2> QED BY <2>1, <2>2 DEF BackendTypes, Slot, BackendOK, RegisteredAreHeld, MapsAgree
<1>7. ASSUME NEW d \in Document, Update(d) \/ Boot(d) PROVE BackendTypes' /\ BackendOK'
  BY <1>1, <1>7 DEF Update, Boot
<1>8. ASSUME NEW i \in Ids, ForeignTake(i) \/ ForeignRelease(i) PROVE BackendTypes' /\ BackendOK'
  BY <1>1, <1>8 DEF ForeignTake, ForeignRelease
<1>9. CASE SaveReplacement \/ UNCHANGED vars
  BY <1>1, <1>9 DEF SaveReplacement, vars
<1> QED BY <1>4, <1>5, <1>6, <1>7, <1>8, <1>9 DEF Next

--------------------------------------------------------------------------------
\* The types.
LEMMA TypeStep ==
  ASSUME TypeOK, BackendOK, [Next]_vars
  PROVE  TypeOK'
<1>0. BackendTypes'
  BY BackendStep
<1>1. \A d \in Document, refused \in Actions \cup {NoAction} : Face(d, refused) \in Shown
  BY DEF Face, Shown, Document
<1>2. NoDocument \in Document /\ NoAction \in Actions \cup {NoAction}
  BY NoDocumentFacts
<1>3. LastAction + 1 \in 1..LastAction + 1 /\ 1 \in 1..LastAction + 1
        /\ \A n \in Actions : n \in Nat /\ n + 1 \in 1..LastAction + 1
  BY ActionsAssumption DEF Actions
<1>4. CASE ApplyPaused \/ ApplyEnd
  BY <1>0, <1>1, <1>2, <1>3, <1>4 DEF TypeOK, BackendTypes, ApplyPaused, ApplyEnd, Applied, Status,
     Applying, Saving, backendVars
<1>5. CASE ApplyUnbound \/ ApplyBound
  BY <1>0, <1>3, <1>5 DEF TypeOK, BackendTypes, ApplyUnbound, ApplyBound, statusVars, pastVars
<1>6. CASE ApplyRefused
  BY <1>0, <1>1, <1>2, <1>3, <1>6 DEF TypeOK, BackendTypes, ApplyRefused, Status, Applying, Saving
<1>7. ASSUME NEW new \in Document, Update(new) PROVE TypeOK'
  BY <1>0, <1>3, <1>7, SanitizeFacts DEF TypeOK, BackendTypes, Update, statusVars, Applying
<1>8. CASE SaveReplacement
  BY <1>0, <1>8, SanitizeFacts DEF TypeOK, BackendTypes, SaveReplacement, statusVars, pastVars
<1>9. ASSUME Pause \/ Resume \/ ResumeRefused PROVE TypeOK'
  <2>1. \A paused \in BOOLEAN : [doc EXCEPT !.paused = paused] \in Document
    BY DEF TypeOK, Document
  <2> QED BY <1>0, <1>2, <1>3, <1>9, <2>1 DEF TypeOK, BackendTypes, Pause, Resume, ResumeRefused, Status,
     statusVars, pastVars, Saving
<1>10. CASE ResumeUnbound \/ ResumeBound
  BY <1>0, <1>3, <1>10 DEF TypeOK, BackendTypes, ResumeUnbound, ResumeBound, statusVars, pastVars
<1>11. CASE ResumeEnd
  BY <1>0, <1>2, <1>3, <1>11 DEF TypeOK, BackendTypes, ResumeEnd, Status, AnyBound, pastVars, Saving
<1>12. CASE SavePaused
  <2>1. [store EXCEPT !.paused = doc.paused] \in Document
    BY DEF TypeOK, Document
  <2> QED BY <1>0, <1>1, <1>12, <2>1, SanitizeFacts DEF TypeOK, BackendTypes, SavePaused,
     statusVars, pastVars
<1>13. ASSUME NEW disk \in Document, Boot(disk) PROVE TypeOK'
  <2>1. store' \in Document /\ store'.paused \in BOOLEAN
    BY <1>13, SanitizeFacts DEF Boot, Document
  <2> QED BY <1>0, <1>2, <1>3, <1>13, <2>1 DEF TypeOK, BackendTypes, Boot, Status, Applying
<1>14. CASE Exit
  BY <1>0, <1>1, <1>2, <1>3, <1>14 DEF TypeOK, BackendTypes, Exit, Gone, Status
<1>15. ASSUME NEW i \in Ids, ForeignTake(i) \/ ForeignRelease(i) PROVE TypeOK'
  BY <1>0, <1>15 DEF TypeOK, BackendTypes, ForeignTake, ForeignRelease, statusVars, loopVars, pastVars
<1>16. CASE UNCHANGED vars
  BY <1>0, <1>16 DEF TypeOK, BackendTypes, vars, statusVars, loopVars, pastVars
<1> QED BY <1>4, <1>5, <1>6, <1>7, <1>8, <1>9, <1>10, <1>11, <1>12, <1>13, <1>14, <1>15, <1>16
        DEF Next, Apply, Toggle

--------------------------------------------------------------------------------
\* The chords.
LEMMA ChordsStep ==
  ASSUME TypeOK, BackendOK, ChordsOK, [Next]_vars
  PROVE  ChordsOK'
<1> USE DEF ChordsOK
<1>0. /\ BackendTypes
      /\ work = "idle" \/ (up /\ work \in Applying \cup Saving \cup {"resume"})
      /\ next \in Int /\ LastAction \in Int /\ \A a \in Actions : a \in Int /\ a <= LastAction
      /\ done \subseteq Actions
  BY ActionsAssumption DEF TypeOK, BackendTypes, Actions, DownOK, Applying, Saving
\* Steps that touch neither chords nor documents nor the loop.
<1>1. ASSUME UNCHANGED <<up, doc, active, registered, work, next, done, previous>>
      PROVE  ChordsOK'
  BY <1>1 DEF RestingOK, ApplyingOK, ResumingOK, DownOK, Follows, Serves, Behind
\* Nothing is registered any more, and the loop is over.
<1>2. ASSUME up, up', work' \in {"idle"} \cup Saving, ~active', Unregister(Actions)
      PROVE  ChordsOK'
  <2>1. \A a \in Actions : registered'[a] = Unbound
    BY <1>0, <1>2, UnregisterStep
  <2>2. work' \notin Applying /\ work' # "resume"
    BY <1>2 DEF Applying, Saving
  <2> QED BY <1>2, <2>1, <2>2 DEF RestingOK, ApplyingOK, ResumingOK, DownOK, Follows
<1>3. CASE ApplyPaused
  BY <1>0, <1>2, <1>3 DEF ApplyPaused, Status, Applied, Applying, Saving
<1>4. CASE ApplyUnbound
  <2>1. registered' = [a \in Actions |-> IF a = next THEN Unbound ELSE registered[a]]
    <3>1. {next} \in SUBSET Actions /\ Unregister({next})
      BY <1>4 DEF ApplyUnbound
    <3>2. registered' = [a \in Actions |-> IF a \in {next} THEN Unbound ELSE registered[a]]
      BY <1>0, <3>1, UnregisterStep
    <3> QED BY <3>2
  <2>2. next \notin done /\ next' = next + 1
    BY <1>0, <1>4 DEF ApplyUnbound, ApplyingOK
  <2>3. UNCHANGED <<up, doc, work, done, previous>> /\ work \in Applying /\ doc.binding[next] = Unbound
    BY <1>4 DEF ApplyUnbound
  <2>4. ApplyingOK'
    <3>1. ASSUME NEW a \in done
          PROVE  a < next' /\ ~doc.paused /\ doc.binding[a] # Unbound /\ Serves(a, doc)'
      <4>1. a < next /\ ~doc.paused /\ doc.binding[a] # Unbound /\ Serves(a, doc) /\ a # next /\ a \in Actions
        BY <1>0, <2>2, <2>3 DEF ApplyingOK
      <4> QED BY <1>0, <2>1, <2>2, <2>3, <4>1 DEF Serves
    <3>2. ASSUME NEW a \in Actions \ done
          PROVE  IF a < next' THEN registered'[a] = Unbound /\ doc.binding[a] = Unbound
                 ELSE Follows(a, Behind)'
      <4>1. IF a < next THEN registered[a] = Unbound /\ doc.binding[a] = Unbound ELSE Follows(a, Behind)
        BY <2>3 DEF ApplyingOK
      <4>2. a < next' <=> a < next \/ a = next
        BY <1>0, <2>2
      <4> QED BY <1>0, <2>1, <2>2, <2>3, <4>1, <4>2 DEF Follows, Behind
    <3> QED BY <2>3, <3>1, <3>2 DEF ApplyingOK
  <2> QED BY <1>0, <2>3, <2>4 DEF RestingOK, ResumingOK, DownOK, Applying, Saving
<1>5. CASE ApplyBound
  <2>1. doc.binding[next] \in Texts /\ next \in Actions
    BY <1>5 DEF ApplyBound, TypeOK, Document, Slot
  <2>2. /\ registered'[next] # Unbound /\ Id(registered'[next]) = Id(doc.binding[next])
        /\ \A b \in Actions \ {next} : registered'[b] = registered[b]
    BY <1>0, <1>5, <2>1, RegisterStep DEF ApplyBound
  <2>3. /\ UNCHANGED <<up, doc, work, previous>> /\ work \in Applying /\ doc.binding[next] # Unbound
        /\ ~doc.paused /\ next' = next + 1 /\ done' = done \cup {next}
    BY <1>5 DEF ApplyBound
  <2>4. ApplyingOK'
    <3>1. ASSUME NEW a \in done'
          PROVE  a < next' /\ ~doc.paused /\ doc.binding[a] # Unbound /\ Serves(a, doc)'
      <4>1. CASE a = next
        BY <1>0, <2>2, <2>3, <4>1 DEF Serves
      <4>2. CASE a # next
        <5>1. a \in done /\ a < next /\ doc.binding[a] # Unbound /\ Serves(a, doc) /\ a \in Actions
          BY <1>0, <2>3, <4>2 DEF ApplyingOK
        <5> QED BY <1>0, <2>2, <2>3, <4>2, <5>1 DEF Serves
      <4> QED BY <4>1, <4>2
    <3>2. ASSUME NEW a \in Actions \ done'
          PROVE  IF a < next' THEN registered'[a] = Unbound /\ doc.binding[a] = Unbound
                 ELSE Follows(a, Behind)'
      <4>1. IF a < next THEN registered[a] = Unbound /\ doc.binding[a] = Unbound ELSE Follows(a, Behind)
        BY <2>3 DEF ApplyingOK
      <4>2. a # next /\ (a < next' <=> a < next)
        BY <1>0, <2>3
      <4> QED BY <2>2, <2>3, <4>1, <4>2 DEF Follows, Behind
    <3> QED BY <2>3, <3>1, <3>2 DEF ApplyingOK
  <2> QED BY <1>0, <2>3, <2>4 DEF RestingOK, ResumingOK, DownOK, Applying, Saving
<1>6. CASE ApplyRefused
  <2>1. /\ \A a \in done : registered'[a] = Unbound
        /\ \A a \in Actions \ done : registered'[a] = registered[a]
    BY <1>0, <1>6, UnregisterStep DEF ApplyRefused
  <2>2. /\ work \in Applying /\ up /\ up' = up /\ ~active' /\ next' = 1 /\ done' = {}
        /\ doc' = Behind
        /\ work' = IF work = "update" THEN "rollback" ELSE "idle"
    BY <1>0, <1>6 DEF ApplyRefused, Status, Behind, Applying, Saving
  <2>3. \A a \in Actions : Follows(a, doc)'
    <3> TAKE a \in Actions
    <3>1. CASE a \in done
      BY <2>1, <3>1 DEF Follows
    <3>2. CASE a \notin done
      <4>1. registered[a] = Unbound \/ Follows(a, Behind)
        BY <2>2, <3>2 DEF ApplyingOK
      <4> QED BY <2>1, <2>2, <3>2, <4>1 DEF Follows
    <3> QED BY <3>1, <3>2
  <2>4. CASE work = "update"
    <3>1. work' = "rollback" /\ Behind' = doc'
      BY <2>2, <2>4 DEF Behind
    <3>2. ApplyingOK'
      BY <1>0, <2>2, <2>3, <3>1 DEF ApplyingOK, Follows, Actions
    <3> QED BY <2>2, <3>1, <3>2 DEF RestingOK, ResumingOK, DownOK, Saving
  <2>5. CASE work # "update"
    BY <2>2, <2>3, <2>5 DEF RestingOK, ApplyingOK, ResumingOK, DownOK, Applying
  <2> QED BY <2>4, <2>5
<1>7. CASE ApplyEnd
  <2>1. /\ work \in Applying /\ up /\ ~doc.paused /\ next = LastAction + 1
        /\ UNCHANGED <<up, doc, registered>> /\ work' \in {"idle"} \cup Saving
    BY <1>0, <1>7 DEF ApplyEnd, backendVars, Applied, Applying, Saving
  <2>2. ASSUME NEW a \in Actions PROVE Follows(a, doc) /\ Serves(a, doc)
    <3>1. a < next
      BY <1>0, <2>1
    <3>2. CASE a \in done
      BY <2>1, <3>2 DEF ApplyingOK, Follows, Serves
    <3>3. CASE a \notin done
      BY <2>1, <3>1, <3>3 DEF ApplyingOK, Follows, Serves
    <3> QED BY <3>2, <3>3
  <2>3. \A a \in Actions : Follows(a, doc)' /\ Serves(a, doc)'
    BY <2>1, <2>2 DEF Follows, Serves
  <2> QED BY <2>1, <2>3 DEF RestingOK, ApplyingOK, ResumingOK, DownOK, Applying, Saving
<1>8. ASSUME NEW new \in Document, Update(new) PROVE ChordsOK'
  <2>1. /\ up /\ up' = up /\ work = "idle" /\ previous' = doc /\ work' = "update"
        /\ next' = 1 /\ done' = {} /\ registered' = registered
    BY <1>8 DEF Update, backendVars
  <2>2. \A a \in Actions : Follows(a, doc) /\ ~(a < 1)
    BY <1>0, <2>1 DEF RestingOK, Actions
  <2>3. Behind' = doc
    BY <2>1 DEF Behind
  <2>4. ApplyingOK'
    BY <2>1, <2>2, <2>3 DEF ApplyingOK, Follows
  <2> QED BY <2>1, <2>4 DEF RestingOK, ResumingOK, DownOK, Saving
<1>9. CASE SaveReplacement \/ SavePaused
  <2>1. /\ UNCHANGED <<up, doc, active, registered>> /\ work \in Saving /\ work' = "idle"
        /\ up
    BY <1>0, <1>9 DEF SaveReplacement, SavePaused, statusVars, backendVars, Saving, DownOK
  <2> QED BY <2>1 DEF RestingOK, ApplyingOK, ResumingOK, DownOK, Follows, Serves, Applying, Saving
<1>10. CASE Pause
  BY <1>2, <1>10 DEF Pause, Status, Saving
<1>11. CASE Resume
  <2>1. /\ up /\ up' = up /\ work = "idle" /\ doc.paused /\ doc' = [doc EXCEPT !.paused = FALSE]
        /\ work' = "resume" /\ next' = 1 /\ registered' = registered
    BY <1>11 DEF Resume, backendVars
  <2>2. ~doc'.paused
    BY <2>1 DEF TypeOK, Document
  <2>3. \A a \in Actions : registered[a] = Unbound /\ ~(a < 1)
    BY <1>0, <2>1 DEF RestingOK, Follows, Actions
  <2> QED BY <2>1, <2>2, <2>3 DEF RestingOK, ApplyingOK, ResumingOK, DownOK, Applying, Saving
<1>12. CASE ResumeUnbound \/ ResumeBound
  <2>0. PICK n \in Actions : n = next
    BY <1>12 DEF ResumeUnbound, ResumeBound
  <2>1. /\ UNCHANGED <<up, doc, work>> /\ work = "resume" /\ next' = n + 1
    BY <1>12, <2>0 DEF ResumeUnbound, ResumeBound
  <2>2. /\ \A b \in Actions \ {n} : registered'[b] = registered[b]
        /\ Follows(n, doc)' /\ Serves(n, doc)'
    <3>1. CASE ResumeUnbound
      <4>1. registered[n] = Unbound /\ doc.binding[n] = Unbound /\ registered' = registered
        BY <1>0, <2>0, <2>1, <3>1 DEF ResumeUnbound, backendVars, ResumingOK
      <4> QED BY <2>1, <4>1 DEF Follows, Serves
    <3>2. CASE ResumeBound
      <4>1. doc.binding[n] \in Texts /\ doc.binding[n] # Unbound
        BY <2>0, <3>2 DEF ResumeBound, TypeOK, Document, Slot
      <4>2. /\ registered'[n] # Unbound /\ Id(registered'[n]) = Id(doc.binding[n])
            /\ \A b \in Actions \ {n} : registered'[b] = registered[b]
        BY <1>0, <2>0, <3>2, <4>1, RegisterStep DEF ResumeBound
      <4>3. ~doc.paused
        BY <2>1 DEF ResumingOK
      <4> QED BY <2>1, <4>1, <4>2, <4>3 DEF Follows, Serves
    <3> QED BY <1>12, <3>1, <3>2
  <2>3. ASSUME NEW a \in Actions
        PROVE  IF a < next' THEN Follows(a, doc)' /\ Serves(a, doc)' ELSE registered'[a] = Unbound
    <3>1. a < next' <=> a < n \/ a = n
      BY <1>0, <2>1
    <3>2. IF a < n THEN Follows(a, doc) /\ Serves(a, doc) ELSE registered[a] = Unbound
      BY <2>0, <2>1 DEF ResumingOK
    <3>3. CASE a = n
      BY <2>2, <3>1, <3>3
    <3>4. CASE a # n
      BY <2>1, <2>2, <3>1, <3>2, <3>4 DEF Follows, Serves
    <3> QED BY <3>3, <3>4
  <2>4. ~doc'.paused
    BY <2>1 DEF ResumingOK
  <2> QED BY <2>1, <2>3, <2>4 DEF RestingOK, ApplyingOK, ResumingOK, DownOK, Applying, Saving
<1>13. CASE ResumeRefused
  BY <1>0, <1>2, <1>13 DEF ResumeRefused, Status, Applying, Saving
<1>14. CASE ResumeEnd
  <2>1. /\ UNCHANGED <<up, doc, registered>> /\ work = "resume" /\ work' = "savePaused"
        /\ next = LastAction + 1
    BY <1>14 DEF ResumeEnd, backendVars
  <2>2. ~doc.paused /\ \A a \in Actions : Follows(a, doc)' /\ Serves(a, doc)'
    <3>1. \A a \in Actions : a < next
      BY <1>0, <2>1
    <3> QED BY <2>1, <3>1 DEF ResumingOK, Follows, Serves
  <2> QED BY <1>0, <2>1, <2>2 DEF RestingOK, ApplyingOK, ResumingOK, DownOK, Applying, Saving
<1>15. ASSUME NEW disk \in Document, Boot(disk) PROVE ChordsOK'
  <2>1. /\ ~up /\ up' /\ work' = "boot" /\ next' = 1 /\ done' = {} /\ registered' = registered
        /\ registered = NothingRegistered
    BY <1>15 DEF Boot, backendVars, DownOK
  <2>2. \A a \in Actions : registered'[a] = Unbound /\ ~(a < 1)
    BY <1>0, <2>1 DEF NothingRegistered, Actions
  <2> QED BY <2>1, <2>2 DEF RestingOK, ApplyingOK, ResumingOK, DownOK, Follows, Saving
<1>16. CASE Exit
  <2>1. /\ ~up' /\ work' = "idle" /\ registered' = NothingRegistered
        /\ \A a \in Actions : registered'[a] = Unbound
    BY <1>16 DEF Exit, Gone, NothingRegistered
  <2> QED BY <2>1 DEF RestingOK, ApplyingOK, ResumingOK, DownOK, Follows, Applying
<1>17. ASSUME NEW i \in Ids, ForeignTake(i) \/ ForeignRelease(i) PROVE ChordsOK'
  BY <1>1, <1>17 DEF ForeignTake, ForeignRelease, statusVars, backendVars, loopVars
<1>18. CASE UNCHANGED vars
  BY <1>1, <1>18 DEF vars, statusVars, backendVars, loopVars
<1> QED BY <1>3, <1>4, <1>5, <1>6, <1>7, <1>8, <1>9, <1>10, <1>11, <1>12, <1>13, <1>14, <1>15,
        <1>16, <1>17, <1>18 DEF Next, Apply, Toggle

--------------------------------------------------------------------------------
\* The documents.
LEMMA DocumentsStep ==
  ASSUME TypeOK, DownOK, DocumentsOK, [Next]_vars
  PROVE  DocumentsOK'
<1> USE DEF DocumentsOK, Applying, Saving
<1>0. doc \in Document /\ previous \in Document /\ store \in Document /\ doc.paused \in BOOLEAN
  BY DEF TypeOK, Document
<1>1. ASSUME UNCHANGED <<doc, previous, store, work>> PROVE DocumentsOK'
  BY <1>1 DEF Alike, Parsed
<1>2. CASE ApplyPaused \/ ApplyEnd
  <2>1. /\ UNCHANGED <<doc, store>> /\ previous' = NoDocument /\ work \in Applying
        /\ work' = IF work = "update" THEN "save" ELSE "idle"
    BY <1>2 DEF ApplyPaused, ApplyEnd, Applied
  <2>2. Parsed(doc)' /\ Parsed(previous)'
    BY <2>1, NoDocumentFacts DEF Parsed
  <2> QED BY <2>1, <2>2 DEF Alike
<1>3. CASE ApplyUnbound \/ ApplyBound \/ ResumeUnbound \/ ResumeBound
  BY <1>1, <1>3 DEF ApplyUnbound, ApplyBound, ResumeUnbound, ResumeBound
<1>4. CASE ApplyRefused
  <2>1. /\ store' = store /\ previous' = NoDocument /\ work \in Applying
        /\ doc' = IF work = "update" THEN previous ELSE doc
        /\ work' = IF work = "update" THEN "rollback" ELSE "idle"
    BY <1>4 DEF ApplyRefused
  <2>2. Parsed(doc)' /\ Parsed(previous)'
    BY <2>1, NoDocumentFacts DEF Parsed
  <2> QED BY <2>1, <2>2 DEF Alike
<1>5. ASSUME NEW new \in Document, Update(new) PROVE DocumentsOK'
  <2>1. /\ store' = store /\ previous' = doc /\ work = "idle" /\ work' = "update"
        /\ doc' = Sanitize(new)
    BY <1>5 DEF Update
  <2>2. Parsed(doc)' /\ Parsed(previous)'
    BY <2>1, SanitizeFacts DEF Parsed
  <2> QED BY <2>1, <2>2 DEF Alike
<1>6. CASE SaveReplacement
  <2>1. UNCHANGED <<doc, previous>> /\ store' = Sanitize(doc) /\ work' = "idle"
    BY <1>6 DEF SaveReplacement
  <2>2. store'.paused = doc'.paused /\ Alike(store, doc)'
    BY <1>0, <2>1, SanitizeFacts DEF Alike, Parsed
  <2> QED BY <2>1, <2>2 DEF Parsed
<1>7. ASSUME UNCHANGED <<previous, store>>, NEW p \in BOOLEAN, doc' = [doc EXCEPT !.paused = p]
      PROVE  /\ Parsed(doc)' /\ Parsed(previous)' /\ doc'.paused = p
             /\ Alike(store, doc) => Alike(store, doc)'
  <2>1. doc'.binding = doc.binding /\ doc'.paused = p
    BY <1>0, <1>7 DEF Document
  <2> QED BY <1>7, <2>1 DEF Parsed, Alike
<1>8. CASE Pause
  <2>1. /\ UNCHANGED <<previous, store>> /\ doc' = [doc EXCEPT !.paused = TRUE]
        /\ work = "idle" /\ work' = "savePaused"
    BY <1>8 DEF Pause
  <2> QED BY <1>7, <2>1
<1>9. CASE Resume
  <2>1. /\ UNCHANGED <<previous, store>> /\ doc' = [doc EXCEPT !.paused = FALSE] /\ doc.paused
        /\ work = "idle" /\ work' = "resume"
    BY <1>9 DEF Resume
  <2> QED BY <1>7, <2>1
<1>10. CASE ResumeRefused
  <2>1. /\ UNCHANGED <<previous, store>> /\ doc' = [doc EXCEPT !.paused = TRUE]
        /\ work = "resume" /\ work' = "idle"
    BY <1>10 DEF ResumeRefused
  <2>2. store.paused = TRUE /\ Alike(store, doc)
    BY <1>0, <2>1 DEF Document
  <2> QED BY <1>7, <2>1, <2>2
<1>11. CASE ResumeEnd
  <2>1. UNCHANGED <<doc, previous, store>> /\ work = "resume" /\ work' = "savePaused"
    BY <1>11 DEF ResumeEnd
  <2> QED BY <2>1 DEF Parsed, Alike
<1>12. CASE SavePaused
  <2>1. PICK s \in Document : s = [store EXCEPT !.paused = doc.paused]
    BY <1>0 DEF Document
  <2>2. s.paused = doc.paused /\ s.binding = store.binding
    BY <1>0, <2>1 DEF Document
  <2>3. UNCHANGED <<doc, previous>> /\ store' = Sanitize(s) /\ work = "savePaused" /\ work' = "idle"
    BY <1>12, <2>1 DEF SavePaused
  <2>4. store'.paused = doc.paused /\ \A a \in Actions : store'.binding[a] = Reparse(store.binding[a])
    BY <2>2, <2>3, SanitizeFacts
  <2>5. Alike(store, doc)'
    BY <2>3, <2>4 DEF Alike, Parsed
  <2> QED BY <2>3, <2>4, <2>5 DEF Parsed
<1>13. ASSUME NEW disk \in Document, Boot(disk) PROVE DocumentsOK'
  <2>1. /\ store' = Sanitize(disk) /\ doc' = store' /\ work' = "boot" /\ previous' = previous
    BY <1>13 DEF Boot
  <2>2. Parsed(doc)' /\ Parsed(previous)'
    BY <2>1, SanitizeFacts DEF Parsed
  <2> QED BY <2>1, <2>2 DEF Alike
<1>14. CASE Exit
  <2>1. doc' = NoDocument /\ previous' = NoDocument /\ store' = NoDocument /\ work' = "idle"
    BY <1>14 DEF Exit, Gone
  <2>2. Parsed(doc)' /\ Parsed(previous)'
    BY <2>1, NoDocumentFacts DEF Parsed
  <2> QED BY <2>1, <2>2 DEF Alike
<1>15. ASSUME NEW i \in Ids, ForeignTake(i) \/ ForeignRelease(i) PROVE DocumentsOK'
  BY <1>1, <1>15 DEF ForeignTake, ForeignRelease, loopVars
<1>16. CASE UNCHANGED vars
  BY <1>1, <1>16 DEF vars, loopVars
<1> QED BY <1>2, <1>3, <1>4, <1>5, <1>6, <1>8, <1>9, <1>10, <1>11, <1>12, <1>13, <1>14, <1>15, <1>16
        DEF Next, Apply, Toggle

--------------------------------------------------------------------------------
LEMMA HotkeysInit == Init => HotkeysInv
<1> SUFFICES ASSUME Init PROVE HotkeysInv
  OBVIOUS
<1>1. \A a \in Actions : registered[a] = Unbound /\ a # NoAction
  BY DEF Init, NothingRegistered, Actions, NoAction
<1>2. TypeOK
  <2>1. 1 \in 1..LastAction + 1 /\ foreign \subseteq Ids
    BY ActionsAssumption DEF Init
  <2>2. tray \in Shown
    BY NoDocumentFacts DEF Init, Face, Shown, Document
  <2>3. registered \in [Actions -> Slot]
    BY <1>1 DEF Init, NothingRegistered, Slot
  <2> QED BY <2>1, <2>2, <2>3, NoDocumentFacts DEF Init, TypeOK
<1>3. BackendOK
  BY <1>1 DEF Init, BackendOK, RegisteredAreHeld, MapsAgree
<1>4. ChordsOK
  BY <1>1 DEF Init, ChordsOK, RestingOK, ApplyingOK, ResumingOK, DownOK, Follows, Applying
<1>5. DocumentsOK
  BY NoDocumentFacts DEF Init, DocumentsOK, Alike
<1> QED BY <1>2, <1>3, <1>4, <1>5 DEF HotkeysInv

LEMMA HotkeysStep == HotkeysInv /\ [Next]_vars => HotkeysInv'
BY BackendStep, TypeStep, ChordsStep, DocumentsStep DEF HotkeysInv, ChordsOK

\* The inductive invariant: the backend's maps and the system's table, the
\* place of each loop over the actions, the documents behind and before it.
THEOREM Invariance == Spec => []HotkeysInv
BY HotkeysInit, HotkeysStep, PTL DEF Spec

\* The state has its types (hotkey/mod.rs `RegistryInner').
THEOREM HotkeyTypes == Spec => []TypeOK
BY Invariance, PTL DEF HotkeysInv

\* A press reaches the action its chord is registered for, and no other
\* (tauri_backend.rs `SharedState').
THEOREM ChordsReachOneAction == Spec => []MapsAgree
BY Invariance, PTL DEF HotkeysInv, BackendOK

LEMMA ServedChordsAnswer ==
  ASSUME HotkeysInv, up, work = "idle", active
  PROVE  ~doc.paused
         /\ \A a \in Actions : doc.binding[a] # Unbound => Dispatch(Id(doc.binding[a])) = a
<1>1. ~doc.paused /\ \A a \in Actions : Serves(a, doc)
  BY DEF HotkeysInv, ChordsOK, RestingOK
<1>2. ASSUME NEW a \in Actions, doc.binding[a] # Unbound
      PROVE  Dispatch(Id(doc.binding[a])) = a
  <2>1. PICK i : i = Id(doc.binding[a])
    OBVIOUS
  <2>2. registered[a] # Unbound /\ Id(registered[a]) = i
    BY <1>1, <1>2, <2>1 DEF Serves
  <2>3. i \in hooks /\ i \in Ids
    BY <2>2 DEF HotkeysInv, BackendOK, RegisteredAreHeld, TypeOK
  <2>4. handler[i] = a
    BY <2>2, <2>3 DEF HotkeysInv, BackendOK, MapsAgree
  <2> QED BY <2>1, <2>3, <2>4 DEF Dispatch
<1> QED BY <1>1, <1>2

\* When the status says active, every bound chord answers, after any history
\* of replacements, refusals, pauses and resumes (hotkey/mod.rs `apply').
THEOREM ActiveIsLive == Spec => []ActiveMeansLive
<1>1. HotkeysInv => ActiveMeansLive
  BY ServedChordsAnswer DEF ActiveMeansLive
<1> QED BY <1>1, Invariance, PTL

\* Between commands nothing is registered but what the document asks for, and
\* nothing at all while paused (hotkey/mod.rs `apply', `set_paused').
THEOREM NothingIsLeftBehind == Spec => []NothingStrays
<1>1. HotkeysInv => NothingStrays
  BY DEF HotkeysInv, ChordsOK, RestingOK, Follows, NothingStrays
<1> QED BY <1>1, Invariance, PTL

\* Between commands the next start would find in the store what the registry
\* has (commands.rs `update_hotkey_bindings', `set_hotkey_paused').
THEOREM StoreKeepsUp == Spec => []StoreFollowsRegistry
<1>1. HotkeysInv => StoreFollowsRegistry
  BY AlikeMeansSame DEF HotkeysInv, DocumentsOK, StoreFollowsRegistry, TypeOK
<1> QED BY <1>1, Invariance, PTL
================================================================================
