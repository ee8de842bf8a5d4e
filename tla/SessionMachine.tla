---------------------------- MODULE SessionMachine ----------------------------
(***************************************************************************)
(* The session orchestrator (src-tauri/src/session/state.rs over           *)
(* contracts session.rs): what each of its methods makes of the state of   *)
(* the session.  A method that is refused an edge returns its error with   *)
(* the state it has reached.  What is recorded beside the state is the     *)
(* callers' (CaptureFlow).                                                 *)
(***************************************************************************)

SessionState == {"Idle", "Capturing", "Ready", "Selecting", "Committing",
                 "Cleanup", "Reopening", "RevisionCommitting"}

IsBusy(state) == state # "Idle"

AllowedNext(state) ==
  CASE state = "Idle"       -> {"Capturing", "Reopening"}
    [] state = "Capturing"  -> {"Ready", "Cleanup"}
    [] state = "Ready"      -> {"Selecting", "Committing", "Cleanup"}
    [] state = "Selecting"  -> {"Committing", "Cleanup"}
    [] state = "Committing" -> {"Cleanup"}
    [] state = "Cleanup"    -> {"Idle"}
    [] state = "Reopening"  -> {"RevisionCommitting", "Cleanup", "Idle"}
    [] state = "RevisionCommitting" -> {"Cleanup", "Idle"}

RequestTransition(state, to) == IF to \in AllowedNext(state) THEN to ELSE state

\* A walk stops at the first edge that is refused.
Walk(state, a, b) ==
  IF a \in AllowedNext(state) THEN RequestTransition(a, b) ELSE state

\* request_capture, up to the grab and after it.
RequestCapture(state) ==
  IF IsBusy(state) THEN state ELSE RequestTransition(state, "Capturing")
CaptureComplete(state) == RequestTransition(state, "Ready")

OverlayMounted(state) ==
  IF state # "Ready" THEN state ELSE RequestTransition(state, "Selecting")

Finish(state) ==
  IF "Committing" \in AllowedNext(state) THEN Walk("Committing", "Cleanup", "Idle") ELSE state

Reset(state) == "Idle"

CancelSession(state) ==
  IF state \in {"Capturing", "Ready", "Selecting", "Committing"}
    THEN Walk(state, "Cleanup", "Idle")
    ELSE RequestTransition(state, "Idle")          \* Idle stays as it is

\* Which states Escape leaves alone; no window reports a selection to clear.
Escapes(state) == state \notin {"Idle", "Committing", "RevisionCommitting"}
HandleEscape(state) == IF Escapes(state) THEN CancelSession(state) ELSE state

RequestReopen(state) ==
  IF IsBusy(state) THEN state ELSE RequestTransition(state, "Reopening")

RequestRevisionCommit(state) == RequestTransition(state, "RevisionCommitting")

FinishRevision(state) ==
  IF state = "RevisionCommitting" THEN Walk(state, "Cleanup", "Idle") ELSE state
================================================================================
