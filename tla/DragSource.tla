------------------------------ MODULE DragSource ------------------------------
(***************************************************************************)
(* The source of an external drag (platform/windows/drag.rs): the COM      *)
(* objects PixelGrab hands to OLE, their reference counts and lifetimes,   *)
(* and the formats they offer and render.                                  *)
(*                                                                         *)
(* The objects live on the main thread, which serves one call at a time.   *)
(* DoDragDrop pumps messages while it lasts, so that a drag may start      *)
(* within another, and a target may keep an object and call it when its    *)
(* drag is over.  OLE and the targets are external, one client between     *)
(* them: they keep COM's rules, which let them call an object they hold a  *)
(* reference to, or were lent for the length of the loop.  Objects are     *)
(* named by their addresses, which the allocator gives out again.  Of the  *)
(* diagnostics the outcome, the effect and the kind of failure are kept;   *)
(* of the bytes, how many there are.                                       *)
(***************************************************************************)
EXTENDS Integers, Sequences

CONSTANTS
  Addresses,         \* bound: objects alive at one time
  MaxDepth,          \* bound: drags within drags
  MaxHeld,           \* bound: references of the client to one object
  PngFormats,        \* what registering "image/png" may give
  Requests           \* what a card's file may decode to, it being a file on disk

ASSUME AddressesAssumption == "none" \notin Addresses
ASSUME FormatsAssumption   == "unset" \notin PngFormats
ASSUME BoundsAssumption    == MaxDepth \in Nat /\ MaxHeld \in Nat

\* The characters of a path, the extent of a picture and its bytes.
DragRequest == [path : Nat, width : Nat, height : Nat, pixels : Nat]
ASSUME RequestsAssumption  == Requests \subseteq DragRequest

\* What a drag comes to (contracts/drag.rs); only an accepted card may go.
DragOutcome      == {"accepted", "rejected", "cancelled", "failed"}
DragTargetEffect == {"copy", "move", "none", "unknown"}
DismissCard(outcome) == outcome = "accepted"
DragResult == [outcome : DragOutcome, dismiss : BOOLEAN, effect : DragTargetEffect,
               failure : {"none", "invalid_payload", "internal"}]

VARIABLES
  objects,           \* the objects alive: kind, ref_count, cursor, state
  held,              \* references: how many each holder has to each address
  loops,             \* the drags under way, the innermost last
  registered,        \* REGISTERED_PNG
  learned,           \* the formats read from an enumerator last
  report             \* what the last drag came to

vars == <<objects, held, loops, registered, learned, report>>

Holders == {"app", "client"}

Init ==
  /\ objects = <<>>
  /\ held = [h \in Holders |-> [a \in Addresses |-> 0]]
  /\ loops = <<>>
  /\ registered = "unset"
  /\ learned = {}
  /\ report = "none"

--------------------------------------------------------------------------------
\* FORMATETC, of which the object offers four.  The format registered for PNG
\* files is zero when the system refuses it.  Mutant: files are offered as
\* files.
NoFormat == "0"
Format(code, media) == [code |-> code, aspect |-> "content", index |-> -1, media |-> media]

OfferedFormatsAsFile ==
  <<Format("CF_HDROP", {"file"}), Format(registered, {"hglobal"}),
    Format("CF_DIBV5", {"hglobal"}), Format("CF_UNICODETEXT", {"hglobal"})>>

OfferedFormats ==
  <<Format("CF_HDROP", {"hglobal"}), Format(registered, {"hglobal"}),
    Format("CF_DIBV5", {"hglobal"}), Format("CF_UNICODETEXT", {"hglobal"})>>

\* classify, after registered_png_format; and supported_format.
Classified(format) ==
  \/ format.code \in {"CF_HDROP", "CF_DIBV5", "CF_UNICODETEXT"}
  \/ format.code = registered /\ registered # NoFormat
SupportedFormat(format) ==
  /\ format.aspect = "content" /\ format.index = -1
  /\ "hglobal" \in format.media
  /\ Classified(format)

\* registered_png_format: asked of the system once.
RegisterPng == registered' \in (IF registered = "unset" THEN PngFormats ELSE {registered})

--------------------------------------------------------------------------------
\* Objects.  A new one has the one reference its maker takes away.
Free == Addresses \ DOMAIN objects
New(kind)  == [kind |-> kind, refs |-> 1, cursor |-> 0, state |-> "none"]
Put(a, o)  == [b \in DOMAIN objects \cup {a} |-> IF b = a THEN o ELSE objects[b]]
Take(h, a) == [held EXCEPT ![h][a] = @ + 1]
Give(h, a) == [held EXCEPT ![h][a] = @ - 1]

\* What each QueryInterface knows; it gives nothing for any other name.
DataInterfaces   == {"IUnknown", "IDataObject"}
SourceInterfaces == {"IUnknown", "IDropSource"}
FormatInterfaces == {"IUnknown", "IEnumFORMATETC"}
Interfaces(kind) == [data |-> DataInterfaces, source |-> SourceInterfaces, formats |-> FormatInterfaces][kind]

\* What a client may call: what it holds and what its loop lends it.
Lent(a) == \E n \in DOMAIN loops : a \in {loops[n].data, loops[n].source}
MayCall(a) == held["client"][a] > 0 \/ Lent(a)

\* The vtables' AddRef and Release.
Counted(a) == [objects EXCEPT ![a].refs = @ + 1]
Released(objs, a) ==
  IF objs[a].refs = 1 THEN [b \in DOMAIN objs \ {a} |-> objs[b]]
                      ELSE [objs EXCEPT ![a].refs = @ - 1]

QueryInterface(a) ==
  /\ MayCall(a) /\ held["client"][a] < MaxHeld
  /\ \E iid \in {"IUnknown", "IDataObject", "IDropSource", "IEnumFORMATETC"} :
       /\ iid \in Interfaces(objects[a].kind)
       /\ objects' = Counted(a) /\ held' = Take("client", a)
  /\ UNCHANGED <<loops, registered, learned, report>>

AddRef(a) ==
  /\ MayCall(a) /\ held["client"][a] < MaxHeld
  /\ objects' = Counted(a) /\ held' = Take("client", a)
  /\ UNCHANGED <<loops, registered, learned, report>>

Release(a) ==
  /\ held["client"][a] > 0
  /\ objects' = Released(objects, a) /\ held' = Give("client", a)
  /\ UNCHANGED <<loops, registered, learned, report>>

--------------------------------------------------------------------------------
\* GetData: the bytes of a format the object renders, should there be memory
\* for them, become the client's.
GetData(a, format) ==
  /\ MayCall(a) /\ objects[a].kind = "data"
  /\ RegisterPng
  /\ UNCHANGED <<objects, held, loops, learned, report>>

\* QueryGetData: whether GetData would, of any format.
QueryGetData(a, format) ==
  /\ MayCall(a) /\ objects[a].kind = "data"
  /\ RegisterPng
  /\ UNCHANGED <<objects, held, loops, learned, report>>

EnumFormatEtc(a) ==
  /\ MayCall(a) /\ objects[a].kind = "data"
  /\ \E e \in Free : objects' = Put(e, New("formats")) /\ held' = Take("client", e)
  /\ UNCHANGED <<loops, registered, learned, report>>

\* IEnumFORMATETC.  A call for more than is left returns what is left.
Cursor(a, n) == IF objects[a].cursor + n < Len(OfferedFormats) THEN objects[a].cursor + n
                                                             ELSE Len(OfferedFormats)
Enumerator(a) == MayCall(a) /\ objects[a].kind = "formats"

NextFormats(a, celt) ==
  /\ Enumerator(a)
  /\ RegisterPng
  /\ learned' = {OfferedFormats'[n] : n \in (objects[a].cursor + 1)..Cursor(a, celt)}
  /\ objects' = [objects EXCEPT ![a].cursor = Cursor(a, celt)]
  /\ UNCHANGED <<held, loops, report>>

SkipFormats(a, celt) ==
  /\ Enumerator(a)
  /\ RegisterPng
  /\ objects' = [objects EXCEPT ![a].cursor = Cursor(a, celt)]
  /\ UNCHANGED <<held, loops, learned, report>>

ResetFormats(a) ==
  /\ Enumerator(a)
  /\ objects' = [objects EXCEPT ![a].cursor = 0]
  /\ UNCHANGED <<held, loops, registered, learned, report>>

CloneFormats(a) ==
  /\ Enumerator(a)
  /\ \E e \in Free : /\ objects' = Put(e, [New("formats") EXCEPT !.cursor = objects[a].cursor])
                     /\ held' = Take("client", e)
  /\ UNCHANGED <<loops, registered, learned, report>>

--------------------------------------------------------------------------------
\* What is rendered, of a request that was found consistent: the headers'
\* claims, and the bytes that are there.  A character takes two bytes.
Consistent(request) ==
  /\ request.path > 0 /\ request.width > 0 /\ request.height > 0
  /\ request.pixels = request.width * request.height * 4

EncodeHdrop(request) == [files |-> 20, bytes |-> 20 + 2 * (request.path + 1) + 2]
EncodeDibV5(request) == [size |-> 124, width |-> request.width, height |-> -request.height,
                         image |-> request.pixels, bytes |-> 124 + request.pixels]
EncodeUnicodeText(request) == [bytes |-> 2 * (request.path + 1)]

\* A list of one path and a bitmap of rows from the top: the reader finds
\* what the header announces, to the last byte.
PayloadIsWhole(request) ==
  LET files == EncodeHdrop(request)
      image == EncodeDibV5(request)
  IN  /\ files.bytes = files.files + EncodeUnicodeText(request).bytes + 2
      /\ image.height < 0 /\ image.width * (-image.height) * 4 = image.image
      /\ image.size + image.image = image.bytes

--------------------------------------------------------------------------------
\* run_drag.  Its thread enters OLE first, and leaves it however it returns.
StartDrag ==
  /\ Len(loops) < MaxDepth /\ \A n \in DOMAIN loops : loops[n].at = "loop"
  /\ loops' = Append(loops, [at |-> "ole", data |-> "none", source |-> "none"])
  /\ UNCHANGED <<objects, held, registered, learned, report>>

Top == Len(loops)
In(at) == Top > 0 /\ loops[Top].at = at

\* build_drag_request and OleState::new: the file is gone, is no picture, or
\* decodes to something else than four bytes a pixel.
DragRefused ==
  /\ In("ole")
  /\ loops' = SubSeq(loops, 1, Top - 1)
  /\ UNCHANGED <<objects, held, registered, learned, report>>

EnterLoop ==
  /\ In("ole")
  /\ \E d, s \in Free, request \in Requests :
       /\ d # s /\ Consistent(request)
       /\ objects' = [b \in DOMAIN objects \cup {d, s} |->
                        IF b \in DOMAIN objects THEN objects[b]
                        ELSE IF b = d THEN [New("data") EXCEPT !.state = request] ELSE New("source")]
       /\ held' = [held EXCEPT !["app"][d] = @ + 1, !["app"][s] = @ + 1]
       /\ loops' = [loops EXCEPT ![Top] = [at |-> "loop", data |-> d, source |-> s]]
  /\ UNCHANGED <<registered, learned, report>>

\* QueryContinueDrag, and what DoDragDrop then returns: the target has the
\* last word on the effect, and any call may fail.
ContinueDrag(escape, buttons) ==
  CASE escape -> "cancel" [] ~escape /\ buttons = {} -> "drop" [] OTHER -> "go on"

\* The negative results; "S_OK" stands for every other one that is not.
Failures == {"E_INVALIDARG", "E_FAIL"}

\* translate_drop_result, target_effect_for.
Outcome(hr, effect) ==
  CASE hr = "drop" /\ effect # {} -> "accepted"
    [] hr = "cancel" -> "cancelled"
    [] hr \in Failures -> "failed"
    [] OTHER -> "rejected"
TargetEffect(effect, outcome) ==
  CASE "copy" \in effect -> "copy"
    [] "copy" \notin effect /\ "move" \in effect -> "move"
    [] effect = {} /\ outcome = "rejected" -> "none"
    [] OTHER -> "unknown"

\* failure_kind_for: the labels a failure may have.
FailureKind(hr) == IF hr = "E_INVALIDARG" THEN "invalid_payload" ELSE "internal"

\* DragResult: whether the card may go, and what the log is told.
Result(hr, effect) ==
  LET outcome == Outcome(hr, effect)
  IN  [outcome |-> outcome, dismiss |-> DismissCard(outcome),
       effect  |-> TargetEffect(effect, outcome),
       failure |-> IF outcome = "failed" THEN FailureKind(hr) ELSE "none"]

\* The loop of the innermost drag ends: run_drag reports and lets go of its
\* own references.  Mutant: it frees the objects.
LetGoFreed(d, s) == [b \in DOMAIN objects \ {d, s} |-> objects[b]]

LetGo(d, s) == Released(Released(objects, d), s)

EndDrag ==
  /\ In("loop")
  /\ LET d == loops[Top].data
         s == loops[Top].source
     IN  /\ \E escape \in BOOLEAN, buttons \in SUBSET {"left", "right"}, effect \in SUBSET {"copy", "move"} :
              \E hr \in ({ContinueDrag(escape, buttons), "S_OK"} \cup Failures) \ {"go on"} :
                report' = Result(hr, effect)
         /\ objects' = LetGo(d, s)
         /\ held' = [held EXCEPT !["app"][d] = @ - 1, !["app"][s] = @ - 1]
  /\ loops' = SubSeq(loops, 1, Top - 1)
  /\ UNCHANGED <<registered, learned>>

\* A call, whenever the thread serves messages.
Call(a) == /\ ~In("ole")
           /\ \/ QueryInterface(a) \/ AddRef(a) \/ Release(a)
              \/ (\E f \in learned : GetData(a, f) \/ QueryGetData(a, f))
              \/ EnumFormatEtc(a)
              \/ (\E n \in 1..2 : NextFormats(a, n) \/ SkipFormats(a, n))
              \/ ResetFormats(a) \/ CloneFormats(a)

Next == \/ StartDrag \/ DragRefused \/ EnterLoop \/ EndDrag
        \/ \E a \in Addresses : Call(a)

Spec == Init /\ [][Next]_vars

--------------------------------------------------------------------------------
Object == [kind : {"data", "source", "formats"}, refs : Nat \ {0}, cursor : 0..4,
           state : Requests \cup {"none"}]

TypeOK ==
  /\ DOMAIN objects \subseteq Addresses
  /\ \A a \in DOMAIN objects : objects[a] \in Object
  /\ held \in [Holders -> [Addresses -> Nat]]
  /\ loops \in Seq([at : {"ole", "loop"}, data : Addresses \cup {"none"}, source : Addresses \cup {"none"}])

Reported == report \in DragResult \cup {"none"}

Refs(a) == held["app"][a] + held["client"][a]

\* An object lives exactly as long as somebody has a reference to it, and as
\* long as the loop lends it: no call reaches freed memory, nothing is freed
\* twice, and nothing outlives its last user, be it a target that keeps the
\* data when the drag is over (drag.rs `run_drag', the vtables' Release).
RefsAreHeld ==
  /\ \A a \in Addresses : IF a \in DOMAIN objects THEN objects[a].refs = Refs(a) /\ Refs(a) > 0
                                                    ELSE Refs(a) = 0
  /\ \A n \in DOMAIN loops : loops[n].at = "loop" =>
       {loops[n].data, loops[n].source} \subseteq DOMAIN objects

\* A client that asks for a format as an enumerator gave it gets it (drag.rs
\* `offered_formats': advertising files "caused Shell, Chromium, and Electron
\* targets to reject the format"), and gets it whole, as long as it keeps the
\* object: the bytes are those the headers announce.
RenderedAsOffered ==
  /\ \A f \in learned : f.code # NoFormat => SupportedFormat(f)
  /\ \A a \in DOMAIN objects : objects[a].kind = "data" => PayloadIsWhole(objects[a].state)
================================================================================
