------------------------------ MODULE CameraScanner ------------------------------
(***************************************************************************)
(* The camera of pwa/src/app/scan/page.tsx: startScanner, stopScanner and  *)
(* the reads that reach submitBarcode.                                     *)
(*                                                                         *)
(* A start awaits the permission, the preview, and either frames of the    *)
(* browser's detector or the module and the decoder of ZXing.  Meanwhile   *)
(* the user pauses, hides the page, starts again, types a barcode or       *)
(* leaves.  generationRef never repeats: it is modelled by the start it    *)
(* belongs to, or None after a stop.                                       *)
(***************************************************************************)
EXTENDS Integers, FiniteSets

CONSTANTS
  MaxStarts,  \* bound on the starts of one visit
  Barcode,
  None

\* What is assumed of the constants, wherever this module is instantiated.
Assumptions == MaxStarts \in Nat \ {0} /\ None \notin 1..MaxStarts

Start == 1..MaxStarts

VARIABLES
  mounted,
  mode,       \* modeRef: queue or single
  status,     \* starting, ready, or off (idle, unavailable and denied)
  starts,     \* how many starts there were
  current,    \* the start of generationRef, or None
  starting,   \* scannerStartingRef
  navigating, \* navigatingRef
  pc,         \* pc[s]: what start s awaits
  stream,     \* streamRef: the start whose camera it is, or None
  controls,   \* zxingControlsRef: the start whose decoder it is, or None
  live,       \* the starts whose camera is on
  decoders,   \* the starts whose decoder runs
  queued,     \* barcodes in the queue
  pushes,     \* history: how many times a result was opened
  reader      \* history: where the last read that counted came from: a start or None

camera == <<current, starting, pc, stream, controls, live, decoders>>
reads  == <<queued, pushes, reader>>
vars   == <<mounted, mode, status, starts, camera, navigating, reads>>

Init ==
  /\ mounted = TRUE /\ mode = "queue" /\ status = "starting" /\ starts = 0
  /\ current = None /\ starting = FALSE /\ navigating = FALSE
  /\ pc = [s \in Start |-> "none"]
  /\ stream = None /\ controls = None /\ live = {} /\ decoders = {}
  /\ queued = {} /\ pushes = 0 /\ reader = None

\* active
Active(s) == mounted /\ current = s /\ ~navigating

\* stopScanner, with the starts at "where" otherwise.  The frame and the decoder of
\* zxingControlsRef are cancelled; what is awaited goes on.
Stop(where) ==
  /\ current' = None /\ starting' = FALSE
  /\ stream' = None /\ live' = live \ {stream}
  /\ controls' = None /\ decoders' = decoders \ {controls}
  /\ pc' = [s \in Start |-> IF where[s] \in {"frame", "decoding"} THEN "ended" ELSE where[s]]

To(s, place) == [pc EXCEPT ![s] = place]

--------------------------------------------------------------------------------
(* startScanner *)

\* On mount, and on "Try camera again".  Without mediaDevices it ends at once.
Begin ==
  /\ mounted /\ starts < MaxStarts /\ (status = "off" \/ starts = 0)
  /\ ~starting /\ stream = None
  /\ starts' = starts + 1 /\ current' = starts + 1 /\ navigating' = FALSE
  /\ \/ starting' = TRUE /\ status' = "starting" /\ pc' = To(starts + 1, "asking")
     \/ starting' = FALSE /\ status' = "off" /\ pc' = To(starts + 1, "ended")
  /\ UNCHANGED <<mounted, mode, stream, controls, live, decoders, reads>>

\* The browser gives the camera; the code has not seen it yet.
Grant(s) ==
  /\ pc[s] = "asking" /\ pc' = To(s, "granted") /\ live' = live \cup {s}
  /\ UNCHANGED <<mounted, mode, status, starts, current, starting, navigating, stream, controls, decoders, reads>>

See(s) ==
  /\ pc[s] = "granted"
  /\ IF Active(s) THEN stream' = s /\ live' = live /\ pc' = To(s, "playing")
                  ELSE stream' = stream /\ live' = live \ {s} /\ pc' = To(s, "ended")
  /\ UNCHANGED <<mounted, mode, status, starts, current, starting, navigating, controls, decoders, reads>>

\* The preview plays: a browser without the detector imports ZXing.
Play(s) ==
  /\ pc[s] = "playing"
  /\ IF Active(s) THEN starting' = FALSE /\ status' = "ready" /\ \E next \in {"frame", "importing"} : pc' = To(s, next)
                  ELSE pc' = To(s, "ended") /\ UNCHANGED <<starting, status>>
  /\ UNCHANGED <<mounted, mode, starts, current, navigating, stream, controls, live, decoders, reads>>

\* The module is there: decodeFromStream starts to decode before it returns.
Import(s) ==
  /\ pc[s] = "importing"
  /\ IF Active(s) THEN pc' = To(s, "attaching") /\ decoders' = decoders \cup {s}
                  ELSE pc' = To(s, "ended") /\ decoders' = decoders
  /\ UNCHANGED <<mounted, mode, status, starts, current, starting, navigating, stream, controls, live, reads>>

Attach(s) ==
  /\ pc[s] = "attaching"
  /\ IF Active(s) THEN pc' = To(s, "decoding") /\ controls' = s /\ decoders' = decoders
                  ELSE pc' = To(s, "ended") /\ controls' = controls /\ decoders' = decoders \ {s}
  /\ UNCHANGED <<mounted, mode, status, starts, current, starting, navigating, stream, live, reads>>

Waits == {"asking", "playing", "importing", "attaching"}

\* What is awaited fails: refused, in use, a stopped preview, no module or decoder.
Refuse(s) ==
  /\ pc[s] \in Waits
  /\ IF Active(s)
     THEN /\ current' = None /\ starting' = FALSE /\ stream' = None /\ live' = live \ {stream}
          /\ controls' = None /\ decoders' = decoders \ {s} /\ pc' = To(s, "ended") /\ status' = "off"
     ELSE pc' = To(s, "ended") /\ decoders' = decoders \ {s}
          /\ UNCHANGED <<current, starting, stream, controls, live, status>>
  /\ UNCHANGED <<mounted, mode, starts, navigating, reads>>

--------------------------------------------------------------------------------
(* Reads *)

\* submitBarcode for what one look has found, in single mode for the first only.
Submit(found, from, where) ==
  IF mode = "single"
  THEN /\ ~navigating
       /\ navigating' = TRUE /\ Stop(where) /\ pushes' = pushes + 1 /\ reader' = from
       /\ queued' = queued
  ELSE /\ queued' = queued \cup found /\ reader' = from
       /\ pc' = where
       /\ UNCHANGED <<navigating, pushes, current, starting, stream, controls, live, decoders>>

Frame(s) ==
  /\ pc[s] = "frame" /\ Active(s) /\ stream # None
  /\ pc' = To(s, "detecting")
  /\ UNCHANGED <<mounted, mode, status, starts, current, starting, navigating, stream, controls, live, decoders, reads>>

\* Nothing found, the same barcode within two seconds, or a failure, of which the
\* third in a row calls for ZXing.
Detect(s) ==
  /\ pc[s] = "detecting"
  /\ \E next \in IF Active(s) THEN {"frame", "importing"} ELSE {"ended"} : pc' = To(s, next)
  /\ UNCHANGED <<mounted, mode, status, starts, current, starting, navigating, stream, controls, live, decoders, reads>>

\* Mutant: what came while a frame was looked at is not asked for.
DetectReadLate(s, found) ==
  /\ pc[s] = "detecting" /\ mounted
  /\ Submit(found, s, To(s, IF mode = "single" THEN "ended" ELSE "frame"))
  /\ UNCHANGED <<mounted, mode, status, starts>>

DetectRead(s, found) ==
  /\ pc[s] = "detecting" /\ Active(s)
  /\ Submit(found, s, To(s, IF mode = "single" THEN "ended" ELSE "frame"))
  /\ UNCHANGED <<mounted, mode, status, starts>>

\* The callback of the decoder, which may run before decodeFromStream has returned.
Decode(s, b) ==
  /\ s \in decoders /\ Active(s)
  /\ Submit({b}, s, pc)
  /\ UNCHANGED <<mounted, mode, status, starts>>

--------------------------------------------------------------------------------
(* The user, once the effect of the mount has begun. *)

Enter(b) ==
  /\ mounted /\ starts > 0 /\ Submit({b}, None, pc)
  /\ UNCHANGED <<mounted, mode, status, starts>>

ChooseMode(next) ==
  /\ mounted /\ starts > 0 /\ next # mode /\ mode' = next
  /\ UNCHANGED <<mounted, status, starts, camera, navigating, reads>>

\* "Pause camera", or the page is hidden.
Leave ==
  /\ mounted /\ starts > 0 /\ Stop(pc) /\ status' = "off"
  /\ UNCHANGED <<mounted, mode, starts, navigating, reads>>

Unmount ==
  /\ mounted /\ starts > 0 /\ mounted' = FALSE /\ Stop(pc)
  /\ UNCHANGED <<mode, status, starts, navigating, reads>>

Awaited(s) == Grant(s) \/ See(s) \/ Play(s) \/ Import(s) \/ Attach(s) \/ Refuse(s)

Next ==
  \/ Begin \/ Leave \/ Unmount
  \/ \E s \in Start : Awaited(s) \/ Frame(s) \/ Detect(s)
  \/ \E s \in Start, b, c \in Barcode : DetectRead(s, {b, c})
  \/ \E s \in Start, b \in Barcode : Decode(s, b)
  \/ \E b \in Barcode : Enter(b)
  \/ \E next \in {"queue", "single"} : ChooseMode(next)

\* The browser and the user answer, the code goes on when it has an answer.
Spec == Init /\ [][Next]_vars /\ WF_vars(starts = 0 /\ Begin) /\ \A s \in Start : WF_vars(Awaited(s))

--------------------------------------------------------------------------------
(* Properties. *)

\* scannerStartingRef stands for a start that has not shown its picture yet.
TypeOK ==
  /\ mounted \in BOOLEAN /\ mode \in {"queue", "single"} /\ status \in {"starting", "ready", "off"}
  /\ starts \in 0..MaxStarts /\ {current, stream, controls, reader} \subseteq (1..starts) \cup {None}
  /\ starting \in BOOLEAN /\ navigating \in BOOLEAN
  /\ pc \in [Start -> Waits \cup {"none", "granted", "frame", "detecting", "decoding", "ended"}]
  /\ live \subseteq Start /\ decoders \subseteq Start /\ queued \subseteq Barcode
  /\ \A s \in Start : pc[s] = "none" <=> s > starts
  /\ starting <=> current # None /\ pc[current] \in {"asking", "granted", "playing"}

\* No camera and no decoder is on that streamRef or zxingControlsRef does not hold,
\* or that a start which has yet to see it will stop.
NothingLeaks ==
  /\ live \ {stream} = {s \in Start : pc[s] = "granted"}
  /\ decoders \ {controls} = {s \in Start : pc[s] = "attaching"}

\* The camera is on only while the page offers to pause it.
PauseIsOffered == stream # None => mounted /\ status # "off" /\ stream \in live

\* A ready camera shows a picture, unless a result is about to be opened.
ReadyIsLive == mounted /\ status = "ready" /\ ~navigating => stream \in live

\* A single-product scan opens one result for each start of the camera.
OneResult == pushes <= starts

\* A camera's read counts only while that camera is the one that is on.
NoLateRead ==
  [][<<queued, pushes>>' # <<queued, pushes>> /\ reader' # None => mounted /\ stream = reader' /\ reader' \in live]_vars

\* All of it: no camera or decoder is on that nobody will stop or that the page does not
\* offer to pause, a ready one shows a picture, a start opens one result, and a read counts
\* only while its camera is the one that is on.
CameraIsKnown ==
  /\ [](TypeOK /\ NothingLeaks /\ PauseIsOffered /\ ReadyIsLive /\ OneResult)
  /\ NoLateRead

\* The camera goes off after the page is left.
CameraGoesOff == []<>(~mounted => live = {} /\ decoders = {})

\* "Starting your rear camera" ends.
Started == status = "starting" => navigating \/ ~mounted
StartingEnds == []<>Started
================================================================================
