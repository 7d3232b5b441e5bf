----------------------------- MODULE QRScanner -----------------------------
(***************************************************************************)
(* QRScanner of the frontend: one component instance and its camera.       *)
(*                                                                         *)
(* The effect that starts the camera may run again for the same instance   *)
(* (React mounts every component twice under its strict mode), and its     *)
(* refs outlive each run.  A run of the effect awaits scanner.start; the   *)
(* callback that gets a decoded code, the code after a late start and the  *)
(* cleanup may each call scanner.stop, which takes time too.  Frames are   *)
(* decoded as soon as the camera is on, before start has resolved.         *)
(*                                                                         *)
(* The theorems about the scanner stand beside those about the page it is  *)
(* part of: the names they would share carry its own here.                 *)
(***************************************************************************)
EXTENDS Integers

CONSTANTS
  MaxMounts,  \* bound: how often the effect runs
  Nobody

Effects == 1..MaxMounts

ASSUME ScannerAssumption == MaxMounts \in Nat /\ Nobody \notin Nat

VARIABLES
  mounts,      \* how often the effect has run
  mountedRef, startingRef, runningRef, scannedRef,
  scannerRef,  \* the run whose scanner the ref holds, or Nobody
  cancelled,   \* of each run
  awaiting,    \* the runs that await scanner.start
  camera,      \* the camera of each run's scanner
  stopper,     \* who awaits the stop of each scanner
  starting, cameraError, \* React state
  broken,      \* the cleanup threw: scanner.stop on a scanner at rest
  scans        \* history: how often each run has called onScan

refs == <<mountedRef, startingRef, runningRef, scannedRef, scannerRef>>
ui == <<starting, cameraError>>
scannerVars ==
  <<mounts, refs, cancelled, awaiting, camera, stopper, ui, broken, scans>>

ScannerInit ==
  /\ mounts = 0
  /\ mountedRef = FALSE /\ startingRef = FALSE
  /\ runningRef = FALSE /\ scannedRef = FALSE
  /\ scannerRef = Nobody
  /\ cancelled = [i \in Effects |-> FALSE]
  /\ awaiting = {}
  /\ camera = [i \in Effects |-> "none"]
  /\ stopper = [i \in Effects |-> "nobody"]
  /\ starting = TRUE /\ cameraError = FALSE
  /\ broken = FALSE
  /\ scans = [i \in Effects |-> 0]

----------------------------------------------------------------------------
Abandoned_RefOnly(i) == ~mountedRef
Abandoned(i) == cancelled[i] \/ ~mountedRef

\* scanner.stop of a scanner that is scanning.
Stop(i, who) ==
  /\ camera' = [camera EXCEPT ![i] = "closing"]
  /\ stopper' = [stopper EXCEPT ![i] = who]

\* What a start that failed shows.
Complain ==
  /\ runningRef' = FALSE
  /\ starting' = FALSE
  /\ cameraError' = TRUE

\* The effect runs up to the await of scanner.start.  An error message has
\* taken the place of the element the camera needs.
Mount(i) ==
  /\ ~mountedRef /\ ~broken
  /\ i = mounts + 1
  /\ mounts' = i
  /\ mountedRef' = TRUE
  /\ scannedRef' = FALSE
  /\ IF startingRef
     THEN UNCHANGED <<startingRef, runningRef, scannerRef, awaiting, camera,
                      ui>>
     ELSE IF cameraError
     THEN /\ Complain
          /\ UNCHANGED <<startingRef, scannerRef, awaiting, camera>>
     ELSE /\ startingRef' = TRUE
          /\ starting' = TRUE
          /\ scannerRef' = i
          /\ awaiting' = awaiting \cup {i}
          /\ camera' = [camera EXCEPT ![i] = "opening"]
          /\ UNCHANGED <<runningRef, cameraError>>
  /\ UNCHANGED <<cancelled, stopper, broken, scans>>

\* The browser grants the camera and frames begin to come.
CameraOpens(i) ==
  /\ camera[i] = "opening"
  /\ camera' = [camera EXCEPT ![i] = "on"]
  /\ UNCHANGED <<mounts, refs, cancelled, awaiting, stopper, ui, broken, scans>>

StartResolved(i) ==
  /\ i \in awaiting /\ camera[i] \notin {"opening", "none"}
  /\ awaiting' = awaiting \ {i}
  /\ IF Abandoned(i)
     THEN /\ IF camera[i] = "on"
             THEN Stop(i, "start") /\ UNCHANGED startingRef
             ELSE startingRef' = FALSE /\ UNCHANGED <<camera, stopper>>
          /\ UNCHANGED <<runningRef, starting>>
     ELSE /\ runningRef' = TRUE
          /\ starting' = FALSE
          /\ startingRef' = FALSE
          /\ UNCHANGED <<camera, stopper>>
  /\ UNCHANGED <<mounts, mountedRef, scannedRef, scannerRef, cancelled,
                 cameraError, broken, scans>>

\* No camera, or no permission.
StartRejected(i) ==
  /\ i \in awaiting /\ camera[i] = "opening"
  /\ awaiting' = awaiting \ {i}
  /\ camera' = [camera EXCEPT ![i] = "off"]
  /\ startingRef' = FALSE
  /\ IF Abandoned(i) THEN UNCHANGED <<runningRef, ui>> ELSE Complain
  /\ UNCHANGED <<mounts, mountedRef, scannedRef, scannerRef, cancelled, stopper,
                 broken, scans>>

----------------------------------------------------------------------------
Ignored_Often(i) == Abandoned(i)
Ignored(i) == Abandoned(i) \/ scannedRef

\* Whether the callback is the one to stop the camera, and what it leaves
\* of runningRef for the cleanup.
Handover_Kept == runningRef
Handover == FALSE

\* A code is decoded: the callback stops the camera first if start has
\* resolved, and hands the code over at once if not.
Decode(i) ==
  /\ camera[i] = "on"
  /\ ~Ignored(i)
  /\ scannedRef' = TRUE
  /\ IF runningRef
     THEN /\ runningRef' = Handover
          /\ Stop(i, "callback")
          /\ UNCHANGED scans
     ELSE /\ scans' = [scans EXCEPT ![i] = @ + 1]
          /\ UNCHANGED <<runningRef, camera, stopper>>
  /\ UNCHANGED <<mounts, mountedRef, startingRef, scannerRef, cancelled,
                 awaiting, ui, broken>>

Wanted_Blindly(i) == TRUE
Wanted(i) == ~Abandoned(i)

\* The camera is off, and whoever stopped it goes on.
Rest_Forgetful(i) == UNCHANGED stopper
Rest(i) == stopper' = [stopper EXCEPT ![i] = "nobody"]

StopDone(i) ==
  /\ camera[i] = "closing"
  /\ camera' = [camera EXCEPT ![i] = "off"]
  /\ Rest(i)
  /\ startingRef' = (startingRef /\ stopper[i] = "callback")
  /\ scans' = IF stopper[i] = "callback" /\ Wanted(i)
              THEN [scans EXCEPT ![i] = @ + 1] ELSE scans
  /\ UNCHANGED <<mounts, mountedRef, runningRef, scannedRef, scannerRef,
                 cancelled, awaiting, ui, broken>>

\* The cleanup of the effect: the dialog has been closed, or React runs the
\* effect again.
Unmount ==
  /\ mountedRef
  /\ mountedRef' = FALSE
  /\ cancelled' = [cancelled EXCEPT ![mounts] = TRUE]
  /\ scannerRef' = Nobody
  /\ runningRef' = (runningRef /\ scannerRef = Nobody)
  /\ IF scannerRef # Nobody /\ runningRef
     THEN /\ IF camera[scannerRef] = "on"
             THEN Stop(scannerRef, "cleanup") /\ UNCHANGED broken
             ELSE broken' = TRUE /\ UNCHANGED <<camera, stopper>>
          /\ UNCHANGED startingRef
     ELSE /\ startingRef' = FALSE
          /\ UNCHANGED <<camera, stopper, broken>>
  /\ UNCHANGED <<mounts, scannedRef, awaiting, ui, scans>>

ScannerNext ==
  \/ Unmount
  \/ \E i \in Effects :
       \/ Mount(i) \/ CameraOpens(i) \/ StartResolved(i) \/ StartRejected(i)
       \/ Decode(i) \/ StopDone(i)

ScannerSpec == ScannerInit /\ [][ScannerNext]_scannerVars

\* A start whose camera is on and a stop settle in the end.  That a camera
\* is granted, or a code is found, is not assumed.
FairScannerSpec ==
  /\ ScannerSpec
  /\ \A i \in Effects :
       WF_scannerVars(StartResolved(i)) /\ WF_scannerVars(StopDone(i))

----------------------------------------------------------------------------
(* Properties. *)

\* Types; a scanner has somebody waiting for its stop exactly while it
\* stops.
ScannerTypeOK ==
  /\ mounts \in 0..MaxMounts
  /\ mountedRef \in BOOLEAN /\ startingRef \in BOOLEAN
  /\ runningRef \in BOOLEAN /\ scannedRef \in BOOLEAN
  /\ scannerRef \in Effects \cup {Nobody}
  /\ cancelled \in [Effects -> BOOLEAN]
  /\ awaiting \subseteq Effects
  /\ camera \in [Effects -> {"none", "opening", "on", "closing", "off"}]
  /\ stopper \in [Effects -> {"nobody", "callback", "start", "cleanup"}]
  /\ \A i \in Effects : stopper[i] # "nobody" <=> camera[i] = "closing"
  /\ starting \in BOOLEAN /\ cameraError \in BOOLEAN
  /\ broken \in BOOLEAN
  /\ scans \in [Effects -> Nat]

\* One code per opening: a mounted scanner hands over one code, however
\* many frames are decoded while it starts and stops (scannedRef).
OneScanPerOpening == \A i \in Effects : scans[i] <= 1

\* Nothing is handed over once the scanner is gone, although the camera is
\* being stopped between the decoding and the call (the second check of the
\* callback).
NoLateScan ==
  [][\A i \in Effects :
       scans'[i] # scans[i] => mountedRef /\ ~cancelled[i]]_scannerVars

\* The cleanup never stops a scanner that is not scanning, which would throw
\* out of the effect (runningRef).
CleanupSafe == ~broken

\* The camera of a scanner that is gone goes out and stays out, at whatever
\* point of its start or stop the scanner was closed.
CameraReleased ==
  \A i \in Effects :
    cancelled[i] ~> [](camera[i] \notin {"on", "closing"})
=============================================================================
