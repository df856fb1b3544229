------------------------------ MODULE CameraProxy ------------------------------
(***************************************************************************)
(* take_raw_exposures of catkit2/testbed/proxies/camera.py, composed with   *)
(* the camera service: a client reads is_acquiring and the ids of images,   *)
(* has the server thread start and end the acquisition, and takes images by *)
(* their ids, at any speed.                                                 *)
(***************************************************************************)
EXTENDS Camera

CONSTANTS
  ClientKinds,      \* the cameras that a client may take exposures with
  NumExposures,     \* what the client asks for
  MaxTries          \* bound: ids that it waits for

ASSUME ProxyAssumption == NumExposures \in Nat /\ MaxTries \in Nat

VARIABLES
  client,           \* where the client is
  was,              \* was_acquiring
  since,            \* the exposures that had begun when it called
  first, tried,     \* first_frame_id and i
  got               \* the exposures it was given

clientVars == <<client, was, since, first, tried, got>>
proxyVars  == <<cameraVars, clientVars>>

ProxyInit ==
  /\ Init
  /\ client \in {"absent"} \cup (IF kind \in ClientKinds THEN {"none"} ELSE {})
  /\ was = FALSE /\ since = 0 /\ first = 0 /\ tried = 0 /\ got = <<>>

ClientMoves(from, to) == client = from /\ client' = to

\* A client calls when the service runs.
LookAcquiring ==
  /\ Serving /\ announced # "never"
  /\ was' = (announced = "yes") /\ since' = exposures
  /\ ClientMoves("none", IF was' THEN "newest" ELSE "start")
  /\ UNCHANGED <<cameraVars, first, tried, got>>

RequestStart ==
  /\ ClientMoves("start", "newest")
  /\ StartAcquisition
  /\ UNCHANGED <<was, since, first, tried, got>>

NewestAvailable == IF images = <<>> THEN 0 ELSE Len(images) - 1

\* Mutant: no frame is ignored.
ReadNewestOnly ==
  /\ ClientMoves("newest", "get")
  /\ first' = NewestAvailable
  /\ UNCHANGED <<cameraVars, was, since, tried, got>>

\* "Ignore first two frames to ensure the frames were taken after the call."
ReadNewest ==
  /\ ClientMoves("newest", "get")
  /\ first' = NewestAvailable + IF was THEN 2 ELSE 0
  /\ UNCHANGED <<cameraVars, was, since, tried, got>>

Wanting == client = "get" /\ Len(got) < NumExposures /\ tried < MaxTries

Get ==
  /\ Wanting /\ first + tried \in firstId .. Len(images) - 1
  /\ got' = Append(got, images[first + tried + 1]) /\ tried' = tried + 1
  /\ UNCHANGED <<cameraVars, client, was, since, first>>

\* The frame is not available any more; or, the same error, it did not come.
Skip ==
  /\ Wanting
  /\ \/ first + tried < firstId
     \/ first + tried >= Len(images) /\ ~device.streaming
  /\ tried' = tried + 1
  /\ UNCHANGED <<cameraVars, client, was, since, first, got>>

\* The client has its exposures, or is interrupted.
RequestEnd ==
  /\ client = "get"
  /\ client' = "done"
  /\ IF was THEN UNCHANGED cameraVars ELSE EndAcquisition
  /\ UNCHANGED <<was, since, first, tried, got>>

Client ==
  LookAcquiring \/ RequestStart \/ ReadNewest \/ Get \/ Skip \/ RequestEnd

\* Bound: no sizes are set where there is a client.
ProxyNext ==
  \/ CameraNext /\ UNCHANGED clientVars /\ (SetProperty => client = "absent")
  \/ Client

ProxySpec == ProxyInit /\ [][ProxyNext]_proxyVars /\ Fairness

ProxyTypeOK ==
  /\ TypeOK
  /\ client \in {"absent", "none", "start", "newest", "get", "done"}
  /\ was \in BOOLEAN /\ since \in 0 .. MaxExposures
  /\ first \in 0 .. MaxExposures + 1 /\ tried \in 0 .. MaxTries
  /\ Len(got) <= NumExposures /\ ToSet(got) \subseteq 1 .. MaxExposures

\* Of the exposures that a client is given, at most the first had begun before its
\* call; at most the first two, if the camera was not acquiring, or did not yet say so.
OnlyFirstIsOld ==
  \A k \in DOMAIN got : got[k] <= since => k = 1 \/ (k = 2 /\ ~was)
==============================================================================
