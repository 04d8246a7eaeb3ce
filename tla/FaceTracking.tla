---------------------------- MODULE FaceTracking ----------------------------
(***************************************************************************)
(* The face tracker (src/src/face_tracker.cpp, camera.cpp): the tracking   *)
(* thread takes frames from the camera, looks for faces and leaves the     *)
(* first one under faceMutex, and the frame under frameMutex; the frame    *)
(* loop asks for the face and shows the frame. A face is its position      *)
(* <<x, y>>; the thread writes one coordinate at a time. Who calls what,   *)
(* and when, is in Robot.                                                  *)
(***************************************************************************)
EXTENDS Integers

CONSTANTS Faces,    \* positions at which a face can be seen
          NoFace    \* getFacePosition returns false

ASSUME FacesAssumption == Faces \subseteq Int \X Int /\ NoFace \notin Faces

Seen == Faces \cup {NoFace}

VARIABLES
    view,           \* the face in front of the camera
    camera,         \* "absent", "working" or "broken"
    showWindow,
    shouldQuit,
    tracker,        \* where the tracking thread is; "none": not joinable
    frame,          \* the face in its frame, until it has published it
    currentFace, faceTrackingEnabled,
    faceMutex, frameMutex,
    hasNewFrame,
    caller,         \* where the frame loop is in getFacePosition or updateWindow
    answer          \* what getFacePosition returned, until the next call

thread == <<tracker, frame>>
face == <<currentFace, faceTrackingEnabled, faceMutex>>
window == <<frameMutex, hasNewFrame>>
calls == <<caller, answer>>
world == <<view, camera, showWindow>>
trackingVars == <<world, shouldQuit, thread, face, window, calls>>

Coordinates(i) == {f[i] : f \in Faces} \cup {0}

TrackingTypeOK ==
    /\ view \in Seen /\ frame \in Seen
    /\ camera \in {"absent", "working", "broken"}
    /\ showWindow \in BOOLEAN /\ shouldQuit \in BOOLEAN
    /\ tracker \in {"none", "test", "capture", "lock", "write", "second", "enable",
                    "lockFrame", "draw", "nap", "ended"}
    /\ currentFace \in Coordinates(1) \X Coordinates(2)
    /\ faceTrackingEnabled \in BOOLEAN /\ hasNewFrame \in BOOLEAN
    /\ faceMutex \in {"free", "tracker", "caller"}
    /\ frameMutex \in {"free", "tracker", "caller"}
    /\ caller \in {"idle", "lock", "test", "read", "lockFrame", "show"}
    /\ answer \in Seen

\* The constructor: the camera may be missing, the window may fail to open.
TrackingInit ==
    /\ view = NoFace /\ camera \in {"absent", "working"}
    /\ showWindow \in BOOLEAN /\ (showWindow => camera = "working")
    /\ shouldQuit = FALSE
    /\ tracker = "none" /\ frame = NoFace
    /\ currentFace = <<0, 0>> /\ faceTrackingEnabled = FALSE
    /\ faceMutex = "free" /\ frameMutex = "free" /\ hasNewFrame = FALSE
    /\ caller = "idle" /\ answer = NoFace

-----------------------------------------------------------------------------
(* The world.                                                              *)

FacesMove ==
    /\ \E f \in Seen \ {view} : view' = f
    /\ UNCHANGED <<camera, showWindow, shouldQuit, thread, face, window, calls>>

CameraBreaks ==
    /\ camera = "working" /\ camera' = "broken"
    /\ UNCHANGED <<view, showWindow, shouldQuit, thread, face, window, calls>>

-----------------------------------------------------------------------------
(* startTracking and stopTracking: an access to shouldQuit and then a join *)

StartTracking ==
    /\ IF tracker = "none" /\ camera # "absent"
       THEN shouldQuit' = FALSE /\ tracker' = "test"
       ELSE UNCHANGED <<shouldQuit, tracker>>
    /\ UNCHANGED <<world, frame, face, window, calls>>

AskToStop ==
    /\ shouldQuit' = TRUE
    /\ UNCHANGED <<world, thread, face, window, calls>>

JoinTracker ==
    /\ tracker \in {"none", "ended"}
    /\ tracker' = "none"
    /\ UNCHANGED <<world, shouldQuit, frame, face, window, calls>>

-----------------------------------------------------------------------------
(* trackingThreadFunc.                                                     *)

Track(here, there) == tracker = here /\ tracker' = there

TestQuit ==
    /\ Track("test", IF shouldQuit THEN "ended" ELSE "capture")
    /\ UNCHANGED <<world, shouldQuit, frame, face, window, calls>>

\* captureFrame and detectFaces; a camera that fails ends the thread.
Capture ==
    /\ IF camera = "working"
       THEN Track("capture", "lock") /\ frame' = view
       ELSE Track("capture", "ended") /\ UNCHANGED frame
    /\ UNCHANGED <<world, shouldQuit, face, window, calls>>

\* Fault: the face is written without the mutex.
LockFaceNot ==
    /\ Track("lock", "write")
    /\ UNCHANGED <<world, shouldQuit, frame, face, window, calls>>

LockFace ==
    /\ Track("lock", "write")
    /\ faceMutex = "free" /\ faceMutex' = "tracker"
    /\ UNCHANGED <<world, shouldQuit, frame, currentFace, faceTrackingEnabled, window, calls>>

AfterFace == IF showWindow THEN "lockFrame" ELSE "nap"

\* Fault: a frame without a face leaves the last face enabled.
WriteFaceKept ==
    /\ IF frame = NoFace
       THEN Track("write", AfterFace) /\ faceMutex' = "free"
            /\ UNCHANGED <<currentFace, faceTrackingEnabled>>
       ELSE /\ Track("write", "second") /\ currentFace' = [currentFace EXCEPT ![1] = frame[1]]
            /\ UNCHANGED <<faceTrackingEnabled, faceMutex>>
    /\ UNCHANGED <<world, shouldQuit, frame, window, calls>>

\* No face: only the flag is cleared, and the mutex given back.
WriteFace ==
    /\ IF frame = NoFace
       THEN Track("write", AfterFace) /\ faceTrackingEnabled' = FALSE /\ faceMutex' = "free"
            /\ UNCHANGED currentFace
       ELSE /\ Track("write", "second") /\ currentFace' = [currentFace EXCEPT ![1] = frame[1]]
            /\ UNCHANGED <<faceTrackingEnabled, faceMutex>>
    /\ UNCHANGED <<world, shouldQuit, frame, window, calls>>

WriteSecond ==
    /\ Track("second", "enable")
    /\ currentFace' = [currentFace EXCEPT ![2] = frame[2]]
    /\ UNCHANGED <<world, shouldQuit, frame, faceTrackingEnabled, faceMutex, window, calls>>

EnableFace ==
    /\ Track("enable", AfterFace)
    /\ faceTrackingEnabled' = TRUE /\ faceMutex' = "free" /\ frame' = NoFace
    /\ UNCHANGED <<world, shouldQuit, currentFace, window, calls>>

LockFrame ==
    /\ Track("lockFrame", "draw")
    /\ frameMutex = "free" /\ frameMutex' = "tracker"
    /\ UNCHANGED <<world, shouldQuit, frame, face, hasNewFrame, calls>>

DrawFrame ==
    /\ Track("draw", "nap")
    /\ hasNewFrame' = TRUE /\ frameMutex' = "free"
    /\ UNCHANGED <<world, shouldQuit, frame, face, calls>>

Nap ==
    /\ Track("nap", "test")
    /\ UNCHANGED <<world, shouldQuit, frame, face, window, calls>>

Tracking == \/ TestQuit \/ Capture \/ LockFace \/ WriteFace \/ WriteSecond
            \/ EnableFace \/ LockFrame \/ DrawFrame \/ Nap

-----------------------------------------------------------------------------
(* getFacePosition and updateWindow, called by the frame loop.             *)

Called(here, there) ==
    /\ caller = here /\ caller' = there
    /\ UNCHANGED <<world, shouldQuit, thread>>

GetFacePosition ==
    /\ Called("idle", IF camera = "absent" THEN "idle" ELSE "lock")
    /\ answer' = NoFace
    /\ UNCHANGED <<face, window>>

LockToRead ==
    /\ Called("lock", "test")
    /\ faceMutex = "free" /\ faceMutex' = "caller"
    /\ UNCHANGED <<currentFace, faceTrackingEnabled, window, answer>>

TestEnabled ==
    /\ IF faceTrackingEnabled
       THEN Called("test", "read") /\ UNCHANGED <<faceMutex, answer>>
       ELSE Called("test", "idle") /\ faceMutex' = "free" /\ answer' = NoFace
    /\ UNCHANGED <<currentFace, faceTrackingEnabled, window>>

ReadFace ==
    /\ Called("read", "idle")
    /\ answer' = currentFace /\ faceMutex' = "free"
    /\ UNCHANGED <<currentFace, faceTrackingEnabled, window>>

UpdateWindow ==
    /\ Called("idle", IF showWindow THEN "lockFrame" ELSE "idle")
    /\ answer' = NoFace
    /\ UNCHANGED <<face, window>>

LockToShow ==
    /\ Called("lockFrame", "show")
    /\ frameMutex = "free" /\ frameMutex' = "caller"
    /\ UNCHANGED <<face, hasNewFrame, answer>>

\* imshow may throw and leave the frame marked as new.
ShowFrame ==
    /\ Called("show", "idle")
    /\ hasNewFrame' \in {FALSE, hasNewFrame}
    /\ frameMutex' = "free"
    /\ UNCHANGED <<face, answer>>

Calling == LockToRead \/ TestEnabled \/ ReadFace \/ LockToShow \/ ShowFrame

-----------------------------------------------------------------------------
(* Properties.                                                             *)

\* The entry a reader may rely on: the face under the thread's hand counts from
\* its first written coordinate on, since nobody can read it before its last.
Board == IF tracker \in {"second", "enable"} THEN frame
         ELSE IF faceTrackingEnabled THEN currentFace ELSE NoFace

FaceBoard == INSTANCE FaceBoard WITH board <- Board

\* Whatever the thread does between the steps of a call, an answer is one whole
\* entry of the board: never the flag of one frame with the face of another, nor
\* the coordinates of two faces.
ImplementsFaceBoard == FaceBoard!BoardSpec

\* What is steadily in front of the camera is what the board says in the end, a
\* face that left included, unless the camera failed or tracking was stopped:
\* then the last face stays.
SeesWhatIsThere ==
    \A f \in Seen : <>[](view = f) => <>[](Board = f \/ tracker \in {"none", "ended"})

=============================================================================
