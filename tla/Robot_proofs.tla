---------------------------- MODULE Robot_proofs ----------------------------
(***************************************************************************)
(* Proofs about Robot and its face tracker, for any set of positions at    *)
(* which faces can be seen, any keys and any failure of the camera.        *)
(***************************************************************************)
EXTENDS Robot, TLAPS

\* Each mutex has the holder whose program counter says so.
MutexesHeld ==
    /\ tracker \in {"write", "second", "enable"} <=> faceMutex = "tracker"
    /\ caller \in {"test", "read"} <=> faceMutex = "caller"

\* The face is written coordinate by coordinate; a reader who has found the
\* flag set finds it set until he gives the mutex back.
FaceInHand ==
    /\ tracker \in {"second", "enable"} => frame \in Faces
    /\ tracker \in {"second", "enable"} => currentFace[1] = frame[1]
    /\ tracker = "enable" => currentFace[2] = frame[2]
    /\ caller = "read" => faceTrackingEnabled
    /\ faceTrackingEnabled /\ tracker \notin {"second", "enable"}
         => currentFace \in Faces

\* What main has waited for stays ended.
Ended ==
    /\ main \in {"stop", "joinTracker", "close", "destroy", "joinAgain", "over"}
         => speech = "done"
    /\ main \in {"close", "destroy", "joinAgain", "over"} => tracker = "none"

Inv == TypeOK /\ MutexesHeld /\ FaceInHand /\ Ended

-----------------------------------------------------------------------------
(* Positions.                                                              *)

LEMMA FacePairs ==
    /\ \A f \in Faces : f \in Int \X Int
    /\ \A f \in Faces : f[1] \in Coordinates(1) /\ f[2] \in Coordinates(2)
    /\ 0 \in Coordinates(1) /\ 0 \in Coordinates(2)
    /\ NoFace \notin Faces
BY FacesAssumption DEF Coordinates

\* A coordinate of a face may be stored in currentFace.
LEMMA StoreCoordinate ==
    ASSUME NEW p \in Coordinates(1) \X Coordinates(2), NEW f \in Faces
    PROVE  /\ [p EXCEPT ![1] = f[1]] \in Coordinates(1) \X Coordinates(2)
           /\ [p EXCEPT ![2] = f[2]] \in Coordinates(1) \X Coordinates(2)
           /\ [p EXCEPT ![1] = f[1]][1] = f[1]
           /\ [p EXCEPT ![2] = f[2]][1] = p[1]
           /\ [p EXCEPT ![2] = f[2]][2] = f[2]
<1>1. f[1] \in Coordinates(1) /\ f[2] \in Coordinates(2)
  BY FacePairs
<1> HIDE DEF Coordinates
<1> QED  BY <1>1

\* Two pairs with the same coordinates are one.
LEMMA SamePair ==
    ASSUME NEW p \in Coordinates(1) \X Coordinates(2), NEW f \in Faces,
           p[1] = f[1], p[2] = f[2]
    PROVE  p = f
<1>1. f \in Int \X Int
  BY FacePairs
<1>2. f = <<f[1], f[2]>>
  BY <1>1
<1>3. p = <<p[1], p[2]>>
  OBVIOUS
<1> QED  BY <1>2, <1>3

-----------------------------------------------------------------------------
(* The invariant.                                                          *)

LEMMA InvInit == Init => Inv
<1> SUFFICES ASSUME Init PROVE Inv
  OBVIOUS
<1> USE DEF Init, TrackingInit
<1>1. <<0, 0>> \in Coordinates(1) \X Coordinates(2)
  BY FacePairs
<1>2. TypeOK
  BY <1>1 DEF TypeOK, TrackingTypeOK, Seen
<1>3. MutexesHeld /\ FaceInHand /\ Ended
  BY DEF MutexesHeld, FaceInHand, Ended
<1> QED  BY <1>2, <1>3 DEF Inv

\* A round of the tracking thread.
LEMMA TrackingKeepsInv == ASSUME Inv, TrackerRuns PROVE Inv'
<1> USE DEF Inv, TypeOK, TrackingTypeOK, MutexesHeld, FaceInHand, Ended,
            TrackerRuns, Elsewhere, Track, AfterFace, Seen,
            world, thread, face, window, calls, flags
<1>1. CASE TestQuit
  BY <1>1 DEF TestQuit
<1>2. CASE Capture
  BY <1>2 DEF Capture
<1>3. CASE LockFace
  BY <1>3 DEF LockFace
<1>4. CASE WriteFace
  <2>1. CASE frame = NoFace
    <3>1. /\ tracker = "write" /\ tracker' \in {"lockFrame", "nap"}
          /\ faceTrackingEnabled' = FALSE /\ faceMutex' = "free"
          /\ UNCHANGED <<currentFace, world, shouldQuit, frame, window, calls,
                         main, flags, speech>>
      BY <1>4, <2>1 DEF WriteFace
    <3>2. TypeOK'
      <4>1. faceTrackingEnabled' \in BOOLEAN /\ faceMutex' \in {"free", "tracker", "caller"}
        BY <3>1
      <4>2. tracker' \in {"none", "test", "capture", "lock", "write", "second",
                          "enable", "lockFrame", "draw", "nap", "ended"}
        BY <3>1
      <4> QED  BY <3>1, <4>1, <4>2
    <3>3. MutexesHeld' /\ Ended'
      BY <3>1
    <3>4. FaceInHand'
      BY <3>1
    <3> QED  BY <3>2, <3>3, <3>4
  <2>2. CASE frame # NoFace
    <3>1. frame \in Faces
      BY <2>2
    <3>2. /\ currentFace' \in Coordinates(1) \X Coordinates(2)
          /\ currentFace'[1] = frame[1]
      <4>1. currentFace' = [currentFace EXCEPT ![1] = frame[1]]
        BY <1>4, <2>2 DEF WriteFace
      <4> QED  BY <3>1, <4>1, StoreCoordinate
    <3>3. /\ tracker = "write" /\ tracker' = "second"
          /\ UNCHANGED <<faceTrackingEnabled, faceMutex, world, shouldQuit, frame,
                         window, calls, main, flags, speech>>
      BY <1>4, <2>2 DEF WriteFace
    <3> QED  BY <3>1, <3>2, <3>3
  <2> QED  BY <2>1, <2>2
<1>5. CASE WriteSecond
  <2>1. /\ currentFace' \in Coordinates(1) \X Coordinates(2)
        /\ currentFace'[1] = frame[1] /\ currentFace'[2] = frame[2]
    BY <1>5, StoreCoordinate DEF WriteSecond
  <2> QED  BY <1>5, <2>1 DEF WriteSecond
<1>6. CASE EnableFace
  <2>1. currentFace = frame
    BY <1>6, SamePair DEF EnableFace
  <2> QED  BY <1>6, <2>1 DEF EnableFace
<1>7. CASE LockFrame
  BY <1>7 DEF LockFrame
<1>8. CASE DrawFrame
  BY <1>8 DEF DrawFrame
<1>9. CASE Nap
  BY <1>9 DEF Nap
<1> QED
  BY <1>1, <1>2, <1>3, <1>4, <1>5, <1>6, <1>7, <1>8, <1>9 DEF Tracking

\* The steps of a call of the frame loop.
LEMMA CallingKeepsInv == ASSUME Inv, CallRuns PROVE Inv'
<1> USE DEF Inv, TypeOK, TrackingTypeOK, MutexesHeld, FaceInHand, Ended,
            CallRuns, Elsewhere, Called, Seen,
            world, thread, face, window, calls, flags
<1>1. CASE LockToRead
  BY <1>1 DEF LockToRead
<1>2. CASE TestEnabled
  BY <1>2 DEF TestEnabled
<1>3. CASE ReadFace
  BY <1>3 DEF ReadFace
<1>4. CASE LockToShow
  BY <1>4 DEF LockToShow
<1>5. CASE ShowFrame
  <2>1. hasNewFrame' \in BOOLEAN
    BY <1>5 DEF ShowFrame
  <2> QED  BY <1>5, <2>1 DEF ShowFrame
<1> QED  BY <1>1, <1>2, <1>3, <1>4, <1>5 DEF Calling

LEMMA InvStep == Inv /\ [Next]_vars => Inv'
<1> SUFFICES ASSUME Inv, [Next]_vars PROVE Inv'
  OBVIOUS
<1>1. CASE TrackerRuns
  BY <1>1, TrackingKeepsInv
<1>2. CASE CallRuns
  BY <1>2, CallingKeepsInv
<1> USE DEF Inv, TypeOK, TrackingTypeOK, MutexesHeld, FaceInHand, Ended, Quietly, At,
            Seen, trackingVars, world, thread, face, window, calls, flags
<1>3. CASE Boot
  <2>1. /\ main = "boot" /\ main' = "spawn"
        /\ shouldQuit' \in BOOLEAN
        /\ tracker' = tracker \/ (tracker = "none" /\ tracker' = "test")
        /\ UNCHANGED <<world, frame, face, window, calls, flags, speech>>
    BY <1>3 DEF Boot, StartTracking
  <2> QED  BY <2>1
<1>4. CASE SpawnThreads
  BY <1>4 DEF SpawnThreads
<1>5. CASE Press
  <2>1. quit' \in BOOLEAN /\ speak_go' \in BOOLEAN
    BY <1>5 DEF Press
  <2> QED  BY <1>5, <2>1 DEF Press
<1>6. CASE Follow
  BY <1>6 DEF Follow, GetFacePosition, Called
<1>7. CASE ShowCamera
  BY <1>7 DEF ShowCamera, UpdateWindow, Called
<1>8. CASE AskAgain
  BY <1>8 DEF AskAgain, GetFacePosition, Called
<1>9. CASE EndFrame
  BY <1>9 DEF EndFrame
<1>10. CASE JoinSpeech
  BY <1>10 DEF JoinSpeech
<1>11. CASE StopTracking
  BY <1>11 DEF StopTracking, AskToStop
<1>12. CASE JoinTracking
  BY <1>12 DEF JoinTracking, JoinTracker
<1>13. CASE CloseWindow
  BY <1>13 DEF CloseWindow
<1>14. CASE SpeechStep
  BY <1>14 DEF SpeechStep, TestGo, SleepThenTestQuit, Speak, Speaks
<1>15. CASE WorldMoves
  BY <1>15 DEF WorldMoves, FacesMove, CameraBreaks, Elsewhere
<1>16. CASE UNCHANGED vars
  BY <1>16 DEF vars
<1> QED
  BY <1>1, <1>2, <1>3, <1>4, <1>5, <1>6, <1>7, <1>8, <1>9, <1>10, <1>11, <1>12,
     <1>13, <1>14, <1>15, <1>16 DEF Next, MainStep

LEMMA AlwaysInv == Spec => []Inv
BY InvInit, InvStep, PTL DEF Spec

\* Every variable keeps its type, whatever faces are shown and keys pressed.
THEOREM TypeCorrect == Spec => []TypeOK
BY AlwaysInv, PTL DEF Inv

\* When main closes the window and the globals are destroyed (main.cpp, after
\* the frame loop), the speech thread and the tracking thread have ended.
THEOREM AlwaysTornDownAlone == Spec => []TornDownAlone
<1>1. Inv => TornDownAlone
  BY DEF Inv, Ended, TornDownAlone
<1> QED  BY <1>1, AlwaysInv, PTL

-----------------------------------------------------------------------------
(* The refinement. The thread posts its face when it writes the first      *)
(* coordinate, and that there is none when it clears the flag; a call      *)
(* copies the board when it reads.                                         *)

\* The mutex is the reason why the board is whole when it is read.
LEMMA ReadCopies == ASSUME Inv, ReadFace PROVE FaceBoard!Copy
<1>1. /\ caller = "read" /\ answer' = currentFace
      /\ UNCHANGED <<tracker, frame, currentFace, faceTrackingEnabled>>
  BY DEF ReadFace, Called, thread
<1>2. tracker \notin {"second", "enable"} /\ faceTrackingEnabled
  BY <1>1 DEF Inv, MutexesHeld, FaceInHand
<1> QED  BY <1>1, <1>2 DEF FaceBoard!Copy, Board

LEMMA TrackingPosts ==
    ASSUME Inv, Tracking
    PROVE  UNCHANGED FaceBoard!boardVars \/ \E f \in Seen : FaceBoard!Post(f)
<1> USE DEF Inv, Track, AfterFace, Board, FaceBoard!boardVars, FaceBoard!Post,
            world, thread, face, window, calls
<1>1. CASE WriteFace
  <2>1. CASE frame = NoFace
    <3>1. FaceBoard!Post(NoFace)
      BY <1>1, <2>1 DEF WriteFace
    <3> QED  BY <3>1 DEF Seen
  <2>2. CASE frame # NoFace
    <3>1. FaceBoard!Post(frame)
      BY <1>1, <2>2 DEF WriteFace
    <3>2. frame \in Seen
      BY DEF TypeOK, TrackingTypeOK
    <3> QED  BY <3>1, <3>2
  <2> QED  BY <2>1, <2>2
<1>2. CASE WriteSecond
  BY <1>2 DEF WriteSecond
<1>3. CASE EnableFace
  <2>1. currentFace = frame
    BY <1>3, SamePair DEF EnableFace, FaceInHand, TypeOK, TrackingTypeOK
  <2> QED  BY <1>3, <2>1 DEF EnableFace
<1>4. CASE TestQuit
  BY <1>4 DEF TestQuit
<1>5. CASE Capture
  BY <1>5 DEF Capture
<1>6. CASE LockFace
  BY <1>6 DEF LockFace
<1>7. CASE LockFrame
  BY <1>7 DEF LockFrame
<1>8. CASE DrawFrame
  BY <1>8 DEF DrawFrame
<1>9. CASE Nap
  BY <1>9 DEF Nap
<1> QED
  BY <1>1, <1>2, <1>3, <1>4, <1>5, <1>6, <1>7, <1>8, <1>9 DEF Tracking

LEMMA MainLeavesBoard ==
    ASSUME Inv, MainStep
    PROVE  UNCHANGED FaceBoard!boardVars \/ FaceBoard!Call
<1> USE DEF At, Quietly, Board, FaceBoard!boardVars, FaceBoard!Call,
            trackingVars, world, thread, face, window, calls
<1>1. CASE Boot
  BY <1>1 DEF Boot, StartTracking
<1>2. CASE Follow \/ AskAgain
  BY <1>2 DEF Follow, AskAgain, GetFacePosition, Called
<1>3. CASE ShowCamera
  BY <1>3 DEF ShowCamera, UpdateWindow, Called
<1>4. CASE SpawnThreads \/ EndFrame \/ JoinSpeech \/ CloseWindow
  BY <1>4 DEF SpawnThreads, EndFrame, JoinSpeech, CloseWindow
<1>5. CASE StopTracking
  BY <1>5 DEF StopTracking, AskToStop
<1>6. CASE JoinTracking
  BY <1>6 DEF JoinTracking, JoinTracker
<1> QED  BY <1>1, <1>2, <1>3, <1>4, <1>5, <1>6 DEF MainStep

\* An answer of getFacePosition is one whole entry of the board, as it was at a
\* moment of the call, whatever the tracking thread did meanwhile.
THEOREM AlwaysImplementsFaceBoard == Spec => ImplementsFaceBoard
<1>1. Init => FaceBoard!BoardInit
  BY DEF Init, TrackingInit, FaceBoard!BoardInit, Board
<1>2. ASSUME Inv, [Next]_vars
      PROVE  [FaceBoard!BoardNext]_FaceBoard!boardVars
  <2> USE DEF FaceBoard!BoardNext
  <2>1. CASE MainStep
    BY <1>2, <2>1, MainLeavesBoard
  <2>2. CASE TrackerRuns
    BY <1>2, <2>2, TrackingPosts DEF TrackerRuns, Seen
  <2>3. CASE CallRuns
    <3>1. CASE ReadFace
      BY <1>2, <3>1, ReadCopies
    <3>2. CASE LockToRead \/ TestEnabled \/ LockToShow \/ ShowFrame
      <4>1. /\ UNCHANGED <<tracker, frame, currentFace, faceTrackingEnabled>>
            /\ answer' \in {answer, NoFace}
        BY <3>2 DEF LockToRead, TestEnabled, LockToShow, ShowFrame, Called, thread, face
      <4>2. UNCHANGED Board
        BY <4>1 DEF Board
      <4> QED  BY <4>1, <4>2 DEF FaceBoard!boardVars, FaceBoard!Call
    <3> QED  BY <2>3, <3>1, <3>2 DEF CallRuns, Calling
  <2>4. CASE Press \/ SpeechStep
    BY <2>4 DEF Press, SpeechStep, TestGo, SleepThenTestQuit, Speak, Speaks, Quietly,
                Board, FaceBoard!boardVars, trackingVars, thread, face, calls
  <2>5. CASE WorldMoves
    BY <2>5 DEF WorldMoves, FacesMove, CameraBreaks, Board, FaceBoard!boardVars,
                thread, face, calls
  <2>6. CASE UNCHANGED vars
    BY <2>6 DEF vars, Board, FaceBoard!boardVars, trackingVars, thread, face, calls
  <2> QED  BY <1>2, <2>1, <2>2, <2>3, <2>4, <2>5, <2>6 DEF Next
<1> QED
  BY <1>1, <1>2, AlwaysInv, PTL
  DEF Spec, ImplementsFaceBoard, FaceBoard!BoardSpec

=============================================================================
