------------------------------- MODULE Robot -------------------------------
(***************************************************************************)
(* The program from start to exit (src/src/main.cpp): the frame loop with  *)
(* its keys and its calls of the face tracker, the speech thread, which    *)
(* waits for SPACE and then talks for ever, and what main does after ESC:  *)
(* wait for the speech thread, stop the tracker, close the window, return. *)
(* The detached movement thread only polls quit and is left out.           *)
(***************************************************************************)
EXTENDS FaceTracking

VARIABLES
    main,       \* where main is
    quit, speak_go,
    speech      \* where the speech thread is

flags == <<quit, speak_go>>
vars == <<trackingVars, main, flags, speech>>

TypeOK ==
    /\ TrackingTypeOK
    /\ main \in {"boot", "spawn", "keys", "window", "look", "while",
                 "join", "stop", "joinTracker", "close", "destroy",
                 "joinAgain", "over"}
    /\ quit \in BOOLEAN /\ speak_go \in BOOLEAN
    /\ speech \in {"none", "test", "sleep", "begin", "talking", "done"}

Init ==
    /\ TrackingInit
    /\ main = "boot" /\ quit = FALSE /\ speak_go = FALSE
    /\ speech = "none"

-----------------------------------------------------------------------------
(* main. A step that calls the tracker moves on when the call is over.     *)

At(here, there) == main = here /\ main' = there /\ caller = "idle"
Quietly == UNCHANGED trackingVars

Boot == At("boot", "spawn") /\ StartTracking /\ UNCHANGED <<flags, speech>>

SpawnThreads ==
    /\ At("spawn", "keys")
    /\ speech' = "test"
    /\ Quietly /\ UNCHANGED flags

Press ==
    /\ At("keys", "keys")
    /\ \/ quit' = TRUE /\ UNCHANGED speak_go
       \/ speak_go' = TRUE /\ UNCHANGED quit
    /\ Quietly /\ UNCHANGED speech

\* All events are read: the frame begins.
Follow == At("keys", "window") /\ GetFacePosition /\ UNCHANGED <<flags, speech>>

ShowCamera == At("window", "look") /\ UpdateWindow /\ UNCHANGED <<flags, speech>>

\* The tracker is asked again when a look is due or goes on (in the one frame in
\* which both are so, twice; LookCycle has the three questions).
AskAgain ==
    /\ At("look", "while")
    /\ GetFacePosition \/ Quietly
    /\ UNCHANGED <<flags, speech>>

EndFrame ==
    /\ At("while", IF quit THEN "join" ELSE "keys")
    /\ Quietly /\ UNCHANGED <<flags, speech>>

\* Fault: main does not wait for the speech thread.
JoinSpeechNot == At("join", "stop") /\ Quietly /\ UNCHANGED <<flags, speech>>

JoinSpeech ==
    /\ At("join", "stop") /\ speech = "done"
    /\ Quietly /\ UNCHANGED <<flags, speech>>

\* stopTracking: by main, and once more by the tracker's destructor.
StopTracking ==
    /\ At("stop", "joinTracker") \/ At("destroy", "joinAgain")
    /\ AskToStop /\ UNCHANGED <<flags, speech>>

JoinTracking ==
    /\ At("joinTracker", "close") \/ At("joinAgain", "over")
    /\ JoinTracker /\ UNCHANGED <<flags, speech>>

\* close_window and return; the globals are destroyed.
CloseWindow == At("close", "destroy") /\ Quietly /\ UNCHANGED <<flags, speech>>

MainStep == \/ Boot \/ SpawnThreads \/ Follow \/ ShowCamera \/ AskAgain
            \/ EndFrame \/ JoinSpeech \/ StopTracking \/ JoinTracking \/ CloseWindow

-----------------------------------------------------------------------------
(* The speech thread.                                                      *)

Speaks(here, there) == /\ speech = here /\ speech' = there
                       /\ Quietly /\ UNCHANGED <<main, flags>>

TestGo == Speaks("test", IF speak_go THEN "begin" ELSE "sleep")

\* Fault: the waiting thread does not look at quit.
SleepOn == Speaks("sleep", "test")

SleepThenTestQuit == Speaks("sleep", IF quit THEN "done" ELSE "test")

\* speak: run returns when initWebSocket fails; its loop has no end.
Speak == Speaks("begin", "talking") \/ Speaks("begin", "done")

SpeechStep == TestGo \/ SleepThenTestQuit \/ Speak

-----------------------------------------------------------------------------

Elsewhere == UNCHANGED <<main, flags, speech>>
TrackerRuns == Tracking /\ Elsewhere
CallRuns == Calling /\ Elsewhere
WorldMoves == (FacesMove \/ CameraBreaks) /\ Elsewhere

Next == MainStep \/ Press \/ SpeechStep \/ TrackerRuns \/ CallRuns \/ WorldMoves

Spec == Init /\ [][Next]_vars

\* Every thread is scheduled. The two mutexes are held for moments between naps of
\* 16 and 100 ms, so that whoever wants one gets it in the end: strong fairness of
\* the two threads that lock them. Nobody need press a key, no face need come, the
\* camera need not fail.
FairSpec ==
    /\ Spec
    /\ WF_vars(MainStep) /\ WF_vars(SpeechStep)
    /\ SF_vars(TrackerRuns) /\ SF_vars(CallRuns)

-----------------------------------------------------------------------------
(* Properties.                                                             *)

\* When the window is closed and the objects the threads use are destroyed, the
\* speech thread and the tracking thread have ended, whatever was pressed and
\* whatever the camera did: no std::thread is destroyed joinable.
TornDownAlone ==
    main \in {"close", "destroy", "joinAgain", "over"}
        => speech = "done" /\ tracker = "none"

\* ESC ends the program from any of its states, also when the camera fails or SPACE
\* comes just behind it, unless the robot has begun to talk: then main waits for
\* the speech thread for ever.
EscEndsProgram == quit ~> main = "over" \/ speech = "talking"

=============================================================================
