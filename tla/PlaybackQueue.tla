--------------------------- MODULE PlaybackQueue ---------------------------
(***************************************************************************)
(* The playback thread of AudioHandler (src/src/speak.cpp, the PortAudio   *)
(* build): playChunk pushes on playQueue under playMutex and notifies      *)
(* playCond; playLoop waits on playCond, takes the front chunk and writes  *)
(* it to the sound card while it still holds playMutex. The websocket      *)
(* thread feeds it answers, the speech thread the recording it plays back. *)
(*                                                                         *)
(* playbackRunning stays true: stopPlaybackThread is called only by        *)
(* cleanup, which the running program does not reach.                      *)
(***************************************************************************)
EXTENDS Naturals, Sequences

CONSTANTS
    Producers,   \* threads that call playChunk
    MaxChunks,   \* bound of the model: chunks per producer
    OutputOpens  \* whether openAudioOutput may succeed and may fail: a subset of BOOLEAN

ASSUME MaxChunksAssumption == MaxChunks \in Nat
ASSUME OutputAssumption == OutputOpens \subseteq BOOLEAN

Nobody == "nobody"
Player == "player"
Chunk == Producers \X (1..MaxChunks)

ASSUME NamesAssumption == Nobody \notin Producers /\ Player \notin Producers

VARIABLES
    queue,      \* playQueue
    mutex,      \* the holder of playMutex
    notified,   \* the player, waiting on playCond, was notified
    player,     \* where playLoop is
    front,      \* its local variable: the chunk it took, as <<chunk>> or <<>>
    producer,   \* producer[p]: where p is in playChunk
    pushed,     \* pushed[p]: chunks p has pushed
    heard       \* history: chunks Pa_WriteStream was given

vars == <<queue, mutex, notified, player, front, producer, pushed, heard>>

TypeOK ==
    /\ queue \in Seq(Chunk)
    /\ mutex \in Producers \cup {Player, Nobody}
    /\ notified \in BOOLEAN
    /\ player \in {"unstarted", "open", "lock", "test", "asleep", "grab",
                   "write", "ended"}
    /\ front \in Seq(Chunk)
    /\ producer \in [Producers -> {"idle", "lock", "push", "unlock"}]
    /\ pushed \in [Producers -> 0..MaxChunks]
    /\ heard \in Seq(Chunk)

Init ==
    /\ queue = <<>> /\ mutex = Nobody /\ notified = FALSE
    /\ player = "unstarted" /\ front = <<>>
    /\ producer = [p \in Producers |-> "idle"]
    /\ pushed = [p \in Producers |-> 0]
    /\ heard = <<>>

-----------------------------------------------------------------------------
(* playChunk.                                                              *)

Move(p, here, there) == /\ producer[p] = here
                        /\ producer' = [producer EXCEPT ![p] = there]

PlayChunk(p) ==
    /\ Move(p, "idle", "lock")
    /\ pushed[p] < MaxChunks
    /\ UNCHANGED <<queue, mutex, notified, player, front, pushed, heard>>

LockPush(p) ==
    /\ Move(p, "lock", "push")
    /\ mutex = Nobody /\ mutex' = p
    /\ UNCHANGED <<queue, notified, player, front, pushed, heard>>

\* Fault: the chunk is pushed and nobody is notified.
PushSilently(p) ==
    /\ Move(p, "push", "unlock")
    /\ pushed' = [pushed EXCEPT ![p] = @ + 1]
    /\ queue' = Append(queue, <<p, pushed[p] + 1>>)
    /\ UNCHANGED <<mutex, notified, player, front, heard>>

\* A notification reaches the player only if it is waiting.
PushAndNotify(p) ==
    /\ Move(p, "push", "unlock")
    /\ pushed' = [pushed EXCEPT ![p] = @ + 1]
    /\ queue' = Append(queue, <<p, pushed[p] + 1>>)
    /\ notified' = (notified \/ player = "asleep")
    /\ UNCHANGED <<mutex, player, front, heard>>

UnlockPush(p) ==
    /\ Move(p, "unlock", "idle")
    /\ mutex' = Nobody
    /\ UNCHANGED <<queue, notified, player, front, pushed, heard>>

-----------------------------------------------------------------------------
(* playLoop.                                                               *)

Play(here, there) == player = here /\ player' = there
Producing == UNCHANGED <<producer, pushed>>

\* startPlaybackThread; a second call finds the thread joinable.
StartPlaybackThread ==
    /\ Play("unstarted", "open")
    /\ Producing /\ UNCHANGED <<queue, mutex, notified, front, heard>>

\* if (!openAudioOutput()) return;
OpenOutput ==
    /\ \/ TRUE \in OutputOpens /\ Play("open", "lock")
       \/ FALSE \in OutputOpens /\ Play("open", "ended")
    /\ Producing /\ UNCHANGED <<queue, mutex, notified, front, heard>>

LockPlay ==
    /\ Play("lock", "test")
    /\ mutex = Nobody /\ mutex' = Player
    /\ Producing /\ UNCHANGED <<queue, notified, front, heard>>

\* Fault: the thread sleeps with the mutex held.
TestQueueHolding ==
    /\ \/ queue # <<>> /\ Play("test", "grab") /\ UNCHANGED mutex
       \/ queue = <<>> /\ Play("test", "asleep") /\ UNCHANGED mutex
    /\ notified' = FALSE
    /\ Producing /\ UNCHANGED <<queue, front, heard>>

\* playCond.wait(lock, predicate): with nothing queued the mutex is released
\* and the thread sleeps, in one step.
TestQueue ==
    /\ \/ queue # <<>> /\ Play("test", "grab") /\ UNCHANGED mutex
       \/ queue = <<>> /\ Play("test", "asleep") /\ mutex' = Nobody
    /\ notified' = FALSE
    /\ Producing /\ UNCHANGED <<queue, front, heard>>

\* Woken by a notification; a condition variable may also wake for no reason.
Wake ==
    /\ Play("asleep", "lock")
    /\ notified
    /\ notified' = FALSE
    /\ Producing /\ UNCHANGED <<queue, mutex, front, heard>>

WakeSpuriously ==
    /\ Play("asleep", "lock")
    /\ notified' = FALSE
    /\ Producing /\ UNCHANGED <<queue, mutex, front, heard>>

\* Fault: the front chunk is copied and left on the queue.
GrabNoPop ==
    /\ Play("grab", "write")
    /\ front' = <<Head(queue)>>
    /\ Producing /\ UNCHANGED <<queue, mutex, notified, heard>>

\* front = playQueue.front(); playQueue.pop();
Grab ==
    /\ Play("grab", "write")
    /\ front' = <<Head(queue)>>
    /\ queue' = Tail(queue)
    /\ Producing /\ UNCHANGED <<mutex, notified, heard>>

\* Pa_WriteStream blocks until the card took the chunk, with the mutex held;
\* the end of the round releases it.
WriteStream ==
    /\ Play("write", "lock")
    /\ heard' = heard \o front
    /\ front' = <<>>
    /\ mutex' = Nobody
    /\ Producing /\ UNCHANGED <<queue, notified>>

PlayerStep == \/ OpenOutput \/ LockPlay \/ TestQueue \/ Wake \/ Grab
              \/ WriteStream

Produce(p) == LockPush(p) \/ PushAndNotify(p) \/ UnlockPush(p)

Next == \/ StartPlaybackThread \/ PlayerStep \/ WakeSpuriously
        \/ \E p \in Producers : PlayChunk(p) \/ Produce(p)

Spec == Init /\ [][Next]_vars

\* The thread is started (session.created) and every thread is scheduled. No
\* fairness is assumed of the mutex, nor of spurious wake-ups.
FairSpec ==
    /\ Spec
    /\ WF_vars(StartPlaybackThread) /\ WF_vars(PlayerStep)
    /\ \A p \in Producers : WF_vars(Produce(p))

-----------------------------------------------------------------------------
(* Properties.                                                             *)

\* The queue is touched only by the holder of playMutex.
QueueIsGuarded ==
    /\ player \in {"test", "grab", "write"} <=> mutex = Player
    /\ \A p \in Producers : producer[p] \in {"push", "unlock"} <=> mutex = p

\* While the player sleeps with chunks queued, its wake-up is under way: no
\* push falls between the player's test of the queue and its sleep.
NoLostWakeup == player = "asleep" /\ queue # <<>> => notified

\* The queue as its users see it: a chunk counts as waiting until it is heard.
Channel == INSTANCE AudioChannel WITH waiting <- front \o queue

\* Every chunk is heard once, in the order of the pushes, whether or not the
\* output opens and whatever wakes the player.
KeepsOrder == Channel!ChannelSafety

\* And unless the output did not open every chunk is heard in the end.
EverythingIsHeard == <>(player = "ended") \/ Channel!HearsOn

=============================================================================
