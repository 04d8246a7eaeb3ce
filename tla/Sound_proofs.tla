---------------------------- MODULE Sound_proofs ----------------------------
(***************************************************************************)
(* Proofs about PlaybackQueue, for every set of producers, any number of   *)
(* chunks and either answer of openAudioOutput, and about Sound, which     *)
(* runs it beside the devices and the recording, in both builds.           *)
(***************************************************************************)
EXTENDS Sound, SequenceTheorems, TLAPS

USE DEF Nobody, Player
USE NamesAssumption, MaxChunksAssumption

\* The player holds a chunk only between taking it and writing it, and takes
\* one only when it found one.
FrontIsHeld == /\ player = "write" => \E c \in Chunk : front = <<c>>
               /\ player # "write" => front = <<>>
               /\ player = "grab" => queue # <<>>

\* A producer inside playChunk is below its bound.
RoomToPush ==
    \A p \in Producers : producer[p] \in {"lock", "push"} => pushed[p] < MaxChunks

Inv == TypeOK /\ QueueIsGuarded /\ NoLostWakeup /\ FrontIsHeld /\ RoomToPush

-----------------------------------------------------------------------------
LEMMA InvInit == Init => Inv
<1> SUFFICES ASSUME Init PROVE Inv
  OBVIOUS
<1> USE DEF Init
<1>1. TypeOK
  <2>1. queue \in Seq(Chunk) /\ front \in Seq(Chunk) /\ heard \in Seq(Chunk)
    OBVIOUS
  <2>2. pushed \in [Producers -> 0..MaxChunks]
    OBVIOUS
  <2>3. producer \in [Producers -> {"idle", "lock", "push", "unlock"}]
    OBVIOUS
  <2> QED
    BY <2>1, <2>2, <2>3 DEF TypeOK
<1>2. QueueIsGuarded
  BY DEF QueueIsGuarded
<1>3. NoLostWakeup /\ FrontIsHeld /\ RoomToPush
  BY DEF NoLostWakeup, FrontIsHeld, RoomToPush
<1> QED
  BY <1>1, <1>2, <1>3 DEF Inv

\* The player's steps leave the producers alone.
LEMMA PlayerKeepsInv ==
  ASSUME Inv, StartPlaybackThread \/ PlayerStep \/ WakeSpuriously
  PROVE  Inv'
<1> USE DEF Inv, TypeOK, QueueIsGuarded, NoLostWakeup, FrontIsHeld, RoomToPush,
            Play, Producing
<1>1. CASE StartPlaybackThread
  BY <1>1 DEF StartPlaybackThread
<1>2. CASE OpenOutput
  BY <1>2 DEF OpenOutput
<1>3. CASE LockPlay
  BY <1>3 DEF LockPlay
<1>4. CASE TestQueue
  BY <1>4 DEF TestQueue
<1>5. CASE Wake
  BY <1>5 DEF Wake
<1>6. CASE WakeSpuriously
  BY <1>6 DEF WakeSpuriously
<1>7. CASE Grab
  <2>1. queue # <<>> /\ queue \in Seq(Chunk)
    BY <1>7 DEF Grab
  <2>2. Head(queue) \in Chunk /\ Tail(queue) \in Seq(Chunk)
    BY <2>1, HeadTailProperties
  <2> QED
    BY <1>7, <2>2 DEF Grab
<1>8. CASE WriteStream
  <2>1. heard' \in Seq(Chunk)
    BY <1>8, ConcatProperties DEF WriteStream
  <2> QED
    BY <1>8, <2>1 DEF WriteStream
<1> QED
  BY <1>1, <1>2, <1>3, <1>4, <1>5, <1>6, <1>7, <1>8 DEF PlayerStep

\* A producer's steps leave the player alone, but for its notification.
LEMMA ProducerKeepsInv ==
  ASSUME Inv, NEW p \in Producers, PlayChunk(p) \/ Produce(p)
  PROVE  Inv'
<1> USE DEF Inv, TypeOK, QueueIsGuarded, NoLostWakeup, FrontIsHeld, RoomToPush,
            Move
<1>1. CASE PlayChunk(p)
  BY <1>1 DEF PlayChunk
<1>2. CASE LockPush(p)
  BY <1>2 DEF LockPush
<1>3. CASE PushAndNotify(p)
  <2>1. pushed[p] \in 0..MaxChunks /\ pushed[p] < MaxChunks
    BY <1>3 DEF PushAndNotify
  <2>2. pushed[p] + 1 \in 1..MaxChunks
    BY <2>1
  <2>3. pushed' \in [Producers -> 0..MaxChunks]
    BY <1>3, <2>2 DEF PushAndNotify
  <2>4. queue' \in Seq(Chunk) /\ queue' # <<>>
    <3>1. <<p, pushed[p] + 1>> \in Chunk
      BY <2>2 DEF Chunk
    <3> QED
      BY <1>3, <3>1, AppendProperties DEF PushAndNotify
  <2>5. TypeOK'
    BY <1>3, <2>3, <2>4 DEF PushAndNotify
  <2>6. QueueIsGuarded' /\ NoLostWakeup' /\ FrontIsHeld'
    BY <1>3, <2>4 DEF PushAndNotify
  <2>7. RoomToPush'
    BY <1>3 DEF PushAndNotify
  <2> QED
    BY <2>5, <2>6, <2>7
<1>4. CASE UnlockPush(p)
  BY <1>4 DEF UnlockPush
<1> QED
  BY <1>1, <1>2, <1>3, <1>4 DEF Produce

LEMMA InvStep == Inv /\ [Next]_vars => Inv'
<1>1. ASSUME Inv, UNCHANGED vars PROVE Inv'
  BY <1>1 DEF Inv, vars, TypeOK, QueueIsGuarded, NoLostWakeup, FrontIsHeld,
              RoomToPush
<1> QED
  BY <1>1, PlayerKeepsInv, ProducerKeepsInv DEF Next

LEMMA AlwaysInv == Spec => []Inv
BY InvInit, InvStep, PTL DEF Spec

\* Every variable keeps its type.
THEOREM TypeCorrect == Spec => []TypeOK
BY AlwaysInv, PTL DEF Inv

\* playMutex does what it is there for: whoever is at playQueue holds it.
THEOREM AlwaysGuarded == Spec => []QueueIsGuarded
BY AlwaysInv, PTL DEF Inv

\* The player of playLoop never sleeps on playCond beside a queued chunk
\* without its wake-up under way, spurious wake-ups or not.
THEOREM WakeupNeverLost == Spec => []NoLostWakeup
BY AlwaysInv, PTL DEF Inv

-----------------------------------------------------------------------------
(* The refinement. A push hands a chunk over, the write to the sound card  *)
(* hears it, and taking the chunk off the queue changes nothing: it still  *)
(* waits, in the player's local variable.                                  *)

LEMMA PushHandsOver ==
  ASSUME Inv, NEW p \in Producers, PushAndNotify(p)
  PROVE  \E c \in Chunk : Channel!HandOver(c)
<1> USE DEF Inv, TypeOK
<1>1. pushed[p] \in 0..MaxChunks /\ pushed[p] < MaxChunks
  BY DEF PushAndNotify, Move, RoomToPush
<1> DEFINE c == <<p, pushed[p] + 1>>
<1>2. c \in Chunk
  BY <1>1 DEF Chunk
<1> HIDE DEF c
<1>3. queue' = Append(queue, c) /\ UNCHANGED <<front, heard>>
  BY DEF PushAndNotify, c
<1>4. Append(queue, c) = queue \o <<c>>
  BY <1>2, AppendIsConcat
<1>5. <<c>> \in Seq(Chunk)
  BY <1>2
<1>6. front \o (queue \o <<c>>) = (front \o queue) \o <<c>>
  BY <1>5, ConcatAssociative
<1>7. front \o queue \in Seq(Chunk)
  BY ConcatProperties
<1>8. (front \o queue) \o <<c>> = Append(front \o queue, c)
  BY <1>2, <1>7, AppendIsConcat
<1>9. Channel!HandOver(c)
  BY <1>3, <1>4, <1>6, <1>8 DEF Channel!HandOver
<1> QED
  BY <1>2, <1>9

LEMMA GrabStutters == ASSUME Inv, Grab PROVE UNCHANGED Channel!channelVars
<1> USE DEF Inv, TypeOK, FrontIsHeld
<1>1. front = <<>> /\ queue # <<>>
  BY DEF Grab, Play
<1>2. <<Head(queue)>> \o Tail(queue) = queue
  BY <1>1
<1>3. <<>> \o queue = queue
  BY ConcatEmptySeq
<1> QED
  BY <1>1, <1>2, <1>3 DEF Grab, Channel!channelVars

LEMMA WriteHears == ASSUME Inv, WriteStream PROVE Channel!Hear
<1> USE DEF Inv, TypeOK, FrontIsHeld
<1>1. PICK c \in Chunk : front = <<c>>
  BY DEF WriteStream, Play
<1>2. /\ front \o queue # <<>>
      /\ Head(front \o queue) = c
      /\ Tail(front \o queue) = queue
  BY <1>1
<1>3. heard \o <<c>> = Append(heard, c)
  BY AppendIsConcat
<1>4. <<>> \o queue = queue
  BY ConcatEmptySeq
<1> QED
  BY <1>1, <1>2, <1>3, <1>4 DEF WriteStream, Channel!Hear

\* Every chunk handed to playChunk is heard once, in the order of the pushes.
THEOREM AlwaysKeepsOrder == Spec => KeepsOrder
<1>1. Init => Channel!ChannelInit
  BY ConcatEmptySeq DEF Init, Channel!ChannelInit
<1>2. ASSUME Inv, [Next]_vars PROVE [Channel!ChannelNext]_Channel!channelVars
  <2>1. CASE UNCHANGED vars
    BY <2>1 DEF vars, Channel!channelVars
  <2>2. CASE \E p \in Producers : PushAndNotify(p)
    BY <2>2, <1>2, PushHandsOver DEF Channel!ChannelNext
  <2>3. CASE Grab
    BY <2>3, <1>2, GrabStutters
  <2>4. CASE WriteStream
    BY <2>4, <1>2, WriteHears DEF Channel!ChannelNext
  <2>5. CASE \/ StartPlaybackThread \/ OpenOutput \/ LockPlay \/ TestQueue
             \/ Wake \/ WakeSpuriously
    BY <2>5 DEF Channel!channelVars, StartPlaybackThread, OpenOutput, LockPlay,
                TestQueue, Wake, WakeSpuriously
  <2>6. CASE \E p \in Producers : PlayChunk(p) \/ LockPush(p) \/ UnlockPush(p)
    BY <2>6 DEF Channel!channelVars, PlayChunk, LockPush, UnlockPush
  <2> QED
    BY <1>2, <2>1, <2>2, <2>3, <2>4, <2>5, <2>6 DEF Next, PlayerStep, Produce
<1> QED
  BY <1>1, <1>2, AlwaysInv, PTL
  DEF Spec, KeepsOrder, Channel!ChannelSafety

-----------------------------------------------------------------------------
(* Sound. Whatever the devices and the speech thread do, the queue and its *)
(* threads take only the steps PlaybackQueue gives them.                   *)

LEMMA SoundStepsQueue == [SoundNext]_soundVars => [Next]_vars
<1> SUFFICES ASSUME [SoundNext]_soundVars PROVE [Next]_vars
  OBVIOUS
<1>1. "speech" \in Producers /\ "ws" \in Producers
  BY ProducersAssumption
<1>2. CASE InitAudio \/ UNCHANGED soundVars
  BY <1>2 DEF InitAudio, soundVars
<1>3. CASE Speech
  <2>1. CASE Echo
    BY <1>1, <2>1 DEF Echo, Next
  <2>2. CASE StartRecording \/ RecordChunk \/ StopRecording \/ EchoDone
    BY <2>2 DEF StartRecording, RecordChunk, StopRecording, EchoDone
  <2> QED  BY <1>3, <2>1, <2>2 DEF Speech
<1>4. CASE Runs(Answer)
  BY <1>1, <1>4 DEF Runs, Answer, Next
<1>5. CASE Runs(PlayLoop)
  BY <1>5 DEF Runs, PlayLoop, PlayLoopOpens, PlayOn, PlayerStep, Next
<1>6. CASE Runs(Other)
  BY <1>6 DEF Runs, Other, Next
<1>7. ASSUME NEW p \in Producers, Runs(Pushing(p)) PROVE [Next]_vars
  BY <1>7 DEF Runs, Pushing, Next
<1> QED  BY <1>2, <1>3, <1>4, <1>5, <1>6, <1>7 DEF SoundNext

\* Sound is PlaybackQueue with something around it.
THEOREM SoundImplementsQueue == SoundSpec => Spec
BY SoundStepsQueue, PTL DEF SoundSpec, SoundInit, Spec

\* In the robot, too, the player never sleeps beside a queued chunk unnotified.
THEOREM SoundWakeupNeverLost == SoundSpec => []NoLostWakeup
BY SoundImplementsQueue, WakeupNeverLost, PTL

\* In the robot, too, every chunk pushed by the websocket thread and by the
\* playback of the recording is heard once, in the order of the pushes.
THEOREM SoundAlwaysKeepsOrder == SoundSpec => KeepsOrder
BY SoundImplementsQueue, AlwaysKeepsOrder

-----------------------------------------------------------------------------
(* The invariant of Sound.                                                 *)

\* A handle that is open and useless was reported. A microphone is under the
\* handle before the first conversation and while recording, at no other time;
\* only the first of these can be overwritten.
Devices ==
    /\ mic = "raw" => failed
    /\ stage = "boot" => mic = "none" /\ talks = 0
    /\ stage # "record" /\ talks > 0 => mic = "none"
    /\ lost <= (IF talks = 0 THEN 0 ELSE 1)
    /\ stage = "record" => /\ isRecording = (build = "PortAudio")
                           /\ ~failed => mic = "ready"

\* How much of the recording is still to be played back.
Unplayed == IF stage = "record" THEN recorded
            ELSE IF stage = "replay" THEN recorded - position ELSE 0

\* A chunk the speech thread has handed to playChunk and that is not pushed.
InPlayChunk == IF producer["speech"] \in {"lock", "push"} THEN 1 ELSE 0

Recording ==
    /\ recorded <= reads
    /\ stage = "replay" => position <= recorded
    /\ stored = echoed + Unplayed
    /\ build = "PortAudio" => echoed = pushed["speech"] + InPlayChunk
    /\ stage # "replay" => producer["speech"] = "idle"

SoundInv == Inv /\ SoundTypeOK /\ Devices /\ Recording

LEMMA SoundInvInit == SoundInit => SoundInv
<1> SUFFICES ASSUME SoundInit PROVE SoundInv
  OBVIOUS
<1>1. Inv
  BY InvInit DEF SoundInit
<1>2. SoundTypeOK
  <2>1. failed \in BOOLEAN /\ isRecording \in BOOLEAN
    BY DEF SoundInit
  <2> QED  BY <2>1, ReadsAssumption DEF SoundInit, SoundTypeOK
<1>3. Devices
  BY DEF SoundInit, Devices
<1>4. producer["speech"] = "idle" /\ pushed["speech"] = 0
  BY ProducersAssumption DEF SoundInit, Init
<1>5. Recording
  BY <1>4 DEF SoundInit, Recording, Unplayed, InPlayChunk
<1> QED  BY <1>1, <1>2, <1>3, <1>5 DEF SoundInv

\* What a call of openAudioInput may do to the handle.
LEMMA OpenInput ==
    ASSUME SoundTypeOK, NEW ok \in BOOLEAN, OpenAudioInput(ok)
    PROVE  /\ mic' \in {"none", "raw", "ready"} /\ failed' \in BOOLEAN
           /\ lost' = lost \/ (mic # "none" /\ lost' = lost + 1)
           /\ (mic = "raw" => failed) => (mic' = "raw" => failed')
           /\ (mic = "raw" => failed) => (~failed' => mic' = "ready")
<1>1. CASE build = "PortAudio" /\ mic # "none"
  BY <1>1 DEF OpenAudioInput, deviceVars, SoundTypeOK
<1>2. CASE ~(build = "PortAudio" /\ mic # "none")
  <2>1. CASE ~ok /\ failed' = TRUE /\ UNCHANGED <<mic, lost>>
    BY <2>1 DEF SoundTypeOK
  <2>2. CASE /\ mic' = IF ok THEN "ready" ELSE "raw"
             /\ failed' = (failed \/ ~ok)
             /\ lost' = IF mic = "none" THEN lost ELSE lost + 1
    BY <2>2 DEF SoundTypeOK
  <2> QED  BY <1>2, <2>1, <2>2 DEF OpenAudioInput, OpenInputAnew
<1> QED  BY <1>1, <1>2

LEMMA InitAudioKeeps == ASSUME SoundInv, InitAudio PROVE (SoundTypeOK /\ Devices /\ Recording)'
<1> USE DEF SoundInv
<1>1. PICK ok \in BOOLEAN :
          /\ OpenAudioInput(ok)
          /\ speaker' \in IF ok THEN {"none", "raw", "ready"} ELSE {"none"}
  BY DEF InitAudio
<1>2. /\ mic' \in {"none", "raw", "ready"} /\ failed' \in BOOLEAN
      /\ mic' = "raw" => failed'
      /\ lost' = lost
  BY <1>1, OpenInput DEF Devices, InitAudio
<1>3. speaker' \in {"none", "raw", "ready"}
  BY <1>1
<1>4. SoundTypeOK'
  BY <1>2, <1>3 DEF InitAudio, SoundTypeOK
<1>5. Devices'
  BY <1>2 DEF InitAudio, Devices
<1>6. Recording'
  BY DEF InitAudio, Recording, Unplayed, InPlayChunk, vars
<1> QED  BY <1>4, <1>5, <1>6

LEMMA StartRecordingKeeps ==
    ASSUME SoundInv, StartRecording PROVE (SoundTypeOK /\ Devices /\ Recording)'
<1> USE DEF SoundInv
<1>1. PICK ok \in BOOLEAN : OpenAudioInput(ok)
  BY DEF StartRecording
<1>2. /\ mic' \in {"none", "raw", "ready"} /\ failed' \in BOOLEAN
      /\ mic' = "raw" => failed'
      /\ ~failed' => mic' = "ready"
      /\ lost' = lost \/ (mic # "none" /\ lost' = lost + 1)
  BY <1>1, OpenInput DEF Devices
<1>3. talks \in Nat /\ lost \in Nat /\ talks' = talks + 1 /\ talks' \in 0..MaxConversations
  BY ReadsAssumption DEF StartRecording, SoundTypeOK
<1>4. lost' \in Nat /\ lost' <= 1
  BY <1>2, <1>3 DEF Devices, StartRecording
<1>5. isRecording' = (build = "PortAudio") /\ isRecording' \in BOOLEAN
  BY DEF StartRecording
<1>6. SoundTypeOK'
  BY <1>2, <1>3, <1>4, <1>5, ReadsAssumption DEF StartRecording, SoundTypeOK
<1>7. Devices'
  BY <1>2, <1>3, <1>4, <1>5 DEF StartRecording, Devices
<1>8. Recording'
  BY DEF StartRecording, Recording, Unplayed, InPlayChunk, vars, SoundTypeOK
<1> QED  BY <1>6, <1>7, <1>8

LEMMA RecordChunkKeeps ==
    ASSUME SoundInv, RecordChunk PROVE (SoundTypeOK /\ Devices /\ Recording)'
<1> USE DEF SoundInv
<1>1. \/ recorded' = recorded /\ stored' = stored
      \/ recorded' = recorded + 1 /\ stored' = stored + 1
  BY DEF RecordChunk
<1>2. failed' \in BOOLEAN /\ (failed => failed')
  <2>1. CASE failed' = TRUE
    BY <2>1
  <2>2. CASE UNCHANGED failed
    BY <2>2 DEF SoundTypeOK
  <2> QED  BY <2>1, <2>2 DEF RecordChunk
<1>3. reads' = reads + 1 /\ reads' \in 0..MaxReads /\ recorded' <= reads'
  BY <1>1, ReadsAssumption DEF RecordChunk, SoundTypeOK, Recording
<1>4. recorded' \in 0..MaxReads /\ stored' \in Nat
  BY <1>1, <1>3, ReadsAssumption DEF SoundTypeOK
<1>5. SoundTypeOK'
  BY <1>2, <1>3, <1>4 DEF RecordChunk, SoundTypeOK
<1>6. Devices'
  BY <1>2 DEF RecordChunk, Devices
<1>7. Recording'
  BY <1>1, <1>3 DEF RecordChunk, Recording, Unplayed, InPlayChunk, vars, SoundTypeOK
<1> QED  BY <1>5, <1>6, <1>7

LEMMA StopRecordingKeeps ==
    ASSUME SoundInv, StopRecording PROVE (SoundTypeOK /\ Devices /\ Recording)'
<1> USE DEF SoundInv
<1>1. SoundTypeOK'
  <2>1. failed' \in BOOLEAN /\ isRecording' \in BOOLEAN /\ position' \in 0..MaxReads
    <3>1. 0 \in 0..MaxReads
      BY ReadsAssumption
    <3>2. failed' \in BOOLEAN /\ isRecording' \in BOOLEAN
      BY DEF StopRecording
    <3> QED  BY <3>1, <3>2 DEF StopRecording
  <2> QED  BY <2>1 DEF StopRecording, SoundTypeOK
<1>2. Devices'
  BY DEF StopRecording, Devices
<1>3. Recording'
  BY DEF StopRecording, Recording, Unplayed, InPlayChunk, vars, SoundTypeOK
<1> QED  BY <1>1, <1>2, <1>3

LEMMA EchoKeeps == ASSUME SoundInv, Echo PROVE (SoundTypeOK /\ Devices /\ Recording)'
<1> USE DEF SoundInv
<1>1. position' = position + 1 /\ echoed' = echoed + 1 /\ position' <= recorded
  BY DEF Echo, SoundTypeOK
<1>2. SoundTypeOK'
  <2>1. position' \in 0..MaxReads /\ echoed' \in Nat
    BY <1>1, ReadsAssumption DEF SoundTypeOK
  <2>2. UNCHANGED <<build, mic, lost, failed, speaker, isRecording, stage, talks, reads,
                    recorded, stored>>
    BY DEF Echo, deviceVars
  <2> QED  BY <2>1, <2>2 DEF SoundTypeOK
<1>3. Devices'
  BY DEF Echo, Devices, deviceVars
<1>4. build = "PortAudio" =>
        /\ producer["speech"] = "idle" /\ producer'["speech"] = "lock"
        /\ UNCHANGED pushed
  BY ProducersAssumption DEF Echo, PlayChunk, Move, Inv, TypeOK
<1>5. Recording'
  <2>1. UNCHANGED <<build, stage, reads, recorded, stored>> /\ stage = "replay"
    BY DEF Echo
  <2>2. Unplayed' = Unplayed - 1
    BY <1>1, <2>1 DEF Unplayed, SoundTypeOK
  <2>3. stored' = echoed' + Unplayed'
    BY <1>1, <2>1, <2>2 DEF Recording, Unplayed, SoundTypeOK
  <2>4. build = "PortAudio" => echoed' = pushed'["speech"] + InPlayChunk'
    <3>1. pushed["speech"] \in Nat
      BY ProducersAssumption DEF Inv, TypeOK
    <3> QED  BY <1>1, <1>4, <3>1 DEF Recording, InPlayChunk
  <2> QED  BY <1>1, <2>1, <2>3, <2>4 DEF Recording
<1> QED  BY <1>2, <1>3, <1>5

LEMMA EchoDoneKeeps == ASSUME SoundInv, EchoDone PROVE (SoundTypeOK /\ Devices /\ Recording)'
<1> USE DEF SoundInv
<1>1. SoundTypeOK'
  BY DEF EchoDone, SoundTypeOK, deviceVars
<1>2. Devices'
  BY DEF EchoDone, Devices, deviceVars
<1>3. Recording'
  BY DEF EchoDone, Recording, Unplayed, InPlayChunk, vars, deviceVars, SoundTypeOK
<1> QED  BY <1>1, <1>2, <1>3

\* The other threads leave the microphone and the recording alone; those of them
\* that push count a chunk when they push it.
LEMMA OthersKeep ==
    ASSUME SoundInv, NEW p \in Producers,
           Runs(Answer) \/ Runs(PlayLoop) \/ Runs(Other) \/ Runs(Pushing(p))
    PROVE  (SoundTypeOK /\ Devices /\ Recording)'
<1> USE DEF SoundInv
<1>1. UNCHANGED <<build, deviceVars, speechVars>>
  BY DEF Runs
<1>2. speaker' \in {"none", "raw", "ready"}
  BY DEF Runs, Answer, PlayLoop, PlayLoopOpens, PlayOn, Other, Pushing, SoundTypeOK
<1>3. SoundTypeOK'
  BY <1>1, <1>2 DEF SoundTypeOK, deviceVars, speechVars
<1>4. Devices'
  BY <1>1 DEF Devices, deviceVars, speechVars
<1>5. /\ pushed'["speech"] + InPlayChunk' = pushed["speech"] + InPlayChunk
      /\ producer["speech"] = "idle" => producer'["speech"] = "idle"
  <2>1. "speech" \in Producers /\ "ws" \in Producers /\ "speech" # "ws"
    BY ProducersAssumption
  <2>2. /\ producer \in [Producers -> {"idle", "lock", "push", "unlock"}]
        /\ pushed \in [Producers -> 0..MaxChunks]
    BY DEF Inv, TypeOK
  <2>3. CASE Runs(Answer)
    BY <2>1, <2>2, <2>3 DEF Runs, Answer, PlayChunk, Move, InPlayChunk
  <2>4. CASE Runs(PlayLoop) \/ Runs(Other)
    <3>1. UNCHANGED <<producer, pushed>>
      BY <2>4 DEF Runs, PlayLoop, PlayLoopOpens, PlayOn, Other, OpenOutput, LockPlay,
                  TestQueue, Wake, Grab, WriteStream, WakeSpuriously,
                  StartPlaybackThread, Producing
    <3> QED  BY <3>1 DEF InPlayChunk
  <2>5. CASE Runs(Pushing(p))
    <3>1. CASE LockPush(p)
      BY <2>1, <2>2, <3>1 DEF LockPush, Move, InPlayChunk
    <3>2. CASE PushAndNotify(p)
      BY <2>1, <2>2, <3>2 DEF PushAndNotify, Move, InPlayChunk
    <3>3. CASE UnlockPush(p)
      BY <2>1, <2>2, <3>3 DEF UnlockPush, Move, InPlayChunk
    <3> QED  BY <2>5, <3>1, <3>2, <3>3 DEF Runs, Pushing, Produce
  <2> QED  BY <2>3, <2>4, <2>5
<1>6. Recording'
  BY <1>1, <1>5 DEF Recording, Unplayed, speechVars, deviceVars
<1> QED  BY <1>3, <1>4, <1>6

LEMMA SoundInvStep == SoundInv /\ [SoundNext]_soundVars => SoundInv'
<1> SUFFICES ASSUME SoundInv, [SoundNext]_soundVars PROVE SoundInv'
  OBVIOUS
<1>1. Inv'
  BY SoundStepsQueue, InvStep DEF SoundInv
<1>2. (SoundTypeOK /\ Devices /\ Recording)'
  <2>1. CASE UNCHANGED soundVars
    BY <2>1 DEF SoundInv, soundVars, vars, deviceVars, speechVars, SoundTypeOK, Devices,
                Recording, Unplayed, InPlayChunk
  <2>2. CASE SoundNext
    BY <2>2, InitAudioKeeps, StartRecordingKeeps, RecordChunkKeeps, StopRecordingKeeps,
       EchoKeeps, EchoDoneKeeps, OthersKeep, ProducersAssumption DEF SoundNext, Speech
  <2> QED  BY <2>1, <2>2
<1> QED  BY <1>1, <1>2 DEF SoundInv

LEMMA AlwaysSoundInv == SoundSpec => []SoundInv
BY SoundInvInit, SoundInvStep, PTL DEF SoundSpec

\* Every variable of the devices and of the recording keeps its type.
THEOREM SoundTypeCorrect == SoundSpec => []SoundTypeOK
BY AlwaysSoundInv, PTL DEF SoundInv

\* The ALSA build loses at most the microphone of its constructor, however many
\* conversations follow and however the device fails.
THEOREM AlwaysAtMostOneMicLost == SoundSpec => []AtMostOneMicLost
<1>1. SoundInv => AtMostOneMicLost
  BY DEF SoundInv, Devices, AtMostOneMicLost, SoundTypeOK
<1> QED  BY <1>1, AlwaysSoundInv, PTL

\* A failure of the microphone does not outlive the recording it fell into.
THEOREM AlwaysRecoversNextTime == SoundSpec => []RecoversNextTime
<1>1. SoundInv => RecoversNextTime
  BY DEF SoundInv, Devices, RecoversNextTime, Readable
<1> QED  BY <1>1, AlwaysSoundInv, PTL

\* Every chunk a conversation reads is played back once, in that conversation.
THEOREM EveryReadAlwaysReplayed == SoundSpec => []EveryReadIsReplayed
<1>1. SoundInv => EveryReadIsReplayed
  <2> SUFFICES ASSUME SoundInv, stage = "idle"
               PROVE  echoed = stored /\ (build = "PortAudio" => pushed["speech"] = stored)
    BY DEF EveryReadIsReplayed
  <2>1. Unplayed = 0 /\ InPlayChunk = 0
    BY DEF SoundInv, Recording, Unplayed, InPlayChunk
  <2>2. pushed["speech"] \in Nat /\ echoed \in Nat
    BY ProducersAssumption DEF SoundInv, Inv, TypeOK, SoundTypeOK
  <2> QED  BY <2>1, <2>2 DEF SoundInv, Recording
<1> QED  BY <1>1, AlwaysSoundInv, PTL

=============================================================================
