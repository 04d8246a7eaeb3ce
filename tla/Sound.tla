------------------------------- MODULE Sound -------------------------------
(***************************************************************************)
(* The robot's one AudioHandler (src/src/speak.cpp) in both its builds:    *)
(* the device handles, what each failure leaves in them, and the speech    *)
(* thread that records and plays back what it recorded. The PortAudio      *)
(* build plays through PlaybackQueue; the ALSA build writes to its handle  *)
(* in playChunk and has no playback thread. audioHandler is a global       *)
(* object: its handles are null before its constructor runs.               *)
(***************************************************************************)
EXTENDS PlaybackQueue

CONSTANTS
    MaxConversations,   \* bound of the model: run records for ever
    MaxReads,           \* chunks recorded in a conversation (40 in the source)
    MaxDeltas           \* bound of the model: chunks of answers

ASSUME ReadsAssumption == MaxReads \in Nat /\ MaxConversations \in Nat
ASSUME RoomAssumption == MaxReads * MaxConversations <= MaxChunks /\ MaxDeltas <= MaxChunks
ASSUME ProducersAssumption == Producers = {"ws", "speech"}

VARIABLES
    build,          \* "ALSA" or "PortAudio"
    mic, speaker,   \* the handles: "none" if null, "raw" if open and useless, "ready"
    lost,           \* microphones left open under a handle that was overwritten
    failed,         \* history: a call for the microphone failed since it was last closed
    isRecording,    \* as in the PortAudio build; FALSE in the other
    stage,          \* the speech thread: "boot", "idle", "record" or "replay"
    talks,          \* conversations so far
    reads,          \* i of the recording loop
    recorded,       \* chunks in recordedBuffer
    position,       \* chunks of it played back
    stored, echoed  \* history: chunks ever put in it, and ever played back

deviceVars == <<mic, lost, failed>>
speechVars == <<isRecording, stage, talks, reads, recorded, position, stored, echoed>>
soundVars == <<vars, build, deviceVars, speaker, speechVars>>

SoundTypeOK ==
    /\ build \in {"ALSA", "PortAudio"}
    /\ {mic, speaker} \subseteq {"none", "raw", "ready"}
    /\ lost \in Nat
    /\ {failed, isRecording} \subseteq BOOLEAN
    /\ stage \in {"boot", "idle", "record", "replay"}
    /\ talks \in 0..MaxConversations
    /\ {reads, recorded, position} \subseteq 0..MaxReads
    /\ stored \in Nat /\ echoed \in Nat

SoundInit ==
    /\ Init
    /\ build \in {"ALSA", "PortAudio"}
    /\ mic = "none" /\ speaker = "none" /\ lost = 0
    /\ failed = FALSE /\ isRecording = FALSE
    /\ stage = "boot" /\ talks = 0
    /\ reads = 0 /\ recorded = 0 /\ position = 0 /\ stored = 0 /\ echoed = 0

-----------------------------------------------------------------------------
(* The devices.                                                            *)

\* A stream that cannot be opened leaves the handle alone; one that cannot be
\* configured (ALSA) or started (PortAudio) stays in it.
OpenInputAnew(ok) ==
    \/ ~ok /\ failed' = TRUE /\ UNCHANGED <<mic, lost>>
    \/ /\ mic' = IF ok THEN "ready" ELSE "raw"
       /\ failed' = (failed \/ ~ok)
       /\ lost' = IF mic = "none" THEN lost ELSE lost + 1

\* openAudioInput and what it returns: only the PortAudio build tests whether the
\* handle is in use.
OpenAudioInput(ok) ==
    IF build = "PortAudio" /\ mic # "none" THEN ok /\ UNCHANGED deviceVars
                                           ELSE OpenInputAnew(ok)

\* initAudio: the constructor, before main. && tries the speaker only if the
\* microphone is good.
InitAudio ==
    /\ stage = "boot" /\ stage' = "idle"
    /\ \E ok \in BOOLEAN :
         /\ OpenAudioInput(ok)
         /\ speaker' \in IF ok THEN {"none", "raw", "ready"} ELSE {"none"}
    /\ UNCHANGED <<vars, build, isRecording, talks, reads, recorded, position, stored, echoed>>

-----------------------------------------------------------------------------
(* startConversation, from startRecording to playbackRecordedAudio.        *)

\* Fault: recordedBuffer is not cleared.
StartRecordingUncleared ==
    /\ stage = "idle" /\ stage' = "record"
    /\ talks < MaxConversations /\ talks' = talks + 1
    /\ reads' = 0
    /\ isRecording' = (build = "PortAudio")
    /\ \E ok \in BOOLEAN : OpenAudioInput(ok)
    /\ UNCHANGED <<vars, build, speaker, recorded, position, stored, echoed>>

\* The result of openAudioInput is only logged.
StartRecording ==
    /\ stage = "idle" /\ stage' = "record"
    /\ talks < MaxConversations /\ talks' = talks + 1
    /\ recorded' = 0 /\ reads' = 0
    /\ isRecording' = (build = "PortAudio")
    /\ \E ok \in BOOLEAN : OpenAudioInput(ok)
    /\ UNCHANGED <<vars, build, speaker, position, stored, echoed>>

Readable == mic # "none" /\ (build = "PortAudio" => isRecording)

\* A chunk is sent in any case; it is put in recordedBuffer only if reading it gave
\* no error.
RecordChunk ==
    /\ stage = "record" /\ reads < MaxReads
    /\ reads' = reads + 1
    /\ \/ /\ Readable /\ mic = "ready"
          /\ recorded' = recorded + 1 /\ stored' = stored + 1 /\ UNCHANGED failed
       \/ Readable /\ failed' = TRUE /\ UNCHANGED <<recorded, stored>>
       \/ ~Readable /\ UNCHANGED <<recorded, stored, failed>>
    /\ UNCHANGED <<vars, build, mic, lost, speaker, isRecording, stage, talks, position, echoed>>

\* Fault: the stream is not closed.
StopRecordingOpen ==
    /\ stage = "record" /\ reads = MaxReads
    /\ stage' = "replay" /\ position' = 0
    /\ isRecording' = FALSE
    /\ failed' = FALSE
    /\ UNCHANGED <<vars, build, mic, lost, speaker, talks, reads, recorded, stored, echoed>>

\* Fault: the stream is closed and its handle kept.
StopRecordingDangling ==
    /\ stage = "record" /\ reads = MaxReads
    /\ stage' = "replay" /\ position' = 0
    /\ isRecording' = FALSE
    /\ mic' = IF mic = "none" THEN "none" ELSE "raw"
    /\ failed' = FALSE
    /\ UNCHANGED <<vars, build, lost, speaker, talks, reads, recorded, stored, echoed>>

StopRecording ==
    /\ stage = "record" /\ reads = MaxReads
    /\ stage' = "replay" /\ position' = 0
    /\ isRecording' = FALSE
    /\ mic' = "none" /\ failed' = FALSE
    /\ UNCHANGED <<vars, build, lost, speaker, talks, reads, recorded, stored, echoed>>

\* The next chunk of recordedBuffer goes to playChunk.
Echo ==
    /\ stage = "replay" /\ position < recorded
    /\ position' = position + 1 /\ echoed' = echoed + 1
    /\ IF build = "PortAudio" THEN PlayChunk("speech") ELSE UNCHANGED vars
    /\ UNCHANGED <<build, deviceVars, speaker, isRecording, stage, talks, reads, recorded, stored>>

EchoDone ==
    /\ stage = "replay" /\ position = recorded /\ producer["speech"] = "idle"
    /\ stage' = "idle"
    /\ UNCHANGED <<vars, build, deviceVars, speaker, isRecording, talks, reads, recorded,
                   position, stored, echoed>>

Speech == StartRecording \/ RecordChunk \/ StopRecording \/ Echo \/ EchoDone

-----------------------------------------------------------------------------
(* The other threads, in the PortAudio build.                              *)

Runs(thread) == build = "PortAudio" /\ stage # "boot" /\ thread
                /\ UNCHANGED <<build, deviceVars, speechVars>>

Answer == pushed["ws"] < MaxDeltas /\ PlayChunk("ws") /\ UNCHANGED speaker

\* playLoop opens the speaker if the constructor did not get it.
PlayLoopOpens ==
    /\ OpenOutput
    /\ IF speaker # "none"
       THEN player' = "lock" /\ UNCHANGED speaker
       ELSE speaker' \in IF player' = "lock" THEN {"ready"} ELSE {"none", "raw"}

PlayOn == (LockPlay \/ TestQueue \/ Wake \/ Grab \/ WriteStream) /\ UNCHANGED speaker

PlayLoop == PlayLoopOpens \/ PlayOn

Other == (WakeSpuriously \/ StartPlaybackThread) /\ UNCHANGED speaker

Pushing(p) == Produce(p) /\ UNCHANGED speaker

SoundNext ==
    \/ InitAudio \/ Speech
    \/ Runs(Answer) \/ Runs(PlayLoop) \/ Runs(Other)
    \/ \E p \in Producers : Runs(Pushing(p))

\* As in PlaybackQueue; the speech thread runs, too, and its reads and writes block
\* only for as long as the sound takes.
SoundSpec ==
    /\ SoundInit /\ [][SoundNext]_soundVars
    /\ WF_soundVars(InitAudio) /\ WF_soundVars(Speech)
    /\ WF_soundVars(Runs(StartPlaybackThread /\ UNCHANGED speaker))
    /\ WF_soundVars(Runs(PlayLoop))
    /\ \A p \in Producers : WF_soundVars(Runs(Pushing(p)))

-----------------------------------------------------------------------------
(* Properties.                                                             *)

\* The ALSA build opens the microphone again over the handle its constructor left,
\* and loses that one; it loses no other, however long it runs and whatever fails.
AtMostOneMicLost == lost <= 1

\* While it records, the robot hears, unless a call for the microphone has failed
\* since it was last closed: a failure does not outlive the recording it fell into.
RecoversNextTime == stage = "record" /\ ~failed => mic = "ready" /\ Readable

\* Back from a conversation, every chunk it read was played back once, and none of
\* an earlier recording; in the PortAudio build all of them were queued.
EveryReadIsReplayed ==
    stage = "idle" => echoed = stored /\ (build = "PortAudio" => pushed["speech"] = stored)

\* Playing back ends, although the playback thread holds the mutex of the queue for
\* as long as each chunk sounds and no order is promised to those who wait for it;
\* only if spurious wake-ups never ceased could they keep the mutex from the others.
ReplayEnds == []<><<WakeSpuriously>>_vars \/ (stage = "replay" ~> stage = "idle")

=============================================================================
