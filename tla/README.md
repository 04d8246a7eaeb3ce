# Deskman: TLA+ models and proofs

Deskman is the program of a desk robot: a head on two servos, a face drawn on a
screen, a camera that looks for people and a voice that talks through the OpenAI
realtime API. This directory holds TLA+ modules of its control logic, the TLC
configurations that check them on small instances, and theorems about them that
TLAPS checks for all values of the constants. Paths below are relative to `src/src/`.

How to run: `tlc -workers 2 -config <run>.cfg <MC module>.tla` for a run (the
table below names them), `tlapm <module>_proofs.tla` for the proofs of a module.

## The system

| Part | Source | State it keeps | Operations | Talks to |
|---|---|---|---|---|
| Main loop | `main.cpp` | `quit`, `speak_go`, timers, look state | poll keys, follow face, look around, blink, draw | head motion, tracker, renderer; flags shared with threads |
| Head motion | `servos.cpp` | `head_x`, `head_y`, `st.pSerial` | `open_servos`, `move_head`, `move_servos` | servo bus; called from three threads |
| Servo bus | `servos/SCS.cpp`, `SCSerial.cpp`, `SMS_STS.cpp` | packet buffers | write and read registers, acknowledge | serial port, servos |
| Serial port | `servos/Serial.h` | file descriptor | open, configure, read, write, flush | tty driver |
| Conversation | `speak.cpp` (`VoiceAssistant`, `OpenAIClient`) | `ready`, `talking`, `isConnected`, `wsi`, `writeMutex` | connect, send event, handle event, converse | realtime server, audio, head motion |
| Audio | `speak.cpp` (`AudioHandler`; ALSA, PortAudio) | device handles, queue, recording | record, queue, play | sound card |
| Wake word | `speak.cpp` (`Wakeword`) | recorder | listen (its call is commented out) | Porcupine |
| Face tracking | `face_tracker.cpp`, `camera.cpp` | latest face and frame, thread | start, stop, detect, get position | camera, main loop |
| Face, renderer, screen | `face.cpp`, `vector_renderer.*`, `screen.cpp` | shapes, window | create, update, draw | SDL |
| Python robot | `py/*.py` | queues, flags, positions | speak, talk, steer, detect | OpenAI, servos |
| Local program | `local/` | audio buffer | listen, generate speech | whisper, bark |

The parts meet in four ways. The main loop, the speech thread (the nod before it
listens) and the websocket thread (the model's tool calls) all call `move_head`,
without a lock. The speech thread and the websocket thread share four plain flags
and a mutex around `lws_write`. Both feed the playback thread through a queue with
a mutex and a condition variable. The tracking thread leaves the last face under
a mutex for the main loop, which asks for it three times per frame. The Python robot
is a program of its own: an event loop that the wake word blocks, a task per
connection, and a thread that plays.

What is hard to get right, and hard to test, is what follows from this: the order
of two threads' accesses, a flag that is set after the event that should clear it,
an answer that belongs to an earlier request, a face that appears in the middle of
a look, and a serial line that loses, damages, delays and invents bytes. Per part,
correctness means:

* head motion: the head ends within its limits and the servos are told where it is;
* conversation: events go out in the order of the script, each conversation ends,
  and with its own answer;
* playback: every chunk is heard once and in order;
* looking around: the eyes and the head come back and the robot goes on looking;
* servo bus: what a call reports is true, and after a disturbance the bus recovers;
* tracking: the main loop sees whole and current faces, and ESC ends the program with
  nothing torn down under a running thread;
* devices: a failure does not outlive the recording it fell into;
* Python robot: it always listens again, each conversation is on its own connection,
  the head settles on people without swinging.

## The modules

| Module | What it is |
|---|---|
| `HeadServo` | what a `move_head` promises: an atomic, clamped move, then told to both servos |
| `HeadMotion` | `move_head` and `move_servos`, one step per access to `head_x` and `head_y`, any number of threads |
| `Dialogue` | the order of events a server may rely on |
| `Conversation` | speech thread, websocket service thread, network and realtime server |
| `AudioChannel` | what the playback queue promises: each chunk heard once, in order |
| `PlaybackQueue` | `playChunk`, `playLoop`, mutex and condition variable |
| `Sound` | extends `PlaybackQueue`: the device handles of both builds, recording and its playback |
| `Glance` | what the robot does when nobody is there: turn away, turn back, rest, for ever |
| `LookCycle` | the look state machine of the frame loop, the faces that suspend it, its clock |
| `FaceBoard` | what the tracker promises: a board with one whole face, read at a moment between call and return |
| `FaceTracking` | the tracking thread, its two mutexes, the camera, start and stop, the calls of the frame loop |
| `Robot` | extends `FaceTracking`: `main` from start to exit, its keys, the speech thread up to its endless loop |
| `PyPlayback` | the playback threads of `py/speak.py` and `py/talk.py` |
| `PyVoice` | extends `PyPlayback`: the conversations of `py/speak.py`, the messages of `py/talk.py` |
| `PyTrack` | `py/detection.py` and `py/servo.py`: who is followed, how far, and what the servos hear of it |
| `ServoCodec` | bytes: words, signed positions, checksums, packets |
| `ServoBus` | the three calls of `move_servos` on the half-duplex line, byte by byte |
| `MC*` | the same modules with constants for TLC |
| `*_proofs` | the theorems and their proofs |

**HeadMotion.** `stage[t]` is a thread's place in `move_head`; `reg[t]` holds what
it loaded and has still to use. `head_x += x` is a load and a store, each clamp a
test and a separate write, since `move_servos` gets the globals by reference, and
each `WritePosEx` loads its argument first. `attached` is whether `open_servos`
found a port; without one `move_head` only adds, as in the code. With one mover
`HeadMotion` implements `HeadServo`: the refinement maps the globals to what they
will be once the call under way has added and clamped, so that the abstract move
takes effect when the call starts.

**Conversation.** `stage` is the speech thread's place in `run` and
`startConversation`; `sending[t]` is where a thread is in `sendEvent` (test of the
socket, lock, write, unlock). `toServer` and `toClient` are the two directions of
the connection; `serving` is the answer the server is giving. An event whose
payload does not matter is only its type; the two `response.create` are told apart
by their place in the script. The server refuses a `response.create` while it is
answering another one, with an `error` event, which the code only logs. `last` and
`appended` record what reached the wire; `Dialogue` is stated over them.

**PlaybackQueue.** The producers' and the player's steps between lock and unlock
are single accesses; `Wake` and `WakeSpuriously` are the returns of
`condition_variable::wait`. As in the code, the player holds the mutex while the
sound card takes a chunk. The thread may find that the output does not open and
end.

**Sound.** `mic` and `speaker` are the handles: null, open but unusable (ALSA: not
configured; PortAudio: not started), or good. `build` chooses between the two builds at
the start. Each call for a device may fail in each way the code tests for. In the
PortAudio build the actions of `PlaybackQueue` are steps of this module, with the
speech thread's pushes coming from `playbackRecordedAudio`; in the ALSA build
`playChunk` writes at once and the queue stays empty.

**FaceTracking, Robot.** `Tracking` is one round of `trackingThreadFunc`, with the face and
its flag written one after the other under one mutex, and the frame for the window
under another. `getFacePosition` is a call of several steps. `Robot` adds `main`: the
frame loop with its keys, and then the joins, `stopTracking`, the window and the
destructors, in the order of the code. `FaceBoard` says what a call may answer: what the
board had at some moment between the call and its return. Before its `mutex` a face
is half written; the refinement shows that nobody sees that.

**PyPlayback, PyVoice.** One behaviour is either `speak.py` or `talk.py` (`program`). In
`speak.py` `main` is the place in `run` and `start_conversation`; every step that may
raise has a branch to `listen`, where `run` catches it. Tasks run only while `main` is
not at `listen`, since `start_listening` never awaits. `mic = "stuck"` is a stream that
`stop_stream` failed to stop. Connections are numbered; a number is used again when
its connection is closed and its reader has ended, so conversations go on for ever.

**PyTrack.** Positions are hundredths, in which every step of the damping is a whole
number (a difference outside the dead zone is cut to 10, of which 0.3 are 3). The
servo packet (`groupSyncWrite`) is the set of servos whose goals it holds.

**LookCycle.** `frame` is where `main` is between its three questions to the
tracker, and `Tracked` may change the answer between any two. Time is counted in
frames. One axis stands for both, since every statement is made for both alike.
`ClockStalls` is the moment from which adding 0.02 to a single-precision `time`
no longer changes it (524288, after four to five days).

**ServoBus.** A call throws away what has arrived, sends its request and reads
byte by byte. What is still on its way when the call begins (up to `MaxLate` calls
old) arrives later, between or before the bytes of the new answer. The answer may
be lost, may lose a byte or have one changed, and when nothing else travels the
line may babble. `prompt` marks a call that the world leaves alone, `alone` one
that began with nothing late under way. The timeout may strike at any byte that is
not prompt. The packets are the real ones: header, ID, length, registers,
little-endian words and checksum. `configurePort` leaves the tty's input conversion as
it finds it, so with `ICRNL` (the system's default) a byte 13 reaches the host as a 10:
`AsRead`, applied to every byte received. `Readable` are the positions whose answer has
no such byte. Output is not converted (`OPOST` is cleared), and acknowledgements
contain no 13.

## The runs

| Run | Properties | States | Question |
|---|---|---|---|
| `head_single` | `CommandsWithinLimits`, `ImplementsHeadServo` | 8,615 | is `move_head` atomic while only the main loop calls it? |
| `head_race` | `OverrunIsOwned`, `QuiescentWithinLimits` | 78,217 | what remains true when threads race? |
| `talk_faults` | `SendersApart`, `AudioHasPlayer`, `ImplementsDialogue` | 31,991 | does the script hold for any server and any loss of the connection? |
| `talk_slow` | `EndsOnItsAnswer`, `ConversationEnds` | 1,684 | does every conversation end, with its own answer, when the network is slow? |
| `talk_early` | `ConversationEnds` (violated) | | and when an answer is fast? |
| `sound` | `SoundTypeOK`, `NoLostWakeup`, `AtMostOneMicLost`, `RecoversNextTime`, `EveryReadIsReplayed`, `KeepsOrder`, `EverythingIsHeard`, `ReplayEnds` | 265,974 | does sound survive failing devices, and is every chunk heard, once and in order? |
| `look_alone` | `HeadComesBack`, `ImplementsGlance` | 156 | does the robot look around for ever and come back, with nobody there? |
| `look_faces` | `EyesComeBack`, `ReadyForNextLook`, `KeepsLooking` | 129,696 | do faces at the worst moments leave it stuck? |
| `servo_bus` | `TrueAck`, `TruePosition`, `OnlyUnreadableFails`, `CallReturns` | 281,103 | are results true on a bad line and a tty that is not raw, and does the bus recover? |
| `robot` | `TornDownAlone`, `ImplementsFaceBoard`, `EscEndsProgram`, `SeesWhatIsThere` | 267,513 | does the frame loop see whole, current faces, and does ESC end the program in order? |
| `py_voice` | `TypeOK`, `ConnectionUsedOnce`, `MicReleased`, `KeepsOrder`, `QueueDrains`, `KeepsListening`, `EventsTakenUp` | 233,863 | does the Python robot come back from every failure, and handle and play all it gets? |
| `py_track` | `LagIsBounded`, `NeverOvershoots`, `SettlesOnPerson` | 35,580 | does the head settle on people, in small steps, whatever packets are lost? |

The type invariants of `HeadMotion`, `Conversation`, `PlaybackQueue`, `LookCycle`,
`ServoBus`, `Robot` (with `FaceTracking`) and `PyTrack` are proved for all constants
(below) and not run again.

### What the violation shows

`talk_early` (`speak.cpp:987`): `talking` is set after the request was sent. A
`response.done` handled before that is overwritten and the wait never ends.

Three properties of passing runs hold only under the conditions of their runs, and
fail without them, each for a reason in the code:

* `CommandsWithinLimits` with two threads (`servos.cpp:37`): `move_servos` reads the
  global again after the clamps. Another thread's sum, stored in between and not
  clamped yet, is what the servo is told. `head_race` shows that it does not last.
* `EndsOnItsAnswer` with `SlowServer = FALSE` (`speak.cpp:988`): any `response.done` ends
  the wait. When the greeting is still being spoken at the second `response.create`,
  the server refuses that one, and the recording is never answered.
* `HeadComesBack` with faces (`main.cpp:213`): a face seen while the head is turned away
  replaces the target, so "negating the target" does not move the head back.

A hazard without a finding of its own: `SCS::Read` compares neither the ID nor the
length of an answer (`SCS.cpp:183`; `Ack`, `Ping` and `syncReadPacketRx` do). A late
acknowledgement followed by two zero bytes, or two late ones with a byte lost, adds up
as the answer to a read. `TruePosition` is therefore stated for calls that begin
with nothing late under way.

Another: `Serial.h:55` says "Raw input/output mode", and the lines below it leave `ICRNL`
set. The answer of a servo at 269 carries a 13, which is read as a 10, and its checksum
fails (`SCS.cpp:199`) however well the line works; so do fourteen more of the positions
from 0 to 2000 (a low byte of 13, or a checksum of 13). TLC finds "the first prompt call
succeeds" violated by it. What holds is `OnlyUnreadableFails`, which says which calls
fail. The same 10 in place of a 13 and one byte damaged by the line can make up for each
other: 269, with its error byte 0 turned into 3, is reported as 266. `TruePosition`
therefore also asks that not both have changed the answer. `move_servos` ignores what
`ReadPos` returns (`servos.cpp:39`), so the head moves as if nothing had happened.

### Bounds, and why they are enough

* `head_*`: two threads and two calls each. The chains that matter are short: one
  thread's stale load meets the other's store and clamp; a second call lets an
  excess be added to an excess. Positions and limits are the program's; moves are
  those that cross a limit from the start position in one or two calls. The proofs
  remove these bounds.
* `talk_*`: 2 recordings stand for 40 (one that has a successor and one that is
  last), 3 in `talk_slow`; 1 or 2 audio deltas per answer; 3 events in flight in each
  direction, so that a new event can overtake the handling of two others.
* `sound`: three recordings of two chunks, so that what the constructor left, what one
  recording left and what a failed one left all meet a next one; two chunks of answers
  against them, so that a push meets an empty and a non-empty queue in every state
  of the player. The robot records 40 chunks, for ever; the bounds end the run.
* `robot`: two faces and none, one camera failure, keys at any frame; `main` and both
  threads run their whole lives.
* `py_voice`: two chunks, so that one can overtake another; two connections in use at
  once (an old one and the current one); two playing threads in `talk.py`, one more
  than there should be. Conversations are not bounded.
* `py_track`: six scenes with nobody, one or several people, in corners and near the
  centre, of different and of equal size; every second frame instead of every tenth
  (only how often the counter passes differs); two packets lost in a row.
* `look_*`: `EyeFrames` 2, `WaitFrames` 3 and `IntervalFrames` 14 keep the order
  and roughly the ratio of 0.5, 1.2 and 5 seconds; a whole look takes less than the
  interval here as there. Targets of both signs and zero; faces of both signs.
* `servo_bus`: answers at most two calls late, which is one whole `move_servos`; one
  fault among the answers that can meet. An additive checksum finds one damaged
  byte and not always two, so more faults would only show what the checksum never
  promised. Positions with a low byte of 255 (the header's), a negative one, and one
  with a carriage return in it (269); a byte may be changed to the 3 that makes up for
  what the tty did to that. `ICRNL` is set, as the system leaves it; the proofs cover
  both.

### Fairness

Weak fairness of what the platform runs anyway; strong fairness where it is named.

* `HeadMotion`: each thread's steps (nothing in `move_head` blocks).
* `Conversation`: the two threads, and a connected server that accepts, reads and
  finishes its answers. It need not be quick, and a connection may close: liveness
  is stated without `"close"`, since after a close nobody clears `talking`.
* `PlaybackQueue`: start of the thread, the player, each producer between lock and
  unlock. No fairness of the mutex is needed, since whoever holds it gives it back;
  no fairness of spurious wake-ups, or they would hide a lost one.
* `Sound`: as `PlaybackQueue`, and the speech thread. `ReplayEnds` excepts behaviours
  whose spurious wake-ups never cease.
* `Robot`: `main` and the speech thread, weakly; the tracking thread and the calls of
  the frame loop strongly, because what they wait for, a mutex, is free again and
  again while the other one naps. Keys, faces and the camera are not fair.
* `PyVoice`: the conversation (its awaits end by themselves or time out) and the playing
  threads, weakly; the reader tasks strongly, since the event loop runs them only at
  awaits. That awaits come again and again is not assumed: `EventsTakenUp` says so of
  behaviours in which they do. The server and the network are not fair.
* `PyTrack`: frames come, and strongly that a packet goes through: not every frame is
  empty nor every packet lost.
* `LookCycle`: the frame loop. Faces are not fair: `KeepsLooking` asks for
  faces that stay away in the end and a clock that runs.
* `ServoBus`: the reading loop, whose clock advances. Callers need not call again.

Where a configuration says `CHECK_DEADLOCK FALSE`, the model really stops: callers have
used up their calls, chunks have run out, a connection is gone for good, or the
program has ended (`Robot`, `talk.py`).

## What is proved

All theorems hold for every value of the constants that satisfies the named
assumptions of the module; a theorem that needs more says so in its own `ASSUME`.
Every safety property and every safety half of a refinement that a run checks is
stated by a theorem, which removes the run's bounds.

| Module | Theorem | Statement |
|---|---|---|
| `HeadMotion_proofs` | `TypeCorrect`, `OverrunAlwaysOwned`, `AlwaysQuiescentWithinLimits` | any number of threads, moves and limits: an excess always has a thread that will clamp it; at rest there is none |
| | `LoneCommandsWithinLimits`, `LoneRestMatchesCommand`, `LoneImplementsHeadServo` | with one mover: the limits, the truth of what the servos were told, and the refinement of `HeadServo`'s safety |
| `Conversation_proofs` | `TypeCorrect`, `AlwaysSendersApart`, `AudioAlwaysHasPlayer`, `AlwaysFollowsDialogue` | any number of recordings and events in flight, any faults |
| | `AlwaysEndsOnItsAnswer`, `AlwaysAwaitsAnswer` | with `SlowServer` and connections that stay open once made: a conversation's wait ends with its own answer, which is under way while it waits |
| `Sound_proofs` | `TypeCorrect`, `AlwaysGuarded`, `WakeupNeverLost`, `AlwaysKeepsOrder` | the queue by itself: any producers, any number of chunks |
| | `SoundImplementsQueue`, `SoundWakeupNeverLost`, `SoundAlwaysKeepsOrder` | both builds implement the queue and inherit its theorems, whatever the devices do |
| | `SoundTypeCorrect`, `AlwaysAtMostOneMicLost`, `AlwaysRecoversNextTime`, `EveryReadAlwaysReplayed` | any number of conversations and chunks, any failures of the devices |
| `LookCycle_proofs` | `TypeCorrect`, `EyesAlwaysComeBack`, `AlwaysReadyForNextLook`, `HeadAlwaysComesBack` | any targets, faces, limits and durations |
| | `AlwaysGlances` | with nobody there and room to turn: the refinement of `Glance`'s safety |
| `Robot_proofs` | `TypeCorrect`, `AlwaysTornDownAlone`, `AlwaysImplementsFaceBoard` | any faces, any keys, any failure of the camera |
| `ServoBus_proofs` | `WordSurvives`, `PositionSurvives`, `ChangedAckIsSeen` | all words, all positions, all acknowledgements |
| | `TypeCorrect`, `OnlyUnreadableEverFails` | any positions, any lateness, any number of faults, with `ICRNL` or without: recovery is certain for writes, and for reads exactly of the positions the tty leaves alone |
| | `PositionAlwaysTrue` | with `MaxFaults <= 1`: any positions, lateness and damage |
| | `AckAlwaysTrue` | with `MaxFaults <= 1` and `MaxLate <= 2`: any positions and damage |
| `PyVoice_proofs` | `TypeCorrect`, `AlwaysConnectionUsedOnce`, `MicAlwaysReleased`, `AlwaysKeepsOrder` | any number of chunks, playing threads and connections, both programs |
| `PyTrack_proofs` | `TypeCorrect`, `LagAlwaysBounded`, `HeadNeverOvershoots` | any scenes, any number of packets lost in a row |

The arguments:

* **Head, racing.** "At rest within the limits" is not inductive: it says nothing
  while a call is under way. `OverrunIsOwned` is: every store that can push a
  coordinate over a limit is followed, in the same thread, by the tests that
  correct it, and a clamp only stores a limit. It implies the rest.
* **Head, alone.** `LoneInv` ties `reg`, `delta` and `head` together at each stage of the
  only mover's call; it makes every step a step of `HeadServo` or a stutter.
* **Conversation.** The invariant has four parts. *Control* gives the event a
  thread is sending from its stage. *Handshake* orders connection, configuration
  and `ready`: until `session.updated` is handled the speech thread sends
  nothing, and from then on the service thread does not; hence `SendersApart`.
  *Audio* says that anything that leads to a push comes after `session.created`.
  *Script* gives the last event on an open connection from the stage and the place
  within `sendEvent`; hence the refinement. It is conditional on an open socket
  because writes to a closed one are dropped while the script goes on.
* **Conversation, its own answer.** `Ends` adds what a patient world guarantees: the
  greeting is over before the recording is committed (`Listened`), nothing answers the
  request before the client waits (`Unanswered`), and a wait is still on or has been
  answered by the request (`Awaited`). `Requested` then follows the request from the
  wire through the server and back: `talking = true` never overwrites its end. What a
  quick server or a closed connection does instead is told under the runs, so neither
  hypothesis can go; a refused connection does no harm.
* **Playback.** `QueueIsGuarded` (who holds the mutex) and `FrontIsHeld` (the player's
  local chunk) make `waiting = front \o queue` the abstract queue; `RoomToPush` counts
  the chunks still to come, for the types. Every step of `Sound` is a step of
  `PlaybackQueue` or leaves its variables alone, so `Inv` is kept there too.
* **Devices, recording.** Neither `AtMostOneMicLost` nor `RecoversNextTime` is inductive.
  `Devices` says in which stage the microphone is which: after the first conversation
  it is null whenever nothing is recorded, so only the constructor's handle can be
  overwritten. `Recording` balances the books: chunks stored are chunks handed to
  `playChunk` and chunks yet to play, and of the handed ones all but the one
  inside `playChunk` were pushed.
* **Looking.** `Calm` gives where the eyes may be off centre in each state of the look;
  `HeadFollowsLook` gives the head from home, target and state when no face comes
  and there is room to turn; it also makes each step one of `Glance`.
* **Robot.** `MutexesHeld` and `FaceInHand` follow a face from its detection, coordinate
  by coordinate, to the flag: whoever finds the flag set reads a whole face, and finds
  it set until he gives the mutex back. `Ended` keeps what `main` has joined.
* **Bytes.** `DivMod` and `SumsDiffer` carry the codec: two sums that differ by less
  than 256 have different last bytes. `TypeCorrect` of the bus takes a packet apart
  (`RequestFields`) to show that what a servo decodes is a position.
* **Bus, recovery.** `PromptAnswer`: a call that the world leaves alone is at the same
  place of the answer due to it (`AtPlace`: header search, body, rest of the line).
  No hypothesis is needed: the flush at the start of a call makes up for all before.
  Whether that answer then adds up, `AnswerAddsUp` says: each 13 read as a 10 takes three
  from the bytes or from the checksum, and no combination of the three places cancels.
* **Bus, positions.** `PositionAhead`: either the reader is at its place in eight bytes
  whose checksum vouches for the servo's position, or what it has and can still get
  is too short for an answer. One fault changes one byte, which the checksum sees, or
  removes some; two can cancel out in an additive sum, and TLC finds `TruePosition`
  violated with `MaxFaults = 2`. The tty's conversion counts as a change like any other,
  which is why the property excepts answers that the line has changed as well; `OneChanger`
  carries that exception, which noise in the middle of an answer can only bring about.
* **Bus, acknowledgements.** `AcksKnown`: on a line without faults, four bytes that look
  like an acknowledgement are the one to the write they are as old as. `ToldTrue`:
  the servo has what the call asked for, or the fault has been spent and nothing
  that can still be read looks like its acknowledgement. Three calls make a round, so
  an acknowledgement three calls late is that of the same servo in the round
  before: TLC finds `TrueAck` violated with `MaxLate = 3`. With `MaxFaults = 2` it is
  violated when the call's own answer is lost and a late position answer has its length
  byte changed to 2 and a low byte that happens to be the sum (252): four of its bytes
  then pass for an acknowledgement. Both
  are what the code does. An acknowledgement three calls late means that a call has
  waited its 100 ms (`SCSerial.cpp:20,55`) in vain and two more have ended since.
* **Python voice.** `ConnectionUsedOnce` is inductive together with the types. `MicInUse`
  gives the one place where the microphone is on. `Hands` and `FlagBeforeThread` (in
  `speak.py` the flag is raised before the thread exists, so there is one thread)
  make the only thread's batch and the queue what waits in the abstract channel.
* **Python tracking.** `TypeOK /\ LagIsBounded` is inductive: a movement is at most 3
  hundredths of the picture, 60 steps of a servo, and a packet that goes through takes the
  whole lag with it.

Only model-checked, and why: liveness (`ConversationEnds`, `EverythingIsHeard`,
`KeepsLooking`, `CallReturns`, `ReplayEnds`, `EscEndsProgram`, `SeesWhatIsThere`,
`QueueDrains`, `KeepsListening`, `EventsTakenUp`, `SettlesOnPerson` and the fair halves
of `HeadServo` and `Glance`), since the prover has no rules for fairness and
ENABLED; and anything by induction over data, like the sum of a packet of any
length. No module uses a RECURSIVE operator.

## What is not modelled

The renderer, the face and the screen draw and decide nothing; blinking
(`main.cpp:236-257`) is a timer of its own that nothing reads. The wake word is
constructed and never asked. `OpenAIClient::close`, `stopPlaybackThread` and
`AudioHandler::cleanup` stand after an endless loop and are not reached in a running
robot; if they were, `stopPlaybackThread` would join the player with the player's mutex
held. The detached movement thread (`main.cpp:82-87`) does nothing but poll `quit`, a local
of `main`, by reference; it may read it once more after `main` has returned, although
`main.cpp:286` says that `main` waits for its threads.

A port that opens but cannot be configured (`Serial.h:103`) looks to the rest like a
line on which everything is lost; that its number may be given to another file is not
modelled. Two threads inside the servo bus at once are not modelled byte by byte: the
packets are written in pieces without a lock, and nothing the library promises
survives that. PortAudio without any microphone ends the program before `main`
(`speak.cpp:225` reads through a null pointer); the model has devices that exist.

The rest of the servo library (sync and registered writes, ping, EEPROM) is not called
by the robot, nor are `cleanup` and `stop_playback` by the Python one. The local speech
program, the microcontroller sketch and `cpp/` are programs of their own; the listening
loop of `local/stream.cpp` is not called by its own `main`. Third-party code is modelled only as far as the program uses it: what
libwebsockets calls back, what a condition variable returns, what a servo answers,
when asyncio runs a task. The realtime server sends well-formed events:
what `onMessage` does with one that does not parse (it returns, `speak.cpp:598-601`) and
with function arguments that do not (the exception of `speak.cpp:640`) is not in
`Conversation`. `PROJECT.json` lists every part and every hazard, those without
a property included.

## Plan

What the running programs do is modelled, and their safety is proved. What is left:

1. **What liveness rests on.** `AlwaysAwaitsAnswer` is the safety fact behind
   `ConversationEnds`: whoever waits has something coming. The same for the other
   waits: a queued chunk in the Python programs has a thread that will take it, a
   mutex `main` or the tracker waits for has a holder that is not waiting itself.
2. **Weaker hypotheses.** Which damage beyond one fault `TrueAck` and `TruePosition`
   still exclude, stated over the damage and not over its amount.
