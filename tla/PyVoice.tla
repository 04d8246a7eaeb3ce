------------------------------ MODULE PyVoice ------------------------------
(***************************************************************************)
(* The conversations of the Python robot. speak.py (src/src/py/speak.py)   *)
(* listens for its wake word, connects, sends what it records, asks for an *)
(* answer, sleeps ten seconds and listens again; each connection gets a    *)
(* task that reads its messages, and no connection is ever closed by the   *)
(* robot. Tasks run only while the conversation waits for something:       *)
(* listening for the wake word never does. talk.py (src/src/py/talk.py)    *)
(* has one connection and asks one question. Both play through PyPlayback. *)
(***************************************************************************)
EXTENDS PyPlayback

CONSTANT MaxConnections     \* bound of the model: connections in use at once

ASSUME ConnectionsAssumption == MaxConnections \in Nat \ {0}

Connections == 1..MaxConnections
NoConnection == 0
Created == 0    \* session.created among the messages; the others are chunks

VARIABLES
    main,       \* where run and start_conversation are, or talk.py
    ws,         \* self.ws
    used,       \* history: the connections of earlier conversations
    mic,        \* stream_in; "stuck" if it could not be stopped
    open,       \* open[k]: the connection is up
    reader,     \* reader[k]: the task that reads k
    inbox,      \* inbox[k]: messages that arrived
    sent        \* chunks the server has sent

voiceVars == <<main, ws, used, mic>>
netVars == <<open, reader, inbox, sent>>
vars == <<playbackVars, voiceVars, netVars>>

Conversing == {"configure", "start", "record", "commit", "respond"}

TypeOK ==
    /\ PlaybackTypeOK
    /\ main \in Conversing \cup
         (IF program = "speak" THEN {"listen", "connect", "sleep"} ELSE {"run", "put", "exit"})
    /\ ws \in Connections \cup {NoConnection}
    /\ used \subseteq Connections \cup {NoConnection}
    /\ mic \in {"off", "on", "stuck"}
    /\ open \in [Connections -> BOOLEAN]
    /\ reader \in [Connections -> {"none", "running", "done"}]
    /\ inbox \in [Connections -> Seq(Chunk \cup {Created})]
    /\ sent \in 0..MaxChunks

Init ==
    /\ PlaybackInit
    /\ main = IF program = "speak" THEN "listen" ELSE "run"
    /\ ws = IF program = "speak" THEN NoConnection ELSE 1
    /\ used = {} /\ mic = "off" /\ sent = 0
    /\ open = [k \in Connections |-> k = ws]
    /\ reader = [k \in Connections |-> "none"]
    /\ inbox = [k \in Connections |-> <<>>]

-----------------------------------------------------------------------------
(* run and start_conversation. An exception ends the conversation and is   *)
(* logged by run.                                                          *)

At(here, there) == main = here /\ main' = there

\* Fault: run does not catch it.
RaiseOn(here) == At(here, "exit") /\ used' = used \cup {ws} /\ UNCHANGED <<ws, mic>>

Raise(here) == At(here, "listen") /\ used' = used \cup {ws} /\ UNCHANGED <<ws, mic>>

\* The wake word was heard, or listening failed: start_listening catches that and
\* returns as if it had. (If the microphone does not open, run tries again.)
StartListening == At("listen", "connect") /\ UNCHANGED <<ws, used, mic, netVars>>

Free(k) == ~open[k] /\ reader[k] # "running"

\* Fault: connect logs the error and goes on.
ConnectAnyway(k) ==
    \/ /\ At("connect", "configure") /\ Free(k)
       /\ ws' = k /\ used' = used \ {k}
       /\ open' = [open EXCEPT ![k] = TRUE]
       /\ reader' = [reader EXCEPT ![k] = "none"]
       /\ inbox' = [inbox EXCEPT ![k] = <<Created>>]
       /\ UNCHANGED <<mic, sent>>
    \/ At("connect", "configure") /\ UNCHANGED <<ws, used, mic, netVars>>

Connect(k) ==
    \/ /\ At("connect", "configure") /\ Free(k)
       /\ ws' = k /\ used' = used \ {k}
       /\ open' = [open EXCEPT ![k] = TRUE]
       /\ reader' = [reader EXCEPT ![k] = "none"]
       /\ inbox' = [inbox EXCEPT ![k] = <<Created>>]
       /\ UNCHANGED <<mic, sent>>
    \/ Raise("connect") /\ UNCHANGED netVars

\* send_event: on a connection that is gone it raises, as soon as the robot knows.
Sends(here, there) ==
    \/ At(here, there) /\ ws # NoConnection /\ UNCHANGED <<ws, used, mic>>
    \/ Raise(here) /\ (ws # NoConnection => ~open[ws])

\* The reader is created only once session.update is sent.
Configure ==
    /\ Sends("configure", "start")
    /\ reader' = IF main' = "start" THEN [reader EXCEPT ![ws] = "running"] ELSE reader
    /\ UNCHANGED <<open, inbox, sent>>

\* Opening the microphone comes before the try.
StartRecording ==
    /\ \/ At("start", "record") /\ mic' = "on" /\ UNCHANGED <<ws, used>>
       \/ Raise("start")
    /\ UNCHANGED netVars

\* Fault: an error while recording skips what follows.
StopRecordingSkipped ==
    /\ \/ At("record", "commit") /\ mic' = "off" /\ UNCHANGED <<ws, used>>
       \/ Raise("record")
    /\ UNCHANGED netVars

\* Fifty chunks, none, or an error: the finally stops the stream, which may fail.
StopRecording ==
    /\ \/ At("record", "commit") /\ mic' = "off" /\ UNCHANGED <<ws, used>>
       \/ At("record", "listen") /\ mic' = "stuck" /\ used' = used \cup {ws} /\ UNCHANGED ws
    /\ UNCHANGED netVars

Commit == Sends("commit", "respond") /\ UNCHANGED netVars

AskForResponse == Sends("respond", "sleep") /\ UNCHANGED netVars

SleepOver == Raise("sleep") /\ UNCHANGED netVars

Converse ==
    /\ program = "speak"
    /\ \/ StartListening \/ (\E k \in Connections : Connect(k)) \/ Configure \/ StartRecording
       \/ StopRecording \/ Commit \/ AskForResponse \/ SleepOver
    /\ UNCHANGED playbackVars

-----------------------------------------------------------------------------
(* receive_events and handle_event.                                        *)

Awaits == main # "listen"

\* Fault: every reader reads self.ws.
TaskRunsLatest(k) == program = "speak" /\ Awaits /\ reader[k] = "running" /\ ws = k

TaskRuns(k) == program = "speak" /\ Awaits /\ reader[k] = "running"

\* An output stream that does not open ends the task.
HandleEvent(k) ==
    /\ TaskRuns(k) /\ inbox[k] # <<>>
    /\ inbox' = [inbox EXCEPT ![k] = Tail(@)]
    /\ \/ /\ EnsurePlayer
          /\ queue' = IF Head(inbox[k]) = Created THEN queue ELSE Append(queue, Head(inbox[k]))
          /\ UNCHANGED reader
       \/ /\ ~running
          /\ reader' = [reader EXCEPT ![k] = "done"]
          /\ UNCHANGED <<queue, running, player>>
    /\ UNCHANGED <<program, batch, device, heard, voiceVars, open, sent>>

EndOfEvents(k) ==
    /\ TaskRuns(k) /\ inbox[k] = <<>> /\ ~open[k]
    /\ reader' = [reader EXCEPT ![k] = "done"]
    /\ UNCHANGED <<playbackVars, voiceVars, open, inbox, sent>>

ReaderStep(k) == HandleEvent(k) \/ EndOfEvents(k)

-----------------------------------------------------------------------------
(* talk.py                                                                 *)

\* on_message queues the chunk ...
PutChunk ==
    /\ At("run", "put") /\ inbox[ws] # <<>>
    /\ queue' = Append(queue, Head(inbox[ws]))
    /\ inbox' = [inbox EXCEPT ![ws] = Tail(@)]
    /\ UNCHANGED <<program, running, player, batch, device, heard, ws, used, mic, open, reader, sent>>

\* ... and then starts a thread if none has raised the flag yet.
TestPlaying ==
    /\ At("put", "run")
    /\ EnsurePlayer
    /\ UNCHANGED <<program, queue, batch, device, heard, ws, used, mic, netVars>>

\* run_forever returns, and the threads end with the program.
Exit ==
    /\ At("run", "exit") /\ inbox[ws] = <<>> /\ ~open[ws]
    /\ player' = [p \in Players |-> IF p \in Started THEN "dead" ELSE "none"]
    /\ UNCHANGED <<program, queue, running, batch, device, heard, ws, used, mic, netVars>>

Talk == PutChunk \/ TestPlaying \/ Exit

-----------------------------------------------------------------------------
(* The server and the network.                                             *)

SendAudio(k) ==
    /\ open[k] /\ sent < MaxChunks
    /\ sent' = sent + 1
    /\ inbox' = [inbox EXCEPT ![k] = Append(@, sent')]
    /\ UNCHANGED <<playbackVars, voiceVars, open, reader>>

Close(k) ==
    /\ open[k]
    /\ open' = [open EXCEPT ![k] = FALSE]
    /\ UNCHANGED <<playbackVars, voiceVars, reader, inbox, sent>>

Playing(p) == (PlayerStep(p) \/ PlayFails(p)) /\ UNCHANGED <<voiceVars, netVars>>

Next ==
    \/ Converse \/ Talk
    \/ \E k \in Connections : ReaderStep(k) \/ SendAudio(k) \/ Close(k)
    \/ \E p \in Players : Playing(p)

\* Python lets every thread run; the conversation's awaits end by themselves or by a
\* timeout; a task that is ready runs at one of the next awaits, not before.
Spec ==
    /\ Init /\ [][Next]_vars
    /\ WF_vars(Converse) /\ WF_vars(PutChunk \/ TestPlaying)
    /\ \A k \in Connections : SF_vars(ReaderStep(k))
    /\ \A p \in Players : WF_vars(PlayerStep(p) /\ UNCHANGED <<voiceVars, netVars>>)

-----------------------------------------------------------------------------
(* Properties.                                                             *)

\* A conversation sends its audio and its question on a connection of its own, never
\* on what an earlier one left in self.ws, however connecting fails in between.
ConnectionUsedOnce == main \in Conversing => ws \notin used

\* While the robot listens for its wake word or connects, the microphone is not still
\* recording for the last conversation, whatever ended that, unless stopping it failed.
MicReleased == main \in {"listen", "connect", "configure"} => mic # "on"

\* No failure of the network, the microphone or the speaker ends speak.py: it always
\* comes back to listening.
KeepsListening == program = "speak" => []<>(main = "listen")

\* As long as people go on waking the robot, what arrived on a connection is taken up,
\* be it that of an earlier conversation, unless its reader failed.
EventsTakenUp ==
    \A k \in Connections :
        []<>Awaits => (inbox[k] # <<>> /\ reader[k] = "running" ~> inbox[k] = <<>> \/ reader[k] # "running")

=============================================================================
