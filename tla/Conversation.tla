---------------------------- MODULE Conversation ----------------------------
(***************************************************************************)
(* The spoken conversation (src/src/speak.cpp, VoiceAssistant and          *)
(* OpenAIClient): the speech thread runs the script of startConversation   *)
(* over and over, the websocket service thread runs the libwebsockets      *)
(* callbacks, and the OpenAI realtime server answers. The two threads      *)
(* share ready, talking, isConnected and wsi, plain variables that no lock *)
(* protects; writeMutex serialises the calls of lws_write.                 *)
(*                                                                         *)
(* The flags are read in polling loops; they are modelled as the build     *)
(* without optimisation has them, each read loading the variable.          *)
(***************************************************************************)
EXTENDS Integers, Sequences

CONSTANTS
    Chunks,      \* recordings sent per conversation (40 in the source)
    MaxDeltas,   \* bound of the model: audio deltas per response
    MaxInFlight, \* bound of the model: events under way in each direction
    Faults,      \* what the network may do: "refuse", "close"
    SlowServer   \* no answer is faster than the client needs to expect it

ASSUME ChunksAssumption == Chunks \in Nat \ {0}
ASSUME BoundsAssumption == MaxDeltas \in Nat /\ MaxInFlight \in Nat \ {0}
ASSUME FaultsAssumption == Faults \subseteq {"refuse", "close"}
ASSUME SlowAssumption == SlowServer \in BOOLEAN

Threads == {"speech", "ws"}
Nobody == "nobody"

\* The events the client sends, named by their place in the script: "greet"
\* and "request" are both response.create.
Events == {"configure", "greet", "append", "commit", "request"}
NoEvent == "none"

VARIABLES
    stage,       \* the speech thread's place in run and startConversation
    chunk,       \* the loop variable i of the recording loop
    sending,     \* sending[t]: where thread t is in sendEvent, or "no"
    event,       \* event[t]: the event thread t passed to sendEvent
    mutex,       \* the holder of writeMutex
    ready, talking, isConnected, wsi,   \* as in OpenAIClient
    player,      \* the playback thread was started
    queued,      \* audio was pushed on the playback queue
    socket,      \* external: "none", "connecting", "open" or "closed"
    toServer,    \* external: events on the wire to the server
    toClient,    \* external: callbacks libwebsockets has still to make
    serving,     \* external: the response.create being answered, or none
    deltas,      \* external: audio deltas of the answer so far
    last,        \* history: the last event written to the open socket
    appended,    \* history: recordings written in this conversation
    answered     \* history: the response.create whose response.done came last

speechVars == <<stage, chunk>>
sendVars == <<sending, event, mutex>>
flagVars == <<ready, talking, isConnected, wsi>>
audioVars == <<player, queued>>
serverVars == <<socket, serving, deltas>>
logVars == <<last, appended>>
vars == <<speechVars, sendVars, flagVars, audioVars, serverVars, toServer,
          toClient, logVars, answered>>

Stages == {"start", "waitReady", "greet", "nod", "record", "append",
           "playback", "commit", "request", "waitDone", "pause", "returned"}

\* response.done, told apart by the response.create it belongs to.
Done == [e \in {"greet", "request"} |-> IF e = "greet" THEN "greetDone"
                                                      ELSE "requestDone"]
Messages == {"established", "created", "updated", "delta", "greetDone",
             "requestDone", "error", "closed"}

TypeOK ==
    /\ stage \in Stages
    /\ chunk \in 0..Chunks
    /\ sending \in [Threads -> {"no", "check", "lock", "write", "unlock"}]
    /\ event \in [Threads -> Events \cup {NoEvent}]
    /\ mutex \in Threads \cup {Nobody}
    /\ ready \in BOOLEAN /\ talking \in BOOLEAN
    /\ isConnected \in BOOLEAN /\ wsi \in BOOLEAN
    /\ player \in BOOLEAN /\ queued \in BOOLEAN
    /\ socket \in {"none", "connecting", "open", "closed"}
    /\ toServer \in Seq(Events)
    /\ toClient \in Seq(Messages)
    /\ serving \in {NoEvent, "greet", "request"}
    /\ deltas \in 0..MaxDeltas
    /\ last \in Events \cup {"nothing"}
    /\ appended \in 0..Chunks
    /\ answered \in {NoEvent, "greet", "request"}

Init ==
    /\ stage = "start" /\ chunk = 0
    /\ sending = [t \in Threads |-> "no"]
    /\ event = [t \in Threads |-> NoEvent]
    /\ mutex = Nobody
    /\ ready = FALSE /\ talking = FALSE /\ isConnected = FALSE /\ wsi = FALSE
    /\ player = FALSE /\ queued = FALSE
    /\ socket = "none" /\ toServer = <<>> /\ toClient = <<>>
    /\ serving = NoEvent /\ deltas = 0
    /\ last = "nothing" /\ appended = 0 /\ answered = NoEvent

-----------------------------------------------------------------------------
(* sendEvent: the test of the socket comes before the lock is taken, and   *)
(* wsi is read again for lws_write.                                        *)

Enter(t, e) == /\ sending' = [sending EXCEPT ![t] = "check"]
               /\ event' = [event EXCEPT ![t] = e]

Within(t, here, there) == /\ sending[t] = here
                          /\ sending' = [sending EXCEPT ![t] = there]

\* if (!isConnected || wsi == nullptr) return;
CheckSocket(t) ==
    /\ \/ Within(t, "check", "lock") /\ isConnected /\ wsi
       \/ Within(t, "check", "no") /\ ~(isConnected /\ wsi)
    /\ UNCHANGED <<speechVars, event, mutex, flagVars, audioVars, serverVars,
                   toServer, toClient, logVars, answered>>

LockWrite(t) ==
    /\ Within(t, "lock", "write")
    /\ mutex = Nobody
    /\ mutex' = t
    /\ UNCHANGED <<speechVars, event, flagVars, audioVars, serverVars, toServer,
                   toClient, logVars, answered>>

\* lws_write. On a socket that is gone nothing reaches the server (the call is
\* then made on a null wsi: onClose cleared it without taking writeMutex).
Write(t) ==
    /\ Within(t, "write", "unlock")
    /\ IF socket = "open"
       THEN /\ Len(toServer) < MaxInFlight
            /\ toServer' = Append(toServer, event[t])
            /\ last' = event[t]
            /\ appended' = CASE event[t] = "greet" -> 0
                             [] event[t] = "append" -> appended + 1
                             [] OTHER -> appended
       ELSE UNCHANGED <<toServer, logVars>>
    /\ UNCHANGED <<speechVars, event, mutex, flagVars, audioVars, serverVars,
                   toClient, answered>>

UnlockWrite(t) ==
    /\ Within(t, "unlock", "no")
    /\ mutex' = Nobody
    /\ UNCHANGED <<speechVars, event, flagVars, audioVars, serverVars, toServer,
                   toClient, logVars, answered>>

SendEvent(t) == CheckSocket(t) \/ LockWrite(t) \/ Write(t) \/ UnlockWrite(t)

-----------------------------------------------------------------------------
(* The speech thread: run and startConversation.                           *)

At(s) == stage = s /\ sending["speech"] = "no"
Idle == UNCHANGED <<mutex, toServer, toClient, serverVars, logVars>>
NoSend == UNCHANGED <<sending, event>>

\* initWebSocket: the connection is begun and the service thread started, or
\* run returns.
InitWebSocket ==
    /\ At("start")
    /\ \/ stage' = "waitReady" /\ wsi' = TRUE /\ socket' = "connecting"
       \/ stage' = "returned" /\ UNCHANGED <<wsi, socket>>
    /\ UNCHANGED <<chunk, sendVars, ready, talking, isConnected, audioVars,
                   serving, deltas, toServer, toClient, logVars, answered>>

\* Fault: the conversation starts without waiting for session.updated.
StartUnready ==
    /\ At("waitReady")
    /\ stage' = "greet"
    /\ Enter("speech", "greet")
    /\ Idle /\ UNCHANGED <<chunk, flagVars, audioVars, answered>>

\* while (!ready) sleep; then the first response.create.
WaitReady ==
    /\ At("waitReady")
    /\ ready
    /\ stage' = "greet"
    /\ Enter("speech", "greet")
    /\ Idle /\ UNCHANGED <<chunk, flagVars, audioVars, answered>>

\* Nod the head (HeadMotion) and start recording.
Nod ==
    /\ \/ At("greet") /\ stage' = "nod" /\ chunk' = chunk
       \/ At("nod") /\ stage' = "record" /\ chunk' = 0
    /\ NoSend /\ Idle /\ UNCHANGED <<flagVars, audioVars, answered>>

\* One round of the recording loop: a chunk is recorded and appended. The
\* chunk is never empty, so every round sends.
RecordChunk ==
    /\ At("record")
    /\ chunk < Chunks
    /\ stage' = "append"
    /\ Enter("speech", "append")
    /\ Idle /\ UNCHANGED <<chunk, flagVars, audioVars, answered>>

NextChunk ==
    /\ At("append")
    /\ stage' = "record"
    /\ chunk' = chunk + 1
    /\ NoSend /\ Idle /\ UNCHANGED <<flagVars, audioVars, answered>>

\* Fault: the loop ends one round early.
StopRecordingEarly ==
    /\ At("record")
    /\ chunk = Chunks - 1
    /\ stage' = "playback"
    /\ NoSend /\ Idle /\ UNCHANGED <<chunk, flagVars, audioVars, answered>>

StopRecording ==
    /\ At("record")
    /\ chunk = Chunks
    /\ stage' = "playback"
    /\ NoSend /\ Idle /\ UNCHANGED <<chunk, flagVars, audioVars, answered>>

\* With a slow server the greeting is over when listening ends.
Quiet == toServer = <<>> /\ toClient = <<>> /\ serving = NoEvent

\* playbackRecordedAudio queues the recording; then the buffer is committed.
PlaybackRecorded ==
    /\ At("playback")
    /\ SlowServer /\ socket = "open" => Quiet
    /\ queued' = TRUE
    /\ stage' = "commit"
    /\ Enter("speech", "commit")
    /\ Idle /\ UNCHANGED <<chunk, flagVars, player, answered>>

\* The second response.create.
Request ==
    /\ At("commit")
    /\ stage' = "request"
    /\ answered' = NoEvent
    /\ Enter("speech", "request")
    /\ Idle /\ UNCHANGED <<chunk, flagVars, audioVars>>

\* talking = true, after the request was sent.
SetTalking ==
    /\ At("request")
    /\ stage' = "waitDone"
    /\ talking' = TRUE
    /\ NoSend /\ Idle
    /\ UNCHANGED <<chunk, ready, isConnected, wsi, audioVars, answered>>

\* while (talking) sleep;
WaitDone ==
    /\ At("waitDone")
    /\ ~talking
    /\ stage' = "pause"
    /\ NoSend /\ Idle /\ UNCHANGED <<chunk, flagVars, audioVars, answered>>

\* run's loop: sleep five seconds and start the next conversation.
Pause ==
    /\ At("pause")
    /\ stage' = "waitReady"
    /\ NoSend /\ Idle /\ UNCHANGED <<chunk, flagVars, audioVars, answered>>

Speech == \/ WaitReady \/ Nod \/ RecordChunk \/ NextChunk \/ StopRecording
          \/ PlaybackRecorded \/ Request \/ SetTalking \/ WaitDone \/ Pause
          \/ SendEvent("speech")

-----------------------------------------------------------------------------
(* The websocket service thread: one libwebsockets callback at a time.     *)

\* The next callback is m, and the last one has returned.
Callback(m) ==
    /\ sending["ws"] = "no"
    /\ toClient # <<>> /\ Head(toClient) = m
    /\ toClient' = Tail(toClient)
    /\ UNCHANGED <<speechVars, mutex, serverVars, toServer, logVars>>

\* onConnected
OnConnected ==
    /\ Callback("established")
    /\ isConnected' = TRUE
    /\ Enter("ws", "configure")
    /\ UNCHANGED <<ready, talking, wsi, audioVars, answered>>

\* Fault: the playback thread is not started.
OnCreatedIgnored ==
    /\ Callback("created")
    /\ NoSend /\ UNCHANGED <<flagVars, audioVars, answered>>

\* onMessage, session.created: startPlaybackThread
OnCreated ==
    /\ Callback("created")
    /\ player' = TRUE
    /\ NoSend /\ UNCHANGED <<flagVars, queued, answered>>

\* onMessage, session.updated
OnUpdated ==
    /\ Callback("updated")
    /\ ready' = TRUE
    /\ NoSend /\ UNCHANGED <<talking, isConnected, wsi, audioVars, answered>>

\* Fault: the first audio of an answer ends the wait for it.
OnDeltaEnds ==
    /\ Callback("delta")
    /\ queued' = TRUE /\ talking' = FALSE
    /\ NoSend /\ UNCHANGED <<ready, isConnected, wsi, player, answered>>

\* onMessage, response.audio.delta: playChunk
OnDelta ==
    /\ Callback("delta")
    /\ queued' = TRUE
    /\ NoSend /\ UNCHANGED <<flagVars, player, answered>>

\* Fault: talking is not reset.
OnDoneIgnored ==
    \E e \in {"greet", "request"} :
        /\ Callback(Done[e])
        /\ answered' = e
        /\ NoSend /\ UNCHANGED <<flagVars, audioVars>>

\* onMessage, response.done
OnDone ==
    \E e \in {"greet", "request"} :
        /\ Callback(Done[e])
        /\ talking' = FALSE
        /\ answered' = e
        /\ NoSend /\ UNCHANGED <<ready, isConnected, wsi, audioVars>>

\* onMessage, error: only logged.
OnError ==
    /\ Callback("error")
    /\ NoSend /\ UNCHANGED <<flagVars, audioVars, answered>>

\* onClose, for a closed connection and for one that was never made; neither
\* ready nor talking is reset.
OnClose ==
    /\ Callback("closed")
    /\ isConnected' = FALSE
    /\ wsi' = FALSE
    /\ NoSend /\ UNCHANGED <<ready, talking, audioVars, answered>>

Service == \/ OnConnected \/ OnCreated \/ OnUpdated \/ OnDelta \/ OnDone
           \/ OnError \/ OnClose
           \/ SendEvent("ws")

-----------------------------------------------------------------------------
(* The realtime server and the network (external), as the handlers of      *)
(* onMessage use them: one response at a time, events in order.            *)

Client == UNCHANGED <<speechVars, sendVars, flagVars, audioVars, logVars, answered>>

Tell(m) == /\ Len(toClient) < MaxInFlight
           /\ toClient' = Append(toClient, m)

Accept ==
    /\ socket = "connecting"
    /\ Len(toClient) + 2 <= MaxInFlight
    /\ socket' = "open"
    /\ toClient' = toClient \o <<"established", "created">>
    /\ Client /\ UNCHANGED <<serving, deltas, toServer>>

ServerReceive ==
    /\ socket = "open"
    /\ toServer # <<>>
    /\ toServer' = Tail(toServer)
    /\ LET e == Head(toServer)
       IN  CASE e = "configure" -> Tell("updated") /\ UNCHANGED <<serving, deltas>>
             [] e \in {"greet", "request"} /\ serving = NoEvent ->
                    serving' = e /\ deltas' = 0 /\ UNCHANGED toClient
             [] e \in {"greet", "request"} /\ serving # NoEvent ->
                    Tell("error") /\ UNCHANGED <<serving, deltas>>
             [] OTHER -> UNCHANGED <<serving, deltas, toClient>>
    /\ Client /\ UNCHANGED socket

ServerSpeak ==
    /\ socket = "open" /\ serving # NoEvent
    /\ deltas < MaxDeltas
    /\ deltas' = deltas + 1
    /\ Tell("delta")
    /\ Client /\ UNCHANGED <<socket, serving, toServer>>

ServerDone ==
    /\ socket = "open" /\ serving # NoEvent
    /\ SlowServer /\ serving = "request" => stage # "request"
    /\ Tell(Done[serving])
    /\ serving' = NoEvent
    /\ Client /\ UNCHANGED <<socket, deltas, toServer>>

\* The connection is refused or lost: what was under way to the server is
\* dropped, the client still hears what was sent before.
Disconnect ==
    /\ \/ socket = "connecting" /\ "refuse" \in Faults
       \/ socket = "open" /\ "close" \in Faults
    /\ socket' = "closed"
    /\ Tell("closed")
    /\ toServer' = <<>> /\ serving' = NoEvent
    /\ Client /\ UNCHANGED deltas

Server == Accept \/ ServerReceive \/ ServerSpeak \/ ServerDone

Next == InitWebSocket \/ Speech \/ Service \/ Server \/ Disconnect

Spec == Init /\ [][Next]_vars

\* The operating system runs both threads and a mutex that is free is given
\* to a thread that waits for it; a server that is connected answers.
FairSpec ==
    Spec /\ WF_vars(InitWebSocket) /\ WF_vars(Speech) /\ WF_vars(Service)
         /\ WF_vars(Accept) /\ WF_vars(ServerReceive) /\ WF_vars(ServerDone)

-----------------------------------------------------------------------------
(* Properties.                                                             *)

\* The two threads are never inside sendEvent at the same time: the service
\* thread sends only the configuration, and the speech thread waits for the
\* server's answer to it. writeMutex is never contended.
SendersApart == ~ (sending["speech"] # "no" /\ sending["ws"] # "no")

\* Audio is queued, by an answer or by the playback of the recording, only
\* after the thread that plays the queue was started.
AudioHasPlayer == queued => player

\* The events on the wire are the script of Dialogue, in order: nothing is
\* asked before the session is configured, and nothing is committed before
\* all its recordings, whatever else arrives and whenever the socket closes.
FollowsDialogue == INSTANCE Dialogue
ImplementsDialogue == FollowsDialogue!DialogueSpec

\* A conversation whose request was sent comes to an end ("Sleep until OpenAI
\* is done").
ConversationEnds == (stage = "waitDone") ~> (stage = "pause")

\* It is the answer to the conversation's own request that ends the wait.
EndsOnItsAnswer ==
    [][stage = "waitDone" /\ stage' = "pause" => answered = "request"]_vars

=============================================================================
