------------------------ MODULE Conversation_proofs ------------------------
(***************************************************************************)
(* Proofs about Conversation, for any number of recordings and deltas and  *)
(* any queue bound; all but the last two for any faults and any server.    *)
(***************************************************************************)
EXTENDS Conversation, SequenceTheorems, TLAPS

USE DEF Threads, Nobody, Events, NoEvent
USE ChunksAssumption, BoundsAssumption, FaultsAssumption, SlowAssumption

Pending == {"check", "lock", "write"}   \* in sendEvent, the event not yet written

-----------------------------------------------------------------------------
(* Facts about the callback queue.                                         *)

In(m, q) == \E i \in 1..Len(q) : q[i] = m
FirstOnly(q) == \A i \in 1..Len(q) : q[i] = "established" => i = 1
AfterCreated(q) ==
    \A i \in 1..Len(q) : q[i] \in {"delta", "updated"} =>
        \E j \in 1..Len(q) : j < i /\ q[j] = "created"

LEMMA PopQueue ==
  ASSUME NEW S, NEW q \in Seq(S), q # <<>>
  PROVE  /\ Tail(q) \in Seq(S)
         /\ \A m : In(m, Tail(q)) => In(m, q)
         /\ \A m : In(m, q) /\ m # Head(q) => In(m, Tail(q))
         /\ In(Head(q), q)
         /\ FirstOnly(q) => ~In("established", Tail(q))
         /\ AfterCreated(q) => Head(q) \notin {"delta", "updated"}
         /\ AfterCreated(q) /\ Head(q) # "created" => AfterCreated(Tail(q))
<1> DEFINE t == Tail(q)
<1>1. /\ t \in Seq(S) /\ Len(t) = Len(q) - 1 /\ Len(q) \in Nat \ {0}
      /\ \A i \in 1..Len(t) : t[i] = q[i + 1]
      /\ Head(q) = q[1]
  BY HeadTailProperties, LenProperties, EmptySeq
<1> HIDE DEF t
<1>2. \A m : In(m, t) => In(m, q)
  BY <1>1 DEF In
<1>3. ASSUME NEW m, In(m, q), m # Head(q) PROVE In(m, t)
  <2>1. PICK i \in 1..Len(q) : q[i] = m
    BY <1>3 DEF In
  <2>2. i - 1 \in 1..Len(t) /\ t[i - 1] = m
    BY <1>1, <1>3, <2>1
  <2> QED
    BY <2>2 DEF In
<1>4. In(Head(q), q)
  BY <1>1 DEF In
<1>5. FirstOnly(q) => ~In("established", t)
  BY <1>1 DEF FirstOnly, In
<1>6. AfterCreated(q) => Head(q) \notin {"delta", "updated"}
  BY <1>1 DEF AfterCreated
<1>7. ASSUME AfterCreated(q), Head(q) # "created" PROVE AfterCreated(t)
  <2> SUFFICES ASSUME NEW i \in 1..Len(t), t[i] \in {"delta", "updated"}
               PROVE  \E j \in 1..Len(t) : j < i /\ t[j] = "created"
    BY DEF AfterCreated
  <2>1. i + 1 \in 1..Len(q) /\ q[i + 1] \in {"delta", "updated"}
    BY <1>1
  <2>2. PICK j \in 1..Len(q) : j < i + 1 /\ q[j] = "created"
    BY <1>7, <2>1 DEF AfterCreated
  <2>3. j - 1 \in 1..Len(t) /\ j - 1 < i /\ t[j - 1] = "created"
    BY <1>1, <1>7, <2>2
  <2> QED
    BY <2>3
<1> QED
  BY <1>1, <1>2, <1>3, <1>4, <1>5, <1>6, <1>7 DEF t

LEMMA PushQueue ==
  ASSUME NEW S, NEW q \in Seq(S), NEW e \in S
  PROVE  /\ Append(q, e) \in Seq(S)
         /\ \A m : In(m, Append(q, e)) <=> In(m, q) \/ m = e
         /\ FirstOnly(q) /\ e # "established" => FirstOnly(Append(q, e))
         /\ /\ AfterCreated(q)
            /\ e \in {"delta", "updated"} => In("created", q)
            => AfterCreated(Append(q, e))
<1> DEFINE a == Append(q, e)
<1>1. /\ a \in Seq(S) /\ Len(q) \in Nat /\ Len(a) = Len(q) + 1
      /\ \A i \in 1..Len(q) : a[i] = q[i]
      /\ a[Len(q) + 1] = e
  BY AppendProperties, LenProperties
<1> HIDE DEF a
<1>2. \A m : In(m, a) <=> In(m, q) \/ m = e
  <2>1. \A i \in 1..Len(a) : i \in 1..Len(q) \/ i = Len(q) + 1
    BY <1>1
  <2>2. \A i \in 1..Len(q) : i \in 1..Len(a)
    BY <1>1
  <2>3. Len(q) + 1 \in 1..Len(a)
    BY <1>1
  <2> QED
    BY <1>1, <2>1, <2>2, <2>3 DEF In
<1>3. FirstOnly(q) /\ e # "established" => FirstOnly(a)
  BY <1>1 DEF FirstOnly
<1>4. ASSUME AfterCreated(q), e \in {"delta", "updated"} => In("created", q)
      PROVE  AfterCreated(a)
  <2> SUFFICES ASSUME NEW i \in 1..Len(a), a[i] \in {"delta", "updated"}
               PROVE  \E j \in 1..Len(a) : j < i /\ a[j] = "created"
    BY DEF AfterCreated
  <2>1. CASE i \in 1..Len(q)
    <3>1. PICK j \in 1..Len(q) : j < i /\ q[j] = "created"
      BY <1>1, <1>4, <2>1 DEF AfterCreated
    <3> QED
      BY <1>1, <3>1
  <2>2. CASE i = Len(q) + 1
    <3>1. PICK j \in 1..Len(q) : q[j] = "created"
      BY <1>1, <1>4, <2>2 DEF In
    <3> QED
      BY <1>1, <2>2, <3>1
  <2> QED
    BY <1>1, <2>1, <2>2
<1> QED
  BY <1>1, <1>2, <1>3, <1>4 DEF a

-----------------------------------------------------------------------------
(* The inductive invariant, in four parts beside the types.                *)

\* Where the speech thread is determines the event it sends; it is past its
\* wait for the configuration only when the session is ready.
Control ==
    /\ stage = "append" => chunk < Chunks
    /\ stage \in {"greet", "nod", "record", "append", "playback", "commit",
                  "request", "waitDone", "pause"} => ready
    /\ sending["speech"] # "no" =>
           stage \in {"greet", "append", "commit", "request"}
           /\ event["speech"] = stage

\* The handshake: nothing is on the wire before the connection is established,
\* the service thread sends the configuration once, and only a configuration
\* that was sent makes the session ready.
Handshake ==
    /\ stage = "start" => socket = "none"
    /\ socket \in {"none", "connecting"} =>
           /\ toClient = <<>> /\ toServer = <<>>
           /\ last = "nothing" /\ sending["ws"] = "no"
    /\ socket \in {"connecting", "open"} => wsi
    /\ socket = "open" /\ ~In("established", toClient) => isConnected
    /\ FirstOnly(toClient)
    /\ In("established", toClient) => last = "nothing" /\ sending["ws"] = "no"
    /\ In("closed", toClient) => socket = "closed"
    /\ last = "nothing" => /\ ~ready
                          /\ ~In("updated", toClient)
                          /\ ~In("configure", toServer)
    /\ sending["ws"] # "no" => ~ready /\ event["ws"] = "configure"
    /\ sending["ws"] \in Pending => last = "nothing"
    /\ ~ready => last \in {"nothing", "configure"} /\ appended = 0

\* session.created comes before everything that leads to audio.
Audio ==
    /\ player \/ AfterCreated(toClient)
    /\ socket = "open" => player \/ In("created", toClient)
    /\ ready \/ queued => player

\* What is on the wire when the speech thread is at each place of its script:
\* before the event of the place is written, and after.
BeforeEvent ==
    CASE stage = "greet" -> last \in {"configure", "request"}
      [] stage = "append" -> /\ last \in {"greet", "append"}
                             /\ appended = chunk
      [] stage = "commit" -> last = "append" /\ appended = Chunks
      [] stage = "request" -> last = "commit"
      [] OTHER -> TRUE

AfterEvent ==
    CASE stage = "waitReady" -> ready => last \in {"configure", "request"}
      [] stage \in {"greet", "nod"} -> last = "greet" /\ appended = 0
      [] stage = "record" -> /\ appended = chunk
                             /\ last = IF chunk = 0 THEN "greet" ELSE "append"
      [] stage = "append" -> last = "append" /\ appended = chunk + 1
      [] stage = "playback" -> last = "append" /\ appended = Chunks
      [] stage = "commit" -> last = "commit"
      [] stage \in {"request", "waitDone", "pause"} -> last = "request"
      [] OTHER -> TRUE

Script == socket = "open" =>
              IF sending["speech"] \in Pending THEN BeforeEvent ELSE AfterEvent

Inv == TypeOK /\ Control /\ Handshake /\ Audio /\ Script

LEMMA InvInit == Init => Inv
<1> SUFFICES ASSUME Init PROVE Inv
  OBVIOUS
<1> USE DEF Init
<1>1. TypeOK
  <2>1. toServer \in Seq(Events) /\ toClient \in Seq(Messages)
    OBVIOUS
  <2>2. /\ sending \in [Threads -> {"no", "check", "lock", "write", "unlock"}]
        /\ event \in [Threads -> Events \cup {NoEvent}]
    OBVIOUS
  <2>3. chunk \in 0..Chunks /\ deltas \in 0..MaxDeltas /\ appended \in 0..Chunks
    OBVIOUS
  <2>4. stage \in Stages
    BY DEF Stages
  <2> QED
    BY <2>1, <2>2, <2>3, <2>4 DEF TypeOK
<1>2. ~In("established", toClient) /\ ~In("updated", toClient)
      /\ ~In("closed", toClient) /\ ~In("configure", toServer)
      /\ FirstOnly(toClient) /\ AfterCreated(toClient)
  BY DEF In, FirstOnly, AfterCreated
<1>3. Control /\ Audio /\ Script
  BY <1>2 DEF Control, Audio, Script
<1>4. Handshake
  BY <1>2 DEF Handshake, Pending
<1> QED
  BY <1>1, <1>3, <1>4 DEF Inv

-----------------------------------------------------------------------------
(* The speech thread.                                                      *)

LEMMA SpeechKeepsInv ==
  ASSUME Inv, \/ InitWebSocket \/ WaitReady \/ Nod \/ RecordChunk \/ NextChunk
              \/ StopRecording \/ PlaybackRecorded \/ Request \/ SetTalking
              \/ WaitDone \/ Pause
  PROVE  Inv'
<1> USE DEF Inv, At, Idle, NoSend, Enter, serverVars, logVars, flagVars,
            audioVars, sendVars
<1>1. TypeOK'
  <2> USE DEF TypeOK, Stages
  <2>1. CASE InitWebSocket
    <3>1. wsi' \in BOOLEAN /\ UNCHANGED <<ready, talking, isConnected>>
      BY <2>1 DEF InitWebSocket
    <3>2. /\ stage' \in {"waitReady", "returned"}
          /\ socket' \in {"none", "connecting", "open", "closed"}
      BY <2>1 DEF InitWebSocket
    <3> QED
      BY <2>1, <3>1, <3>2 DEF InitWebSocket
  <2>2. CASE WaitReady
    BY <2>2 DEF WaitReady
  <2>3. CASE Nod
    BY <2>3 DEF Nod
  <2>4. CASE RecordChunk
    BY <2>4 DEF RecordChunk
  <2>5. CASE NextChunk
    <3>1. chunk + 1 \in 0..Chunks
      BY <2>5 DEF NextChunk, Control
    <3> QED
      BY <2>5, <3>1 DEF NextChunk
  <2>6. CASE StopRecording
    BY <2>6 DEF StopRecording
  <2>7. CASE PlaybackRecorded
    BY <2>7 DEF PlaybackRecorded
  <2>8. CASE Request
    BY <2>8 DEF Request
  <2>9. CASE SetTalking
    BY <2>9 DEF SetTalking
  <2>10. CASE WaitDone
    BY <2>10 DEF WaitDone
  <2>11. CASE Pause
    BY <2>11 DEF Pause
  <2> QED
    BY <2>1, <2>2, <2>3, <2>4, <2>5, <2>6, <2>7, <2>8, <2>9, <2>10, <2>11
<1> USE DEF InitWebSocket, WaitReady, Nod, RecordChunk, NextChunk, StopRecording,
            PlaybackRecorded, Request, SetTalking, WaitDone, Pause
<1>2. Control'
  BY DEF Control, TypeOK, Handshake
<1>3. Handshake'
  BY DEF Handshake, TypeOK, Pending
<1>4. Audio'
  BY DEF Audio, Control
<1>5. Script'
  BY DEF Script, BeforeEvent, AfterEvent, TypeOK, Control, Pending
<1> QED
  BY <1>1, <1>2, <1>3, <1>4, <1>5

-----------------------------------------------------------------------------
(* sendEvent. No thread's write is cut short while the socket is open: the *)
(* speech thread sends only on a ready connection.                         *)

LEMMA SendKeepsInv ==
  ASSUME Inv, NEW t \in Threads, CheckSocket(t) \/ LockWrite(t) \/ UnlockWrite(t)
  PROVE  Inv'
<1> USE DEF Inv, Within, serverVars, logVars, flagVars, audioVars, speechVars
<1> USE DEF CheckSocket, LockWrite, UnlockWrite
<1>1. TypeOK'
  BY DEF TypeOK
<1>2. Control'
  BY DEF Control, TypeOK
<1>3. Handshake'
  BY DEF Handshake, TypeOK, Pending
<1>4. Audio'
  BY DEF Audio
<1>5. Script'
  <2>1. CASE t = "speech"
    <3>1. sending["speech"] # "no" => ready /\ last # "nothing"
      BY DEF Control, Handshake
    <3>2. socket = "open" /\ ready => isConnected /\ wsi
      BY DEF Handshake
    <3>3. socket = "open" => ~(sending["speech"] = "check" /\ sending'["speech"] = "no")
      BY <2>1, <3>1, <3>2 DEF TypeOK
    <3> QED
      BY <2>1, <3>3 DEF Script, BeforeEvent, AfterEvent, TypeOK, Pending
  <2>2. CASE t = "ws"
    BY <2>2 DEF Script, BeforeEvent, AfterEvent, TypeOK, Pending
  <2> QED
    BY <2>1, <2>2
<1> QED
  BY <1>1, <1>2, <1>3, <1>4, <1>5

\* The write of the speech thread takes the script one step on.
LEMMA SpeechWriteKeepsInv == ASSUME Inv, Write("speech") PROVE Inv'
<1> USE DEF Inv, Within, serverVars, logVars, flagVars, audioVars, speechVars,
            Write
<1>1. /\ sending["speech"] = "write" /\ ready /\ last # "nothing"
      /\ sending["ws"] = "no" /\ event["speech"] = stage
      /\ stage \in {"greet", "append", "commit", "request"}
  BY DEF Control, Handshake
<1>2. sending'["speech"] = "unlock" /\ sending'["ws"] = "no"
  BY <1>1 DEF TypeOK
<1>3. CASE socket # "open"
  <2>1. TypeOK'
    BY <1>3 DEF TypeOK
  <2>2. Control' /\ Audio' /\ Script'
    BY <1>1, <1>2, <1>3 DEF Control, Audio, Script
  <2>3. Handshake'
    BY <1>1, <1>2, <1>3 DEF Handshake, Pending
  <2> QED
    BY <2>1, <2>2, <2>3
<1>4. CASE socket = "open"
  <2>1. /\ toServer' = Append(toServer, stage) /\ last' = stage
        /\ appended' = CASE stage = "greet" -> 0
                         [] stage = "append" -> appended + 1
                         [] OTHER -> appended
        /\ UNCHANGED <<stage, chunk, event, mutex, flagVars, audioVars,
                       serverVars, toClient, answered>>
    BY <1>1, <1>4
  <2>2. BeforeEvent
    BY <1>1, <1>4 DEF Script, Pending
  <2>3. appended' \in 0..Chunks
    BY <1>1, <2>1, <2>2 DEF TypeOK, BeforeEvent, Control
  <2>4. toServer' \in Seq(Events) /\ (\A m : In(m, toServer') <=> In(m, toServer) \/ m = stage)
    <3>1. toServer \in Seq(Events) /\ stage \in Events
      BY <1>1 DEF TypeOK
    <3>2. toServer' = Append(toServer, stage)
      BY <2>1
    <3> HIDE DEF Inv, Write
    <3> QED
      BY <3>1, <3>2, PushQueue
  <2>5. TypeOK'
    BY <1>1, <2>1, <2>3, <2>4 DEF TypeOK
  <2>6. Control' /\ Audio'
    BY <1>1, <1>2, <2>1 DEF Control, Audio
  <2>7. Handshake'
    BY <1>1, <1>2, <1>4, <2>1, <2>4 DEF Handshake, Pending
  <2>8. AfterEvent'
    BY <1>1, <2>1, <2>2 DEF BeforeEvent, AfterEvent, TypeOK
  <2>9. Script'
    BY <1>2, <2>8 DEF Script, Pending
  <2> QED
    BY <2>5, <2>6, <2>7, <2>9
<1> QED
  BY <1>3, <1>4

\* The write of the service thread is the configuration, the first event.
LEMMA ServiceWriteKeepsInv == ASSUME Inv, Write("ws") PROVE Inv'
<1> USE DEF Inv, Within, serverVars, logVars, flagVars, audioVars, speechVars,
            Write
<1>1. /\ sending["ws"] = "write" /\ event["ws"] = "configure"
      /\ ~ready /\ last = "nothing" /\ appended = 0
      /\ sending["speech"] = "no"
      /\ stage \in {"start", "waitReady", "returned"}
  <2>1. sending["ws"] = "write"
    OBVIOUS
  <2>2. ~ready /\ event["ws"] = "configure" /\ last = "nothing"
    BY <2>1 DEF Handshake, Pending
  <2>3. appended = 0
    BY <2>2 DEF Handshake
  <2>4. sending["speech"] = "no" /\ stage \in {"start", "waitReady", "returned"}
    BY <2>2 DEF Control, TypeOK, Stages
  <2> QED
    BY <2>1, <2>2, <2>3, <2>4
<1>2. sending'["ws"] = "unlock" /\ sending'["speech"] = "no"
  BY <1>1 DEF TypeOK
<1>3. CASE socket # "open"
  <2>1. TypeOK'
    BY <1>3 DEF TypeOK
  <2>2. Control' /\ Audio' /\ Script'
    BY <1>1, <1>2, <1>3 DEF Control, Audio, Script
  <2>3. Handshake'
    BY <1>1, <1>2, <1>3 DEF Handshake, Pending
  <2> QED
    BY <2>1, <2>2, <2>3
<1>4. CASE socket = "open"
  <2>1. /\ toServer' = Append(toServer, "configure") /\ last' = "configure"
        /\ appended' = 0
        /\ UNCHANGED <<stage, chunk, event, mutex, flagVars, audioVars,
                       serverVars, toClient, answered>>
    BY <1>1, <1>4
  <2>2. toServer' \in Seq(Events)
    <3>1. toServer \in Seq(Events) /\ "configure" \in Events
      BY DEF TypeOK
    <3>2. toServer' = Append(toServer, "configure")
      BY <2>1
    <3> QED
      BY <3>1, <3>2, PushQueue
  <2>3. TypeOK'
    BY <2>1, <2>2 DEF TypeOK
  <2>4. Control' /\ Audio'
    BY <1>1, <1>2, <2>1 DEF Control, Audio
  <2>5. Handshake'
    BY <1>1, <1>2, <1>4, <2>1 DEF Handshake, Pending
  <2>6. Script'
    BY <1>1, <1>2, <2>1 DEF Script, AfterEvent, Pending
  <2> QED
    BY <2>3, <2>4, <2>5, <2>6
<1> QED
  BY <1>3, <1>4

-----------------------------------------------------------------------------
(* The callbacks. Each one takes the head of the queue.                    *)

Popped(q, r) ==
    /\ \A m : In(m, r) => In(m, q)
    /\ \A m : In(m, q) /\ m # Head(q) => In(m, r)
    /\ In(Head(q), q)
    /\ FirstOnly(q) => FirstOnly(r) /\ ~In("established", r)
    /\ AfterCreated(q) => Head(q) \notin {"delta", "updated"}
    /\ AfterCreated(q) /\ Head(q) # "created" => AfterCreated(r)

LEMMA CallbackPops ==
  ASSUME TypeOK, NEW m, Callback(m)
  PROVE  /\ Popped(toClient, toClient') /\ Head(toClient) = m
         /\ toClient' \in Seq(Messages) /\ sending["ws"] = "no"
         /\ toClient # <<>>
         /\ UNCHANGED <<stage, chunk, mutex, socket, serving, deltas, toServer,
                        last, appended>>
<1>1. toClient \in Seq(Messages) /\ toClient # <<>> /\ toClient' = Tail(toClient)
  BY DEF TypeOK, Callback
<1>2. ~In("established", Tail(toClient)) => FirstOnly(Tail(toClient))
  BY <1>1, HeadTailProperties DEF In, FirstOnly
<1> QED
  BY <1>1, <1>2, PopQueue
  DEF Popped, Callback, speechVars, serverVars, logVars

LEMMA CallbacksKeepInv ==
  ASSUME Inv, \/ OnConnected \/ OnCreated \/ OnUpdated \/ OnDelta \/ OnDone
              \/ OnError \/ OnClose
  PROVE  Inv'
<1> USE DEF Inv, Enter, NoSend, flagVars, audioVars
<1>1. CASE OnConnected
  <2>1. Callback("established")
    BY <1>1 DEF OnConnected
  <2>2. Popped(toClient, toClient') /\ Head(toClient) = "established"
    BY <2>1, CallbackPops
  <2>3. last = "nothing" /\ ~ready
    BY <2>2 DEF Popped, Handshake
  <2>4. TypeOK'
    BY <1>1, <2>1, CallbackPops DEF OnConnected, TypeOK
  <2>5. Handshake'
    BY <1>1, <2>1, <2>2, <2>3, CallbackPops DEF OnConnected, Handshake, Popped, Pending, TypeOK
  <2>6. Control' /\ Script'
    BY <1>1, <2>1, <2>3, CallbackPops
    DEF OnConnected, Control, Script, BeforeEvent, AfterEvent, Pending, TypeOK
  <2>7. Audio'
    BY <1>1, <2>1, <2>2, CallbackPops DEF OnConnected, Audio, Popped
  <2> QED
    BY <2>4, <2>5, <2>6, <2>7
<1>2. CASE OnCreated
  <2>1. Callback("created")
    BY <1>2 DEF OnCreated
  <2>2. TypeOK'
    BY <1>2, <2>1, CallbackPops DEF OnCreated, TypeOK
  <2>3. Handshake'
    BY <1>2, <2>1, CallbackPops DEF OnCreated, Handshake, Popped
  <2>4. Control' /\ Script' /\ Audio'
    BY <1>2, <2>1, CallbackPops
    DEF OnCreated, Control, Script, BeforeEvent, AfterEvent, Audio
  <2> QED
    BY <2>2, <2>3, <2>4
<1>3. CASE OnUpdated
  <2>1. Callback("updated")
    BY <1>3 DEF OnUpdated
  <2>2. Popped(toClient, toClient') /\ Head(toClient) = "updated"
    BY <2>1, CallbackPops
  <2>3. last # "nothing" /\ player
    BY <2>2 DEF Popped, Handshake, Audio
  <2>4. TypeOK'
    BY <1>3, <2>1, CallbackPops DEF OnUpdated, TypeOK
  <2>5. Handshake'
    BY <1>3, <2>1, <2>2, <2>3, CallbackPops DEF OnUpdated, Handshake, Popped, Pending
  <2>6. Control' /\ Audio'
    BY <1>3, <2>1, <2>3, CallbackPops DEF OnUpdated, Control, Audio
  <2>7. Script'
    <3>1. ~ready => last \in {"configure"}
      BY <2>3 DEF Handshake
    <3> QED
      BY <1>3, <2>1, <3>1, CallbackPops
      DEF OnUpdated, Script, BeforeEvent, AfterEvent, Pending
  <2> QED
    BY <2>4, <2>5, <2>6, <2>7
<1>4. CASE OnDelta
  <2>1. Callback("delta")
    BY <1>4 DEF OnDelta
  <2>2. Popped(toClient, toClient') /\ Head(toClient) = "delta"
    BY <2>1, CallbackPops
  <2>3. player
    BY <2>2 DEF Popped, Audio
  <2>4. TypeOK'
    BY <1>4, <2>1, CallbackPops DEF OnDelta, TypeOK
  <2>5. Handshake'
    BY <1>4, <2>1, CallbackPops DEF OnDelta, Handshake, Popped
  <2>6. Control' /\ Script' /\ Audio'
    BY <1>4, <2>1, <2>3, CallbackPops
    DEF OnDelta, Control, Script, BeforeEvent, AfterEvent, Audio
  <2> QED
    BY <2>4, <2>5, <2>6
<1>5. CASE OnDone \/ OnError
  <2>1. PICK m \in {"greetDone", "requestDone", "error"} : Callback(m)
    BY <1>5 DEF OnDone, OnError, Done
  <2>2. /\ UNCHANGED <<ready, isConnected, wsi, player, queued, sending, event>>
        /\ talking' \in BOOLEAN /\ answered' \in {NoEvent, "greet", "request"}
    BY <1>5 DEF OnDone, OnError, TypeOK
  <2>3. TypeOK'
    BY <2>1, <2>2, CallbackPops DEF TypeOK
  <2>4. Handshake'
    BY <2>1, <2>2, CallbackPops DEF Handshake, Popped
  <2>5. Control' /\ Script'
    BY <2>1, <2>2, CallbackPops DEF Control, Script, BeforeEvent, AfterEvent
  <2>6. Audio'
    BY <2>1, <2>2, CallbackPops DEF Audio, Popped
  <2> QED
    BY <2>3, <2>4, <2>5, <2>6
<1>6. CASE OnClose
  <2>1. Callback("closed")
    BY <1>6 DEF OnClose
  <2>2. Popped(toClient, toClient') /\ socket = "closed"
    BY <2>1, CallbackPops DEF Popped, Handshake
  <2>3. TypeOK'
    <3>1. isConnected' \in BOOLEAN /\ wsi' \in BOOLEAN
      BY <1>6 DEF OnClose
    <3> QED
      BY <1>6, <2>1, <3>1, CallbackPops DEF OnClose, TypeOK
  <2>4. Handshake'
    BY <1>6, <2>1, <2>2, CallbackPops DEF OnClose, Handshake, Popped
  <2>5. Control' /\ Script'
    BY <1>6, <2>1, <2>2, CallbackPops DEF OnClose, Control, Script
  <2>6. Audio'
    BY <1>6, <2>1, <2>2, CallbackPops DEF OnClose, Audio, Popped
  <2> QED
    BY <2>3, <2>4, <2>5, <2>6
<1> QED
  BY <1>1, <1>2, <1>3, <1>4, <1>5, <1>6

-----------------------------------------------------------------------------
(* The server and the network. The client's own state stands still.        *)

Pushed(q, r, e) ==
    /\ \A m : In(m, r) <=> In(m, q) \/ m = e
    /\ FirstOnly(q) /\ e # "established" => FirstOnly(r)
    /\ AfterCreated(q) /\ (e \in {"delta", "updated"} => In("created", q))
       => AfterCreated(r)

LEMMA TellPushes ==
  ASSUME TypeOK, NEW e \in Messages, Tell(e)
  PROVE  Pushed(toClient, toClient', e) /\ toClient' \in Seq(Messages)
BY PushQueue DEF Tell, Pushed, TypeOK

LEMMA Welcome ==
  ASSUME NEW q, q = <<"established", "created">>
  PROVE  /\ q \in Seq(Messages) /\ FirstOnly(q) /\ AfterCreated(q)
         /\ In("established", q) /\ In("created", q)
         /\ ~In("closed", q) /\ ~In("updated", q)
<1>1. Len(q) = 2 /\ q[1] = "established" /\ q[2] = "created"
  OBVIOUS
<1>2. q \in Seq(Messages)
  BY DEF Messages
<1> QED
  BY <1>1, <1>2 DEF FirstOnly, AfterCreated, In

LEMMA AcceptKeepsInv == ASSUME Inv, Accept PROVE Inv'
<1> USE DEF Inv, Accept, Client, speechVars, sendVars, flagVars, audioVars, logVars
<1>1. toClient = <<>> /\ toServer = <<>> /\ last = "nothing" /\ sending["ws"] = "no"
  BY DEF Handshake
<1>2. toClient' = <<"established", "created">>
  BY <1>1
<1>3. /\ toClient' \in Seq(Messages) /\ FirstOnly(toClient') /\ AfterCreated(toClient')
      /\ In("established", toClient') /\ In("created", toClient')
      /\ ~In("closed", toClient') /\ ~In("updated", toClient')
  BY <1>2, Welcome
<1>4. TypeOK'
  BY <1>3 DEF TypeOK
<1>5. ~ready /\ sending["speech"] = "no"
  BY <1>1 DEF Handshake, Control
<1>6. stage \in {"start", "waitReady", "returned"}
  BY <1>5 DEF Control, TypeOK, Stages
<1>7. Control' /\ Audio'
  BY <1>3 DEF Control, Audio
<1>8. Handshake'
  BY <1>1, <1>3 DEF Handshake
<1>9. Script'
  BY <1>5, <1>6 DEF Script, AfterEvent, Pending
<1> QED
  BY <1>4, <1>7, <1>8, <1>9

LEMMA ReceiveKeepsInv == ASSUME Inv, ServerReceive PROVE Inv'
<1> USE DEF Inv, Client, speechVars, sendVars, flagVars, audioVars, logVars
<1> DEFINE e == Head(toServer)
<1>1. /\ toServer \in Seq(Events) /\ toServer # <<>> /\ toServer' = Tail(toServer)
      /\ socket = "open" /\ Client /\ UNCHANGED socket
  BY DEF ServerReceive, TypeOK
<1>2. /\ toServer' \in Seq(Events) /\ e \in Events /\ In(e, toServer)
      /\ \A m : In(m, toServer') => In(m, toServer)
  BY <1>1, PopQueue, HeadTailProperties
<1>3. serving' \in {NoEvent, "greet", "request"} /\ deltas' \in 0..MaxDeltas
  BY <1>2 DEF ServerReceive, TypeOK
<1>4. \/ UNCHANGED toClient
      \/ e = "configure" /\ Tell("updated")
      \/ Tell("error")
  BY <1>2 DEF ServerReceive
<1> HIDE DEF e
<1>5. CASE UNCHANGED toClient
  <2>1. TypeOK'
    BY <1>1, <1>2, <1>3, <1>5 DEF TypeOK
  <2>2. Handshake'
    BY <1>1, <1>2, <1>5 DEF Handshake
  <2>3. Control' /\ Audio' /\ Script'
    BY <1>1, <1>5 DEF Control, Audio, Script, BeforeEvent, AfterEvent
  <2> QED
    BY <2>1, <2>2, <2>3
<1>6. CASE e = "configure" /\ Tell("updated")
  <2>1. Pushed(toClient, toClient', "updated") /\ toClient' \in Seq(Messages)
    BY <1>6, TellPushes DEF Messages
  <2>2. last # "nothing"
    BY <1>2, <1>6 DEF Handshake
  <2>3. TypeOK'
    BY <1>1, <1>2, <1>3, <2>1 DEF TypeOK
  <2>4. Handshake'
    BY <1>1, <1>2, <2>1, <2>2 DEF Handshake, Pushed
  <2>5. Audio'
    BY <1>1, <2>1 DEF Audio, Pushed
  <2>6. Control' /\ Script'
    BY <1>1 DEF Control, Script, BeforeEvent, AfterEvent
  <2> QED
    BY <2>3, <2>4, <2>5, <2>6
<1>7. CASE Tell("error")
  <2>1. Pushed(toClient, toClient', "error") /\ toClient' \in Seq(Messages)
    BY <1>7, TellPushes DEF Messages
  <2>2. TypeOK'
    BY <1>1, <1>2, <1>3, <2>1 DEF TypeOK
  <2>3. Handshake'
    BY <1>1, <1>2, <2>1 DEF Handshake, Pushed
  <2>4. Audio'
    BY <1>1, <2>1 DEF Audio, Pushed
  <2>5. Control' /\ Script'
    BY <1>1 DEF Control, Script, BeforeEvent, AfterEvent
  <2> QED
    BY <2>2, <2>3, <2>4, <2>5
<1> QED
  BY <1>4, <1>5, <1>6, <1>7

LEMMA AnswerKeepsInv == ASSUME Inv, ServerSpeak \/ ServerDone PROVE Inv'
<1> USE DEF Inv, Client, speechVars, sendVars, flagVars, audioVars, logVars
<1>1. PICK m \in {"delta", "greetDone", "requestDone"} : Tell(m)
  BY DEF ServerSpeak, ServerDone, Done, TypeOK
<1>2. Pushed(toClient, toClient', m) /\ toClient' \in Seq(Messages)
  BY <1>1, TellPushes DEF Messages
<1>3. /\ socket = "open" /\ Client /\ UNCHANGED <<socket, toServer>>
      /\ serving' \in {NoEvent, "greet", "request"} /\ deltas' \in 0..MaxDeltas
  BY DEF ServerSpeak, ServerDone, TypeOK
<1>4. TypeOK'
  BY <1>2, <1>3 DEF TypeOK
<1>5. Handshake'
  BY <1>2, <1>3 DEF Handshake, Pushed
<1>6. Audio'
  BY <1>2, <1>3 DEF Audio, Pushed
<1>7. Control' /\ Script'
  BY <1>3 DEF Control, Script, BeforeEvent, AfterEvent
<1> QED
  BY <1>4, <1>5, <1>6, <1>7

LEMMA DisconnectKeepsInv == ASSUME Inv, Disconnect PROVE Inv'
<1> USE DEF Inv, Disconnect, Client, speechVars, sendVars, flagVars, audioVars, logVars
<1>1. Pushed(toClient, toClient', "closed") /\ toClient' \in Seq(Messages)
  BY TellPushes DEF Messages
<1>2. ~In("configure", toServer')
  BY DEF In
<1>3. TypeOK'
  BY <1>1 DEF TypeOK
<1>4. Handshake'
  BY <1>1, <1>2 DEF Handshake, Pushed
<1>5. Audio'
  BY <1>1 DEF Audio, Pushed
<1>6. Control' /\ Script'
  BY DEF Control, Script
<1> QED
  BY <1>3, <1>4, <1>5, <1>6

-----------------------------------------------------------------------------
LEMMA InvStep == Inv /\ [Next]_vars => Inv'
<1> SUFFICES ASSUME Inv, [Next]_vars PROVE Inv'
  OBVIOUS
<1>1. CASE UNCHANGED vars
  <2>1. UNCHANGED <<stage, chunk, sending, event, mutex, ready, talking,
                    isConnected, wsi, player, queued, socket, serving, deltas,
                    toServer, toClient, last, appended, answered>>
    BY <1>1 DEF vars, speechVars, sendVars, flagVars, audioVars, serverVars, logVars
  <2>2. TypeOK' /\ Control'
    BY <2>1 DEF Inv, TypeOK, Control
  <2>3. Handshake' /\ Audio'
    BY <2>1 DEF Inv, Handshake, Audio
  <2>4. Script'
    BY <2>1 DEF Inv, Script, BeforeEvent, AfterEvent
  <2> QED
    BY <2>2, <2>3, <2>4 DEF Inv
<1>2. CASE InitWebSocket \/ Speech \/ Service
  BY <1>2, SpeechKeepsInv, SendKeepsInv, SpeechWriteKeepsInv, ServiceWriteKeepsInv,
     CallbacksKeepInv DEF Speech, Service, SendEvent
<1>3. CASE Server \/ Disconnect
  BY <1>3, AcceptKeepsInv, ReceiveKeepsInv, AnswerKeepsInv, DisconnectKeepsInv
  DEF Server
<1> QED
  BY <1>1, <1>2, <1>3 DEF Next

LEMMA AlwaysInv == Spec => []Inv
BY InvInit, InvStep, PTL DEF Spec

\* Every variable keeps its type; no conversation puts more than Chunks
\* recordings on the wire.
THEOREM TypeCorrect == Spec => []TypeOK
BY AlwaysInv, PTL DEF Inv

\* The service thread and the speech thread are never inside sendEvent at the
\* same time.
THEOREM AlwaysSendersApart == Spec => []SendersApart
<1>1. Inv => SendersApart
  BY DEF Inv, Control, Handshake, SendersApart
<1> QED
  BY <1>1, AlwaysInv, PTL

\* No audio is queued before session.created started the playback thread.
THEOREM AudioAlwaysHasPlayer == Spec => []AudioHasPlayer
<1>1. Inv => AudioHasPlayer
  BY DEF Inv, Audio, AudioHasPlayer
<1> QED
  BY <1>1, AlwaysInv, PTL

-----------------------------------------------------------------------------
(* The refinement. Only a write to an open socket is seen on the wire.     *)

LEMMA WriteFollowsDialogue ==
  ASSUME Inv, NEW t \in Threads, Write(t)
  PROVE  [FollowsDialogue!DialogueNext]_FollowsDialogue!dialogueVars
<1> USE DEF FollowsDialogue!DialogueNext, FollowsDialogue!dialogueVars,
            FollowsDialogue!Say, FollowsDialogue!Configure,
            FollowsDialogue!Greet, FollowsDialogue!Record,
            FollowsDialogue!Commit, FollowsDialogue!Ask
<1>1. CASE socket # "open"
  BY <1>1 DEF Write, logVars
<1>2. CASE socket = "open" /\ t = "ws"
  <2>1. last = "nothing" /\ event["ws"] = "configure"
    BY <1>2 DEF Inv, Handshake, Write, Within, Pending
  <2>2. last' = "configure" /\ appended' = appended
    BY <1>2, <2>1 DEF Write
  <2> QED
    BY <2>1, <2>2
<1>3. CASE socket = "open" /\ t = "speech"
  <2>1. BeforeEvent /\ event["speech"] = stage
        /\ stage \in {"greet", "append", "commit", "request"}
    BY <1>3 DEF Inv, Script, Control, Write, Within, Pending
  <2>2. /\ last' = stage
        /\ appended' = CASE stage = "greet" -> 0
                         [] stage = "append" -> appended + 1
                         [] OTHER -> appended
    BY <1>3, <2>1 DEF Write
  <2>3. stage = "append" => chunk < Chunks
    BY DEF Inv, Control
  <2> QED
    BY <2>1, <2>2, <2>3 DEF BeforeEvent
<1> QED
  BY <1>1, <1>2, <1>3

\* The events on the wire always follow the script of Dialogue.
THEOREM AlwaysFollowsDialogue == Spec => ImplementsDialogue
<1>1. Init => FollowsDialogue!DialogueInit
  BY DEF Init, FollowsDialogue!DialogueInit
<1>2. ASSUME Inv, [Next]_vars
      PROVE  [FollowsDialogue!DialogueNext]_FollowsDialogue!dialogueVars
  <2>1. CASE \E t \in Threads : Write(t)
    BY <1>2, <2>1, WriteFollowsDialogue
  <2>2. CASE UNCHANGED <<last, appended>>
    BY <2>2 DEF FollowsDialogue!dialogueVars
  <2>3. ASSUME NEW t \in Threads, CheckSocket(t) \/ LockWrite(t) \/ UnlockWrite(t)
        PROVE  UNCHANGED <<last, appended>>
    BY <2>3 DEF CheckSocket, LockWrite, UnlockWrite, logVars
  <2>4. CASE InitWebSocket \/ Speech
    BY <2>1, <2>2, <2>3, <2>4
    DEF Speech, SendEvent, InitWebSocket, WaitReady, Nod, RecordChunk, NextChunk,
        StopRecording, PlaybackRecorded, Request, SetTalking, WaitDone, Pause,
        Idle, logVars
  <2>5. CASE Service
    BY <2>1, <2>2, <2>3, <2>5
    DEF Service, SendEvent, OnConnected, OnCreated, OnUpdated, OnDelta, OnDone,
        OnError, OnClose, Callback, logVars
  <2>6. CASE Server \/ Disconnect \/ UNCHANGED vars
    BY <2>2, <2>6
    DEF Server, Accept, ServerReceive, ServerSpeak, ServerDone, Disconnect,
        Client, logVars, vars
  <2> QED
    BY <1>2, <2>4, <2>5, <2>6 DEF Next
<1> QED
  BY <1>1, <1>2, AlwaysInv, PTL
  DEF Spec, ImplementsDialogue, FollowsDialogue!DialogueSpec

-----------------------------------------------------------------------------
(* With a slow server whose connections stay open, the answer that ends    *)
(* the wait is the answer to the conversation's own request.               *)

Patient == SlowServer /\ "close" \notin Faults

\* A connection was refused before anything went over it.
Refused == socket = "closed" => last = "nothing"

\* The greeting was answered and heard before the recording was committed; the
\* request is answered only once the client waits for it.
Listened ==
    stage \in {"commit", "request", "waitDone"} =>
        serving # "greet" /\ ~In("greet", toServer) /\ ~In("greetDone", toClient)
Unanswered ==
    /\ stage = "commit" => serving = NoEvent /\ ~In("request", toServer)
    /\ stage \in {"commit", "request"} => ~In("requestDone", toClient)
Awaited == stage = "waitDone" => talking \/ answered = "request"

Ends == Refused /\ Listened /\ Unanswered /\ Awaited

LEMMA EmptyHoldsNothing == \A m : ~In(m, <<>>)
BY DEF In

LEMMA SpeechKeepsEnds ==
  ASSUME Patient, Inv, Ends,
         \/ InitWebSocket \/ WaitReady \/ Nod \/ RecordChunk \/ NextChunk
         \/ StopRecording \/ PlaybackRecorded \/ Request \/ SetTalking
         \/ WaitDone \/ Pause
  PROVE  Ends'
<1> USE DEF Ends, Refused, Listened, Unanswered, Awaited, At, Idle, serverVars, logVars,
            flagVars, audioVars
<1>1. CASE InitWebSocket
  BY <1>1 DEF InitWebSocket
<1>2. CASE \/ WaitReady \/ Nod \/ RecordChunk \/ NextChunk \/ StopRecording
           \/ WaitDone \/ Pause
  BY <1>2 DEF WaitReady, Nod, RecordChunk, NextChunk, StopRecording, WaitDone, Pause
<1>3. CASE PlaybackRecorded
  <2>1. stage = "playback" /\ stage' = "commit"
        /\ UNCHANGED <<toServer, toClient, socket, serving, talking, answered, last>>
    BY <1>3 DEF PlaybackRecorded
  <2>2. socket = "open"
    BY <2>1 DEF Inv, Control, Handshake, TypeOK
  <2>3. Quiet
    BY <1>3, <2>2 DEF PlaybackRecorded, Patient
  <2> QED
    BY <2>1, <2>3, EmptyHoldsNothing DEF Quiet
<1>4. CASE Request
  BY <1>4 DEF Request
<1>5. CASE SetTalking
  BY <1>5 DEF SetTalking
<1> QED
  BY <1>1, <1>2, <1>3, <1>4, <1>5

\* What a thread sends while the speech thread is past the recording is the
\* event of its place in the script.
LEMMA SendKeepsEnds ==
  ASSUME Inv, Ends, NEW t \in Threads, SendEvent(t) PROVE Ends'
<1> USE DEF Ends, Refused, Listened, Unanswered, Awaited, Within, serverVars, logVars, flagVars,
            audioVars, speechVars
<1>1. CASE CheckSocket(t) \/ LockWrite(t) \/ UnlockWrite(t)
  BY <1>1 DEF CheckSocket, LockWrite, UnlockWrite
<1>2. CASE Write(t) /\ UNCHANGED toServer
  BY <1>2 DEF Write
<1>3. CASE Write(t) /\ toServer' = Append(toServer, event[t])
  <2>1. toServer \in Seq(Events) /\ event[t] \in Events
    BY <1>3 DEF Inv, TypeOK, Control, Handshake, Write
  <2>2. \A m : In(m, toServer') <=> In(m, toServer) \/ m = event[t]
    BY <1>3, <2>1, PushQueue
  <2>3. stage \in {"commit", "request", "waitDone"} => event[t] = stage
    BY <1>3 DEF Inv, Control, Handshake, Write
  <2> QED
    BY <1>3, <2>2, <2>3 DEF Write
<1> QED
  BY <1>1, <1>2, <1>3 DEF SendEvent, Write

LEMMA CallbacksKeepEnds ==
  ASSUME Inv, Ends, \/ OnConnected \/ OnCreated \/ OnUpdated \/ OnDelta \/ OnDone
                    \/ OnError \/ OnClose
  PROVE  Ends'
<1> USE DEF Ends, Refused, Listened, Unanswered, Awaited, flagVars
<1>1. PICK m : Callback(m)
  BY DEF OnConnected, OnCreated, OnUpdated, OnDelta, OnDone, OnError, OnClose
<1>2. /\ \A n : In(n, toClient') => In(n, toClient)
      /\ In(Head(toClient), toClient)
      /\ UNCHANGED <<stage, socket, serving, toServer, last>>
  BY <1>1, CallbackPops DEF Inv, Popped
<1>3. CASE OnDone
  <2>1. PICK e \in {"greet", "request"} :
          Callback(Done[e]) /\ talking' = FALSE /\ answered' = e
    BY <1>3 DEF OnDone
  <2>2. In(Done[e], toClient)
    BY <1>2, <2>1 DEF Callback
  <2>3. stage = "waitDone" => e = "request"
    BY <2>1, <2>2 DEF Done
  <2> QED
    BY <1>2, <2>1, <2>3
<1>4. CASE OnConnected \/ OnCreated \/ OnUpdated \/ OnDelta \/ OnError \/ OnClose
  BY <1>2, <1>4 DEF OnConnected, OnCreated, OnUpdated, OnDelta, OnError, OnClose
<1> QED
  BY <1>3, <1>4

LEMMA ServerKeepsEnds ==
  ASSUME Patient, Inv, Ends, Server \/ Disconnect PROVE Ends'
<1> USE DEF Patient, Ends, Refused, Listened, Unanswered, Awaited, Client, speechVars,
            sendVars, flagVars, logVars
<1>1. CASE Accept
  <2>1. stage \notin {"commit", "request", "waitDone"}
    BY <1>1 DEF Accept, Inv, Control, Handshake
  <2> QED
    BY <1>1, <2>1 DEF Accept
<1>2. CASE ServerReceive
  <2> DEFINE e == Head(toServer)
  <2>1. toServer \in Seq(Events) /\ toServer # <<>> /\ toServer' = Tail(toServer)
        /\ UNCHANGED <<stage, socket, talking, answered, last>>
    BY <1>2 DEF ServerReceive, Inv, TypeOK, logVars
  <2>2. In(e, toServer) /\ \A m : In(m, toServer') => In(m, toServer)
    BY <2>1, PopQueue
  <2>3. serving' = serving \/ (e \in {"greet", "request"} /\ serving' = e)
    BY <1>2 DEF ServerReceive
  <2>4. UNCHANGED toClient \/ Tell("updated") \/ Tell("error")
    BY <1>2 DEF ServerReceive
  <2> HIDE DEF e
  <2>5. /\ In("greetDone", toClient') => In("greetDone", toClient)
        /\ In("requestDone", toClient') => In("requestDone", toClient)
    BY <2>4, TellPushes DEF Inv, Pushed, Messages
  <2> QED
    BY <2>1, <2>2, <2>3, <2>5
<1>3. CASE ServerSpeak
  <2>1. Pushed(toClient, toClient', "delta")
    BY <1>3, TellPushes DEF ServerSpeak, Inv, Messages
  <2> QED
    BY <1>3, <2>1 DEF ServerSpeak, Pushed
<1>4. CASE ServerDone
  <2>1. serving \in {"greet", "request"} /\ Done[serving] \in Messages
    BY <1>4 DEF ServerDone, Inv, TypeOK, Done, Messages
  <2>2. Pushed(toClient, toClient', Done[serving])
    BY <1>4, <2>1, TellPushes DEF ServerDone, Inv
  <2>3. /\ serving' = NoEvent /\ UNCHANGED <<stage, socket, toServer, talking, answered, last>>
        /\ serving = "request" => stage # "request"
    BY <1>4 DEF ServerDone
  <2> QED
    BY <2>1, <2>2, <2>3 DEF Pushed, Done
<1>5. CASE Disconnect
  <2>1. socket = "connecting" /\ socket' = "closed" /\ Tell("closed")
        /\ toServer' = <<>> /\ serving' = NoEvent
        /\ UNCHANGED <<stage, talking, answered, last>>
    BY <1>5 DEF Disconnect, logVars
  <2>2. last = "nothing" /\ stage \notin {"commit", "request", "waitDone"}
    BY <2>1 DEF Inv, Control, Handshake
  <2> QED
    BY <2>1, <2>2
<1> QED
  BY <1>1, <1>2, <1>3, <1>4, <1>5 DEF Server

LEMMA EndsStep == ASSUME Patient, Inv, Ends, [Next]_vars PROVE Ends'
<1>1. CASE UNCHANGED vars
  <2>1. UNCHANGED <<stage, socket, serving, toServer, toClient, talking, answered, last>>
    BY <1>1 DEF vars, speechVars, flagVars, serverVars, logVars
  <2> QED
    BY <2>1 DEF Ends, Refused, Listened, Unanswered, Awaited
<1> QED
  BY <1>1, SpeechKeepsEnds, SendKeepsEnds, CallbacksKeepEnds, ServerKeepsEnds
  DEF Next, Speech, Service

\* On a network that may refuse a connection but closes none, and with a server
\* slower than the client's own steps, only the answer to its request ends a conversation's
\* wait; a fast server does not wait for talking to be set.
THEOREM AlwaysEndsOnItsAnswer == ASSUME Patient PROVE Spec => EndsOnItsAnswer
<1>1. Init => Ends
  BY DEF Init, Ends, Refused, Listened, Unanswered, Awaited
<1>2. ASSUME Inv, Ends, [Next]_vars PROVE Ends'
  BY <1>2, EndsStep
<1>3. ASSUME Ends, [Next]_vars, stage = "waitDone", stage' = "pause"
      PROVE  answered = "request"
  <2>1. CASE InitWebSocket \/ Speech
    BY <1>3, <2>1
    DEF Ends, Awaited, Speech, SendEvent, CheckSocket, LockWrite, Write, UnlockWrite,
        InitWebSocket, WaitReady, Nod, RecordChunk, NextChunk, StopRecording,
        PlaybackRecorded, Request, SetTalking, WaitDone, Pause, At, speechVars
  <2>2. CASE Service
    BY <1>3, <2>2
    DEF Service, SendEvent, CheckSocket, LockWrite, Write, UnlockWrite, OnConnected,
        OnCreated, OnUpdated, OnDelta, OnDone, OnError, OnClose, Callback, speechVars
  <2>3. CASE Server \/ Disconnect \/ UNCHANGED vars
    BY <1>3, <2>3
    DEF Server, Accept, ServerReceive, ServerSpeak, ServerDone, Disconnect, Client,
        speechVars, vars
  <2> QED
    BY <1>3, <2>1, <2>2, <2>3 DEF Next
<1> QED
  BY <1>1, <1>2, <1>3, AlwaysInv, PTL DEF Spec, EndsOnItsAnswer

-----------------------------------------------------------------------------
(* Under the same conditions no wake-up is lost: talking is set after the  *)
(* request was sent, yet never after its answer.                           *)

AnswerComing ==
    In("request", toServer) \/ serving = "request" \/ In("requestDone", toClient)

\* The same from the moment the request is on the wire.
Requested ==
    last = "request" /\ (stage = "request" \/ (stage = "waitDone" /\ talking))
        => AnswerComing

\* Whoever waits for talking to be cleared waits for something that will come.
AwaitsAnswer == stage = "waitDone" /\ talking => AnswerComing

LEMMA SpeechKeepsRequested ==
  ASSUME Inv, Ends, Requested,
         \/ InitWebSocket \/ WaitReady \/ Nod \/ RecordChunk \/ NextChunk
         \/ StopRecording \/ PlaybackRecorded \/ Request \/ SetTalking
         \/ WaitDone \/ Pause
  PROVE  Requested'
<1> USE DEF Requested, AnswerComing, At, Idle, serverVars, logVars, flagVars, audioVars
<1>1. CASE Request
  <2>1. stage = "commit" /\ sending["speech"] = "no" /\ UNCHANGED last
    BY <1>1 DEF Request
  <2>2. socket = "open"
    BY <2>1 DEF Inv, Control, Handshake, TypeOK, Ends, Refused
  <2>3. last = "commit"
    BY <2>1, <2>2 DEF Inv, Script, AfterEvent, Pending
  <2> QED
    BY <2>1, <2>3
<1>2. CASE SetTalking
  BY <1>2 DEF SetTalking
<1>3. CASE \/ InitWebSocket \/ WaitReady \/ Nod \/ RecordChunk \/ NextChunk
           \/ StopRecording \/ PlaybackRecorded \/ WaitDone \/ Pause
  BY <1>3 DEF InitWebSocket, WaitReady, Nod, RecordChunk, NextChunk, StopRecording,
              PlaybackRecorded, WaitDone, Pause
<1> QED
  BY <1>1, <1>2, <1>3

LEMMA SendKeepsRequested ==
  ASSUME Inv, Requested, NEW t \in Threads, SendEvent(t) PROVE Requested'
<1> USE DEF Requested, AnswerComing, Within, serverVars, logVars, flagVars, audioVars,
            speechVars
<1>1. CASE CheckSocket(t) \/ LockWrite(t) \/ UnlockWrite(t)
  BY <1>1 DEF CheckSocket, LockWrite, UnlockWrite
<1>2. CASE Write(t) /\ socket # "open"
  BY <1>2 DEF Write
<1>3. CASE Write(t) /\ socket = "open"
  <2>1. toServer \in Seq(Events) /\ event[t] \in Events
        /\ toServer' = Append(toServer, event[t]) /\ last' = event[t]
    BY <1>3 DEF Inv, TypeOK, Control, Handshake, Write
  <2>2. In(event[t], toServer')
    BY <2>1, PushQueue
  <2> QED
    BY <2>1, <2>2
<1> QED
  BY <1>1, <1>2, <1>3 DEF SendEvent

LEMMA CallbacksKeepRequested ==
  ASSUME Inv, Ends, Requested,
         OnConnected \/ OnCreated \/ OnUpdated \/ OnDelta \/ OnDone \/ OnError \/ OnClose
  PROVE  Requested'
<1> USE DEF Requested, AnswerComing
<1>1. PICK m : Callback(m)
  BY DEF OnConnected, OnCreated, OnUpdated, OnDelta, OnDone, OnError, OnClose
<1>2. /\ \A n : In(n, toClient) /\ n # Head(toClient) => In(n, toClient')
      /\ UNCHANGED <<stage, serving, toServer, last>>
  BY <1>1, CallbackPops DEF Inv, Popped
<1>3. CASE OnDone
  <2>1. ~talking'
    BY <1>3 DEF OnDone
  <2>2. stage = "request" => ~In("requestDone", toClient)
    BY DEF Ends, Unanswered
  <2> QED
    BY <1>2, <2>1, <2>2
<1>4. CASE OnConnected \/ OnCreated \/ OnUpdated \/ OnDelta \/ OnError \/ OnClose
  <2>1. UNCHANGED talking /\ Head(toClient) # "requestDone"
    BY <1>4 DEF OnConnected, OnCreated, OnUpdated, OnDelta, OnError, OnClose, Callback,
                flagVars
  <2> QED
    BY <1>2, <2>1
<1> QED
  BY <1>3, <1>4

LEMMA ServerKeepsRequested ==
  ASSUME Patient, Inv, Ends, Requested, Server \/ Disconnect PROVE Requested'
<1> USE DEF Requested, AnswerComing, Client, speechVars, sendVars, flagVars, logVars
<1>1. CASE Accept \/ Disconnect
  <2>1. last = "nothing" /\ UNCHANGED last
    BY <1>1 DEF Accept, Disconnect, Patient, Inv, Handshake
  <2> QED
    BY <2>1
<1>2. CASE ServerReceive
  <2> DEFINE e == Head(toServer)
  <2>1. toServer \in Seq(Events) /\ toServer # <<>> /\ toServer' = Tail(toServer)
        /\ UNCHANGED <<stage, talking, last>>
    BY <1>2 DEF ServerReceive, Inv, TypeOK
  <2>2. \A m : In(m, toServer) /\ m # e => In(m, toServer')
    BY <2>1, PopQueue
  <2>3. \/ UNCHANGED serving /\ (e = "request" => serving # NoEvent)
        \/ serving = NoEvent /\ serving' = e /\ e \in {"greet", "request"}
    BY <1>2 DEF ServerReceive
  <2>4. UNCHANGED toClient \/ Tell("updated") \/ Tell("error")
    BY <1>2 DEF ServerReceive
  <2>5. In("requestDone", toClient) => In("requestDone", toClient')
    BY <2>4, TellPushes DEF Inv, Pushed, Messages
  <2>6. stage \in {"request", "waitDone"} => serving \in {NoEvent, "request"}
    BY DEF Ends, Listened, Inv, TypeOK
  <2> HIDE DEF e
  <2> QED
    BY <2>1, <2>2, <2>3, <2>5, <2>6
<1>3. CASE ServerSpeak
  <2>1. Pushed(toClient, toClient', "delta")
    BY <1>3, TellPushes DEF ServerSpeak, Inv, Messages
  <2> QED
    BY <1>3, <2>1 DEF ServerSpeak, Pushed
<1>4. CASE ServerDone
  <2>1. serving \in {"greet", "request"} /\ Done[serving] \in Messages
    BY <1>4 DEF ServerDone, Inv, TypeOK, Done, Messages
  <2>2. Pushed(toClient, toClient', Done[serving])
        /\ UNCHANGED <<stage, talking, last, toServer>>
    BY <1>4, <2>1, TellPushes DEF ServerDone, Inv
  <2> QED
    BY <2>1, <2>2 DEF Pushed, Done
<1> QED
  BY <1>1, <1>2, <1>3, <1>4 DEF Server

\* With a slow server whose connections stay open, a conversation that waits
\* for talking to be cleared (speak.cpp, "Sleep until OpenAI is done") waits for
\* an answer that is under way: its end is never overwritten by talking = true.
THEOREM AlwaysAwaitsAnswer == ASSUME Patient PROVE Spec => []AwaitsAnswer
<1>1. Init => Ends /\ Requested
  BY DEF Init, Ends, Refused, Listened, Unanswered, Awaited, Requested
<1>2. ASSUME Inv, Ends, [Next]_vars PROVE Ends'
  BY <1>2, EndsStep
<1>3. ASSUME Inv, Ends, Requested, [Next]_vars PROVE Requested'
  <2>1. CASE UNCHANGED vars
    BY <1>3, <2>1
    DEF vars, speechVars, flagVars, serverVars, logVars, Requested, AnswerComing
  <2> QED
    BY <1>3, <2>1, SpeechKeepsRequested, SendKeepsRequested, CallbacksKeepRequested,
       ServerKeepsRequested DEF Next, Speech, Service
<1>4. Inv /\ Ends /\ Requested => AwaitsAnswer
  <2> SUFFICES ASSUME Inv, Ends, Requested, stage = "waitDone", talking
               PROVE  AnswerComing
    BY DEF AwaitsAnswer
  <2>1. socket = "open" /\ sending["speech"] = "no"
    BY DEF Inv, Control, Handshake, TypeOK, Ends, Refused
  <2>2. last = "request"
    BY <2>1 DEF Inv, Script, AfterEvent, Pending
  <2> QED
    BY <2>2 DEF Requested
<1> QED
  BY <1>1, <1>2, <1>3, <1>4, AlwaysInv, PTL DEF Spec

=============================================================================
