--------------------------- MODULE PyVoice_proofs ---------------------------
(***************************************************************************)
(* Proofs about PyVoice and its PyPlayback, for any number of chunks,      *)
(* playing threads and connections, and both programs.                     *)
(***************************************************************************)
EXTENDS PyVoice, SequenceTheorems, FiniteSetTheorems, TLAPS

USE DEF Nobody, NoConnection, Created

\* talk.py has one connection, which carries audio only.
TalkConnection ==
    program = "talk" => ws \in Connections /\ inbox \in [Connections -> Seq(Chunk)]

\* The microphone is on only between its opening and the finally.
MicInUse == mic = "on" => main = "record"

\* A thread has chunks in hand when it is about to play and none before it
\* runs; in talk.py whoever plays has been given the device.
Hands ==
    /\ \A p \in Players :
         /\ player[p] \in {"none", "starting"} => batch[p] = <<>>
         /\ player[p] \in {"begin", "play"} => batch[p] # <<>>
    /\ program = "talk" =>
         /\ device = Nobody \/ device \in Started
         /\ \A p \in Players : player[p] = "play" => device # Nobody

\* speak.py raises its flag before the thread exists, and never lowers it.
FlagBeforeThread ==
    program = "speak" =>
      /\ Started # {} => running
      /\ \A p, q \in Started : p = q

Inv == /\ TypeOK /\ ConnectionUsedOnce /\ TalkConnection /\ MicInUse /\ Hands
       /\ FlagBeforeThread

-----------------------------------------------------------------------------
(* Types.                                                                  *)

LEMMA PlaybackStepTypes ==
    ASSUME PlaybackTypeOK, Hands, NEW p \in Players, PlayerStep(p) \/ PlayFails(p)
    PROVE  PlaybackTypeOK'
<1> USE DEF PlaybackTypeOK, Goes
<1>1. CASE RaiseFlag(p)
  <2>1. running' \in BOOLEAN
    BY <1>1 DEF RaiseFlag
  <2> QED  BY <1>1, <2>1 DEF RaiseFlag
<1>2. CASE Take(p)
  <2>1. Head(queue) \in Chunk /\ queue' \in Seq(Chunk)
    BY <1>2, HeadTailProperties DEF Take
  <2>2. batch' \in [Players -> Seq(Chunk)]
    <3>1. Append(batch[p], Head(queue)) \in Seq(Chunk)
      BY <2>1, AppendProperties
    <3> QED  BY <1>2, <3>1 DEF Take
  <2>3. player' \in [Players -> {"none", "starting", "get", "begin", "play", "dead"}]
    BY <1>2 DEF Take
  <2> QED  BY <1>2, <2>1, <2>2, <2>3 DEF Take
<1>3. CASE GiveUp(p)
  BY <1>3 DEF GiveUp
<1>4. CASE BeginPlay(p)
  BY <1>4 DEF BeginPlay
<1>5. CASE PlayOn(p)
  <2>1. batch[p] \in Seq(Chunk) /\ batch[p] # <<>>
    BY <1>5 DEF PlayOn, Hands
  <2>2. Head(batch[p]) \in Chunk /\ Tail(batch[p]) \in Seq(Chunk)
    BY <2>1, HeadTailProperties
  <2>3. heard' \in Seq(Chunk) /\ batch' \in [Players -> Seq(Chunk)]
    BY <1>5, <2>2, AppendProperties DEF PlayOn
  <2>4. player' \in [Players -> {"none", "starting", "get", "begin", "play", "dead"}]
    BY <1>5 DEF PlayOn
  <2> QED  BY <1>5, <2>3, <2>4 DEF PlayOn
<1>6. CASE PlayFails(p)
  BY <1>6 DEF PlayFails
<1> QED  BY <1>1, <1>2, <1>3, <1>4, <1>5, <1>6 DEF PlayerStep

\* Whoever asks for a player, at most one thread is started by it.
LEMMA EnsurePlayerStarts ==
    ASSUME PlaybackTypeOK, EnsurePlayer
    PROVE  /\ player' \in [Players -> {"none", "starting", "get", "begin", "play", "dead"}]
           /\ running' \in BOOLEAN
           /\ \/ UNCHANGED <<running, player>>
              \/ /\ ~running
                 /\ \E p \in Players :
                      /\ player[p] = "none"
                      /\ \/ program = "speak" /\ player'[p] = "get" /\ running' = TRUE
                         \/ program # "speak" /\ player'[p] = "starting" /\ UNCHANGED running
                      /\ \A q \in Players \ {p} : player'[q] = player[q]
<1>1. CASE running
  BY <1>1 DEF EnsurePlayer, PlaybackTypeOK
<1>2. CASE ~running
  <2>1. PICK p \in Players : StartThread(p)
    BY <1>2 DEF EnsurePlayer
  <2>2. CASE program = "speak"
    BY <1>2, <2>1, <2>2 DEF StartThread, PlaybackTypeOK
  <2>3. CASE program # "speak"
    BY <1>2, <2>1, <2>3 DEF StartThread, PlaybackTypeOK
  <2> QED  BY <2>2, <2>3
<1> QED  BY <1>1, <1>2

LEMMA InvInit == Init => Inv
<1> SUFFICES ASSUME Init PROVE Inv
  OBVIOUS
<1> USE DEF Init, PlaybackInit
<1>1. 1 \in Connections
  BY ConnectionsAssumption DEF Connections
<1>2. PlaybackTypeOK
  <2>1. running \in BOOLEAN
    OBVIOUS
  <2>2. /\ queue \in Seq(Chunk) /\ heard \in Seq(Chunk)
        /\ batch \in [Players -> Seq(Chunk)]
    OBVIOUS
  <2> QED  BY <2>1, <2>2 DEF PlaybackTypeOK
<1>3. TypeOK
  <2>1. open \in [Connections -> BOOLEAN]
    OBVIOUS
  <2>2. sent \in 0..MaxChunks
    BY BoundsAssumption
  <2>3. inbox \in [Connections -> Seq(Chunk \cup {Created})]
    OBVIOUS
  <2> QED  BY <1>1, <1>2, <2>1, <2>2, <2>3 DEF TypeOK
<1>4. ConnectionUsedOnce /\ MicInUse
  BY DEF ConnectionUsedOnce, MicInUse
<1>5. TalkConnection
  BY <1>1 DEF TalkConnection
<1>6. Started = {}
  BY DEF Started
<1>7. Hands /\ FlagBeforeThread
  BY <1>6 DEF Hands, FlagBeforeThread
<1> QED  BY <1>3, <1>4, <1>5, <1>7 DEF Inv

-----------------------------------------------------------------------------
(* speak.py                                                                *)

LEMMA ConverseKeepsInv == ASSUME Inv, Converse PROVE Inv'
<1>1. PlaybackTypeOK' /\ Hands' /\ FlagBeforeThread'
  BY DEF Inv, TypeOK, Converse, playbackVars, PlaybackTypeOK, Hands, FlagBeforeThread,
         Started
<1>2. TalkConnection' /\ program' = "speak" /\ program = "speak"
  BY DEF Converse, playbackVars, TalkConnection
<1>3. /\ main \in Conversing \cup {"listen", "connect", "sleep"}
      /\ ws \in Connections \cup {NoConnection}
      /\ used \subseteq Connections \cup {NoConnection}
      /\ mic \in {"off", "on", "stuck"}
      /\ open \in [Connections -> BOOLEAN]
      /\ reader \in [Connections -> {"none", "running", "done"}]
      /\ inbox \in [Connections -> Seq(Chunk \cup {Created})]
      /\ sent \in 0..MaxChunks
  BY <1>2 DEF Inv, TypeOK
<1>4. ConnectionUsedOnce /\ MicInUse
  BY DEF Inv
<1> DEFINE Good ==
      /\ main' \in Conversing \cup {"listen", "connect", "sleep"}
      /\ ws' \in Connections \cup {NoConnection}
      /\ used' \subseteq Connections \cup {NoConnection}
      /\ mic' \in {"off", "on", "stuck"}
      /\ open' \in [Connections -> BOOLEAN]
      /\ reader' \in [Connections -> {"none", "running", "done"}]
      /\ inbox' \in [Connections -> Seq(Chunk \cup {Created})]
      /\ sent' \in 0..MaxChunks
      /\ ConnectionUsedOnce' /\ MicInUse'
<1> SUFFICES Good
  <2>1. ASSUME Good PROVE TypeOK'
    BY <1>1, <1>2, <2>1 DEF TypeOK
  <2> QED  BY <1>1, <1>2, <2>1 DEF Inv
<1> USE <1>3, <1>4 DEF At, Raise, Sends, netVars, ConnectionUsedOnce, MicInUse, Conversing
<1>5. CASE StartListening
  BY <1>5 DEF StartListening
<1>6. ASSUME NEW k \in Connections, Connect(k) PROVE Good
  <2>1. CASE Raise("connect") /\ UNCHANGED netVars
    BY <2>1
  <2>2. CASE /\ At("connect", "configure") /\ Free(k)
             /\ ws' = k /\ used' = used \ {k}
             /\ open' = [open EXCEPT ![k] = TRUE]
             /\ reader' = [reader EXCEPT ![k] = "none"]
             /\ inbox' = [inbox EXCEPT ![k] = <<Created>>]
             /\ UNCHANGED <<mic, sent>>
    <3>1. open' \in [Connections -> BOOLEAN]
      BY <2>2
    <3>2. <<Created>> \in Seq(Chunk \cup {Created})
      OBVIOUS
    <3>3. inbox' \in [Connections -> Seq(Chunk \cup {Created})]
      BY <2>2, <3>2
    <3> QED  BY <2>2, <3>1, <3>3
  <2> QED  BY <1>6, <2>1, <2>2 DEF Connect
<1>7. CASE Configure
  <2>1. reader' \in [Connections -> {"none", "running", "done"}]
    BY <1>7 DEF Configure
  <2>2. \/ At("configure", "start") /\ UNCHANGED <<ws, used, mic>>
        \/ Raise("configure")
    BY <1>7 DEF Configure
  <2>3. UNCHANGED <<open, inbox, sent>>
    BY <1>7 DEF Configure
  <2> QED  BY <2>1, <2>2, <2>3
<1>8. CASE StartRecording
  BY <1>8 DEF StartRecording
<1>9. CASE StopRecording
  BY <1>9 DEF StopRecording
<1>10. CASE Commit
  BY <1>10 DEF Commit
<1>11. CASE AskForResponse
  BY <1>11 DEF AskForResponse
<1>12. CASE SleepOver
  BY <1>12 DEF SleepOver
<1> HIDE <1>3, <1>4 DEF At, Raise, Sends, netVars, ConnectionUsedOnce, MicInUse, Conversing, Good
<1> QED
  BY <1>5, <1>6, <1>7, <1>8, <1>9, <1>10, <1>11, <1>12 DEF Converse

-----------------------------------------------------------------------------
(* The readers, and talk.py.                                               *)

\* Starting a player disturbs nothing that is said of the players.
LEMMA EnsurePlayerKeeps ==
    ASSUME PlaybackTypeOK, Hands, FlagBeforeThread, EnsurePlayer,
           UNCHANGED <<program, batch, device>>
    PROVE  Hands' /\ FlagBeforeThread'
<1>1. CASE UNCHANGED <<running, player>>
  BY <1>1 DEF Hands, FlagBeforeThread, Started
<1>2. ASSUME NEW p \in Players, ~running, player[p] = "none",
             \/ program = "speak" /\ player'[p] = "get" /\ running' = TRUE
             \/ program # "speak" /\ player'[p] = "starting" /\ UNCHANGED running,
             \A q \in Players \ {p} : player'[q] = player[q]
      PROVE  Hands' /\ FlagBeforeThread'
  <2>1. Started' = Started \cup {p}
    BY <1>2 DEF Started
  <2>2. Hands'
    <3>1. \A q \in Players :
            /\ player'[q] \in {"none", "starting"} => batch[q] = <<>>
            /\ player'[q] \in {"begin", "play"} => batch[q] # <<>>
            /\ player'[q] = "play" => player[q] = "play"
      BY <1>2 DEF Hands
    <3> QED  BY <2>1, <3>1 DEF Hands
  <2>3. FlagBeforeThread'
    <3> SUFFICES ASSUME program = "speak"
                 PROVE  running' /\ \A q, r \in Started' : q = r
      BY DEF FlagBeforeThread
    <3>1. Started = {}
      BY <1>2 DEF FlagBeforeThread
    <3> QED  BY <1>2, <2>1, <3>1
  <2> QED  BY <2>2, <2>3
<1> QED  BY <1>1, <1>2, EnsurePlayerStarts

LEMMA HandleEventKeepsInv ==
    ASSUME Inv, NEW k \in Connections, HandleEvent(k) PROVE Inv'
<1> USE DEF Inv
<1>1. /\ program = "speak" /\ inbox[k] # <<>>
      /\ inbox' = [inbox EXCEPT ![k] = Tail(@)]
      /\ UNCHANGED <<program, batch, device, heard, voiceVars, open, sent>>
  BY DEF HandleEvent, TaskRuns
<1>2. inbox[k] \in Seq(Chunk \cup {Created})
  BY DEF TypeOK
<1>3. Head(inbox[k]) \in Chunk \cup {Created} /\ Tail(inbox[k]) \in Seq(Chunk \cup {Created})
  BY <1>1, <1>2, HeadTailProperties
<1>4. inbox' \in [Connections -> Seq(Chunk \cup {Created})]
  BY <1>1, <1>3 DEF TypeOK
<1>5. PlaybackTypeOK' /\ Hands' /\ FlagBeforeThread'
      /\ reader' \in [Connections -> {"none", "running", "done"}]
  <2>1. CASE /\ EnsurePlayer
             /\ queue' = IF Head(inbox[k]) = Created THEN queue
                                                     ELSE Append(queue, Head(inbox[k]))
             /\ UNCHANGED reader
    <3>1. queue' \in Seq(Chunk)
      BY <1>3, <2>1, AppendProperties DEF TypeOK, PlaybackTypeOK
    <3>2. /\ player' \in [Players -> {"none", "starting", "get", "begin", "play", "dead"}]
          /\ running' \in BOOLEAN
      BY <2>1, EnsurePlayerStarts DEF TypeOK
    <3>3. Hands' /\ FlagBeforeThread'
      BY <1>1, <2>1, EnsurePlayerKeeps DEF TypeOK
    <3> QED  BY <1>1, <2>1, <3>1, <3>2, <3>3 DEF TypeOK, PlaybackTypeOK
  <2>2. CASE reader' = [reader EXCEPT ![k] = "done"] /\ UNCHANGED <<queue, running, player>>
    <3>1. reader' \in [Connections -> {"none", "running", "done"}]
      BY <2>2 DEF TypeOK
    <3>2. Hands' /\ FlagBeforeThread'
      BY <1>1, <2>2 DEF Hands, FlagBeforeThread, Started
    <3> QED  BY <1>1, <2>2, <3>1, <3>2 DEF TypeOK, PlaybackTypeOK
  <2> QED  BY <2>1, <2>2 DEF HandleEvent
<1>6. TypeOK'
  BY <1>1, <1>4, <1>5 DEF TypeOK, voiceVars
<1>7. (ConnectionUsedOnce /\ TalkConnection /\ MicInUse)'
  BY <1>1 DEF ConnectionUsedOnce, TalkConnection, MicInUse, voiceVars
<1> QED  BY <1>5, <1>6, <1>7

LEMMA EndOfEventsKeepsInv ==
    ASSUME Inv, NEW k \in Connections, EndOfEvents(k) PROVE Inv'
<1> USE DEF Inv
<1>1. UNCHANGED <<playbackVars, voiceVars, open, inbox, sent>>
  BY DEF EndOfEvents
<1>2. reader' \in [Connections -> {"none", "running", "done"}]
  BY DEF EndOfEvents, TypeOK
<1>3. TypeOK'
  BY <1>1, <1>2 DEF TypeOK, playbackVars, PlaybackTypeOK, voiceVars
<1>4. (Hands /\ FlagBeforeThread)'
  BY <1>1 DEF Hands, FlagBeforeThread, Started, playbackVars
<1>5. (ConnectionUsedOnce /\ TalkConnection /\ MicInUse)'
  BY <1>1 DEF ConnectionUsedOnce, TalkConnection, MicInUse, voiceVars, playbackVars
<1> QED  BY <1>3, <1>4, <1>5

LEMMA IsTalk == ASSUME Inv, main \in {"run", "put"} PROVE program = "talk"
BY DEF Inv, TypeOK, PlaybackTypeOK, Conversing

LEMMA PutChunkKeepsInv == ASSUME Inv, PutChunk PROVE Inv'
<1> USE DEF Inv
<1>1. /\ main = "run" /\ main' = "put" /\ inbox[ws] # <<>>
      /\ queue' = Append(queue, Head(inbox[ws]))
      /\ inbox' = [inbox EXCEPT ![ws] = Tail(@)]
      /\ UNCHANGED <<program, running, player, batch, device, heard, ws, used, mic, open,
                     reader, sent>>
  BY DEF PutChunk, At
<1>2. program = "talk" /\ ws \in Connections /\ inbox \in [Connections -> Seq(Chunk)]
  BY <1>1, IsTalk DEF TalkConnection
<1>3. Head(inbox[ws]) \in Chunk /\ Tail(inbox[ws]) \in Seq(Chunk)
  BY <1>1, <1>2, HeadTailProperties
<1>4. queue' \in Seq(Chunk) /\ inbox' \in [Connections -> Seq(Chunk)]
  BY <1>1, <1>2, <1>3, AppendProperties DEF TypeOK, PlaybackTypeOK
<1>5. inbox' \in [Connections -> Seq(Chunk \cup {Created})]
  <2>1. Seq(Chunk) \subseteq Seq(Chunk \cup {Created})
    OBVIOUS
  <2> QED  BY <1>4, <2>1
<1>6. TypeOK'
  <2>1. PlaybackTypeOK'
    BY <1>1, <1>4 DEF TypeOK, PlaybackTypeOK
  <2> QED  BY <1>1, <1>2, <1>5, <2>1 DEF TypeOK
<1>7. (Hands /\ FlagBeforeThread)'
  BY <1>1 DEF Hands, FlagBeforeThread, Started
<1>8. (ConnectionUsedOnce /\ TalkConnection /\ MicInUse)'
  BY <1>1, <1>2, <1>4 DEF ConnectionUsedOnce, TalkConnection, MicInUse, Conversing
<1> QED  BY <1>6, <1>7, <1>8

LEMMA TestPlayingKeepsInv == ASSUME Inv, TestPlaying PROVE Inv'
<1> USE DEF Inv
<1>1. /\ main = "put" /\ main' = "run" /\ EnsurePlayer
      /\ UNCHANGED <<program, queue, batch, device, heard, ws, used, mic, netVars>>
  BY DEF TestPlaying, At
<1>2. program = "talk"
  BY <1>1, IsTalk
<1>3. /\ player' \in [Players -> {"none", "starting", "get", "begin", "play", "dead"}]
      /\ running' \in BOOLEAN
  BY <1>1, EnsurePlayerStarts DEF TypeOK
<1>4. PlaybackTypeOK'
  BY <1>1, <1>3 DEF TypeOK, PlaybackTypeOK
<1>5. TypeOK'
  BY <1>1, <1>2, <1>4 DEF TypeOK, netVars
<1>6. (Hands /\ FlagBeforeThread)'
  BY <1>1, EnsurePlayerKeeps DEF TypeOK
<1>7. (ConnectionUsedOnce /\ TalkConnection /\ MicInUse)'
  BY <1>1 DEF ConnectionUsedOnce, TalkConnection, MicInUse, Conversing, netVars
<1> QED  BY <1>5, <1>6, <1>7

LEMMA ExitKeepsInv == ASSUME Inv, Exit PROVE Inv'
<1> USE DEF Inv
<1>1. /\ main = "run" /\ main' = "exit"
      /\ player' = [p \in Players |-> IF p \in Started THEN "dead" ELSE "none"]
      /\ UNCHANGED <<program, queue, running, batch, device, heard, ws, used, mic, netVars>>
  BY DEF Exit, At
<1>2. program = "talk"
  BY <1>1, IsTalk
<1>3. Started' = Started
  BY <1>1 DEF Started
<1>4. TypeOK'
  <2>1. player' \in [Players -> {"none", "starting", "get", "begin", "play", "dead"}]
    BY <1>1
  <2>2. PlaybackTypeOK'
    BY <1>1, <2>1 DEF TypeOK, PlaybackTypeOK
  <2> QED  BY <1>1, <1>2, <2>2 DEF TypeOK, netVars
<1>5. Hands'
  <2>1. \A p \in Players :
          /\ player'[p] \in {"none", "starting"} => batch[p] = <<>>
          /\ player'[p] \notin {"begin", "play"}
    BY <1>1 DEF Hands, Started
  <2> QED  BY <1>1, <1>3, <2>1 DEF Hands
<1>6. FlagBeforeThread'
  BY <1>1, <1>2 DEF FlagBeforeThread
<1>7. (ConnectionUsedOnce /\ TalkConnection /\ MicInUse)'
  BY <1>1 DEF ConnectionUsedOnce, TalkConnection, MicInUse, Conversing, netVars
<1> QED  BY <1>4, <1>5, <1>6, <1>7

-----------------------------------------------------------------------------
(* The server, and the playing threads.                                    *)

LEMMA ServerKeepsInv ==
    ASSUME Inv, NEW k \in Connections, SendAudio(k) \/ Close(k) PROVE Inv'
<1> USE DEF Inv
<1>1. UNCHANGED <<playbackVars, voiceVars, reader>>
  BY DEF SendAudio, Close
<1>2. open' \in [Connections -> BOOLEAN] /\ sent' \in 0..MaxChunks
  <2>1. CASE SendAudio(k)
    BY <2>1, BoundsAssumption DEF SendAudio, TypeOK
  <2>2. CASE Close(k)
    BY <2>2 DEF Close, TypeOK
  <2> QED  BY <2>1, <2>2
<1>3. inbox' \in [Connections -> Seq(Chunk \cup {Created})] /\ TalkConnection'
  <2>1. CASE SendAudio(k)
    <3>1. sent' \in Chunk
      BY <2>1, BoundsAssumption DEF SendAudio, TypeOK, Chunk
    <3>2. inbox' = [inbox EXCEPT ![k] = Append(@, sent')]
      BY <2>1 DEF SendAudio
    <3>3. Append(inbox[k], sent') \in Seq(Chunk \cup {Created})
      BY <3>1, AppendProperties DEF TypeOK
    <3>4. inbox \in [Connections -> Seq(Chunk)] => Append(inbox[k], sent') \in Seq(Chunk)
      BY <3>1, AppendProperties
    <3>5. TalkConnection'
      BY <1>1, <3>2, <3>4 DEF TalkConnection, voiceVars, playbackVars
    <3>6. inbox' \in [Connections -> Seq(Chunk \cup {Created})]
      BY <3>2, <3>3 DEF TypeOK
    <3> QED  BY <3>5, <3>6
  <2>2. CASE Close(k)
    BY <1>1, <2>2 DEF Close, TypeOK, TalkConnection, voiceVars, playbackVars
  <2> QED  BY <2>1, <2>2
<1>4. TypeOK'
  BY <1>1, <1>2, <1>3 DEF TypeOK, playbackVars, PlaybackTypeOK, voiceVars
<1>5. (Hands /\ FlagBeforeThread)'
  BY <1>1 DEF Hands, FlagBeforeThread, Started, playbackVars
<1>6. (ConnectionUsedOnce /\ MicInUse)'
  BY <1>1 DEF ConnectionUsedOnce, MicInUse, voiceVars
<1> QED  BY <1>3, <1>4, <1>5, <1>6

LEMMA Appended ==
    ASSUME NEW b \in Seq(Chunk), NEW c \in Chunk PROVE Append(b, c) # <<>>
BY AppendProperties

\* A step of a playing thread starts none, and keeps in the hands of the running
\* what they have to play.
LEMMA PlayingHands ==
    ASSUME TypeOK, Hands, NEW p \in Players, Playing(p)
    PROVE  /\ player[p] # "none" /\ player'[p] \notin {"none", "starting"}
           /\ \A q \in Players \ {p} : player'[q] = player[q] /\ batch'[q] = batch[q]
           /\ UNCHANGED program
           /\ running' = running \/ running' = TRUE
           /\ player'[p] \in {"begin", "play"} => batch'[p] # <<>>
           /\ device' = device \/ device' = p
           /\ program = "talk" /\ player'[p] = "play" => device' # Nobody
           /\ device # Nobody => device' # Nobody
           /\ Started' = Started /\ p \in Started
<1>1. p # Nobody
  BY DEF Players
<1> USE DEF Goes, TypeOK, PlaybackTypeOK, Started
<1>2. CASE RaiseFlag(p)
  BY <1>2 DEF RaiseFlag
<1>3. CASE Take(p)
  <2>1. batch'[p] = Append(batch[p], Head(queue)) /\ Head(queue) \in Chunk
    BY <1>3, HeadTailProperties DEF Take
  <2>2. batch'[p] # <<>>
    <3>1. batch[p] \in Seq(Chunk)
      OBVIOUS
    <3>2. Append(batch[p], Head(queue)) # <<>>
      BY <2>1, <3>1, Appended
    <3> QED  BY <2>1, <3>2, Zenon
  <2> QED  BY <1>3, <2>2 DEF Take
<1>4. CASE GiveUp(p)
  BY <1>4 DEF GiveUp
<1>5. CASE BeginPlay(p)
  BY <1>1, <1>5 DEF BeginPlay, Hands
<1>6. CASE PlayOn(p)
  <2>1. batch[p] \in Seq(Chunk) /\ batch[p] # <<>> /\ batch'[p] = Tail(batch[p])
    BY <1>6 DEF PlayOn, Hands
  <2>2. Len(batch[p]) # 1 => batch'[p] # <<>>
    <3>1. Len(batch[p]) \in Nat /\ Len(batch[p]) # 0
      BY <2>1, EmptySeq
    <3>2. Len(Tail(batch[p])) = Len(batch[p]) - 1
      BY <2>1, HeadTailProperties
    <3>3. Len(batch[p]) # 1 => Len(Tail(batch[p])) # 0
      BY <3>1, <3>2
    <3>4. Len(<<>>) = 0
      OBVIOUS
    <3> QED  BY <2>1, <3>3, <3>4, Zenon
  <2> QED  BY <1>6, <2>2 DEF PlayOn, Hands
<1>7. CASE PlayFails(p)
  BY <1>7 DEF PlayFails
<1> QED  BY <1>2, <1>3, <1>4, <1>5, <1>6, <1>7 DEF Playing, PlayerStep

LEMMA PlayingKeepsInv == ASSUME Inv, NEW p \in Players, Playing(p) PROVE Inv'
<1> USE DEF Inv
<1>1. UNCHANGED <<voiceVars, netVars>> /\ (PlayerStep(p) \/ PlayFails(p))
  BY DEF Playing
<1>2. PlaybackTypeOK'
  BY <1>1, PlaybackStepTypes DEF TypeOK
<1>3. /\ player[p] # "none" /\ player'[p] \notin {"none", "starting"}
      /\ \A q \in Players \ {p} : player'[q] = player[q] /\ batch'[q] = batch[q]
      /\ UNCHANGED program
      /\ running' = running \/ running' = TRUE
      /\ player'[p] \in {"begin", "play"} => batch'[p] # <<>>
      /\ device' = device \/ device' = p
      /\ program = "talk" /\ player'[p] = "play" => device' # Nobody
      /\ device # Nobody => device' # Nobody
      /\ Started' = Started /\ p \in Started
  BY PlayingHands
<1>5. Hands'
  <2>1. \A q \in Players :
          /\ player'[q] \in {"none", "starting"} => batch'[q] = <<>>
          /\ player'[q] \in {"begin", "play"} => batch'[q] # <<>>
    BY <1>3 DEF Hands
  <2>2. program = "talk" =>
          /\ device' = Nobody \/ device' \in Started
          /\ \A q \in Players : player'[q] = "play" => device' # Nobody
    BY <1>3 DEF Hands
  <2> QED  BY <1>3, <2>1, <2>2 DEF Hands
<1>6. FlagBeforeThread'
  BY <1>3 DEF FlagBeforeThread
<1>7. TypeOK'
  BY <1>1, <1>2, <1>3 DEF TypeOK, voiceVars, netVars
<1>8. (ConnectionUsedOnce /\ TalkConnection /\ MicInUse)'
  BY <1>1, <1>3 DEF ConnectionUsedOnce, TalkConnection, MicInUse, voiceVars, netVars
<1> QED  BY <1>5, <1>6, <1>7, <1>8

LEMMA InvStep == Inv /\ [Next]_vars => Inv'
<1> SUFFICES ASSUME Inv, [Next]_vars PROVE Inv'
  OBVIOUS
<1>1. CASE Converse
  BY <1>1, ConverseKeepsInv
<1>2. CASE Talk
  BY <1>2, PutChunkKeepsInv, TestPlayingKeepsInv, ExitKeepsInv DEF Talk
<1>3. CASE \E k \in Connections : ReaderStep(k) \/ SendAudio(k) \/ Close(k)
  BY <1>3, HandleEventKeepsInv, EndOfEventsKeepsInv, ServerKeepsInv DEF ReaderStep
<1>4. CASE \E p \in Players : Playing(p)
  BY <1>4, PlayingKeepsInv
<1>5. CASE UNCHANGED vars
  BY <1>5 DEF vars, playbackVars, voiceVars, netVars, Inv, TypeOK, PlaybackTypeOK,
              ConnectionUsedOnce, TalkConnection, MicInUse, Hands, FlagBeforeThread,
              Started
<1> QED  BY <1>1, <1>2, <1>3, <1>4, <1>5 DEF Next

LEMMA AlwaysInv == Spec => []Inv
BY InvInit, InvStep, PTL DEF Spec

\* Every variable of both programs keeps its type.
THEOREM TypeCorrect == Spec => []TypeOK
BY AlwaysInv, PTL DEF Inv

\* In speak.py a conversation never sends on the connection of an earlier one,
\* however many there were and however connecting failed.
THEOREM AlwaysConnectionUsedOnce == Spec => []ConnectionUsedOnce
BY AlwaysInv, PTL DEF Inv

\* In speak.py the microphone is off, or could not be stopped, whenever the
\* robot listens for its wake word.
THEOREM MicAlwaysReleased == Spec => []MicReleased
<1>1. Inv => MicReleased
  BY DEF Inv, MicInUse, MicReleased
<1> QED  BY <1>1, AlwaysInv, PTL

-----------------------------------------------------------------------------
(* The refinement: with one thread at most, what waits is what that thread *)
(* has in hand and then the queue.                                         *)

LEMMA FewThreads ==
    ASSUME NEW S \in SUBSET Players
    PROVE  Cardinality(S) <= 1 <=> \E p \in Players : S \subseteq {p}
<1>1. IsFiniteSet(Players) /\ Players # {}
  <2>1. 1 \in Int /\ MaxPlayers \in Int /\ 1 \in 1..MaxPlayers
    BY BoundsAssumption
  <2> QED  BY <2>1, FS_Interval DEF Players
<1>2. IsFiniteSet(S)
  BY <1>1, FS_Subset
<1>3. ASSUME Cardinality(S) <= 1 PROVE \E p \in Players : S \subseteq {p}
  <2>1. CASE Cardinality(S) = 0
    BY <1>1, <1>2, <2>1, FS_EmptySet
  <2>2. CASE Cardinality(S) = 1
    <3>1. \E p : S = {p}
      BY <1>2, <2>2, FS_Singleton
    <3> QED  BY <3>1
  <2>3. Cardinality(S) \in Nat
    BY <1>2, FS_CardinalityType
  <2> QED  BY <1>3, <2>1, <2>2, <2>3
<1>4. ASSUME NEW p \in Players, S \subseteq {p} PROVE Cardinality(S) <= 1
  <2>1. CASE S = {}
    BY <2>1, FS_EmptySet
  <2>2. CASE S = {p}
    BY <2>2, FS_Singleton
  <2> QED  BY <1>4, <2>1, <2>2
<1> QED  BY <1>3, <1>4

\* The chunks in the hand of the only thread of st, if there is one.
HandOf(st, b) == b[CHOOSE p \in Players : st \subseteq {p}]

LEMMA OnlyHand ==
    ASSUME NEW st \in SUBSET Players, NEW b, NEW p \in Players, st \subseteq {p},
           \A q \in Players \ st : b[q] = <<>>
    PROVE  HandOf(st, b) = b[p]
<1> DEFINE c == CHOOSE q \in Players : st \subseteq {q}
<1>1. c \in Players /\ st \subseteq {c}
  OBVIOUS
<1> HIDE DEF c
<1>2. CASE c = p
  BY <1>2 DEF HandOf, c
<1>3. CASE c # p
  <2>1. c \notin st /\ p \notin st
    BY <1>1, <1>3
  <2>2. b[c] = <<>> /\ b[p] = <<>>
    BY <1>1, <2>1
  <2> QED  BY <2>2 DEF HandOf, c
<1> QED  BY <1>2, <1>3

\* What waits, as KeepsOrder hands it to the channel.
ChannelWaits == IF Cardinality(Started) <= 1 THEN Waiting ELSE queue

LEMMA StartedGrows == ASSUME Inv, Next PROVE Started \subseteq Started'
<1>1. ASSUME EnsurePlayer PROVE Started \subseteq Started'
  <2>1. \A q \in Players : player[q] # "none" => player'[q] # "none"
    BY <1>1, EnsurePlayerStarts DEF Inv, TypeOK
  <2> QED  BY <2>1 DEF Started
<1>2. CASE Converse
  BY <1>2 DEF Converse, playbackVars, Started
<1>3. CASE Talk
  BY <1>1, <1>3 DEF Talk, PutChunk, TestPlaying, Exit, Started
<1>4. ASSUME NEW k \in Connections, ReaderStep(k) \/ SendAudio(k) \/ Close(k)
      PROVE  Started \subseteq Started'
  BY <1>1, <1>4 DEF ReaderStep, HandleEvent, EndOfEvents, SendAudio, Close,
                    playbackVars, Started
<1>5. ASSUME NEW p \in Players, Playing(p) PROVE Started \subseteq Started'
  BY <1>5, PlayingHands DEF Inv
<1> QED  BY <1>2, <1>3, <1>4, <1>5 DEF Next

LEMMA ProgramStays == ASSUME Inv, Next PROVE program' = program
<1>1. ASSUME NEW p \in Players, Playing(p) PROVE program' = program
  BY <1>1, PlayingHands DEF Inv
<1> QED  BY <1>1 DEF Next, Converse, Talk, PutChunk, TestPlaying, Exit, ReaderStep,
                     HandleEvent, EndOfEvents, SendAudio, Close, playbackVars

\* Queueing a chunk behind what waits.
LEMMA HandedOver ==
    ASSUME NEW b \in Seq(Chunk), NEW q \in Seq(Chunk), NEW c \in Chunk
    PROVE  b \o Append(q, c) = Append(b \o q, c)
<1>1. Append(q, c) = q \o <<c>> /\ <<c>> \in Seq(Chunk)
  BY AppendIsConcat
<1>2. b \o (q \o <<c>>) = (b \o q) \o <<c>>
  BY <1>1, ConcatAssociative
<1>3. b \o q \in Seq(Chunk)
  BY ConcatProperties
<1>4. (b \o q) \o <<c>> = Append(b \o q, c)
  BY <1>3, AppendIsConcat
<1> QED  BY <1>1, <1>2, <1>4

\* Taking the front of the queue into the hand moves nothing.
LEMMA TakenInHand ==
    ASSUME NEW b \in Seq(Chunk), NEW q \in Seq(Chunk), q # <<>>
    PROVE  Append(b, Head(q)) \o Tail(q) = b \o q
<1>1. Head(q) \in Chunk /\ Tail(q) \in Seq(Chunk)
  BY HeadTailProperties
<1>2. Append(b, Head(q)) = b \o <<Head(q)>> /\ <<Head(q)>> \in Seq(Chunk)
  BY <1>1, AppendIsConcat
<1>3. (b \o <<Head(q)>>) \o Tail(q) = b \o (<<Head(q)>> \o Tail(q))
  BY <1>1, <1>2, ConcatAssociative
<1>4. <<Head(q)>> \o Tail(q) = q
  BY <1>1
<1> QED  BY <1>2, <1>3, <1>4

\* What is played is the oldest of what waits.
LEMMA PlayedFirst ==
    ASSUME NEW b \in Seq(Chunk), NEW q \in Seq(Chunk), b # <<>>
    PROVE  /\ b \o q # <<>>
           /\ Head(b \o q) = Head(b)
           /\ Tail(b \o q) = Tail(b) \o q
<1>1. Head(b) \in Chunk /\ Tail(b) \in Seq(Chunk)
  BY HeadTailProperties
<1>2. b = <<Head(b)>> \o Tail(b)
  BY <1>1
<1>3. <<Head(b)>> \in Seq(Chunk)
  BY <1>1
<1>4. b \o q = <<Head(b)>> \o (Tail(b) \o q)
  BY <1>1, <1>2, <1>3, ConcatAssociative
<1>5. Tail(b) \o q \in Seq(Chunk)
  BY <1>1, ConcatProperties
<1> DEFINE t == Tail(b) \o q
<1> HIDE DEF t
<1>6. ASSUME NEW h \in Chunk, NEW u \in Seq(Chunk)
      PROVE  /\ <<h>> \o u # <<>>
             /\ Head(<<h>> \o u) = h
             /\ Tail(<<h>> \o u) = u
  OBVIOUS
<1>7. t \in Seq(Chunk) /\ b \o q = <<Head(b)>> \o t
  BY <1>4, <1>5 DEF t
<1>8. b \o q # <<>> /\ Head(b \o q) = Head(b) /\ Tail(b \o q) = t
  BY <1>1, <1>6, <1>7
<1> QED  BY <1>8 DEF t

\* While at most thread p runs, that is what p has in hand and then the queue.
LEMMA OneThreadWaits ==
    ASSUME NEW p \in Players, Started \subseteq {p}, Hands
    PROVE  ChannelWaits = batch[p] \o queue
<1>1. Started \in SUBSET Players /\ \A r \in Players \ Started : batch[r] = <<>>
  BY DEF Started, Hands
<1>2. Cardinality(Started) <= 1
  BY <1>1, FewThreads
<1>3. HandOf(Started, batch) = batch[p]
  BY <1>1, OnlyHand
<1> QED  BY <1>2, <1>3 DEF ChannelWaits, Waiting, HandOf

LEMMA OneThreadWaitsNext ==
    ASSUME NEW p \in Players, Started' \subseteq {p}, Hands'
    PROVE  ChannelWaits' = batch'[p] \o queue'
<1>1. Started' \in SUBSET Players /\ \A r \in Players \ Started' : batch'[r] = <<>>
  BY DEF Started, Hands
<1>2. Cardinality(Started') <= 1
  BY <1>1, FewThreads
<1>3. HandOf(Started', batch') = batch'[p]
  BY <1>1, OnlyHand
<1> QED  BY <1>2, <1>3 DEF ChannelWaits, Waiting, HandOf

LEMMA OrderStep ==
    ASSUME Inv, Inv', Next, NEW p \in Players, Started' \subseteq {p}
    PROVE  [Channel!ChannelNext]_Channel!channelVars
<1> DEFINE w == batch[p] \o queue
<1>1. Started \subseteq {p}
  BY StartedGrows
<1>2. /\ ChannelWaits = w /\ ChannelWaits' = w'
      /\ batch[p] \in Seq(Chunk) /\ queue \in Seq(Chunk)
  BY <1>1, OneThreadWaits, OneThreadWaitsNext DEF Inv, TypeOK, PlaybackTypeOK
<1>3. ASSUME w' = w, UNCHANGED heard PROVE UNCHANGED Channel!channelVars
  BY <1>2, <1>3 DEF Channel!channelVars, ChannelWaits
<1>4. ASSUME NEW c \in Chunk, w' = Append(w, c), UNCHANGED heard
      PROVE  Channel!ChannelNext
  BY <1>2, <1>4 DEF Channel!ChannelNext, Channel!HandOver, ChannelWaits
<1>5. ASSUME w # <<>>, heard' = Append(heard, Head(w)), w' = Tail(w)
      PROVE  Channel!ChannelNext
  BY <1>2, <1>5 DEF Channel!ChannelNext, Channel!Hear, ChannelWaits
<1>6. CASE UNCHANGED <<queue, batch, heard>>
  BY <1>3, <1>6
<1>7. CASE \E c \in Chunk : queue' = Append(queue, c) /\ UNCHANGED <<batch, heard>>
  BY <1>2, <1>4, <1>7, HandedOver, ZenonT(30)
<1>8. ASSUME NEW q \in Players, Playing(q)
      PROVE  [Channel!ChannelNext]_Channel!channelVars
  <2>1. q = p /\ p # Nobody
    <3>1. q \in Started
      BY <1>8, PlayingHands DEF Inv
    <3> QED  BY <1>1, <3>1 DEF Players
  <2>2. CASE Take(p)
    <3>1. w' = w /\ UNCHANGED heard
      BY <1>2, <2>2, TakenInHand DEF Take, Inv, TypeOK, PlaybackTypeOK
    <3> QED  BY <1>3, <3>1
  <2>3. CASE PlayOn(p)
    <3>1. batch[p] # <<>>
      BY <2>3 DEF PlayOn, Goes, Inv, Hands
    <3>2. program = "speak" \/ device = p
      BY <1>1, <2>3 DEF PlayOn, Goes, Inv, Hands, TypeOK, PlaybackTypeOK
    <3>3. /\ heard' = Append(heard, Head(batch[p]))
          /\ batch'[p] = Tail(batch[p]) /\ UNCHANGED queue
      BY <2>3, <3>2 DEF PlayOn, Inv, TypeOK, PlaybackTypeOK
    <3>4. w # <<>> /\ heard' = Append(heard, Head(w)) /\ w' = Tail(w)
      BY <1>2, <3>1, <3>3, PlayedFirst
    <3> QED  BY <1>5, <3>4
  <2>4. CASE RaiseFlag(p) \/ GiveUp(p) \/ BeginPlay(p) \/ PlayFails(p)
    BY <1>6, <2>4 DEF RaiseFlag, GiveUp, BeginPlay, PlayFails
  <2> QED  BY <1>8, <2>1, <2>2, <2>3, <2>4 DEF Playing, PlayerStep
<1>9. CASE Converse
  BY <1>6, <1>9 DEF Converse, playbackVars
<1>10. CASE Talk
  <2>1. CASE PutChunk
    <3>1. program = "talk" /\ inbox[ws] \in Seq(Chunk) /\ inbox[ws] # <<>>
      BY <2>1 DEF PutChunk, At, Inv, TypeOK, PlaybackTypeOK, TalkConnection, Conversing
    <3>2. Head(inbox[ws]) \in Chunk
      BY <3>1, HeadTailProperties
    <3> QED  BY <1>7, <2>1, <3>2 DEF PutChunk
  <2>2. CASE TestPlaying \/ Exit
    BY <1>6, <2>2 DEF TestPlaying, Exit
  <2> QED  BY <1>10, <2>1, <2>2 DEF Talk
<1>11. ASSUME NEW k \in Connections, HandleEvent(k)
       PROVE  [Channel!ChannelNext]_Channel!channelVars
  <2>1. inbox[k] \in Seq(Chunk \cup {Created}) /\ inbox[k] # <<>>
    BY <1>11 DEF HandleEvent, Inv, TypeOK
  <2>2. Head(inbox[k]) \in Chunk \cup {Created}
    BY <2>1, HeadTailProperties
  <2> QED  BY <1>6, <1>7, <1>11, <2>2 DEF HandleEvent
<1>12. ASSUME NEW k \in Connections, EndOfEvents(k) \/ SendAudio(k) \/ Close(k)
       PROVE  [Channel!ChannelNext]_Channel!channelVars
  BY <1>6, <1>12 DEF EndOfEvents, SendAudio, Close, playbackVars
<1> QED  BY <1>8, <1>9, <1>10, <1>11, <1>12 DEF Next, ReaderStep

\* In speak.py always, and in talk.py until a second thread is started, every
\* chunk is heard once and in the order in which the messages were handled.
THEOREM AlwaysKeepsOrder == Spec => KeepsOrder
<1>1. Init => Channel!ChannelInit
  <2> SUFFICES ASSUME Init PROVE Channel!ChannelInit
    OBVIOUS
  <2>1. Inv /\ Started = {} /\ queue = <<>> /\ heard = <<>>
    BY InvInit DEF Init, PlaybackInit, Started
  <2>2. PICK p \in Players : Started \subseteq {p}
    BY <2>1, BoundsAssumption DEF Players
  <2>3. ChannelWaits = batch[p] \o <<>> /\ batch[p] = <<>>
    BY <2>1, <2>2, OneThreadWaits DEF Inv, Init, PlaybackInit
  <2>4. ChannelWaits = <<>>
    BY <2>3
  <2> QED  BY <2>1, <2>4 DEF Channel!ChannelInit, ChannelWaits
<1>2. Inv /\ Inv' /\ [Next]_vars
        => [program = "speak" \/ Cardinality(Started') <= 1
              => [Channel!ChannelNext]_Channel!channelVars]_<<queue, batch, heard>>
  <2> SUFFICES ASSUME Inv, Inv', Next, program = "speak" \/ Cardinality(Started') <= 1
               PROVE  [Channel!ChannelNext]_Channel!channelVars \/ UNCHANGED <<queue, batch, heard>>
    BY DEF vars, playbackVars
  <2>1. Started' \in SUBSET Players
    BY DEF Started
  <2>2. CASE Cardinality(Started') <= 1
    BY <2>1, <2>2, FewThreads, OrderStep
  <2>3. CASE program = "speak"
    <3>1. CASE program' = "speak"
      <4>1. \A p, q \in Started' : p = q
        BY <3>1 DEF Inv, FlagBeforeThread
      <4>2. \E p \in Players : Started' \subseteq {p}
        <5>1. CASE Started' = {}
          BY <5>1, BoundsAssumption DEF Players
        <5>2. CASE Started' # {}
          BY <2>1, <4>1, <5>2
        <5> QED  BY <5>1, <5>2
      <4> QED  BY <4>2, OrderStep
    <3>2. CASE program' # "speak"
      BY <2>3, <3>2, ProgramStays
    <3> QED  BY <3>1, <3>2
  <2> QED  BY <2>2, <2>3
<1> QED  BY <1>1, <1>2, AlwaysInv, PTL DEF Spec, KeepsOrder

=============================================================================
