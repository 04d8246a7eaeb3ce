----------------------------- MODULE PyPlayback -----------------------------
(***************************************************************************)
(* Playback in the Python robot: a queue of chunks and the threads that    *)
(* play them. speak.py (src/src/py/speak.py) raises its flag and then      *)
(* starts the thread, which plays chunk by chunk on a stream of its own;   *)
(* in talk.py (src/src/py/talk.py) the thread raises the flag itself,      *)
(* collects chunks until it has about a second of audio, and plays them on *)
(* the one device, cutting off whoever plays there. Who feeds the queue is *)
(* in PyVoice.                                                             *)
(***************************************************************************)
EXTENDS Naturals, Sequences, FiniteSets

CONSTANTS MaxChunks,    \* bound of the model: chunks the server sends
          MaxPlayers    \* bound of the model: threads talk.py may start

ASSUME BoundsAssumption == MaxChunks \in Nat /\ MaxPlayers \in Nat \ {0}

Chunk == 1..MaxChunks
Players == 1..MaxPlayers
Nobody == 0

VARIABLES
    program,    \* "speak" or "talk"
    queue,      \* play_queue, audio_queue
    running,    \* playback_running, is_playing
    player,     \* player[p]: where thread p is
    batch,      \* batch[p]: chunks it took and has not played
    device,     \* talk.py: the thread whose sd.play is on
    heard       \* history: chunks played

playbackVars == <<program, queue, running, player, batch, device, heard>>

PlaybackTypeOK ==
    /\ program \in {"speak", "talk"}
    /\ queue \in Seq(Chunk) /\ heard \in Seq(Chunk)
    /\ running \in BOOLEAN
    /\ player \in [Players -> {"none", "starting", "get", "begin", "play", "dead"}]
    /\ batch \in [Players -> Seq(Chunk)]
    /\ device \in Players \cup {Nobody}

PlaybackInit ==
    /\ program \in {"speak", "talk"}
    /\ queue = <<>> /\ heard = <<>> /\ running = FALSE /\ device = Nobody
    /\ player = [p \in Players |-> "none"]
    /\ batch = [p \in Players |-> <<>>]

Started == {p \in Players : player[p] # "none"}

\* Fault: speak.py leaves the flag to the thread, as talk.py does.
StartThreadFirst(p) ==
    /\ player[p] = "none"
    /\ player' = [player EXCEPT ![p] = "starting"]
    /\ UNCHANGED running

StartThread(p) ==
    /\ player[p] = "none"
    /\ IF program = "speak"
       THEN running' = TRUE /\ player' = [player EXCEPT ![p] = "get"]
       ELSE player' = [player EXCEPT ![p] = "starting"] /\ UNCHANGED running

EnsurePlayer == IF running THEN UNCHANGED <<running, player>>
                ELSE \E p \in Players \ Started : StartThread(p)

-----------------------------------------------------------------------------
(* _play_loop and audio_player.                                            *)

Goes(p, here, there) == /\ player[p] = here
                        /\ player' = [player EXCEPT ![p] = there]
                        /\ UNCHANGED program

RaiseFlag(p) ==
    /\ Goes(p, "starting", "get")
    /\ running' = TRUE
    /\ UNCHANGED <<queue, batch, device, heard>>

\* Fault: talk.py goes on collecting although it has nothing more to collect.
GiveUpNever(p) == FALSE /\ Goes(p, "get", "begin") /\ UNCHANGED <<running, queue, batch, device, heard>>

\* speak.py plays each chunk; talk.py goes on until it has enough.
Take(p) ==
    /\ queue # <<>>
    /\ Goes(p, "get", "begin") \/ (program = "talk" /\ Goes(p, "get", "get"))
    /\ batch' = [batch EXCEPT ![p] = Append(@, Head(queue))]
    /\ queue' = Tail(queue)
    /\ UNCHANGED <<running, device, heard>>

\* talk.py: nothing came for a tenth of a second.
GiveUp(p) ==
    /\ queue = <<>> /\ batch[p] # <<>>
    /\ Goes(p, "get", "begin")
    /\ UNCHANGED <<running, queue, batch, device, heard>>

\* sd.play stops what is being played.
BeginPlay(p) ==
    /\ Goes(p, "begin", "play")
    /\ device' = IF program = "talk" THEN p ELSE device
    /\ UNCHANGED <<running, queue, batch, heard>>

\* A thread that lost the device only waits for the other's audio to end.
PlayOn(p) ==
    /\ Goes(p, "play", IF Len(batch[p]) = 1 THEN "get" ELSE "play")
    /\ heard' = IF program = "speak" \/ device = p THEN Append(heard, Head(batch[p])) ELSE heard
    /\ batch' = [batch EXCEPT ![p] = Tail(@)]
    /\ UNCHANGED <<running, queue, device>>

\* The sound device fails: the exception ends the thread and leaves the flag up.
PlayFails(p) ==
    /\ Goes(p, "begin", "dead")
    /\ UNCHANGED <<running, queue, batch, device, heard>>

PlayerStep(p) == RaiseFlag(p) \/ Take(p) \/ GiveUp(p) \/ BeginPlay(p) \/ PlayOn(p)

-----------------------------------------------------------------------------
(* Properties.                                                             *)

\* The queue as its users see it while one thread plays.
Waiting == batch[CHOOSE p \in Players : Started \subseteq {p}] \o queue

Channel == INSTANCE AudioChannel WITH
    waiting <- IF Cardinality(Started) <= 1 THEN Waiting ELSE queue

\* Every chunk is heard once and in the order in which the messages were handled,
\* those of several connections included: in speak.py always, for it never has two
\* playing threads, whoever asks for one; in talk.py as long as no second was started.
KeepsOrder ==
    /\ Channel!ChannelInit
    /\ [][program = "speak" \/ Cardinality(Started') <= 1
           => [Channel!ChannelNext]_Channel!channelVars]_<<queue, batch, heard>>

Backlog == queue # <<>> \/ \E p \in Players : batch[p] # <<>>

\* What was queued is taken and played out, by however many threads, unless one died.
QueueDrains == Backlog ~> ~Backlog \/ \E p \in Players : player[p] = "dead"

=============================================================================
