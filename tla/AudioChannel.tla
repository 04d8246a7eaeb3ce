---------------------------- MODULE AudioChannel ----------------------------
(***************************************************************************)
(* What the playback queue of src/src/speak.cpp promises the two threads   *)
(* that feed it: every chunk handed over is heard exactly once, in the     *)
(* order in which the chunks were handed over.                             *)
(***************************************************************************)
EXTENDS Sequences

CONSTANT Chunk      \* the chunks of audio

VARIABLES
    waiting,        \* chunks handed over and not heard yet, oldest first
    heard           \* chunks heard so far

channelVars == <<waiting, heard>>

ChannelInit == waiting = <<>> /\ heard = <<>>

HandOver(c) == waiting' = Append(waiting, c) /\ UNCHANGED heard

Hear == /\ waiting # <<>>
        /\ heard' = Append(heard, Head(waiting))
        /\ waiting' = Tail(waiting)

ChannelNext == Hear \/ \E c \in Chunk : HandOver(c)

ChannelSafety == ChannelInit /\ [][ChannelNext]_channelVars

\* What waits is heard.
HearsOn == WF_channelVars(Hear)

=============================================================================
