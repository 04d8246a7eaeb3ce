------------------------------ MODULE Dialogue ------------------------------
(***************************************************************************)
(* What the realtime server may rely on: the order of the events one       *)
(* client puts on one connection (src/src/speak.cpp). First the session is *)
(* configured; then each conversation asks for a greeting, streams exactly *)
(* Chunks recordings, commits them and asks for the answer. The connection *)
(* may fall silent at any point and is never opened again.                 *)
(***************************************************************************)
EXTENDS Integers

CONSTANT Chunks   \* recordings per conversation

VARIABLES
    last,         \* the last event on the wire
    appended      \* recordings of the current conversation on the wire

dialogueVars == <<last, appended>>

DialogueInit == last = "nothing" /\ appended = 0

Say(before, e) == /\ last \in before
                  /\ last' = e

Configure == Say({"nothing"}, "configure") /\ UNCHANGED appended
Greet     == Say({"configure", "request"}, "greet") /\ appended' = 0
Record    == /\ Say({"greet", "append"}, "append")
             /\ appended < Chunks
             /\ appended' = appended + 1
Commit    == /\ Say({"append"}, "commit")
             /\ appended = Chunks
             /\ UNCHANGED appended
Ask       == Say({"commit"}, "request") /\ UNCHANGED appended

DialogueNext == Configure \/ Greet \/ Record \/ Commit \/ Ask

DialogueSpec == DialogueInit /\ [][DialogueNext]_dialogueVars

=============================================================================
