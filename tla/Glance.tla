------------------------------- MODULE Glance -------------------------------
(***************************************************************************)
(* What the idle robot promises when nobody is in front of the camera      *)
(* (src/src/main.cpp): now and then it turns its head away by some offset, *)
(* turns it back to where it was, and then rests; and it goes on doing so. *)
(***************************************************************************)
EXTENDS Integers

CONSTANTS Home, Offsets

VARIABLES
    phase,      \* "resting", "looking", "away" or "back"
    head        \* where the head is

glanceVars == <<phase, head>>

GlanceInit == phase = "resting" /\ head = Home

Change(from, to) == phase = from /\ phase' = to

Begin  == Change("resting", "looking") /\ UNCHANGED head
Leave  == Change("looking", "away") /\ \E d \in Offsets : head' = Home + d
Return == Change("away", "back") /\ head' = Home
Rest   == Change("back", "resting") /\ UNCHANGED head

GlanceNext == Begin \/ Leave \/ Return \/ Rest

GlanceSafety == GlanceInit /\ [][GlanceNext]_glanceVars

GlanceSpec == GlanceSafety /\ WF_glanceVars(GlanceNext)

=============================================================================
