----------------------------- MODULE MCEmulator -----------------------------
(***************************************************************************)
(* The emulator, and one of its queues in full: a behaviour is about one   *)
(* of the two.                                                             *)
(***************************************************************************)
EXTENDS Emulator, FIFO

CONSTANTS s1, s2

VARIABLE scene

mcvars == <<scene, emuVars, vars>>

MCInit == scene \in {"emulator", "queue"} /\ EmuInit /\ Init

OfEmulator == scene = "emulator" /\ UNCHANGED <<scene, vars>>
OfQueue == scene = "queue" /\ UNCHANGED <<scene, emuVars>>

MCNext ==
  \/ OfEmulator /\ EmuNext
  \/ OfQueue /\ Next

MCFairness ==
  /\ WF_mcvars(OfEmulator /\ Schedules)
  /\ WF_mcvars(OfEmulator /\ CountTerm)
  /\ \A i \in Server : WF_mcvars(OfEmulator /\ Runs(i))

MCSpec == MCInit /\ [][MCNext]_mcvars /\ MCFairness

MCSize == [p \in Priority |-> IF p = "Low" THEN 2 ELSE 1]
=============================================================================
