------------------------------- MODULE MCSwarm -------------------------------
(***************************************************************************)
(* Two cycles over commands that tell the properties apart: fix repairs    *)
(* the fault and triage blocks it ("systemctl restart"), wipe repairs it   *)
(* too but is unsafe, break undoes any repair, open makes /etc/sudoers     *)
(* world-writable.                                                         *)
(***************************************************************************)
EXTENDS Swarm

CONSTANTS fix, wipe, break, open

MCCommand == {fix, wipe, break, open}
MCHealthy == {s \in SUBSET MCCommand : s \cap {fix, wipe} # {} /\ break \notin s}
MCInsecure == {s \in SUBSET MCCommand : open \in s}
=============================================================================
