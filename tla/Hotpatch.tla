------------------------------ MODULE Hotpatch -------------------------------
(***************************************************************************)
(* engine/criu_state_preserver.py: hotpatch_with_preservation, and the     *)
(* checkpoint-proc command that calls it.                                  *)
(*                                                                         *)
(* Every command goes through sandbox.execute: it may fail, or time out    *)
(* after having taken effect.  A dump ends the process it dumps, a restore *)
(* starts it again.                                                        *)
(***************************************************************************)

VARIABLES
    hpAt,           \* the next step
    hpGiven,        \* a rollback_command was given
    hpAlive,        \* the daemon runs
    hpPatched,      \* the patch is in the guest
    hpDumped,       \* the images on disk are a real dump
    hpExit,         \* the exit code of the restore command was 0
    hpResult,       \* ProcessCheckpointResult
    hpUndone        \* history: the rollback command took effect

hpVars == <<hpAt, hpGiven, hpAlive, hpPatched, hpDumped, hpExit, hpResult, hpUndone>>

HpTypeOK ==
    /\ hpAt \in {"checkpoint", "patch", "restore", "verify", "rollback", "over"}
    /\ \A b \in {hpGiven, hpAlive, hpPatched, hpDumped, hpExit, hpUndone} : b \in BOOLEAN
    /\ hpResult \in [dump_success : BOOLEAN, restore_success : BOOLEAN, rolled_back : BOOLEAN]

HpInit ==
    /\ hpAt = "checkpoint"
    /\ hpGiven \in BOOLEAN /\ hpAlive \in BOOLEAN
    /\ hpPatched = FALSE /\ hpDumped = FALSE /\ hpExit = FALSE /\ hpUndone = FALSE
    /\ hpResult = [dump_success |-> FALSE, restore_success |-> FALSE, rolled_back |-> FALSE]

AfterFailure == IF hpGiven THEN "rollback" ELSE "over"

----------------------------------------------------------------------------
(* The steps of one hotpatch *)

\* The pid, or 1234; criu dump, or empty images in its place.
checkpoint_process ==
    /\ hpAt = "checkpoint"
    /\ \/ hpDumped' = hpAlive /\ hpAlive' = FALSE
       \/ UNCHANGED <<hpAlive, hpDumped>>
    /\ \E ok \in BOOLEAN :
           /\ hpResult' = [hpResult EXCEPT !.dump_success = ok]
           /\ hpAt' = IF ok THEN "patch" ELSE "over"
    /\ UNCHANGED <<hpGiven, hpPatched, hpExit, hpUndone>>

\* A failed patch command may have patched.
apply_patch ==
    /\ hpAt = "patch"
    /\ \/ hpPatched' = TRUE /\ hpAt' = "restore"
       \/ hpPatched' \in BOOLEAN /\ hpAt' = AfterFailure
    /\ UNCHANGED <<hpGiven, hpAlive, hpDumped, hpExit, hpResult, hpUndone>>

\* criu restore || true: only a time-out makes it fail.
restore_process ==
    /\ hpAt = "restore"
    /\ hpAt' = "verify"
    /\ hpExit' \in BOOLEAN
    /\ hpAlive' \in {hpAlive, hpAlive \/ hpDumped}
    /\ UNCHANGED <<hpGiven, hpPatched, hpDumped, hpResult, hpUndone>>

\* kill -0 prints nothing and pgrep may find another process: what the check prints says
\* little, and the exit code of the restore is as good an answer.
FaultyVerify ==
    /\ hpAt = "verify"
    /\ \E seen \in BOOLEAN :
           /\ hpResult' = [hpResult EXCEPT !.restore_success = seen \/ hpExit]
           /\ hpAt' = IF seen THEN "over" ELSE AfterFailure
    /\ UNCHANGED <<hpGiven, hpAlive, hpPatched, hpDumped, hpExit, hpUndone>>
validate_running ==
    /\ hpAt = "verify"
    /\ \E seen \in BOOLEAN :
           /\ hpResult' = [hpResult EXCEPT !.restore_success = seen \/ hpExit]
           /\ hpAt' = IF seen \/ hpExit THEN "over" ELSE AfterFailure
    /\ UNCHANGED <<hpGiven, hpAlive, hpPatched, hpDumped, hpExit, hpUndone>>

\* rolled_back says that the command was sent.
fallback_rollback ==
    /\ hpAt = "rollback"
    /\ \/ hpPatched' = FALSE /\ hpUndone' = TRUE
       \/ UNCHANGED <<hpPatched, hpUndone>>
    /\ hpResult' = [hpResult EXCEPT !.rolled_back = TRUE]
    /\ hpAt' = "over"
    /\ UNCHANGED <<hpGiven, hpAlive, hpDumped, hpExit>>

HpNext ==
    \/ checkpoint_process
    \/ apply_patch
    \/ restore_process
    \/ validate_running
    \/ fallback_rollback

HpSpec == HpInit /\ [][HpNext]_hpVars

----------------------------------------------------------------------------
(* Correctness *)

\* However the dump, the patch, the restore and its check fail: a hotpatch reported as
\* restored left the patch in the guest, and any other, given a rollback command that
\* took effect or none to undo, left it out (criu_state_preserver.py:159-210).
PatchedIffRestored ==
    hpAt = "over" =>
        /\ hpResult.restore_success => hpPatched /\ ~hpResult.rolled_back
        /\ ~hpResult.restore_success /\ hpPatched => ~hpUndone /\ hpResult.dump_success
        /\ ~hpResult.restore_success /\ hpPatched /\ hpGiven => hpResult.rolled_back

=============================================================================
