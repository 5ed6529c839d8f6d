-------------------------------- MODULE Swarm --------------------------------
(***************************************************************************)
(* engine/agents/: SwarmCoordinator.run, which sends one sandbox through   *)
(* cycles of triage, remediation and audit, and goes back to a snapshot    *)
(* between cycles.                                                         *)
(*                                                                         *)
(* The guest is the set of commands that have taken effect since the       *)
(* baseline snapshot, each with the agent and the cycle that ran it.  The  *)
(* language model chooses the commands, so any command can come at any     *)
(* step; BaseSandbox.execute never raises, and a command that fails or     *)
(* times out may or may not have taken effect.  The mock mode of the       *)
(* agents and answers with an empty command are special cases of this.     *)
(***************************************************************************)
EXTENDS Naturals

CONSTANTS
    Command,    \* commands that change the guest
    Blocked,    \* those that triage's forbidden substrings replace by an echo
    Unsafe,     \* those that SyscallSecurityAuditor.inspect_command rejects
    Healthy,    \* the guests in which scenario.verify finds the fault repaired
    Insecure,   \* the guests in which /etc/sudoers has mode 777
    MaxCycles,  \* max_cycles
    MaxProbes,  \* diagnose's max_probes
    MaxSteps    \* remediate's max_steps

\* run reads its loop variable after the loop: max_cycles = 0 is a NameError.
ASSUME SwarmAssumption ==
    /\ Blocked \subseteq Command
    /\ Unsafe \subseteq Command
    /\ MaxCycles \in Nat \ {0} /\ MaxProbes \in Nat /\ MaxSteps \in Nat

Agent == {"triage", "remediation"}
Cycle == 1 .. MaxCycles
Effect == [command : Command, agent : Agent, cycle : Cycle]

VARIABLES
    phase,      \* where run stands; "raised": it ended with an exception
    cycle,      \* the loop variable
    step,       \* steps taken by the agent that is at work
    guest,      \* the effects on the guest since the baseline snapshot
    executed,   \* remediation_result.executed_commands, of the last remediation
    approved,   \* latest_audit.approved
    reverted    \* reverted_on_failure

vars == <<phase, cycle, step, guest, executed, approved, reverted>>

TypeOK ==
    /\ phase \in {"start", "triage", "remediation", "audit", "revert", "returned",
                  "raised"}
    /\ cycle \in Cycle
    /\ step \in Nat
    /\ guest \subseteq Effect
    /\ executed \subseteq Command
    /\ approved \in BOOLEAN
    /\ reverted \in BOOLEAN

Init ==
    /\ phase = "start"
    /\ cycle = 1
    /\ step = 0
    /\ guest = {}
    /\ executed = {}
    /\ approved = FALSE
    /\ reverted = FALSE

----------------------------------------------------------------------------
(* A Faulty... operator is a deliberate mistake in the operator below it; only *)
(* substituting it uses it.                                                    *)

Commands(effects) == {e.command : e \in effects}

\* The guest after an agent ran c, if it took effect.
After(c, agent) == guest \cup {[command |-> c, agent |-> agent, cycle |-> cycle]}

\* The guest after a restore of the baseline snapshot: taken before the first cycle.
FaultyBaseline == {e \in guest : e.agent = "triage"}
Baseline == {}

FaultyNextCycle == cycle
NextCycle == cycle + 1

FaultyMoreCycles == cycle <= MaxCycles
MoreCycles == cycle < MaxCycles

\* Step 4 of audit: the commands it inspects are those of the remediation.
FaultyRejects(commands) == commands \cap Unsafe # {} /\ Commands(guest) \notin Healthy
Rejects(commands) == commands \cap Unsafe # {}

----------------------------------------------------------------------------

\* The baseline snapshot, which raises if it cannot be taken.
Begin ==
    /\ phase = "start"
    /\ phase' \in {"triage", "raised"}
    /\ UNCHANGED <<cycle, step, guest, executed, approved, reverted>>

\* One probe of diagnose.  A forbidden substring blocks; every other command is run
\* as it is.
Probe(c) ==
    /\ phase = "triage" /\ step < MaxProbes
    /\ step' = step + 1
    /\ guest' \in IF c \in Blocked THEN {guest} ELSE {guest, After(c, "triage")}
    /\ UNCHANGED <<phase, cycle, executed, approved, reverted>>

\* The last probe was made, is_done was set, or the language model failed.
EndTriage ==
    /\ phase = "triage"
    /\ phase' = "remediation"
    /\ step' = 0
    /\ executed' = {}
    /\ UNCHANGED <<cycle, guest, approved, reverted>>

Remediate(c) ==
    /\ phase = "remediation" /\ step < MaxSteps
    /\ step' = step + 1
    /\ guest' \in {guest, After(c, "remediation")}
    /\ executed' = executed \cup {c}
    /\ UNCHANGED <<phase, cycle, approved, reverted>>

EndRemediation ==
    /\ phase = "remediation"
    /\ phase' = "audit"
    /\ step' = 0
    /\ UNCHANGED <<cycle, guest, executed, approved, reverted>>

\* audit, and the coordinator's choice on its report.  The scenario's verifier and
\* the stat of /etc/sudoers look at the guest through execute: a probe that fails or
\* times out shows a broken service, and a harmless mode.
Audit ==
    \E verified, insecure \in BOOLEAN :
        /\ phase = "audit"
        /\ verified => Commands(guest) \in Healthy
        /\ insecure => Commands(guest) \in Insecure
        /\ approved' = (verified /\ ~insecure /\ ~Rejects(executed))
        /\ phase' = IF ~approved' /\ MoreCycles THEN "revert" ELSE "returned"
        /\ UNCHANGED <<cycle, step, guest, executed, reverted>>

\* scenario.verify raises.  The built-in verifiers do not, but the synthesizer
\* registers generated scenarios, whose verifiers can.
AuditRaises ==
    /\ phase = "audit"
    /\ phase' = "raised"
    /\ UNCHANGED <<cycle, step, guest, executed, approved, reverted>>

Revert ==
    /\ phase = "revert"
    /\ guest' = Baseline
    /\ reverted' = TRUE
    /\ cycle' = NextCycle
    /\ phase' = "triage"
    /\ UNCHANGED <<step, executed, approved>>

\* The restore raises, before or after it took place, and run with it.
RevertFails ==
    /\ phase = "revert"
    /\ guest' \in {guest, Baseline}
    /\ phase' = "raised"
    /\ UNCHANGED <<cycle, step, executed, approved, reverted>>

Next ==
    \/ Begin
    \/ \E c \in Command : Probe(c) \/ Remediate(c)
    \/ EndTriage \/ EndRemediation
    \/ Audit \/ AuditRaises
    \/ Revert \/ RevertFails

Spec == Init /\ [][Next]_vars

\* Every await of run ends: the client's requests and the sandbox's commands have
\* timeouts.
FairSpec == Spec /\ WF_vars(Next)

----------------------------------------------------------------------------
(* Correctness *)

Succeeded == phase = "returned" /\ approved
Failed == phase = "returned" /\ ~approved

\* Whatever the guest has become, it owes it to the current cycle: no attempt is
\* built on what a rejected one left behind (lines 101-107).
OneAttemptAtATime == \A e \in guest : e.cycle = cycle

\* A run that reports success leaves a guest that the scenario's verifier accepts and
\* in which no effect of the remediation agent comes from a command the security
\* auditor rejects (coordinator lines 97-99, audit lines 66-81).  What triage changed
\* is not covered: audit is not told of it.
SuccessIsSafe ==
    Succeeded =>
        /\ Commands(guest) \in Healthy
        /\ \A e \in guest : e.agent = "remediation" => e.command \notin Unsafe

\* run ends, after at most max_cycles cycles, whatever the language model proposes and
\* whichever attempts are rejected (line 74).
RunEnds == <>(phase \in {"returned", "raised"})

\* "automatic rollback on collateral damage" (README.md:155) and "rollback safety"
\* (coordinator.py:38): a run that does not succeed leaves the baseline.
FailureIsRolledBack == Failed => guest = {}

==============================================================================
