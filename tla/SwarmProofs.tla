----------------------------- MODULE SwarmProofs -----------------------------
(***************************************************************************)
(* What a run of the swarm promises, for any commands, any verifier and    *)
(* any number of cycles and steps.                                         *)
(***************************************************************************)
EXTENDS Swarm, TLAPS

\* Everything the remediation agent changed is in the list that audit will inspect.
EffectsAreListed == \A e \in guest : e.agent = "remediation" => e.command \in executed

\* In triage the remediation agent has not yet run in this cycle; a retry needs a
\* next cycle to go to.
PhasesInOrder ==
    /\ phase \in {"start", "triage"} => \A e \in guest : e.agent = "triage"
    /\ phase = "revert" => cycle < MaxCycles

\* The invariant of a run of the swarm.
IInv ==
    /\ TypeOK
    /\ OneAttemptAtATime
    /\ phase # "raised" => EffectsAreListed
    /\ PhasesInOrder
    /\ SuccessIsSafe

\* It holds before the first cycle.
LEMMA IInvInit == Init => IInv
<1>1. Init => cycle \in Cycle
  BY SwarmAssumption DEF Init, Cycle
<1>2. Init => approved \in BOOLEAN /\ reverted \in BOOLEAN
  BY Zenon DEF Init
<1>3. Init => TypeOK
  BY <1>1, <1>2 DEF Init, TypeOK
<1>4. Init => OneAttemptAtATime /\ EffectsAreListed /\ PhasesInOrder
  BY DEF Init, OneAttemptAtATime, EffectsAreListed, PhasesInOrder
<1>5. Init => SuccessIsSafe
  BY DEF Init, SuccessIsSafe, Succeeded
<1> QED
  BY <1>3, <1>4, <1>5 DEF IInv

\* Every agent's turn keeps it.
LEMMA IInvStep == IInv /\ [Next]_vars => IInv'
<1> SUFFICES ASSUME IInv, [Next]_vars PROVE IInv'
  OBVIOUS
<1> USE SwarmAssumption
<1>1. ASSUME NEW c \in Command, Probe(c) PROVE IInv'
  <2> DEFINE new == [command |-> c, agent |-> "triage", cycle |-> cycle]
  <2>1. new \in Effect /\ guest' \in {guest, guest \cup {new}}
    BY <1>1 DEF Probe, After, IInv, TypeOK, Effect, Agent
  <2> HIDE DEF new
  <2>2. new.agent = "triage" /\ new.cycle = cycle
    BY DEF new
  <2>3. TypeOK'
    BY <1>1, <2>1 DEF Probe, IInv, TypeOK
  <2> QED
    BY <1>1, <2>1, <2>2, <2>3
    DEF Probe, IInv, OneAttemptAtATime, EffectsAreListed, PhasesInOrder, SuccessIsSafe,
        Succeeded
<1>2. CASE EndTriage
  BY <1>2
  DEF EndTriage, IInv, TypeOK, OneAttemptAtATime, EffectsAreListed, PhasesInOrder,
      SuccessIsSafe, Succeeded
<1>3. ASSUME NEW c \in Command, Remediate(c) PROVE IInv'
  <2> DEFINE new == [command |-> c, agent |-> "remediation", cycle |-> cycle]
  <2>1. new \in Effect /\ guest' \in {guest, guest \cup {new}}
    BY <1>3 DEF Remediate, After, IInv, TypeOK, Effect, Agent
  <2> HIDE DEF new
  <2>2. new.command = c /\ new.cycle = cycle
    BY DEF new
  <2>3. TypeOK'
    BY <1>3, <2>1 DEF Remediate, IInv, TypeOK
  <2> QED
    BY <1>3, <2>1, <2>2, <2>3
    DEF Remediate, IInv, OneAttemptAtATime, EffectsAreListed, PhasesInOrder,
        SuccessIsSafe, Succeeded
<1>4. CASE EndRemediation
  BY <1>4
  DEF EndRemediation, IInv, TypeOK, OneAttemptAtATime, EffectsAreListed, PhasesInOrder,
      SuccessIsSafe, Succeeded
<1>5. CASE Audit
  <2>1. PICK verified \in BOOLEAN, insecure \in BOOLEAN :
           /\ verified => Commands(guest) \in Healthy
           /\ approved' = (verified /\ ~insecure /\ ~Rejects(executed))
    BY <1>5 DEF Audit
  <2>2. /\ phase = "audit"
        /\ phase' = IF ~approved' /\ MoreCycles THEN "revert" ELSE "returned"
        /\ UNCHANGED <<cycle, step, guest, executed, reverted>>
    BY <1>5 DEF Audit
  <2>3. TypeOK' /\ OneAttemptAtATime' /\ EffectsAreListed' /\ PhasesInOrder'
    BY <2>1, <2>2
    DEF IInv, TypeOK, OneAttemptAtATime, EffectsAreListed, PhasesInOrder, MoreCycles
  <2>4. approved' => Commands(guest) \in Healthy /\ executed \cap Unsafe = {}
    BY <2>1 DEF Rejects
  <2>5. SuccessIsSafe'
    BY <2>2, <2>4 DEF IInv, EffectsAreListed, SuccessIsSafe, Succeeded, Commands
  <2> QED
    BY <2>3, <2>5 DEF IInv
<1>6. CASE Revert
  BY <1>6
  DEF Revert, Baseline, NextCycle, IInv, TypeOK, Cycle, OneAttemptAtATime,
      EffectsAreListed, PhasesInOrder, SuccessIsSafe, Succeeded
<1>7. CASE RevertFails
  BY <1>7
  DEF RevertFails, Baseline, IInv, TypeOK, OneAttemptAtATime, PhasesInOrder,
      SuccessIsSafe, Succeeded
<1>8. CASE Begin
  BY <1>8
  DEF Begin, IInv, TypeOK, OneAttemptAtATime, EffectsAreListed, PhasesInOrder,
      SuccessIsSafe, Succeeded
<1>9. CASE AuditRaises
  BY <1>9
  DEF AuditRaises, IInv, TypeOK, OneAttemptAtATime, EffectsAreListed, PhasesInOrder,
      SuccessIsSafe, Succeeded
<1>10. CASE UNCHANGED vars
  BY <1>10
  DEF vars, IInv, TypeOK, OneAttemptAtATime, EffectsAreListed, PhasesInOrder,
      SuccessIsSafe, Succeeded, Commands
<1> QED
  BY <1>1, <1>2, <1>3, <1>4, <1>5, <1>6, <1>7, <1>8, <1>9, <1>10 DEF Next

\* So it holds of every execution.
LEMMA Inductive == Spec => []IInv
BY IInvInit, IInvStep, PTL DEF Spec

\* The coordinator's variables keep their types: its cycle never passes max_cycles.
THEOREM SwarmTypes == Spec => []TypeOK
<1>1. IInv => TypeOK
  BY DEF IInv
<1> QED
  BY <1>1, Inductive, PTL

\* No attempt is built on what a rejected one left behind (coordinator lines 101-107).
THEOREM AttemptsAreSeparate == Spec => []OneAttemptAtATime
<1>1. IInv => OneAttemptAtATime
  BY DEF IInv
<1> QED
  BY <1>1, Inductive, PTL

\* Success means a verified guest in which remediation did nothing the auditor
\* rejects, whatever the language model proposed in any cycle.
THEOREM SuccessfulRunsAreSafe == Spec => []SuccessIsSafe
<1>1. IInv => SuccessIsSafe
  BY DEF IInv
<1> QED
  BY <1>1, Inductive, PTL

==============================================================================
