------------------------------ MODULE TaskPool ------------------------------
(***************************************************************************)
(* What a pool of episode workers promises, whatever an episode does: each *)
(* task is worked on at most once, no more than Limit at a time, and ends  *)
(* up recorded or given up, never both and never neither.                  *)
(***************************************************************************)
EXTENDS Naturals, FiniteSets

CONSTANTS
    Task,   \* the episodes to run, a finite set
    Limit   \* how many may run at once, a natural number

VARIABLES waiting, active, recorded, dropped

vars == <<waiting, active, recorded, dropped>>

Init ==
    /\ waiting = Task
    /\ active = {}
    /\ recorded = {}
    /\ dropped = {}

Begin(t) ==
    /\ t \in waiting
    /\ Cardinality(active) < Limit
    /\ waiting' = waiting \ {t}
    /\ active' = active \cup {t}
    /\ UNCHANGED <<recorded, dropped>>

Record(t) ==
    /\ t \in active
    /\ active' = active \ {t}
    /\ recorded' = recorded \cup {t}
    /\ UNCHANGED <<waiting, dropped>>

Drop(t) ==
    /\ t \in active
    /\ active' = active \ {t}
    /\ dropped' = dropped \cup {t}
    /\ UNCHANGED <<waiting, recorded>>

Next == \E t \in Task : Begin(t) \/ Record(t) \/ Drop(t)

Spec == Init /\ [][Next]_vars

=============================================================================
