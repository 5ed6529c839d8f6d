--------------------------- MODULE CanaryVerdicts ----------------------------
(***************************************************************************)
(* What an experiment on canary guests concludes, and from what evidence:  *)
(* the shadow validation of engine/host_watchdog.py, an experiment of      *)
(* engine/chaos_daemon.py, the twin comparison of                          *)
(* engine/shadow_evaluator.py, the compound faults of                      *)
(* engine/cascading_fuzzer.py and the pre-flight check of                  *)
(* scenarios/synthesizer.py.                                               *)
(*                                                                         *)
(* A guest is the set of its faults.  They come and go by themselves (a    *)
(* unit restarts, a daemon rewrites its file) between any two awaits.  A   *)
(* verification is one probe per domain, each an await of its own, so that *)
(* a verdict rests on what different moments showed.  The swarm is module  *)
(* Swarm; here it leaves any faults and any report, since the guest may    *)
(* change between its own verification and its return.  Scores are         *)
(* percentages.                                                            *)
(***************************************************************************)
EXTENDS Naturals, FiniteSets

CONSTANTS
    Domains,        \* the failure domains of one experiment
    MaxDivergence   \* the values of max_divergence_threshold

ASSUME CanaryAssumption == MaxDivergence \subseteq Nat

Guest == {"primary", "shadow"}
Experiment == {"watchdog", "chaos", "shadow", "fuzz", "synth"}

VARIABLES
    canKind,        \* which experiment it is
    canStage,       \* how far it is
    canFaults,      \* the faults of each guest
    canLeft,        \* the domains the running verification has still to probe
    canShown,       \* the faults it found
    canSwarm,       \* what the swarm (synth: reference_fix) reported
    canVerdict      \* its conclusion

\* For the property only: what was true at some moment, no step reads it.
VARIABLES
    canFaulty,      \* the domains faulty at some moment of the running verification
    canClean,       \* the domains clean at some moment of it
    canBefore,      \* the guests faulty at some moment of the one before the swarm
    canLate         \* a probe timed out

canInputs == <<canKind, canSwarm>>
canCheck == <<canLeft, canShown>>
canSeen == <<canFaulty, canClean>>
canVars == <<canInputs, canStage, canFaults, canCheck, canVerdict, canSeen, canBefore, canLate>>

Report == [ok : BOOLEAN, safe : BOOLEAN]
PerGuest == [Guest -> SUBSET Domains]
Checking == {"baseline", "precheck", "postcheck"}

CanTypeOK ==
    /\ canKind \in Experiment
    /\ canStage \in Checking \cup {"setup", "inject", "remediate", "over"}
    /\ canFaults \in PerGuest /\ canLeft \in PerGuest /\ canShown \in PerGuest
    /\ canSwarm \in Report
    /\ canVerdict \in {"none", "good", "bad", "raised"}
    /\ canFaulty \in PerGuest /\ canClean \in PerGuest
    /\ canBefore \subseteq Guest /\ canLate \in BOOLEAN

Nothing == [g \in Guest |-> {}]

CanInit ==
    /\ canKind \in Experiment
    /\ canStage = "setup"
    /\ canFaults = Nothing /\ canLeft = Nothing /\ canShown = Nothing
    /\ canSwarm = [ok |-> FALSE, safe |-> TRUE]
    /\ canVerdict = "none"
    /\ canFaulty = Nothing /\ canClean = Nothing
    /\ canBefore = {} /\ canLate = FALSE

----------------------------------------------------------------------------
(* Verifications *)

\* The guests an experiment has.
Twins == IF canKind = "shadow" THEN Guest ELSE {"primary"}

\* verify_compound_state sees the network and the security faults only: the probe of the
\* storage domain ends in "|| true", and the test of the permissions is run by root.
Probed == Domains \ {"storage", "permissions"}
Verified == IF canKind = "fuzz" THEN Probed ELSE Domains

\* A verification of all guests begins; what it will see, it sees from now on.
Begin(stage) ==
    /\ canStage' = stage
    /\ canLeft' = [g \in Guest |-> IF g \in Twins THEN Verified ELSE {}]
    /\ canShown' = Nothing
    /\ canFaulty' = canFaults'
    /\ canClean' = [g \in Guest |-> Domains \ canFaults'[g]]
    /\ UNCHANGED canVerdict

GoOn(stage) ==
    /\ canStage' = stage
    /\ canLeft' = Nothing /\ canShown' = Nothing
    /\ canFaulty' = Nothing /\ canClean' = Nothing
    /\ UNCHANGED canVerdict

\* The guests are deleted; what was seen matters to a good verdict.
Conclude(verdict) ==
    /\ canStage' = "over" /\ canVerdict' = verdict
    /\ canLeft' = Nothing /\ canShown' = Nothing
    /\ IF verdict = "good" THEN UNCHANGED canSeen
       ELSE canFaulty' = Nothing /\ canClean' = Nothing

\* One command of a verification, the primary's first.  A scenario's verify may return at
\* the first fault, the fuzzer's goes through its domains.  The output of a command that
\* timed out may be taken for either.
CanProbe(g, d) ==
    /\ canStage \in Checking
    /\ d \in canLeft[g]
    /\ g = "shadow" => canLeft["primary"] = {}
    /\ \E shows, late \in BOOLEAN :
          /\ late \/ shows = (d \in canFaults[g])
          /\ canShown' = [canShown EXCEPT ![g] = IF shows THEN @ \cup {d} ELSE @]
          /\ \/ canLeft' = [canLeft EXCEPT ![g] = @ \ {d}]
             \/ shows /\ canKind # "fuzz" /\ canLeft' = [canLeft EXCEPT ![g] = {}]
          /\ canLate' = (canLate \/ late)
    /\ UNCHANGED <<canInputs, canStage, canFaults, canVerdict, canSeen, canBefore>>

AllProbed(stage) == canStage = stage /\ \A g \in Guest : canLeft[g] = {}
Healthy(g) == canShown[g] = {}

----------------------------------------------------------------------------
(* The steps of an experiment *)

\* scenario.setup; only a synthesized scenario is verified here.
CanSetUp ==
    /\ canStage = "setup"
    /\ UNCHANGED <<canInputs, canFaults, canBefore, canLate>>
    /\ IF canKind = "synth" THEN Begin("baseline") ELSE GoOn("inject")

CanBaseline ==
    /\ AllProbed("baseline")
    /\ IF Healthy("primary") THEN GoOn("inject") ELSE Conclude("bad")
    /\ UNCHANGED <<canInputs, canFaults, canBefore, canLate>>

\* inject_fault on every guest, whose commands may fail unnoticed.
CanInject ==
    /\ canStage = "inject"
    /\ \E now \in [Twins -> SUBSET Domains] :
           canFaults' = [g \in Guest |-> IF g \in Twins THEN now[g] ELSE {}]
    /\ IF canKind \in {"watchdog", "chaos"} THEN GoOn("remediate") ELSE Begin("precheck")
    /\ UNCHANGED <<canInputs, canBefore, canLate>>

\* The faults must show: an assertion of the comparison and of the fuzzer, the second
\* phase of the pre-flight check.
FaultyBroken == \E g \in Twins : ~Healthy(g)
Broken == \A g \in Twins : ~Healthy(g)
CanPrecheck ==
    /\ AllProbed("precheck")
    /\ canBefore' = {g \in Twins : canFaulty[g] \cap Verified # {}}
    /\ IF Broken THEN GoOn("remediate")
       ELSE Conclude(IF canKind = "synth" THEN "bad" ELSE "raised")
    /\ UNCHANGED <<canInputs, canFaults, canLate>>

\* The swarm on the primary; a synthesized scenario is repaired by its reference_fix, if it
\* has one, which is what ok says of it.  The watchdog and the chaos daemon believe the
\* swarm, and a scenario without reference_fix is not verified again.
CanRemediate ==
    /\ canStage = "remediate"
    /\ \E faults \in SUBSET Domains : canFaults' = [canFaults EXCEPT !["primary"] = faults]
    /\ canSwarm' \in Report
    /\ IF canKind \in {"shadow", "fuzz"} \/ (canKind = "synth" /\ canSwarm'.ok)
       THEN Begin("postcheck") ELSE GoOn("postcheck")
    /\ UNCHANGED <<canKind, canBefore, canLate>>

\* raw_divergence of the twin comparison; bloat is a memory delta above 200 MB.
PrimaryResolved == Healthy("primary") /\ canSwarm.ok
Divergence(bloat) ==
    (IF PrimaryResolved THEN 0 ELSE 50) + (IF Healthy("shadow") THEN 30 ELSE 0)
        + (IF bloat THEN 20 ELSE 0)

\* host_applied, recovered, promoted, success, valid.  What the configuration says, dry_run
\* and max_divergence_threshold, is read here only.
CanDecide ==
    /\ AllProbed("postcheck")
    /\ \E bloat, dryRun \in BOOLEAN, threshold \in MaxDivergence :
           LET good ==
                 CASE canKind = "watchdog" -> canSwarm.ok /\ canSwarm.safe /\ ~dryRun
                   [] canKind = "chaos" -> canSwarm.ok
                   [] canKind = "shadow" -> /\ PrimaryResolved /\ ~Healthy("shadow")
                                            /\ Divergence(bloat) <= threshold
                   [] canKind = "fuzz" -> Healthy("primary") /\ canSwarm.ok
                   [] canKind = "synth" -> Healthy("primary")
           IN  Conclude(IF good THEN "good" ELSE "bad")
    /\ UNCHANGED <<canInputs, canFaults, canBefore, canLate>>

\* An await raises: the finally deletes the guests, and there is no conclusion; a
\* synthesized scenario becomes an invalid one.
CanRaise ==
    /\ canStage # "over"
    /\ Conclude(IF canKind = "synth" THEN "bad" ELSE "raised")
    /\ UNCHANGED <<canInputs, canFaults, canBefore, canLate>>

\* A guest changes by itself, between any two steps.
CanDrift ==
    /\ canStage # "over"
    /\ \E g \in Twins, faults \in SUBSET Domains :
           /\ canFaults' = [canFaults EXCEPT ![g] = faults]
           /\ IF canStage \in Checking
              THEN /\ canFaulty' = [canFaulty EXCEPT ![g] = @ \cup faults]
                   /\ canClean' = [canClean EXCEPT ![g] = @ \cup (Domains \ faults)]
              ELSE UNCHANGED canSeen
    /\ UNCHANGED <<canInputs, canStage, canCheck, canVerdict, canBefore, canLate>>

CanNext ==
    \/ CanSetUp
    \/ CanBaseline
    \/ CanInject
    \/ CanPrecheck
    \/ CanRemediate
    \/ CanDecide
    \/ CanRaise
    \/ CanDrift
    \/ \E g \in Guest, d \in Domains : CanProbe(g, d)

CanSpec == CanInit /\ [][CanNext]_canVars

----------------------------------------------------------------------------
(* Correctness *)

\* What a good verdict is evidence of, whenever the guests change and unless a probe timed
\* out.  A twin comparison that promotes saw both guests broken between the injection and
\* the swarm, and, after the swarm returned, each domain of the primary clean and the
\* untouched shadow broken, each at some moment: faults that heal by themselves on both
\* guests promote nothing.  A fuzzing success saw a probed domain broken before and each
\* probed one clean after; a scenario found valid by the pre-flight check was broken, and
\* each domain clean after its reference_fix, if it has one.  It is no proof of a cause: the
\* primary alone may heal by itself, or break again after its probe
\* (shadow_evaluator.py:166-246, cascading_fuzzer.py:122-161, synthesizer.py:163-192).
VerdictIsEarned ==
    canVerdict = "good" /\ ~canLate =>
        /\ canKind = "shadow" => /\ canBefore = Guest
                                 /\ canClean["primary"] = Domains
                                 /\ canFaulty["shadow"] # {}
        /\ canKind = "fuzz" => /\ canBefore = {"primary"}
                               /\ Probed \subseteq canClean["primary"]
        /\ canKind = "synth" => /\ canBefore = {"primary"}
                                /\ canSwarm.ok => canClean["primary"] = Domains

=============================================================================
