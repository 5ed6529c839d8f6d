--------------------------- MODULE ContinuousLoop ----------------------------
(***************************************************************************)
(* engine/continuous_loop.py with what it calls: trainer/train_sft.py,     *)
(* trainer/train_grpo.py and engine/deployer.py.  Benchmarks and           *)
(* collections are module EpisodePool; here they measure a pass rate, in   *)
(* percent, of whatever model the configuration names, there or not: the   *)
(* mock LLM asks no model, and the final verification of an episode may    *)
(* pass after the policy failed.                                           *)
(*                                                                         *)
(* The tags of a run are v1, v2, ...; tag 0 is a model outside the family. *)
(* The run starts from tag 0, or from one of its own (`--model             *)
(* os-fixer:v2`).  What a tag of the Ollama registry contains is one of    *)
(* the weights ever made: 1 for those of the base model, a new number for  *)
(* every training whose result reaches Ollama, 0 for a tag that does not   *)
(* exist.  The process may die at any await; systemd starts it again with  *)
(* the same arguments, and the registry keeps what it has.                 *)
(***************************************************************************)
EXTENDS Naturals

CONSTANTS
    LoopIterations, \* iterations
    LoopThreshold,  \* min_pass_rate_threshold
    LoopRate,       \* pass rates a benchmark may measure
    LoopStarts      \* bound on the runs of the process

ASSUME LoopAssumption ==
    /\ LoopIterations \in Nat \ {0} /\ LoopStarts \in Nat \ {0}
    /\ LoopThreshold \in Nat /\ LoopRate \subseteq Nat

LoopTag == 0 .. LoopIterations
LoopWeights == 0 .. LoopStarts * LoopIterations + 1

VARIABLES
    loopAt,         \* the next phase
    loopIter,       \* iter_idx
    loopStart,      \* how often the process was started
    loopDry,        \* dry_run
    loopGrpo,       \* training_type is "grpo"
    loopFirst,      \* base_model_tag
    loopCurrent,    \* current_model
    loopName,       \* config.llm.model_name
    loopOllama,     \* what each tag of the registry contains
    loopMade,       \* weights made so far
    loopBase,       \* baseline_pass_rate, and history: what it measured
    loopEval,       \* eval_pass_rate, and history: what it measured
    loopFrom,       \* base_for_deploy
    loopStable      \* history: what current_model contained when it became current

loopVars == <<loopAt, loopIter, loopStart, loopDry, loopGrpo, loopFirst, loopCurrent, loopName,
              loopOllama, loopMade, loopBase, loopEval, loopFrom, loopStable>>

LoopMeasure == [rate : LoopRate \cup {0}, of : LoopTag, weights : LoopWeights]

LoopTypeOK ==
    /\ loopAt \in {"baseline", "collect", "train", "deploy", "evaluate", "decide", "over", "dead"}
    /\ loopIter \in 1 .. LoopIterations + 1 /\ loopStart \in 1 .. LoopStarts
    /\ loopDry \in BOOLEAN /\ loopGrpo \in BOOLEAN
    /\ loopFirst \in LoopTag /\ loopCurrent \in LoopTag /\ loopName \in LoopTag
    /\ loopOllama \in [LoopTag -> LoopWeights]
    /\ loopMade \in LoopWeights \ {0}
    /\ loopBase \in LoopMeasure /\ loopEval \in LoopMeasure
    /\ loopFrom \in {"current", "gguf"}
    /\ loopStable \in LoopWeights

LoopNothing == [rate |-> 0, of |-> 0, weights |-> 0]

LoopInit ==
    /\ loopAt = "baseline" /\ loopIter = 1 /\ loopStart = 1
    /\ loopDry \in BOOLEAN /\ loopGrpo \in BOOLEAN
    /\ loopFirst \in LoopTag /\ loopCurrent = loopFirst /\ loopName = loopFirst
    /\ loopOllama = [t \in LoopTag |-> IF t = loopFirst THEN 1 ELSE 0]
    /\ loopMade = 1
    /\ loopBase = LoopNothing /\ loopEval = LoopNothing
    /\ loopFrom = "current"
    /\ loopStable = 1

----------------------------------------------------------------------------
(* The phases of one iteration *)

loopInputs == <<loopDry, loopGrpo, loopFirst>>
FaultyNewTag == loopIter - 1
LoopNewTag == loopIter

\* A benchmark of the model the configuration names.
LoopMeasured(name, m) ==
    m.of = name /\ m.weights = loopOllama[name] /\ m.rate \in LoopRate

FaultyBaseline ==
    /\ loopAt = "baseline" /\ loopIter <= LoopIterations
    /\ \E m \in LoopMeasure : LoopMeasured(loopName, m) /\ loopBase' = m
    /\ loopAt' = "collect"
    /\ UNCHANGED <<loopInputs, loopIter, loopStart, loopCurrent, loopName, loopOllama, loopMade,
                   loopEval, loopFrom, loopStable>>
LoopBaseline ==
    /\ loopAt = "baseline" /\ loopIter <= LoopIterations
    /\ loopName' = loopCurrent
    /\ \E m \in LoopMeasure : LoopMeasured(loopName', m) /\ loopBase' = m
    /\ loopAt' = "collect"
    /\ UNCHANGED <<loopInputs, loopIter, loopStart, loopCurrent, loopOllama, loopMade,
                   loopEval, loopFrom, loopStable>>

\* collect_dataset and the exports.
LoopCollect ==
    /\ loopAt = "collect"
    /\ loopAt' = "train"
    /\ UNCHANGED <<loopInputs, loopIter, loopStart, loopCurrent, loopName, loopOllama, loopMade,
                   loopBase, loopEval, loopFrom, loopStable>>

\* Whether a .gguf file is where the metadata say: always in a dry run and in the mock
\* fallback, and as it turns out after a real training.
train_sft == {TRUE, FALSE}
train_grpo == {FALSE}

LoopTrain ==
    /\ loopAt = "train"
    /\ \E is_file \in (IF loopGrpo THEN train_grpo ELSE train_sft) :
           loopFrom' = IF loopDry \/ ~is_file THEN "current" ELSE "gguf"
    /\ loopAt' = "deploy"
    /\ UNCHANGED <<loopInputs, loopIter, loopStart, loopCurrent, loopName, loopOllama, loopMade,
                   loopBase, loopEval, loopStable>>

\* /api/create, and if that fails `ollama create`; the tag then names what it was made
\* from, or nothing has changed.
create_model(tag, weights) == loopOllama' \in {loopOllama, [loopOllama EXCEPT ![tag] = weights]}

\* The answer of deploy_model is not looked at.
LoopDeploy ==
    /\ loopAt = "deploy"
    /\ IF loopFrom = "current"
       THEN create_model(LoopNewTag, loopOllama[loopCurrent]) /\ UNCHANGED loopMade
       ELSE create_model(LoopNewTag, loopMade + 1) /\ loopMade' = loopMade + 1
    /\ loopAt' = "evaluate"
    /\ UNCHANGED <<loopInputs, loopIter, loopStart, loopCurrent, loopName, loopBase, loopEval,
                   loopFrom, loopStable>>

\* verify_cfg is the same object as config.
LoopEvaluate ==
    /\ loopAt = "evaluate"
    /\ loopName' = LoopNewTag
    /\ \E m \in LoopMeasure : LoopMeasured(loopName', m) /\ loopEval' = m
    /\ loopAt' = "decide"
    /\ UNCHANGED <<loopInputs, loopIter, loopStart, loopCurrent, loopOllama, loopMade, loopBase,
                   loopFrom, loopStable>>

Regressed == loopEval.rate + 15 < loopBase.rate \/ loopEval.rate < LoopThreshold

\* An alert that cannot be sent is logged.
LoopDecide ==
    /\ loopAt = "decide"
    /\ IF Regressed THEN UNCHANGED <<loopCurrent, loopStable>>
       ELSE loopCurrent' = LoopNewTag /\ loopStable' = loopOllama[LoopNewTag]
    /\ loopIter' = loopIter + 1
    /\ loopAt' = "baseline"
    /\ UNCHANGED <<loopInputs, loopStart, loopName, loopOllama, loopMade, loopBase, loopEval,
                   loopFrom>>

LoopFinish ==
    /\ loopAt = "baseline" /\ loopIter > LoopIterations
    /\ loopAt' = "over"
    /\ UNCHANGED <<loopInputs, loopIter, loopStart, loopCurrent, loopName, loopOllama, loopMade,
                   loopBase, loopEval, loopFrom, loopStable>>

----------------------------------------------------------------------------
(* Failures *)

\* An exception (a training without samples, a disk, the network), or a crash.
LoopDie ==
    /\ loopAt \notin {"over", "dead"}
    /\ loopAt' = "dead"
    /\ UNCHANGED <<loopInputs, loopIter, loopStart, loopCurrent, loopName, loopOllama, loopMade,
                   loopBase, loopEval, loopFrom, loopStable>>

\* Restart=always: the same base model, and v1 again.
LoopRestart ==
    /\ loopAt \in {"over", "dead"} /\ loopStart < LoopStarts
    /\ loopStart' = loopStart + 1
    /\ loopAt' = "baseline" /\ loopIter' = 1
    /\ loopCurrent' = loopFirst /\ loopName' = loopFirst
    /\ loopStable' = loopOllama[loopFirst]
    /\ loopBase' = LoopNothing /\ loopEval' = LoopNothing
    /\ loopFrom' = "current"
    /\ UNCHANGED <<loopInputs, loopOllama, loopMade>>

LoopNext ==
    \/ LoopBaseline
    \/ LoopCollect
    \/ LoopTrain
    \/ LoopDeploy
    \/ LoopEvaluate
    \/ LoopDecide
    \/ LoopFinish
    \/ LoopDie
    \/ LoopRestart

LoopSpec == LoopInit /\ [][LoopNext]_loopVars

----------------------------------------------------------------------------
(* Correctness *)

\* The run was told to start from a tag of its own family, still goes back to it, and has
\* come to the generation that gets this tag.
LoopReused == loopFirst # 0 /\ loopCurrent = loopFirst /\ loopIter >= loopFirst

\* The model a rollback goes back to is what it was when the run started from it or promoted
\* it: no generation, accepted or not, of this run or of one before a crash, overwrote it,
\* unless the run was started from a tag that is the name of one of its generations
\* (continuous_loop.py:90-92, 204-219).  That the tag exists is not said: a generation whose
\* deployment failed is promoted if its episodes pass without it.
StableIsIntact == loopOllama[loopCurrent] = loopStable \/ LoopReused

\* A generation is judged by its own pass rate against that of the model it would replace,
\* although both are measured through one configuration that a rejected generation leaves
\* pointing at itself (continuous_loop.py:102, 196-204).
JudgedFairly ==
    loopAt = "decide" =>
        /\ loopBase.of = loopCurrent /\ (loopBase.weights = loopStable \/ LoopReused)
        /\ loopEval.of = LoopNewTag /\ loopEval.weights = loopOllama[LoopNewTag]

=============================================================================
