----------------------------- MODULE EpisodePool -----------------------------
(***************************************************************************)
(* engine/orchestrator.py: the worker pool of Orchestrator and the repair  *)
(* episode each task is, with the parts of engine/client.py and            *)
(* sandbox/incus_sandbox.py an episode calls.                              *)
(*                                                                         *)
(* A job is a call of run_benchmark or collect_dataset.  Each job has a    *)
(* queue and `Workers' coroutines; jobs on one Orchestrator share its      *)
(* semaphore and its buffer.  Between two awaits a coroutine runs alone,   *)
(* so the steps here are the stretches between awaits that other tasks or  *)
(* the properties can tell apart; the awaits before the first step of an   *)
(* episode, which only touch its own sandbox, are one step.  The metrics   *)
(* and dashboard calls, except the gauge SANDBOXES_ACTIVE, are left out,   *)
(* and so is cancellation.                                                 *)
(***************************************************************************)
EXTENDS Naturals, FiniteSets, Sequences

CONSTANTS
    Task,       \* (scenario, episode index) pairs
    Job,        \* calls of run_benchmark or collect_dataset
    Collector,  \* those of collect_dataset
    Batch,      \* the tasks each job puts on its queue, in order
    Workers,    \* config.workers
    MaxSteps,   \* scenario.max_steps
    NoTask      \* a worker between two tasks

ASSUME EpisodeAssumption ==
    /\ IsFiniteSet(Task)
    /\ NoTask \notin Task
    /\ Collector \subseteq Job
    /\ Workers \in Nat \ {0}
    /\ MaxSteps \in Nat
    /\ Batch \in [Job -> Seq(Task)]

\* Every put_nowait puts another task.
ASSUME BatchAssumption ==
    \A t \in Task : \E j \in Job : \E i \in 1 .. Len(Batch[j]) :
        /\ Batch[j][i] = t
        /\ \A k \in Job : \A h \in 1 .. Len(Batch[k]) :
               Batch[k][h] = t => k = j /\ h = i

Worker == Job \X (1 .. Workers)

VARIABLES
    queue,      \* each job's asyncio.Queue
    serving,    \* the task each worker coroutine took from it
    ended,      \* the worker coroutines that have returned
    slots,      \* the value of _semaphore
    stage,      \* how far run_single_episode is with each task
    steps,      \* its steps: done, and whether the success reward was added
    success,    \* its success flag
    instances,  \* the tasks whose sandbox instance exists
    gauge,      \* SANDBOXES_ACTIVE
    buffer,     \* the trajectories in the TrajectoryBuffer, in order
    results,    \* each job's local list of results
    leaked      \* history: deletions of an instance that failed

poolVars == <<queue, serving, ended>>
episodeVars == <<steps, success>>
outputVars == <<buffer, results>>
vars == <<poolVars, slots, stage, episodeVars, instances, gauge, outputVars, leaked>>

\* "abort": an exception is on its way out of the episode, through its finally.
Active == {"setup", "step", "verify", "cleanup", "abort"}
Step == [done : BOOLEAN, rewarded : BOOLEAN]

TypeOK ==
    /\ queue \in [Job -> Seq(Task)]
    /\ serving \in [Worker -> Task \cup {NoTask}]
    /\ ended \subseteq Worker
    /\ slots \in 0 .. Workers
    /\ stage \in [Task -> Active \cup {"waiting", "recorded", "dropped"}]
    /\ steps \in [Task -> Seq(Step)]
    /\ success \in [Task -> BOOLEAN]
    /\ instances \subseteq Task
    /\ gauge \in Nat
    /\ buffer \in Seq(Task)
    /\ results \in [Job -> Seq(Task)]
    /\ leaked \subseteq Task

Init ==
    /\ queue = Batch
    /\ serving = [w \in Worker |-> NoTask]
    /\ ended = {}
    /\ slots = Workers
    /\ stage = [t \in Task |-> "waiting"]
    /\ steps = [t \in Task |-> <<>>]
    /\ success = [t \in Task |-> FALSE]
    /\ instances = {}
    /\ gauge = 0
    /\ buffer = <<>>
    /\ results = [j \in Job |-> <<>>]
    /\ leaked = {}

----------------------------------------------------------------------------
(* A Faulty... operator is a deliberate mistake in the operator below it; only *)
(* substituting it uses it.                                                    *)

FaultySlotFree == TRUE
SlotFree == slots > 0

\* is_episode_done.
FaultyLastStep(t, verified, isDone) == isDone \/ Len(steps[t]) + 1 = MaxSteps
LastStep(t, verified, isDone) == verified \/ isDone \/ Len(steps[t]) + 1 = MaxSteps

\* The flag after an ordinary step, and after the final pass.
FaultySuccessAfter(t, verified) == verified
SuccessAfter(t, verified) == success[t] \/ verified

\* Where an exception inside the episode's try leads.
FaultyRaise == "dropped"
Raise == "abort"

\* The value of the gauge after the finally of an episode.
FaultyGaugeAfter(t) == IF stage[t] = "cleanup" THEN gauge - 1 ELSE gauge
GaugeAfter(t) == gauge - 1

\* The lists of results once task t of job j is over.
FaultyResultsAfter(j, t) == [k \in Job |-> Append(results[k], t)]
ResultsAfter(j, t) ==
    IF stage[t] = "cleanup" THEN [results EXCEPT ![j] = Append(@, t)] ELSE results

\* What a job returns: run_benchmark its list, collect_dataset the buffer of the
\* Orchestrator, which every job on it fills.
HandedOver(j) == IF j \in Collector THEN buffer ELSE results[j]

----------------------------------------------------------------------------
(* The workers *)

TakeTask(w) ==
    LET j == w[1]
    IN  /\ w \notin ended /\ serving[w] = NoTask /\ queue[j] # <<>>
        /\ serving' = [serving EXCEPT ![w] = Head(queue[j])]
        /\ queue' = [queue EXCEPT ![j] = Tail(@)]
        /\ UNCHANGED <<ended, slots, stage, episodeVars, instances, gauge, outputVars,
                       leaked>>

EndWorker(w) ==
    /\ w \notin ended /\ serving[w] = NoTask /\ queue[w[1]] = <<>>
    /\ ended' = ended \cup {w}
    /\ UNCHANGED <<queue, serving, slots, stage, episodeVars, instances, gauge,
                   outputVars, leaked>>

\* The semaphore is acquired and the episode runs up to sandbox.setup().
BeginEpisode(w) ==
    LET t == serving[w]
    IN  /\ t # NoTask /\ stage[t] = "waiting"
        /\ SlotFree
        /\ slots' = slots - 1
        /\ gauge' = gauge + 1
        /\ stage' = [stage EXCEPT ![t] = "setup"]
        /\ UNCHANGED <<poolVars, episodeVars, instances, outputVars, leaked>>

----------------------------------------------------------------------------
(* The episode *)

\* setup, the baseline snapshot, the fault and the snapshot of the faulty guest, or
\* an exception from any of them, before or after the instance was launched.
SetUp(t) ==
    /\ stage[t] = "setup"
    /\ \/ /\ stage' = [stage EXCEPT ![t] = IF MaxSteps = 0 THEN "verify" ELSE "step"]
          /\ instances' = instances \cup {t}
       \/ /\ stage' = [stage EXCEPT ![t] = Raise]
          /\ instances' \in {instances, instances \cup {t}}
    /\ UNCHANGED <<poolVars, slots, episodeVars, gauge, outputVars, leaked>>

\* get_next_action answers, after its own retries; the command is run; the scenario
\* verifies the guest.
TakeStep(t, verified, isDone) ==
    /\ stage[t] = "step"
    /\ steps' = [steps EXCEPT ![t] =
                   Append(@, [done |-> LastStep(t, verified, isDone), rewarded |-> verified])]
    /\ success' = [success EXCEPT ![t] = SuccessAfter(t, verified)]
    /\ stage' = [stage EXCEPT ![t] =
                   IF ~LastStep(t, verified, isDone) THEN "step"
                   ELSE IF success'[t] THEN "cleanup" ELSE "verify"]
    /\ UNCHANGED <<poolVars, slots, instances, gauge, outputVars, leaked>>

\* Every attempt of get_next_action failed: the error is recorded as the last step.
PolicyFails(t) ==
    /\ stage[t] = "step"
    /\ steps' = [steps EXCEPT ![t] = Append(@, [done |-> TRUE, rewarded |-> FALSE])]
    /\ stage' = [stage EXCEPT ![t] = "verify"]
    /\ UNCHANGED <<poolVars, slots, success, instances, gauge, outputVars, leaked>>

\* The pass after the loop; a repair that took its time is found here.
FinalVerify(t, verified) ==
    /\ stage[t] = "verify"
    /\ success' = [success EXCEPT ![t] = SuccessAfter(t, verified)]
    /\ stage' = [stage EXCEPT ![t] = "cleanup"]
    /\ UNCHANGED <<poolVars, slots, steps, instances, gauge, outputVars, leaked>>

\* A verifier raises.  The built-in ones do not, but the synthesizer registers generated
\* scenarios, whose verifiers can.
VerifyRaises(t) ==
    /\ stage[t] \in {"step", "verify"}
    /\ stage' = [stage EXCEPT ![t] = Raise]
    /\ UNCHANGED <<poolVars, slots, episodeVars, instances, gauge, outputVars, leaked>>

\* The finally, and what is left of _worker_task's turn.  cleanup never raises: a
\* deletion that fails is logged and the instance stays.
EndEpisode(w) ==
    LET t == serving[w]
        recorded == stage[t] = "cleanup"
    IN  /\ t # NoTask /\ stage[t] \in {"cleanup", "abort"}
        /\ \/ instances' = instances \ {t} /\ UNCHANGED leaked
           \/ t \in instances /\ leaked' = leaked \cup {t} /\ UNCHANGED instances
        /\ gauge' = GaugeAfter(t)
        /\ stage' = [stage EXCEPT ![t] = IF recorded THEN "recorded" ELSE "dropped"]
        /\ buffer' = IF recorded THEN Append(buffer, t) ELSE buffer
        /\ results' = ResultsAfter(w[1], t)
        /\ slots' = slots + 1
        /\ serving' = [serving EXCEPT ![w] = NoTask]
        /\ UNCHANGED <<queue, ended, episodeVars>>

Work(w) == TakeTask(w) \/ EndWorker(w) \/ BeginEpisode(w) \/ EndEpisode(w)

Episode(t) ==
    \/ SetUp(t)
    \/ \E verified, isDone \in BOOLEAN : TakeStep(t, verified, isDone)
    \/ PolicyFails(t)
    \/ \E verified \in BOOLEAN : FinalVerify(t, verified)
    \/ VerifyRaises(t)

Next == (\E w \in Worker : Work(w)) \/ (\E t \in Task : Episode(t))

Spec == Init /\ [][Next]_vars

\* Every await of an episode ends (the CLI calls, the commands and the requests have
\* timeouts), and the semaphore is given to its waiters in turn.
FairSpec ==
    /\ Spec
    /\ \A w \in Worker : SF_vars(Work(w))
    /\ \A t \in Task : WF_vars(Episode(t))

----------------------------------------------------------------------------
(* Correctness *)

Elems(s) == {s[i] : i \in 1 .. Len(s)}
InStage(names) == {t \in Task : stage[t] \in names}

\* The pool implements the abstract one: the buffer holds the recorded tasks.
Pool == INSTANCE TaskPool WITH
    Limit <- Workers,
    waiting <- InStage({"waiting"}),
    active <- InStage(Active),
    recorded <- Elems(buffer),
    dropped <- InStage({"dropped"})

\* However jobs share the workers, each task runs once, at most config.workers run at
\* once, and each is recorded in the buffer or logged as a fatal error (lines 299-320).
ImplementsPool == Pool!Spec

\* Every job gets its workers back, which end when none of its tasks is left: no episode
\* that fails keeps its slot (lines 311-320, 347).
JobsEnd == <>(ended = Worker)

\* The gauge counts the episodes that hold a sandbox, those that are being aborted
\* included (lines 75, 250).
GaugeIsExact == gauge = Cardinality(InStage(Active))

\* An episode that is over, however it ended, leaves no instance behind unless its
\* deletion failed (lines 242-245; incus_sandbox lines 343-355).
NoInstanceLeaks == InStage({"recorded", "dropped"}) \cap instances \subseteq leaked

IsSound(t) ==
    /\ Len(steps[t]) <= MaxSteps
    /\ \A i \in 1 .. Len(steps[t]) :
          /\ steps[t][i].done <=> i = Len(steps[t])
          /\ steps[t][i].rewarded => i = Len(steps[t]) /\ success[t]

\* A recorded trajectory is what the exporters expect: its last step, and no earlier
\* one, is done; only that step can carry the success reward, and an episode with the
\* reward is a success (lines 177-206, 239).  The converse fails: an episode that only
\* the final pass finds repaired is a success without the reward.
TrajectoriesAreSound == \A t \in Elems(buffer) : IsSound(t)

\* When a job has returned, every task it queued was recorded or logged as a fatal error.
\* What it hands over has each recorded one of its tasks, and no trajectory twice; a
\* benchmark's list has nothing else, so that its pass rate is its own, while a collector's
\* buffer may also hold trajectories of other jobs (lines 299-320, 341-359, 377-385).
ResultsAreComplete ==
    \A j \in Job : (\A i \in 1 .. Workers : <<j, i>> \in ended) =>
        LET own == Elems(Batch[j])
            handed == HandedOver(j)
        IN  /\ own \subseteq InStage({"recorded", "dropped"})
            /\ Elems(handed) \cap own = InStage({"recorded"}) \cap own
            /\ j \in Collector \/ Elems(handed) \subseteq own
            /\ Len(handed) = Cardinality(Elems(handed))

=============================================================================
