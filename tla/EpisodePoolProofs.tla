-------------------------- MODULE EpisodePoolProofs --------------------------
(***************************************************************************)
(* The episode pool for any jobs, tasks, number of workers and number of   *)
(* steps: its types, the gauge, the instances, that it implements the      *)
(* abstract pool, its trajectories and its results.  The one fact that is  *)
(* not visible in a single action is that slots and gauge count the active *)
(* episodes.                                                               *)
(***************************************************************************)
EXTENDS EpisodePool, FiniteSetTheorems, TLAPS

Running == InStage(Active)

SlotsAreExact == slots = Workers - Cardinality(Running)

IInv == TypeOK /\ SlotsAreExact /\ GaugeIsExact /\ NoInstanceLeaks

\* Only so many episodes run at once.
LEMMA RunningIsFinite ==
    /\ IsFiniteSet(Running)
    /\ Cardinality(Running) \in Nat
<1>1. IsFiniteSet(Task) /\ Running \in SUBSET Task
  BY EpisodeAssumption DEF Running, InStage
<1> QED
  BY <1>1, FS_Subset, FS_CardinalityType

\* An episode that begins is one more, one that ends is one less.
LEMMA BeginCounts ==
    ASSUME TypeOK, NEW w \in Worker, BeginEpisode(w)
    PROVE  /\ serving[w] \in Task /\ serving[w] \notin Running
           /\ Running' = Running \cup {serving[w]}
           /\ Cardinality(Running') = Cardinality(Running) + 1
<1> DEFINE t == serving[w]
<1>1. t \in Task /\ stage[t] = "waiting" /\ stage' = [stage EXCEPT ![t] = "setup"]
  BY DEF TypeOK, BeginEpisode
<1>2. t \notin Running /\ Running' = Running \cup {t}
  BY <1>1 DEF TypeOK, Running, InStage, Active
<1> QED
  BY <1>1, <1>2, RunningIsFinite, FS_AddElement

\* An episode that ends is one less.
LEMMA EndCounts ==
    ASSUME TypeOK, NEW w \in Worker, EndEpisode(w)
    PROVE  /\ serving[w] \in Running
           /\ Running' = Running \ {serving[w]}
           /\ Cardinality(Running) \in Nat \ {0}
           /\ Cardinality(Running') = Cardinality(Running) - 1
<1> DEFINE t == serving[w]
<1>1. /\ t \in Task /\ stage[t] \in {"cleanup", "abort"}
      /\ \E new \in {"recorded", "dropped"} : stage' = [stage EXCEPT ![t] = new]
  BY DEF TypeOK, EndEpisode
<1>2. t \in Running /\ Running' = Running \ {t}
  BY <1>1 DEF TypeOK, Running, InStage, Active
<1>3. Cardinality(Running) # 0
  BY <1>2, RunningIsFinite, FS_EmptySet
<1> QED
  BY <1>2, <1>3, RunningIsFinite, FS_RemoveElement

\* Between its beginning and its end an episode stays active.
LEMMA EpisodeKeepsRunning ==
    ASSUME TypeOK, NEW t \in Task, Episode(t)
    PROVE  /\ t \in Running /\ Running' = Running
           /\ \E new \in Active : stage' = [stage EXCEPT ![t] = new]
           /\ UNCHANGED <<poolVars, slots, gauge, outputVars, leaked>>
           /\ instances' \in {instances, instances \cup {t}}
<1>1. /\ stage[t] \in Active
      /\ \E new \in Active : stage' = [stage EXCEPT ![t] = new]
  BY DEF Episode, SetUp, TakeStep, PolicyFails, FinalVerify, VerifyRaises, Raise, Active
<1>2. t \in Running /\ Running' = Running
  BY <1>1 DEF TypeOK, Running, InStage
<1>3. UNCHANGED <<poolVars, slots, gauge, outputVars, leaked>>
  BY DEF Episode, SetUp, TakeStep, PolicyFails, FinalVerify, VerifyRaises
<1>4. instances' \in {instances, instances \cup {t}}
  BY DEF Episode, SetUp, TakeStep, PolicyFails, FinalVerify, VerifyRaises
<1> QED
  BY <1>1, <1>2, <1>3, <1>4

\* The pool starts in its types.
LEMMA TypeInit == Init => TypeOK
<1> SUFFICES ASSUME Init PROVE TypeOK
  OBVIOUS
<1>1. success \in [Task -> BOOLEAN]
  BY Zenon DEF Init
<1>2. slots \in 0 .. Workers /\ gauge \in Nat /\ queue \in [Job -> Seq(Task)]
  BY EpisodeAssumption DEF Init
<1> QED
  BY <1>1, <1>2 DEF Init, TypeOK, Active

\* What an episode records about a step.
LEMMA StepsAreTyped ==
    ASSUME TypeOK, NEW t \in Task, Episode(t)
    PROVE  steps' \in [Task -> Seq(Step)] /\ success' \in [Task -> BOOLEAN]
<1>1. ASSUME NEW verified \in BOOLEAN
      PROVE  [success EXCEPT ![t] = SuccessAfter(t, verified)] \in [Task -> BOOLEAN]
  <2>1. SuccessAfter(t, verified) \in BOOLEAN
    BY Zenon DEF SuccessAfter, TypeOK
  <2> QED
    BY <2>1 DEF TypeOK
<1>2. CASE SetUp(t) \/ VerifyRaises(t)
  BY <1>2 DEF SetUp, VerifyRaises, episodeVars, TypeOK
<1>3. ASSUME NEW verified \in BOOLEAN, NEW isDone \in BOOLEAN, TakeStep(t, verified, isDone)
      PROVE  steps' \in [Task -> Seq(Step)]
  <2> DEFINE new == [done |-> LastStep(t, verified, isDone), rewarded |-> verified]
  <2>1. LastStep(t, verified, isDone) \in BOOLEAN
    BY Zenon DEF LastStep
  <2>2. new \in Step
    BY <2>1 DEF Step
  <2>3. steps' = [steps EXCEPT ![t] = Append(@, new)]
    BY <1>3 DEF TakeStep
  <2> HIDE DEF new
  <2> QED
    BY <2>2, <2>3 DEF TypeOK
<1>4. ASSUME PolicyFails(t) PROVE steps' \in [Task -> Seq(Step)]
  <2> DEFINE new == [done |-> TRUE, rewarded |-> FALSE]
  <2>1. new \in Step
    BY Zenon DEF Step
  <2>2. steps' = [steps EXCEPT ![t] = Append(@, new)]
    BY <1>4 DEF PolicyFails
  <2> HIDE DEF new
  <2> QED
    BY <2>1, <2>2 DEF TypeOK
<1>5. CASE PolicyFails(t)
  BY <1>4, <1>5 DEF PolicyFails, TypeOK
<1>6. ASSUME NEW verified \in BOOLEAN, FinalVerify(t, verified)
      PROVE  steps' \in [Task -> Seq(Step)] /\ success' \in [Task -> BOOLEAN]
  BY <1>1, <1>6 DEF FinalVerify, TypeOK
<1>7. ASSUME NEW verified \in BOOLEAN, NEW isDone \in BOOLEAN, TakeStep(t, verified, isDone)
      PROVE  success' \in [Task -> BOOLEAN]
  BY <1>1, <1>7 DEF TakeStep
<1> QED
  BY <1>2, <1>3, <1>5, <1>6, <1>7 DEF Episode

\* Every step of a worker and of its episode keeps the invariant.
LEMMA IInvStep == IInv /\ [Next]_vars => IInv'
<1> SUFFICES ASSUME IInv, [Next]_vars PROVE IInv'
  OBVIOUS
<1> USE EpisodeAssumption DEF IInv
<1>1. ASSUME NEW w \in Worker, TakeTask(w) \/ EndWorker(w) PROVE IInv'
  <2>1. w[1] \in Job /\ (queue[w[1]] # <<>> => /\ Head(queue[w[1]]) \in Task
                                             /\ Tail(queue[w[1]]) \in Seq(Task))
    BY DEF Worker, TypeOK
  <2>2. ASSUME TakeTask(w) PROVE TypeOK'
    <3>1. serving' \in [Worker -> Task \cup {NoTask}] /\ queue' \in [Job -> Seq(Task)]
      <4>1. queue[w[1]] # <<>> /\ queue' = [queue EXCEPT ![w[1]] = Tail(queue[w[1]])]
            /\ serving' = [serving EXCEPT ![w] = Head(queue[w[1]])]
        BY <2>2 DEF TakeTask
      <4> QED
        BY <2>1, <4>1 DEF TypeOK
    <3> QED
      BY <2>2, <3>1 DEF TakeTask, TypeOK, episodeVars, outputVars
  <2>3. ASSUME EndWorker(w) PROVE TypeOK'
    BY <2>3 DEF EndWorker, TypeOK, episodeVars, outputVars
  <2>4. TypeOK'
    BY <1>1, <2>2, <2>3
  <2>5. Running' = Running
    BY <1>1 DEF TakeTask, EndWorker, Running, InStage
  <2> QED
    BY <1>1, <2>4, <2>5
    DEF TakeTask, EndWorker, SlotsAreExact, GaugeIsExact, NoInstanceLeaks, InStage, Running
<1>2. ASSUME NEW w \in Worker, BeginEpisode(w) PROVE IInv'
  <2>1. TypeOK'
    BY <1>2 DEF BeginEpisode, SlotFree, TypeOK, poolVars, episodeVars, outputVars, Active
  <2>2. SlotsAreExact' /\ GaugeIsExact'
    <3>1. Cardinality(Running') = Cardinality(Running) + 1 /\ Cardinality(Running) \in Nat
      BY <1>2, BeginCounts, RunningIsFinite
    <3>2. slots' = slots - 1 /\ gauge' = gauge + 1
      BY <1>2 DEF BeginEpisode
    <3> QED
      BY <3>1, <3>2 DEF SlotsAreExact, GaugeIsExact, Running
  <2>3. NoInstanceLeaks'
    BY <1>2, BeginCounts DEF BeginEpisode, NoInstanceLeaks, InStage, TypeOK
  <2> QED
    BY <2>1, <2>2, <2>3
<1>3. ASSUME NEW w \in Worker, EndEpisode(w) PROVE IInv'
  <2> DEFINE t == serving[w]
  <2>1. w[1] \in Job /\ t \in Task
    BY <1>3 DEF Worker, EndEpisode, TypeOK
  <2>2. gauge' = gauge - 1 /\ slots' = slots + 1
    BY <1>3 DEF EndEpisode, GaugeAfter
  <2>3. SlotsAreExact' /\ GaugeIsExact'
    BY <1>3, <2>2, EndCounts, RunningIsFinite, SMTT(30)
    DEF SlotsAreExact, GaugeIsExact, Running, TypeOK
  <2>4. slots' \in 0 .. Workers /\ gauge' \in Nat
    BY <1>3, <2>2, EndCounts, RunningIsFinite, SMTT(30)
    DEF SlotsAreExact, GaugeIsExact, Running, TypeOK
  <2>5. results' \in [Job -> Seq(Task)] /\ buffer' \in Seq(Task)
    BY <1>3, <2>1 DEF EndEpisode, ResultsAfter, TypeOK
  <2>6. TypeOK'
    BY <1>3, <2>1, <2>4, <2>5 DEF EndEpisode, TypeOK, episodeVars
  <2>7. NoInstanceLeaks'
    BY <1>3, <2>1 DEF EndEpisode, NoInstanceLeaks, InStage, TypeOK
  <2> QED
    BY <2>3, <2>6, <2>7
<1>4. ASSUME NEW t \in Task, Episode(t) PROVE IInv'
  <2>1. TypeOK'
    <3>1. PICK new \in Active : stage' = [stage EXCEPT ![t] = new]
      BY <1>4, EpisodeKeepsRunning
    <3>2. UNCHANGED <<poolVars, slots, gauge, outputVars, leaked>>
      BY <1>4, EpisodeKeepsRunning
    <3>3. instances' \in {instances, instances \cup {t}}
      BY <1>4, EpisodeKeepsRunning
    <3>4. steps' \in [Task -> Seq(Step)] /\ success' \in [Task -> BOOLEAN]
      BY <1>4, StepsAreTyped
    <3>5. stage' \in [Task -> Active \cup {"waiting", "recorded", "dropped"}]
      BY <3>1 DEF TypeOK
    <3> QED
      BY <3>2, <3>3, <3>4, <3>5 DEF TypeOK, poolVars, outputVars
  <2>2. SlotsAreExact' /\ GaugeIsExact'
    BY <1>4, EpisodeKeepsRunning DEF SlotsAreExact, GaugeIsExact, Running
  <2>3. NoInstanceLeaks'
    <3>1. PICK new \in Active : stage' = [stage EXCEPT ![t] = new]
      BY <1>4, EpisodeKeepsRunning
    <3>2. leaked' = leaked /\ instances' \in {instances, instances \cup {t}}
      BY <1>4, EpisodeKeepsRunning
    <3> QED
      BY <3>1, <3>2 DEF NoInstanceLeaks, InStage, TypeOK, Active
  <2> QED
    BY <2>1, <2>2, <2>3
<1>5. CASE UNCHANGED vars
  BY <1>5
  DEF vars, poolVars, episodeVars, outputVars, TypeOK, SlotsAreExact, GaugeIsExact,
      NoInstanceLeaks, InStage, Running
<1> QED
  BY <1>1, <1>2, <1>3, <1>4, <1>5 DEF Next, Work

\* It holds when nothing has been submitted.
LEMMA IInvInit == Init => IInv
<1> SUFFICES ASSUME Init PROVE IInv
  OBVIOUS
<1>1. Running = {}
  BY DEF Init, Running, InStage, Active
<1>2. Cardinality(Running) = 0
  BY <1>1, FS_EmptySet
<1> QED
  BY <1>2, TypeInit, EpisodeAssumption
  DEF IInv, Init, SlotsAreExact, GaugeIsExact, NoInstanceLeaks, Running

\* So it holds of every execution.
LEMMA Invariance == Spec => []IInv
BY IInvInit, IInvStep, PTL DEF Spec

\* Every state is typed; in particular the semaphore stays between nothing and
\* config.workers and the gauge does not go below zero.
THEOREM PoolTypes == Spec => []TypeOK
BY Invariance, PTL DEF IInv

\* SANDBOXES_ACTIVE is the number of episodes between their start and the end of
\* their finally, for any number of jobs on the pool.
THEOREM GaugeCounts == Spec => []GaugeIsExact
BY Invariance, PTL DEF IInv

\* The instance of an episode that is over is gone, unless its deletion failed.
THEOREM InstancesAreDeleted == Spec => []NoInstanceLeaks
BY Invariance, PTL DEF IInv

----------------------------------------------------------------------------
(* The refinement *)

\* The elements of a sequence that is one longer.
LEMMA ElemsAppend ==
    ASSUME NEW s \in Seq(Task), NEW t \in Task
    PROVE  Elems(Append(s, t)) = Elems(s) \cup {t}
<1>1. Len(Append(s, t)) = Len(s) + 1 /\ Len(s) \in Nat
  OBVIOUS
<1>2. \A i \in 1 .. Len(s) : Append(s, t)[i] = s[i]
  OBVIOUS
<1>3. Append(s, t)[Len(s) + 1] = t
  OBVIOUS
<1> QED
  BY <1>1, <1>2, <1>3 DEF Elems

\* The pool starts as the abstract pool does.
LEMMA PoolInit == Init => Pool!Init
BY DEF Init, Pool!Init, InStage, Active, Elems

\* Every step is one of the abstract pool, or changes nothing of it.
LEMMA PoolStep == IInv /\ [Next]_vars => [Pool!Next]_Pool!vars
<1> SUFFICES ASSUME IInv, [Next]_vars PROVE [Pool!Next]_Pool!vars
  OBVIOUS
<1> USE DEF IInv
<1>1. ASSUME NEW w \in Worker, TakeTask(w) \/ EndWorker(w) PROVE UNCHANGED Pool!vars
  BY <1>1 DEF TakeTask, EndWorker, Pool!vars, InStage, outputVars, Elems
<1>2. ASSUME NEW w \in Worker, BeginEpisode(w) PROVE Pool!Begin(serving[w])
  <2> DEFINE t == serving[w]
  <2>1. t \in Task /\ t \in InStage({"waiting"})
        /\ stage' = [stage EXCEPT ![t] = "setup"] /\ buffer' = buffer
    BY <1>2, BeginCounts DEF BeginEpisode, InStage, outputVars
  <2>2. /\ InStage({"waiting"})' = InStage({"waiting"}) \ {t}
        /\ InStage({"dropped"})' = InStage({"dropped"})
    BY <2>1 DEF InStage, TypeOK
  <2>3. InStage(Active)' = InStage(Active) \cup {t}
    BY <1>2, BeginCounts DEF Running
  <2>4. Cardinality(InStage(Active)) < Workers
    BY <1>2, RunningIsFinite, EpisodeAssumption
    DEF BeginEpisode, SlotFree, SlotsAreExact, Running
  <2>5. Elems(buffer)' = Elems(buffer)
    BY <2>1 DEF Elems
  <2> QED
    BY <2>1, <2>2, <2>3, <2>4, <2>5 DEF Pool!Begin, Pool!Cardinality, Cardinality
<1>3. ASSUME NEW w \in Worker, EndEpisode(w)
      PROVE  Pool!Record(serving[w]) \/ Pool!Drop(serving[w])
  <2> DEFINE t == serving[w]
  <2>1. t \in Task /\ t \in InStage(Active) /\ InStage(Active)' = InStage(Active) \ {t}
    BY <1>3, EndCounts DEF Running, InStage
  <2>2. CASE stage[t] = "cleanup"
    <3>1. stage' = [stage EXCEPT ![t] = "recorded"] /\ buffer' = Append(buffer, t)
      BY <1>3, <2>2 DEF EndEpisode
    <3>2. /\ InStage({"waiting"})' = InStage({"waiting"})
          /\ InStage({"dropped"})' = InStage({"dropped"})
      BY <2>1, <2>2, <3>1 DEF InStage, TypeOK
    <3>3. Elems(buffer)' = Elems(buffer) \cup {t}
      <4>1. Elems(buffer)' = Elems(buffer')
        BY DEF Elems
      <4> QED
        BY <2>1, <3>1, <4>1, ElemsAppend DEF TypeOK
    <3> QED
      BY <2>1, <3>2, <3>3 DEF Pool!Record
  <2>3. CASE stage[t] # "cleanup"
    <3>1. stage' = [stage EXCEPT ![t] = "dropped"] /\ buffer' = buffer /\ stage[t] = "abort"
      BY <1>3, <2>3 DEF EndEpisode
    <3>2. /\ InStage({"waiting"})' = InStage({"waiting"})
          /\ InStage({"dropped"})' = InStage({"dropped"}) \cup {t}
      BY <2>1, <2>3, <3>1 DEF InStage, TypeOK
    <3>3. Elems(buffer)' = Elems(buffer)
      BY <3>1 DEF Elems
    <3> QED
      BY <2>1, <3>2, <3>3 DEF Pool!Drop
  <2> QED
    BY <2>2, <2>3
<1>4. ASSUME NEW t \in Task, Episode(t) PROVE UNCHANGED Pool!vars
  <2>1. PICK new \in Active : stage' = [stage EXCEPT ![t] = new]
    BY <1>4, EpisodeKeepsRunning
  <2>2. t \in InStage(Active) /\ InStage(Active)' = InStage(Active) /\ buffer' = buffer
    BY <1>4, EpisodeKeepsRunning DEF Running, outputVars
  <2>3. /\ InStage({"waiting"})' = InStage({"waiting"})
        /\ InStage({"dropped"})' = InStage({"dropped"})
    BY <2>1, <2>2 DEF InStage, TypeOK, Active
  <2>4. Elems(buffer)' = Elems(buffer)
    BY <2>2 DEF Elems
  <2> QED
    BY <2>2, <2>3, <2>4 DEF Pool!vars
<1>5. CASE UNCHANGED vars
  BY <1>5 DEF vars, outputVars, Pool!vars, InStage, Elems
<1>6. \A w \in Worker : BeginEpisode(w) \/ EndEpisode(w) => serving[w] \in Task
  BY DEF BeginEpisode, EndEpisode, TypeOK
<1> QED
  BY <1>1, <1>2, <1>3, <1>4, <1>5, <1>6 DEF Next, Work, Pool!Next

\* Whatever jobs share a pool of any size, and whatever their episodes raise, a task
\* is taken up once, at most config.workers at a time, and recorded or dropped.
THEOREM PoolRefinement == Spec => ImplementsPool
<1>1. Init => Pool!Init
  BY PoolInit
<1>2. IInv /\ [Next]_vars => [Pool!Next]_Pool!vars
  BY PoolStep
<1> QED
  BY <1>1, <1>2, Invariance, PTL DEF Spec, ImplementsPool, Pool!Spec

----------------------------------------------------------------------------
(* The trajectories *)

\* No step so far was the last, and the limit is not reached.
GoesOn(t) ==
    /\ Len(steps[t]) < MaxSteps
    /\ success[t] = FALSE
    /\ \A i \in 1 .. Len(steps[t]) : ~steps[t][i].done /\ ~steps[t][i].rewarded

StepsInv == \A t \in Task :
    /\ stage[t] \in {"waiting", "setup"} => steps[t] = <<>> /\ success[t] = FALSE
    /\ stage[t] = "step" => GoesOn(t)
    /\ stage[t] \in {"verify", "cleanup", "recorded"} => IsSound(t)

BufferInv == Elems(buffer) \subseteq InStage({"recorded"})

TInv == StepsInv /\ BufferInv

\* A step after steps that were not the last: it is the last, or the episode goes on.
LEMMA OneMoreStep ==
    ASSUME TypeOK, NEW t \in Task, GoesOn(t), NEW new \in Step,
           steps' = [steps EXCEPT ![t] = Append(@, new)],
           success' \in [Task -> BOOLEAN],
           new.rewarded => new.done /\ success'[t]
    PROVE  /\ new.done => IsSound(t)'
           /\ /\ ~new.done /\ success'[t] = FALSE
              /\ Len(steps[t]) + 1 # MaxSteps
              => GoesOn(t)'
<1> DEFINE n == Len(steps[t])
<1>1. steps[t] \in Seq(Step) /\ n \in Nat /\ n < MaxSteps /\ MaxSteps \in Nat
  BY EpisodeAssumption DEF TypeOK, GoesOn
<1>2. /\ steps'[t] = Append(steps[t], new)
      /\ Len(steps'[t]) = n + 1
      /\ steps'[t][n + 1] = new
      /\ \A i \in 1 .. n : steps'[t][i] = steps[t][i]
  BY <1>1 DEF TypeOK
<1>3. \A i \in 1 .. n : ~steps'[t][i].done /\ ~steps'[t][i].rewarded
  BY <1>2 DEF GoesOn
<1> HIDE DEF n
<1>4. ASSUME new.done PROVE IsSound(t)'
  <2>1. ASSUME NEW i \in 1 .. n + 1
        PROVE  /\ steps'[t][i].done <=> i = n + 1
               /\ steps'[t][i].rewarded => i = n + 1 /\ success'[t]
    <3>1. CASE i = n + 1
      BY <1>2, <1>4, <3>1
    <3>2. CASE i # n + 1
      <4>1. i \in 1 .. n
        BY <1>1, <3>2
      <4> QED
        BY <1>3, <3>2, <4>1, Zenon
    <3> QED
      BY <3>1, <3>2
  <2> QED
    BY <1>1, <1>2, <2>1 DEF IsSound
<1>5. ASSUME ~new.done, success'[t] = FALSE, n + 1 # MaxSteps PROVE GoesOn(t)'
  <2>1. ASSUME NEW i \in 1 .. n + 1 PROVE ~steps'[t][i].done /\ ~steps'[t][i].rewarded
    <3>1. CASE i = n + 1
      BY <1>2, <1>5, <3>1
    <3>2. CASE i # n + 1
      <4>1. i \in 1 .. n
        BY <1>1, <3>2
      <4> QED
        BY <1>3, <3>2, <4>1, Zenon
    <3> QED
      BY <3>1, <3>2
  <2>2. n + 1 < MaxSteps
    BY <1>1, <1>5
  <2> QED
    BY <1>2, <1>5, <2>1, <2>2 DEF GoesOn
<1> QED
  BY <1>4, <1>5 DEF n

\* What an episode does to its own steps is all that TInv sees of it.
LEMMA OthersKeepTheirSteps ==
    ASSUME TypeOK, TInv, NEW t \in Task, Episode(t),
           stage'[t] = "step" => GoesOn(t)',
           stage'[t] \in {"verify", "cleanup", "recorded"} => IsSound(t)',
           \A u \in Task \ {t} : steps'[u] = steps[u] /\ success'[u] = success[u]
    PROVE  TInv'
<1>1. PICK new \in Active : stage' = [stage EXCEPT ![t] = new]
  BY EpisodeKeepsRunning
<1>2. stage[t] \in {"setup", "step", "verify"} /\ stage'[t] # "setup" /\ stage'[t] \in Active
  BY <1>1 DEF Episode, SetUp, TakeStep, PolicyFails, FinalVerify, VerifyRaises, Raise,
              TypeOK, Active
<1>3. \A u \in Task \ {t} : stage'[u] = stage[u]
  BY <1>1 DEF TypeOK
<1>4. StepsInv'
  <2> SUFFICES ASSUME NEW u \in Task
               PROVE  /\ stage'[u] \in {"waiting", "setup"} =>
                            steps'[u] = <<>> /\ success'[u] = FALSE
                      /\ stage'[u] = "step" => GoesOn(u)'
                      /\ stage'[u] \in {"verify", "cleanup", "recorded"} => IsSound(u)'
    BY DEF StepsInv
  <2>1. CASE u = t
    BY <1>2, <2>1 DEF Active
  <2>2. CASE u # t
    BY <1>3, <2>2 DEF TInv, StepsInv, GoesOn, IsSound
  <2> QED
    BY <2>1, <2>2
<1>5. BufferInv'
  <2>1. buffer' = buffer
    BY EpisodeKeepsRunning DEF outputVars
  <2> QED
    BY <1>2, <1>3, <2>1 DEF TInv, BufferInv, InStage, Elems
<1> QED
  BY <1>4, <1>5 DEF TInv

\* The steps of an episode keep what is said of trajectories.
LEMMA EpisodeKeepsTInv ==
    ASSUME TypeOK, TInv, NEW t \in Task, Episode(t)
    PROVE  TInv'
<1>1. CASE SetUp(t) \/ VerifyRaises(t)
  <2>1. steps' = steps /\ success' = success
    BY <1>1 DEF SetUp, VerifyRaises, episodeVars
  <2>2. stage'[t] \in {"verify", "step", "abort"}
    BY <1>1 DEF SetUp, VerifyRaises, Raise, TypeOK
  <2>3. stage'[t] = "step" => GoesOn(t)'
    <3>1. stage'[t] = "step" => SetUp(t) /\ MaxSteps # 0
      BY <1>1 DEF SetUp, VerifyRaises, Raise, TypeOK
    <3>2. stage'[t] = "step" => steps[t] = <<>> /\ success[t] = FALSE
      BY <3>1 DEF SetUp, TInv, StepsInv
    <3> QED
      BY <2>1, <3>1, <3>2, EpisodeAssumption DEF GoesOn
  <2>4. stage'[t] = "verify" => IsSound(t)'
    <3>1. stage'[t] = "verify" => SetUp(t)
      BY <1>1 DEF SetUp, VerifyRaises, Raise, TypeOK
    <3>2. stage'[t] = "verify" => steps[t] = <<>>
      BY <3>1 DEF SetUp, TInv, StepsInv
    <3> QED
      BY <2>1, <3>2, EpisodeAssumption DEF IsSound
  <2> QED
    BY <2>1, <2>2, <2>3, <2>4, OthersKeepTheirSteps
<1>2. ASSUME NEW verified \in BOOLEAN, NEW isDone \in BOOLEAN, TakeStep(t, verified, isDone)
      PROVE  TInv'
  <2> DEFINE last == LastStep(t, verified, isDone)
             new == [done |-> last, rewarded |-> verified]
  <2>1. GoesOn(t) /\ success[t] = FALSE
    BY <1>2 DEF TakeStep, TInv, StepsInv, GoesOn
  <2>2. last \in BOOLEAN /\ (verified => last) /\ (Len(steps[t]) + 1 = MaxSteps => last)
    BY Zenon DEF LastStep
  <2>3. new \in Step /\ new.done = last /\ new.rewarded = verified
    BY <2>2 DEF Step
  <2>4. steps' = [steps EXCEPT ![t] = Append(@, new)]
    BY <1>2 DEF TakeStep
  <2>5. success' \in [Task -> BOOLEAN]
    BY StepsAreTyped
  <2>6. success'[t] <=> verified
    <3>1. success'[t] = SuccessAfter(t, verified)
      BY <1>2 DEF TakeStep, TypeOK
    <3> QED
      BY <2>1, <3>1, Zenon DEF SuccessAfter
  <2>7. stage'[t] = "step" => ~last
    BY <1>2 DEF TakeStep, TypeOK
  <2>8. stage'[t] \in {"verify", "cleanup", "recorded"} => last
    BY <1>2 DEF TakeStep, TypeOK
  <2>9. \A u \in Task \ {t} : steps'[u] = steps[u] /\ success'[u] = success[u]
    BY <1>2 DEF TakeStep, TypeOK
  <2> HIDE DEF last, new
  <2>10. new.rewarded => new.done /\ success'[t]
    BY <2>2, <2>3, <2>6
  <2>11. /\ new.done => IsSound(t)'
         /\ ~new.done /\ success'[t] = FALSE /\ Len(steps[t]) + 1 # MaxSteps => GoesOn(t)'
    BY <2>1, <2>3, <2>4, <2>5, <2>10, OneMoreStep
  <2>12. ~last => success'[t] = FALSE
    <3>1. success'[t] \in BOOLEAN
      BY <2>5
    <3> QED
      BY <2>2, <2>6, <3>1, Zenon
  <2>13. stage'[t] = "step" => GoesOn(t)'
    BY <2>2, <2>3, <2>7, <2>11, <2>12
  <2>14. stage'[t] \in {"verify", "cleanup", "recorded"} => IsSound(t)'
    BY <2>3, <2>8, <2>11
  <2> QED
    BY <2>9, <2>13, <2>14, OthersKeepTheirSteps
<1>3. CASE PolicyFails(t)
  <2> DEFINE new == [done |-> TRUE, rewarded |-> FALSE]
  <2>1. GoesOn(t) /\ success' = success
    BY <1>3 DEF PolicyFails, TInv, StepsInv
  <2>2. new \in Step /\ new.done = TRUE /\ new.rewarded = FALSE
    BY Zenon DEF Step
  <2>3. steps' = [steps EXCEPT ![t] = Append(@, new)]
    BY <1>3 DEF PolicyFails
  <2>4. success' \in [Task -> BOOLEAN]
    BY StepsAreTyped
  <2> HIDE DEF new
  <2>5. IsSound(t)'
    BY <2>1, <2>2, <2>3, <2>4, OneMoreStep
  <2>6. stage'[t] = "verify" /\ \A u \in Task \ {t} : steps'[u] = steps[u]
    BY <1>3 DEF PolicyFails, TypeOK
  <2> QED
    BY <2>1, <2>5, <2>6, OthersKeepTheirSteps
<1>4. ASSUME NEW verified \in BOOLEAN, FinalVerify(t, verified) PROVE TInv'
  <2>1. IsSound(t) /\ steps' = steps /\ stage'[t] = "cleanup"
    BY <1>4 DEF FinalVerify, TInv, StepsInv, TypeOK
  <2>2. success[t] => success'[t]
    <3>1. success'[t] = SuccessAfter(t, verified)
      BY <1>4 DEF FinalVerify, TypeOK
    <3> QED
      BY <3>1, Zenon DEF SuccessAfter
  <2>3. \A u \in Task \ {t} : success'[u] = success[u]
    BY <1>4 DEF FinalVerify, TypeOK
  <2>4. IsSound(t)'
    BY <2>1, <2>2 DEF IsSound
  <2> QED
    BY <2>1, <2>3, <2>4, OthersKeepTheirSteps
<1> QED
  BY <1>1, <1>2, <1>3, <1>4 DEF Episode

\* So does every step of the pool.
LEMMA TInvStep == TypeOK /\ TInv /\ [Next]_vars => TInv'
<1> SUFFICES ASSUME TypeOK, TInv, [Next]_vars PROVE TInv'
  OBVIOUS
<1>1. ASSUME NEW w \in Worker, TakeTask(w) \/ EndWorker(w) PROVE TInv'
  BY <1>1
  DEF TakeTask, EndWorker, episodeVars, outputVars, TInv, StepsInv, BufferInv, GoesOn,
      IsSound, Elems, InStage
<1>2. ASSUME NEW w \in Worker, BeginEpisode(w) PROVE TInv'
  <2> DEFINE t == serving[w]
  <2>1. t \in Task /\ stage[t] = "waiting" /\ stage' = [stage EXCEPT ![t] = "setup"]
    BY <1>2, BeginCounts DEF BeginEpisode
  <2>2. steps' = steps /\ success' = success /\ buffer' = buffer
    BY <1>2 DEF BeginEpisode, episodeVars, outputVars
  <2> QED
    BY <2>1, <2>2
    DEF TypeOK, TInv, StepsInv, BufferInv, GoesOn, IsSound, Elems, InStage
<1>3. ASSUME NEW w \in Worker, EndEpisode(w) PROVE TInv'
  <2> DEFINE t == serving[w]
  <2>1. t \in Task /\ stage[t] \in {"cleanup", "abort"} /\ steps' = steps /\ success' = success
    BY <1>3 DEF EndEpisode, episodeVars, TypeOK
  <2>2. CASE stage[t] = "cleanup"
    <3>1. stage' = [stage EXCEPT ![t] = "recorded"] /\ buffer' = Append(buffer, t)
      BY <1>3, <2>2 DEF EndEpisode
    <3>2. StepsInv'
      BY <2>1, <2>2, <3>1 DEF TypeOK, TInv, StepsInv, GoesOn, IsSound
    <3>3. Elems(buffer') = Elems(buffer) \cup {t}
      BY <2>1, <3>1, ElemsAppend DEF TypeOK
    <3>4. InStage({"recorded"})' = InStage({"recorded"}) \cup {t}
      BY <2>1, <3>1 DEF InStage, TypeOK
    <3>5. Elems(buffer)' = Elems(buffer')
      BY DEF Elems
    <3>6. BufferInv'
      BY <3>3, <3>4, <3>5 DEF TInv, BufferInv
    <3> QED
      BY <3>2, <3>6 DEF TInv
  <2>3. CASE stage[t] # "cleanup"
    <3>1. stage' = [stage EXCEPT ![t] = "dropped"] /\ buffer' = buffer /\ stage[t] = "abort"
      BY <1>3, <2>1, <2>3 DEF EndEpisode
    <3>2. StepsInv'
      BY <2>1, <3>1 DEF TypeOK, TInv, StepsInv, GoesOn, IsSound
    <3>3. InStage({"recorded"})' = InStage({"recorded"})
      BY <2>1, <3>1 DEF InStage, TypeOK
    <3>4. BufferInv'
      BY <3>1, <3>3 DEF TInv, BufferInv, Elems
    <3> QED
      BY <3>2, <3>4 DEF TInv
  <2> QED
    BY <2>2, <2>3
<1>4. ASSUME NEW t \in Task, Episode(t) PROVE TInv'
  BY <1>4, EpisodeKeepsTInv
<1>5. CASE UNCHANGED vars
  BY <1>5
  DEF vars, episodeVars, outputVars, TInv, StepsInv, BufferInv, GoesOn, IsSound, Elems,
      InStage
<1> QED
  BY <1>1, <1>2, <1>3, <1>4, <1>5 DEF Next, Work

\* A trajectory in the buffer, of whatever length, ends with its only done step, and
\* the success reward is on that step of a successful episode or nowhere.
THEOREM SoundTrajectories == Spec => []TrajectoriesAreSound
<1>1. Init => TInv
  BY DEF Init, TInv, StepsInv, BufferInv, Elems
<1>2. TypeOK /\ TInv /\ [Next]_vars => TInv'
  BY TInvStep
<1>3. TypeOK /\ TInv => TrajectoriesAreSound
  BY DEF TInv, StepsInv, BufferInv, TrajectoriesAreSound, InStage
<1> QED
  BY <1>1, <1>2, <1>3, PoolTypes, PTL DEF Spec

----------------------------------------------------------------------------
(* The results *)

\* Without repetitions.
Once(s) == \A i, k \in 1 .. Len(s) : s[i] = s[k] => i = k

\* A job's queue and its workers hold tasks of that job.
OwnTasks ==
    /\ \A j \in Job : Elems(queue[j]) \subseteq Elems(Batch[j])
    /\ \A w \in Worker : serving[w] # NoTask => serving[w] \in Elems(Batch[w[1]])

\* A job's list so far is what the buffer has of its tasks, each once.
HandedBack ==
    \A j \in Job : /\ Elems(results[j]) = Elems(Batch[j]) \cap Elems(buffer)
                   /\ Once(results[j])

\* Every recorded trajectory is in the buffer, once.
BufferHasAll == Once(buffer) /\ InStage({"recorded"}) \subseteq Elems(buffer)

Over == InStage({"recorded", "dropped"})

\* A task of a job is on its queue, with one of its workers, or over; a worker that has
\* ended left nothing behind.
NothingLost ==
    /\ \A j \in Job : \A t \in Elems(Batch[j]) :
           \/ t \in Elems(queue[j])
           \/ \E i \in 1 .. Workers : serving[<<j, i>>] = t
           \/ t \in Over
    /\ \A w \in ended : serving[w] = NoTask /\ queue[w[1]] = <<>>

RInv == OwnTasks /\ HandedBack

\* A task is in the batch of one job.
LEMMA BatchesDiffer ==
    ASSUME NEW t \in Task, NEW j \in Job, NEW k \in Job,
           t \in Elems(Batch[j]), t \in Elems(Batch[k])
    PROVE  j = k
  BY BatchAssumption DEF Elems

\* A new element is no repetition.
LEMMA OnceAppend ==
    ASSUME NEW s \in Seq(Task), NEW t \in Task, Once(s), t \notin Elems(s)
    PROVE  Once(Append(s, t))
<1>1. Len(Append(s, t)) = Len(s) + 1 /\ Len(s) \in Nat
  OBVIOUS
<1>2. \A i \in 1 .. Len(s) : Append(s, t)[i] = s[i]
  OBVIOUS
<1>3. Append(s, t)[Len(s) + 1] = t
  OBVIOUS
<1> QED
  BY <1>1, <1>2, <1>3 DEF Elems, Once

\* Steps that leave results and buffer alone.
LEMMA NothingHandedBack ==
    ASSUME HandedBack, results' = results, buffer' = buffer
    PROVE  HandedBack'
<1> SUFFICES ASSUME NEW j \in Job
             PROVE  /\ Elems(results[j])' = Elems(Batch[j])' \cap Elems(buffer)'
                    /\ Once(results[j])'
  BY DEF HandedBack
<1>1. /\ Elems(results[j])' = Elems(results[j]) /\ Elems(buffer)' = Elems(buffer)
      /\ Elems(Batch[j])' = Elems(Batch[j])
  BY DEF Elems
<1>2. Once(results[j])' <=> Once(results[j])
  BY DEF Once
<1> QED
  BY <1>1, <1>2 DEF HandedBack

\* A sequence without repetitions is as long as it has elements.
LEMMA OnceCounts ==
    ASSUME NEW s \in Seq(Task), Once(s)
    PROVE  Len(s) = Cardinality(Elems(s))
<1>1. s \in [1 .. Len(s) -> Elems(s)] /\ Len(s) \in Nat
  BY DEF Elems
<1>2. s \in Bijection(1 .. Len(s), Elems(s))
  BY <1>1 DEF Bijection, Injection, Surjection, IsInjective, Once, Elems
<1> QED
  BY <1>1, <1>2, FS_CountingElements DEF ExistsBijection

\* What is taken from a queue, and what is left, was in it.
LEMMA QueueTakes ==
    ASSUME NEW q \in Seq(Task), q # <<>>
    PROVE  /\ Head(q) \in Elems(q)
           /\ Elems(Tail(q)) \subseteq Elems(q)
           /\ Elems(q) \subseteq Elems(Tail(q)) \cup {Head(q)}
<1>1. Len(q) \in Nat \ {0} /\ Head(q) = q[1]
  OBVIOUS
<1>2. Len(Tail(q)) = Len(q) - 1 /\ \A i \in 1 .. Len(q) - 1 : Tail(q)[i] = q[i + 1]
  OBVIOUS
<1>3. ASSUME NEW i \in 1 .. Len(q), i # 1 PROVE q[i] \in Elems(Tail(q))
  <2>1. i - 1 \in 1 .. Len(q) - 1 /\ Tail(q)[i - 1] = q[i]
    BY <1>1, <1>2, <1>3
  <2> QED
    BY <1>2, <2>1 DEF Elems
<1> QED
  BY <1>1, <1>2, <1>3 DEF Elems

\* Only a worker that takes a task, or ends one, touches queues and results.
LEMMA RInvStep == TypeOK /\ BufferInv /\ RInv /\ [Next]_vars => RInv'
<1> SUFFICES ASSUME TypeOK, BufferInv, RInv, [Next]_vars PROVE RInv'
  OBVIOUS
<1>1. ASSUME NEW w \in Worker, TakeTask(w) PROVE RInv'
  <2> DEFINE j == w[1]
             q == queue[j]
  <2>1. /\ j \in Job /\ q \in Seq(Task) /\ q # <<>>
        /\ serving' = [serving EXCEPT ![w] = Head(q)]
        /\ queue' = [queue EXCEPT ![j] = Tail(q)]
        /\ results' = results /\ buffer' = buffer
    BY <1>1 DEF TakeTask, Worker, TypeOK, outputVars
  <2>2. Head(q) \in Elems(q) /\ Elems(Tail(q)) \subseteq Elems(q)
    BY <2>1, QueueTakes
  <2>3. Elems(q) \subseteq Elems(Batch[j])
    BY <2>1 DEF RInv, OwnTasks
  <2>4. \A k \in Job : Elems(queue'[k]) \subseteq Elems(Batch[k])
    BY <2>1, <2>2, <2>3 DEF RInv, OwnTasks, TypeOK
  <2>5. \A u \in Worker : serving'[u] # NoTask => serving'[u] \in Elems(Batch[u[1]])
    BY <2>1, <2>2, <2>3 DEF RInv, OwnTasks, TypeOK
  <2>6. HandedBack'
    BY <2>1, NothingHandedBack DEF RInv
  <2>7. OwnTasks'
    BY <2>4, <2>5 DEF OwnTasks, Elems
  <2> QED
    BY <2>6, <2>7 DEF RInv
<1>2. ASSUME NEW w \in Worker, EndEpisode(w) PROVE RInv'
  <2> DEFINE t == serving[w]
             j == w[1]
  <2>1. /\ j \in Job /\ t \in Task /\ t # NoTask /\ stage[t] \in {"cleanup", "abort"}
        /\ queue' = queue /\ serving' = [serving EXCEPT ![w] = NoTask]
    BY <1>2, EpisodeAssumption DEF EndEpisode, Worker, TypeOK
  <2>2. t \in Elems(Batch[j])
    BY <2>1 DEF RInv, OwnTasks
  <2>3. OwnTasks'
    BY <2>1, ZenonT(30) DEF RInv, OwnTasks, TypeOK, Elems
  <2>4. CASE stage[t] = "cleanup"
    <3>1. /\ buffer' = Append(buffer, t)
          /\ results' = [results EXCEPT ![j] = Append(results[j], t)]
      BY <1>2, <2>4 DEF EndEpisode, ResultsAfter
    <3>2. t \notin Elems(buffer)
      BY <2>4 DEF BufferInv, InStage
    <3>3. /\ buffer \in Seq(Task) /\ results[j] \in Seq(Task)
          /\ Elems(results[j]) = Elems(Batch[j]) \cap Elems(buffer) /\ Once(results[j])
      BY <2>1 DEF TypeOK, RInv, HandedBack
    <3>4. /\ Elems(buffer') = Elems(buffer) \cup {t}
          /\ Elems(results'[j]) = Elems(results[j]) \cup {t} /\ Once(results'[j])
          /\ \A k \in Job \ {j} : results'[k] = results[k] /\ t \notin Elems(Batch[k])
      <4>1. /\ results'[j] = Append(results[j], t)
            /\ \A k \in Job \ {j} : results'[k] = results[k]
        BY <2>1, <3>1 DEF TypeOK
      <4>2. \A k \in Job \ {j} : t \notin Elems(Batch[k])
        BY <2>1, <2>2, BatchesDiffer
      <4> QED
        BY <2>1, <3>1, <3>2, <3>3, <4>1, <4>2, ElemsAppend, OnceAppend
    <3>5. ASSUME NEW k \in Job
          PROVE  Elems(results'[k]) = Elems(Batch[k]) \cap Elems(buffer') /\ Once(results'[k])
      <4>1. CASE k = j
        BY <2>2, <3>3, <3>4, <4>1
      <4>2. CASE k # j
        BY <3>4, <4>2 DEF RInv, HandedBack
      <4> QED
        BY <4>1, <4>2
    <3>6. HandedBack'
      BY <3>5 DEF HandedBack, Elems, Once
    <3> QED
      BY <2>3, <3>6 DEF RInv
  <2>5. CASE stage[t] # "cleanup"
    <3>1. buffer' = buffer /\ results' = results
      BY <1>2, <2>5 DEF EndEpisode, ResultsAfter
    <3>2. HandedBack'
      BY <3>1, NothingHandedBack DEF RInv
    <3> QED
      BY <2>3, <3>2 DEF RInv
  <2> QED
    BY <2>4, <2>5
<1>3. CASE UNCHANGED <<queue, serving, outputVars>>
  <2>1. HandedBack'
    BY <1>3, NothingHandedBack DEF RInv, outputVars
  <2>2. OwnTasks'
    BY <1>3 DEF RInv, OwnTasks, Elems
  <2> QED
    BY <2>1, <2>2 DEF RInv
<1> QED
  BY <1>1, <1>2, <1>3
  DEF Next, Work, EndWorker, BeginEpisode, Episode, SetUp, TakeStep, PolicyFails, FinalVerify,
      VerifyRaises, poolVars, vars

\* Only the end of a recorded episode touches the buffer, with a task it does not have.
LEMMA BufferStep == TypeOK /\ BufferInv /\ BufferHasAll /\ [Next]_vars => BufferHasAll'
<1> SUFFICES ASSUME TypeOK, BufferInv, BufferHasAll, [Next]_vars PROVE BufferHasAll'
  OBVIOUS
<1>1. ASSUME NEW w \in Worker, EndEpisode(w) PROVE BufferHasAll'
  <2> DEFINE t == serving[w]
  <2>1. t \in Task /\ buffer \in Seq(Task)
    BY <1>1 DEF EndEpisode, TypeOK
  <2>2. CASE stage[t] = "cleanup"
    <3>1. buffer' = Append(buffer, t) /\ stage' = [stage EXCEPT ![t] = "recorded"]
      BY <1>1, <2>2 DEF EndEpisode
    <3>2. t \notin Elems(buffer)
      BY <2>2 DEF BufferInv, InStage
    <3>3. Once(buffer') /\ Elems(buffer') = Elems(buffer) \cup {t}
      BY <2>1, <3>1, <3>2, OnceAppend, ElemsAppend DEF BufferHasAll
    <3>4. InStage({"recorded"})' = InStage({"recorded"}) \cup {t}
      BY <2>1, <3>1 DEF InStage, TypeOK
    <3> QED
      BY <3>3, <3>4 DEF BufferHasAll, Elems, Once
  <2>3. CASE stage[t] # "cleanup"
    <3>1. buffer' = buffer /\ stage' = [stage EXCEPT ![t] = "dropped"]
      BY <1>1, <2>3 DEF EndEpisode
    <3>2. InStage({"recorded"})' \subseteq InStage({"recorded"})
      BY <2>1, <3>1 DEF InStage, TypeOK
    <3> QED
      BY <3>1, <3>2 DEF BufferHasAll, Elems, Once
  <2> QED
    BY <2>2, <2>3
<1>2. ASSUME NEW t \in Task, Episode(t) PROVE BufferHasAll'
  <2>1. buffer' = buffer /\ \E new \in Active : stage' = [stage EXCEPT ![t] = new]
    BY <1>2, EpisodeKeepsRunning DEF outputVars
  <2>2. InStage({"recorded"})' \subseteq InStage({"recorded"})
    BY <2>1 DEF InStage, TypeOK, Active
  <2> QED
    BY <2>1, <2>2 DEF BufferHasAll, Elems, Once
<1>3. ASSUME NEW w \in Worker, BeginEpisode(w) PROVE BufferHasAll'
  <2>1. buffer' = buffer /\ stage' = [stage EXCEPT ![serving[w]] = "setup"]
    BY <1>3 DEF BeginEpisode, outputVars
  <2>2. InStage({"recorded"})' \subseteq InStage({"recorded"})
    BY <2>1 DEF InStage, TypeOK
  <2> QED
    BY <2>1, <2>2 DEF BufferHasAll, Elems, Once
<1>4. CASE UNCHANGED <<buffer, stage>>
  BY <1>4 DEF BufferHasAll, Elems, Once, InStage
<1> QED
  BY <1>1, <1>2, <1>3, <1>4 DEF Next, Work, TakeTask, EndWorker, outputVars, vars

\* A task goes from the queue to a worker, and from the worker to its end.
LEMMA LostStep == TypeOK /\ NothingLost /\ [Next]_vars => NothingLost'
<1> SUFFICES ASSUME TypeOK, NothingLost, [Next]_vars PROVE NothingLost'
  OBVIOUS
<1> USE DEF NothingLost
<1>1. ASSUME NEW w \in Worker, TakeTask(w) PROVE NothingLost'
  <2> DEFINE k == w[1]
             q == queue[k]
  <2>1. /\ k \in Job /\ q \in Seq(Task) /\ q # <<>> /\ w \notin ended
        /\ serving[w] = NoTask
        /\ serving' = [serving EXCEPT ![w] = Head(q)]
        /\ queue' = [queue EXCEPT ![k] = Tail(q)]
        /\ ended' = ended /\ stage' = stage
    BY <1>1 DEF TakeTask, Worker, TypeOK
  <2>2. Elems(q) \subseteq Elems(Tail(q)) \cup {Head(q)}
    BY <2>1, QueueTakes
  <2>3. ASSUME NEW j \in Job, NEW t \in Elems(Batch[j])
        PROVE  \/ t \in Elems(queue'[j])
               \/ \E i \in 1 .. Workers : serving'[<<j, i>>] = t
               \/ t \in Over
    <3>1. t \in Task
      BY <2>3, EpisodeAssumption DEF Elems
    <3>2. CASE \E i \in 1 .. Workers : serving[<<j, i>>] = t
      <4>1. PICK i \in 1 .. Workers : serving[<<j, i>>] = t
        BY <3>2
      <4>2. <<j, i>> # w /\ <<j, i>> \in Worker
        BY <2>1, <3>1, <4>1, EpisodeAssumption DEF Worker
      <4> QED
        BY <2>1, <4>1, <4>2 DEF TypeOK
    <3>3. CASE t \in Elems(queue[j]) /\ j = k
      <4>1. t \in Elems(Tail(q)) \/ t = Head(q)
        BY <2>2, <3>3
      <4>2. PICK i \in 1 .. Workers : w = <<k, i>>
        BY DEF Worker
      <4>3. serving'[<<k, i>>] = Head(q) /\ queue'[k] = Tail(q)
        BY <2>1, <4>2 DEF TypeOK
      <4> QED
        BY <3>3, <4>1, <4>3
    <3>4. CASE t \in Elems(queue[j]) /\ j # k
      BY <2>1, <3>4 DEF TypeOK
    <3> QED
      BY <2>3, <3>2, <3>3, <3>4
  <2>4. \A u \in ended' : serving'[u] = NoTask /\ queue'[u[1]] = <<>>
    BY <2>1 DEF TypeOK
  <2>5. Over' = Over
    BY <2>1 DEF Over, InStage
  <2> QED
    BY <2>3, <2>4, <2>5 DEF Elems
<1>2. ASSUME NEW w \in Worker, EndWorker(w) PROVE NothingLost'
  <2>1. /\ ended' = ended \cup {w} /\ serving[w] = NoTask /\ queue[w[1]] = <<>>
        /\ UNCHANGED <<queue, serving, stage>>
    BY <1>2 DEF EndWorker
  <2> QED
    BY <2>1 DEF Elems, Over, InStage
<1>3. ASSUME NEW w \in Worker, EndEpisode(w) PROVE NothingLost'
  <2> DEFINE e == serving[w]
  <2>1. /\ e \in Task /\ w \notin ended
        /\ serving' = [serving EXCEPT ![w] = NoTask]
        /\ UNCHANGED <<queue, ended>>
        /\ \E new \in {"recorded", "dropped"} : stage' = [stage EXCEPT ![e] = new]
    BY <1>3 DEF EndEpisode, TypeOK
  <2>2. Over' = Over \cup {e}
    BY <2>1 DEF Over, InStage, TypeOK
  <2>3. ASSUME NEW j \in Job, NEW i \in 1 .. Workers, NEW t \in Task, serving[<<j, i>>] = t
        PROVE  serving'[<<j, i>>] = t \/ t = e
    BY <2>1, <2>3 DEF TypeOK, Worker
  <2>4. \A j \in Job : Elems(Batch[j]) \subseteq Task
    BY EpisodeAssumption DEF Elems
  <2>5. ASSUME NEW j \in Job, NEW t \in Elems(Batch[j])
        PROVE  \/ t \in Elems(queue'[j])
               \/ \E i \in 1 .. Workers : serving'[<<j, i>>] = t
               \/ t \in Over'
    <3>1. t \in Task
      BY <2>4, <2>5
    <3>2. CASE \E i \in 1 .. Workers : serving[<<j, i>>] = t
      <4>1. PICK i \in 1 .. Workers : serving[<<j, i>>] = t
        BY <3>2
      <4> QED
        BY <2>2, <2>3, <3>1, <4>1
    <3>3. CASE t \in Elems(queue[j]) \/ t \in Over
      BY <2>1, <2>2, <3>3
    <3> QED
      BY <2>5, <3>2, <3>3
  <2>6. \A u \in ended' : serving'[u] = NoTask /\ queue'[u[1]] = <<>>
    BY <2>1 DEF TypeOK
  <2> QED
    BY <2>5, <2>6 DEF Elems
<1>4. ASSUME NEW w \in Worker, BeginEpisode(w) PROVE NothingLost'
  <2>1. /\ stage[serving[w]] = "waiting" /\ stage' = [stage EXCEPT ![serving[w]] = "setup"]
        /\ UNCHANGED poolVars
    BY <1>4 DEF BeginEpisode
  <2>2. Over' = Over
    BY <2>1 DEF Over, InStage, TypeOK
  <2> QED
    BY <2>1, <2>2 DEF Elems, poolVars
<1>5. ASSUME NEW t \in Task, Episode(t) PROVE NothingLost'
  <2>1. /\ t \in Running /\ UNCHANGED poolVars
        /\ \E new \in Active : stage' = [stage EXCEPT ![t] = new]
    BY <1>5, EpisodeKeepsRunning
  <2>2. Over' = Over
    BY <2>1 DEF Over, Running, InStage, Active, TypeOK
  <2> QED
    BY <2>1, <2>2 DEF Elems, poolVars
<1>6. CASE UNCHANGED vars
  BY <1>6 DEF vars, poolVars, Over, InStage, Elems
<1> QED
  BY <1>1, <1>2, <1>3, <1>4, <1>5, <1>6 DEF Next, Work

\* Whatever jobs share the workers and the buffer: when a job has returned its tasks are
\* over, and it hands over its recorded ones, each once; a benchmark nothing else.
THEOREM JobsGetTheirResults == Spec => []ResultsAreComplete
<1> DEFINE AllInv == TInv /\ RInv /\ BufferHasAll /\ NothingLost
<1>1. Init => AllInv
  <2> SUFFICES ASSUME Init PROVE AllInv
    OBVIOUS
  <2>1. TInv
    BY DEF Init, TInv, StepsInv, BufferInv, Elems
  <2>2. OwnTasks /\ HandedBack
    BY DEF Init, OwnTasks, HandedBack, Elems, Once
  <2>3. BufferHasAll /\ NothingLost
    BY DEF Init, BufferHasAll, NothingLost, Elems, Once, InStage
  <2> QED
    BY <2>1, <2>2, <2>3 DEF RInv
<1>2. TypeOK /\ AllInv /\ [Next]_vars => AllInv'
  BY TInvStep, RInvStep, BufferStep, LostStep DEF TInv
<1>3. TypeOK /\ AllInv => ResultsAreComplete
  <2> SUFFICES ASSUME TypeOK, AllInv, NEW j \in Job,
                      \A i \in 1 .. Workers : <<j, i>> \in ended
               PROVE  LET own == Elems(Batch[j])
                          handed == HandedOver(j)
                      IN  /\ own \subseteq InStage({"recorded", "dropped"})
                          /\ Elems(handed) \cap own = InStage({"recorded"}) \cap own
                          /\ j \in Collector \/ Elems(handed) \subseteq own
                          /\ Len(handed) = Cardinality(Elems(handed))
    BY DEF ResultsAreComplete
  <2> DEFINE own == Elems(Batch[j])
  <2>1. own \subseteq Over
    <3>1. 1 \in 1 .. Workers /\ <<j, 1>> \in ended
      BY EpisodeAssumption
    <3>2. queue[j] = <<>>
      BY <3>1 DEF NothingLost
    <3>3. \A i \in 1 .. Workers : serving[<<j, i>>] = NoTask
      BY DEF NothingLost
    <3>4. own \subseteq Task /\ Elems(queue[j]) = {}
      BY <3>2, EpisodeAssumption DEF Elems
    <3>5. ASSUME NEW t \in own PROVE t \in Over
      <4>1. \/ t \in Elems(queue[j])
            \/ \E i \in 1 .. Workers : serving[<<j, i>>] = t
            \/ t \in Over
        BY DEF NothingLost
      <4>2. t # NoTask
        BY <3>4, EpisodeAssumption
      <4> QED
        BY <3>3, <3>4, <4>1, <4>2
    <3> QED
      BY <3>5
  <2>2. Elems(buffer) = InStage({"recorded"})
    BY DEF TInv, BufferInv, BufferHasAll
  <2>3. /\ results[j] \in Seq(Task) /\ buffer \in Seq(Task)
        /\ Once(results[j]) /\ Elems(results[j]) = own \cap Elems(buffer)
        /\ Once(buffer)
    BY DEF TypeOK, RInv, HandedBack, BufferHasAll
  <2>4. /\ Len(results[j]) = Cardinality(Elems(results[j]))
        /\ Len(buffer) = Cardinality(Elems(buffer))
    BY <2>3, OnceCounts
  <2>5. CASE j \in Collector
    BY <2>1, <2>2, <2>4, <2>5 DEF HandedOver, Over
  <2>6. CASE j \notin Collector
    BY <2>1, <2>2, <2>3, <2>4, <2>6 DEF HandedOver, Over
  <2> QED
    BY <2>5, <2>6
<1>4. Spec => []TypeOK
  BY PoolTypes
<1> HIDE DEF AllInv
<1> QED
  BY <1>1, <1>2, <1>3, <1>4, PTL DEF Spec

=============================================================================
