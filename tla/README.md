# A TLA+ model of os-autofix-engine

The engine lets a language model repair faults that scenarios inject into sandboxed
machines. Around that loop it has an orchestrator with a pool of episodes, a swarm of
three agents with snapshots and reverts, a canary rollout over a fleet, a Raft-like
federation with a lock table, a gate for human approval, training loops, sandbox drivers
and monitoring. This directory holds TLA+ modules of its concurrent and failure-handling
core, TLC configurations that check them, and TLAPS proofs about them. `PROJECT.json`
lists every run, theorem, mapped definition, hazard and finding.

## Running the checks

    tlc -workers 2 -config MCClusterRaft.cfg MCClusterRaft.tla     # and the other runs
    tlapm ClusterRaftProofs.tla                                    # and the other *Proofs

The longest run, `components`, takes about four minutes, the others a minute or less.

## Inventory

| Component | State | Operations | What is hard |
|---|---|---|---|
| `engine/federation/cluster_raft.py` | role, term, vote, leader, peers, lock table per node | `start_election`, `broadcast_heartbeats`, `handle_message`, `acquire_lock`, `release_lock`, `register_in_memory_peer`, `run` | interleaved elections, answers of an old term, stale leaders, replicated and expiring locks |
| `engine/federation/cross_host_coordinator.py` | one session per call: lock, snapshots, results | `remediate_distributed_topology` | a lock that expires during the session, partial rollback |
| `security/approval_gate.py` | requests, events | `create_request`, `submit_and_wait`, `approve`, `reject` | a timer racing an answer, several waiters on one request |
| `engine/agents/*` | the guest; cycle, latest reports | `SwarmCoordinator.run`, `diagnose`, `remediate`, `audit` | a rejected attempt half undone, an audit that sees only part |
| `engine/fleet_orchestrator.py` | fleet, applied and rolled-back nodes | `execute_fleet_rollout`, `remediate_node` | concurrent nodes that raise, thresholds at the boundary, a revert that fails midway |
| `engine/orchestrator.py` | semaphore, queues, buffer, gauge | `run_benchmark`, `collect_dataset`, `run_single_episode`, `_worker_task` | jobs sharing one pool, an exception anywhere in an episode |
| `engine/client.py` | the messages of a request | `get_next_action` | retries, schema repair and connection errors in one request |
| `sandbox/*` | an instance and its snapshots | `setup`, `execute`, `create_snapshot`, `revert`, `cleanup` | timeouts, failures that are swallowed |
| `main.py` | the instances a command launches | one async function per command | concurrent invocations, exceptions and Ctrl-C between a launch and its deletion, shared instance names |
| `mcp_server/server.py` | table of live sandboxes | `tool_create_sandbox`, `tool_inject_fault`, `tool_exec_command`, `tool_verify_fix`, `tool_revert_sandbox`, `tool_destroy_sandbox` | calls that overlap on one sandbox |
| `engine/criu_state_preserver.py` | the daemon, its dump, the patch | checkpoint, patch, restore, roll back | steps that fail after they took effect |
| `engine/continuous_loop.py`, `engine/deployer.py`, `trainer/train_*` | current model, deployed tags | `run_loop`, `train_sft`, `train_grpo`, `deploy_model` | a failed deployment, promotion and rollback, an aliased configuration, a restart that reuses tags |
| `engine/host_watchdog.py`, `engine/chaos_daemon.py` | one experiment | `execute_shadow_validation`, `run_single_experiment`, `run` | a verdict on a canary that changes meanwhile |
| `trainer/mcts_search.py` | search tree, snapshots | select, expand, simulate, backpropagate | termination, rewards counted twice |
| `trainer/trajectory_buffer.py` | trajectories | `add_trajectory`, four exporters | episodes that end in different ways; pairing them |
| `engine/shadow_evaluator.py`, `engine/cascading_fuzzer.py`, `scenarios/synthesizer.py` | guests, verdict | twin comparison, compound faults, pre-flight check | faults that come and go, probes that see only part |
| `security/formal_verifier.py` | tables read from text | `verify_routing_table`, `verify_firewall_rules`, `verify_permission_boundaries`, `verify_remediation_diff` | order of entries, entries it misreads |
| `engine/arena.py` | ratings | duels | floating-point updates, one duel after the other |
| `security/*` (the rest), `monitoring/*`, `knowledge/*`, `scenarios/*` (the rest), `deploy/*`, `integrations/*` | pattern tables, counters, files | | little state; I/O |

The orchestrator creates sandboxes and calls the policy client and a scenario's verifier.
The fleet rollout runs one swarm (or one patch command) per node. The swarm and the
episodes use a sandbox only through `BaseSandbox`. The cross-host coordinator takes its
lock from a node of the federation. The continuous loop calls the orchestrator, the
trainers and the deployer. Everything concurrent is asyncio on one thread, so code
between two awaits is atomic, and the actions of the modules are such stretches of code.

### What makes each component correct

- Federation: one vote per node and term; one leader per term; followers only follow
  elected leaders; replication does not invent, prolong or move locks; a lock that every
  host agrees on is not taken away.
- Approval gate: one answer per request; no invented decision; a reported timeout is
  final; every call returns.
- Swarm: an attempt never builds on a rejected one; success means verified and free of
  rejected commands; a run ends.
- Fleet: a tier is only touched once the earlier ones have passed; the verdict agrees with
  the nodes' outcomes; a freeze sends back every node that was reached; the rollout returns.
- Episodes: bounded concurrency, each task once, recorded or dropped; no slot, gauge or
  instance lost on any path; sound trajectories; results that are complete and, of a
  benchmark, its own; jobs return.
- Dialogue: a request shows the policy the whole episode and nothing of another request; the
  datasets say what happened, and compare what can be compared.
- Commands: an instance a command made is deleted by it, whatever raises, and by no other.
- Canary experiments: a good verdict saw the fault before the fix and every domain healthy
  after it, and of twins the other one still broken; whether the fix is the cause, no verdict
  can tell.
- Sandbox drivers: a revert that did not raise restored what its snapshot saw.
- Hotpatch: patched if and only if reported restored.
- MCP server: no instance forgotten, no registered one gone, a clean snapshot is clean.
- Cross-host sessions: nobody but the clock, a heartbeat or a session of the same engine
  takes the lock in an engine's own table from a session; a node whose revert returned is as
  it was.
- Continuous loop: the model to roll back to is unchanged; a generation is judged by its own
  rate against that of the model it would replace.
- MCTS: the shallowest verified solution, exact replays, visits that add up, an end.
- Formal verifier: what is PROVED_SAFE is safe, where the verifier reads what is meant.

## Modules

| Module | Role |
|---|---|
| `ClusterRaft`, `MCClusterRaft`, `ClusterRaftProofs` | the federation |
| `ApprovalGate`, `ApprovalGateProofs` | the approval gate; small enough to be checked without an MC module |
| `Swarm`, `MCSwarm`, `SwarmProofs` | the coordinator and its three agents |
| `FleetRollout`, `MCFleetRollout`, `FleetRolloutProofs` | the canary rollout |
| `TaskPool` | abstract: what a pool of episodes promises |
| `EpisodePool`, `MCEpisodePool`, `EpisodePoolProofs` | the orchestrator's pool and episodes, shown to implement `TaskPool` |
| `PolicyDialogue` | the policy client, an episode's conversation, the exporters |
| `SandboxCommands` | the commands of `main.py` that use sandboxes, on one Incus host |
| `CanaryVerdicts` | watchdog, chaos, twin, fuzzing and pre-flight experiments |
| `SandboxDrivers` | Incus, Firecracker and Proxmox behind `BaseSandbox` |
| `Hotpatch` | the CRIU hotpatch |
| `McpServer` | the MCP tools and their registry |
| `CrossHost` | cross-host sessions |
| `ContinuousLoop` | the training loop, its trainers and the deployer |
| `FormalVerifier` | the configuration verifier |
| `MCComponents` | the nine modules above in one run |
| `MctsSearch` | the MCTS search |
| `SandboxProofs` | theorems about `SandboxCommands`, `SandboxDrivers`, `Hotpatch` and `McpServer` |
| `DecisionProofs` | theorems about `CanaryVerdicts`, `CrossHost` and `FormalVerifier` |
| `LearningProofs` | theorems about `ContinuousLoop`, `MctsSearch` and `PolicyDialogue` |

A definition named `Faulty...` stands above the one it is a mistake in. No specification
uses it; substituting it for the right one makes a property fail, which shows that the
property can fail.

### ClusterRaft

Per node: `role`, `currentTerm`, `votedFor`, `leaderId`, `votesReceived`, `peers`,
`peerNodes` and `locks` are the attributes of `ClusterRaftNode`. `toAsk`, `reply`,
`toBeat` and `payload` say how far the loops of `start_election` and
`broadcast_heartbeats` have come: `StartElection` and `BroadcastHeartbeats` are their
heads, `RequestVote`, `HandleVoteResponse` and `Heartbeat` their iterations (the handler
of the peer and that of the answer). `AcquireLock`, `PurgeLocks`, `ReleaseLock` and
`RegisterPeer` are the other methods. `ballots`, `elected` and `grants` are history.

`Yields` says whether awaiting a peer can suspend. With the in-memory peers of the code it
cannot (`FALSE`); `TRUE` is the network endpoint a comment on line 184 speaks of. The run
uses the code's own `FALSE`. The proofs about types, votes, leaders and lock entries hold for
either, so these stay right with suspending peers. `FollowsElected` and `AgreementIsStable`
are proved for `FALSE` only. For `TRUE` TLC refutes both on the cluster of the run: a heartbeat
loop that was suspended goes on with the payload it started with under the term its node has
by then, so it may speak for a term nobody elected it in, and put an older table over a newer.

The election timer is a nondeterministic moment. `FullMembership` (the `peers` argument
names the whole cluster) is what election safety needs: a node that counts a smaller
cluster can elect itself, see the hazards.

### ApprovalGate

`status` and `event` are the request and its `asyncio.Event`; `phase`, `wake` and
`decision` are a call of `submit_and_wait`. Setting an event or a timer firing only
schedules a waiting call (`wake`); `Resume` is what it does later. If both happen, Python
3.12 and later report a timeout and earlier versions do not; the project supports both,
so `TimerFires` is possible and not forced after the event. `Submit` may reuse any
earlier request, as `request=` allows.

### Swarm

The guest is the set of effects since the baseline snapshot, each labelled with its agent
and cycle. Any command can come from the language model at any step. A command that fails
or times out may or may not have taken effect. `Audit` reads the guest through probes that
can fail: a failing verifier probe shows a broken service, a failing `stat` shows a
harmless mode. `AuditRaises` and `RevertFails` are the awaits that can raise.

### FleetRollout

`phase`, `tier` and `todo` are where `execute_fleet_rollout` stands; `work` and `guest` are
each node's coroutine and its machine relative to its baseline. The nodes of a tier change
and finish in any order (`ChangeNode`, `FinishNode`), with success, failure or an
exception. `Judge` is everything between `gather` and the next await.

### EpisodePool and TaskPool

`queue`, `serving`, `ended` and `slots` are the workers and the semaphore; `stage`, `steps`
and `success` an episode; `instances`, `gauge`, `buffer` and `results` what it leaves. Stage
"abort" is an exception travelling through the episode's `finally`. `TaskPool` knows only
waiting, active, recorded and dropped tasks. `EpisodePool` implements it with
`active` as the episodes between their begin and the end of their `finally`, and
`recorded` as the tasks in the buffer.

A job is a call of `run_benchmark` or, in `Collector`, of `collect_dataset`. `HandedOver` is
what it returns: the first its own list, the second the buffer that all jobs of one
`Orchestrator` fill, whose other trajectories it therefore returns too. A launch that outlives
its client is no step here (it is one of `SandboxCommands`): the deletion that then finds
nothing is one that fails, and `leaked` names the task.

### PolicyDialogue

The episodes of one buffer, one after the other, each as its conversation. `Answer`,
`Malformed` and `ConnectionError` are what an attempt of `get_next_action` can come to; `Act`
is the rest of a step. Completions are numbered within an episode, so that an answer, the
observation after it, the action recorded and the turn exported can be told to belong
together. The exporters are operators on the buffer. `DialogueIsSound` has three parts:
`RequestsAreDialogues`, `ConversationsHappened` and `PreferencesAreComparable`. A GRPO sample
may be a success without the success reward, because the final pass gives none.

### SandboxCommands

A command is a script: the steps before its `try`, those in it and those in its `finally`,
whether it loops, whether it swallows exceptions, and whether its instance names are fixed.
Each script is named for the function it stands for; `watchdog_event` is
`execute_shadow_validation` as code that embeds the daemon calls it, since the watchdog command
itself only sleeps. `CmdLaunch`, `CmdWork`, `CmdAttach` and
`CmdDelete` are its steps, `CmdTurn` the end of a region, `CmdInterrupt` a Ctrl-C, and
`CmdLaunchEnds` the host finishing a launch whose client gave up. What happens inside a
guest between two of these steps is the subject of the other modules.

Between invocations only names are shared. test-env, synthesize-scenario and net-chaos may
take each other's instance or rules, and `CmdNoTheft` names them; that nobody else does
depends on where each command's launch stands.

### CanaryVerdicts

A guest is the set of its faults. `CanDrift` lets them come and go between any two awaits,
`CanRaise` lets any await raise. A verification is a probe per domain and guest (`CanProbe`),
the primary's first: `canLeft` is what it has still to probe, `canShown` what it found. What
the fuzzer's verification can see at all is `Probed`. The history `canFaulty` and `canClean`
says what was true of a guest at some moment of the verification, `canBefore` which guests were
faulty in the one before the swarm, `canLate` that a probe timed out, so that its output says
nothing.

`VerdictIsEarned` is stated over these: a verdict rests on what different moments showed, and
a primary that breaks again behind its probe, or heals by itself before the swarm runs, is
promoted by the code as by the model. What the code does guard against, and the property says,
is a fault that did not show before, a domain that was never clean after, and a fault that
healed on the untouched shadow, too. It claims nothing for the watchdog and the chaos daemon,
which look at nothing before the swarm runs.

### SandboxDrivers, Hotpatch and McpServer

`SandboxDrivers` distinguishes the guest and its snapshots from the dictionaries of the mock
mode, and lets calls raise after they took effect. The answers of Firecracker and Proxmox to
a load or rollback are not looked at by the code, so `RevertRestores` is claimed only where
they are (`Checked`). A Firecracker sandbox without a kernel image makes the mock files but
keeps `mock_mode` `FALSE`. `Hotpatch` is one `hotpatch_with_preservation`, every command
failing before or after its effect. In `McpServer` each await of a tool is a step of its call.

### CrossHost

Each engine has a raft node, and a session asks the lock table of that node only
(`ChAcquire`). `ChHeartbeat` copies an entry from one table into another and `ChExpire` drops
one after its 60 s, both at any moment; which node leads is the subject of `ClusterRaft`. Two
engines can so be inside at once, which is the finding of run `lock_exclusion` and is not
claimed away here. `ChSound` says what a session can rely on all the same. `ChLockKept`: its
engine's table keeps its entry unless that expired, was replaced by a heartbeat, or was released
by another session of the engine. `ChAllOrNothing`: of a session that met no other, every revert
that returned holds, every other node has at most its own repair, and "reverted" means that all
returned. Two engines repairing the same nodes at once can undo each other's work, which is why
`chMet` is in the premise.

### ContinuousLoop

One action per phase. `loopOllama` says which weights each tag has. The run may start from any
tag (`loopFirst`): tag 0 is outside the family, another is one of its own generations' (`--model
os-fixer:v2`), and once the loop comes to that generation it overwrites the model it goes back
to (`LoopReused`). A benchmark may measure any rate of any tag, also of one that does not exist:
the mock LLM asks no model, and an episode's final verification may pass without one. Training leaves a GGUF
file or not (`train_sft`; `train_grpo` never does), and without one the new tag is a copy of
the current model. `LoopDie` and `LoopRestart` are a crash and systemd: the loop starts again
at v1 over the registry it left.

### FormalVerifier

Entries are read one by one. A line of rules is what its text looks like to the verifier
(`says`, `names`, `global`, `lo`) and, independently, what it does to packets (`does`, `all`,
`appends`): that the two differ is what `FvMisread` says, and REJECT, port ranges, `-s
0.0.0.0/0`, a chain's policy and accepts for one source are the ways in which they do. A route
given as `dst` and `via` (`short`) is one whose gateway the loopback check does not read, though
the map of hops does. `fvFirst`, `fvRoutes` and `fvBad` record what the entries mean, `fvDoubt`
that one was misread; the exceptions in `ProvedSafeIsSafe` are exactly these. The bits of the
group and the largest modes, which lines 281 and 286-291 name and no line compares, are in
neither the model nor the property.

### MctsSearch

The tree is the sequence of its nodes. Selection, each candidate of an expansion,
backpropagation and extraction are steps; scores are left out, so any child that is not
pruned may be selected. Snapshots are the commands replayed since the fault.

## Runs

| Run | Bounds | Shows |
|---|---|---|
| `cluster_raft` | 3 nodes, full membership, one link still to be registered, 1 key, 2 terms, leases that lapse at the next tick (`Ttl` 0), a clock of 0..1 | `VoteOncePerTerm`, `ElectionSafety`, `LocksWereGranted`, `FollowsElected`, `AgreementIsStable` |
| `lock_exclusion` | the same cluster | a violation of `MutualExclusion` |
| `approval_gate` | 2 requests, 3 calls | `OneAnswer`, `DecisionsWereGiven`, `TimeoutIsFinal`, `EveryCallReturns` |
| `swarm` | 4 commands, the code's 2 cycles, 4 probes and 5 steps | `OneAttemptAtATime`, `SuccessIsSafe`, `RunEnds` |
| `swarm_rollback` | the same | a violation of `FailureIsRolledBack` |
| `fleet` | 4 nodes, 4 tier plans (rising; unsorted, so that a tier is empty; short of the fleet; two tiers rounding to the same node), thresholds 2, 34 and 50 % | `CanaryContainment`, `VerdictIsRight`, `RollbackReachesAll`, `RolloutReturns` |
| `fleet_atomic` | the same | a violation of `RollbackIsAtomic` |
| `episode_pool` | 2 jobs, a benchmark and a collection, 2 slots, 4 workers, 3 tasks, 2 steps | `GaugeIsExact`, `NoInstanceLeaks`, `TrajectoriesAreSound`, `ResultsAreComplete`, `ImplementsPool` |
| `episode_liveness` | 2 jobs, 1 slot, 2 workers, 3 tasks, 2 steps | `JobsEnd` |
| `components` | 2 invocations of any 2 of 12 commands, 2 experiments per loop; 2 fault domains, thresholds 5 and 25; 3 drivers, 2 values, 2 snapshots; 2 MCP callers, 2 instances; 2 engines with a table each, 2 sessions, 2 nodes; 2 iterations, 2 starts from any tag, pass rates of 40, 60 and 80 around a threshold of 50; 3 routes, 3 files and 2 lines of rules, 2 ports; 2 scenarios, 2 episodes of 2 steps, 0 or 3 attempts (the default), mock mode or not | `CmdNoLeak`, `CmdNoTheft`, `VerdictIsEarned`, `RevertRestores`, `PatchedIffRestored`, `McpSound`, `ChSound`, `StableIsIntact`, `JudgedFairly`, `ProvedSafeIsSafe`, `DialogueIsSound` |
| `mcts` | 2 commands, 3 simulations, depth 3, 2 branches | `MctsSound`, `SearchEndsOrSticks` |
| `mcts_ends` | 1 command, 2 simulations | a violation of `SearchEnds` |

`components` chooses one part at the start and leaves the others in an initial state; they
share no variables, so this explores each part in full without multiplying them. The runs
`cluster_raft`, `approval_gate`, `swarm`, `fleet` and `episode_pool` also check `TypeOK`;
those of the modules of `components` (`CmdTypeOK` and so on) and of `MctsSearch` are
invariants that TLC confirmed on the same bounds but that no run repeats; `LoopTypeOK` is
proved.

Why the bounds are enough: three nodes and two terms give split votes, a deposed leader
that still broadcasts and a node it cannot reach; a clock of 0..1 and a `Ttl` of 0 let a
lease expire at time 1 and be taken again. Three calls on two requests give two waiters on
one request beside another request. The swarm runs with the code's limits. Four nodes give
tiers of one, two and more nodes, one failure below, at and above a threshold, and reverts
after the one that fails. Three episodes on two slots overlap and make a third wait. Three
attempts mix two repairs with connection errors, two steps let repairs of one request leak
into the next, and two episodes make a preference pair. Two invocations are what theft and
leaks take; two rounds repeat an instance name or not. Two domains give a fault the fuzzer
sees and one it does not, and two probes with a moment between them. Two snapshots and two values tell a wrong revert from a right
one. Two MCP callers overlap in every pair of awaits. Two sessions in one engine, or in
two, meet at two nodes, and two tables are what a heartbeat takes. Two iterations promote,
reject and measure again, over the tags of a run before, with a restart at any point. Three
routes give a cycle and a way out of it; two lines a shadowed rule and a rule that overrides
another. Depth 3 lets a command be repeated twice, as pruning needs, and three simulations revisit
terminal and pruned nodes. The proofs lift the safety result of every passing run to every
value of the constants.

Deadlock is not checked in these runs: every one of the systems may really stop (bounds
reached, all calls returned, the run over). The liveness properties say that they do not
stop early.

### Fairness

`ClusterRaft` has none: nothing in it is promised to happen. In the other modules, weak
fairness stands for an event loop that runs what is scheduled, and for operations that
end: CLI calls, guest commands, HTTP requests and the gate's timer have timeouts. Nobody
is obliged to answer an approval request. `EpisodePool` assumes strong fairness of each
worker, because `asyncio.Semaphore` wakes its waiters in turn and a worker is therefore
not overtaken forever. `MctsFairSpec` assumes that the search, one coroutine whose awaits
have timeouts, goes on. The modules of `components` state no liveness: what they promise is
safety under exceptions and interruptions.

### Violations found

Four runs show where the code does less than its documentation says; `PROJECT.json`
quotes the lines.

- `acquire_lock` looks only at the node's own table, so two hosts can hold one key.
- The swarm's last rejected attempt is not reverted.
- A revert that raises during a fleet rollback is logged, and the rollout still reports
  that it was rolled back.
- The MCTS selection returns the node itself when all its children are pruned, and the search
  hangs there.

## Proofs

| Theorem | Statement |
|---|---|
| `TypeCorrect`, `VotesAreUnique`, `OneLeaderPerTerm`, `ReplicationInventsNothing` | `ClusterRaft`: types, `VoteOncePerTerm`, `ElectionSafety` (from `FullMembership`), `LocksWereGranted` |
| `GateTypes`, `AtMostOneAnswer`, `NoInventedDecision`, `TimeoutsAreFinal` | `ApprovalGate`: types, `OneAnswer`, `DecisionsWereGiven`, `TimeoutIsFinal` |
| `SwarmTypes`, `AttemptsAreSeparate`, `SuccessfulRunsAreSafe` | `Swarm`: types, `OneAttemptAtATime`, `SuccessIsSafe` |
| `PoolTypes`, `GaugeCounts`, `InstancesAreDeleted`, `SoundTrajectories`, `PoolRefinement` | `EpisodePool`: types, `GaugeIsExact`, `NoInstanceLeaks`, `TrajectoriesAreSound`, and `Spec => ImplementsPool` |
| `LoopTypes`, `RollbackTargetSurvives`, `JudgementsAreFair` | `ContinuousLoop`: types, `StableIsIntact`, `JudgedFairly` |
| `FollowersFollowElected`, `AgreementsLast` | `ClusterRaft` with in-memory peers (`~Yields`): `FollowsElected`, `AgreementIsStable` |
| `JobsGetTheirResults` | `EpisodePool`: `ResultsAreComplete` |
| `TypeCorrect`, `CanariesContain`, `VerdictsAreRight`, `RollbacksReachAll` | `FleetRollout`: types, `CanaryContainment`, `VerdictIsRight`, `RollbackReachesAll` |
| `CommandsLeakNothing`, `CommandsStealNothing` | `SandboxCommands`: `CmdNoLeak`, `CmdNoTheft` |
| `RevertsRestore`, `HotpatchesEndWhole`, `ToolsAreSound` | `SandboxDrivers`: `RevertRestores`; `Hotpatch`: `PatchedIffRestored`; `McpServer`: `McpSound` |
| `VerdictsAreEarned`, `SessionsAreSound`, `ProofsAreRight` | `CanaryVerdicts`: `VerdictIsEarned`; `CrossHost`: `ChSound`; `FormalVerifier`: `ProvedSafeIsSafe` |
| `SearchesAreSound`, `DialoguesAreSound` | `MctsSearch`: `MctsSound`; `PolicyDialogue`: `DialogueIsSound` |

They hold for every value of the constants that the named assumptions admit, which TLC
evaluates in the runs: the sizes and bounds are numbers, a `No...` value is none of the real
ones, and of the code they say only

- `ClusterAssumption`: the cluster is finite and no node has a link to itself;
- `EpisodeAssumption` and `BatchAssumption`: the tasks are finitely many, and each stands in
  one place of one batch, since every call of `run_benchmark` or `collect_dataset` makes its
  own tasks;
- `FleetAssumption`: a plan has a tier and its percentages are not negative. They need not
  rise or reach 100;
- `DriverAssumption`: the drivers are the code's three, and no value in a guest is the mark
  for a fresh one.

Each proof finds an inductive invariant, shows that every action keeps it, and that it
implies the property:

- Election safety: every vote is in `ballots` under the voter's term at the time, which
  makes votes unique. A leader is elected on answers that are all votes for it in the term
  it is elected in: `votesReceived` would not be enough by itself, because a candidate whose
  term was raised in the middle of its loop keeps its old set, so the invariant ties the set
  to the candidate's term only while it is a candidate. Two majorities of one full
  membership intersect (a lemma on cardinalities), so two leaders of a term would share a
  voter.
- Lock replication: the same statement as for tables is needed for the payload in flight.
- Followers and agreements: while no await of a peer suspends, one node is in one of its loops
  at a time (`Alone`), so a node that sends heartbeats is still the leader of the term it was
  elected in and what it sends is still its table (`LeadersElected`). A heartbeat then changes
  a table that already agreed with the sender's only where time has passed.
- Approval gate: a status records an accepted answer or a timeout, and a request whose
  event is not set has no answer; a decision is a status that was read.
- Swarm: what the remediation agent did to the guest is in the list the audit inspects, as
  long as no revert fails.
- Episode pool: `slots` and `gauge` both count the active episodes, so a free slot means
  that fewer than `Workers` are active. Per stage, an episode that goes on has neither a
  done step nor the reward, and one that is over is sound.
- Continuous loop: a generation is written to the tag of its iteration, and the current model
  is the one the run started from or has an earlier tag (`loopCurrent < loopIter`), so nothing
  overwrites it; a run started from one of its own tags is safe until its loop comes to that
  tag (`LoopReused`), and a restart goes back to the first tag with whatever it has. The baseline
  that is compared was measured in the same iteration, of the current model. The types need that
  an iteration makes at most one generation (`LoopBudget`).
- Results: queue and workers of a job hold tasks of that job (`OwnTasks`), its list of results
  is the buffer's part of its batch, each once (`HandedBack`), the buffer has every recorded
  task once (`BufferHasAll`), and a task that is not over is in a queue or with a worker
  (`NothingLost`), so that a job whose workers have ended has none left. That a task stands in
  one batch only is what keeps two jobs apart in one buffer.
- Fleet: the nodes judged are those of the finished tiers (`NodesFit`), which for any plan, also
  one that falls, are tiers of the fleet; an outcome is final, so the verdict of a tier does not
  change while later ones run; the nodes still to be rolled back, those rolled back and those
  whose revert failed are together the nodes judged (`RollbackFits`).
- Commands: an entry on the host is one its command may have made by where it stands in its
  script (`OwnFits`, `HoldFits`); two launches share a name only by a fixed name or as the same
  instance of the same round (`NamesDiffer`). The scripts enter only through lemmas on where
  launches and deletions stand in them (`StepsFit`, `OwnSteps`, `HoldSteps`).
- Drivers and hotpatch: each snapshot still holds what it saw, in the store of the mode it was
  taken in (`KeptAsTaken`); at each stage of a hotpatch it is settled whether the patch is in.
- MCP server: a sandbox that is being made belongs to its caller alone, one being deleted is no
  longer registered, an injection comes after the "snap-clean" (`CallFits`,
  `FaultFollowsClean`). This is what survives from one await to the next, whatever the other
  callers do.
- Canary verdicts: a domain still to be probed has been seen as it is now (`SeenAsItIs`), so a
  probe finds what was there at some moment of its verification; what was found was there, and a
  guest in which nothing was found was clean in every domain probed so far (`FoundIsTrue`). What
  the verification before the swarm showed is kept until the verdict.
- Cross-host sessions: sessions that are inside together know of one another (`TheyMet`); a
  session is inside under its engine's entry or can say why not (`LockKept`); one that met nobody
  finds each node as it left it (`AloneFits`), whatever the tables say.
- Formal verifier: until it refutes or doubts, the map has one gateway for each destination and
  each port has the status its first rule gives it, since a line that is not misread decides for
  the ports it decides for in fact. A map whose walks all leave it within as
  many hops as it has destinations has no loop: from a loop a walk never gets out.
- Search: a node's snapshot is its parent's and its own command, only nodes that ran have
  children (`TreeFits`); the best node is verified and no verified one is nearer (`BestFits`).
- Dialogue: while an episode goes on, the messages are the exchanges of its steps and the
  conversation to be exported says the same (`Talking`); a request adds the repairs since the
  last completion acted on, in their order (`Repaired`); what was recorded stays as it was when
  the episode ended (`Learnt`).

Recursive functions (`FvWalk`, `MctsPaths`, `MctsDescents`, the library's `FlattenSeq`) are
handled without induction over data: that such a function exists, and what it gives, is shown
by assuming the least argument for which it fails.

Only model-checked: liveness (`EveryCallReturns`, `RunEnds`, `RolloutReturns`, `JobsEnd`,
`SearchEndsOrSticks`), which is outside the prover's reach, and the four violations. Every
other property of a run is stated by a theorem.

## Not modelled

Text and I/O: prompts, logs, metrics, reports, argument parsing, file exports, knowledge
retrieval, MAC profiles and attestation (text and hashes without state), packaging and
provisioning. The arena (sequential duels and floating-point ratings). The training itself.
Cancellation of asyncio tasks, except for the Ctrl-C of `SandboxCommands`. Time, except in
`ClusterRaft`. The hazards without a property are listed with the reason in `PROJECT.json`.

## Plan

The modules of the plan are written, and the safety properties that the runs check are proved.
What is left is to relate components that meet in the code but not in the model: that a fleet's
node is a run of `Swarm`, that the tables of `CrossHost` are those of `ClusterRaft`, and types of
the remaining modules as theorems of their own. Liveness stays with TLC.
