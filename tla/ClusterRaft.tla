---------------------------- MODULE ClusterRaft ----------------------------
(***************************************************************************)
(* engine/federation/cluster_raft.py: leader election and the distributed  *)
(* lock table of ClusterRaftNode.                                          *)
(*                                                                         *)
(* A node's start_election and broadcast_heartbeats visit the peers in a   *)
(* loop and await each peer's handle_message.  One iteration of a loop is  *)
(* one action here (two for a vote: the peer's handler, then the           *)
(* candidate's handling of the answer).  The in-memory peers' handlers     *)
(* never suspend, so on the event loop nothing runs between two            *)
(* iterations: that is Yields = FALSE.  Yields = TRUE lets every await of  *)
(* the loops suspend, as it would if the "network endpoint" of the comment *)
(* on line 184 existed.                                                    *)
(*                                                                         *)
(* Left out: the randomised election timer (any node that is not a leader  *)
(* may start an election at any time) and run/stop's _running flag (no     *)
(* action is ever forced to happen).                                       *)
(***************************************************************************)
EXTENDS Naturals, FiniteSets

CONSTANTS
    Node,           \* the node_ids of the cluster
    Key,            \* the resource keys that get locked
    NoNode,         \* Python's None, for voted_for and leader_id
    NoLock,         \* a key that is absent from a lock table
    NoReply,        \* no VOTE_RESPONSE waits to be handled
    InitialPeers,   \* the constructor's "peers" argument, of each node
    InitialLinks,   \* the peers registered before the cluster is used
    Ttl,            \* acquire_lock's ttl_seconds, in ticks of the clock
    Yields,         \* may awaiting a peer's handler suspend?
    MaxTerm,        \* bound: elections that can be started
    MaxTime         \* bound: ticks of the clock

FOLLOWER == "FOLLOWER"
CANDIDATE == "CANDIDATE"
LEADER == "LEADER"

ASSUME ClusterAssumption ==
    /\ IsFiniteSet(Node)
    /\ NoNode \notin Node
    /\ InitialPeers \in [Node -> SUBSET Node]
    /\ InitialLinks \in [Node -> SUBSET Node]
    /\ \A i \in Node : i \notin InitialLinks[i]
    /\ Ttl \in Nat /\ MaxTerm \in Nat /\ MaxTime \in Nat
    /\ Yields \in BOOLEAN

Term == 0 .. MaxTerm
Time == 0 .. MaxTime
Lock == [holder : Node, acquired : Time]
VoteResponse == [from : Node, term : Term, granted : BOOLEAN]

ASSUME NullAssumption == NoLock \notin Lock /\ NoReply \notin VoteResponse

VARIABLES
    role, currentTerm, votedFor, leaderId,
    votesReceived,  \* _votes_received
    peers,          \* the node_ids a node counts as the cluster
    peerNodes,      \* _peer_nodes: the peers it can reach
    locks,          \* distributed_locks
    now             \* time.time()

\* Where the coroutines stand inside the two loops.
VARIABLES
    toAsk,          \* the peers start_election has yet to ask for a vote
    reply,          \* the answer of the peer it has just asked
    toBeat,         \* the peers broadcast_heartbeats has yet to reach
    payload         \* its locks_payload

\* History, read by no guard.
VARIABLES
    ballots,        \* every vote ever given
    elected,        \* every leadership ever won
    grants          \* every lock ever acquired

electionVars == <<role, currentTerm, votedFor, leaderId, votesReceived>>
memberVars == <<peers, peerNodes>>
askVars == <<toAsk, reply>>
beatVars == <<toBeat, payload>>
voteHistory == <<ballots, elected>>
vars == <<electionVars, memberVars, locks, now, askVars, beatVars,
          voteHistory, grants>>

Ballot == [voter : Node, term : Term, candidate : Node]
Leadership == [term : Term, node : Node]
Grant == [holder : Node, key : Key, acquired : Time]

TypeOK ==
    /\ role \in [Node -> {FOLLOWER, CANDIDATE, LEADER}]
    /\ currentTerm \in [Node -> Term]
    /\ votedFor \in [Node -> Node \cup {NoNode}]
    /\ leaderId \in [Node -> Node \cup {NoNode}]
    /\ votesReceived \in [Node -> SUBSET Node]
    /\ peers \in [Node -> SUBSET Node]
    /\ peerNodes \in [Node -> SUBSET Node]
    /\ locks \in [Node -> [Key -> Lock \cup {NoLock}]]
    /\ now \in Time
    /\ toAsk \in [Node -> SUBSET Node]
    /\ reply \in [Node -> VoteResponse \cup {NoReply}]
    /\ toBeat \in [Node -> SUBSET Node]
    /\ payload \in [Node -> [Key -> Lock \cup {NoLock}]]
    /\ ballots \subseteq Ballot
    /\ elected \subseteq Leadership
    /\ grants \subseteq Grant

NoLocks == [k \in Key |-> NoLock]

Init ==
    /\ role = [i \in Node |-> FOLLOWER]
    /\ currentTerm = [i \in Node |-> 0]
    /\ votedFor = [i \in Node |-> NoNode]
    /\ leaderId = [i \in Node |-> NoNode]
    /\ votesReceived = [i \in Node |-> {}]
    /\ peers = InitialPeers
    /\ peerNodes = InitialLinks
    /\ locks = [i \in Node |-> NoLocks]
    /\ now = 0
    /\ toAsk = [i \in Node |-> {}]
    /\ reply = [i \in Node |-> NoReply]
    /\ toBeat = [i \in Node |-> {}]
    /\ payload = [i \in Node |-> NoLocks]
    /\ ballots = {}
    /\ elected = {}
    /\ grants = {}

----------------------------------------------------------------------------
(* Helpers.  A Faulty... operator is a deliberate mistake in the operator below *)
(* it: no specification uses one, and substituting it shows that a property of  *)
(* this module can fail.                                                        *)

ClusterSize(i) == Cardinality(peers[i]) + 1
Majority(i) == (ClusterSize(i) \div 2) + 1

\* Does peer j grant a REQUEST_VOTE of i for this term?  A newer term first clears
\* j's vote.
FaultyGrantsVote(j, i, term) == term >= currentTerm[j]
GrantsVote(j, i, term) ==
    \/ term > currentTerm[j]
    \/ term = currentTerm[j] /\ votedFor[j] \in {NoNode, i}

\* Does candidate i count this answer?
FaultyCounted(i, resp) == role[i] = CANDIDATE /\ resp.term = currentTerm[i]
Counted(i, resp) ==
    role[i] = CANDIDATE /\ resp.granted /\ resp.term = currentTerm[i]

\* Node i's coroutine is in the middle of a loop.
InLoop(i) == toAsk[i] # {} \/ reply[i] # NoReply \/ toBeat[i] # {}

\* Code of node i that is not the continuation of a loop can start running.
FaultyCanStart(i) == ~InLoop(i)
CanStart(i) ==
    IF Yields THEN ~InLoop(i) ELSE \A j \in Node : ~InLoop(j)
CanCall == Yields \/ \A j \in Node : ~InLoop(j)

Expired(lock) == now > lock.acquired + Ttl
Live(lock) == lock # NoLock /\ ~Expired(lock)

\* _cleanup_expired_locks: a table without its expired locks.
Cleaned(table) == [k \in Key |-> IF Live(table[k]) THEN table[k] ELSE NoLock]

\* The lock acquire_lock stores.
FaultyNewLock(i) == [holder |-> i, acquired |-> now + Ttl + 1]
NewLock(i) == [holder |-> i, acquired |-> now]

\* The test of acquire_lock that makes it return False.
FaultyHeldByOther(i, k) ==
    role[i] # LEADER /\ Live(locks[i][k]) /\ locks[i][k].holder # i
HeldByOther(i, k) == Live(locks[i][k]) /\ locks[i][k].holder # i

\* "Sync lock states from leader": overwrites, and never deletes.
FaultySynced(table, sent) ==
    [k \in Key |-> IF sent[k] # NoLock THEN [sent[k] EXCEPT !.acquired = now]
                   ELSE table[k]]
Synced(table, sent) ==
    [k \in Key |-> IF sent[k] # NoLock THEN sent[k] ELSE table[k]]

----------------------------------------------------------------------------
(* Membership *)

RegisterPeer(i, j) ==
    /\ i # j /\ CanStart(i)
    /\ j \notin peerNodes[i]
    /\ peerNodes' = [peerNodes EXCEPT ![i] = @ \cup {j}]
    /\ peers' = [peers EXCEPT ![i] = @ \cup {j}]
    /\ UNCHANGED <<electionVars, locks, now, askVars, beatVars,
                   voteHistory, grants>>

----------------------------------------------------------------------------
(* Election *)

StartElection(i) ==
    LET term == currentTerm[i] + 1
    IN  /\ CanStart(i)
        /\ role[i] # LEADER
        /\ term <= MaxTerm
        /\ currentTerm' = [currentTerm EXCEPT ![i] = term]
        /\ votedFor' = [votedFor EXCEPT ![i] = i]
        /\ votesReceived' = [votesReceived EXCEPT ![i] = {i}]
        /\ ballots' = ballots \cup {[voter |-> i, term |-> term, candidate |-> i]}
        /\ \/ /\ ClusterSize(i) = 1
              /\ role' = [role EXCEPT ![i] = LEADER]
              /\ leaderId' = [leaderId EXCEPT ![i] = i]
              /\ elected' = elected \cup {[term |-> term, node |-> i]}
              /\ UNCHANGED toAsk
           \/ /\ ClusterSize(i) # 1
              /\ role' = [role EXCEPT ![i] = CANDIDATE]
              /\ toAsk' = [toAsk EXCEPT ![i] = peers[i] \cap peerNodes[i]]
              /\ UNCHANGED <<leaderId, elected>>
        /\ UNCHANGED <<memberVars, locks, now, reply, beatVars, grants>>

\* Peer j handles the REQUEST_VOTE of i.  The request carries i's term of this
\* iteration, which is not the term i campaigned in if an answer raised it.
RequestVote(i, j) ==
    LET term == currentTerm[i]
        newer == term > currentTerm[j]
        granted == GrantsVote(j, i, term)
    IN  /\ j \in toAsk[i] /\ reply[i] = NoReply
        /\ toAsk' = [toAsk EXCEPT ![i] = @ \ {j}]
        /\ currentTerm' = [currentTerm EXCEPT ![j] = IF newer THEN term ELSE @]
        /\ role' = [role EXCEPT ![j] = IF newer THEN FOLLOWER ELSE @]
        /\ votedFor' = [votedFor EXCEPT ![j] = IF granted THEN i ELSE @]
        /\ ballots' = IF granted
                      THEN ballots \cup {[voter |-> j, term |-> term, candidate |-> i]}
                      ELSE ballots
        /\ reply' = [reply EXCEPT ![i] =
                       [from |-> j, granted |-> granted, term |-> currentTerm'[j]]]
        /\ UNCHANGED <<leaderId, votesReceived, memberVars, locks, now, beatVars,
                       elected, grants>>

\* i handles the VOTE_RESPONSE.
HandleVoteResponse(i) ==
    LET resp == reply[i]
        newer == resp.term > currentTerm[i]
        counted == Counted(i, resp)
        votes == votesReceived[i] \cup {resp.from}
        won == counted /\ Cardinality(votes) >= Majority(i)
    IN  /\ resp # NoReply
        /\ reply' = [reply EXCEPT ![i] = NoReply]
        /\ currentTerm' = [currentTerm EXCEPT ![i] = IF newer THEN resp.term ELSE @]
        /\ votedFor' = [votedFor EXCEPT ![i] = IF newer THEN NoNode ELSE @]
        /\ votesReceived' = [votesReceived EXCEPT ![i] = IF counted THEN votes ELSE @]
        /\ role' = [role EXCEPT ![i] =
                      IF newer THEN FOLLOWER ELSE IF won THEN LEADER ELSE @]
        /\ leaderId' = [leaderId EXCEPT ![i] = IF won THEN i ELSE @]
        /\ elected' = IF won THEN elected \cup {[term |-> resp.term, node |-> i]}
                      ELSE elected
        /\ UNCHANGED <<memberVars, locks, now, toAsk, beatVars, ballots, grants>>

----------------------------------------------------------------------------
(* Heartbeats and the lock table *)

BroadcastHeartbeats(i) ==
    /\ CanStart(i)
    /\ role[i] = LEADER
    /\ locks' = [locks EXCEPT ![i] = Cleaned(@)]
    /\ payload' = [payload EXCEPT ![i] = Cleaned(locks[i])]
    /\ toBeat' = [toBeat EXCEPT ![i] = peers[i] \cap peerNodes[i]]
    /\ UNCHANGED <<electionVars, memberVars, now, askVars, voteHistory, grants>>

\* Peer j handles the HEARTBEAT of i.  Its HEARTBEAT_ACK is thrown away, so a
\* leader of an older term never learns that it is one.
Heartbeat(i, j) ==
    LET term == currentTerm[i]
        accepted == term >= currentTerm[j]
    IN  /\ j \in toBeat[i]
        /\ toBeat' = [toBeat EXCEPT ![i] = @ \ {j}]
        /\ payload' = [payload EXCEPT ![i] = IF toBeat[i] = {j} THEN NoLocks ELSE @]
        /\ currentTerm' = [currentTerm EXCEPT ![j] = IF accepted THEN term ELSE @]
        /\ votedFor' = [votedFor EXCEPT ![j] =
                          IF term > currentTerm[j] THEN NoNode ELSE @]
        /\ role' = [role EXCEPT ![j] = IF accepted THEN FOLLOWER ELSE @]
        /\ leaderId' = [leaderId EXCEPT ![j] = IF accepted THEN i ELSE @]
        /\ locks' = [locks EXCEPT ![j] =
                       IF accepted THEN Synced(@, payload[i]) ELSE @]
        /\ UNCHANGED <<votesReceived, memberVars, now, askVars, voteHistory, grants>>

\* The answer comes from i's own table: neither the leader nor a peer is asked.
AcquireLock(i, k) ==
    /\ CanCall
    /\ ~HeldByOther(i, k)
    /\ locks' = [locks EXCEPT ![i] =
            [Cleaned(@) EXCEPT ![k] = NewLock(i)]]
    /\ grants' = grants \cup {[holder |-> i, key |-> k, acquired |-> now]}
    /\ UNCHANGED <<electionVars, memberVars, now, askVars, beatVars, voteHistory>>

\* acquire_lock returning False, and get_cluster_status: both purge the table.
PurgeLocks(i) ==
    /\ CanCall
    /\ Cleaned(locks[i]) # locks[i]
    /\ locks' = [locks EXCEPT ![i] = Cleaned(@)]
    /\ UNCHANGED <<electionVars, memberVars, now, askVars, beatVars, voteHistory,
                   grants>>

\* The entry is deleted from i's own table only; a table of another node that still
\* has it can bring it back in a heartbeat.
ReleaseLock(i, k) ==
    /\ CanCall
    /\ locks[i][k] # NoLock
    /\ locks[i][k].holder = i
    /\ locks' = [locks EXCEPT ![i][k] = NoLock]
    /\ UNCHANGED <<electionVars, memberVars, now, askVars, beatVars, voteHistory,
                   grants>>

Tick ==
    /\ now < MaxTime
    /\ now' = now + 1
    /\ UNCHANGED <<electionVars, memberVars, locks, askVars, beatVars, voteHistory,
                   grants>>

----------------------------------------------------------------------------

Elect(i) == \/ StartElection(i)
            \/ \E j \in Node : RequestVote(i, j)
            \/ HandleVoteResponse(i)

Beat(i) == \/ BroadcastHeartbeats(i)
           \/ \E j \in Node : Heartbeat(i, j)

UseLocks(i) == \/ PurgeLocks(i)
               \/ \E k \in Key : AcquireLock(i, k) \/ ReleaseLock(i, k)

Next ==
    \/ \E i \in Node : Elect(i) \/ Beat(i) \/ UseLocks(i)
    \/ \E i, j \in Node : RegisterPeer(i, j)
    \/ Tick

Spec == Init /\ [][Next]_vars

----------------------------------------------------------------------------
(* Correctness *)

\* Every node counts the whole cluster when it computes a majority.  It is what
\* the constructor's "peers" argument is for, and what election safety needs.
FullMembership == \A i \in Node : InitialPeers[i] = Node \ {i}

\* A node gives at most one vote in a term (handle_message, lines 92-104), however
\* often its term is raised by requests, answers and heartbeats.
VoteOncePerTerm ==
    \A b, c \in ballots :
        b.voter = c.voter /\ b.term = c.term => b.candidate = c.candidate

\* At most one node is ever elected in a term (_become_leader, line 152), whether
\* or not the two leaderships overlap in time and whichever links exist.
ElectionSafety == \A e, f \in elected : e.term = f.term => e.node = f.node

\* A node only starts to follow a node that was elected in the term the follower
\* is then in (line 118): no heartbeat of a deposed leader is taken for one of the
\* new term.
FollowsElected ==
    [][\A i \in Node : leaderId'[i] # leaderId[i] =>
          [term |-> currentTerm'[i], node |-> leaderId'[i]] \in elected']_vars

\* An entry of a lock table, however many heartbeats it travelled in, is one that
\* its holder acquired at the time it says (lines 122-129): replication never
\* prolongs a lock, moves it to another holder or makes one up.
LocksWereGranted ==
    \A i \in Node, k \in Key :
        locks[i][k] # NoLock =>
            [holder |-> locks[i][k].holder, key |-> k,
             acquired |-> locks[i][k].acquired] \in grants

\* Every host's table says that h holds k.
Agreed(h, k) == \A i \in Node : Live(locks[i][k]) /\ locks[i][k].holder = h

\* Once every host agrees that h holds k, only h's release or the passing of time
\* ends that: no acquire of another host and no heartbeat of any leader, current or
\* deposed, gives the key to somebody else (lines 122-129, 231-240).
AgreementIsStable ==
    [][\A h \in Node, k \in Key :
          Agreed(h, k) => \/ Agreed(h, k)'
                          \/ now' # now
                          \/ locks'[h][k] = NoLock]_vars

\* "Ensures that concurrent orchestrators across separate hosts do not execute
\* conflicting state mutations on shared subnets or volumes" (README.md:778), and
\* acquire_lock's "cluster-wide distributed lock" (line 229): two nodes never both
\* believe that they hold a key.
Holds(i, k) == Live(locks[i][k]) /\ locks[i][k].holder = i
MutualExclusion ==
    \A i, j \in Node, k \in Key : Holds(i, k) /\ Holds(j, k) => i = j

============================================================================
