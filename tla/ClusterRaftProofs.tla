------------------------- MODULE ClusterRaftProofs -------------------------
(***************************************************************************)
(* Theorems about ClusterRaft, for every cluster, every mesh of links and  *)
(* every bound: types, votes, leaders and lock entries whether or not the  *)
(* awaits of the loops suspend; followers and agreements while they do not.*)
(***************************************************************************)
EXTENDS ClusterRaft, FiniteSetTheorems, TLAPS

----------------------------------------------------------------------------
(* The helpers on lock tables. *)

\* What is left of a lock table is a lock table.
LEMMA CleanedType ==
    ASSUME NEW table \in [Key -> Lock \cup {NoLock}]
    PROVE  /\ Cleaned(table) \in [Key -> Lock \cup {NoLock}]
           /\ \A k \in Key : Cleaned(table)[k] \in {table[k], NoLock}
BY DEF Cleaned

\* A leader's table that a follower takes over is one as well.
LEMMA SyncedType ==
    ASSUME NEW table \in [Key -> Lock \cup {NoLock}],
           NEW sent \in [Key -> Lock \cup {NoLock}]
    PROVE  /\ Synced(table, sent) \in [Key -> Lock \cup {NoLock}]
           /\ \A k \in Key : Synced(table, sent)[k] \in {table[k], sent[k]}
BY DEF Synced

----------------------------------------------------------------------------
(* Type correctness. *)

\* Every variable keeps its type: in particular no handler stores None where the
\* code later reads a field.
THEOREM TypeCorrect == Spec => []TypeOK
<1> USE ClusterAssumption, NullAssumption
<1>1. Init => TypeOK
  BY DEF Init, TypeOK, Term, Time, NoLocks
<1>2. TypeOK /\ [Next]_vars => TypeOK'
  <2> SUFFICES ASSUME TypeOK, [Next]_vars
               PROVE  TypeOK'
    OBVIOUS
  <2> USE DEF TypeOK
  <2>1. ASSUME NEW i \in Node, StartElection(i)
        PROVE  TypeOK'
    <3> DEFINE term == currentTerm[i] + 1
    <3>1. term \in Term
      BY <2>1 DEF StartElection, Term
    <3>2. /\ currentTerm' \in [Node -> Term]
          /\ votedFor' \in [Node -> Node \cup {NoNode}]
          /\ votesReceived' \in [Node -> SUBSET Node]
          /\ ballots' \subseteq Ballot
      BY <2>1, <3>1 DEF StartElection, Ballot
    <3>3. role' \in [Node -> {FOLLOWER, CANDIDATE, LEADER}]
      BY <2>1 DEF StartElection
    <3>4. leaderId' \in [Node -> Node \cup {NoNode}]
      <4>1. leaderId' = leaderId \/ leaderId' = [leaderId EXCEPT ![i] = i]
        BY <2>1 DEF StartElection
      <4>2. CASE leaderId' = leaderId
        BY <4>2
      <4>3. CASE leaderId' = [leaderId EXCEPT ![i] = i]
        BY <4>3
      <4> QED
        BY <4>1, <4>2, <4>3
    <3>6. toAsk' \in [Node -> SUBSET Node]
      <4>1. toAsk' = toAsk \/ toAsk' = [toAsk EXCEPT ![i] = peers[i] \cap peerNodes[i]]
        BY <2>1 DEF StartElection
      <4>2. CASE toAsk' = toAsk
        BY <4>2
      <4>3. CASE toAsk' = [toAsk EXCEPT ![i] = peers[i] \cap peerNodes[i]]
        BY <4>3
      <4> QED
        BY <4>1, <4>2, <4>3
    <3>5. elected' \subseteq Leadership
      <4>1. [term |-> term, node |-> i] \in Leadership
        BY <3>1 DEF Leadership
      <4>2. elected' \subseteq elected \cup {[term |-> term, node |-> i]}
        BY <2>1 DEF StartElection
      <4> QED
        BY <4>1, <4>2
    <3> QED
      BY <2>1, <3>2, <3>3, <3>4, <3>5, <3>6 DEF StartElection, memberVars, beatVars
  <2>2. ASSUME NEW i \in Node, NEW j \in Node, RequestVote(i, j)
        PROVE  TypeOK'
    <3>1. currentTerm' \in [Node -> Term] /\ role' \in [Node -> {FOLLOWER, CANDIDATE, LEADER}]
      BY <2>2 DEF RequestVote
    <3>2. votedFor' \in [Node -> Node \cup {NoNode}] /\ toAsk' \in [Node -> SUBSET Node]
      BY <2>2 DEF RequestVote
    <3>3. ballots' \subseteq Ballot
      BY <2>2 DEF RequestVote, Ballot
    <3>4. reply' \in [Node -> VoteResponse \cup {NoReply}]
      BY <2>2, <3>1 DEF RequestVote, GrantsVote, VoteResponse
    <3> QED
      BY <2>2, <3>1, <3>2, <3>3, <3>4 DEF RequestVote, memberVars, beatVars
  <2>3. ASSUME NEW i \in Node, HandleVoteResponse(i)
        PROVE  TypeOK'
    <3>1. reply[i] \in VoteResponse
      BY <2>3 DEF HandleVoteResponse, Counted
    <3> QED
      BY <2>3, <3>1
      DEF HandleVoteResponse, Counted, VoteResponse, Leadership, memberVars, beatVars
  <2>4. ASSUME NEW i \in Node, BroadcastHeartbeats(i)
        PROVE  TypeOK'
    BY <2>4, CleanedType
    DEF BroadcastHeartbeats, electionVars, memberVars, askVars, voteHistory
  <2>5. ASSUME NEW i \in Node, NEW j \in Node, Heartbeat(i, j)
        PROVE  TypeOK'
    <3>1. locks' \in [Node -> [Key -> Lock \cup {NoLock}]]
      BY <2>5, SyncedType DEF Heartbeat
    <3> QED
      BY <2>5, <3>1 DEF Heartbeat, NoLocks, memberVars, askVars, voteHistory
  <2>6. ASSUME NEW i \in Node, PurgeLocks(i)
        PROVE  TypeOK'
    BY <2>6, CleanedType
    DEF PurgeLocks, electionVars, memberVars, askVars, beatVars, voteHistory
  <2>7. ASSUME NEW i \in Node, NEW k \in Key, AcquireLock(i, k)
        PROVE  TypeOK'
    <3>1. NewLock(i) \in Lock
      BY DEF NewLock, Lock
    <3>2. locks' \in [Node -> [Key -> Lock \cup {NoLock}]]
      BY <2>7, <3>1, CleanedType DEF AcquireLock
    <3> QED
      BY <2>7, <3>2
      DEF AcquireLock, Grant, electionVars, memberVars, askVars, beatVars, voteHistory
  <2>8. ASSUME NEW i \in Node, NEW k \in Key, ReleaseLock(i, k)
        PROVE  TypeOK'
    BY <2>8
    DEF ReleaseLock, electionVars, memberVars, askVars, beatVars, voteHistory
  <2>9. ASSUME NEW i \in Node, NEW j \in Node, RegisterPeer(i, j)
        PROVE  TypeOK'
    BY <2>9 DEF RegisterPeer, electionVars, askVars, beatVars, voteHistory
  <2>10. CASE Tick
    BY <2>10
    DEF Tick, Time, electionVars, memberVars, askVars, beatVars, voteHistory
  <2>11. CASE UNCHANGED vars
    BY <2>11 DEF vars, electionVars, memberVars, askVars, beatVars, voteHistory
  <2> QED
    BY <2>1, <2>2, <2>3, <2>4, <2>5, <2>6, <2>7, <2>8, <2>9, <2>10, <2>11
    DEF Next, Elect, Beat, UseLocks
<1> QED
  BY <1>1, <1>2, PTL DEF Spec

----------------------------------------------------------------------------
(* At most one vote per voter and term. *)

\* A vote given in a voter's current term is the one voted_for still records, and
\* none was given in a term the voter has not reached.
VotesRecorded ==
    \A b \in ballots :
        /\ b.term <= currentTerm[b.voter]
        /\ b.term = currentTerm[b.voter] => votedFor[b.voter] = b.candidate

\* A term is a number, whatever bounds it.
LEMMA TermsAreNaturals == ASSUME TypeOK PROVE \A i \in Node : currentTerm[i] \in Nat
BY ClusterAssumption DEF TypeOK, Term

\* Every handler and every loop keeps the record of the votes.
LEMMA VotesRecordedStep ==
    TypeOK /\ VotesRecorded /\ VoteOncePerTerm /\ [Next]_vars
        => VotesRecorded' /\ VoteOncePerTerm'
<1> SUFFICES ASSUME TypeOK, VotesRecorded, VoteOncePerTerm, [Next]_vars
             PROVE  VotesRecorded' /\ VoteOncePerTerm'
  OBVIOUS
<1> USE ClusterAssumption
<1>1. ASSUME NEW i \in Node, StartElection(i)
      PROVE  VotesRecorded' /\ VoteOncePerTerm'
  <2> DEFINE own == [voter |-> i, term |-> currentTerm[i] + 1, candidate |-> i]
  <2>1. /\ currentTerm' = [currentTerm EXCEPT ![i] = currentTerm[i] + 1]
        /\ votedFor' = [votedFor EXCEPT ![i] = i]
        /\ ballots' = ballots \cup {own}
    BY <1>1 DEF StartElection
  <2>2. \A b \in ballots : b.voter = i => b.term < own.term
    BY DEF TypeOK, VotesRecorded, Ballot, Term
  <2>3. VotesRecorded'
    BY <2>1, <2>2 DEF TypeOK, VotesRecorded, Ballot, Term
  <2>4. VoteOncePerTerm'
    BY <2>1, <2>2 DEF TypeOK, VoteOncePerTerm, Ballot, Term
  <2> QED
    BY <2>3, <2>4
<1>2. ASSUME NEW i \in Node, NEW j \in Node, RequestVote(i, j)
      PROVE  VotesRecorded' /\ VoteOncePerTerm'
  <2> DEFINE vote == [voter |-> j, term |-> currentTerm[i], candidate |-> i]
  <2>1. CASE GrantsVote(j, i, currentTerm[i])
    <3>1. /\ currentTerm' = [currentTerm EXCEPT ![j] = currentTerm[i]]
          /\ votedFor' = [votedFor EXCEPT ![j] = i]
          /\ ballots' = ballots \cup {vote}
      <4>1. currentTerm[j] \in Nat /\ currentTerm[i] \in Nat /\ currentTerm \in [Node -> Term]
        BY TermsAreNaturals DEF TypeOK
      <4> QED
        BY <1>2, <2>1, <4>1 DEF RequestVote, GrantsVote
    <3>2. \A b \in ballots :
             b.voter = j => b.term < vote.term \/ (b.term = vote.term /\ b.candidate = i)
      <4>1. currentTerm[j] \in Nat /\ currentTerm[i] \in Nat
        BY TermsAreNaturals
      <4>2. \A b \in ballots : b.term \in Nat /\ b.candidate \in Node
        BY DEF TypeOK, Ballot, Term
      <4>3. \A b \in ballots : b.candidate # NoNode
        BY <4>2
      <4>4. ASSUME NEW b \in ballots, b.voter = j, ~(b.term < currentTerm[i])
            PROVE  b.term = currentTerm[i] /\ b.candidate = i
        <5>1. b.term <= currentTerm[j]
          BY <4>4 DEF VotesRecorded
        <5>2. currentTerm[j] = currentTerm[i] /\ votedFor[j] \in {NoNode, i}
          BY <2>1, <4>1, <4>2, <4>4, <5>1 DEF GrantsVote
        <5>3. b.term = currentTerm[j]
          BY <4>1, <4>2, <4>4, <5>1, <5>2
        <5>4. votedFor[j] = b.candidate
          BY <4>4, <5>3 DEF VotesRecorded
        <5> QED
          BY <4>3, <5>2, <5>3, <5>4
      <4> QED
        BY <4>4
    <3>3. VotesRecorded'
      BY <3>1, <3>2 DEF TypeOK, VotesRecorded, Ballot, Term
    <3>4. VoteOncePerTerm'
      BY <3>1, <3>2 DEF TypeOK, VoteOncePerTerm, Ballot, Term
    <3> QED
      BY <3>3, <3>4
  <2>2. CASE ~GrantsVote(j, i, currentTerm[i])
    BY <1>2, <2>2
    DEF RequestVote, GrantsVote, TypeOK, Term, VotesRecorded, VoteOncePerTerm
  <2> QED
    BY <2>1, <2>2
<1>3. ASSUME NEW i \in Node, HandleVoteResponse(i)
      PROVE  VotesRecorded' /\ VoteOncePerTerm'
  <2>1. reply[i] \in VoteResponse /\ ballots' = ballots
    BY <1>3 DEF HandleVoteResponse, TypeOK
  <2>2. CASE reply[i].term > currentTerm[i]
    <3>1. currentTerm' = [currentTerm EXCEPT ![i] = reply[i].term]
          /\ votedFor' = [votedFor EXCEPT ![i] = NoNode]
      BY <1>3, <2>2 DEF HandleVoteResponse
    <3> QED
      BY <2>1, <2>2, <3>1
      DEF TypeOK, VotesRecorded, VoteOncePerTerm, Ballot, VoteResponse, Term
  <2>3. CASE ~(reply[i].term > currentTerm[i])
    BY <1>3, <2>1, <2>3 DEF HandleVoteResponse, TypeOK, VotesRecorded, VoteOncePerTerm
  <2> QED
    BY <2>2, <2>3
<1>4. ASSUME NEW i \in Node, NEW j \in Node, Heartbeat(i, j)
      PROVE  VotesRecorded' /\ VoteOncePerTerm'
  <2>1. ballots' = ballots
    BY <1>4 DEF Heartbeat, voteHistory
  <2>2. CASE currentTerm[i] > currentTerm[j]
    <3>0. currentTerm[i] >= currentTerm[j]
      BY <2>2, TermsAreNaturals
    <3>1. currentTerm' = [currentTerm EXCEPT ![j] = currentTerm[i]]
          /\ votedFor' = [votedFor EXCEPT ![j] = NoNode]
      BY <1>4, <2>2, <3>0 DEF Heartbeat
    <3> QED
      BY <2>1, <2>2, <3>1
      DEF TypeOK, VotesRecorded, VoteOncePerTerm, Ballot, Term
  <2>3. CASE ~(currentTerm[i] > currentTerm[j])
    <3>1. currentTerm[i] \in Nat /\ currentTerm[j] \in Nat
      BY TermsAreNaturals
    <3>2. currentTerm' = currentTerm
      <4>1. currentTerm' = [currentTerm EXCEPT ![j] =
                IF currentTerm[i] >= currentTerm[j] THEN currentTerm[i] ELSE currentTerm[j]]
        BY <1>4 DEF Heartbeat
      <4>2. (IF currentTerm[i] >= currentTerm[j] THEN currentTerm[i] ELSE currentTerm[j])
              = currentTerm[j]
        BY <2>3, <3>1
      <4> QED
        BY <4>1, <4>2 DEF TypeOK
    <3>3. votedFor' = votedFor
      BY <1>4, <2>3, <3>1 DEF Heartbeat, TypeOK
    <3> QED
      BY <2>1, <3>2, <3>3 DEF VotesRecorded, VoteOncePerTerm
  <2> QED
    BY <2>2, <2>3
<1>5. CASE UNCHANGED <<currentTerm, votedFor, ballots>>
  BY <1>5 DEF VotesRecorded, VoteOncePerTerm
<1> QED
  BY <1>1, <1>2, <1>3, <1>4, <1>5
  DEF Next, Elect, Beat, UseLocks, BroadcastHeartbeats, PurgeLocks, AcquireLock,
      ReleaseLock, RegisterPeer, Tick, vars, electionVars, voteHistory

\* No interleaving of requests, answers and heartbeats makes a node vote for two
\* candidates in one term.
THEOREM VotesAreUnique == Spec => []VoteOncePerTerm
<1>1. Init => VotesRecorded /\ VoteOncePerTerm
  BY DEF Init, VotesRecorded, VoteOncePerTerm
<1> QED
  BY <1>1, VotesRecordedStep, TypeCorrect, PTL DEF Spec

----------------------------------------------------------------------------
(* At most one leader per term.  The argument: a leadership rests on a     *)
(* majority of votes given in its term (QuorumsVoted), because a candidate *)
(* only counts votes of its own term (VotesCounted) and an answer only     *)
(* claims a vote that was given (AnswersTrue).  Two majorities of the      *)
(* cluster share a voter, who voted once.                                  *)

WholeCluster == \A i \in Node : peers[i] = Node \ {i}

Cast(v, t, c) == [voter |-> v, term |-> t, candidate |-> c]

AnswersTrue ==
    \A i \in Node : reply[i] # NoReply /\ reply[i].granted =>
        Cast(reply[i].from, reply[i].term, i) \in ballots

VotesCounted ==
    \A i \in Node : role[i] = CANDIDATE =>
        \A v \in votesReceived[i] : Cast(v, currentTerm[i], i) \in ballots

IsQuorum(Q) == Q \subseteq Node /\ 2 * Cardinality(Q) > Cardinality(Node)

QuorumsVoted ==
    \A e \in elected : \E Q \in SUBSET Node :
        IsQuorum(Q) /\ \A v \in Q : Cast(v, e.term, e.node) \in ballots

ElectionInv == WholeCluster /\ AnswersTrue /\ VotesCounted /\ QuorumsVoted

\* With the whole cluster as peers, the majority of handle_message's line 146 is a
\* majority of the cluster.
LEMMA MajorityIsQuorum ==
    ASSUME WholeCluster, NEW i \in Node, NEW Q \in SUBSET Node
    PROVE  /\ Cardinality(Q) \in Nat
           /\ Cardinality(Q) >= Majority(i) => IsQuorum(Q)
           /\ ClusterSize(i) = 1 => IsQuorum({i})
<1>1. /\ IsFiniteSet(Node) /\ IsFiniteSet(Q)
      /\ Cardinality(Node) \in Nat /\ Cardinality(Q) \in Nat
  BY ClusterAssumption, FS_CardinalityType, FS_Subset
<1>2. ClusterSize(i) = Cardinality(Node)
  <2>1. Cardinality(Node \ {i}) = Cardinality(Node) - 1
    BY <1>1, FS_RemoveElement
  <2>2. ClusterSize(i) = Cardinality(Node \ {i}) + 1
    BY DEF ClusterSize, WholeCluster
  <2> QED
    BY <1>1, <2>1, <2>2
<1>3. Cardinality({i}) = 1
  BY FS_Singleton
<1>4. \A n \in Nat : 2 * ((n \div 2) + 1) > n
  OBVIOUS
<1>5. Cardinality(Q) >= Majority(i) => IsQuorum(Q)
  <2>1. Majority(i) = (Cardinality(Node) \div 2) + 1
    BY <1>2 DEF Majority
  <2>2. (Cardinality(Node) \div 2) \in Nat
    BY <1>1
  <2> QED
    BY <1>1, <1>4, <2>1, <2>2 DEF IsQuorum
<1>6. ClusterSize(i) = 1 => IsQuorum({i})
  BY <1>2, <1>3 DEF IsQuorum
<1> QED
  BY <1>1, <1>5, <1>6

\* Votes are never taken back, so what they support stays supported.
LEMMA BallotsGrow ==
    ASSUME [Next]_vars PROVE ballots \subseteq ballots'
<1>1. ASSUME NEW i \in Node, StartElection(i) PROVE ballots \subseteq ballots'
  BY <1>1 DEF StartElection
<1>2. ASSUME NEW i \in Node, NEW j \in Node, RequestVote(i, j)
      PROVE  ballots \subseteq ballots'
  BY <1>2 DEF RequestVote
<1>3. CASE UNCHANGED ballots
  BY <1>3
<1> QED
  BY <1>1, <1>2, <1>3
  DEF Next, Elect, Beat, UseLocks, HandleVoteResponse, BroadcastHeartbeats, Heartbeat,
      PurgeLocks, AcquireLock, ReleaseLock, RegisterPeer, Tick, vars, voteHistory

\* Every handler and every loop keeps what a leader's votes rest on.
LEMMA ElectionInvStep ==
    TypeOK /\ ElectionInv /\ [Next]_vars => ElectionInv'
<1> SUFFICES ASSUME TypeOK, ElectionInv, [Next]_vars
             PROVE  ElectionInv'
  OBVIOUS
<1> USE ClusterAssumption
<1>0. /\ WholeCluster /\ AnswersTrue /\ VotesCounted /\ QuorumsVoted
      /\ ballots \subseteq ballots'
  BY BallotsGrow DEF ElectionInv
<1>1. ASSUME NEW i \in Node, StartElection(i)
      PROVE  ElectionInv'
  <2> DEFINE term == currentTerm[i] + 1
  <2>1. /\ currentTerm' = [currentTerm EXCEPT ![i] = term]
        /\ votesReceived' = [votesReceived EXCEPT ![i] = {i}]
        /\ Cast(i, term, i) \in ballots'
        /\ reply' = reply /\ peers' = peers
    BY <1>1 DEF StartElection, Cast, memberVars
  <2>2. \A j \in Node : j # i => role'[j] = role[j]
    BY <1>1 DEF StartElection, TypeOK
  <2>3. VotesCounted'
    <3> SUFFICES ASSUME NEW j \in Node, role'[j] = CANDIDATE,
                        NEW v \in votesReceived'[j]
                 PROVE  Cast(v, currentTerm'[j], j) \in ballots'
      BY DEF VotesCounted, Cast
    <3>1. CASE j = i
      BY <2>1, <3>1 DEF TypeOK
    <3>2. CASE j # i
      BY <1>0, <2>1, <2>2, <3>2 DEF TypeOK, VotesCounted
    <3> QED
      BY <3>1, <3>2
  <2>4. QuorumsVoted'
    <3>1. CASE ClusterSize(i) = 1
      <4>1. IsQuorum({i})
        BY <1>0, <3>1, MajorityIsQuorum
      <4>2. elected' = elected \cup {[term |-> term, node |-> i]}
        BY <1>1, <3>1 DEF StartElection
      <4> QED
        BY <1>0, <2>1, <4>1, <4>2 DEF QuorumsVoted
    <3>2. CASE ClusterSize(i) # 1
      <4>1. elected' = elected
        BY <1>1, <3>2 DEF StartElection
      <4> QED
        BY <1>0, <4>1 DEF QuorumsVoted
    <3> QED
      BY <3>1, <3>2
  <2>5. AnswersTrue' /\ WholeCluster'
    BY <1>0, <2>1 DEF AnswersTrue, WholeCluster, Cast
  <2> QED
    BY <2>3, <2>4, <2>5 DEF ElectionInv
<1>2. ASSUME NEW i \in Node, NEW j \in Node, RequestVote(i, j)
      PROVE  ElectionInv'
  <2> DEFINE term == currentTerm[i]
             granted == GrantsVote(j, i, term)
  <2>0. currentTerm[i] \in Nat /\ currentTerm[j] \in Nat
    BY TermsAreNaturals
  <2>1. /\ peers' = peers /\ elected' = elected /\ votesReceived' = votesReceived
        /\ currentTerm' = [currentTerm EXCEPT ![j] =
                             IF term > currentTerm[j] THEN term ELSE currentTerm[j]]
        /\ role' = [role EXCEPT ![j] =
                      IF term > currentTerm[j] THEN FOLLOWER ELSE role[j]]
        /\ reply' = [reply EXCEPT ![i] =
                       [from |-> j, granted |-> granted, term |-> currentTerm'[j]]]
        /\ granted => Cast(j, term, i) \in ballots'
    BY <1>2 DEF RequestVote, Cast, memberVars
  <2>2. AnswersTrue'
    <3>1. granted => currentTerm'[j] = term
      BY <2>0, <2>1 DEF GrantsVote, TypeOK
    <3> QED
      BY <1>0, <2>1, <3>1 DEF AnswersTrue, Cast, TypeOK
  <2>3. VotesCounted'
    <3> SUFFICES ASSUME NEW n \in Node, role'[n] = CANDIDATE
                 PROVE  role[n] = CANDIDATE /\ currentTerm'[n] = currentTerm[n]
      BY <1>0, <2>1 DEF VotesCounted, Cast
    <3> QED
      BY <2>1 DEF TypeOK, FOLLOWER, CANDIDATE
  <2>4. WholeCluster' /\ QuorumsVoted'
    BY <1>0, <2>1 DEF WholeCluster, QuorumsVoted
  <2> QED
    BY <2>2, <2>3, <2>4 DEF ElectionInv
<1>3. ASSUME NEW i \in Node, HandleVoteResponse(i)
      PROVE  ElectionInv'
  <2> DEFINE resp == reply[i]
             votes == votesReceived[i] \cup {resp.from}
             counted == Counted(i, resp)
             won == counted /\ Cardinality(votes) >= Majority(i)
  <2>1. resp # NoReply /\ resp \in VoteResponse
    BY <1>3 DEF HandleVoteResponse, TypeOK
  <2>2. votes \in SUBSET Node
    BY <2>1 DEF VoteResponse, TypeOK
  <2>3. counted => \A v \in votes : Cast(v, resp.term, i) \in ballots
    BY <1>0, <2>1 DEF AnswersTrue, VotesCounted, Counted
  <2>4. /\ peers' = peers /\ ballots' = ballots
        /\ reply' = [reply EXCEPT ![i] = NoReply]
        /\ elected' = IF won THEN elected \cup {[term |-> resp.term, node |-> i]}
                      ELSE elected
    BY <1>3 DEF HandleVoteResponse, Counted, memberVars
  <2>5. QuorumsVoted'
    <3>1. CASE won
      <4>1. IsQuorum(votes)
        BY <1>0, <2>2, <3>1, MajorityIsQuorum
      <4> QED
        BY <1>0, <2>2, <2>3, <2>4, <3>1, <4>1 DEF QuorumsVoted
    <3>2. CASE ~won
      BY <1>0, <2>4, <3>2 DEF QuorumsVoted
    <3> QED
      BY <3>1, <3>2
  <2>6. VotesCounted'
    <3> SUFFICES ASSUME NEW n \in Node, role'[n] = CANDIDATE,
                        NEW v \in votesReceived'[n]
                 PROVE  Cast(v, currentTerm'[n], n) \in ballots'
      BY DEF VotesCounted, Cast
    <3>1. CASE n # i
      <4>1. /\ role'[n] = role[n] /\ currentTerm'[n] = currentTerm[n]
            /\ votesReceived'[n] = votesReceived[n]
        BY <1>3, <3>1 DEF HandleVoteResponse, Counted, TypeOK
      <4> QED
        BY <1>0, <4>1 DEF VotesCounted
    <3>2. CASE n = i
      <4>1. role[i] = CANDIDATE /\ ~(resp.term > currentTerm[i])
        BY <1>3, <3>2 DEF HandleVoteResponse, Counted, TypeOK, FOLLOWER, CANDIDATE, LEADER
      <4>2. currentTerm'[i] = currentTerm[i]
        BY <1>3, <4>1 DEF HandleVoteResponse, Counted, TypeOK
      <4>3. votesReceived'[i] = IF counted THEN votes ELSE votesReceived[i]
        BY <1>3 DEF HandleVoteResponse, Counted, TypeOK
      <4> QED
        BY <1>0, <2>3, <2>4, <3>2, <4>1, <4>2, <4>3 DEF VotesCounted, Counted
    <3> QED
      BY <3>1, <3>2
  <2>7. AnswersTrue'
    BY <1>0, <2>4 DEF AnswersTrue, Cast, TypeOK
  <2>8. WholeCluster'
    BY <1>0, <2>4 DEF WholeCluster
  <2> QED
    BY <2>5, <2>6, <2>7, <2>8 DEF ElectionInv
<1>4. ASSUME NEW i \in Node, NEW j \in Node, Heartbeat(i, j)
      PROVE  ElectionInv'
  <2>1. /\ peers' = peers /\ ballots' = ballots /\ elected' = elected
        /\ reply' = reply /\ votesReceived' = votesReceived
    BY <1>4 DEF Heartbeat, memberVars, askVars, voteHistory
  <2>2. \A n \in Node : role'[n] = CANDIDATE =>
            role[n] = CANDIDATE /\ currentTerm'[n] = currentTerm[n]
    BY <1>4 DEF Heartbeat, TypeOK, FOLLOWER, CANDIDATE
  <2>3. VotesCounted'
    BY <1>0, <2>1, <2>2 DEF VotesCounted, Cast
  <2> QED
    BY <1>0, <2>1, <2>3
    DEF ElectionInv, WholeCluster, AnswersTrue, QuorumsVoted, Cast
<1>5. ASSUME NEW i \in Node, NEW j \in Node, RegisterPeer(i, j)
      PROVE  ElectionInv'
  <2>1. peers' = [peers EXCEPT ![i] = peers[i] \cup {j}] /\ i # j
    BY <1>5 DEF RegisterPeer
  <2>2. WholeCluster'
    BY <1>0, <2>1 DEF WholeCluster, TypeOK
  <2> QED
    BY <1>0, <1>5, <2>2
    DEF RegisterPeer, ElectionInv, AnswersTrue, VotesCounted, QuorumsVoted, Cast,
        electionVars, askVars, voteHistory
<1>6. CASE UNCHANGED <<electionVars, memberVars, askVars, voteHistory>>
  BY <1>0, <1>6
  DEF ElectionInv, WholeCluster, AnswersTrue, VotesCounted, QuorumsVoted, Cast,
      electionVars, memberVars, askVars, voteHistory
<1> QED
  BY <1>1, <1>2, <1>3, <1>4, <1>5, <1>6
  DEF Next, Elect, Beat, UseLocks, BroadcastHeartbeats, PurgeLocks, AcquireLock,
      ReleaseLock, Tick, vars

\* At most one node is ever elected in a term, for a cluster of any size whose nodes
\* were built with the full peer list, over any mesh of links.
THEOREM OneLeaderPerTerm ==
    ASSUME FullMembership PROVE Spec => []ElectionSafety
<1>1. Init => ElectionInv
  BY DEF Init, FullMembership, ElectionInv, WholeCluster, AnswersTrue, VotesCounted,
         QuorumsVoted, FOLLOWER, CANDIDATE
<1>2. TypeOK /\ ElectionInv /\ VoteOncePerTerm => ElectionSafety
  <2> SUFFICES ASSUME TypeOK, ElectionInv, VoteOncePerTerm,
                      NEW e \in elected, NEW f \in elected, e.term = f.term
               PROVE  e.node = f.node
    BY DEF ElectionSafety
  <2>1. PICK P \in SUBSET Node :
           IsQuorum(P) /\ \A v \in P : Cast(v, e.term, e.node) \in ballots
    BY DEF ElectionInv, QuorumsVoted
  <2>2. PICK Q \in SUBSET Node :
           IsQuorum(Q) /\ \A v \in Q : Cast(v, f.term, f.node) \in ballots
    BY DEF ElectionInv, QuorumsVoted
  <2>3. PICK v \in Node : v \in P /\ v \in Q
    <3>1. /\ Cardinality(P) \in Nat /\ Cardinality(Q) \in Nat
          /\ Cardinality(Node) \in Nat
      BY ClusterAssumption, FS_Subset, FS_CardinalityType
    <3>2. Cardinality(P) + Cardinality(Q) > Cardinality(Node)
      BY <2>1, <2>2, <3>1 DEF IsQuorum
    <3> QED
      BY <3>2, ClusterAssumption, FS_MajoritiesIntersect
  <2> QED
    BY <2>1, <2>2, <2>3 DEF VoteOncePerTerm, Cast
<1> QED
  BY <1>1, <1>2, ElectionInvStep, VotesAreUnique, TypeCorrect, PTL DEF Spec

----------------------------------------------------------------------------
(* Replicated locks are acquired locks. *)

\* Every lock of a table is one its holder acquired.
TableGranted(table, given) ==
    \A k \in Key : table[k] # NoLock =>
        [holder |-> table[k].holder, key |-> k, acquired |-> table[k].acquired] \in given

\* The tables, and the payloads that wait to be copied into tables.
GrantInv ==
    \A i \in Node : TableGranted(locks[i], grants) /\ TableGranted(payload[i], grants)

\* Cleaning and taking over a table add no entry that was not granted.
LEMMA GrantedTables ==
    ASSUME NEW given, NEW table \in [Key -> Lock \cup {NoLock}], TableGranted(table, given)
    PROVE  /\ TableGranted(Cleaned(table), given)
           /\ \A sent \in [Key -> Lock \cup {NoLock}] :
                 TableGranted(sent, given) => TableGranted(Synced(table, sent), given)
           /\ TableGranted(NoLocks, given)
BY DEF TableGranted, Cleaned, Synced, NoLocks

\* Every handler and every loop keeps it.
LEMMA GrantInvStep == TypeOK /\ GrantInv /\ [Next]_vars => GrantInv'
<1> SUFFICES ASSUME TypeOK, GrantInv, [Next]_vars
             PROVE  GrantInv'
  OBVIOUS
<1>0. \A i \in Node : /\ locks[i] \in [Key -> Lock \cup {NoLock}]
                      /\ payload[i] \in [Key -> Lock \cup {NoLock}]
                      /\ TableGranted(locks[i], grants)
                      /\ TableGranted(payload[i], grants)
  BY DEF TypeOK, GrantInv
<1>1. ASSUME NEW i \in Node, BroadcastHeartbeats(i)
      PROVE  GrantInv'
  <2>1. /\ locks' = [locks EXCEPT ![i] = Cleaned(locks[i])]
        /\ payload' = [payload EXCEPT ![i] = Cleaned(locks[i])]
        /\ grants' = grants
    BY <1>1 DEF BroadcastHeartbeats
  <2>2. TableGranted(Cleaned(locks[i]), grants)
    BY <1>0, GrantedTables
  <2> QED
    BY <1>0, <2>1, <2>2 DEF GrantInv, TypeOK
<1>2. ASSUME NEW i \in Node, NEW j \in Node, Heartbeat(i, j)
      PROVE  GrantInv'
  <2>1. /\ locks' = locks \/ locks' = [locks EXCEPT ![j] = Synced(locks[j], payload[i])]
        /\ payload' = payload \/ payload' = [payload EXCEPT ![i] = NoLocks]
        /\ grants' = grants
    BY <1>2 DEF Heartbeat, TypeOK
  <2>2. TableGranted(Synced(locks[j], payload[i]), grants) /\ TableGranted(NoLocks, grants)
    BY <1>0, GrantedTables
  <2>3. \A n \in Node : TableGranted(locks'[n], grants)
    BY <1>0, <2>1, <2>2 DEF TypeOK
  <2>4. \A n \in Node : TableGranted(payload'[n], grants)
    BY <1>0, <2>1, <2>2 DEF TypeOK
  <2> QED
    BY <2>1, <2>3, <2>4 DEF GrantInv
<1>3. ASSUME NEW i \in Node, NEW k \in Key, AcquireLock(i, k)
      PROVE  GrantInv'
  <2> DEFINE table == [Cleaned(locks[i]) EXCEPT ![k] = NewLock(i)]
  <2>1. /\ locks' = [locks EXCEPT ![i] = table]
        /\ payload' = payload
        /\ grants' = grants \cup {[holder |-> i, key |-> k, acquired |-> now]}
    BY <1>3 DEF AcquireLock, beatVars
  <2>2. \A n \in Node : TableGranted(locks[n], grants') /\ TableGranted(payload[n], grants')
    BY <1>0, <2>1 DEF TableGranted
  <2>3. TableGranted(table, grants')
    <3>1. TableGranted(Cleaned(locks[i]), grants')
      BY <1>0, <2>2, GrantedTables
    <3> QED
      BY <2>1, <3>1 DEF TableGranted, NewLock, Cleaned
  <2> QED
    BY <2>1, <2>2, <2>3 DEF GrantInv, TypeOK
<1>4. ASSUME NEW i \in Node, PurgeLocks(i)
      PROVE  GrantInv'
  <2>1. /\ locks' = [locks EXCEPT ![i] = Cleaned(locks[i])]
        /\ payload' = payload /\ grants' = grants
    BY <1>4 DEF PurgeLocks, beatVars
  <2>2. TableGranted(Cleaned(locks[i]), grants)
    BY <1>0, GrantedTables
  <2> QED
    BY <1>0, <2>1, <2>2 DEF GrantInv, TypeOK
<1>5. ASSUME NEW i \in Node, NEW k \in Key, ReleaseLock(i, k)
      PROVE  GrantInv'
  <2>1. /\ locks' = [locks EXCEPT ![i][k] = NoLock]
        /\ payload' = payload /\ grants' = grants
    BY <1>5 DEF ReleaseLock, beatVars
  <2>2. TableGranted([locks[i] EXCEPT ![k] = NoLock], grants)
    BY <1>0 DEF TableGranted
  <2> QED
    BY <1>0, <2>1, <2>2 DEF GrantInv, TypeOK
<1>6. CASE UNCHANGED <<locks, payload, grants>>
  BY <1>6 DEF GrantInv
<1> QED
  BY <1>1, <1>2, <1>3, <1>4, <1>5, <1>6
  DEF Next, Elect, Beat, UseLocks, StartElection, RequestVote, HandleVoteResponse,
      RegisterPeer, Tick, vars, beatVars

\* However far a lock travels in heartbeats, of current and of deposed leaders, it
\* keeps the holder and the time it was acquired with: replication cannot prolong it.
THEOREM ReplicationInventsNothing == Spec => []LocksWereGranted
<1>1. Init => GrantInv
  BY DEF Init, GrantInv, TableGranted, NoLocks
<1>2. GrantInv => LocksWereGranted
  BY DEF GrantInv, TableGranted, LocksWereGranted
<1> QED
  BY <1>1, <1>2, GrantInvStep, TypeCorrect, PTL DEF Spec

----------------------------------------------------------------------------
(* Loops that run alone, as they do while no await of a peer's handler suspends. *)

\* One node is in a loop at a time, and in one of its loops.
Alone ==
    /\ \A i, j \in Node : InLoop(i) /\ InLoop(j) => i = j
    /\ \A i \in Node : toBeat[i] # {} => toAsk[i] = {} /\ reply[i] = NoReply

\* A leader, and a node that still sends heartbeats, was elected in the term it is in, and
\* what it sends is its table of locks.
LeadersElected ==
    /\ \A i \in Node : role[i] = LEADER => [term |-> currentTerm[i], node |-> i] \in elected
    /\ \A i \in Node : toBeat[i] # {} => role[i] = LEADER /\ payload[i] = locks[i]
    /\ \A i \in Node : i \notin peerNodes[i] /\ i \notin toBeat[i]

LoopInv == Alone /\ LeadersElected

\* Every action keeps the loops alone, and leaders elected.
LEMMA LoopInvStep ==
    ASSUME ~Yields, TypeOK, LoopInv, [Next]_vars
    PROVE  LoopInv'
<1> USE DEF LoopInv, Alone, LeadersElected
<1>1. ASSUME NEW i \in Node, StartElection(i) PROVE LoopInv'
  <2>1. /\ \A j \in Node : ~InLoop(j)
        /\ UNCHANGED <<memberVars, locks, reply, beatVars>>
        /\ elected \subseteq elected' /\ role[i] # LEADER
    BY <1>1 DEF StartElection, CanStart
  <2>2. \A j \in Node \ {i} : /\ role'[j] = role[j] /\ currentTerm'[j] = currentTerm[j]
                              /\ toAsk'[j] = toAsk[j]
    BY <1>1 DEF StartElection, TypeOK
  <2>3. role'[i] = LEADER => [term |-> currentTerm'[i], node |-> i] \in elected'
    BY <1>1 DEF StartElection, TypeOK, LEADER, CANDIDATE
  <2>4. Alone'
    BY <2>1, <2>2 DEF InLoop, beatVars
  <2>5. LeadersElected'
    BY <2>1, <2>2, <2>3 DEF InLoop, beatVars, memberVars
  <2> QED
    BY <2>4, <2>5
<1>2. ASSUME NEW i \in Node, NEW j \in Node, RequestVote(i, j) PROVE LoopInv'
  <2>1. /\ j \in toAsk[i] /\ InLoop(i) /\ \A n \in Node : toBeat[n] = {}
    BY <1>2 DEF RequestVote, InLoop
  <2>2. /\ UNCHANGED <<memberVars, locks, beatVars, elected>>
        /\ \A n \in Node \ {i} : toAsk'[n] = toAsk[n] /\ reply'[n] = reply[n]
    BY <1>2 DEF RequestVote, TypeOK
  <2>3. \A n \in Node : role'[n] = LEADER =>
            role[n] = LEADER /\ currentTerm'[n] = currentTerm[n]
    BY <1>2 DEF RequestVote, TypeOK, FOLLOWER, LEADER
  <2>4. Alone'
    BY <2>1, <2>2 DEF InLoop, beatVars
  <2>5. LeadersElected'
    BY <2>1, <2>2, <2>3 DEF beatVars, memberVars
  <2> QED
    BY <2>4, <2>5
<1>3. ASSUME NEW i \in Node, HandleVoteResponse(i) PROVE LoopInv'
  <2>1. /\ InLoop(i) /\ \A n \in Node : toBeat[n] = {}
    BY <1>3 DEF HandleVoteResponse, InLoop
  <2>2. /\ UNCHANGED <<memberVars, locks, beatVars, toAsk>> /\ elected \subseteq elected'
        /\ \A n \in Node \ {i} : /\ reply'[n] = reply[n] /\ role'[n] = role[n]
                                 /\ currentTerm'[n] = currentTerm[n]
    BY <1>3 DEF HandleVoteResponse, TypeOK
  <2>3. role'[i] = LEADER => [term |-> currentTerm'[i], node |-> i] \in elected'
    <3>1. reply[i] \in VoteResponse
      BY <1>3 DEF HandleVoteResponse, TypeOK
    <3>2. reply[i].term \in Nat /\ currentTerm[i] \in Nat
      BY <3>1, TermsAreNaturals, ClusterAssumption DEF VoteResponse, Term
    <3>3. CASE reply[i].term > currentTerm[i]
      BY <1>3, <3>3 DEF HandleVoteResponse, TypeOK, FOLLOWER, LEADER
    <3>4. CASE ~(reply[i].term > currentTerm[i])
      <4>1. currentTerm'[i] = currentTerm[i]
        BY <1>3, <3>4 DEF HandleVoteResponse, TypeOK
      <4> DEFINE won == /\ Counted(i, reply[i])
                        /\ Cardinality(votesReceived[i] \cup {reply[i].from}) >= Majority(i)
      <4>2. CASE won
        <5>1. reply[i].term = currentTerm[i]
          BY <4>2 DEF Counted
        <5>2. elected' = elected \cup {[term |-> reply[i].term, node |-> i]}
          BY <1>3, <4>2 DEF HandleVoteResponse
        <5> QED
          BY <4>1, <5>1, <5>2
      <4>3. CASE ~won
        <5>1. role'[i] = role[i] /\ elected' = elected
          BY <1>3, <3>4, <4>3 DEF HandleVoteResponse, TypeOK
        <5> QED
          BY <4>1, <5>1
      <4> QED
        BY <4>2, <4>3
    <3> QED
      BY <3>3, <3>4
  <2>4. Alone'
    BY <2>1, <2>2 DEF InLoop, beatVars
  <2>5. LeadersElected'
    BY <2>1, <2>2, <2>3 DEF beatVars, memberVars
  <2> QED
    BY <2>4, <2>5
<1>4. ASSUME NEW i \in Node, BroadcastHeartbeats(i) PROVE LoopInv'
  <2>1. /\ \A j \in Node : ~InLoop(j)
        /\ UNCHANGED <<electionVars, memberVars, askVars, elected>>
        /\ role[i] = LEADER
    BY <1>4 DEF BroadcastHeartbeats, CanStart, voteHistory
  <2>2. /\ locks'[i] = Cleaned(locks[i]) /\ payload'[i] = Cleaned(locks[i])
        /\ toBeat'[i] \subseteq peerNodes[i]
        /\ \A j \in Node \ {i} : toBeat'[j] = toBeat[j]
    BY <1>4 DEF BroadcastHeartbeats, TypeOK
  <2>3. Alone'
    BY <2>1, <2>2 DEF InLoop, askVars
  <2>4. LeadersElected'
    BY <2>1, <2>2 DEF InLoop, electionVars, memberVars
  <2> QED
    BY <2>3, <2>4
<1>5. ASSUME NEW i \in Node, NEW j \in Node, Heartbeat(i, j) PROVE LoopInv'
  <2>1. /\ j \in toBeat[i] /\ j # i /\ InLoop(i) /\ \A n \in Node \ {i} : toBeat[n] = {}
        /\ role[i] = LEADER
    BY <1>5 DEF Heartbeat, InLoop
  <2>2. /\ UNCHANGED <<memberVars, askVars, elected>>
        /\ toBeat'[i] \subseteq toBeat[i] /\ (toBeat'[i] # {} => payload'[i] = payload[i])
        /\ \A n \in Node \ {i} : toBeat'[n] = toBeat[n]
        /\ \A n \in Node \ {j} : locks'[n] = locks[n] /\ role'[n] = role[n]
    BY <1>5 DEF Heartbeat, TypeOK, voteHistory
  <2>3. \A n \in Node : role'[n] = LEADER =>
            role[n] = LEADER /\ currentTerm'[n] = currentTerm[n]
    BY <1>5 DEF Heartbeat, TypeOK, FOLLOWER, LEADER
  <2>4. Alone'
    BY <2>1, <2>2 DEF InLoop, askVars
  <2>5. LeadersElected'
    BY <2>1, <2>2, <2>3 DEF memberVars
  <2> QED
    BY <2>4, <2>5
<1>6. ASSUME NEW i \in Node, NEW j \in Node, RegisterPeer(i, j) PROVE LoopInv'
  <2>1. /\ UNCHANGED <<electionVars, askVars, beatVars, locks, elected>>
        /\ \A n \in Node : n \notin peerNodes'[n]
    BY <1>6 DEF RegisterPeer, voteHistory, TypeOK
  <2> QED
    BY <2>1 DEF InLoop, electionVars, askVars, beatVars
<1>7. ASSUME CanCall, UNCHANGED <<electionVars, memberVars, askVars, beatVars, elected>>
      PROVE  LoopInv'
  BY <1>7 DEF CanCall, InLoop, electionVars, memberVars, askVars, beatVars
<1>8. CASE UNCHANGED <<electionVars, memberVars, locks, askVars, beatVars, elected>>
  BY <1>8 DEF InLoop, electionVars, memberVars, askVars, beatVars
<1> QED
  BY <1>1, <1>2, <1>3, <1>4, <1>5, <1>6, <1>7, <1>8
  DEF Next, Elect, Beat, UseLocks, PurgeLocks, AcquireLock, ReleaseLock, Tick, vars,
      voteHistory

\* The invariant of the loops that run alone.
LEMMA LoopsRunAlone == ASSUME ~Yields PROVE Spec => []LoopInv
<1>1. Init => LoopInv
  BY ClusterAssumption DEF Init, LoopInv, Alone, LeadersElected, InLoop, FOLLOWER, LEADER
<1> QED
  BY <1>1, LoopInvStep, TypeCorrect, PTL DEF Spec

\* A node only starts to follow a node that was elected in the term the follower is then in,
\* as long as the loops run alone: no heartbeat of a deposed leader is taken for one of the
\* new term.
THEOREM FollowersFollowElected == ASSUME ~Yields PROVE Spec => FollowsElected
<1>1. TypeOK /\ LoopInv /\ [Next]_vars =>
          [\A i \in Node : leaderId'[i] # leaderId[i] =>
               [term |-> currentTerm'[i], node |-> leaderId'[i]] \in elected']_vars
  <2> SUFFICES ASSUME TypeOK, LoopInv, [Next]_vars, NEW n \in Node, leaderId'[n] # leaderId[n]
               PROVE  [term |-> currentTerm'[n], node |-> leaderId'[n]] \in elected'
    OBVIOUS
  <2>1. ASSUME NEW i \in Node, StartElection(i)
        PROVE  [term |-> currentTerm'[n], node |-> leaderId'[n]] \in elected'
    BY <2>1 DEF StartElection, TypeOK
  <2>2. ASSUME NEW i \in Node, HandleVoteResponse(i)
        PROVE  [term |-> currentTerm'[n], node |-> leaderId'[n]] \in elected'
    <3>1. reply[i] \in VoteResponse
      BY <2>2 DEF HandleVoteResponse, TypeOK
    <3>2. reply[i].term \in Nat /\ currentTerm[i] \in Nat
      BY <3>1, TermsAreNaturals, ClusterAssumption DEF VoteResponse, Term
    <3> DEFINE won == /\ Counted(i, reply[i])
                      /\ Cardinality(votesReceived[i] \cup {reply[i].from}) >= Majority(i)
    <3>3. won /\ n = i /\ leaderId'[n] = i
      BY <2>2 DEF HandleVoteResponse, TypeOK
    <3>4. reply[i].term = currentTerm[i]
      BY <3>3 DEF Counted
    <3>5. currentTerm'[i] = currentTerm[i]
      BY <2>2, <3>2, <3>4 DEF HandleVoteResponse, TypeOK
    <3>6. elected' = elected \cup {[term |-> reply[i].term, node |-> i]}
      BY <2>2, <3>3 DEF HandleVoteResponse
    <3> QED
      BY <3>3, <3>4, <3>5, <3>6
  <2>3. ASSUME NEW i \in Node, NEW j \in Node, Heartbeat(i, j)
        PROVE  [term |-> currentTerm'[n], node |-> leaderId'[n]] \in elected'
    <3>1. role[i] = LEADER /\ elected' = elected
      BY <2>3 DEF Heartbeat, LoopInv, LeadersElected, voteHistory
    <3>2. n = j /\ leaderId'[n] = i /\ currentTerm'[n] = currentTerm[i]
      BY <2>3 DEF Heartbeat, TypeOK
    <3> QED
      BY <3>1, <3>2 DEF LoopInv, LeadersElected
  <2> QED
    BY <2>1, <2>2, <2>3
    DEF Next, Elect, Beat, UseLocks, RequestVote, BroadcastHeartbeats, PurgeLocks, AcquireLock,
        ReleaseLock, RegisterPeer, Tick, vars, electionVars
<1> QED
  BY <1>1, LoopsRunAlone, TypeCorrect, PTL DEF Spec, FollowsElected

\* Once every host agrees that h holds k, only h's release or the passing of time ends that,
\* as long as the loops run alone.
THEOREM AgreementsLast == ASSUME ~Yields PROVE Spec => AgreementIsStable
<1>1. ASSUME TypeOK, LoopInv, [Next]_vars,
             NEW h \in Node, NEW k \in Key, Agreed(h, k), now' = now
      PROVE  Agreed(h, k)' \/ locks'[h][k] = NoLock
  <2> DEFINE Fits(table) == Live(table[k]) /\ table[k].holder = h
  <2>0. /\ \A i \in Node : Fits(locks[i]) /\ Fits(Cleaned(locks[i]))
        /\ \A lock : Live(lock)' <=> Live(lock)
    BY <1>1 DEF Agreed, Cleaned, Live, Expired
  <2>1. SUFFICES ASSUME locks'[h][k] # NoLock PROVE \A i \in Node : Fits(locks'[i])
    BY <1>1, <2>0 DEF Agreed, Live, Expired
  <2> HIDE DEF Fits
  <2>2. ASSUME NEW i \in Node, locks' = [locks EXCEPT ![i] = Cleaned(@)]
        PROVE  \A j \in Node : Fits(locks'[j])
    BY <1>1, <2>0, <2>2 DEF TypeOK
  <2>3. ASSUME NEW i \in Node, NEW j \in Node, Heartbeat(i, j)
        PROVE  \A n \in Node : Fits(locks'[n])
    <3>1. payload[i] = locks[i]
      BY <1>1, <2>3 DEF Heartbeat, LoopInv, LeadersElected
    <3>2. Fits(Synced(locks[j], payload[i]))
      BY <2>0, <3>1 DEF Fits, Synced, Live
    <3>3. locks' \in {locks, [locks EXCEPT ![j] = Synced(locks[j], payload[i])]}
      BY <1>1, <2>3 DEF Heartbeat, TypeOK
    <3> QED
      BY <1>1, <2>0, <3>2, <3>3 DEF TypeOK
  <2>4. ASSUME NEW i \in Node, NEW key \in Key, AcquireLock(i, key)
        PROVE  \A n \in Node : Fits(locks'[n])
    <3> DEFINE table == [Cleaned(locks[i]) EXCEPT ![key] = NewLock(i)]
    <3>1. locks' = [locks EXCEPT ![i] = table]
      BY <2>4 DEF AcquireLock
    <3>2. Fits(table)
      <4>1. CASE key # k
        <5>1. table[k] = Cleaned(locks[i])[k]
          BY <4>1 DEF Cleaned
        <5> QED
          BY <2>0, <5>1 DEF Fits
      <4>2. CASE key = k
        <5>1. i = h
          BY <2>0, <2>4, <4>2 DEF AcquireLock, HeldByOther, Fits
        <5>2. table[k] = NewLock(h)
          BY <4>2, <5>1 DEF Cleaned
        <5>3. NewLock(h) \in Lock /\ now \in Nat
          BY <1>1, ClusterAssumption DEF TypeOK, NewLock, Lock, Time
        <5>4. Live(NewLock(h)) /\ NewLock(h).holder = h
          BY <5>3, ClusterAssumption, NullAssumption DEF Live, Expired, NewLock
        <5> QED
          BY <5>2, <5>4 DEF Fits
      <4> QED
        BY <4>1, <4>2
    <3> HIDE DEF table
    <3> QED
      BY <1>1, <2>0, <3>1, <3>2 DEF TypeOK
  <2>5. ASSUME NEW i \in Node, NEW key \in Key, ReleaseLock(i, key)
        PROVE  \A n \in Node : Fits(locks'[n])
    <3>1. locks' = [locks EXCEPT ![i][key] = NoLock] /\ locks[i][key].holder = i
      BY <2>5 DEF ReleaseLock
    <3>2. key # k
      BY <1>1, <2>0, <2>1, <3>1 DEF Fits, TypeOK
    <3>3. \A n \in Node : locks'[n][k] = locks[n][k]
      BY <1>1, <3>1, <3>2 DEF TypeOK
    <3> QED
      BY <2>0, <3>3 DEF Fits
  <2>6. CASE locks' = locks
    BY <2>0, <2>6
  <2>7. ~Tick
    BY <1>1 DEF Tick, TypeOK, Time
  <2> QED
    BY <1>1, <2>2, <2>3, <2>4, <2>5, <2>6, <2>7
    DEF Next, Elect, Beat, UseLocks, StartElection, RequestVote, HandleVoteResponse,
        BroadcastHeartbeats, PurgeLocks, RegisterPeer, vars
<1>2. TypeOK /\ LoopInv /\ [Next]_vars =>
          [\A h \in Node, k \in Key :
               Agreed(h, k) => \/ Agreed(h, k)'
                               \/ now' # now
                               \/ locks'[h][k] = NoLock]_vars
  BY <1>1
<1> QED
  BY <1>2, LoopsRunAlone, TypeCorrect, PTL DEF Spec, AgreementIsStable

============================================================================
