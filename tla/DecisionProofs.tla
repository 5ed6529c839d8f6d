--------------------------- MODULE DecisionProofs ---------------------------
(***************************************************************************)
(* What holds of the decisions the engine takes, for every value of the    *)
(* constants: verdicts of experiments on canary guests, sessions on        *)
(* several hosts, and the formal verifier's proofs of safety.  Each part   *)
(* is one component's inductive invariant, that every action keeps it, and *)
(* the theorem it gives.                                                   *)
(***************************************************************************)
EXTENDS CanaryVerdicts, CrossHost, FormalVerifier, FiniteSetTheorems,
        WellFoundedInduction, TLAPS

----------------------------------------------------------------------------
(* Verdicts on canary guests *)

\* A domain still to be probed was seen as it is now.
SeenAsItIs ==
    \A g \in Guest : \A d \in canLeft[g] :
        /\ d \in canFaults[g] => d \in canFaulty[g]
        /\ d \notin canFaults[g] => d \in canClean[g]

\* Only a verification has probes to make.
NoneLeft == canStage \notin Checking => \A g \in Guest : canLeft[g] = {}

\* The guests are verified after the remediation.
Rechecked == canKind \in {"shadow", "fuzz"} \/ (canKind = "synth" /\ canSwarm.ok)

\* If no probe timed out: what a verification found was there; a guest it found nothing in
\* was clean in each domain it has probed; and the swarm runs on guests that were broken.
FoundIsTrue ==
    ~canLate =>
        /\ \A g \in Guest : canShown[g] \subseteq canFaulty[g] \cap Verified
        /\ canStage = "postcheck" /\ Rechecked =>
              \A g \in Twins : canShown[g] # {} \/ Verified \subseteq canLeft[g] \cup canClean[g]
        /\ canStage \in {"remediate", "postcheck"} /\ canKind \in {"shadow", "fuzz", "synth"}
              => canBefore = Twins

\* The invariant of an experiment.
CanInv ==
    /\ CanTypeOK
    /\ canStage # "over" => canVerdict = "none"
    /\ \A g \in Guest : canLeft[g] \subseteq Verified
    /\ NoneLeft
    /\ SeenAsItIs
    /\ FoundIsTrue
    /\ VerdictIsEarned

\* A verification that begins has everything before it.
LEMMA BeginIsRight ==
    ASSUME CanInv, NEW stage \in Checking, Begin(stage), canKind' = canKind,
           canFaults' \in PerGuest, canStage # "over",
           canLate' = canLate, canSwarm' \in Report, canBefore' \subseteq Guest,
           stage = "postcheck" /\ canKind \in {"shadow", "fuzz", "synth"} /\ ~canLate =>
               canBefore' = Twins
    PROVE  CanInv'
<1> USE DEF CanInv, CanTypeOK, PerGuest
<1>1. Verified' = Verified /\ Twins' = Twins /\ Verified \subseteq Domains
  BY DEF Verified, Probed, Twins
<1>2. /\ canLeft' \in PerGuest /\ canShown' \in PerGuest
      /\ canFaulty' \in PerGuest /\ canClean' \in PerGuest
  BY <1>1 DEF Begin, Nothing
<1>3. CanTypeOK'
  BY <1>2 DEF Begin, Checking
<1>4. \A g \in Guest : canLeft'[g] \subseteq Verified /\ canShown'[g] = {}
                       /\ (g \in Twins => canLeft'[g] = Verified)
                       /\ canFaulty'[g] = canFaults'[g] /\ canClean'[g] = Domains \ canFaults'[g]
  BY DEF Begin, Nothing
<1>5. SeenAsItIs'
  BY <1>1, <1>4 DEF SeenAsItIs
<1>6. FoundIsTrue'
  <2>1. canStage' = stage /\ stage # "remediate" /\ Twins \subseteq Guest
    BY DEF Begin, Checking, Twins, Guest
  <2> QED
    BY <1>1, <1>4, <2>1 DEF FoundIsTrue
<1>7. canStage' # "over" /\ canVerdict' = "none" /\ VerdictIsEarned'
  BY DEF Begin, Checking, VerdictIsEarned
<1> QED
  BY <1>1, <1>3, <1>4, <1>5, <1>6, <1>7 DEF NoneLeft, Begin

\* So has an experiment that goes on to a stage without one.
LEMMA GoOnIsRight ==
    ASSUME CanInv, NEW stage \in {"inject", "remediate", "postcheck"}, GoOn(stage),
           canKind' = canKind, canFaults' \in PerGuest, canStage # "over", canLate' = canLate,
           canSwarm' \in Report, canBefore' \subseteq Guest,
           stage # "inject" /\ canKind \in {"shadow", "fuzz", "synth"} /\ ~canLate =>
               canBefore' = Twins,
           stage = "postcheck" => ~Rechecked'
    PROVE  CanInv'
<1> USE DEF CanInv, CanTypeOK, PerGuest
<1>1. Verified' = Verified /\ Twins' = Twins
  BY DEF Verified, Twins
<1>2. \A g \in Guest : canLeft'[g] = {} /\ canShown'[g] = {}
  BY DEF GoOn, Nothing
<1>3. CanTypeOK'
  BY DEF GoOn, Nothing, Checking
<1>4. SeenAsItIs'
  BY <1>2 DEF SeenAsItIs
<1>5. FoundIsTrue'
  BY <1>1, <1>2 DEF FoundIsTrue, GoOn
<1>6. canStage' # "over" /\ canVerdict' = "none" /\ VerdictIsEarned'
  BY DEF GoOn, VerdictIsEarned
<1> QED
  BY <1>1, <1>2, <1>3, <1>4, <1>5, <1>6 DEF NoneLeft

\* A conclusion without a good verdict claims nothing.
LEMMA OtherConclusions ==
    ASSUME CanInv, NEW verdict \in {"bad", "raised"}, Conclude(verdict), canKind' = canKind,
           canFaults' = canFaults, canLate' = canLate, canSwarm' = canSwarm,
           canBefore' \subseteq Guest
    PROVE  CanInv'
<1> USE DEF CanInv, CanTypeOK, PerGuest
<1>1. \A g \in Guest : canLeft'[g] = {} /\ canShown'[g] = {}
  BY DEF Conclude, Nothing
<1>2. CanTypeOK'
  BY DEF Conclude, Nothing
<1>3. SeenAsItIs' /\ FoundIsTrue'
  BY <1>1 DEF Conclude, SeenAsItIs, FoundIsTrue
<1>4. VerdictIsEarned'
  BY DEF Conclude, VerdictIsEarned
<1> QED
  BY <1>1, <1>2, <1>3, <1>4 DEF Conclude, NoneLeft

\* A probe finds what is there, unless it times out.
LEMMA ProbeIsRight ==
    ASSUME CanInv, NEW g \in Guest, NEW d \in Domains, CanProbe(g, d)
    PROVE  CanInv'
<1> USE DEF CanInv, CanTypeOK, PerGuest
<1>1. PICK shows \in BOOLEAN, late \in BOOLEAN :
          /\ late \/ shows = (d \in canFaults[g])
          /\ canShown' = [canShown EXCEPT ![g] = IF shows THEN @ \cup {d} ELSE @]
          /\ \/ canLeft' = [canLeft EXCEPT ![g] = @ \ {d}]
             \/ shows /\ canKind # "fuzz" /\ canLeft' = [canLeft EXCEPT ![g] = {}]
          /\ canLate' = (canLate \/ late)
  BY DEF CanProbe
<1>2. /\ canStage \in Checking /\ d \in canLeft[g]
      /\ UNCHANGED <<canInputs, canStage, canFaults, canVerdict, canSeen, canBefore>>
  BY DEF CanProbe
<1>3. canLeft' \in PerGuest /\ canShown' \in PerGuest /\ canLate' \in BOOLEAN
  <2>1. canLate' \in BOOLEAN
    BY <1>1, Zenon
  <2>2. canLeft' \in PerGuest
    BY <1>1
  <2>3. canShown' \in PerGuest
    BY <1>1
  <2> QED
    BY <2>1, <2>2, <2>3
<1>4. CanTypeOK'
  BY <1>2, <1>3 DEF canInputs, canSeen
<1>5. /\ \A h \in Guest : canLeft'[h] \subseteq canLeft[h]
      /\ \A h \in Guest \ {g} : canLeft'[h] = canLeft[h] /\ canShown'[h] = canShown[h]
  BY <1>1
<1>6. Verified' = Verified /\ Twins' = Twins /\ Rechecked' = Rechecked
  BY <1>2 DEF Verified, Twins, Rechecked, canInputs
<1>7. SeenAsItIs'
  BY <1>2, <1>5 DEF SeenAsItIs, canSeen
<1>8. FoundIsTrue'
  <2> SUFFICES ASSUME ~canLate' PROVE FoundIsTrue'
    BY DEF FoundIsTrue
  <2>1. ~canLate /\ ~late
    BY <1>1, Zenon
  <2>2. shows <=> d \in canFaults[g]
    BY <1>1, <2>1, Zenon
  <2>3. Twins \subseteq Guest
    BY DEF Twins, Guest
  <2>4. CASE shows
    <3>1. d \in canFaulty[g] /\ d \in Verified
      BY <1>2, <2>2, <2>4 DEF SeenAsItIs
    <3>2. canShown'[g] = canShown[g] \cup {d}
      BY <1>1, <2>4
    <3>3. \A h \in Guest : canShown'[h] \subseteq canFaulty[h] \cap Verified
      BY <1>5, <2>1, <3>1, <3>2 DEF FoundIsTrue
    <3>4. ASSUME canStage = "postcheck", Rechecked, NEW h \in Twins
          PROVE  canShown'[h] # {} \/ Verified \subseteq canLeft'[h] \cup canClean[h]
      <4>1. canShown[h] # {} \/ Verified \subseteq canLeft[h] \cup canClean[h]
        BY <2>1, <3>4 DEF FoundIsTrue
      <4>2. h = g \/ (canLeft'[h] = canLeft[h] /\ canShown'[h] = canShown[h])
        BY <1>5, <2>3
      <4> QED
        BY <3>2, <4>1, <4>2
    <3> QED
      BY <1>2, <1>6, <2>1, <3>3, <3>4 DEF FoundIsTrue, canInputs, canSeen
  <2>5. CASE ~shows
    <3>1. d \in canClean[g]
      BY <1>2, <2>2, <2>5 DEF SeenAsItIs
    <3>2. canShown' = canShown /\ canLeft'[g] = canLeft[g] \ {d}
      BY <1>1, <2>5
    <3>3. ASSUME canStage = "postcheck", Rechecked, NEW h \in Twins
          PROVE  canShown[h] # {} \/ Verified \subseteq canLeft'[h] \cup canClean[h]
      <4>1. canShown[h] # {} \/ Verified \subseteq canLeft[h] \cup canClean[h]
        BY <2>1, <3>3 DEF FoundIsTrue
      <4>2. h = g \/ canLeft'[h] = canLeft[h]
        BY <1>5, <2>3
      <4> QED
        BY <3>1, <3>2, <4>1, <4>2
    <3> QED
      BY <1>2, <1>6, <2>1, <3>2, <3>3 DEF FoundIsTrue, canInputs, canSeen
  <2> QED
    BY <2>4, <2>5
<1>9. canVerdict' = "none" /\ VerdictIsEarned'
  BY <1>2 DEF Checking, VerdictIsEarned
<1> QED
  BY <1>2, <1>4, <1>5, <1>6, <1>7, <1>8, <1>9 DEF NoneLeft

\* A good verdict follows from what the verifications found.
LEMMA GoodIsEarned ==
    ASSUME CanInv, CanDecide
    PROVE  CanInv'
<1> USE DEF CanInv, CanTypeOK, PerGuest
<1>1. /\ canStage = "postcheck" /\ \A g \in Guest : canLeft[g] = {}
      /\ UNCHANGED <<canInputs, canFaults, canBefore, canLate>>
  BY DEF CanDecide, AllProbed
<1>2. \/ Conclude("bad")
      \/ /\ Conclude("good")
         /\ canKind = "shadow" => Healthy("primary") /\ ~Healthy("shadow")
         /\ canKind \in {"fuzz", "synth"} => Healthy("primary")
  BY DEF CanDecide, PrimaryResolved
<1>3. CASE Conclude("bad")
  BY <1>1, <1>3, OtherConclusions DEF canInputs
<1>4. ASSUME /\ Conclude("good")
             /\ canKind = "shadow" => Healthy("primary") /\ ~Healthy("shadow")
             /\ canKind \in {"fuzz", "synth"} => Healthy("primary")
      PROVE  CanInv'
  <2>1. \A g \in Guest : canLeft'[g] = {} /\ canShown'[g] = {}
    BY <1>4 DEF Conclude, Nothing
  <2>2. CanTypeOK'
    BY <1>1, <1>4 DEF Conclude, Nothing, canSeen, canInputs
  <2>3. SeenAsItIs' /\ FoundIsTrue'
    BY <1>4, <2>1 DEF Conclude, SeenAsItIs, FoundIsTrue
  <2>4. VerdictIsEarned'
    <3> SUFFICES ASSUME ~canLate PROVE VerdictIsEarned'
      BY <1>1 DEF VerdictIsEarned
    <3>1. canKind \in {"shadow", "fuzz", "synth"} => canBefore = Twins
      BY <1>1 DEF FoundIsTrue
    <3>2. "primary" \in Twins /\ Twins \subseteq Guest
      BY DEF Twins, Guest
    <3>3. Rechecked /\ Healthy("primary") => Verified \subseteq canClean["primary"]
      BY <1>1, <3>2 DEF FoundIsTrue, Healthy
    <3>4. ~Healthy("shadow") => canFaulty["shadow"] # {}
      BY DEF FoundIsTrue, Healthy, Guest
    <3>5. canClean["primary"] \subseteq Domains
      BY DEF Guest
    <3>6. canClean' = canClean /\ canFaulty' = canFaulty
      BY <1>4 DEF Conclude, canSeen
    <3> QED
      BY <1>1, <1>4, <3>1, <3>3, <3>4, <3>5, <3>6
      DEF VerdictIsEarned, Rechecked, Verified, Twins, canInputs
  <2> QED
    BY <1>4, <2>1, <2>2, <2>3, <2>4 DEF Conclude, NoneLeft
<1> QED
  BY <1>2, <1>3, <1>4

\* Every step of an experiment keeps the invariant.
LEMMA CanInvStep ==
    ASSUME CanInv, [CanNext]_canVars
    PROVE  CanInv'
<1> USE DEF CanInv, CanTypeOK, PerGuest
<1>1. CASE CanSetUp
  <2>1. canStage = "setup" /\ UNCHANGED <<canInputs, canFaults, canBefore, canLate>>
    BY <1>1 DEF CanSetUp
  <2>2. Begin("baseline") \/ GoOn("inject")
    BY <1>1 DEF CanSetUp
  <2> QED
    BY <2>1, <2>2, BeginIsRight, GoOnIsRight DEF canInputs, Checking
<1>2. CASE CanBaseline
  <2>1. canStage # "over" /\ UNCHANGED <<canInputs, canFaults, canBefore, canLate>>
    BY <1>2 DEF CanBaseline, AllProbed
  <2>2. Conclude("bad") \/ GoOn("inject")
    BY <1>2 DEF CanBaseline
  <2> QED
    BY <2>1, <2>2, OtherConclusions, GoOnIsRight DEF canInputs
<1>3. CASE CanInject
  <2>1. canFaults' \in PerGuest
    BY <1>3 DEF CanInject
  <2>2. canStage # "over" /\ UNCHANGED <<canInputs, canBefore, canLate>>
    BY <1>3 DEF CanInject
  <2>3. \/ canKind \in {"watchdog", "chaos"} /\ GoOn("remediate")
        \/ Begin("precheck")
    BY <1>3 DEF CanInject
  <2> QED
    BY <2>1, <2>2, <2>3, BeginIsRight, GoOnIsRight DEF canInputs, Checking
<1>4. CASE CanPrecheck
  <2>1. /\ canStage = "precheck" /\ UNCHANGED <<canInputs, canFaults, canLate>>
        /\ canBefore' = {g \in Twins : canFaulty[g] \cap Verified # {}}
    BY <1>4 DEF CanPrecheck, AllProbed
  <2>2. canBefore' \subseteq Guest
    BY <2>1 DEF Twins, Guest
  <2>3. CASE Broken /\ GoOn("remediate")
    <3>1. ~canLate => canBefore' = Twins
      <4>1. \A g \in Twins : canShown[g] # {} /\ g \in Guest
        BY <2>3 DEF Broken, Healthy, Twins, Guest
      <4> QED
        BY <2>1, <4>1 DEF FoundIsTrue
    <3> QED
      BY <2>1, <2>2, <2>3, <3>1, GoOnIsRight DEF canInputs
  <2>4. CASE Conclude("bad") \/ Conclude("raised")
    BY <2>1, <2>2, <2>4, OtherConclusions DEF canInputs
  <2> QED
    BY <1>4, <2>3, <2>4 DEF CanPrecheck
<1>5. CASE CanRemediate
  <2>1. /\ canStage = "remediate" /\ canSwarm' \in Report
        /\ UNCHANGED <<canKind, canBefore, canLate>>
    BY <1>5 DEF CanRemediate
  <2>2. canFaults' \in PerGuest
    BY <1>5 DEF CanRemediate
  <2>3. Begin("postcheck") \/ (GoOn("postcheck") /\ ~Rechecked')
    BY <1>5, <2>1 DEF CanRemediate, Rechecked
  <2>4. ~canLate /\ canKind \in {"shadow", "fuzz", "synth"} => canBefore = Twins
    BY <2>1 DEF FoundIsTrue
  <2> QED
    BY <2>1, <2>2, <2>3, <2>4, BeginIsRight, GoOnIsRight DEF Checking
<1>6. CASE CanDecide
  BY <1>6, GoodIsEarned
<1>7. CASE CanRaise
  <2>1. Conclude("bad") \/ Conclude("raised")
    BY <1>7 DEF CanRaise
  <2> QED
    BY <1>7, <2>1, OtherConclusions DEF CanRaise, canInputs
<1>8. CASE CanDrift
  <2>1. PICK g \in Twins, faults \in SUBSET Domains :
            /\ canFaults' = [canFaults EXCEPT ![g] = faults]
            /\ IF canStage \in Checking
               THEN /\ canFaulty' = [canFaulty EXCEPT ![g] = @ \cup faults]
                    /\ canClean' = [canClean EXCEPT ![g] = @ \cup (Domains \ faults)]
               ELSE UNCHANGED canSeen
    BY <1>8 DEF CanDrift
  <2>2. /\ canStage # "over" /\ g \in Guest
        /\ UNCHANGED <<canInputs, canStage, canCheck, canVerdict, canBefore, canLate>>
    BY <1>8 DEF CanDrift, Twins, Guest
  <2>3. CanTypeOK'
    BY <2>1, <2>2 DEF canInputs, canCheck, canSeen
  <2>4. \A h \in Guest : canFaulty[h] \subseteq canFaulty'[h] /\ canClean[h] \subseteq canClean'[h]
    BY <2>1, <2>2 DEF canSeen
  <2>5. Verified' = Verified /\ Twins' = Twins /\ Rechecked' = Rechecked
    BY <2>2 DEF Verified, Twins, Rechecked, canInputs
  <2>6. Twins \subseteq Guest
    BY DEF Twins, Guest
  <2>7. FoundIsTrue'
    BY <2>2, <2>4, <2>5, <2>6 DEF FoundIsTrue, canCheck, canInputs
  <2>8. SeenAsItIs'
    <3>1. CASE canStage \in Checking
      BY <2>1, <2>2, <3>1 DEF SeenAsItIs, canCheck
    <3>2. CASE canStage \notin Checking
      BY <2>2, <3>2 DEF SeenAsItIs, canCheck, NoneLeft
    <3> QED
      BY <3>1, <3>2
  <2> QED
    BY <2>2, <2>3, <2>5, <2>7, <2>8 DEF VerdictIsEarned, canCheck, NoneLeft
<1>9. ASSUME NEW g \in Guest, NEW d \in Domains, CanProbe(g, d) PROVE CanInv'
  BY <1>9, ProbeIsRight
<1>10. CASE UNCHANGED canVars
  BY <1>10
  DEF canVars, canInputs, canCheck, canSeen, VerdictIsEarned, FoundIsTrue, SeenAsItIs,
      Verified, Twins, Rechecked, NoneLeft
<1> QED
  BY <1>1, <1>2, <1>3, <1>4, <1>5, <1>6, <1>7, <1>8, <1>9, <1>10 DEF CanNext

\* Whatever the guests do by themselves: a twin comparison promotes only if both guests were
\* broken before the swarm and, after it, the primary clean in each domain and the shadow
\* broken at some moment; likewise the fuzzer and the pre-flight check for their guest.
THEOREM VerdictsAreEarned == CanSpec => []VerdictIsEarned
<1>1. CanInit => CanInv
  <2> SUFFICES ASSUME CanInit PROVE CanInv
    OBVIOUS
  <2>1. CanTypeOK
    BY DEF CanInit, CanTypeOK, Report, Nothing, PerGuest
  <2>2. \A g \in Guest : canLeft[g] = {} /\ canShown[g] = {}
    BY DEF CanInit, Nothing
  <2> QED
    BY <2>1, <2>2
    DEF CanInit, CanInv, VerdictIsEarned, SeenAsItIs, FoundIsTrue, NoneLeft, Checking
<1>2. CanInv /\ [CanNext]_canVars => CanInv'
  BY CanInvStep
<1>3. CanInv => VerdictIsEarned
  BY DEF CanInv
<1> QED
  BY <1>1, <1>2, <1>3, PTL DEF CanSpec

----------------------------------------------------------------------------
(* Sessions on several hosts *)

\* Sessions that are inside together know of one another.
TheyMet == \A r, s \in ChInside : r # s => r \in chMet[s].others

\* A session's lock is in its engine's table, or was lost or shared.
LockKept(s) ==
    \/ chTable[chEngineOf[s]] = chEngineOf[s]
    \/ chMet[s].lost
    \/ \E r \in chMet[s].others : chEngineOf[r] = chEngineOf[s]

\* What a session that met no other has seen, left and restored so far.
AloneFits(s) ==
    LET seen(n) == chSnap[s][n] = chStart[s][n]
        asFound(n) == chNode[n] = chStart[s][n]
    IN  /\ chAt[s] = "snapshot" =>
               \A n \in ChNode : asFound(n) /\ (n <= chDone[s] => seen(n))
        /\ chAt[s] \in {"repair", "verify", "revert"} => \A n \in ChNode : seen(n)
        /\ \A n \in ChNode : chNode[n] \in {chStart[s][n], s}
        /\ \A n \in ChNode : n <= chBack[s] => asFound(n)
        /\ chAt[s] # "release" => chBack[s] = IF chAt[s] = "revert" THEN chDone[s] ELSE 0
        /\ chAt[s] = "release" /\ chResult[s] = "reverted" => chBack[s] = ChNodes

\* What a session has seen of every node it has visited, or of all of them.
HasSeen(s) ==
    /\ chAt[s] = "snapshot" => \A n \in ChNode : n <= chDone[s] => chSnap[s][n] \in ChContent
    /\ chAt[s] \in {"repair", "verify", "revert"} =>
           \A n \in ChNode : chSnap[s][n] \in ChContent

\* Nothing is counted before the lock.
NotBackYet == \A s \in ChSession : chAt[s] = "start" => chBack[s] = 0

\* The invariant of the coordinator's sessions.
ChInv ==
    /\ ChTypeOK
    /\ NotBackYet
    /\ \A s \in ChInside : HasSeen(s)
    /\ TheyMet
    /\ \A s \in ChInside : LockKept(s)
    /\ \A s \in ChInside : chMet[s].others = {} => AloneFits(s)

\* The types of what a session's own steps change.
ChPlacesOK ==
    /\ chAt \in [ChSession -> {"start", "snapshot", "repair", "verify", "revert", "release",
                               "returned", "raised"}]
    /\ chDone \in [ChSession -> 0 .. ChNodes]
ChResultOK ==
    chResult \in [ChSession -> {"none", "locked out", "success", "reverted", "exception"}]
ChMovesOK ==
    /\ ChPlacesOK
    /\ ChResultOK
    /\ chNode \in [ChNode -> ChContent]
    /\ chSnap \in [ChSession -> [ChNode -> ChContent \cup {"none"}]]
    /\ chBack \in [ChSession -> 0 .. ChNodes]

\* The session goes on to another loop, or to the next node.
LEMMA ChGoes ==
    ASSUME ChMovesOK, NEW s \in ChSession,
           NEW at \in {"start", "snapshot", "repair", "verify", "revert", "release",
                       "returned", "raised"}, ChGoTo(s, at)
    PROVE  /\ ChPlacesOK'
           /\ chAt'[s] = at /\ chDone'[s] = 0
           /\ \A r \in ChSession \ {s} : chAt'[r] = chAt[r] /\ chDone'[r] = chDone[r]
<1>1. 0 \in 0 .. ChNodes
  BY CrossHostAssumption
<1>2. chAt' = [chAt EXCEPT ![s] = at] /\ chDone' = [chDone EXCEPT ![s] = 0]
  BY DEF ChGoTo
<1> QED
  BY <1>1, <1>2 DEF ChMovesOK, ChPlacesOK, ChResultOK

\* The session goes on to the next node of the loop it is in.
LEMMA ChVisits ==
    ASSUME ChMovesOK, NEW s \in ChSession, chDone[s] + 1 <= ChNodes, ChVisit(s)
    PROVE  /\ chAt' = chAt
           /\ ChPlacesOK'
           /\ chDone'[s] = chDone[s] + 1
           /\ \A r \in ChSession \ {s} : chDone'[r] = chDone[r]
<1>1. chDone[s] + 1 \in 0 .. ChNodes
  <2>1. chDone[s] \in 0 .. ChNodes /\ ChNodes \in Nat
    BY CrossHostAssumption DEF ChMovesOK, ChPlacesOK, ChResultOK
  <2> QED
    BY <2>1
<1>2. chAt' = chAt /\ chDone' = [chDone EXCEPT ![s] = chDone[s] + 1]
  BY DEF ChVisit
<1> QED
  BY <1>1, <1>2 DEF ChMovesOK, ChPlacesOK, ChResultOK

\* The session's outcome is settled.
LEMMA ChEnds ==
    ASSUME ChMovesOK, NEW s \in ChSession,
           NEW result \in {"locked out", "success", "reverted", "exception"},
           chResult' = [chResult EXCEPT ![s] = result]
    PROVE  /\ ChResultOK'
           /\ chResult'[s] = result
           /\ \A r \in ChSession \ {s} : chResult'[r] = chResult[r]
  BY DEF ChMovesOK, ChPlacesOK, ChResultOK

\* A step of one session inside the topology that leaves the lock alone.
LEMMA InsideStep ==
    ASSUME ChInv, NEW s \in ChSession, s \in ChInside,
           UNCHANGED <<chEngineOf, chTable, chStart, chMet>>,
           ChMovesOK', s \in ChInside',
           \A r \in ChSession \ {s} : /\ chAt'[r] = chAt[r] /\ chDone'[r] = chDone[r]
                                       /\ chSnap'[r] = chSnap[r] /\ chBack'[r] = chBack[r],
           HasSeen(s)',
           chMet[s].others = {} => AloneFits(s)'
    PROVE  ChInv'
<1>1. ChInside' = ChInside
  BY DEF ChInside
<1>2. TheyMet' /\ \A r \in ChInside' : LockKept(r)'
  BY <1>1 DEF ChInv, TheyMet, LockKept
<1>3. ASSUME NEW r \in ChInside', chMet'[r].others = {} PROVE AloneFits(r)'
  <2>1. CASE r = s
    BY <1>3, <2>1
  <2>2. CASE r # s
    <3>1. FALSE
      BY <1>1, <1>3, <2>2 DEF ChInv, TheyMet
    <3> QED
      BY <3>1
  <2> QED
    BY <2>1, <2>2
<1>4. ChTypeOK' /\ NotBackYet'
  BY DEF ChInv, ChTypeOK, ChMovesOK, ChPlacesOK, ChResultOK, NotBackYet, ChInside
<1>5. ASSUME NEW r \in ChInside' PROVE HasSeen(r)'
  <2>1. CASE r = s
    BY <2>1
  <2>2. CASE r # s
    <3>1. HasSeen(r) /\ r \in ChSession \ {s}
      BY <1>1, <1>5, <2>2 DEF ChInv, ChInside
    <3> QED
      BY <3>1 DEF HasSeen
  <2> QED
    BY <2>1, <2>2
<1> QED
  BY <1>1, <1>2, <1>3, <1>4, <1>5 DEF ChInv

\* Every step of every session, and the passing of time, keeps the invariant.
LEMMA ChInvStep ==
    ASSUME ChInv, [ChNext]_chVars
    PROVE  ChInv'
<1>0. ChMovesOK
  BY DEF ChInv, ChTypeOK, ChMovesOK, ChPlacesOK, ChResultOK
<1>1. ASSUME NEW s \in ChSession, ChAcquire(s) PROVE ChInv'
  <2>0. chAt[s] = "start" /\ UNCHANGED <<chEngineOf, chNode, chSnap, chBack>>
    BY <1>1 DEF ChAcquire
  <2> DEFINE e == chEngineOf[s]
  <2>3. /\ e \in ChEngine /\ chTable \in [ChEngine -> ChEngine \cup {ChNobody}]
        /\ chEngineOf \in [ChSession -> ChEngine] /\ ChNobody \notin ChEngine
    BY CrossHostAssumption DEF ChInv, ChTypeOK
  <2>1. CASE chTable[e] \in {ChNobody, e}
    <3>1. /\ chTable' = [chTable EXCEPT ![e] = e] /\ UNCHANGED chResult
          /\ ChGoTo(s, "snapshot")
          /\ chStart' = [chStart EXCEPT ![s] = chNode]
          /\ chMet' = [r \in ChSession |->
                   [chMet[r] EXCEPT !.others = IF r = s THEN ChInside
                                               ELSE IF r \in ChInside THEN @ \cup {s} ELSE @]]
      BY <1>1, <2>1 DEF ChAcquire
    <3> DEFINE goes ==
          /\ ChPlacesOK'
    <3>2. /\ goes /\ chAt'[s] = "snapshot" /\ chDone'[s] = 0
          /\ \A r \in ChSession \ {s} : chAt'[r] = chAt[r] /\ chDone'[r] = chDone[r]
      BY <1>0, <3>1, ChGoes
    <3>3. s \notin ChInside /\ ChInside' = ChInside \cup {s} /\ ChInside \subseteq ChSession
      BY <2>0, <3>2 DEF ChInside
    <3>4. chMet \in [ChSession -> [others : SUBSET ChSession, lost : BOOLEAN]]
      BY DEF ChInv, ChTypeOK
    <3>5. ChTypeOK'
      <4>1. chMet' \in [ChSession -> [others : SUBSET ChSession, lost : BOOLEAN]]
        BY <3>1, <3>3, <3>4
      <4>2. chStart' \in [ChSession -> [ChNode -> ChContent]]
        BY <1>0, <3>1 DEF ChInv, ChTypeOK, ChMovesOK
      <4>3. /\ chEngineOf' \in [ChSession -> ChEngine]
            /\ chTable' \in [ChEngine -> ChEngine \cup {ChNobody}]
        BY <2>0, <2>3, <3>1
      <4>4. chSnap' = chSnap /\ chNode' = chNode /\ chResult' = chResult /\ chBack' = chBack
        BY <2>0, <3>1
      <4> QED
        BY <1>0, <3>2, <4>1, <4>2, <4>3, <4>4 DEF ChTypeOK, ChMovesOK, ChPlacesOK, ChResultOK
    <3>6. /\ chMet'[s].others = ChInside
          /\ \A r \in ChSession \ {s} :
                 /\ chMet'[r].others = IF r \in ChInside THEN chMet[r].others \cup {s}
                                                         ELSE chMet[r].others
                 /\ chMet'[r].lost = chMet[r].lost
      BY <3>1, <3>4
    <3>7. TheyMet'
      <4>1. \A r, q \in ChInside : r # q => r \in chMet'[q].others
        BY <3>3, <3>6, ZenonT(30) DEF ChInv, TheyMet
      <4>2. \A r \in ChInside : r \in chMet'[s].others /\ s \in chMet'[r].others
        BY <3>3, <3>6
      <4> QED
        BY <3>3, <4>1, <4>2 DEF TheyMet
    <3>8. ASSUME NEW r \in ChInside' PROVE LockKept(r)'
      <4>1. CASE r = s
        BY <2>0, <2>3, <3>1, <4>1 DEF LockKept
      <4>2. CASE r # s
        <5>1. r \in ChInside /\ LockKept(r) /\ chMet[r].others \subseteq chMet'[r].others
              /\ chMet'[r].lost = chMet[r].lost
          BY <3>3, <3>6, <4>2 DEF ChInv
        <5>2. chTable[chEngineOf[r]] = chEngineOf[r] => chTable'[chEngineOf[r]] = chEngineOf[r]
          BY <2>3, <3>1, <3>3, <5>1
        <5> QED
          BY <2>0, <5>1, <5>2 DEF LockKept
      <4> QED
        BY <4>1, <4>2
    <3>9. ASSUME NEW r \in ChInside', chMet'[r].others = {} PROVE AloneFits(r)'
      <4>1. r = s
        BY <3>3, <3>6, <3>9
      <4>2. chStart'[s] = chNode /\ chNode' = chNode /\ chBack' = chBack
        BY <2>0, <3>1 DEF ChInv, ChTypeOK
      <4>3. chBack[s] = 0
        BY <2>0 DEF ChInv, NotBackYet
      <4> QED
        BY <3>2, <4>1, <4>2, <4>3 DEF AloneFits, ChNode
    <3>10. ASSUME NEW r \in ChInside' PROVE HasSeen(r)'
      <4>1. CASE r = s
        BY <2>0, <3>2, <4>1 DEF HasSeen, ChNode
      <4>2. CASE r # s
        <5>1. HasSeen(r) /\ r \in ChSession \ {s}
          BY <3>3, <3>10, <4>2 DEF ChInv
        <5> QED
          BY <2>0, <3>2, <5>1 DEF HasSeen
      <4> QED
        BY <4>1, <4>2
    <3>11. NotBackYet'
      BY <2>0, <3>2 DEF ChInv, NotBackYet
    <3> QED
      BY <3>5, <3>7, <3>8, <3>9, <3>10, <3>11 DEF ChInv
  <2>2. CASE chTable[e] \notin {ChNobody, e}
    <3>1. /\ UNCHANGED <<chTable, chStart, chMet>> /\ ChGoTo(s, "returned")
          /\ chResult' = [chResult EXCEPT ![s] = "locked out"]
      BY <1>1, <2>2 DEF ChAcquire
    <3>2. /\ ChPlacesOK' /\ chAt'[s] = "returned"
          /\ \A r \in ChSession \ {s} : chAt'[r] = chAt[r] /\ chDone'[r] = chDone[r]
      BY <1>0, <3>1, ChGoes
    <3>3. /\ ChResultOK'
          /\ \A r \in ChSession \ {s} : chResult'[r] = chResult[r]
      BY <1>0, <3>1, ChEnds
    <3>4. ChInside' = ChInside /\ s \notin ChInside
      BY <2>0, <3>2 DEF ChInside
    <3>5. ChTypeOK'
      BY <2>0, <3>1, <3>2, <3>3 DEF ChInv, ChTypeOK, ChPlacesOK, ChResultOK
    <3>6. ASSUME NEW r \in ChInside
          PROVE  HasSeen(r)' /\ (AloneFits(r) => AloneFits(r)')
      <4>1. r \in ChSession \ {s}
        BY <3>4 DEF ChInside
      <4> QED
        BY <2>0, <3>1, <3>2, <3>3, <4>1 DEF AloneFits, HasSeen, ChInv
    <3>7. ASSUME NEW r \in ChInside'
          PROVE  LockKept(r)' /\ HasSeen(r)' /\ (chMet'[r].others = {} => AloneFits(r)')
      BY <2>0, <3>1, <3>4, <3>6, <3>7 DEF ChInv, LockKept
    <3>8. TheyMet' /\ NotBackYet'
      BY <2>0, <3>1, <3>2, <3>4 DEF ChInv, TheyMet, NotBackYet
    <3> QED
      BY <3>4, <3>5, <3>7, <3>8 DEF ChInv
  <2> QED
    BY <2>1, <2>2
<1>2. ASSUME NEW s \in ChSession, ChSnapshot(s) PROVE ChInv'
  <2> DEFINE n == chDone[s] + 1
  <2>1. s \in ChInside /\ chAt[s] = "snapshot" /\ chDone[s] \in 0 .. ChNodes
        /\ UNCHANGED <<chEngineOf, chTable, chNode, chStart, chBack, chMet>>
    BY <1>0, <1>2 DEF ChSnapshot, ChInside, ChMovesOK, ChPlacesOK, ChResultOK
  <2>2. HasSeen(s) /\ (chMet[s].others = {} => AloneFits(s))
    BY <2>1 DEF ChInv
  <2>3. CASE n > ChNodes
    <3>1. UNCHANGED <<chSnap, chResult>> /\ ChGoTo(s, "repair")
      BY <1>2, <2>3 DEF ChSnapshot
    <3>2. /\ ChMovesOK' /\ chAt'[s] = "repair"
          /\ \A r \in ChSession \ {s} : chAt'[r] = chAt[r] /\ chDone'[r] = chDone[r]
      BY <1>0, <2>1, <3>1, ChGoes DEF ChMovesOK, ChPlacesOK, ChResultOK
    <3>3. \A m \in ChNode : m <= chDone[s]
      BY <2>1, <2>3, CrossHostAssumption DEF ChNode
    <3>4. HasSeen(s)' /\ (AloneFits(s) => AloneFits(s)')
      BY <2>1, <2>2, <3>1, <3>2, <3>3 DEF AloneFits, HasSeen
    <3> QED
      BY <2>1, <2>2, <3>1, <3>2, <3>4, InsideStep DEF ChInside
  <2>4. CASE n <= ChNodes /\ ~ChRaise(s)
    <3>1. chSnap' = [chSnap EXCEPT ![s][n] = chNode[n]] /\ UNCHANGED chResult /\ ChVisit(s)
      <4>1. ~(n > ChNodes)
        BY <2>1, <2>4, CrossHostAssumption
      <4> QED
        BY <1>2, <2>4, <4>1 DEF ChSnapshot
    <3>2. n \in ChNode
      BY <2>1, <2>4 DEF ChNode
    <3>3. /\ ChPlacesOK' /\ chAt' = chAt /\ chDone'[s] = n
          /\ \A r \in ChSession \ {s} : chDone'[r] = chDone[r]
      BY <1>0, <2>4, <3>1, ChVisits
    <3>4. /\ chSnap' \in [ChSession -> [ChNode -> ChContent \cup {"none"}]]
          /\ chSnap'[s][n] = chNode[n] /\ chNode[n] \in ChContent
          /\ \A r \in ChSession \ {s} : chSnap'[r] = chSnap[r]
          /\ \A m \in ChNode : m # n => chSnap'[s][m] = chSnap[s][m]
      BY <1>0, <3>1, <3>2 DEF ChMovesOK
    <3>5. \A m \in ChNode : m <= n => m = n \/ m <= chDone[s]
      BY <2>1 DEF ChNode
    <3> HIDE DEF n
    <3>6. HasSeen(s)' /\ (AloneFits(s) => AloneFits(s)')
      BY <2>1, <2>2, <3>2, <3>3, <3>4, <3>5 DEF AloneFits, HasSeen
    <3>7. ChMovesOK'
      BY <1>0, <2>1, <3>1, <3>3, <3>4 DEF ChMovesOK, ChPlacesOK, ChResultOK
    <3> QED
      BY <2>1, <2>2, <3>3, <3>4, <3>6, <3>7, InsideStep DEF ChInside
  <2>5. CASE n <= ChNodes /\ ChRaise(s)
    <3>1. ChGoTo(s, "release") /\ chResult' = [chResult EXCEPT ![s] = "exception"]
      BY <2>5 DEF ChRaise
    <3>2. /\ ChPlacesOK' /\ chAt'[s] = "release" /\ chDone'[s] = 0
          /\ \A r \in ChSession \ {s} : chAt'[r] = chAt[r] /\ chDone'[r] = chDone[r]
      BY <1>0, <3>1, ChGoes
    <3>3. /\ ChResultOK'
          /\ chResult'[s] = "exception"
      BY <1>0, <3>1, ChEnds
    <3>4. UNCHANGED chSnap
      <4>1. chAt' # chAt
        BY <2>1, <3>2
      <4> QED
        BY <1>2, <2>5, <4>1 DEF ChSnapshot, ChVisit
    <3>5. ChMovesOK' /\ (AloneFits(s) => AloneFits(s)') /\ HasSeen(s)'
      BY <1>0, <2>1, <3>2, <3>3, <3>4 DEF ChMovesOK, AloneFits, HasSeen
    <3> QED
      BY <2>1, <2>2, <3>2, <3>4, <3>5, InsideStep DEF ChInside
  <2>6. n > ChNodes \/ n <= ChNodes
    BY <2>1, CrossHostAssumption
  <2> QED
    BY <2>3, <2>4, <2>5, <2>6
<1>3. ASSUME NEW s \in ChSession, ChRepair(s) PROVE ChInv'
  <2> DEFINE n == chDone[s] + 1
  <2>1. s \in ChInside /\ chAt[s] = "repair" /\ chDone[s] \in 0 .. ChNodes
        /\ UNCHANGED <<chEngineOf, chTable, chSnap, chResult, chStart, chBack, chMet>>
    BY <1>0, <1>3 DEF ChRepair, ChInside, ChMovesOK, ChPlacesOK, ChResultOK
  <2>2. HasSeen(s) /\ (chMet[s].others = {} => AloneFits(s))
    BY <2>1 DEF ChInv
  <2>3. CASE n > ChNodes
    <3>1. UNCHANGED chNode /\ ChGoTo(s, "verify")
      BY <1>3, <2>3 DEF ChRepair
    <3>2. /\ ChMovesOK' /\ chAt'[s] = "verify"
          /\ \A r \in ChSession \ {s} : chAt'[r] = chAt[r] /\ chDone'[r] = chDone[r]
      BY <1>0, <2>1, <3>1, ChGoes DEF ChMovesOK, ChPlacesOK, ChResultOK
    <3>3. HasSeen(s)' /\ (AloneFits(s) => AloneFits(s)')
      BY <2>1, <2>2, <3>1, <3>2 DEF AloneFits, HasSeen
    <3> QED
      BY <2>1, <2>2, <3>2, <3>3, InsideStep DEF ChInside
  <2>4. CASE n <= ChNodes
    <3>1. chNode' \in {chNode, [chNode EXCEPT ![n] = s]} /\ ChVisit(s)
      <4>1. ~(n > ChNodes)
        BY <2>1, <2>4, CrossHostAssumption
      <4> QED
        BY <1>3, <4>1 DEF ChRepair
    <3>2. /\ ChPlacesOK' /\ chAt' = chAt
          /\ \A r \in ChSession \ {s} : chDone'[r] = chDone[r]
      BY <1>0, <2>4, <3>1, ChVisits
    <3>3. /\ chNode' \in [ChNode -> ChContent]
          /\ \A m \in ChNode : chNode'[m] \in {chNode[m], s}
      BY <1>0, <3>1 DEF ChMovesOK, ChContent
    <3>4. ChMovesOK' /\ HasSeen(s)' /\ (AloneFits(s) => AloneFits(s)')
      <4>1. \A m \in ChNode : ~(m <= 0)
        BY DEF ChNode
      <4> QED
        BY <1>0, <2>1, <2>2, <3>2, <3>3, <4>1
        DEF ChMovesOK, AloneFits, HasSeen, ChPlacesOK, ChResultOK
    <3> QED
      BY <2>1, <2>2, <3>2, <3>4, InsideStep DEF ChInside
  <2>5. n > ChNodes \/ n <= ChNodes
    BY <2>1, CrossHostAssumption
  <2> QED
    BY <2>3, <2>4, <2>5
<1>4. ASSUME NEW s \in ChSession, ChVerify(s) PROVE ChInv'
  <2>1. s \in ChInside /\ chAt[s] = "verify"
        /\ UNCHANGED <<chEngineOf, chTable, chNode, chSnap, chStart, chBack, chMet>>
    BY <1>4 DEF ChVerify, ChInside
  <2>2. HasSeen(s) /\ (chMet[s].others = {} => AloneFits(s))
    BY <2>1 DEF ChInv
  <2>3. ASSUME NEW result \in {"success", "exception"}, ChGoTo(s, "release"),
               chResult' = [chResult EXCEPT ![s] = result]
        PROVE  ChInv'
    <3>1. /\ ChPlacesOK' /\ chAt'[s] = "release"
          /\ \A r \in ChSession \ {s} : chAt'[r] = chAt[r] /\ chDone'[r] = chDone[r]
      BY <1>0, <2>3, ChGoes
    <3>2. /\ ChResultOK'
          /\ chResult'[s] = result
      BY <1>0, <2>3, ChEnds
    <3>3. ChMovesOK' /\ (AloneFits(s) => AloneFits(s)') /\ HasSeen(s)'
      BY <1>0, <2>1, <3>1, <3>2 DEF ChMovesOK, AloneFits, HasSeen
    <3> QED
      BY <2>1, <2>2, <3>1, <3>3, InsideStep DEF ChInside
  <2>4. CASE ChGoTo(s, "revert") /\ UNCHANGED chResult
    <3>1. /\ ChPlacesOK' /\ chAt'[s] = "revert" /\ chDone'[s] = 0
          /\ \A r \in ChSession \ {s} : chAt'[r] = chAt[r] /\ chDone'[r] = chDone[r]
      BY <1>0, <2>4, ChGoes
    <3>2. ChMovesOK'
      BY <1>0, <2>1, <2>4, <3>1 DEF ChMovesOK, ChPlacesOK, ChResultOK
    <3>3. \A m \in ChNode : ~(m <= 0)
      BY DEF ChNode
    <3>4. HasSeen(s)' /\ (AloneFits(s) => AloneFits(s)')
      BY <2>1, <2>2, <3>1, <3>3 DEF AloneFits, HasSeen
    <3> QED
      BY <2>1, <2>2, <3>1, <3>2, <3>4, InsideStep DEF ChInside
  <2> QED
    BY <1>4, <2>3, <2>4 DEF ChVerify, ChRaise
<1>5. ASSUME NEW s \in ChSession, ChRevert(s) PROVE ChInv'
  <2> DEFINE n == chDone[s] + 1
  <2>1. s \in ChInside /\ chAt[s] = "revert" /\ chDone[s] \in 0 .. ChNodes
        /\ UNCHANGED <<chEngineOf, chTable, chSnap, chStart, chMet>>
        /\ chBack \in [ChSession -> 0 .. ChNodes]
    BY <1>0, <1>5 DEF ChRevert, ChInside, ChMovesOK, ChPlacesOK, ChResultOK
  <2>2. HasSeen(s) /\ (chMet[s].others = {} => AloneFits(s))
    BY <2>1 DEF ChInv
  <2>3. CASE n > ChNodes
    <3>1. /\ UNCHANGED <<chNode, chBack>> /\ chResult' = [chResult EXCEPT ![s] = "reverted"]
          /\ ChGoTo(s, "release")
      BY <1>5, <2>3 DEF ChRevert
    <3>2. /\ ChPlacesOK' /\ chAt'[s] = "release"
          /\ \A r \in ChSession \ {s} : chAt'[r] = chAt[r] /\ chDone'[r] = chDone[r]
      BY <1>0, <3>1, ChGoes
    <3>3. ChResultOK'
      BY <1>0, <3>1, ChEnds
    <3>4. chDone[s] = ChNodes
      BY <2>1, <2>3, CrossHostAssumption
    <3>5. HasSeen(s)' /\ (AloneFits(s) => AloneFits(s)')
      BY <2>1, <3>1, <3>2, <3>4 DEF AloneFits, HasSeen
    <3>6. ChMovesOK'
      BY <1>0, <2>1, <3>1, <3>2, <3>3 DEF ChMovesOK
    <3> QED
      BY <2>1, <2>2, <3>1, <3>2, <3>5, <3>6, InsideStep DEF ChInside
  <2>4. ASSUME n <= ChNodes, chNode' \in {chNode, [chNode EXCEPT ![n] = chSnap[s][n]]}
        PROVE  /\ n \in ChNode /\ chNode' \in [ChNode -> ChContent]
               /\ \A m \in ChNode : m # n => chNode'[m] = chNode[m]
               /\ chNode' = [chNode EXCEPT ![n] = chSnap[s][n]] => chNode'[n] = chSnap[s][n]
    <3>1. n \in ChNode
      BY <2>1, <2>4 DEF ChNode
    <3>2. chSnap[s][n] \in ChContent
      BY <2>1, <2>2, <3>1 DEF HasSeen
    <3> QED
      BY <1>0, <2>4, <3>1, <3>2 DEF ChMovesOK
  <2>5. CASE /\ n <= ChNodes /\ ChVisit(s) /\ UNCHANGED chResult
             /\ chNode' = [chNode EXCEPT ![n] = chSnap[s][n]]
             /\ chBack' = [chBack EXCEPT ![s] = n]
    <3>1. /\ ChPlacesOK' /\ chAt' = chAt /\ chDone'[s] = n
          /\ \A r \in ChSession \ {s} : chDone'[r] = chDone[r]
      BY <1>0, <2>5, ChVisits
    <3>2. /\ n \in ChNode /\ chNode' \in [ChNode -> ChContent] /\ chNode'[n] = chSnap[s][n]
          /\ \A m \in ChNode : m # n => chNode'[m] = chNode[m]
      BY <2>4, <2>5
    <3>3. \A m \in ChNode : m <= n => m = n \/ m <= chDone[s]
      BY <2>1 DEF ChNode
    <3>6. /\ chBack' \in [ChSession -> 0 .. ChNodes] /\ chBack'[s] = n
          /\ \A r \in ChSession \ {s} : chBack'[r] = chBack[r]
      BY <2>1, <2>5, <3>2 DEF ChNode
    <3> HIDE DEF n
    <3>4. HasSeen(s)' /\ (AloneFits(s) => AloneFits(s)')
      BY <2>1, <2>2, <3>1, <3>2, <3>3, <3>6 DEF AloneFits, HasSeen
    <3>5. ChMovesOK'
      BY <1>0, <2>1, <2>5, <3>1, <3>2, <3>6 DEF ChMovesOK, ChPlacesOK, ChResultOK
    <3> QED
      BY <2>1, <2>2, <3>1, <3>4, <3>5, <3>6, InsideStep DEF ChInside
  <2>6. CASE /\ n <= ChNodes /\ ChRaise(s) /\ UNCHANGED chBack
             /\ chNode' \in {chNode, [chNode EXCEPT ![n] = chSnap[s][n]]}
    <3>1. ChGoTo(s, "release") /\ chResult' = [chResult EXCEPT ![s] = "exception"]
      BY <2>6 DEF ChRaise
    <3>2. /\ ChPlacesOK' /\ chAt'[s] = "release"
          /\ \A r \in ChSession \ {s} : chAt'[r] = chAt[r] /\ chDone'[r] = chDone[r]
      BY <1>0, <3>1, ChGoes
    <3>3. /\ ChResultOK'
          /\ chResult'[s] = "exception"
      BY <1>0, <3>1, ChEnds
    <3>4. /\ n \in ChNode /\ chNode' \in [ChNode -> ChContent]
          /\ \A m \in ChNode : m # n => chNode'[m] = chNode[m]
          /\ chNode'[n] \in {chNode[n], chSnap[s][n]}
      BY <2>4, <2>6
    <3> HIDE DEF n
    <3>5. ChMovesOK' /\ HasSeen(s)'
      BY <1>0, <2>1, <2>6, <3>2, <3>3, <3>4 DEF ChMovesOK, HasSeen
    <3>6. AloneFits(s) => AloneFits(s)'
      BY <2>1, <2>6, <3>2, <3>3, <3>4 DEF AloneFits
    <3> QED
      BY <2>1, <2>2, <2>6, <3>2, <3>5, <3>6, InsideStep DEF ChInside
  <2>7. n > ChNodes \/ (n <= ChNodes /\ ~(n > ChNodes))
    BY <2>1, CrossHostAssumption
  <2> QED
    BY <1>5, <2>3, <2>5, <2>6, <2>7 DEF ChRevert
<1>6. ASSUME NEW s \in ChSession, ChRelease(s) PROVE ChInv'
  <2> DEFINE e == chEngineOf[s]
  <2>1. /\ s \in ChInside /\ UNCHANGED <<chEngineOf, chNode, chResult>>
        /\ chTable' = IF chTable[e] = e THEN [chTable EXCEPT ![e] = ChNobody] ELSE chTable
        /\ chSnap' = [chSnap EXCEPT ![s] = ChUnseen]
        /\ chStart' = [chStart EXCEPT ![s] = ChInitially]
        /\ chBack' = [chBack EXCEPT ![s] = 0]
        /\ chMet' = [chMet EXCEPT ![s] = [others |-> {}, lost |-> FALSE]]
    BY <1>6 DEF ChRelease, ChInside
  <2>2. PICK at \in {"raised", "returned"} : ChGoTo(s, at)
    BY <1>6 DEF ChRelease
  <2>3. /\ ChPlacesOK' /\ chAt'[s] = at
        /\ \A r \in ChSession \ {s} : chAt'[r] = chAt[r] /\ chDone'[r] = chDone[r]
    BY <1>0, <2>2, ChGoes
  <2>4. ChInside' = ChInside \ {s} /\ ChInside \subseteq ChSession
    BY <2>2, <2>3 DEF ChInside
  <2>5. /\ e \in ChEngine /\ chTable \in [ChEngine -> ChEngine \cup {ChNobody}]
        /\ chEngineOf \in [ChSession -> ChEngine] /\ ChNobody \notin ChEngine
    BY CrossHostAssumption DEF ChInv, ChTypeOK
  <2>6. \A r \in ChSession \ {s} : /\ chSnap'[r] = chSnap[r] /\ chStart'[r] = chStart[r]
                                    /\ chBack'[r] = chBack[r] /\ chMet'[r] = chMet[r]
    BY <2>1 DEF ChInv, ChTypeOK
  <2>7. ChTypeOK' /\ NotBackYet'
    <3>1. chTable' \in [ChEngine -> ChEngine \cup {ChNobody}]
      BY <2>1, <2>5
    <3>2. /\ ChUnseen \in [ChNode -> ChContent \cup {"none"}]
          /\ ChInitially \in [ChNode -> ChContent] /\ 0 \in 0 .. ChNodes
      BY CrossHostAssumption DEF ChUnseen, ChInitially, ChContent
    <3>3. /\ chSnap' \in [ChSession -> [ChNode -> ChContent \cup {"none"}]]
          /\ chStart' \in [ChSession -> [ChNode -> ChContent]]
          /\ chBack' \in [ChSession -> 0 .. ChNodes]
          /\ chMet' \in [ChSession -> [others : SUBSET ChSession, lost : BOOLEAN]]
      BY <2>1, <3>2 DEF ChInv, ChTypeOK
    <3>4. ChTypeOK'
      BY <2>1, <2>3, <3>1, <3>3 DEF ChInv, ChTypeOK, ChPlacesOK, ChResultOK
    <3>5. NotBackYet'
      BY <2>3, <2>6 DEF ChInv, NotBackYet
    <3> QED
      BY <3>4, <3>5
  <2>8. ASSUME NEW r \in ChInside' PROVE LockKept(r)'
    <3>1. r \in ChInside /\ r \in ChSession \ {s} /\ LockKept(r) /\ s \in chMet[r].others
      BY <2>1, <2>4 DEF ChInv, TheyMet
    <3>2. chMet'[r] = chMet[r] /\ chEngineOf' = chEngineOf
      BY <2>1, <2>6, <3>1
    <3>3. CASE chEngineOf[r] = e
      BY <3>1, <3>2, <3>3 DEF LockKept
    <3>4. CASE chEngineOf[r] # e
      <4>1. chTable'[chEngineOf[r]] = chTable[chEngineOf[r]]
        BY <2>1, <2>5, <3>1, <3>4
      <4> QED
        BY <3>1, <3>2, <4>1 DEF LockKept
    <3> QED
      BY <3>3, <3>4
  <2>9. ASSUME NEW r \in ChInside', chMet'[r].others = {} PROVE AloneFits(r)'
    <3>1. r \in ChSession \ {s} /\ chMet'[r] = chMet[r] /\ r \in ChInside
      BY <2>4, <2>6
    <3>2. AloneFits(r)
      BY <2>9, <3>1 DEF ChInv
    <3> QED
      BY <2>1, <2>3, <2>6, <3>1, <3>2 DEF AloneFits
  <2>10. ASSUME NEW r \in ChInside' PROVE HasSeen(r)'
    <3>1. HasSeen(r) /\ r \in ChSession \ {s}
      BY <2>4, <2>10 DEF ChInv
    <3> QED
      BY <2>3, <2>6, <3>1 DEF HasSeen
  <2>11. TheyMet'
    BY <2>4, <2>6 DEF ChInv, TheyMet
  <2> QED
    BY <2>4, <2>7, <2>8, <2>9, <2>10, <2>11 DEF ChInv
<1>7. ASSUME NEW e \in ChEngine, NEW holder \in ChEngine \cup {ChNobody}, ChReplace(e, holder)
      PROVE  ChInv'
  <2> DEFINE loses(s) == s \in ChInside /\ chEngineOf[s] = e
  <2>1. /\ UNCHANGED <<chEngineOf, chAt, chDone, chNode, chSnap, chResult, chStart, chBack>>
        /\ chTable' = [chTable EXCEPT ![e] = holder]
        /\ chMet' = [s \in ChSession |-> [chMet[s] EXCEPT !.lost = @ \/ loses(s)]]
    BY <1>7 DEF ChReplace
  <2>2. ChInside' = ChInside /\ ChInside \subseteq ChSession
    BY <2>1 DEF ChInside
  <2>3. /\ chMet \in [ChSession -> [others : SUBSET ChSession, lost : BOOLEAN]]
        /\ chTable \in [ChEngine -> ChEngine \cup {ChNobody}]
        /\ chEngineOf \in [ChSession -> ChEngine]
    BY DEF ChInv, ChTypeOK
  <2>4. ASSUME NEW s \in ChSession
        PROVE  /\ chMet'[s] \in [others : SUBSET ChSession, lost : BOOLEAN]
               /\ chMet'[s].others = chMet[s].others
               /\ chMet[s].lost \/ loses(s) => chMet'[s].lost
    <3> DEFINE over == chMet[s].lost \/ loses(s)
    <3>1. chMet'[s] = [chMet[s] EXCEPT !.lost = over] /\ over \in BOOLEAN
      BY <2>1, Zenon
    <3>2. chMet[s] \in [others : SUBSET ChSession, lost : BOOLEAN]
      BY <2>3
    <3> HIDE DEF over
    <3>3. /\ chMet'[s] \in [others : SUBSET ChSession, lost : BOOLEAN]
          /\ chMet'[s].others = chMet[s].others /\ chMet'[s].lost = over
      BY <3>1, <3>2
    <3> QED
      BY <3>3 DEF over
  <2> HIDE DEF loses
  <2>5. ChTypeOK' /\ NotBackYet'
    <3>1. chMet' \in [ChSession -> [others : SUBSET ChSession, lost : BOOLEAN]]
      BY <2>1, <2>4
    <3>2. chTable' \in [ChEngine -> ChEngine \cup {ChNobody}]
      BY <2>1, <2>3
    <3> QED
      BY <2>1, <3>1, <3>2 DEF ChInv, ChTypeOK, NotBackYet
  <2>6. ASSUME NEW s \in ChInside' PROVE LockKept(s)'
    <3>1. s \in ChInside /\ s \in ChSession /\ LockKept(s)
      BY <2>2 DEF ChInv
    <3>2. chMet[s].lost => chMet'[s].lost
      BY <2>4, <3>1
    <3>3. CASE chEngineOf[s] = e
      BY <2>4, <3>1, <3>3 DEF LockKept, loses
    <3>4. CASE chEngineOf[s] # e
      <4>1. chTable'[chEngineOf[s]] = chTable[chEngineOf[s]]
        BY <2>1, <2>3, <3>1, <3>4
      <4> QED
        BY <2>1, <2>4, <3>1, <3>2, <4>1 DEF LockKept
    <3> QED
      BY <3>3, <3>4
  <2>7. ASSUME NEW s \in ChInside', chMet'[s].others = {} PROVE AloneFits(s)'
    <3>1. AloneFits(s)
      BY <2>2, <2>4, <2>7 DEF ChInv
    <3> QED
      BY <2>1, <3>1 DEF AloneFits
  <2>8. TheyMet'
    BY <2>2, <2>4 DEF ChInv, TheyMet
  <2>9. \A s \in ChInside : HasSeen(s)' = HasSeen(s)
    BY <2>1 DEF HasSeen
  <2> QED
    BY <2>2, <2>5, <2>6, <2>7, <2>8, <2>9 DEF ChInv
<1>8. CASE UNCHANGED chVars
  <2>1. ChTypeOK' /\ NotBackYet' /\ ChInside' = ChInside /\ TheyMet'
    BY <1>8 DEF chVars, ChInv, ChTypeOK, NotBackYet, TheyMet, ChInside
  <2>2. \A s \in ChInside : LockKept(s)' = LockKept(s)
    BY <1>8 DEF chVars, LockKept
  <2>3. \A s \in ChInside : AloneFits(s)' = AloneFits(s)
    BY <1>8 DEF chVars, AloneFits
  <2>4. \A s \in ChInside : HasSeen(s)' = HasSeen(s)
    BY <1>8 DEF chVars, HasSeen
  <2> QED
    BY <1>8, <2>1, <2>2, <2>3, <2>4 DEF ChInv, chVars
<1>9. ASSUME NEW e \in ChEngine, ChExpire(e) PROVE ChInv'
  BY <1>7, <1>9 DEF ChExpire
<1>10. ASSUME NEW e \in ChEngine, NEW f \in ChEngine, ChHeartbeat(e, f) PROVE ChInv'
  <2>1. chTable[e] \in ChEngine \cup {ChNobody}
    BY DEF ChInv, ChTypeOK
  <2> QED
    BY <1>7, <1>10, <2>1 DEF ChHeartbeat
<1> QED
  BY <1>1, <1>2, <1>3, <1>4, <1>5, <1>6, <1>8, <1>9, <1>10 DEF ChNext

\* While a session works, its engine's lock table names the engine, unless the entry expired,
\* a heartbeat replaced it or a session of the same engine was inside with it; and a session
\* that met no other leaves every node whose revert returned as it was when it got the lock,
\* every other node as it was or as its own repair made it, and says that it reverted only if
\* every revert returned (cross_host_coordinator.py:80-127).
THEOREM SessionsAreSound == ChSpec => []ChSound
<1>1. ChInit => ChInv
  <2> SUFFICES ASSUME ChInit PROVE ChInv
    OBVIOUS
  <2>1. ChInside = {}
    BY DEF ChInit, ChInside
  <2>2. ChTypeOK /\ NotBackYet
    BY CrossHostAssumption
    DEF ChInit, ChTypeOK, ChContent, NotBackYet, ChInitially, ChUnseen
  <2> QED
    BY <2>1, <2>2 DEF ChInv, TheyMet
<1>2. ChInv /\ [ChNext]_chVars => ChInv'
  BY ChInvStep
<1>3. ChInv => ChSound
  <2> SUFFICES ASSUME ChInv PROVE ChLockKept /\ ChAllOrNothing
    BY DEF ChSound
  <2>1. ChLockKept
    BY DEF ChInv, LockKept, ChLockKept
  <2>2. ChAllOrNothing
    <3> SUFFICES ASSUME NEW s \in ChSession, chAt[s] = "release", chMet[s].others = {}
                 PROVE  /\ \A n \in ChNode : chNode[n] \in {chStart[s][n], s}
                        /\ \A n \in 1 .. chBack[s] : chNode[n] = chStart[s][n]
                        /\ chResult[s] = "reverted" => chBack[s] = ChNodes
      BY DEF ChAllOrNothing
    <3>1. AloneFits(s)
      BY DEF ChInv, ChInside
    <3>2. 1 .. chBack[s] \subseteq ChNode /\ \A n \in 1 .. chBack[s] : n <= chBack[s]
      <4>1. chBack[s] \in 0 .. ChNodes
        BY DEF ChInv, ChTypeOK
      <4> QED
        BY <4>1, CrossHostAssumption DEF ChNode
    <3> QED
      BY <3>1, <3>2 DEF AloneFits
  <2> QED
    BY <2>1, <2>2
<1> QED
  BY <1>1, <1>2, <1>3, PTL DEF ChSpec

----------------------------------------------------------------------------
(* Proofs of safety *)

\* A set of naturals that is not empty has a least element.
LEMMA LeastOf ==
    ASSUME NEW ns \in SUBSET Nat, ns # {}
    PROVE  \E n \in ns : \A m \in ns : n <= m
<1> DEFINE R == OpToRel(<, Nat)
<1>1. \A m, n \in Nat : m < n => <<m, n>> \in R
  BY DEF OpToRel
<1>2. PICK n \in ns : \A m \in ns : ~ (<<m, n>> \in R)
  BY NatLessThanWellFounded, WFMin
<1>3. \A m \in ns : ~ (m < n)
  BY <1>1, <1>2
<1> QED
  BY <1>3

\* The recursive function of FvWalk exists.
LEMMA WalkIs ==
    ASSUME NEW start, Cardinality(FvDests) \in Nat
    PROVE  FvWalk(start) = [k \in 0 .. Cardinality(FvDests) |->
               IF k = 0 THEN start
               ELSE IF FvWalk(start)[k-1] \in FvDests THEN FvGateway(FvWalk(start)[k-1])
                                                      ELSE "direct"]
<1> DEFINE N == Cardinality(FvDests)
           step(v) == IF v \in FvDests THEN FvGateway(v) ELSE "direct"
           walks(n, f) == f = [k \in 0 .. n |-> IF k = 0 THEN start ELSE step(f[k-1])]
           stuck == {n \in 0 .. N : ~ \E f : walks(n, f)}
<1>1. \E f : walks(N, f)
  <2>1. SUFFICES ASSUME stuck # {} PROVE FALSE
    OBVIOUS
  <2>2. PICK n \in stuck : \A m \in stuck : n <= m
    <3>1. stuck \in SUBSET Nat
      OBVIOUS
    <3> HIDE DEF stuck
    <3> QED
      BY <2>1, <3>1, LeastOf
  <2>3. CASE n = 0
    <3>1. walks(0, [k \in 0 .. 0 |-> start])
      OBVIOUS
    <3> QED
      BY <2>2, <2>3, <3>1
  <2>4. CASE n # 0
    <3>1. n - 1 \in 0 .. N /\ n - 1 \notin stuck
      BY <2>2, <2>4
    <3>2. PICK f : walks(n - 1, f)
      BY <3>1
    <3> HIDE DEF step
    <3> DEFINE g == [k \in 0 .. n |-> IF k = 0 THEN start ELSE step(f[k-1])]
    <3>3. \A k \in 0 .. n - 1 : g[k] = f[k]
      BY <3>1, <3>2
    <3>4. \A k \in 0 .. n : k # 0 => g[k-1] = f[k-1]
      <4>1. n \in Nat /\ \A k \in 0 .. n : k # 0 => k - 1 \in 0 .. n - 1
        BY <3>1
      <4> HIDE DEF g
      <4> QED
        BY <3>3, <4>1
    <3>5. walks(n, g)
      BY <3>4
    <3> QED
      BY <2>2, <3>5
  <2> QED
    BY <2>3, <2>4
<1>2. FvWalk(start) = CHOOSE f : walks(N, f)
  BY DEF FvWalk
<1>3. walks(N, FvWalk(start))
  BY <1>1, <1>2
<1> QED
  BY <1>3

\* A map in which every destination has one gateway, and no walk stays in it for as long as
\* there are destinations, has no routing loop.
LEMMA NoCycleNoLoop ==
    ASSUME IsFiniteSet(FvDests), \A g, h \in fvHop : g.dst = h.dst => g = h, ~FvCycle
    PROVE  FvLoopFree(fvHop)
<1> SUFFICES ASSUME NEW loop \in SUBSET fvHop, loop # {},
                    \A r \in loop : r.gw \in {s.dst : s \in loop}
             PROVE  FALSE
  BY DEF FvLoopFree
<1> DEFINE N == Cardinality(FvDests)
           dests == {s.dst : s \in loop}
<1>1. N \in Nat
  BY FS_CardinalityType
<1>2. PICK start : start \in dests
  OBVIOUS
<1>3. dests \subseteq FvDests
  BY DEF FvDests
<1>4. ASSUME NEW d \in dests PROVE FvGateway(d) \in dests
  <2>1. PICK r \in loop : r.dst = d
    OBVIOUS
  <2>2. (CHOOSE h \in fvHop : h.dst = d) = r
    BY <2>1
  <2> QED
    BY <2>1, <2>2 DEF FvGateway
<1> DEFINE at == FvWalk(start)
           left == {n \in 0 .. N : at[n] \notin dests}
<1>5. at = [k \in 0 .. N |-> IF k = 0 THEN start
                             ELSE IF at[k-1] \in FvDests THEN FvGateway(at[k-1]) ELSE "direct"]
  BY <1>1, WalkIs
<1> HIDE DEF at, dests
<1>6. left = {}
  <2> SUFFICES ASSUME left # {} PROVE FALSE
    OBVIOUS
  <2>1. left \in SUBSET Nat
    OBVIOUS
  <2> HIDE DEF left
  <2>2. PICK n \in left : \A m \in left : n <= m
    BY <2>1, LeastOf
  <2> USE DEF left
  <2>3. n \in 0 .. N /\ at[n] \notin dests
    BY <2>2
  <2>4. n # 0
    BY <1>1, <1>2, <1>5, <2>3
  <2>5. n - 1 \in 0 .. N /\ at[n-1] \in dests
    <3>1. n - 1 \in 0 .. N /\ ~(n <= n - 1)
      BY <1>1, <2>3, <2>4
    <3> QED
      BY <2>2, <3>1
  <2>6. at[n] = FvGateway(at[n-1])
    <3>1. at[n] = IF at[n-1] \in FvDests THEN FvGateway(at[n-1]) ELSE "direct"
      BY <1>5, <2>3, <2>4
    <3> QED
      BY <1>3, <2>5, <3>1
  <2> QED
    BY <1>4, <2>3, <2>5, <2>6
<1>7. at[N] \in FvDests
  BY <1>1, <1>3, <1>6
<1>8. start \in FvDests
  BY <1>2, <1>3
<1> QED
  BY <1>7, <1>8 DEF at, FvCycle

----------------------------------------------------------------------------
(* What holds as long as nothing was refuted and the verifier had a notion of everything it *)
(* read.                                                                                    *)

\* The map is the table.
RoutesFit ==
    /\ fvZ3 \/ fvRoutes = {}
    /\ fvHop = fvRoutes
    /\ \A g, h \in fvHop : g.dst = h.dst => g = h

\* What the first rule drops is marked, and a port is marked accepted by a rule for it.
RulesFit ==
    \A p \in FvPort : /\ fvFirst[p] = "drop" => fvStatus[p] = "DROPPED"
                      /\ fvStatus[p] = "ACCEPTED" => fvFirst[p] # "none"

\* The invariant of the verifier, which promises something until it refutes or doubts.
FvInv ==
    /\ IsFiniteSet(FvDests)
    /\ fvStatus \in [FvPort -> {"UNSET", "ACCEPTED", "DROPPED"}]
    /\ fvFirst \in [FvPort -> {"none", "accept", "drop"}]
    /\ fvAt # "COUNTER_EXAMPLE_FOUND" =>
           \/ fvDoubt = TRUE
           \/ fvFine = TRUE /\ fvBad = FALSE /\ RoutesFit /\ RulesFit

\* Every line the verifier reads, and the end of every file, keeps the invariant.
LEMMA FvInvStep ==
    ASSUME FvInv, [FvNext]_fvVars
    PROVE  FvInv'
<1>1. CASE FvReadRoute
  <2>1. PICK r \in FvRoute, lo \in BOOLEAN, short \in BOOLEAN :
             /\ IF \/ fvZ3 /\ r.dst # "local" /\ (lo \/ (r.gw = "loopback" /\ ~short))
                   \/ ~fvZ3 /\ r.gw = r.dst /\ ~short
                THEN Refute ELSE UNCHANGED fvAt
             /\ fvHop' = {h \in fvHop : h.dst # r.dst} \cup {r}
             /\ fvRoutes' = fvRoutes \cup {r}
             /\ fvBad' = (fvBad \/ (r.dst # "local" /\ (lo \/ r.gw = "loopback")))
             /\ fvDoubt' = \/ fvDoubt \/ ~fvZ3
                           \/ r.gw = "loopback" /\ short
                           \/ \E h \in fvHop : h.dst = r.dst
    BY <1>1 DEF FvReadRoute
  <2>2. /\ UNCHANGED <<fvStatus, fvGlobalDrop, fvFirst, fvZ3, fvFine>>
        /\ fvAt = "network"
    BY <1>1 DEF FvReadRoute, FvReading
  <2>3. IsFiniteSet(FvDests')
    <3>1. FvDests' \in SUBSET (FvDests \cup {r.dst})
      BY <2>1 DEF FvDests
    <3> QED
      BY <3>1, FS_AddElement, FS_Subset DEF FvInv
  <2> DEFINE doubtful == ~fvZ3 \/ (r.gw = "loopback" /\ short) \/ \E h \in fvHop : h.dst = r.dst
  <2>4. CASE fvDoubt = TRUE \/ doubtful
    <3>1. fvDoubt' = TRUE
      BY <2>1, <2>4
    <3> QED
      BY <2>2, <2>3, <3>1 DEF FvInv
  <2>5. CASE fvDoubt # TRUE /\ ~doubtful
    <3>1. fvHop' = fvHop \cup {r}
      BY <2>1, <2>5
    <3>2. CASE fvAt' # "COUNTER_EXAMPLE_FOUND"
      <4>1. ~(r.dst # "local" /\ (lo \/ r.gw = "loopback"))
        BY <2>1, <2>5, <3>2 DEF Refute
      <4>2. fvFine = TRUE /\ fvBad = FALSE /\ RoutesFit /\ RulesFit
        BY <2>2, <2>5 DEF FvInv
      <4>3. RoutesFit'
        BY <2>1, <2>2, <2>5, <3>1, <4>2 DEF RoutesFit
      <4>4. RulesFit'
        BY <2>2, <4>2 DEF RulesFit
      <4>5. fvBad' = FALSE
        BY <2>1, <4>1, <4>2
      <4> QED
        BY <2>2, <2>3, <4>2, <4>3, <4>4, <4>5 DEF FvInv
    <3> QED
      BY <2>2, <2>3, <3>2 DEF FvInv
  <2> QED
    BY <2>4, <2>5
<1>2. ASSUME NEW domain \in FvDomain, NEW refuted, NEW fine, FvEnd(domain, refuted, fine),
             ~refuted /\ fvDoubt # TRUE => fine
      PROVE  FvInv'
  <2>1. /\ fvAt = domain
        /\ fvHop' = {} /\ fvRoutes' = {}
        /\ fvStatus' = [p \in FvPort |-> "UNSET"]
        /\ fvFirst' = [p \in FvPort |-> "none"]
        /\ fvFine' = (fvFine /\ fine)
        /\ UNCHANGED <<fvZ3, fvDomains, fvBad, fvDoubt>>
        /\ refuted => fvAt' = "COUNTER_EXAMPLE_FOUND"
    BY <1>2 DEF FvEnd
  <2>2. FvDests' = {} /\ RoutesFit' /\ RulesFit'
    BY <2>1 DEF FvDests, RoutesFit, RulesFit
  <2>3. IsFiniteSet(FvDests')
    BY <2>2, FS_EmptySet
  <2>4. fvAt # "COUNTER_EXAMPLE_FOUND"
    BY <1>2, <2>1 DEF FvDomain
  <2>5. CASE ~refuted /\ fvDoubt # TRUE
    <3>1. fvFine' = TRUE /\ fvBad' = FALSE
      BY <1>2, <2>1, <2>4, <2>5 DEF FvInv
    <3> QED
      BY <2>1, <2>2, <2>3, <3>1 DEF FvInv
  <2>6. CASE refuted \/ fvDoubt = TRUE
    BY <2>1, <2>2, <2>3, <2>6 DEF FvInv
  <2> QED
    BY <2>5, <2>6
<1>3. CASE FvEndRoutes
  <2> DEFINE refuted == fvZ3 /\ (fvHop = {} \/ FvCycle)
             fine == FvLoopFree(fvRoutes) /\ ~fvBad
  <2>1. FvEnd("network", refuted, fine)
    BY <1>3 DEF FvEndRoutes
  <2>2. ASSUME ~refuted, fvDoubt # TRUE PROVE fine
    <3>1. fvAt # "COUNTER_EXAMPLE_FOUND"
      BY <2>1 DEF FvEnd
    <3>2. RoutesFit /\ IsFiniteSet(FvDests) /\ ~fvBad
      BY <2>2, <3>1 DEF FvInv
    <3>3. CASE fvRoutes = {}
      BY <3>2, <3>3 DEF FvLoopFree
    <3>4. CASE fvZ3
      <4>1. FvLoopFree(fvHop)
        BY <2>2, <3>2, <3>4, NoCycleNoLoop DEF RoutesFit
      <4> QED
        BY <3>2, <4>1 DEF RoutesFit
    <3> QED
      BY <3>2, <3>3, <3>4 DEF RoutesFit
  <2> HIDE DEF refuted, fine
  <2> QED
    BY <1>2, <2>1, <2>2 DEF FvDomain
<1>4. CASE FvReadRule
  <2>1. PICK r \in FvRule :
             /\ IF r.lo \/ (fvGlobalDrop /\ "accept" \in r.says)
                THEN Refute ELSE UNCHANGED fvAt
             /\ fvStatus' = [p \in FvPort |-> FvRuleOn(p, r)]
             /\ fvFirst' = [p \in FvPort |->
                    IF fvFirst[p] = "none" /\ p \in r.all THEN r.does ELSE fvFirst[p]]
             /\ fvDoubt' = (fvDoubt \/ FvMisread(r))
    BY <1>4 DEF FvReadRule
  <2>2. /\ UNCHANGED <<fvHop, fvRoutes, fvBad, fvZ3, fvFine>>
        /\ fvAt = "firewall"
    BY <1>4 DEF FvReadRule, FvReading
  <2>3. IsFiniteSet(FvDests') /\ (RoutesFit => RoutesFit')
    BY <2>2 DEF FvInv, FvDests, RoutesFit
  <2>4. /\ fvStatus' \in [FvPort -> {"UNSET", "ACCEPTED", "DROPPED"}]
        /\ fvFirst' \in [FvPort -> {"none", "accept", "drop"}]
    <3>1. r.does \in {"accept", "drop"}
      BY DEF FvRule, FvLine
    <3> QED
      BY <2>1, <3>1 DEF FvInv, FvRuleOn
  <2>5. CASE fvDoubt = TRUE \/ FvMisread(r)
    <3>1. fvDoubt' = TRUE
      BY <2>1, <2>5
    <3> QED
      BY <2>3, <2>4, <3>1 DEF FvInv
  <2>6. CASE fvDoubt # TRUE /\ ~FvMisread(r)
    <3>1. fvFine = TRUE /\ fvBad = FALSE /\ RoutesFit /\ RulesFit
      BY <2>2, <2>6 DEF FvInv
    <3>2. ASSUME NEW p \in FvPort
          PROVE  /\ fvFirst'[p] = "drop" => fvStatus'[p] = "DROPPED"
                 /\ fvStatus'[p] = "ACCEPTED" => fvFirst'[p] # "none"
      <4> DEFINE accepts == p \in r.names /\ "accept" \in r.says
                 drops == (p \in r.names /\ "drop" \in r.says) \/ r.global
      <4>1. /\ fvStatus'[p] = IF fvStatus[p] # "UNSET" THEN fvStatus[p]
                              ELSE IF accepts THEN "ACCEPTED"
                              ELSE IF drops THEN "DROPPED" ELSE "UNSET"
            /\ fvFirst'[p] = IF fvFirst[p] = "none" /\ p \in r.all THEN r.does ELSE fvFirst[p]
        BY <2>1 DEF FvRuleOn
      <4>2. /\ fvFirst[p] = "drop" => fvStatus[p] = "DROPPED"
            /\ fvStatus[p] = "ACCEPTED" => fvFirst[p] # "none"
            /\ fvStatus[p] \in {"UNSET", "ACCEPTED", "DROPPED"}
        BY <3>1 DEF FvInv, RulesFit
      <4>3. accepts => p \in r.all /\ r.does = "accept"
        BY <2>6 DEF FvMisread
      <4>4. p \in r.all /\ r.does = "drop" => drops /\ ~accepts
        BY <2>6 DEF FvMisread
      <4>5. r.does \in {"accept", "drop"}
        BY DEF FvRule, FvLine
      <4> HIDE DEF accepts, drops
      <4> QED
        BY <4>1, <4>2, <4>3, <4>4, <4>5
    <3>3. RulesFit'
      BY <3>2 DEF RulesFit
    <3> QED
      BY <2>2, <2>3, <2>4, <3>1, <3>3 DEF FvInv
  <2> QED
    BY <2>5, <2>6
<1>5. CASE FvEndRules
  <2> DEFINE refuted == \E p \in FvPort : fvStatus[p] = "DROPPED"
             fine == \A p \in FvPort : fvFirst[p] # "drop"
  <2>1. FvEnd("firewall", refuted, fine)
    BY <1>5 DEF FvEndRules
  <2>2. ~refuted /\ fvDoubt # TRUE => fine
    BY <2>1 DEF FvEnd, FvInv, RulesFit
  <2> HIDE DEF refuted, fine
  <2> QED
    BY <1>2, <2>1, <2>2 DEF FvDomain
<1>6. CASE FvReadMode
  <2>1. PICK f \in FvFile :
             /\ IF f.octal /\ FvExposed(f) THEN Refute ELSE UNCHANGED fvAt
             /\ fvBad' = (fvBad \/ FvExposed(f))
             /\ fvDoubt' = (fvDoubt \/ ~f.octal)
    BY <1>6 DEF FvReadMode
  <2>2. /\ UNCHANGED <<fvHop, fvRoutes, fvStatus, fvFirst, fvZ3, fvFine>>
        /\ fvAt = "permissions"
    BY <1>6 DEF FvReadMode, FvReading
  <2>3. IsFiniteSet(FvDests') /\ (RoutesFit => RoutesFit') /\ (RulesFit => RulesFit')
    BY <2>2 DEF FvInv, FvDests, RoutesFit, RulesFit
  <2>4. CASE fvDoubt = TRUE \/ ~f.octal
    <3>1. fvDoubt' = TRUE
      BY <2>1, <2>4
    <3> QED
      BY <2>2, <2>3, <3>1 DEF FvInv
  <2>5. CASE fvDoubt # TRUE /\ f.octal /\ ~FvExposed(f)
    <3>1. fvFine = TRUE /\ fvBad = FALSE /\ RoutesFit /\ RulesFit
      BY <2>2, <2>5 DEF FvInv
    <3>2. fvBad' = FALSE
      BY <2>1, <2>5, <3>1
    <3> QED
      BY <2>2, <2>3, <3>1, <3>2 DEF FvInv
  <2>6. CASE f.octal /\ FvExposed(f)
    BY <2>1, <2>2, <2>3, <2>6 DEF FvInv, Refute
  <2> QED
    BY <2>4, <2>5, <2>6
<1>7. CASE FvEndModes
  <2>1. FvEnd("permissions", FALSE, ~fvBad)
    BY <1>7 DEF FvEndModes
  <2>2. fvDoubt # TRUE => ~fvBad
    BY <2>1 DEF FvEnd, FvInv
  <2> QED
    BY <1>2, <2>1, <2>2 DEF FvDomain
<1>8. CASE UNCHANGED fvVars
  BY <1>8 DEF fvVars, FvInv, FvDests, RoutesFit, RulesFit
<1> QED
  BY <1>1, <1>3, <1>4, <1>5, <1>6, <1>7, <1>8 DEF FvNext

\* A configuration that is PROVED_SAFE has no circle of routes and no external traffic to
\* loopback, no rule that blocks all packets to a protected port before one accepts them, and
\* no known critical file or system binary that others may touch, or write - unless Z3 is not
\* installed or something was read that the verifier misreads (FvMisread, a loopback gateway
\* given as `via', a second route for a destination, a mode that is not octal).
THEOREM ProofsAreRight == FvSpec => []ProvedSafeIsSafe
<1>1. FvInit => FvInv
  <2> SUFFICES ASSUME FvInit PROVE FvInv
    OBVIOUS
  <2>1. FvDests = {} /\ IsFiniteSet(FvDests)
    BY FS_EmptySet DEF FvInit, FvDests
  <2> QED
    BY <2>1 DEF FvInit, FvInv, RoutesFit, RulesFit
<1>2. FvInv /\ [FvNext]_fvVars => FvInv'
  BY FvInvStep
<1>3. FvInv => ProvedSafeIsSafe
  BY DEF FvInv, ProvedSafeIsSafe
<1> QED
  BY <1>1, <1>2, <1>3, PTL DEF FvSpec
============================================================================
