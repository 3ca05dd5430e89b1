-------------------------- MODULE BlockFeedProofs --------------------------
(***************************************************************************)
(* Theorems about BlockFeed, for every value of its constants.  The lemmas  *)
(* about single steps are shared with ExternalWithdrawalsProofs, whose      *)
(* steps move the feed as one of the steps of FeedStep.                     *)
(***************************************************************************)
EXTENDS BlockFeed, WellFoundedInduction, TLAPS

\* every way in which a step of the service or of the chain moves the feed
FeedStep ==
    \/ Tick
    \/ \E utime \in Nat : ProduceBlock(utime)
    \/ TrackerPoll \/ TrackerSend \/ TrackerFetchError
    \/ \E commits \in BOOLEAN : ScanDone(commits) /\ faults' \in Nat
    \/ Restart
    \/ UNCHANGED <<now, genUtime, blockData, lastKnown, target, current, scanning>>
         /\ faults' \in Nat

\* A sequence is a function on the numbers up to its length.
LEMMA SeqAsFunction ==
    ASSUME NEW S, NEW s \in Seq(S), NEW n \in Nat, DOMAIN s = 1..n
    PROVE  Len(s) = n /\ \A i \in 1..n : s[i] \in S
<1>1. Len(s) = n
  OBVIOUS
<1> QED BY <1>1

\* What Append does, by elements.
LEMMA AppendByElements ==
    ASSUME NEW S, NEW s \in Seq(S), NEW e \in S
    PROVE  /\ Append(s, e) \in Seq(S)
           /\ DOMAIN Append(s, e) = 1..(Len(s) + 1)
           /\ Append(s, e)[Len(s) + 1] = e
           /\ \A i \in 1..Len(s) : Append(s, e)[i] = s[i]
OBVIOUS

\* A bounded set of natural numbers has a greatest element: the row that
\* GetLastSavedBlock selects exists.
LEMMA GreatestExists ==
    ASSUME NEW n \in Nat, NEW S \in SUBSET (1..n), S # {}
    PROVE  \E b \in S : \A c \in S : c <= b
<1> DEFINE T == {n - b : b \in S}
           R == OpToRel(<, Nat)
<1>1. T \subseteq Nat /\ T # {}
  <2>1. PICK s \in S : TRUE
    OBVIOUS
  <2>2. n - s \in T
    OBVIOUS
  <2> QED BY <2>2
<1>2. \E x \in T : \A y \in T : ~ (<<y, x>> \in R)
  <2>1. IsWellFoundedOn(R, Nat)
    BY NatLessThanWellFounded
  <2> HIDE DEF T, R
  <2> QED BY <1>1, <2>1, WFMin
<1>3. PICK x \in T : \A y \in T : ~ (<<y, x>> \in R)
  BY <1>2
<1>4. PICK b \in S : x = n - b
  OBVIOUS
<1>5. ASSUME NEW c \in S PROVE c <= b
  <2>1. n - c \in T /\ n - c \in Nat /\ x \in Nat
    BY <1>1
  <2>2. ~ (n - c < x)
    BY <1>3, <2>1 DEF OpToRel
  <2> QED BY <2>2, <1>4
<1> QED BY <1>5

\* GetLastSavedBlock is a saved block and no saved block is above it.
LEMMA LastSaved ==
    ASSUME FeedTypeOK
    PROVE  /\ GetLastSavedBlock \in blockData
           /\ GetLastSavedBlock \in 1..Tip
           /\ \A c \in blockData : c <= GetLastSavedBlock
<1>1. Tip \in Nat /\ blockData \in SUBSET (1..Tip) /\ blockData # {}
  BY DEF FeedTypeOK, Tip
<1>2. \E b \in blockData : \A c \in blockData : c <= b
  BY <1>1, GreatestExists
<1> QED BY <1>1, <1>2 DEF GetLastSavedBlock

\* Every step of the feed keeps its type invariant.
LEMMA FeedTypeStep ==
    ASSUME FeedTypeOK, FeedStep
    PROVE  FeedTypeOK'
<1>0. Tip \in Nat
  BY DEF FeedTypeOK, Tip
<1>1. CASE Tick
  BY <1>1 DEF FeedTypeOK, Tick, Tip
<1>2. ASSUME NEW utime \in Nat, ProduceBlock(utime) PROVE FeedTypeOK'
  <2>1. Tip' = Tip + 1 /\ genUtime' \in Seq(Nat)
    BY <1>2 DEF FeedTypeOK, ProduceBlock, Tip
  <2> QED BY <1>0, <1>2, <2>1 DEF FeedTypeOK, ProduceBlock
<1>3. CASE TrackerPoll
  BY <1>0, <1>3 DEF FeedTypeOK, TrackerPoll, Tip
<1>4. CASE TrackerSend
  BY <1>0, <1>4 DEF FeedTypeOK, TrackerSend, Tip
<1>5. CASE TrackerFetchError
  BY <1>0, <1>5 DEF FeedTypeOK, TrackerFetchError, Fault, Tip
<1>6. ASSUME NEW commits \in BOOLEAN, ScanDone(commits), faults' \in Nat
      PROVE  FeedTypeOK'
  BY <1>0, <1>6 DEF FeedTypeOK, ScanDone, Tip
<1>7. CASE Restart
  BY <1>0, <1>7, LastSaved DEF FeedTypeOK, Restart, Fault, Tip
<1>8. CASE UNCHANGED <<now, genUtime, blockData, lastKnown, target, current, scanning>>
             /\ faults' \in Nat
  BY <1>8 DEF FeedTypeOK, Tip
<1> QED BY <1>1, <1>2, <1>3, <1>4, <1>5, <1>6, <1>7, <1>8 DEF FeedStep

\* The steps of the specification of the feed are steps of FeedStep.
LEMMA FeedNextIsFeedStep ==
    ASSUME FeedTypeOK, [FeedNext]_feedVars
    PROVE  FeedStep
<1>1. now \in Nat /\ faults \in Nat
  BY DEF FeedTypeOK
<1>2. ASSUME NEW utime \in 0..now, ProduceBlock(utime) PROVE FeedStep
  BY <1>1, <1>2 DEF FeedStep
<1>3. CASE ScanBlock
  BY <1>1, <1>3 DEF FeedStep, ScanBlock, NotSavedYet
<1>4. CASE ScanError
  <2>1. ScanDone(FALSE) /\ Fault("scan")
    BY <1>4 DEF ScanError
  <2>2. faults' \in Nat
    BY <1>1, <2>1 DEF Fault
  <2> QED BY <2>1, <2>2 DEF FeedStep
<1>5. CASE UNCHANGED feedVars
  BY <1>1, <1>5 DEF FeedStep, feedVars
<1> QED BY <1>2, <1>3, <1>4, <1>5 DEF FeedNext, FeedStep

\* gen_utime never decreases along the chain
ChainInOrder == \A i, j \in 1..Tip : i <= j => genUtime[i] <= genUtime[j]

\* Every step of the feed keeps the chain in order.
LEMMA ChainInOrderStep ==
    ASSUME FeedTypeOK, ChainInOrder, FeedStep
    PROVE  ChainInOrder'
<1>0. Tip \in Nat \ {0} /\ genUtime \in Seq(Nat)
  <2>1. Tip \in Nat /\ genUtime \in Seq(Nat)
    BY DEF FeedTypeOK, Tip
  <2> QED BY <2>1 DEF FeedTypeOK
<1>1. CASE UNCHANGED genUtime
  BY <1>1 DEF ChainInOrder, Tip
<1>2. ASSUME NEW utime \in Nat, ProduceBlock(utime) PROVE ChainInOrder'
  <2>1. /\ Tip' = Tip + 1 /\ genUtime'[Tip + 1] = utime /\ genUtime[Tip] <= utime
        /\ \A i \in 1..Tip : genUtime'[i] = genUtime[i] /\ genUtime[i] \in Nat
    BY <1>0, <1>2 DEF ProduceBlock, Tip
  <2>2. \A i \in 1..Tip : genUtime[i] <= genUtime[Tip]
    BY <1>0 DEF ChainInOrder
  <2>3. \A i \in 1..Tip : genUtime[i] <= utime
    BY <1>0, <2>1, <2>2
  <2> QED BY <1>0, <2>1, <2>3 DEF ChainInOrder
<1> QED BY <1>1, <1>2 DEF FeedStep, Tick, TrackerPoll, TrackerSend, TrackerFetchError, ScanDone,
             Restart

\* Order and young gaps at the start.
LEMMA OrderInit == FeedInit => FeedTypeOK /\ ChainInOrder /\ GapsAreYoung
<1> SUFFICES ASSUME FeedInit PROVE FeedTypeOK /\ ChainInOrder /\ GapsAreYoung
  OBVIOUS
<1>1. FeedTypeOK /\ blockData = {1} /\ Tip = 1
  BY DEF FeedInit, FeedTypeOK, Tip
<1>2. 1..GetLastSavedBlock = {1}
  BY <1>1, LastSaved
<1> QED BY <1>1, <1>2 DEF ChainInOrder, GapsAreYoung, FeedInit

\* What the expiration processor may conclude after waitSync, if no gap in
\* block_data is old: every block up to a time older than the allowed lag is
\* saved, and the chain is past that time.
LEMMA OldIsSaved ==
    ASSUME FeedTypeOK, ChainInOrder, GapsAreYoung, Synced,
           NEW t \in Nat, t < now - AllowableBlockchainLagging
    PROVE  /\ t < genUtime[Tip]
           /\ \A b \in 1..Tip : genUtime[b] <= t => b \in blockData
<1> DEFINE n == GetLastSavedBlock
<1>0. /\ n \in 1..Tip /\ Tip \in Nat \ {0} /\ now \in Nat
      /\ AllowableBlockchainLagging \in Nat /\ \A i \in 1..Tip : genUtime[i] \in Nat
  <2>1. n \in 1..Tip
    BY LastSaved
  <2> QED BY <2>1, FeedAssumption DEF FeedTypeOK, Tip
<1>1. t < genUtime[n]
  BY <1>0 DEF Synced, IsExpired
<1>2. genUtime[n] <= genUtime[Tip]
  BY <1>0 DEF ChainInOrder
<1>3. ASSUME NEW b \in 1..Tip, genUtime[b] <= t PROVE b \in blockData
  <2>1. b < n
    <3>1. ASSUME n <= b PROVE FALSE
      <4>1. genUtime[n] <= genUtime[b]
        BY <1>0, <3>1 DEF ChainInOrder
      <4> QED BY <1>0, <1>1, <1>3, <4>1
    <3> QED BY <1>0, <3>1
  <2>2. IsExpired(genUtime[b])
    BY <1>0, <1>3 DEF IsExpired
  <2>3. b \in 1..n
    BY <1>0, <2>1
  <2> QED BY <2>2, <2>3 DEF GapsAreYoung
<1> QED BY <1>0, <1>1, <1>2, <1>3

\* The feed is typed in every state: a walk never passes the block it looks
\* for, and what main reads after a restart is a block of the chain.
THEOREM FeedTyped == FeedSpec => []FeedTypeOK
<1>1. FeedInit => FeedTypeOK
  BY DEF FeedInit, FeedTypeOK, Tip
<1>2. FeedTypeOK /\ [FeedNext]_feedVars => FeedTypeOK'
  <2> SUFFICES ASSUME FeedTypeOK, [FeedNext]_feedVars PROVE FeedTypeOK'
    OBVIOUS
  <2> QED BY FeedNextIsFeedStep, FeedTypeStep
<1> QED BY <1>1, <1>2, PTL DEF FeedSpec

\* NothingSkipped, if no scan fails and the process does not die: abandoned
\* walks lose no header, however far the chain is ahead.
THEOREM NoHeaderLost ==
    ASSUME "scan" \notin FaultKinds, "crash" \notin FaultKinds
    PROVE  FeedSpec => []NothingSkipped
<1>1. FeedInit => NothingSkipped
  BY DEF FeedInit, NothingSkipped, Tip
<1>2. FeedTypeOK /\ NothingSkipped /\ [FeedNext]_feedVars => NothingSkipped'
  <2> SUFFICES ASSUME FeedTypeOK, NothingSkipped, [FeedNext]_feedVars
               PROVE  NothingSkipped'
    OBVIOUS
  <2>0. Tip \in Nat
    BY DEF FeedTypeOK, Tip
  <2>1. ASSUME NEW utime \in 0..now, ProduceBlock(utime) PROVE NothingSkipped'
    <3>1. Tip' = Tip + 1
      BY <2>1 DEF ProduceBlock, FeedTypeOK, Tip
    <3> QED BY <2>0, <2>1, <3>1 DEF ProduceBlock, NothingSkipped, FeedTypeOK
  <2>2. CASE TrackerPoll
    BY <2>0, <2>2 DEF TrackerPoll, NothingSkipped, FeedTypeOK, Tip
  <2>3. CASE TrackerSend
    BY <2>0, <2>3 DEF TrackerSend, NothingSkipped, FeedTypeOK, Tip
  <2>4. CASE TrackerFetchError
    BY <2>0, <2>4 DEF TrackerFetchError, NothingSkipped, FeedTypeOK, Tip
  <2>5. CASE ScanBlock
    BY <2>0, <2>5 DEF ScanBlock, ScanDone, NotSavedYet, NothingSkipped, FeedTypeOK, Tip
  <2>6. CASE Tick
    BY <2>6 DEF Tick, NothingSkipped, Tip
  <2>7. CASE UNCHANGED feedVars
    BY <2>7 DEF feedVars, NothingSkipped, Tip
  <2> QED BY <2>1, <2>2, <2>3, <2>4, <2>5, <2>6, <2>7 DEF FeedNext, ScanError, Restart, Fault
<1> QED BY <1>1, <1>2, FeedTyped, PTL DEF FeedSpec
============================================================================
