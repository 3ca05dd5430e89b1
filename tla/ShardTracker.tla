---------------------------- MODULE ShardTracker ----------------------------
(***************************************************************************)
(* The walk of ShardTracker over a workchain whose shards split and merge.  *)
(*                                                                         *)
(* A shard is the 64-bit word of the TON block id: the bits of its prefix,  *)
(* then a one, then zeros.  The service follows the shard its hot wallet    *)
(* lies in, given by the first byte of the address.  Widths are constants:  *)
(* the code has ByteWidth = 8 and WordWidth = 64.                           *)
(*                                                                         *)
(* Seen from the byte, the chain is a line of blocks; the module shows that *)
(* the tracker walks that line as BlockFeed says, although the line changes *)
(* shards, jumps in seqno at a merge, and the restart looks only at seqnos. *)
(***************************************************************************)
EXTENDS Integers, Sequences, FiniteSetsExt

CONSTANTS
    ByteWidth, WordWidth,  \* 8 and 64 in the code
    Shard,                 \* ShardTracker.shard: first byte of the hot wallet
    FaultKinds,            \* which failures happen: fetch, scan, crash
    MaxBlocks, MaxFaults   \* bounds: blocks of the line, failures

\* the powers of two, as a function that is defined by recursion
Power[n \in 0..WordWidth] == IF n = 0 THEN 1 ELSE 2 * Power[n - 1]

Words == 1..(Power[WordWidth] - 1)
Bytes == 0..(Power[ByteWidth] - 1)

ASSUME ShardAssumption ==
    /\ ByteWidth \in Nat
    /\ WordWidth \in Nat
    /\ ByteWidth < WordWidth
    /\ Shard \in Bytes
    /\ MaxBlocks \in Nat \ {0} /\ MaxFaults \in Nat

VARIABLES
    heads,      \* what GetBlockShardsInfo lists for the newest masterchain block
    parents,    \* the blocks of the workchain, with their parents
    fresh,      \* the newest masterchain block is not lastMasterBlock
    blockData,  \* payments.block_data
    lastKnown,  \* ShardTracker.lastKnownShardBlock
    target, current,  \* of the walk, as sets of at most one block
    scanning,   \* what the scanner works on, likewise
    line,       \* the blocks that contain the byte, oldest first (history)
    faults

shardVars == <<heads, parents, fresh, blockData, lastKnown, target, current, scanning,
          line, faults>>

----------------------------------------------------------------------------
(* Shard words                                                             *)

TrailingZeros(w) == Max({n \in 0..WordWidth : w % Power[n] = 0})

\* the leading zeros of v ^ w: the leading bits that v and w have in common
LeadingZerosXor(v, w) ==
    WordWidth - Min({n \in 0..WordWidth : v \div Power[n] = w \div Power[n]})

PrefixLen(word) == WordWidth - 1 - TrailingZeros(word)

\* the byte, moved to the front of a word
Shifted(shard) == shard * Power[WordWidth - ByteWidth]

\* Wrong on purpose: one bit too many is compared.
isInShardStrict(word, shard) == LeadingZerosXor(Shifted(shard), word) > PrefixLen(word)

isInShard(word, shard) == LeadingZerosXor(Shifted(shard), word) >= PrefixLen(word)

\* Wrong on purpose: the first block of the list, whatever its shard.
filterFirst(blocks, shard) == CHOOSE b \in blocks : TRUE

\* the first block of the list that is in the shard
filterByShard(blocks, shard) == CHOOSE b \in blocks : isInShard(b.shard, shard)

\* the shard words of the chain: the whole workchain, halves and the parent
Root == Power[WordWidth - 1]
Half(word, sign) == word + sign * Power[TrailingZeros(word) - 1]
Siblings(v, w)   == \E p \in Words :
                        PrefixLen(p) < ByteWidth /\ v = Half(p, -1) /\ w = Half(p, 1)
Union(v, w) == (v + w) \div 2

----------------------------------------------------------------------------
(* The chain                                                               *)

Block(word, n) == [shard |-> word, seqno |-> n]
OnLine(b)      == isInShard(b.shard, Shard)

Start == Block(Root, 1)

TrackerInit ==
    /\ heads = {Start}
    /\ parents = [b \in {Start} |-> {}]
    /\ fresh = TRUE
    /\ blockData = {Start}
    /\ lastKnown = Start
    /\ target = {} /\ current = {} /\ scanning = {}
    /\ line = <<Start>>
    /\ faults = 0

trackerVars == <<blockData, lastKnown, target, current, scanning>>

\* a masterchain block commits the blocks new, which continue the heads old
Commit(old, new) ==
    /\ Len(line) < MaxBlocks
    /\ \A b \in new : b.seqno <= MaxBlocks
    /\ heads' = (heads \ old) \cup new
    /\ parents' = [b \in DOMAIN parents \cup new |->
                      IF b \in new THEN old ELSE parents[b]]
    /\ line' = IF \E b \in new : OnLine(b)
                 THEN Append(line, CHOOSE b \in new : OnLine(b)) ELSE line
    /\ fresh' = TRUE
    /\ UNCHANGED <<trackerVars, faults>>

Extend(h) == Commit({h}, {Block(h.shard, h.seqno + 1)})

\* isInShard supports prefixes of at most ByteWidth bits
Split(h) ==
    /\ PrefixLen(h.shard) < ByteWidth
    /\ Commit({h}, {Block(Half(h.shard, sign), h.seqno + 1) : sign \in {-1, 1}})

Merge(g, h) ==
    /\ Siblings(g.shard, h.shard)
    /\ Commit({g, h}, {Block(Union(g.shard, h.shard), Max({g.seqno, h.seqno}) + 1)})

\* a masterchain block without a new block of this workchain
EmptyMaster ==
    /\ fresh' = TRUE
    /\ UNCHANGED <<heads, parents, trackerVars, line, faults>>

----------------------------------------------------------------------------
(* The tracker and the scanner                                             *)

Fault(kind) ==
    /\ kind \in FaultKinds
    /\ faults < MaxFaults
    /\ faults' = faults + 1

\* getCurrentMasterBlock returns a block it has not returned before;
\* loadShardBlocksBatch starts the walk, unless the block is known
Poll ==
    /\ current = {}
    /\ fresh
    /\ fresh' = FALSE
    /\ LET i == filterByShard(heads, Shard)
       IN IF i = lastKnown
            THEN UNCHANGED <<target, current>>
            ELSE target' = {i} /\ current' = {i}
    /\ UNCHANGED <<heads, parents, blockData, lastKnown, scanning, line, faults>>

\* Wrong on purpose: lastKnownShardBlock is not moved at the end of a walk.
SendForgets(b) ==
    /\ current = {b}
    /\ scanning = {}
    /\ scanning' = {b}
    /\ LET parent == filterByShard(parents[b], Shard)
       IN IF parent = lastKnown
            THEN target' = {} /\ current' = {}
            ELSE current' = {parent} /\ UNCHANGED target
    /\ UNCHANGED <<heads, parents, fresh, blockData, lastKnown, line, faults>>

\* one round of getShardBlocks: the header of the current block goes to the
\* scanner, the parent in the shard is next, the walk ends at lastKnown
Send(b) ==
    /\ current = {b}
    /\ scanning = {}
    /\ scanning' = {b}
    /\ LET parent == filterByShard(parents[b], Shard)
       IN IF parent = lastKnown
            THEN \E i \in target : lastKnown' = i /\ target' = {} /\ current' = {}
            ELSE current' = {parent} /\ UNCHANGED <<lastKnown, target>>
    /\ UNCHANGED <<heads, parents, fresh, blockData, line, faults>>

\* getShardBlocksHeader fails; lastMasterBlock has already moved on, so the
\* next walk waits for the next masterchain block
FetchError ==
    /\ current # {}
    /\ Fault("fetch")
    /\ target' = {} /\ current' = {}
    /\ UNCHANGED <<heads, parents, fresh, blockData, lastKnown, scanning, line>>

\* the unique key of block_data is (shard, seqno)
ScanBlock ==
    /\ scanning # {}
    /\ blockData' = blockData \cup scanning
    /\ scanning' = {}
    /\ UNCHANGED <<heads, parents, fresh, lastKnown, target, current, line, faults>>

ScanError ==
    /\ scanning # {}
    /\ Fault("scan")
    /\ scanning' = {}
    /\ UNCHANGED <<heads, parents, fresh, blockData, lastKnown, target, current, line>>

\* Wrong on purpose: ORDER BY shard DESC, seqno DESC.
GetLastSavedByShard ==
    CHOOSE b \in blockData : \A c \in blockData :
        c.shard < b.shard \/ (c.shard = b.shard /\ c.seqno <= b.seqno)

\* ORDER BY seqno DESC LIMIT 1, whatever the shard
GetLastSavedBlock == CHOOSE b \in blockData : \A c \in blockData : c.seqno <= b.seqno

Restart ==
    /\ Fault("crash")
    /\ fresh' = TRUE
    /\ lastKnown' = GetLastSavedBlock
    /\ target' = {} /\ current' = {} /\ scanning' = {}
    /\ UNCHANGED <<heads, parents, blockData, line>>

TrackerNext ==
    \/ \E h \in heads : Extend(h) \/ Split(h)
    \/ \E g, h \in heads : Merge(g, h)
    \/ EmptyMaster
    \/ Poll
    \/ \E b \in current : Send(b)
    \/ FetchError
    \/ ScanBlock \/ ScanError
    \/ Restart

TrackerSpec == TrackerInit /\ [][TrackerNext]_shardVars

\* the masterchain and the goroutines go on for ever
FairSpec ==
    /\ TrackerSpec
    /\ WF_shardVars(EmptyMaster) /\ WF_shardVars(Poll) /\ WF_shardVars(ScanBlock)
    /\ WF_shardVars(\E b \in current : Send(b))

----------------------------------------------------------------------------
(* Properties                                                              *)

\* Type invariant.
TypeOK ==
    /\ heads \subseteq DOMAIN parents
    /\ \A b \in DOMAIN parents :
          /\ b.shard \in Words /\ b.seqno \in Nat
          /\ parents[b] \subseteq DOMAIN parents
    /\ {lastKnown} \cup target \cup current \cup scanning \cup blockData
          \subseteq DOMAIN parents
    /\ Len(line) <= MaxBlocks

\* filterByShard finds exactly one block, whatever the service's byte is: the
\* words of the shards that a masterchain block lists cut the bytes into
\* disjoint parts by isInShard, as they do by their prefixes.  "must be at
\* least one suitable shard block" is never reached.
ExactlyOneShard ==
    \A byte \in Bytes :
        \E h \in heads : {g \in heads : isInShard(g.shard, byte)} = {h}

\* The block before b on the line of the byte is the parent that
\* convertBlockToShardHeader selects, also where a merge has two parents, and
\* seqnos increase along the line, so that ORDER BY seqno finds the newest.
WalkFollowsLine ==
    \A i \in 2..Len(line) :
        /\ filterByShard(parents[line[i]], Shard) = line[i - 1]
        /\ line[i - 1].seqno < line[i].seqno

\* A position on the line, 0 for no block.
PosIn(B)  == IF B = {} THEN 0 ELSE CHOOSE i \in 1..Len(line) : line[i] \in B
Positions == {i \in 1..Len(line) : line[i] \in blockData}

Feed == INSTANCE BlockFeed WITH
    AllowableBlockchainLagging <- 0, MaxTime <- 0,
    now <- 0,
    genUtime <- [i \in 1..Len(line) |-> 0],
    blockData <- Positions,
    lastKnown <- PosIn({lastKnown}),
    target <- PosIn(target),
    current <- PosIn(current),
    scanning <- PosIn(scanning)

\* The tracker over splitting and merging shards implements BlockFeed on the
\* line of the service's byte: no walk leaves the line or runs past the last
\* known block, and every restart continues on it.
ImplementsBlockFeed == Feed!FeedSpec

\* The tracker reaches every block of the line, whatever fails: an abandoned
\* walk is taken up again with the next masterchain block, a lost position
\* after the restart (lastMasterBlock moves on before the batch has succeeded).
TrackerReachesLine ==
    \A i \in 1..MaxBlocks : i <= Len(line) ~> PosIn({lastKnown}) >= i
=============================================================================
