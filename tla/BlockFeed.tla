----------------------------- MODULE BlockFeed -----------------------------
(***************************************************************************)
(* How the blocks of the observed shard reach the table block_data.         *)
(*                                                                         *)
(* Two goroutines share one unbuffered channel.  ShardTracker.Start polls   *)
(* the masterchain and walks from the newest shard block of the polled      *)
(* masterchain block back to the last block it knows, offering every header *)
(* on the channel as it goes: newest first.  BlockScanner.Start takes one   *)
(* header at a time, parses the block and stores its events together with   *)
(* its row of block_data in one transaction.  After a restart the tracker   *)
(* continues from GetLastSavedBlock, the row with the greatest seqno.       *)
(*                                                                         *)
(* Blocks are named by their seqno; the chain of the shard is linear here   *)
(* (ShardTracker.tla models splits and merges).  The clock is that of the   *)
(* service; the gen_utime of a block is the chain's own.                    *)
(***************************************************************************)
EXTENDS Integers, Sequences

CONSTANTS
    AllowableBlockchainLagging, \* config.AllowableBlockchainLagging
    FaultKinds,                 \* which failures happen: fetch, scan,
                                \* crash, db
    MaxTime, MaxBlocks, MaxFaults  \* bounds of an instance

ASSUME FeedAssumption ==
    /\ AllowableBlockchainLagging \in Nat
    /\ MaxTime \in Nat
    /\ MaxBlocks \in Nat
    /\ MaxFaults \in Nat

VARIABLES
    now,        \* time.Now() of the service
    genUtime,   \* the chain: genUtime[b] of the shard block with seqno b
    blockData,  \* payments.block_data: the seqnos that have a row
    lastKnown,  \* ShardTracker.lastKnownShardBlock
    target,     \* the block the current walk started from, 0 when not walking
    current,    \* currentBlock of getShardBlocks, 0 when not walking
    scanning,   \* the block BlockScanner works on, 0 when it waits
    faults      \* failures that happened so far

feedVars == <<now, genUtime, blockData, lastKnown, target, current, scanning, faults>>

Tip == Len(genUtime)

\* SELECT ... FROM payments.block_data ORDER BY seqno DESC LIMIT 1
GetLastSavedBlock == CHOOSE b \in blockData : \A c \in blockData : c <= b

\* ShardBlockHeader.IsExpired of a block with this gen_utime
IsExpired(utime) == now - utime > AllowableBlockchainLagging

\* what waitSync waits for
Synced == ~ IsExpired(genUtime[GetLastSavedBlock])

Fault(kind) ==
    /\ kind \in FaultKinds
    /\ faults < MaxFaults
    /\ faults' = faults + 1

----------------------------------------------------------------------------
\* the service starts on a block_data that holds its start block
FeedInit ==
    /\ now = 0
    /\ genUtime = <<0>>
    /\ blockData = {1}
    /\ lastKnown = 1
    /\ target = 0
    /\ current = 0
    /\ scanning = 0
    /\ faults = 0

Tick ==
    /\ now < MaxTime
    /\ now' = now + 1
    /\ UNCHANGED <<genUtime, blockData, lastKnown, target, current, scanning, faults>>

\* the validators append a block; gen_utime never decreases along the chain
ProduceBlock(utime) ==
    /\ Tip < MaxBlocks
    /\ genUtime[Tip] <= utime
    /\ genUtime' = Append(genUtime, utime)
    /\ UNCHANGED <<now, blockData, lastKnown, target, current, scanning, faults>>

\* getCurrentMasterBlock and loadShardBlocksBatch find a new tip of the shard
TrackerPoll ==
    /\ current = 0
    /\ Tip # lastKnown
    /\ target' = Tip
    /\ current' = Tip
    /\ UNCHANGED <<now, genUtime, blockData, lastKnown, scanning, faults>>

\* Wrong on purpose: the test for the last known block comes one block late.
TrackerSendPastKnown ==
    /\ current # 0
    /\ scanning = 0
    /\ scanning' = current
    /\ IF current = lastKnown
         THEN lastKnown' = target /\ target' = 0 /\ current' = 0
         ELSE current' = current - 1 /\ UNCHANGED <<lastKnown, target>>
    /\ UNCHANGED <<now, genUtime, blockData, faults>>

\* getShardBlocks hands the header over and goes on to the parent; when the
\* parent is the last known block the walk is over
TrackerSend ==
    /\ current # 0
    /\ scanning = 0
    /\ scanning' = current
    /\ IF current - 1 = lastKnown
         THEN lastKnown' = target /\ target' = 0 /\ current' = 0
         ELSE current' = current - 1 /\ UNCHANGED <<lastKnown, target>>
    /\ UNCHANGED <<now, genUtime, blockData, faults>>

\* Wrong on purpose: an abandoned walk counts as done.
TrackerFetchErrorAdvances ==
    /\ current # 0
    /\ Fault("fetch")
    /\ lastKnown' = target
    /\ target' = 0
    /\ current' = 0
    /\ UNCHANGED <<now, genUtime, blockData, scanning>>

\* getShardBlocksHeader fails: the walk is abandoned, lastKnown stays
TrackerFetchError ==
    /\ current # 0
    /\ Fault("fetch")
    /\ target' = 0
    /\ current' = 0
    /\ UNCHANGED <<now, genUtime, blockData, lastKnown, scanning>>

\* SaveParsedBlockData: the transaction commits, or is rolled back and the
\* error is only logged; either way the scanner takes the next header
ScanDone(commits) ==
    /\ scanning # 0
    /\ blockData' = IF commits THEN blockData \cup {scanning} ELSE blockData
    /\ scanning' = 0
    /\ UNCHANGED <<now, genUtime, lastKnown, target, current>>

\* Wrong on purpose: a block older than the last saved one counts as saved.
NewerThanSaved == scanning > GetLastSavedBlock

\* the unique key of block_data rejects a block that was saved before
NotSavedYet == scanning \notin blockData

ScanBlock == ScanDone(NotSavedYet) /\ UNCHANGED faults

\* reading, decoding, a webhook or the commit fails: Start logs and goes on
ScanError == ScanDone(FALSE) /\ Fault("scan")

\* Wrong on purpose: the tracker starts from the newest block of the chain.
RestartAtTip ==
    /\ Fault("crash")
    /\ lastKnown' = Tip
    /\ target' = 0
    /\ current' = 0
    /\ scanning' = 0
    /\ UNCHANGED <<now, genUtime, blockData>>

\* the process dies (log.Fatal, panic, kill) and main starts it again
Restart ==
    /\ Fault("crash")
    /\ lastKnown' = GetLastSavedBlock
    /\ target' = 0
    /\ current' = 0
    /\ scanning' = 0
    /\ UNCHANGED <<now, genUtime, blockData>>

FeedNext ==
    \/ Tick
    \/ \E utime \in 0..now : ProduceBlock(utime)
    \/ TrackerPoll \/ TrackerSend \/ TrackerFetchError
    \/ ScanBlock \/ ScanError
    \/ Restart

FeedSpec == FeedInit /\ [][FeedNext]_feedVars

\* every goroutine that can go on does go on; the chain owes nothing
FeedFairness ==
    WF_feedVars(TrackerPoll) /\ WF_feedVars(TrackerSend) /\ WF_feedVars(ScanBlock)

FeedFairSpec == FeedSpec /\ FeedFairness

----------------------------------------------------------------------------
\* Type invariant.  Of a walk: the tracker stays strictly above the block it
\* looks for, so that "until the last known block" is reached.
FeedTypeOK ==
    /\ now \in Nat
    /\ genUtime \in Seq(Nat)
    /\ blockData \in SUBSET (1..Tip)
    /\ 1 \in blockData
    /\ lastKnown \in 1..Tip
    /\ target \in 0..Tip
    /\ current \in 0..target
    /\ current = 0 <=> target = 0
    /\ current # 0 => lastKnown < current
    /\ scanning \in 0..Tip
    /\ faults \in Nat

\* No header is lost between the two goroutines: whatever lies at or below
\* the last known block, or above the position of the walk, has a row or is
\* being scanned (ShardTracker.getShardBlocks advances lastKnownShardBlock
\* only after the whole walk, so an abandoned walk is repeated).
NothingSkipped ==
    \A b \in 1..Tip :
        (b <= lastKnown \/ (current # 0 /\ current < b /\ b <= target))
            => b \in blockData \cup {scanning}

\* Every block of the chain gets its row, although walks may be abandoned.
EveryBlockSaved == \A b \in 1..MaxBlocks : b <= Tip ~> b \in blockData

\* What the expiration processor relies on and the code does not enforce:
\* below the last saved block only blocks younger than the allowed lag are
\* still without a row.  It fails when a walk over many blocks, newest first,
\* takes longer than that, and for ever after a block was lost.
GapsAreYoung ==
    \A b \in 1..GetLastSavedBlock : b \in blockData \/ ~ IsExpired(genUtime[b])
============================================================================
