--------------------------- MODULE Notifications ---------------------------
(***************************************************************************)
(* What processBlock does with one block of the feed: it reads the block,   *)
(* announces every income of it to every notificator (the queue, the        *)
(* webhook), and only then stores the block with its incomes.  The scanner  *)
(* knows nothing of what it announced before: a block that is scanned again *)
(* is announced again, and the unique key of block_data rejects it only     *)
(* afterwards.                                                              *)
(*                                                                         *)
(* Any of the steps may fail, and then Start logs the error and takes the   *)
(* next header; nobody offers the block again.  Where the rows of           *)
(* BlockFeed's blockData are missing is explained here: dropped are the     *)
(* blocks whose scan failed, skipped those a restart passed over.           *)
(*                                                                         *)
(* incomes[b] is the number of incomes in block b, of the deposit side or   *)
(* of the hot wallet's side as IsDepositSideCalculation says.               *)
(***************************************************************************)
EXTENDS BlockFeed, FiniteSetsExt

CONSTANTS
    Notificators,   \* the sequence of them: queue, webhook
    Attempts,       \* 3, in Client.Publish
    ClientTimeout,  \* 10 seconds, of the webhook's http.Client
    ScanTimeout,    \* 15 seconds, of the context that processBlock runs in
    MaxIncomes      \* bound on the incomes of the whole chain

ASSUME NotificationAssumption ==
    /\ Notificators \in Seq({"queue", "webhook"})
    /\ Attempts \in Nat \ {0}
    /\ ClientTimeout \in Nat \ {0} /\ ScanTimeout \in Nat /\ MaxIncomes \in Nat

VARIABLES
    incomes,      \* incomes[b] of a block of the chain
    stage,        \* of the scanner: wait, read, push
    pushed,       \* notifications of this block that Publish has returned nil for
    attempt,      \* attempts made at the next one
    elapsed,      \* of ScanTimeout
    accepted,     \* <<block, income, notificator>> that Publish returned nil for
    undelivered,  \* blocks whose webhook attempts ended, since the last restart
    dropped,      \* blocks without a row whose scan ended in an error
    skipped       \* blocks without a row below the start block of a restart

scanVars == <<stage, pushed, attempt, elapsed>>
lossVars == <<undelivered, dropped, skipped>>
vars     == <<feedVars, incomes, scanVars, accepted, lossVars>>

\* the scanner waits for the next header
Waiting == stage' = "wait" /\ pushed' = 0 /\ attempt' = 0 /\ elapsed' = 0

Init ==
    /\ FeedInit
    /\ incomes = <<0>>
    /\ stage = "wait" /\ pushed = 0 /\ attempt = 0 /\ elapsed = 0
    /\ accepted = {}
    /\ undelivered = {} /\ dropped = {} /\ skipped = {}

----------------------------------------------------------------------------
(* The chain and the tracker                                               *)

MineBlock(utime, n) ==
    /\ ProduceBlock(utime)
    /\ LET InBlock(b) == incomes[b]
       IN n + MapThenSumSet(InBlock, 1..Tip) <= MaxIncomes
    /\ incomes' = Append(incomes, n)
    /\ UNCHANGED <<scanVars, accepted, lossVars>>

Poll == TrackerPoll /\ UNCHANGED <<incomes, scanVars, accepted, lossVars>>

AbandonWalk == TrackerFetchError /\ UNCHANGED <<incomes, scanVars, accepted, lossVars>>

\* the header arrives at the scanner
Offer ==
    /\ TrackerSend
    /\ stage' = "read"
    /\ UNCHANGED <<incomes, pushed, attempt, elapsed, accepted, lossVars>>

----------------------------------------------------------------------------
(* processBlock                                                            *)

\* an error anywhere: nothing is stored, the next header is taken
Drop ==
    /\ ScanDone(FALSE)
    /\ dropped' = IF NotSavedYet THEN dropped \cup {scanning} ELSE dropped
    /\ Waiting

\* GetTransactionIDsFromBlock, filterTXs and processTXs
ReadBlock ==
    /\ stage = "read"
    /\ stage' = "push"
    /\ UNCHANGED <<feedVars, incomes, pushed, attempt, elapsed, accepted, lossVars>>

ReadError ==
    /\ stage = "read"
    /\ Fault("scan")
    /\ Drop
    /\ UNCHANGED <<incomes, accepted, undelivered, skipped>>

\* pushNotifications: the incomes in turn, each to the notificators in turn
Total == incomes[scanning] * Len(Notificators)
Notificator == Notificators[1 + (pushed % Len(Notificators))]
Notification == <<scanning, 1 + (pushed \div Len(Notificators)), Notificator>>

\* Publish returns nil
Accept ==
    /\ accepted' = accepted \cup {Notification}
    /\ pushed' = pushed + 1
    /\ attempt' = 0

\* the queue's Publish returns as soon as the broker's socket has the message
PublishQueue ==
    /\ stage = "push" /\ pushed < Total /\ Notificator = "queue"
    /\ Accept
    /\ UNCHANGED <<feedVars, incomes, stage, elapsed, lossVars>>

PublishQueueError ==
    /\ stage = "push" /\ pushed < Total /\ Notificator = "queue"
    /\ Fault("scan")
    /\ Drop
    /\ UNCHANGED <<incomes, accepted, undelivered, skipped>>

\* send takes its time, of which the context of processBlock knows nothing
Wait(delay) == elapsed' = Min({elapsed + delay, ScanTimeout})

\* the webhook answers 200 before the http.Client gives up
PublishWebhook ==
    /\ stage = "push" /\ pushed < Total /\ Notificator = "webhook"
    /\ \E delay \in 0..(ClientTimeout - 1) : Wait(delay)
    /\ Accept
    /\ UNCHANGED <<feedVars, incomes, stage, lossVars>>

\* Wrong on purpose: the error of the last attempt is swallowed
AttemptsEndedQuietly ==
    /\ pushed' = pushed + 1
    /\ attempt' = 0
    /\ UNCHANGED <<now, genUtime, blockData, lastKnown, target, current, scanning,
                   stage, elapsed, undelivered, dropped>>

\* "attempts to send a webhook ended"
AttemptsEnded ==
    /\ Drop
    /\ undelivered' = undelivered \cup {scanning}

\* one attempt fails: no connection, a status that is not 200, or no answer in
\* time; whether the receiver has the payment is not known
WebhookFails ==
    /\ stage = "push" /\ pushed < Total /\ Notificator = "webhook"
    /\ Fault("webhook")
    /\ IF attempt + 1 < Attempts
         THEN /\ attempt' = attempt + 1
              /\ \E delay \in 0..ClientTimeout : Wait(delay)
              /\ UNCHANGED <<now, genUtime, blockData, lastKnown, target, current, scanning,
                             stage, pushed, undelivered, dropped>>
         ELSE AttemptsEnded
    /\ UNCHANGED <<incomes, accepted, skipped>>

\* SaveParsedBlockData runs in the context of processBlock, which the attempts of
\* the webhook may have used up
SaveBlock ==
    /\ stage = "push" /\ pushed = Total
    /\ IF elapsed < ScanTimeout
         THEN /\ ScanDone(NotSavedYet)
              /\ dropped' = dropped \ blockData'
              /\ Waiting
         ELSE Drop
    /\ UNCHANGED <<faults, incomes, accepted, undelivered, skipped>>

\* the database fails; RunInTx also ignores the error of the commit
SaveError ==
    /\ stage = "push" /\ pushed = Total
    /\ Fault("scan")
    /\ Drop
    /\ UNCHANGED <<incomes, accepted, undelivered, skipped>>

----------------------------------------------------------------------------
Crash ==
    /\ Restart
    /\ skipped' = skipped \cup {b \in 1..lastKnown' : b \notin blockData}
    /\ Waiting
    /\ undelivered' = {}
    /\ UNCHANGED <<incomes, accepted, dropped>>

TimePasses == Tick /\ UNCHANGED <<incomes, scanVars, accepted, lossVars>>

Next ==
    \/ TimePasses
    \/ \E utime \in 0..now, n \in 0..MaxIncomes : MineBlock(utime, n)
    \/ Poll \/ Offer \/ AbandonWalk
    \/ ReadBlock \/ ReadError
    \/ PublishQueue \/ PublishQueueError
    \/ PublishWebhook \/ WebhookFails
    \/ SaveBlock \/ SaveError
    \/ Crash

\* each of the two goroutines goes on while it can; the http.Client has a timeout
Fairness ==
    /\ WF_vars(Poll \/ Offer)
    /\ WF_vars(ReadBlock \/ PublishQueue \/ PublishWebhook \/ SaveBlock)

FairSpec == Init /\ [][Next]_vars /\ Fairness

----------------------------------------------------------------------------
(* Properties                                                              *)

\* Type invariant.
TypeOK ==
    /\ DOMAIN incomes = 1..Tip
    /\ stage \in {"wait", "read", "push"}
    /\ stage = "wait" <=> scanning = 0
    /\ stage # "push" => pushed = 0 /\ attempt = 0 /\ elapsed = 0
    /\ stage = "push" => pushed \in 0..Total
    /\ attempt \in 0..(Attempts - 1)
    /\ undelivered \cup dropped \cup skipped \subseteq 1..Tip

\* What the tables show was announced: no stored block holds an income that one
\* of the notificators has not taken, whatever failed on the way.
SavedIsNotified ==
    \A b \in blockData, i \in 1..MaxIncomes, k \in DOMAIN Notificators :
        i <= incomes[b] => <<b, i, Notificators[k]>> \in accepted

\* Every missing row has its reason: whatever lies at or below the last known
\* block, or above the position of the walk, is stored, is being scanned, was
\* dropped by an error of its own scan, or was passed over by a restart.
LossesExplained ==
    \A b \in 1..Tip :
        (b <= lastKnown \/ (current # 0 /\ current < b /\ b <= target))
            => b \in blockData \cup {scanning} \cup dropped \cup skipped

\* The scanner never hangs on a block: each one is stored, or its loss is
\* settled, although walks are abandoned and the webhook fails (block 1 is saved
\* from the start).
EveryBlockSettled ==
    \A b \in 2..MaxBlocks : b <= Tip ~> b \in blockData \cup dropped \cup skipped

\* waitSync gets its chance, whatever fails: once a block is followed by as many
\* blocks as there can be failures, a block at least as new as it is saved, though
\* older ones may be missing.  Blocks with so many incomes that a receiver who
\* answers late, but in time for the http.Client, can use up the context of
\* processBlock do not count: each of them may be lost without any failure.
ServiceCatchesUp ==
    LET Safe(c) == incomes[c] * (ClientTimeout - 1) < ScanTimeout
    IN \A b \in 2..(MaxBlocks - MaxFaults) :
          Cardinality({c \in b..Tip : Safe(c)}) > MaxFaults ~> GetLastSavedBlock >= b

\* Said by README.md: when the attempts to deliver a webhook have ended, the
\* service stops with an error, so nothing is stored until it is started again.
StopsUndelivered ==
    [][undelivered # {} => blockData' = blockData]_vars
============================================================================
