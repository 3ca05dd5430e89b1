--------------------- MODULE ExternalWithdrawalsProofs ---------------------
(***************************************************************************)
(* Theorems about ExternalWithdrawals, for every value of its constants.    *)
(***************************************************************************)
EXTENDS ExternalWithdrawals, BlockFeedProofs

\* Every step of the service and of the chain moves the feed by FeedStep.
LEMMA NextIsFeedStep ==
    ASSUME TypeOK, [Next]_vars
    PROVE  FeedStep
<1>1. now \in Nat /\ faults \in Nat /\ FeedTypeOK
  BY DEF TypeOK, FeedTypeOK
<1>2. CASE UNCHANGED feedVars
  BY <1>1, <1>2 DEF FeedStep, feedVars
<1>3. CASE SetExpiredError
  BY <1>1, <1>3 DEF FeedStep, SetExpiredError, Fault
<1>4. ASSUME NEW utime \in 0..now, NEW msgs, NEW out, MineBlock(utime, msgs, out)
      PROVE  FeedStep
  <2>1. ProduceBlock(utime) /\ utime \in Nat
    BY <1>1, <1>4 DEF MineBlock
  <2> QED BY <2>1 DEF FeedStep
<1>5. CASE Feed
  <2>1. CASE ScanError
    <3>1. ScanDone(FALSE) /\ Fault("scan")
      BY <2>1 DEF ScanError
    <3>2. faults' \in Nat
      BY <1>1, <3>1 DEF Fault
    <3> QED BY <3>1, <3>2 DEF FeedStep
  <2>2. CASE TrackerPoll \/ TrackerSend \/ TrackerFetchError
    BY <2>2 DEF FeedStep
  <2> QED BY <1>5, <2>1, <2>2 DEF Feed
<1>6. CASE SaveParsedBlockData
  <2>1. ScanDone(Commits) /\ faults' = faults /\ Commits \in BOOLEAN
    BY <1>6 DEF SaveParsedBlockData, Commits, NotSavedYet, NoneFailed, Events
  <2> QED BY <1>1, <2>1 DEF FeedStep
<1>7. CASE TimePasses \/ Crash
  BY <1>7 DEF TimePasses, Crash, FeedStep
<1>8. CASE SaveAcrossExpiry
  BY <1>1, <1>8 DEF SaveAcrossExpiry, FeedStep
<1>9. CASE Next
  BY <1>2, <1>3, <1>4, <1>5, <1>6, <1>7, <1>8, <1>9
     DEF Next, CreateWithdrawalRequest, ExtWaitSync, BuildWithdrawalMessages,
         CreateExternalWithdrawals, SendExternalMessage, ExpWaitSync, SetExpired
<1> QED BY <1>2, <1>9 DEF vars

\* The tables, the two processors and the chain stay typed in every step.
LEMMA TypeStep ==
    ASSUME TypeOK, [Next]_vars
    PROVE  TypeOK'
<1>0. FeedTypeOK' /\ Tip \in Nat /\ now \in Nat /\ MaxMsgs \in Nat
  <2>1. FeedTypeOK
    BY DEF TypeOK
  <2>2. FeedTypeOK'
    BY <2>1, NextIsFeedStep, FeedTypeStep
  <2>3. Tip \in Nat /\ now \in Nat /\ MaxMsgs \in Nat
    BY <2>1, WithdrawalAssumption DEF FeedTypeOK, Tip
  <2> QED BY <2>2, <2>3
<1>1. ASSUME NEW q \in Requests, CreateWithdrawalRequest(q) PROVE TypeOK'
  BY <1>0, <1>1 DEF CreateWithdrawalRequest, TypeOK, feedVars, procVars, expVars,
                    chainVars, Tip
<1>2. CASE ExtWaitSync
  BY <1>0, <1>2, WithdrawalAssumption
     DEF ExtWaitSync, TypeOK, feedVars, dbVars, expVars, chainVars, Tip
<1>3. ASSUME NEW tasks \in SUBSET requests, BuildWithdrawalMessages(tasks) PROVE TypeOK'
  <2>1. CASE tasks = {}
    BY <1>0, <1>3, <2>1
       DEF BuildWithdrawalMessages, MessageTTL, TypeOK, feedVars, dbVars, expVars, chainVars, Tip
  <2>2. CASE tasks # {}
    <3>1. built' = built + 1 /\ built' \in Msgs /\ ttl' \in [Msgs -> Nat]
      <4>1. built' = built + 1 /\ built \in 0..MaxMsgs /\ built < MaxMsgs
        BY <1>3, <2>2 DEF BuildWithdrawalMessages, MessageTTL, TypeOK
      <4>2. built + 1 \in Msgs
        BY <1>0, <4>1 DEF Msgs
      <4>3. ttl' = [ttl EXCEPT ![built + 1] = now + ExternalMessageLifetime]
        BY <1>3, <2>2, <4>1 DEF BuildWithdrawalMessages, MessageTTL
      <4>4. now + ExternalMessageLifetime \in Nat
        BY <1>0, WithdrawalAssumption
      <4>5. ttl' \in [Msgs -> Nat]
        BY <4>2, <4>3, <4>4 DEF TypeOK
      <4> QED BY <4>1, <4>2, <4>5
    <3>2. built' \in 0..MaxMsgs /\ mempool' \subseteq 1..built'
      BY <1>0, <1>3, <3>1 DEF BuildWithdrawalMessages, MessageTTL, TypeOK, chainVars, Msgs
    <3>3. UNCHANGED <<requests, processing, processed, rows, failed, confirmed, paid,
                      now, genUtime, expPc, syncedAt, minedIn>>
      BY <1>3 DEF BuildWithdrawalMessages, MessageTTL, feedVars, dbVars, expVars, chainVars
    <3>4. extPc' = "save" /\ batch' = tasks /\ wakeAt' = 0
      BY <1>3, <2>2 DEF BuildWithdrawalMessages, MessageTTL
    <3> QED BY <1>0, <3>1, <3>2, <3>3, <3>4 DEF TypeOK, Tip
  <2> QED BY <2>1, <2>2
<1>4. CASE CreateExternalWithdrawals
  BY <1>0, <1>4
     DEF CreateExternalWithdrawals, TypeOK, feedVars, expVars, chainVars, Tip
<1>5. ASSUME NEW delivered \in BOOLEAN, SendExternalMessage(delivered) PROVE TypeOK'
  BY <1>0, <1>5
     DEF SendExternalMessage, TypeOK, feedVars, dbVars, expVars, Tip, Msgs
<1>6. CASE ExpWaitSync
  BY <1>0, <1>6 DEF ExpWaitSync, TypeOK, feedVars, dbVars, procVars, chainVars, Tip
<1>7. CASE SetExpired
  BY <1>0, <1>7 DEF SetExpired, Expired, TypeOK, feedVars, procVars, chainVars, Tip
<1>8. CASE SetExpiredError
  BY <1>0, <1>8 DEF SetExpiredError, Fault, TypeOK, dbVars, procVars, chainVars, Tip
<1>9. CASE TimePasses
  BY <1>0, <1>9 DEF TimePasses, Tick, TypeOK, dbVars, procVars, expVars, chainVars, Tip
<1>10. ASSUME NEW utime \in 0..now, NEW msgs \in SUBSET mempool,
              NEW out \in SUBSET {r \in rows : r[1] \in msgs}, MineBlock(utime, msgs, out)
       PROVE  TypeOK'
  <2>1. Tip' = Tip + 1
    BY <1>0, <1>10 DEF MineBlock, ProduceBlock, TypeOK, FeedTypeOK, Tip
  <2>2. minedIn' \in [Msgs -> 0..Tip']
    BY <1>0, <1>10, <2>1 DEF MineBlock, TypeOK
  <2> QED BY <1>0, <1>10, <2>2
       DEF MineBlock, ProduceBlock, TypeOK, dbVars, procVars, expVars
<1>11. CASE Feed
  BY <1>0, <1>11
     DEF Feed, TrackerPoll, TrackerSend, TrackerFetchError, ScanError, ScanDone,
         TypeOK, dbVars, procVars, expVars, chainVars, Tip
<1>12. CASE SaveParsedBlockData
  <2>1. /\ UNCHANGED <<now, genUtime, requests, rows, procVars, expVars, chainVars>>
        /\ confirmed' \subseteq confirmed \cup paid /\ failed' \subseteq failed \cup rows
        /\ processed' \subseteq processed \cup RequestsOf(paid)
        /\ processing' \subseteq processing
    BY <1>12 DEF SaveParsedBlockData, ScanDone, Payments, Failures, RequestsOf
  <2>2. RequestsOf(paid) \subseteq requests
    BY DEF RequestsOf, TypeOK
  <2> QED BY <1>0, <2>1, <2>2 DEF TypeOK, procVars, expVars, chainVars, Tip
<1>13. CASE Crash
  BY <1>0, <1>13 DEF Crash, Restart, TypeOK, dbVars, chainVars, Tip
<1>14. CASE SaveAcrossExpiry
  <2>1. /\ UNCHANGED <<now, genUtime, requests, rows, procVars, chainVars>>
        /\ confirmed' \subseteq confirmed \cup paid /\ failed' \subseteq failed \cup rows
        /\ processed' \subseteq processed \cup RequestsOf(paid)
        /\ processing' \subseteq processing /\ expPc' = "sync" /\ syncedAt' = 0
    BY <1>14 DEF SaveAcrossExpiry, ScanDone, Payments, Failures, Expired, RequestsOf
  <2>2. RequestsOf(paid) \subseteq requests /\ 0 \in 0..now
    BY <1>0 DEF RequestsOf, TypeOK
  <2> QED BY <1>0, <2>1, <2>2 DEF TypeOK, procVars, chainVars, Tip
<1>15. CASE UNCHANGED vars
  BY <1>0, <1>15 DEF vars, TypeOK, feedVars, dbVars, procVars, expVars, chainVars, Tip
<1> QED BY <1>1, <1>2, <1>3, <1>4, <1>5, <1>6, <1>7, <1>8, <1>9, <1>10, <1>11,
           <1>12, <1>13, <1>14, <1>15 DEF Next

\* Spec keeps the tables typed and their foreign keys intact.
THEOREM Typed == Spec => []TypeOK
<1>1. Init => TypeOK
  BY WithdrawalAssumption DEF Init, FeedInit, TypeOK, FeedTypeOK, Tip, Msgs
<1>2. TypeOK /\ [Next]_vars => TypeOK'
  BY TypeStep
<1> QED BY <1>1, <1>2, PTL DEF Spec

\* What ties the processor's message to the tables and to the chain: a batch
\* holds no request that is processing; the message being saved is newer than
\* every row and unknown to the network; only a message of the mempool is
\* executed, and only an executed message pays.
Books ==
    /\ batch \cap processing = {}
    /\ \A r \in rows : r[1] <= built
    /\ extPc = "save" => \A r \in rows : r[1] # built
    /\ extPc = "save" => built \notin mempool
    /\ \A m \in Msgs : minedIn[m] # 0 => m \in mempool
    /\ \A r \in paid : minedIn[r[1]] # 0

\* Every step keeps the books.
LEMMA BooksStep ==
    ASSUME TypeOK, Books, [Next]_vars
    PROVE  Books'
<1>0. built \in Nat /\ rows \subseteq Msgs \X requests /\ mempool \subseteq 1..built
  BY WithdrawalAssumption DEF TypeOK
<1>1. ASSUME NEW q \in Requests, CreateWithdrawalRequest(q) PROVE Books'
  BY <1>1 DEF CreateWithdrawalRequest, Books, procVars, chainVars
<1>2. CASE ExtWaitSync
  BY <1>2 DEF ExtWaitSync, Books, dbVars, chainVars
<1>3. ASSUME NEW tasks \in SUBSET requests, BuildWithdrawalMessages(tasks) PROVE Books'
  <2>1. CASE tasks = {}
    BY <1>3, <2>1 DEF BuildWithdrawalMessages, MessageTTL, Books, dbVars, chainVars
  <2>2. CASE tasks # {}
    <3>1. built' = built + 1 /\ batch' = tasks /\ UNCHANGED <<dbVars, chainVars>>
      BY <1>3, <2>2 DEF BuildWithdrawalMessages, MessageTTL
    <3>2. tasks \cap processing = {}
      BY <1>3 DEF BuildWithdrawalMessages, MessageTTL, GetExternalWithdrawalTasks
    <3>3. \A r \in rows : r[1] < built + 1
      BY <1>0 DEF Books, Msgs
    <3> QED BY <1>0, <3>1, <3>2, <3>3 DEF Books, dbVars, chainVars, Msgs
  <2> QED BY <2>1, <2>2
<1>4. CASE CreateExternalWithdrawals
  BY <1>0, <1>4 DEF CreateExternalWithdrawals, Books, chainVars
<1>5. ASSUME NEW delivered \in BOOLEAN, SendExternalMessage(delivered) PROVE Books'
  BY <1>5 DEF SendExternalMessage, Books, dbVars
<1>6. CASE ExpWaitSync
  BY <1>6 DEF ExpWaitSync, Books, dbVars, procVars, chainVars
<1>7. CASE SetExpired
  BY <1>7 DEF SetExpired, Books, procVars, chainVars
<1>8. CASE SetExpiredError
  BY <1>8 DEF SetExpiredError, Books, dbVars, procVars, chainVars
<1>9. CASE TimePasses
  BY <1>9 DEF TimePasses, Books, dbVars, procVars, chainVars
<1>10. ASSUME NEW utime \in 0..now, NEW msgs \in SUBSET mempool,
              NEW out \in SUBSET {r \in rows : r[1] \in msgs}, MineBlock(utime, msgs, out)
       PROVE  Books'
  <2>1. Tip + 1 # 0
    BY DEF TypeOK, FeedTypeOK, Tip
  <2>2. \A r \in paid' : r[1] \in Msgs
    BY <1>0, <1>10 DEF MineBlock, TypeOK
  <2>3. \A m \in Msgs : minedIn'[m] = IF m \in msgs THEN Tip + 1 ELSE minedIn[m]
    BY <1>10 DEF MineBlock
  <2> QED BY <1>10, <2>1, <2>2, <2>3 DEF MineBlock, Books, dbVars, procVars
<1>11. CASE Feed
  BY <1>11 DEF Feed, Books, dbVars, procVars, chainVars
<1>12. CASE SaveParsedBlockData \/ SaveAcrossExpiry
  BY <1>12 DEF SaveParsedBlockData, SaveAcrossExpiry, Books, procVars, chainVars
<1>13. CASE Crash
  BY <1>13 DEF Crash, Books, dbVars, chainVars
<1>14. CASE UNCHANGED vars
  BY <1>14 DEF vars, Books, dbVars, procVars, chainVars
<1> QED BY <1>1, <1>2, <1>3, <1>4, <1>5, <1>6, <1>7, <1>8, <1>9, <1>10, <1>11,
           <1>12, <1>13, <1>14 DEF Next

\* Failing rows and releasing their requests keeps the two tables in step.
LEMMA FailRows ==
    ASSUME TypeOK, OneOpenRow, NEW F \in SUBSET (rows \ failed), rows' = rows,
           failed' = failed \cup F, processing' = processing \ RequestsOf(F)
    PROVE  OneOpenRow'
<1>1. \A r, s \in rows \ failed : r[2] = s[2] => r = s
  <2>1. \A r \in rows : r = <<r[1], r[2]>>
    BY DEF TypeOK
  <2> QED BY <2>1 DEF OneOpenRow
<1>2. RequestsOf((rows \ failed) \ F) = RequestsOf(rows \ failed) \ RequestsOf(F)
  BY <1>1 DEF RequestsOf
<1>3. rows' \ failed' = (rows \ failed) \ F
  OBVIOUS
<1>4. processing' = RequestsOf(rows' \ failed')
  BY <1>2, <1>3 DEF OneOpenRow
<1>5. \A r, s \in rows' \ failed' : r[2] = s[2] => r[1] = s[1]
  BY <1>3 DEF OneOpenRow
<1> QED BY <1>4, <1>5 DEF OneOpenRow, RequestsOf

\* Every step keeps the two withdrawal tables in step.
LEMMA OneOpenRowStep ==
    ASSUME TypeOK, Books, OneOpenRow, [Next]_vars
    PROVE  OneOpenRow'
<1>0. rows \subseteq Msgs \X requests /\ failed \subseteq rows
  BY DEF TypeOK
<1>1. CASE UNCHANGED <<rows, failed, processing>>
  BY <1>1 DEF OneOpenRow, RequestsOf
<1>2. CASE CreateExternalWithdrawals
  <2>1. /\ rows' = rows \cup ({built} \X batch) /\ failed' = failed
        /\ processing' = processing \cup batch /\ extPc = "save"
    BY <1>2 DEF CreateExternalWithdrawals
  <2>2. \A r \in {built} \X batch : r \notin failed
    BY <1>0, <2>1 DEF Books
  <2>3. rows' \ failed' = (rows \ failed) \cup ({built} \X batch)
    BY <2>1, <2>2
  <2>4. processing' = RequestsOf(rows' \ failed')
    <3>1. RequestsOf({built} \X batch) = batch
      <4>1. \A q \in batch : <<built, q>> \in {built} \X batch /\ <<built, q>>[2] = q
        OBVIOUS
      <4>2. \A r \in {built} \X batch : r[2] \in batch
        OBVIOUS
      <4> QED BY <4>1, <4>2 DEF RequestsOf
    <3>2. RequestsOf(rows' \ failed')
             = RequestsOf(rows \ failed) \cup RequestsOf({built} \X batch)
      BY <2>3 DEF RequestsOf
    <3> QED BY <2>1, <3>1, <3>2 DEF OneOpenRow
  <2>5. ASSUME NEW r \in rows' \ failed', NEW s \in rows' \ failed', r[2] = s[2]
        PROVE  r[1] = s[1]
    <3>1. \A t \in rows \ failed : t[2] \notin batch
      BY DEF Books, OneOpenRow, RequestsOf
    <3> QED BY <2>3, <2>5, <3>1 DEF OneOpenRow
  <2> QED BY <2>4, <2>5 DEF OneOpenRow, RequestsOf
<1>4. CASE SetExpired
  <2>1. Expired \subseteq rows \ failed
    BY DEF Expired
  <2> QED BY <1>4, <2>1, FailRows DEF SetExpired
<1>5. CASE SaveParsedBlockData
  <2>1. CASE Commits
    <3>1. Failures(scanning) \subseteq rows \ failed
      BY <2>1 DEF Commits, NoneFailed, Events, Failures
    <3> QED BY <1>5, <2>1, <3>1, FailRows DEF SaveParsedBlockData
  <2>2. CASE ~ Commits
    BY <1>1, <1>5, <2>2 DEF SaveParsedBlockData
  <2> QED BY <2>1, <2>2
<1>6. CASE SaveAcrossExpiry
  <2> DEFINE F == Expired \cup Failures(scanning)
  <2>1. F \in SUBSET (rows \ failed)
    BY <1>6 DEF SaveAcrossExpiry, Commits, NoneFailed, Events, Failures, Expired
  <2>2. /\ rows' = rows /\ failed' = failed \cup F
        /\ processing' = processing \ RequestsOf(F)
    BY <1>6 DEF SaveAcrossExpiry
  <2> HIDE DEF F
  <2> QED BY <2>1, <2>2, FailRows
<1> QED BY <1>1, <1>2, <1>4, <1>5, <1>6
     DEF Next, vars, dbVars, CreateWithdrawalRequest, ExtWaitSync, BuildWithdrawalMessages,
         SendExternalMessage, ExpWaitSync, SetExpiredError, TimePasses, MineBlock, Feed, Crash

\* Every step keeps the confirmations equal to what the saved blocks paid.
LEMMA ConfirmedIsPaidStep ==
    ASSUME TypeOK, Books, ConfirmedIsPaid, [Next]_vars
    PROVE  ConfirmedIsPaid'
<1>0. /\ 0 \notin blockData /\ Tip + 1 \notin blockData
      /\ paid \subseteq rows /\ rows \subseteq Msgs \X requests /\ failed \subseteq rows
  BY DEF TypeOK, FeedTypeOK, Tip
<1>1. CASE UNCHANGED <<confirmed, paid, minedIn, blockData, processed>>
  BY <1>1 DEF ConfirmedIsPaid, RequestsOf
<1>2. CASE SetExpired
  BY <1>1, <1>2 DEF SetExpired, feedVars, chainVars
<1>3. ASSUME NEW utime \in 0..now, NEW msgs \in SUBSET mempool,
             NEW out \in SUBSET {r \in rows : r[1] \in msgs}, MineBlock(utime, msgs, out)
      PROVE  ConfirmedIsPaid'
  <2>1. /\ UNCHANGED <<confirmed, blockData, processed>> /\ paid' = paid \cup out
        /\ \A m \in Msgs : minedIn'[m] = IF m \in msgs THEN Tip + 1 ELSE minedIn[m]
        /\ \A m \in msgs : minedIn[m] = 0
    BY <1>3 DEF MineBlock, ProduceBlock, Executable, dbVars
  <2>2. {r \in paid' : minedIn'[r[1]] \in blockData} = {r \in paid : minedIn[r[1]] \in blockData}
    <3>1. \A r \in rows : r[1] \in Msgs
      BY <1>0
    <3>2. \A r \in out : minedIn'[r[1]] = Tip + 1
      BY <1>3, <2>1, <3>1
    <3>3. \A r \in paid : minedIn'[r[1]] = minedIn[r[1]]
      BY <1>0, <2>1, <3>1 DEF Books
    <3> QED BY <1>0, <2>1, <3>2, <3>3
  <2> QED BY <2>1, <2>2 DEF ConfirmedIsPaid, RequestsOf
<1>4. CASE SaveParsedBlockData \/ SaveAcrossExpiry
  <2>1. CASE Commits
    <3>1. /\ blockData' = blockData \cup {scanning} /\ UNCHANGED <<paid, minedIn>>
          /\ confirmed' = confirmed \cup Payments(scanning)
          /\ processed' = processed \cup RequestsOf(Payments(scanning))
      BY <1>4, <2>1 DEF SaveParsedBlockData, SaveAcrossExpiry, ScanDone, chainVars
    <3>2. confirmed' = {r \in paid' : minedIn'[r[1]] \in blockData'}
      BY <3>1 DEF ConfirmedIsPaid, Payments
    <3>3. processed' = RequestsOf(confirmed')
      BY <3>1 DEF ConfirmedIsPaid, RequestsOf
    <3> QED BY <3>2, <3>3 DEF ConfirmedIsPaid, RequestsOf
  <2>2. CASE ~ Commits
    BY <1>1, <1>4, <2>2 DEF SaveParsedBlockData, SaveAcrossExpiry, ScanDone, chainVars
  <2> QED BY <2>1, <2>2
<1>5. CASE Feed
  BY <1>1, <1>5 DEF Feed, TrackerPoll, TrackerSend, TrackerFetchError, ScanError, ScanDone,
                    dbVars, chainVars
<1>6. CASE Crash \/ TimePasses
  BY <1>1, <1>6 DEF Crash, Restart, TimePasses, Tick, dbVars, chainVars
<1> QED BY <1>1, <1>2, <1>3, <1>4, <1>5, <1>6
     DEF Next, vars, feedVars, dbVars, chainVars, CreateWithdrawalRequest, ExtWaitSync,
         BuildWithdrawalMessages, CreateExternalWithdrawals, SendExternalMessage,
         ExpWaitSync, SetExpiredError

\* Every step keeps the failures of the saved blocks recorded.
LEMMA FailureIsRecordedStep ==
    ASSUME TypeOK, Books, FailureIsRecorded, [Next]_vars
    PROVE  FailureIsRecorded'
<1>0. /\ 0 \notin blockData /\ Tip + 1 \notin blockData
      /\ rows \subseteq Msgs \X requests
  BY DEF TypeOK, FeedTypeOK, Tip
<1>1. CASE /\ UNCHANGED <<rows, minedIn, blockData, paid>> /\ failed \subseteq failed'
  BY <1>1 DEF FailureIsRecorded, Failures
<1>2. CASE CreateExternalWithdrawals
  <2>1. /\ rows' = rows \cup ({built} \X batch) /\ extPc = "save"
        /\ UNCHANGED <<minedIn, blockData, failed, paid>>
    BY <1>2 DEF CreateExternalWithdrawals, feedVars, chainVars
  <2>2. minedIn[built] = 0
    BY <2>1 DEF Books, TypeOK
  <2> QED BY <1>0, <2>1, <2>2 DEF FailureIsRecorded, Failures
<1>3. ASSUME NEW utime \in 0..now, NEW msgs \in SUBSET mempool,
             NEW out \in SUBSET {r \in rows : r[1] \in msgs}, MineBlock(utime, msgs, out)
      PROVE  FailureIsRecorded'
  <2>1. /\ UNCHANGED <<rows, blockData, failed>> /\ paid \subseteq paid'
        /\ \A m \in Msgs : minedIn'[m] = IF m \in msgs THEN Tip + 1 ELSE minedIn[m]
    BY <1>3 DEF MineBlock, ProduceBlock, dbVars
  <2> QED BY <1>0, <2>1 DEF FailureIsRecorded, Failures
<1>4. CASE SaveParsedBlockData \/ SaveAcrossExpiry
  <2>1. CASE Commits
    <3>1. /\ blockData' = blockData \cup {scanning} /\ UNCHANGED <<rows, paid, minedIn>>
          /\ failed \cup Failures(scanning) \subseteq failed'
      BY <1>4, <2>1 DEF SaveParsedBlockData, SaveAcrossExpiry, ScanDone, chainVars
    <3> QED BY <3>1 DEF FailureIsRecorded, Failures
  <2>2. CASE ~ Commits
    BY <1>1, <1>4, <2>2 DEF SaveParsedBlockData, SaveAcrossExpiry, ScanDone, chainVars
  <2> QED BY <2>1, <2>2
<1>5. CASE Feed
  BY <1>1, <1>5 DEF Feed, TrackerPoll, TrackerSend, TrackerFetchError, ScanError, ScanDone,
                    dbVars, chainVars
<1>6. CASE Crash \/ TimePasses
  BY <1>1, <1>6 DEF Crash, Restart, TimePasses, Tick, dbVars, chainVars
<1> QED BY <1>1, <1>2, <1>3, <1>4, <1>5, <1>6
     DEF Next, vars, feedVars, dbVars, chainVars, CreateWithdrawalRequest, ExtWaitSync,
         BuildWithdrawalMessages, SendExternalMessage, ExpWaitSync, SetExpired, SetExpiredError

\* The inductive invariant of the tables, for every feed and every delay.
TablesInv == TypeOK /\ Books /\ OneOpenRow /\ ConfirmedIsPaid /\ FailureIsRecorded

\* The tables start empty and consistent.
LEMMA TablesInit == Init => TablesInv
<1> SUFFICES ASSUME Init PROVE TablesInv
  OBVIOUS
<1>1. TypeOK
  BY WithdrawalAssumption DEF Init, FeedInit, TypeOK, FeedTypeOK, Tip, Msgs
<1>2. Books /\ OneOpenRow /\ ConfirmedIsPaid /\ FailureIsRecorded
  BY DEF Init, Books, OneOpenRow, ConfirmedIsPaid, FailureIsRecorded, Failures, RequestsOf
<1> QED BY <1>1, <1>2 DEF TablesInv

\* TablesInv is inductive.
LEMMA TablesStep == TablesInv /\ [Next]_vars => TablesInv'
BY TypeStep, BooksStep, OneOpenRowStep, ConfirmedIsPaidStep, FailureIsRecordedStep
   DEF TablesInv

\* The invariant of the tables holds in every state.
LEMMA TablesAlways == Spec => []TablesInv
BY TablesInit, TablesStep, PTL DEF Spec

\* One message at a time stands for a request, and the flag of the request says
\* so, whatever fails, however late anything is and however the transactions of
\* scanner and expiration overlap.
THEOREM OneRowPerRequest == Spec => []OneOpenRow
<1>1. TablesInv => OneOpenRow
  BY DEF TablesInv
<1> QED BY <1>1, TablesAlways, PTL

\* What the tables call confirmed or processed is what the saved blocks paid:
\* no assumption about timing, and transactions that overlap.
THEOREM ConfirmationsAreTrue == Spec => []ConfirmedIsPaid
<1>1. TablesInv => ConfirmedIsPaid
  BY DEF TablesInv
<1> QED BY <1>1, TablesAlways, PTL

\* No payment that a saved block shows as not made stays open.
THEOREM FailuresAreRecorded == Spec => []FailureIsRecorded
<1>1. TablesInv => FailureIsRecorded
  BY DEF TablesInv
<1> QED BY <1>1, TablesAlways, PTL

\* The message of the last round is dead before the sleep that follows ends.
Overlap ==
    /\ \A m \in 1..built : ttl[m] <= now + ExternalMessageLifetime
    /\ extPc = "sleep" => \A m \in 1..built : ttl[m] < wakeAt

\* No message is built while an earlier one can still be executed.
THEOREM NoOverlap == Spec => []NoOverlappingMessages
<1>1. Init => Overlap
  BY DEF Init, Overlap
<1>2. TypeOK /\ Overlap /\ [Next]_vars => Overlap'
  <2> SUFFICES ASSUME TypeOK, Overlap, [Next]_vars PROVE Overlap'
    OBVIOUS
  <2>0. /\ now \in Nat /\ built \in Nat /\ \A m \in 1..built : m \in Msgs /\ ttl[m] \in Nat
        /\ ExternalMessageLifetime \in Nat /\ ExternalWithdrawalPeriod \in Nat
        /\ ExternalWithdrawalPeriod > ExternalMessageLifetime
    BY WithdrawalAssumption DEF TypeOK, FeedTypeOK, Msgs
  <2>1. CASE UNCHANGED <<built, ttl, now>> /\ (extPc' = "sleep" => UNCHANGED <<extPc, wakeAt>>)
    BY <2>1 DEF Overlap
  <2>2. CASE ExtWaitSync
    BY <2>0, <2>2 DEF ExtWaitSync, Overlap, feedVars
  <2>3. ASSUME NEW tasks \in SUBSET requests, BuildWithdrawalMessages(tasks) PROVE Overlap'
    <3>1. CASE tasks = {}
      BY <2>1, <2>3, <3>1 DEF BuildWithdrawalMessages, MessageTTL, feedVars
    <3>2. CASE tasks # {}
      <4>1. /\ built' = built + 1 /\ now' = now /\ extPc' = "save"
            /\ ttl' = [ttl EXCEPT ![built + 1] = now + ExternalMessageLifetime]
        BY <2>3, <3>2 DEF BuildWithdrawalMessages, MessageTTL, feedVars
      <4>2. built + 1 \in Msgs
        <5>1. built < MaxMsgs /\ MaxMsgs \in Nat
          BY <2>3, <3>2, WithdrawalAssumption DEF BuildWithdrawalMessages, MessageTTL
        <5> QED BY <2>0, <5>1 DEF Msgs
      <4> QED BY <2>0, <4>1, <4>2 DEF Overlap, TypeOK
    <3> QED BY <3>1, <3>2
  <2>4. CASE TimePasses
    BY <2>0, <2>4 DEF TimePasses, Tick, Overlap, procVars
  <2>5. CASE Feed \/ SaveParsedBlockData \/ SaveAcrossExpiry \/ Crash
    BY <2>1, <2>5 DEF Feed, TrackerPoll, TrackerSend, TrackerFetchError, ScanError, ScanDone,
                      SaveParsedBlockData, SaveAcrossExpiry, Crash, Restart, procVars
  <2>6. ASSUME NEW utime \in 0..now, NEW msgs, NEW out, MineBlock(utime, msgs, out)
        PROVE  Overlap'
    BY <2>1, <2>6 DEF MineBlock, ProduceBlock, procVars
  <2> QED BY <2>1, <2>2, <2>3, <2>4, <2>5, <2>6
       DEF Next, vars, feedVars, procVars, CreateWithdrawalRequest, CreateExternalWithdrawals,
           SendExternalMessage, ExpWaitSync, SetExpired, SetExpiredError
<1>3. TypeOK /\ Overlap => NoOverlappingMessages
  <2> SUFFICES ASSUME TypeOK, Overlap, NEW m \in 1..built, extPc = "sleep", wakeAt <= now
               PROVE  ttl[m] < now
    BY DEF NoOverlappingMessages
  <2>1. now \in Nat /\ wakeAt \in Nat /\ ttl[m] \in Nat /\ ttl[m] < wakeAt
    BY WithdrawalAssumption DEF TypeOK, FeedTypeOK, Msgs, Overlap
  <2> QED BY <2>1
<1> QED BY <1>1, <1>2, <1>3, Typed, PTL DEF Spec

\* The chain: gen_utime never decreases, and a message is executed in a block
\* that is not past its TTL.
ChainInv ==
    /\ \A i, j \in 1..Tip : i <= j => genUtime[i] <= genUtime[j]
    /\ \A m \in Msgs : minedIn[m] # 0 => genUtime[minedIn[m]] <= ttl[m]

\* Every step keeps the chain in order.
LEMMA ChainStep ==
    ASSUME TypeOK, Books, ChainInv, [Next]_vars
    PROVE  ChainInv'
<1>0. /\ Tip \in Nat \ {0} /\ genUtime \in Seq(Nat) /\ minedIn \in [Msgs -> 0..Tip]
      /\ ttl \in [Msgs -> Nat] /\ mempool \subseteq 1..built /\ built \in 0..MaxMsgs
      /\ \A i \in 1..Tip : genUtime[i] \in Nat
  BY DEF TypeOK, FeedTypeOK, Tip
<1>1. CASE UNCHANGED <<genUtime, minedIn, ttl>>
  BY <1>1 DEF ChainInv, Tip
<1>2. ASSUME NEW tasks \in SUBSET requests, BuildWithdrawalMessages(tasks) PROVE ChainInv'
  <2>1. CASE tasks = {}
    BY <1>1, <1>2, <2>1 DEF BuildWithdrawalMessages, MessageTTL, feedVars, chainVars
  <2>2. CASE tasks # {}
    <3>1. /\ ttl' = [ttl EXCEPT ![built + 1] = now + ExternalMessageLifetime]
          /\ UNCHANGED <<genUtime, minedIn>>
      BY <1>2, <2>2 DEF BuildWithdrawalMessages, MessageTTL, feedVars, chainVars
    <3>2. \A m \in Msgs : minedIn[m] # 0 => m # built + 1
      BY <1>0, WithdrawalAssumption DEF Books
    <3> QED BY <1>0, <3>1, <3>2 DEF ChainInv, Tip
  <2> QED BY <2>1, <2>2
<1>3. ASSUME NEW utime \in 0..now, NEW msgs \in SUBSET mempool,
             NEW out \in SUBSET {r \in rows : r[1] \in msgs}, MineBlock(utime, msgs, out)
      PROVE  ChainInv'
  <2>1. /\ genUtime' = Append(genUtime, utime) /\ genUtime[Tip] <= utime /\ ttl' = ttl
        /\ minedIn' = [m \in Msgs |-> IF m \in msgs THEN Tip + 1 ELSE minedIn[m]]
        /\ \A m \in msgs : utime <= ttl[m]
    BY <1>3 DEF MineBlock, ProduceBlock, Executable, procVars
  <2>2. utime \in Nat
    BY DEF TypeOK, FeedTypeOK
  <2>3. /\ Tip' = Tip + 1 /\ genUtime'[Tip + 1] = utime
        /\ \A i \in 1..Tip : genUtime'[i] = genUtime[i]
    BY <1>0, <2>1, <2>2 DEF Tip
  <2>4. \A i, j \in 1..Tip' : i <= j => genUtime'[i] <= genUtime'[j]
    <3> SUFFICES ASSUME NEW i \in 1..Tip', NEW j \in 1..Tip', i <= j
                 PROVE  genUtime'[i] <= genUtime'[j]
      OBVIOUS
    <3>1. CASE j = Tip + 1 /\ i # Tip + 1
      <4>1. i \in 1..Tip /\ genUtime[i] <= genUtime[Tip]
        BY <1>0, <2>3, <3>1 DEF ChainInv
      <4>2. genUtime'[i] = genUtime[i] /\ genUtime'[j] = utime
        BY <2>3, <3>1, <4>1
      <4>3. genUtime[i] \in Nat /\ genUtime[Tip] \in Nat
        BY <1>0, <4>1
      <4> QED BY <2>1, <2>2, <4>1, <4>2, <4>3
    <3>2. CASE j # Tip + 1
      BY <1>0, <2>3, <3>2 DEF ChainInv
    <3>3. CASE i = Tip + 1 /\ j = Tip + 1
      BY <2>2, <2>3, <3>3
    <3> QED BY <3>1, <3>2, <3>3
  <2>5. \A m \in Msgs : minedIn'[m] # 0 => genUtime'[minedIn'[m]] <= ttl'[m]
    <3> SUFFICES ASSUME NEW m \in Msgs, minedIn'[m] # 0
                 PROVE  genUtime'[minedIn'[m]] <= ttl[m]
      BY <2>1
    <3>1. CASE m \in msgs
      BY <2>1, <2>3, <3>1
    <3>2. CASE m \notin msgs
      <4>1. minedIn'[m] = minedIn[m] /\ minedIn[m] \in 1..Tip
        BY <1>0, <2>1, <3>2
      <4> QED BY <2>3, <4>1 DEF ChainInv
    <3> QED BY <3>1, <3>2
  <2> QED BY <2>4, <2>5 DEF ChainInv
<1>4. CASE Feed \/ SaveParsedBlockData \/ SaveAcrossExpiry \/ Crash \/ TimePasses
  BY <1>1, <1>4 DEF Feed, TrackerPoll, TrackerSend, TrackerFetchError, ScanError, ScanDone,
                    SaveParsedBlockData, SaveAcrossExpiry, Crash, Restart, TimePasses, Tick, procVars, chainVars
<1> QED BY <1>1, <1>2, <1>3, <1>4
     DEF Next, vars, feedVars, procVars, chainVars, CreateWithdrawalRequest, ExtWaitSync,
         CreateExternalWithdrawals, SendExternalMessage, ExpWaitSync, SetExpired, SetExpiredError

\* What makes expiration safe: when SetExpired runs, the last saved block is
\* no older than the allowed lag; and the message of a failed row either was
\* executed without paying it, or is past its TTL for every block to come.
ExpiryInv ==
    /\ expPc = "expire" => now - genUtime[GetLastSavedBlock] <= AllowableBlockchainLagging
    /\ \A r \in failed : minedIn[r[1]] = 0 => ttl[r[1]] < genUtime[Tip]
    /\ NoExpiredPayment

\* A row that SetExpired takes belongs to a message that no block, saved or
\* not, has executed and that none to come will.
LEMMA ExpiredUnmined ==
    ASSUME TablesInv, ChainInv, GapsAreYoung, ExpiryInv, expPc = "expire", NEW r \in Expired
    PROVE  minedIn[r[1]] = 0 /\ r \notin paid /\ ttl[r[1]] < genUtime[Tip]
<1> DEFINE n == GetLastSavedBlock
<1>0. /\ n \in 1..Tip /\ Tip \in Nat \ {0} /\ now \in Nat
      /\ AllowableBlockchainLagging \in Nat /\ \A i \in 1..Tip : genUtime[i] \in Nat
  <2>1. TypeOK /\ FeedTypeOK
    BY DEF TablesInv, TypeOK
  <2>2. n \in 1..Tip
    BY <2>1, LastSaved
  <2> QED BY <2>1, <2>2, FeedAssumption DEF FeedTypeOK, Tip
<1>1. /\ r \in rows /\ r \notin confirmed /\ r \notin failed
      /\ ttl[r[1]] < now - AllowableBlockchainLagging
  BY DEF Expired
<1>2. r[1] \in Msgs /\ ttl[r[1]] \in Nat /\ minedIn[r[1]] \in 0..Tip
  BY <1>1 DEF TablesInv, TypeOK
<1>3. ttl[r[1]] < genUtime[n]
  BY <1>0, <1>1, <1>2 DEF ExpiryInv
<1>4. ASSUME minedIn[r[1]] # 0 PROVE FALSE
  <2>1. minedIn[r[1]] \in 1..Tip /\ genUtime[minedIn[r[1]]] <= ttl[r[1]]
    BY <1>0, <1>2, <1>4 DEF ChainInv
  <2>2. minedIn[r[1]] < n
    <3>1. ASSUME n <= minedIn[r[1]] PROVE FALSE
      <4>1. genUtime[n] <= genUtime[minedIn[r[1]]]
        BY <1>0, <2>1, <3>1 DEF ChainInv
      <4> QED BY <1>0, <1>2, <1>3, <2>1, <4>1
    <3> QED BY <1>0, <2>1, <3>1
  <2>3. minedIn[r[1]] \in blockData
    <3>1. genUtime[minedIn[r[1]]] < now - AllowableBlockchainLagging
      BY <1>0, <1>1, <1>2, <2>1
    <3>2. IsExpired(genUtime[minedIn[r[1]]])
      BY <1>0, <2>1, <3>1 DEF IsExpired
    <3>3. minedIn[r[1]] \in 1..n
      BY <1>0, <2>1, <2>2
    <3> QED BY <3>2, <3>3 DEF GapsAreYoung
  <2>4. CASE r \in paid
    BY <1>1, <2>3, <2>4 DEF TablesInv, ConfirmedIsPaid
  <2>5. CASE r \notin paid
    BY <1>1, <2>3, <2>5 DEF TablesInv, FailureIsRecorded, Failures
  <2> QED BY <2>4, <2>5
<1>5. r \notin paid
  BY <1>4 DEF TablesInv, Books
<1>6. genUtime[n] <= genUtime[Tip]
  BY <1>0 DEF ChainInv
<1> QED BY <1>0, <1>2, <1>3, <1>4, <1>5, <1>6

\* A block saved while SetExpired commits: the rows that expire and the rows
\* of the block are different ones, so expiration stays safe.
LEMMA AcrossStep ==
    ASSUME TablesInv, ChainInv, GapsAreYoung, ExpiryInv, SaveAcrossExpiry
    PROVE  ExpiryInv'
<1> DEFINE F == Expired \cup Failures(scanning)
<1>1. /\ UNCHANGED <<genUtime, ttl, minedIn, paid>> /\ failed' = failed \cup F
      /\ expPc = "expire" /\ expPc' = "sync" /\ scanning # 0
  BY DEF SaveAcrossExpiry, ScanDone, procVars, chainVars
<1>2. \A r \in Expired : minedIn[r[1]] = 0 /\ r \notin paid /\ ttl[r[1]] < genUtime[Tip]
  BY <1>1, ExpiredUnmined
<1>3. F \cap paid = {} /\ \A r \in F : minedIn[r[1]] = 0 => ttl[r[1]] < genUtime[Tip]
  BY <1>1, <1>2 DEF Failures
<1> HIDE DEF F
<1>4. \A r \in failed' : minedIn'[r[1]] = 0 => ttl'[r[1]] < genUtime'[Tip']
  BY <1>1, <1>3 DEF ExpiryInv, Tip
<1>5. NoExpiredPayment'
  BY <1>1, <1>3 DEF ExpiryInv, NoExpiredPayment
<1> QED BY <1>1, <1>4, <1>5 DEF ExpiryInv

\* Every step keeps expiration safe if no gap in block_data is old and the
\* service stays in sync from waitSync to SetExpired.
LEMMA ExpiryStep ==
    ASSUME TablesInv, ChainInv, GapsAreYoung, ExpiryInv, [Next /\ KeepsSync]_vars
    PROVE  ExpiryInv'
<1> DEFINE n == GetLastSavedBlock
<1>0. /\ TypeOK /\ FeedTypeOK /\ n \in 1..Tip /\ n \in blockData /\ Tip \in Nat \ {0}
      /\ now \in Nat /\ AllowableBlockchainLagging \in Nat
      /\ \A i \in 1..Tip : genUtime[i] \in Nat
      /\ genUtime \in Seq(Nat) /\ minedIn \in [Msgs -> 0..Tip] /\ ttl \in [Msgs -> Nat]
      /\ \A r \in rows : r[1] \in Msgs
      /\ failed \subseteq rows /\ paid \subseteq rows
  <2>1. TypeOK /\ FeedTypeOK
    BY DEF TablesInv, TypeOK
  <2>2. n \in 1..Tip /\ n \in blockData
    BY <2>1, LastSaved
  <2>3. /\ now \in Nat /\ genUtime \in Seq(Nat) /\ Tip \in Nat
        /\ AllowableBlockchainLagging \in Nat
        /\ \A i \in 1..Tip : genUtime[i] \in Nat
    BY <2>1, FeedAssumption DEF FeedTypeOK, Tip
  <2>4. /\ minedIn \in [Msgs -> 0..Tip] /\ ttl \in [Msgs -> Nat]
        /\ \A r \in rows : r[1] \in Msgs
        /\ failed \subseteq rows /\ paid \subseteq rows
    BY <2>1 DEF TypeOK
  <2> QED BY <2>1, <2>2, <2>3, <2>4
<1>1. CASE /\ UNCHANGED <<now, genUtime, blockData, failed, minedIn, ttl, paid>>
           /\ expPc' = "expire" => expPc = "expire"
  BY <1>1 DEF ExpiryInv, NoExpiredPayment, GetLastSavedBlock, Tip
<1>2. ASSUME NEW tasks \in SUBSET requests, BuildWithdrawalMessages(tasks) PROVE ExpiryInv'
  <2>1. CASE tasks = {}
    BY <1>1, <1>2, <2>1 DEF BuildWithdrawalMessages, MessageTTL, feedVars, dbVars, expVars, chainVars
  <2>2. CASE tasks # {}
    <3>1. /\ ttl' = [ttl EXCEPT ![built + 1] = now + ExternalMessageLifetime]
          /\ UNCHANGED <<now, genUtime, blockData, failed, minedIn, paid, expPc>>
      BY <1>2, <2>2 DEF BuildWithdrawalMessages, MessageTTL, feedVars, dbVars, expVars, chainVars
    <3>2. \A r \in failed : r[1] # built + 1
      BY <1>0, WithdrawalAssumption DEF TablesInv, Books, TypeOK, Msgs
    <3>3. \A r \in failed : ttl'[r[1]] = ttl[r[1]]
      BY <1>0, <3>1, <3>2
    <3> QED BY <3>1, <3>3 DEF ExpiryInv, NoExpiredPayment, GetLastSavedBlock, Tip
  <2> QED BY <2>1, <2>2
<1>3. CASE ExpWaitSync
  <2>1. /\ UNCHANGED <<now, genUtime, blockData, failed, minedIn, ttl, paid>>
        /\ Synced
    BY <1>3 DEF ExpWaitSync, feedVars, dbVars, procVars, chainVars
  <2>2. now - genUtime[n] <= AllowableBlockchainLagging
    BY <1>0, <2>1 DEF Synced, IsExpired
  <2> QED BY <2>1, <2>2 DEF ExpiryInv, NoExpiredPayment, GetLastSavedBlock, Tip
<1>4. CASE SetExpired
  <2>1. /\ UNCHANGED <<now, genUtime, blockData, minedIn, ttl, paid>>
        /\ failed' = failed \cup Expired /\ expPc' = "sync" /\ expPc = "expire"
    BY <1>4 DEF SetExpired, feedVars, procVars, chainVars
  <2>2. \A r \in Expired : r \notin paid /\ ttl[r[1]] < genUtime[Tip]
    BY <2>1, ExpiredUnmined
  <2> QED BY <2>1, <2>2 DEF ExpiryInv, NoExpiredPayment, Tip
<1>5. CASE TimePasses
  <2>1. /\ UNCHANGED <<genUtime, blockData, failed, minedIn, ttl, paid, expPc>>
        /\ now' \in Nat
    BY <1>0, <1>5 DEF TimePasses, Tick, dbVars, procVars, expVars, chainVars
  <2>2. expPc' = "expire" => Synced'
    <3>1. expPc = "expire" => Synced
      BY <1>0 DEF ExpiryInv, Synced, IsExpired
    <3>2. KeepsSync
      <4>1. now' # now
        BY <1>0, <1>5 DEF TimePasses, Tick
      <4> QED BY <4>1 DEF vars, feedVars
    <3> QED BY <2>1, <3>1, <3>2 DEF KeepsSync
  <2>3. GetLastSavedBlock' = n
    BY <2>1 DEF GetLastSavedBlock
  <2>4. expPc' = "expire" =>
           now' - genUtime'[GetLastSavedBlock'] <= AllowableBlockchainLagging
    BY <1>0, <2>1, <2>2, <2>3 DEF Synced, IsExpired
  <2> QED BY <2>1, <2>4 DEF ExpiryInv, NoExpiredPayment, Tip
<1>6. ASSUME NEW utime \in 0..now, NEW msgs \in SUBSET mempool,
             NEW out \in SUBSET {r \in rows : r[1] \in msgs}, MineBlock(utime, msgs, out)
      PROVE  ExpiryInv'
  <2>1. /\ genUtime' = Append(genUtime, utime) /\ genUtime[Tip] <= utime
        /\ UNCHANGED <<now, blockData, ttl, failed, expPc>>
        /\ minedIn' = [m \in Msgs |-> IF m \in msgs THEN Tip + 1 ELSE minedIn[m]]
        /\ paid' = paid \cup out
        /\ \A m \in msgs : minedIn[m] = 0 /\ utime <= ttl[m]
    BY <1>6 DEF MineBlock, ProduceBlock, Executable, dbVars, procVars, expVars
  <2>2. utime \in Nat
    BY <1>0
  <2>3. /\ Tip' = Tip + 1 /\ genUtime'[Tip + 1] = utime
        /\ \A i \in 1..Tip : genUtime'[i] = genUtime[i]
    BY <1>0, <2>1, <2>2 DEF Tip
  <2>4. GetLastSavedBlock' = n /\ genUtime'[n] = genUtime[n]
    BY <1>0, <2>1, <2>3 DEF GetLastSavedBlock
  <2>5. ASSUME NEW r \in failed
        PROVE  r[1] \notin msgs /\ (minedIn'[r[1]] = 0 => ttl'[r[1]] < genUtime'[Tip'])
    <3>1. r[1] \in Msgs /\ ttl[r[1]] \in Nat /\ genUtime[Tip] \in Nat
      BY <1>0
    <3>2. r[1] \notin msgs
      BY <2>1, <2>2, <3>1 DEF ExpiryInv
    <3>3. minedIn'[r[1]] = minedIn[r[1]]
      BY <2>1, <3>1, <3>2
    <3>4. minedIn[r[1]] = 0 => ttl[r[1]] < utime
      BY <2>1, <2>2, <3>1 DEF ExpiryInv
    <3> QED BY <2>1, <2>3, <3>2, <3>3, <3>4
  <2>6. out \cap failed = {}
    BY <2>5
  <2>7. NoExpiredPayment'
    BY <2>1, <2>6 DEF ExpiryInv, NoExpiredPayment
  <2>8. expPc' = "expire" =>
           now' - genUtime'[GetLastSavedBlock'] <= AllowableBlockchainLagging
    BY <2>1, <2>4 DEF ExpiryInv
  <2> QED BY <2>1, <2>5, <2>7, <2>8 DEF ExpiryInv
<1>7. CASE SaveParsedBlockData
  <2>1. CASE Commits
    <3>1. /\ blockData' = blockData \cup {scanning} /\ scanning \notin blockData
          /\ scanning # 0
          /\ UNCHANGED <<now, genUtime, paid, minedIn, ttl, expPc>>
          /\ failed' = failed \cup Failures(scanning)
      BY <1>7, <2>1 DEF SaveParsedBlockData, ScanDone, Commits, NotSavedYet,
                        procVars, expVars, chainVars
    <3>2. scanning \in 1..Tip
      BY <1>0, <3>1 DEF FeedTypeOK
    <3>3. FeedTypeOK'
      BY <1>0, NextIsFeedStep, FeedTypeStep
    <3>4. GetLastSavedBlock' \in 1..Tip /\ n <= GetLastSavedBlock'
      <4>1. GetLastSavedBlock' \in 1..Tip' /\ \A c \in blockData' : c <= GetLastSavedBlock'
        <5>1. Tip' \in Nat /\ blockData' \in SUBSET (1..Tip') /\ blockData' # {}
          BY <3>3 DEF FeedTypeOK, Tip
        <5>2. \E b \in blockData' : \A c \in blockData' : c <= b
          BY <5>1, GreatestExists
        <5> QED BY <5>1, <5>2 DEF GetLastSavedBlock
      <4> QED BY <1>0, <3>1, <4>1 DEF Tip
    <3>5. genUtime[n] <= genUtime[GetLastSavedBlock']
      BY <1>0, <3>4 DEF ChainInv
    <3>6. expPc' = "expire" =>
             now' - genUtime'[GetLastSavedBlock'] <= AllowableBlockchainLagging
      <4>1. genUtime[n] \in Nat /\ genUtime[GetLastSavedBlock'] \in Nat
        BY <1>0, <3>4
      <4>2. expPc = "expire" =>
               now - genUtime[GetLastSavedBlock'] <= AllowableBlockchainLagging
        BY <1>0, <3>5, <4>1 DEF ExpiryInv
      <4> QED BY <3>1, <4>2
    <3>7. \A r \in Failures(scanning) : minedIn[r[1]] # 0 /\ r \notin paid
      BY <3>1 DEF Failures
    <3>8. \A r \in failed' : minedIn'[r[1]] = 0 => ttl'[r[1]] < genUtime'[Tip']
      BY <3>1, <3>7 DEF ExpiryInv, Tip
    <3>9. NoExpiredPayment'
      BY <3>1, <3>7 DEF ExpiryInv, NoExpiredPayment
    <3> QED BY <3>6, <3>8, <3>9 DEF ExpiryInv
  <2>2. CASE ~ Commits
    BY <1>1, <1>7, <2>2 DEF SaveParsedBlockData, ScanDone, procVars, expVars, chainVars
  <2> QED BY <2>1, <2>2
<1>8. CASE Feed \/ Crash
  BY <1>1, <1>8 DEF Feed, TrackerPoll, TrackerSend, TrackerFetchError, ScanError, ScanDone,
                    Crash, Restart, dbVars, procVars, expVars, chainVars
<1>9. CASE SaveAcrossExpiry
  BY <1>9, AcrossStep
<1> QED BY <1>1, <1>2, <1>3, <1>4, <1>5, <1>6, <1>7, <1>8, <1>9
     DEF Next, vars, feedVars, dbVars, procVars, expVars, chainVars, CreateWithdrawalRequest,
         ExtWaitSync, CreateExternalWithdrawals, SendExternalMessage, SetExpiredError

\* The inductive invariant of the service in timely runs.
PaymentInv == TablesInv /\ ChainInv /\ GapsAreYoung /\ ExpiryInv

\* PaymentInv holds at the start.
LEMMA PaymentInit == Init => PaymentInv
<1> SUFFICES ASSUME Init PROVE PaymentInv
  OBVIOUS
<1>1. TablesInv
  BY TablesInit
<1>2. ChainInv
  BY DEF Init, FeedInit, ChainInv, Tip
<1>3. GapsAreYoung
  <2>1. FeedTypeOK /\ blockData = {1} /\ Tip = 1
    BY <1>1 DEF Init, FeedInit, TablesInv, TypeOK, Tip
  <2>2. 1..GetLastSavedBlock = {1}
    BY <2>1, LastSaved
  <2> QED BY <2>1, <2>2 DEF GapsAreYoung
<1>4. ExpiryInv
  BY DEF Init, ExpiryInv, NoExpiredPayment
<1> QED BY <1>1, <1>2, <1>3, <1>4 DEF PaymentInv

\* PaymentInv is kept by every step of a timely run.
LEMMA PaymentStep ==
    ASSUME PaymentInv, [Next /\ GapsAreYoung' /\ KeepsSync]_vars
    PROVE  PaymentInv'
<1>1. GapsAreYoung'
  BY DEF PaymentInv, GapsAreYoung, GetLastSavedBlock, IsExpired, vars, feedVars
<1>2. [Next]_vars /\ TypeOK /\ Books
  BY DEF PaymentInv, TablesInv
<1>3. TablesInv' /\ ChainInv'
  BY <1>2, TablesStep, ChainStep DEF PaymentInv
<1>4. ExpiryInv'
  BY ExpiryStep DEF PaymentInv
<1> QED BY <1>1, <1>3, <1>4 DEF PaymentInv

\* PaymentInv holds in every state of a timely run.
LEMMA PaymentAlways == TimelySpec => []PaymentInv
BY PaymentInit, PaymentStep, PTL DEF TimelySpec

\* The expiration processor never fails a payment the chain has made, whatever
\* is lost and wherever the process dies, in the runs in which no gap in
\* block_data grows older than the allowed lag and the service stays in sync
\* from the return of waitSync to the clock reading of SetExpired.
THEOREM ExpiryIsSafe == TimelySpec => []NoExpiredPayment
<1>1. PaymentInv => NoExpiredPayment
  BY DEF PaymentInv, ExpiryInv
<1> QED BY <1>1, PaymentAlways, PTL

\* No double payment, in the same runs.
THEOREM NoDoublePayment == TimelySpec => []PaidAtMostOnce
<1>1. ASSUME PaymentInv PROVE PaidAtMostOnce
  <2>1. NoExpiredPayment /\ OneOpenRow /\ paid \subseteq rows
    BY <1>1 DEF PaymentInv, TablesInv, ExpiryInv, TypeOK
  <2> QED BY <2>1 DEF NoExpiredPayment, PaidAtMostOnce, OneOpenRow
<1> QED BY <1>1, PaymentAlways, PTL

\* A confirmed row has been paid, so in a timely run it has not failed.
LEMMA ConfirmedNotFailed == PaymentInv => ConfirmedOrFailed
BY DEF PaymentInv, TablesInv, ExpiryInv, ConfirmedIsPaid, NoExpiredPayment, ConfirmedOrFailed

\* In those runs the missing lock of UpdateExternalWithdrawal does no harm: the
\* rows that SetExpired fails while a block is being saved are not its rows.
THEOREM OverlapIsHarmless == TimelySpec => []ConfirmedOrFailed
BY ConfirmedNotFailed, PaymentAlways, PTL

\* The action property ConfirmedForever, in timely runs: a confirmation is
\* final and its request never enters another message.
THEOREM ConfirmedIsFinal == TimelySpec => ConfirmedForever
<1>1. ASSUME PaymentInv', [Next]_vars, NEW r \in confirmed
      PROVE  r \in confirmed' /\ r \notin failed' /\ r[2] \notin batch'
  <2>1. r \in confirmed'
    BY <1>1 DEF Next, vars, dbVars, CreateWithdrawalRequest, ExtWaitSync,
        BuildWithdrawalMessages, CreateExternalWithdrawals, SendExternalMessage, ExpWaitSync,
        SetExpired, SetExpiredError, TimePasses, MineBlock, Feed, SaveParsedBlockData,
        SaveAcrossExpiry, Crash
  <2>2. r \in rows' /\ r \notin failed'
    BY <1>1, <2>1, ConfirmedNotFailed DEF PaymentInv, TablesInv, TypeOK, ExpiryInv, NoExpiredPayment,
        ConfirmedIsPaid
  <2>3. r[2] \in processing'
    BY <1>1, <2>2 DEF PaymentInv, TablesInv, OneOpenRow, RequestsOf
  <2>4. r[2] \notin batch'
    BY <1>1, <2>3 DEF PaymentInv, TablesInv, Books
  <2> QED BY <2>1, <2>2, <2>4
<1>2. PaymentInv' /\ [Next /\ GapsAreYoung' /\ KeepsSync]_vars
        => [\A r \in confirmed : r \in confirmed' /\ r \notin failed' /\ r[2] \notin batch']_vars
  BY <1>1
<1> QED BY <1>2, PaymentAlways, PTL DEF TimelySpec, ConfirmedForever
----------------------------------------------------------------------------
(* The ledger                                                              *)

Paid == RequestsOf(paid)

\* What the four values of the status mean, in typed states.
LEMMA StatusMeans ==
    ASSUME TypeOK, NEW q
    PROVE  /\ StatusOf(q) = "paid"   <=> q \in Paid
           /\ StatusOf(q) = "sent"   <=> q \in processing \ Paid
           /\ StatusOf(q) = "queued" <=> q \in requests \ (processing \cup Paid)
           /\ StatusOf(q) = "absent" <=> q \notin requests
           /\ StatusOf(q) \in {"paid", "sent", "queued", "absent"}
<1>1. Paid \subseteq requests /\ processing \subseteq requests
  BY DEF TypeOK, Paid, RequestsOf
<1>2. CASE q \in Paid
  BY <1>1, <1>2 DEF StatusOf, Paid
<1>3. CASE q \in processing \ Paid
  BY <1>1, <1>3 DEF StatusOf, Paid
<1>4. CASE q \in requests \ (processing \cup Paid)
  BY <1>1, <1>4 DEF StatusOf, Paid
<1>5. CASE q \notin requests
  BY <1>1, <1>5 DEF StatusOf, Paid
<1> QED BY <1>1, <1>2, <1>3, <1>4, <1>5

\* A paid request has its row still open, so it counts as processing.
LEMMA PaidIsProcessing ==
    ASSUME PaymentInv
    PROVE  Paid \subseteq processing
<1>1. paid \subseteq rows \ failed /\ processing = RequestsOf(rows \ failed)
  BY DEF PaymentInv, TablesInv, TypeOK, ExpiryInv, NoExpiredPayment, OneOpenRow
<1> QED BY <1>1 DEF Paid, RequestsOf

\* The request of an open row that is not paid is not paid by another row.
LEMMA OpenUnpaid ==
    ASSUME PaymentInv, NEW F \in SUBSET (rows \ failed), F \cap paid = {}
    PROVE  RequestsOf(F) \subseteq processing \ Paid
<1>1. /\ paid \subseteq rows \ failed /\ rows \subseteq Msgs \X requests /\ OneOpenRow
  BY DEF PaymentInv, TablesInv, TypeOK, ExpiryInv, NoExpiredPayment
<1>2. RequestsOf(F) \subseteq processing
  BY <1>1 DEF OneOpenRow, RequestsOf
<1>3. ASSUME NEW r \in F, NEW s \in paid, r[2] = s[2] PROVE FALSE
  <2>1. r[1] = s[1]
    BY <1>1, <1>3 DEF OneOpenRow
  <2>2. r = <<r[1], r[2]>> /\ s = <<s[1], s[2]>>
    BY <1>1
  <2> QED BY <1>3, <2>1, <2>2
<1> QED BY <1>2, <1>3 DEF Paid, RequestsOf

\* Releasing open, unpaid rows and reporting paid ones is a Settle of the ledger.
LEMMA ReleaseIsSettle ==
    ASSUME PaymentInv, PaymentInv', NEW F \in SUBSET (rows \ failed), F \cap paid = {},
           NEW R \in SUBSET paid, UNCHANGED <<requests, rows, paid>>,
           processing' = processing \ RequestsOf(F),
           processed' = processed \cup RequestsOf(R)
    PROVE  Ledger!LedgerNext
<1> DEFINE Q == RequestsOf(F)
<1>0. TypeOK /\ TypeOK' /\ requests \subseteq Requests /\ Paid' = Paid /\ Paid \subseteq requests
  BY DEF PaymentInv, TablesInv, TypeOK, Paid, RequestsOf
<1>1. Q \subseteq processing \ Paid /\ processing \subseteq requests
  BY <1>0, OpenUnpaid DEF TypeOK
<1>2. RequestsOf(R) \subseteq Paid
  BY DEF RequestsOf, Paid
<1>3. \A q \in Q : StatusOf(q) = "sent"
  BY <1>0, <1>1, StatusMeans
<1>4. \A q \in RequestsOf(R) : StatusOf(q) = "paid"
  BY <1>0, <1>2, StatusMeans
<1>5. ASSUME NEW q \in Requests
      PROVE  StatusOf(q)' = IF q \in Q THEN "queued" ELSE StatusOf(q)
  <2>1. q \in Q => q \in requests' \ (processing' \cup Paid')
    BY <1>0, <1>1
  <2>2. q \notin Q => (q \in processing' <=> q \in processing)
    OBVIOUS
  <2> HIDE DEF Q
  <2> QED BY <1>0, <2>1, <2>2 DEF StatusOf, Paid
<1>6. Ledger!Move(Q, "sent", "queued")
  BY <1>0, <1>1, <1>3, <1>5 DEF Ledger!Move
<1>7. Q \in SUBSET Requests /\ RequestsOf(R) \in SUBSET Requests
  BY <1>0, <1>1, <1>2
<1>8. Ledger!Settle(Q, RequestsOf(R))
  BY <1>0, <1>2, <1>4, <1>6 DEF Ledger!Settle
<1> QED BY <1>7, <1>8 DEF Ledger!LedgerNext

\* The payments of a block are a Pay of the ledger: each request is paid by one
\* message, and for the first time.
LEMMA MineIsPay ==
    ASSUME PaymentInv, PaymentInv', NEW utime \in 0..now, NEW msgs \in SUBSET mempool,
           NEW out \in SUBSET {r \in rows : r[1] \in msgs}, MineBlock(utime, msgs, out)
    PROVE  Ledger!LedgerNext
<1> DEFINE Q == RequestsOf(out)
           Payers(q) == {r[1] : r \in {s \in paid : s[2] = q}}
           by == [q \in Q |-> CHOOSE m \in Msgs : <<m, q>> \in out]
<1>0. /\ TypeOK /\ TypeOK' /\ requests \subseteq Requests /\ rows \subseteq Msgs \X requests
      /\ UNCHANGED <<requests, processing, processed, rows, failed>>
      /\ paid' = paid \cup out /\ \A m \in msgs : minedIn[m] = 0
  BY DEF PaymentInv, TablesInv, TypeOK, MineBlock, Executable, dbVars
<1>1. out \cap paid = {}
  BY <1>0 DEF PaymentInv, TablesInv, Books
<1>2. out \subseteq rows \ failed
  BY <1>0 DEF PaymentInv, ExpiryInv, NoExpiredPayment
<1>3. Q \subseteq processing \ Paid /\ processing \subseteq requests
  BY <1>0, <1>1, <1>2, OpenUnpaid DEF TypeOK
<1>4. Paid' = Paid \cup Q
  BY <1>0 DEF Paid, RequestsOf
<1>5. \A q \in Q : StatusOf(q) = "sent"
  BY <1>0, <1>3, StatusMeans
<1>6. ASSUME NEW q \in Requests
      PROVE  StatusOf(q)' = IF q \in Q THEN "paid" ELSE StatusOf(q)
  <2> HIDE DEF Q
  <2>0. requests' = requests /\ processing' = processing
    BY <1>0
  <2>1. CASE q \in Q
    <3>1. q \in Paid'
      BY <1>4, <2>1
    <3> QED BY <2>1, <3>1 DEF StatusOf, Paid
  <2>2. CASE q \notin Q
    <3>1. q \in Paid' <=> q \in Paid
      BY <1>4, <2>2
    <3> QED BY <2>0, <2>2, <3>1 DEF StatusOf, Paid
  <2> QED BY <2>1, <2>2
<1>7. Ledger!Move(Q, "sent", "paid")
  BY <1>0, <1>3, <1>5, <1>6 DEF Ledger!Move
<1>8. \A q \in Q : Payers(q) = {}
  BY <1>3 DEF Paid, RequestsOf
<1>9. \A r \in out : r = <<r[1], r[2]>> /\ r[1] \in Msgs
  BY <1>0
<1>10. ASSUME NEW q \in Q
       PROVE  by[q] \in Msgs /\ <<by[q], q>> \in out
  <2>1. \E m \in Msgs : <<m, q>> \in out
    BY <1>9 DEF RequestsOf
  <2> QED BY <2>1
<1>11. by \in [Q -> Msgs]
  BY <1>10
<1>12. ASSUME NEW q \in Requests
       PROVE  Payers(q)' = IF q \in Q THEN {by[q]} ELSE Payers(q)
  <2>1. CASE q \in Q
    <3> HIDE DEF by
    <3>1. <<by[q], q>> \in paid' /\ <<by[q], q>> \in out
      BY <1>0, <1>10, <2>1
    <3>2. \A s \in paid' : s[2] = q => s[1] = by[q]
      <4>1. \A s \in paid : s[2] # q
        BY <1>3, <2>1 DEF Paid, RequestsOf
      <4>2. \A s \in out : s[2] = q => s[1] = by[q]
        BY <1>2, <3>1 DEF PaymentInv, TablesInv, OneOpenRow
      <4> QED BY <1>0, <4>1, <4>2
    <3>3. <<by[q], q>>[1] = by[q] /\ <<by[q], q>>[2] = q
      OBVIOUS
    <3> QED BY <2>1, <3>1, <3>2, <3>3
  <2>2. CASE q \notin Q
    <3>1. \A r \in out : r[2] # q
      BY <2>2 DEF RequestsOf
    <3> QED BY <1>0, <2>2, <3>1
  <2> QED BY <2>1, <2>2
<1>13. [q \in Requests |-> Payers(q)]' =
          [q \in Requests |-> IF q \in Q THEN {by[q]} ELSE [p \in Requests |-> Payers(p)][q]]
  BY <1>12
<1>14. Q \in SUBSET Requests
  BY <1>0, <1>3
<1>15. Ledger!Pay(Q)
  BY <1>0, <1>7, <1>8, <1>11, <1>13, <1>14 DEF Ledger!Pay
<1> QED BY <1>14, <1>15 DEF Ledger!LedgerNext

\* Every other step of the service is a step of the ledger or none.
LEMMA StepIsLedgerStep ==
    ASSUME PaymentInv, PaymentInv', [Next]_vars
    PROVE  [Ledger!LedgerNext]_Ledger!ledger
<1>0. TypeOK /\ TypeOK' /\ requests \subseteq Requests /\ batch \subseteq requests
  BY DEF PaymentInv, TablesInv, TypeOK
<1>1. CASE UNCHANGED <<requests, processing, processed, paid>>
  BY <1>1 DEF Ledger!ledger, StatusOf, RequestsOf
<1>2. ASSUME NEW q \in Requests, CreateWithdrawalRequest(q) PROVE Ledger!LedgerNext
  <2>1. /\ q \notin requests /\ requests' = requests \cup {q}
        /\ UNCHANGED <<processing, processed, paid>>
    BY <1>2 DEF CreateWithdrawalRequest, chainVars
  <2>2. Paid' = Paid /\ Paid \subseteq requests /\ processing \subseteq requests
    BY <1>0, <2>1 DEF Paid, RequestsOf, TypeOK
  <2>3. StatusOf(q) = "absent"
    BY <1>0, <2>1, StatusMeans
  <2>4. \A p \in Requests : StatusOf(p)' = IF p \in {q} THEN "queued" ELSE StatusOf(p)
    BY <2>1, <2>2 DEF StatusOf, Paid
  <2>5. Ledger!Move({q}, "absent", "queued")
    BY <2>3, <2>4 DEF Ledger!Move
  <2>6. Ledger!Order(q)
    BY <2>1, <2>5 DEF Ledger!Order
  <2> QED BY <2>6 DEF Ledger!LedgerNext
<1>3. CASE CreateExternalWithdrawals
  <2>1. processing' = processing \cup batch /\ UNCHANGED <<requests, processed, paid>>
    BY <1>3 DEF CreateExternalWithdrawals, chainVars
  <2>2. batch \cap processing = {} /\ Paid \subseteq processing /\ Paid' = Paid
    BY <2>1, PaidIsProcessing DEF PaymentInv, TablesInv, Books, Paid, RequestsOf
  <2>3. \A q \in batch : StatusOf(q) = "queued"
    BY <1>0, <2>2, StatusMeans
  <2>4. \A p \in Requests : StatusOf(p)' = IF p \in batch THEN "sent" ELSE StatusOf(p)
    BY <1>0, <2>1, <2>2 DEF StatusOf, Paid
  <2>5. Ledger!Move(batch, "queued", "sent")
    BY <1>0, <2>3, <2>4 DEF Ledger!Move
  <2>6. Ledger!Dispatch(batch) /\ batch \in SUBSET Requests
    BY <1>0, <2>1, <2>5 DEF Ledger!Dispatch
  <2> QED BY <2>6 DEF Ledger!LedgerNext
<1>4. CASE SetExpired
  <2>1. Expired \subseteq rows \ failed /\ Expired \cap paid = {}
    BY <1>4, ExpiredUnmined DEF PaymentInv, SetExpired, Expired
  <2>2. processed' = processed \cup RequestsOf({})
    BY <1>4 DEF SetExpired, RequestsOf
  <2>3. UNCHANGED <<requests, rows, paid>> /\ processing' = processing \ RequestsOf(Expired)
    BY <1>4 DEF SetExpired, chainVars
  <2>4. {} \in SUBSET paid
    OBVIOUS
  <2> QED BY <2>1, <2>2, <2>3, <2>4, ReleaseIsSettle
<1>5. CASE SaveParsedBlockData
  <2>1. CASE Commits
    <3>1. Failures(scanning) \subseteq rows \ failed /\ Failures(scanning) \cap paid = {}
      BY <2>1 DEF Commits, NoneFailed, Events, Failures
    <3>2. Payments(scanning) \in SUBSET paid
      BY DEF Payments
    <3>3. /\ UNCHANGED <<requests, rows, paid>>
          /\ processing' = processing \ RequestsOf(Failures(scanning))
          /\ processed' = processed \cup RequestsOf(Payments(scanning))
      BY <1>5, <2>1 DEF SaveParsedBlockData, chainVars
    <3> QED BY <3>1, <3>2, <3>3, ReleaseIsSettle
  <2>2. CASE ~ Commits
    BY <1>1, <1>5, <2>2 DEF SaveParsedBlockData, chainVars
  <2> QED BY <2>1, <2>2
<1>6. CASE SaveAcrossExpiry
  <2> DEFINE F == Expired \cup Failures(scanning)
  <2>1. Expired \subseteq rows \ failed /\ Expired \cap paid = {}
    BY <1>6, ExpiredUnmined DEF PaymentInv, SaveAcrossExpiry, Expired
  <2>2. Failures(scanning) \subseteq rows \ failed /\ Failures(scanning) \cap paid = {}
    BY <1>6 DEF SaveAcrossExpiry, Commits, NoneFailed, Events, Failures
  <2>3. F \in SUBSET (rows \ failed) /\ F \cap paid = {}
    BY <2>1, <2>2
  <2>4. Payments(scanning) \in SUBSET paid
    BY DEF Payments
  <2>5. /\ UNCHANGED <<requests, rows, paid>>
        /\ processing' = processing \ RequestsOf(F)
        /\ processed' = processed \cup RequestsOf(Payments(scanning))
    BY <1>6 DEF SaveAcrossExpiry, chainVars
  <2> HIDE DEF F
  <2> QED BY <2>3, <2>4, <2>5, ReleaseIsSettle
<1>7. ASSUME NEW utime \in 0..now, NEW msgs \in SUBSET mempool,
             NEW out \in SUBSET {r \in rows : r[1] \in msgs}, MineBlock(utime, msgs, out)
      PROVE  Ledger!LedgerNext
  BY <1>7, MineIsPay
<1>8. CASE ExtWaitSync \/ ExpWaitSync \/ SetExpiredError \/ TimePasses \/ Feed \/ Crash
             \/ UNCHANGED vars
  BY <1>1, <1>8 DEF ExtWaitSync, ExpWaitSync, SetExpiredError, TimePasses, Feed, Crash,
                    vars, dbVars, chainVars
<1>9. ASSUME NEW tasks, BuildWithdrawalMessages(tasks)
      PROVE  UNCHANGED <<requests, processing, processed, paid>>
  BY <1>9 DEF BuildWithdrawalMessages, dbVars, chainVars
<1>10. ASSUME NEW delivered, SendExternalMessage(delivered)
       PROVE  UNCHANGED <<requests, processing, processed, paid>>
  BY <1>10 DEF SendExternalMessage, dbVars
<1> QED BY <1>1, <1>2, <1>3, <1>4, <1>5, <1>6, <1>7, <1>8, <1>9, <1>10 DEF Next

\* The service implements the ledger, in the runs in which no gap in block_data
\* grows old and the service stays in sync from waitSync to SetExpired: a request
\* that is released has not been paid and will not be by its old message, every payment
\* is the first of its request, and only paid requests are reported.
THEOREM LedgerImplemented == TimelySpec => ImplementsLedger
<1>1. Init => Ledger!LedgerInit
  BY DEF Init, Ledger!LedgerInit, StatusOf, RequestsOf
<1>2. PaymentInv /\ PaymentInv' /\ [Next /\ GapsAreYoung' /\ KeepsSync]_vars
        => [Ledger!LedgerNext]_Ledger!ledger
  BY StepIsLedgerStep
<1> QED BY <1>1, <1>2, PaymentAlways, PTL DEF TimelySpec, ImplementsLedger, Ledger!LedgerSpec
============================================================================
