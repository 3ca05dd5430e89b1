------------------------ MODULE NotificationsProofs ------------------------
(***************************************************************************)
(* Theorems about Notifications, for every value of its constants: every    *)
(* number of notificators, attempts and incomes, and every failure.         *)
(***************************************************************************)
EXTENDS Notifications, BlockFeedProofs

\* the number of notificators
Width == Len(Notificators)

\* A division by the number of notificators has one result.
LEMMA DivisionUnique ==
    ASSUME NEW L \in Nat \ {0}, NEW a \in Nat, NEW r \in 0..(L - 1)
    PROVE  /\ (a * L + r) \div L = a
           /\ (a * L + r) % L = r
<1> DEFINE x == a * L + r
           d == x \div L
           m == x % L
<1>1. x \in Nat
  OBVIOUS
<1>2. d \in Int /\ m \in 0..(L - 1) /\ x = L * d + m
  <2> HIDE DEF x
  <2> QED BY <1>1
<1>3. d = a
  <2> HIDE DEF d, m
  <2>1. CASE d >= a + 1
    <3>1. L * d >= L * (a + 1)
      BY <1>2, <2>1
    <3>2. L * (a + 1) = L * a + L
      OBVIOUS
    <3> QED BY <1>2, <3>1, <3>2
  <2>2. CASE d <= a - 1
    <3>1. L * d <= L * (a - 1)
      BY <1>2, <2>2
    <3>2. L * (a - 1) = L * a - L
      OBVIOUS
    <3> QED BY <1>2, <3>1, <3>2
  <2> QED BY <1>2, <2>1, <2>2
<1>4. m = r
  <2> HIDE DEF d, m
  <2> QED BY <1>2, <1>3
<1> QED BY <1>3, <1>4

\* Every step moves the feed by FeedStep.
LEMMA NextIsFeedStep ==
    ASSUME FeedTypeOK, [Next]_vars
    PROVE  FeedStep
<1>1. now \in Nat /\ faults \in Nat
  BY DEF FeedTypeOK
<1>2. CASE UNCHANGED feedVars
  BY <1>1, <1>2 DEF FeedStep, feedVars
<1>3. ASSUME NEW utime \in 0..now, NEW n, MineBlock(utime, n) PROVE FeedStep
  <2>1. ProduceBlock(utime) /\ utime \in Nat
    BY <1>1, <1>3 DEF MineBlock
  <2> QED BY <2>1 DEF FeedStep
<1>4. CASE TimePasses \/ Poll \/ Offer \/ AbandonWalk \/ Crash
  BY <1>4 DEF TimePasses, Poll, Offer, AbandonWalk, Crash, FeedStep
<1>5. ASSUME ScanDone(FALSE), faults' \in Nat PROVE FeedStep
  BY <1>5 DEF FeedStep
<1>6. CASE ReadError \/ PublishQueueError \/ SaveError
  <2>1. ScanDone(FALSE) /\ Fault("scan")
    BY <1>6 DEF ReadError, PublishQueueError, SaveError, Drop
  <2>2. faults' \in Nat
    BY <1>1, <2>1 DEF Fault
  <2> QED BY <1>5, <2>1, <2>2
<1>7. CASE WebhookFails
  <2>1. faults' \in Nat
    BY <1>1, <1>7 DEF WebhookFails, Fault
  <2>2. CASE attempt + 1 < Attempts
    BY <1>7, <2>1, <2>2 DEF WebhookFails, FeedStep
  <2>3. CASE ~ (attempt + 1 < Attempts)
    <3>1. ScanDone(FALSE)
      BY <1>7, <2>3 DEF WebhookFails, AttemptsEnded, Drop
    <3> QED BY <1>5, <2>1, <3>1
  <2> QED BY <2>2, <2>3
<1>8. CASE SaveBlock
  <2>1. faults' \in Nat
    BY <1>1, <1>8 DEF SaveBlock
  <2>2. ScanDone(NotSavedYet) \/ ScanDone(FALSE)
    BY <1>8 DEF SaveBlock, Drop
  <2> QED BY <2>1, <2>2 DEF FeedStep, NotSavedYet
<1>9. CASE ReadBlock \/ PublishQueue \/ PublishWebhook
  BY <1>2, <1>9 DEF ReadBlock, PublishQueue, PublishWebhook
<1> QED BY <1>2, <1>3, <1>4, <1>6, <1>7, <1>8, <1>9 DEF Next, vars

\* The types, with the number of incomes of a block.
Types == FeedTypeOK /\ TypeOK /\ incomes \in Seq(0..MaxIncomes)

\* A block of the chain has its number of incomes.
LEMMA IncomesTyped ==
    ASSUME Types
    PROVE  Len(incomes) = Tip /\ \A b \in 1..Tip : incomes[b] \in Nat /\ incomes[b] <= MaxIncomes
<1>1. incomes \in Seq(0..MaxIncomes) /\ DOMAIN incomes = 1..Tip /\ Tip \in Nat
  BY DEF Types, TypeOK, FeedTypeOK, Tip
<1>2. Len(incomes) = Tip
  BY <1>1
<1>3. \A b \in 1..Tip : incomes[b] \in 0..MaxIncomes
  <2> DEFINE S == 0..MaxIncomes
  <2>1. incomes \in Seq(S)
    BY <1>1
  <2> HIDE DEF S
  <2>2. \A b \in 1..Len(incomes) : incomes[b] \in S
    BY <2>1
  <2> QED BY <1>2, <2>2 DEF S
<1> QED BY <1>2, <1>3, NotificationAssumption

\* A scan that ends, with or without a row, leaves the scanner waiting and typed.
LEMMA ScanEnds ==
    ASSUME Types, FeedTypeOK', NEW commits \in BOOLEAN, ScanDone(commits), Waiting,
           incomes' = incomes, undelivered' \subseteq undelivered \cup {scanning},
           dropped' \subseteq dropped \cup {scanning}, skipped' = skipped
    PROVE  Types'
<1>1. scanning \in 1..Tip /\ scanning' = 0 /\ genUtime' = genUtime
  BY DEF ScanDone, Types, FeedTypeOK, Tip
<1>2. 0 \in 0..(Attempts - 1)
  BY NotificationAssumption
<1> QED BY <1>1, <1>2 DEF Types, TypeOK, Waiting, Tip

\* Every step keeps the types.
LEMMA TypesStep ==
    ASSUME Types, [Next]_vars
    PROVE  Types'
<1>0. /\ FeedTypeOK /\ FeedTypeOK' /\ Tip \in Nat /\ 0 \in 0..(Attempts - 1)
      /\ Attempts \in Nat /\ Width \in Nat
  <2>1. FeedTypeOK /\ FeedTypeOK'
    BY NextIsFeedStep, FeedTypeStep DEF Types
  <2>2. Tip \in Nat
    BY <2>1 DEF FeedTypeOK, Tip
  <2>3. Attempts \in Nat \ {0} /\ Width \in Nat
    BY NotificationAssumption DEF Width
  <2> QED BY <2>1, <2>2, <2>3
<1>1. ASSUME NEW utime \in 0..now, NEW n \in 0..MaxIncomes, MineBlock(utime, n)
      PROVE  Types'
  <2>1. /\ incomes' = Append(incomes, n) /\ genUtime' = Append(genUtime, utime)
        /\ UNCHANGED <<scanning, stage, pushed, attempt, elapsed, undelivered, dropped, skipped>>
    BY <1>1 DEF MineBlock, ProduceBlock, scanVars, lossVars
  <2>2. genUtime \in Seq(Nat) /\ utime \in Nat /\ incomes \in Seq(0..MaxIncomes)
    BY DEF Types, FeedTypeOK
  <2>3. Len(incomes) = Tip
    BY IncomesTyped
  <2>4. Tip' = Tip + 1 /\ DOMAIN incomes' = 1..(Tip + 1) /\ incomes' \in Seq(0..MaxIncomes)
    BY <2>1, <2>2, <2>3 DEF Tip
  <2>5. stage = "push" => incomes'[scanning] = incomes[scanning]
    <3>1. stage = "push" => scanning \in 1..Tip
      BY <1>0 DEF Types, TypeOK, FeedTypeOK
    <3>2. \A b \in 1..Len(incomes) : Append(incomes, n)[b] = incomes[b]
      BY <2>2
    <3> QED BY <2>1, <2>3, <3>1, <3>2
  <2>6. (undelivered \cup dropped \cup skipped)' \subseteq 1..Tip'
    BY <1>0, <2>1, <2>4 DEF Types, TypeOK
  <2> QED BY <1>0, <2>1, <2>4, <2>5, <2>6 DEF Types, TypeOK, Total
<1>2. CASE TimePasses \/ Poll \/ AbandonWalk
  BY <1>0, <1>2 DEF TimePasses, Tick, Poll, TrackerPoll, AbandonWalk, TrackerFetchError,
                    Types, TypeOK, Total, Tip, scanVars, lossVars
<1>3. CASE Offer
  BY <1>0, <1>3 DEF Offer, TrackerSend, Types, TypeOK, Total, Tip, lossVars
<1>4. CASE ReadBlock
  <2>1. stage = "read" /\ scanning \in 1..Tip /\ incomes[scanning] \in Nat
    BY <1>0, <1>4, IncomesTyped DEF ReadBlock, Types, TypeOK, FeedTypeOK
  <2>2. Total \in Nat /\ Total' = Total
    BY <1>0, <1>4, <2>1 DEF Total, ReadBlock, feedVars, Width
  <2> QED BY <1>0, <1>4, <2>1, <2>2 DEF ReadBlock, Types, TypeOK, Tip, feedVars, lossVars
<1>5. ASSUME ScanDone(FALSE), Drop, UNCHANGED <<incomes, skipped>>,
             undelivered' \subseteq undelivered \cup {scanning}
      PROVE  Types'
  <2>1. dropped' \subseteq dropped \cup {scanning} /\ Waiting
    BY <1>5 DEF Drop
  <2> QED BY <1>0, <1>5, <2>1, ScanEnds
<1>6. CASE ReadError \/ PublishQueueError \/ SaveError
  BY <1>5, <1>6 DEF ReadError, PublishQueueError, SaveError, Drop
<1>7. CASE PublishQueue \/ PublishWebhook
  <2>1. /\ stage = "push" /\ stage' = "push" /\ pushed < Total /\ pushed' = pushed + 1
        /\ attempt' = 0 /\ UNCHANGED <<genUtime, scanning, incomes, undelivered, dropped, skipped>>
    BY <1>7 DEF PublishQueue, PublishWebhook, Accept, feedVars, lossVars
  <2>2. scanning \in 1..Tip /\ incomes[scanning] \in Nat
    BY <1>0, <2>1, IncomesTyped DEF Types, TypeOK, FeedTypeOK
  <2>3. Total \in Nat /\ Total' = Total
    BY <1>0, <2>1, <2>2 DEF Total, Width
  <2> QED BY <1>0, <2>1, <2>3 DEF Types, TypeOK, Tip
<1>8. CASE WebhookFails
  <2>1. CASE attempt + 1 < Attempts
    BY <1>0, <1>8, <2>1 DEF WebhookFails, Types, TypeOK, Total, Tip
  <2>2. CASE ~ (attempt + 1 < Attempts)
    BY <1>5, <1>8, <2>2 DEF WebhookFails, AttemptsEnded, Drop
  <2> QED BY <2>1, <2>2
<1>9. CASE SaveBlock
  <2>1. CASE elapsed < ScanTimeout
    <3>1. ScanDone(NotSavedYet) /\ Waiting /\ dropped' \subseteq dropped \cup {scanning}
          /\ UNCHANGED <<incomes, undelivered, skipped>> /\ NotSavedYet \in BOOLEAN
      BY <1>9, <2>1 DEF SaveBlock, NotSavedYet
    <3> QED BY <1>0, <3>1, ScanEnds
  <2>2. CASE ~ (elapsed < ScanTimeout)
    BY <1>5, <1>9, <2>2 DEF SaveBlock, Drop
  <2> QED BY <2>1, <2>2
<1>10. CASE Crash
  <2>1. lastKnown' \in 1..Tip /\ genUtime' = genUtime /\ scanning' = 0
    BY <1>0, <1>10, LastSaved DEF Crash, Restart
  <2>2. skipped' \subseteq 1..Tip
    BY <1>0, <1>10, <2>1 DEF Crash, Types, TypeOK
  <2> QED BY <1>0, <1>10, <2>1, <2>2 DEF Crash, Waiting, Types, TypeOK, Tip
<1>11. CASE UNCHANGED vars
  BY <1>0, <1>11 DEF vars, feedVars, scanVars, lossVars, Types, TypeOK, Total, Tip
<1> QED BY <1>1, <1>2, <1>3, <1>4, <1>6, <1>7, <1>8, <1>9, <1>10, <1>11 DEF Next

\* The types hold at the start.
LEMMA TypesInit == Init => Types
BY NotificationAssumption DEF Init, FeedInit, Types, TypeOK, FeedTypeOK, Tip

\* The scanner is typed in every state: it is idle exactly while it holds no
\* block, and it never counts more notifications than its block has.
THEOREM ScannerTyped == Init /\ [][Next]_vars => [](FeedTypeOK /\ TypeOK)
<1>1. Types => FeedTypeOK /\ TypeOK
  BY DEF Types
<1> QED BY <1>1, TypesInit, TypesStep, PTL

\* A step that ends the scan of a block accounts for it.
LEMMA ScanAccounts ==
    ASSUME FeedTypeOK, LossesExplained, NEW commits \in BOOLEAN, ScanDone(commits),
           scanning \in blockData' \cup dropped',
           dropped \subseteq blockData' \cup dropped', skipped' = skipped
    PROVE  LossesExplained'
BY DEF ScanDone, LossesExplained, FeedTypeOK, Tip

\* Every missing row has its reason, in every state: no fetch error, failed
\* webhook, database error or restart loses a block that is not in dropped or
\* skipped.
THEOREM NoUnexplainedLoss == Init /\ [][Next]_vars => []LossesExplained
<1>1. Init => LossesExplained
  BY DEF Init, FeedInit, LossesExplained, Tip
<1>2. FeedTypeOK /\ LossesExplained /\ [Next]_vars => LossesExplained'
  <2> SUFFICES ASSUME FeedTypeOK, LossesExplained, [Next]_vars PROVE LossesExplained'
    OBVIOUS
  <2>0. Tip \in Nat
    BY DEF FeedTypeOK, Tip
  <2>1. ASSUME NEW utime \in 0..now, NEW n, MineBlock(utime, n) PROVE LossesExplained'
    <3>1. /\ UNCHANGED <<lastKnown, current, target, blockData, scanning, dropped, skipped>>
          /\ genUtime' = Append(genUtime, utime) /\ genUtime \in Seq(Nat) /\ utime \in Nat
      BY <2>1 DEF MineBlock, ProduceBlock, FeedTypeOK, lossVars
    <3>2. Tip' = Tip + 1
      BY <3>1 DEF Tip
    <3> QED BY <2>0, <3>1, <3>2 DEF LossesExplained, FeedTypeOK
  <2>2. CASE Poll
    BY <2>0, <2>2 DEF Poll, TrackerPoll, LossesExplained, FeedTypeOK, Tip, lossVars
  <2>3. CASE Offer
    BY <2>0, <2>3 DEF Offer, TrackerSend, LossesExplained, FeedTypeOK, Tip, lossVars
  <2>4. CASE AbandonWalk
    BY <2>0, <2>4 DEF AbandonWalk, TrackerFetchError, LossesExplained, FeedTypeOK, Tip, lossVars
  <2>5. ASSUME Drop, skipped' = skipped PROVE LossesExplained'
    <3>1. ScanDone(FALSE) /\ dropped \subseteq dropped' /\ scanning \in blockData' \cup dropped'
      BY <2>5 DEF Drop, ScanDone, NotSavedYet
    <3> QED BY <2>5, <3>1, ScanAccounts
  <2>6. CASE ReadError \/ PublishQueueError \/ SaveError
    BY <2>5, <2>6 DEF ReadError, PublishQueueError, SaveError
  <2>7. CASE WebhookFails
    <3>1. CASE attempt + 1 < Attempts
      BY <2>7, <3>1 DEF WebhookFails, LossesExplained, Tip
    <3>2. CASE ~ (attempt + 1 < Attempts)
      BY <2>5, <2>7, <3>2 DEF WebhookFails, AttemptsEnded
    <3> QED BY <3>1, <3>2
  <2>8. CASE SaveBlock
    <3>1. CASE elapsed < ScanTimeout
      <4>1. /\ ScanDone(NotSavedYet) /\ NotSavedYet \in BOOLEAN
            /\ dropped' = dropped \ blockData' /\ skipped' = skipped
        BY <2>8, <3>1 DEF SaveBlock, NotSavedYet
      <4>2. scanning \in blockData'
        BY <4>1 DEF ScanDone, NotSavedYet
      <4> QED BY <4>1, <4>2, ScanAccounts
    <3>2. CASE ~ (elapsed < ScanTimeout)
      BY <2>5, <2>8, <3>2 DEF SaveBlock
    <3> QED BY <3>1, <3>2
  <2>9. CASE Crash
    BY <2>0, <2>9, LastSaved DEF Crash, Restart, LossesExplained, Tip
  <2>10. CASE TimePasses \/ ReadBlock \/ PublishQueue \/ PublishWebhook \/ UNCHANGED vars
    BY <2>10 DEF TimePasses, Tick, ReadBlock, PublishQueue, PublishWebhook, vars, feedVars,
                 lossVars, LossesExplained, Tip
  <2> QED BY <2>1, <2>2, <2>3, <2>4, <2>6, <2>7, <2>8, <2>9, <2>10 DEF Next
<1>3. Types => FeedTypeOK
  BY DEF Types
<1> QED BY <1>1, <1>2, <1>3, TypesInit, TypesStep, PTL

\* How far the notifications of the block in hand have come: notification
\* number (i - 1) * Width + (k - 1) is that of income i to notificator k.
Announced ==
    stage = "push" =>
        \A i \in 1..MaxIncomes, k \in 1..Width :
            (i - 1) * Width + (k - 1) < pushed
                => <<scanning, i, Notificators[k]>> \in accepted

\* One notification more: it is the one that comes next.
LEMMA AcceptAnnounces ==
    ASSUME Types, Announced, Accept, stage = "push", pushed < Total,
           UNCHANGED <<scanning, stage>>
    PROVE  Announced'
<1>0. Width \in Nat /\ pushed \in Nat /\ MaxIncomes \in Nat
  BY NotificationAssumption DEF Width, Types, TypeOK
<1>1. ASSUME NEW i \in 1..MaxIncomes, NEW k \in 1..Width,
             (i - 1) * Width + (k - 1) < pushed + 1
      PROVE  <<scanning, i, Notificators[k]>> \in accepted \cup {Notification}
  <2>1. Width \in Nat \ {0} /\ i - 1 \in Nat /\ k - 1 \in 0..(Width - 1)
    BY <1>0
  <2>2. (i - 1) * Width + (k - 1) \in Nat
    BY <2>1
  <2>3. CASE (i - 1) * Width + (k - 1) < pushed
    BY <2>3 DEF Announced
  <2>4. CASE (i - 1) * Width + (k - 1) = pushed
    <3>1. pushed \div Width = i - 1 /\ pushed % Width = k - 1
      BY <2>1, <2>4, DivisionUnique
    <3>2. 1 + (i - 1) = i /\ 1 + (k - 1) = k
      BY <1>0
    <3>3. Notification = <<scanning, i, Notificators[k]>>
      BY <3>1, <3>2 DEF Notification, Notificator, Width
    <3> QED BY <3>3
  <2> QED BY <1>0, <1>1, <2>2, <2>3, <2>4
<1> QED BY <1>1 DEF Accept, Announced

\* When the count is complete, every income is announced to every notificator.
LEMMA AllAnnounced ==
    ASSUME Types, Announced, stage = "push", pushed = Total,
           NEW i \in 1..MaxIncomes, i <= incomes[scanning], NEW k \in 1..Width
    PROVE  <<scanning, i, Notificators[k]>> \in accepted
<1>0. Width \in Nat /\ MaxIncomes \in Nat /\ incomes[scanning] \in Nat
  BY NotificationAssumption, IncomesTyped DEF Width, Types, TypeOK, FeedTypeOK
<1> DEFINE n == incomes[scanning]
<1>1. (i - 1) * Width + (k - 1) < n * Width
  <2>0. n \in Nat /\ i <= n /\ i \in Nat
    BY <1>0
  <2> HIDE DEF n
  <2>1. i * Width <= n * Width
    BY <1>0, <2>0
  <2>2. (i - 1) * Width = i * Width - Width
    BY <1>0, <2>0
  <2> QED BY <1>0, <2>0, <2>1, <2>2
<1> QED BY <1>1 DEF Announced, Total, Width

\* Nothing is stored unannounced, in every state: whatever failed on the way, a
\* stored block has no income that one of the notificators has not taken.
THEOREM StoredIsAnnounced == Init /\ [][Next]_vars => []SavedIsNotified
<1> DEFINE Inv == Types /\ Announced /\ SavedIsNotified
<1>1. Init => Inv
  BY TypesInit DEF Init, FeedInit, Announced, SavedIsNotified
<1>2. Inv /\ [Next]_vars => Inv'
  <2> SUFFICES ASSUME Inv, [Next]_vars PROVE Announced' /\ SavedIsNotified'
    BY TypesStep
  <2>0. /\ Tip \in Nat /\ DOMAIN Notificators = 1..Width /\ blockData \subseteq 1..Tip
        /\ Len(incomes) = Tip /\ incomes \in Seq(0..MaxIncomes)
    BY NotificationAssumption, IncomesTyped DEF Types, FeedTypeOK, Tip, Width
  <2>1. ASSUME NEW utime \in 0..now, NEW n \in 0..MaxIncomes, MineBlock(utime, n)
        PROVE  Announced' /\ SavedIsNotified'
    <3>1. /\ UNCHANGED <<blockData, stage, scanning, pushed, accepted>>
          /\ incomes' = Append(incomes, n)
      BY <2>1 DEF MineBlock, ProduceBlock, scanVars
    <3>2. \A b \in blockData : incomes'[b] = incomes[b]
      BY <2>0, <3>1
    <3> QED BY <3>1, <3>2 DEF Announced, SavedIsNotified
  <2>2. CASE TimePasses \/ Poll \/ AbandonWalk \/ UNCHANGED vars
    BY <2>2 DEF TimePasses, Tick, Poll, TrackerPoll, AbandonWalk, TrackerFetchError, vars,
                feedVars, scanVars, Announced, SavedIsNotified
  <2>3. CASE Offer
    BY <2>3 DEF Offer, TrackerSend, Announced, SavedIsNotified
  <2>4. CASE ReadBlock
    <3>1. pushed' = 0 /\ UNCHANGED <<blockData, incomes, accepted>>
      BY <2>4 DEF ReadBlock, Types, TypeOK, feedVars
    <3>2. \A i \in 1..MaxIncomes, k \in 1..Width : ~ ((i - 1) * Width + (k - 1) < 0)
      <4>1. Width \in Nat
        BY NotificationAssumption DEF Width
      <4>2. \A i \in 1..MaxIncomes : (i - 1) * Width \in Nat
        BY <4>1, NotificationAssumption
      <4> QED BY <4>1, <4>2
    <3> QED BY <3>1, <3>2 DEF Announced, SavedIsNotified
  <2>5. CASE PublishQueue \/ PublishWebhook
    <3>1. /\ stage = "push" /\ pushed < Total /\ Accept
          /\ UNCHANGED <<scanning, stage, blockData, incomes>>
      BY <2>5 DEF PublishQueue, PublishWebhook, feedVars
    <3>2. Announced'
      BY <3>1, AcceptAnnounces
    <3> QED BY <3>1, <3>2 DEF Accept, SavedIsNotified
  <2>6. ASSUME Drop, UNCHANGED <<incomes, accepted>> PROVE Announced' /\ SavedIsNotified'
    BY <2>6 DEF Drop, ScanDone, Waiting, Announced, SavedIsNotified
  <2>7. CASE ReadError \/ PublishQueueError \/ SaveError
    BY <2>6, <2>7 DEF ReadError, PublishQueueError, SaveError
  <2>8. CASE WebhookFails
    <3>1. CASE attempt + 1 < Attempts
      BY <2>8, <3>1 DEF WebhookFails, Announced, SavedIsNotified
    <3>2. CASE ~ (attempt + 1 < Attempts)
      BY <2>6, <2>8, <3>2 DEF WebhookFails, AttemptsEnded
    <3> QED BY <3>1, <3>2
  <2>9. CASE SaveBlock
    <3>1. CASE elapsed < ScanTimeout
      <4>1. /\ ScanDone(NotSavedYet) /\ Waiting /\ UNCHANGED <<incomes, accepted>>
            /\ stage = "push" /\ pushed = Total
        BY <2>9, <3>1 DEF SaveBlock
      <4>2. blockData' \subseteq blockData \cup {scanning}
        BY <4>1 DEF ScanDone
      <4>3. \A i \in 1..MaxIncomes, k \in DOMAIN Notificators :
               i <= incomes[scanning] => <<scanning, i, Notificators[k]>> \in accepted
        BY <2>0, <4>1, AllAnnounced
      <4> QED BY <4>1, <4>2, <4>3 DEF Waiting, Announced, SavedIsNotified
    <3>2. CASE ~ (elapsed < ScanTimeout)
      BY <2>6, <2>9, <3>2 DEF SaveBlock
    <3> QED BY <3>1, <3>2
  <2>10. CASE Crash
    BY <2>10 DEF Crash, Restart, Waiting, Announced, SavedIsNotified
  <2> QED BY <2>1, <2>2, <2>3, <2>4, <2>5, <2>7, <2>8, <2>9, <2>10 DEF Next
<1>3. Inv => SavedIsNotified
  OBVIOUS
<1> QED BY <1>1, <1>2, <1>3, PTL
============================================================================
