------------------------- MODULE ServiceWithdrawals -------------------------
(***************************************************************************)
(* Service withdrawals: funds that lie where no deposit expects them (TONs  *)
(* on a proxy, foreign Jettons of a proxy or of a TON deposit) are sent to  *)
(* the hot wallet on demand.                                                *)
(*                                                                         *)
(* Two goroutines share the table service_withdrawal_requests and its flags *)
(* filled and processed.  The withdrawals processor sends the message for a *)
(* proxy, or fills a TON deposit with TONs.  The internal processor later   *)
(* sends the Jettons of a filled deposit.  Both record before they send,    *)
(* with one UPDATE that sets both flags whatever they were, and never look  *)
(* back: there is no confirmation and no expiration of these messages.      *)
(*                                                                         *)
(* Owners are numbers, in the order of ORDER BY from_address.  A balance is *)
(* there or not.  TonSweeps models the sweeps that take a deposit's TONs.   *)
(***************************************************************************)
EXTENDS Integers, FiniteSetsExt

CONSTANTS
    Deposits, Proxies,  \* addresses of type TonDepositWallet, JettonOwner
    Deployed,           \* owners whose foreign Jetton wallet exists
    HotLimit,           \* 250, of GetServiceHotWithdrawalTasks
    DepositLimit,       \* 5, of GetServiceDepositWithdrawalTasks
    MaxRequests,        \* bounds
    MaxFaults

Owners == Deposits \cup Proxies
Memos  == 1..MaxRequests

ASSUME ServiceAssumption ==
    /\ Owners \subseteq Nat \ {0} /\ Deposits \cap Proxies = {}
    /\ Deployed \subseteq Owners
    /\ HotLimit \in Nat /\ DepositLimit \in Nat
    /\ MaxRequests \in Nat /\ MaxFaults \in Nat

VARIABLES
    from,       \* from[memo], 0 when there is no such request
    master,     \* jetton_master: none, own (the Jetton of the deposit), foreign
    filled, processed,
    tonFunds,   \* owners whose account holds TONs
    jettonFunds,  \* owners whose foreign Jetton wallet holds Jettons
    mempool,    \* <<memo, kind>> of the messages the network has
    gone,       \* <<memo, kind>> of those it executed or dropped
    hotPc, hotTasks, batch,  \* of the withdrawals processor
    intPc, intTasks,         \* of the internal TON withdrawals processor
    faults      \* crashes, lost messages and errors of the node so far

tableVars == <<from, master, filled, processed>>
chainVars == <<tonFunds, jettonFunds, mempool, gone>>
hotVars   == <<hotPc, hotTasks, batch>>
intVars   == <<intPc, intTasks>>
serviceVars      == <<tableVars, chainVars, hotVars, intVars, faults>>

Rows == {m \in Memos : from[m] # 0}

Fault == faults < MaxFaults /\ faults' = faults + 1

ServiceInit ==
    /\ from = [m \in Memos |-> 0] /\ master = [m \in Memos |-> "none"]
    /\ filled = {} /\ processed = {}
    /\ tonFunds = {} /\ jettonFunds = {} /\ mempool = {} /\ gone = {}
    /\ hotPc = "query" /\ hotTasks = {} /\ batch = {}
    /\ intPc = "query" /\ intTasks = {}
    /\ faults = 0

----------------------------------------------------------------------------
(* The API                                                                 *)

\* TONs are withdrawn from a proxy only, Jettons from a proxy or a deposit
Allowed(owner, jetton) == jetton = "none" => owner \in Proxies

CreateServiceWithdrawalRequest(m, owner, jetton) ==
    /\ from[m] = 0 /\ \A n \in Memos : n < m => from[n] # 0
    /\ Allowed(owner, jetton)
    /\ from' = [from EXCEPT ![m] = owner]
    /\ master' = [master EXCEPT ![m] = jetton]
    /\ UNCHANGED <<filled, processed, chainVars, hotVars, intVars, faults>>

\* Wrong on purpose: a request stays open when it is processed.
UpdateWithoutProcessed(m, fill) ==
    /\ filled' = IF fill THEN filled \cup {m} ELSE filled \ {m}
    /\ UNCHANGED processed

\* SET processed = not $4, filled = $4
UpdateServiceWithdrawalRequest(m, fill) ==
    /\ filled' = IF fill THEN filled \cup {m} ELSE filled \ {m}
    /\ processed' = IF fill THEN processed \ {m} ELSE processed \cup {m}

\* SELECT DISTINCT ON (from_address) ... ORDER BY from_address LIMIT: some request
\* of each of the first owners
Selected(tasks, open, limit) ==
    LET owners == {from[m] : m \in open}
        first == {o \in owners : Cardinality({p \in owners : p < o}) < limit}
    IN /\ tasks \subseteq open
       /\ {from[m] : m \in tasks} = first
       /\ \A m, n \in tasks : from[m] = from[n] => m = n

NextOf(tasks) == CHOOSE m \in tasks : \A n \in tasks : from[m] <= from[n]

----------------------------------------------------------------------------
(* The withdrawals processor                                               *)

\* Wrong on purpose: without "processed = false".
OpenForHotUnfilled == Rows \ filled

OpenForHot == Rows \ (filled \cup processed)

GetServiceHotWithdrawalTasks(tasks) ==
    /\ hotPc = "query"
    /\ Selected(tasks, OpenForHot, HotLimit)
    /\ hotTasks' = tasks
    /\ hotPc' = "build"
    /\ UNCHANGED <<tableVars, chainVars, batch, intVars, faults>>

IsFilling(m) == from[m] \in Deposits

\* GetLastJettonBalance fails on a Jetton wallet that does not exist; the own
\* Jetton wallet of a proxy is known and not asked
ReadsBalance(m) == master[m] # "none" /\ ~ (master[m] = "own" /\ from[m] \in Proxies)
Fatal(m) == ReadsBalance(m) /\ from[m] \notin Deployed

HasFunds(m) == IF master[m] = "none" THEN from[m] \in tonFunds
               ELSE ReadsBalance(m) /\ from[m] \in jettonFunds

\* buildServiceWithdrawalMessage, if the balance of the hot wallet covers it:
\* with nothing to send, the request is closed at once
BuildServiceWithdrawalMessage(covered) ==
    LET m == NextOf(hotTasks)
    IN /\ hotPc = "build"
       /\ hotTasks # {}
       /\ covered => ~ Fatal(m)
       /\ hotTasks' = hotTasks \ {m}
       /\ batch' = IF covered /\ HasFunds(m) THEN batch \cup {m} ELSE batch
       /\ IF covered /\ ~ HasFunds(m)
            THEN UpdateServiceWithdrawalRequest(m, FALSE)
            ELSE UNCHANGED <<filled, processed>>
       /\ faults' = faults + (IF covered THEN 0 ELSE 1) /\ faults' <= MaxFaults
       /\ UNCHANGED <<from, master, chainVars, hotPc, intVars>>

\* "make withdrawal messages error": log.Fatalf
FatalTask ==
    /\ hotPc = "build" /\ hotTasks # {} /\ Fatal(NextOf(hotTasks))
    /\ hotPc' = "query" /\ hotTasks' = {} /\ batch' = {}
    /\ intPc' = "query" /\ intTasks' = {}
    /\ UNCHANGED <<tableVars, chainVars, faults>>

\* the message is built; a round without messages is over
FinishBuild ==
    /\ hotPc = "build" /\ hotTasks = {}
    /\ hotPc' = IF batch = {} THEN "query" ELSE "save"
    /\ hotTasks' = batch
    /\ UNCHANGED <<tableVars, chainVars, batch, intVars, faults>>

\* one UPDATE for every request of the message
SaveService ==
    LET m == NextOf(hotTasks)
    IN /\ hotPc = "save"
       /\ hotTasks # {}
       /\ hotTasks' = hotTasks \ {m}
       /\ UpdateServiceWithdrawalRequest(m, IsFilling(m))
       /\ UNCHANGED <<from, master, chainVars, hotPc, batch, intVars, faults>>

KindOf(m) == IF IsFilling(m) THEN "fill" ELSE "take"

SendExternalMessage ==
    /\ hotPc = "save" /\ hotTasks = {}
    /\ mempool' = mempool \cup {<<m, KindOf(m)>> : m \in batch}
    /\ hotPc' = "query" /\ batch' = {}
    /\ UNCHANGED <<tableVars, tonFunds, jettonFunds, gone, hotTasks, intVars, faults>>

----------------------------------------------------------------------------
(* The internal TON withdrawals processor                                  *)

\* Wrong on purpose: with "filled = false".
OpenForDepositUnfilled == {m \in Rows \ processed : m \notin filled /\ from[m] \in Deposits}

OpenForDeposit == {m \in Rows \ processed : m \in filled /\ from[m] \in Deposits}

GetServiceDepositWithdrawalTasks(tasks) ==
    /\ intPc = "query"
    /\ Selected(tasks, OpenForDeposit, DepositLimit)
    /\ intTasks' = tasks
    /\ intPc' = "task"
    /\ UNCHANGED <<tableVars, chainVars, hotVars, faults>>

\* GetAccountCurrentState
CanSend(m) == from[m] \in tonFunds

\* serviceWithdrawJettons up to its UPDATE
ServiceWithdrawJettons ==
    LET m == NextOf(intTasks)
    IN /\ intPc = "task"
       /\ intTasks # {}
       /\ IF CanSend(m)
            THEN /\ UpdateServiceWithdrawalRequest(m, FALSE)
                 /\ intPc' = "send"
                 /\ UNCHANGED intTasks
            ELSE /\ intTasks' = intTasks \ {m}
                 /\ UNCHANGED <<intPc, filled, processed>>
       /\ UNCHANGED <<from, master, chainVars, hotVars, faults>>

\* the node does not answer: the error is logged, the request stays open
ServiceError ==
    /\ intPc = "task"
    /\ intTasks # {}
    /\ Fault
    /\ intTasks' = intTasks \ {NextOf(intTasks)}
    /\ UNCHANGED <<tableVars, chainVars, hotVars, intPc>>

WithdrawJetton ==
    LET m == NextOf(intTasks)
    IN /\ intPc = "send"
       /\ mempool' = mempool \cup {<<m, "take">>}
       /\ intTasks' = intTasks \ {m}
       /\ intPc' = "task"
       /\ UNCHANGED <<tableVars, tonFunds, jettonFunds, gone, hotVars, faults>>

EndOfTasks ==
    /\ intPc = "task" /\ intTasks = {}
    /\ intPc' = "query"
    /\ UNCHANGED <<tableVars, chainVars, hotVars, intTasks, faults>>

----------------------------------------------------------------------------
(* The chain and the process                                               *)

Arrive(owner, what) ==
    /\ IF what = "tons"
         THEN tonFunds' = tonFunds \cup {owner} /\ UNCHANGED jettonFunds
         ELSE owner \in Deployed /\ jettonFunds' = jettonFunds \cup {owner} /\ UNCHANGED tonFunds
    /\ UNCHANGED <<tableVars, mempool, gone, hotVars, intVars, faults>>

\* a fill, and the message of a deposit wallet, which takes all its TONs along;
\* the message of a proxy takes its TONs or its Jettons
Execute(m, kind) ==
    /\ <<m, kind>> \in mempool
    /\ kind = "take" /\ from[m] \in Deposits => from[m] \in tonFunds
    /\ mempool' = mempool \ {<<m, kind>>}
    /\ gone' = gone \cup {<<m, kind>>}
    /\ tonFunds' = CASE kind = "fill" -> tonFunds \cup {from[m]}
                 [] kind = "take" /\ (master[m] = "none" \/ from[m] \in Deposits)
                       -> tonFunds \ {from[m]}
                 [] OTHER -> tonFunds
    /\ jettonFunds' = IF kind = "take" /\ master[m] # "none" THEN jettonFunds \ {from[m]} ELSE jettonFunds
    /\ UNCHANGED <<tableVars, hotVars, intVars, faults>>

\* a message that is not executed within its TTL never is, nor is one that was
\* not delivered, or whose seqno another message of the wallet has used
Lose(m, kind) ==
    /\ Fault
    /\ <<m, kind>> \in mempool
    /\ mempool' = mempool \ {<<m, kind>>}
    /\ gone' = gone \cup {<<m, kind>>}
    /\ UNCHANGED <<tableVars, tonFunds, jettonFunds, hotVars, intVars>>

\* the sweep of an income takes the TONs of a fill along
Sweep(owner) ==
    /\ Fault
    /\ owner \in Deposits \cap tonFunds
    /\ tonFunds' = tonFunds \ {owner}
    /\ UNCHANGED <<tableVars, jettonFunds, mempool, gone, hotVars, intVars>>

Crash ==
    /\ Fault
    /\ hotPc' = "query" /\ hotTasks' = {} /\ batch' = {}
    /\ intPc' = "query" /\ intTasks' = {}
    /\ UNCHANGED <<tableVars, chainVars>>

ServiceNext ==
    \/ \E m \in Memos, o \in Owners, j \in {"none", "own", "foreign"} :
          CreateServiceWithdrawalRequest(m, o, j)
    \/ \E tasks \in SUBSET Memos :
          GetServiceHotWithdrawalTasks(tasks) \/ GetServiceDepositWithdrawalTasks(tasks)
    \/ \E covered \in BOOLEAN : BuildServiceWithdrawalMessage(covered)
    \/ FatalTask \/ FinishBuild \/ SaveService \/ SendExternalMessage
    \/ ServiceWithdrawJettons \/ ServiceError \/ WithdrawJetton \/ EndOfTasks
    \/ \E o \in Owners, what \in {"tons", "jettons"} : Arrive(o, what)
    \/ \E m \in Memos, kind \in {"fill", "take"} : Execute(m, kind) \/ Lose(m, kind)
    \/ \E o \in Deposits : Sweep(o)
    \/ Crash

\* the goroutines go round; a message that stays valid is executed
Hot == \/ \E tasks \in SUBSET Memos : GetServiceHotWithdrawalTasks(tasks)
       \/ BuildServiceWithdrawalMessage(TRUE) \/ FatalTask
       \/ FinishBuild \/ SaveService \/ SendExternalMessage
Internal == \/ \E tasks \in SUBSET Memos : GetServiceDepositWithdrawalTasks(tasks)
            \/ ServiceWithdrawJettons \/ WithdrawJetton \/ EndOfTasks

Fairness ==
    /\ WF_serviceVars(Hot) /\ WF_serviceVars(Internal)
    /\ \A m \in Memos : WF_serviceVars(Execute(m, "fill"))

ServiceSpec == ServiceInit /\ [][ServiceNext]_serviceVars

FairSpec == ServiceSpec /\ Fairness

----------------------------------------------------------------------------
(* Properties                                                              *)

Sent == mempool \cup gone

\* Type invariant.
ServiceTypeOK ==
    /\ from \in [Memos -> {0} \cup Owners]
    /\ master \in [Memos -> {"none", "own", "foreign"}]
    /\ filled \cup processed \subseteq Rows
    /\ filled \cap processed = {}
    /\ tonFunds \cup jettonFunds \subseteq Owners
    /\ Sent \subseteq Rows \X {"fill", "take"}
    /\ hotTasks \cup batch \cup intTasks \subseteq Rows
    /\ hotPc \in {"query", "build", "save"} /\ intPc \in {"query", "task", "send"}
    /\ faults \in Nat

\* What was sent is on record first, so that a restart sends nothing twice: a
\* fill leaves its request filled until the Jettons follow, and a request whose
\* funds were called is processed.
SentIsRecorded ==
    \A s \in Sent : s[1] \in IF s[2] = "fill" THEN filled \cup processed ELSE processed

\* No request is sent twice: no message is put out that was put out before,
\* whether it was executed, dropped or is still under way.
SentOnce ==
    [][/\ SendExternalMessage => {<<m, KindOf(m)>> : m \in batch} \cap Sent = {}
       /\ WithdrawJetton => <<NextOf(intTasks), "take">> \notin Sent]_serviceVars

\* The TONs of a fill may not come or not stay: the process dies before the
\* message is sent, the message is lost or the TONs are swept (a fault), or
\* another request of the same deposit takes them along.
FillMayBeGone(m) == faults > 0 \/ \E n \in processed \ {m} : from[n] = from[m]

\* As long as no request meets a Jetton wallet that does not exist, each one is
\* processed in the end or, if its fill went astray, waits for TONs for good.
RequestsSettled ==
    []( \A m \in Rows : ~ Fatal(m)) =>
        \A m \in Memos :
            from[m] # 0 ~> []( \/ m \in processed
                              \/ /\ m \in filled /\ from[m] \notin tonFunds
                                 /\ <<m, "fill">> \notin mempool
                                 /\ FillMayBeGone(m) )
============================================================================
