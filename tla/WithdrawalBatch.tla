-------------------------- MODULE WithdrawalBatch --------------------------
(***************************************************************************)
(* One round of the withdrawals processor: makeColdWalletWithdrawals asks   *)
(* for the surplus of the hot wallet, then buildWithdrawalMessages decides  *)
(* which service, internal Jetton and external withdrawals go into one      *)
(* message of the hot wallet.                                               *)
(*                                                                         *)
(* The scanner tells the payments of a message apart by their destination   *)
(* only (parseExternalMessage rejects a message with a destination twice,   *)
(* and the block with it), and the highload wallet executes the payments    *)
(* one by one until its balance is gone.  Three queries and one balance     *)
(* sheet must keep both from happening.                                     *)
(*                                                                         *)
(* Addresses are numbers, in the order of ORDER BY.  Known addresses are    *)
(* those of the address book; a proxy (JettonOwner) owns one Jetton wallet. *)
(***************************************************************************)
EXTENDS Integers, Sequences, FiniteSetsExt

CONSTANTS
    Proxies, TonDeposits,     \* known addresses
    Outside,                  \* every other destination
    Cold,                     \* the cold wallet, one of them
    HotWalletMax,             \* config.Config.Ton.HotWalletMax
    HotWalletMaxCutoff,       \* the same of the Jetton
    JettonTransferTonAmount,  \* config.JettonTransferTonAmount
    Amounts,                  \* amounts that are asked for
    Balances,                 \* balances that the hot wallet has on the chain
    Limit,                    \* 250: of the queries and of the message
    QueryIDs                  \* query_id of the external requests

ASSUME BatchAssumption ==
    /\ Proxies \subseteq Nat /\ TonDeposits \subseteq Nat /\ Outside \subseteq Nat
    /\ Outside \cap (Proxies \cup TonDeposits) = {}
    /\ Cold \in Outside /\ HotWalletMax \in Nat /\ HotWalletMaxCutoff \in Nat
    /\ JettonTransferTonAmount \in Nat /\ Amounts \subseteq Nat
    /\ Balances \subseteq Nat /\ Limit \in Nat /\ QueryIDs \subseteq Nat
    /\ IsFiniteSet(Proxies) /\ IsFiniteSet(TonDeposits) /\ IsFiniteSet(QueryIDs)

Currencies == {"TON", "JETTON"}
Known      == Proxies \cup TonDeposits

VARIABLES
    initial,   \* the balances of the hot wallet on the chain
    service,   \* from_address of the service requests that are open
    rejected,  \* those that UpdateServiceWithdrawalRequest closes unsent
    incomes,   \* proxies whose Jetton wallet has an income not yet swept
    requests,  \* withdrawal_requests with processing = false
    cold,      \* those of them that this round has created for the cold wallet
    pc,        \* cold, which of the three loops runs, done or fatal (log.Fatalf)
    tasks,     \* what is left of its tasks
    balances,  \* the balance sheet
    used,      \* usedAddresses
    messages   \* res.Messages: destination as the scanner sees it, and cost

vars == <<initial, service, rejected, incomes, requests, cold, pc, tasks, balances, used, messages>>
tables == <<initial, service, incomes, requests, cold>>

Request(q, f) == [id |-> q, dest |-> f[1], currency |-> f[2], amount |-> f[3]]

Cost(ton, jetton) == [c \in Currencies |-> IF c = "TON" THEN ton ELSE jetton]

\* LIMIT: the first tasks in the order of their key
FirstOf(S, key(_)) == {t \in S : Cardinality({u \in S : key(u) < key(t)}) < Limit}

\* SELECT DISTINCT ON (from_address) ... ORDER BY from_address LIMIT 250
GetServiceHotWithdrawalTasks ==
    LET key(a) == a IN FirstOf(service, key)

\* Wrong on purpose: the query without the excluded addresses
JettonTasksOfAll(found) ==
    /\ found \subseteq incomes
    /\ Cardinality(found) = Min({Limit, Cardinality(incomes)})

\* NOT tw.address = ANY(usedAddresses), LIMIT 250 in no particular order
GetJettonInternalWithdrawalTasks(found) ==
    /\ found \subseteq incomes \ used
    /\ Cardinality(found) = Min({Limit, Cardinality(incomes \ used)})

\* SELECT DISTINCT ON (dest_address) ... ORDER BY dest_address, query_id
GetExternalWithdrawalTasks ==
    LET key(r) == r.dest
        First(r) == \A s \in requests : s.dest = r.dest => r.id <= s.id
    IN FirstOf({r \in requests : First(r)}, key)

Init ==
    /\ initial \in [Currencies -> Balances]
    /\ service \in SUBSET Known
    /\ rejected = {}
    /\ incomes \in SUBSET Proxies
    /\ \E Q \in SUBSET QueryIDs :
          \E f \in [Q -> (Outside \cup Known) \X Currencies \X Amounts] :
              requests = {Request(q, f[q]) : q \in Q}
    /\ cold = {}
    /\ pc = "cold"
    /\ tasks = {}
    /\ balances = initial
    /\ used = {}
    /\ messages = <<>>

----------------------------------------------------------------------------
\* CreateWithdrawalRequest with the next query_id
ColdRequest(n, currency, amount) ==
    [id |-> Max({0} \cup QueryIDs) + n, dest |-> Cold, currency |-> currency, amount |-> amount]

\* Wrong on purpose: the surplus of TONs is taken from the balance on the chain.
RemainingTonsOnChain(jettonRequests) == initial["TON"]

\* tonBalance after the Jettons
RemainingTons(jettonRequests) ==
    initial["TON"] - JettonTransferTonAmount * Cardinality(jettonRequests)

\* the surplus of Jettons first, then that of TONs
SurplusRequests(jettonSkipped, tonSkipped) ==
    LET jettonAmount == initial["JETTON"] - HotWalletMaxCutoff
        jettonRequests == IF jettonSkipped \/ jettonAmount <= 0 THEN {}
                          ELSE {ColdRequest(1, "JETTON", jettonAmount)}
        tonAmount == RemainingTons(jettonRequests) - HotWalletMax
        tonRequests == IF tonSkipped \/ tonAmount <= 0 THEN {}
                       ELSE {ColdRequest(2, "TON", tonAmount)}
    IN jettonRequests \cup tonRequests

\* A currency is skipped if GetInternalWithdrawalStatus answers processing.  That is
\* the status of whichever request with is_internal the database finds first, those
\* of earlier rounds that were paid long ago among them: it may be anything.
MakeColdWalletWithdrawals(jettonProcessing, tonProcessing) ==
    /\ pc = "cold"
    /\ cold' = SurplusRequests(jettonProcessing, tonProcessing)
    /\ requests' = requests \cup cold'
    /\ tasks' = GetServiceHotWithdrawalTasks
    /\ pc' = "service"
    /\ UNCHANGED <<initial, service, incomes, rejected, balances, used, messages>>

\* the node or the database fails, before or after the request of Jettons is saved
ColdWalletError(jettonSaved) ==
    /\ pc = "cold"
    /\ cold' = SurplusRequests(~ jettonSaved, TRUE)
    /\ requests' = requests \cup cold'
    /\ pc' = "fatal"
    /\ UNCHANGED <<initial, service, incomes, rejected, tasks, balances, used, messages>>

\* decreaseBalances returns true: the task is left for a later round
NotCovered(currency, amount) ==
    IF currency = "TON"
      THEN balances["TON"] < amount
      ELSE balances[currency] < amount \/ balances["TON"] < JettonTransferTonAmount

\* Wrong on purpose: the TONs that carry a Jetton transfer are not counted
DecreaseCurrencyOnly(currency, amount) ==
    balances' = [balances EXCEPT ![currency] = @ - amount]

Decrease(currency, amount) ==
    balances' = [balances EXCEPT
        !["TON"] = @ - (IF currency = "TON" THEN amount ELSE JettonTransferTonAmount),
        !["JETTON"] = @ - (IF currency = "TON" THEN 0 ELSE amount)]

Add(dest, cost) == messages' = Append(messages, [dest |-> dest, cost |-> cost])

ProxyCost == Cost(JettonTransferTonAmount, 0)

\* UpdateServiceWithdrawalRequest with filled = false: processed, and unsent
Reject(from) == rejected' = rejected \cup {from}

\* the balances of the deposit, and whether its Jetton wallet is a known
\* address, decide whether there is something
\* to fill or to send; otherwise the task is closed unsent
BuildServiceWithdrawalMessage(from, hasFunds) ==
    IF hasFunds
      THEN /\ Add(from, ProxyCost)
           /\ used' = used \cup {from}
           /\ UNCHANGED rejected
      ELSE /\ Reject(from)
           /\ UNCHANGED <<messages, used>>

\* the loop over the service tasks
ServiceTask(from, hasFunds) ==
    /\ pc = "service"
    /\ tasks # {} /\ from = Min(tasks)
    /\ tasks' = tasks \ {from}
    /\ IF NotCovered("TON", JettonTransferTonAmount)
         THEN UNCHANGED <<balances, messages, used, rejected>>
         ELSE /\ Decrease("TON", JettonTransferTonAmount)
              /\ BuildServiceWithdrawalMessage(from, hasFunds)
    /\ UNCHANGED <<tables, pc>>

StartInternal(found) ==
    /\ pc = "service" /\ tasks = {}
    /\ pc' = "internal"
    /\ GetJettonInternalWithdrawalTasks(found)
    /\ tasks' = found
    /\ UNCHANGED <<tables, rejected, balances, used, messages>>

\* Wrong on purpose: the limit is one too high
FullTooLate == Len(messages) > Limit + 1

Full == Len(messages) > Limit

\* nothing is sent unless the Jetton wallet holds more than the cutoff
BuildJettonInternalWithdrawalMessage(proxy, hasFunds) ==
    IF hasFunds THEN Add(proxy, ProxyCost) ELSE UNCHANGED messages

\* the loop over the Jetton deposits
InternalTask(proxy, hasFunds) ==
    /\ pc = "internal"
    /\ ~ Full
    /\ proxy \in tasks
    /\ tasks' = tasks \ {proxy}
    /\ IF NotCovered("TON", JettonTransferTonAmount)
         THEN UNCHANGED <<balances, messages>>
         ELSE /\ Decrease("TON", JettonTransferTonAmount)
              /\ BuildJettonInternalWithdrawalMessage(proxy, hasFunds)
    /\ UNCHANGED <<tables, rejected, pc, used>>

StartExternal ==
    /\ pc = "internal" /\ (tasks = {} \/ Full)
    /\ pc' = "external"
    /\ tasks' = GetExternalWithdrawalTasks
    /\ UNCHANGED <<tables, rejected, balances, used, messages>>

BuildExternalWithdrawalMessage(r) ==
    Add(r.dest, IF r.currency = "TON" THEN Cost(r.amount, 0)
                ELSE Cost(JettonTransferTonAmount, r.amount))

\* Wrong on purpose: the loop breaks at the first request that is not covered
ExternalTaskBreaks(r) ==
    /\ pc = "external"
    /\ ~ Full
    /\ r \in tasks /\ \A s \in tasks : r.dest <= s.dest
    /\ IF r.dest \in Known \/ NotCovered(r.currency, r.amount)
         THEN /\ tasks' = IF r.dest \in Known THEN tasks \ {r} ELSE {}
              /\ UNCHANGED <<balances, messages>>
         ELSE /\ tasks' = tasks \ {r}
              /\ Decrease(r.currency, r.amount)
              /\ BuildExternalWithdrawalMessage(r)
    /\ UNCHANGED <<tables, rejected, pc, used>>

\* the loop over the requests; a known destination is logged and skipped
ExternalTask(r) ==
    /\ pc = "external"
    /\ ~ Full
    /\ r \in tasks /\ \A s \in tasks : r.dest <= s.dest
    /\ tasks' = tasks \ {r}
    /\ IF r.dest \in Known \/ NotCovered(r.currency, r.amount)
         THEN UNCHANGED <<balances, messages>>
         ELSE /\ Decrease(r.currency, r.amount)
              /\ BuildExternalWithdrawalMessage(r)
    /\ UNCHANGED <<tables, rejected, pc, used>>

Return ==
    /\ pc = "external" /\ (tasks = {} \/ Full)
    /\ pc' = "done"
    /\ tasks' = {}
    /\ UNCHANGED <<tables, rejected, balances, used, messages>>

\* a balance, a query, the build of a message or the update of a rejected request
\* fails: the process ends, what it has built is gone, what it has rejected is not
BuildError ==
    /\ pc \in {"service", "internal", "external"}
    /\ pc' = "fatal"
    /\ tasks' = {} /\ balances' = initial /\ used' = {} /\ messages' = <<>>
    /\ UNCHANGED <<tables, rejected>>

Round ==
    \/ \E j, t \in BOOLEAN : MakeColdWalletWithdrawals(j, t)
    \/ \E a \in service, hasFunds \in BOOLEAN : ServiceTask(a, hasFunds)
    \/ \E found \in SUBSET incomes : StartInternal(found)
    \/ \E a \in incomes, hasFunds \in BOOLEAN : InternalTask(a, hasFunds)
    \/ StartExternal
    \/ \E r \in requests : ExternalTask(r)
    \/ Return

Next == Round \/ BuildError \/ \E jettonSaved \in BOOLEAN : ColdWalletError(jettonSaved)

Spec == Init /\ [][Next]_vars /\ WF_vars(Round)
----------------------------------------------------------------------------
(* Properties                                                              *)

\* The message never asks for more than the hot wallet has, in any currency,
\* although the TONs are spent by all three loops (decreaseBalances).
NeverOverdrawn ==
    \A c \in Currencies :
        SumFunction([i \in 1..Len(messages) |-> messages[i].cost[c]]) <= initial[c]

\* The cold wallet takes the surplus only: were all that this round asks for paid
\* at once, the TONs that carry the Jettons included, the hot wallet would still
\* hold its maximum of every currency it is asked for.
ColdLeavesMaximum ==
    LET tons == [r \in cold |->
            IF r.currency = "TON" THEN r.amount ELSE JettonTransferTonAmount]
    IN \A r \in cold :
          IF r.currency = "TON"
            THEN initial["TON"] - SumFunction(tons) >= HotWalletMax
            ELSE initial["JETTON"] - r.amount >= HotWalletMaxCutoff

\* No destination occurs twice in a message, across the three loops, so that
\* parseExternalMessage accepts it ("not unique addresses").
UniqueDestinations ==
    \A i, j \in 1..Len(messages) : messages[i].dest = messages[j].dest => i = j

\* A message has at most one payment more than the limit (251 of the 254 that
\* a highload wallet takes).
MessageFits == Len(messages) <= Limit + 1

\* The round ends, and a request to the outside that is not in the message was
\* behind another one, did not fit, or was not covered by what was left, unless
\* an error ends it with log.Fatalf.
EveryRequestDecided ==
    <>(\/ pc = "fatal"
       \/ /\ pc = "done"
          /\ \A r \in requests :
                \/ r.dest \in Known
                \/ \E i \in 1..Len(messages) : messages[i].dest = r.dest
                \/ Full \/ r \notin GetExternalWithdrawalTasks
                \/ NotCovered(r.currency, r.amount))
=============================================================================
