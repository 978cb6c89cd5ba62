--------------------------- MODULE DollarQueries ----------------------------
(***************************************************************************)
(* Queries 1 and 2 for one client: the transactions in dollars of less than *)
(* 50, and for each bank the largest transaction in dollars that left it.   *)
(*                                                                         *)
(* The gateway partitions the account rows by bank among the bank filters   *)
(* and puts the transactions on the queue of the usd filters.  These send   *)
(* what is in dollars to the amount filters (query 1) and the redirectors,  *)
(* which partition it by bank among the mappers.  A mapper keeps the        *)
(* maximum of each of its banks and, when the stage is drained, sends it to *)
(* the joiner of the bank, where it meets the bank's name.  Banks are       *)
(* partitioned by stable_hash of int(id) at every hop.                      *)
(*                                                                         *)
(* That a stage of one flux is closed only when it is drained, and each     *)
(* worker once, is what EofBarrier promises and EOFConsensus implements for *)
(* several workers; here it is the guard of the close.  The joiners wait    *)
(* for two fluxes, and their leader may begin a round before it knows the   *)
(* totals of both: what it then decides, or whether, is left open.  Packets *)
(* of one queue are taken in any order, except the account rows, which have *)
(* one producer and one consumer.                                           *)
(***************************************************************************)
EXTENDS Naturals, Sequences, FiniteSets

CONSTANTS RawIds,        \* bank ids as written in the files
          Number,        \* int(id)
          Accounts,      \* the account rows, in order: [bank_id, bank_name]
          Transactions,  \* records [from_bank, account_origin, amount_received,
                         \*   payment_currency, receiving_currency, message_id]
          Hash,          \* stable_hash of each bank
          FilterAmount, MapAmount, JoinAmount

Banks == {Number[raw] : raw \in RawIds}
Filters == 0 .. FilterAmount - 1
Mappers == 0 .. MapAmount - 1
Joiners == 0 .. JoinAmount - 1

\* A stage of one worker compares no counters; these have at least three.
ASSUME AmountAssumption ==
    {FilterAmount, MapAmount, JoinAmount} \subseteq Nat \ {0, 1}
ASSUME RowAssumption ==
    /\ Number \in [RawIds -> Nat]
    /\ Hash \in [Banks -> Nat]
    /\ \A i \in DOMAIN Accounts : i \in Nat /\ Accounts[i].bank_id \in RawIds
    /\ \A t \in Transactions : t.from_bank \in RawIds /\ t.amount_received \in Nat

VARIABLES accounts,   \* accounts[f]: the rows waiting for bank filter f, by their place
          seen,       \* seen_banks of each bank filter
          gateway,    \* transactions waiting for the usd filters
          small,      \* those waiting for the amount filters
          redirected, \* those waiting for the redirectors
          toMapper,   \* toMapper[m]: those waiting for mapper m
          bankMax,    \* bank_max of each mapper: for each bank none or one
          mapper,     \* where each mapper is in its post-process callback
          mapLeft,    \* the banks it still has to send
          toJoiner,   \* toJoiner[j]: names and maxima waiting for joiner j
          cache,      \* bank_cache of each joiner: for each bank none or one
          pending,    \* pending_results of each joiner
          joiner, joinLeft,  \* as of the mappers
          hasty,      \* the joiners' round began with a total missing
          smallAnswers,      \* the rows of query 1
          bankAnswers        \* the rows of query 2, by bank

accountVars == <<accounts, seen>>
packetVars == <<gateway, small, redirected, toMapper>>
mapVars == <<bankMax, mapper, mapLeft>>
joinVars == <<cache, pending, joiner, joinLeft, hasty>>
answerVars == <<smallAnswers, bankAnswers>>
vars == <<accountVars, packetVars, mapVars, toJoiner, joinVars, answerVars>>

(* Each hop computes its routing key: the gateway to the bank filters, the    *)
(* redirectors to the mappers, filters and mappers to the joiners.           *)
FilterOf(b) == Hash[b] % FilterAmount
MapperOf(b) == Hash[b] % MapAmount
JoinerByFilter(b) == FilterOf(b)                              \* mutant
JoinerOfName(b) == Hash[b] % JoinAmount
JoinerOfMaximum(b) == Hash[b] % JoinAmount

BankOf(t) == Number[t.from_bank]

BankOfRow(i) == Number[Accounts[i].bank_id]

Nothing == [b \in Banks |-> {}]

Init ==
    /\ accounts = [f \in Filters |-> {i \in DOMAIN Accounts : FilterOf(BankOfRow(i)) = f}]
    /\ seen = [f \in Filters |-> {}]
    /\ gateway = Transactions
    /\ small = {}
    /\ redirected = {}
    /\ toMapper = [m \in Mappers |-> {}]
    /\ bankMax = [m \in Mappers |-> Nothing]
    /\ mapper = [m \in Mappers |-> "open"]
    /\ mapLeft = [m \in Mappers |-> {}]
    /\ toJoiner = [j \in Joiners |-> {}]
    /\ cache = [j \in Joiners |-> Nothing]
    /\ pending = [j \in Joiners |-> Nothing]
    /\ joiner = [j \in Joiners |-> "open"]
    /\ joinLeft = [j \in Joiners |-> {}]
    /\ hasty = FALSE
    /\ smallAnswers = {}
    /\ bankAnswers = [b \in Banks |-> <<>>]

-----------------------------------------------------------------------------
(* The bank filters *)

Send(j, msg) == toJoiner' = [toJoiner EXCEPT ![j] = @ \cup {msg}]

NameOf(i) == [type |-> "NAME", bank |-> BankOfRow(i), name |-> Accounts[i].bank_name]

(* Row i is the next in the queue of filter f. *)
IsNextRow(f, i) == i \in accounts[f] /\ \A k \in accounts[f] : i <= k

SendEveryName(f, i) ==                                        \* mutant
    /\ IsNextRow(f, i)
    /\ accounts' = [accounts EXCEPT ![f] = @ \ {i}]
    /\ Send(JoinerOfName(BankOfRow(i)), NameOf(i))
    /\ UNCHANGED <<seen, packetVars, mapVars, joinVars, answerVars>>

(* The first row of a bank goes on; the others are only counted. *)
FilterAccount(f, i) ==
    /\ IsNextRow(f, i)
    /\ accounts' = [accounts EXCEPT ![f] = @ \ {i}]
    /\ LET b == BankOfRow(i)
       IN \/ b \in seen[f] /\ UNCHANGED <<seen, toJoiner>>
          \/ /\ b \notin seen[f]
             /\ seen' = [seen EXCEPT ![f] = @ \cup {b}]
             /\ Send(JoinerOfName(b), NameOf(i))
    /\ UNCHANGED <<packetVars, mapVars, joinVars, answerVars>>

-----------------------------------------------------------------------------
(* The usd filters, the amount filters and the redirectors *)

InDollars(t) == t.payment_currency = "US Dollar" /\ t.receiving_currency = "US Dollar"

FilterCurrency(t) ==
    /\ t \in gateway
    /\ gateway' = gateway \ {t}
    /\ LET passed == IF InDollars(t) THEN {t} ELSE {}
       IN small' = small \cup passed /\ redirected' = redirected \cup passed
    /\ UNCHANGED <<accountVars, toMapper, mapVars, toJoiner, joinVars, answerVars>>

Below50(t) == t.amount_received < 50                          \* mutant
IsSmall(t) == t.amount_received > 0 /\ t.amount_received < 50

FilterAmounts(t) ==
    /\ t \in small
    /\ small' = small \ {t}
    /\ smallAnswers' = smallAnswers \cup (IF IsSmall(t) THEN {t} ELSE {})
    /\ UNCHANGED <<accountVars, gateway, redirected, toMapper, mapVars, toJoiner,
                   joinVars, bankAnswers>>

Redirect(t) ==
    /\ t \in redirected
    /\ redirected' = redirected \ {t}
    /\ toMapper' = [toMapper EXCEPT ![MapperOf(BankOf(t))] = @ \cup {t}]
    /\ UNCHANGED <<accountVars, gateway, small, mapVars, toJoiner, joinVars, answerVars>>

-----------------------------------------------------------------------------
(* The mappers *)

(* "current is None or amount > current[0]" *)
Smaller(amount, current) == \A r \in current : amount < r.amount        \* mutant
Beats(amount, current) == \A r \in current : amount > r.amount

Row(t) == [amount |-> t.amount_received, origin |-> t.account_origin]

Map(m, t) ==
    /\ t \in toMapper[m]
    /\ toMapper' = [toMapper EXCEPT ![m] = @ \ {t}]
    /\ bankMax' = [bankMax EXCEPT ![m][BankOf(t)] =
                     IF Beats(t.amount_received, @) THEN {Row(t)} ELSE @]
    /\ UNCHANGED <<accountVars, gateway, small, redirected, mapper, mapLeft, toJoiner,
                   joinVars, answerVars>>

MappersDrained ==
    gateway = {} /\ redirected = {} /\ \A n \in Mappers : toMapper[n] = {}

(* _on_consensus_ok_process_pending_data sends the maxima one by one. *)
CloseMapper(m) ==
    /\ mapper[m] = "open"
    /\ MappersDrained
    /\ mapper' = [mapper EXCEPT ![m] = "sending"]
    /\ mapLeft' = [mapLeft EXCEPT ![m] = {b \in Banks : bankMax[m][b] # {}}]
    /\ UNCHANGED <<accountVars, packetVars, bankMax, toJoiner, joinVars, answerVars>>

SendMaximum(m, b) ==
    /\ b \in mapLeft[m]
    /\ mapLeft' = [mapLeft EXCEPT ![m] = @ \ {b}]
    /\ \E r \in bankMax[m][b] :
          Send(JoinerOfMaximum(b),
               [type |-> "MAXIMUM", bank |-> b, amount |-> r.amount, origin |-> r.origin])
    /\ UNCHANGED <<accountVars, packetVars, bankMax, mapper, joinVars, answerVars>>

(* _clean_client_memory, when the stage is finished. *)
FinishMapper(m) ==
    /\ mapper[m] = "sending"
    /\ mapLeft[m] = {}
    /\ mapper' = [mapper EXCEPT ![m] = "finished"]
    /\ bankMax' = [bankMax EXCEPT ![m] = Nothing]
    /\ UNCHANGED <<accountVars, packetVars, mapLeft, toJoiner, joinVars, answerVars>>

-----------------------------------------------------------------------------
(* The joiners *)

TakeName(j, msg) ==
    /\ msg \in toJoiner[j] /\ msg.type = "NAME"
    /\ toJoiner' = [toJoiner EXCEPT ![j] = @ \ {msg}]
    /\ cache' = [cache EXCEPT ![j][msg.bank] = {msg.name}]
    /\ UNCHANGED <<accountVars, packetVars, mapVars, pending, joiner, joinLeft, hasty,
                   answerVars>>

TakeMaximum(j, msg) ==
    /\ msg \in toJoiner[j] /\ msg.type = "MAXIMUM"
    /\ toJoiner' = [toJoiner EXCEPT ![j] = @ \ {msg}]
    /\ pending' = [pending EXCEPT ![j][msg.bank] =
                     IF Beats(msg.amount, @)
                       THEN {[amount |-> msg.amount, origin |-> msg.origin]}
                       ELSE @]
    /\ UNCHANGED <<accountVars, packetVars, mapVars, cache, joiner, joinLeft, hasty,
                   answerVars>>

(* Two EOFs: of the bank filters and of the mappers. *)
EofsSent ==
    /\ \A f \in Filters : accounts[f] = {}
    /\ \A m \in Mappers : mapper[m] # "open" /\ mapLeft[m] = {}

(***************************************************************************)
(* The thread that registers an EOF adds its prefix first and its total     *)
(* later, under other locks.  In between another thread of the leader may   *)
(* find both prefixes and begin the round.                                  *)
(***************************************************************************)
BeginHastily ==
    /\ ~hasty
    /\ EofsSent
    /\ \A j \in Joiners : joiner[j] = "open"
    /\ hasty' = TRUE
    /\ UNCHANGED <<accountVars, packetVars, mapVars, toJoiner, cache, pending, joiner,
                   joinLeft, answerVars>>

InHand == UNION {toJoiner[j] : j \in Joiners}

JoinersDrained == EofsSent /\ InHand = {}

(* The packets that each EOF announces: a name for each bank seen, a maximum  *)
(* for each bank with dollars.                                               *)
Announced == {UNION {seen[f] : f \in Filters}, {BankOf(t) : t \in {u \in Transactions : InDollars(u)}}}

(***************************************************************************)
(* The counters of both fluxes together equal the sum of the totals.  A     *)
(* total that is missing is read as 0, so the packets of one flux may be    *)
(* all that have been counted.                                              *)
(***************************************************************************)
CountersAgree ==
    \/ JoinersDrained
    \/ hasty /\ \E unread \in Announced : Cardinality(InHand) <= Cardinality(unread)

CloseJoiner(j) ==
    /\ joiner[j] = "open"
    /\ CountersAgree
    /\ joiner' = [joiner EXCEPT ![j] = "sending"]
    /\ joinLeft' = [joinLeft EXCEPT ![j] = {b \in Banks : pending[j][b] # {}}]
    /\ UNCHANGED <<accountVars, packetVars, mapVars, toJoiner, cache, pending, hasty, answerVars>>

(* A maximum without a name ("Unknown") is left out. *)
SendAnswer(j, b) ==
    /\ b \in joinLeft[j]
    /\ joinLeft' = [joinLeft EXCEPT ![j] = @ \ {b}]
    /\ \/ cache[j][b] = {} /\ UNCHANGED bankAnswers
       \/ \E n \in cache[j][b], r \in pending[j][b] :
             bankAnswers' = [bankAnswers EXCEPT ![b] =
               Append(@, [name |-> n, origin |-> r.origin, amount |-> r.amount])]
    /\ UNCHANGED <<accountVars, packetVars, mapVars, toJoiner, cache, pending, joiner, hasty,
                   smallAnswers>>

FinishJoiner(j) ==
    /\ joiner[j] = "sending"
    /\ joinLeft[j] = {}
    /\ joiner' = [joiner EXCEPT ![j] = "finished"]
    /\ cache' = [cache EXCEPT ![j] = Nothing]
    /\ pending' = [pending EXCEPT ![j] = Nothing]
    /\ UNCHANGED <<accountVars, packetVars, mapVars, toJoiner, joinLeft, hasty, answerVars>>

Sorting ==
    \/ \E f \in Filters : \E i \in accounts[f] : FilterAccount(f, i)
    \/ \E t \in Transactions : FilterCurrency(t) \/ FilterAmounts(t) \/ Redirect(t)
    \/ \E m \in Mappers : \/ \E t \in toMapper[m] : Map(m, t)
                          \/ CloseMapper(m)
                          \/ \E b \in Banks : SendMaximum(m, b)
                          \/ FinishMapper(m)

Joining ==
    \E j \in Joiners : \/ \E msg \in toJoiner[j] : TakeName(j, msg) \/ TakeMaximum(j, msg)
                       \/ CloseJoiner(j)
                       \/ \E b \in Banks : SendAnswer(j, b)
                       \/ FinishJoiner(j)

Next == Sorting \/ Joining \/ BeginHastily

Spec == Init /\ [][Next]_vars

(***************************************************************************)
(* Workers take what is in their queues, and stages that are drained close  *)
(* (ClientFinishes of EOFConsensus).  A hasty round of the joiners may wait *)
(* for ever: nothing is assumed of them after it.                           *)
(***************************************************************************)
FairSpec == Spec /\ WF_vars(Sorting) /\ WF_vars(~hasty /\ Joining)

-----------------------------------------------------------------------------
(* The dollars that left bank b. *)
DollarsOf(b) ==
    {t \in Transactions : /\ Number[t.from_bank] = b
                          /\ {t.payment_currency, t.receiving_currency} = {"US Dollar"}}

Arrived(b) ==
    DollarsOf(b) \ (gateway \cup redirected \cup UNION {toMapper[m] : m \in Mappers})

(* What a mapper holds for a bank is a largest transaction among all those   *)
(* of the bank that any mapper has taken: however the redirectors compete    *)
(* and whatever the order, the maximum is never split between mappers.       *)
MaximumIsWhole ==
    \A m \in Mappers : mapper[m] # "finished" =>
        \A b \in Banks :
            IF m = MapperOf(b) /\ Arrived(b) # {}
              THEN \E t \in Arrived(b) : /\ bankMax[m][b] = {Row(t)}
                                         /\ \A u \in Arrived(b) :
                                              u.amount_received <= t.amount_received
              ELSE bankMax[m][b] = {}

(* The name of a bank and its maximum meet: both are at one joiner, though    *)
(* one was sent there by the filters' hash of the id in the accounts file    *)
(* and the other by that of the id in the transactions.                      *)
NameMeetsMaximum ==
    \A j, k \in Joiners, b \in Banks :
        cache[j][b] # {} /\ pending[k][b] # {} => j = k

(* The rows that are right for a bank: the name in its first account row and *)
(* a largest transaction in dollars that left it.                            *)
Named(b) == {i \in DOMAIN Accounts : BankOfRow(i) = b}

RightRows ==
    [b \in Banks |->
        {[name |-> Accounts[i].bank_name, origin |-> t.account_origin, amount |-> t.amount_received] :
            i \in {k \in Named(b) : \A l \in Named(b) : k <= l},
            t \in {u \in DollarsOf(b) :
                     \A v \in DollarsOf(b) : v.amount_received <= u.amount_received}}]

Answers == INSTANCE BankAnswers WITH Right <- RightRows, answers <- bankAnswers

(* Query 2 is answered: no row is wrong or repeated, whatever the            *)
(* interleaving of the six stages and however early the joiners close; and   *)
(* for every bank with a name and dollars that left it a row comes, with its *)
(* first name and a largest amount, unless the joiners' leader begins a      *)
(* round before it has registered both totals: then rows may be left out, or *)
(* the stage never ends.                                                     *)
ImplementsAnswers == Answers!FairSpec

SmallDollars ==
    {t \in Transactions : /\ {t.payment_currency, t.receiving_currency} = {"US Dollar"}
                          /\ t.amount_received \in 1 .. 49}

(* Query 1 is answered: in the end, exactly the transactions in dollars of    *)
(* more than 0 and less than 50.                                             *)
SmallAnswered == <>[](smallAnswers = SmallDollars)
=============================================================================
