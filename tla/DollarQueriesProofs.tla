------------------------ MODULE DollarQueriesProofs -------------------------
(***************************************************************************)
(* Queries 1 and 2 for any number of filters, mappers and joiners, any     *)
(* hash and any rows: the partition by bank, and the answers.              *)
(***************************************************************************)
EXTENDS DollarQueries, TLAPS

Dollars == {t \in Transactions : InDollars(t)}

Rows == {Row(t) : t \in Transactions}

Waiting == gateway \cup redirected \cup UNION {toMapper[m] : m \in Mappers}

-----------------------------------------------------------------------------
LEMMA BankOfType == ASSUME NEW t \in Transactions PROVE BankOf(t) \in Banks
BY RowAssumption DEF BankOf, Banks

LEMMA DollarsOfBank ==
    ASSUME NEW b \in Banks
    PROVE  DollarsOf(b) = {t \in Dollars : BankOf(t) = b}
<1>1. \A t \in Transactions :
        InDollars(t) <=> {t.payment_currency, t.receiving_currency} = {"US Dollar"}
  BY DEF InDollars
<1>. QED
  BY <1>1 DEF DollarsOf, Dollars, BankOf

(***************************************************************************)
(* Where the transactions are: what is beyond the usd filters is in        *)
(* dollars, what is at a mapper is of one of its banks, and none is in two *)
(* places.                                                                 *)
(***************************************************************************)
PlaceInv ==
    /\ gateway \subseteq Transactions
    /\ redirected \subseteq Dollars
    /\ toMapper \in [Mappers -> SUBSET Dollars]
    /\ \A m \in Mappers : \A t \in toMapper[m] : MapperOf(BankOf(t)) = m
    /\ gateway \cap redirected = {}
    /\ \A m \in Mappers : toMapper[m] \cap (gateway \cup redirected) = {}
    /\ bankMax \in [Mappers -> [Banks -> SUBSET Rows]]
    /\ mapper \in [Mappers -> {"open", "sending", "finished"}]

MaximumInv == PlaceInv /\ MaximumIsWhole

LEMMA ArrivedIs == \A b \in Banks : Arrived(b) = {t \in Dollars : BankOf(t) = b /\ t \notin Waiting}
BY DollarsOfBank DEF Arrived, Waiting

LEMMA InitMaximum == Init => MaximumInv
<1> SUFFICES ASSUME Init
             PROVE  MaximumInv
  OBVIOUS
<1>1. PlaceInv
  BY DEF Init, PlaceInv, Nothing
<1>2. \A b \in Banks : Arrived(b) = {}
  BY DEF Init, Arrived, DollarsOf
<1>3. \A m \in Mappers, b \in Banks : bankMax[m][b] = {}
  BY DEF Init, Nothing
<1>. QED
  BY <1>1, <1>2, <1>3 DEF MaximumInv, MaximumIsWhole

(* A step that leaves what has arrived, and the maxima of the mappers that   *)
(* are not finished.                                                         *)
LEMMA StayMaximum ==
    ASSUME MaximumIsWhole, \A b \in Banks : Arrived(b)' = Arrived(b),
           \A m \in Mappers : mapper'[m] # "finished" =>
               mapper[m] # "finished" /\ bankMax'[m] = bankMax[m]
    PROVE  MaximumIsWhole'
<1> SUFFICES ASSUME NEW m \in Mappers, mapper'[m] # "finished", NEW b \in Banks
             PROVE  IF m = MapperOf(b) /\ Arrived(b)' # {}
                      THEN \E t \in Arrived(b)' : /\ bankMax'[m][b] = {Row(t)}
                                                  /\ \A u \in Arrived(b)' :
                                                       u.amount_received <= t.amount_received
                      ELSE bankMax'[m][b] = {}
  BY DEF MaximumIsWhole, MapperOf, Row
<1>1. mapper[m] # "finished" /\ bankMax'[m] = bankMax[m] /\ Arrived(b)' = Arrived(b)
  OBVIOUS
<1>. QED
  BY <1>1 DEF MaximumIsWhole

LEMMA FilterMaximum ==
    ASSUME MaximumInv, NEW t \in Transactions, FilterCurrency(t)
    PROVE  MaximumInv'
<1>p. PlaceInv
  BY DEF MaximumInv
<1>1. /\ t \in gateway /\ gateway' = gateway \ {t}
      /\ redirected' = redirected \cup (IF InDollars(t) THEN {t} ELSE {})
      /\ UNCHANGED <<toMapper, bankMax, mapper>>
  BY DEF FilterCurrency, mapVars
<1>2. PlaceInv'
  BY <1>p, <1>1 DEF PlaceInv, Dollars
<1>3. ASSUME NEW b \in Banks PROVE Arrived(b)' = Arrived(b)
  <2>1. CASE InDollars(t)
    <3>1. Waiting' = Waiting
      BY <1>1, <2>1 DEF Waiting
    <3>. QED
      BY <3>1 DEF Arrived, Waiting, DollarsOf
  <2>2. CASE ~InDollars(t)
    <3>1. t \notin DollarsOf(b)
      BY <2>2, DollarsOfBank DEF Dollars
    <3>2. redirected' = redirected /\ toMapper' = toMapper
      BY <1>1, <2>2
    <3>3. Arrived(b)' = DollarsOf(b) \ (gateway' \cup redirected' \cup UNION {toMapper'[m] : m \in Mappers})
      BY DEF Arrived, DollarsOf
    <3>. QED
      BY <1>1, <3>1, <3>2, <3>3 DEF Arrived
  <2>. QED
    BY <2>1, <2>2
<1>. QED
  BY <1>1, <1>2, <1>3, StayMaximum DEF MaximumInv

LEMMA RedirectMaximum ==
    ASSUME MaximumInv, NEW t \in Transactions, Redirect(t)
    PROVE  MaximumInv'
<1> DEFINE n == MapperOf(BankOf(t))
<1>p. PlaceInv
  BY DEF MaximumInv
<1>1. /\ t \in redirected /\ redirected' = redirected \ {t}
      /\ toMapper' = [toMapper EXCEPT ![n] = @ \cup {t}]
      /\ UNCHANGED <<gateway, bankMax, mapper>>
  BY DEF Redirect, mapVars
<1>2. n \in Mappers
  <2>1. Hash[BankOf(t)] \in Nat
    BY BankOfType, RowAssumption
  <2>. QED
    BY <2>1, AmountAssumption DEF MapperOf, Mappers
<1>3. t \in Dollars /\ t \notin gateway /\ \A m \in Mappers : t \notin toMapper[m]
  BY <1>p, <1>1 DEF PlaceInv
<1>4. /\ toMapper'[n] = toMapper[n] \cup {t}
      /\ \A m \in Mappers \ {n} : toMapper'[m] = toMapper[m]
  BY <1>p, <1>1, <1>2 DEF PlaceInv
<1>5. PlaceInv'
  <2>1. toMapper' \in [Mappers -> SUBSET Dollars]
    BY <1>p, <1>1, <1>2, <1>3 DEF PlaceInv
  <2>2. \A m \in Mappers : \A u \in toMapper'[m] : MapperOf(BankOf(u)) = m
    BY <1>p, <1>4 DEF PlaceInv
  <2>3. \A m \in Mappers : toMapper'[m] \cap (gateway' \cup redirected') = {}
    BY <1>p, <1>1, <1>3, <1>4 DEF PlaceInv
  <2>. QED
    BY <1>p, <1>1, <2>1, <2>2, <2>3 DEF PlaceInv, MapperOf, BankOf
<1>6. Waiting' = Waiting
  BY <1>1, <1>2, <1>4 DEF Waiting
<1>7. \A b \in Banks : Arrived(b)' = Arrived(b)
  BY <1>6 DEF Arrived, Waiting, DollarsOf
<1>. QED
  BY <1>1, <1>5, <1>7, StayMaximum DEF MaximumInv

(* The mapper takes a transaction of one of its banks: the new maximum is    *)
(* the largest of those that arrived, with it.                               *)
LEMMA MapMaximum ==
    ASSUME MaximumInv, NEW n \in Mappers, NEW t \in toMapper[n], Map(n, t)
    PROVE  MaximumInv'
<1> DEFINE k == BankOf(t)
<1>p. PlaceInv /\ MaximumIsWhole
  BY DEF MaximumInv
<1>1. /\ toMapper' = [toMapper EXCEPT ![n] = @ \ {t}]
      /\ bankMax' = [bankMax EXCEPT ![n][k] = IF Beats(t.amount_received, @) THEN {Row(t)} ELSE @]
      /\ UNCHANGED <<gateway, redirected, mapper>>
  BY DEF Map
<1>2. /\ t \in Dollars /\ t \in Transactions /\ k \in Banks /\ MapperOf(k) = n
      /\ t \notin gateway \cup redirected
  BY <1>p, BankOfType DEF PlaceInv, Dollars
<1>3. /\ toMapper'[n] = toMapper[n] \ {t}
      /\ \A m \in Mappers \ {n} : toMapper'[m] = toMapper[m] /\ t \notin toMapper[m]
  BY <1>p, <1>1, <1>2 DEF PlaceInv
<1>4. /\ bankMax'[n][k] = IF Beats(t.amount_received, bankMax[n][k]) THEN {Row(t)} ELSE bankMax[n][k]
      /\ \A m \in Mappers, b \in Banks : m # n \/ b # k => bankMax'[m][b] = bankMax[m][b]
  BY <1>p, <1>1, <1>2 DEF PlaceInv
<1>5. PlaceInv'
  <2>1. toMapper' \in [Mappers -> SUBSET Dollars]
    BY <1>p, <1>1 DEF PlaceInv
  <2>2. bankMax' \in [Mappers -> [Banks -> SUBSET Rows]]
    BY <1>p, <1>1, <1>2 DEF PlaceInv, Rows
  <2>3. \A m \in Mappers : toMapper'[m] \subseteq toMapper[m]
    BY <1>3
  <2>. QED
    BY <1>p, <1>1, <2>1, <2>2, <2>3 DEF PlaceInv, MapperOf, BankOf
<1>6. Waiting' = Waiting \ {t} /\ t \in Waiting
  <2>1. \A u : u \in UNION {toMapper'[m] : m \in Mappers} <=> \E m \in Mappers : u \in toMapper'[m]
    OBVIOUS
  <2>2. \A u : u \in UNION {toMapper[m] : m \in Mappers} <=> \E m \in Mappers : u \in toMapper[m]
    OBVIOUS
  <2>3. \A u : (\E m \in Mappers : u \in toMapper'[m]) <=> u # t /\ \E m \in Mappers : u \in toMapper[m]
    BY <1>3
  <2>. QED
    BY <1>1, <1>2, <2>1, <2>2, <2>3 DEF Waiting
<1>7. \A b \in Banks : Arrived(b)' = IF b = k THEN Arrived(b) \cup {t} ELSE Arrived(b)
  <2>1. \A b \in Banks : Arrived(b)' = {u \in Dollars : BankOf(u) = b /\ u \notin Waiting'}
    BY DollarsOfBank DEF Arrived, Waiting, DollarsOf
  <2>. QED
    BY <1>2, <1>6, <2>1, ArrivedIs
<1>8. ASSUME NEW m \in Mappers, mapper'[m] # "finished", NEW b \in Banks
      PROVE  IF m = MapperOf(b) /\ Arrived(b)' # {}
               THEN \E u \in Arrived(b)' : /\ bankMax'[m][b] = {Row(u)}
                                           /\ \A v \in Arrived(b)' :
                                                v.amount_received <= u.amount_received
               ELSE bankMax'[m][b] = {}
  <2>0. mapper[m] # "finished"
    BY <1>1, <1>8
  <2>1. CASE b # k
    BY <1>4, <1>7, <1>p, <2>0, <2>1 DEF MaximumIsWhole
  <2>2. CASE b = k /\ m # n
    BY <1>2, <1>4, <1>p, <2>0, <2>2 DEF MaximumIsWhole
  <2>3. CASE b = k /\ m = n
    <3>0. Arrived(k)' = Arrived(k) \cup {t} /\ \A u \in Arrived(k) : u.amount_received \in Nat
      BY <1>2, <1>7, RowAssumption, ArrivedIs DEF Dollars
    <3>1. t.amount_received \in Nat
      BY <1>2, RowAssumption
    <3>2. CASE Arrived(k) = {}
      <4>1. bankMax[n][k] = {}
        BY <1>2, <1>p, <2>0, <2>3, <3>2 DEF MaximumIsWhole
      <4>2. bankMax'[n][k] = {Row(t)}
        BY <1>4, <4>1 DEF Beats
      <4>. QED
        BY <1>2, <2>3, <3>0, <3>1, <3>2, <4>2
    <3>3. CASE Arrived(k) # {}
      <4>1. PICK u \in Arrived(k) : /\ bankMax[n][k] = {Row(u)}
                                    /\ \A v \in Arrived(k) : v.amount_received <= u.amount_received
        BY <1>2, <1>p, <2>0, <2>3, <3>3 DEF MaximumIsWhole
      <4>2. Beats(t.amount_received, bankMax[n][k]) <=> t.amount_received > u.amount_received
        BY <4>1 DEF Beats, Row
      <4>3. CASE t.amount_received > u.amount_received
        <5>1. bankMax'[n][k] = {Row(t)}
          BY <1>4, <4>2, <4>3
        <5>2. \A v \in Arrived(k)' : v.amount_received <= t.amount_received
          BY <3>0, <3>1, <4>1, <4>3
        <5>. QED
          BY <1>2, <2>3, <3>0, <5>1, <5>2
      <4>4. CASE ~(t.amount_received > u.amount_received)
        <5>1. bankMax'[n][k] = {Row(u)}
          BY <1>4, <4>1, <4>2, <4>4
        <5>2. \A v \in Arrived(k)' : v.amount_received <= u.amount_received
          BY <3>0, <3>1, <4>1, <4>4
        <5>. QED
          BY <1>2, <2>3, <3>0, <5>1, <5>2
      <4>. QED
        BY <4>3, <4>4
    <3>. QED
      BY <3>2, <3>3
  <2>. QED
    BY <2>1, <2>2, <2>3
<1>9. MaximumIsWhole'
  BY <1>8 DEF MaximumIsWhole, MapperOf, Row
<1>. QED
  BY <1>5, <1>9 DEF MaximumInv

LEMMA FinishMaximum ==
    ASSUME MaximumInv, NEW n \in Mappers, CloseMapper(n) \/ FinishMapper(n)
    PROVE  MaximumInv'
<1>p. PlaceInv
  BY DEF MaximumInv
<1>1. UNCHANGED packetVars /\ UNCHANGED <<gateway, redirected, toMapper>>
  BY DEF CloseMapper, FinishMapper, packetVars
<1>2. PICK where \in {"sending", "finished"} :
        mapper' = [mapper EXCEPT ![n] = where] /\ (where = "sending" => mapper[n] = "open")
  BY DEF CloseMapper, FinishMapper
<1>3. /\ bankMax' \in [Mappers -> [Banks -> SUBSET Rows]]
      /\ \A m \in Mappers : mapper'[m] # "finished" => bankMax'[m] = bankMax[m]
  <2>1. CASE CloseMapper(n)
    BY <1>p, <2>1 DEF CloseMapper, PlaceInv
  <2>2. CASE FinishMapper(n)
    <3>1. /\ mapper' = [mapper EXCEPT ![n] = "finished"]
          /\ bankMax' = [bankMax EXCEPT ![n] = Nothing]
      BY <2>2 DEF FinishMapper
    <3>2. Nothing \in [Banks -> SUBSET Rows]
      BY DEF Nothing
    <3>. QED
      BY <1>p, <3>1, <3>2 DEF PlaceInv
  <2>. QED
    BY <2>1, <2>2
<1>4. PlaceInv'
  BY <1>p, <1>1, <1>2, <1>3 DEF PlaceInv, MapperOf, BankOf
<1>5. \A m \in Mappers : mapper'[m] # "finished" => mapper[m] # "finished"
  BY <1>p, <1>2 DEF PlaceInv
<1>6. \A b \in Banks : Arrived(b)' = Arrived(b)
  BY <1>1 DEF Arrived, DollarsOf
<1>. QED
  BY <1>3, <1>4, <1>5, <1>6, StayMaximum DEF MaximumInv

LEMMA OtherMaximum ==
    ASSUME MaximumInv, UNCHANGED <<gateway, redirected, toMapper, bankMax, mapper>>
    PROVE  MaximumInv'
<1>1. PlaceInv'
  BY DEF MaximumInv, PlaceInv, MapperOf, BankOf
<1>2. \A b \in Banks : Arrived(b)' = Arrived(b)
  BY DEF Arrived, DollarsOf
<1>. QED
  BY <1>1, <1>2, StayMaximum DEF MaximumInv

LEMMA NextMaximum == MaximumInv /\ [Next]_vars => MaximumInv'
<1> SUFFICES ASSUME MaximumInv, [Next]_vars
             PROVE  MaximumInv'
  OBVIOUS
<1>1. CASE UNCHANGED vars
  BY <1>1, OtherMaximum DEF vars, packetVars, mapVars
<1>2. ASSUME NEW f \in Filters, NEW i \in accounts[f], FilterAccount(f, i)
      PROVE  MaximumInv'
  BY <1>2, OtherMaximum DEF FilterAccount, packetVars, mapVars
<1>3. ASSUME NEW t \in Transactions, FilterCurrency(t) \/ FilterAmounts(t) \/ Redirect(t)
      PROVE  MaximumInv'
  <2>1. CASE FilterAmounts(t)
    BY <2>1, OtherMaximum DEF FilterAmounts, mapVars
  <2>. QED
    BY <1>3, <2>1, FilterMaximum, RedirectMaximum
<1>4. ASSUME NEW m \in Mappers, NEW b \in Banks, SendMaximum(m, b)
      PROVE  MaximumInv'
  BY <1>4, OtherMaximum DEF SendMaximum, packetVars
<1>5. ASSUME NEW j \in Joiners,
             \/ \E msg \in toJoiner[j] : TakeName(j, msg) \/ TakeMaximum(j, msg)
             \/ CloseJoiner(j)
             \/ \E b \in Banks : SendAnswer(j, b)
             \/ FinishJoiner(j)
      PROVE  MaximumInv'
  <2>1. UNCHANGED <<packetVars, mapVars>>
    BY <1>5 DEF TakeName, TakeMaximum, CloseJoiner, SendAnswer, FinishJoiner
  <2>. QED
    BY <2>1, OtherMaximum DEF packetVars, mapVars
<1>6. CASE BeginHastily
  BY <1>6, OtherMaximum DEF BeginHastily, packetVars, mapVars
<1>. QED
  BY <1>1, <1>2, <1>3, <1>4, <1>5, <1>6, MapMaximum, FinishMaximum DEF Next, Sorting, Joining

(* What a mapper holds for a bank is a largest transaction among all those   *)
(* of the bank that any mapper has taken: the maximum is never split between *)
(* mappers, whatever the amounts, the hash and the order.                    *)
THEOREM MaximumIsWholeHolds == Spec => []MaximumIsWhole
<1>1. MaximumInv => MaximumIsWhole
  BY DEF MaximumInv
<1>. QED
  BY <1>1, InitMaximum, NextMaximum, PTL DEF Spec

-----------------------------------------------------------------------------
(***************************************************************************)
(* Names and maxima: each waits, or is kept, at the joiner its sender      *)
(* computed from the bank.                                                 *)
(***************************************************************************)
MeetShape ==
    /\ toJoiner = [j \in Joiners |-> toJoiner[j]]
    /\ cache = [j \in Joiners |-> [b \in Banks |-> cache[j][b]]]
    /\ pending = [j \in Joiners |-> [b \in Banks |-> pending[j][b]]]

MeetPlace ==
    /\ \A j \in Joiners : \A msg \in toJoiner[j] :
         /\ msg.type = "NAME" => j = JoinerOfName(msg.bank)
         /\ msg.type = "MAXIMUM" => j = JoinerOfMaximum(msg.bank)
    /\ \A j \in Joiners, b \in Banks : /\ cache[j][b] # {} => j = JoinerOfName(b)
                                       /\ pending[j][b] # {} => j = JoinerOfMaximum(b)

MeetInv == MeetShape /\ MeetPlace

LEMMA InitMeet == Init => MeetInv
BY DEF Init, MeetInv, MeetShape, MeetPlace, Nothing

LEMMA SendMeet ==
    ASSUME MeetInv, NEW j, NEW msg, Send(j, msg), UNCHANGED <<cache, pending>>,
           msg.type = "NAME" => j = JoinerOfName(msg.bank),
           msg.type = "MAXIMUM" => j = JoinerOfMaximum(msg.bank)
    PROVE  MeetInv'
<1>1. toJoiner' = [toJoiner EXCEPT ![j] = @ \cup {msg}] /\ cache' = cache /\ pending' = pending
  BY DEF Send
<1>2. toJoiner = [x \in Joiners |-> toJoiner[x]]
  BY DEF MeetInv, MeetShape, MeetPlace
<1>3. toJoiner' = [x \in Joiners |-> toJoiner'[x]]
  BY <1>1, <1>2
<1>4. ASSUME NEW x \in Joiners, NEW u \in toJoiner'[x]
      PROVE  /\ u.type = "NAME" => x = JoinerOfName(u.bank)
             /\ u.type = "MAXIMUM" => x = JoinerOfMaximum(u.bank)
  <2>1. u \in toJoiner[x] \/ (x = j /\ u = msg)
    BY <1>1, <1>2, <1>4
  <2>. QED
    BY <2>1 DEF MeetInv, MeetShape, MeetPlace
<1>. QED
  BY <1>1, <1>3, <1>4 DEF MeetInv, MeetShape, MeetPlace, JoinerOfName, JoinerOfMaximum

LEMMA OtherMeet ==
    ASSUME MeetInv, UNCHANGED <<toJoiner, cache, pending>>
    PROVE  MeetInv'
BY DEF MeetInv, MeetShape, MeetPlace, JoinerOfName, JoinerOfMaximum

LEMMA TakeNameMeet ==
    ASSUME MeetInv, NEW j \in Joiners, NEW msg \in toJoiner[j], TakeName(j, msg)
    PROVE  MeetInv'
<1>1. /\ msg.type = "NAME" /\ toJoiner' = [toJoiner EXCEPT ![j] = @ \ {msg}]
      /\ cache' = [cache EXCEPT ![j][msg.bank] = {msg.name}] /\ pending' = pending
  BY DEF TakeName
<1>2. /\ toJoiner = [x \in Joiners |-> toJoiner[x]]
      /\ cache = [x \in Joiners |-> [b \in Banks |-> cache[x][b]]]
      /\ j = JoinerOfName(msg.bank)
  BY <1>1 DEF MeetInv, MeetShape, MeetPlace
<1>3. /\ toJoiner' = [x \in Joiners |-> toJoiner'[x]]
      /\ \A x \in Joiners : toJoiner'[x] \subseteq toJoiner[x]
  BY <1>1, <1>2
<1>4. cache[j] = [b \in Banks |-> cache[j][b]]
  BY <1>2
<1>5. cache'[j] = [cache[j] EXCEPT ![msg.bank] = {msg.name}]
      /\ \A x \in Joiners \ {j} : cache'[x] = cache[x]
  BY <1>1, <1>2
<1>6. cache'[j] = [b \in Banks |-> cache'[j][b]]
  BY <1>4, <1>5
<1>7. cache' = [x \in Joiners |-> [b \in Banks |-> cache'[x][b]]]
  <2>1. cache' = [x \in Joiners |-> cache'[x]]
    BY <1>1, <1>2
  <2>2. \A x \in Joiners \ {j} : cache[x] = [b \in Banks |-> cache[x][b]]
    BY <1>2
  <2>3. \A x \in Joiners : cache'[x] = [b \in Banks |-> cache'[x][b]]
    BY <1>5, <1>6, <2>2
  <2>. QED
    BY <2>1, <2>3
<1>8. \A x \in Joiners, b \in Banks : cache'[x][b] # {} => x = JoinerOfName(b)
  <2>1. \A x \in Joiners, b \in Banks : cache'[x][b] # cache[x][b] => x = j /\ b = msg.bank
    BY <1>4, <1>5
  <2>. QED
    BY <1>2, <2>1 DEF MeetInv, MeetShape, MeetPlace
<1>9. MeetShape'
  BY <1>1, <1>3, <1>7 DEF MeetInv, MeetShape
<1>10. MeetPlace'
  BY <1>1, <1>3, <1>8 DEF MeetInv, MeetPlace, JoinerOfName, JoinerOfMaximum
<1>. QED
  BY <1>9, <1>10 DEF MeetInv

LEMMA TakeMaximumMeet ==
    ASSUME MeetInv, NEW j \in Joiners, NEW msg \in toJoiner[j], TakeMaximum(j, msg)
    PROVE  MeetInv'
<1> DEFINE new == IF Beats(msg.amount, pending[j][msg.bank])
                    THEN {[amount |-> msg.amount, origin |-> msg.origin]}
                    ELSE pending[j][msg.bank]
<1>1. /\ msg.type = "MAXIMUM" /\ toJoiner' = [toJoiner EXCEPT ![j] = @ \ {msg}]
      /\ pending' = [pending EXCEPT ![j][msg.bank] = new] /\ cache' = cache
  BY DEF TakeMaximum
<1>. HIDE DEF new
<1>2. /\ toJoiner = [x \in Joiners |-> toJoiner[x]]
      /\ pending = [x \in Joiners |-> [b \in Banks |-> pending[x][b]]]
      /\ j = JoinerOfMaximum(msg.bank)
  BY <1>1 DEF MeetInv, MeetShape, MeetPlace
<1>3. /\ toJoiner' = [x \in Joiners |-> toJoiner'[x]]
      /\ \A x \in Joiners : toJoiner'[x] \subseteq toJoiner[x]
  BY <1>1, <1>2
<1>4. pending[j] = [b \in Banks |-> pending[j][b]]
  BY <1>2
<1>5. pending'[j] = [pending[j] EXCEPT ![msg.bank] = new]
      /\ \A x \in Joiners \ {j} : pending'[x] = pending[x]
  BY <1>1, <1>2
<1>6. pending'[j] = [b \in Banks |-> pending'[j][b]]
  BY <1>4, <1>5
<1>7. pending' = [x \in Joiners |-> [b \in Banks |-> pending'[x][b]]]
  <2>1. pending' = [x \in Joiners |-> pending'[x]]
    BY <1>1, <1>2
  <2>2. \A x \in Joiners \ {j} : pending[x] = [b \in Banks |-> pending[x][b]]
    BY <1>2
  <2>3. \A x \in Joiners : pending'[x] = [b \in Banks |-> pending'[x][b]]
    BY <1>5, <1>6, <2>2
  <2>. QED
    BY <2>1, <2>3
<1>8. \A x \in Joiners, b \in Banks : pending'[x][b] # {} => x = JoinerOfMaximum(b)
  <2>1. \A x \in Joiners, b \in Banks : pending'[x][b] # pending[x][b] => x = j /\ b = msg.bank
    BY <1>4, <1>5
  <2>. QED
    BY <1>2, <2>1 DEF MeetInv, MeetShape, MeetPlace
<1>9. MeetShape'
  BY <1>1, <1>3, <1>7 DEF MeetInv, MeetShape
<1>10. MeetPlace'
  BY <1>1, <1>3, <1>8 DEF MeetInv, MeetPlace, JoinerOfName, JoinerOfMaximum
<1>. QED
  BY <1>9, <1>10 DEF MeetInv

LEMMA FinishMeet ==
    ASSUME MeetInv, NEW j \in Joiners, FinishJoiner(j)
    PROVE  MeetInv'
<1>1. /\ toJoiner' = toJoiner
      /\ cache' = [cache EXCEPT ![j] = Nothing] /\ pending' = [pending EXCEPT ![j] = Nothing]
  BY DEF FinishJoiner
<1>2. /\ cache = [x \in Joiners |-> [b \in Banks |-> cache[x][b]]]
      /\ pending = [x \in Joiners |-> [b \in Banks |-> pending[x][b]]]
  BY DEF MeetInv, MeetShape, MeetPlace
<1>3. \A x \in Joiners : /\ cache'[x] = IF x = j THEN Nothing ELSE cache[x]
                         /\ pending'[x] = IF x = j THEN Nothing ELSE pending[x]
  BY <1>1, <1>2
<1>4. \A x \in Joiners : /\ cache[x] = [b \in Banks |-> cache[x][b]]
                         /\ pending[x] = [b \in Banks |-> pending[x][b]]
  BY <1>2
<1>5. cache' = [x \in Joiners |-> cache'[x]] /\ pending' = [x \in Joiners |-> pending'[x]]
  BY <1>1, <1>2
<1>6. \A x \in Joiners : /\ cache'[x] = [b \in Banks |-> cache'[x][b]]
                         /\ pending'[x] = [b \in Banks |-> pending'[x][b]]
  BY <1>3, <1>4 DEF Nothing
<1>7. \A x \in Joiners, b \in Banks : /\ cache'[x][b] # {} => cache[x][b] # {}
                                      /\ pending'[x][b] # {} => pending[x][b] # {}
  BY <1>3 DEF Nothing
<1>8. /\ cache' = [x \in Joiners |-> [b \in Banks |-> cache'[x][b]]]
      /\ pending' = [x \in Joiners |-> [b \in Banks |-> pending'[x][b]]]
  BY <1>5, <1>6
<1>9. MeetShape'
  BY <1>1, <1>8 DEF MeetInv, MeetShape
<1>10. MeetPlace'
  BY <1>1, <1>7 DEF MeetInv, MeetPlace, JoinerOfName, JoinerOfMaximum
<1>. QED
  BY <1>9, <1>10 DEF MeetInv

LEMMA NextMeet == MeetInv /\ [Next]_vars => MeetInv'
<1> SUFFICES ASSUME MeetInv, [Next]_vars
             PROVE  MeetInv'
  OBVIOUS
<1>1. CASE UNCHANGED vars
  BY <1>1, OtherMeet DEF vars, joinVars
<1>2. ASSUME NEW f \in Filters, NEW i \in accounts[f], FilterAccount(f, i)
      PROVE  MeetInv'
  <2> DEFINE b == BankOfRow(i)
  <2>1. UNCHANGED <<cache, pending>> /\ (toJoiner' = toJoiner \/ Send(JoinerOfName(b), NameOf(i)))
    BY <1>2 DEF FilterAccount, joinVars
  <2>2. NameOf(i).type = "NAME" /\ NameOf(i).bank = b
    BY DEF NameOf
  <2>. HIDE DEF b
  <2>3. CASE toJoiner' = toJoiner
    BY <2>1, <2>3, OtherMeet
  <2>4. CASE Send(JoinerOfName(b), NameOf(i))
    BY <2>1, <2>2, <2>4, SendMeet
  <2>. QED
    BY <2>1, <2>3, <2>4
<1>3. ASSUME NEW t \in Transactions, FilterCurrency(t) \/ FilterAmounts(t) \/ Redirect(t)
      PROVE  MeetInv'
  BY <1>3, OtherMeet DEF FilterCurrency, FilterAmounts, Redirect, joinVars
<1>4. ASSUME NEW m \in Mappers,
             (\E t \in toMapper[m] : Map(m, t)) \/ CloseMapper(m) \/ FinishMapper(m)
      PROVE  MeetInv'
  BY <1>4, OtherMeet DEF Map, CloseMapper, FinishMapper, joinVars
<1>5. ASSUME NEW m \in Mappers, NEW b \in Banks, SendMaximum(m, b)
      PROVE  MeetInv'
  <2>1. PICK r \in bankMax[m][b] :
          Send(JoinerOfMaximum(b),
               [type |-> "MAXIMUM", bank |-> b, amount |-> r.amount, origin |-> r.origin])
    BY <1>5 DEF SendMaximum
  <2> DEFINE msg == [type |-> "MAXIMUM", bank |-> b, amount |-> r.amount, origin |-> r.origin]
  <2>2. msg.type = "MAXIMUM" /\ msg.bank = b /\ Send(JoinerOfMaximum(b), msg)
    BY <2>1
  <2>3. UNCHANGED <<cache, pending>>
    BY <1>5 DEF SendMaximum, joinVars
  <2>. HIDE DEF msg
  <2>. QED
    BY <2>2, <2>3, SendMeet
<1>6. ASSUME NEW j \in Joiners, CloseJoiner(j) \/ \E b \in Banks : SendAnswer(j, b)
      PROVE  MeetInv'
  BY <1>6, OtherMeet DEF CloseJoiner, SendAnswer
<1>7. CASE BeginHastily
  BY <1>7, OtherMeet DEF BeginHastily
<1>. QED
  BY <1>1, <1>2, <1>3, <1>4, <1>5, <1>6, <1>7, TakeNameMeet, TakeMaximumMeet, FinishMeet
     DEF Next, Sorting, Joining

(* The name of a bank and its maximum never come to rest at two joiners: the *)
(* filters and the mappers compute the same one, from ids of two files.      *)
THEOREM NameMeetsMaximumHolds == Spec => []NameMeetsMaximum
<1>1. MeetInv => NameMeetsMaximum
  BY DEF MeetInv, MeetShape, MeetPlace, NameMeetsMaximum, JoinerOfName, JoinerOfMaximum
<1>. QED
  BY <1>1, InitMeet, NextMeet, PTL DEF Spec

-----------------------------------------------------------------------------
(***************************************************************************)
(* The answers.  Query 2 gives no row that is wrong and none twice, and     *)
(* when its joiners have finished none is missing.                         *)
(***************************************************************************)
RightNames(b) == {Accounts[i].bank_name : i \in {k \in Named(b) : \A l \in Named(b) : k <= l}}

RightMaxima(b) ==
    {Row(t) : t \in {u \in DollarsOf(b) :
                       \A v \in DollarsOf(b) : v.amount_received <= u.amount_received}}

(* Of a bank that a filter has not seen no row is taken. *)
FilterInv ==
    /\ accounts \in [Filters -> SUBSET DOMAIN Accounts]
    /\ seen \in [Filters -> SUBSET Banks]
    /\ \A f \in Filters : \A i \in accounts[f] : FilterOf(BankOfRow(i)) = f
    /\ \A b \in Banks : b \notin seen[FilterOf(b)] => Named(b) \subseteq accounts[FilterOf(b)]

(* A mapper that closes finds nothing left of its stage, and this remains so. *)
MapperInv ==
    /\ mapLeft \in [Mappers -> SUBSET Banks]
    /\ \A m \in Mappers : mapper[m] # "open" => MappersDrained
    /\ \A m \in Mappers : mapLeft[m] # {} => mapper[m] = "sending"

IsRight(msg) ==
    /\ msg.bank \in Banks
    /\ \/ msg.type = "NAME" /\ msg.name \in RightNames(msg.bank)
       \/ /\ msg.type = "MAXIMUM"
          /\ [amount |-> msg.amount, origin |-> msg.origin] \in RightMaxima(msg.bank)

(* What is on its way to a joiner, or kept there, is right. *)
RightInv ==
    /\ \A j \in Joiners : \A msg \in toJoiner[j] : IsRight(msg)
    /\ \A j \in Joiners, b \in Banks : /\ cache[j][b] \subseteq RightNames(b)
                                       /\ pending[j][b] \subseteq RightMaxima(b)

Coming(type, b) == \E msg \in toJoiner[JoinerOfName(b)] : msg.type = type /\ msg.bank = b

(* Until its joiner has finished, the name of a bank that was seen, and the   *)
(* maximum of one that has dollars, are on their way or kept.               *)
KeptInv ==
    \A b \in Banks :
      joiner[JoinerOfName(b)] # "finished" =>
        /\ b \in seen[FilterOf(b)] => Coming("NAME", b) \/ cache[JoinerOfName(b)][b] # {}
        /\ DollarsOf(b) # {} /\ mapper[MapperOf(b)] # "open" =>
             \/ b \in mapLeft[MapperOf(b)]
             \/ Coming("MAXIMUM", b)
             \/ pending[JoinerOfName(b)][b] # {}

(* Each bank is answered once, by its joiner after it has closed; and while   *)
(* nothing is hasty a joiner that closes finds all there is.                 *)
AnswerInv ==
    /\ joiner \in [Joiners -> {"open", "sending", "finished"}]
    /\ joinLeft \in [Joiners -> SUBSET Banks]
    /\ bankAnswers = [b \in Banks |-> bankAnswers[b]]
    /\ \A j \in Joiners : \A b \in joinLeft[j] : joiner[j] = "sending" /\ j = JoinerOfName(b)
    /\ \A b \in Banks : bankAnswers[b] # <<>> =>
         joiner[JoinerOfName(b)] # "open" /\ b \notin joinLeft[JoinerOfName(b)]
    /\ ~hasty =>
         /\ \A j \in Joiners : joiner[j] # "open" => JoinersDrained
         /\ \A b \in Banks :
              joiner[JoinerOfName(b)] # "open" /\ Named(b) # {} /\ DollarsOf(b) # {} =>
                b \in joinLeft[JoinerOfName(b)] \/ bankAnswers[b] # <<>>

WayInv == FilterInv /\ MapperInv /\ RightInv /\ KeptInv /\ AnswerInv

AnswersInv == MaximumInv /\ MeetInv /\ WayInv

LEMMA Shards ==
    ASSUME NEW b \in Banks
    PROVE  /\ FilterOf(b) \in Filters /\ MapperOf(b) \in Mappers /\ JoinerOfName(b) \in Joiners
           /\ JoinerOfMaximum(b) = JoinerOfName(b)
<1>1. Hash[b] \in Nat
  BY RowAssumption
<1>. QED
  BY <1>1, AmountAssumption
     DEF FilterOf, MapperOf, JoinerOfName, JoinerOfMaximum, Filters, Mappers, Joiners

LEMMA RowOf ==
    ASSUME NEW i \in DOMAIN Accounts
    PROVE  i \in Nat /\ BankOfRow(i) \in Banks /\ i \in Named(BankOfRow(i))
BY RowAssumption DEF BankOfRow, Banks, Named

LEMMA RightRow ==
    ASSUME NEW b \in Banks
    PROVE  /\ \A n \in RightNames(b), r \in RightMaxima(b) :
                [name |-> n, origin |-> r.origin, amount |-> r.amount] \in RightRows[b]
           /\ RightRows[b] # {} => Named(b) # {} /\ DollarsOf(b) # {}
<1>1. ASSUME NEW n \in RightNames(b), NEW r \in RightMaxima(b)
      PROVE  [name |-> n, origin |-> r.origin, amount |-> r.amount] \in RightRows[b]
  <2>1. PICK i \in {k \in Named(b) : \A l \in Named(b) : k <= l} : n = Accounts[i].bank_name
    BY DEF RightNames
  <2>2. PICK t \in {u \in DollarsOf(b) : \A v \in DollarsOf(b) : v.amount_received <= u.amount_received} :
          r = Row(t)
    BY DEF RightMaxima
  <2>3. r.origin = t.account_origin /\ r.amount = t.amount_received
    BY <2>2 DEF Row
  <2>. QED
    BY <2>1, <2>2, <2>3 DEF RightRows
<1>2. RightRows[b] # {} => Named(b) # {} /\ DollarsOf(b) # {}
  BY DEF RightRows
<1>. QED
  BY <1>1, <1>2

LEMMA InitWay == Init => WayInv
<1> SUFFICES ASSUME Init
             PROVE  WayInv
  OBVIOUS
<1>1. FilterInv
  BY RowOf, Shards DEF Init, FilterInv, Named
<1>2. MapperInv
  BY DEF Init, MapperInv
<1>3. RightInv
  BY DEF Init, RightInv, Nothing
<1>4. KeptInv
  BY Shards DEF Init, KeptInv
<1>5. AnswerInv
  BY Shards DEF Init, AnswerInv
<1>. QED
  BY <1>1, <1>2, <1>3, <1>4, <1>5 DEF WayInv

-----------------------------------------------------------------------------
(* The bank filters: the first row of a bank that is taken is its first row. *)
LEMMA FilterNext ==
    ASSUME FilterInv, NEW f \in Filters, NEW i \in accounts[f], FilterAccount(f, i)
    PROVE  /\ FilterInv'
           /\ BankOfRow(i) \in Banks
           /\ BankOfRow(i) \notin seen[f] => Accounts[i].bank_name \in RightNames(BankOfRow(i))
           /\ seen'[f] = seen[f] \cup {BankOfRow(i)}
           /\ FilterOf(BankOfRow(i)) = f
           /\ \A g \in Filters \ {f} : seen'[g] = seen[g]
<1> DEFINE k == BankOfRow(i)
<1>1. /\ i \in DOMAIN Accounts /\ \A x \in accounts[f] : i <= x
      /\ accounts' = [accounts EXCEPT ![f] = @ \ {i}]
  BY DEF FilterAccount, IsNextRow, FilterInv
<1>2. k \in Banks /\ i \in Named(k) /\ FilterOf(k) = f
  BY <1>1, RowOf DEF FilterInv
<1>3. (seen' = seen /\ k \in seen[f]) \/ (k \notin seen[f] /\ seen' = [seen EXCEPT ![f] = @ \cup {k}])
  BY DEF FilterAccount
<1>. HIDE DEF k
<1>4. /\ seen'[f] = seen[f] \cup {k}
      /\ \A g \in Filters \ {f} : seen'[g] = seen[g]
      /\ seen' \in [Filters -> SUBSET Banks]
  BY <1>2, <1>3 DEF FilterInv
<1>5. /\ accounts'[f] = accounts[f] \ {i}
      /\ \A g \in Filters \ {f} : accounts'[g] = accounts[g]
      /\ accounts' \in [Filters -> SUBSET DOMAIN Accounts]
  BY <1>1 DEF FilterInv
<1>6. k \notin seen[f] => Accounts[i].bank_name \in RightNames(k)
  BY <1>1, <1>2 DEF FilterInv, RightNames
<1>7. ASSUME NEW b \in Banks, b \notin seen'[FilterOf(b)]
      PROVE  Named(b) \subseteq accounts'[FilterOf(b)]
  <2>1. FilterOf(b) \in Filters /\ b # k
    BY <1>2, <1>4, <1>7, Shards
  <2>2. i \notin Named(b)
    BY <2>1 DEF Named, k
  <2>3. Named(b) \subseteq accounts[FilterOf(b)]
    BY <1>4, <1>7, <2>1 DEF FilterInv
  <2>. QED
    BY <1>5, <2>1, <2>2, <2>3
<1>8. \A g \in Filters : \A x \in accounts'[g] : FilterOf(BankOfRow(x)) = g
  BY <1>5 DEF FilterInv
<1>9. FilterInv'
  BY <1>4, <1>5, <1>7, <1>8 DEF FilterInv, FilterOf, BankOfRow, Named
<1>. QED
  BY <1>2, <1>4, <1>6, <1>9 DEF k

LEMMA OtherFilter ==
    ASSUME FilterInv, UNCHANGED accountVars
    PROVE  FilterInv'
BY DEF FilterInv, accountVars, FilterOf, BankOfRow, Named

-----------------------------------------------------------------------------
(* The mappers: when one is no longer open, no step adds to their stage.     *)
LEMMA MapperNext ==
    ASSUME MaximumInv, MapperInv, [Next]_vars
    PROVE  MapperInv'
<1>p. PlaceInv
  BY DEF MaximumInv
<1>1. CASE UNCHANGED <<gateway, redirected, toMapper, mapper, mapLeft>>
  BY <1>1 DEF MapperInv, MappersDrained
<1>2. ASSUME NEW t \in Transactions, FilterCurrency(t) \/ Redirect(t) PROVE MapperInv'
  <2>1. UNCHANGED <<mapper, mapLeft>> /\ ~MappersDrained
    BY <1>2 DEF FilterCurrency, Redirect, mapVars, MappersDrained
  <2>. QED
    BY <2>1 DEF MapperInv
<1>3. ASSUME NEW m \in Mappers, NEW t \in toMapper[m], Map(m, t) PROVE MapperInv'
  <2>1. UNCHANGED <<mapper, mapLeft>> /\ ~MappersDrained
    BY <1>3 DEF Map, MappersDrained
  <2>. QED
    BY <2>1 DEF MapperInv
<1>4. ASSUME NEW m \in Mappers, CloseMapper(m) PROVE MapperInv'
  <2>1. /\ MappersDrained /\ UNCHANGED <<gateway, redirected, toMapper>>
        /\ mapper' = [mapper EXCEPT ![m] = "sending"]
        /\ mapLeft' = [mapLeft EXCEPT ![m] = {b \in Banks : bankMax[m][b] # {}}]
    BY <1>4 DEF CloseMapper, packetVars
  <2>. QED
    BY <1>p, <2>1 DEF MapperInv, MappersDrained, PlaceInv
<1>5. ASSUME NEW m \in Mappers, NEW b \in Banks, SendMaximum(m, b) PROVE MapperInv'
  <2>1. /\ UNCHANGED <<gateway, redirected, toMapper, mapper>>
        /\ mapLeft' = [mapLeft EXCEPT ![m] = @ \ {b}]
    BY <1>5 DEF SendMaximum, packetVars
  <2>. QED
    BY <2>1 DEF MapperInv, MappersDrained
<1>6. ASSUME NEW m \in Mappers, FinishMapper(m) PROVE MapperInv'
  <2>1. /\ mapper[m] = "sending" /\ mapLeft[m] = {} /\ mapLeft' = mapLeft
        /\ UNCHANGED <<gateway, redirected, toMapper>>
        /\ mapper' = [mapper EXCEPT ![m] = "finished"]
    BY <1>6 DEF FinishMapper, packetVars
  <2>. QED
    BY <1>p, <2>1 DEF MapperInv, MappersDrained, PlaceInv
<1>7. ASSUME NEW t \in Transactions, FilterAmounts(t) PROVE MapperInv'
  BY <1>1, <1>7 DEF FilterAmounts, mapVars
<1>8. ASSUME NEW f \in Filters, NEW i \in accounts[f], FilterAccount(f, i) PROVE MapperInv'
  BY <1>1, <1>8 DEF FilterAccount, mapVars, packetVars
<1>9. ASSUME NEW j \in Joiners,
             \/ \E msg \in toJoiner[j] : TakeName(j, msg) \/ TakeMaximum(j, msg)
             \/ CloseJoiner(j)
             \/ \E b \in Banks : SendAnswer(j, b)
             \/ FinishJoiner(j)
      PROVE  MapperInv'
  <2>1. UNCHANGED <<packetVars, mapVars>>
    BY <1>9 DEF TakeName, TakeMaximum, CloseJoiner, SendAnswer, FinishJoiner
  <2>. QED
    BY <1>1, <2>1 DEF packetVars, mapVars
<1>10. CASE UNCHANGED vars \/ BeginHastily
  BY <1>1, <1>10 DEF vars, BeginHastily, packetVars, mapVars
<1>. QED
  BY <1>2, <1>3, <1>4, <1>5, <1>6, <1>7, <1>8, <1>9, <1>10 DEF Next, Sorting, Joining

(* What a mapper that sends has for a bank is a right maximum.               *)
LEMMA DrainedIsRight ==
    ASSUME MaximumIsWhole, MappersDrained, NEW b \in Banks, NEW m \in Mappers,
           mapper[m] # "finished"
    PROVE  /\ bankMax[m][b] \subseteq RightMaxima(b)
           /\ m = MapperOf(b) /\ DollarsOf(b) # {} => bankMax[m][b] # {}
<1>1. Arrived(b) = DollarsOf(b)
  BY DEF Arrived, MappersDrained
<1>2. CASE m = MapperOf(b) /\ DollarsOf(b) # {}
  <2>1. PICK t \in DollarsOf(b) : /\ bankMax[m][b] = {Row(t)}
                                  /\ \A u \in DollarsOf(b) : u.amount_received <= t.amount_received
    BY <1>1, <1>2 DEF MaximumIsWhole
  <2>. QED
    BY <2>1 DEF RightMaxima
<1>3. CASE ~(m = MapperOf(b) /\ DollarsOf(b) # {})
  <2>1. bankMax[m][b] = {}
    BY <1>1, <1>3 DEF MaximumIsWhole
  <2>. QED
    BY <1>3, <2>1
<1>. QED
  BY <1>2, <1>3

-----------------------------------------------------------------------------
(* The joiners: what a step sends is right, and what it keeps was sent.      *)
LEMMA SendRight ==
    ASSUME MeetShape, RightInv, NEW j \in Joiners, NEW msg, Send(j, msg), IsRight(msg),
           UNCHANGED <<cache, pending>>
    PROVE  RightInv'
<1>1. /\ toJoiner'[j] = toJoiner[j] \cup {msg}
      /\ \A x \in Joiners \ {j} : toJoiner'[x] = toJoiner[x]
  BY DEF Send, MeetShape
<1>. QED
  BY <1>1 DEF RightInv

LEMMA KeepRight ==
    ASSUME RightInv, \A j \in Joiners : toJoiner'[j] \subseteq toJoiner[j],
           \A j \in Joiners, b \in Banks : /\ cache'[j][b] \subseteq RightNames(b)
                                           /\ pending'[j][b] \subseteq RightMaxima(b)
    PROVE  RightInv'
BY DEF RightInv

LEMMA FilterRight ==
    ASSUME MeetShape, FilterInv, RightInv,
           NEW f \in Filters, NEW i \in accounts[f], FilterAccount(f, i)
    PROVE  RightInv'
<1> DEFINE k == BankOfRow(i)
<1>1. /\ k \in Banks /\ UNCHANGED <<cache, pending>>
      /\ k \notin seen[f] => Accounts[i].bank_name \in RightNames(k)
  BY FilterNext DEF FilterAccount, joinVars
<1>2. CASE toJoiner' = toJoiner
  BY <1>1, <1>2, KeepRight DEF RightInv
<1>3. CASE k \notin seen[f] /\ Send(JoinerOfName(k), NameOf(i))
  <2>1. /\ NameOf(i).type = "NAME" /\ NameOf(i).bank = k
        /\ NameOf(i).name = Accounts[i].bank_name
    BY DEF NameOf
  <2>3. IsRight(NameOf(i))
    BY <1>1, <1>3, <2>1 DEF IsRight
  <2>2. JoinerOfName(k) \in Joiners
    BY <1>1, Shards
  <2>. HIDE DEF k
  <2>. QED
    BY <1>1, <1>3, <2>2, <2>3, SendRight
<1>. QED
  BY <1>2, <1>3 DEF FilterAccount

LEMMA SendMaximumRight ==
    ASSUME MaximumInv, MeetShape, MapperInv, RightInv,
           NEW m \in Mappers, NEW b \in Banks, SendMaximum(m, b)
    PROVE  RightInv'
<1>1. PICK r \in bankMax[m][b] :
        Send(JoinerOfMaximum(b),
             [type |-> "MAXIMUM", bank |-> b, amount |-> r.amount, origin |-> r.origin])
  BY DEF SendMaximum
<1> DEFINE msg == [type |-> "MAXIMUM", bank |-> b, amount |-> r.amount, origin |-> r.origin]
<1>2. mapper[m] = "sending" /\ MappersDrained
  BY DEF SendMaximum, MapperInv
<1>3. r \in RightMaxima(b)
  BY <1>2, DrainedIsRight DEF MaximumInv
<1>4. r = [amount |-> r.amount, origin |-> r.origin]
  BY <1>3 DEF RightMaxima, Row
<1>5. /\ msg.type = "MAXIMUM" /\ msg.bank = b /\ Send(JoinerOfMaximum(b), msg)
      /\ [amount |-> msg.amount, origin |-> msg.origin] \in RightMaxima(b)
  BY <1>1, <1>3, <1>4
<1>6. IsRight(msg)
  BY <1>5 DEF IsRight
<1>7. JoinerOfMaximum(b) \in Joiners /\ UNCHANGED <<cache, pending>>
  BY Shards DEF SendMaximum, joinVars
<1>. HIDE DEF msg
<1>. QED
  BY <1>5, <1>6, <1>7, SendRight

LEMMA TakeRight ==
    ASSUME MeetShape, RightInv, NEW j \in Joiners, NEW msg \in toJoiner[j],
           TakeName(j, msg) \/ TakeMaximum(j, msg)
    PROVE  /\ RightInv' /\ msg.bank \in Banks
           /\ toJoiner'[j] = toJoiner[j] \ {msg}
           /\ \A x \in Joiners \ {j} : toJoiner'[x] = toJoiner[x]
           /\ \A x \in Joiners, b \in Banks : x # j \/ b # msg.bank =>
                cache'[x][b] = cache[x][b] /\ pending'[x][b] = pending[x][b]
           /\ msg.type = "NAME" => /\ cache'[j][msg.bank] # {}
                                   /\ pending'[j][msg.bank] = pending[j][msg.bank]
           /\ msg.type = "MAXIMUM" => /\ pending'[j][msg.bank] # {}
                                      /\ cache'[j][msg.bank] = cache[j][msg.bank]
<1> DEFINE k == msg.bank
           new == IF Beats(msg.amount, pending[j][k])
                    THEN {[amount |-> msg.amount, origin |-> msg.origin]}
                    ELSE pending[j][k]
<1>1. k \in Banks /\ IsRight(msg)
  BY DEF RightInv, IsRight
<1>2. /\ toJoiner' = [toJoiner EXCEPT ![j] = @ \ {msg}]
      /\ \/ /\ msg.type = "NAME" /\ pending' = pending
            /\ cache' = [cache EXCEPT ![j][k] = {msg.name}]
         \/ /\ msg.type = "MAXIMUM" /\ cache' = cache
            /\ pending' = [pending EXCEPT ![j][k] = new]
  BY DEF TakeName, TakeMaximum
<1>3. /\ msg.type = "NAME" => {msg.name} \subseteq RightNames(k)
      /\ msg.type = "MAXIMUM" => new \subseteq RightMaxima(k)
  BY <1>1 DEF RightInv, IsRight
<1>4. new # {}
  BY DEF Beats
<1>. HIDE DEF k, new
<1>5. /\ toJoiner = [x \in Joiners |-> toJoiner[x]]
      /\ cache = [x \in Joiners |-> [b \in Banks |-> cache[x][b]]]
      /\ pending = [x \in Joiners |-> [b \in Banks |-> pending[x][b]]]
  BY DEF MeetShape
<1>6. /\ toJoiner'[j] = toJoiner[j] \ {msg}
      /\ \A x \in Joiners \ {j} : toJoiner'[x] = toJoiner[x]
  BY <1>2, <1>5
<1>7. CASE msg.type = "NAME"
  <2>1. pending' = pending /\ cache' = [cache EXCEPT ![j][k] = {msg.name}]
    BY <1>2, <1>7
  <2>2. cache[j] = [b \in Banks |-> cache[j][b]]
    BY <1>5
  <2>3. cache'[j] = [cache[j] EXCEPT ![k] = {msg.name}]
        /\ \A x \in Joiners \ {j} : cache'[x] = cache[x]
    BY <1>5, <2>1
  <2>4. cache'[j][k] = {msg.name} /\ \A b \in Banks \ {k} : cache'[j][b] = cache[j][b]
    BY <1>1, <2>2, <2>3
  <2>5. \A x \in Joiners, b \in Banks : /\ cache'[x][b] \subseteq RightNames(b)
                                        /\ pending'[x][b] \subseteq RightMaxima(b)
    BY <1>3, <1>7, <2>1, <2>3, <2>4 DEF RightInv
  <2>6. \A x \in Joiners : toJoiner'[x] \subseteq toJoiner[x]
    BY <1>6
  <2>7. RightInv'
    BY <2>5, <2>6, KeepRight
  <2>. QED
    BY <1>1, <1>6, <1>7, <2>1, <2>3, <2>4, <2>7 DEF k
<1>8. CASE msg.type = "MAXIMUM"
  <2>1. cache' = cache /\ pending' = [pending EXCEPT ![j][k] = new]
    BY <1>2, <1>8
  <2>2. pending[j] = [b \in Banks |-> pending[j][b]]
    BY <1>5
  <2>3. pending'[j] = [pending[j] EXCEPT ![k] = new]
        /\ \A x \in Joiners \ {j} : pending'[x] = pending[x]
    BY <1>5, <2>1
  <2>4. pending'[j][k] = new /\ \A b \in Banks \ {k} : pending'[j][b] = pending[j][b]
    BY <1>1, <2>2, <2>3
  <2>5. \A x \in Joiners, b \in Banks : /\ cache'[x][b] \subseteq RightNames(b)
                                        /\ pending'[x][b] \subseteq RightMaxima(b)
    BY <1>3, <1>8, <2>1, <2>3, <2>4 DEF RightInv
  <2>6. \A x \in Joiners : toJoiner'[x] \subseteq toJoiner[x]
    BY <1>6
  <2>7. RightInv'
    BY <2>5, <2>6, KeepRight
  <2>. QED
    BY <1>1, <1>4, <1>6, <1>8, <2>1, <2>3, <2>4, <2>7 DEF k
<1>. QED
  BY <1>2, <1>7, <1>8

LEMMA FinishKeeps ==
    ASSUME MeetShape, NEW j \in Joiners, FinishJoiner(j)
    PROVE  \A x \in Joiners, b \in Banks :
             IF x = j THEN cache'[x][b] = {} /\ pending'[x][b] = {}
                      ELSE cache'[x][b] = cache[x][b] /\ pending'[x][b] = pending[x][b]
<1>1. cache' = [cache EXCEPT ![j] = Nothing] /\ pending' = [pending EXCEPT ![j] = Nothing]
  BY DEF FinishJoiner
<1>2. \A x \in Joiners : /\ cache'[x] = IF x = j THEN Nothing ELSE cache[x]
                         /\ pending'[x] = IF x = j THEN Nothing ELSE pending[x]
  BY <1>1 DEF MeetShape
<1>. QED
  BY <1>2 DEF Nothing

LEMMA RightNext ==
    ASSUME MaximumInv, MeetShape, FilterInv, MapperInv, RightInv, [Next]_vars
    PROVE  RightInv'
<1>1. CASE UNCHANGED <<toJoiner, cache, pending>>
  BY <1>1, KeepRight DEF RightInv
<1>2. ASSUME NEW j \in Joiners, CloseJoiner(j) \/ FinishJoiner(j) \/ \E b \in Banks : SendAnswer(j, b)
      PROVE  RightInv'
  <2>1. CASE FinishJoiner(j)
    <3>1. \A x \in Joiners, b \in Banks : /\ cache'[x][b] \subseteq RightNames(b)
                                          /\ pending'[x][b] \subseteq RightMaxima(b)
      BY <2>1, FinishKeeps DEF RightInv
    <3>. QED
      BY <2>1, <3>1, KeepRight DEF FinishJoiner
  <2>. QED
    BY <1>1, <1>2, <2>1 DEF CloseJoiner, SendAnswer
<1>3. ASSUME NEW t \in Transactions, FilterCurrency(t) \/ FilterAmounts(t) \/ Redirect(t)
      PROVE  RightInv'
  BY <1>1, <1>3 DEF FilterCurrency, FilterAmounts, Redirect, joinVars
<1>4. ASSUME NEW m \in Mappers,
             (\E t \in toMapper[m] : Map(m, t)) \/ CloseMapper(m) \/ FinishMapper(m)
      PROVE  RightInv'
  BY <1>1, <1>4 DEF Map, CloseMapper, FinishMapper, joinVars
<1>5. CASE UNCHANGED vars \/ BeginHastily
  BY <1>1, <1>5 DEF vars, BeginHastily, joinVars
<1>. QED
  BY <1>2, <1>3, <1>4, <1>5, FilterRight, SendMaximumRight, TakeRight DEF Next, Sorting, Joining

-----------------------------------------------------------------------------
(* Nothing is lost on its way to a joiner, or at it before it finishes.      *)
Kept(b) ==
    joiner[JoinerOfName(b)] # "finished" =>
      /\ b \in seen[FilterOf(b)] => Coming("NAME", b) \/ cache[JoinerOfName(b)][b] # {}
      /\ DollarsOf(b) # {} /\ mapper[MapperOf(b)] # "open" =>
           \/ b \in mapLeft[MapperOf(b)]
           \/ Coming("MAXIMUM", b)
           \/ pending[JoinerOfName(b)][b] # {}

LEMMA KeptIs == KeptInv <=> \A b \in Banks : Kept(b)
BY DEF KeptInv, Kept

LEMMA SendComing ==
    ASSUME MeetShape, NEW j \in Joiners, NEW msg, Send(j, msg), msg.bank \in Banks,
           j = JoinerOfName(msg.bank)
    PROVE  /\ Coming(msg.type, msg.bank)'
           /\ \A type : \A b \in Banks : Coming(type, b) => Coming(type, b)'
<1>1. /\ toJoiner'[j] = toJoiner[j] \cup {msg}
      /\ \A x \in Joiners : toJoiner[x] \subseteq toJoiner'[x]
  BY DEF Send, MeetShape
<1>. QED
  BY <1>1, Shards DEF Coming

LEMMA SameComing ==
    ASSUME UNCHANGED toJoiner, NEW type, NEW b
    PROVE  Coming(type, b)' <=> Coming(type, b)
BY DEF Coming

LEMMA FilterKept ==
    ASSUME MeetShape, FilterInv, KeptInv,
           NEW f \in Filters, NEW i \in accounts[f], FilterAccount(f, i)
    PROVE  KeptInv'
<1> DEFINE k == BankOfRow(i)
<1>1. /\ k \in Banks /\ FilterOf(k) = f /\ JoinerOfName(k) \in Joiners
      /\ seen'[f] = seen[f] \cup {k} /\ \A g \in Filters \ {f} : seen'[g] = seen[g]
      /\ UNCHANGED <<cache, pending, joiner, mapper, mapLeft>>
  BY FilterNext, Shards DEF FilterAccount, joinVars, mapVars
<1>2. /\ k \notin seen[f] => Coming("NAME", k)'
      /\ \A type : \A b \in Banks : Coming(type, b) => Coming(type, b)'
  <2>1. CASE k \in seen[f]
    BY <2>1, SameComing DEF FilterAccount
  <2>2. CASE k \notin seen[f]
    <3>1. Send(JoinerOfName(k), NameOf(i)) /\ NameOf(i).type = "NAME" /\ NameOf(i).bank = k
      BY <2>2 DEF FilterAccount, NameOf
    <3>. HIDE DEF k
    <3>. QED
      BY <1>1, <3>1, SendComing
  <2>. QED
    BY <2>1, <2>2
<1>. HIDE DEF k
<1>3. ASSUME NEW b \in Banks PROVE Kept(b)'
  <2>1. Kept(b) /\ FilterOf(b) \in Filters
    BY KeptIs, Shards
  <2>2. b \in seen'[FilterOf(b)] => b \in seen[FilterOf(b)] \/ (b = k /\ k \notin seen[f])
    BY <1>1, <2>1
  <2>. QED
    BY <1>1, <1>2, <2>1, <2>2 DEF Kept
<1>. QED
  BY <1>3 DEF Kept, KeptInv

LEMMA MapperKept ==
    ASSUME MaximumInv, MeetShape, MapperInv, KeptInv, NEW m \in Mappers,
           CloseMapper(m) \/ FinishMapper(m) \/ \E k \in Banks : SendMaximum(m, k)
    PROVE  KeptInv'
<1>0. UNCHANGED <<seen, cache, pending, joiner>>
  BY DEF CloseMapper, FinishMapper, SendMaximum, accountVars, joinVars
<1>1. CASE CloseMapper(m)
  <2>1. /\ mapper[m] = "open" /\ MappersDrained /\ UNCHANGED toJoiner
        /\ mapper' = [mapper EXCEPT ![m] = "sending"]
        /\ mapLeft' = [mapLeft EXCEPT ![m] = {b \in Banks : bankMax[m][b] # {}}]
    BY <1>1 DEF CloseMapper
  <2>2. ASSUME NEW b \in Banks PROVE Kept(b)'
    <3>1. Kept(b) /\ MapperOf(b) \in Mappers
      BY KeptIs, Shards
    <3>2. CASE MapperOf(b) # m
      <4>1. mapper'[MapperOf(b)] = mapper[MapperOf(b)] /\ mapLeft'[MapperOf(b)] = mapLeft[MapperOf(b)]
        BY <2>1, <3>1, <3>2 DEF MapperInv, MaximumInv, PlaceInv
      <4>. QED
        BY <1>0, <2>1, <3>1, <4>1, SameComing DEF Kept
    <3>3. CASE MapperOf(b) = m
      <4>1. DollarsOf(b) # {} => bankMax[m][b] # {}
        BY <2>1, <3>3, DrainedIsRight DEF MaximumInv
      <4>2. DollarsOf(b) # {} => b \in mapLeft'[m]
        BY <2>1, <4>1 DEF MapperInv
      <4>. QED
        BY <1>0, <2>1, <3>1, <3>3, <4>2, SameComing DEF Kept
    <3>. QED
      BY <3>2, <3>3
  <2>. QED
    BY <2>2 DEF Kept, KeptInv
<1>2. CASE FinishMapper(m)
  <2>1. /\ mapper[m] = "sending" /\ UNCHANGED <<toJoiner, mapLeft>>
        /\ mapper' = [mapper EXCEPT ![m] = "finished"]
    BY <1>2 DEF FinishMapper
  <2>2. \A n \in Mappers : mapper'[n] # "open" => mapper[n] # "open"
    BY <2>1 DEF MaximumInv, PlaceInv
  <2>3. ASSUME NEW b \in Banks PROVE Kept(b)'
    BY <1>0, <2>1, <2>2, KeptIs, Shards, SameComing DEF Kept
  <2>. QED
    BY <2>3 DEF Kept, KeptInv
<1>3. ASSUME NEW k \in Banks, SendMaximum(m, k) PROVE KeptInv'
  <2>1. PICK r \in bankMax[m][k] :
          Send(JoinerOfMaximum(k),
               [type |-> "MAXIMUM", bank |-> k, amount |-> r.amount, origin |-> r.origin])
    BY <1>3 DEF SendMaximum
  <2> DEFINE msg == [type |-> "MAXIMUM", bank |-> k, amount |-> r.amount, origin |-> r.origin]
  <2>2. msg.type = "MAXIMUM" /\ msg.bank = k /\ Send(JoinerOfName(k), msg) /\ JoinerOfName(k) \in Joiners
    BY <2>1, Shards
  <2>. HIDE DEF msg
  <2>3. /\ Coming("MAXIMUM", k)'
        /\ \A type : \A b \in Banks : Coming(type, b) => Coming(type, b)'
    BY <2>2, SendComing
  <2>4. UNCHANGED mapper /\ \A n \in Mappers, b \in Banks : b \in mapLeft[n] => b = k \/ b \in mapLeft'[n]
    BY <1>3 DEF SendMaximum, MapperInv
  <2>5. ASSUME NEW b \in Banks PROVE Kept(b)'
    BY <1>0, <2>3, <2>4, KeptIs, Shards DEF Kept
  <2>. QED
    BY <2>5 DEF Kept, KeptInv
<1>. QED
  BY <1>1, <1>2, <1>3

LEMMA TakeKept ==
    ASSUME MeetShape, RightInv, KeptInv, NEW j \in Joiners, NEW msg \in toJoiner[j],
           TakeName(j, msg) \/ TakeMaximum(j, msg)
    PROVE  KeptInv'
<1>1. UNCHANGED <<seen, mapper, mapLeft, joiner>>
  BY DEF TakeName, TakeMaximum, accountVars, mapVars
<1>2. ASSUME NEW b \in Banks PROVE Kept(b)'
  <2> DEFINE h == JoinerOfName(b)
  <2>1. Kept(b) /\ h \in Joiners
    BY KeptIs, Shards
  <2>2. ASSUME NEW type, Coming(type, b), ~Coming(type, b)'
        PROVE  h = j /\ msg.bank = b /\ msg.type = type
    BY <2>1, <2>2, TakeRight DEF Coming
  <2>3. /\ cache[h][b] # {} => cache'[h][b] # {}
        /\ pending[h][b] # {} => pending'[h][b] # {}
    <3>1. IsRight(msg)
      BY DEF RightInv
    <3>. QED
      BY <2>1, <3>1, TakeRight DEF IsRight
  <2>4. Coming("NAME", b) => Coming("NAME", b)' \/ cache'[h][b] # {}
    BY <2>2, TakeRight
  <2>5. Coming("MAXIMUM", b) => Coming("MAXIMUM", b)' \/ pending'[h][b] # {}
    BY <2>2, TakeRight
  <2>. QED
    BY <1>1, <2>1, <2>3, <2>4, <2>5 DEF Kept
<1>. QED
  BY <1>2 DEF Kept, KeptInv

LEMMA JoinerKept ==
    ASSUME MeetShape, AnswerInv, KeptInv, NEW j \in Joiners,
           CloseJoiner(j) \/ FinishJoiner(j) \/ \E b \in Banks : SendAnswer(j, b)
    PROVE  KeptInv'
<1>1. UNCHANGED <<seen, mapper, mapLeft, toJoiner>>
  BY DEF CloseJoiner, FinishJoiner, SendAnswer, accountVars, mapVars
<1>2. ASSUME NEW h \in Joiners, joiner'[h] # "finished"
      PROVE  joiner[h] # "finished" /\ \A b \in Banks : cache'[h][b] = cache[h][b] /\ pending'[h][b] = pending[h][b]
  <2>1. CASE CloseJoiner(j)
    BY <1>2, <2>1 DEF CloseJoiner, AnswerInv
  <2>2. CASE FinishJoiner(j)
    <3>1. joiner' = [joiner EXCEPT ![j] = "finished"]
      BY <2>2 DEF FinishJoiner
    <3>2. h # j /\ joiner'[h] = joiner[h]
      BY <1>2, <3>1 DEF AnswerInv
    <3>. QED
      BY <1>2, <2>2, <3>2, FinishKeeps
  <2>3. CASE \E b \in Banks : SendAnswer(j, b)
    BY <1>2, <2>3 DEF SendAnswer
  <2>. QED
    BY <2>1, <2>2, <2>3
<1>3. ASSUME NEW b \in Banks PROVE Kept(b)'
  BY <1>1, <1>2, KeptIs, Shards, SameComing DEF Kept
<1>. QED
  BY <1>3 DEF Kept, KeptInv

LEMMA KeptNext ==
    ASSUME MaximumInv, MeetShape, WayInv, [Next]_vars
    PROVE  KeptInv'
<1>. USE DEF WayInv
<1>1. ASSUME UNCHANGED <<seen, mapper, mapLeft, toJoiner, joiner, cache, pending>> PROVE KeptInv'
  <2>1. ASSUME NEW b \in Banks PROVE Kept(b)'
    BY <1>1, KeptIs, SameComing DEF Kept
  <2>. QED
    BY <2>1 DEF Kept, KeptInv
<1>2. ASSUME NEW t \in Transactions, FilterCurrency(t) \/ FilterAmounts(t) \/ Redirect(t)
      PROVE  KeptInv'
  BY <1>1, <1>2 DEF FilterCurrency, FilterAmounts, Redirect, accountVars, mapVars, joinVars
<1>3. ASSUME NEW m \in Mappers, NEW t \in toMapper[m], Map(m, t) PROVE KeptInv'
  BY <1>1, <1>3 DEF Map, accountVars, joinVars
<1>4. CASE UNCHANGED vars \/ BeginHastily
  BY <1>1, <1>4 DEF vars, BeginHastily, accountVars, mapVars, joinVars
<1>. QED
  BY <1>2, <1>3, <1>4, FilterKept, MapperKept, TakeKept, JoinerKept DEF Next, Sorting, Joining

-----------------------------------------------------------------------------
(* The joiners' callbacks.                                                   *)
LEMMA JoinersDrainedIs ==
    JoinersDrained <=> /\ \A f \in Filters : accounts[f] = {}
                       /\ \A m \in Mappers : mapper[m] # "open" /\ mapLeft[m] = {}
                       /\ \A j \in Joiners : toJoiner[j] = {}
BY DEF JoinersDrained, EofsSent, InHand

LEMMA DrainedStays ==
    ASSUME MaximumInv, MapperInv, MeetShape, FilterInv, JoinersDrained, [Next]_vars
    PROVE  JoinersDrained'
<1>0. /\ \A f \in Filters : accounts[f] = {}
      /\ \A m \in Mappers : mapper[m] # "open" /\ mapLeft[m] = {}
      /\ \A j \in Joiners : toJoiner[j] = {}
  BY JoinersDrainedIs
<1>1. CASE UNCHANGED <<accounts, mapper, mapLeft, toJoiner>>
  BY <1>1 DEF JoinersDrained, EofsSent, InHand
<1>2. ASSUME NEW f \in Filters, NEW i \in accounts[f], FilterAccount(f, i) PROVE FALSE
  BY <1>0
<1>3. ASSUME NEW t \in Transactions, FilterCurrency(t) \/ FilterAmounts(t) \/ Redirect(t)
      PROVE  JoinersDrained'
  BY <1>1, <1>3 DEF FilterCurrency, FilterAmounts, Redirect, accountVars, mapVars
<1>4. ASSUME NEW m \in Mappers,
             (\E t \in toMapper[m] : Map(m, t)) \/ CloseMapper(m) \/ FinishMapper(m)
      PROVE  JoinersDrained'
  <2>1. CASE \E t \in toMapper[m] : Map(m, t)
    BY <1>1, <2>1 DEF Map, accountVars
  <2>2. ~CloseMapper(m)
    BY <1>0 DEF CloseMapper
  <2>3. CASE FinishMapper(m)
    <3>1. UNCHANGED <<accounts, mapLeft, toJoiner>> /\ mapper' = [mapper EXCEPT ![m] = "finished"]
      BY <2>3 DEF FinishMapper, accountVars
    <3>. QED
      BY <1>0, <3>1 DEF JoinersDrained, EofsSent, InHand, MaximumInv, PlaceInv
  <2>. QED
    BY <1>4, <2>1, <2>2, <2>3
<1>5. ASSUME NEW m \in Mappers, NEW b \in Banks, SendMaximum(m, b) PROVE FALSE
  BY <1>0, <1>5 DEF SendMaximum
<1>6. ASSUME NEW j \in Joiners,
             \/ \E msg \in toJoiner[j] : TakeName(j, msg) \/ TakeMaximum(j, msg)
             \/ CloseJoiner(j)
             \/ \E b \in Banks : SendAnswer(j, b)
             \/ FinishJoiner(j)
      PROVE  JoinersDrained'
  BY <1>0, <1>1, <1>6 DEF CloseJoiner, SendAnswer, FinishJoiner, accountVars, mapVars
<1>7. CASE UNCHANGED vars \/ BeginHastily
  BY <1>1, <1>7 DEF vars, BeginHastily, accountVars, mapVars
<1>. QED
  BY <1>2, <1>3, <1>4, <1>5, <1>6, <1>7 DEF Next, Sorting, Joining

(* What a joiner that is not open knows of a bank of its own.                *)
LEMMA JoinedAll ==
    ASSUME WayInv, JoinersDrained, NEW b \in Banks, joiner[JoinerOfName(b)] # "finished"
    PROVE  /\ Named(b) # {} => cache[JoinerOfName(b)][b] # {}
           /\ DollarsOf(b) # {} => pending[JoinerOfName(b)][b] # {}
<1>1. FilterOf(b) \in Filters /\ MapperOf(b) \in Mappers /\ JoinerOfName(b) \in Joiners
  BY Shards
<1>2. \A type : ~Coming(type, b)
  BY <1>1, JoinersDrainedIs DEF Coming
<1>3. Named(b) # {} => b \in seen[FilterOf(b)]
  BY <1>1, JoinersDrainedIs DEF WayInv, FilterInv
<1>4. mapper[MapperOf(b)] # "open" /\ b \notin mapLeft[MapperOf(b)]
  BY <1>1, JoinersDrainedIs
<1>. QED
  BY <1>2, <1>3, <1>4 DEF WayInv, KeptInv

LEMMA CloseAnswer ==
    ASSUME MeetPlace, WayInv, NEW j \in Joiners, CloseJoiner(j), ~hasty => JoinersDrained'
    PROVE  AnswerInv'
<1>1. /\ joiner[j] = "open" /\ (~hasty => JoinersDrained) /\ UNCHANGED <<bankAnswers, hasty>>
      /\ joiner' = [joiner EXCEPT ![j] = "sending"]
      /\ joinLeft' = [joinLeft EXCEPT ![j] = {b \in Banks : pending[j][b] # {}}]
  BY DEF CloseJoiner, CountersAgree, answerVars
<1>2. /\ joiner \in [Joiners -> {"open", "sending", "finished"}]
      /\ joinLeft \in [Joiners -> SUBSET Banks]
  BY DEF WayInv, AnswerInv
<1>3. /\ joiner'[j] = "sending" /\ joinLeft'[j] = {b \in Banks : pending[j][b] # {}}
      /\ \A x \in Joiners \ {j} : joiner'[x] = joiner[x] /\ joinLeft'[x] = joinLeft[x]
      /\ joiner' \in [Joiners -> {"open", "sending", "finished"}]
      /\ joinLeft' \in [Joiners -> SUBSET Banks]
  BY <1>1, <1>2
<1>4. \A x \in Joiners : \A b \in joinLeft'[x] : joiner'[x] = "sending" /\ x = JoinerOfName(b)
  <2>1. \A b \in joinLeft'[j] : j = JoinerOfName(b)
    BY <1>3, Shards DEF MeetPlace
  <2>. QED
    BY <1>3, <2>1 DEF WayInv, AnswerInv
<1>5. ASSUME NEW b \in Banks, bankAnswers'[b] # <<>>
      PROVE  joiner'[JoinerOfName(b)] # "open" /\ b \notin joinLeft'[JoinerOfName(b)]
  <2>1. joiner[JoinerOfName(b)] # "open" /\ b \notin joinLeft[JoinerOfName(b)]
    BY <1>1, <1>5 DEF WayInv, AnswerInv
  <2>. QED
    BY <1>1, <1>3, <2>1, Shards
<1>6. ASSUME ~hasty, NEW b \in Banks, joiner'[JoinerOfName(b)] # "open",
             Named(b) # {}, DollarsOf(b) # {}
      PROVE  b \in joinLeft'[JoinerOfName(b)] \/ bankAnswers'[b] # <<>>
  <2>1. CASE JoinerOfName(b) = j
    BY <1>1, <1>3, <1>6, <2>1, JoinedAll
  <2>2. CASE JoinerOfName(b) # j
    BY <1>1, <1>3, <1>6, <2>2, Shards DEF WayInv, AnswerInv
  <2>. QED
    BY <2>1, <2>2
<1>7. bankAnswers' = [b \in Banks |-> bankAnswers'[b]]
  BY <1>1 DEF WayInv, AnswerInv
<1>. QED
  BY <1>1, <1>3, <1>4, <1>5, <1>6, <1>7 DEF AnswerInv, Named, DollarsOf, BankOfRow

(* The answer to a bank is right and the first; only a bank without a name,   *)
(* or one whose joiner was hasty, gets none.                                 *)
LEMMA SendAnswerIs ==
    ASSUME WayInv, NEW j \in Joiners, NEW b \in Banks, SendAnswer(j, b)
    PROVE  /\ j = JoinerOfName(b) /\ joiner[j] = "sending" /\ bankAnswers[b] = <<>>
           /\ \/ UNCHANGED bankAnswers /\ (hasty \/ Named(b) = {})
              \/ \E row \in RightRows[b] : bankAnswers' = [bankAnswers EXCEPT ![b] = <<row>>]
<1>1. /\ j = JoinerOfName(b) /\ joiner[j] = "sending" /\ bankAnswers[b] = <<>>
      /\ (~hasty => JoinersDrained)
  BY DEF SendAnswer, WayInv, AnswerInv
<1>2. CASE cache[j][b] = {} /\ UNCHANGED bankAnswers
  BY <1>1, <1>2, JoinedAll
<1>3. ASSUME NEW n \in cache[j][b], NEW r \in pending[j][b],
             bankAnswers' = [bankAnswers EXCEPT ![b] =
               Append(@, [name |-> n, origin |-> r.origin, amount |-> r.amount])]
      PROVE  \E row \in RightRows[b] : bankAnswers' = [bankAnswers EXCEPT ![b] = <<row>>]
  <2> DEFINE row == [name |-> n, origin |-> r.origin, amount |-> r.amount]
  <2>1. n \in RightNames(b) /\ r \in RightMaxima(b)
    BY DEF WayInv, RightInv
  <2>2. row \in RightRows[b]
    BY <2>1, RightRow
  <2>. HIDE DEF row
  <2>3. Append(<<>>, row) = <<row>>
    OBVIOUS
  <2>4. bankAnswers' = [bankAnswers EXCEPT ![b] = Append(bankAnswers[b], row)]
    BY <1>3 DEF row
  <2>. QED
    BY <1>1, <2>2, <2>3, <2>4
<1>. QED
  BY <1>1, <1>2, <1>3 DEF SendAnswer

LEMMA SendAnswerKeeps ==
    ASSUME WayInv, NEW j \in Joiners, NEW k \in Banks, SendAnswer(j, k), ~hasty => JoinersDrained'
    PROVE  AnswerInv'
<1>1. /\ UNCHANGED <<joiner, hasty>> /\ joinLeft' = [joinLeft EXCEPT ![j] = @ \ {k}]
      /\ joinLeft \in [Joiners -> SUBSET Banks]
      /\ bankAnswers = [b \in Banks |-> bankAnswers[b]]
  BY DEF SendAnswer, WayInv, AnswerInv
<1>2. /\ joinLeft'[j] = joinLeft[j] \ {k}
      /\ \A x \in Joiners \ {j} : joinLeft'[x] = joinLeft[x]
      /\ joinLeft' \in [Joiners -> SUBSET Banks]
  BY <1>1
<1>3. /\ bankAnswers' = [b \in Banks |-> bankAnswers'[b]]
      /\ \A b \in Banks \ {k} : bankAnswers'[b] = bankAnswers[b]
      /\ ~hasty /\ Named(k) # {} => bankAnswers'[k] # <<>>
  BY <1>1, SendAnswerIs
<1>4. j = JoinerOfName(k) /\ joiner[j] = "sending" /\ bankAnswers[k] = <<>>
  BY SendAnswerIs
<1>5. \A x \in Joiners : \A b \in joinLeft'[x] : joiner'[x] = "sending" /\ x = JoinerOfName(b)
  BY <1>1, <1>2 DEF WayInv, AnswerInv
<1>6. ASSUME NEW b \in Banks, bankAnswers'[b] # <<>>
      PROVE  joiner'[JoinerOfName(b)] # "open" /\ b \notin joinLeft'[JoinerOfName(b)]
  <2>1. CASE b = k
    BY <1>1, <1>2, <1>4, <2>1
  <2>2. CASE b # k
    BY <1>1, <1>2, <1>3, <1>6, <2>2, Shards DEF WayInv, AnswerInv
  <2>. QED
    BY <2>1, <2>2
<1>7. ASSUME ~hasty, NEW b \in Banks, joiner'[JoinerOfName(b)] # "open",
             Named(b) # {}, DollarsOf(b) # {}
      PROVE  b \in joinLeft'[JoinerOfName(b)] \/ bankAnswers'[b] # <<>>
  <2>1. CASE b = k
    BY <1>3, <1>7, <2>1
  <2>2. CASE b # k
    BY <1>1, <1>2, <1>3, <1>7, <2>2, Shards DEF WayInv, AnswerInv
  <2>. QED
    BY <2>1, <2>2
<1>. QED
  BY <1>1, <1>2, <1>3, <1>5, <1>6, <1>7 DEF WayInv, AnswerInv

LEMMA FinishAnswer ==
    ASSUME WayInv, NEW j \in Joiners, FinishJoiner(j), ~hasty => JoinersDrained'
    PROVE  AnswerInv'
<1>1. /\ joiner[j] = "sending" /\ joinLeft[j] = {} /\ UNCHANGED <<joinLeft, bankAnswers, hasty>>
      /\ joiner' = [joiner EXCEPT ![j] = "finished"]
      /\ joiner \in [Joiners -> {"open", "sending", "finished"}]
  BY DEF FinishJoiner, WayInv, AnswerInv, answerVars
<1>2. /\ joiner'[j] = "finished" /\ \A x \in Joiners \ {j} : joiner'[x] = joiner[x]
      /\ joiner' \in [Joiners -> {"open", "sending", "finished"}]
  BY <1>1
<1>3. \A x \in Joiners : joiner'[x] # "open" <=> joiner[x] # "open"
  BY <1>1, <1>2
<1>4. \A x \in Joiners : \A b \in joinLeft'[x] : joiner'[x] = "sending" /\ x = JoinerOfName(b)
  BY <1>1, <1>2 DEF WayInv, AnswerInv
<1>. QED
  BY <1>1, <1>2, <1>3, <1>4, Shards DEF WayInv, AnswerInv

LEMMA AnswerNext ==
    ASSUME MaximumInv, MeetInv, WayInv, [Next]_vars
    PROVE  AnswerInv'
<1>. USE DEF WayInv, MeetInv
<1>1. ASSUME ~hasty, NEW j \in Joiners, joiner[j] # "open" \/ CloseJoiner(j)
      PROVE  JoinersDrained'
  BY <1>1, DrainedStays DEF AnswerInv, CloseJoiner, CountersAgree
<1>2. CASE UNCHANGED <<joiner, joinLeft, bankAnswers>> /\ (hasty' \/ ~hasty)
  BY <1>1, <1>2 DEF AnswerInv, Named, DollarsOf, BankOfRow, JoinerOfName
<1>3. ASSUME NEW j \in Joiners,
             CloseJoiner(j) \/ FinishJoiner(j) \/ \E b \in Banks : SendAnswer(j, b)
      PROVE  AnswerInv'
  <2>1. joiner[j] # "open" \/ CloseJoiner(j)
    BY <1>3, SendAnswerIs DEF FinishJoiner
  <2>2. ~hasty => JoinersDrained'
    BY <1>1, <2>1
  <2>. QED
    BY <1>3, <2>2, CloseAnswer, FinishAnswer, SendAnswerKeeps
<1>4. ASSUME NEW t \in Transactions, FilterCurrency(t) \/ FilterAmounts(t) \/ Redirect(t)
      PROVE  AnswerInv'
  BY <1>2, <1>4 DEF FilterCurrency, FilterAmounts, Redirect, joinVars, answerVars
<1>5. ASSUME NEW f \in Filters, NEW i \in accounts[f], FilterAccount(f, i) PROVE AnswerInv'
  BY <1>2, <1>5 DEF FilterAccount, joinVars, answerVars
<1>6. ASSUME NEW m \in Mappers,
             \/ \E t \in toMapper[m] : Map(m, t)
             \/ CloseMapper(m) \/ FinishMapper(m)
             \/ \E b \in Banks : SendMaximum(m, b)
      PROVE  AnswerInv'
  BY <1>2, <1>6 DEF Map, CloseMapper, FinishMapper, SendMaximum, joinVars, answerVars
<1>7. ASSUME NEW j \in Joiners, NEW msg \in toJoiner[j], TakeName(j, msg) \/ TakeMaximum(j, msg)
      PROVE  AnswerInv'
  BY <1>2, <1>7 DEF TakeName, TakeMaximum, answerVars
<1>8. CASE UNCHANGED vars
  BY <1>2, <1>8 DEF vars, joinVars, answerVars
<1>9. CASE BeginHastily
  BY <1>2, <1>9 DEF BeginHastily, answerVars
<1>. QED
  BY <1>3, <1>4, <1>5, <1>6, <1>7, <1>8, <1>9 DEF Next, Sorting, Joining

LEMMA FilterInvNext ==
    ASSUME FilterInv, [Next]_vars
    PROVE  FilterInv'
<1>1. ASSUME NEW t \in Transactions, FilterCurrency(t) \/ FilterAmounts(t) \/ Redirect(t)
      PROVE  UNCHANGED accountVars
  BY <1>1 DEF FilterCurrency, FilterAmounts, Redirect
<1>2. ASSUME NEW m \in Mappers,
             \/ \E t \in toMapper[m] : Map(m, t)
             \/ CloseMapper(m) \/ FinishMapper(m)
             \/ \E b \in Banks : SendMaximum(m, b)
      PROVE  UNCHANGED accountVars
  BY <1>2 DEF Map, CloseMapper, FinishMapper, SendMaximum
<1>3. ASSUME NEW j \in Joiners,
             \/ \E msg \in toJoiner[j] : TakeName(j, msg) \/ TakeMaximum(j, msg)
             \/ CloseJoiner(j)
             \/ \E b \in Banks : SendAnswer(j, b)
             \/ FinishJoiner(j)
      PROVE  UNCHANGED accountVars
  BY <1>3 DEF TakeName, TakeMaximum, CloseJoiner, SendAnswer, FinishJoiner
<1>4. CASE UNCHANGED vars \/ BeginHastily
  BY <1>4, OtherFilter DEF vars, BeginHastily
<1>. QED
  BY <1>1, <1>2, <1>3, <1>4, FilterNext, OtherFilter DEF Next, Sorting, Joining

LEMMA InitAnswers == Init => AnswersInv
BY InitMaximum, InitMeet, InitWay DEF AnswersInv

LEMMA NextAnswers == AnswersInv /\ [Next]_vars => AnswersInv'
<1> SUFFICES ASSUME AnswersInv, [Next]_vars
             PROVE  AnswersInv'
  OBVIOUS
<1>1. MaximumInv' /\ MeetInv'
  BY NextMaximum, NextMeet DEF AnswersInv
<1>2. FilterInv' /\ MapperInv' /\ RightInv' /\ KeptInv' /\ AnswerInv'
  BY FilterInvNext, MapperNext, RightNext, KeptNext, AnswerNext DEF AnswersInv, WayInv, MeetInv
<1>. QED
  BY <1>1, <1>2 DEF AnswersInv, WayInv

LEMMA NextImplements == AnswersInv /\ [Next]_vars => [Answers!Next]_(Answers!vars)
<1> SUFFICES ASSUME AnswersInv, [Next]_vars, ~UNCHANGED <<bankAnswers, hasty>>
             PROVE  Answers!Next
  BY DEF Answers!vars
<1>1. ASSUME NEW j \in Joiners, NEW b \in Banks, SendAnswer(j, b)
      PROVE  Answers!Next
  <2>1. /\ bankAnswers[b] = <<>>
        /\ \E row \in RightRows[b] : bankAnswers' = [bankAnswers EXCEPT ![b] = <<row>>]
    BY <1>1, SendAnswerIs DEF AnswersInv, SendAnswer
  <2>2. UNCHANGED hasty
    BY <1>1 DEF SendAnswer
  <2>. QED
    BY <2>1, <2>2 DEF Answers!Next, Answers!Answer
<1>2. ASSUME NEW t \in Transactions, FilterCurrency(t) \/ FilterAmounts(t) \/ Redirect(t)
      PROVE  FALSE
  BY <1>2 DEF FilterCurrency, FilterAmounts, Redirect, joinVars, answerVars
<1>3. ASSUME NEW f \in Filters, NEW i \in accounts[f], FilterAccount(f, i) PROVE FALSE
  BY <1>3 DEF FilterAccount, joinVars, answerVars
<1>4. ASSUME NEW m \in Mappers,
             \/ \E t \in toMapper[m] : Map(m, t)
             \/ CloseMapper(m) \/ FinishMapper(m)
             \/ \E b \in Banks : SendMaximum(m, b)
      PROVE  FALSE
  BY <1>4 DEF Map, CloseMapper, FinishMapper, SendMaximum, joinVars, answerVars
<1>5. ASSUME NEW j \in Joiners,
             \/ \E msg \in toJoiner[j] : TakeName(j, msg) \/ TakeMaximum(j, msg)
             \/ CloseJoiner(j) \/ FinishJoiner(j)
      PROVE  FALSE
  BY <1>5 DEF TakeName, TakeMaximum, CloseJoiner, FinishJoiner, answerVars
<1>6. ~UNCHANGED vars
  BY DEF vars, joinVars, answerVars
<1>7. CASE BeginHastily
  BY <1>7 DEF BeginHastily, answerVars, Answers!Next, Answers!Hurry
<1>. QED
  BY <1>1, <1>2, <1>3, <1>4, <1>5, <1>6, <1>7 DEF Next, Sorting, Joining

(* The stages of query 2 implement what is promised to the client: every row *)
(* that comes is right - the bank's first name and a largest amount in       *)
(* dollars that left it - and no bank has two, for any rows, any numbers of  *)
(* filters, mappers and joiners, any hash and any interleaving, and also     *)
(* when the joiners close before they have all their packets.                *)
THEOREM AnswersAreRight == Spec => Answers!Spec
<1>1. Init => Answers!Init
  BY DEF Init, Answers!Init
<1>. QED
  BY <1>1, InitAnswers, NextAnswers, NextImplements, PTL DEF Spec, Answers!Spec

AllAnswered ==
    ~hasty /\ (\A j \in Joiners : joiner[j] = "finished") =>
      \A b \in Banks : RightRows[b] # {} => bankAnswers[b] # <<>>

(* When the joiners have finished and their round did not begin before both   *)
(* totals were registered, no bank with a right answer is without one: no    *)
(* name and no maximum is lost between the accounts and transactions files   *)
(* and the joiner of the bank.                                               *)
THEOREM AnswersAreComplete == Spec => []AllAnswered
<1>1. AnswersInv => AllAnswered
  BY Shards, RightRow DEF AnswersInv, WayInv, AnswerInv, AllAnswered
<1>. QED
  BY <1>1, InitAnswers, NextAnswers, PTL DEF Spec

-----------------------------------------------------------------------------
(***************************************************************************)
(* Query 1.                                                                *)
(***************************************************************************)
SmallInv ==
    /\ gateway \subseteq Transactions /\ small \subseteq Dollars
    /\ smallAnswers \subseteq SmallDollars
    /\ SmallDollars \subseteq gateway \cup small \cup smallAnswers

LEMMA SmallAre == SmallDollars = {t \in Dollars : IsSmall(t)}
<1>1. /\ \A t \in Transactions :
           InDollars(t) <=> {t.payment_currency, t.receiving_currency} = {"US Dollar"}
      /\ \A t \in Transactions : IsSmall(t) <=> t.amount_received \in 1 .. 49
  <2>1. \A t \in Transactions :
          InDollars(t) <=> {t.payment_currency, t.receiving_currency} = {"US Dollar"}
    BY DEF InDollars
  <2>2. \A t \in Transactions : IsSmall(t) <=> t.amount_received \in 1 .. 49
    BY RowAssumption DEF IsSmall
  <2>. QED
    BY <2>1, <2>2, Zenon
<1>2. \A t : t \in SmallDollars <=> t \in Dollars /\ IsSmall(t)
  BY <1>1, Zenon DEF SmallDollars, Dollars
<1>. QED
  BY <1>2

LEMMA NextSmall == SmallInv /\ [Next]_vars => SmallInv'
<1> SUFFICES ASSUME SmallInv, [Next]_vars
             PROVE  SmallInv'
  OBVIOUS
<1>1. CASE UNCHANGED <<gateway, small, smallAnswers>>
  BY <1>1 DEF SmallInv
<1>2. ASSUME NEW t \in Transactions, FilterCurrency(t) PROVE SmallInv'
  BY <1>2, SmallAre DEF FilterCurrency, SmallInv, Dollars, answerVars
<1>3. ASSUME NEW t \in Transactions, FilterAmounts(t) PROVE SmallInv'
  BY <1>3, SmallAre DEF FilterAmounts, SmallInv
<1>4. ASSUME NEW t \in Transactions, Redirect(t) PROVE SmallInv'
  BY <1>1, <1>4 DEF Redirect, answerVars
<1>5. ASSUME NEW f \in Filters, NEW i \in accounts[f], FilterAccount(f, i) PROVE SmallInv'
  BY <1>1, <1>5 DEF FilterAccount, packetVars, answerVars
<1>6. ASSUME NEW m \in Mappers,
             \/ \E t \in toMapper[m] : Map(m, t)
             \/ CloseMapper(m) \/ FinishMapper(m)
             \/ \E b \in Banks : SendMaximum(m, b)
      PROVE  SmallInv'
  BY <1>1, <1>6 DEF Map, CloseMapper, FinishMapper, SendMaximum, packetVars, answerVars
<1>7. ASSUME NEW j \in Joiners,
             \/ \E msg \in toJoiner[j] : TakeName(j, msg) \/ TakeMaximum(j, msg)
             \/ CloseJoiner(j)
             \/ \E b \in Banks : SendAnswer(j, b)
             \/ FinishJoiner(j)
      PROVE  SmallInv'
  BY <1>1, <1>7
     DEF TakeName, TakeMaximum, CloseJoiner, SendAnswer, FinishJoiner, packetVars, answerVars
<1>8. CASE UNCHANGED vars \/ BeginHastily
  BY <1>1, <1>8 DEF vars, BeginHastily, packetVars, answerVars
<1>. QED
  BY <1>2, <1>3, <1>4, <1>5, <1>6, <1>7, <1>8 DEF Next, Sorting, Joining

SmallExact ==
    /\ smallAnswers \subseteq SmallDollars
    /\ gateway = {} /\ small = {} => smallAnswers = SmallDollars

(* Query 1 gives no wrong row, and all the right ones once its two stages of  *)
(* filters have nothing left.                                                *)
THEOREM SmallAnswersExact == Spec => []SmallExact
<1>1. Init => SmallInv
  BY SmallAre DEF Init, SmallInv, Dollars
<1>2. SmallInv => SmallExact
  BY DEF SmallInv, SmallExact
<1>. QED
  BY <1>1, <1>2, NextSmall, PTL DEF Spec
=============================================================================
