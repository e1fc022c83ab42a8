--------------------------- MODULE HarnessProofs ----------------------------
(***************************************************************************)
(* The three promises of the harness about its verdicts, proved for every  *)
(* run of generated scenarios, every draw of amounts, any number of        *)
(* abandoned requests and every interleaving of runner, proxy, ingest,     *)
(* worker, kill timer and broker: no false alarm, no false green, and      *)
(* evidence that names the fault.                                          *)
(*                                                                         *)
(* First what a plan promises, independently of any state: the harness's   *)
(* table of expected effects and the mapping agree on every event it mints *)
(* (Posts), each of the fourteen branches of plan() is a GoodPlan, no two  *)
(* scenarios of a run share a key (FreshKeys, FreshTxns), and the balances *)
(* of a set of posted events add up (DeltaUnion, BooksBalance).  Then the  *)
(* inductive invariant HInv, a conjunct at a time.                         *)
(***************************************************************************)
EXTENDS Harness, PipelineProofs, LedgerTheorems, SequenceTheorems

-----------------------------------------------------------------------------
(* The harness's fixtures and the mapping. *)

FaultSet ==
  {"NONE", "DUPLICATE", "DUPLICATE_OBJECT", "CONCURRENT_DUPLICATE", "REORDER", "DELAY",
   "DROP", "RESPOND_500", "TAMPER_BODY", "TRUNCATE_BODY", "STALE_TIMESTAMP",
   "DOWNGRADE_SCHEME", "PARTIAL_WRITE", "SLOW_LORIS"}

KindSet ==
  {"charge_succeeded", "charge_refunded", "dispute_created", "payout_paid",
   "invoice_payment_failed"}

(* The faults and kinds by name. *)
LEMMA Names ==
  /\ Range(DEFAULT_FAULTS) \subseteq FaultSet
  /\ Range(ALL_KINDS) \subseteq KindSet
<1>1. Range(ALL_KINDS) \subseteq KindSet
  BY DEF Range, ALL_KINDS, KindSet
<1>2. ALL_FAULTS \in Seq(FaultSet) /\ <<"NONE">> \in Seq(FaultSet)
  BY DEF ALL_FAULTS, FaultSet
<1>3. DEFAULT_FAULTS \in Seq(FaultSet)
  BY <1>2 DEF DEFAULT_FAULTS
<1> QED BY <1>1, <1>3 DEF Range

Directions == {"debit", "credit"}

(* What an entry <<x, d, n>> of the table does to account a. *)
Share(a, x, d, n) == IF a = x THEN signed_delta(a, d, n) ELSE 0

Two(x, d, m, y, c, n) == << <<x, d, m>>, <<y, c, n>> >>

Three(x, d, m, y, c, n, z, b, o) == << <<x, d, m>>, <<y, c, n>>, <<z, b, o>> >>

(* The net effect of two entries on different accounts. *)
LEMMA TwoDelta ==
  ASSUME NEW x, NEW y, x # y, NEW d \in Directions, NEW c \in Directions,
         NEW m \in Int, NEW n \in Int, NEW a \in DOMAIN ACCOUNT_NORMALS
  PROVE  _delta(Two(x, d, m, y, c, n))[a] = Share(a, x, d, m) + Share(a, y, c, n)
<1> USE DEF Two, Directions
<1> DEFINE es == << <<x, d, m>>, <<y, c, n>> >>
           f == [k \in DOMAIN es |-> signed_delta(a, es[k][2], es[k][3])]
           S == {k \in DOMAIN es : es[k][1] = a}
<1>1. _delta(es)[a] = SumFunctionOnSet(f, S)
  BY DEF _delta
<1>2. /\ f[1] = signed_delta(a, d, m) /\ f[2] = signed_delta(a, c, n)
      /\ f[1] \in Int /\ f[2] \in Int
  BY DEF signed_delta
<1>3. S = (IF a = x THEN {1} ELSE {}) \cup (IF a = y THEN {2} ELSE {})
  OBVIOUS
<1> HIDE DEF f, S
<1>4. /\ SumFunctionOnSet(f, {1}) = f[1] /\ SumFunctionOnSet(f, {2}) = f[2]
      /\ SumFunctionOnSet(f, {}) = 0
  BY <1>2, SumSingle, SumEmpty
<1>5. CASE a = x
  <2>1. S = {1} BY <1>3, <1>5
  <2> QED BY <1>1, <1>2, <1>4, <1>5, <2>1 DEF Share
<1>6. CASE a = y
  <2>1. S = {2} BY <1>3, <1>6
  <2> QED BY <1>1, <1>2, <1>4, <1>6, <2>1 DEF Share
<1>7. CASE a # x /\ a # y
  <2>1. S = {} BY <1>3, <1>7
  <2> QED BY <1>1, <1>4, <1>7, <2>1 DEF Share
<1> QED BY <1>5, <1>6, <1>7

(* The net effect of three. *)
LEMMA ThreeDelta ==
  ASSUME NEW x, NEW y, NEW z, x # y, x # z, y # z, NEW d \in Directions,
         NEW c \in Directions, NEW b \in Directions,
         NEW m \in Int, NEW n \in Int, NEW o \in Int, NEW a \in DOMAIN ACCOUNT_NORMALS
  PROVE  _delta(Three(x, d, m, y, c, n, z, b, o))[a]
           = Share(a, x, d, m) + Share(a, y, c, n) + Share(a, z, b, o)
<1> USE DEF Three, Directions
<1> DEFINE es == << <<x, d, m>>, <<y, c, n>>, <<z, b, o>> >>
           f == [k \in DOMAIN es |-> signed_delta(a, es[k][2], es[k][3])]
           S == {k \in DOMAIN es : es[k][1] = a}
<1>1. _delta(es)[a] = SumFunctionOnSet(f, S)
  BY DEF _delta
<1>2. /\ f[1] = signed_delta(a, d, m) /\ f[2] = signed_delta(a, c, n)
      /\ f[3] = signed_delta(a, b, o)
      /\ f[1] \in Int /\ f[2] \in Int /\ f[3] \in Int
  BY DEF signed_delta
<1>3. S = {k \in {1, 2, 3} : (k = 1 => a = x) /\ (k = 2 => a = y) /\ (k = 3 => a = z)}
  OBVIOUS
<1> HIDE DEF f, S
<1>4. /\ SumFunctionOnSet(f, {1}) = f[1] /\ SumFunctionOnSet(f, {2}) = f[2]
      /\ SumFunctionOnSet(f, {3}) = f[3] /\ SumFunctionOnSet(f, {}) = 0
  BY <1>2, SumSingle, SumEmpty
<1>5. CASE a = x
  <2>1. S = {1} BY <1>3, <1>5
  <2> QED BY <1>1, <1>2, <1>4, <1>5, <2>1 DEF Share
<1>6. CASE a = y
  <2>1. S = {2} BY <1>3, <1>6
  <2> QED BY <1>1, <1>2, <1>4, <1>6, <2>1 DEF Share
<1>7. CASE a = z
  <2>1. S = {3} BY <1>3, <1>7
  <2> QED BY <1>1, <1>2, <1>4, <1>7, <2>1 DEF Share
<1>8. CASE a # x /\ a # y /\ a # z
  <2>1. S = {} BY <1>3, <1>8
  <2> QED BY <1>1, <1>4, <1>8, <2>1 DEF Share
<1> QED BY <1>5, <1>6, <1>7, <1>8

(* No entries, no effect. *)
LEMMA NoDeltaOfNothing == _delta(<<>>) = NoDelta
<1>1. ASSUME NEW a \in DOMAIN ACCOUNT_NORMALS
      PROVE  _delta(<<>>)[a] = 0
  <2> DEFINE es == <<>>
             f == [k \in DOMAIN es |-> signed_delta(a, es[k][2], es[k][3])]
             S == {k \in DOMAIN es : es[k][1] = a}
  <2>1. _delta(es)[a] = SumFunctionOnSet(f, S)
    BY DEF _delta
  <2>2. S = {}
    OBVIOUS
  <2> QED BY <2>1, <2>2, SumEmpty
<1> QED BY <1>1 DEF NoDelta, _delta

-----------------------------------------------------------------------------
(* The mapping on the events the harness mints. *)

RowOf(b, d, n) == [account |-> b, dir |-> d, amount |-> n, currency |-> "USD"]

(* The event is posted as it is, with the effect the harness expects. *)
Posts(ev, delta) ==
  /\ ev.type \in HANDLED_EVENT_TYPES
  /\ \E es \in Seq(EntryRow) :
       /\ build_transaction(ev, NULL) =
            [id      |-> <<"uuid5", ev.id>>,
             event   |-> ev.id,
             object  |-> money_movement_object_id(ev),
             type    |-> ev.type,
             entries |-> es]
       /\ \A a \in AccountNames : account_balance(es, a) = delta[a]
  /\ delta \in [AccountNames -> Int]
  /\ delta # NoDelta

(* An entry the mapping makes and an entry of the harness's table. *)
LEMMA RowIs ==
  ASSUME NEW b \in DOMAIN SeedChart, NEW d \in Directions, NEW n \in Int
  PROVE  /\ RowOf(b, d, n) \in EntryRow
         /\ \A a \in AccountNames :
              SignOn(RowOf(b, d, n), a) = Share(a, b, d, n) /\ Share(a, b, d, n) \in Int
<1>1. b \in STRING /\ SeedChart[b].currency = "USD" /\ SeedChart[b].currency \in STRING
  BY SeedAssumption DEF SeedChart
<1>2. \A a \in AccountNames : Chart[a].normal = ACCOUNT_NORMALS[a]
  BY StackAssumption DEF AccountNames, SeedChart, ACCOUNT_NORMALS
<1> QED BY <1>1, <1>2 DEF RowOf, EntryRow, SignOn, signed_delta, Share, Directions

(* The accounts of the database are the ones of the harness's table. *)
LEMMA Accounts ==
  /\ AccountNames = DOMAIN ACCOUNT_NORMALS /\ AccountNames = DOMAIN SeedChart
  /\ DOMAIN NoDelta = AccountNames
  /\ \A b \in {"stripe_balance", "bank", "processing_fees", "dispute_losses",
               "refunds_contra", "revenue"} : b \in AccountNames
BY StackAssumption DEF AccountNames, SeedChart, ACCOUNT_NORMALS, NoDelta

(* Three entries of the mapping against three of the table. *)
LEMMA ThreeAgree ==
  ASSUME NEW x \in AccountNames, NEW y \in AccountNames, NEW z \in AccountNames,
         x # y, x # z, y # z, NEW d \in Directions,
         NEW c \in Directions, NEW b \in Directions,
         NEW m \in Int, NEW n \in Int, NEW o \in Int,
         NEW es, es = add(add(add(<<>>, RowOf(x, d, m)), RowOf(y, c, n)), RowOf(z, b, o)),
         NEW delta, delta = _delta(Three(x, d, m, y, c, n, z, b, o))
  PROVE  /\ es \in Seq(EntryRow)
         /\ \A a \in AccountNames : account_balance(es, a) = delta[a] /\ delta[a] \in Int
         /\ delta[x] = signed_delta(x, d, m) /\ delta[z] = signed_delta(z, b, o)
<1>0. x \in DOMAIN SeedChart /\ y \in DOMAIN SeedChart /\ z \in DOMAIN SeedChart
  BY Accounts
<1>1. /\ RowOf(x, d, m) \in EntryRow /\ RowOf(y, c, n) \in EntryRow
      /\ RowOf(z, b, o) \in EntryRow
  BY RowIs, <1>0
<1>2. es \in Seq(EntryRow)
  BY <1>1, ThreeBalance
<1>3. ASSUME NEW a \in AccountNames
      PROVE  /\ account_balance(es, a) = delta[a] /\ delta[a] \in Int
             /\ a = x => delta[a] = signed_delta(x, d, m)
             /\ a = z => delta[a] = signed_delta(z, b, o)
  <2>1. account_balance(es, a) = SignOn(RowOf(x, d, m), a) + SignOn(RowOf(y, c, n), a)
                                 + SignOn(RowOf(z, b, o), a)
    BY <1>1, ThreeBalance
  <2>2. delta[a] = Share(a, x, d, m)
                   + Share(a, y, c, n)
                   + Share(a, z, b, o)
    <3>1. a \in DOMAIN ACCOUNT_NORMALS
      BY Accounts
    <3>2. _delta(Three(x, d, m, y, c, n, z, b, o))[a]
            = Share(a, x, d, m) + Share(a, y, c, n) + Share(a, z, b, o)
      BY ONLY <3>1, ThreeDelta, x # y, x # z, y # z, d \in Directions,
         c \in Directions, b \in Directions, m \in Int, n \in Int, o \in Int
    <3> QED BY <3>2
  <2>3. /\ SignOn(RowOf(x, d, m), a) = Share(a, x, d, m)
        /\ Share(a, x, d, m) \in Int
    BY ONLY RowIs, <1>0, d \in Directions, m \in Int, a \in AccountNames
  <2>4. /\ SignOn(RowOf(y, c, n), a) = Share(a, y, c, n)
        /\ Share(a, y, c, n) \in Int
    BY ONLY RowIs, <1>0, c \in Directions, n \in Int, a \in AccountNames
  <2>5. /\ SignOn(RowOf(z, b, o), a) = Share(a, z, b, o)
        /\ Share(a, z, b, o) \in Int
    BY ONLY RowIs, <1>0, b \in Directions, o \in Int, a \in AccountNames
  <2>6. /\ a = x => Share(a, x, d, m) = signed_delta(x, d, m) /\ Share(a, y, c, n) = 0
                    /\ Share(a, z, b, o) = 0
        /\ a = z => Share(a, z, b, o) = signed_delta(z, b, o) /\ Share(a, y, c, n) = 0
                    /\ Share(a, x, d, m) = 0
    BY DEF Share
  <2>7. account_balance(es, a) = delta[a] /\ delta[a] \in Int
    BY ONLY <2>1, <2>2, <2>3, <2>4, <2>5
  <2>8. a = x => delta[a] = signed_delta(x, d, m)
    BY ONLY <2>2, <2>3, <2>6
  <2>9. a = z => delta[a] = signed_delta(z, b, o)
    BY ONLY <2>2, <2>5, <2>6
  <2> QED BY <2>7, <2>8, <2>9
<1> QED BY <1>2, <1>3

(* Two against two. *)
LEMMA TwoAgree ==
  ASSUME NEW x \in AccountNames, NEW y \in AccountNames, x # y,
         NEW d \in Directions, NEW c \in Directions,
         NEW m \in Int, NEW n \in Int,
         NEW es, es = add(add(<<>>, RowOf(x, d, m)), RowOf(y, c, n)),
         NEW delta, delta = _delta(Two(x, d, m, y, c, n))
  PROVE  /\ es \in Seq(EntryRow)
         /\ \A a \in AccountNames : account_balance(es, a) = delta[a] /\ delta[a] \in Int
         /\ delta[x] = signed_delta(x, d, m)
<1>0. x \in DOMAIN SeedChart /\ y \in DOMAIN SeedChart
  BY Accounts
<1>1. RowOf(x, d, m) \in EntryRow /\ RowOf(y, c, n) \in EntryRow
  BY RowIs, <1>0
<1>2. es \in Seq(EntryRow)
  BY <1>1, TwoBalance
<1>3. ASSUME NEW a \in AccountNames
      PROVE  /\ account_balance(es, a) = delta[a] /\ delta[a] \in Int
             /\ a = x => delta[a] = signed_delta(x, d, m)
  <2>1. account_balance(es, a) = SignOn(RowOf(x, d, m), a) + SignOn(RowOf(y, c, n), a)
    BY <1>1, TwoBalance
  <2>2. delta[a] = Share(a, x, d, m)
                   + Share(a, y, c, n)
    BY ONLY TwoDelta, Accounts, delta = _delta(Two(x, d, m, y, c, n)), a \in AccountNames,
       x # y, d \in Directions, c \in Directions, m \in Int, n \in Int
  <2>3. /\ SignOn(RowOf(x, d, m), a) = Share(a, x, d, m)
        /\ Share(a, x, d, m) \in Int
    BY ONLY RowIs, <1>0, d \in Directions, m \in Int, a \in AccountNames
  <2>4. /\ SignOn(RowOf(y, c, n), a) = Share(a, y, c, n)
        /\ Share(a, y, c, n) \in Int
    BY ONLY RowIs, <1>0, c \in Directions, n \in Int, a \in AccountNames
  <2>6. a = x => Share(a, x, d, m) = signed_delta(x, d, m) /\ Share(a, y, c, n) = 0
    BY DEF Share
  <2> QED BY <2>1, <2>2, <2>3, <2>4, <2>6
<1> QED BY <1>2, <1>3

(* A seeded amount and the fee on it. *)
LEMMA DrawIs ==
  ASSUME NEW q \in DOMAIN Draw
  PROVE  /\ Draw[q].amount \in Int /\ Draw[q].amount > 0
         /\ Draw[q].refunded \in Int /\ Draw[q].refunded > 0
         /\ _fee(Draw[q].amount) \in Int /\ _DISPUTE_FEE \in Int
<1>1. PICK m, r : m = Draw[q].amount /\ r = Draw[q].refunded
  OBVIOUS
<1>2. m \in _MIN_AMOUNT .. _MAX_AMOUNT - 1 /\ r \in 1 .. m
  BY <1>1, DrawAssumption
<1>3. m \in Int /\ m > 0 /\ r \in Int /\ r > 0
  <2>1. _MIN_AMOUNT \in Int /\ _MIN_AMOUNT > 0 /\ _MAX_AMOUNT - 1 \in Int
    BY DEF _MIN_AMOUNT, _MAX_AMOUNT
  <2>2. m \in Int /\ m > 0
    BY ONLY <1>2, <2>1
  <2>3. r \in Int /\ r > 0
    BY ONLY <1>2, <2>2
  <2> QED BY <2>2, <2>3
<1>4. PICK n : n = m * 29
  OBVIOUS
<1>5. n \in Int
  BY <1>3, <1>4
<1>6. n \div 1000 \in Int
  BY <1>5
<1>7. _fee(m) \in Int
  BY <1>4, <1>6 DEF _fee
<1> QED BY <1>1, <1>3, <1>7 DEF _DISPUTE_FEE

(* A table entry that is not zero makes a delta that is not NoDelta. *)
LEMMA NotNoDelta ==
  ASSUME NEW delta, NEW x \in AccountNames, delta[x] # 0
  PROVE  delta # NoDelta
BY Accounts DEF NoDelta

(* The effect of a table entry is the amount, one way or the other. *)
LEMMA SignedNonZero ==
  ASSUME NEW x, NEW d, NEW n \in Int, n > 0
  PROVE  signed_delta(x, d, n) # 0
BY DEF signed_delta

(* The fee of a fixture is in its payload. *)
LEMMA EmbeddedFee ==
  ASSUME NEW obj, NEW fee \in Int, obj.bts = _balance_transaction(fee)
  PROVE  PayloadFee(obj, NULL) = fee
<1> DEFINE b == [expanded |-> TRUE, fee |-> fee]
<1>1. obj.bts = <<b>> /\ b.fee = fee /\ b.expanded
  BY DEF _balance_transaction
<1> HIDE DEF b
<1>2. AllExpanded(<<b>>)
  BY <1>1 DEF AllExpanded
<1>3. FeeSum(<<b>>) = fee
  BY <1>1, OneFee
<1> QED BY <1>1, <1>2, <1>3 DEF PayloadFee

(* A captured charge. *)
LEMMA ChargePosts ==
  ASSUME NEW q \in DOMAIN Draw, NEW fx, fx = _fixture("charge_succeeded", q),
         NEW ev, ev.type = fx.event.type, ev.object = fx.event.object, ev.object # NULL
  PROVE  Posts(ev, fx.expected_delta)
<1> DEFINE m == Draw[q].amount
           fee == _fee(m)
           es == add(add(add(<<>>, RowOf("stripe_balance", "debit", m - fee)),
                         RowOf("processing_fees", "debit", fee)),
                     RowOf("revenue", "credit", m))
           delta == _delta(<< <<"stripe_balance", "debit", m - fee>>,
                              <<"processing_fees", "debit", fee>>,
                              <<"revenue", "credit", m>> >>)
<1>1. m \in Int /\ m > 0 /\ fee \in Int
  BY DrawIs
<1> HIDE DEF m, fee
<1>2. fx = make_charge_succeeded(q, m, fee)
  BY DEF _fixture, m, fee
<1>3. /\ fx.expected_delta = delta /\ ev.type = "charge.succeeded"
      /\ ev.object.amount = m /\ ev.object.currency = "USD"
  BY <1>2 DEF make_charge_succeeded, EventFixture, _envelope, Payment
<1>4. PayloadFee(ev.object, NULL) = fee
  <2>1. ev.object.bts = _balance_transaction(fee)
    BY <1>2 DEF make_charge_succeeded, EventFixture, _envelope, Payment
  <2> QED BY <1>1, <2>1, EmbeddedFee
<1>5. Entries(ev, fee) = es
  BY <1>3 DEF Entries, RowOf
<1> HIDE DEF es, delta
<1>6. build_transaction(ev, NULL) =
        [id |-> <<"uuid5", ev.id>>, event |-> ev.id,
         object |-> money_movement_object_id(ev), type |-> ev.type, entries |-> es]
  BY <1>1, <1>3, <1>4, <1>5, NullAssumption DEF build_transaction, MappedTypes, FeeBearingTypes
<1>7. /\ es \in Seq(EntryRow)
      /\ \A a \in AccountNames : account_balance(es, a) = delta[a] /\ delta[a] \in Int
      /\ delta["revenue"] = signed_delta("revenue", "credit", m)
  <2>1. m - fee \in Int
    BY <1>1
  <2>2. PICK n \in Int : n = m - fee
    BY <2>1
  <2>3. /\ "stripe_balance" \in AccountNames /\ "processing_fees" \in AccountNames
        /\ "revenue" \in AccountNames
    BY Accounts
  <2>4. /\ es = add(add(add(<<>>, RowOf("stripe_balance", "debit", n)),
                         RowOf("processing_fees", "debit", fee)),
                     RowOf("revenue", "credit", m))
        /\ delta = _delta(<< <<"stripe_balance", "debit", n>>,
                             <<"processing_fees", "debit", fee>>,
                             <<"revenue", "credit", m>> >>)
    BY <2>2 DEF es, delta
  <2> QED BY <1>1, <2>3, <2>4, ThreeAgree DEF Three, Directions
<1>8. delta # NoDelta
  BY <1>1, <1>7, Accounts, NotNoDelta, SignedNonZero
<1>9. delta \in [AccountNames -> Int]
  BY <1>7, Accounts DEF delta, _delta
<1> QED BY <1>3, <1>6, <1>7, <1>8, <1>9 DEF Posts, HANDLED_EVENT_TYPES

(* A dispute. *)
LEMMA DisputePosts ==
  ASSUME NEW q \in DOMAIN Draw, NEW fx, fx = _fixture("dispute_created", q),
         NEW ev, ev.type = fx.event.type, ev.object = fx.event.object, ev.object # NULL
  PROVE  Posts(ev, fx.expected_delta)
<1> DEFINE m == Draw[q].amount
           fee == _DISPUTE_FEE
           es == add(add(add(<<>>, RowOf("dispute_losses", "debit", m)),
                         RowOf("processing_fees", "debit", fee)),
                     RowOf("stripe_balance", "credit", m + fee))
           delta == _delta(<< <<"dispute_losses", "debit", m>>,
                              <<"processing_fees", "debit", fee>>,
                              <<"stripe_balance", "credit", m + fee>> >>)
<1>1. m \in Int /\ m > 0 /\ fee \in Int
  BY DrawIs
<1> HIDE DEF m, fee
<1>2. fx = make_dispute_created(q, m, fee)
  BY DEF _fixture, m, fee
<1>3. /\ fx.expected_delta = delta /\ ev.type = "charge.dispute.created"
      /\ ev.object.amount = m /\ ev.object.currency = "USD"
  BY <1>2 DEF make_dispute_created, EventFixture, _envelope, Payment
<1>4. PayloadFee(ev.object, NULL) = fee
  <2>1. ev.object.bts = _balance_transaction(fee)
    BY <1>2 DEF make_dispute_created, EventFixture, _envelope, Payment
  <2> QED BY <1>1, <2>1, EmbeddedFee
<1>5. Entries(ev, fee) = es
  BY <1>3 DEF Entries, RowOf
<1> HIDE DEF es, delta
<1>6. build_transaction(ev, NULL) =
        [id |-> <<"uuid5", ev.id>>, event |-> ev.id,
         object |-> money_movement_object_id(ev), type |-> ev.type, entries |-> es]
  BY <1>1, <1>3, <1>4, <1>5, NullAssumption DEF build_transaction, MappedTypes, FeeBearingTypes
<1>7. /\ es \in Seq(EntryRow)
      /\ \A a \in AccountNames : account_balance(es, a) = delta[a] /\ delta[a] \in Int
      /\ delta["dispute_losses"] = signed_delta("dispute_losses", "debit", m)
  <2>1. m + fee \in Int
    BY <1>1
  <2>2. PICK n \in Int : n = m + fee
    BY <2>1
  <2>3. /\ "stripe_balance" \in AccountNames /\ "processing_fees" \in AccountNames
        /\ "dispute_losses" \in AccountNames
    BY Accounts
  <2>4. /\ es = add(add(add(<<>>, RowOf("dispute_losses", "debit", m)),
                         RowOf("processing_fees", "debit", fee)),
                     RowOf("stripe_balance", "credit", n))
        /\ delta = _delta(<< <<"dispute_losses", "debit", m>>,
                             <<"processing_fees", "debit", fee>>,
                             <<"stripe_balance", "credit", n>> >>)
    BY <2>2 DEF es, delta
  <2> QED BY <1>1, <2>3, <2>4, ThreeAgree DEF Three, Directions
<1>8. delta # NoDelta
  BY <1>1, <1>7, Accounts, NotNoDelta, SignedNonZero
<1>9. delta \in [AccountNames -> Int]
  BY <1>7, Accounts DEF delta, _delta
<1> QED BY <1>3, <1>6, <1>7, <1>8, <1>9 DEF Posts, HANDLED_EVENT_TYPES

(* A refund. *)
LEMMA RefundPosts ==
  ASSUME NEW q \in DOMAIN Draw, NEW fx, fx = _fixture("charge_refunded", q),
         NEW ev, ev.type = fx.event.type, ev.object = fx.event.object, ev.object # NULL,
         ev.object.refunds[1] # NULL
  PROVE  Posts(ev, fx.expected_delta)
<1> DEFINE m == Draw[q].refunded
           es == add(add(<<>>, RowOf("refunds_contra", "debit", m)),
                     RowOf("stripe_balance", "credit", m))
           delta == _delta(<< <<"refunds_contra", "debit", m>>,
                              <<"stripe_balance", "credit", m>> >>)
<1>1. m \in Int /\ m > 0
  BY DrawIs
<1> HIDE DEF m
<1>2. fx = make_charge_refunded(q, Draw[q].amount, m)
  BY DEF _fixture, m
<1>3. /\ fx.expected_delta = delta /\ ev.type = "charge.refunded"
      /\ ev.object.refunds = << [id |-> <<"re", q>>, amount |-> m] >>
      /\ ev.object.currency = "USD"
  BY <1>2 DEF make_charge_refunded, EventFixture, _envelope, Payment
<1>4. RefundAmount(ev.object) = m
  BY <1>1, <1>3, NullAssumption DEF RefundAmount, _newest_refund
<1>5. Entries(ev, 0) = es
  BY <1>3, <1>4 DEF Entries, RowOf
<1> HIDE DEF es, delta
<1>6. build_transaction(ev, NULL) =
        [id |-> <<"uuid5", ev.id>>, event |-> ev.id,
         object |-> money_movement_object_id(ev), type |-> ev.type, entries |-> es]
  BY <1>1, <1>3, <1>5, NullAssumption DEF build_transaction, MappedTypes, FeeBearingTypes
<1>7. /\ es \in Seq(EntryRow)
      /\ \A a \in AccountNames : account_balance(es, a) = delta[a] /\ delta[a] \in Int
      /\ delta["refunds_contra"] = signed_delta("refunds_contra", "debit", m)
  <2>1. "stripe_balance" \in AccountNames /\ "refunds_contra" \in AccountNames
    BY Accounts
  <2> QED BY <1>1, <2>1, TwoAgree DEF es, delta, Two, Directions
<1>8. delta # NoDelta
  BY <1>1, <1>7, Accounts, NotNoDelta, SignedNonZero
<1>9. delta \in [AccountNames -> Int]
  BY <1>7, Accounts DEF delta, _delta
<1> QED BY <1>3, <1>6, <1>7, <1>8, <1>9 DEF Posts, HANDLED_EVENT_TYPES

(* A payout. *)
LEMMA PayoutPosts ==
  ASSUME NEW q \in DOMAIN Draw, NEW fx, fx = _fixture("payout_paid", q),
         NEW ev, ev.type = fx.event.type, ev.object = fx.event.object, ev.object # NULL
  PROVE  Posts(ev, fx.expected_delta)
<1> DEFINE m == Draw[q].amount
           es == add(add(<<>>, RowOf("bank", "debit", m)),
                     RowOf("stripe_balance", "credit", m))
           delta == _delta(<< <<"bank", "debit", m>>, <<"stripe_balance", "credit", m>> >>)
<1>1. m \in Int /\ m > 0
  BY DrawIs
<1> HIDE DEF m
<1>2. fx = make_payout_paid(q, m)
  BY DEF _fixture, m
<1>3. /\ fx.expected_delta = delta /\ ev.type = "payout.paid"
      /\ ev.object.amount = m /\ ev.object.currency = "USD"
  BY <1>2 DEF make_payout_paid, EventFixture, _envelope, Payment
<1>5. Entries(ev, 0) = es
  BY <1>3 DEF Entries, RowOf
<1> HIDE DEF es, delta
<1>6. build_transaction(ev, NULL) =
        [id |-> <<"uuid5", ev.id>>, event |-> ev.id,
         object |-> money_movement_object_id(ev), type |-> ev.type, entries |-> es]
  BY <1>1, <1>3, <1>5, NullAssumption DEF build_transaction, MappedTypes, FeeBearingTypes
<1>7. /\ es \in Seq(EntryRow)
      /\ \A a \in AccountNames : account_balance(es, a) = delta[a] /\ delta[a] \in Int
      /\ delta["bank"] = signed_delta("bank", "debit", m)
  <2>1. "stripe_balance" \in AccountNames /\ "bank" \in AccountNames
    BY Accounts
  <2> QED BY <1>1, <2>1, TwoAgree, SMTT(30) DEF es, delta, Two, Directions
<1>8. delta # NoDelta
  BY <1>1, <1>7, Accounts, NotNoDelta, SignedNonZero
<1>9. delta \in [AccountNames -> Int]
  BY <1>7, Accounts DEF delta, _delta
<1> QED BY <1>3, <1>6, <1>7, <1>8, <1>9 DEF Posts, HANDLED_EVENT_TYPES

(* A failed invoice payment moves no money, by the table and by the mapping. *)
LEMMA InvoicePostsNot ==
  ASSUME NEW q \in DOMAIN Draw, NEW fx, fx = _fixture("invoice_payment_failed", q),
         NEW ev, ev.type = fx.event.type, ev.object = fx.event.object, ev.object # NULL
  PROVE  /\ ev.type \in HANDLED_EVENT_TYPES /\ build_transaction(ev, NULL) = NoTransaction
         /\ fx.expected_delta = NoDelta
<1>1. fx = make_invoice_payment_failed(q, Draw[q].amount)
  BY DEF _fixture
<1>2. ev.type = "invoice.payment_failed" /\ fx.expected_delta = NoDelta
  BY <1>1, NoDeltaOfNothing DEF make_invoice_payment_failed, EventFixture, _envelope
<1> QED BY <1>2 DEF build_transaction, HANDLED_EVENT_TYPES

(* An event the harness mints from seq q: a fixture's, or its twin. *)
Minted(e, q) ==
  /\ e \in Events
  /\ e[2] = q
  /\ Payload[e].object # NULL
  /\ Payload[e].type # NULL
  /\ money_movement_object_id(Payload[e]) # NULL
  /\ \E p : money_movement_object_id(Payload[e]) = <<p, q>>

(* How the ledger and the log see an event that posts. *)
LEMMA EventPosts ==
  ASSUME NEW e \in Events, NEW delta, Posts(Payload[e], delta)
  PROVE  /\ Postable(e)
         /\ TxnOf(e).id = <<"uuid5", e>> /\ TxnOf(e).event = e /\ "event" \in DOMAIN TxnOf(e)
         /\ TxnOf(e).object = money_movement_object_id(Payload[e])
         /\ TxnOf(e).type = Payload[e].type
         /\ TxnOf(e).entries \in Seq(EntryRow)
         /\ Effect[e] = delta
<1>1. Payload[e].id = e
  BY PayloadAssumption
<1>2. PICK es \in Seq(EntryRow) :
        /\ build_transaction(Payload[e], NULL) =
            [id      |-> <<"uuid5", e>>,
             event   |-> e,
             object  |-> money_movement_object_id(Payload[e]),
             type    |-> Payload[e].type,
             entries |-> es]
        /\ \A a \in AccountNames : account_balance(es, a) = delta[a]
  BY <1>1 DEF Posts
<1>3. FirstBuild(e) = build_transaction(Payload[e], NULL)
  BY DEF FirstBuild, FirstBuilds
<1>4. FirstBuild(e) \notin {NoTransaction, Raises, MissingFeeData}
  <2>1. DOMAIN FirstBuild(e) # {"result"}
    BY <1>2, <1>3
  <2> QED BY <2>1 DEF NoTransaction, Raises, MissingFeeData
<1>5. TxnOf(e) = FirstBuild(e)
  BY <1>4 DEF TxnOf, Built
<1>6. Postable(e)
  BY <1>4 DEF Postable, Handled, Posts
<1>7. Effect[e] = [a \in AccountNames |-> account_balance(TxnOf(e).entries, a)]
  BY <1>6 DEF Effect, _LedgerTxn
<1>8. TxnOf(e).entries = es
  BY <1>2, <1>3, <1>5
<1>9. Effect[e] = delta
  BY <1>2, <1>7, <1>8 DEF Posts
<1> QED BY <1>2, <1>3, <1>5, <1>6, <1>8, <1>9

(* Events that post under one key come from one seq. *)
LEMMA SameTxnSameSeq ==
  ASSUME NEW e, NEW q, Minted(e, q), NEW f, NEW r, Minted(f, r), NEW d, NEW c,
         Posts(Payload[e], d), Posts(Payload[f], c), Conflict(TxnOf(e), TxnOf(f))
  PROVE  q = r
<1>1. /\ TxnOf(e).id = <<"uuid5", e>> /\ TxnOf(e).event = e
      /\ TxnOf(e).object = money_movement_object_id(Payload[e])
  BY EventPosts DEF Minted
<1>2. /\ TxnOf(f).id = <<"uuid5", f>> /\ TxnOf(f).event = f
      /\ TxnOf(f).object = money_movement_object_id(Payload[f])
  BY EventPosts DEF Minted
<1>3. \/ e = f
      \/ money_movement_object_id(Payload[e]) = money_movement_object_id(Payload[f])
  BY <1>1, <1>2 DEF Conflict, PkeyConflict, DedupeConflict, SameNonNull
<1> QED BY <1>3 DEF Minted

(* Events that block each other in the log come from one seq. *)
LEMMA SameKeySameSeq ==
  ASSUME NEW e, NEW q, Minted(e, q), NEW f, NEW r, Minted(f, r), SameKey(e, f)
  PROVE  q = r
BY DEF Minted, SameKey, SameNonNull

(* An event and its twin share every key but the id. *)
LEMMA TwinsCollide ==
  ASSUME NEW e, NEW q, Minted(e, q), NEW f, Minted(f, q), NEW d,
         Payload[f].type = Payload[e].type, Payload[f].object = Payload[e].object,
         Posts(Payload[e], d), Posts(Payload[f], d)
  PROVE  SameKey(f, e) /\ Conflict(TxnOf(e), TxnOf(f))
<1>1. money_movement_object_id(Payload[f]) = money_movement_object_id(Payload[e])
  BY DEF money_movement_object_id, RefundId
<1>2. /\ TxnOf(e).object = money_movement_object_id(Payload[e])
      /\ TxnOf(e).type = Payload[e].type
      /\ TxnOf(f).object = money_movement_object_id(Payload[f])
      /\ TxnOf(f).type = Payload[f].type
  BY EventPosts DEF Minted
<1> QED BY <1>1, <1>2 DEF SameKey, SameNonNull, Minted, Conflict, DedupeConflict

(* The movement id a fixture's event carries. *)
LEMMA FixtureObject ==
  ASSUME NEW q \in DOMAIN Draw, NEW kind \in Range(ALL_KINDS),
         NEW ev, ev.type = _fixture(kind, q).event.type,
         ev.object = _fixture(kind, q).event.object
  PROVE  /\ ev.object # NULL /\ ev.type # NULL /\ money_movement_object_id(ev) # NULL
         /\ \E p : money_movement_object_id(ev) = <<p, q>>
         /\ _fixture(kind, q).event.id = <<"evt", q>>
         /\ kind = "charge_refunded" => ev.object.refunds[1] # NULL
<1> DEFINE x == _fixture(kind, q).event
<1>0. money_movement_object_id(ev) = money_movement_object_id(x)
  BY DEF money_movement_object_id, RefundId
<1>1. /\ x.object # NULL /\ x.type # NULL /\ money_movement_object_id(x) # NULL
      /\ \A k \in DOMAIN x.object.refunds :
           x.object.refunds[k] # NULL /\ x.object.refunds[k].id # NULL
  BY NoneAssumption
<1>2. kind \in KindSet
  BY Names
<1>3. CASE kind = "charge_refunded"
  <2>1. x = _envelope(q, "charge.refunded",
              Payment(<<"ch", q>>, Draw[q].amount, Draw[q].refunded,
                      << [id |-> <<"re", q>>, amount |-> Draw[q].refunded] >>, <<>>))
    BY <1>3 DEF _fixture, make_charge_refunded, EventFixture
  <2>2. x.object.refunds = << [id |-> <<"re", q>>, amount |-> Draw[q].refunded] >>
    BY <2>1 DEF _envelope, Payment
  <2>3. 1 \in DOMAIN x.object.refunds /\ x.object.refunds # <<>>
        /\ x.object.refunds[1].id = <<"re", q>>
    BY <2>2
  <2>4. RefundId(x.object) # NULL /\ RefundId(x.object) = <<"re", q>>
    BY <1>1, <2>3 DEF RefundId, _newest_refund
  <2>5. x.type = "charge.refunded" /\ x.id = <<"evt", q>>
    BY <2>1 DEF _envelope
  <2>6. money_movement_object_id(x) = <<"re", q>>
    BY <1>1, <2>4, <2>5 DEF money_movement_object_id
  <2>7. x.object.refunds[1] # NULL
    BY <1>1, <2>3
  <2> QED BY <1>0, <1>1, <2>5, <2>6, <2>7
<1>4. ASSUME NEW type, NEW p, NEW a, NEW b, NEW c, NEW d, type # "charge.refunded",
             x = _envelope(q, type, Payment(<<p, q>>, a, b, c, d))
      PROVE  money_movement_object_id(x) = <<p, q>> /\ x.id = <<"evt", q>>
  <2>1. x.type = type /\ x.id = <<"evt", q>> /\ x.object = Payment(<<p, q>>, a, b, c, d)
    BY <1>4 DEF _envelope
  <2>2. x.object.id = <<p, q>>
    BY <2>1 DEF Payment
  <2> QED BY <1>1, <1>4, <2>1, <2>2 DEF money_movement_object_id
<1>5. CASE kind = "charge_succeeded"
  <2>1. x = _envelope(q, "charge.succeeded",
              Payment(<<"ch", q>>, Draw[q].amount, 0, <<>>,
                      _balance_transaction(_fee(Draw[q].amount))))
    BY <1>5 DEF _fixture, make_charge_succeeded, EventFixture
  <2> QED BY <1>0, <1>1, <1>4, <1>5, <2>1
<1>6. CASE kind = "dispute_created"
  <2>1. x = _envelope(q, "charge.dispute.created",
              Payment(<<"dp", q>>, Draw[q].amount, 0, <<>>,
                      _balance_transaction(_DISPUTE_FEE)))
    BY <1>6 DEF _fixture, make_dispute_created, EventFixture
  <2> QED BY <1>0, <1>1, <1>4, <1>6, <2>1
<1>7. CASE kind = "payout_paid"
  <2>1. x = _envelope(q, "payout.paid", Payment(<<"po", q>>, Draw[q].amount, 0, <<>>, <<>>))
    BY <1>7 DEF _fixture, make_payout_paid, EventFixture
  <2> QED BY <1>0, <1>1, <1>4, <1>7, <2>1
<1>8. CASE kind = "invoice_payment_failed"
  <2>1. x = _envelope(q, "invoice.payment_failed",
              Payment(<<"in", q>>, Draw[q].amount, 0, <<>>, <<>>))
    BY <1>8 DEF _fixture, make_invoice_payment_failed, EventFixture
  <2> QED BY <1>0, <1>1, <1>4, <1>8, <2>1
<1> QED BY <1>2, <1>3, <1>5, <1>6, <1>7, <1>8 DEF KindSet

(* The harness's table and the mapping agree on every event it mints. *)
LEMMA FixturePosts ==
  ASSUME NEW q \in DOMAIN Draw, NEW kind \in Range(ALL_KINDS),
         NEW ev, ev.type = _fixture(kind, q).event.type,
         ev.object = _fixture(kind, q).event.object
  PROVE  /\ kind # "invoice_payment_failed" => Posts(ev, _fixture(kind, q).expected_delta)
         /\ kind = "invoice_payment_failed" =>
              /\ ev.type \in HANDLED_EVENT_TYPES
              /\ build_transaction(ev, NULL) = NoTransaction
              /\ _fixture(kind, q).expected_delta = NoDelta
<1>1. ev.object # NULL
  BY FixtureObject
<1>2. kind \in KindSet
  BY Names
<1>3. PICK fx : fx = _fixture(kind, q)
  OBVIOUS
<1>4. CASE kind = "charge_succeeded"
  BY <1>1, <1>3, <1>4, ChargePosts
<1>5. CASE kind = "charge_refunded"
  <2>1. ev.object.refunds[1] # NULL
    BY <1>5, FixtureObject
  <2> QED BY <1>1, <1>3, <1>5, <2>1, RefundPosts
<1>6. CASE kind = "dispute_created"
  BY <1>1, <1>3, <1>6, DisputePosts
<1>7. CASE kind = "payout_paid"
  BY <1>1, <1>3, <1>7, PayoutPosts
<1>8. CASE kind = "invoice_payment_failed"
  BY <1>1, <1>3, <1>8, InvoicePostsNot
<1> QED BY <1>2, <1>4, <1>5, <1>6, <1>7, <1>8 DEF KindSet

(* The faults a refused delivery points to. *)
Reading(d) ==
  IF d.body.form = "truncated" THEN {"TRUNCATE_BODY"}
  ELSE IF d.sig.v1 = {} THEN {"DOWNGRADE_SCHEME"}
  ELSE IF Now + d.delay_before_s - d.sig.t[1] <= DEFAULT_TOLERANCE_SECONDS
       THEN {"TAMPER_BODY"}
  ELSE {"DELAY", "STALE_TIMESTAMP"}

(* A delivery ingest takes, and nobody expects it not to. *)
Taken(d, fx) ==
  /\ d.event_id = fx.event.id
  /\ Verdict(d) = ""
  /\ ~ d.expect_rejected
  /\ d.expect_rejection_reason = NULL

(* A delivery ingest refuses for the reason the plan gives, if it gives one. *)
Refused(d, fx, fault) ==
  /\ d.event_id = fx.event.id
  /\ Verdict(d) = INVALID_SIGNATURE
  /\ d.expect_rejected
  /\ d.expect_rejection_reason \in {NULL, INVALID_SIGNATURE}
  /\ fault \in Reading(d)

Fields(d, fx, body, sig, late, hold, rejected, reason) ==
  /\ d.body = body
  /\ d.sig = sig
  /\ d.event_id = fx.event.id
  /\ d.delay_before_s = late
  /\ d.slow_loris_s = hold
  /\ d.expect_rejected <=> rejected
  /\ d.expect_rejection_reason = reason

(* What sign makes. *)
LEMMA SignIs ==
  ASSUME NEW body, NEW secret, NEW ts, NEW sig, sig = sign(body, secret, ts, {"v1"})
  PROVE  /\ sig.wellformed /\ Len(sig.t) = 1 /\ sig.t[1] = ts
         /\ sig.v1 = {<<secret, ts, body>>} /\ sig.v1 # {}
<1>1. sig = [wellformed |-> TRUE, t |-> <<ts>>, v1 |-> {<<secret, ts, body>>},
             v0 |-> {}]
  BY DEF sign, _v1_digest
<1>2. sig.wellformed = TRUE
  BY ONLY <1>1
<1>3. sig.t = <<ts>> /\ sig.v1 = {<<secret, ts, body>>}
  BY ONLY <1>1
<1>4. Len(sig.t) = 1 /\ sig.t[1] = ts
  BY ONLY <1>3
<1>5. sig.v1 # {}
  BY ONLY <1>3
<1> QED BY <1>2, <1>3, <1>4, <1>5

(* verify on a v1 signature: the same bytes, recently. *)
LEMMA VerifyIs ==
  ASSUME NEW body, NEW signed, NEW secret, NEW ts, NEW sig, NEW now,
         sig = sign(signed, secret, ts, {"v1"})
  PROVE  verify(body, sig, secret, now)
           <=> body = signed /\ Distance(now, ts) <= DEFAULT_TOLERANCE_SECONDS
<1>1. /\ sig.wellformed /\ Len(sig.t) = 1 /\ sig.t[1] = ts
      /\ sig.v1 = {<<secret, ts, signed>>} /\ sig.v1 # {}
  BY SignIs
<1>2. <<secret, ts, body>> \in sig.v1 <=> body = signed
  BY <1>1
<1> QED BY <1>1, <1>2 DEF verify, _v1_digest

(* A delivery, field by field. *)
LEMMA DeliveryIs ==
  ASSUME NEW fx, NEW body, NEW sig, NEW d, d = Delivery(fx, body, sig)
  PROVE  Fields(d, fx, body, sig, 0, 0, FALSE, NULL)
BY DEF Delivery, Fields

(* Signed at Now or a little earlier, over the bytes that are sent. *)
LEMMA TakenIs ==
  ASSUME NEW fx, NEW body, body = serialize(fx), NEW d, NEW ts \in Int,
         NEW sig, sig = sign(body, webhook_secret, ts, {"v1"}), ts = Now,
         NEW late \in 0 .. 100, NEW hold \in 0 .. 100,
         Fields(d, fx, body, sig, late, hold, FALSE, NULL)
  PROVE  Taken(d, fx)
<1> USE DEF Fields
<1>1. PICK n : n = ArrivalTime(d)
  OBVIOUS
<1>2. Distance(n, ts) <= DEFAULT_TOLERANCE_SECONDS
  <2>1. PICK a \in 0 .. 100, b \in 0 .. 100 : a = d.delay_before_s /\ b = d.slow_loris_s
    OBVIOUS
  <2>2. n = 10000 + a + b /\ ts = 10000
    BY <1>1, <2>1 DEF ArrivalTime, Now
  <2>3. n \in Int /\ ts <= n /\ n - ts <= 300 /\ ~ n < ts
    BY ONLY <2>2, a \in 0 .. 100, b \in 0 .. 100
  <2>4. Distance(n, ts) = n - ts
    BY ONLY <2>3 DEF Distance
  <2> QED BY <2>3, <2>4 DEF DEFAULT_TOLERANCE_SECONDS
<1>3. verify(d.body, d.sig, webhook_secret, n)
  BY <1>2, VerifyIs
<1>4. d.body.form # "truncated"
  BY DEF serialize
<1>5. Verdict(d) = ""
  BY <1>1, <1>3, <1>4 DEF Verdict, Refusal
<1> QED BY <1>5 DEF Taken

(* _clean makes a correct, verifiable delivery. *)
LEMMA CleanIsTaken ==
  ASSUME NEW fx
  PROVE  Taken(_clean(fx, webhook_secret, Now), fx)
<1>1. PICK d : d = _clean(fx, webhook_secret, Now)
  OBVIOUS
<1>2. PICK sig : sig = sign(serialize(fx), webhook_secret, Now, {"v1"})
  OBVIOUS
<1>3. d = Delivery(fx, serialize(fx), sig)
  BY <1>1, <1>2 DEF _clean
<1>4. Fields(d, fx, serialize(fx), sig, 0, 0, FALSE, NULL)
  BY <1>3, DeliveryIs
<1>5. Now \in Int /\ 0 \in 0 .. 100
  BY DEF Now
<1> QED BY <1>1, <1>2, <1>4, <1>5, TakenIs

(* A slow client's delivery is taken all the same. *)
LEMMA SlowIsTaken ==
  ASSUME NEW fx, NEW d,
         d = [_clean(fx, webhook_secret, Now) EXCEPT !.slow_loris_s = 2]
  PROVE  Taken(d, fx)
<1>2. PICK sig : sig = sign(serialize(fx), webhook_secret, Now, {"v1"})
  OBVIOUS
<1>3. d = [Delivery(fx, serialize(fx), sig) EXCEPT !.slow_loris_s = 2]
  BY <1>2 DEF _clean
<1>4. Fields(d, fx, serialize(fx), sig, 0, 2, FALSE, NULL)
  BY <1>3 DEF Delivery, Fields
<1>5. Now \in Int /\ 0 \in 0 .. 100 /\ 2 \in 0 .. 100
  BY DEF Now
<1> QED BY <1>2, <1>4, <1>5, TakenIs

(* So is a delayed one ... *)
LEMMA LateIsTaken ==
  ASSUME NEW fx, NEW d,
         d = [_clean(fx, webhook_secret, Now) EXCEPT !.delay_before_s = 4,
                                                     !.expect_rejected = FALSE]
  PROVE  Taken(d, fx)
<1>2. PICK sig : sig = sign(serialize(fx), webhook_secret, Now, {"v1"})
  OBVIOUS
<1>3. d = [Delivery(fx, serialize(fx), sig) EXCEPT !.delay_before_s = 4,
                                                   !.expect_rejected = FALSE]
  BY <1>2 DEF _clean
<1>4. Fields(d, fx, serialize(fx), sig, 4, 0, FALSE, NULL)
  BY <1>3 DEF Delivery, Fields
<1>5. Now \in Int /\ 0 \in 0 .. 100 /\ 4 \in 0 .. 100
  BY DEF Now
<1> QED BY <1>2, <1>4, <1>5, TakenIs

(* ... unless its signature is too old. *)
LEMMA TooLateIsRefused ==
  ASSUME NEW fx, NEW d, NEW ts, ts = Now - 360,
         d = [_clean(fx, webhook_secret, ts) EXCEPT !.delay_before_s = 4,
                                                    !.expect_rejected = TRUE]
  PROVE  Refused(d, fx, "DELAY")
<1> USE DEF Fields
<1>2. PICK sig : sig = sign(serialize(fx), webhook_secret, ts, {"v1"})
  OBVIOUS
<1>3. d = [Delivery(fx, serialize(fx), sig) EXCEPT !.delay_before_s = 4,
                                                   !.expect_rejected = TRUE]
  BY <1>2 DEF _clean
<1>4. Fields(d, fx, serialize(fx), sig, 4, 0, TRUE, NULL)
  BY ONLY <1>3 DEF Delivery, Fields
<1>5. ArrivalTime(d) = 10004 /\ ts = 9640
  BY <1>4 DEF ArrivalTime, Now
<1>6. ~ verify(d.body, d.sig, webhook_secret, ArrivalTime(d))
  <2>1. ~ Distance(ArrivalTime(d), ts) <= DEFAULT_TOLERANCE_SECONDS
    BY <1>5 DEF Distance, DEFAULT_TOLERANCE_SECONDS
  <2> QED BY <1>2, <1>4, <2>1, VerifyIs
<1>7. Verdict(d) = INVALID_SIGNATURE
  BY <1>6 DEF Verdict, Refusal, INVALID_SIGNATURE
<1>8. d.sig.v1 # {} /\ d.sig.t[1] = ts
  BY <1>2, <1>4, SignIs
<1>9. d.body.form = "intact"
  BY <1>4 DEF serialize
<1>10. Reading(d) = {"DELAY", "STALE_TIMESTAMP"}
  BY <1>4, <1>5, <1>8, <1>9 DEF Reading, Now, DEFAULT_TOLERANCE_SECONDS
<1> QED BY <1>4, <1>7, <1>10 DEF Refused

(* The one delivery of a plan that must be refused. *)
Bad(fx, body, sig) ==
  [Delivery(fx, body, sig) EXCEPT !.expect_rejected = TRUE,
                                  !.expect_rejection_reason = INVALID_SIGNATURE]

(* Field by field. *)
LEMMA BadIs ==
  ASSUME NEW fx, NEW body, NEW sig, NEW d, d = Bad(fx, body, sig)
  PROVE  /\ Fields(d, fx, body, sig, 0, 0, TRUE, INVALID_SIGNATURE)
         /\ ArrivalTime(d) = Now
<1>1. Fields(d, fx, body, sig, 0, 0, TRUE, INVALID_SIGNATURE)
  BY DEF Bad, Delivery, Fields
<1> QED BY <1>1 DEF ArrivalTime, Now, Fields

(* Changed bytes. *)
LEMMA TamperedIsRefused ==
  ASSUME NEW fx, NEW form \in {"tampered", "truncated"}, NEW body,
         body = [serialize(fx) EXCEPT !.form = form],
         NEW sig, sig = sign(serialize(fx), webhook_secret, Now, {"v1"}),
         NEW d, d = Bad(fx, body, sig)
  PROVE  Refused(d, fx, IF form = "tampered" THEN "TAMPER_BODY" ELSE "TRUNCATE_BODY")
<1> USE DEF Fields
<1>1. Fields(d, fx, body, sig, 0, 0, TRUE, INVALID_SIGNATURE) /\ ArrivalTime(d) = Now
  BY BadIs
<1>2. body.form = form /\ body # serialize(fx)
  BY DEF serialize
<1>3. ~ verify(d.body, d.sig, webhook_secret, ArrivalTime(d))
  BY <1>1, <1>2, VerifyIs
<1>4. Verdict(d) = INVALID_SIGNATURE
  BY <1>3 DEF Verdict, Refusal, INVALID_SIGNATURE
<1>5. d.sig.v1 # {} /\ d.sig.t[1] = Now
  BY <1>1, SignIs
<1>6. CASE form = "tampered"
  <2>1. Now + d.delay_before_s - d.sig.t[1] <= DEFAULT_TOLERANCE_SECONDS
    BY <1>1, <1>5 DEF Now, DEFAULT_TOLERANCE_SECONDS
  <2>2. Reading(d) = {"TAMPER_BODY"}
    BY <1>1, <1>2, <1>5, <1>6, <2>1 DEF Reading
  <2> QED BY <1>1, <1>4, <1>6, <2>2 DEF Refused
<1>7. CASE form = "truncated"
  <2>1. Reading(d) = {"TRUNCATE_BODY"}
    BY <1>1, <1>2, <1>7 DEF Reading
  <2> QED BY <1>1, <1>4, <1>7, <2>1 DEF Refused
<1> QED BY <1>6, <1>7

(* An old signature. *)
LEMMA StaleIsRefused ==
  ASSUME NEW fx, NEW age \in Int, age > 300,
         NEW sig, sig = sign(serialize(fx), webhook_secret, Now - age, {"v1"}),
         NEW d, d = Bad(fx, serialize(fx), sig)
  PROVE  Refused(d, fx, "STALE_TIMESTAMP")
<1> USE DEF Fields
<1>1. Fields(d, fx, serialize(fx), sig, 0, 0, TRUE, INVALID_SIGNATURE) /\ ArrivalTime(d) = Now
  BY BadIs
<1>2. PICK ts \in Int : ts = Now - age
  BY DEF Now
<1>3. ~ Distance(Now, ts) <= DEFAULT_TOLERANCE_SECONDS
  BY <1>2 DEF Distance, DEFAULT_TOLERANCE_SECONDS, Now
<1>4. ~ verify(d.body, d.sig, webhook_secret, ArrivalTime(d))
  BY <1>1, <1>2, <1>3, VerifyIs
<1>5. Verdict(d) = INVALID_SIGNATURE
  BY <1>4 DEF Verdict, Refusal, INVALID_SIGNATURE
<1>6. d.sig.v1 # {} /\ d.sig.t[1] = ts
  BY <1>1, <1>2, SignIs
<1>7. d.body.form = "intact"
  BY <1>1 DEF serialize
<1>8. Reading(d) = {"DELAY", "STALE_TIMESTAMP"}
  BY <1>1, <1>2, <1>6, <1>7 DEF Reading, Now, DEFAULT_TOLERANCE_SECONDS
<1> QED BY <1>1, <1>5, <1>8 DEF Refused

(* No v1 digest. *)
LEMMA DowngradedIsRefused ==
  ASSUME NEW fx, NEW sig, sig = sign(serialize(fx), webhook_secret, Now, {"v0"}),
         NEW d, d = Bad(fx, serialize(fx), sig)
  PROVE  Refused(d, fx, "DOWNGRADE_SCHEME")
<1> USE DEF Fields
<1>1. Fields(d, fx, serialize(fx), sig, 0, 0, TRUE, INVALID_SIGNATURE) /\ ArrivalTime(d) = Now
  BY BadIs
<1>2. sig.v1 = {}
  BY DEF sign
<1>3. ~ verify(d.body, d.sig, webhook_secret, ArrivalTime(d))
  BY <1>1, <1>2 DEF verify
<1>4. Verdict(d) = INVALID_SIGNATURE
  BY <1>3 DEF Verdict, Refusal, INVALID_SIGNATURE
<1>5. d.body.form = "intact"
  BY <1>1 DEF serialize
<1>6. Reading(d) = {"DOWNGRADE_SCHEME"}
  BY <1>1, <1>2, <1>5 DEF Reading
<1> QED BY <1>1, <1>4, <1>6 DEF Refused

(* A plan as the proofs below use it. *)
GoodPlan(P, s) ==
  LET D == P.deliveries
      x == P.expectation
      fxs == s.fixtures
  IN  /\ P.fault = s.fault
      /\ Len(D) \in Nat /\ DOMAIN D = 1 .. Len(D)
      /\ P.kills => Len(D) = 1
      /\ P.force_500 => /\ s.fault = "RESPOND_500"
                        /\ \A k \in DOMAIN D : Verdict(D[k]) = ""
      /\ \A k \in DOMAIN D :
           \/ \E j \in DOMAIN fxs : Taken(D[k], fxs[j])
           \/ x.posted = {} /\ Refused(D[k], fxs[1], s.fault)
           \/ /\ s.fault = "DUPLICATE_OBJECT" /\ ~ P.concurrent /\ ~ P.kills
              /\ k > 1 /\ Taken(D[k], Twin(fxs[1])) /\ Taken(D[1], fxs[1])
      /\ \A k \in DOMAIN D, j \in DOMAIN fxs :
           Taken(D[k], fxs[j]) /\ MovesMoney(fxs[j]) => fxs[j].event.id \in x.posted
      /\ \A e \in x.posted : \E k \in DOMAIN D, j \in DOMAIN fxs :
           e = fxs[j].event.id /\ MovesMoney(fxs[j]) /\ Taken(D[k], fxs[j])
      /\ x.rejected \subseteq Ids(fxs)
      /\ x.rejected # {} => \A k \in DOMAIN D : Refused(D[k], fxs[1], s.fault)
      /\ x.recon => D = <<>> /\ MovesMoney(fxs[1])
      /\ \/ x.balances_delta = _sum_delta(fxs, x.posted)
         \/ x.balances_delta = NoDelta /\ x.posted = {}

PlanIs(P, fault, D, x, concurrent, force, kills) ==
  /\ P.fault = fault
  /\ P.deliveries = D
  /\ P.expectation = x
  /\ P.concurrent <=> concurrent
  /\ P.force_500 <=> force
  /\ P.kills <=> kills

ExpectationIs(x, ids, rejected, delta, recon) ==
  /\ x.posted = ids
  /\ x.rejected = rejected
  /\ x.balances_delta = delta
  /\ x.recon <=> recon

(* An Expectation, field by field. *)
LEMMA ExpectIs ==
  ASSUME NEW ids, NEW rejected, NEW delta, NEW x, x = Expectation(ids, rejected, delta)
  PROVE  ExpectationIs(x, ids, rejected, delta, FALSE)
BY DEF Expectation, ExpectationIs

(* Plans whose deliveries are all taken. *)
LEMMA PostingShape ==
  ASSUME NEW s, NEW P, NEW D, NEW x,
         P.fault = s.fault, P.deliveries = D, P.expectation = x,
         ExpectationIs(x, _money(s.fixtures), {}, _sum_delta(s.fixtures, _money(s.fixtures)),
                       FALSE),
         Len(D) \in Nat, DOMAIN D = 1 .. Len(D),
         P.kills => Len(D) = 1, P.force_500 => s.fault = "RESPOND_500",
         \A k \in DOMAIN D : \E j \in DOMAIN s.fixtures : Taken(D[k], s.fixtures[j]),
         \A j \in DOMAIN s.fixtures : \E k \in DOMAIN D : Taken(D[k], s.fixtures[j])
  PROVE  GoodPlan(P, s)
<1> DEFINE fxs == s.fixtures
<1>2. \A k \in DOMAIN D : Verdict(D[k]) = ""
  BY DEF Taken
<1>3. /\ x.posted = _money(fxs) /\ x.rejected = {} /\ ~ x.recon
      /\ x.balances_delta = _sum_delta(fxs, x.posted)
  BY DEF ExpectationIs
<1>4. \A k \in DOMAIN D, j \in DOMAIN fxs :
        Taken(D[k], fxs[j]) /\ MovesMoney(fxs[j]) => fxs[j].event.id \in x.posted
  BY <1>3 DEF _money
<1>5. \A e \in x.posted : \E k \in DOMAIN D, j \in DOMAIN fxs :
        e = fxs[j].event.id /\ MovesMoney(fxs[j]) /\ Taken(D[k], fxs[j])
  BY <1>3 DEF _money
<1> QED BY <1>2, <1>3, <1>4, <1>5 DEF GoodPlan

(* Plans with one delivery that is refused. *)
LEMMA RefusedShape ==
  ASSUME NEW s, NEW P, NEW d, NEW x, NEW delta, 1 \in DOMAIN s.fixtures,
         PlanIs(P, s.fault, <<d>>, x, FALSE, FALSE, FALSE),
         ExpectationIs(x, {}, {s.fixtures[1].event.id}, delta, FALSE),
         delta \in {NoDelta, _sum_delta(s.fixtures, {})},
         Refused(d, s.fixtures[1], s.fault)
  PROVE  GoodPlan(P, s)
<1> DEFINE fxs == s.fixtures
<1>1. PICK D : D = <<d>>
  OBVIOUS
<1>2. Len(D) = 1 /\ DOMAIN D = 1 .. 1 /\ D[1] = d
  BY <1>1
<1>3. /\ P.fault = s.fault /\ P.deliveries = D /\ P.expectation = x
      /\ ~ P.kills /\ ~ P.force_500
  BY <1>1 DEF PlanIs
<1>4. \A k \in DOMAIN D : Refused(D[k], fxs[1], s.fault)
  BY <1>2
<1>5. \A k \in DOMAIN D, j \in DOMAIN fxs : ~ Taken(D[k], fxs[j])
  BY <1>4 DEF Taken, Refused, INVALID_SIGNATURE
<1>6. /\ x.posted = {} /\ x.rejected \subseteq Ids(fxs) /\ ~ x.recon
      /\ x.balances_delta = delta
  BY DEF ExpectationIs, Ids
<1>7. Len(D) \in Nat /\ DOMAIN D = 1 .. Len(D)
  BY <1>2
<1>8. \/ x.balances_delta = _sum_delta(fxs, x.posted)
      \/ x.balances_delta = NoDelta /\ x.posted = {}
  BY <1>6
<1> QED BY <1>3, <1>4, <1>5, <1>6, <1>7, <1>8 DEF GoodPlan

(* An event and its twin. *)
LEMMA TwinShape ==
  ASSUME NEW s, NEW P, NEW d, NEW e, NEW x, s.fault = "DUPLICATE_OBJECT",
         DOMAIN s.fixtures = {1}, MovesMoney(s.fixtures[1]),
         PlanIs(P, s.fault, <<d, e>>, x, FALSE, FALSE, FALSE),
         ExpectationIs(x, _money(s.fixtures), {}, _sum_delta(s.fixtures, _money(s.fixtures)),
                       FALSE),
         Taken(d, s.fixtures[1]), Taken(e, Twin(s.fixtures[1]))
  PROVE  GoodPlan(P, s)
<1> DEFINE fxs == s.fixtures
<1>1. PICK D : D = <<d, e>>
  OBVIOUS
<1>2. Len(D) = 2 /\ DOMAIN D = 1 .. 2 /\ D[1] = d /\ D[2] = e
  BY <1>1
<1>3. /\ P.fault = s.fault /\ P.deliveries = D /\ P.expectation = x
      /\ ~ P.kills /\ ~ P.force_500 /\ ~ P.concurrent
  BY <1>1 DEF PlanIs
<1>4. \A k \in DOMAIN D : \/ k = 1 /\ Taken(D[k], fxs[1])
                          \/ k = 2 /\ Taken(D[k], Twin(fxs[1]))
  BY <1>2
<1>5. \A k \in DOMAIN D :
           \/ \E j \in DOMAIN fxs : Taken(D[k], fxs[j])
           \/ /\ s.fault = "DUPLICATE_OBJECT" /\ ~ P.concurrent /\ ~ P.kills
              /\ k > 1 /\ Taken(D[k], Twin(fxs[1])) /\ Taken(D[1], fxs[1])
  BY <1>2, <1>3, <1>4
<1>6. /\ x.posted = {fxs[1].event.id} /\ x.rejected = {} /\ ~ x.recon
      /\ x.balances_delta = _sum_delta(fxs, x.posted)
  BY DEF ExpectationIs, _money
<1>7. Len(D) \in Nat /\ DOMAIN D = 1 .. Len(D)
  BY <1>2
<1>8. \A y \in x.posted : \E k \in DOMAIN D, j \in DOMAIN fxs :
        y = fxs[j].event.id /\ MovesMoney(fxs[j]) /\ Taken(D[k], fxs[j])
  BY <1>2, <1>6
<1>9. \A k \in DOMAIN D, j \in DOMAIN fxs :
        Taken(D[k], fxs[j]) /\ MovesMoney(fxs[j]) => fxs[j].event.id \in x.posted
  BY <1>6
<1> QED BY <1>3, <1>5, <1>6, <1>7, <1>8, <1>9 DEF GoodPlan

(* Nothing is delivered. *)
LEMMA DropShape ==
  ASSUME NEW s, NEW P, NEW x, MovesMoney(s.fixtures[1]),
         PlanIs(P, s.fault, <<>>, x, FALSE, FALSE, FALSE),
         ExpectationIs(x, {}, {}, NoDelta, TRUE)
  PROVE  GoodPlan(P, s)
<1>1. PICK D : D = <<>>
  OBVIOUS
<1>2. Len(D) = 0 /\ DOMAIN D = {} /\ 1 .. 0 = {}
  BY <1>1
<1>3. /\ P.fault = s.fault /\ P.deliveries = D /\ P.expectation = x
      /\ ~ P.kills /\ ~ P.force_500
  BY <1>1 DEF PlanIs
<1>4. x.posted = {} /\ x.rejected = {} /\ x.balances_delta = NoDelta
  BY DEF ExpectationIs
<1>5. Len(D) \in Nat /\ DOMAIN D = 1 .. Len(D)
  BY <1>2
<1> QED BY <1>1, <1>2, <1>3, <1>4, <1>5 DEF GoodPlan

(* The fixtures of a scenario, one by one. *)
FixturesOf(s) ==
  \E kind \in Range(ALL_KINDS), c \in {1, 2} :
    /\ Len(s.fixtures) = c /\ DOMAIN s.fixtures = 1 .. c
    /\ s.fault # "REORDER" => c = 1
    /\ kind = "invoice_payment_failed" => s.fault \notin _NEEDS_MONEY
    /\ \A k \in 1 .. c : \E q \in DOMAIN Draw : s.fixtures[k] = _fixture(kind, q)

(* A sequence given member by member has that many. *)
LEMMA LenOfMap ==
  ASSUME NEW n \in Nat, NEW D, D = [k \in 1 .. n |-> D[k]]
  PROVE  Len(D) = n /\ DOMAIN D = 1 .. n
<1>1. D \in Seq({D[k] : k \in 1 .. n})
  OBVIOUS
<1> QED BY <1>1

(* What generate makes has fixtures of that shape, and a known fault. *)
LEMMA ScenarioFixtures ==
  ASSUME NEW s, IsScenario(s)
  PROVE  FixturesOf(s) /\ s.fault \in FaultSet /\ s.index \in Nat
<1>1. s.fault \in FaultSet /\ s.index \in Nat
  BY Names DEF IsScenario
<1>2. PICK kind \in Range(ALL_KINDS), seqs \in [1 .. _FIXTURE_COUNT(s.fault) -> DOMAIN Draw] :
        /\ ~ skip_reason(s.fault, kind)
        /\ s.fixtures = [k \in 1 .. _FIXTURE_COUNT(s.fault) |-> _fixture(kind, seqs[k])]
  BY DEF IsScenario
<1>3. PICK c : c = _FIXTURE_COUNT(s.fault)
  OBVIOUS
<1>4. c \in {1, 2} /\ c \in Nat /\ (s.fault # "REORDER" => c = 1)
  BY <1>3 DEF _FIXTURE_COUNT
<1>5. s.fixtures = [k \in 1 .. c |-> s.fixtures[k]]
  BY <1>2, <1>3
<1>6. Len(s.fixtures) = c /\ DOMAIN s.fixtures = 1 .. c
  BY <1>4, <1>5, LenOfMap
<1>7. \A k \in 1 .. c : \E q \in DOMAIN Draw : s.fixtures[k] = _fixture(kind, q)
  BY <1>2, <1>3
<1>8. kind = "invoice_payment_failed" => s.fault \notin _NEEDS_MONEY
  BY <1>2 DEF skip_reason
<1> QED BY <1>1, <1>4, <1>6, <1>7, <1>8 DEF FixturesOf

(* Which fixtures move money. *)
LEMMA KindsMoveMoney ==
  ASSUME NEW kind \in Range(ALL_KINDS), NEW q \in DOMAIN Draw,
         kind # "invoice_payment_failed"
  PROVE  MovesMoney(_fixture(kind, q))
<1>1. PICK ev : ev = _fixture(kind, q).event
  OBVIOUS
<1>2. Posts(ev, _fixture(kind, q).expected_delta)
  BY <1>1, FixturePosts
<1> QED BY <1>2 DEF Posts, MovesMoney

(* One fixture, and what may be posted of it. *)
LEMMA OneFixture ==
  ASSUME NEW s, FixturesOf(s), s.fault # "REORDER"
  PROVE  /\ Len(s.fixtures) = 1 /\ DOMAIN s.fixtures = {1}
         /\ TargetPosted(s.fixtures) = _money(s.fixtures)
         /\ s.fault \in _NEEDS_MONEY => MovesMoney(s.fixtures[1])
<1>1. PICK kind \in Range(ALL_KINDS) :
        /\ Len(s.fixtures) = 1 /\ DOMAIN s.fixtures = 1 .. 1
        /\ kind = "invoice_payment_failed" => s.fault \notin _NEEDS_MONEY
        /\ \A k \in 1 .. 1 : \E q \in DOMAIN Draw : s.fixtures[k] = _fixture(kind, q)
  BY DEF FixturesOf
<1>2. DOMAIN s.fixtures = {1} /\ 1 \in 1 .. 1
  BY <1>1
<1>3. s.fault \in _NEEDS_MONEY => MovesMoney(s.fixtures[1])
  BY <1>1, <1>2, KindsMoveMoney
<1>4. PICK fx : fx = s.fixtures[1]
  OBVIOUS
<1>5. DOMAIN <<fx>> = {1} /\ <<fx>>[1] = fx
  OBVIOUS
<1>6. PICK f : f = <<fx>>
  OBVIOUS
<1>7. _money(f) = _money(s.fixtures)
  BY <1>2, <1>4, <1>5, <1>6 DEF _money
<1> QED BY <1>1, <1>2, <1>3, <1>4, <1>6, <1>7 DEF TargetPosted

(* PostingPlan, field by field: everything that moves money is to post. *)
LEMMA PostingPlanIs ==
  ASSUME NEW fault, NEW fixtures, NEW D, NEW M, NEW P, P = PostingPlan(fault, fixtures, D, M)
  PROVE  /\ PlanIs(P, fault, D, P.expectation, FALSE, FALSE, FALSE)
         /\ ExpectationIs(P.expectation, M, {}, _sum_delta(fixtures, M), FALSE)
<1>1. PICK x : x = Expectation(M, {}, _sum_delta(fixtures, M))
  OBVIOUS
<1>2. P = Plan(fault, D, x)
  BY <1>1 DEF PostingPlan
<1>3. P.expectation = x /\ PlanIs(P, fault, D, x, FALSE, FALSE, FALSE)
  BY ONLY <1>2 DEF Plan, PlanIs
<1>4. ExpectationIs(x, M, {}, _sum_delta(fixtures, M), FALSE)
  BY <1>1, ExpectIs
<1> QED BY <1>3, <1>4

(* NONE sends every fixture once. *)
LEMMA NoneIsGood ==
  ASSUME NEW s, FixturesOf(s), s.fault = "NONE"
  PROVE  GoodPlan(none(s.fixtures, webhook_secret, Now), s)
<1>1. PICK P : P = none(s.fixtures, webhook_secret, Now)
  OBVIOUS
<1>2. PICK D : D = [k \in DOMAIN s.fixtures |-> _clean(s.fixtures[k], webhook_secret, Now)]
  OBVIOUS
<1>3. P = PostingPlan(s.fault, s.fixtures, D, _money(s.fixtures))
  BY <1>1, <1>2 DEF none
<1>4. PICK x : x = P.expectation
  OBVIOUS
<1>5. /\ PlanIs(P, s.fault, D, x, FALSE, FALSE, FALSE)
      /\ ExpectationIs(x, _money(s.fixtures), {}, _sum_delta(s.fixtures, _money(s.fixtures)),
                       FALSE)
  BY <1>3, <1>4, PostingPlanIs
<1>6. DOMAIN s.fixtures = {1}
  BY OneFixture
<1>7. D = [k \in 1 .. 1 |-> D[k]] /\ 1 \in Nat
  BY <1>2, <1>6
<1>8. Len(D) = 1 /\ DOMAIN D = 1 .. 1
  BY <1>7, LenOfMap
<1>9. Len(D) \in Nat /\ DOMAIN D = 1 .. Len(D)
  BY <1>8
<1>10. /\ \A k \in DOMAIN D : \E j \in DOMAIN s.fixtures : Taken(D[k], s.fixtures[j])
       /\ \A j \in DOMAIN s.fixtures : \E k \in DOMAIN D : Taken(D[k], s.fixtures[j])
  BY <1>2, CleanIsTaken
<1>11. GoodPlan(P, s)
  BY <1>5, <1>9, <1>10, PostingShape DEF PlanIs
<1> QED BY <1>1, <1>11

(* REORDER sends every fixture once, last first. *)
LEMMA ReorderIsGood ==
  ASSUME NEW s, FixturesOf(s), s.fault = "REORDER"
  PROVE  GoodPlan(reorder(s.fixtures, webhook_secret, Now), s)
<1>1. PICK P : P = reorder(s.fixtures, webhook_secret, Now)
  OBVIOUS
<1>2. PICK c \in Nat : Len(s.fixtures) = c /\ DOMAIN s.fixtures = 1 .. c
  BY DEF FixturesOf
<1>3. PICK D : D = [k \in 1 .. c |-> _clean(s.fixtures[c - k + 1], webhook_secret, Now)]
  OBVIOUS
<1>4. P = PostingPlan(s.fault, s.fixtures, D, _money(s.fixtures))
  BY <1>1, <1>2, <1>3 DEF reorder
<1>5. PICK x : x = P.expectation
  OBVIOUS
<1>6. /\ PlanIs(P, s.fault, D, x, FALSE, FALSE, FALSE)
      /\ ExpectationIs(x, _money(s.fixtures), {}, _sum_delta(s.fixtures, _money(s.fixtures)),
                       FALSE)
  BY <1>4, <1>5, PostingPlanIs
<1>7. D = [k \in 1 .. c |-> D[k]]
  BY <1>3
<1>8. Len(D) = c /\ DOMAIN D = 1 .. c
  BY <1>7, LenOfMap
<1>9. \A k \in 1 .. c : c - k + 1 \in 1 .. c /\ c - (c - k + 1) + 1 = k
  BY ONLY c \in Nat
<1>10. \A k \in 1 .. c : Taken(D[k], s.fixtures[c - k + 1])
  BY <1>3, CleanIsTaken
<1>11. \A j \in 1 .. c : Taken(D[c - j + 1], s.fixtures[j])
  <2> SUFFICES ASSUME NEW j \in 1 .. c PROVE Taken(D[c - j + 1], s.fixtures[j])
    OBVIOUS
  <2>1. PICK k \in 1 .. c : k = c - j + 1 /\ c - k + 1 = j
    BY <1>9
  <2> QED BY <2>1, <1>10
<1>12. /\ \A k \in DOMAIN D : \E j \in DOMAIN s.fixtures : Taken(D[k], s.fixtures[j])
       /\ \A j \in DOMAIN s.fixtures : \E k \in DOMAIN D : Taken(D[k], s.fixtures[j])
  BY <1>2, <1>8, <1>9, <1>10, <1>11
<1>13. GoodPlan(P, s)
  BY <1>2, <1>6, <1>8, <1>12, PostingShape DEF PlanIs
<1> QED BY <1>1, <1>13

(* n copies of the one fixture. *)
LEMMA CopiesAreGood ==
  ASSUME NEW s, FixturesOf(s), s.fault # "REORDER", NEW n \in Nat \ {0}, NEW D,
         D = [k \in 1 .. n |-> _clean(s.fixtures[1], webhook_secret, Now)],
         NEW Q, Q = PostingPlan(s.fault, s.fixtures, D, TargetPosted(s.fixtures)),
         NEW P, P.fault = s.fault, P.deliveries = D, P.expectation = Q.expectation,
         P.kills => n = 1, P.force_500 => s.fault = "RESPOND_500"
  PROVE  GoodPlan(P, s)
<1>1. PICK x : x = Q.expectation
  OBVIOUS
<1>2. DOMAIN s.fixtures = {1} /\ TargetPosted(s.fixtures) = _money(s.fixtures)
  BY OneFixture
<1>3. ExpectationIs(x, _money(s.fixtures), {}, _sum_delta(s.fixtures, _money(s.fixtures)),
                    FALSE)
  BY <1>1, <1>2, PostingPlanIs
<1>4. D = [k \in 1 .. n |-> D[k]] /\ n \in Nat
  OBVIOUS
<1>5. Len(D) = n /\ DOMAIN D = 1 .. n
  BY <1>4, LenOfMap
<1>6. \A k \in 1 .. n : Taken(D[k], s.fixtures[1])
  BY CleanIsTaken
<1>7. 1 \in 1 .. n
  OBVIOUS
<1>8. /\ \A k \in DOMAIN D : \E j \in DOMAIN s.fixtures : Taken(D[k], s.fixtures[j])
      /\ \A j \in DOMAIN s.fixtures : \E k \in DOMAIN D : Taken(D[k], s.fixtures[j])
  BY <1>2, <1>5, <1>6, <1>7
<1>9. /\ P.expectation = x /\ Len(D) \in Nat /\ DOMAIN D = 1 .. Len(D)
      /\ P.kills => Len(D) = 1
  BY <1>1, <1>5
<1> QED BY <1>3, <1>8, <1>9, PostingShape

(* DUPLICATE and CONCURRENT_DUPLICATE send n copies. *)
LEMMA DuplicateIsGood ==
  ASSUME NEW s, FixturesOf(s), s.fault \in {"DUPLICATE", "CONCURRENT_DUPLICATE"}, NEW p,
         p.n \in Nat \ {0}
  PROVE  GoodPlan(duplicate(s.fault, s.fixtures, p, webhook_secret, Now), s)
<1>1. PICK D : D = [k \in 1 .. p.n |-> _clean(s.fixtures[1], webhook_secret, Now)]
  OBVIOUS
<1>2. PICK Q : Q = PostingPlan(s.fault, s.fixtures, D, TargetPosted(s.fixtures))
  OBVIOUS
<1>3. PICK P : P = [Q EXCEPT !.concurrent = (s.fault = "CONCURRENT_DUPLICATE")]
  OBVIOUS
<1>4. PlanIs(P, s.fault, D, Q.expectation, s.fault = "CONCURRENT_DUPLICATE", FALSE, FALSE)
  <2>1. PICK x : Q = Plan(s.fault, D, x)
    BY <1>2 DEF PostingPlan
  <2> QED BY ONLY <1>3, <2>1 DEF Plan, PlanIs
<1>5. GoodPlan(P, s)
  BY <1>1, <1>2, <1>4, CopiesAreGood DEF PlanIs
<1> QED BY <1>1, <1>2, <1>3, <1>5 DEF duplicate

(* RESPOND_500 sends the same bytes again after a 500 Stripe was told. *)
LEMMA Respond500IsGood ==
  ASSUME NEW s, FixturesOf(s), s.fault = "RESPOND_500"
  PROVE  GoodPlan(respond_500(s.fixtures, webhook_secret, Now), s)
<1>1. PICK D : D = [k \in 1 .. 2 |-> _clean(s.fixtures[1], webhook_secret, Now)]
  OBVIOUS
<1>2. PICK Q : Q = PostingPlan(s.fault, s.fixtures, D, TargetPosted(s.fixtures))
  OBVIOUS
<1>3. PICK P : P = [Q EXCEPT !.force_500 = TRUE]
  OBVIOUS
<1>4. PlanIs(P, s.fault, D, Q.expectation, FALSE, TRUE, FALSE)
  <2>1. PICK x : Q = Plan(s.fault, D, x)
    BY <1>2 DEF PostingPlan
  <2> QED BY ONLY <1>3, <2>1 DEF Plan, PlanIs
<1>5. 2 \in Nat \ {0}
  OBVIOUS
<1>6. GoodPlan(P, s)
  BY <1>1, <1>2, <1>4, <1>5, CopiesAreGood DEF PlanIs
<1> QED BY <1>1, <1>2, <1>3, <1>6 DEF respond_500

(* PARTIAL_WRITE sends them, kills the worker and sends them again. *)
LEMMA PartialWriteIsGood ==
  ASSUME NEW s, FixturesOf(s), s.fault = "PARTIAL_WRITE"
  PROVE  GoodPlan(partial_write(s.fixtures, webhook_secret, Now), s)
<1>1. PICK D : D = [k \in 1 .. 1 |-> _clean(s.fixtures[1], webhook_secret, Now)]
  OBVIOUS
<1>0. PICK d : d = _clean(s.fixtures[1], webhook_secret, Now)
  OBVIOUS
<1>00. D = <<d>>
  BY <1>0, <1>1
<1>2. PICK Q : Q = PostingPlan(s.fault, s.fixtures, D, TargetPosted(s.fixtures))
  OBVIOUS
<1>3. PICK P : P = [Q EXCEPT !.kills = TRUE]
  OBVIOUS
<1>4. PlanIs(P, s.fault, D, Q.expectation, FALSE, FALSE, TRUE)
  <2>1. PICK x : Q = Plan(s.fault, D, x)
    BY <1>2 DEF PostingPlan
  <2> QED BY ONLY <1>3, <2>1 DEF Plan, PlanIs
<1>5. 1 \in Nat \ {0}
  OBVIOUS
<1>6. GoodPlan(P, s)
  BY <1>1, <1>2, <1>4, <1>5, CopiesAreGood DEF PlanIs
<1> QED BY <1>0, <1>00, <1>2, <1>3, <1>6 DEF partial_write

(* One delivery that is taken. *)
LEMMA OneTakenIsGood ==
  ASSUME NEW s, FixturesOf(s), s.fault # "REORDER", NEW d, Taken(d, s.fixtures[1]),
         NEW P, NEW x, PlanIs(P, s.fault, <<d>>, x, FALSE, FALSE, FALSE),
         ExpectationIs(x, TargetPosted(s.fixtures), {},
                       _sum_delta(s.fixtures, TargetPosted(s.fixtures)), FALSE)
  PROVE  GoodPlan(P, s)
<1>1. DOMAIN s.fixtures = {1} /\ TargetPosted(s.fixtures) = _money(s.fixtures)
  BY OneFixture
<1>2. PICK D : D = <<d>>
  OBVIOUS
<1>3. Len(D) = 1 /\ DOMAIN D = 1 .. 1 /\ D[1] = d
  BY <1>2
<1>4. /\ \A k \in DOMAIN D : \E j \in DOMAIN s.fixtures : Taken(D[k], s.fixtures[j])
      /\ \A j \in DOMAIN s.fixtures : \E k \in DOMAIN D : Taken(D[k], s.fixtures[j])
  BY <1>1, <1>3
<1>5. Len(D) \in Nat /\ DOMAIN D = 1 .. Len(D)
  BY <1>3
<1>6. ExpectationIs(x, _money(s.fixtures), {}, _sum_delta(s.fixtures, _money(s.fixtures)),
                    FALSE)
  BY <1>1
<1>7. P.fault = s.fault /\ P.deliveries = D /\ P.expectation = x /\ ~ P.kills /\ ~ P.force_500
  BY <1>2 DEF PlanIs
<1> QED BY <1>4, <1>5, <1>6, <1>7, PostingShape

(* SLOW_LORIS sends them slowly. *)
LEMMA SlowLorisIsGood ==
  ASSUME NEW s, FixturesOf(s), s.fault = "SLOW_LORIS", NEW p, p.hold_s = 2
  PROVE  GoodPlan(slow_loris(s.fixtures, p, webhook_secret, Now), s)
<1>1. PICK d : d = [_clean(s.fixtures[1], webhook_secret, Now) EXCEPT !.slow_loris_s = 2]
  OBVIOUS
<1>2. Taken(d, s.fixtures[1])
  BY <1>1, SlowIsTaken
<1>3. PICK P : P = PostingPlan(s.fault, s.fixtures, <<d>>, TargetPosted(s.fixtures))
  OBVIOUS
<1>4. PICK x : x = P.expectation
  OBVIOUS
<1>5. /\ PlanIs(P, s.fault, <<d>>, x, FALSE, FALSE, FALSE)
      /\ ExpectationIs(x, TargetPosted(s.fixtures), {},
                       _sum_delta(s.fixtures, TargetPosted(s.fixtures)), FALSE)
  BY <1>3, <1>4, PostingPlanIs
<1>6. GoodPlan(P, s)
  BY <1>2, <1>5, OneTakenIsGood
<1> QED BY <1>1, <1>3, <1>6 DEF slow_loris

(* DUPLICATE_OBJECT sends the event, then its twin. *)
LEMMA DuplicateObjectIsGood ==
  ASSUME NEW s, FixturesOf(s), s.fault = "DUPLICATE_OBJECT"
  PROVE  GoodPlan(duplicate_object(s.fixtures, webhook_secret, Now), s)
<1>1. PICK d : d = _clean(s.fixtures[1], webhook_secret, Now)
  OBVIOUS
<1>2. PICK e : e = _clean(Twin(s.fixtures[1]), webhook_secret, Now)
  OBVIOUS
<1>3. PICK P : P = PostingPlan(s.fault, s.fixtures, <<d, e>>, TargetPosted(s.fixtures))
  OBVIOUS
<1>4. PICK x : x = P.expectation
  OBVIOUS
<1>5. /\ DOMAIN s.fixtures = {1} /\ TargetPosted(s.fixtures) = _money(s.fixtures)
      /\ MovesMoney(s.fixtures[1])
  BY OneFixture DEF _NEEDS_MONEY
<1>6. /\ PlanIs(P, s.fault, <<d, e>>, x, FALSE, FALSE, FALSE)
      /\ ExpectationIs(x, _money(s.fixtures), {}, _sum_delta(s.fixtures, _money(s.fixtures)),
                       FALSE)
  BY <1>3, <1>4, <1>5, PostingPlanIs
<1>7. Taken(d, s.fixtures[1]) /\ Taken(e, Twin(s.fixtures[1]))
  BY <1>1, <1>2, CleanIsTaken
<1>8. GoodPlan(P, s)
  BY <1>5, <1>6, <1>7, TwinShape
<1> QED BY <1>1, <1>2, <1>3, <1>8 DEF duplicate_object

(* DROP sends nothing, and the reconciler is to notice. *)
LEMMA DropIsGood ==
  ASSUME NEW s, FixturesOf(s), s.fault = "DROP"
  PROVE  GoodPlan(drop(s.fixtures), s)
<1>1. PICK x : x = [Expectation({}, {}, NoDelta) EXCEPT !.recon = TRUE]
  OBVIOUS
<1>2. PICK P : P = Plan(s.fault, <<>>, x)
  OBVIOUS
<1>3. ExpectationIs(x, {}, {}, NoDelta, TRUE)
  BY ONLY <1>1 DEF Expectation, ExpectationIs
<1>4. PlanIs(P, s.fault, <<>>, x, FALSE, FALSE, FALSE)
  BY ONLY <1>2 DEF Plan, PlanIs
<1>5. MovesMoney(s.fixtures[1])
  BY OneFixture DEF _NEEDS_MONEY
<1>6. GoodPlan(P, s)
  BY <1>3, <1>4, <1>5, DropShape
<1> QED BY <1>1, <1>2, <1>6 DEF drop

(* A plan with one delivery ingest must refuse. *)
LEMMA RejectedIsGood ==
  ASSUME NEW s, FixturesOf(s), s.fault # "REORDER", NEW body, NEW sig,
         Refused(Bad(s.fixtures[1], body, sig), s.fixtures[1], s.fault)
  PROVE  GoodPlan(_rejected_plan(s.fault, s.fixtures[1], body, sig), s)
<1>1. PICK d : d = Bad(s.fixtures[1], body, sig)
  OBVIOUS
<1>2. PICK x : x = Expectation({}, {s.fixtures[1].event.id}, NoDelta)
  OBVIOUS
<1>3. PICK P : P = Plan(s.fault, <<d>>, x)
  OBVIOUS
<1>4. ExpectationIs(x, {}, {s.fixtures[1].event.id}, NoDelta, FALSE)
  BY <1>2, ExpectIs
<1>5. PlanIs(P, s.fault, <<d>>, x, FALSE, FALSE, FALSE)
  BY ONLY <1>3 DEF Plan, PlanIs
<1>6. 1 \in DOMAIN s.fixtures
  BY OneFixture
<1>7. GoodPlan(P, s)
  BY <1>1, <1>4, <1>5, <1>6, RefusedShape
<1> QED BY <1>1, <1>2, <1>3, <1>7 DEF _rejected_plan, Bad

(* TAMPER_BODY changes a byte after signing. *)
LEMMA TamperIsGood ==
  ASSUME NEW s, FixturesOf(s), s.fault = "TAMPER_BODY"
  PROVE  GoodPlan(tamper_body(s.fixtures[1], webhook_secret, Now), s)
<1>1. PICK fx : fx = s.fixtures[1]
  OBVIOUS
<1>2. PICK body : body = _flip_one_byte(serialize(fx))
  OBVIOUS
<1>3. PICK sig : sig = sign(serialize(fx), webhook_secret, Now, {"v1"})
  OBVIOUS
<1>4. Refused(Bad(fx, body, sig), fx, s.fault)
  BY <1>2, <1>3, TamperedIsRefused DEF _flip_one_byte
<1> QED BY <1>1, <1>2, <1>3, <1>4, RejectedIsGood DEF tamper_body

(* TRUNCATE_BODY cuts the body after signing. *)
LEMMA TruncateIsGood ==
  ASSUME NEW s, FixturesOf(s), s.fault = "TRUNCATE_BODY"
  PROVE  GoodPlan(truncate_body(s.fixtures[1], webhook_secret, Now), s)
<1>1. PICK fx : fx = s.fixtures[1]
  OBVIOUS
<1>2. PICK body : body = Truncated(serialize(fx))
  OBVIOUS
<1>3. PICK sig : sig = sign(serialize(fx), webhook_secret, Now, {"v1"})
  OBVIOUS
<1>4. Refused(Bad(fx, body, sig), fx, s.fault)
  BY <1>2, <1>3, TamperedIsRefused DEF Truncated
<1> QED BY <1>1, <1>2, <1>3, <1>4, RejectedIsGood DEF truncate_body

(* STALE_TIMESTAMP signs with an old timestamp. *)
LEMMA StaleIsGood ==
  ASSUME NEW s, FixturesOf(s), s.fault = "STALE_TIMESTAMP", NEW p, p.age_s \in Int,
         p.age_s > 300
  PROVE  GoodPlan(stale_timestamp(s.fixtures[1], p, webhook_secret, Now), s)
<1>1. PICK fx : fx = s.fixtures[1]
  OBVIOUS
<1>2. PICK age \in Int : age = p.age_s /\ age > 300
  OBVIOUS
<1>3. PICK sig : sig = sign(serialize(fx), webhook_secret, Now - age, {"v1"})
  OBVIOUS
<1>4. Refused(Bad(fx, serialize(fx), sig), fx, s.fault)
  BY <1>2, <1>3, StaleIsRefused
<1> QED BY <1>1, <1>2, <1>3, <1>4, RejectedIsGood DEF stale_timestamp

(* DOWNGRADE_SCHEME leaves out the v1 digest. *)
LEMMA DowngradeIsGood ==
  ASSUME NEW s, FixturesOf(s), s.fault = "DOWNGRADE_SCHEME"
  PROVE  GoodPlan(downgrade_scheme(s.fixtures[1], webhook_secret, Now), s)
<1>1. PICK fx : fx = s.fixtures[1]
  OBVIOUS
<1>3. PICK sig : sig = sign(serialize(fx), webhook_secret, Now, {"v0"})
  OBVIOUS
<1>4. Refused(Bad(fx, serialize(fx), sig), fx, s.fault)
  BY <1>3, DowngradedIsRefused
<1> QED BY <1>1, <1>3, <1>4, RejectedIsGood DEF downgrade_scheme

(* DELAY waits, within the tolerance or past it. *)
LEMMA DelayIsGood ==
  ASSUME NEW s, FixturesOf(s), s.fault = "DELAY", NEW p, p.seconds = 4,
         p.past_tolerance \in BOOLEAN
  PROVE  GoodPlan(delay(s.fixtures, p, webhook_secret, Now), s)
<1>1. PICK fx : fx = s.fixtures[1]
  OBVIOUS
<1>2. PICK ts : ts = Now - (DEFAULT_TOLERANCE_SECONDS + _STALE_MARGIN_SECONDS)
  OBVIOUS
<1>3. ts = Now - 360
  BY <1>2 DEF DEFAULT_TOLERANCE_SECONDS, _STALE_MARGIN_SECONDS, Now
<1>4. PICK P : P = delay(s.fixtures, p, webhook_secret, Now)
  OBVIOUS
<1>5. CASE p.past_tolerance = TRUE
  <2>1. PICK d : d = [_clean(fx, webhook_secret, ts) EXCEPT !.delay_before_s = 4,
                                                            !.expect_rejected = TRUE]
    OBVIOUS
  <2>2. Refused(d, fx, "DELAY")
    BY <1>3, <2>1, TooLateIsRefused
  <2>3. PICK delta : delta = _sum_delta(s.fixtures, {})
    OBVIOUS
  <2>4. PICK x : x = Expectation({}, {fx.event.id}, delta)
    OBVIOUS
  <2>5. P = Plan("DELAY", <<d>>, x)
    BY <1>1, <1>2, <1>4, <1>5, <2>1, <2>3, <2>4 DEF delay
  <2>6. ExpectationIs(x, {}, {fx.event.id}, delta, FALSE)
    BY <2>4, ExpectIs
  <2>7. PlanIs(P, "DELAY", <<d>>, x, FALSE, FALSE, FALSE)
    BY ONLY <2>5 DEF Plan, PlanIs
  <2>8. 1 \in DOMAIN s.fixtures
    BY OneFixture
  <2> QED BY <1>1, <1>4, <2>2, <2>3, <2>6, <2>7, <2>8, RefusedShape
<1>6. CASE p.past_tolerance = FALSE
  <2>1. PICK d : d = [_clean(fx, webhook_secret, Now) EXCEPT !.delay_before_s = 4,
                                                             !.expect_rejected = FALSE]
    OBVIOUS
  <2>2. Taken(d, fx)
    BY <2>1, LateIsTaken
  <2>3. PICK delta : delta = _sum_delta(s.fixtures, TargetPosted(s.fixtures))
    OBVIOUS
  <2>4. PICK x : x = Expectation(TargetPosted(s.fixtures), {}, delta)
    OBVIOUS
  <2>5. P = Plan("DELAY", <<d>>, x)
    BY <1>1, <1>2, <1>4, <1>6, <2>1, <2>3, <2>4 DEF delay
  <2>6. ExpectationIs(x, TargetPosted(s.fixtures), {}, delta, FALSE)
    BY <2>4, ExpectIs
  <2>7. PlanIs(P, "DELAY", <<d>>, x, FALSE, FALSE, FALSE)
    BY ONLY <2>5 DEF Plan, PlanIs
  <2> QED BY <1>1, <1>4, <2>2, <2>3, <2>6, <2>7, OneTakenIsGood
<1> QED BY <1>5, <1>6

(* The parameters of a fault. *)
LEMMA ParamsAre ==
  ASSUME NEW fault, NEW index \in Nat, NEW p, p = _params(fault, index)
  PROVE  /\ fault \in {"DUPLICATE", "CONCURRENT_DUPLICATE"} => p.n \in Nat \ {0}
         /\ fault = "DELAY" => p.seconds = 4 /\ p.past_tolerance \in BOOLEAN
         /\ fault = "STALE_TIMESTAMP" => p.age_s \in Int /\ p.age_s > 300
         /\ fault = "SLOW_LORIS" => p.hold_s = 2
<1>0. \A n \in Nat \ {0} : Copies(n) \in Nat \ {0}
  BY CopiesAssumption DEF Copies
<1>1. ASSUME fault = "DUPLICATE" PROVE p.n \in Nat \ {0}
  <2>1. PICK m : m = 2 + (index % 3)
    OBVIOUS
  <2>2. m \in Nat \ {0}
    BY <2>1
  <2>3. p = [n |-> Copies(m)]
    BY <1>1, <2>1 DEF _params
  <2>4. p.n = Copies(m)
    BY ONLY <2>3
  <2> QED BY <1>0, <2>2, <2>4
<1>2. ASSUME fault = "CONCURRENT_DUPLICATE" PROVE p.n \in Nat \ {0}
  <2>1. PICK m : m = (IF index % 2 = 0 THEN 8 ELSE 4)
    OBVIOUS
  <2>2. m \in Nat \ {0}
    BY <2>1
  <2>3. p = [n |-> Copies(m)]
    BY <1>2, <2>1 DEF _params
  <2>4. p.n = Copies(m)
    BY ONLY <2>3
  <2> QED BY <1>0, <2>2, <2>4
<1>3. ASSUME fault = "DELAY" PROVE p.seconds = 4 /\ p.past_tolerance \in BOOLEAN
  <2>1. p = [seconds |-> 4, past_tolerance |-> index % 2 = 1]
    BY <1>3 DEF _params
  <2> QED BY ONLY <2>1
<1>4. ASSUME fault = "STALE_TIMESTAMP" PROVE p.age_s \in Int /\ p.age_s > 300
  <2>1. PICK m : m = 600 + 300 * (index % 2)
    OBVIOUS
  <2>2. m \in Int /\ m > 300
    BY <2>1
  <2>3. p = [age_s |-> m]
    BY <1>4, <2>1 DEF _params
  <2>4. p.age_s = m
    BY ONLY <2>3
  <2> QED BY <2>2, <2>4
<1>5. ASSUME fault = "SLOW_LORIS" PROVE p.hold_s = 2
  <2>1. p = [hold_s |-> 2]
    BY <1>5 DEF _params
  <2> QED BY ONLY <2>1
<1> QED BY <1>1, <1>2, <1>3, <1>4, <1>5

(* Every branch of plan(). *)
LEMMA PlanIsGood ==
  ASSUME NEW s, IsScenario(s)
  PROVE  GoodPlan(plan(s, webhook_secret, Now), s)
<1>1. FixturesOf(s) /\ s.fault \in FaultSet /\ s.index \in Nat
  BY ScenarioFixtures
<1>2. PICK p : p = _params(s.fault, s.index)
  OBVIOUS
<1>3. /\ s.fault \in {"DUPLICATE", "CONCURRENT_DUPLICATE"} => p.n \in Nat \ {0}
      /\ s.fault = "DELAY" => p.seconds = 4 /\ p.past_tolerance \in BOOLEAN
      /\ s.fault = "STALE_TIMESTAMP" => p.age_s \in Int /\ p.age_s > 300
      /\ s.fault = "SLOW_LORIS" => p.hold_s = 2
  BY <1>1, <1>2, ParamsAre
<1>4. PICK P : P = plan(s, webhook_secret, Now)
  OBVIOUS
<1> SUFFICES GoodPlan(P, s)
  BY <1>4
<1>5. CASE s.fault = "NONE"
  <2>1. P = none(s.fixtures, webhook_secret, Now)
    BY <1>4, <1>5 DEF plan
  <2> QED BY <1>1, <1>5, <2>1, NoneIsGood
<1>6. CASE s.fault \in {"DUPLICATE", "CONCURRENT_DUPLICATE"}
  <2>1. P = duplicate(s.fault, s.fixtures, p, webhook_secret, Now)
    BY <1>2, <1>4, <1>6 DEF plan
  <2> QED BY <1>1, <1>3, <1>6, <2>1, DuplicateIsGood
<1>7. CASE s.fault = "DUPLICATE_OBJECT"
  <2>1. P = duplicate_object(s.fixtures, webhook_secret, Now)
    BY <1>4, <1>7 DEF plan
  <2> QED BY <1>1, <1>7, <2>1, DuplicateObjectIsGood
<1>8. CASE s.fault = "REORDER"
  <2>1. P = reorder(s.fixtures, webhook_secret, Now)
    BY <1>4, <1>8 DEF plan
  <2> QED BY <1>1, <1>8, <2>1, ReorderIsGood
<1>9. CASE s.fault = "DELAY"
  <2>1. P = delay(s.fixtures, p, webhook_secret, Now)
    BY <1>2, <1>4, <1>9 DEF plan
  <2> QED BY <1>1, <1>3, <1>9, <2>1, DelayIsGood
<1>10. CASE s.fault = "DROP"
  <2>1. P = drop(s.fixtures)
    BY <1>4, <1>10 DEF plan
  <2> QED BY <1>1, <1>10, <2>1, DropIsGood
<1>11. CASE s.fault = "RESPOND_500"
  <2>1. P = respond_500(s.fixtures, webhook_secret, Now)
    BY <1>4, <1>11 DEF plan
  <2> QED BY <1>1, <1>11, <2>1, Respond500IsGood
<1>12. CASE s.fault = "TAMPER_BODY"
  <2>1. P = tamper_body(s.fixtures[1], webhook_secret, Now)
    BY <1>4, <1>12 DEF plan
  <2> QED BY <1>1, <1>12, <2>1, TamperIsGood
<1>13. CASE s.fault = "TRUNCATE_BODY"
  <2>1. P = truncate_body(s.fixtures[1], webhook_secret, Now)
    BY <1>4, <1>13 DEF plan
  <2> QED BY <1>1, <1>13, <2>1, TruncateIsGood
<1>14. CASE s.fault = "STALE_TIMESTAMP"
  <2>1. P = stale_timestamp(s.fixtures[1], p, webhook_secret, Now)
    BY <1>2, <1>4, <1>14 DEF plan
  <2> QED BY <1>1, <1>3, <1>14, <2>1, StaleIsGood
<1>15. CASE s.fault = "DOWNGRADE_SCHEME"
  <2>1. P = downgrade_scheme(s.fixtures[1], webhook_secret, Now)
    BY <1>4, <1>15 DEF plan
  <2> QED BY <1>1, <1>15, <2>1, DowngradeIsGood
<1>16. CASE s.fault = "PARTIAL_WRITE"
  <2>1. P = partial_write(s.fixtures, webhook_secret, Now)
    BY <1>4, <1>16 DEF plan
  <2> QED BY <1>1, <1>16, <2>1, PartialWriteIsGood
<1>17. CASE s.fault = "SLOW_LORIS"
  <2>1. P = slow_loris(s.fixtures, p, webhook_secret, Now)
    BY <1>2, <1>4, <1>17 DEF plan
  <2> QED BY <1>1, <1>3, <1>17, <2>1, SlowLorisIsGood
<1> QED
  BY <1>1, <1>5, <1>6, <1>7, <1>8, <1>9, <1>10, <1>11, <1>12, <1>13, <1>14, <1>15, <1>16,
     <1>17 DEF FaultSet

PlanAt(s, n) == plan(s[n], webhook_secret, Now)

(* Every event id a scenario may bring into the system, and the ones ingest
   takes. *)
CandidateIds(s, n) ==
  Ids(s[n].fixtures)
    \cup {PlanAt(s, n).deliveries[k].event_id : k \in DOMAIN PlanAt(s, n).deliveries}

AdmittedBy(s, n) ==
  {PlanAt(s, n).deliveries[k].event_id :
     k \in {j \in DOMAIN PlanAt(s, n).deliveries : Verdict(PlanAt(s, n).deliveries[j]) = ""}}

(* Every scenario of a schedule has such a plan. *)
LEMMA GoodPlanAt ==
  ASSUME NEW s \in Schedules, NEW n \in DOMAIN s
  PROVE  /\ GoodPlan(PlanAt(s, n), s[n]) /\ FixturesOf(s[n])
         /\ DOMAIN s = 1 .. Len(s) /\ Len(s) \in Nat
<1>1. IsScenario(s[n]) /\ DOMAIN s = 1 .. Len(s) /\ Len(s) \in Nat
  BY ScheduleAssumption DEF IsRun
<1> QED BY <1>1, PlanIsGood, ScenarioFixtures DEF PlanAt

(* The record a fixture is. *)
LEMMA FixtureShape ==
  ASSUME NEW q \in DOMAIN Draw, NEW kind \in Range(ALL_KINDS)
  PROVE  \E type, obj, es : _fixture(kind, q) = EventFixture(kind, _envelope(q, type, obj), es)
<1>1. kind \in KindSet
  BY Names
<1>2. CASE kind = "charge_succeeded"
  BY <1>2 DEF _fixture, make_charge_succeeded
<1>3. CASE kind = "charge_refunded"
  BY <1>3 DEF _fixture, make_charge_refunded
<1>4. CASE kind = "dispute_created"
  BY <1>4 DEF _fixture, make_dispute_created
<1>5. CASE kind = "payout_paid"
  BY <1>5 DEF _fixture, make_payout_paid
<1>6. CASE kind = "invoice_payment_failed"
  BY <1>6 DEF _fixture, make_invoice_payment_failed
<1> QED BY <1>1, <1>2, <1>3, <1>4, <1>5, <1>6 DEF KindSet

(* A fixture's event, in the log and in the ledger. *)
LEMMA FixtureEvent ==
  ASSUME NEW s \in Schedules, NEW n \in DOMAIN s, NEW j \in DOMAIN s[n].fixtures,
         NEW fx, fx = s[n].fixtures[j], NEW e, e = fx.event.id
  PROVE  /\ e \in Events /\ Payload[e] = fx.event
         /\ \E q : Minted(e, q) /\ e = <<"evt", q>>
         /\ MovesMoney(fx) => Posts(Payload[e], fx.expected_delta)
         /\ Postable(e) <=> MovesMoney(fx)
<1>1. e \in Events /\ Payload[e] = fx.event
  BY ScheduleAssumption
<1>2. PICK kind \in Range(ALL_KINDS), q \in DOMAIN Draw : fx = _fixture(kind, q)
  BY GoodPlanAt DEF FixturesOf
<1>3. PICK ev : ev = fx.event
  OBVIOUS
<1>4. /\ ev.object # NULL /\ ev.type # NULL /\ money_movement_object_id(ev) # NULL
      /\ \E p : money_movement_object_id(ev) = <<p, q>>
      /\ _fixture(kind, q).event.id = <<"evt", q>>
  BY <1>2, <1>3, FixtureObject
<1>5. e = <<"evt", q>> /\ e[2] = q
  BY <1>2, <1>4
<1>6. Minted(e, q)
  BY <1>1, <1>3, <1>4, <1>5 DEF Minted
<1>7. CASE kind # "invoice_payment_failed"
  <2>1. Posts(Payload[e], fx.expected_delta)
    BY <1>1, <1>2, <1>7, FixturePosts
  <2>2. MovesMoney(fx)
    BY <1>2, <1>7, KindsMoveMoney
  <2>3. Postable(e)
    BY <1>1, <2>1, EventPosts
  <2> QED BY <1>1, <1>5, <1>6, <2>1, <2>2, <2>3
<1>8. CASE kind = "invoice_payment_failed"
  <2>1. build_transaction(ev, NULL) = NoTransaction /\ fx.expected_delta = NoDelta
    BY <1>2, <1>3, <1>8, FixturePosts
  <2>2. ~ MovesMoney(fx)
    BY <2>1 DEF MovesMoney
  <2>3. ~ Postable(e)
    BY <1>1, <1>3, <2>1 DEF Postable, FirstBuild, FirstBuilds
  <2> QED BY <1>1, <1>5, <1>6, <2>2, <2>3
<1> QED BY <1>7, <1>8

(* Its twin. *)
LEMMA TwinEvent ==
  ASSUME NEW s \in Schedules, NEW n \in DOMAIN s, s[n].fault = "DUPLICATE_OBJECT",
         NEW fx, fx = s[n].fixtures[1], NEW e, e = fx.event.id,
         NEW f, f = Twin(fx).event.id
  PROVE  /\ f \in Events
         /\ \E q : Minted(f, q) /\ e = <<"evt", q>>
         /\ SameKey(f, e) /\ Conflict(TxnOf(e), TxnOf(f))
         /\ Posts(Payload[f], fx.expected_delta)
         /\ Postable(e) /\ 1 \in DOMAIN s[n].fixtures /\ MovesMoney(fx)
<1>1. /\ 1 \in DOMAIN s[n].fixtures /\ MovesMoney(fx)
  BY GoodPlanAt, OneFixture DEF _NEEDS_MONEY
<1>2. PICK kind \in Range(ALL_KINDS), q \in DOMAIN Draw : fx = _fixture(kind, q)
  BY <1>1, GoodPlanAt DEF FixturesOf
<1>3. /\ e \in Events /\ Payload[e] = fx.event
      /\ Posts(Payload[e], fx.expected_delta) /\ Postable(e)
      /\ \E r : Minted(e, r) /\ e = <<"evt", r>>
  BY <1>1, FixtureEvent
<1>4. f \in Events /\ Payload[f] = Twin(fx).event
  BY ScheduleAssumption
<1>5. fx.event.id = <<"evt", q>>
  BY <1>2, FixtureObject
<1>6. PICK type, obj, es : fx = EventFixture(kind, _envelope(q, type, obj), es)
  BY <1>2, FixtureShape
<1>7. PICK ev, t : ev = _envelope(q, type, obj) /\ t = Twin(fx).event
  OBVIOUS
<1>8. /\ Twin(fx).event.type = fx.event.type /\ Twin(fx).event.object = fx.event.object
      /\ Twin(fx).event.id = Append(<<"evt", q>>, "dup")
  <2>1. PICK dl : fx = [kind |-> kind, event |-> ev, expected_delta |-> dl]
    BY <1>6, <1>7 DEF EventFixture
  <2>2. fx.event = ev
    BY ONLY <2>1
  <2>3. PICK i : i = Append(ev.id, "dup")
    OBVIOUS
  <2>4. t = [ev EXCEPT !.id = i]
    BY ONLY <1>7, <2>1, <2>2, <2>3 DEF Twin
  <2>5. PICK h : h = <<"evt", q>>
    OBVIOUS
  <2>6. ev = [id |-> h, type |-> type, object |-> obj]
    BY <1>7, <2>5 DEF _envelope
  <2>7. t.id = i /\ t.type = ev.type /\ t.object = ev.object /\ ev.id = h
    BY ONLY <2>4, <2>6
  <2> QED BY <1>7, <2>2, <2>3, <2>5, <2>7
<1>9. f[2] = q
  BY <1>8
<1>10. /\ Payload[f].object # NULL /\ Payload[f].type # NULL
       /\ money_movement_object_id(Payload[f]) # NULL
       /\ \E p : money_movement_object_id(Payload[f]) = <<p, q>>
  BY <1>2, <1>4, <1>8, FixtureObject
<1>11. Minted(f, q)
  BY <1>4, <1>9, <1>10 DEF Minted
<1>12. Posts(Payload[f], fx.expected_delta)
  <2>1. kind # "invoice_payment_failed"
    BY GoodPlanAt, <1>1, <1>2, FixturePosts DEF MovesMoney
  <2> QED BY <1>2, <1>4, <1>8, <2>1, FixturePosts
<1>13. Minted(e, q)
  <2>1. PICK r : Minted(e, r) /\ e = <<"evt", r>>
    BY <1>3
  <2>2. r = q
    BY ONLY <1>5, <2>1, e = fx.event.id
  <2> QED BY <2>1, <2>2
<1>14. SameKey(f, e) /\ Conflict(TxnOf(e), TxnOf(f))
  BY <1>3, <1>4, <1>8, <1>11, <1>12, <1>13, TwinsCollide
<1> QED BY <1>1, <1>3, <1>4, <1>5, <1>11, <1>12, <1>14

(* Every id a scenario may bring in is minted from the seq of one of its
   fixtures. *)
LEMMA CandidateIsMinted ==
  ASSUME NEW s \in Schedules, NEW n \in DOMAIN s, NEW e \in CandidateIds(s, n)
  PROVE  \E j \in DOMAIN s[n].fixtures : \E q :
           Minted(e, q) /\ s[n].fixtures[j].event.id = <<"evt", q>>
<1>1. GoodPlan(PlanAt(s, n), s[n])
  BY GoodPlanAt
<1>2. CASE e \in Ids(s[n].fixtures)
  <2>1. PICK j \in DOMAIN s[n].fixtures : e = s[n].fixtures[j].event.id
    BY <1>2 DEF Ids
  <2> QED BY <2>1, FixtureEvent
<1>3. CASE e \notin Ids(s[n].fixtures)
  <2> DEFINE D == PlanAt(s, n).deliveries
             fxs == s[n].fixtures
  <2>1. PICK k \in DOMAIN D : e = D[k].event_id
    BY <1>3 DEF CandidateIds
  <2>2. \/ \E j \in DOMAIN fxs : Taken(D[k], fxs[j])
        \/ Refused(D[k], fxs[1], s[n].fault)
        \/ s[n].fault = "DUPLICATE_OBJECT" /\ Taken(D[k], Twin(fxs[1]))
    BY <1>1 DEF GoodPlan
  <2>3. 1 \in DOMAIN fxs
    BY GoodPlanAt DEF FixturesOf
  <2>4. s[n].fault = "DUPLICATE_OBJECT" /\ e = Twin(fxs[1]).event.id
    BY <1>3, <2>1, <2>2, <2>3 DEF Ids, Taken, Refused
  <2> QED BY <2>3, <2>4, TwinEvent
<1> QED BY <1>2, <1>3

(* Two ids minted from one seq belong to one scenario, and are one if both are
   fixtures'. *)
LEMMA FreshSeqs ==
  ASSUME NEW s \in Schedules, NEW n \in DOMAIN s, NEW m \in DOMAIN s, NEW q,
         NEW j \in DOMAIN s[n].fixtures, s[n].fixtures[j].event.id = <<"evt", q>>,
         NEW k \in DOMAIN s[m].fixtures, s[m].fixtures[k].event.id = <<"evt", q>>
  PROVE  n = m /\ j = k
<1>1. IsRun(s)
  BY ScheduleAssumption
<1> QED BY <1>1 DEF IsRun

(* Events that block each other in the log are of one scenario. *)
LEMMA FreshKeys ==
  ASSUME NEW s \in Schedules, NEW n \in DOMAIN s, NEW m \in DOMAIN s,
         NEW e \in CandidateIds(s, n), NEW f \in CandidateIds(s, m), SameKey(e, f)
  PROVE  n = m /\ (e \in Ids(s[n].fixtures) /\ f \in Ids(s[n].fixtures) => e = f)
<1>j. PICK j \in DOMAIN s[n].fixtures : \E q :
           Minted(e, q) /\ s[n].fixtures[j].event.id = <<"evt", q>>
  BY CandidateIsMinted
<1>k. PICK k \in DOMAIN s[m].fixtures : \E r :
           Minted(f, r) /\ s[m].fixtures[k].event.id = <<"evt", r>>
  BY CandidateIsMinted
<1>1. PICK q : Minted(e, q) /\ s[n].fixtures[j].event.id = <<"evt", q>>
  BY <1>j
<1>2. PICK r : Minted(f, r) /\ s[m].fixtures[k].event.id = <<"evt", r>>
  BY <1>k
<1>3. q = r
  BY <1>1, <1>2, SameKeySameSeq
<1>4. n = m
  BY <1>1, <1>2, <1>3, FreshSeqs
<1>5. ASSUME e \in Ids(s[n].fixtures), f \in Ids(s[n].fixtures)
      PROVE  e = f
  <2>1. PICK a \in DOMAIN s[n].fixtures : e = s[n].fixtures[a].event.id
    BY <1>5 DEF Ids
  <2>2. PICK b \in DOMAIN s[n].fixtures : f = s[n].fixtures[b].event.id
    BY <1>5 DEF Ids
  <2>3. PICK x : Minted(e, x) /\ e = <<"evt", x>>
    BY <2>1, FixtureEvent
  <2>4. PICK y : Minted(f, y) /\ f = <<"evt", y>>
    BY <2>2, FixtureEvent
  <2>5. x = y
    BY <2>3, <2>4, SameKeySameSeq
  <2> QED BY <2>3, <2>4, <2>5
<1> QED BY <1>4, <1>5

(* What can be posted of them is posted as it was delivered. *)
LEMMA CandidatePosts ==
  ASSUME NEW s \in Schedules, NEW n \in DOMAIN s, NEW e \in CandidateIds(s, n), Postable(e)
  PROVE  \E delta : Posts(Payload[e], delta)
<1>1. GoodPlan(PlanAt(s, n), s[n])
  BY GoodPlanAt
<1>2. CASE e \in Ids(s[n].fixtures)
  <2>1. PICK j \in DOMAIN s[n].fixtures : e = s[n].fixtures[j].event.id
    BY <1>2 DEF Ids
  <2> QED BY <2>1, FixtureEvent
<1>3. CASE e \notin Ids(s[n].fixtures)
  <2> DEFINE D == PlanAt(s, n).deliveries
             fxs == s[n].fixtures
  <2>1. PICK k \in DOMAIN D : e = D[k].event_id
    BY <1>3 DEF CandidateIds
  <2>2. \/ \E j \in DOMAIN fxs : Taken(D[k], fxs[j])
        \/ Refused(D[k], fxs[1], s[n].fault)
        \/ s[n].fault = "DUPLICATE_OBJECT" /\ Taken(D[k], Twin(fxs[1]))
    BY <1>1 DEF GoodPlan
  <2>3. 1 \in DOMAIN fxs
    BY GoodPlanAt DEF FixturesOf
  <2>4. s[n].fault = "DUPLICATE_OBJECT" /\ e = Twin(fxs[1]).event.id
    BY <1>3, <2>1, <2>2, <2>3 DEF Ids, Taken, Refused
  <2> QED BY <2>3, <2>4, TwinEvent
<1> QED BY <1>2, <1>3

(* Events whose transactions conflict are of one scenario, too. *)
LEMMA FreshTxns ==
  ASSUME NEW s \in Schedules, NEW n \in DOMAIN s, NEW m \in DOMAIN s,
         NEW e \in CandidateIds(s, n), NEW f \in CandidateIds(s, m),
         Postable(e), Postable(f), Conflict(TxnOf(e), TxnOf(f))
  PROVE  n = m /\ (e \in Ids(s[n].fixtures) /\ f \in Ids(s[n].fixtures) => e = f)
<1>0. PICK c, d : Posts(Payload[e], c) /\ Posts(Payload[f], d)
  BY CandidatePosts
<1>j. PICK j \in DOMAIN s[n].fixtures : \E q :
           Minted(e, q) /\ s[n].fixtures[j].event.id = <<"evt", q>>
  BY CandidateIsMinted
<1>k. PICK k \in DOMAIN s[m].fixtures : \E r :
           Minted(f, r) /\ s[m].fixtures[k].event.id = <<"evt", r>>
  BY CandidateIsMinted
<1>1. PICK q : Minted(e, q) /\ s[n].fixtures[j].event.id = <<"evt", q>>
  BY <1>j
<1>2. PICK r : Minted(f, r) /\ s[m].fixtures[k].event.id = <<"evt", r>>
  BY <1>k
<1>3. q = r
  BY <1>0, <1>1, <1>2, SameTxnSameSeq
<1>4. n = m
  BY <1>1, <1>2, <1>3, FreshSeqs
<1>5. ASSUME e \in Ids(s[n].fixtures), f \in Ids(s[n].fixtures)
      PROVE  e = f
  <2>1. PICK a \in DOMAIN s[n].fixtures : e = s[n].fixtures[a].event.id
    BY <1>5 DEF Ids
  <2>2. PICK b \in DOMAIN s[n].fixtures : f = s[n].fixtures[b].event.id
    BY <1>5 DEF Ids
  <2>3. PICK x : Minted(e, x) /\ e = <<"evt", x>>
    BY <2>1, FixtureEvent
  <2>4. PICK y : Minted(f, y) /\ f = <<"evt", y>>
    BY <2>2, FixtureEvent
  <2>5. x = y
    BY <1>0, <2>3, <2>4, SameTxnSameSeq
  <2> QED BY <2>3, <2>4, <2>5
<1> QED BY <1>4, <1>5

(* What a taken event that posts collides with, or is. *)
LEMMA TakenIsExpected ==
  ASSUME NEW s \in Schedules, NEW n \in DOMAIN s, NEW e \in AdmittedBy(s, n), Postable(e)
  PROVE  /\ \E o \in PlanAt(s, n).expectation.posted : Conflict(TxnOf(o), TxnOf(e))
         /\ e \in Ids(s[n].fixtures) => e \in PlanAt(s, n).expectation.posted
<1> DEFINE D == PlanAt(s, n).deliveries
           fxs == s[n].fixtures
           x == PlanAt(s, n).expectation
<1>1. GoodPlan(PlanAt(s, n), s[n])
  BY GoodPlanAt
<1>2. PICK k \in DOMAIN D : e = D[k].event_id /\ Verdict(D[k]) = ""
  BY DEF AdmittedBy
<1>3. \/ \E j \in DOMAIN fxs : Taken(D[k], fxs[j])
      \/ /\ s[n].fault = "DUPLICATE_OBJECT" /\ 1 \in DOMAIN D
         /\ Taken(D[k], Twin(fxs[1])) /\ Taken(D[1], fxs[1])
  <2>1. \A i \in DOMAIN D :
           \/ \E j \in DOMAIN fxs : Taken(D[i], fxs[j])
           \/ Refused(D[i], fxs[1], s[n].fault)
           \/ /\ s[n].fault = "DUPLICATE_OBJECT" /\ i > 1
              /\ Taken(D[i], Twin(fxs[1])) /\ Taken(D[1], fxs[1])
    BY <1>1 DEF GoodPlan
  <2>2. ~ Refused(D[k], fxs[1], s[n].fault)
    BY <1>2 DEF Refused, INVALID_SIGNATURE
  <2>3. DOMAIN D = 1 .. Len(D) /\ Len(D) \in Nat
    BY <1>1 DEF GoodPlan
  <2>4. k > 1 => 1 \in DOMAIN D
    BY <2>3
  <2> QED BY <2>1, <2>2, <2>4
<1>4. \A i \in DOMAIN D, j \in DOMAIN fxs :
           Taken(D[i], fxs[j]) /\ MovesMoney(fxs[j]) => fxs[j].event.id \in x.posted
  BY <1>1 DEF GoodPlan
<1>5. ASSUME NEW j \in DOMAIN fxs, Taken(D[k], fxs[j])
      PROVE  e \in x.posted
  <2>1. e = fxs[j].event.id
    BY <1>2, <1>5 DEF Taken
  <2>2. MovesMoney(fxs[j])
    BY <2>1, FixtureEvent
  <2> QED BY <1>4, <1>5, <2>1, <2>2
<1>6. ASSUME s[n].fault = "DUPLICATE_OBJECT", 1 \in DOMAIN D, Taken(D[k], Twin(fxs[1])),
             Taken(D[1], fxs[1])
      PROVE  /\ fxs[1].event.id \in x.posted
             /\ Conflict(TxnOf(fxs[1].event.id), TxnOf(e))
             /\ DOMAIN fxs = {1}
  <2>1. e = Twin(fxs[1]).event.id
    BY <1>2, <1>6 DEF Taken
  <2>2. /\ MovesMoney(fxs[1]) /\ 1 \in DOMAIN fxs
        /\ Conflict(TxnOf(fxs[1].event.id), TxnOf(e))
    BY <1>6, <2>1, TwinEvent
  <2>3. DOMAIN fxs = {1}
    BY <1>6, GoodPlanAt, OneFixture
  <2> QED BY <1>4, <1>6, <2>2, <2>3
<1>7. CASE \E j \in DOMAIN fxs : Taken(D[k], fxs[j])
  BY <1>5, <1>7, ConflictReflexive
<1>8. CASE /\ s[n].fault = "DUPLICATE_OBJECT" /\ 1 \in DOMAIN D
           /\ Taken(D[k], Twin(fxs[1])) /\ Taken(D[1], fxs[1])
  BY <1>6, <1>8 DEF Ids
<1> QED BY <1>3, <1>7, <1>8

(* What is expected to post: fixtures that ingest takes and that move money. *)
LEMMA ExpectedArePosts ==
  ASSUME NEW s \in Schedules, NEW n \in DOMAIN s,
         NEW e \in PlanAt(s, n).expectation.posted
  PROVE  /\ e \in Ids(s[n].fixtures) /\ e \in AdmittedBy(s, n) /\ e \in Events /\ Postable(e)
         /\ \E k \in DOMAIN PlanAt(s, n).deliveries :
              /\ PlanAt(s, n).deliveries[k].event_id = e
              /\ Verdict(PlanAt(s, n).deliveries[k]) = ""
<1> DEFINE D == PlanAt(s, n).deliveries
           fxs == s[n].fixtures
<1>1. GoodPlan(PlanAt(s, n), s[n])
  BY GoodPlanAt
<1>2. PICK k \in DOMAIN D, j \in DOMAIN fxs :
        e = fxs[j].event.id /\ MovesMoney(fxs[j]) /\ Taken(D[k], fxs[j])
  BY <1>1 DEF GoodPlan
<1>3. e \in Ids(fxs)
  BY <1>2 DEF Ids
<1>4. e \in Events /\ Postable(e)
  BY <1>2, FixtureEvent
<1>5. D[k].event_id = e /\ Verdict(D[k]) = ""
  BY <1>2 DEF Taken
<1> QED BY <1>3, <1>4, <1>5 DEF AdmittedBy

-----------------------------------------------------------------------------
(* What a set of posted events does to the balances. *)

(* Finitely many events whose transactions move whole amounts. *)
Sound(ps) ==
  IsFiniteSet(ps) /\ \A e \in ps : \A a \in AccountNames : Effect[e][a] \in Int

(* The balances of two sets of events add up. *)
LEMMA DeltaUnion ==
  ASSUME NEW S, NEW T, Sound(S), Sound(T), S \cap T = {}, NEW a \in AccountNames,
         NEW V, V = S \cup T
  PROVE  /\ DeltaOf(V)[a] = DeltaOf(S)[a] + DeltaOf(T)[a]
         /\ DeltaOf(S)[a] \in Int /\ DeltaOf(T)[a] \in Int
<1> DEFINE f == [e \in S |-> Effect[e][a]]
           g == [e \in T |-> Effect[e][a]]
           h == [e \in S \cup T |-> Effect[e][a]]
<1>1. /\ Ints(f, S) /\ Ints(g, T) /\ Ints(h, S) /\ Ints(h, T)
      /\ \A e \in S : f[e] = h[e]
      /\ \A e \in T : g[e] = h[e]
  BY DEF Sound, Ints
<1>2. /\ DeltaOf(S)[a] = SumFunctionOnSet(f, S)
      /\ DeltaOf(T)[a] = SumFunctionOnSet(g, T)
      /\ DeltaOf(S \cup T)[a] = SumFunctionOnSet(h, S \cup T)
  BY DEF DeltaOf
<1>3. IsFiniteSet(S) /\ IsFiniteSet(T)
  BY DEF Sound
<1> HIDE DEF f, g, h
<1>4. SumFunctionOnSet(h, S) = SumFunctionOnSet(f, S)
  BY <1>1, <1>3, SumEqual
<1>5. SumFunctionOnSet(h, T) = SumFunctionOnSet(g, T)
  BY <1>1, <1>3, SumEqual
<1>6. SumFunctionOnSet(h, S \cup T) = SumFunctionOnSet(h, S) + SumFunctionOnSet(h, T)
  BY <1>1, <1>3, SumUnion
<1>7. SumFunctionOnSet(f, S) \in Int /\ SumFunctionOnSet(g, T) \in Int
  BY <1>1, <1>3, SumIsInt
<1> QED BY <1>2, <1>4, <1>5, <1>6, <1>7

(* An empty ledger. *)
LEMMA NothingPosted == ASSUME NEW a \in AccountNames PROVE DeltaOf({})[a] = 0
<1> DEFINE f == [e \in {} |-> Effect[e][a]]
<1>1. DeltaOf({})[a] = SumFunctionOnSet(f, {})
  BY DEF DeltaOf
<1> HIDE DEF f
<1> QED BY <1>1, SumEmpty

(* One event: its own effect. *)
LEMMA OnePosted ==
  ASSUME NEW e, Sound({e}), NEW a \in AccountNames
  PROVE  DeltaOf({e})[a] = Effect[e][a]
<1> DEFINE f == [x \in {e} |-> Effect[x][a]]
<1>1. DeltaOf({e})[a] = SumFunctionOnSet(f, {e}) /\ f[e] = Effect[e][a] /\ f[e] \in Int
  BY DEF DeltaOf, Sound
<1> HIDE DEF f
<1> QED BY <1>1, SumSingle

(* The accounts one side of the global invariant sums up. *)
OnSide(normal, c) ==
  {a \in AccountNames : /\ Chart[a].normal = normal
                        /\ Chart[a].currency = c}

SideOf(ps, normal, c) == SumFunctionOnSet(DeltaOf(ps), OnSide(normal, c))

(* The transaction of an event in the ledger has passed the checks of the
   database, so that it balances. *)
Balances(e) ==
  /\ TxnOf(e).entries \in Seq(EntryRow)
  /\ Acceptable(TxnOf(e))
  /\ \A a \in AccountNames : Effect[e][a] = account_balance(TxnOf(e).entries, a)

(* It adds as much on the debit side of a currency as on the credit side. *)
LEMMA TxnBalances ==
  ASSUME NEW e, Balances(e), NEW c
  PROVE  /\ NormalSum(TxnOf(e).entries, "debit", c) = NormalSum(TxnOf(e).entries, "credit", c)
         /\ NormalSum(TxnOf(e).entries, "debit", c) \in Int
         /\ \A a \in AccountNames : Effect[e][a] \in Int
<1>1. PICK es : es = TxnOf(e).entries
  OBVIOUS
<1>2. es \in Seq(EntryRow) /\ Rows(es) /\ Sides(es)
  BY <1>1, SeqRows DEF Balances
<1>3. Accepted(es) /\ assert_txn_balanced(es)
  BY <1>1 DEF Balances, Acceptable, AccountsKnown, EntryAccepted, Accepted,
     DeferredTriggersPass
<1>4. /\ NormalSum(es, "debit", c) - NormalSum(es, "credit", c) = Net(es, InCur(es, c))
      /\ NormalSum(es, "debit", c) \in Int /\ NormalSum(es, "credit", c) \in Int
  BY <1>2, <1>3, NormalSumsNet
<1>5. Net(es, InCur(es, c)) = 0
  BY <1>2, <1>3, BalancedIsZero
<1>6. ASSUME NEW a \in AccountNames PROVE Effect[e][a] \in Int
  <2>1. PICK g : g = [k \in OnAccount(es, a) |->
                        IF es[k].dir = Chart[a].normal THEN es[k].amount ELSE - es[k].amount]
    OBVIOUS
  <2>2. account_balance(es, a) \in Int
    <3>1. \A k \in OnAccount(es, a) :
            g[k] = IF es[k].dir = Chart[a].normal THEN es[k].amount ELSE - es[k].amount
      BY <2>1
    <3> QED BY <1>2, <3>1, BalanceIs
  <2> QED BY <1>1, <2>2 DEF Balances
<1>7. NormalSum(es, "debit", c) = NormalSum(es, "credit", c)
  BY <1>4, <1>5
<1> QED BY <1>1, <1>4, <1>6, <1>7

(* Adding one such event moves both sides alike. *)
LEMMA SideAdds ==
  ASSUME NEW ps, Sound(ps), NEW e, e \notin ps, Balances(e), NEW c,
         NEW d \in {"debit", "credit"}, NEW qs, qs = ps \cup {e}
  PROVE  /\ SideOf(qs, d, c) = SideOf(ps, d, c) + NormalSum(TxnOf(e).entries, d, c)
         /\ SideOf(ps, d, c) \in Int
<1> DEFINE es == TxnOf(e).entries
           f == DeltaOf(ps)
           g == [a \in AccountNames |-> account_balance(es, a)]
           h == DeltaOf(ps \cup {e})
           A == OnSide(d, c)
<1>1. \A a \in AccountNames : Effect[e][a] \in Int
  BY TxnBalances
<1>2. Sound({e})
  BY <1>1, FS_Singleton DEF Sound
<1>3. ASSUME NEW a \in AccountNames
      PROVE  f[a] \in Int /\ g[a] \in Int /\ h[a] = f[a] + g[a]
  <2>1. g[a] = Effect[e][a] /\ g[a] \in Int
    BY <1>1 DEF Balances
  <2>2. h[a] = f[a] + DeltaOf({e})[a] /\ f[a] \in Int
    <3>1. PICK T : T = {e}
      OBVIOUS
    <3>2. ps \cap T = {} /\ Sound(T)
      BY <1>2, <3>1
    <3>3. PICK V : V = ps \cup T
      OBVIOUS
    <3>4. DeltaOf(V)[a] = DeltaOf(ps)[a] + DeltaOf(T)[a] /\ DeltaOf(ps)[a] \in Int
      BY <3>2, <3>3, DeltaUnion
    <3> QED BY <3>1, <3>3, <3>4
  <2>3. DeltaOf({e})[a] = Effect[e][a]
    BY <1>2, OnePosted
  <2> QED BY <2>1, <2>2, <2>3
<1>4. IsFiniteSet(A) /\ A \subseteq AccountNames
  BY ChartAssumption, FS_Subset DEF OnSide
<1>5. NormalSum(es, d, c) = SumFunctionOnSet(g, A)
  <2>1. PICK rows : rows = es
    OBVIOUS
  <2>2. NormalSum(rows, d, c)
          = SumFunctionOnSet([a \in AccountNames |-> account_balance(rows, a)], A)
    BY DEF NormalSum, OnSide
  <2> QED BY <2>1, <2>2
<1> HIDE DEF g, h, f, A
<1>6. Ints(f, A) /\ Ints(g, A) /\ \A a \in A : h[a] = f[a] + g[a]
  BY <1>3, <1>4 DEF Ints
<1>7. SumFunctionOnSet(h, A) = SumFunctionOnSet(f, A) + SumFunctionOnSet(g, A)
  BY <1>4, <1>6, SumAdd
<1>8. SumFunctionOnSet(f, A) \in Int
  BY <1>4, <1>6, SumIsInt
<1> QED BY <1>5, <1>7, <1>8 DEF SideOf, f, h, A

(* The books balance whenever they are read: invariant.check says ok of any
   ledger of transactions the database let through. *)
LEMMA BooksBalance ==
  ASSUME NEW ps, IsFiniteSet(ps), \A e \in ps : Balances(e)
  PROVE  ReadLedger(ps).ok
<1>1. ASSUME NEW c PROVE SideOf(ps, "debit", c) = SideOf(ps, "credit", c)
  <2> DEFINE B == {T \in SUBSET ps : SideOf(T, "debit", c) # SideOf(T, "credit", c)}
  <2> SUFFICES ASSUME B # {} PROVE FALSE
    OBVIOUS
  <2>1. PICK T \in B : \A U \in B : U \subseteq T => U = T
    <3>1. B \subseteq SUBSET ps
      OBVIOUS
    <3> HIDE DEF B
    <3> QED BY <3>1, Smallest
  <2>2. T \in SUBSET ps /\ SideOf(T, "debit", c) # SideOf(T, "credit", c)
    OBVIOUS
  <2>3. T # {}
    <3>1. ASSUME NEW d PROVE SideOf({}, d, c) = 0
      <4>1. IsFiniteSet(OnSide(d, c)) /\ OnSide(d, c) \subseteq AccountNames
        BY ChartAssumption, FS_Subset DEF OnSide
      <4>2. \A a \in OnSide(d, c) : DeltaOf({})[a] = 0
        BY <4>1, NothingPosted
      <4> QED BY <4>1, <4>2, SumZero DEF SideOf
    <3> QED BY <2>2, <3>1
  <2>4. PICK e \in T : TRUE
    BY <2>3
  <2>5. PICK U : U = T \ {e}
    OBVIOUS
  <2>6. U \in SUBSET ps /\ U \notin B /\ e \notin U /\ T = U \cup {e} /\ Balances(e)
    BY <2>1, <2>2, <2>4, <2>5
  <2>7. SideOf(U, "debit", c) = SideOf(U, "credit", c)
    BY <2>6
  <2>8. Sound(U)
    <3>1. IsFiniteSet(U)
      BY <2>6, FS_Subset
    <3>2. \A x \in U : \A a \in AccountNames : Effect[x][a] \in Int
      BY <2>6, TxnBalances
    <3> QED BY <3>1, <3>2 DEF Sound
  <2> HIDE DEF B
  <2>9. \A d \in {"debit", "credit"} :
          SideOf(T, d, c) = SideOf(U, d, c) + NormalSum(TxnOf(e).entries, d, c)
    BY <2>6, <2>8, SideAdds
  <2>10. NormalSum(TxnOf(e).entries, "debit", c) = NormalSum(TxnOf(e).entries, "credit", c)
    BY <2>6, TxnBalances
  <2> QED BY <2>2, <2>7, <2>9, <2>10
<1>2. PICK bal : bal = DeltaOf(ps)
  OBVIOUS
<1>3. \A c : SumFunctionOnSet(bal, {a \in AccountNames : /\ Chart[a].normal = "debit"
                                                         /\ Chart[a].currency = c})
             = SumFunctionOnSet(bal, {a \in AccountNames : /\ Chart[a].normal = "credit"
                                                           /\ Chart[a].currency = c})
  BY <1>1, <1>2 DEF SideOf, OnSide
<1>4. PICK S : S = {Chart[a].currency : a \in AccountNames}
  OBVIOUS
<1>5. PICK ok : ok <=> \A c \in S :
             SumFunctionOnSet(bal, {a \in AccountNames : /\ Chart[a].normal = "debit"
                                                         /\ Chart[a].currency = c})
             = SumFunctionOnSet(bal, {a \in AccountNames : /\ Chart[a].normal = "credit"
                                                           /\ Chart[a].currency = c})
  OBVIOUS
<1>6. ReadLedger(ps).ok <=> ok
  BY <1>2, <1>4, <1>5 DEF ReadLedger
<1> QED BY <1>3, <1>5, <1>6

(* The plan's own parts, for the lemmas below. *)
DeliveriesOf(s, n) == PlanAt(s, n).deliveries

PostedBy(s, n) == PlanAt(s, n).expectation.posted

(* The fixtures are finitely many, and their events are served. *)
LEMMA FixtureIdsAre ==
  ASSUME NEW s \in Schedules, NEW n \in DOMAIN s
  PROVE  /\ IsFiniteSet(Ids(s[n].fixtures)) /\ Ids(s[n].fixtures) \subseteq Events
         /\ IsFiniteSet(PostedBy(s, n)) /\ PostedBy(s, n) \subseteq Ids(s[n].fixtures)
         /\ 1 \in DOMAIN s[n].fixtures /\ s[n].fixtures[1].event.id \in Ids(s[n].fixtures)
<1> DEFINE fxs == s[n].fixtures
<1>1. PICK c \in {1, 2} : DOMAIN fxs = 1 .. c
  BY GoodPlanAt DEF FixturesOf
<1>2. DOMAIN fxs = {1} \/ DOMAIN fxs = {1, 2}
  BY <1>1
<1>3. Ids(fxs) = {fxs[1].event.id} \/ Ids(fxs) = {fxs[1].event.id, fxs[2].event.id}
  BY <1>2 DEF Ids
<1>4. IsFiniteSet(Ids(fxs))
  <2>1. PICK a, b : a = fxs[1].event.id /\ b = fxs[2].event.id
    OBVIOUS
  <2>2. IsFiniteSet({a}) /\ IsFiniteSet({a} \cup {b})
    BY FS_Singleton, FS_AddElement
  <2>3. {a} \cup {b} = {a, b}
    OBVIOUS
  <2> QED BY <1>3, <2>1, <2>2, <2>3
<1>5. Ids(fxs) \subseteq Events
  BY FixtureEvent DEF Ids
<1>6. PostedBy(s, n) \subseteq Ids(fxs)
  BY ExpectedArePosts DEF PostedBy
<1>7. IsFiniteSet(PostedBy(s, n))
  BY <1>4, <1>6, FS_Subset
<1>8. 1 \in DOMAIN fxs /\ fxs[1].event.id \in Ids(fxs)
  BY <1>2 DEF Ids
<1> QED BY <1>4, <1>5, <1>6, <1>7, <1>8

(* The effect of an expected event is what its fixture says. *)
LEMMA ExpectedEffect ==
  ASSUME NEW s \in Schedules, NEW n \in DOMAIN s, NEW j \in DOMAIN s[n].fixtures,
         s[n].fixtures[j].event.id \in PostedBy(s, n)
  PROVE  /\ Effect[s[n].fixtures[j].event.id] = s[n].fixtures[j].expected_delta
         /\ \A a \in AccountNames : s[n].fixtures[j].expected_delta[a] \in Int
<1>1. PICK fx, e : fx = s[n].fixtures[j] /\ e = fx.event.id
  OBVIOUS
<1>2. e \in PostedBy(s, n)
  BY <1>1
<1>3. Postable(e) /\ e \in Events
  BY <1>2, ExpectedArePosts DEF PostedBy
<1>4. MovesMoney(fx) /\ Posts(Payload[e], fx.expected_delta)
  BY <1>1, <1>3, FixtureEvent
<1>5. Effect[e] = fx.expected_delta
  BY <1>3, <1>4, EventPosts
<1>6. fx.expected_delta \in [AccountNames -> Int]
  BY <1>4 DEF Posts
<1> QED BY <1>1, <1>5, <1>6

(* The expected change of the balances is the effect of the expected events. *)
LEMMA ExpectedDelta ==
  ASSUME NEW s \in Schedules, NEW n \in DOMAIN s
  PROVE  PlanAt(s, n).expectation.balances_delta = DeltaOf(PostedBy(s, n))
<1> DEFINE fxs == s[n].fixtures
           x == PlanAt(s, n).expectation
<1>1. PICK M : M = PostedBy(s, n)
  OBVIOUS
<1>2. \/ x.balances_delta = _sum_delta(fxs, M)
      \/ x.balances_delta = NoDelta /\ M = {}
  BY <1>1, GoodPlanAt DEF GoodPlan, PostedBy
<1>3. CASE x.balances_delta = NoDelta /\ M = {}
  <2>1. \A a \in AccountNames : DeltaOf(M)[a] = 0
    BY <1>3, NothingPosted
  <2>2. DeltaOf(M) = [a \in AccountNames |-> DeltaOf(M)[a]]
    BY DEF DeltaOf
  <2>3. NoDelta = [a \in AccountNames |-> 0]
    BY Accounts DEF NoDelta
  <2> QED BY <1>1, <1>3, <2>1, <2>2, <2>3
<1>4. CASE x.balances_delta = _sum_delta(fxs, M)
  <2> DEFINE K == {k \in DOMAIN fxs : fxs[k].event.id \in M}
             b == [k \in DOMAIN fxs |-> fxs[k].event.id]
  <2>1. ASSUME NEW a \in AccountNames
        PROVE  _sum_delta(fxs, M)[a] = DeltaOf(M)[a]
    <3> DEFINE f == [k \in DOMAIN fxs |-> fxs[k].expected_delta[a]]
               g == [e \in M |-> Effect[e][a]]
    <3>1. _sum_delta(fxs, M)[a] = SumFunctionOnSet(f, K)
      BY Accounts DEF _sum_delta
    <3>2. DeltaOf(M)[a] = SumFunctionOnSet(g, M)
      BY DEF DeltaOf
    <3>3. Ints(f, K) /\ \A k \in K : g[b[k]] = f[k]
      <4>1. ASSUME NEW k \in K
            PROVE  /\ Effect[fxs[k].event.id] = fxs[k].expected_delta
                   /\ fxs[k].expected_delta[a] \in Int
        BY <1>1, <4>1, ExpectedEffect
      <4> QED BY <4>1 DEF Ints
    <3>4. M = {b[k] : k \in K}
      <4>1. M \subseteq Ids(fxs)
        BY <1>1, FixtureIdsAre
      <4> QED BY <4>1 DEF Ids
    <3>5. \A k, l \in K : b[k] = b[l] => k = l
      <4>1. IsRun(s)
        BY ScheduleAssumption
      <4> QED BY <4>1 DEF IsRun
    <3>6. IsFiniteSet(K)
      <4>1. PICK c \in {1, 2} : DOMAIN fxs = 1 .. c
        BY GoodPlanAt DEF FixturesOf
      <4>2. c \in Int /\ 1 \in Int
        BY <4>1
      <4>3. IsFiniteSet(1 .. c)
        BY <4>2, FS_Interval
      <4>4. K \subseteq 1 .. c
        BY <4>1
      <4> QED BY <4>3, <4>4, FS_Subset
    <3> HIDE DEF f, g, K, b
    <3>7. SumFunctionOnSet(g, {b[k] : k \in K}) = SumFunctionOnSet(f, K)
      BY <3>3, <3>5, <3>6, SumRename
    <3> QED BY <3>1, <3>2, <3>4, <3>7
  <2>2. _sum_delta(fxs, M) = [a \in AccountNames |-> _sum_delta(fxs, M)[a]]
    BY Accounts DEF _sum_delta
  <2>3. DeltaOf(M) = [a \in AccountNames |-> DeltaOf(M)[a]]
    BY DEF DeltaOf
  <2> QED BY <1>1, <1>4, <2>1, <2>2, <2>3
<1> QED BY <1>2, <1>3, <1>4

(* Delivery k carries a twin: it is sent one after the other, behind a good
   delivery of its original o. *)
BehindOriginal(P, k, o) ==
  /\ k > 1 /\ 1 \in DOMAIN P.deliveries
  /\ P.deliveries[1].event_id = o
  /\ Verdict(P.deliveries[1]) = ""
  /\ ~ P.concurrent
  /\ ~ P.kills

(* Every planned delivery carries an event that is served: a fixture's, or the
   twin of the first one behind it. *)
LEMMA DeliveryCarries ==
  ASSUME NEW s \in Schedules, NEW n \in DOMAIN s, NEW k \in DOMAIN DeliveriesOf(s, n),
         NEW e, e = DeliveriesOf(s, n)[k].event_id,
         NEW o, o = s[n].fixtures[1].event.id
  PROVE  /\ e \in Events
         /\ \/ e \in Ids(s[n].fixtures)
            \/ SameKey(e, o) /\ BehindOriginal(PlanAt(s, n), k, o)
<1> DEFINE P == PlanAt(s, n)
           D == DeliveriesOf(s, n)
           fxs == s[n].fixtures
<1>1. /\ \/ \E j \in DOMAIN fxs : Taken(D[k], fxs[j])
         \/ Refused(D[k], fxs[1], s[n].fault)
         \/ /\ s[n].fault = "DUPLICATE_OBJECT" /\ ~ P.concurrent /\ ~ P.kills
            /\ k > 1 /\ Taken(D[k], Twin(fxs[1])) /\ Taken(D[1], fxs[1])
      /\ Len(D) \in Nat /\ DOMAIN D = 1 .. Len(D)
  <2>1. GoodPlan(P, s[n]) /\ D = P.deliveries
    BY GoodPlanAt DEF DeliveriesOf
  <2>2. \A i \in DOMAIN P.deliveries :
         \/ \E j \in DOMAIN fxs : Taken(P.deliveries[i], fxs[j])
         \/ Refused(P.deliveries[i], fxs[1], s[n].fault)
         \/ /\ s[n].fault = "DUPLICATE_OBJECT" /\ ~ P.concurrent /\ ~ P.kills
            /\ i > 1 /\ Taken(P.deliveries[i], Twin(fxs[1])) /\ Taken(P.deliveries[1], fxs[1])
    BY <2>1 DEF GoodPlan
  <2>3. Len(P.deliveries) \in Nat /\ DOMAIN P.deliveries = 1 .. Len(P.deliveries)
    BY <2>1 DEF GoodPlan
  <2> QED BY <2>1, <2>2, <2>3
<1>2. 1 \in DOMAIN fxs /\ Ids(fxs) \subseteq Events
  BY FixtureIdsAre
<1>3. CASE \/ \E j \in DOMAIN fxs : Taken(D[k], fxs[j])
           \/ Refused(D[k], fxs[1], s[n].fault)
  BY <1>2, <1>3 DEF Taken, Refused, Ids
<1>4. CASE /\ s[n].fault = "DUPLICATE_OBJECT" /\ ~ P.concurrent /\ ~ P.kills
           /\ k > 1 /\ Taken(D[k], Twin(fxs[1])) /\ Taken(D[1], fxs[1])
  <2>1. e = Twin(fxs[1]).event.id /\ D[1].event_id = o /\ Verdict(D[1]) = ""
    BY <1>4 DEF Taken
  <2>2. e \in Events /\ SameKey(e, o)
    BY <1>4, <2>1, TwinEvent
  <2>3. 1 \in DOMAIN D
    BY <1>1
  <2>4. BehindOriginal(P, k, o)
    BY <1>4, <2>1, <2>3 DEF BehindOriginal, DeliveriesOf
  <2> QED BY <2>2, <2>4
<1> QED BY <1>1, <1>3, <1>4

(* Without the order of the deliveries. *)
LEMMA DeliveryServed ==
  ASSUME NEW s \in Schedules, NEW n \in DOMAIN s, NEW k \in DOMAIN DeliveriesOf(s, n),
         NEW e, e = DeliveriesOf(s, n)[k].event_id,
         NEW o, o = s[n].fixtures[1].event.id
  PROVE  e \in Events /\ (e \in Ids(s[n].fixtures) \/ SameKey(e, o))
BY DeliveryCarries

(* A refusal fits the plan. *)
FitsPlan(P, d, fault) ==
  /\ Verdict(d) # "" => fault \in Reading(d) /\ ~ P.force_500
  /\ d.expect_rejected => Verdict(d) # ""
  /\ d.expect_rejection_reason # NULL => Verdict(d) = d.expect_rejection_reason
  /\ P.force_500 => fault = "RESPOND_500"

(* What is refused is meant to be, points to the fault, and is refused for the
   reason the plan gives, if it gives one. *)
LEMMA DeliveryRefused ==
  ASSUME NEW s \in Schedules, NEW n \in DOMAIN s, NEW k \in DOMAIN DeliveriesOf(s, n),
         NEW d, d = DeliveriesOf(s, n)[k]
  PROVE  FitsPlan(PlanAt(s, n), d, s[n].fault)
<1> DEFINE P == PlanAt(s, n)
           D == DeliveriesOf(s, n)
           fxs == s[n].fixtures
<1>1. /\ \/ \E j \in DOMAIN fxs : Taken(D[k], fxs[j])
         \/ Refused(D[k], fxs[1], s[n].fault)
         \/ Taken(D[k], Twin(fxs[1]))
      /\ P.force_500 => s[n].fault = "RESPOND_500" /\ Verdict(D[k]) = ""
  <2>1. GoodPlan(P, s[n]) /\ D = P.deliveries
    BY GoodPlanAt DEF DeliveriesOf
  <2>2. \A i \in DOMAIN P.deliveries :
         \/ \E j \in DOMAIN fxs : Taken(P.deliveries[i], fxs[j])
         \/ Refused(P.deliveries[i], fxs[1], s[n].fault)
         \/ Taken(P.deliveries[i], Twin(fxs[1]))
    BY <2>1 DEF GoodPlan
  <2>3. P.force_500 => /\ s[n].fault = "RESPOND_500"
                       /\ \A i \in DOMAIN P.deliveries : Verdict(P.deliveries[i]) = ""
    BY <2>1 DEF GoodPlan
  <2> QED BY <2>1, <2>2, <2>3
<1>2. (\E fx : Taken(d, fx)) \/ (\E fx : Refused(d, fx, s[n].fault))
  BY <1>1
<1> QED BY <1>1, <1>2 DEF Taken, Refused, INVALID_SIGNATURE, FitsPlan

(* A scenario whose event is to be refused admits nothing. *)
LEMMA RejectedAdmitsNothing ==
  ASSUME NEW s \in Schedules, NEW n \in DOMAIN s,
         PlanAt(s, n).expectation.rejected # {}
  PROVE  AdmittedBy(s, n) = {}
<1> DEFINE D == PlanAt(s, n).deliveries
<1>1. \A k \in DOMAIN D : Refused(D[k], s[n].fixtures[1], s[n].fault)
  BY GoodPlanAt DEF GoodPlan
<1>2. \A k \in DOMAIN D : Verdict(D[k]) # ""
  BY <1>1 DEF Refused, INVALID_SIGNATURE
<1> QED BY <1>2 DEF AdmittedBy

(* DROP delivers nothing of an event that moves money. *)
LEMMA DropDeliversNothing ==
  ASSUME NEW s \in Schedules, NEW n \in DOMAIN s, PlanAt(s, n).expectation.recon
  PROVE  /\ AdmittedBy(s, n) = {} /\ 1 \in DOMAIN s[n].fixtures
         /\ s[n].fixtures[1].expected_delta # [a \in AccountNames |-> 0]
<1>1. PlanAt(s, n).deliveries = <<>> /\ MovesMoney(s[n].fixtures[1])
  BY GoodPlanAt DEF GoodPlan
<1>2. DOMAIN <<>> = {}
  OBVIOUS
<1>3. AdmittedBy(s, n) = {}
  BY <1>1, <1>2 DEF AdmittedBy
<1>4. NoDelta = [a \in AccountNames |-> 0]
  BY Accounts DEF NoDelta
<1> QED BY <1>1, <1>3, <1>4, FixtureIdsAre DEF MovesMoney

(* What ingest takes of a scenario is one of the ids it may bring in. *)
LEMMA TakenAreCandidates ==
  ASSUME NEW s \in Schedules, NEW n \in DOMAIN s
  PROVE  AdmittedBy(s, n) \subseteq CandidateIds(s, n)
BY DEF AdmittedBy, CandidateIds

(* An event of a scenario that is in the ledger has whole amounts and, having
   passed the checks of the database, balances. *)
LEMMA CandidateBalances ==
  ASSUME NEW s \in Schedules, NEW n \in DOMAIN s, NEW e \in CandidateIds(s, n),
         Postable(e), e \in Events
  PROVE  /\ \A a \in AccountNames : Effect[e][a] \in Int
         /\ Acceptable(TxnOf(e)) => Balances(e)
         /\ TxnOf(e).event = e /\ "event" \in DOMAIN TxnOf(e)
<1>1. PICK delta : Posts(Payload[e], delta)
  BY CandidatePosts
<1>2. /\ TxnOf(e).event = e /\ "event" \in DOMAIN TxnOf(e)
      /\ TxnOf(e).entries \in Seq(EntryRow) /\ Effect[e] = delta
  BY <1>1, EventPosts
<1>3. delta \in [AccountNames -> Int]
  BY <1>1 DEF Posts
<1>4. \A a \in AccountNames : Effect[e][a] = account_balance(TxnOf(e).entries, a)
  BY DEF Effect, _LedgerTxn
<1> QED BY <1>2, <1>3, <1>4 DEF Balances

-----------------------------------------------------------------------------
(* The inductive invariant. *)

IsSequence(s) == s \in Seq({s[k] : k \in DOMAIN s})

Waiting == {"queue", "rows", "balances", "judge"}

(* run_all and run_scenario: which scenario is in hand and what is on file. *)
RunnerInv ==
  /\ sched \in Schedules
  /\ cur \in 0 .. Len(sched)
  /\ pc \in Waiting \cup {"next", "send", "restart", "redeliver", "redelivered"}
  /\ pc # "next" => cur > 0
  /\ cur > 0 => fp = PlanAt(sched, cur)
  /\ pc \in {"restart", "redeliver", "redelivered"} => fp.kills
  /\ IsSequence(records)
  /\ pc = "next" => Len(records) = cur
  /\ pc # "next" => Len(records) = cur - 1
  /\ giveups \in Nat

(* A DeliveryResult says what ingest makes of the planned bytes; a 200 is only
   given for an event whose key has a row. *)
IsAnswer(r, d) ==
  \/ r.status = NULL /\ giveups > 0
  \/ /\ r.status = 200
     /\ Verdict(d) = ""
     /\ BlockingRows(d.event_id) # {}
  \/ /\ r.status = 400
     /\ Verdict(d) # ""
     /\ r.body = Verdict(d)

ResultInv ==
  /\ IsSequence(results)
  /\ cur > 0 => Len(results) <= Len(fp.deliveries) \/ fp.kills
  /\ cur > 0 => \A k \in DOMAIN results : results[k] = NULL \/ IsAnswer(results[k], Planned(k))
  /\ cur = 0 => results = <<>>
  /\ pc \in Waiting \cup {"restart", "redeliver"} =>
       AllAnswered /\ Len(results) >= Len(fp.deliveries)
  /\ pc = "redelivered" => Len(results) >= Len(fp.deliveries)

(* Requests on the wire or in ingest's hands carry planned bytes, the ones of
   the scenario in hand those their result is filed under. *)
IsRequest(rq) ==
  /\ rq.scenario \in 1 .. cur
  /\ \E j \in DOMAIN DeliveriesOf(sched, rq.scenario) :
       rq.d = DeliveriesOf(sched, rq.scenario)[j]
  /\ rq.scenario = cur => rq.k \in DOMAIN results /\ rq.d = Planned(rq.k)

RequestInv ==
  /\ \A rq \in wire : IsRequest(rq)
  /\ \A i \in Ingests : ing[i].pc # "idle" =>
       /\ IsRequest(serving)
       /\ Outcome(serving) = ""
       /\ ing[i].ev = serving.d.event_id

(* The event is in the log, the ledger, the broker or a worker's hands. *)
InSystem(e) ==
  \/ row[e] # NoRow
  \/ e \in posted
  \/ \E m \in Msgs : msg[m].loc # "free" /\ msg[m].ev = e
  \/ \E w \in Workers : wrk[w].pc \notin {"idle", "ack"} /\ wrk[w].ev = e

(* Nothing gets there that ingest was not given by a scenario so far. *)
OriginInv ==
  \A e \in Events : InSystem(e) => \E n \in 1 .. cur : e \in AdmittedBy(sched, n)

(* Nothing raises but what the harness injects. *)
HealthyInv ==
  /\ IsFiniteSet(posted)
  /\ \A e \in posted : Acceptable(TxnOf(e))
  /\ \A w \in Workers :
       /\ wrk[w].pc # "except"
       /\ wrk[w].pc = "mark" /\ wrk[w].status = "no_money_moved" => ~ Postable(wrk[w].ev)
  /\ \A e \in Events :
       row[e] # "failed" /\ (row[e] = "no_money_moved" => ~ Postable(e))

(* While no request has been abandoned, only the fixtures themselves get past
   ingest: a twin is sent when its original has a row. *)
IsOriginal(e) == \E n \in 1 .. cur : e \in Ids(sched[n].fixtures)

Behind(rq) ==
  \/ rq.d.event_id \in Ids(sched[rq.scenario].fixtures)
  \/ row[sched[rq.scenario].fixtures[1].event.id] # NoRow

CalmInv ==
  giveups = 0 =>
    /\ \A e \in Events : InSystem(e) => IsOriginal(e)
    /\ \A rq \in wire : Behind(rq)

(* A run that went quiet has settled what it should post. *)
QuietInv ==
  giveups = 0 /\ quiescent /\ pc \in {"balances", "judge"} =>
    \A e \in PostedBy(sched, cur) : row[e] = "processed"

(* The two readings of the ledger: what was posted between them is the
   scenario's own, and the books balance whenever they are read. *)
OpenBooks(base) ==
  /\ base \subseteq posted
  /\ before.balances = DeltaOf(base)
  /\ Undisturbed(cur - 1) => /\ posted \ base \subseteq PostedBy(sched, cur)
                             /\ base \cap PostedBy(sched, cur) = {}

ClosedBooks ==
  /\ after.ok
  /\ quiescent /\ Undisturbed(cur - 1) =>
       _diff(before.balances, after.balances) = fp.expectation.balances_delta

BooksInv ==
  /\ pc # "next" => \E base : OpenBooks(base)
  /\ pc = "judge" => ClosedBooks

(* What is on file is about the scenario it was filed for. *)
FiledInv ==
  \A n \in DOMAIN records :
    /\ records[n].crashed => ~ records[n].quiescent
    /\ ~ records[n].crashed =>
         /\ records[n].expected = PlanAt(sched, n).expectation
         /\ records[n].candidates = CandidateIds(sched, n)

(* A scenario on file as green has exactly its expected events posted, unless
   it is on file because it crashed. *)
GreenPosted ==
  \A n \in DOMAIN records :
    records[n].breaks = {} /\ ~ records[n].crashed => posted \cap CandidateIds(sched, n) = PostedBy(sched, n)

HInv ==
  /\ IInv
  /\ RunnerInv
  /\ ResultInv
  /\ RequestInv
  /\ OriginInv
  /\ HealthyInv
  /\ CalmInv
  /\ QuietInv
  /\ BooksInv
  /\ FiledInv
  /\ EvidenceNamesFault
  /\ GreenPosted
  /\ GreenWhenCorrect

-----------------------------------------------------------------------------
(* The steps of the stack are steps of Pipeline, or a kill of the worker. *)

Crash ==
  /\ wrk' = [w \in Workers |-> IdleWrk]
  /\ UNCHANGED <<row, posted, msg, ing, acked, logged, faults>>

(* A killed worker leaves Pipeline's invariant alone. *)
LEMMA CrashKeepsIInv == ASSUME IInv, Crash PROVE IInv'
<1> USE DEF IInv, Crash
<1>1. \A w \in Workers : /\ wrk'[w].pc = "idle" /\ wrk'[w].m = NoMsg
                         /\ wrk'[w] = IdleWrk
  BY DEF IdleWrk
<1>2. \A m \in Msgs, t \in Events : Live(m, t) => Live(m, t)'
  <2>1. \A m \in Msgs : Holders(m)' = {}
    BY <1>1, BoundsAssumption DEF Holders
  <2> QED BY <2>1 DEF Live
<1>3. \A t \in Events : Covered(t) => Covered(t)'
  BY <1>2 DEF Covered
<1>4. TypeOK'
  BY <1>1, BoundsAssumption DEF TypeOK, IdleWrk
<1>5. Holding'
  BY <1>1 DEF Holding
<1>6. LedgerInv'
  BY <1>1 DEF LedgerInv, KeyIn
<1>7. IngestInv'
  <2>1. \A i \in Ingests : ing[i].pc # "idle" => ing[i].target \in Events
    BY DEF TypeOK
  <2>2. ASSUME NEW i \in Ingests, ing[i].pc = "mark" PROVE Covered(ing[i].target)'
    <3>1. PICK t \in Events : t = ing[i].target
      BY <2>1, <2>2
    <3>2. Covered(t)
      BY <2>2, <3>1 DEF IngestInv
    <3>3. Covered(t)'
      BY <1>3, <3>2
    <3> QED BY <3>1, <3>3
  <2> QED BY <2>2 DEF IngestInv
<1>8. NotStranded'
  BY <1>3 DEF NotStranded
<1>9. NoMoneyInv'
  BY <1>1 DEF NoMoneyInv
<1> QED BY <1>4, <1>5, <1>6, <1>7, <1>8, <1>9

(* The schedule's scenarios so far. *)
LEMMA SoFar ==
  ASSUME RunnerInv
  PROVE  /\ Len(sched) \in Nat /\ DOMAIN sched = 1 .. Len(sched) /\ cur \in Nat
         /\ \A n \in 1 .. cur : n \in DOMAIN sched
         /\ cur > 0 => cur \in DOMAIN sched /\ cur - 1 \in Nat
<1>1. IsRun(sched)
  BY ScheduleAssumption DEF RunnerInv
<1>2. Len(sched) \in Nat /\ DOMAIN sched = 1 .. Len(sched)
  BY <1>1 DEF IsRun
<1>3. cur \in 0 .. Len(sched)
  BY DEF RunnerInv
<1> QED BY <1>2, <1>3

(* A request carries an event that is served, of a scenario so far. *)
LEMMA RequestCarries ==
  ASSUME RunnerInv, NEW rq, IsRequest(rq)
  PROVE  /\ rq.scenario \in 1 .. cur /\ rq.scenario \in DOMAIN sched
         /\ rq.d.event_id \in Events
         /\ Outcome(rq) = "" => rq.d.event_id \in AdmittedBy(sched, rq.scenario)
         /\ \/ rq.d.event_id \in Ids(sched[rq.scenario].fixtures)
            \/ SameKey(rq.d.event_id, sched[rq.scenario].fixtures[1].event.id)
<1>1. PICK n : n = rq.scenario
  OBVIOUS
<1>2. n \in 1 .. cur /\ n \in DOMAIN sched /\ sched \in Schedules
  BY <1>1, SoFar DEF IsRequest, RunnerInv
<1>3. PICK j \in DOMAIN DeliveriesOf(sched, n) : rq.d = DeliveriesOf(sched, n)[j]
  BY <1>1 DEF IsRequest
<1>4. PICK e, o : e = rq.d.event_id /\ o = sched[n].fixtures[1].event.id
  OBVIOUS
<1>5. e \in Events /\ (e \in Ids(sched[n].fixtures) \/ SameKey(e, o))
  <2>1. PICK s \in Schedules : s = sched
    BY <1>2
  <2>2. n \in DOMAIN s /\ j \in DOMAIN DeliveriesOf(s, n)
    BY <1>2, <1>3, <2>1
  <2>3. e = DeliveriesOf(s, n)[j].event_id /\ o = s[n].fixtures[1].event.id
    BY <1>3, <1>4, <2>1
  <2>4. e \in Events /\ (e \in Ids(s[n].fixtures) \/ SameKey(e, o))
    BY <2>2, <2>3, DeliveryServed
  <2> QED BY <2>1, <2>4
<1>6. Outcome(rq) = "" => e \in AdmittedBy(sched, n)
  <2>1. PICK D : D = DeliveriesOf(sched, n)
    OBVIOUS
  <2>2. AdmittedBy(sched, n) = {D[k].event_id : k \in {i \in DOMAIN D : Verdict(D[i]) = ""}}
    BY <2>1 DEF AdmittedBy, DeliveriesOf
  <2>3. ASSUME Outcome(rq) = "" PROVE j \in DOMAIN D /\ Verdict(D[j]) = "" /\ e = D[j].event_id
    BY <1>3, <1>4, <2>1, <2>3 DEF Outcome
  <2> QED BY <2>2, <2>3
<1> QED BY <1>1, <1>2, <1>4, <1>5, <1>6

(* What a step of the harness is to the stack. *)
StackMove ==
  \/ UNCHANGED vars
  \/ Crash
  \/ \E i \in Ingests :
       \/ \E rq \in wire : RecordNew(i, rq.d.event_id) /\ Outcome(rq) = ""
       \/ \E rq \in wire : RecoverDuplicate(i, rq.d.event_id)
       \/ \E rq \in wire : AnswerDuplicate(i, rq.d.event_id)
       \/ Enqueue(i)
       \/ MarkQueued(i)
  \/ \E w \in Workers :
       \/ \E m \in Msgs : Fetch(w, m)
       \/ NothingToPost(w)
       \/ Build(w)
       \/ Post(w)
       \/ PostDuplicate(w)
       \/ MarkStatus(w)
       \/ Ack(w)
  \/ \E m \in Msgs : RestoreOrphan(m)

(* The books balance, so that Judge resets nothing, and every step of the
   harness is one of these. *)
LEMMA StackMoves ==
  ASSUME BooksInv, [HNext]_hvars
  PROVE  StackMove
<1>1. CASE UNCHANGED hvars
  BY <1>1 DEF hvars, vars, StackMove
<1>2. CASE RunnerStep
  <2>1. CASE Judge
    <3>1. after.ok
      BY <2>1 DEF Judge, BooksInv, ClosedBooks
    <3>2. UNCHANGED vars
      BY <2>1, <3>1 DEF Judge, ResetIfBroken, vars
    <3> QED BY <3>2 DEF StackMove
  <2>2. CASE RestartWorker
    BY <2>2 DEF RestartWorker, Crash, StackMove
  <2>3. CASE ~ Judge /\ ~ RestartWorker
    <3>1. UNCHANGED vars
      BY <1>2, <2>3 DEF RunnerStep, BeginScenario, SendNext, SendAll, ExecuteDone,
         Redeliver, Redelivered, PollQueue, PollEvents, ReadBalances
    <3> QED BY <3>1 DEF StackMove
  <2> QED BY <2>1, <2>2, <2>3
<1>3. CASE KillFires
  BY <1>3 DEF KillFires, Crash, StackMove
<1>4. ASSUME NEW i \in Ingests, IngestRuns(i) PROVE StackMove
  <2>1. ASSUME NEW rq \in wire, Refuse(i, rq) PROVE StackMove
    BY <2>1 DEF Refuse, StackMove
  <2>2. ASSUME NEW rq \in wire, Accept(i, rq) PROVE StackMove
    BY <2>2 DEF Accept, StackMove
  <2>3. ASSUME NEW rq \in wire, AnswerKnown(i, rq) PROVE StackMove
    BY <2>3 DEF AnswerKnown, StackMove
  <2>4. CASE EnqueueServed(i) \/ AnswerServed(i)
    BY <2>4 DEF EnqueueServed, AnswerServed, StackMove
  <2> QED BY <1>4, <2>1, <2>2, <2>3, <2>4 DEF IngestRuns
<1>5. ASSUME NEW w \in Workers, WorkerRuns(w) PROVE StackMove
  BY <1>5 DEF WorkerRuns, StackMove
<1>6. ASSUME NEW m \in Msgs, Restore(m) PROVE StackMove
  BY <1>6 DEF Restore, StackMove
<1>7. CASE Deadline \/ \E k \in DOMAIN results : GiveUp(k)
  BY <1>7 DEF Deadline, GiveUp, StackMove
<1>8. CASE ScenarioRaises
  BY <1>8 DEF ScenarioRaises, Crash, vars, StackMove
<1> QED BY <1>1, <1>2, <1>3, <1>4, <1>5, <1>6, <1>7, <1>8 DEF HNext, StackStep

(* Each is a step of Pipeline, or kills the worker. *)
LEMMA MoveIsStep ==
  ASSUME RunnerInv, RequestInv, StackMove
  PROVE  [Next]_vars \/ Crash
<1>1. \A rq \in wire : rq.d.event_id \in Events
  BY RequestCarries DEF RequestInv
<1>2. ASSUME NEW i \in Ingests, NEW rq \in wire,
             \/ RecordNew(i, rq.d.event_id)
             \/ RecoverDuplicate(i, rq.d.event_id)
             \/ AnswerDuplicate(i, rq.d.event_id)
      PROVE  Next
  BY <1>1, <1>2 DEF Next, IngestStep
<1>3. ASSUME NEW i \in Ingests, Enqueue(i) \/ MarkQueued(i)
      PROVE  Next
  BY <1>3 DEF Next, IngestStep
<1>4. ASSUME NEW w \in Workers,
             \/ NothingToPost(w) \/ Build(w) \/ Post(w) \/ PostDuplicate(w)
             \/ MarkStatus(w) \/ Ack(w)
      PROVE  Next
  BY <1>4 DEF Next, TaskStep
<1>5. ASSUME NEW m \in Msgs, RestoreOrphan(m) \/ \E w \in Workers : Fetch(w, m)
      PROVE  Next
  BY <1>5 DEF Next, BrokerStep
<1> QED BY <1>2, <1>3, <1>4, <1>5 DEF StackMove

(* So Pipeline's invariant holds after every step, and no row is deleted. *)
LEMMA IInvHolds ==
  ASSUME IInv, RunnerInv, RequestInv, StackMove
  PROVE  /\ IInv'
         /\ \A t \in Events : row[t] # NoRow => row'[t] # NoRow
<1>1. CASE [Next]_vars
  BY <1>1, IInvStep, RowsStay DEF IInv
<1>2. CASE Crash
  BY <1>2, CrashKeepsIInv DEF Crash
<1> QED BY <1>1, <1>2, MoveIsStep

-----------------------------------------------------------------------------
(* What is in the system, and how it got there. *)

(* Ingest records e as a new event. *)
Recorded(e) ==
  /\ BlockingRows(e) = {}
  /\ \E rq \in wire : Outcome(rq) = "" /\ e = rq.d.event_id

(* Only ingest lets an event in: the broker and the worker pass on what they
   were given. *)
LEMMA SystemGrows ==
  ASSUME IInv, StackMove, NEW e \in Events, InSystem(e)'
  PROVE  InSystem(e) \/ Recorded(e)
<1> USE DEF InSystem
<1>0. TypeOK /\ IngestInv
  BY DEF IInv
<1>1. CASE UNCHANGED vars
  BY <1>1 DEF vars
<1>2. CASE Crash
  BY <1>2 DEF Crash, IdleWrk
<1>3. ASSUME NEW i \in Ingests, NEW rq \in wire, RecordNew(i, rq.d.event_id), Outcome(rq) = ""
      PROVE  InSystem(e) \/ Recorded(e)
  <2>1. CASE e = rq.d.event_id
    BY <1>3, <2>1 DEF RecordNew, Recorded
  <2>2. CASE e # rq.d.event_id
    BY <1>0, <1>3, <2>2 DEF RecordNew, TypeOK
  <2> QED BY <2>1, <2>2
<1>4. ASSUME NEW i \in Ingests, NEW x, RecoverDuplicate(i, x) \/ AnswerDuplicate(i, x)
      PROVE  InSystem(e)
  BY <1>4 DEF RecoverDuplicate, AnswerDuplicate
<1>5. ASSUME NEW i \in Ingests, Enqueue(i) PROVE InSystem(e)
  <2>1. PICK t \in Events : t = ing[i].target /\ row[t] # NoRow
    BY <1>0, <1>5 DEF Enqueue, TypeOK, IngestInv
  <2>2. PICK m \in FreeMsgs : msg' = [msg EXCEPT ![m] = [loc |-> "ready", ev |-> t, retries |-> 0]]
    BY <1>5, <2>1 DEF Enqueue, Publish
  <2>3. UNCHANGED <<row, posted, wrk>>
    BY <1>5 DEF Enqueue
  <2>4. \A n \in Msgs : n # m => msg'[n] = msg[n]
    BY <1>0, <2>2 DEF TypeOK
  <2>5. msg'[m].ev = t
    BY <1>0, <2>2 DEF TypeOK, FreeMsgs
  <2> QED BY <2>1, <2>3, <2>4, <2>5
<1>6. ASSUME NEW i \in Ingests, MarkQueued(i) PROVE InSystem(e)
  BY <1>0, <1>6 DEF MarkQueued, mark_queued, IngestInv, TypeOK
<1>7. ASSUME NEW w \in Workers, NEW m \in Msgs, Fetch(w, m) PROVE InSystem(e)
  BY <1>0, <1>7 DEF Fetch, Moved, TypeOK
<1>8. ASSUME NEW w \in Workers, NEW at, NEW st, GoOn(w, at, st), wrk[w].pc \notin {"idle", "ack"},
             UNCHANGED <<row, posted, msg>>
      PROVE  InSystem(e)
  BY <1>0, <1>8 DEF GoOn, TypeOK
<1>9. ASSUME NEW w \in Workers, NothingToPost(w) \/ Build(w) \/ PostDuplicate(w)
      PROVE  InSystem(e)
  BY <1>8, <1>9 DEF NothingToPost, Build, PostDuplicate, GoTo, GoMark
<1>10. ASSUME NEW w \in Workers, Post(w) PROVE InSystem(e)
  <2>1. CASE e = wrk[w].ev
    BY <1>10, <2>1 DEF Post
  <2>2. CASE e # wrk[w].ev
    BY <1>0, <1>10, <2>2 DEF Post, GoMark, GoOn, TypeOK
  <2> QED BY <2>1, <2>2
<1>11. ASSUME NEW w \in Workers, MarkStatus(w) PROVE InSystem(e)
  <2>1. CASE e = wrk[w].ev
    BY <1>11, <2>1 DEF MarkStatus
  <2>2. CASE e # wrk[w].ev
    BY <1>0, <1>11, <2>2 DEF MarkStatus, _mark_status, TaskEnds, TypeOK
  <2> QED BY <2>1, <2>2
<1>12. ASSUME NEW w \in Workers, Ack(w) PROVE InSystem(e)
  BY <1>0, <1>12 DEF Ack, IdleWrk, FreeMsg, TypeOK
<1>13. ASSUME NEW m \in Msgs, RestoreOrphan(m) PROVE InSystem(e)
  BY <1>0, <1>13 DEF RestoreOrphan, Moved, TypeOK
<1> QED BY <1>1, <1>2, <1>3, <1>4, <1>5, <1>6, <1>7, <1>9, <1>10, <1>11, <1>12, <1>13
     DEF StackMove

(* Events in the log, the ledger and the worker's hands are. *)
LEMMA TaskInSystem ==
  ASSUME IInv, NEW w \in Workers, wrk[w].pc \in {"run", "post", "mark"}
  PROVE  wrk[w].ev \in Events /\ InSystem(wrk[w].ev)
BY DEF IInv, TypeOK, InSystem

(* The schedule stays, and the scenario in hand only moves on. *)
LEMMA RunGoesOn ==
  ASSUME [HNext]_hvars
  PROVE  /\ sched' = sched
         /\ cur' = cur \/ BeginScenario
         /\ giveups' = giveups \/ \E k \in DOMAIN results : GiveUp(k)
<1>1. CASE UNCHANGED hvars
  BY <1>1 DEF hvars, runnerVars
<1>2. CASE RunnerStep
  BY <1>2 DEF RunnerStep, BeginScenario, SendNext, SendAll, ExecuteDone, RestartWorker,
     Redeliver, Redelivered, PollQueue, PollEvents, ReadBalances, Judge, runnerVars
<1>3. CASE StackStep
  BY <1>3 DEF StackStep, KillFires, IngestRuns, WorkerRuns, Restore, Refuse, Accept,
     AnswerKnown, EnqueueServed, AnswerServed, stackVars, runnerVars
<1>4. CASE Deadline
  BY <1>4 DEF Deadline
<1>5. ASSUME NEW k \in DOMAIN results, GiveUp(k)
      PROVE  sched' = sched /\ cur' = cur
  BY <1>5 DEF GiveUp, runnerVars
<1>6. CASE ScenarioRaises
  BY <1>6 DEF ScenarioRaises
<1> QED BY <1>1, <1>2, <1>3, <1>4, <1>5, <1>6 DEF HNext

(* The counters only grow. *)
LEMMA RunNumbers ==
  ASSUME RunnerInv, [HNext]_hvars
  PROVE  /\ sched' = sched
         /\ cur \in Nat /\ cur' \in Nat /\ cur <= cur'
         /\ giveups \in Nat /\ giveups' \in Nat /\ giveups <= giveups'
<1>1. cur \in Nat /\ giveups \in Nat
  BY SoFar DEF RunnerInv
<1>2. BeginScenario => cur' = cur + 1
  BY DEF BeginScenario
<1>3. (\E k \in DOMAIN results : GiveUp(k)) => giveups' = giveups + 1
  BY DEF GiveUp
<1> QED BY <1>1, <1>2, <1>3, RunGoesOn

(* What is in the system was admitted by a scenario so far. *)
LEMMA OriginHolds ==
  ASSUME IInv, RunnerInv, RequestInv, OriginInv, StackMove, [HNext]_hvars
  PROVE  OriginInv'
<1>1. sched' = sched /\ cur \in Nat /\ cur' \in Nat /\ cur <= cur'
  BY RunNumbers
<1>2. \A n \in 1 .. cur : n \in 1 .. cur'
  BY <1>1
<1>3. ASSUME NEW e \in Events, InSystem(e)'
      PROVE  \E n \in 1 .. cur : e \in AdmittedBy(sched, n)
  <2>1. CASE InSystem(e)
    BY <2>1 DEF OriginInv
  <2>2. CASE Recorded(e)
    <3>1. PICK rq \in wire : Outcome(rq) = "" /\ e = rq.d.event_id
      BY <2>2 DEF Recorded
    <3> QED BY <3>1, RequestCarries DEF RequestInv
  <2> QED BY <1>3, <2>1, <2>2, SystemGrows
<1>4. ASSUME NEW e \in Events, InSystem(e)'
      PROVE  \E n \in 1 .. cur' : e \in AdmittedBy(sched', n)
  BY <1>1, <1>2, <1>3, <1>4
<1> QED BY <1>4 DEF OriginInv

(* Nothing raises. *)
LEMMA HealthyHolds ==
  ASSUME IInv, HealthyInv, StackMove
  PROVE  HealthyInv'
<1>0. TypeOK
  BY DEF IInv
<1> USE DEF HealthyInv
<1>1. CASE UNCHANGED vars
  BY <1>1 DEF vars
<1>2. CASE Crash
  BY <1>2 DEF Crash, IdleWrk
<1>3. ASSUME NEW i \in Ingests, NEW e, RecordNew(i, e) PROVE HealthyInv'
  BY <1>0, <1>3 DEF RecordNew, TypeOK
<1>4. ASSUME NEW i \in Ingests, NEW x, RecoverDuplicate(i, x) \/ AnswerDuplicate(i, x)
      PROVE  HealthyInv'
  BY <1>4 DEF RecoverDuplicate, AnswerDuplicate
<1>5. ASSUME NEW i \in Ingests, Enqueue(i) PROVE HealthyInv'
  BY <1>5 DEF Enqueue
<1>6. ASSUME NEW i \in Ingests, MarkQueued(i) PROVE HealthyInv'
  BY <1>0, <1>6 DEF MarkQueued, mark_queued, TypeOK
<1>7. ASSUME NEW w \in Workers, NEW m \in Msgs, Fetch(w, m) PROVE HealthyInv'
  BY <1>0, <1>7 DEF Fetch, TypeOK
<1>8. ASSUME NEW w \in Workers, NEW at, NEW st, GoOn(w, at, st), UNCHANGED row, at # "except",
             st = "no_money_moved" => ~ Postable(wrk[w].ev),
             IsFiniteSet(posted'), \A e \in posted' : Acceptable(TxnOf(e))
      PROVE  HealthyInv'
  BY <1>0, <1>8 DEF GoOn, TypeOK
<1>9. ASSUME NEW w \in Workers, NothingToPost(w)
      PROVE  HealthyInv'
  <2>1. ~ Postable(wrk[w].ev)
    BY <1>9 DEF NothingToPost, Postable
  <2> QED BY <1>8, <1>9, <2>1 DEF NothingToPost, GoMark
<1>10. ASSUME NEW w \in Workers, Build(w) \/ PostDuplicate(w)
      PROVE  HealthyInv'
  BY <1>8, <1>10 DEF Build, PostDuplicate, GoTo, GoMark, NoRow
<1>11. ASSUME NEW w \in Workers, Post(w) PROVE HealthyInv'
  <2>1. IsFiniteSet(posted')
    BY <1>11, FS_AddElement DEF Post
  <2>2. \A e \in posted' : Acceptable(TxnOf(e))
    BY <1>11 DEF Post
  <2> QED BY <1>8, <1>11, <2>1, <2>2 DEF Post, GoMark
<1>12. ASSUME NEW w \in Workers, MarkStatus(w) PROVE HealthyInv'
  <2>1. wrk[w].status \in {"processed", "no_money_moved"}
    BY <1>0, <1>12 DEF MarkStatus, TypeOK
  <2>2. \A e \in Events : row'[e] = row[e] \/ (e = wrk[w].ev /\ row'[e] = wrk[w].status)
    BY <1>0, <1>12 DEF MarkStatus, _mark_status, TypeOK
  <2>3. wrk[w].status = "no_money_moved" => ~ Postable(wrk[w].ev)
    BY <1>12 DEF MarkStatus
  <2>4. \A e \in Events :
          row'[e] # "failed" /\ (row'[e] = "no_money_moved" => ~ Postable(e))
    BY <2>1, <2>2, <2>3
  <2>5. \A v \in Workers :
          /\ wrk'[v].pc # "except"
          /\ wrk'[v].pc = "mark" /\ wrk'[v].status = "no_money_moved" => ~ Postable(wrk'[v].ev)
    BY <1>0, <1>12 DEF MarkStatus, TaskEnds, TypeOK
  <2> QED BY <1>12, <2>4, <2>5 DEF MarkStatus
<1>13. ASSUME NEW w \in Workers, Ack(w) PROVE HealthyInv'
  BY <1>0, <1>13 DEF Ack, IdleWrk, TypeOK
<1>14. ASSUME NEW m \in Msgs, RestoreOrphan(m) PROVE HealthyInv'
  BY <1>14 DEF RestoreOrphan
<1> QED BY <1>1, <1>2, <1>3, <1>4, <1>5, <1>6, <1>7, <1>9, <1>10, <1>11, <1>12, <1>13, <1>14
     DEF StackMove

-----------------------------------------------------------------------------
(* The runner, its requests and their results. *)

(* A sequence of anything is a sequence of its own members. *)
LEMMA SeqIs ==
  ASSUME NEW S, NEW s \in Seq(S)
  PROVE  IsSequence(s) /\ Len(s) \in Nat /\ DOMAIN s = 1 .. Len(s)
BY DEF IsSequence

(* Appending to it. *)
Extends(t, s, x) ==
  /\ IsSequence(t) /\ Len(s) \in Nat /\ DOMAIN s = 1 .. Len(s)
  /\ Len(t) = Len(s) + 1 /\ DOMAIN t = 1 .. Len(s) + 1
  /\ \A k \in DOMAIN s : t[k] = s[k]
  /\ t[Len(s) + 1] = x

(* Append does that. *)
LEMMA AppendSeq ==
  ASSUME NEW s, IsSequence(s), NEW x, NEW t, t = Append(s, x)
  PROVE  Extends(t, s, x)
<1>1. PICK S : S = {s[k] : k \in DOMAIN s} \cup {x}
  OBVIOUS
<1>2. s \in Seq(S) /\ x \in S
  <2>1. PICK T : T = {s[k] : k \in DOMAIN s}
    OBVIOUS
  <2>2. s \in Seq(T) /\ T \subseteq S
    BY <1>1, <2>1 DEF IsSequence
  <2> QED BY <1>1, <2>2
<1>3. t \in Seq(S)
  BY <1>2
<1>4. IsSequence(t)
  BY <1>3, SeqIs
<1> QED BY <1>2, <1>4 DEF Extends

(* Replacing one member. *)
DiffersAt(t, s, k, x) ==
  /\ IsSequence(t) /\ DOMAIN t = DOMAIN s /\ Len(t) = Len(s)
  /\ t[k] = x /\ \A j \in DOMAIN s : j # k => t[j] = s[j]

(* EXCEPT does that. *)
LEMMA ReplaceOne ==
  ASSUME NEW s, IsSequence(s), NEW k \in DOMAIN s, NEW x, NEW t, t = [s EXCEPT ![k] = x]
  PROVE  DiffersAt(t, s, k, x)
<1>1. PICK S : S = {s[j] : j \in DOMAIN s} \cup {x}
  OBVIOUS
<1>2. s \in Seq(S) /\ x \in S
  <2>1. PICK T : T = {s[j] : j \in DOMAIN s}
    OBVIOUS
  <2>2. s \in Seq(T) /\ T \subseteq S
    BY <1>1, <2>1 DEF IsSequence
  <2> QED BY <1>1, <2>2
<1>3. t \in Seq(S) /\ Len(t) = Len(s) /\ DOMAIN t = DOMAIN s
  <2>1. s \in [1 .. Len(s) -> S] /\ Len(s) \in Nat
    BY <1>2
  <2>2. t \in [1 .. Len(s) -> S]
    BY <1>2, <2>1
  <2> QED BY <1>2, <2>1, <2>2
<1>4. IsSequence(t)
  BY <1>3, SeqIs
<1>5. s \in [DOMAIN s -> S]
  BY <1>2
<1> QED BY <1>3, <1>4, <1>5 DEF DiffersAt

(* The runner. *)
LEMMA RunnerHolds ==
  ASSUME RunnerInv, [HNext]_hvars
  PROVE  RunnerInv'
<1>1. sched' = sched /\ giveups' \in Nat /\ cur \in Nat
  BY RunNumbers
<1>2. ASSUME UNCHANGED <<cur, fp, records, pc>>
      PROVE  RunnerInv'
  BY <1>1, <1>2 DEF RunnerInv
<1>3. ASSUME UNCHANGED <<cur, fp, records>>, pc # "next",
             pc' \in Waiting \cup {"restart", "redeliver", "redelivered"},
             pc' \in {"restart", "redeliver", "redelivered"} => fp.kills
      PROVE  RunnerInv'
  BY <1>1, <1>3 DEF RunnerInv, Waiting
<1>4. CASE UNCHANGED hvars \/ SendNext \/ SendAll
  BY <1>2, <1>4 DEF hvars, SendNext, SendAll, runnerVars
<1>5. CASE BeginScenario
  <2>1. /\ pc = "next" /\ cur < Len(sched) /\ cur' = cur + 1 /\ pc' = "send"
        /\ fp' = PlanAt(sched, cur + 1) /\ records' = records
    BY <1>5 DEF BeginScenario, PlanAt
  <2>2. Len(sched) \in Nat
    BY SoFar
  <2> QED BY <1>1, <2>1, <2>2 DEF RunnerInv, Waiting
<1>6. CASE ExecuteDone
  <2>1. pc = "send" /\ UNCHANGED <<cur, fp, records>>
    BY <1>6 DEF ExecuteDone, runnerVars
  <2>2. (fp.kills /\ pc' = "restart") \/ pc' = "queue"
    BY <1>6 DEF ExecuteDone
  <2> QED BY <1>3, <2>1, <2>2 DEF Waiting
<1>7. CASE RestartWorker
  <2>1. pc = "restart" /\ UNCHANGED <<cur, fp, records>> /\ fp.kills
    BY <1>7 DEF RestartWorker, runnerVars, RunnerInv
  <2>2. pc' \in {"redeliver", "queue"}
    BY <1>7 DEF RestartWorker
  <2> QED BY <1>3, <2>1, <2>2 DEF Waiting
<1>8. CASE Redeliver \/ Redelivered
  <2>1. /\ pc \in {"redeliver", "redelivered"} /\ UNCHANGED <<cur, fp, records>> /\ fp.kills
        /\ pc' \in {"redelivered", "queue"}
    BY <1>8 DEF Redeliver, Redelivered, runnerVars, RunnerInv
  <2> QED BY <1>3, <2>1 DEF Waiting
<1>9. CASE PollQueue \/ PollEvents \/ Deadline \/ ReadBalances
  <2>1. /\ pc \in Waiting /\ UNCHANGED <<cur, fp, records>>
        /\ pc' \in Waiting
    BY <1>9 DEF PollQueue, PollEvents, Deadline, ReadBalances, runnerVars, Waiting
  <2> QED BY <1>3, <2>1 DEF Waiting
<1>10. CASE Judge \/ ScenarioRaises
  <2>1. PICK rec : records' = Append(records, rec)
    BY <1>10 DEF Judge, ScenarioRaises
  <2>2. pc # "next" /\ pc' = "next" /\ UNCHANGED <<cur, fp>>
    BY <1>10 DEF Judge, ScenarioRaises
  <2>3. IsSequence(records') /\ Len(records') = Len(records) + 1
    BY <2>1, AppendSeq DEF RunnerInv, Extends
  <2>4. Len(records') = cur'
    BY <1>1, <2>2, <2>3 DEF RunnerInv
  <2> QED BY <1>1, <2>2, <2>3, <2>4 DEF RunnerInv
<1>11. CASE StackStep
  <2>1. UNCHANGED <<cur, fp, records, pc>>
    BY <1>11 DEF StackStep, KillFires, IngestRuns, WorkerRuns, Restore, Refuse, Accept,
       AnswerKnown, EnqueueServed, AnswerServed, stackVars, runnerVars
  <2> QED BY <1>2, <2>1
<1>12. CASE \E k \in DOMAIN results : GiveUp(k)
  BY <1>2, <1>12 DEF GiveUp, runnerVars
<1> QED BY <1>4, <1>5, <1>6, <1>7, <1>8, <1>9, <1>10, <1>11, <1>12 DEF HNext, RunnerStep

(* The plan in hand. *)
LEMMA PlanInHand ==
  ASSUME RunnerInv, cur > 0
  PROVE  /\ fp = PlanAt(sched, cur) /\ cur \in DOMAIN sched /\ sched \in Schedules
         /\ fp.deliveries = DeliveriesOf(sched, cur)
         /\ Len(fp.deliveries) \in Nat /\ DOMAIN fp.deliveries = 1 .. Len(fp.deliveries)
         /\ GoodPlan(fp, sched[cur])
<1>1. fp = PlanAt(sched, cur) /\ cur \in DOMAIN sched /\ sched \in Schedules
  BY SoFar DEF RunnerInv
<1>2. GoodPlan(fp, sched[cur])
  BY <1>1, GoodPlanAt
<1>3. Len(fp.deliveries) \in Nat /\ DOMAIN fp.deliveries = 1 .. Len(fp.deliveries)
  BY <1>2 DEF GoodPlan
<1> QED BY <1>1, <1>2, <1>3 DEF DeliveriesOf

(* Every request in a scenario has planned bytes. *)
LEMMA PlannedIs ==
  ASSUME RunnerInv, cur > 0, NEW k \in Nat \ {0},
         k <= Len(fp.deliveries) \/ fp.kills
  PROVE  \E j \in DOMAIN fp.deliveries :
           Planned(k) = fp.deliveries[j] /\ (k <= Len(fp.deliveries) => j = k)
<1>1. /\ Len(fp.deliveries) \in Nat /\ DOMAIN fp.deliveries = 1 .. Len(fp.deliveries)
      /\ GoodPlan(fp, sched[cur])
  BY PlanInHand
<1>2. CASE k <= Len(fp.deliveries)
  BY <1>1, <1>2 DEF Planned
<1>3. CASE ~ k <= Len(fp.deliveries)
  <2>1. Len(fp.deliveries) = 1
    BY <1>1, <1>3 DEF GoodPlan
  <2> QED BY <1>1, <1>3, <2>1 DEF Planned
<1> QED BY <1>2, <1>3

(* An answer stays one: rows stay, and what was given up stays so. *)
LEMMA AnswerKeeps ==
  ASSUME NEW r, NEW d, IsAnswer(r, d), giveups \in Nat, giveups' \in Nat, giveups <= giveups',
         \A t \in Events : row[t] # NoRow => row'[t] # NoRow
  PROVE  IsAnswer(r, d)'
<1>1. BlockingRows(d.event_id) # {} => BlockingRows(d.event_id)' # {}
  BY DEF BlockingRows
<1>2. CASE r.status = NULL /\ giveups > 0
  <2>1. giveups' > 0
    BY <1>2
  <2> QED BY <1>2, <2>1 DEF IsAnswer
<1>3. CASE r.status = 200 /\ Verdict(d) = "" /\ BlockingRows(d.event_id) # {}
  <2>1. BlockingRows(d.event_id)' # {}
    BY <1>1, <1>3
  <2> QED BY <1>3, <2>1 DEF IsAnswer
<1>4. CASE r.status = 400 /\ Verdict(d) # "" /\ r.body = Verdict(d)
  BY <1>4 DEF IsAnswer
<1> QED BY <1>2, <1>3, <1>4 DEF IsAnswer

(* No row is deleted. *)
RowsKept == \A t \in Events : row[t] # NoRow => row'[t] # NoRow

(* Steps that stay in the scenario and at most answer requests. *)
LEMMA ResultStable ==
  ASSUME RunnerInv, ResultInv, RowsKept, giveups' \in Nat, giveups <= giveups',
         UNCHANGED <<cur, fp>>,
         IsSequence(results'), DOMAIN results' = DOMAIN results, Len(results') = Len(results),
         cur = 0 => results' = results,
         cur > 0 => \A k \in DOMAIN results :
           results'[k] = results[k] \/ IsAnswer(results[k], Planned(k))',
         pc' \in Waiting \cup {"restart", "redeliver"} =>
           AllAnswered' /\ Len(results) >= Len(fp.deliveries),
         pc' = "redelivered" => Len(results) >= Len(fp.deliveries)
  PROVE  ResultInv'
<1>1. cur > 0 => Len(results') <= Len(fp'.deliveries) \/ fp'.kills
  BY DEF ResultInv
<1>2. cur' = 0 => results' = <<>>
  BY DEF ResultInv
<1>3. ASSUME cur > 0, NEW k \in DOMAIN results
      PROVE  results'[k] = NULL \/ IsAnswer(results[k], Planned(k))'
  <2>1. CASE results'[k] = results[k]
    <3>1. CASE results[k] = NULL
      BY <2>1, <3>1
    <3>2. CASE IsAnswer(results[k], Planned(k))
      <4>1. PICK r, d : r = results[k] /\ d = Planned(k)
        OBVIOUS
      <4>2. IsAnswer(r, d)
        BY <3>2, <4>1
      <4>3. IsAnswer(r, d)'
        BY <4>2, AnswerKeeps DEF RunnerInv, RowsKept
      <4>4. Planned(k)' = d
        BY <4>1 DEF Planned
      <4> QED BY <2>1, <4>1, <4>3, <4>4
    <3> QED BY <1>3, <3>1, <3>2 DEF ResultInv
  <2> QED BY <1>3, <2>1
<1>4. cur' > 0 => \A k \in DOMAIN results' :
        results'[k] = NULL \/ IsAnswer(results[k], Planned(k))'
  BY <1>3
<1> QED BY <1>1, <1>2, <1>4 DEF ResultInv

(* Nothing is sent or answered. *)
LEMMA ResultSame ==
  ASSUME RunnerInv, ResultInv, RowsKept, giveups' \in Nat, giveups <= giveups',
         UNCHANGED <<cur, fp, results>>,
         pc' \in Waiting \cup {"restart", "redeliver"} =>
           AllAnswered /\ Len(results) >= Len(fp.deliveries),
         pc' = "redelivered" => Len(results) >= Len(fp.deliveries)
  PROVE  ResultInv'
<1>1. IsSequence(results)' /\ AllAnswered' = AllAnswered
  BY DEF ResultInv, IsSequence, AllAnswered
<1>2. PICK r : r = results
  OBVIOUS
<1>3. results' = r /\ IsSequence(r)
  BY <1>1, <1>2
<1>4. IsSequence(results')
  BY <1>3
<1> QED BY <1>1, <1>4, ResultStable

(* One request is answered, or given up. *)
LEMMA ResultAnswered ==
  ASSUME RunnerInv, ResultInv, RowsKept, giveups' \in Nat, giveups <= giveups',
         UNCHANGED <<cur, fp, pc>>, NEW k \in DOMAIN results, results[k] = NULL,
         NEW r, results' = [results EXCEPT ![k] = r], IsAnswer(r, Planned(k))'
  PROVE  ResultInv'
<1>1. IsSequence(results)
  BY DEF ResultInv
<1>2. PICK t : t = results'
  OBVIOUS
<1>3. /\ IsSequence(t) /\ DOMAIN t = DOMAIN results /\ Len(t) = Len(results)
      /\ t[k] = r /\ \A j \in DOMAIN results : j # k => t[j] = results[j]
  <2>1. PICK s : s = results
    OBVIOUS
  <2>2. IsSequence(s) /\ t = [s EXCEPT ![k] = r] /\ k \in DOMAIN s
    BY <1>1, <1>2, <2>1
  <2>3. DiffersAt(t, s, k, r)
    BY <2>2, ReplaceOne
  <2> QED BY <2>1, <2>3 DEF DiffersAt
<1>4. ~ AllAnswered
  BY DEF AllAnswered
<1>5. cur # 0
  BY DEF ResultInv
<1>6. \A j \in DOMAIN results : results'[j] = results[j] \/ IsAnswer(results[j], Planned(j))'
  BY <1>2, <1>3
<1>7. /\ pc \notin Waiting \cup {"restart", "redeliver"}
      /\ pc = "redelivered" => Len(results) >= Len(fp.deliveries)
  BY <1>4 DEF ResultInv
<1> QED BY <1>2, <1>3, <1>5, <1>6, <1>7, ResultStable

(* The answer to a request. *)
LEMMA ResponseFiled ==
  ASSUME RunnerInv, ResultInv, RowsKept, giveups' = giveups,
         UNCHANGED <<cur, fp, pc>>, NEW rq, IsRequest(rq), NEW status, NEW body,
         Respond(rq, status, body),
         NEW d, d = rq.d, NEW r, r = [status |-> status, body |-> body], IsAnswer(r, d)'
  PROVE  ResultInv'
<1>0. giveups' \in Nat /\ giveups <= giveups'
  BY DEF RunnerInv
<1>1. CASE rq.scenario = cur /\ results[rq.k] = NULL
  <2>1. PICK k \in DOMAIN results : k = rq.k
    BY <1>1 DEF IsRequest
  <2>2. results' = [results EXCEPT ![k] = r]
    BY <1>1, <2>1 DEF Respond
  <2>3. Planned(k) = d
    BY <1>1, <2>1 DEF IsRequest
  <2>4. Planned(k)' = d
    BY <2>3 DEF Planned
  <2>5. IsAnswer(r, Planned(k))'
    BY <2>4
  <2> QED BY <1>0, <1>1, <2>1, <2>2, <2>5, ResultAnswered
<1>2. CASE ~ (rq.scenario = cur /\ results[rq.k] = NULL)
  <2>1. results' = results
    BY <1>2 DEF Respond
  <2> QED BY <1>0, <2>1, ResultSame DEF ResultInv
<1> QED BY <1>1, <1>2

(* One more request is sent. *)
LEMMA ResultAppended ==
  ASSUME RunnerInv, ResultInv, RowsKept, giveups' \in Nat, giveups <= giveups',
         UNCHANGED <<cur, fp>>, cur > 0, results' = Append(results, NULL),
         Len(results) < Len(fp.deliveries) \/ fp.kills,
         pc' \notin Waiting \cup {"restart", "redeliver"},
         pc' = "redelivered" => Len(results) >= Len(fp.deliveries)
  PROVE  ResultInv'
<1>1. PICK t : t = results'
  OBVIOUS
<1>2. IsSequence(results)
  BY DEF ResultInv
<1>3. /\ IsSequence(t) /\ Len(results) \in Nat /\ DOMAIN results = 1 .. Len(results)
      /\ Len(t) = Len(results) + 1 /\ DOMAIN t = 1 .. Len(results) + 1
      /\ \A k \in DOMAIN results : t[k] = results[k]
      /\ t[Len(results) + 1] = NULL
  <2>1. PICK s : s = results
    OBVIOUS
  <2>2. IsSequence(s) /\ t = Append(s, NULL)
    BY <1>1, <1>2, <2>1
  <2>3. Extends(t, s, NULL)
    BY <2>2, AppendSeq
  <2> QED BY <2>1, <2>3 DEF Extends
<1>4. Len(fp.deliveries) \in Nat
  BY PlanInHand
<1>5. ASSUME NEW k \in DOMAIN results
      PROVE  results'[k] = NULL \/ IsAnswer(results[k], Planned(k))'
  <2>1. PICK r, d : r = results[k] /\ d = Planned(k)
    OBVIOUS
  <2>2. CASE r = NULL
    BY <1>1, <1>3, <1>5, <2>1, <2>2
  <2>3. CASE IsAnswer(r, d)
    <3>1. IsAnswer(r, d)'
      BY <2>3, AnswerKeeps DEF RunnerInv, RowsKept
    <3>2. Planned(k)' = d
      BY <2>1 DEF Planned
    <3> QED BY <1>1, <1>3, <1>5, <2>1, <3>1, <3>2
  <2> QED BY <1>5, <2>1, <2>2, <2>3 DEF ResultInv
<1>6. \A k \in DOMAIN results' : k \in DOMAIN results \/ results'[k] = NULL
  BY <1>1, <1>3
<1>7. \A k \in DOMAIN results' : results'[k] = NULL \/ IsAnswer(results[k], Planned(k))'
  BY <1>5, <1>6
<1>8. Len(results') <= Len(fp.deliveries) \/ fp.kills
  BY <1>1, <1>3, <1>4
<1>9. pc' = "redelivered" => Len(results') >= Len(fp.deliveries)
  BY <1>1, <1>3, <1>4
<1>10. IsSequence(results')
  BY <1>1, <1>3
<1> QED BY <1>7, <1>8, <1>9, <1>10 DEF ResultInv

(* The runner's own steps leave the results in order. *)
LEMMA ResultRunner ==
  ASSUME RunnerInv, ResultInv, RowsKept, RunnerStep
  PROVE  ResultInv'
<1>0. [HNext]_hvars
  BY DEF HNext
<1>1. giveups' \in Nat /\ giveups <= giveups' /\ cur \in Nat
  BY <1>0, RunNumbers
<1>2. CASE BeginScenario
  <2>1. cur' > 0 /\ results' = <<>> /\ pc' = "send"
    BY <1>1, <1>2 DEF BeginScenario
  <2>2. IsSequence(<<>>) /\ Len(<<>>) = 0 /\ DOMAIN <<>> = {}
    BY DEF IsSequence
  <2>3. fp' = PlanAt(sched, cur + 1) /\ cur + 1 \in DOMAIN sched
    BY <1>2, SoFar DEF BeginScenario, PlanAt
  <2>4. Len(fp'.deliveries) \in Nat
    <3>1. PICK s \in Schedules : s = sched
      BY DEF RunnerInv
    <3>2. PICK n \in DOMAIN s : n = cur + 1
      BY <2>3, <3>1
    <3>3. GoodPlan(PlanAt(s, n), s[n])
      BY GoodPlanAt
    <3> QED BY <2>3, <3>1, <3>2, <3>3 DEF GoodPlan
  <2>5. /\ IsSequence(results') /\ Len(results') = 0 /\ DOMAIN results' = {}
    BY <2>1, <2>2
  <2> QED BY <2>1, <2>4, <2>5 DEF ResultInv, Waiting
<1>3. CASE SendNext
  <2>1. pc = "send" /\ pc' = pc /\ results' = Append(results, NULL) /\ Unsent > 0
        /\ UNCHANGED <<cur, fp>>
    BY <1>3 DEF SendNext, runnerVars
  <2>2. cur > 0 /\ Len(fp.deliveries) \in Nat
    BY <1>1, <2>1, PlanInHand DEF RunnerInv
  <2>3. Len(results) \in Nat
    BY DEF ResultInv, IsSequence
  <2>4. Len(results) < Len(fp.deliveries)
    BY <2>1, <2>2, <2>3 DEF Unsent
  <2> QED BY <1>1, <2>1, <2>2, <2>4, ResultAppended DEF Waiting
<1>4. CASE SendAll
  <2>1. pc = "send" /\ pc' = pc /\ UNCHANGED <<cur, fp>>
        /\ results' = [k \in DOMAIN fp.deliveries |-> NULL]
    BY <1>4 DEF SendAll, runnerVars
  <2>2. cur > 0 /\ Len(fp.deliveries) \in Nat /\ DOMAIN fp.deliveries = 1 .. Len(fp.deliveries)
    BY <1>1, <2>1, PlanInHand DEF RunnerInv
  <2>3. PICK n \in Nat : n = Len(fp.deliveries)
    BY <2>2
  <2>4. PICK t : t = results'
    OBVIOUS
  <2>5. t = [k \in 1 .. n |-> NULL]
    BY <2>1, <2>2, <2>3, <2>4
  <2>6. t \in Seq({NULL}) /\ Len(t) = n
    BY <2>5
  <2>7. IsSequence(t) /\ \A k \in DOMAIN t : t[k] = NULL
    BY <2>5, <2>6, SeqIs
  <2>8. IsSequence(results') /\ Len(results') <= Len(fp.deliveries)
        /\ \A k \in DOMAIN results' : results'[k] = NULL
    BY <2>3, <2>4, <2>6, <2>7
  <2> QED BY <2>1, <2>2, <2>8 DEF ResultInv, Waiting
<1>5. CASE ExecuteDone
  <2>1. AllAnswered /\ Unsent = 0 /\ UNCHANGED <<cur, fp, results>> /\ pc = "send"
        /\ pc' \in {"restart", "queue"}
    BY <1>5 DEF ExecuteDone, runnerVars
  <2>2. Len(fp.deliveries) \in Nat /\ Len(results) \in Nat
    BY <1>1, <2>1, PlanInHand DEF RunnerInv, ResultInv, IsSequence
  <2>3. Len(results) >= Len(fp.deliveries)
    BY <2>1, <2>2 DEF Unsent
  <2> QED BY <1>1, <2>1, <2>3, ResultSame
<1>6. CASE RestartWorker
  <2>1. UNCHANGED <<cur, fp, results>> /\ pc = "restart" /\ pc' \in {"redeliver", "queue"}
    BY <1>6 DEF RestartWorker, runnerVars
  <2> QED BY <1>1, <2>1, ResultSame DEF ResultInv
<1>7. CASE Redeliver
  <2>1. UNCHANGED <<cur, fp>> /\ pc = "redeliver" /\ pc' = "redelivered"
        /\ results' = Append(results, NULL)
    BY <1>7 DEF Redeliver, runnerVars
  <2>2. cur > 0 /\ fp.kills /\ Len(results) >= Len(fp.deliveries)
    BY <1>1, <2>1 DEF RunnerInv, ResultInv
  <2> QED BY <1>1, <2>1, <2>2, ResultAppended DEF Waiting
<1>8. CASE Redelivered
  <2>1. UNCHANGED <<cur, fp, results>> /\ pc = "redelivered" /\ pc' = "queue" /\ AllAnswered
    BY <1>8 DEF Redelivered, runnerVars
  <2> QED BY <1>1, <2>1, ResultSame DEF ResultInv
<1>9. CASE PollQueue \/ PollEvents \/ ReadBalances \/ Judge
  <2>1. UNCHANGED <<cur, fp, results>> /\ pc \in Waiting /\ pc' # "redelivered"
    BY <1>9 DEF PollQueue, PollEvents, ReadBalances, Judge, runnerVars, Waiting
  <2> QED BY <1>1, <2>1, ResultSame DEF ResultInv
<1> QED BY <1>2, <1>3, <1>4, <1>5, <1>6, <1>7, <1>8, <1>9 DEF RunnerStep

(* So does ingest, answering. *)
LEMMA ResultIngest ==
  ASSUME IInv, RunnerInv, ResultInv, RequestInv, RowsKept, NEW i \in Ingests, IngestRuns(i)
  PROVE  ResultInv'
<1>0. UNCHANGED <<cur, fp, pc>> /\ giveups' = giveups /\ giveups' \in Nat /\ giveups <= giveups'
  <2>1. UNCHANGED stackVars
    BY DEF IngestRuns, Refuse, Accept, AnswerKnown, EnqueueServed, AnswerServed
  <2>2. giveups \in Nat
    BY DEF RunnerInv
  <2> QED BY <2>1, <2>2 DEF stackVars, runnerVars
<1>1. ASSUME NEW rq \in wire, Refuse(i, rq) PROVE ResultInv'
  <2>1. PICK d, r : d = rq.d /\ r = [status |-> 400, body |-> Verdict(rq.d)]
    OBVIOUS
  <2>2. Verdict(d) # "" /\ Respond(rq, 400, Verdict(rq.d))
    BY <1>1, <2>1 DEF Refuse, Outcome
  <2>3. IsAnswer(r, d)'
    BY <2>1, <2>2 DEF IsAnswer
  <2>4. IsRequest(rq)
    BY DEF RequestInv
  <2> QED BY <1>0, <2>1, <2>2, <2>3, <2>4, ResponseFiled, ZenonT(40)
<1>2. CASE (\E rq \in wire : Accept(i, rq)) \/ EnqueueServed(i)
  <2>1. results' = results
    BY <1>2 DEF Accept, EnqueueServed
  <2> QED BY <1>0, <2>1, ResultSame DEF ResultInv
<1>3. ASSUME NEW rq \in wire, AnswerKnown(i, rq) PROVE ResultInv'
  <2>1. PICK d, r : d = rq.d /\ r = [status |-> 200, body |-> "duplicate"]
    OBVIOUS
  <2>2. Verdict(d) = "" /\ Respond(rq, 200, "duplicate") /\ BlockingRows(d.event_id) # {}
        /\ row' = row
    BY <1>3, <2>1 DEF AnswerKnown, Outcome, AnswerDuplicate
  <2>3. BlockingRows(d.event_id)' # {}
    BY <2>2 DEF BlockingRows
  <2>4. IsAnswer(r, d)'
    BY <2>1, <2>2, <2>3 DEF IsAnswer
  <2>5. IsRequest(rq)
    BY DEF RequestInv
  <2> QED BY <1>0, <2>1, <2>2, <2>4, <2>5, ResponseFiled
<1>4. CASE AnswerServed(i)
  <2>1. PICK rq, d, r : rq = serving /\ d = rq.d /\ r = [status |-> 200, body |-> "queued"]
    OBVIOUS
  <2>2. /\ IsRequest(rq) /\ Verdict(d) = "" /\ Respond(rq, 200, "queued")
        /\ ing[i].ev = d.event_id /\ ing[i].pc # "idle"
    BY <1>4, <2>1 DEF AnswerServed, MarkQueued, RequestInv, Outcome
  <2>3. PICK t \in Events : SameKey(d.event_id, t) /\ row[t] # NoRow
    BY <2>2 DEF IInv, IngestInv, TypeOK
  <2>4. BlockingRows(d.event_id)' # {}
    BY <2>3 DEF BlockingRows, RowsKept
  <2>5. IsAnswer(r, d)'
    BY <2>1, <2>2, <2>4 DEF IsAnswer
  <2> QED BY <1>0, <2>1, <2>2, <2>5, ResponseFiled
<1> QED BY <1>1, <1>2, <1>3, <1>4 DEF IngestRuns

(* The results say what ingest makes of the planned bytes, after every step. *)
LEMMA ResultHolds ==
  ASSUME IInv, RunnerInv, ResultInv, RequestInv, RowsKept, [HNext]_hvars
  PROVE  ResultInv'
<1>1. giveups' \in Nat /\ giveups <= giveups' /\ cur \in Nat /\ giveups \in Nat
  BY RunNumbers
<1>2. CASE RunnerStep
  BY <1>2, ResultRunner
<1>3. ASSUME NEW i \in Ingests, IngestRuns(i) PROVE ResultInv'
  BY <1>3, ResultIngest
<1>4. CASE \/ UNCHANGED hvars \/ KillFires \/ \E w \in Workers : WorkerRuns(w)
           \/ \E m \in Msgs : Restore(m)
  <2>1. UNCHANGED <<cur, fp, results, pc>>
    BY <1>4 DEF hvars, KillFires, WorkerRuns, Restore, stackVars, runnerVars
  <2> QED BY <1>1, <2>1, ResultSame DEF ResultInv
<1>5. CASE Deadline
  <2>1. UNCHANGED <<cur, fp, results>> /\ pc = "queue" /\ pc' = "balances"
    BY <1>5 DEF Deadline
  <2> QED BY <1>1, <2>1, ResultSame DEF ResultInv, Waiting
<1>6. ASSUME NEW k \in DOMAIN results, GiveUp(k) PROVE ResultInv'
  <2>1. PICK r : r = [status |-> NULL, body |-> ""]
    OBVIOUS
  <2>2. /\ results[k] = NULL /\ results' = [results EXCEPT ![k] = r]
        /\ UNCHANGED <<cur, fp, pc>> /\ giveups' = giveups + 1
    BY <1>6, <2>1 DEF GiveUp, runnerVars
  <2>3. giveups' > 0
    BY <1>1, <2>2
  <2>4. IsAnswer(r, Planned(k))'
    BY <2>1, <2>3 DEF IsAnswer
  <2> QED BY <1>1, <2>2, <2>4, ResultAnswered
<1>7. CASE ScenarioRaises
  <2>1. UNCHANGED <<cur, fp, results>> /\ pc' = "next"
    BY <1>7 DEF ScenarioRaises
  <2> QED BY <1>1, <2>1, ResultSame DEF ResultInv, Waiting
<1> QED BY <1>2, <1>3, <1>4, <1>5, <1>6, <1>7 DEF HNext, StackStep

(* A request stays one: its scenario may be over, its result stays in place. *)
LEMMA RequestKept ==
  ASSUME RunnerInv, NEW rq, IsRequest(rq), sched' = sched,
         \/ UNCHANGED <<cur, fp>> /\ DOMAIN results \subseteq DOMAIN results'
         \/ cur' = cur + 1
  PROVE  IsRequest(rq)'
<1>1. cur \in Nat
  BY SoFar
<1>2. rq.scenario \in 1 .. cur'
  BY <1>1 DEF IsRequest
<1>3. \E j \in DOMAIN DeliveriesOf(sched', rq.scenario) :
        rq.d = DeliveriesOf(sched', rq.scenario)[j]
  BY DEF IsRequest
<1>4. CASE UNCHANGED <<cur, fp>> /\ DOMAIN results \subseteq DOMAIN results'
  <2>1. PICK n, k : n = rq.scenario /\ k = rq.k
    OBVIOUS
  <2>2. Planned(k)' = Planned(k)
    BY <1>4 DEF Planned
  <2>3. n = cur => k \in DOMAIN results' /\ rq.d = Planned(k)'
    BY <1>4, <2>1, <2>2 DEF IsRequest
  <2>4. rq.scenario = cur' => rq.k \in DOMAIN results' /\ rq.d = Planned(rq.k)'
    BY <1>4, <2>1, <2>3
  <2> QED BY <1>2, <1>3, <2>4 DEF IsRequest
<1>5. CASE cur' = cur + 1
  <2>1. rq.scenario # cur'
    BY <1>1, <1>5 DEF IsRequest
  <2> QED BY <1>2, <1>3, <2>1 DEF IsRequest
<1> QED BY <1>4, <1>5

(* What is put on the wire is one. *)
LEMMA NewRequest ==
  ASSUME RunnerInv, cur > 0, NEW k \in Nat \ {0}, k <= Len(fp.deliveries) \/ fp.kills,
         k \in DOMAIN results', UNCHANGED <<sched, cur, fp>>, NEW rq, rq = Request(k)
  PROVE  IsRequest(rq)' /\ rq.scenario = cur /\ rq.d = Planned(k) /\ rq.k = k
<1>1. rq.scenario = cur /\ rq.k = k /\ rq.d = Planned(k)
  BY DEF Request
<1>2. cur \in Nat /\ fp.deliveries = DeliveriesOf(sched, cur)
  BY SoFar, PlanInHand
<1>3. PICK j \in DOMAIN fp.deliveries : Planned(k) = fp.deliveries[j]
  BY PlannedIs
<1>4. Planned(k)' = Planned(k)
  BY DEF Planned
<1>5. \E i \in DOMAIN DeliveriesOf(sched', cur) : rq.d = DeliveriesOf(sched', cur)[i]
  BY <1>1, <1>2, <1>3
<1>6. rq.scenario \in 1 .. cur'
  BY <1>1, <1>2
<1>7. rq.k \in DOMAIN results' /\ rq.d = Planned(rq.k)'
  BY <1>1, <1>4
<1> QED BY <1>1, <1>5, <1>6, <1>7 DEF IsRequest

(* What a step puts on the wire. *)
Sent(rq) ==
  /\ UNCHANGED <<sched, cur, fp, giveups, row, ing, serving>>
  /\ rq.scenario = cur
  /\ \E k \in Nat \ {0} :
       /\ rq.k = k /\ rq.d = Planned(k)
       /\ k <= Len(fp.deliveries) \/ fp.kills
       /\ \/ SendNext /\ k = Len(results) + 1
          \/ SendAll /\ k \in DOMAIN fp.deliveries
          \/ Redeliver /\ fp.kills

(* Only what was just sent is new on the wire. *)
LEMMA WireGrows ==
  ASSUME RunnerInv, ResultInv, [HNext]_hvars, NEW rq \in wire', rq \notin wire
  PROVE  Sent(rq) /\ IsRequest(rq)'
<1>0. IsSequence(results) /\ cur \in Nat /\ Len(results) \in Nat
  BY SoFar DEF ResultInv, IsSequence
<1>1. PICK n \in Nat \ {0} : n = Len(results) + 1
  BY <1>0
<1>2. ASSUME results' = Append(results, NULL) PROVE n \in DOMAIN results'
  <2>1. PICK s, t : s = results /\ t = results'
    OBVIOUS
  <2>2. Extends(t, s, NULL)
    BY <1>0, <1>2, <2>1, AppendSeq
  <2> QED BY <1>0, <1>1, <2>1, <2>2 DEF Extends
<1>3. CASE SendNext
  <2>1. /\ pc = "send" /\ UNCHANGED <<sched, cur, fp, giveups, row, ing, serving>>
        /\ results' = Append(results, NULL) /\ rq = Request(n) /\ Unsent > 0
    BY <1>1, <1>3 DEF SendNext, runnerVars, vars
  <2>2. cur > 0 /\ Len(fp.deliveries) \in Nat
    BY <1>0, <2>1, PlanInHand DEF RunnerInv
  <2>3. n <= Len(fp.deliveries)
    BY <1>0, <1>1, <2>1, <2>2 DEF Unsent
  <2>4. IsRequest(rq)' /\ rq.scenario = cur /\ rq.d = Planned(n) /\ rq.k = n
    BY <1>2, <2>1, <2>2, <2>3, NewRequest
  <2> QED BY <1>1, <1>3, <2>1, <2>3, <2>4 DEF Sent
<1>4. CASE SendAll
  <2>1. /\ pc = "send" /\ UNCHANGED <<sched, cur, fp, giveups, row, ing, serving>>
        /\ results' = [k \in DOMAIN fp.deliveries |-> NULL]
        /\ \E k \in DOMAIN fp.deliveries : rq = Request(k)
    BY <1>4 DEF SendAll, runnerVars, vars
  <2>2. cur > 0 /\ Len(fp.deliveries) \in Nat /\ DOMAIN fp.deliveries = 1 .. Len(fp.deliveries)
    BY <1>0, <2>1, PlanInHand DEF RunnerInv
  <2>3. PICK k \in DOMAIN fp.deliveries : rq = Request(k)
    BY <2>1
  <2>4. k \in Nat \ {0} /\ k <= Len(fp.deliveries) /\ k \in DOMAIN results'
    BY <2>1, <2>2
  <2>5. IsRequest(rq)' /\ rq.scenario = cur /\ rq.d = Planned(k) /\ rq.k = k
    BY <2>1, <2>2, <2>3, <2>4, NewRequest
  <2> QED BY <1>4, <2>1, <2>4, <2>5 DEF Sent
<1>5. CASE Redeliver
  <2>1. /\ pc = "redeliver" /\ UNCHANGED <<sched, cur, fp, giveups, row, ing, serving>>
        /\ results' = Append(results, NULL) /\ rq = Request(n)
    BY <1>1, <1>5 DEF Redeliver, runnerVars, vars
  <2>2. cur > 0 /\ fp.kills
    BY <1>0, <2>1 DEF RunnerInv
  <2>3. IsRequest(rq)' /\ rq.scenario = cur /\ rq.d = Planned(n) /\ rq.k = n
    BY <1>2, <2>1, <2>2, NewRequest
  <2> QED BY <1>5, <2>1, <2>2, <2>3 DEF Sent
<1>6. CASE ~ SendNext /\ ~ SendAll /\ ~ Redeliver
  <2>1. wire' \subseteq wire
    <3>1. CASE UNCHANGED hvars
      BY <3>1 DEF hvars
    <3>2. CASE RunnerStep
      BY <1>6, <3>2 DEF RunnerStep, BeginScenario, ExecuteDone, RestartWorker, Redelivered,
         PollQueue, PollEvents, ReadBalances, Judge
    <3>3. CASE StackStep
      BY <3>3 DEF StackStep, KillFires, IngestRuns, WorkerRuns, Restore, Refuse, Accept,
         AnswerKnown, EnqueueServed, AnswerServed
    <3>4. CASE Deadline \/ ScenarioRaises \/ \E k \in DOMAIN results : GiveUp(k)
      BY <3>4 DEF Deadline, ScenarioRaises, GiveUp
    <3> QED BY <3>1, <3>2, <3>3, <3>4 DEF HNext
  <2> QED BY <2>1
<1> QED BY <1>3, <1>4, <1>5, <1>6

(* The results only grow within a scenario. *)
LEMMA ResultsGrow ==
  ASSUME RunnerInv, ResultInv, [HNext]_hvars
  PROVE  \/ UNCHANGED <<cur, fp>> /\ DOMAIN results \subseteq DOMAIN results'
         \/ cur' = cur + 1
<1>0. IsSequence(results)
  BY DEF ResultInv
<1>1. CASE BeginScenario
  BY <1>1 DEF BeginScenario
<1>2. CASE SendNext \/ Redeliver
  <2>1. UNCHANGED <<cur, fp>> /\ results' = Append(results, NULL)
    BY <1>2 DEF SendNext, Redeliver, runnerVars
  <2>2. PICK s, t : s = results /\ t = results'
    OBVIOUS
  <2>3. Extends(t, s, NULL)
    BY <1>0, <2>1, <2>2, AppendSeq
  <2> QED BY <2>1, <2>2, <2>3 DEF Extends
<1>3. CASE SendAll
  BY <1>3 DEF SendAll, runnerVars
<1>4. ASSUME NEW rq, NEW status, NEW body, Respond(rq, status, body)
      PROVE  DOMAIN results' = DOMAIN results
  BY <1>4 DEF Respond
<1>5. CASE StackStep
  <2>1. UNCHANGED <<cur, fp>>
    BY <1>5 DEF StackStep, KillFires, IngestRuns, WorkerRuns, Restore, Refuse, Accept,
       AnswerKnown, EnqueueServed, AnswerServed, stackVars, runnerVars
  <2>2. DOMAIN results' = DOMAIN results
    BY <1>4, <1>5 DEF StackStep, KillFires, IngestRuns, WorkerRuns, Restore, Refuse, Accept,
       AnswerKnown, EnqueueServed, AnswerServed
  <2> QED BY <2>1, <2>2
<1>6. CASE \E k \in DOMAIN results : GiveUp(k)
  BY <1>6 DEF GiveUp, runnerVars
<1>7. CASE \/ UNCHANGED hvars \/ ExecuteDone \/ RestartWorker \/ Redelivered \/ PollQueue
           \/ PollEvents \/ ReadBalances \/ Judge \/ Deadline \/ ScenarioRaises
  BY <1>7 DEF hvars, ExecuteDone, RestartWorker, Redelivered, PollQueue, PollEvents,
     ReadBalances, Judge, Deadline, ScenarioRaises, runnerVars
<1> QED BY <1>1, <1>2, <1>3, <1>5, <1>6, <1>7 DEF HNext, RunnerStep

(* What ingest has in hand. *)
LEMMA ServingStep ==
  ASSUME IInv, [HNext]_hvars, NEW i \in Ingests, ing'[i].pc # "idle"
  PROVE  \/ ing[i].pc # "idle" /\ serving' = serving /\ ing'[i].ev = ing[i].ev
         \/ \E rq \in wire : Accept(i, rq) /\ ing'[i].ev = rq.d.event_id
<1>0. TypeOK /\ \A j \in Ingests : j = i
  BY StackAssumption DEF IInv
<1>1. ASSUME UNCHANGED <<ing, serving>>
      PROVE  ing[i].pc # "idle" /\ serving' = serving /\ ing'[i].ev = ing[i].ev
  BY <1>1
<1>2. CASE \/ UNCHANGED hvars \/ RunnerStep \/ Deadline \/ ScenarioRaises
           \/ \E k \in DOMAIN results : GiveUp(k)
  <2>1. UNCHANGED <<ing, serving>>
    BY <1>2 DEF hvars, vars, RunnerStep, BeginScenario, SendNext, SendAll, ExecuteDone,
       RestartWorker, Redeliver, Redelivered, PollQueue, PollEvents, ReadBalances, Judge,
       Deadline, ScenarioRaises, GiveUp
  <2> QED BY <1>1, <2>1
<1>3. CASE KillFires \/ (\E m \in Msgs : Restore(m)) \/ (\E w \in Workers : WorkerRuns(w))
  <2>1. UNCHANGED <<ing, serving>>
    BY <1>3 DEF KillFires, Restore, RestoreOrphan, WorkerRuns, Fetch, NothingToPost, Build,
       Post, PostDuplicate, MarkStatus, Ack
  <2> QED BY <1>1, <2>1
<1>4. CASE IngestRuns(i)
  <2>1. ASSUME NEW rq \in wire, Refuse(i, rq) \/ AnswerKnown(i, rq)
        PROVE  UNCHANGED <<ing, serving>>
    BY <2>1 DEF Refuse, AnswerKnown, AnswerDuplicate, vars
  <2>2. ASSUME NEW rq \in wire, Accept(i, rq) PROVE ing'[i].ev = rq.d.event_id
    <3>1. PICK e : e = rq.d.event_id
      OBVIOUS
    <3>2. \E t : ing' = [ing EXCEPT ![i] = [pc |-> "enqueue", ev |-> e, target |-> t]]
      BY <2>2, <3>1 DEF Accept, RecordNew, RecoverDuplicate
    <3> QED BY <1>0, <3>1, <3>2 DEF TypeOK
  <2>3. CASE EnqueueServed(i)
    <3>1. ing[i].pc = "enqueue" /\ serving' = serving /\ ing' = [ing EXCEPT ![i].pc = "mark"]
      BY <2>3 DEF EnqueueServed, Enqueue
    <3>2. ing'[i].ev = ing[i].ev
      BY <1>0, <3>1 DEF TypeOK
    <3> QED BY <3>1, <3>2
  <2>4. CASE AnswerServed(i)
    BY <1>0, <2>4 DEF AnswerServed, MarkQueued, Idle, TypeOK
  <2> QED BY <1>1, <1>4, <2>1, <2>2, <2>3, <2>4 DEF IngestRuns
<1> QED BY <1>0, <1>2, <1>3, <1>4 DEF HNext, StackStep

(* Requests carry planned bytes, after every step. *)
LEMMA RequestHolds ==
  ASSUME IInv, RunnerInv, ResultInv, RequestInv, [HNext]_hvars
  PROVE  RequestInv'
<1>1. ASSUME NEW rq, IsRequest(rq) PROVE IsRequest(rq)'
  BY <1>1, ResultsGrow, RequestKept, RunGoesOn
<1>2. ASSUME NEW rq \in wire' PROVE IsRequest(rq)'
  BY <1>1, WireGrows DEF RequestInv
<1>3. ASSUME NEW i \in Ingests, ing'[i].pc # "idle"
      PROVE  IsRequest(serving)' /\ Outcome(serving)' = "" /\ ing'[i].ev = serving'.d.event_id
  <2>1. CASE ing[i].pc # "idle" /\ serving' = serving /\ ing'[i].ev = ing[i].ev
    <3>1. PICK rq : rq = serving
      OBVIOUS
    <3>2. IsRequest(rq) /\ Outcome(rq) = "" /\ ing[i].ev = rq.d.event_id
      BY <2>1, <3>1 DEF RequestInv
    <3>3. IsRequest(rq)' /\ Outcome(rq)' = ""
      BY <1>1, <3>2 DEF Outcome
    <3> QED BY <2>1, <3>1, <3>2, <3>3
  <2>2. ASSUME NEW rq \in wire, Accept(i, rq), ing'[i].ev = rq.d.event_id
        PROVE  IsRequest(serving)' /\ Outcome(serving)' = ""
               /\ ing'[i].ev = serving'.d.event_id
    <3>1. serving' = rq /\ Outcome(rq) = ""
      BY <2>2 DEF Accept
    <3>2. IsRequest(rq)'
      BY <1>1 DEF RequestInv
    <3>3. Outcome(rq)' = ""
      BY <3>1 DEF Outcome
    <3> QED BY <2>2, <3>1, <3>2, <3>3
  <2> QED BY <1>3, <2>1, <2>2, ServingStep
<1> QED BY <1>2, <1>3 DEF RequestInv

(* While no request has been abandoned, the row that blocks a fixture's event
   is its own: no other event of the run has its key. *)
LEMMA OwnRow ==
  ASSUME RunnerInv, CalmInv, giveups = 0, NEW s \in Schedules, s = sched, NEW n \in DOMAIN s,
         NEW o \in Ids(s[n].fixtures), BlockingRows(o) # {}
  PROVE  row[o] # NoRow
<1>1. PICK t \in Events : row[t] # NoRow /\ SameKey(o, t)
  BY DEF BlockingRows
<1>2. PICK m \in 1 .. cur : t \in Ids(sched[m].fixtures)
  BY <1>1 DEF CalmInv, InSystem, IsOriginal
<1>3. m \in DOMAIN s /\ t \in Ids(s[m].fixtures)
  BY <1>2, SoFar
<1>4. t \in CandidateIds(s, m) /\ o \in CandidateIds(s, n)
  BY <1>3 DEF CandidateIds
<1>5. n = m /\ (o \in Ids(s[n].fixtures) /\ t \in Ids(s[n].fixtures) => o = t)
  BY <1>1, <1>3, <1>4, FreshKeys
<1> QED BY <1>1, <1>3, <1>5

(* While no request has been abandoned, a twin is only sent when the row of
   its original is there: ingest answered the original, for no other event of
   the run has its key. *)
LEMMA SentBehind ==
  ASSUME RunnerInv, ResultInv, CalmInv, giveups = 0, NEW rq, Sent(rq), cur > 0
  PROVE  Behind(rq)
<1>1. PICK s \in Schedules : s = sched
  BY DEF RunnerInv
<1>2. PICK n \in DOMAIN s : n = cur
  BY <1>1, PlanInHand
<1>3. rq.scenario = n /\ fp = PlanAt(s, n) /\ fp.deliveries = DeliveriesOf(s, n)
  BY <1>1, <1>2, PlanInHand DEF Sent
<1>4. PICK k \in Nat \ {0} :
        /\ rq.k = k /\ rq.d = Planned(k)
        /\ k <= Len(fp.deliveries) \/ fp.kills
        /\ \/ SendNext /\ k = Len(results) + 1
           \/ SendAll /\ k \in DOMAIN fp.deliveries
           \/ Redeliver /\ fp.kills
  BY DEF Sent
<1>5. PICK j \in DOMAIN fp.deliveries :
        Planned(k) = fp.deliveries[j] /\ (k <= Len(fp.deliveries) => j = k)
  BY <1>4, PlannedIs
<1>6. PICK e, o : e = fp.deliveries[j].event_id /\ o = s[n].fixtures[1].event.id
  OBVIOUS
<1>7. e = rq.d.event_id
  BY <1>4, <1>5, <1>6
<1>8. \/ e \in Ids(s[n].fixtures)
      \/ SameKey(e, o) /\ BehindOriginal(PlanAt(s, n), j, o)
  BY <1>3, <1>5, <1>6, DeliveryCarries
<1>9. ASSUME BehindOriginal(PlanAt(s, n), j, o)
      PROVE  row[o] # NoRow
  <2>1. /\ j > 1 /\ 1 \in DOMAIN fp.deliveries /\ fp.deliveries[1].event_id = o
        /\ Verdict(fp.deliveries[1]) = "" /\ ~ fp.concurrent /\ ~ fp.kills
    BY <1>3, <1>9 DEF BehindOriginal
  <2>2. ~ SendAll
    BY <2>1 DEF SendAll
  <2>3. SendNext /\ k = Len(results) + 1 /\ k = j
    BY <1>4, <1>5, <2>1, <2>2
  <2>4. Len(results) \in Nat /\ DOMAIN results = 1 .. Len(results)
    BY DEF ResultInv, IsSequence
  <2>5. 1 \in DOMAIN results
    <3>1. k \in Nat /\ k > 1 /\ k = Len(results) + 1
      BY <1>9, <2>3 DEF BehindOriginal
    <3> QED BY ONLY <2>4, <3>1
  <2>6. results[1] # NULL
    BY <2>3, <2>5 DEF SendNext, AllAnswered
  <2>7. PICK r, d : r = results[1] /\ d = Planned(1)
    OBVIOUS
  <2>8. IsAnswer(r, d)
    BY <2>5, <2>6, <2>7 DEF ResultInv
  <2>9. d = fp.deliveries[1]
    BY <2>1, <2>7, PlanInHand DEF Planned
  <2>10. BlockingRows(o) # {}
    <3>1. d.event_id = o /\ Verdict(d) = ""
      BY <2>1, <2>9
    <3>2. BlockingRows(d.event_id) # {}
      <4>1. ~ (giveups > 0)
        OBVIOUS
      <4>2. \/ r.status = 200 /\ Verdict(d) = "" /\ BlockingRows(d.event_id) # {}
            \/ Verdict(d) # ""
        BY <2>8, <4>1 DEF IsAnswer
      <4> QED BY <3>1, <4>2
    <3> QED BY <3>1, <3>2
  <2>11. o \in Ids(s[n].fixtures)
    BY <1>6, FixtureIdsAre
  <2> QED BY <1>1, <2>10, <2>11, OwnRow
<1>10. e \in Ids(s[n].fixtures) \/ row[o] # NoRow
  BY <1>8, <1>9
<1> QED BY <1>1, <1>3, <1>6, <1>7, <1>10 DEF Behind

(* Only the fixtures themselves get past ingest, after every step. *)
LEMMA CalmHolds ==
  ASSUME IInv, RunnerInv, ResultInv, RequestInv, CalmInv, StackMove, RowsKept, [HNext]_hvars
  PROVE  CalmInv'
<1>1. /\ sched' = sched /\ cur \in Nat /\ cur' \in Nat /\ cur <= cur'
      /\ giveups \in Nat /\ giveups' \in Nat /\ giveups <= giveups'
  BY RunNumbers
<1> SUFFICES ASSUME giveups' = 0
             PROVE  /\ \A e \in Events : InSystem(e)' => IsOriginal(e)'
                    /\ \A rq \in wire' : Behind(rq)'
  BY DEF CalmInv
<1>2. giveups = 0
  BY <1>1
<1>3. \A e : IsOriginal(e) => IsOriginal(e)'
  BY <1>1 DEF IsOriginal
<1>4. ASSUME NEW rq \in wire
      PROVE  /\ sched[rq.scenario].fixtures[1].event.id \in Events
             /\ rq.scenario \in 1 .. cur
             /\ \/ rq.d.event_id \in Ids(sched[rq.scenario].fixtures)
                \/ SameKey(rq.d.event_id, sched[rq.scenario].fixtures[1].event.id)
  <2>1. PICK n : n = rq.scenario
    OBVIOUS
  <2>2. /\ n \in 1 .. cur /\ n \in DOMAIN sched
        /\ \/ rq.d.event_id \in Ids(sched[n].fixtures)
           \/ SameKey(rq.d.event_id, sched[n].fixtures[1].event.id)
    BY <1>4, <2>1, RequestCarries DEF RequestInv
  <2>3. PICK s \in Schedules : s = sched
    BY DEF RunnerInv
  <2>4. s[n].fixtures[1].event.id \in Events
    BY <2>2, <2>3, FixtureIdsAre
  <2> QED BY <2>1, <2>2, <2>3, <2>4
<1>5. ASSUME NEW e \in Events, InSystem(e)' PROVE IsOriginal(e)'
  <2>1. CASE InSystem(e)
    BY <1>2, <1>3, <2>1 DEF CalmInv
  <2>2. CASE Recorded(e)
    <3>1. PICK rq \in wire : e = rq.d.event_id
      BY <2>2 DEF Recorded
    <3>2. PICK n, o : n = rq.scenario /\ o = sched[n].fixtures[1].event.id
      OBVIOUS
    <3>3. o \in Events /\ n \in 1 .. cur /\ (e \in Ids(sched[n].fixtures) \/ SameKey(e, o))
      BY <1>4, <3>1, <3>2
    <3>4. e \in Ids(sched[n].fixtures) \/ row[o] # NoRow
      BY <1>2, <3>1, <3>2 DEF CalmInv, Behind
    <3>5. ~ (SameKey(e, o) /\ row[o] # NoRow)
      BY <2>2, <3>3 DEF Recorded, BlockingRows
    <3>6. e \in Ids(sched[n].fixtures)
      BY <3>3, <3>4, <3>5
    <3> QED BY <1>3, <3>3, <3>6 DEF IsOriginal
  <2> QED BY <1>5, <2>1, <2>2, SystemGrows
<1>6. ASSUME NEW rq \in wire' PROVE Behind(rq)'
  <2>1. CASE rq \in wire
    <3>1. PICK o : o = sched[rq.scenario].fixtures[1].event.id
      OBVIOUS
    <3>2. o \in Events
      BY <1>4, <2>1, <3>1
    <3>3. rq.d.event_id \in Ids(sched[rq.scenario].fixtures) \/ row'[o] # NoRow
      BY <1>2, <2>1, <3>1, <3>2 DEF CalmInv, Behind, RowsKept
    <3> QED BY <1>1, <3>1, <3>3 DEF Behind
  <2>2. CASE rq \notin wire
    <3>1. Sent(rq)
      BY <1>6, <2>2, WireGrows
    <3>2. cur > 0
      BY <1>1, <3>1 DEF Sent, SendNext, SendAll, Redeliver, RunnerInv
    <3>3. Behind(rq)
      BY <1>2, <3>1, <3>2, SentBehind
    <3>4. row' = row
      BY <3>1 DEF Sent
    <3> QED BY <1>1, <3>3, <3>4 DEF Behind
  <2> QED BY <2>1, <2>2
<1> QED BY <1>5, <1>6

-----------------------------------------------------------------------------
(* Waiting for quiet. *)

(* The stack does not touch what the runner keeps. *)
LEMMA StackLeavesRunner ==
  ASSUME StackStep
  PROVE  UNCHANGED runnerVars /\ pc' = pc /\ giveups' = giveups
<1>1. CASE KillFires
  BY <1>1 DEF KillFires
<1>2. CASE ~ KillFires
  <2>1. UNCHANGED stackVars
    BY <1>2 DEF StackStep, IngestRuns, WorkerRuns, Restore, Refuse, Accept,
       AnswerKnown, EnqueueServed, AnswerServed
  <2> QED BY <2>1 DEF stackVars
<1> QED BY <1>1, <1>2

(* wait_quiescent is done when the log shows nothing pending. *)
LEMMA QuietEnters ==
  ASSUME RunnerInv, [HNext]_hvars, pc' \in {"balances", "judge"}, quiescent'
  PROVE  /\ UNCHANGED <<cur, sched>>
         /\ \/ pc \in {"balances", "judge"} /\ quiescent
            \/ PollEvents /\ pending_events = 0
<1>1. CASE UNCHANGED hvars \/ SendNext \/ SendAll \/ ReadBalances
  BY <1>1 DEF hvars, runnerVars, SendNext, SendAll, ReadBalances, RunnerInv
<1>2. CASE StackStep
  BY <1>2, StackLeavesRunner DEF runnerVars
<1>3. CASE \E k \in DOMAIN results : GiveUp(k)
  BY <1>3 DEF GiveUp, runnerVars
<1>4. CASE PollEvents
  BY <1>4 DEF PollEvents
<1>5. CASE Deadline
  BY <1>5 DEF Deadline
<1>6. CASE \/ BeginScenario \/ ExecuteDone \/ RestartWorker \/ Redeliver
           \/ Redelivered \/ PollQueue \/ Judge \/ ScenarioRaises
  BY <1>6 DEF BeginScenario, ExecuteDone, RestartWorker, Redeliver, Redelivered, PollQueue,
     Judge, ScenarioRaises
<1> QED BY <1>1, <1>2, <1>3, <1>4, <1>5, <1>6 DEF HNext, RunnerStep

(* Nothing pending: no fixture's row is open. *)
LEMMA NothingPending ==
  ASSUME RunnerInv, cur > 0, pending_events = 0, NEW e \in Ids(sched[cur].fixtures)
  PROVE  row[e] \notin NON_TERMINAL_STATUSES
<1>1. PICK s \in Schedules : s = sched
  BY DEF RunnerInv
<1>2. PICK n \in DOMAIN s : n = cur
  BY <1>1, PlanInHand
<1>3. PICK S, T : S = Ids(s[n].fixtures) /\ T = {f \in S : row[f] \in NON_TERMINAL_STATUSES}
  OBVIOUS
<1>4. IsFiniteSet(S)
  BY <1>3, FixtureIdsAre
<1>5. IsFiniteSet(T)
  BY <1>3, <1>4, FS_Subset
<1>6. Cardinality(T) = 0
  BY <1>1, <1>2, <1>3 DEF pending_events, FixtureIds
<1>7. T = {}
  BY <1>5, <1>6, FS_EmptySet
<1>8. e \in S
  BY <1>1, <1>2, <1>3
<1> QED BY <1>3, <1>7, <1>8

(* What should post has been answered 200, so that it has its row, and it is
   settled: 'processed', for nothing failed and it does move money. *)
LEMMA QuietIsProcessed ==
  ASSUME IInv, RunnerInv, ResultInv, HealthyInv, CalmInv, giveups = 0,
         pc \in Waiting, pending_events = 0, NEW e \in PostedBy(sched, cur)
  PROVE  row[e] = "processed"
<1>0. cur > 0
  BY DEF RunnerInv, Waiting
<1>1. PICK s \in Schedules : s = sched
  BY DEF RunnerInv
<1>2. PICK n \in DOMAIN s : n = cur
  BY <1>0, <1>1, PlanInHand
<1>3. fp.deliveries = DeliveriesOf(s, n) /\ Len(fp.deliveries) \in Nat
      /\ DOMAIN fp.deliveries = 1 .. Len(fp.deliveries)
  BY <1>0, <1>1, <1>2, PlanInHand
<1>4. e \in PlanAt(s, n).expectation.posted
  BY <1>1, <1>2 DEF PostedBy
<1>5. /\ e \in Ids(s[n].fixtures) /\ e \in Events /\ Postable(e)
      /\ \E k \in DOMAIN PlanAt(s, n).deliveries :
           /\ PlanAt(s, n).deliveries[k].event_id = e
           /\ Verdict(PlanAt(s, n).deliveries[k]) = ""
  BY <1>4, ExpectedArePosts
<1>6. PICK k \in DOMAIN fp.deliveries :
        fp.deliveries[k].event_id = e /\ Verdict(fp.deliveries[k]) = ""
  BY <1>3, <1>5 DEF DeliveriesOf
<1>7. AllAnswered /\ Len(results) >= Len(fp.deliveries)
  BY DEF ResultInv
<1>8. DOMAIN results = 1 .. Len(results) /\ Len(results) \in Nat
  BY DEF ResultInv, IsSequence
<1>9. k \in DOMAIN results /\ k <= Len(fp.deliveries)
  BY <1>3, <1>7, <1>8
<1>10. PICK r, d : r = results[k] /\ d = Planned(k)
  OBVIOUS
<1>11. d = fp.deliveries[k]
  BY <1>9, <1>10 DEF Planned
<1>12. IsAnswer(r, d)
  BY <1>0, <1>7, <1>9, <1>10 DEF ResultInv, AllAnswered
<1>13. BlockingRows(e) # {}
  <2>1. d.event_id = e /\ Verdict(d) = ""
    BY <1>6, <1>11
  <2>2. ~ (giveups > 0)
    OBVIOUS
  <2>3. \/ BlockingRows(d.event_id) # {}
        \/ Verdict(d) # ""
    BY <1>12, <2>2 DEF IsAnswer
  <2> QED BY <2>1, <2>3
<1>14. row[e] # NoRow
  BY <1>1, <1>5, <1>13, OwnRow
<1>15. row[e] \notin NON_TERMINAL_STATUSES
  BY <1>0, <1>1, <1>2, <1>5, NothingPending
<1>16. row[e] \in Statuses
  BY <1>5, <1>14 DEF IInv, TypeOK
<1> QED BY <1>5, <1>15, <1>16 DEF Statuses, TerminalStatuses, HealthyInv

(* A processed row stays so. *)
LEMMA ProcessedStays ==
  ASSUME IInv, RunnerInv, RequestInv, StackMove, HealthyInv', NEW e \in Events,
         row[e] = "processed"
  PROVE  row'[e] = "processed"
<1>1. Postable(e)
  BY DEF IInv, LedgerInv
<1>2. row'[e] \in TerminalStatuses
  <2>1. CASE [Next]_vars
    BY <2>1, SettledStep DEF IInv, TerminalStatuses
  <2>2. CASE Crash
    BY <2>2 DEF Crash, TerminalStatuses
  <2> QED BY <2>1, <2>2, MoveIsStep
<1>3. row'[e] # "failed" /\ row'[e] # "no_money_moved"
  BY <1>1 DEF HealthyInv
<1> QED BY <1>2, <1>3 DEF TerminalStatuses

(* A run that went quiet has settled what it should post, after every step. *)
LEMMA QuietHolds ==
  ASSUME IInv, RunnerInv, ResultInv, RequestInv, HealthyInv, CalmInv, QuietInv, StackMove,
         HealthyInv', [HNext]_hvars
  PROVE  QuietInv'
<1> SUFFICES ASSUME giveups' = 0, quiescent', pc' \in {"balances", "judge"}
             PROVE  \A e \in PostedBy(sched', cur') : row'[e] = "processed"
  BY DEF QuietInv
<1>1. giveups = 0
  BY RunNumbers
<1>2. /\ UNCHANGED <<cur, sched>>
      /\ \/ pc \in {"balances", "judge"} /\ quiescent
         \/ PollEvents /\ pending_events = 0
  BY QuietEnters
<1>3. cur > 0
  BY <1>2 DEF PollEvents, RunnerInv
<1>4. \A e \in PostedBy(sched, cur) : row[e] = "processed"
  <2>1. CASE pc \in {"balances", "judge"} /\ quiescent
    BY <1>1, <2>1 DEF QuietInv
  <2>2. CASE PollEvents /\ pending_events = 0
    <3>1. pc \in Waiting
      BY <2>2 DEF PollEvents, Waiting
    <3> QED BY <1>1, <2>2, <3>1, QuietIsProcessed
  <2> QED BY <1>2, <2>1, <2>2
<1>5. PostedBy(sched, cur) \subseteq Events
  <2>1. PICK s \in Schedules : s = sched
    BY DEF RunnerInv
  <2>2. PICK n \in DOMAIN s : n = cur
    BY <1>3, <2>1, PlanInHand
  <2>3. PostedBy(s, n) \subseteq Events
    BY FixtureIdsAre
  <2> QED BY <2>1, <2>2, <2>3
<1>6. \A e \in PostedBy(sched, cur) : row'[e] = "processed"
  BY <1>4, <1>5, ProcessedStays
<1> QED BY <1>2, <1>6

-----------------------------------------------------------------------------
(* The two readings of the ledger. *)

(* Every posted event was admitted by a scenario so far. *)
LEMMA PostedOrigin ==
  ASSUME IInv, RunnerInv, OriginInv, NEW e \in posted
  PROVE  /\ e \in Events /\ Postable(e)
         /\ \E n \in 1 .. cur : n \in DOMAIN sched /\ e \in AdmittedBy(sched, n)
                                /\ e \in CandidateIds(sched, n)
<1>1. e \in Events /\ Postable(e)
  BY DEF IInv, TypeOK, LedgerInv
<1>2. PICK n \in 1 .. cur : e \in AdmittedBy(sched, n)
  BY <1>1 DEF OriginInv, InSystem
<1>3. n \in DOMAIN sched /\ sched \in Schedules
  BY SoFar DEF RunnerInv
<1>4. e \in CandidateIds(sched, n)
  BY <1>2, <1>3, TakenAreCandidates
<1> QED BY <1>1, <1>2, <1>3, <1>4

(* Its transaction has whole amounts and balances. *)
LEMMA PostedBalances ==
  ASSUME IInv, RunnerInv, OriginInv, HealthyInv, NEW e \in posted
  PROVE  /\ \A a \in AccountNames : Effect[e][a] \in Int
         /\ Balances(e)
         /\ TxnOf(e).event = e /\ "event" \in DOMAIN TxnOf(e)
<1>1. PICK s \in Schedules : s = sched
  BY DEF RunnerInv
<1>2. PICK n \in DOMAIN s : e \in CandidateIds(s, n) /\ e \in Events /\ Postable(e)
  BY <1>1, PostedOrigin
<1>3. Acceptable(TxnOf(e))
  BY DEF HealthyInv
<1> QED BY <1>2, <1>3, CandidateBalances

(* So the books balance whenever they are read. *)
LEMMA BooksAreOk ==
  ASSUME IInv, RunnerInv, OriginInv, HealthyInv
  PROVE  ReadLedger(posted).ok
<1>1. IsFiniteSet(posted)
  BY DEF HealthyInv
<1>2. \A e \in posted : Balances(e)
  BY PostedBalances
<1>3. PICK ps : ps = posted
  OBVIOUS
<1>4. ReadLedger(ps).ok
  BY <1>1, <1>2, <1>3, BooksBalance
<1> QED BY <1>3, <1>4

(* And any part of the ledger adds up. *)
LEMMA PostedIsSound ==
  ASSUME IInv, RunnerInv, OriginInv, HealthyInv, NEW ps \in SUBSET posted
  PROVE  Sound(ps)
<1>1. IsFiniteSet(ps)
  BY FS_Subset DEF HealthyInv
<1> QED BY <1>1, PostedBalances DEF Sound

(* What is posted while no run was disturbed is the scenario's own: an earlier
   one is green, so that its keys are taken. *)
LEMMA PostIsOwn ==
  ASSUME IInv, RunnerInv, OriginInv, CalmInv, FiledInv, GreenPosted, GreenWhenCorrect,
         pc # "next", Undisturbed(cur - 1), NEW w \in Workers, Post(w)
  PROVE  wrk[w].ev \in PostedBy(sched, cur)
<1>1. PICK e \in Events : e = wrk[w].ev /\ InSystem(e)
  BY TaskInSystem DEF Post
<1>2. Postable(e) /\ ~ KeyIn(posted, e)
  BY <1>1 DEF Post, IInv, LedgerInv
<1>3. PICK n \in 1 .. cur : e \in AdmittedBy(sched, n)
  BY <1>1 DEF OriginInv
<1>4. PICK s \in Schedules : s = sched
  BY DEF RunnerInv
<1>5. n \in DOMAIN s /\ cur \in Nat
  BY <1>4, SoFar
<1>6. /\ \E o \in PlanAt(s, n).expectation.posted : Conflict(TxnOf(o), TxnOf(e))
      /\ e \in Ids(s[n].fixtures) => e \in PlanAt(s, n).expectation.posted
  BY <1>2, <1>3, <1>4, <1>5, TakenIsExpected
<1>7. CASE n = cur
  <2>1. PICK m \in 1 .. cur : e \in Ids(s[m].fixtures)
    BY <1>1, <1>4 DEF Undisturbed, CalmInv, IsOriginal
  <2>2. m \in DOMAIN s
    BY <1>4, SoFar
  <2>3. e \in CandidateIds(s, m) /\ e \in CandidateIds(s, n)
    BY <1>3, <1>4, <1>5, <2>1, TakenAreCandidates DEF CandidateIds
  <2>4. m = n
    BY <1>5, <2>2, <2>3, FreshKeys, SameKeyReflexive
  <2> QED BY <1>1, <1>4, <1>6, <1>7, <2>1, <2>4 DEF PostedBy
<1>8. CASE n # cur
  <2>1. Len(records) = cur - 1 /\ DOMAIN records = 1 .. Len(records)
    BY DEF RunnerInv, IsSequence
  <2>2. n \in DOMAIN records /\ n <= cur - 1
    BY <1>5, <1>8, <2>1
  <2>3. Undisturbed(n)
    BY <1>5, <2>2 DEF Undisturbed
  <2>4. records[n].breaks = {} /\ ~ records[n].crashed
    BY <1>5, <2>2, <2>3 DEF GreenWhenCorrect, FiledInv, Undisturbed
  <2>6. posted \cap CandidateIds(sched, n) = PostedBy(sched, n)
    BY <2>2, <2>4 DEF GreenPosted
  <2>5. KeyIn(posted, e)
    BY <1>4, <1>6, <2>6 DEF PostedBy, KeyIn
  <2> QED BY <1>2, <2>5
<1> QED BY <1>7, <1>8

(* A quiet, undisturbed run has posted everything it should. *)
LEMMA QuietIsPosted ==
  ASSUME IInv, RunnerInv, OriginInv, CalmInv, QuietInv, giveups = 0, quiescent,
         pc \in {"balances", "judge"}
  PROVE  PostedBy(sched, cur) \subseteq posted
<1> SUFFICES ASSUME NEW e \in PostedBy(sched, cur) PROVE e \in posted
  OBVIOUS
<1>1. PICK s \in Schedules : s = sched
  BY DEF RunnerInv
<1>2. PICK n \in DOMAIN s : n = cur
  BY <1>1, PlanInHand DEF RunnerInv
<1>3. row[e] = "processed"
  BY DEF QuietInv
<1>4. e \in Ids(s[n].fixtures) /\ e \in Events
  BY <1>1, <1>2, FixtureIdsAre
<1>5. Postable(e)
  BY <1>3, <1>4 DEF IInv, LedgerInv
<1>6. PICK p \in posted : Conflict(TxnOf(p), TxnOf(e))
  BY <1>3, <1>4 DEF IInv, LedgerInv, KeyIn
<1>7. p \in Events /\ Postable(p)
  BY PostedOrigin
<1>8. PICK m \in 1 .. cur : p \in Ids(sched[m].fixtures)
  BY <1>7 DEF CalmInv, InSystem, IsOriginal
<1>9. m \in DOMAIN s /\ p \in Ids(s[m].fixtures)
  BY <1>1, <1>8, SoFar
<1>10. p \in CandidateIds(s, m) /\ e \in CandidateIds(s, n)
  BY <1>4, <1>9 DEF CandidateIds
<1>11. m = n /\ (p \in Ids(s[m].fixtures) /\ e \in Ids(s[m].fixtures) => p = e)
  BY <1>5, <1>6, <1>7, <1>9, <1>10, FreshTxns
<1> QED BY <1>4, <1>9, <1>11

(* Then the difference of the two readings is what the plan expects. *)
LEMMA DiffIsExpected ==
  ASSUME IInv, RunnerInv, OriginInv, HealthyInv, cur > 0,
         PostedBy(sched, cur) \subseteq posted, NEW base, base \subseteq posted,
         posted \ base \subseteq PostedBy(sched, cur), base \cap PostedBy(sched, cur) = {}
  PROVE  _diff(DeltaOf(base), DeltaOf(posted)) = fp.expectation.balances_delta
<1>1. PICK s \in Schedules : s = sched
  BY DEF RunnerInv
<1>2. PICK n \in DOMAIN s : n = cur
  BY <1>1, PlanInHand
<1>3. PICK T, V : T = PostedBy(s, n) /\ V = posted
  OBVIOUS
<1>4. V = base \cup T /\ base \cap T = {}
  BY <1>1, <1>2, <1>3
<1>5. Sound(base) /\ Sound(T)
  BY <1>1, <1>2, <1>3, PostedIsSound
<1>6. ASSUME NEW a \in AccountNames
      PROVE  /\ DeltaOf(V)[a] = DeltaOf(base)[a] + DeltaOf(T)[a]
             /\ DeltaOf(base)[a] \in Int /\ DeltaOf(T)[a] \in Int
  BY <1>4, <1>5, DeltaUnion
<1>7. PICK x, y, z : x = DeltaOf(base) /\ y = DeltaOf(V) /\ z = DeltaOf(T)
  OBVIOUS
<1>8. \A a \in AccountNames : y[a] - x[a] = z[a]
  BY <1>6, <1>7
<1>9. z = [a \in AccountNames |-> z[a]]
  BY <1>7 DEF DeltaOf
<1>10. _diff(x, y) = z
  BY <1>8, <1>9 DEF _diff
<1>11. fp.expectation.balances_delta = z
  BY <1>1, <1>2, <1>3, <1>7, ExpectedDelta, PlanInHand
<1> QED BY <1>3, <1>7, <1>10, <1>11

(* While the scenario lasts, the ledger grows by what is its own. *)
LEMMA OpenBooksKept ==
  ASSUME RunnerInv, UNCHANGED <<sched, cur, before, records>>, giveups' = 0 => giveups = 0,
         pc # "next", posted \subseteq posted',
         Undisturbed(cur - 1) => posted' \ posted \subseteq PostedBy(sched, cur),
         NEW base, OpenBooks(base)
  PROVE  OpenBooks(base)'
<1>1. Undisturbed(cur - 1)' => Undisturbed(cur - 1)
  BY DEF Undisturbed
<1>2. base \subseteq posted' /\ before'.balances = DeltaOf(base)
  BY DEF OpenBooks
<1>3. ASSUME Undisturbed(cur - 1)
      PROVE  posted' \ base \subseteq PostedBy(sched, cur) /\ base \cap PostedBy(sched, cur) = {}
  BY <1>3 DEF OpenBooks
<1>4. Undisturbed(cur - 1)' =>
        posted' \ base \subseteq PostedBy(sched', cur') /\ base \cap PostedBy(sched', cur') = {}
  BY <1>1, <1>3
<1> QED BY <1>2, <1>4 DEF OpenBooks

(* The same of a whole step. *)
LEMMA BooksKept ==
  ASSUME RunnerInv, BooksInv, UNCHANGED <<sched, cur, fp, before, after, records>>,
         giveups' = 0 => giveups = 0, pc' # "next" => pc # "next",
         pc' = "judge" => pc = "judge" /\ quiescent' = quiescent, posted \subseteq posted',
         pc # "next" /\ Undisturbed(cur - 1) => posted' \ posted \subseteq PostedBy(sched, cur)
  PROVE  BooksInv'
<1>1. ASSUME pc' # "next" PROVE \E base : OpenBooks(base)'
  <2>1. PICK base : OpenBooks(base)
    BY <1>1 DEF BooksInv
  <2> QED BY <1>1, <2>1, OpenBooksKept
<1>2. ASSUME pc' = "judge" PROVE ClosedBooks'
  <2>1. Undisturbed(cur - 1)' => Undisturbed(cur - 1)
    BY DEF Undisturbed
  <2>2. ClosedBooks
    BY <1>2 DEF BooksInv
  <2>3. after'.ok
    BY <2>2 DEF ClosedBooks
  <2>4. quiescent' /\ Undisturbed(cur - 1)' =>
          _diff(before'.balances, after'.balances) = fp'.expectation.balances_delta
    BY <1>2, <2>1, <2>2 DEF ClosedBooks
  <2> QED BY <2>3, <2>4 DEF ClosedBooks
<1> QED BY <1>1, <1>2 DEF BooksInv

(* The first reading. *)
LEMMA BooksOpen ==
  ASSUME IInv, RunnerInv, OriginInv, BeginScenario
  PROVE  BooksInv'
<1>1. /\ cur' = cur + 1 /\ pc' = "send" /\ before' = ReadLedger(posted)
      /\ posted' = posted /\ sched' = sched /\ cur < Len(sched)
  BY DEF BeginScenario, vars
<1>2. PICK s \in Schedules : s = sched
  BY DEF RunnerInv
<1>3. PICK n \in DOMAIN s : n = cur + 1 /\ cur \in Nat
  BY <1>1, <1>2, SoFar
<1>4. posted \cap PostedBy(s, n) = {}
  <2> SUFFICES ASSUME NEW e \in posted, e \in PostedBy(s, n) PROVE FALSE
    OBVIOUS
  <2>1. PICK m \in 1 .. cur : m \in DOMAIN s /\ e \in CandidateIds(s, m)
    BY <1>2, PostedOrigin
  <2>2. e \in Ids(s[n].fixtures)
    BY FixtureIdsAre
  <2>3. e \in CandidateIds(s, n)
    BY <2>2 DEF CandidateIds
  <2>4. m = n
    BY <2>1, <2>3, FreshKeys, SameKeyReflexive
  <2> QED BY <1>3, <2>1, <2>4
<1>5. PICK base : base = posted
  OBVIOUS
<1>6. before'.balances = DeltaOf(base)
  BY <1>1, <1>5 DEF ReadLedger
<1>7. posted' \ base = {} /\ base \cap PostedBy(sched', cur') = {} /\ base \subseteq posted'
  BY <1>1, <1>2, <1>3, <1>4, <1>5
<1>8. OpenBooks(base)'
  BY <1>6, <1>7 DEF OpenBooks
<1> QED BY <1>1, <1>8 DEF BooksInv

(* The second. *)
LEMMA BooksClose ==
  ASSUME IInv, RunnerInv, OriginInv, HealthyInv, CalmInv, QuietInv, BooksInv, ReadBalances
  PROVE  BooksInv'
<1>1. /\ pc = "balances" /\ after' = ReadLedger(posted) /\ pc' = "judge"
      /\ UNCHANGED <<posted, sched, cur, fp, before, quiescent, records, giveups>>
  BY DEF ReadBalances, vars
<1>2. PICK base : OpenBooks(base)
  BY <1>1 DEF BooksInv
<1>3. OpenBooks(base)'
  BY <1>1, <1>2, OpenBooksKept
<1>4. after'.ok
  BY <1>1, BooksAreOk
<1>5. Undisturbed(cur - 1)' => Undisturbed(cur - 1)
  BY <1>1 DEF Undisturbed
<1>6. ASSUME quiescent, Undisturbed(cur - 1)
      PROVE  _diff(before.balances, after'.balances) = fp.expectation.balances_delta
  <2>1. PostedBy(sched, cur) \subseteq posted
    BY <1>1, <1>6, QuietIsPosted DEF Undisturbed
  <2>2. /\ base \subseteq posted /\ before.balances = DeltaOf(base)
        /\ posted \ base \subseteq PostedBy(sched, cur) /\ base \cap PostedBy(sched, cur) = {}
    BY <1>2, <1>6 DEF OpenBooks
  <2>3. cur > 0
    BY <1>1 DEF RunnerInv
  <2>4. _diff(DeltaOf(base), DeltaOf(posted)) = fp.expectation.balances_delta
    BY <2>1, <2>2, <2>3, DiffIsExpected
  <2>5. after'.balances = DeltaOf(posted)
    BY <1>1 DEF ReadLedger
  <2> QED BY <2>2, <2>4, <2>5
<1>7. quiescent' /\ Undisturbed(cur - 1)' =>
        _diff(before'.balances, after'.balances) = fp'.expectation.balances_delta
  BY <1>1, <1>5, <1>6
<1>8. ClosedBooks'
  BY <1>4, <1>7 DEF ClosedBooks
<1> QED BY <1>1, <1>3, <1>8 DEF BooksInv

(* What a step of the stack does to the ledger. *)
LEMMA LedgerGrows ==
  ASSUME StackMove
  PROVE  \/ posted' = posted
         \/ \E w \in Workers : Post(w) /\ posted' = posted \cup {wrk[w].ev}
BY DEF StackMove, vars, Crash, RecordNew, RecoverDuplicate, AnswerDuplicate, Enqueue, MarkQueued,
   Fetch, NothingToPost, Build, Post, PostDuplicate, MarkStatus, Ack, RestoreOrphan

(* The readings are about the scenario, after every step. *)
LEMMA BooksHolds ==
  ASSUME IInv, RunnerInv, OriginInv, HealthyInv, CalmInv, QuietInv, BooksInv, FiledInv,
         GreenPosted, GreenWhenCorrect, StackMove, [HNext]_hvars
  PROVE  BooksInv'
<1>1. giveups' = 0 => giveups = 0
  BY RunNumbers
<1>2. CASE BeginScenario
  BY <1>2, BooksOpen
<1>3. CASE ReadBalances
  BY <1>3, BooksClose
<1>4. CASE Judge \/ ScenarioRaises
  <2>1. pc' = "next"
    BY <1>4 DEF Judge, ScenarioRaises
  <2> QED BY <2>1 DEF BooksInv
<1>5. CASE ~ BeginScenario /\ ~ ReadBalances /\ ~ Judge /\ ~ ScenarioRaises
  <2>1. /\ UNCHANGED <<sched, cur, fp, before, after, records>>
        /\ pc' # "next" => pc # "next"
        /\ pc' = "judge" => pc = "judge" /\ quiescent' = quiescent
    <3>1. CASE UNCHANGED hvars
      BY <3>1 DEF hvars, runnerVars
    <3>2. CASE RunnerStep
      BY <1>5, <3>2 DEF RunnerStep, SendNext, SendAll, ExecuteDone, RestartWorker,
         Redeliver, Redelivered, PollQueue, PollEvents, runnerVars
    <3>3. CASE StackStep
      BY <3>3, StackLeavesRunner DEF runnerVars
    <3>4. CASE Deadline \/ \E k \in DOMAIN results : GiveUp(k)
      BY <3>4 DEF Deadline, GiveUp, runnerVars
    <3> QED BY <1>5, <3>1, <3>2, <3>3, <3>4 DEF HNext
  <2>2. posted \subseteq posted'
    BY LedgerGrows
  <2>3. ASSUME pc # "next", Undisturbed(cur - 1)
        PROVE  posted' \ posted \subseteq PostedBy(sched, cur)
    BY <2>3, LedgerGrows, PostIsOwn
  <2> QED BY <1>1, <2>1, <2>2, <2>3, BooksKept
<1> QED BY <1>2, <1>3, <1>4, <1>5

-----------------------------------------------------------------------------
(* The verdicts. *)

(* What _judge files. *)
Filed ==
  [fault      |-> fp.fault,
   crashed    |-> FALSE,
   expected   |-> fp.expectation,
   candidates |-> Candidates,
   deliveries |-> _delivery_records,
   quiescent  |-> quiescent,
   breaks     |-> detect_breaks(fp.expectation, Observation)]

(* Records are only added, by Judge or for a crash. *)
LEMMA RecordsGrow ==
  ASSUME [HNext]_hvars
  PROVE  records' = records \/ Judge \/ ScenarioRaises
<1>1. CASE UNCHANGED hvars
  BY <1>1 DEF hvars, runnerVars
<1>2. CASE RunnerStep
  BY <1>2 DEF RunnerStep, BeginScenario, SendNext, SendAll, ExecuteDone, RestartWorker,
     Redeliver, Redelivered, PollQueue, PollEvents, ReadBalances, runnerVars
<1>3. CASE StackStep
  BY <1>3, StackLeavesRunner DEF runnerVars
<1>4. CASE Deadline \/ \E k \in DOMAIN results : GiveUp(k)
  BY <1>4 DEF Deadline, GiveUp, runnerVars
<1> QED BY <1>1, <1>2, <1>3, <1>4 DEF HNext

(* Judge adds one, for the scenario in hand, and changes nothing else that the
   verdicts speak of: the books balance, so that nothing is reset. *)
LEMMA JudgeFiles ==
  ASSUME RunnerInv, BooksInv, Judge
  PROVE  /\ UNCHANGED <<sched, cur, posted, giveups>> /\ cur \in Nat /\ cur > 0 /\ pc = "judge"
         /\ DOMAIN records = 1 .. cur - 1 /\ DOMAIN records' = 1 .. cur
         /\ \A n \in 1 .. cur - 1 : records'[n] = records[n]
         /\ records'[cur] = Filed
<1>1. /\ records' = Append(records, Filed) /\ pc = "judge"
      /\ UNCHANGED <<sched, cur, giveups>> /\ ResetIfBroken
  BY DEF Judge, Filed
<1>2. after.ok
  BY <1>1 DEF BooksInv, ClosedBooks
<1>3. posted' = posted
  BY <1>1, <1>2 DEF ResetIfBroken
<1>4. cur \in Nat /\ cur > 0 /\ Len(records) = cur - 1 /\ IsSequence(records)
  BY <1>1, SoFar DEF RunnerInv
<1>5. PICK s, t, x : s = records /\ t = records' /\ x = Filed
  OBVIOUS
<1>6. Extends(t, s, x)
  BY <1>1, <1>4, <1>5, AppendSeq
<1>7. /\ DOMAIN s = 1 .. cur - 1 /\ DOMAIN t = 1 .. cur
      /\ \A n \in 1 .. cur - 1 : t[n] = s[n]
      /\ t[cur] = x
  BY <1>4, <1>5, <1>6 DEF Extends
<1> QED BY <1>1, <1>3, <1>4, <1>5, <1>7

(* So does a crash. *)
LEMMA CrashFiles ==
  ASSUME RunnerInv, ScenarioRaises
  PROVE  /\ UNCHANGED <<sched, cur, posted, giveups>> /\ cur \in Nat /\ cur > 0
         /\ DOMAIN records = 1 .. cur - 1 /\ DOMAIN records' = 1 .. cur
         /\ \A n \in 1 .. cur - 1 : records'[n] = records[n]
         /\ /\ records'[cur].crashed /\ ~ records'[cur].quiescent
            /\ records'[cur].deliveries = <<>>
<1>1. /\ records' = Append(records, _failure_record) /\ pc # "next"
      /\ UNCHANGED <<sched, cur, posted, giveups>>
  BY DEF ScenarioRaises
<1>2. cur \in Nat /\ cur > 0 /\ Len(records) = cur - 1 /\ IsSequence(records)
  BY <1>1, SoFar DEF RunnerInv
<1>3. PICK s, t, x : s = records /\ t = records' /\ x = _failure_record
  OBVIOUS
<1>4. Extends(t, s, x)
  BY <1>1, <1>2, <1>3, AppendSeq
<1>5. /\ DOMAIN s = 1 .. cur - 1 /\ DOMAIN t = 1 .. cur
      /\ \A n \in 1 .. cur - 1 : t[n] = s[n]
      /\ t[cur] = x
  BY <1>2, <1>3, <1>4 DEF Extends
<1>6. x.crashed /\ ~ x.quiescent /\ x.deliveries = <<>>
  BY <1>3 DEF _failure_record
<1> QED BY <1>1, <1>2, <1>3, <1>5, <1>6

(* The scenario in hand has no other candidates than its plan. *)
LEMMA CandidatesAre ==
  ASSUME RunnerInv, cur > 0
  PROVE  Candidates = CandidateIds(sched, cur)
<1>1. fp = PlanAt(sched, cur)
  BY PlanInHand
<1> QED BY <1>1 DEF Candidates, CandidateIds, FixtureIds

(* One record, of scenario n of s. *)
IsFiled(rec, s, n) ==
  /\ rec.crashed => ~ rec.quiescent
  /\ ~ rec.crashed => /\ rec.expected = PlanAt(s, n).expectation
                      /\ rec.candidates = CandidateIds(s, n)

(* What is filed is about the scenario, after every step. *)
LEMMA FiledHolds ==
  ASSUME RunnerInv, BooksInv, FiledInv, [HNext]_hvars
  PROVE  FiledInv'
<1>1. sched' = sched
  BY RunGoesOn
<1>2. CASE records' = records
  BY <1>1, <1>2 DEF FiledInv
<1>3. CASE Judge
  <2>1. /\ cur \in Nat /\ cur > 0
        /\ DOMAIN records = 1 .. cur - 1 /\ DOMAIN records' = 1 .. cur
        /\ \A n \in 1 .. cur - 1 : records'[n] = records[n]
        /\ records'[cur] = Filed
    BY <1>3, JudgeFiles
  <2>2. ASSUME NEW n \in DOMAIN records', n # cur
        PROVE  IsFiled(records'[n], sched, n)
    BY <2>1, <2>2 DEF FiledInv, IsFiled
  <2>3. IsFiled(Filed, sched, cur)
    <3>1. fp = PlanAt(sched, cur)
      BY <2>1, PlanInHand
    <3>2. /\ Filed.expected = PlanAt(sched, cur).expectation
          /\ Filed.candidates = CandidateIds(sched, cur)
          /\ ~ Filed.crashed
      BY <2>1, <3>1, CandidatesAre DEF Filed
    <3> QED BY <3>2 DEF IsFiled
  <2>4. \A n \in DOMAIN records' : IsFiled(records'[n], sched, n)
    BY <2>1, <2>2, <2>3
  <2> QED BY <1>1, <2>4 DEF FiledInv, IsFiled
<1>4. CASE ScenarioRaises
  <2>1. /\ DOMAIN records = 1 .. cur - 1 /\ DOMAIN records' = 1 .. cur /\ cur \in Nat
        /\ \A n \in 1 .. cur - 1 : records'[n] = records[n]
        /\ records'[cur].crashed /\ ~ records'[cur].quiescent
    BY <1>4, CrashFiles
  <2>2. ASSUME NEW n \in DOMAIN records' PROVE IsFiled(records'[n], sched, n)
    <3>1. CASE n = cur
      BY <2>1, <3>1 DEF IsFiled
    <3>2. CASE n # cur
      BY <2>1, <2>2, <3>2 DEF FiledInv, IsFiled
    <3> QED BY <3>1, <3>2
  <2> QED BY <1>1, <2>2 DEF FiledInv, IsFiled
<1> QED BY <1>2, <1>3, <1>4, RecordsGrow

-----------------------------------------------------------------------------
(* The evidence. *)

(* The evidence on one delivery, of what was sent and what came back. *)
Evidence(r, d, forced) ==
  [status      |-> r.status,
   upstream    |-> IF forced THEN 500 ELSE r.status,
   schemes     |-> {s \in {"v1", "v0"} : d.sig[s] # {}},
   parses      |-> d.body.form # "truncated",
   age         |-> Now + d.delay_before_s - d.sig.t[1]]

(* Read as the triage agent does, it is Reading's answer. *)
LEMMA DiagnosisIs ==
  ASSUME NEW r, NEW d, r.status # 500
  PROVE  /\ Diagnosis(Evidence(r, d, TRUE)) = {"RESPOND_500"}
         /\ Diagnosis(Evidence(r, d, FALSE)) = Reading(d)
         /\ Evidence(r, d, FALSE).upstream = r.status
         /\ Evidence(r, d, TRUE).status = r.status /\ Evidence(r, d, FALSE).status = r.status
<1>1. Diagnosis(Evidence(r, d, TRUE)) = {"RESPOND_500"}
  BY DEF Diagnosis, Evidence
<1>2. PICK x : x = Evidence(r, d, FALSE)
  OBVIOUS
<1>3. /\ x.status = r.status /\ x.upstream = r.status
      /\ x.schemes = {s \in {"v1", "v0"} : d.sig[s] # {}}
      /\ x.parses <=> d.body.form # "truncated"
      /\ x.age = Now + d.delay_before_s - d.sig.t[1]
  BY <1>2 DEF Evidence
<1>4. "v1" \in x.schemes <=> d.sig.v1 # {}
  BY <1>3
<1>5. Diagnosis(x) = Reading(d)
  BY <1>3, <1>4 DEF Diagnosis, Reading
<1>6. Evidence(r, d, TRUE).status = r.status
  BY DEF Evidence
<1> QED BY <1>1, <1>2, <1>3, <1>5, <1>6

(* What the record of delivery k shows names the fault, if it shows a refusal
   or the 500 Stripe was told. *)
Shows(d, fault) == d.status = 400 \/ d.upstream = 500 => fault \in Diagnosis(d)

(* An answer and the plan behind it. *)
LEMMA AnswerShows ==
  ASSUME NEW r, NEW d, NEW P, NEW fault, IsAnswer(r, d), FitsPlan(P, d, fault)
  PROVE  /\ Shows(Evidence(r, d, FALSE), fault)
         /\ fault = "RESPOND_500" => Shows(Evidence(r, d, TRUE), fault)
<1>1. r.status # 500 /\ (r.status = 400 => Verdict(d) # "")
  <2>1. PICK st, v : st = r.status /\ v = Verdict(d)
    OBVIOUS
  <2>2. st = NULL \/ st = 200 \/ (st = 400 /\ v # "")
    BY <2>1 DEF IsAnswer
  <2>3. NULL # 500 /\ NULL # 400
    BY NullAssumption
  <2>4. st # 500 /\ (st = 400 => v # "")
    <3>1. CASE st = NULL
      BY <2>3, <3>1
    <3>2. CASE st = 200
      BY <3>2
    <3>3. CASE st = 400 /\ v # ""
      <4>1. st = 400
        BY <3>3
      <4>2. st # 500
        BY ONLY <4>1
      <4> QED BY <3>3, <4>2, Zenon
    <3> QED BY <2>2, <3>1, <3>2, <3>3
  <2> QED BY <2>1, <2>4
<1>2. ASSUME fault = "RESPOND_500" PROVE Shows(Evidence(r, d, TRUE), fault)
  <2>1. PICK x : x = Evidence(r, d, TRUE)
    OBVIOUS
  <2>2. fault \in Diagnosis(x)
    <3>1. r.status # 500
      BY <1>1
    <3>2. Diagnosis(x) = {"RESPOND_500"}
      BY <2>1, <3>1, DiagnosisIs, ZenonT(40)
    <3> QED BY <1>2, <3>2, Zenon
  <2>3. Shows(x, fault)
    BY <2>2 DEF Shows
  <2> QED BY <2>1, <2>3
<1>3. PICK x : x = Evidence(r, d, FALSE)
  OBVIOUS
<1>4. Diagnosis(x) = Reading(d) /\ x.upstream = r.status /\ x.status = r.status
  BY <1>1, <1>3, DiagnosisIs, ZenonT(40)
<1>5. r.status = 400 => fault \in Reading(d)
  BY <1>1 DEF FitsPlan
<1>6. Shows(x, fault)
  <2>1. x.status = 400 \/ x.upstream = 500 => r.status = 400
    BY <1>1, <1>4
  <2>2. Diagnosis(x) = Reading(d)
    BY <1>4
  <2> QED BY <1>5, <2>1, <2>2, Zenon DEF Shows
<1> QED BY <1>2, <1>3, <1>6

(* The results of the scenario in hand, when all are in. *)
LEMMA AnswerInHand ==
  ASSUME RunnerInv, ResultInv, pc \in Waiting, NEW k \in DOMAIN results
  PROVE  /\ IsAnswer(results[k], Planned(k))
         /\ \E j \in DOMAIN fp.deliveries :
              Planned(k) = fp.deliveries[j] /\ (k <= Len(fp.deliveries) => j = k)
<1>1. cur > 0
  BY DEF RunnerInv, Waiting
<1>2. AllAnswered
  BY DEF ResultInv
<1>3. IsAnswer(results[k], Planned(k))
  BY <1>1, <1>2 DEF ResultInv, AllAnswered
<1>4. DOMAIN results = 1 .. Len(results) /\ Len(results) \in Nat
  BY DEF ResultInv, IsSequence
<1>5. Len(results) <= Len(fp.deliveries) \/ fp.kills
  BY <1>1 DEF ResultInv
<1>6. Len(fp.deliveries) \in Nat
  BY <1>1, PlanInHand
<1>7. k \in Nat \ {0} /\ (k <= Len(fp.deliveries) \/ fp.kills)
  BY <1>4, <1>5, <1>6
<1> QED BY <1>1, <1>3, <1>7, PlannedIs

(* And what the plan says of each. *)
LEMMA PlanFits ==
  ASSUME RunnerInv, cur > 0, NEW j \in DOMAIN fp.deliveries
  PROVE  FitsPlan(fp, fp.deliveries[j], sched[cur].fault)
<1>1. PICK s \in Schedules : s = sched
  BY DEF RunnerInv
<1>2. PICK n \in DOMAIN s : n = cur
  BY <1>1, PlanInHand
<1>3. fp = PlanAt(s, n) /\ fp.deliveries = DeliveriesOf(s, n)
  BY <1>1, <1>2, PlanInHand
<1>4. PICK d : d = fp.deliveries[j]
  OBVIOUS
<1>5. FitsPlan(PlanAt(s, n), d, s[n].fault)
  BY <1>3, <1>4, DeliveryRefused
<1> QED BY <1>1, <1>2, <1>3, <1>4, <1>5

(* The evidence names the fault, after every step. *)
LEMMA EvidenceHolds ==
  ASSUME RunnerInv, ResultInv, BooksInv, EvidenceNamesFault, [HNext]_hvars
  PROVE  EvidenceNamesFault'
<1>1. CASE records' = records
  BY <1>1 DEF EvidenceNamesFault
<1>2. CASE Judge
  <2>1. /\ cur \in Nat /\ cur > 0 /\ pc = "judge"
        /\ DOMAIN records = 1 .. cur - 1 /\ DOMAIN records' = 1 .. cur
        /\ \A n \in 1 .. cur - 1 : records'[n] = records[n]
        /\ records'[cur] = Filed
    BY <1>2, JudgeFiles
  <2>2. ASSUME NEW n \in DOMAIN records', n # cur, NEW k \in DOMAIN records'[n].deliveries
        PROVE  Shows(records'[n].deliveries[k], records'[n].fault)
    BY <2>1, <2>2 DEF EvidenceNamesFault, Shows
  <2>3. fp.fault = sched[cur].fault
    BY <2>1, PlanInHand DEF GoodPlan
  <2>4. ASSUME NEW k \in DOMAIN results
        PROVE  Shows(_delivery_records[k], fp.fault)
    <3>1. PICK r, d : r = results[k] /\ d = Planned(k)
      OBVIOUS
    <3>2. pc \in Waiting
      BY <2>1 DEF Waiting
    <3>3. IsAnswer(r, d) /\ \E j \in DOMAIN fp.deliveries : d = fp.deliveries[j]
      BY <2>4, <3>1, <3>2, AnswerInHand
    <3>4. FitsPlan(fp, d, fp.fault)
      BY <2>1, <2>3, <3>3, PlanFits
    <3>5. CASE fp.force_500 /\ k = 1
      <4>1. fp.fault = "RESPOND_500"
        BY <3>4, <3>5 DEF FitsPlan
      <4>2. _delivery_records[k] = Evidence(r, d, TRUE)
        BY <2>4, <3>1, <3>5 DEF _delivery_records, Evidence
      <4>3. Shows(Evidence(r, d, TRUE), fp.fault)
        BY <3>3, <3>4, <4>1, AnswerShows
      <4> QED BY <4>2, <4>3
    <3>6. CASE ~ (fp.force_500 /\ k = 1)
      <4>1. _delivery_records[k] = Evidence(r, d, FALSE)
        BY <2>4, <3>1, <3>6 DEF _delivery_records, Evidence
      <4>2. Shows(Evidence(r, d, FALSE), fp.fault)
        BY <3>3, <3>4, AnswerShows
      <4> QED BY <4>1, <4>2
    <3> QED BY <3>5, <3>6
  <2>5. DOMAIN Filed.deliveries = DOMAIN results /\ Filed.deliveries = _delivery_records
        /\ Filed.fault = fp.fault
    BY DEF Filed, _delivery_records
  <2>6. ASSUME NEW n \in DOMAIN records', NEW k \in DOMAIN records'[n].deliveries
        PROVE  Shows(records'[n].deliveries[k], records'[n].fault)
    <3>1. CASE n = cur
      BY <2>1, <2>4, <2>5, <2>6, <3>1
    <3> QED BY <2>2, <2>6, <3>1
  <2> QED BY <2>6 DEF EvidenceNamesFault, Shows
<1>3. CASE ScenarioRaises
  <2>1. /\ DOMAIN records = 1 .. cur - 1 /\ DOMAIN records' = 1 .. cur /\ cur \in Nat
        /\ \A n \in 1 .. cur - 1 : records'[n] = records[n]
        /\ records'[cur].deliveries = <<>>
    BY <1>3, CrashFiles
  <2>2. ASSUME NEW n \in DOMAIN records', NEW k \in DOMAIN records'[n].deliveries
        PROVE  Shows(records'[n].deliveries[k], records'[n].fault)
    <3>1. CASE n = cur
      BY <2>1, <2>2, <3>1
    <3>2. CASE n # cur
      BY <2>1, <2>2, <3>2 DEF EvidenceNamesFault, Shows
    <3> QED BY <3>1, <3>2
  <2> QED BY <2>2 DEF EvidenceNamesFault, Shows
<1> QED BY <1>1, <1>2, <1>3, RecordsGrow

-----------------------------------------------------------------------------
(* No false green. *)

(* A posted event of a scenario was admitted by it. *)
LEMMA AdmittedByOwn ==
  ASSUME IInv, RunnerInv, OriginInv, NEW n \in DOMAIN sched, NEW e \in Events, InSystem(e),
         e \in CandidateIds(sched, n)
  PROVE  e \in AdmittedBy(sched, n)
<1>1. PICK s \in Schedules : s = sched
  BY DEF RunnerInv
<1>2. PICK m \in 1 .. cur : e \in AdmittedBy(s, m)
  BY <1>1 DEF OriginInv
<1>3. m \in DOMAIN s
  BY <1>1, SoFar
<1>4. e \in CandidateIds(s, m) /\ e \in CandidateIds(s, n) /\ n \in DOMAIN s
  BY <1>1, <1>2, <1>3, TakenAreCandidates
<1>5. m = n
  BY <1>3, <1>4, FreshKeys, SameKeyReflexive
<1> QED BY <1>1, <1>2, <1>5

(* Nothing of a green scenario is posted later. *)
LEMMA GreenStays ==
  ASSUME IInv, RunnerInv, OriginInv, NEW n \in DOMAIN sched, NEW w \in Workers, Post(w),
         posted \cap CandidateIds(sched, n) = PostedBy(sched, n)
  PROVE  wrk[w].ev \notin CandidateIds(sched, n)
<1> SUFFICES ASSUME wrk[w].ev \in CandidateIds(sched, n) PROVE FALSE
  OBVIOUS
<1>1. PICK e \in Events : e = wrk[w].ev /\ InSystem(e)
  BY TaskInSystem DEF Post
<1>2. Postable(e) /\ ~ KeyIn(posted, e)
  BY <1>1 DEF Post, IInv, LedgerInv
<1>3. e \in AdmittedBy(sched, n)
  BY <1>1, AdmittedByOwn
<1>4. PICK s \in Schedules : s = sched
  BY DEF RunnerInv
<1>5. PICK o \in PostedBy(s, n) : Conflict(TxnOf(o), TxnOf(e))
  BY <1>2, <1>3, <1>4, TakenIsExpected DEF PostedBy
<1> QED BY <1>2, <1>4, <1>5 DEF KeyIn

(* No break among LOST_EVENT and DOUBLE_POST. *)
LEMMA NoneLostOrDoubled ==
  ASSUME NEW exp, NEW obs, detect_breaks(exp, obs) = {}
  PROVE  exp.posted \subseteq obs.posted /\ ~ (obs.transactions > Cardinality(exp.posted))
<1>1. "LOST_EVENT" \notin detect_breaks(exp, obs) /\ "DOUBLE_POST" \notin detect_breaks(exp, obs)
  OBVIOUS
<1> QED BY <1>1 DEF detect_breaks

(* A scenario on file as green has exactly its expected events posted, after
   every step. *)
LEMMA GreenPostedHolds ==
  ASSUME IInv, RunnerInv, OriginInv, HealthyInv, BooksInv, GreenPosted, StackMove,
         [HNext]_hvars
  PROVE  GreenPosted'
<1>1. sched' = sched
  BY RunGoesOn
<1>2. CASE records' = records
  <2>1. ASSUME NEW n \in DOMAIN records, records[n].breaks = {}, ~ records[n].crashed
        PROVE  posted' \cap CandidateIds(sched, n) = PostedBy(sched, n)
    <3>1. posted \cap CandidateIds(sched, n) = PostedBy(sched, n)
      BY <2>1 DEF GreenPosted
    <3>2. n \in DOMAIN sched
      <4>1. DOMAIN records = 1 .. Len(records) /\ Len(records) \in Nat
        BY DEF RunnerInv, IsSequence
      <4>2. Len(records) <= cur /\ cur \in Nat
        BY SoFar DEF RunnerInv
      <4>3. n \in 1 .. cur
        BY <4>1, <4>2
      <4> QED BY <4>3, SoFar
    <3> QED BY <3>1, <3>2, LedgerGrows, GreenStays
  <2> QED BY <1>1, <1>2, <2>1 DEF GreenPosted
<1>3. CASE Judge
  <2>1. /\ posted' = posted /\ cur \in Nat /\ cur > 0
        /\ DOMAIN records = 1 .. cur - 1 /\ DOMAIN records' = 1 .. cur
        /\ \A n \in 1 .. cur - 1 : records'[n] = records[n]
        /\ records'[cur] = Filed
    BY <1>3, JudgeFiles
  <2>2. ASSUME Filed.breaks = {}
        PROVE  posted \cap CandidateIds(sched, cur) = PostedBy(sched, cur)
    <3>1. PICK S, T : S = _posted_rows /\ T = fp.expectation.posted
      OBVIOUS
    <3>2. T \subseteq Observation.posted /\ ~ (Observation.transactions > Cardinality(T))
      BY <2>2, <3>1, NoneLostOrDoubled DEF Filed
    <3>3. Observation.posted = S /\ Observation.transactions = Cardinality(S)
      BY <3>1 DEF Observation
    <3>4. S = posted \cap CandidateIds(sched, cur) /\ T = PostedBy(sched, cur)
      BY <2>1, <3>1, CandidatesAre, PlanInHand DEF _posted_rows, PostedBy
    <3>5. IsFiniteSet(S)
      BY <3>4, FS_Subset DEF HealthyInv
    <3>6. T \subseteq S /\ ~ (Cardinality(S) > Cardinality(T))
      BY <3>2, <3>3
    <3>7. /\ IsFiniteSet(T) /\ Cardinality(T) <= Cardinality(S)
          /\ Cardinality(S) = Cardinality(T) => S = T
      BY <3>5, <3>6, FS_Subset
    <3>8. Cardinality(S) \in Nat /\ Cardinality(T) \in Nat
      BY <3>5, <3>7, FS_CardinalityType
    <3>9. S = T
      BY <3>6, <3>7, <3>8
    <3> QED BY <3>4, <3>9
  <2>3. ASSUME NEW n \in DOMAIN records', records'[n].breaks = {}, ~ records'[n].crashed
        PROVE  posted \cap CandidateIds(sched, n) = PostedBy(sched, n)
    <3>1. CASE n = cur
      BY <2>1, <2>2, <2>3, <3>1
    <3>2. CASE n # cur
      BY <2>1, <2>3, <3>2 DEF GreenPosted
    <3> QED BY <3>1, <3>2
  <2> QED BY <1>1, <2>1, <2>3 DEF GreenPosted
<1>4. CASE ScenarioRaises
  <2>1. /\ posted' = posted /\ cur \in Nat
        /\ DOMAIN records = 1 .. cur - 1 /\ DOMAIN records' = 1 .. cur
        /\ \A n \in 1 .. cur - 1 : records'[n] = records[n]
        /\ records'[cur].crashed
    BY <1>4, CrashFiles
  <2>2. ASSUME NEW n \in DOMAIN records', records'[n].breaks = {}, ~ records'[n].crashed
        PROVE  posted \cap CandidateIds(sched, n) = PostedBy(sched, n)
    <3>1. n # cur
      BY <2>1, <2>2
    <3> QED BY <2>1, <2>2, <3>1 DEF GreenPosted
  <2> QED BY <1>1, <2>1, <2>2 DEF GreenPosted
<1> QED BY <1>2, <1>3, <1>4, RecordsGrow

-----------------------------------------------------------------------------
(* No false alarm. *)

(* An observation nobody can find a break in. *)
Correct(exp, obs) ==
  /\ obs.invariant_after
  /\ obs.ledger_diff = exp.balances_delta
  /\ exp.rejected \cap obs.posted = {}
  /\ obs.accepted_rejected = {}
  /\ obs.wrong_reason = {}
  /\ exp.posted \subseteq obs.posted
  /\ ~ (obs.transactions > Cardinality(exp.posted))
  /\ obs.quiescent
  /\ exp.recon => obs.recon_reported_break

(* None of detect_breaks' tests finds anything in it. *)
LEMMA CorrectIsGreen ==
  ASSUME NEW exp, NEW obs, Correct(exp, obs)
  PROVE  detect_breaks(exp, obs) = {}
<1> SUFFICES ASSUME NEW b \in detect_breaks(exp, obs) PROVE FALSE
  OBVIOUS
<1>1. b = "INVARIANT_VIOLATION" => ~ obs.invariant_after
  BY DEF detect_breaks
<1>2. b = "LEDGER_DIFF_MISMATCH" => obs.ledger_diff # exp.balances_delta
  BY DEF detect_breaks
<1>3. b = "ACCEPTED_BAD_DELIVERY" => (exp.rejected \cap obs.posted) \cup obs.accepted_rejected # {}
  BY DEF detect_breaks
<1>4. b = "WRONG_REJECTION_REASON" => obs.wrong_reason # {}
  BY DEF detect_breaks
<1>5. b = "LOST_EVENT" => exp.posted \ obs.posted # {}
  BY DEF detect_breaks
<1>6. b = "DOUBLE_POST" => obs.transactions > Cardinality(exp.posted)
  BY DEF detect_breaks
<1>7. b = "NOT_QUIESCENT" => ~ obs.quiescent
  BY DEF detect_breaks
<1>8. b = "RECONCILER_MISSED_DROP" => exp.recon /\ ~ obs.recon_reported_break
  BY DEF detect_breaks
<1>9. b \in {"INVARIANT_VIOLATION", "LEDGER_DIFF_MISMATCH", "ACCEPTED_BAD_DELIVERY",
             "WRONG_REJECTION_REASON", "LOST_EVENT", "DOUBLE_POST", "NOT_QUIESCENT",
             "RECONCILER_MISSED_DROP"}
  BY DEF detect_breaks
<1>10. b \notin {"ACCEPTED_BAD_DELIVERY", "LOST_EVENT"}
  BY <1>3, <1>5 DEF Correct
<1> QED BY <1>1, <1>2, <1>4, <1>6, <1>7, <1>8, <1>9, <1>10 DEF Correct

(* No request is answered as its plan does not expect. *)
LEMMA AnswersAreRight ==
  ASSUME RunnerInv, ResultInv, pc = "judge", giveups = 0
  PROVE  accepted_rejected = {} /\ wrong_reason = {}
<1>0. cur > 0 /\ pc \in Waiting
  BY DEF RunnerInv, Waiting
<1>1. /\ DOMAIN fp.deliveries = 1 .. Len(fp.deliveries) /\ Len(fp.deliveries) \in Nat
      /\ DOMAIN results = 1 .. Len(results) /\ Len(results) \in Nat
      /\ Len(results) >= Len(fp.deliveries)
  BY <1>0, PlanInHand DEF ResultInv, IsSequence
<1>2. ASSUME NEW k \in DOMAIN fp.deliveries
      PROVE  /\ ~ (fp.deliveries[k].expect_rejected /\ Answered(k, 200, 300))
             /\ ~ (/\ fp.deliveries[k].expect_rejection_reason # NULL
                   /\ Answered(k, 400, 500)
                   /\ fp.deliveries[k].expect_rejection_reason # results[k].body)
  <2>1. k \in DOMAIN results /\ k <= Len(fp.deliveries)
    BY <1>1
  <2>2. PICK r, d, rest : r = results[k] /\ d = fp.deliveries[k] /\ rest = sched[cur].fault
    OBVIOUS
  <2>3. IsAnswer(r, d)
    BY <1>0, <2>1, <2>2, AnswerInHand
  <2>4. FitsPlan(fp, d, rest)
    BY <1>0, <2>2, PlanFits
  <2>5. ~ (giveups > 0)
    OBVIOUS
  <2>6. CASE r.status = 200 /\ Verdict(d) = ""
    <3>1. ~ d.expect_rejected
      BY <2>4, <2>6 DEF FitsPlan
    <3>2. ~ Answered(k, 400, 500)
      <4>1. results[k].status = 200
        BY <2>2, <2>6
      <4>2. ~ (results[k].status >= 400)
        BY <4>1
      <4> QED BY <4>2 DEF Answered
    <3> QED BY <2>2, <3>1, <3>2
  <2>7. CASE r.status = 400 /\ Verdict(d) # "" /\ r.body = Verdict(d)
    <3>1. d.expect_rejection_reason # NULL => r.body = d.expect_rejection_reason
      BY <2>4, <2>7 DEF FitsPlan
    <3>2. ~ Answered(k, 200, 300)
      <4>1. results[k].status = 400
        BY <2>2, <2>7
      <4>2. ~ (results[k].status < 300)
        BY <4>1
      <4> QED BY <4>2 DEF Answered
    <3> QED BY <2>2, <3>1, <3>2
  <2> QED BY <2>3, <2>5, <2>6, <2>7 DEF IsAnswer
<1>3. accepted_rejected = {}
  BY <1>2 DEF accepted_rejected
<1>4. wrong_reason = {}
  BY <1>2 DEF wrong_reason
<1> QED BY <1>3, <1>4

(* A quiet, undisturbed run has posted what it should and nothing else. *)
LEMMA QuietPostsExactly ==
  ASSUME IInv, RunnerInv, OriginInv, CalmInv, QuietInv, giveups = 0, quiescent, pc = "judge"
  PROVE  posted \cap CandidateIds(sched, cur) = PostedBy(sched, cur)
<1>1. PICK s \in Schedules : s = sched
  BY DEF RunnerInv
<1>2. PICK n \in DOMAIN s : n = cur
  BY <1>1, PlanInHand DEF RunnerInv
<1>3. PostedBy(s, n) \subseteq posted
  BY <1>1, <1>2, QuietIsPosted
<1>4. PostedBy(s, n) \subseteq CandidateIds(s, n)
  BY FixtureIdsAre DEF CandidateIds
<1>5. ASSUME NEW e \in posted, e \in CandidateIds(s, n) PROVE e \in PostedBy(s, n)
  <2>1. e \in Events /\ Postable(e) /\ InSystem(e)
    BY PostedOrigin DEF InSystem
  <2>2. e \in AdmittedBy(s, n)
    BY <1>1, <1>5, <2>1, AdmittedByOwn
  <2>3. PICK m \in 1 .. cur : e \in Ids(s[m].fixtures)
    BY <1>1, <2>1 DEF CalmInv, IsOriginal
  <2>4. m \in DOMAIN s /\ e \in CandidateIds(s, m)
    BY <1>1, <2>3, SoFar DEF CandidateIds
  <2>5. m = n
    BY <1>5, <2>4, FreshKeys, SameKeyReflexive
  <2>6. e \in PlanAt(s, n).expectation.posted
    BY <2>1, <2>2, <2>3, <2>5, TakenIsExpected
  <2> QED BY <2>6 DEF PostedBy
<1> QED BY <1>1, <1>2, <1>3, <1>4, <1>5

(* What is to be refused is not posted. *)
LEMMA RejectedNotPosted ==
  ASSUME IInv, RunnerInv, OriginInv, cur > 0
  PROVE  fp.expectation.rejected \cap (posted \cap CandidateIds(sched, cur)) = {}
<1> SUFFICES ASSUME NEW e \in posted, e \in CandidateIds(sched, cur),
                    e \in fp.expectation.rejected
             PROVE  FALSE
  OBVIOUS
<1>1. PICK s \in Schedules : s = sched
  BY DEF RunnerInv
<1>2. PICK n \in DOMAIN s : n = cur /\ fp = PlanAt(s, n)
  BY <1>1, PlanInHand
<1>3. e \in AdmittedBy(s, n)
  BY <1>1, <1>2, PostedOrigin, AdmittedByOwn DEF InSystem
<1>4. AdmittedBy(s, n) = {}
  BY <1>2, RejectedAdmitsNothing
<1> QED BY <1>3, <1>4

(* Every row the reconciler loads is of a posted event. *)
LEMMA LoadedArePosted ==
  ASSUME IInv, RunnerInv, OriginInv, HealthyInv, NEW t \in _load_ledger(Ledger(posted), "USD")
  PROVE  t.event_id \in posted
<1>1. CASE t \in {_LedgerTxn(u) : u \in Ledger(posted)}
  <2>1. PICK p \in posted : t = _LedgerTxn(TxnOf(p))
    BY <1>1 DEF Ledger
  <2>2. t.event_id = TxnOf(p).event
    BY <2>1 DEF _LedgerTxn
  <2> QED BY <2>2, PostedBalances
<1>2. CASE t \in {_LedgerTxn(u) : u \in {InCurrency(v, "USD") : v \in Ledger(posted)}}
  <2>1. PICK p \in posted : t = _LedgerTxn(InCurrency(TxnOf(p), "USD"))
    BY <1>2 DEF Ledger
  <2>2. PICK u, v : u = TxnOf(p) /\ v = InCurrency(u, "USD")
    OBVIOUS
  <2>3. u.event = p /\ "event" \in DOMAIN u
    BY <2>2, PostedBalances
  <2>4. v.event = u.event
    BY <2>2, <2>3 DEF InCurrency
  <2>5. t.event_id = v.event
    BY <2>1, <2>2 DEF _LedgerTxn
  <2> QED BY <2>3, <2>4, <2>5
<1> QED BY <1>1, <1>2 DEF _load_ledger

(* An expected event that is not in the ledger, and moves money, is reported. *)
LEMMA MissingIsReported ==
  ASSUME NEW txns, NEW later, NEW expected, NEW x \in expected, NEW id, x.event_id = id,
         \A t \in _load_ledger(txns, "USD") : t.event_id # id,
         x.delta # [a \in AccountNames |-> 0]
  PROVE  \E b \in reconcile_expected(txns, later, expected) :
           b.kind = "missing_in_ledger" /\ b.event = id
<1>1. PICK b : b = Break("missing_in_ledger", NULL, x.event_id, _magnitude(x.delta), NULL)
  OBVIOUS
<1>2. b.kind = "missing_in_ledger" /\ b.event = id
  BY <1>1 DEF Break
<1>3. {t \in _load_ledger(txns, "USD") : t.event_id = x.event_id} = {}
  OBVIOUS
<1>4. b \in reconcile_expected(txns, later, expected)
  BY <1>1, <1>3 DEF reconcile_expected
<1> QED BY <1>2, <1>4

(* A dropped event is reported by the reconciler. *)
LEMMA DropReported ==
  ASSUME IInv, RunnerInv, OriginInv, HealthyInv, cur > 0, fp.expectation.recon
  PROVE  recon_reported
<1>1. PICK s \in Schedules : s = sched
  BY DEF RunnerInv
<1>2. PICK n \in DOMAIN s : n = cur /\ fp = PlanAt(s, n)
  BY <1>1, PlanInHand
<1>3. /\ AdmittedBy(s, n) = {} /\ 1 \in DOMAIN s[n].fixtures
      /\ s[n].fixtures[1].expected_delta # [a \in AccountNames |-> 0]
  BY <1>2, DropDeliversNothing
<1>4. PICK id, x, X :
        /\ id = s[n].fixtures[1].event.id
        /\ x = [event_id |-> id, delta |-> s[n].fixtures[1].expected_delta]
        /\ X = {[event_id |-> s[n].fixtures[k].event.id,
                 delta    |-> s[n].fixtures[k].expected_delta] : k \in DOMAIN s[n].fixtures}
  OBVIOUS
<1>5. x \in X /\ x.event_id = id /\ x.delta # [a \in AccountNames |-> 0]
  BY <1>3, <1>4
<1>6. id \in CandidateIds(s, n)
  BY <1>4, FixtureIdsAre DEF CandidateIds
<1>7. id \notin posted
  <2> SUFFICES ASSUME id \in posted PROVE FALSE
    OBVIOUS
  <2>1. id \in AdmittedBy(s, n)
    BY <1>1, <1>6, PostedOrigin, AdmittedByOwn DEF InSystem
  <2> QED BY <1>3, <2>1
<1>8. PICK L : L = Ledger(posted)
  OBVIOUS
<1>9. \A t \in _load_ledger(L, "USD") : t.event_id # id
  BY <1>7, <1>8, LoadedArePosted
<1>10. PICK b \in reconcile_expected(L, L, X) : b.kind = "missing_in_ledger" /\ b.event = id
  BY <1>5, <1>9, MissingIsReported
<1>11. id \in Candidates
  BY <1>1, <1>2, <1>6, CandidatesAre
<1> QED BY <1>1, <1>2, <1>4, <1>8, <1>10, <1>11 DEF recon_reported

(* A run that went quiet and was not disturbed is judged green. *)
LEMMA JudgedGreen ==
  ASSUME IInv, RunnerInv, ResultInv, OriginInv, HealthyInv, CalmInv, QuietInv, BooksInv,
         pc = "judge", quiescent, Undisturbed(cur - 1)
  PROVE  detect_breaks(fp.expectation, Observation) = {}
<1>1. giveups = 0
  BY DEF Undisturbed
<1>2. cur > 0
  BY DEF RunnerInv
<1>3. PICK E : E = fp.expectation
  OBVIOUS
<1>4. PICK O : O = Observation
  OBVIOUS
<1>5. O.invariant_after /\ O.ledger_diff = E.balances_delta /\ O.quiescent
  BY <1>3, <1>4 DEF BooksInv, ClosedBooks, Observation
<1>6. O.accepted_rejected = {} /\ O.wrong_reason = {}
  BY <1>1, <1>4, AnswersAreRight DEF Observation
<1>7. _posted_rows = posted \cap CandidateIds(sched, cur)
  BY <1>2, CandidatesAre DEF _posted_rows
<1>8. O.posted = _posted_rows /\ O.transactions = Cardinality(_posted_rows)
  BY <1>4 DEF Observation
<1>9. E.rejected \cap O.posted = {}
  BY <1>2, <1>3, <1>7, <1>8, RejectedNotPosted
<1>10. E.posted = PostedBy(sched, cur)
  BY <1>2, <1>3, PlanInHand DEF PostedBy
<1>11. O.posted = E.posted /\ O.transactions = Cardinality(E.posted)
  BY <1>1, <1>7, <1>8, <1>10, QuietPostsExactly
<1>12. IsFiniteSet(E.posted)
  <2>1. PICK s \in Schedules : s = sched
    BY DEF RunnerInv
  <2>2. PICK n \in DOMAIN s : n = cur
    BY <1>2, <2>1, PlanInHand
  <2>3. IsFiniteSet(PostedBy(s, n))
    BY FixtureIdsAre
  <2> QED BY <1>10, <2>1, <2>2, <2>3
<1>13. Cardinality(E.posted) \in Nat
  BY <1>12, FS_CardinalityType
<1>14. ~ (O.transactions > Cardinality(E.posted))
  BY <1>11, <1>13
<1>15. E.recon => O.recon_reported_break
  <2>1. O.recon_reported_break = recon_reported
    BY <1>4 DEF Observation
  <2> QED BY <1>2, <1>3, <2>1, DropReported
<1>16. Correct(E, O)
  BY <1>5, <1>6, <1>9, <1>11, <1>14, <1>15 DEF Correct
<1> QED BY <1>3, <1>4, <1>16, CorrectIsGreen

(* A quiet, undisturbed scenario is on file as green, after every step. *)
LEMMA GreenWhenCorrectHolds ==
  ASSUME IInv, RunnerInv, ResultInv, OriginInv, HealthyInv, CalmInv, QuietInv, BooksInv,
         GreenWhenCorrect, [HNext]_hvars
  PROVE  GreenWhenCorrect'
<1>1. giveups' = 0 => giveups = 0
  BY RunNumbers
<1>2. CASE records' = records
  BY <1>1, <1>2 DEF GreenWhenCorrect, Undisturbed
<1>3. CASE Judge
  <2>1. /\ cur \in Nat /\ cur > 0 /\ pc = "judge"
        /\ DOMAIN records = 1 .. cur - 1 /\ DOMAIN records' = 1 .. cur
        /\ \A n \in 1 .. cur - 1 : records'[n] = records[n]
        /\ records'[cur] = Filed
    BY <1>3, JudgeFiles
  <2>2. ASSUME NEW n \in 1 .. cur, Undisturbed(n)', NEW m \in 0 .. cur - 1, m <= n
        PROVE  Undisturbed(m)
    BY <1>1, <2>1, <2>2 DEF Undisturbed
  <2>3. ASSUME NEW n \in 1 .. cur, Undisturbed(n)', n # cur
        PROVE  records'[n].breaks = {}
    <3>1. n \in 1 .. cur - 1 /\ n \in 0 .. cur - 1
      BY <2>1, <2>3
    <3>2. Undisturbed(n)
      BY <2>2, <2>3, <3>1
    <3> QED BY <2>1, <3>1, <3>2 DEF GreenWhenCorrect
  <2>4. ASSUME Undisturbed(cur)'
        PROVE  records'[cur].breaks = {}
    <3>1. cur' = cur
      BY <1>3 DEF Judge
    <3>2. PICK n \in 1 .. cur : n = cur
      BY <2>1
    <3>3. Undisturbed(n)'
      BY <2>4, <3>1, <3>2 DEF Undisturbed
    <3>4. cur - 1 \in 0 .. cur - 1 /\ cur - 1 <= n
      BY <2>1, <3>2
    <3>5. Undisturbed(cur - 1)
      BY <2>2, <3>3, <3>4
    <3>6. records'[n].quiescent
      BY <3>3 DEF Undisturbed
    <3>7. quiescent
      BY <2>1, <3>2, <3>6 DEF Filed
    <3>8. Filed.breaks = {}
      BY <2>1, <3>5, <3>7, JudgedGreen DEF Filed
    <3> QED BY <2>1, <3>8
  <2>5. ASSUME NEW n \in 1 .. cur, Undisturbed(n)'
        PROVE  records'[n].breaks = {}
    <3>1. CASE n = cur
      <4>1. cur' = cur
        BY <1>3 DEF Judge
      <4>2. Undisturbed(cur)'
        BY <2>5, <3>1, <4>1 DEF Undisturbed
      <4> QED BY <2>4, <3>1, <4>2
    <3> QED BY <2>3, <2>5, <3>1
  <2> QED BY <2>1, <2>5 DEF GreenWhenCorrect
<1>4. CASE ScenarioRaises
  <2>1. /\ cur \in Nat /\ cur > 0
        /\ DOMAIN records = 1 .. cur - 1 /\ DOMAIN records' = 1 .. cur
        /\ \A n \in 1 .. cur - 1 : records'[n] = records[n]
        /\ ~ records'[cur].quiescent
    BY <1>4, CrashFiles
  <2>2. ASSUME NEW n \in 1 .. cur, Undisturbed(n)' PROVE records'[n].breaks = {}
    <3>1. \A j \in 1 .. n : records'[j].quiescent
      BY <2>2 DEF Undisturbed
    <3>2. n \in 1 .. cur - 1
      BY <2>1, <3>1
    <3>3. \A j \in 1 .. n : j \in 1 .. cur - 1
      BY <2>1, <3>2
    <3>4. Undisturbed(n)
      BY <1>1, <2>1, <2>2, <3>1, <3>3 DEF Undisturbed
    <3> QED BY <2>1, <3>2, <3>4 DEF GreenWhenCorrect
  <2> QED BY <2>1, <2>2 DEF GreenWhenCorrect
<1> QED BY <1>2, <1>3, <1>4, RecordsGrow

-----------------------------------------------------------------------------
(* The invariant at the start ... *)
LEMMA InitHInv == HInit => HInv
<1> SUFFICES ASSUME HInit PROVE HInv
  OBVIOUS
<1>1. IInv
  BY InitIInv DEF HInit
<1>2. IsSequence(<<>>)
  <2>1. <<>> \in Seq({})
    OBVIOUS
  <2> QED BY <2>1, SeqIs
<1>3. Len(sched) \in Nat /\ sched \in Schedules
  BY ScheduleAssumption DEF HInit, IsRun
<1>4. RunnerInv
  BY <1>2, <1>3 DEF RunnerInv, HInit
<1>5. ResultInv
  BY <1>2 DEF ResultInv, HInit, Waiting
<1>6. \A i \in Ingests : ing[i].pc = "idle"
  BY DEF HInit, Init, Idle
<1>7. \A w \in Workers : wrk[w].pc = "idle"
  BY DEF HInit, Init, IdleWrk
<1>8. RequestInv
  BY <1>6 DEF RequestInv, HInit
<1>9. posted = {} /\ \A e \in Events : row[e] = NoRow
  BY DEF HInit, Init
<1>10. \A m \in Msgs : msg[m].loc = "free"
  BY DEF HInit, Init, FreeMsg
<1>11. \A e \in Events : ~ InSystem(e)
  BY <1>7, <1>9, <1>10 DEF InSystem
<1>12. OriginInv
  BY <1>11 DEF OriginInv
<1>13. HealthyInv
  BY <1>7, <1>9, FS_EmptySet DEF HealthyInv, NoRow
<1>14. CalmInv
  BY <1>11 DEF CalmInv, HInit
<1>15. QuietInv /\ BooksInv
  BY DEF QuietInv, BooksInv, HInit
<1>16. DOMAIN records = {}
  BY DEF HInit
<1>17. FiledInv /\ EvidenceNamesFault /\ GreenPosted /\ GreenWhenCorrect
  BY <1>16 DEF FiledInv, EvidenceNamesFault, GreenPosted, GreenWhenCorrect
<1> QED BY <1>1, <1>4, <1>5, <1>8, <1>12, <1>13, <1>14, <1>15, <1>17 DEF HInv

(* ... and after every step. *)
LEMMA HInvStep ==
  ASSUME HInv, [HNext]_hvars
  PROVE  HInv'
<1>1. /\ IInv /\ RunnerInv /\ ResultInv /\ RequestInv /\ OriginInv /\ HealthyInv
      /\ CalmInv /\ QuietInv /\ BooksInv
  BY DEF HInv
<1>2. FiledInv /\ EvidenceNamesFault /\ GreenPosted /\ GreenWhenCorrect
  BY DEF HInv
<1>3. StackMove
  BY <1>1, StackMoves
<1>4. IInv' /\ RowsKept
  BY <1>1, <1>3, IInvHolds DEF RowsKept
<1>5. RunnerInv'
  BY <1>1, RunnerHolds
<1>6. ResultInv'
  BY <1>1, <1>4, ResultHolds
<1>7. RequestInv'
  BY <1>1, RequestHolds
<1>8. OriginInv'
  BY <1>1, <1>3, OriginHolds
<1>9. HealthyInv'
  BY <1>1, <1>3, HealthyHolds
<1>10. CalmInv'
  BY <1>1, <1>3, <1>4, CalmHolds
<1>11. QuietInv'
  BY <1>1, <1>3, <1>9, QuietHolds
<1>12. BooksInv'
  BY <1>1, <1>2, <1>3, BooksHolds
<1>13. FiledInv'
  BY <1>1, <1>2, FiledHolds
<1>14. EvidenceNamesFault'
  BY <1>1, <1>2, EvidenceHolds
<1>15. GreenPosted'
  BY <1>1, <1>2, <1>3, GreenPostedHolds
<1>16. GreenWhenCorrect'
  BY <1>1, <1>2, GreenWhenCorrectHolds
<1> QED BY <1>4, <1>5, <1>6, <1>7, <1>8, <1>9, <1>10, <1>11, <1>12, <1>13, <1>14,
           <1>15, <1>16 DEF HInv

(* The inductive invariant of the harness: runner, proxy, stack and verdicts,
   for every run of scenarios and any number of abandoned requests and of
   scenarios that raise. *)
THEOREM HarnessInvariant == HSpec => []HInv
  BY InitHInv, HInvStep, PTL DEF HSpec

(* No false alarm: a scenario that went quiet after scenarios that did, with no
   request abandoned, has no break, whatever fault was injected and however
   the kill, the restores and the workers' steps interleave with the polls. *)
THEOREM QuietIsGreen == HSpec => []GreenWhenCorrect
<1>1. HInv => GreenWhenCorrect
  BY DEF HInv
<1> QED BY <1>1, HarnessInvariant, PTL

(* The evidence in a record tells the fault of its scenario from every other,
   but for a DELAY past the tolerance and a STALE_TIMESTAMP, which look alike. *)
THEOREM EvidenceIsEnough == HSpec => []EvidenceNamesFault
<1>1. HInv => EvidenceNamesFault
  BY DEF HInv
<1> QED BY <1>1, HarnessInvariant, PTL

(* What is on file as green has the expected effect on the ledger. *)
LEMMA GreenIsTrueHolds ==
  ASSUME RunnerInv, FiledInv, GreenPosted
  PROVE  GreenIsTrue
<1>1. PICK s \in Schedules : s = sched
  BY DEF RunnerInv
<1>2. DOMAIN records \subseteq DOMAIN s
  <2>1. DOMAIN records = 1 .. Len(records) /\ Len(records) \in Nat
    BY DEF RunnerInv, IsSequence
  <2>2. Len(records) <= cur /\ cur \in Nat
    BY SoFar DEF RunnerInv
  <2>3. \A n \in DOMAIN records : n \in 1 .. cur
    BY <2>1, <2>2
  <2> QED BY <1>1, <2>3, SoFar
<1>3. ASSUME NEW n \in DOMAIN records, records[n].breaks = {}, ~ records[n].crashed
      PROVE  /\ posted \cap records[n].candidates = records[n].expected.posted
             /\ DeltaOf(posted \cap records[n].candidates)
                  = records[n].expected.balances_delta
  <2>1. /\ records[n].expected = PlanAt(s, n).expectation
        /\ records[n].candidates = CandidateIds(s, n)
    BY <1>1, <1>3 DEF FiledInv
  <2>2. posted \cap CandidateIds(s, n) = PostedBy(s, n)
    BY <1>1, <1>3 DEF GreenPosted
  <2>3. PlanAt(s, n).expectation.balances_delta = DeltaOf(PostedBy(s, n))
    BY <1>2, <1>3, ExpectedDelta
  <2>4. PlanAt(s, n).expectation.posted = PostedBy(s, n)
    BY DEF PostedBy
  <2> QED BY <2>1, <2>2, <2>3, <2>4
<1> QED BY <1>3 DEF GreenIsTrue

(* No false green: what ran to its verdict and was recorded without a break has
   exactly its expected events in the ledger, with exactly the expected effect,
   for good, whichever scenarios crash before and after it. *)
THEOREM GreenIsFinal == HSpec => []GreenIsTrue
<1>1. HInv => GreenIsTrue
  BY GreenIsTrueHolds DEF HInv
<1> QED BY <1>1, HarnessInvariant, PTL
=============================================================================
