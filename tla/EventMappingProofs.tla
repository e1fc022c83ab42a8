------------------------- MODULE EventMappingProofs -------------------------
(***************************************************************************)
(* What the worker posts for an event is what the movement is worth at     *)
(* Stripe, and the database accepts it: for any amounts and fees, and for  *)
(* any list of balance transactions whose fee the worker can learn.        *)
(***************************************************************************)
EXTENDS EventMapping, LedgerTheorems, SequenceTheorems

(* The fee _resolve_fee fetches of a list that is not expanded. *)
FirstMissing == LET bs == ev.object.bts
                IN  bs[Min({k \in DOMAIN bs : ~ bs[k].expanded})].fee

(* The fee the posting is made with. *)
PostedFee == IF ev.type \notin FeeBearingTypes THEN 0
             ELSE IF FeeLearnable THEN StripeFee ELSE FirstMissing

(* The transaction in hand was built with the fee Stripe took, from the payload
   or fetched, or with as much of it as the worker learns; the fee is only
   fetched when the payload lacks it. *)
MapInv ==
  /\ ev \in Inputs
  /\ settled # <<>> =>
       ev.object.bts = <<>> /\ \E n \in Fees : settled = << [expanded |-> TRUE, fee |-> n] >>
  /\ stage = "fetch" =>
       /\ ev.object # NULL
       /\ ev.type \in FeeBearingTypes
       /\ ~ AllExpanded(ev.object.bts)
  /\ stage = "built" =>
       /\ ev.object # NULL
       /\ ev.type \in MappedTypes
       /\ PostedFee \in Int
       /\ txn.entries = Entries(ev, PostedFee)

(* A payload, taken apart. *)
LEMMA ObjectOf ==
  ASSUME NEW e \in Inputs, e.object # NULL
  PROVE  /\ e.object.currency \in STRING /\ e.object.amount \in Int
         /\ e.object.amount_refunded \in Int
         /\ e.object.refunds \in Seq(StripeRefund)
         /\ e.object.bts \in Seq([expanded : BOOLEAN, fee : Int])
         /\ e.type \in HANDLED_EVENT_TYPES
         /\ e.type = "charge.succeeded" => Len(e.object.bts) <= 1
<1>1. e.object \in StripeObject /\ e.type \in HANDLED_EVENT_TYPES
      /\ (e.type = "charge.succeeded" => Len(e.object.bts) <= 1)
  BY EventAssumption
<1> QED BY <1>1 DEF StripeObject

(* A refund's amount as Stripe has it. *)
Refunded(obj) == IF obj.refunds # <<>> /\ obj.refunds[1].amount # NULL
                 THEN obj.refunds[1].amount ELSE obj.amount_refunded

(* The amount of a refund is that of the newest one listed. *)
LEMMA RefundIs ==
  ASSUME NEW e \in Inputs, e.object # NULL
  PROVE  /\ RefundAmount(e.object) = Refunded(e.object)
         /\ RefundAmount(e.object) \in Int
         /\ RefundAmount(e.object) >= 0 \/ RefundAmount(e.object) = e.object.amount_refunded
<1> DEFINE rs == e.object.refunds
<1>1. rs \in Seq(StripeRefund) /\ e.object.amount_refunded \in Int
  BY ObjectOf
<1>2. CASE rs = <<>>
  BY <1>1, <1>2 DEF RefundAmount, _newest_refund, Refunded
<1>3. CASE rs # <<>>
  <2>1. rs[1] \in StripeRefund
    BY <1>1, <1>3
  <2>2. rs[1] # NULL /\ rs[1].amount \in Nat \cup {NULL}
    BY <2>1, EventAssumption DEF StripeRefund
  <2> QED BY <1>1, <1>3, <2>2 DEF RefundAmount, _newest_refund, Refunded
<1> QED BY <1>2, <1>3

(* Fees add up to an integer. *)
LEMMA FeeSumIsInt ==
  ASSUME NEW bs \in Seq([expanded : BOOLEAN, fee : Int])
  PROVE  FeeSum(bs) \in Int
<1> DEFINE f == [k \in DOMAIN bs |-> bs[k].fee]
           S == DOMAIN bs
<1>1. S = 1 .. Len(bs) /\ Len(bs) \in Nat /\ \A k \in S : bs[k].fee \in Int
  <2> DEFINE T == [expanded : BOOLEAN, fee : Int]
  <2>1. bs \in Seq(T) /\ \A b \in T : b.fee \in Int
    OBVIOUS
  <2> HIDE DEF T
  <2> QED BY <2>1
<1>2. IsFiniteSet(S)
  BY <1>1, FS_Interval
<1>3. Ints(f, S)
  BY <1>1 DEF Ints
<1>4. FeeSum(bs) = SumFunctionOnSet(f, S)
  BY DEF FeeSum, SumFunction
<1> HIDE DEF f, S
<1> QED BY <1>2, <1>3, <1>4, SumIsInt

(* A transaction is built from the payload's fee, or from the one it is given. *)
LEMMA BuildIs ==
  ASSUME NEW e \in Inputs, NEW given
  PROVE  \/ build_transaction(e, given) \in {Raises, NoTransaction}
         \/ /\ build_transaction(e, given) = MissingFeeData
            /\ e.object # NULL /\ e.type \in FeeBearingTypes
            /\ ~ AllExpanded(e.object.bts) /\ given = NULL
         \/ /\ e.object # NULL /\ e.type \in MappedTypes
            /\ build_transaction(e, given) # MissingFeeData
            /\ \/ /\ e.type \notin FeeBearingTypes
                  /\ build_transaction(e, given).entries = Entries(e, 0)
               \/ /\ e.type \in FeeBearingTypes /\ AllExpanded(e.object.bts)
                  /\ build_transaction(e, given).entries = Entries(e, FeeSum(e.object.bts))
               \/ /\ e.type \in FeeBearingTypes /\ ~ AllExpanded(e.object.bts)
                  /\ given # NULL
                  /\ build_transaction(e, given).entries = Entries(e, given)
<1>1. CASE e.object = NULL
  BY <1>1 DEF build_transaction
<1>2. CASE e.type = "invoice.payment_failed" \/ e.type \notin MappedTypes
  BY <1>1, <1>2 DEF build_transaction
<1>3. CASE e.object # NULL /\ e.type # "invoice.payment_failed" /\ e.type \in MappedTypes
  <2> DEFINE fee == IF e.type \in FeeBearingTypes THEN PayloadFee(e.object, given) ELSE 0
             t == [id |-> <<"uuid5", e.id>>, event |-> e.id,
                   object |-> money_movement_object_id(e), type |-> e.type,
                   entries |-> Entries(e, fee)]
  <2>1. build_transaction(e, given) = IF fee = NULL THEN MissingFeeData ELSE t
    BY <1>3 DEF build_transaction
  <2>2. t.entries = Entries(e, fee) /\ t # MissingFeeData
    <3>1. t.entries = Entries(e, fee) /\ "id" \in DOMAIN t
      OBVIOUS
    <3>2. "id" \notin DOMAIN MissingFeeData
      BY DEF MissingFeeData
    <3> QED BY <3>1, <3>2
  <2>3. fee # NULL => /\ build_transaction(e, given).entries = Entries(e, fee)
                      /\ build_transaction(e, given) # MissingFeeData
    BY <2>1, <2>2
  <2>4. fee = NULL => build_transaction(e, given) = MissingFeeData
    BY <2>1
  <2>5. e.type \in FeeBearingTypes /\ AllExpanded(e.object.bts) =>
          fee = FeeSum(e.object.bts) /\ fee # NULL
    BY <1>3, ObjectOf, FeeSumIsInt, NullAssumption DEF PayloadFee
  <2>6. e.type \in FeeBearingTypes /\ ~ AllExpanded(e.object.bts) => fee = given
    BY DEF PayloadFee
  <2>7. e.type \notin FeeBearingTypes => fee = 0 /\ fee # NULL
    BY NullAssumption
  <2> HIDE DEF fee
  <2> QED BY <1>3, <2>3, <2>4, <2>5, <2>6, <2>7
<1> QED BY <1>1, <1>2, <1>3

(* The fee that is fetched is the fee Stripe took. *)
LEMMA ResolvedIs ==
  ASSUME MapInv, stage = "fetch", _resolve_fee(ev, settled) # NULL, FeeLearnable
  PROVE  _resolve_fee(ev, settled) = StripeFee /\ StripeFee \in Int
<1> DEFINE bs == ev.object.bts
           ids == {k \in DOMAIN bs : ~ bs[k].expanded}
           BT == [expanded : BOOLEAN, fee : Int]
<1>1. ev \in Inputs /\ ev.object # NULL /\ ~ AllExpanded(bs)
  BY DEF MapInv
<1>2. bs \in Seq(BT) /\ Len(bs) <= 1
  BY <1>1, ObjectOf DEF FeeLearnable
<1>3. CASE bs = <<>>
  <2>1. ids = {}
    BY <1>3
  <2>2. _resolve_fee(ev, settled) = settled[1].fee /\ settled # <<>>
    BY <2>1 DEF _resolve_fee
  <2>3. PICK n \in Fees : settled = << [expanded |-> TRUE, fee |-> n] >>
    BY <2>2 DEF MapInv
  <2>4. n \in Int
    BY EventAssumption
  <2> DEFINE b == [expanded |-> TRUE, fee |-> n]
  <2>5. b.fee = n /\ settled = <<b>> /\ settled[1] = b
    BY <2>3
  <2> HIDE DEF b
  <2>6. FeeSum(settled) = n
    BY <2>4, <2>5, OneFee
  <2>7. StripeFee = FeeSum(settled)
    BY <1>3 DEF StripeFee
  <2> QED BY <2>2, <2>4, <2>5, <2>6, <2>7
<1>4. CASE bs # <<>>
  <2>0. \A b \in BT : b.fee \in Int
    OBVIOUS
  <2> HIDE DEF BT
  <2>1. Len(bs) = 1 /\ DOMAIN bs = {1} /\ bs[1] \in BT /\ bs = <<bs[1]>>
    <3>0. Len(bs) \in Nat \ {0}
      BY <1>2, <1>4, EmptySeq
    <3>1. Len(bs) = 1
      <4> DEFINE n == Len(bs)
      <4>1. n \in Nat \ {0} /\ n <= 1
        BY <1>2, <3>0
      <4> HIDE DEF n
      <4>2. n = 1
        BY <4>1
      <4> QED BY <4>2 DEF n
    <3>2. DOMAIN bs = {1} /\ bs[1] \in BT
      BY <1>2, <3>1
    <3>3. bs = <<bs[1]>>
      BY <1>2, <3>1
    <3> QED BY <3>1, <3>2, <3>3
  <2>2. ~ bs[1].expanded
    BY <1>1, <1>4, <2>1 DEF AllExpanded
  <2>3. ids = {1}
    BY <2>1, <2>2
  <2>4. Min({1}) = 1
    BY DEF Min
  <2>5. _resolve_fee(ev, settled) = bs[1].fee
    BY <2>3, <2>4 DEF _resolve_fee
  <2>6. FeeSum(bs) = bs[1].fee
    <3> DEFINE b == bs[1]
    <3>1. b.fee \in Int /\ bs = <<b>>
      BY <2>0, <2>1
    <3> HIDE DEF b, bs
    <3>2. FeeSum(<<b>>) = b.fee
      BY <3>1, OneFee
    <3> QED BY <3>1, <3>2 DEF b
  <2>7. StripeFee = FeeSum(bs)
    BY <1>4 DEF StripeFee
  <2> QED BY <2>0, <2>1, <2>5, <2>6, <2>7
<1> QED BY <1>3, <1>4

(* Of a list whose fee cannot be learnt, one member is fetched. *)
LEMMA ResolvedFirst ==
  ASSUME MapInv, ev.object # NULL, ~ FeeLearnable
  PROVE  /\ _resolve_fee(ev, settled) = FirstMissing
         /\ \E k \in DOMAIN ev.object.bts : FirstMissing = ev.object.bts[k].fee
         /\ FirstMissing \in Int
<1> DEFINE bs == ev.object.bts
           ids == {k \in DOMAIN bs : ~ bs[k].expanded}
           BT == [expanded : BOOLEAN, fee : Int]
<1>1. bs \in Seq(BT)
  BY ObjectOf DEF MapInv
<1>2. DOMAIN bs = 1 .. Len(bs) /\ Len(bs) \in Nat /\ (\A k \in DOMAIN bs : bs[k] \in BT)
      /\ \A b \in BT : b.fee \in Int
  <2>1. \A b \in BT : b.fee \in Int
    OBVIOUS
  <2> HIDE DEF BT
  <2> QED BY <1>1, <2>1
<1>3. ids # {} /\ ids \subseteq DOMAIN bs
  <2>1. bs # <<>> /\ ~ AllExpanded(bs)
    BY <1>2 DEF FeeLearnable
  <2> QED BY <1>2, <2>1 DEF AllExpanded
<1>4. Min(ids) \in ids
  <2> HIDE DEF ids
  <2> DEFINE B == {1 .. k : k \in ids}
             S == DOMAIN bs
  <2>1. B # {} /\ B \subseteq SUBSET S /\ IsFiniteSet(S)
    <3>1. B # {}
      BY <1>3
    <3>2. \A k \in ids : 1 .. k \subseteq S
      <4> HIDE DEF bs
      <4> QED BY <1>2, <1>3
    <3>3. IsFiniteSet(S)
      BY <1>2, FS_Interval
    <3> HIDE DEF S
    <3> QED BY <3>1, <3>2, <3>3
  <2>2. PICK T \in B : \A U \in B : U \subseteq T => U = T
    <3> HIDE DEF B, S
    <3> QED BY <2>1, Smallest
  <2>3. PICK x \in ids : T = 1 .. x
    OBVIOUS
  <2>4. ASSUME NEW y \in ids PROVE x <= y
    <3>1. 1 .. y \in B /\ x \in 1 .. Len(bs) /\ y \in 1 .. Len(bs)
      BY <1>2, <1>3
    <3>2. 1 .. y \subseteq 1 .. x => 1 .. y = 1 .. x
      BY <2>2, <2>3, <3>1
    <3> QED BY <1>2, <3>1, <3>2
  <2> QED BY <2>4 DEF Min
<1>5. FirstMissing = bs[Min(ids)].fee
  BY DEF FirstMissing
<1>6. _resolve_fee(ev, settled) = bs[Min(ids)].fee
  BY <1>3 DEF _resolve_fee
<1>7. Min(ids) \in DOMAIN bs
  BY <1>4
<1> HIDE DEF ids, BT
<1> QED BY <1>2, <1>5, <1>6, <1>7

(* The payload's own fee is the fee Stripe took. *)
LEMMA PayloadIs ==
  ASSUME MapInv, ev.object # NULL, AllExpanded(ev.object.bts)
  PROVE  FeeSum(ev.object.bts) = StripeFee /\ StripeFee \in Int
<1>1. ev.object.bts # <<>> /\ ev \in Inputs
  BY DEF AllExpanded, MapInv
<1>2. FeeSum(ev.object.bts) \in Int
  BY <1>1, ObjectOf, FeeSumIsInt
<1> QED BY <1>1, <1>2 DEF StripeFee

(* Nothing is built at the start. *)
LEMMA MapStart == Init => MapInv
BY DEF Init, MapInv

(* The payload, its settlement and the fetch agree on the fee. *)
LEMMA MapStep == MapInv /\ [Next]_vars => MapInv'
<1> SUFFICES ASSUME MapInv, [Next]_vars PROVE MapInv'
  OBVIOUS
<1>0. ev \in Inputs
  BY DEF MapInv
<1>1. CASE UNCHANGED vars
  BY <1>1 DEF MapInv, vars, PostedFee, StripeFee, FeeLearnable, FirstMissing
<1>2. CASE BuildFromPayload
  <2> DEFINE b == build_transaction(ev, NULL)
  <2>1. UNCHANGED <<ev, settled>> /\ StripeFee' = StripeFee /\ PostedFee' = PostedFee
    BY <1>2 DEF BuildFromPayload, StripeFee, PostedFee, FeeLearnable, FirstMissing
  <2>2. MissingFeeData # NoTransaction /\ MissingFeeData # Raises
    BY DEF MissingFeeData, NoTransaction, Raises
  <2>3. stage' = "fetch" => b = MissingFeeData
    BY <1>2 DEF BuildFromPayload
  <2>4. stage' = "built" => b \notin {MissingFeeData, NoTransaction, Raises} /\ txn' = b
    BY <1>2 DEF BuildFromPayload
  <2> HIDE DEF b
  <2>5. stage' = "fetch" => /\ ev.object # NULL /\ ev.type \in FeeBearingTypes
                            /\ ~ AllExpanded(ev.object.bts)
    BY <1>0, <2>2, <2>3, BuildIs DEF b
  <2>6. stage' = "built" =>
          /\ ev.object # NULL /\ ev.type \in MappedTypes
          /\ PostedFee \in Int /\ b.entries = Entries(ev, PostedFee)
    BY <1>0, <2>4, BuildIs, PayloadIs DEF b, PostedFee, FeeLearnable
  <2> QED BY <2>1, <2>4, <2>5, <2>6 DEF MapInv
<1>3. CASE Settle
  BY <1>3 DEF Settle, MapInv
<1>4. CASE FetchAndBuild
  <2> DEFINE fee == _resolve_fee(ev, settled)
             b == build_transaction(ev, fee)
  <2>1. /\ stage = "fetch" /\ fee # NULL /\ txn' = b /\ stage' = "built"
        /\ UNCHANGED <<ev, settled>> /\ StripeFee' = StripeFee /\ PostedFee' = PostedFee
    BY <1>4 DEF FetchAndBuild, StripeFee, PostedFee, FeeLearnable, FirstMissing
  <2>2. /\ ev.object # NULL /\ ev.type \in FeeBearingTypes
        /\ ~ AllExpanded(ev.object.bts)
    BY <2>1 DEF MapInv
  <2>3. fee = PostedFee /\ PostedFee \in Int
    BY <2>1, <2>2, ResolvedIs, ResolvedFirst DEF PostedFee
  <2> HIDE DEF fee
  <2>4. ev.type \in MappedTypes
    BY <2>2 DEF FeeBearingTypes, MappedTypes
  <2>5. b.entries = Entries(ev, fee)
    <3>1. b = [id |-> <<"uuid5", ev.id>>, event |-> ev.id,
               object |-> money_movement_object_id(ev), type |-> ev.type,
               entries |-> Entries(ev, fee)]
      BY <2>1, <2>2, <2>4 DEF build_transaction, PayloadFee, FeeBearingTypes
    <3> QED BY <3>1
  <2> HIDE DEF b
  <2> QED BY <2>1, <2>2, <2>3, <2>4, <2>5 DEF MapInv
<1>5. CASE NotSettledYet
  BY <1>5 DEF NotSettledYet, MapInv
<1> QED BY <1>1, <1>2, <1>3, <1>4, <1>5 DEF Next

-----------------------------------------------------------------------------
(* The entries of each type. *)

E(a, d, n) == [account |-> a, dir |-> d, amount |-> n, currency |-> ev.object.currency]

(* An entry on a seeded account. *)
LEMMA SeedEntry ==
  ASSUME MapInv, ev.object # NULL, NEW a \in DOMAIN SeedChart,
         NEW d \in {"debit", "credit"}, NEW n \in Int
  PROVE  /\ E(a, d, n) \in EntryRow
         /\ E(a, d, n).account = a /\ E(a, d, n).dir = d /\ E(a, d, n).amount = n
         /\ E(a, d, n).currency = ev.object.currency
         /\ a \in AccountNames /\ Chart[a] = SeedChart[a]
<1>1. a \in STRING /\ ev.object.currency \in STRING
  BY SeedAssumption, ObjectOf DEF MapInv
<1> QED BY <1>1, EventAssumption DEF E, EntryRow

(* What is posted, by type. *)
LEMMA PostedEntries ==
  ASSUME MapInv, stage = "built"
  PROVE  LET amount == ev.object.amount
             refund == RefundAmount(ev.object)
             fee == PostedFee
         IN  \/ /\ ev.type = "charge.succeeded"
                /\ txn.entries
                     = add(add(add(<<>>, E("stripe_balance", "debit", amount - fee)),
                               E("processing_fees", "debit", fee)),
                           E("revenue", "credit", amount))
             \/ /\ ev.type = "charge.dispute.created"
                /\ txn.entries
                     = add(add(add(<<>>, E("dispute_losses", "debit", amount)),
                               E("processing_fees", "debit", fee)),
                           E("stripe_balance", "credit", amount + fee))
             \/ /\ ev.type = "charge.refunded"
                /\ txn.entries = add(add(<<>>, E("refunds_contra", "debit", refund)),
                                     E("stripe_balance", "credit", refund))
             \/ /\ ev.type = "payout.paid"
                /\ txn.entries = add(add(<<>>, E("bank", "debit", amount)),
                                     E("stripe_balance", "credit", amount))
<1>1. /\ txn.entries = Entries(ev, PostedFee)
      /\ ev.type \in MappedTypes /\ ev.type \in HANDLED_EVENT_TYPES
  BY ObjectOf DEF MapInv
<1>2. CASE ev.type = "charge.succeeded"
  BY <1>1, <1>2 DEF Entries, E
<1>3. CASE ev.type = "charge.dispute.created"
  BY <1>1, <1>3 DEF Entries, E
<1>4. CASE ev.type = "charge.refunded"
  BY <1>1, <1>4 DEF Entries, E
<1>5. CASE ev.type = "payout.paid"
  BY <1>1, <1>5 DEF Entries, E
<1> QED BY <1>1, <1>2, <1>3, <1>4, <1>5 DEF MappedTypes, HANDLED_EVENT_TYPES

(* The stripe_balance account moves by Stripe's net, type by type. *)
LEMMA NetIsStripes ==
  ASSUME MapInv, stage = "built", FeeLearnable
  PROVE  account_balance(txn.entries, "stripe_balance") = StripeNet
<1> DEFINE a == "stripe_balance"
           amount == ev.object.amount
           refund == RefundAmount(ev.object)
           fee == PostedFee
<1>1. /\ ev \in Inputs /\ ev.object # NULL /\ amount \in Int /\ fee \in Int /\ refund \in Int
      /\ refund = Refunded(ev.object)
  BY ObjectOf, RefundIs DEF MapInv
<1>2. /\ a \in DOMAIN SeedChart /\ "processing_fees" \in DOMAIN SeedChart
      /\ "revenue" \in DOMAIN SeedChart /\ "dispute_losses" \in DOMAIN SeedChart
      /\ "refunds_contra" \in DOMAIN SeedChart /\ "bank" \in DOMAIN SeedChart
      /\ SeedChart[a].normal = "debit"
  BY DEF SeedChart
<1>3. ASSUME NEW b \in DOMAIN SeedChart, NEW d \in {"debit", "credit"}, NEW n \in Int
      PROVE  /\ E(b, d, n) \in EntryRow
             /\ SignOn(E(b, d, n), a)
                  = IF b # a THEN 0 ELSE IF d = "debit" THEN n ELSE - n
  <2>1. /\ E(b, d, n) \in EntryRow /\ E(b, d, n).account = b
        /\ E(b, d, n).dir = d /\ E(b, d, n).amount = n
    BY <1>1, SeedEntry
  <2>2. Chart[a] = SeedChart[a]
    BY <1>2, EventAssumption
  <2> QED BY <1>2, <2>1, <2>2 DEF SignOn
<1>4. CASE ev.type = "charge.succeeded"
  <2> DEFINE x == E(a, "debit", amount - fee)
             y == E("processing_fees", "debit", fee)
             z == E("revenue", "credit", amount)
  <2>1. x \in EntryRow /\ y \in EntryRow /\ z \in EntryRow
    BY <1>1, <1>2, <1>3
  <2>2. SignOn(x, a) = amount - fee /\ SignOn(y, a) = 0 /\ SignOn(z, a) = 0
    BY <1>1, <1>2, <1>3
  <2>3. StripeNet = amount - fee
    BY <1>4 DEF PostedFee, FeeBearingTypes, StripeNet
  <2>4. txn.entries = add(add(add(<<>>, x), y), z)
    BY <1>4, PostedEntries
  <2> HIDE DEF x, y, z
  <2>5. account_balance(add(add(add(<<>>, x), y), z), a)
          = SignOn(x, a) + SignOn(y, a) + SignOn(z, a)
    BY <2>1, ThreeBalance
  <2> QED BY <1>1, <2>2, <2>3, <2>4, <2>5
<1>5. CASE ev.type = "charge.dispute.created"
  <2> DEFINE x == E("dispute_losses", "debit", amount)
             y == E("processing_fees", "debit", fee)
             z == E(a, "credit", amount + fee)
  <2>1. x \in EntryRow /\ y \in EntryRow /\ z \in EntryRow
    BY <1>1, <1>2, <1>3
  <2>2. SignOn(x, a) = 0 /\ SignOn(y, a) = 0 /\ SignOn(z, a) = - (amount + fee)
    BY <1>1, <1>2, <1>3
  <2>3. StripeNet = - (amount + fee)
    BY <1>5 DEF PostedFee, FeeBearingTypes, StripeNet
  <2>4. txn.entries = add(add(add(<<>>, x), y), z)
    BY <1>5, PostedEntries
  <2> HIDE DEF x, y, z
  <2>5. account_balance(add(add(add(<<>>, x), y), z), a)
          = SignOn(x, a) + SignOn(y, a) + SignOn(z, a)
    BY <2>1, ThreeBalance
  <2> QED BY <1>1, <2>2, <2>3, <2>4, <2>5
<1>6. CASE ev.type = "charge.refunded"
  <2> DEFINE x == E("refunds_contra", "debit", refund)
             y == E(a, "credit", refund)
  <2>1. x \in EntryRow /\ y \in EntryRow
    BY <1>1, <1>2, <1>3
  <2>2. SignOn(x, a) = 0 /\ SignOn(y, a) = - refund
    BY <1>1, <1>2, <1>3
  <2>3. StripeNet = - refund
    BY <1>1, <1>6 DEF StripeNet, Refunded
  <2>4. txn.entries = add(add(<<>>, x), y)
    BY <1>6, PostedEntries
  <2> HIDE DEF x, y
  <2>5. account_balance(add(add(<<>>, x), y), a)
          = SignOn(x, a) + SignOn(y, a)
    BY <2>1, TwoBalance
  <2> QED BY <1>1, <2>2, <2>3, <2>4, <2>5
<1>7. CASE ev.type = "payout.paid"
  <2> DEFINE x == E("bank", "debit", amount)
             y == E(a, "credit", amount)
  <2>1. x \in EntryRow /\ y \in EntryRow
    BY <1>1, <1>2, <1>3
  <2>2. SignOn(x, a) = 0 /\ SignOn(y, a) = - amount
    BY <1>1, <1>2, <1>3
  <2>3. StripeNet = - amount
    BY <1>7 DEF StripeNet
  <2>4. txn.entries = add(add(<<>>, x), y)
    BY <1>7, PostedEntries
  <2> HIDE DEF x, y
  <2>5. account_balance(add(add(<<>>, x), y), a)
          = SignOn(x, a) + SignOn(y, a)
    BY <2>1, TwoBalance
  <2> QED BY <1>1, <2>2, <2>3, <2>4, <2>5
<1> QED BY <1>4, <1>5, <1>6, <1>7, PostedEntries

(* A posting moves stripe_balance by what the movement is worth at Stripe, for
   any amount and fee, wherever the fee came from and however often its fetch
   had to wait for settlement; for a dispute, if the list of its balance
   transactions is expanded or has no more than one member.  Of any other list
   handlers.py fetches one member, and the statement says nothing. *)
THEOREM PostingMatchesStripe == Spec => []NetMatchesStripe
<1>1. MapInv => NetMatchesStripe
  BY NetIsStripes DEF NetMatchesStripe, Posts
<1>2. QED
  BY <1>1, MapStart, MapStep, PTL DEF Spec

-----------------------------------------------------------------------------
(* What the database makes of it. *)

(* An entry the database takes, or add leaves out. *)
Fit(n) ==
  /\ n \in EntryRow
  /\ n.amount >= 0
  /\ n.account \in AccountNames
  /\ n.currency = Chart[n.account].currency

Good(es) ==
  /\ es \in Seq(EntryRow)
  /\ \A k \in 1 .. Len(es) : es[k].account \in AccountNames /\ EntryAccepted(es[k])

(* add of an entry that fits keeps every row acceptable. *)
LEMMA AddGood ==
  ASSUME NEW es, Good(es), NEW n, Fit(n)
  PROVE  Good(add(es, n)) /\ Len(es) \in Nat
         /\ Len(add(es, n)) = IF n.amount = 0 THEN Len(es) ELSE Len(es) + 1
<1>1. es \in Seq(EntryRow) /\ n \in EntryRow /\ Len(es) \in Nat
  BY DEF Good, Fit
<1>2. CASE n.amount = 0
  BY <1>1, <1>2 DEF add
<1>3. CASE n.amount # 0
  <2> DEFINE xs == Append(es, n)
  <2>1. /\ xs \in Seq(EntryRow) /\ Len(xs) = Len(es) + 1
        /\ \A k \in 1 .. Len(es) : xs[k] = es[k]
        /\ xs[Len(es) + 1] = n /\ n.amount \in Int
    BY <1>1, AppendIs
  <2>2. n.amount > 0
    BY <1>3, <2>1 DEF Fit
  <2> HIDE DEF xs
  <2>3. \A k \in 1 .. Len(xs) : k \in 1 .. Len(es) \/ k = Len(es) + 1
    BY <1>1, <2>1
  <2>4. Good(xs)
    BY <2>1, <2>2, <2>3 DEF Good, Fit, EntryAccepted
  <2> QED BY <1>1, <1>3, <2>1, <2>4 DEF add, xs
<1> QED BY <1>2, <1>3

(* Acceptable rows that net to zero pass the deferred triggers. *)
LEMMA GoodPosts ==
  ASSUME NEW es, Good(es), Len(es) >= 2, \A cur : Net(es, InCur(es, cur)) = 0,
         NEW t, t.entries = es
  PROVE  Acceptable(t)
<1>1. /\ Rows(es) /\ Sides(es) /\ DOMAIN es = 1 .. Len(es)
      /\ Cardinality(DOMAIN es) = Len(es)
  BY SeqRows DEF Good
<1>2. assert_txn_balanced(es)
  BY <1>1, ZeroIsBalanced DEF assert_txn_balanced
<1>3. assert_txn_min_entries(es)
  BY <1>1 DEF assert_txn_min_entries
<1> QED BY <1>1, <1>2, <1>3 DEF Acceptable, AccountsKnown, DeferredTriggersPass, Good

(* Three entries, of which at least two are not zero. *)
LEMMA ThreePost ==
  ASSUME NEW x, NEW y, NEW z, Fit(x), Fit(y), Fit(z), x.amount + y.amount > 0, z.amount > 0,
         \A cur : SignIn(x, cur) + SignIn(y, cur) + SignIn(z, cur) = 0,
         NEW t, t.entries = add(add(add(<<>>, x), y), z)
  PROVE  Acceptable(t)
<1> DEFINE e0 == <<>>
<1>1. Good(e0) /\ Len(e0) = 0 /\ \A cur : Net(e0, InCur(e0, cur)) = 0
  BY NoEntries DEF Good
<1> HIDE DEF e0
<1> DEFINE e1 == add(e0, x)
<1>2. /\ Good(e1) /\ Len(e1) = (IF x.amount = 0 THEN 0 ELSE 1)
      /\ \A cur : Net(e1, InCur(e1, cur)) = SignIn(x, cur)
  <2>1. \A cur : Net(e1, InCur(e1, cur)) = Net(e0, InCur(e0, cur)) + SignIn(x, cur)
    BY <1>1, AddNet DEF Good, Fit
  <2>2. \A cur : SignIn(x, cur) \in Int
    BY DEF SignIn, Fit, EntryRow
  <2>3. Good(e1) /\ Len(e1) = IF x.amount = 0 THEN 0 ELSE 0 + 1
    BY <1>1, AddGood
  <2>4. \A cur : Net(e1, InCur(e1, cur)) = SignIn(x, cur)
    BY <1>1, <2>1, <2>2
  <2> QED BY <2>3, <2>4
<1> HIDE DEF e1
<1> DEFINE e2 == add(e1, y)
<1>3. /\ Good(e2) /\ Len(e2) = (IF y.amount = 0 THEN Len(e1) ELSE Len(e1) + 1)
      /\ \A cur : Net(e2, InCur(e2, cur)) = SignIn(x, cur) + SignIn(y, cur)
  <2>1. \A cur : Net(e2, InCur(e2, cur)) = Net(e1, InCur(e1, cur)) + SignIn(y, cur)
    BY <1>2, AddNet DEF Good, Fit
  <2>2. Good(e2) /\ Len(e2) = IF y.amount = 0 THEN Len(e1) ELSE Len(e1) + 1
    BY <1>2, AddGood
  <2> QED BY <1>2, <2>1, <2>2
<1> HIDE DEF e2
<1> DEFINE e3 == add(e2, z)
<1>4. /\ Good(e3) /\ Len(e3) = (IF z.amount = 0 THEN Len(e2) ELSE Len(e2) + 1)
      /\ \A cur : Net(e3, InCur(e3, cur)) = 0
  <2>1. \A cur : Net(e3, InCur(e3, cur)) = Net(e2, InCur(e2, cur)) + SignIn(z, cur)
    BY <1>3, AddNet DEF Good, Fit
  <2>2. Good(e3) /\ Len(e3) = IF z.amount = 0 THEN Len(e2) ELSE Len(e2) + 1
    BY <1>3, AddGood
  <2> QED BY <1>3, <2>1, <2>2
<1>5. Len(e3) >= 2
  BY <1>2, <1>3, <1>4 DEF Fit, EntryRow
<1>6. t.entries = e3
  BY DEF e0, e1, e2
<1> HIDE DEF e3
<1> QED BY <1>4, <1>5, <1>6, GoodPosts

(* Two entries, neither of them zero. *)
LEMMA TwoPost ==
  ASSUME NEW x, NEW y, Fit(x), Fit(y), x.amount > 0, y.amount > 0,
         \A cur : SignIn(x, cur) + SignIn(y, cur) = 0,
         NEW t, t.entries = add(add(<<>>, x), y)
  PROVE  Acceptable(t)
<1> DEFINE e0 == <<>>
<1>1. Good(e0) /\ Len(e0) = 0 /\ \A cur : Net(e0, InCur(e0, cur)) = 0
  BY NoEntries DEF Good
<1> HIDE DEF e0
<1> DEFINE e1 == add(e0, x)
<1>2. /\ Good(e1) /\ Len(e1) = 1
      /\ \A cur : Net(e1, InCur(e1, cur)) = SignIn(x, cur)
  <2>1. \A cur : Net(e1, InCur(e1, cur)) = Net(e0, InCur(e0, cur)) + SignIn(x, cur)
    BY <1>1, AddNet DEF Good, Fit
  <2>2. \A cur : SignIn(x, cur) \in Int
    BY DEF SignIn, Fit, EntryRow
  <2>3. Good(e1) /\ Len(e1) = IF x.amount = 0 THEN 0 ELSE 0 + 1
    BY <1>1, AddGood
  <2>4. \A cur : Net(e1, InCur(e1, cur)) = SignIn(x, cur)
    BY <1>1, <2>1, <2>2
  <2> QED BY <2>3, <2>4
<1> HIDE DEF e1
<1> DEFINE e2 == add(e1, y)
<1>3. /\ Good(e2) /\ Len(e2) = 2
      /\ \A cur : Net(e2, InCur(e2, cur)) = 0
  <2>1. \A cur : Net(e2, InCur(e2, cur)) = Net(e1, InCur(e1, cur)) + SignIn(y, cur)
    BY <1>2, AddNet DEF Good, Fit
  <2>2. Good(e2) /\ Len(e2) = IF y.amount = 0 THEN Len(e1) ELSE Len(e1) + 1
    BY <1>2, AddGood
  <2> QED BY <1>2, <2>1, <2>2
<1>4. t.entries = e2
  BY DEF e0, e1
<1> HIDE DEF e2
<1> QED BY <1>3, <1>4, GoodPosts, SMTT(30)

(* What an entry of the event's currency nets to. *)
Sign(d, n, cur) == IF cur # "USD" THEN 0 ELSE IF d = "debit" THEN n ELSE - n

(* Real movements are accepted, type by type. *)
LEMMA SaneIsAcceptable ==
  ASSUME MapInv, stage = "built", ev.object.currency = "USD",
         StripeNet # 0 \/ ev.type = "charge.succeeded", ev.object.amount > 0,
         ev.type = "charge.refunded" => ev.object.amount_refunded > 0,
         FeeLearnable \/ \A k \in DOMAIN ev.object.bts : ev.object.bts[k].fee >= 0,
         StripeFee >= 0, ev.type = "charge.succeeded" => StripeFee <= ev.object.amount
  PROVE  Acceptable(txn)
<1> DEFINE amount == ev.object.amount
           refund == RefundAmount(ev.object)
           fee == PostedFee
<1>1. /\ ev \in Inputs /\ ev.object # NULL /\ amount \in Int /\ fee \in Int /\ refund \in Int
      /\ refund = Refunded(ev.object)
      /\ refund >= 0 \/ refund = ev.object.amount_refunded
  BY ObjectOf, RefundIs DEF MapInv
<1>2. /\ "stripe_balance" \in DOMAIN SeedChart /\ "processing_fees" \in DOMAIN SeedChart
      /\ "revenue" \in DOMAIN SeedChart /\ "dispute_losses" \in DOMAIN SeedChart
      /\ "refunds_contra" \in DOMAIN SeedChart /\ "bank" \in DOMAIN SeedChart
      /\ \A a \in DOMAIN SeedChart : SeedChart[a].currency = "USD"
  BY DEF SeedChart
<1>3. ASSUME NEW a \in DOMAIN SeedChart, NEW d \in {"debit", "credit"}, NEW n \in Int, n >= 0
      PROVE  /\ Fit(E(a, d, n)) /\ E(a, d, n).amount = n
             /\ \A cur : SignIn(E(a, d, n), cur) = Sign(d, n, cur)
  <2>1. /\ E(a, d, n) \in EntryRow
        /\ E(a, d, n).account = a /\ E(a, d, n).dir = d /\ E(a, d, n).amount = n
        /\ E(a, d, n).currency = "USD"
        /\ a \in AccountNames /\ Chart[a].currency = "USD"
    BY <1>1, <1>2, <1>3, SeedEntry
  <2>2. Fit(E(a, d, n))
    BY <1>3, <2>1 DEF Fit
  <2> QED BY <2>1, <2>2 DEF SignIn, Sign
<1>4. CASE ev.type = "charge.succeeded"
  <2> DEFINE x == E("stripe_balance", "debit", amount - fee)
             y == E("processing_fees", "debit", fee)
             z == E("revenue", "credit", amount)
  <2>0. fee >= 0 /\ amount - fee >= 0 /\ amount - fee \in Int
    <3>1. FeeLearnable
      BY <1>1, <1>4, ObjectOf DEF FeeLearnable
    <3> QED BY <1>1, <1>4, <3>1 DEF PostedFee, FeeBearingTypes
  <2>1. Fit(x) /\ x.amount = amount - fee /\ \A cur : SignIn(x, cur) = Sign("debit", amount - fee, cur)
    BY <1>1, <1>2, <1>3, <2>0
  <2>2. Fit(y) /\ y.amount = fee /\ \A cur : SignIn(y, cur) = Sign("debit", fee, cur)
    BY <1>1, <1>2, <1>3, <2>0
  <2>3. Fit(z) /\ z.amount = amount /\ \A cur : SignIn(z, cur) = Sign("credit", amount, cur)
    BY <1>1, <1>2, <1>3, <2>0
  <2>4. \A cur : SignIn(x, cur) + SignIn(y, cur) + SignIn(z, cur) = 0
    BY <1>1, <2>0, <2>1, <2>2, <2>3 DEF Sign
  <2>5. txn.entries = add(add(add(<<>>, x), y), z)
    BY <1>4, PostedEntries
  <2> HIDE DEF x, y, z
  <2> QED BY <1>1, <2>0, <2>1, <2>2, <2>3, <2>4, <2>5, ThreePost
<1>5. CASE ev.type = "charge.dispute.created"
  <2> DEFINE x == E("dispute_losses", "debit", amount)
             y == E("processing_fees", "debit", fee)
             z == E("stripe_balance", "credit", amount + fee)
  <2>0. fee >= 0 /\ amount + fee > 0 /\ amount + fee \in Int
    <3>1. ~ FeeLearnable => FirstMissing >= 0
      BY <1>1, ResolvedFirst
    <3> QED BY <1>1, <1>5, <3>1 DEF PostedFee, FeeBearingTypes
  <2>1. Fit(x) /\ x.amount = amount /\ \A cur : SignIn(x, cur) = Sign("debit", amount, cur)
    BY <1>1, <1>2, <1>3, <2>0
  <2>2. Fit(y) /\ y.amount = fee /\ \A cur : SignIn(y, cur) = Sign("debit", fee, cur)
    BY <1>1, <1>2, <1>3, <2>0
  <2>3. Fit(z) /\ z.amount = amount + fee /\ \A cur : SignIn(z, cur) = Sign("credit", amount + fee, cur)
    BY <1>1, <1>2, <1>3, <2>0
  <2>4. \A cur : SignIn(x, cur) + SignIn(y, cur) + SignIn(z, cur) = 0
    BY <1>1, <2>0, <2>1, <2>2, <2>3 DEF Sign
  <2>5. txn.entries = add(add(add(<<>>, x), y), z)
    BY <1>5, PostedEntries
  <2> HIDE DEF x, y, z
  <2> QED BY <1>1, <2>0, <2>1, <2>2, <2>3, <2>4, <2>5, ThreePost
<1>6. CASE ev.type = "charge.refunded"
  <2> DEFINE x == E("refunds_contra", "debit", refund)
             y == E("stripe_balance", "credit", refund)
  <2>0. refund > 0
    BY <1>1, <1>6 DEF StripeNet, Refunded
  <2>1. Fit(x) /\ x.amount = refund /\ \A cur : SignIn(x, cur) = Sign("debit", refund, cur)
    BY <1>1, <1>2, <1>3, <2>0
  <2>2. Fit(y) /\ y.amount = refund /\ \A cur : SignIn(y, cur) = Sign("credit", refund, cur)
    BY <1>1, <1>2, <1>3, <2>0
  <2>4. \A cur : SignIn(x, cur) + SignIn(y, cur) = 0
    BY <1>1, <2>0, <2>1, <2>2 DEF Sign
  <2>5. txn.entries = add(add(<<>>, x), y)
    BY <1>6, PostedEntries
  <2> HIDE DEF x, y
  <2> QED BY <1>1, <2>0, <2>1, <2>2, <2>4, <2>5, TwoPost
<1>7. CASE ev.type = "payout.paid"
  <2> DEFINE x == E("bank", "debit", amount)
             y == E("stripe_balance", "credit", amount)
  <2>0. amount > 0
    BY <1>1
  <2>1. Fit(x) /\ x.amount = amount /\ \A cur : SignIn(x, cur) = Sign("debit", amount, cur)
    BY <1>1, <1>2, <1>3, <2>0
  <2>2. Fit(y) /\ y.amount = amount /\ \A cur : SignIn(y, cur) = Sign("credit", amount, cur)
    BY <1>1, <1>2, <1>3, <2>0
  <2>4. \A cur : SignIn(x, cur) + SignIn(y, cur) = 0
    BY <1>1, <2>0, <2>1, <2>2 DEF Sign
  <2>5. txn.entries = add(add(<<>>, x), y)
    BY <1>7, PostedEntries
  <2> HIDE DEF x, y
  <2> QED BY <1>1, <2>0, <2>1, <2>2, <2>4, <2>5, TwoPost
<1> QED BY <1>4, <1>5, <1>6, <1>7, PostedEntries

(* Every movement of real dollars is accepted by the checks and the triggers:
   any amount, any fee up to the amount of a charge, any dispute fee. *)
THEOREM SaneEventsArePosted == Spec => []SaneEventsPost
<1>1. MapInv => SaneEventsPost
  BY SaneIsAcceptable DEF SaneEventsPost
<1>2. QED
  BY <1>1, MapStart, MapStep, PTL DEF Spec

=============================================================================
