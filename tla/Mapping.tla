------------------------------ MODULE Mapping -------------------------------
(***************************************************************************)
(* stripe_io/mapping.py: the pure translation of a Stripe event into a     *)
(* double-entry transaction, and worker/handlers.py's _resolve_fee.        *)
(*                                                                         *)
(* An event is a record [id, type, object]; `object' is NULL when the      *)
(* envelope has no data.object, otherwise a record                         *)
(*   id               object id, or NULL                                   *)
(*   currency         already upper-cased                                  *)
(*   amount           gross amount of a charge, dispute or payout          *)
(*   amount_refunded  cumulative refunded amount of a charge               *)
(*   refunds          newest-first sequence of [id, amount], NULL for a    *)
(*                    field that is missing; <<>> stands for an absent,    *)
(*                    empty or malformed list                              *)
(*   bts              balance transactions, each [expanded, fee]: at most  *)
(*                    one for a charge (<<>> is balance_transaction=null), *)
(*                    the list of a dispute.  An unexpanded one is an id   *)
(*                    string in the payload; its fee is what Stripe        *)
(*                    answers when it is fetched.                          *)
(***************************************************************************)
EXTENDS LedgerSchema

(* None is no fee. *)
ASSUME NullAssumption == NULL \notin Int

HANDLED_EVENT_TYPES ==
  {"charge.succeeded", "charge.refunded", "charge.dispute.created",
   "payout.paid", "invoice.payment_failed"}

(* Results of build_transaction other than a transaction. *)
NoTransaction  == [result |-> "None"]            \* the event moves no money
MissingFeeData == [result |-> "MissingFeeData"]  \* the fee must be fetched
Raises         == [result |-> "ValueError"]      \* or KeyError, TypeError

(* obj.refunds.data[0]: Stripe lists refunds newest first. *)
_newest_refund(obj) == IF obj.refunds = <<>> THEN NULL ELSE obj.refunds[1]

(* Mutant: data.object.id alone, which for a refund is the charge (R3). *)
money_movement_object_id_OfObject(ev) ==
  IF ev.object = NULL THEN NULL ELSE ev.object.id

RefundId(obj) == IF _newest_refund(obj) = NULL THEN NULL ELSE _newest_refund(obj).id

(* The id of the object that moved the money: for a refund, the refund, when
   the payload names it. *)
money_movement_object_id(ev) ==
  IF ev.object = NULL THEN NULL
  ELSE IF ev.type = "charge.refunded" /\ RefundId(ev.object) # NULL
       THEN RefundId(ev.object)
       ELSE ev.object.id

FeeSum(bts) == SumFunction([k \in DOMAIN bts |-> bts[k].fee])

AllExpanded(bts) == bts # <<>> /\ \A k \in DOMAIN bts : bts[k].expanded

(* _charge_fee / _dispute_fee: an expanded payload wins, then fee_minor. *)
PayloadFee(obj, fee_minor) ==
  IF AllExpanded(obj.bts) THEN FeeSum(obj.bts) ELSE fee_minor

(* Mutant: the cumulative amount in place of this refund's. *)
RefundAmount_Cumulative(obj) == obj.amount_refunded

RefundAmount(obj) ==
  IF _newest_refund(obj) # NULL /\ _newest_refund(obj).amount # NULL
  THEN _newest_refund(obj).amount
  ELSE obj.amount_refunded

(* Mutant: zero amounts become entries too. *)
add_KeepAll(es, n) == Append(es, n)

(* `add' skips a zero amount. *)
add(es, n) == IF n.amount = 0 THEN es ELSE Append(es, n)

(* The entries in the order the code adds them. *)
Entries(ev, fee) ==
  LET obj == ev.object
      entry(a, d, n) == [account |-> a, dir |-> d, amount |-> n,
                         currency |-> obj.currency]
      pair(x, y) == add(add(<<>>, x), y)
      refund == RefundAmount(obj)
  IN  CASE ev.type \in {"charge.succeeded", "payment_intent.succeeded"} ->
             add(pair(entry("stripe_balance", "debit", obj.amount - fee),
                      entry("processing_fees", "debit", fee)),
                 entry("revenue", "credit", obj.amount))
        [] ev.type = "charge.refunded" ->
             pair(entry("refunds_contra", "debit", refund),
                  entry("stripe_balance", "credit", refund))
        [] ev.type = "charge.dispute.created" ->
             add(pair(entry("dispute_losses", "debit", obj.amount),
                      entry("processing_fees", "debit", fee)),
                 entry("stripe_balance", "credit", obj.amount + fee))
        [] ev.type = "payout.paid" ->
             pair(entry("bank", "debit", obj.amount),
                  entry("stripe_balance", "credit", obj.amount))

(* Event types build_transaction maps to entries: one more than the worker
   subscribes to. *)
MappedTypes ==
  {"charge.succeeded", "payment_intent.succeeded", "charge.refunded",
   "charge.dispute.created", "payout.paid"}

FeeBearingTypes ==
  {"charge.succeeded", "payment_intent.succeeded", "charge.dispute.created"}

(* fee_minor is NULL on the first call and the fetched fee on the second. *)
build_transaction(ev, fee_minor) ==
  IF ev.object = NULL THEN Raises
  ELSE IF ev.type = "invoice.payment_failed" THEN NoTransaction
  ELSE IF ev.type \notin MappedTypes THEN Raises
  ELSE LET fee == IF ev.type \in FeeBearingTypes
                  THEN PayloadFee(ev.object, fee_minor) ELSE 0
       IN IF fee = NULL THEN MissingFeeData
          ELSE [id      |-> <<"uuid5", ev.id>>,
                event   |-> ev.id,
                object  |-> money_movement_object_id(ev),
                type    |-> ev.type,
                entries |-> Entries(ev, fee)]

(* _resolve_fee: the balance transaction the payload names, or else the
   charge re-fetched with it expanded; `settled' is the balance transaction
   Stripe holds for the charge by then (<<>>: none yet, the fetch re-raises).
   Of a dispute's list, only the first unexpanded id is fetched. *)
_resolve_fee(ev, settled) ==
  LET ids == {k \in DOMAIN ev.object.bts : ~ ev.object.bts[k].expanded}
  IN  IF ids # {} THEN ev.object.bts[Min(ids)].fee
      ELSE IF ev.type = "charge.succeeded" /\ ev.object.id # NULL /\ settled # <<>>
           THEN settled[1].fee
           ELSE NULL
=============================================================================
