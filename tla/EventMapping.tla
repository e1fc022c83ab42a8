---------------------------- MODULE EventMapping ----------------------------
(***************************************************************************)
(* The part of handlers.handle_event in front of the ledger, one event at  *)
(* a time: build the transaction from the payload, fetch the fee when the  *)
(* payload lacks it, build again.                                          *)
(***************************************************************************)
EXTENDS Mapping

CONSTANTS Inputs,   \* events delivered
          Fees      \* fees Stripe may settle a charge with

StripeRefund == [id : STRING \cup {NULL}, amount : Nat \cup {NULL}]

StripeObject ==
  [id : STRING \cup {NULL}, currency : STRING, amount : Int, amount_refunded : Int,
   refunds : Seq(StripeRefund), bts : Seq([expanded : BOOLEAN, fee : Int])]

(* Payloads of the types the worker subscribes to (a charge has one balance
   transaction, a dispute a list), and the accounts the migrations seed. *)
ASSUME EventAssumption ==
  /\ NULL \notin StripeRefund \cup StripeObject
  /\ Fees \subseteq Int
  /\ \A e \in Inputs :
       /\ e.type \in HANDLED_EVENT_TYPES
       /\ e.object \in StripeObject \cup {NULL}
       /\ e.type = "charge.succeeded" /\ e.object # NULL => Len(e.object.bts) <= 1
  /\ \A a \in DOMAIN SeedChart : a \in AccountNames /\ Chart[a] = SeedChart[a]

VARIABLES ev,       \* the event in hand
          settled,  \* Stripe's balance transaction for it, <<>> before settlement
          stage,    \* "start", "fetch", "built", "raised", "no_money"
          txn       \* the transaction built, NULL before

vars == <<ev, settled, stage, txn>>

(* An unsettled charge has no balance transaction in its payload. *)
Init ==
  /\ ev \in Inputs
  /\ settled = <<>>
  /\ stage = "start"
  /\ txn = NULL

(* try: build_transaction(event). *)
BuildFromPayload ==
  LET b == build_transaction(ev, NULL) IN
  /\ stage = "start"
  /\ stage' = CASE b = MissingFeeData -> "fetch"
                [] b = NoTransaction  -> "no_money"
                [] b = Raises         -> "raised"
                [] OTHER              -> "built"
  /\ txn' = IF b \in {MissingFeeData, NoTransaction, Raises} THEN NULL ELSE b
  /\ UNCHANGED <<ev, settled>>

(* The charge settles into Stripe's balance (external). *)
Settle ==
  /\ stage = "fetch"
  /\ settled = <<>>
  /\ ev.object.bts = <<>>
  /\ \E n \in Fees : settled' = << [expanded |-> TRUE, fee |-> n] >>
  /\ UNCHANGED <<ev, stage, txn>>

(* except MissingFeeData: build_transaction(event, fee_minor=_resolve_fee(...)).
   No fee at Stripe yet re-raises; the worker's retry starts over. *)
FetchAndBuild ==
  LET fee == _resolve_fee(ev, settled) IN
  /\ stage = "fetch"
  /\ fee # NULL
  /\ txn' = build_transaction(ev, fee)
  /\ stage' = "built"
  /\ UNCHANGED <<ev, settled>>

NotSettledYet ==
  /\ stage = "fetch"
  /\ _resolve_fee(ev, settled) = NULL
  /\ stage' = "start"
  /\ UNCHANGED <<ev, settled, txn>>

Next == BuildFromPayload \/ Settle \/ FetchAndBuild \/ NotSettledYet

Spec == Init /\ [][Next]_vars

-----------------------------------------------------------------------------

(* Everything Stripe charged for this movement, expanded in the payload or
   not. *)
StripeFee == FeeSum(IF ev.object.bts # <<>> THEN ev.object.bts ELSE settled)

(* What the movement changes in the Stripe balance, by Stripe's books. *)
StripeNet ==
  CASE ev.type = "charge.succeeded"       -> ev.object.amount - StripeFee
    [] ev.type = "charge.dispute.created" -> - (ev.object.amount + StripeFee)
    [] ev.type = "payout.paid"            -> - ev.object.amount
    [] ev.type = "charge.refunded"        ->
         - (IF ev.object.refunds # <<>> /\ ev.object.refunds[1].amount # NULL
            THEN ev.object.refunds[1].amount
            ELSE ev.object.amount_refunded)

(* _resolve_fee fetches one balance transaction, the first that is not
   expanded: of several, it cannot learn the whole fee. *)
FeeLearnable == AllExpanded(ev.object.bts) \/ Len(ev.object.bts) <= 1

Posts == stage = "built" /\ Acceptable(txn)

(* A posting moves the stripe_balance account by what the movement is worth at
   Stripe, wherever the fee came from, unless it is a dispute with several
   balance transactions that are not all expanded; this is the identity the
   reconciler relies on (ledger delta = balance-transaction net). *)
NetMatchesStripe ==
  Posts /\ FeeLearnable => account_balance(txn.entries, "stripe_balance") = StripeNet

(* Every event Stripe can report about real money is accepted by the database,
   up to the edges: no fee at all, a fee that eats the whole amount, a
   dispute without a fee or with fees only some of which are fetched.
   Zero-amount entries are left out for this. *)
SaneEventsPost ==
  /\ stage = "built"
  /\ ev.object.currency = "USD"
  /\ StripeNet # 0 \/ ev.type = "charge.succeeded"
  /\ ev.object.amount > 0
  /\ ev.type = "charge.refunded" => ev.object.amount_refunded > 0
  /\ FeeLearnable \/ \A k \in DOMAIN ev.object.bts : ev.object.bts[k].fee >= 0
  /\ StripeFee >= 0 /\ (ev.type = "charge.succeeded" => StripeFee <= ev.object.amount)
  => Acceptable(txn)
=============================================================================
