------------------------------ MODULE Fixtures ------------------------------
(***************************************************************************)
(* harness/events.py and the generator half of harness/scenarios.py: the   *)
(* Stripe events the chaos harness mints, and what each of them should do  *)
(* to the ledger by the harness's OWN double-entry table, which is not the *)
(* mapping's.                                                              *)
(*                                                                         *)
(* An id is a tuple of its prefix and the seq it is derived from.  A delta *)
(* is a function on all accounts; 0 stands for an account the code's dict  *)
(* leaves out.  Amounts are in minor units, timestamps are left out.       *)
(***************************************************************************)
EXTENDS Mapping

CONSTANT Draw  \* seq -> [amount, refunded]: what the seeded generator drew

_MIN_AMOUNT == 100

_MAX_AMOUNT == 100 * 1000

(* The two randrange calls of scenarios._fixture. *)
ASSUME DrawAssumption ==
  \A seq \in DOMAIN Draw :
    /\ Draw[seq].amount \in _MIN_AMOUNT .. _MAX_AMOUNT - 1
    /\ Draw[seq].refunded \in 1 .. Draw[seq].amount

ACCOUNT_NORMALS ==
  [a \in {"stripe_balance", "bank", "processing_fees", "dispute_losses",
          "refunds_contra", "revenue", "customer_liability"} |->
     IF a \in {"revenue", "customer_liability"} THEN "credit" ELSE "debit"]

ALL_KINDS == <<"charge_succeeded", "charge_refunded", "dispute_created",
               "payout_paid", "invoice_payment_failed">>

NoDelta == [a \in DOMAIN ACCOUNT_NORMALS |-> 0]

signed_delta(account, dir, amount) ==
  IF dir = ACCOUNT_NORMALS[account] THEN amount ELSE - amount

(* The net effect of entries <<account, dir, amount>>. *)
_delta(entries) ==
  [a \in DOMAIN ACCOUNT_NORMALS |->
     SumFunctionOnSet([k \in DOMAIN entries |->
                         signed_delta(a, entries[k][2], entries[k][3])],
                      {k \in DOMAIN entries : entries[k][1] = a})]

_envelope(seq, type, obj) == [id |-> <<"evt", seq>>, type |-> type, object |-> obj]

(* Embedded in the payload, so the worker never has to fetch a fee. *)
_balance_transaction(fee) == << [expanded |-> TRUE, fee |-> fee] >>

EventFixture(kind, event, entries) ==
  [kind |-> kind, event |-> event, expected_delta |-> _delta(entries)]

Payment(id, amount, refunded, refunds, bts) ==
  [id |-> id, currency |-> "USD", amount |-> amount,
   amount_refunded |-> refunded, refunds |-> refunds, bts |-> bts]

make_charge_succeeded(seq, amount, fee) ==
  EventFixture("charge_succeeded",
    _envelope(seq, "charge.succeeded",
              Payment(<<"ch", seq>>, amount, 0, <<>>, _balance_transaction(fee))),
    << <<"stripe_balance", "debit", amount - fee>>,
       <<"processing_fees", "debit", fee>>,
       <<"revenue", "credit", amount>> >>)

make_charge_refunded(seq, amount, refunded) ==
  EventFixture("charge_refunded",
    _envelope(seq, "charge.refunded",
              Payment(<<"ch", seq>>, amount, refunded,
                      << [id |-> <<"re", seq>>, amount |-> refunded] >>, <<>>)),
    << <<"refunds_contra", "debit", refunded>>,
       <<"stripe_balance", "credit", refunded>> >>)

make_dispute_created(seq, amount, fee) ==
  EventFixture("dispute_created",
    _envelope(seq, "charge.dispute.created",
              Payment(<<"dp", seq>>, amount, 0, <<>>, _balance_transaction(fee))),
    << <<"dispute_losses", "debit", amount>>,
       <<"processing_fees", "debit", fee>>,
       <<"stripe_balance", "credit", amount + fee>> >>)

make_payout_paid(seq, amount) ==
  EventFixture("payout_paid",
    _envelope(seq, "payout.paid", Payment(<<"po", seq>>, amount, 0, <<>>, <<>>)),
    << <<"bank", "debit", amount>>, <<"stripe_balance", "credit", amount>> >>)

(* No money moves: an event-log row, never a transaction. *)
make_invoice_payment_failed(seq, amount) ==
  EventFixture("invoice_payment_failed",
    _envelope(seq, "invoice.payment_failed",
              Payment(<<"in", seq>>, amount, 0, <<>>, <<>>)),
    <<>>)

-----------------------------------------------------------------------------
(* scenarios.py *)

_DISPUTE_FEE == 1500

(* 2.9% + 30c, rounded down. *)
_fee(amount) == 30 + (amount * 29) \div 1000

_fixture(kind, seq) ==
  LET amount == Draw[seq].amount IN
  CASE kind = "charge_succeeded" -> make_charge_succeeded(seq, amount, _fee(amount))
    [] kind = "charge_refunded"  -> make_charge_refunded(seq, amount, Draw[seq].refunded)
    [] kind = "dispute_created"  -> make_dispute_created(seq, amount, _DISPUTE_FEE)
    [] kind = "payout_paid"      -> make_payout_paid(seq, amount)
    [] kind = "invoice_payment_failed" -> make_invoice_payment_failed(seq, amount)

(* Faults whose ground truth is "exactly one transaction". *)
_NEEDS_MONEY ==
  {"DUPLICATE", "DUPLICATE_OBJECT", "CONCURRENT_DUPLICATE", "REORDER",
   "RESPOND_500", "PARTIAL_WRITE", "DROP"}

_FIXTURE_COUNT(fault) == IF fault = "REORDER" THEN 2 ELSE 1

skip_reason(fault, kind) ==
  kind = "invoice_payment_failed" /\ fault \in _NEEDS_MONEY

(* Faults x kinds x repeats, in that nesting, the skipped ones left out. *)
Combos(faults, kinds, per_combo) ==
  LET nk == Len(kinds)
      all == [n \in 1 .. Len(faults) * nk * per_combo |->
               [fault |-> faults[((n - 1) \div (nk * per_combo)) + 1],
                kind  |-> kinds[(((n - 1) \div per_combo) % nk) + 1],
                index |-> (n - 1) % per_combo]]
  IN  SelectSeq(all, LAMBDA c : ~ skip_reason(c.fault, c.kind))

(* Every fixture draws the next seq, so no two scenarios of a set collide on
   a dedupe key. *)
generate(faults, kinds, per_combo, start_seq) ==
  LET combos == Combos(faults, kinds, per_combo)
      first(n) == start_seq + MapThenSumSet(LAMBDA j : _FIXTURE_COUNT(combos[j].fault),
                                            1 .. n - 1)
  IN  [n \in DOMAIN combos |->
        [fault    |-> combos[n].fault,
         index    |-> combos[n].index,
         fixtures |-> [k \in 1 .. _FIXTURE_COUNT(combos[n].fault) |->
                         _fixture(combos[n].kind, first(n) + k - 1)]]]
=============================================================================
