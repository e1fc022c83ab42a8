--------------------------- MODULE MCEventMapping ---------------------------
(* Bounded inputs for EventMapping: amounts and fees around zero and around
   each other, payloads with and without refunds and fees. *)
EXTENDS EventMapping

Amounts    == 0 .. 3
SmallFees  == -1 .. 3
Currencies == {"USD", "EUR"}

BT(x, n) == [expanded |-> x, fee |-> n]

NoneOrOne == {<<>>} \cup {<< BT(x, n) >> : x \in BOOLEAN, n \in SmallFees}

Refunds ==
  {<<>>} \cup {<< [id |-> i, amount |-> a] >> : i \in {"re_1", NULL}, a \in Amounts}
  \cup {<< [id |-> "re_2", amount |-> a], [id |-> "re_1", amount |-> 1] >> : a \in Amounts}

(* amount_refunded is cumulative over the refunds listed. *)
RefundedTotal(rs) == MapThenSumSet(LAMBDA k : rs[k].amount, DOMAIN rs)

Obj(cur, a, ar, rs, bts) ==
  [id |-> "obj_1", currency |-> cur, amount |-> a, amount_refunded |-> ar,
   refunds |-> rs, bts |-> bts]

Ev(type, obj) == [id |-> "evt_1", type |-> type, object |-> obj]

FeeEvents(types, lists) ==
  {Ev(t, Obj(cur, a, 0, <<>>, bts)) :
     t \in types, cur \in Currencies, a \in Amounts, bts \in lists}

RefundEvents ==
  {Ev("charge.refunded",
      Obj("USD", 3, IF rs = <<>> THEN n ELSE RefundedTotal(rs), rs, <<>>)) :
     rs \in Refunds, n \in Amounts}
  \cup {Ev("charge.refunded",
           Obj("USD", 3, n, << [id |-> "re_1", amount |-> NULL] >>, <<>>)) : n \in Amounts}

Pairs == {<< BT(x, m), BT(y, n) >> : x, y \in BOOLEAN, m, n \in 0 .. 2}

OrdinaryEvents ==
  FeeEvents({"charge.succeeded", "charge.dispute.created"}, NoneOrOne)
  \cup FeeEvents({"charge.dispute.created"}, Pairs)
  \cup FeeEvents({"payout.paid"}, {<<>>})
  \cup RefundEvents
  \cup {Ev("charge.succeeded", NULL),
        Ev("invoice.payment_failed", Obj("USD", 3, 0, <<>>, <<>>))}
=============================================================================
