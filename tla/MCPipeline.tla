----------------------------- MODULE MCPipeline -----------------------------
(***************************************************************************)
(* Small instances of Pipeline.  Each cfg picks its Events from the        *)
(* catalogue below; Catalogue, SettledFees and Movements cover them all.   *)
(***************************************************************************)
EXTENDS Pipeline, TLC

CONSTANTS i1, i2, w1, w2, m1, m2, m3, m4

Object(id, amount, refunded, refunds, bts) ==
  [id |-> id, currency |-> "USD", amount |-> amount,
   amount_refunded |-> refunded, refunds |-> refunds, bts |-> bts]

Event(id, type, object) == [id |-> id, type |-> type, object |-> object]

Fee(n) == << [expanded |-> TRUE, fee |-> n] >>

Catalogue ==
  [e \in {"charge", "chargeTwin", "intent", "refundA", "refundB"} |->
    CASE e = "charge"     -> \* delivered before settlement: the fee is fetched
           Event(e, "charge.succeeded", Object("ch_1", 10, 0, <<>>, <<>>))
      [] e = "chargeTwin" -> \* a second Event object for the same charge
           Event(e, "charge.succeeded", Object("ch_1", 10, 0, <<>>, Fee(1)))
      [] e = "intent"     -> \* the payment intent behind the same charge
           Event(e, "payment_intent.succeeded", Object("pi_1", 10, 0, <<>>, Fee(1)))
      [] e = "refundA"    -> \* two partial refunds of one charge
           Event(e, "charge.refunded",
             Object("ch_1", 10, 3, << [id |-> "re_1", amount |-> 3] >>, <<>>))
      [] e = "refundB"    ->
           Event(e, "charge.refunded",
             Object("ch_1", 10, 5, << [id |-> "re_2", amount |-> 2],
                                      [id |-> "re_1", amount |-> 3] >>, <<>>))]

SettledFees == [e \in DOMAIN Catalogue |-> Fee(1)]

Movements ==
  [e \in DOMAIN Catalogue |->
    CASE e \in {"charge", "chargeTwin", "intent"} -> "charge 1"
      [] e = "refundA"                            -> "refund 1"
      [] e = "refundB"                            -> "refund 2"]

Symmetry == Permutations(Ingests) \cup Permutations(Workers)
            \cup Permutations(Msgs)
=============================================================================
