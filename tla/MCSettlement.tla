---------------------------- MODULE MCSettlement ----------------------------
(* A small instance of Settlement: it starts from nothing, from a balance
   transaction that no object caused, or from three of which one is posted with
   the wrong fee and one is not posted.  The proposals are one that is right, one
   that has to be refused and one that balances and is wrong. *)
EXTENDS Settlement, TLC

CONSTANT p1

Books == SeedChart @@ ("bank_eur" :> [normal |-> "debit", currency |-> "EUR"])

E(a, d, n, cur) == [account |-> a, dir |-> d, amount |-> n, currency |-> cur]

Amounts == p1 :> 7

FeesTaken == p1 :> 1

Bt(id, source, amount, fee, call) ==
  [id |-> id, source |-> source, amount |-> amount, fee |-> fee, call |-> call]

(* A dispute of 4 with two fees of which one was posted (handlers.py). *)
Dispute ==
  [id |-> <<"uuid5", <<"charge.dispute.created", 2>>>>,
   event |-> <<"charge.dispute.created", 2>>, object |-> <<"dp", 2>>,
   type |-> "charge.dispute.created",
   entries |-> << E("dispute_losses", "debit", 4, "USD"),
                  E("processing_fees", "debit", 1, "USD"),
                  E("stripe_balance", "credit", 5, "USD") >>]

Started ==
  {[bts |-> << Bt(3, <<"ch", 3>>, 10, 1, None), Bt(2, <<"dp", 2>>, -4, 2, None),
               Bt(1, <<"ch", 1>>, 10, 1, None) >>,
    ledger |-> {ChargeTxn(Bt(1, <<"ch", 1>>, 10, 1, None)), Dispute}],
   [bts |-> << Bt(1, NULL, -2, 0, None) >>, ledger |-> {}],  \* a fee of Stripe's
   [bts |-> <<>>, ledger |-> {}]}

Verdict(missing, es) == [money_is_missing |-> missing, proposed_repair |-> es]

ChargeEntries(n, fee) ==
  << E("stripe_balance", "debit", n - fee, "USD"),
     E("processing_fees", "debit", fee, "USD"), E("revenue", "credit", n, "USD") >>

Proposed ==
  {Verdict(TRUE, ChargeEntries(10, 1)),                       \* the missing charge
   Verdict(TRUE, << E("bank", "debit", 5, "USD"),             \* balanced in no currency
                    E("bank_eur", "credit", 5, "EUR") >>),
   Verdict(TRUE, << E("stripe_balance", "credit", 3, "USD"),  \* 3 short on two accounts
                    E("revenue", "debit", 3, "USD") >> \o ChargeEntries(10, 1))}
=============================================================================
