---------------------------- MODULE MCLedgerPost ----------------------------
(***************************************************************************)
(* Small instances of LedgerPost: two books (USD and EUR), a charge and    *)
(* its twin, a repair of two balanced pairs, and three postings the        *)
(* database has to refuse.                                                 *)
(***************************************************************************)
EXTENDS LedgerPost, TLC

CONSTANTS c1, c2

Books ==
  [a \in {"bank", "revenue", "bank_eur", "revenue_eur"} |->
     [normal   |-> IF a \in {"bank", "bank_eur"} THEN "debit" ELSE "credit",
      currency |-> IF a \in {"bank", "revenue"} THEN "USD" ELSE "EUR"]]

E(a, d, n, cur) == [account |-> a, dir |-> d, amount |-> n, currency |-> cur]

Txn(id, event, type, object, es) ==
  [id |-> id, event |-> event, type |-> type, object |-> object, entries |-> es]

Pair(n) == << E("bank", "debit", n, "USD"), E("revenue", "credit", n, "USD") >>

Charge     == Txn("t1", "evt_1", "charge.succeeded", "ch_1", Pair(5))
ChargeTwin == Txn("t2", "evt_2", "charge.succeeded", "ch_1", Pair(5))

(* An approved repair carries no Stripe ids, so only its id is unique. *)
Repair == Txn("t3", NULL, NULL, NULL, Pair(2) \o Pair(3))

(* Euros booked against a dollar account: balanced per entry currency. *)
CrossCurrency ==
  Txn("t4", "evt_4", "charge.succeeded", "ch_4",
      << E("bank", "debit", 4, "EUR"), E("revenue_eur", "credit", 4, "EUR") >>)

(* Fee above gross: a negative debit. *)
NegativeEntry ==
  Txn("t5", "evt_5", "charge.succeeded", "ch_5",
      << E("bank", "debit", -1, "USD"), E("bank", "debit", 2, "USD"),
         E("revenue", "credit", 1, "USD") >>)

Unbalanced == Txn("t6", "evt_6", "payout.paid", "po_6",
                  << E("bank", "debit", 2, "USD"), E("revenue", "credit", 1, "USD") >>)

Unknown == Txn("t7", "evt_7", "payout.paid", "po_7",
               << E("petty_cash", "debit", 1, "USD"), E("revenue", "credit", 1, "USD") >>)

AllTxns   == {Charge, ChargeTwin, Repair, CrossCurrency, NegativeEntry,
              Unbalanced, Unknown}

Symmetry == Permutations(Callers)
=============================================================================
