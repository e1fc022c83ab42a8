------------------------------- MODULE Recon --------------------------------
(***************************************************************************)
(* recon/reconciler.py and recon/breaks.py: the two read-only diffs of the *)
(* ledger, against the events a caller knows it delivered and against      *)
(* Stripe's balance transactions.  A ledger is a set of transactions, of   *)
(* which the reconciler loads one number per account.  A break is a record *)
(* [kind, object, event, expected, actual] without its detail text.  A     *)
(* balance transaction is a record [id, source, amount, fee]; its source   *)
(* is NULL for one that no object caused.                                  *)
(***************************************************************************)
EXTENDS LedgerSchema

Break(kind, object, event, expected, actual) ==
  [kind |-> kind, object |-> object, event |-> event,
   expected |-> expected, actual |-> actual]

(* A transaction reduced to its signed net effect per account, 0 where the
   code's dict has no key; the sign is that of the account_balances view. *)
_LedgerTxn(t) ==
  [txn_id |-> t.id, event_id |-> t.event, object_id |-> t.object,
   delta |-> [a \in AccountNames |-> account_balance(t.entries, a)],
   debit_total |-> Total(t.entries,
                         {k \in DOMAIN t.entries : t.entries[k].dir = "debit"})]

(* Only the entries on accounts of the currency are joined in. *)
InCurrency(t, currency) ==
  [t EXCEPT !.entries =
     SelectSeq(@, LAMBDA n : Chart[n.account].currency = currency)]

(* The query is an inner join: a transaction with no entry in the currency
   has no row.  `currency' is NULL for all of them. *)
_load_ledger(txns, currency) ==
  IF currency = NULL THEN {_LedgerTxn(t) : t \in txns}
  ELSE {_LedgerTxn(t) : t \in {u \in {InCurrency(t, currency) : t \in txns} :
                                 u.entries # <<>>}}

_magnitude(delta) ==
  SumFunction([a \in DOMAIN delta |-> IF delta[a] < 0 THEN - delta[a] ELSE delta[a]])
    \div 2

(* The sums are linear in the rows: they are taken transaction by
   transaction. *)
LedgerSum(txns, normal, currency) ==
  SumFunction([t \in txns |-> NormalSum(t.entries, normal, currency)])

_invariant_breaks(txns) ==
  {Break("invariant_violation", NULL, NULL, LedgerSum(txns, "credit", cur),
         LedgerSum(txns, "debit", cur)) :
     cur \in {c \in {Chart[a].currency : a \in AccountNames} :
                LedgerSum(txns, "debit", c) # LedgerSum(txns, "credit", c)}}

MissingInSource(t) ==
  Break("missing_in_source", t.object_id, t.event_id, NULL, t.debit_total)

-----------------------------------------------------------------------------

(* reconcile_expected.  `expected' is a set of [event_id, delta]: repeated
   ids are one expectation.  The invariant is read after the ledger by a
   statement of its own, hence of a ledger that may have grown. *)
reconcile_expected(txns, txnsAtCheck, expected) ==
  LET ledger == _load_ledger(txns, "USD")
      of(x)  == {t \in ledger : t.event_id = x.event_id}
      zero   == [a \in AccountNames |-> 0]
  IN  {Break("missing_in_ledger", NULL, x.event_id, _magnitude(x.delta), NULL) :
         x \in {y \in expected : of(y) = {} /\ y.delta # zero}}
      \cup UNION {UNION {{Break("amount_mismatch", t.object_id, x.event_id,
                                x.delta[a], t.delta[a]) :
                            a \in {b \in AccountNames : x.delta[b] # t.delta[b]}} :
                           t \in of(x)} : x \in expected}
      \cup {MissingInSource(t) :
              t \in {u \in ledger : \A x \in expected : u.event_id # x.event_id}}
      \cup _invariant_breaks(txnsAtCheck)

-----------------------------------------------------------------------------
(* reconcile_stripe, one balance transaction at a time: the state of its loop
   is [breaks, matched, checked]. *)

_source_id(bt) == bt.source

(* What a missing balance transaction is reported under; Stripe's ids name the
   kind of the object. *)
ObjectId(bt) == IF _source_id(bt) # NULL THEN _source_id(bt) ELSE <<"txn", bt.id>>

NoneCompared == [breaks |-> {}, matched |-> {}, checked |-> 0]

(* The transactions of the object a balance transaction is about. *)
CandidatesOf(ledger, bt) == {t \in ledger : SameNonNull(t.object_id, _source_id(bt))}

(* One not matched yet, or else any of them: a second balance transaction on
   the same object. *)
Match(candidates, matched) ==
  LET fresh == {t \in candidates : t.txn_id \notin matched}
  IN  IF fresh # {} THEN CHOOSE t \in fresh : TRUE ELSE CHOOSE t \in candidates : TRUE

Compare(ledger, state, bt) ==
  LET candidates == CandidatesOf(ledger, bt)
      t == Match(candidates, state.matched)
      fee == t.delta["processing_fees"]
      amount == t.delta["stripe_balance"] + fee
      found ==
        IF candidates = {}
        THEN {Break("missing_in_ledger", ObjectId(bt), NULL, bt.amount, NULL)}
        ELSE {b \in {Break("amount_mismatch", bt.source, t.event_id, bt.amount, amount),
                     Break("fee_mismatch", bt.source, t.event_id, bt.fee, fee)} :
                b.expected # b.actual}
  IN  [breaks  |-> state.breaks \cup found,
       matched |-> IF candidates = {} THEN state.matched ELSE state.matched \cup {t.txn_id},
       checked |-> state.checked + 1]

(* What is left of the ledger; transactions with no object are compensating
   entries and out of scope. *)
Unmatched(ledger, matched) ==
  {MissingInSource(t) : t \in {u \in ledger : /\ u.object_id # NULL
                                              /\ u.txn_id \notin matched}}
=============================================================================
