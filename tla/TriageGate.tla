----------------------------- MODULE TriageGate -----------------------------
(***************************************************************************)
(* triage/agent.py, triage/schema.py and the repair scoring of             *)
(* triage/bench.py: what becomes of a model's answer, and the gate between *)
(* a proposed repair and the ledger.  A verdict is a record                *)
(* [money_is_missing, proposed_repair]; a proposed repair is a sequence of *)
(* entries in the form of LedgerSchema.  The shape of the request, prose,  *)
(* confidence and the fault classes are left out: the gate does not look   *)
(* at them.                                                                *)
(***************************************************************************)
EXTENDS LedgerSchema

(* The verdict of a TriageResult: none after an APIError or a refusal (an
   HTTP 200 without content), else what the schema parsed. *)
triage(stop_reason, parsed_output) ==
  IF stop_reason \in {"APIError", "refusal"} THEN NULL ELSE parsed_output

-----------------------------------------------------------------------------

Directions == {"debit", "credit"}

(* Mutant: one sum over all currencies. *)
repair_is_balanced_OneSum(entries) ==
  /\ Len(entries) >= 2
  /\ \A k \in DOMAIN entries : entries[k].dir \in Directions
  /\ Total(entries, {k \in DOMAIN entries : entries[k].dir = "debit"})
       = Total(entries, {k \in DOMAIN entries : entries[k].dir = "credit"})

(* Python's mirror of the two deferred triggers. *)
repair_is_balanced(entries) ==
  /\ Len(entries) >= 2
  /\ \A k \in DOMAIN entries : entries[k].dir \in Directions
  /\ \A cur \in {entries[k].currency : k \in DOMAIN entries} :
       SumFunction([k \in DOMAIN entries |->
                      IF entries[k].currency # cur THEN 0
                      ELSE IF entries[k].dir = "debit"
                           THEN entries[k].amount ELSE - entries[k].amount]) = 0

(* approve_and_apply up to the call of post_transaction. *)
RepairRejected(verdict, approved_by) ==
  \/ approved_by = ""
  \/ ~ verdict.money_is_missing
  \/ verdict.proposed_repair = <<>>
  \/ ~ repair_is_balanced(verdict.proposed_repair)

(* The transaction it posts: a fresh id and no Stripe ids. *)
RepairTxn(n, verdict) ==
  [id |-> <<"uuid4", n>>, event |-> NULL, object |-> NULL, type |-> NULL,
   entries |-> verdict.proposed_repair]

(* How the call ends: "rejected" by the gate, POSTED, or what the database
   raises first, an unknown account, an entry's row checks, the triggers. *)
approve_and_apply(verdict, approved_by) ==
  LET es == verdict.proposed_repair IN
  IF RepairRejected(verdict, approved_by) THEN "rejected"
  ELSE IF ~ AccountsKnown(es) THEN "unknown account"
  ELSE IF \E k \in DOMAIN es : ~ EntryAccepted(es[k]) THEN "row check"
  ELSE IF ~ DeferredTriggersPass(es) THEN "trigger"
  ELSE "POSTED"

-----------------------------------------------------------------------------
(* bench.py: would the proposal make the books right? *)

(* Mutant: each leg is added to what was observed, so the last one on an
   account wins. *)
apply_repair_LastWins(observed, entries) ==
  [a \in AccountNames |->
     LET on == {k \in DOMAIN entries : entries[k].account = a} IN
     IF on = {} THEN observed[a]
     ELSE LET n == entries[Max(on)] IN
          observed[a] + (IF n.dir = Chart[a].normal THEN n.amount ELSE - n.amount)]

(* The sign rule of the account_balances view, for the seeded accounts
   (ACCOUNT_NORMALS); an entry on any other account changes nothing. *)
apply_repair(observed, entries) ==
  [a \in AccountNames |->
     observed[a]
     + SumFunction([k \in DOMAIN entries |->
                      IF entries[k].account # a \/ a \notin DOMAIN SeedChart THEN 0
                      ELSE IF entries[k].dir = SeedChart[a].normal
                           THEN entries[k].amount ELSE - entries[k].amount])]

repair_restores_expected_balances(observed, expected, verdict) ==
  /\ verdict.proposed_repair # <<>>
  /\ repair_is_balanced(verdict.proposed_repair)
  /\ apply_repair(observed, verdict.proposed_repair) = expected
=============================================================================
