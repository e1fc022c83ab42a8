----------------------------- MODULE Settlement -----------------------------
(***************************************************************************)
(* The slow loop around the ledger.  Charges are made through the egress   *)
(* client; Stripe's balance grows; the worker posts what the webhooks      *)
(* report, one atomic step of the store each; reconcile_stripe pages       *)
(* through Stripe's balance transactions with the same client while all of *)
(* that goes on; a model is shown the difference and a person may approve  *)
(* the repair it proposes.                                                 *)
(***************************************************************************)
EXTENDS Egress, Mapping, Recon, TriageGate, SequencesExt

CONSTANTS Histories,   \* [bts, ledger]: what there is to start from
          Verdicts,    \* verdicts a model may give
          Approvers,   \* names on an approval, "" for none
          MaxRepairs   \* bound: approvals that post

SourceKinds == {"ch", "re", "dp", "po"}  \* charge, refund, dispute, payout

(* `call' is the call of post() that caused it, None for any other cause. *)
BalanceTransaction ==
  [id : Nat, source : {NULL} \cup (SourceKinds \X Nat), amount : Int, fee : Int,
   call : Posts \cup {None}]

(* A leg of a repair as RepairEntry lets a model state it. *)
RepairEntry == [account : STRING, dir : STRING, amount : Int, currency : STRING]

(* data.object of the event that reports a payment. *)
PaymentObject ==
  [id : {NULL} \cup (SourceKinds \X Nat), currency : {"USD"}, amount : Int,
   amount_refunded : {0}, refunds : {<<>>},
   bts : Seq([expanded : {TRUE}, fee : Int])]

(* What the schema lets be committed. *)
Committable(entries) ==
  /\ AccountsKnown(entries)
  /\ \A k \in DOMAIN entries : EntryAccepted(entries[k])
  /\ DeferredTriggersPass(entries)

ASSUME SettlementAssumption ==
  /\ \A h \in Histories :
       /\ h.bts \in Seq(BalanceTransaction)
       /\ \A k \in DOMAIN h.bts : h.bts[k].call = None
       /\ IsFiniteSet(h.ledger)
       /\ \A t \in h.ledger : t.entries \in Seq(EntryRow)
  /\ \A v \in Verdicts : v.proposed_repair \in Seq(RepairEntry)
  /\ \A a \in DOMAIN SeedChart : a \in AccountNames /\ Chart[a] = SeedChart[a]
  /\ NULL \notin (MappedTypes \X Nat) \cup MappedTypes \cup PaymentObject

(* A history the pipeline can have left: Stripe numbers its balance
   transactions and lists the newest first, what is posted was committed, and
   was posted for an object of a balance transaction, once. *)
ASSUME HistoryAssumption ==
  \A h \in Histories :
    /\ \A k \in DOMAIN h.bts : h.bts[k].id = Len(h.bts) - k + 1
    /\ \A t \in h.ledger :
         /\ Committable(t.entries)
         /\ t.object # NULL => \E k \in DOMAIN h.bts : h.bts[k].source = t.object
         /\ t.object # NULL /\ t.object[1] = "ch" => t.type = "charge.succeeded"
    /\ \A t, u \in h.ledger : SameNonNull(t.object, u.object) => t = u

VARIABLES ledger,   \* posted transactions
          recon,    \* reconcile_stripe, see NotRunning
          proposal  \* the verdict of the last TriageResult, or NULL

vars == <<egressVars, ledger, recon, proposal>>

bookVars == <<ledger, proposal>>

NotRunning == [pc |-> "idle", ledger |-> {}, invariant |-> {}, cursor |-> None,
               seen |-> {}, found |-> NoneCompared, newest |-> 0]

Init ==
  /\ req = [c \in Posts \cup {Reader} |-> Idle]
  /\ wire = {}
  /\ cache = << >>
  /\ faults = 0
  /\ \E h \in Histories : bts = h.bts /\ ledger = h.ledger
  /\ recon = NotRunning
  /\ proposal = NULL

-----------------------------------------------------------------------------
(* Stripe reports a payment twice, as the charge and as the intent behind it;
   the pipeline posts what it handles, sooner, later or never, each event at
   most once (Pipeline). *)

ReportedAs == {"charge.succeeded", "payment_intent.succeeded"}

PaymentEvent(bt, type) ==
  [id |-> <<type, bt.id>>, type |-> type,
   object |-> [id |-> IF type = "charge.succeeded" THEN bt.source ELSE <<"pi", bt.id>>,
               currency |-> "USD", amount |-> bt.amount,
               amount_refunded |-> 0, refunds |-> <<>>,
               bts |-> << [expanded |-> TRUE, fee |-> bt.fee] >>]]

ChargeTxn(bt) == build_transaction(PaymentEvent(bt, "charge.succeeded"), NULL)

Payments == {k \in DOMAIN bts : bts[k].source # NULL /\ bts[k].source[1] = "ch"}

WorkerPosts ==
  \E k \in Payments, type \in ReportedAs :
    LET t == build_transaction(PaymentEvent(bts[k], type), NULL) IN
    /\ type \in HANDLED_EVENT_TYPES
    /\ \A u \in ledger : ~ Conflict(t, u)
    /\ Committable(t.entries)
    /\ ledger' = ledger \cup {t}
    /\ UNCHANGED <<egressVars, recon, proposal>>

-----------------------------------------------------------------------------
(* reconcile_stripe: the ledger, then the invariant by a statement of its own,
   then Stripe page by page.  A break of the invariant is kept apart until
   the report. *)

LoadLedger ==
  /\ recon.pc = "idle"
  /\ recon' = [NotRunning EXCEPT !.pc = "loaded", !.ledger = _load_ledger(ledger, NULL)]
  /\ UNCHANGED <<egressVars, bookVars>>

CheckInvariant ==
  /\ recon.pc = "loaded"
  /\ recon' = [recon EXCEPT !.pc = "paging", !.invariant = _invariant_breaks(ledger)]
  /\ get(None)
  /\ UNCHANGED bookVars

(* Mutant: the ledger is looked up again for every balance transaction. *)
LedgerRead_Again(r) == _load_ledger(ledger, NULL)

LedgerRead(r) == r.ledger

(* Mutant: the cursor is the first item of the page. *)
NextCursor_First(data) == data[1].id

NextCursor(data) == data[Len(data)].id

CompareAll(found, data) ==
  FoldLeft(LAMBDA state, bt : Compare(LedgerRead(recon), state, bt), found, data)

(* A page that has more after it, unless the cursor does not advance. *)
MorePages(page) ==
  /\ page.has_more /\ page.data # <<>>
  /\ NextCursor(page.data) \notin recon.seen

TakePage ==
  LET page  == req[Reader].result.body
      found == CompareAll(recon.found, page.data)
      read  == [recon EXCEPT
                 !.found = found,
                 !.newest = IF @ = 0 /\ page.data # <<>> THEN page.data[1].id ELSE @]
  IN  /\ recon.pc = "paging" /\ req[Reader].pc = "done"
      /\ req[Reader].result.ok
      /\ IF MorePages(page)
         THEN LET cursor == NextCursor(page.data) IN
              /\ recon' = [read EXCEPT !.cursor = cursor, !.seen = @ \cup {cursor}]
              /\ get(cursor)
         ELSE /\ recon' = [read EXCEPT
                            !.pc = "reported",
                            !.found.breaks = @ \cup Unmatched(LedgerRead(recon), found.matched)
                                               \cup recon.invariant]
              /\ UNCHANGED egressVars
      /\ UNCHANGED bookVars

(* A StripeError out of the client ends the reconciliation. *)
ReconRaises ==
  /\ recon.pc = "paging" /\ req[Reader].pc = "done"
  /\ ~ req[Reader].result.ok
  /\ recon' = [recon EXCEPT !.pc = "raised"]
  /\ UNCHANGED <<egressVars, bookVars>>

-----------------------------------------------------------------------------
(* Triage and approval. *)

Balances(txns) ==
  [a \in AccountNames |->
     SumFunction([t \in txns |-> account_balance(t.entries, a)])]

(* Every payment Stripe knows, posted. *)
Complete(txns) ==
  txns \cup {ChargeTxn(bts[k]) :
               k \in {j \in Payments : \A u \in txns :
                        ~ SameNonNull(u.object, bts[j].source)}}

TriageResults ==
  {triage(stop_reason, v) :
     stop_reason \in {"APIError", "refusal", "end_turn"}, v \in Verdicts}

(* A result without a verdict changes nothing. *)
Triage ==
  /\ proposal = NULL
  /\ proposal' \in TriageResults \ {NULL}
  /\ UNCHANGED <<egressVars, ledger, recon>>

Repairs == {t \in ledger : t.event = NULL}

(* Only a call that ends in POSTED changes anything.  Nothing stops a second
   approval of the same proposal. *)
Approve(who) ==
  /\ proposal # NULL
  /\ Cardinality(Repairs) < MaxRepairs
  /\ approve_and_apply(proposal, who) = "POSTED"
  /\ ledger' = ledger \cup {RepairTxn(Cardinality(Repairs), proposal)}
  /\ UNCHANGED <<egressVars, recon, proposal>>

-----------------------------------------------------------------------------

ClientStep(c) == TransportError(c) \/ Receive(c)

Next ==
  \/ /\ \/ \E c \in Posts : post(c)
        \/ \E c \in Posts \cup {Reader} : ClientStep(c)
        \/ \E r \in wire : Serve(r)
     /\ UNCHANGED <<bookVars, recon>>
  \/ WorkerPosts
  \/ LoadLedger
  \/ CheckInvariant
  \/ TakePage
  \/ ReconRaises
  \/ Triage
  \/ \E who \in Approvers : Approve(who)

(* The client's own steps and the answer to the attempt under way are fair; a
   timeout may come in its place (httpx turns an answer that never comes into
   a TransportError after 30 seconds) and is never needed.  So is the
   reconciler once it runs.  Whether a charge is asked for, a webhook arrives or a person
   approves is not. *)
Running ==
  \/ \E c \in Posts \cup {Reader} : Receive(c) /\ UNCHANGED recon
  \/ \E r \in wire : Awaited(r) /\ Serve(r) /\ UNCHANGED recon
  \/ CheckInvariant
  \/ TakePage
  \/ ReconRaises

Fairness == WF_<<egressVars, recon>>(Running)

Spec == Init /\ [][Next]_vars /\ Fairness

-----------------------------------------------------------------------------
(* Properties. *)

Moved == [c \in Posts |-> Cardinality({k \in DOMAIN bts : bts[k].call = c})]

(* A 400 that is not one to try again; StripeError tells them apart by code. *)
Refused(result) ==
  ~ result.ok /\ result.status_code = 400 /\ result.code # lock_timeout

Outcome ==
  [c \in Posts |->
     CASE req[c].pc = "idle"                   -> "idle"
       [] req[c].pc \in {"waiting", "answered"} -> "pending"
       [] req[c].pc = "done"                   ->
            IF req[c].result.ok THEN "ok"
            ELSE IF Refused(req[c].result) THEN "refused" ELSE "unknown"]

Once == INSTANCE ChargeOnce WITH moved <- Moved, outcome <- Outcome

(* The contract of stripe_io/client.py: through timeouts, late requests,
   5xx answers that had an effect, 429s and 400s that ask for a retry, one call
   of post() moves its money at most once, "ok" means that it moved and a 400
   that it never will, unless its code is that of a retry (lock_timeout): after
   that one an earlier attempt may still charge, as after a timeout. *)
ImplementsChargeOnce == Once!OnceSpec

(* reconcile_stripe while charges, postings and repairs go on: the report of a
   run that ends says of every balance transaction that existed when its first
   page was served, and of no other, how it stands to the ledger as it was
   loaded; whatever the page size, the retries and the charges made between
   two pages. *)
ReportExact ==
  recon.pc = "reported" =>
    LET listed == {bts[k] : k \in {j \in DOMAIN bts : bts[j].id <= recon.newest}}
        loaded == {t \in recon.ledger : t.object_id # NULL}
        pairs  == {p \in listed \X loaded : p[1].source = p[2].object_id}
        off(kind, want, got, p) ==
          IF want = got THEN {}
          ELSE {Break(kind, p[1].source, p[2].event_id, want, got)}
    IN  /\ recon.found.checked = Cardinality(listed)
        /\ recon.found.breaks =
             {Break("missing_in_ledger", ObjectId(bt), NULL, bt.amount, NULL) :
                bt \in {b \in listed : \A p \in pairs : p[1] # b}}
             \cup UNION {off("amount_mismatch", p[1].amount,
                             p[2].delta["stripe_balance"] + p[2].delta["processing_fees"], p)
                         \cup off("fee_mismatch", p[1].fee, p[2].delta["processing_fees"], p) :
                           p \in pairs}

(* reconcile_stripe never accuses the ledger of money Stripe does not know:
   every posting it looks at was loaded before the first page was asked for,
   Stripe lists a balance transaction before its event is posted, and the
   intent behind a charge, which has none, is not posted. *)
NoPhantom ==
  recon.pc \in {"paging", "reported"} =>
    \A b \in recon.found.breaks : b.kind # "missing_in_source"

(* agent.py:184-186, the comment on approve_and_apply's gate: a proposal the
   deferred triggers would refuse is refused before it reaches them, whatever a
   model proposes.  The gate does not look at row checks or account names. *)
NoTriggerError ==
  proposal # NULL =>
    \A who \in Approvers : approve_and_apply(proposal, who) # "trigger"

(* The accounts bench.py's ACCOUNT_NORMALS knows. *)
OnSeededAccounts(entries) ==
  \A k \in DOMAIN entries : entries[k].account \in DOMAIN SeedChart

(* bench.py: a repair on the seeded accounts that scores as restoring the
   expected balances, on the ledger as it is when a person approves it, does
   restore them in the account_balances view. *)
RepairRestores ==
  [][ /\ Repairs' # Repairs
      /\ OnSeededAccounts(proposal.proposed_repair)
      /\ repair_restores_expected_balances(Balances(ledger), Balances(Complete(ledger)),
                                           proposal)
      => Balances(ledger)' = Balances(Complete(ledger)) ]_vars

(* Every call of post() comes to an end, also when Stripe has cached a 500 for
   its key, and so does every reconciliation. *)
EveryRequestEnds ==
  /\ \A c \in Posts : req[c].pc # "idle" ~> req[c].pc = "done"
  /\ recon.pc = "loaded" ~> recon.pc \in {"reported", "raised"}
=============================================================================
