---------------------------- MODULE LedgerSchema ----------------------------
(***************************************************************************)
(* What the Postgres schema says of the ledger tables: the unique          *)
(* constraints, the row checks, the two deferred triggers, the balance     *)
(* view and the invariant computed over it.  Everything here is a constant *)
(* operator: LedgerPost, LedgerStore and Pipeline decide when the          *)
(* constraints are consulted.                                              *)
(*                                                                         *)
(* A transaction is a record [id, event, object, type, entries]; an entry  *)
(* is a record [account, dir, amount, currency].                           *)
(***************************************************************************)
EXTENDS Integers, Sequences, FiniteSets, FiniteSetsExt, Functions

CONSTANTS Chart,  \* account name -> [normal, currency]: the accounts table
          NULL    \* SQL NULL / Python None

AccountNames == DOMAIN Chart

(* accounts is a table, and its column normal has the enumerated type direction. *)
ASSUME ChartAssumption ==
  /\ IsFiniteSet(AccountNames)
  /\ \A a \in AccountNames : Chart[a].normal \in {"debit", "credit"}

(* A row of the entries table, as Entry of post.py carries it. *)
EntryRow ==
  [account : STRING, dir : {"debit", "credit"}, amount : Int, currency : STRING]

(* The seven rows 002_seed_accounts.sql inserts. *)
SeedChart ==
  [a \in {"stripe_balance", "bank", "processing_fees", "dispute_losses",
          "refunds_contra", "revenue", "customer_liability"} |->
     [normal   |-> IF a \in {"revenue", "customer_liability"}
                   THEN "credit" ELSE "debit",
      currency |-> "USD"]]

(* Strings, which TLC knows and the provers have to be told. *)
ASSUME SeedAssumption ==
  \A a \in DOMAIN SeedChart : a \in STRING /\ SeedChart[a].currency \in STRING

(* NULLs are distinct in a unique constraint. *)
SameNonNull(x, y) == x # NULL /\ y # NULL /\ x = y

(* transactions_pkey is the first index an INSERT consults ... *)
PkeyConflict(t, u) == t.id = u.id

(* Mutant: event.id as the only dedupe key. *)
DedupeConflict_EventOnly(t, u) == SameNonNull(t.event, u.event)

(* ... then dedupe_event UNIQUE (stripe_event_id) and
   dedupe_object UNIQUE (event_type, stripe_object_id). *)
DedupeConflict(t, u) ==
  \/ SameNonNull(t.event, u.event)
  \/ SameNonNull(t.type, u.type) /\ SameNonNull(t.object, u.object)

Conflict(t, u) == PkeyConflict(t, u) \/ DedupeConflict(t, u)

(* Mutant: no foreign key on (account_id, currency), the state before
   004_hardening.sql (R4). *)
EntryAccepted_AnyCurrency(n) == n.amount > 0

(* Checks made when one entry row is inserted: CHECK (amount_minor > 0) and
   the composite foreign key (account_id, currency) of 004_hardening.sql. *)
EntryAccepted(n) ==
  /\ n.amount > 0
  /\ n.currency = Chart[n.account].currency

AccountsKnown(entries) ==
  \A k \in DOMAIN entries : entries[k].account \in AccountNames

Total(entries, S) ==
  SumFunctionOnSet([k \in DOMAIN entries |-> entries[k].amount], S)

SideTotal(entries, dir, currency) ==
  Total(entries, {k \in DOMAIN entries : /\ entries[k].dir = dir
                                         /\ entries[k].currency = currency})

(* The deferred trigger entries_balanced: per ENTRY currency. *)
assert_txn_balanced(entries) ==
  \A cur \in {entries[k].currency : k \in DOMAIN entries} :
    SideTotal(entries, "debit", cur) = SideTotal(entries, "credit", cur)

(* The deferred trigger transactions_min_entries. *)
assert_txn_min_entries(entries) == Cardinality(DOMAIN entries) >= 2

DeferredTriggersPass(entries) ==
  assert_txn_balanced(entries) /\ assert_txn_min_entries(entries)

(* A transaction every check of the database lets through. *)
Acceptable(t) ==
  /\ AccountsKnown(t.entries)
  /\ \A k \in DOMAIN t.entries : EntryAccepted(t.entries[k])
  /\ DeferredTriggersPass(t.entries)

-----------------------------------------------------------------------------
(***************************************************************************)
(* Reading the ledger back.  `rows' is the entries table: a function from  *)
(* row identifiers to entries.                                             *)
(***************************************************************************)

(* The account_balances view: the sign of an entry is relative to its
   account's normal side. *)
account_balance(rows, a) ==
  Total(rows, {k \in DOMAIN rows : /\ rows[k].account = a
                                   /\ rows[k].dir = Chart[a].normal})
  - Total(rows, {k \in DOMAIN rows : /\ rows[k].account = a
                                     /\ rows[k].dir # Chart[a].normal})

NormalSum(rows, normal, currency) ==
  SumFunctionOnSet([a \in AccountNames |-> account_balance(rows, a)],
                   {a \in AccountNames : /\ Chart[a].normal = normal
                                         /\ Chart[a].currency = currency})

(* invariant.check(...).ok : per ACCOUNT currency, debit-normal balances equal
   credit-normal balances. *)
check_ok(rows) ==
  \A cur \in {Chart[a].currency : a \in AccountNames} :
    NormalSum(rows, "debit", cur) = NormalSum(rows, "credit", cur)
=============================================================================
