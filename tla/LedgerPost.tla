----------------------------- MODULE LedgerPost -----------------------------
(***************************************************************************)
(* ledger/post.py statement by statement, against the Postgres schema:     *)
(* several callers post at once, each attempt is one SERIALIZABLE database *)
(* transaction whose rows nobody else sees before COMMIT.                  *)
(***************************************************************************)
EXTENDS LedgerSchema

CONSTANTS Callers,      \* processes that call post_transaction
          Txns,         \* transactions they may post
          MAX_ATTEMPTS  \* post_transaction's max_attempts

ASSUME PostAssumption ==
  /\ MAX_ATTEMPTS \in Nat \ {0}
  /\ NULL \notin Txns
  /\ \A t \in Txns : t.entries \in Seq(EntryRow)

(* Transaction ids are deterministic (uuid5 of the event id) or fresh (uuid4):
   one id never names two different transactions. *)
ASSUME IdsAssumption == \A t, u \in Txns : t.id = u.id => t = u

VARIABLES
  transactions,  \* the committed transactions rows
  entries,       \* the committed entries rows, as <<transaction, position>>
  sess           \* caller -> [pc, txn, n (entries inserted), attempt, res]

vars == <<transactions, entries, sess>>

NoCall == [pc |-> "idle", txn |-> NULL, n |-> 0, attempt |-> 0, res |-> "none"]

Init ==
  /\ transactions = {}
  /\ entries = {}
  /\ sess = [c \in Callers |-> NoCall]

-----------------------------------------------------------------------------

At(c, pc) == sess[c].pc = pc

(* A statement of the attempt is under way. *)
Active(c) == sess[c].pc \in {"lookup", "insert", "entries"}

(* The session's rows, gone at a rollback. *)
Proceed(c, pc, n) ==
  /\ sess' = [sess EXCEPT ![c] = [pc |-> pc, txn |-> sess[c].txn, n |-> n,
                                  attempt |-> sess[c].attempt, res |-> "none"]]
  /\ UNCHANGED <<transactions, entries>>

Finish(c, res) ==
  sess' = [sess EXCEPT ![c] = [pc |-> "done", txn |-> sess[c].txn, n |-> 0,
                               attempt |-> 0, res |-> res]]

(* Rollback, close, and the exception or the outcome leaves _attempt. *)
Abort(c, res) == Finish(c, res) /\ UNCHANGED <<transactions, entries>>

(* post_transaction(db_url, txn): first attempt. *)
post_transaction(c, t) ==
  /\ At(c, "idle")
  /\ sess' = [sess EXCEPT ![c] = [pc |-> "lookup", txn |-> t, n |-> 0,
                                  attempt |-> 1, res |-> "none"]]
  /\ UNCHANGED <<transactions, entries>>

(* SELECT id FROM accounts, once per account name; an unknown one raises. *)
LookupAccounts(c) ==
  /\ At(c, "lookup")
  /\ AccountsKnown(sess[c].txn.entries)
  /\ Proceed(c, "insert", 0)

UnknownAccount(c) ==
  /\ At(c, "lookup")
  /\ ~ AccountsKnown(sess[c].txn.entries)
  /\ Abort(c, "raised")

(* Transactions rows other sessions have inserted and not yet committed. *)
InFlight(c) == {sess[d].txn : d \in {d \in Callers \ {c} : At(d, "entries")}}

(* Mutant: a look before the insert in place of the unique constraints. *)
InsertTransaction_CheckFirst(c) ==
  /\ At(c, "insert")
  /\ \A u \in transactions : ~ Conflict(sess[c].txn, u)
  /\ Proceed(c, "entries", 0)

(* INSERT INTO transactions.  Postgres lets the row in when no unique index
   holds its key; it waits while an uncommitted row of another session does. *)
InsertTransaction(c) ==
  /\ At(c, "insert")
  /\ \A u \in transactions \cup InFlight(c) : ~ Conflict(sess[c].txn, u)
  /\ Proceed(c, "entries", 0)

(* transactions_pkey is not one of _DEDUPE_CONSTRAINTS: the UniqueViolation
   propagates (handle_event takes it for a duplicate). *)
PkeyViolation(c) ==
  /\ At(c, "insert")
  /\ \E u \in transactions : PkeyConflict(sess[c].txn, u)
  /\ Abort(c, "pkey")

DedupeViolation(c) ==
  /\ At(c, "insert")
  /\ \A u \in transactions : ~ PkeyConflict(sess[c].txn, u)
  /\ \E u \in transactions : DedupeConflict(sess[c].txn, u)
  /\ Abort(c, "DUPLICATE")

(* INSERT INTO entries, one row at a time. *)
NextEntry(c) == sess[c].txn.entries[sess[c].n + 1]

(* Mutant: accounts looked up FOR SHARE, and updated with every entry. *)
InsertEntry_UpdatesAccount(c) ==
  /\ At(c, "entries")
  /\ sess[c].n < Len(sess[c].txn.entries)
  /\ EntryAccepted(NextEntry(c))
  /\ \A d \in Callers \ {c} : sess[d].pc \in {"insert", "entries"} =>
       \A k \in DOMAIN sess[d].txn.entries :
         sess[d].txn.entries[k].account # NextEntry(c).account
  /\ Proceed(c, "entries", sess[c].n + 1)

InsertEntry(c) ==
  /\ At(c, "entries")
  /\ sess[c].n < Len(sess[c].txn.entries)
  /\ EntryAccepted(NextEntry(c))
  /\ Proceed(c, "entries", sess[c].n + 1)

EntryRejected(c) ==
  /\ At(c, "entries")
  /\ sess[c].n < Len(sess[c].txn.entries)
  /\ ~ EntryAccepted(NextEntry(c))
  /\ Abort(c, "raised")

AllInserted(c) == At(c, "entries") /\ sess[c].n = Len(sess[c].txn.entries)

(* The rows COMMIT makes visible, judged first by the deferred triggers. *)
PendingEntries(c) == SubSeq(sess[c].txn.entries, 1, sess[c].n)

MakeVisible(c) ==
  /\ transactions' = transactions \cup {sess[c].txn}
  /\ entries' = entries \cup ({sess[c].txn} \X (1 .. sess[c].n))

(* Mutant: COMMIT inside the loop over the entries. *)
Commit_EachEntry(c) ==
  /\ At(c, "entries")
  /\ DeferredTriggersPass(PendingEntries(c))
  /\ MakeVisible(c)
  /\ Finish(c, "POSTED")

Commit(c) ==
  /\ AllInserted(c)
  /\ DeferredTriggersPass(PendingEntries(c))
  /\ MakeVisible(c)
  /\ Finish(c, "POSTED")

CommitRejected(c) ==
  /\ AllInserted(c)
  /\ ~ DeferredTriggersPass(PendingEntries(c))
  /\ Abort(c, "raised")

(* Mutant: a lost answer to COMMIT is retried like an abort. *)
CommitInDoubt_Retried(c) ==
  /\ AllInserted(c)
  /\ DeferredTriggersPass(PendingEntries(c))
  /\ MakeVisible(c)
  /\ sess' = [sess EXCEPT ![c].pc = "lookup", ![c].n = 0]

(* The server committed but the connection broke before it said so. *)
CommitInDoubt(c) ==
  /\ AllInserted(c)
  /\ DeferredTriggersPass(PendingEntries(c))
  /\ MakeVisible(c)
  /\ Finish(c, "raised")

(* SQLSTATE 40001 may meet any statement of a SERIALIZABLE transaction, COMMIT
   included: the whole unit is tried again, max_attempts times in all. *)
SerializationFailure(c) ==
  /\ Active(c)
  /\ sess[c].attempt < MAX_ATTEMPTS
  /\ sess' = [sess EXCEPT ![c] = [pc |-> "lookup", txn |-> sess[c].txn, n |-> 0,
                                  attempt |-> sess[c].attempt + 1, res |-> "none"]]
  /\ UNCHANGED <<transactions, entries>>

(* Mutant: an exhausted retry loop answers DUPLICATE. *)
AttemptsExhausted_Duplicate(c) ==
  /\ Active(c)
  /\ sess[c].attempt >= MAX_ATTEMPTS
  /\ Abort(c, "DUPLICATE")

AttemptsExhausted(c) ==
  /\ Active(c)
  /\ sess[c].attempt >= MAX_ATTEMPTS
  /\ Abort(c, "raised")

(* The connection cannot be opened or breaks before COMMIT is received. *)
ConnectionLost(c) ==
  /\ Active(c)
  /\ Abort(c, "raised")

(* The caller takes the outcome; or its process dies at any point, and
   Postgres rolls back what it had not committed. *)
ReturnOrDie(c) ==
  /\ ~ At(c, "idle")
  /\ sess' = [sess EXCEPT ![c] = NoCall]
  /\ UNCHANGED <<transactions, entries>>

-----------------------------------------------------------------------------

(* What the session does by itself: the next statement of the unit, with the
   answer the database gives it. *)
Statement(c) ==
  \/ LookupAccounts(c)
  \/ UnknownAccount(c)
  \/ InsertTransaction(c)
  \/ PkeyViolation(c)
  \/ DedupeViolation(c)
  \/ InsertEntry(c)
  \/ EntryRejected(c)
  \/ Commit(c)
  \/ CommitRejected(c)

(* What may happen to it at any statement, and need never happen. *)
Fault(c) ==
  \/ CommitInDoubt(c)
  \/ SerializationFailure(c)
  \/ AttemptsExhausted(c)
  \/ ConnectionLost(c)

Step(c) == Statement(c) \/ Fault(c)

Next ==
  \E c \in Callers :
    \/ \E t \in Txns : post_transaction(c, t)
    \/ Step(c)
    \/ ReturnOrDie(c)

Spec == Init /\ [][Next]_vars

(* A live caller keeps executing statements, and an insert that waits for
   another session's row is woken when that session ends (Postgres queues lock
   waiters), even if others take the key again and die.  No fault and no death
   is ever forced: nothing but the sessions' own statements ends a wait. *)
FairSpec ==
  /\ Spec
  /\ \A c \in Callers : WF_vars(Statement(c)) /\ SF_vars(InsertTransaction(c))

-----------------------------------------------------------------------------

(* Type correctness of the tables and of the sessions. *)
TypeOK ==
  /\ transactions \subseteq Txns
  /\ entries \subseteq Txns \X Nat
  /\ sess \in [Callers ->
       [pc : {"idle", "lookup", "insert", "entries", "done"},
        txn : Txns \cup {NULL}, n : Nat, attempt : 0 .. MAX_ATTEMPTS,
        res : {"none", "POSTED", "DUPLICATE", "pkey", "raised"}]]
  /\ \A c \in Callers : /\ At(c, "idle") <=> sess[c].txn = NULL
                        /\ ~ At(c, "done") <=> sess[c].res = "none"
                        /\ At(c, "entries") =>
                             sess[c].n <= Len(sess[c].txn.entries)

(* A transaction is in the ledger with all its entries, all of them acceptable
   and balanced, or not at all: no crash, lost connection or retry between the
   inserts of one attempt leaves half a posting. *)
NoHalfPost ==
  /\ \A t \in transactions : Acceptable(t)
  /\ entries = UNION {{t} \X (1 .. Len(t.entries)) : t \in transactions}

(* One posting per Stripe event and per (event_type, object), however many
   sessions insert the same key at the same time. *)
OnePostingPerKey ==
  \A t, u \in transactions :
    \/ SameNonNull(t.event, u.event)
    \/ SameNonNull(t.type, u.type) /\ SameNonNull(t.object, u.object)
    => t = u

(* What post_transaction answers is true when the caller reads it: POSTED says
   it is in the ledger, DUPLICATE and the primary-key violation that its event
   or its object is. *)
HonestOutcome ==
  \A c \in Callers : At(c, "done") =>
    LET t == sess[c].txn IN
    /\ sess[c].res = "POSTED" => t \in transactions
    /\ sess[c].res \in {"DUPLICATE", "pkey"} =>
         \E u \in transactions :
           \/ u = t
           \/ SameNonNull(t.event, u.event)
           \/ SameNonNull(t.type, u.type) /\ SameNonNull(t.object, u.object)

(* The global invariant of ledger/invariant.py holds at every commit: per
   account currency, debit-normal and credit-normal balances agree.  The
   triggers only compare entry currencies; the composite foreign key closes
   the gap (finding R4). *)
CheckAlwaysOk == check_ok([r \in entries |-> r[1].entries[r[2]]])

(* Every call ends, whatever it waits for and with no fault to rescue it: the
   only statement that waits is the insert of the transaction row, the session
   it waits for has nothing left to wait for, and retries are bounded. *)
EveryCallEnds == \A c \in Callers : Active(c) ~> ~ Active(c)

-----------------------------------------------------------------------------
(* The inductive invariant behind these properties. *)

(* Rows a session has inserted passed their checks, and conflict with nothing
   committed and nothing another session has in flight. *)
SessionInv ==
  \A c \in Callers :
    /\ sess[c].pc \in {"insert", "entries"} => AccountsKnown(sess[c].txn.entries)
    /\ At(c, "entries") =>
         /\ \A k \in 1 .. sess[c].n : EntryAccepted(sess[c].txn.entries[k])
         /\ \A u \in transactions \cup InFlight(c) : ~ Conflict(sess[c].txn, u)

NoConflict == \A t, u \in transactions : Conflict(t, u) => t = u

(* Everything every statement, commit, abort and death preserves. *)
IInv == TypeOK /\ SessionInv /\ NoConflict /\ NoHalfPost /\ HonestOutcome

-----------------------------------------------------------------------------
(* post_transaction is one atomic step of the abstract store. *)
Store == INSTANCE LedgerStore WITH
  ledger <- transactions,
  call   <- [c \in Callers |-> sess[c].txn],
  result <- [c \in Callers |-> sess[c].res]

(* The statement-by-statement posting implements the atomic one. *)
ImplementsStore == Store!StoreSpec
=============================================================================
