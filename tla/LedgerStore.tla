---------------------------- MODULE LedgerStore -----------------------------
(***************************************************************************)
(* What post_transaction promises its callers, as one atomic step per      *)
(* call: the transaction is in the ledger whole or not at all, the answer  *)
(* POSTED or DUPLICATE is true, and an exception leaves the caller not     *)
(* knowing whether the commit happened.  LedgerPost implements it;         *)
(* Pipeline relies on it.                                                  *)
(***************************************************************************)
CONSTANTS Callers,  \* processes that call post_transaction
          Txns,     \* transactions they may post
          NULL,     \* no transaction
          Acceptable(_),        \* the checks and triggers let it through
          PkeyConflict(_, _),   \* the two share the primary key
          DedupeConflict(_, _)  \* the two share a dedupe key

VARIABLES ledger,   \* transactions posted, each with all its entries
          call,     \* caller -> the transaction of the call under way, or NULL
          result    \* caller -> "none", or how the call ended

storeVars == <<ledger, call, result>>

Results == {"none", "POSTED", "DUPLICATE", "pkey", "raised"}

StoreInit ==
  /\ ledger = {}
  /\ call   = [c \in Callers |-> NULL]
  /\ result = [c \in Callers |-> "none"]

Call(c, t) ==
  /\ call[c] = NULL
  /\ call' = [call EXCEPT ![c] = t]
  /\ UNCHANGED <<ledger, result>>

Pending(c) == call[c] # NULL /\ result[c] = "none"

Answer(c, r) == result' = [result EXCEPT ![c] = r]

(* Posted: only what the schema accepts and no unique constraint forbids.
   The answer is POSTED, unless the connection broke on the way. *)
Post(c) ==
  /\ Pending(c)
  /\ Acceptable(call[c])
  /\ \A u \in ledger : ~ PkeyConflict(call[c], u) /\ ~ DedupeConflict(call[c], u)
  /\ ledger' = ledger \cup {call[c]}
  /\ Answer(c, "POSTED") \/ Answer(c, "raised")
  /\ UNCHANGED call

(* DUPLICATE: one of the two dedupe constraints names a posted transaction. *)
Duplicate(c) ==
  /\ Pending(c)
  /\ \E u \in ledger : DedupeConflict(call[c], u)
  /\ Answer(c, "DUPLICATE")
  /\ UNCHANGED <<ledger, call>>

(* UniqueViolation on transactions_pkey: this id is posted. *)
SameId(c) ==
  /\ Pending(c)
  /\ \E u \in ledger : PkeyConflict(call[c], u)
  /\ Answer(c, "pkey")
  /\ UNCHANGED <<ledger, call>>

(* Any other exception: nothing was posted by this step. *)
Fail(c) ==
  /\ Pending(c)
  /\ Answer(c, "raised")
  /\ UNCHANGED <<ledger, call>>

(* The caller takes the answer, or dies. *)
End(c) ==
  /\ call[c] # NULL
  /\ call' = [call EXCEPT ![c] = NULL]
  /\ result' = [result EXCEPT ![c] = "none"]
  /\ UNCHANGED ledger

StoreNext ==
  \E c \in Callers :
    \/ \E t \in Txns : Call(c, t)
    \/ Post(c)
    \/ Duplicate(c)
    \/ SameId(c)
    \/ Fail(c)
    \/ End(c)

StoreSpec == StoreInit /\ [][StoreNext]_storeVars
=============================================================================
