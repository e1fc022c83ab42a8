-------------------------- MODULE LedgerPostProofs --------------------------
(***************************************************************************)
(* Theorems about LedgerPost, for every set of callers and transactions,   *)
(* every chart of accounts and every number of attempts.                   *)
(***************************************************************************)
EXTENDS LedgerPost, LedgerTheorems, SequenceTheorems, TLAPS

(* A unique key is shared by both or by neither. *)
LEMMA ConflictSymmetric == \A t, u : Conflict(t, u) => Conflict(u, t)
  BY DEF Conflict, PkeyConflict, DedupeConflict, SameNonNull

(* The entries of a transaction, with their positions. *)
LEMMA EntriesAreSequences ==
  ASSUME NEW t \in Txns
  PROVE  /\ t.entries \in Seq(EntryRow)
         /\ Len(t.entries) \in Nat
         /\ DOMAIN t.entries = 1 .. Len(t.entries)
<1>1. t.entries \in Seq(EntryRow)
  BY PostAssumption
<1>2. QED
  BY <1>1

-----------------------------------------------------------------------------
(* Type correctness. *)

(* Every statement keeps the tables and the sessions typed. *)
LEMMA TypeStep ==
  ASSUME TypeOK, [Next]_vars
  PROVE  TypeOK'
<1> USE PostAssumption DEF At
<1>1. CASE UNCHANGED vars
  BY <1>1 DEF TypeOK, vars
<1>2. ASSUME NEW c \in Callers, NEW t \in Txns, post_transaction(c, t)
      PROVE  TypeOK'
  BY <1>2 DEF post_transaction, TypeOK
<1>3. ASSUME NEW c \in Callers, ReturnOrDie(c) PROVE TypeOK'
  BY <1>3 DEF ReturnOrDie, NoCall, TypeOK
<1>4. ASSUME NEW c \in Callers, NEW res \in {"POSTED", "DUPLICATE", "pkey", "raised"},
             ~ At(c, "idle"), Finish(c, res),
             transactions' \subseteq Txns, entries' \subseteq Txns \X Nat
      PROVE  TypeOK'
  BY <1>4 DEF Finish, TypeOK
<1>5. ASSUME NEW c \in Callers, NEW pc \in {"lookup", "insert", "entries"},
             NEW n \in Nat, Active(c), Proceed(c, pc, n),
             pc = "entries" => n <= Len(sess[c].txn.entries)
      PROVE  TypeOK'
  BY <1>5 DEF Proceed, TypeOK, Active
<1>6. ASSUME NEW c \in Callers, Step(c) PROVE TypeOK'
  <2>1. CASE LookupAccounts(c)
    BY <1>5, <2>1 DEF LookupAccounts, Active
  <2>2. CASE InsertTransaction(c)
    <3>1. Len(sess[c].txn.entries) \in Nat
      BY <2>2, EntriesAreSequences DEF InsertTransaction, TypeOK
    <3>2. QED
      BY <1>5, <2>2, <3>1 DEF InsertTransaction, Active
  <2>3. CASE InsertEntry(c)
    <3>1. Len(sess[c].txn.entries) \in Nat /\ sess[c].n \in Nat
      BY <2>3, EntriesAreSequences DEF InsertEntry, TypeOK
    <3>2. QED
      BY <1>5, <2>3, <3>1 DEF InsertEntry, Active
  <2>4. CASE Commit(c) \/ CommitInDoubt(c)
    <3>1. sess[c].txn \in Txns /\ sess[c].n \in Nat /\ ~ At(c, "idle")
      BY <2>4 DEF Commit, CommitInDoubt, AllInserted, TypeOK
    <3>2. transactions' \subseteq Txns /\ entries' \subseteq Txns \X Nat
      BY <2>4, <3>1 DEF Commit, CommitInDoubt, MakeVisible, TypeOK
    <3>3. QED
      BY <1>4, <2>4, <3>1, <3>2 DEF Commit, CommitInDoubt
  <2>5. CASE SerializationFailure(c)
    BY <2>5 DEF SerializationFailure, Active, TypeOK
  <2>6. CASE UnknownAccount(c) \/ PkeyViolation(c) \/ DedupeViolation(c)
             \/ EntryRejected(c) \/ CommitRejected(c) \/ AttemptsExhausted(c)
             \/ ConnectionLost(c)
    <3>1. transactions \subseteq Txns /\ entries \subseteq Txns \X Nat
      BY DEF TypeOK
    <3>2. ~ At(c, "idle")
      BY <2>6 DEF UnknownAccount, PkeyViolation, DedupeViolation, EntryRejected,
         CommitRejected, AttemptsExhausted, ConnectionLost, AllInserted, Active
    <3>3. \E res \in {"DUPLICATE", "pkey", "raised"} : Abort(c, res)
      BY <2>6 DEF UnknownAccount, PkeyViolation, DedupeViolation, EntryRejected,
         CommitRejected, AttemptsExhausted, ConnectionLost
    <3>4. QED
      BY <1>4, <3>1, <3>2, <3>3 DEF Abort
  <2>7. QED
    BY <1>6, <2>1, <2>2, <2>3, <2>4, <2>5, <2>6 DEF Step, Statement, Fault
<1>7. QED
  BY <1>1, <1>2, <1>3, <1>6 DEF Next

(* Empty tables and idle sessions. *)
LEMMA InitIInv == Init => IInv
<1> SUFFICES ASSUME Init PROVE IInv
  OBVIOUS
<1>1. TypeOK
  BY PostAssumption DEF Init, TypeOK, NoCall, At
<1>2. SessionInv /\ NoConflict /\ HonestOutcome
  BY DEF Init, SessionInv, NoConflict, HonestOutcome, NoCall, At
<1>3. NoHalfPost
  BY DEF Init, NoHalfPost
<1>4. QED
  BY <1>1, <1>2, <1>3 DEF IInv

-----------------------------------------------------------------------------
(* What a commit makes visible. *)

(* All the entries of a sequence, inserted, are the sequence. *)
LEMMA WholeSubSeq ==
  ASSUME NEW t \in Txns
  PROVE  SubSeq(t.entries, 1, Len(t.entries)) = t.entries
<1> DEFINE s == t.entries
           r == SubSeq(s, 1, Len(s))
<1>1. s \in Seq(EntryRow) /\ Len(s) \in Nat
  BY EntriesAreSequences
<1>2. \A i \in 1 .. Len(s) : s[i] \in EntryRow
  BY <1>1
<1>3. /\ r \in Seq(EntryRow)
      /\ Len(r) = Len(s)
      /\ \A i \in 1 .. Len(s) : r[i] = s[i]
  BY <1>1, <1>2, SubSeqProperties
<1>4. QED
  BY <1>1, <1>3

(* A transaction whose entries were all inserted and whose triggers pass is
   acceptable, and COMMIT shows exactly its entries. *)
LEMMA CommitShowsWhole ==
  ASSUME TypeOK, SessionInv, NEW c \in Callers, AllInserted(c),
         DeferredTriggersPass(PendingEntries(c)), MakeVisible(c)
  PROVE  /\ sess[c].txn \in Txns
         /\ Acceptable(sess[c].txn)
         /\ \A u \in transactions : ~ Conflict(sess[c].txn, u)
         /\ transactions' = transactions \cup {sess[c].txn}
         /\ entries' = entries \cup ({sess[c].txn} \X (1 .. Len(sess[c].txn.entries)))
<1> DEFINE t == sess[c].txn
<1>1. t \in Txns /\ sess[c].n = Len(t.entries)
  BY DEF AllInserted, TypeOK, At
<1>2. PendingEntries(c) = t.entries
  BY <1>1, WholeSubSeq DEF PendingEntries
<1>3. Acceptable(t)
  BY <1>1, <1>2, EntriesAreSequences DEF Acceptable, SessionInv, AllInserted, At
<1>4. QED
  BY <1>1, <1>3 DEF MakeVisible, SessionInv, AllInserted

(* How the sessions move: in one step only one session changes, and a session
   that holds inserted rows after the step held the same key before, or has
   just inserted it. *)
LEMMA SessionStep ==
  ASSUME TypeOK, SessionInv, NEW c \in Callers, NEW s,
         sess' = [sess EXCEPT ![c] = s],
         transactions' = transactions,
         s.pc \in {"insert", "entries"} => AccountsKnown(s.txn.entries),
         s.pc = "entries" =>
           /\ \A k \in 1 .. s.n : EntryAccepted(s.txn.entries[k])
           /\ \A u \in transactions \cup InFlight(c) : ~ Conflict(s.txn, u)
  PROVE  SessionInv'
<1>1. sess'[c] = s /\ \A d \in Callers : d # c => sess'[d] = sess[d]
  BY DEF TypeOK
<1>2. InFlight(c)' = InFlight(c)
  BY <1>1 DEF InFlight, At
<1>3. \A d \in Callers \ {c} :
        \A u \in InFlight(d)' : u \in InFlight(d) \/ (u = s.txn /\ s.pc = "entries")
  BY <1>1 DEF InFlight, At
<1>4. \A d \in Callers \ {c} : At(d, "entries") => sess[d].txn \in InFlight(c)
  BY DEF InFlight
<1>5. ASSUME NEW d \in Callers
      PROVE  /\ sess'[d].pc \in {"insert", "entries"} =>
                  AccountsKnown(sess'[d].txn.entries)
             /\ sess'[d].pc = "entries" =>
                  /\ \A k \in 1 .. sess'[d].n : EntryAccepted(sess'[d].txn.entries[k])
                  /\ \A u \in transactions \cup InFlight(d)' : ~ Conflict(sess'[d].txn, u)
  <2>1. CASE d = c
    BY <1>1, <1>2, <2>1
  <2>2. CASE d # c
    <3>1. sess'[d] = sess[d]
      BY <1>1, <2>2
    <3>2. sess[d].pc = "entries" =>
            \A u \in transactions \cup InFlight(d)' : ~ Conflict(sess[d].txn, u)
      BY <1>3, <1>4, <2>2, ConflictSymmetric DEF SessionInv, At
    <3>3. QED
      BY <3>1, <3>2 DEF SessionInv, At
  <2>3. QED
    BY <2>1, <2>2
<1>6. QED
  BY <1>5 DEF SessionInv, At

-----------------------------------------------------------------------------
(* Each kind of step preserves the invariant. *)

(* A step that commits nothing: only one session moves. *)
LEMMA QuietStep ==
  ASSUME IInv, TypeOK', NEW c \in Callers, NEW s,
         sess' = [sess EXCEPT ![c] = s], UNCHANGED <<transactions, entries>>,
         s.pc \in {"insert", "entries"} => AccountsKnown(s.txn.entries),
         s.pc = "entries" =>
           /\ \A k \in 1 .. s.n : EntryAccepted(s.txn.entries[k])
           /\ \A u \in transactions \cup InFlight(c) : ~ Conflict(s.txn, u),
         s.pc = "done" =>
           /\ s.res # "POSTED"
           /\ s.res \in {"DUPLICATE", "pkey"} =>
                s.txn \in Txns /\ \E u \in transactions : Conflict(s.txn, u)
  PROVE  IInv'
<1>1. TypeOK /\ SessionInv /\ NoConflict /\ NoHalfPost /\ HonestOutcome
  BY DEF IInv
<1>2. SessionInv'
  BY <1>1, SessionStep
<1>3. NoConflict' /\ NoHalfPost'
  BY <1>1 DEF NoConflict, NoHalfPost
<1>4. HonestOutcome'
  <2> SUFFICES ASSUME NEW d \in Callers, sess'[d].pc = "done"
               PROVE  /\ sess'[d].res = "POSTED" => sess'[d].txn \in transactions
                      /\ sess'[d].res \in {"DUPLICATE", "pkey"} =>
                           \E u \in transactions :
                             \/ u = sess'[d].txn
                             \/ SameNonNull(sess'[d].txn.event, u.event)
                             \/ /\ SameNonNull(sess'[d].txn.type, u.type)
                                /\ SameNonNull(sess'[d].txn.object, u.object)
    BY DEF HonestOutcome, At
  <2>1. CASE d = c
    <3>1. sess'[d] = s
      BY <1>1, <2>1 DEF TypeOK
    <3>2. ASSUME s.res \in {"DUPLICATE", "pkey"}
          PROVE  \E u \in transactions :
                   \/ u = s.txn
                   \/ SameNonNull(s.txn.event, u.event)
                   \/ SameNonNull(s.txn.type, u.type) /\ SameNonNull(s.txn.object, u.object)
      <4>1. PICK u \in transactions : Conflict(s.txn, u) /\ s.txn \in Txns
        BY <3>1, <3>2
      <4>2. u \in Txns
        BY <1>1 DEF TypeOK
      <4>3. QED
        BY <4>1, <4>2, IdsAssumption DEF Conflict, PkeyConflict, DedupeConflict
    <3>3. QED
      BY <3>1, <3>2
  <2>2. CASE d # c
    <3>1. sess'[d] = sess[d]
      BY <1>1, <2>2 DEF TypeOK
    <3>2. QED
      BY <1>1, <3>1 DEF HonestOutcome, At
  <2>3. QED
    BY <2>1, <2>2
<1>5. QED
  BY <1>2, <1>3, <1>4 DEF IInv

(* The commit, whether or not its answer reaches the caller. *)
LEMMA CommitStep ==
  ASSUME IInv, TypeOK', NEW c \in Callers, Commit(c) \/ CommitInDoubt(c)
  PROVE  IInv'
<1> DEFINE t == sess[c].txn
<1>1. TypeOK /\ SessionInv /\ NoConflict /\ NoHalfPost /\ HonestOutcome
  BY DEF IInv
<1>2. AllInserted(c) /\ At(c, "entries")
  BY DEF Commit, CommitInDoubt, AllInserted
<1>3. /\ t \in Txns
      /\ Acceptable(t)
      /\ \A u \in transactions : ~ Conflict(t, u)
      /\ transactions' = transactions \cup {t}
      /\ entries' = entries \cup ({t} \X (1 .. Len(t.entries)))
  BY <1>1, CommitShowsWhole DEF Commit, CommitInDoubt
<1>4. /\ sess'[c].pc = "done"
      /\ sess'[c].txn = t
      /\ sess'[c].res \in {"POSTED", "raised"}
      /\ \A d \in Callers \ {c} : sess'[d] = sess[d]
  BY <1>1 DEF Commit, CommitInDoubt, Finish, TypeOK
<1>5. NoConflict'
  BY <1>1, <1>3, ConflictSymmetric DEF NoConflict
<1>6. NoHalfPost'
  BY <1>1, <1>3 DEF NoHalfPost
<1>7. SessionInv'
  <2>1. ASSUME NEW d \in Callers \ {c}, sess[d].pc = "entries"
        PROVE  \A u \in transactions' \cup InFlight(d)' : ~ Conflict(sess[d].txn, u)
    <3>1. t \in InFlight(d) /\ InFlight(d)' \subseteq InFlight(d)
      BY <1>2, <1>4, <2>1 DEF InFlight, At
    <3>2. QED
      BY <1>1, <1>3, <2>1, <3>1 DEF SessionInv, At
  <2>2. ASSUME NEW d \in Callers
        PROVE  /\ sess'[d].pc \in {"insert", "entries"} =>
                    AccountsKnown(sess'[d].txn.entries)
               /\ sess'[d].pc = "entries" =>
                    /\ \A k \in 1 .. sess'[d].n :
                         EntryAccepted(sess'[d].txn.entries[k])
                    /\ \A u \in transactions' \cup InFlight(d)' :
                         ~ Conflict(sess'[d].txn, u)
    <3>1. CASE d = c
      BY <1>4, <3>1
    <3>2. CASE d # c
      <4>1. sess'[d] = sess[d]
        BY <1>4, <3>2
      <4>2. QED
        BY <1>1, <2>1, <3>2, <4>1 DEF SessionInv, At
    <3>3. QED
      BY <3>1, <3>2
  <2>3. QED
    BY <2>2 DEF SessionInv, At
<1>8. HonestOutcome'
  BY <1>1, <1>3, <1>4 DEF HonestOutcome, At
<1>9. QED
  BY <1>5, <1>6, <1>7, <1>8 DEF IInv

(* Every statement, commit, abort and death preserves the invariant. *)
LEMMA StepIInv ==
  ASSUME IInv, [Next]_vars
  PROVE  IInv'
<1>1. TypeOK /\ SessionInv /\ NoConflict /\ NoHalfPost /\ HonestOutcome
  BY DEF IInv
<1>2. TypeOK'
  BY <1>1, TypeStep
<1>3. CASE UNCHANGED vars
  BY <1>1, <1>3 DEF IInv, TypeOK, SessionInv, NoConflict, NoHalfPost,
     HonestOutcome, InFlight, At, vars
<1>4. ASSUME NEW c \in Callers, NEW t \in Txns, post_transaction(c, t)
      PROVE  IInv'
  BY <1>2, <1>4, QuietStep DEF post_transaction
<1>5. ASSUME NEW c \in Callers, ReturnOrDie(c) PROVE IInv'
  BY <1>2, <1>5, QuietStep DEF ReturnOrDie, NoCall
<1>6. ASSUME NEW c \in Callers, Abort(c, "raised") PROVE IInv'
  BY <1>2, <1>6, QuietStep DEF Abort, Finish
<1>7. ASSUME NEW c \in Callers, Step(c) PROVE IInv'
  <2>1. CASE LookupAccounts(c)
    BY <1>2, <2>1, QuietStep DEF LookupAccounts, Proceed
  <2>2. CASE InsertTransaction(c)
    <3> DEFINE s == [pc |-> "entries", txn |-> sess[c].txn, n |-> 0,
                     attempt |-> sess[c].attempt, res |-> "none"]
    <3>1. AccountsKnown(s.txn.entries)
      BY <1>1, <2>2 DEF InsertTransaction, SessionInv, At
    <3>2. \A k \in 1 .. s.n : EntryAccepted(s.txn.entries[k])
      OBVIOUS
    <3>3. \A u \in transactions \cup InFlight(c) : ~ Conflict(s.txn, u)
      BY <2>2 DEF InsertTransaction
    <3>4. sess' = [sess EXCEPT ![c] = s] /\ UNCHANGED <<transactions, entries>>
      BY <2>2 DEF InsertTransaction, Proceed
    <3>5. s.pc = "entries"
      OBVIOUS
    <3> HIDE DEF s
    <3>6. QED
      BY <1>2, <3>1, <3>2, <3>3, <3>4, <3>5, QuietStep
  <2>3. CASE InsertEntry(c)
    <3>1. sess[c].n \in Nat
      BY <1>1 DEF TypeOK
    <3>2. \A k \in 1 .. sess[c].n + 1 : EntryAccepted(sess[c].txn.entries[k])
      BY <1>1, <2>3, <3>1 DEF InsertEntry, NextEntry, SessionInv
    <3>3. QED
      BY <1>1, <1>2, <2>3, <3>2, QuietStep DEF InsertEntry, Proceed, SessionInv, At
  <2>4. CASE PkeyViolation(c) \/ DedupeViolation(c)
    <3>1. sess[c].txn \in Txns
      BY <1>1, <2>4 DEF PkeyViolation, DedupeViolation, TypeOK, At
    <3>2. \E u \in transactions : Conflict(sess[c].txn, u)
      BY <2>4 DEF PkeyViolation, DedupeViolation, Conflict
    <3>3. QED
      BY <1>2, <2>4, <3>1, <3>2, QuietStep
      DEF PkeyViolation, DedupeViolation, Abort, Finish
  <2>5. CASE SerializationFailure(c)
    BY <1>2, <2>5, QuietStep DEF SerializationFailure
  <2>6. CASE UnknownAccount(c) \/ EntryRejected(c) \/ CommitRejected(c)
             \/ AttemptsExhausted(c) \/ ConnectionLost(c)
    BY <1>6, <2>6 DEF UnknownAccount, EntryRejected, CommitRejected,
       AttemptsExhausted, ConnectionLost
  <2>7. CASE Commit(c) \/ CommitInDoubt(c)
    BY <1>2, <2>7, CommitStep
  <2>8. QED
    BY <1>7, <2>1, <2>2, <2>3, <2>4, <2>5, <2>6, <2>7 DEF Step, Statement, Fault
<1>8. QED
  BY <1>3, <1>4, <1>5, <1>7 DEF Next

(* The inductive invariant of the statement-by-statement posting. *)
THEOREM InductiveInvariant == Spec => []IInv
  BY InitIInv, StepIInv, PTL DEF Spec

(* A posting is whole, acceptable and balanced, or absent, under any number of
   concurrent callers, crashes, lost connections and retries. *)
THEOREM PostingIsAtomic == Spec => []NoHalfPost
  BY InductiveInvariant, PTL DEF IInv

(* Concurrent sessions never commit two transactions for one Stripe event or
   for one (event_type, object). *)
THEOREM PostingIsUnique == Spec => []OnePostingPerKey
<1>1. IInv => OnePostingPerKey
  BY DEF IInv, NoConflict, OnePostingPerKey, Conflict, DedupeConflict
<1>2. QED
  BY <1>1, InductiveInvariant, PTL

(* POSTED, DUPLICATE and the primary-key violation are true when read. *)
THEOREM OutcomeIsHonest == Spec => []HonestOutcome
  BY InductiveInvariant, PTL DEF IInv

-----------------------------------------------------------------------------
(* The books balance. *)

(* The entries table, as invariant.check reads it. *)
Table == [r \in entries |-> r[1].entries[r[2]]]

(* A commit adds one transaction. *)
LEMMA FiniteStep ==
  ASSUME IInv, IsFiniteSet(transactions), [Next]_vars
  PROVE  IsFiniteSet(transactions)'
<1>1. TypeOK /\ SessionInv
  BY DEF IInv
<1>2. \/ transactions' = transactions
      \/ \E c \in Callers : transactions' = transactions \cup {sess[c].txn}
  BY DEF Next, Step, Statement, Fault, vars, post_transaction, ReturnOrDie, LookupAccounts, UnknownAccount,
     InsertTransaction, PkeyViolation, DedupeViolation, InsertEntry, EntryRejected,
     Commit, CommitRejected, CommitInDoubt, SerializationFailure, AttemptsExhausted,
     ConnectionLost, Abort, Proceed, MakeVisible
<1> QED BY <1>2, FS_AddElement

(* The rows of one transaction. *)
LEMMA RowsOfTransaction ==
  ASSUME NEW t \in Txns, Acceptable(t), NEW cur
  PROVE  /\ Rows(t.entries) /\ Sides(t.entries) /\ Accepted(t.entries)
         /\ Net(t.entries, InCur(t.entries, cur)) = 0
<1>1. t.entries \in Seq(EntryRow) /\ DOMAIN t.entries = 1 .. Len(t.entries)
      /\ Len(t.entries) \in Nat
  BY EntriesAreSequences
<1>2. IsFiniteSet(1 .. Len(t.entries))
  BY <1>1, FS_Interval
<1>3. \A k \in DOMAIN t.entries : t.entries[k] \in EntryRow
  BY <1>1
<1>4. Rows(t.entries) /\ Sides(t.entries)
  BY <1>1, <1>2, <1>3 DEF Rows, Sides, EntryRow
<1>5. Accepted(t.entries) /\ assert_txn_balanced(t.entries)
  BY DEF Acceptable, AccountsKnown, EntryAccepted, Accepted, DeferredTriggersPass
<1> QED BY <1>4, <1>5, BalancedIsZero

(* The rows of the table are the rows of its transactions. *)
LEMMA RowsOfTable ==
  ASSUME IInv, IsFiniteSet(transactions)
  PROVE  /\ \A r \in entries : /\ r[1] \in transactions
                                /\ r[2] \in DOMAIN r[1].entries
                                /\ r = <<r[1], r[2]>>
         /\ \A t \in transactions : \A k \in DOMAIN t.entries : <<t, k>> \in entries
         /\ IsFiniteSet(entries)
<1>0. TypeOK /\ NoHalfPost /\ transactions \subseteq Txns
  BY DEF IInv, TypeOK
<1>1. \A t \in transactions : DOMAIN t.entries = 1 .. Len(t.entries) /\ Len(t.entries) \in Nat
  BY <1>0, EntriesAreSequences
<1>2. entries = UNION {{t} \X (1 .. Len(t.entries)) : t \in transactions}
  BY <1>0 DEF NoHalfPost
<1>3. \A r \in entries : /\ r[1] \in transactions
                          /\ r[2] \in DOMAIN r[1].entries
                          /\ r = <<r[1], r[2]>>
  BY <1>1, <1>2
<1>4. \A t \in transactions : \A k \in DOMAIN t.entries : <<t, k>> \in entries
  BY <1>1, <1>2
<1>5. IsFiniteSet(entries)
  <2> DEFINE F == [t \in transactions |-> {t} \X (1 .. Len(t.entries))]
             SS == {{t} \X (1 .. Len(t.entries)) : t \in transactions}
  <2>1. ASSUME NEW t \in transactions PROVE IsFiniteSet({t} \X (1 .. Len(t.entries)))
    <3>0. IsFiniteSet({t})
      BY FS_Singleton
    <3>1. IsFiniteSet(1 .. Len(t.entries))
      BY <1>1, FS_Interval
    <3> DEFINE A == {t}
               B == 1 .. Len(t.entries)
    <3> HIDE DEF A, B
    <3>2. IsFiniteSet(A) /\ IsFiniteSet(B)
      BY <3>0, <3>1 DEF A, B
    <3>3. IsFiniteSet(A \X B)
      BY <3>2, FS_Product
    <3> QED BY <3>3 DEF A, B
  <2>2. F \in Surjection(transactions, SS)
    <3>1. F \in [transactions -> SS] /\ \A T \in SS : \E t \in transactions : F[t] = T
      OBVIOUS
    <3> HIDE DEF F, SS
    <3> QED BY <3>1 DEF Surjection
  <2>3. IsFiniteSet(SS)
    <3> HIDE DEF F, SS
    <3> QED BY <2>2, FS_Surjection
  <2>4. \A T \in SS : IsFiniteSet(T)
    BY <2>1
  <2>5. entries = UNION SS
    BY <1>2
  <2> HIDE DEF SS
  <2> QED BY <2>3, <2>4, <2>5, FS_UNION
<1> QED BY <1>3, <1>4, <1>5

(* What the table nets to in a currency is what its transactions net to. *)
LEMMA TableNets ==
  ASSUME IInv, IsFiniteSet(transactions), NEW cur
  PROVE  /\ Rows(Table) /\ Sides(Table) /\ Accepted(Table)
         /\ Net(Table, InCur(Table, cur)) = 0
<1> DEFINE S == InCur(Table, cur)
           f == Signed(Table)
           c == [r \in entries |-> r[1]]
           g == [t \in transactions |-> 0]
<1>1. /\ \A r \in entries : /\ r[1] \in transactions
                             /\ r[2] \in DOMAIN r[1].entries
                             /\ r = <<r[1], r[2]>>
      /\ \A t \in transactions : \A k \in DOMAIN t.entries : <<t, k>> \in entries
      /\ IsFiniteSet(entries)
  BY RowsOfTable
<1>2. \A t \in transactions : t \in Txns /\ Acceptable(t)
  BY DEF IInv, TypeOK, NoHalfPost
<1>3. DOMAIN Table = entries /\ \A r \in entries : Table[r] = r[1].entries[r[2]]
  BY DEF Table
<1>4. \A t \in transactions : /\ Rows(t.entries) /\ Sides(t.entries) /\ Accepted(t.entries)
                              /\ Net(t.entries, InCur(t.entries, cur)) = 0
  BY <1>2, RowsOfTransaction
<1>5. Rows(Table) /\ Sides(Table) /\ Accepted(Table)
  BY <1>1, <1>3, <1>4 DEF Rows, Sides, Accepted
<1>6. S \subseteq entries /\ IsFiniteSet(S) /\ Ints(f, S)
  BY <1>1, <1>3, <1>5, FS_Subset DEF InCur, Ints, Signed, Rows
<1>7. ASSUME NEW t \in transactions
      PROVE  SumFunctionOnSet(f, {r \in S : c[r] = t}) = 0
  <2> DEFINE D == InCur(t.entries, cur)
             h == Signed(t.entries)
             b == [k \in D |-> <<t, k>>]
             Im == {b[k] : k \in D}
  <2>1. D \subseteq DOMAIN t.entries /\ IsFiniteSet(D) /\ Ints(h, D)
    <3>1. D \subseteq DOMAIN t.entries /\ Rows(t.entries)
      BY <1>4 DEF InCur
    <3>2. IsFiniteSet(D)
      BY <3>1, FS_Subset DEF Rows
    <3>3. Ints(h, D)
      BY <3>1 DEF Rows, Ints, Signed
    <3> QED BY <3>1, <3>2, <3>3
  <2>2. \A k \in D : b[k] \in S /\ c[b[k]] = t
    <3>1. \A k \in D : <<t, k>> \in entries /\ Table[<<t, k>>] = t.entries[k]
      BY <1>1, <1>3, <2>1
    <3>2. \A k \in D : t.entries[k].currency = cur
      BY DEF InCur
    <3> QED BY <1>3, <3>1, <3>2 DEF InCur
  <2>3. \A r \in S : c[r] = t => r[2] \in D /\ b[r[2]] = r
    BY <1>1, <1>3, <1>6 DEF InCur
  <2>4. \A x, y \in D : b[x] = b[y] => x = y
    OBVIOUS
  <2>5. \A k \in D : f[b[k]] = h[k]
    BY <1>1, <1>3, <2>1 DEF Signed
  <2>6. SumFunctionOnSet(h, D) = 0
    BY <1>4 DEF Net
  <2> HIDE DEF f, h, b, c, D, S
  <2>7. SumFunctionOnSet(f, Im) = SumFunctionOnSet(h, D)
    BY <2>1, <2>4, <2>5, SumRename
  <2>8. Im = {r \in S : c[r] = t}
    BY <2>2, <2>3
  <2> QED BY <2>6, <2>7, <2>8
<1>8. ClassSums(g, f, S, c, transactions)
  BY <1>7 DEF ClassSums
<1>9. Within(S, c, transactions) = S
  BY <1>1, <1>6 DEF Within
<1>10. SumFunctionOnSet(g, transactions) = 0
  <2>1. \A t \in transactions : g[t] = 0
    OBVIOUS
  <2> HIDE DEF g
  <2> QED BY <2>1, SumZero
<1>11. Net(Table, S) = SumFunctionOnSet(f, S)
  BY DEF Net
<1> HIDE DEF S, f, c, g
<1>12. SumFunctionOnSet(f, S) = 0
  BY <1>6, <1>8, <1>9, <1>10, SumClasses
<1> QED BY <1>5, <1>11, <1>12 DEF S

(* Whatever sessions committed, in whatever order, the check of
   ledger/invariant.py finds debit-normal and credit-normal balances equal in
   every currency of the chart. *)
THEOREM BooksAlwaysBalance == Spec => []CheckAlwaysOk
<1>1. Init => IsFiniteSet(transactions)
  BY FS_EmptySet DEF Init
<1>2. IInv /\ IsFiniteSet(transactions) /\ [Next]_vars => IsFiniteSet(transactions)'
  BY FiniteStep
<1>3. IInv /\ IsFiniteSet(transactions) => CheckAlwaysOk
  <2> SUFFICES ASSUME IInv, IsFiniteSet(transactions), NEW cur
               PROVE  NormalSum(Table, "debit", cur) = NormalSum(Table, "credit", cur)
    BY DEF CheckAlwaysOk, check_ok, Table
  <2>1. /\ Rows(Table) /\ Sides(Table) /\ Accepted(Table)
        /\ Net(Table, InCur(Table, cur)) = 0
    BY TableNets
  <2>2. /\ NormalSum(Table, "debit", cur) - NormalSum(Table, "credit", cur) = 0
        /\ NormalSum(Table, "debit", cur) \in Int /\ NormalSum(Table, "credit", cur) \in Int
    BY <2>1, NormalSumsNet
  <2> QED BY <2>2
<1>4. QED
  BY <1>1, <1>2, <1>3, InductiveInvariant, PTL DEF Spec

-----------------------------------------------------------------------------
(* Refinement: each step is a step of the abstract store, or stutters. *)

(* A session that moves without an answer does not move the store. *)
LEMMA StutterStep ==
  ASSUME TypeOK, NEW c \in Callers, NEW s, sess' = [sess EXCEPT ![c] = s],
         transactions' = transactions,
         s.txn = sess[c].txn, s.res = sess[c].res
  PROVE  UNCHANGED Store!storeVars
<1>1. \A d \in Callers : sess'[d].txn = sess[d].txn /\ sess'[d].res = sess[d].res
  BY DEF TypeOK
<1>2. QED
  BY <1>1 DEF Store!storeVars

(* An answer of a session is an answer of the store. *)
LEMMA AnswerStep ==
  ASSUME TypeOK, NEW c \in Callers, Active(c), NEW r, Finish(c, r)
  PROVE  /\ Store!Pending(c)
         /\ Store!Answer(c, r)
         /\ [d \in Callers |-> sess[d].txn]' = [d \in Callers |-> sess[d].txn]
<1>1. sess[c].txn # NULL /\ sess[c].res = "none"
  BY DEF TypeOK, Active, At
<1>2. sess'[c].txn = sess[c].txn /\ sess'[c].res = r
      /\ \A d \in Callers : d # c => sess'[d] = sess[d]
  BY DEF TypeOK, Finish
<1>3. QED
  BY <1>1, <1>2 DEF Store!Pending, Store!Answer

(* Every step of a session is a step of the store, or none. *)
LEMMA RefinementStep ==
  ASSUME IInv, [Next]_vars
  PROVE  [Store!StoreNext]_(Store!storeVars)
<1>1. TypeOK /\ SessionInv
  BY DEF IInv
<1>2. CASE UNCHANGED vars
  BY <1>2 DEF vars, Store!storeVars
<1>3. ASSUME NEW c \in Callers, NEW t \in Txns, post_transaction(c, t)
      PROVE  Store!Call(c, t)
  <2>1. sess[c].txn = NULL /\ sess[c].res = "none"
    BY <1>1, <1>3 DEF post_transaction, TypeOK, At
  <2>2. /\ sess'[c].txn = t /\ sess'[c].res = "none"
        /\ \A d \in Callers : d # c => sess'[d] = sess[d]
    BY <1>1, <1>3 DEF post_transaction, TypeOK
  <2>3. [d \in Callers |-> sess[d].txn]'
          = [[d \in Callers |-> sess[d].txn] EXCEPT ![c] = t]
    BY <2>2
  <2>4. [d \in Callers |-> sess[d].res]' = [d \in Callers |-> sess[d].res]
    BY <2>1, <2>2
  <2>5. QED
    BY <1>3, <2>1, <2>3, <2>4 DEF post_transaction, Store!Call
<1>4. ASSUME NEW c \in Callers, ReturnOrDie(c) PROVE Store!End(c)
  <2>1. sess[c].txn # NULL
    BY <1>1, <1>4 DEF ReturnOrDie, TypeOK, At
  <2>2. /\ sess'[c].txn = NULL /\ sess'[c].res = "none"
        /\ \A d \in Callers : d # c => sess'[d] = sess[d]
    BY <1>1, <1>4 DEF ReturnOrDie, NoCall, TypeOK
  <2>3. [d \in Callers |-> sess[d].txn]'
          = [[d \in Callers |-> sess[d].txn] EXCEPT ![c] = NULL]
    BY <2>2
  <2>4. [d \in Callers |-> sess[d].res]'
          = [[d \in Callers |-> sess[d].res] EXCEPT ![c] = "none"]
    BY <2>2
  <2>5. QED
    BY <1>4, <2>1, <2>3, <2>4 DEF ReturnOrDie, Store!End
<1>5. ASSUME NEW c \in Callers, Step(c)
      PROVE  \/ UNCHANGED Store!storeVars
             \/ Store!Post(c) \/ Store!Duplicate(c) \/ Store!SameId(c) \/ Store!Fail(c)
  <2>1. CASE LookupAccounts(c) \/ InsertTransaction(c) \/ InsertEntry(c)
             \/ SerializationFailure(c)
    <3>1. sess[c].res = "none"
      BY <1>1, <2>1 DEF LookupAccounts, InsertTransaction, InsertEntry,
         SerializationFailure, Active, At, TypeOK
    <3>2. QED
      BY <1>1, <2>1, <3>1, StutterStep DEF LookupAccounts, InsertTransaction,
         InsertEntry, SerializationFailure, Proceed
  <2>2. CASE UnknownAccount(c) \/ EntryRejected(c) \/ CommitRejected(c)
             \/ AttemptsExhausted(c) \/ ConnectionLost(c)
    <3>1. Active(c) /\ Abort(c, "raised")
      BY <2>2 DEF UnknownAccount, EntryRejected, CommitRejected, AllInserted,
         AttemptsExhausted, ConnectionLost, Active, At
    <3>2. QED
      BY <1>1, <3>1, AnswerStep DEF Abort, Store!Fail
  <2>3. CASE PkeyViolation(c)
    <3>1. Active(c) /\ Abort(c, "pkey")
      BY <2>3 DEF PkeyViolation, Active, At
    <3>2. QED
      BY <1>1, <2>3, <3>1, AnswerStep DEF PkeyViolation, Abort, Store!SameId
  <2>4. CASE DedupeViolation(c)
    <3>1. Active(c) /\ Abort(c, "DUPLICATE")
      BY <2>4 DEF DedupeViolation, Active, At
    <3>2. QED
      BY <1>1, <2>4, <3>1, AnswerStep DEF DedupeViolation, Abort,
         Store!Duplicate
  <2>5. CASE Commit(c) \/ CommitInDoubt(c)
    <3>1. Active(c) /\ (Finish(c, "POSTED") \/ Finish(c, "raised"))
      BY <2>5 DEF Commit, CommitInDoubt, AllInserted, Active, At
    <3>2. /\ Acceptable(sess[c].txn)
          /\ \A u \in transactions : ~ Conflict(sess[c].txn, u)
          /\ transactions' = transactions \cup {sess[c].txn}
      BY <1>1, <2>5, CommitShowsWhole DEF Commit, CommitInDoubt
    <3>3. QED
      BY <1>1, <3>1, <3>2, AnswerStep DEF Store!Post, Conflict
  <2>6. QED
    BY <1>5, <2>1, <2>2, <2>3, <2>4, <2>5 DEF Step, Statement, Fault
<1>6. QED
  BY <1>2, <1>3, <1>4, <1>5 DEF Next, Store!StoreNext

(* Posting statement by statement, with waits, rollbacks, retries and lost
   answers, is one atomic step of the abstract store. *)
THEOREM PostImplementsStore == Spec => ImplementsStore
<1>1. Init => Store!StoreInit
  BY DEF Init, NoCall, Store!StoreInit
<1>2. IInv /\ [Next]_vars => [Store!StoreNext]_(Store!storeVars)
  BY RefinementStep
<1>3. QED
  BY <1>1, <1>2, InductiveInvariant, PTL DEF Spec, ImplementsStore, Store!StoreSpec
=============================================================================
