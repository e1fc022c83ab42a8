--------------------------- MODULE PipelineProofs ---------------------------
(***************************************************************************)
(* Theorems about Pipeline, for every set of events, processes, message    *)
(* slots and every bound.                                                  *)
(***************************************************************************)
EXTENDS Pipeline, TLAPS

(* An event always has its own key. *)
LEMMA SameKeyReflexive == \A e : SameKey(e, e)
  BY DEF SameKey

(* check_and_record's SELECT returns a row that really blocks the event. *)
LEMMA BlockingRowBlocks ==
  ASSUME NEW e \in Events, BlockingRows(e) # {}
  PROVE  BlockingRow(e) \in BlockingRows(e)
<1>1. CASE row[e] # NoRow
  BY <1>1, SameKeyReflexive DEF BlockingRow, BlockingRows
<1>2. CASE row[e] = NoRow
  BY <1>2 DEF BlockingRow
<1>3. QED
  BY <1>1, <1>2

-----------------------------------------------------------------------------
(* Type correctness. *)

(* The empty system is typed. *)
LEMMA InitTypeOK == Init => TypeOK
  BY BoundsAssumption
  DEF Init, TypeOK, Message, FreeMsg, Idle, IdleWrk, Statuses,
      NON_TERMINAL_STATUSES, TerminalStatuses

(* A request of the webhook keeps the types. *)
LEMMA IngestTypeOK ==
  ASSUME TypeOK, NEW i \in Ingests, IngestStep(i)
  PROVE  TypeOK'
<1> USE BoundsAssumption DEF TypeOK, Message, Statuses, NON_TERMINAL_STATUSES,
        TerminalStatuses
<1>1. ASSUME NEW e \in Events, RecordNew(i, e) PROVE TypeOK'
  BY <1>1 DEF RecordNew
<1>2. ASSUME NEW e \in Events, RecoverDuplicate(i, e) PROVE TypeOK'
  <2>1. BlockingRow(e) \in Events
    BY <1>2, BlockingRowBlocks DEF RecoverDuplicate, BlockingRows
  <2>2. QED
    BY <1>2, <2>1 DEF RecoverDuplicate
<1>3. ASSUME NEW e \in Events, AnswerDuplicate(i, e) PROVE TypeOK'
  BY <1>3 DEF AnswerDuplicate
<1>4. CASE Enqueue(i)
  BY <1>4 DEF Enqueue, Publish, FreeMsgs
<1>5. CASE EnqueueInDoubt(i)
  BY <1>5 DEF EnqueueInDoubt, Publish, FreeMsgs, Idle
<1>6. CASE RequestFails(i)
  BY <1>6 DEF RequestFails, Idle
<1>7. CASE MarkQueued(i)
  BY <1>7 DEF MarkQueued, mark_queued, Idle
<1>8. QED
  BY <1>1, <1>2, <1>3, <1>4, <1>5, <1>6, <1>7 DEF IngestStep

(* A task keeps the types. *)
LEMMA TaskTypeOK ==
  ASSUME TypeOK, NEW w \in Workers, TaskStep(w)
  PROVE  TypeOK'
<1> USE BoundsAssumption DEF TypeOK, Message, Statuses, NON_TERMINAL_STATUSES,
        TerminalStatuses, GoTo, GoMark, GoOn, TaskEnds, IdleWrk
<1>1. CASE NothingToPost(w)
  BY <1>1 DEF NothingToPost
<1>2. CASE Build(w)
  BY <1>2 DEF Build
<1>3. CASE BuildRaises(w)
  BY <1>3 DEF BuildRaises
<1>4. CASE Post(w)
  BY <1>4 DEF Post
<1>5. CASE PostDuplicate(w)
  BY <1>5 DEF PostDuplicate
<1>6. CASE PostRaises(w)
  BY <1>6 DEF PostRaises
<1>7. CASE PostInDoubt(w)
  BY <1>7 DEF PostInDoubt
<1>8. CASE MarkStatus(w)
  BY <1>8 DEF MarkStatus, _mark_status
<1>9. CASE MarkStatusRaises(w)
  BY <1>9 DEF MarkStatusRaises
<1>10. CASE Retry(w)
  BY <1>10 DEF Retry, Publish, FreeMsgs
<1>11. CASE DeadLetter(w)
  BY <1>11 DEF DeadLetter, _mark_status
<1>12. CASE DeadLetterRaises(w)
  BY <1>12 DEF DeadLetterRaises
<1>13. CASE Ack(w)
  BY <1>13 DEF Ack, FreeMsg
<1>14. QED
  BY <1>1, <1>2, <1>3, <1>4, <1>5, <1>6, <1>7, <1>8, <1>9, <1>10, <1>11, <1>12,
     <1>13 DEF TaskStep

(* The broker keeps the types. *)
LEMMA BrokerTypeOK ==
  ASSUME TypeOK, Holding, BrokerStep
  PROVE  TypeOK'
<1> USE BoundsAssumption DEF TypeOK, Message, Statuses, NON_TERMINAL_STATUSES,
        TerminalStatuses, Moved
<1>1. ASSUME NEW m \in Msgs, RestoreOrphan(m) PROVE TypeOK'
  BY <1>1 DEF RestoreOrphan
<1>2. ASSUME NEW m \in Msgs, NEW w \in Workers, Fetch(w, m) PROVE TypeOK'
  BY <1>2 DEF Fetch
<1>3. ASSUME NEW w \in Workers, RestoreWhileRunning(w) PROVE TypeOK'
  <2>1. PICK m \in Msgs : m = wrk[w].m
    BY <1>3 DEF RestoreWhileRunning
  <2>2. faults' \in 0 .. MaxFaults
    BY <1>3 DEF RestoreWhileRunning
  <2>3. msg' \in [Msgs -> Message] /\ \A n \in Msgs :
          msg'[n].loc # "free" => msg'[n].ev \in Events
    <3>1. msg[m].ev \in Events
      BY <1>3, <2>1 DEF RestoreWhileRunning, Holding
    <3>2. QED
      BY <1>3, <2>1, <3>1 DEF RestoreWhileRunning
  <2>4. QED
    BY <1>3, <2>2, <2>3 DEF RestoreWhileRunning
<1>4. ASSUME NEW w \in Workers, WorkerDies(w) PROVE TypeOK'
  BY <1>4 DEF WorkerDies, IdleWrk
<1>5. QED
  BY <1>1, <1>2, <1>3, <1>4 DEF BrokerStep

(* A replay keeps the types. *)
LEMMA ReplayTypeOK ==
  ASSUME TypeOK, NEW e \in Events, Replay(e)
  PROVE  TypeOK'
  BY BoundsAssumption DEF TypeOK, Message, Replay, Publish, FreeMsgs

-----------------------------------------------------------------------------
(* A message is in the hands of one worker at most. *)

(* Every step of a task but the ack moves the worker on or ends the task. *)
LEMMA TaskMoves ==
  ASSUME NEW w \in Workers, TaskStep(w), ~ Ack(w)
  PROVE  /\ wrk[w].pc \notin {"idle", "ack"}
         /\ \/ TaskEnds(w)
            \/ \E pc \in {"post", "mark", "except"} :
                 \E s \in {"processed", "no_money_moved", NoRow} : GoOn(w, pc, s)
  BY DEF TaskStep, NothingToPost, Build, BuildRaises, Post, PostDuplicate,
     PostRaises, PostInDoubt, MarkStatus, MarkStatusRaises, Retry, DeadLetter,
     DeadLetterRaises, GoTo, GoMark

(* A worker holds the task it was given, and only one. *)
LEMMA HoldingStep ==
  ASSUME TypeOK, Holding, [Next]_vars
  PROVE  Holding'
<1> USE BoundsAssumption DEF TypeOK, Message, Holding
<1>1. ASSUME NEW i \in Ingests, IngestStep(i) PROVE Holding'
  <2>1. wrk' = wrk
    BY <1>1 DEF IngestStep, RecordNew, RecoverDuplicate, AnswerDuplicate, Enqueue,
       EnqueueInDoubt, RequestFails, MarkQueued
  <2>2. \A m \in Msgs : msg[m].loc = "unacked" => msg'[m] = msg[m]
    BY <1>1 DEF IngestStep, RecordNew, RecoverDuplicate, AnswerDuplicate, Enqueue,
       EnqueueInDoubt, RequestFails, MarkQueued, Publish, FreeMsgs
  <2>3. QED
    BY <2>1, <2>2
<1>2. ASSUME NEW e \in Events, Replay(e) PROVE Holding'
  BY <1>2 DEF Replay, Publish, FreeMsgs
<1>3. ASSUME NEW w \in Workers, TaskStep(w) PROVE Holding'
  <2>1. CASE Ack(w)
    BY <2>1 DEF Ack, IdleWrk
  <2>2. CASE ~ Ack(w)
    <3>1. /\ \A v \in Workers : wrk'[v].m = wrk[v].m
          /\ \A v \in Workers : wrk'[v].pc # "ack" =>
               wrk[v].pc # "ack" /\ wrk'[v].ev = wrk[v].ev
      <4>1. wrk[w].pc # "ack"
        BY <1>3, <2>2, TaskMoves
      <4>2. CASE TaskEnds(w)
        BY <4>1, <4>2 DEF TaskEnds
      <4>3. ASSUME NEW pc, NEW s, GoOn(w, pc, s)
            PROVE  \A v \in Workers :
                     /\ wrk'[v].m = wrk[v].m
                     /\ wrk'[v].pc # "ack" =>
                          wrk[v].pc # "ack" /\ wrk'[v].ev = wrk[v].ev
        BY <4>1, <4>3 DEF GoOn
      <4>4. QED
        BY <1>3, <2>2, <4>2, <4>3, TaskMoves
    <3>2. \A m \in Msgs : msg[m].loc = "unacked" => msg'[m] = msg[m]
      BY <1>3, <2>2 DEF TaskStep, NothingToPost, Build, BuildRaises, Post,
         PostDuplicate, PostRaises, PostInDoubt, MarkStatus, MarkStatusRaises,
         Retry, DeadLetter, DeadLetterRaises, Publish, FreeMsgs
    <3>3. QED
      BY <3>1, <3>2
  <2>3. QED
    BY <2>1, <2>2
<1>4. ASSUME NEW m \in Msgs, RestoreOrphan(m) PROVE Holding'
  BY <1>4 DEF RestoreOrphan, Holders
<1>5. ASSUME NEW m \in Msgs, NEW w \in Workers, Fetch(w, m) PROVE Holding'
  BY <1>5 DEF Fetch, Moved
<1>6. ASSUME NEW w \in Workers, RestoreWhileRunning(w) PROVE Holding'
  BY <1>6 DEF RestoreWhileRunning
<1>7. ASSUME NEW w \in Workers, WorkerDies(w) PROVE Holding'
  BY <1>7 DEF WorkerDies, IdleWrk
<1>8. CASE UNCHANGED vars
  BY <1>8 DEF vars
<1>9. QED
  BY <1>1, <1>2, <1>3, <1>4, <1>5, <1>6, <1>7, <1>8 DEF Next, BrokerStep

(* Every step keeps the types. *)
LEMMA TypeStep ==
  ASSUME TypeOK, Holding, [Next]_vars
  PROVE  TypeOK'
<1>1. CASE UNCHANGED vars
  BY <1>1 DEF TypeOK, vars
<1>2. CASE Next
  BY <1>2, IngestTypeOK, TaskTypeOK, BrokerTypeOK, ReplayTypeOK DEF Next
<1>3. QED
  BY <1>1, <1>2

(* Nobody holds anything at the start. *)
LEMMA InitHolding == Init => Holding
  BY DEF Init, Holding, IdleWrk

(* The event log, the broker's messages and the processes of ingest and worker
   keep their types, whatever is delivered, lost, restored or replayed; and a
   message is in the hands of one worker at most. *)
THEOREM TypeCorrect == Spec => [](TypeOK /\ Holding)
<1>1. Init => TypeOK /\ Holding
  BY InitTypeOK, InitHolding
<1>2. (TypeOK /\ Holding) /\ [Next]_vars => (TypeOK /\ Holding)'
  BY TypeStep, HoldingStep
<1>3. QED
  BY <1>1, <1>2, PTL DEF Spec

-----------------------------------------------------------------------------
(* The ledger and the statuses that speak of it. *)

(* A unique key is shared by both or by neither. *)
LEMMA ConflictSymmetric == \A t, u : Conflict(t, u) => Conflict(u, t)
  BY DEF Conflict, PkeyConflict, DedupeConflict, SameNonNull

(* A transaction shares its keys with itself. *)
LEMMA ConflictReflexive == \A t : Conflict(t, t)
  BY DEF Conflict, PkeyConflict

(* Steps that leave the ledger and the log alone, and no worker about to post
   or about to write 'processed' who was not before. *)
LEMMA LedgerInvStable ==
  ASSUME TypeOK, LedgerInv, posted' = posted,
         \A e \in Events : row'[e] = "processed" => row[e] = "processed",
         \A w \in Workers :
           /\ wrk'[w].pc = "post" =>
                Postable(wrk'[w].ev)
           /\ wrk'[w].pc = "mark" /\ wrk'[w].status = "processed" =>
                Postable(wrk'[w].ev) /\ KeyIn(posted, wrk'[w].ev)
  PROVE  LedgerInv'
  BY DEF LedgerInv, KeyIn

(* The webhook does not touch the ledger. *)
LEMMA LedgerInvIngest ==
  ASSUME TypeOK, LedgerInv, NEW i \in Ingests, IngestStep(i)
  PROVE  LedgerInv'
<1>1. wrk' = wrk /\ posted' = posted
  BY DEF IngestStep, RecordNew, RecoverDuplicate, AnswerDuplicate, Enqueue,
     EnqueueInDoubt, RequestFails, MarkQueued
<1>2. \A e \in Events : row'[e] = "processed" => row[e] = "processed"
  BY DEF IngestStep, RecordNew, RecoverDuplicate, AnswerDuplicate, Enqueue,
     EnqueueInDoubt, RequestFails, MarkQueued, mark_queued, TypeOK
<1>3. QED
  BY <1>1, <1>2, LedgerInvStable DEF LedgerInv

(* The broker does not touch the ledger. *)
LEMMA LedgerInvBroker ==
  ASSUME TypeOK, LedgerInv, BrokerStep
  PROVE  LedgerInv'
<1>1. row' = row /\ posted' = posted
  BY DEF BrokerStep, RestoreOrphan, Fetch, RestoreWhileRunning, WorkerDies
<1>2. \A v \in Workers :
        wrk'[v].pc \in {"post", "mark"} =>
          /\ wrk'[v].pc = wrk[v].pc
          /\ wrk'[v].ev = wrk[v].ev
          /\ wrk'[v].status = wrk[v].status
  BY DEF BrokerStep, RestoreOrphan, Fetch, RestoreWhileRunning, WorkerDies,
     IdleWrk, TypeOK
<1>3. QED
  BY <1>1, <1>2, LedgerInvStable DEF LedgerInv

(* Posting: the new transaction conflicts with none that is there. *)
LEMMA LedgerInvPosting ==
  ASSUME TypeOK, LedgerInv, NEW w \in Workers, wrk[w].pc = "post",
         ~ KeyIn(posted, wrk[w].ev), posted' = posted \cup {wrk[w].ev}, row' = row,
         \/ GoMark(w, "processed")
         \/ GoTo(w, "except")
  PROVE  LedgerInv'
<1> DEFINE x == wrk[w].ev
<1>1. Postable(x)
  BY DEF LedgerInv
<1>2. \A e : KeyIn(posted, e) => KeyIn(posted', e)
  BY DEF KeyIn
<1>3. KeyIn(posted', x)
  BY ConflictReflexive DEF KeyIn
<1>4. \A p \in posted' : Postable(p)
  BY <1>1 DEF LedgerInv
<1>5. \A p, q \in posted' : Conflict(TxnOf(p), TxnOf(q)) => p = q
  BY ConflictSymmetric DEF LedgerInv, KeyIn
<1>6. ASSUME NEW v \in Workers
      PROVE  /\ wrk'[v].pc = "post" => Postable(wrk'[v].ev)
             /\ wrk'[v].pc = "mark" /\ wrk'[v].status = "processed" =>
                  Postable(wrk'[v].ev) /\ KeyIn(posted', wrk'[v].ev)
  <2>1. CASE v = w
    <3>1. wrk'[v].ev = x /\ wrk'[v].pc # "post"
      BY <2>1 DEF GoMark, GoTo, GoOn, TypeOK
    <3>2. QED
      BY <3>1, <1>1, <1>3
  <2>2. CASE v # w
    <3>1. wrk'[v] = wrk[v]
      BY <2>2 DEF GoMark, GoTo, GoOn, TypeOK
    <3>2. QED
      BY <3>1, <1>2 DEF LedgerInv
  <2>3. QED
    BY <2>1, <2>2
<1>7. \A e \in Events : row'[e] = "processed" => Postable(e) /\ KeyIn(posted', e)
  BY <1>2 DEF LedgerInv
<1>8. QED
  BY <1>4, <1>5, <1>6, <1>7 DEF LedgerInv

(* A task posts what its event maps to, once. *)
LEMMA LedgerInvTask ==
  ASSUME TypeOK, LedgerInv, NEW w \in Workers, TaskStep(w)
  PROVE  LedgerInv'
<1>1. CASE Post(w) \/ PostInDoubt(w)
  BY <1>1, LedgerInvPosting DEF Post, PostInDoubt
<1>2. ASSUME posted' = posted,
             NEW pc, NEW s, GoOn(w, pc, s), row' = row,
             pc = "post" => Postable(wrk[w].ev),
             s = "processed" => Postable(wrk[w].ev) /\ KeyIn(posted, wrk[w].ev)
      PROVE  LedgerInv'
  BY <1>2, LedgerInvStable DEF GoOn, LedgerInv, TypeOK
<1>3. CASE NothingToPost(w)
  BY <1>2, <1>3 DEF NothingToPost, GoMark
<1>4. CASE Build(w)
  BY <1>2, <1>4 DEF Build, GoTo, NoRow
<1>5. CASE BuildRaises(w)
  BY <1>2, <1>5 DEF BuildRaises, GoTo, NoRow
<1>6. CASE PostDuplicate(w)
  BY <1>2, <1>6 DEF PostDuplicate, GoMark, LedgerInv
<1>7. CASE PostRaises(w)
  BY <1>2, <1>7 DEF PostRaises, GoTo, NoRow
<1>8. CASE MarkStatusRaises(w)
  BY <1>2, <1>8 DEF MarkStatusRaises, GoTo, NoRow
<1>9. ASSUME posted' = posted, TaskEnds(w) \/ Ack(w),
             \A e \in Events : row'[e] = "processed" =>
                Postable(e) /\ KeyIn(posted, e)
      PROVE  LedgerInv'
  <2>1. \A v \in Workers : wrk'[v] = wrk[v] \/ wrk'[v].pc \in {"idle", "ack"}
    BY <1>9 DEF TaskEnds, Ack, IdleWrk, TypeOK
  <2>2. QED
    BY <1>9, <2>1 DEF LedgerInv
<1>10. CASE MarkStatus(w)
  <2>1. posted' = posted /\ TaskEnds(w)
    BY <1>10 DEF MarkStatus
  <2>2. ASSUME NEW e \in Events, row'[e] = "processed"
        PROVE  Postable(e) /\ KeyIn(posted, e)
    <3>1. row[e] = "processed" \/ (e = wrk[w].ev /\ wrk[w].status = "processed")
      BY <1>10, <2>2 DEF MarkStatus, _mark_status, TypeOK
    <3>2. QED
      BY <1>10, <3>1 DEF MarkStatus, LedgerInv
  <2>3. QED
    BY <1>9, <2>1, <2>2
<1>11. CASE DeadLetter(w)
  <2>1. \A e \in Events : row'[e] = "processed" => row[e] = "processed"
    BY <1>11 DEF DeadLetter, _mark_status, TypeOK
  <2>2. QED
    BY <1>9, <1>11, <2>1 DEF DeadLetter, LedgerInv
<1>12. CASE Retry(w) \/ DeadLetterRaises(w) \/ Ack(w)
  BY <1>9, <1>12 DEF Retry, DeadLetterRaises, Ack, LedgerInv
<1>13. QED
  BY <1>1, <1>3, <1>4, <1>5, <1>6, <1>7, <1>8, <1>10, <1>11, <1>12 DEF TaskStep

(* Every step preserves what is known of the ledger. *)
LEMMA LedgerInvStep ==
  ASSUME TypeOK, LedgerInv, [Next]_vars
  PROVE  LedgerInv'
<1>1. CASE UNCHANGED vars
  BY <1>1 DEF LedgerInv, vars, KeyIn
<1>2. ASSUME NEW e \in Events, Replay(e) PROVE LedgerInv'
  BY <1>2 DEF Replay, LedgerInv
<1>3. QED
  BY <1>1, <1>2, LedgerInvIngest, LedgerInvTask, LedgerInvBroker DEF Next

(* What is known of the ledger holds throughout. *)
LEMMA LedgerInvHolds == Spec => []LedgerInv
<1>1. Init => LedgerInv
  BY DEF Init, LedgerInv, IdleWrk, NoRow
<1>2. TypeOK /\ LedgerInv /\ [Next]_vars => LedgerInv'
  BY LedgerInvStep
<1>3. QED
  BY <1>1, <1>2, TypeCorrect, PTL DEF Spec

(* If events that report one movement share a dedupe key, the movement is
   posted at most once: no retry, redelivery, restored message, replay or
   second Event object can make the worker post it again. *)
THEOREM MovementPostedOnce ==
  ASSUME MovementsAreKeyed
  PROVE  Spec => []OnePostingPerMovement
<1>1. TypeOK /\ LedgerInv => OnePostingPerMovement
  BY MovementsAreKeyed DEF MovementsAreKeyed, LedgerInv, OnePostingPerMovement,
     TypeOK
<1>2. QED
  BY <1>1, TypeCorrect, LedgerInvHolds, PTL

(* If in turn a dedupe key stands for one movement, a row that says
   'processed' tells the truth: that movement is in the ledger. *)
THEOREM ProcessedTellsTheTruth ==
  ASSUME KeysAreMovements
  PROVE  Spec => []ProcessedIsPosted
<1>1. TypeOK /\ LedgerInv => ProcessedIsPosted
  BY KeysAreMovements DEF KeysAreMovements, LedgerInv, ProcessedIsPosted,
     TypeOK, KeyIn
<1>2. QED
  BY <1>1, TypeCorrect, LedgerInvHolds, PTL

(* Nobody but a task that found nothing to post says 'no_money_moved'. *)
LEMMA NoMoneyInvStep ==
  ASSUME TypeOK, NoMoneyInv, [Next]_vars
  PROVE  NoMoneyInv'
<1>1. ASSUME NEW v \in Workers, wrk'[v].pc = "mark",
             wrk'[v].status = "no_money_moved"
      PROVE  ~ Postable(wrk'[v].ev)
  <2>1. CASE wrk'[v] = wrk[v]
    BY <1>1, <2>1 DEF NoMoneyInv
  <2>2. CASE NothingToPost(v)
    <3>1. wrk'[v].ev = wrk[v].ev
      BY <2>2 DEF NothingToPost, GoMark, GoOn, TypeOK
    <3>2. QED
      BY <2>2, <3>1 DEF NothingToPost, Postable
  <2>3. CASE TaskStep(v) /\ ~ NothingToPost(v)
    BY <1>1, <2>3 DEF TaskStep, Build, BuildRaises, Post, PostDuplicate, PostRaises,
       PostInDoubt, MarkStatus, MarkStatusRaises, Retry, DeadLetter,
       DeadLetterRaises, Ack, GoTo, GoMark, GoOn, TaskEnds, IdleWrk, TypeOK
  <2>4. ASSUME NEW w \in Workers, w # v, TaskStep(w) PROVE wrk'[v] = wrk[v]
    BY <2>4 DEF TaskStep, NothingToPost, Build, BuildRaises, Post, PostDuplicate,
       PostRaises, PostInDoubt, MarkStatus, MarkStatusRaises, Retry, DeadLetter,
       DeadLetterRaises, Ack, GoTo, GoMark, GoOn, TaskEnds, TypeOK
  <2>5. CASE BrokerStep
    <3>1. wrk'[v].ev = wrk[v].ev /\ wrk[v].pc = "mark"
          /\ wrk[v].status = "no_money_moved"
      BY <1>1, <2>5 DEF BrokerStep, RestoreOrphan, Fetch, RestoreWhileRunning,
         WorkerDies, IdleWrk, TypeOK
    <3>2. QED
      BY <3>1 DEF NoMoneyInv
  <2>6. CASE (\E i \in Ingests : IngestStep(i)) \/ (\E e \in Events : Replay(e))
             \/ UNCHANGED vars
    BY <2>1, <2>6 DEF IngestStep, RecordNew, RecoverDuplicate, AnswerDuplicate,
       Enqueue, EnqueueInDoubt, RequestFails, MarkQueued, Replay, vars
  <2>7. QED
    BY <2>1, <2>2, <2>3, <2>4, <2>5, <2>6 DEF Next
<1>2. ASSUME NEW e \in Events, row'[e] = "no_money_moved"
      PROVE  ~ Postable(e)
  <2>1. CASE row[e] = "no_money_moved"
    BY <2>1 DEF NoMoneyInv
  <2>2. ASSUME NEW w \in Workers, MarkStatus(w), row[e] # "no_money_moved"
        PROVE  ~ Postable(e)
    <3>1. e = wrk[w].ev /\ wrk[w].status = "no_money_moved"
      BY <1>2, <2>2 DEF MarkStatus, _mark_status, TypeOK
    <3>2. QED
      BY <2>2, <3>1 DEF MarkStatus, NoMoneyInv
  <2>3. ASSUME NEW w \in Workers, TaskStep(w), ~ MarkStatus(w)
        PROVE  row[e] = "no_money_moved"
    BY <1>2, <2>3 DEF TaskStep, NothingToPost, Build, BuildRaises, Post,
       PostDuplicate, PostRaises, PostInDoubt, MarkStatusRaises, Retry, DeadLetter,
       DeadLetterRaises, Ack, _mark_status, TypeOK
  <2>4. ASSUME ~ \E w \in Workers : TaskStep(w)
        PROVE  row[e] = "no_money_moved"
    BY <1>2, <2>4 DEF Next, IngestStep, RecordNew, RecoverDuplicate, AnswerDuplicate,
       Enqueue, EnqueueInDoubt, RequestFails, MarkQueued, mark_queued, Replay,
       BrokerStep, RestoreOrphan, Fetch, RestoreWhileRunning, WorkerDies, vars,
       TypeOK
  <2>5. QED
    BY <2>1, <2>2, <2>3, <2>4
<1>3. QED
  BY <1>1, <1>2 DEF NoMoneyInv

-----------------------------------------------------------------------------
(* Rows are never deleted and a covered row stays covered. *)

(* An event no row blocks has none of its own. *)
LEMMA BlockingFree ==
  ASSUME NEW e \in Events, BlockingRows(e) = {}
  PROVE  row[e] = NoRow
  BY SameKeyReflexive DEF BlockingRows

(* No step deletes a row. *)
LEMMA RowsStay ==
  ASSUME TypeOK, [Next]_vars, NEW t \in Events, row[t] # NoRow
  PROVE  row'[t] # NoRow
<1> USE DEF TypeOK, NoRow, Statuses, NON_TERMINAL_STATUSES, TerminalStatuses
<1>1. ASSUME NEW i \in Ingests, IngestStep(i) PROVE row'[t] # NoRow
  BY <1>1 DEF IngestStep, RecordNew, RecoverDuplicate, AnswerDuplicate, Enqueue,
     EnqueueInDoubt, RequestFails, MarkQueued, mark_queued
<1>2. ASSUME NEW w \in Workers, TaskStep(w) PROVE row'[t] # NoRow
  <2>1. CASE MarkStatus(w)
    BY <2>1 DEF MarkStatus, _mark_status
  <2>2. CASE DeadLetter(w)
    BY <2>2 DEF DeadLetter, _mark_status
  <2>3. CASE row' = row
    BY <2>3
  <2>4. QED
    BY <1>2, <2>1, <2>2, <2>3 DEF TaskStep, NothingToPost, Build, BuildRaises,
       Post, PostDuplicate, PostRaises, PostInDoubt, MarkStatusRaises, Retry,
       DeadLetterRaises, Ack
<1>3. CASE (\E e \in Events : Replay(e)) \/ BrokerStep \/ UNCHANGED vars
  BY <1>3 DEF Replay, BrokerStep, RestoreOrphan, Fetch, RestoreWhileRunning,
     WorkerDies, vars
<1>4. QED
  BY <1>1, <1>2, <1>3 DEF Next

(* A settled status only gives way to another settled status. *)
LEMMA SettledStep ==
  ASSUME TypeOK, [Next]_vars, NEW t \in Events, row[t] \in TerminalStatuses
  PROVE  row'[t] \in TerminalStatuses
<1> USE DEF TypeOK, NoRow, TerminalStatuses
<1>1. ASSUME NEW i \in Ingests, IngestStep(i) PROVE row'[t] \in TerminalStatuses
  <2>1. ASSUME NEW e \in Events, RecordNew(i, e)
        PROVE  row'[t] \in TerminalStatuses
    BY <2>1, BlockingFree DEF RecordNew
  <2>2. CASE MarkQueued(i)
    BY <2>2 DEF MarkQueued, mark_queued
  <2>3. QED
    BY <1>1, <2>1, <2>2 DEF IngestStep, RecoverDuplicate, AnswerDuplicate, Enqueue,
       EnqueueInDoubt, RequestFails
<1>2. ASSUME NEW w \in Workers, TaskStep(w) PROVE row'[t] \in TerminalStatuses
  <2>1. CASE MarkStatus(w)
    BY <2>1 DEF MarkStatus, _mark_status
  <2>2. CASE DeadLetter(w)
    BY <2>2 DEF DeadLetter, _mark_status
  <2>3. CASE row' = row
    BY <2>3
  <2>4. QED
    BY <1>2, <2>1, <2>2, <2>3 DEF TaskStep, NothingToPost, Build, BuildRaises,
       Post, PostDuplicate, PostRaises, PostInDoubt, MarkStatusRaises, Retry,
       DeadLetterRaises, Ack
<1>3. CASE (\E e \in Events : Replay(e)) \/ BrokerStep \/ UNCHANGED vars
  BY <1>3 DEF Replay, BrokerStep, RestoreOrphan, Fetch, RestoreWhileRunning,
     WorkerDies, vars
<1>4. QED
  BY <1>1, <1>2, <1>3 DEF Next

(* No late request and no late task takes a settled status back: mark_queued's
   guard holds against every interleaving. *)
THEOREM SettledIsFinal == Spec => SettledStaysSettled
<1>1. TypeOK /\ [Next]_vars =>
        [\A e \in Events : row[e] \in TerminalStatuses =>
                           row'[e] \in TerminalStatuses]_vars
  BY SettledStep
<1>2. QED
  BY <1>1, TypeCorrect, PTL DEF Spec, SettledStaysSettled

(* A published message is live, and publishing disturbs no live message. *)
LEMMA PublishLive ==
  ASSUME TypeOK, NEW e \in Events, NEW r, Publish(e, r),
         \A w \in Workers : wrk'[w].m = wrk[w].m /\
           (wrk'[w].pc = "ack" => wrk[w].pc = "ack")
  PROVE  /\ \E m \in Msgs : Live(m, e)'
         /\ \A m \in Msgs, t \in Events : Live(m, t) => Live(m, t)'
<1>1. PICK n \in FreeMsgs :
        msg' = [msg EXCEPT ![n] = [loc |-> "ready", ev |-> e, retries |-> r]]
  BY DEF Publish
<1>2. n \in Msgs /\ msg[n].loc = "free"
  BY DEF FreeMsgs
<1>3. Live(n, e)'
  BY <1>1, <1>2 DEF Live, TypeOK
<1>4. ASSUME NEW m \in Msgs, NEW t \in Events, Live(m, t)
      PROVE  Live(m, t)'
  <2>1. m # n /\ msg'[m] = msg[m]
    BY <1>1, <1>2, <1>4 DEF Live, TypeOK
  <2>2. QED
    BY <1>4, <2>1 DEF Live, Holders
<1>5. QED
  BY <1>2, <1>3, <1>4

(* Ending a task takes its own message out of the live ones, and no other. *)
LEMMA TaskEndsLive ==
  ASSUME TypeOK, Holding, NEW w \in Workers, wrk[w].pc # "ack", TaskEnds(w),
         NEW m \in Msgs, NEW t \in Events, Live(m, t), msg'[m] = msg[m]
  PROVE  Live(m, t)' \/ t = wrk[w].ev
<1>1. CASE wrk[w].m = m
  BY <1>1, BoundsAssumption DEF Holding, Live
<1>2. CASE wrk[w].m # m
  <2>1. \A v \in Workers : wrk'[v].m = wrk[v].m /\ (v # w => wrk'[v] = wrk[v])
    BY DEF TaskEnds, TypeOK
  <2>2. QED
    BY <1>2, <2>1 DEF Live, Holders
<1>3. QED
  BY <1>1, <1>2

(* The heart of the matter: as long as its row exists, a covered event stays
   covered through every step of ingest, broker and worker. *)
LEMMA CoverStep ==
  ASSUME TypeOK, Holding, [Next]_vars, NEW t \in Events, row[t] # NoRow,
         Covered(t)
  PROVE  Covered(t)'
<1>1. logged \subseteq logged'
  BY DEF Next, IngestStep, RecordNew, RecoverDuplicate, AnswerDuplicate, Enqueue,
     EnqueueInDoubt, RequestFails, MarkQueued, TaskStep, NothingToPost, Build,
     BuildRaises, Post, PostDuplicate, PostRaises, PostInDoubt, MarkStatus,
     MarkStatusRaises, Retry, DeadLetter, DeadLetterRaises, Ack, Replay,
     BrokerStep, RestoreOrphan, Fetch, RestoreWhileRunning, WorkerDies, vars
<1>2. CASE row[t] \in TerminalStatuses \/ t \in logged
  BY <1>1, <1>2, SettledStep DEF Covered
<1>3. ASSUME NEW m \in Msgs, Live(m, t)
      PROVE  Covered(t)'
  <2>1. CASE UNCHANGED <<msg, wrk>>
    BY <1>3, <2>1 DEF Covered, Live, Holders
  <2>2. ASSUME NEW i \in Ingests, IngestStep(i) PROVE Covered(t)'
    <3>1. CASE Enqueue(i) \/ EnqueueInDoubt(i)
      <4>1. ing[i].target \in Events /\ Publish(ing[i].target, 0) /\ wrk' = wrk
        BY <3>1 DEF Enqueue, EnqueueInDoubt, TypeOK
      <4>2. QED
        BY <1>3, <4>1, PublishLive DEF Covered
    <3>2. QED
      BY <2>1, <2>2, <3>1 DEF IngestStep, RecordNew, RecoverDuplicate,
         AnswerDuplicate, RequestFails, MarkQueued
  <2>3. ASSUME NEW e \in Events, Replay(e) PROVE Covered(t)'
    BY <1>3, <2>3, PublishLive DEF Replay, Covered
  <2>4. ASSUME NEW n \in Msgs, RestoreOrphan(n) PROVE Covered(t)'
    BY <1>3, <2>4 DEF RestoreOrphan, Moved, Covered, Live, Holders, TypeOK
  <2>5. ASSUME NEW n \in Msgs, NEW w \in Workers, Fetch(w, n) PROVE Covered(t)'
    <3>1. CASE n = m
      <4>1. msg'[m].ev = t /\ msg'[m].loc = "unacked"
        BY <1>3, <2>5, <3>1 DEF Fetch, Moved, Live, TypeOK
      <4>2. \A v \in Workers : wrk'[v].m = m => wrk'[v].pc # "ack"
        BY <2>5, <3>1, BoundsAssumption DEF Fetch, Holding, TypeOK
      <4>3. QED
        BY <4>1, <4>2 DEF Covered, Live, Holders
    <3>2. CASE n # m
      BY <1>3, <2>5, <3>2 DEF Fetch, Covered, Live, Holders, TypeOK
    <3>3. QED
      BY <3>1, <3>2
  <2>6. ASSUME NEW w \in Workers, RestoreWhileRunning(w) PROVE Covered(t)'
    <3>1. \A v \in Workers : wrk'[v].m \in {wrk[v].m, NoMsg}
                             /\ wrk'[v].pc = wrk[v].pc
      BY <2>6 DEF RestoreWhileRunning, TypeOK
    <3>2. msg'[m] = msg[m] \/ (msg'[m].loc = "ready" /\ msg'[m].ev = msg[m].ev)
      BY <2>6 DEF RestoreWhileRunning, Moved, TypeOK
    <3>3. QED
      BY <1>3, <3>1, <3>2, BoundsAssumption DEF Covered, Live, Holders
  <2>7. ASSUME NEW w \in Workers, WorkerDies(w) PROVE Covered(t)'
    <3>1. \A v \in Workers : wrk'[v] = wrk[v] \/ wrk'[v].m = NoMsg
      BY <2>7 DEF WorkerDies, IdleWrk, TypeOK
    <3>2. QED
      BY <1>3, <2>7, <3>1, BoundsAssumption DEF WorkerDies, Covered, Live, Holders
  <2>8. ASSUME NEW w \in Workers, TaskStep(w) PROVE Covered(t)'
    <3>1. CASE Ack(w)
      <4>1. wrk[w].m # m
        BY <1>3, <3>1, BoundsAssumption DEF Ack, Live, Holders, Holding
      <4>2. msg'[m] = msg[m]
        BY <3>1, <4>1 DEF Ack, TypeOK
      <4>3. \A v \in Workers : wrk'[v] = wrk[v] \/ wrk'[v].m = NoMsg
        BY <3>1 DEF Ack, IdleWrk, TypeOK
      <4>4. QED
        BY <1>3, <4>2, <4>3, BoundsAssumption DEF Covered, Live, Holders
    <3>2. ASSUME NEW pc \in {"post", "mark", "except"}, NEW s, GoOn(w, pc, s),
                 msg' = msg
          PROVE  Covered(t)'
      BY <1>3, <3>2 DEF GoOn, Covered, Live, Holders, TypeOK
    <3>3. CASE MarkStatus(w) \/ DeadLetter(w) \/ DeadLetterRaises(w)
      <4>1. /\ wrk[w].pc # "ack" /\ TaskEnds(w) /\ msg' = msg
            /\ wrk[w].ev \in Events
        BY <3>3 DEF MarkStatus, DeadLetter, DeadLetterRaises, TypeOK
      <4>2. CASE Live(m, t)'
        BY <4>2 DEF Covered
      <4>3. CASE t = wrk[w].ev
        <5>1. CASE MarkStatus(w)
          <6>1. row'[t] = wrk[w].status
            BY <4>3, <5>1 DEF MarkStatus, _mark_status, TypeOK
          <6>2. QED
            BY <5>1, <6>1 DEF MarkStatus, TypeOK, Covered, TerminalStatuses
        <5>2. CASE DeadLetter(w)
          BY <4>3, <5>2 DEF DeadLetter, _mark_status, TypeOK, Covered,
             TerminalStatuses
        <5>3. CASE DeadLetterRaises(w)
          BY <4>3, <5>3 DEF DeadLetterRaises, Covered
        <5>4. QED
          BY <3>3, <5>1, <5>2, <5>3
      <4>4. Live(m, t)' \/ t = wrk[w].ev
        BY <1>3, <4>1, TaskEndsLive
      <4>5. QED
        BY <4>2, <4>3, <4>4
    <3>4. CASE Retry(w)
      <4>1. /\ wrk[w].pc # "ack" /\ TaskEnds(w)
            /\ wrk[w].ev \in Events
        BY <3>4 DEF Retry, TypeOK
      <4>2. PICK n \in FreeMsgs :
              msg' = [msg EXCEPT ![n] = [loc |-> "ready", ev |-> wrk[w].ev,
                                         retries |-> wrk[w].retries + 1]]
        BY <3>4 DEF Retry, Publish
      <4>3. n \in Msgs /\ n # m /\ msg'[m] = msg[m]
        BY <1>3, <4>2 DEF FreeMsgs, Live, TypeOK
      <4>4. CASE Live(m, t)'
        BY <4>4 DEF Covered
      <4>5. CASE t = wrk[w].ev
        BY <4>2, <4>3, <4>5 DEF Covered, Live, TypeOK
      <4>6. Live(m, t)' \/ t = wrk[w].ev
        BY <1>3, <4>1, <4>3, TaskEndsLive
      <4>7. QED
        BY <4>4, <4>5, <4>6
    <3>5. QED
      BY <2>8, <3>1, <3>2, <3>3, <3>4 DEF TaskStep, NothingToPost, Build,
         BuildRaises, Post, PostDuplicate, PostRaises, PostInDoubt,
         MarkStatusRaises, GoTo, GoMark
  <2>9. QED
    BY <2>1, <2>2, <2>3, <2>4, <2>5, <2>6, <2>7, <2>8 DEF Next, BrokerStep, vars
<1>4. QED
  BY <1>2, <1>3 DEF Covered

(* A request under way keeps the row it answers for. *)
LEMMA IngestInvStep ==
  ASSUME TypeOK, Holding, IngestInv, [Next]_vars
  PROVE  IngestInv'
<1> SUFFICES ASSUME NEW i \in Ingests, ing'[i].pc # "idle"
             PROVE  /\ SameKey(ing'[i].ev, ing'[i].target)
                    /\ row'[ing'[i].target] # NoRow
                    /\ ing'[i].pc = "mark" => Covered(ing[i].target)'
  BY DEF IngestInv
<1>1. CASE ing'[i] = ing[i]
  <2>1. PICK t \in Events : t = ing[i].target
    BY <1>1 DEF TypeOK
  <2>2. SameKey(ing[i].ev, t) /\ row[t] # NoRow /\ (ing[i].pc = "mark" => Covered(t))
    BY <1>1, <2>1 DEF IngestInv
  <2>3. row'[t] # NoRow /\ (ing[i].pc = "mark" => Covered(t)')
    BY <2>2, RowsStay, CoverStep
  <2>4. QED
    BY <1>1, <2>1, <2>2, <2>3
<1>2. ASSUME ing'[i].pc = "enqueue", NEW e \in Events, NEW t \in Events,
             ing'[i].ev = e, ing'[i].target = t, SameKey(e, t), row'[t] # NoRow
      PROVE  /\ SameKey(ing'[i].ev, ing'[i].target)
             /\ row'[ing'[i].target] # NoRow
             /\ ing'[i].pc = "mark" => Covered(ing[i].target)'
  BY <1>2
<1>3. ASSUME NEW e \in Events, RecordNew(i, e)
      PROVE  /\ SameKey(ing'[i].ev, ing'[i].target)
             /\ row'[ing'[i].target] # NoRow
             /\ ing'[i].pc = "mark" => Covered(ing[i].target)'
  <2>1. row'[e] = "received" /\ ing'[i] = [pc |-> "enqueue", ev |-> e, target |-> e]
    BY <1>3 DEF RecordNew, TypeOK
  <2>2. QED
    BY <1>2, <2>1, SameKeyReflexive DEF NoRow
<1>4. ASSUME NEW e \in Events, RecoverDuplicate(i, e)
      PROVE  /\ SameKey(ing'[i].ev, ing'[i].target)
             /\ row'[ing'[i].target] # NoRow
             /\ ing'[i].pc = "mark" => Covered(ing[i].target)'
  <2>1. PICK t \in BlockingRows(e) : t = BlockingRow(e)
    BY <1>4, BlockingRowBlocks DEF RecoverDuplicate
  <2>2. t \in Events /\ row[t] # NoRow /\ SameKey(e, t)
    BY <2>1 DEF BlockingRows
  <2>3. row' = row /\ ing'[i] = [pc |-> "enqueue", ev |-> e, target |-> t]
    BY <1>4, <2>1 DEF RecoverDuplicate, TypeOK
  <2>4. QED
    BY <1>2, <2>2, <2>3
<1>5. CASE Enqueue(i)
  <2>1. PICK t \in Events : t = ing[i].target
    BY <1>5 DEF Enqueue, TypeOK
  <2>2. /\ SameKey(ing[i].ev, t) /\ row[t] # NoRow
        /\ row' = row /\ wrk' = wrk /\ Publish(t, 0)
    BY <1>5, <2>1 DEF Enqueue, IngestInv
  <2>3. Covered(t)'
    BY <2>2, PublishLive DEF Covered
  <2>4. ing'[i].ev = ing[i].ev /\ ing'[i].target = t
    BY <1>5, <2>1 DEF Enqueue, TypeOK
  <2>5. QED
    BY <2>2, <2>3, <2>4
<1>6. CASE EnqueueInDoubt(i) \/ RequestFails(i) \/ MarkQueued(i)
  BY <1>6 DEF EnqueueInDoubt, RequestFails, MarkQueued, Idle, TypeOK
<1>7. ASSUME NEW j \in Ingests, IngestStep(j), j # i PROVE ing'[i] = ing[i]
  BY <1>7 DEF IngestStep, RecordNew, RecoverDuplicate, AnswerDuplicate, Enqueue,
     EnqueueInDoubt, RequestFails, MarkQueued, TypeOK
<1>8. ASSUME ~ \E j \in Ingests : IngestStep(j) PROVE ing'[i] = ing[i]
  BY <1>8 DEF Next, TaskStep, NothingToPost, Build,
     BuildRaises, Post, PostDuplicate, PostRaises, PostInDoubt, MarkStatus,
     MarkStatusRaises, Retry, DeadLetter, DeadLetterRaises, Ack, Replay,
     BrokerStep, RestoreOrphan, Fetch, RestoreWhileRunning, WorkerDies, vars
<1>9. CASE IngestStep(i)
  BY <1>1, <1>3, <1>4, <1>5, <1>6, <1>9 DEF IngestStep, AnswerDuplicate
<1>10. QED
  BY <1>1, <1>7, <1>8, <1>9

(* What was acknowledged has a row that is covered, after every step. *)
LEMMA NotStrandedStep ==
  ASSUME TypeOK, Holding, IngestInv, NotStranded, [Next]_vars
  PROVE  NotStranded'
<1> SUFFICES ASSUME NEW e \in acked'
             PROVE  \E t \in Events :
                      SameKey(e, t) /\ row'[t] # NoRow /\ Covered(t)'
  BY DEF NotStranded
<1>1. ASSUME NEW t \in Events, SameKey(e, t), row[t] # NoRow, Covered(t)
      PROVE  SameKey(e, t) /\ row'[t] # NoRow /\ Covered(t)'
  BY <1>1, RowsStay, CoverStep
<1>2. CASE e \in acked
  BY <1>1, <1>2 DEF NotStranded
<1>3. ASSUME NEW i \in Ingests, AnswerDuplicate(i, e), e \in Events
      PROVE  \E t \in Events : SameKey(e, t) /\ row[t] # NoRow /\ Covered(t)
  <2>1. PICK t \in BlockingRows(e) : t = BlockingRow(e)
    BY <1>3, BlockingRowBlocks DEF AnswerDuplicate
  <2>2. t \in Events /\ row[t] # NoRow /\ SameKey(e, t)
    BY <2>1 DEF BlockingRows
  <2>3. row[t] \in TerminalStatuses
    BY <1>3, <2>1, <2>2 DEF AnswerDuplicate, TypeOK, Statuses
  <2>4. QED
    BY <2>2, <2>3 DEF Covered
<1>4. ASSUME NEW i \in Ingests, MarkQueued(i), e = ing[i].ev
      PROVE  \E t \in Events : SameKey(e, t) /\ row[t] # NoRow /\ Covered(t)
  <2>1. ing[i].target \in Events
    BY <1>4 DEF MarkQueued, TypeOK
  <2>2. QED
    BY <1>4, <2>1 DEF MarkQueued, IngestInv
<1>5. \/ e \in acked
      \/ \E i \in Ingests : \/ AnswerDuplicate(i, e) /\ e \in Events
                            \/ MarkQueued(i) /\ e = ing[i].ev
  BY DEF Next, IngestStep, RecordNew, RecoverDuplicate, AnswerDuplicate, Enqueue,
     EnqueueInDoubt, RequestFails, MarkQueued, TaskStep, NothingToPost, Build,
     BuildRaises, Post, PostDuplicate, PostRaises, PostInDoubt, MarkStatus,
     MarkStatusRaises, Retry, DeadLetter, DeadLetterRaises, Ack, Replay,
     BrokerStep, RestoreOrphan, Fetch, RestoreWhileRunning, WorkerDies, vars
<1>6. QED
  BY <1>1, <1>2, <1>3, <1>4, <1>5

(* It holds of an empty system ... *)
LEMMA InitIInv == Init => IInv
<1>1. Init => IngestInv /\ NotStranded
  BY DEF Init, IngestInv, NotStranded, Idle
<1>2. Init => LedgerInv /\ NoMoneyInv
  BY DEF Init, LedgerInv, NoMoneyInv, IdleWrk, NoRow
<1>3. QED
  BY <1>1, <1>2, InitTypeOK, InitHolding DEF IInv

(* ... and after every step. *)
LEMMA IInvStep ==
  ASSUME IInv, [Next]_vars
  PROVE  IInv'
  BY TypeStep, HoldingStep, LedgerInvStep, NoMoneyInvStep, IngestInvStep,
     NotStrandedStep
  DEF IInv

(* The inductive invariant. *)
THEOREM InductiveInvariant == Spec => []IInv
<1>1. IInv /\ [Next]_vars => IInv'
  BY IInvStep
<1>2. QED
  BY <1>1, InitIInv, PTL DEF Spec

(* Once Stripe has its 200, the event is settled, or has a message that will
   still be processed, or a worker gave up on it with a log line: for any
   number of events, ingest processes, workers, deaths and redeliveries. *)
THEOREM AckedIsNotStranded == Spec => []NotStranded
  BY InductiveInvariant, PTL DEF IInv
-----------------------------------------------------------------------------
(* Refinement: what a step does to the events at work. *)

(* Nothing moves in the broker or in a worker. *)
LEMMA WorkUnmoved ==
  ASSUME UNCHANGED <<msg, wrk>>
  PROVE  AtWork' = AtWork
  BY DEF AtWork, Live, Holders

(* A publication puts its event to work, and no other. *)
LEMMA WorkPublished ==
  ASSUME TypeOK, NEW e \in Events, NEW r, Publish(e, r), wrk' = wrk
  PROVE  AtWork' = AtWork \cup {e}
<1>1. PICK n \in FreeMsgs :
        msg' = [msg EXCEPT ![n] = [loc |-> "ready", ev |-> e, retries |-> r]]
  BY DEF Publish
<1>2. (\E m \in Msgs : Live(m, e)')
      /\ \A m \in Msgs, t \in Events : Live(m, t) => Live(m, t)'
  BY PublishLive
<1>3. ASSUME NEW m \in Msgs, NEW t \in Events, Live(m, t)', t # e
      PROVE  Live(m, t)
  <2>1. m # n
    BY <1>1, <1>3 DEF Live, FreeMsgs, TypeOK
  <2>2. msg'[m] = msg[m]
    BY <1>1, <2>1 DEF TypeOK
  <2>3. QED
    BY <1>3, <2>2 DEF Live, Holders
<1>4. QED
  BY <1>2, <1>3 DEF AtWork

(* A task that goes on works on. *)
LEMMA WorkGoesOn ==
  ASSUME TypeOK, NEW w \in Workers, NEW pc, NEW s, GoOn(w, pc, s), pc # "ack",
         wrk[w].pc # "ack", msg' = msg
  PROVE  AtWork' = AtWork
<1>1. \A v \in Workers : /\ wrk'[v].m = wrk[v].m
                         /\ wrk'[v].pc = "ack" <=> wrk[v].pc = "ack"
  BY DEF GoOn, TypeOK
<1>2. QED
  BY <1>1 DEF AtWork, Live, Holders

(* A task that ends is done with its event, unless another message has it. *)
LEMMA WorkEnds ==
  ASSUME TypeOK, Holding, NEW w \in Workers, wrk[w].pc # "ack", TaskEnds(w),
         msg' = msg
  PROVE  AtWork' \in {AtWork, AtWork \ {wrk[w].ev}}
<1>1. \A v \in Workers : wrk'[v].m = wrk[v].m
                         /\ (wrk[v].pc = "ack" => wrk'[v].pc = "ack")
  BY DEF TaskEnds, TypeOK
<1>2. AtWork' \subseteq AtWork
  BY <1>1 DEF AtWork, Live, Holders
<1>3. AtWork \ {wrk[w].ev} \subseteq AtWork'
  BY TaskEndsLive DEF AtWork
<1>4. QED
  BY <1>2, <1>3

(* A retry leaves its event at work: the copy is published first. *)
LEMMA WorkRetried ==
  ASSUME TypeOK, Holding, NEW w \in Workers, Retry(w)
  PROVE  AtWork' = AtWork \cup {wrk[w].ev}
<1>1. wrk[w].pc # "ack" /\ TaskEnds(w) /\ wrk[w].ev \in Events
  BY DEF Retry, TypeOK
<1>2. PICK n \in FreeMsgs :
        msg' = [msg EXCEPT ![n] = [loc |-> "ready", ev |-> wrk[w].ev,
                                   retries |-> wrk[w].retries + 1]]
  BY DEF Retry, Publish
<1>3. n \in Msgs /\ msg[n].loc = "free"
  BY DEF FreeMsgs
<1>4. wrk[w].ev \in AtWork'
  BY <1>1, <1>2, <1>3 DEF AtWork, Live, TypeOK
<1>5. ASSUME NEW m \in Msgs, NEW t \in Events, Live(m, t)
      PROVE  Live(m, t)' \/ t = wrk[w].ev
  <2>1. msg'[m] = msg[m]
    BY <1>2, <1>3, <1>5 DEF Live, TypeOK
  <2>2. QED
    BY <1>1, <1>5, <2>1, TaskEndsLive
<1>6. ASSUME NEW m \in Msgs, NEW t \in Events, Live(m, t)', t # wrk[w].ev
      PROVE  Live(m, t)
  <2>1. m # n
    BY <1>2, <1>3, <1>6 DEF Live, TypeOK
  <2>2. msg'[m] = msg[m]
    BY <1>2, <2>1 DEF TypeOK
  <2>3. \A v \in Workers : wrk'[v].m = wrk[v].m
                           /\ (wrk[v].pc = "ack" => wrk'[v].pc = "ack")
    BY <1>1 DEF TaskEnds, TypeOK
  <2>4. QED
    BY <1>6, <2>2, <2>3 DEF Live, Holders
<1>7. QED
  BY <1>1, <1>4, <1>5, <1>6 DEF AtWork

(* The late ack removes a message nobody was going to process. *)
LEMMA WorkAcked ==
  ASSUME TypeOK, Holding, NEW w \in Workers, Ack(w)
  PROVE  AtWork' = AtWork
<1>1. ASSUME NEW m \in Msgs, NEW t \in Events
      PROVE  Live(m, t)' <=> Live(m, t)
  <2>1. CASE wrk[w].m = m
    <3>1. ~ Live(m, t)
      BY <2>1, BoundsAssumption DEF Ack, Live, Holders, Holding
    <3>2. msg'[m].loc = "free"
      BY <2>1, BoundsAssumption DEF Ack, FreeMsg, TypeOK
    <3>3. QED
      BY <3>1, <3>2 DEF Live
  <2>2. CASE wrk[w].m # m
    <3>1. msg'[m] = msg[m]
      BY <2>2 DEF Ack, TypeOK
    <3>2. \A v \in Workers : v # w => wrk'[v] = wrk[v]
      BY DEF Ack, TypeOK
    <3>3. wrk'[w].m # m
      BY BoundsAssumption DEF Ack, IdleWrk, TypeOK
    <3>4. Holders(m)' = Holders(m) /\ w \notin Holders(m)
      BY <2>2, <3>2, <3>3 DEF Holders
    <3>5. QED
      BY <3>1, <3>2, <3>4 DEF Live, Holders
  <2>3. QED
    BY <2>1, <2>2
<1>2. QED
  BY <1>1 DEF AtWork

(* Fetching a message keeps it live. *)
LEMMA WorkFetched ==
  ASSUME TypeOK, Holding, NEW w \in Workers, NEW n \in Msgs, Fetch(w, n)
  PROVE  AtWork' = AtWork
<1>1. ASSUME NEW m \in Msgs, NEW t \in Events
      PROVE  Live(m, t)' <=> Live(m, t)
  <2>1. CASE n = m
    <3>1. msg'[m].ev = msg[m].ev /\ msg'[m].loc = "unacked" /\ msg[m].loc = "ready"
      BY <2>1 DEF Fetch, Moved, TypeOK
    <3>2. \A v \in Workers : wrk'[v].m = m => wrk'[v].pc # "ack"
      BY <2>1, BoundsAssumption DEF Fetch, Holding, TypeOK
    <3>3. QED
      BY <3>1, <3>2 DEF Live, Holders
  <2>2. CASE n # m
    <3>1. msg'[m] = msg[m]
      BY <2>2 DEF Fetch, TypeOK
    <3>2. \A v \in Workers : v # w => wrk'[v] = wrk[v]
      BY DEF Fetch, TypeOK
    <3>3. wrk'[w].m # m /\ wrk[w].m # m
      BY <2>2, BoundsAssumption DEF Fetch, TypeOK
    <3>4. QED
      BY <3>1, <3>2, <3>3 DEF Live, Holders
  <2>3. QED
    BY <2>1, <2>2
<1>2. QED
  BY <1>1 DEF AtWork

(* An orphan was live already. *)
LEMMA WorkRestored ==
  ASSUME TypeOK, NEW n \in Msgs, RestoreOrphan(n)
  PROVE  AtWork' = AtWork
<1>1. ASSUME NEW m \in Msgs, NEW t \in Events
      PROVE  Live(m, t)' <=> Live(m, t)
  <2>1. CASE n = m
    <3>1. msg'[m].ev = msg[m].ev /\ msg'[m].loc = "ready" /\ msg[m].loc = "unacked"
      BY <2>1 DEF RestoreOrphan, Moved, TypeOK
    <3>2. QED
      BY <2>1, <3>1 DEF Live, RestoreOrphan
  <2>2. CASE n # m
    <3>1. msg'[m] = msg[m] /\ wrk' = wrk
      BY <2>2 DEF RestoreOrphan, TypeOK
    <3>2. QED
      BY <3>1 DEF Live, Holders
  <2>3. QED
    BY <2>1, <2>2
<1>2. QED
  BY <1>1 DEF AtWork

(* A message taken from its worker, by the timeout or by the worker's death,
   is live, even if its task had ended and only the ack was missing. *)
LEMMA WorkTaken ==
  ASSUME TypeOK, Holding, NEW w \in Workers, NEW n \in Msgs, wrk[w].m = n,
         \A v \in Workers : v # w => wrk'[v] = wrk[v],
         wrk'[w].m = NoMsg,
         \A m \in Msgs : m # n => msg'[m] = msg[m],
         msg'[n].ev = msg[n].ev, msg'[n].loc \in {"ready", "unacked"}
  PROVE  AtWork' = AtWork \cup {msg[n].ev} /\ msg[n].ev \in Events
<1>1. msg[n].ev \in Events
  BY BoundsAssumption DEF Holding, TypeOK
<1>2. \A v \in Workers : wrk'[v].m # n
  BY BoundsAssumption DEF Holding
<1>3. Live(n, msg[n].ev)'
  BY <1>2 DEF Live, Holders
<1>4. ASSUME NEW m \in Msgs, NEW t \in Events, t # msg[n].ev
      PROVE  Live(m, t)' <=> Live(m, t)
  <2>1. CASE m = n
    BY <2>1, <1>4 DEF Live
  <2>2. CASE m # n
    <3>1. wrk'[w].m # m /\ wrk[w].m # m
      BY <2>2, BoundsAssumption
    <3>2. QED
      BY <2>2, <3>1 DEF Live, Holders
  <2>3. QED
    BY <2>1, <2>2
<1>5. QED
  BY <1>1, <1>3, <1>4 DEF AtWork

-----------------------------------------------------------------------------
(* Refinement: the log and the ledger as the promise reads them. *)

(* An event stands as "none" until it has a row, and by its verdict once it
   has one. *)
LEMMA StandingReads ==
  ASSUME TypeOK, NEW e \in Events
  PROVE  /\ Path!Stored(e) <=> row[e] # NoRow
         /\ row[e] \in TerminalStatuses => Standing[e] = row[e]
  BY DEF TypeOK, Path!Stored, Standing, StatusOf, NoRow, Statuses,
     NON_TERMINAL_STATUSES, TerminalStatuses

(* A row that blocks the event holds its key. *)
LEMMA HeldIsBlocked ==
  ASSUME TypeOK, NEW e \in Events
  PROVE  Path!Held(e) <=> BlockingRows(e) # {}
  BY StandingReads DEF Path!Held, BlockingRows

(* A write to one row changes where that event stands, and nothing else. *)
LEMMA StandingWritten ==
  ASSUME TypeOK, NEW e \in Events, NEW s, row' = [row EXCEPT ![e] = s]
  PROVE  Standing' = [Standing EXCEPT ![e] = StatusOf(s)]
  BY DEF TypeOK, Standing

(* The end of a task that wrote its verdict: the verdict is in the log, or
   another event holds the key. *)
LEMMA VerdictStep ==
  ASSUME TypeOK, Holding, NEW w \in Workers, wrk[w].pc \notin {"idle", "ack"},
         NEW v \in TerminalStatuses,
         v = "processed" => Postable(wrk[w].ev) /\ KeyIn(posted, wrk[w].ev),
         v = "no_money_moved" => ~ Postable(wrk[w].ev),
         _mark_status(wrk[w].ev, v), TaskEnds(w),
         UNCHANGED <<posted, msg, acked, logged>>
  PROVE  Path!PathNext
<1>1. PICK e \in Events : e = wrk[w].ev
  BY DEF TypeOK
<1>2. Path!Release(e)
  BY <1>1, WorkEnds DEF Path!Release
<1>3. CASE row[e] = NoRow /\ BlockingRows(e) # {}
  <2>1. row' = row
    BY <1>1, <1>3 DEF _mark_status
  <2>2. Standing' = Standing
    BY <2>1 DEF Standing
  <2>3. Path!Yield(e)
    BY <1>2, <1>3, <2>2, StandingReads, HeldIsBlocked DEF Path!Yield
  <2>4. QED
    BY <2>3 DEF Path!PathNext
<1>4. CASE ~ (row[e] = NoRow /\ BlockingRows(e) # {})
  <2>1. row' = [row EXCEPT ![e] = v]
    BY <1>1, <1>4 DEF _mark_status
  <2>2. StatusOf(v) = v
    BY DEF StatusOf, TerminalStatuses, NON_TERMINAL_STATUSES, NoRow
  <2>3. Standing' = [Standing EXCEPT ![e] = v]
    BY <2>1, <2>2, StandingWritten
  <2>4. Path!Stored(e) \/ ~ Path!Held(e)
    BY <1>4, StandingReads, HeldIsBlocked
  <2>5. Path!Settle(e, v)
    BY <1>1, <1>2, <2>3, <2>4 DEF Path!Settle, Path!Booked, KeyIn, SameTxn
  <2>6. QED
    BY <2>5 DEF Path!PathNext, Path!Verdicts, TerminalStatuses
<1>5. QED
  BY <1>3, <1>4

(* A 200 for an event whose row is settled, at work or lost. *)
LEMMA TellStep ==
  ASSUME TypeOK, NEW e \in Events, NEW t \in Events, SameKey(e, t),
         row[t] # NoRow, Covered(t), acked' = acked \cup {e},
         Standing' = Standing, UNCHANGED <<posted, msg, wrk, logged>>
  PROVE  Path!PathNext
<1>1. Standing[t] \in Path!Verdicts \/ t \in AtWork \/ t \in logged
  BY StandingReads DEF Covered, AtWork, Path!Verdicts, TerminalStatuses
<1>2. Path!Tell(e)
  BY <1>1, StandingReads, WorkUnmoved DEF Path!Tell
<1>3. QED
  BY <1>2 DEF Path!PathNext

(* A publication assigns its event. *)
LEMMA AssignStep ==
  ASSUME NEW e \in Events, AtWork' = AtWork \cup {e},
         UNCHANGED <<row, posted, acked, logged>>
  PROVE  Path!PathNext
<1>1. Path!Assign(e)
  BY DEF Path!Assign, Standing
<1>2. QED
  BY <1>1 DEF Path!PathNext

(* A step within a task or the broker the promise does not see. *)
LEMMA UnseenStep ==
  ASSUME AtWork' = AtWork, UNCHANGED <<row, posted, acked, logged>>
  PROVE  UNCHANGED Path!pathVars
  BY DEF Path!pathVars, Standing

(* A posting: its key is not in the ledger. *)
LEMMA LedgerStep ==
  ASSUME TypeOK, LedgerInv, NEW w \in Workers, Post(w) \/ PostInDoubt(w)
  PROVE  Path!PathNext
<1>1. PICK e \in Events : e = wrk[w].ev
  BY DEF Post, PostInDoubt, TypeOK
<1>2. /\ Postable(e) /\ ~ KeyIn(posted, e) /\ posted' = posted \cup {e}
      /\ UNCHANGED <<row, acked, logged>>
  BY <1>1 DEF Post, PostInDoubt, LedgerInv
<1>3. AtWork' = AtWork
  <2>1. CASE Post(w)
    BY <2>1, WorkGoesOn DEF Post, GoMark
  <2>2. CASE PostInDoubt(w)
    BY <2>2, WorkGoesOn DEF PostInDoubt, GoTo
  <2>3. QED
    BY <2>1, <2>2
<1>4. Path!Post(e)
  BY <1>2, <1>3 DEF Path!Post, Path!Booked, KeyIn, SameTxn, Standing
<1>5. QED
  BY <1>4 DEF Path!PathNext

(* The webhook: a row, a publication, a 200, or nothing to see. *)
LEMMA IngestRefines ==
  ASSUME TypeOK, IngestInv, NEW i \in Ingests, IngestStep(i)
  PROVE  Path!PathNext \/ UNCHANGED Path!pathVars
<1>1. ASSUME NEW e \in Events, RecordNew(i, e) PROVE Path!PathNext
  <2>1. row' = [row EXCEPT ![e] = "received"]
    BY <1>1 DEF RecordNew
  <2>2. Standing' = [Standing EXCEPT ![e] = "open"]
    <3>1. StatusOf("received") = "open"
      BY DEF StatusOf, NON_TERMINAL_STATUSES, NoRow
    <3>2. QED
      BY <2>1, <3>1, StandingWritten
  <2>3. Path!Record(e)
    BY <1>1, <2>2, HeldIsBlocked, WorkUnmoved DEF RecordNew, Path!Record
  <2>4. QED
    BY <2>3 DEF Path!PathNext
<1>2. ASSUME NEW e \in Events, RecoverDuplicate(i, e)
      PROVE  UNCHANGED Path!pathVars
  BY <1>2, WorkUnmoved, UnseenStep DEF RecoverDuplicate
<1>3. ASSUME NEW e \in Events, AnswerDuplicate(i, e) PROVE Path!PathNext
  <2>1. PICK t \in BlockingRows(e) : t = BlockingRow(e)
    BY <1>3, BlockingRowBlocks DEF AnswerDuplicate
  <2>2. t \in Events /\ row[t] # NoRow /\ SameKey(e, t)
    BY <2>1 DEF BlockingRows
  <2>3. Covered(t)
    BY <1>3, <2>1, <2>2 DEF AnswerDuplicate, TypeOK, Statuses, Covered
  <2>4. QED
    BY <1>3, <2>2, <2>3, TellStep DEF AnswerDuplicate, Standing
<1>4. CASE Enqueue(i) \/ EnqueueInDoubt(i)
  <2>1. PICK t \in Events : t = ing[i].target
    BY <1>4 DEF Enqueue, EnqueueInDoubt, TypeOK
  <2>2. Publish(t, 0) /\ wrk' = wrk
    BY <1>4, <2>1 DEF Enqueue, EnqueueInDoubt
  <2>3. QED
    BY <1>4, <2>2, WorkPublished, AssignStep DEF Enqueue, EnqueueInDoubt
<1>5. CASE RequestFails(i)
  BY <1>5, WorkUnmoved, UnseenStep DEF RequestFails
<1>6. CASE MarkQueued(i)
  <2>1. PICK t \in Events : t = ing[i].target
    BY <1>6 DEF MarkQueued, TypeOK
  <2>2. PICK e \in Events : e = ing[i].ev
    BY <1>6 DEF MarkQueued, TypeOK
  <2>3. SameKey(e, t) /\ row[t] # NoRow /\ Covered(t)
    BY <1>6, <2>1, <2>2 DEF MarkQueued, IngestInv
  <2>4. Standing' = Standing
    <3>1. \A x \in Events : row'[x] = row[x]
                            \/ (row[x] = "received" /\ row'[x] = "queued")
      BY <1>6 DEF MarkQueued, mark_queued, TypeOK
    <3>2. \A x \in Events : StatusOf(row'[x]) = StatusOf(row[x])
      BY <3>1 DEF StatusOf, NON_TERMINAL_STATUSES, NoRow
    <3>3. QED
      BY <3>2 DEF Standing
  <2>5. QED
    BY <1>6, <2>2, <2>3, <2>4, TellStep DEF MarkQueued
<1>7. QED
  BY <1>1, <1>2, <1>3, <1>4, <1>5, <1>6 DEF IngestStep

(* The worker: a posting, a verdict, a retry, a log line, or nothing to see. *)
LEMMA TaskRefines ==
  ASSUME TypeOK, Holding, LedgerInv, NoMoneyInv, NEW w \in Workers, TaskStep(w)
  PROVE  Path!PathNext \/ UNCHANGED Path!pathVars
<1>1. CASE Post(w) \/ PostInDoubt(w)
  BY <1>1, LedgerStep
<1>2. CASE \/ NothingToPost(w) \/ Build(w) \/ BuildRaises(w) \/ PostDuplicate(w)
           \/ PostRaises(w) \/ MarkStatusRaises(w)
  <2>1. /\ wrk[w].pc # "ack" /\ msg' = msg
        /\ UNCHANGED <<row, posted, acked, logged>>
        /\ \E pc \in {"post", "mark", "except"} :
             \E s \in {"processed", "no_money_moved", NoRow} : GoOn(w, pc, s)
    BY <1>2 DEF NothingToPost, Build, BuildRaises, PostDuplicate, PostRaises,
       MarkStatusRaises, GoTo, GoMark
  <2>2. QED
    BY <2>1, WorkGoesOn, UnseenStep
<1>3. CASE MarkStatus(w)
  <2>1. wrk[w].status \in TerminalStatuses
    BY <1>3 DEF MarkStatus, TypeOK, TerminalStatuses
  <2>2. /\ wrk[w].status = "processed" =>
             Postable(wrk[w].ev) /\ KeyIn(posted, wrk[w].ev)
        /\ wrk[w].status = "no_money_moved" => ~ Postable(wrk[w].ev)
    BY <1>3 DEF MarkStatus, LedgerInv, NoMoneyInv
  <2>3. QED
    BY <1>3, <2>1, <2>2, VerdictStep DEF MarkStatus
<1>4. CASE DeadLetter(w)
  BY <1>4, VerdictStep DEF DeadLetter, TerminalStatuses
<1>5. CASE Retry(w)
  <2>1. wrk[w].ev \in Events
    BY <1>5 DEF Retry, TypeOK
  <2>2. QED
    BY <1>5, <2>1, WorkRetried, AssignStep DEF Retry
<1>6. CASE DeadLetterRaises(w)
  <2>1. PICK e \in Events : e = wrk[w].ev
    BY <1>6 DEF DeadLetterRaises, TypeOK
  <2>2. Path!Release(e)
    BY <1>6, <2>1, WorkEnds DEF DeadLetterRaises, Path!Release
  <2>3. Path!GiveUp(e)
    BY <1>6, <2>1, <2>2 DEF DeadLetterRaises, Path!GiveUp, Standing
  <2>4. QED
    BY <2>3 DEF Path!PathNext
<1>7. CASE Ack(w)
  BY <1>7, WorkAcked, UnseenStep DEF Ack
<1>8. QED
  BY <1>1, <1>2, <1>3, <1>4, <1>5, <1>6, <1>7 DEF TaskStep

(* The broker: what a timeout or a death gives back is at work again. *)
LEMMA BrokerRefines ==
  ASSUME TypeOK, Holding, BrokerStep
  PROVE  Path!PathNext \/ UNCHANGED Path!pathVars
<1>1. ASSUME NEW m \in Msgs, RestoreOrphan(m) PROVE UNCHANGED Path!pathVars
  BY <1>1, WorkRestored, UnseenStep DEF RestoreOrphan
<1>2. ASSUME NEW m \in Msgs, NEW w \in Workers, Fetch(w, m)
      PROVE  UNCHANGED Path!pathVars
  BY <1>2, WorkFetched, UnseenStep DEF Fetch
<1>3. ASSUME NEW w \in Workers, RestoreWhileRunning(w) PROVE Path!PathNext
  <2>1. PICK n \in Msgs : n = wrk[w].m
    BY <1>3 DEF RestoreWhileRunning, TypeOK
  <2>2. /\ \A m \in Msgs : m # n => msg'[m] = msg[m]
        /\ msg'[n].ev = msg[n].ev /\ msg'[n].loc = "ready"
    BY <1>3, <2>1 DEF RestoreWhileRunning, Moved, TypeOK
  <2>3. /\ \A v \in Workers : v # w => wrk'[v] = wrk[v]
        /\ wrk'[w].m = NoMsg
    BY <1>3 DEF RestoreWhileRunning, TypeOK
  <2>4. AtWork' = AtWork \cup {msg[n].ev} /\ msg[n].ev \in Events
    BY <2>1, <2>2, <2>3, WorkTaken
  <2>5. QED
    BY <1>3, <2>4, AssignStep DEF RestoreWhileRunning
<1>4. ASSUME NEW w \in Workers, WorkerDies(w)
      PROVE  Path!PathNext \/ UNCHANGED Path!pathVars
  <2>1. /\ \A v \in Workers : v # w => wrk'[v] = wrk[v]
        /\ wrk'[w].m = NoMsg
        /\ msg' = msg
    BY <1>4 DEF WorkerDies, IdleWrk, TypeOK
  <2>2. CASE wrk[w].m = NoMsg
    <3>1. \A m \in Msgs, v \in Workers :
            wrk'[v].m = m => wrk'[v] = wrk[v] /\ v # w
      BY <2>1, BoundsAssumption
    <3>2. \A m \in Msgs, v \in Workers : wrk[v].m = m => v # w
      BY <2>2, BoundsAssumption
    <3>3. AtWork' = AtWork
      BY <2>1, <3>1, <3>2 DEF AtWork, Live, Holders
    <3>4. QED
      BY <1>4, <3>3, UnseenStep DEF WorkerDies
  <2>3. CASE wrk[w].m # NoMsg
    <3>1. PICK n \in Msgs : n = wrk[w].m
      BY <2>3 DEF TypeOK
    <3>2. msg[n].loc = "unacked"
      BY <2>3, <3>1 DEF Holding
    <3>3. AtWork' = AtWork \cup {msg[n].ev} /\ msg[n].ev \in Events
      BY <2>1, <3>1, <3>2, WorkTaken
    <3>4. QED
      BY <1>4, <3>3, AssignStep DEF WorkerDies
  <2>4. QED
    BY <2>2, <2>3
<1>5. QED
  BY <1>1, <1>2, <1>3, <1>4 DEF BrokerStep

(* Every step is one the promise allows, or one it does not see. *)
LEMMA PathRefinement ==
  ASSUME IInv, [Next]_vars
  PROVE  [Path!PathNext]_(Path!pathVars)
<1>1. TypeOK /\ Holding /\ LedgerInv /\ NoMoneyInv /\ IngestInv
  BY DEF IInv
<1>2. ASSUME NEW e \in Events, Replay(e) PROVE Path!PathNext
  BY <1>1, <1>2, WorkPublished, AssignStep DEF Replay
<1>3. CASE UNCHANGED vars
  BY <1>3, WorkUnmoved, UnseenStep DEF vars
<1>4. QED
  BY <1>1, <1>2, <1>3, IngestRefines, TaskRefines, BrokerRefines DEF Next

(* The webhook, the broker and the workers together keep the promise of the
   money path: one row and one posting per key, verdicts the ledger bears
   out, a 200 only for what is settled or taken care of, and no task that
   ends without a verdict, a log line or a twin that holds its key. *)
THEOREM PipelineKeepsPromise == Spec => ImplementsMoneyPath
<1>1. Init => Path!PathInit
  <2>1. Init => Standing = [e \in Events |-> "none"]
    BY DEF Init, Standing, StatusOf, NON_TERMINAL_STATUSES, NoRow
  <2>2. Init => AtWork = {}
    BY DEF Init, AtWork, Live, FreeMsg
  <2>3. QED
    BY <2>1, <2>2 DEF Init, Path!PathInit
<1>2. IInv /\ [Next]_vars => [Path!PathNext]_(Path!pathVars)
  BY PathRefinement
<1>3. QED
  BY <1>1, <1>2, InductiveInvariant, PTL
  DEF Spec, ImplementsMoneyPath, Path!PathSpec
=============================================================================
