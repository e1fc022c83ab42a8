------------------------------ MODULE Pipeline ------------------------------
(***************************************************************************)
(* The money path: ingest/app.py + ingest/dedupe.py (the webhook handler   *)
(* and its stripe_events row), the Celery/Redis broker as the code         *)
(* configures it (acks_late, visibility_timeout), and worker/tasks.py +    *)
(* worker/handlers.py (process_event, handle_event, _mark_status).         *)
(*                                                                         *)
(* Stripe delivers an event any number of times, in any order.  One ingest *)
(* process serves one request at a time (the handler never awaits after    *)
(* the body is read); several processes run side by side.  Every SQL       *)
(* statement the code autocommits is one step; post_transaction is one     *)
(* step because LedgerPost implements LedgerStore.                         *)
(***************************************************************************)
EXTENDS Mapping

CONSTANTS Events,     \* event ids
          Payload,    \* event id -> the event as mapping.py sees it
          Settled,    \* event id -> balance transaction Stripe holds in the end
          Movement,   \* event id -> the real movement of money it reports
          Ingests,    \* ingest processes
          Workers,    \* worker processes
          Msgs,       \* broker message slots (bound on messages in the broker)
          QueueBound, \* messages ingest and operators may keep in the broker
          MaxRetries, \* process_event's max_retries
          MaxFaults   \* worker deaths and overlong tasks in one behaviour

NoMsg == "no_message"
NoRow == "no_row"

NON_TERMINAL_STATUSES == {"received", "queued"}
TerminalStatuses      == {"processed", "no_money_moved", "failed"}
Statuses              == NON_TERMINAL_STATUSES \cup TerminalStatuses

ASSUME PayloadAssumption ==
  \A e \in Events : Payload[e].id = e

ASSUME BoundsAssumption ==
  /\ QueueBound \in Nat
  /\ MaxRetries \in Nat
  /\ MaxFaults \in Nat
  /\ NoMsg \notin Msgs
  /\ NULL \notin Events

VARIABLES
  row,     \* stripe_events.status by event id, NoRow when there is no row
  posted,  \* events with a row in the transactions table
  msg,     \* broker: slot -> [loc, ev, retries]
  ing,     \* ingest process -> [pc, ev (delivered), target (row in hand)]
  wrk,     \* worker -> [pc, ev, retries, m (unacked message it holds), status]
  acked,   \* events Stripe got a 200 for (Stripe never sends those again
           \* of its own accord, but may)
  logged,  \* events whose final 'failed' mark raised: all that is left is a
           \* log line
  faults   \* faults spent

vars == <<row, posted, msg, ing, wrk, acked, logged, faults>>

-----------------------------------------------------------------------------
(* The event log's keys and what the mapping makes of an event. *)

(* stripe_events: PRIMARY KEY (id), UNIQUE (event_type, object_id). *)
SameKey(e, f) ==
  \/ e = f
  \/ /\ Payload[e].type = Payload[f].type
     /\ SameNonNull(money_movement_object_id(Payload[e]),
                    money_movement_object_id(Payload[f]))

Handled(e) == Payload[e].type \in HANDLED_EVENT_TYPES

(* build_transaction depends on the payload alone, so what it makes of each
   event is a function of the event; TLC works it out once. *)
FirstBuilds == [e \in Events |-> build_transaction(Payload[e], NULL)]

FirstBuild(e) == FirstBuilds[e]

FetchedFee(e) == _resolve_fee(Payload[e], Settled[e])

(* The transaction handle_event posts for e in the end. *)
Built == [e \in Events |-> IF FirstBuild(e) = MissingFeeData
                           THEN build_transaction(Payload[e], FetchedFee(e))
                           ELSE FirstBuild(e)]

TxnOf(e) == Built[e]

Postable(e) == Handled(e) /\ FirstBuild(e) \notin {NoTransaction, Raises}

(* The transaction is in the ledger: e's own, or the one a twin posted. *)
KeyIn(ledger, e) == \E p \in ledger : Conflict(TxnOf(p), TxnOf(e))

-----------------------------------------------------------------------------
(* Initial state: nothing delivered yet. *)

Idle     == [pc |-> "idle", ev |-> NULL, target |-> NULL]
IdleWrk  == [pc |-> "idle", ev |-> NULL, retries |-> 0, m |-> NoMsg,
             status |-> NoRow]
FreeMsg  == [loc |-> "free", ev |-> NULL, retries |-> 0]

Init ==
  /\ row    = [e \in Events |-> NoRow]
  /\ posted = {}
  /\ msg    = [m \in Msgs |-> FreeMsg]
  /\ ing    = [i \in Ingests |-> Idle]
  /\ wrk    = [w \in Workers |-> IdleWrk]
  /\ acked  = {}
  /\ logged = {}
  /\ faults = 0

-----------------------------------------------------------------------------
(* Ingest: POST /webhook.  A request refused before check_and_record (shed,
   rate limited, too large, badly signed, not an event) changes nothing. *)

(* The single INSERT of check_and_record and, when it collides, the SELECT of
   the blocking row (its own id first). *)
BlockingRows(e) == {t \in Events : row[t] # NoRow /\ SameKey(e, t)}

BlockingRow(e) ==
  IF row[e] # NoRow THEN e ELSE CHOOSE t \in BlockingRows(e) : TRUE

(* New event: the row is durable as 'received' before the enqueue. *)
RecordNew(i, e) ==
  /\ ing[i].pc = "idle"
  /\ BlockingRows(e) = {}
  /\ row' = [row EXCEPT ![e] = "received"]
  /\ ing' = [ing EXCEPT ![i] = [pc |-> "enqueue", ev |-> e, target |-> e]]
  /\ UNCHANGED <<posted, msg, wrk, acked, logged, faults>>

(* Mutant: the delivered event is enqueued, not the stored one. *)
RecoverDuplicate_Delivered(i, e) ==
  /\ ing[i].pc = "idle"
  /\ BlockingRows(e) # {}
  /\ row[BlockingRow(e)] \in NON_TERMINAL_STATUSES
  /\ ing' = [ing EXCEPT ![i] = [pc |-> "enqueue", ev |-> e, target |-> e]]
  /\ UNCHANGED <<row, posted, msg, wrk, acked, logged, faults>>

(* Redelivery of a row that is not proven processed: outbox recovery, which
   re-enqueues the STORED payload. *)
RecoverDuplicate(i, e) ==
  /\ ing[i].pc = "idle"
  /\ BlockingRows(e) # {}
  /\ row[BlockingRow(e)] \in NON_TERMINAL_STATUSES
  /\ ing' = [ing EXCEPT ![i] = [pc |-> "enqueue", ev |-> e,
                                target |-> BlockingRow(e)]]
  /\ UNCHANGED <<row, posted, msg, wrk, acked, logged, faults>>

(* Redelivery of a settled row: 200 "duplicate". *)
AnswerDuplicate(i, e) ==
  /\ ing[i].pc = "idle"
  /\ BlockingRows(e) # {}
  /\ row[BlockingRow(e)] \notin NON_TERMINAL_STATUSES
  /\ acked' = acked \cup {e}
  /\ UNCHANGED <<row, posted, msg, ing, wrk, logged, faults>>

FreeMsgs == {m \in Msgs : msg[m].loc = "free"}

QueueHasRoom == Cardinality(Msgs \ FreeMsgs) < QueueBound

(* celery_app.send_task: the message is in Redis. *)
Publish(e, r) ==
  \E m \in FreeMsgs :
    msg' = [msg EXCEPT ![m] = [loc |-> "ready", ev |-> e, retries |-> r]]

Enqueue(i) ==
  /\ ing[i].pc = "enqueue"
  /\ QueueHasRoom
  /\ Publish(ing[i].target, 0)
  /\ ing' = [ing EXCEPT ![i].pc = "mark"]
  /\ UNCHANGED <<row, posted, wrk, acked, logged, faults>>

(* The enqueue raises although Redis took the message: 500. *)
EnqueueInDoubt(i) ==
  /\ ing[i].pc = "enqueue"
  /\ QueueHasRoom
  /\ Publish(ing[i].target, 0)
  /\ ing' = [ing EXCEPT ![i] = Idle]
  /\ UNCHANGED <<row, posted, wrk, acked, logged, faults>>

(* The enqueue or mark_queued raises, or the process dies: no 200, and what
   was committed stays. *)
RequestFails(i) ==
  /\ ing[i].pc # "idle"
  /\ ing' = [ing EXCEPT ![i] = Idle]
  /\ UNCHANGED <<row, posted, msg, wrk, acked, logged, faults>>

(* Mutant: no status guard. *)
mark_queued_Unguarded(t) == row' = [row EXCEPT ![t] = "queued"]

(* UPDATE ... SET status = 'queued' WHERE id = t AND status = 'received'. *)
mark_queued(t) ==
  row' = [row EXCEPT ![t] = IF @ = "received" THEN "queued" ELSE @]

(* mark_queued, then 200. *)
MarkQueued(i) ==
  /\ ing[i].pc = "mark"
  /\ mark_queued(ing[i].target)
  /\ acked' = acked \cup {ing[i].ev}
  /\ ing' = [ing EXCEPT ![i] = Idle]
  /\ UNCHANGED <<posted, msg, wrk, logged, faults>>

(* An operator or the harness hands an event to the worker directly: the
   manual replay of a 'failed' event, or an event with no row. *)
Replay(e) ==
  /\ QueueHasRoom
  /\ Publish(e, 0)
  /\ UNCHANGED <<row, posted, ing, wrk, acked, logged, faults>>

-----------------------------------------------------------------------------
(* The broker (external): Redis with acks_late. *)

Moved(m, loc) == [loc |-> loc, ev |-> msg[m].ev, retries |-> msg[m].retries]

(* Mutant: acked on receipt, the Celery default without task_acks_late. *)
Fetch_AckEarly(w, m) ==
  /\ wrk[w].pc = "idle"
  /\ msg[m].loc = "ready"
  /\ msg' = [msg EXCEPT ![m] = FreeMsg]
  /\ wrk' = [wrk EXCEPT ![w] = [pc |-> "run", ev |-> msg[m].ev,
                                retries |-> msg[m].retries, m |-> NoMsg,
                                status |-> NoRow]]
  /\ UNCHANGED <<row, posted, ing, acked, logged, faults>>

(* A worker takes a ready message; it stays unacked until the task ends. *)
Fetch(w, m) ==
  /\ wrk[w].pc = "idle"
  /\ msg[m].loc = "ready"
  /\ msg' = [msg EXCEPT ![m] = Moved(m, "unacked")]
  /\ wrk' = [wrk EXCEPT ![w] = [pc |-> "run", ev |-> msg[m].ev,
                                retries |-> msg[m].retries, m |-> m,
                                status |-> NoRow]]
  /\ UNCHANGED <<row, posted, ing, acked, logged, faults>>

Holders(m) == {w \in Workers : wrk[w].m = m}

(* visibility_timeout passed and the worker that held the message is dead. *)
RestoreOrphan(m) ==
  /\ msg[m].loc = "unacked"
  /\ Holders(m) = {}
  /\ msg' = [msg EXCEPT ![m] = Moved(m, "ready")]
  /\ UNCHANGED <<row, posted, ing, wrk, acked, logged, faults>>

(* visibility_timeout passed while the task is still running: the message is
   redelivered and the late ack of the first delivery will do nothing. *)
RestoreWhileRunning(w) ==
  /\ wrk[w].m # NoMsg
  /\ faults < MaxFaults
  /\ faults' = faults + 1
  /\ msg' = [msg EXCEPT ![wrk[w].m] = Moved(wrk[w].m, "ready")]
  /\ wrk' = [wrk EXCEPT ![w] = [pc |-> wrk[w].pc, ev |-> wrk[w].ev,
                                retries |-> wrk[w].retries, m |-> NoMsg,
                                status |-> wrk[w].status]]
  /\ UNCHANGED <<row, posted, ing, acked, logged>>

(* The worker process dies; its message stays unacked in Redis. *)
WorkerDies(w) ==
  /\ wrk[w].pc # "idle"
  /\ faults < MaxFaults
  /\ faults' = faults + 1
  /\ wrk' = [wrk EXCEPT ![w] = IdleWrk]
  /\ UNCHANGED <<row, posted, msg, ing, acked, logged>>

-----------------------------------------------------------------------------
(* The worker: process_event around handle_event. *)

(* The worker moves on with its task; s is the status it is about to write. *)
GoOn(w, pc, s) ==
  wrk' = [wrk EXCEPT ![w] = [pc |-> pc, ev |-> wrk[w].ev,
                             retries |-> wrk[w].retries, m |-> wrk[w].m,
                             status |-> s]]

GoTo(w, pc) == GoOn(w, pc, NoRow)

GoMark(w, s) == GoOn(w, "mark", s)

(* The task function has returned or raised; only the late ack is left. *)
TaskEnds(w) ==
  wrk' = [wrk EXCEPT ![w] = [pc |-> "ack", ev |-> NULL, retries |-> 0,
                             m |-> wrk[w].m, status |-> NoRow]]

(* An unhandled type, or an event that moves no money. *)
NothingToPost(w) ==
  LET e == wrk[w].ev IN
  /\ wrk[w].pc = "run"
  /\ ~ Handled(e) \/ FirstBuild(e) = NoTransaction
  /\ GoMark(w, "no_money_moved")
  /\ UNCHANGED <<row, posted, msg, ing, acked, logged, faults>>

(* build_transaction returned a transaction, at once or after the fee was
   fetched from Stripe. *)
Build(w) ==
  LET e == wrk[w].ev IN
  /\ wrk[w].pc = "run"
  /\ Postable(e)
  /\ TxnOf(e) # MissingFeeData
  /\ GoTo(w, "post")
  /\ UNCHANGED <<row, posted, msg, ing, acked, logged, faults>>

(* The payload is malformed, or the fee fetch fails or finds no fee yet. *)
BuildRaises(w) ==
  LET e == wrk[w].ev IN
  /\ wrk[w].pc = "run"
  /\ Handled(e)
  /\ FirstBuild(e) \in {Raises, MissingFeeData}
  /\ GoTo(w, "except")
  /\ UNCHANGED <<row, posted, msg, ing, acked, logged, faults>>

(* post_transaction commits and returns POSTED. *)
Post(w) ==
  /\ wrk[w].pc = "post"
  /\ ~ KeyIn(posted, wrk[w].ev)
  /\ Acceptable(TxnOf(wrk[w].ev))
  /\ posted' = posted \cup {wrk[w].ev}
  /\ GoMark(w, "processed")
  /\ UNCHANGED <<row, msg, ing, acked, logged, faults>>

(* A unique violation: DUPLICATE from post_transaction, or transactions_pkey
   which handle_event takes for the same thing. *)
PostDuplicate(w) ==
  /\ wrk[w].pc = "post"
  /\ KeyIn(posted, wrk[w].ev)
  /\ GoMark(w, "processed")
  /\ UNCHANGED <<row, posted, msg, ing, acked, logged, faults>>

(* The database is down, rejects the transaction or keeps aborting it. *)
PostRaises(w) ==
  /\ wrk[w].pc = "post"
  /\ GoTo(w, "except")
  /\ UNCHANGED <<row, posted, msg, ing, acked, logged, faults>>

(* The commit succeeded but the connection broke before the answer. *)
PostInDoubt(w) ==
  /\ wrk[w].pc = "post"
  /\ ~ KeyIn(posted, wrk[w].ev)
  /\ Acceptable(TxnOf(wrk[w].ev))
  /\ posted' = posted \cup {wrk[w].ev}
  /\ GoTo(w, "except")
  /\ UNCHANGED <<row, msg, ing, acked, logged, faults>>

(* Mutant: the UPDATE alone, without the INSERT for an event with no row. *)
_mark_status_UpdateOnly(e, s) ==
  row' = [row EXCEPT ![e] = IF @ = NoRow THEN @ ELSE s]

(* _mark_status: UPDATE by id; no such row: INSERT, unless another event
   holds the (event_type, object_id) key, which leaves the log alone. *)
_mark_status(e, s) ==
  row' = IF row[e] = NoRow /\ BlockingRows(e) # {}
         THEN row ELSE [row EXCEPT ![e] = s]

MarkStatus(w) ==
  /\ wrk[w].pc = "mark"
  /\ _mark_status(wrk[w].ev, wrk[w].status)
  /\ TaskEnds(w)
  /\ UNCHANGED <<posted, msg, ing, acked, logged, faults>>

MarkStatusRaises(w) ==
  /\ wrk[w].pc = "mark"
  /\ GoTo(w, "except")
  /\ UNCHANGED <<row, posted, msg, ing, acked, logged, faults>>

(* Mutant: one retry too many. *)
Retry_OffByOne(w) ==
  /\ wrk[w].pc = "except"
  /\ wrk[w].retries <= MaxRetries
  /\ Publish(wrk[w].ev, wrk[w].retries + 1)
  /\ TaskEnds(w)
  /\ UNCHANGED <<row, posted, ing, acked, logged, faults>>

(* Mutant: a fresh task in place of a retry, its count starting over. *)
Retry_Afresh(w) ==
  /\ wrk[w].pc = "except"
  /\ Publish(wrk[w].ev, 0)
  /\ TaskEnds(w)
  /\ UNCHANGED <<row, posted, ing, acked, logged, faults>>

(* self.retry publishes a copy with one more retry; the Retry exception then
   makes Celery ack the message in hand. *)
Retry(w) ==
  /\ wrk[w].pc = "except"
  /\ wrk[w].retries < MaxRetries
  /\ Publish(wrk[w].ev, wrk[w].retries + 1)
  /\ TaskEnds(w)
  /\ UNCHANGED <<row, posted, ing, acked, logged, faults>>

(* Retries exhausted: the row is marked 'failed' and the error re-raised;
   Celery acks a task that raised. *)
DeadLetter(w) ==
  /\ wrk[w].pc = "except"
  /\ wrk[w].retries >= MaxRetries
  /\ _mark_status(wrk[w].ev, "failed")
  /\ TaskEnds(w)
  /\ UNCHANGED <<posted, msg, ing, acked, logged, faults>>

(* ... or marking it raises too: logger.exception, then the same re-raise. *)
DeadLetterRaises(w) ==
  /\ wrk[w].pc = "except"
  /\ wrk[w].retries >= MaxRetries
  /\ logged' = logged \cup {wrk[w].ev}
  /\ TaskEnds(w)
  /\ UNCHANGED <<row, posted, msg, ing, acked, faults>>

(* The late ack; of a message restored meanwhile it does nothing. *)
Ack(w) ==
  /\ wrk[w].pc = "ack"
  /\ msg' = IF wrk[w].m = NoMsg THEN msg
            ELSE [msg EXCEPT ![wrk[w].m] = FreeMsg]
  /\ wrk' = [wrk EXCEPT ![w] = IdleWrk]
  /\ UNCHANGED <<row, posted, ing, acked, logged, faults>>

-----------------------------------------------------------------------------
(* The specification. *)

IngestStep(i) ==
  \/ \E e \in Events : \/ RecordNew(i, e)
                       \/ RecoverDuplicate(i, e)
                       \/ AnswerDuplicate(i, e)
  \/ Enqueue(i)
  \/ EnqueueInDoubt(i)
  \/ RequestFails(i)
  \/ MarkQueued(i)

(* The steps of a live worker on the task in hand. *)
TaskStep(w) ==
  \/ NothingToPost(w)
  \/ Build(w)
  \/ BuildRaises(w)
  \/ Post(w)
  \/ PostDuplicate(w)
  \/ PostRaises(w)
  \/ PostInDoubt(w)
  \/ MarkStatus(w)
  \/ MarkStatusRaises(w)
  \/ Retry(w)
  \/ DeadLetter(w)
  \/ DeadLetterRaises(w)
  \/ Ack(w)

BrokerStep ==
  \/ \E m \in Msgs : RestoreOrphan(m) \/ \E w \in Workers : Fetch(w, m)
  \/ \E w \in Workers : RestoreWhileRunning(w) \/ WorkerDies(w)

Next ==
  \/ \E i \in Ingests : IngestStep(i)
  \/ \E w \in Workers : TaskStep(w)
  \/ \E e \in Events : Replay(e)
  \/ BrokerStep

Spec == Init /\ [][Next]_vars

(* A live worker runs its task to the end, Redis restores what a dead worker
   held, and its list is first in first out, so a ready message is not passed
   over for ever.  Nothing is promised of Stripe, of ingest or of operators. *)
Fairness ==
  /\ \A w \in Workers : WF_vars(TaskStep(w))
  /\ \A m \in Msgs : /\ WF_vars(RestoreOrphan(m))
                     /\ SF_vars(\E w \in Workers : Fetch(w, m))

FairSpec == Spec /\ Fairness

-----------------------------------------------------------------------------
(* Properties. *)

Message == [loc : {"free", "ready", "unacked"}, ev : Events \cup {NULL},
            retries : 0 .. MaxRetries]

(* Type correctness of the event log, the broker, and both kinds of process;
   a process that is busy has an event, and a message in use carries one. *)
TypeOK ==
  /\ row \in [Events -> Statuses \cup {NoRow}]
  /\ posted \subseteq Events
  /\ msg \in [Msgs -> Message]
  /\ \A m \in Msgs : msg[m].loc # "free" => msg[m].ev \in Events
  /\ ing \in [Ingests -> [pc : {"idle", "enqueue", "mark"},
                          ev : Events \cup {NULL}, target : Events \cup {NULL}]]
  /\ \A i \in Ingests :
       ing[i].pc # "idle" => ing[i].ev \in Events /\ ing[i].target \in Events
  /\ wrk \in [Workers -> [pc : {"idle", "run", "post", "mark", "except", "ack"},
                          ev : Events \cup {NULL}, retries : 0 .. MaxRetries,
                          m : Msgs \cup {NoMsg}, status : Statuses \cup {NoRow}]]
  /\ \A w \in Workers : /\ wrk[w].pc \notin {"idle", "ack"} => wrk[w].ev \in Events
                        /\ wrk[w].pc = "idle" => wrk[w].m = NoMsg
                        /\ wrk[w].pc = "mark" =>
                             wrk[w].status \in {"processed", "no_money_moved"}
  /\ acked \subseteq Events
  /\ logged \subseteq Events
  /\ faults \in 0 .. MaxFaults

(* A worker with a message in hand has it unacked and for itself alone. *)
Holding ==
  /\ \A w \in Workers : wrk[w].m # NoMsg =>
       /\ msg[wrk[w].m].loc = "unacked"
       /\ wrk[w].pc # "ack" => msg[wrk[w].m].ev = wrk[w].ev
  /\ \A w, v \in Workers : wrk[w].m = wrk[v].m /\ wrk[w].m # NoMsg => w = v

(* A message that will still run the task for event t: ready, or unacked by a
   dead worker, or in the hands of a worker that is not done with it. *)
Live(m, t) ==
  /\ msg[m].ev = t
  /\ \/ msg[m].loc = "ready"
     \/ /\ msg[m].loc = "unacked"
        /\ \A w \in Holders(m) : wrk[w].pc # "ack"

(* The event log row of t is settled, or something still works on it, or the
   worker gave up on it with a log line. *)
Covered(t) ==
  \/ row[t] \in TerminalStatuses
  \/ t \in logged
  \/ \E m \in Msgs : Live(m, t)

(* Once Stripe has been told 200, the event (or the twin whose row holds its
   key) is settled or still has a live message: no crash, redelivery, racing
   mark_queued or lost ack can leave it 'queued' with nobody to process it
   (the outbox of webhook() and acks_late together; findings R2 and H1). *)
NotStranded ==
  \A e \in acked :
    \E t \in Events : SameKey(e, t) /\ row[t] # NoRow /\ Covered(t)

(* One real movement of money is posted at most once, whatever is delivered
   twice, retried, restored, replayed or reported by two Stripe events: the
   dedupe keys and the list of handled types together (finding R1). *)
OnePostingPerMovement ==
  \A p, q \in posted : Movement[p] = Movement[q] => p = q

(* An event the log calls 'processed' has its movement in the ledger, even
   when a twin posted it: two partial refunds are two movements and neither
   may be taken for a duplicate of the other (finding R3). *)
ProcessedIsPosted ==
  \A e \in Events : row[e] = "processed" =>
    \E p \in posted : Movement[p] = Movement[e]

(* What the mapping must get right about Stripe's events for the two
   properties above: events that post and report one movement share a dedupe
   key, and events that share a key report one movement. *)
MovementsAreKeyed ==
  \A p, q \in Events :
    Postable(p) /\ Postable(q) /\ Movement[p] = Movement[q]
      => Conflict(TxnOf(p), TxnOf(q))

KeysAreMovements ==
  \A p, q \in Events :
    Postable(p) /\ Postable(q) /\ Conflict(TxnOf(p), TxnOf(q))
      => Movement[p] = Movement[q]

(* A settled status is never taken back to 'received' or 'queued', whichever
   late request or task writes last: mark_queued's guard. *)
SettledStaysSettled ==
  [][\A e \in Events : row[e] \in TerminalStatuses =>
                       row'[e] \in TerminalStatuses]_vars

(* Every acknowledged event is settled in the end, unless the database was
   out of reach even for the final 'failed' mark. *)
Settles(e) ==
  \E t \in Events : SameKey(e, t) /\ (row[t] \in TerminalStatuses \/ t \in logged)

AckedEventsSettle ==
  \A e \in Events : (e \in acked) ~> Settles(e)

-----------------------------------------------------------------------------
(* The inductive invariant behind the safety properties. *)

(* The ledger holds one transaction per key; a worker about to write
   'processed', and a row that says it, have their key posted. *)
LedgerInv ==
  /\ \A p \in posted : Postable(p)
  /\ \A p, q \in posted : Conflict(TxnOf(p), TxnOf(q)) => p = q
  /\ \A w \in Workers :
       /\ wrk[w].pc = "post" => Postable(wrk[w].ev)
       /\ wrk[w].pc = "mark" /\ wrk[w].status = "processed" =>
            Postable(wrk[w].ev) /\ KeyIn(posted, wrk[w].ev)
  /\ \A e \in Events : row[e] = "processed" => Postable(e) /\ KeyIn(posted, e)

(* A request past check_and_record works on a row that exists and holds the
   key of the delivered event; past the enqueue that row is covered. *)
IngestInv ==
  \A i \in Ingests : ing[i].pc # "idle" =>
    /\ SameKey(ing[i].ev, ing[i].target)
    /\ row[ing[i].target] # NoRow
    /\ ing[i].pc = "mark" => Covered(ing[i].target)

(* 'no_money_moved' is only said, or about to be, of an event that has
   nothing to post. *)
NoMoneyInv ==
  /\ \A w \in Workers : wrk[w].pc = "mark" /\ wrk[w].status = "no_money_moved"
                         => ~ Postable(wrk[w].ev)
  /\ \A e \in Events : row[e] = "no_money_moved" => ~ Postable(e)

(* Everything above at once: the invariant every step of ingest, broker and
   worker preserves. *)
IInv ==
  TypeOK /\ Holding /\ LedgerInv /\ NoMoneyInv /\ IngestInv /\ NotStranded

-----------------------------------------------------------------------------
(* The promise, and how the state of the pipeline is read as one of it. *)

SameTxn(p, q) == Conflict(TxnOf(p), TxnOf(q))

(* 'received' and 'queued' are one to the promise: no verdict yet. *)
StatusOf(s) == CASE s = NoRow -> "none"
                 [] s \in NON_TERMINAL_STATUSES -> "open"
                 [] OTHER -> s

Standing == [e \in Events |-> StatusOf(row[e])]

(* The events a message will still run the task for. *)
AtWork == {t \in Events : \E m \in Msgs : Live(m, t)}

Path == INSTANCE MoneyPath WITH
  status <- Standing,
  ledger <- posted,
  work   <- AtWork,
  lost   <- logged,
  told   <- acked

(* Ingest, broker and worker, with every crash, restored message, retry and
   replay, do nothing the promise does not allow: no work is dropped without
   a verdict or a log line, no 200 is given for nothing, and every verdict
   and every posting is the one its key allows. *)
ImplementsMoneyPath == Path!PathSpec

-----------------------------------------------------------------------------
(* What comments of the repository say and the code does not do. *)

(* tasks.py: an exhausted task "must NOT be acked-and-forgotten": an event
   Stripe was told 200 for is settled or still has a message. *)
NeverAckedAndForgotten ==
  \A e \in acked :
    \E t \in Events : /\ SameKey(e, t)
                      /\ row[t] \in TerminalStatuses \/ \E m \in Msgs : Live(m, t)
=============================================================================
