------------------------------ MODULE Harness -------------------------------
(***************************************************************************)
(* The chaos harness driving the real money path: harness/runner.py,       *)
(* harness/proxy.py (ChaosProxy) and harness/stack.py around the ingest,   *)
(* broker and worker of Pipeline.  run_all takes a schedule of scenarios;  *)
(* each is planned, sent, waited for and judged, and its verdict recorded. *)
(*                                                                         *)
(* The harness's stack is one uvicorn process and one solo worker, healthy *)
(* but for the injected fault: no step of Pipeline that raises is taken,   *)
(* and the worker dies only when the harness kills it.  A request may time *)
(* out at the proxy and still be served later, and run_scenario may raise. *)
(* run_all's reset_each is FALSE, its default.                             *)
(***************************************************************************)
EXTENDS Pipeline, FaultPlan, Recon

CONSTANTS Schedules,   \* sequences of scenarios for run_all
          MaxGiveUps   \* requests the proxy gives up on in one behaviour

(* One ingest process and one worker on a freshly migrated database. *)
ASSUME StackAssumption ==
  /\ \E i \in Ingests : Ingests = {i}
  /\ \E w \in Workers : Workers = {w}
  /\ MaxGiveUps \in Nat
  /\ Chart = SeedChart

(* What generate returns for any faults, kinds, repeats and seed: fixtures of
   one kind, as many as the fault needs, no skipped combination ... *)
IsScenario(s) ==
  /\ s.fault \in Range(DEFAULT_FAULTS)
  /\ s.index \in Nat
  /\ \E kind \in Range(ALL_KINDS) :
       /\ ~ skip_reason(s.fault, kind)
       /\ \E seqs \in [1 .. _FIXTURE_COUNT(s.fault) -> DOMAIN Draw] :
            s.fixtures = [k \in 1 .. _FIXTURE_COUNT(s.fault) |-> _fixture(kind, seqs[k])]

(* ... and no two fixtures of a run with the same seq: "FRESH IDS". *)
IsRun(s) ==
  /\ Len(s) \in Nat
  /\ DOMAIN s = 1 .. Len(s)
  /\ \A n \in DOMAIN s : IsScenario(s[n])
  /\ \A n, m \in DOMAIN s :
       \A j \in DOMAIN s[n].fixtures, k \in DOMAIN s[m].fixtures :
         s[n].fixtures[j].event.id = s[m].fixtures[k].event.id => n = m /\ j = k

(* Runs of generated scenarios, whose events are the ones that are served:
   Payload is what the harness mints, twins included. *)
ASSUME ScheduleAssumption ==
  \A s \in Schedules :
    /\ IsRun(s)
    /\ \A n \in DOMAIN s :
         /\ \A k \in DOMAIN s[n].fixtures :
              LET e == s[n].fixtures[k].event IN e.id \in Events /\ Payload[e.id] = e
         /\ s[n].fault = "DUPLICATE_OBJECT" =>
              LET e == Twin(s[n].fixtures[1]).event
              IN  e.id \in Events /\ Payload[e.id] = e

(* None is no object, no id and no type of an event. *)
ASSUME NoneAssumption ==
  \A kind \in Range(ALL_KINDS), seq \in DOMAIN Draw :
    LET e == _fixture(kind, seq).event
    IN  /\ NULL \notin {e.object, e.type, money_movement_object_id(e)}
        /\ \A k \in DOMAIN e.object.refunds :
             NULL \notin {e.object.refunds[k], e.object.refunds[k].id}

webhook_secret == "whsec"

Now == 10000  \* the second every scenario is planned in

VARIABLES
  sched,      \* the scenarios of this run
  cur,        \* the one in hand, 0 before the first
  pc,         \* where run_scenario is
  fp,         \* its FaultPlan, NULL before the first
  results,    \* per request sent in this scenario: its DeliveryResult, NULL
              \* while the proxy waits
  wire,       \* requests ingest has not looked at, abandoned ones included
  serving,    \* the request ingest works on, or NULL
  timer,      \* the kill timer: "off", "armed", "fired"
  up,         \* the worker process runs
  stable,     \* idle polls in a row
  quiescent,  \* wait_quiescent's answer
  before, after,  \* what was read: [balances, ok]
  records,    \* the JSONL file
  giveups

runnerVars == <<sched, cur, fp, before, after, quiescent, records>>
hvars == <<vars, runnerVars, pc, results, wire, serving, timer, up, stable, giveups>>

Ledger(ps) == {TxnOf(e) : e \in ps}

(* What the transaction of an event does to each account. *)
Effect == [e \in {f \in Events : Postable(f)} |-> _LedgerTxn(TxnOf(e)).delta]

DeltaOf(ps) ==
  [a \in AccountNames |-> SumFunctionOnSet([e \in ps |-> Effect[e][a]], ps)]

(* all_balances, and invariant.check over the same balances. *)
ReadLedger(ps) ==
  LET balances == DeltaOf(ps)
      side(normal, c) ==
        SumFunctionOnSet(balances,
                         {a \in AccountNames : /\ Chart[a].normal = normal
                                               /\ Chart[a].currency = c})
  IN  [balances |-> balances,
       ok |-> \A c \in {Chart[a].currency : a \in AccountNames} :
                side("debit", c) = side("credit", c)]

HInit ==
  /\ Init
  /\ sched \in Schedules
  /\ cur = 0
  /\ pc = "next"
  /\ fp = NULL
  /\ results = <<>>
  /\ wire = {}
  /\ serving = NULL
  /\ timer = "off"
  /\ up = TRUE
  /\ stable = 0
  /\ quiescent = FALSE
  /\ before = NULL
  /\ after = NULL
  /\ records = <<>>
  /\ giveups = 0

-----------------------------------------------------------------------------
(* The runner sends. *)

(* run_all's loop, and run_scenario up to the proxy. *)
BeginScenario ==
  /\ pc = "next"
  /\ cur < Len(sched)
  /\ cur' = cur + 1
  /\ pc' = "send"
  /\ fp' = plan(sched[cur + 1], webhook_secret, Now)
  /\ before' = ReadLedger(posted)
  /\ results' = <<>>
  /\ timer' = "off"
  /\ stable' = 0
  /\ UNCHANGED <<vars, sched, after, quiescent, records, wire, serving, up, giveups>>

(* Retries and redeliveries reuse the first delivery's bytes. *)
Planned(k) == IF k <= Len(fp.deliveries) THEN fp.deliveries[k] ELSE fp.deliveries[1]

Request(k) == [scenario |-> cur, k |-> k, d |-> Planned(k)]

AllAnswered == \A k \in DOMAIN results : results[k] # NULL

Unsent == Len(fp.deliveries) - Len(results)

(* _Once(timer.start) at the first delivery that hits the wire. *)
ArmTimer == timer' = IF fp.kills /\ timer = "off" THEN "armed" ELSE timer

(* ChaosProxy.execute: one after the other, each waited for ... *)
SendNext ==
  /\ pc = "send"
  /\ ~ fp.concurrent
  /\ AllAnswered
  /\ Unsent > 0
  /\ results' = Append(results, NULL)
  /\ wire' = wire \cup {Request(Len(results) + 1)}
  /\ ArmTimer
  /\ UNCHANGED <<vars, runnerVars, pc, serving, up, stable, giveups>>

(* ... or all at once from behind a barrier. *)
SendAll ==
  /\ pc = "send"
  /\ fp.concurrent
  /\ results = <<>>
  /\ results' = [k \in DOMAIN fp.deliveries |-> NULL]
  /\ wire' = wire \cup {Request(k) : k \in DOMAIN fp.deliveries}
  /\ ArmTimer
  /\ UNCHANGED <<vars, runnerVars, pc, serving, up, stable, giveups>>

(* httpx raises for a request on the wire or in ingest's hands: a result
   without a status.  Ingest may serve it all the same, or never see it. *)
GiveUp(k) ==
  /\ results[k] = NULL
  /\ giveups < MaxGiveUps
  /\ giveups' = giveups + 1
  /\ results' = [results EXCEPT ![k] = [status |-> NULL, body |-> ""]]
  /\ wire' \in {wire, wire \ {Request(k)}}
  /\ UNCHANGED <<vars, runnerVars, pc, serving, timer, up, stable>>

(* Stack.kill_worker from the timer's thread: nothing is acked. *)
KillFires ==
  /\ timer = "armed"
  /\ timer' = "fired"
  /\ up' = FALSE
  /\ wrk' = [w \in Workers |-> IdleWrk]
  /\ UNCHANGED <<row, posted, msg, ing, acked, logged, faults>>
  /\ UNCHANGED <<runnerVars, pc, results, wire, serving, stable, giveups>>

(* Mutant: execute returns without joining the kill timer. *)
ExecuteDone_NoJoin ==
  /\ pc = "send"
  /\ AllAnswered
  /\ Unsent = 0
  /\ pc' = IF fp.kills THEN "restart" ELSE "queue"
  /\ UNCHANGED <<vars, runnerVars, results, wire, serving, timer, up, stable, giveups>>

(* Every delivery has a result and the kill, if any, has happened: the timer
   fires within the ten seconds of slack the join gives it. *)
ExecuteDone ==
  /\ pc = "send"
  /\ AllAnswered
  /\ Unsent = 0
  /\ timer # "armed"
  /\ pc' = IF fp.kills THEN "restart" ELSE "queue"
  /\ UNCHANGED <<vars, runnerVars, results, wire, serving, timer, up, stable, giveups>>

(* Stack.restart_worker: what is left of the old process goes, and the call
   returns once the new one reports ready. *)
RestartWorker ==
  /\ pc = "restart"
  /\ up' = TRUE
  /\ wrk' = [w \in Workers |-> IdleWrk]
  /\ pc' = IF fp.redeliver THEN "redeliver" ELSE "queue"
  /\ UNCHANGED <<row, posted, msg, ing, acked, logged, faults>>
  /\ UNCHANGED <<runnerVars, results, wire, serving, timer, stable, giveups>>

Redeliver ==
  /\ pc = "redeliver"
  /\ results' = Append(results, NULL)
  /\ wire' = wire \cup {Request(Len(results) + 1)}
  /\ pc' = "redelivered"
  /\ UNCHANGED <<vars, runnerVars, serving, timer, up, stable, giveups>>

Redelivered ==
  /\ pc = "redelivered"
  /\ AllAnswered
  /\ pc' = "queue"
  /\ UNCHANGED <<vars, runnerVars, results, wire, serving, timer, up, stable, giveups>>

-----------------------------------------------------------------------------
(* The runner waits: Stack.wait_quiescent reads the broker, then the event
   log, and believes two idle polls in a row. *)

(* The ready lists only: a dead worker's message does not count. *)
queue_len == Cardinality({m \in Msgs : msg[m].loc = "ready"})

FixtureIds == Ids(sched[cur].fixtures)

pending_events == Cardinality({e \in FixtureIds : row[e] \in NON_TERMINAL_STATUSES})

(* Mutant: the broker alone says when the system is idle. *)
PollQueue_Alone ==
  /\ pc = "queue"
  /\ pc' = IF queue_len = 0 /\ stable = 1 THEN "balances" ELSE "queue"
  /\ stable' = IF queue_len = 0 THEN 1 ELSE 0
  /\ quiescent' = (queue_len = 0 /\ stable = 1)
  /\ UNCHANGED <<vars, sched, cur, fp, before, after, records>>
  /\ UNCHANGED <<results, wire, serving, timer, up, giveups>>

PollQueue ==
  /\ pc = "queue"
  /\ pc' = IF queue_len = 0 THEN "rows" ELSE "queue"
  /\ stable' = IF queue_len = 0 THEN stable ELSE 0
  /\ UNCHANGED <<vars, runnerVars, results, wire, serving, timer, up, giveups>>

PollEvents ==
  LET idle == pending_events = 0 IN
  /\ pc = "rows"
  /\ pc' = IF idle /\ stable = 1 THEN "balances" ELSE "queue"
  /\ stable' = IF idle THEN 1 ELSE 0
  /\ quiescent' = (idle /\ stable = 1)
  /\ UNCHANGED <<vars, sched, cur, fp, before, after, records>>
  /\ UNCHANGED <<results, wire, serving, timer, up, giveups>>

(* The timeout of wait_quiescent. *)
Deadline ==
  /\ pc = "queue"
  /\ pc' = "balances"
  /\ quiescent' = FALSE
  /\ UNCHANGED <<vars, sched, cur, fp, before, after, records>>
  /\ UNCHANGED <<results, wire, serving, timer, up, stable, giveups>>

ReadBalances ==
  /\ pc = "balances"
  /\ after' = ReadLedger(posted)
  /\ pc' = "judge"
  /\ UNCHANGED <<vars, sched, cur, fp, before, quiescent, records>>
  /\ UNCHANGED <<results, wire, serving, timer, up, stable, giveups>>

-----------------------------------------------------------------------------
(* The runner judges. *)

_diff(b, a) == [n \in AccountNames |-> a[n] - b[n]]

(* Deliveries carry ids the fixtures do not: the twin's. *)
Candidates == FixtureIds \cup {fp.deliveries[k].event_id : k \in DOMAIN fp.deliveries}

_posted_rows == posted \cap Candidates

Answered(k, lo, hi) ==
  results[k].status # NULL /\ results[k].status >= lo /\ results[k].status < hi

accepted_rejected ==
  {fp.deliveries[k].event_id :
     k \in {n \in DOMAIN fp.deliveries : fp.deliveries[n].expect_rejected
                                         /\ Answered(n, 200, 300)}}

wrong_reason ==
  {fp.deliveries[k].event_id :
     k \in {n \in DOMAIN fp.deliveries :
              /\ fp.deliveries[n].expect_rejection_reason # NULL
              /\ Answered(n, 400, 500)
              /\ fp.deliveries[n].expect_rejection_reason # results[n].body}}

(* The reconciler is under test for DROP alone. *)
recon_reported ==
  /\ fp.expectation.recon
  /\ \E b \in reconcile_expected(Ledger(posted), Ledger(posted),
                {[event_id |-> sched[cur].fixtures[k].event.id,
                  delta    |-> sched[cur].fixtures[k].expected_delta] :
                   k \in DOMAIN sched[cur].fixtures}) :
       b.kind = "missing_in_ledger" /\ b.event \in Candidates

Observation ==
  [ledger_diff |-> _diff(before.balances, after.balances),
   invariant_after |-> after.ok, posted |-> _posted_rows,
   transactions |-> Cardinality(_posted_rows), quiescent |-> quiescent,
   accepted_rejected |-> accepted_rejected, wrong_reason |-> wrong_reason,
   recon_reported_break |-> recon_reported]

(* Mutant: money conservation and the refusals, and no look at what posted. *)
detect_breaks_Trusting(exp, obs) ==
  {b \in {"INVARIANT_VIOLATION", "ACCEPTED_BAD_DELIVERY"} :
     CASE b = "INVARIANT_VIOLATION"   -> ~ obs.invariant_after
       [] b = "ACCEPTED_BAD_DELIVERY" -> obs.accepted_rejected # {}}

(* The kinds of break found; the ledger diff, what posted and the answers are
   compared with the expectation, never with the fault. *)
detect_breaks(exp, obs) ==
  {b \in {"INVARIANT_VIOLATION", "LEDGER_DIFF_MISMATCH", "ACCEPTED_BAD_DELIVERY",
          "WRONG_REJECTION_REASON", "LOST_EVENT", "DOUBLE_POST", "NOT_QUIESCENT",
          "RECONCILER_MISSED_DROP"} :
     CASE b = "INVARIANT_VIOLATION"    -> ~ obs.invariant_after
       [] b = "LEDGER_DIFF_MISMATCH"   -> obs.ledger_diff # exp.balances_delta
       [] b = "ACCEPTED_BAD_DELIVERY"  ->
            (exp.rejected \cap obs.posted) \cup obs.accepted_rejected # {}
       [] b = "WRONG_REJECTION_REASON" -> obs.wrong_reason # {}
       [] b = "LOST_EVENT"             -> exp.posted \ obs.posted # {}
       [] b = "DOUBLE_POST"            -> obs.transactions > Cardinality(exp.posted)
       [] b = "NOT_QUIESCENT"          -> ~ obs.quiescent
       [] b = "RECONCILER_MISSED_DROP" -> exp.recon /\ ~ obs.recon_reported_break}

(* Mutant: the signature's age left out of the evidence. *)
_delivery_records_NoAge ==
  [k \in DOMAIN results |->
     LET d == Planned(k) IN
     [status      |-> results[k].status,
      upstream    |-> IF fp.force_500 /\ k = 1 THEN 500 ELSE results[k].status,
      schemes     |-> {s \in {"v1", "v0"} : d.sig[s] # {}},
      parses      |-> d.body.form # "truncated",
      age         |-> 0]]

(* What was sent and what came back: the evidence a triage agent gets.
   arrived_after_ms, the measured time of the sending, is left out: it is above
   0 for every delivery. *)
_delivery_records ==
  [k \in DOMAIN results |->
     LET d == Planned(k) IN
     [status      |-> results[k].status,
      upstream    |-> IF fp.force_500 /\ k = 1 THEN 500 ELSE results[k].status,
      schemes     |-> {s \in {"v1", "v0"} : d.sig[s] # {}},
      parses      |-> d.body.form # "truncated",
      age         |-> Now + d.delay_before_s - d.sig.t[1]]]

(* reset_ledger contains the damage of a broken invariant. *)
ResetIfBroken ==
  /\ posted' = IF after.ok THEN posted ELSE {}
  /\ row' = IF after.ok THEN row ELSE [e \in Events |-> NoRow]

Judge ==
  /\ pc = "judge"
  /\ records' = Append(records,
       [fault      |-> fp.fault,
        crashed    |-> FALSE,
        expected   |-> fp.expectation,
        candidates |-> Candidates,
        deliveries |-> _delivery_records,
        quiescent  |-> quiescent,
        breaks     |-> detect_breaks(fp.expectation, Observation)])
  /\ ResetIfBroken
  /\ pc' = "next"
  /\ UNCHANGED <<msg, ing, wrk, acked, logged, faults>>
  /\ UNCHANGED <<sched, cur, fp, before, after, quiescent>>
  /\ UNCHANGED <<results, wire, serving, timer, up, stable, giveups>>

(* Nothing expected, nothing seen and no break, whatever the ledger holds. *)
_failure_record ==
  [fault      |-> sched[cur].fault,
   crashed    |-> TRUE,
   expected   |-> Expectation({}, {}, NoDelta),
   candidates |-> FixtureIds,
   deliveries |-> <<>>,
   quiescent  |-> FALSE,
   breaks     |-> {}]

(* run_scenario raises where it reads the ledger, restarts the worker, waits or
   judges, and run_all files that and goes on.  A restart that raises leaves
   no worker, or one that was late to report ready. *)
ScenarioRaises ==
  /\ pc \in {"send", "restart", "queue", "rows", "balances", "judge"}
  /\ pc = "send" => results = <<>>
  /\ records' = Append(records, _failure_record)
  /\ pc' = "next"
  /\ \/ pc # "restart" /\ UNCHANGED <<wrk, up>>
     \/ /\ pc = "restart"
        /\ wrk' = [w \in Workers |-> IdleWrk]
        /\ up' \in BOOLEAN
  /\ UNCHANGED <<row, posted, msg, ing, acked, logged, faults>>
  /\ UNCHANGED <<sched, cur, fp, before, after, quiescent>>
  /\ UNCHANGED <<results, wire, serving, timer, stable, giveups>>

-----------------------------------------------------------------------------
(* The stack under test: Pipeline's steps, and the answer to the proxy. *)

stackVars == <<runnerVars, pc, timer, up, stable, giveups>>

(* Nobody waits for an abandoned request any more. *)
Respond(rq, status, body) ==
  results' = IF rq.scenario = cur /\ results[rq.k] = NULL
             THEN [results EXCEPT ![rq.k] = [status |-> status, body |-> body]]
             ELSE results

(* When the body is complete. *)
ArrivalTime(d) == Now + d.delay_before_s + d.slow_loris_s

Verdict(d) == Refusal(d.body, d.sig, webhook_secret, ArrivalTime(d))

Outcome(rq) == Verdict(rq.d)

Refuse(i, rq) ==
  /\ ing[i].pc = "idle"
  /\ Outcome(rq) # ""
  /\ Respond(rq, 400, Outcome(rq))
  /\ wire' = wire \ {rq}
  /\ UNCHANGED <<vars, stackVars, serving>>

Accept(i, rq) ==
  /\ Outcome(rq) = ""
  /\ RecordNew(i, rq.d.event_id) \/ RecoverDuplicate(i, rq.d.event_id)
  /\ serving' = rq
  /\ wire' = wire \ {rq}
  /\ UNCHANGED <<stackVars, results>>

AnswerKnown(i, rq) ==
  /\ Outcome(rq) = ""
  /\ AnswerDuplicate(i, rq.d.event_id)
  /\ Respond(rq, 200, "duplicate")
  /\ wire' = wire \ {rq}
  /\ UNCHANGED <<stackVars, serving>>

(* Slots of the broker are interchangeable: the first free one is used. *)
EnqueueServed(i) ==
  /\ Enqueue(i)
  /\ msg'[CHOOSE m \in FreeMsgs : TRUE].loc = "ready"
  /\ UNCHANGED <<stackVars, results, wire, serving>>

AnswerServed(i) ==
  /\ MarkQueued(i)
  /\ Respond(serving, 200, "queued")
  /\ serving' = NULL
  /\ UNCHANGED <<stackVars, wire>>

IngestRuns(i) ==
  \/ \E rq \in wire : Refuse(i, rq) \/ Accept(i, rq) \/ AnswerKnown(i, rq)
  \/ EnqueueServed(i)
  \/ AnswerServed(i)

WorkerRuns(w) ==
  /\ up
  /\ \/ \E m \in Msgs : Fetch(w, m)
     \/ NothingToPost(w)
     \/ Build(w)
     \/ Post(w)
     \/ PostDuplicate(w)
     \/ MarkStatus(w)
     \/ Ack(w)
  /\ UNCHANGED <<stackVars, results, wire, serving>>

Restore(m) ==
  /\ RestoreOrphan(m)
  /\ UNCHANGED <<stackVars, results, wire, serving>>

-----------------------------------------------------------------------------

RunnerStep ==
  \/ BeginScenario
  \/ SendNext
  \/ SendAll
  \/ ExecuteDone
  \/ RestartWorker
  \/ Redeliver
  \/ Redelivered
  \/ PollQueue
  \/ PollEvents
  \/ ReadBalances
  \/ Judge

StackStep ==
  \/ KillFires
  \/ \E i \in Ingests : IngestRuns(i)
  \/ \E w \in Workers : WorkerRuns(w)
  \/ \E m \in Msgs : Restore(m)

HNext ==
  \/ RunnerStep
  \/ StackStep
  \/ Deadline
  \/ ScenarioRaises
  \/ \E k \in DOMAIN results : GiveUp(k)

(* The runner keeps going, and so does the stack while it has anything to do:
   both children, the timer thread and Redis (it has no cycles of its own, so
   one fairness condition is as good as one for each).  The proxy and
   wait_quiescent need not ever time out, and nothing needs to raise. *)
HFairness == WF_hvars(RunnerStep) /\ WF_hvars(StackStep)

HSpec == HInit /\ [][HNext]_hvars /\ HFairness

-----------------------------------------------------------------------------
(* Properties. *)

(* Events of earlier scenarios cannot reach into a later one: all of them
   went quiet and no request of theirs was abandoned. *)
Undisturbed(n) == giveups = 0 /\ \A j \in 1 .. n : records[j].quiescent

(* No false alarm: a scenario that went quiet, after scenarios that did, has no
   break: the code as it is passes every fault, kill and redelivery, duplicate
   race and reordering, and the two idle polls of wait_quiescent (broker, then
   event log) never let the runner read the ledger before the work is done. *)
GreenWhenCorrect ==
  \A n \in DOMAIN records : Undisturbed(n) => records[n].breaks = {}

(* No false green: a scenario that ran to its verdict and is recorded without a
   break has exactly its expected events in the ledger with exactly the expected
   effect, and keeps it that way: no abandoned request, restored message or
   late task of its own or of a scenario that crashed before it changes the
   books after the verdict.  The record of a crashed scenario has no break
   either and says nothing: its `error' has to be read as well. *)
GreenIsTrue ==
  \A n \in DOMAIN records :
    records[n].breaks = {} /\ ~ records[n].crashed =>
      /\ posted \cap records[n].candidates = records[n].expected.posted
      /\ DeltaOf(posted \cap records[n].candidates) = records[n].expected.balances_delta

(* The reading of a refused or failed delivery that _delivery_records is
   written for: the faults it may come from.  A DELAY past the tolerance and a
   STALE_TIMESTAMP are one observable, a signature too old. *)
Diagnosis(d) ==
  IF d.upstream = 500 THEN {"RESPOND_500"}
  ELSE IF ~ d.parses THEN {"TRUNCATE_BODY"}
  ELSE IF "v1" \notin d.schemes THEN {"DOWNGRADE_SCHEME"}
  ELSE IF d.age <= DEFAULT_TOLERANCE_SECONDS THEN {"TAMPER_BODY"}
  ELSE {"DELAY", "STALE_TIMESTAMP"}

(* The evidence of a delivery that was refused, or that Stripe was told 500
   for, tells the faults apart, all but DELAY and STALE_TIMESTAMP: the four
   signature attacks look alike from the answer alone and the recorded header,
   its age and the parse separate them (the docstring of _delivery_records). *)
EvidenceNamesFault ==
  \A n \in DOMAIN records : \A k \in DOMAIN records[n].deliveries :
    LET d == records[n].deliveries[k] IN
    d.status = 400 \/ d.upstream = 500 => records[n].fault \in Diagnosis(d)

(* As long as no scenario crashes, every one is recorded without the help of a
   timeout: nothing is left waiting in the queue for a worker that is dead, and
   no row stays 'queued' after the kill, the restart and the redelivery.  So a
   PARTIAL_WRITE does not spend its whole budget, as the comment on
   QUIESCENT_TIMEOUT_S still expects it to. *)
EveryScenarioEnds ==
  <>(\/ Len(records) = Len(sched)
     \/ \E n \in DOMAIN records : records[n].crashed)
=============================================================================
