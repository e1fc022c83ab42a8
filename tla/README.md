# LedgerProof in TLA+

A TLA+ development of LedgerProof, a payments pipeline that receives Stripe
webhooks, deduplicates and queues them, and posts each movement of money to an
append-only double-entry ledger in Postgres. The modules are translated from
the code; TLC checks them on small instances and TLAPS proves the central
properties for every instance.

## 1. The system

| Part | Source | State it keeps | Operations |
|---|---|---|---|
| Ledger schema | `migrations/001`, `002`, `004` | tables `accounts`, `transactions`, `entries`, view `account_balances` | unique constraints, row checks, composite foreign key, two deferred triggers, append-only triggers and grants |
| Ledger posting | `ledger/post.py` | none of its own | `post_transaction`: one SERIALIZABLE unit, retried on 40001 |
| Invariant and balances | `ledger/invariant.py`, `balances.py`, `accounts.py` | none | `check`, `balances`: reads |
| Event mapping | `stripe_io/mapping.py` | none | `build_transaction`, `money_movement_object_id` |
| Ingest | `ingest/app.py`, `dedupe.py`, `queue.py`, `server.py` | `stripe_events` rows (`received`, `queued`) | the webhook handler: verify, `check_and_record`, enqueue, `mark_queued` |
| Worker | `worker/tasks.py`, `handlers.py` | `stripe_events` rows (`processed`, `no_money_moved`, `failed`) | `process_event`, `handle_event`, `_resolve_fee`, `_mark_status` |
| Broker | Celery on Redis (external) | ready and unacked messages | publish, deliver, late ack, restore after `visibility_timeout` |
| Rate limiter | `limits/gcra.py` | TAT and lock per key in Redis | `check`, `reset` |
| Load shedder | `limits/shed.py` | level and run counters in the ingest process | `observe`, `should_shed`, `disable`, `enable` |
| Signature | `stripe_io/signature.py` | none | `verify` |
| Egress client | `stripe_io/client.py` | a replay counter | `post`, `get` with the idempotent-retry matrix |
| Reconciler | `recon/reconciler.py`, `breaks.py` | none (read-only) | `reconcile_expected`, `reconcile_stripe` |
| Triage | `triage/*.py` | none; writes through `post_transaction` | `triage`, `approve_and_apply`, benchmark and batch tools |
| Fault harness | `harness/events.py`, `scenarios.py`, `faults.py`, `proxy.py` (ChaosProxy), `runner.py`, `stack.py` | the scenario in hand, its plan and results, the worker process, the record file | mint fixtures, plan a fault, send, kill and restart the worker, wait, judge |
| Live proxy | `harness/proxy.py` (`make_proxy_app`) | the reorder buffer, the delivery log | inject one fault into live traffic, forward, answer Stripe |
| Configuration, observability | `config.py`, `observability.py` | metrics | settings, tracing |

How they interact: Stripe delivers an event to ingest any number of times and
in any order. Ingest records it in `stripe_events` (committed at once), hands it
to the broker, advances the row to `queued` and only then answers 200. A worker
maps the event, fetching a missing fee from Stripe, calls `post_transaction`,
and writes the outcome to the row. A row that is `received` or `queued` is
re-enqueued when Stripe delivers the event again. The unique constraints of
`transactions` are the last line of defence: everything in front of them may
repeat. The middleware in front of ingest sheds and limits requests before
they touch any of this. The reconciler compares the ledger with what Stripe
reports, and an approved repair is one more call of `post_transaction`. The
harness mints its own signed events, sends them through a proxy that injects one
fault per scenario into the real ingest and worker, and judges the ledger by an
expectation that does not come from the mapping under test; its records are the
evidence a triage model is shown.

What is hard here: concurrent requests and tasks for one event or for two
events about one movement; process death between any two of the database
commit, the broker publish, the status update and the ack; answers lost after
the effect; a task redelivered while it runs; a lock that expires under its
holder; retry loops that must end; keys and amounts at the edges of the
mapping; a POST in doubt; a report compiled page by page while both sides move;
a harness that must tell "not finished" from "lost" with two reads that are not
one; a hold that expires while somebody else is sending what it held.
`PROJECT.json` lists these hazards at their lines, each with the properties aimed
at it.

What makes each part correct:

* *posting*: whole or nothing, once per dedupe key, the answer is true, every
  call ends, the ledger balances per account currency at every commit;
* *pipeline*: one posting per movement of money, an acknowledged event is never
  stranded and settles in the end, `processed` is true and a settled row stays
  settled;
* *mapping*: what is posted is what Stripe's balance moved by, and no real
  movement is refused;
* *limiter*: the admitted requests keep the rate, the lock excludes;
* *shedder*: no flapping, the money path is shed last, the level converges;
* *egress client*: a call of `post` moves money at most once, its answer is
  true, it ends;
* *reconciler*: the report is exactly the difference between what Stripe listed
  and the ledger as it was loaded;
* *triage gate*: what it lets through the deferred triggers accept, and a repair
  scored as right makes the books right;
* *harness*: green means correct for a scenario that ran to its verdict, a correct
  system left alone is green, the evidence names the fault, every scenario ends;
* *live proxy*: nothing is sent twice or lost, Stripe is not told a lie, every
  request is answered.

## 2. Modules

| Module | Models | Extends / uses |
|---|---|---|
| `LedgerSchema` | the constraints, triggers, view and invariant as constant operators | |
| `Mapping` | `mapping.py` and `_resolve_fee` as operators | `LedgerSchema` |
| `EventMapping` | the part of `handle_event` before the ledger, one event at a time | `Mapping` |
| `LedgerStore` | abstract: what `post_transaction` promises, one atomic step per call | |
| `LedgerPost` | `post.py` statement by statement, concurrent callers | `LedgerSchema`; implements `LedgerStore` |
| `MoneyPath` | abstract: what ingest, broker and worker promise together | |
| `Pipeline` | ingest + broker + worker over the event log and the ledger | `Mapping`; relies on `LedgerStore`, implements `MoneyPath` |
| `GCRA` | the rate limiter, one Redis command per step | |
| `Shedder` | the load shedder and the middleware step that drives it | |
| `Signature` | `sign`, `verify` and the refusals of the webhook handler, as operators | |
| `Fixtures` | `events.py` and the generator of `scenarios.py`, as operators | `Mapping` |
| `FaultPlan` | `faults.py`: one operator per fault, its deliveries and its expectation | `Fixtures`, `Signature` |
| `Recon` | `breaks.py` and the comparisons of `reconciler.py`, as operators | `LedgerSchema` |
| `Harness` | runner, ChaosProxy and stack around the steps of the pipeline | `Pipeline`, `FaultPlan`, `Recon` |
| `LiveProxy` | `make_proxy_app` and `_Reorderer`, one step per await | `Signature` |
| `ChargeOnce` | abstract: what `post` promises its caller | |
| `Egress` | `client.py` against a Stripe that caches answers by key | |
| `TriageGate` | `agent.py`, `schema.py` and the repair scoring of `bench.py`, as operators | `LedgerSchema` |
| `Settlement` | charges, Stripe's balance, the worker's postings, `reconcile_stripe`, triage and approval, interleaved | `Egress`, `Mapping`, `Recon`, `TriageGate`; implements `ChargeOnce` |
| `LedgerTheorems` | lemmas on finite sums, balances and the rows the mapping builds | `Mapping` |
| `LedgerPostProofs`, `PipelineProofs`, `EventMappingProofs`, `LiveProxyProofs`, `SettlementProofs`, `HarnessProofs` | theorems | the module they are named after; four of them `LedgerTheorems`, `HarnessProofs` also `PipelineProofs` |
| `LimitsProofs` | theorems on the two limits in front of ingest | `GCRA`, `Shedder` |
| `MC...` | constants for TLC | the module they are named after |

Definitions whose name ends in a suffix such as `_Unguarded` are the mutated
forms of the definition before the suffix. No specification uses them; they
document which bug each property would catch, and `PROJECT.json` pairs them.

### Correspondence with the code

*Pipeline.* `row` is `stripe_events.status`; `posted` the events with a row in
`transactions`; `msg` the broker's messages (free, ready, unacked); `ing` and
`wrk` the position of each ingest and worker process. An ingest process serves
one request at a time, because the handler never awaits after reading the
body; several processes run side by side. Each statement the code commits by
itself is one step: `RecordNew` / `RecoverDuplicate` / `AnswerDuplicate` are
the outcomes of `check_and_record` (its INSERT and the SELECT that follows a
collision are one step, since rows are never deleted and a blocked key cannot
get an own row in between), `Enqueue`, `MarkQueued`, and for the worker `Build`,
`Post...`, `MarkStatus`, `Retry`, `DeadLetter`, `Ack`. `_mark_status` is one step:
its INSERT carries `ON CONFLICT (id) DO UPDATE`, so a row that appears after its
UPDATE gives the same result. `Replay` covers the manual replay of
an event, and the harness's direct injection. `post_transaction` is one step
(posted, duplicate, raised, or raised after committing); that this is
legitimate is theorem `PostImplementsStore`. `Movement` is not in the code: it
says which events report the same real movement of money, so that properties
can speak of money rather than of keys.

*MoneyPath* is the pipeline without processes, broker and retries: an event's
`status` (none, open, or its verdict), the `ledger`, the events somebody is going to
process (`work`), those given up with a log line (`lost`) and those Stripe got a 200
for (`told`). `Pipeline` reads `work` off its live messages (`AtWork`) and takes
'received' and 'queued' for one (`Standing`). Work on an event ends only with a
verdict (`Settle`), with a log line (`GiveUp`), or because another event holds its key
(`Yield`); a 200 (`Tell`) needs a row that is settled, at work or lost. A row may stay
open with nobody at work and nobody told: that is the 500 after which Stripe sends
the event again.

*Broker (external).* From the Celery configuration in `worker/tasks.py` and how
Celery treats tasks: a message is unacked while its task runs (`task_acks_late`);
a task that returns, raises or retries is acked; `self.retry` publishes a copy
first; after `visibility_timeout` an unacked message is ready again, whether
its worker died (`RestoreOrphan`) or is merely slow (`RestoreWhileRunning`), in
which case the late ack does nothing. Not modelled: the publish inside
`self.retry` failing, which Celery turns into a reject without requeue.

*LedgerPost.* `sess` holds each caller's statement, inserted entries and attempt
number; rows become visible at `Commit` only. An INSERT whose key another
session holds uncommitted waits (no action enabled), then proceeds or collides,
as Postgres does. 40001 and lost connections may meet every statement, and a
lost connection during COMMIT may leave the commit done (`CommitInDoubt`).
Backoff delays are left out.

*Mapping.* Amounts are integers; an event carries its refunds (newest first) and
its balance transactions, expanded or not. Timestamps and memo texts are left
out. Malformed payloads that raise are one result, `Raises`.

*GCRA.* Time is Redis time in ticks. A tick is the spacing of doubles at today's
epoch seconds (2^-22 s): `now` and every stored TAT are doubles, so they are whole
ticks, and adding the emission interval or subtracting the tolerance rounds it to
ticks. `T` and `tolerance` are the two rounded values; they are rounded apart, so
`tolerance` is a constant of its own within `Burst` half ticks of `T * (Burst - 1)`.
`remaining` and `retry_after`, which only report, are left out. Lock and TAT carry
their expiry. Each Redis
command is a step and may fail with or without its effect; callers may die.
The lock token is the caller's name: a caller has one check at a time.
`log` is history: the Redis times of the admissions. `MaxStall` bounds the time
between taking the lock and the last command under it.

*Shedder.* A pressure is a percentage. `recent` is history: the last
`RecoverAfter` target levels. The reporting counters are left out.

*Signature.* A body is the event it carries and what happened to its bytes after
signing; a digest is the tuple it was computed from; a header is what `verify`'s
loop makes of it. `Refusal` is the webhook handler up to the event envelope.

*Fixtures, FaultPlan.* The harness's own double-entry table and its event kinds;
ids are derived from a sequence number as in `_ids_for`; `Draw` stands for the
seeded generator's amounts, within the bounds of its `randrange` calls
(`DrawAssumption`). Each branch of `plan()` is an operator. Of `_money` only the ids
are kept, which is all the plans use of it. The number of
copies of the DUPLICATE faults is capped by `MaxCopies`; the kill delays of
PARTIAL_WRITE are left to the interleaving.

*Harness.* `EXTENDS Pipeline`: ingest, broker and worker are those steps, healthy
but for the injected fault. `wire` and `serving` are requests on their way and in
ingest's hands, also those the proxy gave up on; `results` what the proxy got
back; `pc`, `stable`, `quiescent`, `before` and `after` are run_scenario's and
wait_quiescent's locals; `records` the JSONL file. The two reads of a poll are two
steps, and so are reading the balances and judging, which reads the posted rows
and, for DROP, runs the reconciler. `IsScenario` and `IsRun` say what `generate` may
return, for any faults, kinds, repeats and seed; `ScheduleAssumption` that runs are made
of that and that ingest is served the harness's own payloads. A scenario may raise
where it reads the ledger, restarts the worker, waits or judges (`ScenarioRaises`):
`run_all` files `_failure_record`, with no break and nothing expected, and goes on,
possibly without a worker. Of a delivery's record the evidence keeps the answer, the
signature's schemes and age and whether the body parses; the measured arrival time
is left out, since it is above zero for undelayed deliveries too. `execute` waits
for the kill, where the join in the code gives up `KILL_JOIN_SLACK_S` after the
planned delay. `reset_each`, `kill_errors`, the health probe of SLOW_LORIS and
`task_in_flight` are left out.

*LiveProxy.* One step per stretch between two awaits of a coroutine; the lock of
`_Reorderer` is never awaited under. `wire` is history: what reached ingest and
the answer it gave. A forward may fail before or after ingest got the request.

*Egress.* `req` is the `_request` loop of each call, `wire` the requests Stripe has
not served, `cache` and `bts` Stripe's idempotency cache and balance transactions
(external, from how the client and its tests use them: a key seen before gets the
cached answer, errors included; a 429, and a 400 with `Stripe-Should-Retry: true`
and the code `lock_timeout`, are not cached; a 5xx may hide an effect). Every call
mints its own key: `post` also takes one from its caller, which no caller in the
repository uses. The backoff
is not a state: a request stays on the wire as long as it likes.

*Recon, Settlement.* A break is a record of kind, object, event and the two
amounts. `LoadLedger` and `CheckInvariant` are separate steps, because `_readonly`
opens a READ COMMITTED transaction; each page is a `get` of the client, which may
be retried or fail. The worker is one atomic step per posting (`Pipeline`); while
the reconciler runs it posts charges only, and refunds, disputes and payouts are in
the histories it starts from. Stripe
reports a payment as a charge and as the intent behind it. Balance transactions are
numbered in the order they are made and listed newest first; one that no object
caused (a fee of Stripe's own) has no source and is reported under its own id. A
verdict is what the gate looks at: `money_is_missing` and the entries. `bench.py`
scores repairs on the seven seeded accounts only, so `RepairRestores` is about
repairs on these.

## 3. Runs

| Run | Checks | Instance |
|---|---|---|
| `PipelineTwins` | `IInv`, `OnePostingPerMovement`, `ImplementsMoneyPath` | two events for one charge, two workers, one fault |
| `PipelineRedelivery` | `NotStranded`, `SettledStaysSettled` | one event, two ingest processes, two workers, one retry, two faults |
| `PipelineRefunds` | `TypeOK`, `ProcessedIsPosted` | two partial refunds and an event of a type the worker does not handle, one retry |
| `PipelineLive` | `AckedEventsSettle` | one unsettled charge, one retry, one fault, fair |
| `LedgerPost` | `OnePostingPerKey`, `NoHalfPost`, `HonestOutcome`, `CheckAlwaysOk`, `ImplementsStore`, `EveryCallEnds` | two callers, two attempts, fair; seven transactions: a charge, its twin, a repair without Stripe ids, and four that must be refused |
| `EventMapping` | `NetMatchesStripe`, `SaneEventsPost` | all events over amounts 0..3 and fees -1..3, with up to two balance transactions for a dispute |
| `GCRA` | `Conforms`, `Exclusive` | two callers, burst 3, T = 2 and a tolerance of 3 (an interval of 1.6 ticks, rounded), a lock that lives 2 ticks |
| `Shedder` | `MoneyPathProtected`, `AntiFlap`, `Converges` | shipped thresholds and counts, samples around every threshold, fair |
| `Harness` | `GreenWhenCorrect`, `GreenIsTrue`, `EvidenceNamesFault`, `EveryScenarioEnds` | every fault with every kind of event and every variation of its parameters as one scenario, and three pairs of scenarios; three copies of a duplicate, one request may be given up, any scenario may raise; fair |
| `LiveProxy` | `ForwardedOnce`, `HonestUpstream`, `AttackRefused`, `EveryRequestAnswered` | every fault, with and without the secret; three requests, one unsigned; a reorder buffer of two; fair |
| `Settlement` | `ReportExact`, `NoPhantom`, `NoTriggerError`, `ImplementsChargeOnce`, `RepairRestores`, `EveryRequestEnds` | one charge made on top of an empty history, of a balance transaction without a source or of three with one (one posted, one posted with the wrong fee, one missing), page size 2, one retry, two faults, one approval of a right, a wrong or a two-currency repair; fair |

Why the bounds are enough: two deliveries and two workers give every pair of
racing steps, and the interesting losses need one fault (a death or an overrun
timeout) plus one more step of somebody else; one retry distinguishes the first,
a retried and the exhausted attempt. `QueueBound` limits what ingest and
operators publish, `Msgs` the slots of the broker; the liveness run needs
`|Msgs| >= QueueBound + MaxFaults + |Workers|`, so that a retry never finds the
broker full, which in Redis it does not. The limiter's clock runs far enough
for the lock and the TAT to expire. Two requests fill the reorder buffer and a
third can flush it while the first's hold expires. Histories longer than a page
make the reconciler page, and a charge made between two pages is the case where
paging goes wrong. Two scenarios in a row are enough for anything an earlier one
leaves behind. All the safety results are also proved without bounds (section 5).

Fairness: `Pipeline` assumes that a live worker goes on with its task, that
Redis restores what a dead worker held, and that a ready message is not passed
over for ever (its list is first in, first out). Nothing is assumed of Stripe,
ingest or operators; faults are finite. `LedgerPost` assumes that a session in
the middle of a call executes its next statement (weak fairness of `Statement`), and
that an INSERT waiting for another session's key is woken when that session ends,
even if others take the key in between (strong fairness of `InsertTransaction`:
Postgres queues lock waiters). No fault is ever forced, so no lost connection or
40001 rescues a session that waits. `Shedder` assumes that
requests keep arriving, since samples come with requests. `Harness` assumes the
runner goes on, and that the kill timer, ingest, a running worker and Redis do
while they have anything to do; it does not assume that the deadline of
`wait_quiescent` or of a request ever passes, so the scenarios end without them, and
it forces no scenario to raise. After one that did there may be no worker, and
`EveryScenarioEnds` says nothing.
`LiveProxy` assumes the event loop runs what can run and that timers fire.
`Settlement` assumes that the attempt under way is answered (a timeout may come in
the answer's place and is never needed) and that a running reconciler goes on;
nothing is assumed of charges, webhooks or people.

## 4. Where code and comments disagree

The run `PipelineForgotten` ends in a counterexample to something the repository
says: with the database down up to and including the final `failed` mark, the
task is acked and the row stays `queued` with no message left. The docstring of
`tasks.py` says a failure must not be acked-and-forgotten. `NotStranded` and
`AckedEventsSettle` hold with exactly this case (`logged`) set apart.

More disagreements were met while translating; they have no run of their own:

* `tasks.py` calls replaying a posted event a no-op. For the event log it is not:
  the fee fetch comes before the unique constraints, and `_mark_status` does not
  look at the old status, so a failing replay turns `processed` into `failed`
  (`Replay`, `BuildRaises` and `DeadLetter` in `Pipeline`).
* Without a refunds list the dedupe key of a refund falls back to the charge, so a
  second partial refund is dropped as a duplicate, while `mapping.py` says it is a
  second transaction. `ProcessedIsPosted` holds (and is proved) under
  `KeysAreMovements`, which is what such payloads break.
* Of several unexpanded balance transactions of a dispute only the first one's fee
  is fetched; `mapping.py` calls the fee the sum. `NetMatchesStripe` holds, and is
  proved, under `FeeLearnable`, which sets these disputes apart.
* `agent.py:6-7` says that `approve_and_apply` "refuses anything the database itself
  would refuse". Its gate looks at the balance, the number of legs and the
  directions; an unknown account and a currency that is not its account's get past it
  and are refused by the database. `NoTriggerError` states what the comment at lines
  184-186 says and the code does: nothing that the deferred triggers refuse reaches
  them.
* The docstring of `_remaining` in `gcra.py` says "How many more requests would be
  admitted right now". The doubles make it one short at the edge of an interval: with
  rate 200, burst 2 and an empty key at `now = 1700000000.123457` the first caller is
  told 0 while a second request at that instant is admitted.
* `runner.py:54-55` expects PARTIAL_WRITE "to spend this whole budget". Since rows that
  are `queued` are recovered it does not (`FINDINGS.md:198-201` reports the drop), and
  `EveryScenarioEnds` shows that it ends without any timeout: the comment is stale.
* `DELAY` and `STALE_TIMESTAMP` are two labels, and a delay past the tolerance and a
  stale timestamp "describe the same observable" (`FINDINGS.md:474-479`): `Diagnosis`
  names both, and `EvidenceNamesFault` tells apart only the others.
* A comment in `reconcile_expected` says the diff and the invariant see the same
  snapshot; `_readonly` leaves the isolation level at READ COMMITTED, so each
  statement has its own. Every committed ledger balances, so nothing follows.

Three conditions to know when reading a result. A final `StripeError` with status 400
is a refusal only if Stripe did not ask for a retry: a 400 with
`Stripe-Should-Retry: true` (`test_egress.py:288`) may answer the last attempt while an
earlier one is still to be served and charges, and the exception carries the error's
code but not the header. `Refused` tells it by the code `lock_timeout`; a `post`
under a new key after it may charge twice. A scenario that raised is filed with
`breaks: []` whatever the ledger holds, so that a green record means something only
when it has no `error` (`summarize` counts these apart, as `scenarios_errored`; see
`GreenIsTrue`). And a limiter caller that stalls for the life of the lock (500 ms)
between reading and writing the TAT admits a request its successor has admitted too:
`Conforms` holds, and is proved, under `Timely`, which excludes that stall; `MaxStall =
2` in `GCRA.cfg` shows it.

Two things the code allows and says nothing about: a repair approved twice, or
approved before its webhook arrives after all, is posted twice, since it carries no
Stripe ids (`Approve`); and a reorder hold whose second wait expires too leaves the
handler with a TimeoutError, a 500 to Stripe and no log line, although the delivery
was sent (`HandlerRaises`).

## 5. Proofs

`tlapm` checks eight modules.

*PipelineProofs*, from `PayloadAssumption` and `BoundsAssumption` (every payload
carries its own id; the bounds are numbers; NULL and "no message" are neither events
nor messages), for any sets of events and processes. The inductive invariant is
`IInv`: types, `Holding` (the unacked message in hand is one worker's alone),
`LedgerInv` (one posting per key; a worker about to write `processed` has its key
posted), `NoMoneyInv` (`no_money_moved` is only said of an event with nothing to
post), `IngestInv` (a request past `check_and_record` works on a row that holds
the delivered event's key, and past the enqueue that row is covered) and
`NotStranded`. The last is not inductive alone: that `MarkQueued` may answer 200 rests
on `IngestInv`, and that acking strands nothing rests on `Holding`. Theorems:
`TypeCorrect`, `InductiveInvariant`, `AckedIsNotStranded`, `SettledIsFinal`,
`MovementPostedOnce` (given `MovementsAreKeyed`: events that report one movement
share a dedupe key), `ProcessedTellsTheTruth` (given `KeysAreMovements`: events
that share a key report one movement). The two conditions are exactly what the
event mapping owes the pipeline; the cfgs of the passing runs satisfy them.
`PipelineKeepsPromise` is the refinement of `MoneyPath`. One lemma per kind of step
(`Work...`) says what it does to the set of live messages: a publication adds its
event, the end of a task takes away at most its own, a retry takes nothing away
because the copy is published first, the late ack removes a message that was dead
already, and a message taken from its worker by the timeout or by a death is live
again even if only its ack was missing. From these and `IInv` every step is one of
the promise's or unseen; `LedgerInv` and `NoMoneyInv` carry the verdicts,
`IngestInv` the 200.

*LedgerPostProofs*, from `PostAssumption` and `IdsAssumption` (one id never names
two transactions: ids are uuid5 of the event or fresh uuid4). `IInv` adds to the
properties that rows a session has inserted passed their checks and conflict
with nothing committed or in flight. Theorems: `InductiveInvariant`,
`PostingIsAtomic`, `PostingIsUnique`, `OutcomeIsHonest`, and the refinement
`PostImplementsStore`: initial states map to initial states, and every statement
to an abstract step or a stutter, under the mapping that reads the committed
rows and each session's transaction and result. `BooksAlwaysBalance` says that
`invariant.check` finds every committed ledger balanced, for any chart of accounts
(`ChartAssumption`) and any transactions offered: the deferred triggers look at one
transaction and one entry currency, the check at the normal side of all accounts of
an account currency, and the composite foreign key is what makes the two the same.

*LedgerTheorems* holds what these proofs need of sums. The folds of the community
modules are recursive and the library's induction is out of reach, so
`SumFunctionOnSet` is handled by a smallest counterexample: among the finite sets on
which a claim fails there is one with no smaller one inside it (`Smallest`), and taking
one member away contradicts it. On top of this: sums over unions, classes and renamed
sets; an account's balance is the signed sum of its rows (`BalanceIs`); debit-normal
minus credit-normal balances are the net of a currency's rows (`NormalSumsNet`); a
transaction passes the trigger exactly when that net is zero (`BalancedIsZero`,
`ZeroIsBalanced`). It assumes of constants only that the chart is finite, that a normal
side is debit or credit, that the seeded names are strings (`SeedAssumption`) and that
NULL is no number (`NullAssumption`).

*EventMappingProofs*, from `EventAssumption`, for events of any amounts and fees. The
invariant `MapInv` says that a transaction that was built has the entries of its event
with a fee that is the one Stripe took, whether it was in the payload or fetched.
Theorems: `PostingMatchesStripe` (the entries on `stripe_balance` add up to what
Stripe's balance moved by) and `SaneEventsArePosted` (a movement that is real is
accepted by every constraint and trigger). The assumption says that events have the
shape Stripe gives them (one balance transaction for a charge, any list for a
dispute) and that the seeded accounts are there. The first theorem is about events with
`FeeLearnable`: of a dispute with several balance transactions that are not all
expanded the code fetches one (section 4), and there the identity is false. The
second is about any list.

*LimitsProofs*, on the limiter: from `LimiterAssumption` (for its types, and no more of
the rounding than that) and `Timely` (nobody stalls under the lock for as long as the lock
lives, nor longer than the slack in the TAT's expiry).
The invariant says that the stored TAT is at least
`log[i] + T * (Len(log) - i + 1)` for every admission `i`, that what a caller has
read under the lock is too, and that the TAT outlives its value by the slack;
the expiry between TIME and GET is why the slack is needed. Theorems:
`InductiveInvariant`, `LimiterConforms` (any `k` admissions span at least `k - 1`
intervals less the tolerance, both as rounded) and `LockExcludes`.

On the shedder: from `ShedderAssumption`, for any thresholds. The invariant says
that the two counters are the lengths of the runs at the head of the history
and that at the top level the sample before the calm run was critical. Theorems:
`ShedInductiveInvariant`, `CriticalIsLast`, `NeverFlaps`.

*LiveProxyProofs*, from `ProxyAssumption` (the bounds are numbers, a fault is one of
the proxy's), for any requests and any buffer size. `IInv` is `TypeOK` and three parts:
`HeldInv` (a held request is in the buffer, or in one flusher's batch, or in its own
coroutine's hands, never in two of these, and until then nothing of it was sent),
`SentInv` (how much of its plan was sent, by where its coroutine is) and `AnswerInv` (what was sent is in the plan, and a 200 to
Stripe stands for an accepted last delivery, except under DROP). The hard step is a
hold that expires while another request flushes the buffer. Theorems: `TypeCorrect`,
`OnceForwarded`, `UpstreamIsHonest`, `AttacksAreRefused`.

*SettlementProofs*, in three arguments.

* The client implements `ChargeOnce` (`ImplementsOnce`), from `EgressAssumption`, for
  any calls, retries and faults. `OnceInv` ties the idempotency cache to the money: a
  key with a cached 200 has moved its money, one without an answer or with a cached
  400 has not, nothing was moved twice, and a call's result is what the cache says or
  is unknown; a final 400 with the code `lock_timeout`, which is not cached, is unknown. That every
  attempt carries the key of its call is what makes the late service of an abandoned
  request harmless.
* The gate (`GateIsEnough`) and the score (`RepairRestoresBooks`), from
  `SettlementAssumption` (types of the histories and verdicts), for any proposal:
  `GateMirrorsTriggers` shows that the gate's sums by currency imply the triggers',
  `ApplyIsBalance` that the benchmark's arithmetic, leg by leg, is the view's,
  `BalancesAdd` that a posting adds its balance to the books.
* The reconciler (`ReportIsExact`, `NothingInvented`), for every page size, any number of
  charges, postings and repairs between two pages, and any retries. The inductive
  invariant `RecInv` numbers the balance transactions from the oldest, so that a number
  stays while the list grows at its front (`ListGrows`), and says: the page in hand is
  the stretch of the list behind the cursor, as it was served and still is (`ReaderInv`,
  `PageStays`); everything from the cursor up to the newest of the first page was
  compared, once, and nothing else (`ReadSoFar`); the cursors seen are behind the next
  one, so the guard against a cursor that does not advance never ends a report early
  (`MoreIs`); and everything that was loaded was on the list when the first page was
  served (`Covers`), because what is posted was listed before (`Booked`). The loop over
  a page is a fold; `CompareAllIs` gives it a closed form by the smallest-counterexample
  argument.

`HistoryAssumption` is what the last argument needs of the ledger to start from: what is
posted was committed, is about an object with a balance transaction, and is the only
posting about it. The pipeline leaves such a ledger when every refund carries its own id;
a refund without a refunds list is posted under its charge (section 4), and then two
postings compete for one balance transaction.

*HarnessProofs*, on the verdicts: from `StackAssumption` (one ingest process, one worker,
the seeded chart), `ScheduleAssumption`, `DrawAssumption`, `CopiesAssumption` (a duplicate
is sent at least once), `NoneAssumption` and what `PipelineProofs` assumes, for runs of
any length, any amounts drawn and any number of abandoned requests. The first half is
about plans alone, without a state:

* the harness's double-entry table and the mapping, two pieces of code written apart,
  agree on every kind of event (`FixturePosts`, through `TwoAgree` and `ThreeAgree`), so
  that the transaction of an event does to the balances what its fixture says
  (`EventPosts`, `ExpectedDelta`);
* every branch of `plan()` is a `GoodPlan` (`PlanIsGood`, one lemma per fault): a planned
  delivery is taken by ingest, refused as the plan says and recognizable by its evidence, or
  the twin of an event delivered before it; what moves money and is taken is what is
  expected to post, and nothing else is;
* no two scenarios of a run share a dedupe key or a transaction's (`FreshKeys`,
  `FreshTxns`);
* the effects of posted events add up (`DeltaUnion`), and a ledger of accepted
  transactions always balances (`BooksBalance`), so that `reset_ledger` is never needed.

The second half is the inductive invariant `HInv`, one conjunct after the other:
`RunnerInv` (which scenario is in hand, which are filed), `RequestInv` and `ResultInv`
(requests carry planned bytes, an answer says what ingest makes of them, and a 200 leaves
a row behind), `OriginInv` (nothing is in the log, the broker, a worker or the ledger
that a scenario so far did not send), `HealthyInv` (no task raises),
`CalmInv` (while no request was abandoned, only fixtures get past ingest: a twin is sent
when its original has a row), `QuietInv` (two idle polls mean that everything expected
is `processed`), `BooksInv` (what was posted between the two readings is the scenario's
own), `FiledInv` and `GreenPosted` (what is filed is about its scenario, and a green
scenario's keys are taken for good), together with Pipeline's `IInv` and two of the
properties themselves. None of the three properties is inductive alone: that a run is
judged green rests on the ledger having grown only by its own events, which rests on
the earlier runs being green and their keys taken. Theorems: `HarnessInvariant`,
`QuietIsGreen` (`GreenWhenCorrect`), `GreenIsFinal` (`GreenIsTrue`), `EvidenceIsEnough`
(`EvidenceNamesFault`). A scenario that raises is filed with nothing
(`CrashFiles`) and changes no book; what it leaves on the wire or in the broker is its
own, and a later green record stands in spite of it.

Only model-checked: the six liveness properties (`AckedEventsSettle`, `EveryCallEnds`,
`Converges`, `EveryScenarioEnds`, `EveryRequestAnswered`, `EveryRequestEnds`), because
fairness and ENABLED are beyond the prover. Every invariant and every action property
that a run checks, and the three refinements (`ImplementsStore`,
`ImplementsMoneyPath`, `ImplementsChargeOnce`), are proved.

## 6. Plan

1. Done: all parts of section 1 but configuration and observability, modelled and
   model-checked; every safety property that a run checks is proved, and the
   pipeline implements an abstract specification of its own.
2. Open: a republish by `self.retry` that fails inside Celery, and an approval given
   twice (the hazards without a property).

## 7. Not modelled

Left out for good: HMAC itself, JSON parsing, timestamps other than a signature's
and with them the `created_gte` window of the reconciler, backoff delays and jitter
(they change when, not what), parameter flattening, the append-only triggers and
grants (no statement of the program updates or deletes ledger rows, so they guard
against code that does not exist), metrics, tracing, configuration, prompts and the
shape of language-model requests, the benchmark's case loading, splits and scores apart from the
repair arithmetic, API batching, the harness's process launching, health probe,
`reset_each` option and command line, scripts and migrations tooling.
