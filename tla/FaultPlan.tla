----------------------------- MODULE FaultPlan ------------------------------
(***************************************************************************)
(* harness/faults.py, and scenarios.py's _params: the deliveries that      *)
(* inject one fault into a scenario's fixtures and the Expectation the     *)
(* ledger is judged by afterwards.  One operator per fault branch of       *)
(* plan(); `ts' is the signing time.  Seconds are whole: the kill delays   *)
(* of PARTIAL_WRITE are a race the Harness leaves open, so they are not    *)
(* kept.                                                                   *)
(***************************************************************************)
EXTENDS Fixtures, Signature

CONSTANT MaxCopies  \* cap on the n identical deliveries of a DUPLICATE fault

ASSUME CopiesAssumption == MaxCopies \in Nat \ {0}

ALL_FAULTS ==
  <<"DUPLICATE", "DUPLICATE_OBJECT", "CONCURRENT_DUPLICATE", "REORDER", "DELAY",
    "DROP", "RESPOND_500", "TAMPER_BODY", "TRUNCATE_BODY", "STALE_TIMESTAMP",
    "DOWNGRADE_SCHEME", "PARTIAL_WRITE", "SLOW_LORIS">>

DEFAULT_FAULTS == <<"NONE">> \o ALL_FAULTS

INVALID_SIGNATURE == "invalid signature"

_STALE_MARGIN_SECONDS == 60

Copies(n) == IF n < MaxCopies THEN n ELSE MaxCopies

(* The parameters a fault reads, by repeat number. *)
_params(fault, index) ==
  CASE fault = "DUPLICATE"            -> [n |-> Copies(2 + (index % 3))]
    [] fault = "CONCURRENT_DUPLICATE" -> [n |-> Copies(IF index % 2 = 0 THEN 8 ELSE 4)]
    [] fault = "DELAY"                -> [seconds |-> 4, past_tolerance |-> index % 2 = 1]
    [] fault = "STALE_TIMESTAMP"      -> [age_s |-> 600 + 300 * (index % 2)]
    [] fault = "SLOW_LORIS"           -> [hold_s |-> 2]
    [] OTHER                          -> <<>>

-----------------------------------------------------------------------------

serialize(fx) == [ev |-> fx.event, form |-> "intact"]

(* One digit changed inside data: still valid JSON. *)
_flip_one_byte(body) == [body EXCEPT !.form = "tampered"]

Truncated(body) == [body EXCEPT !.form = "truncated"]

Delivery(fx, body, sig) ==
  [body |-> body, sig |-> sig, event_id |-> fx.event.id, delay_before_s |-> 0,
   slow_loris_s |-> 0, expect_rejected |-> FALSE, expect_rejection_reason |-> NULL]

(* A correct, verifiable delivery. *)
_clean(fx, secret, ts) ==
  Delivery(fx, serialize(fx), sign(serialize(fx), secret, ts, {"v1"}))

Ids(fixtures) == {fixtures[k].event.id : k \in DOMAIN fixtures}

MovesMoney(fx) == fx.expected_delta # NoDelta

(* The ids of the fixtures that move money, which is all the plans use. *)
_money(fixtures) ==
  {fixtures[k].event.id : k \in {j \in DOMAIN fixtures : MovesMoney(fixtures[j])}}

_sum_delta(fixtures, posted) ==
  [a \in DOMAIN NoDelta |->
     SumFunctionOnSet([k \in DOMAIN fixtures |-> fixtures[k].expected_delta[a]],
                      {k \in DOMAIN fixtures : fixtures[k].event.id \in posted})]

Expectation(posted, rejected, delta) ==
  [posted |-> posted, rejected |-> rejected, balances_delta |-> delta,
   invariant_after |-> TRUE, recon |-> FALSE]

Plan(fault, deliveries, exp) ==
  [fault |-> fault, deliveries |-> deliveries, concurrent |-> FALSE,
   force_500 |-> FALSE, kills |-> FALSE, redeliver |-> TRUE, expectation |-> exp]

(* Everything of `posted' is to post, exactly once. *)
PostingPlan(fault, fixtures, deliveries, posted) ==
  Plan(fault, deliveries, Expectation(posted, {}, _sum_delta(fixtures, posted)))

TargetPosted(fixtures) == _money(<<fixtures[1]>>)

(* One delivery ingest must refuse, and refuse for its signature. *)
_rejected_plan(fault, fx, body, sig) ==
  Plan(fault,
       << [Delivery(fx, body, sig) EXCEPT
             !.expect_rejected = TRUE,
             !.expect_rejection_reason = INVALID_SIGNATURE] >>,
       Expectation({}, {fx.event.id}, NoDelta))

-----------------------------------------------------------------------------
(* The branches of plan(). *)

none(fixtures, secret, ts) ==
  PostingPlan("NONE", fixtures,
              [k \in DOMAIN fixtures |-> _clean(fixtures[k], secret, ts)],
              _money(fixtures))

duplicate(fault, fixtures, p, secret, ts) ==
  [PostingPlan(fault, fixtures, [k \in 1 .. p.n |-> _clean(fixtures[1], secret, ts)],
               TargetPosted(fixtures))
     EXCEPT !.concurrent = (fault = "CONCURRENT_DUPLICATE")]

(* A second Event object for the same state change. *)
Twin(fx) == [fx EXCEPT !.event.id = Append(@, "dup")]

duplicate_object(fixtures, secret, ts) ==
  PostingPlan("DUPLICATE_OBJECT", fixtures,
              <<_clean(fixtures[1], secret, ts), _clean(Twin(fixtures[1]), secret, ts)>>,
              TargetPosted(fixtures))

reorder(fixtures, secret, ts) ==
  PostingPlan("REORDER", fixtures,
              [k \in DOMAIN fixtures |->
                 _clean(fixtures[Len(fixtures) - k + 1], secret, ts)],
              _money(fixtures))

(* Held back; past the tolerance it is signed in the past instead. *)
delay(fixtures, p, secret, ts) ==
  LET fx == fixtures[1]
      stale_ts == ts - (DEFAULT_TOLERANCE_SECONDS + _STALE_MARGIN_SECONDS)
      posted == IF p.past_tolerance THEN {} ELSE TargetPosted(fixtures)
  IN  Plan("DELAY",
           << [_clean(fx, secret, IF p.past_tolerance THEN stale_ts ELSE ts) EXCEPT
                 !.delay_before_s = p.seconds,
                 !.expect_rejected = p.past_tolerance] >>,
           Expectation(posted, IF p.past_tolerance THEN {fx.event.id} ELSE {},
                       _sum_delta(fixtures, posted)))

(* Never delivered: only the reconciler can tell. *)
drop(fixtures) ==
  Plan("DROP", <<>>, [Expectation({}, {}, NoDelta) EXCEPT !.recon = TRUE])

(* Stripe sees a 500 and retries what ingest has already taken. *)
respond_500(fixtures, secret, ts) ==
  [PostingPlan("RESPOND_500", fixtures,
               [k \in 1 .. 2 |-> _clean(fixtures[1], secret, ts)],
               TargetPosted(fixtures))
     EXCEPT !.force_500 = TRUE]

tamper_body(fx, secret, ts) ==
  _rejected_plan("TAMPER_BODY", fx, _flip_one_byte(serialize(fx)),
                 sign(serialize(fx), secret, ts, {"v1"}))

truncate_body(fx, secret, ts) ==
  _rejected_plan("TRUNCATE_BODY", fx, Truncated(serialize(fx)),
                 sign(serialize(fx), secret, ts, {"v1"}))

stale_timestamp(fx, p, secret, ts) ==
  _rejected_plan("STALE_TIMESTAMP", fx, serialize(fx),
                 sign(serialize(fx), secret, ts - p.age_s, {"v1"}))

(* A correct v0 digest and nothing else. *)
downgrade_scheme(fx, secret, ts) ==
  _rejected_plan("DOWNGRADE_SCHEME", fx, serialize(fx),
                 sign(serialize(fx), secret, ts, {"v0"}))

partial_write(fixtures, secret, ts) ==
  [PostingPlan("PARTIAL_WRITE", fixtures, <<_clean(fixtures[1], secret, ts)>>,
               TargetPosted(fixtures))
     EXCEPT !.kills = TRUE]

slow_loris(fixtures, p, secret, ts) ==
  PostingPlan("SLOW_LORIS", fixtures,
              << [_clean(fixtures[1], secret, ts) EXCEPT !.slow_loris_s = p.hold_s] >>,
              TargetPosted(fixtures))

plan(s, secret, ts) ==
  LET fxs == s.fixtures
      p   == _params(s.fault, s.index)
  IN  CASE s.fault = "NONE"             -> none(fxs, secret, ts)
        [] s.fault \in {"DUPLICATE", "CONCURRENT_DUPLICATE"} ->
             duplicate(s.fault, fxs, p, secret, ts)
        [] s.fault = "DUPLICATE_OBJECT" -> duplicate_object(fxs, secret, ts)
        [] s.fault = "REORDER"          -> reorder(fxs, secret, ts)
        [] s.fault = "DELAY"            -> delay(fxs, p, secret, ts)
        [] s.fault = "DROP"             -> drop(fxs)
        [] s.fault = "RESPOND_500"      -> respond_500(fxs, secret, ts)
        [] s.fault = "TAMPER_BODY"      -> tamper_body(fxs[1], secret, ts)
        [] s.fault = "TRUNCATE_BODY"    -> truncate_body(fxs[1], secret, ts)
        [] s.fault = "STALE_TIMESTAMP"  -> stale_timestamp(fxs[1], p, secret, ts)
        [] s.fault = "DOWNGRADE_SCHEME" -> downgrade_scheme(fxs[1], secret, ts)
        [] s.fault = "PARTIAL_WRITE"    -> partial_write(fxs, secret, ts)
        [] s.fault = "SLOW_LORIS"       -> slow_loris(fxs, p, secret, ts)
=============================================================================
