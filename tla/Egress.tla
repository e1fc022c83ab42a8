------------------------------- MODULE Egress -------------------------------
(***************************************************************************)
(* stripe_io/client.py: the request loop of StripeEgressClient over a      *)
(* connection that times out, against a Stripe that caches its answers by  *)
(* idempotency key.  A request whose client stopped waiting may still be   *)
(* on the wire and be served later.                                        *)
(*                                                                         *)
(* The backoff sleep is not a state: a request sent stays on the wire for  *)
(* as long as it likes.  Parameter flattening, the texts of errors, the    *)
(* pooled connection and the count of replayed answers, a metric, are left *)
(* out.                                                                    *)
(***************************************************************************)
EXTENDS Integers, Sequences, FiniteSetsExt

CONSTANTS Posts,        \* calls of post(), each made at most once
          Reader,       \* whoever calls get(), one call after the other
          Amount, Fee,  \* what a call of post() charges and what Stripe takes
          max_retries,
          limit,        \* page size asked of /v1/balance_transactions
          MaxFaults,    \* bound: timeouts, 429, 5xx and unreadable answers
          lock_timeout, \* the error code of a 400 that asks for a retry
          None

ASSUME EgressAssumption ==
  /\ Reader \notin Posts
  /\ max_retries \in Nat
  /\ limit \in Nat \ {0}
  /\ MaxFaults \in Nat
  /\ Amount \in [Posts -> Int] /\ Fee \in [Posts -> Int]
  /\ None \notin Nat /\ None \notin Posts /\ lock_timeout # None

VARIABLES req,     \* call -> its _request loop, see Loop
          wire,    \* requests sent and not served
          cache,   \* Stripe: idempotency key -> the answer kept for it
          bts,     \* Stripe: balance transactions, newest first
          faults   \* faults so far

egressVars == <<req, wire, cache, bts, faults>>

(* A request loop: `attempt' counts from 0, `reply' is the answer to the
   attempt under way once it is here, `result' what the call returned or
   the StripeError it raised. *)
Loop(pc, attempt, query, reply, result) ==
  [pc |-> pc, attempt |-> attempt, query |-> query, reply |-> reply, result |-> result]

Idle == Loop("idle", 0, None, None, None)

(* An answer: status code, Stripe-Should-Retry ("" when absent), whether the
   body is readable JSON, and its content: of an error, the code. *)
Response(status, should_retry, readable, body) ==
  [status |-> status, should_retry |-> should_retry, readable |-> readable,
   body |-> body]

Fault == faults < MaxFaults /\ faults' = faults + 1

-----------------------------------------------------------------------------
(* The client. *)

(* Mutant: the key is minted where the request is sent. *)
IdempotencyKey_PerAttempt(c, attempt) ==
  IF c \in Posts THEN <<"uuid4", c, attempt>> ELSE None

(* Minted once per call of post(); a GET never carries one.  No caller in the
   repository passes post() a key of its own. *)
IdempotencyKey(c, attempt) == IF c \in Posts THEN <<"uuid4", c>> ELSE None

Send(c, attempt, query) ==
  [call |-> c, attempt |-> attempt, query |-> query,
   key |-> IdempotencyKey(c, attempt)]

Start(c, query) ==
  /\ req' = [req EXCEPT ![c] = Loop("waiting", 0, query, None, None)]
  /\ wire' = wire \cup {Send(c, 0, query)}
  /\ UNCHANGED <<cache, bts, faults>>

post(c) == c \in Posts /\ req[c].pc = "idle" /\ Start(c, None)

(* The caller of get() takes its result before it calls again. *)
get(query) == req[Reader].pc \in {"idle", "done"} /\ Start(Reader, query)

(* The header outranks the status code. *)
_retryable(response) ==
  CASE response.should_retry = "true"  -> TRUE
    [] response.should_retry = "false" -> FALSE
    [] OTHER                           -> response.status >= 500

(* Mutant: retry until an answer says otherwise. *)
last_attempt_Never(c) == FALSE

last_attempt(c) == req[c].attempt >= max_retries

(* A GET nobody waits for any more has no effect when it is served. *)
Abandoned(c) == {r \in wire : r.call # c \/ c \in Posts}

(* _error_from_response: the status and the error's code go with the exception,
   Stripe-Should-Retry does not. *)
StripeError(status_code, code) ==
  [ok |-> FALSE, status_code |-> status_code, code |-> code, body |-> None]

Success(body) == [ok |-> TRUE, status_code |-> 200, code |-> None, body |-> body]

Return(c, result) ==
  /\ req' = [req EXCEPT ![c] = Loop("done", @.attempt, @.query, None, result)]
  /\ wire' = Abandoned(c)

(* The same key, the same parameters.  The loop is over before attempt would
   pass max_retries. *)
Retry(c) ==
  LET n == Min({max_retries, req[c].attempt + 1}) IN
  /\ req' = [req EXCEPT ![c] = Loop("waiting", n, @.query, None, None)]
  /\ wire' = Abandoned(c) \cup {Send(c, n, req[c].query)}

(* httpx.TransportError: the request may still be on its way, to be served
   later or never, or it was served and the answer is lost. *)
TransportError(c) ==
  /\ req[c].pc \in {"waiting", "answered"}
  /\ Fault
  /\ IF last_attempt(c) THEN Return(c, StripeError(None, None)) ELSE Retry(c)
  /\ UNCHANGED <<cache, bts>>

(* A response. *)
Receive(c) ==
  LET r == req[c].reply IN
  /\ req[c].pc = "answered"
  /\ IF r.status = 200
     THEN Return(c, IF r.readable THEN Success(r.body) ELSE StripeError(200, None))
     ELSE IF ~ _retryable(r) \/ last_attempt(c)
          THEN Return(c, StripeError(r.status, r.body))
          ELSE Retry(c)
  /\ UNCHANGED <<cache, bts, faults>>

-----------------------------------------------------------------------------
(* Stripe, as the client's contract describes it. *)

Awaited(r) ==
  LET q == req[r.call] IN q.pc = "waiting" /\ r = Send(r.call, q.attempt, q.query)

(* The answer reaches the attempt that asked, if its client still waits. *)
Reply(r, response) ==
  req' = IF Awaited(r)
         THEN [req EXCEPT ![r.call] = Loop("answered", @.attempt, @.query, response, None)]
         ELSE req

Settle(c) ==
  bts' = << [id |-> Len(bts) + 1, source |-> <<"ch", Len(bts) + 1>>,
             amount |-> Amount[c], fee |-> Fee[c], call |-> c] >> \o bts

Keep(r, response) ==
  cache' = [k \in DOMAIN cache \cup {r.key} |->
              IF k = r.key THEN response ELSE cache[k]]

(* A key seen before gets its cached answer and has no effect. *)
ServeReplay(r) ==
  /\ r.key \in DOMAIN cache
  /\ Reply(r, cache[r.key])
  /\ UNCHANGED <<cache, bts, faults>>

(* The charge is made, whatever becomes of the answer. *)
ServeCharge(r) ==
  /\ Settle(r.call)
  /\ \E response \in {Response(200, "", TRUE, Len(bts) + 1),
                      Response(200, "", FALSE, None),
                      Response(500, "", TRUE, None)} :
       /\ IF response.status = 200 /\ response.readable
          THEN UNCHANGED faults ELSE Fault
       /\ Reply(r, response)
       /\ Keep(r, response)

(* The request is refused (400), or breaks before it had an effect. *)
ServeNothing(r) ==
  /\ \E response \in {Response(400, "", TRUE, None), Response(500, "", TRUE, None),
                      Response(500, "false", TRUE, None)} :
       /\ IF response.status = 400 THEN UNCHANGED faults ELSE Fault
       /\ Reply(r, response)
       /\ Keep(r, response)
  /\ UNCHANGED bts

(* Too many requests, or a 400 for a lock the request did not get: not looked
   at, not cached, and to be tried again under the same key. *)
ServeBusy(r) ==
  /\ Fault
  /\ \E response \in {Response(429, "true", TRUE, None),
                      Response(400, "true", TRUE, lock_timeout)} :
       Reply(r, response)
  /\ UNCHANGED <<cache, bts>>

(* starting_after: the place in the list of the item it names. *)
Place(starting_after) ==
  IF starting_after = None THEN 0
  ELSE CHOOSE k \in DOMAIN bts : bts[k].id = starting_after

(* The items behind that place, newest first. *)
Page(starting_after) ==
  LET p == Place(starting_after)
      q == IF p + limit < Len(bts) THEN p + limit ELSE Len(bts)
  IN  [data |-> SubSeq(bts, p + 1, q), has_more |-> p + limit < Len(bts)]

ServeList(r) ==
  /\ \/ Reply(r, Response(200, "", TRUE, Page(r.query))) /\ UNCHANGED faults
     \/ Reply(r, Response(500, "", TRUE, None)) /\ Fault
  /\ UNCHANGED <<cache, bts>>

Serve(r) ==
  /\ r \in wire
  /\ wire' = wire \ {r}
  /\ \/ r.call = Reader /\ ServeList(r)
     \/ r.call \in Posts /\ ServeReplay(r)
     \/ /\ r.call \in Posts /\ r.key \notin DOMAIN cache
        /\ ServeCharge(r) \/ ServeNothing(r) \/ ServeBusy(r)
=============================================================================
