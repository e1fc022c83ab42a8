----------------------------- MODULE LiveProxy ------------------------------
(***************************************************************************)
(* The live half of harness/proxy.py: make_proxy_app sits between          *)
(* `stripe listen' and ingest, injects one configured fault into every     *)
(* request and answers Stripe with ingest's own status.  The requests are  *)
(* coroutines of one event loop: a step is what runs between two awaits.   *)
(* Their lock is never awaited while held, so a section under it is part   *)
(* of the step.                                                            *)
(***************************************************************************)
EXTENDS Signature, SequencesExt

CONSTANTS Requests,  \* inbound requests, one event each
          Unsigned,  \* those that come without a Stripe-Signature
          Faults,    \* faults the proxy may be configured with
          Arrivals,  \* fault -> the requests that come under it
          Copies,    \* params["n"] of the DUPLICATE faults
          N,         \* params["n"] of REORDER: how many to buffer
          age_s,     \* params["age_s"] of STALE_TIMESTAMP
          NULL

(* The values of Fault; all of them can be configured in the live proxy. *)
LiveFaults ==
  {"NONE", "DUPLICATE", "DUPLICATE_OBJECT", "CONCURRENT_DUPLICATE", "REORDER",
   "DELAY", "DROP", "RESPOND_500", "TAMPER_BODY", "TRUNCATE_BODY",
   "STALE_TIMESTAMP", "DOWNGRADE_SCHEME", "PARTIAL_WRITE", "SLOW_LORIS"}

ASSUME ProxyAssumption ==
  /\ Unsigned \subseteq Requests
  /\ Faults \subseteq LiveFaults
  /\ Arrivals \in [Faults -> SUBSET Requests]
  /\ Copies \in Nat \ {0} /\ N \in Nat \ {0} /\ age_s \in Nat
  /\ NULL \notin Nat

Secret == "whsec"

Now == 10000  \* seconds matter to signatures only, and all requests are recent

VARIABLES
  fault, secret,  \* the configuration; secret may be NULL
  pc,       \* request -> where its coroutine is
  plan,     \* request -> its _LivePlan, NULL before
  n,        \* request -> deliveries its own forward_all has made
  results,  \* request -> results forward_all returned for its plan
  batch,    \* request -> what is left of the buffer it flushes
  buffer,   \* _Reorderer._buffer
  wire,     \* request -> the deliveries of its plan that were forwarded, each
            \* with the answer ingest gave (NULL: none was ever seen)
  reply,    \* request -> status Stripe was answered, NULL before
  log       \* requests with lines in the delivery log

vars == <<fault, secret, pc, plan, n, results, batch, buffer, wire, reply, log>>

Init ==
  /\ fault \in Faults
  /\ secret \in {Secret, NULL}
  /\ pc      = [r \in Requests |-> "new"]
  /\ plan    = [r \in Requests |-> NULL]
  /\ n       = [r \in Requests |-> 0]
  /\ results = [r \in Requests |-> <<>>]
  /\ batch   = [r \in Requests |-> <<>>]
  /\ buffer  = <<>>
  /\ wire    = [r \in Requests |-> <<>>]
  /\ reply   = [r \in Requests |-> NULL]
  /\ log     = {}

-----------------------------------------------------------------------------
(* What the fault makes of a request. *)

raw(r) == [ev |-> <<r>>, form |-> "intact"]

sig_header(r) == IF r \in Unsigned THEN NoSignature ELSE sign(raw(r), Secret, Now, {"v1"})

_flip_byte(body) == [body EXCEPT !.form = "tampered"]

Halved(body) == [body EXCEPT !.form = "truncated"]

(* Every v1 relabelled v0, its digest correct; items without "=" are gone. *)
_downgraded(sig) ==
  IF sig.v1 = {} THEN [sig |-> sig, applied |-> FALSE]
  ELSE [sig |-> [wellformed |-> TRUE, t |-> sig.t, v1 |-> {}, v0 |-> sig.v1],
        applied |-> TRUE]

(* Signed anew in the past, or only t moved when the secret is not known. *)
_backdated(sig, body) ==
  IF secret # NULL
  THEN [sig |-> sign(body, secret, Now - age_s, {"v1"}), applied |-> TRUE]
  ELSE IF sig.t = <<>> THEN [sig |-> sig, applied |-> FALSE]
  ELSE [sig |-> [sig EXCEPT !.wellformed = TRUE, !.t = <<Now - age_s>>],
        applied |-> TRUE]

(* The same movement under a new event id, signed anew. *)
_reissued(body) ==
  LET new == [body EXCEPT !.ev = Append(@, "dup")]
  IN  [body |-> new, sig |-> sign(new, secret, Now, {"v1"})]

_LivePlan(deliveries, applied) ==
  [deliveries |-> deliveries, applied |-> applied,
   force_500 |-> fault = "RESPOND_500"]

(* Delays and dribbled bodies are seconds, far inside the tolerance. *)
_live_plan(body, sig) ==
  LET once == << [body |-> body, sig |-> sig] >>
      resigned(h) == _LivePlan(<< [body |-> body, sig |-> h.sig] >>, h.applied)
  IN  CASE fault \in {"NONE", "REORDER", "DELAY", "RESPOND_500", "SLOW_LORIS"} ->
             _LivePlan(once, TRUE)
        [] fault \in {"DUPLICATE", "CONCURRENT_DUPLICATE"} ->
             _LivePlan([k \in 1 .. Copies |-> once[1]], TRUE)
        [] fault = "DUPLICATE_OBJECT" ->
             IF secret = NULL THEN _LivePlan(once, FALSE)
             ELSE _LivePlan(Append(once, _reissued(body)), TRUE)
        [] fault = "DROP"             -> _LivePlan(<<>>, TRUE)
        [] fault = "TAMPER_BODY"      ->
             _LivePlan(<< [body |-> _flip_byte(body), sig |-> sig] >>, TRUE)
        [] fault = "TRUNCATE_BODY"    ->
             _LivePlan(<< [body |-> Halved(body), sig |-> sig] >>, TRUE)
        [] fault = "STALE_TIMESTAMP"  -> resigned(_backdated(sig, body))
        [] fault = "DOWNGRADE_SCHEME" -> resigned(_downgraded(sig))
        [] fault = "PARTIAL_WRITE"    -> _LivePlan(once, FALSE)

-----------------------------------------------------------------------------
(* Forwarding. *)

(* Ingest's answers to a delivery (external): a refusal, or 200, or 500 when
   its own database or broker fails. *)
IngestAnswers(d) == IF Refusal(d.body, d.sig, Secret, Now) = "" THEN {200, 500} ELSE {400}

(* forward_one for the k-th delivery of q's plan.  The result has no status
   when httpx raises, whether or not ingest got the request. *)
forward_one(q, k) ==
  \E answer \in IngestAnswers(plan[q].deliveries[k]) \cup {NULL} :
    \E status \in {answer, NULL} :
      /\ wire' = [wire EXCEPT ![q] = Append(@, [d |-> plan[q].deliveries[k],
                                                answer |-> answer])]
      /\ results' = [results EXCEPT ![q] = Append(@, status)]

(* webhook and, for REORDER, _Reorderer.submit up to its first await. *)
Receive(r) ==
  LET held == Append(buffer, r) IN
  /\ pc[r] = "new"
  /\ r \in Arrivals[fault]
  /\ plan' = [plan EXCEPT ![r] = _live_plan(raw(r), sig_header(r))]
  /\ IF fault # "REORDER"
     THEN /\ pc' = [pc EXCEPT ![r] = "forward"]
          /\ UNCHANGED <<buffer, batch>>
     ELSE IF Len(held) >= N
     THEN /\ pc' = [pc EXCEPT ![r] = "flush"]
          /\ batch' = [batch EXCEPT ![r] = held]
          /\ buffer' = <<>>
     ELSE /\ pc' = [pc EXCEPT ![r] = "held"]
          /\ buffer' = held
          /\ UNCHANGED batch
  /\ UNCHANGED <<fault, secret, n, results, wire, reply, log>>

(* forward_all, one delivery after the other; those of a concurrent plan are
   identical, so their order does not matter. *)
Forward(r) ==
  /\ pc[r] = "forward"
  /\ n[r] < Len(plan[r].deliveries)
  /\ forward_one(r, n[r] + 1)
  /\ n' = [n EXCEPT ![r] = @ + 1]
  /\ UNCHANGED <<fault, secret, pc, plan, batch, buffer, reply, log>>

Forwarded(r) ==
  /\ pc[r] = "forward"
  /\ n[r] = Len(plan[r].deliveries)
  /\ pc' = [pc EXCEPT ![r] = "answer"]
  /\ UNCHANGED <<fault, secret, plan, n, results, batch, buffer, wire, reply, log>>

(* The flush forwards the batch last come first; held.done is set with the
   results. *)
Flush(r) ==
  LET last == Len(batch[r]) IN
  /\ pc[r] = "flush"
  /\ last > 0
  /\ forward_one(batch[r][last], 1)
  /\ batch' = [batch EXCEPT ![r] = SubSeq(@, 1, last - 1)]
  /\ UNCHANGED <<fault, secret, pc, plan, n, buffer, reply, log>>

Flushed(r) ==
  /\ pc[r] = "flush"
  /\ batch[r] = <<>>
  /\ pc' = [pc EXCEPT ![r] = "answer"]
  /\ UNCHANGED <<fault, secret, plan, n, results, batch, buffer, wire, reply, log>>

(* pending.done of a request somebody else flushes. *)
Done(r) == results[r] # <<>>

Woken(r) ==
  /\ pc[r] \in {"held", "again"}
  /\ Done(r)
  /\ pc' = [pc EXCEPT ![r] = "answer"]
  /\ UNCHANGED <<fault, secret, plan, n, results, batch, buffer, wire, reply, log>>

(* Mutant: a held request is never let go. *)
HoldExpires_Never(r) == FALSE /\ UNCHANGED vars

(* max_hold_s passed; the coroutine runs again some steps later. *)
HoldExpires(r) ==
  /\ pc[r] = "held"
  /\ ~ Done(r)
  /\ pc' = [pc EXCEPT ![r] = "expired"]
  /\ UNCHANGED <<fault, secret, plan, n, results, batch, buffer, wire, reply, log>>

Buffered(r) == \E k \in DOMAIN buffer : buffer[k] = r

(* Mutant: forwarded after the hold without a look at the buffer. *)
TakeBack_Blind(r) ==
  /\ pc[r] = "expired"
  /\ buffer' = SelectSeq(buffer, LAMBDA q : q # r)
  /\ pc' = [pc EXCEPT ![r] = "forward"]
  /\ UNCHANGED <<fault, secret, plan, n, results, batch, wire, reply, log>>

(* Still its own to forward ... *)
TakeBack(r) ==
  /\ pc[r] = "expired"
  /\ \E k \in DOMAIN buffer : buffer[k] = r /\ buffer' = RemoveAt(buffer, k)
  /\ pc' = [pc EXCEPT ![r] = "forward"]
  /\ UNCHANGED <<fault, secret, plan, n, results, batch, wire, reply, log>>

(* ... or a flush has claimed it: wait once more ... *)
WaitAgain(r) ==
  /\ pc[r] = "expired"
  /\ ~ Buffered(r)
  /\ pc' = [pc EXCEPT ![r] = "again"]
  /\ UNCHANGED <<fault, secret, plan, n, results, batch, buffer, wire, reply, log>>

(* ... and when that wait expires too its TimeoutError leaves the handler: a
   500 and no line in the log. *)
HandlerRaises(r) ==
  /\ pc[r] = "again"
  /\ ~ Done(r)
  /\ pc' = [pc EXCEPT ![r] = "done"]
  /\ reply' = [reply EXCEPT ![r] = 500]
  /\ UNCHANGED <<fault, secret, plan, n, results, batch, buffer, wire, log>>

(* Mutant: the first of several results decides. *)
upstream_First(r) ==
  IF plan[r].force_500 THEN 500
  ELSE IF results[r] = <<>> THEN 200
  ELSE IF results[r][1] = NULL THEN 502
  ELSE results[r][1]

upstream(r) ==
  IF plan[r].force_500 THEN 500
  ELSE IF results[r] = <<>> THEN 200
  ELSE IF results[r][Len(results[r])] = NULL THEN 502
  ELSE results[r][Len(results[r])]

(* The log lines, then the response. *)
Answer(r) ==
  /\ pc[r] = "answer"
  /\ pc' = [pc EXCEPT ![r] = "done"]
  /\ reply' = [reply EXCEPT ![r] = upstream(r)]
  /\ log' = log \cup {r}
  /\ UNCHANGED <<fault, secret, plan, n, results, batch, buffer, wire>>

-----------------------------------------------------------------------------

Running(r) ==
  \/ Forward(r)
  \/ Forwarded(r)
  \/ Flush(r)
  \/ Flushed(r)
  \/ Woken(r)
  \/ HoldExpires(r)
  \/ TakeBack(r)
  \/ WaitAgain(r)
  \/ HandlerRaises(r)
  \/ Answer(r)

Next == \E r \in Requests : Receive(r) \/ Running(r)

(* The event loop runs every coroutine that can run, httpx's timeouts end
   every forward, and the loop's timers fire.  Nothing makes Stripe send. *)
Spec == Init /\ [][Next]_vars /\ \A r \in Requests : WF_vars(Running(r))

-----------------------------------------------------------------------------
(* Properties. *)

(* Each delivery a plan holds reaches the wire at most once, and every one of
   an answered request exactly once, whether its own coroutine, another
   request's flush or an expired hold forwards it: a hold that expires while
   a flush has claimed the request must not send it again. *)
ForwardedOnce ==
  \A r \in Requests : pc[r] # "new" =>
    /\ Len(wire[r]) <= Len(plan[r].deliveries)
    /\ r \in log => Len(wire[r]) = Len(plan[r].deliveries)

(* Stripe is told 2xx, and so never retries, only when ingest took the last
   delivery of this very request; DROP alone lies, on purpose. *)
HonestUpstream ==
  \A r \in Requests : reply[r] = 200 /\ fault # "DROP" =>
    /\ wire[r] # <<>>
    /\ wire[r][Len(wire[r])].answer = 200

(* A signature attack that the log labels as applied is never accepted, with
   the endpoint secret or without, on signed and unsigned requests. *)
AttackRefused ==
  fault \in {"TAMPER_BODY", "TRUNCATE_BODY", "STALE_TIMESTAMP", "DOWNGRADE_SCHEME"} =>
    \A r \in Requests : \A k \in DOMAIN wire[r] :
      plan[r].applied => wire[r][k].answer \in {400, NULL}

(* Every request is answered in the end: one that waits in the buffer for
   others that never come is let go when its hold expires. *)
EveryRequestAnswered ==
  \A r \in Requests : (pc[r] # "new") ~> (reply[r] # NULL)
=============================================================================
