-------------------------- MODULE SettlementProofs --------------------------
(***************************************************************************)
(* The egress client keeps the promise of ChargeOnce, whatever the number  *)
(* of calls, retries and faults, and whatever else goes on around it.  The *)
(* repair gate mirrors the deferred triggers, and a repair that is scored  *)
(* as restoring the books does restore them.  The reconciler reads a list  *)
(* that grows under it and reports exactly what was on it when it began.   *)
(***************************************************************************)
EXTENDS Settlement, LedgerTheorems, SequenceTheorems, TLAPS

Calls == Posts \cup {Reader}

(* The key every attempt of c carries. *)
Key(c) == <<"uuid4", c>>

Charged(c) == \E k \in DOMAIN bts : bts[k].call = c

(* Not looked at. *)
Busy(response) ==
  \/ response.status = 429
  \/ response.status = 400 /\ response.body = lock_timeout

IsLoop(x) ==
  /\ x = Loop(x.pc, x.attempt, x.query, x.reply, x.result)
  /\ x.pc \in {"idle", "waiting", "answered", "done"}

(* The types of the egress client and of Stripe, as far as they matter: what
   is on the wire was sent by somebody. *)
EgressTypeOK ==
  /\ req = [c \in Calls |-> req[c]]
  /\ \A c \in Calls : IsLoop(req[c])
  /\ \A r \in wire : r.call \in Calls /\ r = Send(r.call, r.attempt, r.query)
  /\ bts \in Seq(BalanceTransaction)

(* What Stripe's cache knows of a call and what the call has been told. *)
ToldOf(c) ==
  /\ req[c].pc = "idle" =>
       Key(c) \notin DOMAIN cache /\ \A r \in wire : r.call # c
  /\ req[c].pc = "answered" =>
       \/ Busy(req[c].reply)
       \/ Key(c) \in DOMAIN cache /\ req[c].reply = cache[Key(c)]
  /\ req[c].pc = "done" =>
       /\ req[c].result.ok =>
            Key(c) \in DOMAIN cache /\ cache[Key(c)].status = 200
       /\ Refused(req[c].result) =>
            Key(c) \in DOMAIN cache /\ cache[Key(c)].status = 400

(* The cache tells whether the money of a call moved, and it moved once. *)
MovedOf(c) ==
  /\ \A j, k \in DOMAIN bts : bts[j].call = c /\ bts[k].call = c => j = k
  /\ Key(c) \notin DOMAIN cache => ~ Charged(c)
  /\ Key(c) \in DOMAIN cache =>
       /\ cache[Key(c)].status = 200 => Charged(c)
       /\ cache[Key(c)].status = 400 => ~ Charged(c)

OnceInv ==
  /\ EgressTypeOK
  /\ \A c \in Posts : ToldOf(c)
  /\ \A c \in Posts : MovedOf(c)

-----------------------------------------------------------------------------
(* The client's steps. *)

(* Every attempt of a call of post() carries the key of the call. *)
LEMMA SendKey ==
  ASSUME NEW c, NEW attempt, NEW query
  PROVE  /\ Send(c, attempt, query).call = c
         /\ Send(c, attempt, query)
              = Send(Send(c, attempt, query).call, Send(c, attempt, query).attempt,
                     Send(c, attempt, query).query)
         /\ c \in Posts => Send(c, attempt, query).key = Key(c)
BY DEF Send, IdempotencyKey, Key

(* A step of one call's loop: the others' loops stay, and what is sent is an
   attempt of this call. *)
LEMMA LoopStep ==
  ASSUME OnceInv, NEW c \in Calls, NEW x, IsLoop(x),
         x.pc \in {"waiting", "done"},
         req' = [req EXCEPT ![c] = x],
         \A r \in wire' : r \in wire \/ \E a, q : r = Send(c, a, q),
         UNCHANGED <<cache, bts>>,
         c \in Posts /\ x.pc = "done" =>
           /\ x.result.ok => Key(c) \in DOMAIN cache /\ cache[Key(c)].status = 200
           /\ Refused(x.result) =>
                Key(c) \in DOMAIN cache /\ cache[Key(c)].status = 400
  PROVE  OnceInv'
<1>1. EgressTypeOK /\ \A d \in Posts : ToldOf(d) /\ MovedOf(d)
  BY DEF OnceInv
<1>2. DOMAIN req = Calls
  BY <1>1 DEF EgressTypeOK
<1>3. req'[c] = x /\ \A d \in Calls : d # c => req'[d] = req[d]
  BY <1>2
<1>4. \A r \in wire' : /\ r.call \in Calls /\ r = Send(r.call, r.attempt, r.query)
                       /\ r.call # c => r \in wire
  BY <1>1, SendKey DEF EgressTypeOK
<1>5. EgressTypeOK'
  <2>1. req' = [d \in Calls |-> req'[d]]
    BY <1>2
  <2>2. \A d \in Calls : IsLoop(req'[d])
    BY <1>1, <1>3 DEF EgressTypeOK
  <2>3. bts' \in Seq(BalanceTransaction)
    BY <1>1 DEF EgressTypeOK
  <2> QED BY <1>4, <2>1, <2>2, <2>3 DEF EgressTypeOK
<1>6. ASSUME NEW d \in Posts PROVE ToldOf(d)' /\ MovedOf(d)'
  <2>1. ToldOf(d) /\ MovedOf(d) /\ d \in Calls
    BY <1>1 DEF Calls
  <2>2. MovedOf(d)'
    BY <2>1 DEF MovedOf, Charged
  <2>3. CASE d = c
    <3>1. req'[d] = x
      BY <1>3, <2>3
    <3> QED BY <2>2, <2>3, <3>1 DEF ToldOf
  <2>4. CASE d # c
    <3>1. req'[d] = req[d] /\ \A r \in wire' : r.call = d => r \in wire
      BY <1>3, <1>4, <2>1, <2>4
    <3> QED BY <2>1, <2>2, <3>1 DEF ToldOf
  <2> QED BY <2>3, <2>4
<1> QED BY <1>5, <1>6 DEF OnceInv

(* A call begins. *)
LEMMA StartStep == ASSUME OnceInv, NEW c \in Calls, NEW query, Start(c, query) PROVE OnceInv'
<1> DEFINE x == Loop("waiting", 0, query, None, None)
<1>1. IsLoop(x) /\ x.pc = "waiting"
  BY DEF Loop, IsLoop
<1>2. req' = [req EXCEPT ![c] = x] /\ UNCHANGED <<cache, bts>>
  BY DEF Start
<1>3. \A r \in wire' : r \in wire \/ \E a, q : r = Send(c, a, q)
  BY DEF Start
<1> HIDE DEF x
<1>4. x.pc \in {"waiting", "done"} /\ x.pc # "done"
  BY <1>1
<1> QED BY <1>1, <1>2, <1>3, <1>4, LoopStep

(* A call ends with what it was told. *)
LEMMA ReturnStep ==
  ASSUME OnceInv, NEW c \in Calls, NEW result, Return(c, result), UNCHANGED <<cache, bts>>,
         c \in Posts =>
           /\ result.ok => Key(c) \in DOMAIN cache /\ cache[Key(c)].status = 200
           /\ Refused(result) =>
                Key(c) \in DOMAIN cache /\ cache[Key(c)].status = 400
  PROVE  OnceInv'
<1> DEFINE x == Loop("done", req[c].attempt, req[c].query, None, result)
<1>1. IsLoop(x) /\ x.pc = "done" /\ x.result = result
  BY DEF Loop, IsLoop
<1>2. req' = [req EXCEPT ![c] = x] /\ \A r \in wire' : r \in wire
  BY DEF Return, Abandoned, OnceInv, EgressTypeOK
<1> HIDE DEF x
<1>3. c \in Posts /\ x.pc = "done" =>
        /\ x.result.ok => Key(c) \in DOMAIN cache /\ cache[Key(c)].status = 200
        /\ Refused(x.result) =>
             Key(c) \in DOMAIN cache /\ cache[Key(c)].status = 400
  BY <1>1, Zenon
<1>4. /\ x.pc \in {"waiting", "done"}
      /\ \A r \in wire' : r \in wire \/ \E a, q : r = Send(c, a, q)
  BY <1>1, <1>2
<1> QED BY <1>1, <1>2, <1>3, <1>4, LoopStep, ZenonT(30)

(* A call tries again under the same key. *)
LEMMA RetryStep ==
  ASSUME OnceInv, NEW c \in Calls, Retry(c), UNCHANGED <<cache, bts>>
  PROVE  OnceInv'
<1> DEFINE m == Min({max_retries, req[c].attempt + 1})
           x == Loop("waiting", m, req[c].query, None, None)
<1>1. IsLoop(x) /\ x.pc = "waiting"
  BY DEF Loop, IsLoop
<1> HIDE DEF m
<1>2. /\ req' = [req EXCEPT ![c] = x]
      /\ wire' = Abandoned(c) \cup {Send(c, m, req[c].query)}
  BY DEF Retry, OnceInv, EgressTypeOK, m
<1>3. \A r \in wire' : r \in wire \/ \E a, q : r = Send(c, a, q)
  BY <1>2 DEF Abandoned
<1> HIDE DEF x
<1> QED BY <1>1, <1>2, <1>3, LoopStep

(* A timeout: the loop ends in a StripeError without a status, or goes on. *)
LEMMA TransportErrorStep ==
  ASSUME OnceInv, NEW c \in Calls, TransportError(c) PROVE OnceInv'
<1>1. CASE last_attempt(c)
  <2>1. Return(c, StripeError(None, None)) /\ UNCHANGED <<cache, bts>>
    BY <1>1 DEF TransportError
  <2>2. ~ StripeError(None, None).ok /\ ~ Refused(StripeError(None, None))
    BY EgressAssumption DEF StripeError, Refused
  <2> QED BY <2>1, <2>2, ReturnStep
<1>2. CASE ~ last_attempt(c)
  BY <1>2, RetryStep DEF TransportError
<1> QED BY <1>1, <1>2

(* An answer: it came from the cache or is a 429 or a 400 that asks for a
   retry, so 200 and any other 400 are what the cache says. *)
LEMMA ReceiveStep == ASSUME OnceInv, NEW c \in Calls, Receive(c) PROVE OnceInv'
<1> DEFINE r == req[c].reply
<1>1. /\ req[c].pc = "answered" /\ UNCHANGED <<cache, bts>>
      /\ \/ r.status = 200 /\ r.readable /\ Return(c, Success(r.body))
         \/ r.status = 200 /\ ~ r.readable /\ Return(c, StripeError(200, None))
         \/ r.status # 200 /\ Return(c, StripeError(r.status, r.body))
         \/ Retry(c)
  BY DEF Receive
<1>2. /\ c \in Posts /\ r.status = 200 =>
           Key(c) \in DOMAIN cache /\ cache[Key(c)].status = 200
      /\ c \in Posts /\ r.status = 400 /\ r.body # lock_timeout =>
           Key(c) \in DOMAIN cache /\ cache[Key(c)].status = 400
  BY <1>1 DEF OnceInv, ToldOf, Busy
<1> HIDE DEF r
<1>3. /\ Success(r.body).ok /\ ~ StripeError(200, None).ok /\ ~ StripeError(r.status, r.body).ok
      /\ ~ Refused(Success(r.body)) /\ ~ Refused(StripeError(200, None))
      /\ Refused(StripeError(r.status, r.body)) => r.status = 400 /\ r.body # lock_timeout
  BY DEF Success, StripeError, Refused
<1>4. CASE r.status = 200 /\ r.readable /\ Return(c, Success(r.body))
  <2> DEFINE e == Success(r.body)
  <2>1. ~ Refused(e) /\ Return(c, e) /\ req[c].pc \in {"waiting", "answered"}
    BY <1>1, <1>3, <1>4
  <2>2. c \in Posts => Key(c) \in DOMAIN cache /\ cache[Key(c)].status = 200
    BY <1>2, <1>4
  <2> HIDE DEF e
  <2> QED BY <1>1, <2>1, <2>2, ReturnStep
<1>5. CASE r.status = 200 /\ ~ r.readable /\ Return(c, StripeError(200, None))
  BY <1>1, <1>2, <1>3, <1>5, ReturnStep
<1>6. CASE r.status # 200 /\ Return(c, StripeError(r.status, r.body))
  <2> DEFINE e == StripeError(r.status, r.body)
  <2>1. ~ e.ok /\ (Refused(e) => r.status = 400 /\ r.body # lock_timeout)
    BY <1>3
  <2>2. Return(c, e) /\ req[c].pc \in {"waiting", "answered"}
    BY <1>1, <1>6
  <2> HIDE DEF e
  <2>3. c \in Posts /\ Refused(e) => Key(c) \in DOMAIN cache /\ cache[Key(c)].status = 400
    BY <1>2, <2>1
  <2> QED BY <1>1, <2>1, <2>2, <2>3, ReturnStep
<1>7. CASE Retry(c)
  BY <1>1, <1>7, RetryStep
<1> QED BY <1>1, <1>4, <1>5, <1>6, <1>7

-----------------------------------------------------------------------------
(* Stripe's steps. *)

(* An answer from the cache, or one that asks for a retry, reaches at most the call it is for. *)
LEMMA ReplyStep ==
  ASSUME OnceInv, NEW r \in wire, NEW response, Reply(r, response),
         wire' = wire \ {r},
         \/ r.call \notin Posts
         \/ Busy(response)
         \/ Key(r.call) \in DOMAIN cache' /\ response = cache'[Key(r.call)],
         \A c \in Posts : Key(c) \in DOMAIN cache =>
           Key(c) \in DOMAIN cache' /\ cache'[Key(c)] = cache[Key(c)],
         \A c \in Posts : Key(c) \in DOMAIN cache' => c = r.call \/ Key(c) \in DOMAIN cache,
         bts' \in Seq(BalanceTransaction), \A c \in Posts : MovedOf(c)'
  PROVE  OnceInv'
<1> DEFINE d == r.call
           x == Loop("answered", req[d].attempt, req[d].query, response, None)
<1>1. EgressTypeOK /\ d \in Calls /\ \A c \in Posts : ToldOf(c)
  BY DEF OnceInv, EgressTypeOK
<1>2. IsLoop(x) /\ x.pc = "answered" /\ x.reply = response
  BY DEF Loop, IsLoop
<1>3. \/ req' = req
      \/ req[d].pc = "waiting" /\ req' = [req EXCEPT ![d] = x]
  BY <1>1 DEF Reply, Awaited, EgressTypeOK
<1> HIDE DEF x
<1>4. /\ DOMAIN req = Calls
      /\ \A c \in Calls : c # d => req'[c] = req[c]
      /\ req'[d] = req[d] \/ (req[d].pc = "waiting" /\ req'[d] = x)
  BY <1>1, <1>3 DEF EgressTypeOK
<1>5. EgressTypeOK'
  <2>1. req' = [c \in Calls |-> req'[c]]
    BY <1>1, <1>3 DEF EgressTypeOK
  <2>2. \A c \in Calls : IsLoop(req'[c])
    BY <1>1, <1>2, <1>4 DEF EgressTypeOK
  <2> QED BY <1>1, <2>1, <2>2 DEF EgressTypeOK
<1>6. ASSUME NEW c \in Posts PROVE ToldOf(c)'
  <2>1. ToldOf(c) /\ c \in Calls
    BY <1>1 DEF Calls
  <2>2. \A q \in wire' : q \in wire
    OBVIOUS
  <2>3. CASE req'[c] = req[c]
    BY <2>1, <2>2, <2>3 DEF ToldOf
  <2>4. CASE c = d /\ req'[d] = x
    BY <1>2, <2>4 DEF ToldOf
  <2> QED BY <1>4, <2>1, <2>3, <2>4
<1> QED BY <1>5, <1>6 DEF OnceInv

(* An answer that asks for a retry is neither cached nor the effect of anything. *)
LEMMA BusyStep ==
  ASSUME OnceInv, NEW r \in wire, NEW response, Reply(r, response), wire' = wire \ {r},
         Busy(response), UNCHANGED <<cache, bts>>
  PROVE  OnceInv'
<1>1. EgressTypeOK /\ \A c \in Posts : MovedOf(c)
  BY DEF OnceInv
<1>2. bts' \in Seq(BalanceTransaction) /\ \A c \in Posts : MovedOf(c)'
  BY <1>1 DEF EgressTypeOK, MovedOf, Charged
<1> QED BY <1>2, ReplyStep

(* Keeping the answer for a new key changes no other entry. *)
LEMMA KeepKey ==
  ASSUME NEW r, r.call \in Posts, r.key = Key(r.call), r.key \notin DOMAIN cache,
         NEW response, Keep(r, response)
  PROVE  /\ Key(r.call) \in DOMAIN cache' /\ cache'[Key(r.call)] = response
         /\ \A c \in Posts : c # r.call =>
              /\ Key(c) \in DOMAIN cache' <=> Key(c) \in DOMAIN cache
              /\ Key(c) \in DOMAIN cache => cache'[Key(c)] = cache[Key(c)]
<1>1. \A c \in Posts : c # r.call => Key(c) # r.key
  BY DEF Key
<1>2. cache' = [k \in DOMAIN cache \cup {r.key} |-> IF k = r.key THEN response ELSE cache[k]]
  BY DEF Keep
<1> QED BY <1>1, <1>2

(* A charge is the newest balance transaction; the others keep their order. *)
LEMMA SettleStep ==
  ASSUME EgressTypeOK, NEW c \in Posts, Settle(c)
  PROVE  /\ bts' \in Seq(BalanceTransaction)
         /\ Len(bts) \in Nat /\ DOMAIN bts = 1 .. Len(bts)
         /\ Len(bts') = Len(bts) + 1 /\ DOMAIN bts' = 1 .. Len(bts) + 1
         /\ bts'[1].call = c /\ bts'[1].id = Len(bts) + 1
         /\ \A k \in 1 .. Len(bts) : bts'[k + 1] = bts[k]
<1> DEFINE x == [id |-> Len(bts) + 1, source |-> <<"ch", Len(bts) + 1>>,
                 amount |-> Amount[c], fee |-> Fee[c], call |-> c]
<1>1. bts \in Seq(BalanceTransaction) /\ Len(bts) + 1 \in Nat
  BY DEF EgressTypeOK
<1>2. x \in BalanceTransaction /\ x.call = c /\ x.id = Len(bts) + 1
  <2>1. <<"ch", Len(bts) + 1>> \in SourceKinds \X Nat
    BY <1>1 DEF SourceKinds
  <2>2. Amount[c] \in Int /\ Fee[c] \in Int
    BY EgressAssumption
  <2>3. <<"ch", Len(bts) + 1>> \in {NULL} \cup (SourceKinds \X Nat)
    BY <2>1
  <2> QED BY <1>1, <2>2, <2>3 DEF BalanceTransaction
<1>3. bts' = <<x>> \o bts
  BY DEF Settle
<1> HIDE DEF x
<1>4. <<x>> \in Seq(BalanceTransaction) /\ Len(<<x>>) = 1 /\ <<x>>[1] = x
  BY <1>2
<1>5. /\ bts' \in Seq(BalanceTransaction) /\ Len(bts') = 1 + Len(bts)
      /\ \A i \in 1 .. 1 + Len(bts) : bts'[i] = IF i <= 1 THEN <<x>>[i] ELSE bts[i - 1]
  <2>1. /\ bts' \in Seq(BalanceTransaction) /\ Len(bts') = Len(<<x>>) + Len(bts)
        /\ \A i \in 1 .. Len(<<x>>) + Len(bts) :
             bts'[i] = IF i <= Len(<<x>>) THEN <<x>>[i] ELSE bts[i - Len(<<x>>)]
    BY <1>1, <1>3, <1>4, ConcatProperties, Zenon
  <2> QED BY <1>4, <2>1, Zenon
<1>6. bts'[1] = x
  BY <1>1, <1>4, <1>5
<1>7. ASSUME NEW k \in 1 .. Len(bts) PROVE bts'[k + 1] = bts[k]
  <2>1. k + 1 \in 1 .. 1 + Len(bts) /\ ~ (k + 1 <= 1) /\ k + 1 - 1 = k
    BY <1>1
  <2> QED BY <1>5, <2>1
<1>8. /\ Len(bts) \in Nat /\ DOMAIN bts = 1 .. Len(bts)
      /\ Len(bts') = Len(bts) + 1 /\ DOMAIN bts' = 1 .. Len(bts')
  BY <1>1, <1>5
<1> QED BY <1>2, <1>5, <1>6, <1>7, <1>8

(* A charge is never answered with a refusal. *)
LEMMA ChargeAnswer ==
  ASSUME NEW r, ServeCharge(r)
  PROVE  \E response : Reply(r, response) /\ Keep(r, response) /\ response.status # 400
<1> DEFINE paid == Response(200, "", TRUE, Len(bts) + 1)
           garbled == Response(200, "", FALSE, None)
           broken == Response(500, "", TRUE, None)
<1>1. paid.status # 400 /\ garbled.status # 400 /\ broken.status # 400
  BY DEF Response
<1>2. \E response \in {paid, garbled, broken} : Reply(r, response) /\ Keep(r, response)
  BY DEF ServeCharge
<1> HIDE DEF paid, garbled, broken
<1> QED BY <1>1, <1>2

(* None of the answers to what had no effect is a 200. *)
LEMMA NothingAnswer ==
  ASSUME NEW r, ServeNothing(r)
  PROVE  \E response : Reply(r, response) /\ Keep(r, response) /\ response.status # 200
<1> DEFINE refused == Response(400, "", TRUE, None)
           broken == Response(500, "", TRUE, None)
           final == Response(500, "false", TRUE, None)
<1>1. refused.status # 200 /\ broken.status # 200 /\ final.status # 200
  BY DEF Response
<1>2. \E response \in {refused, broken, final} : Reply(r, response) /\ Keep(r, response)
  BY ZenonT(30) DEF ServeNothing
<1> HIDE DEF refused, broken, final
<1> QED BY ONLY <1>1, <1>2

(* What is served, in one of five ways. *)
LEMMA ServeCases ==
  ASSUME NEW r \in wire, Serve(r)
  PROVE  \/ ServeList(r) \/ ServeReplay(r) \/ ServeNothing(r) \/ ServeBusy(r)
         \/ r.call \in Posts /\ r.key \notin DOMAIN cache /\ ServeCharge(r)
BY DEF Serve

(* Stripe serves a request, in time or late. *)
LEMMA ServeStep == ASSUME OnceInv, NEW r \in wire, Serve(r) PROVE OnceInv'
<1>1. /\ EgressTypeOK /\ \A c \in Posts : ToldOf(c) /\ MovedOf(c)
      /\ bts \in Seq(BalanceTransaction) /\ wire' = wire \ {r}
  BY DEF OnceInv, EgressTypeOK, Serve
<1>2. r.call \in Posts => r.key = Key(r.call)
  BY <1>1, SendKey DEF EgressTypeOK
<1>3. UNCHANGED <<cache, bts>> => \A c \in Posts : MovedOf(c)'
  BY <1>1 DEF MovedOf, Charged
<1>4. CASE r.call = Reader /\ ServeList(r)
  <2>1. UNCHANGED <<cache, bts>> /\ r.call \notin Posts
    BY <1>4, EgressAssumption DEF ServeList
  <2>2. \E response : Reply(r, response)
    BY <1>4 DEF ServeList
  <2> QED BY <1>1, <1>3, <2>1, <2>2, ReplyStep
<1>5. CASE r.call \in Posts /\ ServeReplay(r)
  <2>1. UNCHANGED <<cache, bts>> /\ Key(r.call) \in DOMAIN cache /\ Reply(r, cache[Key(r.call)])
    BY <1>2, <1>5 DEF ServeReplay
  <2> QED BY <1>1, <1>3, <2>1, ReplyStep
<1>6. CASE r.call \in Posts /\ r.key \notin DOMAIN cache /\ ServeBusy(r)
  <2>1. PICK response : Reply(r, response) /\ Busy(response)
    BY <1>6 DEF ServeBusy, Response, Busy
  <2>2. UNCHANGED <<cache, bts>>
    BY <1>6 DEF ServeBusy
  <2> QED BY <1>1, <2>1, <2>2, BusyStep
<1>7. CASE r.call \in Posts /\ r.key \notin DOMAIN cache /\ ServeNothing(r)
  <2>1. PICK response : Reply(r, response) /\ Keep(r, response) /\ response.status # 200
    BY <1>7, NothingAnswer
  <2>2. bts' = bts
    BY <1>7 DEF ServeNothing
  <2>3. /\ Key(r.call) \in DOMAIN cache' /\ cache'[Key(r.call)] = response
        /\ \A c \in Posts : c # r.call =>
             /\ Key(c) \in DOMAIN cache' <=> Key(c) \in DOMAIN cache
             /\ Key(c) \in DOMAIN cache => cache'[Key(c)] = cache[Key(c)]
    BY <1>2, <1>7, <2>1, KeepKey
  <2>4. ASSUME NEW c \in Posts PROVE MovedOf(c)'
    <3>1. MovedOf(c) /\ (Charged(c)' <=> Charged(c))
      BY <1>1, <2>2 DEF Charged
    <3>2. CASE c = r.call
      BY <1>2, <1>7, <2>1, <2>2, <2>3, <3>1, <3>2 DEF MovedOf
    <3>3. CASE c # r.call
      BY <2>2, <2>3, <3>1, <3>3 DEF MovedOf
    <3> QED BY <3>2, <3>3
  <2> QED BY <1>1, <1>2, <1>7, <2>1, <2>2, <2>3, <2>4, ReplyStep
<1>8. CASE r.call \in Posts /\ r.key \notin DOMAIN cache /\ ServeCharge(r)
  <2>1. PICK response : Reply(r, response) /\ Keep(r, response) /\ response.status # 400
    BY <1>8, ChargeAnswer
  <2>2. Settle(r.call)
    BY <1>8 DEF ServeCharge
  <2>3. /\ Key(r.call) \in DOMAIN cache' /\ cache'[Key(r.call)] = response
        /\ \A c \in Posts : c # r.call =>
             /\ Key(c) \in DOMAIN cache' <=> Key(c) \in DOMAIN cache
             /\ Key(c) \in DOMAIN cache => cache'[Key(c)] = cache[Key(c)]
    BY <1>2, <1>8, <2>1, KeepKey
  <2>4. /\ bts' \in Seq(BalanceTransaction)
        /\ Len(bts) \in Nat /\ DOMAIN bts = 1 .. Len(bts)
        /\ Len(bts') = Len(bts) + 1 /\ DOMAIN bts' = 1 .. Len(bts) + 1
        /\ bts'[1].call = r.call
        /\ \A k \in 1 .. Len(bts) : bts'[k + 1] = bts[k]
    BY <1>1, <1>8, <2>2, SettleStep
  <2>5. ASSUME NEW c \in Posts PROVE MovedOf(c)'
    <3>1. MovedOf(c)
      BY <1>1
    <3>2. \A k \in DOMAIN bts' : k # 1 => k - 1 \in DOMAIN bts /\ bts'[k] = bts[k - 1]
      <4> SUFFICES ASSUME NEW k \in DOMAIN bts', k # 1
                   PROVE  k - 1 \in DOMAIN bts /\ bts'[k] = bts[k - 1]
        OBVIOUS
      <4>1. k - 1 \in 1 .. Len(bts) /\ (k - 1) + 1 = k
        BY <2>4
      <4> QED BY <2>4, <4>1
    <3>3. CASE c = r.call
      <4>1. ~ Charged(c)
        BY <1>2, <1>8, <3>1, <3>3 DEF MovedOf
      <4>2. \A k \in DOMAIN bts' : bts'[k].call = c => k = 1
        BY <3>2, <4>1 DEF Charged
      <4>3. Charged(c)'
        BY <2>4, <3>3 DEF Charged
      <4> QED BY <2>1, <2>3, <3>3, <4>2, <4>3 DEF MovedOf
    <3>4. CASE c # r.call
      <4>1. \A k \in DOMAIN bts' : bts'[k].call = c => k # 1
        BY <2>4, <3>4
      <4>2. \A j, k \in DOMAIN bts' : bts'[j].call = c /\ bts'[k].call = c => j = k
        <5> SUFFICES ASSUME NEW j \in DOMAIN bts', NEW k \in DOMAIN bts',
                            bts'[j].call = c, bts'[k].call = c
                     PROVE  j = k
          OBVIOUS
        <5>1. /\ j - 1 \in DOMAIN bts /\ bts[j - 1].call = c
              /\ k - 1 \in DOMAIN bts /\ bts[k - 1].call = c
          BY <3>2, <4>1
        <5>2. j - 1 = k - 1
          BY <3>1, <5>1 DEF MovedOf
        <5>3. j \in Int /\ k \in Int
          BY <2>4
        <5> QED BY <5>2, <5>3
      <4>3. Charged(c)' => Charged(c)
        BY <3>2, <4>1 DEF Charged
      <4>4. Charged(c) => Charged(c)'
        <5> SUFFICES ASSUME NEW k \in DOMAIN bts, bts[k].call = c PROVE Charged(c)'
          BY DEF Charged
        <5>1. k + 1 \in DOMAIN bts' /\ bts'[k + 1] = bts[k]
          BY <2>4
        <5> QED BY <5>1 DEF Charged
      <4> QED BY <2>3, <3>1, <3>4, <4>2, <4>3, <4>4 DEF MovedOf
    <3> QED BY <3>3, <3>4
  <2> QED BY <1>1, <1>2, <1>8, <2>1, <2>3, <2>4, <2>5, ReplyStep
<1> QED BY <1>4, <1>5, <1>6, <1>7, <1>8 DEF Serve

-----------------------------------------------------------------------------
(* The specification. *)

(* Whatever else a step does, this is all it does to the client and to Stripe. *)
LEMMA EgressSteps ==
  ASSUME [Next]_vars
  PROVE  \/ UNCHANGED <<req, wire, cache, bts>>
         \/ \E c \in Posts : post(c)
         \/ \E query : get(query)
         \/ \E c \in Calls : TransportError(c)
         \/ \E c \in Calls : Receive(c)
         \/ \E r \in wire : Serve(r)
<1>1. CASE \E c \in Posts : post(c)
  BY <1>1
<1>2. CASE \E c \in Posts \cup {Reader} : ClientStep(c)
  BY <1>2 DEF ClientStep, Calls
<1>3. CASE \E r \in wire : Serve(r)
  BY <1>3
<1>4. CASE WorkerPosts
  BY <1>4 DEF WorkerPosts, egressVars
<1>5. CASE LoadLedger
  BY <1>5 DEF LoadLedger, egressVars
<1>6. CASE CheckInvariant
  BY <1>6 DEF CheckInvariant
<1>7. CASE TakePage
  BY <1>7 DEF TakePage, egressVars
<1>8. CASE ReconRaises
  BY <1>8 DEF ReconRaises, egressVars
<1>9. CASE Triage
  BY <1>9 DEF Triage, egressVars
<1>10. CASE \E who \in Approvers : Approve(who)
  BY <1>10 DEF Approve, egressVars
<1>11. CASE UNCHANGED vars
  BY <1>11 DEF vars, egressVars
<1> QED BY <1>1, <1>2, <1>3, <1>4, <1>5, <1>6, <1>7, <1>8, <1>9, <1>10, <1>11 DEF Next

(* Nothing was asked for yet: the balance transactions Stripe starts with have
   other causes. *)
LEMMA OnceStart == Init => OnceInv
<1> SUFFICES ASSUME Init PROVE OnceInv
  OBVIOUS
<1>1. PICK h \in Histories : bts = h.bts
  BY DEF Init
<1>2. bts \in Seq(BalanceTransaction) /\ \A k \in DOMAIN bts : bts[k].call = None
  BY <1>1, SettlementAssumption
<1>3. \A c \in Calls : req[c] = Idle
  BY DEF Init, Calls
<1>4. IsLoop(Idle) /\ Idle.pc = "idle"
  BY DEF IsLoop, Idle, Loop
<1>5. wire = {} /\ DOMAIN cache = {}
  BY DEF Init
<1>6. EgressTypeOK
  <2>1. req = [c \in Calls |-> req[c]]
    BY DEF Init, Calls
  <2> QED BY <1>2, <1>3, <1>4, <1>5, <2>1 DEF EgressTypeOK
<1>7. ASSUME NEW c \in Posts PROVE ToldOf(c)
  <2>1. req[c].pc = "idle"
    BY <1>3, <1>4 DEF Calls
  <2> QED BY <1>5, <2>1 DEF ToldOf
<1>8. ASSUME NEW c \in Posts PROVE MovedOf(c)
  <2>1. \A k \in DOMAIN bts : bts[k].call # c
    BY <1>2, EgressAssumption
  <2> QED BY <1>5, <2>1 DEF MovedOf, Charged
<1> QED BY <1>6, <1>7, <1>8 DEF OnceInv

(* Every step preserves the invariant of the egress client. *)
LEMMA OnceStep == OnceInv /\ [Next]_vars => OnceInv'
<1> SUFFICES ASSUME OnceInv, [Next]_vars PROVE OnceInv'
  OBVIOUS
<1>1. CASE UNCHANGED <<req, wire, cache, bts>>
  BY <1>1 DEF OnceInv, EgressTypeOK, ToldOf, MovedOf, Charged
<1>2. ASSUME NEW c \in Posts, post(c) PROVE OnceInv'
  BY <1>2, StartStep DEF post, Calls
<1>3. ASSUME NEW query, get(query) PROVE OnceInv'
  BY <1>3, StartStep DEF get, Calls
<1> QED BY <1>1, <1>2, <1>3, TransportErrorStep, ReceiveStep, ServeStep, EgressSteps

-----------------------------------------------------------------------------
(* The refinement. *)

OutcomeOf(x) ==
  CASE x.pc = "idle"                   -> "idle"
    [] x.pc \in {"waiting", "answered"} -> "pending"
    [] x.pc = "done"                   ->
         IF x.result.ok THEN "ok"
         ELSE IF Refused(x.result) THEN "refused" ELSE "unknown"

(* The outcome of a call depends on its loop alone. *)
LEMMA OutcomeIs == Outcome = [c \in Posts |-> OutcomeOf(req[c])]
BY DEF Outcome, OutcomeOf

(* Money moves at most once, so that the count is a yes or a no. *)
LEMMA MovedIs ==
  ASSUME NEW c \in Posts, MovedOf(c)
  PROVE  Moved[c] = IF Charged(c) THEN 1 ELSE 0
<1> DEFINE S == {k \in DOMAIN bts : bts[k].call = c}
<1>1. Moved[c] = Cardinality(S)
  BY DEF Moved
<1>2. CASE Charged(c)
  <2>1. PICK k \in DOMAIN bts : bts[k].call = c
    BY <1>2 DEF Charged
  <2>2. S = {k}
    BY <2>1 DEF MovedOf
  <2> QED BY <1>1, <1>2, <2>2, FS_Singleton
<1>3. CASE ~ Charged(c)
  <2>1. S = {}
    BY <1>3 DEF Charged
  <2> QED BY <1>1, <1>3, <2>1, FS_EmptySet
<1> QED BY <1>2, <1>3

(* The same of the next state. *)
LEMMA MovedIsNext ==
  (\A c \in Posts : MovedOf(c) => Moved[c] = IF Charged(c) THEN 1 ELSE 0)'
<1>1. \A c \in Posts : MovedOf(c) => Moved[c] = IF Charged(c) THEN 1 ELSE 0
  BY MovedIs
<1> QED BY <1>1, PTL

(* A step of one call's loop shows as a change of its outcome; a GET has none. *)
LEMMA OutcomeStep ==
  ASSUME OnceInv, NEW c \in Calls, NEW x, req' = [req EXCEPT ![c] = x]
  PROVE  /\ c \in Posts => Outcome' = [Outcome EXCEPT ![c] = OutcomeOf(x)]
         /\ c \notin Posts => Outcome' = Outcome
<1>1. DOMAIN req = Calls /\ Posts \subseteq Calls
  BY DEF OnceInv, EgressTypeOK, Calls
<1>2. req'[c] = x /\ \A d \in Posts : d # c => req'[d] = req[d]
  BY <1>1
<1>3. Outcome' = [d \in Posts |-> OutcomeOf(req'[d])]
  BY OutcomeIs DEF Outcome, OutcomeOf
<1> QED BY <1>2, <1>3, OutcomeIs

(* A retry does not show in the outcome. *)
LEMMA SameOutcome ==
  ASSUME OnceInv, NEW c \in Calls, NEW x, req' = [req EXCEPT ![c] = x],
         OutcomeOf(x) = OutcomeOf(req[c])
  PROVE  Outcome' = Outcome
<1>1. c \in Posts => [Outcome EXCEPT ![c] = OutcomeOf(x)] = Outcome
  BY OutcomeIs
<1> QED BY <1>1, OutcomeStep

(* The outcomes of the loops there are. *)
LEMMA LoopOutcome ==
  ASSUME NEW pc, NEW attempt, NEW query, NEW reply, NEW result
  PROVE  LET x == Loop(pc, attempt, query, reply, result) IN
         /\ x.pc = pc /\ x.result = result
         /\ pc \in {"waiting", "answered"} => OutcomeOf(x) = "pending"
         /\ pc = "done" /\ result.ok => OutcomeOf(x) = "ok"
         /\ pc = "done" /\ Refused(result) => OutcomeOf(x) = "refused"
         /\ pc = "done" /\ ~ result.ok /\ ~ Refused(result) => OutcomeOf(x) = "unknown"
BY DEF Loop, OutcomeOf, Refused

AbstractStep == [Once!OnceNext]_(Once!onceVars)

(* A step that shows nowhere. *)
LEMMA StutterIs == Moved' = Moved /\ Outcome' = Outcome => AbstractStep
BY DEF AbstractStep, Once!onceVars

(* Money moves by a new balance transaction only. *)
LEMMA SameMoved == bts' = bts => Moved' = Moved
BY DEF Moved

(* The call of post(). *)
LEMMA PostRefines == ASSUME OnceInv, NEW c \in Posts, post(c) PROVE AbstractStep
<1> DEFINE x == Loop("waiting", 0, None, None, None)
<1>1. req[c].pc = "idle" /\ req' = [req EXCEPT ![c] = x] /\ bts' = bts /\ c \in Calls
  BY DEF post, Start, Calls
<1>2. OutcomeOf(x) = "pending" /\ Outcome[c] = "idle"
  BY <1>1, LoopOutcome, OutcomeIs DEF OutcomeOf
<1> HIDE DEF x
<1>3. Outcome' = [Outcome EXCEPT ![c] = "pending"] /\ Moved' = Moved
  BY <1>1, <1>2, OutcomeStep, SameMoved
<1>4. Once!Call(c)
  BY <1>2, <1>3 DEF Once!Call
<1> QED BY <1>4 DEF AbstractStep, Once!OnceNext

(* A GET moves no money. *)
LEMMA GetRefines == ASSUME OnceInv, NEW query, get(query) PROVE AbstractStep
<1> DEFINE x == Loop("waiting", 0, query, None, None)
<1>1. req' = [req EXCEPT ![Reader] = x] /\ bts' = bts /\ Reader \in Calls /\ Reader \notin Posts
  BY EgressAssumption DEF get, Start, Calls
<1> HIDE DEF x
<1> QED BY <1>1, OutcomeStep, SameMoved, StutterIs

(* A further attempt changes nothing the caller sees. *)
LEMMA RetryRefines ==
  ASSUME OnceInv, NEW c \in Calls, req[c].pc \in {"waiting", "answered"}, Retry(c), bts' = bts
  PROVE  AbstractStep
<1> DEFINE m == Min({max_retries, req[c].attempt + 1})
           x == Loop("waiting", m, req[c].query, None, None)
<1> HIDE DEF m
<1>1. req' = [req EXCEPT ![c] = x]
  BY DEF Retry, OnceInv, EgressTypeOK, m
<1>2. OutcomeOf(x) = OutcomeOf(req[c])
  BY LoopOutcome DEF OutcomeOf
<1> HIDE DEF x
<1> QED BY <1>1, <1>2, SameOutcome, SameMoved, StutterIs

(* The end of a call, as the caller learns it. *)
LEMMA ReturnRefines ==
  ASSUME OnceInv, NEW c \in Calls, req[c].pc \in {"waiting", "answered"},
         NEW result, Return(c, result), UNCHANGED <<cache, bts>>,
         c \in Posts =>
           /\ result.ok => Key(c) \in DOMAIN cache /\ cache[Key(c)].status = 200
           /\ Refused(result) =>
                Key(c) \in DOMAIN cache /\ cache[Key(c)].status = 400
  PROVE  AbstractStep
<1> DEFINE x == Loop("done", req[c].attempt, req[c].query, None, result)
<1>1. req' = [req EXCEPT ![c] = x] /\ Moved' = Moved
  BY SameMoved DEF Return, OnceInv, EgressTypeOK
<1>2. /\ result.ok => OutcomeOf(x) = "ok"
      /\ Refused(result) => OutcomeOf(x) = "refused"
      /\ ~ result.ok /\ ~ Refused(result) => OutcomeOf(x) = "unknown"
  BY LoopOutcome
<1> HIDE DEF x
<1>3. CASE c \notin Posts
  BY <1>1, <1>3, OutcomeStep, StutterIs
<1>4. CASE c \in Posts
  <2>1. MovedOf(c) /\ Moved[c] = IF Charged(c) THEN 1 ELSE 0
    BY <1>4, MovedIs DEF OnceInv
  <2>2. Outcome[c] = "pending" /\ Outcome' = [Outcome EXCEPT ![c] = OutcomeOf(x)]
    <3>1. OutcomeOf(req[c]) = "pending"
      BY DEF OutcomeOf
    <3>2. Outcome[c] = "pending"
      BY <1>4, <3>1, OutcomeIs
    <3>3. Outcome' = [Outcome EXCEPT ![c] = OutcomeOf(x)]
      BY <1>1, <1>4, OutcomeStep
    <3> QED BY <3>2, <3>3
  <2>3. Once!End(c, OutcomeOf(x))
    BY <1>1, <2>2 DEF Once!End
  <2>4. CASE result.ok
    <3>1. Moved[c] = 1
      BY <1>4, <2>1, <2>4 DEF MovedOf
    <3>2. Once!Succeed(c)
      BY <1>2, <2>3, <2>4, <3>1 DEF Once!Succeed
    <3> QED BY <1>4, <3>2 DEF AbstractStep, Once!OnceNext
  <2>5. CASE Refused(result)
    <3>1. Moved[c] = 0
      BY <1>4, <2>1, <2>5 DEF MovedOf
    <3>2. Once!Refuse(c)
      BY <1>2, <2>3, <2>5, <3>1 DEF Once!Refuse
    <3> QED BY <1>4, <3>2 DEF AbstractStep, Once!OnceNext
  <2>6. CASE ~ result.ok /\ ~ Refused(result)
    <3>1. Once!GiveUp(c)
      BY <1>2, <2>3, <2>6 DEF Once!GiveUp
    <3> QED BY <1>4, <3>1 DEF AbstractStep, Once!OnceNext
  <2> QED BY <2>4, <2>5, <2>6
<1> QED BY <1>3, <1>4

(* A transport error: another attempt, or an unknown outcome. *)
LEMMA TransportErrorRefines ==
  ASSUME OnceInv, NEW c \in Calls, TransportError(c) PROVE AbstractStep
<1>1. req[c].pc \in {"waiting", "answered"} /\ UNCHANGED <<cache, bts>>
  BY DEF TransportError
<1>2. CASE last_attempt(c)
  <2>1. Return(c, StripeError(None, None))
    BY <1>2 DEF TransportError
  <2>2. ~ StripeError(None, None).ok /\ ~ Refused(StripeError(None, None))
    BY EgressAssumption DEF StripeError, Refused
  <2> QED BY <1>1, <2>1, <2>2, ReturnRefines
<1>3. CASE ~ last_attempt(c)
  BY <1>1, <1>3, RetryRefines DEF TransportError
<1> QED BY <1>2, <1>3

(* An answer received: another attempt, or an outcome. *)
LEMMA ReceiveRefines == ASSUME OnceInv, NEW c \in Calls, Receive(c) PROVE AbstractStep
<1> DEFINE r == req[c].reply
<1>1. /\ req[c].pc = "answered" /\ UNCHANGED <<cache, bts>>
      /\ \/ r.status = 200 /\ r.readable /\ Return(c, Success(r.body))
         \/ r.status = 200 /\ ~ r.readable /\ Return(c, StripeError(200, None))
         \/ r.status # 200 /\ Return(c, StripeError(r.status, r.body))
         \/ Retry(c)
  BY DEF Receive
<1>2. /\ c \in Posts /\ r.status = 200 =>
           Key(c) \in DOMAIN cache /\ cache[Key(c)].status = 200
      /\ c \in Posts /\ r.status = 400 /\ r.body # lock_timeout =>
           Key(c) \in DOMAIN cache /\ cache[Key(c)].status = 400
  BY <1>1 DEF OnceInv, ToldOf, Busy
<1> HIDE DEF r
<1>3. /\ Success(r.body).ok /\ ~ StripeError(200, None).ok /\ ~ StripeError(r.status, r.body).ok
      /\ ~ Refused(Success(r.body)) /\ ~ Refused(StripeError(200, None))
      /\ Refused(StripeError(r.status, r.body)) => r.status = 400 /\ r.body # lock_timeout
  BY DEF Success, StripeError, Refused
<1>4. CASE r.status = 200 /\ r.readable /\ Return(c, Success(r.body))
  <2> DEFINE e == Success(r.body)
  <2>1. ~ Refused(e) /\ Return(c, e) /\ req[c].pc \in {"waiting", "answered"}
    BY <1>1, <1>3, <1>4
  <2>2. c \in Posts => Key(c) \in DOMAIN cache /\ cache[Key(c)].status = 200
    BY <1>2, <1>4
  <2> HIDE DEF e
  <2> QED BY <1>1, <2>1, <2>2, ReturnRefines
<1>5. CASE r.status = 200 /\ ~ r.readable /\ Return(c, StripeError(200, None))
  BY <1>1, <1>2, <1>3, <1>5, ReturnRefines
<1>6. CASE r.status # 200 /\ Return(c, StripeError(r.status, r.body))
  <2> DEFINE e == StripeError(r.status, r.body)
  <2>1. ~ e.ok /\ (Refused(e) => r.status = 400 /\ r.body # lock_timeout)
    BY <1>3
  <2>2. Return(c, e) /\ req[c].pc \in {"waiting", "answered"}
    BY <1>1, <1>6
  <2> HIDE DEF e
  <2>3. c \in Posts /\ Refused(e) => Key(c) \in DOMAIN cache /\ cache[Key(c)].status = 400
    BY <1>2, <2>1
  <2> QED BY <1>1, <2>1, <2>2, <2>3, ReturnRefines
<1>7. CASE Retry(c)
  BY <1>1, <1>7, RetryRefines
<1> QED BY <1>1, <1>4, <1>5, <1>6, <1>7

(* An answer changes no outcome before the client has read it. *)
LEMMA ReplyOutcome ==
  ASSUME OnceInv, NEW r \in wire, NEW response, Reply(r, response)
  PROVE  Outcome' = Outcome
<1> DEFINE x == Loop("answered", req[r.call].attempt, req[r.call].query, response, None)
<1>1. r.call \in Calls
  BY DEF OnceInv, EgressTypeOK
<1>2. req' = req \/ (req[r.call].pc = "waiting" /\ req' = [req EXCEPT ![r.call] = x])
  BY <1>1 DEF Reply, Awaited, OnceInv, EgressTypeOK
<1>3. req[r.call].pc = "waiting" => OutcomeOf(x) = OutcomeOf(req[r.call])
  BY LoopOutcome DEF OutcomeOf
<1> HIDE DEF x
<1>4. req' = req => Outcome' = Outcome
  BY DEF Outcome
<1> QED BY <1>1, <1>2, <1>3, <1>4, SameOutcome

(* Only a charge moves money, and only of a call that was not refused. *)
LEMMA ServeRefines == ASSUME OnceInv, OnceInv', NEW r \in wire, Serve(r) PROVE AbstractStep
<1>1. \E response : Reply(r, response)
  <2>1. ServeList(r) => \E response : Reply(r, response)
    BY DEF ServeList
  <2>2. ServeReplay(r) => \E response : Reply(r, response)
    BY DEF ServeReplay
  <2>3. ServeNothing(r) => \E response : Reply(r, response)
    BY DEF ServeNothing
  <2>4. ServeBusy(r) => \E response : Reply(r, response)
    BY DEF ServeBusy
  <2>5. ServeCharge(r) => \E response : Reply(r, response)
    BY DEF ServeCharge
  <2> QED BY <2>1, <2>2, <2>3, <2>4, <2>5, ServeCases
<1>2. Outcome' = Outcome
  BY <1>1, ReplyOutcome
<1>3. CASE bts' = bts
  BY <1>2, <1>3, SameMoved, StutterIs
<1>4. CASE r.call \in Posts /\ r.key \notin DOMAIN cache /\ ServeCharge(r)
  <2> DEFINE c == r.call
  <2>1. EgressTypeOK /\ c \in Calls /\ ToldOf(c) /\ MovedOf(c) /\ r.key = Key(c)
    BY <1>4, SendKey DEF OnceInv, EgressTypeOK
  <2>2. Key(c) \notin DOMAIN cache /\ ~ Charged(c)
    BY <1>4, <2>1 DEF MovedOf
  <2>3. Outcome[c] \in {"pending", "unknown"}
    <3>1. req[c].pc # "idle" /\ req[c].pc \in {"idle", "waiting", "answered", "done"}
      BY <2>1 DEF ToldOf, EgressTypeOK, IsLoop
    <3>2. req[c].pc = "done" => ~ req[c].result.ok /\ ~ Refused(req[c].result)
      BY <2>1, <2>2 DEF ToldOf
    <3>3. Outcome[c] = OutcomeOf(req[c])
      BY <1>4, OutcomeIs
    <3> QED BY <3>1, <3>2, <3>3 DEF OutcomeOf
  <2>4. /\ Len(bts) \in Nat /\ DOMAIN bts = 1 .. Len(bts)
        /\ DOMAIN bts' = 1 .. Len(bts) + 1 /\ bts'[1].call = c
        /\ \A k \in 1 .. Len(bts) : bts'[k + 1] = bts[k]
    BY <1>4, <2>1, SettleStep DEF ServeCharge
  <2>5. Charged(c)' /\ \A d \in Posts : d # c => (Charged(d)' <=> Charged(d))
    <3>1. Charged(c)'
      BY <2>4 DEF Charged
    <3>2. ASSUME NEW d \in Posts, d # c, Charged(d) PROVE Charged(d)'
      <4>1. PICK k \in 1 .. Len(bts) : bts[k].call = d
        BY <2>4, <3>2 DEF Charged
      <4>2. k + 1 \in DOMAIN bts' /\ bts'[k + 1].call = d
        BY <2>4, <4>1
      <4> QED BY <4>2 DEF Charged
    <3>3. ASSUME NEW d \in Posts, d # c, Charged(d)' PROVE Charged(d)
      <4>1. PICK k \in 1 .. Len(bts) + 1 : bts'[k].call = d
        BY <2>4, <3>3 DEF Charged
      <4>2. k # 1
        BY <2>4, <3>3, <4>1
      <4>3. k - 1 \in 1 .. Len(bts) /\ (k - 1) + 1 = k
        BY <2>4, <4>2
      <4>4. bts[k - 1].call = d
        BY <2>4, <4>1, <4>3
      <4> QED BY <2>4, <4>3, <4>4 DEF Charged
    <3> QED BY <3>1, <3>2, <3>3
  <2>6. /\ \A d \in Posts : Moved[d] = IF Charged(d) THEN 1 ELSE 0
        /\ \A d \in Posts : Moved'[d] = IF Charged(d)' THEN 1 ELSE 0
    <3>1. ASSUME NEW d \in Posts PROVE Moved[d] = IF Charged(d) THEN 1 ELSE 0
      BY MovedIs DEF OnceInv
    <3>2. \A d \in Posts : MovedOf(d)'
      BY DEF OnceInv
    <3> QED BY <3>1, <3>2, MovedIsNext
  <2>7. Moved = [d \in Posts |-> Moved[d]] /\ Moved' = [d \in Posts |-> Moved'[d]]
    BY DEF Moved
  <2> HIDE DEF c
  <2>8. c \in Posts
    BY <1>4 DEF c
  <2>9. Moved[c] = 0 /\ Moved' = [Moved EXCEPT ![c] = 1]
    BY <2>2, <2>5, <2>6, <2>7, <2>8
  <2>10. Once!Move(c)
    BY <1>2, <2>3, <2>9 DEF Once!Move
  <2> QED BY <2>8, <2>10 DEF AbstractStep, Once!OnceNext
<1>5. bts' = bts \/ (r.call \in Posts /\ r.key \notin DOMAIN cache /\ ServeCharge(r))
  <2>1. ServeList(r) \/ ServeReplay(r) \/ ServeNothing(r) \/ ServeBusy(r) => bts' = bts
    BY DEF ServeList, ServeReplay, ServeNothing, ServeBusy
  <2> QED BY <2>1, ServeCases
<1> QED BY <1>3, <1>4, <1>5

(* Through timeouts, late and repeated requests, 5xx answers that had an
   effect, 429s, 400s that ask for a retry and unreadable bodies, one call of
   StripeEgressClient.post() moves its money at most once; a returned answer
   means that it moved and a 400 that it never will, except one with the code
   lock_timeout: for any number of calls and retries, whatever the reconciler,
   the worker and the approvals do meanwhile. *)
THEOREM ImplementsOnce == Spec => ImplementsChargeOnce
<1>1. Init => Once!OnceInit
  <2> SUFFICES ASSUME Init PROVE Once!OnceInit
    OBVIOUS
  <2>1. OnceInv
    BY OnceStart
  <2>2. \A c \in Posts : Moved[c] = IF Charged(c) THEN 1 ELSE 0
    BY <2>1, MovedIs DEF OnceInv
  <2>3. ASSUME NEW c \in Posts PROVE req[c].pc = "idle" /\ ~ Charged(c)
    <3>1. req[c].pc = "idle" /\ Key(c) \notin DOMAIN cache
      BY DEF Init, Idle, Loop
    <3> QED BY <2>1, <3>1 DEF OnceInv, MovedOf
  <2>4. Moved = [c \in Posts |-> Moved[c]]
    BY DEF Moved
  <2>5. Outcome = [c \in Posts |-> "idle"]
    BY <2>3, OutcomeIs DEF OutcomeOf
  <2> QED BY <2>2, <2>3, <2>4, <2>5 DEF Once!OnceInit
<1>2. OnceInv /\ OnceInv' /\ [Next]_vars => AbstractStep
  <2> SUFFICES ASSUME OnceInv, OnceInv', [Next]_vars PROVE AbstractStep
    OBVIOUS
  <2>1. CASE UNCHANGED <<req, wire, cache, bts>>
    BY <2>1, StutterIs DEF Moved, Outcome
  <2> QED BY <2>1, PostRefines, GetRefines, TransportErrorRefines, ReceiveRefines,
             ServeRefines, EgressSteps
<1> QED BY <1>1, <1>2, OnceStart, OnceStep, PTL
        DEF Spec, ImplementsChargeOnce, Once!OnceSpec, AbstractStep
-----------------------------------------------------------------------------
(* The repair gate. *)

(* A sequence of entries as rows. *)
LEMMA RepairRows ==
  ASSUME NEW es \in Seq(RepairEntry)
  PROVE  Rows(es) /\ DOMAIN es = 1 .. Len(es) /\ Len(es) \in Nat
         /\ Cardinality(DOMAIN es) = Len(es)
<1>1. DOMAIN es = 1 .. Len(es) /\ Len(es) \in Nat
      /\ \A k \in DOMAIN es : es[k] \in RepairEntry
  OBVIOUS
<1>2. IsFiniteSet(1 .. Len(es)) /\ Cardinality(1 .. Len(es)) = Len(es)
  BY <1>1, FS_Interval
<1>3. \A k \in DOMAIN es : es[k].amount \in Int
  BY <1>1 DEF RepairEntry
<1> QED BY <1>1, <1>2, <1>3 DEF Rows

(* _repair_is_balanced of agent.py nets each currency to zero; the triggers
   compare two totals.  For entries with a direction they agree. *)
LEMMA GateMirrorsTriggers ==
  ASSUME NEW es \in Seq(RepairEntry)
  PROVE  repair_is_balanced(es) => DeferredTriggersPass(es)
<1> SUFFICES ASSUME repair_is_balanced(es) PROVE DeferredTriggersPass(es)
  OBVIOUS
<1>1. Rows(es) /\ Len(es) \in Nat /\ Cardinality(DOMAIN es) = Len(es)
  BY RepairRows
<1>2. Len(es) >= 2 /\ Sides(es)
  BY DEF repair_is_balanced, Sides, Directions
<1>3. assert_txn_min_entries(es)
  BY <1>1, <1>2 DEF assert_txn_min_entries
<1>4. ASSUME NEW cur \in {es[k].currency : k \in DOMAIN es}
      PROVE  SideTotal(es, "debit", cur) = SideTotal(es, "credit", cur)
  <2> DEFINE S == DOMAIN es
             R == InCur(es, cur)
             f == Signed(es)
             g == [k \in DOMAIN es |->
                     IF es[k].currency # cur THEN 0
                     ELSE IF es[k].dir = "debit" THEN es[k].amount ELSE - es[k].amount]
  <2>1. SumFunction(g) = 0
    BY DEF repair_is_balanced
  <2>2. SumFunction(g) = SumFunctionOnSet(g, S)
    BY DEF SumFunction
  <2>3. R \subseteq S /\ IsFiniteSet(S) /\ Ints(f, R)
    BY <1>1 DEF InCur, Rows, Ints, Signed
  <2>4. \A k \in S : g[k] = IF k \in R THEN f[k] ELSE 0
    BY DEF InCur, Signed
  <2>5. Net(es, R) = SumFunctionOnSet(f, R)
    BY DEF Net
  <2> HIDE DEF R, S, f, g
  <2>6. SumFunctionOnSet(f, R) = SumFunctionOnSet(g, S)
    BY <2>3, <2>4, SumFilter
  <2>7. Net(es, InCur(es, cur)) = 0
    BY <2>1, <2>2, <2>5, <2>6 DEF R
  <2> QED BY <1>1, <1>2, <2>7, ZeroIsBalanced
<1> QED BY <1>3, <1>4 DEF DeferredTriggersPass, assert_txn_balanced

(* What a person is asked to approve is what some model proposed. *)
ProposalOK == proposal \in Verdicts \cup {NULL}

(* Only a triage result becomes a proposal. *)
LEMMA ProposalStep == ProposalOK /\ [Next]_vars => ProposalOK'
<1> SUFFICES ASSUME ProposalOK, [Next]_vars PROVE ProposalOK'
  OBVIOUS
<1>1. TriageResults \subseteq Verdicts \cup {NULL}
  BY DEF TriageResults, triage
<1>2. proposal' = proposal \/ proposal' \in TriageResults \ {NULL}
  BY DEF Next, vars, bookVars, WorkerPosts, LoadLedger, CheckInvariant, TakePage,
     ReconRaises, Triage, Approve
<1> QED BY <1>1, <1>2 DEF ProposalOK

(* The comment at agent.py:184-186, for every proposal a model can make: what the
   gate lets through, the deferred triggers let through.  Row checks and account
   names are not the gate's and may still refuse it. *)
THEOREM GateIsEnough == Spec => []NoTriggerError
<1>1. Init => ProposalOK
  BY DEF Init, ProposalOK
<1>2. ProposalOK => NoTriggerError
  <2> SUFFICES ASSUME ProposalOK, proposal # NULL, NEW who \in Approvers
               PROVE  approve_and_apply(proposal, who) # "trigger"
    BY DEF NoTriggerError
  <2>1. proposal.proposed_repair \in Seq(RepairEntry)
    BY SettlementAssumption DEF ProposalOK
  <2>2. repair_is_balanced(proposal.proposed_repair)
          => DeferredTriggersPass(proposal.proposed_repair)
    BY <2>1, GateMirrorsTriggers
  <2> QED BY <2>2 DEF approve_and_apply, RepairRejected
<1>3. QED
  BY <1>1, <1>2, ProposalStep, PTL DEF Spec

-----------------------------------------------------------------------------
(* The balances a repair leads to. *)

BooksOK == IsFiniteSet(ledger) /\ \A t \in ledger : Rows(t.entries)

(* What the worker posts for a payment. *)
LEMMA ChargeRows ==
  ASSUME NEW bt \in BalanceTransaction
  PROVE  /\ ChargeTxn(bt).event = <<"charge.succeeded", bt.id>>
         /\ ChargeTxn(bt).object = bt.source /\ ChargeTxn(bt).type = "charge.succeeded"
         /\ ChargeTxn(bt).entries \in Seq(EntryRow)
<1> DEFINE ev == PaymentEvent(bt, "charge.succeeded")
           b == [expanded |-> TRUE, fee |-> bt.fee]
<1>1. bt.amount \in Int /\ bt.fee \in Int
  BY DEF BalanceTransaction
<1>2. /\ ev.id = <<"charge.succeeded", bt.id>> /\ ev.type = "charge.succeeded"
      /\ ev.object = [id |-> bt.source, currency |-> "USD", amount |-> bt.amount,
                      amount_refunded |-> 0, refunds |-> <<>>, bts |-> <<b>>]
      /\ ev.object.bts = <<b>>
  BY Zenon DEF PaymentEvent
<1>3. "USD" \in STRING
  BY SeedAssumption DEF SeedChart
<1>4. RefundAmount(ev.object) = 0
  BY <1>2 DEF RefundAmount, _newest_refund
<1>5. FeeSum(<<b>>) = bt.fee
  BY <1>1, OneFee
<1>6. AllExpanded(<<b>>)
  BY DEF AllExpanded
<1> HIDE DEF ev
<1>7. PayloadFee(ev.object, NULL) = bt.fee
  <2>1. ev.object.bts = <<b>>
    BY <1>2
  <2> HIDE DEF b
  <2> QED BY <1>5, <1>6, <2>1 DEF PayloadFee
<1>8. Entries(ev, bt.fee) \in Seq(EntryRow)
  <2>1. ev.object.currency = "USD" /\ ev.object.amount = bt.amount
    BY <1>2
  <2>2. ev.type \in MappedTypes
    BY <1>2 DEF MappedTypes
  <2> QED BY <1>1, <1>3, <1>4, <2>1, <2>2, EntriesAreRows
<1>9. ev.object # NULL /\ bt.fee # NULL
  <2>1. bt.source \in {NULL} \cup (SourceKinds \X Nat)
    BY DEF BalanceTransaction
  <2>2. <<b>> \in Seq([expanded : {TRUE}, fee : Int])
    BY <1>1
  <2>3. ev.object \in PaymentObject
    BY <1>1, <1>2, <2>1, <2>2 DEF PaymentObject
  <2>4. NULL \notin PaymentObject
    BY SettlementAssumption
  <2> QED BY <1>1, <2>3, <2>4, NullAssumption
<1>10. build_transaction(ev, NULL)
         = [id |-> <<"uuid5", ev.id>>, event |-> ev.id,
            object |-> money_movement_object_id(ev), type |-> ev.type,
            entries |-> Entries(ev, bt.fee)]
  BY <1>2, <1>7, <1>9 DEF build_transaction, MappedTypes, FeeBearingTypes
<1>11. money_movement_object_id(ev) = bt.source
  BY <1>2, <1>9 DEF money_movement_object_id
<1> QED BY <1>2, <1>8, <1>10, <1>11 DEF ChargeTxn, ev

(* What each step does to the ledger. *)
LEMMA LedgerStep ==
  ASSUME OnceInv, [Next]_vars
  PROVE  \/ ledger' = ledger
         \/ \E bt \in BalanceTransaction : ledger' = ledger \cup {ChargeTxn(bt)}
         \/ \E who \in Approvers : Approve(who)
<1>1. CASE WorkerPosts
  <2>1. PICK k \in Payments, type \in ReportedAs :
          /\ type \in HANDLED_EVENT_TYPES
          /\ ledger' = ledger \cup {build_transaction(PaymentEvent(bts[k], type), NULL)}
    BY <1>1 DEF WorkerPosts
  <2>2. type = "charge.succeeded"
    BY <2>1 DEF ReportedAs, HANDLED_EVENT_TYPES
  <2>3. bts[k] \in BalanceTransaction
    BY DEF Payments, OnceInv, EgressTypeOK
  <2> QED BY <2>1, <2>2, <2>3 DEF ChargeTxn
<1>2. CASE ~ WorkerPosts
  BY <1>2 DEF Next, vars, bookVars, LoadLedger, CheckInvariant, TakePage, ReconRaises, Triage
<1> QED BY <1>1, <1>2

(* The transaction an approval posts. *)
LEMMA ApprovedRows ==
  ASSUME ProposalOK, NEW who, Approve(who)
  PROVE  \E n : /\ ledger' = ledger \cup {RepairTxn(n, proposal)}
               /\ RepairTxn(n, proposal).entries = proposal.proposed_repair
               /\ proposal.proposed_repair \in Seq(RepairEntry)
<1>1. proposal \in Verdicts /\ ledger' = ledger \cup {RepairTxn(Cardinality(Repairs), proposal)}
  BY DEF ProposalOK, Approve
<1> QED BY <1>1, SettlementAssumption DEF RepairTxn

(* Entries stay integer rows. *)
LEMMA BooksStep ==
  ASSUME OnceInv, ProposalOK, BooksOK, [Next]_vars
  PROVE  BooksOK'
<1>1. CASE ledger' = ledger
  BY <1>1 DEF BooksOK
<1>2. ASSUME NEW t, Rows(t.entries), ledger' = ledger \cup {t} PROVE BooksOK'
  BY <1>2, FS_AddElement DEF BooksOK
<1>3. ASSUME NEW bt \in BalanceTransaction, ledger' = ledger \cup {ChargeTxn(bt)}
      PROVE  BooksOK'
  <2>1. Rows(ChargeTxn(bt).entries)
    BY ChargeRows, SeqRows
  <2> QED BY <1>2, <1>3, <2>1
<1>4. ASSUME NEW who \in Approvers, Approve(who) PROVE BooksOK'
  <2>1. PICK n : /\ ledger' = ledger \cup {RepairTxn(n, proposal)}
                 /\ RepairTxn(n, proposal).entries = proposal.proposed_repair
                 /\ proposal.proposed_repair \in Seq(RepairEntry)
    BY <1>4, ApprovedRows
  <2>2. Rows(RepairTxn(n, proposal).entries)
    BY <2>1, RepairRows
  <2> QED BY <1>2, <2>1, <2>2
<1> QED BY <1>1, <1>3, <1>4, LedgerStep

(* One more transaction adds its own balances. *)
LEMMA BalancesAdd ==
  ASSUME NEW txns, IsFiniteSet(txns), \A t \in txns : Rows(t.entries),
         NEW t, Rows(t.entries), t \notin txns, NEW a \in AccountNames
  PROVE  Balances(txns \cup {t})[a] = Balances(txns)[a] + account_balance(t.entries, a)
<1> DEFINE U == txns \cup {t}
           f == [u \in U |-> account_balance(u.entries, a)]
           h == [u \in txns |-> account_balance(u.entries, a)]
<1>1. \A u \in U : account_balance(u.entries, a) \in Int
  <2> SUFFICES ASSUME NEW rows, Rows(rows) PROVE account_balance(rows, a) \in Int
    OBVIOUS
  <2> DEFINE s == [k \in OnAccount(rows, a) |->
                     IF rows[k].dir = Chart[a].normal THEN rows[k].amount ELSE - rows[k].amount]
  <2>1. \A k \in OnAccount(rows, a) :
          s[k] = IF rows[k].dir = Chart[a].normal THEN rows[k].amount ELSE - rows[k].amount
    OBVIOUS
  <2> HIDE DEF s
  <2> QED BY <2>1, BalanceIs
<1>2. /\ IsFiniteSet(U) /\ U \ {t} = txns /\ t \in U
      /\ Ints(f, U) /\ Ints(h, txns)
      /\ f[t] = account_balance(t.entries, a)
      /\ \A u \in txns : f[u] = h[u]
  BY <1>1, FS_AddElement DEF Ints
<1>3. Balances(U)[a] = SumFunctionOnSet(f, U) /\ Balances(txns)[a] = SumFunctionOnSet(h, txns)
  BY DEF Balances, SumFunction
<1> HIDE DEF U, f, h
<1>4. SumFunctionOnSet(f, U) = f[t] + SumFunctionOnSet(f, txns)
  BY <1>2, SumRemove
<1>5. SumFunctionOnSet(f, txns) = SumFunctionOnSet(h, txns)
  BY <1>2, SumEqual
<1>6. SumFunctionOnSet(h, txns) \in Int /\ f[t] \in Int
  BY <1>2, SumIsInt DEF Ints, U
<1> QED BY <1>2, <1>3, <1>4, <1>5, <1>6 DEF U

(* bench.py's sum over a proposal is the account_balances view of it. *)
LEMMA ApplyIsBalance ==
  ASSUME NEW es \in Seq(RepairEntry), OnSeededAccounts(es), NEW observed,
         NEW a \in AccountNames
  PROVE  apply_repair(observed, es)[a] = observed[a] + account_balance(es, a)
<1> DEFINE S == DOMAIN es
           R == OnAccount(es, a)
           g == [k \in DOMAIN es |->
                   IF es[k].account # a \/ a \notin DOMAIN SeedChart THEN 0
                   ELSE IF es[k].dir = SeedChart[a].normal
                        THEN es[k].amount ELSE - es[k].amount]
<1>1. Rows(es)
  BY RepairRows
<1>2. apply_repair(observed, es)[a] = observed[a] + SumFunctionOnSet(g, S)
  BY DEF apply_repair, SumFunction
<1>0. /\ \A b \in DOMAIN SeedChart : Chart[b] = SeedChart[b]
      /\ \A k \in DOMAIN es : es[k].account \in DOMAIN SeedChart
  BY SettlementAssumption DEF OnSeededAccounts
<1>3. /\ R \subseteq S /\ IsFiniteSet(S) /\ Ints(g, R)
      /\ \A k \in S : g[k] = IF k \in R THEN g[k] ELSE 0
      /\ \A k \in R : g[k] = IF es[k].dir = Chart[a].normal
                            THEN es[k].amount ELSE - es[k].amount
  BY <1>0, <1>1 DEF OnAccount, Rows, Ints
<1> HIDE DEF g, S
<1>4. account_balance(es, a) = SumFunctionOnSet(g, R)
  BY <1>1, <1>3, BalanceIs
<1> HIDE DEF R
<1>5. SumFunctionOnSet(g, R) = SumFunctionOnSet(g, S)
  BY <1>3, SumFilter
<1> QED BY <1>2, <1>4, <1>5

RestoresStep ==
  /\ Repairs' # Repairs
  /\ OnSeededAccounts(proposal.proposed_repair)
  /\ repair_restores_expected_balances(Balances(ledger), Balances(Complete(ledger)), proposal)
  => Balances(ledger)' = Balances(Complete(ledger))

(* An approval posts the repair, and nothing else does. *)
LEMMA RepairIsApproval ==
  ASSUME OnceInv, ProposalOK, [Next]_vars, Repairs' # Repairs
  PROVE  \E t : /\ ledger' = ledger \cup {t} /\ t \notin ledger
               /\ t.entries = proposal.proposed_repair
               /\ t.entries \in Seq(RepairEntry)
<1>1. ledger' # ledger
  BY DEF Repairs
<1>2. ASSUME NEW bt \in BalanceTransaction, ledger' = ledger \cup {ChargeTxn(bt)}
      PROVE  FALSE
  <2>1. ChargeTxn(bt).event = <<"charge.succeeded", bt.id>> /\ bt.id \in Nat
    BY ChargeRows DEF BalanceTransaction
  <2>2. ChargeTxn(bt).event # NULL
    BY <2>1, SettlementAssumption DEF MappedTypes
  <2> QED BY <1>2, <2>2 DEF Repairs
<1>3. PICK who \in Approvers : Approve(who)
  BY <1>1, <1>2, LedgerStep
<1>4. PICK n : /\ ledger' = ledger \cup {RepairTxn(n, proposal)}
               /\ RepairTxn(n, proposal).entries = proposal.proposed_repair
               /\ proposal.proposed_repair \in Seq(RepairEntry)
  BY <1>3, ApprovedRows
<1>5. RepairTxn(n, proposal) \notin ledger
  BY <1>1, <1>4
<1> QED BY <1>4, <1>5

(* The property of one step. *)
LEMMA RestoreStep ==
  ASSUME OnceInv, ProposalOK, BooksOK, [Next]_vars
  PROVE  RestoresStep
<1> SUFFICES ASSUME Repairs' # Repairs, OnSeededAccounts(proposal.proposed_repair),
                    repair_restores_expected_balances(Balances(ledger),
                      Balances(Complete(ledger)), proposal)
             PROVE  Balances(ledger)' = Balances(Complete(ledger))
  BY DEF RestoresStep
<1> DEFINE es == proposal.proposed_repair
<1>1. PICK t : /\ ledger' = ledger \cup {t} /\ t \notin ledger
               /\ t.entries = es /\ es \in Seq(RepairEntry)
  BY RepairIsApproval
<1>2. apply_repair(Balances(ledger), es) = Balances(Complete(ledger))
  BY DEF repair_restores_expected_balances
<1>3. ASSUME NEW a \in AccountNames
      PROVE  Balances(ledger \cup {t})[a] = apply_repair(Balances(ledger), es)[a]
  <2>1. Balances(ledger \cup {t})[a] = Balances(ledger)[a] + account_balance(es, a)
    <3>1. Rows(t.entries)
      BY <1>1, RepairRows
    <3>2. IsFiniteSet(ledger) /\ \A u \in ledger : Rows(u.entries)
      BY DEF BooksOK
    <3>3. Balances(ledger \cup {t})[a] = Balances(ledger)[a] + account_balance(t.entries, a)
      BY <1>1, <3>1, <3>2, BalancesAdd
    <3> QED BY <1>1, <3>3
  <2>2. apply_repair(Balances(ledger), es)[a] = Balances(ledger)[a] + account_balance(es, a)
    BY <1>1, ApplyIsBalance
  <2> QED BY <2>1, <2>2
<1>4. Balances(ledger \cup {t}) = apply_repair(Balances(ledger), es)
  <2>1. /\ DOMAIN Balances(ledger \cup {t}) = AccountNames
        /\ Balances(ledger \cup {t})
             = [a \in AccountNames |-> Balances(ledger \cup {t})[a]]
    BY DEF Balances
  <2>2. apply_repair(Balances(ledger), es)
          = [a \in AccountNames |-> apply_repair(Balances(ledger), es)[a]]
    BY DEF apply_repair
  <2> QED BY <1>3, <2>1, <2>2
<1>5. Balances(ledger)' = Balances(ledger \cup {t})
  BY <1>1 DEF Balances
<1> QED BY <1>2, <1>4, <1>5

(* What bench.py scores as restoring the books, on the accounts it knows,
   restores them when a person approves it: the mirror of the view in bench.py
   is linear in the rows. *)
THEOREM RepairRestoresBooks == Spec => RepairRestores
<1>1. Init => OnceInv /\ ProposalOK /\ BooksOK
  <2>1. Init => ProposalOK
    BY DEF Init, ProposalOK
  <2>2. Init => BooksOK
    <3> SUFFICES ASSUME Init PROVE BooksOK
      OBVIOUS
    <3>1. PICK h \in Histories : ledger = h.ledger
      BY DEF Init
    <3>2. IsFiniteSet(ledger) /\ \A t \in ledger : t.entries \in Seq(EntryRow)
      BY <3>1, SettlementAssumption
    <3> QED BY <3>2, SeqRows DEF BooksOK
  <2> QED BY <2>1, <2>2, OnceStart
<1>2. OnceInv /\ ProposalOK /\ BooksOK /\ [Next]_vars => (OnceInv /\ ProposalOK /\ BooksOK)'
  BY OnceStep, ProposalStep, BooksStep
<1>3. OnceInv /\ ProposalOK /\ BooksOK /\ [Next]_vars => [RestoresStep]_vars
  BY RestoreStep
<1>4. Spec => [][RestoresStep]_vars
  BY <1>1, <1>2, <1>3, PTL DEF Spec
<1> QED BY <1>4 DEF RepairRestores, RestoresStep

-----------------------------------------------------------------------------
(* The reconciler.  Its loop is a fold of Compare over a page.  Which of its
   steps comes first does not matter, because no two transactions that were
   loaded have one object. *)

(* The equation of the recursive function inside FoldLeft. *)
IsFold(g, led, base, data) ==
  g = [s \in SUBSET DOMAIN data |->
         IF s = {} THEN base ELSE Compare(led, g[s \ {Max(s)}], data[Max(s)])]

TheFold(led, base, data) == CHOOSE g : IsFold(g, led, base, data)

(* CompareAll is the solution of the equation, at the whole page. *)
LEMMA FoldIs ==
  ASSUME NEW base, NEW data
  PROVE  CompareAll(base, data) = TheFold(recon.ledger, base, data)[DOMAIN data]
BY DEF CompareAll, FoldLeft, MapThenFoldSet, TheFold, IsFold, LedgerRead

(* A finite set of numbers has a largest member. *)
LEMMA MaxIsIn ==
  ASSUME NEW S, IsFiniteSet(S), S \subseteq Int, S # {}
  PROVE  Max(S) \in S
<1> DEFINE B == {s \in SUBSET S : s # {} /\ ~ \E x \in s : \A y \in s : x >= y}
<1>1. B = {}
  <2> SUFFICES ASSUME B # {} PROVE FALSE
    OBVIOUS
  <2>1. B \subseteq SUBSET S /\ IsFiniteSet(S) /\ B # {}
    OBVIOUS
  <2>2. PICK s \in B : \A U \in B : U \subseteq s => U = s
    <3> HIDE DEF B
    <3> QED BY ONLY <2>1, Smallest
  <2>3. PICK x \in s : TRUE
    BY <2>2
  <2> DEFINE u == s \ {x}
  <2>4. u # {}
    <3>1. x \in Int /\ x >= x
      BY <2>2, <2>3
    <3> QED BY <2>2, <2>3, <3>1
  <2>5. u \notin B
    BY <2>2, <2>3
  <2>6. PICK z \in u : \A y \in u : z >= y
    BY <2>2, <2>4, <2>5
  <2>7. x \in Int /\ z \in Int /\ s \subseteq Int
    BY <2>2, <2>3, <2>6
  <2>8. CASE x >= z
    <3>1. \A y \in s : x >= y
      BY <2>6, <2>7, <2>8
    <3> QED BY <2>2, <2>3, <3>1
  <2>9. CASE ~ (x >= z)
    <3>1. \A y \in s : z >= y
      BY <2>6, <2>7, <2>9
    <3> QED BY <2>2, <2>6, <3>1
  <2> QED BY <2>8, <2>9
<1>2. \E x \in S : \A y \in S : x >= y
  BY <1>1
<1> QED BY <1>2 DEF Max

(* Pages are finite. *)
LEMMA PartOfPage ==
  ASSUME NEW A, NEW data \in Seq(A), NEW s \in SUBSET DOMAIN data
  PROVE  /\ IsFiniteSet(s) /\ Cardinality(s) \in Nat
         /\ s # {} => Max(s) \in s
<1>1. DOMAIN data = 1 .. Len(data) /\ Len(data) \in Nat
  OBVIOUS
<1>2. IsFiniteSet(DOMAIN data)
  BY <1>1, FS_Interval
<1>3. IsFiniteSet(s) /\ s \subseteq Int
  BY <1>1, <1>2, FS_Subset
<1> QED BY <1>3, MaxIsIn, FS_CardinalityType

(* The equation as far as a part of the page. *)
IsFoldTo(g, led, base, data, T) ==
  g = [s \in SUBSET T |->
         IF s = {} THEN base ELSE Compare(led, g[s \ {Max(s)}], data[Max(s)])]

(* It has at most one solution, also seen from a smaller part. *)
LEMMA FoldAgrees ==
  ASSUME NEW A, NEW data \in Seq(A), NEW led, NEW base,
         NEW S \in SUBSET DOMAIN data, NEW T, T \subseteq S,
         NEW g, IsFoldTo(g, led, base, data, S), NEW h, IsFoldTo(h, led, base, data, T)
  PROVE  \A s \in SUBSET T : g[s] = h[s]
<1> DEFINE B == {s \in SUBSET T : g[s] # h[s]}
<1> SUFFICES ASSUME B # {} PROVE FALSE
  OBVIOUS
<1>1. IsFiniteSet(T) /\ B \subseteq SUBSET T
  BY PartOfPage
<1>2. PICK s \in B : \A U \in B : U \subseteq s => U = s
  <2> HIDE DEF B
  <2> QED BY <1>1, Smallest
<1>3. s \in SUBSET T /\ s \in SUBSET S /\ s \in SUBSET DOMAIN data
  OBVIOUS
<1>4. s # {}
  BY <1>2, <1>3 DEF IsFoldTo
<1> DEFINE x == Max(s)
           u == s \ {x}
<1>5. u \in SUBSET T /\ u \subseteq s /\ u # s
  BY <1>3, <1>4, PartOfPage
<1>6. g[u] = h[u]
  BY <1>2, <1>5
<1>7. g[s] = Compare(led, g[u], data[x]) /\ h[s] = Compare(led, h[u], data[x])
  BY <1>3, <1>4 DEF IsFoldTo
<1> QED BY <1>2, <1>6, <1>7

(* It has a solution. *)
LEMMA FoldExists ==
  ASSUME NEW A, NEW data \in Seq(A), NEW led, NEW base
  PROVE  IsFold(TheFold(led, base, data), led, base, data)
<1> DEFINE D == DOMAIN data
           B == {T \in SUBSET D : ~ \E g : IsFoldTo(g, led, base, data, T)}
<1>1. B = {}
  <2> SUFFICES ASSUME B # {} PROVE FALSE
    OBVIOUS
  <2>1. PICK T \in B : \A U \in B : U \subseteq T => U = T
    <3>1. B \subseteq SUBSET D /\ IsFiniteSet(D)
      BY PartOfPage
    <3> HIDE DEF B, D
    <3> QED BY <3>1, Smallest
  <2> DEFINE F(U) == CHOOSE g : IsFoldTo(g, led, base, data, U)
             G(U) == F(U)[U]
             h == [s \in SUBSET T |->
                     IF s = {} THEN base
                     ELSE Compare(led, G(s \ {Max(s)}), data[Max(s)])]
  <2>2. ASSUME NEW U, U \subseteq T, U # T PROVE IsFoldTo(F(U), led, base, data, U)
    <3>1. \E g : IsFoldTo(g, led, base, data, U)
      BY <2>1, <2>2
    <3> QED BY <3>1
  <2>3. T \in SUBSET DOMAIN data
    BY <2>1
  <2>4. ASSUME NEW u, u \subseteq T, u # T PROVE h[u] = G(u)
    <3>1. IsFoldTo(F(u), led, base, data, u) /\ u \in SUBSET DOMAIN data
      BY <2>2, <2>3, <2>4
    <3>2. CASE u = {}
      BY <3>1, <3>2 DEF IsFoldTo
    <3>3. CASE u # {}
      <4> DEFINE v == u \ {Max(u)}
      <4>1. v \subseteq u /\ v \subseteq T /\ v # T
        BY <2>4, <3>1, <3>3, PartOfPage
      <4>2. IsFoldTo(F(v), led, base, data, v)
        BY <2>2, <4>1
      <4>3. F(u)[v] = G(v)
        <5> DEFINE fu == F(u)
                   fv == F(v)
        <5>1. /\ IsFoldTo(fu, led, base, data, u) /\ IsFoldTo(fv, led, base, data, v)
              /\ u \in SUBSET DOMAIN data /\ v \subseteq u /\ data \in Seq(A)
          BY <3>1, <4>1, <4>2
        <5> HIDE DEF fu, fv, v
        <5>2. \A s \in SUBSET v : fu[s] = fv[s]
          BY ONLY <5>1, FoldAgrees
        <5>3. fu[v] = fv[v]
          BY <5>2
        <5> QED BY <5>3 DEF fu, fv
      <4>4. G(u) = Compare(led, F(u)[v], data[Max(u)])
        <5> HIDE DEF F
        <5> QED BY <3>1, <3>3 DEF IsFoldTo
      <4>5. h[u] = Compare(led, G(v), data[Max(u)])
        <5>1. u \in SUBSET T
          BY <2>4
        <5> HIDE DEF G
        <5> QED BY <3>3, <5>1
      <4> QED BY <4>3, <4>4, <4>5
    <3> QED BY <3>2, <3>3
  <2>5. ASSUME NEW s \in SUBSET T, s # {} PROVE h[s \ {Max(s)}] = G(s \ {Max(s)})
    <3>1. Max(s) \in s
      BY <2>3, <2>5, PartOfPage
    <3> HIDE DEF h, G
    <3> QED BY <2>4, <2>5, <3>1
  <2>6. h = [s \in SUBSET T |->
               IF s = {} THEN base ELSE Compare(led, h[s \ {Max(s)}], data[Max(s)])]
    <3> HIDE DEF G
    <3> QED BY <2>5
  <2>7. IsFoldTo(h, led, base, data, T)
    <3> HIDE DEF h
    <3> QED BY <2>6 DEF IsFoldTo
  <2> QED BY <2>1, <2>7
<1>2. \E g : IsFoldTo(g, led, base, data, D)
  BY <1>1
<1>3. \E g : IsFold(g, led, base, data)
  BY <1>2 DEF IsFoldTo, IsFold
<1> QED BY <1>3 DEF TheFold

(* What is said of a balance transaction that t was posted for. *)
Off(t, bt) ==
  LET fee == t.delta["processing_fees"]
      amount == t.delta["stripe_balance"] + fee
  IN  {b \in {Break("amount_mismatch", bt.source, t.event_id, bt.amount, amount),
              Break("fee_mismatch", bt.source, t.event_id, bt.fee, fee)} :
         b.expected # b.actual}

(* All that is said of a balance transaction, and the postings it accounts for. *)
Said(led, bt) ==
  IF CandidatesOf(led, bt) = {}
  THEN {Break("missing_in_ledger", ObjectId(bt), NULL, bt.amount, NULL)}
  ELSE UNION {Off(t, bt) : t \in CandidatesOf(led, bt)}

Accounted(led, bt) == {t.txn_id : t \in CandidatesOf(led, bt)}

IsFound(found) ==
  found = [breaks |-> found.breaks, matched |-> found.matched, checked |-> found.checked]

(* No two of the loaded transactions are about one object. *)
OneEach(led) == \A t, u \in led : SameNonNull(t.object_id, u.object_id) => t = u

(* Then there is no choice in Match, and what was compared before does not
   matter. *)
LEMMA CompareIs ==
  ASSUME NEW led, OneEach(led), NEW state, NEW bt
  PROVE  Compare(led, state, bt)
           = [breaks  |-> state.breaks \cup Said(led, bt),
              matched |-> state.matched \cup Accounted(led, bt),
              checked |-> state.checked + 1]
<1> DEFINE C == CandidatesOf(led, bt)
           m == Match(C, state.matched)
<1>1. CASE C = {}
  BY <1>1 DEF Compare, Said, Accounted
<1>2. CASE C # {}
  <2>1. PICK t \in C : TRUE
    BY <1>2
  <2>2. C = {t}
    BY <2>1 DEF OneEach, CandidatesOf, SameNonNull
  <2>3. m = t
    <3>1. {u \in C : u.txn_id \notin state.matched} \in {{}, {t}}
      BY <2>2
    <3> HIDE DEF C
    <3> QED BY <2>2, <3>1 DEF Match
  <2>4. Said(led, bt) = Off(t, bt) /\ Accounted(led, bt) = {t.txn_id}
    BY <2>2 DEF Said, Accounted
  <2>5. Compare(led, state, bt)
          = [breaks  |-> state.breaks \cup Off(m, bt),
             matched |-> state.matched \cup {m.txn_id},
             checked |-> state.checked + 1]
    BY <1>2 DEF Compare, Off
  <2> QED BY <2>3, <2>4, <2>5
<1> QED BY <1>1, <1>2

All(f, s) == UNION {f[i] : i \in s}

(* One more member of a union. *)
LEMMA UnionAdd ==
  ASSUME NEW f, NEW u, NEW x
  PROVE  All(f, u \cup {x}) = All(f, u) \cup f[x]
<1>1. ASSUME NEW y \in All(f, u \cup {x}) PROVE y \in All(f, u) \cup f[x]
  <2>1. PICK i \in u \cup {x} : y \in f[i]
    BY <1>1 DEF All
  <2> QED BY <2>1 DEF All
<1>2. ASSUME NEW y \in All(f, u) PROVE y \in All(f, u \cup {x})
  <2>1. PICK i \in u : y \in f[i]
    BY <1>2 DEF All
  <2> QED BY <2>1 DEF All
<1>3. ASSUME NEW y \in f[x] PROVE y \in All(f, u \cup {x})
  BY <1>3 DEF All
<1> QED BY <1>1, <1>2, <1>3

(* What the loop has after a page. *)
LEMMA CompareAllIs ==
  ASSUME NEW A, NEW data \in Seq(A), OneEach(recon.ledger),
         NEW base, IsFound(base), base.checked \in Int
  PROVE  LET found == CompareAll(base, data) IN
         /\ IsFound(found)
         /\ found.breaks = base.breaks \cup UNION {Said(recon.ledger, data[i]) : i \in DOMAIN data}
         /\ found.matched
              = base.matched \cup UNION {Accounted(recon.ledger, data[i]) : i \in DOMAIN data}
         /\ found.checked = base.checked + Len(data)
<1> DEFINE led == recon.ledger
           g == TheFold(led, base, data)
           f == [i \in DOMAIN data |-> Said(led, data[i])]
           h == [i \in DOMAIN data |-> Accounted(led, data[i])]
           P(s) == /\ IsFound(g[s])
                   /\ g[s].breaks = base.breaks \cup All(f, s)
                   /\ g[s].matched = base.matched \cup All(h, s)
                   /\ g[s].checked = base.checked + Cardinality(s)
           B == {s \in SUBSET DOMAIN data : ~ P(s)}
<1>1. IsFold(g, led, base, data)
  BY FoldExists
<1>2. OneEach(led) /\ IsFiniteSet(DOMAIN data)
  BY PartOfPage
<1> HIDE DEF led, g
<1>3. P({})
  <2>1. g[{}] = base
    BY <1>1 DEF IsFold
  <2>2. Cardinality({}) = 0
    BY FS_EmptySet
  <2>3. All(f, {}) = {} /\ All(h, {}) = {}
    BY DEF All
  <2> QED BY <2>1, <2>2, <2>3
<1>4. ASSUME NEW s \in SUBSET DOMAIN data, s # {}, P(s \ {Max(s)}) PROVE P(s)
  <2> DEFINE x == Max(s)
             u == s \ {x}
             bt == data[x]
  <2>1. x \in s /\ IsFiniteSet(s) /\ u \in SUBSET DOMAIN data
    BY <1>4, PartOfPage
  <2>2. g[s] = Compare(led, g[u], bt)
    BY <1>1, <1>4 DEF IsFold
  <2>3. g[s] = [breaks  |-> g[u].breaks \cup Said(led, bt),
                matched |-> g[u].matched \cup Accounted(led, bt),
                checked |-> g[u].checked + 1]
    BY <1>2, <2>2, CompareIs
  <2>4. Cardinality(s) = Cardinality(u) + 1 /\ Cardinality(u) \in Nat
    BY <2>1, FS_RemoveElement, FS_CardinalityType, FS_Subset, PartOfPage
  <2>5. s = u \cup {x} /\ f[x] = Said(led, bt) /\ h[x] = Accounted(led, bt)
    BY <2>1
  <2>6. P(u)
    BY <1>4
  <2> HIDE DEF x, u, bt, f, h
  <2>7. g[s].breaks = g[u].breaks \cup f[x] /\ g[s].matched = g[u].matched \cup h[x]
        /\ g[s].checked = g[u].checked + 1 /\ IsFound(g[s])
    BY <2>3, <2>5 DEF IsFound
  <2>8. All(f, s) = All(f, u) \cup f[x]
        /\ All(h, s) = All(h, u) \cup h[x]
    BY <2>5, UnionAdd
  <2>9. g[s].breaks = base.breaks \cup All(f, s)
    BY <2>6, <2>7, <2>8
  <2>10. g[s].matched = base.matched \cup All(h, s)
    BY <2>6, <2>7, <2>8
  <2>11. g[s].checked = base.checked + Cardinality(s)
    BY <2>4, <2>6, <2>7
  <2> QED BY <2>7, <2>9, <2>10, <2>11
<1>5. B = {}
  <2> SUFFICES ASSUME B # {} PROVE FALSE
    OBVIOUS
  <2>1. B \subseteq SUBSET DOMAIN data /\ B # {}
    OBVIOUS
  <2>2. PICK s \in B : \A U \in B : U \subseteq s => U = s
    <3> HIDE DEF B
    <3> QED BY ONLY <1>2, <2>1, Smallest
  <2>3. s \in SUBSET DOMAIN data /\ s # {} /\ ~ P(s)
    <3>1. s \in SUBSET DOMAIN data /\ ~ P(s)
      BY <2>2
    <3> HIDE DEF P
    <3> QED BY <1>3, <3>1
  <2>4. Max(s) \in s
    BY <2>3, PartOfPage
  <2>5. s \ {Max(s)} \notin B
    <3> HIDE DEF B
    <3> QED BY <2>2, <2>4
  <2>6. P(s \ {Max(s)})
    <3>1. s \ {Max(s)} \in SUBSET DOMAIN data
      BY <2>3
    <3> HIDE DEF P
    <3> QED BY <2>5, <3>1
  <2> HIDE DEF P
  <2> QED BY <1>4, <2>3, <2>6
<1>6. P(DOMAIN data)
  <2>1. DOMAIN data \in SUBSET DOMAIN data
    OBVIOUS
  <2> HIDE DEF P
  <2> QED BY <1>5, <2>1
<1>7. CompareAll(base, data) = g[DOMAIN data]
  BY FoldIs DEF g, led
<1>8. Cardinality(DOMAIN data) = Len(data)
  <2>1. DOMAIN data = 1 .. Len(data) /\ Len(data) \in Nat
    OBVIOUS
  <2>2. 1 \in Int /\ Len(data) \in Int /\ Len(data) - 1 + 1 = Len(data)
        /\ (1 > Len(data) => Len(data) = 0)
    BY <2>1
  <2>3. Cardinality(1 .. Len(data)) = Len(data)
    BY <2>2, FS_Interval
  <2> QED BY <2>1, <2>3
<1>9. /\ All(f, DOMAIN data) = UNION {Said(led, data[i]) : i \in DOMAIN data}
      /\ All(h, DOMAIN data) = UNION {Accounted(led, data[i]) : i \in DOMAIN data}
  <2>1. {f[i] : i \in DOMAIN data} = {Said(led, data[i]) : i \in DOMAIN data}
    OBVIOUS
  <2>2. {h[i] : i \in DOMAIN data} = {Accounted(led, data[i]) : i \in DOMAIN data}
    OBVIOUS
  <2> QED BY <2>1, <2>2 DEF All
<1> HIDE DEF f, h
<1> QED BY <1>6, <1>7, <1>8, <1>9 DEF led

-----------------------------------------------------------------------------
(* Stripe's list, and what is posted for it. *)

(* The n-th balance transaction, oldest first: the list grows at its front,
   and the number stays. *)
Nth(n) == bts[Len(bts) - n + 1]

Numbered == \A k \in DOMAIN bts : bts[k].id = Len(bts) - k + 1

(* One of the first m balance transactions is about the object. *)
Known(object, m) == \E n \in 1 .. m : Nth(n).source = object

Nets(entries) ==
  \A cur : NormalSum(entries, "debit", cur) = NormalSum(entries, "credit", cur)

(* Money is posted after Stripe lists it, once for an object, and balanced. *)
Booked ==
  /\ \A t \in ledger :
       /\ t.object # NULL => Known(t.object, Len(bts))
       /\ t.object # NULL /\ t.object[1] = "ch" => t.type = "charge.succeeded"
       /\ Nets(t.entries)
  /\ \A t, u \in ledger : SameNonNull(t.object, u.object) => t = u

(* The numbers of a list. *)
LEMMA NthIs ==
  ASSUME EgressTypeOK, Numbered
  PROVE  /\ Len(bts) \in Nat /\ DOMAIN bts = 1 .. Len(bts)
         /\ \A n \in 1 .. Len(bts) : Nth(n) \in BalanceTransaction /\ Nth(n).id = n
         /\ \A k \in 1 .. Len(bts) :
              /\ bts[k].id \in 1 .. Len(bts) /\ bts[k] = Nth(bts[k].id)
              /\ bts[k].id = Len(bts) - k + 1
<1>1. bts \in Seq(BalanceTransaction)
  BY DEF EgressTypeOK
<1>2. Len(bts) \in Nat /\ DOMAIN bts = 1 .. Len(bts)
  BY <1>1
<1>3. ASSUME NEW n \in 1 .. Len(bts) PROVE Nth(n) \in BalanceTransaction /\ Nth(n).id = n
  <2>1. Len(bts) - n + 1 \in 1 .. Len(bts) /\ Len(bts) - (Len(bts) - n + 1) + 1 = n
    BY <1>2
  <2> QED BY <1>1, <1>2, <2>1 DEF Nth, Numbered
<1>4. ASSUME NEW k \in 1 .. Len(bts)
      PROVE  /\ bts[k].id \in 1 .. Len(bts) /\ bts[k] = Nth(bts[k].id)
             /\ bts[k].id = Len(bts) - k + 1
  <2>1. bts[k].id = Len(bts) - k + 1
    BY <1>2 DEF Numbered
  <2>2. Len(bts) - k + 1 \in 1 .. Len(bts) /\ Len(bts) - (Len(bts) - k + 1) + 1 = k
    BY <1>2
  <2> QED BY <2>1, <2>2 DEF Nth
<1> QED BY <1>2, <1>3, <1>4

(* Only a charge changes Stripe's list. *)
LEMMA BtsStep ==
  ASSUME OnceInv, [Next]_vars
  PROVE  bts' = bts \/ \E c \in Posts : Settle(c)
<1>1. ASSUME NEW r \in wire, Serve(r) PROVE bts' = bts \/ \E c \in Posts : Settle(c)
  <2>1. ServeList(r) \/ ServeReplay(r) \/ ServeNothing(r) \/ ServeBusy(r) => bts' = bts
    BY DEF ServeList, ServeReplay, ServeNothing, ServeBusy
  <2>2. ServeCharge(r) => Settle(r.call)
    BY DEF ServeCharge
  <2> QED BY <1>1, <2>1, <2>2, ServeCases
<1> QED BY <1>1, EgressSteps DEF post, get, Start, TransportError, Receive

(* The list grows and what it held keeps its number. *)
LEMMA ListGrows ==
  ASSUME OnceInv, Numbered, [Next]_vars
  PROVE  /\ Numbered' /\ Len(bts) \in Nat /\ Len(bts)' \in Nat /\ Len(bts) <= Len(bts)'
         /\ \A n \in 1 .. Len(bts) : Nth(n)' = Nth(n)
<1>1. EgressTypeOK
  BY DEF OnceInv
<1>2. Len(bts) \in Nat /\ DOMAIN bts = 1 .. Len(bts)
  BY <1>1, NthIs
<1>3. CASE bts' = bts
  BY <1>2, <1>3 DEF Numbered, Nth
<1>4. ASSUME NEW c \in Posts, Settle(c)
      PROVE  /\ Numbered' /\ Len(bts)' \in Nat /\ Len(bts) <= Len(bts)'
             /\ \A n \in 1 .. Len(bts) : Nth(n)' = Nth(n)
  <2>1. /\ Len(bts') = Len(bts) + 1 /\ DOMAIN bts' = 1 .. Len(bts) + 1
        /\ bts'[1].id = Len(bts) + 1
        /\ \A k \in 1 .. Len(bts) : bts'[k + 1] = bts[k]
    BY <1>1, <1>4, SettleStep
  <2>2. ASSUME NEW n \in 1 .. Len(bts) PROVE Nth(n)' = Nth(n)
    <3>1. Len(bts) - n + 1 \in 1 .. Len(bts)
          /\ (Len(bts) - n + 1) + 1 = Len(bts) + 1 - n + 1
      BY <1>2
    <3> QED BY <2>1, <3>1 DEF Nth
  <2>3. ASSUME NEW k \in DOMAIN bts' PROVE bts'[k].id = Len(bts') - k + 1
    <3>1. CASE k = 1
      BY <1>2, <2>1, <3>1
    <3>2. CASE k # 1
      <4>1. k - 1 \in 1 .. Len(bts) /\ (k - 1) + 1 = k
        BY <1>2, <2>1, <3>2
      <4>2. bts'[k] = bts[k - 1] /\ bts[k - 1].id = Len(bts) - (k - 1) + 1
        BY <1>2, <2>1, <4>1 DEF Numbered
      <4> QED BY <1>2, <2>1, <4>1, <4>2
    <3> QED BY <3>1, <3>2
  <2> QED BY <1>2, <2>1, <2>2, <2>3 DEF Numbered
<1> QED BY <1>2, <1>3, <1>4, BtsStep

(* Known objects stay known. *)
LEMMA KnownStays ==
  ASSUME OnceInv, Numbered, [Next]_vars, NEW object, NEW m \in 0 .. Len(bts)
  PROVE  Known(object, m) => Known(object, m)'
<1>1. Len(bts) \in Nat /\ \A n \in 1 .. Len(bts) : Nth(n)' = Nth(n)
  BY ListGrows
<1>2. \A n \in 1 .. m : n \in 1 .. Len(bts)
  BY <1>1
<1> QED BY <1>1, <1>2 DEF Known

(* All that is committed nets to zero in every currency of the accounts. *)
LEMMA CommittedNets ==
  ASSUME NEW es, Rows(es), Sides(es), Committable(es)
  PROVE  Nets(es)
<1> SUFFICES ASSUME NEW cur
             PROVE  NormalSum(es, "debit", cur) = NormalSum(es, "credit", cur)
  BY DEF Nets
<1>1. Accepted(es) /\ assert_txn_balanced(es)
  BY DEF Committable, AccountsKnown, EntryAccepted, Accepted, DeferredTriggersPass
<1>2. Net(es, InCur(es, cur)) = 0
  BY <1>1, BalancedIsZero
<1>3. /\ NormalSum(es, "debit", cur) - NormalSum(es, "credit", cur) = Net(es, InCur(es, cur))
      /\ NormalSum(es, "debit", cur) \in Int /\ NormalSum(es, "credit", cur) \in Int
  BY <1>1, NormalSumsNet
<1> QED BY <1>2, <1>3

(* The posting of a charge. *)
LEMMA WorkerStep ==
  ASSUME OnceInv, WorkerPosts
  PROVE  \E k \in DOMAIN bts :
           LET t == ChargeTxn(bts[k]) IN
           /\ bts[k].source # NULL /\ bts[k].source[1] = "ch"
           /\ \A u \in ledger : ~ Conflict(t, u)
           /\ Committable(t.entries)
           /\ ledger' = ledger \cup {t} /\ UNCHANGED <<egressVars, recon>>
<1>1. PICK k \in Payments, type \in ReportedAs :
        LET t == build_transaction(PaymentEvent(bts[k], type), NULL) IN
        /\ type \in HANDLED_EVENT_TYPES
        /\ \A u \in ledger : ~ Conflict(t, u)
        /\ Committable(t.entries)
        /\ ledger' = ledger \cup {t} /\ UNCHANGED <<egressVars, recon>>
  BY DEF WorkerPosts
<1>2. type = "charge.succeeded"
  BY <1>1 DEF ReportedAs, HANDLED_EVENT_TYPES
<1>3. k \in DOMAIN bts /\ bts[k].source # NULL /\ bts[k].source[1] = "ch"
  BY DEF Payments
<1> QED BY <1>1, <1>2, <1>3 DEF ChargeTxn

(* One more posting: of a charge, or without an object. *)
LEMMA BookedAdd ==
  ASSUME OnceInv, Numbered, Booked, [Next]_vars,
         NEW t, ledger' = ledger \cup {t}, Nets(t.entries),
         t.object # NULL => /\ Known(t.object, Len(bts)) /\ t.object[1] = "ch"
                            /\ t.type = "charge.succeeded"
                            /\ \A u \in ledger : ~ Conflict(t, u)
  PROVE  Booked'
<1>1. Len(bts) \in Nat /\ Len(bts)' \in Nat /\ Len(bts) <= Len(bts)'
  BY ListGrows
<1>2. ASSUME NEW u \in ledger', u.object # NULL PROVE Known(u.object, Len(bts))'
  <2>1. Known(u.object, Len(bts))
    BY <1>2 DEF Booked
  <2>2. PICK n \in 1 .. Len(bts) : Nth(n)'.source = u.object
    BY <2>1, ListGrows DEF Known
  <2>3. n \in 1 .. Len(bts)'
    BY <1>1
  <2> QED BY <2>2, <2>3 DEF Known
<1>3. \A u \in ledger' : u.object # NULL /\ u.object[1] = "ch" => u.type = "charge.succeeded"
  BY DEF Booked
<1>4. \A u \in ledger' : Nets(u.entries)'
  BY DEF Booked, Nets
<1>5. ASSUME NEW u \in ledger, SameNonNull(t.object, u.object) PROVE FALSE
  <2>1. t.object # NULL /\ u.object = t.object
    BY <1>5 DEF SameNonNull
  <2>2. u.type = "charge.succeeded" /\ t.type = "charge.succeeded"
    BY <2>1 DEF Booked
  <2>3. t.type # NULL
    BY <2>2, SettlementAssumption DEF MappedTypes
  <2>4. Conflict(t, u)
    BY <2>1, <2>2, <2>3 DEF Conflict, DedupeConflict, SameNonNull
  <2> QED BY <2>1, <2>4
<1>6. \A u, v \in ledger' : SameNonNull(u.object, v.object) => u = v
  <2> SUFFICES ASSUME NEW u \in ledger', NEW v \in ledger', SameNonNull(u.object, v.object)
               PROVE  u = v
    OBVIOUS
  <2>1. SameNonNull(v.object, u.object)
    BY DEF SameNonNull
  <2> QED BY <1>5, <2>1 DEF Booked
<1> QED BY <1>2, <1>3, <1>4, <1>6 DEF Booked

(* The ledger the reconciler may load. *)
LEMMA BookedStep ==
  ASSUME OnceInv, ProposalOK, Numbered, Booked, [Next]_vars
  PROVE  Booked'
<1>1. CASE ledger' = ledger
  <2>1. Len(bts) \in Nat /\ Len(bts)' \in Nat /\ Len(bts) <= Len(bts)'
    BY ListGrows
  <2>2. ASSUME NEW u \in ledger, u.object # NULL PROVE Known(u.object, Len(bts))'
    <3>1. PICK n \in 1 .. Len(bts) : Nth(n)'.source = u.object
      BY <2>2, ListGrows DEF Booked, Known
    <3>2. n \in 1 .. Len(bts)'
      BY <2>1
    <3> QED BY <3>1, <3>2 DEF Known
  <2>3. \A u \in ledger : Nets(u.entries)'
    BY DEF Booked, Nets
  <2> QED BY <1>1, <2>2, <2>3 DEF Booked
<1>2. CASE WorkerPosts
  <2>1. PICK k \in DOMAIN bts :
          LET t == ChargeTxn(bts[k]) IN
          /\ bts[k].source # NULL /\ bts[k].source[1] = "ch"
          /\ \A u \in ledger : ~ Conflict(t, u)
          /\ Committable(t.entries)
          /\ ledger' = ledger \cup {t}
    BY <1>2, WorkerStep
  <2> DEFINE t == ChargeTxn(bts[k])
  <2>2. EgressTypeOK /\ bts[k] \in BalanceTransaction
    BY DEF OnceInv, EgressTypeOK
  <2>3. t.object = bts[k].source /\ t.type = "charge.succeeded" /\ t.entries \in Seq(EntryRow)
    BY <2>2, ChargeRows
  <2>4. ledger' = ledger \cup {t} /\ Committable(t.entries) /\ \A u \in ledger : ~ Conflict(t, u)
    BY <2>1
  <2> HIDE DEF t
  <2>5. Nets(t.entries)
    BY <2>3, <2>4, SeqRows, CommittedNets
  <2>6. Known(bts[k].source, Len(bts))
    BY <2>2, NthIs DEF Known
  <2> QED BY <2>1, <2>3, <2>4, <2>5, <2>6, BookedAdd
<1>3. ASSUME NEW who \in Approvers, Approve(who) PROVE Booked'
  <2> DEFINE t == RepairTxn(Cardinality(Repairs), proposal)
             es == proposal.proposed_repair
  <2>1. /\ ledger' = ledger \cup {t} /\ approve_and_apply(proposal, who) = "POSTED"
        /\ t.object = NULL /\ t.entries = es
    BY <1>3 DEF Approve, RepairTxn
  <2>2. es \in Seq(RepairEntry)
    BY <1>3, SettlementAssumption DEF ProposalOK, Approve
  <2>3. Committable(es) /\ repair_is_balanced(es)
    BY <2>1 DEF approve_and_apply, RepairRejected, Committable
  <2>4. Rows(es) /\ Sides(es)
    BY <2>2, <2>3, RepairRows DEF repair_is_balanced, Sides, Directions
  <2> HIDE DEF t, es
  <2>5. Nets(t.entries)
    BY <2>1, <2>3, <2>4, CommittedNets
  <2> QED BY <2>1, <2>5, BookedAdd
<1> QED BY <1>1, <1>2, <1>3 DEF Next, vars, bookVars, LoadLedger, CheckInvariant, TakePage,
           ReconRaises, Triage

(* The histories to start from. *)
LEMMA BookedStart == Init => Numbered /\ Booked
<1> SUFFICES ASSUME Init PROVE Numbered /\ Booked
  OBVIOUS
<1>1. PICK h \in Histories : bts = h.bts /\ ledger = h.ledger
  BY DEF Init
<1>2. Numbered
  BY <1>1, HistoryAssumption DEF Numbered
<1>3. EgressTypeOK
  BY OnceStart DEF OnceInv
<1>4. ASSUME NEW t \in ledger
      PROVE  /\ t.object # NULL => Known(t.object, Len(bts))
             /\ t.object # NULL /\ t.object[1] = "ch" => t.type = "charge.succeeded"
             /\ Nets(t.entries)
  <2>1. Rows(t.entries) /\ Sides(t.entries)
    BY <1>1, SettlementAssumption, SeqRows
  <2>2. /\ Committable(t.entries)
        /\ t.object # NULL => \E k \in DOMAIN bts : bts[k].source = t.object
        /\ t.object # NULL /\ t.object[1] = "ch" => t.type = "charge.succeeded"
    BY <1>1, HistoryAssumption
  <2>3. t.object # NULL => Known(t.object, Len(bts))
    BY <1>2, <1>3, <2>2, NthIs DEF Known
  <2>4. Nets(t.entries)
    BY <2>1, <2>2, CommittedNets
  <2> QED BY <2>2, <2>3, <2>4
<1>5. \A t, u \in ledger : SameNonNull(t.object, u.object) => t = u
  BY <1>1, HistoryAssumption
<1> QED BY <1>2, <1>4, <1>5 DEF Booked

-----------------------------------------------------------------------------
(* The pages the reconciler reads. *)

(* Every loaded posting with an object is of one of the first m balance
   transactions. *)
Covers(m) == \A t \in recon.ledger : t.object_id # NULL => Known(t.object_id, m)

(* A page of the list that begins with number top, as it was then and still is. *)
PageFrom(page, top) ==
  /\ page.data \in Seq(BalanceTransaction)
  /\ Len(page.data) = IF limit < top THEN limit ELSE top
  /\ \A i \in 1 .. Len(page.data) : page.data[i] = Nth(top - i + 1)
  /\ page.has_more = (limit < top)

(* The first page was served when everything loaded was on Stripe's list; a later
   one goes on behind the cursor. *)
IsPage(page, query) ==
  \E top \in 0 .. Len(bts) :
    PageFrom(page, top) /\ IF query = None THEN Covers(top) ELSE top = query - 1

(* What the GET under way asks for, and what it has got. *)
ReaderInv ==
  LET q == req[Reader] IN
  /\ recon.pc \in {"idle", "loaded"} => q.pc = "idle"
  /\ q.pc # "idle" => q.query \in {None} \cup 1 .. Len(bts)
  /\ recon.pc = "paging" => q.pc # "idle" /\ q.query = recon.cursor
  /\ q.pc = "answered" /\ q.reply.status = 200 => IsPage(q.reply.body, q.query)
  /\ q.pc = "done" /\ q.result.ok => IsPage(q.result.body, q.query)

(* What was loaded. *)
LoadedInv == recon.pc # "idle" => Covers(Len(bts)) /\ OneEach(recon.ledger)

(* The page Stripe serves. *)
LEMMA PageIs ==
  ASSUME EgressTypeOK, Numbered, NEW query \in {None} \cup 1 .. Len(bts), Covers(Len(bts))
  PROVE  IsPage(Page(query), query)
<1> DEFINE L == Len(bts)
           p == Place(query)
           q == IF p + limit < L THEN p + limit ELSE L
           data == SubSeq(bts, p + 1, q)
           top == L - p
<1>1. /\ bts \in Seq(BalanceTransaction) /\ L \in Nat /\ DOMAIN bts = 1 .. L
      /\ limit \in Nat /\ limit > 0
  BY NthIs, EgressAssumption DEF EgressTypeOK
<1>2. p \in 0 .. L /\ (query # None => top = query - 1)
  <2>1. CASE query = None
    BY <1>1, <2>1 DEF Place
  <2>2. CASE query # None
    <3>1. query \in 1 .. L
      BY <2>2
    <3>2. p = CHOOSE k \in DOMAIN bts : bts[k].id = query
      BY <2>2 DEF Place
    <3>3. L - query + 1 \in 1 .. L /\ bts[L - query + 1].id = query
      <4>1. L - query + 1 \in 1 .. L
        BY <1>1, <3>1
      <4>2. bts[L - query + 1].id = L - (L - query + 1) + 1
        BY <1>1, <4>1, NthIs
      <4> QED BY <1>1, <3>1, <4>1, <4>2
    <3>4. p \in 1 .. L /\ bts[p].id = query
      <4> HIDE DEF p
      <4> QED BY <1>1, <3>2, <3>3
    <3>5. bts[p].id = L - p + 1
      BY <3>4, NthIs
    <3> HIDE DEF p
    <3> QED BY <1>1, <3>1, <3>4, <3>5
  <2> QED BY <2>1, <2>2
<1>3. query = None => p = 0
  BY DEF Place
<1>4. Page(query) = [data |-> data, has_more |-> p + limit < L]
  BY DEF Page
<1> HIDE DEF p
<1>5. /\ top \in 0 .. L /\ q \in Nat /\ p + 1 \in Nat
      /\ q - (p + 1) + 1 = (IF limit < top THEN limit ELSE top)
      /\ p + 1 >= 1 /\ q <= L /\ (limit < top <=> p + limit < L)
      /\ q >= p
  BY <1>1, <1>2
<1>6. /\ data \in Seq(BalanceTransaction)
      /\ Len(data) = IF limit < top THEN limit ELSE top
      /\ \A i \in 1 .. Len(data) : data[i] = bts[p + i]
  <2> HIDE DEF q, L
  <2>1. SubSeq(bts, p + 1, q) \in Seq(BalanceTransaction)
    <3>1. \A i \in (p + 1) .. q : bts[i] \in BalanceTransaction
      BY <1>1, <1>2, <1>5
    <3> QED BY <1>1, <1>2, <1>5, <3>1, SubSeqProperties
  <2>2. Len(SubSeq(bts, p + 1, q)) = IF p + 1 <= q THEN q - (p + 1) + 1 ELSE 0
    BY <1>1, <1>2, <1>5, SubSeqProperties
  <2>3. Len(data) = IF limit < top THEN limit ELSE top
    BY <1>1, <1>2, <1>5, <2>2
  <2>4. \A i \in 1 .. Len(data) : data[i] = bts[p + i]
    BY <1>1, <1>2, <1>5, <2>2, SubSeqProperties
  <2> QED BY <2>1, <2>3, <2>4
<1>7. \A i \in 1 .. Len(data) : data[i] = Nth(top - i + 1)
  <2> SUFFICES ASSUME NEW i \in 1 .. Len(data) PROVE data[i] = Nth(top - i + 1)
    OBVIOUS
  <2>1. data[i] = bts[p + i] /\ Len(data) \in Nat
    BY <1>6
  <2>2. L - (top - i + 1) + 1 = p + i
    BY <1>1, <1>2, <2>1
  <2> QED BY <2>1, <2>2 DEF Nth
<1> HIDE DEF data
<1>8. PageFrom(Page(query), top)
  <2>1. Page(query).data = data /\ Page(query).has_more = (limit < top)
    BY <1>4, <1>5
  <2> QED BY <1>6, <1>7, <2>1 DEF PageFrom
<1>9. query = None => Covers(top)
  <2>1. query = None => top = L
    BY <1>1, <1>3
  <2> QED BY <2>1
<1> HIDE DEF top
<1> QED BY <1>2, <1>5, <1>8, <1>9 DEF IsPage

(* What was covered stays so while the loaded ledger does. *)
LEMMA CoversStays ==
  ASSUME OnceInv, Numbered, [Next]_vars, recon'.ledger = recon.ledger,
         NEW m \in 0 .. Len(bts), Covers(m)
  PROVE  Covers(m)'
<1> SUFFICES ASSUME NEW t \in recon.ledger, t.object_id # NULL PROVE Known(t.object_id, m)'
  BY DEF Covers
<1>1. Known(t.object_id, m)
  BY DEF Covers
<1> QED BY <1>1, KnownStays

(* And all of the list covers it when a part does. *)
LEMMA CoversMore ==
  ASSUME NEW m \in Nat, NEW n \in Nat, m <= n, Covers(m)
  PROVE  Covers(n)
<1>1. \A k \in 1 .. m : k \in 1 .. n
  OBVIOUS
<1> QED BY <1>1 DEF Covers, Known

(* A page that was served does not grow old. *)
LEMMA PageStays ==
  ASSUME OnceInv, Numbered, [Next]_vars, recon'.ledger = recon.ledger,
         NEW page, NEW query, IsPage(page, query)
  PROVE  IsPage(page, query)'
<1>1. PICK top \in 0 .. Len(bts) :
        PageFrom(page, top) /\ IF query = None THEN Covers(top) ELSE top = query - 1
  BY DEF IsPage
<1>2. /\ Len(bts) \in Nat /\ Len(bts)' \in Nat /\ Len(bts) <= Len(bts)'
      /\ \A n \in 1 .. Len(bts) : Nth(n)' = Nth(n)
  BY ListGrows
<1>3. top \in 0 .. Len(bts)'
  BY <1>2
<1>4. query = None => Covers(top)'
  BY <1>1, CoversStays
<1>5. PageFrom(page, top)'
  <2>1. limit \in Nat /\ limit > 0 /\ top \in Nat /\ top <= Len(bts)
    BY <1>2, EgressAssumption
  <2>2. page.data \in Seq(BalanceTransaction) /\ Len(page.data) \in Nat /\ Len(page.data) <= top
    BY <1>1, <2>1 DEF PageFrom
  <2>3. ASSUME NEW i \in 1 .. Len(page.data) PROVE page.data[i] = Nth(top - i + 1)'
    <3>1. top - i + 1 \in 1 .. Len(bts)
      BY <1>2, <2>1, <2>2
    <3> QED BY <1>1, <1>2, <3>1 DEF PageFrom
  <2> QED BY <1>1, <2>3 DEF PageFrom
<1> QED BY <1>1, <1>3, <1>4, <1>5 DEF IsPage

(* What the client and Stripe do to the GET under way: nothing, another attempt,
   a result or an answer. *)
ReaderMove ==
  LET q == req[Reader]
      x == req'[Reader]
  IN  \/ x = q
      \/ /\ q.pc # "idle" /\ x.pc # "idle" /\ x.query = q.query
         /\ \/ x.pc = "waiting"
            \/ /\ x.pc = "done"
               /\ x.result.ok => /\ q.pc = "answered" /\ q.reply.status = 200
                                 /\ x.result.body = q.reply.body
            \/ /\ x.pc = "answered"
               /\ x.reply.status = 200 => x.reply.body = Page(q.query)

(* A result. *)
LEMMA ReturnMove ==
  ASSUME OnceInv, NEW c \in Calls, NEW result, Return(c, result), req[c].pc # "idle",
         c = Reader /\ result.ok => /\ req[c].pc = "answered" /\ req[c].reply.status = 200
                                    /\ result.body = req[c].reply.body
  PROVE  ReaderMove
<1>1. req = [d \in Calls |-> req[d]] /\ Reader \in Calls
  BY DEF OnceInv, EgressTypeOK, Calls
<1>2. CASE c # Reader
  BY <1>1, <1>2 DEF Return, ReaderMove
<1>3. CASE c = Reader
  <2>1. req'[Reader] = Loop("done", req[Reader].attempt, req[Reader].query, None, result)
    BY <1>1, <1>3 DEF Return
  <2> QED BY <1>3, <2>1 DEF ReaderMove, Loop
<1> QED BY <1>2, <1>3

(* Another attempt. *)
LEMMA RetryMove ==
  ASSUME OnceInv, NEW c \in Calls, Retry(c), req[c].pc # "idle"
  PROVE  ReaderMove
<1>1. req = [d \in Calls |-> req[d]] /\ Reader \in Calls
  BY DEF OnceInv, EgressTypeOK, Calls
<1>2. CASE c # Reader
  BY <1>1, <1>2 DEF Retry, ReaderMove
<1>3. CASE c = Reader
  <2>1. PICK n : req'[Reader] = Loop("waiting", n, req[Reader].query, None, None)
    BY <1>1, <1>3 DEF Retry
  <2> QED BY <1>3, <2>1 DEF ReaderMove, Loop
<1> QED BY <1>2, <1>3

(* An answer that reaches its attempt. *)
LEMMA ReplyMove ==
  ASSUME OnceInv, NEW r \in wire, NEW response, Reply(r, response),
         r.call = Reader /\ response.status = 200 => response.body = Page(r.query)
  PROVE  ReaderMove
<1>1. req = [d \in Calls |-> req[d]] /\ Reader \in Calls /\ r.call \in Calls
  BY DEF OnceInv, EgressTypeOK, Calls
<1>2. CASE ~ Awaited(r) \/ r.call # Reader
  BY <1>1, <1>2 DEF Reply, ReaderMove
<1>3. CASE Awaited(r) /\ r.call = Reader
  <2>1. req'[Reader] = Loop("answered", req[Reader].attempt, req[Reader].query, response, None)
    BY <1>1, <1>3 DEF Reply
  <2>2. req[Reader].pc = "waiting" /\ r.query = req[Reader].query
    BY <1>3 DEF Awaited, Send
  <2> QED BY <1>3, <2>1, <2>2 DEF ReaderMove, Loop
<1> QED BY <1>2, <1>3

(* Whatever Stripe serves. *)
LEMMA ServeMove == ASSUME OnceInv, NEW r \in wire, Serve(r) PROVE ReaderMove
<1>1. ASSUME r.call = Reader, ServeList(r) PROVE ReaderMove
  <2>1. CASE Reply(r, Response(200, "", TRUE, Page(r.query)))
    BY <2>1, ReplyMove DEF Response
  <2>2. CASE Reply(r, Response(500, "", TRUE, None))
    <3>1. ASSUME NEW response, Reply(r, response), response.status # 200 PROVE ReaderMove
      BY <3>1, ReplyMove
    <3>2. Response(500, "", TRUE, None).status # 200
      BY DEF Response
    <3> QED BY <2>2, <3>1, <3>2
  <2> QED BY <1>1, <2>1, <2>2 DEF ServeList
<1>2. ASSUME NEW response, Reply(r, response), r.call \in Posts PROVE ReaderMove
  BY <1>2, ReplyMove, EgressAssumption
<1>3. CASE r.call \in Posts /\ ServeReplay(r)
  BY <1>2, <1>3 DEF ServeReplay
<1>4. CASE r.call \in Posts /\ ServeCharge(r)
  BY <1>2, <1>4 DEF ServeCharge
<1>5. CASE r.call \in Posts /\ ServeNothing(r)
  BY <1>2, <1>5 DEF ServeNothing
<1>6. CASE r.call \in Posts /\ ServeBusy(r)
  BY <1>2, <1>6 DEF ServeBusy
<1> QED BY <1>1, <1>3, <1>4, <1>5, <1>6 DEF Serve

(* All the steps of the client and of Stripe. *)
LEMMA ClientMove ==
  ASSUME OnceInv,
         \/ \E c \in Posts : post(c)
         \/ \E c \in Posts \cup {Reader} : ClientStep(c)
         \/ \E r \in wire : Serve(r)
  PROVE  ReaderMove
<1>1. ASSUME NEW c \in Posts, post(c) PROVE ReaderMove
  <2>1. req = [d \in Calls |-> req[d]] /\ Reader \in Calls /\ c # Reader
    BY EgressAssumption DEF OnceInv, EgressTypeOK, Calls
  <2> QED BY <1>1, <2>1 DEF post, Start, ReaderMove
<1>2. ASSUME NEW c \in Calls, TransportError(c) PROVE ReaderMove
  <2>1. req[c].pc # "idle"
    BY <1>2 DEF TransportError
  <2>2. CASE Return(c, StripeError(None, None))
    BY <2>1, <2>2, ReturnMove DEF StripeError
  <2>3. CASE Retry(c)
    BY <2>1, <2>3, RetryMove
  <2> QED BY <1>2, <2>2, <2>3 DEF TransportError
<1>3. ASSUME NEW c \in Calls, Receive(c) PROVE ReaderMove
  <2> DEFINE r == req[c].reply
  <2>1. req[c].pc = "answered"
    BY <1>3 DEF Receive
  <2>2. CASE Return(c, Success(r.body)) /\ r.status = 200
    BY <2>1, <2>2, ReturnMove DEF Success
  <2>3. ASSUME NEW s, NEW code, Return(c, StripeError(s, code)) PROVE ReaderMove
    BY <2>1, <2>3, ReturnMove DEF StripeError
  <2>4. CASE Retry(c)
    BY <2>1, <2>4, RetryMove
  <2> QED BY <1>3, <2>2, <2>3, <2>4 DEF Receive
<1> QED BY <1>1, <1>2, <1>3, ServeMove DEF ClientStep, Calls

-----------------------------------------------------------------------------
(* The reconciler. *)

IsRecon(x) ==
  x = [pc |-> x.pc, ledger |-> x.ledger, invariant |-> x.invariant, cursor |-> x.cursor,
       seen |-> x.seen, found |-> x.found, newest |-> x.newest]

(* What there is to say of the balance transactions from number a to b. *)
SaidOf(led, a, b) == UNION {Said(led, Nth(n)) : n \in a .. b}

AccountedOf(led, a, b) == UNION {Accounted(led, Nth(n)) : n \in a .. b}

(* These, and no others, were compared. *)
Compared(led, found, a, b) ==
  /\ IsFound(found)
  /\ found.checked = b - a + 1
  /\ found.breaks = SaidOf(led, a, b)
  /\ found.matched = AccountedOf(led, a, b)

NothingRead ==
  recon.cursor = None /\ recon.seen = {} /\ recon.found = NoneCompared /\ recon.newest = 0

(* All from the cursor up was compared, from the newest of the first page on. *)
ReadSoFar ==
  /\ recon.newest \in 1 .. Len(bts)
  /\ recon.cursor \in 1 .. recon.newest
  /\ recon.seen \subseteq recon.cursor .. recon.newest
  /\ Covers(recon.newest)
  /\ Compared(recon.ledger, recon.found, recon.cursor, recon.newest)

ReconInv ==
  /\ IsRecon(recon)
  /\ recon.pc \in {"idle", "loaded", "paging", "reported", "raised"}
  /\ recon.pc = "loaded" => NothingRead
  /\ recon.pc = "paging" => recon.invariant = {} /\ (NothingRead \/ ReadSoFar)
  /\ recon.pc = "reported" => /\ recon.newest \in 0 .. Len(bts)
                              /\ Compared(recon.ledger, recon.found, 1, recon.newest)

(* What was compared stays compared. *)
LEMMA ComparedStays ==
  ASSUME OnceInv, Numbered, [Next]_vars, NEW led, NEW found, NEW a \in Nat, a >= 1,
         NEW b \in 0 .. Len(bts), Compared(led, found, a, b)
  PROVE  Compared(led, found, a, b)'
<1>1. Len(bts) \in Nat /\ \A n \in 1 .. Len(bts) : Nth(n)' = Nth(n)
  BY ListGrows
<1>2. \A n \in a .. b : Nth(n)' = Nth(n)
  BY <1>1
<1>3. SaidOf(led, a, b)' = SaidOf(led, a, b)
  <2>1. \A n \in a .. b : Said(led, Nth(n)') = Said(led, Nth(n))
    BY <1>2
  <2>2. {Said(led, Nth(n)') : n \in a .. b} = {Said(led, Nth(n)) : n \in a .. b}
    BY <2>1
  <2> QED BY <2>2 DEF SaidOf
<1>4. AccountedOf(led, a, b)' = AccountedOf(led, a, b)
  <2>1. \A n \in a .. b : Accounted(led, Nth(n)') = Accounted(led, Nth(n))
    BY <1>2
  <2>2. {Accounted(led, Nth(n)') : n \in a .. b} = {Accounted(led, Nth(n)) : n \in a .. b}
    BY <2>1
  <2> QED BY <2>2 DEF AccountedOf
<1> QED BY <1>3, <1>4 DEF Compared

(* Steps that are not the reconciler's. *)
LEMMA ReconSame ==
  ASSUME OnceInv, Numbered, ReconInv, [Next]_vars, UNCHANGED recon
  PROVE  ReconInv'
<1>1. Len(bts) \in Nat /\ Len(bts)' \in Nat /\ Len(bts) <= Len(bts)'
  BY ListGrows
<1>2. NothingRead => NothingRead'
  BY DEF NothingRead
<1>3. ASSUME ReadSoFar PROVE ReadSoFar'
  <2>1. recon.newest \in 0 .. Len(bts) /\ recon.newest \in 1 .. Len(bts)' /\ recon.cursor \in Nat
        /\ recon.cursor >= 1
    BY <1>1, <1>3 DEF ReadSoFar
  <2>2. Covers(recon.newest)'
    BY <1>3, <2>1, CoversStays DEF ReadSoFar
  <2>3. Compared(recon.ledger, recon.found, recon.cursor, recon.newest)'
    BY <1>3, <2>1, ComparedStays DEF ReadSoFar
  <2> QED BY <1>3, <2>1, <2>2, <2>3 DEF ReadSoFar
<1>4. ASSUME recon.pc = "reported"
      PROVE  /\ recon.newest \in 0 .. Len(bts)'
             /\ Compared(recon.ledger, recon.found, 1, recon.newest)'
  <2>1. recon.newest \in 0 .. Len(bts) /\ Compared(recon.ledger, recon.found, 1, recon.newest)
    BY <1>4 DEF ReconInv
  <2>2. Compared(recon.ledger, recon.found, 1, recon.newest)'
    BY <2>1, ComparedStays
  <2> QED BY <1>1, <2>1, <2>2
<1> QED BY <1>2, <1>3, <1>4 DEF ReconInv

(* What was loaded keeps its place on the list. *)
LEMMA LoadedSame ==
  ASSUME OnceInv, Numbered, [Next]_vars, recon'.ledger = recon.ledger,
         Covers(Len(bts)), OneEach(recon.ledger)
  PROVE  Covers(Len(bts))' /\ OneEach(recon.ledger)'
<1>1. Len(bts) \in Nat /\ Len(bts)' \in Nat /\ Len(bts) <= Len(bts)'
      /\ \A n \in 1 .. Len(bts) : Nth(n)' = Nth(n)
  BY ListGrows
<1>2. ASSUME NEW t \in recon.ledger, t.object_id # NULL PROVE Known(t.object_id, Len(bts))'
  <2>1. PICK n \in 1 .. Len(bts) : Nth(n).source = t.object_id
    BY <1>2 DEF Covers, Known
  <2>2. n \in 1 .. Len(bts)' /\ Nth(n)'.source = t.object_id
    BY <1>1, <2>1
  <2> QED BY <2>2 DEF Known
<1> QED BY <1>2 DEF Covers, OneEach

(* The GET under way, through steps that are not the reconciler's. *)
LEMMA ReaderSame ==
  ASSUME OnceInv, Numbered, ReaderInv, LoadedInv, [Next]_vars, ReaderMove, UNCHANGED recon
  PROVE  ReaderInv'
<1> DEFINE q == req[Reader]
           x == req'[Reader]
<1>1. Len(bts) \in Nat /\ Len(bts)' \in Nat /\ Len(bts) <= Len(bts)'
  BY ListGrows
<1>2. \A page, query : IsPage(page, query) => IsPage(page, query)'
  BY PageStays
<1>3. CASE x = q
  BY <1>1, <1>2, <1>3 DEF ReaderInv
<1>4. CASE /\ q.pc # "idle" /\ x.pc # "idle" /\ x.query = q.query
           /\ \/ x.pc = "waiting"
              \/ /\ x.pc = "done"
                 /\ x.result.ok => /\ q.pc = "answered" /\ q.reply.status = 200
                                   /\ x.result.body = q.reply.body
              \/ /\ x.pc = "answered"
                 /\ x.reply.status = 200 => x.reply.body = Page(q.query)
  <2>1. EgressTypeOK /\ q.query \in {None} \cup 1 .. Len(bts) /\ Covers(Len(bts))
    BY <1>4 DEF OnceInv, ReaderInv, LoadedInv
  <2>2. IsPage(Page(q.query), q.query)
    BY <2>1, PageIs
  <2>3. x.query \in {None} \cup 1 .. Len(bts)'
    BY <1>1, <1>4, <2>1
  <2>4. x.pc = "answered" /\ x.reply.status = 200 => IsPage(q.reply.body, q.query)'
    BY <1>2, <1>4, <2>2
  <2>5. x.pc = "done" /\ x.result.ok => IsPage(q.result.body, q.query)'
    BY <1>2, <1>4 DEF ReaderInv
  <2> QED BY <1>4, <2>3, <2>4, <2>5 DEF ReaderInv
<1> QED BY <1>3, <1>4 DEF ReaderMove

(* The inductive invariant of the reconciler. *)
RecInv == Numbered /\ Booked /\ ReconInv /\ ReaderInv /\ LoadedInv

(* The loaded transactions are those of the ledger. *)
LEMMA LoadStep ==
  ASSUME RecInv, LoadLedger
  PROVE  ReconInv' /\ ReaderInv' /\ LoadedInv'
<1>1. /\ recon' = [NotRunning EXCEPT !.pc = "loaded", !.ledger = _load_ledger(ledger, NULL)]
      /\ req' = req /\ bts' = bts /\ recon.pc = "idle"
  BY DEF LoadLedger, egressVars
<1>2. recon'.ledger = {_LedgerTxn(t) : t \in ledger}
  BY <1>1 DEF _load_ledger, NotRunning
<1>3. /\ IsRecon(recon)' /\ recon'.pc = "loaded"
      /\ NothingRead'
  BY <1>1 DEF NotRunning, IsRecon, NothingRead
<1>4. \A t \in ledger : _LedgerTxn(t).object_id = t.object
  BY DEF _LedgerTxn
<1>5. Covers(Len(bts))'
  <2> SUFFICES ASSUME NEW u \in recon'.ledger, u.object_id # NULL
               PROVE  Known(u.object_id, Len(bts))'
    BY DEF Covers
  <2>1. PICK t \in ledger : u = _LedgerTxn(t)
    BY <1>2
  <2>2. u.object_id = t.object
    BY <1>4, <2>1
  <2>3. Known(u.object_id, Len(bts))
    BY <2>2 DEF RecInv, Booked
  <2> QED BY <1>1, <2>3 DEF Known, Nth
<1>6. OneEach(recon.ledger)'
  <2> SUFFICES ASSUME NEW u \in recon'.ledger, NEW v \in recon'.ledger,
                      SameNonNull(u.object_id, v.object_id)
               PROVE  u = v
    BY DEF OneEach
  <2>1. PICK s \in ledger : u = _LedgerTxn(s)
    BY <1>2
  <2>2. PICK t \in ledger : v = _LedgerTxn(t)
    BY <1>2
  <2>3. SameNonNull(s.object, t.object)
    BY <1>4, <2>1, <2>2
  <2> QED BY <2>1, <2>2, <2>3 DEF RecInv, Booked
<1>7. req[Reader].pc = "idle"
  BY <1>1 DEF RecInv, ReaderInv
<1>8. ReaderInv'
  BY <1>1, <1>3, <1>7 DEF ReaderInv
<1> QED BY <1>3, <1>5, <1>6, <1>8 DEF ReconInv, LoadedInv

(* Books that balance give the invariant nothing to say. *)
LEMMA NoInvariantBreak == Booked => _invariant_breaks(ledger) = {}
<1> SUFFICES ASSUME Booked, NEW cur
             PROVE  LedgerSum(ledger, "debit", cur) = LedgerSum(ledger, "credit", cur)
  BY DEF _invariant_breaks
<1>1. \A t \in ledger : NormalSum(t.entries, "debit", cur) = NormalSum(t.entries, "credit", cur)
  BY DEF Booked, Nets
<1>2. [t \in ledger |-> NormalSum(t.entries, "debit", cur)]
        = [t \in ledger |-> NormalSum(t.entries, "credit", cur)]
  BY <1>1
<1> QED BY <1>2 DEF LedgerSum

(* A GET of the reconciler begins. *)
LEMMA GetMove ==
  ASSUME OnceInv, NEW query, get(query)
  PROVE  /\ req'[Reader].pc = "waiting" /\ req'[Reader].query = query
         /\ bts' = bts
<1>1. req = [d \in Calls |-> req[d]] /\ Reader \in Calls
  BY DEF OnceInv, EgressTypeOK, Calls
<1> QED BY <1>1 DEF get, Start, Loop

(* The first page is asked for. *)
LEMMA CheckStep ==
  ASSUME OnceInv, RecInv, CheckInvariant, [Next]_vars
  PROVE  ReconInv' /\ ReaderInv' /\ LoadedInv'
<1>1. /\ recon.pc = "loaded" /\ get(None)
      /\ recon' = [recon EXCEPT !.pc = "paging", !.invariant = {}]
  BY NoInvariantBreak DEF CheckInvariant, RecInv
<1>2. IsRecon(recon) /\ NothingRead
  BY <1>1 DEF RecInv, ReconInv
<1>3. /\ IsRecon(recon)' /\ recon'.pc = "paging" /\ recon'.invariant = {}
      /\ NothingRead' /\ recon'.ledger = recon.ledger /\ recon'.cursor = None
  BY <1>1, <1>2 DEF IsRecon, NothingRead
<1>4. req'[Reader].pc = "waiting" /\ req'[Reader].query = None
  BY <1>1, GetMove
<1>5. ReaderInv'
  BY <1>3, <1>4 DEF ReaderInv
<1>6. LoadedInv'
  BY <1>1, <1>3, LoadedSame DEF RecInv, LoadedInv
<1> QED BY <1>3, <1>5, <1>6 DEF ReconInv

(* The reconciliation gives up. *)
LEMMA RaiseStep ==
  ASSUME OnceInv, RecInv, ReconRaises, [Next]_vars
  PROVE  ReconInv' /\ ReaderInv' /\ LoadedInv'
<1>1. recon.pc = "paging" /\ recon' = [recon EXCEPT !.pc = "raised"] /\ req' = req /\ bts' = bts
  BY DEF ReconRaises, egressVars
<1>2. IsRecon(recon)
  BY DEF RecInv, ReconInv
<1>3. IsRecon(recon)' /\ recon'.pc = "raised" /\ recon'.ledger = recon.ledger
  BY <1>1, <1>2 DEF IsRecon
<1>4. LoadedInv'
  BY <1>1, <1>3, LoadedSame DEF RecInv, LoadedInv
<1>5. \A page, query : IsPage(page, query) => IsPage(page, query)'
  BY <1>3, PageStays DEF RecInv
<1>6. ReaderInv'
  BY <1>1, <1>3, <1>5 DEF RecInv, ReaderInv
<1> QED BY <1>3, <1>4, <1>6 DEF ReconInv

(* Unions over intervals. *)
LEMMA AllSplit ==
  ASSUME NEW f, NEW a \in Int, NEW m \in Int, NEW b \in Int, a <= m + 1, m <= b
  PROVE  All(f, a .. b) = All(f, a .. m) \cup All(f, (m + 1) .. b)
<1>1. a .. b = (a .. m) \cup ((m + 1) .. b)
  OBVIOUS
<1> HIDE DEF All
<1>2. ASSUME NEW s, NEW u PROVE All(f, s \cup u) = All(f, s) \cup All(f, u)
  <2>1. ASSUME NEW y PROVE y \in All(f, s \cup u) <=> y \in All(f, s) \/ y \in All(f, u)
    BY DEF All
  <2> QED BY <2>1
<1> QED BY <1>1, <1>2

(* The same sets in another order. *)
LEMMA AllSame ==
  ASSUME NEW f, NEW g, NEW s, NEW u,
         \A i \in s : \E k \in u : g[i] = f[k],
         \A k \in u : \E i \in s : g[i] = f[k]
  PROVE  All(g, s) = All(f, u)
<1>1. ASSUME NEW y \in All(g, s) PROVE y \in All(f, u)
  BY <1>1 DEF All
<1>2. ASSUME NEW y \in All(f, u) PROVE y \in All(g, s)
  BY <1>2 DEF All
<1> QED BY <1>1, <1>2

(* One page more was compared. *)
LEMMA PageCompared ==
  ASSUME OneEach(recon.ledger), NEW page, NEW top \in Nat, PageFrom(page, top),
         NEW hi \in Nat, top <= hi, NEW found, Compared(recon.ledger, found, top + 1, hi)
  PROVE  Compared(recon.ledger, CompareAll(found, page.data), top - Len(page.data) + 1, hi)
<1> DEFINE led == recon.ledger
           data == page.data
           n == Len(data)
           low == top - n + 1
           f == [k \in Int |-> Said(led, Nth(k))]
           h == [k \in Int |-> Accounted(led, Nth(k))]
           ff == [i \in DOMAIN data |-> Said(led, data[i])]
           hh == [i \in DOMAIN data |-> Accounted(led, data[i])]
           new == CompareAll(found, data)
<1>1. /\ data \in Seq(BalanceTransaction) /\ n \in Nat /\ n <= top /\ DOMAIN data = 1 .. n
      /\ \A i \in 1 .. n : data[i] = Nth(top - i + 1)
  <2>1. limit \in Nat
    BY EgressAssumption
  <2>2. /\ data \in Seq(BalanceTransaction) /\ \A i \in 1 .. n : data[i] = Nth(top - i + 1)
        /\ n = IF limit < top THEN limit ELSE top
    BY DEF PageFrom
  <2> HIDE DEF data
  <2> QED BY <2>1, <2>2
<1>2. IsFound(found) /\ found.checked = hi - (top + 1) + 1 /\ found.checked \in Int
  BY DEF Compared
<1>3. /\ IsFound(new)
      /\ new.breaks = found.breaks \cup UNION {Said(led, data[i]) : i \in DOMAIN data}
      /\ new.matched = found.matched \cup UNION {Accounted(led, data[i]) : i \in DOMAIN data}
      /\ new.checked = found.checked + n
  BY <1>1, <1>2, CompareAllIs
<1>4. /\ SaidOf(led, top + 1, hi) = All(f, (top + 1) .. hi)
      /\ SaidOf(led, low, hi) = All(f, low .. hi)
  <2>1. ASSUME NEW a \in Int, NEW b \in Int PROVE SaidOf(led, a, b) = All(f, a .. b)
    <3>1. {f[k] : k \in a .. b} = {Said(led, Nth(k)) : k \in a .. b}
      OBVIOUS
    <3> HIDE DEF f, led
    <3> QED BY <3>1 DEF All, SaidOf
  <2>2. top + 1 \in Int /\ low \in Int /\ hi \in Int
    BY <1>1
  <2> HIDE DEF f, led, low
  <2> QED BY <2>1, <2>2
<1>5. /\ AccountedOf(led, top + 1, hi) = All(h, (top + 1) .. hi)
      /\ AccountedOf(led, low, hi) = All(h, low .. hi)
  <2>1. ASSUME NEW a \in Int, NEW b \in Int PROVE AccountedOf(led, a, b) = All(h, a .. b)
    <3>1. {h[k] : k \in a .. b} = {Accounted(led, Nth(k)) : k \in a .. b}
      OBVIOUS
    <3> HIDE DEF h, led
    <3> QED BY <3>1 DEF All, AccountedOf
  <2>2. top + 1 \in Int /\ low \in Int /\ hi \in Int
    BY <1>1
  <2> HIDE DEF h, led, low
  <2> QED BY <2>1, <2>2
<1>6. /\ UNION {Said(led, data[i]) : i \in DOMAIN data} = All(ff, 1 .. n)
      /\ UNION {Accounted(led, data[i]) : i \in DOMAIN data} = All(hh, 1 .. n)
  <2>1. {ff[i] : i \in DOMAIN data} = {Said(led, data[i]) : i \in DOMAIN data}
    OBVIOUS
  <2>2. {hh[i] : i \in DOMAIN data} = {Accounted(led, data[i]) : i \in DOMAIN data}
    OBVIOUS
  <2> HIDE DEF ff, hh, data, led, n
  <2> QED BY <1>1, <2>1, <2>2 DEF All
<1>7. \A i \in 1 .. n : ff[i] = f[top - i + 1] /\ hh[i] = h[top - i + 1]
  <2> HIDE DEF data, led
  <2> QED BY <1>1
<1> HIDE DEF f, h, ff, hh, data, led, n, new
<1>8. All(ff, 1 .. n) = All(f, low .. top) /\ All(hh, 1 .. n) = All(h, low .. top)
  <2>1. ASSUME NEW i \in 1 .. n
        PROVE  \E k \in low .. top : ff[i] = f[k] /\ hh[i] = h[k]
    <3>1. top - i + 1 \in low .. top
      BY <1>1
    <3> QED BY <1>7, <3>1
  <2>2. ASSUME NEW k \in low .. top
        PROVE  \E i \in 1 .. n : ff[i] = f[k] /\ hh[i] = h[k]
    <3>1. top - k + 1 \in 1 .. n /\ top - (top - k + 1) + 1 = k
      BY <1>1
    <3> QED BY <1>7, <3>1
  <2> DEFINE S == 1 .. n
             U == low .. top
  <2>3. /\ \A i \in S : \E k \in U : ff[i] = f[k]
        /\ \A k \in U : \E i \in S : ff[i] = f[k]
    BY <2>1, <2>2
  <2>4. /\ \A i \in S : \E k \in U : hh[i] = h[k]
        /\ \A k \in U : \E i \in S : hh[i] = h[k]
    BY <2>1, <2>2
  <2> HIDE DEF S, U
  <2>5. All(ff, S) = All(f, U)
    BY ONLY <2>3, AllSame
  <2>6. All(hh, S) = All(h, U)
    BY ONLY <2>4, AllSame
  <2> QED BY <2>5, <2>6 DEF S, U
<1>9. low \in Int /\ low <= top + 1 /\ hi - low + 1 = (hi - (top + 1) + 1) + n
  BY <1>1
<1> HIDE DEF low
<1>10. /\ All(f, low .. hi) = All(f, low .. top) \cup All(f, (top + 1) .. hi)
       /\ All(h, low .. hi) = All(h, low .. top) \cup All(h, (top + 1) .. hi)
  BY <1>9, AllSplit
<1>11. found.breaks = SaidOf(led, top + 1, hi) /\ found.matched = AccountedOf(led, top + 1, hi)
  BY DEF Compared, led
<1>12. new.breaks = SaidOf(led, low, hi)
  BY <1>3, <1>4, <1>6, <1>8, <1>10, <1>11
<1>13. new.matched = AccountedOf(led, low, hi)
  BY <1>3, <1>5, <1>6, <1>8, <1>10, <1>11
<1>14. new.checked = hi - low + 1
  BY <1>2, <1>3, <1>9
<1>15. Compared(led, new, low, hi)
  BY <1>3, <1>12, <1>13, <1>14 DEF Compared
<1> QED BY <1>15 DEF led, new, low, n, data

(* The page in hand goes on where the last one ended, or is the first. *)
LEMMA PageTaken ==
  ASSUME OnceInv, RecInv, recon.pc = "paging", req[Reader].pc = "done", req[Reader].result.ok
  PROVE  LET page == req[Reader].result.body IN
         \E top \in Nat, hi \in Nat :
           /\ PageFrom(page, top) /\ top <= hi /\ hi <= Len(bts) /\ Covers(hi)
           /\ Compared(recon.ledger, recon.found, top + 1, hi)
           /\ recon.seen \subseteq (top + 1) .. hi
           /\ hi = IF recon.newest = 0 /\ page.data # <<>> THEN page.data[1].id ELSE recon.newest
<1> DEFINE page == req[Reader].result.body
<1>0. EgressTypeOK /\ Numbered /\ Len(bts) \in Nat
  BY NthIs DEF OnceInv, RecInv
<1>1. PICK top \in 0 .. Len(bts) :
        PageFrom(page, top) /\ IF recon.cursor = None THEN Covers(top) ELSE top = recon.cursor - 1
  BY DEF RecInv, ReaderInv, IsPage
<1>2. top \in Nat /\ limit \in Nat /\ limit > 0 /\ None \notin Nat
  BY <1>0, EgressAssumption
<1> HIDE DEF page
<1>3. CASE NothingRead
  <2>1. Covers(top) /\ recon.seen \subseteq (top + 1) .. top /\ recon.newest = 0
    BY <1>1, <1>3 DEF NothingRead
  <2>2. Compared(recon.ledger, recon.found, top + 1, top)
    <3>1. (top + 1) .. top = {} /\ top - (top + 1) + 1 = 0
      BY <1>2
    <3>2. SaidOf(recon.ledger, top + 1, top) = {} /\ AccountedOf(recon.ledger, top + 1, top) = {}
      BY <3>1 DEF SaidOf, AccountedOf
    <3>3. recon.found = [breaks |-> {}, matched |-> {}, checked |-> 0]
      BY <1>3 DEF NothingRead, NoneCompared
    <3> QED BY <3>1, <3>2, <3>3 DEF Compared, IsFound
  <2>3. top = IF recon.newest = 0 /\ page.data # <<>> THEN page.data[1].id ELSE recon.newest
    <3>1. page.data \in Seq(BalanceTransaction) /\ Len(page.data) \in Nat
          /\ Len(page.data) = IF limit < top THEN limit ELSE top
      BY <1>1 DEF PageFrom
    <3>2. CASE top = 0
      <4>1. Len(page.data) = 0
        BY <1>2, <3>1, <3>2
      <4>2. page.data = <<>>
        BY <3>1, <4>1
      <4> QED BY <2>1, <3>2, <4>2
    <3>3. CASE top > 0
      <4>1. 1 \in 1 .. Len(page.data) /\ top - 1 + 1 = top /\ top \in 1 .. Len(bts)
        BY <1>0, <1>2, <3>1, <3>3
      <4>2. page.data # <<>>
        BY <3>1, <4>1
      <4>3. page.data[1] = Nth(top)
        BY <1>1, <4>1 DEF PageFrom
      <4>4. Nth(top).id = top
        BY <1>0, <4>1, NthIs
      <4> QED BY <2>1, <4>2, <4>3, <4>4
    <3> QED BY <1>2, <3>2, <3>3
  <2>4. top <= top /\ top <= Len(bts) /\ PageFrom(page, top)
    BY <1>0, <1>1, <1>2
  <2> QED BY <1>2, <2>1, <2>2, <2>3, <2>4 DEF page
<1>4. CASE ReadSoFar
  <2>1. /\ recon.newest \in 1 .. Len(bts) /\ recon.cursor \in 1 .. recon.newest
        /\ recon.seen \subseteq recon.cursor .. recon.newest /\ Covers(recon.newest)
        /\ Compared(recon.ledger, recon.found, recon.cursor, recon.newest)
    BY <1>4 DEF ReadSoFar
  <2>2. recon.cursor # None /\ recon.cursor \in Nat /\ recon.newest \in Nat /\ recon.newest # 0
    BY <1>0, <1>2, <2>1
  <2>3. top + 1 = recon.cursor /\ top <= recon.newest
    BY <1>1, <1>2, <2>1, <2>2
  <2> QED BY <1>1, <1>2, <2>1, <2>2, <2>3 DEF page
<1> QED BY <1>3, <1>4 DEF RecInv, ReconInv

(* Nothing is left over when the list was read to its end. *)
LEMMA AllMatched ==
  ASSUME NEW hi \in Nat, Covers(hi), NEW found, Compared(recon.ledger, found, 1, hi)
  PROVE  Unmatched(recon.ledger, found.matched) = {}
<1> SUFFICES ASSUME NEW t \in recon.ledger, t.object_id # NULL PROVE t.txn_id \in found.matched
  BY DEF Unmatched
<1>1. PICK n \in 1 .. hi : Nth(n).source = t.object_id
  BY DEF Covers, Known
<1>2. t \in CandidatesOf(recon.ledger, Nth(n))
  BY <1>1 DEF CandidatesOf, SameNonNull, _source_id
<1>3. t.txn_id \in Accounted(recon.ledger, Nth(n))
  BY <1>2 DEF Accounted
<1>4. found.matched = AccountedOf(recon.ledger, 1, hi)
  BY DEF Compared
<1> QED BY <1>3, <1>4 DEF AccountedOf

(* Another page is asked for exactly when the list goes on; the cursor has always
   advanced. *)
LEMMA MoreIs ==
  ASSUME OnceInv, Numbered, NEW page, NEW top \in Nat, NEW hi \in Nat, PageFrom(page, top),
         top <= hi, hi <= Len(bts), recon.seen \subseteq (top + 1) .. hi
  PROVE  LET n == Len(page.data) IN
         /\ n \in Nat /\ (MorePages(page) <=> limit < top)
         /\ limit < top => /\ NextCursor(page.data) = top - n + 1
                           /\ top - n + 1 \in 1 .. top
         /\ ~ (limit < top) => n = top
<1> DEFINE n == Len(page.data)
           low == top - n + 1
<1>1. EgressTypeOK /\ Len(bts) \in Nat /\ limit \in Nat /\ limit > 0
  BY NthIs, EgressAssumption DEF OnceInv
<1>2. /\ page.data \in Seq(BalanceTransaction) /\ n \in Nat
      /\ n = IF limit < top THEN limit ELSE top
      /\ \A i \in 1 .. n : page.data[i] = Nth(top - i + 1)
      /\ page.has_more = (limit < top)
  BY DEF PageFrom
<1>3. ASSUME limit < top PROVE MorePages(page) /\ NextCursor(page.data) = low /\ low \in 1 .. top
  <2>1. n \in 1 .. n /\ low \in 1 .. top /\ low \in 1 .. Len(bts) /\ n # 0
    BY <1>1, <1>2, <1>3
  <2>2. page.data[n] = Nth(low)
    BY <1>2, <2>1
  <2>3. Nth(low).id = low
    BY <1>1, <2>1, NthIs
  <2>4. page.data # <<>>
    BY <1>2, <2>1
  <2>5. low \notin recon.seen
    <3> HIDE DEF low
    <3>1. \A k \in (top + 1) .. hi : k # low
      BY <2>1
    <3> QED BY <3>1
  <2>6. NextCursor(page.data) = low
    BY <2>2, <2>3 DEF NextCursor
  <2> QED BY <1>2, <1>3, <2>1, <2>4, <2>5, <2>6 DEF MorePages
<1>4. ASSUME ~ (limit < top) PROVE ~ MorePages(page) /\ n = top
  BY <1>2, <1>4 DEF MorePages
<1> QED BY <1>2, <1>3, <1>4

(* A page is taken: the next one is asked for, or the report is made. *)
LEMMA TakeStep ==
  ASSUME OnceInv, RecInv, TakePage, [Next]_vars
  PROVE  ReconInv' /\ ReaderInv' /\ LoadedInv'
<1> DEFINE page == req[Reader].result.body
           new == CompareAll(recon.found, page.data)
           mark == IF recon.newest = 0 /\ page.data # <<>> THEN page.data[1].id ELSE recon.newest
           n == Len(page.data)
<1>1. recon.pc = "paging" /\ req[Reader].pc = "done" /\ req[Reader].result.ok
  BY DEF TakePage
<1>2. IsRecon(recon) /\ recon.invariant = {} /\ Covers(Len(bts)) /\ OneEach(recon.ledger)
      /\ Numbered
  BY <1>1 DEF RecInv, ReconInv, LoadedInv
<1>3. PICK top \in Nat, hi \in Nat :
        /\ PageFrom(page, top) /\ top <= hi /\ hi <= Len(bts) /\ Covers(hi)
        /\ Compared(recon.ledger, recon.found, top + 1, hi)
        /\ recon.seen \subseteq (top + 1) .. hi
        /\ hi = mark
  BY <1>1, PageTaken
<1>4. Compared(recon.ledger, new, top - n + 1, hi)
  BY <1>2, <1>3, PageCompared
<1>5. /\ n \in Nat /\ (MorePages(page) <=> limit < top)
      /\ limit < top => NextCursor(page.data) = top - n + 1 /\ top - n + 1 \in 1 .. top
      /\ ~ (limit < top) => n = top
  BY <1>2, <1>3, MoreIs
<1>9. top <= hi /\ hi <= Len(bts)
  BY <1>3
<1>6. Len(bts) \in Nat /\ limit \in Nat /\ hi \in 0 .. Len(bts)
  <2>1. Len(bts) \in Nat
    BY <1>2, ListGrows
  <2>2. limit \in Nat
    BY EgressAssumption
  <2>3. hi \in Nat
    OBVIOUS
  <2> QED BY ONLY <1>9, <2>1, <2>2, <2>3
<1> PICK found : found = new
  OBVIOUS
<1>7. CASE limit < top
  <2> PICK low : low = top - n + 1
    OBVIOUS
  <2>1. /\ recon' = [recon EXCEPT !.found = found, !.newest = hi,
                                  !.cursor = low, !.seen = @ \cup {low}]
        /\ get(low)
    <3>1. MorePages(page) /\ NextCursor(page.data) = low
      BY <1>5, <1>7
    <3>2. TakePage
      OBVIOUS
    <3>3. recon' = [[recon EXCEPT !.found = found, !.newest = mark]
                      EXCEPT !.cursor = low, !.seen = @ \cup {low}]
          /\ get(low)
      BY <3>1, <3>2 DEF TakePage
    <3> HIDE DEF new, mark
    <3> QED BY <1>2, <1>3, <3>3 DEF IsRecon
  <2>2. low \in 1 .. top /\ hi \in 1 .. Len(bts) /\ low \in 1 .. hi /\ low \in 1 .. Len(bts)
    <3>1. low \in 1 .. top
      BY <1>5, <1>7
    <3>2. top \in Nat /\ hi \in Nat
      OBVIOUS
    <3> QED BY ONLY <1>6, <1>9, <3>1, <3>2
  <2>3. bts' = bts /\ req'[Reader].pc = "waiting" /\ req'[Reader].query = low
    BY <2>1, GetMove
  <2>4. recon.seen \cup {low} \subseteq low .. hi
    <3>1. low \in low .. hi /\ \A k \in (top + 1) .. hi : k \in low .. hi
      <4>1. top \in Nat /\ hi \in Nat
        OBVIOUS
      <4> QED BY ONLY <2>2, <4>1
    <3> QED BY <1>3, <3>1
  <2>5. Compared(recon.ledger, found, low, hi)
    BY <1>4
  <2> HIDE DEF new, page, n
  <2>6. /\ IsRecon(recon)' /\ recon'.pc = "paging" /\ recon'.invariant = {}
        /\ recon'.ledger = recon.ledger /\ recon'.cursor = low /\ recon'.newest = hi
        /\ recon'.seen = recon.seen \cup {low} /\ recon'.found = found
    BY <1>1, <1>2, <2>1 DEF IsRecon
  <2>7. Covers(hi)'
    BY <1>2, <1>3, <1>6, <2>2, <2>6, CoversStays
  <2>8. Compared(recon.ledger, found, low, hi)'
    BY <1>2, <1>6, <2>2, <2>5, <2>6, ComparedStays
  <2>9. ReadSoFar'
    BY <2>2, <2>3, <2>4, <2>6, <2>7, <2>8 DEF ReadSoFar
  <2>10. ReconInv'
    BY <2>6, <2>9 DEF ReconInv
  <2>11. ReaderInv'
    BY <2>2, <2>3, <2>6 DEF ReaderInv
  <2>12. LoadedInv'
    BY <1>2, <2>6, LoadedSame DEF LoadedInv
  <2> QED BY <2>10, <2>11, <2>12
<1>8. CASE ~ (limit < top)
  <2>1. n = top /\ top - n + 1 = 1
    BY <1>5, <1>8
  <2>2. Compared(recon.ledger, found, 1, hi)
    BY <1>4, <2>1
  <2>3. Unmatched(recon.ledger, found.matched) = {}
    BY <1>3, <2>2, AllMatched
  <2>4. IsFound(found)
    BY <2>2 DEF Compared
  <2>5. req' = req /\ bts' = bts
        /\ recon' = [[recon EXCEPT !.found = found, !.newest = mark]
                       EXCEPT !.pc = "reported",
                              !.found.breaks = @ \cup Unmatched(recon.ledger, found.matched)
                                                 \cup recon.invariant]
    <3>1. ~ MorePages(page)
      BY <1>5, <1>8
    <3>2. TakePage
      OBVIOUS
    <3> QED BY <3>1, <3>2 DEF TakePage, egressVars, LedgerRead
  <2>6. /\ IsRecon(recon)' /\ recon'.pc = "reported"
        /\ recon'.ledger = recon.ledger /\ recon'.newest = hi /\ recon'.found = found
    <3>1. hi = mark
      BY <1>3
    <3> HIDE DEF new, mark
    <3>2. /\ IsRecon(recon)' /\ recon'.pc = "reported"
          /\ recon'.ledger = recon.ledger /\ recon'.newest = mark
          /\ recon'.found = [found EXCEPT !.breaks = @ \cup Unmatched(recon.ledger, found.matched)
                                                        \cup recon.invariant]
      BY <1>2, <2>5 DEF IsRecon
    <3>3. recon'.found = [found EXCEPT !.breaks = @]
      BY <1>2, <2>3, <3>2
    <3>4. [found EXCEPT !.breaks = @] = found
      BY <2>4 DEF IsFound
    <3> QED BY <3>1, <3>2, <3>3, <3>4
  <2> HIDE DEF new, page, n
  <2>7. Compared(recon.ledger, found, 1, hi)'
    BY <1>2, <1>6, <2>2, <2>6, ComparedStays
  <2>8. hi \in 0 .. Len(bts)'
    BY <1>6, <2>5
  <2>9. ReconInv'
    BY <2>6, <2>7, <2>8 DEF ReconInv
  <2>10. \A p, query : IsPage(p, query) => IsPage(p, query)'
    BY <1>2, <2>6, PageStays
  <2>11. ReaderInv'
    BY <2>5, <2>6, <2>10 DEF RecInv, ReaderInv
  <2>12. LoadedInv'
    BY <1>2, <2>6, LoadedSame DEF LoadedInv
  <2> QED BY <2>9, <2>11, <2>12
<1> QED BY <1>7, <1>8

(* Nothing has run yet. *)
LEMMA RecStart == Init => RecInv
<1> SUFFICES ASSUME Init PROVE RecInv
  OBVIOUS
<1>1. recon = NotRunning /\ req[Reader].pc = "idle"
  BY DEF Init, Idle, Loop
<1>2. IsRecon(recon) /\ recon.pc = "idle"
  BY <1>1 DEF IsRecon, NotRunning
<1>3. ReconInv
  BY <1>2 DEF ReconInv
<1>4. ReaderInv
  BY <1>1, <1>2 DEF ReaderInv
<1> QED BY <1>2, <1>3, <1>4, BookedStart DEF RecInv, LoadedInv

(* The invariant of the reconciler is inductive. *)
LEMMA RecStep == OnceInv /\ ProposalOK /\ RecInv /\ [Next]_vars => RecInv'
<1> SUFFICES ASSUME OnceInv, ProposalOK, RecInv, [Next]_vars PROVE RecInv'
  OBVIOUS
<1>1. Numbered' /\ Booked'
  BY ListGrows, BookedStep DEF RecInv
<1> SUFFICES ReconInv' /\ ReaderInv' /\ LoadedInv'
  BY <1>1 DEF RecInv
<1>2. ASSUME UNCHANGED recon, ReaderMove PROVE ReconInv' /\ ReaderInv' /\ LoadedInv'
  <2>1. ReconInv' /\ ReaderInv'
    BY <1>2, ReconSame, ReaderSame DEF RecInv
  <2>2. LoadedInv'
    BY <1>2, LoadedSame DEF RecInv, LoadedInv
  <2> QED BY <2>1, <2>2
<1>3. CASE /\ \/ \E c \in Posts : post(c)
              \/ \E c \in Posts \cup {Reader} : ClientStep(c)
              \/ \E r \in wire : Serve(r)
           /\ UNCHANGED <<bookVars, recon>>
  <2>1. UNCHANGED recon
    BY <1>3 DEF bookVars
  <2>2. ReaderMove
    BY <1>3, ClientMove
  <2> QED BY <1>2, <2>1, <2>2
<1>4. CASE WorkerPosts \/ Triage \/ (\E who \in Approvers : Approve(who)) \/ UNCHANGED vars
  <2>1. UNCHANGED recon /\ req' = req
    BY <1>4 DEF WorkerPosts, Triage, Approve, vars, egressVars
  <2>2. ReaderMove
    BY <2>1 DEF ReaderMove
  <2> QED BY <1>2, <2>1, <2>2
<1>5. CASE LoadLedger
  BY <1>5, LoadStep
<1>6. CASE CheckInvariant
  BY <1>6, CheckStep
<1>7. CASE TakePage
  BY <1>7, TakeStep
<1>8. CASE ReconRaises
  BY <1>8, RaiseStep
<1> QED BY <1>3, <1>4, <1>5, <1>6, <1>7, <1>8 DEF Next

(* Nothing that is said of a balance transaction accuses the ledger. *)
LEMMA SaidKinds ==
  ASSUME NEW led, NEW a, NEW b, NEW x \in SaidOf(led, a, b)
  PROVE  x.kind # "missing_in_source"
<1>1. PICK n \in a .. b : x \in Said(led, Nth(n))
  BY DEF SaidOf
<1> DEFINE bt == Nth(n)
<1> HIDE DEF bt
<1>2. x \in Said(led, bt)
  BY <1>1 DEF bt
<1>3. CASE CandidatesOf(led, bt) = {}
  BY <1>2, <1>3 DEF Said, Break
<1>4. CASE CandidatesOf(led, bt) # {}
  <2>1. PICK t \in CandidatesOf(led, bt) : x \in Off(t, bt)
    BY <1>2, <1>4 DEF Said
  <2> QED BY <2>1 DEF Off, Break
<1> QED BY <1>3, <1>4

(* NoPhantom is a part of it. *)
LEMMA PhantomFree == RecInv => NoPhantom
<1> SUFFICES ASSUME RecInv, NEW x \in recon.found.breaks, recon.pc \in {"paging", "reported"}
             PROVE  x.kind # "missing_in_source"
  BY DEF NoPhantom
<1>1. CASE NothingRead
  BY <1>1 DEF NothingRead, NoneCompared
<1>2. CASE \E a, b : Compared(recon.ledger, recon.found, a, b)
  BY <1>2, SaidKinds DEF Compared
<1> QED BY <1>1, <1>2 DEF RecInv, ReconInv, ReadSoFar

(* The reconciler never accuses the ledger of money Stripe does not know
   (NoPhantom): whatever is loaded was on Stripe's list before the first page was
   served, for any number of charges, retries, postings and repairs meanwhile. *)
THEOREM NothingInvented == Spec => []NoPhantom
<1>1. Init => OnceInv /\ ProposalOK /\ RecInv
  BY OnceStart, RecStart DEF Init, ProposalOK
<1>2. OnceInv /\ ProposalOK /\ RecInv /\ [Next]_vars => OnceInv' /\ ProposalOK' /\ RecInv'
  BY OnceStep, ProposalStep, RecStep
<1> QED BY <1>1, <1>2, PhantomFree, PTL DEF Spec

(* The balance transactions the report is about. *)
LEMMA ListedIs ==
  ASSUME EgressTypeOK, Numbered, NEW hi \in 0 .. Len(bts)
  PROVE  LET listed == {bts[k] : k \in {j \in DOMAIN bts : bts[j].id <= hi}} IN
         /\ listed = {Nth(n) : n \in 1 .. hi}
         /\ Cardinality(listed) = hi
<1> DEFINE listed == {bts[k] : k \in {j \in DOMAIN bts : bts[j].id <= hi}}
           f == [n \in 1 .. hi |-> Nth(n)]
<1>1. /\ Len(bts) \in Nat /\ DOMAIN bts = 1 .. Len(bts)
      /\ \A n \in 1 .. Len(bts) : Nth(n) \in BalanceTransaction /\ Nth(n).id = n
      /\ \A k \in 1 .. Len(bts) : bts[k].id \in 1 .. Len(bts) /\ bts[k] = Nth(bts[k].id)
  BY NthIs
<1>2. ASSUME NEW x \in listed PROVE \E n \in 1 .. hi : x = Nth(n)
  <2>1. PICK k \in DOMAIN bts : x = bts[k] /\ bts[k].id <= hi
    BY <1>2
  <2>2. bts[k].id \in 1 .. hi /\ x = Nth(bts[k].id)
    BY <1>1, <2>1
  <2> QED BY <2>2
<1>3. ASSUME NEW n \in 1 .. hi PROVE Nth(n) \in listed
  <2>1. n \in 1 .. Len(bts) /\ Len(bts) - n + 1 \in 1 .. Len(bts)
    BY <1>1
  <2>2. Nth(n) = bts[Len(bts) - n + 1] /\ Nth(n).id = n
    BY <1>1, <2>1 DEF Nth
  <2>3. n <= hi
    BY <1>1
  <2> QED BY <1>1, <2>1, <2>2, <2>3
<1> HIDE DEF listed
<1>4. listed = {Nth(n) : n \in 1 .. hi}
  BY <1>2, <1>3
<1>5. f \in Bijection(1 .. hi, listed)
  <2>1. f \in [1 .. hi -> listed]
    BY <1>3
  <2>2. ASSUME NEW m \in 1 .. hi, NEW n \in 1 .. hi, f[m] = f[n] PROVE m = n
    <3>1. m \in 1 .. Len(bts) /\ n \in 1 .. Len(bts)
      BY <1>1
    <3> QED BY <1>1, <2>2, <3>1
  <2>3. ASSUME NEW x \in listed PROVE \E n \in 1 .. hi : f[n] = x
    BY <1>2
  <2> HIDE DEF f
  <2> QED BY <2>1, <2>2, <2>3 DEF Bijection, Injection, Surjection, IsInjective
<1>6. IsFiniteSet(1 .. hi) /\ Cardinality(1 .. hi) = hi
  <2>1. hi \in Nat /\ 1 \in Int /\ hi \in Int /\ (1 > hi => hi = 0) /\ hi - 1 + 1 = hi
    BY <1>1
  <2> QED BY <2>1, FS_Interval
<1>7. Cardinality(listed) = hi
  BY <1>5, <1>6, FS_Bijection DEF ExistsBijection
<1> QED BY <1>4, <1>7 DEF listed

(* The two comparisons, as the report words them. *)
LEMMA OffIs ==
  ASSUME NEW t, NEW bt
  PROVE  LET got  == t.delta["stripe_balance"] + t.delta["processing_fees"]
             fees == t.delta["processing_fees"]
         IN  Off(t, bt)
               = (IF bt.amount = got THEN {}
                  ELSE {Break("amount_mismatch", bt.source, t.event_id, bt.amount, got)})
                 \cup (IF bt.fee = fees THEN {}
                       ELSE {Break("fee_mismatch", bt.source, t.event_id, bt.fee, fees)})
<1> DEFINE got == t.delta["stripe_balance"] + t.delta["processing_fees"]
           fees == t.delta["processing_fees"]
           x == Break("amount_mismatch", bt.source, t.event_id, bt.amount, got)
           y == Break("fee_mismatch", bt.source, t.event_id, bt.fee, fees)
<1>1. Off(t, bt) = {b \in {x, y} : b.expected # b.actual}
  BY DEF Off
<1>2. x.expected = bt.amount /\ x.actual = got /\ y.expected = bt.fee /\ y.actual = fees
  BY DEF Break
<1> HIDE DEF x, y, got, fees
<1>3. Off(t, bt) = (IF bt.amount = got THEN {} ELSE {x}) \cup (IF bt.fee = fees THEN {} ELSE {y})
  BY <1>1, <1>2
<1> QED BY <1>3 DEF x, y, got, fees

(* And so is ReportExact. *)
LEMMA ReportOf == OnceInv /\ RecInv => ReportExact
<1> SUFFICES ASSUME OnceInv, RecInv, recon.pc = "reported" PROVE ReportExact
  BY DEF ReportExact
<1> DEFINE led == recon.ledger
           hi == recon.newest
           listed == {bts[k] : k \in {j \in DOMAIN bts : bts[j].id <= hi}}
           loaded == {t \in led : t.object_id # NULL}
           pairs == {p \in listed \X loaded : p[1].source = p[2].object_id}
           off(kind, want, got, p) ==
             IF want = got THEN {}
             ELSE {Break(kind, p[1].source, p[2].event_id, want, got)}
           both(p) == off("amount_mismatch", p[1].amount,
                          p[2].delta["stripe_balance"] + p[2].delta["processing_fees"], p)
                      \cup off("fee_mismatch", p[1].fee, p[2].delta["processing_fees"], p)
           miss(bt) == Break("missing_in_ledger", ObjectId(bt), NULL, bt.amount, NULL)
           lost == {b \in listed : \A p \in pairs : p[1] # b}
<1>1. hi \in 0 .. Len(bts) /\ Compared(led, recon.found, 1, hi) /\ EgressTypeOK /\ Numbered
  BY DEF RecInv, ReconInv, OnceInv
<1>2. listed = {Nth(n) : n \in 1 .. hi} /\ Cardinality(listed) = hi
  BY <1>1, ListedIs
<1>3. recon.found.checked = Cardinality(listed)
  <2>1. recon.found.checked = hi - 1 + 1 /\ Len(bts) \in Nat
    BY <1>1, NthIs DEF Compared
  <2> QED BY <1>1, <1>2, <2>1
<1>4. \A bt, t : <<bt, t>> \in pairs <=> bt \in listed /\ t \in CandidatesOf(led, bt)
  BY DEF CandidatesOf, SameNonNull, _source_id
<1>5. \A p \in pairs : p = <<p[1], p[2]>> /\ both(p) = Off(p[2], p[1])
  <2> SUFFICES ASSUME NEW p \in pairs PROVE p = <<p[1], p[2]>> /\ both(p) = Off(p[2], p[1])
    OBVIOUS
  <2>1. p = <<p[1], p[2]>>
    OBVIOUS
  <2> QED BY <2>1, OffIs
<1>6. \A bt \in listed : bt \in lost <=> CandidatesOf(led, bt) = {}
  <2> SUFFICES ASSUME NEW bt \in listed
               PROVE  (\A p \in pairs : p[1] # bt) <=> CandidatesOf(led, bt) = {}
    OBVIOUS
  <2> HIDE DEF pairs, both, listed, led
  <2>1. ASSUME NEW t \in CandidatesOf(led, bt) PROVE \E p \in pairs : p[1] = bt
    <3>1. <<bt, t>> \in pairs /\ <<bt, t>>[1] = bt
      BY <1>4, <2>1
    <3> QED BY <3>1
  <2>2. ASSUME NEW p \in pairs, p[1] = bt PROVE CandidatesOf(led, bt) # {}
    <3>1. <<bt, p[2]>> \in pairs
      BY <1>5, <2>2
    <3> QED BY <1>4, <3>1
  <2> QED BY <2>1, <2>2
<1>7. recon.found.breaks = UNION {Said(led, bt) : bt \in listed}
  <2>1. {Said(led, Nth(n)) : n \in 1 .. hi} = {Said(led, bt) : bt \in listed}
    <3> HIDE DEF listed, led, hi
    <3> QED BY <1>2
  <2> QED BY <1>1, <2>1 DEF Compared, SaidOf
<1> HIDE DEF led, hi, listed, pairs, lost, both, miss
<1>8. UNION {Said(led, bt) : bt \in listed}
        = {miss(bt) : bt \in lost} \cup UNION {both(p) : p \in pairs}
  <2>1. ASSUME NEW bt \in listed, NEW x \in Said(led, bt)
        PROVE  x \in {miss(b) : b \in lost} \cup UNION {both(p) : p \in pairs}
    <3>1. CASE CandidatesOf(led, bt) = {}
      <4>1. x = miss(bt) /\ bt \in lost
        BY <1>6, <2>1, <3>1 DEF Said, miss
      <4> QED BY <4>1
    <3>2. CASE CandidatesOf(led, bt) # {}
      <4>1. PICK t \in CandidatesOf(led, bt) : x \in Off(t, bt)
        BY <2>1, <3>2 DEF Said
      <4>2. <<bt, t>> \in pairs
        BY <1>4, <4>1
      <4>3. both(<<bt, t>>) = Off(t, bt)
        BY <1>5, <4>2
      <4> QED BY <4>1, <4>2, <4>3
    <3> QED BY <3>1, <3>2
  <2>2. ASSUME NEW bt \in lost PROVE bt \in listed /\ miss(bt) \in Said(led, bt)
    <3>1. bt \in listed
      BY DEF lost
    <3> QED BY <1>6, <3>1 DEF Said, miss
  <2>3. ASSUME NEW p \in pairs, NEW x \in both(p)
        PROVE  p[1] \in listed /\ x \in Said(led, p[1])
    <3>1. p = <<p[1], p[2]>> /\ x \in Off(p[2], p[1])
      BY <1>5, <2>3
    <3>2. p[1] \in listed /\ p[2] \in CandidatesOf(led, p[1])
      BY <1>4, <3>1
    <3> QED BY <3>1, <3>2 DEF Said
  <2>4. \A x \in UNION {Said(led, bt) : bt \in listed} :
          x \in {miss(bt) : bt \in lost} \cup UNION {both(p) : p \in pairs}
    BY <2>1
  <2>5. \A x \in {miss(bt) : bt \in lost} \cup UNION {both(p) : p \in pairs} :
          x \in UNION {Said(led, bt) : bt \in listed}
    BY <2>2, <2>3
  <2> QED BY <2>4, <2>5
<1>9. recon.found.breaks = {miss(bt) : bt \in lost} \cup UNION {both(p) : p \in pairs}
  BY <1>7, <1>8
<1> QED BY <1>3, <1>9 DEF ReportExact, led, hi, listed, pairs, lost, both, miss

(* The report is exact (ReportExact): for every page size, number of charges,
   retries and faults, a reconciliation that ends has compared each balance
   transaction listed when its first page was served once, no other, and says
   of it how it stands to the ledger as it was loaded. *)
THEOREM ReportIsExact == Spec => []ReportExact
<1>1. Init => OnceInv /\ ProposalOK /\ RecInv
  BY OnceStart, RecStart DEF Init, ProposalOK
<1>2. OnceInv /\ ProposalOK /\ RecInv /\ [Next]_vars => OnceInv' /\ ProposalOK' /\ RecInv'
  BY OnceStep, ProposalStep, RecStep
<1> QED BY <1>1, <1>2, ReportOf, PTL DEF Spec
=============================================================================
