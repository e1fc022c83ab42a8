-------------------------- MODULE LiveProxyProofs ---------------------------
(***************************************************************************)
(* What the live proxy does with each request, proved for any number of    *)
(* requests, any buffer size and every fault: a delivery is forwarded      *)
(* once, Stripe is told the truth, and an attack is refused.               *)
(***************************************************************************)
EXTENDS LiveProxy, SequenceTheorems, TLAPS

(* The plan of r, which depends on the configuration only. *)
Planned(r) == _live_plan(raw(r), sig_header(r))

Sendable ==
  UNION {{Planned(r).deliveries[k] : k \in DOMAIN Planned(r).deliveries} : r \in Requests}

Answers == {200, 400, 500, NULL}

(* The type invariant. *)
TypeOK ==
  /\ fault \in Faults
  /\ secret \in {Secret, NULL}
  /\ pc \in [Requests -> {"new", "forward", "flush", "held", "expired", "again",
                          "answer", "done"}]
  /\ plan = [r \in Requests |-> IF pc[r] = "new" THEN NULL ELSE Planned(r)]
  /\ n \in [Requests -> Nat]
  /\ results \in [Requests -> Seq(Answers)]
  /\ batch \in [Requests -> Seq(Requests)]
  /\ buffer \in Seq(Requests)
  /\ wire \in [Requests -> Seq([d : Sendable, answer : Answers])]
  /\ reply \in [Requests -> Answers \cup {502}]
  /\ log \subseteq Requests

In(s, r) == \E k \in DOMAIN s : s[k] = r

Distinct(s) == \A j, k \in DOMAIN s : s[j] = s[k] => j = k

(* A request that has been handed over is in one place only, the buffer or one
   batch, and nobody else is about to forward it. *)
HeldInv ==
  /\ Distinct(buffer)
  /\ \A q \in Requests : Distinct(batch[q])
  /\ \A q \in Requests : batch[q] # <<>> => pc[q] = "flush"
  /\ \A p, q, r \in Requests : In(batch[p], r) /\ In(batch[q], r) => p = q
  /\ \A r \in Requests : In(buffer, r) =>
       /\ \A q \in Requests : ~ In(batch[q], r)
       /\ pc[r] \in {"held", "expired"}
       /\ wire[r] = <<>> /\ n[r] = 0
  /\ \A q, r \in Requests : In(batch[q], r) =>
       /\ \/ pc[r] \in {"held", "expired", "again", "done"}
          \/ pc[r] = "flush" /\ q = r
       /\ wire[r] = <<>>
       /\ fault = "REORDER"

(* How far the plan of r is, by where its coroutine is. *)
SentOf(r) ==
  /\ Len(results[r]) = Len(wire[r])
  /\ Len(wire[r]) <= Len(Planned(r).deliveries)
  /\ pc[r] \in {"held", "expired", "again", "flush"} => fault = "REORDER"
  /\ pc[r] = "new" => wire[r] = <<>> /\ n[r] = 0
  /\ pc[r] = "forward" => Len(wire[r]) = n[r]
  /\ pc[r] = "flush" => In(batch[r], r) \/ wire[r] # <<>>
  /\ pc[r] = "answer" => Len(wire[r]) = Len(Planned(r).deliveries)
  /\ r \in log => pc[r] = "done" /\ Len(wire[r]) = Len(Planned(r).deliveries)

SentInv == \A r \in Requests : SentOf(r)

(* 200 stands for an accepted last delivery, except under DROP. *)
ToldTruth(r) ==
  /\ r \in log
  /\ fault # "DROP" => /\ wire[r] # <<>>
                       /\ wire[r][Len(wire[r])].answer = 200

(* What was forwarded is a delivery of the plan, its answer one that ingest
   gives, the result that answer or nothing; and what Stripe was told. *)
AnswerInv ==
  \A r \in Requests :
    /\ \A k \in DOMAIN wire[r] :
         /\ In(Planned(r).deliveries, wire[r][k].d)
         /\ wire[r][k].answer \in IngestAnswers(wire[r][k].d) \cup {NULL}
         /\ results[r][k] \in {wire[r][k].answer, NULL}
    /\ reply[r] = 200 => ToldTruth(r)

IInv == TypeOK /\ HeldInv /\ SentInv /\ AnswerInv

-----------------------------------------------------------------------------
(* The plans. *)

(* A plan is a sequence of deliveries: one under REORDER, none under DROP only. *)
LEMMA PlanShape ==
  ASSUME fault \in Faults, NEW r \in Requests
  PROVE  /\ Planned(r).deliveries \in Seq(Sendable)
         /\ fault = "REORDER" => Len(Planned(r).deliveries) = 1
         /\ fault # "DROP" => Len(Planned(r).deliveries) >= 1
<1> DEFINE ds == Planned(r).deliveries
<1>1. fault \in LiveFaults
  BY ProxyAssumption
<1>2. \E m \in Nat : /\ DOMAIN ds = 1 .. m /\ ds = [k \in 1 .. m |-> ds[k]]
                     /\ fault = "REORDER" => m = 1
                     /\ fault # "DROP" => m >= 1
  <2> DEFINE once == << [body |-> raw(r), sig |-> sig_header(r)] >>
  <2>1. CASE fault \in {"NONE", "REORDER", "DELAY", "RESPOND_500", "SLOW_LORIS"}
    <3>1. ds = once
      BY <2>1 DEF Planned, _live_plan, _LivePlan
    <3> QED BY <3>1
  <2>2. CASE fault \in {"DUPLICATE", "CONCURRENT_DUPLICATE"}
    <3>1. ds = [k \in 1 .. Copies |-> once[1]]
      BY <2>2 DEF Planned, _live_plan, _LivePlan
    <3> QED BY <2>2, <3>1, ProxyAssumption
  <2>3. CASE fault = "DUPLICATE_OBJECT"
    <3>1. ds = once \/ ds = Append(once, _reissued(raw(r)))
      BY <2>3 DEF Planned, _live_plan, _LivePlan
    <3> QED BY <2>3, <3>1
  <2>4. CASE fault = "DROP"
    <3>1. ds = <<>>
      BY <2>4 DEF Planned, _live_plan, _LivePlan
    <3> QED BY <2>4, <3>1
  <2>5. CASE fault \in {"TAMPER_BODY", "TRUNCATE_BODY", "STALE_TIMESTAMP",
                       "DOWNGRADE_SCHEME", "PARTIAL_WRITE"}
    <3>1. \E x : ds = <<x>>
      BY <2>5 DEF Planned, _live_plan, _LivePlan
    <3> QED BY <2>5, <3>1
  <2> QED BY <1>1, <2>1, <2>2, <2>3, <2>4, <2>5 DEF LiveFaults
<1>3. \A k \in DOMAIN ds : ds[k] \in Sendable
  BY DEF Sendable
<1> QED BY <1>2, <1>3

(* The configuration does not change, and a plan depends on nothing else. *)
LEMMA PlanStays ==
  ASSUME UNCHANGED <<fault, secret>>
  PROVE  /\ \A r \in Requests : Planned(r)' = Planned(r)
         /\ Sendable' = Sendable
<1>1. \A r \in Requests : Planned(r)' = Planned(r)
  BY DEF Planned, _live_plan, _LivePlan, _backdated, _reissued
<1> QED BY <1>1 DEF Sendable

-----------------------------------------------------------------------------
(* The sequences the buffer and the batches go through. *)

(* A request that arrives is in the buffer, once. *)
LEMMA AppendHeld ==
  ASSUME NEW S, NEW s \in Seq(S), NEW x \in S, Distinct(s), ~ In(s, x)
  PROVE  /\ Append(s, x) \in Seq(S)
         /\ Distinct(Append(s, x))
         /\ \A y : In(Append(s, x), y) <=> In(s, y) \/ y = x
BY DEF Distinct, In

(* A request that is taken back is not in the buffer any more; the others are. *)
LEMMA RemoveHeld ==
  ASSUME NEW S, NEW s \in Seq(S), NEW k \in DOMAIN s, Distinct(s)
  PROVE  /\ RemoveAt(s, k) \in Seq(S)
         /\ Distinct(RemoveAt(s, k))
         /\ \A y : In(RemoveAt(s, k), y) <=> In(s, y) /\ y # s[k]
<1> DEFINE t == RemoveAt(s, k)
<1>1. /\ t \in Seq(S) /\ Len(t) = Len(s) - 1
      /\ \A j \in 1 .. Len(s) - 1 : t[j] = IF j < k THEN s[j] ELSE s[j + 1]
  <2> DEFINE u == SubSeq(s, 1, k - 1)
             v == SubSeq(s, k + 1, Len(s))
  <2>1. /\ u \in Seq(S) /\ Len(u) = k - 1
        /\ \A j \in 1 .. k - 1 : u[j] = s[j]
    OBVIOUS
  <2>2. /\ v \in Seq(S) /\ Len(v) = Len(s) - k
        /\ \A j \in 1 .. Len(s) - k : v[j] = s[k + j]
    OBVIOUS
  <2> HIDE DEF t, u, v
  <2>3. t = u \o v
    BY DEF t, u, v, RemoveAt
  <2>4. /\ t \in Seq(S) /\ Len(t) = Len(s) - 1
        /\ \A j \in 1 .. Len(s) - 1 : t[j] = IF j <= k - 1 THEN u[j] ELSE v[j - (k - 1)]
    <3>1. /\ t \in Seq(S) /\ Len(t) = Len(u) + Len(v)
          /\ \A j \in 1 .. Len(u) + Len(v) :
               t[j] = IF j <= Len(u) THEN u[j] ELSE v[j - Len(u)]
      BY <2>1, <2>2, <2>3, ConcatProperties, Zenon
    <3>2. Len(u) + Len(v) = Len(s) - 1
      BY <2>1, <2>2
    <3> QED BY <2>1, <3>1, <3>2
  <2>5. ASSUME NEW j \in 1 .. Len(s) - 1
        PROVE  t[j] = IF j < k THEN s[j] ELSE s[j + 1]
    <3>1. CASE j < k
      BY <2>1, <2>4, <3>1
    <3>2. CASE j >= k
      <4>1. ~ (j <= k - 1)
        BY <3>2
      <4>2. t[j] = v[j - (k - 1)]
        BY <2>4, <4>1
      <4>3. j - (k - 1) \in 1 .. Len(s) - k /\ k + (j - (k - 1)) = j + 1
        BY <3>2
      <4> QED BY <2>2, <3>2, <4>2, <4>3
    <3> QED BY <3>1, <3>2
  <2> QED BY <2>4, <2>5
<1> HIDE DEF t
<1>2. Distinct(t)
  BY <1>1, SMTT(30) DEF Distinct
<1>3. ASSUME NEW y, In(t, y) PROVE In(s, y) /\ y # s[k]
  BY <1>1, <1>3 DEF Distinct, In
<1>4. ASSUME NEW y, In(s, y), y # s[k] PROVE In(t, y)
  <2>1. PICK j \in 1 .. Len(s) : s[j] = y
    BY <1>4 DEF In
  <2>2. CASE j < k
    BY <1>1, <2>1, <2>2 DEF In
  <2>3. CASE j > k
    <3>1. j - 1 \in 1 .. Len(s) - 1 /\ t[j - 1] = s[j]
      BY <1>1, <2>3
    <3> QED BY <1>1, <2>1, <3>1 DEF In
  <2> QED BY <1>4, <2>1, <2>2, <2>3
<1> QED BY <1>1, <1>2, <1>3, <1>4 DEF t

(* A request that is flushed is not in the batch any more; the others are. *)
LEMMA FrontHeld ==
  ASSUME NEW S, NEW s \in Seq(S), Len(s) > 0, Distinct(s)
  PROVE  /\ SubSeq(s, 1, Len(s) - 1) \in Seq(S)
         /\ Distinct(SubSeq(s, 1, Len(s) - 1))
         /\ \A y : In(SubSeq(s, 1, Len(s) - 1), y) <=> In(s, y) /\ y # s[Len(s)]
<1> DEFINE t == SubSeq(s, 1, Len(s) - 1)
<1>1. /\ t \in Seq(S) /\ Len(t) = Len(s) - 1
      /\ \A j \in 1 .. Len(s) - 1 : t[j] = s[j]
  <2>1. Len(s) \in 1 .. Len(s)
    OBVIOUS
  <2>2. ASSUME NEW k \in 1 .. Len(s)
        PROVE  /\ SubSeq(s, 1, k - 1) \in Seq(S) /\ Len(SubSeq(s, 1, k - 1)) = k - 1
               /\ \A j \in 1 .. k - 1 : SubSeq(s, 1, k - 1)[j] = s[j]
    OBVIOUS
  <2> QED BY <2>1, <2>2
<1> HIDE DEF t
<1>2. Distinct(t)
  BY <1>1 DEF Distinct
<1>3. \A y : In(t, y) => In(s, y) /\ y # s[Len(s)]
  BY <1>1 DEF Distinct, In
<1>4. \A y : In(s, y) /\ y # s[Len(s)] => In(t, y)
  <2>1. \A j \in 1 .. Len(s) : j # Len(s) => j \in 1 .. Len(s) - 1
    OBVIOUS
  <2> QED BY <1>1, <2>1 DEF In
<1> QED BY <1>1, <1>2, <1>3, <1>4 DEF t

-----------------------------------------------------------------------------
(* The inductive invariant. *)

(* Initially nobody has arrived. *)
LEMMA InvInit == Init => IInv
<1> SUFFICES ASSUME Init PROVE IInv
  OBVIOUS
<1>1. TypeOK
  BY DEF Init, TypeOK, Answers
<1>2. HeldInv
  BY DEF Init, HeldInv, Distinct, In
<1>3. ASSUME NEW r \in Requests PROVE Len(Planned(r).deliveries) \in Nat
  BY <1>1, PlanShape DEF TypeOK
<1>4. SentInv
  BY <1>3 DEF Init, SentInv, SentOf
<1>5. AnswerInv
  BY ProxyAssumption DEF Init, AnswerInv
<1> QED BY <1>1, <1>2, <1>4, <1>5 DEF IInv

(* forward_one adds the k-th delivery of the plan of q with an answer ingest
   may give, and a result that is this answer or nothing. *)
LEMMA ForwardOneStep ==
  ASSUME IInv, UNCHANGED <<fault, secret>>, NEW q \in Requests, pc[q] # "new",
         NEW k \in DOMAIN Planned(q).deliveries, forward_one(q, k)
  PROVE  /\ wire' \in [Requests -> Seq([d : Sendable', answer : Answers])]
         /\ results' \in [Requests -> Seq(Answers)]
         /\ \A r \in Requests : r # q => wire'[r] = wire[r] /\ results'[r] = results[r]
         /\ Len(wire'[q]) = Len(wire[q]) + 1 /\ Len(results'[q]) = Len(results[q]) + 1
         /\ \A r \in Requests : \A j \in DOMAIN wire'[r] :
              /\ In(Planned(r)'.deliveries, wire'[r][j].d)
              /\ wire'[r][j].answer \in IngestAnswers(wire'[r][j].d) \cup {NULL}
              /\ results'[r][j] \in {wire'[r][j].answer, NULL}
<1> DEFINE d == Planned(q).deliveries[k]
<1>1. plan[q].deliveries[k] = d /\ d \in Sendable
  BY DEF IInv, TypeOK, Sendable
<1>0. PICK answer \in IngestAnswers(d) \cup {NULL} : \E status \in {answer, NULL} :
        /\ wire' = [wire EXCEPT ![q] = Append(@, [d |-> d, answer |-> answer])]
        /\ results' = [results EXCEPT ![q] = Append(@, status)]
  BY <1>1 DEF forward_one
<1>2. PICK status \in {answer, NULL} :
        /\ wire' = [wire EXCEPT ![q] = Append(@, [d |-> d, answer |-> answer])]
        /\ results' = [results EXCEPT ![q] = Append(@, status)]
  BY <1>0
<1>3. answer \in Answers /\ status \in Answers
  <2>1. IngestAnswers(d) \subseteq Answers
    BY ZenonT(30) DEF IngestAnswers, Answers
  <2> QED BY <2>1, <1>0, <1>2 DEF Answers
<1>4. /\ wire \in [Requests -> Seq([d : Sendable, answer : Answers])]
      /\ results \in [Requests -> Seq(Answers)]
      /\ \A r \in Requests : Len(results[r]) = Len(wire[r])
  BY DEF IInv, TypeOK, SentInv, SentOf
<1>5. Sendable' = Sendable /\ \A r \in Requests : Planned(r)' = Planned(r)
  BY PlanStays
<1>6. In(Planned(q).deliveries, d)
  BY DEF In
<1>7. \A r \in Requests : \A j \in DOMAIN wire[r] :
              /\ In(Planned(r).deliveries, wire[r][j].d)
              /\ wire[r][j].answer \in IngestAnswers(wire[r][j].d) \cup {NULL}
              /\ results[r][j] \in {wire[r][j].answer, NULL}
  BY DEF IInv, AnswerInv
<1> DEFINE e == [d |-> d, answer |-> answer]
<1> HIDE DEF d
<1>8. e \in [d : Sendable, answer : Answers] /\ e.d = d /\ e.answer = answer
  BY <1>1, <1>3
<1> HIDE DEF e
<1>9. wire' = [wire EXCEPT ![q] = Append(wire[q], e)]
  BY <1>2, <1>4 DEF e
<1>10. /\ wire' \in [Requests -> Seq([d : Sendable, answer : Answers])]
       /\ results' \in [Requests -> Seq(Answers)]
  <2>1. /\ Append(wire[q], e) \in Seq([d : Sendable, answer : Answers])
        /\ Append(results[q], status) \in Seq(Answers)
    BY <1>3, <1>4, <1>8, AppendProperties
  <2> QED BY <1>2, <1>4, <1>9, <2>1
<1>11. \A r \in Requests : r # q => wire'[r] = wire[r] /\ results'[r] = results[r]
  BY <1>2, <1>4, <1>9
<1>12. wire'[q] = Append(wire[q], e) /\ results'[q] = Append(results[q], status)
  BY <1>2, <1>4, <1>9
<1>13. ASSUME NEW j \in DOMAIN wire'[q]
       PROVE /\ In(Planned(q).deliveries, wire'[q][j].d)
             /\ wire'[q][j].answer \in IngestAnswers(wire'[q][j].d) \cup {NULL}
             /\ results'[q][j] \in {wire'[q][j].answer, NULL}
  <2>1. CASE j \in DOMAIN wire[q]
    <3>1. wire'[q][j] = wire[q][j] /\ results'[q][j] = results[q][j]
      BY <1>4, <1>12, <2>1
    <3> QED BY <1>7, <2>1, <3>1
  <2>2. CASE j \notin DOMAIN wire[q]
    <3>1. j = Len(wire[q]) + 1
      BY <1>4, <1>8, <1>12, <2>2
    <3>2. wire'[q][j] = e /\ results'[q][j] = status
      BY <1>3, <1>4, <1>8, <1>12, <3>1
    <3> QED BY <1>2, <1>6, <1>8, <3>2
  <2> QED BY <2>1, <2>2
<1>14. Len(wire'[q]) = Len(wire[q]) + 1 /\ Len(results'[q]) = Len(results[q]) + 1
  BY <1>3, <1>4, <1>8, <1>12
<1> QED BY <1>5, <1>7, <1>10, <1>11, <1>13, <1>14

(* The plan stays, as long as no coroutine comes back to "new" or leaves it. *)
LEMMA PlanKept ==
  ASSUME TypeOK, UNCHANGED <<fault, secret, plan>>, DOMAIN pc' = DOMAIN pc,
         \A r \in Requests : pc'[r] = "new" <=> pc[r] = "new"
  PROVE  plan' = [r \in Requests |-> IF pc'[r] = "new" THEN NULL ELSE Planned(r)']
<1>1. \A r \in Requests : Planned(r)' = Planned(r)
  BY PlanStays
<1> QED BY <1>1 DEF TypeOK

(* The next delivery of a request's own coroutine. *)
LEMMA ForwardStep == ASSUME IInv, NEW r \in Requests, Forward(r) PROVE IInv'
<1>1. /\ pc[r] = "forward" /\ n[r] < Len(plan[r].deliveries)
      /\ forward_one(r, n[r] + 1)
      /\ n' = [n EXCEPT ![r] = @ + 1]
      /\ UNCHANGED <<fault, secret, pc, plan, batch, buffer, reply, log>>
  BY DEF Forward
<1>2. TypeOK /\ HeldInv /\ SentInv /\ AnswerInv
  BY DEF IInv
<1>3. plan[r] = Planned(r) /\ n[r] \in Nat
  BY <1>1, <1>2 DEF TypeOK
<1>4. Planned(r).deliveries \in Seq(Sendable)
  BY <1>2, PlanShape DEF TypeOK
<1>5. n[r] + 1 \in DOMAIN Planned(r).deliveries
  BY <1>1, <1>3, <1>4
<1>6. /\ wire' \in [Requests -> Seq([d : Sendable', answer : Answers])]
      /\ results' \in [Requests -> Seq(Answers)]
      /\ \A q \in Requests : q # r => wire'[q] = wire[q] /\ results'[q] = results[q]
      /\ Len(wire'[r]) = Len(wire[r]) + 1 /\ Len(results'[r]) = Len(results[r]) + 1
      /\ \A q \in Requests : \A j \in DOMAIN wire'[q] :
           /\ In(Planned(q)'.deliveries, wire'[q][j].d)
           /\ wire'[q][j].answer \in IngestAnswers(wire'[q][j].d) \cup {NULL}
           /\ results'[q][j] \in {wire'[q][j].answer, NULL}
  BY <1>1, <1>5, ForwardOneStep
<1>7. \A q \in Requests : Planned(q)' = Planned(q)
  BY <1>1, PlanStays
<1>8. ~ In(buffer, r) /\ \A q \in Requests : ~ In(batch[q], r)
  BY <1>1, <1>2 DEF HeldInv
<1>9. TypeOK'
  <2>1. plan' = [q \in Requests |-> IF pc'[q] = "new" THEN NULL ELSE Planned(q)']
    BY <1>1, <1>2, PlanKept
  <2>2. n' \in [Requests -> Nat]
    BY <1>1, <1>2 DEF TypeOK
  <2> QED BY <1>1, <1>2, <1>6, <2>1, <2>2 DEF TypeOK
<1>10. HeldInv'
  <2>1. \A q \in Requests : In(buffer, q) => n'[q] = n[q]
    BY <1>1, <1>2, <1>8 DEF TypeOK
  <2>2. \A q \in Requests : In(buffer, q) \/ (\E p \in Requests : In(batch[p], q))
                              => wire'[q] = wire[q]
    BY <1>6, <1>8
  <2>3. buffer' = buffer /\ batch' = batch /\ pc' = pc /\ fault' = fault
    BY <1>1
  <2> QED BY <1>2, <2>1, <2>2, <2>3 DEF HeldInv
<1>11. SentInv'
  <2> SUFFICES ASSUME NEW q \in Requests PROVE SentOf(q)'
    BY DEF SentInv
  <2>1. SentOf(q)
    BY <1>2 DEF SentInv
  <2>2. CASE q = r
    BY <1>1, <1>2, <1>3, <1>4, <1>6, <1>7, <2>1, <2>2 DEF SentOf, TypeOK
  <2>3. CASE q # r
    BY <1>1, <1>2, <1>6, <1>7, <2>1, <2>3 DEF SentOf, TypeOK
  <2> QED BY <2>2, <2>3
<1>12. AnswerInv'
  <2>1. r \notin log
    BY <1>1, <1>2 DEF SentInv, SentOf
  <2>2. ASSUME NEW q \in Requests, reply'[q] = 200 PROVE ToldTruth(q)'
    <3>1. q # r /\ ToldTruth(q)
      BY <1>1, <1>2, <2>1, <2>2 DEF AnswerInv, ToldTruth
    <3>2. wire'[q] = wire[q]
      BY <1>6, <3>1
    <3> QED BY <1>1, <3>1, <3>2 DEF ToldTruth
  <2> QED BY <1>6, <2>2 DEF AnswerInv
<1> QED BY <1>9, <1>10, <1>11, <1>12 DEF IInv

(* A flush forwards the last request of its batch and forgets it. *)
LEMMA FlushStep == ASSUME IInv, NEW f \in Requests, Flush(f) PROVE IInv'
<1> DEFINE last == Len(batch[f])
           r == batch[f][last]
<1>1. /\ pc[f] = "flush" /\ last > 0
      /\ forward_one(r, 1)
      /\ batch' = [batch EXCEPT ![f] = SubSeq(@, 1, last - 1)]
      /\ UNCHANGED <<fault, secret, pc, plan, n, buffer, reply, log>>
  BY DEF Flush
<1>2. TypeOK /\ HeldInv /\ SentInv /\ AnswerInv
  BY DEF IInv
<1>3. batch[f] \in Seq(Requests) /\ Distinct(batch[f]) /\ batch \in [Requests -> Seq(Requests)]
  BY <1>2 DEF TypeOK, HeldInv
<1>4. r \in Requests /\ In(batch[f], r)
  BY <1>1, <1>3 DEF In
<1>5. /\ pc[r] \in {"held", "expired", "again", "done"} \/ (pc[r] = "flush" /\ f = r)
      /\ wire[r] = <<>> /\ fault = "REORDER" /\ ~ In(buffer, r)
      /\ \A q \in Requests : In(batch[q], r) => q = f
  BY <1>2, <1>4 DEF HeldInv
<1>6. Planned(r).deliveries \in Seq(Sendable) /\ Len(Planned(r).deliveries) = 1
  BY <1>2, <1>4, <1>5, PlanShape DEF TypeOK
<1>7. 1 \in DOMAIN Planned(r).deliveries /\ pc[r] # "new"
  BY <1>5, <1>6
<1> HIDE DEF r
<1>8. /\ wire' \in [Requests -> Seq([d : Sendable', answer : Answers])]
      /\ results' \in [Requests -> Seq(Answers)]
      /\ \A q \in Requests : q # r => wire'[q] = wire[q] /\ results'[q] = results[q]
      /\ Len(wire'[r]) = Len(wire[r]) + 1 /\ Len(results'[r]) = Len(results[r]) + 1
      /\ \A q \in Requests : \A j \in DOMAIN wire'[q] :
           /\ In(Planned(q)'.deliveries, wire'[q][j].d)
           /\ wire'[q][j].answer \in IngestAnswers(wire'[q][j].d) \cup {NULL}
           /\ results'[q][j] \in {wire'[q][j].answer, NULL}
  BY <1>1, <1>4, <1>7, ForwardOneStep
<1>9. \A q \in Requests : Planned(q)' = Planned(q)
  BY <1>1, PlanStays
<1>10. /\ batch' \in [Requests -> Seq(Requests)]
       /\ \A q \in Requests : q # f => batch'[q] = batch[q]
       /\ Distinct(batch'[f])
       /\ \A q \in Requests : In(batch'[f], q) <=> In(batch[f], q) /\ q # r
  <2>1. /\ SubSeq(batch[f], 1, last - 1) \in Seq(Requests)
        /\ Distinct(SubSeq(batch[f], 1, last - 1))
        /\ \A q : In(SubSeq(batch[f], 1, last - 1), q) <=> In(batch[f], q) /\ q # r
    BY <1>1, <1>3, FrontHeld DEF r
  <2>2. batch' = [batch EXCEPT ![f] = SubSeq(batch[f], 1, last - 1)]
    BY <1>1, <1>3
  <2> HIDE DEF last
  <2> QED BY <1>3, <2>1, <2>2
<1>11. TypeOK'
  <2>1. plan' = [q \in Requests |-> IF pc'[q] = "new" THEN NULL ELSE Planned(q)']
    BY <1>1, <1>2, PlanKept
  <2> QED BY <1>1, <1>2, <1>8, <1>10, <2>1 DEF TypeOK
<1>12. \A q \in Requests : ~ In(batch'[q], r)
  BY <1>4, <1>5, <1>10
<1>13. \A p, q \in Requests : In(batch'[p], q) => In(batch[p], q) /\ q # r
  BY <1>10, <1>12
<1>14. HeldInv'
  <2>1. \A q \in Requests : Distinct(batch'[q])
    BY <1>2, <1>10 DEF HeldInv
  <2>2. \A q \in Requests : batch'[q] # <<>> => pc'[q] = "flush"
    BY <1>1, <1>2, <1>10 DEF HeldInv
  <2>3. \A q \in Requests : In(buffer, q) => q # r
    BY <1>5
  <2> QED BY <1>1, <1>2, <1>8, <1>13, <2>1, <2>2, <2>3, ZenonT(30) DEF HeldInv
<1>15. SentInv'
  <2>1. Len(wire'[r]) = 1 /\ Len(results'[r]) = 1 /\ wire'[r] # <<>>
    BY <1>2, <1>4, <1>5, <1>8 DEF SentInv, SentOf
  <2>2. \A q \in Requests : q # r => (In(batch[q], q) => In(batch'[q], q))
    BY <1>10
  <2>3. r \notin log
    BY <1>2, <1>4, <1>5, <1>6 DEF SentInv, SentOf
  <2> SUFFICES ASSUME NEW q \in Requests PROVE SentOf(q)'
    BY DEF SentInv
  <2>4. SentOf(q)
    BY <1>2 DEF SentInv
  <2>5. CASE q = r
    BY <1>1, <1>5, <1>6, <1>9, <2>1, <2>3, <2>4, <2>5 DEF SentOf
  <2>6. CASE q # r
    BY <1>1, <1>8, <1>9, <2>2, <2>4, <2>6 DEF SentOf
  <2> QED BY <2>5, <2>6
<1>16. AnswerInv'
  <2>1. r \notin log
    BY <1>2, <1>4, <1>5, <1>6 DEF SentInv, SentOf
  <2>2. ASSUME NEW q \in Requests, reply'[q] = 200 PROVE ToldTruth(q)'
    <3>1. q # r /\ ToldTruth(q)
      BY <1>1, <1>2, <2>1, <2>2 DEF AnswerInv, ToldTruth
    <3>2. wire'[q] = wire[q]
      BY <1>8, <3>1
    <3> QED BY <1>1, <3>1, <3>2 DEF ToldTruth
  <2> QED BY <1>8, <2>2 DEF AnswerInv
<1> QED BY <1>11, <1>14, <1>15, <1>16 DEF IInv

(* A step of r's coroutine that forwards nothing and leaves the buffer alone:
   where it may go, and what it may tell Stripe. *)
LEMMA MoveStep ==
  ASSUME IInv, NEW r \in Requests, NEW to \in {"expired", "again", "answer", "done"},
         pc[r] # "new", pc' = [pc EXCEPT ![r] = to], batch[r] = <<>>,
         UNCHANGED <<fault, secret, plan, n, results, batch, buffer, wire>>,
         In(buffer, r) => to = "expired",
         (\E q \in Requests : In(batch[q], r)) => to # "answer",
         to \in {"expired", "again"} => fault = "REORDER" /\ r \notin log',
         to = "answer" => Len(wire[r]) = Len(Planned(r).deliveries) /\ r \notin log',
         r \in log' => Len(wire[r]) = Len(Planned(r).deliveries),
         log' \subseteq Requests, \A q \in Requests : q # r => (q \in log' <=> q \in log),
         reply' \in [Requests -> Answers \cup {502}],
         \A q \in Requests : q # r => reply'[q] = reply[q],
         reply'[r] = 200 => ToldTruth(r)'
  PROVE  IInv'
<1>1. TypeOK /\ HeldInv /\ SentInv /\ AnswerInv
  BY DEF IInv
<1>2. Sendable' = Sendable /\ \A q \in Requests : Planned(q)' = Planned(q)
  BY PlanStays
<1>3. pc'[r] = to /\ \A q \in Requests : q # r => pc'[q] = pc[q]
  BY <1>1 DEF TypeOK
<1>4. TypeOK'
  <2>1. plan' = [q \in Requests |-> IF pc'[q] = "new" THEN NULL ELSE Planned(q)']
    <3>1. DOMAIN pc' = DOMAIN pc
      BY <1>1 DEF TypeOK
    <3> QED BY <1>1, <1>3, <3>1, PlanKept
  <2>2. pc' \in [Requests -> {"new", "forward", "flush", "held", "expired", "again",
                              "answer", "done"}]
    BY <1>1 DEF TypeOK
  <2> QED BY <1>1, <1>2, <2>1, <2>2 DEF TypeOK
<1>5. HeldInv'
  <2>1. buffer' = buffer /\ batch' = batch /\ wire' = wire /\ fault' = fault /\ n' = n
    OBVIOUS
  <2>2. \A q \in Requests : batch[q] # <<>> => pc'[q] = "flush"
    BY <1>1, <1>3 DEF HeldInv
  <2>3. \A q \in Requests : In(buffer, q) => pc'[q] \in {"held", "expired"}
    BY <1>1, <1>3 DEF HeldInv
  <2>4. \A p, q \in Requests : In(batch[p], q) =>
           \/ pc'[q] \in {"held", "expired", "again", "done"}
           \/ pc'[q] = "flush" /\ p = q
    BY <1>1, <1>3 DEF HeldInv
  <2> QED BY <1>1, <2>1, <2>2, <2>3, <2>4 DEF HeldInv
<1>6. SentInv'
  <2> SUFFICES ASSUME NEW q \in Requests PROVE SentOf(q)'
    BY DEF SentInv
  <2>1. SentOf(q)
    BY <1>1 DEF SentInv
  <2>2. CASE q = r
    BY <1>2, <1>3, <2>1, <2>2 DEF SentOf
  <2>3. CASE q # r
    BY <1>2, <1>3, <2>1, <2>3 DEF SentOf
  <2> QED BY <2>2, <2>3
<1>7. AnswerInv'
  <2>1. ASSUME NEW q \in Requests, reply'[q] = 200 PROVE ToldTruth(q)'
    <3>1. CASE q # r
      <4>1. ToldTruth(q) /\ q \in log'
        BY <1>1, <2>1, <3>1 DEF AnswerInv, ToldTruth
      <4> QED BY <4>1 DEF ToldTruth
    <3> QED BY <2>1, <3>1
  <2> QED BY <1>1, <1>2, <2>1 DEF AnswerInv
<1> QED BY <1>4, <1>5, <1>6, <1>7 DEF IInv

(* Under REORDER a plan that was begun was forwarded as a whole. *)
LEMMA SentAlone ==
  ASSUME TypeOK, NEW r \in Requests, SentOf(r), fault = "REORDER", wire[r] # <<>>
  PROVE  Len(wire[r]) = Len(Planned(r).deliveries)
<1>1. Len(Planned(r).deliveries) = 1
  BY PlanShape DEF TypeOK
<1>2. wire \in [Requests -> Seq([d : Sendable, answer : Answers])]
  BY DEF TypeOK
<1>3. Len(wire[r]) \in Nat /\ Len(wire[r]) # 0
  BY <1>2
<1>4. Len(wire[r]) <= Len(Planned(r).deliveries)
  BY DEF SentOf
<1>5. \A a, b : a \in Nat /\ a # 0 /\ b = 1 /\ a <= b => a = b
  OBVIOUS
<1> QED BY <1>1, <1>3, <1>4, <1>5, Zenon

(* The steps of r's coroutine between two awaits that forward nothing. *)
LEMMA ForwardedStep == ASSUME IInv, NEW r \in Requests, Forwarded(r) PROVE IInv'
<1>1. /\ TypeOK /\ HeldInv /\ SentOf(r)
      /\ reply[r] = 200 => ToldTruth(r)
  BY DEF IInv, SentInv, AnswerInv
<1>2. pc[r] = "forward" /\ n[r] = Len(plan[r].deliveries) /\ plan[r] = Planned(r)
  BY <1>1 DEF Forwarded, TypeOK
<1>3. /\ ~ In(buffer, r) /\ batch[r] = <<>> /\ \A q \in Requests : ~ In(batch[q], r)
      /\ r \notin log /\ Len(wire[r]) = Len(Planned(r).deliveries)
  BY <1>1, <1>2 DEF HeldInv, SentOf
<1> QED BY <1>1, <1>2, <1>3, MoveStep DEF Forwarded, TypeOK, ToldTruth

(* A handler that has flushed all it claimed. *)
LEMMA FlushedStep == ASSUME IInv, NEW r \in Requests, Flushed(r) PROVE IInv'
<1>1. /\ TypeOK /\ HeldInv /\ SentOf(r)
      /\ reply[r] = 200 => ToldTruth(r)
  BY DEF IInv, SentInv, AnswerInv
<1>2. pc[r] = "flush" /\ batch[r] = <<>> /\ fault = "REORDER"
  BY <1>1 DEF Flushed, SentOf
<1>3. ~ In(batch[r], r)
  BY <1>2 DEF In
<1>4. /\ ~ In(buffer, r) /\ \A q \in Requests : ~ In(batch[q], r)
      /\ r \notin log /\ wire[r] # <<>>
  BY <1>1, <1>2, <1>3 DEF HeldInv, SentOf
<1>5. Len(wire[r]) = Len(Planned(r).deliveries)
  BY <1>1, <1>2, <1>4, SentAlone
<1> QED BY <1>1, <1>2, <1>4, <1>5, MoveStep DEF Flushed, TypeOK, ToldTruth

(* A handler whose held delivery somebody else forwarded. *)
LEMMA WokenStep == ASSUME IInv, NEW r \in Requests, Woken(r) PROVE IInv'
<1>1. /\ TypeOK /\ HeldInv /\ SentOf(r)
      /\ reply[r] = 200 => ToldTruth(r)
  BY DEF IInv, SentInv, AnswerInv
<1>2. pc[r] \in {"held", "again"} /\ results[r] # <<>> /\ fault = "REORDER"
  BY <1>1 DEF Woken, Done, SentOf
<1>3. Len(wire[r]) = Len(Planned(r).deliveries) /\ wire[r] # <<>>
  <2>1. results[r] \in Seq(Answers) /\ wire[r] \in Seq([d : Sendable, answer : Answers])
    BY <1>1, ZenonT(30) DEF TypeOK
  <2>2. wire[r] # <<>>
    BY <1>1, <1>2, <2>1 DEF SentOf
  <2> QED BY <1>1, <1>2, <2>2, SentAlone
<1>4. /\ ~ In(buffer, r) /\ \A q \in Requests : ~ In(batch[q], r)
      /\ r \notin log /\ batch[r] = <<>>
  BY <1>1, <1>2, <1>3 DEF HeldInv, SentOf
<1> QED BY <1>1, <1>2, <1>3, <1>4, MoveStep, ZenonT(30) DEF Woken, TypeOK, ToldTruth

(* A hold that expires before anybody flushes it. *)
LEMMA HoldExpiresStep == ASSUME IInv, NEW r \in Requests, HoldExpires(r) PROVE IInv'
<1>1. /\ TypeOK /\ HeldInv /\ SentOf(r)
      /\ reply[r] = 200 => ToldTruth(r)
  BY DEF IInv, SentInv, AnswerInv
<1>2. pc[r] = "held" /\ fault = "REORDER" /\ r \notin log /\ batch[r] = <<>>
  BY <1>1 DEF HoldExpires, HeldInv, SentOf
<1> QED BY <1>1, <1>2, MoveStep DEF HoldExpires, TypeOK, ToldTruth

(* An expired hold that a flush has claimed. *)
LEMMA WaitAgainStep == ASSUME IInv, NEW r \in Requests, WaitAgain(r) PROVE IInv'
<1>1. /\ TypeOK /\ HeldInv /\ SentOf(r)
      /\ reply[r] = 200 => ToldTruth(r)
  BY DEF IInv, SentInv, AnswerInv
<1>2. /\ pc[r] = "expired" /\ fault = "REORDER" /\ r \notin log /\ batch[r] = <<>>
      /\ ~ In(buffer, r)
  BY <1>1 DEF WaitAgain, Buffered, In, HeldInv, SentOf
<1> QED BY <1>1, <1>2, MoveStep DEF WaitAgain, TypeOK, ToldTruth

(* A handler whose second wait expires too. *)
LEMMA HandlerRaisesStep == ASSUME IInv, NEW r \in Requests, HandlerRaises(r) PROVE IInv'
<1>1. TypeOK /\ HeldInv /\ SentOf(r)
  BY DEF IInv, SentInv
<1>2. /\ pc[r] = "again" /\ batch[r] = <<>> /\ ~ In(buffer, r)
      /\ pc' = [pc EXCEPT ![r] = "done"]
      /\ UNCHANGED <<fault, secret, plan, n, results, batch, buffer, wire>>
  BY <1>1 DEF HandlerRaises, HeldInv
<1>3. /\ reply' \in [Requests -> Answers \cup {502}] /\ reply'[r] # 200
      /\ \A q \in Requests : q # r => reply'[q] = reply[q]
  BY <1>1 DEF HandlerRaises, TypeOK, Answers
<1>4. /\ r \notin log' /\ log' \subseteq Requests
      /\ \A q \in Requests : q # r => (q \in log' <=> q \in log)
  BY <1>1 DEF HandlerRaises, SentOf, TypeOK
<1>5. reply'[r] = 200 => ToldTruth(r)'
  BY <1>3
<1>6. /\ "done" \in {"expired", "again", "answer", "done"} /\ pc[r] # "new"
      /\ "done" # "answer" /\ "done" \notin {"expired", "again"}
  BY <1>2
<1> QED BY <1>2, <1>3, <1>4, <1>5, <1>6, MoveStep, ZenonT(60)

(* A handler that answers Stripe. *)
LEMMA AnswerStep == ASSUME IInv, NEW r \in Requests, Answer(r) PROVE IInv'
<1>1. TypeOK /\ HeldInv /\ SentOf(r)
  BY DEF IInv, SentInv
<1>2. /\ pc[r] = "answer" /\ batch[r] = <<>> /\ ~ In(buffer, r)
      /\ plan[r] = Planned(r) /\ fault' = fault /\ wire' = wire
      /\ Len(wire[r]) = Len(Planned(r).deliveries)
      /\ log' = log \cup {r} /\ reply' = [reply EXCEPT ![r] = upstream(r)]
  BY <1>1 DEF Answer, HeldInv, SentOf, TypeOK
<1>3. /\ wire[r] \in Seq([d : Sendable, answer : Answers]) /\ results[r] \in Seq(Answers)
      /\ Len(results[r]) = Len(wire[r])
  BY <1>1, ZenonT(30) DEF TypeOK, SentOf
<1>4. upstream(r) \in Answers \cup {502}
  BY <1>3 DEF upstream, Answers
<1>5. /\ reply' \in [Requests -> Answers \cup {502}] /\ reply'[r] = upstream(r)
      /\ \A q \in Requests : q # r => reply'[q] = reply[q]
  BY <1>1, <1>2, <1>4 DEF TypeOK
<1>6. ASSUME upstream(r) = 200, fault # "DROP"
      PROVE  wire[r] # <<>> /\ wire[r][Len(wire[r])].answer = 200
  <2>1. Len(wire[r]) >= 1
    BY <1>1, <1>2, <1>6, PlanShape DEF TypeOK
  <2>2. results[r] # <<>> /\ Len(results[r]) \in DOMAIN wire[r]
    BY <1>3, <2>1
  <2>3. results[r][Len(results[r])] = 200
    BY <1>6, <2>2 DEF upstream
  <2>4. results[r][Len(results[r])] \in {wire[r][Len(results[r])].answer, NULL}
    BY <2>2 DEF IInv, AnswerInv
  <2>5. NULL # 200
    BY ProxyAssumption
  <2> QED BY <1>3, <2>1, <2>3, <2>4, <2>5
<1>7. reply'[r] = 200 => ToldTruth(r)'
  BY <1>2, <1>5, <1>6 DEF ToldTruth
<1>8. /\ pc' = [pc EXCEPT ![r] = "done"] /\ log' \subseteq Requests
      /\ \A q \in Requests : q # r => (q \in log' <=> q \in log)
      /\ UNCHANGED <<fault, secret, plan, n, results, batch, buffer, wire>>
  BY <1>1, <1>2 DEF Answer, TypeOK
<1> QED BY <1>2, <1>5, <1>7, <1>8, MoveStep

(* An expired hold that is still in the buffer is its own coroutine's again. *)
LEMMA TakeBackStep == ASSUME IInv, NEW r \in Requests, TakeBack(r) PROVE IInv'
<1>1. TypeOK /\ HeldInv /\ SentInv /\ AnswerInv /\ SentOf(r)
  BY DEF IInv, SentInv
<1>2. PICK k \in DOMAIN buffer : buffer[k] = r /\ buffer' = RemoveAt(buffer, k)
  BY DEF TakeBack
<1>3. /\ pc[r] = "expired" /\ pc' = [pc EXCEPT ![r] = "forward"]
      /\ UNCHANGED <<fault, secret, plan, n, results, batch, wire, reply, log>>
  BY DEF TakeBack
<1>4. buffer \in Seq(Requests) /\ Distinct(buffer) /\ In(buffer, r)
  BY <1>1, <1>2 DEF TypeOK, HeldInv, In
<1>5. /\ buffer' \in Seq(Requests) /\ Distinct(buffer')
      /\ \A q \in Requests : In(buffer', q) <=> In(buffer, q) /\ q # r
  BY <1>2, <1>4, RemoveHeld
<1>6. /\ \A q \in Requests : ~ In(batch[q], r)
      /\ wire[r] = <<>> /\ n[r] = 0 /\ batch[r] = <<>>
      /\ fault = "REORDER" /\ r \notin log
  BY <1>1, <1>3, <1>4 DEF HeldInv, SentOf
<1>7. Sendable' = Sendable /\ \A q \in Requests : Planned(q)' = Planned(q)
  BY <1>3, PlanStays
<1>8. pc'[r] = "forward" /\ \A q \in Requests : q # r => pc'[q] = pc[q]
  BY <1>1, <1>3 DEF TypeOK
<1>9. TypeOK'
  <2>1. plan' = [q \in Requests |-> IF pc'[q] = "new" THEN NULL ELSE Planned(q)']
    <3>1. DOMAIN pc' = DOMAIN pc
      BY <1>1, <1>3 DEF TypeOK
    <3> QED BY <1>1, <1>3, <1>8, <3>1, PlanKept
  <2>2. pc' \in [Requests -> {"new", "forward", "flush", "held", "expired", "again",
                              "answer", "done"}]
    BY <1>1, <1>3 DEF TypeOK
  <2> QED BY <1>1, <1>3, <1>5, <1>7, <2>1, <2>2 DEF TypeOK
<1>10. HeldInv'
  <2>1. \A q \in Requests : batch[q] # <<>> => pc'[q] = "flush"
    BY <1>1, <1>6, <1>8 DEF HeldInv
  <2>2. \A q \in Requests : In(buffer', q) =>
          /\ pc'[q] \in {"held", "expired"}
          /\ \A p \in Requests : ~ In(batch[p], q)
          /\ wire[q] = <<>> /\ n[q] = 0
    BY <1>1, <1>5, <1>8 DEF HeldInv
  <2>3. \A p, q \in Requests : In(batch[p], q) => pc'[q] = pc[q]
    BY <1>6, <1>8
  <2> QED BY <1>1, <1>3, <1>5, <2>1, <2>2, <2>3 DEF HeldInv
<1>11. SentInv'
  <2> SUFFICES ASSUME NEW q \in Requests PROVE SentOf(q)'
    BY DEF SentInv
  <2>1. SentOf(q)
    BY <1>1 DEF SentInv
  <2>2. CASE q = r
    BY <1>3, <1>6, <1>7, <1>8, <2>1, <2>2 DEF SentOf
  <2>3. CASE q # r
    BY <1>3, <1>7, <1>8, <2>1, <2>3 DEF SentOf
  <2> QED BY <2>2, <2>3
<1>12. AnswerInv'
  BY <1>1, <1>3, <1>7 DEF AnswerInv, ToldTruth
<1> QED BY <1>9, <1>10, <1>11, <1>12 DEF IInv

(* A request arrives: to be forwarded, to be held, or to flush all that are
   held and itself. *)
LEMMA ReceiveStep == ASSUME IInv, NEW r \in Requests, Receive(r) PROVE IInv'
<1> DEFINE held == Append(buffer, r)
<1>1. TypeOK /\ HeldInv /\ SentInv /\ AnswerInv /\ SentOf(r)
  BY DEF IInv, SentInv
<1>2. /\ pc[r] = "new"
      /\ plan' = [plan EXCEPT ![r] = Planned(r)]
      /\ UNCHANGED <<fault, secret, n, results, wire, reply, log>>
  BY DEF Receive, Planned
<1>3. \/ /\ pc' = [pc EXCEPT ![r] = "forward"]
         /\ UNCHANGED <<buffer, batch>>
      \/ /\ fault = "REORDER" /\ pc' = [pc EXCEPT ![r] = "flush"]
         /\ batch' = [batch EXCEPT ![r] = held] /\ buffer' = <<>>
      \/ /\ fault = "REORDER" /\ pc' = [pc EXCEPT ![r] = "held"]
         /\ buffer' = held /\ UNCHANGED batch
  BY DEF Receive
<1>4. /\ ~ In(buffer, r) /\ batch[r] = <<>> /\ \A q \in Requests : ~ In(batch[q], r)
      /\ wire[r] = <<>> /\ n[r] = 0 /\ r \notin log
  BY <1>1, <1>2 DEF HeldInv, SentOf
<1>5. buffer \in Seq(Requests) /\ Distinct(buffer) /\ batch \in [Requests -> Seq(Requests)]
  BY <1>1 DEF TypeOK, HeldInv
<1>6. /\ held \in Seq(Requests) /\ Distinct(held)
      /\ \A q \in Requests : In(held, q) <=> In(buffer, q) \/ q = r
  BY <1>4, <1>5, AppendHeld
<1> HIDE DEF held
<1>7. Sendable' = Sendable /\ \A q \in Requests : Planned(q)' = Planned(q)
  BY <1>2, PlanStays
<1>8. /\ pc'[r] \in {"forward", "flush", "held"} /\ \A q \in Requests : q # r => pc'[q] = pc[q]
      /\ pc' \in [Requests -> {"new", "forward", "flush", "held", "expired", "again",
                               "answer", "done"}]
  <2>1. \E to \in {"forward", "flush", "held"} : pc' = [pc EXCEPT ![r] = to]
    BY <1>3
  <2> QED BY <1>1, <2>1 DEF TypeOK
<1>9. TypeOK'
  <2>1. plan' = [q \in Requests |-> IF pc'[q] = "new" THEN NULL ELSE Planned(q)']
    BY <1>1, <1>2, <1>7, <1>8, ZenonT(30) DEF TypeOK
  <2>2. batch' \in [Requests -> Seq(Requests)] /\ buffer' \in Seq(Requests)
    <3>1. batch' = batch \/ batch' = [batch EXCEPT ![r] = held]
      BY <1>3
    <3>2. buffer' = buffer \/ buffer' = held \/ buffer' = <<>>
      BY <1>3
    <3>3. batch' \in [Requests -> Seq(Requests)]
      BY <1>5, <1>6, <3>1
    <3>4. <<>> \in Seq(Requests)
      OBVIOUS
    <3>5. buffer' \in Seq(Requests)
      BY <1>5, <1>6, <3>2, <3>4, Zenon
    <3> QED BY <3>3, <3>5
  <2> QED BY <1>1, <1>2, <1>7, <1>8, <2>1, <2>2 DEF TypeOK
<1>10. HeldInv'
  <2>1. CASE pc' = [pc EXCEPT ![r] = "forward"] /\ UNCHANGED <<buffer, batch>>
    <3>1. \A p, q \in Requests : In(buffer, q) \/ In(batch[p], q) \/ batch[q] # <<>> => pc'[q] = pc[q]
      BY <1>4, <1>8
    <3>2. buffer' = buffer /\ batch' = batch /\ wire' = wire /\ n' = n /\ fault' = fault
      BY <1>2, <2>1
    <3> QED BY <1>1, <3>1, <3>2 DEF HeldInv
  <2>2. CASE /\ fault = "REORDER" /\ pc' = [pc EXCEPT ![r] = "flush"]
             /\ batch' = [batch EXCEPT ![r] = held] /\ buffer' = <<>>
    <3>1. Distinct(buffer') /\ \A q \in Requests : ~ In(buffer', q)
      BY <2>2 DEF Distinct, In
    <3>2. pc'[r] = "flush" /\ batch'[r] = held
      BY <1>1, <1>5, <2>2 DEF TypeOK
    <3>3. \A q \in Requests : q # r => pc'[q] = pc[q] /\ batch'[q] = batch[q]
      BY <1>5, <1>8, <2>2
    <3>4. \A q \in Requests : Distinct(batch'[q]) /\ (batch'[q] # <<>> => pc'[q] = "flush")
      BY <1>1, <1>6, <3>2, <3>3 DEF HeldInv
    <3>5. \A p, q \in Requests : In(batch'[p], q) =>
             \/ p = r /\ q = r
             \/ p = r /\ q # r /\ In(buffer, q)
             \/ p # r /\ q # r /\ In(batch[p], q)
      BY <1>4, <1>6, <3>2, <3>3
    <3>6. \A o, p, q \in Requests : In(batch'[o], q) /\ In(batch'[p], q) => o = p
      BY <1>1, <3>5 DEF HeldInv
    <3>7. \A p, q \in Requests : In(batch'[p], q) =>
             /\ \/ pc'[q] \in {"held", "expired", "again", "done"}
                \/ pc'[q] = "flush" /\ p = q
             /\ wire[q] = <<>>
      <4> SUFFICES ASSUME NEW p \in Requests, NEW q \in Requests, In(batch'[p], q)
                   PROVE  /\ \/ pc'[q] \in {"held", "expired", "again", "done"}
                             \/ pc'[q] = "flush" /\ p = q
                          /\ wire[q] = <<>>
        OBVIOUS
      <4>1. CASE p = r /\ q = r
        BY <1>4, <3>2, <4>1
      <4>2. CASE q # r /\ In(buffer, q)
        BY <1>1, <3>3, <4>2 DEF HeldInv
      <4>3. CASE p # r /\ q # r /\ In(batch[p], q)
        BY <1>1, <3>3, <4>3 DEF HeldInv
      <4> QED BY <3>5, <4>1, <4>2, <4>3
    <3> QED BY <1>2, <2>2, <3>1, <3>4, <3>6, <3>7 DEF HeldInv
  <2>3. CASE /\ fault = "REORDER" /\ pc' = [pc EXCEPT ![r] = "held"]
             /\ buffer' = held /\ UNCHANGED batch
    <3>1. pc'[r] = "held" /\ buffer' = held /\ batch' = batch
      BY <1>1, <2>3 DEF TypeOK
    <3>2. \A p, q \in Requests : In(batch[p], q) \/ batch[q] # <<>> => pc'[q] = pc[q]
      BY <1>4, <1>8
    <3>3. \A q \in Requests : In(buffer', q) =>
            /\ pc'[q] \in {"held", "expired"}
            /\ \A p \in Requests : ~ In(batch[p], q)
            /\ wire[q] = <<>> /\ n[q] = 0
      BY <1>1, <1>4, <1>6, <1>8, <3>1 DEF HeldInv
    <3> QED BY <1>1, <1>2, <1>6, <3>1, <3>2, <3>3 DEF HeldInv
  <2> QED BY <1>3, <2>1, <2>2, <2>3
<1>11. SentInv'
  <2> SUFFICES ASSUME NEW q \in Requests PROVE SentOf(q)'
    BY DEF SentInv
  <2>1. SentOf(q)
    BY <1>1 DEF SentInv
  <2>2. CASE q = r
    <3>1. pc'[r] = "flush" => In(batch'[r], r)
      BY <1>1, <1>3, <1>5, <1>6 DEF TypeOK
    <3>2. pc'[r] # "forward" => fault = "REORDER"
      BY <1>1, <1>3 DEF TypeOK
    <3> QED BY <1>2, <1>4, <1>7, <1>8, <2>1, <2>2, <3>1, <3>2 DEF SentOf
  <2>3. CASE q # r
    <3>1. batch'[q] = batch[q]
      BY <1>3, <1>5, <2>3
    <3> QED BY <1>2, <1>7, <1>8, <2>1, <2>3, <3>1 DEF SentOf
  <2> QED BY <2>2, <2>3
<1>12. AnswerInv'
  BY <1>1, <1>2, <1>7 DEF AnswerInv, ToldTruth
<1> QED BY <1>9, <1>10, <1>11, <1>12 DEF IInv

(* Every step preserves the invariant. *)
LEMMA InvStep == IInv /\ [Next]_vars => IInv'
<1> SUFFICES ASSUME IInv, [Next]_vars PROVE IInv'
  OBVIOUS
<1>1. ASSUME NEW r \in Requests, Running(r) PROVE IInv'
  BY <1>1, ForwardStep, ForwardedStep, FlushStep, FlushedStep, WokenStep,
     HoldExpiresStep, TakeBackStep, WaitAgainStep, HandlerRaisesStep, AnswerStep
     DEF Running
<1>2. CASE UNCHANGED vars
  <2>1. Sendable' = Sendable /\ \A q \in Requests : Planned(q)' = Planned(q)
    BY <1>2, PlanStays DEF vars
  <2>2. TypeOK'
    BY <1>2, <2>1, ZenonT(30) DEF vars, IInv, TypeOK
  <2>3. HeldInv'
    BY <1>2 DEF vars, IInv, HeldInv
  <2>4. AnswerInv'
    BY <1>2, <2>1 DEF vars, IInv, AnswerInv, ToldTruth
  <2>5. SentInv'
    BY <1>2, <2>1 DEF vars, IInv, SentInv, SentOf
  <2> QED BY <2>2, <2>3, <2>4, <2>5 DEF IInv
<1> QED BY <1>1, <1>2, ReceiveStep DEF Next

(* The inductive invariant of the live proxy. *)
LEMMA Invariance == Spec => []IInv
BY InvInit, InvStep, PTL DEF Spec

-----------------------------------------------------------------------------
(* The theorems. *)

(* Type correctness. *)
THEOREM TypeCorrect == Spec => []TypeOK
<1>1. IInv => TypeOK
  BY DEF IInv
<1> QED BY <1>1, Invariance, PTL

(* No delivery is forwarded twice, and a request that is answered with lines in
   the log had all of its plan forwarded: for any number of requests, any
   buffer size and any race of flushes with expiring holds. *)
THEOREM OnceForwarded == Spec => []ForwardedOnce
<1>1. IInv => ForwardedOnce
  BY DEF IInv, TypeOK, SentInv, SentOf, ForwardedOnce
<1> QED BY <1>1, Invariance, PTL

(* Stripe is told 200 only if ingest accepted the last delivery. *)
THEOREM UpstreamIsHonest == Spec => []HonestUpstream
<1>1. IInv => HonestUpstream
  BY DEF IInv, AnswerInv, ToldTruth, HonestUpstream
<1> QED BY <1>1, Invariance, PTL

(* What the four attacks make of a request is refused, if it is labelled as
   applied and "stale" is more than the tolerance. *)
LEMMA AttackIsRefused ==
  ASSUME TypeOK, age_s > DEFAULT_TOLERANCE_SECONDS, NEW r \in Requests,
         fault \in {"TAMPER_BODY", "TRUNCATE_BODY", "STALE_TIMESTAMP", "DOWNGRADE_SCHEME"},
         Planned(r).applied, NEW d, In(Planned(r).deliveries, d)
  PROVE  IngestAnswers(d) = {400}
<1> SUFFICES ~ (verify(d.body, d.sig, Secret, Now) /\ d.body.form # "truncated")
  BY DEF IngestAnswers, Refusal
<1>1. CASE fault = "TAMPER_BODY"
  <2>1. d = [body |-> _flip_byte(raw(r)), sig |-> sig_header(r)]
    BY <1>1 DEF Planned, _live_plan, _LivePlan, In
  <2>2. d.body.form = "tampered" /\ raw(r).form = "intact"
    BY <2>1 DEF _flip_byte, raw
  <2>3. d.sig.v1 \subseteq {<<Secret, Now, raw(r)>>}
    BY <2>1 DEF sig_header, sign, NoSignature, _v1_digest
  <2> QED BY <2>2, <2>3 DEF verify, _v1_digest
<1>2. CASE fault = "TRUNCATE_BODY"
  <2>1. d = [body |-> Halved(raw(r)), sig |-> sig_header(r)]
    BY <1>2 DEF Planned, _live_plan, _LivePlan, In
  <2> QED BY <2>1 DEF Halved, raw
<1>3. CASE fault = "STALE_TIMESTAMP"
  <2>1. d.sig = _backdated(sig_header(r), raw(r)).sig /\ _backdated(sig_header(r), raw(r)).applied
    BY <1>3 DEF Planned, _live_plan, _LivePlan, In
  <2>2. d.sig.t = <<Now - age_s>>
    BY <2>1 DEF _backdated, sign, sig_header, NoSignature
  <2>3. ~ (Distance(Now, Now - age_s) <= DEFAULT_TOLERANCE_SECONDS)
    BY ProxyAssumption DEF Distance, Now, DEFAULT_TOLERANCE_SECONDS
  <2> QED BY <2>2, <2>3 DEF verify
<1>4. CASE fault = "DOWNGRADE_SCHEME"
  <2>1. d.sig = _downgraded(sig_header(r)).sig /\ _downgraded(sig_header(r)).applied
    BY <1>4 DEF Planned, _live_plan, _LivePlan, In
  <2>2. d.sig.v1 = {}
    BY <2>1 DEF _downgraded
  <2> QED BY <2>2 DEF verify
<1> QED BY <1>1, <1>2, <1>3, <1>4

(* An attack that the log labels as applied is never accepted: with or without
   the endpoint secret, signed requests and unsigned ones, any age above the
   tolerance (faults.py refuses to plan a smaller one). *)
THEOREM AttacksAreRefused ==
  ASSUME age_s > DEFAULT_TOLERANCE_SECONDS
  PROVE  Spec => []AttackRefused
<1>1. IInv => AttackRefused
  <2> SUFFICES ASSUME IInv, NEW r \in Requests, NEW k \in DOMAIN wire[r], plan[r].applied,
                      fault \in {"TAMPER_BODY", "TRUNCATE_BODY", "STALE_TIMESTAMP",
                                "DOWNGRADE_SCHEME"}
               PROVE  wire[r][k].answer \in {400, NULL}
    BY DEF AttackRefused
  <2>1. /\ In(Planned(r).deliveries, wire[r][k].d)
        /\ wire[r][k].answer \in IngestAnswers(wire[r][k].d) \cup {NULL}
    BY DEF IInv, AnswerInv
  <2>2. pc[r] # "new"
    BY DEF IInv, SentInv, SentOf
  <2>3. TypeOK /\ Planned(r).applied
    BY <2>2 DEF IInv, TypeOK
  <2>4. IngestAnswers(wire[r][k].d) = {400}
    BY <2>1, <2>3, AttackIsRefused
  <2> QED BY <2>1, <2>4
<1> QED BY <1>1, Invariance, PTL
=============================================================================
