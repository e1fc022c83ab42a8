---------------------------- MODULE LimitsProofs ----------------------------
(***************************************************************************)
(* The limits package: the GCRA promise, proved for every rate, burst,     *)
(* number of callers and clock bound, as long as callers are timely; and   *)
(* the anti-flap promises of the shedder, for every threshold table and    *)
(* every EscalateAfter <= RecoverAfter.                                    *)
(***************************************************************************)
EXTENDS GCRA, Shedder, FiniteSetTheorems, TLAPS

-----------------------------------------------------------------------------
(* The limiter. *)

(* What the proofs use of the constants: the provers are slowed down by the
   product that relates the tolerance to the burst, and nothing needs it. *)
LEMMA LimiterTypes ==
  /\ T \in Nat \ {0} /\ tolerance \in Nat
  /\ LockTTL \in Nat \ {0} /\ Slack \in Nat /\ MaxStall \in Nat /\ MaxClock \in Nat
  /\ None \notin Callers /\ None \notin Nat
BY LimiterAssumption

(* The tolerance is a natural number. *)
LEMMA ToleranceIsNat == tolerance \in Nat
BY LimiterTypes

(* One more emission interval. *)
LEMMA OneMore == ASSUME NEW k \in Int PROVE T * (k + 1) = T * k + T
BY LimiterTypes

(* Multiples of the emission interval are integers. *)
LEMMA ProductIsInt == ASSUME NEW k \in Int PROVE T * k \in Int
BY LimiterTypes

(* Nobody can take a lock that a live caller still works under. *)
LEMMA LockIsHeld ==
  ASSUME Timely, TypeOK, LockInv, NEW c \in Callers, Critical(c)
  PROVE  lock.by = c /\ ~ LockFree
BY LimiterTypes DEF Timely, TypeOK, LockInv, LockFree, Critical

(* So there is at most one. *)
LEMMA OneHolder ==
  ASSUME Timely, TypeOK, LockInv
  PROVE  Exclusive
BY LockIsHeld DEF Exclusive

(* The initial state satisfies the invariant. *)
LEMMA InitInv == Init => IInv
BY LimiterTypes DEF Init, IInv, TypeOK, LockInv, TatInv, Conforms, Covers, Idle,
  Verdicts, Critical, At

-----------------------------------------------------------------------------

(* Every step keeps the types. *)
LEMMA TypeStep == TypeOK /\ [Next]_vars => TypeOK'
<1> SUFFICES ASSUME TypeOK, [Next]_vars PROVE TypeOK'
  OBVIOUS
<1> USE LimiterTypes, ToleranceIsNat
<1> DEFINE CallType == [pc : {"idle", "acquire", "time", "get", "set", "release"},
                        since : Nat, now : Nat, seen : Nat,
                        verdict : Verdicts]
<1>i. \A v \in Verdicts : Idle(v) \in CallType
  BY DEF Idle
<1>f. _fail_open_decision \in Verdicts
  BY DEF _fail_open_decision, Verdicts
<1>1. CASE Tick
  BY <1>1 DEF Tick, TypeOK
<1>2. CASE reset
  BY <1>2 DEF reset, TypeOK
<1>3. ASSUME NEW c \in Callers, Step(c) PROVE TypeOK'
  <2> call[c] \in CallType
    BY DEF TypeOK
  <2>w. ASSUME At(c, "set"), WriteTat(c) PROVE tat' \in [val : Nat \cup {None}, exp : Nat]
    <3> DEFINE new == NewTat(call[c].now, call[c].seen)
    <3>1. call[c].now \in Nat /\ call[c].seen \in Nat /\ clock \in Nat
      BY DEF TypeOK
    <3>2. new \in Nat
      BY <3>1 DEF NewTat, Larger
    <3> HIDE DEF new
    <3>3. TatTTL(call[c].now, new) \in Nat
      BY <3>1, <3>2 DEF TatTTL, Larger
    <3> QED BY <2>w, <3>1, <3>2, <3>3 DEF WriteTat, new
  <2>c. clock \in Nat
    BY DEF TypeOK
  <2>l. [by |-> c, exp |-> clock + LockTTL] \in [by : Callers \cup {None}, exp : Nat]
    BY <2>c
  <2>1. CASE check(c)
    <3>1. [Idle("none") EXCEPT !.pc = "acquire"] \in CallType
      BY <1>i DEF Verdicts
    <3> QED BY <2>1, <3>1 DEF check, TypeOK
  <2>2. CASE _acquire(c)
    <3>1. call' \in [Callers -> CallType]
      BY <2>2, <2>c DEF _acquire, TypeOK
    <3>2. lock' \in [by : Callers \cup {None}, exp : Nat]
      BY <2>2, <2>l DEF _acquire
    <3> QED BY <2>2, <3>1, <3>2 DEF _acquire, TypeOK
  <2>3. CASE LockUnavailable(c)
    BY <2>3, <1>i DEF LockUnavailable, Return, TypeOK, Verdicts
  <2>4. CASE AcquireRaises(c)
    <3>1. call' \in [Callers -> CallType]
      BY <2>4, <1>i, <1>f DEF AcquireRaises, Return, TypeOK
    <3>2. lock' \in [by : Callers \cup {None}, exp : Nat]
      BY <2>4, <2>l DEF AcquireRaises, TypeOK
    <3> QED BY <2>4, <3>1, <3>2 DEF AcquireRaises, TypeOK
  <2>5. CASE _now(c)
    BY <2>5, <2>c DEF _now, TypeOK
  <2>6. CASE GetTat(c)
    <3>1. StoredTat = None \/ StoredTat \in Nat
      BY DEF StoredTat, TypeOK
    <3> QED BY <2>6, <3>1 DEF GetTat, TypeOK
  <2>7. CASE Deny(c)
    BY <2>7 DEF Deny, Decide, TypeOK, Verdicts
  <2>8. CASE Admit(c)
    <3>2. call' \in [Callers -> CallType]
      BY <2>8 DEF Admit, Decide, TypeOK, Verdicts
    <3>3. log' \in Seq(Nat)
      BY <2>8 DEF Admit, TypeOK
    <3> QED BY <2>8, <2>w, <3>2, <3>3 DEF Admit, TypeOK
  <2>9. CASE CommandRaises(c)
    <3>1. call' \in [Callers -> CallType]
      BY <2>9, <1>f DEF CommandRaises, Decide, TypeOK
    <3> QED BY <2>9, <2>w, <3>1 DEF CommandRaises, TypeOK
  <2>10. CASE _release(c)
    BY <2>10, <1>i, SMTT(30) DEF _release, Return, TypeOK
  <2>11. CASE Dies(c)
    BY <2>11, <1>i DEF Dies, Return, TypeOK, Verdicts
  <2> QED BY <1>3, <2>1, <2>2, <2>3, <2>4, <2>5, <2>6, <2>7, <2>8, <2>9, <2>10, <2>11
          DEF Step
<1>4. CASE UNCHANGED vars
  BY <1>4 DEF vars, TypeOK
<1> QED BY <1>1, <1>2, <1>3, <1>4 DEF Next

-----------------------------------------------------------------------------
(* What a step that leaves the history and the TAT alone has to show. *)
LEMMA SameHistory ==
  ASSUME TatInv, Conforms, UNCHANGED <<clock, tat, log>>
  PROVE  TatInv' /\ Conforms'
BY DEF TatInv, Conforms, Covers

(* A caller the step does not touch keeps its part of LockInv when clock, lock
   and history stay as they are. *)
LEMMA OthersKeep ==
  ASSUME LockInv, NEW d \in Callers, call'[d] = call[d], Critical(d)',
         UNCHANGED <<clock, lock, log>>
  PROVE  /\ lock'.by = d
         /\ lock'.exp = call'[d].since + LockTTL
         /\ call'[d].since <= clock' /\ clock' <= call'[d].since + MaxStall
         /\ call'[d].pc \in {"get", "set"} =>
              /\ call'[d].since <= call'[d].now /\ call'[d].now <= clock'
              /\ \A i \in 1 .. Len(log') : log'[i] <= call'[d].now
         /\ At(d, "set")' => Covers(call[d].seen)'
BY DEF LockInv, Critical, At, Covers

(* A step of c that ends outside the critical section and leaves clock, lock
   and history alone. *)
LEMMA LeavesLockInv ==
  ASSUME LockInv, NEW c \in Callers, ~ Critical(c)',
         \A d \in Callers \ {c} : call'[d] = call[d],
         UNCHANGED <<clock, lock, log>>
  PROVE  LockInv'
<1> SUFFICES ASSUME NEW d \in Callers, Critical(d)'
             PROVE  /\ lock'.by = d
                    /\ lock'.exp = call'[d].since + LockTTL
                    /\ call'[d].since <= clock' /\ clock' <= call'[d].since + MaxStall
                    /\ call'[d].pc \in {"get", "set"} =>
                         /\ call'[d].since <= call'[d].now /\ call'[d].now <= clock'
                         /\ \A i \in 1 .. Len(log') : log'[i] <= call'[d].now
                    /\ At(d, "set")' => Covers(call[d].seen)'
  BY DEF LockInv
<1>1. d # c
  OBVIOUS
<1> QED BY <1>1, OthersKeep

(* What GET tat returns under the lock covers every admission, also when the
   key has expired in the meantime: the slack outlasts the stall. *)
LEMMA ReadCovers ==
  ASSUME Timely, TypeOK, LockInv, TatInv, NEW c \in Callers, At(c, "get")
  PROVE  Covers(IF StoredTat = None THEN call[c].now ELSE StoredTat)
<1> USE LimiterTypes
<1>1. /\ clock \in Nat /\ call[c].now \in Nat /\ call[c].since \in Nat
      /\ tat.exp \in Nat /\ tat.val \in Nat \cup {None}
  BY DEF TypeOK
<1>2. clock <= call[c].now + MaxStall
  BY <1>1, SMTT(30) DEF LockInv, Critical, At
<1>3. CASE log = << >>
  BY <1>3 DEF Covers
<1>4. CASE log # << >> /\ clock < tat.exp
  BY <1>1, <1>4 DEF TatInv, StoredTat
<1>5. CASE log # << >> /\ ~ (clock < tat.exp)
  <2>1. tat.val \in Nat /\ Covers(tat.val) /\ tat.exp >= tat.val + Slack
    BY <1>1, <1>5 DEF TatInv
  <2>2. call[c].now >= tat.val
    BY <1>1, <1>2, <1>5, <2>1 DEF Timely
  <2>3. \A i \in 1 .. Len(log) : log[i] + T * (Len(log) - i + 1) \in Int
    <3> TAKE i \in 1 .. Len(log)
    <3>1. Len(log) - i + 1 \in Int /\ log[i] \in Nat
      BY DEF TypeOK
    <3> QED BY <3>1, ProductIsInt
  <2> QED BY <1>1, <1>5, <2>1, <2>2, <2>3 DEF Covers, StoredTat
<1> QED BY <1>3, <1>4, <1>5

(* The TAT a caller is about to write covers the history plus, one emission
   interval later, its own request. *)
LEMMA NewTatCovers ==
  ASSUME TypeOK, NEW now \in Nat, NEW seen \in Nat, Covers(seen)
  PROVE  /\ NewTat(now, seen) \in Nat
         /\ NewTat(now, seen) >= now + T
         /\ \A i \in 1 .. Len(log) :
              /\ NewTat(now, seen) >= log[i] + T * (Len(log) - i + 1)
              /\ NewTat(now, seen) >= log[i] + T * (Len(log) + 1 - i + 1)
<1> USE LimiterTypes
<1>1. /\ NewTat(now, seen) \in Nat
      /\ NewTat(now, seen) >= now + T
      /\ NewTat(now, seen) >= seen + T
  BY DEF NewTat, Larger
<1>2. ASSUME NEW i \in 1 .. Len(log)
      PROVE  /\ NewTat(now, seen) >= log[i] + T * (Len(log) - i + 1)
             /\ NewTat(now, seen) >= log[i] + T * (Len(log) + 1 - i + 1)
  <2> DEFINE k == Len(log) - i + 1
  <2>1. k \in Int /\ log[i] \in Nat /\ Len(log) + 1 - i + 1 = k + 1
    BY DEF TypeOK
  <2>2. seen >= log[i] + T * k
    BY DEF Covers
  <2> HIDE DEF k
  <2>3. T * (k + 1) = T * k + T /\ T * k \in Int
    BY <2>1, OneMore, ProductIsInt
  <2>4. NewTat(now, seen) >= log[i] + T * k /\ NewTat(now, seen) >= log[i] + T * (k + 1)
    BY <1>1, <2>1, <2>2, <2>3
  <2> QED BY <2>1, <2>4 DEF k
<1> QED BY <1>1, <1>2

(* A TAT written outlives its value by the slack. *)
LEMMA WrittenTat ==
  ASSUME TypeOK, NEW c \in Callers, WriteTat(c), call[c].now <= clock
  PROVE  /\ tat'.val = NewTat(call[c].now, call[c].seen)
         /\ tat'.val \in Nat
         /\ tat'.exp >= tat'.val + Slack
<1> USE LimiterTypes
<1> DEFINE new == NewTat(call[c].now, call[c].seen)
<1>1. call[c].now \in Nat /\ call[c].seen \in Nat /\ clock \in Nat
  BY DEF TypeOK
<1>2. new \in Nat
  BY <1>1 DEF NewTat, Larger
<1>3. tat' = [val |-> new, exp |-> clock + TatTTL(call[c].now, new)]
  BY DEF WriteTat
<1> HIDE DEF new
<1>4. TatTTL(call[c].now, new) \in Int /\ TatTTL(call[c].now, new) >= new - call[c].now + Slack
  BY <1>1, <1>2, ToleranceIsNat DEF TatTTL, Larger
<1>5. clock + TatTTL(call[c].now, new) >= new + Slack
  BY <1>1, <1>2, <1>4
<1> QED BY <1>2, <1>3, <1>5 DEF new

-----------------------------------------------------------------------------
(* Every step preserves the invariant: one case per action. *)
LEMMA InvStep ==
  ASSUME Timely, IInv, [Next]_vars
  PROVE  IInv'
<1> USE LimiterTypes
<1>t. TypeOK /\ LockInv /\ TatInv /\ Conforms /\ TypeOK'
  BY TypeStep DEF IInv
<1>x. Exclusive
  BY <1>t, OneHolder
<1>1. CASE Tick
  <2>1. clock \in Nat /\ clock' = clock + 1 /\ UNCHANGED <<tat, lock, call, log>>
    BY <1>1, <1>t DEF Tick, TypeOK
  <2>2. LockInv'
    <3>1. \A c \in Callers : /\ call[c].since \in Nat /\ call[c].now \in Nat
      BY <1>t DEF TypeOK
    <3> QED BY <1>1, <1>t, <2>1, <3>1 DEF Tick, LockInv, Critical, At, Covers
  <2>3. TatInv'
    <3>0. log \in Seq(Nat)
      BY <1>t DEF TypeOK
    <3>1. \A i \in 1 .. Len(log) : log[i] \in Nat
      BY <3>0
    <3> QED BY <1>t, <2>1, <3>1 DEF TatInv, Covers
  <2>4. Conforms'
    BY <1>t, <2>1 DEF Conforms
  <2> QED BY <1>t, <2>2, <2>3, <2>4 DEF IInv
<1>2. CASE reset
  <2>1. log' = << >> /\ tat'.val = None /\ UNCHANGED <<clock, lock, call>>
    BY <1>2 DEF reset
  <2>2. LockInv'
    BY <1>t, <2>1 DEF LockInv, Critical, At, Covers
  <2>3. TatInv' /\ Conforms'
    BY <2>1 DEF TatInv, Conforms, Covers
  <2> QED BY <1>t, <2>2, <2>3 DEF IInv
<1>3. ASSUME NEW c \in Callers, Step(c) PROVE IInv'
  <2>o. \A d \in Callers \ {c} : call'[d] = call[d]
    BY <1>3, <1>t DEF Step, check, _acquire, LockUnavailable, AcquireRaises, _now, GetTat,
       Deny, Admit, CommandRaises, _release, Dies, Return, Decide, TypeOK
  <2>ty. /\ call \in [Callers -> [pc : {"idle", "acquire", "time", "get", "set", "release"},
                                 since : Nat, now : Nat, seen : Nat,
                                 verdict : Verdicts]]
         /\ clock \in Nat
    BY <1>t DEF TypeOK
  <2>e. ASSUME Critical(c), NEW d \in Callers, Critical(d)', ~ Critical(c)'
        PROVE  FALSE
    BY <1>x, <2>o, <2>e DEF Exclusive, Critical
  <2>1. CASE check(c)
    <3>1. ~ Critical(c)' /\ UNCHANGED <<clock, tat, lock, log>>
      BY <2>1, <2>ty DEF check, Critical, Idle
    <3> QED BY <1>t, <2>o, <3>1, SameHistory, LeavesLockInv DEF IInv
  <2>2. CASE _acquire(c)
    <3>1. \A d \in Callers : ~ Critical(d)
      BY <1>t, <2>2, LockIsHeld DEF _acquire
    <3>2. /\ call'[c].pc = "time" /\ call'[c].since = clock
          /\ lock' = [by |-> c, exp |-> clock + LockTTL]
          /\ UNCHANGED <<clock, tat, log>>
      BY <2>2, <2>ty DEF _acquire
    <3>3. \A d \in Callers : Critical(d)' => d = c
      BY <2>o, <3>1 DEF Critical
    <3>4. lock'.by = c /\ lock'.exp = call'[c].since + LockTTL
      BY <3>2
    <3>5. call'[c].since <= clock' /\ clock' <= call'[c].since + MaxStall
      BY <2>ty, <3>2, LimiterTypes
    <3>6. LockInv'
      BY <3>2, <3>3, <3>4, <3>5 DEF LockInv, At
    <3> QED BY <1>t, <3>2, <3>6, SameHistory DEF IInv
  <2>3. CASE LockUnavailable(c)
    <3>1. ~ Critical(c)' /\ UNCHANGED <<clock, tat, lock, log>>
      BY <2>3, <2>ty DEF LockUnavailable, Return, Critical, Idle
    <3> QED BY <1>t, <2>o, <3>1, SameHistory, LeavesLockInv DEF IInv
  <2>4. CASE AcquireRaises(c)
    <3>1. ~ Critical(c)' /\ UNCHANGED <<clock, tat, log>>
      BY <2>4, <2>ty DEF AcquireRaises, Return, Critical, Idle
    <3>2. CASE UNCHANGED lock
      BY <1>t, <2>o, <3>1, <3>2, SameHistory, LeavesLockInv DEF IInv
    <3>3. CASE LockFree
      <4>1. \A d \in Callers : ~ Critical(d)'
        BY <1>t, <2>o, <3>1, <3>3, LockIsHeld DEF Critical
      <4> QED BY <1>t, <3>1, <4>1, SameHistory DEF IInv, LockInv
    <3> QED BY <2>4, <3>2, <3>3 DEF AcquireRaises
  <2>5. CASE _now(c)
    <3>1. /\ call'[c].pc = "get" /\ call'[c].now = clock
          /\ call'[c].since = call[c].since /\ Critical(c)
          /\ UNCHANGED <<clock, tat, lock, log>>
      BY <2>5, <2>ty DEF _now, Critical, At
    <3>2. \A d \in Callers : Critical(d)' => d = c
      BY <1>x, <2>o, <3>1 DEF Exclusive, Critical
    <3>3. LockInv'
      BY <1>t, <2>ty, <3>1, <3>2 DEF LockInv, TatInv, At
    <3> QED BY <1>t, <3>1, <3>3, SameHistory DEF IInv
  <2>6. CASE GetTat(c)
    <3>1. /\ call'[c].pc = "set" /\ call'[c].now = call[c].now
          /\ call'[c].seen = IF StoredTat = None THEN call[c].now ELSE StoredTat
          /\ call'[c].since = call[c].since /\ Critical(c) /\ At(c, "get")
          /\ UNCHANGED <<clock, tat, lock, log>>
      BY <2>6, <2>ty DEF GetTat, Critical, At
    <3>2. \A d \in Callers : Critical(d)' => d = c
      BY <1>x, <2>o, <3>1 DEF Exclusive, Critical
    <3>3. Covers(call'[c].seen)
      BY <1>t, <3>1, ReadCovers
    <3>4. LockInv'
      BY <1>t, <3>1, <3>2, <3>3 DEF LockInv, Critical, At, Covers
    <3> QED BY <1>t, <3>1, <3>4, SameHistory DEF IInv
  <2>7. CASE Deny(c)
    <3>1. ~ Critical(c)' /\ UNCHANGED <<clock, tat, lock, log>>
      BY <2>7, <2>ty DEF Deny, Decide, Critical
    <3> QED BY <1>t, <2>o, <3>1, SameHistory, LeavesLockInv DEF IInv
  <2>8. CASE Admit(c)
    <3>1. /\ ~ Critical(c)' /\ Critical(c) /\ At(c, "set")
          /\ Conforming(call[c].now, call[c].seen)
          /\ WriteTat(c) /\ log' = Append(log, call[c].now)
          /\ UNCHANGED <<clock, lock>>
      BY <2>8, <2>ty DEF Admit, Decide, Critical, At
    <3>2. LockInv'
      BY <2>e, <3>1 DEF LockInv
    <3> DEFINE now == call[c].now
               seen == call[c].seen
               new == NewTat(now, seen)
               n == Len(log)
    <3>3. /\ Covers(seen) /\ now <= clock
          /\ \A i \in 1 .. n : log[i] <= now
      BY <1>t, <3>1 DEF LockInv, At, Critical
    <3>4. now \in Nat /\ seen \in Nat
      BY <2>ty
    <3>5. /\ new \in Nat
          /\ new >= now + T
          /\ \A i \in 1 .. n : new >= log[i] + T * (n + 1 - i + 1)
      BY <1>t, <3>3, <3>4, NewTatCovers
    <3>6. /\ tat'.val = new
          /\ tat'.exp >= tat'.val + Slack
      BY <1>t, <3>1, <3>3, WrittenTat
    <3>s. log \in Seq(Nat)
      BY <1>t DEF TypeOK
    <3>7. /\ n \in Nat /\ Len(log') = n + 1
          /\ log'[n + 1] = now
          /\ \A i \in 1 .. n : log'[i] = log[i] /\ log[i] \in Nat
      BY <3>s, <3>1, <3>4
    <3>8. now >= seen - tolerance
      BY <3>1 DEF Conforming
    <3> HIDE DEF now, seen, new, n
    <3>9. ASSUME NEW i \in 1 .. Len(log')
          PROVE  tat'.val >= log'[i] + T * (Len(log') - i + 1)
      <4>1. CASE i = n + 1
        BY <3>4, <3>5, <3>6, <3>7, <4>1
      <4>2. CASE i \in 1 .. n
        BY <3>5, <3>6, <3>7, <4>2
      <4> QED BY <3>7, <4>1, <4>2
    <3>10. TatInv'
      <4>1. \A i \in 1 .. Len(log') : log'[i] <= clock'
        BY <3>1, <3>3, <3>4, <3>7, <2>ty
      <4>2. tat'.val # None
        BY <3>5, <3>6
      <4> QED BY <3>6, <3>9, <4>1, <4>2 DEF TatInv, Covers
    <3>11. Conforms'
      <4> SUFFICES ASSUME NEW i \in 1 .. Len(log'), NEW j \in 1 .. Len(log'), i < j
                   PROVE  T * (j - i) <= log'[j] - log'[i] + tolerance
        BY DEF Conforms
      <4>1. CASE j = n + 1
        <5>1. i \in 1 .. n /\ n - i + 1 = j - i /\ j - i \in Int
          BY <3>7, <4>1
        <5>2. seen >= log[i] + T * (j - i)
          BY <3>3, <5>1 DEF Covers, n
        <5>3. T * (j - i) \in Int /\ log[i] \in Nat
          BY <5>1, <3>7, ProductIsInt
        <5> QED BY <3>4, <3>7, <3>8, <4>1, <5>1, <5>2, <5>3, ToleranceIsNat
      <4>2. CASE j \in 1 .. n
        <5>1. i \in 1 .. n
          BY <3>7, <4>2
        <5>2. T * (j - i) <= log[j] - log[i] + tolerance
          BY <1>t, <4>2, <5>1 DEF Conforms, n
        <5> QED BY <3>7, <4>2, <5>1, <5>2
      <4> QED BY <3>7, <4>1, <4>2
    <3> QED BY <1>t, <3>2, <3>10, <3>11 DEF IInv
  <2>9. CASE CommandRaises(c)
    <3>1. /\ ~ Critical(c)' /\ Critical(c)
          /\ UNCHANGED <<clock, lock, log>>
          /\ UNCHANGED tat \/ (At(c, "set") /\ WriteTat(c))
      BY <2>9, <2>ty DEF CommandRaises, Decide, Critical
    <3>2. LockInv'
      BY <2>e, <3>1 DEF LockInv
    <3>3. CASE UNCHANGED tat
      BY <1>t, <3>1, <3>2, <3>3, SameHistory DEF IInv
    <3>4. CASE At(c, "set") /\ WriteTat(c)
      <4>1. Covers(call[c].seen) /\ call[c].now <= clock
        BY <1>t, <3>1, <3>4 DEF LockInv, At
      <4>2. tat'.val = NewTat(call[c].now, call[c].seen) /\ tat'.val \in Nat
            /\ tat'.exp >= tat'.val + Slack
        BY <1>t, <3>4, <4>1, WrittenTat
      <4>3. \A i \in 1 .. Len(log) : tat'.val >= log[i] + T * (Len(log) - i + 1)
        BY <1>t, <2>ty, <4>1, <4>2, NewTatCovers, SMTT(30)
      <4>4. TatInv'
        BY <1>t, <3>1, <4>2, <4>3 DEF TatInv, Covers
      <4>5. Conforms'
        BY <1>t, <3>1 DEF Conforms
      <4> QED BY <1>t, <3>2, <4>4, <4>5 DEF IInv
    <3> QED BY <3>1, <3>3, <3>4
  <2>10. CASE _release(c)
    <3>1. ~ Critical(c)' /\ ~ Critical(c) /\ UNCHANGED <<clock, tat, log>>
      BY <2>10, <2>ty DEF _release, Return, Critical, Idle, At
    <3>2. CASE UNCHANGED lock
      BY <1>t, <2>o, <3>1, <3>2, SameHistory, LeavesLockInv DEF IInv
    <3>3. CASE lock.by = c
      <4>1. \A d \in Callers : ~ Critical(d)'
        BY <1>t, <2>o, <3>1, <3>3 DEF LockInv, Critical
      <4> QED BY <1>t, <3>1, <4>1, SameHistory DEF IInv, LockInv
    <3> QED BY <2>10, <3>2, <3>3 DEF _release
  <2>11. CASE Dies(c)
    <3>1. ~ Critical(c)' /\ UNCHANGED <<clock, tat, lock, log>>
      BY <2>11, <2>ty DEF Dies, Return, Critical, Idle
    <3> QED BY <1>t, <2>o, <3>1, SameHistory, LeavesLockInv DEF IInv
  <2> QED BY <1>3, <2>1, <2>2, <2>3, <2>4, <2>5, <2>6, <2>7, <2>8, <2>9, <2>10, <2>11
          DEF Step
<1>4. CASE UNCHANGED vars
  BY <1>t, <1>4 DEF vars, IInv, LockInv, TatInv, Conforms, Covers, Critical, At
<1> QED BY <1>1, <1>2, <1>3, <1>4 DEF Next

-----------------------------------------------------------------------------

(* With timely callers the invariant holds in every state of the limiter. *)
THEOREM InductiveInvariant ==
  ASSUME Timely
  PROVE  Spec => []IInv
<1>1. IInv /\ [Next]_vars => IInv'
  BY InvStep
<1> QED BY InitInv, <1>1, PTL DEF Spec

(* The GCRA promise for every rate, burst and number of callers, and however
   emission interval and tolerance are rounded to the doubles of the clock. *)
THEOREM LimiterConforms ==
  ASSUME Timely
  PROVE  Spec => []Conforms
<1>1. IInv => Conforms
  BY DEF IInv
<1> QED BY InductiveInvariant, <1>1, PTL

(* The read-modify-write of the TAT is exclusive although its lock expires. *)
THEOREM LockExcludes ==
  ASSUME Timely
  PROVE  Spec => []Exclusive
<1>1. IInv => Exclusive
  BY OneHolder DEF IInv
<1> QED BY InductiveInvariant, <1>1, PTL

-----------------------------------------------------------------------------
(* The shedder. *)

(* There are as many levels as tiers, and none. *)
LEMMA TargetIsLevel == ASSUME NEW p PROVE _target_level(p) \in Levels
<1> DEFINE S == {t \in Tiers : p >= Thresholds[t]}
<1>1. IsFiniteSet(Tiers) /\ Cardinality(Tiers) = 4
  <2>1. 0 \in Int /\ 3 \in Int
    OBVIOUS
  <2>2. IsFiniteSet(0 .. 3) /\ Cardinality(0 .. 3) = IF 0 > 3 THEN 0 ELSE 3 - 0 + 1
    BY <2>1, FS_Interval, Zenon
  <2>3. (IF 0 > 3 THEN 0 ELSE 3 - 0 + 1) = 4
    OBVIOUS
  <2>4. Cardinality(0 .. 3) = 4
    BY <2>2, <2>3
  <2> QED BY <2>2, <2>4 DEF Tiers
<1>2. Cardinality(S) \in Nat /\ Cardinality(S) <= 4
  <2>1. S \subseteq Tiers
    OBVIOUS
  <2>2. IsFiniteSet(S) /\ Cardinality(S) <= Cardinality(Tiers)
    BY <1>1, <2>1, FS_Subset
  <2> QED BY <1>1, <2>2, FS_CardinalityType
<1> QED BY <1>2 DEF _target_level, Levels

(* Initially there is no history and nothing is counted. *)
LEMMA ShedInitInv == ShedInit => ShedInv
BY ShedderAssumption DEF ShedInit, ShedInv, ShedTypeOK, CountersInv, Forgotten, NoSample, Levels, Tiers

(* A sample moves the level at most one tier, and only at the end of a run. *)
LEMMA SampleStep ==
  ASSUME ShedInv, enabled, NEW p \in Pressures, observe(p)
  PROVE  /\ level' \in Levels /\ hot' \in 0 .. EscalateAfter - 1
         /\ calm' \in 0 .. RecoverAfter - 1
         /\ recent' \in [1 .. RecoverAfter -> Levels \cup {NoSample}]
         /\ CountersInv'
         /\ level' > level => /\ level' = level + 1
                              /\ \A k \in 1 .. EscalateAfter : recent'[k] > level
         /\ level' < level => /\ level' = level - 1
                              /\ \A k \in 1 .. RecoverAfter : recent'[k] \in 0 .. level - 1
<1> DEFINE target == _target_level(p)
<1> USE ShedderAssumption
<1>1. target \in Levels
  BY TargetIsLevel
<1>2. /\ recent' = [k \in 1 .. RecoverAfter |-> IF k = 1 THEN target ELSE recent[k - 1]]
      /\ \/ target > level /\ HotSample
         \/ target < level /\ CalmSample
         \/ target = level /\ hot' = 0 /\ calm' = 0 /\ level' = level
  BY DEF observe
<1>3. /\ level \in Levels /\ hot \in 0 .. EscalateAfter - 1
      /\ calm \in 0 .. RecoverAfter - 1
      /\ recent \in [1 .. RecoverAfter -> Levels \cup {NoSample}]
      /\ CountersInv
  BY DEF ShedInv, ShedTypeOK
<1> HIDE DEF target
<1>4. recent' \in [1 .. RecoverAfter -> Levels \cup {NoSample}]
  BY <1>1, <1>2, <1>3
<1>5. /\ recent'[1] = target
      /\ \A k \in 2 .. RecoverAfter : recent'[k] = recent[k - 1]
  BY <1>2
<1>6. CASE target > level /\ HotSample
  <2>1. \A k \in 1 .. hot + 1 : k \in 1 .. RecoverAfter => recent'[k] > level
    BY <1>1, <1>3, <1>5, <1>6 DEF CountersInv, Levels
  <2>2. CASE hot + 1 >= EscalateAfter
    <3>1. level' = level + 1 /\ hot' = 0 /\ calm' = 0 /\ hot + 1 = EscalateAfter
      BY <1>3, <1>6, <2>2 DEF HotSample
    <3>2. level' \in Levels /\ (level' = 4 => target = 4)
      BY <1>1, <1>3, <1>6, <3>1 DEF Levels
    <3> QED BY <1>1, <1>3, <1>4, <1>5, <2>1, <3>1, <3>2 DEF CountersInv, Levels
  <2>3. CASE hot + 1 < EscalateAfter
    <3>1. level' = level /\ hot' = hot + 1 /\ calm' = 0 /\ level # 4
      BY <1>1, <1>3, <1>6, <2>3 DEF HotSample, Levels
    <3> QED BY <1>3, <1>4, <2>1, <2>3, <3>1 DEF CountersInv, Levels
  <2> QED BY <1>3, <2>2, <2>3
<1>7. CASE target < level /\ CalmSample
  <2>1. \A k \in 1 .. calm + 1 : k \in 1 .. RecoverAfter => recent'[k] \in 0 .. level - 1
    BY <1>1, <1>3, <1>5, <1>7 DEF CountersInv, Levels
  <2>2. CASE calm + 1 >= RecoverAfter
    <3>1. level' = level - 1 /\ hot' = 0 /\ calm' = 0 /\ calm + 1 = RecoverAfter
      BY <1>3, <1>7, <2>2 DEF CalmSample
    <3>2. level' \in Levels /\ level' # 4
      BY <1>1, <1>3, <1>7, <3>1 DEF Levels
    <3> QED BY <1>3, <1>4, <2>1, <3>1, <3>2 DEF CountersInv, Levels
  <2>3. CASE calm + 1 < RecoverAfter
    <3>1. level' = level /\ hot' = 0 /\ calm' = calm + 1
      BY <1>3, <1>7, <2>3 DEF CalmSample
    <3>2. level = 4 => recent'[calm' + 1] = 4
      <4>1. calm + 2 \in 2 .. RecoverAfter /\ calm' + 1 = calm + 2
        BY <1>3, <2>3, <3>1
      <4>2. recent'[calm + 2] = recent[calm + 2 - 1] /\ calm + 2 - 1 = calm + 1
        BY <1>3, <1>5, <4>1
      <4> QED BY <1>3, <4>1, <4>2 DEF CountersInv
    <3> QED BY <1>3, <1>4, <2>1, <2>3, <3>1, <3>2 DEF CountersInv, Levels
  <2> QED BY <1>3, <2>2, <2>3
<1>8. CASE target = level /\ hot' = 0 /\ calm' = 0 /\ level' = level
  BY <1>3, <1>4, <1>5, <1>8 DEF CountersInv, Levels
<1> QED BY <1>2, <1>6, <1>7, <1>8

(* Every step preserves the invariant. *)
LEMMA ShedInvStep == ShedInv /\ [ShedNext]_shedVars => ShedInv'
<1> SUFFICES ASSUME ShedInv, [ShedNext]_shedVars PROVE ShedInv'
  OBVIOUS
<1> USE ShedderAssumption
<1>1. ASSUME NEW t \in Tiers, NEW p \in Pressures, backpressure(t, p) PROVE ShedInv'
  <2>1. pressure' \in Pressures /\ enabled' = enabled
    BY <1>1 DEF backpressure, observe
  <2>2. answer' \in [tier : Tiers, shed : BOOLEAN]
    BY <1>1 DEF backpressure, should_shed, ShedInv, ShedTypeOK
  <2>3. CASE enabled
    BY <1>1, <2>1, <2>2, <2>3, SampleStep DEF backpressure, ShedInv, ShedTypeOK
  <2>4. CASE ~ enabled
    BY <1>1, <2>1, <2>2, <2>4 DEF backpressure, observe, ShedInv, ShedTypeOK, CountersInv
  <2> QED BY <2>3, <2>4
<1>2. CASE disable
  <2>1. ShedTypeOK'
    <3>1. Forgotten \in [1 .. RecoverAfter -> Levels \cup {NoSample}]
      BY DEF Forgotten
    <3>2. 0 \in Levels /\ 0 \in 0 .. EscalateAfter - 1 /\ 0 \in 0 .. RecoverAfter - 1
      BY DEF Levels
    <3> QED BY <1>2, <3>1, <3>2 DEF disable, ShedInv, ShedTypeOK
  <2>2. CountersInv'
    BY <1>2 DEF disable, CountersInv
  <2> QED BY <2>1, <2>2 DEF ShedInv
<1>3. CASE enable
  BY <1>3 DEF enable, ShedInv, ShedTypeOK, CountersInv
<1>4. CASE UNCHANGED shedVars
  BY <1>4 DEF shedVars, ShedInv, ShedTypeOK, CountersInv
<1> QED BY <1>1, <1>2, <1>3, <1>4 DEF ShedNext, Request

(* The counters count what the history shows, in every state. *)
THEOREM ShedInductiveInvariant == ShedSpec => []ShedInv
BY ShedInitInv, ShedInvStep, PTL DEF ShedSpec

(* The money path is shed only under recent critical pressure. *)
THEOREM CriticalIsLast == ShedSpec => []MoneyPathProtected
<1>1. ShedInv => MoneyPathProtected
  BY ShedderAssumption DEF ShedInv, ShedTypeOK, CountersInv, MoneyPathProtected, Levels, CRITICAL
<1> QED BY ShedInductiveInvariant, <1>1, PTL

(* The level never flaps, for every sequence of samples and kill switches. *)
THEOREM NeverFlaps == ShedSpec => AntiFlap
<1> DEFINE Move ==
      /\ level' > level =>
           /\ level' = level + 1
           /\ \A k \in 1 .. EscalateAfter : recent'[k] > level
      /\ level' < level /\ enabled' =>
           /\ level' = level - 1
           /\ \A k \in 1 .. RecoverAfter : recent'[k] \in 0 .. level - 1
<1>1. ShedInv /\ [ShedNext]_shedVars => [Move]_shedVars
  <2> SUFFICES ASSUME ShedInv, ShedNext PROVE Move
    OBVIOUS
  <2>l. level \in Int
    BY DEF ShedInv, ShedTypeOK, Levels
  <2>1. ASSUME NEW t \in Tiers, NEW p \in Pressures, backpressure(t, p) PROVE Move
    <3>1. CASE enabled
      BY <2>1, <3>1, SampleStep DEF backpressure
    <3>2. CASE ~ enabled
      BY <2>1, <2>l, <3>2 DEF backpressure, observe
    <3> QED BY <3>1, <3>2
  <2>2. CASE disable
    BY <2>2 DEF disable, ShedInv, ShedTypeOK, Levels
  <2>3. CASE enable
    BY <2>3, <2>l DEF enable
  <2> QED BY <2>1, <2>2, <2>3 DEF ShedNext, Request
<1> QED BY <1>1, ShedInductiveInvariant, PTL DEF ShedSpec, AntiFlap
=============================================================================
