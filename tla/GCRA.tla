-------------------------------- MODULE GCRA --------------------------------
(***************************************************************************)
(* limits/gcra.py: several callers check one key of the rate limiter.      *)
(* Every Redis command is one step.  The lock and the TAT both expire by   *)
(* themselves; a caller may stall or die between two commands, and any     *)
(* command may fail, with or without its effect.                           *)
(*                                                                         *)
(* Time is Redis server time in ticks, a tick being the spacing of doubles *)
(* at today's epoch seconds (2^-22 s).  Every `now' and every stored TAT   *)
(* is a double, so a whole number of ticks; max(now, tat) + T rounds T to  *)
(* the nearest tick, and tat - tolerance rounds the tolerance.  T and      *)
(* tolerance below are these two rounded values, and they are rounded      *)
(* apart: tolerance need not be T * (burst - 1).                           *)
(***************************************************************************)
EXTENDS Integers, Sequences

CONSTANTS Callers,   \* processes that call check(key)
          T,         \* emission_interval, rounded to ticks
          tolerance, \* tolerance, rounded to ticks
          Burst,     \* burst
          LockTTL,   \* LOCK_TTL_MS, in ticks
          Slack,     \* the 1000 ms added to the TAT's expiry, less what the
                     \* rounding to whole milliseconds cuts off, in ticks
          MaxStall,  \* longest time a live caller holds the lock, in ticks
          FailOpen,  \* fail_open
          None,      \* no value
          MaxClock   \* bound on the clock

ASSUME LimiterAssumption ==
  /\ T \in Nat \ {0}
  /\ Burst \in Nat \ {0}
  /\ tolerance \in Nat
  /\ 2 * (tolerance - T * (Burst - 1)) \in - Burst .. Burst
  /\ LockTTL \in Nat \ {0}
  /\ Slack \in Nat
  /\ MaxStall \in Nat
  /\ MaxClock \in Nat
  /\ None \notin Callers
  /\ None \notin Nat

VARIABLES
  clock,  \* Redis TIME
  tat,    \* the TAT key: [val, exp], val = None when it is not set
  lock,   \* the lock key: [by, exp], by = None when it is not set
  call,   \* caller -> [pc, since (lock taken), now, seen (TAT read),
          \*            verdict]
  log     \* Redis times of the requests the rule admitted, since the last reset

vars == <<clock, tat, lock, call, log>>

Verdicts == {"none", "allowed", "rate_limited", "lock_contended",
             "limiter_error_fail_open", "limiter_error_fail_closed"}

(* Not in check; v is the verdict of the last one. *)
Idle(v) == [pc |-> "idle", since |-> 0, now |-> 0, seen |-> 0, verdict |-> v]

Init ==
  /\ clock = 0
  /\ tat   = [val |-> None, exp |-> 0]
  /\ lock  = [by |-> None, exp |-> 0]
  /\ call  = [c \in Callers |-> Idle("none")]
  /\ log   = << >>

-----------------------------------------------------------------------------
(* Redis (external): keys set with px vanish by themselves. *)

LockFree == lock.by = None \/ clock >= lock.exp

StoredTat == IF clock < tat.exp THEN tat.val ELSE None

At(c, pc) == call[c].pc = pc

(* Between the SET NX that took the lock and the last command under it. *)
Critical(c) == call[c].pc \in {"time", "get", "set"}

(* A caller that is alive goes through its few commands within MaxStall. *)
Tick ==
  /\ clock < MaxClock
  /\ \A c \in Callers : Critical(c) => clock < call[c].since + MaxStall
  /\ clock' = clock + 1
  /\ UNCHANGED <<tat, lock, call, log>>

-----------------------------------------------------------------------------

(* check returns; it does not hold the lock. *)
Return(c, v) == call' = [call EXCEPT ![c] = Idle(v)]

(* check is about to return v; `finally' releases the lock first. *)
Decide(c, v) == call' = [call EXCEPT ![c].pc = "release", ![c].verdict = v]

_fail_open_decision ==
  IF FailOpen THEN "limiter_error_fail_open" ELSE "limiter_error_fail_closed"

check(c) ==
  /\ At(c, "idle")
  /\ call' = [call EXCEPT ![c] = [Idle("none") EXCEPT !.pc = "acquire"]]
  /\ UNCHANGED <<clock, tat, lock, log>>

(* SET lock token NX PX. *)
_acquire(c) ==
  /\ At(c, "acquire")
  /\ LockFree
  /\ lock' = [by |-> c, exp |-> clock + LockTTL]
  /\ call' = [call EXCEPT ![c].pc = "time", ![c].since = clock]
  /\ UNCHANGED <<clock, tat, log>>

(* The lock is taken and the acquire deadline has passed: fail closed. *)
LockUnavailable(c) ==
  /\ At(c, "acquire")
  /\ ~ LockFree
  /\ Return(c, "lock_contended")
  /\ UNCHANGED <<clock, tat, lock, log>>

(* The SET fails, or only its answer is lost: then the lock stays taken by
   nobody until it expires. *)
AcquireRaises(c) ==
  /\ At(c, "acquire")
  /\ \/ UNCHANGED lock
     \/ LockFree /\ lock' = [by |-> c, exp |-> clock + LockTTL]
  /\ Return(c, _fail_open_decision)
  /\ UNCHANGED <<clock, tat, log>>

(* TIME, on the Redis server. *)
_now(c) ==
  /\ At(c, "time")
  /\ call' = [call EXCEPT ![c].pc = "get", ![c].now = clock]
  /\ UNCHANGED <<clock, tat, lock, log>>

(* GET tat: an absent key counts as `now'. *)
GetTat(c) ==
  /\ At(c, "get")
  /\ call' = [call EXCEPT ![c].pc = "set",
                          ![c].seen = IF StoredTat = None THEN call[c].now ELSE StoredTat]
  /\ UNCHANGED <<clock, tat, lock, log>>

Larger(x, y) == IF x >= y THEN x ELSE y

(* now >= allow_at. *)
Conforming(now, seen) == now >= seen - tolerance

(* Mutant: the new TAT counts from now, whatever is already owed. *)
NewTat_FromNow(now, seen) == now + T

NewTat(now, seen) == Larger(now, seen) + T

(* px: past this the key could not deny anything. *)
TatTTL(now, new) == Larger(new - now + tolerance, T) + Slack

Deny(c) ==
  /\ At(c, "set")
  /\ ~ Conforming(call[c].now, call[c].seen)
  /\ Decide(c, "rate_limited")
  /\ UNCHANGED <<clock, tat, lock, log>>

WriteTat(c) ==
  LET new == NewTat(call[c].now, call[c].seen) IN
  tat' = [val |-> new, exp |-> clock + TatTTL(call[c].now, new)]

(* SET tat: the request is admitted. *)
Admit(c) ==
  /\ At(c, "set")
  /\ Conforming(call[c].now, call[c].seen)
  /\ WriteTat(c)
  /\ log' = Append(log, call[c].now)
  /\ Decide(c, "allowed")
  /\ UNCHANGED <<clock, lock>>

(* A command under the lock fails: the limiter fails open.  A SET tat may
   have been applied all the same. *)
CommandRaises(c) ==
  /\ Critical(c)
  /\ Decide(c, _fail_open_decision)
  /\ \/ UNCHANGED tat
     \/ At(c, "set") /\ Conforming(call[c].now, call[c].seen) /\ WriteTat(c)
  /\ UNCHANGED <<clock, lock, log>>

(* Mutant: DEL without looking whose lock it is. *)
_release_Blind(c) ==
  /\ At(c, "release")
  /\ lock' = [by |-> None, exp |-> 0]
  /\ Return(c, call[c].verdict)
  /\ UNCHANGED <<clock, tat, log>>

(* The release script deletes the lock only if it is still ours; when the
   script cannot be run the lock will expire. *)
_release(c) ==
  /\ At(c, "release")
  /\ \/ /\ lock.by = c /\ ~ LockFree
        /\ lock' = [by |-> None, exp |-> 0]
     \/ UNCHANGED lock
  /\ Return(c, call[c].verdict)
  /\ UNCHANGED <<clock, tat, log>>

(* The caller's process dies; what Redis holds stays. *)
Dies(c) ==
  /\ ~ At(c, "idle")
  /\ Return(c, "none")
  /\ UNCHANGED <<clock, tat, lock, log>>

(* reset(key): an operator forgets the key's state. *)
reset ==
  /\ log # << >>
  /\ tat' = [val |-> None, exp |-> 0]
  /\ log' = << >>
  /\ UNCHANGED <<clock, lock, call>>

Step(c) ==
  \/ check(c)
  \/ _acquire(c)
  \/ LockUnavailable(c)
  \/ AcquireRaises(c)
  \/ _now(c)
  \/ GetTat(c)
  \/ Deny(c)
  \/ Admit(c)
  \/ CommandRaises(c)
  \/ _release(c)
  \/ Dies(c)

Next == Tick \/ reset \/ \E c \in Callers : Step(c)

Spec == Init /\ [][Next]_vars

-----------------------------------------------------------------------------

(* Type correctness of the two Redis keys, the callers and the history. *)
TypeOK ==
  /\ clock \in 0 .. MaxClock
  /\ tat \in [val : Nat \cup {None}, exp : Nat]
  /\ lock \in [by : Callers \cup {None}, exp : Nat]
  /\ call \in [Callers -> [pc : {"idle", "acquire", "time", "get", "set", "release"},
                           since : Nat, now : Nat, seen : Nat,
                           verdict : Verdicts]]
  /\ log \in Seq(Nat)

(* No two callers are between taking the lock and writing the TAT: the read
   and the write of the TAT are one unit, although the lock expires by itself
   and a late release may come after the lock has gone to somebody else. *)
Exclusive == \A c, d \in Callers : Critical(c) /\ Critical(d) => c = d

(* The GCRA promise: any k requests admitted by the rule span at least k - 1
   emission intervals of Redis time less the tolerance, so a burst never
   exceeds Burst by more than the rounding of the tolerance allows, and the
   rate settles to one request per T. *)
Conforms ==
  \A i, j \in 1 .. Len(log) :
    i < j => T * (j - i) <= log[j] - log[i] + tolerance

(* What the limiter takes for granted of its callers: nobody stalls under the
   lock for as long as the lock lives, or as long as the TAT outlives its use. *)
Timely == MaxStall < LockTTL /\ MaxStall <= Slack

-----------------------------------------------------------------------------
(* The inductive invariant. *)

(* A TAT of v leaves room for every admission so far. *)
Covers(v) ==
  \A i \in 1 .. Len(log) : v >= log[i] + T * (Len(log) - i + 1)

(* A caller under the lock still owns it, and what it has read is current. *)
LockInv ==
  \A c \in Callers : Critical(c) =>
    /\ lock.by = c
    /\ lock.exp = call[c].since + LockTTL
    /\ call[c].since <= clock /\ clock <= call[c].since + MaxStall
    /\ call[c].pc \in {"get", "set"} =>
         /\ call[c].since <= call[c].now /\ call[c].now <= clock
         /\ \A i \in 1 .. Len(log) : log[i] <= call[c].now
    /\ At(c, "set") => Covers(call[c].seen)

(* The stored TAT covers the history and outlives its use. *)
TatInv ==
  /\ \A i \in 1 .. Len(log) : log[i] <= clock
  /\ log # << >> => tat.val # None /\ Covers(tat.val)
  /\ tat.val # None => tat.exp >= tat.val + Slack

(* Everything every command, tick, death and reset preserves when callers are
   timely: under the lock the TAT read is current, and the TAT stored covers
   every admission until it can no longer deny one. *)
IInv == TypeOK /\ LockInv /\ TatInv /\ Conforms
=============================================================================
