------------------------------ MODULE Shedder -------------------------------
(***************************************************************************)
(* limits/shed.py and the shedding half of ingest/app.py's backpressure    *)
(* middleware: every request first feeds one pressure sample to observe,   *)
(* then asks should_shed for its tier.  One process, one event loop: a     *)
(* request's two calls are one step.                                       *)
(***************************************************************************)
EXTENDS Integers, FiniteSets

CONSTANTS Thresholds,    \* tier -> pressure (percent) at which it starts shedding
          Pressures,     \* pressure samples (percent)
          EscalateAfter, \* ESCALATE_AFTER
          RecoverAfter,  \* RECOVER_AFTER
          Enforce        \* FALSE: dark launch

(* Shed-first order: TEST_MODE, GET, POST, CRITICAL. *)
Tiers    == 0 .. 3
CRITICAL == 3
Levels   == 0 .. 4

DEFAULT_THRESHOLDS ==
  [t \in Tiers |-> CASE t = 0 -> 60 [] t = 1 -> 75 [] t = 2 -> 90 [] t = 3 -> 98]

ASSUME ShedderAssumption ==
  /\ EscalateAfter \in Nat \ {0}
  /\ RecoverAfter \in Nat \ {0}
  /\ EscalateAfter <= RecoverAfter
  /\ Thresholds \in [Tiers -> Int]
  /\ Pressures \subseteq Int /\ 0 \in Pressures
  /\ Enforce \in BOOLEAN

VARIABLES
  level,    \* number of tiers shed, cheapest first
  hot,      \* consecutive samples above the level
  calm,     \* consecutive samples below it
  enabled,  \* FALSE after the kill switch
  pressure, \* last sample
  answer,   \* what the last request got: [tier, shed]
  recent    \* history: the target levels of the last RecoverAfter samples,
            \* newest first, NoSample where there were fewer

shedVars == <<level, hot, calm, enabled, pressure, answer, recent>>

NoSample == -1
Forgotten == [k \in 1 .. RecoverAfter |-> NoSample]

ShedInit ==
  /\ level = 0 /\ hot = 0 /\ calm = 0
  /\ enabled = TRUE
  /\ pressure = 0
  /\ answer = [tier |-> 0, shed |-> FALSE]
  /\ recent = Forgotten

-----------------------------------------------------------------------------

(* The number of tiers whose threshold the pressure has reached. *)
_target_level(p) == Cardinality({t \in Tiers : p >= Thresholds[t]})

(* Mutant: `self._hot = 1' for `+= 1': two hot samples are never reached. *)
HotSample_NoCount ==
  /\ calm' = 0
  /\ hot' = 1
  /\ level' = level

(* observe, target > level: one tier more after enough hot samples. *)
HotSample ==
  /\ calm' = 0
  /\ \/ /\ hot + 1 >= EscalateAfter
        /\ level' = level + 1
        /\ hot' = 0
     \/ /\ hot + 1 < EscalateAfter
        /\ level' = level
        /\ hot' = hot + 1

(* Mutant: a calm sample does not interrupt a run of hot ones. *)
CalmSample_KeepHot ==
  /\ hot' = hot
  /\ \/ /\ calm + 1 >= RecoverAfter
        /\ level' = level - 1
        /\ calm' = 0
     \/ /\ calm + 1 < RecoverAfter
        /\ level' = level
        /\ calm' = calm + 1

(* Mutant: one calm sample too many asked for. *)
CalmSample_OneMore ==
  /\ hot' = 0
  /\ \/ /\ calm >= RecoverAfter
        /\ level' = level - 1
        /\ calm' = 0
     \/ /\ calm < RecoverAfter
        /\ level' = level
        /\ calm' = calm + 1

(* observe, target < level: one tier fewer after more calm samples. *)
CalmSample ==
  /\ hot' = 0
  /\ \/ /\ calm + 1 >= RecoverAfter
        /\ level' = level - 1
        /\ calm' = 0
     \/ /\ calm + 1 < RecoverAfter
        /\ level' = level
        /\ calm' = calm + 1

(* observe(p). *)
observe(p) ==
  LET target == _target_level(p) IN
  /\ pressure' = p
  /\ \/ /\ ~ enabled
        /\ UNCHANGED <<level, hot, calm, recent>>
     \/ /\ enabled
        /\ recent' = [k \in 1 .. RecoverAfter |-> IF k = 1 THEN target ELSE recent[k - 1]]
        /\ \/ target > level /\ HotSample
           \/ target < level /\ CalmSample
           \/ target = level /\ hot' = 0 /\ calm' = 0 /\ level' = level

(* should_shed(tier).shed at the level just reached. *)
should_shed(t) ==
  answer' = [tier |-> t, shed |-> enabled /\ t < level' /\ Enforce]

(* The middleware: observe, then decide; shed means 503. *)
backpressure(t, p) ==
  /\ observe(p)
  /\ should_shed(t)
  /\ UNCHANGED enabled

(* The kill switch. *)
disable ==
  /\ enabled' = FALSE
  /\ level' = 0 /\ hot' = 0 /\ calm' = 0
  /\ recent' = Forgotten
  /\ UNCHANGED <<pressure, answer>>

enable ==
  /\ enabled' = TRUE
  /\ UNCHANGED <<level, hot, calm, pressure, answer, recent>>

Request == \E t \in Tiers, p \in Pressures : backpressure(t, p)

ShedNext == Request \/ disable \/ enable

ShedSpec == ShedInit /\ [][ShedNext]_shedVars

(* Samples come with requests: as long as there is traffic there are more. *)
ShedFairSpec == ShedSpec /\ WF_shedVars(Request)

-----------------------------------------------------------------------------

(* Type correctness: the counters stay below their limits. *)
ShedTypeOK ==
  /\ level \in Levels
  /\ hot \in 0 .. EscalateAfter - 1
  /\ calm \in 0 .. RecoverAfter - 1
  /\ enabled \in BOOLEAN
  /\ pressure \in Pressures
  /\ answer \in [tier : Tiers, shed : BOOLEAN]
  /\ recent \in [1 .. RecoverAfter -> Levels \cup {NoSample}]

(* No flapping: apart from the kill switch the level moves one tier at a time,
   up only when the last EscalateAfter samples all asked for more, down only
   when the last RecoverAfter all asked for less. *)
AntiFlap ==
  [][/\ level' > level =>
          /\ level' = level + 1
          /\ \A k \in 1 .. EscalateAfter : recent'[k] > level
     /\ level' < level /\ enabled' =>
          /\ level' = level - 1
          /\ \A k \in 1 .. RecoverAfter : recent'[k] \in 0 .. level - 1]_shedVars

(* The money path is shed only while the pressure has been at the CRITICAL
   threshold within the last RecoverAfter samples. *)
MoneyPathProtected ==
  level > CRITICAL => \E k \in 1 .. RecoverAfter : recent[k] = 4

(* Under a pressure that stays, the level gets to its target and stays. *)
Converges ==
  \A p \in Pressures :
    <>[](enabled /\ pressure = p) => <>[](level = _target_level(p))

-----------------------------------------------------------------------------
(* The inductive invariant: the counters count what the history shows. *)

CountersInv ==
  /\ \A k \in 1 .. hot : recent[k] > level
  /\ \A k \in 1 .. calm : recent[k] \in 0 .. level - 1
  /\ level = 4 => recent[calm + 1] = 4

(* What every sample, kill switch and re-enabling preserves: hot and calm are
   the lengths of the runs at the head of the history. *)
ShedInv == ShedTypeOK /\ CountersInv
=============================================================================
