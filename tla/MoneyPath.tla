----------------------------- MODULE MoneyPath ------------------------------
(***************************************************************************)
(* What the money path promises, without its processes, its broker and its *)
(* retries: one row per key in the event log, one posting per key in the   *)
(* ledger, a verdict in the log that the ledger bears out, and Stripe told *)
(* 200 only for what is settled or going to be.  Work on an event ends     *)
(* with a verdict, with a log line, or because another event holds its     *)
(* key.  Pipeline implements it.                                           *)
(***************************************************************************)
CONSTANTS Events,         \* event ids
          SameKey(_, _),  \* the event log takes two events for one
          SameTxn(_, _),  \* the ledger takes their transactions for one
          Postable(_)     \* the event moves money

VARIABLES status,  \* event -> "none", "open", or its verdict
          ledger,  \* events whose transaction is posted
          work,    \* events somebody is going to process
          lost,    \* events given up on with nothing but a log line
          told     \* events Stripe got a 200 for

pathVars == <<status, ledger, work, lost, told>>

Verdicts == {"processed", "no_money_moved", "failed"}

(* In every action the effect comes first: the actions are only ever checked
   against steps of Pipeline, and most of those have another effect. *)

PathInit ==
  /\ status = [e \in Events |-> "none"]
  /\ ledger = {}
  /\ work = {}
  /\ lost = {}
  /\ told = {}

Stored(e) == status[e] # "none"

Held(e) == \E t \in Events : Stored(t) /\ SameKey(e, t)

Booked(e) == \E p \in ledger : SameTxn(p, e)

(* A new event is put on file, unless its key is. *)
Record(e) ==
  /\ ~ Held(e)
  /\ status' = [status EXCEPT ![e] = "open"]
  /\ UNCHANGED <<ledger, work, lost, told>>

(* Somebody is going to process it, perhaps once more. *)
Assign(e) ==
  /\ work' = work \cup {e}
  /\ UNCHANGED <<status, ledger, lost, told>>

(* 200: the event on file under its key is not forgotten. *)
Tell(e) ==
  /\ told' = told \cup {e}
  /\ \E t \in Events : /\ Stored(t) /\ SameKey(e, t)
                       /\ status[t] \in Verdicts \/ t \in work \/ t \in lost
  /\ UNCHANGED <<status, ledger, work, lost>>

Post(e) ==
  /\ ledger' = ledger \cup {e}
  /\ Postable(e)
  /\ ~ Booked(e)
  /\ UNCHANGED <<status, work, lost, told>>

(* The work on e ends here, unless somebody else is at it, too. *)
Release(e) == work' \in {work, work \ {e}}

(* A verdict is borne out by the ledger and the event; a later one may
   replace it, but nothing takes it back. *)
Settle(e, v) ==
  /\ status' = [status EXCEPT ![e] = v]
  /\ Stored(e) \/ ~ Held(e)
  /\ v = "processed" => Postable(e) /\ Booked(e)
  /\ v = "no_money_moved" => ~ Postable(e)
  /\ Release(e)
  /\ UNCHANGED <<ledger, lost, told>>

(* The key is on file under another event: there is no row to settle. *)
Yield(e) ==
  /\ ~ Stored(e) /\ Held(e)
  /\ Release(e)
  /\ UNCHANGED <<status, ledger, lost, told>>

(* The database is out of reach even for the verdict. *)
GiveUp(e) ==
  /\ lost' = lost \cup {e}
  /\ Release(e)
  /\ UNCHANGED <<status, ledger, told>>

PathNext ==
  \E e \in Events :
    \/ Record(e)
    \/ Assign(e)
    \/ Tell(e)
    \/ Post(e)
    \/ \E v \in Verdicts : Settle(e, v)
    \/ Yield(e)
    \/ GiveUp(e)

PathSpec == PathInit /\ [][PathNext]_pathVars
=============================================================================
