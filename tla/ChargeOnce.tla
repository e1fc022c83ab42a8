----------------------------- MODULE ChargeOnce -----------------------------
(***************************************************************************)
(* What stripe_io/client.py promises the caller of post(): however often   *)
(* the request is sent, the money moves at most once; an answer tells the  *)
(* truth about it; a StripeError other than a refusal leaves the caller    *)
(* not knowing, and the money may still move after it.  Egress implements  *)
(* it against a Stripe that caches answers by idempotency key.             *)
(***************************************************************************)
EXTENDS Naturals

CONSTANT Posts  \* calls of post()

VARIABLES moved,   \* call -> how often its money moved
          outcome  \* call -> "idle", "pending", "ok", "refused" or "unknown"

onceVars == <<moved, outcome>>

OnceInit ==
  /\ moved   = [c \in Posts |-> 0]
  /\ outcome = [c \in Posts |-> "idle"]

End(c, result) ==
  /\ outcome[c] = "pending"
  /\ outcome' = [outcome EXCEPT ![c] = result]
  /\ UNCHANGED moved

Call(c) ==
  /\ outcome[c] = "idle"
  /\ outcome' = [outcome EXCEPT ![c] = "pending"]
  /\ UNCHANGED moved

(* Also after the caller has given up, never after a refusal. *)
Move(c) ==
  /\ outcome[c] \in {"pending", "unknown"}
  /\ moved[c] = 0
  /\ moved' = [moved EXCEPT ![c] = 1]
  /\ UNCHANGED outcome

Succeed(c) == moved[c] = 1 /\ End(c, "ok")

Refuse(c) == moved[c] = 0 /\ End(c, "refused")

GiveUp(c) == End(c, "unknown")

OnceNext ==
  \E c \in Posts : \/ Call(c)
                   \/ Move(c)
                   \/ Succeed(c)
                   \/ Refuse(c)
                   \/ GiveUp(c)

OnceSpec == OnceInit /\ [][OnceNext]_onceVars
=============================================================================
