----------------------------- MODULE Signature ------------------------------
(***************************************************************************)
(* stripe_io/signature.py and the part of the webhook handler that refuses *)
(* a request before its event is looked at (ingest/app.py).                *)
(*                                                                         *)
(* A body is a record [ev, form]: the event it carries and what happened   *)
(* to its bytes after signing ("intact", "tampered": still the JSON of an  *)
(* event, "truncated": not JSON any more).  HMAC is ideal: a digest is the *)
(* tuple of what it was computed from.  A Stripe-Signature header is kept  *)
(* as what verify's loop makes of it: whether every item has the form      *)
(* key=value (with an integer t), the timestamps, the v1 and v0 digests.   *)
(***************************************************************************)
EXTENDS Integers, Sequences

DEFAULT_TOLERANCE_SECONDS == 300

_v1_digest(body, secret, ts) == <<secret, ts, body>>

(* sign: every scheme carries a correct digest, `schemes' says which are
   emitted. *)
sign(body, secret, ts, schemes) ==
  [wellformed |-> TRUE,
   t  |-> <<ts>>,
   v1 |-> IF "v1" \in schemes THEN {_v1_digest(body, secret, ts)} ELSE {},
   v0 |-> IF "v0" \in schemes THEN {_v1_digest(body, secret, ts)} ELSE {}]

(* An absent header: one empty item, which is malformed. *)
NoSignature == [wellformed |-> FALSE, t |-> <<>>, v1 |-> {}, v0 |-> {}]

Distance(m, n) == IF m < n THEN n - m ELSE m - n

(* Mutant: the recency check left out. *)
verify_AnyAge(body, sig, secret, now) ==
  /\ sig.wellformed
  /\ Len(sig.t) = 1
  /\ _v1_digest(body, secret, sig.t[1]) \in sig.v1

(* Fails closed: one timestamp, inside the tolerance on either side, and a v1
   digest of these bytes; any other scheme is ignored. *)
verify(body, sig, secret, now) ==
  /\ sig.wellformed
  /\ Len(sig.t) = 1
  /\ sig.v1 # {}
  /\ Distance(now, sig.t[1]) <= DEFAULT_TOLERANCE_SECONDS
  /\ _v1_digest(body, secret, sig.t[1]) \in sig.v1

(* The refusals of the webhook handler in its order; "" is no refusal.  No
   body here is near the 512 KiB cap, and JSON that verifies is an event. *)
Refusal(body, sig, secret, now) ==
  IF ~ verify(body, sig, secret, now) THEN "invalid signature"
  ELSE IF body.form = "truncated" THEN "invalid JSON body"
  ELSE ""
=============================================================================
