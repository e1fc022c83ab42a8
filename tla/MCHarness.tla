----------------------------- MODULE MCHarness ------------------------------
(* Schedules for Harness: every fault with every kind of event and every
   variation of its parameters on its own, and pairs in which the first
   scenario could reach into the second. *)
EXTENDS Harness, TLC

CONSTANTS i1, w1, m1, m2, m3, m4

(* A seq range of its own for every kind. *)
StartSeq(kind) == 2 * (CHOOSE k \in DOMAIN ALL_KINDS : ALL_KINDS[k] = kind)

Drawn == [s \in 2 .. 13 |-> [amount   |-> 100 + 37 * s,
                             refunded |-> IF s % 2 = 0 THEN 100 + 37 * s ELSE 1]]

Kinds == {ALL_KINDS[k] : k \in DOMAIN ALL_KINDS}

Generated(fs, kind, per_combo) == generate(fs, <<kind>>, per_combo, StartSeq(kind))

(* The faults whose parameters differ from one repeat to the next. *)
Repeats(f) == IF f \in {"DUPLICATE", "DELAY", "STALE_TIMESTAMP"} THEN 2 ELSE 1

Singles ==
  UNION {{<<g[n]>> : n \in DOMAIN g} :
           g \in {Generated(<<f>>, kind, Repeats(f)) :
                    f \in {DEFAULT_FAULTS[k] : k \in DOMAIN DEFAULT_FAULTS},
                    kind \in Kinds}}

Pairs == {Generated(fs, "charge_succeeded", 1) :
            fs \in {<<"PARTIAL_WRITE", "NONE">>, <<"NONE", "DROP">>,
                    <<"RESPOND_500", "TAMPER_BODY">>}}

AllSchedules == Singles \cup Pairs

AllFixtures ==
  UNION {UNION {{s[n].fixtures[k] : k \in DOMAIN s[n].fixtures} : n \in DOMAIN s} :
           s \in AllSchedules}

Twinned == UNION {{s[n].fixtures[1] : n \in {j \in DOMAIN s :
                     s[j].fault = "DUPLICATE_OBJECT"}} : s \in AllSchedules}

AllEvents == {fx.event : fx \in AllFixtures} \cup {Twin(fx).event : fx \in Twinned}

AllIds == {e.id : e \in AllEvents}

Payloads == [id \in AllIds |-> CHOOSE e \in AllEvents : e.id = id]

NeverSettled == [id \in AllIds |-> <<>>]

OwnMovement == [id \in AllIds |-> <<id[1], id[2]>>]
=============================================================================
