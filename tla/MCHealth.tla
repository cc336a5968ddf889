------------------------------ MODULE MCHealth ------------------------------
(***************************************************************************)
(* Two modules with a counter each, one of them with a gauge.  Prometheus  *)
(* tells their names apart, or the counters get one name, or one of them   *)
(* gets a name that it does not accept.                                    *)
(***************************************************************************)
EXTENDS TLC, Health

Owners == ("a_count" :> "a") @@ ("a_level" :> "a") @@ ("b_count" :> "b")

Distinct == [x \in DOMAIN Owners |-> x]
MCNamings == {Distinct, [Distinct EXCEPT !["b_count"] = "a_count"], [Distinct EXCEPT !["b_count"] = "1b_count"]}
=============================================================================
