----------------------------- MODULE MCEnsemble -----------------------------
(* Instances of Ensemble for TLC.                                          *)
EXTENDS Ensemble, Sequences

Base == [f \in Fields |-> IF f = "surcharges" THEN <<"BAF", "THC">> ELSE "a"]
Differ(F) == [f \in Fields |-> IF f \in F THEN "b" ELSE Base[f]]

\* The same surcharges in another order; a third origin, with one surcharge less;
\* the ends of the window, one at a time; five fields at once.
FewLanes == {Base,
             [Base EXCEPT !["surcharges"] = <<"THC", "BAF">>],
             [Base EXCEPT !["origin_port"] = "c", !["surcharges"] = <<"BAF">>],
             Differ({"validity_start"}),
             Differ({"origin_port", "validity_end"}),
             Differ({"origin_port", "destination_port", "base_rate_usd", "commodity_code",
                     "transit_time_days"})}
=============================================================================
