----------------------------- MODULE MCGcSession -----------------------------
(* Every order of marks, resurrections and sweeps that apply_plan can meet, *)
(* up to three steps and one of each kind.                                  *)
EXTENDS GcSession

Rank == [mark |-> 1, resurrect |-> 2, present |-> 3, absent |-> 3]
Ordered(p) == \A i, j \in DOMAIN p : i < j => Rank[p[i]] <= Rank[p[j]]

MCPlans ==
  {p \in UNION {[1 .. n -> DOMAIN Rank] : n \in 0 .. 3} : Ordered(p)}
    \cup {<<"mark", "resurrect", "present", "absent">>}
==============================================================================
