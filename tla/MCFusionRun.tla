----------------------------- MODULE MCFusionRun -----------------------------
(* Small instances of FusionRun: four items of two properties on two          *)
(* resources.  a and c are about p and disagree, d and b about q; a link joins *)
(* a to c, so c brings all four to one logical resource.                       *)
EXTENDS FusionRun

MCItems    == {"a", "b", "c", "d"}
MCProperty == [i \in MCItems |-> IF i \in {"a", "c"} THEN "p" ELSE "q"]
MCResource == [i \in MCItems |-> IF i \in {"a", "d"} THEN "r1" ELSE "r2"]
MCSource   == [i \in MCItems |-> IF i \in {"a", "d"} THEN "packets" ELSE "gateway"]
MCValue    == [i \in MCItems |-> IF i = "c" THEN "y" ELSE "x"]
MCRank     == [i \in MCItems |-> CASE i = "a" -> 1 [] i = "b" -> 2 [] i = "c" -> 3 [] i = "d" -> 4]
MCLinks    == {{"a", "c"}}

Request(op, on) == [op |-> op, on |-> on]
Add(items) == Request("add", items)
Whole == Request("run", {})
Again == Request("recompute", {"q"})

MCConverge == {Add({"a", "d"}), Add({"b"}), Add({"c"}), Again, Whole}
MCClose    == {Add({"a"}), Add({"b", "c"}), Request("mark", {"packets"}),
               Request("cancel", {}), Request("finalize", {}), Request("reset", {})}
MCRemove   == {Add({"a", "d"}), Add({"b", "c"}), Request("remove", {"c"}), Whole}

MCRequests     == MCConverge \cup MCClose \cup MCRemove
MCWorkloads    == {MCConverge, MCClose, MCRemove}
MCOneRemoval   == {MCRemove}
MCMortal       == {Again, Whole}
=============================================================================
