------------------------------- MODULE MCJobs -------------------------------
(* Offers for TLC: one that lacks its place of work, and edits that supply *)
(* it, take something away, open and close.                                *)
EXTENDS Jobs, TLC

Complete == [f \in Fields |-> IF f = "status" THEN "draft" ELSE "text"]
Placeless == [Complete EXCEPT !["location"] = "none", !["remote_constraints"] = "none"]

MCOffers == {Blank, Placeless, [Complete EXCEPT !["status"] = "open"]}

Set(f, value) == [g \in {f} |-> value]
MCPatches == {Publish, Set("status", "closed"), Set("location", "text"),
              Set("benefits", "markup"), Set("salary_min", "none"),
              [f \in {"status", "remote_constraints"} |->
                 IF f = "status" THEN "open" ELSE "text"]}

MCSymmetry == Permutations(Requests)
=============================================================================
