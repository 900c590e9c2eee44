----------------------------- MODULE MCOverlay ------------------------------
(* Two routines, one with a field inside a struct; files and assignments    *)
(* that set, revert, replace and clash.                                     *)
EXTENDS Overlay

Period == <<"routines", "drivers", "hills", "period">>
Site == <<"routines", "drivers", "hills", "site">>
Depth == Append(Site, "depth")
Stock == <<"routines", "components", "road", "stock">>

MCSchemaOf ==
  [n \in {"hills", "road"} |->
     IF n = "hills" THEN [f \in {<<"period">>, <<"site", "depth">>} |-> 0]
     ELSE [f \in {<<"stock">>} |-> 0]]

MCFiles == {[p \in {Period, Depth} |-> 1],
            [p \in {Period, Stock} |-> IF p = Stock THEN 2 ELSE Null],
            [p \in {Site} |-> Null],
            [p \in {<<"routines", "components", "hills", "period">>} |-> 3]}

MCAssignments == {[path |-> Period, value |-> Leaf(4)],
                  [path |-> Depth, value |-> Leaf(Null)],
                  [path |-> Site, value |-> [q \in {<<"depth">>} |-> 5]],
                  [path |-> Append(Period, "unit"), value |-> Leaf(6)],
                  [path |-> <<"routines", "components", "road">>, value |-> Leaf(Null)]}
=============================================================================
