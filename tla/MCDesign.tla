------------------------------ MODULE MCDesign ------------------------------
(* A table of two columns on each engine: a key, an index on both columns, a *)
(* unique constraint, a default, a grant and a foreign key.                  *)
EXTENDS Design

Col(n, type, nullable, default) ==
  [name |-> n, type |-> type, nullable |-> nullable, default |-> default, data |-> 0]
Plain(n) == [expr |-> FALSE, name |-> n]
Orders(e) ==
  [name |-> "T",
   columns |-> <<Col("a", "int", FALSE, ""),
                 IF e = "pg" THEN Col("b", "text", TRUE, "now()")
                             ELSE Col("b", "int", TRUE, "1")>>,
   pk |-> [name |-> "pkey", columns |-> <<"a">>],
   indexes |-> <<[name |-> "i", parts |-> <<Plain("a"), Plain("b")>>,
                  unique |-> FALSE, constraint |-> FALSE],
                 [name |-> IF e = "sqlite" THEN AutoIndex ELSE "u", parts |-> <<Plain("b")>>,
                  unique |-> TRUE, constraint |-> TRUE]>>,
   grants |-> IF e = "sqlite" THEN {} ELSE {<<"g", "SELECT">>},
   foreign |-> {<<IF e = "pg" THEN "a" ELSE "b">>}]

\* An index over an expression of the second column, lower(b).
Lowered(e) == [Orders(e) EXCEPT !.indexes[1].parts = <<[expr |-> TRUE, name |-> "b"]>>,
                                !.columns[2].default = "1",
                                !.foreign = IF e = "pg" THEN {} ELSE @]

\* No foreign key.
Alone(e) == [Orders(e) EXCEPT !.foreign = {}]

MCFits == [d \in Defaults |-> IF d = "now()" THEN {"text"} ELSE DataTypes]
MCGrants == {<<"g", "SELECT">>, <<"h", "INSERT">>}
MCLoads == {[engine |-> e, tables |-> "T" :> Orders(e)] : e \in {"pg", "mssql", "sqlite"}}
           \cup {[engine |-> e, tables |-> "T" :> Lowered(e)] : e \in {"pg", "sqlite"}}
           \cup {[engine |-> e, tables |-> "T" :> Alone(e)] : e \in {"mssql", "sqlite"}}
           \cup {[engine |-> e, tables |-> <<>>] : e \in {"pg", "mssql", "sqlite"}}
=============================================================================
