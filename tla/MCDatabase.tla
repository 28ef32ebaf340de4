------------------------------ MODULE MCDatabase ------------------------------
(***************************************************************************)
(* Small databases for module DBManager: two tables, the second with a     *)
(* column of a type that is not known or not there at all; more threads    *)
(* than connections; values that are numbers, or too large, or none.       *)
(***************************************************************************)
EXTENDS DBManager, TLC

bigint   == {"bigint", "int"}
ubigint  == {"bigint", "int", "unsigned"}
int      == {"int"}
uint     == {"int", "unsigned"}

User   == <<ubigint, {"varchar"}, bigint, uint>>
Item   == <<int, {"blob"}, {"text"}>>
Dated  == <<int, {"date"}>>

Both == <<[table |-> "user", where |-> "any"], [table |-> "item", where |-> "none"]>>

\* One case of init.
Case(kind, threadCount, connMaxCount, reachable, tables, item, params) ==
    [kind |-> kind, threadCount |-> threadCount, connMaxCount |-> connMaxCount,
     reachable |-> reachable, tables |-> tables, params |-> params,
     columns |-> ("user" :> User @@ "item" :> item)]

Fine == {1, -2, NotANumber}
Huge == {200}

MCSetups ==
    [oneThread  |-> Case("mysql", 0, 2, TRUE, Both, Item, Fine),
     oneEach    |-> Case("mysql", 2, 2, TRUE, Both, Item, Fine),
     oneForTwo  |-> Case("mysql", 2, 0, TRUE, Both, Item, Huge),
     dated      |-> Case("mysql", 1, 2, TRUE, Both, Dated, Fine),
     missing    |-> Case("mysql", 1, 2, TRUE, Both, Missing, Fine),
     apart      |-> Case("mysql", 1, 2, FALSE, Both, Item, Fine),
     noTables   |-> Case("mysql", 1, 1, TRUE, <<>>, Item, Fine),
     noPool     |-> Case("none", 1, 2, TRUE, Both, Item, Fine),
     noneAtAll  |-> Case("none", 1, 2, TRUE, <<>>, Item, Fine)]

=============================================================================
