----------------------------- MODULE MCWriteHost -----------------------------
(* Instances of WriteHost: one field of either type, one field of the      *)
(* schema, streams with and without a timestamp column.                    *)
EXTENDS WriteHost

a == <<"a">>
x == <<"s", "x">>
time == <<"t">>

leaf(name, type) == [kind |-> "primitive", name |-> name, type |-> <<type>>]
MCSchema == <<[kind |-> "struct", name |-> "root", type |-> <<>>,
    children |-> <<[kind |-> "struct", name |-> "s", type |-> <<>>,
                    children |-> <<leaf("x", "kFloat64")>>],
                   [kind |-> "enum", name |-> "y", type |-> <<"kInt64">>]>>]>>

field(name, type, null) == [name |-> name, type |-> type, null |-> null]
MCRecords == << <<field(a, "kFloat64", FALSE)>>,
                <<field(x, "kFloat64", FALSE), field(a, "kInt64", FALSE), field(x, "kFloat64", FALSE)>>,
                <<field(a, "kInt64", TRUE), field(x, kUnspecified, TRUE)>> >>

col(name, type) == [name |-> name, type |-> type]
arrow(schema, ts, batches, breaks) == [schema |-> schema, ts |-> ts, batches |-> batches, breaks |-> breaks]
Columns == <<col(time, "kInt64"), col(a, "kFloat64"), col(x, "kFloat64"), col(<<"y">>, "kInt64")>>
MCStreams == << arrow(Columns, time, << <<0, 1>>, <<>>, <<1>> >>, FALSE),
                arrow(Columns, time, << <<1>> >>, TRUE),
                arrow(Tail(Columns), time, << <<0>> >>, FALSE),
                arrow(<<col(a, "kOther")>>, <<>>, << <<0>> >>, FALSE),
                arrow(<<col(time, "kFloat64"), col(a, "kFloat64"), col(x, "kFloat64"), col(<<"y">>, "kInt64")>>,
                      time, << <<7>> >>, FALSE) >>

MCNames == {"n", "m"}
MCFields == {a}
MCTypes == {"kFloat64", "kInt64"}
==============================================================================
