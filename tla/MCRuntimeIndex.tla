--------------------------- MODULE MCRuntimeIndex ---------------------------
(* Rows of two columns, an index on the first and one on both in the other *)
(* order, and all conditions on a column.                                  *)
EXTENDS RuntimeIndex

MCVal   == {<<1, 1>>, <<1, 2>>, <<2, 1>>}
MCIndex == {<<1>>, <<2, 1>>}
MCCond  == [col : {1, 2}, op : {"=", "#", "<", "<=", ">", ">="}, val : {1, 2}]
=============================================================================
