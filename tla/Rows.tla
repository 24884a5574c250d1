-------------------------------- MODULE Rows --------------------------------
(* A table is a function from the keys of its rows to what the rows hold:   *)
(* INSERT OR REPLACE of one row, of many rows at once, and DELETE.          *)

NoRows == [x \in {} |-> 0]
Put(f, x, v) == [y \in DOMAIN f \cup {x} |-> IF y = x THEN v ELSE f[y]]
Over(f, g) == [y \in DOMAIN f \cup DOMAIN g |-> IF y \in DOMAIN f THEN f[y] ELSE g[y]]
Drop(f, S) == [y \in DOMAIN f \ S |-> f[y]]
=============================================================================
