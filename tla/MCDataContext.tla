--------------------------- MODULE MCDataContext ---------------------------
(* Files of at most four cells, two values, chunks of two cells. *)
EXTENDS DataContext

MCData == {<<1>>, <<2, 1, 2>>}
=============================================================================
