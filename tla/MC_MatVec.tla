------------------------------ MODULE MC_MatVec ------------------------------
(* MatVec for TLC.                                                          *)
EXTENDS MatVec

Call(typ, rows, cols, batch) == [typ |-> typ, rows |-> rows, cols |-> cols, batch |-> batch]

\* Nothing, less than a warp's lanes, one more, and more than twice as many.
Plain == {Call("F16", r, c, b) : r \in 0 .. 3, c \in {0, 1, 31, 33, 65}, b \in {1, 2}}
           \cup {Call("F32", 5, 33, 1)}

\* One block, two, and more blocks than lanes; the second of Q6_K has the
\* largest x that fits, the last matrix is the first that does not fit.
Blocked == {Call("Q4_0", 3, 64, 1), Call("Q4_0", 1, 33 * 32, 1),
            Call("Q4_K", 3, 256, 1), Call("Q4_K", 1, 512, 2),
            Call("Q6_K", 3, 256, 1), Call("Q6_K", 1, 256, 4), Call("Q6_K", 5, 256, 1)}

\* No kernel, or a row that is no whole number of blocks.
Refused == {Call("Q8_0", 2, 64, 1), Call("Q4_0", 2, 48, 1), Call("Q4_K", 2, 300, 1)}

CallsMC == Plain \cup Blocked \cup Refused
=============================================================================
