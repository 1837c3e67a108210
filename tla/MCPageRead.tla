------------------------------ MODULE MCPageRead ------------------------------
\* Small instances of PageRead for TLC: six rows, two of each time.
EXTENDS PageRead, TLC

CONSTANTS r1, r2, r3, r4, r5, r6

Pairs == [r \in Rows |-> IF r \in {r1, r2} THEN 3 ELSE IF r \in {r3, r4} THEN 2 ELSE 1]

\* Rows of one time are interchangeable.
Symmetry == {f \in Permutations(Rows) : \A r \in Rows : Pairs[f[r]] = Pairs[r]}
=============================================================================
