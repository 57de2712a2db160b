------------------------------- MODULE MCVmm -------------------------------
EXTENDS Vmm
CONSTANTS p1, p2
Symmetry == Permutations({p1, p2})
Seg(s, e, f) == [start |-> s, end |-> e, flags |-> f]
\* a program's data, its text; two segments that share a page; a segment
\* that runs into one above it
MCLayouts == {<<Seg(0, 1, {"r", "w"})>>, <<Seg(0, 1, {"r", "x"})>>,
              <<Seg(0, 1, {"r", "x"}), Seg(0, 1, {"r", "w"})>>,
              <<Seg(1, 2, {"r", "w"}), Seg(0, 2, {"r", "w"})>>}
============================================================================
