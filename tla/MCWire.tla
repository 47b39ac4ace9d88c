-------------------------------- MODULE MCWire --------------------------------
EXTENDS Wire, TLC

Symmetry == Permutations(Threads)

\* Bodies of one to three bytes.
Small == {<<1>>, <<1, 2>>, <<3, 2, 1>>}
===============================================================================
