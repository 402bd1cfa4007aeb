----------------------------- MODULE MCFrontcode -----------------------------
EXTENDS Frontcode, TLC
CONSTANTS a, b
MCChunk == {<<>>, <<a>>, <<b>>}
Symmetry == Permutations(FileName) \cup Permutations({a, b}) \cup Permutations(Shape)
=============================================================================
