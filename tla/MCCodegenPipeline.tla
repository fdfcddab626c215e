------------------------- MODULE MCCodegenPipeline --------------------------
EXTENDS CodegenPipeline, TLC

Symmetry == Permutations(Workers) \cup Permutations(Features)
=============================================================================
