---------------------------- MODULE MCVnpyEngine ----------------------------
\* VnpyEngine for TLC.
EXTENDS VnpyEngine, TLC

\* Behaviours are followed up to and including the first doubtful step: what the
\* invariants say begins with ~doubt, and doubt is never lifted.
Sure == ~doubt

\* Which dict is which makes no difference.
Dicts == Permutations(Refs)
=============================================================================
