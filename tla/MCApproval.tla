----------------------------- MODULE MCApproval -----------------------------
EXTENDS Approval, TLC
Symmetry == Permutations(Owners)
=============================================================================
