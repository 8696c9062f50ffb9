--------------------------- MODULE MCConfirmation ---------------------------
EXTENDS Confirmation, TLC

CONSTANTS phone, panel, j1, j2, w1, w2

MCSymmetry == Permutations({phone, panel}) \cup Permutations({j1, j2})
              \cup Permutations({w1, w2})
=============================================================================
