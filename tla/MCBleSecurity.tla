--------------------------- MODULE MCBleSecurity ----------------------------
(* Instances of BleSecurity for TLC.                                       *)
EXTENDS BleSecurity, TLC

CONSTANTS mac, phone, tablet

\* The peers with private addresses are interchangeable.
Symmetry == Permutations(Private)
=============================================================================
