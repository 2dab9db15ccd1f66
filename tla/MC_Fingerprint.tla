--------------------------- MODULE MC_Fingerprint ---------------------------
(* Model-checking instance of Fingerprint: two vendor modules, one FOD    *)
(* and one not, two driver threads and two client callbacks.              *)
EXTENDS Fingerprint, TLC

CONSTANTS d1, d2, c1, c2

MCModules == << [class_name |-> "fpc", fod |-> FALSE],
                [class_name |-> "fpc_fod", fod |-> TRUE] >>

MCDriverThreads == {d1, d2}
MCCallbacks == {c1, c2}
\* 0 (SYS_OK), -16 (SYS_EBUSY), and 1, which ErrorFilter does not know.
MCRetCodes == {0, -16, 1}

MCSymmetry == Permutations(MCDriverThreads) \cup Permutations(MCCallbacks)
=============================================================================
