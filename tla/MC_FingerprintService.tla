------------------------- MODULE MC_FingerprintService -------------------------
(* The bridge and the FOD watcher together, for TLC, with the module table *)
(* and the constants of MC_Fingerprint.                                     *)
EXTENDS FingerprintService, MC_Fingerprint

\* One driver thread: the watcher's interleaving with the host is the
\* question here, not the notify threads among themselves.
MCOneThread == {d1}

=============================================================================
