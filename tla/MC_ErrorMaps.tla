----------------------------- MODULE MC_ErrorMaps -----------------------------
(***************************************************************************)
(* The three translation tables of BiometricsFingerprint.cpp checked       *)
(* against reference tables written from the other direction: the errno    *)
(* value of each RequestStatus, and the fingerprint.h value of each legacy *)
(* error and acquired-info name.  The driver hands the bridge any int32;   *)
(* the inputs cover every listed code, the gaps between them, both sides   *)
(* of the vendor bases, and the int32 extremes.                            *)
(***************************************************************************)
EXTENDS ErrorMaps

\* Linux errno values: the status the host must see for -errno.
Errno ==
    [SYS_ENOENT |-> 2, SYS_EINTR |-> 4, SYS_EIO |-> 5, SYS_EAGAIN |-> 11,
     SYS_ENOMEM |-> 12, SYS_EACCES |-> 13, SYS_EFAULT |-> 14, SYS_EBUSY |-> 16,
     SYS_EINVAL |-> 22, SYS_ENOSPC |-> 28, SYS_ETIMEDOUT |-> 110]

\* libhardware fingerprint.h: fingerprint_error_t and fingerprint_acquired_info_t.
LegacyErrorCode ==
    [ERROR_HW_UNAVAILABLE |-> 1, ERROR_UNABLE_TO_PROCESS |-> 2, ERROR_TIMEOUT |-> 3,
     ERROR_NO_SPACE |-> 4, ERROR_CANCELED |-> 5, ERROR_UNABLE_TO_REMOVE |-> 6,
     ERROR_LOCKOUT |-> 7]
LegacyAcquiredCode ==
    [ACQUIRED_GOOD |-> 0, ACQUIRED_PARTIAL |-> 1, ACQUIRED_INSUFFICIENT |-> 2,
     ACQUIRED_IMAGER_DIRTY |-> 3, ACQUIRED_TOO_SLOW |-> 4, ACQUIRED_TOO_FAST |-> 5]

\* The name a table gives to code c, if it lists c.
Named(table, c) == {n \in DOMAIN table : table[n] = c}

\* The spec's statement of the three mappings.
RefStatus(c) ==
    LET negated == {n \in DOMAIN Errno : -Errno[n] = c}
    IN  IF c = 0 THEN "SYS_OK"
        ELSE IF negated # {} THEN CHOOSE n \in negated : TRUE
        ELSE "SYS_UNKNOWN"

\* A vendor-band code carries its offset from the base; anything else
\* carries 0.
RefVendor(table, c, base, vendorName, fallback) ==
    IF Named(table, c) # {} THEN <<CHOOSE n \in Named(table, c) : TRUE, 0>>
    ELSE IF c >= base THEN <<vendorName, c - base>>
    ELSE <<fallback, 0>>

Int32Min == -2147483647 - 1
Int32Max == 2147483647

Codes ==
    (-115..12) \cup (990..1010) \cup {Int32Min, Int32Min + 1, Int32Max - 1, Int32Max}

VARIABLE code

Init == code \in Codes
\* The driver reports any code next.
Next == \E c \in Codes : code' = c
Spec == Init /\ [][Next]_code

\* Every code the driver can return, report as an error or report as
\* acquired info reaches the host exactly as the spec's tables say:
\* the listed status, error or info name; SYS_UNKNOWN for an unlisted
\* return code; ERROR_VENDOR / ACQUIRED_VENDOR with code - base from the base
\* up; and ERROR_UNABLE_TO_PROCESS / ACQUIRED_INSUFFICIENT below it.
TranslationMatchesSpec ==
    /\ ErrorFilter(code) = RefStatus(code)
    /\ VendorErrorFilter(code) =
          RefVendor(LegacyErrorCode, code, 1000, "ERROR_VENDOR", "ERROR_UNABLE_TO_PROCESS")
    /\ VendorAcquiredFilter(code) =
          RefVendor(LegacyAcquiredCode, code, 1000, "ACQUIRED_VENDOR", "ACQUIRED_INSUFFICIENT")

=============================================================================
