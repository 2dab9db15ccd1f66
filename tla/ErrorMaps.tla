------------------------------ MODULE ErrorMaps ------------------------------
(***************************************************************************)
(* The three code-translation tables of BiometricsFingerprint.cpp:         *)
(*   ErrorFilter         driver return code  -> RequestStatus              *)
(*   VendorErrorFilter   FINGERPRINT_ERROR_* -> <<FingerprintError, vendorCode>> *)
(*   VendorAcquiredFilter FINGERPRINT_ACQUIRED_* -> <<AcquiredInfo, vendorCode>> *)
(* The numeric values of the legacy codes are those of                     *)
(* hardware/libhardware fingerprint.h, which the code includes.            *)
(***************************************************************************)
EXTENDS Integers

\* fingerprint.h: FINGERPRINT_ERROR_VENDOR_BASE and FINGERPRINT_ACQUIRED_VENDOR_BASE
FINGERPRINT_ERROR_VENDOR_BASE == 1000
FINGERPRINT_ACQUIRED_VENDOR_BASE == 1000

\* The closed RequestStatus enumeration returned to the host.
RequestStatus ==
    {"SYS_OK", "SYS_ENOENT", "SYS_EINTR", "SYS_EIO", "SYS_EAGAIN", "SYS_ENOMEM",
     "SYS_EACCES", "SYS_EFAULT", "SYS_EBUSY", "SYS_EINVAL", "SYS_ENOSPC",
     "SYS_ETIMEDOUT", "SYS_UNKNOWN"}

\* ErrorFilter: a negated errno from the vendor library, or SYS_UNKNOWN.
ErrorFilter(error) ==
    CASE error = 0    -> "SYS_OK"
      [] error = -2   -> "SYS_ENOENT"
      [] error = -4   -> "SYS_EINTR"
      [] error = -5   -> "SYS_EIO"
      [] error = -11  -> "SYS_EAGAIN"
      [] error = -12  -> "SYS_ENOMEM"
      [] error = -13  -> "SYS_EACCES"
      [] error = -14  -> "SYS_EFAULT"
      [] error = -16  -> "SYS_EBUSY"
      [] error = -22  -> "SYS_EINVAL"
      [] error = -28  -> "SYS_ENOSPC"
      [] error = -110 -> "SYS_ETIMEDOUT"
      [] OTHER        -> "SYS_UNKNOWN"

\* VendorErrorFilter: FINGERPRINT_ERROR_HW_UNAVAILABLE (1) .. LOCKOUT (7) map
\* to the FingerprintError of the same name; a code at or above the vendor
\* base maps to ERROR_VENDOR with vendorCode = error - base; anything else
\* to ERROR_UNABLE_TO_PROCESS with vendorCode 0.
LegacyErrorName ==
    <<"ERROR_HW_UNAVAILABLE", "ERROR_UNABLE_TO_PROCESS", "ERROR_TIMEOUT",
      "ERROR_NO_SPACE", "ERROR_CANCELED", "ERROR_UNABLE_TO_REMOVE", "ERROR_LOCKOUT">>

\* (mutant) the vendor band starts one above the base.
VendorErrorFilterPastBase(error) ==
    IF error \in 1..7 THEN <<LegacyErrorName[error], 0>>
    ELSE IF error > FINGERPRINT_ERROR_VENDOR_BASE
         THEN <<"ERROR_VENDOR", error - FINGERPRINT_ERROR_VENDOR_BASE>>
         ELSE <<"ERROR_UNABLE_TO_PROCESS", 0>>

VendorErrorFilter(error) ==
    IF error \in 1..7 THEN <<LegacyErrorName[error], 0>>
    ELSE IF error >= FINGERPRINT_ERROR_VENDOR_BASE
         THEN <<"ERROR_VENDOR", error - FINGERPRINT_ERROR_VENDOR_BASE>>
         ELSE <<"ERROR_UNABLE_TO_PROCESS", 0>>

\* VendorAcquiredFilter: FINGERPRINT_ACQUIRED_GOOD (0) .. TOO_FAST (5), the
\* vendor band, and ACQUIRED_INSUFFICIENT for anything else.
LegacyAcquiredName ==
    <<"ACQUIRED_GOOD", "ACQUIRED_PARTIAL", "ACQUIRED_INSUFFICIENT",
      "ACQUIRED_IMAGER_DIRTY", "ACQUIRED_TOO_SLOW", "ACQUIRED_TOO_FAST">>

VendorAcquiredFilter(info) ==
    IF info \in 0..5 THEN <<LegacyAcquiredName[info + 1], 0>>
    ELSE IF info >= FINGERPRINT_ACQUIRED_VENDOR_BASE
         THEN <<"ACQUIRED_VENDOR", info - FINGERPRINT_ACQUIRED_VENDOR_BASE>>
         ELSE <<"ACQUIRED_INSUFFICIENT", 0>>

=============================================================================
