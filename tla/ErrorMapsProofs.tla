---------------------------- MODULE ErrorMapsProofs ----------------------------
(***************************************************************************)
(* The three translation tables agree with the spec's mapping for every   *)
(* integer, not only for the codes the error_maps run enumerates.  Each   *)
(* reference picks a name by its code with CHOOSE; the tables list each    *)
(* code once, so the chosen name is the only one.                          *)
(***************************************************************************)
EXTENDS MC_ErrorMaps, TLAPS

\* Distinct errnos: -errno names exactly one status.
LEMMA ErrnoNamesOne ==
    ASSUME NEW k \in DOMAIN Errno
    PROVE  {n \in DOMAIN Errno : -Errno[n] = -Errno[k]} = {k}
    BY DEF Errno

\* ErrorFilter lists exactly the negated errnos of the reference.
LEMMA FilterOnErrno ==
    \A k \in DOMAIN Errno : ErrorFilter(-Errno[k]) = k
    BY DEF Errno, ErrorFilter

\* A code that is no negated errno has no name.
LEMMA UnlistedStatus ==
    ASSUME NEW c \in Int, \A k \in DOMAIN Errno : c # -Errno[k]
    PROVE  {n \in DOMAIN Errno : -Errno[n] = c} = {}
    OBVIOUS

LEMMA StatusCorrect == \A c \in Int : ErrorFilter(c) = RefStatus(c)
<1> TAKE c \in Int
<1>1. CASE c = 0
    BY <1>1 DEF ErrorFilter, RefStatus
<1>2. CASE \E k \in DOMAIN Errno : c = -Errno[k]
    <2>1. PICK k \in DOMAIN Errno : c = -Errno[k]
        BY <1>2
    <2>2. c # 0
        BY <2>1 DEF Errno
    <2>3. {n \in DOMAIN Errno : -Errno[n] = c} = {k}
        BY <2>1, ErrnoNamesOne
    <2>4. RefStatus(c) = k
        BY <2>2, <2>3 DEF RefStatus
    <2>5. ErrorFilter(c) = k
        BY <2>1, FilterOnErrno
    <2>6. QED
        BY <2>4, <2>5
<1>3. CASE c # 0 /\ \A k \in DOMAIN Errno : c # -Errno[k]
    <2>1. RefStatus(c) = "SYS_UNKNOWN"
        BY <1>3, UnlistedStatus DEF RefStatus
    <2>2. ErrorFilter(c) = "SYS_UNKNOWN"
        BY <1>3 DEF Errno, ErrorFilter
    <2>3. QED
        BY <2>1, <2>2
<1>4. QED
    BY <1>1, <1>2, <1>3


\* The legacy error codes 1..7 each name one error, in fingerprint.h order.
LEMMA ErrorNamed ==
    \A c \in 1..7 : Named(LegacyErrorCode, c) = {LegacyErrorName[c]}
    BY DEF Named, LegacyErrorCode, LegacyErrorName

LEMMA ErrorUnnamed ==
    \A c \in Int \ (1..7) : Named(LegacyErrorCode, c) = {}
    BY DEF Named, LegacyErrorCode

\* The legacy acquired codes 0..5 each name one info, in fingerprint.h order.
LEMMA AcquiredNamed ==
    \A c \in 0..5 : Named(LegacyAcquiredCode, c) = {LegacyAcquiredName[c + 1]}
    BY DEF Named, LegacyAcquiredCode, LegacyAcquiredName

LEMMA AcquiredUnnamed ==
    \A c \in Int \ (0..5) : Named(LegacyAcquiredCode, c) = {}
    BY DEF Named, LegacyAcquiredCode

LEMMA VendorErrorCorrect ==
    \A c \in Int :
        VendorErrorFilter(c) =
            RefVendor(LegacyErrorCode, c, 1000, "ERROR_VENDOR", "ERROR_UNABLE_TO_PROCESS")
<1> TAKE c \in Int
<1>1. CASE c \in 1..7
    BY <1>1, ErrorNamed DEF VendorErrorFilter, RefVendor
<1>2. CASE c \notin 1..7
    BY <1>2, ErrorUnnamed DEF VendorErrorFilter, RefVendor, FINGERPRINT_ERROR_VENDOR_BASE
<1>3. QED
    BY <1>1, <1>2

LEMMA VendorAcquiredCorrect ==
    \A c \in Int :
        VendorAcquiredFilter(c) =
            RefVendor(LegacyAcquiredCode, c, 1000, "ACQUIRED_VENDOR", "ACQUIRED_INSUFFICIENT")
<1> TAKE c \in Int
<1>1. CASE c \in 0..5
    BY <1>1, AcquiredNamed DEF VendorAcquiredFilter, RefVendor
<1>2. CASE c \notin 0..5
    BY <1>2, AcquiredUnnamed DEF VendorAcquiredFilter, RefVendor,
                                 FINGERPRINT_ACQUIRED_VENDOR_BASE
<1>3. QED
    BY <1>1, <1>2

\* Whatever code the driver returns, reports as an error or reports as
\* acquired info, ErrorFilter, VendorErrorFilter and VendorAcquiredFilter
\* hand the host what the spec's tables say: the listed name, the vendor
\* band from its base with the offset, and the fallback elsewhere.  The
\* lemmas above say it of every integer; the run's inputs are integers.
THEOREM TranslationCorrect == Spec => []TranslationMatchesSpec
<1> DEFINE CodeOK == code \in Int
<1>1. Init => CodeOK
    BY DEF Init, Codes, Int32Min, Int32Max
<1>2. CodeOK /\ [Next]_code => CodeOK'
    BY DEF Next, Codes, Int32Min, Int32Max
<1>3. CodeOK => TranslationMatchesSpec
    BY StatusCorrect, VendorErrorCorrect, VendorAcquiredCorrect DEF TranslationMatchesSpec
<1>4. QED
    BY <1>1, <1>2, <1>3, PTL DEF Spec

=============================================================================
