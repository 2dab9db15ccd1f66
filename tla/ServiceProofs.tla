----------------------------- MODULE ServiceProofs -----------------------------
(***************************************************************************)
(* Proofs about the service process, the bridge and its FOD watcher        *)
(* thread together.  First, every step of the process is a step of the     *)
(* bridge alone or leaves the bridge's state untouched: the watcher's only *)
(* effect on the bridge is the crash of its extCmd on a null device, which *)
(* is what a host extCmd request does.  So every invariant proved of the   *)
(* bridge holds in the composed process.  Second, the watcher keeps the    *)
(* device in sync with the overlay across service restarts.                *)
(***************************************************************************)
EXTENDS FingerprintService, FingerprintProofs

USE DEF allVars, bridgeVars, watchVars

\* The watcher's extCmd on a null device is the host's extCmd on it.
LEMMA WatcherCrashIsHostExtCmd ==
    ASSUME Running, mDevice = 0, Crash
    PROVE  HostRaw("extCmd")
    BY DEF Running, HostRaw

\* Every step of the process is a bridge step or a bridge stutter.
LEMMA ServiceStepIsBridgeStep == [ServiceNext]_allVars => [Next]_vars
<1>1. ASSUME BridgeStep PROVE Next
    <2>1. CASE HostRequests /\ HostStep
        BY <2>1, Zenon DEF HostStep, Next
    <2>2. QED
        BY <1>1, <2>1, Zenon DEF BridgeStep, Next
<1>2. ASSUME ServiceRestart PROVE Next
    BY <1>2 DEF Next
<1>3. ASSUME ExtCmdEnter PROVE [Next]_vars
    <2>1. CASE mDevice = 0
        <3>1. HostRaw("extCmd")
            BY <1>3, <2>1, WatcherCrashIsHostExtCmd DEF ExtCmdEnter
        <3>2. QED
            BY <3>1 DEF Next, RawOps
    <2>2. CASE mDevice # 0
        BY <1>3, <2>2 DEF ExtCmdEnter
    <2>3. QED
        BY <2>1, <2>2
<1>4. ASSUME WatcherStep PROVE UNCHANGED vars
    BY <1>4 DEF WatcherStep
<1>5. ASSUME ExtCmdLeave PROVE UNCHANGED vars
    BY <1>5 DEF ExtCmdLeave
<1>6. ASSUME W!OverlayChange /\ UNCHANGED bridgeVars PROVE UNCHANGED vars
    BY <1>6
<1>7. QED
    BY <1>1, <1>2, <1>3, <1>4, <1>5, <1>6 DEF ServiceNext

\* The process starts from the bridge's initial state.
LEMMA ServiceInitIsBridgeInit == ServiceInit => Init
    BY DEF ServiceInit

\* The composed process has the bridge's inductive invariant: the hint
\* cache is touched only under mClientCallbackMutex, holds only a real
\* answer, and a dead power HAL handle is used at most once, although the
\* watcher thread calls into the device and dies and restarts with the
\* process.
THEOREM ServiceBridgeInvariant ==
    ServiceSpec => [](IInv /\ CacheHeldUnderLock /\ StaleHandleUsedOnce)
<1>1. ServiceInit => IInv
    BY ServiceInitIsBridgeInit, InitIInv
<1>2. IInv /\ [ServiceNext]_allVars => IInv'
    BY ServiceStepIsBridgeStep, IInvStep
<1>3. IInv => CacheHeldUnderLock /\ StaleHandleUsedOnce
    BY DEF IInv, LockInv, CacheHeldUnderLock, StaleInv, StaleHandleUsedOnce
<1>4. QED
    BY <1>1, <1>2, <1>3, PTL DEF ServiceSpec

\* In the composed process too, a finished constructor is registered with
\* the driver exactly when it adopted a module, and the watcher runs
\* exactly when that module has a FOD sensor.
THEOREM ServiceAdoption == ServiceSpec => []AdoptionConsistent
<1>1. ServiceInit => TypeOK /\ AdoptInv
    BY ServiceInitIsBridgeInit, InitIInv DEF IInv, Init, BridgeInit, AdoptInv, CtorInv,
                                             AdoptionConsistent
<1>2. TypeOK /\ AdoptInv /\ [ServiceNext]_allVars => TypeOK' /\ AdoptInv'
    BY ServiceStepIsBridgeStep, AdoptStep, FlagsStep, StateStep DEF TypeOK
<1>3. QED
    BY <1>1, <1>2, PTL DEF ServiceSpec, AdoptInv

\* The composed process still implements the boost hint's contract: the
\* watcher thread neither takes mClientCallbackMutex nor touches the hint
\* cache, so the refinement of the bridge carries over.
THEOREM ServiceBoostHint == ServiceSpec => BoostHintRefined
<1>1. ServiceSpec => []IInv
    BY ServiceBridgeInvariant, PTL
<1>2. ServiceInit => BH!Init
    BY ServiceInitIsBridgeInit, InitRefined
<1>3. IInv /\ IInv' /\ [ServiceNext]_allVars => [BH!Next]_BH!vars
    BY ServiceStepIsBridgeStep, StepRefined
<1>4. QED
    BY <1>1, <1>2, <1>3, PTL DEF ServiceSpec, BoostHintRefined, BH!Spec

-----------------------------------------------------------------------------
(* The watcher in the process.  WatcherInSync needs, as for the watcher   *)
(* alone, that a watcher opening fod_ui is armed and that the value on its *)
(* way to the device is right, or a failed read's NONE, while no           *)
(* notification is pending; here the way to the device has two steps,     *)
(* "sending" and "calling", and a restart may cut it short.                *)

\* The value readBool produced is the overlay's state, or a failed read's
\* NONE.
SvcRelayable(v) == v = W!Param(fodUi) \/ (readFailed /\ v = W!PARAM_NIT_NONE)

SvcSyncInv ==
    /\ wstate = "opening" => armed
    /\ wstate \in {"sending", "calling"} /\ ~armed => SvcRelayable(val)
    /\ WatcherInSync

LEMMA SvcSyncStep == SvcSyncInv /\ [ServiceNext]_allVars => SvcSyncInv'
<1> SUFFICES ASSUME SvcSyncInv, [ServiceNext]_allVars PROVE SvcSyncInv'
    OBVIOUS
<1> USE DEF SvcSyncInv, WatcherInSync, W!IdleWatcherInSync, SvcRelayable
<1>1. CASE BridgeStep /\ UNCHANGED watchVars
    BY <1>1
<1>2. CASE ServiceRestart /\ FreshWatcher
    BY <1>2 DEF FreshWatcher
<1>3. CASE WatcherStep
    <2>1. CASE W!WatcherOpen
        BY <2>1 DEF W!WatcherOpen
    <2>2. CASE W!WatcherWake /\ armed' = FALSE /\ val' = W!Param(fodUi)
               /\ readFailed' = FALSE
        BY <2>2 DEF W!WatcherWake
    <2>3. CASE W!WatcherWake /\ val' = W!PARAM_NIT_NONE /\ readFailed' = TRUE
        BY <2>3 DEF W!WatcherWake
    <2>4. QED
        BY <1>3, <2>1, <2>2, <2>3 DEF WatcherStep, W!WatcherWake
<1>4. CASE ExtCmdEnter
    BY <1>4 DEF ExtCmdEnter, Crash
<1>5. CASE ExtCmdLeave
    BY <1>5 DEF ExtCmdLeave
<1>6. CASE W!OverlayChange /\ UNCHANGED bridgeVars
    BY <1>6 DEF W!OverlayChange
<1>7. CASE UNCHANGED allVars
    BY <1>7
<1>8. QED
    BY <1>1, <1>2, <1>3, <1>4, <1>5, <1>6, <1>7 DEF ServiceNext

\* For every mix of lseek and read failures, a watcher idle in poll with no
\* pending notification has told the adopted device the overlay's state, or
\* NONE after a failed read, through any number of service restarts and
\* with the device call taking its own step.
THEOREM ServiceSync == ServiceSpec => []WatcherInSync
<1>1. ServiceInit => SvcSyncInv
    BY DEF ServiceInit, W!Init, SvcSyncInv, WatcherInSync, W!IdleWatcherInSync
<1>2. SvcSyncInv => WatcherInSync
    BY DEF SvcSyncInv
<1>3. QED
    BY <1>1, <1>2, SvcSyncStep, PTL DEF ServiceSpec

=============================================================================
