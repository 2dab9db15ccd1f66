----------------------------- MODULE Fingerprint -----------------------------
(***************************************************************************)
(* The BiometricsFingerprint HAL service (src/fingerprint/                 *)
(* BiometricsFingerprint.cpp): its constructor's probe of the vendor       *)
(* modules, the host requests, the driver's notify callback dispatched     *)
(* under mClientCallbackMutex, and the power-hint cache that notify fills  *)
(* after an accepted fingerprint, against a power HAL that may crash and   *)
(* be restarted.  The FOD watcher thread is only started here; its loop is *)
(* the module FodWatcher.                                                  *)
(***************************************************************************)
EXTENDS Integers, Sequences, ErrorMaps

CONSTANTS
    kModules,        \* the kModules table: a sequence of [class_name, fod]
    DriverThreads,   \* vendor threads that may call notify concurrently
    Callbacks,       \* client callbacks the host may register
    NoCallback,      \* mClientCallback == nullptr
    NoThread,        \* nobody holds mClientCallbackMutex
    RetCodes,        \* return codes a vendor request may produce
    BoostSupported,  \* the power HAL extension supports the "LAUNCH" boost
    HasPowerExt,     \* the power HAL exposes the IPowerExt extension
    MaxNotify,       \* bound on notify calls from the driver
    MaxRestarts      \* bound on power HAL restarts

ASSUME ModulesAssumption ==
    /\ kModules \in Seq([class_name : STRING, fod : BOOLEAN])
    /\ Len(kModules) >= 1
ASSUME SentinelAssumption ==
    /\ NoCallback \notin Callbacks
    /\ NoThread \notin DriverThreads
ASSUME ConstAssumption ==
    /\ RetCodes \subseteq Int
    /\ BoostSupported \in BOOLEAN
    /\ HasPowerExt \in BOOLEAN
    /\ MaxNotify \in Nat
    /\ MaxRestarts \in Nat

N == Len(kModules)
\* Incarnations of the power HAL; a connection handle names the one it was
\* obtained from, 0 is mPowerHalExtAidl == nullptr.
Epochs == 1..(MaxRestarts + 1)

\* Driver message types of fingerprint_msg_t, with FINGERPRINT_AUTHENTICATED
\* split on finger.fid # 0 (a match) and fid = 0 (no match).
Msgs == {"error", "acquired", "enrolling", "removed",
         "auth_match", "auth_nomatch", "enumerating"}
NoMsg == "none"

\* Host calls that forward to the driver and return ErrorFilter(rc), and
\* those returning the driver's raw 64-bit value.
ForwardOps == {"enroll", "postEnroll", "cancel", "enumerate", "remove", "authenticate"}
RawOps == {"preEnroll", "getAuthenticatorId", "extCmd"}
\* storePath as setActiveGroup classifies it.
StorePaths == {"ok", "empty", "too_long", "not_writable"}

PCs == {"idle", "waiting", "check", "send"}
HostRets == RequestStatus \cup {"none", "raw", "devId"}

VARIABLES
    phase,           \* "ctor", "up", or "crashed" (the process died)
    ctorIdx,         \* next kModules index the constructor tries
    sInstance,       \* sInstance != nullptr
    mDevice,         \* index of the adopted module, 0 for nullptr
    mFod,
    openDevs,        \* modules whose device this process opened
    notifyReg,       \* some opened device calls BiometricsFingerprint::notify
    watcher,         \* the FOD watcher thread has been started
    vendorProp,      \* persist.vendor.sys.fp.vendor (module index, 0 unset)
    fodProp,         \* ro.hardware.fp.fod == "true"
    mClientCallback,
    lockHolder,      \* owner of mClientCallbackMutex
    pc, msg,         \* each driver thread's place in notify and its message
    sent,            \* notify calls made so far
    hostRet,         \* last value returned to the host
    conn,            \* mPowerHalExtAidl: 0 or the epoch it was obtained in
    checked,         \* mBoostHintSupportIsChecked
    supported,       \* mBoostHintIsSupported
    svcAlive, svcEpoch,  \* the power HAL process
    svcCalls,        \* binder calls made on the power HAL extension
    staleCalls       \* per epoch: calls made on that handle after it died

ctorVars == <<phase, ctorIdx, sInstance, mDevice, mFod, openDevs, notifyReg, watcher>>
propVars == <<vendorProp, fodProp>>
notifyVars == <<mClientCallback, lockHolder, pc, msg, sent, hostRet>>
cacheVars == <<conn, checked, supported, svcCalls, staleCalls>>
svcVars == <<svcAlive, svcEpoch>>
vars == <<ctorVars, propVars, notifyVars, cacheVars, svcVars>>

\* The type invariant, in two parts: the flags, and the rest of the state.
FlagsTypeOK ==
    /\ sInstance \in BOOLEAN
    /\ mFod \in BOOLEAN
    /\ notifyReg \in BOOLEAN
    /\ watcher \in BOOLEAN
    /\ fodProp \in BOOLEAN
    /\ checked \in BOOLEAN
    /\ supported \in BOOLEAN
    /\ svcAlive \in BOOLEAN

StateTypeOK ==
    /\ phase \in {"ctor", "up", "crashed"}
    /\ ctorIdx \in 1..(N + 1)
    /\ mDevice \in 0..N
    /\ openDevs \subseteq 1..N
    /\ vendorProp \in 0..N
    /\ mClientCallback \in Callbacks \cup {NoCallback}
    /\ lockHolder \in DriverThreads \cup {NoThread}
    /\ pc \in [DriverThreads -> PCs]
    /\ msg \in [DriverThreads -> Msgs \cup {NoMsg}]
    /\ sent \in 0..MaxNotify
    /\ hostRet \in HostRets
    /\ conn \in {0} \cup Epochs
    /\ svcEpoch \in Epochs
    /\ svcCalls \in Nat
    /\ staleCalls \in [Epochs -> Nat]

TypeOK == FlagsTypeOK /\ StateTypeOK

-----------------------------------------------------------------------------
(* The bridge before the constructor body runs: the member-initializer    *)
(* list sets the callback, device and hint cache to null/false.  mFod is   *)
(* not in that list, so until a module is adopted it holds whatever the    *)
(* allocation held.                                                        *)
BridgeInit ==
    /\ phase = "ctor"
    /\ sInstance = FALSE
    /\ ctorIdx = 1
    /\ mDevice = 0
    /\ mFod \in BOOLEAN
    /\ openDevs = {}
    /\ notifyReg = FALSE
    /\ watcher = FALSE
    /\ mClientCallback = NoCallback
    /\ lockHolder = NoThread
    /\ pc = [t \in DriverThreads |-> "idle"]
    /\ msg = [t \in DriverThreads |-> NoMsg]
    /\ conn = 0
    /\ checked = FALSE
    /\ supported = FALSE

Init ==
    /\ BridgeInit
    /\ vendorProp = 0
    /\ fodProp = FALSE
    /\ sent = 0
    /\ hostRet = "none"
    /\ svcAlive = TRUE
    /\ svcEpoch = 1
    /\ svcCalls = 0
    /\ staleCalls = [e \in Epochs |-> 0]

-----------------------------------------------------------------------------
(* Constructor.  One step per iteration of the loop over kModules: the    *)
(* first iteration also executes sInstance = this.  mDevice = openHal()   *)
(* is assigned every iteration; the loop breaks at the first success.     *)
\* (mutant) the loop does not break on success.
OpenOkNoBreak(i) ==
    /\ mDevice' = i
    /\ mFod' = kModules[i].fod
    /\ openDevs' = openDevs \cup {i}
    /\ notifyReg' = TRUE
    /\ vendorProp' = i
    /\ ctorIdx' = i + 1

\* openHal succeeded: adopt the device, record its FOD flag and its class
\* in persist.vendor.sys.fp.vendor, and break.
OpenOk(i) ==
    /\ mDevice' = i
    /\ mFod' = kModules[i].fod
    /\ openDevs' = openDevs \cup {i}
    /\ notifyReg' = TRUE
    /\ vendorProp' = i
    /\ ctorIdx' = N + 1

\* openHal returned nullptr before anything was opened.
OpenUnopened(i) ==
    /\ mDevice' = 0
    /\ ctorIdx' = i + 1
    /\ UNCHANGED <<mFod, openDevs, notifyReg, vendorProp>>

\* openHal opened the device, then returned nullptr on a version mismatch
\* or a set_notify failure, without closing it.
OpenRejected(i) ==
    /\ mDevice' = 0
    /\ openDevs' = openDevs \cup {i}
    /\ ctorIdx' = i + 1
    /\ UNCHANGED <<mFod, notifyReg, vendorProp>>

CtorOpen ==
    /\ phase = "ctor"
    /\ ctorIdx <= N
    /\ sInstance' = TRUE
    /\ \/ OpenOk(ctorIdx)
       \/ OpenUnopened(ctorIdx)
       \/ OpenRejected(ctorIdx)
    /\ UNCHANGED <<phase, watcher, fodProp, notifyVars, cacheVars, svcVars>>

\* After the loop: if (mFod) start the watcher and set ro.hardware.fp.fod.
\* The service is then registered and the host may call it.
CtorFinish ==
    /\ phase = "ctor"
    /\ ctorIdx = N + 1
    /\ phase' = "up"
    /\ watcher' = mFod
    /\ fodProp' = (fodProp \/ mFod)
    /\ UNCHANGED <<ctorIdx, sInstance, mDevice, mFod, openDevs, notifyReg,
                   vendorProp, notifyVars, cacheVars, svcVars>>

-----------------------------------------------------------------------------
(* Host requests.  Each forwarding call dereferences mDevice unchecked:   *)
(* with no adopted module it is a null dereference and the process dies.  *)
Crash ==
    /\ phase' = "crashed"
    /\ UNCHANGED <<ctorIdx, sInstance, mDevice, mFod, openDevs, notifyReg, watcher,
                   propVars, notifyVars, cacheVars, svcVars>>

Reply(r) ==
    /\ hostRet' = r
    /\ UNCHANGED <<ctorVars, propVars, mClientCallback, lockHolder, pc, msg, sent,
                   cacheVars, svcVars>>

\* (mutant) notify does not take the mutex.
CanLockBroken == TRUE

\* std::lock_guard on mClientCallbackMutex can be taken.
CanLock == lockHolder = NoThread

\* setNotify: store the callback under the mutex, return the device id.
SetNotify(cb) ==
    /\ phase = "up"
    /\ CanLock
    /\ mClientCallback' = cb
    /\ hostRet' = "devId"
    /\ UNCHANGED <<ctorVars, propVars, lockHolder, pc, msg, sent, cacheVars, svcVars>>

\* enroll, postEnroll, cancel, enumerate, remove, authenticate.
HostForward(op, rc) ==
    /\ phase = "up"
    /\ IF mDevice = 0 THEN Crash ELSE Reply(ErrorFilter(rc))

\* preEnroll, getAuthenticatorId, extCmd return the driver's raw value.
HostRaw(op) ==
    /\ phase = "up"
    /\ IF mDevice = 0 THEN Crash ELSE Reply("raw")

\* setActiveGroup validates the path before it touches the device.
SetActiveGroup(path, rc) ==
    /\ phase = "up"
    /\ IF path # "ok" THEN Reply("SYS_EINVAL")
       ELSE IF mDevice = 0 THEN Crash ELSE Reply(ErrorFilter(rc))

-----------------------------------------------------------------------------
(* notify.  A driver thread enters notify with a message, then locks the  *)
(* mutex of *sInstance and dispatches.  Only an accepted match whose      *)
(* onAuthenticated delivery succeeded goes on, still holding the lock, to *)
(* sendAuthenticatedBoostHint: isBoostHintSupported ("check") and then    *)
(* sendPowerHalExtBoost ("send").                                         *)
NotifyCall(t, m) ==
    /\ notifyReg
    /\ phase # "crashed"
    /\ pc[t] = "idle"
    /\ sent < MaxNotify
    /\ pc' = [pc EXCEPT ![t] = "waiting"]
    /\ msg' = [msg EXCEPT ![t] = m]
    /\ sent' = sent + 1
    /\ UNCHANGED <<ctorVars, propVars, mClientCallback, lockHolder, hostRet,
                   cacheVars, svcVars>>

Return(t) ==
    /\ pc' = [pc EXCEPT ![t] = "idle"]
    /\ msg' = [msg EXCEPT ![t] = NoMsg]
    /\ lockHolder' = NoThread

NotifyDispatch(t) ==
    /\ phase # "crashed"
    /\ pc[t] = "waiting"
    /\ CanLock
    /\ IF ~sInstance THEN Crash   \* locks thisPtr->mutex before the null test
       ELSE
       /\ \/ /\ mClientCallback = NoCallback
             /\ Return(t)
          \/ /\ mClientCallback # NoCallback
             /\ \E delivered \in BOOLEAN :
                  IF msg[t] = "auth_match" /\ delivered
                  THEN /\ pc' = [pc EXCEPT ![t] = "check"]
                       /\ lockHolder' = t
                       /\ UNCHANGED msg
                  ELSE Return(t)
       /\ UNCHANGED <<ctorVars, propVars, mClientCallback, sent, hostRet,
                      cacheVars, svcVars>>

\* connectPowerHalExt: keep a non-null handle, else look the service up.
Connected == conn # 0 \/ (svcAlive /\ HasPowerExt)
Handle == IF conn # 0 THEN conn ELSE svcEpoch
Live(h) == svcAlive /\ h = svcEpoch

\* (mutant) the handle is kept after a failed transaction.
CallOnKeepsHandle(h) ==
    /\ svcCalls' = svcCalls + 1
    /\ conn' = h
    /\ IF Live(h) THEN UNCHANGED staleCalls
                  ELSE staleCalls' = [staleCalls EXCEPT ![h] = @ + 1]

\* A binder call on handle h: it fails with EX_TRANSACTION_FAILED when h's
\* service is gone, and the handle is then reset to trigger reconnection.
CallOn(h) ==
    /\ svcCalls' = svcCalls + 1
    /\ IF Live(h) THEN /\ conn' = h
                       /\ UNCHANGED staleCalls
                  ELSE /\ conn' = 0
                       /\ staleCalls' = [staleCalls EXCEPT ![h] = @ + 1]

\* (mutant) leaving the hint path without unlocking the mutex.
HintNextKeepsLock(t, go) ==
    IF go THEN /\ pc' = [pc EXCEPT ![t] = "send"]
               /\ UNCHANGED <<msg, lockHolder>>
          ELSE /\ pc' = [pc EXCEPT ![t] = "idle"]
               /\ msg' = [msg EXCEPT ![t] = NoMsg]
               /\ UNCHANGED lockHolder

\* Leave the hint path: pc returns idle and the lock is released, or go on
\* to send.
HintNext(t, go) ==
    IF go THEN /\ pc' = [pc EXCEPT ![t] = "send"]
               /\ UNCHANGED <<msg, lockHolder>>
          ELSE Return(t)

\* (mutant) the cache is trusted only when it says "supported".
CacheValidIfSupported == checked /\ supported

\* if (mBoostHintSupportIsChecked): answer from the cache.
CacheValid == checked

\* (mutant) the isSupported out-parameter is ignored.
RecordSupportIgnoresAnswer(t) ==
    /\ checked' = TRUE
    /\ supported' = TRUE
    /\ HintNext(t, TRUE)

\* The service answered: cache it, NO_ERROR (supported) or -EOPNOTSUPP.
RecordSupport(t) ==
    /\ checked' = TRUE
    /\ supported' = BoostSupported
    /\ HintNext(t, BoostSupported)

\* (mutant) every failure is cached as "unsupported".
QueryFailedCaches(t) ==
    /\ checked' = TRUE
    /\ supported' = FALSE
    /\ HintNext(t, FALSE)

\* -ENOTCONN or -EINVAL: nothing is cached.
QueryFailed(t) ==
    /\ UNCHANGED <<checked, supported>>
    /\ HintNext(t, FALSE)

\* isBoostHintSupported with checkPowerHalExtBoostSupport inlined.  A live
\* call returns isSupported or another binder error (-EINVAL, not cached).
IsBoostHintSupported(t) ==
    /\ pc[t] = "check"
    /\ phase # "crashed"
    /\ \/ /\ CacheValid
          /\ HintNext(t, supported)
          /\ UNCHANGED cacheVars
       \/ /\ ~CacheValid
          /\ ~Connected
          /\ HintNext(t, FALSE)
          /\ UNCHANGED cacheVars
       \/ /\ ~CacheValid
          /\ Connected
          /\ CallOn(Handle)
          /\ \E answered \in BOOLEAN :
                IF Live(Handle) /\ answered THEN RecordSupport(t) ELSE QueryFailed(t)
    /\ UNCHANGED <<ctorVars, propVars, mClientCallback, sent, hostRet, svcVars>>

\* sendPowerHalExtBoost("LAUNCH", 2000); notify then returns.
SendPowerHalExtBoost(t) ==
    /\ pc[t] = "send"
    /\ phase # "crashed"
    /\ \/ /\ ~Connected
          /\ UNCHANGED cacheVars
       \/ /\ Connected
          /\ CallOn(Handle)
          /\ UNCHANGED <<checked, supported>>
    /\ Return(t)
    /\ UNCHANGED <<ctorVars, propVars, mClientCallback, sent, hostRet, svcVars>>

-----------------------------------------------------------------------------
(* Environment: the power HAL dies and init restarts it; and when the     *)
(* fingerprint service dies, init restarts it: the process's devices are  *)
(* closed, its threads gone, and the constructor runs again.  System      *)
(* properties survive.                                                    *)
PowerHalCrash ==
    /\ svcAlive
    /\ svcAlive' = FALSE
    /\ UNCHANGED <<ctorVars, propVars, notifyVars, cacheVars, svcEpoch>>

PowerHalRestart ==
    /\ ~svcAlive
    /\ svcEpoch < MaxRestarts + 1
    /\ svcAlive' = TRUE
    /\ svcEpoch' = svcEpoch + 1
    /\ UNCHANGED <<ctorVars, propVars, notifyVars, cacheVars>>

ServiceRestart ==
    /\ phase = "crashed"
    /\ phase' = "ctor"
    /\ sInstance' = FALSE
    /\ ctorIdx' = 1
    /\ mDevice' = 0
    /\ mFod' \in BOOLEAN
    /\ openDevs' = {}
    /\ notifyReg' = FALSE
    /\ watcher' = FALSE
    /\ mClientCallback' = NoCallback
    /\ lockHolder' = NoThread
    /\ pc' = [t \in DriverThreads |-> "idle"]
    /\ msg' = [t \in DriverThreads |-> NoMsg]
    /\ conn' = 0
    /\ checked' = FALSE
    /\ supported' = FALSE
    /\ UNCHANGED <<propVars, sent, hostRet, svcCalls, staleCalls, svcVars>>

Next ==
    \/ CtorOpen
    \/ CtorFinish
    \/ \E cb \in Callbacks : SetNotify(cb)
    \/ \E op \in ForwardOps, rc \in RetCodes : HostForward(op, rc)
    \/ \E op \in RawOps : HostRaw(op)
    \/ \E p \in StorePaths, rc \in RetCodes : SetActiveGroup(p, rc)
    \/ \E t \in DriverThreads :
          \/ \E m \in Msgs : NotifyCall(t, m)
          \/ NotifyDispatch(t)
          \/ IsBoostHintSupported(t)
          \/ SendPowerHalExtBoost(t)
    \/ PowerHalCrash
    \/ PowerHalRestart
    \/ ServiceRestart

\* The driver threads' steps in notify are weakly fair once the lock is
\* theirs, and strongly fair for taking the lock; the constructor runs to
\* its end and init restarts a dead service.
Fairness ==
    /\ WF_vars(CtorOpen \/ CtorFinish)
    /\ WF_vars(ServiceRestart)
    /\ \A t \in DriverThreads :
          /\ SF_vars(NotifyDispatch(t))
          /\ WF_vars(IsBoostHintSupported(t))
          /\ WF_vars(SendPowerHalExtBoost(t))

Spec == Init /\ [][Next]_vars /\ Fairness

-----------------------------------------------------------------------------
(* The boost hint seen through BoostHint: the cache flags as what is      *)
(* known, mClientCallbackMutex as the lock, and a notify thread inside    *)
(* isBoostHintSupported or sendPowerHalExtBoost as a thread deciding or   *)
(* sending.  The power HAL connection is invisible to the abstraction.    *)
HintCache ==
    IF ~checked THEN "unknown" ELSE IF supported THEN "yes" ELSE "no"

HintStage ==
    [t \in DriverThreads |->
        IF pc[t] = "check" THEN "hint" ELSE IF pc[t] = "send" THEN "boost" ELSE "idle"]

BH == INSTANCE BoostHint
        WITH Threads <- DriverThreads, NoOwner <- NoThread, Answer <- BoostSupported,
             cache <- HintCache, owner <- lockHolder, stage <- HintStage

-----------------------------------------------------------------------------
(* Properties.                                                            *)

\* The power-hint cache (mPowerHalExtAidl, mBoostHintSupportIsChecked,
\* mBoostHintIsSupported) is read and written only by a notify thread that
\* holds mClientCallbackMutex: two accepted matches delivered on different
\* driver threads never race on it.
CacheHeldUnderLock ==
    \A t \in DriverThreads : pc[t] \in {"check", "send"} => lockHolder = t

\* isBoostHintSupported caches only the service's real answer: a transport
\* failure (power HAL died) or a lookup failure never caches "unsupported".
BoostCacheFaithful == checked => supported = BoostSupported

\* After EX_TRANSACTION_FAILED the handle is dropped, so no dead power HAL
\* handle is used for more than one call: the next hint reconnects.
StaleHandleUsedOnce == \A e \in Epochs : staleCalls[e] <= 1

\* Once the boost is cached as unsupported, notify makes no further calls
\* to the power HAL (until the fingerprint service itself restarts).
QuietOnceUnsupported ==
    [][checked /\ ~supported => svcCalls' = svcCalls]_vars

\* The code implements the boost hint's contract: under the lock, ask the
\* power HAL until its real answer is cached, then answer from the cache,
\* and send the boost only when the answer is "supported".
BoostHintRefined == BH!Spec

\* Once the constructor is done, the bridge is registered with the driver
\* exactly when it adopted a module, and the FOD flag, the watcher and the
\* vendor property all describe that module.
AdoptionConsistent ==
    phase = "up" =>
        /\ notifyReg = (mDevice # 0)
        /\ mDevice # 0 => /\ mFod = kModules[mDevice].fod
                          /\ watcher = mFod
                          /\ vendorProp = mDevice

\* Every notify call the driver makes returns: no path through notify
\* keeps the mutex, so no driver thread waits on it forever.
NotifyReturns ==
    \A t \in DriverThreads : pc[t] # "idle" ~> pc[t] = "idle"

\* The spec: if no module opens, the bridge stays inert but does not crash.
NoProcessCrash == phase # "crashed"

\* A device that openHal opened but rejected is closed again.
RejectedDevicesClosed == openDevs \subseteq {mDevice}

\* The FOD watcher thread runs only for an adopted FOD module.
WatcherOnlyWithFodDevice ==
    watcher => mDevice # 0 /\ kModules[mDevice].fod

=============================================================================
