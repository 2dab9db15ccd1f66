-------------------------- MODULE FingerprintProofs --------------------------
(***************************************************************************)
(* Proofs about the Fingerprint model, for every value of its constants:  *)
(* type correctness, and the inductive invariant behind four of the       *)
(* properties the runs check: the power-hint cache is touched only under  *)
(* mClientCallbackMutex, it caches only the service's real answer, a dead *)
(* power HAL handle is used at most once, and no call is made once        *)
(* "unsupported" is cached.                                               *)
(***************************************************************************)
EXTENDS Fingerprint, SequenceTheorems, TLAPS

USE ConstAssumption, SentinelAssumption

\* N is the length of kModules and every entry's fod is a Boolean.
LEMMA ModulesFacts ==
    /\ N \in Nat
    /\ \A i \in 1..N : kModules[i].fod \in BOOLEAN
<1>1. N \in Nat
    BY ModulesAssumption, LenProperties DEF N
<1>2. ASSUME NEW i \in 1..N PROVE kModules[i].fod \in BOOLEAN
    <2>1. kModules[i] \in [class_name : STRING, fod : BOOLEAN]
        BY ModulesAssumption, ElementOfSeq DEF N
    <2>2. QED BY <2>1
<1>3. QED BY <1>1, <1>2

\* ErrorFilter always returns a member of the RequestStatus enumeration.
LEMMA ErrorFilterType == \A e : ErrorFilter(e) \in RequestStatus
    BY DEF ErrorFilter, RequestStatus

-----------------------------------------------------------------------------
(* Type correctness.                                                      *)

\* The sets the type invariant ranges over are expanded everywhere below.
USE DEF PCs, HostRets, RequestStatus, Msgs, NoMsg, Epochs
\* and so are the tuples of variables that UNCHANGED names.
USE DEF vars, ctorVars, propVars, notifyVars, cacheVars, svcVars

\* The flags stay Booleans: every assignment to one is TRUE, FALSE, a
\* module's fod entry, or the value of another flag.
LEMMA FlagsStep == TypeOK /\ [Next]_vars => FlagsTypeOK'
<1>1. TypeOK /\ CtorOpen => FlagsTypeOK'
    <2> SUFFICES ASSUME TypeOK, CtorOpen PROVE FlagsTypeOK'
        OBVIOUS
    <2>1. kModules[ctorIdx].fod \in BOOLEAN
        BY ModulesFacts DEF CtorOpen, TypeOK, StateTypeOK
    <2>2. CASE OpenOk(ctorIdx)
        BY <2>1, <2>2, Zenon DEF CtorOpen, OpenOk, TypeOK, FlagsTypeOK
    <2>3. CASE OpenUnopened(ctorIdx) \/ OpenRejected(ctorIdx)
        BY <2>3, Zenon DEF CtorOpen, OpenUnopened, OpenRejected, TypeOK, FlagsTypeOK
    <2>4. QED
        BY <2>2, <2>3 DEF CtorOpen
<1>2. FlagsTypeOK /\ CtorFinish => FlagsTypeOK'
    BY Zenon DEF CtorFinish, FlagsTypeOK
<1>3. ASSUME NEW t \in DriverThreads
      PROVE FlagsTypeOK /\ IsBoostHintSupported(t) => FlagsTypeOK'
    BY Zenon DEF IsBoostHintSupported, CallOn, RecordSupport, QueryFailed, FlagsTypeOK
<1>4. FlagsTypeOK /\ ServiceRestart => FlagsTypeOK'
    BY Zenon DEF ServiceRestart, FlagsTypeOK
<1>5. ASSUME NEW cb \in Callbacks PROVE FlagsTypeOK /\ SetNotify(cb) => FlagsTypeOK'
    BY Zenon DEF SetNotify, FlagsTypeOK
<1>6. ASSUME NEW op, NEW rc PROVE FlagsTypeOK /\ HostForward(op, rc) => FlagsTypeOK'
    BY Zenon DEF HostForward, Crash, Reply, FlagsTypeOK
<1>7. ASSUME NEW op PROVE FlagsTypeOK /\ HostRaw(op) => FlagsTypeOK'
    BY Zenon DEF HostRaw, Crash, Reply, FlagsTypeOK
<1>8. ASSUME NEW p, NEW rc PROVE FlagsTypeOK /\ SetActiveGroup(p, rc) => FlagsTypeOK'
    BY Zenon DEF SetActiveGroup, Crash, Reply, FlagsTypeOK
<1>9. ASSUME NEW t, NEW m PROVE FlagsTypeOK /\ NotifyCall(t, m) => FlagsTypeOK'
    BY Zenon DEF NotifyCall, FlagsTypeOK
<1>10. ASSUME NEW t PROVE FlagsTypeOK /\ NotifyDispatch(t) => FlagsTypeOK'
    BY Zenon DEF NotifyDispatch, Crash, Return, FlagsTypeOK
<1>11. ASSUME NEW t PROVE FlagsTypeOK /\ SendPowerHalExtBoost(t) => FlagsTypeOK'
    BY Zenon DEF SendPowerHalExtBoost, CallOn, Return, FlagsTypeOK
<1>12. FlagsTypeOK /\ PowerHalCrash => FlagsTypeOK'
    BY Zenon DEF PowerHalCrash, FlagsTypeOK
<1>13. FlagsTypeOK /\ PowerHalRestart => FlagsTypeOK'
    BY Zenon DEF PowerHalRestart, FlagsTypeOK
<1>14. FlagsTypeOK /\ UNCHANGED vars => FlagsTypeOK'
    BY Zenon DEF FlagsTypeOK
<1>15. QED
    BY <1>1, <1>2, <1>3, <1>4, <1>5, <1>6, <1>7, <1>8, <1>9, <1>10, <1>11,
       <1>12, <1>13, <1>14 DEF Next, TypeOK

\* Every other variable stays in its type.
\* A call on the current handle keeps the cache's counters in their types.
LEMMA CallOnType ==
    ASSUME StateTypeOK, CallOn(Handle)
    PROVE  /\ conn' \in {0} \cup Epochs
           /\ svcCalls' \in Nat
           /\ staleCalls' \in [Epochs -> Nat]
<1>1. Handle \in Epochs
    BY DEF Handle, StateTypeOK
<1>2. QED
    BY <1>1 DEF CallOn, StateTypeOK

\* Leaving or continuing the hint path keeps the notify state in its type.
LEMMA HintNextType ==
    ASSUME StateTypeOK, NEW t \in DriverThreads, NEW go \in BOOLEAN, HintNext(t, go)
    PROVE  /\ pc' \in [DriverThreads -> PCs]
           /\ msg' \in [DriverThreads -> Msgs \cup {NoMsg}]
           /\ lockHolder' \in DriverThreads \cup {NoThread}
<1>1. CASE go
    BY <1>1 DEF HintNext, StateTypeOK
<1>2. CASE ~go
    BY <1>2 DEF HintNext, Return, StateTypeOK
<1>3. QED
    BY <1>1, <1>2

LEMMA StateStep == TypeOK /\ [Next]_vars => StateTypeOK'
<1>1. StateTypeOK /\ CtorOpen => StateTypeOK'
    <2> SUFFICES ASSUME StateTypeOK, CtorOpen PROVE StateTypeOK'
        OBVIOUS
    <2>1. ctorIdx \in 1..N /\ N \in Nat
        BY ModulesFacts DEF CtorOpen, StateTypeOK
    <2>2. CASE OpenOk(ctorIdx)
        BY <2>1, <2>2 DEF CtorOpen, OpenOk, StateTypeOK
    <2>3. CASE OpenUnopened(ctorIdx)
        BY <2>1, <2>3 DEF CtorOpen, OpenUnopened, StateTypeOK
    <2>4. CASE OpenRejected(ctorIdx)
        BY <2>1, <2>4 DEF CtorOpen, OpenRejected, StateTypeOK
    <2>5. QED
        BY <2>2, <2>3, <2>4 DEF CtorOpen
<1>2. StateTypeOK /\ CtorFinish => StateTypeOK'
    BY ModulesFacts DEF CtorFinish, StateTypeOK
<1>3. ASSUME NEW cb \in Callbacks
      PROVE StateTypeOK /\ SetNotify(cb) => StateTypeOK'
    BY DEF SetNotify, CanLock, StateTypeOK
<1>4. ASSUME NEW op \in ForwardOps, NEW rc \in RetCodes
      PROVE StateTypeOK /\ HostForward(op, rc) => StateTypeOK'
    BY ErrorFilterType DEF HostForward, Crash, Reply, StateTypeOK
<1>5. ASSUME NEW op \in RawOps
      PROVE StateTypeOK /\ HostRaw(op) => StateTypeOK'
    BY DEF HostRaw, Crash, Reply, StateTypeOK
<1>6. ASSUME NEW p \in StorePaths, NEW rc \in RetCodes
      PROVE StateTypeOK /\ SetActiveGroup(p, rc) => StateTypeOK'
    BY ErrorFilterType DEF SetActiveGroup, Crash, Reply, StateTypeOK
<1>7. ASSUME NEW t \in DriverThreads, NEW m \in Msgs
      PROVE StateTypeOK /\ NotifyCall(t, m) => StateTypeOK'
    BY DEF NotifyCall, StateTypeOK
<1>8. ASSUME NEW t \in DriverThreads
      PROVE StateTypeOK /\ NotifyDispatch(t) => StateTypeOK'
    BY DEF NotifyDispatch, CanLock, Crash, Return, StateTypeOK
<1>9. ASSUME NEW t \in DriverThreads
      PROVE StateTypeOK /\ FlagsTypeOK /\ IsBoostHintSupported(t) => StateTypeOK'
    <2> SUFFICES ASSUME StateTypeOK, FlagsTypeOK, IsBoostHintSupported(t)
                 PROVE StateTypeOK'
        OBVIOUS
    <2>1. \E go \in BOOLEAN : HintNext(t, go)
        BY Zenon DEF IsBoostHintSupported, RecordSupport, QueryFailed, FlagsTypeOK
    <2>2. UNCHANGED cacheVars \/ CallOn(Handle)
        BY Zenon DEF IsBoostHintSupported
    <2>3. QED
        BY <2>1, <2>2, HintNextType, CallOnType DEF IsBoostHintSupported, StateTypeOK
<1>10. ASSUME NEW t \in DriverThreads
      PROVE StateTypeOK /\ SendPowerHalExtBoost(t) => StateTypeOK'
    <2> SUFFICES ASSUME StateTypeOK, SendPowerHalExtBoost(t) PROVE StateTypeOK'
        OBVIOUS
    <2>1. UNCHANGED cacheVars \/ CallOn(Handle)
        BY Zenon DEF SendPowerHalExtBoost
    <2>2. QED
        BY <2>1, CallOnType DEF SendPowerHalExtBoost, Return, StateTypeOK
<1>11. StateTypeOK /\ PowerHalCrash => StateTypeOK'
    BY DEF PowerHalCrash, StateTypeOK
<1>12. StateTypeOK /\ PowerHalRestart => StateTypeOK'
    BY DEF PowerHalRestart, StateTypeOK
<1>13. StateTypeOK /\ ServiceRestart => StateTypeOK'
    BY ModulesFacts DEF ServiceRestart, StateTypeOK
<1>14. StateTypeOK /\ UNCHANGED vars => StateTypeOK'
    BY DEF StateTypeOK
<1>15. QED
    BY <1>1, <1>2, <1>3, <1>4, <1>5, <1>6, <1>7, <1>8, <1>9, <1>10, <1>11,
       <1>12, <1>13, <1>14 DEF Next, TypeOK

\* Every step of the model keeps every variable in its type.
THEOREM TypeCorrect == Spec => []TypeOK
<1>1. Init => FlagsTypeOK
    BY Zenon DEF Init, BridgeInit, FlagsTypeOK
<1>2. Init => StateTypeOK
    BY ModulesFacts DEF Init, BridgeInit, StateTypeOK
<1>3. QED
    BY <1>1, <1>2, FlagsStep, StateStep, PTL DEF Spec, TypeOK

-----------------------------------------------------------------------------
(* The inductive invariant.  CacheHeldUnderLock alone is not inductive: a *)
(* thread could release a lock another thread's pc says it holds.  The    *)
(* lock is held exactly by the one thread inside the hint path.           *)
(* StaleHandleUsedOnce needs to know that a handle already used dead is   *)
(* no longer mPowerHalExtAidl and stays dead, which in turn needs the     *)
(* stored handle to be no newer than the power HAL's current epoch.        *)
(* A thread that reached sendPowerHalExtBoost saw "supported" in a cache   *)
(* that stays so until the service restarts.                              *)

LockInv ==
    \A t \in DriverThreads : (pc[t] \in {"check", "send"}) <=> (lockHolder = t)

ConnInv == conn <= svcEpoch

StaleInv ==
    \A e \in Epochs :
        staleCalls[e] # 0 => /\ staleCalls[e] = 1
                             /\ ~Live(e)
                             /\ conn # e
                             /\ e <= svcEpoch

SendInv == \A t \in DriverThreads : pc[t] = "send" => checked /\ supported

IInv == TypeOK /\ LockInv /\ BoostCacheFaithful /\ StaleInv /\ ConnInv /\ SendInv

\* Return(t), taken by the thread that holds the lock or with the lock free,
\* keeps the lock held exactly by the thread in the hint path.
LEMMA ReturnLock ==
    ASSUME TypeOK, LockInv, NEW t \in DriverThreads,
           lockHolder \in {t, NoThread}, Return(t)
    PROVE  LockInv'
    BY SentinelAssumption DEF Return, LockInv, TypeOK, StateTypeOK

\* The hint path continued or left by the lock holder.
LEMMA HintNextLock ==
    ASSUME TypeOK, LockInv, NEW t \in DriverThreads, lockHolder = t,
           NEW go \in BOOLEAN, HintNext(t, go)
    PROVE  LockInv'
<1>1. CASE go
    BY <1>1, SentinelAssumption DEF HintNext, LockInv, TypeOK, StateTypeOK
<1>2. CASE ~go
    BY <1>2, ReturnLock DEF HintNext
<1>3. QED
    BY <1>1, <1>2

LEMMA LockStep == IInv /\ [Next]_vars => LockInv'
<1> SUFFICES ASSUME IInv, [Next]_vars PROVE LockInv'
    OBVIOUS
<1>1. CASE \E t \in DriverThreads : NotifyDispatch(t)
    <2>1. PICK t \in DriverThreads : NotifyDispatch(t)
        BY <1>1
    <2>2. CASE ~sInstance
        BY <2>1, <2>2 DEF NotifyDispatch, Crash, IInv, LockInv
    <2>3. CASE sInstance /\ pc' = [pc EXCEPT ![t] = "check"] /\ lockHolder' = t
        BY <2>1, <2>3, SentinelAssumption
           DEF NotifyDispatch, CanLock, IInv, LockInv, TypeOK, StateTypeOK
    <2>4. CASE sInstance /\ Return(t)
        BY <2>1, <2>4, ReturnLock DEF NotifyDispatch, CanLock, IInv
    <2>5. QED
        BY <2>1, <2>2, <2>3, <2>4, Zenon DEF NotifyDispatch
<1>2. CASE \E t \in DriverThreads : IsBoostHintSupported(t)
    <2>1. PICK t \in DriverThreads : IsBoostHintSupported(t)
        BY <1>2
    <2>2. \E go \in BOOLEAN : HintNext(t, go)
        BY <2>1, Zenon DEF IsBoostHintSupported, RecordSupport, QueryFailed,
                          IInv, TypeOK, FlagsTypeOK
    <2>3. lockHolder = t
        BY <2>1 DEF IsBoostHintSupported, IInv, LockInv
    <2>4. QED
        BY <2>2, <2>3, HintNextLock DEF IInv
<1>3. CASE \E t \in DriverThreads : SendPowerHalExtBoost(t)
    <2>1. PICK t \in DriverThreads : SendPowerHalExtBoost(t)
        BY <1>3
    <2>2. lockHolder = t
        BY <2>1 DEF SendPowerHalExtBoost, IInv, LockInv
    <2>3. QED
        BY <2>1, <2>2, ReturnLock DEF SendPowerHalExtBoost, IInv
<1>4. CASE \E t \in DriverThreads, m \in Msgs : NotifyCall(t, m)
    BY <1>4 DEF NotifyCall, IInv, LockInv, TypeOK, StateTypeOK
<1>5. CASE ServiceRestart
    BY <1>5, SentinelAssumption DEF ServiceRestart, LockInv
<1>6. CASE \/ CtorOpen \/ CtorFinish \/ PowerHalCrash \/ PowerHalRestart
           \/ \E cb \in Callbacks : SetNotify(cb)
           \/ \E op \in ForwardOps, rc \in RetCodes : HostForward(op, rc)
           \/ \E op \in RawOps : HostRaw(op)
           \/ \E p \in StorePaths, rc \in RetCodes : SetActiveGroup(p, rc)
           \/ UNCHANGED vars
    <2>1. UNCHANGED <<pc, lockHolder>>
        BY <1>6, Zenon DEF CtorOpen, CtorFinish, PowerHalCrash, PowerHalRestart,
                           SetNotify, HostForward, HostRaw, SetActiveGroup, Crash, Reply
    <2>2. QED
        BY <2>1 DEF IInv, LockInv
<1>7. QED
    BY <1>1, <1>2, <1>3, <1>4, <1>5, <1>6, Zenon DEF Next

\* The actions that touch neither the notify threads nor the hint cache.
Quiet ==
    \/ CtorOpen \/ CtorFinish \/ PowerHalCrash \/ PowerHalRestart
    \/ \E cb \in Callbacks : SetNotify(cb)
    \/ \E op \in ForwardOps, rc \in RetCodes : HostForward(op, rc)
    \/ \E op \in RawOps : HostRaw(op)
    \/ \E p \in StorePaths, rc \in RetCodes : SetActiveGroup(p, rc)
    \/ UNCHANGED vars

LEMMA QuietFrame == Quiet => UNCHANGED <<pc, lockHolder, checked, supported>>
    BY Zenon DEF Quiet, CtorOpen, CtorFinish, PowerHalCrash, PowerHalRestart,
                 SetNotify, HostForward, HostRaw, SetActiveGroup, Crash, Reply

LEMMA NextSplit ==
    [Next]_vars <=> \/ Quiet \/ ServiceRestart
                    \/ \E t \in DriverThreads :
                          \/ \E m \in Msgs : NotifyCall(t, m)
                          \/ NotifyDispatch(t)
                          \/ IsBoostHintSupported(t)
                          \/ SendPowerHalExtBoost(t)
    BY Zenon DEF Next, Quiet

\* Only an answer of the service is cached, and a thread reaches
\* sendPowerHalExtBoost only with "supported" cached.
LEMMA CacheStep == IInv /\ [Next]_vars => BoostCacheFaithful' /\ SendInv'
<1> SUFFICES ASSUME IInv, [Next]_vars PROVE BoostCacheFaithful' /\ SendInv'
    OBVIOUS
<1>1. CASE Quiet
    BY <1>1, QuietFrame DEF IInv, BoostCacheFaithful, SendInv
<1>2. CASE ServiceRestart
    BY <1>2 DEF ServiceRestart, BoostCacheFaithful, SendInv
<1>3. ASSUME NEW t \in DriverThreads, NEW m \in Msgs, NotifyCall(t, m)
      PROVE  BoostCacheFaithful' /\ SendInv'
    BY <1>3 DEF NotifyCall, IInv, BoostCacheFaithful, SendInv, TypeOK, StateTypeOK
<1>4. ASSUME NEW t \in DriverThreads, NotifyDispatch(t)
      PROVE  BoostCacheFaithful' /\ SendInv'
    BY <1>4 DEF NotifyDispatch, Crash, Return, IInv, BoostCacheFaithful, SendInv,
                TypeOK, StateTypeOK
<1>5. ASSUME NEW t \in DriverThreads, SendPowerHalExtBoost(t)
      PROVE  BoostCacheFaithful' /\ SendInv'
    BY <1>5 DEF SendPowerHalExtBoost, Return, IInv, BoostCacheFaithful, SendInv,
                TypeOK, StateTypeOK
<1>6. ASSUME NEW t \in DriverThreads, IsBoostHintSupported(t)
      PROVE  BoostCacheFaithful' /\ SendInv'
    <2>1. \A s \in DriverThreads \ {t} : pc[s] # "send"
        BY <1>6 DEF IsBoostHintSupported, IInv, LockInv
    <2>2. CASE CacheValid /\ HintNext(t, supported) /\ UNCHANGED cacheVars
        BY <2>1, <2>2 DEF HintNext, Return, CacheValid, IInv, BoostCacheFaithful,
                          SendInv, TypeOK, StateTypeOK
    <2>3. CASE HintNext(t, FALSE) /\ UNCHANGED <<checked, supported>>
        BY <2>1, <2>3 DEF HintNext, Return, IInv, BoostCacheFaithful, SendInv,
                          TypeOK, StateTypeOK
    <2>4. CASE RecordSupport(t)
        BY <2>1, <2>4 DEF RecordSupport, HintNext, Return, IInv, BoostCacheFaithful,
                          SendInv, TypeOK, StateTypeOK
    <2>5. QED
        BY <1>6, <2>2, <2>3, <2>4, Zenon DEF IsBoostHintSupported, QueryFailed
<1>7. QED
    BY <1>1, <1>2, <1>3, <1>4, <1>5, <1>6, NextSplit

\* A call on the current handle: a live one is stored, a dead one is the
\* stored handle itself (a fresh lookup only happens while the service is
\* up), used for the first time since it died, and dropped.
LEMMA CallOnStale ==
    ASSUME IInv, Connected, CallOn(Handle), UNCHANGED svcVars
    PROVE  StaleInv' /\ ConnInv'
<1> USE DEF IInv, TypeOK, StateTypeOK
<1>1. CASE Live(Handle)
    BY <1>1 DEF CallOn, Live, Handle, StaleInv, ConnInv
<1>2. CASE ~Live(Handle)
    <2>1. conn # 0
        BY <1>2 DEF Connected, Handle, Live
    <2>2. Handle = conn /\ staleCalls[conn] = 0
        BY <2>1 DEF Handle, StaleInv
    <2>3. QED
        BY <1>2, <2>1, <2>2 DEF CallOn, Live, StaleInv, ConnInv
<1>3. QED
    BY <1>1, <1>2

LEMMA StaleStep == IInv /\ [Next]_vars => StaleInv' /\ ConnInv'
<1> SUFFICES ASSUME IInv, [Next]_vars PROVE StaleInv' /\ ConnInv'
    OBVIOUS
<1>1. CASE \/ CtorOpen \/ CtorFinish
           \/ \E cb \in Callbacks : SetNotify(cb)
           \/ \E op \in ForwardOps, rc \in RetCodes : HostForward(op, rc)
           \/ \E op \in RawOps : HostRaw(op)
           \/ \E p \in StorePaths, rc \in RetCodes : SetActiveGroup(p, rc)
           \/ \E t \in DriverThreads :
                 \/ \E m \in Msgs : NotifyCall(t, m)
                 \/ NotifyDispatch(t)
           \/ UNCHANGED vars
    <2>1. UNCHANGED <<conn, staleCalls, svcAlive, svcEpoch>>
        BY <1>1, Zenon DEF CtorOpen, CtorFinish, SetNotify, HostForward, HostRaw,
                           SetActiveGroup, Crash, Reply, NotifyCall, NotifyDispatch,
                           Return
    <2>2. QED
        BY <2>1 DEF IInv, StaleInv, ConnInv, Live
<1>2. CASE ServiceRestart
    BY <1>2 DEF ServiceRestart, IInv, StaleInv, ConnInv, Live, TypeOK, StateTypeOK
<1>3. CASE PowerHalCrash
    BY <1>3 DEF PowerHalCrash, IInv, StaleInv, ConnInv, Live
<1>4. CASE PowerHalRestart
    BY <1>4 DEF PowerHalRestart, IInv, StaleInv, ConnInv, Live, TypeOK, StateTypeOK
<1>5. ASSUME NEW t \in DriverThreads, IsBoostHintSupported(t)
      PROVE  StaleInv' /\ ConnInv'
    <2>1. CASE UNCHANGED cacheVars
        BY <1>5, <2>1 DEF IsBoostHintSupported, IInv, StaleInv, ConnInv, Live
    <2>2. CASE Connected /\ CallOn(Handle)
        BY <1>5, <2>2, CallOnStale DEF IsBoostHintSupported
    <2>3. QED
        BY <1>5, <2>1, <2>2, Zenon DEF IsBoostHintSupported
<1>6. ASSUME NEW t \in DriverThreads, SendPowerHalExtBoost(t)
      PROVE  StaleInv' /\ ConnInv'
    <2>1. CASE UNCHANGED cacheVars
        BY <1>6, <2>1 DEF SendPowerHalExtBoost, IInv, StaleInv, ConnInv, Live
    <2>2. CASE Connected /\ CallOn(Handle)
        BY <1>6, <2>2, CallOnStale DEF SendPowerHalExtBoost
    <2>3. QED
        BY <1>6, <2>1, <2>2, Zenon DEF SendPowerHalExtBoost
<1>7. QED
    BY <1>1, <1>2, <1>3, <1>4, <1>5, <1>6, Zenon DEF Next

LEMMA InitIInv == Init => IInv
<1> SUFFICES ASSUME Init PROVE IInv
    OBVIOUS
<1>1. TypeOK
    <2>1. FlagsTypeOK
        BY Zenon DEF Init, BridgeInit, FlagsTypeOK
    <2>2. StateTypeOK
        BY ModulesFacts DEF Init, BridgeInit, StateTypeOK
    <2>3. QED
        BY <2>1, <2>2 DEF TypeOK
<1>2. LockInv /\ SendInv
    BY SentinelAssumption DEF Init, BridgeInit, LockInv, SendInv
<1>3. BoostCacheFaithful
    BY DEF Init, BridgeInit, BoostCacheFaithful
<1>4. StaleInv /\ ConnInv
    BY DEF Init, BridgeInit, StaleInv, ConnInv
<1>5. QED
    BY <1>1, <1>2, <1>3, <1>4 DEF IInv

LEMMA IInvStep == IInv /\ [Next]_vars => IInv'
    BY FlagsStep, StateStep, LockStep, CacheStep, StaleStep DEF IInv, TypeOK

\* The strengthened invariant holds in every reachable state.
THEOREM IInvariant == Spec => []IInv
    BY InitIInv, IInvStep, PTL DEF Spec

\* notify reads and writes the power-hint cache only while holding
\* mClientCallbackMutex, whatever the number of driver threads.
THEOREM LockSafety == Spec => []CacheHeldUnderLock
<1>1. IInv => CacheHeldUnderLock
    BY DEF IInv, LockInv, CacheHeldUnderLock
<1>2. QED
    BY <1>1, IInvariant, PTL

\* isBoostHintSupported never caches an answer the power HAL did not give,
\* through any number of power HAL crashes and service restarts.
THEOREM CacheSafety == Spec => []BoostCacheFaithful
<1>1. IInv => BoostCacheFaithful
    BY DEF IInv
<1>2. QED
    BY <1>1, IInvariant, PTL

\* A dead power HAL handle is used for at most one binder call, for every
\* bound on power HAL restarts.
THEOREM StaleSafety == Spec => []StaleHandleUsedOnce
<1>1. IInv => StaleHandleUsedOnce
    BY DEF IInv, StaleInv, StaleHandleUsedOnce, TypeOK, StateTypeOK
<1>2. QED
    BY <1>1, IInvariant, PTL

\* Once "unsupported" is cached, no step of notify calls the power HAL: the
\* cache check comes first, and no thread is already past it with
\* "supported" in hand.
LEMMA QuietStep ==
    IInv /\ [Next]_vars => [checked /\ ~supported => svcCalls' = svcCalls]_vars
<1> SUFFICES ASSUME IInv, [Next]_vars, checked, ~supported
             PROVE  svcCalls' = svcCalls
    OBVIOUS
<1>1. ASSUME NEW t \in DriverThreads, IsBoostHintSupported(t)
      PROVE  svcCalls' = svcCalls
    BY <1>1, Zenon DEF IsBoostHintSupported, CacheValid
<1>2. ASSUME NEW t \in DriverThreads, SendPowerHalExtBoost(t)
      PROVE  FALSE
    BY <1>2 DEF SendPowerHalExtBoost, IInv, SendInv
<1>3. CASE ~\E t \in DriverThreads : IsBoostHintSupported(t) \/ SendPowerHalExtBoost(t)
    BY <1>3, Zenon DEF Next, vars, cacheVars, CtorOpen, CtorFinish, SetNotify,
                       HostForward, HostRaw, SetActiveGroup, Crash, Reply, NotifyCall,
                       NotifyDispatch, PowerHalCrash, PowerHalRestart, ServiceRestart
<1>4. QED
    BY <1>1, <1>2, <1>3

\* QuietOnceUnsupported holds for every value of the constants.
THEOREM QuietSafety == Spec => QuietOnceUnsupported
    BY IInvariant, QuietStep, PTL DEF Spec, QuietOnceUnsupported

-----------------------------------------------------------------------------
(* Adoption.  AdoptionConsistent speaks only of a finished constructor; to *)
(* be inductive it needs the same facts inside the loop, and that an       *)
(* adopted module ended the loop (ctorIdx = N + 1), so that no later        *)
(* iteration can clear mDevice under a registered notify.                  *)

CtorInv ==
    phase = "ctor" =>
        /\ notifyReg = (mDevice # 0)
        /\ mDevice # 0 => /\ mFod = kModules[mDevice].fod
                          /\ vendorProp = mDevice
                          /\ ctorIdx = N + 1

AdoptInv == CtorInv /\ AdoptionConsistent

\* What every step but the constructor's and the restart's leaves alone:
\* at most it kills the process.
AdoptFrame ==
    /\ UNCHANGED <<ctorIdx, mDevice, mFod, notifyReg, watcher, vendorProp>>
    /\ phase' \in {phase, "crashed"}

LEMMA AdoptFrameStep == AdoptInv /\ AdoptFrame => AdoptInv'
    BY DEF AdoptInv, AdoptFrame, CtorInv, AdoptionConsistent

LEMMA FrameActions ==
    ASSUME [Next]_vars, ~CtorOpen, ~CtorFinish, ~ServiceRestart
    PROVE  AdoptFrame
    BY Zenon DEF Next, vars, ctorVars, propVars, AdoptFrame, PowerHalCrash, PowerHalRestart,
                 SetNotify, HostForward, HostRaw, SetActiveGroup, Crash, Reply,
                 NotifyCall, NotifyDispatch, Return, IsBoostHintSupported, HintNext,
                 RecordSupport, QueryFailed, SendPowerHalExtBoost, CallOn

LEMMA AdoptStep == TypeOK /\ AdoptInv /\ [Next]_vars => AdoptInv'
<1>1. ASSUME TypeOK, AdoptInv, CtorOpen PROVE AdoptInv'
    <2>1. ctorIdx \in 1..N /\ N \in Nat
        BY <1>1, ModulesFacts DEF CtorOpen, TypeOK, StateTypeOK
    <2>2. CASE OpenOk(ctorIdx)
        <3>1. phase' = "ctor"
            BY <1>1 DEF CtorOpen
        <3>2. /\ mDevice' = ctorIdx /\ notifyReg' = TRUE /\ vendorProp' = ctorIdx
              /\ mFod' = kModules[ctorIdx].fod /\ ctorIdx' = N + 1
            BY <2>2 DEF OpenOk
        <3>3. ctorIdx # 0
            BY <2>1
        <3>4. QED
            BY <3>1, <3>2, <3>3, Zenon DEF AdoptInv, CtorInv, AdoptionConsistent
    <2>3. CASE OpenUnopened(ctorIdx)
        BY <1>1, <2>1, <2>3 DEF CtorOpen, OpenUnopened, AdoptInv, CtorInv, AdoptionConsistent
    <2>4. CASE OpenRejected(ctorIdx)
        BY <1>1, <2>1, <2>4 DEF CtorOpen, OpenRejected, AdoptInv, CtorInv, AdoptionConsistent
    <2>5. QED
        BY <1>1, <2>2, <2>3, <2>4 DEF CtorOpen
<1>2. ASSUME AdoptInv, CtorFinish PROVE AdoptInv'
    BY <1>2 DEF CtorFinish, AdoptInv, CtorInv, AdoptionConsistent
<1>3. ASSUME ServiceRestart PROVE AdoptInv'
    BY <1>3 DEF ServiceRestart, AdoptInv, CtorInv, AdoptionConsistent
<1>4. ASSUME AdoptInv, [Next]_vars, ~CtorOpen, ~CtorFinish, ~ServiceRestart PROVE AdoptInv'
    BY <1>4, FrameActions, AdoptFrameStep
<1>5. QED
    BY <1>1, <1>2, <1>3, <1>4

\* Once the constructor has finished, the bridge is registered with the
\* driver exactly when a module was adopted, and the FOD flag, the watcher
\* and persist.vendor.sys.fp.vendor describe that module: the loop breaks on
\* the first module openHal adopts, for every module table.
THEOREM AdoptionSafety == Spec => []AdoptionConsistent
<1>1. Init => AdoptInv
    BY DEF Init, BridgeInit, AdoptInv, CtorInv, AdoptionConsistent
<1>2. TypeOK /\ AdoptInv /\ [Next]_vars => AdoptInv'
    BY AdoptStep
<1>3. AdoptInv => AdoptionConsistent
    BY DEF AdoptInv
<1>4. QED
    BY <1>1, <1>2, <1>3, TypeCorrect, PTL DEF Spec

-----------------------------------------------------------------------------
(* Refinement: the code's hint path implements BoostHint.  Each step of   *)
(* notify maps to the abstract step of the same thread or to a stutter;   *)
(* the proof needs the invariant to know that a thread in the hint path    *)
(* holds the lock and that the cache, once set, holds the real answer.    *)

\* Continuing or leaving the hint path is the abstract Decide.
LEMMA HintNextDecide ==
    ASSUME TypeOK, NEW t \in DriverThreads, NEW go \in BOOLEAN, HintNext(t, go)
    PROVE  BH!Decide(t, go)
<1>1. CASE go
    BY <1>1 DEF HintNext, BH!Decide, HintStage, TypeOK, StateTypeOK
<1>2. CASE ~go
    <2>1. Return(t)
        BY <1>2, Zenon DEF HintNext
    <2>2. /\ HintStage' = [HintStage EXCEPT ![t] = "idle"]
          /\ lockHolder' = NoThread
        BY <2>1 DEF Return, HintStage, TypeOK, StateTypeOK
    <2>3. QED
        BY <1>2, <2>2 DEF BH!Decide
<1>3. QED
    BY <1>1, <1>2 DEF BH!Decide

\* A step that moves no thread into or out of the hint path, and leaves the
\* lock and the cache flags alone, is an abstract stutter.
LEMMA MapStutter ==
    ASSUME TypeOK,
           \A s \in DriverThreads : (pc'[s] \in {"check", "send"} \/ pc[s] \in {"check", "send"})
                                    => pc'[s] = pc[s],
           pc' \in [DriverThreads -> PCs],
           UNCHANGED <<lockHolder, checked, supported>>
    PROVE  UNCHANGED BH!vars
    BY DEF BH!vars, HintCache, HintStage, TypeOK, StateTypeOK

LEMMA InitRefined == Init => BH!Init
    BY DEF Init, BridgeInit, BH!Init, HintCache, HintStage

LEMMA StepRefined == IInv /\ IInv' /\ [Next]_vars => [BH!Next]_BH!vars
<1> SUFFICES ASSUME IInv, IInv', [Next]_vars PROVE [BH!Next]_BH!vars
    OBVIOUS
<1>1. CASE Quiet
    BY <1>1, QuietFrame, MapStutter DEF IInv, TypeOK, StateTypeOK
<1>2. CASE ServiceRestart
    <2>1. BH!Reset
        BY <1>2 DEF ServiceRestart, BH!Reset, HintCache, HintStage
    <2>2. QED
        BY <2>1 DEF BH!Next
<1>3. ASSUME NEW t \in DriverThreads, NEW m \in Msgs, NotifyCall(t, m)
      PROVE  [BH!Next]_BH!vars
    BY <1>3, MapStutter DEF NotifyCall, IInv, TypeOK, StateTypeOK
<1>4. ASSUME NEW t \in DriverThreads, NotifyDispatch(t)
      PROVE  [BH!Next]_BH!vars
    <2>1. CASE ~sInstance
        BY <1>4, <2>1, MapStutter DEF NotifyDispatch, Crash, IInv, TypeOK, StateTypeOK
    <2>2. CASE sInstance /\ pc' = [pc EXCEPT ![t] = "check"] /\ lockHolder' = t
        <3>1. BH!Acquire(t)
            BY <1>4, <2>2 DEF NotifyDispatch, CanLock, BH!Acquire, HintCache, HintStage,
                              IInv, TypeOK, StateTypeOK
        <3>2. QED
            BY <3>1 DEF BH!Next
    <2>3. CASE sInstance /\ Return(t)
        BY <1>4, <2>3, MapStutter DEF NotifyDispatch, CanLock, Return, IInv, TypeOK,
                                      StateTypeOK
    <2>4. QED
        BY <1>4, <2>1, <2>2, <2>3, Zenon DEF NotifyDispatch
<1>5. ASSUME NEW t \in DriverThreads, SendPowerHalExtBoost(t)
      PROVE  [BH!Next]_BH!vars
    <2>1. BH!Decide(t, FALSE)
        BY <1>5, HintNextDecide DEF SendPowerHalExtBoost, HintNext, IInv
    <2>2. BH!Boost(t)
        BY <1>5, <2>1 DEF SendPowerHalExtBoost, CallOn, BH!Boost, BH!Decide, HintCache, HintStage
    <2>3. QED
        BY <2>2 DEF BH!Next
<1>6. ASSUME NEW t \in DriverThreads, IsBoostHintSupported(t)
      PROVE  [BH!Next]_BH!vars
    <2>1. HintStage[t] = "hint"
        BY <1>6 DEF IsBoostHintSupported, HintStage
    <2>2. CASE CacheValid /\ HintNext(t, supported) /\ UNCHANGED cacheVars
        <3>1. BH!Decide(t, supported)
            BY <2>2, HintNextDecide DEF IInv, TypeOK, FlagsTypeOK
        <3>2. BH!UseCache(t)
            BY <2>1, <2>2, <3>1 DEF BH!UseCache, BH!Decide, CacheValid, HintCache
        <3>3. QED
            BY <3>2 DEF BH!Next
    <2>3. CASE ~CacheValid /\ HintNext(t, FALSE) /\ UNCHANGED <<checked, supported>>
        <3>1. BH!Decide(t, FALSE)
            BY <2>3, HintNextDecide DEF IInv
        <3>2. BH!Ask(t)
            BY <2>1, <2>3, <3>1 DEF BH!Ask, BH!Decide, CacheValid, HintCache
        <3>3. QED
            BY <3>2 DEF BH!Next
    <2>4. CASE ~CacheValid /\ RecordSupport(t)
        <3>1. BH!Decide(t, BoostSupported)
            BY <2>4, HintNextDecide, ConstAssumption DEF RecordSupport, IInv
        <3>2. BH!Ask(t)
            BY <2>1, <2>4, <3>1, ConstAssumption
               DEF BH!Ask, BH!Decide, BH!Learned, RecordSupport, CacheValid, HintCache
        <3>3. QED
            BY <3>2 DEF BH!Next
    <2>5. QED
        BY <1>6, <2>2, <2>3, <2>4, Zenon DEF IsBoostHintSupported, QueryFailed
<1>7. QED
    BY <1>1, <1>2, <1>3, <1>4, <1>5, <1>6, NextSplit

\* The bridge implements the boost hint's contract, for every thread set and
\* every answer of the power HAL.
THEOREM Refinement == Spec => BoostHintRefined
<1>1. Spec => []IInv
    BY IInvariant
<1>2. QED
    BY <1>1, InitRefined, StepRefined, PTL DEF Spec, BoostHintRefined, BH!Spec

=============================================================================
