# TLA+ models of the raphael fingerprint HAL bridge

This directory models `src/fingerprint/BiometricsFingerprint.cpp`, the fingerprint HIDL
service for the Xiaomi raphael. The modules are checked with TLC on small
instances. The main safety properties are proved with TLAPS for every value of the
constants. `PROJECT.json` lists the components, the runs, the mutants and the map from each
definition to the source lines it translates. It also lists the findings, the hazards
and the theorems.

## The system

The service is one `BiometricsFingerprint` object. Its code runs on three kinds of thread:

* **Host threads** call the HIDL methods:
  * `setNotify`;
  * `enroll`, `postEnroll`, `cancel`, `enumerate`, `remove`, `authenticate`, `setActiveGroup`;
  * `preEnroll`, `getAuthenticatorId`, `extCmd`.

  Every one of them except `setNotify` dereferences `mDevice` without a null check.
  `setActiveGroup` validates its path first.
* **Driver callback threads** of the vendor library call the static `notify`. It takes
  `mClientCallbackMutex` and drops the message if no callback is registered. Otherwise it
  translates the message (`VendorErrorFilter`, `VendorAcquiredFilter`) and delivers it.
  For an accepted match whose delivery succeeded, it calls `sendAuthenticatedBoostHint`
  **while still holding the mutex**. That call uses a lazily connected power HAL extension
  (`mPowerHalExtAidl`) and a cache of whether the `LAUNCH` boost is supported
  (`mBoostHintSupportIsChecked`, `mBoostHintIsSupported`).
* **The FOD watcher thread** is started by the constructor when `mFod` is set. It opens
  the `fod_ui` sysfs attribute and loops forever on `poll(POLLPRI)`, `readBool` and
  `extCmd(COMMAND_NIT, FOD or NONE)`.

The constructor probes `kModules` in order and adopts the first module `openHal` opens.
It sets `sInstance` first and records the adopted module's FOD flag. It writes
`persist.vendor.sys.fp.vendor`, and if `mFod` is set it starts the watcher and sets
`ro.hardware.fp.fod`.

The environment is modelled where the code reacts to it:
* the power HAL crashes, and init restarts it with a new binder (an *epoch*);
* the fingerprint service itself dies (a null dereference) and init restarts it. The
  constructor then runs again, and the system properties survive;
* the display driver flips `fod_ui`.

### Inventory

| Component | Code | Module | Status |
|---|---|---|---|
| Constructor and `openHal` | lines 86–130, 408–449 | `Fingerprint` | modelled |
| Host request handlers | 333–406 | `Fingerprint` (+ `ErrorMaps`) | modelled |
| `notify` dispatch | 451–542 | `Fingerprint` | modelled |
| Power HAL connection and boost cache | 133–226 | `Fingerprint` | modelled |
| FOD watcher thread, `readBool` | 45–62, 104–127 | `FodWatcher`, `FingerprintService` | modelled, and composed with the bridge |
| `ErrorFilter`, `VendorErrorFilter`, `VendorAcquiredFilter` | 242–331 | `ErrorMaps`, `MC_ErrorMaps` | modelled, checked against a reference table |
| The process: bridge and watcher together | 86–130, 333–406 | `FingerprintService` | modelled |
| Contract of the boost hint path | 199–226 | `BoostHint` (abstract) | `Fingerprint` refines it |
| Destructor | 228–240 | — | not modelled |
| `init_xiaomi_raphael.cpp` | whole file | — | not modelled: constant tables handed to libinit, which is not in the repository |

## Modules

* **`ErrorMaps`** holds the three translation tables as operators. The legacy numeric
  codes (`FINGERPRINT_ERROR_*` 1..7, `FINGERPRINT_ACQUIRED_*` 0..5, vendor bases 1000) are
  those of libhardware's `fingerprint.h`.
* **`Fingerprint`** models the bridge and its environment.
  * State:
    * the constructor (`phase`, `ctorIdx`, `sInstance`, `mDevice`, `mFod`, `openDevs`,
      `notifyReg`, `watcher`) and the two system properties;
    * for each driver thread, its place in `notify` (`pc`) and its message type (`msg`);
    * `lockHolder`, the owner of `mClientCallbackMutex`;
    * the hint cache (`conn` is the epoch of `mPowerHalExtAidl`, 0 for null; `checked`;
      `supported`);
    * the power HAL (`svcAlive`, `svcEpoch`) and two counters: `svcCalls` (binder calls)
      and `staleCalls[e]` (calls made on epoch `e`'s handle after it died).
  * Actions:
    * `CtorOpen` is one iteration of the constructor loop. It has three outcomes: nothing
      opened, opened but rejected, and adopted (`OpenOk`, which breaks the loop).
    * `CtorFinish` starts the watcher when `mFod` is set.
    * The host operations are `SetNotify`, `HostForward`, `HostRaw` and `SetActiveGroup`.
      Each is a `Crash` when `mDevice` is null.
    * `NotifyCall` and `NotifyDispatch` are the entry to `notify` and its locked dispatch.
    * `IsBoostHintSupported` models `isBoostHintSupported` with
      `checkPowerHalExtBoostSupport` inlined.
    * `SendPowerHalExtBoost` ends `notify` and releases the lock.
    * The environment actions are `PowerHalCrash`, `PowerHalRestart` and `ServiceRestart`.
  * Data is abstracted:
    * a message is its type, plus whether delivery succeeded;
    * a driver return code comes from `RetCodes`;
    * a store path is one of "ok", "empty", "too_long" and "not_writable".
  * `mFod` starts as any Boolean because the member-initializer list does not set it.
* **`FodWatcher`** models the watcher thread and `fod_ui`.
  * State: `armed` (poll would return now); `wstate`; `val`, the parameter `readBool`
    produced; `nit`, the last `COMMAND_NIT` parameter the driver received; and the
    failure count.
  * `readFailed` is a history variable: whether the last `readBool` returned false on an
    error. The code keeps no such state. Only `WatcherWake` sets it, `FreshWatcher` clears
    it, and only `IdleWatcherInSync` reads it.
  * sysfs semantics: the first poll returns at once. A read disarms the event even when it
    fails, and a failed `lseek` leaves it armed.
* **`FingerprintService`** composes the bridge and the watcher in one process.
  * It `EXTENDS Fingerprint` and instantiates `FodWatcher` by name, so both share one
    state.
  * The watcher runs only while the process is up and the constructor started it
    (`Running`).
  * `ExtCmdEnter` is the watcher's `extCmd`:
    * with `mDevice` null it is a `Crash` of the whole process;
    * otherwise the thread is inside the vendor device (`wstate = "calling"`) until
      `ExtCmdLeave` delivers the parameter.
  * Host requests run meanwhile, since no lock is taken.
  * `ServiceRestart` is joined with `FreshWatcher`: the thread dies with the process, and
    the next constructor's watcher reopens `fod_ui`, so its first poll returns at once.
  * `HostRequests` switches the host off, which isolates crashes that need no request.
* **`BoostHint`** is the abstract contract of the boost hint path:
  * a thread takes the lock;
  * with nothing known it asks, and either learns the real answer or learns nothing;
  * with the answer known it uses it;
  * it boosts only on "yes", and releases the lock when the path ends;
  * a restart forgets everything.

  `Fingerprint` maps its state onto it:
  * `HintCache` comes from `checked` and `supported`;
  * `lockHolder` is the owner;
  * `HintStage` is "hint" at `pc = "check"` and "boost" at `pc = "send"`.

  The connection, the epochs and the binder failures are hidden by the mapping.
  `HintCache` and `HintStage` are views of the model's state for the refinement, not
  translations of code, so `PROJECT.json` does not map them to source lines.
* **`MC_ErrorMaps`** builds a reference for the three filters from the spec's mapping:
  * an exact match inside a table, and the fallback outside it;
  * the vendor band counted from its base.

  It checks the filters over every code from -115 to 12, the band 990–1010 and the
  int32 extremes.
* **`MC_Fingerprint`**, **`MC_FodWatcher`** and **`MC_FingerprintService`** instantiate the
  models for TLC.
* **`FingerprintProofs`**, **`FodWatcherProofs`**, **`ServiceProofs`** and
  **`ErrorMapsProofs`** hold the TLAPS proofs of the bridge, the watcher, the process and
  the tables.

## Runs

| Run | Expect | Shows |
|---|---|---|
| `fingerprint_main` | pass | 2 driver threads, modules `fpc` and `fpc_fod`, boost supported, one power HAL restart: `CacheHeldUnderLock`, `BoostCacheFaithful`, `StaleHandleUsedOnce`, `AdoptionConsistent`, `NotifyReturns` (177k states) |
| `fingerprint_unsupported` | pass | Same, with the power HAL answering "unsupported": `BoostCacheFaithful`, `QuietOnceUnsupported`, and `BoostHintRefined` (`Fingerprint` implements `BoostHint`) |
| `fingerprint_no_crash` | violation | `NoProcessCrash`: no module opens, then `authenticate` dereferences null |
| `fingerprint_rejected_closed` | violation | `RejectedDevicesClosed`: a module opened and rejected by version or `set_notify` is never closed |
| `fingerprint_watcher_fod` | violation | `WatcherOnlyWithFodDevice`: with no module, the uninitialised `mFod` starts the watcher |
| `fod_watcher` | pass | With `lseek` failures only: `TypeOK` and `OverlayEventuallyRelayed` (every overlay state that lasts is relayed) |
| `fod_watcher_sync` | pass | With `lseek` and `read` failures: `IdleWatcherInSync` (an idle watcher has told the driver the overlay state, or NONE right after a failed read; never FOD for a hidden overlay) |
| `fod_watcher_readfail` | violation | `OverlayEventuallyRelayed` fails: a failed `read` consumes the event and sends NONE |
| `error_maps` | pass | `TranslationMatchesSpec`: the three filters agree with the reference on every boundary |
| `service_main` | pass | With `lseek` failures only: `WatcherInSync` (the idle watcher's device knows the overlay state across restarts) and `AdoptedDeviceLearnsOverlay` (an adopted FOD device is eventually told the overlay state) (107k states) |
| `service_device_shared` | violation | `DeviceCallsSerialized`: a host request enters the vendor device while the watcher is inside `extCmd` |
| `service_boot_crash` | violation | `NoProcessCrash` with the host switched off: the watcher alone kills the service at boot |

Each property of a passing run has a mutant in `PROJECT.json`: a plausible bug in the
mapped code that TLC then catches. The mutants are:
* the mutex not taken;
* a failed query cached as unsupported;
* the handle kept after `EX_TRANSACTION_FAILED`;
* the loop not breaking;
* the lock kept on an early return;
* the `isSupported` answer ignored;
* the cache trusted only when it says supported;
* `extCmd` with its arguments swapped;
* `readBool` inverted;
* the vendor band starting one past its base;
* a restarted watcher inheriting the dead one's disarmed poll;
* the mutex not taken, this time against the refinement.

### Bounds

Two driver threads are enough for every interleaving of two `notify` calls around the
lock. Three notify calls (`MaxNotify`) allow a second accepted match after a first one,
with a restart between them. Two modules cover every combination of the three open
outcomes with and without FOD. One power HAL restart (`MaxRestarts`) gives a dead epoch
and a live one, which is what a stale handle needs. Service restarts are bounded by the
notify budget and the crash path.

The FOD watcher allows up to 4 failed reads (`MaxReadFails`), so a failure can happen
between every two overlay changes.

The composed service runs use:
* one driver thread;
* one notify call;
* no power HAL restart;
* one `lseek` failure.

The watcher's interaction with the bridge is through `mDevice` and the process's life,
not through `notify`, so these bounds keep every constructor outcome, crash and restart.
The state space stays at 107k states.

The liveness properties are checked with `lseek` failures only, because a failed `read`
breaks them (the `fod_watcher_readfail` finding). `IdleWatcherInSync` is checked with
both kinds of failure in `fod_watcher_sync`. For the composed process, `ServiceSync`
proves `WatcherInSync` under both kinds. Before that proof, TLC checked its
strengthening on the service instance with a `read` failure allowed (120k states).

The reference run of `ErrorMaps` covers:
* every legacy code and its neighbours;
* the Linux errnos up to `ETIMEDOUT`;
* both sides of the vendor base;
* the int32 extremes, where a negation or an offset could overflow.

### Fairness

The constructor runs to completion, so it has weak fairness. init restarts a dead
service, so `ServiceRestart` has weak fairness too.

A driver thread waiting in `notify` gets strong fairness for taking the mutex: a
`std::mutex` is free infinitely often under contention, and the kernel's scheduler does
not starve a waiter forever. Once a thread holds the lock, its two hint steps get weak
fairness, because each binder call returns either an answer or `EX_TRANSACTION_FAILED`.

The watcher's steps get weak fairness: poll returns when the event is armed. The host and
the power HAL get no fairness, since they may stay idle.

In `FingerprintService` the watcher thread's steps have weak fairness:
* `WatcherStep`, `ExtCmdEnter` and `ExtCmdLeave`;
* the overlay may change at any time but need not.

A detached `std::thread` is scheduled by the kernel like any other, and `extCmd` into the
driver returns.

`BoostHint` has no fairness: the refinement is a safety property.

## Proofs (checked by `tlapm`)

### The bridge (`FingerprintProofs`)

* `TypeCorrect`: `Spec => []TypeOK`. `TypeOK` is split into the Boolean flags, proved
  with Zenon, and the rest, proved with SMT. Each action has its own step.
* `IInvariant`: `Spec => []IInv`, where `IInv` is `TypeOK` together with five conjuncts:
  * `LockInv`: the mutex is held exactly by the thread in the hint path (`pc` is "check"
    or "send");
  * `BoostCacheFaithful`;
  * `StaleInv`: an epoch whose handle was used after its death has been used exactly
    once, stays dead, is no longer `mPowerHalExtAidl`, and is no newer than the power HAL;
  * `ConnInv`: the stored handle is no newer than the current epoch;
  * `SendInv`: a thread in `sendPowerHalExtBoost` found "supported" cached.

  None of the properties is inductive alone:
  * `CacheHeldUnderLock` needs `LockInv`, because a thread could otherwise release a lock
    another thread's `pc` says it holds;
  * `StaleHandleUsedOnce` needs `StaleInv` and `ConnInv`: the key step is that a dead
    handle is always the stored one, because a fresh lookup only happens while the
    service is up, and that storing it again is impossible;
  * `QuietOnceUnsupported` needs `SendInv`.

  TLC checked `IInv` as an invariant of both passing configurations before it was proved.
* `AdoptionSafety`: `Spec => []AdoptionConsistent`. The invariant speaks only of a
  finished constructor, so the proof strengthens it with `CtorInv`, which holds during the
  loop:
  * `notifyReg` is set exactly when a module is adopted;
  * an adopted module's FOD flag and vendor property are recorded;
  * an adoption ended the loop (`ctorIdx = N + 1`).

  The last conjunct is what the mutant that keeps looping breaks. Every other action
  leaves the constructor's state alone or kills the process (`AdoptFrame`).
* `Refinement`: `Spec => BoostHintRefined`, that is, `Fingerprint` implements `BoostHint`
  under the mapping above. The proof is the usual one:
  * the initial states map to initial states (`InitRefined`);
  * under `IInv` on both sides, every step maps to a step or a stutter (`StepRefined`):
    * `NotifyDispatch` taking the lock is `Acquire`;
    * `IsBoostHintSupported` is `UseCache` with the cache valid, and `Ask` otherwise;
      `Ask` learns nothing on a failed query, and the real answer on `RecordSupport`;
    * `SendPowerHalExtBoost` is `Boost`;
    * `ServiceRestart` is `Reset`;
    * everything else stutters (`MapStutter`).
  * `IInv` is needed because `Acquire` asks that the lock be free and the thread idle.
* `LockSafety`, `CacheSafety`, `StaleSafety` and `QuietSafety` derive `CacheHeldUnderLock`,
  `BoostCacheFaithful`, `StaleHandleUsedOnce` and the action property `QuietOnceUnsupported`
  from it. They hold for any number of threads and modules and any restart bound.

The assumptions used are `ModulesAssumption`, `SentinelAssumption` and `ConstAssumption`,
all in `Fingerprint`.

### The watcher (`FodWatcherProofs`)

* `WatcherTypeCorrect`: `Spec => []TypeOK`, for every failure bound.
* `IdleSync`: `Spec => []IdleWatcherInSync`, with no hypothesis: for every failure bound
  and every mix of `lseek` and `read` failures.
  * `IdleWatcherInSync` says that a watcher back in `poll` with no pending notification
    has told the driver one of two things:
    * the overlay's current state;
    * or NONE, right after a failed read (`readFailed`).

    So the driver is never left with FOD for a hidden overlay. A shown overlay goes
    unrelayed only after a failed read, which is the `fod_watcher_readfail` finding.
  * It is not inductive alone. `SyncInv` adds two facts:
    * a watcher still opening `fod_ui` is armed, because the first poll returns at once;
    * while the watcher is "sending" with no pending notification, `val` is the current
      state or a failed read's NONE (`Relayable`).
  * TLC checked `SyncInv` as an invariant of the `fod_watcher_sync` instance before the
    proof.

### The process (`ServiceProofs`)

* `ServiceStepIsBridgeStep` shows that every step of `ServiceNext` is a bridge step or
  leaves the bridge's state alone:
  * the watcher's `extCmd` on a null device is the `Crash` of a host `extCmd`
    (`HostRaw("extCmd")`, which `Running` enables);
  * a restart is `ServiceRestart`;
  * every other watcher step leaves the bridge's variables unchanged.
* From that lemma, the bridge's invariant and refinement proofs carry over unchanged:
  * `ServiceBridgeInvariant` gives `IInv`, `CacheHeldUnderLock` and
    `StaleHandleUsedOnce` in the composition;
  * `ServiceAdoption` gives `AdoptionConsistent`;
  * `ServiceBoostHint` shows that the process implements `BoostHint`.
* `ServiceSync`: `ServiceSpec => []WatcherInSync`, with no hypothesis on failures,
  through any number of restarts.
  * Its strengthening `SvcSyncInv` is `SyncInv` with the device call split into
    "sending" and "calling".
  * A restart gives a fresh, armed watcher with no failed read.
  * TLC checked `SvcSyncInv` first, on the `service_main` instance with a `read` failure
    allowed.

### The tables (`ErrorMapsProofs`)

* `StatusCorrect`, `VendorErrorCorrect` and `VendorAcquiredCorrect` show that each filter
  equals its reference for every integer.
* The references pick a name by its code with `CHOOSE`. The proofs show that a listed
  code names exactly one entry:
  * `ErrnoNamesOne` for the errnos;
  * `ErrorNamed` and `AcquiredNamed` for the legacy codes;
  * the `*Unnamed` lemmas, that an unlisted code names none.
* `TranslationCorrect` derives `Spec => []TranslationMatchesSpec`. The run checks about
  160 codes; the theorem covers all of them.

### What only TLC checks

* The liveness properties `NotifyReturns`, `OverlayEventuallyRelayed` and
  `AdoptedDeviceLearnsOverlay`, because TLAPS does not handle fairness and ENABLED.
* Everything about the violation runs, which are counterexamples, not theorems.

## Findings

* **An inert bridge crashes the process.** The spec says it stays inert
  (`fingerprint_no_crash`).
* **`openHal` leaks rejected devices.** A device rejected after `module->open` stays open
  (`fingerprint_rejected_closed`).
* **`mFod` is read uninitialised.** With no module opened, its value can start the watcher
  and set `ro.hardware.fp.fod` (`fingerprint_watcher_fod`).
* **The watcher crashes the service at boot.** With no module and `mFod` reading true,
  the watcher's `extCmd` dereferences the null device with no host request at all, and
  again after every restart (`service_boot_crash`).
* **The vendor device is called from two threads.** The watcher's `extCmd` takes no lock,
  and a host request can enter the device while it runs. The spec says the callback is
  the only state needing synchronisation (`service_device_shared`).
* **A failed `read` of `fod_ui` leaves the driver told NONE.** This holds even while the
  overlay is shown (`fod_watcher_readfail`).
* **The spec's open question is answered by the code.** The spec asks whether the power
  HAL cache races. The cache is only touched inside `notify` with the mutex held, and
  `LockSafety` proves that for any number of driver threads.

## Plan for later work

1. The destructor, and the detached watcher's use of `this` after it. The service binary
   that would destroy the instance is not in this repository.
2. `init_xiaomi_raphael.cpp`: its `search_variant` lives in libinit, outside this
   repository.
