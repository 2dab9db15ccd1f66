-------------------------- MODULE FingerprintService --------------------------
(***************************************************************************)
(* The bridge and its FOD watcher thread in one process.  The constructor *)
(* starts the watcher when mFod is set; the watcher's extCmd dereferences  *)
(* mDevice like every host request, without the bridge's mutex and        *)
(* concurrently with the host's calls; when the process dies the thread   *)
(* dies with it, and the restarted constructor starts a fresh one, which  *)
(* reopens fod_ui.  The device keeps the last COMMAND_NIT it was given     *)
(* until it is closed with the process.                                    *)
(***************************************************************************)
EXTENDS Fingerprint

CONSTANTS
    ReadFailures, MaxReadFails,   \* as in FodWatcher
    HostRequests                  \* whether the host sends requests at all

ASSUME HostAssumption == HostRequests \in BOOLEAN

VARIABLES fodUi, armed, wstate, val, nit, fails, readFailed

W == INSTANCE FodWatcher

bridgeVars == vars
watchVars == <<fodUi, armed, wstate, val, nit, fails, readFailed>>
allVars == <<bridgeVars, watchVars>>

ServiceInit == Init /\ W!Init

\* The watcher thread runs while the process is up and it was started.
Running == phase = "up" /\ watcher

WatcherStep ==
    /\ Running
    /\ W!WatcherOpen \/ W!WatcherWake
    /\ UNCHANGED bridgeVars

\* extCmd(COMMAND_NIT, val): mDevice->extCmd(mDevice, ...), a null
\* dereference when no module was adopted; the call then runs inside the
\* vendor device ("calling") until it returns.
ExtCmdEnter ==
    /\ Running
    /\ wstate = "sending"
    /\ IF mDevice = 0
       THEN Crash /\ UNCHANGED watchVars
       ELSE /\ wstate' = "calling"
            /\ UNCHANGED <<fodUi, armed, val, nit, fails, readFailed>>
            /\ UNCHANGED bridgeVars

ExtCmdLeave ==
    /\ wstate = "calling"
    /\ nit' = val
    /\ wstate' = "polling"
    /\ UNCHANGED <<fodUi, armed, val, fails, readFailed>>
    /\ UNCHANGED bridgeVars

\* (mutant) the restarted watcher keeps the dead process's poll state.
FreshWatcherKeepsEvent ==
    /\ wstate' = "opening"
    /\ nit' = -1
    /\ val' = W!PARAM_NIT_NONE
    /\ readFailed' = FALSE
    /\ UNCHANGED <<fodUi, armed, fails>>

\* The process died: its watcher thread and its device are gone; the next
\* constructor's watcher opens fod_ui afresh, so its first poll returns at
\* once.  The failure budget is a bound of the model and is kept.
FreshWatcher ==
    /\ wstate' = "opening"
    /\ nit' = -1
    /\ val' = W!PARAM_NIT_NONE
    /\ armed' = TRUE
    /\ readFailed' = FALSE
    /\ UNCHANGED <<fodUi, fails>>

HostStep ==
    \/ \E cb \in Callbacks : SetNotify(cb)
    \/ \E op \in ForwardOps, rc \in RetCodes : HostForward(op, rc)
    \/ \E op \in RawOps : HostRaw(op)
    \/ \E p \in StorePaths, rc \in RetCodes : SetActiveGroup(p, rc)

BridgeStep ==
    \/ CtorOpen
    \/ CtorFinish
    \/ HostRequests /\ HostStep
    \/ \E t \in DriverThreads :
          \/ \E m \in Msgs : NotifyCall(t, m)
          \/ NotifyDispatch(t)
          \/ IsBoostHintSupported(t)
          \/ SendPowerHalExtBoost(t)
    \/ PowerHalCrash
    \/ PowerHalRestart

ServiceNext ==
    \/ BridgeStep /\ UNCHANGED watchVars
    \/ ServiceRestart /\ FreshWatcher
    \/ WatcherStep
    \/ ExtCmdEnter
    \/ ExtCmdLeave
    \/ W!OverlayChange /\ UNCHANGED bridgeVars

\* The bridge's fairness, and the watcher thread is scheduled whenever it
\* can run.
ServiceSpec ==
    /\ ServiceInit /\ [][ServiceNext]_allVars
    /\ Fairness
    /\ WF_allVars(WatcherStep)
    /\ WF_allVars(ExtCmdEnter)
    /\ WF_allVars(ExtCmdLeave)

-----------------------------------------------------------------------------
\* A host request that reaches the vendor device.
HostDeviceCall ==
    /\ mDevice # 0
    /\ \/ \E op \in ForwardOps, rc \in RetCodes : HostForward(op, rc)
       \/ \E op \in RawOps : HostRaw(op)
       \/ \E rc \in RetCodes : SetActiveGroup("ok", rc)

\* The spec: the callback reference is the only shared state that needs
\* synchronisation.  Then no host request may enter the vendor device while
\* the watcher thread is inside extCmd.
DeviceCallsSerialized ==
    [][~(wstate = "calling" /\ HostDeviceCall)]_allVars

\* Across service restarts and the watcher's unlocked extCmd, a watcher
\* idle in poll with no pending notification has told the device the
\* overlay's current state, or, after a failed read, NONE: the restarted
\* watcher polls at once.
WatcherInSync == W!IdleWatcherInSync

\* Whenever an adopted FOD device is up and the overlay stays in a state,
\* the device is eventually told that state, across service restarts.
AdoptedDeviceLearnsOverlay ==
    \A v \in BOOLEAN :
        (Running /\ mDevice # 0 /\ fodUi = v)
            ~> (fodUi # v \/ ~Running \/ wstate = "exited" \/ nit = W!Param(v))

=============================================================================
