------------------------------ MODULE FodWatcher ------------------------------
(***************************************************************************)
(* The FOD watcher thread of the BiometricsFingerprint constructor: it     *)
(* opens the fod_ui sysfs attribute, then loops forever on poll(POLLPRI),  *)
(* readBool(fd), extCmd(COMMAND_NIT, FOD or NONE).  The display driver     *)
(* flips the attribute and wakes poll through sysfs_notify.                *)
(*                                                                         *)
(* sysfs wake-up: the first poll after open returns at once; afterwards    *)
(* poll returns when the attribute was notified since the last read of the *)
(* file ("armed").  A read through the kernel's seq_show disarms it even   *)
(* when the show callback fails; a failed lseek reads nothing and leaves   *)
(* it armed.                                                               *)
(***************************************************************************)
EXTENDS Integers

CONSTANTS
    ReadFailures,    \* the ways readBool may fail: "seek_fail", "read_fail"
    MaxReadFails     \* bound on failed readBool calls

ASSUME WatcherAssumption ==
    /\ ReadFailures \subseteq {"seek_fail", "read_fail"}
    /\ MaxReadFails \in Nat

\* extCmd parameters: PARAM_NIT_FOD = 1, PARAM_NIT_NONE = 0.
PARAM_NIT_FOD == 1
PARAM_NIT_NONE == 0
\* (mutant) extCmd(param, cmd): the arguments swapped.
ParamSwapped(on) == 10

Param(on) == IF on THEN PARAM_NIT_FOD ELSE PARAM_NIT_NONE

VARIABLES
    fodUi,       \* the fod_ui attribute: TRUE when the FOD overlay is shown
    armed,       \* poll on the open fd would return now
    wstate,      \* "opening", "polling", "sending", or "exited" (open failed)
    val,         \* the parameter readBool produced, while "sending"
    nit,         \* last COMMAND_NIT parameter the driver got, -1 for none yet
    fails,       \* failed readBool calls so far
    readFailed   \* history: the last readBool returned false on an error

vars == <<fodUi, armed, wstate, val, nit, fails, readFailed>>

TypeOK ==
    /\ fodUi \in BOOLEAN
    /\ armed \in BOOLEAN
    /\ wstate \in {"opening", "polling", "sending", "exited"}
    /\ val \in {PARAM_NIT_NONE, PARAM_NIT_FOD}
    /\ nit \in {-1, PARAM_NIT_NONE, PARAM_NIT_FOD}
    /\ fails \in 0..MaxReadFails
    /\ readFailed \in BOOLEAN

Init ==
    /\ fodUi \in BOOLEAN
    /\ armed = TRUE
    /\ wstate = "opening"
    /\ val = PARAM_NIT_NONE
    /\ nit = -1
    /\ fails = 0
    /\ readFailed = FALSE

\* open(FOD_UI_PATH, O_RDONLY); on failure the thread returns for good.
WatcherOpen ==
    /\ wstate = "opening"
    /\ \E ok \in BOOLEAN : wstate' = IF ok THEN "polling" ELSE "exited"
    /\ UNCHANGED <<fodUi, armed, val, nit, fails, readFailed>>

\* (mutant) readBool returns c == '0'.
WatcherWakeInverted ==
    /\ wstate = "polling"
    /\ armed
    /\ \/ /\ armed' = FALSE
          /\ val' = Param(~fodUi)
          /\ UNCHANGED fails
          /\ readFailed' = FALSE
       \/ /\ fails < MaxReadFails
          /\ \E f \in ReadFailures :
                armed' = (f = "seek_fail")
          /\ val' = PARAM_NIT_NONE
          /\ fails' = fails + 1
          /\ readFailed' = TRUE
    /\ wstate' = "sending"
    /\ UNCHANGED <<fodUi, nit>>

\* poll returns and readBool(fd) runs; a failed readBool returns false.
WatcherWake ==
    /\ wstate = "polling"
    /\ armed
    /\ \/ /\ armed' = FALSE
          /\ val' = Param(fodUi)
          /\ UNCHANGED fails
          /\ readFailed' = FALSE
       \/ /\ fails < MaxReadFails
          /\ \E f \in ReadFailures :
                armed' = (f = "seek_fail")
          /\ val' = PARAM_NIT_NONE
          /\ fails' = fails + 1
          /\ readFailed' = TRUE
    /\ wstate' = "sending"
    /\ UNCHANGED <<fodUi, nit>>

\* extCmd(COMMAND_NIT, val), then back to poll.
WatcherExtCmd ==
    /\ wstate = "sending"
    /\ nit' = val
    /\ wstate' = "polling"
    /\ UNCHANGED <<fodUi, armed, val, fails, readFailed>>

\* The display driver shows or hides the overlay and calls sysfs_notify.
OverlayChange ==
    /\ fodUi' = ~fodUi
    /\ armed' = TRUE
    /\ UNCHANGED <<wstate, val, nit, fails, readFailed>>

Next == WatcherOpen \/ WatcherWake \/ WatcherExtCmd \/ OverlayChange

\* The watcher thread is scheduled whenever poll can return.
Spec ==
    /\ Init /\ [][Next]_vars
    /\ WF_vars(WatcherOpen) /\ WF_vars(WatcherWake) /\ WF_vars(WatcherExtCmd)

-----------------------------------------------------------------------------
\* Whenever the overlay is in a state and stays there, the driver is told
\* that state: the watcher relays every on/off transition, including one
\* whose lseek failed, unless opening fod_ui failed.  A failed read breaks
\* it (the fod_watcher_readfail run).
OverlayEventuallyRelayed ==
    \A v \in BOOLEAN :
        (fodUi = v) ~> (fodUi # v \/ wstate = "exited" \/ nit = Param(v))

\* Once the watcher is back in poll with no pending notification, the
\* driver was told the overlay's current state: readBool read it, and every
\* later change re-armed the poll.  The one way out, for any mix of lseek
\* and read failures, is a failed read, which disarms the event and leaves
\* the driver told NONE: never told FOD while the overlay is hidden.
IdleWatcherInSync ==
    wstate = "polling" /\ ~armed =>
        \/ nit = Param(fodUi)
        \/ readFailed /\ nit = PARAM_NIT_NONE

=============================================================================
