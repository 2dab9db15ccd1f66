--------------------------- MODULE FodWatcherProofs ---------------------------
(***************************************************************************)
(* Proofs about the FOD watcher thread alone: its type correctness, and     *)
(* that an idle watcher has told the driver the overlay's state, or NONE    *)
(* after a failed read.                                                     *)
(***************************************************************************)
EXTENDS FodWatcher, TLAPS

\* The watcher's steps, for case analysis.
LEMMA NextCases ==
    [Next]_vars <=> \/ WatcherOpen \/ WatcherWake \/ WatcherExtCmd \/ OverlayChange
                    \/ UNCHANGED vars
    BY DEF Next

\* Every step of the watcher keeps its state well typed.
LEMMA TypeStep == TypeOK /\ [Next]_vars => TypeOK'
<1> SUFFICES ASSUME TypeOK, [Next]_vars PROVE TypeOK'
    OBVIOUS
<1>1. CASE WatcherOpen
    BY <1>1 DEF WatcherOpen, TypeOK
<1>2. CASE WatcherWake
    <2>1. armed' \in BOOLEAN
        BY <1>2, Zenon DEF WatcherWake
    <2>2. val' \in {PARAM_NIT_NONE, PARAM_NIT_FOD}
        BY <1>2 DEF WatcherWake, Param
    <2>3. fails' \in 0..MaxReadFails
        BY <1>2, WatcherAssumption DEF WatcherWake, TypeOK
    <2>4. QED
        BY <1>2, <2>1, <2>2, <2>3 DEF WatcherWake, TypeOK
<1>3. CASE WatcherExtCmd
    BY <1>3 DEF WatcherExtCmd, TypeOK
<1>4. CASE OverlayChange
    BY <1>4 DEF OverlayChange, TypeOK
<1>5. CASE UNCHANGED vars
    BY <1>5 DEF vars, TypeOK
<1>6. QED
    BY <1>1, <1>2, <1>3, <1>4, <1>5, NextCases

\* The watcher starts well typed.
LEMMA InitTypeOK == Init => TypeOK
<1> SUFFICES ASSUME Init PROVE TypeOK
    OBVIOUS
<1>1. fodUi \in BOOLEAN /\ armed \in BOOLEAN /\ readFailed \in BOOLEAN
    BY Zenon DEF Init
<1>2. QED
    BY <1>1, WatcherAssumption DEF Init, TypeOK, PARAM_NIT_NONE, PARAM_NIT_FOD

\* Every reachable state of the watcher is well typed, for every failure
\* bound.
THEOREM WatcherTypeCorrect == Spec => []TypeOK
    BY InitTypeOK, TypeStep, PTL DEF Spec

-----------------------------------------------------------------------------
(* IdleWatcherInSync is not inductive alone: the value extCmd sends must   *)
(* already be right, or a failed read's NONE, while the watcher is         *)
(* "sending", and the thread must start armed, since the first poll after  *)
(* open returns at once.                                                   *)

\* The value readBool produced is the overlay's state, or a failed read's
\* NONE.
Relayable(v) == v = Param(fodUi) \/ (readFailed /\ v = PARAM_NIT_NONE)

SyncInv ==
    /\ TypeOK
    /\ wstate = "opening" => armed
    /\ wstate = "sending" /\ ~armed => Relayable(val)
    /\ IdleWatcherInSync

LEMMA SyncStep == SyncInv /\ [Next]_vars => SyncInv'
<1> SUFFICES ASSUME SyncInv, [Next]_vars PROVE SyncInv'
    OBVIOUS
<1>1. TypeOK'
    BY TypeStep DEF SyncInv
<1>2. CASE WatcherOpen
    BY <1>1, <1>2 DEF WatcherOpen, SyncInv, IdleWatcherInSync, Relayable
<1>3. CASE WatcherWake
    <2>1. CASE armed' = FALSE /\ val' = Param(fodUi) /\ UNCHANGED fails
               /\ readFailed' = FALSE
        BY <1>1, <1>3, <2>1 DEF WatcherWake, SyncInv, IdleWatcherInSync, Relayable
    <2>2. CASE val' = PARAM_NIT_NONE /\ readFailed' = TRUE
        BY <1>1, <1>3, <2>2 DEF WatcherWake, SyncInv, IdleWatcherInSync, Relayable
    <2>3. QED
        BY <1>3, <2>1, <2>2 DEF WatcherWake
<1>4. CASE WatcherExtCmd
    BY <1>1, <1>4 DEF WatcherExtCmd, SyncInv, IdleWatcherInSync, Relayable
<1>5. CASE OverlayChange
    BY <1>1, <1>5 DEF OverlayChange, SyncInv, IdleWatcherInSync
<1>6. CASE UNCHANGED vars
    BY <1>1, <1>6 DEF vars, SyncInv, IdleWatcherInSync, Relayable, Param
<1>7. QED
    BY <1>2, <1>3, <1>4, <1>5, <1>6, NextCases

\* For every bound on failures and every mix of lseek and read failures, a
\* watcher idle in poll with no pending notification has told the driver
\* the overlay's current state, or NONE after a failed read: the driver is
\* never left with FOD while the overlay is hidden.
THEOREM IdleSync == Spec => []IdleWatcherInSync
<1>1. Init => SyncInv
    BY InitTypeOK DEF Init, SyncInv, IdleWatcherInSync, Relayable
<1>2. SyncInv => IdleWatcherInSync
    BY DEF SyncInv
<1>3. QED
    BY <1>1, <1>2, SyncStep, PTL DEF Spec

=============================================================================
