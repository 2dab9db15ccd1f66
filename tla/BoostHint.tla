------------------------------ MODULE BoostHint ------------------------------
(***************************************************************************)
(* What the authenticated boost hint promises, with the power HAL          *)
(* connection abstracted away.  A thread that takes the lock enters the    *)
(* hint path; with nothing known it asks the power HAL, and either learns  *)
(* the real answer or learns nothing; with the answer known it uses it;    *)
(* the boost is sent only when the answer is "yes", and the lock is        *)
(* released when the path ends.  A restart of the service forgets it all.  *)
(***************************************************************************)
CONSTANTS
    Threads,     \* the threads that may run the hint path
    NoOwner,     \* the lock is free
    Answer       \* whether the power HAL supports the boost

VARIABLES
    cache,       \* "unknown", "yes" or "no"
    owner,       \* the thread holding the lock, or NoOwner
    stage        \* per thread: "idle", "hint" (deciding) or "boost" (sending)

vars == <<cache, owner, stage>>

Learned == IF Answer THEN "yes" ELSE "no"

Init ==
    /\ cache = "unknown"
    /\ owner = NoOwner
    /\ stage = [t \in Threads |-> "idle"]

\* Leave the path with the lock released, or go on to send the boost.
Decide(t, go) ==
    IF go THEN /\ stage' = [stage EXCEPT ![t] = "boost"]
               /\ UNCHANGED owner
          ELSE /\ stage' = [stage EXCEPT ![t] = "idle"]
               /\ owner' = NoOwner

Acquire(t) ==
    /\ owner = NoOwner
    /\ stage[t] = "idle"
    /\ owner' = t
    /\ stage' = [stage EXCEPT ![t] = "hint"]
    /\ UNCHANGED cache

Ask(t) ==
    /\ stage[t] = "hint"
    /\ cache = "unknown"
    /\ cache' \in {"unknown", Learned}
    /\ Decide(t, cache' = "yes")

UseCache(t) ==
    /\ stage[t] = "hint"
    /\ cache # "unknown"
    /\ Decide(t, cache = "yes")
    /\ UNCHANGED cache

Boost(t) ==
    /\ stage[t] = "boost"
    /\ Decide(t, FALSE)
    /\ UNCHANGED cache

Reset ==
    /\ cache' = "unknown"
    /\ owner' = NoOwner
    /\ stage' = [t \in Threads |-> "idle"]

Next ==
    \/ \E t \in Threads : Acquire(t) \/ Ask(t) \/ UseCache(t) \/ Boost(t)
    \/ Reset

Spec == Init /\ [][Next]_vars

=============================================================================
