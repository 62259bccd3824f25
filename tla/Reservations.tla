---------------------------- MODULE Reservations ----------------------------
(***************************************************************************)
(* What matchmaker, games, drains and recovery promise each other about    *)
(* the instances of a minigame group, without queue, players, snapshots of *)
(* the session tick or handlers that have yet to drain: an instance serves *)
(* one session and never a second one; it leaves when nobody has asked for *)
(* it or that session is over, unless it fails or is removed; and only a   *)
(* session whose instance failed gives it up and may ask for another one,  *)
(* even if it was over.  Module GameSessions implements this.              *)
(***************************************************************************)
CONSTANTS
    Instances,
    Sessions,
    NoInstance,
    NoSession

VARIABLES
    phase,      \* of each instance
    holder,     \* the session each instance was reserved for, for good
    lease,      \* the instance each session has
    over        \* the sessions that are over

vars == <<phase, holder, lease, over>>

Init ==
    /\ phase = [i \in Instances |-> "starting"]
    /\ holder = [i \in Instances |-> NoSession]
    /\ lease = [s \in Sessions |-> NoInstance]
    /\ over = {}

Ready(i) ==
    /\ phase[i] = "starting"
    /\ phase' = [phase EXCEPT ![i] = "serving"]
    /\ UNCHANGED <<holder, lease, over>>

Reserve(s, i) ==
    /\ phase[i] = "serving" /\ holder[i] = NoSession
    /\ lease[s] = NoInstance /\ s \notin over
    /\ holder' = [holder EXCEPT ![i] = s]
    /\ lease' = [lease EXCEPT ![s] = i]
    /\ UNCHANGED <<phase, over>>

End(s) ==
    /\ over' = over \cup {s}
    /\ UNCHANGED <<phase, holder, lease>>

Leave(i) ==
    /\ phase[i] = "serving"
    /\ holder[i] = NoSession \/ holder[i] \in over
    /\ phase' = [phase EXCEPT ![i] = "leaving"]
    /\ UNCHANGED <<holder, lease, over>>

Fail(i) ==
    /\ phase[i] \in {"starting", "serving", "leaving"}
    /\ phase' = [phase EXCEPT ![i] = "failed"]
    /\ UNCHANGED <<holder, lease, over>>

\* The end of an instance that leaves, and the reset of its revision, which asks
\* nobody.
Remove(i) ==
    /\ phase[i] \in {"starting", "serving", "leaving"}
    /\ phase' = [phase EXCEPT ![i] = "gone"]
    /\ UNCHANGED <<holder, lease, over>>

GiveUp(s) ==
    /\ lease[s] # NoInstance /\ phase[lease[s]] = "failed"
    /\ lease' = [lease EXCEPT ![s] = NoInstance]
    /\ over' = over \ {s}
    /\ UNCHANGED <<phase, holder>>

Next ==
    \/ \E i \in Instances : Ready(i) \/ Leave(i) \/ Fail(i) \/ Remove(i)
    \/ \E s \in Sessions : End(s) \/ GiveUp(s)
    \/ \E s \in Sessions, i \in Instances : Reserve(s, i)

Spec == Init /\ [][Next]_vars
=============================================================================
