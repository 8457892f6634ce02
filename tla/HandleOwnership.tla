-------------------------- MODULE HandleOwnership ---------------------------
(***************************************************************************)
(* What the connection lifecycle promises about the handles of the C       *)
(* client, without the counters, the hash table and the lock that it keeps *)
(* them with.  A handle is private to one object or shared by the process. *)
(* A private handle is opened, closed and discarded for its owner alone.   *)
(* A shared handle is never taken away from the objects that use it: it is *)
(* closed and reclaimed only after the module has stopped.                 *)
(***************************************************************************)
CONSTANTS Handles, Clients, Free, Shared

VARIABLES owner, open, stopped

avars == <<owner, open, stopped>>

Init ==
    /\ owner = [h \in Handles |-> Free]
    /\ open = [h \in Handles |-> FALSE]
    /\ stopped = FALSE

\* A new handle, for one client or for all of them.
Allocate(h, who) ==
    /\ ~stopped
    /\ owner[h] = Free
    /\ owner' = [owner EXCEPT ![h] = who]
    /\ UNCHANGED <<open, stopped>>

Open(h) ==
    /\ ~stopped
    /\ owner[h] # Free
    /\ open' = [open EXCEPT ![h] = TRUE]
    /\ UNCHANGED <<owner, stopped>>

Close(h) ==
    /\ ~stopped
    /\ owner[h] \in Clients
    /\ open' = [open EXCEPT ![h] = FALSE]
    /\ UNCHANGED <<owner, stopped>>

Discard(h) ==
    /\ ~stopped
    /\ owner[h] \in Clients
    /\ owner' = [owner EXCEPT ![h] = Free]
    /\ open' = [open EXCEPT ![h] = FALSE]
    /\ UNCHANGED stopped

\* The module stops only when no client owns a handle.
Stop ==
    /\ \A h \in Handles : owner[h] \notin Clients
    /\ stopped' = TRUE
    /\ UNCHANGED <<owner, open>>

Reclaim(h) ==
    /\ stopped
    /\ owner[h] = Shared
    /\ owner' = [owner EXCEPT ![h] = Free]
    /\ open' = [open EXCEPT ![h] = FALSE]
    /\ UNCHANGED stopped

Next ==
    \/ \E h \in Handles :
          \/ \E who \in Clients \cup {Shared} : Allocate(h, who)
          \/ Open(h) \/ Close(h) \/ Discard(h) \/ Reclaim(h)
    \/ Stop

Spec == Init /\ [][Next]_avars
=============================================================================
