----------------------------- MODULE MCProcess -----------------------------
(* One operating system process and what surrounds it: its files, its      *)
(* start and stop, its gateway and control plane (MCLifecycle), and what   *)
(* it writes to disk (MCStorage).  A behaviour is about one of them, and   *)
(* the others rest.                                                        *)
EXTENDS MCLifecycle, MCStorage

MCInit ==
    /\ StorageInit
    /\ IF scene.kind = "off" THEN EdgesInit ELSE Resting

MCNext ==
    \/ EdgesNext /\ UNCHANGED StorageVars
    \/ StorageNext /\ UNCHANGED EdgesVars

MCSpec == MCInit /\ [][MCNext]_<<EdgesVars, StorageVars>>
=============================================================================
