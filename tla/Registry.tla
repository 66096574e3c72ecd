------------------------------ MODULE Registry ------------------------------
(***************************************************************************)
(* The remote half of a process's name registry (civitas/registry.py): the *)
(* routes to agents of other processes, kept up to date by announcements   *)
(* (_agency.register and _agency.deregister) that may be delayed, repeated,*)
(* lost or overtaken.  Each announcement is stamped with the epoch of the  *)
(* incarnation it is about.                                                *)
(***************************************************************************)
EXTENDS Integers

CONSTANTS
    Names,         \* names of remote agents and channels
    Announcements  \* what may be announced: [kind, name, epoch, owner, channel]

Kinds == {"register", "deregister"}

ASSUME AnnouncementAssumption ==
    /\ \A m \in Announcements :
           m.kind \in Kinds /\ m.name \in Names /\ m.epoch \in Nat
    /\ \A m1, m2 \in Announcements : m1.name = m2.name => m1.owner = m2.owner

VARIABLES
    entry,  \* _entries: the route to each name, NoEntry if there is none
    floor,  \* _remote_epochs: the last epoch seen, -1 before the first
    seen    \* history: the announcements received

registryVars == <<entry, floor, seen>>

NoEntry == [epoch |-> -1, owner |-> "none", channel |-> "none"]
Routed(n) == entry[n].epoch # -1
EntryOf(m) == [epoch |-> m.epoch, owner |-> m.owner, channel |-> m.channel]

\* What register_remote() drops as stale or repeated, or rejects as owned by
\* somebody else.
RefusedUnlessKnown(m) == Routed(m.name) /\ (entry[m.name].owner # m.owner \/ m.epoch <= entry[m.name].epoch)

Refused(m) ==
    \/ m.epoch < floor[m.name]
    \/ Routed(m.name) /\ (entry[m.name].owner # m.owner \/ m.epoch <= entry[m.name].epoch)
    \/ ~Routed(m.name) /\ m.epoch <= floor[m.name]

RegisterRemote(m) ==
    IF Refused(m) THEN UNCHANGED <<entry, floor>>
                  ELSE /\ entry' = [entry EXCEPT ![m.name] = EntryOf(m)]
                       /\ floor' = [floor EXCEPT ![m.name] = m.epoch]

DeregisterRemote(m) ==
    IF m.epoch < floor[m.name]
    THEN UNCHANGED <<entry, floor>>
    ELSE /\ floor' = [floor EXCEPT ![m.name] = m.epoch]
         /\ entry' = [entry EXCEPT ![m.name] = NoEntry]

OnRemoteRegister(m) == m.kind = "register" /\ RegisterRemote(m)
OnRemoteDeregister(m) == m.kind = "deregister" /\ DeregisterRemote(m)

Receive(m) ==
    /\ OnRemoteRegister(m) \/ OnRemoteDeregister(m)
    /\ seen' = seen \cup {m}

RegistryInit ==
    /\ entry = [n \in Names |-> NoEntry]
    /\ floor = [n \in Names |-> -1]
    /\ seen = {}

RegistrySpec == RegistryInit /\ [][\E m \in Announcements : Receive(m)]_registryVars

-----------------------------------------------------------------------------
Heard(n, k, e) == \E m \in seen : m.name = n /\ m.kind = k /\ m.epoch = e

\* In whatever order, and however often, the announcements arrive: a name has a
\* route exactly when the newest epoch heard of has been registered and not
\* deregistered, and the route is the one of that epoch.  A late or repeated
\* announcement neither resurrects a name nor removes a newer incarnation
\* (register_remote(), deregister_remote()).
Converged ==
    \A n \in Names :
        /\ \A m \in seen : m.name = n => m.epoch <= floor[n]
        /\ Routed(n) => entry[n].epoch = floor[n]
        /\ Routed(n) <=> Heard(n, "register", floor[n]) /\ ~Heard(n, "deregister", floor[n])
=============================================================================
