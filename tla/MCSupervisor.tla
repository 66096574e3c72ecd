---------------------------- MODULE MCSupervisor ----------------------------
(* Small supervision trees for TLC.                                        *)
EXTENDS Supervisor

\* root has agent a and supervisor s; s has agents b and c.
TreeKids == [root |-> <<"a", "s">>, s |-> <<"b", "c">>]

\* One supervisor with three agents.
FlatKids == [root |-> <<"a", "b", "c">>]

OneForOne == [root |-> "ONE_FOR_ONE", s |-> "ONE_FOR_ONE"]
Mixed     == [root |-> "REST_FOR_ONE", s |-> "ONE_FOR_ALL"]

Calm ==
    [kids |-> TreeKids, strategy |-> OneForOne, startFailures |-> {}, agentTimesOut |-> FALSE,
     loopTimesOut |-> FALSE, slowTeardown |-> FALSE, endInStop |-> FALSE,
     crashInSubtree |-> FALSE, exempt |-> FALSE, mayStop |-> TRUE, maxRestarts |-> 1,
     maxCrashes |-> 2]

\* Each strategy on its own, with everything that may happen to one supervisor.
Flat ==
    {[Calm EXCEPT !.kids = FlatKids, !.strategy = [root |-> r],
        !.startFailures = {"failed", "stuck"}, !.agentTimesOut = TRUE, !.slowTeardown = TRUE,
        !.crashInSubtree = TRUE, !.exempt = TRUE, !.maxCrashes = 3] :
        r \in {"ONE_FOR_ONE", "ONE_FOR_ALL", "REST_FOR_ONE"}}

\* A subtree restarted from above while stops time out.
Nested ==
    {[Calm EXCEPT !.strategy = r, !.startFailures = {"failed"}, !.agentTimesOut = TRUE,
        !.loopTimesOut = TRUE] : r \in {OneForOne, Mixed}}

SafeSettings == Flat \cup Nested
LiveSettings == {[Calm EXCEPT !.strategy = Mixed, !.startFailures = {"failed"}, !.endInStop = TRUE]}

\* Crashes while the subtree is being restarted.
CrashedAnew == {[Calm EXCEPT !.crashInSubtree = TRUE, !.mayStop = FALSE, !.maxCrashes = 3]}
=============================================================================
