----------------------------- MODULE MCStorage -----------------------------
(***************************************************************************)
(* The three things civitas writes to disk, one per scene: spans           *)
(* (Telemetry), audit events (AuditSink) and agents' checkpoints           *)
(* (StateStore).  Their steps do not touch each other, so each scene lets  *)
(* one of them run.                                                        *)
(***************************************************************************)
EXTENDS Telemetry, AuditSink, StateStore

MCSpan(name, at, cost) ==
    [id |-> 0, at |-> at, name |-> name, agent |-> "a", model |-> "m", cost |-> cost, trace |-> "t"]

\* Two LLM spans in one bucket of three seconds but in two windows of two, and
\* the handling of a message in each of the two later windows.
MCSpans == {MCSpan("civitas.llm.chat", 1, 2), MCSpan("civitas.llm.chat", 2, 1),
            MCSpan("civitas.agent.handle", 2, 0), MCSpan("llm.chat", 4, 1)}
MCOldSpan == {MCSpan("civitas.agent.handle", 0, 0), MCSpan("civitas.agent.handle", 4, 0)}

MCScene(kind, kinds, stops, queries, trouble) ==
    [kind |-> kind, kinds |-> kinds, stops |-> stops, queries |-> queries, troubles |-> trouble]

MCScenes ==
    {MCScene("off", {}, FALSE, FALSE, 0),
     MCScene("spans", MCOldSpan, TRUE, FALSE, 1),
     MCScene("spans", MCSpans, FALSE, TRUE, 0),
     MCScene("audit", {}, FALSE, FALSE, 1),
     MCScene("state", {}, FALSE, FALSE, 0)}

\* All of the time, and a second on either side of a window's end.
MCRanges == {<<0, 4>>, <<2, 3>>}

StorageVars == <<telVars, auditVars, storeVars>>

StorageInit ==
    /\ TelInit /\ AuditInit(scene.troubles) /\ StoreInit
    /\ scene.kind # "state" => writeKey = "off"

StorageNext ==
    \/ scene.kind = "spans" /\ TelNext /\ UNCHANGED <<auditVars, storeVars>>
    \/ scene.kind = "audit" /\ AuditNext /\ UNCHANGED <<telVars, storeVars>>
    \/ scene.kind = "state" /\ StoreNext /\ UNCHANGED <<telVars, auditVars>>
=============================================================================
