------------------------------ MODULE Topology ------------------------------
(***************************************************************************)
(* A topology file and the commands that read it: `civitas topology        *)
(* validate`, `civitas topology diff`, `civitas run` and `civitas run      *)
(* --process p`.  Each command walks the supervision section by itself     *)
(* (cli/topology.py, cli/run.py, Runtime.from_config), so each one decides *)
(* for itself which node belongs to whom; the properties relate them.      *)
(*                                                                         *)
(* A file is a record; its nodes are a sequence, a parent before its       *)
(* children:                                                               *)
(*   kind   "supervisor", "agent" (the nested form), "module" (gen_server  *)
(*          or agent with module and class), "dynamic_supervisor",         *)
(*          "topology_server", "attached" (one with attach_to),            *)
(*          "eval_agent", "http_gateway", "dotted", or "unknown"           *)
(*   name   the name, or NoName                                            *)
(*   type   what the node is made of: the class path, for a supervisor its *)
(*          strategy, for the typed kinds their settings; NoName if it is  *)
(*          missing, NotFound if it cannot be resolved or is refused       *)
(*   tag    the `process:` value, or NoTag; the values in Numeric are YAML *)
(*          numbers, the others strings                                    *)
(*   up     the index of the parent, 0 for the root                        *)
(***************************************************************************)
EXTENDS Naturals, Sequences, FiniteSetsExt

CONSTANTS Processes, \* the process names of the command line
          Numeric    \* the tags that YAML reads as numbers

NoName == "no name"
NoTag == "no tag"
NotFound == "not found"
Coordinator == "coordinator"
Typed == {"dynamic_supervisor", "topology_server", "attached", "eval_agent",
          "http_gateway"}

Nodes(f) == 1 .. Len(f.nodes)
Children(f, i) == {j \in Nodes(f) : f.nodes[j].up = i}

-----------------------------------------------------------------------------
(* Runtime.from_config_dict                                                *)

\* str(tag): a number and its text are the same tag.
NodeProcessTag(n) == n.tag

NodeBelongsToAll(n) == TRUE

\* The coordinator builds what carries no tag.
NodeBelongsTo(n) == NodeProcessTag(n) = NoTag

ResolveClass(n) == n.type \notin {NoName, NotFound}

\* A topology_server without a name has a default one.
NameOf(n) ==
    IF n.name = NoName /\ n.kind \in {"topology_server", "attached"}
    THEN "topology_server" ELSE n.name

\* The processes and supervisors that _build_node() makes of a node.
Made(n) ==
    IF n.kind = "topology_server"
    THEN {NameOf(n), NameOf(n) \o "_gateway", NameOf(n) \o "_supervisor"}
    ELSE {NameOf(n)}

\* _build_node() raises: no branch takes the node, a name is missing, or its
\* class, strategy or configuration is refused.
BuildRaises(n) ==
    \/ n.kind = "unknown"
    \/ NameOf(n) = NoName
    \/ ~ResolveClass(n)

\* Supervisor nodes are built by every process, the leaves by their own.
Built(f) ==
    {i \in Nodes(f) : f.nodes[i].kind = "supervisor" \/ NodeBelongsTo(f.nodes[i])}

-----------------------------------------------------------------------------
(* plugins/loader.py                                                       *)

\* resolve_plugin_class(): entry point, built-in name or dotted path.
PluginFound(name) == name # NotFound

\* The wrapped store first, then the key, read from the environment of the
\* process that builds it.
EncryptedStoreRaises(f, p) ==
    \/ f.inner = NoName
    \/ ~PluginFound(f.inner)
    \/ p \notin f.keyed

PluginsRaise(f, p) ==
    \/ \E x \in f.exporters : x = NoName \/ ~PluginFound(x)
    \/ /\ f.store # NoName
       /\ IF f.store = "encrypted" THEN EncryptedStoreRaises(f, p)
                                   ELSE ~PluginFound(f.store)

\* Unknown keys, no supervision section, a node, the root, the plugins.
FromConfigRaises(f) ==
    \/ f.unknown
    \/ ~f.section
    \/ \E i \in Built(f) : BuildRaises(f.nodes[i])
    \/ f.strategy = NotFound
    \/ PluginsRaise(f, Coordinator)

-----------------------------------------------------------------------------
(* The names Runtime.start() registers: registry.register() refuses the    *)
(* second of two equal ones.                                               *)

Clash(f, S) ==
    \E i, j \in S : i # j /\ Made(f.nodes[i]) \cap Made(f.nodes[j]) # {}

RegisterRaises(f) ==
    \/ Clash(f, Built(f))
    \/ \E i \in Built(f) : {f.root, "_runtime"} \cap Made(f.nodes[i]) # {}

-----------------------------------------------------------------------------
(* cli/run.py                                                              *)

\* The raw value is compared, so a number is never equal to the name given.
FindProcessAgents(f, p) ==
    {i \in Nodes(f) : /\ f.nodes[i].kind \in {"agent", "dynamic_supervisor"}
                      /\ f.nodes[i].tag = p
                      /\ p \notin Numeric}

ResolveAgentClass(n) == n.type \notin {NoName, NotFound}

WorkerAgentRaises(n) == n.name = NoName \/ ~ResolveAgentClass(n)

WorkerRaises(f, p) ==
    \/ FindProcessAgents(f, p) = {}
    \/ \E i \in FindProcessAgents(f, p) : WorkerAgentRaises(f.nodes[i])
    \/ PluginsRaise(f, p)
    \/ Clash(f, FindProcessAgents(f, p))

\* The coordinator reads the file again; an override reaches workers only.
TransportOf(f, override, p) ==
    IF p = Coordinator \/ override = NoName THEN f.transport ELSE override

-----------------------------------------------------------------------------
(* cli/topology.py: validate                                               *)

ValidTransport == {"in_process", "zmq", "nats"}

\* Whether a class can be imported is not looked at, nor whether a supervisor
\* has a name.
NodeFails(f, i) ==
    LET n == f.nodes[i] IN
    \/ n.kind = "supervisor" /\ (n.type = NotFound \/ Children(f, i) = {})
    \/ n.kind # "supervisor" /\ n.name = NoName
    \/ n.kind = "agent" /\ n.type = NoName
    \/ n.kind = "unknown"

Named(f, K) == {i \in Nodes(f) : f.nodes[i].kind \in K /\ f.nodes[i].name # NoName}

\* Duplicates among the agents, and between agents and supervisors.
NamingFails(f) ==
    LET agents == {i \in Nodes(f) : f.nodes[i].kind # "supervisor"
                                    /\ f.nodes[i].name # NoName}
        supers == {f.root} \cup {f.nodes[i].name : i \in Named(f, {"supervisor"})}
    IN  \/ \E i, j \in agents : i # j /\ f.nodes[i].name = f.nodes[j].name
        \/ \E i \in agents : f.nodes[i].name \in supers

Valid(f) ==
    /\ f.section
    /\ f.strategy # NotFound
    /\ Children(f, 0) # {}
    /\ \A i \in Nodes(f) : ~NodeFails(f, i)
    /\ ~NamingFails(f)
    /\ f.transport \in ValidTransport

-----------------------------------------------------------------------------
(* cli/topology.py: diff                                                   *)

\* Paths are made of names; "?" stands for a missing one.
PathOf(f) ==
    LET path[i \in 0 .. Len(f.nodes)] ==
            IF i = 0 THEN <<f.root>> ELSE Append(path[f.nodes[i].up], f.nodes[i].name)
    IN  path

\* Nodes of the other kinds leave nothing behind.
Flattened(n) == n.kind \in {"supervisor", "agent"}

FlattenNodeUnplaced(f, i) ==
    LET n == f.nodes[i] IN [kind |-> n.kind, type |-> n.type, process |-> NoTag]

\* The entries of the flat dict: a later node with the same path overwrites.
FlattenNode(f, i) ==
    LET n == f.nodes[i] IN [kind |-> n.kind, type |-> n.type, process |-> n.tag]

Flatten(f) ==
    LET seen == {i \in Nodes(f) : Flattened(f.nodes[i])}
        paths == {PathOf(f)[i] : i \in seen}
    IN  [p \in paths |-> FlattenNode(f, Max({i \in seen : PathOf(f)[i] = p}))]

FlatRoot(f) == <<f.root, f.strategy, f.transport, f.store, f.exporters>>

Differ(f, g) == Flatten(f) # Flatten(g) \/ FlatRoot(f) # FlatRoot(g)
=============================================================================
