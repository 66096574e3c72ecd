----------------------------- MODULE StateStore -----------------------------
(***************************************************************************)
(* What of an agent's self.state survives a restart: checkpoint() and      *)
(* _restore_state() (civitas/process.py) over InMemoryStateStore,          *)
(* SQLiteStateStore and the EncryptingStateStore wrapped around either     *)
(* (civitas/plugins).                                                      *)
(*                                                                         *)
(* self.state is a dict: one entry holds a plain value, another a nested   *)
(* dict.  A store that keeps Python objects may share them with the agent, *)
(* so the model says which of the two dicts is the very object in the      *)
(* store: a mutation of a shared one changes the checkpoint as well.       *)
(* SQLite and the encrypting wrapper keep a JSON text, hence no objects.   *)
(***************************************************************************)
EXTENDS Naturals

CONSTANTS
    Backend,     \* the innermost store
    Values,      \* what an entry of the state may hold
    KeyRing,     \* the key ids every configuration has in its key ring
    Empty        \* an entry never assigned

ASSUME StoreAssumption ==
    /\ Backend \in {"memory", "sqlite"}
    /\ Empty \notin Values

VARIABLES
    plain,       \* self.state's plain entry
    nested,      \* the content of self.state's nested dict
    disk,        \* the agent's row: its form and the same two entries
    sharedDict,  \* is self.state the dict in the store?
    sharedInner, \* is the nested dict the one in the store?
    writeKey,    \* current_key_id, or "off" without the encrypting wrapper
    lenient,     \* allow_plaintext_read
    up,          \* is the agent running?
    saved        \* history: the entries as of the last checkpoint()

storeVars == <<plain, nested, disk, sharedDict, sharedInner, writeKey, lenient, up, saved>>

Entries == Values \cup {Empty}
NoRow   == [form |-> "none", plain |-> Empty, nested |-> Empty]
Forms   == {"none", "text"} \cup KeyRing

StoreInit ==
    /\ plain = Empty /\ nested = Empty
    /\ disk = NoRow /\ sharedDict = FALSE /\ sharedInner = FALSE
    /\ writeKey \in KeyRing \cup {"off"} /\ lenient = FALSE
    /\ up = TRUE
    /\ saved = [plain |-> Empty, nested |-> Empty]

\* Does the store keep objects rather than their JSON text?
KeepsObjects == Backend = "memory" /\ writeKey = "off"

\* handle() assigns the plain entry: self.state[k] = v.
Assign ==
    /\ up
    /\ \E v \in Values :
        /\ plain' = v
        /\ disk' = IF sharedDict THEN [disk EXCEPT !.plain = v] ELSE disk
    /\ UNCHANGED <<nested, sharedDict, sharedInner, writeKey, lenient, up, saved>>

\* handle() mutates the nested dict in place, as _update_suspend_reason() does
\* with the marker, or assigns one where there is none.
Mutate ==
    /\ up
    /\ sharedInner' = IF nested = Empty THEN sharedDict ELSE sharedInner
    /\ \E v \in Values :
        /\ nested' = v
        /\ disk' = IF sharedInner' THEN [disk EXCEPT !.nested = v] ELSE disk
    /\ UNCHANGED <<plain, sharedDict, writeKey, lenient, up, saved>>

\* checkpoint(): set() copies the outer dict only, or encodes the whole.
Checkpoint ==
    /\ up
    /\ disk' = [form |-> IF writeKey = "off" THEN "text" ELSE writeKey,
                plain |-> plain, nested |-> nested]
    /\ sharedDict' = FALSE /\ sharedInner' = (KeepsObjects /\ nested # Empty)
    /\ saved' = [plain |-> plain, nested |-> nested]
    /\ UNCHANGED <<plain, nested, writeKey, lenient, up>>

\* The agent crashes, or its process ends.
Crash ==
    /\ up /\ up' = FALSE
    /\ UNCHANGED <<plain, nested, disk, sharedDict, sharedInner, writeKey, lenient, saved>>

\* EncryptingStateStore.get(): a row under any key of the ring is decrypted; a
\* row it did not encrypt is refused unless reading plaintext is allowed.
CanRead ==
    \/ disk.form = "none"
    \/ disk.form = "text" /\ (writeKey = "off" \/ lenient)
    \/ disk.form \in KeyRing /\ writeKey # "off"

\* Mutant: a row that cannot be read counts as no row.
RestoreSwallowsErrors ==
    /\ ~up
    /\ up' = TRUE
    /\ plain' = IF CanRead THEN disk.plain ELSE Empty
    /\ nested' = IF CanRead THEN disk.nested ELSE Empty
    /\ sharedDict' = FALSE /\ sharedInner' = FALSE
    /\ UNCHANGED <<disk, writeKey, lenient, saved>>

\* _run(): the state is emptied, then replaced by what get() returns; the
\* in-memory get() returns the stored dict itself.
Restore ==
    /\ ~up /\ CanRead
    /\ up' = TRUE
    /\ plain' = disk.plain /\ nested' = disk.nested
    /\ sharedDict' = (KeepsObjects /\ disk.form # "none")
    /\ sharedInner' = (KeepsObjects /\ disk.nested # Empty)
    /\ UNCHANGED <<disk, writeKey, lenient, saved>>

\* The whole program is started again with another configuration: encryption
\* switched on, the current key rotated, plaintext reads allowed.  What is only
\* in memory is gone.
Reconfigure ==
    /\ ~up /\ Backend = "sqlite"
    /\ writeKey' \in KeyRing
    /\ lenient' \in {lenient, TRUE}
    /\ UNCHANGED <<plain, nested, disk, sharedDict, sharedInner, up, saved>>

\* delete() is offered by every store; the runtime itself never calls it.

StoreNext == Assign \/ Mutate \/ Checkpoint \/ Crash \/ Restore \/ Reconfigure

StoreSpec == StoreInit /\ [][StoreNext]_storeVars

\* Objects are shared by the in-memory store only.
TypeOK ==
    /\ plain \in Entries /\ nested \in Entries
    /\ disk \in [form : Forms, plain : Entries, nested : Entries]
    /\ sharedDict \in BOOLEAN /\ sharedInner \in BOOLEAN
    /\ sharedDict \/ sharedInner => Backend = "memory"
    /\ writeKey \in KeyRing \cup {"off"}
    /\ lenient \in BOOLEAN /\ up \in BOOLEAN
    /\ saved \in [plain : Entries, nested : Entries]

\* An agent that comes up again has exactly the state it last checkpointed, also
\* after encryption was switched on or its key rotated: a row the store cannot
\* read keeps the agent down, it never counts as an empty state.
RestoreExact ==
    [][~up /\ up' => plain' = saved.plain /\ nested' = saved.nested]_storeVars
=============================================================================
