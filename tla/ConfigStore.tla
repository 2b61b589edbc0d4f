---------------------------- MODULE ConfigStore ----------------------------
(***************************************************************************)
(* Config generations (internal/config_store.go): named sets of document   *)
(* schemas, registered idempotently by the set of name@version they list,  *)
(* at most one of them active.                                             *)
(*                                                                         *)
(* RegisterConfigGeneration and ActivateConfigGeneration calls run         *)
(* concurrently over one PostgreSQL at READ COMMITTED.  A step is a        *)
(* statement, or the part of a statement up to a wait; a transaction shows *)
(* its writes in the step that commits it.  A call that waits in a ring is *)
(* rolled back by PostgreSQL, which Abort covers.                          *)
(***************************************************************************)
EXTENDS Naturals, Sequences, FiniteSets

CONSTANTS
    Client,     \* calls in flight at once
    Schema,     \* name@version of the schemas, one version per name
    SchemaSpec, \* constraint sets, up to jsonEqual
    Usage,      \* schema usages
    Omitted,    \* the spec of a listed schema that must be stored already
    Requests,   \* what registrations list, in request order
    MaxGen,     \* last generation id the model draws (bound)
    MaxSent     \* notifications the model sends (bound)

VARIABLES
    schemas,    \* committed rows of document_schema
    gens,       \* committed rows of config_generation with their schema refs
    drawn,      \* the identity sequence of config_generation: never rolled back
    sent,       \* schema_update notifications sent at commits
    call        \* each client's call and the transaction it runs

tables == <<schemas, gens, drawn, sent>>
configVars == <<tables, call>>

Stored   == [schema : Schema, spec : SchemaSpec, usage : Usage]
Item     == [schema : Schema, spec : SchemaSpec \cup {Omitted}, usage : Usage]
Id       == 1..MaxGen

\* Sequences of rows without two for one schema.
Distinct(S) == {l \in UNION {[1..n -> S] : n \in 1..Cardinality(Schema)} :
                  \A i, j \in DOMAIN l : l[i].schema = l[j].schema => i = j}

ASSUME ConfigAssumption == /\ Omitted \notin SchemaSpec
                           /\ Requests \subseteq Distinct(Item)
                           /\ MaxGen \in Nat /\ MaxSent \in Nat

RefsOf(list) == [i \in DOMAIN list |-> list[i].schema]

IdentityInOrder(list) == RefsOf(list)
\* configGenerationIdentityHash: the sorted name@version parts, and no spec.
Identity(list) == {list[i].schema : i \in DOMAIN list}

NoAck == [list |-> <<>>, id |-> 0, activate |-> FALSE, honoured |-> TRUE]

\* A client between two calls.
Idle == [pc |-> "idle",         \* the statement the call runs next
         list |-> <<>>,         \* the schemas to register, in request order
         activate |-> FALSE,    \* the call wants the generation to be active
         attempt |-> 0,         \* registrations are tried twice
         todo |-> <<>>,         \* schemas ensureConfigSchemas has yet to store
         added |-> {},          \* schemas the transaction has inserted
         id |-> 0,              \* the generation the call is about
         new |-> FALSE,         \* ... which the transaction has inserted
         target |-> {},         \* active rows the deactivation has found
         dead |-> {},           \* rows the transaction has deactivated
         live |-> FALSE,        \* it has set active on the generation
         seen |-> {},           \* generations active since it began, if it activates (history)
         ack |-> NoAck]         \* the client's last successful answer (history)

\* Type correctness, with the primary keys of both tables.
ConfigTypeOK ==
    /\ schemas \subseteq Stored
    /\ \A r, s \in schemas : r.schema = s.schema => r = s
    /\ \A g \in gens : /\ g.id \in 1..drawn /\ g.active \in BOOLEAN
                       /\ g.refs # <<>> /\ g.refs \in Seq(Schema)
                       /\ \A i \in DOMAIN g.refs : \E r \in schemas : r.schema = g.refs[i]
    /\ \A g, h \in gens : g.id = h.id => g = h
    /\ drawn \in 0..MaxGen /\ sent \in 0..MaxSent
    /\ \A t \in Client :
          /\ call[t].pc \in {"idle", "schema", "ensure", "lookup", "insert", "find",
                             "deactivate", "deactivating", "activate", "index", "commit"}
          /\ call[t].list \in {<<>>} \cup Requests
          /\ call[t].added \subseteq Stored
          /\ call[t].id \in 0..MaxGen
          /\ call[t].target \subseteq Id /\ call[t].dead \subseteq Id /\ call[t].seen \subseteq Id

ActiveIn(rows) == {g.id : g \in {h \in rows : h.active}}
Active == ActiveIn(gens)

-----------------------------------------------------------------------------
(* Registration *)

Goto(t, l) == call' = [call EXCEPT ![t].pc = l]

\* The call ends with an error, its transaction rolled back.
Fail(t) == call' = [call EXCEPT ![t] = Idle]

\* A new transaction for a registration.
Attempt(t, list, activate, n, seen) ==
    call' = [call EXCEPT ![t] = [Idle EXCEPT !.pc = "schema", !.list = list, !.todo = list,
                                             !.activate = activate, !.attempt = n,
                                             !.seen = IF activate THEN seen ELSE {}]]

RegisterConfigGeneration(t) ==
    /\ call[t].pc = "idle"
    /\ \E list \in Requests, activate \in BOOLEAN :
           Attempt(t, list, activate, 1, Active)
    /\ UNCHANGED tables

StoredAs(item) == {r \in schemas : r.schema = item.schema}
Matches(item, r) == item.usage = r.usage /\ item.spec \in {r.spec, Omitted}

\* The next schema of the request, with what this one has inserted.
NextSchema(t, rows) ==
    call' = [call EXCEPT ![t].pc = IF Len(call[t].todo) = 1 THEN "lookup" ELSE "schema",
                         ![t].todo = Tail(@),
                         ![t].added = @ \cup rows]

\* GetSchema and the check of what it found: ErrSchemaSpecMissing,
\* ErrSchemaMismatch, or on with the request.
GetSchema(t) ==
    /\ call[t].pc = "schema"
    /\ LET item == Head(call[t].todo)
       IN  \/ /\ StoredAs(item) = {} /\ item.spec # Omitted
              /\ Goto(t, "ensure")
           \/ /\ \E r \in StoredAs(item) : Matches(item, r)
              /\ NextSchema(t, {})
           \/ /\ StoredAs(item) = {} => item.spec = Omitted
              /\ \A r \in StoredAs(item) : ~Matches(item, r)
              /\ Fail(t)
    /\ UNCHANGED tables

\* Another transaction has inserted the schema and not ended.
Inserting(t, item) == \E u \in Client \ {t} : \E r \in call[u].added : r.schema = item.schema

EnsureSchemaOverwriting(t) ==
    /\ call[t].pc = "ensure"
    /\ LET item == Head(call[t].todo)
       IN  /\ ~Inserting(t, item)
           /\ schemas' = (schemas \ StoredAs(item)) \cup
                             {[r EXCEPT !.spec = item.spec] : r \in StoredAs(item)}
           /\ NextSchema(t, IF StoredAs(item) = {} THEN {item} ELSE {})
    /\ UNCHANGED <<gens, drawn, sent>>

\* EnsureSchema, ON CONFLICT DO NOTHING: waits for a concurrent insert, and
\* does not look at what that has stored.
EnsureSchema(t) ==
    /\ call[t].pc = "ensure"
    /\ LET item == Head(call[t].todo)
       IN  /\ ~Inserting(t, item)
           /\ NextSchema(t, IF StoredAs(item) = {} THEN {item} ELSE {})
    /\ UNCHANGED tables

\* The generation of the call is known: activate it, or be done.
Take(t, id, new, active) ==
    call' = [call EXCEPT ![t].id = id, ![t].new = new,
                         ![t].pc = IF call[t].activate /\ ~active THEN "deactivate" ELSE "commit"]

SameIdentity(t) == {g \in gens : g.identity = Identity(call[t].list)}

LookupAsRegistered(t) ==
    /\ call[t].pc = "lookup"
    /\ \/ \E g \in SameIdentity(t) : Take(t, g.id, FALSE, TRUE)
       \/ SameIdentity(t) = {} /\ Goto(t, "insert")
    /\ UNCHANGED tables

\* GetConfigGenerationByIdentityHash.
Lookup(t) ==
    /\ call[t].pc = "lookup"
    /\ \/ \E g \in SameIdentity(t) : Take(t, g.id, FALSE, g.active)
       \/ SameIdentity(t) = {} /\ Goto(t, "insert")
    /\ UNCHANGED tables

\* A second attempt after the first conflict; the second conflict is an error.
Retry(t) == IF call[t].attempt = 1
            THEN Attempt(t, call[t].list, call[t].activate, 2, call[t].seen)
            ELSE Fail(t)

\* InsertConfigGeneration and its schema references: the unique identity_hash
\* makes it wait for a concurrent insert and fail on a committed one.
InsertConfigGeneration(t) ==
    /\ call[t].pc = "insert"
    /\ \A u \in Client \ {t} :
           call[u].new => Identity(call[u].list) # Identity(call[t].list)
    /\ drawn < MaxGen
    /\ drawn' = drawn + 1
    /\ \/ SameIdentity(t) = {} /\ Take(t, drawn + 1, TRUE, FALSE)
       \/ SameIdentity(t) # {} /\ Retry(t)
    /\ UNCHANGED <<schemas, gens, sent>>

-----------------------------------------------------------------------------
(* Activation *)

ActivateConfigGeneration(t) ==
    /\ call[t].pc = "idle"
    /\ \E id \in Id :
           call' = [call EXCEPT ![t] = [Idle EXCEPT !.pc = "find", !.id = id, !.activate = TRUE,
                                                    !.seen = Active]]
    /\ UNCHANGED tables

\* GetConfigGeneration, ErrGenerationNotFound.
Find(t) ==
    /\ call[t].pc = "find"
    /\ \/ \E g \in gens : g.id = call[t].id /\ Take(t, g.id, FALSE, g.active)
       \/ (\A g \in gens : g.id # call[t].id) /\ Fail(t)
    /\ UNCHANGED tables

\* The rows of config_generation a transaction has locked.
Locked(u) == call[u].dead \cup IF call[u].live THEN {call[u].id} ELSE {}

\* DeactivateActiveConfigGeneration finds its rows in its snapshot ...
Deactivate(t) ==
    /\ call[t].pc = "deactivate"
    /\ call' = [call EXCEPT ![t].target = Active \ {call[t].id}, ![t].pc = "deactivating"]
    /\ UNCHANGED tables

\* ... waits for them, and updates those that are still active.
DeactivateFound(t) ==
    /\ call[t].pc = "deactivating"
    /\ \A u \in Client \ {t} : call[t].target \cap Locked(u) = {}
    /\ call' = [call EXCEPT ![t].dead = call[t].target \cap Active, ![t].target = {},
                            ![t].pc = "activate"]
    /\ UNCHANGED tables

\* ActivateConfigGeneration (the statement) waits for the row ...
ActivateRow(t) ==
    /\ call[t].pc = "activate"
    /\ \A u \in Client \ {t} : call[t].id \notin Locked(u)
    /\ call' = [call EXCEPT ![t].live = TRUE, ![t].pc = "index"]
    /\ UNCHANGED tables

IndexMissing(t) ==
    /\ call[t].pc = "index"
    /\ Goto(t, "commit")
    /\ UNCHANGED tables

IndexRetried(t) ==
    /\ call[t].pc = "index"
    /\ \A u \in Client \ {t} : call[u].dead = {} /\ ~(call[u].live /\ call[u].pc = "commit")
    /\ \/ Active \ (call[t].dead \cup {call[t].id}) = {} /\ Goto(t, "commit")
       \/ /\ Active \ (call[t].dead \cup {call[t].id}) # {}
          /\ IF call[t].list = <<>> THEN Fail(t) ELSE Retry(t)
    /\ UNCHANGED tables

\* ... and for every transaction that is about to free or to take the one
\* entry of config_generation_single_active; an error if it is taken then.
SingleActiveIndex(t) ==
    /\ call[t].pc = "index"
    /\ \A u \in Client \ {t} : call[u].dead = {} /\ ~(call[u].live /\ call[u].pc = "commit")
    /\ \/ Active \ (call[t].dead \cup {call[t].id}) = {} /\ Goto(t, "commit")
       \/ Active \ (call[t].dead \cup {call[t].id}) # {} /\ Fail(t)
    /\ UNCHANGED tables

-----------------------------------------------------------------------------
\* The inserted generation, inactive.
NewRow(t) == IF call[t].new
             THEN {[id |-> call[t].id, identity |-> Identity(call[t].list),
                    refs |-> RefsOf(call[t].list), active |-> FALSE]}
             ELSE {}

\* config_generation as the transaction leaves it.
Updated(t) == {[g EXCEPT !.active = (@ /\ g.id \notin call[t].dead)
                                        \/ (call[t].live /\ g.id = call[t].id)] :
                 g \in gens \cup NewRow(t)}

\* The answer names the generation.  It was active at some moment of the call
\* if the call asked for that.
Ack(t, seen) == [list |-> call[t].list, id |-> call[t].id, activate |-> call[t].activate,
                 honoured |-> call[t].activate => call[t].id \in seen]

\* notifySchemasUpdated is part of the transaction that activates.
Commit(t) ==
    /\ call[t].pc = "commit"
    /\ call[t].live => sent < MaxSent
    /\ schemas' = schemas \cup call[t].added
    /\ gens' = Updated(t)
    /\ sent' = IF call[t].live THEN sent + 1 ELSE sent
    /\ call' = [u \in Client |->
                  LET seen == call[u].seen \cup ActiveIn(Updated(t))
                  IN  IF u = t THEN [Idle EXCEPT !.ack = Ack(t, seen)]
                      ELSE IF call[u].activate THEN [call[u] EXCEPT !.seen = seen]
                      ELSE call[u]]
    /\ UNCHANGED drawn

\* A cancelled request, a lost connection, a crash, a deadlock.
Abort(t) ==
    /\ call[t].pc # "idle"
    /\ Fail(t)
    /\ UNCHANGED tables

ConfigInit ==
    /\ schemas = {} /\ gens = {} /\ drawn = 0 /\ sent = 0
    /\ call = [t \in Client |-> Idle]

ConfigNext == \E t \in Client :
    \/ RegisterConfigGeneration(t) \/ GetSchema(t) \/ EnsureSchema(t)
    \/ Lookup(t) \/ InsertConfigGeneration(t)
    \/ ActivateConfigGeneration(t) \/ Find(t) \/ Deactivate(t) \/ DeactivateFound(t)
    \/ ActivateRow(t) \/ SingleActiveIndex(t)
    \/ Commit(t) \/ Abort(t)

ConfigSpec == ConfigInit /\ [][ConfigNext]_configVars

-----------------------------------------------------------------------------
(* Properties *)

\* There is never more than one active generation, and from the first
\* activation on never none, whatever activations meet and fail half way.
OneActive ==
    [][/\ Cardinality(Active') <= 1
       /\ Active # {} => Active' # {}]_configVars

\* Registration is idempotent: answers for the same set of schemas, in
\* whatever order, name the same generation, and it lists that set.
IdempotentRegistration ==
    \A t, u \in Client :
        LET a == call[t].ack  b == call[u].ack
            Names(refs) == {refs[i] : i \in DOMAIN refs}
        IN  (a.list # <<>> /\ b.list # <<>>) =>
                /\ (Names(RefsOf(a.list)) = Names(RefsOf(b.list))) <=> (a.id = b.id)
                /\ \E g \in gens : g.id = a.id /\ Names(g.refs) = Names(RefsOf(a.list))

\* A successful call that asks for activation is honoured: its generation was
\* active at some moment between the call and the answer.
ActivationHonoured == \A t \in Client : call[t].ack.honoured

\* The second attempt finds the generation the first one collided with
\* (comment in RegisterConfigGeneration): it never inserts again.
RetryFindsGeneration == \A t \in Client : ~(call[t].attempt = 2 /\ call[t].pc = "insert")

\* Schemas that already exist match the spec and usage of the request
\* (comment on ensureConfigSchemas): what an answered registration listed is
\* what is stored.
StoredAsSent ==
    \A t \in Client : \A i \in DOMAIN call[t].ack.list :
        \E r \in schemas : /\ r.schema = call[t].ack.list[i].schema
                           /\ Matches(call[t].ack.list[i], r)
=============================================================================
