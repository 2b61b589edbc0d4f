# elephant-user in TLA+

elephant-user keeps per-user data for the Elephant platform: settings documents
and properties, an eventlog of their changes, inbox and system messages, and
the schemas documents are validated against. It is a stateless Go service run
as several replicas over one PostgreSQL database. What is hard about it is the
database: transactions of different replicas interleave statement by statement
at READ COMMITTED, clients tail logs with a cursor and must never miss an
entry, and wakeups (`NOTIFY`) are best effort.

These modules model the service from its code, check it with TLC on small
instances and prove its safety properties with TLAPS.

## Inventory

| Component | Code | State | Operations | Interacts with |
| --- | --- | --- | --- | --- |
| Settings store | `internal/settings_store.go`, `postgres/queries.sql` | tables `user`, `document`, `property`, `eventlog`, `sequence_counter('eventlog')` | UpdateDocument, DeleteDocument, SetProperties, DeleteProperties, reads | PostgreSQL row locks, NOTIFY `event_log_update` |
| PollEventLog | `internal/settings_service.go` | one call: `after_id`, listener, buffer of one; the client's cursor | bootstrap, list, wait, list again | the store's reads, FanOut |
| Notifications | `internal/store.go`, `internal/app.go` | LISTEN connection, registered listeners | notify at commit, dispatch, reconnect | every writer, every long-poll, the validator |
| System messages | `internal/messages_store.go`, `messages_service.go` | `message`, `message_write_lock` | PushMessage, PollMessages | cleaner, NOTIFY |
| Inbox | the same files | `inbox_message`, `inbox_message_state`, `sequence_counter('inbox')` | push, poll, list, read, hide | cleaner, NOTIFY |
| Configuration | `internal/config_store.go`, `config_service.go` | `document_schema`, `config_generation`, `config_generation_schema`, `deprecation` | register, activate, long-poll the active generation | validator, NOTIFY |
| Validator | `internal/validator.go` | compiled validators, active generation id, enforced deprecations | load, reload loop, refresh, stop | configuration store |
| Access rules | `internal/access.go`, the heads of the handlers | none: they decide by the token's claims | getAllOwners, isAllowedOwner, who may write and push | settings and messages services |
| Retention cleaner | `internal/store.go` | the job lock | sweep on acquiring the lock, then on a ticker | inbox and system messages |
| Lifecycle | `internal/app.go`, `cmd/user/main.go` | the task group | run, stop, quit | every background task |

What makes each of them correct, and what threatens it:

* **Settings store.** A write is atomic with its log entries; eventlog ids have
  no gaps and become visible in id order, because readers use `id > after_id`;
  concurrent writers do not deadlock; rolled back writers leave nothing behind.
  Threats: interleaving of statements, rollbacks after ids are reserved, lock
  order, deletes of rows others are writing.
* **PollEventLog.** The cursor skips nothing and never moves back; a committed
  entry reaches every client that keeps polling. Threats: the listener
  registers asynchronously, the buffer holds one wakeup, the LISTEN connection
  drops notifications, calls and responses are lost, `-1` bootstraps.
* **System messages, inbox.** The same cursor promises over other id sources;
  pushes are idempotent per uuid; a reader's state survives concurrent updates
  and never survives its message. Threats: the cleaner between two statements,
  concurrent pushes of one document.
* **Configuration, validator.** One active generation; what is registered is
  what was sent; the validator ends up with the active generation. Threats:
  races of registrations and activations, two-statement reads, lost wakeups.
* **Access.** What a caller may fetch, what it is listed, what it may write and
  what it is told is read-only agree, although each handler has its own check.
  Threats: tokens that gain and lose units and scopes between two polls.
* **Lifecycle, cleaner.** A replica that is told to stop drains and exits
  cleanly, one that breaks does not linger, and expired messages are removed in
  the end. Threats: background tasks that end, or fail, around a stop; crashed
  holders of the job lock; replicas replaced before their first tick.

`PROJECT.json` lists the hazards with the line where each bites, and for each
the properties that cover it. One has none: rings of configuration calls that
wait for each other, about which the code promises nothing.

## Modules

| Module | Models | Kind |
| --- | --- | --- |
| `SettingsStore` | the settings half of `PGStore`: transactions, locks, the counter, the log | detailed specification |
| `SettingsLog` | what the store promises: atomic writes appended to a history | abstract specification |
| `SettingsStoreRefinement` | the mapping from the first to the second | refinement |
| `SystemMessages` | `InsertMessage`: system messages numbered per recipient, and their sweep | detailed specification |
| `InboxStore` | the inbox half of `PGStore`: pushes, read state, the retention sweep | detailed specification |
| `Mailbox` | what both promise: messages delivered in id order, removed by the sweep only | abstract specification |
| `Access` | the rules on reading, listing, writing and pushing | functions of a token |
| `LongPoll` | what the three long-polls of entries and messages have in common, with NOTIFY | parameterised handler |
| `PollEventLog` | `LongPoll` over `SettingsLog` | composition |
| `MailboxPoll` | `LongPoll` over `Mailbox`: PollMessages, PollInboxMessages, ListInboxMessages | composition |
| `ConfigStore` | registration and activation of config generations | detailed specification |
| `ActiveGeneration` | what the configuration store promises: generations never change, one is active, no activation is silent | abstract specification |
| `ConfigStoreRefinement` | the mapping from the former to the latter | refinement |
| `ValidatorReload` | a replica's validator: start, reload loop, refreshes, over `ActiveGeneration` | composition |
| `GenerationPoll` | the long-poll of the active generation, over `ActiveGeneration` | composition |
| `Retention` | replicas: task group, shutdown, crash and restart, the job lock, the cleaner | detailed specification |
| `*Proofs` | theorems about the module they are named after; `LongPollProofs` covers `PollEventLog` and `MailboxPoll` | proofs |
| `MC*` | constants for TLC | model checking |

The specifications are layered at what a reader of the database can see. The
pollers read with single statements and react to notifications sent at commit,
so all they see of a writer is its commit: `PollEventLog` runs over
`SettingsLog`, `MailboxPoll` over `Mailbox`. The runs of the stores check that
each commit is one step of the abstract module, and `SettingsStoreRefinesLog`,
`SystemMessagesRefineMailbox` and `InboxRefinesMailbox` prove it. The pollers'
modules take the abstract actions as they are (`CommitAndNotify`, `Push` and
`Sweep` conjoin them with the notifications), so the two layers meet by
construction and nothing is left to prove there. Mailbox's `last` is the counter
the ids come from: the rows of `message_write_lock`, or the `inbox` counter.

Next to some definitions stands a faulty variant of it under a longer name
(`ReserveIdentity` next to `Reserve`, `StopUnscoped` next to `StopScoped`). No
specification uses them: each is a bug that the code could have had, and
`PROJECT.json` names the property that catches it.

`ValidatorReload` and `GenerationPoll` see the configuration store only through
`ActiveGeneration`: their readers use single statements, so all they can see of
a registration or an activation is its commit, and
`ConfigStoreRefinesActiveGeneration` proves that the commits of `ConfigStore` are
steps of `ActiveGeneration`.

### SettingsStore

A process `t \in Tx` is a connection that runs one store call after another.
`pc[t]` is the statement it runs next: `"user"` (UpsertUser), `"rows"` (the
loop over the request, then `logAndNotifyAll`), `"commit"`. Statements that can
wait for another transaction are separate actions, guarded by the lock they
need. PostgreSQL at READ COMMITTED is modelled by three functions: `held` (row
locks, kept to the end of the transaction), `pending` (the transaction's own
row versions) and `Current` (a statement sees the committed rows and its own
writes). Everything a transaction wrote becomes visible in one step, `Commit`.
`Abort` is possible at any point and stands for a cancelled request, a failed
statement, a lost connection or a crash of the replica.

Documents and properties share one row space, numbered in the order in which
SetProperties and DeleteProperties sort their requests; `OwnerOf` is the owner
column. A row holds the document's version, 0 when absent; properties have no
version. A request for properties says how often it names each row, since the
code neither merges nor refuses repeated keys. The order in which equal keys
are written does not matter to any property: values are abstracted away, as
are payloads, titles, timestamps and `updated_by`. Reservation of ids and the
inserts that follow it are one step: the counter is locked from the
reservation to the end of the transaction and the inserted rows are private
until the commit.

| Action | Code |
| --- | --- |
| `UpdateDocument`, `DeleteDocument`, `SetProperties`, `DeleteProperties` | the store methods, up to their first statement |
| `UpsertUser` | `INSERT INTO "user" ... ON CONFLICT DO NOTHING`: waits for a concurrent creator, locks only what it creates |
| `UpsertRow` | `UpsertDocument`, `UpsertProperty` |
| `DeleteRow` | `DeleteDocument`, `DeleteProperty`; a missing row is skipped and not logged |
| `Reserve`, `NothingToLog` | `logAndNotifyAll` |
| `Commit`, `Abort` | `pg.WithTX` |

### SettingsLog and the refinement

`SettingsLog` has two variables, a table and a history, and four atomic
actions. Under the mapping of `SettingsStoreRefinement` the history is the
eventlog in id order, so the check also says that ids are the order in which
writes happened, that versions count every update since the row was created
(no lost update), and that deleting an absent row leaves no event.

### Access

A token is its claims: `sub`, `org` (possibly empty), `units` and the
`doc_admin` scope. Each handler's rule is a predicate over claims and the owner
named in the request, the empty string standing for a request that names none.
The service has no shared helper for them beyond `isAllowedOwner`, so each has
its own definition, like each handler its own lines: `MayGet` and `GotReadOnly`
(GetDocument), `Lists` and `ListedReadOnly` (ListDocuments), `MayUpdate`,
`MayDelete` and `MayPush`. Some of them are the same formula today; `RulesAgree`
says how they must relate when one of the handlers is changed. The run's tokens
are a plain member of an org and a unit, which is told that both are read-only,
and an admin of the org who is not in the unit.

### LongPoll, PollEventLog and MailboxPoll

PollEventLog, PollMessages and PollInboxMessages have one shape, and `LongPoll`
is that shape over a set of items, each with an id and an owner. Each client is
a process with one call at a time. `ppc` follows the handler: bootstrap of
`after_id = -1`, the first read, the wait, the second read. The listener is
registered by a goroutine of its own (`Register`), at any time after the call or
never; its filter keeps the `after_id` of the request while the bootstrap
changes the handler's. Notifications are sent at commit if the replica's LISTEN
connection is up, delivered in commit order, and dropped for a listener that has
one already. `Disconnect` loses the connection and what is on it. `Fail` ends a
call without a response: a cancelled request, a failed query, a response that
is lost. Between two calls a client may get a token with other claims
(`NewToken`). All pollers share one replica; replicas share nothing but the
database, so this loses no behaviour of one client.

| Action | Code |
| --- | --- |
| `Call`, `Register`, `Bootstrap` | the head of each handler, up to its first listing |
| `ListBehind`, `ListCaughtUp` | the first listing: answer at once, or go on to wait |
| `Wake`, `Timeout`, `Fail` | the `select` over notifications, `time.After` and `ctx.Done` |
| `Relist` | the listing after the wait |
| `CommitAndNotify`, `Push` | a writer's commit with `pg_notify`, of a step of `SettingsLog` or `Mailbox` |
| `Sweep`, `Hide` | the cleaner's DELETE, DeleteInboxMessage from another tab |
| `ListInboxMessages` | the first page (newest first, `latest_id` becomes the cursor) and the ones before `earliest_id` |
| `Dispatch`, `Disconnect`, `Reconnect` | `FanOut`, the subscriber and its retries |

`start`, `steady`, `got` and `covered` are history variables: where the
client's knowledge begins, which owners all its answered calls could read, what
it has received, and whether its listener was registered before the read and
the connection has held since. Hidden messages are not listed but count for the
bootstrap's latest id; `NoMailSkipped` therefore speaks of what is still there
and not hidden. A client of the inbox pages back and polls forward
interleaved; for it `start` is `earliest_id - 1`.

### SystemMessages

A push is a transaction of three statements: `UpsertUser`, which waits for
another transaction that is creating the recipient's user row; `NextMessageID`,
which creates or updates the recipient's row of `message_write_lock` and holds it
to the end; and `InsertMessage`, one step with the commit. `id[p] # 0` says that
`p` holds the lock row. Nothing in `InsertMessage` asks whether its id is fresh:
that is `NumberFresh`. That the foreign keys hold (`Referenced`) is a guard, as in
the database, and `RecipientKnown` says that it never refuses a push.
`DeleteOldMessages` removes any set of messages and leaves the lock rows.

### InboxStore

Three kinds of process: pushers (`ppc`), markers (`mpc`) and the sweep. A push
looks the uuid up, reserves an id under the counter's lock, looks the uuid up
again under that lock, and inserts; the insert and its commit are one step,
since nothing that another transaction can see lies between them. A push whose
second lookup finds the message rolls back, which hands the id back. The
unique constraint on recipient and uuid is not a guard of `Insert`: the code
relies on the second lookup, and `NoCollision` says that it may.

A marker checks that the message is readable and writes a state row in a
second statement. Updating a row that is there does not look at the message;
inserting one share-locks the message through the foreign key, waits for a
sweep that has deleted it, and fails if it is gone. The sweep deletes the rows
its snapshot found, any of which may be older than the retention, one at a
time, each after the share locks on it; the cascade to the state rows waits for
their writers and happens in one step with the commit, because no other
transaction can see it earlier.

| Action | Code |
| --- | --- |
| `Push`, `Lookup`, `Reserve`, `Check`, `Insert` | `InsertInboxMessage` |
| `Mark`, `Find` | `readableInboxMessage` |
| `Write`, `CommitMark` | `SetInboxMessageRead`, `HideInboxMessage` |
| `StartSweep`, `DeleteOne`, `CommitSweep` | `DeleteOldInboxMessages` |
| `AbortPush`, `AbortMark`, `AbortSweep` | `pg.WithTX`, shutdown |

`InboxIsMailbox` is the refinement to `Mailbox`: one feed for all recipients,
with the counter as its last id.

### ConfigStore

`call[t]` is one client's call and the transaction it is in: the statement it
runs next, what it has yet to store, and what it has written and not
committed. A schema stands for a `name@version`, with one version per name:
the service refuses a name that is listed twice, and nothing else depends on
names. Specs are compared by equality, which is what `jsonEqual` decides.
`Requests` is the set of lists that registrations send.

Waits are guards: on another transaction's insert of the same schema or
identity hash (`Inserting`, the first conjuncts of `InsertConfigGeneration`),
on row locks (`Locked`), and on the partial unique index that admits one active
row (`SingleActiveIndex`). The deactivating `UPDATE` is two steps: it finds the
active rows in its snapshot, waits for those another transaction has locked,
and updates the ones that are still active; a row that became active meanwhile
is not found, and the index then refuses the activation. Ids come from an
identity column, so `drawn` never goes back. Rings of waiting calls can occur;
PostgreSQL ends them by failing one call, which `Abort` covers. The read of the
answer after the commit is left out: it changes nothing, and generations do not
change either, as the refinement shows.

| Action | Code |
| --- | --- |
| `RegisterConfigGeneration`, `Retry` | `RegisterConfigGeneration`, its loop of two attempts |
| `GetSchema`, `EnsureSchema` | `ensureConfigSchemas` |
| `Lookup`, `InsertConfigGeneration` | `registerConfigGeneration` |
| `ActivateConfigGeneration`, `Find` | `ActivateConfigGeneration`, `activateGenerationTx` |
| `Deactivate`, `DeactivateFound`, `ActivateRow`, `SingleActiveIndex` | `activateConfigGeneration` |
| `Commit`, `Abort` | `pg.WithTX` with `notifySchemasUpdated` |

### ValidatorReload

`vpc` follows one goroutine at a time: `NewValidator`, then `reloadLoop`. A load
is three statements, schemas, id and deprecations; the first two are swapped
in together under the lock, so `ReadID` sets `built` and `reported` in one step.
`read`, `built` and `reported` are ids of generations: a generation never
changes, so its id stands for the validators built from it. The two listeners
are registered by goroutines of their own (`Listen`), the LISTEN connection is
established after `NewValidator` has returned, may drop (`Disconnect`) with
everything on it, and is retried for ever. A failed reload keeps what was there
and goes on with the deprecations; a failed first load fails the start
(`Down`). `RefreshSchemas` hands a channel to the loop, which takes it only
between two loads, and gives up after two seconds; the loop then answers a
channel nobody waits on, while the caller may be asking again.

### GenerationPoll

`ppc` follows a call of `GetActiveConfigGeneration`: compare ids, decide, wait,
read the active row, read the schemas of that row. Time is counted in ticks;
`Wait` ticks are the seconds a call asked for, and time passes only while every
call in progress waits, so a handler takes none. A consumer calls with the id of
the generation it holds. The listener's goroutine, the buffer of one wakeup,
the LISTEN connection and lost responses are as in `LongPoll`; the loop is not,
which is why this handler has a module of its own.

### Retention

Each replica has a process (`live`), a graceful stop in progress (`stop`, then
`quit` after ten seconds) and a group of three tasks: the server, which is
required, the subscriber and the cleaner. A background task first returns, and
then `StopScoped` looks at it: by then the context that it runs under may be
done although it was not when the task broke, which is what makes the function
interesting. `cancelled` and `failed` are the group's context and its error.
The task group, the graceful shutdown and the job lock are a library's and are
modelled from how `app.go` and `store.go` use and describe them.

`job` is what the cleaner does while it holds the lock: sweep `message`, sweep
`inbox_message`, or wait for its ticker. `holder` is the row of `job_lock`,
which a crash leaves behind and another replica takes over; a slow holder goes
on for a while beside its successor (`TakeOver`, `LoseLock`). A table is in
`expired` when it has messages past their retention.

| Action | Code |
| --- | --- |
| `Start`, `Exit`, `Crash` | `runUser`, `Run` |
| `Terminate`, `Quit` | SIGTERM, the deadline of the graceful shutdown |
| `ServerReturns`, `ServerBreaks` | the server task, `CancelOnQuit` |
| `BackgroundReturns`, `BackgroundBreaks`, `StopScoped` | `stopScoped` around the subscriber and the cleaner |
| `Acquire`, `TakeOver`, `LoseLock` | `joblock` as `RunCleaner` uses it |
| `Delete`, `DeleteFails`, `Tick` | `removeOldMessages`, the loop of `RunCleaner` |

## Runs

| Run | Shows | Bounds |
| --- | --- | --- |
| `settings_core` | `GaplessLog`, `CommitOrdered`, `LogExplainsRows`, `OwnersExist`, `NoDeadlock`, `LockOrder`, `WritesAreAtomic` (the refinement of `SettingsLog`) | 2 transactions, 2 owners, 2 documents, 2 properties, keys named up to twice, 3 ids |
| `poll` | `NoSkip`, `NoLostWakeup`, `ClaimsAgree`, `EventuallyDelivered` | 1 client whose token gains and loses the unit and the scope, 3 ids, pages of one, 1 fault |
| `system_messages` | `RecipientKnown`, `DeliversInOrder` (the refinement of `Mailbox`) | 3 pushes, 2 recipients, 3 ids, the sweep |
| `inbox` | `NoCollision`, `IdempotentPush`, `NoOrphanState`, `FlagsApart`, `InboxIsMailbox` (the refinement of `Mailbox`) | 2 pushers, 2 markers of one reader, 2 recipients, 1 uuid, 2 payloads, 2 ids, the sweep |
| `mailbox_poll` | `NoMailSkipped`, `NoLostMailWakeup`, `CursorAdvances`, `NothingLandsBehind`, `MailDelivered` | 1 client of either kind whose token gains and loses a unit, messages to it, its unit and another user, 3 messages, pages of one, 1 fault |
| `retention` | `DrainWindow`, `CleanExit`, `ExitsInTheEnd`, `EventuallySwept` | 2 replicas, 2 faults |
| `config_store` | `IdempotentRegistration`, `ActivationHonoured`, `RetryFindsGeneration`, `OneActive`, `ActivationsAreAtomic` (the refinement of `ActiveGeneration`) | 2 clients, 5 lists of up to two schemas with two specs, 3 generations, 2 notifications |
| `config_race` | `StoredAsSent` is violated | 2 clients, 1 schema version, 2 specs, 2 usages |
| `validator_reload` | `NoLostReload`, `RefreshIsFresh`, `EventuallyCurrent` | 1 caller of refresh, 2 activations, 1 deprecation update, 2 faults |
| `validator_reported` | `ReportedIsBuilt` is violated | 2 activations, no faults |
| `generation_poll` | `NeverMixed`, `NoLostActivation`, `EventuallyHeld` | 1 consumer, 2 generations of two contents, 3 activations, 2 faults |
| `generation_wait` | `WaitsAtMost` is violated | the same with no faults, 2 ticks |

Why the bounds are enough: two transactions give every pair of interleaved
statements, and all conflicts in this code are between two transactions but for
rings of waiting ones, for which `NoDeadlock` is proved for any number, and
pushes to one recipient, which get three: one that waits for another that waits
for a third. Three ids are two batches, one of them of more than one event, or
three commits; ids above `MaxId` are not handed out, so a transaction that would
need one can only roll back. A page of one makes every second unread entry a
page boundary. One fault is enough for each kind because a fault resets the call
it hits and nothing else. Transactions are interchangeable, so the runs without
liveness use symmetry; the others do not. No run turns deadlock checking off.

In the inbox, two pushes of one uuid are the race the second lookup is for, and
a second id lets a swept message be pushed again; two markers of one message and
a sweep are all that can meet at a state row. A client of `mailbox_poll` needs
one message to start from, one to be behind and one to come meanwhile; its
liveness is followed for the middle one, which has a message before and one
after it (`Followed`). That cursors advance is checked here, where an answer may
be empty although the poll was woken (its message was hidden or swept), and
proved for the log as well. System and inbox messages share nothing, so only
messages of the kind that the client reads are pushed. In `poll` the writers are
those of `SettingsLog`: which document is written matters through its owner
alone. Two replicas are a holder of the job lock and one that waits for it; two
faults are a crash and a failing sweep, or two of either. In the configuration
store, two registrations meet at every unique index, and an activation that is
itself waited for fits beside another. Three activations let a generation become
active, be replaced and come back. One consumer or one validator is enough where
they share nothing but the store, and so is one caller of `RefreshSchemas`: the
loop serves one at a time, and a caller that has given up asks again while its
abandoned request is served. `MaxGen` and `MaxSent` stop a call that would draw
another id or send another notification; such a call can only be rolled back.

The type invariants of all specifications are proved. Those of `SettingsStore`
and `ValidatorReload` are checked by their runs too; the other runs spend their
time on properties that say more.

Every property has a mutation of the model in `PROJECT.json` that a plausible
bug of the code corresponds to (unsorted requests, an identity column instead
of the counter, a missing wait, a missing timer, ids taken from the newest
message instead of a counter, a silenced error, ...) and that breaks it.

### What the violations show

Three runs check what a comment or a document of the repository says and end in
a counterexample.

* `config_race`: "Schemas that already exist must match the stored spec and
  usage" (`ensureConfigSchemas`). Two registrations of one new schema version
  with different specs both find it missing; the second one's
  `ON CONFLICT DO NOTHING` waits for the first to commit, inserts nothing and
  succeeds. Its generation has a spec it was never compared or built with.
* `validator_reported`: "the ID of the config generation the current validators
  were built from" (`ActiveGenerationID`). Schemas and id are read in two
  statements; an activation in between gives the validators of the old
  generation under the new id. The wakeup of that activation repairs it if the
  validator is listening, and the periodic reload otherwise, which is why
  `NoLostReload` and `EventuallyCurrent` hold.
* `generation_wait`: "a long-poll of at most 10 s" (`docs/architecture.md`). Each
  pass of the loop starts a timer of its own: a wakeup that does not change the
  id, such as that of an activation the client has already fetched, restarts
  the wait.

### Fairness

`PollFairSpec` and `MailPollFairSpec` assume weak fairness of a handler's own
steps (the goroutine runs, its query is answered or fails, its thirty second
timer fires) and of the client's next call. Nothing is assumed of writers, of
the sweep, of paging back, of the registration of listeners, of the dispatch of
notifications or of the LISTEN connection: a lost wakeup costs a wait, never an
entry. Failures are bounded; a client whose every call fails receives nothing.
Liveness is promised for what all of the client's tokens can read, since a
token may change again before every call.

`RetentionFairSpec` assumes that a replica that is gone is started again (the
orchestrator's business), that tasks that were told to return do, that
statements return, that tickers tick and that a replica that has lost the lock
notices: weak fairness of each. Taking the lock has strong fairness: replicas
may be replaced again and again, which enables and disables it, and the
assumption is that one of them lives longer than the twenty seconds between two
looks at the lock. With weak fairness `EventuallySwept` would be false, and
rightly: a service that is redeployed faster than that never sweeps.
Failures of a delete are bounded: one that fails for ever (`removeOldMessages`
returns before the inbox's turn) leaves the inbox unswept for as long, and the
code promises nothing else. That two replicas sweep at once, one of them not
yet aware that it lost the lock, is possible and harmless, since a sweep is an
idempotent delete.

`ReloadFairSpec` assumes weak fairness of the reload loop alone: its goroutine
runs and the timer of its select fires after five minutes. Nothing is assumed of
the listeners, of notifications, or of a replica that is down being started:
`EventuallyCurrent` allows for a replica that keeps going down.

`GenerationFairSpec` assumes that time passes, that a handler in progress takes
its steps and that the consumer calls again. Again nothing is assumed of
notifications.

## Proofs

The theorems hold for every value of the constants that satisfies the named
assumptions of the modules: any number of transactions, clients, replicas, rows
and faults, any bounds. Each module of proofs has an inductive invariant that is
stronger than what it is for.

* `SettingsStoreProofs`, in three parts.
  * The log: `TypeCorrect`, `LogIsGapless` (`GaplessLog`) and `LogIsCommitOrdered`
    (`CommitOrdered`). `GaplessLog` is not inductive: a commit writes ids computed
    from a counter value read earlier. `LogInv` adds what closes the gap: a lock
    has one holder (`LocksExclusive`), and whoever holds the counter is about to
    commit and has read its committed value (`CounterFresh`).
  * The locks: `LocksAreOrdered` (`LockOrder`) and `WritersNeverDeadlock`
    (`NoDeadlock`). `LockInv` says that rows are locked upwards and the counter
    last. A ring of waiting transactions would give, for each row one of them
    waits for, a larger one; `NoEndlessClimb` shows that no finite set of numbers
    allows that.
  * The rows: `OwnersAlwaysExist` (`OwnersExist`), `LogTellsTheRows`
    (`LogExplainsRows`) and `SettingsStoreRefinesLog` (`WritesAreAtomic`).
    `OwnerInv` says that an upsert has its owner's user row, committed or its own,
    before it writes; `ExplainInv` that the last event a transaction has for a row
    tells the version it is about to commit; `AtomicInv` what makes a commit a
    step of `SettingsLog`: its events are about one document or one owner's
    properties, in order, and were computed from the committed rows, which nobody
    else changes while they are locked. `BatchesAssumption` says that the abstract
    module allows every batch a transaction can write.
* `SystemMessagesProofs`. `NumbersAreFresh`, `RecipientsAreKnown`
  (`RecipientKnown`) and `SystemMessagesRefineMailbox` (`DeliversInOrder`): the
  step simulation of `Mailbox`. `NumberFresh` becomes inductive with `LockAhead`:
  the lock row of a recipient is never behind its messages.
* `InboxStoreProofs`. `PushesNeverCollide`, `PushesAreIdempotent`,
  `NoStateIsOrphaned`, `NoFlagIsLost` and `InboxRefinesMailbox`. `PushInv` says
  that whoever has an id holds the counter and has drawn the next one, and that
  recipient and uuid are unique; `MarkInv` that a reader who is about to write
  saw a message it may read, that a row it has written is derived from the
  committed one and locked, and that the message of a new row is kept from the
  sweep by the share lock.
* `LongPollProofs`. The lemmas about the handler are stated once, over any set of
  addresses and any listing, and serve the log and the mailbox alike.
  `LongPollOK` ties a client's cursor and its call's `after_id` together and
  bounds both by the largest id there has been; `Awake` says of a waiting and
  covered call that every item behind its read is notified, on the wire or as
  the wakeup it holds. Pages are handled by a lemma on the last id of a finite
  set.
  * The log: `AccessRulesAgree` for every token there can be,
    `ClaimsAlwaysAgree`, `CursorsAdvance`, `NothingIsSkipped` (`NoSkip`) and
    `NoWakeupIsLost` (`NoLostWakeup`). `PollInv` is `LongPollOK` with the length
    of the log, which only grows.
  * The mailbox: `MailCursorsAdvance` (`CursorAdvances`), `MailLandsAhead`
    (`NothingLandsBehind`), `NoMailIsSkipped` (`NoMailSkipped`), `NoMailWakeupIsLost`
    (`NoLostMailWakeup`) and `MailTypeCorrect`. Messages also go, so the bound is
    not the newest message but the counter of the feed (`MailPollInv`): a
    push is beyond it, hence beyond every cursor, which is `NothingLandsBehind`.
    `NoMailSkipped` is not inductive, because a token can regain the owner of
    a message it could not read before; `MailSkipInv` speaks of all messages that
    every answered call could have listed, whatever the token says now. That
    all tokens of a client are of one subject is the assumption `OneSubject`.
* `GenerationPollProofs`. `ResponsesAreNeverMixed` (`NeverMixed`) and
  `NoActivationIsLost` (`NoLostActivation`): between the two reads of an answer
  the generation is registered, and those do not change (`Stable`); what a
  covered call compared is active or a wakeup is coming (`Covered`).
* `ConfigStoreProofs`. `RegistrationsAreIdempotent` (`IdempotentRegistration`),
  `ActivationsAreHonoured` (`ActivationHonoured`), `RetriesFindGenerations`
  (`RetryFindsGeneration`), `OneIsActive` (`OneActive`) and
  `ConfigStoreRefinesActiveGeneration` (`ActivationsAreAtomic`). `TablesOK` has the
  unique keys and the references of the tables; `CallOK` follows one call:
  which schemas it has yet to store (`Ensuring`), that the generation it has
  taken is in the table or is its own (`Knowing`), and that whoever is about to
  commit an activation has deactivated, or is, all that is active
  (`Activating`). What makes it inductive is `Apart`, about two calls: no two
  have inserted the same schema or identity, and at most one is past the
  index with an activation. A retry finds a generation because a call makes its
  second attempt only after it has lost a race to a committed row.
  `ContentAssumption` says that the abstract module allows every list of
  distinct schemas as the content of a generation.
* `ValidatorReloadProofs`. `NoReloadIsLost` (`NoLostReload`) and
  `RefreshesAreFresh` (`RefreshIsFresh`). `Covering` follows what a load with
  its listener there has read from statement to statement: at each, it is what
  the store has or a wakeup is coming. `Serving` says that the load which
  answers a refresh has read something that was in the store after the caller
  asked; it rests on the loop taking a caller's channel only between two loads.
* `RetentionProofs`. `StopsDrain` (`DrainWindow`) and `StopsAreClean`
  (`CleanExit`). `ReturnExplained` is the heart: a cleaner that has returned and
  was not looked at was told to stop, or something broke.

The type invariant of each of these specifications is proved too. With these
theorems every invariant and every action property of a passing run, and each
of the four refinements, holds for all values of the constants.

Only model-checked:

* liveness, which is out of the prover's reach: `EventuallyDelivered`,
  `MailDelivered`, `ExitsInTheEnd`, `EventuallySwept`, `EventuallyCurrent` and
  `EventuallyHeld`;
* the three properties that are violated.

## Plan

Built: everything above. What is left:

1. The end to end statement: a poller of `PollEventLog` over the transactions of
   `SettingsStore` itself. `SettingsStoreRefinesLog` and the theorems about
   `PollEventLog` meet at `SettingsLog`, but no module puts the two together, with
   handlers that read the rows of the eventlog.
2. A property for rings of configuration calls, if the code is ever made to
   promise something about them.

## Not modelled

* What is in a payload, a title or a document, and whether revisor (a library)
  accepts it; the deprecation counters and the other metrics.
* Reads that are one statement and change nothing: GetDocument, ListDocuments,
  GetProperties, the listings of generations and schemas. Who may call them is in
  `Access`.
* Checks of the form of a request in front of registrations and activations:
  names, versions, usages, constraint sets. The lists that pass are the
  constant `Requests`.
* Clocks: `created` comes from the replica, so the order of timestamps is only
  as good as the clocks. No cursor uses them.
* The `kind` column of `user`, row types without behaviour, and the migrations,
  which run before the service starts.
* The libraries: the task group, graceful shutdown, the job lock, `FanOut` and
  the subscriber are external and modelled from how this code uses them;
  authentication is not modelled, a token is taken to be genuine.
