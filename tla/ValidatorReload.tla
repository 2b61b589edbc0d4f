-------------------------- MODULE ValidatorReload --------------------------
(***************************************************************************)
(* The validator of a replica (internal/validator.go): it builds its       *)
(* validators from the active config generation when the replica starts,   *)
(* and again whenever schema_update or deprecation_update is notified,     *)
(* RefreshSchemas asks for it, or five minutes have passed.                *)
(*                                                                         *)
(* The configuration store is ActiveGeneration: activations are atomic.    *)
(* The reload loop reads the store in three separate statements; its two   *)
(* listeners are registered by goroutines of their own, and the LISTEN     *)
(* connection of the replica comes and goes.  The replica may go down at   *)
(* any point and be started again.                                         *)
(***************************************************************************)
EXTENDS ActiveGeneration, Sequences

CONSTANTS
    Label,      \* deprecation labels
    Refresher,  \* callers of RefreshSchemas
    Nobody,     \* no caller is being served
    MaxSent,    \* activations (bound)
    MaxToggles, \* deprecation updates (bound)
    MaxFaults   \* failed loads, lost connections and replicas going down (bound)

ASSUME ReloadAssumption == /\ Nobody \notin Refresher
                           /\ {MaxGen, MaxSent, MaxToggles, MaxFaults} \subseteq Nat

VARIABLES
    table,      \* the enforced labels of the deprecation table
    toggles,    \* updates of that table so far
    up,         \* the LISTEN connection is established
    wire,       \* notifications sent on it, in commit order
    listening,  \* the channels whose listener is registered
    woken,      \* the channels whose buffer (capacity 1) is full
    vpc,        \* what the validator does next
    starting,   \* NewValidator has not returned
    read,       \* the generation whose schemas the load in progress has read
    built,      \* the generation the validators were built from
    reported,   \* activeGenerationID
    enforced,   \* enforcedDeprecations
    serving,    \* the caller whose channel the loop closes after this load
    clean,      \* no part of the load in progress has failed (history)
    covered,    \* what has not missed a notification since it was read (history)
    rpc,        \* what each caller of RefreshSchemas is doing
    since,      \* what was active since it asked (history)
    stale,      \* a successful refresh has left something older behind (history)
    faults      \* faults so far

storeVars    == <<known, active, sent, table, toggles>>
listenVars   == <<up, wire, listening, woken>>
loadVars     == <<vpc, starting, read, built, reported, enforced, serving, clean, covered>>
refreshVars  == <<rpc, since, stale>>
reloadVars   == <<storeVars, listenVars, loadVars, refreshVars, faults>>

Channel == {"schema", "deprecation"}
None    == [ids |-> {}, tables |-> {}]

\* Type correctness; a caller is served only while its load runs, so that no
\* channel is closed twice.
ReloadTypeOK ==
    /\ active \in 0..MaxGen /\ sent \in 0..MaxSent
    /\ table \subseteq Label /\ toggles \in 0..MaxToggles
    /\ up \in BOOLEAN /\ wire \in Seq(Channel)
    /\ listening \subseteq Channel /\ woken \subseteq listening /\ covered \subseteq listening
    /\ vpc \in {"down", "schemas", "id", "deprecations", "wait"}
    /\ vpc = "down" \/ starting => listening = {}
    /\ {read, built, reported} \subseteq 0..MaxGen
    /\ enforced \subseteq Label
    /\ serving \in Refresher \cup {Nobody}
    /\ serving # Nobody => vpc \in {"schemas", "id", "deprecations"} /\ ~starting
    /\ rpc \in [Refresher -> {"idle", "asking", "waiting"}]
    /\ \A r \in Refresher : rpc[r] = "waiting" => serving = r
    /\ faults \in 0..MaxFaults

-----------------------------------------------------------------------------
(* The store and its notifications *)

Observe(id, labels) == since' = [r \in Refresher |->
    IF rpc[r] = "idle" THEN None
    ELSE [ids |-> since[r].ids \cup {id}, tables |-> since[r].tables \cup {labels}]]

Send(k) == wire' = IF up THEN Append(wire, k) ELSE wire

\* A commit of the configuration store, with its notification if it activates.
Configure ==
    /\ sent < MaxSent
    /\ Next
    /\ IF sent' # sent THEN Send("schema") ELSE UNCHANGED wire
    /\ Observe(active', table)
    /\ UNCHANGED <<table, toggles, up, listening, woken, loadVars, rpc, stale, faults>>

UpdateDeprecation ==
    /\ toggles < MaxToggles
    /\ toggles' = toggles + 1
    /\ \E l \in Label : table' \in {table \cup {l}, table \ {l}}
    /\ Send("deprecation")
    /\ Observe(active, table')
    /\ UNCHANGED <<known, active, sent, up, listening, woken, loadVars, rpc, stale, faults>>

\* OnSchemaUpdate, OnDeprecationUpdate: each starts a goroutine.
Listen(k) ==
    /\ vpc # "down" /\ ~starting
    /\ k \notin listening
    /\ listening' = listening \cup {k}
    /\ UNCHANGED <<storeVars, up, wire, woken, loadVars, refreshVars, faults>>

\* FanOut: a non-blocking send to the listener, if it is there.
Dispatch ==
    /\ wire # <<>>
    /\ wire' = Tail(wire)
    /\ woken' = woken \cup ({Head(wire)} \cap listening)
    /\ UNCHANGED <<storeVars, up, listening, loadVars, refreshVars, faults>>

Fault == faults < MaxFaults /\ faults' = faults + 1

Disconnect ==
    /\ up /\ Fault
    /\ up' = FALSE /\ wire' = <<>> /\ covered' = {}
    /\ UNCHANGED <<storeVars, listening, woken, vpc, starting, read, built, reported,
                   enforced, serving, clean, refreshVars>>

\* The subscriber is started after the validator, and restarted for ever.
Connect ==
    /\ ~up /\ vpc # "down" /\ ~starting
    /\ up' = TRUE
    /\ UNCHANGED <<storeVars, wire, listening, woken, loadVars, refreshVars, faults>>

-----------------------------------------------------------------------------
(* Loading *)

Goto(l) == vpc' = l

\* NewValidator.
Start ==
    /\ vpc = "down"
    /\ Goto("schemas")
    /\ starting' = TRUE /\ clean' = TRUE
    /\ UNCHANGED <<storeVars, listenVars, read, built, reported, enforced, serving, covered,
                   refreshVars, faults>>

\* loadSchemas: the schemas of the active generation ...
ReadSchemas ==
    /\ vpc = "schemas"
    /\ read' = active
    /\ covered' = IF up THEN {"schema"} \cap listening ELSE {}
    /\ Goto("id")
    /\ UNCHANGED <<storeVars, listenVars, starting, built, reported, enforced, serving, clean,
                   refreshVars, faults>>

\* ... and its id, in a second statement; then both are swapped in.
ReadID ==
    /\ vpc = "id"
    /\ built' = read
    /\ reported' = active
    /\ read' = 0
    /\ Goto("deprecations")
    /\ UNCHANGED <<storeVars, listenVars, starting, enforced, serving, clean, covered,
                   refreshVars, faults>>

\* What a returned RefreshSchemas promises: its load read what was there when
\* it was called, or later.
Fresh(r, labels) == built \in since[r].ids /\ labels \in since[r].tables

Return(R) ==
    /\ rpc' = [r \in Refresher |-> IF r \in R THEN "idle" ELSE rpc[r]]
    /\ since' = [r \in Refresher |-> IF r \in R THEN None ELSE since[r]]

CloseKeeping(ok, labels) ==
    /\ UNCHANGED <<serving, stale>>
    /\ Return({r \in {serving} \cap Refresher : rpc[r] = "waiting"})

\* The end of a round of the loop: the caller it serves returns, if it has not
\* given up.  One that has may be asking again.
Close(ok, labels) ==
    /\ serving' = Nobody
    /\ Return({r \in {serving} \cap Refresher : rpc[r] = "waiting"})
    /\ stale' = (stale \/ \E r \in {serving} \cap Refresher :
                               ok /\ rpc[r] = "waiting" /\ ~Fresh(r, labels))

ReadDraining ==
    /\ vpc = "deprecations"
    /\ enforced' = table
    /\ covered' = covered \cup IF up THEN {"deprecation"} \cap listening ELSE {}
    /\ Close(clean, table)
    /\ Goto("wait")
    /\ starting' = FALSE /\ clean' = TRUE
    /\ woken' = {}
    /\ UNCHANGED <<storeVars, up, wire, listening, read, built, reported, faults>>

\* loadDeprecations; the first load ends with the loop being started.
ReadDeprecations ==
    /\ vpc = "deprecations"
    /\ enforced' = table
    /\ covered' = covered \cup IF up THEN {"deprecation"} \cap listening ELSE {}
    /\ Close(clean, table)
    /\ Goto("wait")
    /\ starting' = FALSE /\ clean' = TRUE
    /\ UNCHANGED <<storeVars, listenVars, read, built, reported, faults>>

\* A failed reload is logged and keeps what was loaded before, ...
FailSchemas ==
    /\ vpc \in {"schemas", "id"} /\ ~starting
    /\ Fault
    /\ read' = 0 /\ clean' = FALSE /\ covered' = {}
    /\ Goto("deprecations")
    /\ UNCHANGED <<storeVars, listenVars, starting, built, reported, enforced, serving, refreshVars>>

FailDeprecations ==
    /\ vpc = "deprecations" /\ ~starting
    /\ Fault
    /\ Close(FALSE, table)
    /\ Goto("wait")
    /\ clean' = TRUE
    /\ UNCHANGED <<storeVars, listenVars, starting, read, built, reported, enforced, covered>>

\* ... a failed first load fails the start of the replica, which may also go
\* down at any other time.
Down ==
    /\ vpc # "down"
    /\ Fault
    /\ Goto("down")
    /\ starting' = FALSE /\ clean' = TRUE /\ serving' = Nobody
    /\ read' = 0 /\ built' = 0 /\ reported' = 0 /\ enforced' = {}
    /\ up' = FALSE /\ wire' = <<>> /\ listening' = {} /\ woken' = {} /\ covered' = {}
    /\ rpc' = [r \in Refresher |-> "idle"] /\ since' = [r \in Refresher |-> None]
    /\ UNCHANGED <<storeVars, stale>>

-----------------------------------------------------------------------------
(* The select of reloadLoop *)

Load ==
    /\ Goto("schemas")
    /\ UNCHANGED <<storeVars, up, wire, listening, starting, read, built, reported, enforced,
                   clean, faults>>

\* case <-schemaSub, <-deprecationSub
Notified(k) ==
    /\ vpc = "wait" /\ k \in woken
    /\ woken' = woken \ {k}
    /\ Load
    /\ UNCHANGED <<covered, serving, refreshVars>>

NoRecheck == FALSE /\ UNCHANGED reloadVars
\* case <-time.After(recheckInterval)
Recheck ==
    /\ vpc = "wait"
    /\ Load
    /\ UNCHANGED <<woken, covered, serving, refreshVars>>

BufferedRefresh(r) ==
    /\ rpc[r] = "asking" /\ serving = Nobody /\ ~starting
    /\ vpc \in {"wait", "schemas", "id", "deprecations"}
    /\ serving' = r
    /\ rpc' = [rpc EXCEPT ![r] = "waiting"]
    /\ vpc' = IF vpc = "wait" THEN "schemas" ELSE vpc
    /\ UNCHANGED <<storeVars, listenVars, starting, read, built, reported, enforced, clean,
                   covered, since, stale, faults>>

\* case refreshChan = <-v.refreshChan: unbuffered, so the loop takes a request
\* between two loads.
TakeRefresh(r) ==
    /\ vpc = "wait" /\ rpc[r] = "asking"
    /\ serving' = r
    /\ rpc' = [rpc EXCEPT ![r] = "waiting"]
    /\ Load
    /\ UNCHANGED <<woken, covered, since, stale>>

RefreshSchemas(r) ==
    /\ vpc # "down" /\ ~starting
    /\ rpc[r] = "idle"
    /\ rpc' = [rpc EXCEPT ![r] = "asking"]
    /\ since' = [since EXCEPT ![r] = [ids |-> {active}, tables |-> {table}]]
    /\ UNCHANGED <<storeVars, listenVars, loadVars, stale, faults>>

\* The two second timeout of RefreshSchemas.
GiveUp(r) ==
    /\ rpc[r] # "idle"
    /\ Return({r})
    /\ UNCHANGED <<storeVars, listenVars, loadVars, stale, faults>>

-----------------------------------------------------------------------------
ReloadInit ==
    /\ Init
    /\ table = {} /\ toggles = 0
    /\ up = FALSE /\ wire = <<>> /\ listening = {} /\ woken = {}
    /\ vpc = "down" /\ starting = FALSE /\ clean = TRUE /\ serving = Nobody
    /\ read = 0 /\ built = 0 /\ reported = 0 /\ enforced = {} /\ covered = {}
    /\ rpc = [r \in Refresher |-> "idle"] /\ since = [r \in Refresher |-> None]
    /\ stale = FALSE /\ faults = 0

\* The steps the loop's goroutine takes by itself.
Loop ==
    \/ ReadSchemas \/ ReadID \/ ReadDeprecations
    \/ (\E k \in Channel : Notified(k)) \/ Recheck
    \/ \E r \in Refresher : TakeRefresh(r)

ReloadNext ==
    \/ Configure \/ UpdateDeprecation
    \/ Dispatch \/ Disconnect \/ Connect
    \/ \E k \in Channel : Listen(k)
    \/ Start \/ Loop \/ FailSchemas \/ FailDeprecations \/ Down
    \/ \E r \in Refresher : RefreshSchemas(r) \/ GiveUp(r)

ReloadSpec == ReloadInit /\ [][ReloadNext]_reloadVars

\* The loop runs and its timer fires.  Nothing is assumed of notifications.
ReloadFairSpec == ReloadSpec /\ WF_reloadVars(Loop)

-----------------------------------------------------------------------------
(* Properties *)

\* What was loaded is older than what the store has.
Outdated(k) == \/ k = "schema" /\ (built # active \/ reported # active)
               \/ k = "deprecation" /\ enforced # table

\* A validator that was listening when it loaded does not sleep on old
\* schemas or deprecations: as long as the LISTEN connection holds, another
\* load is on its way.
NoLostReload ==
    vpc = "wait" => \A k \in covered : Outdated(k) =>
        \/ k \in woken
        \/ \E i \in 1..Len(wire) : wire[i] = k

\* A RefreshSchemas whose load succeeds leaves nothing behind that is older
\* than the call.
RefreshIsFresh == ~stale

\* ActiveGenerationID returns the ID of the config generation the current
\* validators were built from (comment on it), once NewValidator has returned.
ReportedIsBuilt == starting \/ reported = built

\* A replica that stays up ends up validating with the active generation and
\* the enforced deprecations, and reporting them, whatever is lost on the way.
EventuallyCurrent ==
    \/ []<>(vpc = "down")
    \/ <>[](built = active /\ reported = active /\ enforced = table)
=============================================================================
