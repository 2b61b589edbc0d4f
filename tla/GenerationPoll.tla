--------------------------- MODULE GenerationPoll ---------------------------
(***************************************************************************)
(* ConfigurationService.GetActiveConfigGeneration                          *)
(* (internal/config_service.go): remote consumers of the schemas           *)
(* long-poll with the id of the generation they have.                      *)
(*                                                                         *)
(* The configuration store is ActiveGeneration.  A call registers its      *)
(* listener in a goroutine, compares ids until they differ or its timer    *)
(* fires, and then reads the active generation in two statements.  Time is *)
(* counted in ticks: handlers take none, waiting does.                     *)
(***************************************************************************)
EXTENDS ActiveGeneration, FiniteSets

CONSTANTS
    Poller,     \* remote consumers, each with one call at a time
    Wait,       \* ticks in wait_seconds, which is at most ten seconds
    Nothing,    \* the response without a generation
    MaxSent,    \* activations (bound)
    MaxFaults   \* lost connections, calls and responses (bound)

ASSUME GenerationPollAssumption == {Wait, MaxGen, MaxSent, MaxFaults} \subseteq Nat

VARIABLES
    up,         \* the replica's LISTEN connection is established
    wire,       \* how many schema_update notifications are on it
    ppc,        \* what each consumer's call is doing
    only,       \* its only_changed
    held,       \* the known_id of the consumer, 0 when it has no generation
    listener,   \* the FanOut registration of the call
    woken,      \* its channel (capacity 1) is full
    left,       \* ticks until the timer of its select fires
    age,        \* ticks since the call (history, up to Wait + 1)
    row,        \* the id the handler has read last, 0 when none or done with
    got,        \* the consumer's last response
    covered,    \* no notification was missed since the comparison (history)
    faults      \* faults so far

storeVars == <<known, active, sent>>
callVars  == <<ppc, only, held, listener, woken, left, age, row, got, covered>>
generationVars == <<storeVars, up, wire, callVars, faults>>

ContentOf(id) == (CHOOSE g \in known : g.id = id).content

\* Type correctness; a call that is over leaves nothing behind.
GenerationTypeOK ==
    /\ active \in 0..MaxGen /\ sent \in 0..MaxSent
    /\ up \in BOOLEAN /\ wire \in 0..MaxSent
    /\ ppc \in [Poller -> {"client", "compare", "decide", "wait", "row", "schemas"}]
    /\ only \in [Poller -> BOOLEAN]
    /\ held \in [Poller -> 0..MaxGen]
    /\ listener \in [Poller -> {"none", "starting", "on"}]
    /\ woken \in [Poller -> BOOLEAN] /\ covered \in [Poller -> BOOLEAN]
    /\ left \in [Poller -> 0..Wait] /\ age \in [Poller -> 0..(Wait + 1)]
    /\ row \in [Poller -> 0..MaxGen]
    /\ got \in [Poller -> {Nothing} \cup [id : 1..MaxGen, content : Content]]
    /\ \A p \in Poller : /\ ppc[p] = "client" => listener[p] = "none" /\ ~woken[p]
                         /\ covered[p] => listener[p] = "on"
    /\ faults \in 0..MaxFaults

-----------------------------------------------------------------------------
(* The store, its notifications, time *)

\* A commit of the configuration store, with its notification if it activates.
Configure ==
    /\ sent < MaxSent
    /\ Next
    /\ wire' = IF up /\ sent' # sent THEN wire + 1 ELSE wire
    /\ UNCHANGED <<up, callVars, faults>>

DispatchUnbuffered ==
    /\ wire > 0
    /\ wire' = wire - 1
    /\ woken' = [p \in Poller |-> woken[p] \/ (listener[p] = "on" /\ ppc[p] = "wait")]
    /\ UNCHANGED <<storeVars, up, ppc, only, held, listener, left, age, row, got, covered, faults>>

\* FanOut.ListenAll: a non-blocking send to every registered listener.
Dispatch ==
    /\ wire > 0
    /\ wire' = wire - 1
    /\ woken' = [p \in Poller |-> woken[p] \/ listener[p] = "on"]
    /\ UNCHANGED <<storeVars, up, ppc, only, held, listener, left, age, row, got, covered, faults>>

Disconnect ==
    /\ up /\ faults < MaxFaults
    /\ up' = FALSE /\ wire' = 0
    /\ covered' = [p \in Poller |-> FALSE]
    /\ faults' = faults + 1
    /\ UNCHANGED <<storeVars, ppc, only, held, listener, woken, left, age, row, got>>

Connect ==
    /\ ~up
    /\ up' = TRUE
    /\ UNCHANGED <<storeVars, wire, callVars, faults>>

\* Time passes while every call in progress waits, and no timer is overdue.
Tick ==
    /\ \E p \in Poller : ppc[p] = "wait"
    /\ \A p \in Poller : ppc[p] = "client" \/ (ppc[p] = "wait" /\ left[p] > 0)
    /\ left' = [p \in Poller |-> IF ppc[p] = "wait" THEN left[p] - 1 ELSE left[p]]
    /\ age' = [p \in Poller |-> IF ppc[p] = "wait" /\ age[p] <= Wait THEN age[p] + 1 ELSE age[p]]
    /\ UNCHANGED <<storeVars, up, wire, ppc, only, held, listener, woken, row, got, covered, faults>>

-----------------------------------------------------------------------------
(* The handler *)

Goto(p, l) == ppc' = [ppc EXCEPT ![p] = l]

Call(p) ==
    /\ ppc[p] = "client"
    /\ \E o \in BOOLEAN : only' = [only EXCEPT ![p] = o]
    /\ listener' = [listener EXCEPT ![p] = "starting"]
    /\ Goto(p, "compare")
    /\ UNCHANGED <<storeVars, up, wire, held, woken, left, age, row, got, covered, faults>>

\* OnSchemaUpdate: the goroutine that registers the listener gets to run.
Listen(p) ==
    /\ listener[p] = "starting"
    /\ listener' = [listener EXCEPT ![p] = "on"]
    /\ UNCHANGED <<storeVars, up, wire, ppc, only, held, woken, left, age, row, got, covered, faults>>

\* GetActiveConfigGenerationID.
ReadID(p) ==
    /\ ppc[p] = "compare"
    /\ row' = [row EXCEPT ![p] = active]
    /\ covered' = [covered EXCEPT ![p] = up /\ listener[p] = "on"]
    /\ Goto(p, "decide")
    /\ UNCHANGED <<storeVars, up, wire, only, held, listener, woken, left, age, got, faults>>

\* The wait is over if the id is not the known one, and starts afresh otherwise.
Decide(p) ==
    /\ ppc[p] = "decide"
    /\ row' = [row EXCEPT ![p] = 0]
    /\ \/ row[p] # held[p] /\ Goto(p, "row") /\ UNCHANGED left
       \/ row[p] = held[p] /\ Goto(p, "wait") /\ left' = [left EXCEPT ![p] = Wait]
    /\ UNCHANGED <<storeVars, up, wire, only, held, listener, woken, age, got, covered, faults>>

\* case <-ch
Wake(p) ==
    /\ ppc[p] = "wait" /\ woken[p]
    /\ woken' = [woken EXCEPT ![p] = FALSE]
    /\ Goto(p, "compare")
    /\ UNCHANGED <<storeVars, up, wire, only, held, listener, left, age, row, got, covered, faults>>

\* The request context ends with the call and takes the listener with it.
Return(p) ==
    /\ Goto(p, "client")
    /\ listener' = [listener EXCEPT ![p] = "none"]
    /\ woken' = [woken EXCEPT ![p] = FALSE]
    /\ left' = [left EXCEPT ![p] = 0] /\ age' = [age EXCEPT ![p] = 0]
    /\ row' = [row EXCEPT ![p] = 0]
    /\ only' = [only EXCEPT ![p] = FALSE]
    /\ covered' = [covered EXCEPT ![p] = FALSE]
    /\ UNCHANGED <<storeVars, up, wire>>

TimeoutAgain(p) ==
    /\ ppc[p] = "wait" /\ left[p] = 0
    /\ left' = [left EXCEPT ![p] = Wait]
    /\ UNCHANGED <<storeVars, up, wire, ppc, only, held, listener, woken, age, row, got,
                   covered, faults>>
\* case <-time.After(timeout): unchanged, and the generation all the same
\* unless only_changed is set.
Timeout(p) ==
    /\ ppc[p] = "wait" /\ left[p] = 0
    /\ \/ only[p] /\ Return(p) /\ UNCHANGED <<held, got, faults>>
       \/ /\ ~only[p] /\ Goto(p, "row")
          /\ UNCHANGED <<storeVars, up, wire, only, held, listener, woken, left, age, row, got,
                         covered, faults>>

Answer(p, response, id) ==
    /\ got' = [got EXCEPT ![p] = response]
    /\ held' = [held EXCEPT ![p] = id]
    /\ UNCHANGED faults
    /\ Return(p)

\* GetActiveConfigGeneration: the active row, if there is one ...
ReadRow(p) ==
    /\ ppc[p] = "row"
    /\ \/ active = 0 /\ Answer(p, Nothing, 0)
       \/ /\ active # 0
          /\ row' = [row EXCEPT ![p] = active]
          /\ Goto(p, "schemas")
          /\ UNCHANGED <<storeVars, up, wire, only, held, listener, woken, left, age, got,
                         covered, faults>>

ReadActiveSchemas(p) ==
    /\ ppc[p] = "schemas"
    /\ Answer(p, [id |-> row[p], content |-> ContentOf(active)], row[p])

\* ... and the schemas of the generation with that id.
ReadSchemas(p) ==
    /\ ppc[p] = "schemas"
    /\ Answer(p, [id |-> row[p], content |-> ContentOf(row[p])], row[p])

\* case <-ctx.Done(), a failed query, a lost response: the consumer tries
\* again with the generation it has.
Fail(p) ==
    /\ ppc[p] # "client" /\ faults < MaxFaults
    /\ faults' = faults + 1
    /\ Return(p)
    /\ UNCHANGED <<held, got>>

-----------------------------------------------------------------------------
GenerationInit ==
    /\ Init
    /\ up = TRUE /\ wire = 0 /\ faults = 0
    /\ ppc = [p \in Poller |-> "client"]
    /\ only = [p \in Poller |-> FALSE]
    /\ held = [p \in Poller |-> 0]
    /\ listener = [p \in Poller |-> "none"]
    /\ woken = [p \in Poller |-> FALSE]
    /\ left = [p \in Poller |-> 0] /\ age = [p \in Poller |-> 0]
    /\ row = [p \in Poller |-> 0]
    /\ got = [p \in Poller |-> Nothing]
    /\ covered = [p \in Poller |-> FALSE]

Handler(p) ==
    \/ ReadID(p) \/ Decide(p) \/ Wake(p) \/ Timeout(p)
    \/ ReadRow(p) \/ ReadSchemas(p)

GenerationNext ==
    \/ Configure \/ Dispatch \/ Disconnect \/ Connect \/ Tick
    \/ \E p \in Poller : Call(p) \/ Listen(p) \/ Handler(p) \/ Fail(p)

GenerationSpec == GenerationInit /\ [][GenerationNext]_generationVars

\* Handlers run, time passes, and a consumer calls again after every call.
GenerationFairSpec ==
    /\ GenerationSpec
    /\ WF_generationVars(Tick)
    /\ \A p \in Poller : WF_generationVars(Handler(p)) /\ WF_generationVars(Call(p))

-----------------------------------------------------------------------------
(* Properties *)

\* The schemas of a response are those of the generation it names, although a
\* concurrent activation may fall between the two reads (comment in
\* GetActiveConfigGeneration).
NeverMixed == \A p \in Poller : got[p] # Nothing => got[p].content = ContentOf(got[p].id)

\* A call that was listening when it compared ids does not sleep through an
\* activation: as long as the LISTEN connection holds, a wakeup is on its way.
NoLostActivation ==
    \A p \in Poller :
        (ppc[p] = "wait" /\ covered[p] /\ active # held[p]) => woken[p] \/ wire > 0

\* GetActiveConfigGeneration is a long-poll of at most ten seconds
\* (docs/architecture.md): a call does not wait longer than it asked for.
WaitsAtMost == \A p \in Poller : age[p] <= Wait

\* A consumer that keeps polling ends up with the active generation, whatever
\* notifications and responses are lost.
EventuallyHeld == \A p \in Poller : <>[](held[p] = active)
=============================================================================
