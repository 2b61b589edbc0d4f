------------------------------ MODULE LongPoll ------------------------------
(***************************************************************************)
(* The long-poll that PollEventLog (internal/settings_service.go),         *)
(* PollMessages and PollInboxMessages (internal/messages_service.go) have  *)
(* in common, with the notifications that wake it.  PollEventLog and       *)
(* MailboxPoll say what is polled; it is items, each with an id and the    *)
(* owner it is for.                                                        *)
(*                                                                         *)
(* A poll is a process of its own.  It reads the database in separate      *)
(* statements, while a second goroutine registers its listener with the    *)
(* FanOut of its replica and the LISTEN connection of that replica may be  *)
(* down: commits, registrations, wakeups and reads interleave freely.  A   *)
(* call may fail (the client goes away, a query fails) and a response may  *)
(* be lost; the client then repeats the call with the cursor it has.       *)
(* Between two calls a client may get a token with other claims.           *)
(***************************************************************************)
EXTENDS Access, Integers, Sequences, FiniteSets

CONSTANTS
    Poller,     \* clients, each with one call at a time
    Tokens,     \* the claims each client may call with
    PageSize,   \* the LIMIT of a page
    MaxFaults   \* lost connections, calls and responses (bound)

ASSUME LongPollAssumption == /\ Tokens \in [Poller -> SUBSET Claims]
                             /\ PageSize \in Nat \ {0}
                             /\ MaxFaults \in Nat

VARIABLES
    up,         \* the replica's LISTEN connection is established
    wire,       \* the items it has been notified of, in commit order
    claims,     \* the claims of each client's token
    ppc,        \* what each client's call is doing
    after,      \* req.AfterId as the handler goes on to use it
    listener,   \* the FanOut registration of the call
    woken,      \* the notifications channel (capacity 1) is full
    cursor,     \* the last_id the client holds, -1 before its first answer
    start,      \* the client holds all it may read after this id, up to the
                \* cursor (history)
    steady,     \* the owners in the claims of every answered call (history)
    got,        \* the ids the client has received (history)
    covered,    \* no notification was missed since the first read (history)
    faults      \* faults so far

plumbing     == <<up, wire>>
clientVars   == <<cursor, start, steady, got>>
longPollVars == <<plumbing, claims, ppc, after, listener, woken, clientVars,
                  covered, faults>>

\* Type correctness of the subscriber, the handlers and the clients.
PollTypeOK ==
    /\ up \in BOOLEAN
    /\ \A i \in DOMAIN wire : wire[i].id \in Nat
    /\ claims \in [Poller -> Claims]
    /\ ppc \in [Poller -> {"client", "bootstrap", "list", "wait", "relist"}]
    /\ after \in [Poller -> Nat \cup {-1}]
    /\ listener \in [Poller -> {"none", "starting", "on"}]
    /\ woken \in [Poller -> BOOLEAN]
    /\ cursor \in [Poller -> Nat \cup {-1}]
    /\ start \in [Poller -> Nat]
    /\ steady \in [Poller -> SUBSET Owner]
    /\ got \in [Poller -> SUBSET Nat]
    /\ covered \in [Poller -> BOOLEAN]
    /\ faults \in 0..MaxFaults

-----------------------------------------------------------------------------
(* Queries *)

IdsOf(items) == {m.id : m \in items}

\* COALESCE(MAX(id), 0)
LatestId(items) == CHOOSE i \in IdsOf(items) \cup {0} : \A j \in IdsOf(items) : j <= i

\* id > @after_id
After(p, items) == {m \in items : m.id > after[p]}

PageUnordered(p, items) ==
    {m \in After(p, items) : Cardinality({n \in After(p, items) : n.id > m.id}) < PageSize}
\* ORDER BY id LIMIT PageSize.
Page(p, items) ==
    {m \in After(p, items) : Cardinality({n \in After(p, items) : n.id < m.id}) < PageSize}

LastIdFromZero(p, page) == CHOOSE i \in {0} \cup page : \A j \in page : j <= i
\* The last_id of a response: that of the page, or the cursor unchanged.
LastId(p, page) == CHOOSE i \in {after[p]} \cup page : \A j \in page : j <= i

-----------------------------------------------------------------------------
(* Notifications *)

\* What PostgreSQL sends when a transaction commits, to the sessions that
\* LISTEN then: a notification for each item, in the order of pg_notify.
Notify(items) ==
    /\ wire' = IF up THEN wire \o items ELSE wire
    /\ UNCHANGED <<up, claims, ppc, after, listener, woken, clientVars, covered, faults>>

\* FanOut: a non-blocking send of the next item to every listener whose filter
\* accepts it.
Dispatch(accepting) ==
    /\ wire # <<>>
    /\ wire' = Tail(wire)
    /\ woken' = [p \in Poller |-> woken[p] \/ (listener[p] = "on" /\ p \in accepting)]
    /\ UNCHANGED <<up, claims, ppc, after, listener, clientVars, covered, faults>>

\* The LISTEN connection is lost with everything still on it.
Disconnect ==
    /\ up /\ faults < MaxFaults
    /\ up' = FALSE
    /\ wire' = <<>>
    /\ covered' = [p \in Poller |-> FALSE]
    /\ faults' = faults + 1
    /\ UNCHANGED <<claims, ppc, after, listener, woken, clientVars>>

\* subscriberRetryOptions: the subscriber is restarted for ever.
Reconnect ==
    /\ ~up
    /\ up' = TRUE
    /\ UNCHANGED <<wire, claims, ppc, after, listener, woken, clientVars, covered, faults>>

-----------------------------------------------------------------------------
(* The handler *)

Goto(p, l) == ppc' = [ppc EXCEPT ![p] = l]

\* The client's next token may have other claims.
NewToken(p) ==
    /\ ppc[p] = "client"
    /\ \E c \in Tokens[p] : claims' = [claims EXCEPT ![p] = c]
    /\ UNCHANGED <<plumbing, ppc, after, listener, woken, clientVars, covered, faults>>

Call(p) ==
    /\ ppc[p] = "client"
    /\ listener' = [listener EXCEPT ![p] = "starting"]
    /\ after' = [after EXCEPT ![p] = cursor[p]]
    /\ Goto(p, IF cursor[p] = -1 THEN "bootstrap" ELSE "list")
    /\ UNCHANGED <<plumbing, claims, woken, clientVars, covered, faults>>

\* The goroutine that registers the listener gets to run.
Register(p) ==
    /\ listener[p] = "starting"
    /\ listener' = [listener EXCEPT ![p] = "on"]
    /\ UNCHANGED <<plumbing, claims, ppc, after, woken, clientVars, covered, faults>>

\* after_id = -1: start from now.
Bootstrap(p, latest) ==
    /\ ppc[p] = "bootstrap"
    /\ after' = [after EXCEPT ![p] = latest]
    /\ Goto(p, "list")
    /\ UNCHANGED <<plumbing, claims, listener, woken, clientVars, covered, faults>>

\* The request context ends with the call and takes the listener with it.
Return(p) ==
    /\ Goto(p, "client")
    /\ listener' = [listener EXCEPT ![p] = "none"]
    /\ woken' = [woken EXCEPT ![p] = FALSE]
    /\ covered' = [covered EXCEPT ![p] = FALSE]
    /\ after' = [after EXCEPT ![p] = -1]
    /\ UNCHANGED <<plumbing, claims>>

\* A response with this page reaches the client, which keeps last_id.
Answer(p, page) ==
    /\ cursor' = [cursor EXCEPT ![p] = LastId(p, page)]
    /\ start' = [start EXCEPT ![p] = IF cursor[p] = -1 THEN after[p] ELSE @]
    /\ got' = [got EXCEPT ![p] = @ \cup page]
    /\ steady' = [steady EXCEPT ![p] = @ \cap getAllOwners(claims[p])]
    /\ UNCHANGED faults
    /\ Return(p)

\* The client sees no response and keeps its cursor.
Lose(p) ==
    /\ faults < MaxFaults
    /\ faults' = faults + 1
    /\ UNCHANGED clientVars
    /\ Return(p)

\* If the client is behind it does not wait.
ListBehind(p, items) ==
    /\ ppc[p] = "list"
    /\ After(p, items) # {}
    /\ Answer(p, IdsOf(Page(p, items)))

ListCaughtUp(p, items) ==
    /\ ppc[p] = "list"
    /\ After(p, items) = {}
    /\ Goto(p, "wait")
    /\ covered' = [covered EXCEPT ![p] = up /\ listener[p] = "on"]
    /\ UNCHANGED <<plumbing, claims, after, listener, woken, clientVars, faults>>

\* case <-notifications
Wake(p) ==
    /\ ppc[p] = "wait" /\ woken[p]
    /\ woken' = [woken EXCEPT ![p] = FALSE]
    /\ Goto(p, "relist")
    /\ UNCHANGED <<plumbing, claims, after, listener, clientVars, covered, faults>>

NoTimeout(p) == FALSE /\ UNCHANGED longPollVars
\* case <-time.After(30 * time.Second)
Timeout(p) ==
    /\ ppc[p] = "wait"
    /\ Goto(p, "relist")
    /\ UNCHANGED <<plumbing, claims, after, listener, woken, clientVars, covered, faults>>

\* The second read answers, with whatever is there.
Relist(p, items) ==
    /\ ppc[p] = "relist"
    /\ Answer(p, IdsOf(Page(p, items)))

\* case <-ctx.Done(), a failed query, or a response that gets lost.
Fail(p) == ppc[p] # "client" /\ Lose(p)

\* The handler, over the items that count for the latest id and those that
\* are listed.
Handler(p, counted, listed) ==
    \/ Bootstrap(p, LatestId(counted))
    \/ ListBehind(p, listed) \/ ListCaughtUp(p, listed)
    \/ Wake(p) \/ Timeout(p) \/ Relist(p, listed)

-----------------------------------------------------------------------------
LongPollInit ==
    /\ up = TRUE /\ wire = <<>> /\ faults = 0
    /\ claims \in [Poller -> UNION {Tokens[p] : p \in Poller}]
    /\ \A p \in Poller : claims[p] \in Tokens[p]
    /\ ppc = [p \in Poller |-> "client"]
    /\ after = [p \in Poller |-> -1]
    /\ listener = [p \in Poller |-> "none"]
    /\ woken = [p \in Poller |-> FALSE]
    /\ cursor \in [Poller -> {-1, 0}]
    /\ start = [p \in Poller |-> 0]
    /\ steady = [p \in Poller |-> Owner]
    /\ got = [p \in Poller |-> {}]
    /\ covered = [p \in Poller |-> FALSE]

-----------------------------------------------------------------------------
(* Properties *)

\* A cursor only moves forward, over answers, failures, retries and tokens.
CursorAdvances == [][\A p \in Poller : cursor'[p] >= cursor[p]]_cursor

\* The rules that say what a client reads and writes agree for every token it
\* may call with.
ClaimsAgree == \A p \in Poller : RulesAgree(claims[p])
=============================================================================
