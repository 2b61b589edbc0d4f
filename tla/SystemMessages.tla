--------------------------- MODULE SystemMessages ---------------------------
(***************************************************************************)
(* PushMessage (internal/messages_store.go, InsertMessage): system         *)
(* messages are numbered per recipient by the rows of message_write_lock.  *)
(* Pushes are concurrent transactions at READ COMMITTED; a step is a       *)
(* statement, a transaction shows its writes in the step that commits it   *)
(* and may be rolled back before.  The sweep removes messages, and leaves  *)
(* the lock rows and the users behind.                                     *)
(***************************************************************************)
EXTENDS Naturals

CONSTANTS
    Push,       \* PushMessage calls in flight at once
    Recipient,
    MaxId       \* last id of a recipient (bound)

ASSUME SystemAssumption == MaxId \in Nat

VARIABLES
    mail,       \* committed rows of message
    users,      \* committed rows of user
    locks,      \* current_message_id of each recipient, 0 when there is no row
    pc,         \* the next statement of each push
    to,         \* its recipient
    creating,   \* it has inserted the recipient's user row
    id          \* the id it has drawn, 0 when none

tables  == <<mail, users, locks>>
calls   == <<pc, to, creating, id>>
systemVars == <<tables, calls>>

Message == [id : 1..MaxId, to : Recipient]

\* Type correctness; only a transaction that holds a lock row has an id.
SystemTypeOK ==
    /\ mail \subseteq Message
    /\ users \subseteq Recipient
    /\ locks \in [Recipient -> 0..MaxId]
    /\ pc \in [Push -> {"idle", "upsert", "number", "insert"}]
    /\ to \in [Push -> Recipient]
    /\ creating \in [Push -> BOOLEAN]
    /\ id \in [Push -> 0..MaxId]
    /\ \A p \in Push : id[p] # 0 <=> pc[p] = "insert"

-----------------------------------------------------------------------------
(* The transaction *)

Goto(p, l) == pc' = [pc EXCEPT ![p] = l]

\* The other pushes to the same recipient.
Others(p) == {q \in Push \ {p} : to[q] = to[p]}

\* The foreign keys to the recipient's user row hold for this transaction.
Referenced(p) == to[p] \in users \/ creating[p]

End(p) ==
    /\ Goto(p, "idle")
    /\ creating' = [creating EXCEPT ![p] = FALSE]
    /\ id' = [id EXCEPT ![p] = 0]
    /\ UNCHANGED to

PushMessage(p) ==
    /\ pc[p] = "idle"
    /\ \E r \in Recipient : to' = [to EXCEPT ![p] = r]
    /\ Goto(p, "upsert")
    /\ UNCHANGED <<tables, creating, id>>

UpsertUserNotWaiting(p) ==
    /\ pc[p] = "upsert"
    /\ creating' = [creating EXCEPT ![p] =
                      to[p] \notin users /\ \A q \in Others(p) : ~creating[q]]
    /\ Goto(p, "number")
    /\ UNCHANGED <<tables, to, id>>
\* ON CONFLICT (sub) DO NOTHING.  A row that another transaction is creating is
\* waited for.
UpsertUser(p) ==
    /\ pc[p] = "upsert"
    /\ \A q \in Others(p) : ~creating[q]
    /\ creating' = [creating EXCEPT ![p] = to[p] \notin users]
    /\ Goto(p, "number")
    /\ UNCHANGED <<tables, to, id>>

NextFromNewest(p) ==
    LET ids == {m.id : m \in {n \in mail : n.to = to[p]}}
    IN  /\ pc[p] = "number"
        /\ Referenced(p)
        /\ \A q \in Others(p) : pc[q] # "insert"
        /\ locks[to[p]] < MaxId
        /\ id' = [id EXCEPT ![p] = 1 + CHOOSE i \in ids \cup {0} : \A j \in ids : j <= i]
        /\ Goto(p, "insert")
        /\ UNCHANGED <<tables, to, creating>>
\* INSERT ... ON CONFLICT DO UPDATE: the lock row is created on first use, and
\* locked for the rest of the transaction.
NextMessageID(p) ==
    /\ pc[p] = "number"
    /\ Referenced(p)
    /\ \A q \in Others(p) : pc[q] # "insert"
    /\ locks[to[p]] < MaxId
    /\ id' = [id EXCEPT ![p] = locks[to[p]] + 1]
    /\ Goto(p, "insert")
    /\ UNCHANGED <<tables, to, creating>>

\* InsertMessage and the commit, which notifies.
InsertMessage(p) ==
    /\ pc[p] = "insert"
    /\ Referenced(p)
    /\ mail' = mail \cup {[id |-> id[p], to |-> to[p]]}
    /\ users' = users \cup {to[p]}
    /\ locks' = [locks EXCEPT ![to[p]] = id[p]]
    /\ End(p)

\* A failing statement, a broken connection or a caller that gives up.
Abort(p) ==
    /\ pc[p] # "idle"
    /\ End(p)
    /\ UNCHANGED tables

\* DeleteOldMessages.
DeleteOldMessages ==
    /\ \E gone \in SUBSET mail : gone # {} /\ mail' = mail \ gone
    /\ UNCHANGED <<users, locks, calls>>

-----------------------------------------------------------------------------
SystemInit ==
    /\ mail = {} /\ users = {}
    /\ locks = [r \in Recipient |-> 0]
    /\ pc = [p \in Push |-> "idle"]
    /\ to \in [Push -> Recipient]
    /\ creating = [p \in Push |-> FALSE]
    /\ id = [p \in Push |-> 0]

SystemNext ==
    \/ \E p \in Push : \/ PushMessage(p) \/ UpsertUser(p) \/ NextMessageID(p)
                       \/ InsertMessage(p) \/ Abort(p)
    \/ DeleteOldMessages

SystemSpec == SystemInit /\ [][SystemNext]_systemVars

-----------------------------------------------------------------------------
(* Properties *)

\* A drawn id is the next one of its recipient and nobody else's, so that the
\* primary key of message is never violated, whatever is pushed, rolled back
\* or swept meanwhile.
NumberFresh ==
    \A p \in Push : pc[p] = "insert" =>
        /\ id[p] = locks[to[p]] + 1
        /\ \A m \in mail : m.to = to[p] => m.id < id[p]
        /\ \A q \in Others(p) : pc[q] # "insert"

\* A push relies on no user row that another, later rolled back, transaction is
\* creating, so its foreign keys cannot fail, and every message has its user.
RecipientKnown ==
    /\ \A m \in mail : m.to \in users
    /\ \A p \in Push : pc[p] \in {"number", "insert"} => Referenced(p)

\* The store delivers messages as Mailbox promises: in one step each, with the
\* next id of the recipient, never again after a sweep.
Promise == INSTANCE Mailbox WITH
    Address <- Recipient,
    FeedOf  <- [r \in Recipient |-> r],
    last    <- locks

DeliversInOrder == Promise!MailSpec
=============================================================================
