----------------------------- MODULE InboxStore -----------------------------
(***************************************************************************)
(* The inbox half of PGStore (internal/messages_store.go): one row per     *)
(* message however many readers it has, one state row per reader that      *)
(* touched it, and the retention sweep (internal/store.go) that removes    *)
(* both.                                                                   *)
(*                                                                         *)
(* Pushes, markers (SetInboxMessageRead and HideInboxMessage) and the      *)
(* sweep are processes over one PostgreSQL at READ COMMITTED.  A step is a *)
(* statement; a transaction shows its writes in the step that commits it   *)
(* and may be rolled back before.                                          *)
(***************************************************************************)
EXTENDS Naturals, FiniteSets

CONSTANTS
    Pusher,     \* InsertInboxMessage calls in flight at once
    Marker,     \* SetInboxMessageRead and HideInboxMessage calls in flight
    Recipient,  \* owners messages are addressed to
    Uuid,       \* payload document uuids
    Payload,    \* payloads, up to jsonb equality
    Subject,    \* readers
    Owners,     \* the owners in each reader's claims
    MaxId       \* last inbox id the model hands out (bound)

ASSUME InboxAssumption == /\ Owners \in [Subject -> SUBSET Recipient]
                          /\ {} \notin {Recipient, Uuid, Payload, Subject}
                          /\ MaxId \in Nat \ {0}

VARIABLES
    inbox,      \* committed rows of inbox_message
    states,     \* committed rows of inbox_message_state
    counter,    \* committed value of sequence_counter('inbox')
    ppc,        \* the next statement of each push
    doc,        \* the message it pushes
    next,       \* the id it has reserved, 0 when none
    mpc,        \* the next statement of each marker
    mark,       \* its request
    row,        \* the state row it has written and locked
    fresh,      \* it inserted that row: it share-locks the message too
    sweeping,   \* the sweep's DELETE is running
    todo,       \* rows it has still to delete
    gone,       \* rows it has deleted, not committed
    assigned,   \* every message ever stored (history)
    answers     \* every message a push was answered with an id for (history)

pushVars  == <<ppc, doc, next>>
markVars  == <<mpc, mark, row, fresh>>
sweepVars == <<sweeping, todo, gone>>
inboxVars == <<inbox, states, counter, pushVars, markVars, sweepVars,
               assigned, answers>>

Document == [recipient : Recipient, uuid : Uuid, payload : Payload]
Id       == 1..MaxId
Message  == [id : Id, doc : Document]
State    == [id : Id, subject : Subject, read : BOOLEAN, hidden : BOOLEAN]
Request  == [id : Id, subject : Subject, flag : {"read", "unread", "hide"}]

\* Type correctness, with the primary keys of the two tables.
InboxTypeOK ==
    /\ inbox \subseteq Message /\ assigned \subseteq Message /\ answers \subseteq Message
    /\ states \subseteq State
    /\ \A m, n \in inbox : m.id = n.id => m = n
    /\ \A r, s \in states : r.id = s.id /\ r.subject = s.subject => r = s
    /\ counter \in 0..MaxId
    /\ todo \subseteq Id /\ gone \subseteq Id
    /\ ppc \in [Pusher -> {"idle", "lookup", "reserve", "check", "insert"}]
    /\ doc \in [Pusher -> Document]
    /\ next \in [Pusher -> 0..MaxId]
    /\ mpc \in [Marker -> {"idle", "find", "write", "written"}]
    /\ mark \in [Marker -> Request]
    /\ row \in [Marker -> State]
    /\ fresh \in [Marker -> BOOLEAN]
    /\ sweeping \in BOOLEAN

-----------------------------------------------------------------------------
(* PushInboxMessage *)

\* GetInboxMessageByUUID: (recipient, uuid) is unique.
Stored(d) == {m \in inbox : m.doc.recipient = d.recipient /\ m.doc.uuid = d.uuid}

\* What the private state of an idle call holds.
NoDocument == CHOOSE d \in Document : TRUE
NoRequest  == CHOOSE q \in Request : TRUE
NoState    == CHOOSE s \in State : TRUE

\* The push is over, with the id of a message or with an error.
EndPush(p) ==
    /\ ppc' = [ppc EXCEPT ![p] = "idle"]
    /\ next' = [next EXCEPT ![p] = 0]
    /\ doc' = [doc EXCEPT ![p] = NoDocument]

AnswerAny(p) == \E m \in Stored(doc[p]) :
    /\ answers' = answers \cup {[id |-> m.id, doc |-> doc[p]]}
    /\ EndPush(p)
\* existingInboxMessage found the message: its id answers the push.
Answer(p) == \E m \in Stored(doc[p]) :
    /\ m.doc.payload = doc[p].payload
    /\ answers' = answers \cup {[id |-> m.id, doc |-> doc[p]]}
    /\ EndPush(p)

\* It found another payload under the uuid: ErrInboxMessageConflict.
Conflict(p) == \E m \in Stored(doc[p]) :
    /\ m.doc.payload # doc[p].payload
    /\ EndPush(p)
    /\ UNCHANGED answers

\* It found nothing: the push goes on.
GoOn(p, l) ==
    /\ Stored(doc[p]) = {}
    /\ ppc' = [ppc EXCEPT ![p] = l]
    /\ UNCHANGED <<doc, next, answers>>

Push(p) ==
    /\ ppc[p] = "idle"
    /\ \E d \in Document : doc' = [doc EXCEPT ![p] = d]
    /\ ppc' = [ppc EXCEPT ![p] = "lookup"]
    /\ UNCHANGED <<inbox, states, counter, next, markVars, sweepVars,
                   assigned, answers>>

\* The lookup outside of the transaction answers the common retry.
Lookup(p) ==
    /\ ppc[p] = "lookup"
    /\ Answer(p) \/ Conflict(p) \/ GoOn(p, "reserve")
    /\ UNCHANGED <<inbox, states, counter, markVars, sweepVars, assigned>>

ReserveIdentity(p) ==
    /\ ppc[p] = "reserve"
    /\ counter < MaxId
    /\ counter' = counter + 1
    /\ next' = [next EXCEPT ![p] = counter + 1]
    /\ ppc' = [ppc EXCEPT ![p] = "check"]
    /\ UNCHANGED <<inbox, states, doc, markVars, sweepVars, assigned, answers>>

\* ReserveSequenceValues: the counter is locked until the transaction ends.
Reserve(p) ==
    /\ ppc[p] = "reserve"
    /\ \A q \in Pusher : next[q] = 0
    /\ counter < MaxId
    /\ next' = [next EXCEPT ![p] = counter + 1]
    /\ ppc' = [ppc EXCEPT ![p] = "check"]
    /\ UNCHANGED <<inbox, states, counter, doc, markVars, sweepVars,
                   assigned, answers>>

CheckNothing(p) ==
    /\ ppc[p] = "check"
    /\ ppc' = [ppc EXCEPT ![p] = "insert"]
    /\ UNCHANGED <<inbox, states, counter, doc, next, markVars, sweepVars,
                   assigned, answers>>

\* The lookup under the counter's lock.  A push that lost the race is rolled
\* back, which hands its id back.
Check(p) ==
    /\ ppc[p] = "check"
    /\ Answer(p) \/ Conflict(p) \/ GoOn(p, "insert")
    /\ UNCHANGED <<inbox, states, counter, markVars, sweepVars, assigned>>

\* InsertInboxMessage and the commit.
Insert(p) ==
    /\ ppc[p] = "insert"
    /\ LET m == [id |-> next[p], doc |-> doc[p]]
       IN  /\ inbox' = inbox \cup {m}
           /\ assigned' = assigned \cup {m}
           /\ answers' = answers \cup {m}
    /\ counter' = next[p]
    /\ EndPush(p)
    /\ UNCHANGED <<states, markVars, sweepVars>>

AbortPush(p) ==
    /\ ppc[p] # "idle"
    /\ EndPush(p)
    /\ UNCHANGED <<inbox, states, counter, markVars, sweepVars, assigned, answers>>

-----------------------------------------------------------------------------
(* UpdateInboxMessage and DeleteInboxMessage *)

EndMark(c) ==
    /\ mpc' = [mpc EXCEPT ![c] = "idle"]
    /\ fresh' = [fresh EXCEPT ![c] = FALSE]
    /\ mark' = [mark EXCEPT ![c] = NoRequest]
    /\ row' = [row EXCEPT ![c] = NoState]

Mark(c) ==
    /\ mpc[c] = "idle"
    /\ \E q \in Request : mark' = [mark EXCEPT ![c] = q]
    /\ mpc' = [mpc EXCEPT ![c] = "find"]
    /\ UNCHANGED <<inbox, states, counter, pushVars, row, fresh, sweepVars,
                   assigned, answers>>

\* readableInboxMessage, ErrInboxMessageNotFound unless it is addressed to an
\* owner of the reader.
Find(c) ==
    /\ mpc[c] = "find"
    /\ \/ /\ \E m \in inbox : /\ m.id = mark[c].id
                              /\ m.doc.recipient \in Owners[mark[c].subject]
          /\ mpc' = [mpc EXCEPT ![c] = "write"]
          /\ UNCHANGED <<mark, row, fresh>>
       \/ /\ \A m \in inbox : m.id = mark[c].id =>
                 m.doc.recipient \notin Owners[mark[c].subject]
          /\ EndMark(c)
    /\ UNCHANGED <<inbox, states, counter, pushVars, sweepVars, assigned, answers>>

\* The committed state row the request is about, if any.
Existing(c) == {s \in states : s.id = mark[c].id /\ s.subject = mark[c].subject}

MarkedAfresh(q, read, hidden) ==
    [id |-> q.id, subject |-> q.subject, read |-> q.flag = "read", hidden |-> q.flag = "hide"]
\* What the request makes of a state row: each statement sets its own flag.
Marked(q, read, hidden) ==
    [id |-> q.id, subject |-> q.subject,
     read |-> IF q.flag = "hide" THEN read ELSE q.flag = "read",
     hidden |-> hidden \/ q.flag = "hide"]

\* No other transaction has written the state row of c.
StateFree(c) == \A b \in Marker \ {c} :
    mpc[b] = "written" => row[b].id # mark[c].id \/ row[b].subject # mark[c].subject

\* ON CONFLICT DO UPDATE: the row is there and its message is not looked at.
UpdateState(c) == \E s \in Existing(c) :
    /\ row' = [row EXCEPT ![c] = Marked(mark[c], s.read, s.hidden)]
    /\ mpc' = [mpc EXCEPT ![c] = "written"]
    /\ UNCHANGED <<mark, fresh>>

\* A new row: the foreign key share-locks the message, waiting for the sweep
\* if that has deleted it, and fails if it is gone (ErrInboxMessageNotFound).
InsertState(c) ==
    /\ Existing(c) = {}
    /\ mark[c].id \notin gone
    /\ \/ /\ \E m \in inbox : m.id = mark[c].id
          /\ row' = [row EXCEPT ![c] = Marked(mark[c], FALSE, FALSE)]
          /\ fresh' = [fresh EXCEPT ![c] = TRUE]
          /\ mpc' = [mpc EXCEPT ![c] = "written"]
          /\ UNCHANGED mark
       \/ /\ \A m \in inbox : m.id # mark[c].id
          /\ EndMark(c)

Write(c) ==
    /\ mpc[c] = "write"
    /\ StateFree(c)
    /\ UpdateState(c) \/ InsertState(c)
    /\ UNCHANGED <<inbox, states, counter, pushVars, sweepVars, assigned, answers>>

CommitMark(c) ==
    /\ mpc[c] = "written"
    /\ states' = (states \ Existing(c)) \cup {row[c]}
    /\ EndMark(c)
    /\ UNCHANGED <<inbox, counter, pushVars, sweepVars, assigned, answers>>

AbortMark(c) ==
    /\ mpc[c] # "idle"
    /\ EndMark(c)
    /\ UNCHANGED <<inbox, states, counter, pushVars, sweepVars, assigned, answers>>

-----------------------------------------------------------------------------
(* The retention sweep *)

\* DeleteOldInboxMessages: what it deletes is settled when it starts.  Any of
\* the messages may be older than six months by then.
StartSweep ==
    /\ ~sweeping
    /\ sweeping' = TRUE
    /\ todo' \in SUBSET {m.id : m \in inbox}
    /\ UNCHANGED <<inbox, states, counter, pushVars, markVars, gone, assigned, answers>>

\* The next row, once no transaction share-locks it.
DeleteOne ==
    /\ \E i \in todo :
          /\ \A c \in Marker : fresh[c] => row[c].id # i
          /\ todo' = todo \ {i}
          /\ gone' = gone \cup {i}
    /\ UNCHANGED <<inbox, states, counter, pushVars, markVars, sweeping,
                   assigned, answers>>

EndSweep == sweeping' = FALSE /\ todo' = {} /\ gone' = {}

CommitWithoutCascade ==
    /\ sweeping /\ todo = {}
    /\ inbox' = {m \in inbox : m.id \notin gone}
    /\ EndSweep
    /\ UNCHANGED <<states, counter, pushVars, markVars, assigned, answers>>

\* ON DELETE CASCADE removes the state rows, once nobody is writing them, and
\* the statement commits.
CommitSweep ==
    /\ sweeping /\ todo = {}
    /\ \A c \in Marker : mpc[c] = "written" => row[c].id \notin gone
    /\ inbox' = {m \in inbox : m.id \notin gone}
    /\ states' = {s \in states : s.id \notin gone}
    /\ EndSweep
    /\ UNCHANGED <<counter, pushVars, markVars, assigned, answers>>

\* Shutdown, or the job lock is lost.
AbortSweep ==
    /\ sweeping
    /\ EndSweep
    /\ UNCHANGED <<inbox, states, counter, pushVars, markVars, assigned, answers>>

-----------------------------------------------------------------------------
InboxInit ==
    /\ inbox = {} /\ states = {} /\ counter = 0
    /\ ppc = [p \in Pusher |-> "idle"]
    /\ doc = [p \in Pusher |-> NoDocument]
    /\ next = [p \in Pusher |-> 0]
    /\ mpc = [c \in Marker |-> "idle"]
    /\ mark = [c \in Marker |-> NoRequest]
    /\ row = [c \in Marker |-> NoState]
    /\ fresh = [c \in Marker |-> FALSE]
    /\ sweeping = FALSE /\ todo = {} /\ gone = {}
    /\ assigned = {} /\ answers = {}

InboxNext ==
    \/ \E p \in Pusher : \/ Push(p) \/ Lookup(p) \/ Reserve(p) \/ Check(p)
                         \/ Insert(p) \/ AbortPush(p)
    \/ \E c \in Marker : \/ Mark(c) \/ Find(c) \/ Write(c)
                         \/ CommitMark(c) \/ AbortMark(c)
    \/ StartSweep \/ DeleteOne \/ CommitSweep \/ AbortSweep

InboxSpec == InboxInit /\ [][InboxNext]_inboxVars

-----------------------------------------------------------------------------
(* Properties *)

\* The uuid check cannot race: no push is about to insert a second message for
\* a recipient and uuid, which the unique constraint would turn into an
\* internal error (comment on the counter in InsertInboxMessage).
NoCollision == \A p \in Pusher : ppc[p] = "insert" => Stored(doc[p]) = {}

\* An idempotent push: the id a push is answered with is the id of exactly the
\* message it sent, and of no older or later twin of it that is still there.
IdempotentPush == \A a \in answers :
    /\ a \in assigned
    /\ \A m \in Stored(a.doc) : m.id = a.id \/ \A n \in inbox : n.id # a.id

\* The store delivers messages as Mailbox promises, in a single feed: each in
\* one step with the next id across all recipients, so that one after_id covers
\* everything a reader can read, and no id is skipped
\* or used again, whatever is rolled back or swept.
Promise == INSTANCE Mailbox WITH
    Address <- Recipient,
    FeedOf  <- [r \in Recipient |-> "inbox"],
    mail    <- {[id |-> m.id, to |-> m.doc.recipient] : m \in inbox},
    last    <- [f \in {"inbox"} |-> counter]

InboxIsMailbox == Promise!MailSpec

\* Read state belongs to a stored message that is addressed to its reader: the
\* sweep leaves none behind, however it meets readers marking the message.
NoOrphanState == \A s \in states :
    \E m \in inbox : m.id = s.id /\ m.doc.recipient \in Owners[s.subject]

\* There is no un-hide, and hiding a message does not touch is_read, whatever
\* else is marked at the same time.
FlagsApart ==
    [][\A r \in states, s \in states' :
          (r.id = s.id /\ r.subject = s.subject) =>
              /\ r.hidden => s.hidden
              /\ (s.hidden /\ ~r.hidden) => s.read = r.read]_inboxVars
=============================================================================
