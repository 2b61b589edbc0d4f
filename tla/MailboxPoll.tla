---------------------------- MODULE MailboxPoll -----------------------------
(***************************************************************************)
(* Reading messages (internal/messages_service.go): clients that poll      *)
(* system messages with PollMessages, or the inbox with PollInboxMessages  *)
(* while they page back through it with ListInboxMessages and hide         *)
(* messages in it from another tab.  Meanwhile others push and the         *)
(* retention sweep removes messages.  The two stores are seen as Mailbox.  *)
(***************************************************************************)
EXTENDS Mailbox, LongPoll

LOCAL INSTANCE Functions

CONSTANTS
    MaxMail,    \* messages ever delivered (bound)
    Followed    \* ids whose delivery is checked (bound)

Box == {"message", "inbox"}

\* System messages are numbered per recipient, inbox messages across all.
ASSUME MailboxAssumption ==
    /\ Address \subseteq [box : Box, owner : Owner]
    /\ FeedOf = [a \in Address |-> IF a.box = "inbox" THEN "inbox" ELSE a.owner]
    /\ MaxMail \in Nat /\ Followed \subseteq 1..MaxMail

\* A client is one user, whatever its token says otherwise.
ASSUME OneSubject == \A p \in Poller : \A c, d \in Tokens[p] : c.sub = d.sub

VARIABLES
    box,        \* which messages each client reads
    hidden      \* inbox_message_state: the ids each subject has hidden

mailVars == <<mail, last, box, hidden>>
allVars  == <<mailVars, longPollVars>>

\* Type correctness of the messages and of their readers' state; a feed numbers
\* its messages apart.
MailTypeOK ==
    /\ PollTypeOK
    /\ mail \subseteq [id : Nat \ {0}, to : Address]
    /\ \A m, n \in mail : (m.id = n.id /\ FeedOf[m.to] = FeedOf[n.to]) => m = n
    /\ box \in [Poller -> Box]
    /\ hidden \subseteq [id : Nat \ {0}, subject : Owner]

-----------------------------------------------------------------------------
(* What a client reads *)

\* inboxReader: everything addressed to the caller's sub, org or units.
InboxOf(c) == {[box |-> "inbox", owner |-> o] : o \in getAllOwners(c)}
\* PollMessages: what is addressed to the caller's sub.
MessagesOf(c) == {[box |-> "message", owner |-> c.sub]}

ReadableWith(p, c) == IF box[p] = "inbox" THEN InboxOf(c) ELSE MessagesOf(c)

\* What ListMessagesAfterId and GetLatestMessageId select from.
Messages(p) == {m \in mail : m.to \in MessagesOf(claims[p])}
\* What GetLatestInboxMessageId selects from: hidden messages count.
Inbox(p) == {m \in mail : m.to \in InboxOf(claims[p])}

IsHidden(p, m) == [id |-> m.id, subject |-> claims[p].sub] \in hidden
\* What is listed of it: hidden messages are not.
Shown(p) == {m \in Inbox(p) : ~IsHidden(p, m)}

Listed(p) == IF box[p] = "inbox" THEN Shown(p) ELSE Messages(p)

-----------------------------------------------------------------------------
(* Others *)

\* PushMessage and PushInboxMessage, with the notification of their commit.
\* Messages of a kind that nobody reads are left out (bound): they are in a
\* table and on a channel of their own.
Push == \E a \in Address :
    /\ \E p \in Poller : box[p] = a.box
    /\ FoldFunction(+, 0, last) < MaxMail
    /\ Deliver(a)
    /\ Notify(<<[id |-> last'[FeedOf[a]], to |-> a]>>)
    /\ UNCHANGED <<box, hidden>>

\* DeleteOldMessages or DeleteOldInboxMessages; state rows go with their
\* message.
Sweep ==
    /\ Expire
    /\ \A m, n \in mail \ mail' : m.to.box = n.to.box
    /\ hidden' = {h \in hidden : \E m \in mail' : m.to.box = "inbox" /\ m.id = h.id}
    /\ UNCHANGED <<box, longPollVars>>

\* DeleteInboxMessage, in another tab of the client.
Hide(p) ==
    /\ box[p] = "inbox"
    /\ \E m \in Inbox(p) :
          hidden' = hidden \cup {[id |-> m.id, subject |-> claims[p].sub]}
    /\ UNCHANGED <<mail, last, box, longPollVars>>

-----------------------------------------------------------------------------
(* The client *)

WakesSubject(p, m) == m.to.owner = claims[p].sub /\ m.id > cursor[p]
\* The listener's filter: OnMessageUpdate, OnInboxMessageUpdate.  Like the one
\* of PollEventLog it keeps the after_id of the request.
WakesMail(p, m) == m.to \in ReadableWith(p, claims[p]) /\ m.id > cursor[p]
WokenByMail == {p \in Poller : WakesMail(p, Head(wire))}

OldestFirst(p, older) == {m \in older : Cardinality({n \in older : n.id < m.id}) < PageSize}
\* ORDER BY id DESC LIMIT PageSize.
NewestFirst(p, older) == {m \in older : Cardinality({n \in older : n.id > m.id}) < PageSize}

\* ListInboxMessages: the newest messages at first (before_id = 0), from which
\* the client keeps latest_id to poll after, then those before earliest_id.
\* Both are 0 when there are none.
ListInboxMessages(p) ==
    LET first == cursor[p] = -1
        page  == IdsOf(NewestFirst(p, {m \in Shown(p) : first \/ m.id <= start[p]}))
        latest_id   == CHOOSE i \in page \cup {0} : \A j \in page : j <= i
        earliest_id == CHOOSE i \in page : \A j \in page : i <= j
    IN  /\ box[p] = "inbox" /\ ppc[p] = "client"
        /\ first \/ start[p] > 0
        /\ cursor' = [cursor EXCEPT ![p] = IF first THEN latest_id ELSE @]
        /\ start' = [start EXCEPT ![p] = IF page = {} THEN 0 ELSE earliest_id - 1]
        /\ got' = [got EXCEPT ![p] = @ \cup page]
        /\ steady' = [steady EXCEPT ![p] = @ \cap getAllOwners(claims[p])]
        /\ UNCHANGED <<mailVars, plumbing, claims, ppc, after, listener, woken,
                       covered, faults>>

-----------------------------------------------------------------------------
MailPollInit == MailInit /\ LongPollInit /\ box \in [Poller -> Box] /\ hidden = {}

PollMessages(p) == box[p] = "message" /\ Handler(p, Messages(p), Messages(p))

PollInboxMessages(p) == box[p] = "inbox" /\ Handler(p, Inbox(p), Shown(p))

PollMail(p) == (PollMessages(p) \/ PollInboxMessages(p)) /\ UNCHANGED mailVars

MailPollNext ==
    \/ Push \/ Sweep
    \/ (Dispatch(WokenByMail) \/ Disconnect \/ Reconnect) /\ UNCHANGED mailVars
    \/ \E p \in Poller :
          \/ Hide(p) \/ ListInboxMessages(p) \/ PollMail(p)
          \/ (NewToken(p) \/ Call(p) \/ Register(p) \/ Fail(p)) /\ UNCHANGED mailVars

MailPollSpec == MailPollInit /\ [][MailPollNext]_allVars

\* As in PollEventLog; nobody has to page back, push, hide or sweep.
MailPollFairSpec ==
    /\ MailPollSpec
    /\ \A p \in Poller : /\ WF_allVars(PollMail(p))
                         /\ WF_allVars(Call(p) /\ UNCHANGED mailVars)

-----------------------------------------------------------------------------
(* Properties *)

\* Polling forward and paging back leave no gap: every message that is still
\* there, not hidden, between the earliest and the last id a client has been
\* given, and that all its tokens could read, is one it has received.
NoMailSkipped ==
    \A p \in Poller : \A m \in Listed(p) :
        (start[p] < m.id /\ m.id <= cursor[p] /\ m.to.owner \in steady[p])
            => m.id \in got[p]

\* A poll that was listening when it read the messages does not sleep through
\* one that is still there.
NoLostMailWakeup ==
    \A p \in Poller :
        (ppc[p] = "wait" /\ covered[p] /\ After(p, Listed(p)) # {})
            => \/ woken[p]
               \/ \E i \in 1..Len(wire) : WakesMail(p, wire[i])

\* No message appears at or behind a cursor that polls it now or will with
\* another of the client's tokens, nor behind the id a call goes on from,
\* whatever has been swept in between.
NothingLandsBehind ==
    [][\A p \in Poller : \A m \in mail' \ mail :
          (\E c \in Tokens[p] : m.to \in ReadableWith(p, c))
              => m.id > cursor[p] /\ m.id > after[p]]_allVars

\* A message i that the client can read with any of its tokens.
Due(p, i) == \E m \in mail :
    /\ m.id = i
    /\ box[p] = "inbox" => ~IsHidden(p, m)
    /\ \A c \in Tokens[p] : m.to \in ReadableWith(p, c)

\* Every message from the cursor on that all the client's tokens can read
\* reaches it in the end, unless it expires or is hidden first.
MailDelivered ==
    \A p \in Poller : \A i \in Followed :
        (cursor[p] # -1 /\ i > cursor[p] /\ Due(p, i)) ~> (i \in got[p] \/ ~Due(p, i))
=============================================================================
