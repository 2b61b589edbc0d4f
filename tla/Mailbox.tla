------------------------------ MODULE Mailbox -------------------------------
(***************************************************************************)
(* What the two stores of messages promise whoever polls them: a message   *)
(* is delivered in one step, with the next id of the feed its address      *)
(* belongs to, and stays as it is until it expires.  There are no          *)
(* transactions or locks here.  A recipient of system messages is a feed   *)
(* of its own; all inbox messages are one feed.                            *)
(***************************************************************************)
EXTENDS Naturals

CONSTANTS
    Address,    \* what messages are sent to
    FeedOf      \* the feed that numbers the messages of each address

VARIABLES
    mail,       \* the messages there are, each with its id and address
    last        \* the last id of each feed

Feed == {FeedOf[a] : a \in Address}

DeliverAfterNewest(a) ==
    LET f   == FeedOf[a]
        ids == {m.id : m \in {n \in mail : FeedOf[n.to] = f}}
        id  == 1 + CHOOSE i \in ids \cup {0} : \A j \in ids : j <= i
    IN  /\ last' = [last EXCEPT ![f] = id]
        /\ mail' = mail \cup {[id |-> id, to |-> a]}
Deliver(a) ==
    LET f == FeedOf[a]
    IN  /\ last' = [last EXCEPT ![f] = @ + 1]
        /\ mail' = mail \cup {[id |-> last'[f], to |-> a]}

\* The sweep removes what has become too old, in no particular order of ids.
Expire == \E gone \in SUBSET mail :
    /\ gone # {}
    /\ mail' = mail \ gone
    /\ UNCHANGED last

MailInit == mail = {} /\ last = [f \in Feed |-> 0]

MailNext == Expire \/ \E a \in Address : Deliver(a)

MailSpec == MailInit /\ [][MailNext]_<<mail, last>>
=============================================================================
