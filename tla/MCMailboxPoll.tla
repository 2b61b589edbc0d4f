--------------------------- MODULE MCMailboxPoll ----------------------------
(***************************************************************************)
(* Constants for checking MailboxPoll.                                     *)
(***************************************************************************)
EXTENDS MailboxPoll

CONSTANTS u1, u2, unit1, p1

To(b, o) == [box |-> b, owner |-> o]

\* Messages to the client's user, to its unit, and to somebody else.
MCAddress == {To("message", u1), To("message", u2), To("inbox", u1), To("inbox", unit1)}

MCFeedOf == [a \in Address |-> IF a.box = "inbox" THEN "inbox" ELSE a.owner]

\* The client joins and leaves the unit.
MCTokens == [p \in Poller |->
    {[sub |-> u1, org |-> "", units |-> us, admin |-> FALSE] : us \in {{}, {unit1}}}]
=============================================================================
