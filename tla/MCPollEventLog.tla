--------------------------- MODULE MCPollEventLog ---------------------------
(***************************************************************************)
(* Constants for checking PollEventLog.                                    *)
(***************************************************************************)
EXTENDS PollEventLog

CONSTANTS u1, org1, unit1, p1

\* Document 1 and properties 3 and 4 belong to the user, 2 to the unit.
MCOwnerOf == [k \in Doc \cup Prop |-> IF k = 2 THEN unit1 ELSE u1]

\* Writes change a property or two.
MCBatches == {<<3>>, <<4>>, <<3, 4>>}

\* The client is a plain member of its org and unit, or an admin of the org who
\* has left the unit.
MCTokens == [p \in Poller |->
    {[sub |-> u1, org |-> org1, units |-> {unit1}, admin |-> FALSE],
     [sub |-> u1, org |-> org1, units |-> {}, admin |-> TRUE]}]
=============================================================================
