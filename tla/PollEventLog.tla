---------------------------- MODULE PollEventLog ----------------------------
(***************************************************************************)
(* SettingsService.PollEventLog (internal/settings_service.go): clients    *)
(* that tail the eventlog with an after_id cursor and long-poll for the    *)
(* next entry.  All they can see of a writer is its commit, so the log is  *)
(* that of SettingsLog, which SettingsStore implements: an entry's id is   *)
(* its position in the history.                                            *)
(***************************************************************************)
EXTENDS SettingsLog, LongPoll

CONSTANT MaxId  \* last id of the log (bound)

ASSUME PollerAssumption == /\ OwnerOf \in [Doc \cup Prop -> Owner]
                           /\ Batches \subseteq Seq(Prop)
                           /\ MaxId \in Nat

logVars  == <<table, history>>
pollVars == <<logVars, longPollVars>>

-----------------------------------------------------------------------------
(* The log *)

Item(log, i) == [id |-> i, to |-> OwnerOf[log[i].row]]

\* What GetEventLogEntriesAfterId and GetLatestEventLogId select from.
Entries(p) ==
    {m \in {Item(history, i) : i \in 1..Len(history)} : m.to \in getAllOwners(claims[p])}

\* A write of some user, with a notification for each of its entries.
CommitAndNotify ==
    /\ Next
    /\ Len(history') <= MaxId
    /\ Notify([i \in 1..(Len(history') - Len(history)) |->
                 Item(history', Len(history) + i)])

WakesOnLater(p, m) == m.to \in getAllOwners(claims[p]) /\ m.id > cursor[p] + 1
\* The filter OnEventLogUpdate registers.  It keeps the after_id of the
\* request, -1 included, since the goroutine's arguments are evaluated before
\* the bootstrap.
Wakes(p, m) == m.to \in getAllOwners(claims[p]) /\ m.id > cursor[p]
Woken == {p \in Poller : Wakes(p, Head(wire))}

-----------------------------------------------------------------------------
PollInit == Init /\ LongPollInit

PollHandler(p) == Handler(p, Entries(p), Entries(p)) /\ UNCHANGED logVars

PollNext ==
    \/ CommitAndNotify
    \/ (Dispatch(Woken) \/ Disconnect \/ Reconnect) /\ UNCHANGED logVars
    \/ \E p \in Poller :
          \/ PollHandler(p)
          \/ (NewToken(p) \/ Call(p) \/ Register(p) \/ Fail(p)) /\ UNCHANGED logVars

PollSpec == PollInit /\ [][PollNext]_pollVars

\* A handler that can go on does, its timer fires, and a client polls again
\* after every call.
PollFairSpec ==
    /\ PollSpec
    /\ \A p \in Poller : /\ WF_pollVars(PollHandler(p))
                         /\ WF_pollVars(Call(p) /\ UNCHANGED logVars)

-----------------------------------------------------------------------------
(* Properties *)

\* A cursor never skips an entry: whatever a client has polled past since its
\* first answer, and was entitled to in all its calls, it has received.
NoSkip ==
    \A p \in Poller : \A i \in 1..Len(history) :
        (start[p] < i /\ i <= cursor[p] /\ Item(history, i).to \in steady[p]) => i \in got[p]

\* A poll that was listening when it read the log does not sleep through an
\* entry: as long as the LISTEN connection holds, a wakeup is on its way.
NoLostWakeup ==
    \A p \in Poller :
        (ppc[p] = "wait" /\ covered[p] /\ After(p, Entries(p)) # {})
            => \/ woken[p]
               \/ \E i \in 1..Len(wire) : Wakes(p, wire[i])

\* Every entry of an owner that is in all of a client's tokens, from its cursor
\* on, reaches it in the end, however many wakeups are lost to the buffer of
\* one, to the asynchronous registration or with the LISTEN connection.
EventuallyDelivered ==
    \A p \in Poller : \A i \in 1..MaxId :
        (/\ cursor[p] # -1 /\ i > cursor[p] /\ i <= Len(history)
         /\ \A c \in Tokens[p] : Item(history, i).to \in getAllOwners(c))
            ~> (i \in got[p])
=============================================================================
