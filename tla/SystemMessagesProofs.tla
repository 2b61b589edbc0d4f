------------------------ MODULE SystemMessagesProofs -------------------------
(***************************************************************************)
(* Proofs about SystemMessages, for any number of pushes, recipients and   *)
(* messages.                                                               *)
(***************************************************************************)
EXTENDS SystemMessages, TLAPS

-----------------------------------------------------------------------------
(* Type correctness *)

LEMMA SystemInitType == SystemInit => SystemTypeOK
  BY SystemAssumption DEF SystemInit, SystemTypeOK

LEMMA EndType ==
  ASSUME SystemTypeOK, NEW p \in Push, End(p)
  PROVE  /\ pc' \in [Push -> {"idle", "upsert", "number", "insert"}]
         /\ to' \in [Push -> Recipient]
         /\ creating' \in [Push -> BOOLEAN]
         /\ id' \in [Push -> 0..MaxId]
         /\ \A q \in Push : id'[q] # 0 <=> pc'[q] = "insert"
  BY SystemAssumption DEF SystemTypeOK, End, Goto

LEMMA SystemNextType ==
  ASSUME SystemTypeOK, SystemNext
  PROVE  SystemTypeOK'
<1> USE SystemAssumption
<1>1. ASSUME NEW p \in Push, PushMessage(p) PROVE SystemTypeOK'
  BY <1>1 DEF SystemTypeOK, PushMessage, Goto, tables
<1>2. ASSUME NEW p \in Push, UpsertUser(p) PROVE SystemTypeOK'
  BY <1>2 DEF SystemTypeOK, UpsertUser, Goto, tables
<1>3. ASSUME NEW p \in Push, NextMessageID(p) PROVE SystemTypeOK'
  <2>1. locks[to[p]] \in 0..MaxId /\ locks[to[p]] < MaxId
    BY <1>3 DEF SystemTypeOK, NextMessageID
  <2>2. locks[to[p]] + 1 \in 1..MaxId
    BY <2>1
  <2> QED
    BY <1>3, <2>2 DEF SystemTypeOK, NextMessageID, Goto, tables
<1>4. ASSUME NEW p \in Push, InsertMessage(p) PROVE SystemTypeOK'
  <2>1. id[p] \in 1..MaxId /\ to[p] \in Recipient
    BY <1>4 DEF SystemTypeOK, InsertMessage
  <2>2. /\ mail' \subseteq Message
        /\ users' \subseteq Recipient
        /\ locks' \in [Recipient -> 0..MaxId]
    BY <1>4, <2>1 DEF SystemTypeOK, InsertMessage, Message
  <2> QED
    BY <1>4, <2>2, EndType DEF SystemTypeOK, InsertMessage
<1>5. ASSUME NEW p \in Push, Abort(p) PROVE SystemTypeOK'
  BY <1>5, EndType DEF SystemTypeOK, Abort, tables
<1>6. ASSUME DeleteOldMessages PROVE SystemTypeOK'
  BY <1>6 DEF SystemTypeOK, DeleteOldMessages, calls
<1> QED
  BY <1>1, <1>2, <1>3, <1>4, <1>5, <1>6 DEF SystemNext

\* The tables and the calls keep their types.
THEOREM SystemTypeCorrect == SystemSpec => []SystemTypeOK
<1>1. SystemInit => SystemTypeOK
  BY SystemInitType
<1>2. SystemTypeOK /\ [SystemNext]_systemVars => SystemTypeOK'
  <2>1. CASE UNCHANGED systemVars
    BY <2>1 DEF SystemTypeOK, systemVars, tables, calls
  <2> QED
    BY <2>1, SystemNextType
<1> QED
  BY <1>1, <1>2, PTL DEF SystemSpec

-----------------------------------------------------------------------------
(* Ids *)

\* The lock row of a recipient is never behind its messages.  Together with
\* NumberFresh this is inductive.
LockAhead == \A m \in mail : m.id <= locks[m.to]

NumberInv == LockAhead /\ NumberFresh

LEMMA NumberStep ==
  ASSUME SystemTypeOK, NumberInv, SystemNext
  PROVE  NumberInv'
<1> USE SystemAssumption
<1> DEFINE Quiet == UNCHANGED <<mail, locks>>
<1>0. ASSUME NEW p \in Push, Quiet, pc'[p] # "insert",
             \A q \in Push \ {p} : pc'[q] = pc[q] /\ to'[q] = to[q] /\ id'[q] = id[q]
      PROVE  NumberInv'
  BY <1>0 DEF NumberInv, LockAhead, NumberFresh, Others, SystemTypeOK
<1>1. ASSUME NEW p \in Push, PushMessage(p) PROVE NumberInv'
  BY <1>0, <1>1 DEF PushMessage, Goto, tables, SystemTypeOK
<1>2. ASSUME NEW p \in Push, UpsertUser(p) PROVE NumberInv'
  BY <1>0, <1>2 DEF UpsertUser, Goto, tables, SystemTypeOK
<1>3. ASSUME NEW p \in Push, NextMessageID(p) PROVE NumberInv'
  <2>1. LockAhead'
    BY <1>3 DEF NextMessageID, NumberInv, LockAhead, tables
  <2>2. /\ pc' = [pc EXCEPT ![p] = "insert"]
        /\ id' = [id EXCEPT ![p] = locks[to[p]] + 1]
        /\ UNCHANGED <<mail, locks, to>>
        /\ \A q \in Others(p) : pc[q] # "insert"
    BY <1>3 DEF NextMessageID, Goto, tables
  <2>3. \A m \in mail : m.id \in Nat /\ m.to \in Recipient
    BY DEF SystemTypeOK, Message
  <2>4. ASSUME NEW q \in Push, pc'[q] = "insert"
        PROVE  /\ id'[q] = locks'[to'[q]] + 1
               /\ \A m \in mail' : m.to = to'[q] => m.id < id'[q]
               /\ \A r \in Others(q)' : pc'[r] # "insert"
    <3>1. CASE q = p
      <4>1. id'[p] = locks[to[p]] + 1
        BY <2>2 DEF SystemTypeOK
      <4>2. locks[to[p]] \in Nat
        BY DEF SystemTypeOK
      <4>3. \A r \in Others(p)' : pc'[r] # "insert"
        BY <2>2 DEF Others, SystemTypeOK
      <4> QED
        BY <3>1, <4>1, <4>2, <4>3, <2>2, <2>3 DEF NumberInv, LockAhead
    <3>2. CASE q # p
      <4>1. pc[q] = "insert" /\ id'[q] = id[q]
        BY <2>2, <2>4, <3>2 DEF SystemTypeOK
      <4>2. to[q] # to[p]
        BY <2>2, <3>2, <4>1 DEF Others
      <4> QED
        BY <2>2, <3>2, <4>1, <4>2 DEF NumberInv, NumberFresh, Others, SystemTypeOK
    <3> QED
      BY <3>1, <3>2
  <2> QED
    BY <2>1, <2>4 DEF NumberInv, NumberFresh
<1>4. ASSUME NEW p \in Push, InsertMessage(p) PROVE NumberInv'
  <2>1. /\ id[p] = locks[to[p]] + 1
        /\ \A q \in Others(p) : pc[q] # "insert"
        /\ to[p] \in Recipient /\ id[p] \in Nat /\ locks[to[p]] \in Nat
    BY <1>4 DEF InsertMessage, NumberInv, NumberFresh, SystemTypeOK
  <2>2. /\ mail' = mail \cup {[id |-> id[p], to |-> to[p]]}
        /\ locks' = [locks EXCEPT ![to[p]] = id[p]]
        /\ pc' = [pc EXCEPT ![p] = "idle"]
        /\ id' = [id EXCEPT ![p] = 0]
        /\ to' = to
    BY <1>4 DEF InsertMessage, End, Goto
  <2>3. LockAhead'
    <3> SUFFICES ASSUME NEW m \in mail' PROVE m.id <= locks'[m.to]
      BY DEF LockAhead
    <3>1. CASE m \in mail
      <4>1. m.id \in Nat /\ m.to \in Recipient /\ locks[m.to] \in Nat /\ m.id <= locks[m.to]
        BY <3>1 DEF SystemTypeOK, Message, NumberInv, LockAhead
      <4> QED
        BY <2>1, <2>2, <4>1 DEF SystemTypeOK
    <3>2. CASE m \notin mail
      BY <2>1, <2>2, <3>2 DEF SystemTypeOK
    <3> QED
      BY <3>1, <3>2
  <2>4. ASSUME NEW q \in Push, pc'[q] = "insert"
        PROVE  /\ id'[q] = locks'[to'[q]] + 1
               /\ \A m \in mail' : m.to = to'[q] => m.id < id'[q]
               /\ \A r \in Others(q)' : pc'[r] # "insert"
    <3>1. q # p /\ pc[q] = "insert" /\ id'[q] = id[q]
      BY <2>2, <2>4 DEF SystemTypeOK
    <3>2. to[q] # to[p] /\ to[q] \in Recipient
      BY <2>1, <3>1 DEF Others, SystemTypeOK
    <3> QED
      BY <2>2, <3>1, <3>2 DEF NumberInv, NumberFresh, Others, SystemTypeOK
  <2> QED
    BY <2>3, <2>4 DEF NumberInv, NumberFresh
<1>5. ASSUME NEW p \in Push, Abort(p) PROVE NumberInv'
  BY <1>0, <1>5 DEF Abort, End, Goto, tables, SystemTypeOK
<1>6. ASSUME DeleteOldMessages PROVE NumberInv'
  BY <1>6 DEF DeleteOldMessages, calls, NumberInv, LockAhead, NumberFresh, Others
<1> QED
  BY <1>1, <1>2, <1>3, <1>4, <1>5, <1>6 DEF SystemNext

\* Ids of a recipient are drawn one after the other, by one push at a time,
\* each above all its messages: the primary key of message cannot be violated.
THEOREM NumbersAreFresh == SystemSpec => []NumberFresh
<1>1. SystemInit => NumberInv
  BY DEF SystemInit, NumberInv, LockAhead, NumberFresh
<1>2. SystemTypeOK /\ NumberInv /\ [SystemNext]_systemVars => NumberInv'
  <2>1. ASSUME NumberInv, UNCHANGED systemVars PROVE NumberInv'
    BY <2>1 DEF NumberInv, LockAhead, NumberFresh, Others, systemVars, tables, calls
  <2> QED
    BY <2>1, NumberStep
<1>3. NumberInv => NumberFresh
  BY DEF NumberInv
<1> QED
  BY <1>1, <1>2, <1>3, SystemTypeCorrect, PTL DEF SystemSpec

-----------------------------------------------------------------------------
(* Foreign keys *)

LEMMA RecipientStep ==
  ASSUME SystemTypeOK, RecipientKnown, SystemNext
  PROVE  RecipientKnown'
<1>1. ASSUME NEW p \in Push, PushMessage(p) PROVE RecipientKnown'
  BY <1>1 DEF PushMessage, Goto, tables, SystemTypeOK, RecipientKnown, Referenced
<1>2. ASSUME NEW p \in Push, UpsertUser(p) PROVE RecipientKnown'
  BY <1>2 DEF UpsertUser, Goto, tables, SystemTypeOK, RecipientKnown, Referenced
<1>3. ASSUME NEW p \in Push, NextMessageID(p) PROVE RecipientKnown'
  BY <1>3 DEF NextMessageID, Goto, tables, SystemTypeOK, RecipientKnown, Referenced
<1>4. ASSUME NEW p \in Push, InsertMessage(p) PROVE RecipientKnown'
  BY <1>4 DEF InsertMessage, End, Goto, SystemTypeOK, RecipientKnown, Referenced
<1>5. ASSUME NEW p \in Push, Abort(p) PROVE RecipientKnown'
  BY <1>5 DEF Abort, End, Goto, tables, SystemTypeOK, RecipientKnown, Referenced
<1>6. ASSUME DeleteOldMessages PROVE RecipientKnown'
  BY <1>6 DEF DeleteOldMessages, calls, RecipientKnown, Referenced
<1> QED
  BY <1>1, <1>2, <1>3, <1>4, <1>5, <1>6 DEF SystemNext

\* Every message has its recipient's user row, and no push relies on a row that
\* may still be rolled back: the foreign keys cannot fail.
THEOREM RecipientsAreKnown == SystemSpec => []RecipientKnown
<1>1. SystemInit => RecipientKnown
  BY DEF SystemInit, RecipientKnown
<1>2. SystemTypeOK /\ RecipientKnown /\ [SystemNext]_systemVars => RecipientKnown'
  <2>1. ASSUME RecipientKnown, UNCHANGED systemVars PROVE RecipientKnown'
    BY <2>1 DEF RecipientKnown, Referenced, systemVars, tables, calls
  <2> QED
    BY <2>1, RecipientStep
<1> QED
  BY <1>1, <1>2, SystemTypeCorrect, PTL DEF SystemSpec

-----------------------------------------------------------------------------
(* The store implements Mailbox *)

LEMMA SystemInitRefines == SystemInit => Promise!MailInit
<1>1. Promise!Feed = Recipient
  BY DEF Promise!Feed
<1> QED
  BY <1>1 DEF SystemInit, Promise!MailInit

LEMMA SystemStepRefines ==
  ASSUME SystemTypeOK, NumberFresh, SystemNext
  PROVE  Promise!MailNext \/ UNCHANGED <<mail, locks>>
<1>1. ASSUME NEW p \in Push, InsertMessage(p) PROVE Promise!Deliver(to[p])
  <2>1. /\ id[p] = locks[to[p]] + 1 /\ to[p] \in Recipient
        /\ mail' = mail \cup {[id |-> id[p], to |-> to[p]]}
        /\ locks' = [locks EXCEPT ![to[p]] = id[p]]
    BY <1>1 DEF InsertMessage, NumberFresh, SystemTypeOK
  <2>2. locks'[to[p]] = id[p]
    BY <2>1 DEF SystemTypeOK
  <2> QED
    BY <2>1, <2>2 DEF Promise!Deliver
<1>2. ASSUME NEW p \in Push, PushMessage(p) \/ UpsertUser(p) \/ NextMessageID(p) \/ Abort(p)
      PROVE  UNCHANGED <<mail, locks>>
  BY <1>2 DEF PushMessage, UpsertUser, NextMessageID, Abort, tables
<1>3. ASSUME DeleteOldMessages PROVE Promise!Expire
  BY <1>3 DEF DeleteOldMessages, Promise!Expire
<1>4. ASSUME NEW p \in Push, InsertMessage(p) PROVE Promise!MailNext
  BY <1>1, <1>4 DEF Promise!MailNext, SystemTypeOK
<1> QED
  BY <1>2, <1>3, <1>4 DEF SystemNext, Promise!MailNext

\* Every system message is delivered in one step, with the next id of its
\* recipient, and no id is used again after a sweep.
THEOREM SystemMessagesRefineMailbox == SystemSpec => DeliversInOrder
<1>1. SystemInit => Promise!MailInit
  BY SystemInitRefines
<1>2. SystemTypeOK /\ NumberFresh /\ [SystemNext]_systemVars
        => [Promise!MailNext]_<<mail, locks>>
  <2>1. ASSUME UNCHANGED systemVars PROVE UNCHANGED <<mail, locks>>
    BY <2>1 DEF systemVars, tables
  <2> QED
    BY <2>1, SystemStepRefines
<1> QED
  BY <1>1, <1>2, SystemTypeCorrect, NumbersAreFresh, PTL
     DEF SystemSpec, DeliversInOrder, Promise!MailSpec
=============================================================================
