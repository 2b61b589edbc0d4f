-------------------------- MODULE InboxStoreProofs --------------------------
(***************************************************************************)
(* Proofs about InboxStore, for any number of concurrent pushes and        *)
(* requests: pushes are idempotent and cannot collide, no read state       *)
(* outlives its message and no flag is lost, and the store implements      *)
(* Mailbox.                                                                *)
(***************************************************************************)
EXTENDS InboxStore, TLAPS

\* Ids: whoever has one holds the counter's lock and has drawn the next id,
\* and an id belongs to one message for ever.
Numbered ==
    /\ \A p \in Pusher : next[p] # 0 <=> ppc[p] \in {"check", "insert"}
    /\ \A p \in Pusher : next[p] # 0 => next[p] = counter + 1
    /\ \A p, q \in Pusher : next[p] # 0 /\ next[q] # 0 => p = q
    /\ \A m \in assigned : m.id <= counter
    /\ \A m, n \in assigned : m.id = n.id => m = n

\* The unique constraint of inbox_message.
UniqueKey == \A m, n \in inbox :
    m.doc.recipient = n.doc.recipient /\ m.doc.uuid = n.doc.uuid => m = n

PushType ==
    /\ inbox \subseteq Message /\ assigned \subseteq Message /\ answers \subseteq Message
    /\ counter \in 0..MaxId
    /\ ppc \in [Pusher -> {"idle", "lookup", "reserve", "check", "insert"}]
    /\ doc \in [Pusher -> Document]
    /\ next \in [Pusher -> 0..MaxId]

PushInv ==
    /\ PushType
    /\ Numbered
    /\ UniqueKey
    /\ inbox \subseteq assigned /\ answers \subseteq assigned
    /\ NoCollision

-----------------------------------------------------------------------------
(* Pushes *)

\* What pushes leave alone, and what the others leave alone.
OthersUnchanged == UNCHANGED <<states, markVars, sweepVars>>
PushUnchanged   == UNCHANGED <<counter, pushVars, assigned, answers>>

LEMMA Defaults ==
  /\ NoDocument \in Document /\ NoRequest \in Request /\ NoState \in State
<1>1. PICK r \in Recipient, u \in Uuid, p \in Payload, s \in Subject : TRUE
  BY InboxAssumption
<1>2. 1 \in Id
  BY InboxAssumption DEF Id
<1>3. [recipient |-> r, uuid |-> u, payload |-> p] \in Document
  BY DEF Document
<1>4. [id |-> 1, subject |-> s, flag |-> "hide"] \in Request
  BY <1>2 DEF Request
<1>5. [id |-> 1, subject |-> s, read |-> FALSE, hidden |-> FALSE] \in State
  BY <1>2 DEF State
<1> QED
  BY <1>3, <1>4, <1>5 DEF NoDocument, NoRequest, NoState

LEMMA MessageType ==
  ASSUME NEW m \in Message
  PROVE  /\ m.id \in 1..MaxId /\ m.id # 0 /\ m.doc \in Document
         /\ m = [id |-> m.id, doc |-> m.doc]
BY InboxAssumption DEF Message, Id

LEMMA DocumentType ==
  ASSUME NEW d \in Document, NEW e \in Document, d.recipient = e.recipient,
         d.uuid = e.uuid, d.payload = e.payload
  PROVE  d = e
BY DEF Document

\* A push that ends hands its id back.
LEMMA EndPushInv ==
  ASSUME PushInv, NEW p \in Pusher, EndPush(p), UNCHANGED <<inbox, counter, assigned>>,
         answers' \subseteq assigned
  PROVE  PushInv'
<1>1. /\ ppc'[p] = "idle" /\ next'[p] = 0
      /\ \A q \in Pusher : q # p => ppc'[q] = ppc[q] /\ next'[q] = next[q] /\ doc'[q] = doc[q]
  BY DEF EndPush, PushInv, PushType
<1>2. PushType'
  BY Defaults, InboxAssumption DEF EndPush, PushInv, PushType
<1>3. Numbered'
  BY <1>1 DEF PushInv, Numbered
<1>4. NoCollision'
  BY <1>1 DEF PushInv, NoCollision, Stored
<1> QED
  BY <1>2, <1>3, <1>4 DEF PushInv, UniqueKey

LEMMA AnswerAssigned ==
  ASSUME PushInv, NEW p \in Pusher, Answer(p)
  PROVE  EndPush(p) /\ answers' \subseteq assigned
<1>1. PICK m \in Stored(doc[p]) :
        /\ m.doc.payload = doc[p].payload
        /\ answers' = answers \cup {[id |-> m.id, doc |-> doc[p]]}
        /\ EndPush(p)
  BY DEF Answer
<1>2. m \in inbox /\ m \in Message /\ doc[p] \in Document
  BY <1>1 DEF Stored, PushInv, PushType
<1>3. m.doc = doc[p]
  BY <1>1, <1>2, MessageType, DocumentType DEF Stored
<1>4. m = [id |-> m.id, doc |-> doc[p]]
  BY <1>2, <1>3, MessageType
<1> QED
  BY <1>1, <1>2, <1>4 DEF PushInv

LEMMA LookInv ==
  ASSUME PushInv, NEW p \in Pusher, Lookup(p) \/ Check(p)
  PROVE  PushInv' /\ OthersUnchanged
<1>1. OthersUnchanged /\ UNCHANGED <<inbox, counter, assigned>>
  BY DEF Lookup, Check, OthersUnchanged
<1>2. CASE Answer(p)
  BY <1>1, <1>2, AnswerAssigned, EndPushInv
<1>3. CASE Conflict(p)
  BY <1>1, <1>3, EndPushInv DEF Conflict, PushInv
<1>4. ASSUME NEW l \in {"reserve", "insert"}, GoOn(p, l),
             l = "insert" <=> ppc[p] = "check"
      PROVE  PushInv'
  <2>1. /\ ppc'[p] = l /\ Stored(doc[p]) = {} /\ UNCHANGED <<doc, next, answers>>
        /\ \A q \in Pusher : q # p => ppc'[q] = ppc[q]
        /\ ppc' \in [Pusher -> {"idle", "lookup", "reserve", "check", "insert"}]
    BY <1>4 DEF GoOn, PushInv, PushType
  <2>2. next[p] # 0 <=> l = "insert"
    BY <1>4 DEF Lookup, Check, PushInv, Numbered
  <2>3. Numbered'
    BY <1>1, <2>1, <2>2 DEF PushInv, Numbered
  <2>4. NoCollision'
    BY <1>1, <2>1 DEF PushInv, NoCollision, Stored
  <2> QED
    BY <1>1, <2>1, <2>3, <2>4 DEF PushInv, PushType, UniqueKey
<1> QED
  BY <1>1, <1>2, <1>3, <1>4 DEF Lookup, Check

LEMMA PushStepInv ==
  ASSUME PushInv, NEW p \in Pusher, Push(p) \/ Reserve(p)
  PROVE  PushInv' /\ OthersUnchanged
<1>1. OthersUnchanged /\ UNCHANGED <<inbox, counter, assigned, answers>>
  BY DEF Push, Reserve, OthersUnchanged
<1>2. CASE Push(p)
  <2>1. /\ ppc[p] = "idle" /\ ppc'[p] = "lookup" /\ next' = next
        /\ \A q \in Pusher : q # p => ppc'[q] = ppc[q] /\ doc'[q] = doc[q]
    BY <1>2 DEF Push, PushInv, PushType
  <2>2. PushType'
    BY <1>1, <1>2 DEF Push, PushInv, PushType
  <2>3. Numbered'
    BY <1>1, <2>1 DEF PushInv, Numbered
  <2>4. NoCollision'
    BY <1>1, <2>1 DEF PushInv, NoCollision, Stored
  <2> QED
    BY <1>1, <2>2, <2>3, <2>4 DEF PushInv, UniqueKey
<1>3. CASE Reserve(p)
  <2>1. /\ ppc'[p] = "check" /\ next'[p] = counter + 1 /\ doc' = doc
        /\ counter \in Nat /\ counter < MaxId
        /\ \A q \in Pusher : next[q] = 0
        /\ \A q \in Pusher : q # p => ppc'[q] = ppc[q] /\ next'[q] = next[q]
    BY <1>3, InboxAssumption DEF Reserve, PushInv, PushType
  <2>2. PushType'
    BY <1>1, <1>3, <2>1, InboxAssumption DEF Reserve, PushInv, PushType
  <2>3. Numbered'
    BY <1>1, <2>1 DEF PushInv, Numbered
  <2>4. NoCollision'
    BY <1>1, <2>1 DEF PushInv, NoCollision, Stored
  <2> QED
    BY <1>1, <2>2, <2>3, <2>4 DEF PushInv, UniqueKey
<1> QED
  BY <1>1, <1>2, <1>3

LEMMA InsertInv ==
  ASSUME PushInv, NEW p \in Pusher, Insert(p)
  PROVE  /\ PushInv' /\ OthersUnchanged
         /\ inbox \subseteq inbox' /\ assigned \subseteq assigned'
<1> DEFINE m == [id |-> next[p], doc |-> doc[p]]
<1>1. /\ ppc[p] = "insert" /\ OthersUnchanged /\ EndPush(p)
      /\ inbox' = inbox \cup {m} /\ assigned' = assigned \cup {m}
      /\ answers' = answers \cup {m} /\ counter' = next[p]
  BY DEF Insert, OthersUnchanged
<1>2. /\ next[p] \in 1..MaxId /\ doc[p] \in Document /\ next[p] = counter + 1
      /\ counter \in Nat
      /\ \A q \in Pusher : q # p => next[q] = 0 /\ ppc[q] \notin {"check", "insert"}
  BY <1>1, InboxAssumption DEF PushInv, PushType, Numbered
<1>3. m \in Message /\ m.id = next[p] /\ m.doc = doc[p]
  BY <1>2 DEF Message, Id
<1>4. /\ ppc'[p] = "idle" /\ next'[p] = 0
      /\ \A q \in Pusher : q # p => ppc'[q] = ppc[q] /\ next'[q] = next[q] /\ doc'[q] = doc[q]
  BY <1>1 DEF EndPush, PushInv, PushType
<1>5. \A n \in assigned : n.id <= counter /\ n.id \in Nat
  BY MessageType, InboxAssumption DEF PushInv, PushType, Numbered
<1> HIDE DEF m
<1>6. PushType'
  BY <1>1, <1>2, <1>3, Defaults, InboxAssumption DEF EndPush, PushInv, PushType
<1>7. Numbered'
  <2>1. \A n \in assigned' : n.id <= counter'
    BY <1>1, <1>2, <1>3, <1>5
  <2>2. \A n, o \in assigned' : n.id = o.id => n = o
    BY <1>1, <1>2, <1>3, <1>5 DEF PushInv, Numbered
  <2>3. \A q \in Pusher : next'[q] = 0 /\ ppc'[q] \notin {"check", "insert"}
    BY <1>2, <1>4
  <2> QED
    BY <2>1, <2>2, <2>3 DEF Numbered
<1>8. UniqueKey'
  <2>1. Stored(doc[p]) = {}
    BY <1>1 DEF PushInv, NoCollision
  <2>2. \A n \in inbox : ~(n.doc.recipient = m.doc.recipient /\ n.doc.uuid = m.doc.uuid)
    BY <1>3, <2>1 DEF Stored
  <2> QED
    BY <1>1, <2>2 DEF PushInv, UniqueKey
<1>9. NoCollision'
  BY <1>2, <1>4 DEF NoCollision
<1> QED
  BY <1>1, <1>6, <1>7, <1>8, <1>9 DEF PushInv

\* The others only remove messages.
LEMMA FewerInv ==
  ASSUME PushInv, PushUnchanged, inbox' \subseteq inbox
  PROVE  PushInv'
BY DEF PushInv, PushUnchanged, pushVars, PushType, Numbered, UniqueKey, NoCollision, Stored

LEMMA AbortPushInv ==
  ASSUME PushInv, NEW p \in Pusher, AbortPush(p)
  PROVE  PushInv' /\ OthersUnchanged
BY EndPushInv DEF AbortPush, OthersUnchanged, PushInv

-----------------------------------------------------------------------------
(* Markers and the sweep *)

MarkType ==
    /\ states \subseteq State
    /\ \A r, s \in states : r.id = s.id /\ r.subject = s.subject => r = s
    /\ todo \subseteq Id /\ gone \subseteq Id
    /\ mpc \in [Marker -> {"idle", "find", "write", "written"}]
    /\ mark \in [Marker -> Request]
    /\ row \in [Marker -> State]
    /\ fresh \in [Marker -> BOOLEAN]
    /\ sweeping \in BOOLEAN

\* A request that found its message was about one its reader can read.
Readable(c) == \E m \in assigned :
    m.id = mark[c].id /\ m.doc.recipient \in Owners[mark[c].subject]

\* A written state row is the request's, is locked, and is what the request
\* makes of the committed row, which is still there; or it is a new one, whose
\* message is there and kept from the sweep by the foreign key.
WrittenRow(c) ==
    /\ row[c].id = mark[c].id /\ row[c].subject = mark[c].subject
    /\ StateFree(c)
    /\ \A s \in Existing(c) : row[c] = Marked(mark[c], s.read, s.hidden)
    /\ fresh[c] \/ Existing(c) # {}

KeptMessage(c) == row[c].id \notin gone /\ \E m \in inbox : m.id = row[c].id

MarkInv ==
    /\ MarkType
    /\ \A c \in Marker : mpc[c] \in {"write", "written"} => Readable(c)
    /\ \A c \in Marker : mpc[c] = "written" => WrittenRow(c)
    /\ \A c \in Marker : fresh[c] => mpc[c] = "written" /\ KeptMessage(c)
    /\ NoOrphanState

LEMMA MoreInv ==
  ASSUME MarkInv, OthersUnchanged, inbox \subseteq inbox', assigned \subseteq assigned'
  PROVE  MarkInv'
<1>1. MarkType'
  BY DEF MarkInv, MarkType, OthersUnchanged, markVars, sweepVars
<1>2. \A c \in Marker : Readable(c) => Readable(c)'
  BY DEF Readable, OthersUnchanged, markVars
<1>3. \A c \in Marker : WrittenRow(c) => WrittenRow(c)'
  BY DEF WrittenRow, StateFree, Existing, OthersUnchanged, markVars
<1>4. \A c \in Marker : KeptMessage(c) => KeptMessage(c)'
  BY DEF KeptMessage, OthersUnchanged, markVars, sweepVars
<1>5. NoOrphanState'
  BY DEF MarkInv, NoOrphanState, OthersUnchanged
<1> QED
  BY <1>1, <1>2, <1>3, <1>4, <1>5 DEF MarkInv, OthersUnchanged, markVars

LEMMA MarkedType ==
  ASSUME NEW q \in Request, NEW read \in BOOLEAN, NEW hidden \in BOOLEAN
  PROVE  /\ Marked(q, read, hidden) \in State
         /\ Marked(q, read, hidden).id = q.id
         /\ Marked(q, read, hidden).subject = q.subject
         /\ hidden => Marked(q, read, hidden).hidden
         /\ Marked(q, read, hidden).hidden /\ ~hidden => Marked(q, read, hidden).read = read
BY DEF Marked, Request, State

\* A step of one marker that leaves the tables alone.
LEMMA MarkerInv ==
  ASSUME MarkInv, NEW c \in Marker, MarkType',
         UNCHANGED <<inbox, assigned, states, gone>>,
         \A b \in Marker : b # c => /\ mpc'[b] = mpc[b] /\ mark'[b] = mark[b]
                                   /\ row'[b] = row[b] /\ fresh'[b] = fresh[b],
         mpc'[c] \in {"write", "written"} => Readable(c)',
         mpc'[c] = "written" => WrittenRow(c)',
         fresh'[c] => mpc'[c] = "written" /\ KeptMessage(c)'
  PROVE  MarkInv'
<1>1. ASSUME NEW b \in Marker, mpc'[b] \in {"write", "written"} PROVE Readable(b)'
  <2>1. b # c => Readable(b)'
    BY <1>1 DEF MarkInv, Readable
  <2> QED
    BY <1>1, <2>1
<1>2. ASSUME NEW b \in Marker, mpc'[b] = "written" PROVE WrittenRow(b)'
  <2>1. CASE b # c
    <3>1. WrittenRow(b)
      BY <1>2, <2>1 DEF MarkInv
    <3>2. Existing(b)' = Existing(b)
      BY <2>1 DEF Existing
    <3>3. StateFree(b)'
      <4> SUFFICES ASSUME NEW d \in Marker \ {b}, mpc'[d] = "written"
                   PROVE  row'[d].id # mark'[b].id \/ row'[d].subject # mark'[b].subject
        BY DEF StateFree
      <4>1. CASE d # c
        BY <2>1, <3>1, <4>1 DEF WrittenRow, StateFree
      <4>2. CASE d = c
        <5>1. WrittenRow(c)'
          BY <4>2
        <5>2. row'[b].id # mark'[c].id \/ row'[b].subject # mark'[c].subject
          BY <1>2, <2>1, <5>1 DEF WrittenRow, StateFree
        <5>3. /\ row'[c].id = mark'[c].id /\ row'[c].subject = mark'[c].subject
              /\ row'[b].id = mark'[b].id /\ row'[b].subject = mark'[b].subject
          BY <2>1, <3>1, <5>1 DEF WrittenRow
        <5> QED
          BY <4>2, <5>2, <5>3
      <4> QED
        BY <4>1, <4>2
    <3> QED
      BY <2>1, <3>1, <3>2, <3>3 DEF WrittenRow
  <2> QED
    BY <1>2, <2>1
<1>3. ASSUME NEW b \in Marker, fresh'[b] PROVE mpc'[b] = "written" /\ KeptMessage(b)'
  BY <1>3 DEF MarkInv, KeptMessage
<1>4. NoOrphanState'
  BY DEF MarkInv, NoOrphanState
<1> QED
  BY <1>1, <1>2, <1>3, <1>4 DEF MarkInv

LEMMA EndMarkInv ==
  ASSUME MarkInv, NEW c \in Marker, EndMark(c), UNCHANGED <<inbox, assigned, states, sweepVars>>
  PROVE  MarkInv'
<1>1. MarkType'
  BY Defaults DEF EndMark, MarkInv, MarkType, sweepVars
<1>2. /\ mpc'[c] = "idle" /\ ~fresh'[c]
      /\ \A b \in Marker : b # c => /\ mpc'[b] = mpc[b] /\ mark'[b] = mark[b]
                                    /\ row'[b] = row[b] /\ fresh'[b] = fresh[b]
  BY DEF EndMark, MarkInv, MarkType
<1> QED
  BY <1>1, <1>2, MarkerInv DEF sweepVars

LEMMA RequestInv ==
  ASSUME PushInv, MarkInv, NEW c \in Marker, Mark(c) \/ Find(c) \/ AbortMark(c)
  PROVE  MarkInv' /\ PushInv'
<1>1. UNCHANGED <<inbox, assigned, states, sweepVars>> /\ PushUnchanged
  BY DEF Mark, Find, AbortMark, PushUnchanged, pushVars
<1>2. CASE EndMark(c)
  BY <1>1, <1>2, EndMarkInv, FewerInv
<1>3. CASE Mark(c)
  <2>1. MarkType'
    BY <1>1, <1>3 DEF Mark, MarkInv, MarkType, sweepVars
  <2>2. /\ mpc'[c] = "find" /\ mpc[c] = "idle" /\ fresh' = fresh
        /\ \A b \in Marker : b # c => /\ mpc'[b] = mpc[b] /\ mark'[b] = mark[b]
                                      /\ row'[b] = row[b]
    BY <1>3 DEF Mark, MarkInv, MarkType
  <2>3. ~fresh'[c]
    BY <2>2 DEF MarkInv
  <2> QED
    BY <1>1, <2>1, <2>2, <2>3, MarkerInv, FewerInv DEF sweepVars
<1>4. CASE Find(c) /\ ~EndMark(c)
  <2>1. /\ mpc[c] = "find" /\ UNCHANGED <<mark, row, fresh>>
        /\ mpc' = [mpc EXCEPT ![c] = "write"]
    BY <1>4 DEF Find
  <2>2. MarkType'
    BY <1>1, <2>1 DEF MarkInv, MarkType, sweepVars
  <2>3. mpc'[c] = "write" /\ ~fresh'[c] /\ \A b \in Marker : b # c => mpc'[b] = mpc[b]
    BY <2>1 DEF MarkInv, MarkType
  <2>4. Readable(c)'
    BY <1>1, <1>4, <2>1 DEF Find, Readable, PushInv
  <2> QED
    BY <1>1, <2>1, <2>2, <2>3, <2>4, MarkerInv, FewerInv DEF sweepVars
<1> QED
  BY <1>2, <1>3, <1>4 DEF AbortMark

LEMMA WriteInv ==
  ASSUME PushInv, MarkInv, NEW c \in Marker, Write(c)
  PROVE  MarkInv' /\ PushInv'
<1>1. /\ UNCHANGED <<inbox, assigned, states, sweepVars>> /\ PushUnchanged
      /\ mpc[c] = "write" /\ StateFree(c) /\ ~fresh[c]
  BY DEF Write, PushUnchanged, pushVars, MarkInv
<1>2. CASE EndMark(c)
  BY <1>1, <1>2, EndMarkInv, FewerInv
<1>3. ASSUME NEW new \in State, row' = [row EXCEPT ![c] = new],
             new.id = mark[c].id, new.subject = mark[c].subject,
             mpc' = [mpc EXCEPT ![c] = "written"], mark' = mark,
             fresh' \in [Marker -> BOOLEAN],
             \A b \in Marker : b # c => fresh'[b] = fresh[b],
             fresh'[c] \/ Existing(c) # {},
             \A s \in Existing(c) : new = Marked(mark[c], s.read, s.hidden),
             fresh'[c] => mark[c].id \notin gone /\ \E m \in inbox : m.id = mark[c].id
      PROVE  MarkInv'
  <2>1. MarkType'
    BY <1>1, <1>3 DEF MarkInv, MarkType, sweepVars
  <2>2. /\ mpc'[c] = "written" /\ row'[c] = new
        /\ \A b \in Marker : b # c => mpc'[b] = mpc[b] /\ row'[b] = row[b]
    BY <1>3 DEF MarkInv, MarkType
  <2>3. Readable(c)'
    BY <1>1, <1>3 DEF MarkInv, Readable
  <2>4. Existing(c)' = Existing(c) /\ StateFree(c)'
    BY <1>1, <1>3, <2>2 DEF Existing, StateFree
  <2>5. WrittenRow(c)'
    BY <1>3, <2>2, <2>4 DEF WrittenRow
  <2>6. fresh'[c] => KeptMessage(c)'
    BY <1>1, <1>3, <2>2 DEF KeptMessage, sweepVars
  <2> QED
    BY <1>1, <1>3, <2>1, <2>2, <2>3, <2>5, <2>6, MarkerInv DEF sweepVars
<1>4. CASE UpdateState(c)
  <2>1. PICK s \in Existing(c) :
          /\ row' = [row EXCEPT ![c] = Marked(mark[c], s.read, s.hidden)]
          /\ mpc' = [mpc EXCEPT ![c] = "written"]
          /\ UNCHANGED <<mark, fresh>>
    BY <1>4 DEF UpdateState
  <2>2. s \in State /\ mark[c] \in Request /\ \A t \in Existing(c) : t = s
    BY <2>1 DEF Existing, MarkInv, MarkType
  <2>3. s.read \in BOOLEAN /\ s.hidden \in BOOLEAN
    BY <2>2 DEF State
  <2> DEFINE new == Marked(mark[c], s.read, s.hidden)
  <2>4. new \in State /\ new.id = mark[c].id /\ new.subject = mark[c].subject
    BY <2>2, <2>3, MarkedType
  <2>5. fresh' \in [Marker -> BOOLEAN] /\ ~fresh'[c] /\ \A b \in Marker : fresh'[b] = fresh[b]
    BY <1>1, <2>1 DEF MarkInv, MarkType
  <2>6. \A t \in Existing(c) : new = Marked(mark[c], t.read, t.hidden)
    BY <2>2
  <2> HIDE DEF new
  <2>7. row' = [row EXCEPT ![c] = new]
    BY <2>1 DEF new
  <2>8. MarkInv'
    BY <1>3, <2>1, <2>4, <2>5, <2>6, <2>7
  <2> QED
    BY <1>1, <2>8, FewerInv
<1>5. CASE InsertState(c) /\ ~EndMark(c)
  <2>1. /\ Existing(c) = {} /\ mark[c].id \notin gone
        /\ \E m \in inbox : m.id = mark[c].id
        /\ row' = [row EXCEPT ![c] = Marked(mark[c], FALSE, FALSE)]
        /\ fresh' = [fresh EXCEPT ![c] = TRUE]
        /\ mpc' = [mpc EXCEPT ![c] = "written"]
        /\ mark' = mark
    BY <1>5 DEF InsertState
  <2>2. mark[c] \in Request /\ fresh \in [Marker -> BOOLEAN]
    BY DEF MarkInv, MarkType
  <2> QED
    BY <1>1, <1>3, <2>1, <2>2, MarkedType, FewerInv
<1> QED
  BY <1>2, <1>4, <1>5 DEF Write

LEMMA CommitMarkInv ==
  ASSUME PushInv, MarkInv, NEW c \in Marker, CommitMark(c)
  PROVE  MarkInv' /\ PushInv'
<1>1. /\ mpc[c] = "written" /\ EndMark(c) /\ states' = (states \ Existing(c)) \cup {row[c]}
      /\ UNCHANGED <<inbox, assigned, sweepVars>> /\ PushUnchanged
  BY DEF CommitMark, PushUnchanged, pushVars
<1>2. WrittenRow(c) /\ Readable(c) /\ row[c] \in State
  BY <1>1 DEF MarkInv, MarkType
<1>3. \A s \in states \ Existing(c) : s.id # row[c].id \/ s.subject # row[c].subject
  BY <1>2 DEF WrittenRow, Existing
<1>4. MarkType'
  BY <1>1, <1>2, <1>3, Defaults DEF EndMark, MarkInv, MarkType, sweepVars
<1>5. /\ mpc'[c] = "idle" /\ ~fresh'[c]
      /\ \A b \in Marker : b # c => /\ mpc'[b] = mpc[b] /\ mark'[b] = mark[b]
                                    /\ row'[b] = row[b] /\ fresh'[b] = fresh[b]
  BY <1>1 DEF EndMark, MarkInv, MarkType
<1>6. ASSUME NEW b \in Marker, mpc'[b] = "written" PROVE WrittenRow(b)'
  <2>1. b # c /\ WrittenRow(b)
    BY <1>5, <1>6 DEF MarkInv
  <2>2. mark[b].id # mark[c].id \/ mark[b].subject # mark[c].subject
    BY <1>1, <1>2, <2>1 DEF WrittenRow, StateFree
  <2>3. Existing(b)' = Existing(b)
    BY <1>1, <1>2, <1>5, <2>1, <2>2 DEF Existing, WrittenRow
  <2>4. StateFree(b)'
    BY <1>5, <2>1 DEF StateFree, WrittenRow
  <2> QED
    BY <1>5, <2>1, <2>3, <2>4 DEF WrittenRow
<1>7. ASSUME NEW b \in Marker, fresh'[b] PROVE mpc'[b] = "written" /\ KeptMessage(b)'
  BY <1>1, <1>5, <1>7 DEF MarkInv, KeptMessage, sweepVars
<1>8. ASSUME NEW b \in Marker, mpc'[b] \in {"write", "written"} PROVE Readable(b)'
  <2>1. b # c
    BY <1>5, <1>8
  <2> QED
    BY <1>1, <1>5, <1>8, <2>1 DEF MarkInv, Readable
<1>9. \E m \in inbox : m.id = row[c].id /\ m.doc.recipient \in Owners[row[c].subject]
  <2>1. PICK n \in assigned : n.id = row[c].id /\ n.doc.recipient \in Owners[row[c].subject]
    BY <1>2 DEF Readable, WrittenRow
  <2>2. CASE fresh[c]
    <3>1. PICK m \in inbox : m.id = row[c].id
      BY <2>2 DEF MarkInv, KeptMessage
    <3>2. m = n
      BY <2>1, <3>1 DEF PushInv, Numbered
    <3> QED
      BY <2>1, <3>1, <3>2
  <2>3. CASE Existing(c) # {}
    <3>1. PICK s \in states : s.id = row[c].id /\ s.subject = row[c].subject
      BY <1>2, <2>3 DEF Existing, WrittenRow
    <3> QED
      BY <3>1 DEF MarkInv, NoOrphanState
  <2> QED
    BY <1>2, <2>2, <2>3 DEF WrittenRow
<1>10. NoOrphanState'
  BY <1>1, <1>9 DEF MarkInv, NoOrphanState
<1> QED
  BY <1>1, <1>4, <1>6, <1>7, <1>8, <1>10, FewerInv DEF MarkInv

LEMMA SweepInv ==
  ASSUME PushInv, MarkInv, StartSweep \/ DeleteOne \/ AbortSweep
  PROVE  MarkInv' /\ PushInv'
<1>1. UNCHANGED <<inbox, assigned, states, markVars>> /\ PushUnchanged
  BY DEF StartSweep, DeleteOne, AbortSweep, PushUnchanged, pushVars
<1>2. MarkType'
  <2>1. {m.id : m \in inbox} \subseteq Id
    BY MessageType DEF PushInv, PushType, Id
  <2> QED
    BY <1>1, <2>1 DEF StartSweep, DeleteOne, AbortSweep, EndSweep, MarkInv, MarkType, markVars
<1>3. \A c \in Marker : fresh[c] => row[c].id \notin gone'
  BY DEF StartSweep, DeleteOne, AbortSweep, EndSweep, MarkInv, KeptMessage
<1>4. \A c \in Marker : (Readable(c) => Readable(c)') /\ (WrittenRow(c) => WrittenRow(c)')
  BY <1>1 DEF Readable, WrittenRow, StateFree, Existing, markVars
<1>5. \A c \in Marker : fresh'[c] => mpc'[c] = "written" /\ KeptMessage(c)'
  BY <1>1, <1>3 DEF MarkInv, KeptMessage, markVars
<1>6. NoOrphanState'
  BY <1>1 DEF MarkInv, NoOrphanState
<1> QED
  BY <1>1, <1>2, <1>4, <1>5, <1>6, FewerInv DEF MarkInv, markVars

LEMMA CommitSweepInv ==
  ASSUME PushInv, MarkInv, CommitSweep
  PROVE  MarkInv' /\ PushInv'
<1>1. /\ UNCHANGED <<assigned, markVars>> /\ PushUnchanged
      /\ \A c \in Marker : mpc[c] = "written" => row[c].id \notin gone
      /\ inbox' = {m \in inbox : m.id \notin gone}
      /\ states' = {s \in states : s.id \notin gone}
      /\ gone' = {} /\ todo' = {} /\ sweeping' = FALSE
  BY DEF CommitSweep, EndSweep, PushUnchanged, pushVars
<1>2. MarkType'
  BY <1>1 DEF MarkInv, MarkType, markVars
<1>3. ASSUME NEW c \in Marker, mpc[c] = "written" PROVE WrittenRow(c)'
  <2>1. WrittenRow(c) /\ mark[c].id \notin gone
    BY <1>1, <1>3 DEF MarkInv, WrittenRow
  <2>2. Existing(c)' = Existing(c)
    BY <1>1, <2>1 DEF Existing, markVars
  <2>3. StateFree(c)'
    BY <1>1, <2>1 DEF StateFree, WrittenRow, markVars
  <2> QED
    BY <1>1, <2>1, <2>2, <2>3 DEF WrittenRow, markVars
<1>4. \A c \in Marker : Readable(c) => Readable(c)'
  BY <1>1 DEF Readable, markVars
<1>5. \A c \in Marker : fresh'[c] => mpc'[c] = "written" /\ KeptMessage(c)'
  BY <1>1 DEF MarkInv, KeptMessage, markVars
<1>6. NoOrphanState'
  BY <1>1 DEF MarkInv, NoOrphanState
<1> QED
  BY <1>1, <1>2, <1>3, <1>4, <1>5, <1>6, FewerInv DEF MarkInv, markVars

-----------------------------------------------------------------------------
(* The theorems *)

InboxInv == PushInv /\ MarkInv

PushStep(p) == Push(p) \/ Lookup(p) \/ Reserve(p) \/ Check(p) \/ Insert(p) \/ AbortPush(p)
MarkStep(c) == Mark(c) \/ Find(c) \/ Write(c) \/ CommitMark(c) \/ AbortMark(c)
SweepStep   == StartSweep \/ DeleteOne \/ CommitSweep \/ AbortSweep

LEMMA NextCases ==
  ASSUME InboxNext
  PROVE  \/ \E p \in Pusher : PushStep(p)
         \/ \E c \in Marker : MarkStep(c)
         \/ SweepStep
BY DEF InboxNext, PushStep, MarkStep, SweepStep

LEMMA InboxInitInv == InboxInit => InboxInv
<1> SUFFICES ASSUME InboxInit PROVE InboxInv
  OBVIOUS
<1>1. PushType
  BY Defaults, InboxAssumption DEF InboxInit, PushType
<1>2. PushInv
  BY <1>1 DEF InboxInit, PushInv, Numbered, UniqueKey, NoCollision
<1>3. MarkType
  BY Defaults DEF InboxInit, MarkType
<1>4. MarkInv
  BY <1>3 DEF InboxInit, MarkInv, NoOrphanState
<1> QED
  BY <1>2, <1>4 DEF InboxInv

LEMMA InboxStepInv == InboxInv /\ [InboxNext]_inboxVars => InboxInv'
<1> SUFFICES ASSUME InboxInv, [InboxNext]_inboxVars PROVE InboxInv'
  OBVIOUS
<1> USE DEF InboxInv
<1>1. CASE UNCHANGED inboxVars
  BY <1>1, MoreInv, FewerInv DEF inboxVars, OthersUnchanged, PushUnchanged
<1>2. ASSUME NEW p \in Pusher, PushStep(p) PROVE InboxInv'
  <2>1. CASE Insert(p)
    BY <2>1, InsertInv, MoreInv
  <2>2. CASE Lookup(p) \/ Check(p)
    BY <2>2, LookInv, MoreInv DEF Lookup, Check
  <2>3. CASE Push(p) \/ Reserve(p)
    BY <2>3, PushStepInv, MoreInv DEF Push, Reserve
  <2>4. CASE AbortPush(p)
    BY <2>4, AbortPushInv, MoreInv DEF AbortPush
  <2> QED
    BY <1>2, <2>1, <2>2, <2>3, <2>4 DEF PushStep
<1>3. ASSUME NEW c \in Marker, MarkStep(c) PROVE InboxInv'
  BY <1>3, RequestInv, WriteInv, CommitMarkInv DEF MarkStep
<1>4. CASE SweepStep
  BY <1>4, SweepInv, CommitSweepInv DEF SweepStep
<1> QED
  BY <1>1, <1>2, <1>3, <1>4, NextCases

LEMMA InboxInvariant == InboxSpec => []InboxInv
  BY InboxInitInv, InboxStepInv, PTL DEF InboxSpec

\* The tables, and every transaction's private state, keep their types and their
\* primary keys.
THEOREM InboxTypeCorrect == InboxSpec => []InboxTypeOK
<1>1. InboxInv => InboxTypeOK
  BY DEF InboxInv, PushInv, PushType, Numbered, MarkInv, MarkType, InboxTypeOK
<1> QED
  BY <1>1, InboxInvariant, PTL

\* No push ever inserts a second message for a recipient and uuid, although the
\* lookups it relies on are statements of their own.
THEOREM PushesNeverCollide == InboxSpec => []NoCollision
<1>1. InboxInv => NoCollision
  BY DEF InboxInv, PushInv
<1> QED
  BY <1>1, InboxInvariant, PTL

\* A push is answered with the id of the very message it sent.
THEOREM PushesAreIdempotent == InboxSpec => []IdempotentPush
<1>1. ASSUME InboxInv PROVE IdempotentPush
  <2> USE <1>1 DEF InboxInv
  <2> SUFFICES ASSUME NEW a \in answers, NEW m \in Stored(a.doc), NEW n \in inbox, n.id = a.id
               PROVE  m.id = a.id
    BY DEF IdempotentPush, PushInv
  <2>1. n = a
    BY DEF PushInv, Numbered
  <2>2. m = n
    BY <2>1 DEF Stored, PushInv, UniqueKey
  <2> QED
    BY <2>2
<1> QED
  BY <1>1, InboxInvariant, PTL

\* The sweep and the readers leave no read state behind, however they meet.
THEOREM NoStateIsOrphaned == InboxSpec => []NoOrphanState
<1>1. InboxInv => NoOrphanState
  BY DEF InboxInv, MarkInv
<1> QED
  BY <1>1, InboxInvariant, PTL

\* No request undoes what another one has marked.
THEOREM NoFlagIsLost == InboxSpec => FlagsApart
<1> DEFINE Keeps(r, s) == /\ r.hidden => s.hidden
                          /\ (s.hidden /\ ~r.hidden) => s.read = r.read
<1>1. ASSUME InboxInv, [InboxNext]_inboxVars,
             NEW r \in states, NEW s \in states', r.id = s.id, r.subject = s.subject
      PROVE  Keeps(r, s)
  <2> USE DEF InboxInv
  <2>1. \A t \in states : t.id = s.id /\ t.subject = s.subject => t = r
    BY <1>1 DEF MarkInv, MarkType
  <2>2. CASE s \in states
    BY <1>1, <2>1, <2>2
  <2>3. CASE s \notin states
    <3>1. PICK c \in Marker : CommitMark(c)
      BY <1>1, <2>3, NextCases
      DEF PushStep, Push, Lookup, Reserve, Check, Insert, AbortPush,
          MarkStep, Mark, Find, Write, AbortMark,
          SweepStep, StartSweep, DeleteOne, CommitSweep, AbortSweep, inboxVars
    <3>2. s = row[c] /\ mpc[c] = "written"
      BY <2>3, <3>1 DEF CommitMark
    <3>3. r \in Existing(c) /\ s = Marked(mark[c], r.read, r.hidden)
      BY <1>1, <3>2 DEF MarkInv, WrittenRow, Existing
    <3>4. mark[c] \in Request /\ r.read \in BOOLEAN /\ r.hidden \in BOOLEAN
      BY <1>1 DEF MarkInv, MarkType, State
    <3> QED
      BY <3>3, <3>4, MarkedType
  <2> QED
    BY <2>2, <2>3
<1>2. InboxInv /\ [InboxNext]_inboxVars =>
        [\A r \in states, s \in states' :
            (r.id = s.id /\ r.subject = s.subject) =>
              /\ r.hidden => s.hidden
              /\ (s.hidden /\ ~r.hidden) => s.read = r.read]_inboxVars
  BY <1>1
<1> QED
  BY <1>2, InboxInvariant, PTL DEF InboxSpec, FlagsApart

-----------------------------------------------------------------------------
(* The refinement *)

Counters == [f \in {"inbox"} |-> counter]
Mails    == {[id |-> m.id, to |-> m.doc.recipient] : m \in inbox}

LEMMA OneFeed == {[r \in Recipient |-> "inbox"][a] : a \in Recipient} = {"inbox"}
BY InboxAssumption

LEMMA InsertDelivers ==
  ASSUME PushInv, NEW p \in Pusher, Insert(p)
  PROVE  Promise!Deliver(doc[p].recipient) /\ doc[p].recipient \in Recipient
<1> DEFINE m == [id |-> next[p], doc |-> doc[p]]
<1>1. inbox' = inbox \cup {m} /\ counter' = next[p] /\ next[p] = counter + 1
  BY InboxAssumption DEF Insert, PushInv, PushType, Numbered
<1>2. doc[p].recipient \in Recipient
  BY DEF PushInv, PushType, Document
<1>3. m.id = counter + 1 /\ m.doc.recipient = doc[p].recipient
  BY <1>1
<1> HIDE DEF m
<1>4. Mails' = Mails \cup {[id |-> counter + 1, to |-> doc[p].recipient]}
  BY <1>1, <1>3 DEF Mails
<1>5. Counters' = [Counters EXCEPT !["inbox"] = @ + 1] /\ Counters'["inbox"] = counter + 1
  BY <1>1 DEF Counters
<1>6. [r \in Recipient |-> "inbox"][doc[p].recipient] = "inbox"
  BY <1>2
<1> QED
  BY <1>2, <1>4, <1>5, <1>6 DEF Promise!Deliver, Mails, Counters

LEMMA SweepExpires ==
  ASSUME CommitSweep
  PROVE  Promise!Expire \/ (Mails' = Mails /\ Counters' = Counters)
<1>1. Mails' \subseteq Mails /\ Counters' = Counters
  BY DEF CommitSweep, Mails, Counters
<1>2. CASE Mails' # Mails
  <2>1. Mails \ Mails' # {} /\ Mails' = Mails \ (Mails \ Mails')
    BY <1>1, <1>2
  <2> QED
    BY <1>1, <2>1 DEF Promise!Expire, Mails, Counters
<1> QED
  BY <1>1, <1>2

LEMMA InboxStepIsMailStep ==
  ASSUME InboxInv, [InboxNext]_inboxVars
  PROVE  Promise!MailNext \/ (Mails' = Mails /\ Counters' = Counters)
<1>1. ASSUME NEW p \in Pusher, Insert(p) PROVE Promise!MailNext
  <2>1. Promise!Deliver(doc[p].recipient) /\ doc[p].recipient \in Recipient
    BY <1>1, InsertDelivers DEF InboxInv
  <2> QED
    BY <2>1 DEF Promise!MailNext, Promise!Deliver
<1>2. CASE CommitSweep
  BY <1>2, SweepExpires DEF Promise!MailNext
<1>3. CASE UNCHANGED <<inbox, counter>>
  BY <1>3 DEF Mails, Counters
<1> QED
  BY <1>1, <1>2, <1>3, NextCases
  DEF PushStep, Push, Lookup, Reserve, Check, AbortPush,
      MarkStep, Mark, Find, Write, CommitMark, AbortMark,
      SweepStep, StartSweep, DeleteOne, AbortSweep, inboxVars

\* The store delivers messages in one step each, with the next id of a single
\* feed, whatever is pushed at once, rolled back, marked or swept.
THEOREM InboxRefinesMailbox == InboxSpec => InboxIsMailbox
<1>1. InboxInit => Promise!MailInit
  <2> SUFFICES ASSUME InboxInit PROVE Promise!MailInit
    OBVIOUS
  <2>1. Mails = {} /\ Counters = [f \in {"inbox"} |-> 0]
    BY DEF InboxInit, Mails, Counters
  <2> QED
    BY <2>1, OneFeed DEF Promise!MailInit, Promise!Feed, Mails, Counters
<1>2. InboxInv /\ [InboxNext]_inboxVars =>
        [Promise!MailNext]_<<{[id |-> m.id, to |-> m.doc.recipient] : m \in inbox},
                             [f \in {"inbox"} |-> counter]>>
  BY InboxStepIsMailStep DEF Mails, Counters
<1> QED
  BY <1>1, <1>2, InboxInvariant, PTL DEF InboxSpec, InboxIsMailbox, Promise!MailSpec
=============================================================================
