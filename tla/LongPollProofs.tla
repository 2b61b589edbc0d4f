--------------------------- MODULE LongPollProofs ----------------------------
(***************************************************************************)
(* Proofs about the long-poll and about what is polled with it:            *)
(* PollEventLog and MailboxPoll, for any number of clients, any tokens,    *)
(* any page size, and any writes, pushes and sweeps.                       *)
(***************************************************************************)
EXTENDS PollEventLog, MailboxPoll, FiniteSetTheorems, WellFoundedInduction, SequenceTheorems,
        TLAPS

-----------------------------------------------------------------------------
(* The rules on access agree *)

\* The handlers' rules agree for every token there can be.
THEOREM AccessRulesAgree == \A c \in Claims : RulesAgree(c)
<1> SUFFICES ASSUME NEW c \in Claims PROVE RulesAgree(c)
  OBVIOUS
<1> USE AccessAssumption
<1>1. c.sub \in Owner /\ c.org \in Owner \cup {""} /\ c.units \subseteq Owner
  BY DEF Claims
<1>2. \A o \in Owner : MayGet(c, o) <=> Lists(c, o)
  BY <1>1 DEF MayGet, Lists, isAllowedOwner, getAllOwners
<1>3. ASSUME NEW o \in Owner, Lists(c, o)
      PROVE  /\ GotReadOnly(c, o) <=> ~MayUpdate(c, o)
             /\ GotReadOnly(c, o) <=> ~MayDelete(c, o)
             /\ ListedReadOnly(c, o) <=> GotReadOnly(c, o)
  <2>1. isAllowedOwner(c, o) /\ o # ""
    BY <1>1, <1>3 DEF Lists, isAllowedOwner, getAllOwners
  <2> QED
    BY <2>1 DEF GotReadOnly, ListedReadOnly, MayUpdate, MayDelete
<1>4. \A o \in Owner \cup {""} :
         MayUpdate(c, o) \/ MayDelete(c, o) => Lists(c, TargetOwner(c, o))
  BY <1>1 DEF MayUpdate, MayDelete, TargetOwner, Lists, isAllowedOwner, getAllOwners
<1>5. \A r \in Group : MayPush(c, r) => Lists(c, r)
  BY <1>1 DEF MayPush, Lists, isAllowedOwner, getAllOwners
<1> QED
  BY <1>2, <1>3, <1>4, <1>5 DEF RulesAgree

-----------------------------------------------------------------------------
(* Pages: items is what a client may read, a finite set of items *)

\* Going up a strict order in a finite set ends: the sets of what lies beyond
\* cannot get smaller for ever.
LEMMA ExtremeMember ==
  ASSUME NEW W, IsFiniteSet(W), W # {}, NEW R,
         \A x \in W : <<x, x>> \notin R,
         \A x, y, z \in W : <<x, y>> \in R /\ <<y, z>> \in R => <<x, z>> \in R
  PROVE  \E x \in W : \A y \in W : <<x, y>> \notin R
<1> DEFINE Beyond(x) == {y \in W : <<x, y>> \in R}
           T == {Beyond(x) : x \in W}
           S == StrictSubsetOrdering(W)
<1>1. T \subseteq FiniteSubsetsOf(W) /\ T # {}
  <2>1. \A x : Beyond(x) \in SUBSET W
    OBVIOUS
  <2> HIDE DEF Beyond
  <2>3. T \subseteq SUBSET W /\ T # {}
    BY <2>1
  <2>2. FiniteSubsetsOf(W) = SUBSET W
    BY FS_FiniteSubsetsOfFinite
  <2> QED
    BY <2>2, <2>3
<1>2. PICK a \in T : \A b \in T : ~(<<b, a>> \in S)
  <2> HIDE DEF T, S
  <2>1. IsWellFoundedOn(S, FiniteSubsetsOf(W))
    BY FS_StrictSubsetOrderingWellFounded DEF S
  <2> QED
    BY <1>1, <2>1, WFMin
<1>3. PICK x \in W : a = Beyond(x)
  BY <1>2
<1> SUFFICES ASSUME NEW y \in W, <<x, y>> \in R PROVE FALSE
  OBVIOUS
<1>4. Beyond(y) \in T
  OBVIOUS
<1>5. Beyond(y) \subseteq a
  <2>1. \A z \in W : <<y, z>> \in R => <<x, z>> \in R
    OBVIOUS
  <2> QED
    BY <1>3, <2>1
<1>6. y \in a /\ y \notin Beyond(y)
  BY <1>3
<1>7. <<Beyond(y), a>> \in S
  BY <1>3, <1>5, <1>6 DEF StrictSubsetOrdering
<1> QED
  BY <1>2, <1>4, <1>7

LEMMA LargestMember ==
  ASSUME NEW W \in SUBSET Nat, IsFiniteSet(W), W # {}
  PROVE  \E x \in W : \A y \in W : y <= x
<1> DEFINE R == {e \in Nat \X Nat : e[1] < e[2]}
<1>1. \A x, y \in W : <<x, y>> \in R <=> x < y
  OBVIOUS
<1> HIDE DEF R
<1>2. /\ \A x \in W : <<x, x>> \notin R
      /\ \A x, y, z \in W : <<x, y>> \in R /\ <<y, z>> \in R => <<x, z>> \in R
  BY <1>1
<1>3. PICK x \in W : \A y \in W : <<x, y>> \notin R
  BY <1>2, ExtremeMember
<1>4. ASSUME NEW y \in W PROVE y <= x
  <2>1. x \in Nat /\ y \in Nat
    OBVIOUS
  <2>2. <<x, y>> \notin R
    BY <1>3
  <2> QED
    BY <1>1, <2>1, <2>2
<1> QED
  BY <1>4

LEMMA SmallestMember ==
  ASSUME NEW W \in SUBSET Nat, IsFiniteSet(W), W # {}
  PROVE  \E x \in W : \A y \in W : x <= y
<1> DEFINE R == {e \in Nat \X Nat : e[1] > e[2]}
<1>1. \A x, y \in W : <<x, y>> \in R <=> x > y
  OBVIOUS
<1> HIDE DEF R
<1>2. /\ \A x \in W : <<x, x>> \notin R
      /\ \A x, y, z \in W : <<x, y>> \in R /\ <<y, z>> \in R => <<x, z>> \in R
  BY <1>1
<1>3. PICK x \in W : \A y \in W : <<x, y>> \notin R
  BY <1>2, ExtremeMember
<1>4. ASSUME NEW y \in W PROVE x <= y
  <2>1. x \in Nat /\ y \in Nat
    OBVIOUS
  <2>2. <<x, y>> \notin R
    BY <1>3
  <2> QED
    BY <1>1, <2>1, <2>2
<1> QED
  BY <1>4

\* The ids of some of the items, which are finitely many and at most n.
LEMMA IdsType ==
  ASSUME NEW n \in Nat, NEW items, \A m \in items : m.id \in 1..n
  PROVE  IsFiniteSet(IdsOf(items)) /\ IdsOf(items) \subseteq 1..n
<1>1. IdsOf(items) \subseteq 1..n
  BY DEF IdsOf
<1>2. IsFiniteSet(1..n)
  BY FS_Interval
<1> QED
  BY <1>1, <1>2, FS_Subset

LEMMA LatestIdType ==
  ASSUME NEW n \in Nat, NEW items, \A m \in items : m.id \in 1..n
  PROVE  LatestId(items) \in 0..n
<1> DEFINE W == IdsOf(items) \cup {0}
<1>1. IsFiniteSet(IdsOf(items)) /\ IdsOf(items) \subseteq 1..n
  BY IdsType
<1>2. IsFiniteSet(W) /\ W \in SUBSET Nat /\ W # {} /\ W \subseteq 0..n
  BY <1>1, FS_AddElement
<1>3. \E x \in W : \A y \in W : y <= x
  <2> HIDE DEF W
  <2> QED
    BY <1>2, LargestMember
<1>4. LatestId(items) \in W
  BY <1>3 DEF LatestId
<1> QED
  BY <1>2, <1>4

\* The last id of a page is the largest of its ids and the cursor.
LEMMA LastIdIsLargest ==
  ASSUME NEW n \in Nat, NEW p \in Poller, after[p] \in 0..n,
         NEW page \in SUBSET (1..n), \A j \in page : j > after[p]
  PROVE  /\ LastId(p, page) \in after[p]..n
         /\ LastId(p, page) \in {after[p]} \cup page
         /\ \A j \in page : j <= LastId(p, page)
<1> DEFINE W == {after[p]} \cup page
<1>1. IsFiniteSet(page)
  <2>1. IsFiniteSet(1..n)
    BY FS_Interval
  <2> QED
    BY <2>1, FS_Subset
<1>2. IsFiniteSet(W) /\ W \in SUBSET Nat /\ W # {} /\ W \subseteq after[p]..n
  <2>1. W = page \cup {after[p]}
    OBVIOUS
  <2>2. IsFiniteSet(W)
    BY <1>1, <2>1, FS_AddElement
  <2>3. ASSUME NEW j \in W PROVE j \in after[p]..n /\ j \in Nat
    <3>1. after[p] \in Nat /\ after[p] <= n
      OBVIOUS
    <3>2. CASE j = after[p]
      BY <3>1, <3>2
    <3>3. CASE j \in page
      <4>1. j \in 1..n /\ j > after[p]
        BY <3>3
      <4> QED
        BY <3>1, <4>1
    <3> QED
      BY <3>2, <3>3
  <2> QED
    BY <2>2, <2>3
<1>3. \E x \in W : \A y \in W : y <= x
  <2> HIDE DEF W
  <2> QED
    BY <1>2, LargestMember
<1>4. LastId(p, page) \in W /\ \A j \in page : j <= LastId(p, page)
  BY <1>3 DEF LastId
<1> QED
  BY <1>2, <1>4

\* A smaller set of items has fewer: what is older than m is older than n.
LEMMA FewerItems ==
  ASSUME NEW A, NEW B, IsFiniteSet(B), A \subseteq B, Cardinality(B) < PageSize
  PROVE  Cardinality(A) < PageSize
<1>1. IsFiniteSet(A)
  BY FS_Subset
<1>2. /\ Cardinality(A) <= Cardinality(B)
      /\ Cardinality(A) \in Nat /\ Cardinality(B) \in Nat
  BY <1>1, FS_Subset, FS_CardinalityType
<1> QED
  BY <1>2, LongPollAssumption

\* A page holds, with an item, all unread items that are older.
LEMMA PageIsOldest ==
  ASSUME NEW p \in Poller, NEW items, IsFiniteSet(items), \A m \in items : m.id \in Nat,
         NEW m \in After(p, items), NEW n \in Page(p, items), m.id <= n.id
  PROVE  m \in Page(p, items)
<1> DEFINE Older(x) == {y \in After(p, items) : y.id < x.id}
<1>1. IsFiniteSet(After(p, items))
  BY FS_Subset DEF After
<1>2. \A y \in After(p, items) : y.id \in Nat
  BY DEF After
<1>3. n \in After(p, items) /\ Cardinality(Older(n)) < PageSize
  BY DEF Page
<1>4. Older(m) \subseteq Older(n)
  BY <1>2, <1>3
<1>5. IsFiniteSet(Older(n))
  BY <1>1, FS_Subset
<1>6. Cardinality(Older(m)) < PageSize
  <2> HIDE DEF Older
  <2> QED
    BY <1>3, <1>4, <1>5, FewerItems
<1> QED
  BY <1>6 DEF Page

\* What an answer may be made of.
LEMMA AnswerPage ==
  ASSUME NEW n \in Nat, NEW p \in Poller, after[p] \in 0..n,
         NEW items, \A m \in items : m.id \in 1..n
  PROVE  LET page == IdsOf(Page(p, items))
         IN  /\ page \subseteq 1..n
             /\ \A j \in page : j > after[p] /\ j <= LastId(p, page)
             /\ LastId(p, page) \in after[p]..n
             /\ LastId(p, page) \in {after[p]} \cup page
<1> DEFINE page == IdsOf(Page(p, items))
<1>1. page \in SUBSET (1..n) /\ \A j \in page : j > after[p]
  BY DEF Page, After, IdsOf
<1> HIDE DEF page
<1>2. /\ LastId(p, page) \in after[p]..n
      /\ LastId(p, page) \in {after[p]} \cup page
      /\ \A j \in page : j <= LastId(p, page)
  BY <1>1, LastIdIsLargest
<1> QED
  BY <1>1, <1>2 DEF page

\* An answer hands out the oldest unread items, up to the new cursor.
LEMMA AnswerCovers ==
  ASSUME NEW n \in Nat, NEW p \in Poller, after[p] \in 0..n,
         NEW items, IsFiniteSet(items), \A m \in items : m.id \in 1..n,
         NEW m \in items, after[p] < m.id, m.id <= LastId(p, IdsOf(Page(p, items)))
  PROVE  m.id \in IdsOf(Page(p, items))
<1> DEFINE page == IdsOf(Page(p, items))
           L == LastId(p, page)
<1>1. L \in after[p]..n /\ L \in {after[p]} \cup page
  BY AnswerPage
<1>2. L \in page
  <2>1. after[p] < L
    <3> HIDE DEF page
    <3>1. m.id <= L
      BY DEF page
    <3> HIDE DEF L
    <3>2. m.id \in 1..n
      OBVIOUS
    <3> QED
      BY <1>1, <3>1, <3>2
  <2> HIDE DEF page, L
  <2> QED
    BY <1>1, <2>1
<1>3. PICK x \in Page(p, items) : x.id = L
  BY <1>2 DEF IdsOf
<1>4. m \in After(p, items)
  BY DEF After
<1>5. m \in Page(p, items)
  BY <1>3, <1>4, PageIsOldest
<1> QED
  BY <1>5 DEF IdsOf

-----------------------------------------------------------------------------
(* The handler *)

\* Notifications are about addresses in X, no cursor of p is beyond bound[p],
\* and a call reads on from the cursor of its client, or from where it started.
LongPollOK(X, bound) ==
    /\ wire \in Seq([id : Nat, to : X])
    /\ PollTypeOK
    /\ \A p \in Poller :
          /\ claims[p] \in Tokens[p]
          /\ cursor[p] <= bound[p] /\ after[p] <= bound[p]
          /\ ppc[p] \in {"list", "wait", "relist"}
                => after[p] >= 0 /\ (cursor[p] # -1 => after[p] = cursor[p])
          /\ ppc[p] = "bootstrap" => cursor[p] = -1

\* Steps of the subscriber of a replica.
Subscriber(accepting) == Dispatch(accepting) \/ Disconnect \/ Reconnect

\* Steps of a client and its call that hand out nothing.
Quiet(q, latest, items) ==
    \/ NewToken(q) \/ Call(q) \/ Register(q) \/ Fail(q) \/ Bootstrap(q, latest)
    \/ ListCaughtUp(q, items) \/ Wake(q) \/ Timeout(q)

LEMMA NotifiedIds ==
  ASSUME NEW X, NEW w \in Seq([id : Nat, to : X])
  PROVE  \A i \in DOMAIN w : w[i].id \in Nat
<1>1. DOMAIN w = 1..Len(w)
  BY LenProperties
<1>2. \A i \in 1..Len(w) : w[i] \in [id : Nat, to : X]
  BY ElementOfSeq
<1> QED
  BY <1>1, <1>2

LEMMA LongPollInitOK ==
  ASSUME LongPollInit, NEW X, NEW bound \in [Poller -> Nat]
  PROVE  LongPollOK(X, bound)
<1> USE DEF LongPollInit
<1>1. wire \in Seq([id : Nat, to : X]) /\ DOMAIN wire = {}
  BY EmptySeq
<1>2. claims \in [Poller -> Claims]
  BY LongPollAssumption
<1>3. 0 \in 0..MaxFaults
  BY LongPollAssumption
<1>4. PollTypeOK
  BY <1>1, <1>2, <1>3 DEF PollTypeOK
<1>5. ASSUME NEW p \in Poller
      PROVE  /\ cursor[p] <= bound[p] /\ after[p] <= bound[p] /\ ppc[p] = "client"
             /\ claims[p] \in Tokens[p]
  <2>1. cursor[p] \in {-1, 0} /\ after[p] = -1 /\ bound[p] \in Nat
    OBVIOUS
  <2> QED
    BY <2>1
<1> QED
  BY <1>1, <1>4, <1>5 DEF LongPollOK

LEMMA NotifyOK ==
  ASSUME NEW X, NEW bound \in [Poller -> Nat], NEW later \in [Poller -> Nat],
         LongPollOK(X, bound), \A p \in Poller : bound[p] <= later[p],
         NEW items \in Seq([id : Nat, to : X]), Notify(items)
  PROVE  LongPollOK(X, later)'
<1>1. /\ wire' = IF up THEN wire \o items ELSE wire
      /\ UNCHANGED <<up, claims, ppc, after, listener, woken, clientVars, covered, faults>>
  BY DEF Notify
<1>2. wire' \in Seq([id : Nat, to : X])
  BY <1>1, ConcatProperties DEF LongPollOK
<1>3. PollTypeOK'
  BY <1>1, <1>2, NotifiedIds DEF LongPollOK, PollTypeOK, clientVars
<1>4. ASSUME NEW p \in Poller PROVE cursor[p] <= later[p] /\ after[p] <= later[p]
  <2>1. cursor[p] \in Int /\ after[p] \in Int /\ bound[p] \in Nat /\ later[p] \in Nat
    BY DEF LongPollOK, PollTypeOK
  <2> QED
    BY <2>1 DEF LongPollOK
<1> QED
  BY <1>1, <1>2, <1>3, <1>4 DEF LongPollOK, clientVars

LEMMA SubscriberOK ==
  ASSUME NEW X, NEW bound \in [Poller -> Nat], LongPollOK(X, bound),
         NEW accepting, Subscriber(accepting)
  PROVE  LongPollOK(X, bound)' /\ UNCHANGED <<claims, ppc, after, listener, clientVars>>
<1>1. UNCHANGED <<claims, ppc, after, listener, clientVars>>
  BY DEF Subscriber, Dispatch, Disconnect, Reconnect
<1>2. wire' \in Seq([id : Nat, to : X])
  <2>1. wire \in Seq([id : Nat, to : X])
    BY DEF LongPollOK
  <2>2. CASE Dispatch(accepting)
    BY <2>1, <2>2, HeadTailProperties DEF Dispatch
  <2>3. CASE Disconnect
    BY <2>3, EmptySeq DEF Disconnect
  <2>4. CASE Reconnect
    BY <2>1, <2>4 DEF Reconnect
  <2> QED
    BY <2>2, <2>3, <2>4 DEF Subscriber
<1>3. \A i \in DOMAIN wire' : wire'[i].id \in Nat
  BY <1>2, NotifiedIds
<1>4. PollTypeOK'
  <2>1. CASE Dispatch(accepting)
    BY <1>1, <1>3, <2>1 DEF Dispatch, LongPollOK, PollTypeOK, clientVars
  <2>2. CASE Disconnect
    <3>1. faults < MaxFaults /\ faults' = faults + 1 /\ faults \in 0..MaxFaults
      BY <2>2 DEF Disconnect, LongPollOK, PollTypeOK
    <3>2. faults' \in 0..MaxFaults
      BY <3>1, LongPollAssumption
    <3>3. covered' = [p \in Poller |-> FALSE] /\ up' = FALSE /\ woken' = woken
      BY <2>2 DEF Disconnect
    <3>4. covered' \in [Poller -> BOOLEAN]
      BY <3>3
    <3> QED
      BY <1>1, <1>3, <3>2, <3>3, <3>4 DEF LongPollOK, PollTypeOK, clientVars
  <2>3. CASE Reconnect
    BY <1>1, <1>3, <2>3 DEF Reconnect, LongPollOK, PollTypeOK, clientVars
  <2> QED
    BY <2>1, <2>2, <2>3 DEF Subscriber
<1> QED
  BY <1>1, <1>2, <1>4 DEF LongPollOK, clientVars

LEMMA QuietOK ==
  ASSUME NEW X, NEW bound \in [Poller -> Nat], LongPollOK(X, bound), NEW q \in Poller,
         NEW latest, latest \in 0..bound[q], NEW items, Quiet(q, latest, items)
  PROVE  LongPollOK(X, bound)' /\ UNCHANGED clientVars
<1>1. UNCHANGED clientVars /\ UNCHANGED plumbing
  BY DEF Quiet, NewToken, Call, Register, Fail, Lose, Return, Bootstrap, ListCaughtUp, Wake, Timeout
<1>2. wire' = wire /\ wire \in Seq([id : Nat, to : X])
  BY <1>1 DEF plumbing, LongPollOK
<1> USE DEF LongPollOK, PollTypeOK
<1>3. CASE NewToken(q)
  <2>1. PICK c \in Tokens[q] : claims' = [claims EXCEPT ![q] = c]
    BY <1>3 DEF NewToken
  <2>2. c \in Claims
    BY LongPollAssumption
  <2>3. UNCHANGED <<ppc, after, listener, woken, covered, faults>>
    BY <1>3 DEF NewToken
  <2> QED
    BY <1>1, <1>2, <2>1, <2>2, <2>3 DEF clientVars, plumbing
<1>4. CASE Call(q)
  <2>1. /\ listener' = [listener EXCEPT ![q] = "starting"]
        /\ after' = [after EXCEPT ![q] = cursor[q]]
        /\ ppc' = [ppc EXCEPT ![q] = IF cursor[q] = -1 THEN "bootstrap" ELSE "list"]
        /\ UNCHANGED <<claims, woken, covered, faults>>
    BY <1>4 DEF Call, Goto
  <2> QED
    BY <1>1, <1>2, <2>1 DEF clientVars, plumbing
<1>5. CASE Register(q)
  BY <1>1, <1>2, <1>5 DEF Register, clientVars, plumbing
<1>6. CASE Fail(q)
  <2>1. /\ faults < MaxFaults /\ faults' = faults + 1
        /\ ppc' = [ppc EXCEPT ![q] = "client"]
        /\ listener' = [listener EXCEPT ![q] = "none"]
        /\ woken' = [woken EXCEPT ![q] = FALSE]
        /\ covered' = [covered EXCEPT ![q] = FALSE]
        /\ after' = [after EXCEPT ![q] = -1]
        /\ UNCHANGED claims
    BY <1>6 DEF Fail, Lose, Return, Goto
  <2>2. faults' \in 0..MaxFaults
    BY <2>1, LongPollAssumption
  <2>3. \A p \in Poller : -1 <= bound[p]
    OBVIOUS
  <2> QED
    BY <1>1, <1>2, <2>1, <2>2, <2>3 DEF clientVars, plumbing
<1>7. CASE Bootstrap(q, latest)
  <2>1. /\ ppc[q] = "bootstrap"
        /\ after' = [after EXCEPT ![q] = latest]
        /\ ppc' = [ppc EXCEPT ![q] = "list"]
        /\ UNCHANGED <<claims, listener, woken, covered, faults>>
    BY <1>7 DEF Bootstrap, Goto
  <2>2. latest \in Nat /\ latest <= bound[q]
    OBVIOUS
  <2> QED
    BY <1>1, <1>2, <2>1, <2>2 DEF clientVars, plumbing
<1>8. CASE ListCaughtUp(q, items)
  BY <1>1, <1>2, <1>8 DEF ListCaughtUp, Goto, clientVars, plumbing
<1>9. CASE Wake(q) \/ Timeout(q)
  BY <1>1, <1>2, <1>9 DEF Wake, Timeout, Goto, clientVars, plumbing
<1> QED
  BY <1>1, <1>3, <1>4, <1>5, <1>6, <1>7, <1>8, <1>9 DEF Quiet

LEMMA AnswerOK ==
  ASSUME NEW X, NEW bound \in [Poller -> Nat], LongPollOK(X, bound), NEW q \in Poller,
         ppc[q] \in {"list", "relist"}, NEW items, \A m \in items : m.id \in 1..bound[q],
         Answer(q, IdsOf(Page(q, items)))
  PROVE  LongPollOK(X, bound)' /\ cursor'[q] >= cursor[q]
         /\ \A p \in Poller \ {q} : cursor'[p] = cursor[p]
<1> DEFINE page == IdsOf(Page(q, items))
           L == LastId(q, page)
<1>1. bound[q] \in Nat /\ after[q] \in 0..bound[q] /\ (cursor[q] # -1 => after[q] = cursor[q])
  BY DEF LongPollOK, PollTypeOK
<1>2. page \subseteq 1..bound[q] /\ L \in after[q]..bound[q]
  BY <1>1, AnswerPage
<1>3. /\ cursor' = [cursor EXCEPT ![q] = L]
      /\ start' = [start EXCEPT ![q] = IF cursor[q] = -1 THEN after[q] ELSE @]
      /\ got' = [got EXCEPT ![q] = @ \cup page]
      /\ steady' = [steady EXCEPT ![q] = @ \cap getAllOwners(claims[q])]
      /\ UNCHANGED <<faults, up, wire, claims>>
      /\ ppc' = [ppc EXCEPT ![q] = "client"]
      /\ listener' = [listener EXCEPT ![q] = "none"]
      /\ woken' = [woken EXCEPT ![q] = FALSE]
      /\ covered' = [covered EXCEPT ![q] = FALSE]
      /\ after' = [after EXCEPT ![q] = -1]
  BY DEF Answer, Return, Goto, plumbing
<1> HIDE DEF page, L
<1>4. L \in Nat /\ after[q] \in Nat /\ page \in SUBSET Nat /\ L <= bound[q] /\ after[q] <= L
  BY <1>1, <1>2
<1>5. PollTypeOK'
  BY <1>3, <1>4 DEF LongPollOK, PollTypeOK
<1>6. cursor'[q] >= cursor[q] /\ \A p \in Poller \ {q} : cursor'[p] = cursor[p]
  BY <1>1, <1>3, <1>4 DEF LongPollOK, PollTypeOK
<1>7. \A p \in Poller : -1 <= bound[p]
  OBVIOUS
<1> QED
  BY <1>3, <1>4, <1>5, <1>6, <1>7 DEF LongPollOK, PollTypeOK

-----------------------------------------------------------------------------
(* Wakeups *)

Notified(p, m) == woken[p] \/ \E j \in 1..Len(wire) : wire[j] = m

\* A waiting poll that was listening at its first read still is, and is woken or
\* about to be for each of these items that it has not read.
Awake(p, items) == (ppc[p] = "wait" /\ covered[p]) =>
    /\ up /\ listener[p] = "on"
    /\ \A m \in After(p, items) : Notified(p, m)

LEMMA NotifyAwake ==
  ASSUME NEW S, wire \in Seq(S), NEW p \in Poller, NEW items, Awake(p, items),
         NEW new \in Seq(S), Notify(new),
         NEW more, \A m \in After(p, more) : m \in items \/ \E i \in 1..Len(new) : new[i] = m
  PROVE  Awake(p, more)'
<1>1. /\ wire' = IF up THEN wire \o new ELSE wire
      /\ UNCHANGED <<up, claims, ppc, after, listener, woken, clientVars, covered, faults>>
  BY DEF Notify
<1> SUFFICES ASSUME ppc[p] = "wait", covered[p], NEW m \in After(p, more)
             PROVE  up /\ listener[p] = "on" /\ Notified(p, m)'
  BY <1>1 DEF Awake, After
<1>2. up /\ listener[p] = "on"
  BY DEF Awake
<1>3. /\ Len(wire) \in Nat /\ Len(new) \in Nat
      /\ Len(wire') = Len(wire) + Len(new)
      /\ \A j \in 1..Len(wire) + Len(new) :
            wire'[j] = IF j <= Len(wire) THEN wire[j] ELSE new[j - Len(wire)]
  BY <1>1, <1>2, ConcatProperties, LenProperties
<1>4. CASE m \in items
  <2>1. Notified(p, m)
    BY <1>4 DEF Awake, After
  <2>2. ASSUME NEW j \in 1..Len(wire), wire[j] = m
        PROVE  \E k \in 1..Len(wire') : wire'[k] = m
    <3>1. j \in 1..Len(wire) + Len(new) /\ j <= Len(wire)
      BY <1>3
    <3>2. wire'[j] = m
      BY <1>3, <2>2, <3>1
    <3> QED
      BY <1>3, <3>1, <3>2
  <2> QED
    BY <1>1, <1>2, <2>1, <2>2 DEF Notified
<1>5. ASSUME NEW i \in 1..Len(new), new[i] = m PROVE Notified(p, m)'
  <2>1. /\ Len(wire) + i \in 1..Len(wire) + Len(new) /\ ~(Len(wire) + i <= Len(wire))
        /\ Len(wire) + i - Len(wire) = i
    BY <1>3
  <2>2. wire'[Len(wire) + i] = m
    BY <1>3, <1>5, <2>1
  <2>3. \E k \in 1..Len(wire') : wire'[k] = m
    BY <1>3, <2>1, <2>2
  <2> QED
    BY <2>3 DEF Notified
<1> QED
  BY <1>2, <1>4, <1>5

LEMMA DispatchAwake ==
  ASSUME NEW S, wire \in Seq(S), NEW p \in Poller, NEW items, Awake(p, items),
         NEW accepting, Dispatch(accepting),
         ppc[p] = "wait" /\ Head(wire) \in After(p, items) => p \in accepting
  PROVE  Awake(p, items)'
<1>1. /\ wire # <<>> /\ wire' = Tail(wire)
      /\ woken'[p] = (woken[p] \/ (listener[p] = "on" /\ p \in accepting))
      /\ UNCHANGED <<up, claims, ppc, after, listener, clientVars, covered, faults>>
  BY DEF Dispatch
<1>2. /\ Head(wire) = wire[1]
      /\ Len(wire) \in Nat
      /\ Len(wire') = Len(wire) - 1
      /\ \A j \in 1..Len(wire') : wire'[j] = wire[j + 1]
  BY <1>1, HeadTailProperties, LenProperties
<1> SUFFICES ASSUME ppc[p] = "wait", covered[p], NEW m \in After(p, items)
             PROVE  up /\ listener[p] = "on" /\ Notified(p, m)'
  BY <1>1 DEF Awake, After
<1>3. up /\ listener[p] = "on" /\ Notified(p, m)
  BY DEF Awake
<1>4. CASE woken[p]
  BY <1>1, <1>3, <1>4 DEF Notified
<1>5. ASSUME NEW j \in 1..Len(wire), wire[j] = m PROVE Notified(p, m)'
  <2>1. CASE j = 1
    <3>1. p \in accepting
      BY <1>2, <1>5, <2>1
    <3> QED
      BY <1>1, <1>3, <3>1 DEF Notified
  <2>2. CASE j # 1
    <3>1. j - 1 \in 1..Len(wire') /\ (j - 1) + 1 = j
      BY <1>2, <2>2
    <3>2. wire'[j - 1] = m
      BY <1>2, <1>5, <3>1
    <3> QED
      BY <3>1, <3>2 DEF Notified
  <2> QED
    BY <2>1, <2>2
<1> QED
  BY <1>3, <1>4, <1>5 DEF Notified

\* A step of q, or of the connection, leaves p as it is, or where it need not be
\* woken: p comes to wait only when there is nothing that it has not read.
LEMMA OwnAwake ==
  ASSUME PollTypeOK, NEW p \in Poller, NEW items, Awake(p, items), NEW q \in Poller,
         NEW latest, NEW listed, p = q => listed = items, NEW page,
         Disconnect \/ Reconnect \/ Quiet(q, latest, listed) \/ Answer(q, page)
  PROVE  Awake(p, items)'
<1> USE DEF PollTypeOK
<1> DEFINE Spared == /\ ppc'[p] = ppc[p] /\ covered'[p] = covered[p] /\ listener'[p] = listener[p]
                     /\ woken'[p] = woken[p] /\ after'[p] = after[p] /\ wire' = wire /\ up' = up
           Resting == ~(ppc'[p] = "wait" /\ covered'[p])
<1>1. ASSUME Spared PROVE Awake(p, items)'
  BY <1>1 DEF Awake, After, Notified
<1>2. ASSUME Resting PROVE Awake(p, items)'
  BY <1>2 DEF Awake
<1>3. CASE Disconnect
  BY <1>2, <1>3 DEF Disconnect
<1>4. CASE Reconnect
  BY <1>2, <1>4 DEF Reconnect, Awake
<1>5. CASE q # p /\ (Quiet(q, latest, listed) \/ Answer(q, page))
  <2>1. Spared
    BY <1>5 DEF Quiet, NewToken, Call, Register, Fail, Lose, Return, Bootstrap, ListCaughtUp, Wake,
                Timeout, Answer, Goto, plumbing
  <2> QED
    BY <1>1, <2>1
<1>6. CASE q = p /\ Register(p)
  <2>1. ppc[p] = "wait" /\ covered[p] => listener[p] = "on"
    BY DEF Awake
  <2> QED
    BY <1>2, <1>6, <2>1 DEF Register
<1>7. CASE q = p /\ ListCaughtUp(p, listed)
  <2>1. /\ After(p, items) = {} /\ covered'[p] = (up /\ listener[p] = "on")
        /\ UNCHANGED <<up, listener, after>>
    BY <1>7 DEF ListCaughtUp, plumbing
  <2>2. After(p, items)' = {}
    BY <2>1 DEF After
  <2> QED
    BY <2>1, <2>2 DEF Awake
<1>8. CASE q = p /\ (NewToken(p) \/ Call(p) \/ Fail(p) \/ Bootstrap(p, latest) \/ Wake(p) \/ Timeout(p)
                    \/ Answer(p, page))
  BY <1>2, <1>8 DEF NewToken, Call, Fail, Lose, Return, Bootstrap, Wake, Timeout, Answer, Goto
<1> QED
  BY <1>3, <1>4, <1>5, <1>6, <1>7, <1>8 DEF Quiet

LEMMA FewerAwake ==
  ASSUME NEW p \in Poller, NEW items, Awake(p, items), NEW fewer, fewer \subseteq items,
         UNCHANGED longPollVars
  PROVE  Awake(p, fewer)'
BY DEF Awake, After, Notified, longPollVars, plumbing

\* An answer hands out what it moves the cursor past: item m of owner o, if it
\* is among the items whenever the claims of the call name its owner.
LEMMA AnswerSkips ==
  ASSUME NEW X, NEW bound \in [Poller -> Nat], LongPollOK(X, bound), NEW q \in Poller,
         ppc[q] \in {"list", "relist"}, NEW items, IsFiniteSet(items),
         \A m \in items : m.id \in 1..bound[q], Answer(q, IdsOf(Page(q, items))),
         NEW m, NEW o, m.id \in Nat, o \in getAllOwners(claims[q]) => m \in items,
         (start[q] < m.id /\ m.id <= cursor[q] /\ o \in steady[q]) => m.id \in got[q],
         start'[q] < m.id, m.id <= cursor'[q], o \in steady'[q]
  PROVE  m.id \in got'[q]
<1> DEFINE page == IdsOf(Page(q, items))
           L == LastId(q, page)
<1>1. /\ cursor'[q] = L /\ got'[q] = got[q] \cup page
      /\ steady'[q] = steady[q] \cap getAllOwners(claims[q])
      /\ start'[q] = IF cursor[q] = -1 THEN after[q] ELSE start[q]
  BY DEF Answer, LongPollOK, PollTypeOK
<1>2. bound[q] \in Nat /\ after[q] \in 0..bound[q] /\ (cursor[q] # -1 => after[q] = cursor[q])
  BY DEF LongPollOK, PollTypeOK
<1>3. m \in items
  BY <1>1
<1>4. CASE after[q] < m.id
  BY <1>1, <1>2, <1>3, <1>4, AnswerCovers
<1>5. CASE ~(after[q] < m.id)
  <2> HIDE DEF page, L
  <2>1. after[q] \in Nat /\ cursor[q] \in Nat \cup {-1} /\ start[q] \in Nat
    BY <1>2 DEF LongPollOK, PollTypeOK
  <2>2. cursor[q] # -1 /\ after[q] = cursor[q]
    BY <1>1, <1>2, <1>5, <2>1
  <2>3. start[q] < m.id /\ m.id <= cursor[q]
    BY <1>1, <1>5, <2>1, <2>2
  <2> QED
    BY <1>1, <2>3
<1> QED
  BY <1>4, <1>5

-----------------------------------------------------------------------------
(* The log *)

Change == [row : Doc \cup Prop, type : {"update", "delete"}, version : Nat]

LogType == table \in [Doc \cup Prop -> Nat] /\ history \in Seq(Change)

\* What a step of the log leaves as it is.
Grows(old, new) == /\ Len(old) <= Len(new)
                   /\ \A i \in 1..Len(old) : new[i] = old[i]

LEMMA AppendGrows ==
  ASSUME NEW s \in Seq(Change), NEW c \in Change
  PROVE  Append(s, c) \in Seq(Change) /\ Grows(s, Append(s, c))
  BY DEF Grows

LEMMA ConcatGrows ==
  ASSUME NEW s \in Seq(Change), NEW e \in Seq(Change)
  PROVE  s \o e \in Seq(Change) /\ Grows(s, s \o e)
<1>1. /\ s \o e \in Seq(Change)
      /\ Len(s \o e) = Len(s) + Len(e)
      /\ \A i \in 1 .. Len(s) + Len(e) : (s \o e)[i] = IF i <= Len(s) THEN s[i] ELSE e[i - Len(s)]
  BY ConcatProperties
<1>2. Len(s) \in Nat /\ Len(e) \in Nat
  BY LenProperties
<1> QED
  BY <1>1, <1>2 DEF Grows

LEMMA BatchType ==
  ASSUME NEW ks \in Batches, NEW type \in {"update", "delete"}
  PROVE  [i \in 1..Len(ks) |-> Changed(type, ks[i], 0)] \in Seq(Change)
<1>1. ks \in Seq(Prop)
  BY PollerAssumption
<1>2. Len(ks) \in Nat /\ \A i \in 1..Len(ks) : ks[i] \in Prop
  BY <1>1, LenProperties, ElementOfSeq
<1>3. [i \in 1..Len(ks) |-> Changed(type, ks[i], 0)] \in [1..Len(ks) -> Change]
  BY <1>2 DEF Changed, Change
<1> QED
  BY <1>2, <1>3, SeqDef

LEMMA LogStep ==
  ASSUME LogType, Next
  PROVE  LogType' /\ Grows(history, history')
<1>1. CASE PutDocument
  <2>1. PICK k \in Doc : /\ table' = [table EXCEPT ![k] = @ + 1]
                         /\ history' = Append(history, Changed("update", k, table[k] + 1))
    BY <1>1 DEF PutDocument
  <2>2. Changed("update", k, table[k] + 1) \in Change
    BY DEF Changed, Change, LogType
  <2> QED
    BY <2>1, <2>2, AppendGrows DEF LogType
<1>2. CASE DropDocument
  <2>1. PICK k \in Doc : /\ table' = [table EXCEPT ![k] = 0]
                         /\ history' = Append(history, Changed("delete", k, 0))
    BY <1>2 DEF DropDocument
  <2>2. Changed("delete", k, 0) \in Change
    BY DEF Changed, Change
  <2> QED
    BY <2>1, <2>2, AppendGrows DEF LogType
<1>3. CASE PutProperties
  <2>1. PICK ks \in Batches :
           /\ table' = [k \in Doc \cup Prop |->
                          IF \E i \in 1..Len(ks) : ks[i] = k THEN 1 ELSE table[k]]
           /\ history' = history \o [i \in 1..Len(ks) |-> Changed("update", ks[i], 0)]
    BY <1>3 DEF PutProperties
  <2> QED
    BY <2>1, BatchType, ConcatGrows DEF LogType
<1>4. CASE DropProperties
  <2>1. PICK ks \in Batches :
           /\ table' = [k \in Doc \cup Prop |->
                          IF \E i \in 1..Len(ks) : ks[i] = k THEN 0 ELSE table[k]]
           /\ history' = history \o [i \in 1..Len(ks) |-> Changed("delete", ks[i], 0)]
    BY <1>4 DEF DropProperties
  <2> QED
    BY <2>1, BatchType, ConcatGrows DEF LogType
<1> QED
  BY <1>1, <1>2, <1>3, <1>4 DEF Next

-----------------------------------------------------------------------------
(* Tailing the log *)

LEMMA ItemType ==
  ASSUME NEW log \in Seq(Change), NEW i \in 1..Len(log)
  PROVE  Item(log, i) \in [id : Nat, to : Owner] /\ Item(log, i).id = i
<1>1. log[i] \in Change
  BY ElementOfSeq
<1>2. log[i].row \in Doc \cup Prop
  BY <1>1 DEF Change
<1>3. i \in Nat
  BY LenProperties
<1> QED
  BY <1>2, <1>3, PollerAssumption DEF Item

LEMMA EntriesType ==
  ASSUME LogType, NEW p \in Poller
  PROVE  /\ IsFiniteSet(Entries(p))
         /\ \A m \in Entries(p) : m.id \in 1..Len(history) /\ m = Item(history, m.id)
         /\ \A i \in 1..Len(history) :
               Item(history, i).to \in getAllOwners(claims[p]) => Item(history, i) \in Entries(p)
<1> DEFINE I == 1..Len(history)
           items == {Item(history, i) : i \in I}
           f == [i \in I |-> Item(history, i)]
<1>1. Len(history) \in Nat
  BY LenProperties DEF LogType
<1>2. IsFiniteSet(I)
  BY <1>1, FS_Interval
<1>3. f \in Surjection(I, items)
  BY DEF Surjection
<1>4. IsFiniteSet(items)
  <2> HIDE DEF f, items, I
  <2> QED
    BY <1>2, <1>3, FS_Surjection
<1>5. Entries(p) \subseteq items
  BY DEF Entries
<1>6. IsFiniteSet(Entries(p))
  <2> HIDE DEF items
  <2> QED
    BY <1>4, <1>5, FS_Subset
<1>7. \A m \in Entries(p) : m.id \in 1..Len(history) /\ m = Item(history, m.id)
  BY <1>5, ItemType DEF LogType
<1> QED
  BY <1>6, <1>7 DEF Entries

LogBound == [p \in Poller |-> Len(history)]

PollInv == LogType /\ LongPollOK(Owner, LogBound)

LEMMA PollInitInv == PollInit => PollInv
<1> SUFFICES ASSUME PollInit PROVE PollInv
  OBVIOUS
<1>1. LogType /\ Len(history) \in Nat
  BY EmptySeq DEF PollInit, LogType, Init
<1>2. PICK bound \in [Poller -> Nat] : bound = LogBound
  BY <1>1 DEF LogBound
<1> QED
  BY <1>1, <1>2, LongPollInitOK DEF PollInit, PollInv

LEMMA CommitInv ==
  ASSUME PollInv, CommitAndNotify
  PROVE  PollInv' /\ UNCHANGED <<claims, ppc, after, clientVars>> /\ Grows(history, history')
         /\ \E new \in Seq([id : Nat, to : Owner]) :
               /\ Notify(new)
               /\ \A i \in 1..Len(history') :
                     i <= Len(history) \/ \E j \in 1..Len(new) : new[j] = Item(history', i)
<1> DEFINE new == [i \in 1..(Len(history') - Len(history)) |-> Item(history', Len(history) + i)]
<1>1. LogType' /\ Grows(history, history')
  BY LogStep DEF CommitAndNotify, PollInv
<1>2. Notify(new)
  BY DEF CommitAndNotify
<1>3. Len(history) \in Nat /\ Len(history') \in Nat /\ Len(history) <= Len(history')
  BY <1>1, LenProperties DEF PollInv, LogType, Grows
<1>4. new \in Seq([id : Nat, to : Owner]) /\ Len(new) = Len(history') - Len(history)
  <2>1. ASSUME NEW i \in 1..(Len(history') - Len(history))
        PROVE  Item(history', Len(history) + i) \in [id : Nat, to : Owner]
    <3>1. Len(history) + i \in 1..Len(history')
      BY <1>3
    <3> QED
      BY <1>1, <3>1, ItemType DEF LogType
  <2>2. new \in [1..(Len(history') - Len(history)) -> [id : Nat, to : Owner]]
    BY <2>1
  <2>3. Len(history') - Len(history) \in Nat
    BY <1>3
  <2>4. new \in Seq([id : Nat, to : Owner])
    <3> HIDE DEF new
    <3> QED
      BY <2>2, <2>3, SeqDef
  <2>5. DOMAIN new = 1..(Len(history') - Len(history)) /\ DOMAIN new = 1..Len(new)
    BY <2>4, LenProperties
  <2> HIDE DEF new
  <2> QED
    BY <2>3, <2>4, <2>5, LenProperties
<1>5. ASSUME NEW i \in 1..Len(history'), ~(i <= Len(history))
      PROVE  \E j \in 1..Len(new) : new[j] = Item(history', i)
  <2>1. /\ i - Len(history) \in 1..(Len(history') - Len(history))
        /\ Len(history) + (i - Len(history)) = i
    BY <1>3, <1>5
  <2>2. new[i - Len(history)] = Item(history', i)
    BY <2>1
  <2> QED
    BY <1>4, <2>1, <2>2
<1>6. PICK bound \in [Poller -> Nat], later \in [Poller -> Nat] :
         /\ bound = [p \in Poller |-> Len(history)]
         /\ later = [p \in Poller |-> Len(history')]
  BY <1>3
<1>7. LongPollOK(Owner, bound)
  BY <1>6 DEF PollInv, LogBound
<1> HIDE DEF new
<1>8. LongPollOK(Owner, later)'
  BY <1>2, <1>3, <1>4, <1>6, <1>7, NotifyOK
<1>9. PollInv'
  BY <1>1, <1>6, <1>8 DEF PollInv, LogBound, LongPollOK
<1> QED
  BY <1>1, <1>2, <1>4, <1>5, <1>9 DEF Notify

\* A step commits, answers, or hands out nothing and leaves the log.
LEMMA PollCases ==
  ASSUME PollNext
  PROVE  \/ CommitAndNotify
         \/ /\ UNCHANGED logVars
            /\ \/ Subscriber(Woken)
               \/ \E p \in Poller :
                     \/ ppc[p] \in {"list", "relist"} /\ Answer(p, IdsOf(Page(p, Entries(p))))
                     \/ Quiet(p, LatestId(Entries(p)), Entries(p))
BY DEF PollNext, PollHandler, Handler, ListBehind, Relist, Subscriber, Quiet

LEMMA PollStepInv ==
  ASSUME PollInv, [PollNext]_pollVars
  PROVE  PollInv' /\ \A p \in Poller : cursor'[p] >= cursor[p]
<1>1. \A p \in Poller : cursor[p] \in Int
  BY DEF PollInv, LongPollOK, PollTypeOK
<1>2. Len(history) \in Nat
  BY LenProperties DEF PollInv, LogType
<1>3. PICK bound \in [Poller -> Nat] : bound = [p \in Poller |-> Len(history)]
  BY <1>2
<1>4. LongPollOK(Owner, bound)
  BY <1>3 DEF PollInv, LogBound
<1>5. ASSUME UNCHANGED logVars, LongPollOK(Owner, bound)' PROVE PollInv'
  BY <1>3, <1>5 DEF PollInv, LogType, LogBound, LongPollOK, logVars
<1>6. ASSUME NEW p \in Poller PROVE \A m \in Entries(p) : m.id \in 1..bound[p]
  BY <1>3, EntriesType DEF PollInv
<1>7. CASE UNCHANGED pollVars
  <2>1. LongPollOK(Owner, bound)'
    BY <1>4, <1>7 DEF LongPollOK, PollTypeOK, pollVars, longPollVars, plumbing, clientVars
  <2> QED
    BY <1>1, <1>5, <1>7, <2>1 DEF pollVars, longPollVars, clientVars
<1>8. CASE CommitAndNotify
  BY <1>1, <1>8, CommitInv DEF clientVars
<1>9. CASE Subscriber(Woken) /\ UNCHANGED logVars
  BY <1>1, <1>4, <1>5, <1>9, SubscriberOK DEF clientVars
<1>10. ASSUME NEW p \in Poller, ppc[p] \in {"list", "relist"},
              Answer(p, IdsOf(Page(p, Entries(p)))), UNCHANGED logVars
       PROVE  PollInv' /\ \A q \in Poller : cursor'[q] >= cursor[q]
  BY <1>1, <1>4, <1>5, <1>6, <1>10, AnswerOK
<1>11. ASSUME NEW p \in Poller, Quiet(p, LatestId(Entries(p)), Entries(p)), UNCHANGED logVars
       PROVE  PollInv' /\ \A q \in Poller : cursor'[q] >= cursor[q]
  <2>1. LatestId(Entries(p)) \in 0..bound[p]
    BY <1>6, LatestIdType
  <2> QED
    BY <1>1, <1>4, <1>5, <1>11, <2>1, QuietOK DEF clientVars
<1> QED
  BY <1>7, <1>8, <1>9, <1>10, <1>11, PollCases

LEMMA PollInvariant == PollSpec => []PollInv
  BY PollInitInv, PollStepInv, PTL DEF PollSpec

\* The subscriber, the handlers and the clients keep their types.
THEOREM PollTypeCorrect == PollSpec => []PollTypeOK
<1>1. PollInv => PollTypeOK
  BY DEF PollInv, LongPollOK
<1> QED
  BY <1>1, PollInvariant, PTL

\* A cursor never moves back, whatever calls fail and tokens change.
THEOREM CursorsAdvance == PollSpec => CursorAdvances
<1>1. PollInv /\ [PollNext]_pollVars => [\A p \in Poller : cursor'[p] >= cursor[p]]_cursor
  BY PollStepInv
<1> QED
  BY <1>1, PollInvariant, PTL DEF PollSpec, CursorAdvances

\* The rules on access agree for every client at any time.
THEOREM ClaimsAlwaysAgree == PollSpec => []ClaimsAgree
<1>1. PollInv => ClaimsAgree
  BY AccessRulesAgree DEF PollInv, LongPollOK, PollTypeOK, ClaimsAgree
<1> QED
  BY <1>1, PollInvariant, PTL

-----------------------------------------------------------------------------
(* No entry is skipped *)

LEMMA CommitSkipsNothing ==
  ASSUME PollInv, NoSkip, CommitAndNotify
  PROVE  NoSkip'
<1>1. UNCHANGED clientVars /\ Grows(history, history')
  BY CommitInv
<1> SUFFICES ASSUME NEW p \in Poller, NEW i \in 1..Len(history'),
                    start[p] < i, i <= cursor[p], Item(history', i).to \in steady[p]
             PROVE  i \in got[p]
  BY <1>1 DEF NoSkip, clientVars
<1>2. Len(history) \in Nat /\ Len(history') \in Nat
  BY CommitInv, LenProperties DEF PollInv, LogType
<1>3. i \in 1..Len(history)
  <2>1. cursor[p] <= Len(history) /\ cursor[p] \in Int
    BY DEF PollInv, LongPollOK, LogBound, PollTypeOK
  <2> QED
    BY <1>2, <2>1
<1>4. Item(history', i) = Item(history, i)
  BY <1>1, <1>3 DEF Grows, Item
<1> QED
  BY <1>3, <1>4 DEF NoSkip

LEMMA SkipStep ==
  ASSUME PollInv, NoSkip, [PollNext]_pollVars
  PROVE  NoSkip'
<1>1. ASSUME UNCHANGED logVars, UNCHANGED clientVars PROVE NoSkip'
  BY <1>1 DEF NoSkip, Item, logVars, clientVars
<1>2. CASE UNCHANGED pollVars
  BY <1>1, <1>2 DEF pollVars, longPollVars
<1>3. PICK bound \in [Poller -> Nat] : bound = [p \in Poller |-> Len(history)]
  BY LenProperties DEF PollInv, LogType
<1>4. LongPollOK(Owner, bound)
  BY <1>3 DEF PollInv, LogBound
<1>5. ASSUME NEW p \in Poller
      PROVE  \A m \in Entries(p) : m.id \in 1..bound[p]
  BY <1>3, EntriesType DEF PollInv
<1>6. CASE Subscriber(Woken) /\ UNCHANGED logVars
  BY <1>1, <1>4, <1>6, SubscriberOK
<1>7. ASSUME NEW p \in Poller, Quiet(p, LatestId(Entries(p)), Entries(p)), UNCHANGED logVars
      PROVE  NoSkip'
  BY <1>1, <1>4, <1>5, <1>7, LatestIdType, QuietOK
<1>8. ASSUME NEW q \in Poller, ppc[q] \in {"list", "relist"},
             Answer(q, IdsOf(Page(q, Entries(q)))), UNCHANGED logVars
      PROVE  NoSkip'
  <2> SUFFICES ASSUME NEW p \in Poller, NEW i \in 1..Len(history),
                      start'[p] < i, i <= cursor'[p], Item(history, i).to \in steady'[p]
               PROVE  i \in got'[p]
    BY <1>8 DEF NoSkip, Item, logVars
  <2>1. CASE p # q
    BY <1>4, <1>8, <2>1 DEF NoSkip, LongPollOK, PollTypeOK, Answer
  <2>2. CASE p = q
    <3>1. Item(history, i).id = i /\ i \in Nat
      BY DEF Item
    <3>2. Item(history, i).to \in getAllOwners(claims[q]) => Item(history, i) \in Entries(q)
      BY EntriesType DEF PollInv
    <3>3. IsFiniteSet(Entries(q))
      BY EntriesType DEF PollInv
    <3>4. (start[q] < i /\ i <= cursor[q] /\ Item(history, i).to \in steady[q]) => i \in got[q]
      BY DEF NoSkip
    <3> DEFINE m == Item(history, i)
    <3> HIDE DEF m
    <3>5. m.id \in got'[q]
      BY <1>4, <1>5, <1>8, <2>2, <3>1, <3>2, <3>3, <3>4, AnswerSkips DEF m
    <3> QED
      BY <2>2, <3>1, <3>5 DEF m
  <2> QED
    BY <2>1, <2>2
<1> QED
  BY <1>2, <1>6, <1>7, <1>8, PollCases, CommitSkipsNothing

\* No client's cursor ever passes an entry that it was entitled to in all its
\* calls and has not received, whatever it loses and whoever writes.
THEOREM NothingIsSkipped == PollSpec => []NoSkip
<1>1. PollInit => NoSkip
  BY DEF PollInit, LongPollInit, Init, NoSkip
<1> QED
  BY <1>1, SkipStep, PollInvariant, PTL DEF PollSpec

-----------------------------------------------------------------------------
(* No wakeup is lost *)

WakeInv == \A p \in Poller : Awake(p, Entries(p))

LEMMA UnreadWakes ==
  ASSUME PollInv, NEW p \in Poller, ppc[p] = "wait", NEW m \in After(p, Entries(p))
  PROVE  Wakes(p, m)
<1>1. m \in Entries(p) /\ m.id > after[p] /\ m.to \in getAllOwners(claims[p])
  BY DEF After, Entries
<1>2. m.id \in Nat
  BY <1>1, EntriesType, LenProperties DEF PollInv, LogType
<1>3. after[p] \in Int /\ cursor[p] \in Nat \cup {-1} /\ after[p] >= 0
      /\ (cursor[p] # -1 => after[p] = cursor[p])
  BY DEF PollInv, LongPollOK, PollTypeOK
<1>4. m.id > cursor[p]
  BY <1>1, <1>2, <1>3
<1> QED
  BY <1>1, <1>4 DEF Wakes

LEMMA WakeStep ==
  ASSUME PollInv, WakeInv, [PollNext]_pollVars
  PROVE  WakeInv'
<1> SUFFICES ASSUME NEW p \in Poller PROVE Awake(p, Entries(p))'
  BY DEF WakeInv
<1>1. PICK items : items = Entries(p)
  OBVIOUS
<1>2. Awake(p, items) /\ wire \in Seq([id : Nat, to : Owner]) /\ PollTypeOK
  BY <1>1 DEF WakeInv, PollInv, LongPollOK
\* A client that waits has the claims it read the log with.
<1>3. ASSUME ppc'[p] = "wait" => claims'[p] = claims[p] /\ history' = history, Awake(p, items)'
      PROVE  Awake(p, Entries(p))'
  <2>1. ppc'[p] = "wait" => Entries(p)' = items
    BY <1>1, <1>3 DEF Entries
  <2> QED
    BY <1>3, <2>1 DEF Awake, After
<1>4. CASE UNCHANGED pollVars
  <2>1. Awake(p, items)'
    BY <1>2, <1>4, FewerAwake DEF pollVars
  <2> QED
    BY <1>3, <1>4, <2>1 DEF pollVars, longPollVars, logVars
<1>5. CASE CommitAndNotify
  <2>1. PICK new \in Seq([id : Nat, to : Owner]) :
          /\ Notify(new)
          /\ \A i \in 1..Len(history') :
                i <= Len(history) \/ \E j \in 1..Len(new) : new[j] = Item(history', i)
    BY <1>5, CommitInv
  <2>2. PICK more : more = Entries(p)'
    OBVIOUS
  <2>3. ASSUME NEW m \in more PROVE m \in items \/ \E j \in 1..Len(new) : new[j] = m
    <3>1. PICK i \in 1..Len(history') : m = Item(history', i) /\ m.to \in getAllOwners(claims[p])
      BY <2>1, <2>2 DEF Entries, Notify
    <3>2. CASE i <= Len(history)
      <4>1. i \in 1..Len(history)
        BY <1>5, <3>2, CommitInv, LenProperties DEF PollInv, LogType
      <4>2. m = Item(history, i)
        BY <1>5, <3>1, <4>1, CommitInv DEF Grows, Item
      <4> QED
        BY <1>1, <3>1, <4>1, <4>2, EntriesType DEF PollInv
    <3> QED
      BY <2>1, <3>1, <3>2
  <2>4. Awake(p, more)'
    <3>1. \A m \in After(p, more) : m \in items \/ \E j \in 1..Len(new) : new[j] = m
      BY <2>3 DEF After
    <3> QED
      BY <1>2, <2>1, <3>1, NotifyAwake
  <2> QED
    BY <2>2, <2>4 DEF Awake, After
<1>6. CASE Dispatch(Woken) /\ UNCHANGED logVars
  <2>1. ppc[p] = "wait" /\ Head(wire) \in After(p, items) => p \in Woken
    BY <1>1, UnreadWakes DEF Woken
  <2>2. Awake(p, items)'
    BY <1>2, <1>6, <2>1, DispatchAwake
  <2> QED
    BY <1>3, <1>6, <2>2 DEF Dispatch, logVars
<1>7. CASE (Disconnect \/ Reconnect) /\ UNCHANGED logVars
  <2>1. Awake(p, items)'
    BY <1>2, <1>7, OwnAwake
  <2> QED
    BY <1>3, <1>7, <2>1 DEF Disconnect, Reconnect, logVars
<1>8. ASSUME NEW q \in Poller, UNCHANGED logVars,
             \/ Quiet(q, LatestId(Entries(q)), Entries(q))
             \/ ppc[q] \in {"list", "relist"} /\ Answer(q, IdsOf(Page(q, Entries(q))))
      PROVE  Awake(p, Entries(p))'
  <2>1. Awake(p, items)'
    BY <1>1, <1>2, <1>8, OwnAwake
  <2>2. ppc'[p] = "wait" => claims'[p] = claims[p]
    BY <1>2, <1>8 DEF Quiet, NewToken, Call, Register, Fail, Lose, Return, Bootstrap, ListCaughtUp,
                      Wake, Timeout, Answer, Goto, PollTypeOK
  <2> QED
    BY <1>3, <1>8, <2>1, <2>2 DEF logVars
<1> QED
  BY <1>4, <1>5, <1>6, <1>7, <1>8, PollCases DEF Subscriber

LEMMA WakeSuffices ==
  ASSUME PollInv, WakeInv
  PROVE  NoLostWakeup
<1> SUFFICES ASSUME NEW p \in Poller, ppc[p] = "wait", covered[p],
                    NEW m \in After(p, Entries(p)), ~woken[p]
             PROVE  \E i \in 1..Len(wire) : Wakes(p, wire[i])
  BY DEF NoLostWakeup
<1>1. PICK i \in 1..Len(wire) : wire[i] = m
  BY DEF WakeInv, Awake, Notified
<1> QED
  BY <1>1, UnreadWakes

\* A poll that was listening when it read the log is woken by every entry it
\* can read, or about to be, for as long as the connection holds.
THEOREM NoWakeupIsLost == PollSpec => []NoLostWakeup
<1>1. PollInit => WakeInv
  BY DEF PollInit, LongPollInit, WakeInv, Awake
<1> QED
  BY <1>1, WakeStep, WakeSuffices, PollInvariant, PTL DEF PollSpec

-----------------------------------------------------------------------------
(* Messages *)

MailOK ==
    /\ IsFiniteSet(mail) /\ mail \subseteq [id : Nat \ {0}, to : Address]
    /\ last \in [Feed -> Nat]
    /\ \A m \in mail : m.id <= last[FeedOf[m.to]]
    /\ box \in [Poller -> Box]

\* The feed a client polls, whatever its token says besides its sub.
ReadFeed(p) == IF box[p] = "inbox" THEN "inbox" ELSE claims[p].sub

MailBound == [p \in Poller |-> IF ReadFeed(p) \in Feed THEN last[ReadFeed(p)] ELSE 0]

MailPollInv == MailOK /\ LongPollOK(Address, MailBound)

\* What GetLatestInboxMessageId and GetLatestMessageId select from.
Counted(p) == IF box[p] = "inbox" THEN Inbox(p) ELSE Messages(p)

\* A message that p reads, or has read with all its tokens, is in its feed.
LEMMA FeedIs ==
  ASSUME NEW a \in Address
  PROVE  /\ FeedOf[a] \in Feed
         /\ a.box = "inbox" => FeedOf[a] = "inbox"
         /\ a.box # "inbox" => FeedOf[a] = a.owner
BY MailboxAssumption DEF Feed

LEMMA BoundType ==
  ASSUME MailOK
  PROVE  MailBound \in [Poller -> Nat]
BY DEF MailOK, MailBound

LEMMA ReadableFeed ==
  ASSUME MailOK, NEW p \in Poller, claims[p] \in Tokens[p], NEW c \in Tokens[p],
         NEW a \in Address, a \in ReadableWith(p, c)
  PROVE  FeedOf[a] = ReadFeed(p)
<1>1. claims[p].sub = c.sub
  BY OneSubject
<1>2. CASE box[p] = "inbox"
  BY <1>2, FeedIs DEF ReadableWith, InboxOf, ReadFeed
<1>3. CASE box[p] # "inbox"
  <2>1. a.box = "message" /\ a.owner = c.sub
    BY <1>3 DEF ReadableWith, MessagesOf
  <2> QED
    BY <1>1, <1>3, <2>1, FeedIs DEF ReadFeed
<1> QED
  BY <1>2, <1>3

LEMMA ListedType ==
  ASSUME MailPollInv, NEW p \in Poller
  PROVE  /\ Listed(p) \subseteq Counted(p) /\ Counted(p) \subseteq mail
         /\ IsFiniteSet(Listed(p))
         /\ \A m \in Counted(p) : /\ m.id \in 1..MailBound[p]
                                 /\ m.to \in ReadableWith(p, claims[p])
<1>1. Listed(p) \subseteq Counted(p) /\ Counted(p) \subseteq mail
  BY DEF Listed, Counted, Shown, Inbox, Messages
<1>2. IsFiniteSet(Listed(p))
  <2>1. IsFiniteSet(mail) /\ Listed(p) \subseteq mail
    BY <1>1 DEF MailPollInv, MailOK
  <2> QED
    BY <2>1, FS_Subset
<1>3. ASSUME NEW m \in Counted(p)
      PROVE  m.id \in 1..MailBound[p] /\ m.to \in ReadableWith(p, claims[p])
  <2>1. m.to \in ReadableWith(p, claims[p])
    BY DEF Counted, Inbox, Messages, ReadableWith
  <2>2. m.id \in Nat \ {0} /\ m.to \in Address /\ m.id <= last[FeedOf[m.to]]
    BY <1>1 DEF MailPollInv, MailOK
  <2>3. FeedOf[m.to] = ReadFeed(p) /\ ReadFeed(p) \in Feed
    BY <2>1, <2>2, ReadableFeed, FeedIs DEF MailPollInv, LongPollOK
  <2>4. MailBound[p] = last[ReadFeed(p)] /\ MailBound[p] \in Nat
    BY <2>3, BoundType DEF MailBound, MailPollInv
  <2> QED
    BY <2>1, <2>2, <2>3, <2>4
<1> QED
  BY <1>1, <1>2, <1>3

LEMMA MailPollInitInv == MailPollInit => MailPollInv
<1> SUFFICES ASSUME MailPollInit PROVE MailPollInv
  OBVIOUS
<1>1. MailOK
  BY FS_EmptySet DEF MailPollInit, MailInit, MailOK
<1>2. PICK bound \in [Poller -> Nat] : bound = MailBound
  BY <1>1, BoundType
<1> QED
  BY <1>1, <1>2, LongPollInitOK DEF MailPollInit, MailPollInv

\* A push is a new message, with its notification, beyond every cursor that is
\* or will be at its feed.
LEMMA PushMail ==
  ASSUME MailPollInv, Push
  PROVE  /\ MailPollInv' /\ UNCHANGED <<box, hidden, claims, ppc, after, clientVars>>
         /\ \E m : /\ mail' = mail \cup {m} /\ Notify(<<m>>) /\ m \in [id : Nat, to : Address]
                   /\ \A n \in mail : FeedOf[n.to] = FeedOf[m.to] => n.id < m.id
                   /\ \A p \in Poller : FeedOf[m.to] = ReadFeed(p)
                                           => m.id > cursor[p] /\ m.id > after[p]
<1>1. PICK a \in Address : /\ last' = [last EXCEPT ![FeedOf[a]] = @ + 1]
                           /\ mail' = mail \cup {[id |-> last'[FeedOf[a]], to |-> a]}
                           /\ Notify(<<[id |-> last'[FeedOf[a]], to |-> a]>>)
                           /\ UNCHANGED <<box, hidden>>
  BY DEF Push, Deliver
<1> DEFINE f == FeedOf[a]
           m == [id |-> last'[f], to |-> a]
<1>2. UNCHANGED <<claims, ppc, after, clientVars>>
  BY <1>1 DEF Notify
<1>3. /\ f \in Feed /\ last \in [Feed -> Nat] /\ last'[f] = last[f] + 1 /\ last[f] \in Nat
      /\ last' \in [Feed -> Nat]
      /\ \A g \in Feed : last[g] <= last'[g] /\ last[g] \in Nat /\ last'[g] \in Nat
  BY <1>1, FeedIs DEF MailPollInv, MailOK
<1>4. m \in [id : Nat \ {0}, to : Address] /\ m.id = last[f] + 1 /\ m.to = a
  BY <1>3
<1>5. mail' = mail \cup {m} /\ Notify(<<m>>)
  BY <1>1
<1> HIDE DEF m
<1>6. MailOK'
  <2>1. IsFiniteSet(mail')
    BY <1>5, FS_AddElement DEF MailPollInv, MailOK
  <2>2. ASSUME NEW n \in mail' PROVE n.id <= last'[FeedOf[n.to]]
    <3>1. CASE n \in mail
      <4>1. n.id \in Nat /\ FeedOf[n.to] \in Feed /\ n.id <= last[FeedOf[n.to]]
        BY <3>1, FeedIs DEF MailPollInv, MailOK
      <4> QED
        BY <1>3, <4>1
    <3>2. CASE n = m
      BY <1>3, <1>4, <3>2
    <3> QED
      BY <1>5, <3>1, <3>2
  <2> QED
    BY <1>1, <1>3, <1>4, <1>5, <2>1, <2>2 DEF MailPollInv, MailOK
<1>7. PICK bound \in [Poller -> Nat] : bound = MailBound
  BY BoundType DEF MailPollInv
<1>8. PICK later \in [Poller -> Nat] : later = MailBound'
  BY <1>6, BoundType DEF MailOK, MailBound, ReadFeed
<1>9. LongPollOK(Address, later)'
  <2>1. \A p \in Poller : bound[p] <= later[p]
    <3> TAKE p \in Poller
    <3>1. ReadFeed(p)' = ReadFeed(p)
      BY <1>1, <1>2 DEF ReadFeed
    <3>2. /\ bound[p] = IF ReadFeed(p) \in Feed THEN last[ReadFeed(p)] ELSE 0
          /\ later[p] = IF ReadFeed(p) \in Feed THEN last'[ReadFeed(p)] ELSE 0
      BY <1>7, <1>8, <3>1 DEF MailBound
    <3> QED
      BY <1>3, <3>2
  <2>2. LongPollOK(Address, bound)
    BY <1>7 DEF MailPollInv
  <2>3. m \in [id : Nat, to : Address]
    BY <1>4
  <2>4. <<m>> \in Seq([id : Nat, to : Address])
    BY <2>3
  <2> QED
    BY <1>5, <2>1, <2>2, <2>4, NotifyOK
<1>10. MailPollInv'
  BY <1>6, <1>8, <1>9 DEF MailPollInv, LongPollOK
<1>11. ASSUME NEW p \in Poller, FeedOf[m.to] = ReadFeed(p)
       PROVE  m.id > cursor[p] /\ m.id > after[p]
  <2>1. f = ReadFeed(p)
    BY <1>4, <1>11
  <2>2. MailBound[p] = last[f]
    BY <1>3, <2>1 DEF MailBound
  <2>3. cursor[p] <= last[f] /\ after[p] <= last[f] /\ cursor[p] \in Int /\ after[p] \in Int
    BY <2>2 DEF MailPollInv, LongPollOK, PollTypeOK
  <2> QED
    BY <1>3, <1>4, <2>3
<1>12. m \in [id : Nat, to : Address]
  BY <1>4
<1>13. ASSUME NEW n \in mail, FeedOf[n.to] = FeedOf[m.to] PROVE n.id < m.id
  <2>1. n.id \in Nat /\ n.id <= last[f]
    BY <1>4, <1>13 DEF MailPollInv, MailOK
  <2> QED
    BY <1>3, <1>4, <2>1
<1> QED
  BY <1>1, <1>2, <1>5, <1>10, <1>11, <1>12, <1>13

LEMMA SweepMail ==
  ASSUME MailPollInv, Sweep
  PROVE  MailPollInv' /\ \A p \in Poller : Listed(p)' \subseteq Listed(p)
<1>1. mail' \subseteq mail /\ UNCHANGED last /\ UNCHANGED box /\ UNCHANGED longPollVars
  BY DEF Sweep, Expire
<1>2. UNCHANGED <<claims, up, wire, ppc, after, listener, woken, cursor, start, steady, got, covered, faults>>
  BY <1>1 DEF longPollVars, plumbing, clientVars
<1>3. MailOK'
  BY <1>1, FS_Subset DEF MailPollInv, MailOK
<1>4. LongPollOK(Address, MailBound)'
  BY <1>1, <1>2 DEF MailPollInv, LongPollOK, PollTypeOK, MailBound, ReadFeed
<1>5. ASSUME NEW p \in Poller, NEW m \in Listed(p)' PROVE m \in Listed(p)
  <2>1. m \in mail' /\ m \in mail
    BY <1>1 DEF Listed, Shown, Inbox, Messages
  <2>2. CASE box[p] = "inbox"
    <3>1. m \in Inbox(p) /\ m.to.box = "inbox" /\ ~IsHidden(p, m)'
      BY <1>1, <1>2, <2>1, <2>2 DEF Listed, Shown, Inbox, InboxOf
    <3>2. hidden' = {h \in hidden : \E n \in mail' : n.to.box = "inbox" /\ n.id = h.id}
      BY DEF Sweep
    <3>3. ~IsHidden(p, m)
      BY <1>2, <2>1, <3>1, <3>2 DEF IsHidden
    <3> QED
      BY <2>2, <3>1, <3>3 DEF Listed, Shown
  <2>3. CASE box[p] # "inbox"
    BY <1>1, <1>2, <2>1, <2>3 DEF Listed, Messages
  <2> QED
    BY <2>2, <2>3
<1> QED
  BY <1>3, <1>4, <1>5 DEF MailPollInv

LEMMA HideMail ==
  ASSUME MailPollInv, NEW q \in Poller, Hide(q)
  PROVE  MailPollInv' /\ \A p \in Poller : Listed(p)' \subseteq Listed(p)
<1>1. UNCHANGED <<mail, last, box, longPollVars>> /\ hidden \subseteq hidden'
  BY DEF Hide
<1>2. UNCHANGED <<claims, up, wire, ppc, after, listener, woken, cursor, start, steady, got, covered, faults>>
  BY <1>1 DEF longPollVars, plumbing, clientVars
<1>3. MailOK'
  BY <1>1 DEF MailPollInv, MailOK
<1>4. LongPollOK(Address, MailBound)'
  BY <1>1, <1>2 DEF MailPollInv, LongPollOK, PollTypeOK, MailBound, ReadFeed
<1>5. ASSUME NEW p \in Poller PROVE Listed(p)' \subseteq Listed(p)
  BY <1>1, <1>2 DEF Listed, Messages, Shown, Inbox, IsHidden
<1> QED
  BY <1>3, <1>4, <1>5 DEF MailPollInv

\* Other steps than those of others and of paging back leave the messages and
\* their readers' state, and are those of the long-poll.
LEMMA MailPollCases ==
  ASSUME MailPollNext
  PROVE  \/ Push \/ Sweep
         \/ \E p \in Poller : Hide(p) \/ ListInboxMessages(p)
         \/ /\ UNCHANGED mailVars
            /\ \/ Subscriber(WokenByMail)
               \/ \E p \in Poller :
                     \/ ppc[p] \in {"list", "relist"} /\ Answer(p, IdsOf(Page(p, Listed(p))))
                     \/ Quiet(p, LatestId(Counted(p)), Listed(p))
<1>1. ASSUME NEW p \in Poller, PollMail(p)
      PROVE  Handler(p, Counted(p), Listed(p)) /\ UNCHANGED mailVars
  <2>1. CASE PollMessages(p)
    BY <1>1, <2>1 DEF PollMail, PollMessages, Counted, Listed
  <2>2. CASE PollInboxMessages(p)
    BY <1>1, <2>2 DEF PollMail, PollInboxMessages, Counted, Listed
  <2> QED
    BY <1>1, <2>1, <2>2 DEF PollMail
<1>2. ASSUME NEW p \in Poller, Handler(p, Counted(p), Listed(p))
      PROVE  \/ ppc[p] \in {"list", "relist"} /\ Answer(p, IdsOf(Page(p, Listed(p))))
             \/ Quiet(p, LatestId(Counted(p)), Listed(p))
  BY <1>2 DEF Handler, ListBehind, Relist, Quiet
<1> QED
  BY <1>1, <1>2 DEF MailPollNext, Subscriber, Quiet

-----------------------------------------------------------------------------
(* Paging back *)

\* A page of the newest messages holds, with a message, all older ones up to
\* the next page, and there is one as long as there are messages.
LEMMA PageIsNewest ==
  ASSUME NEW k \in Nat, NEW p \in Poller, NEW older, IsFiniteSet(older),
         \A m \in older : m.id \in 1..k
  PROVE  /\ IdsOf(NewestFirst(p, older)) \subseteq 1..k
         /\ IdsOf(NewestFirst(p, older)) = {} => older = {}
         /\ \A m \in older : \A n \in NewestFirst(p, older) :
               n.id <= m.id => m \in NewestFirst(p, older)
<1> DEFINE Newer(m) == {n \in older : n.id > m.id}
<1>1. NewestFirst(p, older) = {m \in older : Cardinality(Newer(m)) < PageSize}
  BY DEF NewestFirst
<1>2. IdsOf(NewestFirst(p, older)) \subseteq 1..k
  BY <1>1 DEF IdsOf
<1>3. ASSUME older # {} PROVE IdsOf(NewestFirst(p, older)) # {}
  <2>1. IsFiniteSet(IdsOf(older)) /\ IdsOf(older) \subseteq 1..k /\ IdsOf(older) # {}
    BY <1>3, IdsType DEF IdsOf
  <2>2. PICK x \in IdsOf(older) : \A y \in IdsOf(older) : y <= x
    BY <2>1, LargestMember
  <2>3. PICK m \in older : m.id = x
    BY DEF IdsOf
  <2>4. ASSUME NEW n \in older PROVE ~(n.id > m.id)
    <3>1. n.id <= m.id
      BY <2>2, <2>3 DEF IdsOf
    <3> QED
      BY <3>1
  <2>5. Newer(m) = {}
    BY <2>4
  <2>6. Cardinality(Newer(m)) < PageSize
    BY <2>5, FS_EmptySet, LongPollAssumption
  <2>7. m \in NewestFirst(p, older)
    BY ONLY <1>1, <2>3, <2>6
  <2> HIDE DEF Newer
  <2> QED
    BY <2>7 DEF IdsOf
<1>4. ASSUME NEW m \in older, NEW n \in NewestFirst(p, older), n.id <= m.id
      PROVE  m \in NewestFirst(p, older)
  <2>1. n \in older /\ Cardinality(Newer(n)) < PageSize
    BY <1>1
  <2>2. Newer(m) \subseteq Newer(n)
    BY <1>4, <2>1
  <2>3. IsFiniteSet(Newer(n))
    BY FS_Subset
  <2>4. Cardinality(Newer(m)) < PageSize
    <3> HIDE DEF Newer
    <3> QED
      BY <2>1, <2>2, <2>3, FewerItems
  <2> QED
    BY <1>1, <2>4
<1> QED
  BY <1>2, <1>3, <1>4

\* What a client is given that pages back: the newest of its older messages.
PagesBack(q, older, latest, earliest) ==
    LET page == IdsOf(NewestFirst(q, older))
    IN  /\ \A m \in Shown(q) : (cursor[q] = -1 \/ m.id <= start[q]) => m \in older
        /\ page \subseteq 1..MailBound[q]
        /\ \A j \in page : j <= latest /\ earliest <= j
        /\ page = {} => latest = 0
        /\ page # {} => earliest \in page
        /\ cursor' = [cursor EXCEPT ![q] = IF cursor[q] = -1 THEN latest ELSE @]
        /\ start' = [start EXCEPT ![q] = IF page = {} THEN 0 ELSE earliest - 1]
        /\ got' = [got EXCEPT ![q] = @ \cup page]

LEMMA ListInbox ==
  ASSUME MailPollInv, NEW q \in Poller, ListInboxMessages(q)
  PROVE  \E older \in SUBSET Shown(q), latest \in 0..MailBound[q], earliest \in Nat :
            PagesBack(q, older, latest, earliest)
<1>1. PICK older : older = {m \in Shown(q) : cursor[q] = -1 \/ m.id <= start[q]}
  OBVIOUS
<1>2. PICK page : page = IdsOf(NewestFirst(q, older))
  OBVIOUS
<1> DEFINE latest_id == CHOOSE i \in page \cup {0} : \A j \in page : j <= i
           earliest_id == CHOOSE i \in page : \A j \in page : i <= j
<1>3. /\ cursor' = [cursor EXCEPT ![q] = IF cursor[q] = -1 THEN latest_id ELSE @]
      /\ start' = [start EXCEPT ![q] = IF page = {} THEN 0 ELSE earliest_id - 1]
      /\ got' = [got EXCEPT ![q] = @ \cup page]
      /\ box[q] = "inbox"
  BY <1>1, <1>2 DEF ListInboxMessages
<1>4. PICK k \in Nat : k = MailBound[q]
  BY BoundType DEF MailPollInv
<1>5. /\ IsFiniteSet(Shown(q))
      /\ \A m \in Shown(q) : m.id \in 1..k
  BY <1>3, <1>4, ListedType DEF Listed
<1>6. /\ older \in SUBSET Shown(q) /\ IsFiniteSet(older)
      /\ \A m \in older : m.id \in 1..k
      /\ \A m \in Shown(q) : (cursor[q] = -1 \/ m.id <= start[q]) => m \in older
  BY <1>1, <1>5, FS_Subset
<1>7. page \subseteq 1..k
  BY <1>2, <1>6, PageIsNewest
<1>8. IsFiniteSet(page)
  <2>1. IsFiniteSet(1..k)
    BY FS_Interval
  <2> QED
    BY <1>7, <2>1, FS_Subset
<1>9. page \in SUBSET Nat
  BY <1>7
<1>10. latest_id \in page \cup {0} /\ \A j \in page : j <= latest_id
  <2>1. PICK W : W = page \cup {0}
    OBVIOUS
  <2>2. IsFiniteSet(W) /\ W \in SUBSET Nat /\ W # {}
    BY <1>8, <1>9, <2>1, FS_AddElement
  <2>3. \E x \in W : \A y \in W : y <= x
    BY <2>2, LargestMember
  <2> QED
    BY <2>1, <2>3
<1>11. ASSUME page # {} PROVE earliest_id \in page /\ \A j \in page : earliest_id <= j
  <2>1. \E x \in page : \A y \in page : x <= y
    BY <1>8, <1>9, <1>11, SmallestMember
  <2> QED
    BY <2>1
<1> HIDE DEF latest_id, earliest_id
<1>12. latest_id \in 0..k
  BY <1>7, <1>10
<1>13. CASE page = {}
  <2>1. latest_id = 0
    BY <1>10, <1>13
  <2>2. start' = [start EXCEPT ![q] = IF page = {} THEN 0 ELSE 0 - 1]
    BY <1>3, <1>13
  <2>3. PagesBack(q, older, latest_id, 0)
    BY <1>2, <1>3, <1>6, <1>13, <2>1, <2>2 DEF PagesBack
  <2> QED
    BY <1>4, <1>6, <1>12, <2>3
<1>14. CASE page # {}
  <2>1. earliest_id \in Nat
    BY <1>9, <1>11, <1>14
  <2>2. PagesBack(q, older, latest_id, earliest_id)
    BY <1>2, <1>3, <1>4, <1>6, <1>7, <1>10, <1>11, <1>14 DEF PagesBack
  <2> QED
    BY <1>4, <1>6, <1>12, <2>1, <2>2
<1> QED
  BY <1>13, <1>14

LEMMA ListInboxOK ==
  ASSUME MailPollInv, NEW q \in Poller, ListInboxMessages(q)
  PROVE  MailPollInv' /\ \A p \in Poller : cursor'[p] >= cursor[p]
<1>1. PICK older \in SUBSET Shown(q), latest \in 0..MailBound[q], earliest \in Nat :
         PagesBack(q, older, latest, earliest)
  BY ListInbox
<1>2. PICK page : page = IdsOf(NewestFirst(q, older))
  OBVIOUS
<1>3. /\ page \subseteq 1..MailBound[q] /\ (page # {} => earliest \in page)
      /\ cursor' = [cursor EXCEPT ![q] = IF cursor[q] = -1 THEN latest ELSE @]
      /\ start' = [start EXCEPT ![q] = IF page = {} THEN 0 ELSE earliest - 1]
      /\ got' = [got EXCEPT ![q] = @ \cup page]
  BY <1>1, <1>2 DEF PagesBack
<1>4. /\ UNCHANGED <<mail, last, box, hidden, up, wire, claims, ppc, after, listener, woken, covered, faults>>
      /\ ppc[q] = "client"
      /\ steady' = [steady EXCEPT ![q] = @ \cap getAllOwners(claims[q])]
  BY DEF ListInboxMessages, mailVars, plumbing
<1>5. MailBound \in [Poller -> Nat]
  BY BoundType DEF MailPollInv
<1>6. PICK bound \in [Poller -> Nat] : bound = MailBound
  BY <1>5
<1>7. LongPollOK(Address, bound) /\ PollTypeOK
  BY <1>6 DEF MailPollInv, LongPollOK
<1>8. /\ latest \in Nat /\ latest <= bound[q] /\ page \subseteq Nat
      /\ (page # {} => earliest - 1 \in Nat)
  BY <1>3, <1>6
<1>9. PollTypeOK'
  <2>1. cursor' \in [Poller -> Nat \cup {-1}]
    BY <1>3, <1>7, <1>8 DEF PollTypeOK
  <2>2. start' \in [Poller -> Nat]
    BY <1>3, <1>7, <1>8 DEF PollTypeOK
  <2>3. got' \in [Poller -> SUBSET Nat]
    BY <1>3, <1>7, <1>8 DEF PollTypeOK
  <2>4. steady' \in [Poller -> SUBSET Owner]
    BY <1>4, <1>7 DEF PollTypeOK
  <2> QED
    BY <1>4, <1>7, <2>1, <2>2, <2>3, <2>4 DEF PollTypeOK
<1>10. ASSUME NEW p \in Poller
       PROVE  /\ cursor'[p] >= cursor[p] /\ cursor'[p] <= bound[p]
              /\ p # q => cursor'[p] = cursor[p]
  <2>1. cursor[p] \in Nat \cup {-1} /\ cursor[p] <= bound[p] /\ bound[p] \in Nat
    BY <1>7 DEF LongPollOK, PollTypeOK
  <2>2. CASE p = q /\ cursor[q] = -1
    <3>1. cursor'[p] = latest
      BY <1>3, <1>7, <2>2 DEF PollTypeOK
    <3> QED
      BY <1>8, <2>2, <3>1
  <2>3. CASE ~(p = q /\ cursor[q] = -1)
    <3>1. cursor'[p] = cursor[p]
      BY <1>3, <1>7, <2>3 DEF PollTypeOK
    <3> QED
      BY <2>1, <3>1
  <2> QED
    BY <2>2, <2>3
<1>11. LongPollOK(Address, bound)'
  BY <1>4, <1>7, <1>9, <1>10 DEF LongPollOK
<1>12. MailPollInv'
  BY <1>4, <1>6, <1>11 DEF MailPollInv, MailOK, MailBound, ReadFeed, LongPollOK
<1> QED
  BY <1>10, <1>12

-----------------------------------------------------------------------------
(* Reading messages *)

LEMMA MailPollStepInv ==
  ASSUME MailPollInv, [MailPollNext]_allVars
  PROVE  MailPollInv' /\ \A p \in Poller : cursor'[p] >= cursor[p]
<1>1. \A p \in Poller : cursor[p] \in Int
  BY DEF MailPollInv, LongPollOK, PollTypeOK
<1>2. PICK bound \in [Poller -> Nat] : bound = MailBound
  BY BoundType DEF MailPollInv
<1>3. LongPollOK(Address, bound)
  BY <1>2 DEF MailPollInv
\* A client's next token is for the same feed.
<1>4. ASSUME UNCHANGED mailVars, LongPollOK(Address, bound)' PROVE MailPollInv'
  <2>1. UNCHANGED <<mail, last, box, hidden>>
    BY <1>4 DEF mailVars
  <2>2. MailOK'
    BY <2>1 DEF MailPollInv, MailOK
  <2>3. ASSUME NEW p \in Poller PROVE ReadFeed(p)' = ReadFeed(p)
    <3>1. claims[p] \in Tokens[p] /\ claims'[p] \in Tokens[p]
      BY <1>3, <1>4 DEF LongPollOK
    <3>2. claims'[p].sub = claims[p].sub
      BY <3>1, OneSubject
    <3> QED
      BY <2>1, <3>2 DEF ReadFeed
  <2>4. MailBound' = bound
    BY <1>2, <2>1, <2>3 DEF MailBound
  <2> QED
    BY <1>4, <2>2, <2>4 DEF MailPollInv, LongPollOK
<1>5. ASSUME NEW p \in Poller
      PROVE  /\ \A m \in Counted(p) : m.id \in 1..bound[p]
             /\ \A m \in Listed(p) : m.id \in 1..bound[p]
  BY <1>2, ListedType
<1>6. CASE UNCHANGED allVars
  <2>1. LongPollOK(Address, bound)'
    BY <1>3, <1>6 DEF LongPollOK, PollTypeOK, allVars, longPollVars, plumbing, clientVars
  <2> QED
    BY <1>1, <1>4, <1>6, <2>1 DEF allVars, longPollVars, clientVars
<1>7. CASE Push
  BY <1>1, <1>7, PushMail DEF clientVars
<1>8. CASE Sweep
  BY <1>1, <1>8, SweepMail DEF Sweep, longPollVars, clientVars
<1>9. ASSUME NEW p \in Poller, Hide(p)
      PROVE  MailPollInv' /\ \A q \in Poller : cursor'[q] >= cursor[q]
  BY <1>1, <1>9, HideMail DEF Hide, longPollVars, clientVars
<1>10. ASSUME NEW p \in Poller, ListInboxMessages(p)
       PROVE  MailPollInv' /\ \A q \in Poller : cursor'[q] >= cursor[q]
  BY <1>10, ListInboxOK
<1>11. CASE Subscriber(WokenByMail) /\ UNCHANGED mailVars
  BY <1>1, <1>3, <1>4, <1>11, SubscriberOK DEF clientVars
<1>12. ASSUME NEW p \in Poller, ppc[p] \in {"list", "relist"},
              Answer(p, IdsOf(Page(p, Listed(p)))), UNCHANGED mailVars
       PROVE  MailPollInv' /\ \A q \in Poller : cursor'[q] >= cursor[q]
  BY <1>1, <1>3, <1>4, <1>5, <1>12, AnswerOK
<1>13. ASSUME NEW p \in Poller, Quiet(p, LatestId(Counted(p)), Listed(p)), UNCHANGED mailVars
       PROVE  MailPollInv' /\ \A q \in Poller : cursor'[q] >= cursor[q]
  <2>1. LatestId(Counted(p)) \in 0..bound[p]
    BY <1>5, LatestIdType
  <2> QED
    BY <1>1, <1>3, <1>4, <1>13, <2>1, QuietOK DEF clientVars
<1> QED
  BY <1>6, <1>7, <1>8, <1>9, <1>10, <1>11, <1>12, <1>13, MailPollCases

LEMMA MailPollInvariant == MailPollSpec => []MailPollInv
  BY MailPollInitInv, MailPollStepInv, PTL DEF MailPollSpec

\* A cursor never moves back, whatever is swept or hidden and however a client
\* pages.
THEOREM MailCursorsAdvance == MailPollSpec => CursorAdvances
<1>1. MailPollInv /\ [MailPollNext]_allVars
        => [\A p \in Poller : cursor'[p] >= cursor[p]]_cursor
  BY MailPollStepInv
<1> QED
  BY <1>1, MailPollInvariant, PTL DEF MailPollSpec, CursorAdvances

\* The ids of a feed are never used again: a new message is beyond every cursor
\* that polls it and beyond where every call reads on, even when the newest
\* messages have been swept.
THEOREM MailLandsAhead == MailPollSpec => NothingLandsBehind
<1> DEFINE Ahead == \A p \in Poller : \A m \in mail' \ mail :
                      (\E c \in Tokens[p] : m.to \in ReadableWith(p, c))
                          => m.id > cursor[p] /\ m.id > after[p]
<1>1. ASSUME MailPollInv, [MailPollNext]_allVars PROVE Ahead
  <2>1. ASSUME mail' \subseteq mail PROVE Ahead
    BY <2>1
  <2>2. CASE UNCHANGED allVars
    BY <2>1, <2>2 DEF allVars, mailVars
  <2>3. CASE Push
    <3>1. PICK m : /\ mail' = mail \cup {m} /\ m \in [id : Nat, to : Address]
                   /\ \A p \in Poller : FeedOf[m.to] = ReadFeed(p)
                                           => m.id > cursor[p] /\ m.id > after[p]
      BY <1>1, <2>3, PushMail
    <3>2. ASSUME NEW p \in Poller, NEW c \in Tokens[p], m.to \in ReadableWith(p, c)
          PROVE  FeedOf[m.to] = ReadFeed(p)
      BY <1>1, <3>1, <3>2, ReadableFeed DEF MailPollInv, LongPollOK
    <3> QED
      BY <3>1, <3>2
  <2>4. CASE Sweep
    BY <2>1, <2>4 DEF Sweep, Expire
  <2>5. CASE \E p \in Poller : Hide(p) \/ ListInboxMessages(p)
    BY <2>1, <2>5 DEF Hide, ListInboxMessages, mailVars
  <2>6. CASE UNCHANGED mailVars
    BY <2>1, <2>6 DEF mailVars
  <2> QED
    BY <1>1, <2>2, <2>3, <2>4, <2>5, <2>6, MailPollCases
<1>2. MailPollInv /\ [MailPollNext]_allVars => [Ahead]_allVars
  BY <1>1
<1> QED
  BY <1>2, MailPollInvariant, PTL DEF MailPollSpec, NothingLandsBehind

-----------------------------------------------------------------------------
(* No message is skipped *)

\* A message that p is given, if it can read it at all.
Polls(p, m) == /\ m.to.box = box[p]
               /\ box[p] = "message" => m.to.owner = claims[p].sub
               /\ box[p] = "inbox" => ~IsHidden(p, m)

\* NoMailSkipped, of all messages a client has been entitled to, whatever its
\* token says now.
MailSkipInv ==
    \A p \in Poller : \A m \in mail :
        (Polls(p, m) /\ start[p] < m.id /\ m.id <= cursor[p] /\ m.to.owner \in steady[p])
            => m.id \in got[p]

LEMMA PolledFeed ==
  ASSUME MailOK, NEW p \in Poller, NEW m \in mail, Polls(p, m)
  PROVE  /\ FeedOf[m.to] = ReadFeed(p)
         /\ m.to.owner \in getAllOwners(claims[p]) => m \in Listed(p)
         /\ m.id \in Nat
<1>1. m.to \in Address /\ m.to \in [box : Box, owner : Owner] /\ m.id \in Nat
  BY MailboxAssumption DEF MailOK
<1>2. m.to = [box |-> m.to.box, owner |-> m.to.owner]
  BY <1>1
<1>3. CASE box[p] = "inbox"
  <2>1. FeedOf[m.to] = ReadFeed(p)
    BY <1>1, <1>3, FeedIs DEF Polls, ReadFeed
  <2>2. ASSUME m.to.owner \in getAllOwners(claims[p]) PROVE m \in Listed(p)
    <3>1. m.to = [box |-> "inbox", owner |-> m.to.owner]
      BY <1>2, <1>3 DEF Polls
    <3>2. m \in Inbox(p)
      BY <2>2, <3>1 DEF Inbox, InboxOf
    <3> QED
      BY <1>3, <3>2 DEF Polls, Listed, Shown
  <2> QED
    BY <1>1, <2>1, <2>2
<1>4. CASE box[p] # "inbox"
  <2>1. box[p] = "message" /\ m.to.box = "message" /\ m.to.owner = claims[p].sub
    BY <1>4 DEF Polls, MailOK, Box
  <2>2. FeedOf[m.to] = ReadFeed(p)
    BY <1>1, <1>4, <2>1, FeedIs DEF ReadFeed
  <2>3. m \in Messages(p)
    BY <1>2, <2>1 DEF Messages, MessagesOf
  <2> QED
    BY <1>1, <1>4, <2>2, <2>3 DEF Listed
<1> QED
  BY <1>3, <1>4

LEMMA MailSkipSuffices ==
  ASSUME MailPollInv, MailSkipInv
  PROVE  NoMailSkipped
<1> SUFFICES ASSUME NEW p \in Poller, NEW m \in Listed(p) PROVE m \in mail /\ Polls(p, m)
  BY DEF MailSkipInv, NoMailSkipped
<1>1. box[p] \in Box
  BY DEF MailPollInv, MailOK
<1>2. CASE box[p] = "inbox"
  BY <1>2 DEF Listed, Shown, Inbox, InboxOf, Polls
<1>3. CASE box[p] = "message"
  BY <1>3 DEF Listed, Messages, MessagesOf, Polls
<1> QED
  BY <1>1, <1>2, <1>3 DEF Box

\* Paging back leaves no gap between the pages, nor one to what is polled.
LEMMA PagingSkipsNothing ==
  ASSUME MailPollInv, MailSkipInv, NEW q \in Poller, ListInboxMessages(q)
  PROVE  MailSkipInv'
<1>1. /\ UNCHANGED <<mail, box, hidden, claims>> /\ box[q] = "inbox"
      /\ steady' = [steady EXCEPT ![q] = @ \cap getAllOwners(claims[q])]
  BY DEF ListInboxMessages, mailVars
<1>2. PICK older \in SUBSET Shown(q), latest \in 0..MailBound[q], earliest \in Nat :
         PagesBack(q, older, latest, earliest)
  BY ListInbox
<1>3. /\ cursor \in [Poller -> Nat \cup {-1}] /\ start \in [Poller -> Nat]
      /\ got \in [Poller -> SUBSET Nat] /\ steady \in [Poller -> SUBSET Owner]
  BY DEF MailPollInv, LongPollOK, PollTypeOK
<1>4. IsFiniteSet(older) /\ \A m \in older : m.id \in 1..MailBound[q]
  <2>1. /\ Listed(q) = Shown(q) /\ IsFiniteSet(Listed(q))
        /\ \A m \in Listed(q) : m.id \in 1..MailBound[q]
    BY <1>1, ListedType DEF Listed
  <2> QED
    BY <2>1, FS_Subset
<1>5. PICK k \in Nat : k = MailBound[q]
  BY BoundType DEF MailPollInv
<1>6. PICK page : page = NewestFirst(q, older)
  OBVIOUS
<1>7. /\ \A m \in Shown(q) : (cursor[q] = -1 \/ m.id <= start[q]) => m \in older
      /\ \A j \in IdsOf(page) : j <= latest /\ earliest <= j
      /\ IdsOf(page) = {} => latest = 0
      /\ IdsOf(page) # {} => earliest \in IdsOf(page)
  BY <1>2, <1>6 DEF PagesBack
<1>8. /\ cursor' = [cursor EXCEPT ![q] = IF cursor[q] = -1 THEN latest ELSE @]
      /\ start' = [start EXCEPT ![q] = IF IdsOf(page) = {} THEN 0 ELSE earliest - 1]
      /\ got' = [got EXCEPT ![q] = @ \cup IdsOf(page)]
  BY <1>2, <1>6 DEF PagesBack
<1>9. /\ cursor'[q] = IF cursor[q] = -1 THEN latest ELSE cursor[q]
      /\ start'[q] = IF IdsOf(page) = {} THEN 0 ELSE earliest - 1
      /\ got'[q] = got[q] \cup IdsOf(page)
      /\ steady'[q] = steady[q] \cap getAllOwners(claims[q])
  BY <1>1, <1>3, <1>8
<1>10. \A p \in Poller \ {q} : /\ cursor'[p] = cursor[p] /\ start'[p] = start[p]
                              /\ got'[p] = got[p] /\ steady'[p] = steady[p]
  BY <1>1, <1>3, <1>8
<1>11. /\ IdsOf(page) = {} => older = {}
       /\ \A m \in older : \A n \in page : n.id <= m.id => m \in page
  BY <1>4, <1>5, <1>6, PageIsNewest
<1> SUFFICES ASSUME NEW p \in Poller, NEW m \in mail, Polls(p, m),
                    start'[p] < m.id, m.id <= cursor'[p], m.to.owner \in steady'[p]
             PROVE  m.id \in got'[p]
  BY <1>1 DEF MailSkipInv, Polls, IsHidden
<1>12. CASE p # q
  BY <1>10, <1>12 DEF MailSkipInv
<1>13. CASE p = q
  <2>1. m \in Shown(q) /\ m.id \in Nat /\ m.to.owner \in steady[q] /\ m.id > 0
    <3>1. m.to.owner \in getAllOwners(claims[q]) /\ m.to.owner \in steady[q]
      BY <1>9, <1>13
    <3>2. m \in Listed(q) /\ m.id \in Nat \ {0}
      BY <1>13, <3>1, PolledFeed DEF MailPollInv, MailOK
    <3> QED
      BY <1>1, <3>1, <3>2 DEF Listed
  <2>2. got'[q] = got[q] \cup IdsOf(page)
    BY <1>9
  <2>3. CASE m \in older
    <3>1. IdsOf(page) # {}
      BY <1>11, <2>3
    <3>2. earliest \in IdsOf(page) /\ start'[q] = earliest - 1
      BY <1>7, <1>9, <3>1
    <3>3. PICK n \in page : n.id = earliest
      BY <3>2 DEF IdsOf
    <3>4. earliest <= m.id
      BY <1>13, <2>1, <3>2
    <3>5. m \in page
      BY <1>11, <2>3, <3>3, <3>4
    <3> QED
      BY <1>13, <2>2, <3>5 DEF IdsOf
  <2>4. CASE m \notin older
    <3>1. cursor[q] # -1 /\ ~(m.id <= start[q])
      BY <1>7, <2>1, <2>4
    <3>2. start[q] < m.id /\ cursor'[q] = cursor[q]
      BY <1>3, <1>9, <2>1, <3>1
    <3>3. m.id \in got[q]
      BY <1>13, <2>1, <3>2 DEF MailSkipInv
    <3> QED
      BY <1>13, <2>2, <3>3
  <2> QED
    BY <2>3, <2>4
<1> QED
  BY <1>12, <1>13

LEMMA MailSkipStep ==
  ASSUME MailPollInv, MailSkipInv, [MailPollNext]_allVars
  PROVE  MailSkipInv'
<1> DEFINE Sub(p) == claims'[p].sub = claims[p].sub
<1>1. ASSUME mail' \subseteq mail, box' = box, UNCHANGED clientVars,
             \A p \in Poller : Sub(p),
             \A p \in Poller : \A m \in mail' : Polls(p, m)' => Polls(p, m)
      PROVE  MailSkipInv'
  BY <1>1 DEF MailSkipInv, clientVars
<1>2. CASE UNCHANGED allVars
  BY <1>2 DEF MailSkipInv, Polls, IsHidden, allVars, mailVars, longPollVars, clientVars
<1>3. CASE Push
  <2>1. UNCHANGED <<box, hidden, claims, clientVars>>
    BY <1>3, PushMail
  <2>2. PICK n : /\ mail' = mail \cup {n} /\ n \in [id : Nat, to : Address]
                 /\ \A p \in Poller : FeedOf[n.to] = ReadFeed(p)
                                         => n.id > cursor[p] /\ n.id > after[p]
    BY <1>3, PushMail
  <2> SUFFICES ASSUME NEW p \in Poller, NEW m \in mail', Polls(p, m),
                      start[p] < m.id, m.id <= cursor[p], m.to.owner \in steady[p]
               PROVE  m.id \in got[p]
    BY <2>1 DEF MailSkipInv, Polls, IsHidden, clientVars
  <2>3. CASE m \in mail
    BY <2>3 DEF MailSkipInv
  <2>4. CASE m = n
    <3>1. FeedOf[n.to] = ReadFeed(p)
      <4>1. n.to.box = "inbox" => FeedOf[n.to] = "inbox"
        BY <2>2, FeedIs
      <4>2. n.to.box # "inbox" => FeedOf[n.to] = n.to.owner
        BY <2>2, FeedIs
      <4>3. box[p] \in Box /\ n.to.box = box[p] /\ (box[p] = "message" => n.to.owner = claims[p].sub)
        BY <2>4 DEF Polls, MailPollInv, MailOK
      <4>4. box[p] = "inbox" \/ box[p] = "message"
        BY <4>3 DEF Box
      <4> QED
        BY <4>1, <4>2, <4>3, <4>4 DEF ReadFeed
    <3>2. n.id > cursor[p] /\ n.id \in Nat /\ cursor[p] \in Int
      BY <2>2, <3>1 DEF MailPollInv, LongPollOK, PollTypeOK
    <3> QED
      BY <2>4, <3>2
  <2> QED
    BY <2>2, <2>3, <2>4
<1>4. CASE Sweep
  <2>1. /\ mail' \subseteq mail /\ UNCHANGED <<box, claims, clientVars>>
        /\ hidden' = {h \in hidden : \E n \in mail' : n.to.box = "inbox" /\ n.id = h.id}
    BY <1>4 DEF Sweep, Expire, longPollVars
  <2>2. ASSUME NEW p \in Poller, NEW m \in mail', Polls(p, m)' PROVE Polls(p, m)
    <3>1. m.to.box = box[p] /\ (box[p] = "message" => m.to.owner = claims[p].sub)
      BY <2>1, <2>2 DEF Polls
    <3>2. ASSUME box[p] = "inbox" PROVE ~IsHidden(p, m)
      <4>1. m.to.box = "inbox" /\ ~([id |-> m.id, subject |-> claims[p].sub] \in hidden')
        BY <2>1, <2>2, <3>1, <3>2 DEF Polls, IsHidden
      <4> QED
        BY <2>1, <4>1 DEF IsHidden
    <3> QED
      BY <3>1, <3>2 DEF Polls
  <2> QED
    BY <1>1, <2>1, <2>2
<1>5. ASSUME NEW q \in Poller, Hide(q) PROVE MailSkipInv'
  <2>1. UNCHANGED <<mail, box, claims, clientVars>> /\ hidden \subseteq hidden'
    BY <1>5 DEF Hide, longPollVars
  <2>2. \A p \in Poller : \A m \in mail' : Polls(p, m)' => Polls(p, m)
    BY <2>1 DEF Polls, IsHidden
  <2> QED
    BY <1>1, <2>1, <2>2
<1>6. ASSUME NEW q \in Poller, ListInboxMessages(q) PROVE MailSkipInv'
  BY <1>6, PagingSkipsNothing
<1>7. PICK bound \in [Poller -> Nat] : bound = MailBound
  BY BoundType DEF MailPollInv
<1>8. LongPollOK(Address, bound)
  BY <1>7 DEF MailPollInv
<1>9. ASSUME NEW p \in Poller
      PROVE  /\ \A m \in Counted(p) : m.id \in 1..bound[p]
             /\ \A m \in Listed(p) : m.id \in 1..bound[p]
             /\ IsFiniteSet(Listed(p))
  BY <1>7, ListedType
\* A client's next token is for the same subject.
<1>10. ASSUME UNCHANGED mailVars, LongPollOK(Address, bound)'
       PROVE  /\ UNCHANGED <<mail, box>>
              /\ \A p \in Poller : Sub(p) /\ \A m \in mail : Polls(p, m)' <=> Polls(p, m)
  <2>1. UNCHANGED <<mail, box, hidden>>
    BY <1>10 DEF mailVars
  <2>2. ASSUME NEW p \in Poller PROVE Sub(p)
    <3>1. claims[p] \in Tokens[p] /\ claims'[p] \in Tokens[p]
      BY <1>8, <1>10 DEF LongPollOK
    <3> QED
      BY <3>1, OneSubject
  <2> QED
    BY <2>1, <2>2 DEF Polls, IsHidden
<1>11. CASE Subscriber(WokenByMail) /\ UNCHANGED mailVars
  <2>1. LongPollOK(Address, bound)' /\ UNCHANGED clientVars
    BY <1>8, <1>11, SubscriberOK
  <2> QED
    BY <1>1, <1>10, <1>11, <2>1
<1>12. ASSUME NEW p \in Poller, Quiet(p, LatestId(Counted(p)), Listed(p)), UNCHANGED mailVars
       PROVE  MailSkipInv'
  <2>1. LatestId(Counted(p)) \in 0..bound[p]
    BY <1>9, LatestIdType
  <2>2. LongPollOK(Address, bound)' /\ UNCHANGED clientVars
    BY <1>8, <1>12, <2>1, QuietOK
  <2> QED
    BY <1>1, <1>10, <1>12, <2>2
<1>13. ASSUME NEW q \in Poller, ppc[q] \in {"list", "relist"},
              Answer(q, IdsOf(Page(q, Listed(q)))), UNCHANGED mailVars
       PROVE  MailSkipInv'
  <2>1. LongPollOK(Address, bound)'
    BY <1>8, <1>9, <1>13, AnswerOK
  <2>2. UNCHANGED <<mail, box>> /\ \A p \in Poller : \A m \in mail : Polls(p, m)' <=> Polls(p, m)
    BY <1>10, <1>13, <2>1
  <2> SUFFICES ASSUME NEW p \in Poller, NEW m \in mail, Polls(p, m),
                      start'[p] < m.id, m.id <= cursor'[p], m.to.owner \in steady'[p]
               PROVE  m.id \in got'[p]
    BY <2>2 DEF MailSkipInv
  <2>3. (start[p] < m.id /\ m.id <= cursor[p] /\ m.to.owner \in steady[p]) => m.id \in got[p]
    BY DEF MailSkipInv
  <2>4. CASE p # q
    BY <1>8, <1>13, <2>3, <2>4 DEF LongPollOK, PollTypeOK, Answer
  <2>5. CASE p = q
    <3>1. m.id \in Nat /\ (m.to.owner \in getAllOwners(claims[q]) => m \in Listed(q))
      BY <2>5, PolledFeed DEF MailPollInv
    <3>2. PICK o : o = m.to.owner
      OBVIOUS
    <3> QED
      BY <1>8, <1>9, <1>13, <2>3, <2>5, <3>1, <3>2, AnswerSkips
  <2> QED
    BY <2>4, <2>5
<1> QED
  BY <1>2, <1>3, <1>4, <1>5, <1>6, <1>11, <1>12, <1>13, MailPollCases

\* No client's cursor or paging ever passes a message that is still there, that
\* all its tokens were entitled to and that it has neither received nor hidden.
THEOREM NoMailIsSkipped == MailPollSpec => []NoMailSkipped
<1>1. MailPollInit => MailSkipInv
  BY DEF MailPollInit, MailInit, MailSkipInv
<1> QED
  BY <1>1, MailSkipStep, MailSkipSuffices, MailPollInvariant, PTL DEF MailPollSpec

-----------------------------------------------------------------------------
(* No wakeup for a message is lost *)

MailWakeInv == \A p \in Poller : Awake(p, Listed(p))

LEMMA UnreadMailWakes ==
  ASSUME MailPollInv, NEW p \in Poller, ppc[p] = "wait", NEW m \in After(p, Listed(p))
  PROVE  WakesMail(p, m)
<1>1. m \in Counted(p) /\ m.id > after[p]
  BY ListedType DEF After
<1>2. m.to \in ReadableWith(p, claims[p]) /\ m.id \in Nat
  BY <1>1, ListedType, BoundType DEF MailPollInv
<1>3. /\ after[p] \in Int /\ cursor[p] \in Nat \cup {-1} /\ after[p] >= 0
      /\ cursor[p] # -1 => after[p] = cursor[p]
  BY DEF MailPollInv, LongPollOK, PollTypeOK
<1>4. m.id > cursor[p]
  BY <1>1, <1>2, <1>3
<1> QED
  BY <1>2, <1>4 DEF WakesMail

LEMMA MailWakeStep ==
  ASSUME MailPollInv, MailWakeInv, [MailPollNext]_allVars
  PROVE  MailWakeInv'
<1> SUFFICES ASSUME NEW p \in Poller PROVE Awake(p, Listed(p))'
  BY DEF MailWakeInv
<1>1. PICK items : items = Listed(p)
  OBVIOUS
<1>2. Awake(p, items) /\ wire \in Seq([id : Nat, to : Address]) /\ PollTypeOK
  BY <1>1 DEF MailWakeInv, MailPollInv, LongPollOK
\* A client that waits has the claims it read the messages with.
<1>3. ASSUME ppc'[p] = "wait" => claims'[p] = claims[p], UNCHANGED mailVars, Awake(p, items)'
      PROVE  Awake(p, Listed(p))'
  <2>1. ppc'[p] = "wait" => Listed(p)' = items
    BY <1>1, <1>3 DEF Listed, Shown, Inbox, Messages, IsHidden, mailVars
  <2> QED
    BY <1>3, <2>1 DEF Awake, After
<1>4. ASSUME Listed(p)' \subseteq Listed(p), UNCHANGED longPollVars
      PROVE  Awake(p, Listed(p))'
  <2>1. PICK fewer : fewer = Listed(p)'
    OBVIOUS
  <2>2. Awake(p, fewer)'
    BY <1>1, <1>2, <1>4, <2>1, FewerAwake
  <2> QED
    BY <2>1, <2>2 DEF Awake, After
<1>5. CASE UNCHANGED allVars
  <2>1. Listed(p)' = Listed(p)
    BY <1>5 DEF Listed, Shown, Inbox, Messages, IsHidden, allVars, mailVars, longPollVars
  <2> QED
    BY <1>4, <1>5, <2>1 DEF allVars
<1>6. CASE Push
  <2>1. UNCHANGED <<box, hidden, claims>>
    BY <1>6, PushMail
  <2>2. PICK n : mail' = mail \cup {n} /\ Notify(<<n>>) /\ n \in [id : Nat, to : Address]
    BY <1>6, PushMail
  <2>3. PICK more : more = Listed(p)'
    OBVIOUS
  <2>4. more \subseteq items \cup {n}
    BY <1>1, <2>1, <2>2, <2>3 DEF Listed, Shown, Inbox, Messages, IsHidden
  <2>5. PICK new : new = <<n>>
    OBVIOUS
  <2>6. /\ new \in Seq([id : Nat, to : Address]) /\ Len(new) = 1 /\ new[1] = n
        /\ Notify(new)
    BY <2>2, <2>5
  <2>7. \A m \in After(p, more) : m \in items \/ \E i \in 1..Len(new) : new[i] = m
    BY <2>4, <2>6 DEF After
  <2>8. PICK S : S = [id : Nat, to : Address]
    OBVIOUS
  <2>9. wire \in Seq(S) /\ new \in Seq(S) /\ Notify(new) /\ Awake(p, items)
    BY <1>2, <2>6, <2>8
  <2>10. Awake(p, more)'
    BY <2>7, <2>9, NotifyAwake
  <2> QED
    BY <2>3, <2>10 DEF Awake, After
<1>7. CASE Sweep
  BY <1>4, <1>7, SweepMail DEF Sweep
<1>8. ASSUME NEW q \in Poller, Hide(q) PROVE Awake(p, Listed(p))'
  BY <1>4, <1>8, HideMail DEF Hide
<1>9. ASSUME NEW q \in Poller, ListInboxMessages(q) PROVE Awake(p, Listed(p))'
  <2>1. UNCHANGED <<mailVars, up, wire, claims, ppc, after, listener, woken, covered>>
    BY <1>9 DEF ListInboxMessages, plumbing
  <2>2. Awake(p, items)'
    BY <1>2, <2>1 DEF Awake, After, Notified
  <2> QED
    BY <1>3, <2>1, <2>2
<1>10. CASE Dispatch(WokenByMail) /\ UNCHANGED mailVars
  <2>1. ppc[p] = "wait" /\ Head(wire) \in After(p, items) => p \in WokenByMail
    BY <1>1, UnreadMailWakes DEF WokenByMail
  <2>2. Awake(p, items)'
    BY <1>2, <1>10, <2>1, DispatchAwake
  <2> QED
    BY <1>3, <1>10, <2>2 DEF Dispatch
<1>11. CASE (Disconnect \/ Reconnect) /\ UNCHANGED mailVars
  <2>1. Awake(p, items)'
    BY <1>2, <1>11, OwnAwake
  <2> QED
    BY <1>3, <1>11, <2>1 DEF Disconnect, Reconnect
<1>12. ASSUME NEW q \in Poller, UNCHANGED mailVars,
              \/ Quiet(q, LatestId(Counted(q)), Listed(q))
              \/ ppc[q] \in {"list", "relist"} /\ Answer(q, IdsOf(Page(q, Listed(q))))
       PROVE  Awake(p, Listed(p))'
  <2>1. Awake(p, items)'
    BY <1>1, <1>2, <1>12, OwnAwake
  <2>2. ppc'[p] = "wait" => claims'[p] = claims[p]
    BY <1>2, <1>12 DEF Quiet, NewToken, Call, Register, Fail, Lose, Return, Bootstrap, ListCaughtUp,
                       Wake, Timeout, Answer, Goto, PollTypeOK
  <2> QED
    BY <1>3, <1>12, <2>1, <2>2
<1> QED
  BY <1>5, <1>6, <1>7, <1>8, <1>9, <1>10, <1>11, <1>12, MailPollCases DEF Subscriber

LEMMA MailWakeSuffices ==
  ASSUME MailPollInv, MailWakeInv
  PROVE  NoLostMailWakeup
<1> SUFFICES ASSUME NEW p \in Poller, ppc[p] = "wait", covered[p],
                    NEW m \in After(p, Listed(p)), ~woken[p]
             PROVE  \E i \in 1..Len(wire) : WakesMail(p, wire[i])
  BY DEF NoLostMailWakeup
<1>1. PICK i \in 1..Len(wire) : wire[i] = m
  BY DEF MailWakeInv, Awake, Notified
<1> QED
  BY <1>1, UnreadMailWakes

\* A poll that was listening when it read the messages is woken by every one it
\* can read, or about to be, for as long as the connection holds.
THEOREM NoMailWakeupIsLost == MailPollSpec => []NoLostMailWakeup
<1>1. MailPollInit => MailWakeInv
  BY DEF MailPollInit, LongPollInit, MailWakeInv, Awake
<1> QED
  BY <1>1, MailWakeStep, MailWakeSuffices, MailPollInvariant, PTL DEF MailPollSpec

-----------------------------------------------------------------------------
(* The stores that are polled *)

\* What a feed and its readers' state consist of.
MailTypeInv == /\ \A m, n \in mail : (m.id = n.id /\ FeedOf[m.to] = FeedOf[n.to]) => m = n
               /\ hidden \subseteq [id : Nat \ {0}, subject : Owner]

LEMMA MailTypeStep ==
  ASSUME MailPollInv, MailTypeInv, [MailPollNext]_allVars
  PROVE  MailTypeInv'
<1>1. ASSUME mail' \subseteq mail, hidden' \subseteq hidden PROVE MailTypeInv'
  BY <1>1 DEF MailTypeInv
<1>2. CASE UNCHANGED allVars
  BY <1>1, <1>2 DEF allVars, mailVars
<1>3. CASE Push
  <2>1. PICK m : /\ mail' = mail \cup {m} /\ m \in [id : Nat, to : Address]
                 /\ \A n \in mail : FeedOf[n.to] = FeedOf[m.to] => n.id < m.id
    BY <1>3, PushMail
  <2>2. \A n \in mail : n.id \in Nat
    BY DEF MailPollInv, MailOK
  <2>3. \A n \in mail : FeedOf[n.to] = FeedOf[m.to] => n.id # m.id
    BY <2>1, <2>2
  <2> QED
    BY <1>3, <2>1, <2>3, PushMail DEF MailTypeInv
<1>4. CASE Sweep
  BY <1>1, <1>4 DEF Sweep, Expire
<1>5. ASSUME NEW p \in Poller, Hide(p) PROVE MailTypeInv'
  <2>1. PICK m \in Inbox(p) :
           hidden' = hidden \cup {[id |-> m.id, subject |-> claims[p].sub]} /\ mail' = mail
    BY <1>5 DEF Hide
  <2>2. m.id \in Nat \ {0} /\ claims[p].sub \in Owner
    BY DEF Inbox, MailPollInv, MailOK, LongPollOK, PollTypeOK, Claims
  <2> QED
    BY <2>1, <2>2 DEF MailTypeInv
<1>6. CASE UNCHANGED mailVars
  BY <1>1, <1>6 DEF mailVars
<1> QED
  BY <1>2, <1>3, <1>4, <1>5, <1>6, MailPollCases DEF ListInboxMessages

\* The messages, with one message to an id of a feed, and the state of readers,
\* handlers and clients keep their types.
THEOREM MailTypeCorrect == MailPollSpec => []MailTypeOK
<1>1. MailPollInit => MailTypeInv
  BY DEF MailPollInit, MailInit, MailTypeInv
<1>2. MailPollInv /\ MailTypeInv => MailTypeOK
  BY DEF MailPollInv, MailOK, LongPollOK, MailTypeInv, MailTypeOK
<1> QED
  BY <1>1, <1>2, MailTypeStep, MailPollInvariant, PTL DEF MailPollSpec
=============================================================================
