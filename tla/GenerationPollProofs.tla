------------------------ MODULE GenerationPollProofs ------------------------
(***************************************************************************)
(* Proofs about GenerationPoll, for any number of consumers, generations   *)
(* and faults: no response mixes generations and no activation is slept    *)
(* through.                                                                *)
(***************************************************************************)
EXTENDS GenerationPoll, TLAPS

\* What ActiveGeneration's steps maintain: a generation is registered once, and
\* the active one is registered.
KnownOK ==
    /\ known \subseteq [id : 1..MaxGen, content : Content]
    /\ \A g, h \in known : g.id = h.id => g = h
    /\ active = 0 \/ \E g \in known : g.id = active

IsKnown(id) == \E g \in known : g.id = id

\* The generation a handler is about to read, and the one a consumer was
\* given, are registered, so that their content cannot change any more.
Stable ==
    /\ \A p \in Poller : ppc[p] = "schemas" => IsKnown(row[p])
    /\ \A p \in Poller : got[p] # Nothing =>
          \E g \in known : g.id = got[p].id /\ g.content = got[p].content

\* A wakeup for p is on its way or there.
Coming(p) == woken[p] \/ wire > 0

\* What p compared is what is active, or a wakeup is coming; the connection a
\* covered call relies on is up.
Covered ==
    /\ \A p \in Poller : covered[p] => up
    /\ \A p \in Poller : ppc[p] = "decide" /\ covered[p] => row[p] = active \/ Coming(p)
    /\ \A p \in Poller : ppc[p] = "wait" /\ covered[p] => held[p] = active \/ Coming(p)

GenerationInv == GenerationTypeOK /\ wire <= sent /\ KnownOK /\ Stable /\ Covered

-----------------------------------------------------------------------------
(* The store and its notifications *)

LEMMA ContentIs ==
  ASSUME KnownOK, NEW g \in known
  PROVE  ContentOf(g.id) = g.content
BY DEF KnownOK, ContentOf

LEMMA ConfigureInv ==
  ASSUME GenerationInv, Configure
  PROVE  GenerationInv'
<1>1. /\ UNCHANGED <<up, callVars, faults>> /\ sent < MaxSent
      /\ wire' = IF up /\ sent' # sent THEN wire + 1 ELSE wire
      /\ sent \in Nat /\ wire \in Nat /\ MaxSent \in Nat /\ wire <= sent
  BY GenerationPollAssumption DEF Configure, GenerationInv, GenerationTypeOK
<1>2. /\ KnownOK' /\ known \subseteq known'
      /\ (sent' = sent /\ active' = active) \/ sent' = sent + 1
  <2>1. CASE Register
    <3>1. PICK id \in 1..MaxGen, c \in Content :
            /\ \A g \in known : g.id # id
            /\ known' = known \cup {[id |-> id, content |-> c]}
            /\ \/ UNCHANGED <<active, sent>>
               \/ active' = id /\ sent' = sent + 1
      BY <2>1 DEF Register
    <3>2. [id |-> id, content |-> c] \in [id : 1..MaxGen, content : Content]
      OBVIOUS
    <3>3. known' \subseteq [id : 1..MaxGen, content : Content]
      BY <3>1, <3>2 DEF GenerationInv, KnownOK
    <3>4. \A g, h \in known' : g.id = h.id => g = h
      BY <3>1 DEF GenerationInv, KnownOK
    <3>5. active' = 0 \/ \E g \in known' : g.id = active'
      <4>1. CASE active' = active
        BY <3>1, <4>1 DEF GenerationInv, KnownOK
      <4>2. CASE active' = id
        <5>1. [id |-> id, content |-> c].id = active' /\ [id |-> id, content |-> c] \in known'
          BY <3>1, <4>2
        <5> QED
          BY <5>1
      <4> QED
        BY <3>1, <4>1, <4>2
    <3>6. KnownOK'
      BY <3>3, <3>4, <3>5, Zenon DEF KnownOK
    <3> QED
      BY <3>1, <3>6
  <2>2. CASE Activate
    BY <2>2 DEF Activate, GenerationInv, KnownOK
  <2> QED
    BY <2>1, <2>2 DEF Configure, Next
<1>3. /\ active' \in 0..MaxGen /\ sent' \in 0..MaxSent
      /\ wire' \in 0..MaxSent /\ wire' <= sent'
  <2>1. active' = 0 \/ \E g \in known' : g.id = active' /\ g.id \in 1..MaxGen
    BY <1>2 DEF KnownOK
  <2>2. active' \in 0..MaxGen
    BY <2>1, GenerationPollAssumption
  <2> QED
    BY <1>1, <1>2, <2>2
<1>4. GenerationTypeOK'
  BY <1>1, <1>3 DEF GenerationInv, GenerationTypeOK, callVars
<1>5. Stable'
  BY <1>1, <1>2 DEF GenerationInv, Stable, IsKnown, callVars
<1>6. Covered'
  <2>1. \A p \in Poller : Coming(p) => Coming(p)'
    BY <1>1 DEF Coming, callVars
  <2>2. active' # active /\ up => wire' > 0
    BY <1>1, <1>2
  <2> QED
    BY <1>1, <2>1, <2>2 DEF GenerationInv, Covered, Coming, callVars
<1> QED
  BY <1>2, <1>3, <1>4, <1>5, <1>6 DEF GenerationInv

LEMMA PlumbingInv ==
  ASSUME GenerationInv, Dispatch \/ Disconnect \/ Connect \/ Tick
  PROVE  GenerationInv'
<1> USE GenerationPollAssumption
<1>1. UNCHANGED <<storeVars, ppc, only, held, listener, row, got>>
  BY DEF Dispatch, Disconnect, Connect, Tick, callVars
<1>2. GenerationTypeOK' /\ wire' <= sent'
  <2>1. CASE Dispatch
    <3>1. woken' \in [Poller -> BOOLEAN] /\ \A p \in Poller : woken'[p] <=> woken[p] \/ listener[p] = "on"
      BY <2>1 DEF Dispatch, GenerationInv, GenerationTypeOK
    <3>2. wire' \in 0..MaxSent /\ wire' <= sent
      BY <2>1 DEF Dispatch, GenerationInv, GenerationTypeOK
    <3>3. UNCHANGED <<storeVars, up, ppc, only, held, listener, left, age, row, got, covered, faults>>
      BY <2>1 DEF Dispatch
    <3>4. \A p \in Poller : ppc[p] = "client" => ~woken'[p]
      BY <3>1 DEF GenerationInv, GenerationTypeOK
    <3> QED
      BY <3>1, <3>2, <3>3, <3>4 DEF GenerationInv, GenerationTypeOK, storeVars
  <2>2. CASE Disconnect
    <3>1. /\ up' = FALSE /\ wire' = 0 /\ covered' = [p \in Poller |-> FALSE]
          /\ UNCHANGED <<woken, left, age>> /\ faults' \in 0..MaxFaults
          /\ wire' \in 0..MaxSent /\ 0 <= sent
      BY <2>2 DEF Disconnect, GenerationInv, GenerationTypeOK
    <3> QED
      BY <1>1, <3>1 DEF GenerationInv, GenerationTypeOK, storeVars
  <2>3. CASE Connect
    BY <1>1, <2>3 DEF Connect, GenerationInv, GenerationTypeOK, storeVars, callVars
  <2>4. CASE Tick
    BY <1>1, <2>4 DEF Tick, GenerationInv, GenerationTypeOK, storeVars
  <2> QED
    BY <2>1, <2>2, <2>3, <2>4
<1>3. KnownOK' /\ Stable'
  BY <1>1 DEF GenerationInv, KnownOK, Stable, IsKnown, storeVars
<1>4. Covered'
  <2>1. CASE Dispatch
    <3>1. \A p \in Poller : covered[p] => listener[p] = "on"
      BY DEF GenerationInv, GenerationTypeOK
    <3>2. \A p \in Poller : listener[p] = "on" => woken'[p]
      BY <2>1 DEF Dispatch
    <3> QED
      BY <1>1, <2>1, <3>1, <3>2 DEF Dispatch, GenerationInv, Covered, Coming, storeVars
  <2>2. CASE Disconnect
    BY <2>2 DEF Disconnect, Covered
  <2>3. CASE Connect
    BY <1>1, <2>3 DEF Connect, GenerationInv, Covered, Coming, storeVars, callVars
  <2>4. CASE Tick
    BY <1>1, <2>4 DEF Tick, GenerationInv, Covered, Coming, storeVars
  <2> QED
    BY <2>1, <2>2, <2>3, <2>4
<1> QED
  BY <1>2, <1>3, <1>4 DEF GenerationInv

-----------------------------------------------------------------------------
(* The calls *)

\* A step of one call.
LEMMA CallInv ==
  ASSUME GenerationInv, NEW p \in Poller, GenerationTypeOK',
         UNCHANGED <<storeVars, up, wire>>,
         \A q \in Poller : q # p =>
             /\ ppc'[q] = ppc[q] /\ held'[q] = held[q] /\ woken'[q] = woken[q]
             /\ row'[q] = row[q] /\ got'[q] = got[q] /\ covered'[q] = covered[q],
         ppc'[p] = "schemas" => IsKnown(row'[p]),
         got'[p] = got[p] \/ got'[p] = Nothing
            \/ \E g \in known : g.id = got'[p].id /\ g.content = got'[p].content,
         covered'[p] => up,
         ppc'[p] = "decide" /\ covered'[p] => row'[p] = active \/ Coming(p)',
         ppc'[p] = "wait" /\ covered'[p] => held'[p] = active \/ Coming(p)'
  PROVE  GenerationInv'
<1>1. KnownOK' /\ wire' <= sent'
  BY DEF GenerationInv, KnownOK, storeVars
<1>2. Stable'
  BY DEF GenerationInv, Stable, IsKnown, storeVars
<1>3. Covered'
  BY DEF GenerationInv, Covered, Coming, storeVars
<1> QED
  BY <1>1, <1>2, <1>3 DEF GenerationInv

CallStep(p) == Call(p) \/ Listen(p) \/ Handler(p) \/ Fail(p)

LEMMA ReturnInv ==
  ASSUME GenerationInv, NEW p \in Poller, Return(p),
         faults' \in 0..MaxFaults,
         NEW id \in 0..MaxGen, held' = [held EXCEPT ![p] = id],
         NEW response \in {Nothing} \cup [id : 1..MaxGen, content : Content],
         got' = [got EXCEPT ![p] = response],
         response = got[p] \/ response = Nothing
            \/ \E g \in known : g.id = response.id /\ g.content = response.content
  PROVE  GenerationInv'
<1>1. /\ ppc'[p] = "client" /\ listener'[p] = "none" /\ ~woken'[p] /\ ~covered'[p]
      /\ \A q \in Poller : q # p =>
            /\ ppc'[q] = ppc[q] /\ held'[q] = held[q] /\ woken'[q] = woken[q]
            /\ row'[q] = row[q] /\ got'[q] = got[q] /\ covered'[q] = covered[q]
            /\ listener'[q] = listener[q]
      /\ got'[p] = response
  BY DEF Return, Goto, GenerationInv, GenerationTypeOK
<1>2. /\ ppc' \in [Poller -> {"client", "compare", "decide", "wait", "row", "schemas"}]
      /\ only' \in [Poller -> BOOLEAN] /\ woken' \in [Poller -> BOOLEAN]
      /\ covered' \in [Poller -> BOOLEAN]
      /\ listener' \in [Poller -> {"none", "starting", "on"}]
  BY DEF Return, Goto, GenerationInv, GenerationTypeOK
<1>3. /\ held' \in [Poller -> 0..MaxGen] /\ row' \in [Poller -> 0..MaxGen]
      /\ left' \in [Poller -> 0..Wait] /\ age' \in [Poller -> 0..(Wait + 1)]
      /\ got' \in [Poller -> {Nothing} \cup [id : 1..MaxGen, content : Content]]
  BY GenerationPollAssumption DEF Return, GenerationInv, GenerationTypeOK
<1>4. UNCHANGED <<storeVars, up, wire>>
  BY DEF Return
<1>5. GenerationTypeOK'
  BY <1>1, <1>2, <1>3, <1>4 DEF GenerationInv, GenerationTypeOK, storeVars
<1> QED
  BY <1>1, <1>4, <1>5, CallInv

LEMMA FaultType ==
  ASSUME GenerationInv, faults < MaxFaults, faults' = faults + 1
  PROVE  faults' \in 0..MaxFaults
BY GenerationPollAssumption DEF GenerationInv, GenerationTypeOK

LEMMA ReadInv ==
  ASSUME GenerationInv, NEW p \in Poller, ReadRow(p) \/ ReadSchemas(p)
  PROVE  GenerationInv'
<1> USE GenerationPollAssumption
<1>1. CASE ReadSchemas(p)
  <2>1. PICK g \in known : g.id = row[p]
    BY <1>1 DEF ReadSchemas, GenerationInv, Stable, IsKnown
  <2>2. g \in [id : 1..MaxGen, content : Content] /\ ContentOf(row[p]) = g.content
    BY <2>1, ContentIs DEF GenerationInv, KnownOK
  <2> DEFINE response == [id |-> row[p], content |-> ContentOf(row[p])]
  <2>3. /\ response \in {Nothing} \cup [id : 1..MaxGen, content : Content]
        /\ response.id = g.id /\ response.content = g.content /\ row[p] \in 0..MaxGen
    BY <2>1, <2>2
  <2>4. /\ got' = [got EXCEPT ![p] = response] /\ held' = [held EXCEPT ![p] = row[p]]
        /\ Return(p) /\ faults' \in 0..MaxFaults
    BY <1>1 DEF ReadSchemas, Answer, GenerationInv, GenerationTypeOK
  <2> HIDE DEF response
  <2> QED
    BY <2>3, <2>4, ReturnInv
<1>2. CASE ReadRow(p) /\ active = 0
  <2>1. /\ got' = [got EXCEPT ![p] = Nothing] /\ held' = [held EXCEPT ![p] = 0]
        /\ Return(p) /\ faults' \in 0..MaxFaults
        /\ 0 \in 0..MaxGen /\ Nothing \in {Nothing} \cup [id : 1..MaxGen, content : Content]
    BY <1>2 DEF ReadRow, Answer, GenerationInv, GenerationTypeOK
  <2> QED
    BY <2>1, ReturnInv
<1>3. CASE ReadRow(p) /\ active # 0
  <2>1. /\ row' = [row EXCEPT ![p] = active] /\ ppc' = [ppc EXCEPT ![p] = "schemas"]
        /\ ppc[p] = "row"
        /\ UNCHANGED <<storeVars, up, wire, only, held, listener, woken, left, age, got,
                       covered, faults>>
    BY <1>3 DEF ReadRow, Goto
  <2>2. GenerationTypeOK'
    BY <2>1 DEF GenerationInv, GenerationTypeOK, storeVars
  <2>3. IsKnown(active)
    BY <1>3 DEF GenerationInv, KnownOK, IsKnown
  <2>4. /\ ppc'[p] = "schemas" /\ row'[p] = active
        /\ \A q \in Poller : q # p => ppc'[q] = ppc[q] /\ row'[q] = row[q]
    BY <2>1 DEF GenerationInv, GenerationTypeOK
  <2>5. covered[p] => up
    BY DEF GenerationInv, Covered
  <2> QED
    BY <2>1, <2>2, <2>3, <2>4, <2>5, CallInv
<1> QED
  BY <1>1, <1>2, <1>3

LEMMA CallStepInv ==
  ASSUME GenerationInv, NEW p \in Poller, CallStep(p)
  PROVE  GenerationInv'
<1> USE GenerationPollAssumption
<1>1. covered[p] => up
  BY DEF GenerationInv, Covered
<1>2. CASE Fail(p) \/ (Timeout(p) /\ only[p] /\ Return(p) /\ UNCHANGED <<held, got, faults>>)
  <2>1. /\ Return(p) /\ faults' \in 0..MaxFaults
        /\ held' = [held EXCEPT ![p] = held[p]] /\ held[p] \in 0..MaxGen
        /\ got' = [got EXCEPT ![p] = got[p]]
        /\ got[p] \in {Nothing} \cup [id : 1..MaxGen, content : Content]
    BY <1>2, FaultType DEF Fail, GenerationInv, GenerationTypeOK
  <2> QED
    BY <2>1, ReturnInv
<1>3. CASE ReadRow(p) \/ ReadSchemas(p)
  BY <1>3, ReadInv
<1>4. CASE Call(p)
  <2>1. GenerationTypeOK'
    BY <1>4 DEF Call, Goto, GenerationInv, GenerationTypeOK, storeVars
  <2>2. ppc'[p] = "compare" /\ \A q \in Poller : q # p => ppc'[q] = ppc[q]
    BY <1>4 DEF Call, Goto, GenerationInv, GenerationTypeOK
  <2> QED
    BY <1>1, <1>4, <2>1, <2>2, CallInv DEF Call
<1>5. CASE Listen(p)
  <2>1. GenerationTypeOK'
    BY <1>5 DEF Listen, GenerationInv, GenerationTypeOK, storeVars
  <2> QED
    BY <1>5, <2>1 DEF Listen, GenerationInv, KnownOK, Stable, IsKnown, Covered, Coming, storeVars
<1>6. CASE ReadID(p)
  <2>1. GenerationTypeOK'
    BY <1>6 DEF ReadID, Goto, GenerationInv, GenerationTypeOK, storeVars
  <2>2. /\ ppc'[p] = "decide" /\ row'[p] = active /\ (covered'[p] => up)
        /\ \A q \in Poller : q # p =>
              ppc'[q] = ppc[q] /\ row'[q] = row[q] /\ covered'[q] = covered[q]
    BY <1>6, <2>1 DEF ReadID, Goto, GenerationInv, GenerationTypeOK
  <2> QED
    BY <1>6, <2>1, <2>2, CallInv DEF ReadID
<1>7. CASE Decide(p)
  <2>1. GenerationTypeOK'
    BY <1>7 DEF Decide, Goto, GenerationInv, GenerationTypeOK, storeVars
  <2>2. /\ \/ ppc'[p] = "row"
           \/ ppc'[p] = "wait" /\ row[p] = held[p]
        /\ ppc[p] = "decide"
        /\ \A q \in Poller : q # p => ppc'[q] = ppc[q] /\ row'[q] = row[q]
    BY <1>7 DEF Decide, Goto, GenerationInv, GenerationTypeOK
  <2>3. UNCHANGED <<storeVars, up, wire, held, woken, got, covered>>
    BY <1>7 DEF Decide
  <2>4. covered[p] => row[p] = active \/ Coming(p)
    BY <2>2 DEF GenerationInv, Covered
  <2>5. ppc'[p] = "wait" /\ covered'[p] => held'[p] = active \/ Coming(p)'
    BY <2>2, <2>3, <2>4 DEF Coming
  <2> QED
    BY <1>1, <2>1, <2>2, <2>3, <2>5, CallInv
<1>8. CASE Wake(p)
  <2>1. GenerationTypeOK'
    BY <1>8 DEF Wake, Goto, GenerationInv, GenerationTypeOK, storeVars
  <2>2. ppc'[p] = "compare"
        /\ \A q \in Poller : q # p => ppc'[q] = ppc[q] /\ woken'[q] = woken[q]
    BY <1>8 DEF Wake, Goto, GenerationInv, GenerationTypeOK
  <2> QED
    BY <1>1, <1>8, <2>1, <2>2, CallInv DEF Wake
<1>9. CASE Timeout(p) /\ Goto(p, "row") /\ UNCHANGED
             <<storeVars, up, wire, only, held, listener, woken, left, age, row, got, covered, faults>>
  <2>1. GenerationTypeOK'
    BY <1>9 DEF Timeout, Goto, GenerationInv, GenerationTypeOK, storeVars
  <2>2. ppc'[p] = "row" /\ \A q \in Poller : q # p => ppc'[q] = ppc[q]
    BY <1>9 DEF Goto, GenerationInv, GenerationTypeOK
  <2> QED
    BY <1>1, <1>9, <2>1, <2>2, CallInv
<1> QED
  BY <1>2, <1>3, <1>4, <1>5, <1>6, <1>7, <1>8, <1>9 DEF CallStep, Handler, Timeout

-----------------------------------------------------------------------------
(* The theorems *)

LEMMA GenerationInitInv == GenerationInit => GenerationInv
BY GenerationPollAssumption
DEF GenerationInit, Init, GenerationInv, GenerationTypeOK, KnownOK, Stable, Covered

LEMMA GenerationStepInv == GenerationInv /\ [GenerationNext]_generationVars => GenerationInv'
<1> SUFFICES ASSUME GenerationInv, [GenerationNext]_generationVars PROVE GenerationInv'
  OBVIOUS
<1>1. CASE UNCHANGED generationVars
  BY <1>1 DEF generationVars, storeVars, callVars, GenerationInv, GenerationTypeOK, KnownOK,
     Stable, IsKnown, Covered, Coming
<1>2. CASE \E p \in Poller : CallStep(p)
  BY <1>2, CallStepInv
<1> QED
  BY <1>1, <1>2, ConfigureInv, PlumbingInv DEF GenerationNext, CallStep

LEMMA GenerationInvariant == GenerationSpec => []GenerationInv
  BY GenerationInitInv, GenerationStepInv, PTL DEF GenerationSpec

\* The calls and the plumbing keep their types.
THEOREM GenerationTypeCorrect == GenerationSpec => []GenerationTypeOK
<1>1. GenerationInv => GenerationTypeOK
  BY DEF GenerationInv
<1> QED
  BY <1>1, GenerationInvariant, PTL

\* A response never has the schemas of one generation under the id of another,
\* although an activation may fall between the two reads.
THEOREM ResponsesAreNeverMixed == GenerationSpec => []NeverMixed
<1>1. ASSUME GenerationInv PROVE NeverMixed
  BY <1>1, ContentIs DEF GenerationInv, Stable, NeverMixed
<1> QED
  BY <1>1, GenerationInvariant, PTL

\* A call that was listening when it compared ids is woken by the activation of
\* another generation, as long as the connection holds.
THEOREM NoActivationIsLost == GenerationSpec => []NoLostActivation
<1>1. GenerationInv => NoLostActivation
  BY DEF GenerationInv, GenerationTypeOK, Covered, Coming, NoLostActivation
<1> QED
  BY <1>1, GenerationInvariant, PTL
=============================================================================
