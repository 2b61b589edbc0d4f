------------------------ MODULE ValidatorReloadProofs ------------------------
(***************************************************************************)
(* Proofs about ValidatorReload, for any number of generations, labels,    *)
(* callers and faults: no wakeup that matters is lost and no refresh       *)
(* returns with something older than itself.                               *)
(***************************************************************************)
EXTENDS ValidatorReload, TLAPS

\* What ActiveGeneration's steps maintain of its ids.
ActiveKnown ==
    /\ \A g \in known : g.id \in 1..MaxGen
    /\ active = 0 \/ \E g \in known : g.id = active

\* A starting validator is in its first load.
Loading == starting => vpc \in {"schemas", "id", "deprecations"}

\* A wakeup on channel k is on its way or there.
Coming(k) == k \in woken \/ \E i \in 1..Len(wire) : wire[i] = k

\* What a load has read with its listener there is what the store has, or a
\* wakeup is coming; the connection that this relies on is up.
Covering ==
    /\ covered # {} => up
    /\ vpc \in {"id", "deprecations"} => covered \subseteq {"schema"}
    /\ vpc = "id" /\ "schema" \in covered => read = active \/ Coming("schema")
    /\ vpc = "deprecations" /\ "schema" \in covered =>
          (built = active /\ reported = active) \/ Coming("schema")
    /\ vpc = "wait" => \A k \in covered : Outdated(k) => Coming(k)

\* What has been in the store since a caller asked is recorded, and the load
\* that serves it has read some of that.
SinceOK == since \in [Refresher -> [ids : SUBSET (0..MaxGen), tables : SUBSET SUBSET Label]]

Serving ==
    /\ \A r \in Refresher : rpc[r] # "idle" => active \in since[r].ids /\ table \in since[r].tables
    /\ \A r \in Refresher : rpc[r] = "waiting" =>
          /\ vpc = "id" => read \in since[r].ids
          /\ vpc = "deprecations" /\ clean => built \in since[r].ids

\* The inductive invariant; ~stale is RefreshIsFresh.
ReloadInv ==
    /\ ReloadTypeOK /\ ActiveKnown /\ Loading
    /\ Covering /\ SinceOK /\ Serving /\ ~stale

-----------------------------------------------------------------------------
(* The store and its notifications *)

LEMMA SendComes ==
  ASSUME wire \in Seq(Channel), NEW k \in Channel, Send(k), woken' = woken
  PROVE  /\ wire' \in Seq(Channel)
         /\ \A j : Coming(j) => Coming(j)'
         /\ up => Coming(k)'
<1>1. CASE up
  <2>1. wire' = Append(wire, k) /\ Len(wire) \in Nat
    BY <1>1 DEF Send
  <2>2. /\ wire' \in Seq(Channel) /\ Len(wire') = Len(wire) + 1 /\ wire'[Len(wire) + 1] = k
        /\ \A i \in 1..Len(wire) : wire'[i] = wire[i]
    BY <2>1
  <2>3. \E i \in 1..Len(wire') : wire'[i] = k
    BY <2>1, <2>2
  <2>4. ASSUME NEW j, Coming(j) PROVE Coming(j)'
    <3>1. CASE j \in woken
      BY <3>1 DEF Coming
    <3>2. CASE \E i \in 1..Len(wire) : wire[i] = j
      <4>1. PICK i \in 1..Len(wire) : wire[i] = j
        BY <3>2
      <4>2. i \in 1..Len(wire') /\ wire'[i] = j
        BY <2>1, <2>2, <4>1
      <4> QED
        BY <4>2 DEF Coming
    <3> QED
      BY <2>4, <3>1, <3>2 DEF Coming
  <2> QED
    BY <2>2, <2>3, <2>4 DEF Coming
<1>2. CASE ~up
  BY <1>2 DEF Send, Coming
<1> QED
  BY <1>1, <1>2

LEMMA ObserveSince ==
  ASSUME SinceOK, NEW id \in 0..MaxGen, NEW labels \in SUBSET Label, Observe(id, labels)
  PROVE  /\ SinceOK'
         /\ \A r \in Refresher : rpc[r] # "idle" =>
               /\ id \in since'[r].ids /\ labels \in since'[r].tables
               /\ since[r].ids \subseteq since'[r].ids
<1>1. ASSUME NEW r \in Refresher
      PROVE  /\ since'[r] \in [ids : SUBSET (0..MaxGen), tables : SUBSET SUBSET Label]
             /\ rpc[r] # "idle" => /\ id \in since'[r].ids /\ labels \in since'[r].tables
                                   /\ since[r].ids \subseteq since'[r].ids
  <2>1. CASE rpc[r] = "idle"
    <3>1. since'[r] = [ids |-> {}, tables |-> {}]
      BY <2>1 DEF Observe, None
    <3> QED
      BY <2>1, <3>1
  <2>2. CASE rpc[r] # "idle"
    <3>1. since'[r] = [ids |-> since[r].ids \cup {id}, tables |-> since[r].tables \cup {labels}]
      BY <2>2 DEF Observe
    <3>2. since[r].ids \subseteq 0..MaxGen /\ since[r].tables \subseteq SUBSET Label
      BY DEF SinceOK
    <3> QED
      BY <2>2, <3>1, <3>2
  <2> QED
    BY <2>1, <2>2
<1>2. since' = [r \in Refresher |-> since'[r]]
  BY DEF Observe
<1> QED
  BY <1>1, <1>2 DEF SinceOK

\* A commit, of either table: what it changes is announced if the connection
\* is up, and recorded for every caller.
LEMMA CommitInv ==
  ASSUME ReloadInv, UNCHANGED <<up, listening, woken, loadVars, rpc, stale, faults>>,
         ActiveKnown', active' \in 0..MaxGen, sent' \in 0..MaxSent,
         table' \subseteq Label, toggles' \in 0..MaxToggles,
         Observe(active', table'), wire' \in Seq(Channel),
         \A j \in Channel : Coming(j) => Coming(j)',
         up /\ active' # active => Coming("schema")',
         up /\ table' # table => Coming("deprecation")'
  PROVE  ReloadInv'
<1>1. /\ SinceOK'
      /\ \A r \in Refresher : rpc[r] # "idle" =>
            /\ active' \in since'[r].ids /\ table' \in since'[r].tables
            /\ since[r].ids \subseteq since'[r].ids
  BY ObserveSince DEF ReloadInv
<1>2. ReloadTypeOK'
  BY DEF ReloadInv, ReloadTypeOK, loadVars
<1>3. Serving'
  BY <1>1 DEF ReloadInv, Serving, loadVars
<1>4. Covering'
  <2>1. covered \subseteq Channel
    BY DEF ReloadInv, ReloadTypeOK
  <2>2. ASSUME vpc = "wait", NEW k \in covered, Outdated(k)' PROVE Coming(k)'
    <3>1. CASE Outdated(k)
      BY <2>1, <2>2, <3>1 DEF ReloadInv, Covering
    <3>2. CASE ~Outdated(k)
      <4>1. up
        BY <2>2 DEF ReloadInv, Covering
      <4>2. \/ k = "schema" /\ active' # active
            \/ k = "deprecation" /\ table' # table
        BY <2>2, <3>2 DEF Outdated, loadVars
      <4> QED
        BY <4>1, <4>2
    <3> QED
      BY <3>1, <3>2
  <2>3. "schema" \in Channel
    BY DEF Channel
  <2> QED
    BY <2>2, <2>3 DEF ReloadInv, Covering, loadVars
<1> QED
  BY <1>1, <1>2, <1>3, <1>4 DEF ReloadInv, Loading, loadVars

LEMMA ConfigureInv ==
  ASSUME ReloadInv, Configure
  PROVE  ReloadInv'
<1> USE ReloadAssumption
<1>1. /\ UNCHANGED <<table, toggles, up, listening, woken, loadVars, rpc, stale, faults>>
      /\ sent \in 0..MaxSent /\ sent < MaxSent /\ wire \in Seq(Channel)
  BY DEF Configure, ReloadInv, ReloadTypeOK
<1>2. /\ ActiveKnown'
      /\ (sent' = sent /\ active' = active) \/ sent' = sent + 1
  <2>1. CASE Register
    <3>1. PICK id \in 1..MaxGen, c \in Content :
            /\ known' = known \cup {[id |-> id, content |-> c]}
            /\ \/ UNCHANGED <<active, sent>>
               \/ active' = id /\ sent' = sent + 1
      BY <2>1 DEF Register
    <3>2. \A g \in known' : g.id \in 1..MaxGen
      BY <3>1 DEF ReloadInv, ActiveKnown
    <3>3. active' = 0 \/ \E g \in known' : g.id = active'
      <4>1. CASE active' = active
        BY <3>1, <4>1 DEF ReloadInv, ActiveKnown
      <4>2. CASE active' = id
        <5>1. [id |-> id, content |-> c].id = active' /\ [id |-> id, content |-> c] \in known'
          BY <3>1, <4>2
        <5> QED
          BY <5>1
      <4> QED
        BY <3>1, <4>1, <4>2
    <3> QED
      BY <3>1, <3>2, <3>3, Zenon DEF ActiveKnown
  <2>2. CASE Activate
    BY <2>2 DEF Activate, ReloadInv, ActiveKnown
  <2> QED
    BY <2>1, <2>2 DEF Configure, Next
<1>3. active' \in 0..MaxGen /\ sent' \in 0..MaxSent
  <2>1. active' = 0 \/ active' \in 1..MaxGen
    BY <1>2 DEF ActiveKnown
  <2> QED
    BY <1>1, <1>2, <2>1
<1>4. /\ wire' \in Seq(Channel)
      /\ \A j : Coming(j) => Coming(j)'
      /\ up /\ active' # active => Coming("schema")'
  <2>1. CASE sent' # sent
    <3>1. Send("schema") /\ "schema" \in Channel
      BY <2>1 DEF Configure, Channel
    <3> QED
      BY <1>1, <3>1, SendComes
  <2>2. CASE sent' = sent
    BY <1>1, <1>2, <2>2 DEF Configure, Coming
  <2> QED
    BY <2>1, <2>2
<1>5. table \subseteq Label /\ toggles \in 0..MaxToggles /\ Observe(active', table')
  BY <1>1 DEF Configure, ReloadInv, ReloadTypeOK
<1> QED
  BY <1>1, <1>2, <1>3, <1>4, <1>5, CommitInv

LEMMA UpdateDeprecationInv ==
  ASSUME ReloadInv, UpdateDeprecation
  PROVE  ReloadInv'
<1> USE ReloadAssumption
<1>1. /\ UNCHANGED <<known, active, sent, up, listening, woken, loadVars, rpc, stale, faults>>
      /\ wire \in Seq(Channel) /\ Send("deprecation") /\ "deprecation" \in Channel
      /\ active \in 0..MaxGen /\ sent \in 0..MaxSent
      /\ table' \subseteq Label /\ toggles' \in 0..MaxToggles /\ Observe(active', table')
  BY DEF UpdateDeprecation, Channel, ReloadInv, ReloadTypeOK
<1>2. /\ wire' \in Seq(Channel)
      /\ \A j : Coming(j) => Coming(j)'
      /\ up => Coming("deprecation")'
  BY <1>1, SendComes
<1>3. ActiveKnown'
  BY <1>1 DEF ReloadInv, ActiveKnown
<1> QED
  BY <1>1, <1>2, <1>3, CommitInv

LEMMA PlumbingInv ==
  ASSUME ReloadInv, Dispatch \/ Disconnect \/ Connect \/ \E k \in Channel : Listen(k)
  PROVE  ReloadInv'
<1> USE ReloadAssumption
<1>1. UNCHANGED <<storeVars, vpc, starting, read, built, reported, enforced, serving, clean,
                  refreshVars>>
  BY DEF Dispatch, Disconnect, Connect, Listen, loadVars
<1>2. ActiveKnown' /\ Loading' /\ SinceOK' /\ Serving' /\ ~stale'
  BY <1>1 DEF ReloadInv, ActiveKnown, Loading, SinceOK, Serving, storeVars, refreshVars
<1>3. CASE Dispatch
  <2>1. /\ wire \in Seq(Channel) /\ wire # <<>> /\ wire' = Tail(wire)
        /\ woken' = woken \cup ({Head(wire)} \cap listening)
        /\ UNCHANGED <<up, listening, covered, faults>>
    BY <1>3 DEF Dispatch, ReloadInv, ReloadTypeOK, loadVars
  <2>2. /\ wire' \in Seq(Channel)
        /\ \A i \in 1..Len(wire) : wire[i] = Head(wire) \/ \E j \in 1..Len(wire') : wire'[j] = wire[i]
    <3>1. /\ wire' \in Seq(Channel) /\ Len(wire) \in Nat /\ Len(wire') = Len(wire) - 1
          /\ \A j \in 1..Len(wire') : wire'[j] = wire[j + 1]
      BY <2>1
    <3>2. ASSUME NEW i \in 1..Len(wire), i # 1
          PROVE  \E j \in 1..Len(wire') : wire'[j] = wire[i]
      <4>1. i - 1 \in 1..Len(wire') /\ (i - 1) + 1 = i
        BY <3>1, <3>2
      <4>2. wire'[i - 1] = wire[i]
        BY <3>1, <4>1
      <4> QED
        BY <4>1, <4>2
    <3> QED
      BY <2>1, <3>1, <3>2
  <2>3. ASSUME NEW k \in covered, Coming(k) PROVE Coming(k)'
    <3>1. k \in listening
      BY DEF ReloadInv, ReloadTypeOK
    <3>2. CASE k \in woken
      BY <2>1, <3>2 DEF Coming
    <3>3. CASE \E i \in 1..Len(wire) : wire[i] = k
      BY <2>1, <2>2, <3>1, <3>3 DEF Coming
    <3> QED
      BY <2>3, <3>2, <3>3 DEF Coming
  <2>4. Covering'
    BY <1>1, <2>1, <2>3 DEF ReloadInv, Covering, Outdated, storeVars
  <2>5. ReloadTypeOK'
    BY <1>1, <2>1, <2>2 DEF ReloadInv, ReloadTypeOK, storeVars, refreshVars
  <2> QED
    BY <1>2, <2>4, <2>5 DEF ReloadInv
<1>4. CASE Disconnect
  <2>1. wire' \in Seq(Channel) /\ covered' = {} /\ up' = FALSE /\ faults' \in 0..MaxFaults
        /\ UNCHANGED <<listening, woken>>
    BY <1>4 DEF Disconnect, Fault, ReloadInv, ReloadTypeOK
  <2>2. ReloadTypeOK'
    BY <1>1, <2>1 DEF ReloadInv, ReloadTypeOK, storeVars, refreshVars
  <2>3. Covering'
    BY <2>1 DEF Covering
  <2> QED
    BY <1>2, <2>2, <2>3 DEF ReloadInv
<1>5. CASE Connect
  <2>1. ReloadTypeOK'
    BY <1>5 DEF Connect, ReloadInv, ReloadTypeOK, storeVars, refreshVars, loadVars
  <2>2. Covering'
    BY <1>5 DEF Connect, ReloadInv, Covering, Outdated, Coming, storeVars, loadVars
  <2> QED
    BY <1>2, <2>1, <2>2 DEF ReloadInv
<1>6. CASE \E k \in Channel : Listen(k)
  <2>1. ReloadTypeOK'
    BY <1>6 DEF Listen, ReloadInv, ReloadTypeOK, storeVars, refreshVars, loadVars
  <2>2. Covering'
    BY <1>6 DEF Listen, ReloadInv, Covering, Outdated, Coming, storeVars, loadVars
  <2> QED
    BY <1>2, <2>1, <2>2 DEF ReloadInv
<1> QED
  BY <1>3, <1>4, <1>5, <1>6

-----------------------------------------------------------------------------
(* Loading *)

LEMMA ReturnSince ==
  ASSUME ReloadInv, NEW R, Return(R)
  PROVE  /\ SinceOK' /\ rpc' \in [Refresher -> {"idle", "asking", "waiting"}]
         /\ \A r \in Refresher : rpc'[r] # "idle" =>
               r \notin R /\ rpc'[r] = rpc[r] /\ since'[r] = since[r]
<1>1. rpc' \in [Refresher -> {"idle", "asking", "waiting"}]
  BY DEF Return, ReloadInv, ReloadTypeOK
<1>2. None \in [ids : SUBSET (0..MaxGen), tables : SUBSET SUBSET Label]
  BY DEF None
<1>3. SinceOK'
  BY <1>2 DEF Return, ReloadInv, SinceOK
<1> QED
  BY <1>1, <1>3 DEF Return

\* The round of the loop that ends serves whoever still waits with what it has
\* read since they asked.
LEMMA CloseServes ==
  ASSUME ReloadInv, NEW STATE ok, Close(ok, table),
         ok => vpc = "deprecations" /\ clean
  PROVE  /\ SinceOK' /\ stale' = FALSE /\ serving' = Nobody
         /\ rpc' \in [Refresher -> {"idle", "asking", "waiting"}]
         /\ \A r \in Refresher : /\ rpc'[r] # "waiting"
                                 /\ rpc'[r] # "idle" => rpc[r] # "idle" /\ since'[r] = since[r]
<1>1. \A r \in Refresher : rpc[r] = "waiting" => serving = r
  BY DEF ReloadInv, ReloadTypeOK
<1>2. /\ SinceOK' /\ rpc' \in [Refresher -> {"idle", "asking", "waiting"}]
      /\ \A r \in Refresher : rpc'[r] # "idle" =>
            /\ r \notin {q \in {serving} \cap Refresher : rpc[q] = "waiting"}
            /\ rpc'[r] = rpc[r] /\ since'[r] = since[r]
  BY ReturnSince DEF Close
<1>3. ASSUME ok, NEW r \in Refresher, rpc[r] = "waiting" PROVE Fresh(r, table)
  BY <1>3 DEF ReloadInv, Serving, Fresh
<1>4. stale' = FALSE
  BY <1>3 DEF Close, ReloadInv
<1> QED
  BY <1>1, <1>2, <1>4 DEF Close

LEMMA StartInv ==
  ASSUME ReloadInv, Start
  PROVE  ReloadInv'
BY DEF Start, Goto, ReloadInv, ReloadTypeOK, ActiveKnown, Loading, Covering, SinceOK, Serving,
   Coming, storeVars, listenVars, refreshVars

LEMMA ReadSchemasInv ==
  ASSUME ReloadInv, ReadSchemas
  PROVE  ReloadInv'
<1>1. /\ vpc = "schemas" /\ vpc' = "id" /\ read' = active
      /\ covered' = (IF up THEN {"schema"} \cap listening ELSE {})
      /\ UNCHANGED <<storeVars, listenVars, starting, built, reported, enforced, serving, clean,
                     refreshVars, faults>>
  BY DEF ReadSchemas, Goto
<1>2. ReloadTypeOK'
  BY <1>1 DEF ReloadInv, ReloadTypeOK, storeVars, listenVars, refreshVars
<1>3. ActiveKnown' /\ Loading' /\ SinceOK' /\ ~stale'
  BY <1>1 DEF ReloadInv, ActiveKnown, Loading, SinceOK, storeVars, refreshVars
<1>4. Covering'
  BY <1>1 DEF Covering, storeVars, listenVars
<1>5. Serving'
  BY <1>1 DEF ReloadInv, Serving, storeVars, refreshVars
<1> QED
  BY <1>2, <1>3, <1>4, <1>5 DEF ReloadInv

LEMMA ReadIDInv ==
  ASSUME ReloadInv, ReadID
  PROVE  ReloadInv'
<1>1. /\ vpc = "id" /\ vpc' = "deprecations" /\ built' = read /\ reported' = active /\ read' = 0
      /\ UNCHANGED <<storeVars, listenVars, starting, enforced, serving, clean, covered,
                     refreshVars, faults>>
  BY DEF ReadID, Goto
<1>2. ReloadTypeOK'
  BY <1>1, ReloadAssumption DEF ReloadInv, ReloadTypeOK, storeVars, listenVars, refreshVars
<1>3. ActiveKnown' /\ Loading' /\ SinceOK' /\ ~stale'
  BY <1>1 DEF ReloadInv, ActiveKnown, Loading, SinceOK, storeVars, refreshVars
<1>4. Covering'
  BY <1>1 DEF ReloadInv, Covering, Coming, storeVars, listenVars
<1>5. Serving'
  BY <1>1 DEF ReloadInv, Serving, storeVars, refreshVars
<1> QED
  BY <1>2, <1>3, <1>4, <1>5 DEF ReloadInv

\* The end of a load, successful or not.
LEMMA EndOfLoadInv ==
  ASSUME ReloadInv, ReadDeprecations \/ FailDeprecations
  PROVE  ReloadInv'
<1>0. vpc = "deprecations" /\ vpc' = "wait" /\ ~starting'
  <2>1. vpc = "deprecations" /\ vpc' = "wait"
    BY DEF ReadDeprecations, FailDeprecations, Goto
  <2>2. CASE ReadDeprecations
    BY <2>1, <2>2 DEF ReadDeprecations
  <2>3. CASE FailDeprecations
    <3>1. ~starting /\ starting' = starting
      BY <2>3 DEF FailDeprecations
    <3> QED
      BY <2>1, <3>1
  <2> QED
    BY <2>2, <2>3
<1>1. /\ UNCHANGED <<storeVars, listenVars, read, built, reported>>
      /\ \/ /\ enforced' = table /\ faults' = faults
            /\ covered' = covered \cup IF up THEN {"deprecation"} \cap listening ELSE {}
         \/ enforced' = enforced /\ faults' \in 0..MaxFaults /\ covered' = covered
  <2>1. CASE ReadDeprecations
    BY <2>1, Zenon DEF ReadDeprecations
  <2>2. CASE FailDeprecations
    <3>1. faults' \in 0..MaxFaults
      BY <2>2, ReloadAssumption DEF FailDeprecations, Fault, ReloadInv, ReloadTypeOK
    <3> QED
      BY <2>2, <3>1, Zenon DEF FailDeprecations
  <2> QED
    BY <2>1, <2>2
<1>2. /\ SinceOK' /\ stale' = FALSE /\ serving' = Nobody
      /\ rpc' \in [Refresher -> {"idle", "asking", "waiting"}]
      /\ \A r \in Refresher : /\ rpc'[r] # "waiting"
                              /\ rpc'[r] # "idle" => rpc[r] # "idle" /\ since'[r] = since[r]
  <2>1. CASE ReadDeprecations
    BY <2>1, CloseServes DEF ReadDeprecations
  <2>2. CASE FailDeprecations
    BY <2>2, CloseServes DEF FailDeprecations
  <2> QED
    BY <2>1, <2>2
<1>3. ReloadTypeOK'
  BY <1>0, <1>1, <1>2 DEF ReloadInv, ReloadTypeOK, storeVars, listenVars
<1>4. ActiveKnown' /\ Loading'
  BY <1>0, <1>1 DEF ReloadInv, ActiveKnown, Loading, storeVars
<1>5. Serving'
  BY <1>1, <1>2 DEF ReloadInv, Serving, storeVars
<1>6. Covering'
  <2>1. ASSUME NEW k \in covered', Outdated(k)' PROVE Coming(k)'
    <3>1. k = "schema" /\ "schema" \in covered /\ (built # active \/ reported # active)
      <4>1. covered \subseteq {"schema"}
        BY <1>0 DEF ReloadInv, Covering
      <4>2. k \in {"schema", "deprecation"} /\ (k = "deprecation" => enforced' = table)
        BY <1>1, <2>1, <4>1
      <4> QED
        BY <1>1, <2>1, <4>1, <4>2 DEF Outdated, storeVars
    <3> QED
      BY <1>0, <1>1, <3>1 DEF ReloadInv, Covering, Coming, listenVars
  <2>2. covered' # {} => up'
    BY <1>1 DEF ReloadInv, Covering, listenVars
  <2> QED
    BY <1>0, <2>1, <2>2 DEF Covering
<1> QED
  BY <1>2, <1>3, <1>4, <1>5, <1>6 DEF ReloadInv

LEMMA FailSchemasInv ==
  ASSUME ReloadInv, FailSchemas
  PROVE  ReloadInv'
<1>1. /\ vpc \in {"schemas", "id"} /\ ~starting /\ vpc' = "deprecations"
      /\ read' = 0 /\ clean' = FALSE /\ covered' = {} /\ faults' \in 0..MaxFaults
      /\ UNCHANGED <<storeVars, listenVars, starting, built, reported, enforced, serving, refreshVars>>
  BY ReloadAssumption DEF FailSchemas, Goto, Fault, ReloadInv, ReloadTypeOK
<1>2. ReloadTypeOK'
  BY <1>1, ReloadAssumption DEF ReloadInv, ReloadTypeOK, storeVars, listenVars, refreshVars
<1> QED
  BY <1>1, <1>2 DEF ReloadInv, ActiveKnown, Loading, Covering, SinceOK, Serving, storeVars,
     listenVars, refreshVars

LEMMA DownInv ==
  ASSUME ReloadInv, Down
  PROVE  ReloadInv'
<1>1. /\ vpc' = "down" /\ starting' = FALSE /\ serving' = Nobody
      /\ read' = 0 /\ built' = 0 /\ reported' = 0 /\ enforced' = {}
      /\ up' = FALSE /\ wire' = <<>> /\ listening' = {} /\ woken' = {} /\ covered' = {}
      /\ rpc' = [r \in Refresher |-> "idle"] /\ since' = [r \in Refresher |-> None]
      /\ faults' \in 0..MaxFaults
      /\ UNCHANGED <<storeVars, stale>>
  BY ReloadAssumption DEF Down, Goto, Fault, ReloadInv, ReloadTypeOK
<1>2. ReloadTypeOK'
  <2>1. <<>> \in Seq(Channel) /\ 0 \in 0..MaxGen
    BY ReloadAssumption
  <2> QED
    BY <1>1, <2>1 DEF ReloadInv, ReloadTypeOK, storeVars
<1>3. SinceOK'
  BY <1>1 DEF SinceOK, None
<1>4. ActiveKnown' /\ Loading' /\ ~stale'
  BY <1>1 DEF ReloadInv, ActiveKnown, Loading, storeVars
<1>5. Covering' /\ Serving'
  BY <1>1 DEF Covering, Serving
<1> QED
  BY <1>2, <1>3, <1>4, <1>5 DEF ReloadInv

-----------------------------------------------------------------------------
(* The loop and its callers *)

\* The loop leaves its select for another load.
LEMMA LoadInv ==
  ASSUME ReloadInv, (\E k \in Channel : Notified(k)) \/ Recheck \/ \E r \in Refresher : TakeRefresh(r)
  PROVE  ReloadInv'
<1>1. /\ vpc = "wait" /\ vpc' = "schemas" /\ woken' \subseteq woken
      /\ UNCHANGED <<storeVars, up, wire, listening, starting, read, built, reported, enforced,
                     clean, covered, since, stale, faults>>
  BY DEF Notified, Recheck, TakeRefresh, Load, Goto, refreshVars
<1>2. /\ ~starting /\ serving = Nobody /\ \A r \in Refresher : rpc[r] # "waiting"
  BY <1>1, ReloadAssumption DEF ReloadInv, Loading, ReloadTypeOK
<1>3. /\ rpc' \in [Refresher -> {"idle", "asking", "waiting"}]
      /\ serving' \in Refresher \cup {Nobody}
      /\ \A r \in Refresher : rpc'[r] = "waiting" => serving' = r
      /\ \A r \in Refresher : rpc'[r] # "idle" => rpc[r] # "idle"
  <2>1. CASE (\E k \in Channel : Notified(k)) \/ Recheck
    <3>1. UNCHANGED <<serving, rpc>>
      BY <2>1 DEF Notified, Recheck, refreshVars
    <3> QED
      BY <1>2, <3>1 DEF ReloadInv, ReloadTypeOK
  <2>2. CASE \E r \in Refresher : TakeRefresh(r)
    BY <1>2, <2>2 DEF TakeRefresh, ReloadInv, ReloadTypeOK
  <2> QED
    BY <2>1, <2>2
<1>4. ReloadTypeOK'
  BY <1>1, <1>2, <1>3 DEF ReloadInv, ReloadTypeOK, storeVars
<1>5. Serving'
  BY <1>1, <1>3 DEF ReloadInv, Serving, storeVars
<1>6. Covering'
  BY <1>1 DEF ReloadInv, Covering
<1> QED
  BY <1>1, <1>2, <1>4, <1>5, <1>6 DEF ReloadInv, ActiveKnown, Loading, SinceOK, storeVars

LEMMA RefreshInv ==
  ASSUME ReloadInv, NEW r \in Refresher, RefreshSchemas(r) \/ GiveUp(r)
  PROVE  ReloadInv'
<1>1. UNCHANGED <<storeVars, listenVars, loadVars, stale, faults>>
  BY DEF RefreshSchemas, GiveUp
<1>2. /\ SinceOK' /\ rpc' \in [Refresher -> {"idle", "asking", "waiting"}]
      /\ \A q \in Refresher : rpc'[q] # "idle" =>
            \/ rpc'[q] = rpc[q] /\ since'[q] = since[q]
            \/ rpc'[q] = "asking" /\ active \in since'[q].ids /\ table \in since'[q].tables
  <2>1. CASE GiveUp(r)
    BY <2>1, ReturnSince DEF GiveUp
  <2>2. CASE RefreshSchemas(r)
    <3> DEFINE s == [ids |-> {active}, tables |-> {table}]
    <3>1. /\ rpc' = [rpc EXCEPT ![r] = "asking"] /\ since' = [since EXCEPT ![r] = s]
          /\ s \in [ids : SUBSET (0..MaxGen), tables : SUBSET SUBSET Label]
          /\ active \in s.ids /\ table \in s.tables
      BY <2>2 DEF RefreshSchemas, ReloadInv, ReloadTypeOK
    <3> HIDE DEF s
    <3> QED
      BY <3>1 DEF ReloadInv, ReloadTypeOK, SinceOK
  <2> QED
    BY <2>1, <2>2
<1>3. ReloadTypeOK'
  BY <1>1, <1>2 DEF ReloadInv, ReloadTypeOK, storeVars, listenVars, loadVars
<1>4. Serving'
  BY <1>1, <1>2 DEF ReloadInv, Serving, storeVars, loadVars
<1>5. Covering'
  BY <1>1 DEF ReloadInv, Covering, Outdated, Coming, storeVars, listenVars, loadVars
<1> QED
  BY <1>1, <1>2, <1>3, <1>4, <1>5 DEF ReloadInv, ActiveKnown, Loading, storeVars, loadVars

-----------------------------------------------------------------------------
(* The theorems *)

LEMMA ReloadInitInv == ReloadInit => ReloadInv
<1> SUFFICES ASSUME ReloadInit PROVE ReloadInv
  OBVIOUS
<1>1. ReloadTypeOK
  <2>1. /\ <<>> \in Seq(Channel)
        /\ 0 \in 0..MaxGen /\ 0 \in 0..MaxSent /\ 0 \in 0..MaxToggles /\ 0 \in 0..MaxFaults
    BY ReloadAssumption
  <2> QED
    BY <2>1 DEF ReloadInit, Init, ReloadTypeOK
<1>2. SinceOK
  BY DEF ReloadInit, SinceOK, None
<1>3. ActiveKnown /\ Loading /\ ~stale
  BY DEF ReloadInit, Init, ActiveKnown, Loading
<1>4. Covering /\ Serving
  BY DEF ReloadInit, Covering, Serving
<1> QED
  BY <1>1, <1>2, <1>3, <1>4 DEF ReloadInv

LEMMA ReloadStepInv == ReloadInv /\ [ReloadNext]_reloadVars => ReloadInv'
<1> SUFFICES ASSUME ReloadInv, [ReloadNext]_reloadVars PROVE ReloadInv'
  OBVIOUS
<1>1. CASE UNCHANGED reloadVars
  <2>1. UNCHANGED <<storeVars, listenVars, loadVars, refreshVars, faults>>
    BY <1>1 DEF reloadVars
  <2>2. ReloadTypeOK'
    BY <2>1 DEF ReloadInv, ReloadTypeOK, storeVars, listenVars, loadVars, refreshVars
  <2>3. Covering'
    BY <2>1 DEF ReloadInv, Covering, Outdated, Coming, storeVars, listenVars, loadVars
  <2> QED
    BY <2>1, <2>2, <2>3 DEF ReloadInv, ActiveKnown, Loading, SinceOK, Serving, storeVars,
       loadVars, refreshVars
<1> QED
  BY <1>1, ConfigureInv, UpdateDeprecationInv, PlumbingInv, StartInv, ReadSchemasInv, ReadIDInv,
     EndOfLoadInv, FailSchemasInv, DownInv, LoadInv, RefreshInv
  DEF ReloadNext, Loop

LEMMA ReloadInvariant == ReloadSpec => []ReloadInv
  BY ReloadInitInv, ReloadStepInv, PTL DEF ReloadSpec

\* The validator keeps its types; a channel of RefreshSchemas is closed once.
THEOREM ReloadTypeCorrect == ReloadSpec => []ReloadTypeOK
<1>1. ReloadInv => ReloadTypeOK
  BY DEF ReloadInv
<1> QED
  BY <1>1, ReloadInvariant, PTL

\* A validator that was listening when it loaded is not left with old schemas
\* or deprecations: each update since then is in a buffer or on the wire.
THEOREM NoReloadIsLost == ReloadSpec => []NoLostReload
<1>1. ReloadInv => NoLostReload
  BY DEF ReloadInv, Covering, Coming, NoLostReload
<1> QED
  BY <1>1, ReloadInvariant, PTL

\* A RefreshSchemas that succeeds has had its schemas and deprecations read
\* after it was called, whoever else gave up or asked again meanwhile.
THEOREM RefreshesAreFresh == ReloadSpec => []RefreshIsFresh
<1>1. ReloadInv => RefreshIsFresh
  BY DEF ReloadInv, RefreshIsFresh
<1> QED
  BY <1>1, ReloadInvariant, PTL
=============================================================================
