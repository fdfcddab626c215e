---------------------------- MODULE Backend_proofs ----------------------------
(***************************************************************************)
(* Proofs about the documents of a project and what is written of them,    *)
(* for any number of requests, turns and runs and answers of any length:   *)
(* the rows and their edges, the chat, the memory of the generation, the   *)
(* plan of a feature, the report of an evaluation, the parsers of the      *)
(* validation, the output of a phase and the removal of a feature. Each is *)
(* proved about as a specification of its own; the last theorem puts the   *)
(* types of the parts together.                                            *)
(***************************************************************************)
EXTENDS MCBackend, ConsistencyReview_proofs, Accounts_proofs,
        FiniteSetTheorems, SequenceTheorems, TLAPS
-----------------------------------------------------------------------------
(***************************************************************************)
(* The documents of a project: their types, and that the edges of a        *)
(* feature do not outlive it.                                              *)
(***************************************************************************)
\* the steps only the deletion of a feature or of the project takes
Fell == {"dropFeature", "dropTraces", "dropProject", "each"}
\* what can be left of the deletion of a feature
Tails == {<<"dropRequirements", "dropDiagram", "dropFeature", "dropTraces">>,
          <<"dropDiagram", "dropFeature", "dropTraces">>, <<"dropFeature", "dropTraces">>, <<"dropTraces">>, <<>>}
\* step s is still to come in w
Has(w, s) == \E i \in DOMAIN w.todo : w.todo[i] = s
\* a request with its steps, and one whose steps are those of its kind
CallRecords == [kind : Kinds, f : DocFeatures \cup {NoFeature}, n : 0 .. MaxNumber + 1,
          todo : Seq(Steps), left : SUBSET DocFeatures]
Shape(w) ==
  /\ Has(w, "dropTraces") => w.f \in DocFeatures
  /\ w.kind = "removeFeature" => w.f \in DocFeatures /\ w.todo \in Tails
  /\ w.kind \notin {"removeFeature", "removeProject"} => \A s \in Fell : ~ Has(w, s)
Works == {w \in CallRecords : Shape(w)} \cup {Waiting}
\* what the requests are doing, and the rows they do it to
WorkPart == work \in [DocRequests -> Works]
RowsPart ==
  /\ DocFeatures # {}
  /\ project \in BOOLEAN /\ discovery \in BOOLEAN
  /\ number \in [DocFeatures -> 0 .. MaxNumber]
  /\ specified \subseteq Living /\ diagrams \subseteq Living
  /\ traced \subseteq DocFeatures /\ lapsed \subseteq DocFeatures
  /\ evaluations \subseteq DocRequests
  /\ Living # {} \/ discovery => project
DocumentInv == WorkPart /\ RowsPart /\ EdgesHaveFeatures

\* the highest number of the features is one of them
LEMMA HighestIsANumber ==
  ASSUME DocumentAssumption, number \in [DocFeatures -> 0 .. MaxNumber], DocFeatures # {}
  PROVE  Highest \in 0 .. MaxNumber
<1> DEFINE N == {number[f] : f \in DocFeatures}
           S == {MaxNumber - n : n \in N}
<1>0. MaxNumber \in Nat /\ N \subseteq 0 .. MaxNumber /\ N # {}
  BY DEF DocumentAssumption
<1>1. S \subseteq Nat /\ S # {}
  BY <1>0
<1>2. PICK i \in S : \A j \in S : i <= j
  BY <1>1, LeastOne
<1>3. PICK n \in N : i = MaxNumber - n
  BY <1>2
<1>4. ASSUME NEW m \in N PROVE m <= n
  <2>1. i <= MaxNumber - m
    BY <1>2
  <2> QED
    BY <1>0, <1>3, <2>1
<1>5. \A f \in DocFeatures : number[f] <= n
  BY <1>4
<1>6. Highest \in N
  BY <1>5, Zenon DEF Highest
<1> QED
  BY <1>0, <1>6

\* a request goes on: what its steps may become
LEMMA WorkMoves ==
  ASSUME WorkPart, NEW r \in DocRequests, NEW w \in Works, work' = [work EXCEPT ![r] = w]
  PROVE  WorkPart' /\ work'[r] = w /\ \A q \in DocRequests \ {r} : work'[q] = work[q]
BY DEF WorkPart

\* the last steps of a call
LEMMA GoesOn ==
  ASSUME WorkPart, NEW r \in DocRequests, work[r] # Waiting, work[r].todo # <<>>,
         NEW n \in 0 .. MaxNumber + 1
  PROVE  /\ [work[r] EXCEPT !.todo = Tail(@)] \in Works
         /\ [work[r] EXCEPT !.n = n, !.todo = Tail(work[r].todo)] \in Works
         /\ [work[r] EXCEPT !.todo = <<>>] \in Works
         /\ \A s : Has([work[r] EXCEPT !.todo = Tail(@)], s) => Has(work[r], s)
         /\ \A s : Has(work[r], s) => Head(work[r].todo) = s \/ Has([work[r] EXCEPT !.todo = Tail(@)], s)
<1> DEFINE w == work[r]
           td == w.todo
<1>1. w \in CallRecords /\ Shape(w) /\ td \in Seq(Steps) /\ td # <<>>
  BY DEF WorkPart, Works, CallRecords
<1>2. /\ Tail(td) \in Seq(Steps) /\ <<>> \in Seq(Steps)
      /\ \A i \in DOMAIN Tail(td) : i + 1 \in DOMAIN td /\ Tail(td)[i] = td[i + 1]
      /\ \A i \in DOMAIN td : i = 1 \/ (i - 1 \in DOMAIN Tail(td) /\ Tail(td)[i - 1] = td[i])
      /\ Head(td) = td[1]
  <2>1. Len(td) \in Nat /\ Len(td) # 0 /\ DOMAIN td = 1 .. Len(td) /\ Head(td) = td[1]
    BY <1>1
  <2>2. /\ Tail(td) \in Seq(Steps) /\ Len(Tail(td)) = Len(td) - 1
        /\ \A i \in 1 .. Len(td) - 1 : Tail(td)[i] = td[i + 1]
    BY <1>1, HeadTailProperties
  <2>3. DOMAIN Tail(td) = 1 .. Len(td) - 1
    BY <2>2
  <2> HIDE DEF td
  <2>4. \A i \in 1 .. Len(td) : i = 1 \/ (i - 1 \in 1 .. Len(td) - 1 /\ (i - 1) + 1 = i)
    BY <2>1
  <2>5. \A i \in DOMAIN td : i = 1 \/ (i - 1 \in DOMAIN Tail(td) /\ Tail(td)[i - 1] = td[i])
    <3> TAKE i \in DOMAIN td
    <3>1. CASE i # 1
      <4>1. i - 1 \in 1 .. Len(td) - 1 /\ (i - 1) + 1 = i
        BY <2>1, <2>4, <3>1
      <4>2. Tail(td)[i - 1] = td[(i - 1) + 1]
        BY <2>2, <4>1
      <4> QED
        BY <2>3, <4>1, <4>2
    <3> QED
      BY <3>1
  <2>6. \A i \in DOMAIN Tail(td) : i + 1 \in DOMAIN td /\ Tail(td)[i] = td[i + 1]
    BY <2>1, <2>2, <2>3
  <2>7. <<>> \in Seq(Steps)
    OBVIOUS
  <2> QED
    BY <2>1, <2>2, <2>5, <2>6, <2>7
<1>3. td \in Tails => Tail(td) \in Tails
  <2>1. td = <<"dropRequirements", "dropDiagram", "dropFeature", "dropTraces">> => Tail(td) = <<"dropDiagram", "dropFeature", "dropTraces">>
    OBVIOUS
  <2>2. td = <<"dropDiagram", "dropFeature", "dropTraces">> => Tail(td) = <<"dropFeature", "dropTraces">>
    OBVIOUS
  <2>3. td = <<"dropFeature", "dropTraces">> => Tail(td) = <<"dropTraces">>
    OBVIOUS
  <2>4. td = <<"dropTraces">> => Tail(td) = <<>>
    OBVIOUS
  <2> QED
    BY <1>1, <2>1, <2>2, <2>3, <2>4 DEF Tails
<1>4. ASSUME NEW t \in Seq(Steps), NEW m \in 0 .. MaxNumber + 1,
             NEW v, v = [w EXCEPT !.todo = t] \/ v = [w EXCEPT !.n = m, !.todo = t],
             \A i \in DOMAIN t : \E j \in DOMAIN td : t[i] = td[j],
             td \in Tails => t \in Tails
      PROVE  v \in Works
  <2>1. v \in CallRecords /\ v.f = w.f /\ v.kind = w.kind /\ v.todo = t
    BY <1>1, <1>4 DEF CallRecords
  <2>2. \A s : Has(v, s) => Has(w, s)
    BY <1>4, <2>1 DEF Has
  <2>3. Shape(v)
    BY <1>1, <1>4, <2>1, <2>2 DEF Shape
  <2> QED
    BY <2>1, <2>3 DEF Works
<1>5. n \in 0 .. MaxNumber + 1 /\ <<>> \in Tails /\ DOMAIN <<>> = {}
  BY DEF Tails
<1>6. [w EXCEPT !.todo = Tail(td)] \in Works
  BY <1>2, <1>3, <1>4
<1>7. [w EXCEPT !.n = n, !.todo = Tail(td)] \in Works
  BY <1>2, <1>3, <1>4
<1>8. [w EXCEPT !.todo = <<>>] \in Works
  BY <1>2, <1>5, <1>4
<1>9. ASSUME NEW s PROVE Has([w EXCEPT !.todo = Tail(td)], s) => Has(w, s)
  <2>1. [w EXCEPT !.todo = Tail(td)].todo = Tail(td)
    BY <1>1 DEF CallRecords
  <2> QED
    BY <2>1, <1>2 DEF Has
<1>10. ASSUME NEW s PROVE Has(w, s) => Head(td) = s \/ Has([w EXCEPT !.todo = Tail(td)], s)
  <2>1. [w EXCEPT !.todo = Tail(td)].todo = Tail(td)
    BY <1>1 DEF CallRecords
  <2> QED
    BY <2>1, <1>2 DEF Has
<1> QED
  BY <1>6, <1>7, <1>8, <1>9, <1>10

\* a call begins with steps of its kind
LEMMA CallBegins ==
  ASSUME DocumentInv, NEW r \in DocRequests, NEW kind \in Kinds, NEW f \in DocFeatures \cup {NoFeature},
         NEW n \in 0 .. MaxNumber + 1, NEW steps \in Seq(Steps), Begin(r, kind, f, n, steps),
         kind = "removeFeature" => f \in DocFeatures /\ steps \in Tails,
         kind # "removeFeature" => \A i \in DOMAIN steps : steps[i] # "dropTraces",
         kind \notin {"removeFeature", "removeProject"} => \A i \in DOMAIN steps : steps[i] \notin Fell
  PROVE  DocumentInv'
<1> DEFINE w == [kind |-> kind, f |-> f, n |-> n, todo |-> steps, left |-> {}]
<1>1. w \in CallRecords /\ w.kind = kind /\ w.todo = steps /\ w.f = f
  BY DEF CallRecords
<1>2. Shape(w)
  BY <1>1 DEF Shape, Has
<1>3. w \in Works
  BY <1>1, <1>2 DEF Works
<1>4. work[r] = Waiting /\ work' = [work EXCEPT ![r] = w] /\ UNCHANGED <<rows, lapsed>>
  BY DEF Begin
<1> HIDE DEF w
<1>5. WorkPart' /\ \A q \in DocRequests \ {r} : work'[q] = work[q]
  BY <1>3, <1>4, WorkMoves DEF DocumentInv
<1>6. RowsPart'
  BY <1>4 DEF DocumentInv, RowsPart, rows, Living
<1>7. work[r].kind = "none"
  BY <1>4 DEF Waiting
<1>8. EdgesHaveFeatures'
  BY <1>4, <1>5, <1>7 DEF DocumentInv, EdgesHaveFeatures, Removing, rows, Living
<1> QED
  BY <1>5, <1>6, <1>8 DEF DocumentInv

\* the steps that only take a request on, and what they may change of the rows
LEMMA Goes ==
  ASSUME DocumentInv, RowsPart', NEW r \in DocRequests, NEW w \in Works, work[r] # Waiting,
         work' = [work EXCEPT ![r] = w], w.kind = work[r].kind,
         w.f = work[r].f \/ work[r].kind = "removeProject",
         Living \ Living' \subseteq {w.f} \/ w.kind = "removeProject", lapsed \subseteq lapsed',
         Living' # Living /\ ~ Living \subseteq Living' => Has(w, "dropTraces") \/ w.kind = "removeProject",
         traced' \subseteq traced \cup Living',
         work[r].kind = "removeFeature" /\ Has(work[r], "dropTraces") => Has(w, "dropTraces") \/ w.f \notin traced' \/ w.f \in lapsed'
  PROVE  DocumentInv'
<1>1. WorkPart' /\ work'[r] = w /\ \A q \in DocRequests \ {r} : work'[q] = work[q]
  BY WorkMoves DEF DocumentInv
<1>2. EdgesHaveFeatures'
  <2>1. CASE \E q \in DocRequests : work[q].kind = "removeProject"
    BY <1>1, <2>1 DEF EdgesHaveFeatures
  <2>2. CASE ~ \E q \in DocRequests : work[q].kind = "removeProject"
    <3>1. w.f = work[r].f /\ w.kind # "removeProject"
      BY <2>2
    <3>2. ASSUME NEW f \in traced', f \notin Living', f \notin lapsed'
          PROVE  Removing(f)'
      <4>1. f \in traced /\ (f \in Living \/ Removing(f)) /\ f \notin lapsed
        BY <2>2, <3>2 DEF DocumentInv, EdgesHaveFeatures
      <4>2. CASE f \in Living
        <5>1. f = w.f /\ Has(w, "dropTraces") /\ w.f \in DocFeatures
          BY <3>1, <3>2, <4>2 DEF RowsPart
        <5>2. w # Waiting
          BY <5>1 DEF Waiting, Has
        <5>3. w.kind = "removeFeature"
          BY <3>1, <5>1, <5>2 DEF Works, Shape, Fell
        <5> QED
          BY <1>1, <5>1, <5>3 DEF Removing, Has
      <4>3. CASE Removing(f)
        <5>1. PICK q \in DocRequests : work[q].kind = "removeFeature" /\ work[q].f = f /\ Has(work[q], "dropTraces")
          BY <4>3 DEF Removing, Has
        <5>2. CASE q = r
          <6>1. Has(w, "dropTraces")
            BY <3>1, <3>2, <5>1, <5>2
          <6> QED
            BY <1>1, <3>1, <5>1, <5>2, <6>1 DEF Removing, Has
        <5>3. CASE q # r
          BY <1>1, <5>1, <5>3 DEF Removing, Has
        <5> QED
          BY <5>2, <5>3
      <4> QED
        BY <4>1, <4>2, <4>3
    <3> QED
      BY <3>2 DEF EdgesHaveFeatures
  <2> QED
    BY <2>1, <2>2
<1> QED
  BY <1>1, <1>2 DEF DocumentInv

\* what the request whose step this is must be
LEMMA DoingCall ==
  ASSUME WorkPart, NEW r \in DocRequests, NEW s \in Steps, Doing(r, s)
  PROVE  /\ work[r] # Waiting /\ work[r] \in CallRecords /\ Shape(work[r]) /\ Has(work[r], s)
         /\ work[r].todo # <<>> /\ Head(work[r].todo) = s
         /\ s \in Fell => work[r].kind \in {"removeFeature", "removeProject"}
         /\ s = "dropFeature" => work[r].kind = "removeProject" \/ Has(work[r], "dropTraces")
         /\ s \in {"dropProject", "each"} => work[r].kind = "removeProject"
<1>1. work[r] # Waiting
  BY DEF Doing, Waiting, Steps
<1>2. work[r] \in CallRecords /\ Shape(work[r])
  BY <1>1 DEF WorkPart, Works
<1>3. Has(work[r], s) /\ work[r].todo[1] = s
  BY <1>2 DEF Doing, Has, CallRecords
<1>4. s \in Fell => work[r].kind \in {"removeFeature", "removeProject"}
  BY <1>2, <1>3 DEF Shape
<1>5. s = "dropFeature" /\ work[r].todo \in Tails => Has(work[r], "dropTraces")
  <2>1. SUFFICES ASSUME s = "dropFeature", work[r].todo \in Tails PROVE Has(work[r], "dropTraces")
    OBVIOUS
  <2>2. work[r].todo = <<"dropFeature", "dropTraces">>
    BY <2>1, <1>3 DEF Tails, Doing
  <2>3. 2 \in DOMAIN work[r].todo /\ work[r].todo[2] = "dropTraces"
    BY <2>2
  <2> QED
    BY <2>3 DEF Has
<1>6. s \in {"dropProject", "each"} => work[r].todo \notin Tails
  BY <1>3 DEF Tails, Doing
<1> QED
  BY <1>1, <1>2, <1>3, <1>4, <1>5, <1>6 DEF Shape, Doing, Fell

\* a step that takes its request one on
LEMMA GoStep ==
  ASSUME DocumentInv, RowsPart', NEW r \in DocRequests, NEW s \in Steps, Doing(r, s), Go(r),
         lapsed \subseteq lapsed', traced' \subseteq traced \cup Living',
         \/ Living \subseteq Living'
         \/ s = "dropFeature" /\ Living \ Living' \subseteq {work[r].f}
         \/ s = "dropProject",
         s = "dropTraces" => work[r].f \notin traced' \/ work[r].f \in lapsed'
  PROVE  DocumentInv'
<1> DEFINE w == [work[r] EXCEPT !.todo = Tail(@)]
<1>1. /\ work[r] # Waiting /\ work[r] \in CallRecords /\ work[r].todo # <<>> /\ Head(work[r].todo) = s
      /\ s = "dropFeature" => work[r].kind = "removeProject" \/ Has(work[r], "dropTraces")
      /\ s \in {"dropProject", "each"} => work[r].kind = "removeProject"
  BY DoingCall DEF DocumentInv
<1>2. 0 \in 0 .. MaxNumber + 1
  BY DocumentAssumption DEF DocumentAssumption
<1>3. w \in Works /\ \A p : Has(work[r], p) => s = p \/ Has(w, p)
  BY <1>1, <1>2, GoesOn DEF DocumentInv
<1>4. w.kind = work[r].kind /\ w.f = work[r].f
  BY <1>1 DEF CallRecords
<1>5. work' = [work EXCEPT ![r] = w]
  BY DEF Go
<1> HIDE DEF w
<1>6. Has(work[r], "dropTraces") => Has(w, "dropTraces") \/ w.f \notin traced' \/ w.f \in lapsed'
  BY <1>3, <1>4
<1>7. ~ Living \subseteq Living' => Has(w, "dropTraces") \/ w.kind = "removeProject"
  BY <1>1, <1>3, <1>4
<1>8. Living \ Living' \subseteq {w.f} \/ w.kind = "removeProject"
  BY <1>1, <1>4
<1> QED
  BY <1>1, <1>3, <1>4, <1>5, <1>6, <1>7, <1>8, Goes

\* a step that ends its request, or gives it other steps, and leaves the rows alone
LEMMA StopStep ==
  ASSUME DocumentInv, NEW r \in DocRequests, work[r] # Waiting, work[r].todo # <<>>, Stop(r), UNCHANGED rows,
         lapsed' = lapsed \/ (Has(work[r], "dropTraces") /\ lapsed' = lapsed \cup {work[r].f}),
         work[r].kind = "removeFeature" /\ Has(work[r], "dropTraces") => work[r].f \in lapsed'
  PROVE  DocumentInv'
<1> DEFINE w == [work[r] EXCEPT !.todo = <<>>]
<1>1. work[r] \in CallRecords /\ Shape(work[r])
  BY DEF DocumentInv, WorkPart, Works
<1>2. 0 \in 0 .. MaxNumber + 1
  BY DocumentAssumption DEF DocumentAssumption
<1>3. w \in Works
  BY <1>2, GoesOn DEF DocumentInv
<1>4. w.kind = work[r].kind /\ w.f = work[r].f
  BY <1>1 DEF CallRecords
<1>5. work' = [work EXCEPT ![r] = w]
  BY DEF Stop
<1> HIDE DEF w
<1>6. RowsPart' /\ Living' = Living /\ traced' = traced
  BY <1>1 DEF DocumentInv, RowsPart, rows, Living, Shape
<1> QED
  BY <1>3, <1>4, <1>5, <1>6, Goes

\* each step of a request keeps the invariant
LEMMA StepKeeps ==
  ASSUME DocumentInv, NEW r \in DocRequests, DocumentStep(r)
  PROVE  DocumentInv'
<1>0. /\ WorkPart /\ RowsPart
      /\ number \in [DocFeatures -> 0 .. MaxNumber] /\ Living \subseteq DocFeatures
      /\ specified \subseteq Living /\ diagrams \subseteq Living /\ traced \subseteq DocFeatures /\ lapsed \subseteq DocFeatures
  BY DEF DocumentInv, RowsPart, Living
<1>1. ASSUME NEW s \in Steps, Doing(r, s)
      PROVE  work[r] # Waiting /\ work[r] \in CallRecords /\ Shape(work[r]) /\ Has(work[r], s) /\ work[r].todo # <<>>
  BY <1>0, <1>1, DoingCall
<1>2. ASSUME number' = number PROVE Living' = Living
  BY <1>2 DEF Living
<1>3. ASSUME WriteDiscovery(r) \/ SaveProject(r) \/ WriteRequirements(r) \/ CommitEARS(r) \/ WriteDiagram(r)
             \/ Enqueue(r) \/ DropRequirements(r) \/ DropDiagram(r) \/ DropDiscovery(r)
      PROVE  DocumentInv'
  <2>1. PICK s \in Steps \ {"dropFeature", "dropTraces", "dropProject"} : Doing(r, s) /\ Go(r)
    BY <1>3 DEF WriteDiscovery, SaveProject, WriteRequirements, CommitEARS, WriteDiagram, Enqueue,
                DropRequirements, DropDiagram, DropDiscovery, Steps
  <2>2. Living' = Living
    BY <1>2, <1>3 DEF WriteDiscovery, SaveProject, WriteRequirements, CommitEARS, WriteDiagram, Enqueue,
                DropRequirements, DropDiagram, DropDiscovery
  <2>3. lapsed' = lapsed /\ traced' \subseteq traced \cup Living' /\ number' = number
    BY <1>0, <1>3, <2>2 DEF WriteDiscovery, SaveProject, WriteRequirements, CommitEARS, WriteDiagram, Enqueue,
                DropRequirements, DropDiagram, DropDiscovery
  <2>4. /\ project' \in BOOLEAN /\ discovery' \in BOOLEAN
        /\ Living' # {} \/ discovery' => project'
    <3>0. project \in BOOLEAN /\ discovery \in BOOLEAN /\ (Living # {} \/ discovery => project)
      BY <1>0 DEF RowsPart
    <3>1. CASE WriteDiscovery(r)
      BY <3>0, <3>1, Zenon DEF WriteDiscovery
    <3>2. CASE SaveProject(r)
      BY <3>0, <3>2, Zenon DEF SaveProject
    <3>3. CASE DropDiscovery(r)
      BY <2>2, <3>0, <3>3, Zenon DEF DropDiscovery
    <3>4. CASE project' = project /\ discovery' = discovery
      BY <2>2, <3>0, <3>4, Zenon
    <3> QED
      BY <1>3, <3>1, <3>2, <3>3, <3>4 DEF WriteRequirements, CommitEARS, WriteDiagram, Enqueue, DropRequirements, DropDiagram
  <2>5. /\ specified' \subseteq Living' /\ diagrams' \subseteq Living'
        /\ traced' \subseteq DocFeatures /\ lapsed' \subseteq DocFeatures
    BY <1>0, <1>3, <2>2 DEF WriteDiscovery, SaveProject, WriteRequirements, CommitEARS, WriteDiagram, Enqueue,
                DropRequirements, DropDiagram, DropDiscovery
  <2>6. evaluations' \subseteq DocRequests
    BY <1>0, <1>3, <2>2 DEF RowsPart, WriteDiscovery, SaveProject, WriteRequirements, CommitEARS, WriteDiagram, Enqueue,
                DropRequirements, DropDiagram, DropDiscovery
  <2>7. RowsPart'
    BY <1>0, <2>3, <2>4, <2>5, <2>6 DEF RowsPart
  <2> QED
    BY <2>1, <2>2, <2>3, <2>7, GoStep
<1>4. ASSUME NEW f \in DocFeatures \ Living, NEW n \in 0 .. MaxNumber + 1, Insertable(n), number' = [number EXCEPT ![f] = n],
             UNCHANGED <<project, discovery, specified, diagrams, traced, evaluations, lapsed>>
      PROVE  RowsPart' /\ Living \subseteq Living'
  <2>1. n <= MaxNumber /\ project /\ number[f] = 0 /\ n # 0
    BY <1>0, <1>4 DEF Insertable, Living
  <2>2. n \in 0 .. MaxNumber
    BY <2>1, DocumentAssumption DEF DocumentAssumption
  <2>3. number' \in [DocFeatures -> 0 .. MaxNumber] /\ \A g \in DocFeatures \ {f} : number'[g] = number[g]
    BY <1>0, <1>4, <2>2
  <2>4. Living \subseteq Living'
    BY <1>0, <2>1, <2>3 DEF Living
  <2> QED
    BY <1>0, <1>4, <2>1, <2>3, <2>4 DEF RowsPart
<1>5. CASE InsertFeatures(r)
  <2>1. "features" \in Steps /\ Doing(r, "features")
    BY <1>5 DEF InsertFeatures, Steps
  <2>2. work[r].n \in 0 .. MaxNumber + 1
    BY <1>1, <2>1 DEF CallRecords
  <2>3. RowsPart' /\ Living \subseteq Living'
    BY <1>4, <1>5, <2>2 DEF InsertFeatures
  <2> QED
    BY <1>5, <2>1, <2>3, GoStep DEF InsertFeatures
<1>6. CASE SaveFeature(r)
  <2>1. "feature" \in Steps /\ Doing(r, "feature")
    BY <1>6 DEF SaveFeature, Steps
  <2>2. work[r].n \in 0 .. MaxNumber + 1 /\ work[r].f \in DocFeatures \cup {NoFeature}
    BY <1>1, <2>1 DEF CallRecords
  <2>3. CASE number' = number
    <3>1. RowsPart' /\ Living' = Living
      BY <1>0, <1>2, <1>6, <2>3 DEF RowsPart, SaveFeature
    <3> QED
      BY <1>6, <2>1, <3>1, GoStep DEF SaveFeature
  <2>4. CASE number' # number
    <3>1. work[r].f \in DocFeatures \ Living
      BY <1>0, <1>6, <2>4 DEF SaveFeature
    <3>2. RowsPart' /\ Living \subseteq Living'
      BY <1>4, <1>6, <2>2, <2>4, <3>1 DEF SaveFeature
    <3> QED
      BY <1>6, <2>1, <3>2, GoStep DEF SaveFeature
  <2> QED
    BY <2>3, <2>4
<1>7. CASE NextNumber(r)
  <2>1. "number" \in Steps /\ Doing(r, "number")
    BY <1>7 DEF NextNumber, Steps
  <2>2. ~ Has(work[r], "dropTraces") \/ ~ (work[r].kind = "removeFeature")
    BY <1>1, <2>1 DEF Shape, Has, Tails, Doing
  <2>3. DocFeatures # {}
    BY <1>0 DEF RowsPart
  <2>4. Highest + 1 \in 0 .. MaxNumber + 1
    BY <1>0, <2>3, HighestIsANumber, DocumentAssumption DEF DocumentAssumption
  <2> DEFINE w == [work[r] EXCEPT !.n = Highest + 1, !.todo = Tail(work[r].todo)]
  <2>5. w \in Works /\ w.kind = work[r].kind /\ w.f = work[r].f
    BY <1>0, <1>1, <2>1, <2>4, GoesOn DEF CallRecords
  <2>6. work' = [work EXCEPT ![r] = w]
    BY <1>7 DEF NextNumber
  <2>7. RowsPart' /\ Living' = Living /\ lapsed' = lapsed /\ traced' = traced
    BY <1>0, <1>2, <1>7 DEF RowsPart, NextNumber, rows
  <2>8. work[r].kind = "removeFeature" => ~ Has(work[r], "dropTraces")
    BY <2>2
  <2> HIDE DEF w
  <2> QED
    BY <1>1, <2>1, <2>5, <2>6, <2>7, <2>8, Goes
<1>8. CASE ReadProject(r)
  <2>1. "readProject" \in Steps /\ Doing(r, "readProject") /\ UNCHANGED rows /\ lapsed' = lapsed
    BY <1>8 DEF ReadProject, Steps
  <2>2. RowsPart' /\ Living' = Living
    BY <1>0, <1>2, <2>1 DEF RowsPart, rows
  <2>3. CASE Go(r)
    BY <2>1, <2>2, <2>3, GoStep DEF rows
  <2>4. CASE Stop(r)
    <3>1. work[r].kind # "removeFeature"
      BY <1>1, <2>1 DEF Shape, Tails, Doing
    <3> QED
      BY <1>1, <2>1, <2>4, <3>1, StopStep
  <2> QED
    BY <1>8, <2>3, <2>4 DEF ReadProject
<1>9. CASE DropFeature(r)
  <2>1. "dropFeature" \in Steps /\ Doing(r, "dropFeature") /\ Go(r) /\ Cascade({work[r].f})
    BY <1>9 DEF DropFeature, Steps
  <2>2. /\ number' \in [DocFeatures -> 0 .. MaxNumber] /\ Living' = Living \ {work[r].f}
        /\ specified' = specified \ {work[r].f} /\ diagrams' = diagrams \ {work[r].f}
        /\ UNCHANGED <<project, discovery, traced, evaluations, lapsed>>
    <3>1. /\ number' = [f \in DocFeatures |-> IF f \in {work[r].f} THEN 0 ELSE number[f]]
          /\ MaxNumber \in Nat
      BY <1>9, DocumentAssumption DEF Cascade, DropFeature, DocumentAssumption
    <3>2. number' \in [DocFeatures -> 0 .. MaxNumber]
      BY <1>0, <3>1
    <3>3. Living' = Living \ {work[r].f}
      BY <3>1 DEF Living
    <3> QED
      BY <1>9, <3>2, <3>3 DEF Cascade, DropFeature
  <2>3. RowsPart'
    BY <1>0, <2>2 DEF RowsPart
  <2> QED
    BY <2>1, <2>2, <2>3, GoStep
<1>10. CASE DropTraces(r)
  <2>1. "dropTraces" \in Steps /\ Doing(r, "dropTraces") /\ Go(r)
    BY <1>10 DEF DropTraces, Steps
  <2>2. work[r].f \in DocFeatures
    BY <1>1, <2>1 DEF Shape
  <2>3. Living' = Living /\ RowsPart'
    BY <1>0, <1>2, <1>10, <2>2 DEF RowsPart, DropTraces
  <2> QED
    BY <1>10, <2>1, <2>3, GoStep DEF DropTraces
<1>11. CASE DropProject(r)
  <2>1. "dropProject" \in Steps /\ Doing(r, "dropProject") /\ Go(r)
    BY <1>11 DEF DropProject, Steps
  <2>2. /\ number' = [f \in DocFeatures |-> IF f \in DocFeatures THEN 0 ELSE number[f]]
        /\ specified' = {} /\ diagrams' = {} /\ project' = FALSE /\ discovery' = FALSE
        /\ UNCHANGED <<traced, evaluations, lapsed>>
    BY <1>0, <1>11 DEF Cascade, DropProject
  <2>3. number' \in [DocFeatures -> 0 .. MaxNumber] /\ Living' = {}
    BY <2>2, DocumentAssumption DEF DocumentAssumption, Living
  <2>4. RowsPart'
    BY <1>0, <2>2, <2>3 DEF RowsPart
  <2> QED
    BY <2>1, <2>2, <2>4, GoStep
<1>12. CASE Refused(r)
  <2>1. work[r] # Waiting /\ work[r].todo # <<>>
    BY <1>12 DEF Refused, Waiting
  <2> QED
    BY <1>12, <2>1, StopStep DEF Refused, Has
<1>13. CASE ListFeatures(r)
  <2>1. "each" \in Steps /\ Doing(r, "each")
    BY <1>13 DEF ListFeatures, Steps
  <2>2. work[r].kind = "removeProject"
    BY <1>0, <2>1, DoingCall
  <2> DEFINE last == <<"dropDiscovery", "dropProject">>
             t == IF Living = {} THEN last ELSE work[r].todo
             w == [work[r] EXCEPT !.left = Living, !.todo = t]
  <2>3. t \in Seq(Steps) /\ (t = work[r].todo \/ ~ \E i \in DOMAIN t : t[i] = "dropTraces")
    <3>1. last \in Seq(Steps) /\ \A i \in DOMAIN last : last[i] # "dropTraces"
      BY DEF Steps
    <3> QED
      BY <1>1, <2>1, <3>1 DEF CallRecords
  <2> HIDE DEF t
  <2>4. w \in CallRecords /\ w.kind = "removeProject" /\ w.f = work[r].f /\ w.todo = t
    BY <1>0, <1>1, <2>1, <2>2, <2>3 DEF CallRecords
  <2>5. work' = [work EXCEPT ![r] = w]
    BY <1>13 DEF ListFeatures, t
  <2> HIDE DEF w
  <2>6. Shape(w)
    BY <1>1, <2>1, <2>3, <2>4 DEF Shape, Has
  <2>7. w \in Works
    BY <2>4, <2>6 DEF Works
  <2>8. RowsPart' /\ Living' = Living /\ lapsed' = lapsed /\ traced' = traced
    BY <1>0, <1>2, <1>13 DEF RowsPart, ListFeatures, rows
  <2> QED
    BY <1>1, <2>1, <2>2, <2>4, <2>5, <2>7, <2>8, Goes
<1>14. CASE NextFeature(r)
  <2>1. "each" \in Steps /\ Doing(r, "each")
    BY <1>14 DEF NextFeature, Steps
  <2>2. work[r].kind = "removeProject"
    BY <1>0, <2>1, DoingCall
  <2> DEFINE one == <<"dropRequirements", "dropDiagram", "dropTraces", "dropFeature">>
             last == <<"dropDiscovery", "dropProject">>
             t(f) == one \o (IF work[r].left = {f} THEN last ELSE work[r].todo)
             w(f) == [work[r] EXCEPT !.f = f, !.left = work[r].left \ {f}, !.todo = t(f)]
  <2>3. PICK f \in work[r].left : work' = [work EXCEPT ![r] = w(f)]
    BY <1>14 DEF NextFeature
  <2>4. t(f) \in Seq(Steps)
    <3>1. one \in Seq(Steps) /\ last \in Seq(Steps) /\ work[r].todo \in Seq(Steps)
      BY <1>1, <2>1 DEF Steps, CallRecords
    <3> HIDE DEF one, last
    <3> QED
      BY <3>1, ConcatProperties
  <2> HIDE DEF t
  <2>5. f \in DocFeatures
    BY <1>1, <2>1 DEF CallRecords
  <2>6. w(f) \in CallRecords /\ w(f).kind = "removeProject" /\ w(f).f = f
    BY <1>1, <2>1, <2>2, <2>4, <2>5 DEF CallRecords
  <2> HIDE DEF w
  <2>7. w(f) \in Works
    BY <2>5, <2>6 DEF Works, Shape
  <2>8. RowsPart' /\ Living' = Living /\ lapsed' = lapsed /\ traced' = traced
    BY <1>0, <1>2, <1>14 DEF RowsPart, NextFeature, rows
  <2> QED
    BY <1>1, <2>1, <2>2, <2>3, <2>6, <2>7, <2>8, Goes
<1> QED
  BY <1>3, <1>5, <1>6, <1>7, <1>8, <1>9, <1>10, <1>11, <1>12, <1>13, <1>14 DEF DocumentStep

\* each call begins as one of its kind
LEMMA CallKeeps ==
  ASSUME DocumentInv, NEW r \in DocRequests, DocumentCall(r)
  PROVE  DocumentInv'
<1>0. /\ DocFeatures # {} /\ number \in [DocFeatures -> 0 .. MaxNumber] /\ MaxNumber \in Nat
      /\ Living \subseteq DocFeatures /\ specified \subseteq DocFeatures /\ diagrams \subseteq DocFeatures
  BY DocumentAssumption DEF DocumentInv, RowsPart, Living, DocumentAssumption
<1>1. Highest + 1 \in 0 .. MaxNumber + 1 /\ 0 \in 0 .. MaxNumber + 1
  BY <1>0, HighestIsANumber, DocumentAssumption
<1> DEFINE Plain == {<<"discovery">>, <<"discovery", "enqueue">>, <<"features", "readProject", "saveProject">>,
                     <<"features">>, <<"number", "features">>, <<"feature", "enqueue">>, <<"ears">>,
                     <<"requirements", "enqueue">>, <<"diagram", "readProject", "saveProject">>,
                     <<"dropRequirements", "dropDiagram">>, <<"dropDiagram">>}
<1>2. ASSUME NEW steps \in Plain PROVE steps \in Seq(Steps) /\ \A i \in DOMAIN steps : steps[i] \notin Fell
  <2> DEFINE Rest == Steps \ Fell
             Fits(t) == t \in Seq(Steps) /\ \A i \in DOMAIN t : t[i] \notin Fell
  <2>1. ASSUME NEW x \in Rest PROVE Fits(<<x>>)
    OBVIOUS
  <2>2. ASSUME NEW x \in Rest, NEW y \in Rest PROVE Fits(<<x, y>>)
    OBVIOUS
  <2>3. ASSUME NEW x \in Rest, NEW y \in Rest, NEW z \in Rest PROVE Fits(<<x, y, z>>)
    OBVIOUS
  <2>4. {"discovery", "enqueue", "features", "readProject", "saveProject", "number", "feature", "ears",
         "requirements", "diagram", "dropRequirements", "dropDiagram"} \subseteq Rest
    BY DEF Steps, Fell
  <2> HIDE DEF Fits, Rest
  <2>5. Fits(steps)
    BY <2>1, <2>2, <2>3, <2>4
  <2> QED
    BY <2>5 DEF Fits
<1>3. ASSUME NEW kind \in Kinds \ {"removeFeature", "removeProject"}, NEW f \in DocFeatures \cup {NoFeature},
             NEW n \in 0 .. MaxNumber + 1, NEW steps \in Plain, Begin(r, kind, f, n, steps)
      PROVE  DocumentInv'
  <2>1. steps \in Seq(Steps) /\ \A i \in DOMAIN steps : steps[i] \notin Fell /\ steps[i] # "dropTraces"
    BY <1>2 DEF Fell
  <2> HIDE DEF Plain
  <2> QED
    BY <1>3, <2>1, CallBegins
<1>4. ASSUME NEW f \in DocFeatures, DeleteFeatureRows(r, f)
      PROVE  DocumentInv'
  <2> DEFINE steps == <<"dropRequirements", "dropDiagram", "dropFeature", "dropTraces">>
  <2>1. steps \in Seq(Steps) /\ steps \in Tails /\ "removeFeature" \in Kinds
    BY DEF Steps, Tails, Kinds
  <2>2. Begin(r, "removeFeature", f, 0, steps)
    BY <1>4 DEF DeleteFeatureRows
  <2> HIDE DEF steps
  <2> QED
    BY <1>1, <2>1, <2>2, CallBegins
<1>5. CASE DeleteProject(r)
  <2> DEFINE steps == <<"each">>
  <2>1. steps \in Seq(Steps) /\ "removeProject" \in Kinds /\ \A i \in DOMAIN steps : steps[i] # "dropTraces"
    BY DEF Steps, Kinds
  <2>2. Begin(r, "removeProject", NoFeature, 0, steps)
    BY <1>5 DEF DeleteProject
  <2> HIDE DEF steps
  <2> QED
    BY <1>1, <2>1, <2>2, CallBegins
<1> HIDE DEF Plain
<1>6. CASE DiscoveryCall(r) \/ DirectCall(r) \/ GenerateFeatures(r) \/ SaveSelectedFeatures(r)
           \/ CreateCharacteristic(r) \/ RequirementCall(r) \/ DiagramCall(r)
           \/ \E f \in DocFeatures : EditFeature(r, f)
  <2> DEFINE Known == Kinds \ {"removeFeature", "removeProject"}
             Some == DocFeatures \cup {NoFeature}
             Begun == \E kind \in Known, f \in Some, n \in 0 .. MaxNumber + 1, steps \in Plain : Begin(r, kind, f, n, steps)
  <2>1. {"discover", "rediscover", "saveDiscovery", "revert", "generate", "select", "create", "edit", "ears",
         "rework", "saveRequirements", "modify", "diagram", "removeRequirements", "removeDiagram"} \subseteq Known
    BY DEF Kinds
  <2>2. /\ <<"discovery">> \in Plain /\ <<"discovery", "enqueue">> \in Plain
        /\ <<"features", "readProject", "saveProject">> \in Plain /\ <<"features">> \in Plain
        /\ <<"number", "features">> \in Plain /\ <<"feature", "enqueue">> \in Plain /\ <<"ears">> \in Plain
        /\ <<"requirements", "enqueue">> \in Plain /\ <<"diagram", "readProject", "saveProject">> \in Plain
        /\ <<"dropRequirements", "dropDiagram">> \in Plain /\ <<"dropDiagram">> \in Plain
    BY DEF Plain
  <2>3. NoFeature \in Some /\ DocFeatures \subseteq Some /\ \A f \in DocFeatures : number[f] \in 0 .. MaxNumber + 1
    BY <1>0
  <2> HIDE DEF Known, Some
  <2>4. DiscoveryCall(r) => Begun
    BY <1>1, <2>1, <2>2, <2>3 DEF DiscoveryCall, GenerateDiscovery, RefineDiscovery, RegenerateDiscovery, SaveDiscovery
  <2>5. RevertToVersion(r) => Begun
    BY <1>1, <2>1, <2>2, <2>3 DEF RevertToVersion
  <2>6. ModifyDirect(r) => Begun
    BY <1>0, <1>1, <2>1, <2>2, <2>3 DEF ModifyDirect
  <2>7. GenerateFeatures(r) \/ SaveSelectedFeatures(r) \/ CreateCharacteristic(r) => Begun
    BY <1>1, <2>1, <2>2, <2>3 DEF GenerateFeatures, SaveSelectedFeatures, CreateCharacteristic
  <2>8. (\E f \in DocFeatures : EditFeature(r, f)) => Begun
    BY <1>1, <2>1, <2>2, <2>3 DEF EditFeature
  <2>9. RequirementCall(r) => Begun
    BY <1>1, <2>1, <2>2, <2>3 DEF RequirementCall, GenerateEARS, RefineRequirements, RegenerateRequirements,
                                  SaveRequirements, DeleteRequirements
  <2>10. DiagramCall(r) => Begun
    BY <1>1, <2>1, <2>2, <2>3 DEF DiagramCall, GenerateDiagram, DeleteDiagram
  <2>11. Begun
    BY <1>6, <2>4, <2>5, <2>6, <2>7, <2>8, <2>9, <2>10 DEF DirectCall
  <2> QED
    BY <1>3, <2>11 DEF Known, Some
<1> QED
  BY <1>4, <1>5, <1>6 DEF DocumentCall, FeatureCall

\* the first state
LEMMA DocumentInit_Inv == DocumentInit => DocumentInv
<1> SUFFICES ASSUME DocumentInit PROVE DocumentInv
  OBVIOUS
<1>1. PICK f \in DocFeatures : number = [g \in DocFeatures |-> IF g = f THEN 1 ELSE 0]
  BY DEF DocumentInit
<1>2. number \in [DocFeatures -> 0 .. MaxNumber] /\ Living = {f}
  BY <1>1, DocumentAssumption DEF DocumentAssumption, Living
<1>3. RowsPart
  BY <1>2 DEF DocumentInit, RowsPart
<1>4. WorkPart
  BY DEF DocumentInit, WorkPart, Works
<1>5. EdgesHaveFeatures
  BY DEF DocumentInit, EdgesHaveFeatures
<1> QED
  BY <1>3, <1>4, <1>5 DEF DocumentInv

\* every step keeps the invariant
LEMMA DocumentKeeps == DocumentInv /\ [DocumentNext]_documentVars => DocumentInv'
<1>1. ASSUME DocumentInv, UNCHANGED documentVars PROVE DocumentInv'
  <2>1. EdgesHaveFeatures' <=> EdgesHaveFeatures
    BY <1>1 DEF documentVars, EdgesHaveFeatures, Removing, Living
  <2> QED
    BY <1>1, <2>1 DEF DocumentInv, WorkPart, RowsPart, documentVars, Living
<1> QED
  BY <1>1, CallKeeps, StepKeeps DEF DocumentNext

(***************************************************************************)
(* Every reachable state of the documents satisfies the invariant: the     *)
(* calls have the steps of their kind, the rows refer to rows there are,   *)
(* and the edges belong to features.                                       *)
(***************************************************************************)
THEOREM DocumentInvariant == DocumentSpec => []DocumentInv
<1>1. DocumentInit => DocumentInv
  BY DocumentInit_Inv
<1>2. DocumentInv /\ [DocumentNext]_documentVars => DocumentInv'
  BY DocumentKeeps
<1> QED
  BY <1>1, <1>2, PTL DEF DocumentSpec

\* the invariant is more than the types
LEMMA DocumentTypes == DocumentInv => DocumentTypeOK
<1> SUFFICES ASSUME DocumentInv PROVE DocumentTypeOK
  OBVIOUS
<1>1. ASSUME NEW r \in DocRequests, work[r] # Waiting PROVE work[r] \in CallRecords
  BY <1>1 DEF DocumentInv, WorkPart, Works
<1> QED
  BY <1>1 DEF DocumentInv, RowsPart, DocumentTypeOK, CallRecords

(***************************************************************************)
(* The rows have their types and refer to rows there are, for any number   *)
(* of requests and features.                                               *)
(***************************************************************************)
THEOREM DocumentTypeCorrect == DocumentSpec => []DocumentTypeOK
BY DocumentInvariant, DocumentTypes, PTL

(***************************************************************************)
(* The edges of a feature do not outlive it, whatever order the statements *)
(* of its deletion and of any number of generations, edits and             *)
(* modifications of it are committed in: the row goes before the edges,    *)
(* and nobody writes edges of a feature without a row.                     *)
(***************************************************************************)
THEOREM EdgesHaveFeaturesHolds == DocumentSpec => []EdgesHaveFeatures
<1>1. DocumentInv => EdgesHaveFeatures
  BY DEF DocumentInv
<1> QED
  BY <1>1, DocumentInvariant, PTL

-----------------------------------------------------------------------------
(***************************************************************************)
(* The chat: a change that is shown as applied is evaluated.               *)
(***************************************************************************)
\* what a turn shows of a change; the rows of the messages
Cards == {"none", "refused", "applied"}
MessageRows == [turn : Turns, role : {"user", "assistant"}, size : ReplySizes \cup {QuestionSize, 1},
         cards : Cards, thread : Threads \cup {NoThread}]
ChatTypeOK ==
  /\ threads \subseteq Threads
  /\ messages \in Seq(MessageRows)
  /\ turn = [t \in Turns |-> turn[t]]
  /\ \A t \in Turns : /\ DOMAIN turn[t] = {"at", "stream", "thread", "prompt", "read", "cards"}
                      /\ turn[t].thread \in Threads \cup {NoThread}
                      /\ turn[t].cards \in Cards
\* a turn has applied its change only when it is past it, and it only gets to
\* its reply with the evaluation of what it applied
AppliedPart ==
  \A t \in Turns : turn[t].cards = "applied" =>
    turn[t].at \in {"enqueue", "ended"} \/ (turn[t].at = "reply" /\ t \in evaluated)
ChatInv == ChatTypeOK /\ AppliedPart /\ ShownIsEvaluated

\* a message is added whose change, if it has one, is evaluated
LEMMA Says ==
  ASSUME messages \in Seq(MessageRows), ShownIsEvaluated, NEW m \in MessageRows,
         messages' = Append(messages, m), evaluated' = evaluated,
         m.cards = "applied" => m.turn \in evaluated
  PROVE  messages' \in Seq(MessageRows) /\ ShownIsEvaluated'
<1>1. /\ messages' \in Seq(MessageRows) /\ Len(messages') = Len(messages) + 1
      /\ \A i \in 1 .. Len(messages) : messages'[i] = messages[i]
      /\ messages'[Len(messages) + 1] = m
  BY AppendProperties
<1>2. \A i \in 1 .. Len(messages') : i \in 1 .. Len(messages) \/ i = Len(messages) + 1
  BY <1>1
<1> QED
  BY <1>1, <1>2 DEF ShownIsEvaluated

\* what one turn may become
LEMMA TurnMoves ==
  ASSUME ChatTypeOK, AppliedPart, NEW t \in Turns, turn' = [turn EXCEPT ![t] = turn'[t]],
         DOMAIN turn'[t] = {"at", "stream", "thread", "prompt", "read", "cards"},
         turn'[t].thread \in Threads \cup {NoThread}, turn'[t].cards \in Cards,
         evaluated \subseteq evaluated',
         turn'[t].cards = "applied" =>
           turn'[t].at \in {"enqueue", "ended"} \/ (turn'[t].at = "reply" /\ t \in evaluated'),
         threads' \subseteq Threads, messages' \in Seq(MessageRows)
  PROVE  ChatTypeOK' /\ AppliedPart'
<1>1. \A u \in Turns \ {t} : turn'[u] = turn[u]
  BY DEF ChatTypeOK
<1>2. turn' = [u \in Turns |-> turn'[u]]
  BY DEF ChatTypeOK
<1> QED
  BY <1>1, <1>2 DEF ChatTypeOK, AppliedPart

\* a thread goes with its messages
LEMMA ThreadsKeep ==
  ASSUME ChatInv, NEW th \in Threads, CreateThread(th) \/ DeleteThread(th)
  PROVE  ChatInv'
<1>1. UNCHANGED <<turn, evaluated>> /\ threads' \subseteq Threads
  BY DEF ChatInv, ChatTypeOK, CreateThread, DeleteThread
<1>2. messages' \in Seq(MessageRows) /\ ShownIsEvaluated'
  <2>1. CASE CreateThread(th)
    BY <1>1, <2>1 DEF ChatInv, ChatTypeOK, CreateThread, ShownIsEvaluated
  <2>2. CASE DeleteThread(th)
    <3> DEFINE kept == {i \in DOMAIN messages : messages[i].thread # th}
               n == Cardinality(kept)
    <3>1. messages \in Seq(MessageRows) /\ IsFiniteSet(kept) /\ n \in Nat
      <4>1. messages \in Seq(MessageRows) /\ Len(messages) \in Nat /\ DOMAIN messages = 1 .. Len(messages)
        BY DEF ChatInv, ChatTypeOK
      <4>2. IsFiniteSet(1 .. Len(messages)) /\ kept \subseteq 1 .. Len(messages)
        BY <4>1, FS_Interval
      <4> QED
        BY <4>1, <4>2, FS_Subset, FS_CardinalityType
    <3>2. PICK nth \in [1 .. n -> kept] : messages' = [i \in DOMAIN nth |-> messages[nth[i]]]
      BY <2>2 DEF DeleteThread
    <3>3. kept \subseteq 1 .. Len(messages) /\ DOMAIN messages = 1 .. Len(messages)
      BY <3>1
    <3> HIDE DEF kept, n
    <3>4. messages' \in Seq(MessageRows) /\ Len(messages') = n
      <4>1. \A i \in 1 .. n : nth[i] \in 1 .. Len(messages) /\ messages[nth[i]] \in MessageRows
        <5>0. \A i \in 1 .. n : nth[i] \in kept
          BY <3>2
        <5>1. \A i \in 1 .. n : nth[i] \in 1 .. Len(messages)
          BY <3>3, <5>0
        <5> QED
          BY <3>1, <5>1
      <4>2. messages' \in [1 .. n -> MessageRows]
        BY <3>2, <4>1
      <4> QED
        BY <3>1, <4>2
    <3> QED
      BY <1>1, <3>2, <3>3, <3>4 DEF ChatInv, ShownIsEvaluated
  <2> QED
    BY <2>1, <2>2
<1> QED
  BY <1>1, <1>2 DEF ChatInv, ChatTypeOK, AppliedPart

\* each step of a turn keeps the invariant
LEMMA TurnsKeep ==
  ASSUME ChatInv, NEW t \in Turns,
         \/ \E th \in threads \cup {NoThread} : StartTurn(t, th) \/ StartStream(t, th)
         \/ Redirected(t) \/ ReadHistory(t) \/ SaveQuestion(t) \/ Answered(t) \/ StreamFails(t)
         \/ Disconnect(t) \/ UpstreamGuard(t) \/ ReadFragment(t) \/ ApplySuggestion(t)
         \/ TriggerDownstream(t) \/ SaveReply(t)
  PROVE  ChatInv'
<1>0. /\ ChatTypeOK /\ AppliedPart /\ ShownIsEvaluated /\ threads \subseteq Threads /\ messages \in Seq(MessageRows)
      /\ turn = [u \in Turns |-> turn[u]]
      /\ DOMAIN turn[t] = {"at", "stream", "thread", "prompt", "read", "cards"}
      /\ turn[t].thread \in Threads \cup {NoThread} /\ turn[t].cards \in Cards
  BY DEF ChatInv, ChatTypeOK
<1>1. threads' = threads
  BY DEF Begins, StartTurn, StartStream, Redirected, ReadHistory, SaveQuestion, Answered, StreamFails,
         Disconnect, UpstreamGuard, ReadFragment, ApplySuggestion, TriggerDownstream, SaveReply
<1>2. evaluated \subseteq evaluated'
  BY DEF Begins, StartTurn, StartStream, Redirected, ReadHistory, SaveQuestion, Answered, StreamFails,
         Disconnect, UpstreamGuard, ReadFragment, ApplySuggestion, TriggerDownstream, SaveReply
\* where the turn stands afterwards
<1> DEFINE Moved(at, cards) ==
      /\ turn' = [turn EXCEPT ![t] = turn'[t]] /\ turn'[t].at = at
      /\ DOMAIN turn'[t] = {"at", "stream", "thread", "prompt", "read", "cards"}
      /\ turn'[t].thread \in Threads \cup {NoThread} /\ turn'[t].cards = cards
<1>3. ASSUME NEW at, turn' = [turn EXCEPT ![t].at = at] PROVE Moved(at, turn[t].cards)
  BY <1>0, <1>3
<1>4. ASSUME NEW at, NEW prompt, turn' = [turn EXCEPT ![t].at = at, ![t].prompt = prompt] PROVE Moved(at, turn[t].cards)
  BY <1>0, <1>4
<1>5. ASSUME NEW at, NEW read, turn' = [turn EXCEPT ![t].at = at, ![t].read = read] PROVE Moved(at, turn[t].cards)
  BY <1>0, <1>5
<1>6. ASSUME NEW at, NEW cards, turn' = [turn EXCEPT ![t].at = at, ![t].cards = cards] PROVE Moved(at, cards)
  BY <1>0, <1>6
<1>7. ASSUME NEW at, NEW th \in threads \cup {NoThread}, NEW stream,
             turn' = [turn EXCEPT ![t].at = at, ![t].thread = th, ![t].stream = stream]
      PROVE  Moved(at, turn[t].cards)
  BY <1>0, <1>7
<1>8. turn[t].cards = "applied" => turn[t].at \in {"enqueue", "ended"} \/ (turn[t].at = "reply" /\ t \in evaluated)
  BY <1>0 DEF AppliedPart
\* nothing is said, and what the turn has applied is evaluated before its reply
<1>9. ASSUME NEW at, NEW cards \in Cards, Moved(at, cards), messages' = messages,
             cards = "applied" => at \in {"enqueue", "ended"} \/ (at = "reply" /\ t \in evaluated')
      PROVE  ChatInv'
  <2>1. ChatTypeOK' /\ AppliedPart'
    BY <1>0, <1>1, <1>2, <1>9, TurnMoves
  <2>2. ShownIsEvaluated'
    BY <1>0, <1>2, <1>9 DEF ShownIsEvaluated
  <2> QED
    BY <2>1, <2>2 DEF ChatInv
\* the turn says something
<1>10. ASSUME NEW at, NEW m \in MessageRows, Moved(at, turn[t].cards), messages' = Append(messages, m), evaluated' = evaluated,
              m.cards = "applied" => m.turn \in evaluated, turn[t].cards = "applied" => at = "ended"
       PROVE  ChatInv'
  <2>1. messages' \in Seq(MessageRows) /\ ShownIsEvaluated'
    BY <1>0, <1>10, Says
  <2>2. ChatTypeOK' /\ AppliedPart'
    BY <1>0, <1>1, <1>2, <1>10, <2>1, TurnMoves
  <2> QED
    BY <2>1, <2>2 DEF ChatInv
<1> HIDE DEF Moved
<1>11. CASE \E th \in threads \cup {NoThread} : StartTurn(t, th) \/ StartStream(t, th)
  <2>1. PICK th \in threads \cup {NoThread}, stream \in BOOLEAN : Begins(t, th, stream)
    BY <1>11 DEF StartTurn, StartStream
  <2>2. Moved("start", turn[t].cards) /\ messages' = messages /\ turn[t].cards # "applied"
    BY <1>7, <1>8, <2>1 DEF Begins
  <2> QED
    BY <1>0, <1>9, <2>2
<1>12. CASE Redirected(t) \/ Disconnect(t)
  <2>1. Moved("ended", turn[t].cards) /\ messages' = messages
    BY <1>3, <1>12 DEF Redirected, Disconnect, GoesTo
  <2> QED
    BY <1>0, <1>9, <2>1
<1>13. CASE ReadHistory(t)
  <2>1. Moved("question", turn[t].cards) /\ messages' = messages /\ turn[t].cards # "applied"
    BY <1>4, <1>8, <1>13 DEF ReadHistory
  <2> QED
    BY <1>0, <1>9, <2>1
<1>14. CASE SaveQuestion(t)
  <2> DEFINE m == Message(t, "user", QuestionSize, "none")
  <2>1. Moved("llm", turn[t].cards) /\ messages' = Append(messages, m) /\ evaluated' = evaluated /\ turn[t].cards # "applied"
    BY <1>4, <1>8, <1>14 DEF SaveQuestion
  <2>2. m \in MessageRows /\ m.cards = "none"
    BY <1>0 DEF Message, MessageRows, Cards
  <2> HIDE DEF m
  <2> QED
    BY <1>10, <2>1, <2>2
<1>15. CASE Answered(t)
  <2>1. (Moved("reply", turn[t].cards) \/ Moved("guard", "refused")) /\ messages' = messages /\ turn[t].cards # "applied"
    BY <1>3, <1>6, <1>8, <1>15 DEF Answered, GoesTo
  <2> QED
    BY <1>0, <1>9, <2>1 DEF Cards
<1>16. CASE StreamFails(t)
  <2> DEFINE m == Message(t, "assistant", 1, "none")
  <2>1. Moved("ended", turn[t].cards) /\ messages' = Append(messages, m) /\ evaluated' = evaluated
    BY <1>3, <1>16 DEF StreamFails, GoesTo
  <2>2. m \in MessageRows /\ m.cards = "none"
    BY <1>0 DEF Message, MessageRows, Cards
  <2> HIDE DEF m
  <2> QED
    BY <1>10, <2>1, <2>2
<1>17. CASE UpstreamGuard(t)
  <2>1. (Moved("read", turn[t].cards) \/ Moved("reply", turn[t].cards)) /\ messages' = messages /\ turn[t].cards # "applied"
    BY <1>3, <1>8, <1>17 DEF UpstreamGuard, GoesTo
  <2> QED
    BY <1>0, <1>9, <2>1
<1>18. CASE ReadFragment(t)
  <2>1. (Moved("write", turn[t].cards) \/ Moved("reply", turn[t].cards)) /\ messages' = messages /\ turn[t].cards # "applied"
    BY <1>3, <1>5, <1>8, <1>18 DEF ReadFragment, GoesTo
  <2> QED
    BY <1>0, <1>9, <2>1
<1>19. CASE ApplySuggestion(t)
  <2>1. Moved("enqueue", "applied") /\ messages' = messages
    BY <1>6, <1>19 DEF ApplySuggestion
  <2> QED
    BY <1>0, <1>9, <2>1 DEF Cards
<1>20. CASE TriggerDownstream(t)
  <2>1. (Moved("reply", turn[t].cards) /\ t \in evaluated') \/ Moved("ended", turn[t].cards)
    BY <1>3, <1>20 DEF TriggerDownstream, GoesTo
  <2>2. messages' = messages
    BY <1>20 DEF TriggerDownstream
  <2> QED
    BY <1>0, <1>9, <2>1, <2>2
<1>21. CASE SaveReply(t)
  <2>1. PICK size \in ReplySizes : messages' = Append(messages, Message(t, "assistant", size, turn[t].cards))
    BY <1>21 DEF SaveReply
  <2> DEFINE m == Message(t, "assistant", size, turn[t].cards)
  <2>2. Moved("ended", turn[t].cards) /\ evaluated' = evaluated /\ (turn[t].cards = "applied" => t \in evaluated)
    BY <1>3, <1>8, <1>21 DEF SaveReply, GoesTo
  <2>3. m \in MessageRows /\ m.cards = turn[t].cards /\ m.turn = t
    BY <1>0 DEF Message, MessageRows, Cards
  <2> HIDE DEF m
  <2> QED
    BY <1>10, <2>1, <2>2, <2>3 DEF m
<1> QED
  BY <1>11, <1>12, <1>13, <1>14, <1>15, <1>16, <1>17, <1>18, <1>19, <1>20, <1>21

(***************************************************************************)
(* A change the history shows as applied is evaluated, for any number of   *)
(* turns and threads: the reply is the last thing a turn saves, and it     *)
(* only gets there with a change whose evaluation is in the outbox.        *)
(***************************************************************************)
THEOREM ShownIsEvaluatedHolds == ChatSpec => []ShownIsEvaluated
<1>1. ChatInit => ChatInv
  <2> SUFFICES ASSUME ChatInit PROVE ChatInv
    OBVIOUS
  <2>1. messages \in Seq(MessageRows) /\ Len(messages) = 0
    BY DEF ChatInit
  <2>2. ChatTypeOK
    BY <2>1 DEF ChatInit, ChatTypeOK, Unsaid, Cards
  <2>3. AppliedPart /\ ShownIsEvaluated
    BY <2>1 DEF ChatInit, AppliedPart, ShownIsEvaluated, Unsaid
  <2> QED
    BY <2>2, <2>3 DEF ChatInv
<1>2. ChatInv /\ [ChatNext]_chatVars => ChatInv'
  <2>1. ASSUME ChatInv, UNCHANGED chatVars PROVE ChatInv'
    BY <2>1 DEF ChatInv, ChatTypeOK, AppliedPart, ShownIsEvaluated, chatVars
  <2> QED
    BY <2>1, ThreadsKeep, TurnsKeep DEF ChatNext
<1>3. ChatInv => ShownIsEvaluated
  BY DEF ChatInv
<1> QED
  BY <1>1, <1>2, <1>3, PTL DEF ChatSpec

-----------------------------------------------------------------------------
(***************************************************************************)
(* The memory of the generation: what was purged stays purged.             *)
(***************************************************************************)
(***************************************************************************)
(* A run has no session before it saves it: what is gone was saved by a    *)
(* run that is past its recording, and no run goes back there.             *)
(***************************************************************************)
NotYetSaved ==
  \A g \in Generations : gen[g].at \in {"idle", "asking", "recording"} => session[g] = "none"
\* a run of the generation
Run == [at : {"idle", "asking", "recording", "recorded", "built", "ended"}, kind : FromScratch \cup OnOriginal \cup {"none"},
        calls : Nat, output : Worths]
GenerationTypeOK ==
  /\ gen \in [Generations -> Run]
  /\ session \in [Generations -> {"none", "there", "gone"}]
GenerationInv == GenerationTypeOK /\ NotYetSaved

\* the steps of a run: where it stands afterwards, and what becomes of the sessions
LEMMA RunMoves ==
  ASSUME GenerationInv, NEW g \in Generations, NEW x \in Run, gen' = [gen EXCEPT ![g] = x],
         \/ session' = session /\ (x.at \in {"idle", "asking", "recording"} => gen[g].at \in {"idle", "asking", "recording"})
         \/ session' = [session EXCEPT ![g] = "there"] /\ x.at = "recorded"
  PROVE  GenerationInv'
<1>1. gen' \in [Generations -> Run] /\ gen'[g] = x /\ \A h \in Generations \ {g} : gen'[h] = gen[h]
  BY DEF GenerationInv, GenerationTypeOK
<1>2. session' \in [Generations -> {"none", "there", "gone"}] /\ \A h \in Generations \ {g} : session'[h] = session[h]
  BY DEF GenerationInv, GenerationTypeOK
<1>3. x.at \in {"idle", "asking", "recording"} => session'[g] = "none"
  BY DEF GenerationInv, NotYetSaved
<1> QED
  BY <1>1, <1>2, <1>3 DEF GenerationInv, GenerationTypeOK, NotYetSaved

\* every step keeps the invariant and what is gone
LEMMA GenerationStep ==
  ASSUME GenerationInv, [GenerationNext]_generationVars
  PROVE  /\ GenerationInv'
         /\ \A g \in Generations : session[g] = "gone" => session'[g] = "gone"
<1>0. /\ gen \in [Generations -> Run] /\ session \in [Generations -> {"none", "there", "gone"}] /\ NotYetSaved
  BY DEF GenerationInv, GenerationTypeOK
<1>1. ASSUME UNCHANGED <<gen, session>>
      PROVE  GenerationInv' /\ \A g \in Generations : session[g] = "gone" => session'[g] = "gone"
  BY <1>0, <1>1 DEF GenerationInv, GenerationTypeOK, NotYetSaved
<1>2. ASSUME NEW g \in Generations,
             \/ \E kind \in FromScratch \cup OnOriginal : StartRun(g, kind)
             \/ Ask(g) \/ AskFails(g) \/ EnqueueReflection(g) \/ RunFails(g) \/ SaveResult(g) \/ RefuseResult(g)
      PROVE  GenerationInv' /\ \A h \in Generations : session[h] = "gone" => session'[h] = "gone"
  <2>0. gen[g] \in Run
    BY <1>0
  <2>1. session' = session
    BY <1>2 DEF StartRun, Ask, AskFails, EnqueueReflection, RunFails, SaveResult, RefuseResult, memory
  <2>2. \E x \in Run : /\ gen' = [gen EXCEPT ![g] = x]
                       /\ x.at \in {"idle", "asking", "recording"} => gen[g].at \in {"idle", "asking", "recording"}
    <3>1. ASSUME NEW kind \in FromScratch \cup OnOriginal, StartRun(g, kind)
          PROVE  [gen[g] EXCEPT !.at = "asking", !.kind = kind] \in Run
      BY <2>0 DEF Run
    <3>2. CASE \E kind \in FromScratch \cup OnOriginal : StartRun(g, kind)
      <4>1. PICK kind \in FromScratch \cup OnOriginal : StartRun(g, kind)
        BY <3>2
      <4> DEFINE x == [gen[g] EXCEPT !.at = "asking", !.kind = kind]
      <4>2. x \in Run
        BY <3>1, <4>1
      <4>3. gen' = [gen EXCEPT ![g] = x] /\ gen[g].at = "idle"
        BY <4>1 DEF StartRun
      <4> QED
        BY <4>2, <4>3
    <3>3. CASE Ask(g)
      <4>1. gen[g].at = "asking"
        BY <3>3 DEF Ask
      <4> DEFINE next(worth) == IF worth = "valid" \/ gen[g].calls + 1 = MaxIterations THEN "recording" ELSE "asking"
                 x(worth) == [gen[g] EXCEPT !.calls = gen[g].calls + 1, !.output = worth, !.at = next(worth)]
      <4>2. PICK worth \in Worths \ {"none"} : gen' = [gen EXCEPT ![g] = x(worth)]
        BY <3>3 DEF Ask
      <4>3. next(worth) \in {"recording", "asking"} /\ gen[g].calls + 1 \in Nat
        BY <2>0 DEF Run
      <4> HIDE DEF next
      <4>4. x(worth) \in Run
        BY <2>0, <4>3 DEF Run
      <4> HIDE DEF x
      <4> QED
        BY <4>1, <4>2, <4>4
    <3>4. ASSUME NEW place \in {"recording", "built", "ended"}, gen' = [gen EXCEPT ![g].at = place],
                 place = "recording" => gen[g].at = "asking"
          PROVE  \E x \in Run : /\ gen' = [gen EXCEPT ![g] = x]
                                /\ x.at \in {"idle", "asking", "recording"} => gen[g].at \in {"idle", "asking", "recording"}
      <4> DEFINE x == [gen[g] EXCEPT !.at = place]
      <4>1. x \in Run /\ x.at = place
        BY <2>0 DEF Run
      <4>2. gen' = [gen EXCEPT ![g] = x]
        BY <1>0, <3>4
      <4> HIDE DEF x
      <4> QED
        BY <3>4, <4>1, <4>2
    <3> QED
      BY <1>2, <3>2, <3>3, <3>4 DEF AskFails, EnqueueReflection, RunFails, SaveResult, RefuseResult
  <2> QED
    BY <2>1, <2>2, RunMoves
<1>3. ASSUME NEW g \in Generations, SaveSession(g)
      PROVE  GenerationInv' /\ \A h \in Generations : session[h] = "gone" => session'[h] = "gone"
  <2> DEFINE x == [gen[g] EXCEPT !.at = "recorded"]
  <2>1. x \in Run /\ x.at = "recorded"
    BY <1>0 DEF Run
  <2>2. gen' = [gen EXCEPT ![g] = x] /\ session' = [session EXCEPT ![g] = "there"] /\ gen[g].at = "recording"
    BY <1>0, <1>3 DEF SaveSession
  <2> HIDE DEF x
  <2>3. GenerationInv'
    BY <2>1, <2>2, RunMoves
  \* the session that appears was not there yet
  <2>4. session[g] = "none"
    BY <1>0, <2>2 DEF NotYetSaved
  <2> QED
    BY <1>0, <2>2, <2>3, <2>4
<1>4. ASSUME NEW g \in Generations, Reflect(g) \/ Consolidate(g) \/ JobRetried(g)
      PROVE  UNCHANGED <<gen, session>>
  BY <1>4 DEF Reflect, Consolidate, JobRetried
<1>5. ASSUME Purge \/ RemoveProject
      PROVE  GenerationInv' /\ \A g \in Generations : session[g] = "gone" => session'[g] = "gone"
  <2>1. /\ gen' = gen /\ session' \in [Generations -> {"none", "there", "gone"}]
        /\ \A g \in Generations : session'[g] = session[g] \/ (session[g] = "there" /\ session'[g] = "gone")
    BY <1>0, <1>5 DEF Purge, RemoveProject, There
  <2> QED
    BY <1>0, <2>1 DEF GenerationInv, GenerationTypeOK, NotYetSaved
<1> QED
  BY <1>1, <1>2, <1>3, <1>4, <1>5 DEF GenerationNext, generationVars

(***************************************************************************)
(* A session that was purged, or went with its project, is brought back by *)
(* no run and no delivery of the job that reflects on it, for any number   *)
(* of runs and any order of the outbox.                                    *)
(***************************************************************************)
THEOREM PurgedStaysPurgedHolds == GenerationSpec => PurgedStaysPurged
<1>1. ASSUME GenerationInit PROVE GenerationInv
  <2> DEFINE x == [at |-> "idle", kind |-> "none", calls |-> 0, output |-> "none"]
  <2>1. x \in Run
    BY DEF Run, Worths
  <2>2. gen = [g \in Generations |-> x] /\ session = [g \in Generations |-> "none"]
    BY <1>1 DEF GenerationInit
  <2> QED
    BY <2>1, <2>2 DEF GenerationInv, GenerationTypeOK, NotYetSaved
<1>2. GenerationInv /\ [GenerationNext]_generationVars => GenerationInv'
  BY GenerationStep
<1>3. GenerationInv /\ [GenerationNext]_generationVars
      => [\A g \in Generations : session[g] = "gone" => session'[g] = "gone"]_generationVars
  BY GenerationStep
<1> QED
  BY <1>1, <1>2, <1>3, PTL DEF GenerationSpec, PurgedStaysPurged

-----------------------------------------------------------------------------
(***************************************************************************)
(* The plan of a feature: one without violations can be carried out.       *)
(***************************************************************************)
(***************************************************************************)
(* Until the plan is saved nobody touches the files it was checked with;   *)
(* then, of a plan without violations, the file of an operation that is    *)
(* left is there if and only if it was there at first.                     *)
(***************************************************************************)
Untouched ==
  /\ planning \in {"idle", "analyzed", "planned"} => Protected \subseteq files
  /\ planning \in {"analyzed", "planned"} => listed = files
StillDue ==
  planning = "saved" =>
    /\ left \subseteq DOMAIN plan
    /\ Violations = {} => /\ Protected \subseteq files
                          /\ \A i \in left : plan[i].file \in files <=> plan[i].file \in listed
PlanInv == DOMAIN plan \subseteq Nat \ {0} /\ Untouched /\ StillDue

\* no two operations of a plan without violations are of one file
LEMMA OneOperationPerFile ==
  ASSUME DOMAIN plan \subseteq Nat \ {0}, Violations = {},
         NEW i \in DOMAIN plan, NEW j \in DOMAIN plan, plan[i].file = plan[j].file
  PROVE  i = j
<1>1. \A k \in DOMAIN plan : plan[k].safe /\ Kept(k)
  BY DEF Violations
<1>2. ASSUME NEW k \in DOMAIN plan, NEW l \in DOMAIN plan, l < k PROVE plan[l].file # plan[k].file
  <2>1. l \in 1 .. k - 1
    BY <1>2
  <2> QED
    BY <1>1, <2>1 DEF Kept
<1> QED
  BY <1>2

\* the positions of an agent's usable operations are counted from 1
LEMMA AgentPlanPositions ==
  ASSUME PlanAssumption, AgentPlans PROVE DOMAIN plan' \subseteq Nat \ {0}
<1>1. PICK n \in 1..MaxOperations : \E raws \in [1..n -> RawPaths] :
        \E nth \in [1..Cardinality({i \in 1..n : Normalizable(raws[i].form)}) -> {i \in 1..n : Normalizable(raws[i].form)}] :
          DOMAIN plan' = DOMAIN nth
  BY DEF AgentPlans
<1>2. PICK raws \in [1..n -> RawPaths] :
        \E nth \in [1..Cardinality({i \in 1..n : Normalizable(raws[i].form)}) -> {i \in 1..n : Normalizable(raws[i].form)}] :
          DOMAIN plan' = DOMAIN nth
  BY <1>1
<1> DEFINE usable == {i \in 1..n : Normalizable(raws[i].form)}
<1>3. IsFiniteSet(1..n)
  BY FS_Interval DEF PlanAssumption
<1>4. IsFiniteSet(usable)
  BY <1>3, FS_Subset
<1>5. Cardinality(usable) \in Nat
  BY <1>4, FS_CardinalityType
<1>6. DOMAIN plan' = 1..Cardinality(usable)
  BY <1>2
<1> HIDE DEF usable
<1> QED
  BY <1>5, <1>6

\* and so are those of the fallback plan
LEMMA FallbackPositions == DOMAIN FallbackOperations \subseteq Nat \ {0}
<1> DEFINE Written == {Canonical("create", "logic"), Canonical("create", "actions"), Canonical("create", "manifest"),
                   Canonical("create", "page"), RegistryOperation, Canonical("create", "tests")}
           page == IF placing.kind = "integrate" THEN <<>> ELSE <<Canonical("create", "page")>>
           last == <<RegistryOperation, Canonical("create", "tests")>>
<1>1. /\ Canonical("create", "logic") \in Written /\ Canonical("create", "actions") \in Written
      /\ Canonical("create", "manifest") \in Written /\ Canonical("create", "page") \in Written
      /\ RegistryOperation \in Written /\ Canonical("create", "tests") \in Written
  OBVIOUS
<1> HIDE DEF Written
<1>2. SliceOperations \in Seq(Written) /\ page \in Seq(Written) /\ last \in Seq(Written)
  <2>1. SliceOperations \in Seq(Written)
    BY <1>1 DEF SliceOperations
  <2>2. page \in Seq(Written)
    <3>1. CASE placing.kind = "integrate"
      BY <3>1
    <3>2. CASE placing.kind # "integrate"
      BY <1>1, <3>2
    <3> QED
      BY <3>1, <3>2
  <2>3. last \in Seq(Written)
    BY <1>1
  <2> QED
    BY <2>1, <2>2, <2>3
<1>3. FallbackOperations = SliceOperations \o page \o last
  BY DEF FallbackOperations
<1> HIDE DEF page, last
<1>4. FallbackOperations \in Seq(Written)
  BY <1>2, <1>3, ConcatProperties
<1> QED
  BY <1>4, LenProperties

\* every step keeps the invariant
LEMMA PlanStep == ASSUME PlanAssumption, PlanInv, [PlanNext]_planVars PROVE PlanInv'
<1>0. DOMAIN plan \subseteq Nat \ {0} /\ Untouched /\ StillDue
  BY DEF PlanInv
<1>1. CASE Analyze
  BY <1>0, <1>1 DEF Analyze, PlanInv, Untouched, StillDue
<1>2. CASE AgentPlans
  <2>1. DOMAIN plan' \subseteq Nat \ {0}
    BY <1>2, AgentPlanPositions
  <2>2. planning = "analyzed" /\ planning' = "planned" /\ UNCHANGED <<files, listed>>
    BY <1>2 DEF AgentPlans
  <2> QED
    BY <1>0, <2>1, <2>2 DEF PlanInv, Untouched, StillDue
<1>3. CASE AgentGivesNothing
  <2>1. DOMAIN plan' \subseteq Nat \ {0}
    BY <1>3, FallbackPositions DEF AgentGivesNothing
  <2>2. planning = "analyzed" /\ planning' = "planned" /\ UNCHANGED <<files, listed>>
    BY <1>3 DEF AgentGivesNothing
  <2> QED
    BY <1>0, <2>1, <2>2 DEF PlanInv, Untouched, StillDue
<1>4. CASE AgentFails
  BY <1>0, <1>4 DEF AgentFails, PlanInv, Untouched, StillDue
<1>5. CASE SavePlan
  <2>1. planning = "planned" /\ planning' = "saved" /\ left' = DOMAIN plan /\ UNCHANGED <<files, listed, plan>>
    BY <1>5 DEF SavePlan
  <2> QED
    BY <1>0, <2>1 DEF PlanInv, Untouched, StillDue
<1>6. ASSUME NEW i \in left, CarryOut(i) PROVE PlanInv'
  <2>1. planning = "saved" /\ left' = left \ {i} /\ UNCHANGED <<planning, listed, plan>>
    BY <1>6 DEF CarryOut
  <2>2. Untouched' /\ DOMAIN plan' \subseteq Nat \ {0} /\ left' \subseteq DOMAIN plan' /\ left \subseteq DOMAIN plan
    BY <1>0, <2>1 DEF Untouched, StillDue
  <2>3. Violations' = Violations
    BY <2>1 DEF Violations, Kept
  <2>4. ASSUME Violations = {}
        PROVE  Protected \subseteq files' /\ \A j \in left' : plan[j].file \in files' <=> plan[j].file \in listed
    <3>1. Protected \subseteq files /\ \A j \in left : plan[j].file \in files <=> plan[j].file \in listed
      BY <1>0, <2>1, <2>4 DEF StillDue
    <3>2. \A file : file # plan[i].file => (file \in files' <=> file \in files)
      BY <1>6 DEF CarryOut
    <3>3. \A j \in left' : plan[j].file # plan[i].file
      BY <1>0, <2>1, <2>2, <2>4, OneOperationPerFile
    <3>4. plan[i].action = "delete" => plan[i].file \notin Protected
      BY <2>2, <2>4 DEF Violations
    <3>5. files' = files \ {plan[i].file} => plan[i].action = "delete" \/ files' = files
      BY <1>6 DEF CarryOut
    <3>6. Protected \subseteq files'
      BY <1>6, <3>1, <3>4 DEF CarryOut
    <3> QED
      BY <2>1, <3>1, <3>2, <3>3, <3>6
  <2> QED
    BY <2>1, <2>2, <2>3, <2>4 DEF PlanInv, StillDue
<1>7. CASE BuildEnds
  BY <1>0, <1>7 DEF BuildEnds, PlanInv, Untouched, StillDue
<1>8. CASE BuildBreaks
  BY <1>0, <1>8 DEF BuildBreaks, PlanInv, Untouched, StillDue
<1>9. CASE UNCHANGED planVars
  BY <1>0, <1>9 DEF planVars, PlanInv, Untouched, StillDue, Violations, Kept
<1> QED
  BY <1>1, <1>2, <1>3, <1>4, <1>5, <1>6, <1>7, <1>8, <1>9 DEF PlanNext

(***************************************************************************)
(* A plan without violations, of any length and over any files, can be     *)
(* carried out in any order, and what is protected stays.                  *)
(***************************************************************************)
THEOREM ValidPlanAppliesHolds == ASSUME PlanAssumption PROVE PlanSpec => []ValidPlanApplies
<1>1. PlanInit => PlanInv
  BY DEF PlanInit, PlanInv, Untouched, StillDue
<1>2. PlanInv /\ [PlanNext]_planVars => PlanInv'
  BY PlanStep
<1>3. PlanInv => ValidPlanApplies
  BY DEF PlanInv, StillDue, ValidPlanApplies, Violations, Applicable
<1> QED
  BY <1>1, <1>2, <1>3, PTL DEF PlanSpec

-----------------------------------------------------------------------------
(***************************************************************************)
(* The report of an evaluation: no two items have the same key.            *)
(***************************************************************************)
(***************************************************************************)
(* An evaluation: what is still to be corrected and what was corrected are *)
(* of different artifacts, at most one each; its items have their own key. *)
(***************************************************************************)
\* an evaluation's fields; sets with one element of each artifact or key
Fields == {"stage", "arts", "todo", "acts", "items", "result"}
OnePerArtifact(S) == \A x, y \in S : x.id = y.id => x = y
OnePerKey(items) == \A x, y \in items : x.id = y.id /\ x.display = y.display => x = y
TaskInv(t) ==
  /\ DOMAIN t = Fields
  /\ t.stage \in {"fetch", "detect"} => t.acts = {}
  /\ OnePerArtifact(t.todo) /\ OnePerArtifact(t.acts)
  /\ \A x \in t.acts, d \in t.todo : x.id # d.id
  /\ OnePerKey(t.items)
ReportInv == DOMAIN task = ReportPhases /\ \A p \in ReportPhases : TaskInv(task[p])

\* only the evaluation of p moves
LEMMA TaskMoves ==
  ASSUME ReportInv, NEW p \in ReportPhases, NEW t, Set(p, t), TaskInv(t) PROVE ReportInv'
<1>1. DOMAIN task' = ReportPhases /\ \A q \in ReportPhases : task'[q] = IF q = p THEN t ELSE task[q]
  BY DEF Set, ReportInv
<1>2. ASSUME NEW q \in ReportPhases PROVE TaskInv(task'[q])
  BY <1>1 DEF ReportInv
<1>3. ASSUME NEW q \in ReportPhases PROVE TaskInv(task[q])'
  BY <1>2 DEF TaskInv, OnePerArtifact, OnePerKey
<1> QED
  BY <1>1, <1>3 DEF ReportInv

\* an evaluation that is done
LEMMA DoneMoves ==
  ASSUME ReportInv, NEW p \in ReportPhases, NEW r, NEW items, Done(p, r, items), OnePerKey(items) PROVE ReportInv'
<1> DEFINE t == [Unanalysed EXCEPT !.stage = "done", !.result = r, !.items = items]
<1>1. DOMAIN t = Fields /\ t.stage = "done" /\ t.todo = {} /\ t.acts = {} /\ t.items = items
  BY DEF Unanalysed, Fields
<1>3. TaskInv(t)
  BY <1>1 DEF TaskInv, OnePerArtifact
<1>4. Set(p, t)
  BY DEF Done
<1> HIDE DEF t
<1> QED
  BY <1>4, <1>3, TaskMoves

\* _parse_detection keeps the first valid action of an artifact
LEMMA DetectionsOnePerArtifact ==
  ASSUME NEW raw \in Raw, NEW arts PROVE OnePerArtifact(Detections(raw, arts))
<1>1. PICK n \in 0 .. MaxRaw : raw \in [1 .. n -> [id : ReportFeatures \cup {Stranger}, verb : Verbs \cup {"other"}]]
  BY DEF Raw
<1>2. DOMAIN raw = 1 .. n
  BY <1>1
<1> DEFINE first(j) == Valid(raw[j], arts) /\ \A k \in 1 .. j - 1 : Valid(raw[k], arts) => raw[k].id # raw[j].id
<1>3. ASSUME NEW i \in 1 .. n, NEW j \in 1 .. n, first(i), first(j), raw[i].id = raw[j].id PROVE i = j
  <2>1. i < j => i \in 1 .. j - 1
    OBVIOUS
  <2>2. j < i => j \in 1 .. i - 1
    OBVIOUS
  <2> QED
    BY <1>3, <2>1, <2>2
<1>4. \A x \in Detections(raw, arts) : \E i \in 1 .. n : x = raw[i] /\ first(i)
  BY <1>2 DEF Detections
<1> HIDE DEF first
<1> QED
  BY <1>3, <1>4 DEF OnePerArtifact

\* a correction is of the artifact that was detected
LEMMA CorrectionsOfArtifact ==
  ASSUME NEW p, NEW d, NEW x \in Corrections(p, d) PROVE x.id = d.id
<1>1. ASSUME NEW f, NEW full, NEW B, NEW A, NEW y \in Actions(d, f, full, B, A) PROVE y.id = d.id
  BY DEF Actions
<1> QED
  BY <1>1, Zenon DEF Corrections

\* the items of an action are of its artifact, and no two have the same display id
LEMMA ItemsOfOne ==
  ASSUME NEW p, NEW x, NEW like
  PROVE  OnePerKey(ItemsOf(p, x, like)) /\ \A i \in ItemsOf(p, x, like) : i.id = x.id
<1>1. ASSUME NEW r, NEW verb PROVE Item(x.id, r, verb).id = x.id /\ Item(x.id, r, verb).display = r
  BY DEF Item
<1>2. ASSUME NEW current, NEW alike
      PROVE  /\ OnePerKey(ItemsOfRequirements(x, current, alike))
             /\ \A i \in ItemsOfRequirements(x, current, alike) : i.id = x.id
  BY DEF ItemsOfRequirements, OnePerKey, Item
<1>3. ItemsOf(p, x, like) = {} \/ (\E current, alike : ItemsOf(p, x, like) = ItemsOfRequirements(x, current, alike))
      \/ ItemsOf(p, x, like) = {Item(x.id, None, x.verb)}
  BY DEF ItemsOf
<1>4. OnePerKey({}) /\ OnePerKey({Item(x.id, None, x.verb)})
  BY DEF OnePerKey
<1> QED
  BY <1>1, <1>2, <1>3, <1>4

\* every step keeps the invariant
LEMMA ReportMoves == ASSUME ReportInv, [ReportNext]_reportVars PROVE ReportInv'
<1>0. DOMAIN task = ReportPhases /\ \A p \in ReportPhases : TaskInv(task[p])
  BY DEF ReportInv
<1>1. ASSUME task' = task PROVE ReportInv'
  <2>1. ASSUME NEW p \in ReportPhases PROVE TaskInv(task[p])'
    BY <1>0, <1>1 DEF TaskInv, OnePerArtifact, OnePerKey
  <2> QED
    BY <1>0, <1>1, <2>1 DEF ReportInv
<1>2. ASSUME NEW p \in ReportPhases, Fetch(p) PROVE ReportInv'
  <2>1. TaskInv(task[p]) /\ task[p].stage = "fetch" /\ task[p].acts = {}
    BY <1>0, <1>2 DEF Fetch, IsAt, TaskInv
  <2>2. CASE \E M \in SUBSET ReportFeatures :
               Set(p, [task[p] EXCEPT !.stage = "detect", !.arts = Prefiltered(has[p], M)])
    <3>1. PICK M \in SUBSET ReportFeatures : Set(p, [task[p] EXCEPT !.stage = "detect", !.arts = Prefiltered(has[p], M)])
      BY <2>2
    <3> DEFINE t == [task[p] EXCEPT !.stage = "detect", !.arts = Prefiltered(has[p], M)]
    <3>2. DOMAIN t = Fields /\ t.todo = task[p].todo /\ t.acts = task[p].acts /\ t.items = task[p].items
      BY <2>1 DEF TaskInv, Fields
    <3>3. TaskInv(t)
      BY <2>1, <3>2 DEF TaskInv
    <3>4. Set(p, t)
      BY <3>1
    <3> HIDE DEF t
    <3> QED
      BY <3>3, <3>4, TaskMoves
  <2>3. CASE Done(p, "no_impact", {})
    BY <2>3, DoneMoves DEF OnePerKey
  <2> QED
    BY <1>2, <2>2, <2>3 DEF Fetch
<1>3. ASSUME NEW p \in ReportPhases, Detect(p) PROVE ReportInv'
  <2>1. TaskInv(task[p]) /\ task[p].stage = "detect" /\ task[p].acts = {}
    BY <1>0, <1>3 DEF Detect, IsAt, TaskInv
  <2>2. CASE Done(p, "failed", {})
    BY <2>2, DoneMoves DEF OnePerKey
  <2>3. CASE \E raw \in Raw : Set(p, [task[p] EXCEPT !.stage = "correct", !.todo = Detections(raw, task[p].arts)])
    <3>1. PICK raw \in Raw : Set(p, [task[p] EXCEPT !.stage = "correct", !.todo = Detections(raw, task[p].arts)])
      BY <2>3
    <3> DEFINE t == [task[p] EXCEPT !.stage = "correct", !.todo = Detections(raw, task[p].arts)]
    <3>2. /\ DOMAIN t = Fields /\ t.todo = Detections(raw, task[p].arts) /\ t.acts = task[p].acts
          /\ t.items = task[p].items
      BY <2>1 DEF TaskInv, Fields
    <3>3. OnePerArtifact(Detections(raw, task[p].arts))
      BY DetectionsOnePerArtifact
    <3>4. TaskInv(t)
      BY <2>1, <3>2, <3>3 DEF TaskInv
    <3>5. Set(p, t)
      BY <3>1
    <3> HIDE DEF t
    <3> QED
      BY <3>4, <3>5, TaskMoves
  <2> QED
    BY <1>3, <2>2, <2>3 DEF Detect
<1>4. ASSUME NEW p \in ReportPhases, Correct(p) PROVE ReportInv'
  <2>1. TaskInv(task[p]) /\ task[p].stage = "correct"
    BY <1>0, <1>4 DEF Correct, IsAt
  <2>2. PICK d \in task[p].todo : \E A \in {{x} : x \in Corrections(p, d)} \cup {{}} :
          Set(p, [task[p] EXCEPT !.todo = @ \ {d}, !.acts = @ \cup A])
    BY <1>4 DEF Correct
  <2>3. PICK A \in {{x} : x \in Corrections(p, d)} \cup {{}} :
          Set(p, [task[p] EXCEPT !.todo = @ \ {d}, !.acts = @ \cup A])
    BY <2>2
  <2>4. \A x \in A : x.id = d.id /\ A = {x}
    BY CorrectionsOfArtifact
  <2> DEFINE t == [task[p] EXCEPT !.todo = @ \ {d}, !.acts = @ \cup A]
  <2>5. /\ DOMAIN t = Fields /\ t.stage = "correct" /\ t.todo = task[p].todo \ {d} /\ t.acts = task[p].acts \cup A
        /\ t.items = task[p].items
    BY <2>1 DEF TaskInv, Fields
  <2>6. OnePerArtifact(task[p].todo \ {d})
    BY <2>1 DEF TaskInv, OnePerArtifact
  \* what was detected once is corrected once
  <2>7. OnePerArtifact(task[p].acts \cup A)
    BY <2>1, <2>4 DEF TaskInv, OnePerArtifact
  <2>8. \A x \in task[p].acts \cup A, e \in task[p].todo \ {d} : x.id # e.id
    BY <2>1, <2>4 DEF TaskInv, OnePerArtifact
  <2>9. OnePerKey(task[p].items)
    BY <2>1 DEF TaskInv
  <2>10. TaskInv(t)
    BY <2>5, <2>6, <2>7, <2>8, <2>9 DEF TaskInv
  <2>11. Set(p, t)
    BY <2>3
  <2> HIDE DEF t
  <2> QED
    BY <2>10, <2>11, TaskMoves
<1>5. ASSUME NEW p \in ReportPhases, Enrich(p) PROVE ReportInv'
  <2>1. OnePerArtifact(task[p].acts)
    BY <1>0 DEF TaskInv
  <2>2. ASSUME NEW like, Done(p, "done", UNION {ItemsOf(p, x, like) : x \in task[p].acts}) PROVE ReportInv'
    <3> DEFINE items == UNION {ItemsOf(p, x, like) : x \in task[p].acts}
    <3>1. ASSUME NEW i \in items, NEW j \in items, i.id = j.id, i.display = j.display PROVE i = j
      <4>1. PICK x \in task[p].acts : i \in ItemsOf(p, x, like)
        OBVIOUS
      <4>2. PICK y \in task[p].acts : j \in ItemsOf(p, y, like)
        OBVIOUS
      <4>3. x = y
        <5>1. i.id = x.id /\ j.id = y.id
          BY <4>1, <4>2, ItemsOfOne
        <5> QED
          BY <2>1, <3>1, <5>1 DEF OnePerArtifact
      <4> HIDE DEF items
      <4>4. OnePerKey(ItemsOf(p, x, like))
        BY ItemsOfOne
      <4> QED
        BY <3>1, <4>1, <4>2, <4>3, <4>4 DEF OnePerKey
    <3>2. OnePerKey(items)
      BY <3>1 DEF OnePerKey
    <3>3. Done(p, "done", items)
      BY <2>2
    <3> HIDE DEF items
    <3> QED
      BY <3>2, <3>3, DoneMoves
  <2>3. ASSUME NEW r, Done(p, r, {}) PROVE ReportInv'
    BY <2>3, DoneMoves DEF OnePerKey
  <2> QED
    BY <1>5, <2>2, <2>3 DEF Enrich
<1>6. ASSUME \/ Announce \/ Results \/ GiveAnswer
             \/ \E f \in ReportFeatures : DeleteFeature(f) \/ EditRequirements(f)
             \/ UNCHANGED reportVars
      PROVE  task' = task
  BY <1>6 DEF Announce, Results, GiveAnswer, DeleteFeature, EditRequirements, reportVars
<1> QED
  BY <1>1, <1>2, <1>3, <1>4, <1>5, <1>6 DEF ReportNext, ReportStep

(***************************************************************************)
(* Whatever the model answers and whatever is deleted or edited meanwhile, *)
(* two suggestions of an evaluation never share the key of their row: for  *)
(* any features, requirements and phases, and answers of any length.       *)
(***************************************************************************)
THEOREM OneItemPerKeyHolds == ReportSpec => []OneItemPerKey
<1>1. ASSUME ReportInit PROVE ReportInv
  <2>1. DOMAIN Unanalysed = Fields /\ Unanalysed.todo = {} /\ Unanalysed.acts = {} /\ Unanalysed.items = {}
    BY DEF Unanalysed, Fields
  <2>2. TaskInv(Unanalysed)
    BY <2>1 DEF TaskInv, OnePerArtifact, OnePerKey
  <2> QED
    BY <1>1, <2>2 DEF ReportInit, ReportInv
<1>2. ReportInv /\ [ReportNext]_reportVars => ReportInv'
  BY ReportMoves
<1>3. ReportInv => OneItemPerKey
  BY DEF ReportInv, TaskInv, OnePerKey, OneItemPerKey
<1> QED
  BY <1>1, <1>2, <1>3, PTL DEF ReportSpec

-----------------------------------------------------------------------------
(***************************************************************************)
(* The parsers of the validation: problems are told under their file and   *)
(* with their message.                                                     *)
(***************************************************************************)
(***************************************************************************)
(* What a parser carries from line to line is what a reader would find by  *)
(* looking back: the last heading of a lint output, and the last message   *)
(* of a test's if no place has used it.                                    *)
(***************************************************************************)
\* the steps whose output is parsed, and what is reported of it
Steps4 == {"typecheck", "lint", "tests", "build"}
ProblemType == [file : OutputFiles \cup {NoFile}, at : Nat, said : Nat]
OutputTypeOK ==
  /\ step \in Steps4 /\ output \in Seq(Lines(step)) /\ cursor \in 0 .. Len(output)
  /\ currentFile \in OutputFiles \cup {NoFile} /\ currentError \in Nat
  /\ problems \in Seq(ProblemType)
HeadingPart ==
  step = "lint" =>
    LET h == LastAbove({"heading"}, cursor + 1)
    IN  \/ h = 0 /\ currentFile = NoFile
        \/ h \in Nat \ {0} /\ currentFile = output[h].file /\ currentFile \in OutputFiles
MessagePart ==
  step = "tests" =>
    LET last == LastAbove({"message", "place"}, cursor + 1)
    IN  last \in Nat /\ currentError = IF last > 0 /\ output[last].kind = "message" THEN last ELSE 0
ProblemsPart ==
  /\ \A j \in 1 .. Len(problems) : problems[j].at \in 1 .. cursor /\ Belongs(problems[j])
  /\ \A i \in 1 .. cursor : Complaint(i) => \E j \in 1 .. Len(problems) : problems[j].at = i
OutputInv == OutputTypeOK /\ HeadingPart /\ MessagePart /\ ProblemsPart

\* looking back from the next line
LEMMA LastAboveNext ==
  ASSUME NEW kinds, NEW i \in Nat \ {0}
  PROVE  LastAbove(kinds, i + 1) = IF output[i].kind \in kinds THEN i ELSE LastAbove(kinds, i)
<1> DEFINE above == {j \in 1..(i + 1) - 1 : output[j].kind \in kinds}
<1>0. (i + 1) - 1 = i
  OBVIOUS
<1>1. CASE output[i].kind \in kinds
  <2>1. i \in above /\ \A k \in above : k <= i
    BY <1>0, <1>1
  <2>2. \A j \in above : (\A k \in above : k <= j) => j = i
    BY <2>1
  <2>3. (CHOOSE j \in above : \A k \in above : k <= j) = i
    <3> HIDE DEF above
    <3> QED
      BY <2>1, <2>2
  <2> QED
    BY <1>1, <2>1, <2>3 DEF LastAbove
<1>2. CASE output[i].kind \notin kinds
  <2> DEFINE before == {j \in 1..i - 1 : output[j].kind \in kinds}
  <2>1. above = before
    BY <1>0, <1>2
  <2>2. LastAbove(kinds, i + 1) = IF above = {} THEN 0 ELSE CHOOSE j \in above : \A k \in above : k <= j
    BY DEF LastAbove
  <2>3. LastAbove(kinds, i) = IF before = {} THEN 0 ELSE CHOOSE j \in before : \A k \in before : k <= j
    BY DEF LastAbove
  <2> HIDE DEF above, before
  <2> QED
    BY <1>2, <2>1, <2>2, <2>3
<1> QED
  BY <1>1, <1>2

\* the next line is one of the step's
LEMMA NextLineType ==
  ASSUME OutputInv, cursor < Len(output)
  PROVE  /\ NextLine \in Lines(step) /\ NextLine.file \in OutputFiles \cup {NoFile}
         /\ NextLine.kind \in {"heading", "compact", "place"} => NextLine.file \in OutputFiles
         /\ cursor \in Nat /\ cursor + 1 \in 1 .. Len(output) /\ Len(output) \in Nat
<1>1. output \in Seq(Lines(step)) /\ cursor \in Nat /\ Len(output) \in Nat
  BY DEF OutputInv, OutputTypeOK
<1>2. cursor + 1 \in 1 .. Len(output)
  BY <1>1
<1>3. NextLine \in Lines(step)
  BY <1>1, <1>2, ElementOfSeq DEF NextLine
<1>4. step \in Steps4
  BY DEF OutputInv, OutputTypeOK
<1>5. NextLine = Line("other") \/ NextLine = Line("problem") \/ NextLine = Line("missing") \/ NextLine = Line("message")
      \/ NextLine \in LinesOf("problem") \/ NextLine \in LinesOf("missing") \/ NextLine \in LinesOf("heading")
      \/ NextLine \in LinesOf("compact") \/ NextLine \in LinesOf("place")
  BY <1>3, <1>4 DEF Lines, Steps4
<1> QED
  BY <1>1, <1>2, <1>3, <1>5 DEF Line, LinesOf

\* a step of a parser: it reads n lines, and the complaints among them are its problem
LEMMA Reads1 ==
  ASSUME OutputAssumption, OutputInv, NEW n \in {1, 2}, Reading(n), cursor' <= Len(output), cursor < Len(output),
         currentFile' \in OutputFiles \cup {NoFile}, currentError' \in Nat,
         \/ /\ problems' = problems
            /\ \A i \in cursor + 1 .. cursor + n : ~Complaint(i)
         \/ \E p \in ProblemType : /\ Found(p) /\ p.at = cursor + 1 /\ Belongs(p)
                                   /\ \A i \in cursor + 2 .. cursor + n : ~Complaint(i)
  PROVE  OutputTypeOK' /\ ProblemsPart'
<1>0. /\ UNCHANGED <<step, output>> /\ cursor' = cursor + n /\ cursor \in Nat /\ Len(output) \in Nat
      /\ problems \in Seq(ProblemType) /\ ProblemsPart
  BY DEF OutputInv, OutputTypeOK, Reading
<1>1. ASSUME NEW p PROVE Belongs(p)' <=> Belongs(p)
  BY <1>0 DEF Belongs, LastAbove
<1>2. ASSUME NEW i PROVE Complaint(i)' <=> Complaint(i)
  BY <1>0 DEF Complaint, LastAbove
<1>3. \A i \in 1 .. cursor' : i \in 1 .. cursor \/ i = cursor + 1 \/ i \in cursor + 2 .. cursor + n
  BY <1>0
<1>4. CASE problems' = problems /\ \A i \in cursor + 1 .. cursor + n : ~Complaint(i)
  <2>1. \A i \in 1 .. cursor' : i \in 1 .. cursor \/ i \in cursor + 1 .. cursor + n
    BY <1>0
  <2>2. OutputTypeOK'
    BY <1>0, <1>4 DEF OutputInv, OutputTypeOK
  <2>3. \A j \in 1 .. Len(problems) : problems[j].at \in 1 .. cursor'
    BY <1>0 DEF ProblemsPart
  <2>4. ProblemsPart'
    BY <1>0, <1>1, <1>2, <1>4, <2>1, <2>3 DEF ProblemsPart
  <2> QED
    BY <2>2, <2>4
<1>5. ASSUME NEW p \in ProblemType, Found(p), p.at = cursor + 1, Belongs(p),
             \A i \in cursor + 2 .. cursor + n : ~Complaint(i)
      PROVE  OutputTypeOK' /\ ProblemsPart'
  <2> DEFINE m == Len(problems)
  <2>1. m \in Nat
    BY <1>0, LenProperties
  <2>2. /\ problems' \in Seq(ProblemType) /\ Len(problems') = m + 1 /\ problems'[m + 1] = p
        /\ \A j \in 1 .. m : problems'[j] = problems[j]
    <3> HIDE DEF ProblemType
    <3> QED
      BY <1>0, <1>5, AppendProperties DEF Found
  <2> HIDE DEF m
  <2>3. OutputTypeOK'
    BY <1>0, <2>2 DEF OutputInv, OutputTypeOK
  <2>4. ASSUME NEW j \in 1 .. m + 1 PROVE problems'[j].at \in 1 .. cursor' /\ Belongs(problems'[j])
    <3>1. CASE j = m + 1
      BY <1>0, <1>5, <2>2, <3>1
    <3>2. CASE j # m + 1
      <4>1. j \in 1 .. m
        BY <2>1, <3>2
      <4>2. problems[j].at \in 1 .. cursor /\ Belongs(problems[j])
        BY <1>0, <4>1 DEF ProblemsPart, m
      <4> QED
        BY <1>0, <2>2, <4>1, <4>2
    <3> QED
      BY <3>1, <3>2
  <2>5. ASSUME NEW i \in 1 .. cursor', Complaint(i) PROVE \E j \in 1 .. m + 1 : problems'[j].at = i
    <3>1. CASE i \in 1 .. cursor
      <4>1. PICK j \in 1 .. m : problems[j].at = i
        BY <1>0, <2>5, <3>1 DEF ProblemsPart, m
      <4> QED
        BY <2>1, <2>2, <4>1
    <3>2. CASE i = cursor + 1
      <4>1. m + 1 \in 1 .. m + 1
        BY <2>1
      <4> QED
        BY <1>5, <2>2, <3>2, <4>1
    <3> QED
      BY <1>3, <1>5, <2>5, <3>1, <3>2
  <2>6. ProblemsPart'
    BY <1>1, <1>2, <2>2, <2>4, <2>5 DEF ProblemsPart
  <2> QED
    BY <2>3, <2>6
<1> QED
  BY <1>4, <1>5

\* nothing changes for what a parser looks back to when the line is not of its kinds
LEMMA StaysBehind ==
  ASSUME OutputInv, Reading(1), cursor < Len(output), NEW kinds
  PROVE  LastAbove(kinds, cursor + 1)' = IF NextLine.kind \in kinds THEN cursor + 1 ELSE LastAbove(kinds, cursor + 1)
<1>1. cursor + 1 \in Nat \ {0} /\ cursor' = cursor + 1 /\ output' = output
  BY DEF OutputInv, OutputTypeOK, Reading
<1>2. LastAbove(kinds, cursor + 1)' = LastAbove(kinds, (cursor + 1) + 1)
  BY <1>1 DEF LastAbove
<1> QED
  BY <1>1, <1>2, LastAboveNext DEF NextLine

\* every step of a parser keeps the invariant
LEMMA OutputStep ==
  ASSUME OutputAssumption, OutputInv, [OutputNext]_outputVars PROVE OutputInv'
<1>0. /\ step \in Steps4 /\ output \in Seq(Lines(step)) /\ cursor \in Nat /\ Len(output) \in Nat
      /\ currentFile \in OutputFiles \cup {NoFile} /\ currentError \in Nat
      /\ HeadingPart /\ MessagePart /\ ProblemsPart
  BY DEF OutputInv, OutputTypeOK
\* one line is read, which is a problem or is not
<1>1. ASSUME cursor < Len(output), Reading(1), currentFile' \in OutputFiles \cup {NoFile}, currentError' \in Nat,
             \/ problems' = problems /\ ~Complaint(cursor + 1)
             \/ \E p \in ProblemType : Found(p) /\ p.at = cursor + 1 /\ Belongs(p)
      PROVE  OutputTypeOK' /\ ProblemsPart'
  <2>1. cursor' <= Len(output) /\ cursor + 2 \notin cursor + 2 .. cursor + 1 /\ cursor + 2 .. cursor + 1 = {}
        /\ cursor + 1 .. cursor + 1 = {cursor + 1} /\ 1 \in {1, 2}
    BY <1>0, <1>1 DEF Reading
  <2> QED
    BY <1>1, <2>1, Reads1
<1>2. ASSUME ReadOther PROVE OutputInv'
  <2>1. cursor < Len(output) /\ NextLine.kind = "other" /\ Reading(1) /\ UNCHANGED <<currentFile, currentError, problems>>
    BY <1>2 DEF ReadOther
  <2>2. ~Complaint(cursor + 1)
    BY <2>1 DEF Complaint, NextLine
  <2>3. OutputTypeOK' /\ ProblemsPart'
    BY <1>0, <1>1, <2>1, <2>2
  <2>4. \A kinds : "other" \notin kinds => LastAbove(kinds, cursor + 1)' = LastAbove(kinds, cursor + 1)
    BY <2>1, StaysBehind
  <2>5. HeadingPart'
    BY <1>0, <2>1, <2>4 DEF HeadingPart, Reading
  <2>6. MessagePart'
    BY <1>0, <2>1, <2>4 DEF MessagePart, Reading
  <2> QED
    BY <2>3, <2>5, <2>6 DEF OutputInv
\* a problem found in the line that is read
<1>3. ASSUME cursor < Len(output), NEW file \in OutputFiles \cup {NoFile}, NEW said \in Nat
      PROVE  /\ Problem(file, cursor + 1, said) \in ProblemType
             /\ Problem(file, cursor + 1, said).at = cursor + 1
             /\ Problem(file, cursor + 1, said).file = file
             /\ Problem(file, cursor + 1, said).said = said
  BY <1>0 DEF Problem, ProblemType
<1>4. ASSUME ReadTypecheck PROVE OutputInv'
  <2> DEFINE p == Problem(NextLine.file, cursor + 1, cursor + 1)
  <2>1. step = "typecheck" /\ cursor < Len(output) /\ Found(p) /\ Reading(1) /\ UNCHANGED <<currentFile, currentError>>
    BY <1>4 DEF ReadTypecheck, Reads
  <2>2. p \in ProblemType /\ p.at = cursor + 1 /\ p.file = NextLine.file
    BY <1>0, <1>3, <2>1, NextLineType
  <2>3. Belongs(p)
    BY <2>1, <2>2 DEF Belongs, NextLine
  <2> HIDE DEF p
  <2>4. OutputTypeOK' /\ ProblemsPart'
    BY <1>0, <1>1, <2>1, <2>2, <2>3
  <2> QED
    BY <2>1, <2>4 DEF OutputInv, HeadingPart, MessagePart, Reading
<1>5. ASSUME ReadLintHeading PROVE OutputInv'
  <2>1. /\ step = "lint" /\ cursor < Len(output) /\ NextLine.kind = "heading" /\ Reading(1)
        /\ currentFile' = NextLine.file /\ UNCHANGED <<currentError, problems>>
    BY <1>5 DEF ReadLintHeading, Reads
  <2>2. ~Complaint(cursor + 1)
    BY <2>1 DEF Complaint, NextLine
  <2>3. NextLine.file \in OutputFiles
    BY <2>1, NextLineType
  <2>4. OutputTypeOK' /\ ProblemsPart'
    BY <1>0, <1>1, <2>1, <2>2, <2>3
  <2>5. LastAbove({"heading"}, cursor + 1)' = cursor + 1
    BY <2>1, StaysBehind
  <2>6. HeadingPart'
    BY <1>0, <2>1, <2>3, <2>5 DEF HeadingPart, Reading, NextLine
  <2> QED
    BY <2>1, <2>4, <2>6 DEF OutputInv, MessagePart, Reading
\* a line under a heading leaves the heading
<1>6. ASSUME step = "lint", cursor < Len(output), NextLine.kind # "heading", Reading(1), currentFile' = currentFile
      PROVE  HeadingPart' /\ MessagePart'
  <2>1. LastAbove({"heading"}, cursor + 1)' = LastAbove({"heading"}, cursor + 1)
    BY <1>6, StaysBehind
  <2>2. UNCHANGED <<step, output>>
    BY <1>6 DEF Reading
  <2> QED
    BY <1>0, <1>6, <2>1, <2>2 DEF HeadingPart, MessagePart
<1>7. ASSUME ReadLintProblem PROVE OutputInv'
  <2>1. /\ step = "lint" /\ cursor < Len(output) /\ NextLine.kind = "problem" /\ Reading(1)
        /\ UNCHANGED <<currentFile, currentError>>
    BY <1>7 DEF ReadLintProblem, Reads
  <2>2. OutputTypeOK' /\ ProblemsPart'
    <3>1. CASE currentFile # NoFile
      <4> DEFINE p == Problem(currentFile, cursor + 1, cursor + 1)
      <4>1. Found(p)
        BY <1>7, <3>1 DEF ReadLintProblem
      <4>2. p \in ProblemType /\ p.at = cursor + 1 /\ p.file = currentFile
        BY <1>0, <1>3, <2>1
      <4> HIDE DEF p
      <4>3. LastAbove({"heading"}, cursor + 1) > 0 /\ currentFile = output[LastAbove({"heading"}, cursor + 1)].file
        BY <1>0, <2>1, <3>1 DEF HeadingPart
      <4>4. Belongs(p)
        BY <2>1, <4>2, <4>3 DEF Belongs, NextLine
      <4> QED
        BY <1>0, <1>1, <2>1, <4>1, <4>2, <4>4
    <3>2. CASE currentFile = NoFile
      <4>1. LastAbove({"heading"}, cursor + 1) = 0
        BY <1>0, <2>1, <3>2 DEF HeadingPart, OutputAssumption
      <4>2. ~Complaint(cursor + 1)
        BY <2>1, <4>1 DEF Complaint, NextLine
      <4>3. problems' = problems
        BY <1>7, <3>2 DEF ReadLintProblem
      <4> QED
        BY <1>0, <1>1, <2>1, <4>2, <4>3
    <3> QED
      BY <3>1, <3>2
  <2> QED
    BY <1>6, <2>1, <2>2 DEF OutputInv
<1>8. ASSUME ReadLintCompact PROVE OutputInv'
  <2> DEFINE p == Problem(NextLine.file, cursor + 1, cursor + 1)
  <2>1. /\ step = "lint" /\ cursor < Len(output) /\ NextLine.kind = "compact" /\ Found(p) /\ Reading(1)
        /\ UNCHANGED <<currentFile, currentError>>
    BY <1>8 DEF ReadLintCompact, Reads
  <2>2. p \in ProblemType /\ p.at = cursor + 1 /\ p.file = NextLine.file
    BY <1>0, <1>3, <2>1, NextLineType
  <2>3. Belongs(p)
    BY <2>1, <2>2 DEF Belongs, NextLine
  <2> HIDE DEF p
  <2>4. OutputTypeOK' /\ ProblemsPart'
    BY <1>0, <1>1, <2>1, <2>2, <2>3
  <2> QED
    BY <1>6, <2>1, <2>4 DEF OutputInv
<1>9. ASSUME ReadFail PROVE OutputInv'
  <2>1. /\ step = "tests" /\ cursor < Len(output) /\ NextLine.kind = "heading" /\ Reading(1)
        /\ currentFile' = NextLine.file /\ UNCHANGED <<currentError, problems>>
    BY <1>9 DEF ReadFail, Reads
  <2>2. ~Complaint(cursor + 1)
    BY <2>1 DEF Complaint, NextLine
  <2>3. OutputTypeOK' /\ ProblemsPart'
    BY <1>0, <1>1, <2>1, <2>2, NextLineType
  <2>4. LastAbove({"message", "place"}, cursor + 1)' = LastAbove({"message", "place"}, cursor + 1)
    BY <2>1, StaysBehind
  <2>5. MessagePart'
    BY <1>0, <2>1, <2>4 DEF MessagePart, Reading
  <2> QED
    BY <2>1, <2>3, <2>5 DEF OutputInv, HeadingPart, Reading
<1>10. ASSUME ReadMessage PROVE OutputInv'
  <2>1. /\ step = "tests" /\ cursor < Len(output) /\ NextLine.kind = "message" /\ Reading(1)
        /\ currentError' = cursor + 1 /\ UNCHANGED <<currentFile, problems>>
    BY <1>10 DEF ReadMessage, Reads
  <2>2. ~Complaint(cursor + 1)
    BY <2>1 DEF Complaint, NextLine
  <2>3. OutputTypeOK' /\ ProblemsPart'
    BY <1>0, <1>1, <2>1, <2>2
  <2>4. LastAbove({"message", "place"}, cursor + 1)' = cursor + 1
    BY <2>1, StaysBehind
  <2>5. MessagePart'
    BY <1>0, <2>1, <2>4 DEF MessagePart, Reading, NextLine
  <2> QED
    BY <2>1, <2>3, <2>5 DEF OutputInv, HeadingPart, Reading
\* the place uses the message up
<1>11. ASSUME ReadPlace PROVE OutputInv'
  <2> DEFINE p == Problem(NextLine.file, cursor + 1, currentError)
  <2>1. /\ step = "tests" /\ cursor < Len(output) /\ NextLine.kind = "place" /\ Found(p) /\ Reading(1)
        /\ currentError' = 0 /\ UNCHANGED currentFile
    BY <1>11 DEF ReadPlace, Reads
  <2>2. p \in ProblemType /\ p.at = cursor + 1 /\ p.file = NextLine.file /\ p.said = currentError
    BY <1>0, <1>3, <2>1, NextLineType
  <2> HIDE DEF p
  <2>3. Belongs(p)
    BY <1>0, <2>1, <2>2 DEF Belongs, NextLine, MessagePart
  <2>4. OutputTypeOK' /\ ProblemsPart'
    BY <1>0, <1>1, <2>1, <2>2, <2>3
  <2>5. LastAbove({"message", "place"}, cursor + 1)' = cursor + 1
    BY <2>1, StaysBehind
  <2>6. MessagePart'
    BY <1>0, <2>1, <2>5 DEF MessagePart, Reading, NextLine
  <2> QED
    BY <2>1, <2>4, <2>6 DEF OutputInv, HeadingPart, Reading
\* the line that explains a place is not read on its own
<1>12. ASSUME ReadBuildPlace PROVE OutputInv'
  <2> DEFINE more == IF cursor + 2 <= Len(output) THEN 1 ELSE 0
             p == Problem(NextLine.file, cursor + 1, (cursor + 2) * more)
  <2>1. /\ step = "build" /\ cursor < Len(output) /\ NextLine.kind = "place" /\ Found(p) /\ Reading(1 + more)
        /\ UNCHANGED <<currentFile, currentError>>
    BY <1>12 DEF ReadBuildPlace, Reads
  <2>2. (cursor + 2) * more \in Nat /\ 1 + more \in {1, 2} /\ cursor + (1 + more) <= Len(output)
    <3>1. CASE cursor + 2 <= Len(output)
      BY <1>0, <2>1, <3>1
    <3>2. CASE ~(cursor + 2 <= Len(output))
      BY <1>0, <2>1, <3>2
    <3> QED
      BY <3>1, <3>2
  <2> HIDE DEF more
  <2>3. p \in ProblemType /\ p.at = cursor + 1 /\ p.file = NextLine.file
    BY <1>0, <1>3, <2>1, <2>2, NextLineType
  <2> HIDE DEF p
  <2>4. Belongs(p)
    BY <2>1, <2>3 DEF Belongs, NextLine
  <2>5. ASSUME NEW i \in cursor + 2 .. cursor + (1 + more) PROVE ~Complaint(i)
    <3>1. i = cursor + 2 /\ i > 1 /\ i - 1 = cursor + 1
      BY <1>0, <2>2
    <3> QED
      BY <2>1, <3>1 DEF Complaint, NextLine
  <2>6. OutputTypeOK' /\ ProblemsPart'
    <3>1. cursor' <= Len(output) /\ currentFile' \in OutputFiles \cup {NoFile} /\ currentError' \in Nat
      BY <1>0, <2>1, <2>2 DEF Reading
    <3> QED
      BY <2>1, <2>2, <2>3, <2>4, <2>5, <3>1, Reads1
  <2> QED
    BY <2>1, <2>6 DEF OutputInv, HeadingPart, MessagePart, Reading
<1>13. ASSUME ReadBuildFile PROVE OutputInv'
  <2>1. step = "build" /\ cursor < Len(output) /\ NextLine.kind \in {"heading", "missing"} /\ UNCHANGED <<currentFile, currentError>>
    BY <1>13 DEF ReadBuildFile, Reads
  <2>2. CASE NextLine.kind = "heading" /\ cursor + 2 <= Len(output) /\ output[cursor + 2].kind = "missing"
    <3> DEFINE p == Problem(NextLine.file, cursor + 1, cursor + 2)
    <3>1. Found(p) /\ Reading(2)
      BY <1>13, <2>2 DEF ReadBuildFile
    <3>2. p \in ProblemType /\ p.at = cursor + 1 /\ p.file = NextLine.file
      BY <1>0, <1>3, <2>1, NextLineType
    <3> HIDE DEF p
    <3>3. Belongs(p)
      BY <2>1, <3>2 DEF Belongs, NextLine
    <3>4. ASSUME NEW i \in cursor + 2 .. cursor + 2 PROVE ~Complaint(i)
      <4>1. i = cursor + 2
        BY <1>0
      <4> QED
        BY <2>1, <2>2, <4>1 DEF Complaint
    <3>5. cursor' <= Len(output) /\ currentFile' \in OutputFiles \cup {NoFile} /\ currentError' \in Nat /\ 2 \in {1, 2}
      BY <1>0, <2>1, <2>2, <3>1 DEF Reading
    <3>6. OutputTypeOK' /\ ProblemsPart'
      BY <2>1, <3>1, <3>2, <3>3, <3>4, <3>5, Reads1
    <3> QED
      BY <2>1, <3>1, <3>6 DEF OutputInv, HeadingPart, MessagePart, Reading
  <2>3. CASE ~(NextLine.kind = "heading" /\ cursor + 2 <= Len(output) /\ output[cursor + 2].kind = "missing")
    <3>1. problems' = problems /\ Reading(1)
      BY <1>13, <2>3 DEF ReadBuildFile
    <3>2. ~Complaint(cursor + 1)
      BY <2>1 DEF Complaint, NextLine
    <3>3. OutputTypeOK' /\ ProblemsPart'
      BY <1>0, <1>1, <2>1, <3>1, <3>2
    <3> QED
      BY <2>1, <3>1, <3>3 DEF OutputInv, HeadingPart, MessagePart, Reading
  <2> QED
    BY <2>2, <2>3
<1>14. ASSUME FinishStep \/ UNCHANGED outputVars PROVE OutputInv'
  <2>1. UNCHANGED <<step, output, cursor, currentFile, currentError, problems>>
    BY <1>14 DEF FinishStep, outputVars
  <2>2. OutputTypeOK'
    BY <2>1 DEF OutputInv, OutputTypeOK
  <2>3. ASSUME NEW kinds PROVE LastAbove(kinds, cursor + 1)' = LastAbove(kinds, cursor + 1)
    BY <2>1 DEF LastAbove
  <2>4. HeadingPart' /\ MessagePart'
    BY <1>0, <2>1, <2>3 DEF HeadingPart, MessagePart
  <2>5. ASSUME NEW p PROVE Belongs(p)' <=> Belongs(p)
    BY <2>1 DEF Belongs, LastAbove
  <2>6. ASSUME NEW i PROVE Complaint(i)' <=> Complaint(i)
    BY <2>1 DEF Complaint, LastAbove
  <2>7. ProblemsPart'
    BY <1>0, <2>1, <2>5, <2>6 DEF ProblemsPart
  <2> QED
    BY <2>2, <2>4, <2>7 DEF OutputInv
<1> QED
  BY <1>2, <1>4, <1>5, <1>7, <1>8, <1>9, <1>10, <1>11, <1>12, <1>13, <1>14 DEF OutputNext

(***************************************************************************)
(* Each problem is told with the file it is in and its own message, and    *)
(* none is lost, whatever the lines of the output and however many.        *)
(***************************************************************************)
THEOREM ProblemsUnderTheirFileHolds ==
  ASSUME OutputAssumption PROVE OutputSpec => []ProblemsUnderTheirFile
<1>1. ASSUME OutputInit PROVE OutputInv
  <2>1. PICK n \in 0 .. MaxLines : output \in [1 .. n -> Lines(step)]
    BY <1>1 DEF OutputInit, BoundedSeq, SeqOf
  <2>2. n \in Nat
    BY DEF OutputAssumption
  <2>3. output \in Seq(Lines(step))
    BY <2>1, <2>2, SeqDef
  <2>4. LastAbove({"heading"}, 1) = 0 /\ LastAbove({"message", "place"}, 1) = 0
    BY DEF LastAbove
  <2>5. /\ step \in Steps4 /\ cursor = 0 /\ currentFile = NoFile /\ currentError = 0 /\ problems = <<>>
    BY <1>1 DEF OutputInit, Steps4
  <2>6. Len(output) \in Nat /\ problems \in Seq(ProblemType) /\ Len(problems) = 0
    BY <2>3, <2>5, LenProperties, EmptySeq
  <2>7. OutputTypeOK
    BY <2>3, <2>5, <2>6 DEF OutputTypeOK
  <2>8. HeadingPart /\ MessagePart /\ ProblemsPart
    BY <2>4, <2>5, <2>6 DEF HeadingPart, MessagePart, ProblemsPart
  <2> QED
    BY <2>7, <2>8 DEF OutputInv
<1>2. OutputAssumption /\ OutputInv /\ [OutputNext]_outputVars => OutputInv'
  BY OutputStep
<1>3. OutputInv => ProblemsUnderTheirFile
  <2> SUFFICES ASSUME OutputInv PROVE ProblemsUnderTheirFile
    OBVIOUS
  <2>1. DOMAIN problems = 1 .. Len(problems)
    BY LenProperties DEF OutputInv, OutputTypeOK
  <2> QED
    BY <2>1 DEF OutputInv, ProblemsPart, ProblemsUnderTheirFile
<1> QED
  BY <1>1, <1>2, <1>3, PTL DEF OutputSpec

-----------------------------------------------------------------------------
(***************************************************************************)
(* The output of a phase: requirements that are generated are read back.   *)
(* What was built of them has been numbered, and all of it is read.        *)
(***************************************************************************)
ReadBackOf(items) ==
  /\ Len(readBack[1]) = Len(items)
  /\ \A i \in DOMAIN items :
       /\ readBack[1][i].number = i
       /\ Len(readBack[1][i].criteria) =
            Cardinality({c \in DOMAIN items[i].criteria : items[i].criteria[c] = "named"})

PhaseInv ==
  phase = "requirements" =>
    /\ answer \in Seq(RequirementItems)
    /\ saved # NoOutput => saved = <<Numbered(answer)>>
    /\ readBack # NoOutput => ReadBackOf(answer)

\* the length of a sequence that is given as a function
LEMMA LengthOf ==
  ASSUME NEW m \in Nat, NEW e(_) PROVE Len([k \in 1 .. m |-> e(k)]) = m
<1> DEFINE f == [k \in 1 .. m |-> e(k)]
           T == {e(k) : k \in 1 .. m}
<1>1. f \in [1 .. m -> T]
  OBVIOUS
<1>2. f \in Seq(T)
  BY <1>1, SeqDef
<1>3. DOMAIN f = 1 .. m
  OBVIOUS
<1> HIDE DEF f, T
<1>4. Len(f) = m
  BY <1>2, <1>3, LenProperties
<1> QED
  BY <1>4 DEF f

\* to read at every position is to read all
LEMMA AtAllPositions ==
  ASSUME NEW s, NEW n \in Nat, DOMAIN s = 1 .. n
  PROVE  /\ DOMAIN AtPositions(s, 1 .. n) = 1 .. n
         /\ \A k \in 1 .. n : AtPositions(s, 1 .. n)[k] = s[k]
<1>1. Cardinality(1 .. n) = n
  BY FS_Interval
<1>2. ASSUME NEW i \in 1 .. n PROVE Cardinality((1 .. n) \cap (1 .. i)) = i
  <2>1. (1 .. n) \cap (1 .. i) = 1 .. i
    OBVIOUS
  <2>2. i \in Int /\ 1 \in Int /\ ~(1 > i) /\ i - 1 + 1 = i
    OBVIOUS
  <2>3. Cardinality(1 .. i) = i
    BY <2>2, FS_Interval
  <2> QED
    BY <2>1, <2>3
<1>3. ASSUME NEW k \in 1 .. n PROVE (CHOOSE i \in 1 .. n : Cardinality((1 .. n) \cap (1 .. i)) = k) = k
  BY <1>2
<1> QED
  BY <1>1, <1>3 DEF AtPositions

\* as many criteria are read as have the name of their scenario
LEMMA CriteriaRead ==
  ASSUME NEW criteria \in CriteriaLists
  PROVE  Len(ReadCriteria(criteria)) = Cardinality({c \in DOMAIN criteria : criteria[c] = "named"})
<1> DEFINE S == {c \in DOMAIN criteria : criteria[c] = "named"}
<1>1. PICK n \in Nat : criteria \in [1 .. n -> {"named", "nameless"}]
  BY DEF CriteriaLists, BoundedSeq, SeqOf
<1>2. IsFiniteSet(1 .. n) /\ S \subseteq 1 .. n
  BY <1>1, FS_Interval
<1>3. Cardinality(S) \in Nat
  BY <1>2, FS_Subset, FS_CardinalityType
<1>4. ReadCriteria(criteria) = AtPositions(criteria, S)
  BY DEF ReadCriteria
<1> HIDE DEF S
<1>5. Len(AtPositions(criteria, S)) = Cardinality(S)
  BY <1>3, LengthOf DEF AtPositions
<1> QED
  BY <1>4, <1>5 DEF S

\* the first state
LEMMA PhaseInit_Inv == ASSUME PhaseAssumption, PhaseInit PROVE PhaseInv
<1> SUFFICES ASSUME phase = "requirements" PROVE PhaseInv
  BY DEF PhaseInv
<1>1. answer \in BoundedSeq(RequirementItems, MaxItems)
  BY DEF PhaseInit, Answers
<1>2. PICK n \in 0 .. MaxItems : answer \in [1 .. n -> RequirementItems]
  BY <1>1 DEF BoundedSeq, SeqOf
<1>3. n \in Nat
  BY DEF PhaseAssumption
<1>4. answer \in Seq(RequirementItems)
  BY <1>2, <1>3, SeqDef
<1> QED
  BY <1>4 DEF PhaseInit, PhaseInv

\* what is parsed are the requirements that were numbered
LEMMA ParsedBack ==
  ASSUME PhaseInv, phase = "requirements", ParseRequirements PROVE ReadBackOf(answer)'
<1> DEFINE n == Len(answer)
           items == Numbered(answer)
           own == OwnHeadings(items)
<1>1. answer \in Seq(RequirementItems) /\ n \in Nat /\ DOMAIN answer = 1 .. n
  BY DEF PhaseInv
<1>2. saved[1] = items
  BY DEF PhaseInv, ParseRequirements
<1>3. /\ DOMAIN items = 1 .. n
      /\ \A i \in 1 .. n : items[i].number = i /\ items[i].code = "own" /\ items[i].criteria = answer[i].criteria
  BY <1>1 DEF Numbered
<1>4. {i \in DOMAIN items : items[i].code = "own"} = 1 .. n
  BY <1>3
<1>5. DOMAIN own = 1 .. n /\ \A i \in 1 .. n : own[i] = items[i]
  <2>1. own = AtPositions(items, 1 .. n)
    BY <1>4 DEF OwnHeadings
  <2> HIDE DEF own, items, n
  <2> QED
    BY <1>1, <1>3, <2>1, AtAllPositions
<1>6. readBack' = <<[i \in DOMAIN own |-> [own[i] EXCEPT !.criteria = ReadCriteria(own[i].criteria)]]>> /\ answer' = answer
  BY <1>2 DEF ParseRequirements
<1> DEFINE read == [i \in DOMAIN own |-> [own[i] EXCEPT !.criteria = ReadCriteria(own[i].criteria)]]
<1>7. readBack'[1] = read
  BY <1>6
<1>8. \A i \in 1 .. n : own[i].number = i /\ own[i] = [number |-> i, code |-> "own", criteria |-> answer[i].criteria]
  BY <1>1, <1>5 DEF Numbered
<1> HIDE DEF own, items, n
<1>9. DOMAIN read = 1 .. n /\ Len(read) = n
  BY <1>1, <1>5, LengthOf
<1>10. ASSUME NEW i \in 1 .. n
       PROVE  /\ read[i].number = i
              /\ Len(read[i].criteria) = Cardinality({c \in DOMAIN answer[i].criteria : answer[i].criteria[c] = "named"})
  <2>1. read[i] = [own[i] EXCEPT !.criteria = ReadCriteria(own[i].criteria)]
    BY <1>5
  <2>2. own[i] = [number |-> i, code |-> "own", criteria |-> answer[i].criteria]
    BY <1>8
  <2>3. read[i] = [number |-> i, code |-> "own", criteria |-> ReadCriteria(answer[i].criteria)]
    BY <2>1, <2>2
  <2>4. answer[i] \in RequirementItems
    BY <1>1
  <2>5. answer[i].criteria \in CriteriaLists
    BY <2>4 DEF RequirementItems
  <2> QED
    BY <2>3, <2>5, CriteriaRead
<1> QED
  BY <1>1, <1>6, <1>7, <1>9, <1>10 DEF ReadBackOf, n

\* every step keeps the invariant
LEMMA PhaseStep == ASSUME PhaseInv, [PhaseNext]_phaseVars PROVE PhaseInv'
<1> SUFFICES ASSUME phase' = "requirements" PROVE PhaseInv'
  BY DEF PhaseInv
<1>1. CASE ValidateOutput \/ UNCHANGED phaseVars
  BY <1>1 DEF ValidateOutput, phaseVars, PhaseInv, ReadBackOf
<1>2. CASE BuildRequirements
  BY <1>2 DEF BuildRequirements, Build, PhaseInv, ReadBackOf
<1>3. CASE BuildDiscovery \/ BuildFeatures \/ BuildDiagram \/ BuildRefined
  <2>1. phase # "requirements" /\ phase' = phase
    BY <1>3 DEF BuildDiscovery, BuildFeatures, BuildDiagram, BuildRefined, Build
  <2> QED
    BY <2>1
<1>4. CASE ParseRequirements
  <2>1. phase = "requirements" /\ UNCHANGED <<phase, answer, known, verdict, saved>>
    BY <1>4 DEF ParseRequirements
  <2> QED
    BY <1>4, <2>1, ParsedBack DEF PhaseInv
<1> QED
  BY <1>1, <1>2, <1>3, <1>4 DEF PhaseNext

(***************************************************************************)
(* The requirements that are generated, however many, are read back from   *)
(* their markdown with their numbers and their named criteria.             *)
(***************************************************************************)
THEOREM RequirementsReadBackHolds ==
  ASSUME PhaseAssumption PROVE PhaseSpec => []RequirementsReadBack
<1>1. PhaseInit => PhaseInv
  BY PhaseInit_Inv
<1>2. PhaseInv /\ [PhaseNext]_phaseVars => PhaseInv'
  BY PhaseStep
<1>3. PhaseInv => RequirementsReadBack
  BY DEF PhaseInv, ReadBackOf, RequirementsReadBack
<1> QED
  BY <1>1, <1>2, <1>3, PTL DEF PhaseSpec

-----------------------------------------------------------------------------
(***************************************************************************)
(* The removal of a feature: its types, for any number of features.  A     *)
(* repair is only tried while there is one left.                           *)
(***************************************************************************)
Removals == [stage : Stages, fixes : 0 .. MaxFixes, worked : BOOLEAN]
RemovalInv ==
  /\ RemovalTypeOK
  /\ \A f \in RemovalFeatures : RemovalAt(f, "repairing") => removal[f].fixes < MaxFixes

\* one removal moves on
LEMMA RemovalMoves ==
  ASSUME RemovalInv, NEW f \in RemovalFeatures, NEW x \in Removals, removal' = [removal EXCEPT ![f] = x],
         x.stage = "repairing" => x.fixes < MaxFixes
  PROVE  /\ removal' \in [RemovalFeatures -> Removals]
         /\ \A g \in RemovalFeatures : RemovalAt(g, "repairing")' => removal'[g].fixes < MaxFixes
BY DEF RemovalInv, RemovalTypeOK, Removals, RemovalAt

\* every step of a removal, and of the pipeline beside it, keeps the types
LEMMA RemovalKeeps ==
  ASSUME RemovalInv, [RemovalNext]_removalVars PROVE RemovalInv'
<1>0. /\ removal \in [RemovalFeatures -> Removals] /\ MaxFixes \in Nat /\ MaxLapses \in Nat
      /\ featureRows \subseteq RemovalFeatures /\ implRows \subseteq featureRows
      /\ workspaceLock \in RemovalFeatures \cup {Free} \cup ({Pipeline} \X RemovalFeatures)
      /\ head \in Content /\ tree \in Content /\ lapses \in 0 .. MaxLapses
      /\ \A f \in RemovalFeatures : RemovalAt(f, "repairing") => removal[f].fixes < MaxFixes
  BY RemovalAssumption DEF RemovalInv, RemovalTypeOK, Removals, RemovalAssumption
<1> DEFINE RemovalsOK == /\ removal' \in [RemovalFeatures -> Removals]
                         /\ \A g \in RemovalFeatures : RemovalAt(g, "repairing")' => removal'[g].fixes < MaxFixes
<1>1. ASSUME NEW f \in RemovalFeatures, NEW s \in Stages, Goto(f, s),
             s = "repairing" => removal[f].fixes < MaxFixes
      PROVE  RemovalsOK
  <2> DEFINE x == [removal[f] EXCEPT !.stage = s]
  <2>1. x \in Removals /\ x.stage = s /\ x.fixes = removal[f].fixes
    BY <1>0 DEF Removals
  <2>2. removal' = [removal EXCEPT ![f] = x]
    BY <1>1 DEF Goto
  <2> HIDE DEF x
  <2> QED
    BY <1>1, <2>1, <2>2, RemovalMoves
<1>2. ASSUME UNCHANGED removal PROVE RemovalsOK
  BY <1>0, <1>2 DEF RemovalAt
<1>3. ASSUME Lapse PROVE lapses' \in 0 .. MaxLapses
  BY <1>0, <1>3 DEF Lapse
<1>4. ASSUME NEW f \in RemovalFeatures, PipelineStarts(f) \/ PipelineSucceeds(f) \/ PipelineFails(f)
      PROVE  RemovalInv'
  <2>1. RemovalsOK /\ lapses' = lapses
    BY <1>2, <1>4 DEF PipelineStarts, PipelineSucceeds, PipelineFails
  <2>2. workspaceLock' \in RemovalFeatures \cup {Free} \cup ({Pipeline} \X RemovalFeatures)
    BY <1>0, <1>4 DEF PipelineStarts, PipelineSucceeds, PipelineFails
  <2>3. featureRows' \subseteq RemovalFeatures /\ implRows' \subseteq featureRows'
    BY <1>0, <1>4 DEF PipelineStarts, PipelineSucceeds, PipelineFails
  <2>4. head' \in Content /\ tree' \in Content
    <3>1. [has |-> tree.has \cup {f}, works |-> TRUE] \in Content
      BY <1>0 DEF Content
    <3>2. /\ head' \in {head, [has |-> tree.has \cup {f}, works |-> TRUE]}
          /\ tree' \in {head, tree, [has |-> tree.has \cup {f}, works |-> TRUE]}
      BY <1>4 DEF PipelineStarts, PipelineSucceeds, PipelineFails
    <3> QED
      BY <1>0, <3>1, <3>2
  <2> QED
    BY <1>0, <2>1, <2>2, <2>3, <2>4 DEF RemovalInv, RemovalTypeOK, Removals
<1>5. ASSUME NEW f \in RemovalFeatures, DeleteRows(f) \/ StartRemoval(f) \/ AcquireForRemoval(f)
      PROVE  RemovalInv'
  <2>1. RemovalsOK /\ lapses' = lapses
    BY <1>1, <1>5 DEF DeleteRows, StartRemoval, AcquireForRemoval, Stages
  <2>2. workspaceLock' \in RemovalFeatures \cup {Free} \cup ({Pipeline} \X RemovalFeatures)
    BY <1>0, <1>5 DEF DeleteRows, StartRemoval, AcquireForRemoval
  <2>3. featureRows' \subseteq RemovalFeatures /\ implRows' \subseteq featureRows' /\ head' = head /\ tree' = tree
    BY <1>0, <1>5 DEF DeleteRows, StartRemoval, AcquireForRemoval
  <2> QED
    BY <1>0, <2>1, <2>2, <2>3 DEF RemovalInv, RemovalTypeOK, Removals
<1>6. ASSUME NEW f \in RemovalFeatures, RemoveFiles(f)
      PROVE  RemovalInv'
  <2>1. UNCHANGED <<featureRows, implRows, head, lapses>> /\ workspaceLock' \in {workspaceLock, Free}
    BY <1>6 DEF RemoveFiles
  <2>2. CASE f \in tree.has
    <3> DEFINE x == [removal[f] EXCEPT !.stage = "committing", !.worked = tree.works]
    <3>1. tree' \in AppsWithout(f) /\ removal' = [removal EXCEPT ![f] = x]
      BY <1>0, <1>6, <2>2 DEF RemoveFiles
    <3>2. x \in Removals /\ x.stage = "committing"
      BY <1>0 DEF Removals, Content, Stages
    <3> HIDE DEF x
    <3>3. RemovalsOK
      BY <3>1, <3>2, RemovalMoves
    <3>4. tree' \in Content
      BY <1>0, <3>1 DEF AppsWithout, Content
    <3> QED
      BY <1>0, <2>1, <3>3, <3>4 DEF RemovalInv, RemovalTypeOK, Removals
  <2>3. CASE f \notin tree.has
    <3>1. RemovalsOK /\ tree' = tree
      BY <1>1, <1>6, <2>3 DEF RemoveFiles, Stages
    <3> QED
      BY <1>0, <2>1, <3>1 DEF RemovalInv, RemovalTypeOK, Removals
  <2> QED
    BY <2>2, <2>3
<1>7. ASSUME NEW f \in RemovalFeatures,
             CommitRemoval(f) \/ RemovalRaises(f) \/ ValidateRemoval(f) \/ ValidationRaises(f) \/ RemovalDies(f)
      PROVE  RemovalInv'
  <2>1. RemovalsOK
    BY <1>1, <1>7 DEF CommitRemoval, RemovalRaises, ValidateRemoval, ValidationRaises, RemovalDies, Stages
  <2>2. workspaceLock' \in {workspaceLock, Free} /\ tree' = tree /\ head' \in {head, tree}
        /\ UNCHANGED <<featureRows, implRows>>
    BY <1>7 DEF CommitRemoval, RemovalRaises, ValidateRemoval, ValidationRaises, RemovalDies
  <2>3. lapses' \in 0 .. MaxLapses
    BY <1>0, <1>3, <1>7 DEF CommitRemoval, RemovalRaises, ValidateRemoval, ValidationRaises, RemovalDies
  <2> QED
    BY <1>0, <2>1, <2>2, <2>3 DEF RemovalInv, RemovalTypeOK, Removals
<1>8. ASSUME NEW f \in RemovalFeatures, Repair(f)
      PROVE  RemovalInv'
  <2> DEFINE x == [removal[f] EXCEPT !.stage = "validating", !.fixes = removal[f].fixes + 1]
  <2>1. removal[f].fixes < MaxFixes
    BY <1>0, <1>8 DEF Repair
  <2>2. removal' = [removal EXCEPT ![f] = x]
    BY <1>0, <1>8 DEF Repair, Removals
  <2>3. x \in Removals /\ x.stage = "validating"
    <3>1. removal[f].fixes + 1 \in 0 .. MaxFixes /\ removal[f] \in Removals
      BY <1>0, <2>1 DEF Removals
    <3> QED
      BY <3>1 DEF Removals, Stages
  <2> HIDE DEF x
  <2>4. RemovalsOK
    BY <2>3, <2>2, RemovalMoves
  <2>5. tree' \in Content /\ UNCHANGED <<featureRows, implRows, workspaceLock, head, lapses>>
    BY <1>0, <1>8 DEF Repair, Content
  <2> QED
    BY <1>0, <2>4, <2>5 DEF RemovalInv, RemovalTypeOK, Removals
<1>9. ASSUME NEW f \in RemovalFeatures, Revert(f)
      PROVE  RemovalInv'
  <2>1. RemovalsOK /\ workspaceLock' = Free /\ UNCHANGED <<featureRows, implRows, lapses>>
    BY <1>1, <1>9 DEF Revert, Stages
  <2>2. head' \in Content /\ tree' \in Content
    BY <1>0, <1>9 DEF Revert, Content, Removals
  <2> QED
    BY <1>0, <2>1, <2>2 DEF RemovalInv, RemovalTypeOK, Removals
<1>10. ASSUME UNCHANGED removalVars PROVE RemovalInv'
  BY <1>10 DEF removalVars, RemovalInv, RemovalTypeOK, RemovalAt
<1> QED
  BY <1>4, <1>5, <1>6, <1>7, <1>8, <1>9, <1>10 DEF RemovalNext

\* the first state
LEMMA RemovalInit_Inv == RemovalInit => RemovalInv
<1> SUFFICES ASSUME RemovalInit PROVE RemovalInv
  OBVIOUS
<1>1. [stage |-> "none", fixes |-> 0, worked |-> TRUE] \in Removals /\ Empty \in Content
  BY RemovalAssumption DEF RemovalAssumption, Removals, Stages, Empty, Content
<1>2. RemovalTypeOK
  BY <1>1, RemovalAssumption DEF RemovalAssumption, RemovalInit, RemovalTypeOK, Removals
<1> QED
  BY <1>2 DEF RemovalInit, RemovalInv, RemovalAt

(***************************************************************************)
(* The rows, the lock, the repository and the removals have their types,   *)
(* and no removal repairs more often than it may.                          *)
(***************************************************************************)
THEOREM RemovalTypeCorrect == RemovalSpec => []RemovalTypeOK
<1>1. RemovalInv /\ [RemovalNext]_removalVars => RemovalInv'
  BY RemovalKeeps
<1>2. RemovalInv => RemovalTypeOK
  BY DEF RemovalInv
<1> QED
  BY <1>1, <1>2, RemovalInit_Inv, PTL DEF RemovalSpec
-----------------------------------------------------------------------------
(***************************************************************************)
(* The composition: a behaviour is one of any of the parts, which share no *)
(* variable.                                                               *)
(***************************************************************************)
BackendInv == ReviewInv /\ DocumentInv /\ RemovalInv /\ LoginInv /\ LinkInv

\* a step of the composition is a step of one part, and the others rest
LEMMA StepOfOnePart ==
  ASSUME [Next]_backendVars
  PROVE  /\ [ReviewNext]_reviewVars /\ [DocumentNext]_documentVars /\ [RemovalNext]_removalVars
         /\ [LoginNext]_loginVars /\ [LinkNext]_linkVars
BY DEF Next, Elsewhere, backendVars

(***************************************************************************)
(* The rows and requests of the review, the documents, the removal, the    *)
(* login and the linked accounts have their types in the composition that  *)
(* is model-checked, whichever of them runs.                               *)
(***************************************************************************)
THEOREM BackendTypesHold == Spec => []BackendTypes
<1>1. Init => BackendInv
  BY ReviewInit_Inv, DocumentInit_Inv, RemovalInit_Inv, LoginInit_Inv, LinkInit_Inv,
     ReviewAssumption, LoginAssumption, LinkAssumption DEF Init, BackendInv
<1>2. BackendInv /\ [Next]_backendVars => BackendInv'
  <2> SUFFICES ASSUME BackendInv, [Next]_backendVars PROVE BackendInv'
    OBVIOUS
  <2>0. /\ [ReviewNext]_reviewVars /\ [DocumentNext]_documentVars /\ [RemovalNext]_removalVars
        /\ [LoginNext]_loginVars /\ [LinkNext]_linkVars
    BY StepOfOnePart
  <2>1. ReviewInv'
    BY <2>0, ReviewStep, ReviewAssumption DEF BackendInv
  <2>2. DocumentInv'
    BY <2>0, DocumentKeeps DEF BackendInv
  <2>3. RemovalInv'
    BY <2>0, RemovalKeeps DEF BackendInv
  <2>4. LoginInv'
    BY <2>0, TypeStep, GuessStep, CodeStep, LoginAssumption DEF BackendInv, LoginInv
  <2>5. LinkInv'
    BY <2>0, LinkTypeStep, LinkPartsStep, LinkAssumption DEF BackendInv, LinkInv
  <2> QED
    BY <2>1, <2>2, <2>3, <2>4, <2>5 DEF BackendInv
<1>3. BackendInv => BackendTypes
  BY DocumentTypes DEF BackendInv, BackendTypes, ReviewInv, RemovalInv, LoginInv, LinkInv
<1> QED
  BY <1>1, <1>2, <1>3, PTL DEF Spec
=============================================================================
