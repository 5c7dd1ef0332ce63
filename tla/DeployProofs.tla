----------------------------- MODULE DeployProofs -----------------------------
(***************************************************************************)
(* Proofs about Deploy, for any number of runs of any kind and of pushes.  *)
(***************************************************************************)
EXTENDS Deploy, TLAPS

USE RunAssumption, PushAssumption

\* A run that is past its fetch has fetched the push that started it, and a
\* run with nothing to do found the checkout there.
Seen ==
  \A r \in Runs :
    /\ pc[r] \in {"fetched", "stale"} => After[r] <= origin
    /\ pc[r] \in Past \cup {"current", "completed"} => After[r] <= head

\* A checkout that is ahead of what the containers are configured by has a run
\* that will start them, unless a run was cut off.
OnlyCutsStrand == ~cut /\ config < head => \E r \in Runs : pc[r] \in Past

\* A checkout that no image was built from will be built, by a run that has not
\* begun or that has read these very files, unless a build was lost.
BuildAhead ==
  lost = {} /\ image < head =>
    \E r \in Runs : pc[r] = "reset" \/ (pc[r] = "building" /\ building[r] = head)

\* An image that does not run yet will be started, unless a run was cut off.
StartAhead == ~cut /\ gateway # image => \E r \in Runs : pc[r] \in {"built", "starting"}

\* Unless a build was overtaken, the image is no older than the gateway.
ImageFirst == "order" \notin lost => gateway <= image

Ahead == BuildAhead /\ StartAhead /\ ImageFirst

\* A start under way knows what the name of the image means, and that it has
\* meant nothing newer unless a build was overtaken.
ReadsImage ==
  \A r \in Starting :
    /\ image \in reading[r].images
    /\ "order" \notin lost => \A n \in reading[r].images : n <= image

\* Of two starts under way, both count as overlapping, or they have read the
\* same and the name has meant one thing only.
Apart ==
  \A q, r \in Starting : q # r =>
    \/ q \in overlaps /\ r \in overlaps
    \/ reading[q] = reading[r] /\ reading[r].images = {image}

\* A start that nothing disturbs, and that has read what is no longer there, is
\* followed by another start, unless a run was cut off.
Followed ==
  ~cut => \A r \in Starting \ overlaps :
    /\ reading[r].config < head => \E q \in Runs : pc[q] \in {"reset", "building", "built"}
    /\ reading[r].images # {image} => \E q \in Runs : pc[q] = "built"

\* Such a start takes nothing back, unless an older build has misled it.
TakesOn ==
  /\ \A r \in Starting \ overlaps : config <= reading[r].config
  /\ \A r \in Starting \ (overlaps \cup misled) :
       \A i \in reading[r].images : gateway <= i
  /\ "order" \in lost => Starting \subseteq misled

Starts == ReadsImage /\ Apart /\ Followed /\ TakesOn

IInv == TypeOK /\ Seen /\ OnlyCutsStrand /\ Ahead /\ Starts

LEMMA InitIInv == Init => IInv
<1> SUFFICES ASSUME Init PROVE IInv
  OBVIOUS
<1>1. "waiting" \in Stage /\ 0 \in 0..0 /\ 0 \in 0..MaxPush
  BY DEF Stage
<1>2. /\ pc \in [Runs -> Stage] /\ target \in [Runs -> 0..0] /\ building \in [Runs -> 0..0]
      /\ reading \in [Runs -> [config : 0..0, images : SUBSET (0..0)]]
  BY <1>1 DEF Init, NotRead
<1>3. TypeOK
  BY <1>1, <1>2 DEF Init, TypeOK
<1>4. Seen /\ OnlyCutsStrand /\ Ahead
  BY DEF Init, Seen, Past, OnlyCutsStrand, Ahead, BuildAhead, StartAhead, ImageFirst
<1>5. Starts
  BY DEF Init, Starting, Starts, ReadsImage, Apart, Followed, TakesOn
<1> QED BY <1>3, <1>4, <1>5 DEF IInv

\* What a step of one run does to where it is.
LEMMA GotoPC ==
  ASSUME TypeOK, NEW r \in Runs, NEW s \in Stage, Goto(r, s)
  PROVE  /\ pc' \in [Runs -> Stage]
         /\ pc'[r] = s
         /\ \A q \in Runs : q # r => pc'[q] = pc[q]
BY DEF Goto, TypeOK

\* A run that is not yet past its reset leaves what lies ahead as it is.
LEMMA AheadBefore ==
  ASSUME Ahead, NEW r \in Runs, pc[r] \in {"waiting", "fetched", "stale"},
         \A q \in Runs : q # r => pc'[q] = pc[q],
         UNCHANGED <<head, image, gateway, building, cut, lost>>
  PROVE  Ahead'
<1>1. BuildAhead'
  BY DEF Ahead, BuildAhead
<1>2. StartAhead'
  BY DEF Ahead, StartAhead
<1>3. ImageFirst'
  BY DEF Ahead, ImageFirst
<1> QED BY <1>1, <1>2, <1>3 DEF Ahead

\* A step of a run that neither begins nor ends a start, and takes no image and
\* no hope of a start away, leaves the starts under way as they are.
LEMMA StartsKept ==
  ASSUME Starts, NEW r \in Runs, pc[r] # "starting", pc'[r] # "starting",
         \A q \in Runs : q # r => pc'[q] = pc[q],
         UNCHANGED <<head, host, reading, overlaps, misled>>,
         "order" \in lost' <=> "order" \in lost,
         ~cut' => /\ ~cut
                  /\ pc[r] \in {"reset", "building", "built"} =>
                       pc'[r] \in {"reset", "building", "built"}
                  /\ pc[r] = "built" => pc'[r] = "built"
  PROVE  Starts'
<1> USE DEF host
<1>1. Starting' = Starting
  BY DEF Starting
<1>2. ReadsImage' /\ Apart' /\ TakesOn'
  BY <1>1 DEF Starts, ReadsImage, Apart, TakesOn
<1>3. Followed'
  BY <1>1 DEF Starts, Followed
<1> QED BY <1>2, <1>3 DEF Starts

\* The reset of the checkout announces a start to all that are under way.
LEMMA StartsReset ==
  ASSUME Starts, TypeOK, NEW r \in Runs, Reset(r), pc'[r] = "reset",
         \A q \in Runs : q # r => pc'[q] = pc[q]
  PROVE  Starts'
<1> USE DEF Reset, host, history
<1>1. Starting' = Starting
  BY DEF Starting
<1>2. ReadsImage' /\ Apart' /\ TakesOn'
  BY <1>1 DEF Starts, ReadsImage, Apart, TakesOn
<1>3. Followed'
  BY <1>1 DEF Starts, Followed
<1> QED BY <1>2, <1>3 DEF Starts

\* The end of a build: every start under way sees the name of the image move.
LEMMA StartsBuilt ==
  ASSUME Starts, ImageFirst, TypeOK, NEW r \in Runs, BuildEnd(r), pc'[r] = "built",
         \A q \in Runs : q # r => pc'[q] = pc[q]
  PROVE  Starts'
<1>1. Starting' = Starting /\ Starting \subseteq Runs
  BY DEF BuildEnd, Starting
<1> DEFINE moved == building[r] # image /\ \E p, q \in Starting : p # q
<1>7. /\ image' = building[r] /\ UNCHANGED <<head, config, gateway>>
      /\ lost' = IF building[r] = head THEN {}
                 ELSE lost \cup IF building[r] < image THEN {"order"} ELSE {}
      /\ overlaps' = IF moved THEN overlaps \cup Starting ELSE overlaps
      /\ misled' = IF "order" \in lost' THEN misled \cup Starting ELSE misled
  BY DEF BuildEnd
<1> USE <1>7
<1>8. \A q \in Starting :
        reading'[q] = [config |-> reading[q].config,
                       images |-> reading[q].images \cup {building[r]}]
  <2> TAKE q \in Starting
  <2>1. reading[q] \in [config : 0..head, images : SUBSET (0..head)]
    BY <1>1 DEF TypeOK
  <2>2. reading'[q] = [reading[q] EXCEPT !.images = @ \cup {building[r]}]
    BY <1>1 DEF BuildEnd
  <2> QED BY <2>1, <2>2
<1>2. \A q \in Starting : /\ reading'[q].config = reading[q].config
                          /\ reading'[q].images = reading[q].images \cup {building[r]}
  <2> TAKE q \in Starting
  <2> DEFINE new == [config |-> reading[q].config, images |-> reading[q].images \cup {building[r]}]
  <2>1. new.config = reading[q].config /\ new.images = reading[q].images \cup {building[r]}
    OBVIOUS
  <2>2. reading'[q] = new
    BY <1>8
  <2> HIDE DEF new
  <2> QED BY <2>1, <2>2
<1>3. ReadsImage'
  <2>1. \A q \in Starting : image' \in reading'[q].images
    BY <1>2
  <2>2. ASSUME "order" \notin lost', NEW q \in Starting, NEW n \in reading'[q].images
        PROVE  n <= building[r]
    <3>1. building[r] \in 0..head /\ image \in 0..head /\ head \in Nat
      BY DEF TypeOK
    <3>2. n \in reading[q].images \/ n = building[r]
      BY <1>2, <2>2
    <3>3. reading[q].images \subseteq 0..head
      BY <1>1 DEF TypeOK
    <3>4. CASE building[r] = head
      BY <3>1, <3>2, <3>3, <3>4
    <3>5. CASE building[r] # head
      <4>1. "order" \notin lost /\ ~(building[r] < image)
        BY <2>2, <3>5
      <4>2. n \in reading[q].images => n <= image
        BY <4>1 DEF Starts, ReadsImage
      <4> QED BY <3>1, <3>2, <3>3, <4>1, <4>2
    <3> QED BY <3>4, <3>5
  <2> QED BY <1>1, <2>1, <2>2 DEF ReadsImage
<1>4. Apart'
  <2> SUFFICES ASSUME NEW q \in Starting, NEW p \in Starting, q # p
               PROVE  \/ q \in overlaps' /\ p \in overlaps'
                      \/ reading'[q] = reading'[p] /\ reading'[p].images = {image'}
    BY <1>1 DEF Apart
  <2>1. CASE building[r] # image
    BY <2>1
  <2>2. CASE building[r] = image
    <3>1. overlaps' = overlaps
      BY <2>2
    <3>2. CASE q \in overlaps /\ p \in overlaps
      BY <3>1, <3>2
    <3>3. CASE reading[q] = reading[p] /\ reading[p].images = {image}
      <4>1. reading'[p].images = {image'}
        BY <1>2, <2>2, <3>3
      <4>2. reading'[q] = reading'[p]
        BY <1>8, <3>3
      <4> QED BY <4>1, <4>2
    <3> QED BY <3>2, <3>3 DEF Starts, Apart
  <2> QED BY <2>1, <2>2
<1>5. Followed'
  BY DEF Followed, BuildEnd
<1>6. TakesOn'
  <2>1. \A q \in Starting' \ overlaps' : config' <= reading'[q].config
    BY <1>1, <1>2 DEF Starts, TakesOn
  <2>2. "order" \in lost' => Starting' \subseteq misled'
    BY <1>1
  <2>3. ASSUME NEW q \in Starting \ (overlaps' \cup misled'), NEW n \in reading'[q].images
        PROVE  gateway <= n
    <3>1. q \in Starting \ (overlaps \cup misled) /\ "order" \notin lost'
      BY <2>3
    <3>2. "order" \notin lost
      BY <3>1 DEF Starts, TakesOn
    <3>3. gateway <= image /\ image \in Nat /\ building[r] \in Nat /\ gateway \in Nat /\ head \in Nat
      BY <3>2 DEF ImageFirst, TypeOK
    <3>4. building[r] = head \/ ~(building[r] < image)
      BY <3>1
    <3>5. gateway <= head
      BY DEF TypeOK
    <3>6. gateway <= building[r]
      BY <3>3, <3>4, <3>5
    <3>7. CASE n \in reading[q].images
      BY <3>1, <3>7 DEF Starts, TakesOn
    <3>8. CASE n = building[r]
      BY <3>6, <3>8
    <3>9. n \in reading[q].images \/ n = building[r]
      BY <1>2, <2>3
    <3> QED BY <3>7, <3>8, <3>9
  <2>4. gateway' = gateway
    OBVIOUS
  <2> QED BY <1>1, <2>1, <2>2, <2>3, <2>4 DEF TakesOn
<1> QED BY <1>3, <1>4, <1>5, <1>6 DEF Starts

\* The beginning of a start: either it reads what all others have read, or all
\* are marked.
LEMMA StartsBegun ==
  ASSUME Starts, ImageFirst, TypeOK, NEW r \in Runs, UpBegin(r), pc'[r] = "starting",
         \A q \in Runs : q # r => pc'[q] = pc[q]
  PROVE  Starts'
<1> USE DEF UpBegin, host
<1>1. Starting' = Starting \cup {r} /\ r \notin Starting /\ Starting \subseteq Runs
  BY DEF Starting
<1>2. /\ reading'[r] = Current /\ \A q \in Runs : q # r => reading'[q] = reading[q]
      /\ Current.config = head /\ Current.images = {image}
  BY DEF TypeOK, Current
<1>3. ReadsImage'
  BY <1>1, <1>2 DEF Starts, ReadsImage, TypeOK
<1>4. Apart'
  BY <1>1, <1>2 DEF Starts, Apart
<1>5. Followed'
  <2> SUFFICES ASSUME NEW q \in Starting', q \notin overlaps'
               PROVE  reading'[q] = Current
    BY <1>2 DEF Followed, TypeOK
  <2> QED BY <1>1, <1>2
<1>6. TakesOn'
  <2>1. config <= head /\ ("order" \notin lost => gateway <= image)
    BY DEF TypeOK, ImageFirst
  <2>2. overlaps \subseteq overlaps' /\ misled \subseteq misled'
    OBVIOUS
  <2>3. \A q \in Starting' \ overlaps' : config' <= reading'[q].config
    BY <1>1, <1>2, <2>1, <2>2 DEF Starts, TakesOn
  <2>4. \A q \in Starting' \ (overlaps' \cup misled') :
          \A n \in reading'[q].images : gateway' <= n
    BY <1>1, <1>2, <2>1, <2>2 DEF Starts, TakesOn
  <2>5. "order" \in lost' => Starting' \subseteq misled'
    BY <1>1 DEF Starts, TakesOn
  <2> QED BY <2>3, <2>4, <2>5 DEF TakesOn
<1> QED BY <1>3, <1>4, <1>5, <1>6 DEF Starts

\* The end of a start leaves the others what they have read; one of them that
\* counts as undisturbed has read the same.
LEMMA StartsEnded ==
  ASSUME Starts, TypeOK, NEW r \in Runs, pc[r] = "starting", NEW s \in Ends, EndStart(r, s),
         pc'[r] = s, \A q \in Runs : q # r => pc'[q] = pc[q],
         UNCHANGED <<head, image, lost>>,
         config' \in {config, reading[r].config}, gateway' \in {gateway} \cup reading[r].images,
         ~cut' => ~cut \/ reading[r] = Current
  PROVE  Starts'
<1> USE DEF EndStart
<1>1. Starting' = Starting \ {r} /\ r \in Starting /\ Starting \subseteq Runs
  BY DEF Starting, Ends
<1>2. \A q \in Starting' : reading'[q] = reading[q] /\ q \in Starting /\ q # r
  BY <1>1 DEF TypeOK
<1>3. \A q \in Starting' \ overlaps' :
        /\ q \in Starting \ overlaps
        /\ reading[q] = reading[r] /\ reading[q].images = {image}
  BY <1>1, <1>2 DEF Starts, Apart
<1>4. ReadsImage' /\ Apart'
  BY <1>1, <1>2 DEF Starts, ReadsImage, Apart
<1>5. Followed'
  <2> SUFFICES ASSUME ~cut', NEW q \in Starting' \ overlaps', reading[q].config < head
               PROVE  \E p \in Runs : pc'[p] \in {"reset", "building", "built"}
    BY <1>2, <1>3 DEF Followed
  <2>1. reading[r] # Current
    BY <1>3 DEF Current, TypeOK
  <2>2. ~cut
    BY <2>1
  <2>3. PICK p \in Runs : pc[p] \in {"reset", "building", "built"}
    BY <1>3, <2>2 DEF Starts, Followed
  <2> QED BY <2>3
<1>6. TakesOn'
  <2>1. \A q \in Starting' \ overlaps' : config' <= reading'[q].config
    <3> TAKE q \in Starting' \ overlaps'
    <3>1. config <= reading[q].config /\ reading[q].config \in Int
      BY <1>1, <1>3 DEF Starts, TakesOn, TypeOK
    <3> QED BY <1>2, <1>3, <3>1
  <2>2. \A q \in Starting' \ (overlaps' \cup misled') :
          \A n \in reading'[q].images : gateway' <= n
    <3> TAKE q \in Starting' \ (overlaps' \cup misled')
    <3>1. q \in Starting \ (overlaps \cup misled)
      BY <1>2
    <3>2. gateway <= image /\ image \in Int
      BY <1>3, <3>1 DEF Starts, TakesOn, TypeOK
    <3>3. reading'[q].images = {image} /\ reading[r].images = {image}
      BY <1>2, <1>3
    <3> QED BY <3>2, <3>3
  <2>3. "order" \in lost' => Starting' \subseteq misled'
    BY <1>1 DEF Starts, TakesOn
  <2> QED BY <2>1, <2>2, <2>3 DEF TakesOn
<1> QED BY <1>4, <1>5, <1>6 DEF Starts

\* The invariant is kept, one step of the proof per action.
LEMMA NextIInv == IInv /\ [Next]_vars => IInv'
<1> SUFFICES ASSUME IInv, [Next]_vars PROVE IInv'
  OBVIOUS
<1> USE DEF IInv, TypeOK
<1>1. ASSUME Push PROVE IInv'
  <2>1. TypeOK' /\ Seen' /\ OnlyCutsStrand' /\ Ahead'
    BY <1>1 DEF Push, Seen, Past, OnlyCutsStrand, Ahead, BuildAhead, StartAhead, ImageFirst,
                host, history
  <2>2. Starts'
    BY <1>1 DEF Push, Starts, ReadsImage, Apart, Followed, TakesOn, Starting, host, history
  <2> QED BY <2>1, <2>2
<1>2. ASSUME NEW r \in Runs, Fetch(r) PROVE IInv'
  <2>1. pc' \in [Runs -> Stage] /\ pc'[r] = "fetched" /\ \A q \in Runs : q # r => pc'[q] = pc[q]
    BY <1>2, GotoPC DEF Fetch, Stage
  <2>2. TypeOK'
    BY <1>2, <2>1 DEF Fetch, host, history
  <2>3. Seen'
    BY <1>2, <2>1 DEF Fetch, Seen, Past
  <2>4. OnlyCutsStrand'
    BY <1>2, <2>1 DEF Fetch, OnlyCutsStrand, host, history, Past
  <2>5. Ahead'
    BY <1>2, <2>1, AheadBefore DEF Fetch, host, history
  <2>6. Starts'
    BY <1>2, <2>1, StartsKept DEF Fetch, history
  <2> QED BY <2>2, <2>3, <2>4, <2>5, <2>6
<1>3. ASSUME NEW r \in Runs, Compare(r) PROVE IInv'
  <2> DEFINE s == IF head = origin THEN "current" ELSE "stale"
  <2>1. pc' \in [Runs -> Stage] /\ pc'[r] = s /\ \A q \in Runs : q # r => pc'[q] = pc[q]
    BY <1>3, GotoPC DEF Compare, Stage, Ends
  <2>2. TypeOK'
    <3>1. origin \in 0..origin
      OBVIOUS
    <3>2. target' \in [Runs -> 0..origin]
      BY <1>3, <3>1 DEF Compare
    <3> QED BY <1>3, <2>1, <3>2 DEF Compare, host, history
  <2>3. Seen'
    BY <1>3, <2>1 DEF Compare, Seen, Past
  <2>4. OnlyCutsStrand'
    BY <1>3, <2>1 DEF Compare, OnlyCutsStrand, host, history, Past
  <2>5. Ahead'
    BY <1>3, <2>1, AheadBefore DEF Compare, host, history
  <2>6. Starts'
    BY <1>3, <2>1, StartsKept DEF Compare, history
  <2> QED BY <2>2, <2>3, <2>4, <2>5, <2>6
<1>4. ASSUME NEW r \in Runs, Reset(r) PROVE IInv'
  <2>1. pc' \in [Runs -> Stage] /\ pc'[r] = "reset" /\ \A q \in Runs : q # r => pc'[q] = pc[q]
    BY <1>4, GotoPC DEF Reset, Stage, Past
  <2>2. TypeOK'
    BY <1>4, <2>1 DEF Reset, host, history
  <2>3. Seen'
    BY <1>4, <2>1 DEF Reset, Seen, Past
  <2>4. OnlyCutsStrand'
    BY <1>4, <2>1 DEF Reset, OnlyCutsStrand, Past
  <2>5. Ahead'
    BY <1>4, <2>1 DEF Reset, host, history, Ahead, BuildAhead, StartAhead, ImageFirst
  <2>6. Starts'
    BY <1>4, <2>1, StartsReset
  <2> QED BY <2>2, <2>3, <2>4, <2>5, <2>6
<1>5. ASSUME NEW r \in Runs, BuildBegin(r) PROVE IInv'
  <2>1. pc' \in [Runs -> Stage] /\ pc'[r] = "building" /\ \A q \in Runs : q # r => pc'[q] = pc[q]
    BY <1>5, GotoPC DEF BuildBegin, Stage, Past
  <2>2. building' \in [Runs -> 0..head]
    <3>1. head \in 0..head
      OBVIOUS
    <3> QED BY <1>5, <3>1 DEF BuildBegin
  <2>3. TypeOK'
    BY <1>5, <2>1, <2>2 DEF BuildBegin, host, history
  <2>4. Ahead'
    BY <1>5, <2>1 DEF BuildBegin, host, history, Ahead, BuildAhead, StartAhead, ImageFirst
  <2>5. Starts'
    BY <1>5, <2>1, StartsKept DEF BuildBegin, history
  <2> QED BY <1>5, <2>1, <2>3, <2>4, <2>5
          DEF BuildBegin, Seen, OnlyCutsStrand, host, history, Past
<1>6. ASSUME NEW r \in Runs, BuildEnd(r) \/ BuildFails(r) \/ Pull(r) PROVE IInv'
  <2>1. Goto(r, "built") /\ UNCHANGED <<pushed, origin, head, config, gateway, target, building, cut>>
    BY <1>6 DEF BuildEnd, BuildFails, Pull, host
  <2>2. pc' \in [Runs -> Stage] /\ pc'[r] = "built" /\ \A q \in Runs : q # r => pc'[q] = pc[q]
    BY <2>1, GotoPC DEF Stage, Past
  <2>3. image' \in 0..head /\ lost' \subseteq {"build", "order"} /\ pc[r] \in Past
    BY <1>6 DEF BuildEnd, BuildFails, Pull, Unbuilt, host, Past
  <2>4. StartAhead'
    BY <2>2 DEF StartAhead
  <2>6. Starts'
    <3>1. CASE BuildEnd(r)
      BY <2>2, <3>1, StartsBuilt DEF Ahead
    <3>2. CASE BuildFails(r) \/ Pull(r)
      BY <2>2, <3>2, StartsKept DEF BuildFails, Pull, Unbuilt
    <3> QED BY <1>6, <3>1, <3>2
  <2>7. TypeOK'
    <3>1. CASE BuildEnd(r)
      <4>1. reading' \in [Runs -> [config : 0..head, images : SUBSET (0..head)]]
        BY <3>1 DEF BuildEnd
      <4>2. overlaps' \subseteq Runs /\ misled' \subseteq Runs
        BY <3>1 DEF BuildEnd, Starting
      <4> QED BY <2>1, <2>2, <2>3, <4>1, <4>2
    <3>2. CASE BuildFails(r) \/ Pull(r)
      BY <2>1, <2>2, <2>3, <3>2 DEF BuildFails, Pull
    <3> QED BY <1>6, <3>1, <3>2
  <2>5. BuildAhead' /\ ImageFirst'
    <3>1. CASE BuildEnd(r)
      <4>1. /\ building[r] \in 0..head /\ image' = building[r] /\ pc[r] = "building"
            /\ lost' = IF building[r] = head THEN {}
                       ELSE lost \cup IF building[r] < image THEN {"order"} ELSE {}
        BY <3>1 DEF BuildEnd
      <4>2. CASE building[r] = head
        BY <2>1, <4>1, <4>2 DEF BuildAhead, ImageFirst
      <4>3. CASE building[r] # head /\ ~(building[r] < image)
        <5>1. lost' = lost /\ image <= image' /\ image < head
          BY <4>1, <4>3
        <5>2. BuildAhead'
          BY <2>1, <2>2, <4>1, <4>3, <5>1 DEF Ahead, BuildAhead
        <5>3. ImageFirst'
          BY <2>1, <4>1, <5>1 DEF Ahead, ImageFirst
        <5> QED BY <5>2, <5>3
      <4>4. CASE building[r] # head /\ building[r] < image
        <5>1. "order" \in lost'
          BY <4>1, <4>4
        <5> QED BY <5>1 DEF BuildAhead, ImageFirst
      <4> QED BY <4>2, <4>3, <4>4
    <3>2. CASE BuildFails(r) \/ Pull(r)
      <4>1. /\ image' = image /\ lost \subseteq lost'
            /\ image < head => lost' # {}
            /\ "order" \in lost' => "order" \in lost
        BY <3>2 DEF BuildFails, Pull, Unbuilt, host
      <4> QED BY <2>1, <4>1 DEF Ahead, BuildAhead, ImageFirst
    <3> QED BY <1>6, <3>1, <3>2
  <2>8. Seen' /\ OnlyCutsStrand'
    BY <2>1, <2>2, <2>3 DEF Seen, OnlyCutsStrand, Past
  <2> QED BY <2>4, <2>5, <2>6, <2>7, <2>8 DEF Ahead
<1>7. ASSUME NEW r \in Runs, UpBegin(r) PROVE IInv'
  <2>1. pc' \in [Runs -> Stage] /\ pc'[r] = "starting" /\ \A q \in Runs : q # r => pc'[q] = pc[q]
    BY <1>7, GotoPC DEF UpBegin, Stage, Past
  <2>2. TypeOK'
    <3>1. Current \in [config : 0..head, images : SUBSET (0..head)]
      BY DEF Current
    <3>2. reading' \in [Runs -> [config : 0..head, images : SUBSET (0..head)]]
      BY <1>7, <3>1 DEF UpBegin
    <3>3. overlaps' \subseteq Runs /\ misled' \subseteq Runs
      BY <1>7 DEF UpBegin, Starting
    <3> QED BY <1>7, <2>1, <3>2, <3>3 DEF UpBegin, host
  <2>3. Seen' /\ OnlyCutsStrand'
    BY <1>7, <2>1 DEF UpBegin, Seen, OnlyCutsStrand, Past, host
  <2>4. Ahead'
    BY <1>7, <2>1 DEF UpBegin, host, Ahead, BuildAhead, StartAhead, ImageFirst
  <2>5. Starts'
    BY <1>7, <2>1, StartsBegun DEF Ahead
  <2> QED BY <2>2, <2>3, <2>4, <2>5
<1>8. ASSUME NEW r \in Runs, UpEnd(r) \/ UpFails(r) PROVE IInv'
  <2>1. PICK s \in Ends : EndStart(r, s) /\ s # "current"
    BY <1>8 DEF UpEnd, UpFails, Ends
  <2>2. /\ UNCHANGED <<pushed, origin, head, image, target, building, lost>>
        /\ pc[r] = "starting" /\ r \in Starting
        /\ config' \in {config, reading[r].config}
        /\ gateway' \in {gateway} \cup reading[r].images
    BY <1>8 DEF UpEnd, UpFails, Starting
  <2>3. pc' \in [Runs -> Stage] /\ pc'[r] = s /\ \A q \in Runs : q # r => pc'[q] = pc[q]
    BY <2>1, GotoPC DEF EndStart, Stage
  <2>4. TypeOK'
    <3>1. reading[r].config \in 0..head /\ reading[r].images \subseteq 0..head
      OBVIOUS
    <3>2. config' \in 0..head /\ gateway' \in 0..head /\ cut' \in BOOLEAN
      BY <1>8, <2>2, <3>1 DEF UpEnd, UpFails
    <3>3. NotRead \in [config : 0..head, images : SUBSET (0..head)]
      BY DEF NotRead
    <3>4. /\ reading' \in [Runs -> [config : 0..head, images : SUBSET (0..head)]]
          /\ overlaps' \subseteq Runs /\ misled' \subseteq Runs
      BY <2>1, <3>3 DEF EndStart
    <3> QED BY <2>2, <2>3, <3>2, <3>4
  <2>5. Seen'
    BY <2>1, <2>2, <2>3 DEF Seen, Past, Ends
  <2>6. BuildAhead'
    BY <2>1, <2>2, <2>3 DEF Ahead, BuildAhead
  <2>7. ImageFirst'
    BY <2>2 DEF Starts, ReadsImage, Ahead, ImageFirst
  <2>8. ~cut' => /\ r \notin overlaps
                 /\ ~cut \/ reading[r] = Current
                 /\ config' = reading[r].config /\ gateway' \in reading[r].images
    BY <1>8 DEF UpEnd, UpFails
  <2>9. OnlyCutsStrand'
    <3> SUFFICES ASSUME ~cut', config' < head
                 PROVE  \E q \in Runs : pc'[q] \in Past
      BY <2>2 DEF OnlyCutsStrand
    <3>1. reading[r] # Current /\ ~cut
      BY <2>8 DEF Current
    <3>2. PICK q \in Runs : pc[q] \in {"reset", "building", "built"}
      BY <2>2, <2>8, <3>1 DEF Starts, Followed
    <3> QED BY <2>2, <2>3, <3>2 DEF Past
  <2>10. StartAhead'
    <3> SUFFICES ASSUME ~cut', gateway' # image
                 PROVE  \E q \in Runs : pc'[q] \in {"built", "starting"}
      BY <2>2 DEF StartAhead
    <3>1. reading[r].images # {image}
      BY <2>8
    <3>2. reading[r] # Current /\ ~cut
      BY <2>8, <3>1 DEF Current
    <3>3. PICK q \in Runs : pc[q] = "built"
      BY <2>2, <2>8, <3>1, <3>2 DEF Starts, Followed
    <3> QED BY <2>2, <2>3, <3>3
  <2>11. Starts'
    BY <2>1, <2>2, <2>3, <2>8, StartsEnded
  <2> QED BY <2>4, <2>5, <2>6, <2>7, <2>9, <2>10, <2>11 DEF Ahead
<1>9. ASSUME NEW r \in Runs, Fail(r) PROVE IInv'
  <2>1. pc' \in [Runs -> Stage] /\ pc'[r] = "failed" /\ \A q \in Runs : q # r => pc'[q] = pc[q]
    BY <1>9, GotoPC DEF Fail, Stage, Ends
  <2>2. TypeOK'
    BY <1>9, <2>1 DEF Fail, Unbuilt, host
  <2>3. Seen'
    BY <1>9, <2>1 DEF Fail, Seen, Past
  <2>4. ~cut' => ~cut /\ pc[r] \notin Past
    BY <1>9 DEF Fail
  <2>5. OnlyCutsStrand'
    BY <1>9, <2>1, <2>4 DEF Fail, OnlyCutsStrand, host
  <2>6. /\ lost \subseteq lost'
        /\ lost' = {} => pc[r] \notin {"reset", "building"} \/ ~(image < head)
        /\ "order" \in lost' => "order" \in lost
    BY <1>9 DEF Fail, Unbuilt
  <2>7. BuildAhead' /\ ImageFirst'
    BY <1>9, <2>1, <2>6 DEF Fail, host, Ahead, BuildAhead, ImageFirst
  <2>8. StartAhead'
    BY <1>9, <2>1, <2>4 DEF Fail, host, Ahead, StartAhead, Past
  <2>9. Starts'
    BY <1>9, <2>1, <2>4, StartsKept DEF Fail, Unbuilt, Past, Ends
  <2> QED BY <2>2, <2>3, <2>5, <2>7, <2>8, <2>9 DEF Ahead
<1>10. ASSUME UNCHANGED vars PROVE IInv'
  <2>1. TypeOK' /\ Seen' /\ OnlyCutsStrand' /\ Ahead'
    BY <1>10 DEF vars, host, history, Seen, Past, OnlyCutsStrand, Ahead, BuildAhead, StartAhead,
                 ImageFirst
  <2>2. Starts'
    BY <1>10 DEF vars, host, history, Starts, ReadsImage, Apart, Followed, TakesOn, Starting
  <2> QED BY <2>1, <2>2
<1> QED BY <1>1, <1>2, <1>3, <1>4, <1>5, <1>6, <1>7, <1>8, <1>9, <1>10 DEF Next

LEMMA Inductive == Spec => []IInv
<1>1. Init => IInv
  BY InitIInv
<1>2. IInv /\ [Next]_vars => IInv'
  BY NextIInv
<1> QED BY <1>1, <1>2, PTL DEF Spec

\* The versions keep their order: nothing runs, is built or is checked out
\* that was not checked out, fetched and pushed before.
THEOREM TypeCorrect == Spec => []TypeOK
<1>1. IInv => TypeOK
  BY DEF IInv
<1> QED BY <1>1, Inductive, PTL

\* A run that ends well has brought the checkout to the push that started it, or
\* found it there.
THEOREM UpToDate == Spec => []EndMeansPushed
<1>1. IInv => EndMeansPushed
  BY DEF IInv, TypeOK, Seen, EndMeansPushed
<1> QED BY <1>1, Inductive, PTL

\* Whenever no run is at work past its reset, the containers run what is checked
\* out, unless a start or a build was lost and nothing has made up for it.
THEOREM DeliveredAlways == Spec => []Delivered
<1>1. IInv => Delivered
  <2> SUFFICES ASSUME IInv, ~cut, \A r \in Runs : pc[r] \notin Past
               PROVE  config = head /\ (lost = {} => gateway = head)
    BY DEF Delivered
  <2> USE DEF IInv
  <2>1. config = head
    BY DEF TypeOK, OnlyCutsStrand
  <2>2. lost = {} => image = head
    BY DEF TypeOK, Ahead, BuildAhead, Past
  <2>3. gateway = image
    BY DEF Ahead, StartAhead, Past
  <2> QED BY <2>1, <2>2, <2>3
<1> QED BY <1>1, Inductive, PTL

\* The checkout never goes back; what runs goes back only by a start that
\* overlapped another of a different version, and the gateway also after an older
\* build has overtaken a newer one.
THEOREM Forward == Spec => NeverBack
<1> DEFINE Onward == /\ head' >= head
                     /\ config' < config => \E r \in overlaps : StartEnds(r)
                     /\ gateway' < gateway => \E r \in overlaps \cup misled : StartEnds(r)
<1>1. IInv /\ [Next]_vars => [Onward]_vars
  <2> SUFFICES ASSUME IInv, [Next]_vars PROVE Onward
    OBVIOUS
  <2>1. /\ head \in 0..origin /\ config \in 0..head /\ origin \in 0..pushed /\ pushed \in Nat
        /\ gateway \in 0..head
    BY DEF IInv, TypeOK
  <2>2. head' >= head
    BY <2>1 DEF Next, vars, host, Push, Fetch, Compare, Reset, BuildBegin,
       BuildEnd, BuildFails, Pull, UpBegin, UpEnd, UpFails, Fail
  <2>3. CASE \E r \in Runs : UpEnd(r) \/ UpFails(r)
    <3>1. PICK r \in Runs : UpEnd(r) \/ UpFails(r)
      BY <2>3
    <3>2. /\ r \in Starting /\ StartEnds(r)
          /\ config' \in {config, reading[r].config}
          /\ gateway' \in {gateway} \cup reading[r].images
      BY <3>1 DEF UpEnd, UpFails, EndStart, Goto, StartEnds, Starting, IInv, TypeOK
    <3>3. config' < config => r \in overlaps
      <4>1. r \notin overlaps => config <= reading[r].config
        BY <3>2 DEF IInv, Starts, TakesOn
      <4>2. reading[r].config \in 0..head
        BY DEF IInv, TypeOK
      <4> QED BY <2>1, <3>2, <4>1, <4>2
    <3>4. gateway' < gateway => r \in overlaps \cup misled
      <4>1. r \notin overlaps \cup misled => \A n \in reading[r].images : gateway <= n
        BY <3>2 DEF IInv, Starts, TakesOn
      <4>2. reading[r].images \subseteq 0..head
        BY DEF IInv, TypeOK
      <4> QED BY <2>1, <3>2, <4>1, <4>2
    <3> QED BY <2>2, <3>2, <3>3, <3>4
  <2>4. CASE ~\E r \in Runs : UpEnd(r) \/ UpFails(r)
    <3>1. config' = config /\ gateway' = gateway
      BY <2>4 DEF Next, vars, host, Push, Fetch, Compare, Reset, BuildBegin,
         BuildEnd, BuildFails, Pull, UpBegin, Fail
    <3> QED BY <2>1, <2>2, <3>1
  <2> QED BY <2>3, <2>4
<1> QED BY <1>1, Inductive, PTL DEF Spec, NeverBack
=============================================================================
