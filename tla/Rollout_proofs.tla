---------------------------- MODULE Rollout_proofs ----------------------------
(***************************************************************************)
(* Theorems about the roll-out of releases: the catalogue with its         *)
(* channels and the engine over all weighing PCs (RolloutFleet), and one   *)
(* release on its way through one PC, its batch and its self-check to the  *)
(* journal of the center (UpdateChain).                                    *)
(***************************************************************************)
EXTENDS UpdateChain, RolloutFleet, FunctionTheorems, FiniteSetTheorems,
        WellFoundedInduction, TLAPS

(* Of a set of numbers there is a least one. *)
LEMMA Least ==
  ASSUME NEW S \in SUBSET Nat, S # {}
  PROVE  \E i \in S : \A j \in S : i <= j
<1> DEFINE R == {e \in Nat \X Nat : e[1] < e[2]}
<1>1. IsWellFoundedOn(R, Nat)
  <2>1. R = OpToRel(<, Nat)  BY DEF OpToRel
  <2> QED  BY <2>1, NatLessThanWellFounded
<1>2. \A x, y \in Nat : y < x => <<y, x>> \in R  OBVIOUS
<1> HIDE DEF R
<1>3. \E i \in S : \A j \in S : ~(<<j, i>> \in R)  BY <1>1, WFMin
<1>4. PICK i \in S : \A j \in S : ~(<<j, i>> \in R)  BY <1>3
<1>5. \A j \in S : i <= j
  <2> SUFFICES ASSUME NEW j \in S PROVE i <= j  OBVIOUS
  <2>1. i \in Nat /\ j \in Nat  OBVIOUS
  <2>2. ~(j < i)  BY <1>2, <1>4, <2>1
  <2> QED  BY <2>1, <2>2
<1> QED  BY <1>5

-----------------------------------------------------------------------------
(***************************************************************************)
(* The rows of the journal of the roll-out.                                *)
(***************************************************************************)

(* Commands, failures to send, hellos and time leave a row of the journal, *)
(* and none of them but a command makes it take room that took none.       *)
LEMMA RowCommanded == \A r \in Row : Commanded(r) \in Row
BY DEF Row, Commanded, Status, InFlight, Age

LEMMA RowSendFailed == \A r \in Row : SendFailed(r) \in Row /\ ~(TakesRoom(SendFailed(r)) /\ ~TakesRoom(r))
<1> SUFFICES ASSUME NEW r \in Row
             PROVE  SendFailed(r) \in Row /\ ~(TakesRoom(SendFailed(r)) /\ ~TakesRoom(r))
  OBVIOUS
<1>1. CASE r.status = "none"  BY <1>1 DEF SendFailed
<1>2. CASE r.status # "none"
  <2> DEFINE n == IF r.attempts > 0 THEN r.attempts - 1 ELSE 0
  <2>1. n \in Nat  BY DEF Row
  <2>2. SendFailed(r) = [r EXCEPT !.status = "failed", !.age = Settling, !.attempts = n]
    BY <1>2 DEF SendFailed
  <2> HIDE DEF n
  <2>3. SendFailed(r) \in Row /\ SendFailed(r).status = "failed"
    BY <2>1, <2>2 DEF Row, Status, InFlight, Age
  <2> QED  BY <2>3 DEF TakesRoom, InFlight
<1> QED  BY <1>1, <1>2

LEMMA RowOlder == \A r \in Row : Older(r) \in Row /\ (TakesRoom(Older(r)) => TakesRoom(r))
<1> SUFFICES ASSUME NEW r \in Row PROVE Older(r) \in Row /\ (TakesRoom(Older(r)) => TakesRoom(r))
  OBVIOUS
<1>1. CASE r.status \in InFlight \cup {"failed"} /\ r.age # Late
  <2>1. Older(r) = [r EXCEPT !.age = @ + 1]  BY <1>1 DEF Older, InFlight
  <2>2. r.age + 1 \in Age  BY <1>1 DEF Row, Age, Settling, Waiting, Late
  <2>3. Older(r) \in Row /\ Older(r).status = r.status  BY <2>1, <2>2 DEF Row
  <2> QED  BY <1>1, <2>3 DEF TakesRoom
<1>2. CASE r.status = "installed"
  <2>1. ~(r.status \in InFlight \cup {"failed"})  BY <1>2 DEF InFlight
  <2>2. Older(r) = [r EXCEPT !.age = Waiting]  BY <1>2, <2>1 DEF Older
  <2>3. Older(r) \in Row /\ Older(r).status = "installed"  BY <1>2, <2>2 DEF Row, Age
  <2> QED  BY <2>3 DEF TakesRoom, InFlight
<1>3. CASE ~(r.status \in InFlight \cup {"failed"} /\ r.age # Late) /\ r.status # "installed"
  <2>1. Older(r) = r  BY <1>3 DEF Older
  <2> QED  BY <2>1
<1> QED  BY <1>1, <1>2, <1>3

LEMMA RowHello ==
  \A r \in Row : \A v, w : Hello(r, v, w) \in Row /\ (TakesRoom(Hello(r, v, w)) => TakesRoom(r))
<1> SUFFICES ASSUME NEW r \in Row, NEW v, NEW w
             PROVE  Hello(r, v, w) \in Row /\ (TakesRoom(Hello(r, v, w)) => TakesRoom(r))
  OBVIOUS
<1>1. \A s \in {"installed", "rolled_back"} :
        /\ [r EXCEPT !.status = s, !.age = Settling] \in Row
        /\ [r EXCEPT !.status = s, !.age = Settling].status = s
  BY DEF Row, Status, Age
<1>2. \/ Hello(r, v, w) = r
      \/ \E s \in {"installed", "rolled_back"} :
           Hello(r, v, w) = [r EXCEPT !.status = s, !.age = Settling]
  BY DEF Hello
<1> QED  BY <1>1, <1>2 DEF TakesRoom, InFlight

LEMMA RowReported == \A r \in Row, outcome \in Outcome : Reported(r, outcome) \in Row
<1> SUFFICES ASSUME NEW r \in Row, NEW outcome \in Outcome PROVE Reported(r, outcome) \in Row
  OBVIOUS
<1> DEFINE f == ForReport(r)
           fresh == [f EXCEPT !.age = Settling]
<1>1. f \in Row  BY DEF ForReport, NoRow, Row, Status, InFlight, Age
<1>2. fresh \in Row  BY <1>1 DEF Row, Age
<1>3. /\ [fresh EXCEPT !.status = "installed", !.checked = TRUE] \in Row
      /\ \A s \in Status : [fresh EXCEPT !.status = s] \in Row
  <2> HIDE DEF fresh
  <2> QED  BY <1>2 DEF Row, Status
<1>4. {"installed", "rolled_back", "started", "failed"} \subseteq Status  BY DEF Status, InFlight
<1>5. CASE outcome = "started"
  <2>1. Reported(r, outcome) = [fresh EXCEPT !.status =
          IF fresh.status \in {"installed", "rolled_back"} THEN fresh.status ELSE "started"]
    BY <1>5 DEF Reported
  <2>2. (IF fresh.status \in {"installed", "rolled_back"} THEN fresh.status ELSE "started") \in Status
    BY <1>4
  <2> HIDE DEF fresh
  <2> QED  BY <1>3, <2>1, <2>2
<1>6. CASE outcome # "started"
  <2>1. \/ Reported(r, outcome) = f
        \/ Reported(r, outcome) = [fresh EXCEPT !.status = "installed", !.checked = TRUE]
        \/ \E s \in {"rolled_back", "installed", "failed"} :
             Reported(r, outcome) = [fresh EXCEPT !.status = s]
    BY <1>6 DEF Reported, Outcome
  <2> HIDE DEF f, fresh
  <2> QED  BY <1>1, <1>3, <1>4, <2>1
<1> QED  BY <1>5, <1>6

(* The target of a channel, and of an agent, is a release or none. *)
LEMMA TargetIs ==
  /\ \A c : TargetOf(c) \in {Oldest} \cup Release
  /\ \A a : TargetFor(a) \in {Oldest} \cup Release
<1>1. ASSUME NEW c PROVE TargetOf(c) \in {Oldest} \cup Release
  <2>1. CASE Present(c) = {}  BY <2>1 DEF TargetOf
  <2>2. CASE Present(c) # {}
    <3>1. Present(c) \subseteq Release  BY DEF Present
    <3>2. \E n \in Present(c) : \A m \in Present(c) : n <= m
      <4>1. Present(c) \in SUBSET Nat  BY <3>1, ReleaseAssumption
      <4> QED  BY <2>2, <4>1, Least
    <3>3. Min(Present(c)) \in Present(c)  BY <3>2 DEF Min
    <3> QED  BY <2>2, <3>1, <3>3 DEF TargetOf
  <2> QED  BY <2>1, <2>2
<1> QED  BY <1>1 DEF TargetFor

-----------------------------------------------------------------------------
(***************************************************************************)
(* The limit of the engine.                                                *)
(***************************************************************************)

(* The updates that the engine started and that take room; with the items  *)
(* it still has to mark they stay within the limit.                        *)
Counted == {p \in InRoom \cap auto : p \notin past.revived}

LimitKept ==
  /\ service.left \subseteq Pair /\ service.sending \subseteq Pair
  /\ Cardinality(Counted \cup service.left) <= MaxInFlight

(***************************************************************************)
(* The catalogue.                                                          *)
(***************************************************************************)
EditState ==
  [kind : {"none", "channel", "delete"}, v : {0} \cup Release, c : Channel \cup {"none"},
   others : SUBSET Release]

EditsSane ==
  /\ edit \in [Admin -> EditState]
  /\ \A a \in Admin : edit[a].kind # "none" => edit[a].v \in Release

(* As long as no two transactions overlap, there is one at most, and what  *)
(* it has read still holds.                                                *)
OneEditor == \A a, b \in Admin : edit[a] # NoEdit /\ edit[b] # NoEdit => a = b

EditsStand ==
  \A a \in Admin :
    /\ edit[a].kind = "channel" =>
         /\ edit[a].others = LeaveChannel(edit[a].v, edit[a].c)
         /\ edit[a].c \in Channel => edit[a].v \in files
    /\ edit[a].kind = "delete" => chan[edit[a].v] \in {"none", "gone"}

OneEach ==
  \A v \in Release : chan[v] \in Channel =>
    v \in files /\ \A w \in Release : chan[w] = chan[v] => w = v

CatalogKept == ~past.overlap => OneEditor /\ EditsStand /\ OneEach

FleetShapes ==
  /\ files \subseteq Release
  /\ chan \in [Release -> Channel \cup {"none", "gone"}]
  /\ updates \in [Station -> [Release -> Row]]
  /\ saidVersion \in [Station -> {Oldest} \cup Release]
  /\ linked \subseteq Station
  /\ past \in [edits : Nat, reports : Nat, overlap : BOOLEAN, revived : SUBSET Pair]
  /\ service \in [left : SUBSET Pair, sending : SUBSET Pair]

FleetIInv == FleetShapes /\ LimitKept /\ EditsSane /\ CatalogKept

LEMMA PairsFinite == IsFiniteSet(Pair) /\ \A S \in SUBSET Pair : IsFiniteSet(S)
<1>1. IsFiniteSet(Pair)  BY FS_Product, ReleaseAssumption, PilotAssumption DEF Pair
<1> QED  BY <1>1, FS_Subset

(* Fewer updates count, and fewer items wait: the limit is kept. *)
LEMMA FewerCount ==
  ASSUME LimitKept, NEW S \in SUBSET (Counted \cup service.left)
  PROVE  Cardinality(S) <= MaxInFlight
<1>1. Counted \subseteq Pair  BY DEF Counted, InRoom
<1>2. IsFiniteSet(Counted \cup service.left)  BY <1>1, PairsFinite DEF LimitKept
<1>3. Cardinality(S) <= Cardinality(Counted \cup service.left) /\ IsFiniteSet(S)
  BY <1>2, FS_Subset
<1>4. Cardinality(S) \in Nat /\ Cardinality(Counted \cup service.left) \in Nat /\ MaxInFlight \in Nat
  BY <1>2, <1>3, FS_CardinalityType, FleetBounds
<1> QED  BY <1>3, <1>4 DEF LimitKept

LEMMA VersionsAreNumbers ==
  Oldest \in Nat /\ \A v \in Release : v \in Nat /\ v # Oldest /\ v > Oldest
<1>1. \A v \in Release : v \in Nat \ {0}  BY ReleaseAssumption
<1> QED  BY <1>1 DEF Oldest

(* What is promised: the page and the engine look at the same rows, and    *)
(* the rest follows from what is kept.                                     *)
LEMMA PanelSees == ASSUME FleetShapes PROVE PanelAgreesWithEngine
<1> SUFFICES ASSUME NEW a \in Station
             PROVE  /\ StatusOf(a) = "pending" =>
                         a \in Wanted \/ \E v \in Release : ~Settled(updates[a][v])
                    /\ a \in Wanted => StatusOf(a) \in {"pending", "failed", "commanded", "started"}
  BY DEF PanelAgreesWithEngine
<1> DEFINE t == TargetFor(a)
<1>1. t \in {Oldest} \cup Release  BY TargetIs
<1>2. saidVersion[a] \in Nat
  <2>1. saidVersion[a] \in {Oldest} \cup Release  BY DEF FleetShapes
  <2> QED  BY <2>1, VersionsAreNumbers
<1>3. StatusOf(a) =
        IF t = Oldest THEN "no_target"
        ELSE IF saidVersion[a] >= t
             THEN IF updates[a][t].status = "installed" THEN "installed" ELSE "current"
        ELSE IF updates[a][t].status = "none" THEN IF a \in linked THEN "pending" ELSE "offline"
        ELSE IF updates[a][t].status \in InFlight /\ a \notin linked THEN "offline"
        ELSE updates[a][t].status
  BY DEF StatusOf
<1>4. a \in Wanted <=> /\ a \in linked /\ t > saidVersion[a]
                       /\ \A v \in Release : Settled(updates[a][v])
                       /\ ShouldSend(updates[a][t])
  BY DEF Wanted
<1> HIDE DEF t
<1>5. CASE t = Oldest
  <2>1. ~(t > saidVersion[a])  BY <1>2, <1>5 DEF Oldest
  <2> QED  BY <1>3, <1>4, <1>5, <2>1
<1>6. CASE t \in Release /\ saidVersion[a] >= t
  <2>1. t \in Nat /\ t # Oldest  BY <1>6, VersionsAreNumbers
  <2>2. ~(t > saidVersion[a])  BY <1>2, <1>6, <2>1
  <2>3. StatusOf(a) \in {"installed", "current"}  BY <1>3, <1>6, <2>1
  <2> QED  BY <1>4, <2>2, <2>3
<1>7. CASE t \in Release /\ ~(saidVersion[a] >= t)
  <2>1. t > saidVersion[a] /\ t # Oldest  BY <1>2, <1>7, VersionsAreNumbers
  <2>2. updates[a][t] \in Row  BY <1>7 DEF FleetShapes
  <2>3. updates[a][t].status \in Status  BY <2>2 DEF Row
  <2> HIDE DEF Row
  <2> DEFINE s == updates[a][t].status
  <2>4. StatusOf(a) = IF s = "none" THEN IF a \in linked THEN "pending" ELSE "offline"
                      ELSE IF s \in InFlight /\ a \notin linked THEN "offline" ELSE s
    BY <1>3, <1>7, <2>1 DEF InFlight
  <2>5. ShouldSend(updates[a][t]) => s \in {"none", "failed", "commanded", "started"}
    BY DEF ShouldSend, InFlight
  <2>6. s = "none" => ShouldSend(updates[a][t])  BY DEF ShouldSend
  <2> HIDE DEF s
  <2>7. s # "pending"  BY <2>3 DEF Status, InFlight, s
  <2> QED  BY <1>4, <2>1, <2>4, <2>5, <2>6, <2>7
<1> QED  BY <1>1, <1>5, <1>6, <1>7

LEMMA FleetIsPromised == ASSUME FleetIInv PROVE FleetInv
<1>1. FleetTypeOK  BY DEF FleetIInv, FleetShapes, FleetTypeOK
<1>2. EngineWithinLimit
  <2>1. Counted \in SUBSET (Counted \cup service.left)  OBVIOUS
  <2> QED  BY <2>1, FewerCount DEF FleetIInv, EngineWithinLimit, Counted
<1>3. OneVersionPerChannel
  <2> SUFFICES ASSUME OneEach, NEW c \in Channel
               PROVE  /\ Cardinality({v \in Release : chan[v] = c}) <= 1
                      /\ {v \in Release : chan[v] = c} \subseteq files
    BY DEF OneVersionPerChannel, FleetIInv, CatalogKept
  <2>1. {v \in Release : chan[v] = c} \subseteq files  BY DEF OneEach
  <2>2. CASE {v \in Release : chan[v] = c} = {}  BY <2>2, FS_EmptySet
  <2>3. ASSUME NEW v \in Release, chan[v] = c
        PROVE  Cardinality({w \in Release : chan[w] = c}) <= 1
    <3>1. {w \in Release : chan[w] = c} = {v}  BY <2>3 DEF OneEach
    <3> QED  BY <3>1, FS_Singleton
  <2> QED  BY <2>1, <2>2, <2>3
<1>4. PanelAgreesWithEngine  BY PanelSees DEF FleetIInv
<1> QED  BY <1>1, <1>2, <1>3, <1>4 DEF FleetInv

(* The greater and the lesser of two numbers. *)
LEMMA MaxOfTwo == \A i \in Int : Max({0, i}) = IF i > 0 THEN i ELSE 0
<1> SUFFICES ASSUME NEW i \in Int PROVE Max({0, i}) = IF i > 0 THEN i ELSE 0  OBVIOUS
<1> DEFINE m == IF i > 0 THEN i ELSE 0
<1>1. m \in {0, i} /\ m \in Int /\ \A y \in {0, i} : m >= y  OBVIOUS
<1>2. \A x \in {0, i} : (\A y \in {0, i} : x >= y) => x = m  OBVIOUS
<1> HIDE DEF m
<1>3. Max({0, i}) = CHOOSE x \in {0, i} : \A y \in {0, i} : x >= y  BY DEF Max
<1>4. Max({0, i}) = m  BY <1>1, <1>2, <1>3
<1> QED  BY <1>4 DEF m

LEMMA MinOfTwo == \A i, j \in Int : Min({i, j}) <= i
<1> SUFFICES ASSUME NEW i \in Int, NEW j \in Int PROVE Min({i, j}) <= i  OBVIOUS
<1>1. \E x \in {i, j} : \A y \in {i, j} : x <= y  OBVIOUS
<1>2. Min({i, j}) = CHOOSE x \in {i, j} : \A y \in {i, j} : x <= y  BY DEF Min
<1> QED  BY <1>1, <1>2

-----------------------------------------------------------------------------
(***************************************************************************)
(* The steps.                                                              *)
(***************************************************************************)

(* Nothing new counts. *)
LEMMA NoMoreCount ==
  ASSUME LimitKept, service'.left \subseteq Pair, service'.sending \subseteq Pair,
         Counted' \cup service'.left \subseteq Counted \cup service.left
  PROVE  LimitKept'
<1>1. Cardinality(Counted' \cup service'.left) <= MaxInFlight  BY FewerCount
<1>2. Pair' = Pair /\ MaxInFlight' = MaxInFlight  BY DEF Pair
<1>3. LimitKept' <=> /\ service'.left \subseteq Pair' /\ service'.sending \subseteq Pair'
                     /\ Cardinality(Counted' \cup service'.left) <= MaxInFlight
  BY DEF LimitKept
<1> QED  BY <1>1, <1>2, <1>3

(* A row is set, the others stay. *)
LEMMA RowSet ==
  ASSUME FleetShapes, NEW p \in Pair, NEW new \in Row, SetRow(p, new)
  PROVE  /\ updates' \in [Station -> [Release -> Row]]
         /\ \A q \in Pair : RowOf(q)' = IF q = p THEN new ELSE RowOf(q)
<1>1. p[1] \in Station /\ p[2] \in Release  BY DEF Pair
<1>2. updates' = [updates EXCEPT ![p[1]] = [updates[p[1]] EXCEPT ![p[2]] = new]]
  BY <1>1 DEF SetRow, FleetShapes
<1>3. [updates[p[1]] EXCEPT ![p[2]] = new] \in [Release -> Row]  BY <1>1 DEF FleetShapes
<1>4. updates' \in [Station -> [Release -> Row]]  BY <1>2, <1>3 DEF FleetShapes
<1>5. ASSUME NEW q \in Pair PROVE RowOf(q)' = IF q = p THEN new ELSE RowOf(q)
  <2>1. q[1] \in Station /\ q[2] \in Release /\ q = <<q[1], q[2]>> /\ p = <<p[1], p[2]>>
    BY DEF Pair
  <2>2. CASE q = p  BY <1>1, <1>2, <2>2 DEF RowOf, FleetShapes
  <2>3. CASE q # p /\ q[1] = p[1]
    <3>1. q[2] # p[2]  BY <2>1, <2>3
    <3>2. updates'[q[1]] = [updates[p[1]] EXCEPT ![p[2]] = new]
      BY <1>1, <1>2, <2>3 DEF FleetShapes
    <3>3. updates'[q[1]][q[2]] = updates[q[1]][q[2]]
      BY <1>1, <2>1, <2>3, <3>1, <3>2 DEF FleetShapes
    <3> QED  BY <2>3, <3>3 DEF RowOf
  <2>4. CASE q # p /\ q[1] # p[1]
    <3>1. updates'[q[1]] = updates[q[1]]  BY <1>1, <1>2, <2>1, <2>4 DEF FleetShapes
    <3> QED  BY <2>4, <3>1 DEF RowOf
  <2> QED  BY <2>2, <2>3, <2>4
<1> QED  BY <1>4, <1>5

LEMMA FleetStarts == FleetInit => FleetIInv
<1> SUFFICES ASSUME FleetInit PROVE FleetIInv  OBVIOUS
<1> USE DEF FleetInit
<1>1. NoRow \in Row /\ ~TakesRoom(NoRow)  BY DEF NoRow, Row, Status, InFlight, Age, TakesRoom
<1>2. FleetShapes
  <2>1. chan \in [Release -> Channel \cup {"none", "gone"}]  BY DEF Channel
  <2>2. updates \in [Station -> [Release -> Row]]  BY <1>1
  <2>3. past \in [edits : Nat, reports : Nat, overlap : BOOLEAN, revived : SUBSET Pair]  OBVIOUS
  <2>4. service \in [left : SUBSET Pair, sending : SUBSET Pair]  BY DEF NoItems
  <2>5. files \subseteq Release /\ linked \subseteq Station
        /\ saidVersion \in [Station -> {Oldest} \cup Release]
    OBVIOUS
  <2> QED  BY <2>1, <2>2, <2>3, <2>4, <2>5 DEF FleetShapes
<1>3. LimitKept
  <2>1. Counted = {} /\ service.left = {} /\ service.sending = {}  BY DEF Counted, NoItems
  <2>2. Counted \cup service.left = {} /\ Cardinality({}) = 0  BY <2>1, FS_EmptySet
  <2>3. MaxInFlight \in Nat  BY FleetBounds
  <2> QED  BY <2>1, <2>2, <2>3 DEF LimitKept
<1>4. EditsSane  BY DEF EditsSane, EditState, NoEdit
<1>5. CatalogKept
  <2>1. OneEditor /\ EditsStand  BY DEF OneEditor, EditsStand, NoEdit
  <2>2. \A v \in Release : chan[v] \in Channel => v = Max(Release)  BY DEF Channel
  <2>3. OneEach  BY <2>2 DEF OneEach
  <2> QED  BY <2>1, <2>3 DEF CatalogKept
<1> QED  BY <1>2, <1>3, <1>4, <1>5 DEF FleetIInv

(* The steps of the catalogue touch neither the rows nor the engine. *)
LEMMA EngineRests ==
  ASSUME FleetIInv, UNCHANGED <<updates, auto, service, past.revived>>
  PROVE  LimitKept'
<1>1. Counted' = Counted  BY DEF Counted, InRoom, RowOf, Pair
<1>2. Pair' = Pair  BY DEF Pair
<1> QED  BY <1>1, <1>2 DEF FleetIInv, LimitKept

(* A transaction begins: it is the only one, or it overlaps another. *)
LEMMA Begins ==
  ASSUME FleetIInv, NEW a \in Admin, NEW new \in EditState, new.kind # "none" => new.v \in Release,
         Begin(a, new)
  PROVE  /\ edit' \in [Admin -> EditState]
         /\ EditsSane'
         /\ past' \in [edits : Nat, reports : Nat, overlap : BOOLEAN, revived : SUBSET Pair]
         /\ past'.revived = past.revived
         /\ ~past'.overlap => ~past.overlap /\ \A b \in Admin : edit'[b] = IF b = a THEN new ELSE NoEdit
<1>1. edit' = [edit EXCEPT ![a] = new]  BY DEF Begin
<1>2. edit' \in [Admin -> EditState]  BY <1>1 DEF FleetIInv, EditsSane
<1>3. EditsSane'
  <2>1. \A b \in Admin : edit'[b].kind # "none" => edit'[b].v \in Release
    BY <1>1 DEF FleetIInv, EditsSane
  <2>2. EditsSane' <=> edit' \in [Admin -> EditState] /\ \A b \in Admin : edit'[b].kind # "none" => edit'[b].v \in Release
    BY DEF EditsSane, EditState
  <2> QED  BY <1>2, <2>1, <2>2
<1> DEFINE o == past.overlap \/ \E b \in Admin \ {a} : edit[b] # NoEdit
<1>4. past' = [past EXCEPT !.edits = @ + 1, !.overlap = o]  BY DEF Begin
<1>5. o \in BOOLEAN  OBVIOUS
<1> HIDE DEF o
<1>6. past \in [edits : Nat, reports : Nat, overlap : BOOLEAN, revived : SUBSET Pair]
  BY DEF FleetIInv, FleetShapes
<1>7. past.edits + 1 \in Nat  BY <1>6
<1>8. /\ past' \in [edits : Nat, reports : Nat, overlap : BOOLEAN, revived : SUBSET Pair]
      /\ past'.revived = past.revived /\ past'.overlap = o
  BY <1>4, <1>5, <1>6, <1>7
<1>9. ASSUME ~o PROVE ~past.overlap /\ \A b \in Admin : edit'[b] = IF b = a THEN new ELSE NoEdit
  BY <1>1, <1>9 DEF o, FleetIInv, EditsSane
<1> QED  BY <1>2, <1>3, <1>8, <1>9

(* What the invariant says of the catalogue, of the state after a step. *)
LEMMA CatalogStays ==
  ASSUME FleetIInv, UNCHANGED <<files, chan, edit, past.overlap>>
  PROVE  EditsSane' /\ CatalogKept'
<1>1. EditsSane'  BY DEF FleetIInv, EditsSane, EditState
<1>2. CatalogKept'
  <2>1. OneEditor' <=> OneEditor  BY DEF OneEditor, NoEdit
  <2>2. EditsStand' <=> EditsStand  BY DEF EditsStand, LeaveChannel
  <2>3. OneEach' <=> OneEach  BY DEF OneEach
  <2> QED  BY <2>1, <2>2, <2>3 DEF FleetIInv, CatalogKept
<1> QED  BY <1>1, <1>2

LEMMA ChannelBeginsKeeps ==
  ASSUME FleetIInv, NEW a \in Admin, NEW v \in Release, NEW c \in Channel \cup {"none"},
         ChannelBegins(a, v, c)
  PROVE  FleetIInv'
<1> DEFINE new == [kind |-> "channel", v |-> v, c |-> c, others |-> LeaveChannel(v, c)]
<1>1. new \in EditState /\ new.kind = "channel" /\ new.v = v /\ new.c = c
      /\ new.others = LeaveChannel(v, c)
  BY DEF EditState, LeaveChannel
<1>2. Begin(a, new) /\ UNCHANGED <<files, chan, updates, auto, saidVersion, linked, service>>
      /\ (v \in files \/ c = "none")
  BY DEF ChannelBegins
<1> HIDE DEF new
<1>3. /\ EditsSane'
      /\ past' \in [edits : Nat, reports : Nat, overlap : BOOLEAN, revived : SUBSET Pair]
      /\ past'.revived = past.revived
      /\ ~past'.overlap => ~past.overlap /\ \A b \in Admin : edit'[b] = IF b = a THEN new ELSE NoEdit
  BY <1>1, <1>2, Begins
<1>4. FleetShapes'  BY <1>2, <1>3 DEF FleetIInv, FleetShapes, Pair
<1>5. LimitKept'  BY <1>2, <1>3, EngineRests
<1>6. CatalogKept'
  <2> SUFFICES ASSUME ~past'.overlap PROVE OneEditor' /\ EditsStand' /\ OneEach'
    BY DEF CatalogKept
  <2>1. ~past.overlap /\ \A b \in Admin : edit'[b] = IF b = a THEN new ELSE NoEdit  BY <1>3
  <2>2. OneEditor'  BY <2>1 DEF OneEditor
  <2>3. EditsStand'
    <3>1. LeaveChannel(v, c)' = LeaveChannel(v, c)  BY <1>2 DEF LeaveChannel
    <3>2. c \in Channel => v \in files'  BY <1>2 DEF Channel
    <3>3. \A b \in Admin : edit'[b].kind \in {"channel", "delete"} => b = a /\ edit'[b] = new
      BY <2>1 DEF NoEdit
    <3>4. ASSUME NEW b \in Admin
          PROVE  /\ edit'[b].kind = "channel" =>
                      /\ edit'[b].others = LeaveChannel(edit[b].v, edit[b].c)'
                      /\ edit'[b].c \in Channel => edit'[b].v \in files'
                 /\ edit'[b].kind = "delete" => chan'[edit'[b].v] \in {"none", "gone"}
      <4>1. CASE edit'[b] = new
        <5>1. LeaveChannel(edit[b].v, edit[b].c)' = LeaveChannel(v, c)'
          BY <1>1, <4>1 DEF LeaveChannel
        <5> QED  BY <1>1, <3>1, <3>2, <4>1, <5>1
      <4>2. CASE edit'[b] # new  BY <3>3, <4>2
      <4> QED  BY <4>1, <4>2
    <3> QED  BY <3>4 DEF EditsStand
  <2>4. OneEach'  BY <1>2, <2>1 DEF OneEach, FleetIInv, CatalogKept
  <2> QED  BY <2>2, <2>3, <2>4
<1> QED  BY <1>3, <1>4, <1>5, <1>6 DEF FleetIInv

LEMMA ChannelCommitsKeeps ==
  ASSUME FleetIInv, NEW a \in Admin, ChannelCommits(a)
  PROVE  FleetIInv'
<1> DEFINE e == edit[a]
           moved == [w \in Release |-> IF w = e.v THEN e.c
                                       ELSE IF w \in e.others THEN "none" ELSE chan[w]]
<1>1. /\ e.kind = "channel"
      /\ chan' = IF \E w \in e.others : chan[w] = "gone" THEN chan ELSE moved
      /\ edit' = [edit EXCEPT ![a] = NoEdit]
      /\ UNCHANGED <<files, updates, auto, saidVersion, linked, service, past>>
  BY DEF ChannelCommits
<1>2. e \in EditState /\ e.v \in Release  BY <1>1 DEF FleetIInv, EditsSane
<1> HIDE DEF e
<1>3. moved \in [Release -> Channel \cup {"none", "gone"}]
  BY <1>2 DEF FleetIInv, FleetShapes, EditState
<1>4. FleetShapes'
  <2>1. chan' \in [Release -> Channel \cup {"none", "gone"}]
    BY <1>1, <1>3 DEF FleetIInv, FleetShapes
  <2> QED  BY <1>1, <2>1 DEF FleetIInv, FleetShapes, Pair
<1>5. LimitKept'  BY <1>1, EngineRests
<1>6. EditsSane' /\ \A b \in Admin : edit'[b] = IF b = a THEN NoEdit ELSE edit[b]
  BY <1>1 DEF FleetIInv, EditsSane, EditState, NoEdit
<1>7. CatalogKept'
  <2> SUFFICES ASSUME ~past'.overlap PROVE OneEditor' /\ EditsStand' /\ OneEach'
    BY DEF CatalogKept
  <2>1. OneEditor /\ EditsStand /\ OneEach  BY <1>1 DEF FleetIInv, CatalogKept
  <2>2. e # NoEdit  BY <1>1 DEF NoEdit
  <2>3. \A b \in Admin : edit'[b] = NoEdit  BY <1>6, <2>1, <2>2 DEF OneEditor, e
  <2>4. OneEditor'  BY <2>3 DEF OneEditor
  <2>5. EditsStand'  BY <2>3 DEF EditsStand, NoEdit
  <2>6. OneEach'
    <3>1. CASE chan' = chan  BY <1>1, <2>1, <3>1 DEF OneEach
    <3>2. CASE chan' = moved
      <4>1. e.others = LeaveChannel(e.v, e.c) /\ (e.c \in Channel => e.v \in files)
        BY <1>1, <2>1 DEF EditsStand, e
      <4>2. ASSUME NEW v \in Release, chan'[v] \in Channel
            PROVE  v \in files /\ \A w \in Release : chan'[w] = chan'[v] => w = v
        <5>1. \A w \in Release : chan'[w] = IF w = e.v THEN e.c
                                            ELSE IF w \in e.others THEN "none" ELSE chan[w]
          BY <3>2
        <5>2. CASE v = e.v
          <6>1. e.c \in Channel  BY <4>2, <5>1, <5>2
          <6>2. ASSUME NEW w \in Release, w # e.v PROVE chan'[w] # e.c
            <7>1. e.c # "none"  BY <6>1 DEF Channel
            <7>2. chan[w] = e.c => w \in e.others  BY <4>1, <6>2, <7>1 DEF LeaveChannel
            <7> QED  BY <5>1, <6>2, <7>1, <7>2
          <6> QED  BY <4>1, <5>1, <5>2, <6>1, <6>2
        <5>3. CASE v # e.v
          <6>1. chan'[v] = chan[v] /\ v \notin e.others  BY <4>2, <5>1, <5>3 DEF Channel
          <6>2. v \in files /\ \A w \in Release : chan[w] = chan[v] => w = v
            BY <2>1, <4>2, <6>1 DEF OneEach
          <6>3. e.c # chan[v]
            <7>1. e.c # "none" /\ chan[v] = e.c => v \in e.others
              BY <4>1, <5>3 DEF LeaveChannel
            <7> QED  BY <4>2, <6>1, <7>1 DEF Channel
          <6>4. chan[v] # "none"  BY <4>2, <6>1 DEF Channel
          <6>5. \A w \in Release : chan'[w] = chan[v] => chan[w] = chan[v]
            BY <5>1, <6>3, <6>4
          <6> QED  BY <6>1, <6>2, <6>5
        <5> QED  BY <5>2, <5>3
      <4> QED  BY <1>1, <4>2 DEF OneEach
    <3> QED  BY <1>1, <3>1, <3>2
  <2> QED  BY <2>4, <2>5, <2>6
<1> QED  BY <1>4, <1>5, <1>6, <1>7 DEF FleetIInv

LEMMA DeleteBeginsKeeps ==
  ASSUME FleetIInv, NEW a \in Admin, NEW v \in Release, DeleteBegins(a, v)
  PROVE  FleetIInv'
<1> DEFINE new == [NoEdit EXCEPT !.kind = "delete", !.v = v]
<1>1. new \in EditState /\ new.kind = "delete" /\ new.v = v  BY DEF EditState, NoEdit
<1>2. /\ Begin(a, new) /\ chan[v] \in {"none", "gone"} /\ files' = files \ {v}
      /\ UNCHANGED <<chan, updates, auto, saidVersion, linked, service>>
  BY DEF DeleteBegins
<1> HIDE DEF new
<1>3. /\ EditsSane'
      /\ past' \in [edits : Nat, reports : Nat, overlap : BOOLEAN, revived : SUBSET Pair]
      /\ past'.revived = past.revived
      /\ ~past'.overlap => ~past.overlap /\ \A b \in Admin : edit'[b] = IF b = a THEN new ELSE NoEdit
  BY <1>1, <1>2, Begins
<1>4. FleetShapes'  BY <1>2, <1>3 DEF FleetIInv, FleetShapes, Pair
<1>5. LimitKept'  BY <1>2, <1>3, EngineRests
<1>6. CatalogKept'
  <2> SUFFICES ASSUME ~past'.overlap PROVE OneEditor' /\ EditsStand' /\ OneEach'
    BY DEF CatalogKept
  <2>1. ~past.overlap /\ \A b \in Admin : edit'[b] = IF b = a THEN new ELSE NoEdit  BY <1>3
  <2>2. OneEditor'  BY <2>1 DEF OneEditor
  <2>3. EditsStand'
    <3>1. \A b \in Admin : /\ edit'[b].kind # "channel"
                           /\ edit'[b].kind = "delete" => edit'[b].v = v
      BY <1>1, <2>1 DEF NoEdit
    <3> QED  BY <1>2, <3>1 DEF EditsStand
  <2>4. OneEach'
    <3>1. OneEach  BY <2>1 DEF FleetIInv, CatalogKept
    <3>2. \A w \in Release : chan[w] \in Channel => w # v  BY <1>2 DEF Channel
    <3> QED  BY <1>2, <3>1, <3>2 DEF OneEach
  <2> QED  BY <2>2, <2>3, <2>4
<1> QED  BY <1>3, <1>4, <1>5, <1>6 DEF FleetIInv

LEMMA DeleteCommitsKeeps ==
  ASSUME FleetIInv, NEW a \in Admin, DeleteCommits(a)
  PROVE  FleetIInv'
<1> DEFINE v == edit[a].v
<1>1. /\ edit[a].kind = "delete"
      /\ chan' = [chan EXCEPT ![v] = "gone"]
      /\ edit' = [edit EXCEPT ![a] = NoEdit]
      /\ UNCHANGED <<files, updates, auto, saidVersion, linked, service, past>>
  BY DEF DeleteCommits
<1>2. v \in Release  BY <1>1 DEF FleetIInv, EditsSane
<1> HIDE DEF v
<1>3. /\ chan' \in [Release -> Channel \cup {"none", "gone"}]
      /\ \A w \in Release : chan'[w] = IF w = v THEN "gone" ELSE chan[w]
  BY <1>1, <1>2 DEF FleetIInv, FleetShapes
<1>4. FleetShapes'  BY <1>1, <1>3 DEF FleetIInv, FleetShapes, Pair
<1>5. LimitKept'  BY <1>1, EngineRests
<1>6. EditsSane' /\ \A b \in Admin : edit'[b] = IF b = a THEN NoEdit ELSE edit[b]
  BY <1>1 DEF FleetIInv, EditsSane, EditState, NoEdit
<1>7. CatalogKept'
  <2> SUFFICES ASSUME ~past'.overlap PROVE OneEditor' /\ EditsStand' /\ OneEach'
    BY DEF CatalogKept
  <2>1. OneEditor /\ OneEach  BY <1>1 DEF FleetIInv, CatalogKept
  <2>2. edit[a] # NoEdit  BY <1>1 DEF NoEdit
  <2>3. \A b \in Admin : edit'[b] = NoEdit  BY <1>6, <2>1, <2>2 DEF OneEditor
  <2>4. OneEditor'  BY <2>3 DEF OneEditor
  <2>5. EditsStand'  BY <2>3 DEF EditsStand, NoEdit
  <2>6. OneEach'  BY <1>1, <1>3, <2>1 DEF OneEach, Channel
  <2> QED  BY <2>4, <2>5, <2>6
<1> QED  BY <1>4, <1>5, <1>6, <1>7 DEF FleetIInv

LEMMA UploadKeeps ==
  ASSUME FleetIInv, NEW a \in Admin, NEW v \in Release, Upload(a, v)
  PROVE  FleetIInv'
<1>1. /\ v \notin files /\ edit[a] = NoEdit /\ files' = files \cup {v}
      /\ chan' = IF chan[v] = "gone" THEN [chan EXCEPT ![v] = "none"] ELSE chan
      /\ past' = [past EXCEPT !.edits = @ + 1]
      /\ UNCHANGED <<edit, updates, auto, saidVersion, linked, service>>
  BY DEF Upload
<1>2. /\ chan' \in [Release -> Channel \cup {"none", "gone"}]
      /\ \A w \in Release : chan'[w] = IF w = v /\ chan[v] = "gone" THEN "none" ELSE chan[w]
  BY <1>1 DEF FleetIInv, FleetShapes
<1>3. /\ past' \in [edits : Nat, reports : Nat, overlap : BOOLEAN, revived : SUBSET Pair]
      /\ past'.revived = past.revived /\ past'.overlap = past.overlap
  <2>1. past \in [edits : Nat, reports : Nat, overlap : BOOLEAN, revived : SUBSET Pair]
    BY DEF FleetIInv, FleetShapes
  <2>2. past.edits + 1 \in Nat  BY <2>1
  <2> QED  BY <1>1, <2>1, <2>2
<1>4. FleetShapes'  BY <1>1, <1>2, <1>3 DEF FleetIInv, FleetShapes, Pair
<1>5. LimitKept'  BY <1>1, <1>3, EngineRests
<1>6. EditsSane'  BY <1>1 DEF FleetIInv, EditsSane, EditState
<1>7. CatalogKept'
  <2> SUFFICES ASSUME ~past'.overlap PROVE OneEditor' /\ EditsStand' /\ OneEach'
    BY DEF CatalogKept
  <2>1. OneEditor /\ EditsStand /\ OneEach  BY <1>3 DEF FleetIInv, CatalogKept
  <2>2. OneEditor'  BY <1>1, <2>1 DEF OneEditor, NoEdit
  <2>3. EditsStand'
    <3> SUFFICES ASSUME NEW b \in Admin
                 PROVE  /\ edit[b].kind = "channel" =>
                             /\ edit[b].others = LeaveChannel(edit[b].v, edit[b].c)'
                             /\ edit[b].c \in Channel => edit[b].v \in files'
                        /\ edit[b].kind = "delete" => chan'[edit[b].v] \in {"none", "gone"}
      BY <1>1 DEF EditsStand, LeaveChannel
    <3>1. edit[b] \in EditState /\ (edit[b].kind # "none" => edit[b].v \in Release)
      BY DEF FleetIInv, EditsSane
    <3>2. edit[b].kind = "channel" =>
            /\ edit[b].others = LeaveChannel(edit[b].v, edit[b].c)'
            /\ edit[b].c \in Channel => edit[b].v \in files'
      <4>1. edit[b].c \in Channel \cup {"none"}  BY <3>1 DEF EditState
      <4>2. edit[b].c \in Channel => \A w \in Release : chan'[w] = edit[b].c <=> chan[w] = edit[b].c
        BY <1>2 DEF Channel
      <4>3. LeaveChannel(edit[b].v, edit[b].c)' = LeaveChannel(edit[b].v, edit[b].c)
        <5>1. CASE edit[b].c = "none"  BY <1>1, <5>1 DEF LeaveChannel
        <5>2. CASE edit[b].c \in Channel
          BY <1>1, <4>2, <5>2 DEF LeaveChannel, Channel
        <5> QED  BY <4>1, <5>1, <5>2
      <4> QED  BY <1>1, <2>1, <4>3 DEF EditsStand
    <3>3. edit[b].kind = "delete" => chan'[edit[b].v] \in {"none", "gone"}
      BY <1>2, <2>1, <3>1 DEF EditsStand
    <3> QED  BY <3>2, <3>3
  <2>4. OneEach'  BY <1>1, <1>2, <2>1 DEF OneEach, Channel
  <2> QED  BY <2>2, <2>3, <2>4
<1> QED  BY <1>4, <1>5, <1>6, <1>7 DEF FleetIInv

LEMMA TickPlansKeeps == ASSUME FleetIInv, TickPlans PROVE FleetIInv'
<1>1. PICK agents \in SUBSET Wanted :
        /\ agents # {} /\ Cardinality(agents) = Min({Room, Cardinality(Wanted)})
        /\ service' = [NoItems EXCEPT !.left = {<<a, TargetFor(a)>> : a \in agents}]
  BY DEF TickPlans
<1>2. service = NoItems
      /\ UNCHANGED <<files, chan, edit, updates, auto, saidVersion, linked, past>>
  BY DEF TickPlans
<1> DEFINE items == {<<a, TargetFor(a)>> : a \in agents}
<1>3. service' = [left |-> items, sending |-> {}]  BY <1>1 DEF NoItems
<1>4. items \subseteq Pair
  <2> SUFFICES ASSUME NEW a \in agents PROVE <<a, TargetFor(a)>> \in Pair  OBVIOUS
  <2>1. a \in linked /\ TargetFor(a) > saidVersion[a]  BY DEF Wanted
  <2>2. a \in Station  BY <2>1 DEF FleetIInv, FleetShapes
  <2>3. saidVersion[a] \in {Oldest} \cup Release  BY <2>2 DEF FleetIInv, FleetShapes
  <2>4. saidVersion[a] \in Nat /\ TargetFor(a) \in {Oldest} \cup Release
    BY <2>3, VersionsAreNumbers, TargetIs
  <2>5. TargetFor(a) # Oldest  BY <2>1, <2>4 DEF Oldest
  <2> QED  BY <2>2, <2>4, <2>5 DEF Pair
<1>5. FleetShapes'  BY <1>2, <1>3, <1>4 DEF FleetIInv, FleetShapes, Pair
<1>6. EditsSane' /\ CatalogKept'  BY <1>2, CatalogStays
<1>7. IsFiniteSet(agents) /\ IsFiniteSet(Wanted)
      /\ Cardinality(agents) \in Nat \ {0} /\ Cardinality(Wanted) \in Nat
  <2>1. Wanted \subseteq Station  BY DEF Wanted, FleetIInv, FleetShapes
  <2>2. IsFiniteSet(Wanted) /\ IsFiniteSet(agents)  BY <2>1, FS_Subset, PilotAssumption
  <2>3. Cardinality(agents) \in Nat /\ Cardinality(Wanted) \in Nat  BY <2>2, FS_CardinalityType
  <2>4. Cardinality(agents) # 0  BY <1>1, <2>2, FS_EmptySet
  <2> QED  BY <2>2, <2>3, <2>4
<1>8. Cardinality(items) <= Cardinality(agents) /\ IsFiniteSet(items)
  <2> DEFINE f == [a \in agents |-> <<a, TargetFor(a)>>]
  <2>1. f \in Surjection(agents, items)  BY DEF Surjection
  <2> HIDE DEF f, items
  <2> QED  BY <1>7, <2>1, FS_Surjection
<1>9. IsFiniteSet(InRoom) /\ Cardinality(InRoom) \in Nat
  <2>1. InRoom \subseteq Pair  BY DEF InRoom
  <2> QED  BY <2>1, PairsFinite, FS_CardinalityType
<1>10. Cardinality(agents) <= Room
  <2>1. MaxInFlight \in Nat  BY FleetBounds
  <2>2. Room \in Int
    <3>1. MaxInFlight - Cardinality(InRoom) \in Int  BY <1>9, <2>1
    <3>2. \A i \in Int : Max({0, i}) = IF i > 0 THEN i ELSE 0  BY MaxOfTwo
    <3> QED  BY <3>1, <3>2 DEF Room
  <2> QED  BY <1>1, <1>7, <2>2, MinOfTwo
<1>11. Cardinality(InRoom) + Cardinality(agents) <= MaxInFlight
  <2>1. MaxInFlight \in Nat  BY FleetBounds
  <2> DEFINE i == MaxInFlight - Cardinality(InRoom)
  <2>2. i \in Int  BY <1>9, <2>1
  <2>3. Room = IF i > 0 THEN i ELSE 0  BY <2>2, MaxOfTwo DEF Room
  <2>4. Room # 0  BY <1>7, <1>10, <2>2, <2>3
  <2>5. Room = MaxInFlight - Cardinality(InRoom)  BY <2>3, <2>4
  <2> QED  BY <1>7, <1>9, <1>10, <2>1, <2>5
<1>12. LimitKept'
  <2>1. Counted' = Counted  BY <1>2 DEF Counted, InRoom, RowOf, Pair
  <2>2. Counted \subseteq InRoom  BY DEF Counted
  <2>3. Cardinality(InRoom \cup items) <= Cardinality(InRoom) + Cardinality(items)
        /\ IsFiniteSet(InRoom \cup items)
    <3> HIDE DEF items
    <3>1. /\ IsFiniteSet(InRoom \cup items) /\ IsFiniteSet(InRoom \cap items)
          /\ Cardinality(InRoom \cup items) =
               Cardinality(InRoom) + Cardinality(items) - Cardinality(InRoom \cap items)
      BY <1>8, <1>9, FS_Union, FS_Intersection
    <3>2. Cardinality(InRoom \cap items) \in Nat /\ Cardinality(items) \in Nat
      BY <1>8, <3>1, FS_CardinalityType
    <3> QED  BY <1>9, <3>1, <3>2
  <2>4. Cardinality(Counted \cup items) <= Cardinality(InRoom \cup items)
        /\ IsFiniteSet(Counted \cup items)
    <3>1. Counted \cup items \subseteq InRoom \cup items  BY <2>2
    <3> HIDE DEF items
    <3> QED  BY <2>3, <3>1, FS_Subset
  <2>5. Cardinality(Counted \cup items) <= MaxInFlight
    <3> HIDE DEF items
    <3>1. /\ Cardinality(Counted \cup items) \in Nat /\ Cardinality(InRoom \cup items) \in Nat
          /\ Cardinality(items) \in Nat /\ MaxInFlight \in Nat
      BY <1>8, <2>3, <2>4, FS_CardinalityType, FleetBounds
    <3> QED  BY <1>7, <1>8, <1>9, <1>11, <2>3, <2>4, <3>1
  <2>6. service'.left = items /\ service'.sending = {}  BY <1>3
  <2>7. LimitKept' <=> /\ service'.left \subseteq Pair /\ service'.sending \subseteq Pair
                       /\ Cardinality(Counted' \cup service'.left) <= MaxInFlight
    BY DEF LimitKept, Pair
  <2> HIDE DEF items
  <2> QED  BY <1>4, <2>1, <2>5, <2>6, <2>7
<1> QED  BY <1>5, <1>6, <1>12 DEF FleetIInv

LEMMA TickMarksKeeps == ASSUME FleetIInv, TickMarks PROVE FleetIInv'
<1>1. PICK p \in service.left :
        /\ SetRow(p, Commanded(RowOf(p)))
        /\ auto' = auto \cup {p}
        /\ service' = [left |-> service.left \ {p}, sending |-> {p}]
  BY DEF TickMarks
<1>2. UNCHANGED <<files, chan, edit, saidVersion, linked, past>>  BY DEF TickMarks
<1>3. p \in Pair /\ RowOf(p) \in Row  BY DEF FleetIInv, LimitKept, FleetShapes, RowOf, Pair
<1>4. Commanded(RowOf(p)) \in Row  BY <1>3, RowCommanded
<1>5. /\ updates' \in [Station -> [Release -> Row]]
      /\ \A q \in Pair : RowOf(q)' = IF q = p THEN Commanded(RowOf(p)) ELSE RowOf(q)
  <2> HIDE DEF SetRow
  <2>1. FleetShapes  BY DEF FleetIInv
  <2>2. ASSUME NEW new \in Row, SetRow(p, new)
        PROVE  /\ updates' \in [Station -> [Release -> Row]]
               /\ \A q \in Pair : RowOf(q)' = IF q = p THEN new ELSE RowOf(q)
    BY <1>3, <2>1, <2>2, RowSet
  <2> QED  BY <1>1, <1>4, <2>2
<1>6. service'.left \subseteq Pair /\ service'.sending \subseteq Pair
      /\ service' \in [left : SUBSET Pair, sending : SUBSET Pair]
  BY <1>1, <1>3 DEF FleetIInv, FleetShapes
<1>7. FleetShapes'  BY <1>2, <1>5, <1>6 DEF FleetIInv, FleetShapes, Pair
<1>8. Counted' \cup service'.left \subseteq Counted \cup service.left
  <2> SUFFICES ASSUME NEW q \in Counted', q # p PROVE q \in Counted
    BY <1>1
  <2>1. q \in Pair /\ q \in auto' /\ TakesRoom(RowOf(q))' /\ q \notin past'.revived
    BY DEF Counted, InRoom, Pair
  <2>2. RowOf(q)' = RowOf(q)  BY <1>5, <2>1
  <2>3. TakesRoom(RowOf(q))  BY <2>1, <2>2 DEF TakesRoom
  <2> QED  BY <1>1, <1>2, <2>1, <2>3 DEF Counted, InRoom
<1>9. LimitKept'  BY <1>6, <1>8, NoMoreCount DEF FleetIInv
<1> QED  BY <1>2, <1>7, <1>9, CatalogStays DEF FleetIInv

LEMMA TickSendsKeeps == ASSUME FleetIInv, TickSends PROVE FleetIInv'
<1>1. PICK p \in service.sending :
        IF p[1] \in linked THEN UNCHANGED updates ELSE SetRow(p, SendFailed(RowOf(p)))
  BY DEF TickSends
<1>2. service' = [service EXCEPT !.sending = {}]
      /\ UNCHANGED <<files, chan, edit, auto, saidVersion, linked, past>>
  BY DEF TickSends
<1>3. p \in Pair /\ RowOf(p) \in Row  BY DEF FleetIInv, LimitKept, FleetShapes, RowOf, Pair
<1>4. /\ SendFailed(RowOf(p)) \in Row
      /\ ~(TakesRoom(SendFailed(RowOf(p))) /\ ~TakesRoom(RowOf(p)))
  BY <1>3, RowSendFailed
<1>5. /\ updates' \in [Station -> [Release -> Row]]
      /\ \A q \in Pair : TakesRoom(RowOf(q))' => TakesRoom(RowOf(q))
  <2>1. CASE p[1] \in linked
    <3>1. UNCHANGED updates  BY <1>1, <2>1
    <3> QED  BY <3>1 DEF FleetIInv, FleetShapes, TakesRoom, RowOf
  <2>2. CASE p[1] \notin linked
    <3> DEFINE new == SendFailed(RowOf(p))
    <3>1. SetRow(p, new)  BY <1>1, <2>2
    <3>2. FleetShapes /\ new \in Row  BY <1>4 DEF FleetIInv
    <3> HIDE DEF new
    <3>3. /\ updates' \in [Station -> [Release -> Row]]
          /\ \A q \in Pair : RowOf(q)' = IF q = p THEN new ELSE RowOf(q)
      BY <1>3, <3>1, <3>2, RowSet
    <3>4. ASSUME NEW q \in Pair, TakesRoom(RowOf(q))' PROVE TakesRoom(RowOf(q))
      <4>1. TakesRoom(IF q = p THEN new ELSE RowOf(q))  BY <3>3, <3>4 DEF TakesRoom
      <4>2. q = p => TakesRoom(new) BY <4>1
      <4> QED  BY <1>4, <4>1, <4>2 DEF new
    <3> QED  BY <3>3, <3>4
  <2> QED  BY <2>1, <2>2
<1>6. /\ service' \in [left : SUBSET Pair, sending : SUBSET Pair]
      /\ service'.left = service.left /\ service'.sending = {}
  BY <1>2 DEF FleetIInv, FleetShapes
<1>7. FleetShapes'  BY <1>2, <1>5, <1>6 DEF FleetIInv, FleetShapes, Pair
<1>8. Counted' \subseteq Counted  BY <1>2, <1>5 DEF Counted, InRoom, Pair
<1>9. LimitKept'  BY <1>6, <1>8, NoMoreCount DEF FleetIInv, LimitKept
<1> QED  BY <1>2, <1>7, <1>9, CatalogStays DEF FleetIInv

LEMMA PressKeeps == ASSUME FleetIInv, NEW a \in Station, Press(a) PROVE FleetIInv'
<1> DEFINE p == <<a, TargetFor(a)>>
<1>1. /\ TargetFor(a) > saidVersion[a]
      /\ SetRow(p, Commanded(updates[a][TargetFor(a)]))
      /\ auto' = auto \ {p}
      /\ past' = [past EXCEPT !.reports = @ + 1]
      /\ UNCHANGED <<files, chan, edit, saidVersion, linked, service>>
  BY DEF Press
<1>2. p \in Pair
  <2>1. saidVersion[a] \in {Oldest} \cup Release  BY DEF FleetIInv, FleetShapes
  <2>2. saidVersion[a] \in Nat /\ TargetFor(a) \in {Oldest} \cup Release
    BY <2>1, VersionsAreNumbers, TargetIs
  <2>3. TargetFor(a) # Oldest  BY <1>1, <2>2 DEF Oldest
  <2> QED  BY <2>2, <2>3 DEF Pair
<1>3. RowOf(p) = updates[a][TargetFor(a)]  BY DEF RowOf
<1> HIDE DEF p
<1>4. Commanded(RowOf(p)) \in Row
  <2>1. RowOf(p) \in Row  BY <1>2 DEF FleetIInv, FleetShapes, RowOf, Pair
  <2> QED  BY <2>1, RowCommanded
<1> DEFINE new == Commanded(RowOf(p))
<1>5. SetRow(p, new) /\ new \in Row /\ FleetShapes  BY <1>1, <1>3, <1>4 DEF FleetIInv
<1> HIDE DEF new
<1>6. /\ updates' \in [Station -> [Release -> Row]]
      /\ \A q \in Pair : RowOf(q)' = IF q = p THEN new ELSE RowOf(q)
  BY <1>2, <1>5, RowSet
<1>7. /\ past' \in [edits : Nat, reports : Nat, overlap : BOOLEAN, revived : SUBSET Pair]
      /\ past'.revived = past.revived /\ past'.overlap = past.overlap
  <2>1. past \in [edits : Nat, reports : Nat, overlap : BOOLEAN, revived : SUBSET Pair]
    BY <1>5 DEF FleetShapes
  <2>2. past.reports + 1 \in Nat  BY <2>1
  <2> QED  BY <1>1, <2>1, <2>2
<1>8. FleetShapes'  BY <1>1, <1>6, <1>7 DEF FleetIInv, FleetShapes, Pair
<1>9. Counted' \subseteq Counted
  <2> SUFFICES ASSUME NEW q \in Counted' PROVE q \in Counted  OBVIOUS
  <2>1. q \in Pair /\ q \in auto' /\ TakesRoom(RowOf(q))' /\ q \notin past'.revived
    BY DEF Counted, InRoom, Pair
  <2>2. q # p /\ q \in auto  BY <1>1, <2>1
  <2>3. RowOf(q)' = RowOf(q)  BY <1>6, <2>1, <2>2
  <2>4. TakesRoom(RowOf(q))  BY <2>1, <2>3 DEF TakesRoom
  <2> QED  BY <1>7, <2>1, <2>2, <2>4 DEF Counted, InRoom
<1>10. LimitKept'  BY <1>1, <1>9, NoMoreCount DEF FleetIInv, LimitKept
<1> QED  BY <1>1, <1>7, <1>8, <1>10, CatalogStays DEF FleetIInv

LEMMA StationReportsKeeps ==
  ASSUME FleetIInv, NEW a \in Station, NEW v \in Release, NEW outcome \in Outcome,
         StationReports(a, v, outcome)
  PROVE  FleetIInv'
<1> DEFINE p   == <<a, v>>
           old == updates[a][v]
           new == Reported(old, outcome)
           revived == IF TakesRoom(new) /\ ~TakesRoom(old) THEN past.revived \cup {p}
                    ELSE past.revived
<1>1. /\ SetRow(p, new)
      /\ past' = [past EXCEPT !.reports = @ + 1, !.revived = revived]
      /\ UNCHANGED <<files, chan, edit, auto, saidVersion, linked, service>>
  BY DEF StationReports, SetRow
<1>2. p \in Pair /\ RowOf(p) = old /\ FleetShapes  BY DEF Pair, RowOf, FleetIInv
<1>3. new \in Row
  <2>1. old \in Row  BY <1>2 DEF FleetShapes
  <2> QED  BY <2>1, RowReported
<1>4. revived \subseteq Pair /\ past.revived \subseteq revived
      /\ (TakesRoom(new) /\ ~TakesRoom(old) => p \in revived)
  BY <1>2 DEF FleetShapes
<1> HIDE DEF p, old, new, revived
<1>5. /\ updates' \in [Station -> [Release -> Row]]
      /\ \A q \in Pair : RowOf(q)' = IF q = p THEN new ELSE RowOf(q)
  BY <1>1, <1>2, <1>3, RowSet
<1>6. /\ past' \in [edits : Nat, reports : Nat, overlap : BOOLEAN, revived : SUBSET Pair]
      /\ past'.revived = revived /\ past'.overlap = past.overlap
  <2>1. past \in [edits : Nat, reports : Nat, overlap : BOOLEAN, revived : SUBSET Pair]
    BY <1>2 DEF FleetShapes
  <2>2. past.reports + 1 \in Nat  BY <2>1
  <2> QED  BY <1>1, <1>4, <2>1, <2>2
<1>7. FleetShapes'  BY <1>1, <1>5, <1>6 DEF FleetIInv, FleetShapes, Pair
<1>8. Counted' \subseteq Counted
  <2> SUFFICES ASSUME NEW q \in Counted' PROVE q \in Counted  OBVIOUS
  <2>1. q \in Pair /\ q \in auto' /\ TakesRoom(RowOf(q))' /\ q \notin past'.revived
    BY DEF Counted, InRoom, Pair
  <2>2. TakesRoom(RowOf(q))
    <3>1. CASE q = p
      <4>1. TakesRoom(new)  BY <1>5, <2>1, <3>1 DEF TakesRoom
      <4> QED  BY <1>2, <1>4, <1>6, <2>1, <3>1, <4>1
    <3>2. CASE q # p
      <4>1. RowOf(q)' = RowOf(q)  BY <1>5, <2>1, <3>2
      <4> QED  BY <2>1, <4>1 DEF TakesRoom
    <3> QED  BY <3>1, <3>2
  <2> QED  BY <1>1, <1>4, <1>6, <2>1, <2>2 DEF Counted, InRoom
<1>9. LimitKept'  BY <1>1, <1>8, NoMoreCount DEF FleetIInv, LimitKept
<1> QED  BY <1>1, <1>6, <1>7, <1>9, CatalogStays DEF FleetIInv

LEMMA LeaveKeeps == ASSUME FleetIInv, NEW a \in Station, Leave(a) PROVE FleetIInv'
<1>1. /\ linked' = linked \ {a}
      /\ past' = [past EXCEPT !.reports = @ + 1]
      /\ UNCHANGED <<files, chan, edit, updates, auto, saidVersion, service>>
  BY DEF Leave
<1>2. /\ past' \in [edits : Nat, reports : Nat, overlap : BOOLEAN, revived : SUBSET Pair]
      /\ past'.revived = past.revived /\ past'.overlap = past.overlap
  <2>1. past \in [edits : Nat, reports : Nat, overlap : BOOLEAN, revived : SUBSET Pair]
    BY DEF FleetIInv, FleetShapes
  <2>2. past.reports + 1 \in Nat  BY <2>1
  <2> QED  BY <1>1, <2>1, <2>2
<1>3. FleetShapes'  BY <1>1, <1>2 DEF FleetIInv, FleetShapes, Pair
<1>4. LimitKept'  BY <1>1, <1>2, EngineRests
<1> QED  BY <1>1, <1>2, <1>3, <1>4, CatalogStays DEF FleetIInv

(* A hello, and time, move rows; none of them takes room that took none. *)
LEMMA RowsMove ==
  ASSUME FleetIInv, updates' \in [Station -> [Release -> Row]],
         \A q \in Pair : TakesRoom(RowOf(q))' => TakesRoom(RowOf(q)),
         UNCHANGED <<auto, service, past>>
  PROVE  LimitKept'
<1>1. Counted' \subseteq Counted  BY DEF Counted, InRoom, Pair
<1> QED  BY <1>1, NoMoreCount DEF FleetIInv, LimitKept

LEMMA ComesKeeps ==
  ASSUME FleetIInv, NEW a \in Station, NEW w \in {saidVersion[a]} \cup Release, Comes(a, w)
  PROVE  FleetIInv'
<1>1. /\ linked' = linked \cup {a}
      /\ saidVersion' = [saidVersion EXCEPT ![a] = w]
      /\ updates' = [updates EXCEPT ![a] = [v \in Release |-> Hello(@[v], v, w)]]
      /\ UNCHANGED <<files, chan, edit, auto, service, past>>
  BY DEF Comes
<1>2. FleetShapes  BY DEF FleetIInv
<1>3. \A v \in Release : /\ Hello(updates[a][v], v, w) \in Row
                         /\ TakesRoom(Hello(updates[a][v], v, w)) => TakesRoom(updates[a][v])
  <2>1. \A v \in Release : updates[a][v] \in Row  BY <1>2 DEF FleetShapes
  <2> QED  BY <2>1, RowHello
<1> DEFINE rows == [v \in Release |-> Hello(updates[a][v], v, w)]
<1>4. rows \in [Release -> Row]
      /\ \A v \in Release : TakesRoom(rows[v]) => TakesRoom(updates[a][v])
  BY <1>3
<1>5. updates' = [updates EXCEPT ![a] = rows]  BY <1>1
<1> HIDE DEF rows
<1>6. updates' \in [Station -> [Release -> Row]]  BY <1>2, <1>4, <1>5 DEF FleetShapes
<1>7. ASSUME NEW q \in Pair, TakesRoom(RowOf(q))' PROVE TakesRoom(RowOf(q))
  <2>1. q[1] \in Station /\ q[2] \in Release  BY DEF Pair
  <2>2. TakesRoom(updates'[q[1]][q[2]])  BY <1>7 DEF TakesRoom, RowOf
  <2>3. CASE q[1] = a
    <3>1. updates'[q[1]][q[2]] = rows[q[2]]  BY <1>2, <1>5, <2>1, <2>3 DEF FleetShapes
    <3>2. TakesRoom(updates[a][q[2]])  BY <1>4, <2>1, <2>2, <3>1
    <3> QED  BY <2>3, <3>2 DEF RowOf
  <2>4. CASE q[1] # a
    <3>1. updates'[q[1]] = updates[q[1]]  BY <1>2, <1>5, <2>1, <2>4 DEF FleetShapes
    <3> QED  BY <2>2, <3>1 DEF RowOf
  <2> QED  BY <2>3, <2>4
<1>8. LimitKept'  BY <1>1, <1>6, <1>7, RowsMove
<1>9. FleetShapes'
  <2>1. w \in {Oldest} \cup Release  BY <1>2 DEF FleetShapes
  <2>2. saidVersion' \in [Station -> {Oldest} \cup Release]  BY <1>1, <1>2, <2>1 DEF FleetShapes
  <2>3. linked' \subseteq Station  BY <1>1, <1>2 DEF FleetShapes
  <2> QED  BY <1>1, <1>2, <1>6, <2>2, <2>3 DEF FleetShapes, Pair
<1> QED  BY <1>1, <1>8, <1>9, CatalogStays DEF FleetIInv

LEMMA LaterKeeps == ASSUME FleetIInv, Later PROVE FleetIInv'
<1>1. /\ updates' = [a \in Station |-> [v \in Release |-> Older(updates[a][v])]]
      /\ UNCHANGED <<files, chan, edit, auto, saidVersion, linked, service, past>>
  BY DEF Later
<1>2. FleetShapes  BY DEF FleetIInv
<1>3. \A a \in Station, v \in Release :
        /\ Older(updates[a][v]) \in Row
        /\ TakesRoom(Older(updates[a][v])) => TakesRoom(updates[a][v])
  <2>1. \A a \in Station, v \in Release : updates[a][v] \in Row  BY <1>2 DEF FleetShapes
  <2> QED  BY <2>1, RowOlder
<1>4. updates' \in [Station -> [Release -> Row]]  BY <1>1, <1>3
<1>5. ASSUME NEW q \in Pair, TakesRoom(RowOf(q))' PROVE TakesRoom(RowOf(q))
  <2>1. q[1] \in Station /\ q[2] \in Release  BY DEF Pair
  <2>2. updates'[q[1]][q[2]] = Older(updates[q[1]][q[2]])  BY <1>1, <2>1
  <2>3. TakesRoom(updates'[q[1]][q[2]])  BY <1>5 DEF TakesRoom, RowOf
  <2> QED  BY <1>3, <2>1, <2>2, <2>3 DEF RowOf
<1>6. LimitKept'  BY <1>1, <1>4, <1>5, RowsMove
<1>7. FleetShapes'  BY <1>1, <1>2, <1>4 DEF FleetShapes, Pair
<1> QED  BY <1>1, <1>6, <1>7, CatalogStays DEF FleetIInv

LEMMA FleetStep == FleetIInv /\ [FleetNext]_fleetVars => FleetIInv'
<1> SUFFICES ASSUME FleetIInv, [FleetNext]_fleetVars PROVE FleetIInv'  OBVIOUS
<1>1. CASE FleetNext
  <2>1. ASSUME NEW a \in Admin, NEW v \in Release, NEW c \in Channel \cup {"none"},
               ChannelBegins(a, v, c)
        PROVE  FleetIInv'
    BY <2>1, ChannelBeginsKeeps
  <2>2. ASSUME NEW a \in Admin, NEW v \in Release, DeleteBegins(a, v) \/ Upload(a, v)
        PROVE  FleetIInv'
    BY <2>2, DeleteBeginsKeeps, UploadKeeps
  <2>3. ASSUME NEW a \in Admin, ChannelCommits(a) \/ DeleteCommits(a) PROVE FleetIInv'
    BY <2>3, ChannelCommitsKeeps, DeleteCommitsKeeps
  <2>4. CASE TickPlans \/ TickMarks \/ TickSends
    BY <2>4, TickPlansKeeps, TickMarksKeeps, TickSendsKeeps
  <2>5. ASSUME NEW a \in Station, Press(a) \/ Leave(a) PROVE FleetIInv'
    BY <2>5, PressKeeps, LeaveKeeps
  <2>6. ASSUME NEW a \in Station, NEW v \in Release, NEW outcome \in Outcome,
               StationReports(a, v, outcome)
        PROVE  FleetIInv'
    BY <2>6, StationReportsKeeps
  <2>7. ASSUME NEW a \in Station, NEW w \in {saidVersion[a]} \cup Release, Comes(a, w)
        PROVE  FleetIInv'
    BY <2>7, ComesKeeps
  <2>8. CASE Later  BY <2>8, LaterKeeps
  <2> QED  BY <1>1, <2>1, <2>2, <2>3, <2>4, <2>5, <2>6, <2>7, <2>8 DEF FleetNext
<1>2. CASE UNCHANGED fleetVars
  <2>1. UNCHANGED <<files, chan, edit, updates, auto, saidVersion, linked, service, past>>
    BY <1>2 DEF fleetVars
  <2>2. FleetShapes'  BY <2>1 DEF FleetIInv, FleetShapes, Pair
  <2>3. LimitKept'  BY <2>1, EngineRests
  <2> QED  BY <2>1, <2>2, <2>3, CatalogStays DEF FleetIInv
<1> QED  BY <1>1, <1>2

(* For any number of PCs, releases and administrators, and any limit: at   *)
(* most max_in_flight updates the engine of the center (rollout.py) sent   *)
(* hold room, whatever the agents report, leave or come back with in the   *)
(* middle of a tick, but for those a late report brought back; as long as  *)
(* the catalogue is edited by one administrator at a time a channel has    *)
(* one version, and its archive is there; and the page of releases says of *)
(* an agent what the engine will do with it.                               *)
THEOREM FleetInvariant == FleetSpec => []FleetInv
<1>1. FleetInit => FleetIInv  BY FleetStarts
<1>2. FleetIInv /\ [FleetNext]_fleetVars => FleetIInv'  BY FleetStep
<1>3. FleetIInv => FleetInv  BY FleetIsPromised
<1> QED  BY <1>1, <1>2, <1>3, PTL DEF FleetSpec


(***************************************************************************)
(* One release and one PC: the inductive invariant of UpdateChain.         *)
(***************************************************************************)
OldOrNew == {FirstVersion, Target}
Update   == {Absent, Target}
ToTarget == [from |-> FirstVersion, to |-> Target]
Upgrade  == FirstVersion < Target

(* Only the release of the channel is ever sent, so folders, files,        *)
(* processes and messages are of the first version or of the release.      *)
News(outcomes) == {Report(Target, o) : o \in outcomes}
Told     == News({"failed", "installed", "rolled_back"})
Message  == {HelloOf(v) : v \in OldOrNew} \cup News(Outcome)

Disk ==
  [app : OldOrNew \cup {Absent, Junk}, new : Update, old : Folder,
   bad : {FirstVersion, Target, Absent, Junk},
   zip : Update, ctx : {NoContext, ToTarget}, ok : BOOLEAN, fail : BOOLEAN, rb : Update]
Process ==
  [ver : OldOrNew \cup {Absent}, begun : BOOLEAN, check : {"idle", "pending", "ok", "failed"},
   upd : {"none", "hold", "prepare", "ready"}, to : Update, staged : BOOLEAN,
   spawn : BOOLEAN, watch : Update, out : Seq(Told)]
History ==
  [count : Nat, mishaps : SUBSET {"cut", "held", "stuck", "double"},
   good : SUBSET Version, undone : SUBSET {Target}, lost : SUBSET {Target}]
PcShapes ==
  /\ disk \in Disk /\ proc \in Process /\ bat \in [at : Label, v : Update]
  /\ hist \in History /\ up \in Seq(Message) /\ link \in BOOLEAN

CenterShapes ==
  /\ row \in [Version -> Row] /\ (\A v \in Version \ {Target} : row[v] = NoRow)
  /\ known \in OldOrNew /\ button \in Update
  /\ engine \in [pc : {"mark", "send"}, v : {Target}] \cup {NoPlan}
  /\ again \subseteq {Target} /\ overtaken \subseteq {Target} /\ presses \in Nat
  /\ (button # Absent \/ engine # NoPlan) => Upgrade

(* The process runs what lies in app; its handler, its batch and its watch *)
(* are of the first version, its self-check and its good news of the new   *)
(* one.                                                                    *)
Updating == proc.upd # "none" \/ proc.watch # Absent
ProcessSane ==
  /\ proc.ver # Absent => proc.ver = disk.app
  /\ proc.ver = Absent => proc = NoProcess
  /\ ~proc.begun => proc = Started(proc.ver)
  /\ Updating => proc.ver = FirstVersion /\ Upgrade
  /\ proc.upd # "none" => link /\ proc.to = Target
  /\ proc.upd = "none" => proc.to = Absent
  /\ proc.spawn => proc.watch = Target
  /\ proc.check # "idle" => proc.ver = Target
  /\ link => proc.begun
  /\ ~link => up = <<>>
AllNews == Entries(proc.out) \cup Entries(up)
MessagesSane ==
  /\ \A m \in AllNews :
       m.outcome \in {"installed", "already"} => proc.ver = Target
  /\ \A i \in DOMAIN up : up[i].type = "hello" => i = 1 /\ up[i].v = proc.ver

(* What lies where at each label of the batch. *)
Forward  == {"unpack", "stop", "clean", "out"}
Stopped  == {"clean", "out", "in", "start", "rclean", "rout", "rin", "rstart"}
Rollback == {"rstop", "rclean", "rout", "rin", "rstart"}
FoldersInStep ==
  /\ bat.at # "idle" => bat.v = Target /\ Upgrade
  /\ bat.at \in Stopped => proc = NoProcess
  /\ bat.at \in Forward => disk.app = FirstVersion
  /\ bat.at = "out" => disk.old \in {Absent, Junk}
  /\ bat.at \in {"in", "rin"} => disk.app = Absent
  /\ bat.at \in {"start", "verify"} => disk.app = Target
  /\ bat.at \in {"rstop", "rclean", "rout"} => disk.app \in {Target, Absent}
  /\ bat.at \in {"in", "start", "verify", "rstop", "rclean", "rout", "rin"} =>
       disk.old \in {FirstVersion, Junk}
  /\ bat.at = "rstart" => disk.app \in {FirstVersion, Junk}
  /\ bat.at = "rout" => disk.bad \in {Absent, Junk}
  /\ bat.at = "rin" => disk.bad \in {Absent, Target, Junk}
  /\ bat.at \in {"rout", "rin", "rstart"} => disk.ctx = NoContext
JunkIsHeld ==
  "held" \notin hist.mishaps =>
    /\ disk.app # Junk
    /\ bat.at # "idle" /\ bat.at \notin {"unpack", "stop", "clean"} => disk.old # Junk /\ disk.bad # Junk

(* The mark of the self-check. *)
MarkTells ==
  /\ disk.ok => Target \in hist.good /\ disk.ctx = NoContext
  /\ proc.spawn \/ bat.at \in Forward \cup {"in", "start"} => ~disk.ok
  /\ FirstVersion \in hist.good

(* What the service runs while the batch does not hold it. *)
ServiceRuns ==
  Only({"stuck", "double"}) /\ bat.at \in {"idle", "unpack", "stop", "verify"} =>
    disk.app \in OldOrNew /\ (disk.app \notin Broken => proc.ver = disk.app)

(* The news of a version taken back. *)
RolledBackNews == \E m \in AllNews : m.outcome = "rolled_back"
UndoneIsTrue ==
  /\ RolledBackNews \/ disk.rb # Absent \/ bat.at = "rstart" => Target \in hist.undone
  /\ disk.rb # Absent => ~proc.begun

(* Somebody will still say how the update ended. *)
IsFinal(m) == m.type = "status" /\ m.outcome \in {"failed", "installed", "already", "rolled_back"}
FinalNews == \E m \in AllNews : IsFinal(m)
Pending ==
  \/ Updating \/ FinalNews
  \/ bat.at # "idle" /\ ~(bat.at = "verify" /\ disk.ok)
  \/ ~proc.begun /\ (disk.ctx # NoContext \/ disk.rb # Absent)
OpeningIsFollowed ==
  \A i \in DOMAIN up : up[i].outcome \in {"started", "running"} =>
    \/ Updating
    \/ \E j \in DOMAIN up : j > i /\ IsFinal(up[j])
    \/ proc.out # <<>>
WatchAnswers ==
  /\ bat.at \in {"unpack", "stop"} => proc.watch = Target \/ Target \in hist.lost
  /\ proc.upd \in {"prepare", "ready"} /\ (proc.spawn \/ bat.at # "idle") => "double" \in hist.mishaps
  /\ proc.spawn /\ bat.at # "idle" => "double" \in hist.mishaps
  /\ proc.spawn \/ bat.at \in Forward =>
       disk.ctx # NoContext \/ Target \in hist.lost \/ "double" \in hist.mishaps
  /\ bat.at = "idle" /\ disk.app = Target /\ "cut" \notin hist.mishaps => disk.ctx = NoContext

PcIInv ==
  /\ PcShapes /\ ProcessSane /\ MessagesSane /\ FoldersInStep /\ JunkIsHeld /\ MarkTells
  /\ ServiceRuns /\ OnlyConfirmedStays /\ UndoneIsTrue /\ OpeningIsFollowed /\ WatchAnswers

(* The journal and the PC. *)
Greeting == \E i \in DOMAIN up : up[i].type = "hello"
JournalKnows ==
  /\ link /\ ~Greeting => known = proc.ver
  /\ link /\ ~Greeting /\ row[Target].status = "installed" => proc.ver = Target
  /\ Upgrade /\ disk.app = FirstVersion /\ row[Target].status = "installed" =>
       Target \in hist.undone
  /\ row[Target].status = "rolled_back" => Target \in hist.undone

(* A version taken back is not sent: its news is on the way, or the row    *)
(* has it, or the version is in service all the same.                      *)
Excused   == Target \in hist.lost \cup overtaken
OnTheWay  ==
  \/ "cut" \in hist.mishaps \/ Target \in hist.lost
  \/ bat.at \in Rollback \/ disk.rb # Absent \/ RolledBackNews
InService == disk.app = Target /\ bat.at \in {"idle", "verify"}
UndoneIsTold ==
  Target \in hist.undone =>
    \/ OnTheWay \/ Target \in overtaken
    \/ row[Target].status = "rolled_back" \/ (known = Target /\ InService)

OutcomeIsComing ==
  Only({"held", "stuck"}) /\ ~Excused =>
    /\ row[Target].status \in InFlight => engine.pc = "send" \/ Pending
    /\ button # Absent => Pending

CenterIInv ==
  CenterShapes /\ JournalKnows /\ UndoneIsTold /\ RollbackIsTerminal /\ OutcomeIsComing

ChainIInv == PcIInv /\ CenterIInv

(* What a step of the PC does to the news that the journal waits for.      *)
Grows ==
  hist.lost \subseteq hist'.lost /\ hist.mishaps \subseteq hist'.mishaps /\ hist.undone \subseteq hist'.undone
SessionTells == link' /\ ~Greeting' => link /\ ~Greeting /\ proc'.ver = proc.ver
BackIsUndone ==
  Upgrade /\ disk'.app = FirstVersion => disk.app = FirstVersion \/ Target \in hist'.undone
UndoneTravels ==
  /\ OnTheWay \/ hist'.undone # hist.undone => OnTheWay'
  /\ InService => InService' \/ OnTheWay'
EndStaysDue == Pending => Pending' \/ Target \in hist'.lost \/ ~Only({"held", "stuck"})'
Carries == Grows /\ SessionTells /\ BackIsUndone /\ UndoneTravels /\ EndStaysDue

-----------------------------------------------------------------------------
(* The versions, and the two values that are none. *)
LEMMA Numbers ==
  /\ FirstVersion \in Nat /\ Target \in Nat /\ Absent \in Nat /\ Junk \in Nat
  /\ Absent < FirstVersion /\ FirstVersion <= Target /\ Target < Junk
  /\ Version = 1 .. Target /\ FirstVersion \in Version /\ Target \in Version
  /\ Folder = Absent .. Junk /\ Broken \subseteq Version
BY LastAssumption, FirstAssumption, BrokenAssumption DEF Version, Folder, Absent, Junk, Target

(* The four are different, but for the two versions, and the versions that *)
(* occur are versions.                                                     *)
LEMMA Names ==
  /\ Absent # FirstVersion /\ Absent # Target /\ Junk # FirstVersion /\ Junk # Target /\ Absent # Junk
  /\ FirstVersion \in Version /\ Target \in Version /\ Absent \notin Version /\ Junk \notin Version
  /\ FirstVersion \in Folder /\ Target \in Folder /\ Absent \in Folder /\ Junk \in Folder
  /\ Version \subseteq Nat /\ FirstVersion \in Nat /\ Target \in Nat
  /\ Upgrade => FirstVersion # Target
  /\ FirstVersion # Target => Upgrade
  /\ ~Upgrade => FirstVersion = Target
BY Numbers DEF Upgrade, Absent

(* What a queue holds after a message came, the first one went, or two     *)
(* queues are laid together.                                               *)
LEMMA EntriesNone == Entries(<<>>) = {}
BY DEF Entries

LEMMA EntriesOne == ASSUME NEW m PROVE Entries(<<m>>) = {m}
BY DEF Entries

LEMMA EntriesAppend ==
  ASSUME NEW S, NEW s \in Seq(S), NEW m \in S
  PROVE  /\ Append(s, m) \in Seq(S) /\ Append(s, m) # <<>>
         /\ Len(Append(s, m)) = Len(s) + 1
         /\ \A i \in DOMAIN s : Append(s, m)[i] = s[i]
         /\ Append(s, m)[Len(s) + 1] = m
         /\ Entries(Append(s, m)) = Entries(s) \cup {m}
<1> DEFINE t == Append(s, m)
<1>1. t \in Seq(S) /\ Len(t) = Len(s) + 1 /\ t[Len(s) + 1] = m /\ \A i \in DOMAIN s : t[i] = s[i]
  OBVIOUS
<1>2. DOMAIN t = 1 .. (Len(s) + 1) /\ DOMAIN s = 1 .. Len(s) /\ Len(s) \in Nat  OBVIOUS
<1> HIDE DEF t
<1>3. t # <<>>  BY <1>1, <1>2
<1>4. Entries(t) \subseteq Entries(s) \cup {m}
  <2> SUFFICES ASSUME NEW i \in DOMAIN t PROVE t[i] \in Entries(s) \cup {m}  BY DEF Entries
  <2>1. i \in DOMAIN s \/ i = Len(s) + 1  BY <1>2
  <2> QED  BY <1>1, <2>1 DEF Entries
<1>5. Entries(s) \cup {m} \subseteq Entries(t)
  <2>1. \A i \in DOMAIN s : i \in DOMAIN t  BY <1>2
  <2>2. Len(s) + 1 \in DOMAIN t  BY <1>2
  <2> QED  BY <1>1, <2>1, <2>2 DEF Entries
<1> QED  BY <1>1, <1>3, <1>4, <1>5 DEF t

LEMMA EntriesTail ==
  ASSUME NEW S, NEW s \in Seq(S), s # <<>>
  PROVE  /\ Tail(s) \in Seq(S) /\ Head(s) \in S /\ Head(s) = s[1] /\ 1 \in DOMAIN s
         /\ Len(Tail(s)) = Len(s) - 1
         /\ \A i \in DOMAIN Tail(s) : i + 1 \in DOMAIN s /\ Tail(s)[i] = s[i + 1]
         /\ Entries(s) = {Head(s)} \cup Entries(Tail(s))
<1> DEFINE t == Tail(s)
<1>1. t \in Seq(S) /\ Head(s) \in S /\ Head(s) = s[1] /\ Len(t) = Len(s) - 1
  OBVIOUS
<1>2. DOMAIN t = 1 .. (Len(s) - 1) /\ DOMAIN s = 1 .. Len(s) /\ Len(s) \in Nat /\ Len(s) > 0  OBVIOUS
<1>3. \A i \in DOMAIN t : t[i] = s[i + 1]  OBVIOUS
<1> HIDE DEF t
<1>4. \A i \in DOMAIN t : i + 1 \in DOMAIN s  BY <1>2
<1>5. 1 \in DOMAIN s  BY <1>2
<1>6. Entries(s) \subseteq {Head(s)} \cup Entries(t)
  <2> SUFFICES ASSUME NEW i \in DOMAIN s PROVE s[i] \in {s[1]} \cup Entries(t)  BY <1>1 DEF Entries
  <2>1. CASE i = 1  BY <2>1
  <2>2. CASE i # 1
    <3>1. i - 1 \in DOMAIN t /\ i = (i - 1) + 1  BY <1>2, <2>2
    <3> QED  BY <1>3, <3>1 DEF Entries
  <2> QED  BY <2>1, <2>2
<1>7. {Head(s)} \cup Entries(t) \subseteq Entries(s)  BY <1>1, <1>3, <1>4, <1>5 DEF Entries
<1> QED  BY <1>1, <1>2, <1>3, <1>4, <1>5, <1>6, <1>7 DEF t

LEMMA EntriesConcat ==
  ASSUME NEW S, NEW T, NEW s \in Seq(S), NEW t \in Seq(T)
  PROVE  Entries(s \o t) = Entries(s) \cup Entries(t)
<1> DEFINE c == s \o t
<1>1. /\ DOMAIN c = 1 .. (Len(s) + Len(t)) /\ DOMAIN s = 1 .. Len(s) /\ DOMAIN t = 1 .. Len(t)
      /\ Len(s) \in Nat /\ Len(t) \in Nat
      /\ \A i \in 1 .. (Len(s) + Len(t)) : c[i] = IF i <= Len(s) THEN s[i] ELSE t[i - Len(s)]
  <2>1. s \in Seq(S \cup T) /\ t \in Seq(S \cup T)  OBVIOUS
  <2> QED  BY <2>1
<1> HIDE DEF c
<1>2. Entries(c) \subseteq Entries(s) \cup Entries(t)
  <2> SUFFICES ASSUME NEW i \in DOMAIN c PROVE c[i] \in Entries(s) \cup Entries(t)  BY DEF Entries
  <2>1. CASE i <= Len(s)
    <3>1. i \in DOMAIN s /\ c[i] = s[i]  BY <1>1, <2>1
    <3> QED  BY <3>1 DEF Entries
  <2>2. CASE ~(i <= Len(s))
    <3>1. i - Len(s) \in DOMAIN t /\ c[i] = t[i - Len(s)]  BY <1>1, <2>2
    <3> QED  BY <3>1 DEF Entries
  <2> QED  BY <2>1, <2>2
<1>3. Entries(s) \subseteq Entries(c)
  <2> SUFFICES ASSUME NEW i \in DOMAIN s PROVE s[i] \in Entries(c)  BY DEF Entries
  <2>1. i \in DOMAIN c /\ c[i] = s[i]  BY <1>1
  <2> QED  BY <2>1 DEF Entries
<1>4. Entries(t) \subseteq Entries(c)
  <2> SUFFICES ASSUME NEW i \in DOMAIN t PROVE t[i] \in Entries(c)  BY DEF Entries
  <2>1. i + Len(s) \in DOMAIN c /\ c[i + Len(s)] = t[i]  BY <1>1
  <2> QED  BY <2>1 DEF Entries
<1> QED  BY <1>2, <1>3, <1>4 DEF c

(* No process has nothing; one just started has nothing but its version.   *)
LEMMA NothingRuns ==
  /\ NoProcess.ver = Absent /\ NoProcess.begun = FALSE /\ NoProcess.check = "idle"
  /\ NoProcess.upd = "none" /\ NoProcess.to = Absent /\ NoProcess.staged = FALSE
  /\ NoProcess.spawn = FALSE /\ NoProcess.watch = Absent /\ NoProcess.out = <<>>
  /\ \A v : /\ Started(v).ver = v /\ Started(v).begun = FALSE /\ Started(v).check = "idle"
            /\ Started(v).upd = "none" /\ Started(v).to = Absent /\ Started(v).staged = FALSE
            /\ Started(v).spawn = FALSE /\ Started(v).watch = Absent /\ Started(v).out = <<>>
  /\ Started(Absent) = NoProcess
  /\ \A v \in OldOrNew \cup {Absent} : Started(v) \in Process
<1>1. /\ NoProcess.ver = Absent /\ NoProcess.begun = FALSE /\ NoProcess.check = "idle"
      /\ NoProcess.upd = "none" /\ NoProcess.to = Absent /\ NoProcess.staged = FALSE
      /\ NoProcess.spawn = FALSE /\ NoProcess.watch = Absent /\ NoProcess.out = <<>>
  BY DEF NoProcess
<1>2. <<>> \in Seq(Told)  OBVIOUS
<1>3. NoProcess \in Process  BY <1>2 DEF NoProcess, Process, Update
<1>4. ASSUME NEW v
      PROVE  /\ Started(v).ver = v /\ Started(v).begun = FALSE /\ Started(v).check = "idle"
             /\ Started(v).upd = "none" /\ Started(v).to = Absent /\ Started(v).staged = FALSE
             /\ Started(v).spawn = FALSE /\ Started(v).watch = Absent /\ Started(v).out = <<>>
             /\ v \in OldOrNew \cup {Absent} => Started(v) \in Process
             /\ v = Absent => Started(v) = NoProcess
  <2> DEFINE p == [NoProcess EXCEPT !.ver = v]
  <2>1. /\ p.ver = v /\ p.begun = FALSE /\ p.check = "idle"
        /\ p.upd = "none" /\ p.to = Absent /\ p.staged = FALSE
        /\ p.spawn = FALSE /\ p.watch = Absent /\ p.out = <<>>
    BY <1>1, <1>3 DEF Process
  <2>2. v \in OldOrNew \cup {Absent} => p \in Process  BY <1>3 DEF Process
  <2>3. v = Absent => p = NoProcess  BY <1>1, <1>3 DEF Process
  <2> QED  BY <2>1, <2>2, <2>3 DEF Started
<1> QED  BY <1>1, <1>3, <1>4

(* What nssm starts: the version in app, or nothing. *)
LEMMA Starts ==
  ASSUME NEW app \in OldOrNew \cup {Absent, Junk}, NEW p \in ServiceStart(app)
  PROVE  /\ p.begun = FALSE /\ p.check = "idle" /\ p.upd = "none" /\ p.to = Absent
         /\ p.spawn = FALSE /\ p.watch = Absent /\ p.out = <<>>
         /\ p.ver = Absent => p = NoProcess /\ app \notin Version \ Broken
         /\ p.ver # Absent => p.ver = app
         /\ p = Started(p.ver)
         /\ p \in Process
<1>1. \/ app \in Version /\ p = Started(app)
      \/ app \notin Version \ Broken /\ p = NoProcess
  BY DEF ServiceStart
<1>2. app \in Version => app \in OldOrNew /\ app # Absent  BY Names DEF OldOrNew
<1> QED  BY <1>1, <1>2, NothingRuns

(* A process that updates, checks itself or has something to start is one. *)
LEMMA Alive ==
  ASSUME PcIInv
  PROVE  /\ proc.ver = Absent => proc = NoProcess
         /\ proc.begun \/ Updating \/ proc.spawn \/ proc.check # "idle" \/ proc.out # <<>> \/ link
              => proc.ver # Absent /\ proc # NoProcess /\ bat.at \notin Stopped
         /\ Updating \/ proc.spawn \/ proc.check # "idle" \/ proc.out # <<>> \/ link => proc.begun
         /\ proc.ver # Absent => proc # NoProcess /\ proc.ver = disk.app /\ bat.at \notin Stopped
<1>1. proc.ver = Absent => proc = NoProcess  BY DEF PcIInv, ProcessSane
<1>2. ~proc.begun => /\ ~Updating /\ ~proc.spawn /\ proc.check = "idle" /\ proc.out = <<>> /\ ~link
  BY NothingRuns DEF PcIInv, ProcessSane, Updating
<1>3. proc.begun => proc.ver # Absent  BY <1>1, NothingRuns
<1>4. proc.ver # Absent => proc # NoProcess /\ proc.ver = disk.app /\ bat.at \notin Stopped
  BY NothingRuns DEF PcIInv, ProcessSane, FoldersInStep
<1> QED  BY <1>1, <1>2, <1>3, <1>4

(* While the batch holds the service stopped, there is no process. *)
LEMMA StoppedIs ==
  ASSUME PcIInv, bat.at \in Stopped
  PROVE  proc = NoProcess /\ ~link /\ up = <<>> /\ AllNews = {}
<1>1. proc = NoProcess  BY DEF PcIInv, FoldersInStep
<1>2. ~link /\ up = <<>>  BY <1>1, NothingRuns DEF PcIInv, ProcessSane
<1> QED  BY <1>1, <1>2, NothingRuns, EntriesNone DEF AllNews

(* What a message says. *)
LEMMA MessageIs ==
  /\ \A v : HelloOf(v).type = "hello" /\ HelloOf(v).v = v /\ HelloOf(v).outcome = "none"
  /\ \A v, o : Report(v, o).type = "status" /\ Report(v, o).v = v /\ Report(v, o).outcome = o
  /\ \A v \in OldOrNew : HelloOf(v) \in Message
  /\ \A o \in Outcome : Report(Target, o) \in Message
  /\ \A m \in Told : m \in Message /\ m.type = "status" /\ m.v = Target /\ IsFinal(m)
                    /\ m.outcome \in {"failed", "installed", "rolled_back"}
  /\ \A m \in Message : \/ m.type = "hello" /\ m.outcome = "none"
                        \/ m.type = "status" /\ m.v = Target /\ m.outcome \in Outcome
BY DEF HelloOf, Report, Message, News, Told, Outcome, IsFinal

(* A rollback told is an end told. *)
LEMMA NewsOfTheEnd == ASSUME PcIInv PROVE RolledBackNews => FinalNews
<1>1. proc.out \in Seq(Told) /\ up \in Seq(Message)  BY DEF PcIInv, PcShapes, Process
<1>2. \A m \in AllNews : m \in Told \cup Message  BY <1>1 DEF AllNews, Entries
<1>3. \A m \in AllNews : m.outcome = "rolled_back" => IsFinal(m)  BY <1>2, MessageIs DEF IsFinal
<1> QED  BY <1>3 DEF RolledBackNews, FinalNews

(* A message goes to the end of what is on the way. *)
LEMMA Queued ==
  ASSUME PcIInv, NEW m \in Message, up' = Append(up, m)
  PROVE  /\ up' \in Seq(Message) /\ up' # <<>> /\ Entries(up') = Entries(up) \cup {m}
         /\ \A i \in DOMAIN up' : (i \in DOMAIN up /\ up'[i] = up[i]) \/ i = Len(up) + 1
         /\ \A i \in DOMAIN up : i \in DOMAIN up' /\ up'[i] = up[i] /\ Len(up) + 1 > i
         /\ Len(up) + 1 \in DOMAIN up' /\ up'[Len(up) + 1] = m
<1>1. up \in Seq(Message)  BY DEF PcIInv, PcShapes
<1>2. DOMAIN up = 1 .. Len(up) /\ Len(up) \in Nat  BY <1>1
<1>3. up' \in Seq(Message) /\ Len(up') = Len(up) + 1  BY <1>1, EntriesAppend
<1>4. DOMAIN up' = 1 .. (Len(up) + 1)  BY <1>3
<1>5. \A i : /\ i \in DOMAIN up' => i \in DOMAIN up \/ i = Len(up) + 1
             /\ i \in DOMAIN up => i \in DOMAIN up' /\ Len(up) + 1 > i
  BY <1>2, <1>4
<1>6. Len(up) + 1 \in DOMAIN up'  BY <1>2, <1>4
<1>7. /\ up' # <<>> /\ up'[Len(up) + 1] = m /\ Entries(up') = Entries(up) \cup {m}
      /\ \A i \in DOMAIN up : up'[i] = up[i]
  BY <1>1, EntriesAppend
<1> QED  BY <1>3, <1>5, <1>6, <1>7

LEMMA Answered ==
  ASSUME PcIInv, NEW m \in Message, up' = Append(up, m), proc'.out = proc.out
  PROVE  AllNews' = AllNews \cup {m}
<1>1. Entries(proc'.out) = Entries(proc.out)  OBVIOUS
<1>2. Entries(up') = Entries(up) \cup {m}  BY Queued
<1> QED  BY <1>1, <1>2 DEF AllNews, Entries


(* What an end takes with it. *)
LEMMA LostIs ==
  ASSUME PcIInv, NEW queue \in Seq(Message), NEW h \in History
  PROVE  LET l == Lost(h, queue, proc)
         IN /\ l \in History /\ l.count = h.count /\ l.mishaps = h.mishaps
            /\ l.good = h.good /\ l.undone = h.undone
            /\ h.lost \subseteq l.lost
            /\ \A m \in Entries(queue) : m.type = "status" => Target \in l.lost
            /\ proc.upd # "none" => Target \in l.lost
<1> DEFINE new == {m.v : m \in {r \in Entries(queue) : r.type = "status"}}
                    \cup IF proc.upd = "none" THEN {} ELSE {proc.to}
           l == Lost(h, queue, proc)
<1>1. \A m \in Entries(queue) : m.type = "status" => m.v = Target
  BY DEF Entries, Message, News, Report, HelloOf
<1>2. proc.upd # "none" => proc.to = Target  BY DEF PcIInv, ProcessSane
<1>3. new \subseteq {Target}  BY <1>1, <1>2
<1>4. /\ \A m \in Entries(queue) : m.type = "status" => Target \in new
      /\ proc.upd # "none" => Target \in new
  BY <1>1, <1>2
<1>5. l = [h EXCEPT !.lost = @ \cup new]  BY DEF Lost
<1> HIDE DEF new, l
<1>6. /\ l \in History /\ l.count = h.count /\ l.mishaps = h.mishaps
      /\ l.good = h.good /\ l.undone = h.undone /\ l.lost = h.lost \cup new
  BY <1>3, <1>5 DEF History
<1> QED  BY <1>4, <1>6 DEF l

LEMMA AllNewsSeq ==
  ASSUME PcIInv PROVE proc.out \o up \in Seq(Message) /\ Entries(proc.out \o up) = AllNews
<1>1. proc.out \in Seq(Told) /\ up \in Seq(Message)  BY DEF PcIInv, PcShapes, Process
<1>2. Told \subseteq Message  BY DEF Told, Message, News, Outcome
<1> QED  BY <1>1, <1>2, EntriesConcat DEF AllNews

LEMMA EndsIs ==
  ASSUME PcIInv
  PROVE  LET l == Ends(proc, hist, up)
         IN /\ l \in History /\ l.count = hist.count /\ l.mishaps = hist.mishaps
            /\ l.good = hist.good /\ l.undone = hist.undone
            /\ hist.lost \subseteq l.lost
            /\ \A m \in AllNews : m.type = "status" => Target \in l.lost
            /\ Updating => Target \in l.lost
<1> DEFINE h == [hist EXCEPT !.lost = @ \cup ({proc.watch} \ {Absent})]
           queue == proc.out \o up
<1>1. h \in History /\ h.count = hist.count /\ h.mishaps = hist.mishaps
      /\ h.good = hist.good /\ h.undone = hist.undone
      /\ hist.lost \subseteq h.lost /\ (proc.watch # Absent => Target \in h.lost)
  BY DEF PcIInv, PcShapes, History, Process, Update
<1>2. queue \in Seq(Message) /\ Entries(queue) = AllNews  BY AllNewsSeq
<1>3. Ends(proc, hist, up) = Lost(h, queue, proc)  BY DEF Ends
<1> HIDE DEF h, queue
<1> QED  BY <1>1, <1>2, <1>3, LostIs DEF Updating

(* Changes that leave a process a process and a history a history. *)
LEMMA ProcessWith ==
  ASSUME NEW p \in Process
  PROVE  /\ Idle(p) \in Process
         /\ [p EXCEPT !.spawn = TRUE, !.watch = Target] \in Process
         /\ \A o \in Seq(Told) : [p EXCEPT !.begun = TRUE, !.out = o] \in Process
<1>1. Idle(p) \in Process  BY DEF Idle, Process, Update
<1>2. [p EXCEPT !.spawn = TRUE, !.watch = Target] \in Process  BY DEF Process, Update
<1>3. \A o \in Seq(Told) : [p EXCEPT !.begun = TRUE, !.out = o] \in Process
  <2> SUFFICES ASSUME NEW o \in Seq(Told) PROVE [p EXCEPT !.begun = TRUE, !.out = o] \in Process
    OBVIOUS
  <2> QED  BY DEF Process
<1> QED  BY <1>1, <1>2, <1>3

LEMMA HistoryWith ==
  ASSUME NEW h \in History, NEW M \in SUBSET {"cut", "held", "stuck", "double"}
  PROVE  LET g == [h EXCEPT !.count = @ + 1, !.mishaps = M]
         IN /\ g \in History /\ g.mishaps = M
            /\ g.good = h.good /\ g.undone = h.undone /\ g.lost = h.lost
<1> DEFINE g == [h EXCEPT !.count = @ + 1, !.mishaps = M]
<1>1. h.count + 1 \in Nat  BY DEF History
<1>2. g = [h EXCEPT !.count = h.count + 1, !.mishaps = M]  OBVIOUS
<1> QED  BY <1>1, <1>2 DEF History

LEMMA CutIs ==
  ASSUME PcIInv, PowerCut
  PROVE  /\ hist' \in History
         /\ hist'.good = hist.good /\ hist'.undone = hist.undone /\ hist.lost \subseteq hist'.lost
         /\ hist.mishaps \subseteq hist'.mishaps
         /\ (bat.at = "idle" /\ hist'.mishaps = hist.mishaps) \/ "cut" \in hist'.mishaps
         /\ RolledBackNews \/ FinalNews => Target \in hist'.lost
         /\ Updating => Target \in hist'.lost
<1> DEFINE h == Ends(proc, hist, up)
           M == IF bat.at = "idle" THEN h.mishaps ELSE h.mishaps \cup {"cut"}
<1>1. hist' = [h EXCEPT !.count = @ + 1, !.mishaps = M]  BY DEF PowerCut
<1>2. /\ h \in History /\ h.mishaps = hist.mishaps /\ h.good = hist.good /\ h.undone = hist.undone
      /\ hist.lost \subseteq h.lost /\ (Updating => Target \in h.lost)
      /\ \A m \in AllNews : m.type = "status" => Target \in h.lost
  BY EndsIs
<1> HIDE DEF h
<1>3. M \in SUBSET {"cut", "held", "stuck", "double"}  BY <1>2 DEF History
<1>4. hist.mishaps \subseteq M /\ ((bat.at = "idle" /\ M = hist.mishaps) \/ "cut" \in M)  BY <1>2
<1> HIDE DEF M
<1>5. hist' \in History /\ hist'.mishaps = M /\ hist'.good = h.good /\ hist'.undone = h.undone /\ hist'.lost = h.lost
  BY <1>1, <1>2, <1>3, HistoryWith
<1> QED  BY <1>2, <1>4, <1>5, NewsOfTheEnd DEF FinalNews, IsFinal

LEMMA FallIs ==
  ASSUME PcIInv, ProcessFalls
  PROVE  /\ hist' \in History /\ hist'.mishaps = hist.mishaps
         /\ hist'.good = hist.good /\ hist'.undone = hist.undone /\ hist.lost \subseteq hist'.lost
         /\ RolledBackNews \/ FinalNews => Target \in hist'.lost
         /\ Updating => Target \in hist'.lost
<1> DEFINE h == Ends(proc, hist, up)
<1>1. hist' = [h EXCEPT !.count = @ + 1]  BY DEF ProcessFalls
<1>2. /\ h \in History /\ h.mishaps = hist.mishaps /\ h.good = hist.good /\ h.undone = hist.undone
      /\ hist.lost \subseteq h.lost /\ (Updating => Target \in h.lost)
      /\ \A m \in AllNews : m.type = "status" => Target \in h.lost
  BY EndsIs
<1> HIDE DEF h
<1>3. hist' \in History /\ hist'.mishaps = h.mishaps /\ hist'.good = h.good /\ hist'.undone = h.undone /\ hist'.lost = h.lost
  BY <1>1, <1>2 DEF History
<1> QED  BY <1>2, <1>3, NewsOfTheEnd DEF FinalNews, IsFinal

(* A session that ends takes with it what is on the way and the answer of  *)
(* the handler.                                                            *)
LEMMA DropIs ==
  ASSUME PcIInv, Drop
  PROVE  /\ hist' \in History /\ hist'.mishaps = hist.mishaps
         /\ hist'.good = hist.good /\ hist'.undone = hist.undone /\ hist.lost \subseteq hist'.lost
         /\ \A m \in AllNews : m \in Entries(proc.out) \/ (IsFinal(m) \/ m.outcome = "rolled_back" => Target \in hist'.lost)
         /\ proc.upd # "none" => Target \in hist'.lost
<1> DEFINE h == Lost(hist, up, proc)
<1>1. hist' = [h EXCEPT !.count = @ + 1]  BY DEF Drop
<1>2. /\ h \in History /\ h.mishaps = hist.mishaps /\ h.good = hist.good /\ h.undone = hist.undone
      /\ hist.lost \subseteq h.lost /\ (proc.upd # "none" => Target \in h.lost)
      /\ \A m \in Entries(up) : m.type = "status" => Target \in h.lost
  <2>1. hist \in History /\ up \in Seq(Message)  BY DEF PcIInv, PcShapes
  <2> QED  BY <2>1, LostIs
<1> HIDE DEF h
<1>3. hist' \in History /\ hist'.mishaps = h.mishaps /\ hist'.good = h.good /\ hist'.undone = h.undone /\ hist'.lost = h.lost
  BY <1>1, <1>2 DEF History
<1>4. \A m \in Entries(up) : m.outcome = "rolled_back" => m.type = "status"
  BY MessageIs DEF PcIInv, PcShapes, Entries
<1> QED  BY <1>2, <1>3, <1>4 DEF AllNews, IsFinal

LEMMA StopIs ==
  ASSUME PcIInv, BatStop
  PROVE  /\ hist' \in History /\ hist'.mishaps = hist.mishaps
         /\ hist'.good = hist.good /\ hist'.undone = hist.undone /\ hist.lost \subseteq hist'.lost
         /\ RolledBackNews \/ FinalNews => Target \in hist'.lost
         /\ proc.upd # "none" => Target \in hist'.lost
<1> DEFINE h == Lost(hist, proc.out \o up, proc)
<1>1. hist' = h  BY DEF BatStop
<1>2. /\ h \in History /\ h.mishaps = hist.mishaps /\ h.good = hist.good /\ h.undone = hist.undone
      /\ hist.lost \subseteq h.lost /\ (proc.upd # "none" => Target \in h.lost)
      /\ \A m \in AllNews : m.type = "status" => Target \in h.lost
  <2>1. hist \in History  BY DEF PcIInv, PcShapes
  <2> QED  BY <2>1, AllNewsSeq, LostIs
<1> HIDE DEF h
<1> QED  BY <1>1, <1>2, NewsOfTheEnd DEF FinalNews, IsFinal

-----------------------------------------------------------------------------
(***************************************************************************)
(* The steps of the PC, one by one: each keeps the invariant of the PC, and  *)
(* carries what the center has to hear of it.                               *)
(***************************************************************************)
(* The batch unpacks the archive that was left for it.                     *)
LEMMA BatUnpackKeeps ==
  ASSUME PcIInv, BatUnpack PROVE PcIInv' /\ Carries
<1> USE Names, NothingRuns, Alive DEF PcIInv
<1>1. CASE disk.zip # Absent /\ bat'.at = "stop"
  <2>1. /\ bat.at = "unpack"
        /\ disk' = [disk EXCEPT !.new = disk.zip, !.zip = Absent]
        /\ bat' = [bat EXCEPT !.at = "stop"]
        /\ UNCHANGED <<proc, link, up, hist>>
    BY <1>1 DEF BatUnpack, To, NoBatch
  <2>2. disk' \in Disk
    BY <2>1 DEF PcShapes, Disk, Update
  <2>3. /\ bat'.at = "stop"
        /\ bat'.v = bat.v
        /\ bat' \in [at : Label, v : Update]
    BY <2>1 DEF PcShapes, Label
  <2>4. AllNews' = AllNews
    BY <2>1 DEF AllNews
  <2>5. PcShapes'
    BY <2>1, <2>2, <2>3 DEF PcShapes
  <2>6. ProcessSane'
    BY <2>1 DEF ProcessSane, Updating
  <2>7. MessagesSane'
    BY <2>1, <2>4 DEF MessagesSane
  <2>8. FoldersInStep'
    BY <2>1 DEF FoldersInStep, Stopped, Forward
  <2>9. JunkIsHeld'
    BY <2>1 DEF JunkIsHeld
  <2>10. MarkTells'
    BY <2>1 DEF MarkTells, Forward
  <2>11. ServiceRuns'
    BY <2>1 DEF ServiceRuns, Only
  <2>12. OnlyConfirmedStays'
    BY <1>1 DEF OnlyConfirmedStays
  <2>13. UndoneIsTrue'
    BY <2>1, <2>4 DEF UndoneIsTrue, RolledBackNews
  <2>14. OpeningIsFollowed'
    BY <2>1 DEF OpeningIsFollowed, Updating
  <2>15. WatchAnswers'
    BY <2>1 DEF WatchAnswers, Forward
  <2>16. Grows
    BY <2>1 DEF Grows
  <2>17. SessionTells
    BY <2>1 DEF SessionTells, Greeting
  <2>18. BackIsUndone
    BY <2>1 DEF BackIsUndone
  <2>19. UndoneTravels
    BY <2>1, <2>4 DEF UndoneTravels, OnTheWay, InService, RolledBackNews, Rollback
  <2>20. EndStaysDue
    BY <1>1 DEF EndStaysDue, Pending
  <2> QED  BY <2>5, <2>6, <2>7, <2>8, <2>9, <2>10, <2>11, <2>12, <2>13, <2>14, <2>15, <2>16,
       <2>17, <2>18, <2>19, <2>20 DEF Carries
<1>2. CASE bat' = NoBatch
  <2>1. /\ bat.at = "unpack"
        /\ disk' = [disk EXCEPT !.zip = Absent, !.new = Absent, !.ctx = NoContext]
        /\ bat' = NoBatch
        /\ UNCHANGED <<proc, link, up, hist>>
    BY <1>2 DEF BatUnpack, CleanedUp, To, NoBatch
  <2>2. disk' \in Disk
    BY <2>1 DEF PcShapes, Disk, Update
  <2>3. /\ bat'.at = "idle"
        /\ bat'.v = Absent
        /\ bat' \in [at : Label, v : Update]
    BY <1>2 DEF NoBatch, Label, Update
  <2>4. AllNews' = AllNews
    BY <2>1 DEF AllNews
  <2>5. PcShapes'
    BY <2>1, <2>2, <2>3 DEF PcShapes
  <2>6. ProcessSane'
    BY <2>1 DEF ProcessSane, Updating
  <2>7. MessagesSane'
    BY <2>1, <2>4 DEF MessagesSane
  <2>8. FoldersInStep'
    BY <2>3 DEF FoldersInStep, Stopped, Forward
  <2>9. JunkIsHeld'
    BY <2>1, <2>3 DEF JunkIsHeld
  <2>10. MarkTells'
    BY <2>1 DEF MarkTells, Forward
  <2>11. ServiceRuns'
    BY <2>1 DEF ServiceRuns, Only
  <2>12. OnlyConfirmedStays'
    BY <2>1 DEF OnlyConfirmedStays, FoldersInStep, Forward, MarkTells
  <2>13. UndoneIsTrue'
    BY <2>1, <2>3, <2>4 DEF UndoneIsTrue, RolledBackNews
  <2>14. OpeningIsFollowed'
    BY <2>1 DEF OpeningIsFollowed, Updating
  <2>15. WatchAnswers'
    BY <2>1, <2>3 DEF WatchAnswers, Forward
  <2>16. Grows
    BY <2>1 DEF Grows
  <2>17. SessionTells
    BY <2>1 DEF SessionTells, Greeting
  <2>18. BackIsUndone
    BY <2>1 DEF BackIsUndone
  <2>19. UndoneTravels
    BY <2>1, <2>4 DEF UndoneTravels, OnTheWay, InService, RolledBackNews, Rollback
  <2>20. EndStaysDue
    BY <2>1 DEF EndStaysDue, Pending, Updating, WatchAnswers
  <2> QED  BY <2>5, <2>6, <2>7, <2>8, <2>9, <2>10, <2>11, <2>12, <2>13, <2>14, <2>15, <2>16,
       <2>17, <2>18, <2>19, <2>20 DEF Carries
<1> QED  BY <1>1, <1>2 DEF BatUnpack, To, PcShapes

(* nssm stop ends the process: its news and what was on the way are lost,  *)
(* and the handler with its context goes with it.                          *)
LEMMA BatStopKeeps ==
  ASSUME PcIInv, BatStop PROVE PcIInv' /\ Carries
<1> USE Names, NothingRuns, Alive DEF PcIInv
<1>1. /\ bat.at \in {"stop", "rstop"}
      /\ proc' = NoProcess
      /\ bat' = [bat EXCEPT !.at = IF bat.at = "stop" THEN "clean" ELSE "rclean"]
      /\ up' = <<>>
      /\ link' = FALSE
      /\ UNCHANGED <<disk>>
  BY DEF BatStop, To, Killed
<1>2. /\ hist' \in History /\ hist'.mishaps = hist.mishaps
      /\ hist'.good = hist.good /\ hist'.undone = hist.undone /\ hist.lost \subseteq hist'.lost
      /\ RolledBackNews \/ FinalNews => Target \in hist'.lost
  BY StopIs
<1>3. /\ bat'.at = IF bat.at = "stop" THEN "clean" ELSE "rclean"
      /\ bat'.v = bat.v
      /\ bat' \in [at : Label, v : Update]
  BY <1>1 DEF PcShapes, Label
<1>4. AllNews' = {}
  BY <1>1, EntriesNone DEF AllNews
<1>5. <<>> \in Seq(Message) /\ FALSE \in BOOLEAN
  OBVIOUS
<1>6. PcShapes'
  BY <1>1, <1>5, <1>2, <1>3 DEF PcShapes
<1>7. ProcessSane'
  BY <1>1 DEF ProcessSane, Updating
<1>8. MessagesSane'
  BY <1>1, <1>4 DEF MessagesSane
<1>9. FoldersInStep'
  BY <1>1 DEF FoldersInStep, Forward
<1>10. JunkIsHeld'
  BY <1>1, <1>2 DEF JunkIsHeld
<1>11. MarkTells'
  BY <1>1, <1>2 DEF MarkTells, Forward
<1>12. ServiceRuns'
  BY <1>1 DEF ServiceRuns
<1>13. OnlyConfirmedStays'
  BY <1>1 DEF OnlyConfirmedStays
<1>14. UndoneIsTrue'
  BY <1>1, <1>2, <1>4 DEF UndoneIsTrue, RolledBackNews
<1>15. OpeningIsFollowed'
  BY <1>1 DEF OpeningIsFollowed
<1>16. WatchAnswers'
  BY <1>1, <1>2 DEF WatchAnswers, Forward
<1>17. Grows
  BY <1>2 DEF Grows
<1>18. SessionTells
  BY <1>1 DEF SessionTells
<1>19. BackIsUndone
  BY <1>1 DEF BackIsUndone
<1>20. UndoneTravels
  BY <1>1, <1>2 DEF UndoneTravels, OnTheWay, InService, Rollback
<1>21. EndStaysDue
  BY <1>1 DEF EndStaysDue, Pending
<1> QED  BY <1>6, <1>7, <1>8, <1>9, <1>10, <1>11, <1>12, <1>13, <1>14, <1>15, <1>16, <1>17,
     <1>18, <1>19, <1>20, <1>21 DEF Carries

(* The rest of the last but one update is removed, or stays in part.       *)
LEMMA BatCleanKeeps ==
  ASSUME PcIInv, BatClean PROVE PcIInv' /\ Carries
<1> USE Names, NothingRuns, Alive DEF PcIInv
<1>1. /\ bat.at = "clean"
      /\ bat' = [bat EXCEPT !.at = "out"]
      /\ UNCHANGED <<proc, link, up>>
  BY DEF BatClean, To
<1>2. PICK d \in {Absent, Junk}, b \in {Absent, Junk} : disk' = [disk EXCEPT !.old = d, !.bad = b] /\ hist' = IF Junk \in {d, b} THEN After("held") ELSE hist
  BY DEF BatClean, Removed, To
<1>3. /\ disk' \in Disk
      /\ disk'.app = disk.app /\ disk'.new = disk.new /\ disk'.zip = disk.zip /\ disk'.ctx = disk.ctx
      /\ disk'.ok = disk.ok /\ disk'.fail = disk.fail /\ disk'.rb = disk.rb
      /\ disk'.old \in {Absent, Junk} /\ disk'.bad \in {Absent, Junk}
  BY <1>2 DEF PcShapes, Disk
<1>4. /\ hist' \in History
      /\ hist'.count = hist.count /\ hist'.good = hist.good /\ hist'.undone = hist.undone /\ hist'.lost = hist.lost
      /\ hist'.mishaps = hist.mishaps \/ hist'.mishaps = hist.mishaps \cup {"held"}
      /\ disk'.old = Junk \/ disk'.bad = Junk => "held" \in hist'.mishaps
  BY <1>2 DEF PcShapes, History, After
<1>5. /\ bat'.at = "out"
      /\ bat'.v = bat.v
      /\ bat' \in [at : Label, v : Update]
  BY <1>1 DEF PcShapes, Label
<1>6. AllNews' = AllNews
  BY <1>1 DEF AllNews
<1>7. PcShapes'
  BY <1>1, <1>3, <1>4, <1>5 DEF PcShapes
<1>8. ProcessSane'
  BY <1>1, <1>2 DEF ProcessSane, Updating
<1>9. MessagesSane'
  BY <1>1, <1>6 DEF MessagesSane
<1>10. FoldersInStep'
  BY <1>1, <1>2 DEF FoldersInStep, Stopped, Forward
<1>11. JunkIsHeld'
  BY <1>2, <1>4 DEF JunkIsHeld
<1>12. MarkTells'
  BY <1>1, <1>2, <1>4 DEF MarkTells, Forward
<1>13. ServiceRuns'
  BY <1>1 DEF ServiceRuns
<1>14. OnlyConfirmedStays'
  BY <1>1 DEF OnlyConfirmedStays
<1>15. UndoneIsTrue'
  BY <1>1, <1>2, <1>4, <1>6 DEF UndoneIsTrue, RolledBackNews
<1>16. OpeningIsFollowed'
  BY <1>1 DEF OpeningIsFollowed, Updating
<1>17. WatchAnswers'
  BY <1>1, <1>2, <1>4 DEF WatchAnswers, Forward
<1>18. Grows
  BY <1>4 DEF Grows
<1>19. SessionTells
  BY <1>1 DEF SessionTells, Greeting
<1>20. BackIsUndone
  BY <1>2 DEF BackIsUndone
<1>21. UndoneTravels
  BY <1>1, <1>2, <1>4, <1>6 DEF UndoneTravels, OnTheWay, InService, RolledBackNews, Rollback
<1>22. EndStaysDue
  BY <1>1 DEF EndStaysDue, Pending
<1> QED  BY <1>7, <1>8, <1>9, <1>10, <1>11, <1>12, <1>13, <1>14, <1>15, <1>16, <1>17, <1>18,
     <1>19, <1>20, <1>21, <1>22 DEF Carries

(* app becomes old, or somebody holds it and the old version is started    *)
(* again.                                                                  *)
LEMMA BatSwapOutKeeps ==
  ASSUME PcIInv, BatSwapOut PROVE PcIInv' /\ Carries
<1> USE Names, NothingRuns, Alive DEF PcIInv
<1>1. CASE proc' = proc /\ bat'.at = "in"
  <2>1. /\ bat.at = "out"
        /\ disk' = [disk EXCEPT !.old = Moved(disk.app, disk.old), !.app = Absent]
        /\ bat' = [bat EXCEPT !.at = "in"]
        /\ UNCHANGED <<proc, link, up, hist>>
    BY <1>1 DEF BatSwapOut, To, NoBatch
  <2>2. proc = NoProcess /\ ~link /\ up = <<>> /\ AllNews = {}
    BY <2>1, StoppedIs DEF Stopped
  <2>3. Moved(disk.app, disk.old) \in {FirstVersion, Junk} /\ (Moved(disk.app, disk.old) = Junk => disk.old = Junk)
    BY <2>1 DEF FoldersInStep, Forward, Moved
  <2>4. disk' \in Disk
    BY <2>1, <2>3 DEF PcShapes, Disk
  <2>5. /\ bat'.at = "in"
        /\ bat'.v = bat.v
        /\ bat' \in [at : Label, v : Update]
    BY <2>1 DEF PcShapes, Label
  <2>6. AllNews' = AllNews
    BY <2>1 DEF AllNews
  <2>7. PcShapes'
    BY <2>1, <2>4, <2>5 DEF PcShapes
  <2>8. ProcessSane'
    BY <2>1, <2>2 DEF ProcessSane, Updating
  <2>9. MessagesSane'
    BY <2>1, <2>6 DEF MessagesSane
  <2>10. FoldersInStep'
    BY <2>1, <2>2, <2>3 DEF FoldersInStep, Forward
  <2>11. JunkIsHeld'
    BY <2>1, <2>3 DEF JunkIsHeld
  <2>12. MarkTells'
    BY <2>1 DEF MarkTells, Forward
  <2>13. ServiceRuns'
    BY <1>1 DEF ServiceRuns
  <2>14. OnlyConfirmedStays'
    BY <1>1 DEF OnlyConfirmedStays
  <2>15. UndoneIsTrue'
    BY <2>1, <2>6 DEF UndoneIsTrue, RolledBackNews
  <2>16. OpeningIsFollowed'
    BY <2>1, <2>2 DEF OpeningIsFollowed
  <2>17. WatchAnswers'
    BY <2>1 DEF WatchAnswers, Forward
  <2>18. Grows
    BY <2>1 DEF Grows
  <2>19. SessionTells
    BY <2>1, <2>2 DEF SessionTells
  <2>20. BackIsUndone
    BY <2>1 DEF BackIsUndone
  <2>21. UndoneTravels
    BY <2>1, <2>2 DEF UndoneTravels, OnTheWay, InService, RolledBackNews, Rollback
  <2>22. EndStaysDue
    BY <1>1 DEF EndStaysDue, Pending
  <2> QED  BY <2>7, <2>8, <2>9, <2>10, <2>11, <2>12, <2>13, <2>14, <2>15, <2>16, <2>17, <2>18,
       <2>19, <2>20, <2>21, <2>22 DEF Carries
<1>2. CASE bat' = NoBatch
  <2>1. /\ bat.at = "out"
        /\ proc' \in ServiceStart(disk.app)
        /\ bat' = NoBatch
        /\ UNCHANGED <<disk, link, up, hist>>
    BY <1>2 DEF BatSwapOut, To, NoBatch
  <2>2. proc = NoProcess /\ ~link /\ up = <<>> /\ AllNews = {}
    BY <2>1, StoppedIs DEF Stopped
  <2>3. disk.app \in OldOrNew \cup {Absent, Junk}
    BY DEF PcShapes, Disk
  <2>4. /\ proc' \in Process
        /\ proc'.begun = FALSE /\ proc'.check = "idle" /\ proc'.upd = "none" /\ proc'.to = Absent
        /\ proc'.spawn = FALSE /\ proc'.watch = Absent /\ proc'.out = <<>>
        /\ proc'.ver = Absent => proc' = NoProcess /\ disk.app \notin Version \ Broken
        /\ proc'.ver # Absent => proc'.ver = disk.app
        /\ proc' = Started(proc'.ver)
    BY <1>2, <2>1, <2>3, Starts
  <2>5. /\ bat'.at = "idle"
        /\ bat'.v = Absent
        /\ bat' \in [at : Label, v : Update]
    BY <1>2 DEF NoBatch, Label, Update
  <2>6. AllNews' = AllNews
    BY <2>1, <2>2, <2>4 DEF AllNews
  <2>7. PcShapes'
    BY <2>1, <2>4, <2>5 DEF PcShapes
  <2>8. ProcessSane'
    BY <2>1, <2>2, <2>4 DEF ProcessSane, Updating
  <2>9. MessagesSane'
    BY <2>1, <2>2, <2>6 DEF MessagesSane
  <2>10. FoldersInStep'
    BY <2>5 DEF FoldersInStep, Stopped, Forward
  <2>11. JunkIsHeld'
    BY <2>1 DEF JunkIsHeld
  <2>12. MarkTells'
    BY <2>1 DEF MarkTells, Forward
  <2>13. ServiceRuns'
    BY <2>1, <2>3, <2>4 DEF ServiceRuns, FoldersInStep, Forward
  <2>14. OnlyConfirmedStays'
    BY <2>1 DEF OnlyConfirmedStays, FoldersInStep, Forward, MarkTells
  <2>15. UndoneIsTrue'
    BY <2>1, <2>4, <2>5, <2>6 DEF UndoneIsTrue, RolledBackNews
  <2>16. OpeningIsFollowed'
    BY <2>1, <2>2 DEF OpeningIsFollowed
  <2>17. WatchAnswers'
    BY <2>1, <2>4, <2>5 DEF WatchAnswers, FoldersInStep, Forward
  <2>18. Grows
    BY <2>1 DEF Grows
  <2>19. SessionTells
    BY <2>1, <2>2 DEF SessionTells
  <2>20. BackIsUndone
    BY <2>1 DEF BackIsUndone
  <2>21. UndoneTravels
    BY <2>1, <2>2 DEF UndoneTravels, OnTheWay, InService, RolledBackNews, Rollback
  <2>22. EndStaysDue
    BY <2>1, <2>4 DEF EndStaysDue, Pending, Only, Forward, WatchAnswers
  <2> QED  BY <2>7, <2>8, <2>9, <2>10, <2>11, <2>12, <2>13, <2>14, <2>15, <2>16, <2>17, <2>18,
       <2>19, <2>20, <2>21, <2>22 DEF Carries
<1> QED  BY <1>1, <1>2 DEF BatSwapOut, To, PcShapes

(* new becomes app; when it does not, the way back begins.                 *)
LEMMA BatSwapInKeeps ==
  ASSUME PcIInv, BatSwapIn PROVE PcIInv' /\ Carries
<1> USE Names, NothingRuns, Alive DEF PcIInv
<1>1. CASE bat'.at = "start"
  <2>1. /\ bat.at = "in"
        /\ disk.new = Target
        /\ disk' = [disk EXCEPT !.app = Target, !.new = Absent]
        /\ bat' = [bat EXCEPT !.at = "start"]
        /\ UNCHANGED <<proc, link, up, hist>>
    BY <1>1 DEF BatSwapIn, To, Moved, FoldersInStep, PcShapes, Disk, Update
  <2>2. proc = NoProcess /\ ~link /\ up = <<>> /\ AllNews = {}
    BY <2>1, StoppedIs DEF Stopped
  <2>3. disk' \in Disk
    BY <2>1, <2>2 DEF PcShapes, Disk, Update, OldOrNew, NoContext
  <2>4. /\ bat'.at = "start"
        /\ bat'.v = bat.v
        /\ bat' \in [at : Label, v : Update]
    BY <2>1 DEF PcShapes, Label
  <2>5. AllNews' = AllNews
    BY <2>1 DEF AllNews
  <2>6. PcShapes'
    BY <2>1, <2>3, <2>4 DEF PcShapes
  <2>7. ProcessSane'
    BY <2>1, <2>2 DEF ProcessSane, Updating
  <2>8. MessagesSane'
    BY <2>1, <2>5 DEF MessagesSane
  <2>9. FoldersInStep'
    BY <2>1 DEF FoldersInStep, Forward
  <2>10. JunkIsHeld'
    BY <2>1 DEF JunkIsHeld
  <2>11. MarkTells'
    BY <2>1 DEF MarkTells
  <2>12. ServiceRuns'
    BY <1>1 DEF ServiceRuns
  <2>13. OnlyConfirmedStays'
    BY <1>1 DEF OnlyConfirmedStays
  <2>14. UndoneIsTrue'
    BY <2>1, <2>5 DEF UndoneIsTrue, RolledBackNews
  <2>15. OpeningIsFollowed'
    BY <2>1, <2>2 DEF OpeningIsFollowed
  <2>16. WatchAnswers'
    BY <2>1 DEF WatchAnswers, Forward
  <2>17. Grows
    BY <2>1 DEF Grows
  <2>18. SessionTells
    BY <2>1, <2>2 DEF SessionTells
  <2>19. BackIsUndone
    BY <2>1 DEF BackIsUndone
  <2>20. UndoneTravels
    BY <2>1, <2>2 DEF UndoneTravels, OnTheWay, InService, RolledBackNews, Rollback
  <2>21. EndStaysDue
    BY <1>1 DEF EndStaysDue, Pending
  <2> QED  BY <2>6, <2>7, <2>8, <2>9, <2>10, <2>11, <2>12, <2>13, <2>14, <2>15, <2>16, <2>17,
       <2>18, <2>19, <2>20, <2>21 DEF Carries
<1>2. CASE bat'.at = "rstop"
  <2>1. /\ bat.at = "in"
        /\ disk.new = Absent
        /\ disk' = [disk EXCEPT !.app = Absent, !.new = Absent]
        /\ bat' = [bat EXCEPT !.at = "rstop"]
        /\ UNCHANGED <<proc, link, up, hist>>
    BY <1>2 DEF BatSwapIn, To, Moved, FoldersInStep, PcShapes, Disk, Update
  <2>2. proc = NoProcess /\ ~link /\ up = <<>> /\ AllNews = {}
    BY <2>1, StoppedIs DEF Stopped
  <2>3. disk' \in Disk
    BY <2>1 DEF PcShapes, Disk
  <2>4. /\ bat'.at = "rstop"
        /\ bat'.v = bat.v
        /\ bat' \in [at : Label, v : Update]
    BY <2>1 DEF PcShapes, Label
  <2>5. AllNews' = AllNews
    BY <2>1 DEF AllNews
  <2>6. PcShapes'
    BY <2>1, <2>3, <2>4 DEF PcShapes
  <2>7. ProcessSane'
    BY <2>1, <2>2 DEF ProcessSane, Updating
  <2>8. MessagesSane'
    BY <2>1, <2>5 DEF MessagesSane
  <2>9. FoldersInStep'
    BY <2>1 DEF FoldersInStep, Forward
  <2>10. JunkIsHeld'
    BY <2>1 DEF JunkIsHeld
  <2>11. MarkTells'
    BY <2>1 DEF MarkTells
  <2>12. ServiceRuns'
    BY <1>2 DEF ServiceRuns
  <2>13. OnlyConfirmedStays'
    BY <1>2 DEF OnlyConfirmedStays
  <2>14. UndoneIsTrue'
    BY <2>1, <2>5 DEF UndoneIsTrue, RolledBackNews
  <2>15. OpeningIsFollowed'
    BY <2>1, <2>2 DEF OpeningIsFollowed
  <2>16. WatchAnswers'
    BY <2>1 DEF WatchAnswers, Forward
  <2>17. Grows
    BY <2>1 DEF Grows
  <2>18. SessionTells
    BY <2>1, <2>2 DEF SessionTells
  <2>19. BackIsUndone
    BY <2>1 DEF BackIsUndone
  <2>20. UndoneTravels
    BY <1>2 DEF UndoneTravels, OnTheWay, Rollback
  <2>21. EndStaysDue
    BY <1>2 DEF EndStaysDue, Pending
  <2> QED  BY <2>6, <2>7, <2>8, <2>9, <2>10, <2>11, <2>12, <2>13, <2>14, <2>15, <2>16, <2>17,
       <2>18, <2>19, <2>20, <2>21 DEF Carries
<1> QED  BY <1>1, <1>2 DEF BatSwapIn, To

(* The service starts what lies in app now.                                *)
LEMMA BatStartKeeps ==
  ASSUME PcIInv, BatStart PROVE PcIInv' /\ Carries
<1> USE Names, NothingRuns, Alive DEF PcIInv
<1>1. /\ bat.at = "start"
      /\ proc' \in ServiceStart(disk.app)
      /\ bat' = [bat EXCEPT !.at = "verify"]
      /\ UNCHANGED <<disk, link, up, hist>>
  BY DEF BatStart, To
<1>2. proc = NoProcess /\ ~link /\ up = <<>> /\ AllNews = {}
  BY <1>1, StoppedIs DEF Stopped
<1>3. disk.app \in OldOrNew \cup {Absent, Junk}
  BY DEF PcShapes, Disk
<1>4. /\ proc' \in Process
      /\ proc'.begun = FALSE /\ proc'.check = "idle" /\ proc'.upd = "none" /\ proc'.to = Absent
      /\ proc'.spawn = FALSE /\ proc'.watch = Absent /\ proc'.out = <<>>
      /\ proc'.ver = Absent => proc' = NoProcess /\ disk.app \notin Version \ Broken
      /\ proc'.ver # Absent => proc'.ver = disk.app
      /\ proc' = Started(proc'.ver)
  BY <1>1, <1>2, <1>3, Starts
<1>5. /\ bat'.at = "verify"
      /\ bat'.v = bat.v
      /\ bat' \in [at : Label, v : Update]
  BY <1>1 DEF PcShapes, Label
<1>6. AllNews' = AllNews
  BY <1>1, <1>2, <1>4 DEF AllNews
<1>7. PcShapes'
  BY <1>1, <1>4, <1>5 DEF PcShapes
<1>8. ProcessSane'
  BY <1>1, <1>2, <1>4 DEF ProcessSane, Updating
<1>9. MessagesSane'
  BY <1>1, <1>2, <1>6 DEF MessagesSane
<1>10. FoldersInStep'
  BY <1>1 DEF FoldersInStep, Stopped, Forward
<1>11. JunkIsHeld'
  BY <1>1 DEF JunkIsHeld
<1>12. MarkTells'
  BY <1>1 DEF MarkTells
<1>13. ServiceRuns'
  BY <1>1, <1>3, <1>4 DEF ServiceRuns, FoldersInStep
<1>14. OnlyConfirmedStays'
  BY <1>1 DEF OnlyConfirmedStays
<1>15. UndoneIsTrue'
  BY <1>1, <1>4, <1>6 DEF UndoneIsTrue, RolledBackNews
<1>16. OpeningIsFollowed'
  BY <1>1, <1>2 DEF OpeningIsFollowed
<1>17. WatchAnswers'
  BY <1>1, <1>4 DEF WatchAnswers, Forward
<1>18. Grows
  BY <1>1 DEF Grows
<1>19. SessionTells
  BY <1>1, <1>2 DEF SessionTells
<1>20. BackIsUndone
  BY <1>1 DEF BackIsUndone
<1>21. UndoneTravels
  BY <1>1, <1>2 DEF UndoneTravels, OnTheWay, InService, RolledBackNews, Rollback
<1>22. EndStaysDue
  BY <1>1 DEF EndStaysDue, Pending, MarkTells
<1> QED  BY <1>7, <1>8, <1>9, <1>10, <1>11, <1>12, <1>13, <1>14, <1>15, <1>16, <1>17, <1>18,
     <1>19, <1>20, <1>21, <1>22 DEF Carries

(* A version that left its mark stays; without it the way back begins.     *)
LEMMA BatVerifyKeeps ==
  ASSUME PcIInv, BatVerify PROVE PcIInv' /\ Carries
<1> USE Names, NothingRuns, Alive DEF PcIInv
<1>1. CASE disk.ok
  <2>1. /\ bat.at = "verify"
        /\ disk' = [disk EXCEPT !.ok = FALSE, !.ctx = NoContext]
        /\ bat' = NoBatch
        /\ UNCHANGED <<proc, link, up, hist>>
    BY <1>1 DEF BatVerify, VerifiedByMark
  <2>2. disk' \in Disk
    BY <2>1 DEF PcShapes, Disk
  <2>3. /\ bat'.at = "idle"
        /\ bat'.v = Absent
        /\ bat' \in [at : Label, v : Update]
    BY <2>1 DEF NoBatch, Label, Update
  <2>4. AllNews' = AllNews
    BY <2>1 DEF AllNews
  <2>5. PcShapes'
    BY <2>1, <2>2, <2>3 DEF PcShapes
  <2>6. ProcessSane'
    BY <2>1 DEF ProcessSane, Updating
  <2>7. MessagesSane'
    BY <2>1, <2>4 DEF MessagesSane
  <2>8. FoldersInStep'
    BY <2>3 DEF FoldersInStep, Stopped, Forward
  <2>9. JunkIsHeld'
    BY <2>1 DEF JunkIsHeld
  <2>10. MarkTells'
    BY <2>1 DEF MarkTells
  <2>11. ServiceRuns'
    BY <2>1 DEF ServiceRuns, Only
  <2>12. OnlyConfirmedStays'
    BY <1>1, <2>1 DEF OnlyConfirmedStays, FoldersInStep, MarkTells
  <2>13. UndoneIsTrue'
    BY <2>1, <2>3, <2>4 DEF UndoneIsTrue, RolledBackNews
  <2>14. OpeningIsFollowed'
    BY <2>1 DEF OpeningIsFollowed, Updating
  <2>15. WatchAnswers'
    BY <2>1, <2>3 DEF WatchAnswers, Forward
  <2>16. Grows
    BY <2>1 DEF Grows
  <2>17. SessionTells
    BY <2>1 DEF SessionTells, Greeting
  <2>18. BackIsUndone
    BY <2>1 DEF BackIsUndone
  <2>19. UndoneTravels
    BY <2>1, <2>3, <2>4 DEF UndoneTravels, OnTheWay, InService, RolledBackNews, Rollback
  <2>20. EndStaysDue
    BY <1>1, <2>1, <2>4 DEF EndStaysDue, Pending, Updating, FinalNews, MarkTells
  <2> QED  BY <2>5, <2>6, <2>7, <2>8, <2>9, <2>10, <2>11, <2>12, <2>13, <2>14, <2>15, <2>16,
       <2>17, <2>18, <2>19, <2>20 DEF Carries
<1>2. CASE ~disk.ok
  <2>1. /\ bat.at = "verify"
        /\ bat' = [bat EXCEPT !.at = "rstop"]
        /\ UNCHANGED <<disk, proc, link, up, hist>>
    BY <1>2 DEF BatVerify, VerifiedByMark, To
  <2>2. /\ bat'.at = "rstop"
        /\ bat'.v = bat.v
        /\ bat' \in [at : Label, v : Update]
    BY <2>1 DEF PcShapes, Label
  <2>3. AllNews' = AllNews
    BY <2>1 DEF AllNews
  <2>4. PcShapes'
    BY <2>1, <2>2 DEF PcShapes
  <2>5. ProcessSane'
    BY <2>1 DEF ProcessSane, Updating
  <2>6. MessagesSane'
    BY <2>1, <2>3 DEF MessagesSane
  <2>7. FoldersInStep'
    BY <2>1 DEF FoldersInStep, Stopped, Forward
  <2>8. JunkIsHeld'
    BY <2>1 DEF JunkIsHeld
  <2>9. MarkTells'
    BY <1>2, <2>1 DEF MarkTells
  <2>10. ServiceRuns'
    BY <2>1 DEF ServiceRuns
  <2>11. OnlyConfirmedStays'
    BY <2>1 DEF OnlyConfirmedStays
  <2>12. UndoneIsTrue'
    BY <2>1, <2>3 DEF UndoneIsTrue, RolledBackNews
  <2>13. OpeningIsFollowed'
    BY <2>1 DEF OpeningIsFollowed, Updating
  <2>14. WatchAnswers'
    BY <2>1 DEF WatchAnswers, Forward
  <2>15. Grows
    BY <2>1 DEF Grows
  <2>16. SessionTells
    BY <2>1 DEF SessionTells, Greeting
  <2>17. BackIsUndone
    BY <2>1 DEF BackIsUndone
  <2>18. UndoneTravels
    BY <2>1 DEF UndoneTravels, OnTheWay, Rollback
  <2>19. EndStaysDue
    BY <2>1 DEF EndStaysDue, Pending
  <2> QED  BY <2>4, <2>5, <2>6, <2>7, <2>8, <2>9, <2>10, <2>11, <2>12, <2>13, <2>14, <2>15,
       <2>16, <2>17, <2>18, <2>19 DEF Carries
<1> QED  BY <1>1, <1>2

(* The folder for the failed version is cleared, or not quite.             *)
LEMMA BatRollbackCleanKeeps ==
  ASSUME PcIInv, BatRollbackClean PROVE PcIInv' /\ Carries
<1> USE Names, NothingRuns, Alive DEF PcIInv
<1>1. /\ bat.at = "rclean"
      /\ bat' = [bat EXCEPT !.at = "rout"]
      /\ UNCHANGED <<proc, link, up>>
  BY DEF BatRollbackClean, To
<1>2. PICK b \in {Absent, Junk} : disk' = [disk EXCEPT !.ok = FALSE, !.ctx = NoContext, !.bad = b] /\ hist' = IF b = Junk THEN After("held") ELSE hist
  BY DEF BatRollbackClean, Removed, To
<1>3. /\ disk' \in Disk
      /\ disk'.app = disk.app /\ disk'.new = disk.new /\ disk'.zip = disk.zip /\ disk'.ctx = NoContext
      /\ disk'.ok = FALSE /\ disk'.fail = disk.fail /\ disk'.rb = disk.rb
      /\ disk'.old = disk.old /\ disk'.bad \in {Absent, Junk}
  BY <1>2 DEF PcShapes, Disk
<1>4. /\ hist' \in History
      /\ hist'.count = hist.count /\ hist'.good = hist.good /\ hist'.undone = hist.undone /\ hist'.lost = hist.lost
      /\ hist'.mishaps = hist.mishaps \/ hist'.mishaps = hist.mishaps \cup {"held"}
      /\ disk'.bad = Junk => "held" \in hist'.mishaps
  BY <1>2 DEF PcShapes, History, After
<1>5. /\ bat'.at = "rout"
      /\ bat'.v = bat.v
      /\ bat' \in [at : Label, v : Update]
  BY <1>1 DEF PcShapes, Label
<1>6. AllNews' = AllNews
  BY <1>1 DEF AllNews
<1>7. PcShapes'
  BY <1>1, <1>3, <1>4, <1>5 DEF PcShapes
<1>8. ProcessSane'
  BY <1>1, <1>2 DEF ProcessSane, Updating
<1>9. MessagesSane'
  BY <1>1, <1>6 DEF MessagesSane
<1>10. FoldersInStep'
  BY <1>1, <1>2 DEF FoldersInStep, Stopped, Forward
<1>11. JunkIsHeld'
  BY <1>1, <1>2, <1>4 DEF JunkIsHeld
<1>12. MarkTells'
  BY <1>2, <1>4 DEF MarkTells
<1>13. ServiceRuns'
  BY <1>1 DEF ServiceRuns
<1>14. OnlyConfirmedStays'
  BY <1>1 DEF OnlyConfirmedStays
<1>15. UndoneIsTrue'
  BY <1>1, <1>2, <1>4, <1>6 DEF UndoneIsTrue, RolledBackNews
<1>16. OpeningIsFollowed'
  BY <1>1 DEF OpeningIsFollowed, Updating
<1>17. WatchAnswers'
  BY <1>1, <1>4 DEF WatchAnswers, Forward
<1>18. Grows
  BY <1>4 DEF Grows
<1>19. SessionTells
  BY <1>1 DEF SessionTells, Greeting
<1>20. BackIsUndone
  BY <1>2 DEF BackIsUndone
<1>21. UndoneTravels
  BY <1>1 DEF UndoneTravels, OnTheWay, Rollback
<1>22. EndStaysDue
  BY <1>1 DEF EndStaysDue, Pending
<1> QED  BY <1>7, <1>8, <1>9, <1>10, <1>11, <1>12, <1>13, <1>14, <1>15, <1>16, <1>17, <1>18,
     <1>19, <1>20, <1>21, <1>22 DEF Carries

(* The failed version leaves app, or is held there for good.               *)
LEMMA BatRollbackOutKeeps ==
  ASSUME PcIInv, BatRollbackOut PROVE PcIInv' /\ Carries
<1> USE Names, NothingRuns, Alive DEF PcIInv
<1>1. CASE bat'.at = "rin"
  <2>1. /\ bat.at = "rout"
        /\ disk' = [disk EXCEPT !.bad = IF disk.app = Absent THEN disk.bad ELSE Moved(disk.app, disk.bad), !.app = Absent]
        /\ bat' = [bat EXCEPT !.at = "rin"]
        /\ UNCHANGED <<proc, link, up, hist>>
    BY <1>1 DEF BatRollbackOut, To, NoBatch
  <2>2. proc = NoProcess /\ ~link /\ up = <<>> /\ AllNews = {}
    BY <2>1, StoppedIs DEF Stopped
  <2>3. (IF disk.app = Absent THEN disk.bad ELSE Moved(disk.app, disk.bad)) \in {Absent, Target, Junk}
    BY <2>1 DEF FoldersInStep, Moved
  <2>4. (IF disk.app = Absent THEN disk.bad ELSE Moved(disk.app, disk.bad)) = Junk => disk.bad = Junk
    BY <2>1 DEF FoldersInStep, Moved
  <2>5. disk' \in Disk
    BY <2>1, <2>3 DEF PcShapes, Disk, Update
  <2>6. /\ bat'.at = "rin"
        /\ bat'.v = bat.v
        /\ bat' \in [at : Label, v : Update]
    BY <2>1 DEF PcShapes, Label
  <2>7. AllNews' = AllNews
    BY <2>1 DEF AllNews
  <2>8. PcShapes'
    BY <2>1, <2>5, <2>6 DEF PcShapes
  <2>9. ProcessSane'
    BY <2>1, <2>2 DEF ProcessSane, Updating
  <2>10. MessagesSane'
    BY <2>1, <2>7 DEF MessagesSane
  <2>11. FoldersInStep'
    BY <2>1, <2>2, <2>3 DEF FoldersInStep, Forward
  <2>12. JunkIsHeld'
    BY <2>1, <2>4 DEF JunkIsHeld
  <2>13. MarkTells'
    BY <2>1 DEF MarkTells, Forward
  <2>14. ServiceRuns'
    BY <1>1 DEF ServiceRuns
  <2>15. OnlyConfirmedStays'
    BY <1>1 DEF OnlyConfirmedStays
  <2>16. UndoneIsTrue'
    BY <2>1, <2>7 DEF UndoneIsTrue, RolledBackNews
  <2>17. OpeningIsFollowed'
    BY <2>1, <2>2 DEF OpeningIsFollowed
  <2>18. WatchAnswers'
    BY <2>1 DEF WatchAnswers, Forward
  <2>19. Grows
    BY <2>1 DEF Grows
  <2>20. SessionTells
    BY <2>1, <2>2 DEF SessionTells
  <2>21. BackIsUndone
    BY <2>1 DEF BackIsUndone
  <2>22. UndoneTravels
    BY <1>1 DEF UndoneTravels, OnTheWay, Rollback
  <2>23. EndStaysDue
    BY <1>1 DEF EndStaysDue, Pending
  <2> QED  BY <2>8, <2>9, <2>10, <2>11, <2>12, <2>13, <2>14, <2>15, <2>16, <2>17, <2>18, <2>19,
       <2>20, <2>21, <2>22, <2>23 DEF Carries
<1>2. CASE bat' = NoBatch
  <2>1. /\ bat.at = "rout"
        /\ disk.app # Absent
        /\ disk' = [disk EXCEPT !.rb = bat.v]
        /\ proc' \in ServiceStart(disk.app)
        /\ hist' = [hist EXCEPT !.mishaps = hist.mishaps \cup {"stuck"}, !.undone = hist.undone \cup {bat.v}]
        /\ bat' = NoBatch
        /\ UNCHANGED <<link, up>>
    BY <1>2 DEF BatRollbackOut, To, NoBatch, After
  <2>2. proc = NoProcess /\ ~link /\ up = <<>> /\ AllNews = {}
    BY <2>1, StoppedIs DEF Stopped
  <2>3. disk.app \in OldOrNew \cup {Absent, Junk}
    BY DEF PcShapes, Disk
  <2>4. bat.v = Target
    BY <2>1 DEF FoldersInStep
  <2>5. disk' \in Disk
    BY <2>1 DEF PcShapes, Disk
  <2>6. /\ proc' \in Process
        /\ proc'.begun = FALSE /\ proc'.check = "idle" /\ proc'.upd = "none" /\ proc'.to = Absent
        /\ proc'.spawn = FALSE /\ proc'.watch = Absent /\ proc'.out = <<>>
        /\ proc'.ver = Absent => proc' = NoProcess /\ disk.app \notin Version \ Broken
        /\ proc'.ver # Absent => proc'.ver = disk.app
        /\ proc' = Started(proc'.ver)
    BY <1>2, <2>1, <2>2, <2>3, Starts
  <2>7. hist' \in History
    BY <2>1, <2>4 DEF PcShapes, History
  <2>8. /\ hist'.count = hist.count /\ hist'.mishaps = hist.mishaps \cup {"stuck"}
        /\ hist'.good = hist.good /\ hist'.undone = hist.undone \cup {bat.v} /\ hist'.lost = hist.lost
    BY <2>1
  <2>9. /\ bat'.at = "idle"
         /\ bat'.v = Absent
         /\ bat' \in [at : Label, v : Update]
    BY <1>2 DEF NoBatch, Label, Update
  <2>10. "stuck" \in hist'.mishaps
    BY <2>8
  <2>11. AllNews' = AllNews
    BY <2>1, <2>2, <2>6 DEF AllNews
  <2>12. PcShapes'
    BY <2>1, <2>5, <2>7, <2>6, <2>9 DEF PcShapes
  <2>13. ProcessSane'
    BY <2>1, <2>2, <2>6 DEF ProcessSane, Updating
  <2>14. MessagesSane'
    BY <2>1, <2>2, <2>11 DEF MessagesSane
  <2>15. FoldersInStep'
    BY <2>9 DEF FoldersInStep, Stopped, Forward
  <2>16. JunkIsHeld'
    BY <2>1 DEF JunkIsHeld
  <2>17. MarkTells'
    BY <2>1, <2>6, <2>9 DEF MarkTells, Forward
  <2>18. ServiceRuns'
    BY <2>1, <2>3, <2>6 DEF ServiceRuns, JunkIsHeld, Only, OldOrNew
  <2>19. OnlyConfirmedStays'
    BY <2>10 DEF OnlyConfirmedStays, FoldersInStep, MarkTells, Only
  <2>20. UndoneIsTrue'
    BY <2>1, <2>4, <2>6 DEF UndoneIsTrue
  <2>21. OpeningIsFollowed'
    BY <2>1, <2>2 DEF OpeningIsFollowed
  <2>22. WatchAnswers'
    BY <2>1, <2>6, <2>9 DEF WatchAnswers, FoldersInStep, Forward
  <2>23. Grows
    BY <2>1 DEF Grows
  <2>24. SessionTells
    BY <2>1, <2>2 DEF SessionTells
  <2>25. BackIsUndone
    BY <2>1 DEF BackIsUndone
  <2>26. UndoneTravels
    BY <2>1, <2>4 DEF UndoneTravels, OnTheWay
  <2>27. EndStaysDue
    BY <2>1, <2>4, <2>6 DEF EndStaysDue, Pending
  <2> QED  BY <2>12, <2>13, <2>14, <2>15, <2>16, <2>17, <2>18, <2>19, <2>20, <2>21, <2>22, <2>23,
       <2>24, <2>25, <2>26, <2>27 DEF Carries
<1> QED  BY <1>1, <1>2 DEF BatRollbackOut, To, PcShapes

(* old becomes app again; the version goes into the history as taken back. *)
LEMMA BatRollbackInKeeps ==
  ASSUME PcIInv, BatRollbackIn PROVE PcIInv' /\ Carries
<1> USE Names, NothingRuns, Alive DEF PcIInv
<1>1. CASE disk.old = FirstVersion
  <2>1. /\ bat.at = "rin"
        /\ disk' = [disk EXCEPT !.app = FirstVersion, !.old = Absent]
        /\ hist' = [hist EXCEPT !.undone = hist.undone \cup {bat.v}]
        /\ bat' = [bat EXCEPT !.at = "rstart"]
        /\ UNCHANGED <<proc, link, up>>
    BY <1>1 DEF BatRollbackIn, To, Moved, FoldersInStep
  <2>2. proc = NoProcess /\ ~link /\ up = <<>> /\ AllNews = {}
    BY <2>1, StoppedIs DEF Stopped
  <2>3. bat.v = Target
    BY <2>1 DEF FoldersInStep
  <2>4. disk' \in Disk
    BY <2>1 DEF PcShapes, Disk, Update, OldOrNew, NoContext
  <2>5. hist' \in History
    BY <2>1, <2>3 DEF PcShapes, History
  <2>6. /\ bat'.at = "rstart"
        /\ bat'.v = bat.v
        /\ bat' \in [at : Label, v : Update]
    BY <2>1 DEF PcShapes, Label
  <2>7. AllNews' = AllNews
    BY <2>1 DEF AllNews
  <2>8. PcShapes'
    BY <2>1, <2>4, <2>5, <2>6 DEF PcShapes
  <2>9. ProcessSane'
    BY <2>1, <2>2 DEF ProcessSane, Updating
  <2>10. MessagesSane'
    BY <2>1, <2>7 DEF MessagesSane
  <2>11. FoldersInStep'
    BY <2>1 DEF FoldersInStep
  <2>12. JunkIsHeld'
    BY <2>1 DEF JunkIsHeld
  <2>13. MarkTells'
    BY <2>1 DEF MarkTells, Forward
  <2>14. ServiceRuns'
    BY <2>1 DEF ServiceRuns
  <2>15. OnlyConfirmedStays'
    BY <2>1 DEF OnlyConfirmedStays
  <2>16. UndoneIsTrue'
    BY <2>1, <2>3 DEF UndoneIsTrue
  <2>17. OpeningIsFollowed'
    BY <2>1, <2>2 DEF OpeningIsFollowed
  <2>18. WatchAnswers'
    BY <2>1 DEF WatchAnswers, Forward
  <2>19. Grows
    BY <2>1 DEF Grows
  <2>20. SessionTells
    BY <2>1, <2>2 DEF SessionTells
  <2>21. BackIsUndone
    BY <2>1, <2>3 DEF BackIsUndone
  <2>22. UndoneTravels
    BY <2>1 DEF UndoneTravels, OnTheWay, Rollback
  <2>23. EndStaysDue
    BY <2>1 DEF EndStaysDue, Pending
  <2> QED  BY <2>8, <2>9, <2>10, <2>11, <2>12, <2>13, <2>14, <2>15, <2>16, <2>17, <2>18, <2>19,
       <2>20, <2>21, <2>22, <2>23 DEF Carries
<1>2. CASE disk.old = Junk
  <2>1. /\ bat.at = "rin"
        /\ "held" \in hist.mishaps
        /\ disk' = [disk EXCEPT !.app = Junk, !.old = Absent, !.bad = Absent]
        /\ hist' = [hist EXCEPT !.undone = hist.undone \cup {bat.v}]
        /\ bat' = [bat EXCEPT !.at = "rstart"]
        /\ UNCHANGED <<proc, link, up>>
    BY <1>2 DEF BatRollbackIn, To, Moved, FoldersInStep, JunkIsHeld
  <2>2. proc = NoProcess /\ ~link /\ up = <<>> /\ AllNews = {}
    BY <2>1, StoppedIs DEF Stopped
  <2>3. bat.v = Target
    BY <2>1 DEF FoldersInStep
  <2>4. disk' \in Disk
    BY <2>1 DEF PcShapes, Disk, Update, OldOrNew, NoContext, ToTarget
  <2>5. hist' \in History
    BY <2>1, <2>3 DEF PcShapes, History
  <2>6. /\ bat'.at = "rstart"
        /\ bat'.v = bat.v
        /\ bat' \in [at : Label, v : Update]
    BY <2>1 DEF PcShapes, Label
  <2>7. AllNews' = AllNews
    BY <2>1 DEF AllNews
  <2>8. PcShapes'
    BY <2>1, <2>4, <2>5, <2>6 DEF PcShapes
  <2>9. ProcessSane'
    BY <2>1, <2>2 DEF ProcessSane, Updating
  <2>10. MessagesSane'
    BY <2>1, <2>7 DEF MessagesSane
  <2>11. FoldersInStep'
    BY <2>1 DEF FoldersInStep, Forward
  <2>12. JunkIsHeld'
    BY <2>1 DEF JunkIsHeld
  <2>13. MarkTells'
    BY <2>1 DEF MarkTells, Forward
  <2>14. ServiceRuns'
    BY <2>1 DEF ServiceRuns
  <2>15. OnlyConfirmedStays'
    BY <2>1 DEF OnlyConfirmedStays
  <2>16. UndoneIsTrue'
    BY <2>1, <2>3 DEF UndoneIsTrue
  <2>17. OpeningIsFollowed'
    BY <2>1, <2>2 DEF OpeningIsFollowed
  <2>18. WatchAnswers'
    BY <2>1 DEF WatchAnswers, Forward
  <2>19. Grows
    BY <2>1 DEF Grows
  <2>20. SessionTells
    BY <2>1, <2>2 DEF SessionTells
  <2>21. BackIsUndone
    BY <2>1 DEF BackIsUndone
  <2>22. UndoneTravels
    BY <2>1 DEF UndoneTravels, OnTheWay, Rollback
  <2>23. EndStaysDue
    BY <2>1 DEF EndStaysDue, Pending
  <2> QED  BY <2>8, <2>9, <2>10, <2>11, <2>12, <2>13, <2>14, <2>15, <2>16, <2>17, <2>18, <2>19,
       <2>20, <2>21, <2>22, <2>23 DEF Carries
<1> QED  BY <1>1, <1>2 DEF BatRollbackIn, FoldersInStep

(* The service starts after the way back.                                  *)
LEMMA BatRollbackStartKeeps ==
  ASSUME PcIInv, BatRollbackStart PROVE PcIInv' /\ Carries
<1> USE Names, NothingRuns, Alive DEF PcIInv
<1>1. /\ bat.at = "rstart"
      /\ disk' = [disk EXCEPT !.rb = bat.v]
      /\ proc' \in ServiceStart(disk.app)
      /\ bat' = NoBatch
      /\ UNCHANGED <<link, up, hist>>
  BY DEF BatRollbackStart
<1>2. proc = NoProcess /\ ~link /\ up = <<>> /\ AllNews = {}
  BY <1>1, StoppedIs DEF Stopped
<1>3. disk.app \in OldOrNew \cup {Absent, Junk}
  BY DEF PcShapes, Disk
<1>4. bat.v = Target
  BY <1>1 DEF FoldersInStep
<1>5. disk' \in Disk
  BY <1>1 DEF PcShapes, Disk
<1>6. /\ proc' \in Process
      /\ proc'.begun = FALSE /\ proc'.check = "idle" /\ proc'.upd = "none" /\ proc'.to = Absent
      /\ proc'.spawn = FALSE /\ proc'.watch = Absent /\ proc'.out = <<>>
      /\ proc'.ver = Absent => proc' = NoProcess /\ disk.app \notin Version \ Broken
      /\ proc'.ver # Absent => proc'.ver = disk.app
      /\ proc' = Started(proc'.ver)
  BY <1>1, <1>2, <1>3, <1>4, Starts
<1>7. /\ bat'.at = "idle"
      /\ bat'.v = Absent
      /\ bat' \in [at : Label, v : Update]
  BY <1>1 DEF NoBatch, Label, Update
<1>8. AllNews' = AllNews
  BY <1>1, <1>2, <1>6 DEF AllNews
<1>9. PcShapes'
  BY <1>1, <1>5, <1>6, <1>7 DEF PcShapes
<1>10. ProcessSane'
  BY <1>1, <1>2, <1>6 DEF ProcessSane, Updating
<1>11. MessagesSane'
  BY <1>1, <1>2, <1>8 DEF MessagesSane
<1>12. FoldersInStep'
  BY <1>7 DEF FoldersInStep, Stopped, Forward
<1>13. JunkIsHeld'
  BY <1>1 DEF JunkIsHeld
<1>14. MarkTells'
  BY <1>1, <1>6, <1>7 DEF MarkTells, Forward
<1>15. ServiceRuns'
  BY <1>1, <1>3, <1>6 DEF ServiceRuns, FoldersInStep, JunkIsHeld, Only
<1>16. OnlyConfirmedStays'
  BY <1>1 DEF OnlyConfirmedStays, FoldersInStep, JunkIsHeld, MarkTells, Only
<1>17. UndoneIsTrue'
  BY <1>1, <1>6 DEF UndoneIsTrue
<1>18. OpeningIsFollowed'
  BY <1>1, <1>2 DEF OpeningIsFollowed
<1>19. WatchAnswers'
  BY <1>1, <1>6, <1>7 DEF WatchAnswers, FoldersInStep, Forward
<1>20. Grows
  BY <1>1 DEF Grows
<1>21. SessionTells
  BY <1>1, <1>2 DEF SessionTells
<1>22. BackIsUndone
  BY <1>1 DEF BackIsUndone
<1>23. UndoneTravels
  BY <1>1, <1>4 DEF UndoneTravels, OnTheWay
<1>24. EndStaysDue
  BY <1>1, <1>4, <1>6 DEF EndStaysDue, Pending
<1> QED  BY <1>9, <1>10, <1>11, <1>12, <1>13, <1>14, <1>15, <1>16, <1>17, <1>18, <1>19, <1>20,
     <1>21, <1>22, <1>23, <1>24 DEF Carries

(* A session opens with the hello of the version that runs.                *)
LEMMA ConnectKeeps ==
  ASSUME PcIInv, Connect PROVE PcIInv' /\ Carries
<1> USE Names, NothingRuns, Alive DEF PcIInv
<1>1. /\ proc.ver # Absent /\ proc.begun /\ ~link
      /\ up' = <<HelloOf(proc.ver)>>
      /\ link' = TRUE
      /\ UNCHANGED <<disk, proc, bat, hist>>
  BY DEF Connect
<1>2. HelloOf(proc.ver) \in Message
  BY <1>1, MessageIs DEF PcShapes, Process
<1>3. /\ up' \in Seq(Message) /\ up' # <<>>
      /\ \A i \in DOMAIN up' : i = 1 /\ up'[i] = HelloOf(proc.ver)
      /\ 1 \in DOMAIN up'
  BY <1>1, <1>2
<1>4. /\ Entries(up') = {HelloOf(proc.ver)} /\ Entries(proc'.out) = Entries(proc.out)
      /\ AllNews = Entries(proc.out)
  BY <1>1, EntriesOne, EntriesNone DEF AllNews, ProcessSane
<1>5. AllNews' = Entries(proc'.out) \cup Entries(up')
  BY DEF AllNews
<1>6. PcShapes'
  BY <1>1, <1>3 DEF PcShapes
<1>7. ProcessSane'
  BY <1>1 DEF ProcessSane, Updating
<1>8. MessagesSane'
  BY <1>1, <1>4, <1>5, MessageIs DEF MessagesSane
<1>9. FoldersInStep'
  BY <1>1 DEF FoldersInStep
<1>10. JunkIsHeld'
  BY <1>1 DEF JunkIsHeld
<1>11. MarkTells'
  BY <1>1 DEF MarkTells
<1>12. ServiceRuns'
  BY <1>1 DEF ServiceRuns, Only
<1>13. OnlyConfirmedStays'
  BY <1>1 DEF OnlyConfirmedStays, Only
<1>14. UndoneIsTrue'
  BY <1>1, <1>4, <1>5, MessageIs DEF UndoneIsTrue, RolledBackNews
<1>15. OpeningIsFollowed'
  BY <1>1, MessageIs DEF OpeningIsFollowed
<1>16. WatchAnswers'
  BY <1>1 DEF WatchAnswers
<1>17. Grows
  BY <1>1 DEF Grows
<1>18. SessionTells
  BY <1>1, MessageIs DEF SessionTells, Greeting
<1>19. BackIsUndone
  BY <1>1 DEF BackIsUndone
<1>20. UndoneTravels
  BY <1>1, <1>4, <1>5 DEF UndoneTravels, OnTheWay, InService, RolledBackNews
<1>21. EndStaysDue
  BY <1>1, <1>4, <1>5 DEF EndStaysDue, Pending, Updating, FinalNews
<1> QED  BY <1>6, <1>7, <1>8, <1>9, <1>10, <1>11, <1>12, <1>13, <1>14, <1>15, <1>16, <1>17,
     <1>18, <1>19, <1>20, <1>21 DEF Carries

(* A command is refused while the self-check of the last update failed or  *)
(* does not end.                                                           *)
LEMMA HoldRefusesKeeps ==
  ASSUME PcIInv, HoldRefuses PROVE PcIInv' /\ Carries
<1> USE Names, NothingRuns, Alive DEF PcIInv
<1>1. /\ proc.upd = "hold" /\ link
      /\ proc' = [proc EXCEPT !.upd = "none", !.to = Absent]
      /\ up' = Append(up, Report(Target, "failed"))
      /\ UNCHANGED <<disk, bat, link, hist>>
  BY DEF HoldRefuses, Idle, Answer, ProcessSane
<1>2. proc.to = Target /\ proc.begun /\ proc.ver = FirstVersion /\ Upgrade
  BY <1>1 DEF ProcessSane, Updating
<1>3. proc' \in Process
  BY <1>1 DEF PcShapes, Process, Update
<1>4. /\ up' \in Seq(Message) /\ up' # <<>>
      /\ \A i \in DOMAIN up' : (i \in DOMAIN up /\ up'[i] = up[i]) \/ i = Len(up) + 1
      /\ \A i \in DOMAIN up : i \in DOMAIN up' /\ up'[i] = up[i] /\ Len(up) + 1 > i
      /\ Len(up) + 1 \in DOMAIN up'
      /\ up'[Len(up) + 1] = Report(Target, "failed")
      /\ AllNews' = AllNews \cup {Report(Target, "failed")}
  BY <1>1, Queued, Answered, MessageIs DEF Outcome
<1>5. PcShapes'
  BY <1>1, <1>3, <1>4 DEF PcShapes
<1>6. ProcessSane'
  BY <1>1, <1>2 DEF ProcessSane
<1>7. MessagesSane'
  BY <1>1, <1>4, MessageIs DEF MessagesSane
<1>8. FoldersInStep'
  BY <1>1 DEF FoldersInStep
<1>9. JunkIsHeld'
  BY <1>1 DEF JunkIsHeld
<1>10. MarkTells'
  BY <1>1 DEF MarkTells
<1>11. ServiceRuns'
  BY <1>1, <1>2 DEF ServiceRuns, OldOrNew
<1>12. OnlyConfirmedStays'
  BY <1>1 DEF OnlyConfirmedStays, Only
<1>13. UndoneIsTrue'
  BY <1>1, <1>4, MessageIs DEF UndoneIsTrue, RolledBackNews
<1>14. OpeningIsFollowed'
  BY <1>1, MessageIs DEF OpeningIsFollowed, IsFinal
<1>15. WatchAnswers'
  BY <1>1 DEF WatchAnswers
<1>16. Grows
  BY <1>1 DEF Grows
<1>17. SessionTells
  BY <1>1 DEF SessionTells, Greeting
<1>18. BackIsUndone
  BY <1>1 DEF BackIsUndone
<1>19. UndoneTravels
  BY <1>1, <1>4 DEF UndoneTravels, OnTheWay, InService, RolledBackNews
<1>20. EndStaysDue
  BY <1>4, MessageIs DEF EndStaysDue, Pending, FinalNews, IsFinal
<1> QED  BY <1>5, <1>6, <1>7, <1>8, <1>9, <1>10, <1>11, <1>12, <1>13, <1>14, <1>15, <1>16, <1>17,
     <1>18, <1>19, <1>20 DEF Carries

(* The self-check was passed: the handler begins.                          *)
LEMMA HoldEndsKeeps ==
  ASSUME PcIInv, HoldEnds PROVE PcIInv' /\ Carries
<1> USE Names, NothingRuns, Alive DEF PcIInv
<1>1. /\ proc.upd = "hold"
      /\ proc' = [proc EXCEPT !.upd = "prepare"]
      /\ hist' = IF proc.spawn \/ bat.at # "idle" THEN After("double") ELSE hist
      /\ UNCHANGED <<disk, bat, link, up>>
  BY DEF HoldEnds
<1>2. proc.to = Target /\ proc.begun /\ proc.ver = FirstVersion /\ Upgrade
  BY <1>1 DEF ProcessSane, Updating
<1>3. proc' \in Process
  BY <1>1 DEF PcShapes, Process
<1>4. /\ hist' \in History
      /\ hist'.good = hist.good /\ hist'.undone = hist.undone /\ hist'.lost = hist.lost
      /\ hist'.mishaps = hist.mishaps \/ hist'.mishaps = hist.mishaps \cup {"double"}
      /\ proc.spawn \/ bat.at # "idle" => "double" \in hist'.mishaps
  BY <1>1 DEF PcShapes, History, After
<1>5. AllNews' = AllNews
  BY <1>1 DEF AllNews
<1>6. PcShapes'
  BY <1>1, <1>3, <1>4 DEF PcShapes
<1>7. ProcessSane'
  BY <1>1, <1>2 DEF ProcessSane
<1>8. MessagesSane'
  BY <1>1, <1>5 DEF MessagesSane
<1>9. FoldersInStep'
  BY <1>1 DEF FoldersInStep
<1>10. JunkIsHeld'
  BY <1>1, <1>4 DEF JunkIsHeld
<1>11. MarkTells'
  BY <1>1, <1>4 DEF MarkTells
<1>12. ServiceRuns'
  BY <1>1, <1>2 DEF ServiceRuns, OldOrNew
<1>13. OnlyConfirmedStays'
  BY <1>1, <1>4 DEF OnlyConfirmedStays, Only
<1>14. UndoneIsTrue'
  BY <1>1, <1>4, <1>5 DEF UndoneIsTrue, RolledBackNews
<1>15. OpeningIsFollowed'
  BY <1>1 DEF OpeningIsFollowed, Updating
<1>16. WatchAnswers'
  BY <1>1, <1>4 DEF WatchAnswers
<1>17. Grows
  BY <1>4 DEF Grows
<1>18. SessionTells
  BY <1>1 DEF SessionTells, Greeting
<1>19. BackIsUndone
  BY <1>1 DEF BackIsUndone
<1>20. UndoneTravels
  BY <1>1, <1>4, <1>5 DEF UndoneTravels, OnTheWay, InService, RolledBackNews
<1>21. EndStaysDue
  BY <1>1 DEF EndStaysDue, Pending, Updating
<1> QED  BY <1>6, <1>7, <1>8, <1>9, <1>10, <1>11, <1>12, <1>13, <1>14, <1>15, <1>16, <1>17,
     <1>18, <1>19, <1>20, <1>21 DEF Carries

(* The archive of the release is unpacked, or left for the batch.          *)
LEMMA PrepareKeeps ==
  ASSUME PcIInv, Prepare PROVE PcIInv' /\ Carries
<1> USE Names, NothingRuns, Alive DEF PcIInv
<1>1. CASE proc'.staged = FALSE /\ disk'.new = proc.to
  <2>1. /\ proc.upd = "prepare"
        /\ disk' = [disk EXCEPT !.new = Target]
        /\ proc' = [proc EXCEPT !.upd = "ready", !.staged = FALSE]
        /\ UNCHANGED <<bat, link, up, hist>>
    BY <1>1 DEF Prepare, PcShapes, Process, ProcessSane, Disk
  <2>2. proc.to = Target /\ proc.begun /\ proc.ver = FirstVersion /\ Upgrade
    BY <2>1 DEF ProcessSane, Updating
  <2>3. disk' \in Disk
    BY <2>1 DEF PcShapes, Disk, Update
  <2>4. proc' \in Process
    BY <2>1 DEF PcShapes, Process, Update, OldOrNew
  <2>5. AllNews' = AllNews
    BY <2>1 DEF AllNews
  <2>6. PcShapes'
    BY <2>1, <2>3, <2>4 DEF PcShapes
  <2>7. ProcessSane'
    BY <2>1, <2>2 DEF ProcessSane
  <2>8. MessagesSane'
    BY <2>1, <2>5 DEF MessagesSane
  <2>9. FoldersInStep'
    BY <2>1 DEF FoldersInStep
  <2>10. JunkIsHeld'
    BY <2>1 DEF JunkIsHeld
  <2>11. MarkTells'
    BY <2>1 DEF MarkTells
  <2>12. ServiceRuns'
    BY <2>1, <2>2 DEF ServiceRuns, OldOrNew
  <2>13. OnlyConfirmedStays'
    BY <2>1 DEF OnlyConfirmedStays, Only
  <2>14. UndoneIsTrue'
    BY <2>1, <2>5 DEF UndoneIsTrue, RolledBackNews
  <2>15. OpeningIsFollowed'
    BY <2>1 DEF OpeningIsFollowed, Updating
  <2>16. WatchAnswers'
    BY <2>1 DEF WatchAnswers
  <2>17. Grows
    BY <2>1 DEF Grows
  <2>18. SessionTells
    BY <2>1 DEF SessionTells, Greeting
  <2>19. BackIsUndone
    BY <2>1 DEF BackIsUndone
  <2>20. UndoneTravels
    BY <2>1, <2>5 DEF UndoneTravels, OnTheWay, InService, RolledBackNews
  <2>21. EndStaysDue
    BY <2>1 DEF EndStaysDue, Pending, Updating
  <2> QED  BY <2>6, <2>7, <2>8, <2>9, <2>10, <2>11, <2>12, <2>13, <2>14, <2>15, <2>16, <2>17,
       <2>18, <2>19, <2>20, <2>21 DEF Carries
<1>2. CASE proc'.staged = TRUE
  <2>1. /\ proc.upd = "prepare"
        /\ disk' = [disk EXCEPT !.new = Absent, !.zip = Target]
        /\ proc' = [proc EXCEPT !.upd = "ready", !.staged = TRUE]
        /\ UNCHANGED <<bat, link, up, hist>>
    BY <1>2 DEF Prepare, PcShapes, Process, ProcessSane, Disk
  <2>2. proc.to = Target /\ proc.begun /\ proc.ver = FirstVersion /\ Upgrade
    BY <2>1 DEF ProcessSane, Updating
  <2>3. disk' \in Disk
    BY <2>1 DEF PcShapes, Disk, Update, OldOrNew, NoContext, ToTarget
  <2>4. proc' \in Process
    BY <2>1 DEF PcShapes, Process, Update, OldOrNew
  <2>5. AllNews' = AllNews
    BY <2>1 DEF AllNews
  <2>6. PcShapes'
    BY <2>1, <2>3, <2>4 DEF PcShapes
  <2>7. ProcessSane'
    BY <2>1, <2>2 DEF ProcessSane
  <2>8. MessagesSane'
    BY <2>1, <2>5 DEF MessagesSane
  <2>9. FoldersInStep'
    BY <2>1 DEF FoldersInStep
  <2>10. JunkIsHeld'
    BY <2>1 DEF JunkIsHeld
  <2>11. MarkTells'
    BY <2>1 DEF MarkTells
  <2>12. ServiceRuns'
    BY <2>1, <2>2 DEF ServiceRuns, OldOrNew
  <2>13. OnlyConfirmedStays'
    BY <2>1 DEF OnlyConfirmedStays, Only
  <2>14. UndoneIsTrue'
    BY <2>1, <2>5 DEF UndoneIsTrue, RolledBackNews
  <2>15. OpeningIsFollowed'
    BY <2>1 DEF OpeningIsFollowed, Updating
  <2>16. WatchAnswers'
    BY <2>1 DEF WatchAnswers
  <2>17. Grows
    BY <2>1 DEF Grows
  <2>18. SessionTells
    BY <2>1 DEF SessionTells, Greeting
  <2>19. BackIsUndone
    BY <2>1 DEF BackIsUndone
  <2>20. UndoneTravels
    BY <2>1, <2>5 DEF UndoneTravels, OnTheWay, InService, RolledBackNews
  <2>21. EndStaysDue
    BY <2>1 DEF EndStaysDue, Pending, Updating
  <2> QED  BY <2>6, <2>7, <2>8, <2>9, <2>10, <2>11, <2>12, <2>13, <2>14, <2>15, <2>16, <2>17,
       <2>18, <2>19, <2>20, <2>21 DEF Carries
<1> QED  BY <1>1, <1>2 DEF Prepare, PcShapes, Process, Disk

(* The preparation failed: the answer says so, nothing is left.            *)
LEMMA PrepareFailsKeeps ==
  ASSUME PcIInv, PrepareFails PROVE PcIInv' /\ Carries
<1> USE Names, NothingRuns, Alive DEF PcIInv
<1>1. /\ proc.upd \in {"prepare", "ready"}
      /\ disk' = [disk EXCEPT !.zip = Absent, !.new = Absent, !.ctx = NoContext]
      /\ proc' = [proc EXCEPT !.upd = "none", !.to = Absent]
      /\ up' = Append(up, Report(Target, "failed"))
      /\ UNCHANGED <<bat, link, hist>>
  BY DEF PrepareFails, Idle, CleanedUp, Answer, ProcessSane
<1>2. proc.to = Target /\ proc.begun /\ proc.ver = FirstVersion /\ Upgrade
  BY <1>1 DEF ProcessSane, Updating
<1>3. disk' \in Disk
  BY <1>1 DEF PcShapes, Disk, Update, NoContext
<1>4. proc' \in Process
  BY <1>1 DEF PcShapes, Process, Update
<1>5. /\ up' \in Seq(Message) /\ up' # <<>>
      /\ \A i \in DOMAIN up' : (i \in DOMAIN up /\ up'[i] = up[i]) \/ i = Len(up) + 1
      /\ \A i \in DOMAIN up : i \in DOMAIN up' /\ up'[i] = up[i] /\ Len(up) + 1 > i
      /\ Len(up) + 1 \in DOMAIN up'
      /\ up'[Len(up) + 1] = Report(Target, "failed")
      /\ AllNews' = AllNews \cup {Report(Target, "failed")}
  BY <1>1, Queued, Answered, MessageIs DEF Outcome
<1>6. PcShapes'
  BY <1>1, <1>3, <1>4, <1>5 DEF PcShapes
<1>7. ProcessSane'
  BY <1>1, <1>2 DEF ProcessSane
<1>8. MessagesSane'
  BY <1>1, <1>5, MessageIs DEF MessagesSane
<1>9. FoldersInStep'
  BY <1>1 DEF FoldersInStep
<1>10. JunkIsHeld'
  BY <1>1 DEF JunkIsHeld
<1>11. MarkTells'
  BY <1>1 DEF MarkTells
<1>12. ServiceRuns'
  BY <1>1, <1>2 DEF ServiceRuns, OldOrNew
<1>13. OnlyConfirmedStays'
  BY <1>1 DEF OnlyConfirmedStays, Only
<1>14. UndoneIsTrue'
  BY <1>1, <1>5, MessageIs DEF UndoneIsTrue, RolledBackNews
<1>15. OpeningIsFollowed'
  BY <1>1, <1>2, MessageIs DEF OpeningIsFollowed, IsFinal
<1>16. WatchAnswers'
  BY <1>1 DEF WatchAnswers, Forward
<1>17. Grows
  BY <1>1 DEF Grows
<1>18. SessionTells
  BY <1>1 DEF SessionTells, Greeting
<1>19. BackIsUndone
  BY <1>1 DEF BackIsUndone
<1>20. UndoneTravels
  BY <1>1, <1>5 DEF UndoneTravels, OnTheWay, InService, RolledBackNews
<1>21. EndStaysDue
  BY <1>5, MessageIs DEF EndStaysDue, Pending, FinalNews, IsFinal
<1> QED  BY <1>6, <1>7, <1>8, <1>9, <1>10, <1>11, <1>12, <1>13, <1>14, <1>15, <1>16, <1>17,
     <1>18, <1>19, <1>20, <1>21 DEF Carries

(* The point of no return of the handler: the old marks go, the context is *)
(* written, the answer is on its way.                                      *)
LEMMA CommitKeeps ==
  ASSUME PcIInv, Commit PROVE PcIInv' /\ Carries
<1> USE Names, NothingRuns, Alive DEF PcIInv
<1>1. /\ proc.upd = "ready"
      /\ disk' = [disk EXCEPT !.ok = FALSE, !.fail = FALSE, !.rb = Absent, !.ctx = ToTarget]
      /\ proc' = [Idle(proc) EXCEPT !.spawn = TRUE, !.watch = Target]
      /\ up' = Append(up, Report(Target, "started"))
      /\ UNCHANGED <<bat, link, hist>>
  BY DEF Commit, Answer, ProcessSane, Updating, ToTarget
<1>2. proc.to = Target /\ proc.begun /\ proc.ver = FirstVersion /\ Upgrade
  BY <1>1 DEF ProcessSane, Updating
<1>3. Idle(proc) \in Process
  <2>1. proc \in Process  BY DEF PcShapes
  <2> QED  BY <2>1, ProcessWith
<1>4. disk' \in Disk
  BY <1>1 DEF PcShapes, Disk, Update, OldOrNew, NoContext
<1>5. /\ disk'.app = disk.app /\ disk'.new = disk.new /\ disk'.old = disk.old
      /\ disk'.bad = disk.bad /\ disk'.zip = disk.zip /\ disk'.ctx = ToTarget
      /\ disk'.ok = FALSE /\ disk'.fail = FALSE /\ disk'.rb = Absent
  BY <1>1
<1>6. proc' \in Process
  <2>1. [Idle(proc) EXCEPT !.spawn = TRUE, !.watch = Target] \in Process  BY <1>3, ProcessWith
  <2> QED  BY <1>1, <2>1
<1>7. /\ proc'.ver = proc.ver /\ proc'.begun = proc.begun /\ proc'.check = proc.check
      /\ proc'.upd = "none" /\ proc'.to = Absent /\ proc'.staged = proc.staged
      /\ proc'.spawn = TRUE /\ proc'.watch = Target /\ proc'.out = proc.out
  BY <1>1, <1>3 DEF Process, Idle
<1>8. /\ up' \in Seq(Message) /\ up' # <<>>
      /\ \A i \in DOMAIN up' : (i \in DOMAIN up /\ up'[i] = up[i]) \/ i = Len(up) + 1
      /\ \A i \in DOMAIN up : i \in DOMAIN up' /\ up'[i] = up[i] /\ Len(up) + 1 > i
      /\ Len(up) + 1 \in DOMAIN up'
      /\ up'[Len(up) + 1] = Report(Target, "started")
      /\ AllNews' = AllNews \cup {Report(Target, "started")}
  BY <1>1, <1>7, Queued, Answered, MessageIs DEF Outcome
<1>9. PcShapes'
  BY <1>1, <1>4, <1>6, <1>8 DEF PcShapes
<1>10. ProcessSane'
  BY <1>1, <1>2, <1>5, <1>7 DEF ProcessSane
<1>11. MessagesSane'
  BY <1>7, <1>8, MessageIs DEF MessagesSane
<1>12. FoldersInStep'
  BY <1>1 DEF FoldersInStep, Stopped
<1>13. JunkIsHeld'
  BY <1>1 DEF JunkIsHeld
<1>14. MarkTells'
  BY <1>1 DEF MarkTells
<1>15. ServiceRuns'
  BY <1>1, <1>2, <1>7 DEF ServiceRuns, OldOrNew
<1>16. OnlyConfirmedStays'
  BY <1>1 DEF OnlyConfirmedStays, Only
<1>17. UndoneIsTrue'
  BY <1>1, <1>8, MessageIs DEF UndoneIsTrue, RolledBackNews
<1>18. OpeningIsFollowed'
  BY <1>1 DEF OpeningIsFollowed, Updating
<1>19. WatchAnswers'
  BY <1>1, <1>2, <1>7 DEF WatchAnswers, NoContext, ToTarget
<1>20. Grows
  BY <1>1 DEF Grows
<1>21. SessionTells
  BY <1>1, <1>7 DEF SessionTells, Greeting
<1>22. BackIsUndone
  BY <1>1 DEF BackIsUndone
<1>23. UndoneTravels
  BY <1>1, <1>2, <1>8 DEF UndoneTravels, OnTheWay, InService, RolledBackNews, UndoneIsTrue
<1>24. EndStaysDue
  BY <1>1 DEF EndStaysDue, Pending, Updating
<1> QED  BY <1>9, <1>10, <1>11, <1>12, <1>13, <1>14, <1>15, <1>16, <1>17, <1>18, <1>19, <1>20,
     <1>21, <1>22, <1>23, <1>24 DEF Carries

(* The batch starts, or the scheduler has one running already.             *)
LEMMA SpawnKeeps ==
  ASSUME PcIInv, Spawn PROVE PcIInv' /\ Carries
<1> USE Names, NothingRuns, Alive DEF PcIInv
<1>1. CASE bat.at # "idle"
  <2>1. /\ proc.spawn
        /\ proc' = [proc EXCEPT !.spawn = FALSE]
        /\ UNCHANGED <<disk, bat, link, up, hist>>
    BY <1>1 DEF Spawn
  <2>2. proc' \in Process
    BY <2>1 DEF PcShapes, Process
  <2>3. AllNews' = AllNews
    BY <2>1 DEF AllNews
  <2>4. PcShapes'
    BY <2>1, <2>2 DEF PcShapes
  <2>5. ProcessSane'
    BY <2>1 DEF ProcessSane, Updating
  <2>6. MessagesSane'
    BY <2>1, <2>3 DEF MessagesSane
  <2>7. FoldersInStep'
    BY <2>1 DEF FoldersInStep
  <2>8. JunkIsHeld'
    BY <2>1 DEF JunkIsHeld
  <2>9. MarkTells'
    BY <2>1 DEF MarkTells
  <2>10. ServiceRuns'
    BY <2>1 DEF ServiceRuns, Only
  <2>11. OnlyConfirmedStays'
    BY <1>1, <2>1 DEF OnlyConfirmedStays
  <2>12. UndoneIsTrue'
    BY <2>1, <2>3 DEF UndoneIsTrue, RolledBackNews
  <2>13. OpeningIsFollowed'
    BY <2>1 DEF OpeningIsFollowed, Updating
  <2>14. WatchAnswers'
    BY <2>1 DEF WatchAnswers
  <2>15. Grows
    BY <2>1 DEF Grows
  <2>16. SessionTells
    BY <2>1 DEF SessionTells, Greeting
  <2>17. BackIsUndone
    BY <2>1 DEF BackIsUndone
  <2>18. UndoneTravels
    BY <2>1, <2>3 DEF UndoneTravels, OnTheWay, InService, RolledBackNews
  <2>19. EndStaysDue
    BY <2>1, <2>3 DEF EndStaysDue, Pending, Updating, FinalNews
  <2> QED  BY <2>4, <2>5, <2>6, <2>7, <2>8, <2>9, <2>10, <2>11, <2>12, <2>13, <2>14, <2>15,
       <2>16, <2>17, <2>18, <2>19 DEF Carries
<1>2. CASE bat.at = "idle"
  <2>1. /\ proc.spawn /\ proc.watch = Target
        /\ proc' = [proc EXCEPT !.spawn = FALSE]
        /\ bat' = [at |-> IF proc.staged THEN "unpack" ELSE "stop", v |-> Target]
        /\ UNCHANGED <<disk, link, up, hist>>
    BY <1>2 DEF Spawn, ProcessSane
  <2>2. proc.begun /\ proc.ver = FirstVersion /\ Upgrade /\ disk.app = FirstVersion
    BY <2>1 DEF ProcessSane, Updating
  <2>3. proc' \in Process
    BY <1>2, <2>1, <2>2 DEF PcShapes, Process, Update, OldOrNew
  <2>4. /\ bat'.at \in {"unpack", "stop"}
        /\ bat'.v = Target
        /\ bat' \in [at : Label, v : Update]
    BY <2>1 DEF Label, Update
  <2>5. AllNews' = AllNews
    BY <2>1 DEF AllNews
  <2>6. PcShapes'
    BY <2>1, <2>3, <2>4 DEF PcShapes
  <2>7. ProcessSane'
    BY <2>1, <2>2 DEF ProcessSane
  <2>8. MessagesSane'
    BY <2>1, <2>5 DEF MessagesSane
  <2>9. FoldersInStep'
    BY <2>1, <2>2 DEF FoldersInStep, Stopped
  <2>10. JunkIsHeld'
    BY <2>1 DEF JunkIsHeld
  <2>11. MarkTells'
    BY <2>1 DEF MarkTells
  <2>12. ServiceRuns'
    BY <2>1, <2>2 DEF ServiceRuns, OldOrNew
  <2>13. OnlyConfirmedStays'
    BY <2>1 DEF OnlyConfirmedStays
  <2>14. UndoneIsTrue'
    BY <2>1, <2>5 DEF UndoneIsTrue, RolledBackNews
  <2>15. OpeningIsFollowed'
    BY <2>1 DEF OpeningIsFollowed, Updating
  <2>16. WatchAnswers'
    BY <2>1 DEF WatchAnswers
  <2>17. Grows
    BY <2>1 DEF Grows
  <2>18. SessionTells
    BY <2>1 DEF SessionTells, Greeting
  <2>19. BackIsUndone
    BY <2>1 DEF BackIsUndone
  <2>20. UndoneTravels
    BY <1>2, <2>1, <2>2, <2>5 DEF UndoneTravels, OnTheWay, InService, RolledBackNews, Rollback
  <2>21. EndStaysDue
    BY <2>1 DEF EndStaysDue, Pending
  <2> QED  BY <2>6, <2>7, <2>8, <2>9, <2>10, <2>11, <2>12, <2>13, <2>14, <2>15, <2>16, <2>17,
       <2>18, <2>19, <2>20, <2>21 DEF Carries
<1> QED  BY <1>1, <1>2

(* The process that outlived its own update reports that it failed.        *)
LEMMA WatchdogKeeps ==
  ASSUME PcIInv, Watchdog PROVE PcIInv' /\ Carries
<1> USE Names, NothingRuns, Alive DEF PcIInv
<1>1. /\ proc.watch = Target /\ ~proc.spawn /\ bat.at = "idle"
      /\ disk' = [disk EXCEPT !.ctx = NoContext]
      /\ proc' = [proc EXCEPT !.watch = Absent, !.out = Append(proc.out, Report(Target, "failed"))]
      /\ UNCHANGED <<bat, link, up, hist>>
  BY DEF Watchdog, PcShapes, Process, Update
<1>2. proc.begun /\ proc.ver = FirstVersion /\ Upgrade
  BY <1>1 DEF ProcessSane, Updating
<1>3. Append(proc.out, Report(Target, "failed")) \in Seq(Told) /\ Append(proc.out, Report(Target, "failed")) # <<>>
  BY EntriesAppend DEF PcShapes, Process, Told, News
<1>4. Entries(Append(proc.out, Report(Target, "failed"))) = Entries(proc.out) \cup {Report(Target, "failed")}
  BY EntriesAppend DEF PcShapes, Process, Told, News
<1>5. disk' \in Disk
  BY <1>1 DEF PcShapes, Disk
<1>6. proc' \in Process
  BY <1>1, <1>2, <1>3, <1>4 DEF PcShapes, Process, Update, OldOrNew
<1>7. AllNews' = AllNews \cup {Report(Target, "failed")}
  BY <1>1, <1>4 DEF AllNews
<1>8. PcShapes'
  BY <1>1, <1>5, <1>6 DEF PcShapes
<1>9. ProcessSane'
  BY <1>1, <1>2 DEF ProcessSane
<1>10. MessagesSane'
  BY <1>1, <1>7, MessageIs DEF MessagesSane
<1>11. FoldersInStep'
  BY <1>1 DEF FoldersInStep
<1>12. JunkIsHeld'
  BY <1>1 DEF JunkIsHeld
<1>13. MarkTells'
  BY <1>1 DEF MarkTells
<1>14. ServiceRuns'
  BY <1>1, <1>2 DEF ServiceRuns, OldOrNew
<1>15. OnlyConfirmedStays'
  BY <1>1 DEF OnlyConfirmedStays, Only
<1>16. UndoneIsTrue'
  BY <1>1, <1>7, MessageIs DEF UndoneIsTrue, RolledBackNews
<1>17. OpeningIsFollowed'
  BY <1>1, <1>3 DEF OpeningIsFollowed
<1>18. WatchAnswers'
  BY <1>1 DEF WatchAnswers, Forward
<1>19. Grows
  BY <1>1 DEF Grows
<1>20. SessionTells
  BY <1>1 DEF SessionTells, Greeting
<1>21. BackIsUndone
  BY <1>1 DEF BackIsUndone
<1>22. UndoneTravels
  BY <1>1, <1>7 DEF UndoneTravels, OnTheWay, InService, RolledBackNews
<1>23. EndStaysDue
  BY <1>3, <1>7, MessageIs DEF EndStaysDue, Pending, FinalNews
<1> QED  BY <1>8, <1>9, <1>10, <1>11, <1>12, <1>13, <1>14, <1>15, <1>16, <1>17, <1>18, <1>19,
     <1>20, <1>21, <1>22, <1>23 DEF Carries

(* The self-check looks for what the batch left: a rollback is told as     *)
(* one, a swap that did not happen as a failure, and their traces are      *)
(* removed.                                                                *)
LEMMA SelfCheckBeginsKeeps ==
  ASSUME PcIInv, SelfCheckBegins PROVE PcIInv' /\ Carries
<1> USE Names, NothingRuns, Alive DEF PcIInv
<1>1. CASE disk.rb # Absent
  <2>1. /\ proc.ver # Absent /\ ~proc.begun
        /\ disk.rb = Target /\ Target \in hist.undone
        /\ disk' = [disk EXCEPT !.ok = FALSE, !.fail = FALSE, !.rb = Absent, !.ctx = NoContext]
        /\ proc' = [proc EXCEPT !.begun = TRUE, !.out = Append(proc.out, Report(Target, "rolled_back"))]
        /\ UNCHANGED <<bat, link, up, hist>>
    BY <1>1 DEF SelfCheckBegins, Posted, Cleared, PcShapes, Disk, Update, UndoneIsTrue
  <2>2. proc.watch = Absent /\ proc.upd = "none" /\ ~proc.spawn /\ proc.check = "idle" /\ ~link
    BY <2>1 DEF ProcessSane
  <2>3. Append(proc.out, Report(Target, "rolled_back")) \in Seq(Told) /\ Append(proc.out, Report(Target, "rolled_back")) # <<>>
    BY EntriesAppend DEF PcShapes, Process, Told, News
  <2>4. Entries(Append(proc.out, Report(Target, "rolled_back"))) = Entries(proc.out) \cup {Report(Target, "rolled_back")}
    BY EntriesAppend DEF PcShapes, Process, Told, News
  <2>5. disk' \in Disk
    BY <2>1 DEF PcShapes, Disk, Update
  <2>6. proc' \in Process
    BY <2>1, <2>3 DEF PcShapes, Process
  <2>7. AllNews' = AllNews \cup {Report(Target, "rolled_back")}
    BY <2>1, <2>4 DEF AllNews
  <2>8. PcShapes'
    BY <2>1, <2>5, <2>6 DEF PcShapes
  <2>9. ProcessSane'
    BY <2>1 DEF ProcessSane, Updating
  <2>10. MessagesSane'
    BY <2>1, <2>7, MessageIs DEF MessagesSane
  <2>11. FoldersInStep'
    BY <2>1 DEF FoldersInStep
  <2>12. JunkIsHeld'
    BY <2>1 DEF JunkIsHeld
  <2>13. MarkTells'
    BY <2>1 DEF MarkTells
  <2>14. ServiceRuns'
    BY <2>1 DEF ServiceRuns, Only
  <2>15. OnlyConfirmedStays'
    BY <2>1 DEF OnlyConfirmedStays, Only
  <2>16. UndoneIsTrue'
    BY <2>1 DEF UndoneIsTrue
  <2>17. OpeningIsFollowed'
    BY <2>1 DEF OpeningIsFollowed
  <2>18. WatchAnswers'
    BY <2>1, <2>2 DEF WatchAnswers, Forward, Stopped
  <2>19. Grows
    BY <2>1 DEF Grows
  <2>20. SessionTells
    BY <2>1 DEF SessionTells
  <2>21. BackIsUndone
    BY <2>1 DEF BackIsUndone
  <2>22. UndoneTravels
    BY <2>7, MessageIs DEF UndoneTravels, OnTheWay, RolledBackNews
  <2>23. EndStaysDue
    BY <2>3, <2>7, MessageIs DEF EndStaysDue, Pending, FinalNews
  <2> QED  BY <2>8, <2>9, <2>10, <2>11, <2>12, <2>13, <2>14, <2>15, <2>16, <2>17, <2>18, <2>19,
       <2>20, <2>21, <2>22, <2>23 DEF Carries
<1>2. CASE disk.rb = Absent /\ disk.ctx = NoContext
  <2>1. /\ proc.ver # Absent /\ ~proc.begun
        /\ proc' = [proc EXCEPT !.begun = TRUE]
        /\ UNCHANGED <<disk, bat, link, up, hist>>
    BY <1>2 DEF SelfCheckBegins
  <2>2. proc' \in Process
    BY <2>1 DEF PcShapes, Process
  <2>3. AllNews' = AllNews
    BY <2>1 DEF AllNews
  <2>4. PcShapes'
    BY <2>1, <2>2 DEF PcShapes
  <2>5. ProcessSane'
    BY <2>1 DEF ProcessSane, Updating
  <2>6. MessagesSane'
    BY <2>1, <2>3 DEF MessagesSane
  <2>7. FoldersInStep'
    BY <2>1 DEF FoldersInStep
  <2>8. JunkIsHeld'
    BY <2>1 DEF JunkIsHeld
  <2>9. MarkTells'
    BY <2>1 DEF MarkTells
  <2>10. ServiceRuns'
    BY <2>1 DEF ServiceRuns, Only
  <2>11. OnlyConfirmedStays'
    BY <2>1 DEF OnlyConfirmedStays, Only
  <2>12. UndoneIsTrue'
    BY <1>2, <2>1, <2>3 DEF UndoneIsTrue, RolledBackNews
  <2>13. OpeningIsFollowed'
    BY <2>1 DEF OpeningIsFollowed
  <2>14. WatchAnswers'
    BY <2>1 DEF WatchAnswers
  <2>15. Grows
    BY <2>1 DEF Grows
  <2>16. SessionTells
    BY <2>1 DEF SessionTells
  <2>17. BackIsUndone
    BY <2>1 DEF BackIsUndone
  <2>18. UndoneTravels
    BY <2>1, <2>3 DEF UndoneTravels, OnTheWay, InService, RolledBackNews
  <2>19. EndStaysDue
    BY <1>2, <2>1, <2>3 DEF EndStaysDue, Pending, FinalNews
  <2> QED  BY <2>4, <2>5, <2>6, <2>7, <2>8, <2>9, <2>10, <2>11, <2>12, <2>13, <2>14, <2>15,
       <2>16, <2>17, <2>18, <2>19 DEF Carries
<1>3. CASE disk.rb = Absent /\ disk.ctx # NoContext /\ disk.ctx.to # proc.ver
  <2>1. /\ proc.ver # Absent /\ ~proc.begun
        /\ disk' = [disk EXCEPT !.ok = FALSE, !.fail = FALSE, !.rb = Absent, !.ctx = NoContext]
        /\ proc' = Posted(proc, disk.ctx.to, "failed")
        /\ UNCHANGED <<bat, link, up, hist>>
    BY <1>3 DEF SelfCheckBegins, Cleared
  <2>2. disk.ctx = ToTarget /\ ToTarget.to = Target
    BY <1>3 DEF PcShapes, Disk, ToTarget
  <2>3. proc.ver = FirstVersion
    BY <1>3, <2>1, <2>2 DEF PcShapes, Process, OldOrNew
  <2>4. proc' = [proc EXCEPT !.begun = TRUE, !.out = Append(proc.out, Report(Target, "failed"))]
    BY <2>1, <2>2 DEF Posted
  <2>5. proc.watch = Absent /\ proc.upd = "none" /\ ~proc.spawn /\ proc.check = "idle" /\ ~link
    BY <2>1 DEF ProcessSane
  <2>6. Append(proc.out, Report(Target, "failed")) \in Seq(Told) /\ Append(proc.out, Report(Target, "failed")) # <<>>
    BY DEF PcShapes, Process, Told, News
  <2>7. Entries(Append(proc.out, Report(Target, "failed"))) = Entries(proc.out) \cup {Report(Target, "failed")}
    BY EntriesAppend DEF PcShapes, Process, Told, News
  <2>8. disk' \in Disk
    BY <1>3, <2>1 DEF PcShapes, Disk
  <2>9. proc' \in Process
    <3>1. proc \in Process  BY DEF PcShapes
    <3>2. \A o \in Seq(Told) : [proc EXCEPT !.begun = TRUE, !.out = o] \in Process  BY <3>1,
         ProcessWith
    <3> QED  BY <2>4, <2>6, <3>2
  <2>10. /\ proc'.ver = proc.ver /\ proc'.begun = TRUE /\ proc'.check = proc.check
         /\ proc'.upd = proc.upd /\ proc'.to = proc.to /\ proc'.staged = proc.staged
         /\ proc'.spawn = proc.spawn /\ proc'.watch = proc.watch /\ proc'.out = Append(proc.out, Report(Target, "failed"))
    BY <2>4 DEF PcShapes, Process
  <2>11. AllNews' = AllNews \cup {Report(Target, "failed")}
    BY <2>1, <2>7, <2>10 DEF AllNews
  <2>12. PcShapes'
    BY <2>1, <2>8, <2>9 DEF PcShapes
  <2>13. ProcessSane'
    BY <1>3, <2>1, <2>2, <2>3, <2>10 DEF ProcessSane
  <2>14. MessagesSane'
    BY <2>1, <2>10, <2>11, MessageIs DEF MessagesSane
  <2>15. FoldersInStep'
    BY <2>1 DEF FoldersInStep
  <2>16. JunkIsHeld'
    BY <2>1 DEF JunkIsHeld
  <2>17. MarkTells'
    BY <2>1 DEF MarkTells
  <2>18. ServiceRuns'
    BY <2>1, <2>3, <2>10 DEF ServiceRuns, OldOrNew
  <2>19. OnlyConfirmedStays'
    BY <2>1 DEF OnlyConfirmedStays, Only
  <2>20. UndoneIsTrue'
    BY <2>1, <2>11, MessageIs DEF UndoneIsTrue, RolledBackNews
  <2>21. OpeningIsFollowed'
    BY <2>1 DEF OpeningIsFollowed
  <2>22. WatchAnswers'
    BY <2>1, <2>5, <2>10 DEF WatchAnswers, Forward, Stopped
  <2>23. Grows
    BY <2>1 DEF Grows
  <2>24. SessionTells
    BY <2>1 DEF SessionTells
  <2>25. BackIsUndone
    BY <2>1 DEF BackIsUndone
  <2>26. UndoneTravels
    BY <1>3, <2>1, <2>11 DEF UndoneTravels, OnTheWay, InService, RolledBackNews
  <2>27. EndStaysDue
    BY <2>6, <2>11, MessageIs DEF EndStaysDue, Pending, FinalNews
  <2> QED  BY <2>12, <2>13, <2>14, <2>15, <2>16, <2>17, <2>18, <2>19, <2>20, <2>21, <2>22, <2>23,
       <2>24, <2>25, <2>26, <2>27 DEF Carries
<1>4. CASE disk.rb = Absent /\ disk.ctx # NoContext /\ disk.ctx.to = proc.ver
  <2>1. /\ proc.ver # Absent /\ ~proc.begun
        /\ proc.ver = Target
        /\ proc' = [proc EXCEPT !.begun = TRUE, !.check = "pending"]
        /\ UNCHANGED <<disk, bat, link, up, hist>>
    BY <1>4 DEF SelfCheckBegins, PcShapes, Disk, ToTarget
  <2>2. proc' \in Process
    BY <2>1 DEF PcShapes, Process
  <2>3. AllNews' = AllNews
    BY <2>1 DEF AllNews
  <2>4. PcShapes'
    BY <2>1, <2>2 DEF PcShapes
  <2>5. ProcessSane'
    BY <2>1 DEF ProcessSane, Updating
  <2>6. MessagesSane'
    BY <2>1 DEF MessagesSane
  <2>7. FoldersInStep'
    BY <2>1 DEF FoldersInStep
  <2>8. JunkIsHeld'
    BY <2>1 DEF JunkIsHeld
  <2>9. MarkTells'
    BY <2>1 DEF MarkTells
  <2>10. ServiceRuns'
    BY <2>1 DEF ServiceRuns, OldOrNew
  <2>11. OnlyConfirmedStays'
    BY <2>1 DEF OnlyConfirmedStays, Only
  <2>12. UndoneIsTrue'
    BY <1>4, <2>1, <2>3 DEF UndoneIsTrue, RolledBackNews
  <2>13. OpeningIsFollowed'
    BY <2>1 DEF OpeningIsFollowed
  <2>14. WatchAnswers'
    BY <2>1 DEF WatchAnswers
  <2>15. Grows
    BY <2>1 DEF Grows
  <2>16. SessionTells
    BY <2>1 DEF SessionTells
  <2>17. BackIsUndone
    BY <2>1 DEF BackIsUndone
  <2>18. UndoneTravels
    BY <2>1, <2>3 DEF UndoneTravels, OnTheWay, InService, RolledBackNews
  <2>19. EndStaysDue
    BY <1>4, <2>1 DEF EndStaysDue, Pending, Only, WatchAnswers, MarkTells
  <2> QED  BY <2>4, <2>5, <2>6, <2>7, <2>8, <2>9, <2>10, <2>11, <2>12, <2>13, <2>14, <2>15,
       <2>16, <2>17, <2>18, <2>19 DEF Carries
<1> QED  BY <1>1, <1>2, <1>3, <1>4

(* The version is confirmed: from here on it is a good one.                *)
LEMMA SelfCheckPassesKeeps ==
  ASSUME PcIInv, SelfCheckPasses PROVE PcIInv' /\ Carries
<1> USE Names, NothingRuns, Alive DEF PcIInv
<1>1. /\ proc.check = "pending" /\ link
      /\ disk' = [disk EXCEPT !.ok = TRUE, !.ctx = NoContext]
      /\ proc' = [proc EXCEPT !.begun = TRUE, !.out = Append(proc.out, Report(Target, "installed")), !.check = "ok"]
      /\ hist' = [hist EXCEPT !.good = hist.good \cup {Target}]
      /\ UNCHANGED <<bat, link, up>>
  BY DEF SelfCheckPasses, Posted, ProcessSane
<1>2. proc.ver = Target /\ proc.begun /\ disk.app = Target
  BY <1>1 DEF ProcessSane
<1>3. ~Updating /\ ~proc.spawn /\ bat.at \notin Forward
  BY <1>1 DEF ProcessSane, Updating, FoldersInStep, Forward
<1>4. Append(proc.out, Report(Target, "installed")) \in Seq(Told) /\ Append(proc.out, Report(Target, "installed")) # <<>>
  BY EntriesAppend DEF PcShapes, Process, Told, News
<1>5. Entries(Append(proc.out, Report(Target, "installed"))) = Entries(proc.out) \cup {Report(Target, "installed")}
  BY EntriesAppend DEF PcShapes, Process, Told, News
<1>6. disk' \in Disk
  BY <1>1 DEF PcShapes, Disk
<1>7. proc' \in Process
  BY <1>1, <1>4 DEF PcShapes, Process
<1>8. hist' \in History
  BY <1>1, <1>3, <1>4, <1>5 DEF PcShapes, History
<1>9. AllNews' = AllNews \cup {Report(Target, "installed")}
  BY <1>1, <1>5 DEF AllNews
<1>10. PcShapes'
  BY <1>1, <1>6, <1>7, <1>8 DEF PcShapes
<1>11. ProcessSane'
  BY <1>1 DEF ProcessSane, Updating
<1>12. MessagesSane'
  BY <1>1, <1>2 DEF MessagesSane
<1>13. FoldersInStep'
  BY <1>1 DEF FoldersInStep
<1>14. JunkIsHeld'
  BY <1>1 DEF JunkIsHeld
<1>15. MarkTells'
  BY <1>1, <1>3 DEF MarkTells, Stopped
<1>16. ServiceRuns'
  BY <1>1, <1>2 DEF ServiceRuns, OldOrNew
<1>17. OnlyConfirmedStays'
  BY <1>1, <1>2 DEF OnlyConfirmedStays
<1>18. UndoneIsTrue'
  BY <1>1, <1>9, MessageIs DEF UndoneIsTrue, RolledBackNews
<1>19. OpeningIsFollowed'
  BY <1>1, <1>4 DEF OpeningIsFollowed
<1>20. WatchAnswers'
  BY <1>1, <1>3 DEF WatchAnswers
<1>21. Grows
  BY <1>1 DEF Grows
<1>22. SessionTells
  BY <1>1 DEF SessionTells, Greeting
<1>23. BackIsUndone
  BY <1>1 DEF BackIsUndone
<1>24. UndoneTravels
  BY <1>1, <1>9 DEF UndoneTravels, OnTheWay, InService, RolledBackNews
<1>25. EndStaysDue
  BY <1>4, <1>9, MessageIs DEF EndStaysDue, Pending, FinalNews
<1> QED  BY <1>10, <1>11, <1>12, <1>13, <1>14, <1>15, <1>16, <1>17, <1>18, <1>19, <1>20, <1>21,
     <1>22, <1>23, <1>24, <1>25 DEF Carries

(* The version leaves the mark of a failure; the batch brings the old one  *)
(* back.                                                                   *)
LEMMA SelfCheckFailsKeeps ==
  ASSUME PcIInv, SelfCheckFails PROVE PcIInv' /\ Carries
<1> USE Names, NothingRuns, Alive DEF PcIInv
<1>1. /\ proc.check = "pending"
      /\ disk' = [disk EXCEPT !.fail = TRUE]
      /\ proc' = [proc EXCEPT !.check = "failed"]
      /\ UNCHANGED <<bat, link, up, hist>>
  BY DEF SelfCheckFails
<1>2. proc.ver = Target /\ proc.begun /\ disk.app = Target
  BY <1>1 DEF ProcessSane
<1>3. disk' \in Disk
  BY <1>1 DEF PcShapes, Disk
<1>4. proc' \in Process
  BY <1>1 DEF PcShapes, Process
<1>5. AllNews' = AllNews
  BY <1>1 DEF AllNews
<1>6. PcShapes'
  BY <1>1, <1>3, <1>4 DEF PcShapes
<1>7. ProcessSane'
  BY <1>1 DEF ProcessSane, Updating
<1>8. MessagesSane'
  BY <1>1, <1>2 DEF MessagesSane
<1>9. FoldersInStep'
  BY <1>1 DEF FoldersInStep
<1>10. JunkIsHeld'
  BY <1>1 DEF JunkIsHeld
<1>11. MarkTells'
  BY <1>1 DEF MarkTells
<1>12. ServiceRuns'
  BY <1>1, <1>2 DEF ServiceRuns, OldOrNew
<1>13. OnlyConfirmedStays'
  BY <1>1 DEF OnlyConfirmedStays, Only
<1>14. UndoneIsTrue'
  BY <1>1, <1>5 DEF UndoneIsTrue, RolledBackNews
<1>15. OpeningIsFollowed'
  BY <1>1 DEF OpeningIsFollowed, Updating
<1>16. WatchAnswers'
  BY <1>1 DEF WatchAnswers
<1>17. Grows
  BY <1>1 DEF Grows
<1>18. SessionTells
  BY <1>1 DEF SessionTells, Greeting
<1>19. BackIsUndone
  BY <1>1 DEF BackIsUndone
<1>20. UndoneTravels
  BY <1>1, <1>5 DEF UndoneTravels, OnTheWay, InService, RolledBackNews
<1>21. EndStaysDue
  BY <1>1, <1>5 DEF EndStaysDue, Pending, Updating, FinalNews
<1> QED  BY <1>6, <1>7, <1>8, <1>9, <1>10, <1>11, <1>12, <1>13, <1>14, <1>15, <1>16, <1>17,
     <1>18, <1>19, <1>20, <1>21 DEF Carries

(* The batch had its time to read the mark, and the check is over.         *)
LEMMA SettleKeeps ==
  ASSUME PcIInv, Settle PROVE PcIInv' /\ Carries
<1> USE Names, NothingRuns, Alive DEF PcIInv
<1>1. /\ proc.check = "ok"
      /\ proc' = [proc EXCEPT !.check = "idle"]
      /\ UNCHANGED <<disk, bat, link, up, hist>>
  BY DEF Settle
<1>2. proc.ver = Target /\ proc.begun /\ disk.app = Target
  BY <1>1 DEF ProcessSane
<1>3. proc' \in Process
  BY <1>1 DEF PcShapes, Process
<1>4. AllNews' = AllNews
  BY <1>1 DEF AllNews
<1>5. PcShapes'
  BY <1>1, <1>3 DEF PcShapes
<1>6. ProcessSane'
  BY <1>1 DEF ProcessSane, Updating
<1>7. MessagesSane'
  BY <1>1, <1>2 DEF MessagesSane
<1>8. FoldersInStep'
  BY <1>1 DEF FoldersInStep
<1>9. JunkIsHeld'
  BY <1>1 DEF JunkIsHeld
<1>10. MarkTells'
  BY <1>1 DEF MarkTells
<1>11. ServiceRuns'
  BY <1>1, <1>2 DEF ServiceRuns, OldOrNew
<1>12. OnlyConfirmedStays'
  BY <1>1 DEF OnlyConfirmedStays, Only
<1>13. UndoneIsTrue'
  BY <1>1, <1>4 DEF UndoneIsTrue, RolledBackNews
<1>14. OpeningIsFollowed'
  BY <1>1 DEF OpeningIsFollowed, Updating
<1>15. WatchAnswers'
  BY <1>1 DEF WatchAnswers
<1>16. Grows
  BY <1>1 DEF Grows
<1>17. SessionTells
  BY <1>1 DEF SessionTells, Greeting
<1>18. BackIsUndone
  BY <1>1 DEF BackIsUndone
<1>19. UndoneTravels
  BY <1>1, <1>4 DEF UndoneTravels, OnTheWay, InService, RolledBackNews
<1>20. EndStaysDue
  BY <1>1, <1>4 DEF EndStaysDue, Pending, Updating, FinalNews
<1> QED  BY <1>5, <1>6, <1>7, <1>8, <1>9, <1>10, <1>11, <1>12, <1>13, <1>14, <1>15, <1>16, <1>17,
     <1>18, <1>19, <1>20 DEF Carries

(* The session ends under the handler: what was on the way is lost, and    *)
(* what was prepared is removed.                                           *)
LEMMA DropKeeps ==
  ASSUME PcIInv, Drop PROVE PcIInv' /\ Carries
<1> USE Names, NothingRuns, Alive DEF PcIInv
<1>1. CASE proc.upd \in {"prepare", "ready"}
  <2>1. /\ link
        /\ disk' = [disk EXCEPT !.zip = Absent, !.new = Absent, !.ctx = NoContext]
        /\ proc' = [proc EXCEPT !.upd = "none", !.to = Absent]
        /\ up' = <<>>
        /\ link' = FALSE
        /\ UNCHANGED <<bat>>
    BY <1>1 DEF Drop, Killed, Idle, CleanedUp
  <2>2. disk' \in Disk
    BY <2>1 DEF PcShapes, Disk, Update
  <2>3. proc' \in Process
    BY <2>1 DEF PcShapes, Process, Update
  <2>4. /\ hist' \in History
        /\ hist'.good = hist.good /\ hist'.undone = hist.undone /\ hist.lost \subseteq hist'.lost
        /\ hist'.mishaps = hist.mishaps
        /\ \A m \in AllNews : m \in Entries(proc.out) \/ (IsFinal(m) \/ m.outcome = "rolled_back" => Target \in hist'.lost)
        /\ proc.upd # "none" => Target \in hist'.lost
    BY DropIs
  <2>5. AllNews' = Entries(proc.out) /\ AllNews' \subseteq AllNews
    BY <2>1, EntriesNone DEF AllNews
  <2>6. <<>> \in Seq(Message) /\ FALSE \in BOOLEAN
    OBVIOUS
  <2>7. PcShapes'
    BY <2>1, <2>2, <2>3, <2>6, <2>4 DEF PcShapes
  <2>8. ProcessSane'
    BY <2>1 DEF ProcessSane, Updating
  <2>9. MessagesSane'
    BY <2>1, <2>5 DEF MessagesSane
  <2>10. FoldersInStep'
    BY <2>1 DEF FoldersInStep
  <2>11. JunkIsHeld'
    BY <2>1, <2>4 DEF JunkIsHeld
  <2>12. MarkTells'
    BY <2>1, <2>4 DEF MarkTells
  <2>13. ServiceRuns'
    BY <2>1, <2>4 DEF ServiceRuns, Only
  <2>14. OnlyConfirmedStays'
    BY <2>1, <2>4 DEF OnlyConfirmedStays, Only
  <2>15. UndoneIsTrue'
    BY <2>1, <2>4, <2>5 DEF UndoneIsTrue, RolledBackNews
  <2>16. OpeningIsFollowed'
    BY <2>1 DEF OpeningIsFollowed
  <2>17. WatchAnswers'
    BY <1>1, <2>1, <2>4 DEF WatchAnswers
  <2>18. Grows
    BY <2>4 DEF Grows
  <2>19. SessionTells
    BY <2>1 DEF SessionTells
  <2>20. BackIsUndone
    BY <2>1 DEF BackIsUndone
  <2>21. UndoneTravels
    BY <1>1, <2>4 DEF UndoneTravels, OnTheWay
  <2>22. EndStaysDue
    BY <1>1, <2>4 DEF EndStaysDue
  <2> QED  BY <2>7, <2>8, <2>9, <2>10, <2>11, <2>12, <2>13, <2>14, <2>15, <2>16, <2>17, <2>18,
       <2>19, <2>20, <2>21, <2>22 DEF Carries
<1>2. CASE proc.upd \notin {"prepare", "ready"}
  <2>1. /\ link
        /\ proc' = [proc EXCEPT !.upd = "none", !.to = Absent]
        /\ up' = <<>>
        /\ link' = FALSE
        /\ UNCHANGED <<disk, bat>>
    BY <1>2 DEF Drop, Killed, Idle
  <2>2. proc' \in Process
    BY <2>1 DEF PcShapes, Process, Update
  <2>3. /\ hist' \in History
        /\ hist'.good = hist.good /\ hist'.undone = hist.undone /\ hist.lost \subseteq hist'.lost
        /\ hist'.mishaps = hist.mishaps
        /\ \A m \in AllNews : m \in Entries(proc.out) \/ (IsFinal(m) \/ m.outcome = "rolled_back" => Target \in hist'.lost)
        /\ proc.upd # "none" => Target \in hist'.lost
    BY DropIs
  <2>4. AllNews' = Entries(proc.out) /\ AllNews' \subseteq AllNews
    BY <2>1, EntriesNone DEF AllNews
  <2>5. <<>> \in Seq(Message) /\ FALSE \in BOOLEAN
    OBVIOUS
  <2>6. PcShapes'
    BY <2>1, <2>2, <2>5, <2>3 DEF PcShapes
  <2>7. ProcessSane'
    BY <2>1 DEF ProcessSane, Updating
  <2>8. MessagesSane'
    BY <2>1, <2>4 DEF MessagesSane
  <2>9. FoldersInStep'
    BY <2>1 DEF FoldersInStep
  <2>10. JunkIsHeld'
    BY <2>1, <2>3 DEF JunkIsHeld
  <2>11. MarkTells'
    BY <2>1, <2>3 DEF MarkTells
  <2>12. ServiceRuns'
    BY <2>1, <2>3 DEF ServiceRuns, Only
  <2>13. OnlyConfirmedStays'
    BY <2>1, <2>3 DEF OnlyConfirmedStays, Only
  <2>14. UndoneIsTrue'
    BY <2>1, <2>3, <2>4 DEF UndoneIsTrue, RolledBackNews
  <2>15. OpeningIsFollowed'
    BY <2>1 DEF OpeningIsFollowed
  <2>16. WatchAnswers'
    BY <2>1, <2>3 DEF WatchAnswers
  <2>17. Grows
    BY <2>3 DEF Grows
  <2>18. SessionTells
    BY <2>1 DEF SessionTells
  <2>19. BackIsUndone
    BY <2>1 DEF BackIsUndone
  <2>20. UndoneTravels
    BY <2>1, <2>3, <2>4 DEF UndoneTravels, OnTheWay, InService, RolledBackNews
  <2>21. EndStaysDue
    BY <2>1, <2>3, <2>4 DEF EndStaysDue, Pending, Updating, FinalNews
  <2> QED  BY <2>6, <2>7, <2>8, <2>9, <2>10, <2>11, <2>12, <2>13, <2>14, <2>15, <2>16, <2>17,
       <2>18, <2>19, <2>20, <2>21 DEF Carries
<1> QED  BY <1>1, <1>2

(* The power fails: the batch, the process and the session are gone, and   *)
(* the service starts what lies in app.                                    *)
LEMMA PowerCutKeeps ==
  ASSUME PcIInv, PowerCut PROVE PcIInv' /\ Carries
<1> USE Names, NothingRuns, Alive DEF PcIInv
<1>1. /\ proc' \in ServiceStart(disk.app)
      /\ bat' = NoBatch
      /\ up' = <<>>
      /\ link' = FALSE
      /\ UNCHANGED <<disk>>
  BY DEF PowerCut, Killed
<1>2. disk.app \in OldOrNew \cup {Absent, Junk}
  BY DEF PcShapes, Disk
<1>3. /\ proc' \in Process
      /\ proc'.begun = FALSE /\ proc'.check = "idle" /\ proc'.upd = "none" /\ proc'.to = Absent
      /\ proc'.spawn = FALSE /\ proc'.watch = Absent /\ proc'.out = <<>>
      /\ proc'.ver = Absent => proc' = NoProcess /\ disk.app \notin Version \ Broken
      /\ proc'.ver # Absent => proc'.ver = disk.app
      /\ proc' = Started(proc'.ver)
  BY <1>1, <1>2, Starts
<1>4. /\ hist' \in History
      /\ hist'.good = hist.good /\ hist'.undone = hist.undone /\ hist.lost \subseteq hist'.lost
      /\ hist.mishaps \subseteq hist'.mishaps
      /\ (bat.at = "idle" /\ hist'.mishaps = hist.mishaps) \/ "cut" \in hist'.mishaps
      /\ Updating => Target \in hist'.lost
      /\ RolledBackNews \/ FinalNews => Target \in hist'.lost
  BY CutIs
<1>5. /\ bat'.at = "idle"
      /\ bat'.v = Absent
      /\ bat' \in [at : Label, v : Update]
  BY <1>1 DEF NoBatch, Label, Update
<1>6. AllNews' = {}
  BY <1>1, <1>3, EntriesNone DEF AllNews
<1>7. <<>> \in Seq(Message) /\ FALSE \in BOOLEAN
  OBVIOUS
<1>8. PcShapes'
  BY <1>1, <1>7, <1>3, <1>4, <1>5 DEF PcShapes
<1>9. ProcessSane'
  BY <1>1, <1>3 DEF ProcessSane, Updating
<1>10. MessagesSane'
  BY <1>1, <1>6 DEF MessagesSane
<1>11. FoldersInStep'
  BY <1>5 DEF FoldersInStep, Stopped, Forward
<1>12. JunkIsHeld'
  BY <1>1, <1>4, <1>5 DEF JunkIsHeld
<1>13. MarkTells'
  BY <1>1, <1>3, <1>4, <1>5 DEF MarkTells, Forward
<1>14. ServiceRuns'
  BY <1>1, <1>3, <1>4 DEF ServiceRuns, Only, OldOrNew
<1>15. OnlyConfirmedStays'
  BY <1>1, <1>4 DEF OnlyConfirmedStays, Only
<1>16. UndoneIsTrue'
  BY <1>1, <1>3, <1>4, <1>5, <1>6 DEF UndoneIsTrue, RolledBackNews
<1>17. OpeningIsFollowed'
  BY <1>1 DEF OpeningIsFollowed
<1>18. WatchAnswers'
  BY <1>1, <1>3, <1>4, <1>5 DEF WatchAnswers, Forward
<1>19. Grows
  BY <1>4 DEF Grows
<1>20. SessionTells
  BY <1>1 DEF SessionTells
<1>21. BackIsUndone
  BY <1>1 DEF BackIsUndone
<1>22. UndoneTravels
  BY <1>1, <1>4, <1>5 DEF UndoneTravels, OnTheWay, InService
<1>23. EndStaysDue
  BY <1>1, <1>3, <1>4 DEF EndStaysDue, Pending, Only
<1> QED  BY <1>8, <1>9, <1>10, <1>11, <1>12, <1>13, <1>14, <1>15, <1>16, <1>17, <1>18, <1>19,
     <1>20, <1>21, <1>22, <1>23 DEF Carries

(* The process falls and comes again; the batch goes on.                   *)
LEMMA ProcessFallsKeeps ==
  ASSUME PcIInv, ProcessFalls PROVE PcIInv' /\ Carries
<1> USE Names, NothingRuns, Alive DEF PcIInv
<1>1. /\ proc.ver # Absent
      /\ proc' \in ServiceStart(disk.app)
      /\ up' = <<>>
      /\ link' = FALSE
      /\ UNCHANGED <<disk, bat>>
  BY DEF ProcessFalls, Killed
<1>2. disk.app \in OldOrNew \cup {Absent, Junk}
  BY DEF PcShapes, Disk
<1>3. /\ proc' \in Process
      /\ proc'.begun = FALSE /\ proc'.check = "idle" /\ proc'.upd = "none" /\ proc'.to = Absent
      /\ proc'.spawn = FALSE /\ proc'.watch = Absent /\ proc'.out = <<>>
      /\ proc'.ver = Absent => proc' = NoProcess /\ disk.app \notin Version \ Broken
      /\ proc'.ver # Absent => proc'.ver = disk.app
      /\ proc' = Started(proc'.ver)
  BY <1>1, <1>2, Starts
<1>4. /\ hist' \in History
      /\ hist'.good = hist.good /\ hist'.undone = hist.undone /\ hist.lost \subseteq hist'.lost
      /\ hist'.mishaps = hist.mishaps
      /\ Updating => Target \in hist'.lost
      /\ RolledBackNews \/ FinalNews => Target \in hist'.lost
  BY FallIs
<1>5. AllNews' = {}
  BY <1>1, <1>3, EntriesNone DEF AllNews
<1>6. <<>> \in Seq(Message) /\ FALSE \in BOOLEAN
  OBVIOUS
<1>7. PcShapes'
  BY <1>1, <1>6, <1>3, <1>4 DEF PcShapes
<1>8. ProcessSane'
  BY <1>1, <1>3 DEF ProcessSane, Updating
<1>9. MessagesSane'
  BY <1>1, <1>5 DEF MessagesSane
<1>10. FoldersInStep'
  BY <1>1 DEF FoldersInStep
<1>11. JunkIsHeld'
  BY <1>1, <1>4 DEF JunkIsHeld
<1>12. MarkTells'
  BY <1>1, <1>3, <1>4 DEF MarkTells
<1>13. ServiceRuns'
  BY <1>1, <1>3, <1>4 DEF ServiceRuns, Only, OldOrNew
<1>14. OnlyConfirmedStays'
  BY <1>1, <1>4 DEF OnlyConfirmedStays, Only
<1>15. UndoneIsTrue'
  BY <1>1, <1>3, <1>4, <1>5 DEF UndoneIsTrue, RolledBackNews
<1>16. OpeningIsFollowed'
  BY <1>1 DEF OpeningIsFollowed
<1>17. WatchAnswers'
  BY <1>1, <1>3, <1>4 DEF WatchAnswers, Updating
<1>18. Grows
  BY <1>4 DEF Grows
<1>19. SessionTells
  BY <1>1 DEF SessionTells
<1>20. BackIsUndone
  BY <1>1 DEF BackIsUndone
<1>21. UndoneTravels
  BY <1>1, <1>4 DEF UndoneTravels, OnTheWay, InService
<1>22. EndStaysDue
  BY <1>1, <1>3, <1>4 DEF EndStaysDue, Pending
<1> QED  BY <1>7, <1>8, <1>9, <1>10, <1>11, <1>12, <1>13, <1>14, <1>15, <1>16, <1>17, <1>18,
     <1>19, <1>20, <1>21, <1>22 DEF Carries

(* A command comes: refused, held until a self-check ends, or begun.       *)
LEMMA ReceiveKeeps ==
  ASSUME PcIInv, Upgrade, Receive(Target) PROVE PcIInv' /\ Carries
<1> USE Names, NothingRuns, Alive DEF PcIInv
<1>1. CASE proc.upd # "none"
  <2>1. /\ link
        /\ up' = Append(up, Report(Target, "running"))
        /\ UNCHANGED <<disk, proc, bat, link, hist>>
    BY <1>1 DEF Receive, Answer
  <2>2. /\ up' \in Seq(Message) /\ up' # <<>>
        /\ \A i \in DOMAIN up' : (i \in DOMAIN up /\ up'[i] = up[i]) \/ i = Len(up) + 1
        /\ \A i \in DOMAIN up : i \in DOMAIN up' /\ up'[i] = up[i] /\ Len(up) + 1 > i
        /\ Len(up) + 1 \in DOMAIN up'
        /\ up'[Len(up) + 1] = Report(Target, "running")
        /\ AllNews' = AllNews \cup {Report(Target, "running")}
    BY <2>1, Queued, Answered, MessageIs DEF Outcome
  <2>3. PcShapes'
    BY <2>1, <2>2 DEF PcShapes
  <2>4. ProcessSane'
    BY <2>1 DEF ProcessSane, Updating
  <2>5. MessagesSane'
    BY <2>1, <2>2, MessageIs DEF MessagesSane
  <2>6. FoldersInStep'
    BY <2>1 DEF FoldersInStep
  <2>7. JunkIsHeld'
    BY <2>1 DEF JunkIsHeld
  <2>8. MarkTells'
    BY <2>1 DEF MarkTells
  <2>9. ServiceRuns'
    BY <2>1 DEF ServiceRuns, Only
  <2>10. OnlyConfirmedStays'
    BY <2>1 DEF OnlyConfirmedStays, Only
  <2>11. UndoneIsTrue'
    BY <2>1, <2>2, MessageIs DEF UndoneIsTrue, RolledBackNews
  <2>12. OpeningIsFollowed'
    BY <1>1, <2>1 DEF OpeningIsFollowed, Updating
  <2>13. WatchAnswers'
    BY <2>1 DEF WatchAnswers
  <2>14. Grows
    BY <2>1 DEF Grows
  <2>15. SessionTells
    BY <2>1 DEF SessionTells, Greeting
  <2>16. BackIsUndone
    BY <2>1 DEF BackIsUndone
  <2>17. UndoneTravels
    BY <2>1, <2>2 DEF UndoneTravels, OnTheWay, InService, RolledBackNews
  <2>18. EndStaysDue
    BY <1>1, <2>1 DEF EndStaysDue, Pending, Updating
  <2> QED  BY <2>3, <2>4, <2>5, <2>6, <2>7, <2>8, <2>9, <2>10, <2>11, <2>12, <2>13, <2>14, <2>15,
       <2>16, <2>17, <2>18 DEF Carries
<1>2. CASE proc.upd = "none" /\ Target = proc.ver
  <2>1. /\ link
        /\ up' = Append(up, Report(Target, "already"))
        /\ UNCHANGED <<disk, proc, bat, link, hist>>
    BY <1>2 DEF Receive, Answer
  <2>2. /\ up' \in Seq(Message) /\ up' # <<>>
        /\ \A i \in DOMAIN up' : (i \in DOMAIN up /\ up'[i] = up[i]) \/ i = Len(up) + 1
        /\ \A i \in DOMAIN up : i \in DOMAIN up' /\ up'[i] = up[i] /\ Len(up) + 1 > i
        /\ Len(up) + 1 \in DOMAIN up'
        /\ up'[Len(up) + 1] = Report(Target, "already")
        /\ AllNews' = AllNews \cup {Report(Target, "already")}
    BY <2>1, Queued, Answered, MessageIs DEF Outcome
  <2>3. PcShapes'
    BY <2>1, <2>2 DEF PcShapes
  <2>4. ProcessSane'
    BY <2>1 DEF ProcessSane, Updating
  <2>5. MessagesSane'
    BY <1>2, <2>1, MessageIs DEF MessagesSane
  <2>6. FoldersInStep'
    BY <2>1 DEF FoldersInStep
  <2>7. JunkIsHeld'
    BY <2>1 DEF JunkIsHeld
  <2>8. MarkTells'
    BY <2>1 DEF MarkTells
  <2>9. ServiceRuns'
    BY <1>2, <2>1 DEF ServiceRuns, OldOrNew
  <2>10. OnlyConfirmedStays'
    BY <2>1 DEF OnlyConfirmedStays, Only
  <2>11. UndoneIsTrue'
    BY <2>1, <2>2, MessageIs DEF UndoneIsTrue, RolledBackNews
  <2>12. OpeningIsFollowed'
    BY <2>1, MessageIs DEF OpeningIsFollowed, IsFinal
  <2>13. WatchAnswers'
    BY <2>1 DEF WatchAnswers
  <2>14. Grows
    BY <2>1 DEF Grows
  <2>15. SessionTells
    BY <2>1 DEF SessionTells, Greeting
  <2>16. BackIsUndone
    BY <2>1 DEF BackIsUndone
  <2>17. UndoneTravels
    BY <2>1, <2>2 DEF UndoneTravels, OnTheWay, InService, RolledBackNews
  <2>18. EndStaysDue
    BY <2>2, MessageIs DEF EndStaysDue, Pending, FinalNews, IsFinal
  <2> QED  BY <2>3, <2>4, <2>5, <2>6, <2>7, <2>8, <2>9, <2>10, <2>11, <2>12, <2>13, <2>14, <2>15,
       <2>16, <2>17, <2>18 DEF Carries
<1>3. CASE proc.upd = "none" /\ Target # proc.ver
  <2>1. /\ link
        /\ proc' = [proc EXCEPT !.upd = "hold", !.to = Target]
        /\ UNCHANGED <<disk, bat, link, up, hist>>
    BY <1>3 DEF Receive
  <2>2. proc.begun /\ proc.ver = FirstVersion
    BY <1>3, <2>1 DEF PcShapes, Process, OldOrNew
  <2>3. proc' \in Process
    BY <2>1 DEF PcShapes, Process, Update
  <2>4. AllNews' = AllNews
    BY <2>1 DEF AllNews
  <2>5. PcShapes'
    BY <2>1, <2>3 DEF PcShapes
  <2>6. ProcessSane'
    BY <2>1, <2>2 DEF ProcessSane
  <2>7. MessagesSane'
    BY <2>1, <2>4 DEF MessagesSane
  <2>8. FoldersInStep'
    BY <2>1 DEF FoldersInStep
  <2>9. JunkIsHeld'
    BY <2>1 DEF JunkIsHeld
  <2>10. MarkTells'
    BY <2>1 DEF MarkTells
  <2>11. ServiceRuns'
    BY <2>1, <2>2 DEF ServiceRuns, OldOrNew
  <2>12. OnlyConfirmedStays'
    BY <2>1 DEF OnlyConfirmedStays, Only
  <2>13. UndoneIsTrue'
    BY <2>1, <2>4 DEF UndoneIsTrue, RolledBackNews
  <2>14. OpeningIsFollowed'
    BY <2>1 DEF OpeningIsFollowed, Updating
  <2>15. WatchAnswers'
    BY <2>1 DEF WatchAnswers
  <2>16. Grows
    BY <2>1 DEF Grows
  <2>17. SessionTells
    BY <2>1 DEF SessionTells, Greeting
  <2>18. BackIsUndone
    BY <2>1 DEF BackIsUndone
  <2>19. UndoneTravels
    BY <2>1, <2>4 DEF UndoneTravels, OnTheWay, InService, RolledBackNews
  <2>20. EndStaysDue
    BY <2>1 DEF EndStaysDue, Pending, Updating
  <2> QED  BY <2>5, <2>6, <2>7, <2>8, <2>9, <2>10, <2>11, <2>12, <2>13, <2>14, <2>15, <2>16,
       <2>17, <2>18, <2>19, <2>20 DEF Carries
<1> QED  BY <1>1, <1>2, <1>3

(* The heartbeat sends what waited for a session.                          *)
LEMMA FlushKeeps ==
  ASSUME PcIInv, Flush PROVE PcIInv' /\ Carries
<1> USE Names, NothingRuns, Alive DEF PcIInv
<1>1. /\ link
      /\ proc.out # <<>>
      /\ proc' = [proc EXCEPT !.out = Tail(proc.out)]
      /\ up' = Append(up, Head(proc.out))
      /\ UNCHANGED <<disk, bat, link, hist>>
  BY DEF Flush
<1>2. Tail(proc.out) \in Seq(Told) /\ Head(proc.out) \in Told
  BY <1>1 DEF PcShapes, Process
<1>3. Entries(proc.out) = {Head(proc.out)} \cup Entries(Tail(proc.out))
  BY <1>1, EntriesTail DEF PcShapes, Process
<1>4. Head(proc.out) \in Message /\ IsFinal(Head(proc.out)) /\ Head(proc.out).type = "status"
  BY <1>2, MessageIs
<1>5. proc' \in Process
  BY <1>1, <1>2 DEF PcShapes, Process
<1>6. /\ up' \in Seq(Message) /\ up' # <<>>
      /\ \A i \in DOMAIN up' : (i \in DOMAIN up /\ up'[i] = up[i]) \/ i = Len(up) + 1
      /\ \A i \in DOMAIN up : i \in DOMAIN up' /\ up'[i] = up[i] /\ Len(up) + 1 > i
      /\ Len(up) + 1 \in DOMAIN up'
      /\ up'[Len(up) + 1] = Head(proc.out)
      /\ Entries(up') = Entries(up) \cup {Head(proc.out)}
  BY <1>1, <1>4, Queued
<1>7. Entries(proc'.out) \cup Entries(up') = AllNews
  BY <1>1, <1>3, <1>6 DEF AllNews
<1>8. AllNews' = AllNews
  BY <1>7 DEF AllNews
<1>9. PcShapes'
  BY <1>1, <1>5, <1>6 DEF PcShapes
<1>10. ProcessSane'
  BY <1>1 DEF ProcessSane, Updating
<1>11. MessagesSane'
  BY <1>1, <1>4, <1>8 DEF MessagesSane
<1>12. FoldersInStep'
  BY <1>1 DEF FoldersInStep
<1>13. JunkIsHeld'
  BY <1>1 DEF JunkIsHeld
<1>14. MarkTells'
  BY <1>1 DEF MarkTells
<1>15. ServiceRuns'
  BY <1>1 DEF ServiceRuns, Only
<1>16. OnlyConfirmedStays'
  BY <1>1 DEF OnlyConfirmedStays, Only
<1>17. UndoneIsTrue'
  BY <1>1, <1>8 DEF UndoneIsTrue, RolledBackNews
<1>18. OpeningIsFollowed'
  BY <1>4, <1>6 DEF OpeningIsFollowed, IsFinal
<1>19. WatchAnswers'
  BY <1>1 DEF WatchAnswers
<1>20. Grows
  BY <1>1 DEF Grows
<1>21. SessionTells
  BY <1>1, <1>6 DEF SessionTells, Greeting
<1>22. BackIsUndone
  BY <1>1 DEF BackIsUndone
<1>23. UndoneTravels
  BY <1>1, <1>8 DEF UndoneTravels, OnTheWay, InService, RolledBackNews
<1>24. EndStaysDue
  BY <1>4, <1>6, <1>7, <1>8 DEF EndStaysDue, Pending, FinalNews
<1> QED  BY <1>9, <1>10, <1>11, <1>12, <1>13, <1>14, <1>15, <1>16, <1>17, <1>18, <1>19, <1>20,
     <1>21, <1>22, <1>23, <1>24 DEF Carries

(* The center handles a message: it is gone from the session. *)
LEMMA HandleKeeps ==
  ASSUME PcIInv, up # <<>>, up' = Tail(up), UNCHANGED <<disk, proc, bat, link, hist>>
  PROVE  PcIInv'
<1> USE DEF PcIInv
<1>1. up \in Seq(Message)  BY DEF PcShapes
<1>2. /\ up' \in Seq(Message)
      /\ \A i \in DOMAIN up' : i + 1 \in DOMAIN up /\ up'[i] = up[i + 1]
  BY <1>1, EntriesTail
<1>3. Len(up) \in Nat /\ Len(up') = Len(up) - 1 /\ DOMAIN up = 1 .. Len(up) /\ DOMAIN up' = 1 .. Len(up')
  BY <1>1, <1>2, EntriesTail
<1>4. \A i \in DOMAIN up : i \in Nat /\ (i > 1 => i - 1 \in DOMAIN up' /\ up'[i - 1] = up[i])
  <2>1. \A i \in DOMAIN up : i \in Nat /\ (i > 1 => i - 1 \in DOMAIN up' /\ (i - 1) + 1 = i)  BY <1>3
  <2> QED  BY <1>2, <2>1
<1>5. \A i \in DOMAIN up' : i \in Nat /\ i >= 1 /\ i + 1 > 1  BY <1>3
<1>6. Entries(up') \subseteq Entries(up)  BY <1>2 DEF Entries
<1>7. AllNews' \subseteq AllNews  BY <1>6 DEF AllNews, Entries
<1>8. PcShapes'  BY <1>2 DEF PcShapes
<1>9. ProcessSane'
  <2>1. ~link => up = <<>>  BY DEF ProcessSane
  <2> QED  BY <2>1 DEF ProcessSane, Updating
<1>10. MessagesSane'
  <2>1. \A i \in DOMAIN up' : up'[i].type = "hello" => FALSE
    <3> SUFFICES ASSUME NEW i \in DOMAIN up', up'[i].type = "hello" PROVE FALSE  OBVIOUS
    <3>1. i + 1 \in DOMAIN up /\ up[i + 1].type = "hello"  BY <1>2
    <3>2. i + 1 = 1  BY <3>1 DEF MessagesSane
    <3> QED  BY <1>5, <3>2
  <2> QED  BY <1>7, <2>1 DEF MessagesSane
<1>11. FoldersInStep' /\ JunkIsHeld' /\ MarkTells' /\ ServiceRuns' /\ OnlyConfirmedStays' /\ WatchAnswers'
  BY DEF FoldersInStep, JunkIsHeld, MarkTells, ServiceRuns, OnlyConfirmedStays, WatchAnswers, Only
<1>12. UndoneIsTrue'  BY <1>7 DEF UndoneIsTrue, RolledBackNews
<1>13. OpeningIsFollowed'
  <2> SUFFICES ASSUME NEW i \in DOMAIN up', up'[i].outcome \in {"started", "running"}, ~Updating, proc.out = <<>>
               PROVE  \E j \in DOMAIN up' : j > i /\ IsFinal(up'[j])
    BY DEF OpeningIsFollowed, Updating
  <2>1. i + 1 \in DOMAIN up /\ up[i + 1].outcome \in {"started", "running"}  BY <1>2
  <2>2. PICK k \in DOMAIN up : k > i + 1 /\ IsFinal(up[k])  BY <2>1 DEF OpeningIsFollowed
  <2>3. k > 1 /\ k - 1 > i  BY <1>4, <1>5, <2>2
  <2>4. k - 1 \in DOMAIN up' /\ up'[k - 1] = up[k]  BY <1>4, <2>3
  <2> QED  BY <2>2, <2>3, <2>4
<1> QED  BY <1>8, <1>9, <1>10, <1>11, <1>12, <1>13

LEMMA PcUnchanged == ASSUME PcIInv, UNCHANGED pcVars PROVE PcIInv'
<1> USE DEF pcVars, PcIInv
<1>1. PcShapes'  BY DEF PcShapes
<1>2. ProcessSane' /\ MessagesSane' /\ FoldersInStep'
  BY DEF ProcessSane, Updating, MessagesSane, AllNews, FoldersInStep, Entries
<1>3. JunkIsHeld' /\ MarkTells' /\ ServiceRuns' /\ OnlyConfirmedStays' /\ WatchAnswers'
  BY DEF JunkIsHeld, MarkTells, ServiceRuns, OnlyConfirmedStays, WatchAnswers, Only
<1>4. UndoneIsTrue' /\ OpeningIsFollowed'
  BY DEF UndoneIsTrue, RolledBackNews, AllNews, Entries, OpeningIsFollowed, Updating
<1> QED  BY <1>1, <1>2, <1>3, <1>4

-----------------------------------------------------------------------------
(***************************************************************************)
(* The center.                                                             *)
(***************************************************************************)

(* A step of the PC alone keeps what the journal knows. *)
LEMMA CarriedOn ==
  ASSUME ChainIInv, PcIInv', Carries, UNCHANGED centerVars
  PROVE  CenterIInv'
<1> USE Names DEF ChainIInv, CenterIInv, centerVars, Carries
<1>1. CenterShapes'  BY DEF CenterShapes
<1>2. JournalKnows'  BY DEF JournalKnows, Grows, SessionTells, BackIsUndone
<1>3. UndoneIsTold'
  BY DEF UndoneIsTold, Grows, UndoneTravels
<1>4. RollbackIsTerminal'  BY DEF RollbackIsTerminal, Grows
<1>5. OutcomeIsComing'
  BY DEF OutcomeIsComing, Excused, EndStaysDue, Grows, Only
<1> QED  BY <1>1, <1>2, <1>3, <1>4, <1>5

(* A command received runs, or is answered for good. *)
LEMMA ReceivePends ==
  ASSUME PcIInv, PcIInv', Receive(Target) PROVE Pending'
<1>1. CASE proc.upd # "none"
  <2>1. proc' = proc  BY <1>1 DEF Receive
  <2> QED  BY <1>1, <2>1 DEF Pending, Updating
<1>2. CASE proc.upd = "none" /\ Target = proc.ver
  <2>1. up' = Append(up, Report(Target, "already")) /\ proc' = proc  BY <1>2 DEF Receive, Answer
  <2>2. Report(Target, "already") \in Message /\ IsFinal(Report(Target, "already"))
    BY MessageIs DEF Outcome, IsFinal
  <2>3. Report(Target, "already") \in AllNews'  BY <2>1, <2>2, Answered
  <2> QED  BY <2>2, <2>3 DEF Pending, FinalNews
<1>3. CASE proc.upd = "none" /\ Target # proc.ver
  <2>1. proc' = [proc EXCEPT !.upd = "hold", !.to = Target]  BY <1>3 DEF Receive
  <2>2. proc'.upd = "hold"  BY <2>1 DEF PcIInv, PcShapes, Process
  <2> QED  BY <2>2 DEF Pending, Updating
<1> QED  BY <1>1, <1>2, <1>3

(* Where a row of the journal goes. *)
LEMMA RowMoves ==
  ASSUME NEW r \in Row
  PROVE  /\ Commanded(r) \in Row /\ Commanded(r).status = "commanded"
         /\ SendFailed(r) \in Row /\ SendFailed(r).status \in {"none", "failed"}
         /\ Older(r) \in Row /\ Older(r).status = r.status
         /\ \A v, w \in Nat :
              /\ Hello(r, v, w) \in Row
              /\ \/ Hello(r, v, w).status = r.status
                 \/ v = w /\ Hello(r, v, w).status = "installed"
                 \/ w < v /\ r.status = "installed" /\ Hello(r, v, w).status = "rolled_back"
              /\ w < v => Hello(r, v, w).status # "installed"
         /\ Reported(r, "installed").status = "installed" /\ Reported(r, "already").status = "installed"
         /\ Reported(r, "failed").status = "failed" /\ Reported(r, "rolled_back").status = "rolled_back"
         /\ Reported(r, "started").status =
              IF r.status \in {"installed", "rolled_back"} THEN r.status ELSE "started"
         /\ Reported(r, "running").status = IF r.status = "none" THEN "commanded" ELSE r.status
         /\ \A o \in Outcome : Reported(r, o) \in Row
<1>1. Commanded(r) \in Row /\ Commanded(r).status = "commanded"
  BY RowCommanded DEF Commanded
<1>2. SendFailed(r) \in Row /\ SendFailed(r).status \in {"none", "failed"}
  <2>1. CASE r.status = "none"  BY <2>1, RowSendFailed DEF SendFailed
  <2>2. CASE r.status # "none"
    <3> DEFINE n == IF r.attempts > 0 THEN r.attempts - 1 ELSE 0
    <3>1. SendFailed(r) = [r EXCEPT !.status = "failed", !.age = Settling, !.attempts = n]
      BY <2>2 DEF SendFailed
    <3> HIDE DEF n
    <3>2. SendFailed(r).status = "failed"  BY <3>1 DEF Row
    <3> QED  BY <3>2, RowSendFailed
  <2> QED  BY <2>1, <2>2
<1>3. Older(r) \in Row /\ Older(r).status = r.status
  <2>1. CASE r.status \in InFlight \cup {"failed"} /\ r.age # Late
    <3>1. Older(r) = [r EXCEPT !.age = @ + 1]  BY <2>1 DEF Older, InFlight
    <3> QED  BY <3>1, RowOlder DEF Row
  <2>2. CASE ~(r.status \in InFlight \cup {"failed"} /\ r.age # Late) /\ r.status = "installed"
    <3>1. Older(r) = [r EXCEPT !.age = Waiting]  BY <2>2 DEF Older
    <3> QED  BY <3>1, RowOlder DEF Row
  <2>3. CASE ~(r.status \in InFlight \cup {"failed"} /\ r.age # Late) /\ r.status # "installed"
    <3>1. Older(r) = r  BY <2>3 DEF Older
    <3> QED  BY <3>1
  <2> QED  BY <2>1, <2>2, <2>3
<1>4. ASSUME NEW v \in Nat, NEW w \in Nat
      PROVE  /\ Hello(r, v, w) \in Row
             /\ \/ Hello(r, v, w).status = r.status
                \/ v = w /\ Hello(r, v, w).status = "installed"
                \/ w < v /\ r.status = "installed" /\ Hello(r, v, w).status = "rolled_back"
             /\ w < v => Hello(r, v, w).status # "installed"
  <2>1. Hello(r, v, w) \in Row  BY RowHello
  <2>2. CASE v = w /\ r.status \in InFlight \cup {"failed"}
    <3>1. Hello(r, v, w) = [r EXCEPT !.status = "installed", !.age = Settling]  BY <2>2 DEF Hello
    <3>2. Hello(r, v, w).status = "installed"  BY <3>1 DEF Row
    <3> QED  BY <2>1, <2>2, <3>2
  <2>3. CASE ~(v = w /\ r.status \in InFlight \cup {"failed"}) /\ w < v /\ r.status = "installed"
    <3>1. Hello(r, v, w) = [r EXCEPT !.status = "rolled_back", !.age = Settling]  BY <2>3 DEF Hello
    <3>2. Hello(r, v, w).status = "rolled_back"  BY <3>1 DEF Row
    <3> QED  BY <2>1, <2>3, <3>2
  <2>4. CASE ~(v = w /\ r.status \in InFlight \cup {"failed"}) /\ ~(w < v /\ r.status = "installed")
    <3>1. Hello(r, v, w) = r  BY <2>4 DEF Hello
    <3> QED  BY <2>1, <2>4, <3>1
  <2> QED  BY <2>2, <2>3, <2>4
<1> DEFINE f == ForReport(r)
           fresh == [f EXCEPT !.age = Settling]
<1>5. f \in Row /\ fresh \in Row /\ fresh.status = f.status
      /\ f.status = IF r.status = "none" THEN "commanded" ELSE r.status
  <2>1. f \in Row /\ f.status = IF r.status = "none" THEN "commanded" ELSE r.status
    BY DEF ForReport, NoRow, Row, Status, InFlight, Age
  <2> HIDE DEF f
  <2> QED  BY <2>1 DEF Row, Age
<1> HIDE DEF fresh
<1>6. \A s : [fresh EXCEPT !.status = s].status = s  BY <1>5 DEF Row
<1>7. Reported(r, "installed").status = "installed"
  <2>1. Reported(r, "installed") = [fresh EXCEPT !.status = "installed", !.checked = TRUE]
    BY DEF Reported, fresh
  <2> QED  BY <1>5, <2>1 DEF Row
<1>8. Reported(r, "already").status = "installed" /\ Reported(r, "failed").status = "failed"
      /\ Reported(r, "rolled_back").status = "rolled_back"
  <2>1. /\ Reported(r, "already") = [fresh EXCEPT !.status = "installed"]
        /\ Reported(r, "failed") = [fresh EXCEPT !.status = "failed"]
        /\ Reported(r, "rolled_back") = [fresh EXCEPT !.status = "rolled_back"]
    BY DEF Reported, fresh
  <2> QED  BY <1>6, <2>1
<1>9. Reported(r, "started").status = IF r.status \in {"installed", "rolled_back"} THEN r.status ELSE "started"
  <2>1. Reported(r, "started") = [fresh EXCEPT !.status =
          IF fresh.status \in {"installed", "rolled_back"} THEN fresh.status ELSE "started"]
    BY DEF Reported, fresh
  <2> QED  BY <1>5, <1>6, <2>1
<1>10. Reported(r, "running").status = IF r.status = "none" THEN "commanded" ELSE r.status
  <2>1. Reported(r, "running") = f  BY DEF Reported
  <2> QED  BY <1>5, <2>1
<1> QED  BY <1>1, <1>2, <1>3, <1>4, <1>7, <1>8, <1>9, <1>10, RowReported

(* The rows of the other versions are untouched. *)
LEMMA OtherRows ==
  /\ \A v, w : Hello(NoRow, v, w) = NoRow
  /\ Older(NoRow) = NoRow
  /\ NoRow \in Row /\ NoRow.status = "none"
BY DEF Hello, Older, NoRow, InFlight, Row, Status, Age

(* The row of the release is written over. *)
LEMMA OverwriteIs ==
  ASSUME CenterShapes, NEW new \in Row, Overwrite(Target, new)
  PROVE  /\ row' \in [Version -> Row] /\ row'[Target] = new
         /\ \A v \in Version \ {Target} : row'[v] = NoRow
         /\ overtaken \subseteq overtaken' /\ overtaken' \subseteq {Target}
         /\ row[Target].status = "rolled_back" => Target \in overtaken'
<1>1. row' = [row EXCEPT ![Target] = new]  BY DEF Overwrite
<1>2. Target \in Version  BY Names
<1>3. /\ row' \in [Version -> Row] /\ row'[Target] = new
      /\ \A v \in Version \ {Target} : row'[v] = NoRow
  BY <1>1, <1>2 DEF CenterShapes
<1>4. /\ overtaken \subseteq overtaken' /\ overtaken' \subseteq {Target}
      /\ row[Target].status = "rolled_back" => Target \in overtaken'
  BY DEF Overwrite, CenterShapes
<1> QED  BY <1>3, <1>4

LEMMA EnginePlanKeeps == ASSUME ChainIInv, EnginePlan PROVE ChainIInv'
<1> USE Names DEF ChainIInv, CenterIInv
<1>1. /\ engine = NoPlan /\ known < Target /\ ShouldSend(row[Target])
      /\ engine' = [pc |-> "mark", v |-> Target]
      /\ again' = IF Target \in hist.undone /\ ~NewsOf(Target) THEN again \cup {Target} ELSE again
      /\ UNCHANGED <<pcVars, row, known, button, presses, overtaken>>
  BY DEF EnginePlan
<1>2. PcIInv'  BY <1>1, PcUnchanged
<1>3. /\ hist' = hist /\ disk' = disk /\ bat' = bat /\ proc' = proc /\ up' = up /\ link' = link
      /\ row' = row /\ known' = known /\ button' = button /\ presses' = presses /\ overtaken' = overtaken
  BY <1>1 DEF pcVars
<1>4. engine.pc = "idle"  BY <1>1 DEF NoPlan
<1>5. Upgrade
  <2>1. known = FirstVersion \/ known = Target  BY DEF CenterShapes, OldOrNew
  <2> QED  BY <1>1, <2>1 DEF Upgrade
<1>6. engine' \in [pc : {"mark", "send"}, v : {Target}]  BY <1>1
<1>7. CenterShapes'  BY <1>1, <1>3, <1>5, <1>6 DEF CenterShapes, Upgrade
<1>8. JournalKnows'  BY <1>3 DEF JournalKnows, Greeting
<1>9. UndoneIsTold'
  BY <1>3 DEF UndoneIsTold, OnTheWay, InService, RolledBackNews, AllNews, Entries
<1>10. RollbackIsTerminal'
  <2>1. CASE ~(Target \in hist.undone /\ ~NewsOf(Target))
    BY <1>1, <1>3, <2>1 DEF RollbackIsTerminal
  <2>2. CASE Target \in hist.undone /\ ~NewsOf(Target)
    <3>1. disk.rb # Target /\ bat.v # Target  BY <2>2 DEF NewsOf
    <3>2. disk.rb = Absent  BY <3>1 DEF PcIInv, PcShapes, Disk, Update
    <3>3. bat.at \notin Rollback  BY <3>1 DEF PcIInv, FoldersInStep, Rollback
    <3>4. ~RolledBackNews
      <4> SUFFICES ASSUME NEW m \in AllNews, m.outcome = "rolled_back" PROVE FALSE
        BY DEF RolledBackNews
      <4>1. m \in Message /\ m \in Entries(proc.out \o up)  BY AllNewsSeq DEF Entries
      <4>2. m.v = Target  BY <4>1, MessageIs
      <4> QED  BY <2>2, <4>1, <4>2 DEF NewsOf
    <3>5. row[Target].status # "rolled_back"
      BY <1>1 DEF ShouldSend, InFlight
    <3>6. known # Target  BY <1>1
    <3>7. "cut" \in hist.mishaps \/ Target \in hist.lost \cup overtaken
      BY <2>2, <3>2, <3>3, <3>4, <3>5, <3>6 DEF UndoneIsTold, OnTheWay
    <3> QED  BY <1>1, <1>3, <3>7 DEF RollbackIsTerminal
  <2> QED  BY <2>1, <2>2
<1>11. OutcomeIsComing'
  BY <1>3, <1>4 DEF OutcomeIsComing, Excused, Only, Pending, Updating, FinalNews, AllNews, Entries
<1> QED  BY <1>2, <1>7, <1>8, <1>9, <1>10, <1>11

(* Where the PC stands still, what is said of it alone stands. *)
LEMMA PcStands ==
  ASSUME PcIInv, UNCHANGED pcVars
  PROVE  /\ PcIInv' /\ hist' = hist /\ disk' = disk /\ bat' = bat /\ proc' = proc /\ up' = up /\ link' = link
         /\ Greeting' = Greeting /\ OnTheWay' = OnTheWay /\ InService' = InService /\ Pending' = Pending
<1>1. hist' = hist /\ disk' = disk /\ bat' = bat /\ proc' = proc /\ up' = up /\ link' = link
  BY DEF pcVars
<1>2. AllNews' = AllNews  BY <1>1 DEF AllNews, Entries
<1>3. Greeting' = Greeting  BY <1>1 DEF Greeting
<1>4. OnTheWay' = OnTheWay /\ InService' = InService
  BY <1>1, <1>2 DEF OnTheWay, InService, RolledBackNews
<1>5. Pending' = Pending  BY <1>1, <1>2 DEF Pending, Updating, FinalNews
<1> QED  BY <1>1, <1>3, <1>4, <1>5, PcUnchanged

LEMMA EngineMarkKeeps == ASSUME ChainIInv, EngineMark PROVE ChainIInv'
<1> USE Names DEF ChainIInv, CenterIInv
<1>1. engine.pc = "mark" /\ engine.v = Target
  BY DEF EngineMark, CenterShapes, NoPlan
<1> DEFINE new == Commanded(row[Target])
<1>2. row[Target] \in Row  BY DEF CenterShapes
<1>3. new \in Row /\ new.status = "commanded"  BY <1>2, RowMoves
<1>4. /\ Overwrite(Target, new) /\ UNCHANGED <<pcVars, known, button, presses, again>>
      /\ engine' = [engine EXCEPT !.pc = "send"]
  BY <1>1 DEF EngineMark
<1> HIDE DEF new
<1>5. /\ row' \in [Version -> Row] /\ row'[Target] = new
      /\ \A v \in Version \ {Target} : row'[v] = NoRow
      /\ overtaken \subseteq overtaken' /\ overtaken' \subseteq {Target}
      /\ row[Target].status = "rolled_back" => Target \in overtaken'
  BY <1>3, <1>4, OverwriteIs
<1>6. engine' \in [pc : {"mark", "send"}, v : {Target}] /\ engine'.pc = "send" /\ engine # NoPlan
  BY <1>1, <1>4 DEF CenterShapes, NoPlan
<1>7. /\ PcIInv' /\ hist' = hist /\ disk' = disk /\ bat' = bat /\ proc' = proc /\ up' = up /\ link' = link
      /\ Greeting' = Greeting /\ OnTheWay' = OnTheWay /\ InService' = InService /\ Pending' = Pending
  BY <1>4, PcStands
<1>8. CenterShapes'  BY <1>4, <1>5, <1>6 DEF CenterShapes, Upgrade
<1>9. JournalKnows'  BY <1>3, <1>4, <1>5, <1>7 DEF JournalKnows
<1>10. UndoneIsTold'  BY <1>3, <1>4, <1>5, <1>7 DEF UndoneIsTold
<1>11. RollbackIsTerminal'  BY <1>4, <1>5, <1>7 DEF RollbackIsTerminal
<1>12. OutcomeIsComing'  BY <1>4, <1>5, <1>6, <1>7 DEF OutcomeIsComing, Excused, Only
<1> QED  BY <1>7, <1>8, <1>9, <1>10, <1>11, <1>12

LEMMA PressMarkKeeps == ASSUME ChainIInv, PressMark PROVE ChainIInv'
<1> USE Names DEF ChainIInv, CenterIInv
<1>1. button = Target  BY DEF PressMark, CenterShapes, Update
<1> DEFINE new == Commanded(row[Target])
<1>2. row[Target] \in Row  BY DEF CenterShapes
<1>3. new \in Row /\ new.status = "commanded"  BY <1>2, RowMoves
<1>4. Overwrite(Target, new) /\ button' = Absent /\ UNCHANGED <<pcVars, known, engine, presses, again>>
  BY <1>1 DEF PressMark
<1> HIDE DEF new
<1>5. /\ row' \in [Version -> Row] /\ row'[Target] = new
      /\ \A v \in Version \ {Target} : row'[v] = NoRow
      /\ overtaken \subseteq overtaken' /\ overtaken' \subseteq {Target}
      /\ row[Target].status = "rolled_back" => Target \in overtaken'
  BY <1>3, <1>4, OverwriteIs
<1>6. Absent \in Update  BY DEF Update
<1>7. /\ PcIInv' /\ hist' = hist /\ disk' = disk /\ bat' = bat /\ proc' = proc /\ up' = up /\ link' = link
      /\ Greeting' = Greeting /\ OnTheWay' = OnTheWay /\ InService' = InService /\ Pending' = Pending
  BY <1>4, PcStands
<1>8. CenterShapes'  BY <1>4, <1>5, <1>6 DEF CenterShapes, Upgrade
<1>9. JournalKnows'  BY <1>3, <1>4, <1>5, <1>7 DEF JournalKnows
<1>10. UndoneIsTold'  BY <1>3, <1>4, <1>5, <1>7 DEF UndoneIsTold
<1>11. RollbackIsTerminal'  BY <1>4, <1>5, <1>7 DEF RollbackIsTerminal
<1>12. OutcomeIsComing'  BY <1>1, <1>4, <1>5, <1>7 DEF OutcomeIsComing, Excused, Only
<1> QED  BY <1>7, <1>8, <1>9, <1>10, <1>11, <1>12

LEMMA EngineSendKeeps == ASSUME ChainIInv, EngineSend PROVE ChainIInv'
<1> USE Names DEF ChainIInv, CenterIInv
<1>1. engine.pc = "send" /\ engine.v = Target /\ Upgrade /\ engine' = NoPlan
      /\ UNCHANGED <<known, button, presses, again>>
  BY DEF EngineSend, CenterShapes, NoPlan
<1>2. CASE Receive(engine.v) /\ UNCHANGED <<row, overtaken>>
  <2>1. Receive(Target)  BY <1>1, <1>2
  <2>2. PcIInv' /\ Carries  BY <1>1, <2>1, ReceiveKeeps
  <2>3. Pending'  BY <2>1, <2>2, ReceivePends
  <2>4. row' = row /\ overtaken' = overtaken  BY <1>2
  <2> USE DEF Carries
  <2>5. CenterShapes'  BY <1>1, <2>4 DEF CenterShapes, Upgrade
  <2>6. JournalKnows'  BY <1>1, <2>2, <2>4 DEF JournalKnows, Grows, SessionTells, BackIsUndone
  <2>7. UndoneIsTold'  BY <1>1, <2>2, <2>4 DEF UndoneIsTold, Grows, UndoneTravels
  <2>8. RollbackIsTerminal'  BY <1>1, <2>2, <2>4 DEF RollbackIsTerminal, Grows
  <2>9. OutcomeIsComing'  BY <2>3 DEF OutcomeIsComing
  <2> QED  BY <2>2, <2>5, <2>6, <2>7, <2>8, <2>9
<1>3. CASE ~link /\ Overwrite(engine.v, SendFailed(row[engine.v])) /\ UNCHANGED pcVars
  <2> DEFINE new == SendFailed(row[Target])
  <2>1. row[Target] \in Row  BY DEF CenterShapes
  <2>2. new \in Row /\ new.status \in {"none", "failed"}  BY <2>1, RowMoves
  <2>3. Overwrite(Target, new)  BY <1>1, <1>3
  <2> HIDE DEF new
  <2>4. /\ row' \in [Version -> Row] /\ row'[Target] = new
        /\ \A v \in Version \ {Target} : row'[v] = NoRow
        /\ overtaken \subseteq overtaken' /\ overtaken' \subseteq {Target}
        /\ row[Target].status = "rolled_back" => Target \in overtaken'
    BY <2>2, <2>3, OverwriteIs
  <2>5. /\ PcIInv' /\ hist' = hist /\ disk' = disk /\ bat' = bat /\ proc' = proc /\ up' = up /\ link' = link
        /\ Greeting' = Greeting /\ OnTheWay' = OnTheWay /\ InService' = InService /\ Pending' = Pending
    BY <1>3, PcStands
  <2>6. CenterShapes'  BY <1>1, <2>4 DEF CenterShapes, Upgrade
  <2>7. JournalKnows'  BY <1>1, <1>3, <2>2, <2>4, <2>5 DEF JournalKnows
  <2>8. UndoneIsTold'  BY <1>1, <2>2, <2>4, <2>5 DEF UndoneIsTold
  <2>9. RollbackIsTerminal'  BY <1>1, <2>4, <2>5 DEF RollbackIsTerminal
  <2>10. row'[Target].status \notin InFlight  BY <2>2, <2>4 DEF InFlight
  <2>11. OutcomeIsComing'  BY <1>1, <2>4, <2>5, <2>10 DEF OutcomeIsComing, Excused, Only
  <2> QED  BY <2>5, <2>6, <2>7, <2>8, <2>9, <2>11
<1> QED  BY <1>2, <1>3 DEF EngineSend

LEMMA PressSendKeeps == ASSUME ChainIInv, PressSend PROVE ChainIInv'
<1> USE Names DEF ChainIInv, CenterIInv, Carries
<1>1. /\ known < Target /\ Receive(Target) /\ button' = Target /\ presses' = presses + 1
      /\ UNCHANGED <<row, known, engine, again, overtaken>>
  BY DEF PressSend
<1>2. Upgrade
  <2>1. known = FirstVersion \/ known = Target  BY DEF CenterShapes, OldOrNew
  <2> QED  BY <1>1, <2>1 DEF Upgrade
<1>3. PcIInv' /\ Carries  BY <1>1, <1>2, ReceiveKeeps
<1>4. Pending'  BY <1>1, <1>3, ReceivePends
<1>5. presses' \in Nat /\ button' \in Update  BY <1>1 DEF CenterShapes, Update
<1>6. CenterShapes'  BY <1>1, <1>2, <1>5 DEF CenterShapes, Upgrade
<1>7. JournalKnows'  BY <1>1, <1>3 DEF JournalKnows, Grows, SessionTells, BackIsUndone
<1>8. UndoneIsTold'  BY <1>1, <1>3 DEF UndoneIsTold, Grows, UndoneTravels
<1>9. RollbackIsTerminal'  BY <1>1, <1>3 DEF RollbackIsTerminal, Grows
<1>10. OutcomeIsComing'  BY <1>4 DEF OutcomeIsComing
<1> QED  BY <1>3, <1>6, <1>7, <1>8, <1>9, <1>10

LEMMA TimePassesKeeps ==
  ASSUME ChainIInv, NEW v \in Version, TimePasses(v) PROVE ChainIInv'
<1> USE Names DEF ChainIInv, CenterIInv
<1>1. /\ Older(row[v]) # row[v] /\ row' = [row EXCEPT ![v] = Older(@)]
      /\ UNCHANGED <<pcVars, known, engine, button, presses, again, overtaken>>
  BY DEF TimePasses
<1>2. v = Target  BY <1>1, OtherRows DEF CenterShapes
<1>3. row[Target] \in Row  BY DEF CenterShapes
<1>4. Older(row[Target]) \in Row /\ Older(row[Target]).status = row[Target].status  BY <1>3,
     RowMoves
<1>5. /\ row' \in [Version -> Row] /\ row'[Target] = Older(row[Target])
      /\ \A w \in Version \ {Target} : row'[w] = NoRow
  BY <1>1, <1>2, <1>4 DEF CenterShapes
<1>6. row'[Target].status = row[Target].status  BY <1>4, <1>5
<1>7. /\ PcIInv' /\ hist' = hist /\ disk' = disk /\ bat' = bat /\ proc' = proc /\ up' = up /\ link' = link
      /\ Greeting' = Greeting /\ OnTheWay' = OnTheWay /\ InService' = InService /\ Pending' = Pending
  BY <1>1, PcStands
<1>8. CenterShapes'  BY <1>1, <1>5 DEF CenterShapes, Upgrade
<1>9. JournalKnows'  BY <1>1, <1>6, <1>7 DEF JournalKnows
<1>10. UndoneIsTold'  BY <1>1, <1>6, <1>7 DEF UndoneIsTold
<1>11. RollbackIsTerminal'  BY <1>1, <1>7 DEF RollbackIsTerminal
<1>12. OutcomeIsComing'  BY <1>1, <1>6, <1>7 DEF OutcomeIsComing, Excused, Only
<1> QED  BY <1>7, <1>8, <1>9, <1>10, <1>11, <1>12

(* The hello of a session: the agent runs what lies in its folder. *)
LEMMA HelloKeeps ==
  ASSUME ChainIInv, Handle, Head(up).type = "hello" PROVE ChainIInv'
<1> USE Names DEF ChainIInv, CenterIInv
<1> DEFINE m == Head(up)
           w == proc.ver
<1>1. /\ up # <<>> /\ up' = Tail(up) /\ known' = m.v
      /\ row' = [v \in Version |-> Hello(row[v], v, m.v)]
      /\ UNCHANGED <<disk, proc, bat, link, hist, engine, button, presses, again, overtaken>>
  BY DEF Handle
<1>2. PcIInv'  BY <1>1, HandleKeeps
<1>3. up \in Seq(Message)  BY DEF PcIInv, PcShapes
<1>4. /\ m = up[1] /\ 1 \in DOMAIN up /\ m \in Message /\ Entries(up) = {m} \cup Entries(up')
      /\ \A i \in DOMAIN up' : i + 1 \in DOMAIN up /\ up'[i] = up[i + 1]
  BY <1>1, <1>3, EntriesTail
<1>5. m.v = w /\ m.outcome = "none"  BY <1>4, MessageIs DEF PcIInv, MessagesSane
<1>6. link  BY <1>1 DEF PcIInv, ProcessSane
<1>7. w # Absent /\ w = disk.app /\ bat.at \notin Stopped  BY <1>2, <1>6, Alive
<1>8. w \in OldOrNew /\ w \in Nat  BY <1>7 DEF PcIInv, PcShapes, Process, OldOrNew
<1> HIDE DEF m, w
<1>9. row[Target] \in Row /\ Target \in Nat  BY DEF CenterShapes
<1>10. row'[Target] = Hello(row[Target], Target, w)  BY <1>1, <1>5
<1>11. /\ row'[Target] \in Row
       /\ \/ row'[Target].status = row[Target].status
          \/ Target = w /\ row'[Target].status = "installed"
          \/ w < Target /\ row[Target].status = "installed" /\ row'[Target].status = "rolled_back"
       /\ w < Target => row'[Target].status # "installed"
  <2> DEFINE r == row[Target]
  <2>1. /\ Hello(r, Target, w) \in Row
        /\ \/ Hello(r, Target, w).status = r.status
           \/ Target = w /\ Hello(r, Target, w).status = "installed"
           \/ w < Target /\ r.status = "installed" /\ Hello(r, Target, w).status = "rolled_back"
        /\ w < Target => Hello(r, Target, w).status # "installed"
    BY <1>8, <1>9, RowMoves
  <2> QED  BY <1>10, <2>1
<1>12. row' \in [Version -> Row] /\ \A v \in Version \ {Target} : row'[v] = NoRow
  <2>1. \A v \in Version \ {Target} : row'[v] = NoRow  BY <1>1, OtherRows DEF CenterShapes
  <2>2. \A v \in Version : row'[v] \in Row  BY <1>11, <2>1, OtherRows
  <2> QED  BY <1>1, <2>1, <2>2
<1>13. w # Target => w < Target /\ w = FirstVersion /\ Upgrade  BY <1>8 DEF OldOrNew, Upgrade
<1>14. CenterShapes'  BY <1>1, <1>5, <1>8, <1>12 DEF CenterShapes, Upgrade
<1>15. JournalKnows'
  <2>1. known' = w /\ proc' = proc /\ disk' = disk /\ hist' = hist  BY <1>1, <1>5
  <2>2. row'[Target].status = "installed" => w = Target  BY <1>11, <1>13
  <2>3. row'[Target].status = "rolled_back" => Target \in hist.undone
    <3>1. w < Target /\ row[Target].status = "installed" => Target \in hist.undone
      <4>1. w < Target => w # Target  BY <1>8
      <4> QED  BY <1>7, <1>13, <4>1 DEF JournalKnows
    <3> QED  BY <1>11, <3>1 DEF JournalKnows
  <2>4. Upgrade => FirstVersion # Target  OBVIOUS
  <2> QED  BY <1>7, <2>1, <2>2, <2>3, <2>4 DEF JournalKnows, w
<1>16. RolledBackNews => RolledBackNews'
  <2>1. AllNews = AllNews' \cup {m}  BY <1>1, <1>4 DEF AllNews, Entries
  <2> QED  BY <1>5, <2>1 DEF RolledBackNews
<1>17. FinalNews => FinalNews'
  <2>1. AllNews = AllNews' \cup {m}  BY <1>1, <1>4 DEF AllNews, Entries
  <2> QED  BY <1>5, <2>1 DEF FinalNews, IsFinal
<1>18. OnTheWay => OnTheWay'  BY <1>1, <1>16 DEF OnTheWay
<1>19. row[Target].status = "rolled_back" => row'[Target].status = "rolled_back" \/ w = Target
  BY <1>11
<1>20. UndoneIsTold'
  <2>1. w = Target => InService' \/ OnTheWay'
    <3>1. ASSUME w = Target PROVE bat.at \in {"idle", "verify"} \cup Rollback
      <4>1. bat.at \in Label  BY DEF PcIInv, PcShapes
      <4>2. bat.at \notin Forward  BY <1>7, <3>1 DEF PcIInv, FoldersInStep, Forward
      <4> QED  BY <1>7, <4>1, <4>2 DEF Label, Forward, Stopped, Rollback
    <3> QED  BY <1>1, <1>7, <3>1 DEF InService, OnTheWay
  <2>2. InService => w = Target  BY <1>7 DEF InService
  <2> QED  BY <1>1, <1>5, <1>18, <1>19, <2>1, <2>2 DEF UndoneIsTold
<1>21. RollbackIsTerminal'  BY <1>1 DEF RollbackIsTerminal
<1>22. OutcomeIsComing'
  <2>1. row'[Target].status \in InFlight => row[Target].status \in InFlight
    BY <1>11 DEF InFlight
  <2>2. Pending => Pending'  BY <1>1, <1>17 DEF Pending, Updating
  <2> QED  BY <1>1, <2>1, <2>2 DEF OutcomeIsComing, Excused, Only
<1> QED  BY <1>2, <1>14, <1>15, <1>20, <1>21, <1>22

(* A report of the agent: how the update stands or ended. *)
LEMMA ReportKeeps ==
  ASSUME ChainIInv, Handle, Head(up).type # "hello" PROVE ChainIInv'
<1> USE Names DEF ChainIInv, CenterIInv
<1> DEFINE m == Head(up)
           o == m.outcome
<1>1. /\ up # <<>> /\ up' = Tail(up) /\ known' = known
      /\ row' = [row EXCEPT ![m.v] = Reported(@, m.outcome)]
      /\ overtaken' = IF button = m.v \/ Undoes(m.outcome, row[m.v]) THEN overtaken \cup {m.v} ELSE overtaken
      /\ UNCHANGED <<disk, proc, bat, link, hist, engine, button, presses, again>>
  BY DEF Handle
<1>2. PcIInv'  BY <1>1, HandleKeeps
<1>3. up \in Seq(Message)  BY DEF PcIInv, PcShapes
<1>4. /\ m = up[1] /\ 1 \in DOMAIN up /\ m \in Message /\ Entries(up) = {m} \cup Entries(up')
      /\ \A i \in DOMAIN up' : i + 1 \in DOMAIN up /\ up'[i] = up[i + 1]
  BY <1>1, <1>3, EntriesTail
<1>5. m.v = Target /\ o \in Outcome /\ m.type = "status"  BY <1>4, MessageIs
<1>6. link  BY <1>1 DEF PcIInv, ProcessSane
<1>7. proc.ver # Absent /\ proc.ver = disk.app /\ bat.at \notin Stopped  BY <1>2, <1>6, Alive
<1>8. ~Greeting /\ ~Greeting'
  <2>1. ~Greeting
    <3>1. \A i \in DOMAIN up : up[i].type = "hello" => i = 1  BY DEF PcIInv, MessagesSane
    <3> QED  BY <1>4, <3>1 DEF Greeting
  <2>2. \A i \in DOMAIN up' : up'[i].type # "hello"  BY <1>4, <2>1 DEF Greeting
  <2> QED  BY <2>1, <2>2 DEF Greeting
<1>9. m \in AllNews /\ AllNews = AllNews' \cup {m}
  <2>1. AllNews = AllNews' \cup {m}  BY <1>1, <1>4 DEF AllNews, Entries
  <2> QED  BY <2>1
<1>10. o \in {"installed", "already"} => proc.ver = Target  BY <1>9 DEF PcIInv, MessagesSane
<1>11. row[Target] \in Row  BY DEF CenterShapes
<1> HIDE DEF m
<1>12. row' = [row EXCEPT ![Target] = Reported(row[Target], o)]  BY <1>1, <1>5
<1>13. /\ overtaken \subseteq overtaken' /\ overtaken' \subseteq {Target}
       /\ button = Target \/ (o = "failed" /\ row[Target].status = "rolled_back") => Target \in overtaken'
  BY <1>1, <1>5 DEF Undoes, CenterShapes
<1> DEFINE s == row[Target].status
           t == row'[Target].status
<1> HIDE DEF o
<1>14. /\ row' \in [Version -> Row] /\ row'[Target] = Reported(row[Target], o)
       /\ \A v \in Version \ {Target} : row'[v] = NoRow
  <2>1. Reported(row[Target], o) \in Row  BY <1>5, <1>11, RowMoves
  <2> QED  BY <1>12, <2>1 DEF CenterShapes
<1>15. t = CASE o = "running" -> IF s = "none" THEN "commanded" ELSE s
             [] o = "started" -> IF s \in {"installed", "rolled_back"} THEN s ELSE "started"
             [] o \in {"installed", "already"} -> "installed"
             [] o = "failed" -> "failed"
             [] o = "rolled_back" -> "rolled_back"
  BY <1>5, <1>11, <1>14, RowMoves DEF Outcome
<1>16. o \in {"running", "started", "installed", "already", "failed", "rolled_back"}
  BY <1>5 DEF Outcome
<1>17. /\ t = "installed" => s = "installed" \/ proc.ver = Target
       /\ t = "rolled_back" => s = "rolled_back" \/ o = "rolled_back"
       /\ t \in InFlight => o \in {"started", "running"}
       /\ s = "rolled_back" => t = "rolled_back" \/ proc.ver = Target \/ o = "failed"
       /\ o = "rolled_back" => t = "rolled_back"
  BY <1>10, <1>15, <1>16 DEF InFlight
<1> HIDE DEF s, t
<1>18. CenterShapes'  BY <1>1, <1>13, <1>14 DEF CenterShapes, Upgrade
<1>19. o = "rolled_back" => Target \in hist.undone
  BY <1>9 DEF PcIInv, UndoneIsTrue, RolledBackNews, o
<1>20. JournalKnows'
  <2>1. known = proc.ver /\ (s = "installed" => proc.ver = Target)
    BY <1>6, <1>8 DEF JournalKnows, s
  <2>2. proc.ver = Target /\ Upgrade => disk.app # FirstVersion  BY <1>7
  <2>3. t = "rolled_back" => Target \in hist.undone  BY <1>17, <1>19 DEF JournalKnows, s
  <2> QED  BY <1>1, <1>17, <2>1, <2>2, <2>3 DEF JournalKnows, t
<1>21. RolledBackNews => RolledBackNews' \/ t = "rolled_back"
  BY <1>9, <1>17 DEF RolledBackNews, o
<1>22. OnTheWay => OnTheWay' \/ t = "rolled_back"  BY <1>1, <1>21 DEF OnTheWay
<1>23. proc.ver = Target => InService' \/ OnTheWay'
  <2>1. ASSUME proc.ver = Target PROVE bat.at \in {"idle", "verify"} \cup Rollback
    <3>1. bat.at \in Label  BY DEF PcIInv, PcShapes
    <3>2. bat.at \notin Forward  BY <1>7, <2>1 DEF PcIInv, FoldersInStep, Forward
    <3> QED  BY <1>7, <3>1, <3>2 DEF Label, Forward, Stopped, Rollback
  <2> QED  BY <1>1, <1>7, <2>1 DEF InService, OnTheWay
<1>24. UndoneIsTold'
  <2>1. known' = proc.ver  BY <1>1, <1>6, <1>8 DEF JournalKnows
  <2>2. InService => proc.ver = Target  BY <1>7 DEF InService
  <2>3. s = "rolled_back" => t = "rolled_back" \/ proc.ver = Target \/ Target \in overtaken'
    BY <1>13, <1>17 DEF s
  <2>4. Target \in hist.undone =>
          OnTheWay \/ Target \in overtaken \/ s = "rolled_back" \/ (known = Target /\ InService)
    BY DEF UndoneIsTold, s
  <2>5. hist' = hist  BY <1>1
  <2>6. Target \in hist.undone =>
          OnTheWay' \/ Target \in overtaken' \/ t = "rolled_back" \/ (known' = Target /\ InService')
    BY <1>13, <1>22, <1>23, <2>1, <2>2, <2>3, <2>4
  <2> QED  BY <2>5, <2>6 DEF UndoneIsTold, t
<1>25. RollbackIsTerminal'  BY <1>1, <1>13 DEF RollbackIsTerminal
<1>26. OutcomeIsComing'
  <2>1. t \in InFlight => Pending'
    <3> SUFFICES ASSUME o \in {"started", "running"}, ~Updating PROVE FinalNews'
      BY <1>1, <1>17 DEF Pending, Updating
    <3>1. (\E j \in DOMAIN up : j > 1 /\ IsFinal(up[j])) \/ proc.out # <<>>
      BY <1>4 DEF PcIInv, OpeningIsFollowed, o
    <3>2. CASE \E j \in DOMAIN up : j > 1 /\ IsFinal(up[j])
      <4>1. PICK j \in DOMAIN up : j > 1 /\ IsFinal(up[j])  BY <3>2
      <4>2. j - 1 \in DOMAIN up' /\ up'[j - 1] = up[j]
        <5>1. Len(up) \in Nat /\ DOMAIN up = 1 .. Len(up)  BY <1>3
        <5>2. Len(up') = Len(up) - 1 /\ up' \in Seq(Message)  BY <1>1, <1>3, EntriesTail
        <5>3. DOMAIN up' = 1 .. (Len(up) - 1)  BY <5>2
        <5>4. j - 1 \in DOMAIN up' /\ (j - 1) + 1 = j  BY <4>1, <5>1, <5>3
        <5> QED  BY <1>4, <5>4
      <4>3. up'[j - 1] \in AllNews' /\ IsFinal(up'[j - 1])
        BY <4>1, <4>2 DEF AllNews, Entries
      <4> QED  BY <4>3 DEF FinalNews
    <3>3. CASE proc.out # <<>>
      <4>1. proc.out \in Seq(Told)  BY DEF PcIInv, PcShapes, Process
      <4>2. Head(proc.out) \in Told /\ Head(proc.out) \in Entries(proc.out)
        BY <3>3, <4>1, EntriesTail
      <4>3. Head(proc.out) \in AllNews'  BY <1>1, <4>2 DEF AllNews, Entries
      <4> QED  BY <4>2, <4>3, MessageIs DEF FinalNews
    <3> QED  BY <3>1, <3>2, <3>3
  <2>2. button' # Absent => Target \in overtaken'
    BY <1>1, <1>13 DEF CenterShapes, Update
  <2> QED  BY <1>1, <1>13, <2>1, <2>2 DEF OutcomeIsComing, Excused, t
<1> QED  BY <1>2, <1>18, <1>20, <1>24, <1>25, <1>26

(* A step of the PC. *)
LEMMA PcStepKeeps == ASSUME PcIInv, PcStep PROVE PcIInv' /\ Carries
<1>1. CASE Batch
  BY <1>1, BatUnpackKeeps, BatStopKeeps, BatCleanKeeps, BatSwapOutKeeps, BatSwapInKeeps,
     BatStartKeeps, BatVerifyKeeps, BatRollbackCleanKeeps, BatRollbackOutKeeps,
     BatRollbackInKeeps, BatRollbackStartKeeps
     DEF Batch
<1>2. CASE AgentStep
  BY <1>2, ConnectKeeps, FlushKeeps, HoldRefusesKeeps, HoldEndsKeeps, PrepareKeeps,
     PrepareFailsKeeps, CommitKeeps, SpawnKeeps, WatchdogKeeps, SelfCheckBeginsKeeps,
     SelfCheckPassesKeeps, SelfCheckFailsKeeps, SettleKeeps
     DEF AgentStep
<1>3. CASE Drop \/ PowerCut \/ ProcessFalls
  BY <1>3, DropKeeps, PowerCutKeeps, ProcessFallsKeeps
<1> QED  BY <1>1, <1>2, <1>3 DEF PcStep

LEMMA ChainStarts == Init => ChainIInv
<1> SUFFICES ASSUME Init PROVE ChainIInv  OBVIOUS
<1> USE Names
<1>1. /\ disk = [app |-> FirstVersion, new |-> Absent, old |-> FirstVersion - 1, bad |-> Absent,
                 zip |-> Absent, ctx |-> NoContext, ok |-> FALSE, fail |-> FALSE, rb |-> Absent]
      /\ proc = [Started(FirstVersion) EXCEPT !.begun = TRUE]
      /\ bat = NoBatch /\ link = TRUE /\ up = <<>>
      /\ hist = [count |-> 0, mishaps |-> {}, good |-> 1 .. FirstVersion, undone |-> {}, lost |-> {}]
      /\ row = [v \in Version |-> NoRow] /\ known = FirstVersion /\ engine = NoPlan
      /\ button = Absent /\ presses = 0 /\ again = {} /\ overtaken = {}
  BY DEF Init, PcInit
<1>2. Started(FirstVersion) \in Process  BY NothingRuns DEF OldOrNew
<1>3. /\ proc \in Process /\ proc.ver = FirstVersion /\ proc.begun /\ proc.check = "idle"
      /\ proc.upd = "none" /\ proc.to = Absent /\ proc.spawn = FALSE /\ proc.watch = Absent
      /\ proc.out = <<>>
  BY <1>1, <1>2, NothingRuns DEF Process
<1>4. FirstVersion - 1 \in Folder /\ FirstVersion \in 1 .. FirstVersion
      /\ 1 .. FirstVersion \subseteq Version
  BY Numbers DEF Absent, Junk
<1>5. disk \in Disk
  BY <1>1, <1>4 DEF Disk, OldOrNew, Update
<1>6. hist \in History  BY <1>1, <1>4 DEF History
<1>7. bat.at = "idle" /\ bat \in [at : Label, v : Update]
  BY <1>1 DEF NoBatch, Label, Update
<1>8. up \in Seq(Message)
  <2>1. <<>> \in Seq(Message)  OBVIOUS
  <2> QED  BY <1>1, <2>1
<1>9. AllNews = {} /\ DOMAIN up = {}
  <2>1. DOMAIN up = {}  BY <1>1
  <2> QED  BY <1>1, <1>3, <2>1, EntriesNone DEF AllNews
<1>10. disk.app = FirstVersion /\ ~disk.ok /\ disk.rb = Absent /\ disk.ctx = NoContext  BY <1>1
<1>11. hist.mishaps = {} /\ hist.undone = {} /\ hist.good = 1 .. FirstVersion  BY <1>1
<1>12. PcIInv
  <2>1. PcShapes  BY <1>1, <1>3, <1>5, <1>6, <1>7, <1>8 DEF PcShapes
  <2>2. ProcessSane  BY <1>1, <1>3, <1>10 DEF ProcessSane, Updating
  <2>3. MessagesSane  BY <1>9 DEF MessagesSane
  <2>4. FoldersInStep /\ JunkIsHeld /\ MarkTells
    BY <1>3, <1>4, <1>7, <1>10, <1>11
       DEF FoldersInStep, JunkIsHeld, MarkTells, Stopped, Forward
  <2>5. ServiceRuns /\ OnlyConfirmedStays
    BY <1>3, <1>4, <1>10, <1>11 DEF ServiceRuns, OnlyConfirmedStays, OldOrNew
  <2>6. UndoneIsTrue  BY <1>7, <1>9, <1>10 DEF UndoneIsTrue, RolledBackNews
  <2>7. OpeningIsFollowed  BY <1>9 DEF OpeningIsFollowed
  <2>8. WatchAnswers  BY <1>3, <1>7, <1>10 DEF WatchAnswers, Forward
  <2> QED  BY <2>1, <2>2, <2>3, <2>4, <2>5, <2>6, <2>7, <2>8 DEF PcIInv
<1>13. NoRow \in Row /\ NoRow.status = "none"  BY DEF NoRow, Row, Status, InFlight, Age
<1>14. row[Target] = NoRow  BY <1>1
<1>15. CenterIInv
  <2>1. CenterShapes
    BY <1>1, <1>13 DEF CenterShapes, OldOrNew, Update
  <2>2. JournalKnows  BY <1>1, <1>3, <1>13, <1>14 DEF JournalKnows
  <2>3. UndoneIsTold  BY <1>11 DEF UndoneIsTold
  <2>4. RollbackIsTerminal  BY <1>1 DEF RollbackIsTerminal
  <2>5. OutcomeIsComing  BY <1>1, <1>13, <1>14 DEF OutcomeIsComing, InFlight
  <2> QED  BY <2>1, <2>2, <2>3, <2>4, <2>5 DEF CenterIInv
<1> QED  BY <1>12, <1>15 DEF ChainIInv

LEMMA ChainStep == ChainIInv /\ [Next]_vars => ChainIInv'
<1> SUFFICES ASSUME ChainIInv, [Next]_vars PROVE ChainIInv'  OBVIOUS
<1>1. CASE PcStep /\ UNCHANGED centerVars
  <2>1. PcIInv' /\ Carries  BY <1>1, PcStepKeeps DEF ChainIInv
  <2> QED  BY <1>1, <2>1, CarriedOn DEF ChainIInv
<1>2. CASE Center
  BY <1>2, EnginePlanKeeps, EngineMarkKeeps, EngineSendKeeps, PressSendKeeps, PressMarkKeeps,
     HelloKeeps, ReportKeeps DEF Center
<1>3. CASE \E v \in Version : TimePasses(v)
  BY <1>3, TimePassesKeeps
<1>4. CASE UNCHANGED vars
  <2>1. UNCHANGED pcVars /\ UNCHANGED centerVars  BY <1>4 DEF vars
  <2>2. /\ PcIInv' /\ hist' = hist /\ disk' = disk /\ proc' = proc /\ link' = link
        /\ Greeting' = Greeting /\ OnTheWay' = OnTheWay /\ InService' = InService /\ Pending' = Pending
    BY <2>1, PcStands DEF ChainIInv
  <2>3. Carries
    BY <2>2 DEF Carries, Grows, SessionTells, BackIsUndone, UndoneTravels, EndStaysDue
  <2> QED  BY <2>1, <2>2, <2>3, CarriedOn DEF ChainIInv
<1> QED  BY <1>1, <1>2, <1>3, <1>4 DEF Next

(* What the invariant says of the chain. *)
LEMMA ChainIsPromised == ASSUME ChainIInv PROVE ChainInv
<1> USE Names DEF ChainIInv
<1>1. /\ disk \in Disk /\ proc \in Process /\ bat \in [at : Label, v : Update]
      /\ hist \in History /\ link \in BOOLEAN
  BY DEF PcIInv, PcShapes
<1>2. Update \subseteq 0 .. LastVersion /\ OldOrNew \subseteq Version
  BY Numbers DEF Update, OldOrNew, Absent, Target
<1>3. TypeOK
  <2>1. /\ disk.app \in Folder /\ disk.new \in Folder /\ disk.old \in Folder /\ disk.bad \in Folder
        /\ disk.zip \in 0 .. LastVersion /\ disk.rb \in 0 .. LastVersion
        /\ disk.ok \in BOOLEAN /\ disk.fail \in BOOLEAN
    BY <1>1, <1>2 DEF Disk, Update, OldOrNew
  <2>2. disk.ctx \in [from : 0 .. LastVersion, to : 0 .. LastVersion]
    <3>1. {Absent, FirstVersion, Target} \subseteq 0 .. LastVersion  BY Numbers DEF Absent, Target
    <3>2. NoContext \in [from : 0 .. LastVersion, to : 0 .. LastVersion]  BY <3>1 DEF NoContext
    <3>3. ToTarget \in [from : 0 .. LastVersion, to : 0 .. LastVersion]  BY <3>1 DEF ToTarget
    <3> QED  BY <1>1, <3>2, <3>3 DEF Disk
  <2>3. disk = [app |-> disk.app, new |-> disk.new, old |-> disk.old, bad |-> disk.bad,
                zip |-> disk.zip, ctx |-> disk.ctx, ok |-> disk.ok, fail |-> disk.fail, rb |-> disk.rb]
    BY <1>1 DEF Disk
  <2>4. disk \in [app : Folder, new : Folder, old : Folder, bad : Folder,
                  zip : 0 .. LastVersion, ctx : [from : 0 .. LastVersion, to : 0 .. LastVersion],
                  ok : BOOLEAN, fail : BOOLEAN, rb : 0 .. LastVersion]
    BY <2>1, <2>2, <2>3
  <2>5. proc.ver \in 0 .. LastVersion /\ proc.to \in 0 .. LastVersion
    <3>1. {Absent, FirstVersion, Target} \subseteq 0 .. LastVersion  BY Numbers DEF Absent, Target
    <3> QED  BY <1>1, <3>1 DEF Process, OldOrNew, Update
  <2>6. proc.check \in {"idle", "pending", "ok", "failed"} /\ proc.upd \in {"none", "hold", "prepare", "ready"}
    BY <1>1 DEF Process
  <2>7. bat \in [at : Label, v : 0 .. LastVersion]  BY <1>1, <1>2
  <2>8. link => proc.ver # Absent  BY Alive
  <2>9. PcTypeOK  BY <1>1, <2>4, <2>5, <2>6, <2>7, <2>8 DEF PcTypeOK
  <2>10. /\ row \in [Version -> Row] /\ known \in Version /\ button \in 0 .. LastVersion
         /\ again \subseteq Version /\ overtaken \subseteq Version
    BY <1>2 DEF CenterIInv, CenterShapes
  <2>11. engine \in [pc : {"idle", "mark", "send"}, v : 0 .. LastVersion]
    <3>1. Target \in 0 .. LastVersion /\ Absent \in 0 .. LastVersion  BY <1>2 DEF Update
    <3> QED  BY <3>1 DEF CenterIInv, CenterShapes, NoPlan
  <2> QED  BY <2>9, <2>10, <2>11 DEF TypeOK
<1>4. AgentSurvives
  BY <1>2 DEF AgentSurvives, PcIInv, ServiceRuns
<1>5. OnlyConfirmedStays /\ RollbackIsTerminal  BY DEF PcIInv, CenterIInv
<1>6. JournalTellsOutcome
  <2> SUFFICES ASSUME Quiet, NEW v \in Version
               PROVE  /\ row[v].status = "installed" => proc.ver >= v
                      /\ row[v].status \in InFlight => v \in hist.lost \cup overtaken \/ ~Only({"held", "stuck"})
                      /\ row[v].status = "rolled_back" => v \in hist.undone
    BY DEF JournalTellsOutcome
  <2>1. CASE v # Target
    <3>1. row[v] = NoRow  BY <2>1 DEF CenterIInv, CenterShapes
    <3> QED  BY <3>1 DEF NoRow, InFlight
  <2>2. CASE v = Target
    <3>1. up = <<>> /\ link /\ ~Greeting  BY DEF Quiet, Greeting
    <3>2. row[Target].status = "installed" => proc.ver = Target
      BY <3>1 DEF CenterIInv, JournalKnows
    <3>3. AllNews = {}  BY EntriesNone DEF Quiet, AllNews
    <3>4. ~Pending  BY <3>3 DEF Quiet, Pending, Updating, FinalNews
    <3>5. engine.pc # "send"  BY DEF Quiet, NoPlan
    <3>6. row[Target].status \in InFlight => Target \in hist.lost \cup overtaken \/ ~Only({"held", "stuck"})
      BY <3>4, <3>5 DEF CenterIInv, OutcomeIsComing, Excused
    <3>7. row[Target].status = "rolled_back" => Target \in hist.undone
      BY DEF CenterIInv, JournalKnows
    <3>8. proc.ver = Target => proc.ver >= v  BY <2>2
    <3> QED  BY <2>2, <3>2, <3>6, <3>7, <3>8
  <2> QED  BY <2>1, <2>2
<1> QED  BY <1>3, <1>4, <1>5, <1>6 DEF ChainInv

(* An update of one PC, cut off wherever it is: the PC keeps a working and *)
(* confirmed version, the engine sends no version again whose rollback it  *)
(* could know of, and a journal at rest tells what the PC came to.         *)
THEOREM ChainInvariant == Spec => []ChainInv
<1>1. ChainIInv => ChainInv  BY ChainIsPromised
<1> QED  BY <1>1, ChainStarts, ChainStep, PTL DEF Spec

=============================================================================
