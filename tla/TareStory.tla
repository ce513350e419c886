------------------------------ MODULE TareStory ------------------------------
(***************************************************************************)
(* The rule of the tare over time: one pair of a vehicle and a trailer, its *)
(* tarings and weighings, what the system knows of them and what it says    *)
(* of a weighing afterwards: the document for the AIS, the report, the      *)
(* card, the answer of API v1.                                              *)
(*                                                                          *)
(* A moment is a half of a day. How the registry reaches the weighing PC    *)
(* and how it is rebuilt are TareReplication and TareRegistry; here both    *)
(* are one step.                                                            *)
(***************************************************************************)
EXTENDS Calendar, Sequences, FiniteSetsExt

CONSTANTS
  Moments,   \* the moments that are looked at, in order
  TareMass, GrossMass,
  MaxTare,   \* max_tare_kg, 0: no limit
  MaxRecords, MaxStornos \* bounds

ASSUME MomentAssumption ==
  /\ Len(Moments) \in Nat \ {0} /\ DOMAIN Moments = 1 .. Len(Moments)
  /\ \A i \in DOMAIN Moments : Moments[i] \in Nat /\ Moments[i] \div 2 \in 1 .. LastDay
  /\ \A i, j \in DOMAIN Moments : i < j => Moments[i] < Moments[j]
ASSUME MassAssumption == TareMass \cup GrossMass \subseteq Nat \ {0} /\ MaxTare \in Nat
ASSUME StoryBounds == {MaxRecords, MaxStornos} \subseteq Nat

VARIABLES
  clock,     \* now is Moments[clock]
  records,   \* every record made, in the order they were made
  annulled,  \* those a storno was recorded for
  registry,  \* tare_registry of the center: a record, 0: none
  pcTare,   \* the same on the weighing PC
  command    \* a weighing by API v1 under way

storyVars == <<clock, records, annulled, registry, pcTare, command>>

At(day, half) == 2 * Ordinal(day) + half
now == Moments[clock]
Rec == DOMAIN records
NoTare == 0

(***************************************************************************)
(* shared/tare.py.                                                         *)
(***************************************************************************)
ThreeMonthsBefore(moment) ==
  2 * Ordinal(ShiftMonths(DateOf(moment \div 2), 3)) + (moment % 2)
TermFrom == [m \in {Moments[i] : i \in DOMAIN Moments} |-> ThreeMonthsBefore(m)]

TooHeavy(mass) == MaxTare > 0 /\ mass > MaxTare
BelowGross(tare, gross) == tare < gross

(* find_active_tare of the center and of the weighing PC: the newest       *)
(* taring known there, when it is not out of date.                         *)
ActiveAt(row, moment) ==
  IF row # NoTare /\ records[row].at >= TermFrom[moment] THEN row ELSE NoTare

(* Mutant: a tare that is not less than the gross weight is taken too. *)
ApplyAny(row, gross) == row
Applied(row, gross) == IF row # NoTare /\ BelowGross(records[row].mass, gross) THEN row ELSE NoTare

(***************************************************************************)
(* The journal of the center.                                              *)
(***************************************************************************)
InJournal(r) == records[r].known # 0
Tarings == {r \in Rec : records[r].kind = "taring" /\ InJournal(r)}
Valid == Tarings \ annulled

(* An imported taring is known from its import on.                         *)
(* Mutant: it counts from the moment it was made. *)
KnownEver(t, moment) == TRUE
KnownAt(t, moment) == records[t].src = "import" => records[t].known <= moment

Newest(tarings) ==
  IF tarings = {} THEN NoTare
  ELSE CHOOSE t \in tarings : \A u \in tarings :
         records[u].at < records[t].at \/ (records[u].at = records[t].at /\ u <= t)

LatestAsOf(moment) == Newest({t \in Valid : records[t].at <= moment /\ KnownAt(t, moment)})

Entry(kind, at, mass, src, known, tare) ==
  [kind |-> kind, at |-> at, mass |-> mass, src |-> src, known |-> known, tare |-> tare]

StoryTypeOK ==
  /\ clock \in DOMAIN Moments /\ Len(records) <= MaxRecords
  /\ annulled \subseteq {r \in Rec : InJournal(r)}
  /\ registry = Newest(Valid) /\ registry \in {NoTare} \cup Valid
  /\ pcTare \in {NoTare} \cup Tarings
  /\ \A r \in Rec : records[r].kind = "weighing" => records[r].tare \in {NoTare} \cup Tarings

StoryInit ==
  /\ clock = 1 /\ records = <<>> /\ annulled = {}
  /\ registry = NoTare /\ pcTare = NoTare
  /\ command = [pc |-> "none", hint |-> NoTare, rec |-> NoTare]

NoCommand == command.pc = "none"
Room == Len(records) < MaxRecords
(* The pair stands on one platform at a time. *)
Free(moment) == \A r \in Rec : records[r].at # moment

TimePasses ==
  /\ clock < Len(Moments) /\ command.pc # "hinted"
  /\ clock' = clock + 1
  /\ UNCHANGED <<records, annulled, registry, pcTare, command>>

(* The later taring stays. *)
Upsert(r) ==
  registry' = IF registry # NoTare /\ records'[r].at < records[registry].at THEN registry ELSE r

(* A taring on some scale; off line its record comes to the center later.  *)
Tare(mass, online) ==
  /\ Room /\ Free(now) /\ ~TooHeavy(mass)
  /\ records' = Append(records, Entry("taring", now, mass, "scale", IF online THEN now ELSE 0, NoTare))
  /\ IF online THEN Upsert(Len(records) + 1) ELSE UNCHANGED registry
  /\ UNCHANGED <<clock, annulled, pcTare, command>>

Deliver(r) ==
  /\ ~InJournal(r)
  /\ records' = [records EXCEPT ![r].known = now]
  /\ Upsert(r)
  /\ UNCHANGED <<clock, annulled, pcTare, command>>

(* A taring that was made through the AIS before, from its export. *)
Import(i, mass) ==
  /\ Room /\ i < clock /\ Free(Moments[i]) /\ Free(now)
  /\ Moments[i] >= TermFrom[now] /\ ~TooHeavy(mass)
  /\ records' = Append(records, Entry("taring", Moments[i], mass, "import", now, NoTare))
  /\ Upsert(Len(records) + 1)
  /\ UNCHANGED <<clock, annulled, pcTare, command>>

(* storno_weighing, with the registry of the pair made anew.               *)
Annul(r) ==
  /\ annulled' = annulled \cup {r}
  /\ registry' = IF records[r].kind = "taring" THEN Newest(Valid \ {r}) ELSE registry
  /\ UNCHANGED <<clock, records, pcTare, command>>
Storno(r) ==
  /\ InJournal(r) /\ r \notin annulled /\ Cardinality(annulled) < MaxStornos
  /\ Annul(r)

Replicate ==
  /\ pcTare # registry /\ pcTare' = registry
  /\ UNCHANGED <<clock, records, annulled, registry, command>>

(* By the page of the weighing PC: the tare is that of its replica. *)
WeighByHand(gross) ==
  /\ Room /\ Free(now)
  /\ records' = Append(records, Entry("weighing", now, gross, "scale", now,
                                      Applied(ActiveAt(pcTare, now), gross)))
  /\ UNCHANGED <<clock, annulled, registry, pcTare, command>>

(* By the AIS: the center sends the tare with the command, reads the       *)
(* registry again for its answer when the record came without one.         *)
Hint ==
  /\ NoCommand /\ Room
  /\ command' = [pc |-> "hinted", hint |-> ActiveAt(registry, now), rec |-> NoTare]
  /\ UNCHANGED <<clock, records, annulled, registry, pcTare>>

WeighByCommand(gross) ==
  /\ command.pc = "hinted" /\ Room /\ Free(now)
  /\ records' = Append(records, Entry("weighing", now, gross, "scale", now,
                                      Applied(command.hint, gross)))
  /\ command' = [command EXCEPT !.pc = "answer", !.rec = Len(records) + 1]
  /\ UNCHANGED <<clock, annulled, registry, pcTare>>

AnsweredTare(rec) ==
  IF records[rec].tare # NoTare THEN records[rec].tare
  ELSE Applied(ActiveAt(registry, now), records[rec].mass)

Answer ==
  /\ command.pc = "answer"
  /\ command' = [pc |-> "none", hint |-> NoTare, rec |-> NoTare]
  /\ UNCHANGED <<clock, records, annulled, registry, pcTare>>

(***************************************************************************)
(* What is said of a weighing afterwards.                                  *)
(***************************************************************************)
(* The document: tare_block. *)
DocumentTare(w) ==
  LET latest == LatestAsOf(records[w].at) IN
  IF records[w].tare # NoTare THEN "applied"
  ELSE IF latest = NoTare THEN "none"
  ELSE IF records[latest].at < TermFrom[records[w].at] THEN "expired"
  ELSE IF ~BelowGross(records[latest].mass, records[w].mass) THEN "not_below_gross"
  ELSE "replica_lag"

(* The report: the reason of a weighing without net weight. *)
ReportTarings(w) == {t \in Valid : records[t].at <= records[w].at /\ KnownAt(t, records[w].at)}
ReportReason(w) ==
  LET latest == Max({records[t].at : t \in ReportTarings(w)}) IN
  IF ReportTarings(w) = {} THEN "none"
  ELSE IF latest < TermFrom[records[w].at] THEN "expired" ELSE "not_applied"

(* The card of the panel: netto_note, by the registry as it is now. *)
CardNote(w) ==
  LET row == IF registry # NoTare /\ KnownAt(registry, records[w].at) THEN registry ELSE NoTare IN
  IF row # NoTare /\ records[row].at < TermFrom[records[w].at] THEN "expired"
  ELSE IF row # NoTare /\ records[row].at <= records[w].at
          /\ ~BelowGross(records[row].mass, records[w].mass) THEN "not_below_gross"
  ELSE "none"

-----------------------------------------------------------------------------
StoryNext ==
  \/ TimePasses \/ Replicate \/ Hint \/ Answer
  \/ \E m \in TareMass : \E online \in BOOLEAN : Tare(m, online)
  \/ \E m \in TareMass, i \in DOMAIN Moments : Import(i, m)
  \/ \E g \in GrossMass : WeighByHand(g) \/ WeighByCommand(g)
  \/ \E r \in Rec : Deliver(r) \/ Storno(r)

StorySpec == StoryInit /\ [][StoryNext]_storyVars

-----------------------------------------------------------------------------
(***************************************************************************)
(* Properties.                                                             *)
(***************************************************************************)
Weighings == {r \in Rec : records[r].kind = "weighing"}

(* Net weight comes from a taring made before, of less mass, and of the    *)
(* last three months: 92 days at the most, and no taring of the last 89    *)
(* days is ever said to be out of date, whatever months lie between.       *)
TermOfThreeMonths ==
  \A w \in Weighings :
    /\ records[w].tare # NoTare =>
         LET t == records[records[w].tare] IN
         t.at <= records[w].at /\ t.mass < records[w].mass /\ records[w].at - t.at <= 2 * 92
    /\ DocumentTare(w) = "expired" =>
         records[w].at - records[LatestAsOf(records[w].at)].at > 2 * 89

(* The report and the document give the same reason why a weighing has no  *)
(* net weight, though one counts in SQL and the other in Python.           *)
ReportAgreesWithDocument ==
  \A w \in Weighings : records[w].tare = NoTare =>
    LET d == DocumentTare(w) IN
    ReportReason(w) = IF d \in {"not_below_gross", "replica_lag"} THEN "not_applied" ELSE d

(* The card blames a taring only for what the document says too.           *)
CardNoteSound ==
  \A w \in Weighings \ annulled : records[w].tare = NoTare /\ CardNote(w) # "none" =>
    CardNote(w) = DocumentTare(w)

(* What the document says of a weighing changes only when a taring is      *)
(* annulled or one made before the weighing comes in late: neither time,   *)
(* nor later tarings, nor an import, nor the replica change it.            *)
DocumentStays ==
  [][\A w \in Weighings : DocumentTare(w)' # DocumentTare(w) =>
       \/ annulled' # annulled
       \/ \E r \in Rec : ~InJournal(r) /\ InJournal(r)' /\ records[r].at <= records[w].at]_storyVars

(* An answer of API v1 with a net weight the journal does not have comes   *)
(* only of a taring recorded after the command was sent, and never of one  *)
(* that is not below the gross weight.                                     *)
AnswerLikeJournal ==
  command.pc = "answer" =>
    LET t == AnsweredTare(command.rec) IN
    t # records[command.rec].tare =>
      records[t].mass < records[command.rec].mass /\ t # command.hint

(* What is said of a tare and a net weight, over the months: the document, *)
(* the report, the card and the answer of API v1 agree within the term.    *)
StoryInv ==
  StoryTypeOK /\ TermOfThreeMonths /\ ReportAgreesWithDocument /\ CardNoteSound /\ AnswerLikeJournal
===============================================================================
