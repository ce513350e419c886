------------------------------ MODULE TareImport ------------------------------
(***************************************************************************)
(* tools/import_ais_tares: tarings made through the AIS before a site was  *)
(* switched over are put into the journal from an export of the AIS. The   *)
(* tool runs beside the center, which goes on recording tarings of its own *)
(* - among them some that the export has too.                              *)
(*                                                                         *)
(* What the registry of tares makes of an import is in TareRegistry, how   *)
(* it counts in documents and reports in TareStory.                        *)
(***************************************************************************)
EXTENDS Integers, Sequences, FiniteSets

CONSTANTS
  File,        \* the lines of the export, in order: records, see Line
  OwnTarings,  \* tarings on scales of the center ...
  OwnAs,       \* ... what is recorded of each, and of which document it is
  Site,        \* object of the export -> site of the center, Absent, Ambiguous
  Absent, Ambiguous,
  Since,       \* three months before now
  MaxTareKg,
  MassMatch, TimeMatch, \* MATCH_MASSA_KG, MATCH_WINDOW
  NoRef, NoCar,
  MaxToolRuns, MaxToolCrashes \* bounds

ASSUME MatchAssumption == {MassMatch, TimeMatch, MaxTareKg} \subseteq Nat /\ Since \in Int

VARIABLES
  journal,   \* the records committed: of own tarings and, by number, imported ones
  refs,      \* weighing_ais_refs: pairs of a number and a record
  saving,    \* transactions that save own tarings
  tool,      \* the tool
  toolRuns, toolCrashes,
  unread,    \* own tarings saved since the last run read the numbers (history)
  passedOn,  \* numbers put into the journal with the own tarings the plan knew of (history)
  missed     \* numbers a successful run left out (history)

importVars == <<journal, refs, saving, tool, toolRuns, toolCrashes, unread, passedOn, missed>>

Lines == DOMAIN File
Refs  == {File[l].ref : l \in Lines} \ {NoRef}
Imported(ref) == <<"import", ref>>
Taken(ref, links) == \E r \in links : r[1] = ref

(***************************************************************************)
(* Parsing, and the verdict on a line.                                     *)
(***************************************************************************)
(* A line without a number, in another unit or with no mass is a problem   *)
(* of the report only.                                                     *)
Parsed(l) == File[l].ref # NoRef /\ File[l].kg /\ File[l].mass > 0

Near(a, b, d) == a - b <= d /\ b - a <= d

SameTaring(line, o) ==
  /\ OwnAs[o].site = Site[line.object] /\ OwnAs[o].car = line.car
  /\ Near(OwnAs[o].mass, line.mass, MassMatch) /\ Near(OwnAs[o].at, line.at, TimeMatch)

(* A taring that acts and must be in the journal once the tool is done.    *)
Eligible(line) ==
  /\ Site[line.object] # Absent /\ line.at >= Since /\ line.completed /\ ~line.ignored
  /\ line.car # NoCar /\ (MaxTareKg = 0 \/ line.mass <= MaxTareKg)
Acting == {l \in Lines : Parsed(l) /\ Eligible(File[l])}

(* What the windows rest on: the AIS rounds the mass and its clock is off  *)
(* by minutes, so a taring and its line are alike within them, and no two  *)
(* tarings of a vehicle are.                                               *)
ASSUME LinesAssumption ==
  /\ Len(File) \in Nat /\ Lines = 1 .. Len(File)
  /\ \A l \in Lines : {File[l].at, File[l].mass} \subseteq Int
ASSUME OwnAssumption   == OwnTarings \cap {Imported(r) : r \in Refs} = {}
ASSUME WindowAssumption ==
  \A l \in Acting, o \in OwnTarings :
    /\ OwnAs[o].document = File[l].ref => OwnAs[o].ref = File[l].ref \/ SameTaring(File[l], o)
    /\ SameTaring(File[l], o) => OwnAs[o].document = File[l].ref

(* Mutant: the clocks of the AIS and the center are taken to agree. *)
MatchesToTheMinute(line, ours) ==
  \E o \in ours : SameTaring(line, o) /\ OwnAs[o].at = line.at
MatchesOurs(line, ours) == \E o \in ours : SameTaring(line, o)

Verdict(line, known, ours) ==
  IF Site[line.object] = Absent                       THEN "unknown_object"
  ELSE IF line.at < Since                             THEN "too_old"
  ELSE IF line.ref \in known                          THEN "already"
  ELSE IF line.car # NoCar /\ MatchesOurs(line, ours) THEN "matched_ours"
  ELSE IF ~line.completed                             THEN "not_completed"
  ELSE IF line.ignored                                THEN "ignored"
  ELSE IF line.car = NoCar                            THEN "no_vehicle"
  ELSE IF MaxTareKg > 0 /\ line.mass > MaxTareKg      THEN "too_heavy"
  ELSE "import"

-----------------------------------------------------------------------------
NoTool == [pc |-> "none", line |-> 0, known |-> {}, ours |-> {}, plan |-> {}, new |-> {}]

ImportTypeOK ==
  /\ journal \subseteq OwnTarings \cup {Imported(r) : r \in Refs}
  /\ \A link \in refs : link[2] \in journal
  /\ saving \in [OwnTarings -> {"none", "free", "taken"}]
  /\ tool.plan \subseteq Lines /\ tool.new \subseteq Refs
  /\ tool.pc \in {"none", "read", "look", "insert", "refused", "done"}

ImportInit ==
  /\ journal = {} /\ refs = {}
  /\ saving = [o \in OwnTarings |-> "none"]
  /\ tool = NoTool
  /\ toolRuns = 0 /\ toolCrashes = 0
  /\ unread = {} /\ passedOn = {} /\ missed = {}

(***************************************************************************)
(* The center: the save of an own taring looks whether its number is free  *)
(* and is committed later; the unique index has the last word.             *)
(***************************************************************************)
SaveOwn(o) ==
  /\ o \notin journal /\ saving[o] = "none"
  /\ saving' = [saving EXCEPT ![o] = IF Taken(OwnAs[o].ref, refs) THEN "taken" ELSE "free"]
  /\ UNCHANGED <<journal, refs, tool, toolRuns, toolCrashes, unread, passedOn, missed>>

Links(o) == saving[o] = "free" /\ OwnAs[o].ref # NoRef

CommitOwn(o) ==
  /\ saving[o] # "none"
  /\ Links(o) => OwnAs[o].ref \notin tool.new  \* or it waits for the tool
  /\ saving' = [saving EXCEPT ![o] = "none"]
  /\ IF Links(o) /\ Taken(OwnAs[o].ref, refs)
     THEN UNCHANGED <<journal, refs, unread>>  \* the weighing PC sends it again
     ELSE /\ journal' = journal \cup {o}
          /\ refs' = refs \cup IF Links(o) THEN {<<OwnAs[o].ref, o>>} ELSE {}
          /\ unread' = unread \cup {o}
  /\ UNCHANGED <<tool, toolRuns, toolCrashes, passedOn, missed>>

(***************************************************************************)
(* The tool.                                                               *)
(***************************************************************************)
(* It stops when an object of the export may be several scales.            *)
ToolReadsRefs ==
  /\ tool.pc \in {"none", "refused", "done"} /\ toolRuns < MaxToolRuns
  /\ Ambiguous \notin {Site[o] : o \in DOMAIN Site}
  /\ toolRuns' = toolRuns + 1
  /\ tool' = [NoTool EXCEPT !.pc = "read",
              !.known = {r \in {File[l].ref : l \in {k \in Lines : Parsed(k)}} : Taken(r, refs)}]
  /\ unread' = {}
  /\ UNCHANGED <<journal, refs, saving, toolCrashes, passedOn, missed>>

(* tarings_since and plan_import; without --apply that was all. *)
ToolPlans(apply) ==
  /\ tool.pc = "read"
  /\ LET ours == {o \in journal \cap OwnTarings : OwnAs[o].at >= Since /\ OwnAs[o].car # NoCar}
         plan == {l \in Lines : Parsed(l) /\ Verdict(File[l], tool.known, ours) = "import"}
     IN  tool' = IF apply THEN [tool EXCEPT !.pc = "look", !.line = 1, !.ours = ours, !.plan = plan]
                 ELSE NoTool
  /\ UNCHANGED <<journal, refs, saving, toolRuns, toolCrashes, unread, passedOn, missed>>

(* save_imported_taring: a record or a number that is there is passed over. *)
KnownHere(ref) == Imported(ref) \in journal \/ ref \in tool.new \/ Taken(ref, refs)

ToolLooks ==
  /\ tool.pc = "look" /\ tool.line \in Lines
  /\ tool' = IF tool.line \notin tool.plan \/ KnownHere(File[tool.line].ref)
             THEN [tool EXCEPT !.line = @ + 1]
             ELSE [tool EXCEPT !.pc = "insert"]
  /\ UNCHANGED <<journal, refs, saving, toolRuns, toolCrashes, unread, passedOn, missed>>

(* The number may have been taken since: everything is rolled back. *)
ToolInserts ==
  /\ tool.pc = "insert"
  /\ LET ref == File[tool.line].ref IN
     tool' = IF Taken(ref, refs) \/ ref \in tool.new
             THEN [tool EXCEPT !.pc = "refused", !.new = {}]
             ELSE [tool EXCEPT !.pc = "look", !.line = @ + 1, !.new = @ \cup {ref}]
  /\ UNCHANGED <<journal, refs, saving, toolRuns, toolCrashes, unread, passedOn, missed>>

ToolCommits ==
  /\ tool.pc = "look" /\ tool.line \notin Lines
  /\ tool' = [NoTool EXCEPT !.pc = "done"]
  /\ journal' = journal \cup {Imported(r) : r \in tool.new}
  /\ refs' = refs \cup {<<r, Imported(r)>> : r \in tool.new}
  /\ passedOn' = passedOn \cup (tool.new \X tool.ours)
  /\ missed' = {File[l].ref : l \in Acting}
               \ ({r[1] : r \in refs'} \cup {OwnAs[o].document : o \in journal \cap OwnTarings})
  /\ UNCHANGED <<saving, toolRuns, toolCrashes, unread>>

ToolCrashes ==
  /\ tool.pc \in {"read", "look", "insert"} /\ toolCrashes < MaxToolCrashes
  /\ toolCrashes' = toolCrashes + 1
  /\ tool' = NoTool
  /\ UNCHANGED <<journal, refs, saving, toolRuns, unread, passedOn, missed>>

-----------------------------------------------------------------------------
ImportNext ==
  \/ \E o \in OwnTarings : SaveOwn(o) \/ CommitOwn(o)
  \/ ToolReadsRefs \/ (\E apply \in BOOLEAN : ToolPlans(apply))
  \/ ToolLooks \/ ToolInserts \/ ToolCommits \/ ToolCrashes

ImportSpec == ImportInit /\ [][ImportNext]_importVars

-----------------------------------------------------------------------------
(***************************************************************************)
(* Properties.                                                             *)
(***************************************************************************)
(* A taring the journal had when the plan was made is not put there again, *)
(* whether the AIS told its number before, after or never.                 *)
NoTwinOfSeen == \A p \in passedOn : OwnAs[p[2]].document # p[1]

(* When the tool is done every tare of the export that still acts is in    *)
(* the journal, as an imported record or as one of the center's own, and   *)
(* an own taring of the same vehicle at another time is no reason to leave *)
(* it out.                                                                 *)
NothingMissed == missed = {}

(* The tool gives up only when an own taring came between ("repeat the     *)
(* run"): a repeat with the journal at rest goes through, also with a      *)
(* number twice in the export.                                             *)
RefusalHasCause == tool.pc = "refused" => unread # {}

(* The import beside the own tarings of the center and after a crash: no   *)
(* twin, nothing missed, no refusal without a cause.                       *)
ImportInv == ImportTypeOK /\ NoTwinOfSeen /\ NothingMissed /\ RefusalHasCause
===============================================================================
