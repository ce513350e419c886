----------------------------- MODULE TareRegistry -----------------------------
(***************************************************************************)
(* The registry of active tares against the journal of weighings: the      *)
(* transactions that save a taring, move tarings over from the AIS and     *)
(* annul a record (storno), as PostgreSQL runs them at READ COMMITTED.     *)
(*                                                                         *)
(* An action is one statement, or one statement and the reads after it     *)
(* that no other transaction can change. A statement that meets a row, a   *)
(* unique key or the advisory lock of another transaction waits.           *)
(***************************************************************************)
EXTENDS Naturals

CONSTANTS
  Live,       \* tarings that come from the scales, each saved on its own
  Imported,   \* tarings tools/import_ais_tares.py moves over in one transaction
  Tool,       \* that transaction
  Storno,     \* storno requests of the panel
  TargetOf,   \* the taring a storno annuls
  Pair,       \* vehicle + trailer
  PairOf,
  TaredAt,    \* weighed_at of a taring, by the clock of its scale
  MaxAborts,  \* bound: transactions that fail other than by deadlock
  None

Taring == Live \cup Imported
Saver  == Live \cup {Tool}
Tx     == Saver \cup Storno

ASSUME TxAssumption     == /\ Live \cap Imported = {} /\ Taring \cap Storno = {}
                           /\ Tool \notin Taring \cup Storno
ASSUME TargetAssumption == TargetOf \in [Storno -> Taring]
ASSUME PairAssumption   == PairOf \in [Taring -> Pair]
ASSUME TimeAssumption   == TaredAt \in [Taring -> Nat]
ASSUME BoundAssumption  == MaxAborts \in Nat
ASSUME NoneAssumption   == None \notin Taring \cup Tx

VARIABLES
  (* committed *)
  saved,    \* tarings in the journal
  annulled, \* those with a storno record
  row,      \* tare_registry
  log,      \* tare_registry_changes: the taring or None for "no tare"
  nextSeq,  \* the identity of the table: not given back by a rollback
  (* locks and what their holders have not committed *)
  owner,    \* the transaction that holds the registry row of a pair
  mine,     \* ... and the row as it has it
  renewed,  \* ... which is not the version it found but another row
  key,      \* the uncommitted storno record of a taring (uq_weighings_storno_of)
  lock,     \* pg_advisory_xact_lock
  (* the transactions *)
  pc,
  todo,     \* tarings still to write
  at,       \* the taring being written
  found,    \* the row the DELETE of a storno has found and waits for is there
  latest,   \* the taring the rebuilt row is to have
  changes,  \* uncommitted rows of tare_registry_changes
  aborts

committed == <<saved, annulled, row, log>>
locks     == <<owner, mine, renewed, key, lock>>
txVars    == <<pc, todo, at, found, latest, changes>>
vars == <<committed, nextSeq, locks, txVars, aborts>>

Row     == Taring \cup {None}
Entry   == [seq : Nat, pair : Pair, taring : Row]
Todo(t) == IF t = Tool THEN Imported ELSE {t}
PairOfTx(t) == IF t \in Storno THEN PairOf[TargetOf[t]] ELSE PairOf[at[t]]

TypeOK ==
  /\ saved \in SUBSET Taring /\ annulled \in SUBSET Taring
  /\ row \in [Pair -> Row]
  /\ log \in SUBSET Entry /\ nextSeq \in Nat
  /\ owner \in [Pair -> Tx \cup {None}]
  /\ mine \in [Pair -> Row] /\ renewed \in [Pair -> BOOLEAN]
  /\ key \in [Taring -> Storno \cup {None}]
  /\ lock \in Tx \cup {None}
  /\ pc \in [Tx -> {"idle", "upsert", "insert", "scan", "delete", "select", "restore",
                    "log", "commit", "done", "refused", "failed"}]
  /\ todo \in [Saver -> SUBSET Taring]
  /\ at \in [Saver -> Row]
  /\ found \in [Storno -> BOOLEAN]
  /\ latest \in [Storno -> Row]
  /\ changes \in [Tx -> SUBSET Entry]
  /\ aborts \in 0 .. MaxAborts

Init ==
  /\ saved = {} /\ annulled = {}
  /\ row = [p \in Pair |-> None]
  /\ log = {} /\ nextSeq = 1
  /\ owner = [p \in Pair |-> None] /\ mine = [p \in Pair |-> None]
  /\ renewed = [p \in Pair |-> FALSE]
  /\ key = [w \in Taring |-> None]
  /\ lock = None
  /\ pc = [t \in Tx |-> "idle"]
  /\ todo = [t \in Saver |-> {}] /\ at = [t \in Saver |-> None]
  /\ found = [s \in Storno |-> FALSE] /\ latest = [s \in Storno |-> None]
  /\ changes = [t \in Tx |-> {}]
  /\ aborts = 0

(***************************************************************************)
(* Rows and locks.                                                         *)
(***************************************************************************)
Sees(t, p) == IF owner[p] = t THEN mine[p] ELSE row[p]
Free(t, p) == owner[p] \in {None, t}

(* The row of p is from now on w for t; new: not a version of the one t met. *)
Write(t, p, w, new) ==
  /\ owner'   = [owner EXCEPT ![p] = t]
  /\ mine'    = [mine EXCEPT ![p] = w]
  /\ renewed' = [renewed EXCEPT ![p] = new \/ (owner[p] = t /\ @)]

(***************************************************************************)
(* save_weighing_record and save_imported_taring.                          *)
(***************************************************************************)

(* The record is added to the journal; others see it after the commit.     *)
InsertTaring(t) ==
  /\ t \in Saver
  /\ pc[t] = "idle"
  /\ \E w \in IF todo[t] = {} THEN Todo(t) ELSE todo[t] :
       /\ at' = [at EXCEPT ![t] = w]
       /\ todo' = [todo EXCEPT ![t] = (IF @ = {} THEN Todo(t) ELSE @) \ {w}]
  /\ pc' = [pc EXCEPT ![t] = "upsert"]
  /\ UNCHANGED <<committed, nextSeq, locks, found, latest, changes, aborts>>

(* Mutant: an older taring replaces a newer one. *)
UpsertTareAnyway(t) ==
  LET p == PairOf[at[t]] IN
  /\ t \in Saver
  /\ pc[t] = "upsert" /\ Free(t, p)
  /\ Write(t, p, at[t], Sees(t, p) = None)
  /\ pc' = [pc EXCEPT ![t] = "log"]
  /\ UNCHANGED <<committed, nextSeq, key, lock, todo, at, found, latest, changes, aborts>>

(* INSERT ... ON CONFLICT DO UPDATE ... WHERE tared_at <= the new one: the *)
(* row is locked even where the WHERE does not hold.                       *)
UpsertTare(t) ==
  LET p   == PairOf[at[t]]
      old == Sees(t, p)
  IN
  /\ t \in Saver
  /\ pc[t] = "upsert" /\ Free(t, p)
  /\ Write(t, p, IF old = None \/ TaredAt[old] <= TaredAt[at[t]] THEN at[t] ELSE old,
           old = None)
  /\ pc' = [pc EXCEPT ![t] = "log"]
  /\ UNCHANGED <<committed, nextSeq, key, lock, todo, at, found, latest, changes, aborts>>

(* Mutant: the row is read before the change. *)
AddChangeBefore(t, p) ==
  /\ changes' = [changes EXCEPT ![t] =
       @ \cup {[seq |-> nextSeq, pair |-> p, taring |-> row[p]]}]
  /\ nextSeq' = nextSeq + 1

AddChange(t, p) ==
  /\ changes' = [changes EXCEPT ![t] =
       @ \cup {[seq |-> nextSeq, pair |-> p, taring |-> Sees(t, p)]}]
  /\ nextSeq' = nextSeq + 1

(* Mutant: no advisory lock. *)
RecordTareChangeUnlocked(t) ==
  /\ pc[t] = "log"
  /\ AddChange(t, PairOfTx(t))
  /\ pc' = [pc EXCEPT ![t] = IF t \in Storno \/ todo[t] = {} THEN "commit" ELSE "idle"]
  /\ UNCHANGED <<committed, locks, todo, at, found, latest, aborts>>

(* _record_tare_change: the lock is held to the end of the transaction, so *)
(* the numbers follow the commits.                                         *)
RecordTareChange(t) ==
  /\ pc[t] = "log" /\ lock \in {None, t}
  /\ lock' = t
  /\ AddChange(t, PairOfTx(t))
  /\ pc' = [pc EXCEPT ![t] = IF t \in Storno \/ todo[t] = {} THEN "commit" ELSE "idle"]
  /\ UNCHANGED <<committed, owner, mine, renewed, key, todo, at, found, latest, aborts>>

(***************************************************************************)
(* storno_weighing and rebuild_tare_registry_entry.                        *)
(***************************************************************************)

(* The record is there and storno_by finds no storno of it. *)
CheckStorno(s) ==
  /\ s \in Storno
  /\ pc[s] = "idle" /\ TargetOf[s] \in saved
  /\ pc' = [pc EXCEPT ![s] = IF TargetOf[s] \in annulled THEN "refused" ELSE "insert"]
  /\ UNCHANGED <<committed, nextSeq, locks, todo, at, found, latest, changes, aborts>>

(* Mutant: no unique index on storno_of. *)
InsertStornoAgain(s) ==
  /\ s \in Storno
  /\ pc[s] = "insert"
  /\ pc' = [pc EXCEPT ![s] = "scan"]
  /\ UNCHANGED <<committed, nextSeq, locks, todo, at, found, latest, changes, aborts>>

(* Mutant: the storno takes the lock of the changes first. *)
InsertStornoLocked(s) ==
  /\ s \in Storno
  /\ pc[s] = "insert" /\ key[TargetOf[s]] = None /\ lock = None
  /\ IF TargetOf[s] \in annulled
     THEN pc' = [pc EXCEPT ![s] = "refused"] /\ UNCHANGED <<key, lock>>
     ELSE /\ pc' = [pc EXCEPT ![s] = "scan"]
          /\ key' = [key EXCEPT ![TargetOf[s]] = s]
          /\ lock' = s
  /\ UNCHANGED <<committed, nextSeq, owner, mine, renewed, todo, at, found, latest, changes, aborts>>

(* The storno record; a second one of the same taring waits for the first  *)
(* and is refused by the unique index.                                     *)
InsertStorno(s) ==
  /\ s \in Storno
  /\ pc[s] = "insert" /\ key[TargetOf[s]] = None
  /\ IF TargetOf[s] \in annulled
     THEN pc' = [pc EXCEPT ![s] = "refused"] /\ UNCHANGED key
     ELSE pc' = [pc EXCEPT ![s] = "scan"] /\ key' = [key EXCEPT ![TargetOf[s]] = s]
  /\ UNCHANGED <<committed, nextSeq, owner, mine, renewed, lock, todo, at, found, latest, changes, aborts>>

(* DELETE FROM tare_registry sees the rows committed when it begins ...    *)
ScanRow(s) ==
  /\ s \in Storno
  /\ pc[s] = "scan"
  /\ found' = [found EXCEPT ![s] = row[PairOfTx(s)] # None]
  /\ pc' = [pc EXCEPT ![s] = IF row[PairOfTx(s)] # None THEN "delete" ELSE "select"]
  /\ UNCHANGED <<committed, nextSeq, locks, todo, at, latest, changes, aborts>>

(* ... waits for whoever holds the one it found and deletes its last       *)
(* version; a row deleted meanwhile, even if replaced, is passed over.     *)
DeleteRow(s) ==
  LET p == PairOfTx(s) IN
  /\ s \in Storno
  /\ pc[s] = "delete" /\ Free(s, p)
  /\ IF found[s] THEN Write(s, p, None, TRUE) ELSE UNCHANGED <<owner, mine, renewed>>
  /\ pc' = [pc EXCEPT ![s] = "select"]
  /\ UNCHANGED <<committed, nextSeq, key, lock, todo, at, found, latest, changes, aborts>>

(* _valid_tarings ... ORDER BY weighed_at DESC LIMIT 1. *)
ValidTarings(p, gone) == {w \in saved \ (annulled \cup gone) : PairOf[w] = p}
LatestOf(W) == {w \in W : \A v \in W : TaredAt[v] <= TaredAt[w]}

SelectLatest(s) ==
  LET W == ValidTarings(PairOfTx(s), {TargetOf[s]}) IN
  /\ s \in Storno
  /\ pc[s] = "select"
  /\ IF W = {}
     THEN latest' = [latest EXCEPT ![s] = None] /\ pc' = [pc EXCEPT ![s] = "log"]
     ELSE \E w \in LatestOf(W) :
            latest' = [latest EXCEPT ![s] = w] /\ pc' = [pc EXCEPT ![s] = "restore"]
  /\ UNCHANGED <<committed, nextSeq, locks, todo, at, found, changes, aborts>>

(* What the end of a transaction frees. *)
Release(t) ==
  /\ owner'   = [p \in Pair |-> IF owner[p] = t THEN None ELSE owner[p]]
  /\ mine'    = [p \in Pair |-> IF owner[p] = t THEN None ELSE mine[p]]
  /\ renewed' = [p \in Pair |-> renewed[p] /\ owner[p] # t]
  /\ key'     = [w \in Taring |-> IF key[w] = t THEN None ELSE key[w]]
  /\ lock'    = IF lock = t THEN None ELSE lock
  /\ changes' = [changes EXCEPT ![t] = {}]
  /\ todo' = IF t \in Saver THEN [todo EXCEPT ![t] = {}] ELSE todo
  /\ at'   = IF t \in Saver THEN [at EXCEPT ![t] = None] ELSE at

(* Mutant: a record that was not saved never comes again. *)
RollbackGivesUp(t) ==
  /\ Release(t)
  /\ pc' = [pc EXCEPT ![t] = "failed"]

(* A record of the scales that was not saved comes again with the next     *)
(* offline_sync; the tool and the request of the panel end with the error. *)
Rollback(t) ==
  /\ Release(t)
  /\ pc' = [pc EXCEPT ![t] = IF t \in Live THEN "idle" ELSE "failed"]

(* The plain INSERT of the rebuilt row waits for whoever holds the key; a  *)
(* row it then meets is an IntegrityError nobody catches.                  *)
InsertRow(s) ==
  LET p == PairOfTx(s) IN
  /\ s \in Storno
  /\ pc[s] = "restore" /\ Free(s, p)
  /\ \/ /\ Sees(s, p) = None
        /\ Write(s, p, latest[s], TRUE)
        /\ pc' = [pc EXCEPT ![s] = "log"]
        /\ UNCHANGED <<key, lock, todo, at, changes>>
     \/ /\ Sees(s, p) # None
        /\ Rollback(s)
  /\ UNCHANGED <<committed, nextSeq, found, latest, aborts>>

(***************************************************************************)
(* The end of a transaction.                                               *)
(***************************************************************************)
Commit(t) ==
  /\ pc[t] = "commit"
  /\ saved' = saved \cup IF t \in Saver THEN Todo(t) ELSE {}
  /\ annulled' = annulled \cup {w \in Taring : t \in Storno /\ w = TargetOf[t]}
  /\ row' = [p \in Pair |-> Sees(t, p)]
  /\ log' = log \cup changes[t]
  /\ found' = [s \in Storno |->
       LET p == PairOfTx(s) IN found[s] /\ ~(owner[p] = t /\ renewed[p])]
  /\ pc' = [pc EXCEPT ![t] = "done"]
  /\ Release(t)
  /\ UNCHANGED <<nextSeq, latest, aborts>>

Active(t) == pc[t] \notin {"done", "refused", "failed"} /\ (pc[t] = "idle" => lock = t)

(* A lost connection to the database, a restart of the center, an error in *)
(* the rest of the transaction.                                            *)
Abort(t) ==
  /\ aborts < MaxAborts
  /\ Active(t)
  /\ aborts' = aborts + 1
  /\ Rollback(t)
  /\ UNCHANGED <<committed, nextSeq, found, latest>>

WaitsForLock(t) == pc[t] = "log" /\ lock \notin {None, t}
WaitsForRow(t) ==
  \/ pc[t] = "upsert" /\ ~Free(t, PairOf[at[t]])
  \/ pc[t] \in {"delete", "restore"} /\ ~Free(t, PairOfTx(t))
Deadlocked(t, u) ==
  /\ WaitsForLock(t) /\ lock = u
  /\ WaitsForRow(u) /\ owner[PairOfTx(u)] = t

(* PostgreSQL ends one transaction of a deadlock. *)
EndDeadlock(t) ==
  /\ \E u \in Tx : Deadlocked(t, u) \/ Deadlocked(u, t)
  /\ Rollback(t)
  /\ UNCHANGED <<committed, nextSeq, found, latest, aborts>>

-----------------------------------------------------------------------------
Step(t) ==
  InsertTaring(t) \/ UpsertTare(t) \/ RecordTareChange(t) \/ CheckStorno(t) \/ InsertStorno(t)
    \/ ScanRow(t) \/ DeleteRow(t) \/ SelectLatest(t) \/ InsertRow(t) \/ Commit(t) \/ EndDeadlock(t)

Next == \E t \in Tx : Step(t) \/ Abort(t)

Spec     == Init /\ [][Next]_vars
FairSpec == Spec /\ \A t \in Tx : WF_vars(Step(t))

-----------------------------------------------------------------------------
(***************************************************************************)
(* Properties.                                                             *)
(***************************************************************************)

(* Between the transactions the row of a pair is its latest taring that no *)
(* storno annulled ("the registry row is rebuilt from the journal without  *)
(* annulled tarings", storno_weighing), and there is none without one.     *)
RegistryFollowsJournal ==
  \A p \in Pair : (\A t \in Tx : ~Active(t)) =>
    IF ValidTarings(p, {}) = {} THEN row[p] = None
    ELSE row[p] \in LatestOf(ValidTarings(p, {}))

(* The last change of a pair is its committed row: who applies the changes *)
(* in the order of their numbers has the registry.                         *)
LogTracksRegistry ==
  \A p \in Pair :
    LET own == {e \in log : e.pair = p} IN
    row[p] = IF own = {} THEN None
             ELSE (CHOOSE e \in own : \A d \in own : d.seq <= e.seq).taring

(* Numbers are given in the order of the commits, "or else an agent could  *)
(* get 11 before 10 and miss 10 for ever" (the advisory lock,              *)
(* _TARE_CHANGES_LOCK_KEY): no commit adds a change below one that others  *)
(* have already seen.                                                      *)
NumbersFollowCommits ==
  [][\A e \in log' \ log, d \in log : d.seq < e.seq]_vars

(* One storno per record, whoever presses the button at the same time      *)
(* (uq_weighings_storno_of behind the check of storno_by).                 *)
OneStorno ==
  \A s, t \in Storno :
    s # t /\ TargetOf[s] = TargetOf[t] => ~(pc[s] = "done" /\ pc[t] = "done")

(* Who sees only what is committed sees the steps of RegistryPromise: each *)
(* commit is one of them, whatever it overlapped with, and a transaction   *)
(* that fails leaves no trace.                                             *)
Committed == {s \in Storno : pc[s] = "done"}
Promise == INSTANCE RegistryPromise
             WITH Together <- {Todo(t) : t \in Saver}, journal <- saved,
                  stornos <- Committed, registry <- row, told <- log
KeepsRegistry == Promise!Spec

(* Only the import, which holds the lock of the changes while it goes on   *)
(* to the next pair, can deadlock: the requests of the center cannot.      *)
OnlyToolDeadlocks == \A t, u \in Tx : Deadlocked(t, u) => u = Tool

(* Every taring of the scales gets into the journal, deadlocks with the    *)
(* import and failed transactions notwithstanding.                         *)
EveryTaringSaved == \A w \in Live : <>(w \in saved)
=============================================================================
