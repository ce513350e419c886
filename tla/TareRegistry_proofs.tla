------------------------- MODULE TareRegistry_proofs -------------------------
(***************************************************************************)
(* Theorems about TareRegistry, for any tarings, stornos and pairs, any    *)
(* clocks of the scales and any number of failures.                        *)
(***************************************************************************)
EXTENDS TareRegistry, TLAPS

-----------------------------------------------------------------------------
(***************************************************************************)
(* The inductive invariant.                                                *)
(***************************************************************************)

(* A saver has the taring it writes. *)
TaringKnown == \A t \in Saver : pc[t] \in {"upsert", "log"} => at[t] \in Taring

(* The uncommitted storno record of a taring: whose it is, and that the    *)
(* taring is not annulled yet.                                             *)
Storning(s) == pc[s] \in {"scan", "delete", "select", "restore", "log", "commit"}
KeyHeld ==
  /\ \A s \in Storno : Storning(s) => key[TargetOf[s]] = s
  /\ \A w \in Taring : key[w] # None => w \notin annulled /\ TargetOf[key[w]] = w
  /\ \A s \in Storno : pc[s] = "done" => TargetOf[s] \in annulled

(* Numbers: none is given twice, only the holder of the lock has changes   *)
(* of its own and they are above all the committed ones.                   *)
Injective(S) == \A d, e \in S : d.seq = e.seq => d = e
Numbered ==
  /\ \A e \in log : e.seq < nextSeq
  /\ Injective(log)
  /\ \A t \in Tx : changes[t] # {} => lock = t
  /\ \A t \in Tx : pc[t] = "commit" => lock = t
  /\ \A t \in Tx : Injective(changes[t])
  /\ \A t \in Tx : \A e \in changes[t] : e.seq < nextSeq /\ \A d \in log : d.seq < e.seq

(* The last change of p in S says w. *)
Tells(S, p, w) ==
  \E e \in S : e.pair = p /\ e.taring = w /\ \A d \in S : d.pair = p => d.seq <= e.seq
Silent(S, p) == \A e \in S : e.pair # p

(* A transaction has told what it did to the row of p, but for the one it  *)
(* is in the middle of.                                                    *)
Dirty(t, p) == pc[t] \in {"select", "restore", "log"} /\ p = PairOfTx(t)
ToldOf(t, p) ==
  ~Dirty(t, p) =>
    \/ Silent(changes[t], p) /\ owner[p] # t
    \/ Tells(changes[t], p, Sees(t, p))
Told ==
  /\ \A t \in Tx, p \in Pair : ToldOf(t, p)
  /\ \A p \in Pair : (Silent(log, p) /\ row[p] = None) \/ Tells(log, p, row[p])

(* Other transactions than the import take the lock when nothing is left   *)
(* to do but the commit.                                                   *)
LockLate ==
  /\ \A t \in Live : todo[t] = {}
  /\ \A t \in Tx : lock = t /\ t # Tool => pc[t] = "commit"

IInv == TypeOK /\ TaringKnown /\ KeyHeld /\ OneStorno /\ Numbered /\ Told /\ LockLate

-----------------------------------------------------------------------------
(***************************************************************************)
(* Who is who.                                                             *)
(***************************************************************************)

(* Savers and stornos are different transactions. *)
LEMMA Kinds ==
  /\ Saver \subseteq Tx /\ Storno \subseteq Tx /\ Saver \cap Storno = {}
  /\ Live \subseteq Saver /\ Live \cap Storno = {}
  /\ None \notin Tx /\ None \notin Taring
  /\ \A t \in Saver : Todo(t) \subseteq Taring
  /\ \A s \in Storno : TargetOf[s] \in Taring /\ PairOfTx(s) \in Pair
BY TxAssumption, TargetAssumption, PairAssumption, NoneAssumption
   DEF Saver, Tx, Taring, Todo, PairOfTx

(* A transaction that writes to the registry has a pair. *)
LEMMA PairKnown ==
  ASSUME TypeOK, TaringKnown, NEW t \in Tx, t \in Storno \/ pc[t] \in {"upsert", "log"}
  PROVE  /\ PairOfTx(t) \in Pair
         /\ t \notin Storno => at[t] \in Taring /\ PairOfTx(t) = PairOf[at[t]]
<1>1. CASE t \in Storno  BY <1>1, Kinds
<1>2. CASE t \notin Storno
  <2>1. t \in Saver /\ at[t] \in Taring  BY <1>2 DEF Tx, TaringKnown
  <2> QED  BY <1>2, <2>1, PairAssumption DEF PairOfTx
<1> QED  BY <1>1, <1>2

-----------------------------------------------------------------------------
(***************************************************************************)
(* Type correctness.                                                       *)
(***************************************************************************)

LEMMA TypeInit == Init => TypeOK /\ TaringKnown
<1> SUFFICES ASSUME Init PROVE TypeOK /\ TaringKnown  OBVIOUS
<1>1. TypeOK  BY BoundAssumption DEF Init, TypeOK, Row
<1>2. TaringKnown  BY Kinds DEF Init, TaringKnown
<1> QED  BY <1>1, <1>2

(* A row is written. *)
LEMMA WriteType ==
  ASSUME TypeOK, NEW t \in Tx, NEW p \in Pair, NEW w \in Row, NEW new \in BOOLEAN,
         Write(t, p, w, new)
  PROVE  /\ owner' \in [Pair -> Tx \cup {None}]
         /\ mine' \in [Pair -> Row] /\ renewed' \in [Pair -> BOOLEAN]
BY DEF TypeOK, Write

(* What a transaction sees of a row. *)
LEMMA SeesType ==
  ASSUME TypeOK, NEW t \in Tx, NEW p \in Pair
  PROVE  Sees(t, p) \in Row
BY DEF TypeOK, Sees

LEMMA ReleaseType ==
  ASSUME TypeOK, NEW t \in Tx, Release(t)
  PROVE  /\ owner' \in [Pair -> Tx \cup {None}]
         /\ mine' \in [Pair -> Row] /\ renewed' \in [Pair -> BOOLEAN]
         /\ key' \in [Taring -> Storno \cup {None}]
         /\ lock' \in Tx \cup {None}
         /\ changes' \in [Tx -> SUBSET Entry]
         /\ todo' \in [Saver -> SUBSET Taring] /\ at' \in [Saver -> Row]
<1> USE DEF TypeOK, Release, Row
<1>1. owner' \in [Pair -> Tx \cup {None}]  OBVIOUS
<1>2. mine' \in [Pair -> Row]  OBVIOUS
<1>3. renewed' \in [Pair -> BOOLEAN]  OBVIOUS
<1>4. key' \in [Taring -> Storno \cup {None}]  OBVIOUS
<1>5. lock' \in Tx \cup {None} /\ changes' \in [Tx -> SUBSET Entry]  OBVIOUS
<1>6. todo' \in [Saver -> SUBSET Taring] /\ at' \in [Saver -> Row]  OBVIOUS
<1> QED  BY <1>1, <1>2, <1>3, <1>4, <1>5, <1>6

LEMMA AddChangeType ==
  ASSUME TypeOK, NEW t \in Tx, NEW p \in Pair, AddChange(t, p)
  PROVE  changes' \in [Tx -> SUBSET Entry] /\ nextSeq' \in Nat
<1>1. Sees(t, p) \in Row  BY SeesType
<1>2. [seq |-> nextSeq, pair |-> p, taring |-> Sees(t, p)] \in Entry  BY <1>1 DEF TypeOK, Entry
<1> QED  BY <1>2 DEF TypeOK, AddChange

(* Each statement, and the end of a transaction, keeps the types. *)
LEMMA TypeStep ==
  ASSUME TypeOK, TaringKnown, NEW t \in Tx, Step(t) \/ Abort(t)
  PROVE  TypeOK'
<1> USE Kinds
<1>1. CASE InsertTaring(t)
  <2>1. PICK w \in IF todo[t] = {} THEN Todo(t) ELSE todo[t] :
          /\ at' = [at EXCEPT ![t] = w]
          /\ todo' = [todo EXCEPT ![t] = (IF @ = {} THEN Todo(t) ELSE @) \ {w}]
    BY <1>1 DEF InsertTaring
  <2>2. t \in Saver /\ todo[t] \subseteq Taring /\ Todo(t) \subseteq Taring /\ w \in Taring
    BY <1>1, <2>1 DEF InsertTaring, TypeOK
  <2>3. at' \in [Saver -> Row] /\ todo' \in [Saver -> SUBSET Taring]
    BY <2>1, <2>2 DEF TypeOK, Row
  <2> QED  BY <1>1, <2>3 DEF InsertTaring, TypeOK, committed, locks
<1>2. CASE UpsertTare(t)
  <2>1. at[t] \in Taring /\ PairOf[at[t]] \in Pair
    BY <1>2, PairAssumption DEF UpsertTare, TaringKnown
  <2>2. PICK w \in Row, new \in BOOLEAN : Write(t, PairOf[at[t]], w, new)
    <3>1. Sees(t, PairOf[at[t]]) \in Row /\ at[t] \in Row  BY <2>1, SeesType DEF Row
    <3> QED  BY <1>2, <3>1 DEF UpsertTare
  <2>3. /\ owner' \in [Pair -> Tx \cup {None}]
        /\ mine' \in [Pair -> Row] /\ renewed' \in [Pair -> BOOLEAN]
    BY <2>1, <2>2, WriteType
  <2> QED  BY <1>2, <2>3 DEF UpsertTare, TypeOK, committed
<1>3. CASE RecordTareChange(t)
  <2>1. PairOfTx(t) \in Pair  BY <1>3, PairKnown DEF RecordTareChange
  <2>2. changes' \in [Tx -> SUBSET Entry] /\ nextSeq' \in Nat
    BY <1>3, <2>1, AddChangeType DEF RecordTareChange
  <2> QED  BY <1>3, <2>2 DEF RecordTareChange, TypeOK, committed
<1>4. CASE CheckStorno(t)
  BY <1>4 DEF CheckStorno, TypeOK, committed, locks
<1>5. CASE InsertStorno(t)
  BY <1>5 DEF InsertStorno, TypeOK, committed
<1>6. CASE ScanRow(t)
  BY <1>6 DEF ScanRow, TypeOK, committed, locks
<1>7. CASE DeleteRow(t)
  <2>1. PairOfTx(t) \in Pair /\ None \in Row  BY <1>7 DEF DeleteRow, Row
  <2>2. /\ owner' \in [Pair -> Tx \cup {None}]
        /\ mine' \in [Pair -> Row] /\ renewed' \in [Pair -> BOOLEAN]
    BY <1>7, <2>1, WriteType DEF DeleteRow, TypeOK
  <2> QED  BY <1>7, <2>2 DEF DeleteRow, TypeOK, committed
<1>8. CASE SelectLatest(t)
  <2>1. latest' \in [Storno -> Row]
    BY <1>8 DEF SelectLatest, TypeOK, LatestOf, ValidTarings, Row
  <2>2. pc'[t] \in {"log", "restore"} /\ pc' = [pc EXCEPT ![t] = pc'[t]]
    BY <1>8 DEF SelectLatest, TypeOK
  <2> QED  BY <1>8, <2>1, <2>2 DEF SelectLatest, TypeOK, committed, locks
<1>9. CASE InsertRow(t)
  <2>1. PairOfTx(t) \in Pair /\ latest[t] \in Row  BY <1>9 DEF InsertRow, TypeOK
  <2>2. CASE Rollback(t)
    BY <1>9, <2>2, ReleaseType DEF InsertRow, Rollback, TypeOK, committed
  <2>3. CASE ~Rollback(t)
    <3>1. Write(t, PairOfTx(t), latest[t], TRUE)  BY <1>9, <2>3 DEF InsertRow
    <3>2. /\ owner' \in [Pair -> Tx \cup {None}]
          /\ mine' \in [Pair -> Row] /\ renewed' \in [Pair -> BOOLEAN]
      BY <2>1, <3>1, WriteType
    <3> QED  BY <1>9, <2>3, <3>2 DEF InsertRow, TypeOK, committed
  <2> QED  BY <2>2, <2>3
<1>10. CASE Commit(t)
  <2>1. saved' \in SUBSET Taring /\ annulled' \in SUBSET Taring
    BY <1>10 DEF Commit, TypeOK
  <2>2. row' \in [Pair -> Row]  BY <1>10, SeesType DEF Commit
  <2>3. log' \in SUBSET Entry  BY <1>10 DEF Commit, TypeOK
  <2>4. found' \in [Storno -> BOOLEAN]  BY <1>10 DEF Commit, TypeOK
  <2> QED  BY <1>10, <2>1, <2>2, <2>3, <2>4, ReleaseType DEF Commit, TypeOK
<1>11. CASE EndDeadlock(t)
  BY <1>11, ReleaseType DEF EndDeadlock, Rollback, TypeOK, committed
<1>12. CASE Abort(t)
  <2>1. aborts' \in 0 .. MaxAborts  BY <1>12, BoundAssumption DEF Abort, TypeOK
  <2> QED  BY <1>12, <2>1, ReleaseType DEF Abort, Rollback, TypeOK, committed
<1> QED
  BY <1>1, <1>2, <1>3, <1>4, <1>5, <1>6, <1>7, <1>8, <1>9, <1>10, <1>11, <1>12 DEF Step

LEMMA TaringKnownStep ==
  ASSUME TypeOK, TaringKnown, NEW t \in Tx, Step(t) \/ Abort(t)
  PROVE  TaringKnown'
<1> USE Kinds DEF TypeOK, TaringKnown
<1>1. CASE InsertTaring(t)
  <2>1. PICK w \in IF todo[t] = {} THEN Todo(t) ELSE todo[t] : at' = [at EXCEPT ![t] = w]
    BY <1>1 DEF InsertTaring
  <2>2. w \in Taring  BY <1>1, <2>1 DEF InsertTaring
  <2> QED  BY <1>1, <2>1, <2>2 DEF InsertTaring
<1>2. CASE Release(t) /\ pc'[t] \notin {"upsert", "log"} /\ pc' = [pc EXCEPT ![t] = pc'[t]]
  BY <1>2 DEF Release
<1>3. CASE UpsertTare(t)  BY <1>3 DEF UpsertTare
<1>4. CASE RecordTareChange(t)  BY <1>4 DEF RecordTareChange
<1>5. CASE t \in Storno /\ UNCHANGED at /\ \E v : pc' = [pc EXCEPT ![t] = v]
  BY <1>5
<1>6. Rollback(t) \/ Commit(t) => Release(t) /\ pc'[t] \notin {"upsert", "log"} /\ pc' = [pc EXCEPT ![t] = pc'[t]]
  BY DEF Rollback, Commit
<1>7. Step(t) \/ Abort(t) =>
        \/ InsertTaring(t) \/ UpsertTare(t) \/ RecordTareChange(t)
        \/ Rollback(t) \/ Commit(t)
        \/ t \in Storno /\ UNCHANGED at /\ \E v : pc' = [pc EXCEPT ![t] = v]
  BY DEF Step, CheckStorno, InsertStorno, ScanRow, DeleteRow, SelectLatest, InsertRow,
         EndDeadlock, Abort
<1> QED  BY <1>1, <1>2, <1>3, <1>4, <1>5, <1>6, <1>7

-----------------------------------------------------------------------------
(***************************************************************************)
(* One storno per record.                                                  *)
(***************************************************************************)

LEMMA KeyInit == Init => KeyHeld /\ OneStorno
BY Kinds DEF Init, KeyHeld, Storning, OneStorno

(* A transaction that ends otherwise than by its commit gives the record   *)
(* of its storno back.                                                     *)
LEMMA KeyRollback ==
  ASSUME TypeOK, KeyHeld, OneStorno, NEW t \in Tx, Rollback(t), UNCHANGED annulled
  PROVE  KeyHeld' /\ OneStorno'
<1> USE Kinds
<1>1. /\ key' = [w \in Taring |-> IF key[w] = t THEN None ELSE key[w]]
      /\ pc' = [pc EXCEPT ![t] = IF t \in Live THEN "idle" ELSE "failed"]
  BY DEF Rollback, Release
<1>2. ASSUME NEW s \in Storno, Storning(s)' PROVE key'[TargetOf[s]] = s
  <2>1. s # t /\ Storning(s)  BY <1>1, <1>2 DEF Storning, TypeOK
  <2> QED  BY <1>1, <2>1 DEF KeyHeld
<1>3. ASSUME NEW w \in Taring, key'[w] # None
      PROVE  w \notin annulled' /\ TargetOf[key'[w]] = w
  BY <1>1, <1>3 DEF KeyHeld, TypeOK
<1>4. ASSUME NEW s \in Storno, pc'[s] = "done" PROVE TargetOf[s] \in annulled' /\ pc[s] = "done"
  BY <1>1, <1>4 DEF KeyHeld, TypeOK
<1>5. OneStorno'  BY <1>4 DEF OneStorno
<1> QED  BY <1>2, <1>3, <1>4, <1>5 DEF KeyHeld

LEMMA KeyStep ==
  ASSUME TypeOK, KeyHeld, OneStorno, NEW t \in Tx, Step(t) \/ Abort(t)
  PROVE  KeyHeld' /\ OneStorno'
<1> USE Kinds
(* A statement of a transaction that has its record, or needs none. *)
<1>1. ASSUME UNCHANGED <<key, annulled>>, NEW v, pc' = [pc EXCEPT ![t] = v], v # "done",
             t \in Storno => Storning(t) \/ v \in {"refused", "insert"}
      PROVE  KeyHeld' /\ OneStorno'
  <2>1. \A s \in Storno : Storning(s)' => Storning(s)  BY <1>1 DEF Storning, TypeOK
  <2>2. \A s \in Storno : pc'[s] = "done" => pc[s] = "done"  BY <1>1 DEF TypeOK
  <2>3. OneStorno'  BY <2>2 DEF OneStorno
  <2>4. KeyHeld'  BY <1>1, <2>1, <2>2 DEF KeyHeld
  <2> QED  BY <2>3, <2>4
<1>2. CASE InsertTaring(t) \/ UpsertTare(t)
  BY <1>1, <1>2 DEF InsertTaring, UpsertTare, committed, locks
<1>3. CASE RecordTareChange(t)
  <2>1. t \in Storno => Storning(t)  BY <1>3 DEF RecordTareChange, Storning
  <2> QED  BY <1>1, <1>3, <2>1 DEF RecordTareChange, committed
<1>4. CASE CheckStorno(t)
  BY <1>1, <1>4 DEF CheckStorno, committed, locks
<1>5. CASE InsertStorno(t)
  <2>1. CASE TargetOf[t] \in annulled
    BY <1>1, <1>5, <2>1 DEF InsertStorno, committed
  <2>2. CASE TargetOf[t] \notin annulled
    <3>1. /\ t \in Storno /\ pc[t] = "insert" /\ key[TargetOf[t]] = None
          /\ pc' = [pc EXCEPT ![t] = "scan"] /\ key' = [key EXCEPT ![TargetOf[t]] = t]
          /\ UNCHANGED annulled
      BY <1>5, <2>2 DEF InsertStorno, committed
    <3>2. ASSUME NEW s \in Storno, Storning(s)' PROVE key'[TargetOf[s]] = s
      <4>1. CASE s = t  BY <3>1, <4>1 DEF TypeOK
      <4>2. CASE s # t
        <5>1. key[TargetOf[s]] = s  BY <3>1, <3>2, <4>2 DEF Storning, TypeOK, KeyHeld
        <5> QED  BY <3>1, <4>2, <5>1
      <4> QED  BY <4>1, <4>2
    <3>3. ASSUME NEW w \in Taring, key'[w] # None
          PROVE  w \notin annulled' /\ TargetOf[key'[w]] = w
      BY <2>2, <3>1, <3>3 DEF KeyHeld, TypeOK
    <3>4. ASSUME NEW s \in Storno, pc'[s] = "done"
          PROVE  TargetOf[s] \in annulled' /\ pc[s] = "done"
      BY <3>1, <3>4 DEF KeyHeld, TypeOK
    <3>5. OneStorno'  BY <3>4 DEF OneStorno
    <3> QED  BY <3>2, <3>3, <3>4, <3>5 DEF KeyHeld
  <2> QED  BY <2>1, <2>2
<1>5a. CASE ScanRow(t)
  <2>1. Storning(t) /\ UNCHANGED <<key, annulled>>
    BY <1>5a DEF ScanRow, Storning, committed, locks
  <2>2. PICK v \in {"delete", "select"} : pc' = [pc EXCEPT ![t] = v]
    BY <1>5a DEF ScanRow
  <2> QED  BY <1>1, <2>1, <2>2
<1>5b. CASE DeleteRow(t)
  <2>1. Storning(t) /\ UNCHANGED <<key, annulled>>
    BY <1>5b DEF DeleteRow, Storning, committed
  <2>2. pc' = [pc EXCEPT ![t] = "select"]
    BY <1>5b DEF DeleteRow
  <2> QED  BY <1>1, <2>1, <2>2
<1>5c. CASE SelectLatest(t)
  <2>1. Storning(t) /\ UNCHANGED <<key, annulled>>
    BY <1>5c DEF SelectLatest, Storning, committed, locks
  <2>2. PICK v \in {"log", "restore"} : pc' = [pc EXCEPT ![t] = v]
    BY <1>5c DEF SelectLatest
  <2> QED  BY <1>1, <2>1, <2>2
<1>6. CASE InsertRow(t)
  <2>1. CASE Rollback(t)  BY <1>6, <2>1, KeyRollback DEF InsertRow, committed
  <2>2. CASE ~Rollback(t)
    <3>1. Storning(t)  BY <1>6 DEF InsertRow, Storning
    <3> QED  BY <1>1, <1>6, <2>2, <3>1 DEF InsertRow, committed
  <2> QED  BY <2>1, <2>2
<1>7. CASE Commit(t)
  <2>1. /\ pc[t] = "commit" /\ pc' = [pc EXCEPT ![t] = "done"]
        /\ key' = [w \in Taring |-> IF key[w] = t THEN None ELSE key[w]]
        /\ annulled' = annulled \cup {w \in Taring : t \in Storno /\ w = TargetOf[t]}
    BY <1>7 DEF Commit, Release
  <2>2. t \in Storno => key[TargetOf[t]] = t /\ TargetOf[t] \notin annulled
    BY <2>1 DEF KeyHeld, Storning
  <2>3. ASSUME NEW s \in Storno, Storning(s)' PROVE key'[TargetOf[s]] = s
    <3>1. s # t /\ key[TargetOf[s]] = s  BY <2>1, <2>3 DEF Storning, TypeOK, KeyHeld
    <3> QED  BY <2>1, <3>1
  <2>4. ASSUME NEW w \in Taring, key'[w] # None
        PROVE  w \notin annulled' /\ TargetOf[key'[w]] = w
    <3>1. key[w] = key'[w] /\ key[w] # t /\ key[w] # None  BY <2>1, <2>4
    <3>2. w \notin annulled /\ TargetOf[key[w]] = w  BY <3>1 DEF KeyHeld
    <3>3. t \in Storno => w # TargetOf[t]  BY <2>2, <3>1
    <3> QED  BY <2>1, <3>1, <3>2, <3>3
  <2>5. \A s \in Storno : pc'[s] = "done" => TargetOf[s] \in annulled'
    BY <2>1 DEF KeyHeld, TypeOK
  <2>6. ASSUME NEW s \in Storno, NEW u \in Storno, s # u, TargetOf[s] = TargetOf[u],
               pc'[s] = "done", pc'[u] = "done"
        PROVE  FALSE
    <3>1. \A x \in Storno : x # t /\ pc'[x] = "done" => TargetOf[x] \in annulled /\ pc[x] = "done"
      BY <2>1 DEF KeyHeld, TypeOK
    <3>2. CASE s = t  BY <2>2, <2>6, <3>1, <3>2
    <3>3. CASE u = t  BY <2>2, <2>6, <3>1, <3>3
    <3>4. CASE s # t /\ u # t  BY <2>6, <3>1, <3>4 DEF OneStorno
    <3> QED  BY <3>2, <3>3, <3>4
  <2>7. OneStorno'  BY <2>6 DEF OneStorno
  <2> QED  BY <2>3, <2>4, <2>5, <2>7 DEF KeyHeld
<1>8. CASE EndDeadlock(t) \/ Abort(t)
  BY <1>8, KeyRollback DEF EndDeadlock, Abort, committed
<1> QED  BY <1>2, <1>3, <1>4, <1>5, <1>5a, <1>5b, <1>5c, <1>6, <1>7, <1>8 DEF Step

-----------------------------------------------------------------------------
(***************************************************************************)
(* The numbers of the changes.                                             *)
(***************************************************************************)

LEMMA NumberedInit == Init => Numbered
BY Kinds DEF Init, Numbered, Injective

(* A transaction that ends without its changes. *)
LEMMA NumberedRollback ==
  ASSUME TypeOK, Numbered, NEW t \in Tx, Rollback(t), UNCHANGED <<log, nextSeq>>
  PROVE  Numbered'
<1>1. /\ changes' = [changes EXCEPT ![t] = {}] /\ lock' = IF lock = t THEN None ELSE lock
      /\ pc'[t] # "commit" /\ \A u \in Tx : u # t => pc'[u] = pc[u]
  BY DEF Rollback, Release, TypeOK
<1>2. \A u \in Tx : changes'[u] = IF u = t THEN {} ELSE changes[u]  BY <1>1 DEF TypeOK
<1>3. \A u \in Tx : changes'[u] # {} \/ pc'[u] = "commit" => lock' = u
  BY <1>1, <1>2 DEF Numbered
<1>4. \A u \in Tx : Injective(changes'[u])  BY <1>2 DEF Numbered, Injective
<1> QED  BY <1>2, <1>3, <1>4 DEF Numbered, Injective

LEMMA NumberedStep ==
  ASSUME TypeOK, TaringKnown, Numbered, NEW t \in Tx, Step(t) \/ Abort(t)
  PROVE  Numbered'
<1> USE Kinds
<1>1. ASSUME UNCHANGED <<log, nextSeq, changes, lock>>,
             NEW v, v # "commit", pc' = [pc EXCEPT ![t] = v]
      PROVE  Numbered'
  <2>1. \A u \in Tx : pc'[u] = "commit" => pc[u] = "commit"  BY <1>1 DEF TypeOK
  <2> QED  BY <1>1, <2>1 DEF Numbered, Injective
<1>2. CASE InsertTaring(t) \/ UpsertTare(t) \/ CheckStorno(t) \/ InsertStorno(t)
           \/ ScanRow(t) \/ DeleteRow(t) \/ SelectLatest(t)
  <2>1. UNCHANGED <<log, nextSeq, changes, lock>>
    BY <1>2 DEF InsertTaring, UpsertTare, CheckStorno, InsertStorno, ScanRow, DeleteRow,
                SelectLatest, committed, locks, Write
  <2>2. PICK v : v # "commit" /\ pc' = [pc EXCEPT ![t] = v]
    BY <1>2 DEF InsertTaring, UpsertTare, CheckStorno, InsertStorno, ScanRow, DeleteRow,
                SelectLatest
  <2> QED  BY <1>1, <2>1, <2>2
<1>3. CASE RecordTareChange(t)
  <2> DEFINE p == PairOfTx(t)
             e == [seq |-> nextSeq, pair |-> p, taring |-> Sees(t, p)]
  <2>1. /\ lock \in {None, t} /\ lock' = t
        /\ changes' = [changes EXCEPT ![t] = @ \cup {e}]
        /\ nextSeq' = nextSeq + 1 /\ UNCHANGED log
        /\ \A u \in Tx : u # t => pc'[u] = pc[u]
    BY <1>3 DEF RecordTareChange, AddChange, committed, TypeOK
  <2>2. \A u \in Tx : u # t => changes[u] = {} /\ pc[u] # "commit" /\ changes'[u] = {}
    BY <2>1 DEF Numbered, TypeOK
  <2>3. changes'[t] = changes[t] \cup {e} /\ e.seq = nextSeq  BY <2>1 DEF TypeOK
  <2>4. nextSeq \in Nat /\ nextSeq' \in Nat /\ nextSeq < nextSeq'
        /\ (\A d \in log : d.seq \in Nat) /\ (\A d \in changes[t] : d.seq \in Nat)
    BY <2>1 DEF TypeOK, Entry
  <2>5. /\ \A d \in changes[t] : d.seq < nextSeq /\ \A c \in log : c.seq < d.seq
        /\ \A d \in log : d.seq < nextSeq
        /\ Injective(changes[t])
    BY DEF Numbered
  <2>6. Injective(changes'[t])  BY <2>3, <2>4, <2>5 DEF Injective
  <2>7. \A d \in changes'[t] : d.seq < nextSeq' /\ \A c \in log : c.seq < d.seq
    BY <2>1, <2>3, <2>4, <2>5
  <2>8. \A d \in log : d.seq < nextSeq'  BY <2>4, <2>5
  <2>9. Injective({})  BY DEF Injective
  <2> QED  BY <2>1, <2>2, <2>6, <2>7, <2>8, <2>9 DEF Numbered
<1>4. CASE InsertRow(t)
  <2>1. CASE Rollback(t)  BY <1>4, <2>1, NumberedRollback DEF InsertRow, committed
  <2>2. CASE ~Rollback(t)
    BY <1>1, <1>4, <2>2 DEF InsertRow, committed
  <2> QED  BY <2>1, <2>2
<1>5. CASE Commit(t)
  <2>1. /\ pc[t] = "commit" /\ log' = log \cup changes[t] /\ UNCHANGED nextSeq
        /\ changes' = [changes EXCEPT ![t] = {}] /\ pc' = [pc EXCEPT ![t] = "done"]
        /\ lock' = IF lock = t THEN None ELSE lock
    BY <1>5 DEF Commit, Release
  <2>2. lock = t /\ \A u \in Tx : u # t => changes[u] = {} /\ pc[u] # "commit"
    BY <2>1 DEF Numbered
  <2>3. \A u \in Tx : changes'[u] = {} /\ pc'[u] # "commit"
    BY <2>1, <2>2 DEF TypeOK
  <2>4. \A e \in log' : e.seq < nextSeq'  BY <2>1 DEF Numbered
  <2>5. Injective(log')
    <3>1. \A e \in log \cup changes[t] : e.seq \in Nat  BY DEF TypeOK, Entry
    <3>2. \A e \in changes[t], d \in log : d.seq < e.seq  BY DEF Numbered
    <3>3. \A e \in changes[t], d \in log : d.seq # e.seq  BY <3>1, <3>2
    <3> QED  BY <2>1, <3>3 DEF Numbered, Injective
  <2>6. Injective({})  BY DEF Injective
  <2> QED  BY <2>3, <2>4, <2>5, <2>6 DEF Numbered
<1>6. CASE EndDeadlock(t) \/ Abort(t)
  BY <1>6, NumberedRollback DEF EndDeadlock, Abort, committed
<1> QED  BY <1>2, <1>3, <1>4, <1>5, <1>6 DEF Step

-----------------------------------------------------------------------------
(***************************************************************************)
(* What the changes tell.                                                  *)
(***************************************************************************)

LEMMA ToldInit == Init => Told
BY Kinds DEF Init, Told, ToldOf, Silent

(* A transaction nothing happened to. *)
LEMMA ToldKept ==
  ASSUME NEW u \in Tx, NEW p \in Pair, ToldOf(u, p), Dirty(u, p) => Dirty(u, p)',
         changes'[u] = changes[u], row'[p] = row[p],
         owner'[p] = u <=> owner[p] = u, owner[p] = u => mine'[p] = mine[p]
  PROVE  ToldOf(u, p)'
<1>1. Sees(u, p)' = Sees(u, p)  BY DEF Sees
<1>2. Silent(changes[u], p) => Silent(changes'[u], p)  OBVIOUS
<1>3. Tells(changes[u], p, Sees(u, p)) => Tells(changes'[u], p, Sees(u, p)')  BY <1>1
<1> QED  BY <1>2, <1>3 DEF ToldOf

LEMMA ToldRollback ==
  ASSUME TypeOK, Told, NEW t \in Tx, Rollback(t), UNCHANGED <<log, row>>
  PROVE  Told'
<1>1. /\ owner' = [p \in Pair |-> IF owner[p] = t THEN None ELSE owner[p]]
      /\ mine' = [p \in Pair |-> IF owner[p] = t THEN None ELSE mine[p]]
      /\ changes' = [changes EXCEPT ![t] = {}]
      /\ at' = IF t \in Saver THEN [at EXCEPT ![t] = None] ELSE at
      /\ \A u \in Tx : u # t => pc'[u] = pc[u]
  BY DEF Rollback, Release, TypeOK
<1>2. ASSUME NEW p \in Pair PROVE ToldOf(t, p)'
  <2>1. changes'[t] = {} /\ owner'[p] # t  BY <1>1, Kinds DEF TypeOK
  <2> QED  BY <2>1 DEF ToldOf, Silent
<1>3. ASSUME NEW u \in Tx, u # t, NEW p \in Pair PROVE ToldOf(u, p)'
  <2>1. changes'[u] = changes[u]  BY <1>1, <1>3 DEF TypeOK
  <2>2. PairOfTx(u)' = PairOfTx(u)  BY <1>1, <1>3, Kinds DEF PairOfTx, TypeOK, Tx
  <2>3. Dirty(u, p) => Dirty(u, p)'  BY <1>1, <1>3, <2>2 DEF Dirty
  <2>4. (owner'[p] = u <=> owner[p] = u) /\ (owner[p] = u => mine'[p] = mine[p])
    BY <1>1, <1>3, Kinds
  <2> QED  BY <2>1, <2>3, <2>4, ToldKept DEF Told
<1> QED  BY <1>2, <1>3 DEF Told

(* A statement about the row of p; t will tell it, or has not touched it. *)
LEMMA ToldWrite ==
  ASSUME TypeOK, Told, NEW t \in Tx, NEW p \in Pair, Free(t, p),
         UNCHANGED <<log, row, changes, at>>,
         \A u \in Tx : u # t => pc'[u] = pc[u],
         Dirty(t, p)', ~Dirty(t, p) \/ PairOfTx(t) = p,
         \/ UNCHANGED <<owner, mine>>
         \/ \E w \in Row, new \in BOOLEAN : Write(t, p, w, new)
  PROVE  Told'
<1>1. /\ \A q \in Pair : q # p => owner'[q] = owner[q] /\ mine'[q] = mine[q]
      /\ (owner'[p] = owner[p] /\ mine'[p] = mine[p]) \/ owner'[p] = t
  BY DEF Write, TypeOK
<1>2. ASSUME NEW u \in Tx, u # t, NEW q \in Pair PROVE ToldOf(u, q)'
  <2>1. PairOfTx(u)' = PairOfTx(u)  BY DEF PairOfTx
  <2>2. Dirty(u, q) => Dirty(u, q)'  BY <1>2, <2>1 DEF Dirty
  <2>3. (owner'[q] = u <=> owner[q] = u) /\ (owner[q] = u => mine'[q] = mine[q])
    BY <1>1, <1>2, Kinds DEF Free
  <2> QED  BY <2>2, <2>3, ToldKept DEF Told
<1>3. ASSUME NEW q \in Pair PROVE ToldOf(t, q)'
  <2>1. CASE q = p  BY <2>1 DEF ToldOf
  <2>2. CASE q # p
    <3>1. PairOfTx(t)' = p  BY DEF Dirty
    <3>2. PairOfTx(t) = p  BY <3>1 DEF PairOfTx
    <3>3. ~Dirty(t, q)  BY <2>2, <3>2 DEF Dirty
    <3> QED  BY <1>1, <2>2, <3>3, ToldKept DEF Told
  <2> QED  BY <2>1, <2>2
<1> QED  BY <1>2, <1>3 DEF Told

LEMMA ToldStep ==
  ASSUME TypeOK, TaringKnown, Numbered, Told, NEW t \in Tx, Step(t) \/ Abort(t)
  PROVE  Told'
<1> USE Kinds
(* Nothing is written and the transaction is not in the middle of a row. *)
<1>1. ASSUME UNCHANGED <<log, row, changes, owner, mine>>, ~Dirty(t, PairOfTx(t)),
             \A u \in Tx : u # t => pc'[u] = pc[u] /\ PairOfTx(u)' = PairOfTx(u)
      PROVE  Told'
  <2>1. ASSUME NEW u \in Tx, NEW p \in Pair PROVE ToldOf(u, p)'
    <3>1. Dirty(u, p) => Dirty(u, p)'  BY <1>1 DEF Dirty
    <3> QED  BY <1>1, <3>1, ToldKept DEF Told
  <2> QED  BY <1>1, <2>1 DEF Told
<1>2. CASE InsertTaring(t)
  <2>1. \A u \in Tx : u # t => pc'[u] = pc[u] /\ PairOfTx(u)' = PairOfTx(u)
    <3>1. PICK w : at' = [at EXCEPT ![t] = w]  BY <1>2 DEF InsertTaring
    <3> QED  BY <1>2, <3>1 DEF InsertTaring, TypeOK, PairOfTx, Tx
  <2>2. ~Dirty(t, PairOfTx(t))  BY <1>2 DEF InsertTaring, Dirty
  <2> QED  BY <1>1, <1>2, <2>1, <2>2 DEF InsertTaring, committed, locks
<1>3. CASE CheckStorno(t) \/ InsertStorno(t)
  <2>1. UNCHANGED <<log, row, changes, owner, mine, at>> /\ ~Dirty(t, PairOfTx(t))
    BY <1>3 DEF CheckStorno, InsertStorno, committed, locks, Dirty
  <2>2. \A u \in Tx : u # t => pc'[u] = pc[u]
    BY <1>3 DEF CheckStorno, InsertStorno, TypeOK
  <2> QED  BY <1>1, <2>1, <2>2 DEF PairOfTx
<1>4. CASE ScanRow(t)
  <2>1. UNCHANGED <<log, row, changes, owner, mine, at>> /\ ~Dirty(t, PairOfTx(t))
    BY <1>4 DEF ScanRow, committed, locks, Dirty
  <2>2. \A u \in Tx : u # t => pc'[u] = pc[u]
    BY <1>4 DEF ScanRow, TypeOK
  <2> QED  BY <1>1, <2>1, <2>2 DEF PairOfTx
<1>5. CASE UpsertTare(t)
  <2>1. PICK p \in Pair : p = PairOf[at[t]] /\ at[t] \in Taring /\ PairOfTx(t) = p
    BY <1>5, PairAssumption DEF UpsertTare, TaringKnown, PairOfTx
  <2>2. Sees(t, p) \in Row /\ at[t] \in Row  BY <2>1, SeesType DEF Row
  <2>3. \E w \in Row, new \in BOOLEAN : Write(t, p, w, new)
    BY <1>5, <2>1, <2>2 DEF UpsertTare
  <2>4. UNCHANGED <<log, row, changes, at>> /\ Free(t, p)
    BY <1>5, <2>1 DEF UpsertTare, committed
  <2>5. pc'[t] = "log" /\ \A u \in Tx : u # t => pc'[u] = pc[u]
    BY <1>5 DEF UpsertTare, TypeOK
  <2>6. Dirty(t, p)'  BY <2>1, <2>4, <2>5 DEF Dirty, PairOfTx
  <2> QED  BY <2>1, <2>3, <2>4, <2>5, <2>6, ToldWrite
<1>6. CASE DeleteRow(t)
  <2>1. PICK p \in Pair : p = PairOfTx(t) /\ None \in Row  BY <1>6 DEF DeleteRow, Row
  <2>2. \/ UNCHANGED <<owner, mine>>
        \/ \E w \in Row, new \in BOOLEAN : Write(t, p, w, new)
    BY <1>6, <2>1 DEF DeleteRow
  <2>3. UNCHANGED <<log, row, changes, at>> /\ Free(t, p)
    BY <1>6, <2>1 DEF DeleteRow, committed
  <2>4. pc'[t] = "select" /\ \A u \in Tx : u # t => pc'[u] = pc[u]
    BY <1>6 DEF DeleteRow, TypeOK
  <2>5. Dirty(t, p)'  BY <2>1, <2>3, <2>4 DEF Dirty, PairOfTx
  <2> QED  BY <2>1, <2>2, <2>3, <2>4, <2>5, ToldWrite
<1>7. CASE SelectLatest(t)
  <2>1. UNCHANGED <<log, row, changes, owner, mine, at>>
    BY <1>7 DEF SelectLatest, committed, locks
  <2>2. pc'[t] \in {"restore", "log"} /\ \A u \in Tx : u # t => pc'[u] = pc[u]
    BY <1>7 DEF SelectLatest, TypeOK
  <2>3. ASSUME NEW u \in Tx, NEW p \in Pair PROVE ToldOf(u, p)'
    <3>1. Dirty(u, p) => Dirty(u, p)'  BY <2>1, <2>2 DEF Dirty, PairOfTx
    <3> QED  BY <2>1, <3>1, ToldKept DEF Told
  <2> QED  BY <2>1, <2>3 DEF Told
<1>8. CASE InsertRow(t)
  <2>1. CASE Rollback(t)  BY <1>8, <2>1, ToldRollback DEF InsertRow, committed
  <2>2. CASE ~Rollback(t)
    <3>1. PICK p \in Pair : p = PairOfTx(t) /\ latest[t] \in Row  BY <1>8 DEF InsertRow, TypeOK
    <3>2. \E w \in Row, new \in BOOLEAN : Write(t, p, w, new)
      BY <1>8, <2>2, <3>1 DEF InsertRow
    <3>3. UNCHANGED <<log, row, changes, at>> /\ Free(t, p)
      BY <1>8, <2>2, <3>1 DEF InsertRow, committed
    <3>4. pc'[t] = "log" /\ \A u \in Tx : u # t => pc'[u] = pc[u]
      BY <1>8, <2>2 DEF InsertRow, TypeOK
    <3>5. Dirty(t, p)'  BY <3>1, <3>3, <3>4 DEF Dirty, PairOfTx
    <3> QED  BY <3>1, <3>2, <3>3, <3>4, <3>5, ToldWrite
  <2> QED  BY <2>1, <2>2
<1>9. CASE RecordTareChange(t)
  <2>1. PICK p \in Pair : p = PairOfTx(t)  BY <1>9, PairKnown DEF RecordTareChange
  <2>1a. PICK e : e = [seq |-> nextSeq, pair |-> p, taring |-> Sees(t, p)]  OBVIOUS
  <2>2. /\ changes' = [changes EXCEPT ![t] = @ \cup {e}] /\ pc[t] = "log"
        /\ UNCHANGED <<log, row, owner, mine, at>>
        /\ \A u \in Tx : u # t => pc'[u] = pc[u]
    BY <1>9, <2>1, <2>1a DEF RecordTareChange, AddChange, committed, TypeOK
  <2>3. changes'[t] = changes[t] \cup {e}  BY <2>2 DEF TypeOK
  <2>4. e.seq = nextSeq /\ e.pair = p /\ e.taring = Sees(t, p) /\ nextSeq \in Nat
    BY <2>1a DEF TypeOK
  <2>5. \A d \in changes'[t] : d.seq <= e.seq
    <3>1. \A d \in changes[t] : d.seq \in Nat /\ d.seq < nextSeq
      BY DEF Numbered, TypeOK, Entry
    <3> QED  BY <2>3, <2>4, <3>1
  <2>6. \A q \in Pair : Sees(t, q)' = Sees(t, q)  BY <2>2 DEF Sees
  <2>7. Tells(changes'[t], p, Sees(t, p)')
    BY <2>1, <2>3, <2>4, <2>5, <2>6 DEF Tells
  <2>8. ASSUME NEW q \in Pair, q # p PROVE ToldOf(t, q)'
    <3>1. ~Dirty(t, q)  BY <2>1, <2>8 DEF Dirty
    <3>2. Silent(changes[t], q) => Silent(changes'[t], q)
      BY <2>3, <2>4, <2>8 DEF Silent
    <3>3. Tells(changes[t], q, Sees(t, q)) => Tells(changes'[t], q, Sees(t, q)')
      <4>1. SUFFICES ASSUME Tells(changes[t], q, Sees(t, q))
                     PROVE  Tells(changes'[t], q, Sees(t, q)')
        OBVIOUS
      <4>2. PICK m \in changes[t] : /\ m.pair = q /\ m.taring = Sees(t, q)
                                    /\ \A d \in changes[t] : d.pair = q => d.seq <= m.seq
        BY <4>1 DEF Tells
      <4>3. \A d \in changes'[t] : d.pair = q => d.seq <= m.seq
        BY <2>3, <2>4, <2>8, <4>2
      <4> QED  BY <2>3, <2>6, <4>2, <4>3 DEF Tells
    <3> QED  BY <2>2, <3>1, <3>2, <3>3 DEF Told, ToldOf
  <2>9. ToldOf(t, p)'  BY <2>7 DEF ToldOf
  <2>10. ASSUME NEW u \in Tx, u # t, NEW q \in Pair PROVE ToldOf(u, q)'
    <3>1. changes'[u] = changes[u]  BY <2>2, <2>10 DEF TypeOK
    <3>2. Dirty(u, q) => Dirty(u, q)'  BY <2>2, <2>10 DEF Dirty, PairOfTx
    <3> QED  BY <2>2, <3>1, <3>2, ToldKept DEF Told
  <2> QED  BY <2>2, <2>8, <2>9, <2>10 DEF Told
<1>10. CASE Commit(t)
  <2>1. /\ pc[t] = "commit" /\ log' = log \cup changes[t]
        /\ row' = [p \in Pair |-> Sees(t, p)]
        /\ owner' = [p \in Pair |-> IF owner[p] = t THEN None ELSE owner[p]]
        /\ changes' = [changes EXCEPT ![t] = {}]
        /\ at' = IF t \in Saver THEN [at EXCEPT ![t] = None] ELSE at
        /\ \A u \in Tx : u # t => pc'[u] = pc[u]
    BY <1>10 DEF Commit, Release, TypeOK
  <2>2. lock = t /\ \A u \in Tx : u # t => changes[u] = {}
    BY <2>1 DEF Numbered
  <2>3. ASSUME NEW u \in Tx, NEW p \in Pair PROVE ToldOf(u, p)'
    <3>1. CASE u = t
      <4>1. changes'[u] = {} /\ owner'[p] # u  BY <2>1, <3>1 DEF TypeOK
      <4> QED  BY <4>1 DEF ToldOf, Silent
    <3>2. CASE u # t
      <4>1. changes[u] = {} /\ changes'[u] = {}  BY <2>1, <2>2, <3>2 DEF TypeOK
      <4>2. ~Dirty(u, p) => owner[p] # u  BY <4>1 DEF Told, ToldOf, Tells
      <4>3. PairOfTx(u)' = PairOfTx(u)  BY <2>1, <3>2 DEF PairOfTx, TypeOK, Tx
      <4>4. ~Dirty(u, p)' => owner'[p] # u  BY <2>1, <3>2, <4>2, <4>3 DEF Dirty
      <4> QED  BY <4>1, <4>4 DEF ToldOf, Silent
    <3> QED  BY <3>1, <3>2
  <2>4. ASSUME NEW p \in Pair
        PROVE  (Silent(log', p) /\ row'[p] = None) \/ Tells(log', p, row'[p])
    <3>1. ~Dirty(t, p)  BY <2>1 DEF Dirty
    <3>2. CASE Silent(changes[t], p) /\ owner[p] # t
      <4>1. row'[p] = row[p]  BY <2>1, <3>2 DEF Sees
      <4>2. Silent(log, p) => Silent(log', p)  BY <2>1, <3>2 DEF Silent
      <4>3. ASSUME Tells(log, p, row[p]) PROVE Tells(log', p, row'[p])
        <5>1. PICK m \in log : /\ m.pair = p /\ m.taring = row[p]
                               /\ \A d \in log : d.pair = p => d.seq <= m.seq
          BY <4>3 DEF Tells
        <5>2. \A d \in log' : d.pair = p => d.seq <= m.seq
          BY <2>1, <3>2, <5>1 DEF Silent
        <5> QED  BY <2>1, <4>1, <5>1, <5>2 DEF Tells
      <4> QED  BY <4>1, <4>2, <4>3 DEF Told
    <3>3. CASE Tells(changes[t], p, Sees(t, p))
      <4>1. PICK m \in changes[t] : /\ m.pair = p /\ m.taring = Sees(t, p)
                                    /\ \A d \in changes[t] : d.pair = p => d.seq <= m.seq
        BY <3>3 DEF Tells
      <4>2. \A d \in log : d.seq <= m.seq
        <5>1. m.seq \in Nat /\ \A d \in log : d.seq \in Nat /\ d.seq < m.seq
          BY <4>1 DEF Numbered, TypeOK, Entry
        <5> QED  BY <5>1
      <4>3. row'[p] = Sees(t, p)  BY <2>1
      <4> QED  BY <2>1, <4>1, <4>2, <4>3 DEF Tells
    <3> QED  BY <3>1, <3>2, <3>3 DEF Told, ToldOf
  <2> QED  BY <2>3, <2>4 DEF Told
<1>11. CASE EndDeadlock(t) \/ Abort(t)
  BY <1>11, ToldRollback DEF EndDeadlock, Abort, committed
<1> QED
  BY <1>2, <1>3, <1>4, <1>5, <1>6, <1>7, <1>8, <1>9, <1>10, <1>11 DEF Step

-----------------------------------------------------------------------------
(***************************************************************************)
(* Who waits with the lock.                                                *)
(***************************************************************************)

LEMMA LockLateInit == Init => LockLate
BY Kinds DEF Init, LockLate

LEMMA LockLateRelease ==
  ASSUME TypeOK, LockLate, NEW t \in Tx, Release(t), \A u \in Tx : u # t => pc'[u] = pc[u]
  PROVE  LockLate'
<1>1. \A u \in Live : todo'[u] = {}  BY Kinds DEF Release, LockLate, TypeOK
<1>2. \A u \in Tx : lock' = u => u # t /\ lock = u  BY Kinds DEF Release
<1> QED  BY <1>1, <1>2 DEF LockLate

LEMMA LockLateStep ==
  ASSUME TypeOK, Numbered, LockLate, NEW t \in Tx, Step(t) \/ Abort(t)
  PROVE  LockLate'
<1> USE Kinds
<1>1. ASSUME UNCHANGED <<todo, lock>>, NEW v, pc' = [pc EXCEPT ![t] = v], pc[t] # "commit"
      PROVE  LockLate'
  BY <1>1 DEF LockLate, TypeOK
<1>2. CASE InsertTaring(t)
  <2>1. PICK w \in IF todo[t] = {} THEN Todo(t) ELSE todo[t] :
          todo' = [todo EXCEPT ![t] = (IF @ = {} THEN Todo(t) ELSE @) \ {w}]
    BY <1>2 DEF InsertTaring
  <2>2. t \in Live => todo[t] = {} /\ Todo(t) = {t}
    BY TxAssumption DEF LockLate, Todo, Taring
  <2>3. t \in Live => todo'[t] = {}  BY <2>1, <2>2 DEF TypeOK
  <2>4. \A u \in Live : todo'[u] = {}  BY <2>1, <2>3 DEF LockLate, TypeOK
  <2> QED  BY <1>2, <2>4 DEF InsertTaring, LockLate, TypeOK, locks
<1>3. CASE UpsertTare(t) \/ CheckStorno(t) \/ InsertStorno(t)
           \/ ScanRow(t) \/ DeleteRow(t) \/ SelectLatest(t)
  <2>1. UNCHANGED <<todo, lock>> /\ pc[t] # "commit"
    BY <1>3 DEF UpsertTare, CheckStorno, InsertStorno, ScanRow, DeleteRow, SelectLatest,
                locks, Write
  <2>2. PICK v : pc' = [pc EXCEPT ![t] = v]
    BY <1>3 DEF UpsertTare, CheckStorno, InsertStorno, ScanRow, DeleteRow, SelectLatest
  <2> QED  BY <1>1, <2>1, <2>2
<1>4. CASE RecordTareChange(t)
  <2>1. t \in Live => todo[t] = {}  BY DEF LockLate
  <2>2. t # Tool => pc'[t] = "commit"  BY <1>4, <2>1 DEF RecordTareChange, TypeOK, Tx, Saver
  <2> QED  BY <1>4, <2>2 DEF RecordTareChange, LockLate, TypeOK
<1>5. CASE InsertRow(t)
  <2>1. CASE Rollback(t)
    BY <2>1, LockLateRelease DEF Rollback, TypeOK
  <2>2. CASE ~Rollback(t)
    BY <1>1, <1>5, <2>2 DEF InsertRow
  <2> QED  BY <2>1, <2>2
<1>6. CASE Commit(t)  BY <1>6, LockLateRelease DEF Commit, TypeOK
<1>7. CASE EndDeadlock(t) \/ Abort(t)
  BY <1>7, LockLateRelease DEF EndDeadlock, Abort, Rollback, TypeOK
<1> QED  BY <1>2, <1>3, <1>4, <1>5, <1>6, <1>7 DEF Step

-----------------------------------------------------------------------------
(***************************************************************************)
(* The theorems.                                                           *)
(***************************************************************************)

LEMMA InvInductive == IInv /\ [Next]_vars => IInv'
<1> SUFFICES ASSUME IInv, [Next]_vars PROVE IInv'  OBVIOUS
<1>1. CASE Next
  <2>1. PICK t \in Tx : Step(t) \/ Abort(t)  BY <1>1 DEF Next
  <2> QED
    BY <2>1, TypeStep, TaringKnownStep, KeyStep, NumberedStep, ToldStep, LockLateStep DEF IInv
<1>2. CASE UNCHANGED vars
  <2> USE <1>2 DEF vars, committed, locks, txVars
  <2>1. TypeOK' /\ TaringKnown'  BY DEF IInv, TypeOK, TaringKnown
  <2>2. KeyHeld' /\ OneStorno'  BY DEF IInv, KeyHeld, Storning, OneStorno
  <2>3. Numbered' /\ LockLate'  BY DEF IInv, Numbered, Injective, LockLate
  <2>4. Told'
    BY DEF IInv, Told, ToldOf, Silent, Tells, Sees, Dirty, PairOfTx
  <2> QED  BY <2>1, <2>2, <2>3, <2>4 DEF IInv
<1> QED  BY <1>1, <1>2

(* The inductive invariant: types, the uncommitted storno of a taring, the *)
(* numbers above the committed ones, every change told but the one in hand.*)
THEOREM RegistryInvariant == Spec => []IInv
<1>1. Init => IInv
  BY TypeInit, KeyInit, NumberedInit, ToldInit, LockLateInit DEF IInv
<1> QED  BY <1>1, InvInductive, PTL DEF Spec

(* The variables of the transactions keep their types.                     *)
THEOREM RegistryTypeCorrect == Spec => []TypeOK
<1>1. IInv => TypeOK  BY DEF IInv
<1> QED  BY <1>1, RegistryInvariant, PTL

(* However many stornos of a record are requested at once, one commits.    *)
THEOREM OneStornoHolds == Spec => []OneStorno
<1>1. IInv => OneStorno  BY DEF IInv
<1> QED  BY <1>1, RegistryInvariant, PTL

(* The change journal, read in the order of its numbers, ends with the     *)
(* registry as it is committed, after every transaction.                   *)
THEOREM LogTracksRegistryHolds == Spec => []LogTracksRegistry
<1>1. ASSUME IInv PROVE LogTracksRegistry
  <2> SUFFICES ASSUME NEW p \in Pair
               PROVE  LET own == {e \in log : e.pair = p} IN
                      row[p] = IF own = {} THEN None
                               ELSE (CHOOSE e \in own : \A d \in own : d.seq <= e.seq).taring
    BY DEF LogTracksRegistry
  <2> DEFINE own == {e \in log : e.pair = p}
             top == CHOOSE e \in own : \A d \in own : d.seq <= e.seq
  <2>1. CASE Silent(log, p) /\ row[p] = None
    <3>1. own = {}  BY <2>1 DEF Silent
    <3> QED  BY <2>1, <3>1
  <2>2. CASE Tells(log, p, row[p])
    <3>1. PICK m \in own : m.taring = row[p] /\ \A d \in own : d.seq <= m.seq
      BY <2>2 DEF Tells
    <3>2. top \in own /\ \A d \in own : d.seq <= top.seq  BY <3>1
    <3>3. m.seq \in Nat /\ top.seq \in Nat  BY <1>1, <3>1, <3>2 DEF IInv, TypeOK, Entry
    <3>4. m.seq <= top.seq /\ top.seq <= m.seq  BY <3>1, <3>2
    <3>5. m.seq = top.seq  BY <3>3, <3>4
    <3>6. top = m  BY <1>1, <3>1, <3>2, <3>5 DEF IInv, Numbered, Injective
    <3> QED  BY <3>1, <3>6
  <2> QED  BY <1>1, <2>1, <2>2 DEF IInv, Told
<1> QED  BY <1>1, RegistryInvariant, PTL

(* The requests of the center never deadlock with one another: a deadlock  *)
(* has the import in it.                                                   *)
THEOREM OnlyToolDeadlocksHolds == Spec => []OnlyToolDeadlocks
<1>1. IInv => OnlyToolDeadlocks
  BY DEF IInv, LockLate, OnlyToolDeadlocks, Deadlocked, WaitsForRow
<1> QED  BY <1>1, RegistryInvariant, PTL

(* A change never becomes visible with a number below one that was visible *)
(* before it.                                                              *)
THEOREM NumbersFollowCommitsHolds == Spec => NumbersFollowCommits
<1>1. ASSUME IInv, [Next]_vars
      PROVE  [\A e \in log' \ log, d \in log : d.seq < e.seq]_vars
  <2>1. SUFFICES ASSUME NEW t \in Tx, Step(t) \/ Abort(t)
                 PROVE  log' = log \/ log' = log \cup changes[t]
    BY <1>1, <2>1 DEF Next, IInv, Numbered, vars, committed
  <2> QED
    BY <2>1 DEF Step, InsertTaring, UpsertTare, RecordTareChange, CheckStorno, InsertStorno,
                ScanRow, DeleteRow, SelectLatest, InsertRow, Commit, EndDeadlock, Abort, committed
<1> QED  BY <1>1, RegistryInvariant, PTL DEF Spec, NumbersFollowCommits

-----------------------------------------------------------------------------
(***************************************************************************)
(* The registry follows the journal where no two stornos of different      *)
(* tarings of one pair are at work at the same time: with two of them it   *)
(* may not (the annulled_tare run).                                        *)
(***************************************************************************)
StornosApart ==
  \A s, u \in Storno :
    Storning(s) /\ Storning(u) /\ PairOfTx(s) = PairOfTx(u) => TargetOf[s] = TargetOf[u]

(* The row that a pair with the valid tarings W is to have. *)
Newest(w, W) == IF W = {} THEN w = None ELSE w \in LatestOf(W)

(* The tarings a saver has brought into the registry, uncommitted. *)
Written(t) ==
  IF pc[t] \in {"upsert", "log", "commit"} \/ todo[t] # {}
  THEN {w \in Todo(t) \ todo[t] : ~(pc[t] = "upsert" /\ w = at[t])}
  ELSE {}
WrittenFor(t, p) == {w \in Written(t) : PairOf[w] = p}

JournalSane ==
  /\ annulled \subseteq saved
  /\ \A s \in Storno : Storning(s) \/ pc[s] = "insert" => TargetOf[s] \in saved
  /\ \A t \in Saver : pc[t] # "done" => Todo(t) \cap saved = {}
  /\ \A t \in Saver : todo[t] \subseteq Todo(t) /\ (pc[t] = "commit" => todo[t] = {})
  /\ \A t \in Saver : pc[t] = "upsert" => at[t] \in Todo(t) \ todo[t]

(* Committed, held by a saver, held by a storno: whose row a pair has. *)
RowRight == \A p \in Pair : Newest(row[p], ValidTarings(p, {}))
SaverHolds(t, p) ==
  /\ mine[p] # None
  /\ Newest(mine[p], ValidTarings(p, {}) \cup WrittenFor(t, p))
  /\ renewed[p] => row[p] = None
SaverRight ==
  \A t \in Saver :
    /\ \A w \in Written(t) : owner[PairOf[w]] = t
    /\ \A p \in Pair : owner[p] = t => SaverHolds(t, p)
Holding(s) == pc[s] \in {"select", "restore", "log", "commit"}
StornoHolds(s) ==
  LET p    == PairOfTx(s)
      rest == ValidTarings(p, {TargetOf[s]})
  IN /\ pc[s] \in {"select", "restore"} => mine[p] = None
     /\ pc[s] = "restore" => latest[s] \in LatestOf(rest)
     /\ pc[s] \in {"log", "commit"} => Newest(mine[p], rest)
StornoRight ==
  \A s \in Storno :
    /\ pc[s] = "delete" => found[s]
    /\ Holding(s) => owner[PairOfTx(s)] = s /\ StornoHolds(s)
    /\ \A p \in Pair : owner[p] = s => p = PairOfTx(s) /\ Holding(s)

FollowInv == JournalSane /\ RowRight /\ SaverRight /\ StornoRight

(* A taring newer than the row replaces it. *)
LEMMA NewestWith ==
  ASSUME NEW W \in SUBSET Taring, NEW old, Newest(old, W), NEW w \in Taring
  PROVE  /\ Newest(IF old = None \/ TaredAt[old] <= TaredAt[w] THEN w ELSE old, W \cup {w})
         /\ old = None <=> W = {}
<1> USE Kinds
<1>1. old = None <=> W = {}  BY DEF Newest, LatestOf
<1>2. \A v \in Taring : TaredAt[v] \in Nat  BY TimeAssumption
<1>3. CASE W = {}
  <2>1. W \cup {w} = {w} /\ w \in LatestOf({w})  BY <1>2, <1>3 DEF LatestOf
  <2> QED  BY <1>1, <1>3, <2>1 DEF Newest
<1>4. CASE W # {}
  <2>1. old \in Taring /\ old \in W /\ \A v \in W : TaredAt[v] <= TaredAt[old]
    BY <1>4 DEF Newest, LatestOf
  <2>2. CASE TaredAt[old] <= TaredAt[w]
    <3>1. \A v \in W \cup {w} : TaredAt[v] <= TaredAt[w]  BY <1>2, <2>1, <2>2
    <3>2. w \in LatestOf(W \cup {w})  BY <3>1 DEF LatestOf
    <3> QED  BY <1>1, <2>2, <3>2 DEF Newest
  <2>3. CASE ~(TaredAt[old] <= TaredAt[w])
    <3>1. \A v \in W \cup {w} : TaredAt[v] <= TaredAt[old]  BY <1>2, <2>1, <2>3
    <3>2. old \in LatestOf(W \cup {w}) /\ old # None  BY <1>1, <1>4, <2>1, <3>1 DEF LatestOf
    <3> QED  BY <2>3, <3>2 DEF Newest
  <2> QED  BY <2>2, <2>3
<1> QED  BY <1>1, <1>3, <1>4

(* Which valid tarings a pair has depends on the journal alone. *)
LEMMA ValidSame ==
  ASSUME UNCHANGED <<saved, annulled>>
  PROVE  \A p, gone : ValidTarings(p, gone)' = ValidTarings(p, gone)
BY DEF ValidTarings

LEMMA FollowInit == Init => FollowInv
<1> SUFFICES ASSUME Init PROVE FollowInv  OBVIOUS
<1> USE Kinds
<1>1. /\ saved = {} /\ annulled = {} /\ row = [p \in Pair |-> None]
      /\ owner = [p \in Pair |-> None] /\ pc = [t \in Tx |-> "idle"]
      /\ todo = [t \in Saver |-> {}]
  BY DEF Init
<1>2. JournalSane  BY <1>1 DEF JournalSane, Storning
<1>3. RowRight  BY <1>1 DEF RowRight, Newest, ValidTarings
<1>4. SaverRight  BY <1>1 DEF SaverRight, Written
<1>5. StornoRight  BY <1>1 DEF StornoRight, Holding
<1> QED  BY <1>2, <1>3, <1>4, <1>5 DEF FollowInv

(* A storno at work has a valid taring, so its pair has a row.             *)
LEMMA StornoMeetsRow ==
  ASSUME IInv, FollowInv, NEW s \in Storno, Storning(s)
  PROVE  /\ TargetOf[s] \in ValidTarings(PairOfTx(s), {})
         /\ row[PairOfTx(s)] # None
<1> USE Kinds
<1>1. TargetOf[s] \in saved /\ TargetOf[s] \in Taring /\ PairOfTx(s) \in Pair
  BY DEF FollowInv, JournalSane
<1>2. TargetOf[s] \notin annulled  BY DEF IInv, KeyHeld
<1>3. TargetOf[s] \in ValidTarings(PairOfTx(s), {})
  BY <1>1, <1>2 DEF ValidTarings, PairOfTx
<1>4. row[PairOfTx(s)] \in Taring
  <2>1. Newest(row[PairOfTx(s)], ValidTarings(PairOfTx(s), {}))  BY <1>1 DEF FollowInv, RowRight
  <2>2. ValidTarings(PairOfTx(s), {}) \subseteq Taring  BY DEF ValidTarings, IInv, TypeOK
  <2> QED  BY <1>3, <2>1, <2>2 DEF Newest, LatestOf
<1> QED  BY <1>3, <1>4

(* Two stornos of a pair are not at work together. *)
LEMMA OneStornoOfPair ==
  ASSUME IInv, StornosApart, NEW s \in Storno, NEW u \in Storno, s # u,
         Storning(s), Storning(u)
  PROVE  PairOfTx(s) # PairOfTx(u)
BY DEF StornosApart, IInv, KeyHeld

(* A statement that leaves the journal, the rows and what is written.      *)
LEMMA FollowQuiet ==
  ASSUME IInv, FollowInv, NEW t \in Tx, UNCHANGED <<committed, owner, mine, renewed>>,
         JournalSane',
         \A u \in Saver : Written(u)' = Written(u),
         \A s \in Storno : /\ pc'[s] = "delete" => found'[s]
                           /\ Holding(s)' <=> Holding(s)
                           /\ Holding(s) /\ StornoHolds(s) => StornoHolds(s)'
  PROVE  FollowInv'
<1>1. \A p, gone : ValidTarings(p, gone)' = ValidTarings(p, gone)
  BY ValidSame DEF committed
<1>2. RowRight'
  <2>1. row' = row  BY DEF committed
  <2> QED  BY <1>1, <2>1 DEF FollowInv, RowRight, Newest, LatestOf
<1>3. SaverRight'
  <2>1. row' = row  BY DEF committed
  <2>2. \A u \in Saver, p \in Pair : WrittenFor(u, p)' = WrittenFor(u, p)  BY DEF WrittenFor
  <2>3. \A u \in Saver, p \in Pair : SaverHolds(u, p)' = SaverHolds(u, p)
    BY <1>1, <2>1, <2>2 DEF SaverHolds, Newest, LatestOf
  <2> QED  BY <2>3 DEF FollowInv, SaverRight
<1>4. StornoRight'
  <2>1. \A s \in Storno : PairOfTx(s)' = PairOfTx(s)  BY DEF PairOfTx
  <2> QED  BY <2>1 DEF FollowInv, StornoRight
<1> QED  BY <1>2, <1>3, <1>4 DEF FollowInv

(* A transaction that ends without its changes. *)
LEMMA FollowRollback ==
  ASSUME IInv, FollowInv, NEW t \in Tx, pc[t] # "done", Rollback(t), UNCHANGED <<committed, found, latest>>
  PROVE  FollowInv'
<1> USE Kinds
<1>1. /\ owner' = [p \in Pair |-> IF owner[p] = t THEN None ELSE owner[p]]
      /\ mine' = [p \in Pair |-> IF owner[p] = t THEN None ELSE mine[p]]
      /\ renewed' = [p \in Pair |-> renewed[p] /\ owner[p] # t]
      /\ todo' = (IF t \in Saver THEN [todo EXCEPT ![t] = {}] ELSE todo)
      /\ at' = (IF t \in Saver THEN [at EXCEPT ![t] = None] ELSE at)
      /\ pc' = [pc EXCEPT ![t] = IF t \in Live THEN "idle" ELSE "failed"]
      /\ UNCHANGED <<saved, annulled, row, found, latest>>
  BY DEF Rollback, Release, committed
<1>2. /\ pc'[t] \in {"idle", "failed"} /\ \A u \in Tx : u # t => pc'[u] = pc[u]
      /\ (t \in Saver => todo'[t] = {})
      /\ \A u \in Saver : u # t => todo'[u] = todo[u] /\ at'[u] = at[u]
  BY <1>1 DEF IInv, TypeOK
<1>3. /\ \A p \in Pair : owner[p] # t => owner'[p] = owner[p] /\ mine'[p] = mine[p] /\ (renewed'[p] => renewed[p])
      /\ \A p \in Pair : owner'[p] = (IF owner[p] = t THEN None ELSE owner[p])
  BY <1>1
<1>4. \A p, gone : ValidTarings(p, gone)' = ValidTarings(p, gone)  BY <1>1, ValidSame
<1>5. \A u \in Saver : Written(u)' = IF u = t THEN {} ELSE Written(u)
  BY <1>2 DEF Written, Todo
<1>6. JournalSane'
  <2>1. \A s \in Storno : Storning(s)' \/ pc'[s] = "insert" => s # t  BY <1>2 DEF Storning
  <2>2. \A s \in Storno : Storning(s)' \/ pc'[s] = "insert" => TargetOf[s] \in saved
    BY <1>2, <2>1 DEF Storning, FollowInv, JournalSane
  <2>3. \A u \in Saver : pc'[u] # "done" => Todo(u) \cap saved = {}
    BY <1>2 DEF FollowInv, JournalSane
  <2>4. \A u \in Saver : todo'[u] \subseteq Todo(u) /\ (pc'[u] = "commit" => todo'[u] = {})
    BY <1>2 DEF FollowInv, JournalSane
  <2>5. \A u \in Saver : pc'[u] = "upsert" => at'[u] \in Todo(u) \ todo'[u]
    BY <1>2 DEF FollowInv, JournalSane
  <2>6. annulled \subseteq saved  BY DEF FollowInv, JournalSane
  <2> QED  BY <1>1, <2>2, <2>3, <2>4, <2>5, <2>6 DEF JournalSane, Todo
<1>7. RowRight'  BY <1>1, <1>4 DEF FollowInv, RowRight, Newest, LatestOf
<1>8. SaverRight'
  <2>1. ASSUME NEW u \in Saver, NEW w \in Written(u)' PROVE owner'[PairOf[w]] = u
    <3>1. u # t /\ w \in Written(u)  BY <1>5
    <3>2. owner[PairOf[w]] = u /\ w \in Taring  BY <3>1 DEF FollowInv, SaverRight, Written
    <3> QED  BY <1>3, <3>1, <3>2, PairAssumption
  <2>2. ASSUME NEW u \in Saver, NEW p \in Pair, owner'[p] = u PROVE SaverHolds(u, p)'
    <3>1. u # t /\ owner[p] = u  BY <1>3, <2>2
    <3>2. SaverHolds(u, p)  BY <3>1 DEF FollowInv, SaverRight
    <3>3. WrittenFor(u, p)' = WrittenFor(u, p)  BY <1>5, <3>1 DEF WrittenFor
    <3>4. mine'[p] = mine[p] /\ (renewed'[p] => renewed[p])  BY <1>3, <3>1
    <3> QED  BY <1>1, <1>4, <3>2, <3>3, <3>4 DEF SaverHolds, Newest, LatestOf
  <2> QED  BY <2>1, <2>2 DEF SaverRight
<1>9. StornoRight'
  <2> SUFFICES ASSUME NEW s \in Storno
               PROVE  /\ pc'[s] = "delete" => found'[s]
                      /\ Holding(s)' => owner'[PairOfTx(s)] = s /\ StornoHolds(s)'
                      /\ \A p \in Pair : owner'[p] = s => p = PairOfTx(s) /\ Holding(s)'
    BY DEF StornoRight, PairOfTx
  <2>1. CASE s = t  BY <1>2, <1>3, <2>1 DEF Holding
  <2>2. CASE s # t
    <3>1. pc'[s] = pc[s] /\ found'[s] = found[s] /\ latest'[s] = latest[s]  BY <1>1, <1>2, <2>2
    <3>2. ASSUME Holding(s) PROVE owner'[PairOfTx(s)] = s /\ StornoHolds(s)'
      <4>1. owner[PairOfTx(s)] = s /\ StornoHolds(s) /\ PairOfTx(s) \in Pair
        BY <3>2 DEF FollowInv, StornoRight
      <4>2. owner'[PairOfTx(s)] = s /\ mine'[PairOfTx(s)] = mine[PairOfTx(s)]
        BY <1>3, <2>2, <4>1
      <4>3. PairOfTx(s)' = PairOfTx(s)  BY DEF PairOfTx
      <4> QED  BY <1>4, <3>1, <4>1, <4>2, <4>3 DEF StornoHolds, Newest, LatestOf
    <3> QED  BY <1>3, <2>2, <3>1, <3>2 DEF FollowInv, StornoRight, Holding
  <2> QED  BY <2>1, <2>2
<1> QED  BY <1>6, <1>7, <1>8, <1>9 DEF FollowInv

(* A saver writes the row of a pair. *)
LEMMA FollowUpsert ==
  ASSUME IInv, FollowInv, NEW t \in Tx, UpsertTare(t)
  PROVE  FollowInv'
<1> USE Kinds
<1> DEFINE w == at[t]
           p == PairOf[w]
           old == Sees(t, p)
           new == IF old = None \/ TaredAt[old] <= TaredAt[w] THEN w ELSE old
<1>1. /\ t \in Saver /\ pc[t] = "upsert" /\ Free(t, p)
      /\ owner' = [owner EXCEPT ![p] = t] /\ mine' = [mine EXCEPT ![p] = new]
      /\ renewed' = [renewed EXCEPT ![p] = old = None \/ (owner[p] = t /\ @)]
      /\ pc' = [pc EXCEPT ![t] = "log"]
      /\ UNCHANGED <<saved, annulled, row, todo, at, found, latest>>
  BY DEF UpsertTare, Write, committed
<1>2. w \in Taring /\ w \in Todo(t) \ todo[t] /\ p \in Pair
  BY <1>1, PairAssumption DEF FollowInv, JournalSane
<1>3. /\ pc'[t] = "log" /\ (\A u \in Tx : u # t => pc'[u] = pc[u])
      /\ owner'[p] = t /\ mine'[p] = new /\ renewed'[p] = (old = None \/ (owner[p] = t /\ renewed[p]))
      /\ \A q \in Pair : q # p => owner'[q] = owner[q] /\ mine'[q] = mine[q] /\ renewed'[q] = renewed[q]
  BY <1>1, <1>2 DEF IInv, TypeOK
<1>4. \A q, gone : ValidTarings(q, gone)' = ValidTarings(q, gone)  BY <1>1, ValidSame
<1>5. /\ Written(t)' = Written(t) \cup {w} /\ \A u \in Saver : u # t => Written(u)' = Written(u)
  <2>1. Written(t)' = {v \in Todo(t) \ todo[t] : TRUE}  BY <1>1, <1>3 DEF Written, Todo
  <2>2. Written(t) = {v \in Todo(t) \ todo[t] : v # w}  BY <1>1 DEF Written
  <2>3. Written(t)' = Written(t) \cup {w}  BY <1>2, <2>1, <2>2
  <2>4. \A u \in Saver : u # t => Written(u)' = Written(u)  BY <1>1, <1>3 DEF Written, Todo
  <2> QED  BY <2>3, <2>4
<1>6. JournalSane'
  <2>1. \A s \in Storno : pc'[s] = pc[s]  BY <1>1, <1>3
  <2>2. \A u \in Saver : /\ pc'[u] \in {"commit", "upsert"} => pc[u] = pc'[u]
                         /\ pc'[u] # "done" => pc[u] # "done"
    BY <1>1, <1>3
  <2>3. \A s \in Storno : Storning(s)' = Storning(s)  BY <2>1 DEF Storning
  <2> QED  BY <1>1, <2>1, <2>2, <2>3 DEF FollowInv, JournalSane, Todo
<1>7. RowRight'  BY <1>1, <1>4 DEF FollowInv, RowRight, Newest, LatestOf
<1> DEFINE W == ValidTarings(p, {}) \cup WrittenFor(t, p)
<1>8. /\ Newest(old, W) /\ W \in SUBSET Taring
      /\ owner[p] = t => SaverHolds(t, p)
      /\ owner[p] # t => old = row[p]
  <2>1. W \in SUBSET Taring
    BY <1>1 DEF ValidTarings, WrittenFor, Written, IInv, TypeOK
  <2>2. CASE owner[p] = t
    <3>1. SaverHolds(t, p)  BY <1>1, <1>2, <2>2 DEF FollowInv, SaverRight
    <3> QED  BY <2>1, <2>2, <3>1 DEF SaverHolds, Sees
  <2>3. CASE owner[p] # t
    <3>1. WrittenFor(t, p) = {}
      <4>1. \A v \in Written(t) : PairOf[v] # p  BY <1>1, <2>3 DEF FollowInv, SaverRight
      <4> QED  BY <4>1 DEF WrittenFor
    <3>2. old = row[p]  BY <2>3 DEF Sees
    <3> QED  BY <1>2, <2>1, <2>3, <3>1, <3>2 DEF FollowInv, RowRight
  <2> QED  BY <2>2, <2>3
<1>9. Newest(new, W \cup {w}) /\ new # None
  <2>1. Newest(new, W \cup {w})
    <3> HIDE DEF W, old, w
    <3> QED  BY <1>2, <1>8, NewestWith
  <2>2. W \cup {w} # {} /\ W \cup {w} \subseteq Taring  BY <1>2, <1>8
  <2> QED  BY <2>1, <2>2 DEF Newest, LatestOf
<1>10. SaverRight'
  <2>1. ASSUME NEW u \in Saver, NEW v \in Written(u)' PROVE owner'[PairOf[v]] = u
    <3>1. CASE u = t /\ v = w  BY <1>3, <3>1
    <3>2. CASE ~(u = t /\ v = w)
      <4>1. v \in Written(u) /\ v \in Taring  BY <1>5, <3>2 DEF Written
      <4>2. owner[PairOf[v]] = u /\ PairOf[v] \in Pair  BY <4>1, PairAssumption DEF FollowInv, SaverRight
      <4>3. PairOf[v] = p => u = t  BY <1>1, <4>2 DEF Free
      <4> QED  BY <1>3, <4>2, <4>3
    <3> QED  BY <3>1, <3>2
  <2>2. ASSUME NEW u \in Saver, NEW q \in Pair, owner'[q] = u PROVE SaverHolds(u, q)'
    <3>1. CASE q = p
      <4>1. u = t  BY <1>3, <2>2, <3>1
      <4>2. WrittenFor(t, q)' = WrittenFor(t, q) \cup {w}  BY <1>5, <3>1 DEF WrittenFor
      <4>3. ValidTarings(q, {})' \cup WrittenFor(t, q)' = W \cup {w}  BY <1>4, <3>1, <4>2
      <4>4. ASSUME renewed'[q] PROVE row'[q] = None
        <5>1. CASE owner[p] = t
          <6>1. old = mine[p]  BY <5>1 DEF Sees
          <6> QED  BY <1>1, <1>3, <1>8, <3>1, <4>4, <5>1, <6>1 DEF SaverHolds
        <5>2. CASE owner[p] # t  BY <1>1, <1>3, <1>8, <3>1, <4>4, <5>2
        <5> QED  BY <5>1, <5>2
      <4>5. mine'[q] = new  BY <1>3, <3>1
      <4> HIDE DEF W, new, w, p
      <4>6. Newest(mine'[q], ValidTarings(q, {})' \cup WrittenFor(t, q)')  BY <1>9, <4>3, <4>5
      <4>7. mine'[q] # None  BY <1>9, <4>5
      <4> QED  BY <4>1, <4>4, <4>6, <4>7 DEF SaverHolds, Newest, LatestOf
    <3>2. CASE q # p
      <4>1. owner[q] = u /\ mine'[q] = mine[q] /\ renewed'[q] = renewed[q]  BY <1>3, <2>2, <3>2
      <4>2. SaverHolds(u, q)  BY <4>1 DEF FollowInv, SaverRight
      <4>3. WrittenFor(u, q)' = WrittenFor(u, q)  BY <1>5, <3>2 DEF WrittenFor
      <4> QED  BY <1>1, <1>4, <4>1, <4>2, <4>3 DEF SaverHolds, Newest, LatestOf
    <3> QED  BY <3>1, <3>2
  <2> QED  BY <2>1, <2>2 DEF SaverRight
<1>11. StornoRight'
  <2> SUFFICES ASSUME NEW s \in Storno
               PROVE  /\ pc'[s] = "delete" => found'[s]
                      /\ Holding(s)' => owner'[PairOfTx(s)] = s /\ StornoHolds(s)'
                      /\ \A q \in Pair : owner'[q] = s => q = PairOfTx(s) /\ Holding(s)'
    BY DEF StornoRight, PairOfTx
  <2>1. s # t /\ pc'[s] = pc[s] /\ found' = found /\ latest' = latest  BY <1>1, <1>3
  <2>2. ASSUME Holding(s) PROVE owner'[PairOfTx(s)] = s /\ StornoHolds(s)'
    <3>1. owner[PairOfTx(s)] = s /\ StornoHolds(s) /\ PairOfTx(s) \in Pair
      BY <2>2 DEF FollowInv, StornoRight
    <3>2. PairOfTx(s) # p  BY <1>1, <2>1, <3>1 DEF Free
    <3>3. owner'[PairOfTx(s)] = s /\ mine'[PairOfTx(s)] = mine[PairOfTx(s)]  BY <1>3, <3>1, <3>2
    <3>4. PairOfTx(s)' = PairOfTx(s)  BY DEF PairOfTx
    <3> QED  BY <1>4, <2>1, <3>1, <3>3, <3>4 DEF StornoHolds, Newest, LatestOf
  <2>3. \A q \in Pair : owner'[q] = s => owner[q] = s  BY <1>3, <2>1
  <2> QED  BY <2>1, <2>2, <2>3 DEF FollowInv, StornoRight, Holding
<1> QED  BY <1>6, <1>7, <1>10, <1>11 DEF FollowInv

(* The statements that write no row of the registry. *)
LEMMA FollowStatements ==
  ASSUME IInv, FollowInv, NEW t \in Tx,
         InsertTaring(t) \/ RecordTareChange(t) \/ CheckStorno(t) \/ InsertStorno(t)
           \/ ScanRow(t) \/ SelectLatest(t)
  PROVE  FollowInv'
<1> USE Kinds
<1>1. CASE InsertTaring(t)
  <2> DEFINE X == IF todo[t] = {} THEN Todo(t) ELSE todo[t]
  <2>1. t \in Saver /\ pc[t] = "idle" /\ UNCHANGED <<committed, owner, mine, renewed, found, latest>>
    BY <1>1 DEF InsertTaring, locks
  <2>2. PICK w \in X : /\ at' = [at EXCEPT ![t] = w]
                       /\ todo' = [todo EXCEPT ![t] = X \ {w}]
                       /\ pc' = [pc EXCEPT ![t] = "upsert"]
    BY <1>1 DEF InsertTaring
  <2>3. /\ pc'[t] = "upsert" /\ at'[t] = w /\ todo'[t] = X \ {w}
        /\ \A u \in Tx : u # t => pc'[u] = pc[u]
        /\ \A u \in Saver : u # t => at'[u] = at[u] /\ todo'[u] = todo[u]
    BY <2>1, <2>2 DEF IInv, TypeOK
  <2>4. w \in Todo(t) /\ X \subseteq Todo(t)  BY <2>1, <2>2 DEF FollowInv, JournalSane
  <2>5. \A u \in Saver : Written(u)' = Written(u)
    <3>1. ASSUME NEW u \in Saver, u # t PROVE Written(u)' = Written(u)
      BY <2>3, <3>1 DEF Written, Todo
    <3>2. Written(t)' = {v \in Todo(t) \ (X \ {w}) : v # w}  BY <2>3 DEF Written, Todo
    <3>3. Written(t)' = Todo(t) \ X  BY <2>2, <3>2
    <3>4. Written(t) = Todo(t) \ X  BY <2>1 DEF Written
    <3> QED  BY <3>1, <3>3, <3>4
  <2>6. JournalSane'
    <3>1. \A s \in Storno : pc'[s] = pc[s] /\ Storning(s)' = Storning(s)
      BY <2>1, <2>3 DEF Storning
    <3>2. \A u \in Saver : /\ pc'[u] # "done" => pc[u] # "done"
                           /\ todo'[u] \subseteq Todo(u) /\ (pc'[u] = "commit" => todo'[u] = {})
                           /\ pc'[u] = "upsert" => at'[u] \in Todo(u) \ todo'[u]
      BY <2>1, <2>3, <2>4 DEF FollowInv, JournalSane
    <3> QED  BY <2>1, <3>1, <3>2 DEF FollowInv, JournalSane, committed, Todo
  <2>7. \A s \in Storno : /\ pc'[s] = "delete" => found'[s]
                          /\ Holding(s)' <=> Holding(s)
                          /\ StornoHolds(s) => StornoHolds(s)'
    <3> SUFFICES ASSUME NEW s \in Storno
                 PROVE  /\ pc'[s] = "delete" => found'[s]
                        /\ Holding(s)' <=> Holding(s)
                        /\ StornoHolds(s) => StornoHolds(s)'
      OBVIOUS
    <3>1. pc'[s] = pc[s] /\ found' = found /\ latest' = latest /\ mine' = mine  BY <2>1, <2>3
    <3>2. PairOfTx(s)' = PairOfTx(s)  BY DEF PairOfTx
    <3>3. \A p, gone : ValidTarings(p, gone)' = ValidTarings(p, gone)  BY <2>1, ValidSame DEF committed
    <3> QED  BY <3>1, <3>2, <3>3 DEF FollowInv, StornoRight, Holding, StornoHolds, Newest, LatestOf
  <2> QED  BY <2>1, <2>5, <2>6, <2>7, FollowQuiet
<1>2. CASE ~InsertTaring(t)
  <2>1. /\ UNCHANGED <<committed, owner, mine, renewed, todo, at>>
        /\ \A u \in Tx : u # t => pc'[u] = pc[u]
    BY <1>2 DEF RecordTareChange, CheckStorno, InsertStorno, ScanRow, SelectLatest, locks, IInv, TypeOK
  <2>2. \A s \in Storno : s # t => found'[s] = found[s] /\ latest'[s] = latest[s]
    BY <1>2 DEF RecordTareChange, CheckStorno, InsertStorno, ScanRow, SelectLatest, IInv, TypeOK
  <2>3. t \in Saver => /\ pc[t] = "log"
                       /\ pc'[t] = IF todo[t] = {} THEN "commit" ELSE "idle"
    BY <1>2 DEF RecordTareChange, CheckStorno, InsertStorno, ScanRow, SelectLatest, IInv, TypeOK
  <2>4. ASSUME t \in Storno
        PROVE  /\ pc'[t] # "done"
               /\ Storning(t)' \/ pc'[t] = "insert" => TargetOf[t] \in saved
               /\ pc'[t] = "delete" => found'[t]
               /\ Holding(t)' <=> Holding(t)
               /\ StornoHolds(t) /\ (Holding(t) => owner[PairOfTx(t)] = t) => StornoHolds(t)'
    <3>1. /\ PairOfTx(t)' = PairOfTx(t) /\ mine' = mine
          /\ \A p, gone : ValidTarings(p, gone)' = ValidTarings(p, gone)
      BY <2>1, ValidSame DEF PairOfTx, committed
    <3>2. Storning(t) \/ pc[t] = "insert" => TargetOf[t] \in saved  BY <2>4 DEF FollowInv, JournalSane
    <3>3. CASE RecordTareChange(t)
      <4>1. pc[t] = "log" /\ pc'[t] = "commit" /\ UNCHANGED <<found, latest>>
        BY <2>4, <3>3 DEF RecordTareChange, IInv, TypeOK
      <4> QED  BY <3>1, <3>2, <4>1 DEF Storning, Holding, StornoHolds, Newest, LatestOf
    <3>4. CASE CheckStorno(t)
      <4>1. pc[t] = "idle" /\ pc'[t] \in {"refused", "insert"} /\ TargetOf[t] \in saved
        BY <2>4, <3>4 DEF CheckStorno, IInv, TypeOK
      <4> QED  BY <4>1 DEF Storning, Holding, StornoHolds
    <3>5. CASE InsertStorno(t)
      <4>1. pc[t] = "insert" /\ pc'[t] \in {"refused", "scan"}
        BY <2>4, <3>5 DEF InsertStorno, IInv, TypeOK
      <4> QED  BY <3>2, <4>1 DEF Storning, Holding, StornoHolds
    <3>6. CASE ScanRow(t)
      <4>1. pc[t] = "scan"  BY <3>6 DEF ScanRow
      <4>2. row[PairOfTx(t)] # None  BY <2>4, <4>1, StornoMeetsRow DEF Storning
      <4>3. pc'[t] = "delete" /\ found'[t]  BY <2>4, <3>6, <4>2 DEF ScanRow, IInv, TypeOK
      <4> QED  BY <3>2, <4>1, <4>3 DEF Storning, Holding, StornoHolds
    <3>7. CASE SelectLatest(t)
      <4> DEFINE W == ValidTarings(PairOfTx(t), {TargetOf[t]})
      <4>1. /\ pc[t] = "select"
            /\ \/ W = {} /\ pc'[t] = "log"
               \/ latest'[t] \in LatestOf(W) /\ pc'[t] = "restore"
        BY <2>4, <3>7 DEF SelectLatest, IInv, TypeOK
      <4>2. ASSUME StornoHolds(t) PROVE StornoHolds(t)'
        <5>1. mine[PairOfTx(t)] = None  BY <4>1, <4>2 DEF StornoHolds
        <5> QED  BY <3>1, <4>1, <5>1 DEF StornoHolds, Newest, LatestOf
      <4> QED  BY <3>2, <4>1, <4>2 DEF Storning, Holding
    <3> QED  BY <1>2, <2>4, <3>3, <3>4, <3>5, <3>6, <3>7
  <2>5. \A u \in Saver : Written(u)' = Written(u)
    <3>1. ASSUME NEW u \in Saver, u # t PROVE Written(u)' = Written(u)
      BY <2>1, <3>1 DEF Written, Todo
    <3>2. t \in Saver => Written(t)' = Written(t)  BY <2>1, <2>3 DEF Written, Todo
    <3> QED  BY <3>1, <3>2
  <2>6. JournalSane'
    <3>1. \A s \in Storno : Storning(s)' \/ pc'[s] = "insert" => TargetOf[s] \in saved
      BY <2>1, <2>4 DEF FollowInv, JournalSane, Storning
    <3>2. \A u \in Saver : /\ pc'[u] # "done" => pc[u] # "done"
                           /\ pc'[u] = "commit" => todo[u] = {}
                           /\ pc'[u] = "upsert" => pc[u] = "upsert"
      BY <2>1, <2>3 DEF FollowInv, JournalSane
    <3> QED  BY <2>1, <3>1, <3>2 DEF FollowInv, JournalSane, committed, Todo
  <2>7. ASSUME NEW s \in Storno
        PROVE  /\ pc'[s] = "delete" => found'[s]
               /\ Holding(s)' <=> Holding(s)
               /\ Holding(s) /\ StornoHolds(s) => StornoHolds(s)'
    <3>1. CASE s = t
      <4>1. Holding(t) => owner[PairOfTx(t)] = t  BY <2>7, <3>1 DEF FollowInv, StornoRight
      <4> QED  BY <2>4, <2>7, <3>1, <4>1
    <3>2. CASE s # t
      <4>1. pc'[s] = pc[s] /\ found'[s] = found[s] /\ latest'[s] = latest[s] /\ mine' = mine
        BY <2>1, <2>2, <3>2
      <4>2. PairOfTx(s)' = PairOfTx(s)  BY DEF PairOfTx
      <4>3. \A p, gone : ValidTarings(p, gone)' = ValidTarings(p, gone)  BY <2>1, ValidSame DEF committed
      <4> QED  BY <4>1, <4>2, <4>3 DEF FollowInv, StornoRight, Holding, StornoHolds, Newest, LatestOf
    <3> QED  BY <3>1, <3>2
  <2> QED  BY <2>1, <2>5, <2>6, <2>7, FollowQuiet
<1> QED  BY <1>1, <1>2

(* A storno takes the row of its pair away. *)
LEMMA FollowDelete ==
  ASSUME IInv, FollowInv, NEW t \in Tx, DeleteRow(t)
  PROVE  FollowInv'
<1> USE Kinds
<1> DEFINE p == PairOfTx(t)
<1>1. t \in Storno /\ pc[t] = "delete" /\ found[t] /\ p \in Pair
  BY DEF DeleteRow, FollowInv, StornoRight
<1>2. /\ Free(t, p)
      /\ owner' = [owner EXCEPT ![p] = t] /\ mine' = [mine EXCEPT ![p] = None]
      /\ renewed' = [renewed EXCEPT ![p] = TRUE \/ (owner[p] = t /\ @)]
      /\ pc' = [pc EXCEPT ![t] = "select"]
      /\ UNCHANGED <<saved, annulled, row, todo, at, found, latest>>
  BY <1>1 DEF DeleteRow, Write, committed
<1>3. /\ pc'[t] = "select" /\ (\A u \in Tx : u # t => pc'[u] = pc[u])
      /\ owner'[p] = t /\ mine'[p] = None
      /\ \A q \in Pair : q # p => owner'[q] = owner[q] /\ mine'[q] = mine[q] /\ renewed'[q] = renewed[q]
  BY <1>1, <1>2 DEF IInv, TypeOK
<1>4. PairOfTx(t)' = p  BY <1>1 DEF PairOfTx
<1> HIDE DEF p
<1>5. \A q, gone : ValidTarings(q, gone)' = ValidTarings(q, gone)  BY <1>2, ValidSame
<1>6. owner[p] = None
  BY <1>1, <1>2 DEF Free, FollowInv, StornoRight, Holding
<1>7. \A u \in Saver : u # t /\ pc'[u] = pc[u] /\ Written(u)' = Written(u)
  BY <1>1, <1>2, <1>3 DEF Written, Todo
<1>8. JournalSane'
  <2>1. \A s \in Storno : Storning(s)' = Storning(s) /\ (pc'[s] = "insert" => pc[s] = "insert")
    BY <1>1, <1>3 DEF Storning
  <2> QED  BY <1>2, <1>7, <2>1 DEF FollowInv, JournalSane, Todo
<1>9. RowRight'  BY <1>2, <1>5 DEF FollowInv, RowRight, Newest, LatestOf
<1>10. SaverRight'
  <2>1. ASSUME NEW u \in Saver, NEW w \in Written(u)' PROVE owner'[PairOf[w]] = u
    <3>1. w \in Written(u) /\ w \in Taring  BY <1>7 DEF Written
    <3>2. owner[PairOf[w]] = u /\ PairOf[w] \in Pair  BY <3>1, PairAssumption DEF FollowInv, SaverRight
    <3> QED  BY <1>3, <1>6, <3>2
  <2>2. ASSUME NEW u \in Saver, NEW q \in Pair, owner'[q] = u PROVE SaverHolds(u, q)'
    <3>1. q # p /\ owner[q] = u  BY <1>3, <1>7, <2>2
    <3>2. SaverHolds(u, q) /\ mine'[q] = mine[q] /\ renewed'[q] = renewed[q]
      BY <1>3, <3>1 DEF FollowInv, SaverRight
    <3>3. WrittenFor(u, q)' = WrittenFor(u, q)  BY <1>7 DEF WrittenFor
    <3> QED  BY <1>2, <1>5, <3>2, <3>3 DEF SaverHolds, Newest, LatestOf
  <2> QED  BY <2>1, <2>2 DEF SaverRight
<1>11. StornoRight'
  <2> SUFFICES ASSUME NEW s \in Storno
               PROVE  /\ pc'[s] = "delete" => found'[s]
                      /\ Holding(s)' => owner'[PairOfTx(s)] = s /\ StornoHolds(s)'
                      /\ \A q \in Pair : owner'[q] = s => q = PairOfTx(s) /\ Holding(s)'
    BY DEF StornoRight, PairOfTx
  <2>1. CASE s = t
    <3>1. StornoHolds(t)'  BY <1>3, <1>4 DEF StornoHolds
    <3>2. PairOfTx(t) = p  BY DEF p
    <3>3. \A q \in Pair : owner'[q] = t => q = p
      BY <1>1, <1>3 DEF FollowInv, StornoRight, Holding
    <3> QED  BY <1>3, <2>1, <3>1, <3>2, <3>3 DEF Holding
  <2>2. CASE s # t
    <3>1. pc'[s] = pc[s] /\ found'[s] = found[s] /\ latest'[s] = latest[s]  BY <1>2, <1>3, <2>2
    <3>2. ASSUME Holding(s) PROVE owner'[PairOfTx(s)] = s /\ StornoHolds(s)'
      <4>1. owner[PairOfTx(s)] = s /\ StornoHolds(s) /\ PairOfTx(s) \in Pair
        BY <3>2 DEF FollowInv, StornoRight
      <4>2. owner'[PairOfTx(s)] = s /\ mine'[PairOfTx(s)] = mine[PairOfTx(s)]
        BY <1>3, <1>6, <4>1
      <4>3. PairOfTx(s)' = PairOfTx(s)  BY DEF PairOfTx
      <4> QED  BY <1>5, <3>1, <4>1, <4>2, <4>3 DEF StornoHolds, Newest, LatestOf
    <3>3. \A q \in Pair : owner'[q] = s => owner[q] = s  BY <1>3, <2>2
    <3> QED  BY <3>1, <3>2, <3>3 DEF FollowInv, StornoRight, Holding
  <2> QED  BY <2>1, <2>2
<1> QED  BY <1>8, <1>9, <1>10, <1>11 DEF FollowInv

(* ... and puts the latest valid taring in its place: nobody's row is      *)
(* there to meet.                                                          *)
LEMMA FollowInsert ==
  ASSUME IInv, FollowInv, NEW t \in Tx, InsertRow(t)
  PROVE  FollowInv'
<1> USE Kinds
<1> DEFINE p == PairOfTx(t)
<1>1. /\ t \in Storno /\ pc[t] = "restore" /\ p \in Pair
      /\ owner[p] = t /\ mine[p] = None
      /\ latest[t] \in LatestOf(ValidTarings(p, {TargetOf[t]}))
  BY DEF InsertRow, FollowInv, StornoRight, Holding, StornoHolds
<1>2. Sees(t, p) = None  BY <1>1 DEF Sees
<1>3. /\ owner' = [owner EXCEPT ![p] = t] /\ mine' = [mine EXCEPT ![p] = latest[t]]
      /\ renewed' = [renewed EXCEPT ![p] = TRUE \/ (owner[p] = t /\ @)]
      /\ pc' = [pc EXCEPT ![t] = "log"]
      /\ UNCHANGED <<saved, annulled, row, todo, at, found, latest>>
  BY <1>1, <1>2 DEF InsertRow, Write, committed
<1>4. /\ pc'[t] = "log" /\ (\A u \in Tx : u # t => pc'[u] = pc[u])
      /\ (\A q \in Pair : owner'[q] = owner[q]) /\ mine'[p] = latest[t]
      /\ \A q \in Pair : q # p => mine'[q] = mine[q] /\ renewed'[q] = renewed[q]
  BY <1>1, <1>3 DEF IInv, TypeOK
<1>5. PairOfTx(t)' = p  BY <1>1 DEF PairOfTx
<1> HIDE DEF p
<1>6. \A q, gone : ValidTarings(q, gone)' = ValidTarings(q, gone)  BY <1>3, ValidSame
<1>7. \A u \in Saver : u # t /\ pc'[u] = pc[u] /\ Written(u)' = Written(u)
  <2>1. \A u \in Saver : u # t /\ pc'[u] = pc[u]  BY <1>1, <1>4
  <2> QED  BY <1>3, <2>1 DEF Written, Todo
<1>8. JournalSane'
  <2>1. \A s \in Storno : Storning(s)' = Storning(s) /\ (pc'[s] = "insert" => pc[s] = "insert")
    BY <1>1, <1>4 DEF Storning
  <2> QED  BY <1>3, <1>7, <2>1 DEF FollowInv, JournalSane, Todo
<1>9. RowRight'  BY <1>3, <1>6 DEF FollowInv, RowRight, Newest, LatestOf
<1>10. SaverRight'
  <2>1. ASSUME NEW u \in Saver, NEW w \in Written(u)' PROVE owner'[PairOf[w]] = u
    <3>1. w \in Written(u) /\ w \in Taring  BY <1>7 DEF Written
    <3> QED  BY <1>4, <3>1, PairAssumption DEF FollowInv, SaverRight
  <2>2. ASSUME NEW u \in Saver, NEW q \in Pair, owner'[q] = u PROVE SaverHolds(u, q)'
    <3>1. q # p /\ owner[q] = u  BY <1>1, <1>4, <1>7, <2>2
    <3>2. SaverHolds(u, q) /\ mine'[q] = mine[q] /\ renewed'[q] = renewed[q]
      BY <1>4, <3>1 DEF FollowInv, SaverRight
    <3>3. WrittenFor(u, q)' = WrittenFor(u, q)  BY <1>7 DEF WrittenFor
    <3> QED  BY <1>3, <1>6, <3>2, <3>3 DEF SaverHolds, Newest, LatestOf
  <2> QED  BY <2>1, <2>2 DEF SaverRight
<1>11. StornoRight'
  <2> SUFFICES ASSUME NEW s \in Storno
               PROVE  /\ pc'[s] = "delete" => found'[s]
                      /\ Holding(s)' => owner'[PairOfTx(s)] = s /\ StornoHolds(s)'
                      /\ \A q \in Pair : owner'[q] = s => q = PairOfTx(s) /\ Holding(s)'
    BY DEF StornoRight, PairOfTx
  <2>1. CASE s = t
    <3>1. Newest(latest[t], ValidTarings(p, {TargetOf[t]}))  BY <1>1 DEF Newest, LatestOf
    <3>2. StornoHolds(t)'  BY <1>4, <1>5, <1>6, <3>1 DEF StornoHolds, Newest, LatestOf
    <3>3. PairOfTx(t) = p  BY DEF p
    <3>4. \A q \in Pair : owner'[q] = t => q = p
      BY <1>1, <1>4, <3>3 DEF FollowInv, StornoRight
    <3> QED  BY <1>1, <1>4, <2>1, <3>2, <3>3, <3>4 DEF Holding
  <2>2. CASE s # t
    <3>1. pc'[s] = pc[s] /\ found'[s] = found[s] /\ latest'[s] = latest[s]  BY <1>3, <1>4, <2>2
    <3>2. ASSUME Holding(s) PROVE owner'[PairOfTx(s)] = s /\ StornoHolds(s)'
      <4>1. owner[PairOfTx(s)] = s /\ StornoHolds(s) /\ PairOfTx(s) \in Pair
        BY <3>2 DEF FollowInv, StornoRight
      <4>2. owner'[PairOfTx(s)] = s /\ mine'[PairOfTx(s)] = mine[PairOfTx(s)]
        BY <1>1, <1>4, <2>2, <4>1
      <4>3. PairOfTx(s)' = PairOfTx(s)  BY DEF PairOfTx
      <4> QED  BY <1>6, <3>1, <4>1, <4>2, <4>3 DEF StornoHolds, Newest, LatestOf
    <3>3. \A q \in Pair : owner'[q] = s => owner[q] = s  BY <1>4
    <3> QED  BY <3>1, <3>2, <3>3 DEF FollowInv, StornoRight, Holding
  <2> QED  BY <2>1, <2>2
<1> QED  BY <1>8, <1>9, <1>10, <1>11 DEF FollowInv

(* A transaction commits: what it brought into the registry, and the       *)
(* journal it brought it from, become true for all at once.                *)
LEMMA FollowCommit ==
  ASSUME IInv, FollowInv, StornosApart, NEW t \in Tx, Commit(t)
  PROVE  FollowInv'
<1> USE Kinds
<1>1. /\ pc[t] = "commit"
      /\ saved' = saved \cup IF t \in Saver THEN Todo(t) ELSE {}
      /\ annulled' = annulled \cup {w \in Taring : t \in Storno /\ w = TargetOf[t]}
      /\ row' = [p \in Pair |-> Sees(t, p)]
      /\ found' = [s \in Storno |->
           LET p == PairOfTx(s) IN found[s] /\ ~(owner[p] = t /\ renewed[p])]
      /\ pc' = [pc EXCEPT ![t] = "done"]
      /\ owner' = [p \in Pair |-> IF owner[p] = t THEN None ELSE owner[p]]
      /\ mine' = [p \in Pair |-> IF owner[p] = t THEN None ELSE mine[p]]
      /\ renewed' = [p \in Pair |-> renewed[p] /\ owner[p] # t]
      /\ todo' = (IF t \in Saver THEN [todo EXCEPT ![t] = {}] ELSE todo)
      /\ at' = (IF t \in Saver THEN [at EXCEPT ![t] = None] ELSE at)
      /\ latest' = latest
  BY DEF Commit, Release
<1>2. /\ pc'[t] = "done" /\ \A u \in Tx : u # t => pc'[u] = pc[u]
      /\ (t \in Saver => todo'[t] = {})
      /\ \A u \in Saver : u # t => todo'[u] = todo[u] /\ at'[u] = at[u]
  BY <1>1 DEF IInv, TypeOK
<1>3. /\ annulled \subseteq saved
      /\ t \in Storno => TargetOf[t] \in saved /\ Storning(t)
      /\ t \in Saver => Todo(t) \cap saved = {} /\ Written(t) = Todo(t)
  BY <1>1 DEF FollowInv, JournalSane, Storning, Written
<1>4. \A p \in Pair :
        owner[p] # t => /\ owner'[p] = owner[p] /\ mine'[p] = mine[p] /\ (renewed'[p] => renewed[p])
                        /\ row'[p] = row[p]
  BY <1>1 DEF Sees
<1>5. \A p \in Pair : \A gone : owner[p] # t => ValidTarings(p, gone)' = ValidTarings(p, gone)
  <2> SUFFICES ASSUME NEW p \in Pair, NEW gone, owner[p] # t
               PROVE  ValidTarings(p, gone)' = ValidTarings(p, gone)
    OBVIOUS
  <2>1. CASE t \in Saver
    <3>1. \A w \in Todo(t) : PairOf[w] # p  BY <1>3, <2>1 DEF FollowInv, SaverRight
    <3>2. saved' = saved \cup Todo(t) /\ annulled' = annulled  BY <1>1, <2>1
    <3> QED  BY <3>1, <3>2 DEF ValidTarings
  <2>2. CASE t \in Storno
    <3>1. PairOf[TargetOf[t]] # p  BY <1>1, <2>2 DEF FollowInv, StornoRight, Holding, PairOfTx
    <3>2. saved' = saved /\ annulled' = annulled \cup {TargetOf[t]}  BY <1>1, <2>2
    <3> QED  BY <3>1, <3>2 DEF ValidTarings
  <2> QED  BY <2>1, <2>2 DEF Tx
<1>6. \A p \in Pair : owner[p] = t => Newest(row'[p], ValidTarings(p, {})')
  <2> SUFFICES ASSUME NEW p \in Pair, owner[p] = t
               PROVE  Newest(row'[p], ValidTarings(p, {})')
    OBVIOUS
  <2>1. row'[p] = mine[p]  BY <1>1 DEF Sees
  <2>2. CASE t \in Saver
    <3>1. SaverHolds(t, p)  BY <2>2 DEF FollowInv, SaverRight
    <3>2. saved' = saved \cup Todo(t) /\ annulled' = annulled  BY <1>1, <2>2
    <3>3. WrittenFor(t, p) = {w \in Todo(t) : PairOf[w] = p}  BY <1>3, <2>2 DEF WrittenFor
    <3>4. Todo(t) \cap annulled = {}  BY <1>3, <2>2
    <3>5. ValidTarings(p, {})' = ValidTarings(p, {}) \cup WrittenFor(t, p)
      BY <3>2, <3>3, <3>4 DEF ValidTarings
    <3> QED  BY <2>1, <3>1, <3>5 DEF SaverHolds
  <2>3. CASE t \in Storno
    <3>1. p = PairOfTx(t) /\ StornoHolds(t)  BY <1>1, <2>3 DEF FollowInv, StornoRight, Holding
    <3>2. saved' = saved /\ annulled' = annulled \cup {TargetOf[t]}  BY <1>1, <2>3
    <3>3. ValidTarings(p, {})' = ValidTarings(p, {TargetOf[t]})  BY <3>2 DEF ValidTarings
    <3> QED  BY <1>1, <2>1, <3>1, <3>3 DEF StornoHolds
  <2> QED  BY <2>2, <2>3 DEF Tx
<1>7. JournalSane'
  <2>1. annulled' \subseteq saved'  BY <1>1, <1>3
  <2>2. \A s \in Storno : Storning(s)' \/ pc'[s] = "insert" => s # t /\ TargetOf[s] \in saved
    BY <1>2 DEF Storning, FollowInv, JournalSane
  <2>3. ASSUME NEW u \in Saver, pc'[u] # "done" PROVE Todo(u) \cap saved' = {}
    <3>1. u # t /\ Todo(u) \cap saved = {}  BY <1>2, <2>3 DEF FollowInv, JournalSane
    <3>2. t \in Saver => Todo(u) \cap Todo(t) = {}
      BY <3>1, TxAssumption DEF Todo, Saver, Taring
    <3> QED  BY <1>1, <3>1, <3>2
  <2>4. \A u \in Saver : /\ todo'[u] \subseteq Todo(u) /\ (pc'[u] = "commit" => todo'[u] = {})
                         /\ pc'[u] = "upsert" => at'[u] \in Todo(u) \ todo'[u]
    BY <1>2 DEF FollowInv, JournalSane
  <2> QED  BY <1>1, <2>1, <2>2, <2>3, <2>4 DEF JournalSane, Todo
<1>8. RowRight'
  <2> SUFFICES ASSUME NEW p \in Pair PROVE Newest(row[p], ValidTarings(p, {}))'
    BY DEF RowRight
  <2>1. CASE owner[p] = t  BY <1>6, <2>1 DEF Newest, LatestOf
  <2>2. CASE owner[p] # t
    <3>1. Newest(row[p], ValidTarings(p, {}))  BY DEF FollowInv, RowRight
    <3> QED  BY <1>4, <1>5, <2>2, <3>1 DEF Newest, LatestOf
  <2> QED  BY <2>1, <2>2
<1>9. \A u \in Saver : u # t => Written(u)' = Written(u)
  BY <1>2 DEF Written, Todo
<1>10. SaverRight'
  <2>1. ASSUME NEW u \in Saver, NEW w \in Written(u)' PROVE owner'[PairOf[w]] = u
    <3>1. u # t  BY <1>2, <2>1 DEF Written
    <3>2. w \in Written(u) /\ w \in Taring  BY <1>9, <2>1, <3>1 DEF Written
    <3>3. owner[PairOf[w]] = u /\ PairOf[w] \in Pair  BY <3>2, PairAssumption DEF FollowInv, SaverRight
    <3> QED  BY <1>4, <3>1, <3>3
  <2>2. ASSUME NEW u \in Saver, NEW p \in Pair, owner'[p] = u PROVE SaverHolds(u, p)'
    <3>1. owner[p] # t /\ owner[p] = u
      <4>1. owner[p] = t => owner'[p] = None  BY <1>1
      <4> QED  BY <1>4, <2>2, <4>1
    <3>2. SaverHolds(u, p)  BY <3>1 DEF FollowInv, SaverRight
    <3>3. WrittenFor(u, p)' = WrittenFor(u, p)  BY <1>9, <3>1 DEF WrittenFor
    <3> QED  BY <1>4, <1>5, <3>1, <3>2, <3>3 DEF SaverHolds, Newest, LatestOf
  <2> QED  BY <2>1, <2>2 DEF SaverRight
<1>11. StornoRight'
  <2> SUFFICES ASSUME NEW s \in Storno
               PROVE  /\ pc'[s] = "delete" => found'[s]
                      /\ Holding(s)' => owner'[PairOfTx(s)] = s /\ StornoHolds(s)'
                      /\ \A q \in Pair : owner'[q] = s => q = PairOfTx(s) /\ Holding(s)'
    BY DEF StornoRight, PairOfTx
  <2>1. CASE s = t
    <3>1. \A q \in Pair : owner'[q] # t  BY <1>1
    <3> QED  BY <1>2, <2>1, <3>1 DEF Holding
  <2>2. CASE s # t
    <3>1. pc'[s] = pc[s] /\ latest'[s] = latest[s] /\ PairOfTx(s) \in Pair  BY <1>1, <1>2, <2>2
    <3>2. ASSUME pc[s] = "delete" PROVE found'[s]
      <4>1. Storning(s) /\ found[s]  BY <3>2 DEF Storning, FollowInv, StornoRight
      <4>2. CASE t \in Saver
        <5>1. owner[PairOfTx(s)] = t => SaverHolds(t, PairOfTx(s))
          BY <3>1, <4>2 DEF FollowInv, SaverRight
        <5>2. row[PairOfTx(s)] # None  BY <4>1, StornoMeetsRow
        <5> QED  BY <1>1, <4>1, <5>1, <5>2 DEF SaverHolds
      <4>3. CASE t \in Storno
        <5>1. PairOfTx(s) # PairOfTx(t)  BY <1>3, <2>2, <4>1, <4>3, OneStornoOfPair
        <5>2. owner[PairOfTx(s)] # t  BY <3>1, <4>3, <5>1 DEF FollowInv, StornoRight
        <5> QED  BY <1>1, <4>1, <5>2
      <4> QED  BY <4>2, <4>3 DEF Tx
    <3>3. ASSUME Holding(s) PROVE owner'[PairOfTx(s)] = s /\ StornoHolds(s)'
      <4>1. owner[PairOfTx(s)] = s /\ StornoHolds(s)  BY <3>3 DEF FollowInv, StornoRight
      <4>2. owner'[PairOfTx(s)] = s /\ mine'[PairOfTx(s)] = mine[PairOfTx(s)]
        BY <1>4, <2>2, <3>1, <4>1
      <4>3. ValidTarings(PairOfTx(s), {TargetOf[s]})' = ValidTarings(PairOfTx(s), {TargetOf[s]})
        <5>1. PairOfTx(s)' = PairOfTx(s)  BY DEF PairOfTx
        <5> QED  BY <1>5, <2>2, <3>1, <4>1, <5>1
      <4>4. PairOfTx(s)' = PairOfTx(s)  BY DEF PairOfTx
      <4> QED  BY <3>1, <4>1, <4>2, <4>3, <4>4 DEF StornoHolds, Newest, LatestOf
    <3>4. \A q \in Pair : owner'[q] = s => owner[q] = s  BY <1>1
    <3> QED  BY <3>1, <3>2, <3>3, <3>4 DEF FollowInv, StornoRight, Holding
  <2> QED  BY <2>1, <2>2
<1> QED  BY <1>7, <1>8, <1>10, <1>11 DEF FollowInv

LEMMA FollowStep == IInv /\ FollowInv /\ StornosApart /\ [Next]_vars => FollowInv'
<1> SUFFICES ASSUME IInv, FollowInv, StornosApart, [Next]_vars PROVE FollowInv'  OBVIOUS
<1>1. CASE UNCHANGED vars
  BY <1>1 DEF vars, committed, locks, txVars, FollowInv, JournalSane, RowRight, SaverRight, StornoRight,
     Storning, Holding, Written, WrittenFor, SaverHolds, StornoHolds, ValidTarings, Newest, LatestOf,
     PairOfTx, Todo
<1>2. ASSUME NEW t \in Tx, Step(t) \/ Abort(t) PROVE FollowInv'
  <2>1. CASE EndDeadlock(t) \/ Abort(t)
    <3>1. pc[t] # "done"  BY <2>1 DEF EndDeadlock, Abort, Deadlocked, WaitsForLock, WaitsForRow, Active
    <3>2. Rollback(t) /\ UNCHANGED <<committed, found, latest>>  BY <2>1 DEF EndDeadlock, Abort
    <3> QED  BY <3>1, <3>2, FollowRollback
  <2> QED
    BY <1>2, <2>1, FollowStatements, FollowUpsert, FollowDelete, FollowInsert, FollowCommit DEF Step
<1> QED  BY <1>1, <1>2 DEF Next

(* As long as no two stornos of different tarings of one pair overlap, the *)
(* row of a pair is its latest taring that is not annulled, and there is   *)
(* none without one: after any interleaving of tarings, the import and     *)
(* stornos, and after any failure (rebuild_tare_registry_entry).           *)
THEOREM RegistryFollowsHolds == Spec /\ []StornosApart => []RegistryFollowsJournal
<1>1. IInv /\ FollowInv => RegistryFollowsJournal
  BY DEF FollowInv, RowRight, RegistryFollowsJournal, Newest
<1> QED  BY <1>1, RegistryInvariant, FollowInit, FollowStep, PTL DEF Spec

-----------------------------------------------------------------------------
(***************************************************************************)
(* A commit is a step of RegistryPromise, and nothing else is seen.        *)
(***************************************************************************)

(* Whose the rows and the changes in hand are, beyond FollowInv. *)
RowsOwned ==
  /\ \A t \in Saver : pc[t] = "log" => owner[PairOf[at[t]]] = t
  /\ \A t \in Saver, p \in Pair : owner[p] = t => \E w \in Todo(t) : PairOf[w] = p
  /\ \A t \in Tx : \A e \in changes[t] : owner[e.pair] = t
AnnulledByStorno == annulled = {TargetOf[s] : s \in Committed}

LEMMA OwnedInit == Init => RowsOwned /\ AnnulledByStorno
<1> SUFFICES ASSUME Init PROVE RowsOwned /\ AnnulledByStorno  OBVIOUS
<1>1. /\ pc = [t \in Tx |-> "idle"] /\ owner = [p \in Pair |-> None]
      /\ changes = [t \in Tx |-> {}] /\ annulled = {}
  BY DEF Init
<1>2. RowsOwned  BY <1>1, Kinds DEF RowsOwned
<1>3. Committed = {}  BY <1>1, Kinds DEF Committed
<1> QED  BY <1>1, <1>2, <1>3 DEF AnnulledByStorno

LEMMA OwnedRelease ==
  ASSUME IInv, RowsOwned, NEW t \in Tx, Release(t), pc'[t] # "log",
         \A u \in Tx : u # t => pc'[u] = pc[u]
  PROVE  RowsOwned'
<1> USE Kinds
<1>1. /\ \A p \in Pair : owner'[p] = IF owner[p] = t THEN None ELSE owner[p]
      /\ changes'[t] = {} /\ \A u \in Tx : u # t => changes'[u] = changes[u]
      /\ \A u \in Saver : u # t => at'[u] = at[u]
  BY DEF Release, IInv, TypeOK
<1>2. ASSUME NEW u \in Saver, pc'[u] = "log" PROVE owner'[PairOf[at'[u]]] = u
  <2>1. u # t /\ pc[u] = "log" /\ at'[u] = at[u]  BY <1>1, <1>2
  <2>2. at[u] \in Taring  BY <2>1 DEF IInv, TaringKnown
  <2> QED  BY <1>1, <2>1, <2>2, PairAssumption DEF RowsOwned
<1>3. ASSUME NEW u \in Saver, NEW p \in Pair, owner'[p] = u
      PROVE  \E w \in Todo(u) : PairOf[w] = p
  <2>1. owner[p] = u  BY <1>1, <1>3
  <2> QED  BY <2>1 DEF RowsOwned
<1>4. ASSUME NEW u \in Tx, NEW e \in changes'[u] PROVE owner'[e.pair] = u
  <2>1. u # t /\ e \in changes[u]  BY <1>1
  <2>2. e.pair \in Pair  BY <2>1 DEF IInv, TypeOK, Entry
  <2> QED  BY <1>1, <2>1, <2>2 DEF RowsOwned
<1> QED  BY <1>2, <1>3, <1>4 DEF RowsOwned, Todo

(* A transaction writes the row of a pair that is free or its own. *)
LEMMA OwnedWrite ==
  ASSUME IInv, RowsOwned, NEW t \in Tx, NEW p \in Pair, Free(t, p), UNCHANGED <<changes, at>>,
         owner' = [owner EXCEPT ![p] = t],
         t \in Saver => PairOf[at[t]] = p /\ \E w \in Todo(t) : PairOf[w] = p,
         \A u \in Tx : u # t => pc'[u] = pc[u]
  PROVE  RowsOwned'
<1> USE Kinds
<1>1. /\ owner'[p] = t /\ \A q \in Pair : q # p => owner'[q] = owner[q]
      /\ \A u \in Tx : u # t => owner[p] # u
  BY DEF IInv, TypeOK, Free
<1>2. ASSUME NEW u \in Saver, pc'[u] = "log" PROVE owner'[PairOf[at'[u]]] = u
  <2>1. CASE u = t  BY <1>1, <2>1
  <2>2. CASE u # t
    <3>1. at[u] \in Taring /\ owner[PairOf[at[u]]] = u
      BY <1>2, <2>2 DEF IInv, TaringKnown, RowsOwned
    <3> QED  BY <1>1, <2>2, <3>1, PairAssumption
  <2> QED  BY <2>1, <2>2
<1>3. ASSUME NEW u \in Saver, NEW q \in Pair, owner'[q] = u
      PROVE  \E w \in Todo(u) : PairOf[w] = q
  BY <1>1, <1>3 DEF RowsOwned
<1>4. ASSUME NEW u \in Tx, NEW e \in changes'[u] PROVE owner'[e.pair] = u
  <2>1. e.pair \in Pair /\ owner[e.pair] = u  BY DEF IInv, TypeOK, Entry, RowsOwned
  <2> QED  BY <1>1, <2>1
<1> QED  BY <1>2, <1>3, <1>4 DEF RowsOwned, Todo

LEMMA OwnedStep ==
  ASSUME IInv, FollowInv, RowsOwned, NEW t \in Tx, Step(t) \/ Abort(t)
  PROVE  RowsOwned'
<1> USE Kinds
<1>1. ASSUME UNCHANGED <<owner, changes>>, pc'[t] = "log" => t \in Storno,
             \A u \in Tx : u # t => pc'[u] = pc[u],
             \A u \in Saver : u # t => at'[u] = at[u]
      PROVE  RowsOwned'
  <2>1. \A u \in Saver : pc'[u] = "log" => u # t  BY <1>1
  <2> QED  BY <1>1, <2>1 DEF RowsOwned, Todo
<1>2. CASE InsertTaring(t)
  <2>1. \A u \in Saver : u # t => at'[u] = at[u]
    BY <1>2 DEF InsertTaring, IInv, TypeOK
  <2>2. /\ UNCHANGED <<owner, changes>> /\ pc'[t] = "upsert"
        /\ \A u \in Tx : u # t => pc'[u] = pc[u]
    BY <1>2 DEF InsertTaring, locks, IInv, TypeOK
  <2> QED  BY <1>1, <2>1, <2>2
<1>3. CASE UpsertTare(t)
  <2>1. at[t] \in Taring /\ at[t] \in Todo(t) /\ PairOf[at[t]] \in Pair
    BY <1>3, PairAssumption DEF UpsertTare, FollowInv, JournalSane
  <2>2. /\ Free(t, PairOf[at[t]]) /\ owner' = [owner EXCEPT ![PairOf[at[t]]] = t]
        /\ UNCHANGED <<changes, at>> /\ \A u \in Tx : u # t => pc'[u] = pc[u]
    BY <1>3 DEF UpsertTare, Write, IInv, TypeOK
  <2> QED  BY <2>1, <2>2, OwnedWrite
<1>4. CASE CheckStorno(t) \/ InsertStorno(t) \/ ScanRow(t) \/ SelectLatest(t)
  <2>1. t \in Storno /\ UNCHANGED <<owner, changes, at>> /\ \A u \in Tx : u # t => pc'[u] = pc[u]
    BY <1>4 DEF CheckStorno, InsertStorno, ScanRow, SelectLatest, locks, IInv, TypeOK
  <2> QED  BY <1>1, <2>1
<1>5. ASSUME t \in Storno, Free(t, PairOfTx(t)), UNCHANGED <<changes, at>>,
             \A u \in Tx : u # t => pc'[u] = pc[u],
             owner' = [owner EXCEPT ![PairOfTx(t)] = t]
      PROVE  RowsOwned'
  BY <1>5, OwnedWrite
<1>6. CASE DeleteRow(t)
  <2>1. /\ t \in Storno /\ Free(t, PairOfTx(t)) /\ UNCHANGED <<changes, at>>
        /\ \A u \in Tx : u # t => pc'[u] = pc[u]
        /\ owner' = owner \/ owner' = [owner EXCEPT ![PairOfTx(t)] = t]
    BY <1>6 DEF DeleteRow, Write, IInv, TypeOK
  <2> QED  BY <1>1, <1>5, <2>1
<1>7. CASE InsertRow(t)
  <2>1. CASE Rollback(t)
    BY <2>1, OwnedRelease DEF Rollback, IInv, TypeOK
  <2>2. CASE ~Rollback(t)
    <3>1. /\ t \in Storno /\ Free(t, PairOfTx(t)) /\ UNCHANGED <<changes, at>>
          /\ \A u \in Tx : u # t => pc'[u] = pc[u]
          /\ owner' = [owner EXCEPT ![PairOfTx(t)] = t]
      BY <1>7, <2>2 DEF InsertRow, Write, IInv, TypeOK
    <3> QED  BY <1>5, <3>1
  <2> QED  BY <2>1, <2>2
<1>8. CASE RecordTareChange(t)
  <2> DEFINE p == PairOfTx(t)
             e == [seq |-> nextSeq, pair |-> p, taring |-> Sees(t, p)]
  <2>1. /\ pc[t] = "log" /\ UNCHANGED <<owner, at>>
        /\ changes' = [changes EXCEPT ![t] = @ \cup {e}]
        /\ pc'[t] # "log" /\ \A u \in Tx : u # t => pc'[u] = pc[u]
    BY <1>8 DEF RecordTareChange, AddChange, IInv, TypeOK
  <2>2. owner[p] = t
    <3>1. CASE t \in Storno
      BY <2>1, <3>1 DEF FollowInv, StornoRight, Holding
    <3>2. CASE t \notin Storno
      BY <2>1, <3>2 DEF RowsOwned, PairOfTx, Tx
    <3> QED  BY <3>1, <3>2
  <2>3. e.pair = p  OBVIOUS
  <2>4. /\ changes'[t] = changes[t] \cup {e}
        /\ \A u \in Tx : u # t => changes'[u] = changes[u]
    BY <2>1 DEF IInv, TypeOK
  <2> HIDE DEF e, p
  <2>5. \A u \in Tx : \A d \in changes'[u] : owner'[d.pair] = u
    BY <2>1, <2>2, <2>3, <2>4 DEF RowsOwned
  <2> QED  BY <2>1, <2>5 DEF RowsOwned, Todo
<1>9. CASE Commit(t)
  BY <1>9, OwnedRelease DEF Commit, IInv, TypeOK
<1>10. CASE EndDeadlock(t) \/ Abort(t)
  <2>1. Rollback(t)  BY <1>10 DEF EndDeadlock, Abort
  <2> QED  BY <2>1, OwnedRelease DEF Rollback, IInv, TypeOK
<1> QED  BY <1>2, <1>3, <1>4, <1>6, <1>7, <1>8, <1>9, <1>10 DEF Step

(* The statements before the commit, and a failure, are not seen. *)
LEMMA UnseenStep ==
  ASSUME IInv, NEW t \in Tx, Step(t) \/ Abort(t), ~Commit(t)
  PROVE  UNCHANGED <<saved, annulled, row, log, Committed>>
<1> USE Kinds
<1>1. UNCHANGED <<saved, annulled, row, log>>
  BY DEF Step, InsertTaring, UpsertTare, RecordTareChange, CheckStorno, InsertStorno,
         ScanRow, DeleteRow, SelectLatest, InsertRow, EndDeadlock, Abort, committed
<1>2. pc[t] # "done"
  BY DEF Step, InsertTaring, UpsertTare, RecordTareChange, CheckStorno, InsertStorno,
         ScanRow, DeleteRow, SelectLatest, InsertRow, EndDeadlock, Abort, Active,
         Deadlocked, WaitsForLock, WaitsForRow
<1>3. pc'[t] # "done" /\ \A u \in Tx : u # t => pc'[u] = pc[u]
  BY DEF Step, InsertTaring, UpsertTare, RecordTareChange, CheckStorno, InsertStorno,
         ScanRow, DeleteRow, SelectLatest, InsertRow, EndDeadlock, Abort, Rollback, IInv, TypeOK
<1>4. Committed' = Committed  BY <1>2, <1>3 DEF Committed
<1> QED  BY <1>1, <1>4

(* A commit makes anew the rows its transaction holds, and tells them.     *)
LEMMA CommitTells ==
  ASSUME IInv, FollowInv, StornosApart, RowsOwned, NEW t \in Tx, Commit(t), AnnulledByStorno',
         NEW P \in SUBSET Pair, \A p \in Pair : p \in P <=> owner[p] = t
  PROVE  Promise!Renew(P) /\ Promise!Tell(P)
<1> USE Kinds
<1>1. /\ pc[t] = "commit" /\ log' = log \cup changes[t]
      /\ row' = [p \in Pair |-> Sees(t, p)]
  BY DEF Commit
<1>2. TypeOK' /\ FollowInv'
  BY TypeStep, FollowCommit DEF IInv, Step
<1>3. Promise!Renew(P)
  <2>1. row' \in [Pair -> Taring \cup {None}]  BY <1>2 DEF TypeOK, Row
  <2>2. ASSUME NEW p \in P PROVE Promise!Current(p)'
    <3>1. Promise!Valid(p)' = ValidTarings(p, {})'
      BY <1>2 DEF Promise!Valid, ValidTarings, AnnulledByStorno, TypeOK
    <3>2. Newest(row'[p], ValidTarings(p, {})')  BY <1>2 DEF FollowInv, RowRight, Newest, LatestOf
    <3> QED  BY <3>1, <3>2 DEF Promise!Current, Newest, LatestOf
  <2>3. \A p \in Pair \ P : row'[p] = row[p]  BY <1>1 DEF Sees
  <2> QED  BY <2>1, <2>2, <2>3 DEF Promise!Renew
<1>4. Promise!Tell(P)
  <2>1. /\ \A d, e \in changes[t] : d.seq = e.seq => d = e
        /\ \A e \in changes[t], d \in log : d.seq < e.seq
    BY DEF IInv, Numbered, Injective
  <2>2. log' \ log = changes[t]
    <3>1. \A e \in changes[t] : e.seq \in Nat  BY DEF IInv, TypeOK, Entry
    <3>2. \A e \in changes[t] : e \notin log  BY <2>1, <3>1
    <3> QED  BY <1>1, <3>2
  <2>3. \A e \in changes[t] : e.pair \in P
    BY DEF RowsOwned, IInv, TypeOK, Entry
  <2>4. ASSUME NEW p \in P
        PROVE  \E e \in changes[t] : /\ e.pair = p /\ e.taring = row'[p]
                                     /\ \A d \in changes[t] : d.pair = p => d.seq <= e.seq
    <3>1. owner[p] = t /\ ~Dirty(t, p)  BY <1>1 DEF Dirty
    <3>2. Tells(changes[t], p, Sees(t, p))  BY <3>1 DEF IInv, Told, ToldOf
    <3> QED  BY <1>1, <3>2 DEF Tells
  <2> QED  BY <1>1, <2>1, <2>2, <2>3, <2>4 DEF Promise!Tell
<1> QED  BY <1>3, <1>4

LEMMA CommitIsPromised ==
  ASSUME IInv, FollowInv, StornosApart, RowsOwned, AnnulledByStorno, NEW t \in Tx, Commit(t)
  PROVE  AnnulledByStorno' /\ Promise!Next
<1> USE Kinds
<1>1. /\ pc[t] = "commit" /\ pc'[t] = "done" /\ \A u \in Tx : u # t => pc'[u] = pc[u]
      /\ saved' = saved \cup IF t \in Saver THEN Todo(t) ELSE {}
      /\ annulled' = annulled \cup {w \in Taring : t \in Storno /\ w = TargetOf[t]}
  BY DEF Commit, IInv, TypeOK
<1>2. CASE t \in Saver
  <2> DEFINE P == {PairOf[w] : w \in Todo(t)}
  <2>1. Committed' = Committed /\ saved' = saved \cup Todo(t) /\ annulled' = annulled
    BY <1>1, <1>2 DEF Committed
  <2>2. AnnulledByStorno'  BY <2>1 DEF AnnulledByStorno
  <2>3. Todo(t) \cap saved = {} /\ Written(t) = Todo(t)
    BY <1>1, <1>2 DEF FollowInv, JournalSane, Written
  <2>4. P \in SUBSET Pair  BY <1>2, PairAssumption
  <2>5. \A p \in Pair : p \in P <=> owner[p] = t
    <3>1. \A w \in Todo(t) : owner[PairOf[w]] = t  BY <1>2, <2>3 DEF FollowInv, SaverRight
    <3>2. \A p \in Pair : owner[p] = t => \E w \in Todo(t) : PairOf[w] = p
      BY <1>2 DEF RowsOwned
    <3> QED  BY <3>1, <3>2
  <2>6. Promise!Renew(P) /\ Promise!Tell(P)
    <3> HIDE DEF P
    <3> QED  BY <2>2, <2>4, <2>5, CommitTells
  <2>7. Promise!Save(Todo(t))  BY <2>1, <2>3, <2>6 DEF Promise!Save
  <2> QED  BY <1>2, <2>2, <2>7 DEF Promise!Next
<1>3. CASE t \in Storno
  <2> DEFINE P == {PairOf[TargetOf[t]]}
  <2>1. /\ Committed' = Committed \cup {t} /\ saved' = saved
        /\ annulled' = annulled \cup {TargetOf[t]}
    BY <1>1, <1>3 DEF Committed
  <2>2. AnnulledByStorno'  BY <2>1 DEF AnnulledByStorno
  <2>3. TargetOf[t] \in saved /\ \A u \in Committed : TargetOf[u] # TargetOf[t]
    <3>1. Storning(t)  BY <1>1 DEF Storning
    <3>2. TargetOf[t] \in saved  BY <1>3, <3>1 DEF FollowInv, JournalSane
    <3>3. TargetOf[t] \notin annulled  BY <1>3, <3>1 DEF IInv, KeyHeld
    <3> QED  BY <3>2, <3>3 DEF AnnulledByStorno
  <2>4. P \in SUBSET Pair /\ P = {PairOfTx(t)}  BY <1>3 DEF PairOfTx
  <2>5. \A p \in Pair : p \in P <=> owner[p] = t
    BY <1>1, <1>3, <2>4 DEF FollowInv, StornoRight, Holding
  <2>6. Promise!Renew(P) /\ Promise!Tell(P)
    <3> HIDE DEF P
    <3> QED  BY <2>2, <2>4, <2>5, CommitTells
  <2>7. Promise!Annul(t)  BY <2>1, <2>3, <2>6 DEF Promise!Annul
  <2> QED  BY <1>3, <2>2, <2>7 DEF Promise!Next
<1> QED  BY <1>2, <1>3 DEF Tx

LEMMA PromiseStep ==
  IInv /\ FollowInv /\ StornosApart /\ RowsOwned /\ AnnulledByStorno /\ [Next]_vars
    => RowsOwned' /\ AnnulledByStorno' /\ [Promise!Next]_<<saved, Committed, row, log>>
<1> SUFFICES ASSUME IInv, FollowInv, StornosApart, RowsOwned, AnnulledByStorno, [Next]_vars
             PROVE  /\ RowsOwned' /\ AnnulledByStorno'
                    /\ [Promise!Next]_<<saved, Committed, row, log>>
  OBVIOUS
<1>1. CASE UNCHANGED vars
  BY <1>1 DEF vars, committed, locks, txVars, RowsOwned, AnnulledByStorno, Committed, Todo
<1>2. ASSUME NEW t \in Tx, Step(t) \/ Abort(t)
      PROVE  /\ RowsOwned' /\ AnnulledByStorno'
             /\ [Promise!Next]_<<saved, Committed, row, log>>
  <2>1. RowsOwned'  BY <1>2, OwnedStep
  <2>2. CASE Commit(t)  BY <2>1, <2>2, CommitIsPromised
  <2>3. CASE ~Commit(t)
    <3>1. UNCHANGED <<saved, annulled, row, log, Committed>>  BY <1>2, <2>3, UnseenStep
    <3> QED  BY <2>1, <3>1 DEF AnnulledByStorno
  <2> QED  BY <2>2, <2>3
<1> QED  BY <1>1, <1>2 DEF Next

LEMMA PromiseInit == Init => Promise!Init
<1> SUFFICES ASSUME Init PROVE Promise!Init  OBVIOUS
<1>1. saved = {} /\ row = [p \in Pair |-> None] /\ log = {} /\ pc = [t \in Tx |-> "idle"]
  BY DEF Init
<1>2. Committed = {}  BY <1>1, Kinds DEF Committed
<1> QED  BY <1>1, <1>2 DEF Promise!Init

(* The transactions implement RegistryPromise: to who sees what is         *)
(* committed, a save, an import or a storno is one step that makes the     *)
(* rows of its pairs anew from the journal and tells them after all that   *)
(* was told, however its statements overlapped with others; a deadlock, a  *)
(* failure or a repeat of a record is not seen. As in RegistryFollowsHolds *)
(* no two stornos of different tarings of one pair are at work together.   *)
THEOREM KeepsRegistryHolds == Spec /\ []StornosApart => KeepsRegistry
<1>1. Init => RowsOwned /\ AnnulledByStorno /\ Promise!Init
  BY OwnedInit, PromiseInit
<1> QED
  BY <1>1, RegistryInvariant, FollowInit, FollowStep, PromiseStep, PTL
  DEF Spec, KeepsRegistry, Promise!Spec, Promise!rvars
=============================================================================
