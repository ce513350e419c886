--------------------------- MODULE RegistryPromise ---------------------------
(***************************************************************************)
(* What the transactions on the registry of tares promise to those who see *)
(* only what is committed, with nothing of statements, locks and failures: *)
(* records enter the journal and are annulled in one step each; that step  *)
(* makes the row of the pair anew from the journal, leaves the other rows, *)
(* and tells the new rows in the journal of changes, after all that was    *)
(* told before.                                                            *)
(***************************************************************************)
EXTENDS Naturals

CONSTANTS Taring, Together, Storno, TargetOf, Pair, PairOf, TaredAt, None

VARIABLES
  journal,   \* tarings that are saved
  stornos,   \* stornos that are saved
  registry,  \* pair -> its active taring
  told       \* the changes of the registry that agents may read

rvars == <<journal, stornos, registry, told>>

Valid(p) == {w \in journal : PairOf[w] = p /\ \A s \in stornos : TargetOf[s] # w}

(* The row of p is a latest valid taring, or there is neither. *)
Current(p) ==
  \/ Valid(p) = {} /\ registry[p] = None
  \/ registry[p] \in Valid(p) /\ \A w \in Valid(p) : TaredAt[w] <= TaredAt[registry[p]]

Renew(P) ==
  /\ registry' \in [Pair -> Taring \cup {None}]
  /\ \A p \in P : Current(p)'
  /\ \A p \in Pair \ P : registry'[p] = registry[p]

(* New changes are of the pairs P, above the old ones, and the last of     *)
(* each pair is its row.                                                   *)
Tell(P) ==
  LET new == told' \ told IN
  /\ told \subseteq told'
  /\ \A e \in new, d \in told : d.seq < e.seq
  /\ \A d, e \in new : d.seq = e.seq => d = e
  /\ \A e \in new : e.pair \in P
  /\ \A p \in P : \E e \in new :
       /\ e.pair = p /\ e.taring = registry'[p]
       /\ \A d \in new : d.pair = p => d.seq <= e.seq

Init == journal = {} /\ stornos = {} /\ registry = [p \in Pair |-> None] /\ told = {}

(* A taring of the scales, or all of an import. *)
Save(W) ==
  /\ W \cap journal = {}
  /\ journal' = journal \cup W /\ stornos' = stornos
  /\ LET P == {PairOf[w] : w \in W} IN Renew(P) /\ Tell(P)

(* One storno per record. *)
Annul(s) ==
  /\ TargetOf[s] \in journal
  /\ \A u \in stornos : TargetOf[u] # TargetOf[s]
  /\ journal' = journal /\ stornos' = stornos \cup {s}
  /\ LET P == {PairOf[TargetOf[s]]} IN Renew(P) /\ Tell(P)

Next == (\E W \in Together : Save(W)) \/ (\E s \in Storno : Annul(s))

Spec == Init /\ [][Next]_rvars
=============================================================================
