----------------------------- MODULE LoginThrottle -----------------------------
(***************************************************************************)
(* The pause of a login after failed sign-ins (center/web/login_throttle)  *)
(* under the sign-in form, which checks the password in a thread between   *)
(* the look at the pause and the count of the failure.                     *)
(***************************************************************************)
EXTENDS Integers, Sequences, FiniteSets, FiniteSetsExt

CONSTANTS
  Login,                      \* keys: cut to _MAX_KEY_LEN, so there are finitely many
  MaxFailures, Window, Pause, \* ThrottleRule
  MaxTracked,                 \* _MAX_TRACKED_LOGINS
  MaxTogether,                \* bound: attempts of all logins whose password is being checked
  MaxTime, MaxTries           \* bounds: the clock, attempts

ASSUME ThrottleAssumption ==
  /\ {MaxFailures, Window, Pause, MaxTracked} \subseteq Nat \ {0}
  /\ IsFiniteSet(Login) /\ {MaxTime, MaxTries} \subseteq Nat

VARIABLES
  seconds,      \* the clock
  failing,      \* the place of a key in the order of _failures, 0 for none
  stamps,       \* moments of failures
  paused,       \* the place of a key in the order of _paused_until
  until,        \* the end of the pause
  checking,     \* attempts whose password is being checked, by login
  tries,        \* attempts that passed the look at the pause
  guesses,      \* when wrong passwords of a login were checked (history)
  excused       \* logins that lost their entry or had two attempts at once (history)

throttleVars == <<seconds, failing, stamps, paused, until, checking, tries, guesses, excused>>

(***************************************************************************)
(* A dict and the order of its keys.                                       *)
(***************************************************************************)
Keys(table) == {l \in Login : table[l] # 0}
Only(table, kept) == [l \in Login |-> IF l \in kept THEN table[l] ELSE 0]
Put(table, l) ==
  IF table[l] # 0 THEN table ELSE [table EXCEPT ![l] = Max({table[k] : k \in Login}) + 1]

(* _evict_oldest: the oldest keys of a table go until there is room.       *)
Evicted(table) ==
  Only(table, {l \in Keys(table) :
                 Cardinality({k \in Keys(table) : table[k] > table[l]}) < MaxTracked - 1})

BeingChecked == FoldSet(LAMBDA l, n : n + checking[l], 0, Login)

ThrottleTypeOK ==
  /\ seconds \in 0 .. MaxTime
  /\ failing \in [Login -> Nat] /\ paused \in [Login -> Nat]
  /\ stamps \in [Login -> Seq(0 .. seconds)]
  /\ \A l \in Login : failing[l] = 0 <=> stamps[l] = <<>>
  /\ checking \in [Login -> 0 .. MaxTries] /\ tries \in 0 .. MaxTries

ThrottleInit ==
  /\ seconds = 0
  /\ failing = [l \in Login |-> 0] /\ stamps = [l \in Login |-> <<>>]
  /\ paused = [l \in Login |-> 0] /\ until = [l \in Login |-> 0]
  /\ checking = [l \in Login |-> 0]
  /\ tries = 0
  /\ guesses = [l \in Login |-> <<>>]
  /\ excused = {}

SecondPasses ==
  /\ seconds < MaxTime
  /\ seconds' = seconds + 1
  /\ UNCHANGED <<failing, stamps, paused, until, checking, tries, guesses, excused>>

Expired(l) == until[l] <= seconds

(* retry_after: a pause that is over is forgotten; otherwise the attempt   *)
(* is refused before the password is looked at.                            *)
Attempt(l) ==
  /\ BeingChecked < MaxTogether /\ tries < MaxTries
  /\ tries' = tries + 1
  /\ l \in Keys(paused) => Expired(l)
  /\ paused' = [paused EXCEPT ![l] = 0]
  /\ checking' = [checking EXCEPT ![l] = @ + 1]
  /\ excused' = IF checking[l] > 0 THEN excused \cup {l} ELSE excused
  /\ UNCHANGED <<seconds, failing, stamps, until, guesses>>

(* _drop_expired: stamps leave the deque from the left until one is in the *)
(* window.                                                                 *)
InWindow(times) == {i \in DOMAIN times : times[i] > seconds - Window}
Recent(times) ==
  IF InWindow(times) = {} THEN <<>> ELSE SubSeq(times, Min(InWindow(times)), Len(times))

(* record_failure; a full table is swept and trimmed first. *)
Fail(l) ==
  LET full   == l \notin Keys(failing) /\ Cardinality(Keys(failing)) >= MaxTracked
      kept   == IF full THEN Evicted(Only(failing, {k \in Login : Recent(stamps[k]) # <<>>})) ELSE failing
      keptP  == IF full THEN Evicted(Only(paused, {k \in Login : ~Expired(k)})) ELSE paused
      mine   == Append(Recent(stamps[l]), seconds)
      pauses == Len(mine) >= MaxFailures
  IN
  /\ checking[l] > 0
  /\ checking' = [checking EXCEPT ![l] = @ - 1]
  /\ failing' = Put(kept, l)
  /\ stamps' = [k \in Login |-> IF k = l THEN mine
                                ELSE IF k \notin Keys(kept) THEN <<>>
                                ELSE IF full THEN Recent(stamps[k]) ELSE stamps[k]]
  /\ paused' = IF pauses THEN Put(keptP, l) ELSE keptP
  /\ until' = IF pauses THEN [until EXCEPT ![l] = seconds + Pause] ELSE until
  /\ guesses' = [guesses EXCEPT ![l] = Append(Recent(@), seconds)]
  /\ excused' = excused \cup {k \in Keys(failing) \ Keys(kept) : Recent(stamps[k]) # <<>>}
                        \cup {k \in Keys(paused) \ Keys(keptP) : ~Expired(k)}
  /\ UNCHANGED <<seconds, tries>>

(* reset *)
Succeed(l) ==
  /\ checking[l] > 0
  /\ checking' = [checking EXCEPT ![l] = @ - 1]
  /\ failing' = [failing EXCEPT ![l] = 0] /\ stamps' = [stamps EXCEPT ![l] = <<>>]
  /\ paused' = [paused EXCEPT ![l] = 0]
  /\ guesses' = [guesses EXCEPT ![l] = <<>>]
  /\ UNCHANGED <<seconds, until, tries, excused>>

ThrottleNext == SecondPasses \/ \E l \in Login : Attempt(l) \/ Fail(l) \/ Succeed(l)
ThrottleSpec == ThrottleInit /\ [][ThrottleNext]_throttleVars

-----------------------------------------------------------------------------
(***************************************************************************)
(* Properties.                                                             *)
(***************************************************************************)
(* Wrong passwords of one login are looked at as often as the rule says,   *)
(* and from then on once in a pause, whoever else signs in meanwhile -     *)
(* unless its entry was thrown out of a full table, or attempts of it ran  *)
(* at once, which the module leaves to nginx.                              *)
GuessesPaced ==
  \A l \in Login \ excused :
    \A i \in DOMAIN guesses[l] : i > MaxFailures =>
      guesses[l][i] - guesses[l][i - 1] >= Pause

(* However many logins are tried, the tables stay small: the failures      *)
(* within the limit, the pauses within twice of it (the limit of the       *)
(* pauses is looked after only when a login is added to the failures).     *)
TablesBounded ==
  Cardinality(Keys(failing)) <= MaxTracked /\ Cardinality(Keys(paused)) < 2 * MaxTracked

(* The pause after failed sign-ins: guesses are paced and the tables stay  *)
(* small.                                                                  *)
ThrottleInv == ThrottleTypeOK /\ GuessesPaced /\ TablesBounded
===============================================================================
