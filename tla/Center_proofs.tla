---------------------------- MODULE Center_proofs ----------------------------
(***************************************************************************)
(* Theorems about the parts of the center: the accounts of the panel and   *)
(* the pause after failed sign-ins, the outbox of events, the operators of *)
(* a weighing PC, monitoring and the notifier of the chat, the import of   *)
(* tarings from the AIS, the calendar, what is said of a tare over the     *)
(* months and the periods of the reports. Each is proved for any values of *)
(* its constants.                                                          *)
(***************************************************************************)
EXTENDS PanelSignIn, EventOutbox, OperatorSync, Alerts, TareImport, TareStory, ReportPeriods,
        SequenceTheorems, FiniteSetTheorems, WellFoundedInduction, TLAPS

(* Of a set of numbers there is a least one. *)
LEMMA Least ==
  ASSUME NEW S \in SUBSET Nat, S # {}
  PROVE  \E i \in S : \A j \in S : i <= j
<1> DEFINE R == {e \in Nat \X Nat : e[1] < e[2]}
<1>1. IsWellFoundedOn(R, Nat)
  <2>1. R = OpToRel(<, Nat)  BY DEF OpToRel
  <2> QED  BY <2>1, NatLessThanWellFounded
<1>2. \A x, y \in Nat : y < x => <<y, x>> \in R  OBVIOUS
<1> HIDE DEF R
<1>3. \E i \in S : \A j \in S : ~(<<j, i>> \in R)  BY <1>1, WFMin
<1>4. PICK i \in S : \A j \in S : ~(<<j, i>> \in R)  BY <1>3
<1>5. \A j \in S : i <= j
  <2> SUFFICES ASSUME NEW j \in S PROVE i <= j  OBVIOUS
  <2>1. i \in Nat /\ j \in Nat  OBVIOUS
  <2>2. ~(j < i)  BY <1>2, <1>4, <2>1
  <2> QED  BY <2>1, <2>2
<1> QED  BY <1>5

LEMMA MinIs ==
  ASSUME NEW S \in SUBSET Nat, S # {}
  PROVE  Min(S) \in S /\ \A j \in S : Min(S) <= j
<1>1. \E i \in S : \A j \in S : i <= j  BY Least
<1> QED  BY <1>1 DEF Min

(* The first of the numbers of a set are its front: what comes before one  *)
(* of them is one of them.                                                 *)
LEMMA FrontOf ==
  ASSUME NEW S \in SUBSET Nat, IsFiniteSet(S), NEW n \in Nat, NEW i \in S, NEW j \in S, i < j,
         Cardinality({k \in S : k < j}) < n
  PROVE  Cardinality({k \in S : k < i}) < n
<1> DEFINE A == {k \in S : k < i}
           B == {k \in S : k < j}
<1>1. IsFiniteSet(B)  BY FS_Subset
<1>2. A \subseteq B
  <2>1. i \in Nat /\ j \in Nat  OBVIOUS
  <2>2. \A k \in S : k < i => k < j  BY <2>1
  <2> QED  BY <2>2
<1>3. Cardinality(A) <= Cardinality(B) /\ Cardinality(A) \in Nat /\ Cardinality(B) \in Nat
  BY <1>1, <1>2, FS_Subset, FS_CardinalityType
<1>4. Cardinality(B) < n  OBVIOUS
<1> HIDE DEF A, B
<1>5. Cardinality(A) < n  BY <1>3, <1>4
<1> QED  BY <1>5 DEF A
-----------------------------------------------------------------------------
(***************************************************************************)
(* PanelAccess: an administrator remains, an old password opens nothing.   *)
(***************************************************************************)

Visits ==
  [at : {"none", "admitted", "checked", "resign"}, what : Deed \cup {"none"},
   target : User \cup {"none"}, admitted : Nat, saw : {0, 1}]
Cookies == {NoSession} \cup [login : User, stamp : Nat, opened : Nat]

AccessType ==
  /\ AccessTypeOK
  /\ session \in [Browser -> Cookies]
  /\ visit \in [Browser -> Visits]
  /\ access \in [passwords : Nat, visits : Nat, overlap : BOOLEAN, resigned : BOOLEAN]
  /\ \A b \in Browser : visit[b] # NoVisit =>
       visit[b].at # "none" /\ visit[b].what \in Deed /\ visit[b].target \in User
  /\ \A b \in Browser : visit[b].at = "resign" => visit[b].what = "password"

IsAdmin(u) == account[u].active /\ account[u].admin

(* What a request does when it commits leaves an administrator.            *)
LeavesAdmin(b) ==
  \E a \in User : IsAdmin(a) /\ (\/ a # visit[b].target
                                 \/ visit[b].what = "password"
                                 \/ visit[b].what = "toggle" /\ visit[b].saw = 0)

(* A request between its check and its commit was right to pass the check, *)
(* unless another has committed beside it.                                 *)
ChecksStand == access.overlap \/ \A b \in Browser : visit[b].at = "checked" => LeavesAdmin(b)

(* A stamp of now belongs to a session opened with the password of now.    *)
StampTells ==
  access.resigned \/ \A b \in Browser :
    session[b] # NoSession /\ session[b].stamp = account[session[b].login].pw =>
      session[b].opened = account[session[b].login].pw

AccessIInv == AccessType /\ SomeAdminUnlessOverlap /\ ChecksStand /\ StampTells

(* The invariant of accounts and sessions holds before anybody signed in:  *)
(* every account is an active administrator.                              *)
THEOREM AccessStarts == AccessInit => AccessIInv
<1> SUFFICES ASSUME AccessInit PROVE AccessIInv
  OBVIOUS
<1>1. \A u \in User : IsAdmin(u) /\ account[u].pw = 1  BY DEF AccessInit, IsAdmin
<1>2. AccessType
  BY NameAssumption DEF AccessInit, AccessType, AccessTypeOK, Visits, Cookies, NoSession, NoVisit
<1>3. SomeAdminUnlessOverlap  BY <1>1, UsersAssumption DEF SomeAdminUnlessOverlap, IsAdmin
<1>4. ChecksStand /\ StampTells  BY DEF AccessInit, ChecksStand, StampTells, NoVisit, NoSession
<1> QED  BY <1>2, <1>3, <1>4 DEF AccessIInv

(* Steps that change no account and let no request pass its check keep the *)
(* two parts about administrators.                                         *)
LEMMA AdminsStay ==
  ASSUME AccessIInv, UNCHANGED <<account, access>>,
         \A b \in Browser : visit'[b].at = "checked" => visit'[b] = visit[b]
  PROVE  SomeAdminUnlessOverlap' /\ ChecksStand'
BY DEF AccessIInv, SomeAdminUnlessOverlap, ChecksStand, LeavesAdmin, IsAdmin

LEMMA SignInKeeps ==
  ASSUME AccessIInv, NEW b \in Browser, NEW u \in User, SignIn(b, u)
  PROVE  AccessIInv'
<1> DEFINE s == [login |-> u, stamp |-> account[u].pw, opened |-> account[u].pw]
<1>1. /\ session' = [session EXCEPT ![b] = s] /\ UNCHANGED <<account, visit, access>>
      /\ visit[b] = NoVisit
  BY DEF SignIn
<1>2. s \in Cookies /\ account[u].pw \in Nat
  BY DEF AccessIInv, AccessType, AccessTypeOK, Cookies
<1>3. AccessType'
  BY <1>1, <1>2 DEF AccessIInv, AccessType, AccessTypeOK
<1>4. StampTells'
  BY <1>1, <1>2 DEF AccessIInv, AccessType, StampTells
<1> QED  BY <1>1, <1>3, <1>4, AdminsStay DEF AccessIInv

LEMMA LeavingKeeps ==
  ASSUME AccessIInv, NEW b \in Browser, visit[b] = NoVisit,
         session' = [session EXCEPT ![b] = NoSession], UNCHANGED <<account, visit>>,
         access' = access \/ access' = [access EXCEPT !.visits = @ + 1]
  PROVE  AccessIInv'
<1>1. access' \in [passwords : Nat, visits : Nat, overlap : BOOLEAN, resigned : BOOLEAN]
      /\ access'.overlap = access.overlap /\ access'.resigned = access.resigned
  BY DEF AccessIInv, AccessType
<1>2. AccessType'
  <2>1. \A c \in Browser : session'[c].login \in User => c # b
    BY NameAssumption DEF AccessIInv, AccessType, NoSession
  <2> QED  BY <1>1, <2>1 DEF AccessIInv, AccessType, AccessTypeOK, Cookies
<1>3. SomeAdminUnlessOverlap' /\ ChecksStand'
  BY <1>1 DEF AccessIInv, SomeAdminUnlessOverlap, ChecksStand, LeavesAdmin, IsAdmin
<1>4. StampTells'  BY <1>1 DEF AccessIInv, AccessType, StampTells
<1> QED  BY <1>2, <1>3, <1>4 DEF AccessIInv

LEMMA GateKeeps ==
  ASSUME AccessIInv, NEW b \in Browser, NEW what \in Deed, NEW u \in User, Gate(b, what, u)
  PROVE  AccessIInv'
<1>1. CASE ~Lives(session[b])
  BY <1>1, LeavingKeeps DEF Gate, Dropped
<1>2. CASE Lives(session[b])
  <2> DEFINE v == [NoVisit EXCEPT !.at = "admitted", !.what = what, !.target = u,
                                  !.admitted = session[b].opened]
  <2>1. /\ visit' \in {visit, [visit EXCEPT ![b] = v]} /\ UNCHANGED <<account, session>>
        /\ access' = [access EXCEPT !.visits = @ + 1] /\ session[b] # NoSession
    BY <1>2 DEF Gate, Admitted
  <2>2. session[b].opened \in Nat /\ session[b].login \in User
    BY <2>1 DEF AccessIInv, AccessType, Cookies
  <2>3. v \in Visits /\ v.at = "admitted" /\ v.what = what /\ v.target = u
    BY <2>2 DEF Visits, NoVisit
  <2>4. access' \in [passwords : Nat, visits : Nat, overlap : BOOLEAN, resigned : BOOLEAN]
        /\ access'.overlap = access.overlap /\ access'.resigned = access.resigned
    BY <2>1 DEF AccessIInv, AccessType
  <2> HIDE DEF v
  <2>5. AccessType'
    BY <2>1, <2>2, <2>3, <2>4 DEF AccessIInv, AccessType, AccessTypeOK
  <2>6. \A c \in Browser : visit'[c].at = "checked" => visit'[c] = visit[c]
    BY <2>1, <2>3 DEF AccessIInv, AccessType
  <2>7. SomeAdminUnlessOverlap' /\ ChecksStand'
    BY <2>1, <2>4, <2>6 DEF AccessIInv, SomeAdminUnlessOverlap, ChecksStand, LeavesAdmin, IsAdmin
  <2>8. StampTells'  BY <2>1, <2>4 DEF AccessIInv, StampTells
  <2> QED  BY <2>5, <2>7, <2>8 DEF AccessIInv
<1> QED  BY <1>1, <1>2

(* The check: who passes it leaves an administrator.                       *)
LEMMA CheckKeeps ==
  ASSUME AccessIInv, NEW b \in Browser, CheckDeed(b)
  PROVE  AccessIInv'
<1> DEFINE u == visit[b].target
           v == [visit[b] EXCEPT !.at = "checked", !.saw = IF account[u].active THEN 1 ELSE 0]
<1>1. /\ visit' = [visit EXCEPT ![b] = IF Refused(b, u) THEN NoVisit ELSE v]
      /\ UNCHANGED <<account, session, access>> /\ visit[b].at = "admitted"
  BY DEF CheckDeed
<1>2. visit[b] # NoVisit /\ visit[b] \in Visits /\ u \in User /\ visit[b].what \in Deed
  BY <1>1 DEF AccessIInv, AccessType, NoVisit
<1>3. /\ v \in Visits /\ v.at = "checked" /\ v.what = visit[b].what /\ v.target = u
      /\ v.saw = (IF account[u].active THEN 1 ELSE 0)
  BY <1>2 DEF Visits
<1>4. /\ account[u].active \in BOOLEAN /\ account[u].admin \in BOOLEAN
      /\ NoVisit.at = "none" /\ NoVisit \in Visits
  BY <1>2 DEF AccessIInv, AccessType, AccessTypeOK, NoVisit, Visits
<1> HIDE DEF u, v
<1>5. AccessType'
  BY <1>1, <1>2, <1>3, <1>4 DEF AccessIInv, AccessType, AccessTypeOK
<1>6. SomeAdminUnlessOverlap' /\ StampTells'
  BY <1>1 DEF AccessIInv, SomeAdminUnlessOverlap, StampTells
<1>7. ChecksStand'
  <2> SUFFICES ASSUME ~access.overlap, NEW c \in Browser, visit'[c].at = "checked"
               PROVE  LeavesAdmin(c)'
    BY <1>1 DEF ChecksStand
  <2>1. CASE c # b
    BY <1>1, <2>1 DEF AccessIInv, AccessType, ChecksStand, LeavesAdmin, IsAdmin
  <2>2. CASE c = b
    <3>1. ~Refused(b, u) /\ visit'[b] = v
      BY <1>1, <1>4, <2>2 DEF AccessIInv, AccessType
    <3>2. PICK a \in User : IsAdmin(a)
      BY DEF AccessIInv, SomeAdminUnlessOverlap, IsAdmin
    <3>3. CASE ~IsAdmin(u) \/ v.what = "password" \/ (v.what = "toggle" /\ v.saw = 0)
      BY <1>1, <1>3, <2>2, <3>1, <3>2, <3>3 DEF LeavesAdmin, IsAdmin
    <3>4. CASE IsAdmin(u) /\ v.what # "password" /\ ~(v.what = "toggle" /\ v.saw = 0)
      <4>1. PICK o \in User \ {u} : IsAdmin(o)
        BY <1>2, <1>3, <3>1, <3>4 DEF Refused, ActiveAdminsBesides, IsAdmin, Deed, u
      <4> QED  BY <1>1, <1>3, <2>2, <3>1, <4>1 DEF LeavesAdmin, IsAdmin
    <3> QED  BY <3>3, <3>4
  <2> QED  BY <2>1, <2>2
<1> QED  BY <1>5, <1>6, <1>7 DEF AccessIInv

(* The commit does what the check let pass, or is one of two at once.      *)
LEMMA CommitKeeps ==
  ASSUME AccessIInv, NEW b \in Browser, CommitDeed(b)
  PROVE  AccessIInv'
<1> DEFINE u == visit[b].target
<1>1. /\ visit[b].at = "checked" /\ UNCHANGED session
      /\ visit[b] # NoVisit /\ visit[b] \in Visits /\ u \in User /\ visit[b].what \in Deed
  BY DEF CommitDeed, AccessIInv, AccessType, NoVisit
<1>2. /\ account[u] \in [active : BOOLEAN, admin : BOOLEAN, pw : Nat \ {0}]
      /\ NoVisit \in Visits /\ NoVisit.at = "none"
  BY <1>1 DEF AccessIInv, AccessType, AccessTypeOK, NoVisit, Visits
<1>3. CASE visit[b].what = "password"
  <2>1. /\ account' = [account EXCEPT ![u].pw = @ + 1]
        /\ visit' = [visit EXCEPT ![b].at = "resign"]
        /\ access' = [access EXCEPT !.passwords = @ + 1]
    BY <1>1, <1>3 DEF CommitDeed
  <2>2. /\ access' \in [passwords : Nat, visits : Nat, overlap : BOOLEAN, resigned : BOOLEAN]
        /\ access'.overlap = access.overlap /\ access'.resigned = access.resigned
    BY <2>1 DEF AccessIInv, AccessType
  <2>3. /\ account' \in [User -> [active : BOOLEAN, admin : BOOLEAN, pw : Nat \ {0}]]
        /\ \A a \in User : /\ account'[a].active = account[a].active
                           /\ account'[a].admin = account[a].admin
                           /\ account'[a].pw = IF a = u THEN account[a].pw + 1 ELSE account[a].pw
    BY <1>1, <1>2, <2>1 DEF AccessIInv, AccessType, AccessTypeOK
  <2>4. /\ visit' \in [Browser -> Visits]
        /\ \A c \in Browser : c # b => visit'[c] = visit[c]
        /\ visit'[b].at = "resign" /\ visit'[b].what = "password" /\ visit'[b].target = u
    BY <1>1, <1>3, <2>1 DEF AccessIInv, AccessType, Visits
  <2>5. \A a \in User : account[a].pw \in Nat  BY DEF AccessIInv, AccessType, AccessTypeOK
  <2>6. \A c \in Browser : session[c].login \in User => session[c].stamp \in Nat
    BY NameAssumption DEF AccessIInv, AccessType, Cookies, NoSession
  <2>7. AccessType'
    <3>1. \A c \in Browser : visit'[c] # NoVisit => session[c].login \in User
      BY <1>1, <2>4 DEF AccessIInv, AccessType, AccessTypeOK
    <3>2. \A c \in Browser : session[c].login \in User => session[c].stamp <= account'[session[c].login].pw
      <4> SUFFICES ASSUME NEW c \in Browser, session[c].login \in User
                   PROVE  session[c].stamp <= account'[session[c].login].pw
        OBVIOUS
      <4>1. session[c].stamp <= account[session[c].login].pw
        BY DEF AccessIInv, AccessType, AccessTypeOK
      <4> QED  BY <2>3, <2>5, <2>6, <4>1
    <3>3. \A c \in Browser :
            /\ visit'[c] # NoVisit =>
                 visit'[c].at # "none" /\ visit'[c].what \in Deed /\ visit'[c].target \in User
            /\ visit'[c].at = "resign" => visit'[c].what = "password"
      BY <1>1, <1>3, <2>4 DEF AccessIInv, AccessType, Deed
    <3>4. session \in [Browser -> Cookies]  BY DEF AccessIInv, AccessType
    <3>5. AccessTypeOK'  BY <1>1, <2>3, <3>1, <3>2 DEF AccessTypeOK
    <3>6. session' \in [Browser -> Cookies] /\ visit' \in [Browser -> Visits]
      BY <1>1, <2>4, <3>4
    <3> QED  BY <2>2, <3>3, <3>5, <3>6 DEF AccessType
  <2>8. SomeAdminUnlessOverlap' /\ ChecksStand'
    <3>1. \A a \in User : IsAdmin(a)' <=> IsAdmin(a)  BY <2>3 DEF IsAdmin
    <3>2. SomeAdminUnlessOverlap'
      BY <2>2, <3>1 DEF AccessIInv, SomeAdminUnlessOverlap, IsAdmin
    <3>3. ASSUME NEW c \in Browser, LeavesAdmin(c), c # b PROVE LeavesAdmin(c)'
      BY <2>4, <3>1, <3>3 DEF LeavesAdmin
    <3>4. \A c \in Browser : visit'[c].at = "checked" => c # b /\ visit'[c] = visit[c]
      BY <2>4
    <3> QED  BY <2>2, <3>2, <3>3, <3>4 DEF AccessIInv, ChecksStand
  <2>9. StampTells'
    <3> SUFFICES ASSUME ~access.resigned, NEW c \in Browser, session[c] # NoSession,
                        session[c].stamp = account'[session[c].login].pw
                 PROVE  session[c].opened = account'[session[c].login].pw
      BY <1>1, <2>2 DEF StampTells
    <3>1. /\ session[c].login \in User /\ session[c].stamp <= account[session[c].login].pw
      BY DEF AccessIInv, AccessType, AccessTypeOK, Cookies
    <3>2. session[c].login # u  BY <2>3, <2>5, <2>6, <3>1
    <3> QED  BY <2>3, <3>1, <3>2 DEF AccessIInv, StampTells
  <2> QED  BY <2>7, <2>8, <2>9 DEF AccessIInv
<1>4. CASE visit[b].what # "password"
  <2>1. /\ visit' = [visit EXCEPT ![b] = NoVisit]
        /\ access' = [access EXCEPT !.overlap = @ \/ Others(b) # {}]
        /\ \/ /\ visit[b].what = "toggle"
              /\ account' = [account EXCEPT ![u].active = visit[b].saw = 0]
           \/ /\ visit[b].what = "demote"
              /\ account' = [account EXCEPT ![u].admin = FALSE]
    BY <1>1, <1>4 DEF CommitDeed, Deed
  <2>2. /\ access' \in [passwords : Nat, visits : Nat, overlap : BOOLEAN, resigned : BOOLEAN]
        /\ access'.overlap = (access.overlap \/ Others(b) # {})
        /\ access'.resigned = access.resigned
    BY <2>1 DEF AccessIInv, AccessType
  <2>3. /\ account' \in [User -> [active : BOOLEAN, admin : BOOLEAN, pw : Nat \ {0}]]
        /\ \A a \in User : account'[a].pw = account[a].pw
        /\ \A a \in User \ {u} : account'[a] = account[a]
        /\ visit[b].what = "toggle" /\ visit[b].saw = 0 =>
             account'[u].active /\ account'[u].admin = account[u].admin
    <3>1. account \in [User -> [active : BOOLEAN, admin : BOOLEAN, pw : Nat \ {0}]]
      BY DEF AccessIInv, AccessType, AccessTypeOK
    <3>2. CASE visit[b].what = "toggle"
      <4> DEFINE on == visit[b].saw = 0
                 r  == [account[u] EXCEPT !.active = on]
      <4>1. account' = [account EXCEPT ![u] = r]  BY <2>1, <3>2
      <4>2. on \in BOOLEAN  OBVIOUS
      <4> HIDE DEF on
      <4>3. /\ r \in [active : BOOLEAN, admin : BOOLEAN, pw : Nat \ {0}]
            /\ r.pw = account[u].pw /\ r.admin = account[u].admin /\ r.active = on
        BY <1>2, <4>2
      <4> HIDE DEF r
      <4>4. visit[b].saw = 0 => r.active  BY <4>3 DEF on
      <4> QED  BY <1>1, <3>1, <4>1, <4>3, <4>4
    <3>3. CASE visit[b].what = "demote"
      <4> DEFINE r == [account[u] EXCEPT !.admin = FALSE]
      <4>1. account' = [account EXCEPT ![u] = r]  BY <2>1, <3>3
      <4>2. r \in [active : BOOLEAN, admin : BOOLEAN, pw : Nat \ {0}] /\ r.pw = account[u].pw
        BY <1>2
      <4> HIDE DEF r
      <4> QED  BY <1>1, <3>1, <3>3, <4>1, <4>2
    <3> QED  BY <2>1, <3>2, <3>3
  <2>4. AccessType'
    <3>1. /\ visit' \in [Browser -> Visits]
          /\ \A c \in Browser : visit'[c] = (IF c = b THEN NoVisit ELSE visit[c])
      BY <1>2, <2>1 DEF AccessIInv, AccessType
    <3>2. \A c \in Browser : session[c].login \in User => session[c].stamp <= account'[session[c].login].pw
      BY <2>3 DEF AccessIInv, AccessType, AccessTypeOK
    <3>3. \A c \in Browser :
            /\ visit'[c] # NoVisit =>
                 visit'[c].at # "none" /\ visit'[c].what \in Deed /\ visit'[c].target \in User
            /\ visit'[c].at = "resign" => visit'[c].what = "password"
      BY <1>2, <3>1 DEF AccessIInv, AccessType
    <3>4. \A c \in Browser : visit'[c] # NoVisit => session[c].login \in User
      BY <3>1 DEF AccessIInv, AccessType, AccessTypeOK
    <3>5. session \in [Browser -> Cookies]  BY DEF AccessIInv, AccessType
    <3>6. AccessTypeOK'  BY <1>1, <2>3, <3>2, <3>4 DEF AccessTypeOK
    <3>7. session' \in [Browser -> Cookies] /\ visit' \in [Browser -> Visits]
      BY <1>1, <3>1, <3>5
    <3>8. /\ \A c \in Browser : visit'[c] # NoVisit =>
               visit'[c].at # "none" /\ visit'[c].what \in Deed /\ visit'[c].target \in User
          /\ \A c \in Browser : visit'[c].at = "resign" => visit'[c].what = "password"
      BY <3>3
    <3> QED  BY <2>2, <3>3, <3>6, <3>7 DEF AccessType
  <2>5. ASSUME ~access'.overlap PROVE (\E a \in User : IsAdmin(a)') /\ Others(b) = {}
    <3>1. ~access.overlap /\ Others(b) = {}  BY <2>2, <2>5
    <3>2. PICK a \in User : IsAdmin(a) /\ (\/ a # u
                                           \/ visit[b].what = "toggle" /\ visit[b].saw = 0)
      BY <1>1, <1>4, <3>1 DEF AccessIInv, ChecksStand, LeavesAdmin
    <3> QED  BY <2>3, <3>1, <3>2 DEF IsAdmin
  <2>6. SomeAdminUnlessOverlap'  BY <2>5 DEF SomeAdminUnlessOverlap, IsAdmin
  <2>7. ChecksStand'
    BY <1>2, <2>1, <2>5 DEF ChecksStand, Others, AccessIInv, AccessType
  <2>8. StampTells'
    BY <1>1, <2>2, <2>3, NameAssumption DEF AccessIInv, AccessType, Cookies, StampTells
  <2> QED  BY <2>4, <2>6, <2>7, <2>8 DEF AccessIInv
<1> QED  BY <1>3, <1>4

(* The new stamp of the session of the one who asked.                      *)
LEMMA ResignKeeps ==
  ASSUME AccessIInv, NEW b \in Browser, Resign(b)
  PROVE  AccessIInv'
<1> DEFINE me == session[b].login
           o  == IF visit[b].target = me THEN account[me].pw ELSE session[b].opened
           s  == [session[b] EXCEPT !.stamp = account[me].pw, !.opened = o]
<1>1. /\ visit[b].at = "resign" /\ UNCHANGED account
      /\ visit' = [visit EXCEPT ![b] = NoVisit]
      /\ access' = [access EXCEPT !.resigned =
           @ \/ (account[me].pw # session[b].stamp /\ visit[b].target # me)]
  BY DEF Resign
<1>2. visit[b] # NoVisit /\ me \in User /\ account[me].pw \in Nat
  BY <1>1 DEF AccessIInv, AccessType, AccessTypeOK, NoVisit
<1>3. session[b] \in [login : User, stamp : Nat, opened : Nat]
  BY <1>2, NameAssumption DEF AccessIInv, AccessType, Cookies, NoSession
<1>4. /\ s \in [login : User, stamp : Nat, opened : Nat]
      /\ s.login = me /\ s.stamp = account[me].pw /\ s.opened = o
  BY <1>2, <1>3
<1>5. session' \in {session, [session EXCEPT ![b] = s]}
  BY <1>2, <1>3 DEF Resign
<1>6. /\ access' \in [passwords : Nat, visits : Nat, overlap : BOOLEAN, resigned : BOOLEAN]
      /\ access'.overlap = access.overlap
      /\ access'.resigned =
           (access.resigned \/ (account[me].pw # session[b].stamp /\ visit[b].target # me))
      /\ NoVisit \in Visits /\ NoVisit.at = "none"
  BY <1>1 DEF AccessIInv, AccessType, Visits, NoVisit
<1> HIDE DEF s
<1>7. AccessType'
  BY <1>1, <1>2, <1>3, <1>4, <1>5, <1>6 DEF AccessIInv, AccessType, AccessTypeOK, Cookies
<1>8. SomeAdminUnlessOverlap' /\ ChecksStand'
  BY <1>1, <1>6 DEF AccessIInv, AccessType, SomeAdminUnlessOverlap, ChecksStand, LeavesAdmin, IsAdmin
<1>9. StampTells'
  <2> SUFFICES ASSUME ~access'.resigned, NEW c \in Browser, session'[c] # NoSession,
                      session'[c].stamp = account[session'[c].login].pw
               PROVE  session'[c].opened = account[session'[c].login].pw
    BY <1>1 DEF StampTells
  <2>1. CASE session'[c] = session[c]
    BY <1>6, <2>1 DEF AccessIInv, StampTells
  <2>2. CASE session'[c] # session[c]
    <3>1. c = b /\ session'[c] = s  BY <1>5, <2>2 DEF AccessIInv, AccessType
    <3>2. session[b] # NoSession  BY <1>2, NameAssumption DEF NoSession
    <3> QED  BY <1>4, <1>6, <3>1, <3>2 DEF AccessIInv, StampTells
  <2> QED  BY <2>1, <2>2
<1> QED  BY <1>7, <1>8, <1>9 DEF AccessIInv

(* Every request of the panel keeps it: signing in, editing an account,    *)
(* changing and signing anew a password.                                   *)
THEOREM AccessKeeps == AccessIInv /\ [AccessNext]_accessVars => AccessIInv'
<1> SUFFICES ASSUME AccessIInv, [AccessNext]_accessVars PROVE AccessIInv'
  OBVIOUS
<1>1. CASE UNCHANGED accessVars
  BY <1>1 DEF accessVars, AccessIInv, AccessType, AccessTypeOK, SomeAdminUnlessOverlap, ChecksStand,
       LeavesAdmin, IsAdmin, StampTells
<1>2. ASSUME NEW b \in Browser, SignOut(b) PROVE AccessIInv'
  BY <1>2, LeavingKeeps DEF SignOut
<1> QED  BY <1>1, <1>2, SignInKeeps, GateKeeps, CheckKeeps, CommitKeeps, ResignKeeps DEF AccessNext

(* An active administrator is left unless two requests were at work at     *)
(* once, and an old password opens nothing but a session whose own request *)
(* was under way (users_admin.py, users_password).                         *)
THEOREM AccessInvariant == AccessSpec => []AccessInv
<1>1. AccessIInv => AccessInv
  BY DEF AccessIInv, AccessType, AccessInv, OldPasswordIsOut, Lives, StampTells
<1> QED  BY <1>1, AccessStarts, AccessKeeps, PTL DEF AccessSpec

-----------------------------------------------------------------------------
(***************************************************************************)
(* LoginThrottle: guesses are paced, the tables stay small.                *)
(***************************************************************************)

(* Of finitely many numbers, however they are listed, there is a greatest. *)
LEMMA GreatestListed ==
  ASSUME NEW n \in Nat, n # 0, NEW g \in [1 .. n -> Nat]
  PROVE  \E h \in 1 .. n : \A j \in 1 .. n : g[j] <= g[h]
<1> DEFINE Bad == {i \in 1 .. n : \A h \in 1 .. i : \E j \in 1 .. i : g[j] > g[h]}
<1>1. Bad = {}
  <2> SUFFICES ASSUME Bad # {} PROVE FALSE  OBVIOUS
  <2>1. Bad \subseteq Nat  OBVIOUS
  <2>2. PICK i \in Bad : \A j \in Bad : i <= j  BY <2>1, Least
  <2>3. i \in 1 .. n /\ \A h \in 1 .. i : \E j \in 1 .. i : g[j] > g[h]  BY <2>2
  <2>4. i # 1
    <3> SUFFICES ASSUME i = 1 PROVE FALSE  OBVIOUS
    <3>1. \E j \in 1 .. 1 : g[j] > g[1]  BY <2>3
    <3>2. g[1] > g[1] /\ g[1] \in Nat  BY <3>1, <2>3
    <3> QED  BY <3>2
  <2>5. i - 1 \in 1 .. n /\ ~(i <= i - 1)  BY <2>3, <2>4
  <2>6. i - 1 \notin Bad  BY <2>2, <2>5
  <2>7. PICK h \in 1 .. (i - 1) : \A j \in 1 .. (i - 1) : ~(g[j] > g[h])  BY <2>5, <2>6
  <2> HIDE DEF Bad
  <2>15. h \in 1 .. i /\ i \in 1 .. i  BY <2>3, <2>5, <2>7
  <2>16. \E j \in 1 .. i : g[j] > g[h]  BY <2>3, <2>15
  <2>17. \E j \in 1 .. i : g[j] > g[i]  BY <2>3, <2>15
  <2>8. PICK j \in 1 .. i : g[j] > g[h]  BY <2>16
  <2>9. j = i  BY <2>3, <2>7, <2>8
  <2>10. PICK k \in 1 .. i : g[k] > g[i]  BY <2>17
  <2>11. k \in 1 .. n /\ h \in 1 .. n  BY <2>3, <2>7
  <2>12. g[k] \in Nat /\ g[h] \in Nat /\ g[i] \in Nat  BY <2>3, <2>11
  <2>13. k # i  BY <2>10, <2>12
  <2>14. ~(g[k] > g[h])  BY <2>7, <2>13, <2>3
  <2> QED  BY <2>8, <2>9, <2>10, <2>12, <2>14
<1>2. n \in 1 .. n  OBVIOUS
<1>6. n \notin Bad  BY <1>1
<1>3. PICK h \in 1 .. n : \A j \in 1 .. n : ~(g[j] > g[h])  BY <1>2, <1>6
<1>4. \A j \in 1 .. n : g[j] \in Nat /\ g[h] \in Nat  OBVIOUS
<1>5. \A j \in 1 .. n : g[j] <= g[h]  BY <1>3, <1>4
<1> QED  BY <1>5

(* Of the places of a finite set of keys there is a greatest.              *)
LEMMA GreatestPlace ==
  ASSUME NEW S, IsFiniteSet(S), S # {}, NEW f \in [S -> Nat]
  PROVE  \E k \in S : \A j \in S : f[j] <= f[k]
<1>1. PICK n \in Nat : ExistsSurjection(1 .. n, S)  BY FS_NatSurjection
<1>2. PICK q \in Surjection(1 .. n, S) : TRUE  BY <1>1 DEF ExistsSurjection
<1>3. q \in [1 .. n -> S] /\ \A k \in S : \E i \in 1 .. n : q[i] = k  BY <1>2 DEF Surjection
<1> DEFINE g == [i \in 1 .. n |-> f[q[i]]]
<1>4. g \in [1 .. n -> Nat] /\ n # 0  BY <1>3
<1>5. PICK h \in 1 .. n : \A j \in 1 .. n : g[j] <= g[h]  BY <1>4, GreatestListed
<1>6. \A j \in 1 .. n : f[q[j]] <= f[q[h]]  BY <1>5
<1>7. q[h] \in S /\ \A j \in S : f[j] <= f[q[h]]  BY <1>3, <1>6
<1> QED  BY <1>7

(* The order of the keys of a dict: each has a place of its own.           *)
IsTable(table) ==
  /\ table \in [Login -> Nat]
  /\ \A k, j \in Login : table[k] # 0 /\ table[k] = table[j] => k = j

LEMMA TableOnly ==
  ASSUME NEW table, IsTable(table), NEW kept
  PROVE  IsTable(Only(table, kept)) /\ Keys(Only(table, kept)) = Keys(table) \cap kept
BY DEF IsTable, Only, Keys

LEMMA TableWithout ==
  ASSUME NEW table, IsTable(table), NEW l \in Login
  PROVE  /\ IsTable([table EXCEPT ![l] = 0])
         /\ Keys([table EXCEPT ![l] = 0]) = Keys(table) \ {l}
BY DEF IsTable, Keys

LEMMA TablePut ==
  ASSUME NEW table, IsTable(table), NEW l \in Login
  PROVE  IsTable(Put(table, l)) /\ Keys(Put(table, l)) = Keys(table) \cup {l}
<1>1. CASE table[l] # 0  BY <1>1 DEF Put, Keys, IsTable
<1>2. CASE table[l] = 0
  <2> DEFINE places == {table[k] : k \in Login}
             top    == Max(places)
  <2>1. table \in [Login -> Nat] /\ places \subseteq Nat  BY DEF IsTable
  <2>2. PICK k \in Login : \A j \in Login : table[j] <= table[k]
    BY <2>1, GreatestPlace, ThrottleAssumption
  <2>3. \E p \in places : \A y \in places : p >= y  BY <2>1, <2>2
  <2>4. top \in places /\ \A y \in places : top >= y  BY <2>3 DEF Max
  <2>5. top \in Nat /\ \A j \in Login : table[j] < top + 1
    <3>1. top \in Nat  BY <2>1, <2>4
    <3>2. \A j \in Login : top >= table[j] /\ table[j] \in Nat  BY <2>1, <2>4
    <3> QED  BY <3>1, <3>2
  <2>6. Put(table, l) = [table EXCEPT ![l] = top + 1]  BY <1>2 DEF Put
  <2> HIDE DEF top, places
  <2>7. top + 1 \in Nat /\ top + 1 # 0  BY <2>5
  <2>8. \A j \in Login : table[j] # top + 1
    <3> SUFFICES ASSUME NEW j \in Login PROVE table[j] # top + 1  OBVIOUS
    <3>1. table[j] < top + 1 /\ table[j] \in Nat  BY <2>1, <2>5
    <3> QED  BY <3>1, <2>7
  <2>9. IsTable(Put(table, l))
    <3>1. Put(table, l) \in [Login -> Nat]  BY <2>1, <2>6, <2>7
    <3>2. \A j \in Login : Put(table, l)[j] = IF j = l THEN top + 1 ELSE table[j]
      BY <2>1, <2>6
    <3> QED  BY <3>1, <3>2, <2>8 DEF IsTable
  <2>10. Keys(Put(table, l)) = Keys(table) \cup {l}
    BY <2>1, <2>6, <2>7 DEF Keys
  <2> QED  BY <2>9, <2>10
<1> QED  BY <1>1, <1>2

LEMMA KeysFinite ==
  \A table : IsFiniteSet(Keys(table)) /\ Cardinality(Keys(table)) \in Nat
<1> SUFFICES ASSUME NEW table
             PROVE  IsFiniteSet(Keys(table)) /\ Cardinality(Keys(table)) \in Nat  OBVIOUS
<1>1. Keys(table) \subseteq Login  BY DEF Keys
<1>2. IsFiniteSet(Keys(table))  BY <1>1, FS_Subset, ThrottleAssumption
<1> QED  BY <1>2, FS_CardinalityType

(* _evict_oldest leaves room for one key more.                             *)
LEMMA EvictedHasRoom ==
  ASSUME NEW table, IsTable(table)
  PROVE  /\ IsTable(Evicted(table))
         /\ Keys(Evicted(table)) \subseteq Keys(table)
         /\ Cardinality(Keys(Evicted(table))) <= MaxTracked - 1
<1> DEFINE K == Keys(table)
           E == {l \in K : Cardinality({k \in K : table[k] > table[l]}) < MaxTracked - 1}
<1>1. IsTable(Evicted(table)) /\ Keys(Evicted(table)) = E
  BY TableOnly DEF Evicted
<1>2. K \subseteq Login /\ IsFiniteSet(K) /\ table \in [Login -> Nat]
  BY KeysFinite DEF IsTable, Keys
<1>3. MaxTracked \in Nat /\ MaxTracked # 0  BY ThrottleAssumption
<1>4. IsFiniteSet(E) /\ Cardinality(E) \in Nat  BY <1>2, FS_Subset, FS_CardinalityType
<1>5. CASE E = {}
  <2>1. Cardinality(E) = 0  BY <1>5, FS_EmptySet
  <2> QED  BY <1>1, <1>3, <2>1
<1>6. CASE E # {}
  <2> DEFINE places == {table[l] : l \in E}
  <2>1. places \in SUBSET Nat /\ places # {}  BY <1>2, <1>6
  <2>2. PICK p \in places : \A y \in places : p <= y  BY <2>1, Least
  <2>3. PICK m \in E : table[m] = p  BY <2>2
  <2> DEFINE newer == {k \in K : table[k] > table[m]}
  <2>4. E \ {m} \subseteq newer
    <3> SUFFICES ASSUME NEW k \in E, k # m PROVE table[k] > table[m]  OBVIOUS
    <3>1. table[m] <= table[k] /\ table[k] \in Nat /\ table[m] \in Nat /\ k \in Login /\ m \in Login
      BY <1>2, <2>2, <2>3
    <3>2. table[m] # 0  BY <2>3 DEF Keys
    <3>3. table[m] # table[k]  BY <3>1, <3>2 DEF IsTable
    <3> QED  BY <3>1, <3>3
  <2>5. IsFiniteSet(newer) /\ Cardinality(newer) \in Nat  BY <1>2, FS_Subset, FS_CardinalityType
  <2>6. Cardinality(newer) < MaxTracked - 1  BY <2>3
  <2>7. IsFiniteSet(E \ {m}) /\ Cardinality(E \ {m}) = Cardinality(E) - 1
    BY <1>4, <2>3, FS_RemoveElement
  <2>8. Cardinality(E \ {m}) <= Cardinality(newer)  BY <2>4, <2>5, FS_Subset
  <2> HIDE DEF newer, E
  <2>9. Cardinality(E) <= MaxTracked - 1  BY <1>3, <1>4, <2>5, <2>6, <2>7, <2>8
  <2> QED  BY <1>1, <2>9 DEF E
<1> QED  BY <1>5, <1>6

(* Moments, one after the other, none of them later than now.              *)
Past(times, moment) ==
  /\ times \in Seq(Nat)
  /\ \A i \in 1 .. Len(times) : times[i] <= moment
  /\ \A i, j \in 1 .. Len(times) : i <= j => times[i] <= times[j]

(* What is left of moments when the first d have left the window.          *)
Without(times, d, left) ==
  /\ d \in 0 .. Len(times) /\ Len(left) = Len(times) - d
  /\ \A i \in 1 .. Len(left) : left[i] = times[i + d]
OutOfWindow(times, d) == \A i \in 1 .. d : times[i] <= seconds - Window
WhatIsLeft(times, left) == \E d \in 0 .. Len(times) : Without(times, d, left) /\ OutOfWindow(times, d)

LEMMA RecentIs ==
  ASSUME seconds \in Nat, NEW times, Past(times, seconds)
  PROVE  /\ Recent(times) \in Seq(Nat)
         /\ \E d \in 0 .. Len(times) :
              /\ Without(times, d, Recent(times)) /\ OutOfWindow(times, d)
              /\ \A i \in 1 .. Len(times) : i > d => times[i] > seconds - Window
<1> DEFINE n == Len(times)
           near == InWindow(times)
<1>1. n \in Nat /\ times \in [1 .. n -> Nat] /\ DOMAIN times = 1 .. n /\ Window \in Nat
  BY ThrottleAssumption DEF Past
<1>2. near = {i \in 1 .. n : times[i] > seconds - Window}  BY <1>1 DEF InWindow
<1>3. CASE near = {}
  <2>1. Recent(times) = <<>>  BY <1>3 DEF Recent
  <2>2. \A i \in 1 .. n : times[i] <= seconds - Window  BY <1>1, <1>2, <1>3
  <2>3. n \in 0 .. n /\ Without(times, n, <<>>)  BY <1>1 DEF Without
  <2>4. OutOfWindow(times, n)  BY <2>2 DEF OutOfWindow
  <2>5. \A i \in 1 .. n : i > n => times[i] > seconds - Window  BY <1>1
  <2> QED  BY <2>1, <2>3, <2>4, <2>5
<1>4. CASE near # {}
  <2> DEFINE m == Min(near)
             d == m - 1
             left == SubSeq(times, m, n)
  <2>1. near \in SUBSET Nat  BY <1>1, <1>2
  <2>2. m \in near /\ \A j \in near : m <= j  BY <2>1, <1>4, MinIs
  <2>3. Recent(times) = left  BY <1>4 DEF Recent
  <2>4. m \in 1 .. n /\ times[m] > seconds - Window  BY <1>2, <2>2
  <2> HIDE DEF m, near
  <2>5. d \in 0 .. n  BY <1>1, <2>4
  <2>6. /\ left \in Seq(Nat) /\ Len(left) = n - d
        /\ \A i \in 1 .. Len(left) : left[i] = times[i + d]
    <3>1. times \in Seq(Nat)  BY DEF Past
    <3>2. left \in Seq(Nat)  BY <3>1, <1>1, <2>4
    <3>3. Len(left) = n - m + 1  BY <3>1, <1>1, <2>4
    <3>4. \A i \in 1 .. (n - m + 1) : left[i] = times[m + i - 1]  BY <3>1, <1>1, <2>4
    <3>5. \A i \in 1 .. (n - m + 1) : m + i - 1 = i + d  BY <1>1, <2>4
    <3> QED  BY <3>2, <3>3, <3>4, <3>5, <1>1, <2>4
  <2>7. OutOfWindow(times, d)
    <3> SUFFICES ASSUME NEW i \in 1 .. d PROVE times[i] <= seconds - Window  BY DEF OutOfWindow
    <3>1. i \in 1 .. n /\ ~(m <= i)  BY <1>1, <2>4
    <3>2. i \notin near  BY <2>2, <3>1
    <3>3. times[i] \in Nat  BY <1>1, <3>1
    <3> QED  BY <1>2, <3>1, <3>2, <3>3, <1>1
  <2>8. \A i \in 1 .. n : i > d => times[i] > seconds - Window
    <3> SUFFICES ASSUME NEW i \in 1 .. n, i > d PROVE times[i] > seconds - Window  OBVIOUS
    <3>1. m <= i  BY <1>1, <2>4
    <3>2. times[m] <= times[i]  BY <2>4, <3>1 DEF Past
    <3>3. times[m] \in Nat /\ times[i] \in Nat  BY <1>1, <2>4
    <3> QED  BY <2>4, <3>2, <3>3, <1>1
  <2>9. Without(times, d, left)  BY <2>5, <2>6 DEF Without
  <2> QED  BY <2>3, <2>5, <2>6, <2>7, <2>8, <2>9
<1> QED  BY <1>3, <1>4

(* The recent ones among moments that have lost old ones are the recent    *)
(* ones.                                                                   *)
LEMMA RecentOfLeft ==
  ASSUME seconds \in Nat, NEW times, Past(times, seconds), NEW left, Past(left, seconds),
         WhatIsLeft(times, left)
  PROVE  Recent(left) = Recent(times)
<1> DEFINE n == Len(times)
<1>1. /\ n \in Nat /\ times \in [1 .. n -> Nat] /\ Len(left) \in Nat
      /\ left \in [1 .. Len(left) -> Nat] /\ Window \in Nat
  BY ThrottleAssumption DEF Past
<1>2. PICK d \in 0 .. n : Without(times, d, left) /\ OutOfWindow(times, d)  BY DEF WhatIsLeft
<1>3. PICK d1 \in 0 .. n :
        /\ Without(times, d1, Recent(times)) /\ OutOfWindow(times, d1)
        /\ \A i \in 1 .. n : i > d1 => times[i] > seconds - Window
  BY RecentIs
<1>4. PICK d2 \in 0 .. Len(left) :
        /\ Without(left, d2, Recent(left)) /\ OutOfWindow(left, d2)
        /\ \A i \in 1 .. Len(left) : i > d2 => left[i] > seconds - Window
  BY RecentIs
<1>5. Len(left) = n - d /\ \A i \in 1 .. Len(left) : left[i] = times[i + d]  BY <1>2 DEF Without
<1>6. \A i \in 1 .. n : i <= d + d2 => times[i] <= seconds - Window
  <2> SUFFICES ASSUME NEW i \in 1 .. n, i <= d + d2 PROVE times[i] <= seconds - Window  OBVIOUS
  <2>1. CASE i <= d  BY <2>1, <1>2 DEF OutOfWindow
  <2>2. CASE i > d
    <3>1. i - d \in 1 .. d2 /\ i - d \in 1 .. Len(left) /\ (i - d) + d = i  BY <2>2, <1>1, <1>5
    <3>2. left[i - d] <= seconds - Window  BY <1>4, <3>1 DEF OutOfWindow
    <3> QED  BY <1>5, <3>1, <3>2
  <2> QED  BY <2>1, <2>2
<1>7. \A i \in 1 .. n : i > d + d2 => times[i] > seconds - Window
  <2> SUFFICES ASSUME NEW i \in 1 .. n, i > d + d2 PROVE times[i] > seconds - Window  OBVIOUS
  <2>1. i - d \in 1 .. Len(left) /\ i - d > d2 /\ (i - d) + d = i  BY <1>1, <1>5
  <2> QED  BY <1>4, <1>5, <2>1
<1>8. d1 = d + d2
  <2>1. CASE d1 < d + d2
    <3>1. d1 + 1 \in 1 .. n /\ d1 + 1 <= d + d2 /\ d1 + 1 > d1  BY <2>1, <1>1, <1>5
    <3>2. times[d1 + 1] <= seconds - Window /\ times[d1 + 1] > seconds - Window
      BY <1>3, <1>6, <3>1
    <3>3. times[d1 + 1] \in Nat  BY <1>1, <3>1
    <3> QED  BY <3>2, <3>3, <1>1
  <2>2. CASE d1 > d + d2
    <3>1. d1 \in 1 .. n /\ d1 \in 1 .. d1  BY <2>2, <1>1
    <3>2. times[d1] > seconds - Window  BY <1>7, <3>1, <2>2
    <3>3. times[d1] <= seconds - Window  BY <1>3, <3>1 DEF OutOfWindow
    <3>4. times[d1] \in Nat  BY <1>1, <3>1
    <3> QED  BY <3>2, <3>3, <3>4, <1>1
  <2> QED  BY <2>1, <2>2
<1>9. Recent(left) \in Seq(Nat) /\ Recent(times) \in Seq(Nat)  BY RecentIs
<1>10. Len(Recent(left)) = n - d1 /\ Len(Recent(times)) = n - d1
  BY <1>1, <1>3, <1>4, <1>5, <1>8 DEF Without
<1>11. \A i \in 1 .. (n - d1) : Recent(left)[i] = Recent(times)[i]
  <2> SUFFICES ASSUME NEW i \in 1 .. (n - d1) PROVE Recent(left)[i] = Recent(times)[i]  OBVIOUS
  <2>1. Recent(times)[i] = times[i + d1]  BY <1>3, <1>10 DEF Without
  <2>2. Recent(left)[i] = left[i + d2]  BY <1>4, <1>10 DEF Without
  <2>3. i + d2 \in 1 .. Len(left) /\ (i + d2) + d = i + d1  BY <1>1, <1>5, <1>8
  <2> QED  BY <1>5, <2>1, <2>2, <2>3
<1>12. Len(Recent(left)) = Len(Recent(times))
       /\ \A i \in 1 .. Len(Recent(left)) : Recent(left)[i] = Recent(times)[i]
  BY <1>10, <1>11
<1> QED  BY <1>9, <1>12, SeqEqual, Zenon

(* What is left when the old ones of the rest go too.                      *)
LEMMA LeftAgain ==
  ASSUME seconds \in Nat, NEW times, Past(times, seconds), NEW left, Past(left, seconds),
         WhatIsLeft(times, left)
  PROVE  WhatIsLeft(times, Recent(left))
<1>1. Recent(left) = Recent(times)  BY RecentOfLeft
<1> QED  BY <1>1, RecentIs DEF WhatIsLeft

LEMMA RecentPast ==
  ASSUME seconds \in Nat, NEW times, Past(times, seconds)
  PROVE  /\ Past(Recent(times), seconds)
         /\ Past(Append(Recent(times), seconds), seconds)
         /\ Append(Recent(times), seconds) # <<>>
<1> DEFINE n == Len(times)
           r == Recent(times)
           a == Append(r, seconds)
<1>1. n \in Nat /\ times \in [1 .. n -> Nat]  BY DEF Past
<1>2. r \in Seq(Nat)  BY RecentIs
<1>3. PICK d \in 0 .. n : Without(times, d, r)  BY RecentIs
<1>4. \A i \in 1 .. Len(r) : i + d \in 1 .. n /\ r[i] = times[i + d]
  BY <1>1, <1>2, <1>3 DEF Without
<1> HIDE DEF r
<1>5. Past(r, seconds)
  <2>1. \A i \in 1 .. Len(r) : r[i] <= seconds  BY <1>4 DEF Past
  <2>2. \A i, j \in 1 .. Len(r) : i <= j => r[i] <= r[j]
    <3> SUFFICES ASSUME NEW i \in 1 .. Len(r), NEW j \in 1 .. Len(r), i <= j
                 PROVE  r[i] <= r[j]  OBVIOUS
    <3>1. i + d \in 1 .. n /\ j + d \in 1 .. n /\ i + d <= j + d  BY <1>2, <1>4
    <3>2. times[i + d] <= times[j + d]  BY <3>1 DEF Past
    <3> QED  BY <1>4, <3>2
  <2> QED  BY <1>2, <2>1, <2>2 DEF Past
<1>6. a \in Seq(Nat) /\ Len(a) = Len(r) + 1 /\ Len(r) \in Nat  BY <1>2
<1>7. a[Len(a)] = seconds /\ \A i \in 1 .. Len(r) : a[i] = r[i]  BY <1>2
<1> HIDE DEF a
<1>8. Past(a, seconds)
  <2>1. \A i \in 1 .. Len(a) : i = Len(a) \/ i \in 1 .. Len(r)  BY <1>6
  <2>2. \A i \in 1 .. Len(a) : a[i] <= seconds  BY <1>5, <1>7, <2>1 DEF Past
  <2>3. \A i, j \in 1 .. Len(a) : i <= j => a[i] <= a[j]
    <3> SUFFICES ASSUME NEW i \in 1 .. Len(a), NEW j \in 1 .. Len(a), i <= j
                 PROVE  a[i] <= a[j]  OBVIOUS
    <3>1. CASE j = Len(a)  BY <3>1, <1>7, <2>2
    <3>2. CASE j \in 1 .. Len(r)
      <4>1. i \in 1 .. Len(r)  BY <3>2, <1>6
      <4> QED  BY <1>5, <1>7, <3>2, <4>1 DEF Past
    <3> QED  BY <2>1, <3>1, <3>2
  <2> QED  BY <1>6, <2>2, <2>3 DEF Past
<1>9. a # <<>>  BY <1>6
<1> QED  BY <1>5, <1>8, <1>9 DEF a, r

(* The moments of a login: the wrong passwords it offered, and how long it *)
(* has to wait after them.                                                 *)
Paced(l) ==
  /\ WhatIsLeft(guesses[l], stamps[l])
  /\ Len(guesses[l]) >= MaxFailures =>
       /\ until[l] = guesses[l][Len(guesses[l])] + Pause
       /\ l \in Keys(paused) \/ Expired(l)
  /\ checking[l] <= 1
  /\ checking[l] = 1 /\ Len(guesses[l]) >= MaxFailures => Expired(l)
  /\ \A i \in 1 .. Len(guesses[l]) : i > MaxFailures => guesses[l][i] - guesses[l][i - 1] >= Pause

ThrottleType ==
  /\ seconds \in 0 .. MaxTime /\ tries \in 0 .. MaxTries
  /\ IsTable(failing) /\ IsTable(paused)
  /\ until \in [Login -> Nat]
  /\ stamps \in [Login -> Seq(Nat)] /\ DOMAIN guesses = Login
  /\ \A l \in Login : Past(stamps[l], seconds) /\ Past(guesses[l], seconds)
  /\ \A l \in Login : failing[l] = 0 <=> stamps[l] = <<>>
  /\ checking \in [Login -> Nat] /\ \A l \in Login : checking[l] <= tries

TablesHaveRoom ==
  /\ Cardinality(Keys(failing)) <= MaxTracked
  /\ Cardinality(Keys(paused) \ Keys(failing)) <= MaxTracked - 1

ThrottleIInv == ThrottleType /\ TablesHaveRoom /\ \A l \in Login \ excused : Paced(l)

LEMMA ThrottleNumbers ==
  /\ MaxFailures \in Nat \ {0} /\ Window \in Nat \ {0} /\ Pause \in Nat \ {0}
  /\ MaxTracked \in Nat \ {0} /\ MaxTime \in Nat /\ MaxTries \in Nat /\ IsFiniteSet(Login)
BY ThrottleAssumption

(* The pause after failed sign-ins: no login has failed to begin with.     *)
LEMMA ThrottleStarts == ThrottleInit => ThrottleIInv
<1> SUFFICES ASSUME ThrottleInit PROVE ThrottleIInv  OBVIOUS
<1> USE ThrottleNumbers
<1>1. \A l \in Login : /\ failing[l] = 0 /\ paused[l] = 0 /\ stamps[l] = <<>> /\ guesses[l] = <<>>
                       /\ checking[l] = 0
  BY DEF ThrottleInit
<1>2. Past(<<>>, seconds) /\ WhatIsLeft(<<>>, <<>>)
  <2>1. Past(<<>>, seconds)  BY DEF Past
  <2>2. 0 \in 0 .. Len(<<>>) /\ Without(<<>>, 0, <<>>) /\ OutOfWindow(<<>>, 0)  BY DEF Without, OutOfWindow
  <2> QED  BY <2>1, <2>2 DEF WhatIsLeft
<1>6. stamps \in [Login -> Seq(Nat)]
  <2>1. <<>> \in Seq(Nat)  OBVIOUS
  <2>2. stamps = [l \in Login |-> <<>>]  BY DEF ThrottleInit
  <2> QED  BY <2>1, <2>2
<1>3. ThrottleType
  <2>1. IsTable(failing) /\ IsTable(paused)  BY <1>1 DEF ThrottleInit, IsTable
  <2>2. until \in [Login -> Nat] /\ DOMAIN guesses = Login
        /\ checking \in [Login -> Nat]
    BY DEF ThrottleInit
  <2>3. seconds \in 0 .. MaxTime /\ tries \in 0 .. MaxTries /\ tries = 0  BY DEF ThrottleInit
  <2> QED  BY <1>1, <1>2, <1>6, <2>1, <2>2, <2>3 DEF ThrottleType
<1>4. TablesHaveRoom
  <2>1. Keys(failing) = {} /\ Keys(paused) \ Keys(failing) = {}  BY <1>1 DEF Keys
  <2>2. Cardinality({}) = 0  BY FS_EmptySet
  <2> QED  BY <2>1, <2>2 DEF TablesHaveRoom
<1>5. \A l \in Login : Paced(l)
  <2> SUFFICES ASSUME NEW l \in Login PROVE Paced(l)  OBVIOUS
  <2>1. Len(guesses[l]) = 0  BY <1>1
  <2> QED  BY <1>1, <1>2, <2>1 DEF Paced
<1> QED  BY <1>3, <1>4, <1>5 DEF ThrottleIInv

(* A login nobody is checked for is paced as before, unless its pause is   *)
(* lost while it lasts.                                                    *)
LEMMA PacedStays ==
  ASSUME NEW l \in Login, Paced(l), guesses'[l] = guesses[l], until'[l] = until[l],
         checking'[l] = checking[l], WhatIsLeft(guesses[l], stamps[l])',
         ThrottleType, seconds' \in Nat, seconds <= seconds',
         l \in Keys(paused) => l \in Keys(paused)' \/ until[l] <= seconds
  PROVE  Paced(l)'
<1>1. seconds \in Nat /\ until[l] \in Nat  BY ThrottleNumbers DEF ThrottleType
<1>2. Expired(l) => Expired(l)'  BY <1>1 DEF Expired
<1>3. l \in Keys(paused) => l \in Keys(paused)' \/ Expired(l)'  BY <1>1, <1>2 DEF Expired
<1> QED  BY <1>2, <1>3 DEF Paced

LEMMA ClockKeepsThrottle ==
  ASSUME ThrottleIInv, SecondPasses
  PROVE  ThrottleIInv'
<1> USE ThrottleNumbers
<1>1. ThrottleType /\ TablesHaveRoom /\ \A l \in Login \ excused : Paced(l)  BY DEF ThrottleIInv
<1>2. /\ seconds \in Nat /\ seconds' = seconds + 1 /\ seconds' \in 0 .. MaxTime
      /\ UNCHANGED <<failing, stamps, paused, until, checking, tries, guesses, excused>>
  BY <1>1 DEF SecondPasses, ThrottleType
<1>3. \A times : Past(times, seconds) => Past(times, seconds')
  <2> SUFFICES ASSUME NEW times, Past(times, seconds) PROVE Past(times, seconds')  OBVIOUS
  <2>1. Len(times) \in Nat /\ \A i \in 1 .. Len(times) : times[i] \in Nat /\ times[i] <= seconds
    BY DEF Past
  <2>2. \A i \in 1 .. Len(times) : times[i] <= seconds'  BY <1>2, <2>1
  <2> QED  BY <2>2 DEF Past
<1>4. ThrottleType'  BY <1>1, <1>2, <1>3 DEF ThrottleType, IsTable
<1>5. TablesHaveRoom'  BY <1>1, <1>2 DEF TablesHaveRoom, Keys
<1>6. ASSUME NEW l \in Login \ excused PROVE Paced(l)'
  <2>1. Paced(l)  BY <1>1
  <2>2. PICK d \in 0 .. Len(guesses[l]) : Without(guesses[l], d, stamps[l]) /\ OutOfWindow(guesses[l], d)
    BY <2>1 DEF Paced, WhatIsLeft
  <2>3. \A i \in 1 .. d : guesses[l][i] \in Nat
    <3>1. Len(guesses[l]) \in Nat /\ \A i \in 1 .. Len(guesses[l]) : guesses[l][i] \in Nat
      BY <1>1 DEF ThrottleType, Past
    <3> QED  BY <3>1
  <2>4. OutOfWindow(guesses[l], d)'  BY <1>2, <2>2, <2>3 DEF OutOfWindow
  <2>5. WhatIsLeft(guesses[l], stamps[l])'  BY <1>2, <2>2, <2>4 DEF WhatIsLeft, Without
  <2>6. l \in Keys(paused) => l \in Keys(paused)'  BY <1>2 DEF Keys
  <2>7. seconds <= seconds' /\ seconds' \in Nat  BY <1>2
  <2> QED  BY <1>1, <1>2, <2>1, <2>5, <2>6, <2>7, PacedStays
<1> QED  BY <1>2, <1>4, <1>5, <1>6 DEF ThrottleIInv

(* Fewer keys, the same or less room.                                      *)
LEMMA FewerKeys ==
  ASSUME NEW A, NEW B, IsFiniteSet(B), A \subseteq B, NEW n \in Int, Cardinality(B) <= n
  PROVE  Cardinality(A) <= n
<1>1. IsFiniteSet(A) /\ Cardinality(A) <= Cardinality(B)  BY FS_Subset
<1>2. Cardinality(A) \in Nat /\ Cardinality(B) \in Nat  BY <1>1, FS_CardinalityType
<1> QED  BY <1>1, <1>2

LEMMA AttemptKeepsThrottle ==
  ASSUME ThrottleIInv, NEW l \in Login, Attempt(l)
  PROVE  ThrottleIInv'
<1> USE ThrottleNumbers
<1>1. ThrottleType /\ TablesHaveRoom /\ \A k \in Login \ excused : Paced(k)  BY DEF ThrottleIInv
<1>2. /\ tries < MaxTries /\ tries' = tries + 1
      /\ l \in Keys(paused) => Expired(l)
      /\ paused' = [paused EXCEPT ![l] = 0]
      /\ checking' = [checking EXCEPT ![l] = @ + 1]
      /\ excused' = (IF checking[l] > 0 THEN excused \cup {l} ELSE excused)
      /\ UNCHANGED <<seconds, failing, stamps, until, guesses>>
  BY DEF Attempt
<1>3. /\ seconds \in Nat /\ checking \in [Login -> Nat] /\ IsTable(paused) /\ tries \in 0 .. MaxTries
      /\ until \in [Login -> Nat]
  BY <1>1 DEF ThrottleType
<1>4. IsTable(paused') /\ Keys(paused') = Keys(paused) \ {l}
  BY <1>2, <1>3, TableWithout
<1>5. ThrottleType'
  <2>1. tries' \in 0 .. MaxTries  BY <1>2, <1>3
  <2>2. checking' \in [Login -> Nat] /\ \A k \in Login : checking'[k] <= tries'
    <3>1. \A k \in Login : checking[k] <= tries  BY <1>1 DEF ThrottleType
    <3> QED  BY <1>2, <1>3, <3>1
  <2> QED  BY <1>1, <1>2, <1>4, <2>1, <2>2 DEF ThrottleType, IsTable
<1>6. TablesHaveRoom'
  <2>1. Keys(paused') \ Keys(failing) \subseteq Keys(paused) \ Keys(failing)  BY <1>4
  <2>2. IsFiniteSet(Keys(paused) \ Keys(failing))  BY KeysFinite, FS_Subset
  <2>3. Cardinality(Keys(paused) \ Keys(failing)) <= MaxTracked - 1  BY <1>1 DEF TablesHaveRoom
  <2>4. Cardinality(Keys(paused') \ Keys(failing)) <= MaxTracked - 1
    BY <2>1, <2>2, <2>3, FewerKeys
  <2>5. failing' = failing  BY <1>2
  <2> QED  BY <1>1, <2>4, <2>5 DEF TablesHaveRoom, Keys
<1>7. ASSUME NEW k \in Login \ excused' PROVE Paced(k)'
  <2>1. k \in Login \ excused  BY <1>2
  <2>2. Paced(k)  BY <1>1, <2>1
  <2>3. WhatIsLeft(guesses[k], stamps[k])'  BY <1>2, <2>2 DEF Paced, WhatIsLeft, Without, OutOfWindow
  <2>4. CASE k # l
    <3>1. k \in Keys(paused) => k \in Keys(paused')  BY <1>4, <2>4
    <3>2. Keys(paused)' = Keys(paused')  BY DEF Keys
    <3>3. checking'[k] = checking[k]  BY <1>2, <1>3, <2>4
    <3>4. seconds <= seconds' /\ seconds' \in Nat  BY <1>2, <1>3
    <3> QED  BY <1>1, <1>2, <2>1, <2>2, <2>3, <3>1, <3>2, <3>3, <3>4, PacedStays
  <2>5. CASE k = l
    <3>1. checking[l] = 0 /\ checking'[l] = 1  BY <1>2, <1>3, <2>5
    <3>2. Len(guesses[l]) >= MaxFailures => Expired(l)  BY <1>2, <2>2, <2>5 DEF Paced
    <3>3. Expired(l)' <=> Expired(l)  BY <1>2 DEF Expired
    <3>4. Len(guesses[l]) >= MaxFailures =>
            until[l] = guesses[l][Len(guesses[l])] + Pause
      BY <2>2, <2>5 DEF Paced
    <3>5. \A i \in 1 .. Len(guesses[l]) :
            i > MaxFailures => guesses[l][i] - guesses[l][i - 1] >= Pause
      BY <2>2, <2>5 DEF Paced
    <3>6. guesses' = guesses /\ until' = until  BY <1>2
    <3> QED  BY <2>3, <2>5, <3>1, <3>2, <3>3, <3>4, <3>5, <3>6 DEF Paced
  <2> QED  BY <2>4, <2>5
<1> QED  BY <1>5, <1>6, <1>7 DEF ThrottleIInv

LEMMA SucceedKeepsThrottle ==
  ASSUME ThrottleIInv, NEW l \in Login, Succeed(l)
  PROVE  ThrottleIInv'
<1> USE ThrottleNumbers
<1>1. ThrottleType /\ TablesHaveRoom /\ \A k \in Login \ excused : Paced(k)  BY DEF ThrottleIInv
<1>2. /\ checking[l] > 0
      /\ checking' = [checking EXCEPT ![l] = @ - 1]
      /\ failing' = [failing EXCEPT ![l] = 0] /\ stamps' = [stamps EXCEPT ![l] = <<>>]
      /\ paused' = [paused EXCEPT ![l] = 0]
      /\ guesses' = [guesses EXCEPT ![l] = <<>>]
      /\ UNCHANGED <<seconds, until, tries, excused>>
  BY DEF Succeed
<1>3. /\ seconds \in Nat /\ checking \in [Login -> Nat] /\ IsTable(paused) /\ IsTable(failing)
      /\ DOMAIN stamps = Login /\ DOMAIN guesses = Login /\ tries \in Nat
  BY <1>1 DEF ThrottleType
<1>4. IsTable(paused') /\ Keys(paused') = Keys(paused) \ {l}  BY <1>2, <1>3, TableWithout
<1>5. IsTable(failing') /\ Keys(failing') = Keys(failing) \ {l}  BY <1>2, <1>3, TableWithout
<1>6. Past(<<>>, seconds) /\ WhatIsLeft(<<>>, <<>>)
  <2>1. Past(<<>>, seconds)  BY DEF Past
  <2>2. 0 \in 0 .. Len(<<>>) /\ Without(<<>>, 0, <<>>) /\ OutOfWindow(<<>>, 0)  BY DEF Without, OutOfWindow
  <2> QED  BY <2>1, <2>2 DEF WhatIsLeft
<1>7. \A k \in Login : /\ stamps'[k] = IF k = l THEN <<>> ELSE stamps[k]
                       /\ guesses'[k] = IF k = l THEN <<>> ELSE guesses[k]
                       /\ checking'[k] = IF k = l THEN checking[k] - 1 ELSE checking[k]
                       /\ failing'[k] = IF k = l THEN 0 ELSE failing[k]
  BY <1>2, <1>3 DEF IsTable
<1>8. ThrottleType'
  <2>1. checking' \in [Login -> Nat] /\ \A k \in Login : checking'[k] <= tries
    <3>1. \A k \in Login : checking[k] <= tries  BY <1>1 DEF ThrottleType
    <3> QED  BY <1>2, <1>3, <3>1
  <2>2. \A k \in Login : Past(stamps'[k], seconds) /\ Past(guesses'[k], seconds)
    BY <1>1, <1>6, <1>7 DEF ThrottleType
  <2>3. \A k \in Login : failing'[k] = 0 <=> stamps'[k] = <<>>
    BY <1>1, <1>7 DEF ThrottleType
  <2>4. stamps' \in [Login -> Seq(Nat)] /\ DOMAIN guesses' = Login
    <3>1. <<>> \in Seq(Nat) /\ stamps \in [Login -> Seq(Nat)]  BY <1>1 DEF ThrottleType
    <3> QED  BY <1>2, <1>3, <3>1
  <2> QED  BY <1>1, <1>2, <1>4, <1>5, <2>1, <2>2, <2>3, <2>4 DEF ThrottleType, IsTable
<1>9. TablesHaveRoom'
  <2>1. Keys(paused') \ Keys(failing') \subseteq Keys(paused) \ Keys(failing)  BY <1>4, <1>5
  <2>2. IsFiniteSet(Keys(paused) \ Keys(failing))  BY KeysFinite, FS_Subset
  <2>3. Cardinality(Keys(paused) \ Keys(failing)) <= MaxTracked - 1  BY <1>1 DEF TablesHaveRoom
  <2>4. Cardinality(Keys(paused') \ Keys(failing')) <= MaxTracked - 1
    BY <2>1, <2>2, <2>3, FewerKeys
  <2>5. Cardinality(Keys(failing')) <= MaxTracked
    <3>1. Keys(failing') \subseteq Keys(failing)  BY <1>5
    <3>2. Cardinality(Keys(failing)) <= MaxTracked  BY <1>1 DEF TablesHaveRoom
    <3> QED  BY <3>1, <3>2, KeysFinite, FewerKeys
  <2>6. Keys(failing)' = Keys(failing') /\ Keys(paused)' = Keys(paused')  BY DEF Keys
  <2> QED  BY <2>4, <2>5, <2>6 DEF TablesHaveRoom
<1>10. ASSUME NEW k \in Login \ excused' PROVE Paced(k)'
  <2>1. Paced(k) /\ k \in Login  BY <1>1, <1>2
  <2>2. CASE k # l
    <3>1. WhatIsLeft(guesses[k], stamps[k])'
      BY <1>2, <1>7, <2>1, <2>2 DEF Paced, WhatIsLeft, Without, OutOfWindow
    <3>2. k \in Keys(paused) => k \in Keys(paused)'
      <4>1. Keys(paused)' = Keys(paused')  BY DEF Keys
      <4> QED  BY <1>4, <2>2, <4>1
    <3>3. seconds <= seconds' /\ seconds' \in Nat  BY <1>2, <1>3
    <3> QED  BY <1>1, <1>2, <1>7, <2>1, <2>2, <3>1, <3>2, <3>3, PacedStays
  <2>3. CASE k = l
    <3>1. guesses'[l] = <<>> /\ stamps'[l] = <<>> /\ checking'[l] <= 1 /\ Len(<<>>) = 0
      <4>1. checking[l] <= 1 /\ checking[l] \in Nat  BY <1>3, <2>1, <2>3 DEF Paced
      <4> QED  BY <1>7, <4>1, <1>2
    <3>2. WhatIsLeft(<<>>, <<>>)'  BY <1>2, <1>6 DEF WhatIsLeft, Without, OutOfWindow
    <3> QED  BY <2>3, <3>1, <3>2 DEF Paced
  <2> QED  BY <2>2, <2>3
<1> QED  BY <1>8, <1>9, <1>10 DEF ThrottleIInv

(* What record_failure makes of the tables before it writes the failure.   *)
IsFull(l) == l \notin Keys(failing) /\ Cardinality(Keys(failing)) >= MaxTracked
KeptFailing(l) ==
  IF IsFull(l) THEN Evicted(Only(failing, {k \in Login : Recent(stamps[k]) # <<>>})) ELSE failing
KeptPaused(l) ==
  IF IsFull(l) THEN Evicted(Only(paused, {k \in Login : ~Expired(k)})) ELSE paused

LEMMA FailSteps ==
  ASSUME NEW l \in Login, Fail(l), ThrottleType
  PROVE  LET mine == Append(Recent(stamps[l]), seconds) IN
         /\ checking[l] > 0 /\ checking' = [checking EXCEPT ![l] = @ - 1]
         /\ failing' = Put(KeptFailing(l), l)
         /\ stamps' = [k \in Login |-> stamps'[k]] /\ stamps'[l] = mine
         /\ \A k \in Login : k # l =>
              stamps'[k] = IF k \notin Keys(KeptFailing(l)) THEN <<>>
                           ELSE IF IsFull(l) THEN Recent(stamps[k]) ELSE stamps[k]
         /\ IF Len(mine) >= MaxFailures
            THEN paused' = Put(KeptPaused(l), l) /\ until' = [until EXCEPT ![l] = seconds + Pause]
            ELSE paused' = KeptPaused(l) /\ until' = until
         /\ guesses' = [guesses EXCEPT ![l] = Append(Recent(guesses[l]), seconds)]
         /\ excused' = excused
                \cup {k \in Keys(failing) \ Keys(KeptFailing(l)) : Recent(stamps[k]) # <<>>}
                \cup {k \in Keys(paused) \ Keys(KeptPaused(l)) : ~Expired(k)}
         /\ seconds' = seconds /\ tries' = tries
<1>1. guesses' = [guesses EXCEPT ![l] = Append(Recent(@), seconds)] /\ DOMAIN guesses = Login
  BY DEF Fail, ThrottleType
<1>2. guesses' = [guesses EXCEPT ![l] = Append(Recent(guesses[l]), seconds)]  BY <1>1
<1>3. stamps' = [k \in Login |-> stamps'[k]]
  BY DEF Fail
<1> QED  BY <1>2, <1>3 DEF Fail, IsFull, KeptFailing, KeptPaused

LEMMA KeptTables ==
  ASSUME ThrottleType, NEW l \in Login
  PROVE  /\ IsTable(KeptFailing(l)) /\ Keys(KeptFailing(l)) \subseteq Keys(failing)
         /\ IsTable(KeptPaused(l)) /\ Keys(KeptPaused(l)) \subseteq Keys(paused)
         /\ IsFull(l) => /\ Cardinality(Keys(KeptFailing(l))) <= MaxTracked - 1
                         /\ Cardinality(Keys(KeptPaused(l))) <= MaxTracked - 1
                         /\ \A k \in Keys(KeptFailing(l)) : Recent(stamps[k]) # <<>>
<1> DEFINE hot == {k \in Login : Recent(stamps[k]) # <<>>}
           lasting == {k \in Login : ~Expired(k)}
<1>1. IsTable(failing) /\ IsTable(paused)  BY DEF ThrottleType
<1>2. CASE ~IsFull(l)  BY <1>1, <1>2 DEF KeptFailing, KeptPaused
<1>3. CASE IsFull(l)
  <2>1. KeptFailing(l) = Evicted(Only(failing, hot)) /\ KeptPaused(l) = Evicted(Only(paused, lasting))
    BY <1>3 DEF KeptFailing, KeptPaused
  <2> HIDE DEF hot, lasting
  <2>2. /\ IsTable(Only(failing, hot)) /\ Keys(Only(failing, hot)) = Keys(failing) \cap hot
        /\ IsTable(Only(paused, lasting)) /\ Keys(Only(paused, lasting)) = Keys(paused) \cap lasting
    BY <1>1, TableOnly
  <2>3. /\ IsTable(KeptFailing(l)) /\ Keys(KeptFailing(l)) \subseteq Keys(failing) \cap hot
        /\ Cardinality(Keys(KeptFailing(l))) <= MaxTracked - 1
    BY <2>1, <2>2, EvictedHasRoom
  <2>4. /\ IsTable(KeptPaused(l)) /\ Keys(KeptPaused(l)) \subseteq Keys(paused)
        /\ Cardinality(Keys(KeptPaused(l))) <= MaxTracked - 1
    BY <2>1, <2>2, EvictedHasRoom
  <2>5. \A k \in Keys(KeptFailing(l)) : Recent(stamps[k]) # <<>>  BY <2>3 DEF hot
  <2> QED  BY <2>3, <2>4, <2>5
<1> QED  BY <1>2, <1>3

(* After a failure the tables have room, whatever had to go for it.        *)
LEMMA FailKeepsRoom ==
  ASSUME ThrottleIInv, NEW l \in Login, Fail(l)
  PROVE  TablesHaveRoom' /\ IsTable(failing)' /\ IsTable(paused)'
<1> USE ThrottleNumbers
<1> DEFINE kept == KeptFailing(l)
           keptP == KeptPaused(l)
<1>1. ThrottleType /\ TablesHaveRoom  BY DEF ThrottleIInv
<1>2. /\ IsTable(kept) /\ Keys(kept) \subseteq Keys(failing)
      /\ IsTable(keptP) /\ Keys(keptP) \subseteq Keys(paused)
      /\ IsFull(l) => /\ Cardinality(Keys(kept)) <= MaxTracked - 1
                      /\ Cardinality(Keys(keptP)) <= MaxTracked - 1
  BY <1>1, KeptTables
<1>3. failing' = Put(kept, l) /\ (paused' = Put(keptP, l) \/ paused' = keptP)
  BY <1>1, FailSteps
<1> HIDE DEF kept, keptP
<1>4. IsTable(failing') /\ Keys(failing') = Keys(kept) \cup {l}  BY <1>2, <1>3, TablePut
<1>5. IsTable(paused') /\ Keys(paused') \subseteq Keys(keptP) \cup {l}  BY <1>2, <1>3, TablePut
<1>6. Cardinality(Keys(failing)) <= MaxTracked /\ Cardinality(Keys(paused) \ Keys(failing)) <= MaxTracked - 1
  BY <1>1 DEF TablesHaveRoom
<1>7. Keys(paused') \ Keys(failing') \subseteq Keys(keptP)  BY <1>4, <1>5
<1>8. CASE IsFull(l)
  <2>1. Cardinality(Keys(failing')) <= MaxTracked
    <3>2. /\ IsFiniteSet(Keys(kept)) /\ Cardinality(Keys(kept)) \in Nat
          /\ Cardinality(Keys(failing')) \in Nat
      BY KeysFinite
    <3>3. Cardinality(Keys(kept) \cup {l}) =
            IF l \in Keys(kept) THEN Cardinality(Keys(kept)) ELSE Cardinality(Keys(kept)) + 1
      BY <3>2, FS_AddElement
    <3>1. Cardinality(Keys(kept) \cup {l}) <= Cardinality(Keys(kept)) + 1
      BY <3>2, <3>3
    <3> QED  BY <1>2, <1>4, <1>8, <3>1, <3>2
  <2>2. Cardinality(Keys(paused') \ Keys(failing')) <= MaxTracked - 1
    BY <1>2, <1>7, <1>8, KeysFinite, FewerKeys
  <2> QED  BY <1>4, <1>5, <2>1, <2>2 DEF TablesHaveRoom, Keys
<1>9. CASE ~IsFull(l)
  <2>1. kept = failing /\ keptP = paused  BY <1>9 DEF KeptFailing, KeptPaused, kept, keptP
  <2>2. Cardinality(Keys(failing')) <= MaxTracked
    <3>1. CASE l \in Keys(failing)  BY <1>4, <1>6, <2>1, <3>1, KeysFinite, FewerKeys
    <3>2. CASE Cardinality(Keys(failing)) < MaxTracked
      <4>2. /\ IsFiniteSet(Keys(failing)) /\ Cardinality(Keys(failing)) \in Nat
            /\ Cardinality(Keys(failing')) \in Nat
        BY KeysFinite
      <4>3. Cardinality(Keys(failing) \cup {l}) =
              IF l \in Keys(failing) THEN Cardinality(Keys(failing)) ELSE Cardinality(Keys(failing)) + 1
        BY <4>2, FS_AddElement
      <4>1. Cardinality(Keys(failing) \cup {l}) <= Cardinality(Keys(failing)) + 1
        BY <4>2, <4>3
      <4> QED  BY <1>4, <2>1, <3>2, <4>1, <4>2
    <3>3. Cardinality(Keys(failing)) \in Nat  BY KeysFinite
    <3> QED  BY <1>9, <3>1, <3>2, <3>3 DEF IsFull
  <2>3. Keys(paused') \ Keys(failing') \subseteq Keys(paused) \ Keys(failing)
    BY <1>4, <1>5, <2>1
  <2>4. IsFiniteSet(Keys(paused) \ Keys(failing))  BY KeysFinite, FS_Subset
  <2>5. Cardinality(Keys(paused') \ Keys(failing')) <= MaxTracked - 1
    BY <1>6, <2>3, <2>4, FewerKeys
  <2> QED  BY <1>4, <1>5, <2>2, <2>5 DEF TablesHaveRoom, Keys
<1> QED  BY <1>8, <1>9

LEMMA FailKeepsType ==
  ASSUME ThrottleIInv, NEW l \in Login, Fail(l)
  PROVE  ThrottleType'
<1> USE ThrottleNumbers
<1> DEFINE kept == KeptFailing(l)
<1>1. ThrottleType  BY DEF ThrottleIInv
<1>2. /\ seconds \in Nat /\ checking \in [Login -> Nat] /\ until \in [Login -> Nat]
      /\ DOMAIN stamps = Login /\ DOMAIN guesses = Login
      /\ \A k \in Login : Past(stamps[k], seconds) /\ Past(guesses[k], seconds)
      /\ \A k \in Login : failing[k] = 0 <=> stamps[k] = <<>>
      /\ \A k \in Login : checking[k] <= tries /\ tries \in Nat
  BY <1>1 DEF ThrottleType
<1>3. /\ checking[l] > 0 /\ checking' = [checking EXCEPT ![l] = @ - 1]
      /\ failing' = Put(kept, l)
      /\ stamps' = [k \in Login |-> stamps'[k]] /\ stamps'[l] = Append(Recent(stamps[l]), seconds)
      /\ \A k \in Login : k # l =>
           stamps'[k] = IF k \notin Keys(kept) THEN <<>>
                        ELSE IF IsFull(l) THEN Recent(stamps[k]) ELSE stamps[k]
      /\ until' = until \/ until' = [until EXCEPT ![l] = seconds + Pause]
      /\ guesses' = [guesses EXCEPT ![l] = Append(Recent(guesses[l]), seconds)]
      /\ seconds' = seconds /\ tries' = tries
  BY <1>1, FailSteps
<1>4. /\ IsTable(kept) /\ Keys(kept) \subseteq Keys(failing)
      /\ IsFull(l) => \A k \in Keys(kept) : Recent(stamps[k]) # <<>>
      /\ ~IsFull(l) => kept = failing
  BY <1>1, KeptTables DEF KeptFailing
<1> HIDE DEF kept
<1>5. IsTable(failing') /\ Keys(failing') = Keys(kept) \cup {l}  BY <1>3, <1>4, TablePut
<1>6. IsTable(paused')  BY FailKeepsRoom DEF IsTable
<1>7. until' \in [Login -> Nat]
  <2>1. seconds + Pause \in Nat  BY <1>2
  <2> QED  BY <1>2, <1>3, <2>1
<1>8. checking' \in [Login -> Nat] /\ \A k \in Login : checking'[k] <= tries
  BY <1>2, <1>3
<1>9. Past(<<>>, seconds)  BY DEF Past
<1>10. \A k \in Login : Past(stamps'[k], seconds)
  <2> SUFFICES ASSUME NEW k \in Login PROVE Past(stamps'[k], seconds)  OBVIOUS
  <2>1. Past(stamps[k], seconds) /\ Past(Recent(stamps[k]), seconds)
        /\ Past(Append(Recent(stamps[k]), seconds), seconds)
    BY <1>2, RecentPast
  <2>2. CASE k = l  BY <2>2, <2>1, <1>3
  <2>3. CASE k # l  BY <2>3, <2>1, <1>3, <1>9
  <2> QED  BY <2>2, <2>3
<1>11. \A k \in Login : Past(guesses'[k], seconds)
  <2> SUFFICES ASSUME NEW k \in Login PROVE Past(guesses'[k], seconds)  OBVIOUS
  <2>1. Past(guesses[k], seconds) /\ Past(Append(Recent(guesses[k]), seconds), seconds)
    BY <1>2, RecentPast
  <2>2. guesses'[k] = IF k = l THEN Append(Recent(guesses[l]), seconds) ELSE guesses[k]
    BY <1>2, <1>3
  <2> QED  BY <2>1, <2>2
<1>12. \A k \in Login : failing'[k] = 0 <=> stamps'[k] = <<>>
  <2> SUFFICES ASSUME NEW k \in Login PROVE failing'[k] = 0 <=> stamps'[k] = <<>>  OBVIOUS
  <2>1. failing'[k] = 0 <=> k \notin Keys(failing')  BY DEF Keys
  <2>2. k \in Keys(kept) => stamps[k] # <<>>
    BY <1>2, <1>4 DEF Keys
  <2>3. CASE k = l
    <3>1. stamps'[k] # <<>>  BY <1>2, <1>3, <2>3, RecentPast
    <3> QED  BY <1>5, <2>1, <2>3, <3>1
  <2>4. CASE k # l  BY <1>3, <1>4, <1>5, <2>1, <2>2, <2>4
  <2> QED  BY <2>3, <2>4
<1>13. DOMAIN guesses' = Login  BY <1>2, <1>3
<1>16. stamps' \in [Login -> Seq(Nat)]
  <2>1. \A k \in Login : stamps'[k] \in Seq(Nat)  BY <1>10 DEF Past
  <2> QED  BY <1>3, <2>1
<1>14. IsTable(failing)' /\ IsTable(paused)'  BY FailKeepsRoom
<1>15. seconds' \in 0 .. MaxTime /\ tries' \in 0 .. MaxTries  BY <1>1, <1>3 DEF ThrottleType
<1> QED
  BY <1>7, <1>8, <1>16, <1>10, <1>11, <1>12, <1>13, <1>14, <1>15, <1>3 DEF ThrottleType

(* A wrong password of one login leaves the others paced, or excuses them. *)
LEMMA FailPacesOthers ==
  ASSUME ThrottleIInv, NEW l \in Login, Fail(l), NEW k \in Login \ excused', k # l
  PROVE  Paced(k)'
<1> USE ThrottleNumbers
<1> DEFINE kept == KeptFailing(l)
           keptP == KeptPaused(l)
<1>1. ThrottleType /\ \A j \in Login \ excused : Paced(j)  BY DEF ThrottleIInv
<1>2. /\ checking' = [checking EXCEPT ![l] = @ - 1]
      /\ stamps'[k] = IF k \notin Keys(kept) THEN <<>>
                      ELSE IF IsFull(l) THEN Recent(stamps[k]) ELSE stamps[k]
      /\ paused' = Put(keptP, l) \/ paused' = keptP
      /\ until' = until \/ until' = [until EXCEPT ![l] = seconds + Pause]
      /\ guesses' = [guesses EXCEPT ![l] = Append(Recent(guesses[l]), seconds)]
      /\ excused' = excused \cup {j \in Keys(failing) \ Keys(kept) : Recent(stamps[j]) # <<>>}
                            \cup {j \in Keys(paused) \ Keys(keptP) : ~Expired(j)}
      /\ seconds' = seconds
  BY <1>1, FailSteps
<1>3. IsTable(keptP)  BY <1>1, KeptTables
<1> HIDE DEF kept, keptP
<1>4. /\ seconds \in Nat /\ checking \in [Login -> Nat] /\ until \in [Login -> Nat]
      /\ DOMAIN guesses = Login
      /\ Past(stamps[k], seconds) /\ Past(guesses[k], seconds)
      /\ failing[k] = 0 <=> stamps[k] = <<>>
  BY <1>1 DEF ThrottleType
<1>5. Paced(k)  BY <1>1, <1>2
<1>6. WhatIsLeft(guesses[k], stamps[k])  BY <1>5 DEF Paced
<1>7. WhatIsLeft(guesses[k], Recent(stamps[k]))  BY <1>4, <1>6, LeftAgain
<1>8. WhatIsLeft(guesses[k], stamps'[k])
  <2>1. CASE k \in Keys(kept)  BY <2>1, <1>2, <1>6, <1>7
  <2>2. CASE k \notin Keys(kept) /\ k \in Keys(failing)
    <3>1. Recent(stamps[k]) = <<>>  BY <1>2, <2>2
    <3> QED  BY <1>2, <1>7, <2>2, <3>1
  <2>3. CASE k \notin Keys(kept) /\ k \notin Keys(failing)
    <3>1. stamps[k] = <<>>  BY <1>4, <2>3 DEF Keys
    <3> QED  BY <1>2, <1>6, <2>3, <3>1
  <2> QED  BY <2>1, <2>2, <2>3
<1>9. guesses'[k] = guesses[k] /\ until'[k] = until[k] /\ checking'[k] = checking[k]
  BY <1>2, <1>4
<1>10. WhatIsLeft(guesses[k], stamps[k])'  BY <1>2, <1>8, <1>9 DEF WhatIsLeft, Without, OutOfWindow
<1>11. k \in Keys(paused) => k \in Keys(paused)' \/ until[k] <= seconds
  <2> SUFFICES ASSUME k \in Keys(paused), until[k] > seconds PROVE k \in Keys(paused')
    BY <1>4 DEF Keys
  <2>1. ~Expired(k)  BY <1>4 DEF Expired
  <2>2. k \in Keys(keptP)  BY <1>2, <2>1
  <2> QED  BY <1>2, <1>3, <2>2, TablePut
<1>12. seconds <= seconds' /\ seconds' \in Nat  BY <1>2, <1>4
<1> QED  BY <1>1, <1>5, <1>9, <1>10, <1>11, <1>12, PacedStays

(* A wrong password of a login whose attempts come one after another was   *)
(* not looked at before its pause was over.                                *)
LEMMA FailPacesItself ==
  ASSUME ThrottleIInv, NEW l \in Login \ excused', Fail(l)
  PROVE  Paced(l)'
<1> USE ThrottleNumbers
<1> DEFINE g == guesses[l]
           r == Recent(guesses[l])
           a == Append(r, seconds)
<1>1. ThrottleType /\ \A j \in Login \ excused : Paced(j)  BY DEF ThrottleIInv
<1>2. /\ checking[l] > 0 /\ checking' = [checking EXCEPT ![l] = @ - 1]
      /\ stamps'[l] = Append(Recent(stamps[l]), seconds)
      /\ IF Len(Append(Recent(stamps[l]), seconds)) >= MaxFailures
         THEN paused' = Put(KeptPaused(l), l) /\ until' = [until EXCEPT ![l] = seconds + Pause]
         ELSE paused' = KeptPaused(l) /\ until' = until
      /\ guesses' = [guesses EXCEPT ![l] = Append(Recent(guesses[l]), seconds)]
      /\ seconds' = seconds /\ l \notin excused
  BY <1>1, FailSteps
<1>3. /\ seconds \in Nat /\ checking \in [Login -> Nat] /\ until \in [Login -> Nat]
      /\ DOMAIN guesses = Login
      /\ Past(stamps[l], seconds) /\ Past(g, seconds)
  BY <1>1 DEF ThrottleType
<1>4. Paced(l)  BY <1>1, <1>2
<1>5. Recent(stamps[l]) = r  BY <1>3, <1>4, RecentOfLeft DEF Paced
<1>6. guesses'[l] = a /\ stamps'[l] = a  BY <1>2, <1>3, <1>5
<1>7. r \in Seq(Nat)  BY <1>3, RecentIs
<1>8. PICK d \in 0 .. Len(g) : Without(g, d, r)  BY <1>3, RecentIs
<1>9. Len(g) \in Nat /\ \A i \in 1 .. Len(g) : g[i] \in Nat  BY <1>3 DEF Past
<1>10. /\ Len(r) \in Nat /\ Len(r) = Len(g) - d
       /\ \A i \in 1 .. Len(r) : i + d \in 1 .. Len(g) /\ r[i] = g[i + d]
  BY <1>7, <1>8, <1>9 DEF Without
<1>11. checking[l] = 1 /\ checking'[l] = 0  BY <1>2, <1>3, <1>4 DEF Paced
<1>12. KeptPaused(l) \in [Login -> Nat] /\ IsTable(KeptPaused(l))  BY <1>1, KeptTables DEF IsTable
<1>13. Len(g) >= MaxFailures => seconds >= g[Len(g)] + Pause
  <2> SUFFICES ASSUME Len(g) >= MaxFailures PROVE seconds >= g[Len(g)] + Pause  OBVIOUS
  <2>1. until[l] = g[Len(g)] + Pause /\ Expired(l)  BY <1>4, <1>11 DEF Paced
  <2>2. Len(g) \in 1 .. Len(g)  BY <1>9
  <2> QED  BY <1>3, <1>9, <2>1, <2>2 DEF Expired
<1> HIDE DEF r, g
<1>14. /\ a \in Seq(Nat) /\ Len(a) = Len(r) + 1 /\ a[Len(a)] = seconds
       /\ \A i \in 1 .. Len(r) : a[i] = r[i]
  BY <1>3, <1>7
<1> HIDE DEF a
<1>15. WhatIsLeft(guesses[l], stamps[l])'
  <2>1. 0 \in 0 .. Len(a) /\ Len(a) = Len(a) - 0  BY <1>10, <1>14
  <2>2. \A i \in 1 .. Len(a) : a[i] = a[i + 0]  BY <1>10, <1>14
  <2>3. Without(a, 0, a)  BY <2>1, <2>2 DEF Without
  <2>4. Without(guesses[l], 0, stamps[l])'  BY <1>6, <2>3 DEF Without
  <2>5. OutOfWindow(guesses[l], 0)'  BY DEF OutOfWindow
  <2>6. 0 \in 0 .. Len(guesses'[l])  BY <1>6, <2>1
  <2> QED  BY <2>4, <2>5, <2>6 DEF WhatIsLeft
<1>16. ASSUME Len(a) >= MaxFailures
       PROVE  until'[l] = seconds + Pause /\ l \in Keys(paused)'
  <2>1. Len(Append(Recent(stamps[l]), seconds)) >= MaxFailures  BY <1>5, <1>16 DEF a
  <2>2. paused' = Put(KeptPaused(l), l) /\ until' = [until EXCEPT ![l] = seconds + Pause]
    BY <1>2, <2>1
  <2>3. Keys(paused') = Keys(KeptPaused(l)) \cup {l}  BY <1>12, <2>2, TablePut
  <2> QED  BY <1>3, <2>2, <2>3 DEF Keys
<1>17. ASSUME NEW i \in 1 .. Len(a), i > MaxFailures
       PROVE  a[i] - a[i - 1] >= Pause
  <2>3. Len(r) \in Nat /\ Len(a) = Len(r) + 1 /\ MaxFailures \in Nat /\ MaxFailures >= 1
    BY <1>10, <1>14
  <2>1. CASE i = Len(a)
    <3>1. i - 1 = Len(r) /\ Len(r) \in 1 .. Len(r) /\ Len(r) >= MaxFailures
      BY <1>17, <2>1, <2>3
    <3>6. a[i - 1] = r[Len(r)] /\ r[Len(r)] = g[Len(r) + d]  BY <1>10, <1>14, <3>1
    <3>7. Len(r) + d = Len(g)  BY <1>9, <1>10
    <3>2. a[i - 1] = g[Len(r) + d] /\ Len(r) + d = Len(g)  BY <3>6, <3>7
    <3>3. Len(g) >= MaxFailures  BY <1>9, <1>10, <3>1
    <3>4. g[Len(g)] \in Nat  BY <1>9, <1>10, <3>1
    <3>5. a[i] = seconds /\ a[i - 1] = g[Len(g)]  BY <1>14, <2>1, <3>2
    <3> QED  BY <1>3, <1>13, <3>3, <3>4, <3>5
  <2>2. CASE i # Len(a)
    <3>1. i \in 1 .. Len(r) /\ i - 1 \in 1 .. Len(r)  BY <1>17, <2>2, <2>3
    <3>2. a[i] = g[i + d] /\ a[i - 1] = g[(i - 1) + d]  BY <1>10, <1>14, <3>1
    <3>3. i + d \in 1 .. Len(g) /\ i + d > MaxFailures /\ (i - 1) + d = (i + d) - 1
      BY <1>10, <1>17, <3>1
    <3>4. \A j \in 1 .. Len(g) : j > MaxFailures => g[j] - g[j - 1] >= Pause
      BY <1>4 DEF Paced, g
    <3> QED  BY <3>2, <3>3, <3>4
  <2> QED  BY <2>1, <2>2
<1>18. guesses'[l][Len(guesses'[l])] = seconds  BY <1>6, <1>14
<1> QED  BY <1>6, <1>11, <1>15, <1>16, <1>17, <1>18 DEF Paced

LEMMA FailKeepsThrottle ==
  ASSUME ThrottleIInv, NEW l \in Login, Fail(l)
  PROVE  ThrottleIInv'
<1>1. ThrottleType' /\ TablesHaveRoom'  BY FailKeepsType, FailKeepsRoom
<1>2. \A k \in Login \ excused' : Paced(k)'
  <2> SUFFICES ASSUME NEW k \in Login \ excused' PROVE Paced(k)'  OBVIOUS
  <2>1. CASE k = l  BY <2>1, FailPacesItself
  <2>2. CASE k # l  BY <2>2, FailPacesOthers
  <2> QED  BY <2>1, <2>2
<1> QED  BY <1>1, <1>2 DEF ThrottleIInv

LEMMA ThrottleSteps == ThrottleIInv /\ [ThrottleNext]_throttleVars => ThrottleIInv'
<1> SUFFICES ASSUME ThrottleIInv, [ThrottleNext]_throttleVars PROVE ThrottleIInv'  OBVIOUS
<1>1. CASE SecondPasses  BY <1>1, ClockKeepsThrottle
<1>2. ASSUME NEW l \in Login, Attempt(l) PROVE ThrottleIInv'  BY <1>2, AttemptKeepsThrottle
<1>3. ASSUME NEW l \in Login, Fail(l) PROVE ThrottleIInv'  BY <1>3, FailKeepsThrottle
<1>4. ASSUME NEW l \in Login, Succeed(l) PROVE ThrottleIInv'  BY <1>4, SucceedKeepsThrottle
<1>5. CASE UNCHANGED throttleVars
  <2>1. /\ ThrottleType' = ThrottleType /\ TablesHaveRoom' = TablesHaveRoom /\ excused' = excused
        /\ \A l \in Login : Paced(l)' = Paced(l)
    BY <1>5 DEF throttleVars, ThrottleType, TablesHaveRoom, Keys, IsTable, Paced, Expired, WhatIsLeft,
                Without, OutOfWindow, Past
  <2> QED  BY <2>1 DEF ThrottleIInv
<1> QED  BY <1>1, <1>2, <1>3, <1>4, <1>5 DEF ThrottleNext

(* What is in the window, or not, of the pause: it gives the properties.   *)
LEMMA ThrottleShows == ThrottleIInv => ThrottleInv
<1> SUFFICES ASSUME ThrottleIInv PROVE ThrottleInv  OBVIOUS
<1> USE ThrottleNumbers
<1>1. ThrottleType /\ TablesHaveRoom /\ \A l \in Login \ excused : Paced(l)  BY DEF ThrottleIInv
<1>2. ThrottleTypeOK
  <2>1. stamps \in [Login -> Seq(0 .. seconds)]
    <3>1. seconds \in Nat /\ stamps \in [Login -> Seq(Nat)]  BY <1>1 DEF ThrottleType
    <3>2. \A l \in Login : stamps[l] \in Seq(0 .. seconds)
      <4> SUFFICES ASSUME NEW l \in Login PROVE stamps[l] \in Seq(0 .. seconds)  OBVIOUS
      <4>1. Past(stamps[l], seconds)  BY <1>1 DEF ThrottleType
      <4>2. stamps[l] \in Seq(Nat) /\ \A i \in 1 .. Len(stamps[l]) : stamps[l][i] \in 0 .. seconds
        BY <3>1, <4>1 DEF Past
      <4>3. Len(stamps[l]) \in Nat /\ stamps[l] \in [1 .. Len(stamps[l]) -> 0 .. seconds]
        BY <4>2
      <4> QED  BY <4>3, SeqDef
    <3> QED  BY <3>1, <3>2
  <2>2. checking \in [Login -> 0 .. MaxTries]
    <3>1. checking \in [Login -> Nat] /\ \A l \in Login : checking[l] <= tries /\ tries \in 0 .. MaxTries
      BY <1>1 DEF ThrottleType
    <3>2. \A l \in Login : checking[l] \in 0 .. MaxTries  BY <3>1
    <3> QED  BY <3>1, <3>2
  <2> QED  BY <1>1, <2>1, <2>2 DEF ThrottleTypeOK, ThrottleType, IsTable
<1>3. GuessesPaced
  <2> SUFFICES ASSUME NEW l \in Login \ excused, NEW i \in DOMAIN guesses[l], i > MaxFailures
               PROVE  guesses[l][i] - guesses[l][i - 1] >= Pause
    BY DEF GuessesPaced
  <2>1. Paced(l)  BY <1>1
  <2>2. DOMAIN guesses[l] = 1 .. Len(guesses[l])  BY <1>1 DEF ThrottleType, Past
  <2> QED  BY <2>1, <2>2 DEF Paced
<1>4. TablesBounded
  <2> DEFINE F == Keys(failing)
             P == Keys(paused)
  <2>1. Cardinality(F) <= MaxTracked /\ Cardinality(P \ F) <= MaxTracked - 1
    BY <1>1 DEF TablesHaveRoom
  <2>2. IsFiniteSet(F) /\ IsFiniteSet(P) /\ Cardinality(P) \in Nat  BY KeysFinite
  <2>3. IsFiniteSet(P \ F) /\ Cardinality(P \ F) = Cardinality(P) - Cardinality(P \cap F)
    BY <2>2, FS_Difference
  <2>4. IsFiniteSet(P \cap F) /\ Cardinality(P \cap F) <= Cardinality(F)
    BY <2>2, FS_Intersection
  <2>5. Cardinality(P \cap F) \in Nat /\ Cardinality(F) \in Nat
    BY <2>2, <2>4, FS_CardinalityType
  <2> HIDE DEF F, P
  <2>6. Cardinality(P) < 2 * MaxTracked  BY <2>1, <2>2, <2>3, <2>4, <2>5
  <2> QED  BY <2>1, <2>6 DEF TablesBounded, F, P
<1> QED  BY <1>2, <1>3, <1>4 DEF ThrottleInv

(* Wrong passwords of a login are looked at as often as the rule says and  *)
(* then once in a pause, whoever else signs in meanwhile; and the tables   *)
(* of the throttle stay small, however many logins are tried.              *)
THEOREM ThrottleInvariant == ThrottleSpec => []ThrottleInv
<1>1. ThrottleSpec => []ThrottleIInv
  BY ThrottleStarts, ThrottleSteps, PTL DEF ThrottleSpec
<1> QED  BY <1>1, ThrottleShows, PTL

(* Who gets into the panel: an administrator remains, an old password      *)
(* opens nothing, and guesses of a password are paced.                     *)
THEOREM SignInInvariant == SignInSpec => []SignInInv
<1>1. AccessInv /\ ThrottleInv => SignInInv  BY DEF SignInInv
<1> QED  BY <1>1, AccessInvariant, ThrottleInvariant, PTL DEF SignInSpec

-----------------------------------------------------------------------------
(***************************************************************************)
(* EventOutbox: no event is lost, none overtakes an older one.             *)
(***************************************************************************)

(* The row stands in nobody's way: the AIS has it, it was closed, or it    *)
(* cannot be built.                                                        *)
Gone(i) == i \in aisHas \/ outbox[i].state = "closed" \/ outbox[i].op \in Poison

(* A row of the portion has in front of it rows of the portion, and rows   *)
(* that are gone.                                                          *)
PortionInOrder == \A j \in portion.left : \A i \in RowNo : i < j => i \in portion.left \/ Gone(i)

(* What is to be marked has been taken by the broker. *)
MarkedIsTaken == portion.at = "mark" /\ portion.left # {} => Current \in aisHas

OutboxIInv == OutboxInv /\ PortionInOrder /\ MarkedIsTaken

OutboxRows == Seq([op : Op, state : {"waiting", "published", "closed"}])

LEMMA CurrentIs ==
  ASSUME OutboxTypeOK, portion.left # {}
  PROVE  /\ Current \in portion.left /\ Current \in RowNo
         /\ \A j \in portion.left : Current <= j
<1>1. Len(outbox) \in Nat  BY LenProperties DEF OutboxTypeOK
<1>2. portion.left \in SUBSET RowNo  BY DEF OutboxTypeOK
<1>3. portion.left \in SUBSET Nat  BY <1>1, <1>2 DEF RowNo
<1> QED  BY <1>2, <1>3, MinIs DEF Current

(* A portion is the front of what waits. *)
LEMMA OldestFirst ==
  ASSUME OutboxTypeOK, NEW j \in OldestWaiting, NEW i \in WaitingRows, i < j
  PROVE  i \in OldestWaiting
<1>1. Len(outbox) \in Nat  BY LenProperties DEF OutboxTypeOK
<1>2. WaitingRows \subseteq 1 .. Len(outbox)  BY DEF WaitingRows, RowNo
<1>3. IsFiniteSet(WaitingRows)
  <2>1. IsFiniteSet(1 .. Len(outbox))  BY <1>1, FS_Interval
  <2> QED  BY <1>2, <2>1, FS_Subset
<1>4. WaitingRows \in SUBSET Nat  BY <1>1, <1>2
<1>5. j \in WaitingRows /\ Cardinality({k \in WaitingRows : k < j}) < EventBatch
  BY DEF OldestWaiting
<1> QED  BY <1>3, <1>4, <1>5, FrontOf, OutboxBounds DEF OldestWaiting

LEMMA OutboxStarts == OutboxInit => OutboxIInv
<1> SUFFICES ASSUME OutboxInit PROVE OutboxIInv  OBVIOUS
<1>1. outbox = <<>> /\ portion = NoPortion /\ saved = {} /\ aisHas = {}  BY DEF OutboxInit
<1>2. <<>> \in OutboxRows /\ Len(<<>>) = 0  BY EmptySeq DEF OutboxRows
<1> QED  BY <1>1, <1>2 DEF OutboxIInv, OutboxInv, OutboxTypeOK, NothingLostToAis, EventsInOrder,
         PortionInOrder, MarkedIsTaken, NoPortion, RowNo, OutboxRows

(* A row more, at the end. *)
LEMMA RowAdded ==
  ASSUME OutboxIInv, NEW op \in Op, outbox' = Append(outbox, OutboxRow(op)), op \in saved',
         saved \subseteq saved', saved' \subseteq Op, UNCHANGED <<portion, aisHas>>
  PROVE  OutboxIInv'
<1> DEFINE r == OutboxRow(op)
<1>1. outbox \in OutboxRows /\ Len(outbox) \in Nat
  BY LenProperties DEF OutboxIInv, OutboxInv, OutboxTypeOK, OutboxRows
<1>2. r \in [op : Op, state : {"waiting", "published", "closed"}]  BY DEF OutboxRow
<1>3. r.op = op /\ r.state = "waiting"  BY DEF OutboxRow
<1> HIDE DEF r
<1>4. /\ outbox' \in OutboxRows /\ Len(outbox') = Len(outbox) + 1
      /\ \A i \in 1 .. Len(outbox) : outbox'[i] = outbox[i]
      /\ outbox'[Len(outbox) + 1] = r
  BY <1>1, <1>2, AppendProperties DEF OutboxRows, r
<1>5. RowNo' = RowNo \cup {Len(outbox) + 1} /\ Len(outbox) + 1 \notin RowNo
  BY <1>1, <1>4 DEF RowNo
<1>6. \A i \in RowNo : outbox'[i] = outbox[i]  BY <1>4 DEF RowNo
<1>7. portion \in [left : SUBSET RowNo, at : {"build", "publish", "mark"}] /\ aisHas \subseteq RowNo
  BY DEF OutboxIInv, OutboxInv, OutboxTypeOK
<1>8. \A i \in RowNo' : outbox'[i].op \in saved'
  BY <1>3, <1>4, <1>5, <1>6 DEF OutboxIInv, OutboxInv, OutboxTypeOK
<1>9. portion' \in [left : SUBSET RowNo', at : {"build", "publish", "mark"}] /\ aisHas' \subseteq RowNo'
  BY <1>5, <1>7
<1>10. OutboxTypeOK'  BY <1>4, <1>8, <1>9 DEF OutboxTypeOK, OutboxRows
<1>11. NothingLostToAis'
  BY <1>3, <1>4, <1>5, <1>6 DEF OutboxIInv, OutboxInv, NothingLostToAis
<1>12. \A j \in RowNo, i \in RowNo' : i < j => i \in RowNo
  BY <1>1, <1>4 DEF RowNo
<1>13. \A i \in RowNo : Gone(i)' <=> Gone(i)  BY <1>6 DEF Gone
<1>14. EventsInOrder'
  BY <1>6, <1>7, <1>12 DEF OutboxIInv, OutboxInv, EventsInOrder
<1>15. PortionInOrder'
  BY <1>7, <1>12, <1>13 DEF OutboxIInv, PortionInOrder
<1>16. MarkedIsTaken'  BY DEF OutboxIInv, MarkedIsTaken, Current
<1> QED  BY <1>10, <1>11, <1>14, <1>15, <1>16 DEF OutboxIInv, OutboxInv

(* The oldest row of the portion marked, with the portion that is left. *)
LEMMA RowMarked ==
  ASSUME OutboxIInv, portion.left # {}, NEW state \in {"published", "closed"},
         state = "published" => Current \in aisHas,
         outbox' = Marked(state), portion' = NextRow, UNCHANGED <<saved, aisHas>>
  PROVE  OutboxIInv'
<1> DEFINE c == Current
<1>1. c \in portion.left /\ c \in RowNo /\ \A j \in portion.left : c <= j
  BY CurrentIs DEF OutboxIInv, OutboxInv
<1>2. outbox \in OutboxRows /\ Len(outbox) \in Nat /\ DOMAIN outbox = RowNo
  BY LenProperties DEF OutboxIInv, OutboxInv, OutboxTypeOK, OutboxRows, RowNo
<1>3. outbox' = [outbox EXCEPT ![c].state = state]  BY DEF Marked
<1>4. portion' = [left |-> portion.left \ {c}, at |-> "build"]  BY DEF NextRow
<1> HIDE DEF c
<1>5. \A i \in RowNo : outbox[i] \in [op : Op, state : {"waiting", "published", "closed"}]
  BY <1>2, ElementOfSeq DEF OutboxRows, RowNo
<1>6. /\ outbox' \in OutboxRows /\ Len(outbox') = Len(outbox)
      /\ \A i \in RowNo : outbox'[i] = IF i = c THEN [outbox[c] EXCEPT !.state = state] ELSE outbox[i]
  <2> DEFINE x == [outbox[c] EXCEPT !.state = state]
  <2>1. x \in [op : Op, state : {"waiting", "published", "closed"}]  BY <1>1, <1>5
  <2>2. outbox' = [outbox EXCEPT ![c] = x]  BY <1>3
  <2> HIDE DEF x
  <2>3. /\ outbox' \in OutboxRows /\ Len(outbox') = Len(outbox)
        /\ \A i \in RowNo : outbox'[i] = IF i = c THEN x ELSE outbox[i]
    BY <1>1, <1>2, <2>1, <2>2, ExceptSeq DEF OutboxRows, RowNo
  <2> QED  BY <2>3 DEF x
<1>7. RowNo' = RowNo  BY <1>6 DEF RowNo
<1>8. \A i \in RowNo : /\ outbox'[i].op = outbox[i].op
                       /\ outbox'[i].state = IF i = c THEN state ELSE outbox[i].state
  BY <1>5, <1>6
<1>9. OutboxTypeOK'
  <2>1. portion' \in [left : SUBSET RowNo, at : {"build", "publish", "mark"}]
    BY <1>4 DEF OutboxIInv, OutboxInv, OutboxTypeOK
  <2> QED  BY <1>6, <1>7, <1>8, <2>1 DEF OutboxIInv, OutboxInv, OutboxTypeOK, OutboxRows
<1>10. NothingLostToAis'
  BY <1>7, <1>8 DEF OutboxIInv, OutboxInv, NothingLostToAis, c
<1>11. \A i \in RowNo : Gone(i) => Gone(i)'
  <2> SUFFICES ASSUME NEW i \in RowNo, Gone(i) PROVE Gone(i)'  OBVIOUS
  <2>1. CASE i = c  BY <1>8, <2>1 DEF Gone, c
  <2>2. CASE i # c  BY <1>8, <2>2 DEF Gone
  <2> QED  BY <2>1, <2>2
<1>12. EventsInOrder'
  <2>1. \A i, j \in RowNo : i < j /\ j \in aisHas => Gone(i)
    BY DEF OutboxIInv, OutboxInv, EventsInOrder, Gone
  <2>2. \A i, j \in RowNo : i < j /\ j \in aisHas => Gone(i)'  BY <1>11, <2>1
  <2> QED  BY <1>7, <2>2 DEF EventsInOrder, Gone
<1>13. PortionInOrder'
  <2> SUFFICES ASSUME NEW j \in portion.left \ {c}, NEW i \in RowNo, i < j
               PROVE  i \in portion.left \ {c} \/ Gone(i)'
    BY <1>4, <1>7 DEF PortionInOrder
  <2>1. CASE i = c  BY <1>8, <2>1 DEF Gone, c
  <2>2. CASE i # c  BY <1>11, <2>2 DEF OutboxIInv, PortionInOrder
  <2> QED  BY <2>1, <2>2
<1>14. MarkedIsTaken'  BY <1>4 DEF MarkedIsTaken
<1> QED  BY <1>9, <1>10, <1>12, <1>13, <1>14 DEF OutboxIInv, OutboxInv

(* A row that cannot be built is passed over. *)
LEMMA RowPassed ==
  ASSUME OutboxIInv, portion.left # {}, outbox[Current].op \in Poison,
         portion' = AfterBroken, UNCHANGED <<outbox, saved, aisHas>>
  PROVE  OutboxIInv'
<1> DEFINE c == Current
<1>1. c \in portion.left /\ c \in RowNo  BY CurrentIs DEF OutboxIInv, OutboxInv
<1>2. portion' = [left |-> portion.left \ {c}, at |-> "build"]  BY DEF AfterBroken, NextRow
<1>3. Gone(c)  BY DEF Gone
<1> HIDE DEF c
<1>4. OutboxTypeOK'
  <2>1. portion' \in [left : SUBSET RowNo, at : {"build", "publish", "mark"}]
    BY <1>2 DEF OutboxIInv, OutboxInv, OutboxTypeOK
  <2> QED  BY <2>1 DEF OutboxIInv, OutboxInv, OutboxTypeOK, RowNo
<1>5. NothingLostToAis' /\ EventsInOrder'
  BY DEF OutboxIInv, OutboxInv, NothingLostToAis, EventsInOrder, RowNo
<1>6. PortionInOrder'
  <2> SUFFICES ASSUME NEW j \in portion.left \ {c}, NEW i \in RowNo, i < j
               PROVE  i \in portion.left \ {c} \/ Gone(i)
    BY <1>2 DEF PortionInOrder, RowNo, Gone
  <2> QED  BY <1>3 DEF OutboxIInv, PortionInOrder
<1>7. MarkedIsTaken'  BY <1>2 DEF MarkedIsTaken
<1> QED  BY <1>4, <1>5, <1>6, <1>7 DEF OutboxIInv, OutboxInv

(* The portion is let go, or goes on with the rows it has; the broker may  *)
(* have taken the message of its oldest row.                               *)
LEMMA RowTried ==
  ASSUME OutboxIInv, portion.left # {}, UNCHANGED <<outbox, saved>>,
         aisHas' = aisHas \/ aisHas' = WithCurrent,
         \/ portion' = NoPortion
         \/ portion' = [portion EXCEPT !.at = "publish"]
         \/ portion' = [portion EXCEPT !.at = "mark"] /\ aisHas' = WithCurrent
  PROVE  OutboxIInv'
<1> DEFINE c == Current
<1>1. c \in portion.left /\ c \in RowNo /\ \A j \in portion.left : c <= j
  BY CurrentIs DEF OutboxIInv, OutboxInv
<1>2. portion \in [left : SUBSET RowNo, at : {"build", "publish", "mark"}]
  BY DEF OutboxIInv, OutboxInv, OutboxTypeOK
<1>3. aisHas' = aisHas \/ aisHas' = aisHas \cup {c}  BY DEF WithCurrent
<1>4. RowNo' = RowNo /\ Len(outbox) \in Nat
  BY LenProperties DEF RowNo, OutboxIInv, OutboxInv, OutboxTypeOK
<1>5. /\ portion' \in [left : SUBSET RowNo, at : {"build", "publish", "mark"}]
      /\ portion'.left = {} \/ portion'.left = portion.left
      /\ portion'.at = "mark" /\ portion'.left # {} => c \in aisHas'
  BY <1>2 DEF NoPortion, WithCurrent
<1>6. portion'.left # {} => Current' = c  BY <1>5 DEF Current
<1> HIDE DEF c
<1>7. OutboxTypeOK'  BY <1>1, <1>3, <1>4, <1>5 DEF OutboxIInv, OutboxInv, OutboxTypeOK
<1>8. NothingLostToAis'  BY <1>3, <1>4 DEF OutboxIInv, OutboxInv, NothingLostToAis
<1>9. \A i \in RowNo : Gone(i) => Gone(i)'  BY <1>3 DEF Gone
<1>10. \A i \in RowNo : i < c => Gone(i)
  <2> SUFFICES ASSUME NEW i \in RowNo, i < c PROVE Gone(i)  OBVIOUS
  <2>1. i \notin portion.left  BY <1>1, <1>4 DEF RowNo
  <2> QED  BY <1>1, <2>1 DEF OutboxIInv, PortionInOrder
<1>11. EventsInOrder'
  <2>1. \A i, j \in RowNo : i < j /\ j \in aisHas => Gone(i)
    BY DEF OutboxIInv, OutboxInv, EventsInOrder, Gone
  <2>2. \A i, j \in RowNo : i < j /\ j \in aisHas' => Gone(i)'  BY <1>3, <1>9, <1>10, <2>1
  <2> QED  BY <1>4, <2>2 DEF EventsInOrder, Gone
<1>12. PortionInOrder'  BY <1>4, <1>5, <1>9 DEF OutboxIInv, PortionInOrder
<1>13. MarkedIsTaken'  BY <1>5, <1>6 DEF MarkedIsTaken
<1> QED  BY <1>7, <1>8, <1>11, <1>12, <1>13 DEF OutboxIInv, OutboxInv

LEMMA PortionLoaded ==
  ASSUME OutboxIInv, LoadPortion
  PROVE  OutboxIInv'
<1>1. portion' = [left |-> OldestWaiting, at |-> "build"] /\ UNCHANGED <<outbox, saved, aisHas>>
  BY DEF LoadPortion, NoPortion
<1>2. OldestWaiting \subseteq WaitingRows /\ WaitingRows \subseteq RowNo
  BY DEF OldestWaiting, WaitingRows
<1>3. OutboxTypeOK'
  <2>1. portion' \in [left : SUBSET RowNo, at : {"build", "publish", "mark"}]  BY <1>1, <1>2
  <2> QED  BY <1>1, <2>1 DEF OutboxIInv, OutboxInv, OutboxTypeOK, RowNo
<1>4. NothingLostToAis' /\ EventsInOrder'
  BY <1>1 DEF OutboxIInv, OutboxInv, NothingLostToAis, EventsInOrder, RowNo
<1>5. PortionInOrder'
  <2> SUFFICES ASSUME NEW j \in OldestWaiting, NEW i \in RowNo, i < j
               PROVE  i \in OldestWaiting \/ Gone(i)
    BY <1>1 DEF PortionInOrder, RowNo, Gone
  <2>1. CASE i \in WaitingRows  BY <2>1, OldestFirst DEF OutboxIInv, OutboxInv
  <2>2. CASE i \notin WaitingRows
    <3>1. outbox[i].state # "waiting"  BY <2>2 DEF WaitingRows, WaitingRow
    <3>2. outbox[i] \in [op : Op, state : {"waiting", "published", "closed"}]
      BY ElementOfSeq DEF OutboxIInv, OutboxInv, OutboxTypeOK, RowNo
    <3>3. outbox[i].state \in {"published", "closed"}  BY <3>1, <3>2
    <3> QED  BY <3>3 DEF Gone, OutboxIInv, OutboxInv, NothingLostToAis
  <2> QED  BY <2>1, <2>2
<1>6. MarkedIsTaken'  BY <1>1 DEF MarkedIsTaken
<1> QED  BY <1>3, <1>4, <1>5, <1>6 DEF OutboxIInv, OutboxInv

LEMMA OutboxStutter ==
  ASSUME OutboxIInv, UNCHANGED <<outbox, saved, portion, aisHas>>
  PROVE  OutboxIInv'
BY DEF OutboxIInv, OutboxInv, OutboxTypeOK, NothingLostToAis, EventsInOrder, PortionInOrder,
       MarkedIsTaken, RowNo, Gone, Current

LEMMA OutboxStep ==
  ASSUME OutboxIInv, OutboxNext
  PROVE  OutboxIInv'
<1>0. saved \subseteq Op /\ OutboxTypeOK  BY DEF OutboxIInv, OutboxInv, OutboxTypeOK
<1>1. ASSUME NEW op \in Op, SaveOffline(op) PROVE OutboxIInv'
  <2>1. saved' = saved \cup {op} /\ UNCHANGED <<portion, aisHas>>  BY <1>1 DEF SaveOffline
  <2>2. CASE outbox' = Append(outbox, OutboxRow(op))
    <3>1. op \in saved' /\ saved \subseteq saved' /\ saved' \subseteq Op  BY <1>0, <2>1
    <3> QED  BY <2>1, <2>2, <3>1, RowAdded
  <2>3. CASE outbox' = outbox
    <3>1. OutboxTypeOK'  BY <1>0, <2>1, <2>3 DEF OutboxTypeOK, RowNo
    <3> QED  BY <2>1, <2>3, <3>1 DEF OutboxIInv, OutboxInv, NothingLostToAis, EventsInOrder,
             PortionInOrder, MarkedIsTaken, RowNo, Gone, Current
  <2> QED  BY <1>1, <2>2, <2>3 DEF SaveOffline
<1>2. ASSUME NEW op \in Op, ResendEvent(op) PROVE OutboxIInv'
  BY <1>0, <1>2, RowAdded DEF ResendEvent
<1>3. CASE BindingTurns  BY <1>3, OutboxStutter DEF BindingTurns
<1>4. CASE LoadPortion  BY <1>4, PortionLoaded
<1>5. CASE BuildEvent
  <2>1. portion.left # {} /\ UNCHANGED <<saved, aisHas>>  BY <1>5 DEF BuildEvent
  <2>2. CASE CannotBuild(outbox[Current])
    BY <1>5, <2>1, <2>2, RowPassed DEF BuildEvent, CannotBuild
  <2>3. CASE ~CannotBuild(outbox[Current]) /\ ~bound
    BY <1>5, <2>1, <2>3, RowMarked DEF BuildEvent
  <2>4. CASE ~CannotBuild(outbox[Current]) /\ bound
    BY <1>5, <2>1, <2>4, RowTried DEF BuildEvent
  <2> QED  BY <2>2, <2>3, <2>4
<1>6. CASE PublishEvent
  <2>1. portion.left # {} /\ UNCHANGED <<outbox, saved>>  BY <1>6 DEF PublishEvent
  <2>2. aisHas' = aisHas \/ aisHas' = WithCurrent  BY <1>6 DEF PublishEvent
  <2>3. portion' = NoPortion \/ (portion' = [portion EXCEPT !.at = "mark"] /\ aisHas' = WithCurrent)
    BY <1>6 DEF PublishEvent, AfterError
  <2> QED  BY <2>1, <2>2, <2>3, RowTried
<1>7. CASE MarkPublished
  <2>1. portion.left # {} /\ portion.at = "mark" /\ outbox' = Marked("published")
        /\ portion' = NextRow /\ UNCHANGED <<saved, aisHas>>
    BY <1>7 DEF MarkPublished
  <2>2. Current \in aisHas  BY <2>1 DEF OutboxIInv, MarkedIsTaken
  <2> QED  BY <2>1, <2>2, RowMarked
<1>8. CASE PublisherRestarts
  <2>1. portion' = NoPortion /\ UNCHANGED <<outbox, saved, aisHas>>  BY <1>8 DEF PublisherRestarts
  <2> QED  BY <2>1 DEF OutboxIInv, OutboxInv, OutboxTypeOK, NothingLostToAis, EventsInOrder,
           PortionInOrder, MarkedIsTaken, RowNo, NoPortion
<1> QED  BY <1>1, <1>2, <1>3, <1>4, <1>5, <1>6, <1>7, <1>8 DEF OutboxNext, PublisherTurn

(* For any operations, whichever of them cannot be built, any portion, any *)
(* refusals of the broker, lost confirmations and restarts: a row is taken *)
(* off the queue only when the AIS has its event or it was closed, and the *)
(* AIS has no event before an older one that can be built                  *)
(* (EventPublisher.publish_pending).                                       *)
THEOREM OutboxInvariant == OutboxSpec => []OutboxInv
<1>1. OutboxIInv /\ [OutboxNext]_outboxVars => OutboxIInv'
  BY OutboxStep, OutboxStutter DEF outboxVars
<1>2. OutboxIInv => OutboxInv  BY DEF OutboxIInv
<1> QED  BY <1>1, <1>2, OutboxStarts, PTL DEF OutboxSpec

-----------------------------------------------------------------------------
(***************************************************************************)
(* OperatorSync: the lists settle, and whoever works typed the password of *)
(* now.                                                                    *)
(***************************************************************************)
Lists  == [state : OpState, pw : OpPassword, change : OpHandler]
Pushes == [at : {"none", "load", "send"}, list : Lists]
Desks  == [at : {"away", "verified", "session"}, typed : OpPassword, stamp : OpPassword]
Pasts  == [local : 0 .. MaxLocalEdits, links : Nat, inverted : BOOLEAN, mixed : BOOLEAN]

SyncTypes ==
  /\ OperatorTypeOK
  /\ push \in [OpHandler -> Pushes] /\ opWire \in Seq(Lists)
  /\ desk \in [Desk -> Desks] /\ opPast \in Pasts

(* A list is of the past, or the account as it is now.                     *)
Dated(list) ==
  /\ list.change <= centerOp.change
  /\ list.change = centerOp.change => list = centerOp

(* The row of the PC is what the account at the center makes of it. *)
Follows ==
  \/ localOp.from = "local"
  \/ localOp.state = centerOp.state /\ (centerOp.state # "absent" => localOp.pw = centerOp.pw)

ListsDated ==
  /\ \A h \in OpHandler : push[h].at = "send" => Dated(push[h].list)
  /\ \A i \in 1 .. Len(opWire) : Dated(opWire[i])
  /\ localOp.change <= centerOp.change
  /\ localOp.change = centerOp.change => Follows

(* Lists are read in the order they are sent in, and none that is still to *)
(* be sent is older than one that was.                                     *)
ListsInOrder ==
  ~opPast.inverted =>
    /\ \A i, j \in 1 .. Len(opWire) : i < j => opWire[i].change <= opWire[j].change
    /\ \A i \in 1 .. Len(opWire) : localOp.change <= opWire[i].change
    /\ \A h \in OpHandler : push[h].at = "send" =>
         /\ localOp.change <= push[h].list.change
         /\ \A i \in 1 .. Len(opWire) : opWire[i].change <= push[h].list.change

(* While the agent is connected, the account of now is there, or somebody  *)
(* is going to bring it.                                                   *)
AccountCarried ==
  opLink /\ ~opPast.inverted =>
    \/ localOp.change = centerOp.change
    \/ \E i \in 1 .. Len(opWire) : opWire[i].change = centerOp.change
    \/ \E h \in OpHandler : push[h].at = "send" /\ push[h].list.change = centerOp.change
    \/ \E h \in OpHandler : push[h].at = "load"

(* The stamp of a session is the password it was opened with, or none. *)
StampsMatch ==
  \A d \in Desk : desk[d].at = "session" => desk[d].stamp \in {0, desk[d].typed} \/ opPast.mixed

OperatorIInv == SyncTypes /\ ListsDated /\ ListsInOrder /\ AccountCarried /\ StampsMatch

LEMMA OperatorNumbers ==
  /\ MaxEdits \in Nat /\ MaxLocalEdits \in Nat
  /\ 0 \in OpHandler /\ 0 \in OpPassword /\ OpHandler \subseteq Nat /\ OpHandler \subseteq OpPassword
BY OperatorBounds DEF OpHandler, OpPassword

LEMMA OperatorSound == OperatorIInv => OperatorInv
<1> SUFFICES ASSUME OperatorIInv PROVE OperatorInv  OBVIOUS
<1>1. OperatorTypeOK  BY DEF OperatorIInv, SyncTypes
<1>2. ReplicaSettles
  <2> SUFFICES ASSUME OpQuiet, ~opPast.inverted PROVE Follows  BY DEF ReplicaSettles, Follows
  <2>1. opLink /\ Len(opWire) = 0 /\ \A h \in OpHandler : push[h].at = "none"
    BY EmptySeq DEF OpQuiet
  <2>2. localOp.change = centerOp.change  BY <2>1 DEF OperatorIInv, AccountCarried
  <2> QED  BY <2>2 DEF OperatorIInv, ListsDated
<1>3. TypedPasswordOfNow
  BY DEF OperatorIInv, StampsMatch, TypedPasswordOfNow, SessionLives, StampNow
<1> QED  BY <1>1, <1>2, <1>3 DEF OperatorInv

LEMMA OperatorStarts == OperatorInit => OperatorIInv
<1> SUFFICES ASSUME OperatorInit PROVE OperatorIInv  OBVIOUS
<1> USE OperatorNumbers DEF OperatorInit
<1>1. NoAccount \in Lists  BY DEF NoAccount, Lists, OpState
<1>2. opWire \in Seq(Lists) /\ Len(opWire) = 0  BY EmptySeq
<1>3. OperatorTypeOK  BY <1>1 DEF OperatorTypeOK, Lists, NoAccount, NoLocalRow, OpState, DeskAway
<1>4. SyncTypes  BY <1>1, <1>2, <1>3 DEF SyncTypes, Pushes, Desks, DeskAway, Pasts
<1>5. ListsDated  BY <1>2 DEF ListsDated, Follows, NoAccount, NoLocalRow
<1>6. ListsInOrder  BY <1>2 DEF ListsInOrder
<1>7. AccountCarried  BY DEF AccountCarried
<1>8. StampsMatch  BY DEF StampsMatch, DeskAway
<1> QED  BY <1>4, <1>5, <1>6, <1>7, <1>8 DEF OperatorIInv

(* A change of the account leaves every list in the past. *)
LEMMA AccountChanged ==
  ASSUME OperatorIInv, NEW state \in OpState, NEW pw \in OpPassword, OperatorChanges(state, pw)
  PROVE  OperatorIInv'
<1> DEFINE n == centerOp.change
<1>1. centerOp \in Lists /\ push \in [OpHandler -> Pushes] /\ opWire \in Seq(Lists)
  BY DEF OperatorIInv, SyncTypes, OperatorTypeOK, Lists
<1>2. n + 1 \in OpHandler /\ n \in Nat
  BY <1>1, OperatorNumbers DEF OperatorChanges, Lists, OpHandler
<1>3. /\ centerOp' = [state |-> state, pw |-> pw, change |-> n + 1]
      /\ push' = [push EXCEPT ![n + 1].at = IF opLink THEN "load" ELSE "none"]
      /\ UNCHANGED <<opWire, opLink, localOp, desk, opPast>>
  BY DEF OperatorChanges
<1>4. \A h \in OpHandler : push'[h].at = "send" => push[h].at = "send" /\ push'[h] = push[h]
  BY <1>1, <1>2, <1>3
<1>5. SyncTypes'
  <2>1. centerOp' \in Lists  BY <1>2, <1>3 DEF Lists
  <2>2. push' \in [OpHandler -> Pushes]  BY <1>1, <1>2, <1>3 DEF Pushes
  <2> QED  BY <1>3, <2>1, <2>2 DEF OperatorIInv, SyncTypes, OperatorTypeOK, Lists
<1>6. \A list \in Lists : list.change <= n => Dated(list)'
  BY <1>2, <1>3, OperatorNumbers DEF Dated, Lists
<1>7. ListsDated'
  <2>1. \A h \in OpHandler : push[h].list \in Lists  BY <1>1 DEF Pushes
  <2>2. \A i \in 1 .. Len(opWire) : opWire[i] \in Lists  BY <1>1, ElementOfSeq
  <2>3. localOp.change \in Nat /\ localOp.change <= n
    BY OperatorNumbers DEF OperatorIInv, SyncTypes, OperatorTypeOK, ListsDated
  <2> QED  BY <1>2, <1>3, <1>4, <1>6, <2>1, <2>2, <2>3 DEF OperatorIInv, ListsDated, Dated
<1>8. ListsInOrder'  BY <1>3, <1>4 DEF OperatorIInv, ListsInOrder
<1>9. AccountCarried'
  <2>1. opLink => push'[n + 1].at = "load"  BY <1>1, <1>2, <1>3
  <2> QED  BY <1>2, <1>3, <2>1 DEF AccountCarried
<1>10. StampsMatch'  BY <1>3 DEF OperatorIInv, StampsMatch
<1> QED  BY <1>5, <1>7, <1>8, <1>9, <1>10 DEF OperatorIInv

LEMMA AccountEdited ==
  ASSUME OperatorIInv, CreateOperator \/ EditOperator \/ BlockAgentOperator
  PROVE  OperatorIInv'
<1>1. centerOp \in Lists  BY DEF OperatorIInv, SyncTypes, OperatorTypeOK, Lists
<1>2. (\E state, pw : OperatorChanges(state, pw)) => NewPassword \in OpPassword
  BY <1>1, OperatorNumbers DEF OperatorChanges, NewPassword, Lists, OpPassword, OpHandler
<1>3. \E state \in OpState, pw \in {NewPassword, centerOp.pw} : OperatorChanges(state, pw)
  BY <1>1 DEF CreateOperator, EditOperator, BlockAgentOperator, OpState, Lists
<1>4. PICK state \in OpState, pw \in {NewPassword, centerOp.pw} : OperatorChanges(state, pw)
  BY <1>3
<1>5. pw \in OpPassword  BY <1>1, <1>2, <1>4 DEF Lists
<1> QED  BY <1>4, <1>5, AccountChanged

LEMMA ListLoaded ==
  ASSUME OperatorIInv, NEW h \in OpHandler, LoadOperators(h)
  PROVE  OperatorIInv'
<1>1. centerOp \in Lists /\ push \in [OpHandler -> Pushes]
  BY DEF OperatorIInv, SyncTypes, OperatorTypeOK, Lists
<1> DEFINE x == [at |-> "send", list |-> centerOp]
<1>2. push' = [push EXCEPT ![h] = x] /\ push[h].at = "load"
      /\ UNCHANGED <<centerOp, opWire, opLink, localOp, desk, opPast>>
  BY DEF LoadOperators
<1>3. x \in Pushes /\ x.at = "send" /\ x.list = centerOp  BY <1>1 DEF Pushes
<1> HIDE DEF x
<1>4. \A g \in OpHandler : push'[g] = IF g = h THEN x ELSE push[g]  BY <1>1, <1>2
<1>5. SyncTypes'  BY <1>1, <1>2, <1>3 DEF OperatorIInv, SyncTypes, OperatorTypeOK
<1>6. Dated(centerOp)
  <2>1. centerOp.change \in Nat  BY <1>1, OperatorNumbers DEF Lists
  <2> QED  BY <2>1 DEF Dated
<1>7. ListsDated'
  BY <1>2, <1>3, <1>4, <1>6 DEF OperatorIInv, ListsDated, Dated, Follows
<1>8. ListsInOrder'
  BY <1>2, <1>3, <1>4 DEF OperatorIInv, ListsInOrder, ListsDated, Dated
<1>9. AccountCarried'
  BY <1>2, <1>3, <1>4 DEF OperatorIInv, AccountCarried
<1>10. StampsMatch'  BY <1>2 DEF OperatorIInv, StampsMatch
<1> QED  BY <1>5, <1>7, <1>8, <1>9, <1>10 DEF OperatorIInv

LEMMA ListSent ==
  ASSUME OperatorIInv, NEW h \in OpHandler, SendOperators(h)
  PROVE  OperatorIInv'
<1> DEFINE m == push[h].list
           x == [at |-> "none", list |-> NoAccount]
<1>1. push \in [OpHandler -> Pushes] /\ opWire \in Seq(Lists) /\ Len(opWire) \in Nat
  BY LenProperties DEF OperatorIInv, SyncTypes
<1>2. m \in Lists /\ push[h].at = "send"  BY <1>1 DEF Pushes, SendOperators
<1>3. /\ push' = [push EXCEPT ![h] = x] /\ UNCHANGED <<centerOp, opLink, localOp, desk>>
      /\ opWire' = IF opLink THEN Append(opWire, m) ELSE opWire
      /\ opPast' = [opPast EXCEPT !.inverted = @ \/
           (opWire' # opWire /\ \E g \in OpHandler : push[g].at = "send" /\ push[g].list.change < m.change)]
  BY DEF SendOperators
<1>4. x \in Pushes /\ x.at = "none"
  BY OperatorNumbers DEF Pushes, Lists, NoAccount, OpState
<1>5. Dated(m)  BY <1>2 DEF OperatorIInv, ListsDated
<1> HIDE DEF m, x
<1>6. \A g \in OpHandler : push'[g] = IF g = h THEN x ELSE push[g]  BY <1>1, <1>3
<1>7. opLink => /\ opWire' \in Seq(Lists) /\ Len(opWire') = Len(opWire) + 1
                /\ \A i \in 1 .. Len(opWire) : opWire'[i] = opWire[i]
                /\ opWire'[Len(opWire) + 1] = m
  BY <1>1, <1>2, <1>3, AppendProperties
<1> DEFINE Over == opWire' # opWire /\ \E g \in OpHandler :
                     push[g].at = "send" /\ push[g].list.change < m.change
<1>0. /\ opPast' \in Pasts /\ opPast'.mixed = opPast.mixed
      /\ opPast'.inverted = (opPast.inverted \/ Over)
  <2>1. opPast \in Pasts /\ Over \in BOOLEAN  BY DEF OperatorIInv, SyncTypes
  <2>2. opPast' = [opPast EXCEPT !.inverted = @ \/ Over]  BY <1>3
  <2> HIDE DEF Over
  <2> QED  BY <2>1, <2>2 DEF Pasts
<1>8. ~opPast'.inverted => ~opPast.inverted /\ ~Over  BY <1>0
<1>10. SyncTypes'
  <2>1. opWire' \in Seq(Lists)  BY <1>1, <1>3, <1>7
  <2> QED  BY <1>0, <1>1, <1>3, <1>4, <2>1 DEF OperatorIInv, SyncTypes, OperatorTypeOK
<1>11. ListsDated'
  <2>1. \A i \in 1 .. Len(opWire') : Dated(opWire'[i])
    <3>1. CASE opLink
      <4>1. \A i \in 1 .. Len(opWire') : i \in 1 .. Len(opWire) \/ i = Len(opWire) + 1
        BY <1>1, <1>7, <3>1
      <4> QED  BY <1>5, <1>7, <3>1, <4>1 DEF OperatorIInv, ListsDated
    <3>2. CASE ~opLink  BY <1>3, <3>2 DEF OperatorIInv, ListsDated
    <3> QED  BY <3>1, <3>2
  <2>2. \A g \in OpHandler : push'[g].at = "send" => Dated(push'[g].list)
    BY <1>4, <1>6 DEF OperatorIInv, ListsDated
  <2> QED  BY <1>3, <2>1, <2>2 DEF OperatorIInv, ListsDated, Dated, Follows
<1>12. ListsInOrder'
  <2> SUFFICES ASSUME ~opPast'.inverted PROVE ListsInOrder'  BY DEF ListsInOrder
  <2>1. ~opPast.inverted  BY <1>8
  <2>2. CASE ~opLink
    BY <1>3, <1>4, <1>6, <2>1, <2>2 DEF OperatorIInv, ListsInOrder
  <2>3. CASE opLink
    <3> DEFINE k == Len(opWire) + 1
    <3>1. Len(opWire') = k /\ opWire'[k] = m /\ \A i \in 1 .. k - 1 : opWire'[i] = opWire[i]
      BY <1>1, <1>7, <2>3
    <3>2. opWire' # opWire  BY <1>1, <1>7, <2>3
    <3>3. \A g \in OpHandler : push[g].at = "send" => ~(push[g].list.change < m.change)
      BY <1>8, <3>2
    <3>4. \A g \in OpHandler : push[g].list.change \in Nat
      BY <1>1, OperatorNumbers DEF Pushes, Lists
    <3>5. m.change \in Nat  BY <1>2, OperatorNumbers DEF Lists
    <3>6. \A i \in 1 .. k : i \in 1 .. k - 1 \/ i = k  BY <1>1
    <3>7. /\ \A i, j \in 1 .. k - 1 : i < j => opWire[i].change <= opWire[j].change
          /\ \A i \in 1 .. k - 1 : localOp.change <= opWire[i].change /\ opWire[i].change <= m.change
          /\ localOp.change <= m.change
          /\ \A g \in OpHandler : push[g].at = "send" =>
               /\ localOp.change <= push[g].list.change
               /\ \A i \in 1 .. k - 1 : opWire[i].change <= push[g].list.change
      BY <1>1, <1>2, <2>1 DEF OperatorIInv, ListsInOrder, m
    <3>8. k \in Nat  BY <1>1
    <3> HIDE DEF k
    <3>9. \A i, j \in 1 .. k : i < j => opWire'[i].change <= opWire'[j].change
      <4> SUFFICES ASSUME NEW i \in 1 .. k, NEW j \in 1 .. k, i < j
                   PROVE  opWire'[i].change <= opWire'[j].change
        OBVIOUS
      <4>1. i \in 1 .. k - 1  BY <3>8
      <4>2. CASE j = k  BY <3>1, <3>7, <4>1, <4>2
      <4>3. CASE j \in 1 .. k - 1  BY <3>1, <3>7, <4>1, <4>3
      <4> QED  BY <3>6, <4>2, <4>3
    <3>10. \A i \in 1 .. k : localOp.change <= opWire'[i].change  BY <3>1, <3>6, <3>7
    <3>11. \A g \in OpHandler : push'[g].at = "send" =>
             push[g].at = "send" /\ push'[g] = push[g] /\ m.change <= push[g].list.change
      BY <1>4, <1>6, <3>3, <3>4, <3>5
    <3>12. \A g \in OpHandler : push'[g].at = "send" =>
             /\ localOp.change <= push'[g].list.change
             /\ \A i \in 1 .. k : opWire'[i].change <= push'[g].list.change
      BY <3>1, <3>6, <3>7, <3>11
    <3> QED  BY <1>3, <3>1, <3>9, <3>10, <3>12 DEF ListsInOrder
  <2> QED  BY <2>2, <2>3
<1>13. AccountCarried'
  <2> SUFFICES ASSUME opLink, ~opPast'.inverted PROVE AccountCarried'
    BY <1>3 DEF AccountCarried
  <2>1. ~opPast.inverted  BY <1>8
  <2>2. Len(opWire) + 1 \in 1 .. Len(opWire') /\ \A i \in 1 .. Len(opWire) : i \in 1 .. Len(opWire')
    BY <1>1, <1>7
  <2>3. CASE localOp.change = centerOp.change  BY <1>3, <2>3 DEF AccountCarried
  <2>4. CASE \E i \in 1 .. Len(opWire) : opWire[i].change = centerOp.change
    BY <1>3, <1>7, <2>2, <2>4 DEF AccountCarried
  <2>5. ASSUME NEW g \in OpHandler, push[g].at = "send", push[g].list.change = centerOp.change
        PROVE  AccountCarried'
    <3>1. CASE g = h
      BY <1>3, <1>7, <2>2, <2>5, <3>1 DEF AccountCarried, m
    <3>2. CASE g # h  BY <1>3, <1>6, <2>5, <3>2 DEF AccountCarried
    <3> QED  BY <3>1, <3>2
  <2>6. ASSUME NEW g \in OpHandler, push[g].at = "load" PROVE AccountCarried'
    BY <1>2, <1>6, <2>6 DEF AccountCarried
  <2> QED  BY <2>1, <2>3, <2>4, <2>5, <2>6 DEF OperatorIInv, AccountCarried
<1>14. StampsMatch'  BY <1>0, <1>3 DEF OperatorIInv, StampsMatch
<1> QED  BY <1>10, <1>11, <1>12, <1>13, <1>14 DEF OperatorIInv

(* A connection begins and ends: no list of it is left to be sent. *)
LEMMA LinkTurned ==
  ASSUME OperatorIInv, OperatorConnects \/ OperatorLinkBreaks
  PROVE  OperatorIInv'
<1>1. push \in [OpHandler -> Pushes] /\ opWire \in Seq(Lists) /\ Len(opWire) \in Nat
  BY LenProperties DEF OperatorIInv, SyncTypes
<1>2. /\ opPast' \in Pasts /\ opPast'.inverted = opPast.inverted /\ opPast'.mixed = opPast.mixed
      /\ UNCHANGED <<centerOp, localOp, desk>>
  <2>1. opPast \in Pasts  BY DEF OperatorIInv, SyncTypes
  <2> QED  BY <2>1 DEF OperatorConnects, OperatorLinkBreaks, Pasts
<1>3. /\ push' \in [OpHandler -> Pushes]
      /\ \A h \in OpHandler : push'[h].at = "send" => push'[h] = push[h]
  <2> DEFINE x == [at |-> "none", list |-> NoAccount]
             y == [push[0] EXCEPT !.at = "load"]
  <2>1. NoAccount \in Lists  BY OperatorNumbers DEF Lists, NoAccount, OpState
  <2>2. x \in Pushes /\ y \in Pushes /\ x.at = "none" /\ y.at = "load"
    BY <1>1, <2>1, OperatorNumbers DEF Pushes
  <2>3. push' = [push EXCEPT ![0] = x] \/ push' = [push EXCEPT ![0] = y]
    BY DEF OperatorConnects, OperatorLinkBreaks
  <2> HIDE DEF x, y
  <2> QED  BY <1>1, <2>2, <2>3, OperatorNumbers
<1>4. opWire' = opWire \/ (opWire' = <<>> /\ ~opLink')
  BY DEF OperatorConnects, OperatorLinkBreaks
<1>5. opWire' \in Seq(Lists) /\ (opWire' = <<>> => Len(opWire') = 0)
  BY <1>1, <1>4, EmptySeq
<1>6. SyncTypes'  BY <1>2, <1>3, <1>5 DEF OperatorIInv, SyncTypes, OperatorTypeOK
<1>7. ListsDated'
  BY <1>2, <1>3, <1>4, <1>5 DEF OperatorIInv, ListsDated, Dated, Follows
<1>8. ListsInOrder'  BY <1>2, <1>3, <1>4, <1>5 DEF OperatorIInv, ListsInOrder
<1>9. AccountCarried'
  <2>1. opLink' => push'[0].at = "load"
    BY <1>1, OperatorNumbers DEF OperatorConnects, OperatorLinkBreaks
  <2> QED  BY <2>1, OperatorNumbers DEF AccountCarried
<1>10. StampsMatch'  BY <1>2 DEF OperatorIInv, StampsMatch
<1> QED  BY <1>6, <1>7, <1>8, <1>9, <1>10 DEF OperatorIInv

LEMMA ListReceived ==
  ASSUME OperatorIInv, ReceiveOperators
  PROVE  OperatorIInv'
<1> DEFINE m == Head(opWire)
<1>1. opWire \in Seq(Lists) /\ opWire # <<>> /\ Len(opWire) \in Nat
  BY LenProperties DEF OperatorIInv, SyncTypes, ReceiveOperators
<1>2. /\ m \in Lists /\ m = opWire[1] /\ Len(opWire) >= 1
      /\ opWire' \in Seq(Lists) /\ Len(opWire') = Len(opWire) - 1
      /\ \A i \in 1 .. Len(opWire') : opWire'[i] = opWire[i + 1]
  BY <1>1, HeadTailProperties, EmptySeq DEF ReceiveOperators
<1>3. localOp' = ReplacedRow(localOp, m) /\ UNCHANGED <<centerOp, push, opLink, desk, opPast>>
  BY DEF ReceiveOperators
<1>4. 1 \in 1 .. Len(opWire) /\ \A i \in 1 .. Len(opWire') : i + 1 \in 1 .. Len(opWire)
  BY <1>1, <1>2
<1>5. Dated(m)  BY <1>2, <1>4 DEF OperatorIInv, ListsDated
<1> HIDE DEF m
<1>6. localOp'.change = m.change
  BY <1>3 DEF ReplacedRow, NoLocalRow, OperatorIInv, SyncTypes, OperatorTypeOK
<1>7. OperatorTypeOK'
  <2>1. /\ localOp' \in [state : OpState, pw : OpPassword, change : OpHandler, from : {"none", "center", "local"}]
        /\ localOp'.from = "none" => localOp'.state = "absent"
    BY <1>2, <1>3, OperatorNumbers
       DEF ReplacedRow, NoLocalRow, Lists, OpState, OperatorIInv, SyncTypes, OperatorTypeOK
  <2> QED  BY <1>3, <2>1 DEF OperatorIInv, SyncTypes, OperatorTypeOK
<1>8. SyncTypes'  BY <1>2, <1>3, <1>7 DEF OperatorIInv, SyncTypes
<1>9. m.change = centerOp.change => Follows'
  <2> SUFFICES ASSUME m = centerOp PROVE Follows'  BY <1>5 DEF Dated
  <2> QED  BY <1>3 DEF Follows, ReplacedRow, NoLocalRow, OperatorIInv, SyncTypes, OperatorTypeOK
<1>10. ListsDated'
  <2>1. \A i \in 1 .. Len(opWire') : Dated(opWire'[i])  BY <1>2, <1>4 DEF OperatorIInv, ListsDated
  <2> QED  BY <1>3, <1>5, <1>6, <1>9, <2>1 DEF OperatorIInv, ListsDated, Dated
<1>11. ListsInOrder'
  <2> SUFFICES ASSUME ~opPast.inverted PROVE ListsInOrder'  BY <1>3 DEF ListsInOrder
  <2>1. \A i, j \in 1 .. Len(opWire) : i < j => opWire[i].change <= opWire[j].change
    BY DEF OperatorIInv, ListsInOrder
  <2>2. \A i, j \in 1 .. Len(opWire') : i < j => opWire'[i].change <= opWire'[j].change
    <3> SUFFICES ASSUME NEW i \in 1 .. Len(opWire'), NEW j \in 1 .. Len(opWire'), i < j
                 PROVE  opWire'[i].change <= opWire'[j].change
      OBVIOUS
    <3>1. i + 1 < j + 1 /\ i + 1 \in 1 .. Len(opWire) /\ j + 1 \in 1 .. Len(opWire)
      BY <1>1, <1>2
    <3> QED  BY <1>2, <2>1, <3>1
  <2>3. \A i \in 1 .. Len(opWire') : m.change <= opWire'[i].change
    <3> SUFFICES ASSUME NEW i \in 1 .. Len(opWire') PROVE m.change <= opWire'[i].change  OBVIOUS
    <3>1. 1 < i + 1 /\ i + 1 \in 1 .. Len(opWire)  BY <1>1, <1>2
    <3> QED  BY <1>2, <1>4, <2>1, <3>1
  <2>4. \A h \in OpHandler : push[h].at = "send" =>
          /\ m.change <= push[h].list.change
          /\ \A i \in 1 .. Len(opWire') : opWire'[i].change <= push[h].list.change
    BY <1>2, <1>4 DEF OperatorIInv, ListsInOrder
  <2> QED  BY <1>3, <1>6, <2>2, <2>3, <2>4 DEF ListsInOrder
<1>12. AccountCarried'
  <2> SUFFICES ASSUME opLink, ~opPast.inverted PROVE AccountCarried'
    BY <1>3 DEF AccountCarried
  <2>1. CASE localOp.change = centerOp.change
    <3>1. localOp.change <= m.change /\ m.change <= centerOp.change
      BY <1>2, <1>4, <1>5 DEF OperatorIInv, ListsInOrder, Dated
    <3>2. m.change \in Nat /\ localOp.change \in Nat
      BY <1>2, OperatorNumbers DEF Lists, OperatorIInv, SyncTypes, OperatorTypeOK
    <3>3. m.change = centerOp.change  BY <2>1, <3>1, <3>2
    <3> QED  BY <1>3, <1>6, <3>3 DEF AccountCarried
  <2>2. ASSUME NEW i \in 1 .. Len(opWire), opWire[i].change = centerOp.change
        PROVE  AccountCarried'
    <3>1. CASE i = 1  BY <1>2, <1>3, <1>6, <2>2, <3>1 DEF AccountCarried
    <3>2. CASE i # 1
      <4>1. i - 1 \in 1 .. Len(opWire') /\ (i - 1) + 1 = i  BY <1>1, <1>2, <3>2
      <4>2. opWire'[i - 1] = opWire[i]  BY <1>2, <4>1
      <4> QED  BY <1>3, <2>2, <4>1, <4>2 DEF AccountCarried
    <3> QED  BY <3>1, <3>2
  <2>3. CASE \/ \E h \in OpHandler : push[h].at = "send" /\ push[h].list.change = centerOp.change
             \/ \E h \in OpHandler : push[h].at = "load"
    BY <1>3, <2>3 DEF AccountCarried
  <2> QED  BY <2>1, <2>2, <2>3 DEF OperatorIInv, AccountCarried
<1>13. StampsMatch'  BY <1>3 DEF OperatorIInv, StampsMatch
<1> QED  BY <1>8, <1>10, <1>11, <1>12, <1>13 DEF OperatorIInv

LEMMA RowMadeByHand ==
  ASSUME OperatorIInv, AddOperatorByHand
  PROVE  OperatorIInv'
<1>1. /\ localOp' = [localOp EXCEPT !.state = "active", !.from = "local", !.pw = MaxEdits + opPast.local + 1]
      /\ opPast' = [opPast EXCEPT !.local = @ + 1] /\ opPast.local < MaxLocalEdits
      /\ UNCHANGED <<centerOp, push, opWire, opLink, desk>>
  BY DEF AddOperatorByHand
<1>2. /\ opPast'.inverted = opPast.inverted /\ opPast'.mixed = opPast.mixed
      /\ opPast' \in Pasts
  <2>1. opPast \in Pasts  BY DEF OperatorIInv, SyncTypes
  <2>2. opPast.local + 1 \in 0 .. MaxLocalEdits  BY <1>1, <2>1, OperatorNumbers DEF Pasts
  <2> QED  BY <1>1, <2>1, <2>2 DEF Pasts
<1>3. localOp'.from = "local" /\ localOp'.change = localOp.change
  BY <1>1 DEF OperatorIInv, SyncTypes, OperatorTypeOK
<1>4. opPast.local \in Nat  BY OperatorNumbers DEF OperatorIInv, SyncTypes, Pasts
<1>5. MaxEdits + opPast.local + 1 \in OpPassword  BY <1>1, <1>4, OperatorNumbers DEF OpPassword
<1>6. SyncTypes'
  <2>1. localOp' \in [state : OpState, pw : OpPassword, change : OpHandler, from : {"none", "center", "local"}]
    BY <1>1, <1>5 DEF OperatorIInv, SyncTypes, OperatorTypeOK, OpState
  <2> QED  BY <1>1, <1>2, <1>3, <2>1 DEF OperatorIInv, SyncTypes, OperatorTypeOK
<1>7. ListsDated'  BY <1>1, <1>3 DEF OperatorIInv, ListsDated, Dated, Follows
<1>8. ListsInOrder'  BY <1>1, <1>2, <1>3 DEF OperatorIInv, ListsInOrder
<1>9. AccountCarried'  BY <1>1, <1>2, <1>3 DEF OperatorIInv, AccountCarried
<1>10. StampsMatch'  BY <1>1, <1>2 DEF OperatorIInv, StampsMatch
<1> QED  BY <1>6, <1>7, <1>8, <1>9, <1>10 DEF OperatorIInv

(* The browsers: the password checked, the stamp read, the session ended. *)
LEMMA DeskTurned ==
  ASSUME OperatorIInv, NEW d \in Desk, VerifyOperator(d) \/ ReadStamp(d) \/ OperatorRequest(d)
  PROVE  OperatorIInv'
<1>1. desk \in [Desk -> Desks] /\ localOp.pw \in OpPassword /\ 0 \in OpPassword
  BY OperatorNumbers DEF OperatorIInv, SyncTypes, OperatorTypeOK
<1>2. StampNow \in OpPassword  BY <1>1 DEF StampNow
<1> DEFINE Mixes == StampNow \notin {0, desk[d].typed}
<1>3. /\ UNCHANGED <<centerOp, push, opWire, opLink, localOp>>
      /\ opPast' \in Pasts /\ opPast'.inverted = opPast.inverted
      /\ opPast.mixed => opPast'.mixed
      /\ ReadStamp(d) /\ Mixes => opPast'.mixed
  <2>1. opPast \in Pasts /\ Mixes \in BOOLEAN  BY DEF OperatorIInv, SyncTypes
  <2>2. UNCHANGED <<centerOp, push, opWire, opLink, localOp>>
    BY DEF VerifyOperator, ReadStamp, OperatorRequest
  <2>3. VerifyOperator(d) \/ OperatorRequest(d) => opPast' = opPast
    BY DEF VerifyOperator, OperatorRequest
  <2>4. ReadStamp(d) => opPast' = [opPast EXCEPT !.mixed = @ \/ Mixes]  BY DEF ReadStamp
  <2>5. ~(VerifyOperator(d) /\ ReadStamp(d)) /\ ~(OperatorRequest(d) /\ ReadStamp(d))
    BY DEF VerifyOperator, ReadStamp, OperatorRequest, DeskAway
  <2> HIDE DEF Mixes
  <2>6. [opPast EXCEPT !.mixed = @ \/ Mixes] \in Pasts
    BY <2>1 DEF Pasts
  <2> QED  BY <2>1, <2>2, <2>3, <2>4, <2>5, <2>6 DEF Pasts
<1>4. desk' \in [Desk -> Desks]
  <2>1. ASSUME NEW x \in Desks, desk' = [desk EXCEPT ![d] = x] PROVE desk' \in [Desk -> Desks]
    BY <1>1, <2>1
  <2>2. /\ DeskAway \in Desks /\ [DeskAway EXCEPT !.at = "verified", !.typed = localOp.pw] \in Desks
        /\ [desk[d] EXCEPT !.at = "session", !.stamp = StampNow] \in Desks
    BY <1>1, <1>2 DEF Desks, DeskAway
  <2>3. \/ desk' = [desk EXCEPT ![d] = DeskAway]
        \/ desk' = [desk EXCEPT ![d] = [DeskAway EXCEPT !.at = "verified", !.typed = localOp.pw]]
        \/ desk' = [desk EXCEPT ![d] = [desk[d] EXCEPT !.at = "session", !.stamp = StampNow]]
    BY DEF VerifyOperator, ReadStamp, OperatorRequest
  <2> QED  BY <2>1, <2>2, <2>3
<1>5. SyncTypes'
  <2>1. \A e \in Desk : desk'[e].typed \in OpPassword  BY <1>4 DEF Desks
  <2> QED  BY <1>3, <1>4, <2>1 DEF OperatorIInv, SyncTypes, OperatorTypeOK
<1>6. ListsDated' /\ ListsInOrder' /\ AccountCarried'
  BY <1>3 DEF OperatorIInv, ListsDated, ListsInOrder, AccountCarried, Dated, Follows
<1>7. StampsMatch'
  <2>1. \A e \in Desk : e # d => desk'[e] = desk[e]
    BY <1>1 DEF VerifyOperator, ReadStamp, OperatorRequest
  <2>2. desk'[d].at = "session" => desk'[d].stamp \in {0, desk'[d].typed} \/ opPast'.mixed
    <3>1. CASE VerifyOperator(d)  BY <1>1, <3>1 DEF VerifyOperator, DeskAway
    <3>2. CASE ReadStamp(d)
      <4>1. desk'[d].typed = desk[d].typed /\ desk'[d].stamp = StampNow
        BY <1>1, <3>2 DEF ReadStamp, Desks
      <4> QED  BY <1>3, <3>2, <4>1
    <3>3. CASE OperatorRequest(d)  BY <1>1, <3>3 DEF OperatorRequest, DeskAway
    <3> QED  BY <3>1, <3>2, <3>3
  <2> QED  BY <1>3, <2>1, <2>2 DEF OperatorIInv, StampsMatch
<1> QED  BY <1>5, <1>6, <1>7 DEF OperatorIInv

LEMMA OperatorStep ==
  ASSUME OperatorIInv, OperatorNext
  PROVE  OperatorIInv'
BY AccountEdited, ListLoaded, ListSent, LinkTurned, ListReceived, RowMadeByHand, DeskTurned
   DEF OperatorNext

LEMMA OperatorStutter ==
  ASSUME OperatorIInv, UNCHANGED operatorVars
  PROVE  OperatorIInv'
BY DEF OperatorIInv, SyncTypes, OperatorTypeOK, ListsDated, ListsInOrder, AccountCarried,
       StampsMatch, Dated, Follows, operatorVars

(* For any number of changes, of lists on the way, breaks and browsers:    *)
(* once every list is read the PC has the account as it is at the center,  *)
(* unless a list overtook a newer one or somebody wrote over it by hand;   *)
(* and a session that lives was opened with the password of now            *)
(* (_push_operators, replace_center_operators, current_operator).          *)
THEOREM OperatorInvariant == OperatorSpec => []OperatorInv
<1>1. OperatorIInv /\ [OperatorNext]_operatorVars => OperatorIInv'
  BY OperatorStep, OperatorStutter
<1> QED  BY <1>1, OperatorStarts, OperatorSound, PTL DEF OperatorSpec

-----------------------------------------------------------------------------
(***************************************************************************)
(* TelegramNotifier: the chat hears of the events in their order, of each  *)
(* once but for a restart.                                                 *)
(***************************************************************************)

(* What is left of a portion is not marked, comes after all the chat has   *)
(* heard, and is the front of what is still to be told.                    *)
PassInOrder ==
  \A j \in pass.left :
    /\ ~alert[j].notified
    /\ \A k \in 1 .. Len(chat) : chat[k] <= j
    /\ \A i \in AlertNo : i < j /\ Untold(alert[i]) => i \in pass.left

(* What is about to be marked has been told. *)
SentWasTold == pass.sent => \E k \in 1 .. Len(chat) : chat[k] = Told

NotifiedAlerts == {i \in AlertNo : alert[i].notified}

(* Every message stands for an event marked, for the one about to be, or   *)
(* for a restart between the two.                                          *)
ToldOnce ==
  /\ chatCrashes \in Nat
  /\ Len(chat) <= Cardinality(NotifiedAlerts) + chatCrashes + (IF pass.sent THEN 1 ELSE 0)

ChatIInv ==
  /\ ChatTypeOK /\ PassInOrder /\ SentWasTold /\ ToldOnce /\ MarkedWasTold
  /\ \A i, j \in 1 .. Len(chat) : i < j => chat[i] <= chat[j]
  /\ \A i \in AlertNo : Untold(alert[i]) => \A j \in 1 .. Len(chat) : chat[j] <= i

AlertRow == [notified : BOOLEAN, late : BOOLEAN]

LEMMA ChatLengths ==
  ASSUME ChatTypeOK
  PROVE  /\ Len(alert) \in Nat /\ DOMAIN alert = AlertNo /\ AlertNo \in SUBSET Nat
         /\ Len(chat) \in Nat /\ \A i \in AlertNo : alert[i] \in AlertRow
         /\ \A j \in 1 .. Len(chat) : chat[j] \in AlertNo
         /\ IsFiniteSet(AlertNo) /\ Cardinality(AlertNo) = Len(alert)
<1>1. /\ Len(alert) \in Nat /\ DOMAIN alert = 1 .. Len(alert)
      /\ \A i \in 1 .. Len(alert) : alert[i] \in AlertRow
  BY LenProperties, ElementOfSeq DEF ChatTypeOK, AlertRow
<1>2. Len(chat) \in Nat /\ \A j \in 1 .. Len(chat) : chat[j] \in AlertNo
  BY LenProperties, ElementOfSeq DEF ChatTypeOK
<1>3. IsFiniteSet(AlertNo) /\ Cardinality(AlertNo) = Len(alert)
  BY <1>1, FS_Interval DEF AlertNo
<1> QED  BY <1>1, <1>2, <1>3 DEF AlertNo

LEMMA ToldIs ==
  ASSUME ChatTypeOK, pass.left # {}
  PROVE  /\ Told \in pass.left /\ Told \in AlertNo
         /\ \A j \in pass.left : Told <= j
<1>1. pass.left \in SUBSET AlertNo  BY DEF ChatTypeOK
<1>2. pass.left \in SUBSET Nat  BY <1>1, ChatLengths
<1> QED  BY <1>1, <1>2, MinIs DEF Told

(* No more events are marked than there are. *)
LEMMA NotifiedCount ==
  ASSUME ChatTypeOK
  PROVE  /\ IsFiniteSet(NotifiedAlerts) /\ Cardinality(NotifiedAlerts) \in Nat
         /\ Cardinality(NotifiedAlerts) <= Len(alert)
<1>1. NotifiedAlerts \subseteq AlertNo  BY DEF NotifiedAlerts
<1> QED  BY <1>1, ChatLengths, FS_Subset, FS_CardinalityType

(* One more, when one that was not is marked. *)
LEMMA NotifiedMore ==
  ASSUME ChatTypeOK, NEW c \in AlertNo, ~alert[c].notified
  PROVE  /\ Cardinality(NotifiedAlerts \cup {c}) = Cardinality(NotifiedAlerts) + 1
         /\ Cardinality(NotifiedAlerts) + 1 <= Len(alert)
<1>1. c \notin NotifiedAlerts  BY DEF NotifiedAlerts
<1>2. NotifiedAlerts \cup {c} \subseteq AlertNo  BY DEF NotifiedAlerts
<1>3. Cardinality(NotifiedAlerts \cup {c}) = Cardinality(NotifiedAlerts) + 1
  BY <1>1, NotifiedCount, FS_AddElement
<1>4. IsFiniteSet(AlertNo) /\ Cardinality(AlertNo) = Len(alert)  BY ChatLengths
<1>5. Cardinality(NotifiedAlerts \cup {c}) <= Cardinality(AlertNo)  BY <1>2, <1>4, FS_Subset
<1> QED  BY <1>3, <1>4, <1>5

LEMMA ChatIsPromised == ASSUME ChatIInv PROVE ChatInv
<1>1. Len(chat) <= Len(alert) + chatCrashes
  <2>0. ChatTypeOK  BY DEF ChatIInv
  <2>1. CASE pass.sent
    <3>1. Told \in AlertNo /\ ~alert[Told].notified
      BY <2>0, <2>1, ToldIs DEF ChatIInv, PassInOrder, ChatTypeOK
    <3>2. Cardinality(NotifiedAlerts) + 1 <= Len(alert)  BY <2>0, <3>1, NotifiedMore
    <3> QED  BY <2>0, <2>1, <3>2, NotifiedCount, ChatLengths DEF ChatIInv, ToldOnce
  <2>2. CASE ~pass.sent
    BY <2>0, <2>2, NotifiedCount, ChatLengths DEF ChatIInv, ToldOnce
  <2> QED  BY <2>1, <2>2
<1> QED  BY <1>1 DEF ChatIInv, ChatInv, ChatInOrder

LEMMA ChatStarts == ASSUME ChatInit PROVE ChatIInv
<1>1. alert = <<>> /\ chat = <<>> /\ pass = NoPass /\ chatCrashes = 0  BY DEF ChatInit
<1>2. <<>> \in Seq(AlertRow) /\ <<>> \in Seq({}) /\ Len(<<>>) = 0  BY EmptySeq
<1>3. AlertNo = {}  BY <1>1, <1>2 DEF AlertNo
<1>4. NotifiedAlerts = {}  BY <1>3 DEF NotifiedAlerts
<1>5. Cardinality(NotifiedAlerts) = 0  BY <1>4, FS_EmptySet
<1>6. ToldOnce  BY <1>1, <1>2, <1>5 DEF ToldOnce, NoPass
<1>7. ChatTypeOK  BY <1>1, <1>2, <1>3 DEF ChatTypeOK, NoPass, AlertRow
<1> QED  BY <1>1, <1>2, <1>3, <1>6, <1>7
         DEF ChatIInv, PassInOrder, SentWasTold, MarkedWasTold, NoPass

(* An event more, at the end of the table. *)
LEMMA AlertAdded == ASSUME ChatIInv, AlertWritten PROVE ChatIInv'
<1> DEFINE r == [notified |-> FALSE, late |-> FALSE]
<1>0. ChatTypeOK /\ UNCHANGED <<pass, chat, chatCrashes>>  BY DEF ChatIInv, AlertWritten
<1>1. alert \in Seq(AlertRow) /\ r \in AlertRow /\ r.notified = FALSE
  BY <1>0 DEF ChatTypeOK, AlertRow
<1>2. alert' = Append(alert, r)  BY DEF AlertWritten
<1> HIDE DEF r
<1>3. /\ alert' \in Seq(AlertRow) /\ Len(alert') = Len(alert) + 1 /\ alert'[Len(alert) + 1] = r
      /\ \A i \in 1 .. Len(alert) : alert'[i] = alert[i]
  BY <1>1, <1>2, AppendProperties
<1>4. Len(alert) \in Nat  BY <1>0, ChatLengths
<1>5. AlertNo' = AlertNo \cup {Len(alert) + 1} /\ Len(alert) + 1 \notin AlertNo
      /\ \A i \in AlertNo : i < Len(alert) + 1
  BY <1>3, <1>4 DEF AlertNo
<1>6. \A i \in AlertNo : alert'[i] = alert[i]  BY <1>3 DEF AlertNo
<1>7. ChatTypeOK'
  <2>1. pass \in [left : SUBSET AlertNo, sent : BOOLEAN] /\ chat \in Seq(AlertNo)
    BY <1>0 DEF ChatTypeOK
  <2>2. chat \in Seq(AlertNo')
    <3>1. \A j \in 1 .. Len(chat) : chat[j] \in AlertNo'  BY <1>0, <1>5, ChatLengths
    <3> QED  BY <1>0, <2>1, <3>1, ChatLengths, LenProperties, IsASeq
  <2>3. pass \in [left : SUBSET AlertNo', sent : BOOLEAN]  BY <1>5, <2>1
  <2> QED  BY <1>0, <1>3, <2>2, <2>3 DEF ChatTypeOK, AlertRow
<1>8. NotifiedAlerts' = NotifiedAlerts  BY <1>1, <1>3, <1>5, <1>6 DEF NotifiedAlerts
<1>9. ToldOnce'  BY <1>0, <1>8 DEF ChatIInv, ToldOnce
<1>10. MarkedWasTold'  BY <1>0, <1>1, <1>3, <1>5, <1>6 DEF ChatIInv, MarkedWasTold
<1>11. SentWasTold'  BY <1>0 DEF ChatIInv, SentWasTold, Told
<1>12. \A j \in pass.left : j \in AlertNo /\ j \in Nat /\ ~(Len(alert) + 1 < j)
  BY <1>0, <1>4, ChatLengths DEF ChatTypeOK, AlertNo
<1>13. PassInOrder'  BY <1>0, <1>5, <1>6, <1>12 DEF ChatIInv, PassInOrder
<1>14. \A j \in 1 .. Len(chat) : chat[j] <= Len(alert) + 1
  BY <1>0, <1>4, ChatLengths DEF AlertNo
<1>15. \A i \in AlertNo' : Untold(alert'[i]) => \A j \in 1 .. Len(chat) : chat[j] <= i
  BY <1>5, <1>6, <1>14 DEF ChatIInv
<1> QED  BY <1>0, <1>7, <1>9, <1>10, <1>11, <1>13, <1>15 DEF ChatIInv

LEMMA PassTaken == ASSUME ChatIInv, PassBegins PROVE ChatIInv'
<1>0. ChatTypeOK /\ UNCHANGED <<alert, chat, chatCrashes>> /\ ~pass.sent
  BY DEF ChatIInv, PassBegins, NoPass
<1>1. pass' = [left |-> OldestUntold, sent |-> FALSE]  BY DEF PassBegins, NoPass
<1>2. OldestUntold \subseteq UntoldAlerts /\ UntoldAlerts \subseteq AlertNo
  BY DEF OldestUntold, UntoldAlerts
<1>3. AlertNo' = AlertNo  BY <1>0 DEF AlertNo
<1>4. ChatTypeOK'
  <2>1. pass' \in [left : SUBSET AlertNo, sent : BOOLEAN]  BY <1>1, <1>2
  <2> QED  BY <1>0, <1>1, <1>3, <2>1 DEF ChatTypeOK
<1>5. PassInOrder'
  <2> SUFFICES ASSUME NEW j \in OldestUntold
               PROVE  /\ ~alert[j].notified
                      /\ \A k \in 1 .. Len(chat) : chat[k] <= j
                      /\ \A i \in AlertNo : i < j /\ Untold(alert[i]) => i \in OldestUntold
    BY <1>0, <1>1, <1>3 DEF PassInOrder
  <2>1. j \in AlertNo /\ Untold(alert[j])  BY DEF OldestUntold, UntoldAlerts
  <2>2. ASSUME NEW i \in AlertNo, i < j, Untold(alert[i]) PROVE i \in OldestUntold
    <3>1. i \in UntoldAlerts /\ j \in UntoldAlerts
          /\ Cardinality({k \in UntoldAlerts : k < j}) < ChatBatch
      BY <2>2 DEF OldestUntold, UntoldAlerts
    <3>2. UntoldAlerts \in SUBSET Nat /\ IsFiniteSet(UntoldAlerts)
      BY <1>0, <1>2, ChatLengths, FS_Subset
    <3> QED  BY <2>2, <3>1, <3>2, FrontOf, ChatBounds DEF OldestUntold
  <2> QED  BY <2>1, <2>2 DEF ChatIInv, Untold
<1>6. SentWasTold'  BY <1>1 DEF SentWasTold
<1>7. ToldOnce'  BY <1>0, <1>1, <1>3 DEF ChatIInv, ToldOnce, NotifiedAlerts
<1> QED  BY <1>0, <1>3, <1>4, <1>5, <1>6, <1>7 DEF ChatIInv, MarkedWasTold

(* The oldest of the portion told. *)
LEMMA AlertTold ==
  ASSUME ChatIInv, pass.left # {}, ~pass.sent, chat' = Append(chat, Told),
         pass' = [pass EXCEPT !.sent = TRUE], UNCHANGED <<alert, chatCrashes>>
  PROVE  ChatIInv'
<1> DEFINE c == Told
           n == Len(chat) + 1
<1>0. ChatTypeOK /\ Len(chat) \in Nat /\ AlertNo' = AlertNo /\ AlertNo \in SUBSET Nat
  BY ChatLengths DEF ChatIInv, AlertNo
<1>1. c \in pass.left /\ c \in AlertNo /\ \A j \in pass.left : c <= j  BY <1>0, ToldIs
<1>2. chat' = Append(chat, c) /\ pass'.left = pass.left /\ pass'.sent = TRUE
      /\ pass' \in [left : SUBSET AlertNo, sent : BOOLEAN]
  BY <1>0 DEF ChatTypeOK
<1>3. Told' = c  BY <1>2 DEF Told
<1> HIDE DEF c
<1>4. /\ chat' \in Seq(AlertNo) /\ Len(chat') = n /\ chat'[n] = c
      /\ \A i \in 1 .. Len(chat) : chat'[i] = chat[i]
  BY <1>0, <1>1, <1>2, AppendProperties DEF ChatTypeOK
<1>5. 1 .. Len(chat') = 1 .. Len(chat) \cup {n} /\ n \notin 1 .. Len(chat)
      /\ \A i \in 1 .. Len(chat) : i < n /\ ~(n < i)
  BY <1>0, <1>4
<1>6. \A i \in 1 .. Len(chat) : chat[i] <= c  BY <1>1 DEF ChatIInv, PassInOrder
<1>7. ChatTypeOK'  BY <1>0, <1>1, <1>2, <1>4 DEF ChatTypeOK
<1>8. \A j \in pass.left : \A k \in 1 .. Len(chat') : chat'[k] <= j
  BY <1>1, <1>4, <1>5 DEF ChatIInv, PassInOrder
<1>9. PassInOrder'  BY <1>0, <1>2, <1>8 DEF ChatIInv, PassInOrder
<1>10. SentWasTold'  BY <1>3, <1>4, <1>5 DEF SentWasTold
<1>11. ToldOnce'
  <2>1. NotifiedAlerts' = NotifiedAlerts  BY <1>0 DEF NotifiedAlerts
  <2>2. Cardinality(NotifiedAlerts) \in Nat  BY <1>0, NotifiedCount
  <2> QED  BY <1>0, <1>2, <1>4, <2>1, <2>2 DEF ChatIInv, ToldOnce
<1>12. MarkedWasTold'  BY <1>0, <1>4, <1>5 DEF ChatIInv, MarkedWasTold
<1>13. \A i, j \in 1 .. Len(chat') : i < j => chat'[i] <= chat'[j]
  <2> SUFFICES ASSUME NEW i \in 1 .. Len(chat'), NEW j \in 1 .. Len(chat'), i < j
               PROVE  chat'[i] <= chat'[j]
    OBVIOUS
  <2>1. i \in 1 .. Len(chat)  BY <1>5, <1>0, <1>4
  <2>2. CASE j = n  BY <1>4, <1>6, <2>1, <2>2
  <2>3. CASE j # n  BY <1>4, <1>5, <2>1, <2>3 DEF ChatIInv
  <2> QED  BY <2>2, <2>3
<1>14. \A i \in AlertNo : Untold(alert[i]) => \A j \in 1 .. Len(chat') : chat'[j] <= i
  <2> SUFFICES ASSUME NEW i \in AlertNo, Untold(alert[i]), NEW j \in 1 .. Len(chat')
               PROVE  chat'[j] <= i
    OBVIOUS
  <2>1. CASE j # n  BY <1>4, <1>5, <2>1 DEF ChatIInv
  <2>2. CASE j = n /\ i \in pass.left  BY <1>1, <1>4, <2>2
  <2>3. CASE j = n /\ i \notin pass.left
    <3>1. ~(i < c)  BY <1>1, <2>3 DEF ChatIInv, PassInOrder
    <3>2. c \in Nat /\ i \in Nat  BY <1>0, <1>1
    <3> QED  BY <1>4, <2>3, <3>1, <3>2
  <2> QED  BY <2>1, <2>2, <2>3
<1> QED  BY <1>0, <1>7, <1>9, <1>10, <1>11, <1>12, <1>13, <1>14 DEF ChatIInv

LEMMA AlertMarked == ASSUME ChatIInv, MarkNotified PROVE ChatIInv'
<1> DEFINE c == Told
<1>0. ChatTypeOK /\ UNCHANGED <<chat, chatCrashes>> /\ pass.sent /\ pass.left # {}
  BY DEF ChatIInv, MarkNotified, ChatTypeOK
<1>1. c \in pass.left /\ c \in AlertNo /\ \A j \in pass.left : c <= j  BY <1>0, ToldIs
<1>2. alert' = [alert EXCEPT ![c].notified = TRUE]
      /\ pass' = [left |-> pass.left \ {c}, sent |-> FALSE]
  BY DEF MarkNotified
<1>3. ~alert[c].notified  BY <1>1 DEF ChatIInv, PassInOrder
<1>4. \E k \in 1 .. Len(chat) : chat[k] = c  BY <1>0 DEF ChatIInv, SentWasTold
<1> HIDE DEF c
<1>5. /\ alert' \in Seq(AlertRow) /\ Len(alert') = Len(alert)
      /\ \A i \in AlertNo : alert'[i] = IF i = c THEN [alert[c] EXCEPT !.notified = TRUE] ELSE alert[i]
  <2> DEFINE x == [alert[c] EXCEPT !.notified = TRUE]
  <2>1. alert[c] \in AlertRow  BY <1>0, <1>1, ChatLengths
  <2>2. x \in AlertRow  BY <2>1 DEF AlertRow
  <2>3. alert' = [alert EXCEPT ![c] = x]  BY <1>2
  <2> HIDE DEF x
  <2>4. /\ alert' \in Seq(AlertRow) /\ Len(alert') = Len(alert)
        /\ \A i \in 1 .. Len(alert) : alert'[i] = IF i = c THEN x ELSE alert[i]
    BY <1>0, <1>1, <2>2, <2>3, ExceptSeq DEF ChatTypeOK, AlertRow, AlertNo
  <2> QED  BY <2>4 DEF x, AlertNo
<1>6. AlertNo' = AlertNo  BY <1>5 DEF AlertNo
<1>7. \A i \in AlertNo : /\ alert[i] \in AlertRow /\ alert'[i].late = alert[i].late
                         /\ i # c => alert'[i] = alert[i]
  BY <1>0, <1>5, ChatLengths DEF AlertRow
<1>8. alert'[c].notified = TRUE  BY <1>1, <1>5, <1>7 DEF AlertRow
<1>9. ChatTypeOK'
  <2>1. pass' \in [left : SUBSET AlertNo, sent : BOOLEAN]  BY <1>0, <1>2 DEF ChatTypeOK
  <2> QED  BY <1>0, <1>2, <1>5, <1>6, <2>1 DEF ChatTypeOK, AlertRow
<1>10. \A i \in AlertNo : Untold(alert'[i]) => Untold(alert[i])
  BY <1>7, <1>8 DEF Untold
<1>11. \A i \in AlertNo : i # c => alert'[i].notified = alert[i].notified  BY <1>7
<1>12. PassInOrder'
  <2>1. \A i \in AlertNo : Untold(alert'[i]) => i # c  BY <1>8 DEF Untold
  <2>2. \A j \in pass.left : j \in AlertNo  BY <1>0 DEF ChatTypeOK
  <2> QED  BY <1>0, <1>2, <1>6, <1>10, <1>11, <2>1, <2>2 DEF ChatIInv, PassInOrder
<1>13. SentWasTold'  BY <1>2 DEF SentWasTold
<1>14. ToldOnce'
  <2>1. NotifiedAlerts' = NotifiedAlerts \cup {c}
    BY <1>1, <1>6, <1>8, <1>11 DEF NotifiedAlerts
  <2>2. Cardinality(NotifiedAlerts') = Cardinality(NotifiedAlerts) + 1
    BY <1>0, <1>1, <1>3, <2>1, NotifiedMore
  <2>3. Cardinality(NotifiedAlerts) \in Nat  BY <1>0, NotifiedCount
  <2> QED  BY <1>0, <1>2, <2>2, <2>3 DEF ChatIInv, ToldOnce
<1>15. MarkedWasTold'  BY <1>0, <1>4, <1>6, <1>11 DEF ChatIInv, MarkedWasTold
<1>16. \A i \in AlertNo : Untold(alert'[i]) => \A j \in 1 .. Len(chat) : chat[j] <= i
  BY <1>10 DEF ChatIInv
<1> QED  BY <1>0, <1>6, <1>9, <1>12, <1>13, <1>14, <1>15, <1>16 DEF ChatIInv

LEMMA WindowGone == ASSUME ChatIInv, WindowPasses PROVE ChatIInv'
<1>0. ChatTypeOK /\ UNCHANGED <<pass, chat, chatCrashes>>  BY DEF ChatIInv, WindowPasses
<1>1. PICK n \in AlertNo :
        alert' = [j \in AlertNo |-> IF j <= n THEN [alert[j] EXCEPT !.late = TRUE] ELSE alert[j]]
  BY DEF WindowPasses
<1>2. \A i \in AlertNo : alert[i] \in AlertRow  BY <1>0, ChatLengths
<1>3. \A i \in AlertNo : /\ alert'[i] \in AlertRow /\ alert'[i].notified = alert[i].notified
                         /\ Untold(alert'[i]) => Untold(alert[i])
  BY <1>1, <1>2 DEF AlertRow, Untold
<1>4. alert' \in Seq(AlertRow) /\ Len(alert') = Len(alert)
  <2>1. Len(alert) \in Nat /\ AlertNo = 1 .. Len(alert)  BY <1>0, ChatLengths DEF AlertNo
  <2>2. alert' \in [1 .. Len(alert) -> AlertRow]  BY <1>1, <1>3, <2>1
  <2>3. alert' \in Seq(AlertRow)  BY <2>1, <2>2, IsASeq
  <2> QED  BY <2>1, <2>2, <2>3, LenProperties
<1>5. AlertNo' = AlertNo  BY <1>4 DEF AlertNo
<1>6. ChatTypeOK'  BY <1>0, <1>4, <1>5 DEF ChatTypeOK, AlertRow
<1>7. \A j \in pass.left : j \in AlertNo  BY <1>0 DEF ChatTypeOK
<1>8. PassInOrder'  BY <1>0, <1>3, <1>5, <1>7 DEF ChatIInv, PassInOrder
<1>9. SentWasTold'  BY <1>0 DEF ChatIInv, SentWasTold, Told
<1>10. NotifiedAlerts' = NotifiedAlerts  BY <1>3, <1>5 DEF NotifiedAlerts
<1>11. ToldOnce'  BY <1>0, <1>10 DEF ChatIInv, ToldOnce
<1>12. MarkedWasTold'  BY <1>0, <1>3, <1>5 DEF ChatIInv, MarkedWasTold
<1> QED  BY <1>0, <1>3, <1>5, <1>6, <1>8, <1>9, <1>11, <1>12 DEF ChatIInv

(* The pass is let go. *)
LEMMA PassEnds ==
  ASSUME ChatIInv, pass' = NoPass, UNCHANGED <<alert, chat>>,
         \/ ~pass.sent /\ chatCrashes' = chatCrashes
         \/ chatCrashes' = chatCrashes + 1
  PROVE  ChatIInv'
<1>0. ChatTypeOK /\ AlertNo' = AlertNo  BY DEF ChatIInv, AlertNo
<1>1. pass' = [left |-> {}, sent |-> FALSE]  BY DEF NoPass
<1>2. ChatTypeOK'  BY <1>0, <1>1 DEF ChatTypeOK
<1>3. PassInOrder' /\ SentWasTold'  BY <1>1 DEF PassInOrder, SentWasTold
<1>4. ToldOnce'
  <2>1. NotifiedAlerts' = NotifiedAlerts  BY <1>0 DEF NotifiedAlerts
  <2>2. Cardinality(NotifiedAlerts) \in Nat  BY <1>0, NotifiedCount
  <2>3. Len(chat) \in Nat  BY <1>0, ChatLengths
  <2> QED  BY <1>1, <2>1, <2>2, <2>3 DEF ChatIInv, ToldOnce
<1> QED  BY <1>0, <1>2, <1>3, <1>4 DEF ChatIInv, MarkedWasTold

LEMMA ChatStutter == ASSUME ChatIInv, UNCHANGED chatVars PROVE ChatIInv'
BY DEF ChatIInv, chatVars, ChatTypeOK, PassInOrder, SentWasTold, ToldOnce, MarkedWasTold, AlertNo,
       Told, NotifiedAlerts

LEMMA ChatStep == ASSUME ChatIInv, ChatNext PROVE ChatIInv'
<1>1. CASE SendAlert
  <2>1. pass.left # {} /\ ~pass.sent /\ UNCHANGED <<alert, chatCrashes>>  BY <1>1 DEF SendAlert
  <2>2. CASE chat' = Append(chat, Told) /\ pass' = [pass EXCEPT !.sent = TRUE]
    BY <2>1, <2>2, AlertTold
  <2>3. CASE pass' = AfterRefusal /\ UNCHANGED chat
    BY <2>1, <2>3, PassEnds DEF AfterRefusal
  <2> QED  BY <1>1, <2>2, <2>3 DEF SendAlert
<1>2. CASE NotifierRestarts  BY <1>2, PassEnds DEF NotifierRestarts
<1> QED  BY <1>1, <1>2, AlertAdded, PassTaken, AlertMarked, WindowGone DEF ChatNext

(* For any number of events, any portion, any refusals of Telegram and any *)
(* restarts between a message and its mark: the chat hears of the events   *)
(* in the order they were written, none goes before an older one that is   *)
(* still to be told, and there are no more messages than events and        *)
(* restarts; what is marked was told (TelegramNotifier.deliver_once).      *)
THEOREM ChatInvariant == ChatSpec => []ChatInv
<1>1. ChatInit => ChatIInv  BY ChatStarts
<1>2. ChatIInv /\ [ChatNext]_chatVars => ChatIInv'  BY ChatStep, ChatStutter
<1>3. ChatIInv => ChatInv  BY ChatIsPromised
<1> QED  BY <1>1, <1>2, <1>3, PTL DEF ChatSpec

-----------------------------------------------------------------------------
(***************************************************************************)
(* Monitoring: links, rows and alerts agree.                               *)
(***************************************************************************)

Camera        == {"none", "ok", "bad", "absent"}
Severity      == {"none", "ok", "problem", "repeated"}
DetectorState == [age : Nat, on : BOOLEAN, active : BOOLEAN]
MishapState   == [count : Nat, reports : Nat, lost : BOOLEAN, orphans : SUBSET LinkNo,
                  late : BOOLEAN, camera : Camera]

(* The shapes, whole: MonitorTypeOK with what the prover needs of records. *)
MonitorShapes ==
  /\ handler \in [LinkNo -> {"new", "attached", "serving", "ended"}]
  /\ hubLink \in {0} \cup LinkNo /\ equipment \in Camera
  /\ agentRow \in [online : BOOLEAN, age : 0 .. StaleAfter + 1]
  /\ aisQueue \in BOOLEAN
  /\ detector \in [Problem -> DetectorState]
  /\ tick \in [at : {"rest", "check"}, online : BOOLEAN]
  /\ event \in [Problem -> Severity]
  /\ mishap \in MishapState

DetectorsSane ==
  \A k \in Problem : detector[k].age <= Delay[k] /\ (detector[k].active => detector[k].on)

(* What the center knows of the camera is what a report said last. *)
EquipmentHeard == equipment \in {"none", mishap.camera}

MonitorIInv ==
  /\ MonitorShapes /\ DetectorsSane
  /\ AlertsMatchEvents /\ LinkHasHandler /\ EquipmentOfLink /\ EquipmentHeard

LEMMA MonitorIsPromised == ASSUME MonitorIInv PROVE MonitorInv
BY DEF MonitorIInv, MonitorInv, MonitorTypeOK, MonitorShapes, DetectorsSane

LEMMA Delays == Problem = {"offline", "camera", "ais_events"} /\ \A k \in Problem : Delay[k] \in Nat
BY DelayAssumption DEF Problem

LEMMA Limits == StaleAfter \in Nat /\ MaxLinks \in Nat /\ 0 \notin LinkNo /\ LinkNo \subseteq Nat
BY MonitorBounds DEF LinkNo

LEMMA MonitorStarts == ASSUME MonitorInit PROVE MonitorIInv
<1>1. MonitorShapes
  <2>1. agentRow \in [online : BOOLEAN, age : 0 .. StaleAfter + 1]  BY Limits DEF MonitorInit
  <2>2. detector \in [Problem -> DetectorState]  BY DEF MonitorInit, Calm, DetectorState
  <2>3. /\ handler \in [LinkNo -> {"new", "attached", "serving", "ended"}]
        /\ hubLink \in {0} \cup LinkNo /\ equipment \in Camera /\ aisQueue \in BOOLEAN
        /\ event \in [Problem -> Severity]
    BY DEF MonitorInit, Camera, Severity
  <2>4. tick \in [at : {"rest", "check"}, online : BOOLEAN]  BY DEF MonitorInit, NoTick
  <2>5. mishap \in MishapState
    <3>1. "none" \in Camera /\ {} \in SUBSET LinkNo  BY DEF Camera
    <3> QED  BY <3>1 DEF MonitorInit, MishapState
  <2> QED  BY <2>1, <2>2, <2>3, <2>4, <2>5 DEF MonitorShapes
<1>2. DetectorsSane  BY Delays DEF MonitorInit, DetectorsSane, Calm
<1>3. AlertsMatchEvents  BY DEF MonitorInit, AlertsMatchEvents, Calm
<1>4. LinkHasHandler /\ EquipmentOfLink /\ EquipmentHeard
  BY DEF MonitorInit, LinkHasHandler, EquipmentOfLink, EquipmentHeard
<1> QED  BY <1>1, <1>2, <1>3, <1>4 DEF MonitorIInv

(* One detector, one pass: its memory stays sane, and it is an alert if    *)
(* and only if a problem was the last event told.                          *)
LEMMA TransitionSane ==
  ASSUME MonitorShapes, DetectorsSane, NEW k \in Problem, NEW bad \in BOOLEAN
  PROVE  /\ Transition(k, bad).state \in DetectorState
         /\ Transition(k, bad).state.age <= Delay[k]
         /\ Transition(k, bad).state.active => Transition(k, bad).state.on
         /\ Transition(k, bad).told \in Severity
<1>1. detector[k] \in DetectorState /\ event[k] \in Severity /\ Delay[k] \in Nat
  BY Delays DEF MonitorShapes
<1>2. detector[k].age <= Delay[k] /\ (detector[k].active => detector[k].on)  BY DEF DetectorsSane
<1> DEFINE cur == IF detector[k].on THEN detector[k] ELSE [Calm EXCEPT !.on = TRUE]
           up  == [cur EXCEPT !.active = TRUE]
<1>3. cur \in DetectorState /\ cur.age <= Delay[k] /\ cur.on = TRUE
  <2>1. CASE detector[k].on  BY <1>1, <1>2, <2>1 DEF DetectorState
  <2>2. CASE ~detector[k].on
    <3>1. cur = [age |-> 0, on |-> TRUE, active |-> FALSE]  BY <2>2 DEF Calm
    <3> HIDE DEF cur
    <3>2. cur \in DetectorState /\ cur.age = 0 /\ cur.on = TRUE  BY <3>1 DEF DetectorState
    <3> QED  BY <1>1, <3>2
  <2> QED  BY <2>1, <2>2
<1>4. up \in DetectorState /\ up.age = cur.age /\ up.on = TRUE /\ up.active = TRUE
  BY <1>3 DEF DetectorState
<1>5. Calm \in DetectorState /\ Calm.age <= Delay[k] /\ ~Calm.active  BY <1>1 DEF Calm, DetectorState
<1>6. Written(k, "ok") \in Severity /\ Written(k, "problem") \in Severity
  BY DEF Written, Severity
<1>7. Transition(k, bad) =
        IF ~bad THEN [state |-> Calm, told |-> IF detector[k].active THEN Written(k, "ok") ELSE event[k]]
        ELSE IF ~cur.active /\ cur.age >= Delay[k]
        THEN [state |-> up, told |-> Written(k, "problem")]
        ELSE [state |-> cur, told |-> event[k]]
  BY DEF Transition
<1> HIDE DEF cur, up
<1>8. CASE ~bad  BY <1>1, <1>5, <1>6, <1>7, <1>8
<1>9. CASE bad /\ ~cur.active /\ cur.age >= Delay[k]  BY <1>3, <1>4, <1>6, <1>7, <1>9
<1>10. CASE bad /\ ~(~cur.active /\ cur.age >= Delay[k])  BY <1>1, <1>3, <1>7, <1>10
<1> QED  BY <1>8, <1>9, <1>10

LEMMA TransitionTold ==
  ASSUME MonitorShapes, DetectorsSane, NEW k \in Problem, NEW bad \in BOOLEAN,
         event[k] # "repeated", detector[k].active <=> event[k] = "problem"
  PROVE  /\ Transition(k, bad).told # "repeated"
         /\ Transition(k, bad).state.active <=> Transition(k, bad).told = "problem"
<1>1. detector[k] \in DetectorState  BY DEF MonitorShapes
<1>2. detector[k].active => detector[k].on  BY DEF DetectorsSane
<1> DEFINE cur == IF detector[k].on THEN detector[k] ELSE [Calm EXCEPT !.on = TRUE]
           up  == [cur EXCEPT !.active = TRUE]
<1>3. cur \in DetectorState /\ (cur.active <=> detector[k].active)
  BY <1>1, <1>2 DEF Calm, DetectorState
<1>4. up.active = TRUE  BY <1>3 DEF DetectorState
<1>5. ~Calm.active  BY DEF Calm
<1>6. ~detector[k].active => Written(k, "problem") = "problem"  BY DEF Written
<1>7. detector[k].active => Written(k, "ok") = "ok"  BY DEF Written
<1>8. Transition(k, bad) =
        IF ~bad THEN [state |-> Calm, told |-> IF detector[k].active THEN Written(k, "ok") ELSE event[k]]
        ELSE IF ~cur.active /\ cur.age >= Delay[k]
        THEN [state |-> up, told |-> Written(k, "problem")]
        ELSE [state |-> cur, told |-> event[k]]
  BY DEF Transition
<1> HIDE DEF cur, up
<1> QED  BY <1>3, <1>4, <1>5, <1>6, <1>7, <1>8

(* A pass leaves each detector as it was, or turns it by _transition. *)
LEMMA CheckedIs ==
  ASSUME MonitorShapes, NEW k \in Problem
  PROVE  Checked[k] = Frozen(k) \/ \E bad \in BOOLEAN : Checked[k] = Transition(k, bad)
<1>1. CASE k = "offline"
  <2>1. Checked[k] = Transition(k, ~tick.online)  BY <1>1 DEF Checked
  <2> QED  BY <2>1
<1>2. CASE k = "camera"
  <2>1. Checked[k] = CameraChecked  BY <1>2 DEF Checked
  <2>2. CameraChecked = Frozen(k) \/ CameraChecked = Transition(k, equipment = "bad")
    BY <1>2 DEF CameraChecked
  <2>3. (equipment = "bad") \in BOOLEAN  OBVIOUS
  <2> QED  BY <2>1, <2>2, <2>3
<1>3. CASE k = "ais_events"
  <2>1. Checked[k] = Transition(k, aisQueue)  BY <1>3 DEF Checked
  <2> QED  BY <2>1 DEF MonitorShapes
<1> QED  BY <1>1, <1>2, <1>3, Delays

LEMMA CheckedSane ==
  ASSUME MonitorShapes, DetectorsSane, NEW k \in Problem
  PROVE  /\ Checked[k].state \in DetectorState
         /\ Checked[k].state.age <= Delay[k]
         /\ Checked[k].state.active => Checked[k].state.on
         /\ Checked[k].told \in Severity
<1>1. CASE Checked[k] = Frozen(k)
  BY <1>1 DEF Frozen, MonitorShapes, DetectorsSane
<1>2. ASSUME NEW bad \in BOOLEAN, Checked[k] = Transition(k, bad)
      PROVE  /\ Checked[k].state \in DetectorState
             /\ Checked[k].state.age <= Delay[k]
             /\ Checked[k].state.active => Checked[k].state.on
             /\ Checked[k].told \in Severity
  BY <1>2, TransitionSane
<1> QED  BY <1>1, <1>2, CheckedIs

LEMMA CheckedTold ==
  ASSUME MonitorShapes, DetectorsSane, NEW k \in Problem,
         event[k] # "repeated", detector[k].active <=> event[k] = "problem"
  PROVE  /\ Checked[k].told # "repeated"
         /\ Checked[k].state.active <=> Checked[k].told = "problem"
<1>1. CASE Checked[k] = Frozen(k)  BY <1>1 DEF Frozen
<1>2. ASSUME NEW bad \in BOOLEAN, Checked[k] = Transition(k, bad)
      PROVE  /\ Checked[k].told # "repeated"
             /\ Checked[k].state.active <=> Checked[k].told = "problem"
  BY <1>2, TransitionTold
<1> QED  BY <1>1, <1>2, CheckedIs

(* A pass of the detectors, its events written or lost with the commit. *)
LEMMA PassChecked == ASSUME MonitorIInv, TickChecks PROVE MonitorIInv'
<1>0. MonitorShapes /\ DetectorsSane /\ UNCHANGED <<handler, hubLink, equipment, agentRow, aisQueue>>
  BY DEF MonitorIInv, TickChecks
<1>1. tick' = NoTick /\ detector' = [k \in Problem |-> Checked[k].state]  BY DEF TickChecks
<1> DEFINE told == [k \in Problem |-> Checked[k].told]
<1>3. \/ event' = told /\ mishap' = mishap
      \/ mishap' = [mishap EXCEPT !.count = @ + 1, !.lost = TRUE] /\ event' = event
  BY DEF TickChecks
<1>4. \A k \in Problem : detector'[k] = Checked[k].state /\ told[k] = Checked[k].told  BY <1>1
<1>5. detector' \in [Problem -> DetectorState] /\ DetectorsSane'
  <2>1. \A k \in Problem : Checked[k].state \in DetectorState  BY <1>0, CheckedSane
  <2>2. \A k \in Problem : /\ Checked[k].state.age <= Delay[k]
                           /\ Checked[k].state.active => Checked[k].state.on
    BY <1>0, CheckedSane
  <2> QED  BY <1>1, <1>4, <2>1, <2>2 DEF DetectorsSane
<1>6. told \in [Problem -> Severity]  BY <1>0, CheckedSane
<1> HIDE DEF told
<1>7. /\ mishap' \in MishapState
      /\ mishap'.orphans = mishap.orphans /\ mishap'.late = mishap.late
      /\ mishap'.camera = mishap.camera
      /\ (event' = told /\ mishap' = mishap) \/ mishap'.lost = TRUE
  <2>1. mishap \in MishapState /\ mishap.count + 1 \in Nat  BY <1>0 DEF MonitorShapes, MishapState
  <2> QED  BY <1>3, <2>1 DEF MishapState
<1>8. MonitorShapes'
  <2>1. tick' \in [at : {"rest", "check"}, online : BOOLEAN]  BY <1>1 DEF NoTick
  <2>2. event' \in [Problem -> Severity]  BY <1>0, <1>3, <1>6 DEF MonitorShapes
  <2> QED  BY <1>0, <1>5, <1>7, <2>1, <2>2 DEF MonitorShapes
<1>9. AlertsMatchEvents'
  <2>1. CASE event' = told /\ mishap' = mishap
    <3> SUFFICES ASSUME ~mishap.lost, NEW k \in Problem
                 PROVE  event'[k] # "repeated" /\ (detector'[k].active <=> event'[k] = "problem")
      BY <2>1 DEF AlertsMatchEvents
    <3>1. event[k] # "repeated" /\ (detector[k].active <=> event[k] = "problem")
      BY DEF MonitorIInv, AlertsMatchEvents
    <3>2. /\ Checked[k].told # "repeated"
          /\ Checked[k].state.active <=> Checked[k].told = "problem"
      BY <1>0, <3>1, CheckedTold
    <3> QED  BY <1>4, <2>1, <3>2
  <2>2. CASE mishap'.lost = TRUE  BY <2>2 DEF AlertsMatchEvents
  <2> QED  BY <1>7, <2>1, <2>2
<1>10. LinkHasHandler' /\ EquipmentOfLink' /\ EquipmentHeard'
  BY <1>0, <1>7 DEF MonitorIInv, LinkHasHandler, EquipmentOfLink, EquipmentHeard
<1> QED  BY <1>5, <1>8, <1>9, <1>10 DEF MonitorIInv

(* A step of the connections: what the detectors keep is as it was. *)
LEMMA LinksStep ==
  ASSUME MonitorIInv, UNCHANGED <<detector, event, aisQueue, tick>>,
         handler' \in [LinkNo -> {"new", "attached", "serving", "ended"}],
         hubLink' \in {0} \cup LinkNo, equipment' \in Camera,
         agentRow' \in [online : BOOLEAN, age : 0 .. StaleAfter + 1],
         mishap' \in MishapState, mishap'.lost = mishap.lost,
         LinkHasHandler', EquipmentOfLink', EquipmentHeard'
  PROVE  MonitorIInv'
<1>1. MonitorShapes'  BY DEF MonitorIInv, MonitorShapes
<1>2. DetectorsSane'  BY DEF MonitorIInv, DetectorsSane
<1>3. AlertsMatchEvents'  BY DEF MonitorIInv, AlertsMatchEvents
<1> QED  BY <1>1, <1>2, <1>3 DEF MonitorIInv

(* The handlers: attach, mark, report, end. *)
LEMMA LinkSteps ==
  ASSUME MonitorIInv, NEW n \in LinkNo,
         LinkAttaches(n) \/ LinkMarks(n) \/ LinkReports(n) \/ LinkEnds(n)
  PROVE  MonitorIInv'
<1>0. /\ handler \in [LinkNo -> {"new", "attached", "serving", "ended"}]
      /\ hubLink \in {0} \cup LinkNo /\ equipment \in Camera
      /\ agentRow \in [online : BOOLEAN, age : 0 .. StaleAfter + 1]
      /\ mishap \in MishapState /\ 0 \notin LinkNo
      /\ LinkHasHandler /\ EquipmentOfLink /\ EquipmentHeard
  BY Limits DEF MonitorIInv, MonitorShapes
<1>1. \A b \in BOOLEAN : RowSays(b) => /\ agentRow' \in [online : BOOLEAN, age : 0 .. StaleAfter + 1]
                                       /\ agentRow'.online = b
  BY Limits DEF RowSays
<1>2. CASE LinkAttaches(n)
  <2>1. /\ handler' = [handler EXCEPT ![n] = "attached"] /\ hubLink' = n
        /\ UNCHANGED <<equipment, agentRow, aisQueue, detector, tick, event, mishap>>
    BY <1>2 DEF LinkAttaches
  <2>2. handler' \in [LinkNo -> {"new", "attached", "serving", "ended"}] /\ handler'[n] = "attached"
    BY <1>0, <2>1
  <2>3. LinkHasHandler'  BY <2>1, <2>2 DEF LinkHasHandler
  <2>4. EquipmentOfLink' /\ EquipmentHeard'
    BY <1>0, <2>1 DEF EquipmentOfLink, EquipmentHeard
  <2> QED  BY <1>0, <2>1, <2>2, <2>3, <2>4, LinksStep
<1>3. CASE LinkMarks(n)
  <2>1. /\ UNCHANGED <<hubLink, equipment, aisQueue, detector, tick, event>>
        /\ handler[n] = "attached"
    BY <1>3 DEF LinkMarks
  <2>2. CASE handler' = [handler EXCEPT ![n] = "serving"] /\ RowSays(TRUE) /\ UNCHANGED mishap
    <3>1. /\ handler' \in [LinkNo -> {"new", "attached", "serving", "ended"}]
          /\ handler'[n] = "serving" /\ \A m \in LinkNo : m # n => handler'[m] = handler[m]
      BY <1>0, <2>2
    <3>2. agentRow' \in [online : BOOLEAN, age : 0 .. StaleAfter + 1] /\ agentRow'.online = TRUE
      BY <1>1, <2>2
    <3>3. LinkHasHandler'  BY <1>0, <2>1, <2>2, <3>1, <3>2 DEF LinkHasHandler
    <3>4. EquipmentOfLink' /\ EquipmentHeard'
      BY <1>0, <2>1, <2>2 DEF EquipmentOfLink, EquipmentHeard
    <3> QED  BY <1>0, <2>1, <2>2, <3>1, <3>2, <3>3, <3>4, LinksStep
  <2>3. CASE /\ handler' = [handler EXCEPT ![n] = "ended"]
             /\ mishap' = [mishap EXCEPT !.count = @ + 1, !.orphans = @ \cup {n}]
             /\ UNCHANGED agentRow
    <3>1. /\ handler' \in [LinkNo -> {"new", "attached", "serving", "ended"}]
          /\ handler'[n] = "ended" /\ \A m \in LinkNo : m # n => handler'[m] = handler[m]
      BY <1>0, <2>3
    <3>2. /\ mishap' \in MishapState /\ mishap'.orphans = mishap.orphans \cup {n}
          /\ mishap'.lost = mishap.lost /\ mishap'.late = mishap.late
          /\ mishap'.camera = mishap.camera
      <4>1. mishap.count + 1 \in Nat /\ mishap.orphans \cup {n} \in SUBSET LinkNo
        BY <1>0 DEF MishapState
      <4> QED  BY <1>0, <2>3, <4>1 DEF MishapState
    <3>3. LinkHasHandler'  BY <1>0, <2>1, <2>3, <3>1, <3>2 DEF LinkHasHandler
    <3>4. EquipmentOfLink' /\ EquipmentHeard'
      BY <1>0, <2>1, <3>2 DEF EquipmentOfLink, EquipmentHeard
    <3> QED  BY <1>0, <2>1, <2>3, <3>1, <3>2, <3>3, <3>4, LinksStep
  <2> QED  BY <1>3, <2>2, <2>3 DEF LinkMarks
<1>4. CASE LinkReports(n)
  <2>1. /\ RowSays(TRUE) /\ UNCHANGED <<handler, hubLink, aisQueue, detector, tick, event>>
    BY <1>4 DEF LinkReports
  <2>2. PICK camera \in {"ok", "bad", "absent"} :
          /\ equipment' = camera
          /\ mishap' = [mishap EXCEPT !.reports = @ + 1, !.camera = camera, !.late = @ \/ n # hubLink]
    BY <1>4 DEF LinkReports
  <2>3. camera \in Camera  BY DEF Camera
  <2>4. /\ mishap' \in MishapState /\ mishap'.camera = camera /\ mishap'.lost = mishap.lost
        /\ mishap'.orphans = mishap.orphans /\ (mishap'.late <=> (mishap.late \/ n # hubLink))
    <3>1. mishap.reports + 1 \in Nat /\ (mishap.late \/ n # hubLink) \in BOOLEAN
      BY <1>0 DEF MishapState
    <3> QED  BY <1>0, <2>2, <2>3, <3>1 DEF MishapState
  <2>5. agentRow' \in [online : BOOLEAN, age : 0 .. StaleAfter + 1] /\ agentRow'.online = TRUE
    BY <1>1, <2>1
  <2>6. LinkHasHandler'  BY <1>0, <2>1, <2>4, <2>5 DEF LinkHasHandler
  <2>7. EquipmentOfLink'  BY <1>0, <2>1, <2>4 DEF EquipmentOfLink
  <2>8. EquipmentHeard'  BY <2>2, <2>4 DEF EquipmentHeard
  <2> QED  BY <1>0, <2>1, <2>2, <2>3, <2>4, <2>5, <2>6, <2>7, <2>8, LinksStep
<1>5. CASE LinkEnds(n)
  <2>1. /\ handler' = [handler EXCEPT ![n] = "ended"]
        /\ UNCHANGED <<aisQueue, detector, tick, event, mishap>>
    BY <1>5 DEF LinkEnds
  <2>2. /\ handler' \in [LinkNo -> {"new", "attached", "serving", "ended"}]
        /\ \A m \in LinkNo : m # n => handler'[m] = handler[m]
    BY <1>0, <2>1
  <2>3. CASE hubLink = n
    <3>1. hubLink' = 0 /\ equipment' = "none" /\ RowSays(FALSE)
      BY <1>5, <2>3 DEF LinkEnds, Detached
    <3>2. agentRow' \in [online : BOOLEAN, age : 0 .. StaleAfter + 1]  BY <1>1, <3>1
    <3>3. LinkHasHandler' /\ EquipmentOfLink' /\ EquipmentHeard'
      BY <3>1 DEF LinkHasHandler, EquipmentOfLink, EquipmentHeard
    <3> QED  BY <1>0, <2>1, <2>2, <3>1, <3>2, <3>3, LinksStep DEF Camera
  <2>4. CASE hubLink # n
    <3>1. UNCHANGED <<hubLink, equipment, agentRow>>  BY <1>5, <2>4 DEF LinkEnds, Replaced
    <3>2. LinkHasHandler'  BY <1>0, <2>1, <2>2, <2>4, <3>1 DEF LinkHasHandler
    <3>3. EquipmentOfLink' /\ EquipmentHeard'
      BY <1>0, <2>1, <3>1 DEF EquipmentOfLink, EquipmentHeard
    <3> QED  BY <1>0, <2>1, <2>2, <3>1, <3>2, <3>3, LinksStep
  <2> QED  BY <2>3, <2>4
<1> QED  BY <1>2, <1>3, <1>4, <1>5

LEMMA TimeStep == ASSUME MonitorIInv, MonitorTime PROVE MonitorIInv'
<1>0. /\ MonitorShapes /\ DetectorsSane
      /\ UNCHANGED <<handler, hubLink, equipment, aisQueue, tick, event, mishap>>
  BY DEF MonitorIInv, MonitorTime
<1>1. agentRow' \in [online : BOOLEAN, age : 0 .. StaleAfter + 1] /\ agentRow'.online = agentRow.online
  <2>1. agentRow' = [agentRow EXCEPT !.age = Aged(@, StaleAfter + 1)]  BY DEF MonitorTime
  <2>2. agentRow \in [online : BOOLEAN, age : 0 .. StaleAfter + 1]  BY <1>0 DEF MonitorShapes
  <2>3. Aged(agentRow.age, StaleAfter + 1) \in 0 .. StaleAfter + 1  BY <2>2, Limits DEF Aged
  <2> QED  BY <2>1, <2>2, <2>3
<1>2. \A k \in Problem : /\ detector'[k] \in DetectorState
                         /\ detector'[k].age <= Delay[k]
                         /\ detector'[k].on = detector[k].on /\ detector'[k].active = detector[k].active
  <2> SUFFICES ASSUME NEW k \in Problem
               PROVE  /\ detector'[k] \in DetectorState
                      /\ detector'[k].age <= Delay[k]
                      /\ detector'[k].on = detector[k].on
                      /\ detector'[k].active = detector[k].active
    OBVIOUS
  <2> DEFINE a == IF detector[k].on THEN Aged(detector[k].age, Delay[k]) ELSE 0
  <2>1. detector'[k] = [detector[k] EXCEPT !.age = a]  BY DEF MonitorTime
  <2>2. detector[k] \in DetectorState /\ Delay[k] \in Nat /\ detector[k].age <= Delay[k]
    BY <1>0, Delays DEF MonitorShapes, DetectorsSane
  <2>3. a \in Nat /\ a <= Delay[k]  BY <2>2 DEF Aged, DetectorState
  <2> HIDE DEF a
  <2> QED  BY <2>1, <2>2, <2>3 DEF DetectorState
<1>3. detector' \in [Problem -> DetectorState]  BY <1>2 DEF MonitorTime
<1>4. MonitorShapes'  BY <1>0, <1>1, <1>3 DEF MonitorShapes
<1>5. DetectorsSane'  BY <1>0, <1>2 DEF DetectorsSane
<1>6. AlertsMatchEvents'  BY <1>0, <1>2 DEF MonitorIInv, AlertsMatchEvents
<1>7. LinkHasHandler' /\ EquipmentOfLink' /\ EquipmentHeard'
  BY <1>0, <1>1 DEF MonitorIInv, LinkHasHandler, EquipmentOfLink, EquipmentHeard
<1> QED  BY <1>4, <1>5, <1>6, <1>7 DEF MonitorIInv

LEMMA RestartStep == ASSUME MonitorIInv, CenterRestarts PROVE MonitorIInv'
<1>0. MonitorShapes /\ UNCHANGED <<agentRow, aisQueue>>  BY DEF MonitorIInv, CenterRestarts
<1>1. /\ hubLink' = 0 /\ equipment' = "none" /\ tick' = NoTick
      /\ detector' = [k \in Problem |-> Calm] /\ event' = [k \in Problem |-> "none"]
      /\ handler' = [n \in LinkNo |-> IF handler[n] = "new" THEN "new" ELSE "ended"]
      /\ mishap' = [mishap EXCEPT !.count = @ + 1, !.lost = FALSE, !.orphans = {}]
  BY DEF CenterRestarts
<1>2. Calm \in DetectorState /\ Calm.age = 0 /\ Calm.active = FALSE  BY DEF Calm, DetectorState
<1>3. mishap' \in MishapState
  <2>1. mishap \in MishapState /\ mishap.count + 1 \in Nat  BY <1>0 DEF MonitorShapes, MishapState
  <2> QED  BY <1>1, <2>1 DEF MishapState
<1>4. MonitorShapes'
  <2>1. detector' \in [Problem -> DetectorState] /\ event' \in [Problem -> Severity]
    BY <1>1, <1>2 DEF Severity
  <2>2. handler' \in [LinkNo -> {"new", "attached", "serving", "ended"}]  BY <1>1
  <2>3. tick' \in [at : {"rest", "check"}, online : BOOLEAN] /\ equipment' \in Camera
    BY <1>1 DEF NoTick, Camera
  <2> QED  BY <1>0, <1>1, <1>3, <2>1, <2>2, <2>3 DEF MonitorShapes
<1>5. DetectorsSane'  BY <1>1, <1>2, Delays DEF DetectorsSane
<1>6. AlertsMatchEvents'  BY <1>1, <1>2 DEF AlertsMatchEvents
<1>7. LinkHasHandler' /\ EquipmentOfLink' /\ EquipmentHeard'
  BY <1>1 DEF LinkHasHandler, EquipmentOfLink, EquipmentHeard
<1> QED  BY <1>4, <1>5, <1>6, <1>7 DEF MonitorIInv

LEMMA MonitorStep == ASSUME MonitorIInv, MonitorNext PROVE MonitorIInv'
<1>1. CASE TickReads
  <2>1. /\ UNCHANGED <<handler, hubLink, equipment, agentRow, aisQueue, detector, event, mishap>>
        /\ tick' = [at |-> "check", online |-> AgentOnline]
    BY <1>1 DEF TickReads
  <2>2. AgentOnline \in BOOLEAN  BY DEF AgentOnline, MonitorIInv, MonitorShapes
  <2>3. MonitorShapes'  BY <2>1, <2>2 DEF MonitorIInv, MonitorShapes
  <2> QED  BY <2>1, <2>3 DEF MonitorIInv, DetectorsSane, AlertsMatchEvents, LinkHasHandler,
           EquipmentOfLink, EquipmentHeard
<1>2. CASE AisQueueTurns
  <2>1. /\ UNCHANGED <<handler, hubLink, equipment, agentRow, detector, tick, event>>
        /\ aisQueue' = ~aisQueue /\ mishap' = [mishap EXCEPT !.reports = @ + 1]
    BY <1>2 DEF AisQueueTurns
  <2>2. mishap \in MishapState  BY DEF MonitorIInv, MonitorShapes
  <2>3. mishap.reports + 1 \in Nat  BY <2>2 DEF MishapState
  <2>4. /\ mishap' \in MishapState /\ mishap'.lost = mishap.lost /\ mishap'.late = mishap.late
        /\ mishap'.orphans = mishap.orphans /\ mishap'.camera = mishap.camera
    BY <2>1, <2>2, <2>3 DEF MishapState
  <2>5. aisQueue' \in BOOLEAN  BY <2>1
  <2>6. MonitorShapes'  BY <2>1, <2>4, <2>5 DEF MonitorIInv, MonitorShapes
  <2> QED  BY <2>1, <2>4, <2>6 DEF MonitorIInv, DetectorsSane, AlertsMatchEvents, LinkHasHandler,
           EquipmentOfLink, EquipmentHeard
<1> QED  BY <1>1, <1>2, LinkSteps, PassChecked, TimeStep, RestartStep DEF MonitorNext

LEMMA MonitorStutter == ASSUME MonitorIInv, UNCHANGED monitorVars PROVE MonitorIInv'
BY DEF monitorVars, MonitorIInv, MonitorShapes, DetectorsSane, AlertsMatchEvents, LinkHasHandler,
       EquipmentOfLink, EquipmentHeard

LEMMA MonitorAlways == MonitorSpec => []MonitorIInv
<1>1. MonitorInit => MonitorIInv  BY MonitorStarts
<1>2. MonitorIInv /\ [MonitorNext]_monitorVars => MonitorIInv'  BY MonitorStep, MonitorStutter
<1> QED  BY <1>1, <1>2, PTL DEF MonitorSpec

(* An alert of the camera that closes in a step. *)
LEMMA CameraCloses ==
  ASSUME MonitorIInv, [MonitorNext]_monitorVars,
         detector["camera"].active, ~detector'["camera"].active
  PROVE  mishap.camera = "ok" \/ event'["camera"] = "none"
<1>0. MonitorShapes /\ "camera" \in Problem  BY Delays DEF MonitorIInv
<1>1. detector' # detector  OBVIOUS
<1>2. CASE TickChecks
  <2>1. detector'["camera"] = CameraChecked.state
    <3>1. detector'["camera"] = Checked["camera"].state  BY <1>0, <1>2 DEF TickChecks
    <3>2. Checked["camera"] = CameraChecked  BY <1>0 DEF Checked
    <3> QED  BY <3>1, <3>2
  <2>2. CASE ~tick.online \/ equipment \in {"none", "absent"}
    <3>1. CameraChecked.state = detector["camera"]  BY <2>2 DEF CameraChecked, Frozen
    <3> QED  BY <2>1, <3>1
  <2>3. CASE ~(~tick.online \/ equipment \in {"none", "absent"}) /\ equipment = "bad"
    <3>1. detector["camera"] \in DetectorState /\ detector["camera"].on
      BY <1>0 DEF MonitorIInv, MonitorShapes, DetectorsSane
    <3>2. CameraChecked = Transition("camera", TRUE)  BY <2>3 DEF CameraChecked
    <3>3. Transition("camera", TRUE).state = detector["camera"]  BY <3>1 DEF Transition
    <3> QED  BY <2>1, <3>2, <3>3
  <2>4. CASE ~(~tick.online \/ equipment \in {"none", "absent"}) /\ equipment # "bad"
    <3>1. equipment = "ok"  BY <1>0, <2>4 DEF MonitorShapes, Camera
    <3> QED  BY <3>1 DEF MonitorIInv, EquipmentHeard
  <2> QED  BY <2>2, <2>3, <2>4
<1>3. CASE CenterRestarts
  <2>1. event' = [k \in Problem |-> "none"]  BY <1>3 DEF CenterRestarts
  <2> QED  BY <1>0, <2>1
<1>4. CASE MonitorTime
  <2>1. detector'["camera"] = [detector["camera"] EXCEPT
            !.age = IF detector["camera"].on THEN Aged(@, Delay["camera"]) ELSE 0]
    BY <1>0, <1>4 DEF MonitorTime
  <2>2. detector["camera"] \in DetectorState  BY <1>0 DEF MonitorShapes
  <2>3. detector'["camera"].active = detector["camera"].active  BY <2>1, <2>2 DEF DetectorState
  <2> QED  BY <2>3
<1> QED  BY <1>1, <1>2, <1>3, <1>4
         DEF monitorVars, MonitorNext, LinkAttaches, LinkMarks, LinkReports, LinkEnds, TickReads,
             AisQueueTurns

(* For any delays, any number of connections, restarts and failed commits: *)
(* the alerts and the events written agree, the hub keeps no link without  *)
(* its handler but one whose mark failed, and shows no self-diagnosis of   *)
(* an agent out of touch (MonitoringService._check_scale, AgentHub).       *)
THEOREM MonitorInvariant == MonitorSpec => []MonitorInv
<1>1. MonitorIInv => MonitorInv  BY MonitorIsPromised
<1> QED  BY <1>1, MonitorAlways, PTL

(* The alert of a camera closes only on a report that it works, whatever   *)
(* connections, restarts and failed commits come between (_check_scale).   *)
THEOREM EvidenceHolds == MonitorSpec => RecoveryHasEvidence
<1>1. MonitorIInv /\ [MonitorNext]_monitorVars =>
        (detector["camera"].active /\ ~detector'["camera"].active
           => mishap.camera = "ok" \/ event'["camera"] = "none")
  BY CameraCloses
<1> QED  BY <1>1, MonitorAlways, PTL DEF MonitorSpec, RecoveryHasEvidence

(* From the silence of an agent to the chat: monitoring and the notifier,  *)
(* each at its own pace, keep what each promises.                          *)
THEOREM AlertsInvariant == AlertsSpec => []AlertInv
<1>1. MonitorInv /\ ChatInv => AlertInv  BY DEF AlertInv
<1> QED  BY <1>1, MonitorInvariant, ChatInvariant, PTL DEF AlertsSpec

-----------------------------------------------------------------------------
(***************************************************************************)
(* The import of tarings.                                                  *)
(***************************************************************************)
ToolShape ==
  tool \in [pc : {"none", "read", "look", "insert", "refused", "done"}, line : Nat,
            known : SUBSET Refs, ours : SUBSET OwnTarings, plan : SUBSET Lines, new : SUBSET Refs]

Applying == tool.pc \in {"look", "insert"}

(* A record has the number it was given: an imported one its own, one of   *)
(* the center the number of the AIS, whoever had it first.                 *)
LinkKept ==
  /\ \A r \in Refs : Imported(r) \in journal => Taken(r, refs)
  /\ \A o \in OwnTarings :
       (o \in journal /\ OwnAs[o].ref # NoRef) \/ saving[o] = "taken" => Taken(OwnAs[o].ref, refs)

(* What the tool has in its transaction nobody has linked, and what it     *)
(* read as linked still is.                                                *)
NewIsFree ==
  /\ \A r \in tool.new : ~Taken(r, refs)
  /\ \A r \in tool.known : Taken(r, refs)
  /\ tool.new # {} => Applying

(* The tool follows the plan it made of the journal it saw.                *)
PlanFollowed ==
  Applying =>
    /\ tool.plan = {l \in Lines : Parsed(l) /\ Verdict(File[l], tool.known, tool.ours) = "import"}
    /\ tool.ours \subseteq journal
    /\ \A r \in tool.new : \E l \in tool.plan : File[l].ref = r
    /\ tool.line >= 1
    /\ \A l \in tool.plan : l < tool.line => File[l].ref \in tool.new \/ Taken(File[l].ref, refs)

(* A line that was free when it was looked at is taken by an own taring    *)
(* saved since.                                                            *)
InsertSound ==
  tool.pc = "insert" =>
    /\ tool.line \in tool.plan
    /\ File[tool.line].ref \notin tool.new
    /\ Taken(File[tool.line].ref, refs) => unread # {}

ImportIInv ==
  /\ ImportTypeOK /\ NoTwinOfSeen /\ NothingMissed /\ RefusalHasCause
  /\ ToolShape /\ LinkKept /\ NewIsFree /\ PlanFollowed /\ InsertSound

LEMMA TakenStays ==
  ASSUME NEW links, NEW more, links \subseteq more, NEW r, Taken(r, links)
  PROVE  Taken(r, more)
BY DEF Taken

(* A line of the plan is of a taring that acts, no own taring the tool saw *)
(* is like it; a taring that acts and is not in the plan is known by its   *)
(* number or by an own taring.                                             *)
LEMMA PlannedLine ==
  ASSUME NEW l \in Lines, Parsed(l), NEW known, NEW ours,
         Verdict(File[l], known, ours) = "import"
  PROVE  l \in Acting /\ \A o \in ours : ~SameTaring(File[l], o)
<1>1. File[l].at \in Int /\ File[l].mass \in Int /\ Since \in Int /\ MaxTareKg \in Nat
  BY LinesAssumption, MatchAssumption
<1>2. /\ Site[File[l].object] # Absent /\ ~(File[l].at < Since)
      /\ ~(File[l].car # NoCar /\ MatchesOurs(File[l], ours))
      /\ File[l].completed /\ ~File[l].ignored /\ File[l].car # NoCar
      /\ ~(MaxTareKg > 0 /\ File[l].mass > MaxTareKg)
  BY DEF Verdict
<1>3. File[l].at >= Since /\ (MaxTareKg = 0 \/ File[l].mass <= MaxTareKg)  BY <1>1, <1>2
<1>4. Eligible(File[l])  BY <1>2, <1>3 DEF Eligible
<1>5. \A o \in ours : ~SameTaring(File[l], o)  BY <1>2 DEF MatchesOurs
<1> QED  BY <1>4, <1>5 DEF Acting

LEMMA LeftOut ==
  ASSUME NEW l \in Acting, NEW known, NEW ours, Verdict(File[l], known, ours) # "import"
  PROVE  File[l].ref \in known \/ \E o \in ours : SameTaring(File[l], o)
<1>1. File[l].at \in Int /\ File[l].mass \in Int /\ Since \in Int /\ MaxTareKg \in Nat
  BY LinesAssumption, MatchAssumption DEF Acting
<1>2. /\ Site[File[l].object] # Absent /\ File[l].at >= Since /\ File[l].completed
      /\ ~File[l].ignored /\ File[l].car # NoCar /\ (MaxTareKg = 0 \/ File[l].mass <= MaxTareKg)
  BY DEF Acting, Eligible
<1>3. ~(File[l].at < Since) /\ ~(MaxTareKg > 0 /\ File[l].mass > MaxTareKg)  BY <1>1, <1>2
<1>4. File[l].ref \in known \/ MatchesOurs(File[l], ours)  BY <1>2, <1>3 DEF Verdict
<1> QED  BY <1>4 DEF MatchesOurs

LEMMA RefOfLine ==
  ASSUME NEW l \in Lines, Parsed(l)
  PROVE  File[l].ref \in Refs
BY DEF Parsed, Refs

LEMMA ImportStarts == ImportInit => ImportIInv
<1> SUFFICES ASSUME ImportInit PROVE ImportIInv  OBVIOUS
<1> USE DEF ImportInit
<1>1. ToolShape  BY DEF NoTool, ToolShape
<1>2. ImportTypeOK  BY DEF ImportTypeOK, NoTool
<1>3. LinkKept  BY DEF LinkKept
<1>4. NewIsFree  BY DEF NewIsFree, Applying, NoTool
<1>5. PlanFollowed /\ InsertSound  BY DEF PlanFollowed, Applying, InsertSound, NoTool
<1>6. NoTwinOfSeen /\ NothingMissed /\ RefusalHasCause
  BY DEF NoTwinOfSeen, NothingMissed, RefusalHasCause, NoTool
<1> QED  BY <1>1, <1>2, <1>3, <1>4, <1>5, <1>6 DEF ImportIInv

LEMMA SaveOwnKeeps ==
  ASSUME ImportIInv, NEW o \in OwnTarings, SaveOwn(o)
  PROVE  ImportIInv'
<1>1. UNCHANGED <<journal, refs, tool, unread, passedOn, missed>>  BY DEF SaveOwn
<1>2. saving' \in [OwnTarings -> {"none", "free", "taken"}]
  BY DEF SaveOwn, ImportIInv, ImportTypeOK
<1>3. ImportTypeOK' /\ NoTwinOfSeen' /\ NothingMissed' /\ RefusalHasCause'
  BY <1>1, <1>2 DEF ImportIInv, ImportTypeOK, NoTwinOfSeen, NothingMissed, RefusalHasCause
<1>4. ToolShape' /\ NewIsFree' /\ PlanFollowed' /\ InsertSound'
  BY <1>1 DEF ImportIInv, ToolShape, NewIsFree, PlanFollowed, Applying, InsertSound
<1>5. LinkKept'
  <2>1. ASSUME NEW q \in OwnTarings, saving'[q] = "taken" PROVE Taken(OwnAs[q].ref, refs)
    <3>1. q # o => saving'[q] = saving[q]
      BY DEF SaveOwn, ImportIInv, ImportTypeOK
    <3>2. q = o => saving'[q] = IF Taken(OwnAs[o].ref, refs) THEN "taken" ELSE "free"
      BY DEF SaveOwn, ImportIInv, ImportTypeOK
    <3> QED  BY <2>1, <3>1, <3>2 DEF ImportIInv, LinkKept
  <2> QED  BY <1>1, <2>1 DEF ImportIInv, LinkKept
<1> QED  BY <1>3, <1>4, <1>5 DEF ImportIInv

LEMMA CommitOwnKeeps ==
  ASSUME ImportIInv, NEW o \in OwnTarings, CommitOwn(o)
  PROVE  ImportIInv'
<1>1. UNCHANGED <<tool, passedOn, missed>>  BY DEF CommitOwn
<1>2. saving' = [saving EXCEPT ![o] = "none"] /\ saving[o] # "none"
  BY DEF CommitOwn
<1>3. /\ saving' \in [OwnTarings -> {"none", "free", "taken"}]
      /\ \A q \in OwnTarings : saving'[q] = "taken" => saving[q] = "taken"
  BY <1>2 DEF ImportIInv, ImportTypeOK
<1>4. CASE Links(o) /\ Taken(OwnAs[o].ref, refs)
  <2>1. UNCHANGED <<journal, refs, unread>>  BY <1>4 DEF CommitOwn
  <2>2. ImportTypeOK' /\ NoTwinOfSeen' /\ NothingMissed' /\ RefusalHasCause'
    BY <1>1, <1>3, <2>1
    DEF ImportIInv, ImportTypeOK, NoTwinOfSeen, NothingMissed, RefusalHasCause
  <2>3. ToolShape' /\ NewIsFree' /\ PlanFollowed' /\ InsertSound'
    BY <1>1, <2>1 DEF ImportIInv, ToolShape, NewIsFree, PlanFollowed, Applying, InsertSound
  <2>4. LinkKept'  BY <1>3, <2>1 DEF ImportIInv, LinkKept
  <2> QED  BY <2>2, <2>3, <2>4 DEF ImportIInv
<1>5. CASE ~(Links(o) /\ Taken(OwnAs[o].ref, refs))
  <2>1. /\ journal' = journal \cup {o}
        /\ refs' = refs \cup IF Links(o) THEN {<<OwnAs[o].ref, o>>} ELSE {}
        /\ unread' = unread \cup {o}
        /\ Links(o) => OwnAs[o].ref \notin tool.new
    BY <1>5 DEF CommitOwn
  <2>2. refs \subseteq refs' /\ \A r : Taken(r, refs) => Taken(r, refs')
    BY <2>1, TakenStays
  <2>3. ImportTypeOK'
    <3>1. \A link \in refs' : link[2] \in journal'
      BY <2>1 DEF ImportIInv, ImportTypeOK
    <3> QED  BY <1>1, <1>3, <2>1, <3>1 DEF ImportIInv, ImportTypeOK
  <2>4. NoTwinOfSeen' /\ NothingMissed' /\ RefusalHasCause' /\ ToolShape'
    BY <1>1, <2>1 DEF ImportIInv, NoTwinOfSeen, NothingMissed, RefusalHasCause, ToolShape
  <2>5. LinkKept'
    <3>1. \A r \in Refs : Imported(r) \in journal' => Taken(r, refs')
      <4>1. \A r \in Refs : Imported(r) # o  BY OwnAssumption
      <4> QED  BY <2>1, <2>2, <4>1 DEF ImportIInv, LinkKept
    <3>2. OwnAs[o].ref # NoRef => Taken(OwnAs[o].ref, refs')
      <4>1. CASE Links(o)
        <5>1. <<OwnAs[o].ref, o>> \in refs'  BY <2>1, <4>1
        <5> QED  BY <5>1 DEF Taken
      <4>2. CASE ~Links(o) /\ OwnAs[o].ref # NoRef
        <5>1. saving[o] = "taken"
          BY <1>2, <4>2 DEF Links, ImportIInv, ImportTypeOK
        <5> QED  BY <2>2, <5>1 DEF ImportIInv, LinkKept
      <4> QED  BY <4>1, <4>2
    <3>3. ASSUME NEW q \in OwnTarings,
                 (q \in journal' /\ OwnAs[q].ref # NoRef) \/ saving'[q] = "taken"
          PROVE  Taken(OwnAs[q].ref, refs')
      <4>1. CASE saving'[q] = "taken"
        BY <1>3, <2>2, <4>1 DEF ImportIInv, LinkKept
      <4>2. CASE q \in journal' /\ OwnAs[q].ref # NoRef
        BY <2>1, <2>2, <3>2, <4>2 DEF ImportIInv, LinkKept
      <4> QED  BY <3>3, <4>1, <4>2
    <3> QED  BY <3>1, <3>3 DEF LinkKept
  <2>6. NewIsFree'
    <3>1. ASSUME NEW r \in tool.new PROVE ~Taken(r, refs')
      <4>1. ~Taken(r, refs)  BY DEF ImportIInv, NewIsFree, Applying
      <4> QED  BY <2>1, <4>1 DEF Taken
    <3> QED  BY <1>1, <2>2, <3>1 DEF ImportIInv, NewIsFree, Applying
  <2>7. PlanFollowed'
    <3> SUFFICES ASSUME Applying PROVE PlanFollowed'
      BY <1>1 DEF PlanFollowed, Applying
    <3>1. \A l \in tool.plan : l < tool.line => File[l].ref \in tool.new \/ Taken(File[l].ref, refs')
      BY <2>2 DEF ImportIInv, PlanFollowed
    <3>2. tool.ours \subseteq journal'  BY <2>1 DEF ImportIInv, PlanFollowed
    <3> QED  BY <1>1, <3>1, <3>2 DEF ImportIInv, PlanFollowed
  <2>8. InsertSound'  BY <1>1, <2>1 DEF ImportIInv, InsertSound
  <2> QED  BY <2>3, <2>4, <2>5, <2>6, <2>7, <2>8 DEF ImportIInv
<1> QED  BY <1>4, <1>5

(* A step of the tool that leaves the journal as it is.                    *)
LEMMA ToolMoves ==
  ASSUME ImportIInv, UNCHANGED <<journal, refs, saving, passedOn, missed>>,
         ToolShape', RefusalHasCause', NewIsFree', PlanFollowed', InsertSound'
  PROVE  ImportIInv'
<1>1. tool'.plan \subseteq Lines /\ tool'.new \subseteq Refs
      /\ tool'.pc \in {"none", "read", "look", "insert", "refused", "done"}
  BY DEF ToolShape
<1>2. ImportTypeOK' /\ NoTwinOfSeen' /\ NothingMissed'
  BY <1>1 DEF ImportIInv, ImportTypeOK, NoTwinOfSeen, NothingMissed
<1>3. LinkKept'  BY DEF ImportIInv, LinkKept
<1> QED  BY <1>2, <1>3 DEF ImportIInv

LEMMA NoToolShape ==
  NoTool \in [pc : {"none", "read", "look", "insert", "refused", "done"}, line : Nat,
              known : SUBSET Refs, ours : SUBSET OwnTarings, plan : SUBSET Lines, new : SUBSET Refs]
BY DEF NoTool

LEMMA ToolStops ==
  ASSUME ImportIInv, UNCHANGED <<journal, refs, saving, passedOn, missed>>, tool' = NoTool
  PROVE  ImportIInv'
<1>1. ToolShape'  BY NoToolShape DEF ToolShape
<1>2. RefusalHasCause' /\ NewIsFree' /\ PlanFollowed' /\ InsertSound'
  BY DEF RefusalHasCause, NewIsFree, PlanFollowed, Applying, InsertSound, NoTool
<1> QED  BY <1>1, <1>2, ToolMoves

LEMMA ToolReadsRefsKeeps ==
  ASSUME ImportIInv, ToolReadsRefs
  PROVE  ImportIInv'
<1> DEFINE read == {r \in {File[l].ref : l \in {k \in Lines : Parsed(k)}} : Taken(r, refs)}
<1>1. read \subseteq Refs  BY RefOfLine
<1>2. \A r \in read : Taken(r, refs)  OBVIOUS
<1>3. tool' = [NoTool EXCEPT !.pc = "read", !.known = read]
      /\ UNCHANGED <<journal, refs, saving, passedOn, missed>>
  BY DEF ToolReadsRefs
<1> HIDE DEF read
<1>4. ToolShape'  BY <1>1, <1>3, NoToolShape DEF ToolShape
<1>5. tool'.pc = "read" /\ tool'.known = read /\ tool'.new = {}  BY <1>3 DEF NoTool
<1>6. RefusalHasCause' /\ NewIsFree' /\ PlanFollowed' /\ InsertSound'
  BY <1>2, <1>3, <1>5 DEF RefusalHasCause, NewIsFree, PlanFollowed, Applying, InsertSound
<1> QED  BY <1>3, <1>4, <1>6, ToolMoves

LEMMA ToolPlansKeeps ==
  ASSUME ImportIInv, NEW apply \in BOOLEAN, ToolPlans(apply)
  PROVE  ImportIInv'
<1> DEFINE ours == {o \in journal \cap OwnTarings : OwnAs[o].at >= Since /\ OwnAs[o].car # NoCar}
           plan == {l \in Lines : Parsed(l) /\ Verdict(File[l], tool.known, ours) = "import"}
<1>1. UNCHANGED <<journal, refs, saving, passedOn, missed>>  BY DEF ToolPlans
<1>2. CASE ~apply
  <2>1. tool' = NoTool  BY <1>2 DEF ToolPlans
  <2> QED  BY <1>1, <2>1, ToolStops
<1>3. CASE apply
  <2>1. ours \subseteq journal /\ ours \subseteq OwnTarings /\ plan \subseteq Lines  OBVIOUS
  <2>2. /\ tool' = [tool EXCEPT !.pc = "look", !.line = 1, !.ours = ours, !.plan = plan]
        /\ tool.pc = "read"
    BY <1>3 DEF ToolPlans
  <2>3. plan = {l \in Lines : Parsed(l) /\ Verdict(File[l], tool.known, ours) = "import"}  OBVIOUS
  <2> HIDE DEF ours, plan
  <2>4. ToolShape'  BY <2>1, <2>2 DEF ImportIInv, ToolShape
  <2>5. /\ tool'.pc = "look" /\ tool'.line = 1 /\ tool'.ours = ours /\ tool'.plan = plan
        /\ tool'.new = tool.new /\ tool'.known = tool.known
    BY <2>2 DEF ImportIInv, ToolShape
  <2>6. NewIsFree' /\ RefusalHasCause' /\ InsertSound'
    BY <1>1, <2>5 DEF ImportIInv, NewIsFree, Applying, RefusalHasCause, InsertSound
  <2>7. tool.new = {}  BY <2>2 DEF ImportIInv, NewIsFree, Applying
  <2>8. \A l \in plan : ~(l < 1)  BY <2>1, LinesAssumption
  <2>9. PlanFollowed'  BY <1>1, <2>1, <2>3, <2>5, <2>7, <2>8 DEF PlanFollowed
  <2> QED  BY <1>1, <2>4, <2>6, <2>9, ToolMoves
<1> QED  BY <1>2, <1>3

LEMMA ToolLooksKeeps ==
  ASSUME ImportIInv, ToolLooks
  PROVE  ImportIInv'
<1>1. UNCHANGED <<journal, refs, saving, unread, passedOn, missed>> /\ tool.pc = "look" /\ tool.line \in Lines
  BY DEF ToolLooks
<1>2. Applying /\ tool.line \in Nat  BY <1>1 DEF Applying, ImportIInv, ToolShape
<1>3. CASE tool.line \notin tool.plan \/ KnownHere(File[tool.line].ref)
  <2>1. tool' = [tool EXCEPT !.line = @ + 1]  BY <1>3 DEF ToolLooks
  <2>2. ToolShape'  BY <1>2, <2>1 DEF ImportIInv, ToolShape
  <2>3. /\ tool'.pc = "look" /\ tool'.line = tool.line + 1 /\ tool'.ours = tool.ours
        /\ tool'.plan = tool.plan /\ tool'.new = tool.new /\ tool'.known = tool.known
    BY <1>1, <2>1 DEF ImportIInv, ToolShape
  <2>4. NewIsFree' /\ RefusalHasCause' /\ InsertSound'
    BY <1>1, <2>3 DEF ImportIInv, NewIsFree, Applying, RefusalHasCause, InsertSound
  <2>5. tool.line \in tool.plan =>
          File[tool.line].ref \in tool.new \/ Taken(File[tool.line].ref, refs)
    <3> SUFFICES ASSUME tool.line \in tool.plan
        PROVE  File[tool.line].ref \in tool.new \/ Taken(File[tool.line].ref, refs)
      OBVIOUS
    <3>1. Parsed(tool.line)  BY <1>2 DEF ImportIInv, PlanFollowed
    <3>2. File[tool.line].ref \in Refs  BY <1>1, <3>1, RefOfLine
    <3> QED  BY <1>3, <3>2 DEF KnownHere, ImportIInv, LinkKept
  <2>6. ASSUME NEW l \in tool.plan, l < tool.line + 1
        PROVE  File[l].ref \in tool.new \/ Taken(File[l].ref, refs)
    <3>1. l \in Nat  BY LinesAssumption DEF ImportIInv, ToolShape
    <3>2. l < tool.line \/ l = tool.line  BY <1>2, <2>6, <3>1
    <3> QED  BY <1>2, <2>5, <3>2 DEF ImportIInv, PlanFollowed
  <2>7. tool.line + 1 >= 1  BY <1>2
  <2>8. PlanFollowed'
    BY <1>1, <1>2, <2>3, <2>6, <2>7 DEF ImportIInv, PlanFollowed
  <2> QED  BY <1>1, <2>2, <2>4, <2>8, ToolMoves
<1>4. CASE ~(tool.line \notin tool.plan \/ KnownHere(File[tool.line].ref))
  <2>1. tool' = [tool EXCEPT !.pc = "insert"]  BY <1>4 DEF ToolLooks
  <2>2. ToolShape'  BY <2>1 DEF ImportIInv, ToolShape
  <2>3. /\ tool'.pc = "insert" /\ tool'.line = tool.line /\ tool'.ours = tool.ours
        /\ tool'.plan = tool.plan /\ tool'.new = tool.new /\ tool'.known = tool.known
    BY <2>1 DEF ImportIInv, ToolShape
  <2>4. NewIsFree' /\ RefusalHasCause'
    BY <1>1, <2>3 DEF ImportIInv, NewIsFree, Applying, RefusalHasCause
  <2>5. PlanFollowed'
    BY <1>1, <1>2, <2>3 DEF ImportIInv, PlanFollowed
  <2>6. InsertSound'  BY <1>1, <1>4, <2>3 DEF InsertSound, KnownHere
  <2> QED  BY <1>1, <2>2, <2>4, <2>5, <2>6, ToolMoves
<1> QED  BY <1>3, <1>4

LEMMA ToolInsertsKeeps ==
  ASSUME ImportIInv, ToolInserts
  PROVE  ImportIInv'
<1> DEFINE ref == File[tool.line].ref
<1>1. UNCHANGED <<journal, refs, saving, unread, passedOn, missed>> /\ tool.pc = "insert"
  BY DEF ToolInserts
<1>2. Applying /\ tool.line \in Nat  BY <1>1 DEF Applying, ImportIInv, ToolShape
<1>3. tool.line \in tool.plan /\ ref \notin tool.new /\ (Taken(ref, refs) => unread # {})
  BY <1>1 DEF ImportIInv, InsertSound
<1>4. CASE Taken(ref, refs) \/ ref \in tool.new
  <2>1. tool' = [tool EXCEPT !.pc = "refused", !.new = {}]  BY <1>4 DEF ToolInserts
  <2>2. ToolShape'  BY <2>1 DEF ImportIInv, ToolShape
  <2>3. tool'.pc = "refused" /\ tool'.new = {} /\ tool'.known = tool.known
    BY <2>1 DEF ImportIInv, ToolShape
  <2>4. NewIsFree' /\ InsertSound' /\ PlanFollowed'
    BY <1>1, <2>3 DEF ImportIInv, NewIsFree, InsertSound, PlanFollowed, Applying
  <2>5. RefusalHasCause'  BY <1>1, <1>3, <1>4 DEF RefusalHasCause
  <2> QED  BY <1>1, <2>2, <2>4, <2>5, ToolMoves
<1>5. CASE ~(Taken(ref, refs) \/ ref \in tool.new)
  <2>1. tool' = [tool EXCEPT !.pc = "look", !.line = @ + 1, !.new = @ \cup {ref}]
    BY <1>5 DEF ToolInserts
  <2>2. ref \in Refs
    <3>1. tool.line \in Lines /\ Parsed(tool.line)  BY <1>2, <1>3 DEF ImportIInv, PlanFollowed
    <3> QED  BY <3>1, RefOfLine
  <2> HIDE DEF ref
  <2>3. ToolShape'
    <3>1. tool.line + 1 \in Nat /\ tool.new \cup {ref} \subseteq Refs
      BY <1>2, <2>2 DEF ImportIInv, ToolShape
    <3> QED  BY <2>1, <3>1 DEF ImportIInv, ToolShape
  <2>4. /\ tool'.pc = "look" /\ tool'.line = tool.line + 1 /\ tool'.ours = tool.ours
        /\ tool'.plan = tool.plan /\ tool'.new = tool.new \cup {ref} /\ tool'.known = tool.known
    BY <2>1 DEF ImportIInv, ToolShape
  <2>5. NewIsFree' /\ RefusalHasCause' /\ InsertSound'
    BY <1>1, <1>5, <2>4 DEF ImportIInv, NewIsFree, Applying, RefusalHasCause, InsertSound
  <2>6. ASSUME NEW l \in tool.plan, l < tool.line + 1
        PROVE  File[l].ref \in tool.new \cup {ref} \/ Taken(File[l].ref, refs)
    <3>1. l \in Nat  BY LinesAssumption DEF ImportIInv, ToolShape
    <3>2. l < tool.line \/ l = tool.line  BY <1>2, <2>6, <3>1
    <3> QED  BY <1>2, <3>2 DEF ImportIInv, PlanFollowed, ref
  <2>7. \A r \in tool.new \cup {ref} : \E l \in tool.plan : File[l].ref = r
    BY <1>2, <1>3 DEF ImportIInv, PlanFollowed, ref
  <2>8. tool.line + 1 >= 1  BY <1>2
  <2>9. PlanFollowed'
    BY <1>1, <1>2, <2>4, <2>6, <2>7, <2>8 DEF ImportIInv, PlanFollowed
  <2> QED  BY <1>1, <2>3, <2>5, <2>9, ToolMoves
<1> QED  BY <1>4, <1>5

(* No own taring the plan was made with is of the document of a number the *)
(* tool puts in: by its number it would be linked, without one it is like  *)
(* the line.                                                               *)
LEMMA NoTwinIn ==
  ASSUME ImportIInv, Applying, NEW r \in tool.new, NEW o \in tool.ours
  PROVE  OwnAs[o].document # r
<1>1. PICK l \in tool.plan : File[l].ref = r  BY DEF ImportIInv, PlanFollowed
<1>2. l \in Lines /\ Parsed(l) /\ Verdict(File[l], tool.known, tool.ours) = "import"
  BY DEF ImportIInv, PlanFollowed
<1>3. l \in Acting /\ ~SameTaring(File[l], o)  BY <1>2, PlannedLine
<1>4. o \in OwnTarings /\ o \in journal
  BY DEF ImportIInv, PlanFollowed, ToolShape
<1>5. OwnAs[o].ref # r
  <2> SUFFICES ASSUME OwnAs[o].ref = r PROVE FALSE  OBVIOUS
  <2>1. r # NoRef  BY <1>1, <1>2 DEF Parsed
  <2>2. Taken(r, refs)  BY <1>4, <2>1 DEF ImportIInv, LinkKept
  <2> QED  BY <2>2 DEF ImportIInv, NewIsFree, Applying
<1> QED  BY <1>1, <1>3, <1>4, <1>5, WindowAssumption

(* At the end of the plan every line that acts is in.                      *)
LEMMA AllIn ==
  ASSUME ImportIInv, Applying, tool.line \notin Lines, NEW l \in Acting
  PROVE  \/ File[l].ref \in tool.new \/ Taken(File[l].ref, refs)
         \/ \E o \in tool.ours : OwnAs[o].document = File[l].ref
<1>1. l \in Lines /\ Parsed(l)  BY DEF Acting
<1>2. CASE Verdict(File[l], tool.known, tool.ours) = "import"
  <2>1. l \in tool.plan  BY <1>1, <1>2 DEF ImportIInv, PlanFollowed
  <2>2. tool.line \in Nat /\ tool.line >= 1  BY DEF ImportIInv, PlanFollowed, ToolShape
  <2>3. l < tool.line  BY <1>1, <2>2, LinesAssumption
  <2> QED  BY <2>1, <2>3 DEF ImportIInv, PlanFollowed
<1>3. CASE Verdict(File[l], tool.known, tool.ours) # "import"
  <2>1. CASE File[l].ref \in tool.known  BY <2>1 DEF ImportIInv, NewIsFree, Applying
  <2>2. CASE \E o \in tool.ours : SameTaring(File[l], o)
    <3>1. PICK o \in tool.ours : SameTaring(File[l], o)  BY <2>2
    <3>2. o \in OwnTarings  BY DEF ImportIInv, ToolShape
    <3> QED  BY <3>1, <3>2, WindowAssumption
  <2> QED  BY <1>3, <2>1, <2>2, LeftOut
<1> QED  BY <1>2, <1>3

LEMMA ToolCommitsKeeps ==
  ASSUME ImportIInv, ToolCommits
  PROVE  ImportIInv'
<1>1. /\ tool.pc = "look" /\ tool.line \notin Lines
      /\ tool' = [NoTool EXCEPT !.pc = "done"]
      /\ journal' = journal \cup {Imported(r) : r \in tool.new}
      /\ refs' = refs \cup {<<r, Imported(r)>> : r \in tool.new}
      /\ passedOn' = passedOn \cup (tool.new \X tool.ours)
      /\ UNCHANGED <<saving, unread>>
  BY DEF ToolCommits
<1>2. Applying  BY <1>1 DEF Applying
<1>3. refs \subseteq refs' /\ \A r : Taken(r, refs) => Taken(r, refs')
  BY <1>1, TakenStays
<1>4. \A r \in tool.new : Taken(r, refs')
  <2> SUFFICES ASSUME NEW r \in tool.new PROVE Taken(r, refs')  OBVIOUS
  <2>1. <<r, Imported(r)>> \in refs'  BY <1>1
  <2> QED  BY <2>1 DEF Taken
<1>5. tool.new \subseteq Refs /\ tool.ours \subseteq OwnTarings  BY DEF ImportIInv, ToolShape
<1>6. ToolShape'  BY <1>1, NoToolShape DEF ToolShape
<1>7. tool'.pc = "done" /\ tool'.plan = {} /\ tool'.new = {} /\ tool'.known = {}
  BY <1>1 DEF NoTool
<1>8. NewIsFree' /\ PlanFollowed' /\ InsertSound' /\ RefusalHasCause'
  BY <1>7 DEF NewIsFree, PlanFollowed, Applying, InsertSound, RefusalHasCause
<1>9. ImportTypeOK'
  <2>1. journal' \subseteq OwnTarings \cup {Imported(r) : r \in Refs}
    BY <1>1, <1>5 DEF ImportIInv, ImportTypeOK
  <2>2. \A link \in refs' : link[2] \in journal'
    BY <1>1 DEF ImportIInv, ImportTypeOK
  <2> QED  BY <1>1, <1>7, <2>1, <2>2 DEF ImportIInv, ImportTypeOK
<1>10. LinkKept'
  <2>1. ASSUME NEW r \in Refs, Imported(r) \in journal' PROVE Taken(r, refs')
    <3>1. Imported(r) \in journal \/ r \in tool.new  BY <1>1, <2>1 DEF Imported
    <3> QED  BY <1>3, <1>4, <3>1 DEF ImportIInv, LinkKept
  <2>2. \A o \in OwnTarings : o \in journal' => o \in journal
    BY <1>1, <1>5, OwnAssumption
  <2> QED  BY <1>1, <1>3, <2>1, <2>2 DEF ImportIInv, LinkKept
<1>11. NoTwinOfSeen'
  <2>1. \A p \in tool.new \X tool.ours : OwnAs[p[2]].document # p[1]  BY <1>2, NoTwinIn
  <2> QED  BY <1>1, <2>1 DEF ImportIInv, NoTwinOfSeen
<1>12. NothingMissed'
  <2>1. missed' = {File[l].ref : l \in Acting}
                  \ ({r[1] : r \in refs'} \cup {OwnAs[o].document : o \in journal \cap OwnTarings})
    BY DEF ToolCommits
  <2>2. ASSUME NEW l \in Acting
        PROVE  File[l].ref \in {r[1] : r \in refs'} \cup {OwnAs[o].document : o \in journal \cap OwnTarings}
    <3>1. CASE Taken(File[l].ref, refs')  BY <3>1 DEF Taken
    <3>2. CASE \E o \in tool.ours : OwnAs[o].document = File[l].ref
      <4>1. tool.ours \subseteq journal \cap OwnTarings
        BY <1>2, <1>5 DEF ImportIInv, PlanFollowed
      <4> QED  BY <3>2, <4>1
    <3> QED  BY <1>1, <1>2, <1>3, <1>4, <3>1, <3>2, AllIn
  <2> QED  BY <2>1, <2>2 DEF NothingMissed
<1> QED  BY <1>6, <1>8, <1>9, <1>10, <1>11, <1>12 DEF ImportIInv

LEMMA ImportStep == ImportIInv /\ [ImportNext]_importVars => ImportIInv'
<1> SUFFICES ASSUME ImportIInv, [ImportNext]_importVars PROVE ImportIInv'  OBVIOUS
<1>1. ASSUME NEW o \in OwnTarings, SaveOwn(o) \/ CommitOwn(o) PROVE ImportIInv'
  BY <1>1, SaveOwnKeeps, CommitOwnKeeps
<1>2. CASE ToolReadsRefs  BY <1>2, ToolReadsRefsKeeps
<1>3. ASSUME NEW apply \in BOOLEAN, ToolPlans(apply) PROVE ImportIInv'
  BY <1>3, ToolPlansKeeps
<1>4. CASE ToolLooks \/ ToolInserts \/ ToolCommits
  BY <1>4, ToolLooksKeeps, ToolInsertsKeeps, ToolCommitsKeeps
<1>5. CASE ToolCrashes
  <2>1. tool' = NoTool /\ UNCHANGED <<journal, refs, saving, passedOn, missed>>
    BY <1>5 DEF ToolCrashes
  <2> QED  BY <2>1, ToolStops
<1>6. CASE UNCHANGED importVars
  <2>1. UNCHANGED <<journal, refs, saving, tool, unread, passedOn, missed>>
    BY <1>6 DEF importVars
  <2>2. ToolShape' /\ RefusalHasCause' /\ NewIsFree' /\ PlanFollowed' /\ InsertSound'
    BY <2>1 DEF ImportIInv, ToolShape, RefusalHasCause, NewIsFree, PlanFollowed, Applying, InsertSound
  <2> QED  BY <2>1, <2>2, ToolMoves
<1> QED  BY <1>1, <1>2, <1>3, <1>4, <1>5, <1>6 DEF ImportNext

(* For any export, any own tarings of the center and whatever comes        *)
(* between two steps of the tool (tools/import_ais_tares): a taring the    *)
(* tool saw in the journal is not put there again, no tare that still acts *)
(* is left out, and the tool gives up only because of a taring saved since.*)
THEOREM ImportInvariant == ImportSpec => []ImportInv
<1>1. ImportInit => ImportIInv  BY ImportStarts
<1>2. ImportIInv /\ [ImportNext]_importVars => ImportIInv'  BY ImportStep
<1>3. ImportIInv => ImportInv  BY DEF ImportIInv, ImportInv
<1> QED  BY <1>1, <1>2, <1>3, PTL DEF ImportSpec

-----------------------------------------------------------------------------
(***************************************************************************)
(* The calendar.                                                           *)
(***************************************************************************)
LEMMA DivStep ==
  ASSUME NEW y \in Int, NEW k \in {4, 100, 400}
  PROVE  (y \div k) - ((y - 1) \div k) = IF y % k = 0 THEN 1 ELSE 0
OBVIOUS

LeapDays(y) == y \div 4 - y \div 100 + y \div 400

LEMMA LeapStep ==
  ASSUME NEW y \in Int
  PROVE  LeapDays(y) - LeapDays(y - 1) = IF IsLeap(y) THEN 1 ELSE 0
<1>1. y % 400 = 0 => y % 100 = 0  OBVIOUS
<1>2. y % 100 = 0 => y % 4 = 0  OBVIOUS
<1>3. \A k \in {4, 100, 400} : y \div k \in Int /\ (y - 1) \div k \in Int  OBVIOUS
<1> QED  BY <1>1, <1>2, <1>3, DivStep DEF LeapDays, IsLeap

LEMMA DaysBeforeIs ==
  /\ DaysBefore[1] = 0 /\ DaysBefore[2] = 31 /\ DaysBefore[3] = 59 /\ DaysBefore[4] = 90
  /\ DaysBefore[5] = 120 /\ DaysBefore[6] = 151 /\ DaysBefore[7] = 181 /\ DaysBefore[8] = 212
  /\ DaysBefore[9] = 243 /\ DaysBefore[10] = 273 /\ DaysBefore[11] = 304 /\ DaysBefore[12] = 334
BY DEF DaysBefore

LEMMA MonthSplit ==
  ASSUME NEW m \in Int
  PROVE  \E y \in Int, r \in 0 .. 11 : m = 12 * y + r
<1>1. m \div 12 \in Int /\ m % 12 \in 0 .. 11 /\ m = 12 * (m \div 12) + (m % 12)  OBVIOUS
<1> QED  BY <1>1

LEMMA MonthParts ==
  ASSUME NEW y \in Int, NEW r \in 0 .. 11
  PROVE  (12 * y + r) \div 12 = y /\ (12 * y + r) % 12 = r
OBVIOUS

LeapDayIn(y, r) == IF IsLeap(y) /\ r > 1 THEN 1 ELSE 0
MonthLength(y, r) == IF r = 1 THEN IF IsLeap(y) THEN 29 ELSE 28
                ELSE IF r \in {3, 5, 8, 10} THEN 30 ELSE 31

(* The days of a month and its first day, by the year and the place in it. *)
LEMMA DaysIs ==
  \A y \in Int : \A r \in 0 .. 11 :
    DaysIn(12 * y + r) = MonthLength(y, r)
<1> TAKE y \in Int, r \in 0 .. 11
<1> DEFINE m == 12 * y + r
<1>1. m \div 12 = y /\ m % 12 = r  BY MonthParts
<1> HIDE DEF m
<1>2. DaysIn(m) = MonthLength(y, r)
  BY <1>1 DEF MonthLength, DaysIn, YearOf
<1> QED  BY <1>2 DEF m

LEMMA FirstIs ==
  \A y \in Int : \A r \in 0 .. 11 :
    /\ FirstOf(12 * y + r) = 365 * (y - 1) + LeapDays(y - 1) + DaysBefore[r + 1]
                             + LeapDayIn(y, r) + 1
    /\ {LeapDays(y - 1), DaysBefore[r + 1], LeapDayIn(y, r)} \subseteq Int
<1> TAKE y \in Int, r \in 0 .. 11
<1> DEFINE m == 12 * y + r
<1>1. m \div 12 = y /\ m % 12 = r  BY MonthParts
<1> HIDE DEF m
<1>2. (y - 1) + 1 = y  OBVIOUS
<1>3. (y - 1) \div 4 \in Int /\ (y - 1) \div 100 \in Int /\ (y - 1) \div 400 \in Int  OBVIOUS
<1>4. LeapDays(y - 1) \in Int  BY <1>3 DEF LeapDays
<1>5. DaysBefore[r + 1] \in Int
  <2>1. r \in {0, 1, 2, 3, 4, 5, 6, 7, 8, 9, 10, 11}  OBVIOUS
  <2> QED  BY <2>1, DaysBeforeIs
<1>6. FirstOf(m) = 365 * (y - 1) + (y - 1) \div 4 - (y - 1) \div 100 + (y - 1) \div 400
                   + DaysBefore[r + 1] + LeapDayIn(y, r) + 1
  BY <1>1, <1>2 DEF FirstOf, YearOf, LeapDayIn
<1>7. FirstOf(m) = 365 * (y - 1) + LeapDays(y - 1) + DaysBefore[r + 1]
                   + LeapDayIn(y, r) + 1
  BY <1>3, <1>5, <1>6 DEF LeapDays, LeapDayIn
<1>8. LeapDayIn(y, r) \in Int  BY DEF LeapDayIn
<1> QED  BY <1>4, <1>5, <1>7, <1>8 DEF m

LEMMA NextMonth ==
  ASSUME NEW m \in Int
  PROVE  /\ FirstOf(m) \in Int /\ DaysIn(m) \in 28 .. 31
         /\ FirstOf(m + 1) = FirstOf(m) + DaysIn(m)
<1>1. PICK y \in Int, r \in 0 .. 11 : m = 12 * y + r  BY MonthSplit
<1>2. /\ FirstOf(m) = 365 * (y - 1) + LeapDays(y - 1) + DaysBefore[r + 1] + LeapDayIn(y, r) + 1
      /\ DaysIn(m) = MonthLength(y, r)
      /\ {LeapDays(y - 1), DaysBefore[r + 1], LeapDayIn(y, r)} \subseteq Int
  <2>1. /\ FirstOf(12 * y + r) = 365 * (y - 1) + LeapDays(y - 1) + DaysBefore[r + 1] + LeapDayIn(y, r) + 1
        /\ {LeapDays(y - 1), DaysBefore[r + 1], LeapDayIn(y, r)} \subseteq Int
    BY FirstIs
  <2>2. DaysIn(12 * y + r) = MonthLength(y, r)  BY DaysIs
  <2> QED  BY <1>1, <2>1, <2>2
<1>3. r \in {0, 1, 2, 3, 4, 5, 6, 7, 8, 9, 10, 11}  OBVIOUS
<1>4. FirstOf(m) \in Int /\ DaysIn(m) \in 28 .. 31
  BY <1>2, <1>3, DaysBeforeIs DEF MonthLength, LeapDayIn
<1>5. CASE r # 11
  <2>1. PICK q \in 0 .. 11 : q = r + 1  BY <1>5
  <2>2. /\ FirstOf(12 * y + q) = 365 * (y - 1) + LeapDays(y - 1) + DaysBefore[q + 1] + LeapDayIn(y, q) + 1
        /\ {LeapDays(y - 1), DaysBefore[q + 1], LeapDayIn(y, q)} \subseteq Int
    BY FirstIs
  <2>3. m + 1 = 12 * y + q  BY <1>1, <2>1
  <2>4. DaysBefore[q + 1] + LeapDayIn(y, q) = DaysBefore[r + 1] + LeapDayIn(y, r) + MonthLength(y, r)
    BY <1>3, <1>5, <2>1, DaysBeforeIs DEF LeapDayIn, MonthLength
  <2> QED  BY <1>2, <1>4, <2>2, <2>3, <2>4
<1>6. CASE r = 11
  <2>1. PICK z \in Int, q \in 0 .. 11 : z = y + 1 /\ q = 0  OBVIOUS
  <2>2. /\ FirstOf(12 * z + q) = 365 * (z - 1) + LeapDays(z - 1) + DaysBefore[q + 1] + LeapDayIn(z, q) + 1
        /\ {LeapDays(z - 1), DaysBefore[q + 1], LeapDayIn(z, q)} \subseteq Int
    BY FirstIs
  <2>3. m + 1 = 12 * z + q /\ z - 1 = y  BY <1>1, <1>6, <2>1
  <2>4. DaysBefore[q + 1] = 0 /\ LeapDayIn(z, q) = 0  BY <2>1, DaysBeforeIs DEF LeapDayIn
  <2>5. LeapDays(y) = LeapDays(y - 1) + LeapDayIn(y, r)
    BY <1>2, <1>6, <2>2, <2>3, LeapStep DEF LeapDayIn
  <2>6. DaysBefore[r + 1] = 334 /\ MonthLength(y, r) = 31 /\ LeapDayIn(y, r) \in Int
    BY <1>6, DaysBeforeIs DEF MonthLength, LeapDayIn
  <2> QED  BY <1>2, <1>4, <2>2, <2>3, <2>4, <2>5, <2>6
<1> QED  BY <1>4, <1>5, <1>6

LEMMA ThreeMonthsLong ==
  ASSUME NEW m \in Int
  PROVE  DaysIn(m) + DaysIn(m + 1) + DaysIn(m + 2) \in 89 .. 92
<1>1. \A k \in Int : IF k % 12 = 1 THEN DaysIn(k) \in {28, 29}
                     ELSE IF k % 12 \in {3, 5, 8, 10} THEN DaysIn(k) = 30 ELSE DaysIn(k) = 31
  BY DEF DaysIn
<1>2. m % 12 \in {0, 1, 2, 3, 4, 5, 6, 7, 8, 9, 10, 11}  OBVIOUS
<1>3. /\ m + 1 \in Int /\ m + 2 \in Int
      /\ (m + 1) % 12 = IF m % 12 = 11 THEN 0 ELSE (m % 12) + 1
      /\ (m + 2) % 12 = IF m % 12 = 10 THEN 0 ELSE IF m % 12 = 11 THEN 1 ELSE (m % 12) + 2
  OBVIOUS
<1> DEFINE a == DaysIn(m)
           b == DaysIn(m + 1)
           c == DaysIn(m + 2)
           r == m % 12
<1>4. IF r = 1 THEN a \in {28, 29} ELSE IF r \in {3, 5, 8, 10} THEN a = 30 ELSE a = 31
  BY <1>1
<1>5. IF r = 0 THEN b \in {28, 29} ELSE IF r \in {2, 4, 7, 9} THEN b = 30 ELSE b = 31
  <2>1. IF (m + 1) % 12 = 1 THEN b \in {28, 29}
        ELSE IF (m + 1) % 12 \in {3, 5, 8, 10} THEN b = 30 ELSE b = 31
    BY <1>1, <1>3
  <2> QED  BY <1>2, <1>3, <2>1
<1>6. IF r = 11 THEN c \in {28, 29} ELSE IF r \in {1, 3, 6, 8} THEN c = 30 ELSE c = 31
  <2>1. IF (m + 2) % 12 = 1 THEN c \in {28, 29}
        ELSE IF (m + 2) % 12 \in {3, 5, 8, 10} THEN c = 30 ELSE c = 31
    BY <1>1, <1>3
  <2> QED  BY <1>2, <1>3, <2>1
<1> HIDE DEF a, b, c, r
<1>7. r \in {0, 1, 2, 3, 4, 5, 6, 7, 8, 9, 10, 11}  BY <1>2 DEF r
<1>8. a + b + c \in 89 .. 92  BY <1>4, <1>5, <1>6, <1>7
<1> QED  BY <1>8 DEF a, b, c

(* Three months earlier is 89 to 92 days earlier, whatever months lie      *)
(* between and however short the month is that the date falls into.        *)
LEMMA ThreeMonthsEarlier ==
  ASSUME NEW m \in Int, NEW d \in 1 .. DaysIn(m)
  PROVE  /\ Ordinal([m |-> m, d |-> d]) \in Int
         /\ Ordinal(ShiftMonths([m |-> m, d |-> d], 3)) \in Int
         /\ Ordinal([m |-> m, d |-> d]) - Ordinal(ShiftMonths([m |-> m, d |-> d], 3)) \in 89 .. 92
<1> DEFINE e == IF d > DaysIn(m - 3) THEN DaysIn(m - 3) ELSE d
<1>1. Ordinal([m |-> m, d |-> d]) = FirstOf(m) + d - 1  BY DEF Ordinal
<1>2. Ordinal(ShiftMonths([m |-> m, d |-> d], 3)) = FirstOf(m - 3) + e - 1
  BY DEF Ordinal, ShiftMonths
<1>3. PICK x \in Int, y \in Int, z \in Int : x = m - 3 /\ y = m - 2 /\ z = m - 1
  OBVIOUS
<1>4. x + 1 = y /\ y + 1 = z /\ z + 1 = m /\ x + 2 = z /\ y + 2 = m  BY <1>3
<1>5. /\ FirstOf(x) \in Int /\ FirstOf(y) \in Int /\ FirstOf(z) \in Int /\ FirstOf(m) \in Int
      /\ DaysIn(x) \in 28 .. 31 /\ DaysIn(y) \in 28 .. 31
      /\ DaysIn(z) \in 28 .. 31 /\ DaysIn(m) \in 28 .. 31
  BY NextMonth
<1>6. FirstOf(y) = FirstOf(x) + DaysIn(x) /\ FirstOf(z) = FirstOf(y) + DaysIn(y)
      /\ FirstOf(m) = FirstOf(z) + DaysIn(z)
  <2>1. FirstOf(x + 1) = FirstOf(x) + DaysIn(x) /\ FirstOf(y + 1) = FirstOf(y) + DaysIn(y)
        /\ FirstOf(z + 1) = FirstOf(z) + DaysIn(z)
    BY NextMonth
  <2> QED  BY <1>4, <2>1
<1>7. DaysIn(x) + DaysIn(y) + DaysIn(z) \in 89 .. 92 /\ DaysIn(y) + DaysIn(z) + DaysIn(m) \in 89 .. 92
  <2>1. DaysIn(x) + DaysIn(x + 1) + DaysIn(x + 2) \in 89 .. 92
        /\ DaysIn(y) + DaysIn(y + 1) + DaysIn(y + 2) \in 89 .. 92
    BY ThreeMonthsLong
  <2> QED  BY <1>4, <2>1
<1>8. e = IF d > DaysIn(x) THEN DaysIn(x) ELSE d  BY <1>3
<1>9. FirstOf(m - 3) = FirstOf(x)  BY <1>3
<1> HIDE DEF e
<1>10. e \in Int  BY <1>5, <1>8
<1>11. FirstOf(m) + d - 1 \in Int /\ FirstOf(x) + e - 1 \in Int
      /\ (FirstOf(m) + d - 1) - (FirstOf(x) + e - 1) \in 89 .. 92
  BY <1>5, <1>6, <1>7, <1>8, <1>10
<1> QED  BY <1>1, <1>2, <1>9, <1>11

(* Of 400 years 97 are leap years, or nearly so of less.                   *)
LEMMA LeapRange ==
  ASSUME NEW y \in Int
  PROVE  97 * y - 699 <= 400 * LeapDays(y) /\ 400 * LeapDays(y) <= 97 * y + 396
<1>1. PICK a \in Int, b \in Int, c \in Int : a = y \div 4 /\ b = y \div 100 /\ c = y \div 400
  OBVIOUS
<1>2. 4 * a <= y /\ y <= 4 * a + 3  BY <1>1
<1>3. 100 * b <= y /\ y <= 100 * b + 99  BY <1>1
<1>4. 400 * c <= y /\ y <= 400 * c + 399  BY <1>1
<1>5. LeapDays(y) = a - b + c  BY <1>1 DEF LeapDays
<1> QED  BY <1>2, <1>3, <1>4, <1>5

LEMMA LastYear == LastDay \in Nat /\ 1000 * 48 * 36525 > 100 * LastDay
<1>1. PICK y \in Int, q \in 0 .. 11 : y = 9999 /\ q = 11  OBVIOUS
<1>2. /\ FirstOf(12 * y + q) = 365 * (y - 1) + LeapDays(y - 1) + DaysBefore[q + 1] + LeapDayIn(y, q) + 1
      /\ {LeapDays(y - 1), DaysBefore[q + 1], LeapDayIn(y, q)} \subseteq Int
  BY FirstIs
<1>3. LastDay = FirstOf(12 * y + q) + 30  BY <1>1 DEF LastDay, Ordinal, Date, Month
<1>4. DaysBefore[q + 1] = 334 /\ LeapDayIn(y, q) \in 0 .. 1
  BY <1>1, DaysBeforeIs DEF LeapDayIn
<1>5. 97 * (y - 1) - 699 <= 400 * LeapDays(y - 1) /\ 400 * LeapDays(y - 1) <= 97 * (y - 1) + 396
  BY LeapRange
<1> QED  BY <1>1, <1>2, <1>3, <1>4, <1>5

(* For every day of the calendar of the code the month is found, and the   *)
(* day of it.                                                              *)
LEMMA DateFound ==
  ASSUME NEW n \in 1 .. LastDay
  PROVE  \E m \in Int, d \in Nat :
            DateOf(n) = [m |-> m, d |-> d] /\ d \in 1 .. DaysIn(m) /\ FirstOf(m) + d - 1 = n
<1>1. PICK g \in Nat : g = (n * 100) \div 36525  OBVIOUS
<1>2. 36525 * g <= 100 * n /\ 100 * n < 36525 * (g + 1) /\ g < 48000  BY <1>1, LastYear
<1>3. PICK b \in Int : b = 12 * g - 12  OBVIOUS
<1>4. FirstOf(b) <= n
  <2>1. PICK y \in Int, q \in 0 .. 11 : y = g - 1 /\ q = 0  OBVIOUS
  <2>2. /\ FirstOf(12 * y + q) = 365 * (y - 1) + LeapDays(y - 1) + DaysBefore[q + 1] + LeapDayIn(y, q) + 1
        /\ {LeapDays(y - 1), DaysBefore[q + 1], LeapDayIn(y, q)} \subseteq Int
    BY FirstIs
  <2>3. b = 12 * y + q  BY <1>3, <2>1
  <2>4. DaysBefore[q + 1] = 0 /\ LeapDayIn(y, q) = 0  BY <2>1, DaysBeforeIs DEF LeapDayIn
  <2>5. 400 * LeapDays(y - 1) <= 97 * (y - 1) + 396  BY LeapRange
  <2> QED  BY <1>2, <2>1, <2>2, <2>3, <2>4, <2>5
<1>5. n < FirstOf(b + 48)
  <2>1. PICK y \in Int, q \in 0 .. 11 : y = g + 3 /\ q = 0  OBVIOUS
  <2>2. /\ FirstOf(12 * y + q) = 365 * (y - 1) + LeapDays(y - 1) + DaysBefore[q + 1] + LeapDayIn(y, q) + 1
        /\ {LeapDays(y - 1), DaysBefore[q + 1], LeapDayIn(y, q)} \subseteq Int
    BY FirstIs
  <2>3. b + 48 = 12 * y + q  BY <1>3, <2>1
  <2>4. DaysBefore[q + 1] = 0 /\ LeapDayIn(y, q) = 0  BY <2>1, DaysBeforeIs DEF LeapDayIn
  <2>5. 97 * (y - 1) - 699 <= 400 * LeapDays(y - 1)  BY LeapRange
  <2> QED  BY <1>2, <2>1, <2>2, <2>3, <2>4, <2>5
<1> DEFINE later == {k \in Nat : n < FirstOf(b + k)}
<1>6. 48 \in later /\ later \in SUBSET Nat  BY <1>5
<1>7. PICK k \in later : \A j \in later : k <= j  BY <1>6, Least
<1>8. k \in Nat /\ k <= 48 /\ n < FirstOf(b + k)  BY <1>6, <1>7
<1>9. k # 0
  <2> SUFFICES ASSUME k = 0 PROVE FALSE  OBVIOUS
  <2>1. b + k = b  OBVIOUS
  <2> QED  BY <1>4, <1>8, <2>1, NextMonth
<1>10. PICK m \in Int : m = b + (k - 1)  BY <1>8
<1>11. FirstOf(m) <= n
  <2>1. k - 1 \in Nat /\ ~(k <= k - 1)  BY <1>8, <1>9
  <2>2. k - 1 \notin later  BY <1>7, <2>1
  <2>3. ~(n < FirstOf(m))  BY <1>10, <2>1, <2>2
  <2> QED  BY <2>3, NextMonth
<1>12. n < FirstOf(m + 1)
  <2>1. m + 1 = b + k  BY <1>8, <1>10
  <2> QED  BY <1>8, <2>1
<1> HIDE DEF later
<1>13. m \in 12 * g - 12 .. 12 * g + 36  BY <1>3, <1>8, <1>9, <1>10
<1> DEFINE guess == 12 * ((n * 100) \div 36525)
           found == CHOOSE x \in guess - 12 .. guess + 36 : FirstOf(x) <= n /\ n < FirstOf(x + 1)
<1>14. found \in guess - 12 .. guess + 36 /\ FirstOf(found) <= n /\ n < FirstOf(found + 1)
  <2>1. guess = 12 * g  BY <1>1
  <2>2. \E x \in guess - 12 .. guess + 36 : FirstOf(x) <= n /\ n < FirstOf(x + 1)
    BY <1>11, <1>12, <1>13, <2>1
  <2> QED  BY <2>2
<1>15. found \in Int
  <2>1. guess \in Int  BY <1>1
  <2> QED  BY <1>14, <2>1
<1>16. DateOf(n) = [m |-> found, d |-> n - FirstOf(found) + 1]  BY DEF DateOf
<1> HIDE DEF found
<1>17. FirstOf(found) \in Int /\ DaysIn(found) \in 28 .. 31 /\ FirstOf(found + 1) = FirstOf(found) + DaysIn(found)
  BY <1>15, NextMonth
<1>18. PICK d \in Int : d = n - FirstOf(found) + 1  BY <1>17
<1>19. d \in 1 .. DaysIn(found) /\ FirstOf(found) + d - 1 = n  BY <1>14, <1>17, <1>18
<1> QED  BY <1>15, <1>16, <1>18, <1>19

(* So many months are so many days, each of 28 to 31.                      *)
LEMMA MonthsApart ==
  ASSUME NEW m \in Int, NEW j \in Nat
  PROVE  /\ FirstOf(m) \in Int /\ FirstOf(m + j) \in Int
         /\ FirstOf(m) + 28 * j <= FirstOf(m + j) /\ FirstOf(m + j) <= FirstOf(m) + 31 * j
<1> DEFINE Good(n) == FirstOf(m) + 28 * n <= FirstOf(m + n) /\ FirstOf(m + n) <= FirstOf(m) + 31 * n
           Bad == {n \in Nat : ~Good(n)}
<1>1. \A k \in Int : FirstOf(k) \in Int /\ DaysIn(k) \in 28 .. 31
                     /\ FirstOf(k + 1) = FirstOf(k) + DaysIn(k)
  BY NextMonth
<1>2. Bad = {}
  <2> SUFFICES ASSUME Bad # {} PROVE FALSE  OBVIOUS
  <2>1. Bad \in SUBSET Nat  OBVIOUS
  <2>2. PICK n \in Bad : \A i \in Bad : n <= i  BY <2>1, Least
  <2>3. n \in Nat /\ ~Good(n)  BY <2>2
  <2>4. n # 0
    <3>1. m + 0 = m /\ FirstOf(m) \in Int  BY <1>1
    <3>2. Good(0)  BY <3>1
    <3> QED  BY <2>3, <3>2
  <2>5. n - 1 \in Nat /\ ~(n <= n - 1)  BY <2>3, <2>4
  <2>6. Good(n - 1)  BY <2>2, <2>5
  <2>7. m + n = (m + (n - 1)) + 1 /\ m + (n - 1) \in Int  BY <2>3
  <2>8. PICK k \in Int : k = m + (n - 1)  BY <2>7
  <2>9. FirstOf(m + n) = FirstOf(k) + DaysIn(k)
    <3>1. m + n = k + 1  BY <2>7, <2>8
    <3> QED  BY <1>1, <2>8, <3>1
  <2>10. FirstOf(m) + 28 * (n - 1) <= FirstOf(k) /\ FirstOf(k) <= FirstOf(m) + 31 * (n - 1)
    BY <2>6, <2>8
  <2>11. FirstOf(k) \in Int /\ DaysIn(k) \in 28 .. 31 /\ FirstOf(m) \in Int  BY <1>1, <2>8
  <2>12. Good(n)  BY <2>3, <2>9, <2>10, <2>11
  <2> QED  BY <2>3, <2>12
<1>3. Good(j)  BY <1>2
<1>4. m + j \in Int  OBVIOUS
<1> QED  BY <1>1, <1>3, <1>4

LEMMA LaterMonth ==
  ASSUME NEW m \in Int, NEW k \in Int
  PROVE  m < k => FirstOf(m) + 28 <= FirstOf(k)
<1> SUFFICES ASSUME m < k PROVE FirstOf(m) + 28 <= FirstOf(k)  OBVIOUS
<1>1. PICK j \in Nat : j = k - m  OBVIOUS
<1>2. k = m + j /\ j >= 1  BY <1>1
<1>3. FirstOf(m) + 28 * j <= FirstOf(m + j) /\ FirstOf(m) \in Int /\ FirstOf(m + j) \in Int
  BY MonthsApart
<1>4. FirstOf(k) = FirstOf(m + j)  BY <1>2
<1> QED  BY <1>2, <1>3, <1>4

(* A chart of three years has room for 40 months.                          *)
LEMMA FortyMonths ==
  ASSUME NEW m \in Int
  PROVE  FirstOf(m) + 1185 <= FirstOf(m + 40)
<1> DEFINE Good(n) == FirstOf(m) + 89 * n <= FirstOf(m + 3 * n)
           Bad == {n \in Nat : ~Good(n)}
<1>1. \A k \in Int : FirstOf(k) \in Int /\ DaysIn(k) \in 28 .. 31
                     /\ FirstOf(k + 1) = FirstOf(k) + DaysIn(k)
  BY NextMonth
<1>2. Bad = {}
  <2> SUFFICES ASSUME Bad # {} PROVE FALSE  OBVIOUS
  <2>1. Bad \in SUBSET Nat  OBVIOUS
  <2>2. PICK n \in Bad : \A i \in Bad : n <= i  BY <2>1, Least
  <2>3. n \in Nat /\ ~Good(n)  BY <2>2
  <2>4. n # 0
    <3>1. m + 3 * 0 = m /\ FirstOf(m) \in Int  BY <1>1
    <3>2. Good(0)  BY <3>1
    <3> QED  BY <2>3, <3>2
  <2>5. n - 1 \in Nat /\ ~(n <= n - 1)  BY <2>3, <2>4
  <2>6. Good(n - 1)  BY <2>2, <2>5
  <2>7. PICK x \in Int, y \in Int, z \in Int : x = m + 3 * (n - 1) /\ y = x + 1 /\ z = x + 2
    BY <2>3
  <2>8. FirstOf(m) + 89 * (n - 1) <= FirstOf(x)  BY <2>6, <2>7
  <2>9. FirstOf(y) = FirstOf(x) + DaysIn(x) /\ FirstOf(z) = FirstOf(y) + DaysIn(y)
        /\ FirstOf(z + 1) = FirstOf(z) + DaysIn(z)
    <3>1. z = y + 1  BY <2>7
    <3>2. FirstOf(x + 1) = FirstOf(x) + DaysIn(x) /\ FirstOf(y + 1) = FirstOf(y) + DaysIn(y)
      BY <1>1
    <3> QED  BY <1>1, <2>7, <3>1, <3>2
  <2>10. DaysIn(x) + DaysIn(y) + DaysIn(z) \in 89 .. 92
    <3>1. DaysIn(x) + DaysIn(x + 1) + DaysIn(x + 2) \in 89 .. 92  BY ThreeMonthsLong
    <3> QED  BY <2>7, <3>1
  <2>11. m + 3 * n = z + 1  BY <2>3, <2>7
  <2>12. FirstOf(m) \in Int /\ FirstOf(x) \in Int /\ FirstOf(y) \in Int /\ FirstOf(z) \in Int
         /\ DaysIn(x) \in Int /\ DaysIn(y) \in Int /\ DaysIn(z) \in Int
    BY <1>1
  <2>13. FirstOf(m) + 89 * n <= FirstOf(z + 1)  BY <2>3, <2>8, <2>9, <2>10, <2>12
  <2>14. Good(n)  BY <2>11, <2>13
  <2> QED  BY <2>3, <2>14
<1>3. Good(13)  BY <1>2
<1>4. PICK k \in Int : k = m + 39  OBVIOUS
<1>5. FirstOf(k + 1) = FirstOf(k) + DaysIn(k) /\ DaysIn(k) \in 28 .. 31 /\ FirstOf(k) \in Int
      /\ FirstOf(m) \in Int
  BY <1>1
<1>6. m + 40 = k + 1 /\ m + 3 * 13 = k  BY <1>4
<1>7. FirstOf(m) + 89 * 13 <= FirstOf(k)  BY <1>3, <1>6
<1> QED  BY <1>5, <1>6, <1>7

(* A day of the calendar is of one month only.                              *)
LEMMA DateIs ==
  ASSUME NEW m \in Int, NEW d \in 1 .. DaysIn(m), FirstOf(m) + d - 1 \in 1 .. LastDay
  PROVE  DateOf(FirstOf(m) + d - 1) = [m |-> m, d |-> d]
<1> DEFINE n == FirstOf(m) + d - 1
<1>1. PICK k \in Int, e \in Nat :
        DateOf(n) = [m |-> k, d |-> e] /\ e \in 1 .. DaysIn(k) /\ FirstOf(k) + e - 1 = n
  BY DateFound
<1>2. /\ FirstOf(m) \in Int /\ FirstOf(k) \in Int /\ DaysIn(m) \in 28 .. 31 /\ DaysIn(k) \in 28 .. 31
      /\ FirstOf(m + 1) = FirstOf(m) + DaysIn(m) /\ FirstOf(k + 1) = FirstOf(k) + DaysIn(k)
  BY NextMonth
<1>3. ~(m < k)
  <2> SUFFICES ASSUME m < k PROVE FALSE  OBVIOUS
  <2>1. m + 1 = k \/ m + 1 < k  OBVIOUS
  <2>2. m + 1 \in Int /\ FirstOf(m + 1) \in Int  BY <1>2
  <2>3. FirstOf(m + 1) <= FirstOf(k)  BY <2>1, <2>2, <1>2, LaterMonth
  <2> QED  BY <1>1, <1>2, <2>3
<1>4. ~(k < m)
  <2> SUFFICES ASSUME k < m PROVE FALSE  OBVIOUS
  <2>1. k + 1 = m \/ k + 1 < m  OBVIOUS
  <2>2. k + 1 \in Int /\ FirstOf(k + 1) \in Int  BY <1>2
  <2>3. FirstOf(k + 1) <= FirstOf(m)  BY <2>1, <2>2, <1>2, LaterMonth
  <2> QED  BY <1>1, <1>2, <2>3
<1>5. k = m /\ e = d  BY <1>1, <1>2, <1>3, <1>4
<1> QED  BY <1>1, <1>5

(* Three months before a day of the calendar.                              *)
LEMMA TermOfDay ==
  ASSUME NEW n \in 1 .. LastDay
  PROVE  /\ Ordinal(ShiftMonths(DateOf(n), 3)) \in Int
         /\ n - Ordinal(ShiftMonths(DateOf(n), 3)) \in 89 .. 92
<1>1. PICK m \in Int, d \in Nat :
        DateOf(n) = [m |-> m, d |-> d] /\ d \in 1 .. DaysIn(m) /\ FirstOf(m) + d - 1 = n
  BY DateFound
<1>2. Ordinal([m |-> m, d |-> d]) = n  BY <1>1 DEF Ordinal
<1> QED  BY <1>1, <1>2, ThreeMonthsEarlier

(***************************************************************************)
(* The tare over time.                                                     *)
(***************************************************************************)
Moment == {Moments[i] : i \in DOMAIN Moments}

LEMMA MomentIs ==
  /\ Moment \subseteq Nat \ {0}
  /\ \A i \in DOMAIN Moments : Moments[i] \in Moment
  /\ \A i, j \in DOMAIN Moments : i <= j => Moments[i] <= Moments[j]
<1>1. \A i \in DOMAIN Moments : Moments[i] \in Nat \ {0}
  <2> SUFFICES ASSUME NEW i \in DOMAIN Moments PROVE Moments[i] \in Nat \ {0}  OBVIOUS
  <2>1. Moments[i] \in Nat /\ Moments[i] \div 2 \in 1 .. LastDay  BY MomentAssumption
  <2>2. Moments[i] # 0
    <3> SUFFICES ASSUME Moments[i] = 0 PROVE FALSE  OBVIOUS
    <3>1. 0 \div 2 \in 1 .. LastDay  BY <2>1
    <3>2. 0 \div 2 = 0  OBVIOUS
    <3> QED  BY <3>1, <3>2
  <2> QED  BY <2>1, <2>2
<1>2. ASSUME NEW i \in DOMAIN Moments, NEW j \in DOMAIN Moments, i <= j
      PROVE  Moments[i] <= Moments[j]
  <2>1. i \in Nat /\ j \in Nat /\ Moments[i] \in Nat /\ Moments[j] \in Nat
    BY <1>1, MomentAssumption
  <2>2. i < j => Moments[i] < Moments[j]  BY MomentAssumption
  <2> QED  BY <1>2, <2>1, <2>2
<1> QED  BY <1>1, <1>2 DEF Moment

(* The term of a weighing goes back 89 to 92 days.                         *)
LEMMA TermIs ==
  ASSUME NEW m \in Moment
  PROVE  TermFrom[m] \in Int /\ m - TermFrom[m] >= 2 * 89 /\ m - TermFrom[m] <= 2 * 92
<1>1. m \in Nat /\ m \div 2 \in 1 .. LastDay  BY MomentAssumption DEF Moment
<1>2. TermFrom[m] = 2 * Ordinal(ShiftMonths(DateOf(m \div 2), 3)) + (m % 2)
  BY DEF TermFrom, Moment, ThreeMonthsBefore
<1>3. PICK n \in 1 .. LastDay : n = m \div 2  BY <1>1
<1>4. PICK o \in Int : o = Ordinal(ShiftMonths(DateOf(n), 3)) /\ n - o \in 89 .. 92
  BY TermOfDay
<1>5. n \in Int /\ m = 2 * n + (m % 2) /\ m % 2 \in 0 .. 1  BY <1>1, <1>3, LastYear
<1>6. TermFrom[m] = 2 * o + (m % 2)  BY <1>2, <1>3, <1>4
<1> QED  BY <1>4, <1>5, <1>6

(* The newest record of a set; no two are of one moment.                   *)
NewestIn(recs, S) ==
  IF S = {} THEN NoTare
  ELSE CHOOSE t \in S : \A u \in S :
         recs[u].at < recs[t].at \/ (recs[u].at = recs[t].at /\ u <= t)

Apart(recs, S) ==
  /\ \A u \in S : u \in Nat /\ recs[u].at \in Moment
  /\ \A u, v \in S : u # v => recs[u].at # recs[v].at

LEMMA NewestFound ==
  ASSUME NEW recs, NEW S, S # {}, Apart(recs, S)
  PROVE  NewestIn(recs, S) \in S /\ \A u \in S : recs[u].at <= recs[NewestIn(recs, S)].at
<1>1. PICK B \in Nat : \A m \in Moment : m <= B
  <2>1. Len(Moments) \in DOMAIN Moments /\ \A i \in DOMAIN Moments : i <= Len(Moments)
    BY MomentAssumption
  <2>2. \A i \in DOMAIN Moments : Moments[i] <= Moments[Len(Moments)]  BY <2>1, MomentIs
  <2>3. Moments[Len(Moments)] \in Nat  BY <2>1, MomentAssumption
  <2> QED  BY <2>2, <2>3 DEF Moment
<1> DEFINE V == {B - recs[u].at : u \in S}
<1>2. \A u \in S : recs[u].at \in Nat /\ recs[u].at <= B /\ u \in Nat
  BY <1>1, MomentIs DEF Apart
<1>3. V \in SUBSET Nat /\ V # {}  BY <1>1, <1>2
<1>4. PICK v \in V : \A w \in V : v <= w  BY <1>3, Least
<1>5. PICK t \in S : v = B - recs[t].at  BY <1>4
<1>6. \A u \in S : recs[u].at <= recs[t].at
  <2> SUFFICES ASSUME NEW u \in S PROVE recs[u].at <= recs[t].at  OBVIOUS
  <2>1. B - recs[t].at <= B - recs[u].at  BY <1>4, <1>5
  <2> QED  BY <1>1, <1>2, <2>1
<1>7. \A u \in S : recs[u].at < recs[t].at \/ (recs[u].at = recs[t].at /\ u <= t)
  <2> SUFFICES ASSUME NEW u \in S
      PROVE  recs[u].at < recs[t].at \/ (recs[u].at = recs[t].at /\ u <= t)
    OBVIOUS
  <2>1. CASE u = t  BY <1>2, <2>1
  <2>2. CASE u # t
    <3>1. recs[u].at # recs[t].at  BY <2>2 DEF Apart
    <3> QED  BY <1>2, <1>6, <3>1
  <2> QED  BY <2>1, <2>2
<1>8. /\ NewestIn(recs, S) \in S
      /\ \A u \in S : recs[u].at < recs[NewestIn(recs, S)].at
                      \/ (recs[u].at = recs[NewestIn(recs, S)].at /\ u <= NewestIn(recs, S))
  BY <1>7 DEF NewestIn
<1> QED  BY <1>2, <1>8

LEMMA NewestOnly ==
  ASSUME NEW recs, NEW S, Apart(recs, S), NEW t \in S, \A u \in S : recs[u].at <= recs[t].at
  PROVE  NewestIn(recs, S) = t
<1> DEFINE n == NewestIn(recs, S)
<1>1. n \in S /\ recs[t].at <= recs[n].at  BY NewestFound
<1> HIDE DEF n
<1>2. recs[n].at \in Nat /\ recs[t].at \in Nat  BY <1>1, MomentIs DEF Apart
<1>3. recs[n].at = recs[t].at  BY <1>1, <1>2
<1>4. n = t  BY <1>1, <1>3 DEF Apart
<1> QED  BY <1>4 DEF n

LEMMA NewestSame ==
  ASSUME NEW recs, NEW more, NEW S, Apart(recs, S), \A u \in S : more[u].at = recs[u].at
  PROVE  NewestIn(more, S) = NewestIn(recs, S) /\ Apart(more, S)
<1>1. Apart(more, S)  BY DEF Apart
<1>2. CASE S = {}
  <2>1. \A any : NewestIn(any, S) = NoTare  BY <1>2 DEF NewestIn
  <2> QED  BY <1>1, <2>1
<1>3. CASE S # {}
  <2>1. NewestIn(recs, S) \in S /\ \A u \in S : recs[u].at <= recs[NewestIn(recs, S)].at
    BY <1>3, NewestFound
  <2> QED  BY <1>1, <2>1, NewestOnly
<1> QED  BY <1>1, <1>2, <1>3

(* A record more: the later one is the newest.                             *)
LEMMA NewestAdds ==
  ASSUME NEW recs, NEW S, NEW r, Apart(recs, S \cup {r})
  PROVE  NewestIn(recs, S \cup {r}) =
           IF S # {} /\ recs[r].at < recs[NewestIn(recs, S)].at THEN NewestIn(recs, S) ELSE r
<1> DEFINE n == NewestIn(recs, S)
<1>1. Apart(recs, S)  BY DEF Apart
<1>2. S # {} => n \in S /\ \A u \in S : recs[u].at <= recs[n].at  BY <1>1, NewestFound
<1> HIDE DEF n
<1>3. \A u \in S \cup {r} : recs[u].at \in Nat  BY MomentIs DEF Apart
<1>4. CASE S # {} /\ recs[r].at < recs[n].at
  <2>1. \A u \in S \cup {r} : recs[u].at <= recs[n].at  BY <1>2, <1>3, <1>4
  <2>2. NewestIn(recs, S \cup {r}) = n  BY <1>2, <1>4, <2>1, NewestOnly
  <2> QED  BY <1>4, <2>2 DEF n
<1>5. CASE ~(S # {} /\ recs[r].at < recs[n].at)
  <2>1. \A u \in S \cup {r} : recs[u].at <= recs[r].at
    <3> SUFFICES ASSUME NEW u \in S \cup {r} PROVE recs[u].at <= recs[r].at  OBVIOUS
    <3>1. CASE u = r  BY <1>3, <3>1
    <3>2. CASE u \in S
      <4>1. recs[u].at <= recs[n].at /\ n \in S /\ ~(recs[r].at < recs[n].at)  BY <1>2, <1>5, <3>2
      <4> QED  BY <1>3, <4>1
    <3> QED  BY <3>1, <3>2
  <2>2. NewestIn(recs, S \cup {r}) = r  BY <2>1, NewestOnly
  <2> QED  BY <1>5, <2>2 DEF n
<1> QED  BY <1>4, <1>5

Record == [kind : {"taring", "weighing"}, at : Moment, mass : Nat, src : {"scale", "import"},
           known : {0} \cup Moment, tare : Nat]

StoryShape ==
  /\ clock \in DOMAIN Moments
  /\ records \in Seq(Record) /\ Len(records) <= MaxRecords
  /\ annulled \subseteq {r \in Rec : InJournal(r)}
  /\ pcTare \in {NoTare} \cup Tarings
  /\ command \in [pc : {"none", "hinted", "answer"}, hint : {NoTare} \cup Tarings, rec : {NoTare} \cup Rec]

(* Records are of different moments, none of them still to come, and a     *)
(* weighing is in the journal at once.                                     *)
InTheirTime ==
  /\ \A r \in Rec : records[r].at <= now /\ records[r].known <= now
  /\ \A r, s \in Rec : r # s => records[r].at # records[s].at
  /\ \A r \in Rec : records[r].kind = "weighing" => InJournal(r)

(* Whether t may be the tare of a weighing of so much then.                *)
MayServe(t, at, mass, recs, tarings) ==
  /\ t \in tarings
  /\ recs[t].at <= at /\ recs[t].at >= TermFrom[at] /\ recs[t].mass < mass

TareSound ==
  \A w \in Rec : records[w].kind = "weighing" /\ records[w].tare # NoTare =>
    MayServe(records[w].tare, records[w].at, records[w].mass, records, Tarings)

(* The tare of a command is of the term while the command is on its way,   *)
(* and the record it led to has it when it is below the gross weight.      *)
CommandSound ==
  /\ command.pc = "hinted" /\ command.hint # NoTare => records[command.hint].at >= TermFrom[now]
  /\ command.pc = "answer" =>
       /\ command.rec \in Rec
       /\ records[command.rec].tare = Applied(command.hint, records[command.rec].mass)

RegistryIsNewest == registry = Newest(Valid)

StoryIInv ==
  StoryShape /\ InTheirTime /\ TareSound /\ CommandSound /\ RegistryIsNewest

(* What the records of a set are, for the lemmas on the newest of them.    *)
LEMMA RecordsAre ==
  ASSUME StoryIInv
  PROVE  /\ Len(records) \in Nat /\ Rec = 1 .. Len(records)
         /\ \A r \in Rec : records[r] \in Record
         /\ now \in Moment
         /\ \A S \in SUBSET Rec : Apart(records, S)
         /\ Tarings \subseteq Rec /\ Valid \subseteq Tarings
         /\ \A S : Newest(S) = NewestIn(records, S)
<1>1. records \in Seq(Record) /\ clock \in DOMAIN Moments  BY DEF StoryIInv, StoryShape
<1>2. Len(records) \in Nat /\ Rec = 1 .. Len(records) /\ \A r \in Rec : records[r] \in Record
  BY <1>1 DEF Rec
<1>3. now \in Moment  BY <1>1, MomentIs DEF now
<1>4. ASSUME NEW S \in SUBSET Rec PROVE Apart(records, S)
  <2>1. \A u \in S : u \in Nat /\ records[u].at \in Moment  BY <1>2 DEF Record
  <2> QED  BY <2>1 DEF Apart, StoryIInv, InTheirTime
<1>5. Tarings \subseteq Rec /\ Valid \subseteq Tarings  BY DEF Tarings, Valid
<1>6. \A S : Newest(S) = NewestIn(records, S)  BY DEF Newest, NewestIn
<1> QED  BY <1>2, <1>3, <1>4, <1>5, <1>6

LEMMA StoryStarts == StoryInit => StoryIInv
<1> SUFFICES ASSUME StoryInit PROVE StoryIInv  OBVIOUS
<1> USE DEF StoryInit
<1>1. records = <<>> /\ Rec = {}  BY DEF Rec
<1>2. <<>> \in Seq(Record)  OBVIOUS
<1>3. 1 \in DOMAIN Moments  BY MomentAssumption
<1>4. Tarings = {} /\ Valid = {}  BY <1>1 DEF Tarings, Valid
<1>5. StoryShape  BY <1>1, <1>2, <1>3, StoryBounds DEF StoryShape, NoTare
<1>6. InTheirTime /\ TareSound  BY <1>1 DEF InTheirTime, TareSound
<1>7. CommandSound  BY DEF CommandSound, NoTare
<1>8. RegistryIsNewest  BY <1>4 DEF RegistryIsNewest, Newest
<1> QED  BY <1>5, <1>6, <1>7, <1>8 DEF StoryIInv

(* The tare found in the registry or in the replica is of the term.        *)
LEMMA ActiveIs ==
  ASSUME StoryIInv, NEW row \in {NoTare} \cup Tarings
  PROVE  /\ ActiveAt(row, now) \in {NoTare} \cup Tarings
         /\ ActiveAt(row, now) # NoTare => records[ActiveAt(row, now)].at >= TermFrom[now]
BY DEF ActiveAt

(* Applied to a gross weight it is one that may serve.                     *)
LEMMA AppliedServes ==
  ASSUME StoryIInv, NEW row \in {NoTare} \cup Tarings, NEW gross \in Nat,
         row # NoTare => records[row].at >= TermFrom[now]
  PROVE  /\ Applied(row, gross) \in {NoTare} \cup Tarings
         /\ Applied(row, gross) # NoTare => MayServe(Applied(row, gross), now, gross, records, Tarings)
<1>1. row # NoTare => records[row].at <= now
  BY RecordsAre DEF StoryIInv, InTheirTime
<1> QED  BY <1>1 DEF Applied, BelowGross, MayServe

(* A record more, of a moment no other is of.                              *)
LEMMA RecordAdded ==
  ASSUME StoryIInv, Room, NEW e \in Record, e.at <= now, e.known <= now, Free(e.at),
         e.kind = "weighing" => e.known # 0,
         e.kind = "weighing" /\ e.tare # NoTare => MayServe(e.tare, e.at, e.mass, records, Tarings),
         records' = Append(records, e), UNCHANGED <<clock, annulled>>
  PROVE  LET n == Len(records) + 1 IN
         /\ n \in Nat \ {0} /\ n \notin Rec /\ Rec' = Rec \cup {n}
         /\ \A r \in Rec : records'[r] = records[r]
         /\ records'[n] = e
         /\ records' \in Seq(Record) /\ Len(records') <= MaxRecords
         /\ annulled' \subseteq {r \in Rec' : InJournal(r)'}
         /\ Tarings' = Tarings \cup (IF e.kind = "taring" /\ e.known # 0 THEN {n} ELSE {})
         /\ Valid' = Valid \cup (IF e.kind = "taring" /\ e.known # 0 THEN {n} ELSE {})
         /\ InTheirTime' /\ TareSound'
         /\ Apart(records', Rec') /\ now' = now
<1>1. /\ records \in Seq(Record) /\ Len(records) \in Nat /\ Rec = 1 .. Len(records)
      /\ \A r \in Rec : records[r] \in Record
  BY RecordsAre DEF StoryIInv, StoryShape
<1>0. PICK n \in Nat : n = Len(records) + 1  BY <1>1
<1>2. /\ n \in Nat \ {0} /\ n \notin Rec /\ Rec' = Rec \cup {n} /\ records' \in Seq(Record)
      /\ Len(records') = n
  BY <1>0, <1>1 DEF Rec
<1>3. (\A r \in Rec : records'[r] = records[r]) /\ records'[n] = e
  BY <1>0, <1>1
<1>4. Len(records') <= MaxRecords  BY <1>0, <1>1, <1>2, StoryBounds DEF Room
<1>5. now' = now  BY DEF now
<1>6. \A r \in Rec : InJournal(r)' <=> InJournal(r)  BY <1>3 DEF InJournal
<1>7. InJournal(n)' <=> e.known # 0  BY <1>3 DEF InJournal
<1>8. annulled \subseteq Rec /\ \A r \in annulled : InJournal(r)
  BY DEF StoryIInv, StoryShape
<1>9. annulled' \subseteq {r \in Rec' : InJournal(r)'}  BY <1>2, <1>6, <1>8
<1>10. Tarings' = Tarings \cup (IF e.kind = "taring" /\ e.known # 0 THEN {n} ELSE {})
  <2>1. Tarings' = {r \in Rec \cup {n} : records'[r].kind = "taring" /\ InJournal(r)'}
    BY <1>2 DEF Tarings
  <2>2. \A r \in Rec : (records'[r].kind = "taring" /\ InJournal(r)') <=> r \in Tarings
    BY <1>3, <1>6 DEF Tarings
  <2>3. (records'[n].kind = "taring" /\ InJournal(n)') <=> (e.kind = "taring" /\ e.known # 0)
    BY <1>3, <1>7
  <2>4. Tarings \subseteq Rec  BY DEF Tarings
  <2> DEFINE new == {r \in Rec \cup {n} : records'[r].kind = "taring" /\ InJournal(r)'}
  <2>5. \A r : r \in new <=> r \in Tarings \/ (r = n /\ e.kind = "taring" /\ e.known # 0)
    BY <1>2, <2>2, <2>3, <2>4
  <2> HIDE DEF new
  <2>6. new = Tarings \cup (IF e.kind = "taring" /\ e.known # 0 THEN {n} ELSE {})  BY <2>5
  <2> QED  BY <2>1, <2>6 DEF new
<1>11. Valid' = Valid \cup (IF e.kind = "taring" /\ e.known # 0 THEN {n} ELSE {})
  <2>1. n \notin annulled  BY <1>2, <1>8
  <2> QED  BY <1>10, <2>1 DEF Valid
<1>12. InTheirTime'
  <2>1. \A r \in Rec' : records'[r].at <= now' /\ records'[r].known <= now'
    BY <1>2, <1>3, <1>5 DEF StoryIInv, InTheirTime
  <2>2. ASSUME NEW r \in Rec', NEW s \in Rec', r # s PROVE records'[r].at # records'[s].at
    <3>1. \A q \in Rec : records[q].at # e.at  BY DEF Free
    <3>2. CASE r \in Rec /\ s \in Rec
      BY <1>3, <2>2, <3>2 DEF StoryIInv, InTheirTime
    <3>3. CASE r = n /\ s \in Rec  BY <1>3, <3>1, <3>3
    <3>4. CASE r \in Rec /\ s = n  BY <1>3, <3>1, <3>4
    <3> QED  BY <1>2, <2>2, <3>2, <3>3, <3>4
  <2>3. \A r \in Rec' : records'[r].kind = "weighing" => InJournal(r)'
    <3>1. \A r \in Rec : records'[r].kind = "weighing" => InJournal(r)'
      BY <1>3, <1>6 DEF StoryIInv, InTheirTime
    <3> QED  BY <1>2, <1>3, <1>7, <3>1
  <2> QED  BY <2>1, <2>2, <2>3 DEF InTheirTime
<1>13. ASSUME NEW t, NEW at, NEW mass, MayServe(t, at, mass, records, Tarings)
       PROVE  MayServe(t, at, mass, records', Tarings')
  <2>1. t \in Tarings /\ t \in Rec  BY <1>13 DEF MayServe, Tarings
  <2>2. t \in Tarings' /\ records'[t] = records[t]  BY <1>3, <1>10, <2>1
  <2> QED  BY <1>13, <2>2 DEF MayServe
<1>14. TareSound'
  <2>1. ASSUME NEW w \in Rec', records'[w].kind = "weighing", records'[w].tare # NoTare
        PROVE  MayServe(records'[w].tare, records'[w].at, records'[w].mass, records', Tarings')
    <3>1. MayServe(records'[w].tare, records'[w].at, records'[w].mass, records, Tarings)
      <4>1. CASE w \in Rec  BY <1>3, <2>1, <4>1 DEF StoryIInv, TareSound
      <4>2. CASE w = n  BY <1>3, <2>1, <4>2
      <4> QED  BY <1>2, <4>1, <4>2
    <3> QED  BY <1>13, <3>1
  <2> QED  BY <2>1 DEF TareSound
<1>15. Apart(records', Rec')
  <2>1. \A u \in Rec' : u \in Nat /\ records'[u].at \in Moment
    BY <1>1, <1>2, <1>3 DEF Record
  <2> QED  BY <1>12, <2>1 DEF Apart, InTheirTime
<1> QED
  BY <1>0, <1>2, <1>3, <1>4, <1>5, <1>9, <1>10, <1>11, <1>12, <1>14, <1>15

LEMMA RegistryKept ==
  ASSUME StoryIInv, Valid' = Valid, registry' = registry,
         \A u \in Rec : records'[u].at = records[u].at
  PROVE  RegistryIsNewest'
<1>1. registry = NewestIn(records, Valid) /\ Valid \subseteq Rec /\ Apart(records, Valid)
  BY RecordsAre DEF StoryIInv, RegistryIsNewest
<1>2. NewestIn(records', Valid) = NewestIn(records, Valid)  BY <1>1, NewestSame
<1>3. Newest(Valid)' = NewestIn(records', Valid')  BY DEF Newest, NewestIn
<1> QED  BY <1>1, <1>2, <1>3 DEF RegistryIsNewest

(* Upsert: one valid taring more.                                          *)
LEMMA RegistryAdded ==
  ASSUME StoryIInv, NEW r, r \in Rec', r \notin Valid, Valid' = Valid \cup {r}, Upsert(r),
         Apart(records', Rec'), Rec \subseteq Rec',
         \A u \in Rec : records'[u].at = records[u].at
  PROVE  RegistryIsNewest'
<1>1. registry = NewestIn(records, Valid) /\ Valid \subseteq Rec /\ Apart(records, Valid)
  BY RecordsAre DEF StoryIInv, RegistryIsNewest
<1>2. NewestIn(records', Valid) = registry  BY <1>1, NewestSame
<1>3. Apart(records', Valid \cup {r})  BY <1>1 DEF Apart
<1>4. NewestIn(records', Valid \cup {r}) =
        IF Valid # {} /\ records'[r].at < records'[registry].at THEN registry ELSE r
  <2>1. NewestIn(records', Valid \cup {r}) =
          IF Valid # {} /\ records'[r].at < records'[NewestIn(records', Valid)].at
          THEN NewestIn(records', Valid) ELSE r
    BY <1>3, NewestAdds
  <2> QED  BY <1>2, <2>1
<1>5. Valid # {} => registry \in Valid  BY <1>1, NewestFound
<1>6. registry # NoTare <=> Valid # {}
  <2>1. \A u \in Rec : u # NoTare  BY RecordsAre DEF NoTare
  <2>2. Valid = {} => registry = NoTare  BY <1>1 DEF NewestIn
  <2> QED  BY <1>1, <1>5, <2>1, <2>2
<1>7. Valid # {} => records'[registry].at = records[registry].at  BY <1>1, <1>5
<1>8. registry' = IF registry # NoTare /\ records'[r].at < records[registry].at THEN registry ELSE r
  BY DEF Upsert
<1>9. registry' = NewestIn(records', Valid')  BY <1>4, <1>6, <1>7, <1>8
<1>10. Newest(Valid)' = NewestIn(records', Valid')  BY DEF Newest, NewestIn
<1> QED  BY <1>9, <1>10 DEF RegistryIsNewest

(* The command and the replica, when records only come in.                 *)
LEMMA CommandKept ==
  ASSUME StoryIInv, UNCHANGED command, Rec \subseteq Rec', Tarings \subseteq Tarings',
         \A r \in Rec : records'[r].at = records[r].at /\ records'[r].mass = records[r].mass
                        /\ records'[r].tare = records[r].tare,
         command.pc = "hinted" => now' = now
  PROVE  /\ CommandSound'
         /\ command' \in [pc : {"none", "hinted", "answer"}, hint : {NoTare} \cup Tarings',
                          rec : {NoTare} \cup Rec']
<1>1. command \in [pc : {"none", "hinted", "answer"}, hint : {NoTare} \cup Tarings, rec : {NoTare} \cup Rec]
  BY DEF StoryIInv, StoryShape
<1>2. Tarings \subseteq Rec  BY DEF Tarings
<1>3. command' \in [pc : {"none", "hinted", "answer"}, hint : {NoTare} \cup Tarings', rec : {NoTare} \cup Rec']
  BY <1>1
<1>4. command.hint \in {NoTare} \cup Rec  BY <1>1, <1>2
<1>5. CommandSound'
  <2>1. ASSUME command.pc = "hinted", command.hint # NoTare
        PROVE  records'[command.hint].at >= TermFrom[now']
    BY <1>4, <2>1 DEF StoryIInv, CommandSound
  <2>2. ASSUME command.pc = "answer"
        PROVE  /\ command.rec \in Rec'
               /\ records'[command.rec].tare =
                    IF command.hint # NoTare /\ records'[command.hint].mass < records'[command.rec].mass
                    THEN command.hint ELSE NoTare
    BY <1>4, <2>2 DEF StoryIInv, CommandSound, Applied, BelowGross
  <2> QED  BY <2>1, <2>2 DEF CommandSound, Applied, BelowGross
<1> QED  BY <1>3, <1>5

LEMMA TimePassesKeeps ==
  ASSUME StoryIInv, TimePasses
  PROVE  StoryIInv'
<1>1. clock' = clock + 1 /\ clock < Len(Moments) /\ command.pc # "hinted"
      /\ UNCHANGED <<records, annulled, registry, pcTare, command>>
  BY DEF TimePasses
<1>2. clock \in DOMAIN Moments /\ clock' \in DOMAIN Moments /\ clock <= clock'
  BY <1>1, MomentAssumption DEF StoryIInv, StoryShape
<1>3. now <= now' /\ now \in Nat /\ now' \in Nat  BY <1>2, MomentIs DEF now
<1>4. Rec' = Rec /\ Tarings' = Tarings /\ Valid' = Valid
      /\ {r \in Rec : InJournal(r)}' = {r \in Rec : InJournal(r)}
  BY <1>1 DEF Rec, Tarings, Valid, InJournal
<1>5. CommandSound' /\ command' \in [pc : {"none", "hinted", "answer"}, hint : {NoTare} \cup Tarings',
                                     rec : {NoTare} \cup Rec']
  BY <1>1, <1>4, CommandKept
<1>6. StoryShape'  BY <1>1, <1>2, <1>4, <1>5 DEF StoryIInv, StoryShape
<1>7. InTheirTime'
  <2>1. ASSUME NEW r \in Rec PROVE records[r].at <= now' /\ records[r].known <= now'
    <3>1. records[r].at \in Nat /\ records[r].known \in Nat
      <4>1. records[r] \in Record  BY RecordsAre
      <4>2. records[r].at \in Moment /\ records[r].known \in {0} \cup Moment  BY <4>1 DEF Record
      <4>3. Moment \subseteq Nat  BY MomentIs
      <4>4. {0} \cup Moment \subseteq Nat  BY <4>3
      <4>5. records[r].at \in Nat  BY <4>2, <4>3
      <4>6. records[r].known \in Nat  BY <4>2, <4>4
      <4> QED  BY <4>5, <4>6
    <3>2. records[r].at <= now /\ records[r].known <= now  BY DEF StoryIInv, InTheirTime
    <3> QED  BY <1>3, <3>1, <3>2
  <2> QED  BY <1>1, <1>4, <2>1 DEF StoryIInv, InTheirTime, InJournal
<1>8. TareSound'  BY <1>1, <1>4 DEF StoryIInv, TareSound
<1>9. RegistryIsNewest'  BY <1>1, <1>4, RegistryKept
<1> QED  BY <1>5, <1>6, <1>7, <1>8, <1>9 DEF StoryIInv

(* What a record more leaves to prove.                                     *)
LEMMA AddedKeeps ==
  ASSUME StoryIInv, Room, NEW e \in Record, e.at <= now, e.known <= now, Free(e.at),
         e.kind = "weighing" => e.known # 0,
         e.kind = "weighing" /\ e.tare # NoTare => MayServe(e.tare, e.at, e.mass, records, Tarings),
         records' = Append(records, e), UNCHANGED <<clock, annulled, pcTare>>,
         IF e.kind = "taring" /\ e.known # 0 THEN Upsert(Len(records) + 1) ELSE UNCHANGED registry,
         UNCHANGED command \/
           (/\ CommandSound'
            /\ command' \in [pc : {"none", "hinted", "answer"}, hint : {NoTare} \cup Tarings',
                             rec : {NoTare} \cup Rec'])
  PROVE  StoryIInv'
<1>1. PICK n \in Nat : n = Len(records) + 1  BY RecordsAre
<1>2. /\ n \in Nat \ {0} /\ n \notin Rec /\ Rec' = Rec \cup {n}
      /\ \A r \in Rec : records'[r] = records[r]
      /\ records'[n] = e
      /\ records' \in Seq(Record) /\ Len(records') <= MaxRecords
      /\ annulled' \subseteq {r \in Rec' : InJournal(r)'}
      /\ Tarings' = Tarings \cup (IF e.kind = "taring" /\ e.known # 0 THEN {n} ELSE {})
      /\ Valid' = Valid \cup (IF e.kind = "taring" /\ e.known # 0 THEN {n} ELSE {})
      /\ InTheirTime' /\ TareSound'
      /\ Apart(records', Rec') /\ now' = now
  BY <1>1, RecordAdded
<1>3. Rec \subseteq Rec' /\ Tarings \subseteq Tarings'  BY <1>2
<1>4. CommandSound' /\ command' \in [pc : {"none", "hinted", "answer"}, hint : {NoTare} \cup Tarings',
                                     rec : {NoTare} \cup Rec']
  BY <1>2, <1>3, CommandKept
<1>5. StoryShape'
  <2>1. clock' \in DOMAIN Moments /\ pcTare' \in {NoTare} \cup Tarings'
    BY <1>3 DEF StoryIInv, StoryShape
  <2> QED  BY <1>2, <1>4, <2>1 DEF StoryShape
<1>6. RegistryIsNewest'
  <2>1. CASE e.kind = "taring" /\ e.known # 0
    <3>1. n \notin Valid /\ Valid' = Valid \cup {n} /\ n \in Rec'
      BY <1>2, <2>1, RecordsAre
    <3>2. Upsert(n)  BY <1>1, <2>1
    <3> QED  BY <1>2, <1>3, <3>1, <3>2, RegistryAdded
  <2>2. CASE ~(e.kind = "taring" /\ e.known # 0)
    <3>1. Valid' = Valid /\ registry' = registry  BY <1>2, <2>2
    <3> QED  BY <1>2, <3>1, RegistryKept
  <2> QED  BY <2>1, <2>2
<1> QED  BY <1>2, <1>4, <1>5, <1>6 DEF StoryIInv

LEMMA TareKeeps ==
  ASSUME StoryIInv, NEW m \in TareMass, NEW online \in BOOLEAN, Tare(m, online)
  PROVE  StoryIInv'
<1>1. now \in Moment /\ now \in Nat \ {0} /\ m \in Nat  BY RecordsAre, MomentIs, MassAssumption
<1>2. PICK e \in Record : e = Entry("taring", now, m, "scale", IF online THEN now ELSE 0, NoTare)
  BY <1>1 DEF Entry, Record, NoTare
<1>3. /\ e.kind = "taring" /\ e.at = now /\ e.known = IF online THEN now ELSE 0
  BY <1>2 DEF Entry
<1>4. /\ Room /\ Free(e.at) /\ records' = Append(records, e)
      /\ IF online THEN Upsert(Len(records) + 1) ELSE UNCHANGED registry
      /\ UNCHANGED <<clock, annulled, pcTare, command>>
  BY <1>2, <1>3 DEF Tare
<1>5. e.at <= now /\ e.known <= now /\ (e.known # 0 <=> online)  BY <1>1, <1>3
<1> QED  BY <1>3, <1>4, <1>5, AddedKeeps

LEMMA ImportKeeps ==
  ASSUME StoryIInv, NEW m \in TareMass, NEW i \in DOMAIN Moments, Import(i, m)
  PROVE  StoryIInv'
<1>1. now \in Moment /\ now \in Nat \ {0} /\ m \in Nat /\ Moments[i] \in Moment
  BY RecordsAre, MomentIs, MassAssumption
<1>2. PICK e \in Record : e = Entry("taring", Moments[i], m, "import", now, NoTare)
  BY <1>1 DEF Entry, Record, NoTare
<1>3. e.kind = "taring" /\ e.at = Moments[i] /\ e.known = now  BY <1>2 DEF Entry
<1>4. /\ Room /\ Free(e.at) /\ records' = Append(records, e) /\ Upsert(Len(records) + 1) /\ i < clock
      /\ UNCHANGED <<clock, annulled, pcTare, command>>
  BY <1>2, <1>3 DEF Import
<1>5. Moments[i] <= now
  <2>1. clock \in DOMAIN Moments /\ i <= clock
    BY <1>4, MomentAssumption DEF StoryIInv, StoryShape
  <2> QED  BY <2>1, MomentIs DEF now
<1> QED  BY <1>1, <1>3, <1>4, <1>5, AddedKeeps

LEMMA WeighByHandKeeps ==
  ASSUME StoryIInv, NEW g \in GrossMass, WeighByHand(g)
  PROVE  StoryIInv'
<1>1. now \in Moment /\ now \in Nat \ {0} /\ g \in Nat  BY RecordsAre, MomentIs, MassAssumption
<1>2. PICK row \in {NoTare} \cup Tarings :
        row = ActiveAt(pcTare, now) /\ (row # NoTare => records[row].at >= TermFrom[now])
  BY ActiveIs DEF StoryIInv, StoryShape
<1>3. PICK t \in {NoTare} \cup Tarings :
        t = Applied(row, g) /\ (t # NoTare => MayServe(t, now, g, records, Tarings))
  BY <1>1, <1>2, AppliedServes
<1>4. t \in Nat  BY <1>3, RecordsAre DEF NoTare
<1>5. PICK e \in Record : e = Entry("weighing", now, g, "scale", now, t)
  BY <1>1, <1>4 DEF Entry, Record
<1>6. e.kind = "weighing" /\ e.at = now /\ e.known = now /\ e.tare = t /\ e.mass = g
  BY <1>5 DEF Entry
<1>7. /\ Room /\ Free(e.at) /\ records' = Append(records, e)
      /\ UNCHANGED <<clock, annulled, registry, pcTare, command>>
  BY <1>2, <1>3, <1>5, <1>6 DEF WeighByHand
<1> QED  BY <1>1, <1>3, <1>6, <1>7, AddedKeeps

LEMMA WeighByCommandKeeps ==
  ASSUME StoryIInv, NEW g \in GrossMass, WeighByCommand(g)
  PROVE  StoryIInv'
<1>1. now \in Moment /\ now \in Nat \ {0} /\ g \in Nat  BY RecordsAre, MomentIs, MassAssumption
<1>2. command \in [pc : {"none", "hinted", "answer"}, hint : {NoTare} \cup Tarings, rec : {NoTare} \cup Rec]
      /\ command.pc = "hinted"
  BY DEF StoryIInv, StoryShape, WeighByCommand
<1>3. command.hint \in {NoTare} \cup Tarings
      /\ (command.hint # NoTare => records[command.hint].at >= TermFrom[now])
  BY <1>2 DEF StoryIInv, CommandSound
<1>4. PICK t \in {NoTare} \cup Tarings :
        t = Applied(command.hint, g) /\ (t # NoTare => MayServe(t, now, g, records, Tarings))
  BY <1>1, <1>3, AppliedServes
<1>5. t \in Nat  BY <1>4, RecordsAre DEF NoTare
<1>6. PICK e \in Record : e = Entry("weighing", now, g, "scale", now, t)
  BY <1>1, <1>5 DEF Entry, Record
<1>7. e.kind = "weighing" /\ e.at = now /\ e.known = now /\ e.tare = t /\ e.mass = g
  BY <1>6 DEF Entry
<1>8. PICK n \in Nat : n = Len(records) + 1  BY RecordsAre
<1>9. /\ Room /\ Free(e.at) /\ records' = Append(records, e)
      /\ command' = [command EXCEPT !.pc = "answer", !.rec = n]
      /\ UNCHANGED <<clock, annulled, registry, pcTare>>
  BY <1>4, <1>6, <1>7, <1>8 DEF WeighByCommand
<1>10. /\ Rec' = Rec \cup {n} /\ (\A r \in Rec : records'[r] = records[r]) /\ records'[n] = e
       /\ Tarings \subseteq Tarings'
  <2>1. e.at <= now /\ e.known <= now /\ e.known # 0  BY <1>1, <1>7
  <2>2. e.tare # NoTare => MayServe(e.tare, e.at, e.mass, records, Tarings)  BY <1>4, <1>7
  <2>3. /\ Rec' = Rec \cup {n} /\ (\A r \in Rec : records'[r] = records[r]) /\ records'[n] = e
        /\ Tarings' = Tarings \cup (IF e.kind = "taring" /\ e.known # 0 THEN {n} ELSE {})
    BY <1>7, <1>8, <1>9, <2>1, <2>2, RecordAdded
  <2> QED  BY <2>3
<1>11. command' \in [pc : {"none", "hinted", "answer"}, hint : {NoTare} \cup Tarings', rec : {NoTare} \cup Rec']
       /\ command'.pc = "answer" /\ command'.rec = n /\ command'.hint = command.hint
  BY <1>2, <1>9, <1>10
<1>12. CommandSound'
  <2>1. command.hint # NoTare => command.hint \in Rec  BY <1>3, RecordsAre
  <2>2. t = IF command.hint # NoTare /\ records[command.hint].mass < g THEN command.hint ELSE NoTare
    BY <1>4 DEF Applied, BelowGross
  <2>3. records'[n].tare =
          IF command.hint # NoTare /\ records'[command.hint].mass < records'[n].mass
          THEN command.hint ELSE NoTare
    BY <1>7, <1>10, <2>1, <2>2
  <2> QED  BY <1>10, <1>11, <2>3 DEF CommandSound, Applied, BelowGross
<1> QED  BY <1>1, <1>4, <1>7, <1>9, <1>11, <1>12, AddedKeeps

(* Late news of a taring made off line.                                    *)
LEMMA DeliverKeeps ==
  ASSUME StoryIInv, NEW r \in Rec, Deliver(r)
  PROVE  StoryIInv'
<1>1. /\ records[r].known = 0 /\ records' = [records EXCEPT ![r].known = now] /\ Upsert(r)
      /\ UNCHANGED <<clock, annulled, pcTare, command>>
  BY DEF Deliver, InJournal
<1>2. /\ records \in Seq(Record) /\ Len(records) \in Nat /\ Rec = 1 .. Len(records)
      /\ \A q \in Rec : records[q] \in Record
  BY RecordsAre DEF StoryIInv, StoryShape
<1>3. now' = now /\ now \in Moment /\ now \in Nat \ {0}
  BY <1>1, RecordsAre, MomentIs DEF now
<1>4. records[r].kind = "taring"
  <2>1. records[r].kind # "weighing"  BY <1>1 DEF StoryIInv, InTheirTime, InJournal
  <2> QED  BY <1>2, <2>1 DEF Record
<1>5. /\ records' \in Seq(Record) /\ Len(records') = Len(records) /\ Rec' = Rec
      /\ \A q \in Rec \ {r} : records'[q] = records[q]
      /\ records'[r] = [records[r] EXCEPT !.known = now]
  <2>1. records[r] \in Record  BY <1>2
  <2>2. [records[r] EXCEPT !.known = now] \in Record  BY <1>3, <2>1 DEF Record
  <2>3. records' = [records EXCEPT ![r] = [records[r] EXCEPT !.known = now]]  BY <1>1
  <2> HIDE DEF Record
  <2>4. records' \in Seq(Record) /\ Len(records') = Len(records)  BY <1>2, <2>2, <2>3
  <2>5. Rec' = Rec  BY <1>2, <2>4 DEF Rec
  <2> QED  BY <1>2, <2>3, <2>4, <2>5
<1>6. /\ records'[r].known = now
      /\ \A q \in Rec : /\ records'[q].at = records[q].at /\ records'[q].mass = records[q].mass
                        /\ records'[q].tare = records[q].tare /\ records'[q].kind = records[q].kind
  <2>1. records[r] \in Record  BY <1>2
  <2> QED  BY <1>5, <2>1 DEF Record
<1>7. InJournal(r)' /\ ~InJournal(r) /\ \A q \in Rec \ {r} : InJournal(q)' <=> InJournal(q)
  BY <1>1, <1>3, <1>5, <1>6 DEF InJournal
<1>8. annulled \subseteq Rec /\ (\A q \in annulled : InJournal(q)) /\ r \notin annulled
  BY <1>7 DEF StoryIInv, StoryShape
<1>9. Tarings' = Tarings \cup {r} /\ r \notin Tarings
  BY <1>4, <1>5, <1>6, <1>7 DEF Tarings
<1>10. Valid' = Valid \cup {r} /\ r \notin Valid  BY <1>1, <1>8, <1>9 DEF Valid
<1>11. CommandSound' /\ command' \in [pc : {"none", "hinted", "answer"}, hint : {NoTare} \cup Tarings',
                                      rec : {NoTare} \cup Rec']
  BY <1>1, <1>3, <1>5, <1>6, <1>9, CommandKept
<1>12. StoryShape'
  <2>1. \A q \in annulled : InJournal(q)'  BY <1>7, <1>8
  <2> QED  BY <1>1, <1>5, <1>8, <1>9, <1>11, <2>1 DEF StoryIInv, StoryShape
<1>13. InTheirTime'
  <2>1. \A q \in Rec : records'[q].at <= now /\ records'[q].known <= now
    <3>1. \A q \in Rec : records[q].at <= now /\ records[q].known <= now
      BY DEF StoryIInv, InTheirTime
    <3>2. \A q \in Rec : records'[q].known = records[q].known \/ records'[q].known = now
      BY <1>5, <1>6
    <3>3. now <= now  BY <1>3
    <3> QED  BY <1>6, <3>1, <3>2, <3>3
  <2>2. \A q \in Rec : records'[q].kind = "weighing" => InJournal(q)'
    BY <1>6, <1>7 DEF StoryIInv, InTheirTime
  <2> QED  BY <1>3, <1>5, <1>6, <2>1, <2>2 DEF StoryIInv, InTheirTime
<1>14. TareSound'
  <2>1. ASSUME NEW w \in Rec, records'[w].kind = "weighing", records'[w].tare # NoTare
        PROVE  MayServe(records'[w].tare, records'[w].at, records'[w].mass, records', Tarings')
    <3>1. MayServe(records'[w].tare, records'[w].at, records'[w].mass, records, Tarings)
      BY <1>6, <2>1 DEF StoryIInv, TareSound
    <3>2. records'[w].tare \in Rec  BY <3>1, RecordsAre DEF MayServe
    <3> QED  BY <1>6, <1>9, <3>1, <3>2 DEF MayServe
  <2> QED  BY <1>5, <2>1 DEF TareSound
<1>15. RegistryIsNewest'
  <2>1. Apart(records', Rec')
    <3>1. \A u \in Rec : u \in Nat /\ records[u].at \in Moment  BY <1>2 DEF Record
    <3> QED  BY <1>5, <1>6, <1>13, <3>1 DEF Apart, InTheirTime
  <2> QED  BY <1>1, <1>5, <1>6, <1>10, <2>1, RegistryAdded
<1> QED  BY <1>11, <1>12, <1>13, <1>14, <1>15 DEF StoryIInv

LEMMA StornoKeeps ==
  ASSUME StoryIInv, NEW r \in Rec, Storno(r)
  PROVE  StoryIInv'
<1>1. /\ annulled' = annulled \cup {r} /\ InJournal(r)
      /\ registry' = IF records[r].kind = "taring" THEN Newest(Valid \ {r}) ELSE registry
      /\ UNCHANGED <<clock, records, pcTare, command>>
  BY DEF Storno, Annul
<1>2. /\ Rec' = Rec /\ Tarings' = Tarings /\ now' = now
      /\ {q \in Rec : InJournal(q)}' = {q \in Rec : InJournal(q)}
  BY <1>1 DEF Rec, Tarings, InJournal, now
<1>3. Valid' = Valid \ {r}  BY <1>1, <1>2 DEF Valid
<1>4. CommandSound' /\ command' \in [pc : {"none", "hinted", "answer"}, hint : {NoTare} \cup Tarings',
                                     rec : {NoTare} \cup Rec']
  BY <1>1, <1>2, CommandKept
<1>5. StoryShape'  BY <1>1, <1>2, <1>4 DEF StoryIInv, StoryShape
<1>6. InTheirTime' /\ TareSound'
  BY <1>1, <1>2 DEF StoryIInv, InTheirTime, TareSound, InJournal
<1>7. RegistryIsNewest'
  <2>1. CASE records[r].kind = "taring"
    <3>1. registry' = NewestIn(records, Valid \ {r})  BY <1>1, <2>1, RecordsAre
    <3>2. Newest(Valid)' = NewestIn(records', Valid')  BY DEF Newest, NewestIn
    <3> QED  BY <1>1, <1>3, <3>1, <3>2 DEF RegistryIsNewest
  <2>2. CASE records[r].kind # "taring"
    <3>1. r \notin Valid  BY <2>2 DEF Valid, Tarings
    <3>2. Valid' = Valid /\ registry' = registry  BY <1>1, <1>3, <2>2, <3>1
    <3> QED  BY <1>1, <3>2, RegistryKept
  <2> QED  BY <2>1, <2>2
<1> QED  BY <1>4, <1>5, <1>6, <1>7 DEF StoryIInv

(* Steps that leave the records and the registry as they are.              *)
LEMMA RestKeeps ==
  ASSUME StoryIInv, UNCHANGED <<clock, records, annulled, registry>>,
         pcTare' \in {NoTare} \cup Tarings,
         command' \in [pc : {"none", "hinted", "answer"}, hint : {NoTare} \cup Tarings, rec : {NoTare} \cup Rec],
         CommandSound'
  PROVE  StoryIInv'
<1>1. /\ Rec' = Rec /\ Tarings' = Tarings /\ Valid' = Valid /\ now' = now
      /\ {q \in Rec : InJournal(q)}' = {q \in Rec : InJournal(q)}
  BY DEF Rec, Tarings, Valid, InJournal, now
<1>2. StoryShape'  BY <1>1 DEF StoryIInv, StoryShape
<1>3. InTheirTime' /\ TareSound'  BY <1>1 DEF StoryIInv, InTheirTime, TareSound, InJournal
<1>4. RegistryIsNewest'  BY <1>1, RegistryKept
<1> QED  BY <1>2, <1>3, <1>4 DEF StoryIInv

LEMMA StoryStep == StoryIInv /\ [StoryNext]_storyVars => StoryIInv'
<1> SUFFICES ASSUME StoryIInv, [StoryNext]_storyVars PROVE StoryIInv'  OBVIOUS
<1>0. /\ pcTare \in {NoTare} \cup Tarings
      /\ command \in [pc : {"none", "hinted", "answer"}, hint : {NoTare} \cup Tarings, rec : {NoTare} \cup Rec]
  BY DEF StoryIInv, StoryShape
<1>r. registry \in {NoTare} \cup Tarings
  <2>1. registry = NewestIn(records, Valid) /\ Apart(records, Valid) /\ Valid \subseteq Tarings
    BY RecordsAre DEF StoryIInv, RegistryIsNewest
  <2>2. Valid = {} => registry = NoTare  BY <2>1 DEF NewestIn
  <2>3. Valid # {} => registry \in Valid  BY <2>1, NewestFound
  <2> QED  BY <2>1, <2>2, <2>3
<1>1. CASE TimePasses  BY <1>1, TimePassesKeeps
<1>2. CASE Replicate
  <2>1. pcTare' = registry /\ UNCHANGED <<clock, records, annulled, registry, command>>
    BY <1>2 DEF Replicate
  <2>2. CommandSound'
    BY <2>1 DEF StoryIInv, CommandSound, Applied, Rec, now
  <2> QED  BY <1>0, <1>r, <2>1, <2>2, RestKeeps
<1>3. CASE Hint
  <2>1. command' = [pc |-> "hinted", hint |-> ActiveAt(registry, now), rec |-> NoTare]
        /\ UNCHANGED <<clock, records, annulled, registry, pcTare>>
    BY <1>3 DEF Hint
  <2>2. ActiveAt(registry, now) \in {NoTare} \cup Tarings
        /\ (ActiveAt(registry, now) # NoTare => records[ActiveAt(registry, now)].at >= TermFrom[now])
    BY <1>r, ActiveIs
  <2>3. PICK h \in {NoTare} \cup Tarings :
          h = ActiveAt(registry, now) /\ (h # NoTare => records[h].at >= TermFrom[now])
    BY <2>2
  <2>4. command' = [pc |-> "hinted", hint |-> h, rec |-> NoTare]  BY <2>1, <2>3
  <2>5. command' \in [pc : {"none", "hinted", "answer"}, hint : {NoTare} \cup Tarings, rec : {NoTare} \cup Rec]
        /\ command'.pc = "hinted" /\ command'.hint = h
    BY <2>4
  <2>6. now' = now  BY <2>1 DEF now
  <2>7. CommandSound'  BY <2>1, <2>3, <2>5, <2>6 DEF CommandSound
  <2> QED  BY <1>0, <2>1, <2>5, <2>7, RestKeeps
<1>4. CASE Answer
  <2>1. command' = [pc |-> "none", hint |-> NoTare, rec |-> NoTare]
        /\ UNCHANGED <<clock, records, annulled, registry, pcTare>>
    BY <1>4 DEF Answer
  <2>2. CommandSound'  BY <2>1 DEF CommandSound
  <2>3. command' \in [pc : {"none", "hinted", "answer"}, hint : {NoTare} \cup Tarings, rec : {NoTare} \cup Rec]
    BY <2>1
  <2> QED  BY <1>0, <2>1, <2>2, <2>3, RestKeeps
<1>5. ASSUME NEW m \in TareMass, NEW online \in BOOLEAN, Tare(m, online) PROVE StoryIInv'
  BY <1>5, TareKeeps
<1>6. ASSUME NEW m \in TareMass, NEW i \in DOMAIN Moments, Import(i, m) PROVE StoryIInv'
  BY <1>6, ImportKeeps
<1>7. ASSUME NEW g \in GrossMass, WeighByHand(g) \/ WeighByCommand(g) PROVE StoryIInv'
  BY <1>7, WeighByHandKeeps, WeighByCommandKeeps
<1>8. ASSUME NEW r \in Rec, Deliver(r) \/ Storno(r) PROVE StoryIInv'
  BY <1>8, DeliverKeeps, StornoKeeps
<1>9. CASE UNCHANGED storyVars
  <2>1. UNCHANGED <<clock, records, annulled, registry, pcTare, command>>  BY <1>9 DEF storyVars
  <2>2. CommandSound'  BY <2>1 DEF StoryIInv, CommandSound, Applied, Rec, now
  <2> QED  BY <1>0, <2>1, <2>2, RestKeeps
<1> QED  BY <1>1, <1>2, <1>3, <1>4, <1>5, <1>6, <1>7, <1>8, <1>9 DEF StoryNext

(* The newest taring a weighing of a moment could have.                    *)
LEMMA LatestIs ==
  ASSUME StoryIInv, NEW at
  PROVE  LET seen == {t \in Valid : records[t].at <= at /\ KnownAt(t, at)} IN
         /\ seen \subseteq Valid /\ Apart(records, seen)
         /\ seen = {} => LatestAsOf(at) = NoTare
         /\ seen # {} => /\ LatestAsOf(at) \in seen /\ LatestAsOf(at) # NoTare
                         /\ \A u \in seen : records[u].at <= records[LatestAsOf(at)].at
         /\ \A t \in seen : (\A u \in seen : records[u].at <= records[t].at) => LatestAsOf(at) = t
<1> DEFINE seen == {t \in Valid : records[t].at <= at /\ KnownAt(t, at)}
<1>1. seen \subseteq Valid /\ Valid \subseteq Rec  BY RecordsAre
<1>2. LatestAsOf(at) = NewestIn(records, seen)  BY RecordsAre DEF LatestAsOf
<1> HIDE DEF seen
<1>3. Apart(records, seen)  BY <1>1, RecordsAre
<1>4. seen = {} => LatestAsOf(at) = NoTare  BY <1>2 DEF NewestIn
<1>5. \A r \in Rec : r # NoTare  BY RecordsAre DEF NoTare
<1>6. seen # {} => /\ LatestAsOf(at) \in seen /\ LatestAsOf(at) # NoTare
                   /\ \A u \in seen : records[u].at <= records[LatestAsOf(at)].at
  BY <1>1, <1>2, <1>3, <1>5, NewestFound
<1>7. \A t \in seen : (\A u \in seen : records[u].at <= records[t].at) => LatestAsOf(at) = t
  BY <1>2, <1>3, NewestOnly
<1> QED  BY <1>1, <1>3, <1>4, <1>6, <1>7 DEF seen

LEMMA RegistryIs ==
  ASSUME StoryIInv
  PROVE  /\ registry \in {NoTare} \cup Valid
         /\ registry # NoTare => \A u \in Valid : records[u].at <= records[registry].at
         /\ registry = NoTare => Valid = {}
<1>1. registry = NewestIn(records, Valid) /\ Apart(records, Valid) /\ Valid \subseteq Rec
  BY RecordsAre DEF StoryIInv, RegistryIsNewest
<1>2. Valid = {} => registry = NoTare  BY <1>1 DEF NewestIn
<1>3. Valid # {} => registry \in Valid /\ \A u \in Valid : records[u].at <= records[registry].at
  BY <1>1, NewestFound
<1>4. \A r \in Rec : r # NoTare  BY RecordsAre DEF NoTare
<1> QED  BY <1>1, <1>2, <1>3, <1>4

LEMMA StoryTypes == StoryIInv => StoryTypeOK
<1> SUFFICES ASSUME StoryIInv PROVE StoryTypeOK  OBVIOUS
<1>1. registry = Newest(Valid) /\ registry \in {NoTare} \cup Valid
  BY RegistryIs DEF StoryIInv, RegistryIsNewest
<1>2. \A r \in Rec : records[r].kind = "weighing" => records[r].tare \in {NoTare} \cup Tarings
  BY DEF StoryIInv, TareSound, MayServe
<1> QED  BY <1>1, <1>2 DEF StoryIInv, StoryShape, StoryTypeOK

LEMMA TermHolds == StoryIInv => TermOfThreeMonths
<1> SUFFICES ASSUME StoryIInv, NEW w \in Rec, records[w].kind = "weighing"
    PROVE  /\ records[w].tare # NoTare =>
                LET t == records[records[w].tare] IN
                t.at <= records[w].at /\ t.mass < records[w].mass /\ records[w].at - t.at <= 2 * 92
           /\ DocumentTare(w) = "expired" =>
                records[w].at - records[LatestAsOf(records[w].at)].at > 2 * 89
  BY DEF TermOfThreeMonths, Weighings
<1>1. PICK at \in Moment : at = records[w].at  BY RecordsAre DEF Record
<1>2. PICK from \in Int : from = TermFrom[at] /\ at - from >= 2 * 89 /\ at - from <= 2 * 92
  BY TermIs
<1>3. at \in Nat  BY MomentIs
<1>4. \A r \in Rec : records[r].at \in Nat
  <2>1. \A r \in Rec : records[r].at \in Moment  BY RecordsAre DEF Record
  <2> QED  BY <2>1, MomentIs
<1>5. ASSUME records[w].tare # NoTare
      PROVE  LET t == records[records[w].tare] IN
             t.at <= records[w].at /\ t.mass < records[w].mass /\ records[w].at - t.at <= 2 * 92
  <2>1. MayServe(records[w].tare, records[w].at, records[w].mass, records, Tarings)
    BY <1>5 DEF StoryIInv, TareSound
  <2>2. PICK t \in Rec : t = records[w].tare  BY <2>1, RecordsAre DEF MayServe
  <2>3. records[t].at <= at /\ records[t].at >= from /\ records[t].mass < records[w].mass
    BY <1>1, <1>2, <2>1, <2>2 DEF MayServe
  <2>4. at - records[t].at <= 2 * 92  BY <1>2, <1>3, <1>4, <2>3
  <2> QED  BY <1>1, <2>2, <2>3, <2>4
<1>6. ASSUME DocumentTare(w) = "expired"
      PROVE  records[w].at - records[LatestAsOf(records[w].at)].at > 2 * 89
  <2>1. LatestAsOf(at) # NoTare /\ records[LatestAsOf(at)].at < from
    BY <1>1, <1>2, <1>6 DEF DocumentTare
  <2>2. LatestAsOf(at) \in Rec
    <3>1. LatestAsOf(at) \in Valid  BY <2>1, LatestIs
    <3> QED  BY <3>1, RecordsAre
  <2>3. PICK t \in Rec : t = LatestAsOf(at)  BY <2>2
  <2>4. at - records[t].at > 2 * 89  BY <1>2, <1>3, <1>4, <2>1, <2>3
  <2> QED  BY <1>1, <2>3, <2>4
<1> QED  BY <1>5, <1>6

LEMMA MaxIs ==
  ASSUME NEW S \in SUBSET Int, NEW x \in S, \A y \in S : y <= x
  PROVE  Max(S) = x
<1>1. \A y \in S : x >= y  OBVIOUS
<1>2. Max(S) \in S /\ \A y \in S : Max(S) >= y  BY <1>1 DEF Max
<1>3. Max(S) \in Int /\ x \in Int /\ Max(S) >= x /\ Max(S) <= x  BY <1>2
<1> QED  BY <1>3

LEMMA ReportAgrees == StoryIInv => ReportAgreesWithDocument
<1> SUFFICES ASSUME StoryIInv, NEW w \in Rec, records[w].kind = "weighing", records[w].tare = NoTare
    PROVE  ReportReason(w) = IF DocumentTare(w) \in {"not_below_gross", "replica_lag"}
                             THEN "not_applied" ELSE DocumentTare(w)
  BY DEF ReportAgreesWithDocument, Weighings
<1>1. PICK at : at = records[w].at  OBVIOUS
<1> DEFINE seen == {t \in Valid : records[t].at <= at /\ KnownAt(t, at)}
<1>2. ReportTarings(w) = seen  BY <1>1 DEF ReportTarings
<1>3. /\ seen \subseteq Valid
      /\ seen = {} => LatestAsOf(at) = NoTare
      /\ seen # {} => /\ LatestAsOf(at) \in seen /\ LatestAsOf(at) # NoTare
                      /\ \A u \in seen : records[u].at <= records[LatestAsOf(at)].at
  BY LatestIs
<1> HIDE DEF seen
<1>4. CASE seen = {}
  <2>1. ReportReason(w) = "none"  BY <1>2, <1>4 DEF ReportReason
  <2>2. DocumentTare(w) = "none"  BY <1>1, <1>3, <1>4 DEF DocumentTare
  <2> QED  BY <2>1, <2>2
<1>5. CASE seen # {}
  <2>1. PICK t \in seen : t = LatestAsOf(at) /\ t # NoTare /\ \A u \in seen : records[u].at <= records[t].at
    BY <1>3, <1>5
  <2> DEFINE ats == {records[u].at : u \in seen}
  <2>2. ats \in SUBSET Int
    <3>1. \A u \in seen : records[u].at \in Moment  BY <1>3, RecordsAre DEF Record
    <3>2. Moment \subseteq Int  BY MomentIs
    <3> QED  BY <3>1, <3>2
  <2>3. records[t].at \in ats /\ \A y \in ats : y <= records[t].at  BY <2>1
  <2> HIDE DEF ats
  <2>4. Max(ats) = records[t].at  BY <2>2, <2>3, MaxIs
  <2>5. ReportReason(w) = IF records[t].at < TermFrom[at] THEN "expired" ELSE "not_applied"
    BY <1>1, <1>2, <1>5, <2>4 DEF ReportReason, ats
  <2>6. DocumentTare(w) = IF records[t].at < TermFrom[at] THEN "expired"
                          ELSE IF ~BelowGross(records[t].mass, records[w].mass) THEN "not_below_gross"
                          ELSE "replica_lag"
    BY <1>1, <2>1 DEF DocumentTare
  <2> QED  BY <2>5, <2>6
<1> QED  BY <1>4, <1>5

(* The registry's taring, when the card may speak of it, is the one the    *)
(* document speaks of.                                                     *)
LEMMA CardSound == StoryIInv => CardNoteSound
<1> SUFFICES ASSUME StoryIInv, NEW w \in Rec, records[w].kind = "weighing", records[w].tare = NoTare,
                    CardNote(w) # "none"
    PROVE  CardNote(w) = DocumentTare(w)
  BY DEF CardNoteSound, Weighings
<1>1. PICK at \in Moment : at = records[w].at  BY RecordsAre DEF Record
<1>2. PICK row : row = IF registry # NoTare /\ KnownAt(registry, at) THEN registry ELSE NoTare
  OBVIOUS
<1>3. CardNote(w) = IF row # NoTare /\ records[row].at < TermFrom[at] THEN "expired"
                    ELSE IF row # NoTare /\ records[row].at <= at
                            /\ ~BelowGross(records[row].mass, records[w].mass) THEN "not_below_gross"
                    ELSE "none"
  BY <1>1, <1>2 DEF CardNote
<1>4. row # NoTare /\ row = registry /\ row \in Valid /\ KnownAt(row, at)
      /\ \A u \in Valid : records[u].at <= records[row].at
  BY <1>2, <1>3, RegistryIs
<1>5. records[row].at <= at
  <2>1. CASE records[row].at < TermFrom[at]
    <3>1. TermFrom[at] \in Int /\ at - TermFrom[at] >= 2 * 89 /\ at \in Nat  BY TermIs, MomentIs
    <3>2. records[row].at \in Moment  BY <1>4, RecordsAre DEF Record
    <3>3. records[row].at \in Nat  BY <3>2, MomentIs
    <3> QED  BY <2>1, <3>1, <3>3
  <2>2. CASE ~(records[row].at < TermFrom[at])  BY <1>3, <2>2
  <2> QED  BY <2>1, <2>2
<1>6. LatestAsOf(at) = row
  <2> DEFINE seen == {t \in Valid : records[t].at <= at /\ KnownAt(t, at)}
  <2>1. row \in seen /\ \A u \in seen : records[u].at <= records[row].at  BY <1>4, <1>5
  <2>2. \A t \in seen : (\A u \in seen : records[u].at <= records[t].at) => LatestAsOf(at) = t
    BY LatestIs
  <2> HIDE DEF seen
  <2> QED  BY <2>1, <2>2
<1>7. DocumentTare(w) = IF records[row].at < TermFrom[at] THEN "expired"
                        ELSE IF ~BelowGross(records[row].mass, records[w].mass) THEN "not_below_gross"
                        ELSE "replica_lag"
  BY <1>1, <1>4, <1>6 DEF DocumentTare
<1> QED  BY <1>3, <1>4, <1>7

LEMMA AnswerSound == StoryIInv => AnswerLikeJournal
<1> SUFFICES ASSUME StoryIInv, command.pc = "answer",
                    AnsweredTare(command.rec) # records[command.rec].tare
    PROVE  /\ records[AnsweredTare(command.rec)].mass < records[command.rec].mass
           /\ AnsweredTare(command.rec) # command.hint
  BY DEF AnswerLikeJournal
<1>1. records[command.rec].tare = NoTare
      /\ AnsweredTare(command.rec) = Applied(ActiveAt(registry, now), records[command.rec].mass)
  BY DEF AnsweredTare
<1>2. PICK t : t = AnsweredTare(command.rec)  OBVIOUS
<1>3. t # NoTare /\ BelowGross(records[t].mass, records[command.rec].mass)
  BY <1>1, <1>2 DEF Applied
<1>4. Applied(command.hint, records[command.rec].mass) = NoTare
  BY <1>1 DEF StoryIInv, CommandSound
<1>5. t # command.hint  BY <1>3, <1>4 DEF Applied
<1> QED  BY <1>2, <1>3, <1>5 DEF BelowGross

(* For any moments of the calendar, masses and orders of tarings, imports, *)
(* stornos, weighings and commands of a pair (shared/tare.py, tare_block,  *)
(* the SQL of the report, netto_note, the answer of API v1): a net weight  *)
(* comes from a taring of the last three months, 92 days at the most, no   *)
(* taring of 89 days or less is said to be out of date, and the document,  *)
(* the report, the card and the answer agree on the tare.                  *)
THEOREM StoryInvariant == StorySpec => []StoryInv
<1>1. StoryInit => StoryIInv  BY StoryStarts
<1>2. StoryIInv /\ [StoryNext]_storyVars => StoryIInv'  BY StoryStep
<1>3. StoryIInv => StoryInv
  BY StoryTypes, TermHolds, ReportAgrees, CardSound, AnswerSound DEF StoryInv
<1> QED  BY <1>1, <1>2, <1>3, PTL DEF StorySpec

(* What the document says of a weighing hangs on its record and on the     *)
(* tarings of its moment and before.                                       *)
LEMMA SameDocument ==
  ASSUME StoryIInv, NEW w \in Rec, Rec \subseteq Rec',
         \A r \in Rec : records'[r].at = records[r].at /\ records'[r].mass = records[r].mass
                        /\ records'[r].tare = records[r].tare,
         {t \in Valid' : records'[t].at <= records[w].at
                         /\ (records'[t].src = "import" => records'[t].known <= records[w].at)}
         = {t \in Valid : records[t].at <= records[w].at /\ KnownAt(t, records[w].at)}
  PROVE  DocumentTare(w)' = DocumentTare(w)
<1>1. PICK at : at = records[w].at /\ at = records'[w].at  OBVIOUS
<1> DEFINE seen == {t \in Valid : records[t].at <= at /\ KnownAt(t, at)}
<1>2. seen \subseteq Rec  BY RecordsAre
<1>3. PICK S : S = seen  OBVIOUS
<1>4. {t \in Valid' : records'[t].at <= at /\ (records'[t].src = "import" => records'[t].known <= at)} = S
  BY <1>1, <1>3
<1>5. LatestAsOf(at) = NewestIn(records, S)  BY <1>3, RecordsAre DEF LatestAsOf
<1>6. LatestAsOf(at)' = NewestIn(records', S)
  <2>1. LatestAsOf(at)' = NewestIn(records', {t \in Valid' : records'[t].at <= at
                                       /\ (records'[t].src = "import" => records'[t].known <= at)})
    BY DEF LatestAsOf, KnownAt, Newest, NewestIn
  <2> QED  BY <1>4, <2>1
<1>7. Apart(records, S)  BY <1>2, <1>3, RecordsAre
<1>8. NewestIn(records', S) = NewestIn(records, S)  BY <1>2, <1>3, <1>7, NewestSame
<1>9. PICK latest : latest = LatestAsOf(at) /\ latest = LatestAsOf(at)'  BY <1>5, <1>6, <1>8
<1>10. latest = NoTare \/ latest \in Rec
  <2>1. S = {} => latest = NoTare  BY <1>5, <1>9 DEF NewestIn
  <2>2. S # {} => latest \in S  BY <1>5, <1>7, <1>9, NewestFound
  <2> QED  BY <1>2, <1>3, <2>1, <2>2
<1>11. DocumentTare(w) = IF records[w].tare # NoTare THEN "applied"
                         ELSE IF latest = NoTare THEN "none"
                         ELSE IF records[latest].at < TermFrom[at] THEN "expired"
                         ELSE IF ~(records[latest].mass < records[w].mass) THEN "not_below_gross"
                         ELSE "replica_lag"
  BY <1>1, <1>9 DEF DocumentTare, BelowGross
<1>12. DocumentTare(w)' = IF records'[w].tare # NoTare THEN "applied"
                          ELSE IF latest = NoTare THEN "none"
                          ELSE IF records'[latest].at < TermFrom[at] THEN "expired"
                          ELSE IF ~(records'[latest].mass < records'[w].mass) THEN "not_below_gross"
                          ELSE "replica_lag"
  <2>1. LatestAsOf(records[w].at)' = latest
    <3>1. (records[w].at = at)'  BY <1>1
    <3>2. (records[w].at = at)' => LatestAsOf(records[w].at)' = LatestAsOf(at)'
      BY DEF LatestAsOf, KnownAt
    <3> QED  BY <1>9, <3>1, <3>2
  <2> QED  BY <1>1, <2>1 DEF DocumentTare, BelowGross
<1> QED  BY <1>10, <1>11, <1>12

(* A record made after the weighing, or known after it, changes nothing.   *)
LEMMA LaterStays ==
  ASSUME StoryIInv, NEW w \in Rec, NEW e, records' = Append(records, e), UNCHANGED annulled,
         e.kind = "taring" => ~(e.at <= records[w].at) \/ (e.src = "import" /\ ~(e.known <= records[w].at))
  PROVE  DocumentTare(w)' = DocumentTare(w)
<1>1. Len(records) \in Nat /\ Rec = 1 .. Len(records) /\ records \in Seq(Record)
  BY RecordsAre DEF StoryIInv, StoryShape
<1>2. PICK n \in Nat : n = Len(records) + 1  BY <1>1
<1>3. Rec' = Rec \cup {n} /\ n \notin Rec /\ (\A r \in Rec : records'[r] = records[r]) /\ records'[n] = e
  BY <1>1, <1>2 DEF Rec
<1>4. \A r \in Rec : InJournal(r)' <=> InJournal(r)  BY <1>3 DEF InJournal
<1>5. \A t \in Valid' : t \in Valid \/ (t = n /\ e.kind = "taring")
  BY <1>3, <1>4 DEF Valid, Tarings
<1>6. \A t \in Valid : t \in Valid' /\ t \in Rec
  BY <1>3, <1>4 DEF Valid, Tarings
<1>7. {t \in Valid' : records'[t].at <= records[w].at
                      /\ (records'[t].src = "import" => records'[t].known <= records[w].at)}
      = {t \in Valid : records[t].at <= records[w].at /\ KnownAt(t, records[w].at)}
  <2> DEFINE A == {t \in Valid' : records'[t].at <= records[w].at
                      /\ (records'[t].src = "import" => records'[t].known <= records[w].at)}
             B == {t \in Valid : records[t].at <= records[w].at /\ KnownAt(t, records[w].at)}
  <2>1. ASSUME NEW t \in A PROVE t \in B
    <3>1. t # n
      <4>1. SUFFICES ASSUME t = n PROVE FALSE  OBVIOUS
      <4>2. records'[t] = e /\ t \in Valid'  BY <1>3, <4>1
      <4>3. e.kind = "taring"  BY <4>2 DEF Valid, Tarings
      <4>4. e.at <= records[w].at /\ (e.src = "import" => e.known <= records[w].at)  BY <4>2
      <4> QED  BY <4>3, <4>4
    <3>2. t \in Valid /\ t \in Rec  BY <1>5, <1>6, <3>1
    <3> QED  BY <1>3, <3>2 DEF KnownAt
  <2>2. ASSUME NEW t \in B PROVE t \in A
    <3>1. t \in Valid' /\ records'[t] = records[t]  BY <1>3, <1>6
    <3> QED  BY <3>1 DEF KnownAt
  <2> HIDE DEF A, B
  <2>3. A = B  BY <2>1, <2>2
  <2> QED  BY <2>3 DEF A, B
<1>8. Rec \subseteq Rec'  BY <1>3
<1>9. \A r \in Rec : records'[r].at = records[r].at /\ records'[r].mass = records[r].mass
                     /\ records'[r].tare = records[r].tare
  BY <1>3
<1> QED  BY <1>7, <1>8, <1>9, SameDocument

(* The pair is on one platform at a time: what is made now is made after   *)
(* every weighing there is.                                                *)
LEMMA NowIsLater ==
  ASSUME StoryIInv, Free(now), NEW w \in Rec
  PROVE  ~(now <= records[w].at)
<1>1. records[w].at # now /\ records[w].at <= now  BY DEF Free, StoryIInv, InTheirTime
<1>2. records[w].at \in Nat /\ now \in Nat
  <2>1. records[w].at \in Moment /\ now \in Moment  BY RecordsAre DEF Record
  <2> QED  BY <2>1, MomentIs
<1> QED  BY <1>1, <1>2

LEMMA DocumentStep ==
  ASSUME StoryIInv, [StoryNext]_storyVars, NEW w \in Rec, annulled' = annulled,
         ~ \E r \in Rec : ~InJournal(r) /\ InJournal(r)' /\ records[r].at <= records[w].at
  PROVE  DocumentTare(w)' = DocumentTare(w)
<1>1. CASE UNCHANGED records
  <2>1. Rec' = Rec /\ Valid' = Valid  BY <1>1 DEF Rec, Valid, Tarings, InJournal
  <2>2. {t \in Valid' : records'[t].at <= records[w].at
                        /\ (records'[t].src = "import" => records'[t].known <= records[w].at)}
        = {t \in Valid : records[t].at <= records[w].at /\ KnownAt(t, records[w].at)}
    BY <1>1, <2>1 DEF KnownAt
  <2> QED  BY <1>1, <2>1, <2>2, SameDocument
<1>2. ASSUME NEW m \in TareMass, NEW online \in BOOLEAN, Tare(m, online)
      PROVE  DocumentTare(w)' = DocumentTare(w)
  <2>1. PICK e : e = Entry("taring", now, m, "scale", IF online THEN now ELSE 0, NoTare)  OBVIOUS
  <2>2. records' = Append(records, e) /\ Free(now) /\ e.at = now  BY <1>2, <2>1 DEF Tare, Entry
  <2> QED  BY <2>2, NowIsLater, LaterStays
<1>3. ASSUME NEW m \in TareMass, NEW i \in DOMAIN Moments, Import(i, m)
      PROVE  DocumentTare(w)' = DocumentTare(w)
  <2>1. PICK e : e = Entry("taring", Moments[i], m, "import", now, NoTare)  OBVIOUS
  <2>2. records' = Append(records, e) /\ Free(now) /\ e.src = "import" /\ e.known = now
    BY <1>3, <2>1 DEF Import, Entry
  <2> QED  BY <2>2, NowIsLater, LaterStays
<1>4. ASSUME NEW g \in GrossMass, WeighByHand(g) \/ WeighByCommand(g)
      PROVE  DocumentTare(w)' = DocumentTare(w)
  <2>1. \E t : records' = Append(records, Entry("weighing", now, g, "scale", now, t))
    BY <1>4 DEF WeighByHand, WeighByCommand
  <2>2. PICK e : e.kind = "weighing" /\ records' = Append(records, e)  BY <2>1 DEF Entry
  <2> QED  BY <2>2, LaterStays
<1>5. ASSUME NEW r \in Rec, Deliver(r) PROVE DocumentTare(w)' = DocumentTare(w)
  <2>1. records' = [records EXCEPT ![r].known = now] /\ ~InJournal(r)  BY <1>5 DEF Deliver
  <2>2. Rec' = Rec /\ (\A q \in Rec \ {r} : records'[q] = records[q])
        /\ records'[r] = [records[r] EXCEPT !.known = now]
    BY <2>1 DEF Rec, StoryIInv, StoryShape
  <2>3. now # 0
    <3>1. now \in Moment  BY RecordsAre
    <3> QED  BY <3>1, MomentIs
  <2>4. records[r] \in Record  BY RecordsAre
  <2>5. InJournal(r)'  BY <2>2, <2>3, <2>4 DEF InJournal, Record
  <2>6. ~(records[r].at <= records[w].at)  BY <2>1, <2>5
  <2>7. \A q \in Rec : records'[q].at = records[q].at /\ records'[q].mass = records[q].mass
                       /\ records'[q].tare = records[q].tare /\ records'[q].kind = records[q].kind
    BY <2>2, <2>4 DEF Record
  <2>8. \A q \in Rec \ {r} : q \in Valid' <=> q \in Valid
    BY <2>2 DEF Valid, Tarings, InJournal
  <2>9. {t \in Valid' : records'[t].at <= records[w].at
                        /\ (records'[t].src = "import" => records'[t].known <= records[w].at)}
        = {t \in Valid : records[t].at <= records[w].at /\ KnownAt(t, records[w].at)}
    <3> DEFINE A == {t \in Valid' : records'[t].at <= records[w].at
                        /\ (records'[t].src = "import" => records'[t].known <= records[w].at)}
               B == {t \in Valid : records[t].at <= records[w].at /\ KnownAt(t, records[w].at)}
    <3>1. Valid' \subseteq Rec /\ Valid \subseteq Rec  BY <2>2 DEF Valid, Tarings
    <3>2. ASSUME NEW t \in A PROVE t \in B
      <4>1. t \in Rec /\ t # r  BY <2>6, <2>7, <3>1
      <4> QED  BY <2>2, <2>8, <4>1 DEF KnownAt
    <3>3. ASSUME NEW t \in B PROVE t \in A
      <4>1. t \in Rec /\ t # r  BY <2>6, <3>1
      <4> QED  BY <2>2, <2>8, <4>1 DEF KnownAt
    <3> HIDE DEF A, B
    <3>4. A = B  BY <3>2, <3>3
    <3> QED  BY <3>4 DEF A, B
  <2> QED  BY <2>2, <2>7, <2>9, SameDocument
<1>6. ASSUME NEW r \in Rec, Storno(r) PROVE DocumentTare(w)' = DocumentTare(w)
  BY <1>6 DEF Storno, Annul
<1>7. CASE TimePasses \/ Replicate \/ Hint \/ Answer \/ UNCHANGED storyVars
  <2>1. UNCHANGED records  BY <1>7 DEF TimePasses, Replicate, Hint, Answer, storyVars
  <2> QED  BY <1>1, <2>1
<1> QED  BY <1>2, <1>3, <1>4, <1>5, <1>6, <1>7 DEF StoryNext

(* For any moments and masses and any order of the steps: the reason the   *)
(* document gives for a weighing without a net weight (tare_block) changes *)
(* only by a storno or by late news of a taring made before the weighing.  *)
THEOREM DocumentStaysHolds == StorySpec => DocumentStays
<1>1. StoryInit => StoryIInv  BY StoryStarts
<1>2. StoryIInv /\ [StoryNext]_storyVars => StoryIInv'  BY StoryStep
<1>3. StoryIInv /\ [StoryNext]_storyVars =>
        [\A w \in Weighings : DocumentTare(w)' # DocumentTare(w) =>
           \/ annulled' # annulled
           \/ \E r \in Rec : ~InJournal(r) /\ InJournal(r)' /\ records[r].at <= records[w].at]_storyVars
  <2> SUFFICES ASSUME StoryIInv, [StoryNext]_storyVars, NEW w \in Weighings,
                      DocumentTare(w)' # DocumentTare(w), annulled' = annulled
      PROVE  \E r \in Rec : ~InJournal(r) /\ InJournal(r)' /\ records[r].at <= records[w].at
    OBVIOUS
  <2>1. w \in Rec  BY DEF Weighings
  <2> QED  BY <2>1, DocumentStep
<1> QED  BY <1>1, <1>2, <1>3, PTL DEF StorySpec, DocumentStays

-----------------------------------------------------------------------------
(***************************************************************************)
(* The periods of the reports.                                             *)
(***************************************************************************)
LEMMA DaysAre ==
  /\ Today # {} /\ Today \subseteq Int /\ MinDate \in Int /\ LastDay \in Nat
  /\ \A day \in Today : 3660 <= day /\ day <= LastDay - 1
  /\ 3660 <= MinDate /\ MinDate <= LastDay - 1
  /\ Typed \subseteq Nat /\ MaxDays \in 63 .. 1098
<1>1. LastDay \in Nat  BY LastYear
<1> QED  BY <1>1, DayAssumption

(* A date by its month and the day of it.                                  *)
LEMMA DateParts ==
  ASSUME NEW n \in 1 .. LastDay
  PROVE  /\ DateOf(n).m \in Int /\ DateOf(n).d \in 1 .. DaysIn(DateOf(n).m)
         /\ DateOf(n) = [m |-> DateOf(n).m, d |-> DateOf(n).d]
         /\ FirstOf(DateOf(n).m) + DateOf(n).d - 1 = n
         /\ FirstOf(DateOf(n).m) \in Int /\ DaysIn(DateOf(n).m) \in 28 .. 31
         /\ FirstOf(DateOf(n).m + 1) = FirstOf(DateOf(n).m) + DaysIn(DateOf(n).m)
<1>1. PICK m \in Int, d \in Nat :
        DateOf(n) = [m |-> m, d |-> d] /\ d \in 1 .. DaysIn(m) /\ FirstOf(m) + d - 1 = n
  BY DateFound
<1>2. DateOf(n).m = m /\ DateOf(n).d = d  BY <1>1
<1>3. FirstOf(m) \in Int /\ DaysIn(m) \in 28 .. 31 /\ FirstOf(m + 1) = FirstOf(m) + DaysIn(m)
  BY NextMonth
<1> QED  BY <1>1, <1>2, <1>3

(* The first of a month.                                                   *)
LEMMA FirstIsFirst ==
  ASSUME NEW m \in Int, FirstOf(m) \in 1 .. LastDay
  PROVE  DateOf(FirstOf(m)) = [m |-> m, d |-> 1] /\ IsFirst(FirstOf(m))
<1>1. FirstOf(m) \in Int /\ DaysIn(m) \in 28 .. 31  BY NextMonth
<1>2. 1 \in 1 .. DaysIn(m) /\ FirstOf(m) + 1 - 1 = FirstOf(m)  BY <1>1
<1>3. DateOf(FirstOf(m) + 1 - 1) = [m |-> m, d |-> 1]  BY <1>2, DateIs
<1>4. DateOf(FirstOf(m)) = [m |-> m, d |-> 1]  BY <1>2, <1>3
<1> QED  BY <1>4 DEF IsFirst

(* A day of a month, by its bounds.                                        *)
LEMMA MonthOfDay ==
  ASSUME NEW n \in 1 .. LastDay, NEW m \in Int, FirstOf(m) <= n, n < FirstOf(m + 1)
  PROVE  DateOf(n) = [m |-> m, d |-> n - FirstOf(m) + 1]
<1>1. FirstOf(m) \in Int /\ DaysIn(m) \in 28 .. 31 /\ FirstOf(m + 1) = FirstOf(m) + DaysIn(m)
  BY NextMonth
<1>2. PICK d \in Int : d = n - FirstOf(m) + 1  BY <1>1
<1>3. d \in 1 .. DaysIn(m) /\ FirstOf(m) + d - 1 = n  BY <1>1, <1>2
<1>4. DateOf(FirstOf(m) + d - 1) = [m |-> m, d |-> d]  BY <1>3, DateIs
<1> QED  BY <1>2, <1>3, <1>4

(* Going back by months lands in the month it should, and on the first     *)
(* from a first.                                                           *)
LEMMA BackIs ==
  ASSUME NEW n \in 1 .. LastDay, NEW u \in Int
  PROVE  LET m == DateOf(n).m - u IN
         /\ Back(n, u) \in Int
         /\ FirstOf(m) <= Back(n, u) /\ Back(n, u) < FirstOf(m + 1)
         /\ DateOf(n).d = 1 => Back(n, u) = FirstOf(m)
<1> DEFINE d == DateOf(n).d
           m == DateOf(n).m - u
           e == IF d > DaysIn(m) THEN DaysIn(m) ELSE d
<1>1. DateOf(n).m \in Int /\ d \in 1 .. DaysIn(DateOf(n).m) /\ DaysIn(DateOf(n).m) \in 28 .. 31
  BY DateParts
<1>2. m \in Int  BY <1>1
<1>3. Back(n, u) = FirstOf(m) + e - 1  BY DEF Back, Ordinal, ShiftMonths
<1> HIDE DEF m
<1>4. FirstOf(m) \in Int /\ DaysIn(m) \in 28 .. 31 /\ FirstOf(m + 1) = FirstOf(m) + DaysIn(m)
  BY <1>2, NextMonth
<1>5. e \in 1 .. DaysIn(m) /\ (d = 1 => e = 1)  BY <1>1, <1>4
<1> HIDE DEF e
<1>6. /\ Back(n, u) \in Int
      /\ FirstOf(m) <= Back(n, u) /\ Back(n, u) < FirstOf(m + 1)
      /\ d = 1 => Back(n, u) = FirstOf(m)
  BY <1>3, <1>4, <1>5
<1> QED  BY <1>6 DEF m

(* What the page may show: a period in the calendar with room before it,   *)
(* not longer than three years; a preset with a unit begins on the first   *)
(* of a month and is within the unit.                                      *)
Shown(p, unit) ==
  /\ p.from \in Int /\ p.to \in Int
  /\ 3288 <= p.from /\ p.from <= p.to /\ p.to <= LastDay - 1
  /\ Length(p) <= 1098
  /\ unit \in {NoUnit, 1, 3, 12}
  /\ unit # NoUnit => DateOf(p.from).d = 1 /\ MonthsTouched(p) <= unit

LEMMA MonthsOf ==
  ASSUME NEW p, NEW unit, Shown(p, unit)
  PROVE  /\ p.from \in 1 .. LastDay /\ p.to \in 1 .. LastDay /\ p.to + 1 \in 1 .. LastDay
         /\ DateOf(p.from).m \in Int /\ DateOf(p.to).m \in Int
         /\ MonthsTouched(p) \in 1 .. 41
<1> DEFINE a == DateOf(p.from).m
           b == DateOf(p.to).m
<1>1. p.from \in 1 .. LastDay /\ p.to \in 1 .. LastDay /\ p.to + 1 \in 1 .. LastDay
  BY DaysAre DEF Shown
<1>2. /\ a \in Int /\ FirstOf(a) \in Int /\ FirstOf(a) <= p.from /\ p.from < FirstOf(a) + 31
      /\ FirstOf(a + 1) > p.from
  BY <1>1, DateParts
<1>3. b \in Int /\ FirstOf(b) \in Int /\ FirstOf(b) <= p.to /\ FirstOf(b + 1) > p.to
  BY <1>1, DateParts
<1>4. p.from <= p.to /\ p.to - p.from + 1 <= 1098 /\ p.from \in Int /\ p.to \in Int
  BY DEF Shown, Length
<1> HIDE DEF a, b
<1>5. b >= a
  <2> SUFFICES ASSUME b < a PROVE FALSE  BY <1>2, <1>3
  <2>1. b + 1 = a \/ b + 1 < a  BY <1>2, <1>3
  <2>2. b + 1 \in Int /\ FirstOf(b + 1) \in Int  BY <1>3, NextMonth
  <2>3. FirstOf(b + 1) <= FirstOf(a)  BY <2>1, <2>2, <1>2, LaterMonth
  <2> QED  BY <1>2, <1>3, <1>4, <2>2, <2>3
<1>6. PICK j \in Nat : j = b - a  BY <1>2, <1>3, <1>5
<1>7. FirstOf(a) + 28 * j <= FirstOf(a + j) /\ FirstOf(a + j) \in Int  BY <1>2, MonthsApart
<1>8. a + j = b  BY <1>2, <1>3, <1>6
<1>9. FirstOf(a) + 28 * j <= FirstOf(b)  BY <1>7, <1>8
<1>10. j <= 40  BY <1>2, <1>3, <1>4, <1>9
<1>11. MonthsTouched(p) = j + 1  BY <1>2, <1>3, <1>6 DEF MonthsTouched, a, b
<1> QED  BY <1>1, <1>2, <1>3, <1>10, <1>11 DEF a, b

(* From the first of a month back by at least the months the period        *)
(* touches.                                                                *)
LEMMA BackByMonths ==
  ASSUME NEW p, NEW unit, Shown(p, unit), DateOf(p.from).d = 1,
         NEW u \in Int, MonthsTouched(p) <= u, u <= 41
  PROVE  LET q == Period(Back(p.from, u), Back(p.to, u)) IN
         /\ q.from <= q.to /\ q.to < p.from
         /\ MonthsTouched(q) = MonthsTouched(p) /\ DateOf(q.from).d = 1
<1> DEFINE a == DateOf(p.from).m
           b == DateOf(p.to).m
           qf == Back(p.from, u)
           qt == Back(p.to, u)
<1>1. /\ p.from \in 1 .. LastDay /\ p.to \in 1 .. LastDay /\ a \in Int /\ b \in Int
      /\ MonthsTouched(p) \in 1 .. 41 /\ 3288 <= p.from
  BY MonthsOf DEF Shown
<1>2. MonthsTouched(p) = b - a + 1  BY DEF MonthsTouched
<1>3. FirstOf(a) + 1 - 1 = p.from /\ FirstOf(a) \in Int  BY <1>1, DateParts
<1>4. qf = FirstOf(a - u) /\ qf \in Int  BY <1>1, BackIs
<1>5. FirstOf(b - u) <= qt /\ qt < FirstOf((b - u) + 1) /\ qt \in Int  BY <1>1, BackIs
<1> HIDE DEF qf, qt, a, b
<1>6. PICK x \in Int, y \in Int : x = a - u /\ y = b - u  BY <1>1
<1>7. x <= y /\ y + 1 <= a /\ u >= 1  BY <1>1, <1>2, <1>6
<1>8. FirstOf(x) \in Int /\ FirstOf(y) \in Int /\ FirstOf(y + 1) \in Int  BY NextMonth
<1>9. FirstOf(x) <= FirstOf(y)
  <2>1. CASE x = y  BY <2>1, <1>8
  <2>2. CASE x < y  BY <2>2, <1>8, LaterMonth
  <2> QED  BY <1>7, <2>1, <2>2
<1>10. FirstOf(y + 1) <= FirstOf(a)
  <2>1. CASE y + 1 = a  BY <2>1, <1>3
  <2>2. CASE y + 1 < a
    <3>1. y + 1 \in Int  OBVIOUS
    <3> QED  BY <2>2, <3>1, <1>1, <1>3, <1>8, LaterMonth
  <2> QED  BY <1>1, <1>7, <2>1, <2>2
<1>11. FirstOf(y) <= qt /\ qt < FirstOf(y + 1) /\ qf = FirstOf(x)  BY <1>4, <1>5, <1>6
<1>12. qf <= qt /\ qt < p.from  BY <1>1, <1>3, <1>4, <1>5, <1>8, <1>9, <1>10, <1>11
<1>13. 1 <= qf
  <2>1. PICK j \in Nat : j = u  BY <1>7
  <2>2. FirstOf(x + j) <= FirstOf(x) + 31 * j  BY MonthsApart
  <2>3. x + j = a  BY <1>1, <1>6, <2>1
  <2>4. FirstOf(a) <= FirstOf(x) + 31 * j  BY <2>2, <2>3
  <2>5. j <= 41 /\ p.from = FirstOf(a)  BY <1>3, <2>1
  <2> QED  BY <1>1, <1>3, <1>8, <1>11, <2>4, <2>5
<1>14. qf \in 1 .. LastDay /\ qt \in 1 .. LastDay
  BY <1>1, <1>4, <1>5, <1>12, <1>13, DaysAre
<1>15. DateOf(qf) = [m |-> x, d |-> 1]  BY <1>11, <1>14, FirstIsFirst
<1>16. DateOf(qt) = [m |-> y, d |-> qt - FirstOf(y) + 1]  BY <1>11, <1>14, MonthOfDay
<1> DEFINE q == Period(qf, qt)
<1>17. q.from = qf /\ q.to = qt  BY DEF Period
<1>18. MonthsTouched(q) = y - x + 1  BY <1>15, <1>16, <1>17 DEF MonthsTouched
<1>19. y - x + 1 = b - a + 1  BY <1>1, <1>6
<1> QED  BY <1>2, <1>12, <1>15, <1>17, <1>18, <1>19 DEF qf, qt

(* Whole months back by as many months end the day before.                 *)
LEMMA BackByWholeMonths ==
  ASSUME NEW p, NEW unit, Shown(p, unit), DateOf(p.from).d = 1, DateOf(p.to + 1).d = 1
  PROVE  LET n == MonthsTouched(p)
             q == Period(Back(p.from, n), Back(p.to + 1, n) - 1) IN
         /\ q.from <= q.to /\ q.to + 1 = p.from /\ q.to < p.from
         /\ MonthsTouched(q) = n /\ DateOf(q.from).d = 1
<1> DEFINE a == DateOf(p.from).m
           b == DateOf(p.to).m
           n == MonthsTouched(p)
           qf == Back(p.from, n)
           qt == Back(p.to + 1, n) - 1
<1>1. /\ p.from \in 1 .. LastDay /\ p.to \in 1 .. LastDay /\ p.to + 1 \in 1 .. LastDay
      /\ a \in Int /\ b \in Int /\ n \in 1 .. 41 /\ 3288 <= p.from
  BY MonthsOf DEF Shown
<1>2. n = b - a + 1  BY DEF MonthsTouched
<1>3. FirstOf(a) + 1 - 1 = p.from /\ FirstOf(a) \in Int  BY <1>1, DateParts
<1>4. DateOf(p.to + 1).m = b + 1
  <2> DEFINE c == DateOf(p.to + 1).m
  <2>1. c \in Int /\ FirstOf(c) + 1 - 1 = p.to + 1 /\ FirstOf(c) \in Int  BY <1>1, DateParts
  <2>2. b \in Int /\ FirstOf(b) <= p.to /\ p.to < FirstOf(b + 1) /\ FirstOf(b) \in Int
    BY <1>1, DateParts
  <2>3. b + 1 \in Int /\ FirstOf(b + 1) \in Int  BY <2>2, NextMonth
  <2> HIDE DEF c
  <2>4. ~(c < b + 1)
    <3> SUFFICES ASSUME c < b + 1 PROVE FALSE  OBVIOUS
    <3>1. c = b \/ c < b  BY <2>1, <2>2
    <3>2. FirstOf(c) <= FirstOf(b)  BY <3>1, <2>1, <2>2, LaterMonth
    <3> QED  BY <1>1, <2>1, <2>2, <3>2
  <2>5. ~(b + 1 < c)
    <3> SUFFICES ASSUME b + 1 < c PROVE FALSE  OBVIOUS
    <3>1. FirstOf(b + 1) + 28 <= FirstOf(c)  BY <2>1, <2>3, LaterMonth
    <3> QED  BY <1>1, <2>1, <2>2, <2>3, <3>1
  <2>6. c = b + 1  BY <2>1, <2>3, <2>4, <2>5
  <2> QED  BY <2>6 DEF c
<1>19. PICK k \in Int : k = n  BY <1>1
<1>5. qf = FirstOf(a - n)
  <2>2. p.from \in 1 .. LastDay  BY <1>1
  <2>1. Back(p.from, k) = FirstOf(DateOf(p.from).m - k)  BY <2>2, BackIs
  <2> QED  BY <1>19, <2>1
<1>6. qt = FirstOf((b + 1) - n) - 1
  <2>1. Back(p.to + 1, k) = FirstOf(DateOf(p.to + 1).m - k)  BY <1>1, BackIs
  <2> QED  BY <1>4, <1>19, <2>1
<1> HIDE DEF a, b, qf, qt, n
<1>7. (b + 1) - n = a  BY <1>1, <1>2
<1>8. PICK x \in Int : x = a - n  BY <1>1
<1>9. qf = FirstOf(x) /\ qt = FirstOf(a) - 1 /\ x < a  BY <1>1, <1>5, <1>6, <1>7, <1>8
<1>10. FirstOf(x) + 28 <= FirstOf(a) /\ FirstOf(x) \in Int  BY <1>1, <1>9, LaterMonth, NextMonth
<1>11. qf <= qt /\ qt + 1 = p.from /\ qt < p.from  BY <1>1, <1>3, <1>9, <1>10
<1>12. 1 <= qf
  <2>1. PICK j \in Nat : j = n  BY <1>1
  <2>2. FirstOf(x + j) <= FirstOf(x) + 31 * j  BY MonthsApart
  <2>3. x + j = a  BY <1>1, <1>8, <2>1
  <2>4. FirstOf(a) <= FirstOf(x) + 31 * j  BY <2>2, <2>3
  <2>5. j <= 41 /\ p.from = FirstOf(a)  BY <1>1, <1>3, <2>1
  <2> QED  BY <1>1, <1>3, <1>9, <1>10, <2>4, <2>5
<1>13. qf \in 1 .. LastDay /\ qt \in 1 .. LastDay
  BY <1>1, <1>3, <1>9, <1>10, <1>11, <1>12, DaysAre
<1>14. DateOf(qf) = [m |-> x, d |-> 1]  BY <1>9, <1>13, FirstIsFirst
<1>15. DateOf(qt).m = a - 1
  <2>1. PICK y \in Int : y = a - 1  BY <1>1
  <2>2. y + 1 = a  BY <1>1, <2>1
  <2>3. FirstOf(y + 1) = FirstOf(y) + DaysIn(y) /\ DaysIn(y) \in 28 .. 31 /\ FirstOf(y) \in Int
    BY NextMonth
  <2>4. FirstOf(y) <= qt /\ qt < FirstOf(y + 1)  BY <1>3, <1>9, <2>2, <2>3
  <2> QED  BY <1>13, <2>1, <2>4, MonthOfDay
<1> DEFINE q == Period(qf, qt)
<1>16. q.from = qf /\ q.to = qt  BY DEF Period
<1>17. MonthsTouched(q) = (a - 1) - x + 1  BY <1>14, <1>15, <1>16 DEF MonthsTouched
<1>18. (a - 1) - x + 1 = n  BY <1>1, <1>8, <1>19
<1> QED  BY <1>11, <1>14, <1>16, <1>17, <1>18 DEF qf, qt, n

(* The charts: where the cursor begins, and where it is after some rounds. *)
LEMMA FirstBucket ==
  ASSUME NEW p, NEW unit, Shown(p, unit)
  PROVE  LET s == Step(p)
             first == BucketStart(p.from, s)
         IN  /\ first \in Int /\ p.from - 30 <= first /\ first <= p.from
             /\ CursorAfter(first, s, 0) = first
             /\ s = "week" => p.from - 6 <= first /\ \E k \in Int : first + 6 = 7 * k
             /\ s = "day" => first = p.from
             /\ s = "month" => first = FirstOf(DateOf(p.from).m) /\ DateOf(first).m = DateOf(p.from).m
<1>1. p.from \in 1 .. LastDay /\ 3288 <= p.from /\ p.from \in Int  BY MonthsOf DEF Shown
<1>2. CASE Step(p) = "day"  BY <1>1, <1>2 DEF BucketStart, CursorAfter
<1>3. CASE Step(p) = "week"
  <2> DEFINE first == p.from - Weekday(p.from)
  <2>1. BucketStart(p.from, Step(p)) = first  BY <1>3 DEF BucketStart
  <2>2. PICK k \in Int : k = (p.from + 6) \div 7  BY <1>1
  <2>3. (p.from + 6) % 7 \in 0 .. 6 /\ p.from + 6 = 7 * k + ((p.from + 6) % 7)  BY <1>1, <2>2
  <2>6. PICK r \in Int : r = (p.from + 6) % 7  BY <2>3
  <2>7. first = p.from - r  BY <2>6 DEF Weekday
  <2>4. first \in Int /\ p.from - 6 <= first /\ first <= p.from /\ first + 6 = 7 * k
    <3>1. r \in 0 .. 6 /\ p.from + 6 = 7 * k + r  BY <2>3, <2>6
    <3> HIDE DEF first
    <3> QED  BY <1>1, <2>7, <3>1
  <2>5. CursorAfter(first, Step(p), 0) = first  BY <1>3, <2>4 DEF CursorAfter
  <2> HIDE DEF first
  <2> QED  BY <1>1, <1>3, <2>1, <2>4, <2>5
<1>4. CASE Step(p) = "month"
  <2> DEFINE m == DateOf(p.from).m
             first == FirstOf(m)
  <2>1. BucketStart(p.from, Step(p)) = first  BY <1>4 DEF BucketStart
  <2>2. m \in Int /\ first \in Int /\ first <= p.from /\ p.from - 30 <= first  BY <1>1, DateParts
  <2>3. first \in 1 .. LastDay  BY <1>1, <2>2, DaysAre
  <2>4. DateOf(first).m = m  BY <2>2, <2>3, FirstIsFirst
  <2>5. CursorAfter(first, Step(p), 0) = FirstOf(m + 0)  BY <1>4, <2>4 DEF CursorAfter
  <2>6. m + 0 = m  BY <2>2
  <2> QED  BY <1>4, <2>1, <2>2, <2>4, <2>5, <2>6
<1>5. Step(p) \in {"day", "week", "month"}  BY DEF Step
<1> QED  BY <1>2, <1>3, <1>4, <1>5

(* One round of the loop takes the cursor to the next interval.            *)
LEMMA NextRound ==
  ASSUME NEW p, NEW unit, Shown(p, unit), NEW n \in Nat
  PROVE  LET s == Step(p)
             first == BucketStart(p.from, s)
             c == CursorAfter(first, s, n)
         IN  /\ c \in Int /\ first <= c
             /\ c <= p.to => /\ CursorAfter(first, s, n + 1) = NextBucket(c, s)
                             /\ s = "week" => Weekday(c) = 0
                             /\ s = "month" => IsFirst(c)
<1> DEFINE first == BucketStart(p.from, Step(p))
           c == CursorAfter(first, Step(p), n)
<1>1. /\ first \in Int /\ p.from - 30 <= first
      /\ Step(p) = "week" => \E k \in Int : first + 6 = 7 * k
      /\ Step(p) = "month" => first = FirstOf(DateOf(p.from).m) /\ DateOf(first).m = DateOf(p.from).m
  BY FirstBucket
<1>2. p.from \in 1 .. LastDay /\ p.to \in 1 .. LastDay /\ 3288 <= p.from  BY MonthsOf DEF Shown
<1>3. CASE Step(p) = "day"
  <2>1. c = first + n /\ CursorAfter(first, Step(p), n + 1) = first + (n + 1)
    BY <1>3 DEF CursorAfter
  <2>2. NextBucket(c, Step(p)) = c + 1  BY <1>3 DEF NextBucket
  <2> HIDE DEF first, c
  <2>3. c \in Int /\ first <= c /\ CursorAfter(first, Step(p), n + 1) = NextBucket(c, Step(p))
    BY <1>1, <2>1, <2>2
  <2> QED  BY <1>3, <2>3 DEF first, c
<1>4. CASE Step(p) = "week"
  <2>1. c = first + 7 * n /\ CursorAfter(first, Step(p), n + 1) = first + 7 * (n + 1)
    BY <1>4 DEF CursorAfter
  <2>2. NextBucket(c, Step(p)) = c + 7  BY <1>4 DEF NextBucket
  <2>3. PICK k \in Int : first + 6 = 7 * k  BY <1>1, <1>4
  <2> HIDE DEF first, c
  <2>4. c \in Int /\ first <= c /\ CursorAfter(first, Step(p), n + 1) = NextBucket(c, Step(p))
    BY <1>1, <2>1, <2>2
  <2>5. PICK j \in Int : j = k + n  OBVIOUS
  <2>6. c + 6 = 7 * j  BY <1>1, <2>1, <2>3, <2>5
  <2>7. (7 * j) % 7 = 0  OBVIOUS
  <2>8. Weekday(c) = 0  BY <2>6, <2>7 DEF Weekday
  <2> QED  BY <1>4, <2>4, <2>8 DEF first, c
<1>5. CASE Step(p) = "month"
  <2> DEFINE m == DateOf(p.from).m
  <2>1. first = FirstOf(m) /\ DateOf(first).m = m  BY <1>1, <1>5
  <2>2. m \in Int  BY <1>2, DateParts
  <2>3. c = FirstOf(m + n) /\ CursorAfter(first, Step(p), n + 1) = FirstOf(m + (n + 1))
    BY <1>5, <2>1 DEF CursorAfter
  <2>4. NextBucket(c, Step(p)) = FirstOf(DateOf(c).m + 1)  BY <1>5 DEF NextBucket
  <2> HIDE DEF first, c, m
  <2>5. FirstOf(m) + 28 * n <= FirstOf(m + n) /\ FirstOf(m) \in Int /\ FirstOf(m + n) \in Int
    BY <2>2, MonthsApart
  <2>6. c \in Int /\ first <= c /\ 1 <= c  BY <1>1, <1>2, <2>1, <2>3, <2>5
  <2>7. ASSUME c <= p.to
        PROVE  CursorAfter(first, Step(p), n + 1) = NextBucket(c, Step(p)) /\ IsFirst(c)
    <3>1. PICK x \in Int : x = m + n  BY <2>2
    <3>2. c = FirstOf(x) /\ FirstOf(x) \in 1 .. LastDay  BY <1>2, <2>3, <2>6, <2>7, <3>1, DaysAre
    <3>3. DateOf(c).m = x /\ IsFirst(c)  BY <3>2, FirstIsFirst
    <3>4. x + 1 = m + (n + 1)  BY <2>2, <3>1
    <3> QED  BY <2>3, <2>4, <3>3, <3>4
  <2> QED  BY <1>5, <2>6, <2>7 DEF first, c
<1>6. Step(p) \in {"day", "week", "month"}  BY DEF Step
<1> QED  BY <1>3, <1>4, <1>5, <1>6

(* After 40 rounds at most the cursor has passed the end.                  *)
LEMMA LoopEnds ==
  ASSUME NEW p, NEW unit, Shown(p, unit)
  PROVE  \E n \in 1 .. Length(p) :
           n <= 40 /\ CursorAfter(BucketStart(p.from, Step(p)), Step(p), n) > p.to
<1> DEFINE first == BucketStart(p.from, Step(p))
           L == Length(p)
<1>1. /\ first \in Int /\ p.from - 30 <= first
      /\ Step(p) = "day" => first = p.from
      /\ Step(p) = "week" => p.from - 6 <= first
      /\ Step(p) = "month" => first = FirstOf(DateOf(p.from).m) /\ DateOf(first).m = DateOf(p.from).m
  BY FirstBucket
<1>2. p.from \in 1 .. LastDay /\ p.from \in Int /\ p.to \in Int  BY MonthsOf DEF Shown
<1>3. L = p.to - p.from + 1 /\ L \in Nat /\ 1 <= L /\ L <= 1098  BY DEF Shown, Length
<1> HIDE DEF first, L
<1>4. CASE Step(p) = "day"
  <2>1. L <= 31  BY <1>4 DEF Step, L
  <2>2. CursorAfter(first, Step(p), L) = first + L  BY <1>4 DEF CursorAfter
  <2>3. L \in 1 .. L /\ L <= 40 /\ CursorAfter(first, Step(p), L) > p.to
    BY <1>1, <1>2, <1>3, <1>4, <2>1, <2>2
  <2> QED  BY <2>3 DEF first, L
<1>5. CASE Step(p) = "week"
  <2>1. L > 31 /\ L <= 190  BY <1>3, <1>5 DEF Step, L
  <2>2. CursorAfter(first, Step(p), 28) = first + 7 * 28  BY <1>5 DEF CursorAfter
  <2>3. 28 \in 1 .. L /\ 28 <= 40 /\ CursorAfter(first, Step(p), 28) > p.to
    BY <1>1, <1>2, <1>3, <1>5, <2>1, <2>2
  <2> QED  BY <2>3 DEF first, L
<1>6. CASE Step(p) = "month"
  <2>1. L > 190  BY <1>3, <1>6 DEF Step, L
  <2> DEFINE m == DateOf(p.from).m
  <2>2. m \in Int  BY <1>2, DateParts
  <2>3. CursorAfter(first, Step(p), 40) = FirstOf(m + 40)  BY <1>1, <1>6 DEF CursorAfter
  <2>4. FirstOf(m) + 1185 <= FirstOf(m + 40)  BY <2>2, FortyMonths
  <2>5. m + 40 \in Int  BY <2>2
  <2>6. FirstOf(m + 40) \in Int  BY <2>5, NextMonth
  <2> HIDE DEF m
  <2>7. first = FirstOf(m)  BY <1>1, <1>6 DEF m
  <2>8. 40 \in 1 .. L /\ 40 <= 40 /\ CursorAfter(first, Step(p), 40) > p.to
    BY <1>1, <1>2, <1>3, <2>1, <2>3, <2>4, <2>6, <2>7
  <2> QED  BY <2>8 DEF first, L
<1>7. Step(p) \in {"day", "week", "month"}  BY DEF Step
<1> QED  BY <1>4, <1>5, <1>6, <1>7

(* The chart of a period that may be shown.                                *)
LEMMA ChartCovers ==
  ASSUME NEW unit, Shown(page.period, unit)
  PROVE  ChartCoversPeriod
<1> DEFINE p == page.period
           s == Step(p)
           first == BucketStart(p.from, s)
           passed == {n \in 1 .. Length(p) : CursorAfter(first, s, n) > p.to}
           N == Min(passed)
           b == Buckets(p)
<1>1. /\ first \in Int /\ first <= p.from /\ CursorAfter(first, s, 0) = first
      /\ p.from \in Int /\ p.to \in Int /\ p.from <= p.to
  BY FirstBucket DEF Shown
<1>2. PICK e \in passed : e <= 40  BY LoopEnds
<1>3. passed \in SUBSET Nat  OBVIOUS
<1>4. N \in passed /\ \A n \in passed : N <= n  BY <1>2, <1>3, MinIs
<1>5. b = [i \in 1 .. N |-> CursorAfter(first, s, i - 1)]  BY DEF Buckets
<1>6. N \in Nat /\ N >= 1 /\ N \in 1 .. Length(p) /\ CursorAfter(first, s, N) > p.to
  BY <1>3, <1>4
<1>7. N <= 40
  <2>1. N <= e /\ e \in Nat  BY <1>2, <1>3, <1>4
  <2> QED  BY <1>2, <1>6, <2>1
<1>8. ASSUME NEW n \in 0 .. N - 1
      PROVE  CursorAfter(first, s, n) <= p.to
  <2>1. n \in Nat /\ n < N  BY <1>6
  <2>2. CASE n = 0  BY <1>1, <2>2
  <2>3. CASE n # 0
    <3>1. Length(p) \in Int  BY <1>1 DEF Length
    <3>2. n \in 1 .. Length(p) /\ ~(N <= n)  BY <1>6, <2>1, <2>3, <3>1
    <3>3. n \notin passed  BY <1>4, <3>2
    <3>4. ~(CursorAfter(first, s, n) > p.to)  BY <3>2, <3>3
    <3>5. CursorAfter(first, s, n) \in Int  BY <2>1, NextRound
    <3> QED  BY <1>1, <3>4, <3>5
  <2> QED  BY <2>2, <2>3
<1>9. ASSUME NEW n \in 0 .. N - 1
      PROVE  /\ CursorAfter(first, s, n + 1) = NextBucket(CursorAfter(first, s, n), s)
             /\ s = "week" => Weekday(CursorAfter(first, s, n)) = 0
             /\ s = "month" => IsFirst(CursorAfter(first, s, n))
  <2>1. n \in Nat  BY <1>6
  <2> QED  BY <1>8, <2>1, NextRound
<1>10. ASSUME NEW n \in 1 .. N
       PROVE  first <= CursorAfter(first, s, n) /\ CursorAfter(first, s, n) \in Int
  <2>1. n \in Nat  BY <1>6
  <2> QED  BY <2>1, NextRound
<1> HIDE DEF passed, N, b
<1>11. Len(b) = N /\ DOMAIN b = 1 .. N /\ \A i \in 1 .. N : b[i] = CursorAfter(first, s, i - 1)
  BY <1>5, <1>6
<1>12. 1 \in 1 .. N /\ N \in 1 .. N /\ 0 \in 0 .. N - 1 /\ N - 1 \in 0 .. N - 1 /\ 1 - 1 = 0
       /\ (N - 1) + 1 = N /\ 0 + 1 = 1
  BY <1>6
<1>13. b[1] = first  BY <1>1, <1>11, <1>12
<1>14. NextBucket(b[1], s) > p.from
  <2>1. CursorAfter(first, s, 1) = NextBucket(first, s)  BY <1>1, <1>9, <1>12
  <2>2. CursorAfter(first, s, 1) > p.from
    <3>1. CASE s = "day"
      <4>1. first = p.from /\ CursorAfter(first, s, 1) = first + 1
        BY <3>1, FirstBucket DEF CursorAfter
      <4> QED  BY <4>1, <1>1
    <3>2. CASE s = "week"
      <4>1. p.from - 6 <= first /\ CursorAfter(first, s, 1) = first + 7
        <5>1. p.from - 6 <= first  BY <3>2, FirstBucket
        <5>2. CursorAfter(first, s, 1) = first + 7 * 1  BY <3>2 DEF CursorAfter
        <5> QED  BY <1>1, <5>1, <5>2
      <4> QED  BY <4>1, <1>1
    <3>3. CASE s = "month"
      <4>1. DateOf(first).m = DateOf(p.from).m  BY <3>3, FirstBucket
      <4>2. CursorAfter(first, s, 1) = FirstOf(DateOf(p.from).m + 1)  BY <3>3, <4>1 DEF CursorAfter
      <4>3. p.from \in 1 .. LastDay  BY MonthsOf
      <4> QED  BY <4>2, <4>3, DateParts
    <3>4. s \in {"day", "week", "month"}  BY DEF Step
    <3> QED  BY <3>1, <3>2, <3>3, <3>4
  <2> QED  BY <1>13, <2>1, <2>2
<1>15. \A i \in 1 .. Len(b) - 1 : b[i + 1] = NextBucket(b[i], s)
  <2> SUFFICES ASSUME NEW i \in 1 .. Len(b) - 1 PROVE b[i + 1] = NextBucket(b[i], s)  OBVIOUS
  <2>1. i \in 1 .. N /\ i + 1 \in 1 .. N /\ i - 1 \in 0 .. N - 1 /\ (i + 1) - 1 = (i - 1) + 1
    BY <1>6, <1>11
  <2>2. b[i + 1] = CursorAfter(first, s, (i - 1) + 1)  BY <1>11, <2>1
  <2>3. b[i] = CursorAfter(first, s, i - 1)  BY <1>11, <2>1
  <2> QED  BY <1>9, <2>1, <2>2, <2>3
<1>16. b[N] = CursorAfter(first, s, N - 1)  BY <1>11, <1>12
<1>17. b[Len(b)] <= p.to  BY <1>8, <1>11, <1>12, <1>16
<1>18. p.to < NextBucket(b[Len(b)], s)
  <2>1. CursorAfter(first, s, (N - 1) + 1) = NextBucket(b[N], s)  BY <1>9, <1>12, <1>16
  <2>2. CursorAfter(first, s, N) = NextBucket(b[N], s)  BY <1>12, <2>1
  <2>3. CursorAfter(first, s, N) \in Int  BY <1>10, <1>12
  <2>4. p.to < CursorAfter(first, s, N)  BY <1>1, <1>6, <2>3 DEF N
  <2> QED  BY <1>11, <2>2, <2>4
<1>19. ASSUME NEW i \in DOMAIN b
       PROVE  (s = "week" => Weekday(b[i]) = 0) /\ (s = "month" => IsFirst(b[i]))
  <2>1. i \in 1 .. N /\ i - 1 \in 0 .. N - 1  BY <1>6, <1>11
  <2> QED  BY <1>9, <1>11, <2>1
<1>20. b # <<>>
  <2>1. Len(b) # 0  BY <1>6, <1>11
  <2> QED  BY <2>1
<1>21. Len(b) <= 40  BY <1>7, <1>11
<1> QED  BY <1>1, <1>13, <1>14, <1>15, <1>17, <1>18, <1>19, <1>20, <1>21 DEF ChartCoversPeriod, b

(* What is shown is compared with what was before it.                      *)
LEMMA ComparedBefore ==
  ASSUME Shown(page.period, page.unit)
  PROVE  ComparedWithBefore
<1> DEFINE p == page.period
           unit == page.unit
           n == MonthsTouched(p)
           q == Previous(p, unit)
<1>1. /\ p.from \in 1 .. LastDay /\ p.to \in 1 .. LastDay /\ p.to + 1 \in 1 .. LastDay
      /\ n \in 1 .. 41
  BY MonthsOf
<1>2. /\ p.from \in Int /\ p.to \in Int /\ p.from <= p.to /\ unit \in {NoUnit, 1, 3, 12}
      /\ unit # NoUnit => DateOf(p.from).d = 1 /\ n <= unit
  BY DEF Shown
<1>3. ASSUME unit # NoUnit \/ DateOf(p.from).d = 1
      PROVE  /\ q.from <= q.to /\ q.to < p.from
             /\ MonthsTouched(q) = n /\ DateOf(q.from).d = DateOf(p.from).d
  <2>1. DateOf(p.from).d = 1  BY <1>2, <1>3
  <2>2. CASE unit # NoUnit
    <3>1. q = Period(Back(p.from, unit), Back(p.to, unit))  BY <2>2 DEF Previous
    <3>2. unit \in Int /\ n <= unit /\ unit <= 41  BY <1>2, <2>2 DEF NoUnit
    <3> HIDE DEF q
    <3> QED  BY <2>1, <3>1, <3>2, BackByMonths
  <2>3. CASE unit = NoUnit /\ DateOf(p.to + 1).d = 1
    <3>1. q = Period(Back(p.from, n), Back(p.to + 1, n) - 1)
      BY <2>1, <2>3 DEF Previous, IsFirst
    <3> HIDE DEF q
    <3> QED  BY <2>1, <2>3, <3>1, BackByWholeMonths
  <2>4. CASE unit = NoUnit /\ DateOf(p.to + 1).d # 1
    <3>1. q = Period(Back(p.from, n), Back(p.to, n))
      BY <2>1, <2>4 DEF Previous, IsFirst
    <3>2. PICK u \in Int : u = n  BY <1>1
    <3>3. MonthsTouched(p) <= u /\ u <= 41  BY <1>1, <3>2
    <3> HIDE DEF q
    <3> QED  BY <2>1, <3>1, <3>2, <3>3, BackByMonths
  <2> QED  BY <2>2, <2>3, <2>4
<1>4. ASSUME unit = NoUnit, DateOf(p.from).d # 1
      PROVE  /\ q.from <= q.to /\ q.to < p.from
             /\ Length(q) = Length(p) /\ q.to + 1 = p.from
  <2>1. q = Period(p.from - Length(p), p.to - Length(p))  BY <1>4 DEF Previous, IsFirst
  <2> HIDE DEF q
  <2>2. q.from = p.from - Length(p) /\ q.to = p.to - Length(p)  BY <2>1 DEF Period
  <2> QED  BY <1>2, <2>2 DEF Length
<1>5. IsFirst(p.from) <=> DateOf(p.from).d = 1  BY DEF IsFirst
<1> HIDE DEF q, n
<1> QED  BY <1>3, <1>4, <1>5 DEF ComparedWithBefore, q, n

LEMMA WholeStayWhole ==
  ASSUME Shown(page.period, page.unit)
  PROVE  WholeMonthsStayWhole
<1> DEFINE p == page.period
           n == MonthsTouched(p)
           q == Previous(p, NoUnit)
<1> SUFFICES ASSUME IsFirst(p.from), IsFirst(p.to + 1)
             PROVE  IsFirst(q.from) /\ q.to + 1 = p.from
  BY DEF WholeMonthsStayWhole
<1>1. q = Period(Back(p.from, n), Back(p.to + 1, n) - 1)  BY DEF Previous
<1>2. DateOf(p.from).d = 1 /\ DateOf(p.to + 1).d = 1  BY DEF IsFirst
<1> HIDE DEF q
<1>3. q.to + 1 = p.from /\ DateOf(q.from).d = 1  BY <1>1, <1>2, BackByWholeMonths
<1> QED  BY <1>3 DEF IsFirst

PeriodIInv == PeriodTypeOK /\ Shown(page.period, page.unit)

(* A preset chosen on a day of the calendar.                               *)
LEMMA PresetShown ==
  ASSUME NEW day \in Today, NEW key \in Presets
  PROVE  Shown(PresetPeriod(key, day), UnitOf(key))
<1> DEFINE m == DateOf(day).m
           p == PresetPeriod(key, day)
<1>1. day \in 1 .. LastDay /\ day \in Int /\ 3660 <= day /\ day <= LastDay - 1 /\ LastDay \in Nat
  BY DaysAre
<1>2. /\ m \in Int /\ FirstOf(m) \in Int /\ FirstOf(m) <= day /\ day < FirstOf(m + 1)
      /\ day < FirstOf(m) + 31
  BY <1>1, DateParts
<1> HIDE DEF m
<1>3. ASSUME NEW j \in 0 .. 11, NEW u \in {1, 3, 12}, j < u,
             p = Period(FirstOf(m - j), day), UnitOf(key) = u
      PROVE  Shown(p, u)
  <2>1. PICK x \in Int : x = m - j  BY <1>2
  <2>2. /\ FirstOf(x) \in Int /\ FirstOf(x) + 28 * j <= FirstOf(x + j)
        /\ FirstOf(x + j) <= FirstOf(x) + 31 * j
    <3>1. j \in Nat  OBVIOUS
    <3> QED  BY <3>1, MonthsApart
  <2>3. x + j = m  BY <1>2, <2>1
  <2>4. FirstOf(x) + 28 * j <= FirstOf(m) /\ FirstOf(m) <= FirstOf(x) + 31 * j  BY <2>2, <2>3
  <2>5. p.from = FirstOf(x) /\ p.to = day  BY <1>3, <2>1 DEF Period
  <2> HIDE DEF p
  <2>6. FirstOf(x) <= day /\ 3288 <= FirstOf(x) /\ day - FirstOf(x) + 1 <= 1098
    BY <1>1, <1>2, <2>2, <2>4
  <2>7. FirstOf(x) \in 1 .. LastDay  BY <1>1, <2>2, <2>6
  <2>8. DateOf(p.from) = [m |-> x, d |-> 1]  BY <2>5, <2>7, FirstIsFirst
  <2>9. MonthsTouched(p) = j + 1
    <3>1. MonthsTouched(p) = m - x + 1  BY <2>5, <2>8 DEF MonthsTouched, m
    <3> QED  BY <1>2, <2>1, <3>1
  <2>10. Length(p) <= 1098  BY <2>5, <2>6 DEF Length
  <2>11. DateOf(p.from).d = 1 /\ MonthsTouched(p) <= u  BY <1>3, <2>8, <2>9
  <2> QED  BY <1>1, <2>2, <2>5, <2>6, <2>10, <2>11 DEF Shown, NoUnit
<1>4. ASSUME NEW x \in Int, NEW y \in Int, day - 30 <= x, x <= y, y <= day,
             p = Period(x, y), UnitOf(key) = NoUnit
      PROVE  Shown(p, NoUnit)
  <2>1. p.from = x /\ p.to = y  BY <1>4 DEF Period
  <2> HIDE DEF p
  <2> QED  BY <1>1, <1>4, <2>1 DEF Shown, Length
<1>5. CASE key = "today"
  <2>1. p = Period(day, day) /\ UnitOf(key) = NoUnit  BY <1>5 DEF PresetPeriod, UnitOf
  <2> QED  BY <1>1, <1>4, <2>1
<1>6. CASE key = "yesterday"
  <2>1. p = Period(day - 1, day - 1) /\ UnitOf(key) = NoUnit  BY <1>6 DEF PresetPeriod, UnitOf
  <2>2. day - 1 \in Int /\ day - 30 <= day - 1 /\ day - 1 <= day - 1 /\ day - 1 <= day  BY <1>1
  <2> QED  BY <1>4, <2>1, <2>2
<1>7. CASE key = "7d"
  <2>1. p = Period(day - 6, day) /\ UnitOf(key) = NoUnit  BY <1>7 DEF PresetPeriod, UnitOf
  <2>2. day - 6 \in Int /\ day - 30 <= day - 6 /\ day - 6 <= day /\ day <= day  BY <1>1
  <2> QED  BY <1>1, <1>4, <2>1, <2>2
<1>8. CASE key = "30d"
  <2>1. p = Period(day - 29, day) /\ UnitOf(key) = NoUnit  BY <1>8 DEF PresetPeriod, UnitOf
  <2>2. day - 29 \in Int /\ day - 30 <= day - 29 /\ day - 29 <= day /\ day <= day  BY <1>1
  <2> QED  BY <1>1, <1>4, <2>1, <2>2
<1>9. CASE key = "month"
  <2>1. p = Period(FirstOf(m), day) /\ UnitOf(key) = 1  BY <1>9 DEF PresetPeriod, UnitOf, m
  <2>2. m - 0 = m /\ 0 \in 0 .. 11 /\ 0 < 1  BY <1>2
  <2>3. p = Period(FirstOf(m - 0), day)  BY <2>1, <2>2
  <2>4. Shown(p, 1)  BY <1>3, <2>1, <2>2, <2>3
  <2> QED  BY <2>1, <2>4
<1>10. CASE key = "prev_month"
  <2>1. p = Period(FirstOf(m - 1), FirstOf(m) - 1) /\ UnitOf(key) = 1
    BY <1>10 DEF PresetPeriod, UnitOf, m
  <2>2. PICK x \in Int : x = m - 1  BY <1>2
  <2>3. x + 1 = m  BY <1>2, <2>2
  <2>4. FirstOf(x) \in Int /\ DaysIn(x) \in 28 .. 31 /\ FirstOf(m) = FirstOf(x) + DaysIn(x)
    BY <2>3, NextMonth
  <2>5. p.from = FirstOf(x) /\ p.to = FirstOf(m) - 1  BY <2>1, <2>2 DEF Period
  <2> HIDE DEF p
  <2>6. FirstOf(x) \in 1 .. LastDay /\ FirstOf(m) - 1 \in 1 .. LastDay  BY <1>1, <1>2, <2>4
  <2>7. DateOf(p.from) = [m |-> x, d |-> 1]  BY <2>5, <2>6, FirstIsFirst
  <2>8. DateOf(p.to).m = x
    <3>1. FirstOf(x) <= FirstOf(m) - 1 /\ FirstOf(m) - 1 < FirstOf(x + 1)  BY <1>2, <2>3, <2>4
    <3> QED  BY <2>5, <2>6, <3>1, MonthOfDay
  <2>9. MonthsTouched(p) = 1  BY <2>7, <2>8 DEF MonthsTouched
  <2>10. Shown(p, 1)
    <3>1. 3288 <= p.from /\ p.from <= p.to /\ p.to <= LastDay - 1 /\ Length(p) <= 1098
      BY <1>1, <1>2, <2>4, <2>5 DEF Length
    <3> QED  BY <1>2, <2>4, <2>5, <2>7, <2>9, <3>1 DEF Shown, NoUnit
  <2> QED  BY <2>1, <2>10 DEF p
<1>11. CASE key = "quarter"
  <2>1. p = Period(FirstOf(m - (m % 3)), day) /\ UnitOf(key) = 3
    BY <1>11 DEF PresetPeriod, UnitOf, m
  <2>2. m % 3 \in 0 .. 2  BY <1>2
  <2>3. PICK j \in 0 .. 11 : j = m % 3  BY <2>2
  <2>4. j < 3 /\ p = Period(FirstOf(m - j), day)  BY <2>1, <2>2, <2>3
  <2>5. Shown(p, 3)  BY <1>3, <2>1, <2>4
  <2> QED  BY <2>1, <2>5
<1>12. CASE key = "year"
  <2>1. p = Period(FirstOf(12 * YearOf(m)), day) /\ UnitOf(key) = 12
    BY <1>12 DEF PresetPeriod, UnitOf, m
  <2>2. m % 12 \in 0 .. 11 /\ m = 12 * (m \div 12) + (m % 12) /\ m \div 12 \in Int  BY <1>2
  <2>3. PICK j \in 0 .. 11 : j = m % 12  BY <2>2
  <2>4. 12 * YearOf(m) = m - j  BY <1>2, <2>2, <2>3 DEF YearOf
  <2>5. j < 12 /\ p = Period(FirstOf(m - j), day)  BY <2>1, <2>3, <2>4
  <2>6. Shown(p, 12)  BY <1>3, <2>1, <2>5
  <2> QED  BY <2>1, <2>6
<1> QED  BY <1>5, <1>6, <1>7, <1>8, <1>9, <1>10, <1>11, <1>12 DEF Presets

(* Typed dates are put in order and in bounds.                             *)
LEMMA TypedShown ==
  ASSUME NEW day \in Today, NEW a \in Typed, NEW b \in Typed
  PROVE  LET p == TypedPeriod(a, b, day) IN
         /\ Shown(p, NoUnit) /\ p.from >= MinDate /\ p.to <= Greater(day, MinDate)
         /\ Length(p) <= MaxDays
<1> DEFINE to == Lesser(Greater(Greater(a, b), MinDate), Greater(day, MinDate))
           from == Lesser(Greater(Lesser(a, b), MinDate), to)
           start == Greater(from, to - MaxDays + 1)
           p == TypedPeriod(a, b, day)
<1>1. /\ day \in Int /\ a \in Int /\ b \in Int /\ MinDate \in Int /\ LastDay \in Nat
      /\ day <= LastDay - 1 /\ 3660 <= MinDate /\ MinDate <= LastDay - 1
      /\ MaxDays \in Int /\ 63 <= MaxDays /\ MaxDays <= 1098
  BY DaysAre
<1>2. p.from = start /\ p.to = to  BY DEF TypedPeriod, Period
<1>3. to \in Int /\ MinDate <= to /\ to <= Greater(day, MinDate) /\ to <= LastDay - 1
  BY <1>1 DEF Greater, Lesser
<1> HIDE DEF to
<1>4. from \in Int /\ MinDate <= from /\ from <= to  BY <1>1, <1>3 DEF Greater, Lesser
<1> HIDE DEF from
<1>5. start \in Int /\ MinDate <= start /\ start <= to /\ to - start + 1 <= MaxDays
  BY <1>1, <1>3, <1>4 DEF Greater
<1> HIDE DEF start, p
<1>6. Length(p) <= MaxDays /\ Length(p) <= 1098  BY <1>1, <1>2, <1>3, <1>5 DEF Length
<1>7. Shown(p, NoUnit)  BY <1>1, <1>2, <1>3, <1>5, <1>6 DEF Shown
<1> QED  BY <1>2, <1>3, <1>5, <1>6, <1>7 DEF p

(* The periods of the reports: one day to begin with.                      *)
LEMMA PeriodStarts == PeriodInit => PeriodIInv
<1> SUFFICES ASSUME PeriodInit PROVE PeriodIInv  OBVIOUS
<1>1. today \in Today
  <2>1. Today # {} /\ Today \in SUBSET Nat  BY DaysAre
  <2>2. \E d \in Today : \A e \in Today : d <= e  BY <2>1, Least
  <2> QED  BY <2>2 DEF PeriodInit
<1>2. page.period.from = today /\ page.period.to = today /\ page.preset = "none" /\ page.unit = NoUnit
  BY DEF PeriodInit, Page, Period
<1>3. today \in Int /\ 3660 <= today /\ today <= LastDay - 1 /\ LastDay \in Nat  BY <1>1, DaysAre
<1>4. Shown(page.period, page.unit)
  BY <1>2, <1>3 DEF Shown, Length
<1>5. PeriodTypeOK  BY <1>1, <1>2, <1>3 DEF PeriodTypeOK
<1> QED  BY <1>4, <1>5 DEF PeriodIInv

LEMMA PeriodSteps == PeriodIInv /\ [PeriodNext]_periodVars => PeriodIInv'
<1> SUFFICES ASSUME PeriodIInv, [PeriodNext]_periodVars PROVE PeriodIInv'  OBVIOUS
<1>1. today \in Today /\ PeriodTypeOK /\ Shown(page.period, page.unit)
  BY DEF PeriodIInv, PeriodTypeOK
<1>2. ASSUME NEW key \in Presets, OpenPreset(key) PROVE PeriodIInv'
  <2> DEFINE p == PresetPeriod(key, today)
  <2>1. /\ page'.period = p /\ page'.preset = key /\ page'.unit = UnitOf(key) /\ today' = today
    BY <1>2 DEF OpenPreset, Page
  <2>2. Shown(p, UnitOf(key))  BY <1>1, PresetShown
  <2>3. key # "custom"  BY DEF Presets
  <2> HIDE DEF p
  <2>4. p.from <= p.to /\ UnitOf(key) \in {NoUnit, 1, 3, 12}  BY <2>2 DEF Shown
  <2>5. Shown(page.period, page.unit)'
    BY <2>1, <2>2 DEF Shown, Length, MonthsTouched
  <2>6. PeriodTypeOK'  BY <1>1, <1>2, <2>1, <2>3, <2>4 DEF PeriodTypeOK
  <2> QED  BY <2>5, <2>6 DEF PeriodIInv
<1>3. ASSUME NEW a \in Typed, NEW b \in Typed, OpenTyped(a, b) PROVE PeriodIInv'
  <2> DEFINE p == TypedPeriod(a, b, today)
  <2>1. /\ page'.period = p /\ page'.preset = "custom" /\ page'.unit = NoUnit
        /\ page'.asked = today /\ today' = today
    BY <1>3 DEF OpenTyped, Page
  <2>2. /\ Shown(p, NoUnit) /\ p.from >= MinDate /\ p.to <= Greater(today, MinDate)
        /\ Length(p) <= MaxDays
    BY <1>1, TypedShown
  <2> HIDE DEF p
  <2>3. p.from <= p.to  BY <2>2 DEF Shown
  <2>4. Shown(page.period, page.unit)'
    BY <2>1, <2>2 DEF Shown, Length, MonthsTouched
  <2>5. PeriodTypeOK'  BY <1>1, <2>1, <2>2, <2>3 DEF PeriodTypeOK, Length
  <2> QED  BY <2>4, <2>5 DEF PeriodIInv
<1>4. CASE DaysPass
  <2>1. today' \in Today /\ page' = page  BY <1>4 DEF DaysPass
  <2> QED  BY <1>1, <2>1 DEF PeriodIInv, PeriodTypeOK, Shown, Length, MonthsTouched
<1>5. CASE UNCHANGED periodVars
  BY <1>1, <1>5 DEF periodVars, PeriodIInv, PeriodTypeOK, Shown, Length, MonthsTouched
<1> QED  BY <1>2, <1>3, <1>4, <1>5 DEF PeriodNext

(* Whatever period a page shows, preset or typed: it is compared with one  *)
(* that was over before, whole months with whole months, and its chart has *)
(* every day once, in 40 intervals at most.                                *)
THEOREM PeriodInvariant == PeriodSpec => []PeriodInv
<1>1. PeriodSpec => []PeriodIInv
  BY PeriodStarts, PeriodSteps, PTL DEF PeriodSpec
<1>2. PeriodIInv => PeriodInv
  BY ComparedBefore, WholeStayWhole, ChartCovers DEF PeriodIInv, PeriodInv
<1> QED  BY <1>1, <1>2, PTL
==================
