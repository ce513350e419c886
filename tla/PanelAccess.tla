------------------------------ MODULE PanelAccess ------------------------------
(***************************************************************************)
(* The accounts of the panel and its sessions.  A request passes the gate   *)
(* (current_admin), reads what it is about to change, changes it in the     *)
(* same transaction, and, for a password, signs its own session anew; the   *)
(* requests of several browsers run in threads of their own.                *)
(***************************************************************************)
EXTENDS Naturals, FiniteSets

CONSTANTS
  User,          \* administrators, to begin with
  Browser,
  MaxPasswords,  \* bound: changes of a password
  MaxVisits      \* bound: requests

ASSUME AccessBounds == {MaxPasswords, MaxVisits} \subseteq Nat
ASSUME UsersAssumption == IsFiniteSet(User) /\ User # {}
ASSUME NameAssumption == "none" \notin User   \* the login of no session

VARIABLES
  account,   \* users: whether active, whether an administrator, the password
  session,   \* cookies: the login, the stamp; history: the password it was opened with
  visit,     \* the request of a browser
  access     \* history and bounds

accessVars == <<account, session, visit, access>>

NoSession == [login |-> "none", stamp |-> 0, opened |-> 0]
NoVisit   == [at |-> "none", what |-> "none", target |-> "none", admitted |-> 0, saw |-> 0]
Deed      == {"toggle", "demote", "password"}

AccessInit ==
  /\ account = [u \in User |-> [active |-> TRUE, admin |-> TRUE, pw |-> 1]]
  /\ session = [b \in Browser |-> NoSession]
  /\ visit = [b \in Browser |-> NoVisit]
  /\ access = [passwords |-> 0, visits |-> 0, overlap |-> FALSE, resigned |-> FALSE]

(* login_submit: the stamp is of the row the password was verified with.   *)
SignIn(b, u) ==
  /\ session[b] = NoSession /\ visit[b] = NoVisit
  /\ account[u].active
  /\ session' = [session EXCEPT ![b] =
       [login |-> u, stamp |-> account[u].pw, opened |-> account[u].pw]]
  /\ UNCHANGED <<account, visit, access>>

SignOut(b) ==
  /\ session[b] # NoSession /\ visit[b] = NoVisit
  /\ session' = [session EXCEPT ![b] = NoSession]
  /\ UNCHANGED <<account, visit, access>>

(* _session_state: the account is active and its password has not changed. *)
Lives(s) == s # NoSession /\ account[s.login].active /\ s.stamp = account[s.login].pw

Admitted(b, what, target) ==
  IF account[session[b].login].admin
  THEN [visit EXCEPT ![b] = [NoVisit EXCEPT !.at = "admitted", !.what = what,
                               !.target = target, !.admitted = session[b].opened]]
  ELSE visit

Dropped(b) ==
  session' = [session EXCEPT ![b] = NoSession] /\ UNCHANGED visit

(* current_admin: a session that does not live is dropped; a user who is   *)
(* not an administrator now gets 403.                                      *)
Gate(b, what, target) ==
  /\ session[b] # NoSession /\ visit[b] = NoVisit
  /\ access.visits < MaxVisits
  /\ access' = [access EXCEPT !.visits = @ + 1]
  /\ IF Lives(session[b])
     THEN visit' = Admitted(b, what, target) /\ UNCHANGED session
     ELSE Dropped(b)
  /\ UNCHANGED account

(* Mutant: administrators count, active or not. *)
AdminsBesides(u) == {a \in User \ {u} : account[a].admin}

ActiveAdminsBesides(u) == {a \in User \ {u} : account[a].active /\ account[a].admin}

(* toggle_active, update_user, set_password up to the commit: what is read. *)
Refused(b, u) ==
  LET me == session[b].login
      what == visit[b].what
  IN \/ what = "toggle" /\ account[u].active
          /\ (u = me \/ (account[u].admin /\ ActiveAdminsBesides(u) = {}))
     \/ what = "demote" /\ account[u].admin /\ account[u].active /\ ActiveAdminsBesides(u) = {}
     \/ what = "password" /\ access.passwords >= MaxPasswords

CheckDeed(b) ==
  /\ visit[b].at = "admitted"
  /\ visit' = [visit EXCEPT ![b] =
       IF Refused(b, visit[b].target) THEN NoVisit
       ELSE [@ EXCEPT !.at = "checked", !.saw = IF account[visit[b].target].active THEN 1 ELSE 0]]
  /\ UNCHANGED <<account, session, access>>

(* The commit; what another transaction changed since the check is not     *)
(* looked at.                                                              *)
Others(b) == {c \in Browser \ {b} : visit[c].at = "checked"}

CommitDeed(b) ==
  /\ visit[b].at = "checked"
  /\ LET u == visit[b].target IN
     CASE visit[b].what = "toggle" ->
            /\ account' = [account EXCEPT ![u].active = visit[b].saw = 0]
            /\ visit' = [visit EXCEPT ![b] = NoVisit]
            /\ access' = [access EXCEPT !.overlap = @ \/ Others(b) # {}]
       [] visit[b].what = "demote" ->
            /\ account' = [account EXCEPT ![u].admin = FALSE]
            /\ visit' = [visit EXCEPT ![b] = NoVisit]
            /\ access' = [access EXCEPT !.overlap = @ \/ Others(b) # {}]
       [] visit[b].what = "password" ->
            /\ account' = [account EXCEPT ![u].pw = @ + 1]
            /\ visit' = [visit EXCEPT ![b].at = "resign"]
            /\ access' = [access EXCEPT !.passwords = @ + 1]
  /\ UNCHANGED session

(* users_password, last: the session of the one who asked gets the stamp   *)
(* of his account as it is now, whosever password was changed.             *)
Resign(b) ==
  /\ visit[b].at = "resign"
  /\ LET me == session[b].login IN
     /\ session' = IF account[me].active
                   THEN [session EXCEPT ![b].stamp = account[me].pw,
                           ![b].opened = IF visit[b].target = me THEN account[me].pw ELSE @]
                   ELSE session
     /\ access' = [access EXCEPT !.resigned =
          @ \/ (account[me].pw # session[b].stamp /\ visit[b].target # me)]
  /\ visit' = [visit EXCEPT ![b] = NoVisit]
  /\ UNCHANGED account

AccessNext ==
  \E b \in Browser :
    \/ \E u \in User : SignIn(b, u)
    \/ \E what \in Deed, u \in User : Gate(b, what, u)
    \/ SignOut(b) \/ CheckDeed(b) \/ CommitDeed(b) \/ Resign(b)

AccessSpec == AccessInit /\ [][AccessNext]_accessVars

-----------------------------------------------------------------------------
(* The rows of users, the cookies and the requests under way. *)
AccessTypeOK ==
  /\ account \in [User -> [active : BOOLEAN, admin : BOOLEAN, pw : Nat \ {0}]]
  /\ \A b \in Browser : visit[b] # NoVisit => session[b].login \in User
  /\ \A b \in Browser : session[b].login \in User => session[b].stamp <= account[session[b].login].pw

(* Some active administrator is always left, as long as no two requests    *)
(* are between their check and their commit at once.                       *)
SomeAdminUnlessOverlap ==
  access.overlap \/ \E u \in User : account[u].active /\ account[u].admin

(* A session that passes the gate was opened with the password of now, or  *)
(* by the one who set it: a change of the password shuts every other       *)
(* session of the account.  The exception is a browser whose own change of *)
(* another password was under way when its password was changed.           *)
OldPasswordIsOut ==
  \A b \in Browser :
    Lives(session[b]) => session[b].opened = account[session[b].login].pw \/ access.resigned

(* The accounts of the panel: an administrator remains and an old password *)
(* opens nothing.                                                          *)
AccessInv == AccessTypeOK /\ SomeAdminUnlessOverlap /\ OldPasswordIsOut
===============================================================================
