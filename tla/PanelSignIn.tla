------------------------------ MODULE PanelSignIn ------------------------------
(***************************************************************************)
(* Who gets into the panel: the accounts and the sessions, and the pause   *)
(* of a login after failed sign-ins, which stands before the form. The     *)
(* throttle keeps its tables by login, whether an account of that name     *)
(* exists or not, so that the two parts share no state.                    *)
(***************************************************************************)
EXTENDS PanelAccess, LoginThrottle

SignInSpec == AccessSpec /\ ThrottleSpec

(* Who gets into the panel: accounts, sessions and the pause after wrong   *)
(* passwords.                                                              *)
SignInInv == AccessInv /\ ThrottleInv
===============================================================================
