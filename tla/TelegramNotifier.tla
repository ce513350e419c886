---------------------------- MODULE TelegramNotifier ----------------------------
(***************************************************************************)
(* TelegramNotifier of the center: the events of monitoring, written by    *)
(* the detectors and by others, go to the chat one by one, in their order, *)
(* each marked after Telegram has taken it; a window forgets old ones.     *)
(***************************************************************************)
EXTENDS Naturals, FiniteSets, Sequences, FiniteSetsExt

CONSTANTS
  ChatBatch,      \* batch_limit
  MaxAlerts,      \* bound: events
  MaxChatCrashes  \* bound: restarts of the center

ASSUME ChatBounds == ChatBatch \in Nat \ {0} /\ {MaxAlerts, MaxChatCrashes} \subseteq Nat

VARIABLES
  alert,      \* monitoring_events: whether notified, whether out of the window
  pass,       \* deliver_once: what is left of its portion, whether the oldest of it is sent
  chat,       \* numbers of the events Telegram took
  chatCrashes

chatVars == <<alert, pass, chat, chatCrashes>>

NoPass  == [left |-> {}, sent |-> FALSE]
AlertNo == 1 .. Len(alert)

ChatInit == alert = <<>> /\ pass = NoPass /\ chat = <<>> /\ chatCrashes = 0

AlertWritten ==
  /\ Len(alert) < MaxAlerts
  /\ alert' = Append(alert, [notified |-> FALSE, late |-> FALSE])
  /\ UNCHANGED <<pass, chat, chatCrashes>>

Untold(e) == ~e.notified /\ ~e.late

(* deliver_once: the oldest of what is not told and still in the window.    *)
UntoldAlerts == {i \in AlertNo : Untold(alert[i])}
OldestUntold ==
  {i \in UntoldAlerts : Cardinality({j \in UntoldAlerts : j < i}) < ChatBatch}

PassBegins ==
  /\ pass = NoPass
  /\ OldestUntold # {}
  /\ pass' = [NoPass EXCEPT !.left = OldestUntold]
  /\ UNCHANGED <<alert, chat, chatCrashes>>

Told == Min(pass.left)

(* What Telegram does not take ends the pass; the next begins with it.     *)
AfterRefusal == NoPass

SendAlert ==
  /\ pass.left # {} /\ ~pass.sent
  /\ \/ /\ chat' = Append(chat, Told)
        /\ pass' = [pass EXCEPT !.sent = TRUE]
     \/ pass' = AfterRefusal /\ UNCHANGED chat
  /\ UNCHANGED <<alert, chatCrashes>>

(* notified_at, message by message *)
MarkNotified ==
  /\ pass.sent
  /\ alert' = [alert EXCEPT ![Told].notified = TRUE]
  /\ pass' = [left |-> pass.left \ {Told}, sent |-> FALSE]
  /\ UNCHANGED <<chat, chatCrashes>>

(* Six hours pass for the oldest events; a portion in hand is sent still.  *)
WindowPasses ==
  /\ \E i \in AlertNo :
       /\ Untold(alert[i])
       /\ alert' = [j \in AlertNo |->
                      IF j <= i THEN [alert[j] EXCEPT !.late = TRUE] ELSE alert[j]]
  /\ UNCHANGED <<pass, chat, chatCrashes>>

(* The center restarts, or the commit of the mark fails: the pass is over. *)
NotifierRestarts ==
  /\ chatCrashes < MaxChatCrashes
  /\ chatCrashes' = chatCrashes + 1
  /\ pass' = NoPass
  /\ UNCHANGED <<alert, chat>>

ChatNext ==
  AlertWritten \/ PassBegins \/ SendAlert \/ MarkNotified \/ WindowPasses \/ NotifierRestarts

ChatSpec == ChatInit /\ [][ChatNext]_chatVars

-----------------------------------------------------------------------------
(* The portion in hand and the chat name events of the table. *)
ChatTypeOK ==
  /\ alert \in Seq([notified : BOOLEAN, late : BOOLEAN])
  /\ pass \in [left : SUBSET AlertNo, sent : BOOLEAN] /\ chat \in Seq(AlertNo)
  /\ pass.sent => pass.left # {}

(* The chat tells the events in their order: a message refused, a crash or *)
(* a window that passed never lets a later event go before an earlier one  *)
(* that is still to be told; only a restart repeats one.                   *)
ChatInOrder ==
  /\ \A i, j \in 1 .. Len(chat) : i < j => chat[i] <= chat[j]
  /\ \A i \in AlertNo :
       Untold(alert[i]) => \A j \in 1 .. Len(chat) : chat[j] <= i
  /\ Len(chat) <= Len(alert) + chatCrashes

(* An event marked as told was told. *)
MarkedWasTold ==
  \A i \in AlertNo : alert[i].notified => \E j \in 1 .. Len(chat) : chat[j] = i

(* The chat of the alerts: in order, and marked only when told.            *)
ChatInv == ChatTypeOK /\ ChatInOrder /\ MarkedWasTold
===============================================================================
