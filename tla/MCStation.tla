------------------------------ MODULE MCStation ------------------------------
(***************************************************************************)
(* The parts of a weighing PC that share no state with one another:        *)
(* photos, the manual mode, the cameras, the automaton of one weighing     *)
(* and, from a replica in step with the center, its copy of the registry   *)
(* of tares. A behaviour is one of theirs; the others stay where they      *)
(* begin.                                                                  *)
(***************************************************************************)
EXTENDS PhotoDelivery, ManualFlow, CameraPreview, WeighingCycle, TareReplication

CONSTANTS
  Parts,  \* the parts a run looks at
  a1, p1, p2, b1

VARIABLE part

stationVars == <<part, vars, photoVars, manualVars, cameraVars, cycleVars>>

(* A camera whose way of reading the center changes. *)
SomeKinds == {<<"stream", "snap">>}

StationInit ==
  /\ part \in Parts
  /\ PhotoInit /\ ManualInit /\ CameraInit /\ CycleInit /\ WarmInit
  /\ part # "cameras" => cameraKind = <<"stream", "snap">>

Photos  == part = "photos"  /\ PhotoNext  /\ UNCHANGED <<part, vars, manualVars, cameraVars, cycleVars>>
Manual  == part = "manual"  /\ ManualNext /\ UNCHANGED <<part, vars, photoVars, cameraVars, cycleVars>>
Cameras == part = "cameras" /\ CameraNext /\ UNCHANGED <<part, vars, photoVars, manualVars, cycleVars>>
Cycle   == part = "cycle"   /\ CycleNext  /\ UNCHANGED <<part, vars, photoVars, manualVars, cameraVars>>

Replica ==
  part = "replica" /\ Next /\ UNCHANGED <<part, photoVars, manualVars, cameraVars, cycleVars>>

StationNext == Photos \/ Manual \/ Cameras \/ Cycle \/ Replica

(* The fairness of PhotoSpec and CameraSpec, each in its own behaviours. *)
StationFairness ==
  /\ WF_photoVars(part = "photos" /\ Uploader)
  /\ WF_photoVars(part = "photos" /\ PhotoTime)
  /\ \A p \in Photo : WF_photoVars(part = "photos" /\ SendPhoto(p))
  /\ \A n \in 1 .. MaxCameraSets : WF_cameraVars(part = "cameras" /\ Reading(n))

(* The fairness of WarmSpec, in the behaviours of the replica. *)
Replicating(action) == part = "replica" /\ action
ReplicaFairness ==
  /\ \A b \in Publisher : WF_vars(Replicating(PublishStep(b)))
  /\ \A a \in Agent :
       /\ WF_vars(Replicating(Connect(a))) /\ WF_vars(Replicating(Heartbeat(a)))
       /\ WF_vars(Replicating(Receive(a)))
       /\ WF_vars(Replicating(sess[a] # 0 /\ hdl[a][sess[a]].pc = "off" /\ AgentDrop(a)))
       /\ \A k \in Conn : WF_vars(Replicating(HandlerStep(a, k)))

StationSpec == StationInit /\ [][StationNext]_stationVars /\ StationFairness /\ ReplicaFairness
==============================================================================
