---------------------------- MODULE InfraContract ----------------------------
(***************************************************************************)
(* What an infrastructure object (a DOMachine, a DOCluster) promises to    *)
(* those who only look at it in the API server: Cluster API core and       *)
(* users.  The object names at most one resource of the cloud (a droplet,  *)
(* a load balancer) and answers for it until it leaves.                    *)
(*                                                                         *)
(* The promise has one exception, and the object says when it applies: the *)
(* controller may be led astray (by an old copy of the object, say), and   *)
(* then it may lose sight of the resource.  That becomes no excuse for     *)
(* naming nothing, or for taking readiness or failure back.                *)
(***************************************************************************)
CONSTANT NoID     \* the object names no resource

VARIABLES
  phase,     \* "live", "deleting" or "gone"
  id,        \* the resource the object names
  running,   \* the resource it names runs
  ready,     \* Status.Ready
  failed,    \* Status.FailureReason or FailureMessage is set
  astray     \* the controller may have been led astray

vars == <<phase, id, running, ready, failed, astray>>

Init ==
  /\ phase = "live" /\ id = NoID /\ ~running
  /\ ~ready /\ ~failed /\ ~astray

\* The controller records what it did.  The object never names another
\* resource while the one it names runs, and never none again; what is ready
\* has a resource, and neither readiness nor failure is taken back.
Record ==
  /\ phase # "gone"
  /\ id' # id => id' # NoID /\ (~running \/ astray)
  /\ id' = id => running' = running
  /\ (ready => ready') /\ (failed => failed')
  /\ ready' => id' # NoID
  /\ running' \in BOOLEAN /\ ready' \in BOOLEAN /\ failed' \in BOOLEAN
  /\ UNCHANGED <<phase, astray>>

\* The resource stops: it failed or somebody deleted it.
Stop ==
  /\ running' = FALSE
  /\ UNCHANGED <<phase, id, ready, failed, astray>>

\* Somebody deletes the object.  If it names a resource it has to stay.
Delete ==
  /\ phase = "live"
  /\ phase' = "deleting" \/ (phase' = "gone" /\ (id = NoID \/ astray))
  /\ UNCHANGED <<id, running, ready, failed, astray>>

\* The object leaves when its resource does not run any more.
Leave ==
  /\ phase = "deleting"
  /\ phase' = "gone"
  /\ ~running \/ astray
  /\ UNCHANGED <<id, running, ready, failed, astray>>

GoAstray ==
  /\ astray' = TRUE
  /\ UNCHANGED <<phase, id, running, ready, failed>>

Next == Record \/ Stop \/ Delete \/ Leave \/ GoAstray

Spec == Init /\ [][Next]_vars
=============================================================================
