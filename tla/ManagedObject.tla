---------------------------- MODULE ManagedObject ----------------------------
(***************************************************************************)
(* A Kubernetes object under a controller: the copy in the API server, the *)
(* copy in the informer cache of the manager that runs the controller, and *)
(* the watch between the two.  Both controllers of the provider are built  *)
(* on it.  The API server, the watch and the patch helper are external;    *)
(* this is what the controllers rely on.                                   *)
(*                                                                         *)
(* Mishaps are the events after which a controller may have lost track of  *)
(* a cloud resource.  An instance says which kinds it allows and how many. *)
(***************************************************************************)
EXTENDS Integers, Sequences

CONSTANTS
  Mishaps,        \* the kinds of mishap that may happen in this instance
  MaxMishaps      \* bound: number of mishaps counted by the model

MishapKinds == {"crash", "lostReply", "patchError", "staleRead",
                "unprotectedDelete", "external"}

ASSUME MishapAssumption == Mishaps \subseteq MishapKinds /\ MaxMishaps \in Nat

VARIABLES
  store,      \* the object in the API server
  cache,      \* the object in the informer cache of the manager
  watch,      \* versions the API server has written and the cache has not seen
  protected,  \* history: the finalizer has been persisted
  mishaps     \* number of mishaps of each kind so far

api == <<store, cache, watch, protected>>

Phases == {"live", "deleting", "gone"}

\* Every copy of the object starts as the given one.
InitObject(obj) ==
  /\ store = obj
  /\ cache = obj
  /\ watch = <<>>
  /\ protected = FALSE
  /\ mishaps = [k \in MishapKinds |-> 0]

MishapCounts == [MishapKinds -> 0..MaxMishaps]

MishapTotal ==
  mishaps["crash"] + mishaps["lostReply"] + mishaps["patchError"]
    + mishaps["staleRead"] + mishaps["unprotectedDelete"] + mishaps["external"]

Happened(kind) == mishaps[kind] > 0

\* A mishap of a kind that this instance allows.
Mishap(kind) ==
  /\ kind \in Mishaps
  /\ MishapTotal < MaxMishaps
  /\ mishaps' = [mishaps EXCEPT ![kind] = @ + 1]

NoMishap == UNCHANGED mishaps

\* An object that is being deleted goes with its last finalizer.
Finalized(obj) ==
  IF obj.phase = "deleting" /\ ~obj.finalizer
  THEN [obj EXCEPT !.phase = "gone"]
  ELSE obj

\* The object is stored and its watchers will be told, unless nothing changed.
Write(obj) ==
  /\ store' = obj
  /\ watch' = IF obj = store THEN watch ELSE Append(watch, obj)
  /\ protected' = (protected \/ obj.finalizer)
  /\ UNCHANGED cache

\* A merge patch carries a field only if the reconciliation changed it.
Merged(stored, before, after) == IF after = before THEN stored ELSE after

\* The watch delivers the oldest version that the cache has not seen.
Deliver ==
  /\ watch # <<>>
  /\ cache' = Head(watch)
  /\ watch' = Tail(watch)
  /\ UNCHANGED <<store, protected, mishaps>>

\* The manager dies and starts again with a cache listed from the API server.
Restart ==
  /\ Mishap("crash")
  /\ cache' = store
  /\ watch' = <<>>
  /\ UNCHANGED <<store, protected>>

\* The object is deleted by a user or by its owner.  Without a persisted
\* finalizer nothing holds it back, which is a mishap when a reconciliation
\* of it is under way.
Delete(underway) ==
  /\ store.phase = "live"
  /\ Write(Finalized([store EXCEPT !.phase = "deleting"]))
  /\ IF store.finalizer \/ ~underway THEN NoMishap
                                     ELSE Mishap("unprotectedDelete")

\* A reconciliation that starts from an object that the API server has
\* overwritten since is a mishap.
ReadCache ==
  /\ IF watch = <<>> THEN NoMishap ELSE Mishap("staleRead")
  /\ UNCHANGED api

\* A request to the API server fails.
RequestFails == Mishap("patchError") /\ UNCHANGED api
=============================================================================
