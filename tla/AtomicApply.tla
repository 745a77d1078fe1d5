---------------------------- MODULE AtomicApply ----------------------------
(***************************************************************************)
(* What `kubecfg update` promises about the objects of the cluster: each   *)
(* of its writes is atomic.  An object is created where none was, merged   *)
(* with what the cluster holds at that very moment, or marked for          *)
(* deletion; there is no window in which the work of others is lost.       *)
(***************************************************************************)
EXTENDS Cluster

CONSTANT Desired   \* the manifests some run may apply

CreateObject(o, m) ==
  /\ store[o] = Absent
  /\ Write(o, Created(m, clock + 1))

MergeObject(o, m) ==
  /\ store[o] # Absent
  /\ Patched(store[o], m) # store[o]
  /\ Write(o, Stamped(Patched(store[o], m)))

RetireObject(o) ==
  /\ store[o] # Absent
  /\ ~store[o].terminating
  /\ Write(o, Stamped([store[o] EXCEPT !.terminating = TRUE]))

AtomicStep ==
  \E o \in Objects :
    \/ \E m \in Desired : CreateObject(o, m) \/ MergeObject(o, m)
    \/ RetireObject(o)

AtomicNext ==
  \/ AtomicStep /\ UNCHANGED envSteps
  \/ Others

AtomicSpec == ClusterInit /\ [][AtomicNext]_clusterVars
============================================================================
