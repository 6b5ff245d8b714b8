------------------------------ MODULE MCURLLoader ------------------------------
(***************************************************************************)
(* What is checked of URLLoader, and values for TLC: two views, which      *)
(* share a worker that may be replaced once, and two loads of any kind.    *)
(***************************************************************************)
EXTENDS URLLoader

MCViews     == {"v1", "v2"}
MCInstances == {"w1", "w2"}
MCLoads     == {"l1", "l2"}
MCKinds(l)  == IF l = "l1" THEN {"page", "worker"} ELSE {"script", "nav"}

(* What mbWaitForNetworkIdle reads as quiet is quiet: the counter of a key *)
(* is the number of the loads that were started with it and are not over,  *)
(* however clients of a worker came and went in the meantime.              *)
InFlightIsExact ==
  \A k \in Contexts :
    in_flight[k] = Cardinality({l \in Loads : Running(l) /\ k \in load[l].keys})

(* A new SharedWorker() finds the one instance that serves, never one that *)
(* is on its way out and would take its connection with it.                *)
RegistryServes ==
  /\ {i \in Instances : inst[i].state = "live"} = {registry} \ {NoContext}
  /\ registry # NoContext => Clients(registry) # {}

(* An event stream is reported finished when its page was given every byte *)
(* of it.                                                                  *)
StreamsAreWhole ==
  \A l \in Loads :
    load[l].ended /\ load[l].heard = "finished" =>
      load[l].posted = 0 /\ load[l].buffer = 0

LoadsAreSafe == InFlightIsExact /\ RegistryServes /\ StreamsAreWhole

(* A load that was deleted, be it by its client or by the host in one of   *)
(* their callbacks, does nothing more; one that told its client how it     *)
(* ended tells it nothing else.  A load that the host deletes in a callback *)
(* of its first hop is over only when its handler, which goes on, returns. *)
OverIsOver ==
  [][\A l \in Loads :
       /\ load[l].pc = "deleted" => load'[l].pc = "deleted" /\ UNCHANGED load[l].heard
       /\ load[l].heard \in {"failed", "finished"} => UNCHANGED load[l].heard]_loadingVars

(* No worker waits for ever for the engine thread, and no view waits for   *)
(* ever for a worker: not while a view closes, and not after mbShutdown.   *)
NobodyIsStranded ==
  []<>(/\ \A l \in Loads : ~Waiting(l)
       /\ \A v \in LoaderViews : view[v] # "closing")
=============================================================================
