-------------------------------- MODULE MCHost --------------------------------
(***************************************************************************)
(* Instances of HostCalls, Painting and URLLoader for TLC: the calls by    *)
(* which a host runs page code, the pictures it gets, and the loads of its *)
(* views.  They keep different state and are explored side by side:        *)
(* `which' says whose behaviours these are.  HostCalls is there twice: all *)
(* calls, and a few that nest deeper.                                      *)
(***************************************************************************)
EXTENDS HostCalls, Painting, MCURLLoader

CONSTANT MoreCalls

VARIABLE which

NestedCall == INSTANCE HostCalls WITH Calls <- {"run", "eval", "key", "load"},
                                      MaxCalls <- MoreCalls

SumInit ==
  /\ which \in {"calls", "nested", "pictures", "loads"}
  /\ Init /\ PaintingInit /\ LoadingInit
  /\ which # "pictures" => ~composited /\ page[1] = 0

SumNext ==
  /\ UNCHANGED which
  /\ \/ which = "calls" /\ Next /\ UNCHANGED <<paintingVars, loadingVars>>
     \/ which = "nested" /\ NestedCall!Next /\ UNCHANGED <<paintingVars, loadingVars>>
     \/ which = "pictures" /\ PaintingNext /\ UNCHANGED <<vars, loadingVars>>
     \/ which = "loads" /\ LoadingNext /\ UNCHANGED <<vars, paintingVars>>

SumSpec ==
  /\ SumInit /\ [][SumNext]_<<vars, paintingVars, loadingVars, which>>
  /\ WF_loadingVars(which = "loads" /\ \E l \in Loads : Work(l))
  /\ WF_loadingVars(which = "loads" /\ \E v \in LoaderViews : Close(v))
=============================================================================
