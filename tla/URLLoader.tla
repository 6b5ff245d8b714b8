------------------------------- MODULE URLLoader -------------------------------
(***************************************************************************)
(* The loads of some views and of their workers: MbURLLoader, the          *)
(* MbLoaderViewContext by which a load belongs to a view, the counters of  *)
(* the network activity of a view (loader/mb_url_loader.cc), the shared    *)
(* worker of the views (worker/mb_shared_worker.cc) and the script of a    *)
(* nested worker (worker/mb_worker_script.cc).                             *)
(*                                                                         *)
(* A load runs on the sequence that made it: the engine thread, or the     *)
(* thread of a worker, which blocks while the engine thread runs the host's *)
(* callbacks for it.  The hops of a transfer are those of module Fetch;    *)
(* here a transfer has an answer, fails, or is redirected.                 *)
(***************************************************************************)
EXTENDS Integers, FiniteSets

CONSTANTS
  LoaderViews, \* the views the host will open, all of one session
  Instances,   \* instances of the shared worker, one after the other
  Loads,
  Kinds(_),    \* what a load may be: "page", "worker", "script" or "nav"
  NoContext,
  MaxHops, MaxClients, MaxBytes

ASSUME LoadsAssumption ==
  /\ LoaderViews \cap Instances = {} /\ NoContext \notin LoaderViews \cup Instances
  /\ IsFiniteSet(Loads) /\ MaxHops \in Nat /\ MaxClients \in Nat /\ MaxBytes \in Nat

Contexts == LoaderViews \cup Instances  \* and the keys of their activity
Pipe == 1                               \* what the body pipe of a stream holds

VARIABLES
  view,       \* "new", "open", "closing" (its destructor runs) or "gone"
  shutdown,   \* MbRuntime::ShutdownStarted()
  registry,   \* SwRegistry(): the instance a new SharedWorker() attaches to
  inst,       \* MbSharedWorkerInstance
  load,
  in_flight   \* ViewNetMap(): loads outstanding for a key

loadingVars == <<view, shutdown, registry, inst, load, in_flight>>

NewInstance == [state |-> "none", clients |-> [v \in LoaderViews |-> 0]]
NewLoad == [pc |-> "none", kind |-> "page", context |-> NoContext, keys |-> {},
            hop |-> 0, call |-> "none", heard |-> "nothing",
            posted |-> 0, buffer |-> 0, written |-> 0, read |-> 0,
            ended |-> FALSE, broken |-> FALSE]

LoadingInit ==
  /\ view = [v \in LoaderViews |-> "new"]
  /\ shutdown = FALSE
  /\ registry = NoContext
  /\ inst = [i \in Instances |-> NewInstance]
  /\ load = [l \in Loads |-> NewLoad]
  /\ in_flight = [k \in Contexts |-> 0]

------------------------------------------------------------------------------
(* MbLoaderViewContext.                                                    *)
Alive(v) == view[v] = "open"

(* The views a shared worker works for.  Connect adds the first in the     *)
(* task that makes the instance, so its owner_context_ stands in for them  *)
(* in no state between two tasks.                                          *)
Clients(i) == {v \in LoaderViews : inst[i].clients[v] > 0}

IsAlive(c) ==
  IF c \in LoaderViews THEN Alive(c) ELSE \E v \in Clients(c) : Alive(v)

ActivityContexts(c) ==
  IF c \in LoaderViews THEN {c} ELSE IF Clients(c) = {} THEN {c} ELSE Clients(c)

(* The engine thread serves tasks unless it waits for the threads of a     *)
(* view that closes, is in a handler still, or the host has begun to shut  *)
(* down.                                                                   *)
EngineRuns ==
  /\ ~shutdown
  /\ \A v \in LoaderViews : view[v] # "closing"
  /\ \A l \in Loads : load[l].pc # "orphaned"

OnWorker(l)  == load[l].kind \in {"worker", "script"}
Waiting(l)   == load[l].pc \in {"asking", "hooking"}
(* The sequence of a load runs its next task.                              *)
Scheduled(l) == OnWorker(l) \/ EngineRuns

MbNetRequestStarted(keys) ==
  in_flight' = [k \in Contexts |-> in_flight[k] + IF k \in keys THEN 1 ELSE 0]

MbNetRequestFinished(keys) ==
  in_flight' = [k \in Contexts |->
                  IF k \in keys /\ in_flight[k] > 0 THEN in_flight[k] - 1
                                                    ELSE in_flight[k]]

------------------------------------------------------------------------------
(* A load.                                                                 *)
Set(l, pc, heard) ==
  load' = [load EXCEPT ![l].pc = pc, ![l].heard = heard, ![l].call = "none"]
DidFail(l) == Set(l, "told", "failed")

(* Of a load that is deleted only what it told its client is remembered.   *)
Deleted(l) == [NewLoad EXCEPT !.pc = "deleted", !.heard = load[l].heard]

(* The dtor gives back the keys the load was counted with.                 *)
(* Mutant: it looks the contexts up again.                                 *)
DestroyAsOfNow(l) ==
  /\ load' = [load EXCEPT ![l] = Deleted(l)]
  /\ MbNetRequestFinished(ActivityContexts(load[l].context))

Destroy(l) ==
  /\ load' = [load EXCEPT ![l] = Deleted(l)]
  /\ MbNetRequestFinished(load[l].keys)

LoadAsynchronously(l, c, kind) ==
  /\ load[l].pc = "none" /\ kind \in Kinds(l)
  /\ \/ kind = "page" /\ c \in LoaderViews /\ Alive(c) /\ EngineRuns
     \/ kind = "worker" /\ c \in LoaderViews /\ Alive(c)
     \/ kind = "worker" /\ c \in Instances /\ inst[c].state = "live"
  /\ load' = [load EXCEPT ![l] = [NewLoad EXCEPT
                !.pc = "queued", !.kind = kind, !.context = c,
                !.keys = ActivityContexts(c)]]
  /\ MbNetRequestStarted(ActivityContexts(c))
  /\ UNCHANGED <<view, shutdown, registry, inst>>

(* DidReceiveResponse: the client may cancel in it, which deletes the load. *)
DidReceiveResponse(l, next) ==
  \/ Destroy(l)
  \/ Set(l, next, "response") /\ UNCHANGED in_flight

(* DeliverResponse: the response hook, at once or by way of the engine     *)
(* thread; a host may stop the load in it.                                 *)
DeliverResponse(l) ==
  \/ ~OnWorker(l) /\ (Destroy(l) \/ DidReceiveResponse(l, "writing"))
  \/ /\ OnWorker(l)
     /\ load' = [load EXCEPT ![l].pc = "hooking", ![l].call = "posted"]
     /\ UNCHANGED in_flight

(* What follows from the policy of a hop.                                  *)
Proceed(l, hop, decision) ==
  \/ decision \in {"blocked", "local"} /\ DidFail(l) /\ UNCHANGED in_flight
  \/ decision = "mocked" /\ DeliverResponse(l)
  \/ decision = "local" /\ hop = 0 /\ DeliverResponse(l)
  \/ /\ decision = "fetch"
     /\ load' = [load EXCEPT ![l].pc = "fetching", ![l].hop = hop, ![l].call = "none"]
     /\ UNCHANGED in_flight
  \/ /\ decision = "fetch" /\ hop = 0 /\ ~OnWorker(l)
     /\ DidReceiveResponse(l, "streaming")       \* StartSse

Decisions == {"blocked", "mocked", "local", "fetch"}

(* EvaluateRequestPolicy for a hop of a load.                              *)
EvaluateRequestPolicy(l, hop) ==
  \/ ~OnWorker(l) /\ \E d \in Decisions : Proceed(l, hop, d)
  \/ /\ OnWorker(l)
     /\ load' = [load EXCEPT ![l].pc = "asking", ![l].call = "posted", ![l].hop = hop]
     /\ UNCHANGED in_flight

(* In a callback of the policy of its first hop the host may delete the    *)
(* load; Deliver, which does not look, goes on.                            *)
DeletedInCallback(l) ==
  /\ load' = [load EXCEPT ![l] = [Deleted(l) EXCEPT !.pc = "orphaned"]]
  /\ MbNetRequestFinished(load[l].keys)

Deliver(l) ==
  /\ load[l].pc = "queued" /\ Scheduled(l)
  /\ \/ EvaluateRequestPolicy(l, 0)
     \/ ~OnWorker(l) /\ DeletedInCallback(l)
  /\ UNCHANGED <<view, shutdown, registry, inst>>

(* The memory of the load is freed by then: its client, which may be gone  *)
(* as well, is told something or nothing.                                  *)
DeliverGoesOn(l) ==
  /\ load[l].pc = "orphaned"
  /\ \E heard \in {"nothing", "response", "failed"} :
       load' = [load EXCEPT ![l].pc = "deleted", ![l].heard = heard]
  /\ UNCHANGED <<view, shutdown, registry, inst, in_flight>>

(* The transfer has ended.  On a redirect the client may delete the load,  *)
(* decline, or accept; the host may delete it in a callback of the policy. *)
OnHopComplete(l) ==
  /\ load[l].pc = "fetching" /\ load[l].kind # "nav" /\ Scheduled(l)
  /\ \/ DeliverResponse(l)
     \/ DidFail(l) /\ UNCHANGED in_flight
     \/ Destroy(l)
     \/ load[l].hop < MaxHops /\ EvaluateRequestPolicy(l, load[l].hop + 1)
  /\ UNCHANGED <<view, shutdown, registry, inst>>

(* Mutant: the end of the write finds a load that was deleted.             *)
OnBodyWrittenUnretained(l) ==
  /\ \/ load[l].pc = "writing"
     \/ load[l].pc = "deleted" /\ load[l].heard = "response"
  /\ Scheduled(l)
  /\ Set(l, "told", "finished")
  /\ UNCHANGED <<view, shutdown, registry, inst, in_flight>>

OnBodyWritten(l) ==
  /\ load[l].pc = "writing" /\ Scheduled(l)
  /\ Set(l, "told", "finished")
  /\ UNCHANGED <<view, shutdown, registry, inst, in_flight>>

(* The client has had enough, or has had everything.                       *)
Cancel(l) ==
  /\ load[l].pc \in {"queued", "fetching", "writing", "streaming", "told"}
  /\ load[l].kind # "nav" /\ Scheduled(l)
  /\ Destroy(l)
  /\ UNCHANGED <<view, shutdown, registry, inst>>

------------------------------------------------------------------------------
(* The rendezvous of a worker with the engine thread: the engine's part    *)
(* (that of a call nobody waits for any more changes nothing),             *)
ServeCall(l) ==
  /\ Waiting(l) /\ load[l].call = "posted" /\ EngineRuns
  /\ load' = [load EXCEPT ![l].call =
                IF IsAlive(load[l].context) THEN "done" ELSE "refused"]
  /\ UNCHANGED <<view, shutdown, registry, inst, in_flight>>

(* and the worker's, once answered or when it gives up.                    *)
(* Mutant: only a shutdown makes it give up.                               *)
GivesUpInShutdown(l) == shutdown

GivesUp(l) == ~IsAlive(load[l].context) \/ shutdown

EndOfCall(l) ==
  \/ /\ load[l].pc = "asking" /\ load[l].kind = "worker"
     /\ \E d \in (IF load[l].call = "done" THEN Decisions ELSE {"blocked"}) :
          Proceed(l, load[l].hop, d)
  \/ load[l].pc = "asking" /\ load[l].kind = "script" /\ Destroy(l)
  \/ load[l].pc = "hooking" /\ DidReceiveResponse(l, "writing")

Resume(l) ==
  /\ Waiting(l)
  /\ load[l].call # "posted" \/ GivesUp(l)
  /\ EndOfCall(l)
  /\ UNCHANGED <<view, shutdown, registry, inst>>

(* FetchWorkerScript for a nested worker: the whole fetch is the call.     *)
FetchWorkerScript(l, c) ==
  /\ load[l].pc = "none" /\ "script" \in Kinds(l)
  /\ c \in Instances => inst[c].state = "live"
  /\ c \in LoaderViews => Alive(c)
  /\ load' = [load EXCEPT ![l] = [NewLoad EXCEPT
                !.pc = "asking", !.call = "posted", !.kind = "script",
                !.context = c, !.keys = ActivityContexts(c)]]
  /\ MbNetRequestStarted(ActivityContexts(c))
  /\ UNCHANGED <<view, shutdown, registry, inst>>

(* MbStartNavigation and NavFinish, as far as the counters go.             *)
MbStartNavigation(l, v) ==
  /\ load[l].pc = "none" /\ "nav" \in Kinds(l) /\ Alive(v) /\ EngineRuns
  /\ load' = [load EXCEPT ![l] = [NewLoad EXCEPT
                !.pc = "fetching", !.kind = "nav", !.context = v, !.keys = {v}]]
  /\ MbNetRequestStarted({v})
  /\ UNCHANGED <<view, shutdown, registry, inst>>

NavFinish(l) ==
  /\ load[l].pc = "fetching" /\ load[l].kind = "nav" /\ EngineRuns
  /\ Destroy(l)
  /\ UNCHANGED <<view, shutdown, registry, inst>>

------------------------------------------------------------------------------
(* An event stream: its thread posts what arrives, the loader buffers it   *)
(* and drains the buffer into the pipe to the page.                        *)
Drained(s) ==
  LET room == Pipe - (s.written - s.read)
      n    == IF s.broken THEN 0 ELSE IF s.buffer < room THEN s.buffer ELSE room
      t    == [s EXCEPT !.written = @ + n, !.buffer = @ - n]
  IN IF t.ended /\ t.buffer = 0 THEN [t EXCEPT !.pc = "told", !.heard = "finished"]
                                ELSE t

Received(s) == s.posted + s.buffer + s.written

SseChunk(l) ==
  /\ load[l].pc = "streaming" /\ ~load[l].ended /\ Received(load[l]) < MaxBytes
  /\ load' = [load EXCEPT ![l].posted = @ + 1]
  /\ UNCHANGED <<view, shutdown, registry, inst, in_flight>>

OnSseChunk(l) ==
  /\ load[l].pc = "streaming" /\ load[l].posted > 0 /\ EngineRuns
  /\ load' = [load EXCEPT ![l] =
                Drained([load[l] EXCEPT !.posted = @ - 1, !.buffer = @ + 1])]
  /\ UNCHANGED <<view, shutdown, registry, inst, in_flight>>

(* Posted after the last chunk.                                            *)
OnSseDone(l) ==
  /\ load[l].pc = "streaming" /\ load[l].posted = 0 /\ ~load[l].ended /\ EngineRuns
  /\ load' = [load EXCEPT ![l] = Drained([load[l] EXCEPT !.ended = TRUE])]
  /\ UNCHANGED <<view, shutdown, registry, inst, in_flight>>

(* The page reads, and the watcher has the loader go on; or it closes its  *)
(* end, after which every write fails.                                     *)
DrainSse(l) ==
  /\ load[l].pc = "streaming" /\ load[l].read < load[l].written /\ EngineRuns
  /\ load' = [load EXCEPT ![l] = Drained([load[l] EXCEPT !.read = @ + 1])]
  /\ UNCHANGED <<view, shutdown, registry, inst, in_flight>>

ReaderGoes(l) ==
  /\ load[l].pc = "streaming" /\ ~load[l].broken
  /\ load' = [load EXCEPT ![l].broken = TRUE]
  /\ UNCHANGED <<view, shutdown, registry, inst, in_flight>>

------------------------------------------------------------------------------
(* The shared worker.  Connect makes an instance unless one is registered, *)
(* whose script the engine thread fetches before anything else happens.    *)
(* (Names of instances and views are given in turn.)                       *)
Connect(v) ==
  /\ Alive(v) /\ EngineRuns
  /\ \/ /\ registry # NoContext /\ inst[registry].clients[v] < MaxClients
        /\ inst' = [inst EXCEPT ![registry].clients[v] = @ + 1]
        /\ UNCHANGED registry
     \/ /\ registry = NoContext
        /\ \E i \in Instances :
             /\ inst[i].state = "none"
             /\ i = CHOOSE j \in Instances : inst[j].state = "none"
             /\ registry' = i
             /\ inst' = [inst EXCEPT ![i] =
                  [NewInstance EXCEPT !.state = "live", !.clients[v] = 1]]
  /\ UNCHANGED <<view, shutdown, load, in_flight>>

(* OnClientGone: the last client takes the instance with it, which is      *)
(* forgotten before its context is destroyed.                              *)
Left(i, v) == [inst[i] EXCEPT !.clients[v] = @ - 1]

OnClientGone(i, v) ==
  /\ inst[i].clients[v] > 0 /\ EngineRuns
  /\ LET left == Left(i, v)
         last == \A u \in LoaderViews : left.clients[u] = 0
     IN /\ inst' = [inst EXCEPT ![i] =
                      IF last THEN [left EXCEPT !.state = "terminating"] ELSE left]
        /\ registry' = IF last /\ registry = i THEN NoContext ELSE registry
  /\ UNCHANGED <<view, shutdown, load, in_flight>>

(* The thread of the worker ends, and its loads with it.                   *)
EndLoads(mine) ==
  /\ load' = [l \in Loads |->
                IF l \in mine THEN Deleted(l) ELSE load[l]]
  /\ in_flight' = [k \in Contexts |->
       in_flight[k] - Cardinality({l \in mine : k \in load[l].keys})]

Running(l) == load[l].pc \notin {"none", "orphaned", "deleted"}

WorkerContextDestroyed(i) ==
  /\ inst[i].state = "terminating" /\ EngineRuns
  /\ LET mine == {l \in Loads : Running(l) /\ load[l].context = i}
     IN /\ \A l \in mine : ~Waiting(l)
        /\ EndLoads(mine)
  /\ inst' = [inst EXCEPT ![i] = [NewInstance EXCEPT !.state = "gone"]]
  /\ registry' = IF registry = i THEN NoContext ELSE registry
  /\ UNCHANGED <<view, shutdown>>

------------------------------------------------------------------------------
(* Views.  The destructor revokes the context of the view first; closing   *)
(* the page waits for the threads of its dedicated workers.                *)
Open(v) ==
  /\ view[v] = "new" /\ EngineRuns
  /\ v = CHOOSE u \in LoaderViews : view[u] = "new"
  /\ view' = [view EXCEPT ![v] = "open"]
  /\ UNCHANGED <<shutdown, registry, inst, load, in_flight>>

Invalidate(v) ==
  /\ view[v] = "open" /\ EngineRuns
  /\ view' = [view EXCEPT ![v] = "closing"]
  /\ UNCHANGED <<shutdown, registry, inst, load, in_flight>>

Close(v) ==
  /\ view[v] = "closing"
  /\ LET mine == {l \in Loads : Running(l) /\ load[l].context = v /\ load[l].kind # "nav"}
     IN /\ \A l \in mine : ~Waiting(l)
        /\ EndLoads(mine)
  /\ view' = [view EXCEPT ![v] = "gone"]
  /\ UNCHANGED <<shutdown, registry, inst>>

Shutdown ==
  /\ EngineRuns
  /\ shutdown' = TRUE
  /\ UNCHANGED <<view, registry, inst, load, in_flight>>

Work(l) ==
  \/ Deliver(l) \/ DeliverGoesOn(l) \/ OnHopComplete(l) \/ OnBodyWritten(l)
  \/ ServeCall(l) \/ Resume(l) \/ NavFinish(l)
  \/ OnSseChunk(l) \/ OnSseDone(l) \/ DrainSse(l)

LoadingNext ==
  \/ \E l \in Loads :
       \/ \E c \in Contexts, kind \in {"page", "worker"} : LoadAsynchronously(l, c, kind)
       \/ \E c \in Contexts : FetchWorkerScript(l, c)
       \/ \E v \in LoaderViews : MbStartNavigation(l, v)
       \/ Work(l) \/ Cancel(l) \/ SseChunk(l) \/ ReaderGoes(l)
  \/ \E v \in LoaderViews :
       \/ Connect(v) \/ Open(v) \/ Invalidate(v) \/ Close(v)
       \/ \E i \in Instances : OnClientGone(i, v)
  \/ \E i \in Instances : WorkerContextDestroyed(i)
  \/ Shutdown

LoadingSpec == LoadingInit /\ [][LoadingNext]_loadingVars

LoadingFairly ==
  /\ LoadingSpec
  /\ WF_loadingVars(\E l \in Loads : Work(l))
  /\ WF_loadingVars(\E v \in LoaderViews : Close(v))
=============================================================================
