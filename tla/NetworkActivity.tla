---------------------------- MODULE NetworkActivity ----------------------------
(***************************************************************************)
(* What a view knows of its own traffic (loader/mb_url_loader.cc): the     *)
(* contexts that loads are counted by, the counters per context, and the   *)
(* wait of a host for the network of a view to fall idle                   *)
(* (MbWebView::WaitForNetworkIdle).                                        *)
(*                                                                         *)
(* A counter is kept under the address of a context.  A context lives as   *)
(* long as somebody refers to it; its address is then used again.  Loads   *)
(* of workers are counted and finished on their threads, one context after *)
(* the other, while the engine thread reads the counters.                  *)
(***************************************************************************)
EXTENDS Integers, SequencesExt

CONSTANTS
  Views,
  Workers,     \* shared workers
  Waits,       \* views whose network the host waits for, once
  Addresses,   \* of MbLoaderViewContext objects: numbers, lower ones are used first
  Loads,       \* numbers: a lower one that is idle is used first
  None,
  IdleTime,    \* ticks of the clock that are an idle window
  Timeout,     \* ticks until the wait is given up
  MaxPump,     \* bound: ticks that one turn of the wait takes
  MaxStarted   \* bound: loads a context ever counts

VARIABLES
  context,     \* view or worker -> the address of its context
  owner,       \* address -> owner_context_
  attached,    \* address -> activity_contexts_, of a shared worker
  activity,    \* ViewNetMap(): address -> counters, or None
  load,        \* load -> its context, the addresses it is to be counted by, and is
  now,
  wait,        \* the wait of the host
  busy         \* history: when a load was last under way for the waiting view

vars == <<context, owner, attached, activity, load, now, wait, busy>>

contextVars == <<context, owner, attached>>

Idle == [by |-> None, starting |-> {}, counted |-> {}, ends |-> FALSE]
NotWaiting == [view |-> None, pc |-> "none", pumped |-> 0, last_started |-> 0, started |-> 0,
               idle_deadline |-> 0, hard_deadline |-> 0, quiet |-> 0, result |-> "none"]

Init ==
  /\ context = [x \in Views \cup Workers |-> None]
  /\ owner = [a \in Addresses |-> None]
  /\ attached = [a \in Addresses |-> <<>>]
  /\ activity = [a \in Addresses |-> None]
  /\ load = [l \in Loads |-> Idle]
  /\ now = 0
  /\ wait = NotWaiting
  /\ busy = 0

------------------------------------------------------------------------------
(* Mutant: loads keep the addresses they are counted by and no references. *)
ReferredByObjects(ctx, att, loads) ==
  LET direct == {ctx[x] : x \in Views \cup Workers} \cup {loads[l].by : l \in Loads}
  IN (direct \cup UNION {{owner[a]} \cup ToSet(att[a]) : a \in direct \ {None}}) \ {None}

(* Who refers to a context: its view or worker, loads that came by it or   *)
(* are counted by it, and contexts of workers that it owns or is attached  *)
(* to.                                                                     *)
Referred(ctx, att, loads) ==
  LET direct == {ctx[x] : x \in Views \cup Workers}
                  \cup UNION {{loads[l].by} \cup loads[l].starting \cup loads[l].counted
                              : l \in Loads}
  IN (direct \cup UNION {{owner[a]} \cup ToSet(att[a]) : a \in direct \ {None}}) \ {None}

(* ~MbLoaderViewContext of those nobody refers to any more:                *)
(* MbNetForgetActivityContext keeps the counters until the last load ends. *)
Forgotten(acts, gone) ==
  [a \in Addresses |->
     IF a \notin gone \/ acts[a] = None THEN acts[a]
     ELSE IF acts[a].in_flight = 0 THEN None ELSE [acts[a] EXCEPT !.retired = TRUE]]

(* What is left when references go.                                        *)
Release(ctx, att, loads, acts) ==
  LET gone == {a \in Addresses : a \in Referred(context, attached, load)
                                 /\ a \notin Referred(ctx, att, loads)}
  IN /\ context' = ctx
     /\ load' = loads
     /\ activity' = Forgotten(acts, gone)
     /\ attached' = [a \in Addresses |-> IF a \in gone THEN <<>> ELSE att[a]]
     /\ owner' = [a \in Addresses |-> IF a \in gone THEN None ELSE owner[a]]
   
------------------------------------------------------------------------------
(* Views and shared workers, on the engine thread.                         *)
Free(a) == a \notin Referred(context, attached, load)
New(a) == Free(a) /\ \A b \in Addresses : b < a => ~Free(b)

CreateView(v, a) ==
  /\ context[v] = None /\ New(a)
  /\ context' = [context EXCEPT ![v] = a]
  /\ UNCHANGED <<owner, attached, activity, load, now, wait, busy>>

DestroyView(v) ==
  /\ context[v] # None /\ wait.view # v
  /\ Release([context EXCEPT ![v] = None], attached, load, activity)
  /\ UNCHANGED <<now, wait, busy>>

(* Start and AddClient of the page that started the worker.                *)
StartWorker(w, v, a) ==
  /\ context[w] = None /\ context[v] # None /\ New(a)
  /\ context' = [context EXCEPT ![w] = a]
  /\ owner' = [owner EXCEPT ![a] = context[v]]
  /\ attached' = [attached EXCEPT ![a] = <<context[v]>>]
  /\ UNCHANGED <<activity, load, now, wait, busy>>

AddClient(w, v) ==
  /\ context[w] # None /\ context[v] # None /\ Len(attached[context[w]]) < 2
  /\ attached' = [attached EXCEPT ![context[w]] = Append(@, context[v])]
  /\ UNCHANGED <<context, owner, activity, load, now, wait, busy>>

(* OnClientGone: a page of the view has gone, or the view itself; of what  *)
(* is attached for that view the first is erased.  The worker goes with    *)
(* its last client.                                                        *)
OnClientGone(w, i) ==
  LET a == context[w] IN
    /\ a # None /\ i \in DOMAIN attached[a]
    /\ \A k \in 1 .. i - 1 : attached[a][k] # attached[a][i]
    /\ LET left == RemoveAt(attached[a], i)
       IN Release([context EXCEPT ![w] = IF left = <<>> THEN None ELSE a],
                  [attached EXCEPT ![a] = left], load, activity)
    /\ UNCHANGED <<now, wait, busy>>

------------------------------------------------------------------------------
(* activity_contexts: of a worker, the views that are connected to it.     *)
ActivityContexts(a) ==
  IF owner[a] = None THEN {a}
  ELSE IF attached[a] = <<>> THEN {a}
  ELSE ToSet(attached[a])

(* Whether some load that has been counted is under way for view v.        *)
UnderWay(v, loads) == \E l \in Loads : context[v] \in loads[l].counted
Busy(loads) ==
  busy' = IF wait.view # None /\ (UnderWay(wait.view, load) \/ UnderWay(wait.view, loads))
          THEN now ELSE busy

(* LoadAsynchronously and FetchWorkerScript take the contexts and count    *)
(* the load by each of them.                                               *)
StartLoad(l, x) ==
  /\ load[l] = Idle /\ \A m \in Loads : m < l => load[m] # Idle
  /\ context[x] # None
  /\ \A c \in ActivityContexts(context[x]) :
       activity[c] # None => activity[c].started < MaxStarted
  /\ load' = [load EXCEPT ![l] = [Idle EXCEPT !.by = context[x],
                                              !.starting = ActivityContexts(context[x])]]
  /\ UNCHANGED <<contextVars, activity, now, wait, busy>>

(* MbNetRequestStarted.                                                    *)
RequestStarted(l, a) ==
  /\ a \in load[l].starting
  /\ LET old == activity[a]
         fresh == old = None \/ (old.retired /\ old.in_flight = 0)
     IN activity' = [activity EXCEPT ![a] =
          [started   |-> 1 + (IF fresh THEN 0 ELSE old.started),
           in_flight |-> 1 + (IF fresh THEN 0 ELSE old.in_flight),
           retired   |-> ~fresh /\ old.retired]]
  /\ load' = [load EXCEPT ![l].starting = @ \ {a}, ![l].counted = @ \cup {a}]
  /\ Busy(load')
  /\ UNCHANGED <<contextVars, now, wait>>

(* The load is over, or its loader is destroyed.                           *)
EndLoad(l) ==
  /\ load[l] # Idle /\ load[l].starting = {} /\ ~load[l].ends
  /\ load' = [load EXCEPT ![l].ends = TRUE]
  /\ UNCHANGED <<contextVars, activity, now, wait, busy>>

(* MbNetRequestFinished, for each context; then the references go.         *)
RequestFinished(l, a) ==
  /\ load[l].ends /\ a \in load[l].counted
  /\ LET rest  == load[l].counted \ {a}
         loads == [load EXCEPT ![l] = IF rest = {} THEN Idle
                                      ELSE [load[l] EXCEPT !.counted = rest]]
         old == activity[a]
         left == IF old = None \/ old.in_flight = 0 THEN old
                 ELSE IF old.in_flight = 1 /\ old.retired THEN None
                 ELSE [old EXCEPT !.in_flight = @ - 1]
     IN Release(context, attached, loads, [activity EXCEPT ![a] = left])
        /\ Busy(loads)
  /\ UNCHANGED <<now, wait>>

------------------------------------------------------------------------------
(* The wait of the host, on the engine thread; each read takes the lock.   *)
Started(v) == IF activity[context[v]] = None THEN 0 ELSE activity[context[v]].started
InFlight(v) == IF activity[context[v]] = None THEN 0 ELSE activity[context[v]].in_flight

WaitForNetworkIdle(v) ==
  /\ wait.view = None /\ context[v] # None /\ now = 0
  /\ wait' = [NotWaiting EXCEPT !.view = v, !.pc = "pump", !.last_started = Started(v),
                                !.idle_deadline = now + IdleTime,
                                !.hard_deadline = now + Timeout]
  /\ busy' = now
  /\ UNCHANGED <<contextVars, activity, load, now>>

(* RunUntilIdle takes its time: other steps of this specification are what *)
(* happens meanwhile.                                                      *)
Tick ==
  /\ wait.pc = "pump" /\ wait.pumped < MaxPump
  /\ now' = now + 1
  /\ wait' = [wait EXCEPT !.pumped = @ + 1]
  /\ busy' = IF UnderWay(wait.view, load) THEN now' ELSE busy
  /\ UNCHANGED <<contextVars, activity, load>>

(* The read of what has started, which is also when the quiet so far is    *)
(* noted for the properties.                                               *)
ReadStarted ==
  /\ wait.pc = "pump"
  /\ wait' = [wait EXCEPT !.pc = "started", !.started = Started(wait.view),
                          !.quiet = now - busy]
  /\ UNCHANGED <<contextVars, activity, load, now, busy>>

(* Mutant: a load that takes long is taken for no load.                    *)
RestartsForNewLoads == wait.started # wait.last_started

(* The read of what is in flight, and the decision.                        *)
Restarts == wait.started # wait.last_started \/ InFlight(wait.view) > 0

Sample ==
  /\ wait.pc = "started"
  /\ LET idle_deadline == IF Restarts THEN now + IdleTime ELSE wait.idle_deadline
     IN wait' =
          IF now >= idle_deadline /\ idle_deadline <= wait.hard_deadline
          THEN [wait EXCEPT !.pc = "done", !.result = "idle"]
          ELSE IF now >= wait.hard_deadline
          THEN [wait EXCEPT !.pc = "done", !.result = "timeout"]
          ELSE [wait EXCEPT !.pc = "pump", !.pumped = 0, !.last_started = wait.started,
                            !.idle_deadline = idle_deadline]
  /\ UNCHANGED <<contextVars, activity, load, now, busy>>

Next ==
  \/ \E v \in Views, a \in Addresses : CreateView(v, a)
  \/ \E v \in Views : DestroyView(v)
  \/ \E v \in Waits : WaitForNetworkIdle(v)
  \/ \E w \in Workers, v \in Views : AddClient(w, v) \/ \E a \in Addresses : StartWorker(w, v, a)
  \/ \E w \in Workers : \E i \in 1 .. 2 : OnClientGone(w, i)
  \/ \E l \in Loads : \/ \E x \in Views \cup Workers : StartLoad(l, x)
                      \/ EndLoad(l)
                      \/ \E a \in Addresses : RequestStarted(l, a) \/ RequestFinished(l, a)
  \/ Tick \/ ReadStarted \/ Sample

Spec == Init /\ [][Next]_vars

------------------------------------------------------------------------------
(* A counter of a context is the number of loads that are counted by it,   *)
(* and no counters are left of a context that has gone: one whose address  *)
(* is used again starts from nothing.                                      *)
CountsAreTrue ==
  \A a \in Addresses :
    /\ (IF activity[a] = None THEN 0 ELSE activity[a].in_flight)
         = Cardinality({l \in Loads : a \in load[l].counted})
    /\ Free(a) => activity[a] = None
    /\ activity[a] # None => ~activity[a].retired

(* When the wait reports that the network is idle it has been so for the   *)
(* time the host asked, but for the turn of the wait in which the last     *)
(* load ended.                                                             *)
IdleButForATurn == wait.result = "idle" => wait.quiet >= IdleTime - MaxPump

TypeOK ==
  /\ \A x \in DOMAIN context : context[x] \in Addresses \cup {None}
  /\ \A a \in Addresses : activity[a] = None \/ activity[a].in_flight \in 0 .. Cardinality(Loads)
  /\ wait.view \in Views \cup {None} /\ busy <= now

(* The counters tell how busy the network of a view is, and the wait       *)
(* believes them.                                                          *)
ActivityIsTrue == TypeOK /\ CountsAreTrue /\ IdleButForATurn

(* "wait until THIS view has had nothing in flight and no newly-started    *)
(* request for idle_ms" (automation.h).  The code restarts the window at   *)
(* samples that see a load, not when the load ends.                        *)
IdleWindowIsQuiet == wait.result = "idle" => wait.quiet >= IdleTime
=============================================================================
