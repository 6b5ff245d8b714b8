------------------------------ MODULE HostCalls ------------------------------
(***************************************************************************)
(* The calls of the host that run page code: scripts, input, selectors,    *)
(* waits and loads of view/mb_webview.cc, with the events that             *)
(* widget/mb_widget.cc makes of them.  The host is not a task; almost      *)
(* every call posts one, runs a nested loop until it has run, and returns, *)
(* while tasks of the page and of the loader run in that loop as well, and *)
(* page code calls the host, which may call again.                         *)
(*                                                                         *)
(* The main thread is one stack: of calls, run loops, tasks, bodies of     *)
(* calls, callbacks.  A step of this module is one of the frame on top.    *)
(***************************************************************************)
EXTENDS Integers, SequencesExt

CONSTANTS
  Views,
  Calls,      \* the calls that the host makes: names of programs
  DragSteps,  \* kSteps: 6 in the code
  MaxCalls, MaxTasks, MaxLoads  \* bounds: calls, tasks of pages, loads that commit

VARIABLES
  stack,
  queue,     \* the default task runner: bodies of calls, and quits of loops
  late,      \* loops whose delayed quit has not fallen due
  pages,     \* tasks of pages and timers that are ready
  loads,     \* tasks of the loader that are ready; some commit a document
  in_document_start, \* of a view: in_document_start_
  mouse_pressed,     \* MbWidget::mouse_pressed_
  held,      \* buttons, keys and fingers that the page has seen go down, not up
  made       \* calls, page tasks and loads there have been

vars == <<stack, queue, late, pages, loads, in_document_start, mouse_pressed, held, made>>

Init ==
  /\ stack = <<>> /\ queue = <<>> /\ late = {} /\ pages = 0 /\ loads = 0
  /\ in_document_start = [v \in Views |-> FALSE]
  /\ mouse_pressed = FALSE /\ held = {}
  /\ made = [calls |-> 0, pages |-> 0, loads |-> 0]

Top == stack[Len(stack)]
Is(at) == stack # <<>> /\ Top.at = at
On(S) == {i \in DOMAIN stack : stack[i].at \in S}
Pop == stack' = Front(stack)
Replace(f) == stack' = [stack EXCEPT ![Len(stack)] = f]

------------------------------------------------------------------------------
(* What the widget makes of a call: a sequence of events, each of which    *)
(* runs handlers of the page before the next is made.                      *)
Click         == <<"click down", "click up">>
DoubleClickHeld == Click \o <<"click down">>  \* mutant
DoubleClick   == Click \o Click
RightClick    == <<"menu down", "menu up">>
Press         == <<"mouse down">>
Release       == <<"mouse up">>
Move          == <<"move">>
Key(ch)       == IF ch THEN <<"key down", "char", "key up">> ELSE <<"key down", "key up">>
Text          == Key(TRUE) \o Key(TRUE)  \* of two characters
KeyUp         == <<"key up">>
Ime           == <<"compose", "commit text">>
Tap           == <<"finger down", "finger up", "tap">>
Swipe         == [i \in 1 .. DragSteps + 2 |->
                    IF i = 1 THEN "finger down"
                    ELSE IF i < DragSteps + 2 THEN "finger move" ELSE "finger up"]
Wheel         == <<"wheel">>

Downs == [mouse |-> {"mouse down", "click down"}, menu |-> {"menu down"},
          key |-> {"key down"}, finger |-> {"finger down"}]
Ups   == [mouse |-> {"mouse up", "click up"}, menu |-> {"menu up"},
          key |-> {"key up"}, finger |-> {"finger up"}]

------------------------------------------------------------------------------
(* What the view makes of a call: steps, of which the first is taken when  *)
(* the one before has been.  A step runs in a task, in a task after which  *)
(* the page may settle, directly; or drains the queue, or commits.         *)
InTask(events) == <<[how |-> "task", events |-> events]>>
Settled(events) == <<[how |-> "settle", events |-> events]>>
Directly(events) == <<[how |-> "direct", events |-> events]>>
RunUntilIdle == <<[how |-> "pump", events |-> <<>>]>>
Commit == <<[how |-> "commit", events |-> <<>>]>> \o RunUntilIdle

RunJS        == Settled(<<"script">>)
EvalToString == InTask(<<"script">>)

(* Calls that are one script in a task, for what is modelled of them.      *)
EvalInFrame        == EvalToString
EvalWithType       == EvalToString
DispatchEvent      == EvalToString
SelectOption       == EvalToString
FillSelector       == EvalToString
GetTextForSelector == EvalToString
SetLocalStorage    == EvalToString
SendScroll         == EvalToString
OneScript == {EvalToString, EvalInFrame, EvalWithType, DispatchEvent, SelectOption, FillSelector,
              GetTextForSelector, SetLocalStorage, SendScroll}

(* Without a file, or an input that takes one, no event is fired.          *)
SetFileForSelector == {<<>>, EvalToString}

AnimationFrame == InTask(<<"frame">>)

SendMouseClick == InTask(Click)
SendMouseDown  == InTask(Press)
SendMouseUp    == InTask(Release)
SendMouseMove  == InTask(Move)

(* Events one by one, as the host has them: down, up or a move, of the     *)
(* left button or another.                                                 *)
SendMouseEvent == {InTask(<<e>>) : e \in {"mouse down", "mouse up", "move", "other down", "other up"}}
SendKeyEvent   == {InTask(<<e>>) : e \in {"raw key", "char", "key up"}}

(* Of a selector: the element is scrolled to, measured, and clicked where  *)
(* it was.  Without an element there is nothing to click.                  *)
Target == EvalToString \o EvalToString
ClickSelector       == {Target, Target \o SendMouseClick}
DoubleClickSelector == {Target, Target \o Directly(DoubleClick)}
RightClickSelector  == {Target, Target \o Directly(RightClick)}
HoverSelector       == {Target, Target \o SendMouseMove}
DragSelector ==
  {EvalToString, EvalToString \o EvalToString,
   EvalToString \o EvalToString \o SendMouseDown
     \o [i \in 1 .. DragSteps |-> Head(SendMouseMove)] \o SendMouseUp}

SendTouchTap   == Directly(Tap) \o EvalToString
SendTouchSwipe == Directly(Swipe) \o EvalToString
SendWheel      == Directly(Wheel)
SendKey        == {InTask(Key(TRUE)), InTask(Key(FALSE))}
SendText       == InTask(Text)
SendIme        == InTask(Ime)

(* A turn of WaitMs; the probes of the other waits, until one is met or    *)
(* the time is over: here, at most two.                                    *)
WaitMs  == AnimationFrame \o RunUntilIdle \o RunUntilIdle
Probe   == RunUntilIdle \o EvalToString
WaitFor == {Probe, Probe \o Probe}
ScrollToBottom == EvalToString \o EvalToString \o WaitMs \o EvalToString

Programs ==
  [run |-> {RunJS}, eval |-> OneScript, file |-> SetFileForSelector,
   mouse |-> SendMouseEvent, keys |-> SendKeyEvent, click |-> ClickSelector,
   double |-> DoubleClickSelector, menu |-> RightClickSelector, hover |-> HoverSelector,
   drag |-> DragSelector,
   tap |-> {SendTouchTap}, swipe |-> {SendTouchSwipe}, wheel |-> {SendWheel},
   key |-> SendKey, text |-> {SendText}, keyup |-> {InTask(KeyUp)}, ime |-> {SendIme},
   wait |-> {WaitMs}, waitfor |-> WaitFor, bottom |-> {ScrollToBottom}, load |-> {Commit}]

ASSUME HostCallsAssumption == DragSteps \in Nat /\ Calls \subseteq DOMAIN Programs

------------------------------------------------------------------------------
(* Host code runs when nothing else does, and in the callbacks: of         *)
(* functions bound for the page and of its dialogs, and when the window    *)
(* object of a document is ready.  There it neither waits nor loads.       *)
HostRuns == stack = <<>> \/ Is("host") \/ Is("start")

Call(v, steps) ==
  /\ On({"init", "start"}) # {} => \A i \in DOMAIN steps : steps[i].how \notin {"pump", "commit"}
  /\ stack' = Append(stack, [at |-> "call", view |-> v, steps |-> steps])
  /\ made' = [made EXCEPT !.calls = @ + 1]
  /\ UNCHANGED <<queue, late, pages, loads, in_document_start, mouse_pressed, held>>

HostCallsIn ==
  /\ HostRuns /\ made.calls < MaxCalls
  /\ \E v \in Views, c \in Calls : \E p \in Programs[c] : Call(v, p)

Return ==
  /\ Is("call") /\ Top.steps = <<>>
  /\ Pop
  /\ UNCHANGED <<queue, late, pages, loads, in_document_start, mouse_pressed, held, made>>

(* Page code runs, and may call the host: MbNativeTrampoline, and          *)
(* MbDialogBridge for dialogs.                                             *)
Enter(below, f) ==
  \/ stack' = Append(below, f)
  \/ made.calls < MaxCalls /\ stack' = Append(Append(below, f), [at |-> "host"])

HostReturns ==
  /\ Is("host")
  /\ Pop
  /\ UNCHANGED <<queue, late, pages, loads, in_document_start, mouse_pressed, held, made>>

(* The call is on top: what is left of it when its next step begins.       *)
Step == Top.steps[1]
Caller == [stack EXCEPT ![Len(stack)].steps = Tail(@)]

Body(how) == [at |-> "body", how |-> how, events |-> Step.events]

(* What a loop of a call waits for, and what tells it to quit.             *)
Posted(what, id) ==
  [what |-> what, loop |-> id, events |-> IF what = "body" THEN Step.events ELSE <<>>]
Quit == IF Step.how = "settle" THEN "idle" ELSE "quit"

(* Mutant: the quits are posted before the body.                           *)
PostsQuitFirst(id) == <<Posted(Quit, id), Posted("body", id)>>

Posts(id) == <<Posted("body", id), Posted(Quit, id)>>

(* Mutant: a call in the callback of a document's start pumps like others. *)
NeverInline(v) == FALSE

Inline(v) == in_document_start[v]

(* RunInFrameTask.  The loop is the frame above the call, and known to its *)
(* quits by that place.                                                    *)
RunInFrameTask ==
  LET id == Len(stack) + 1
  IN  /\ Is("call") /\ Top.steps # <<>> /\ Step.how \in {"task", "settle"}
      /\ IF Inline(Top.view)
           THEN /\ stack' = Append(Caller, Body("inline"))
                /\ UNCHANGED <<queue, late>>
           ELSE /\ stack' = Append(Caller, [at |-> "loop", quit |-> FALSE, idle |-> FALSE])
                /\ queue' = queue \o Posts(id)
                /\ late' = IF Step.how = "settle" THEN late \cup {id} ELSE late
      /\ UNCHANGED <<pages, loads, in_document_start, mouse_pressed, held, made>>

SendDirectly ==
  /\ Is("call") /\ Top.steps # <<>> /\ Step.how = "direct"
  /\ stack' = Append(Caller, Body("direct"))
  /\ UNCHANGED <<queue, late, pages, loads, in_document_start, mouse_pressed, held, made>>

(* RunLoop().RunUntilIdle(): a loop of this kind runs no tasks inside of   *)
(* another.                                                                *)
Pump ==
  /\ Is("call") /\ Top.steps # <<>> /\ Step.how = "pump"
  /\ stack' = IF On({"loop", "pump"}) = {} THEN Append(Caller, [at |-> "pump"]) ELSE Caller
  /\ UNCHANGED <<queue, late, pages, loads, in_document_start, mouse_pressed, held, made>>

(* A call that loads commits on its own stack, not in a task.              *)
CommitHtml ==
  /\ Is("call") /\ Top.steps # <<>> /\ Step.how = "commit"
  /\ Enter(Caller, [at |-> "init", view |-> Top.view])
  /\ UNCHANGED <<queue, late, pages, loads, in_document_start, mouse_pressed, held, made>>

------------------------------------------------------------------------------
(* RunDocumentStartScript: the bindings, the shims and the init script are *)
(* in place, run bare; then the host hears that the window object is       *)
(* ready, if it asked for that.                                            *)
WindowObjectReady ==
  /\ Is("init")
  /\ Replace([at |-> "start", view |-> Top.view])
  /\ in_document_start' = [in_document_start EXCEPT ![Top.view] = TRUE]
  /\ UNCHANGED <<queue, late, pages, loads, mouse_pressed, held, made>>

NobodyListens ==
  /\ Is("init")
  /\ Pop
  /\ UNCHANGED <<queue, late, pages, loads, in_document_start, mouse_pressed, held, made>>

StartEnds ==
  /\ Is("start")
  /\ Pop
  /\ in_document_start' = [in_document_start EXCEPT ![Top.view] = FALSE]
  /\ UNCHANGED <<queue, late, pages, loads, mouse_pressed, held, made>>

------------------------------------------------------------------------------
(* One event of a body: the widget's own record, what the page sees, and   *)
(* its handlers.                                                           *)
Sees(e) ==
  LET of(m) == {b \in DOMAIN m : e \in m[b]}
  IN  /\ held' = (held \ of(Ups)) \cup of(Downs)
      /\ mouse_pressed' = (e = "mouse down" \/ (mouse_pressed /\ e # "mouse up"))

Dispatch ==
  /\ Is("body") /\ Top.events # <<>>
  /\ Sees(Top.events[1])
  /\ Enter(Front(stack), [Top EXCEPT !.events = Tail(@)])
  /\ UNCHANGED <<queue, late, pages, loads, in_document_start, made>>

BodyEnds ==
  /\ Is("body") /\ Top.events = <<>>
  /\ Pop
  /\ UNCHANGED <<queue, late, pages, loads, in_document_start, mouse_pressed, held, made>>

------------------------------------------------------------------------------
(* The loops.                                                              *)
MayRun == Is("pump") \/ (Is("loop") /\ ~Top.quit)

RunBody ==
  /\ MayRun /\ queue # <<>> /\ Head(queue).what = "body"
  /\ stack' = Append(stack, [at |-> "body", how |-> "task", events |-> Head(queue).events])
  /\ queue' = Tail(queue)
  /\ UNCHANGED <<late, pages, loads, in_document_start, mouse_pressed, held, made>>

(* A quit is of its loop, whichever loop runs it.                          *)
RunQuit ==
  /\ MayRun /\ queue # <<>>
  /\ LET q == Head(queue)
     IN  \/ q.what = "quit" /\ stack' = [stack EXCEPT ![q.loop].quit = TRUE]
         \/ q.what = "idle" /\ stack' = [stack EXCEPT ![q.loop].idle = TRUE]
  /\ queue' = Tail(queue)
  /\ UNCHANGED <<late, pages, loads, in_document_start, mouse_pressed, held, made>>

(* Tasks of Blink have queues of their own.                                *)
RunPageTask ==
  /\ MayRun /\ pages > 0
  /\ pages' = pages - 1
  /\ Enter(stack, [at |-> "task"])
  /\ UNCHANGED <<queue, late, loads, in_document_start, mouse_pressed, held, made>>

RunLoadTask ==
  /\ MayRun /\ loads > 0
  /\ loads' = loads - 1
  /\ \/ stack' = Append(stack, [at |-> "load"])
     \/ \E v \in Views :
          /\ \A i \in On({"init", "start"}) : stack[i].view # v
          /\ Enter(Append(stack, [at |-> "load"]), [at |-> "init", view |-> v])
  /\ UNCHANGED <<queue, late, pages, in_document_start, mouse_pressed, held, made>>

TaskEnds ==
  /\ Is("task") \/ Is("load")
  /\ Pop
  /\ UNCHANGED <<queue, late, pages, loads, in_document_start, mouse_pressed, held, made>>

(* With the loop goes its delayed quit.                                    *)
LoopReturns ==
  /\ Is("loop")
  /\ Top.quit \/ (Top.idle /\ queue = <<>> /\ pages = 0 /\ loads = 0)
  /\ Pop
  /\ late' = late \ {Len(stack)}
  /\ UNCHANGED <<queue, pages, loads, in_document_start, mouse_pressed, held, made>>

PumpReturns ==
  /\ Is("pump") /\ queue = <<>> /\ pages = 0 /\ loads = 0
  /\ Pop
  /\ UNCHANGED <<queue, late, pages, loads, in_document_start, mouse_pressed, held, made>>

(* 250 ms are over: the delayed quit is behind what was posted before.     *)
QuitFallsDue(id) ==
  /\ id \in late
  /\ late' = late \ {id}
  /\ queue' = Append(queue, [what |-> "quit", loop |-> id, events |-> <<>>])
  /\ UNCHANGED <<stack, pages, loads, in_document_start, mouse_pressed, held, made>>

(* Timers, network, other threads.                                         *)
TaskIsReady ==
  /\ stack # <<>>
  /\ \/ /\ made.pages < MaxTasks
        /\ made' = [made EXCEPT !.pages = @ + 1] /\ pages' = pages + 1
        /\ UNCHANGED loads
     \/ /\ made.loads < MaxLoads
        /\ made' = [made EXCEPT !.loads = @ + 1] /\ loads' = loads + 1
        /\ UNCHANGED pages
  /\ UNCHANGED <<stack, queue, late, in_document_start, mouse_pressed, held>>

HostSteps == Return \/ HostReturns \/ RunInFrameTask \/ SendDirectly \/ Pump \/ CommitHtml
             \/ HostCallsIn
PageSteps == WindowObjectReady \/ NobodyListens \/ StartEnds \/ Dispatch \/ BodyEnds \/ TaskEnds
LoopSteps == RunBody \/ RunQuit \/ RunPageTask \/ RunLoadTask \/ LoopReturns \/ PumpReturns
Next == HostSteps \/ PageSteps \/ LoopSteps \/ (\E id \in late : QuitFallsDue(id)) \/ TaskIsReady

Spec == Init /\ [][Next]_vars

------------------------------------------------------------------------------
(* Types.  Whatever a run of events presses comes up in it again, but for  *)
(* the button that the host presses itself.                                *)
Events == {"script", "frame", "click down", "click up", "menu down", "menu up", "mouse down",
           "mouse up", "move", "other down", "other up", "key down", "char", "raw key", "key up",
           "compose", "commit text", "finger down", "finger move", "finger up", "tap", "wheel"}

ComesUp(s) ==
  \A k \in DOMAIN s, m \in DOMAIN Ups :
    s[k] \in Downs[m] /\ s[k] # "mouse down" => \E l \in DOMAIN s : k < l /\ s[l] \in Ups[m]

Runs   == {s \in Seq(Events) : ComesUp(s)}
Steps  == [how : {"task", "settle", "direct", "pump", "commit"}, events : Runs]
Frames == [at : {"host", "pump", "task", "load"}]
          \cup [at : {"init", "start"}, view : Views]
          \cup [at : {"call"}, view : Views, steps : Seq(Steps)]
          \cup [at : {"body"}, how : {"task", "inline", "direct"}, events : Runs]
          \cup [at : {"loop"}, quit : BOOLEAN, idle : BOOLEAN]
Tasks  == [what : {"body", "quit", "idle"}, loop : Nat, events : Runs]

TypeOK ==
  /\ stack \in Seq(Frames) /\ queue \in Seq(Tasks) /\ late \subseteq Nat
  /\ pages \in Nat /\ loads \in Nat /\ made \in [calls : Nat, pages : Nat, loads : Nat]
  /\ in_document_start \in [Views -> BOOLEAN]
  /\ mouse_pressed \in BOOLEAN /\ held \subseteq DOMAIN Ups

------------------------------------------------------------------------------
(* Properties.                                                             *)

(* The body of a call writes into variables of the caller: neither it nor  *)
(* a quit waits in the queue when the loop that is to see it has returned. *)
BodiesHaveTheirCaller ==
  \A i \in DOMAIN queue : queue[i].loop \in On({"loop"})

(* Whoever runs the tasks, every loop has a quit that is sure to come: no  *)
(* page keeps a call of the host from returning.                           *)
EveryLoopWillQuit ==
  \A i \in On({"loop"}) :
    \/ stack[i].quit \/ i \in late
    \/ \E k \in DOMAIN queue : queue[k].what = "quit" /\ queue[k].loop = i

(* No load goes on while the host prepares the window of a document: the   *)
(* callback may run scripts, and these may call it back.                   *)
NothingLoadsMidCommit ==
  \A i \in On({"start"}), j \in On({"load"}) : j < i

(* However calls nest, nothing the host did not press itself is held down  *)
(* when all is done.                                                       *)
NothingStaysHeld ==
  stack = <<>> => held \subseteq (IF mouse_pressed THEN {"mouse"} ELSE {})

CallsAreSound ==
  /\ BodiesHaveTheirCaller /\ EveryLoopWillQuit
  /\ NothingLoadsMidCommit /\ NothingStaysHeld
=============================================================================
