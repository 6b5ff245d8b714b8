---------------------------- MODULE DevToolsServer ----------------------------
(***************************************************************************)
(* The DevTools endpoint (devtools/mb_devtools_server.cc): a thread that   *)
(* accepts, a thread for each connection, and the engine thread, which     *)
(* alone touches views and their one session each (MbWebView::AttachDev-   *)
(* Tools, devtools/mb_devtools.cc).                                        *)
(*                                                                         *)
(* A connection's thread posts what it wants of a view and waits.  It      *)
(* knows the view by its address, which a later view may get.  Writes to a *)
(* client that does not read block, with the lock of its socket held.      *)
(***************************************************************************)
EXTENDS Integers, SequencesExt

CONSTANTS
  Clients,     \* connections, numbered in the order they are made
  Addresses,   \* of views
  None,
  Host,        \* the host, as the client of a session
  MaxViews,    \* bound: views ever created
  MaxStops,    \* bound: times the endpoint is stopped
  MaxFrames    \* bound: frames ever sent, each way

VARIABLES
  running,     \* running_; the listener is open
  stops,       \* times the endpoint was stopped so far
  acceptor,    \* accept_thread_
  conns,       \* conns_
  thread,      \* connection -> where its thread is
  fd,          \* connection -> its socket: open, shut or closed
  closed,      \* connection -> MbDevToolsConn::closed
  writer,      \* connection -> who holds its send_lock
  target,      \* connection -> the address of its view
  main,        \* the engine thread: idle, in SendText or in Stop
  posted,      \* its tasks, posted by connections that wait
  view,        \* address -> the view that is there, or 0
  views,       \* views created so far
  devtools,    \* address -> client of the session, or None
  client,      \* connection -> the other end: none, there, deaf or gone
  wire,        \* connection -> frames on their way to the endpoint
  frames,      \* frames sent so far, to the endpoint and from it
  lost,        \* history: connections whose session was ended by others under them
  strays       \* history: connections that hit another's session before that

serverVars == <<running, stops, acceptor, conns>>
threadVars == <<thread, fd, closed, writer, target>>
viewVars   == <<view, views, devtools>>
clientVars == <<client, wire, frames>>
history    == <<lost, strays>>
vars == <<serverVars, threadVars, main, posted, viewVars, clientVars, history>>

Idle == [at |-> "idle", to |-> None, left |-> {}]

Init ==
  /\ running = FALSE /\ acceptor = "none" /\ conns = {}
  /\ thread = [c \in Clients |-> "none"] /\ fd = [c \in Clients |-> "none"]
  /\ closed = [c \in Clients |-> FALSE] /\ writer = [c \in Clients |-> None]
  /\ target = [c \in Clients |-> None]
  /\ main = Idle /\ posted = <<>>
  /\ view = [a \in Addresses |-> 0] /\ views = 0
  /\ devtools = [a \in Addresses |-> None]
  /\ client = [c \in Clients |-> "none"]
  /\ wire = [c \in Clients |-> <<>>] /\ frames = [to |-> 0, from |-> 0]
  /\ strays = {} /\ lost = {} /\ stops = 0

Goes(c, where) == thread' = [thread EXCEPT ![c] = where]

------------------------------------------------------------------------------
(* Clients.  One that reads no more what it is sent is deaf.               *)
Connected(c) == client[c] \in {"there", "deaf"}

SendFrame(c, f) ==
  /\ Connected(c) /\ fd[c] = "open" /\ frames.to < MaxFrames
  /\ wire' = [wire EXCEPT ![c] = Append(@, f)]
  /\ frames' = [frames EXCEPT !.to = @ + 1]
  /\ UNCHANGED <<serverVars, threadVars, main, posted, viewVars, client, history>>

HangUp(c) ==
  /\ Connected(c)
  /\ client' = [client EXCEPT ![c] = "gone"]
  /\ UNCHANGED <<serverVars, threadVars, main, posted, viewVars, wire, frames, history>>

StopsReading(c) ==
  /\ client[c] = "there" /\ writer[c] # None
  /\ client' = [client EXCEPT ![c] = "deaf"]
  /\ UNCHANGED <<serverVars, threadVars, main, posted, viewVars, wire, frames, history>>

ReadsAgain(c) ==
  /\ client[c] = "deaf"
  /\ client' = [client EXCEPT ![c] = "there"]
  /\ UNCHANGED <<serverVars, threadVars, main, posted, viewVars, wire, frames, history>>

------------------------------------------------------------------------------
(* AcceptLoop.                                                             *)
Accept(c) ==
  /\ acceptor = "accept" /\ running /\ client[c] = "none"
  /\ \A d \in Clients : d < c => client[d] # "none"
  /\ client' = [client EXCEPT ![c] = "there"]
  /\ fd' = [fd EXCEPT ![c] = "open"]
  /\ Goes(c, "headers")
  /\ UNCHANGED <<serverVars, closed, writer, target, main, posted, viewVars, wire, frames,
                 history>>

(* accept() fails once Stop has closed the listener.                       *)
AcceptLoopEnds ==
  /\ acceptor = "accept" /\ ~running
  /\ acceptor' = "done"
  /\ UNCHANGED <<running, stops, conns, threadVars, main, posted, viewVars, clientVars, history>>

------------------------------------------------------------------------------
(* The thread of a connection.                                             *)
Ended(c) == fd[c] = "shut" \/ client[c] = "gone"

(* RunOnMainSync: from here until the task signals.                        *)
RunOnMainSync(c, what) == posted' = Append(posted, [by |-> c, what |-> what])

Closes(c) ==
  /\ fd' = [fd EXCEPT ![c] = "closed"]
  /\ Goes(c, "done")

(* HandleConnection.  A request for the version or the list of targets     *)
(* reads only, and closes like one that is refused.                        *)
HandleConnection(c) ==
  /\ thread[c] = "headers"
  /\ \/ /\ Ended(c) /\ Closes(c)
        /\ UNCHANGED <<posted, target>>
     \/ \E a \in Addresses :
          /\ target' = [target EXCEPT ![c] = a]
          /\ RunOnMainSync(c, "attach") /\ Goes(c, "waits")
          /\ UNCHANGED fd
  /\ UNCHANGED <<serverVars, closed, writer, main, viewVars, clientVars, history>>

Refuse(c) ==
  /\ thread[c] = "refused"
  /\ closed' = [closed EXCEPT ![c] = TRUE]
  /\ Closes(c)
  /\ UNCHANGED <<serverVars, writer, target, main, posted, viewVars, clientVars, history>>

(* conns_lock is held by Stop while it visits the connections.             *)
ConnsUnlocked == main.at # "stop"

RegisterConn(c) ==
  /\ thread[c] = "attached" /\ ConnsUnlocked
  /\ conns' = conns \cup {c}
  /\ Goes(c, "read")
  /\ UNCHANGED <<running, stops, acceptor, fd, closed, writer, target, main, posted, viewVars, clientVars, history>>

(* ReadLoop.  What makes a whole message goes to the session.     *)
ReadLoop(c) ==
  /\ thread[c] = "read"
  /\ \/ /\ wire[c] # <<>>
        /\ wire' = [wire EXCEPT ![c] = Tail(@)]
        /\ LET f == Head(wire[c]) IN
             /\ Goes(c, CASE f = "close" -> "leaves" [] f = "ping" -> "pong"
                          [] f = "message" -> "waits")
             /\ IF f = "message" THEN RunOnMainSync(c, "send") ELSE UNCHANGED posted
     \/ /\ Ended(c) /\ (fd[c] = "shut" \/ wire[c] = <<>>)
        /\ Goes(c, "leaves")
        /\ UNCHANGED <<wire, posted>>
  /\ UNCHANGED <<serverVars, fd, closed, writer, target, main, viewVars, client, frames, history>>

(* SendControl: takes send_lock, and writes unless the socket is closed.   *)
SendControl(c) ==
  /\ thread[c] = "pong" /\ writer[c] = None
  /\ IF closed[c] THEN Goes(c, "read") /\ UNCHANGED writer
     ELSE Goes(c, "writes") /\ writer' = [writer EXCEPT ![c] = c]
  /\ UNCHANGED <<serverVars, fd, closed, target, main, posted, viewVars, clientVars, history>>

(* WriteAll: done once the client has read what it is sent, or is gone;    *)
(* the lock is held until then.                                            *)
WriteAll(c) ==
  /\ client[c] # "deaf"
  /\ writer' = [writer EXCEPT ![c] = None]

ControlWritten(c) ==
  /\ thread[c] = "writes" /\ WriteAll(c)
  /\ Goes(c, "read")
  /\ UNCHANGED <<serverVars, fd, closed, target, main, posted, viewVars, clientVars, history>>

(* Mutant: the socket is closed and then taken off the list.               *)
ClosesFirst(c) ==
  /\ thread[c] = "leaves" /\ ConnsUnlocked
  /\ IF fd[c] = "closed"
     THEN conns' = conns \ {c} /\ RunOnMainSync(c, "detach") /\ Goes(c, "waits")
          /\ UNCHANGED fd
     ELSE fd' = [fd EXCEPT ![c] = "closed"] /\ UNCHANGED <<conns, posted, thread>>
  /\ UNCHANGED <<running, stops, acceptor, closed, writer, target, main, viewVars, clientVars, history>>

UnregisterConn(c) ==
  /\ thread[c] = "leaves" /\ ConnsUnlocked
  /\ conns' = conns \ {c}
  /\ RunOnMainSync(c, "detach") /\ Goes(c, "waits")
  /\ UNCHANGED <<running, stops, acceptor, fd, closed, writer, target, main, viewVars, clientVars, history>>

(* Under send_lock; the socket itself is closed after that.                *)
MarkClosed(c) ==
  /\ thread[c] = "detached" /\ writer[c] = None
  /\ closed' = [closed EXCEPT ![c] = TRUE]
  /\ Goes(c, "closes")
  /\ UNCHANGED <<serverVars, fd, writer, target, main, posted, viewVars, clientVars, history>>

SocketClose(c) ==
  /\ thread[c] = "closes" /\ Closes(c)
  /\ UNCHANGED <<serverVars, closed, writer, target, main, posted, viewVars, clientVars, history>>

Thread(c) ==
  \/ HandleConnection(c) \/ Refuse(c) \/ RegisterConn(c) \/ ReadLoop(c) \/ SendControl(c)
  \/ ControlWritten(c) \/ UnregisterConn(c) \/ MarkClosed(c) \/ SocketClose(c)

------------------------------------------------------------------------------
(* The engine thread.                                                      *)
CreateView(a) ==
  /\ main = Idle /\ view[a] = 0 /\ views < MaxViews
  /\ views' = views + 1
  /\ view' = [view EXCEPT ![a] = views + 1]
  /\ UNCHANGED <<serverVars, threadVars, main, posted, devtools, clientVars, history>>

(* A session is ended, by the host or for the client c.                    *)
EndSession(a, c) ==
  /\ devtools' = [devtools EXCEPT ![a] = None]
  /\ lost' = (lost \cup ({devtools[a]} \ {Host, None})) \ {c}

DestroyView(a) ==
  /\ main = Idle /\ view[a] # 0
  /\ view' = [view EXCEPT ![a] = 0]
  /\ EndSession(a, Host)
  /\ UNCHANGED <<serverVars, threadVars, main, posted, views, clientVars, strays>>

(* mbDevToolsAttach and mbDevToolsDetach.                                  *)
HostAttach(a) ==
  /\ main = Idle /\ view[a] # 0 /\ devtools[a] = None
  /\ devtools' = [devtools EXCEPT ![a] = Host]
  /\ UNCHANGED <<serverVars, threadVars, main, posted, view, views, clientVars, history>>

HostDetach(a) ==
  /\ main = Idle /\ devtools[a] # None
  /\ EndSession(a, Host)
  /\ UNCHANGED <<serverVars, threadVars, main, posted, view, views, clientVars, strays>>

Strays(c) ==
  strays' = IF devtools[target[c]] \in {None, c} \/ c \in lost THEN strays
            ELSE strays \cup {c}

(* Mutant: the view's session is given to whoever asks last.               *)
AttachAnyway(c) ==
  IF view[target[c]] # 0
  THEN /\ devtools' = [devtools EXCEPT ![target[c]] = c]
       /\ Goes(c, "attached")
  ELSE Goes(c, "refused") /\ UNCHANGED devtools

(* AttachDevTools: one session per view.                                   *)
AttachDevTools(c) ==
  IF view[target[c]] # 0 /\ devtools[target[c]] = None
  THEN /\ devtools' = [devtools EXCEPT ![target[c]] = c]
       /\ Goes(c, "attached")
  ELSE Goes(c, "refused") /\ UNCHANGED devtools

(* A task of a connection, which waits for it.                             *)
RunTask ==
  /\ main = Idle /\ posted # <<>>
  /\ posted' = Tail(posted)
  /\ LET c == Head(posted).by IN
       CASE Head(posted).what = "attach" ->
              AttachDevTools(c) /\ UNCHANGED history
         [] Head(posted).what = "send" ->
              Strays(c) /\ Goes(c, "read") /\ UNCHANGED <<devtools, lost>>
         [] Head(posted).what = "detach" ->
              /\ EndSession(target[c], c)
              /\ Strays(c) /\ Goes(c, "detached")
  /\ UNCHANGED <<serverVars, fd, closed, writer, target, main, view, views, clientVars>>

(* A response or notification of a session: SendText.                      *)
Forward(a) ==
  /\ main = Idle /\ devtools[a] \in Clients /\ frames.from < MaxFrames
  /\ main' = [Idle EXCEPT !.at = "send", !.to = devtools[a]]
  /\ frames' = [frames EXCEPT !.from = @ + 1]
  /\ UNCHANGED <<serverVars, threadVars, posted, viewVars, client, wire, history>>

SendText ==
  /\ main.at = "send" /\ writer[main.to] = None
  /\ IF closed[main.to] THEN main' = Idle /\ UNCHANGED writer
     ELSE main' = [main EXCEPT !.at = "writes"] /\ writer' = [writer EXCEPT ![main.to] = Host]
  /\ UNCHANGED <<serverVars, thread, fd, closed, target, posted, viewVars, clientVars, history>>

TextWritten ==
  /\ main.at = "writes" /\ WriteAll(main.to)
  /\ main' = Idle
  /\ UNCHANGED <<serverVars, thread, fd, closed, target, posted, viewVars, clientVars, history>>

Start ==
  /\ main = Idle /\ ~running /\ acceptor = "none"
  /\ running' = TRUE /\ acceptor' = "accept"
  /\ UNCHANGED <<stops, conns, threadVars, main, posted, viewVars, clientVars, history>>

(* Stop: the listener, the connections one by one, the accept thread.      *)
Stop ==
  /\ main = Idle /\ running /\ stops < MaxStops
  /\ running' = FALSE /\ stops' = stops + 1
  /\ main' = [Idle EXCEPT !.at = "stop", !.left = conns]
  /\ UNCHANGED <<acceptor, conns, threadVars, posted, viewVars, clientVars, history>>

StopConn(c) ==
  /\ main.at = "stop" /\ c \in main.left /\ writer[c] = None
  /\ main' = [main EXCEPT !.left = @ \ {c}]
  /\ closed' = [closed EXCEPT ![c] = TRUE]
  /\ fd' = [fd EXCEPT ![c] = IF @ = "open" THEN "shut" ELSE @]
  /\ UNCHANGED <<serverVars, thread, writer, target, posted, viewVars, clientVars, history>>

StopJoins ==
  /\ main.at = "stop" /\ main.left = {}
  /\ main' = [main EXCEPT !.at = "join"]
  /\ UNCHANGED <<serverVars, threadVars, posted, viewVars, clientVars, history>>

Stopped ==
  /\ main.at = "join" /\ acceptor = "done"
  /\ main' = Idle /\ acceptor' = "none"
  /\ UNCHANGED <<running, stops, conns, threadVars, posted, viewVars, clientVars, history>>

(* What the engine thread does by itself.                                  *)
EngineThread ==
  \/ RunTask
  \/ SendText \/ TextWritten \/ (\E c \in Clients : StopConn(c)) \/ StopJoins \/ Stopped

Next ==
  \/ \E c \in Clients :
       \/ HangUp(c) \/ StopsReading(c) \/ ReadsAgain(c) \/ Accept(c) \/ Thread(c)
       \/ \E f \in {"message", "ping", "close"} : SendFrame(c, f)
  \/ AcceptLoopEnds
  \/ \E a \in Addresses :
       CreateView(a) \/ DestroyView(a) \/ HostAttach(a) \/ HostDetach(a) \/ Forward(a)
  \/ Start \/ Stop
  \/ EngineThread

(* Every thread runs, and the engine thread comes to its tasks.            *)
Fairness ==
  /\ WF_vars(\E c \in Clients : Thread(c))
  /\ WF_vars(EngineThread)
  /\ WF_vars(AcceptLoopEnds)

Spec == Init /\ [][Next]_vars /\ Fairness

------------------------------------------------------------------------------
TypeOK ==
  /\ conns \subseteq Clients
  /\ \A c \in Clients : fd[c] \in {"none", "open", "shut", "closed"}
  /\ \A a \in Addresses : devtools[a] \in Clients \cup {Host, None}
  /\ \A a \in Addresses : view[a] = 0 => devtools[a] = None

(* Nobody shuts or writes a socket that its thread has closed, whose       *)
(* number may be another socket's by then.                                 *)
SocketsAreTheirOwn ==
  \A c \in Clients :
    \/ c \in conns \/ writer[c] # None
    \/ main.at = "stop" /\ c \in main.left
    => fd[c] \in {"open", "shut"}

(* A view's session goes with the client it was made for.                  *)
SessionsFollowClients ==
  \A a \in Addresses, c \in Clients :
    devtools[a] = c => thread[c] \notin {"refused", "detached", "closes", "done"}

(* A client commands and ends its own session and not that of the host or  *)
(* of another client, until its own was ended under it: by the host, with  *)
(* the view, or by a client which that had happened to before.             *)
ClientsKeepToTheirSession == strays = {}

DevToolsAreSound ==
  TypeOK /\ SocketsAreTheirOwn /\ SessionsFollowClients /\ ClientsKeepToTheirSession

(* Someone writes to a client that does not read.                          *)
Blocked == \E c \in Clients : client[c] = "deaf" /\ writer[c] # None

(* The thread of a client that has hung up or was shut out ends, and the   *)
(* engine thread is never held for good, but by a client that is sent      *)
(* something and reads no more: no timeout and no shutdown ends that.      *)
Settled ==
  \/ Blocked
  \/ /\ main = Idle
     /\ \A c \in Clients : fd[c] # "none" /\ Ended(c) => thread[c] = "done"

DevToolsSettle == []<>Settled

(* "Stop the endpoint: close all client sockets" (mb_devtools_server.h).   *)
StopClosesClients ==
  main = Idle /\ ~running => \A c \in Clients : thread[c] = "read" => fd[c] = "shut"
=============================================================================
