------------------------------- MODULE WebSocket -------------------------------
(***************************************************************************)
(* One WebSocket of a page (frame/mb_websocket.cc): the page, MbWebSocket  *)
(* on the service thread, and the worker thread of CurlWsTransport with    *)
(* the server at its other end.  Loopback sockets echo and have no worker. *)
(*                                                                         *)
(* Page and socket share two message pipes and two data pipes, between     *)
(* which nothing is ordered.  The n-th message of either side is n, and    *)
(* the bytes in a pipe are counted: what was written to it in all less     *)
(* what was read from it in all.  A call of Send or Close under mu_ and    *)
(* the handler that makes it are one step.                                 *)
(***************************************************************************)
EXTENDS Integers, Sequences, SequencesExt, FiniteSetsExt

CONSTANTS
  Lengths,   \* the messages the page may send: their lengths in order
  Scripts,   \* what the server may send: sequences of ServerFrames
  Modes,     \* some of "loopback" and "real"
  PipeSize   \* capacity of a data pipe

ServerFrames == {"part", "message", "control", "invalid", "close", "reset"}

VARIABLES
  mode,
  (* The page. *)
  page,        \* "connecting", "open" or "gone"
  sent,        \* messages it has announced
  written,     \* bytes it has written
  closing,     \* it has started the closing handshake
  heard,       \* how much of `told' it has handled
  (* Between page and socket. *)
  calls,       \* calls of the WebSocket interface on their way
  told,        \* what the socket has called on its clients, in order
  inPipe,      \* bytes the page has yet to read
  (* MbWebSocket. *)
  socket,      \* "connecting" (it has pending_establish_), "open" or "gone"
  receiving,   \* receiving_
  announced,   \* announcements taken, framed or in pending_
  read,        \* bytes read, framed or in in_buffer_
  framed,      \* messages framed and dispatched
  queued,      \* queued_
  unwritten,   \* bytes in write_buffer_ after write_pos_
  posted,      \* tasks the worker has posted
  (* CurlWsTransport. *)
  worker,      \* where its thread is
  outgoing,    \* outgoing_
  current,     \* what it is sending
  clean, close_sent, stop,
  stalled,     \* the peer neither answers nor reads
  server,      \* the frames the server sends
  received,    \* how many of them the worker has received
  replied,     \* messages received
  transmitted  \* history: what has gone to the server, in order

pageVars   == <<page, sent, written, closing, heard>>
socketVars == <<socket, receiving, announced, read, framed, queued, unwritten>>
workerVars ==
  <<worker, current, clean, close_sent, received, replied, transmitted, stalled>>
vars == <<mode, server, pageVars, calls, told, inPipe, socketVars, posted, workerVars,
          outgoing, stop>>

Messages  == 1 .. Len(Lengths)
CLOSE     == 0          \* a CLOSE frame among messages
Frame(n)  == [call |-> "OnDataFrame", message |-> n]
Drop(c)   == [call |-> "OnDropChannel", clean |-> c]
Told(c)   == [call |-> c]
Upto(n)   == FoldSeq(LAMBDA l, s : l + s, 0, SubSeq(Lengths, 1, n))

Init ==
  /\ mode \in Modes
  /\ page = "connecting" /\ sent = 0 /\ written = 0 /\ closing = FALSE /\ heard = 0
  /\ calls = <<>> /\ inPipe = 0
  /\ told = IF mode = "loopback" THEN <<Told("OnConnectionEstablished")>> ELSE <<>>
  /\ socket = IF mode = "loopback" THEN "open" ELSE "connecting"
  /\ receiving = FALSE
  /\ announced = 0 /\ read = 0 /\ framed = 0
  /\ queued = <<>> /\ unwritten = 0 /\ posted = <<>>
  /\ worker = IF mode = "loopback" THEN "done" ELSE "handshake"
  /\ outgoing = <<>> /\ current = 0
  /\ clean = FALSE /\ close_sent = FALSE /\ stop = FALSE /\ stalled = FALSE
  /\ server \in Scripts /\ received = 0 /\ replied = 0 /\ transmitted = <<>>

------------------------------------------------------------------------------
(* The page.  Blink announces a message, writes its bytes as the pipe      *)
(* takes them, and goes on to the next, or to close(), after that.         *)
Hear ==
  /\ page # "gone" /\ heard < Len(told)
  /\ heard' = heard + 1
  /\ LET c == told[heard + 1].call IN
       /\ page' = CASE c = "OnConnectionEstablished" -> "open"
                    [] c \in {"OnFailure", "OnDropChannel"} -> "gone"
                    [] OTHER -> page
       /\ calls' = IF c = "OnConnectionEstablished"
                     THEN Append(calls, "StartReceiving") ELSE calls
  /\ UNCHANGED <<mode, server, sent, written, closing, told, inPipe, socketVars, posted,
                 workerVars, outgoing, stop>>

Idle == page = "open" /\ ~closing /\ written = Upto(sent)

Send ==
  /\ Idle /\ sent < Len(Lengths)
  /\ sent' = sent + 1
  /\ calls' = Append(calls, "SendMessage")
  /\ UNCHANGED <<mode, server, page, written, closing, heard, told, inPipe, socketVars,
                 posted, workerVars, outgoing, stop>>

WriteByte ==
  /\ page = "open" /\ written < Upto(sent) /\ written - read < PipeSize
  /\ written' = written + 1
  /\ UNCHANGED <<mode, server, page, sent, closing, heard, calls, told, inPipe,
                 socketVars, posted, workerVars, outgoing, stop>>

ReadByte ==
  /\ page = "open" /\ inPipe > 0
  /\ inPipe' = inPipe - 1
  /\ UNCHANGED <<mode, server, pageVars, calls, told, socketVars, posted, workerVars,
                 outgoing, stop>>

CloseSocket ==
  /\ Idle
  /\ closing' = TRUE
  /\ calls' = Append(calls, "StartClosingHandshake")
  /\ UNCHANGED <<mode, server, page, sent, written, heard, told, inPipe, socketVars,
                 posted, workerVars, outgoing, stop>>

Leave ==
  /\ page # "gone"
  /\ page' = "gone"
  /\ UNCHANGED <<mode, server, sent, written, closing, heard, calls, told, inPipe,
                 socketVars, posted, workerVars, outgoing, stop>>

------------------------------------------------------------------------------
(* The service thread: MbWebSocket.                                        *)
Smaller(m, n) == IF m < n THEN m ELSE n

InLength(n) == IF mode = "loopback" THEN Lengths[n] ELSE 1

(* DrainIncoming with b bytes to write.                                    *)
DrainIncoming(b) ==
  LET w == Smaller(b, PipeSize - inPipe) IN
    inPipe' = inPipe + w /\ unwritten' = b - w

(* DeliverToPage of messages ms, one after the other, when receiving.      *)
Deliver(ms) ==
  /\ told' = told \o [i \in DOMAIN ms |-> Frame(ms[i])]
  /\ DrainIncoming(unwritten + FoldSeq(LAMBDA n, s : InLength(n) + s, 0, ms))

(* Mutant: a message is delivered whether the page receives or not.        *)
DeliverAtOnce(ms) == Deliver(ms) /\ UNCHANGED queued

DeliverToPage(ms) ==
  IF receiving THEN Deliver(ms) /\ UNCHANGED queued
  ELSE queued' = queued \o ms /\ UNCHANGED <<told, inPipe, unwritten>>

(* OnOutgoingReadable: read all there is, frame what is announced and      *)
(* complete, echo it or hand it to the worker.                             *)
Framed == Max({n \in framed .. announced : Upto(n) <= written})

Dispatch(ms) ==
  IF mode = "real"
    THEN /\ outgoing' = outgoing \o ms
         /\ UNCHANGED <<queued, told, inPipe, unwritten>>
    ELSE DeliverToPage(ms) /\ UNCHANGED outgoing

OnOutgoingReadable ==
  /\ socket # "gone" /\ read < written
  /\ read' = written
  /\ framed' = Framed
  /\ Dispatch([i \in 1 .. Framed - framed |-> framed + i])
  /\ UNCHANGED <<mode, server, pageVars, calls, socket, receiving, announced, posted,
                 workerVars, stop>>

Call(c) ==
  /\ socket # "gone" /\ calls # <<>> /\ Head(calls) = c
  /\ calls' = Tail(calls)

(* The watcher is armed again; it fires when there are bytes to read.      *)
SendMessage ==
  /\ Call("SendMessage")
  /\ announced' = announced + 1
  /\ UNCHANGED <<mode, server, pageVars, told, inPipe, socket, receiving, read, framed,
                 queued, unwritten, posted, workerVars, outgoing, stop>>

StartReceiving ==
  /\ Call("StartReceiving")
  /\ receiving' = TRUE
  /\ Deliver(queued)
  /\ queued' = <<>>
  /\ UNCHANGED <<mode, server, pageVars, socket, announced, read, framed, posted,
                 workerVars, outgoing, stop>>

StartClosingHandshake ==
  /\ Call("StartClosingHandshake")
  /\ IF mode = "real" THEN outgoing' = Append(outgoing, CLOSE) /\ UNCHANGED told
                      ELSE told' = Append(told, Drop(TRUE)) /\ UNCHANGED outgoing
  /\ UNCHANGED <<mode, server, pageVars, inPipe, socketVars, posted, workerVars, stop>>

(* The watcher of the readable pipe fires.                                 *)
OnIncomingWritable ==
  /\ socket # "gone" /\ unwritten > 0 /\ inPipe < PipeSize
  /\ DrainIncoming(unwritten)
  /\ UNCHANGED <<mode, server, pageVars, calls, told, socket, receiving, announced, read,
                 framed, queued, posted, workerVars, outgoing, stop>>

(* Mutant: the destructor leaves the transport to itself.                  *)
OnGoneUnstopped ==
  /\ socket = "open" /\ page = "gone" /\ calls = <<>>
  /\ socket' = "gone"
  /\ UNCHANGED <<mode, server, pageVars, calls, told, inPipe, receiving, announced, read,
                 framed, queued, unwritten, posted, workerVars, outgoing, stop>>

(* The page's end is closed: a socket that is connecting holds it itself.  *)
OnGone ==
  /\ socket = "open" /\ page = "gone" /\ calls = <<>>
  /\ socket' = "gone" /\ stop' = TRUE
  /\ UNCHANGED <<mode, server, pageVars, calls, told, inPipe, receiving, announced, read,
                 framed, queued, unwritten, posted, workerVars, outgoing>>

Task(t) ==
  /\ posted # <<>> /\ Head(posted).task = t
  /\ posted' = Tail(posted)

OnTransportConnected ==
  /\ Task("connected") /\ socket = "connecting"
  /\ LET ok == Head(posted).ok IN
       /\ told' = Append(told, Told(IF ok THEN "OnConnectionEstablished" ELSE "OnFailure"))
       /\ socket' = IF ok THEN "open" ELSE "gone"
       /\ stop' = (stop \/ ~ok)
  /\ UNCHANGED <<mode, server, pageVars, calls, inPipe, receiving, announced, read, framed,
                 queued, unwritten, workerVars, outgoing>>

OnTransportMessage ==
  /\ Task("message") /\ socket = "open"
  /\ DeliverToPage(<<Head(posted).message>>)
  /\ UNCHANGED <<mode, server, pageVars, calls, socket, receiving, announced, read, framed,
                 workerVars, outgoing, stop>>

OnTransportClosed ==
  /\ Task("closed") /\ socket = "open"
  /\ told' = Append(told, Drop(Head(posted).clean))
  /\ UNCHANGED <<mode, server, pageVars, calls, inPipe, socketVars, workerVars, outgoing,
                 stop>>

(* A task that is bound to a socket which is gone does nothing.            *)
Discard ==
  /\ posted # <<>> /\ socket = "gone"
  /\ posted' = Tail(posted)
  /\ UNCHANGED <<mode, server, pageVars, calls, told, inPipe, socketVars, workerVars,
                 outgoing, stop>>

------------------------------------------------------------------------------
(* The worker thread: CurlWsTransport::ThreadMain.                         *)
others == <<mode, server, pageVars, calls, told, inPipe, socketVars, stop, stalled>>

(* The peer takes the connection and answers nothing, or lets what it is   *)
(* sent fill the buffers; and goes on with it later, or never.  The time   *)
(* limit is for the connection alone.                                      *)
PeerStalls ==
  /\ worker \in {"handshake", "send"}
  /\ stalled' = ~stalled
  /\ UNCHANGED <<mode, server, pageVars, calls, told, inPipe, socketVars, stop, worker,
                 current, clean, close_sent, received, replied, transmitted, outgoing,
                 posted>>

Handshake ==
  /\ worker = "handshake" /\ ~stalled
  /\ \E ok \in BOOLEAN :
       /\ posted' = Append(posted, [task |-> "connected", ok |-> ok])
       /\ worker' = IF ok THEN "loop" ELSE "done"
  /\ UNCHANGED <<others, current, clean, close_sent, received, replied, transmitted,
                 outgoing>>

Loop ==
  /\ worker = "loop"
  /\ worker' = IF stop THEN "exit" ELSE "drain"
  /\ UNCHANGED <<others, current, clean, close_sent, received, replied, transmitted,
                 outgoing, posted>>

(* Mutant: the newest message is taken first.                              *)
TakeNewest ==
  /\ worker = "drain"
  /\ IF outgoing = <<>>
       THEN worker' = "receive" /\ UNCHANGED <<current, outgoing>>
       ELSE /\ worker' = "send"
            /\ current' = Last(outgoing) /\ outgoing' = Front(outgoing)
  /\ UNCHANGED <<others, clean, close_sent, received, replied, transmitted, posted>>

TakeOutgoing ==
  /\ worker = "drain"
  /\ IF outgoing = <<>>
       THEN worker' = "receive" /\ UNCHANGED <<current, outgoing>>
       ELSE /\ worker' = "send"
            /\ current' = Head(outgoing) /\ outgoing' = Tail(outgoing)
  /\ UNCHANGED <<others, clean, close_sent, received, replied, transmitted, posted>>

(* SendWholeFrame succeeds; while nothing can be sent it tries again.      *)
SendWholeFrame ==
  /\ worker = "send" /\ ~stalled
  /\ transmitted' = Append(transmitted, current)
  /\ IF current = CLOSE
       THEN clean' = TRUE /\ close_sent' = TRUE /\ worker' = "exit"
       ELSE worker' = "drain" /\ UNCHANGED <<clean, close_sent>>
  /\ UNCHANGED <<others, current, received, replied, outgoing, posted>>

(* "also the size==0 control case": for an empty message any result of     *)
(* curl_ws_send is success.                                                *)
SendNothing ==
  /\ worker = "send" /\ current \in Messages /\ Lengths[current] = 0
  /\ worker' = "drain"
  /\ UNCHANGED <<others, current, clean, close_sent, received, replied, transmitted,
                 outgoing, posted>>

(* A hard error, or stop_ is seen between two attempts.                    *)
SendFails ==
  /\ worker = "send" /\ (stop \/ ~stalled)
  /\ worker' = "exit" /\ clean' = FALSE
  /\ UNCHANGED <<others, current, close_sent, received, replied, transmitted, outgoing,
                 posted>>

(* CURLE_AGAIN.                                                            *)
ReceiveNothing ==
  /\ worker = "receive"
  /\ worker' = "loop"
  /\ UNCHANGED <<others, current, clean, close_sent, received, replied, transmitted,
                 outgoing, posted>>

(* Mutant: a reset connection is reported as closed.                       *)
ClosedByAnyone(f) == f \in {"close", "reset"}

ClosedByServer(f) == f = "close"

Receive ==
  /\ worker = "receive" /\ received < Len(server)
  /\ received' = received + 1
  /\ LET f == server[received + 1] IN
       /\ worker' = IF f \in {"close", "reset", "invalid"} THEN "exit" ELSE "loop"
       /\ clean' = ClosedByServer(f)
       /\ IF f = "message"
            THEN /\ replied' = replied + 1
                 /\ posted' = Append(posted, [task |-> "message", message |-> replied + 1])
            ELSE UNCHANGED <<replied, posted>>
  /\ UNCHANGED <<others, current, close_sent, transmitted, outgoing>>

(* A best-effort CLOSE unless one was sent, and onclose.                   *)
Exit ==
  /\ worker = "exit"
  /\ worker' = "done"
  /\ transmitted' \in {transmitted} \cup
                        IF close_sent THEN {} ELSE {Append(transmitted, CLOSE)}
  /\ posted' = Append(posted, [task |-> "closed", clean |-> clean])
  /\ UNCHANGED <<others, current, clean, close_sent, received, replied, outgoing>>

ThreadMain ==
  \/ Handshake \/ Loop \/ TakeOutgoing \/ SendWholeFrame \/ SendNothing
  \/ SendFails \/ ReceiveNothing \/ Receive \/ Exit

Service ==
  \/ OnOutgoingReadable \/ SendMessage \/ StartReceiving \/ StartClosingHandshake
  \/ OnIncomingWritable \/ OnGone
  \/ OnTransportConnected \/ OnTransportMessage \/ OnTransportClosed \/ Discard

Next ==
  \/ Hear \/ Send \/ WriteByte \/ ReadByte \/ CloseSocket \/ Leave
  \/ Service \/ ThreadMain \/ PeerStalls

Spec == Init /\ [][Next]_vars

(* Both threads run; a peer that is not stalled lets a handshake and a     *)
(* frame end; a page that is there handles what it is told.                *)
FairSpec == Spec /\ WF_vars(Service) /\ WF_vars(ThreadMain) /\ WF_vars(Hear)

------------------------------------------------------------------------------
FramesTold == SelectSeq(told, LAMBDA e : e.call = "OnDataFrame")
Drops      == SelectSeq(told, LAMBDA e : e.call = "OnDropChannel")

(* Counters keep their order, and nothing is queued for a page that is     *)
(* receiving.                                                              *)
TypeOK ==
  /\ page \in {"connecting", "open", "gone"}
  /\ socket \in {"connecting", "open", "gone"}
  /\ framed <= announced /\ announced <= sent
  /\ Upto(framed) <= read /\ read <= written /\ written <= Upto(sent)
  /\ inPipe \in 0 .. PipeSize /\ unwritten \in Nat
  /\ receiving => queued = <<>>
  /\ worker \in {"handshake", "loop", "drain", "send", "receive", "exit", "done"}
  /\ transmitted \in Seq(Messages \cup {CLOSE})

(* What reaches the server is what the page sent, in order and once; only  *)
(* an empty message may be missing from it, and nothing follows a CLOSE.   *)
SentInOrder ==
  /\ \A j \in DOMAIN transmitted : \A i \in 1 .. j - 1 :
       /\ transmitted[i] # CLOSE
       /\ transmitted[j] # CLOSE => transmitted[i] < transmitted[j]
  /\ \A j \in DOMAIN transmitted : \A m \in 1 .. transmitted[j] - 1 :
       Lengths[m] > 0 => \E i \in 1 .. j : transmitted[i] = m

(* Each message is announced to the page once, in the order in which the   *)
(* server sent it or the page did, those that came before StartReceiving   *)
(* and those after it.                                                     *)
DeliveredInOrder ==
  \A i \in DOMAIN FramesTold : FramesTold[i] = Frame(i)

(* "was_clean stays accurate": the page is told of the end of a connection *)
(* once, and of a clean one only after a CLOSE went one way or the other.  *)
ClosedOnce ==
  /\ mode = "real" => Len(Drops) <= 1
  /\ mode = "real" /\ (\E i \in DOMAIN Drops : Drops[i].clean) =>
       close_sent \/ \E i \in 1 .. received : server[i] = "close"

(* The three together: whatever is queued where, nothing changes places,  *)
(* is doubled or is told after its time.                                   *)
SocketsAreOrderly == TypeOK /\ SentInOrder /\ DeliveredInOrder /\ ClosedOnce

(* A page that closes hears of the end, and the worker of a socket that is *)
(* gone leaves; the end waits for what is sent before it, for as long as   *)
(* the peer takes nothing.                                                 *)
Ended ==
  /\ closing => page = "gone" \/ (stalled /\ worker = "send" /\ ~stop)
  /\ socket = "gone" => worker = "done"

SocketsEnd == []<>Ended

(* "then dispatch each complete message": a message that the page has      *)
(* announced and written is framed.                                        *)
CompleteMessagesAreDispatched ==
  (page = "open" /\ announced > framed /\ read = Upto(announced)) ~>
    (page = "gone" \/ framed = announced)

(* "so no early frame is lost": nothing is told after the channel dropped. *)
NothingAfterTheDrop ==
  \A i \in DOMAIN told : told[i].call = "OnDropChannel" => i = Len(told)
=============================================================================
