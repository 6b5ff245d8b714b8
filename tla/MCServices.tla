------------------------------ MODULE MCServices ------------------------------
(***************************************************************************)
(* Instances of ScriptWatchdog, WebSocket, Downloads, DevToolsServer and   *)
(* AudioPlayer for TLC: what threads and tasks of their own do for a view. *)
(* They keep different state and are explored side by side: `which' says   *)
(* whose behaviours these are, and the variables of the others stay as     *)
(* they are.                                                               *)
(***************************************************************************)
EXTENDS ScriptWatchdog

CONSTANTS
  MaxDownloads, MaxChunks, MaxSinkChanges,                                 \* of Downloads
  Clients, Addresses, Host, None, MaxViews, MaxStops, MaxFrames,           \* of DevToolsServer
  Clips, Rates, NoFrame, MaxSeeks, MaxCalls                                \* of AudioPlayer

ASSUME ServicesAssumption ==
  /\ MaxDownloads \in Nat /\ MaxChunks \in Nat
  /\ None \notin Clients \cup {Host} /\ Host \notin Clients
  /\ MaxViews \in Nat
  /\ Rates \subseteq Nat /\ \A clip \in Clips : clip.duration \in Nat

VARIABLES which,
  mode, page, sent, written, closing, heard, calls, told, inPipe, socket, receiving,
  announced, read, framed, queued, unwritten, posted, worker, outgoing, current, clean,
  close_sent, stop, stalled, server, received, replied, transmitted,
  alive, sink, changes, next, downloads, stops, streams, bodies, body, host_heard,
  listening, halts, acceptor, conns, thread, fd, closed, writer, target, engine, asked,
  view, views, devtools, client, wire, frames, strays, lost,
  network, ready, has_media, duration, pending_packets, decode_idx, decoding, pictures,
  current_frame, anchor_media, elapsed, rate, paused, ended, seeking, timer, seeks, player,
  position, presses

socketVars ==
  <<mode, page, sent, written, closing, heard, calls, told, inPipe, socket, receiving,
    announced, read, framed, queued, unwritten, posted, worker, outgoing, current, clean,
    close_sent, stop, stalled, server, received, replied, transmitted>>

downloadVars == <<alive, sink, changes, next, downloads, stops, streams, bodies, body,
                  host_heard>>

devToolsVars ==
  <<listening, halts, acceptor, conns, thread, fd, closed, writer, target, engine, asked,
    view, views, devtools, client, wire, frames, strays, lost>>

playerVars ==
  <<network, ready, has_media, duration, pending_packets, decode_idx, decoding, pictures,
    current_frame, anchor_media, elapsed, rate, paused, ended, seeking, timer, seeks, player,
    position, presses>>

restOfSocket == <<vars, downloadVars, devToolsVars, playerVars, which>>
restOfView == <<vars, socketVars, devToolsVars, playerVars, which>>
restOfEndpoint == <<vars, socketVars, downloadVars, playerVars, which>>
restOfPlayer == <<vars, socketVars, downloadVars, devToolsVars, which>>
restOfWatchdog == <<socketVars, downloadVars, devToolsVars, playerVars, which>>

(* Two messages each way, one of them empty, echoed or real; the server    *)
(* may close, reset or err.                                                *)
Socket == INSTANCE WebSocket WITH
  Lengths <- <<2, 0>>, Modes <- {"loopback", "real"}, PipeSize <- 1,
  Scripts <- {<<"part", "message", "control", "message", "close">>,
              <<"message", "reset">>, <<"part", "invalid">>, <<>>}

View == INSTANCE Downloads WITH heard <- host_heard, tasks <- bodies, running <- body

Endpoint == INSTANCE DevToolsServer WITH
  running <- listening, stops <- halts, main <- engine, posted <- asked

(* A video whose frames come out of their order, a sound, a lone picture.  *)
FewClips == {[duration |-> 3, packets |-> <<0, 2, 1>>], [duration |-> 2, packets |-> <<>>],
             [duration |-> 0, packets |-> <<1>>]}
NoPicture == -1

Player == INSTANCE AudioPlayer WITH frames <- pictures, alive <- player, calls <- presses

SumInit ==
  /\ which \in {"watchdog", "socket", "view", "endpoint", "player"}
  /\ Init /\ Socket!Init /\ View!Init /\ Endpoint!Init /\ Player!Init
  /\ which # "socket" => mode = "loopback" /\ server = <<>>
  /\ which # "watchdog" => timeout = 0

SumNext ==
  \/ which = "watchdog" /\ Next /\ UNCHANGED restOfWatchdog
  \/ which = "socket" /\ Socket!Next /\ UNCHANGED restOfSocket
  \/ which = "view" /\ View!Next /\ UNCHANGED restOfView
  \/ which = "endpoint" /\ Endpoint!Next /\ UNCHANGED restOfEndpoint
  \/ which = "player" /\ Player!Next /\ UNCHANGED restOfPlayer

SumVars == <<vars, socketVars, downloadVars, devToolsVars, playerVars, which>>

SumSpec ==
  /\ SumInit /\ [][SumNext]_SumVars
  /\ WF_vars(which = "watchdog" /\ Tick)
  /\ WF_vars(which = "watchdog" /\ Monitor)
  /\ WF_vars(which = "watchdog" /\ ScriptIsTerminated)
  /\ WF_socketVars(which = "socket" /\ Socket!Service)
  /\ WF_socketVars(which = "socket" /\ Socket!ThreadMain)
  /\ WF_socketVars(which = "socket" /\ Socket!Hear)
  /\ WF_downloadVars(which = "view" /\ View!MainThread)
  /\ WF_downloadVars(which = "view" /\ View!RunStopped)
  /\ WF_devToolsVars(which = "endpoint" /\ Endpoint!EngineThread)
  /\ WF_devToolsVars(which = "endpoint" /\ \E c \in Clients : Endpoint!Thread(c))
  /\ WF_devToolsVars(which = "endpoint" /\ Endpoint!AcceptLoopEnds)
  /\ WF_playerVars(which = "player" /\ Player!Decodes)

(* Whatever is queued where between the threads of a socket, nothing       *)
(* changes places, is doubled or is told after its time; and what the host *)
(* hears of a download is in order, and nothing after its end; no socket   *)
(* of a DevTools client is used after it was closed, and a client's        *)
(* session is its own; and the clock of a player and its picture are where *)
(* the clip is.                                                            *)
ServicesAreOrderly ==
  /\ which = "socket" => Socket!SocketsAreOrderly
  /\ which = "view" => View!DownloadsAreOrderly
  /\ which = "endpoint" => Endpoint!DevToolsAreSound
  /\ which = "player" => Player!PlayerIsSound

(* A runaway script is stopped; a page that closes its socket hears of the *)
(* end, and its worker leaves; a download that was announced is finished;  *)
(* the thread of a DevTools client ends when the client goes or is shut    *)
(* out, and holds up the engine thread for no longer; and a clip that is   *)
(* being loaded can be played in the end.                                  *)
ServicesEnd ==
  []<>(NoRunaway /\ Socket!Ended /\ View!Finished /\ Endpoint!Settled /\ Player!Prepared)
=============================================================================
