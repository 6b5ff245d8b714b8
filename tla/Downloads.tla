------------------------------- MODULE Downloads -------------------------------
(***************************************************************************)
(* Streaming downloads of a view (view/mb_webview.cc): the map of running  *)
(* downloads on the main thread, the detached worker of each stream        *)
(* (MbDownloadStream of loader/mb_url_loader.cc), and the tasks that both  *)
(* post to the main thread.  The host may call the view between tasks and  *)
(* inside the callbacks that a task makes; a materialized body is          *)
(* delivered by one task that makes three callbacks, so it stops after     *)
(* each of them (variable `running').                                      *)
(***************************************************************************)
EXTENDS Naturals, Sequences, Functions

CONSTANTS
  MaxDownloads,   \* bound on the downloads that are started
  MaxChunks,      \* bound on the chunks of a streamed body
  MaxSinkChanges  \* bound on the changes of the sink

VARIABLES
  alive,      \* alive_token_: the view is there
  sink,       \* the three stream callbacks are set
  changes,    \* bound: how often the host has changed the sink
  next,       \* next_download_id_
  downloads,  \* downloads_: what is known of each download that runs
  stops,      \* the downloads whose stream has stop_ set
  streams,    \* the worker of each stream: what it has still to do
  tasks,      \* posted to the main thread
  running,    \* the task for a materialized body, between its callbacks
  heard       \* history: what the host has heard of each download

vars == <<alive, sink, changes, next, downloads, stops, streams, tasks, running, heard>>

Ids    == 1 .. MaxDownloads
NoTask == [id |-> 0, at |-> "none"]

(* What a server sends: so many chunks, then the end, or a failure; or an  *)
(* answer of 400 and above.                                                *)
Answers == [chunks : 0 .. MaxChunks, end : {"eof", "failure"}, began : {FALSE}]
             \cup [chunks : {1}, end : {"status"}, began : {FALSE}]

Unheard == [begins |-> 0, chunks |-> 0, finishes |-> 0, ok |-> FALSE,
            canceled |-> FALSE, lapsed |-> FALSE, late |-> FALSE]

Running == DOMAIN downloads

Init ==
  /\ alive = TRUE /\ sink = TRUE /\ changes = 0 /\ next = 0
  /\ downloads = <<>> /\ stops = {} /\ streams = <<>>
  /\ tasks = <<>> /\ running = NoTask
  /\ heard = [id \in Ids |-> Unheard]

------------------------------------------------------------------------------
(* What the host hears through a callback, if one is set.                  *)
Told(id, more) ==
  heard' = IF sink
             THEN [heard EXCEPT ![id] = [more EXCEPT !.late = @ \/ more.canceled
                                                              \/ more.finishes > 0]]
             ELSE [heard EXCEPT ![id].lapsed = TRUE]

OnDownloadStreamBegin(id) ==
  IF id \notin Running \/ downloads[id].canceled THEN UNCHANGED heard
  ELSE Told(id, [heard[id] EXCEPT !.begins = @ + 1])

OnDownloadStreamChunk(id) ==
  IF id \notin Running \/ downloads[id].canceled THEN UNCHANGED <<downloads, heard>>
  ELSE /\ downloads' = [downloads EXCEPT ![id].received = @ + 1]
       /\ Told(id, [heard[id] EXCEPT !.chunks = @ + 1])

Finishes(id, success) ==
  /\ downloads' = Restrict(downloads, Running \ {id})
  /\ heard' = IF sink
                THEN [heard EXCEPT ![id].finishes = @ + 1, ![id].ok = success]
                ELSE [heard EXCEPT ![id].lapsed = TRUE]

(* Mutant: a cancel that comes after the last chunk is forgotten.          *)
DoneDespiteCancel(id, success) ==
  IF id \notin Running THEN UNCHANGED <<downloads, heard>>
  ELSE Finishes(id, success)

OnDownloadStreamDone(id, success) ==
  IF id \notin Running THEN UNCHANGED <<downloads, heard>>
  ELSE Finishes(id, success /\ ~downloads[id].canceled)

------------------------------------------------------------------------------
(* The host, and the page behind it.                                       *)
NewDownload(id) ==
  /\ next < MaxDownloads /\ id = next + 1
  /\ next' = id
  /\ downloads' = [i \in Running \cup {id} |->
                     IF i = id THEN [received |-> 0, canceled |-> FALSE]
                     ELSE downloads[i]]
  /\ heard' = [heard EXCEPT ![id].lapsed = ~sink]

(* StartDownloadStream of an http(s) URL that nothing blocks or mocks.     *)
StartDownloadStream ==
  /\ alive /\ sink
  /\ \E id \in Ids, answer \in Answers :
       /\ NewDownload(id)
       /\ streams' = [i \in DOMAIN streams \cup {id} |->
                        IF i = id THEN answer ELSE streams[i]]
  /\ UNCHANGED <<alive, sink, changes, stops, tasks, running>>

(* StartDownloadStream of a mock, data: or file: URL, OnPageDownload of a  *)
(* Blob, a navigation that turns out to be a download.                     *)
PostSynthesizedDownload ==
  /\ alive /\ sink
  /\ \E id \in Ids :
       /\ NewDownload(id)
       /\ tasks' = Append(tasks, [id |-> id, do |-> "body"])
  /\ UNCHANGED <<alive, sink, changes, stops, streams, running>>

(* The body of a local URL cannot be had: the id is spent.                 *)
StartFails ==
  /\ alive /\ sink /\ next < MaxDownloads
  /\ next' = next + 1
  /\ UNCHANGED <<alive, sink, changes, downloads, stops, streams, tasks, running, heard>>

(* Mutant: the entry goes at once, and done finds none.                    *)
CancelAndErase(id) ==
  /\ downloads' = Restrict(downloads, Running \ {id})
  /\ stops' = stops \cup ({id} \cap DOMAIN streams)

Cancels(id) ==
  /\ downloads' = [downloads EXCEPT ![id].canceled = TRUE]
  /\ stops' = stops \cup ({id} \cap DOMAIN streams)

CancelDownload ==
  /\ alive
  /\ \E id \in Running :
       /\ ~downloads[id].canceled
       /\ Cancels(id)
       /\ heard' = [heard EXCEPT ![id].canceled = TRUE]
  /\ UNCHANGED <<alive, sink, changes, next, streams, tasks, running>>

SetDownloadStreamCallbacks ==
  /\ alive /\ changes < MaxSinkChanges
  /\ changes' = changes + 1 /\ sink' = ~sink
  /\ UNCHANGED <<alive, next, downloads, stops, streams, tasks, running, heard>>

(* ~MbWebView: not from inside a download callback of the view.  What was  *)
(* heard is forgotten: nothing is heard of a view that is gone.            *)
DestroyView ==
  /\ alive /\ running = NoTask
  /\ alive' = FALSE /\ downloads' = <<>>
  /\ stops' = stops \cup (Running \cap DOMAIN streams)
  /\ heard' = [id \in Ids |-> Unheard]
  /\ UNCHANGED <<sink, changes, next, streams, tasks, running>>

------------------------------------------------------------------------------
(* The worker of a stream.  Its entry goes when it has posted done, and    *)
(* with it its stop_.                                                      *)
Aborts(id) == id \in stops

Done(id, ok) ==
  /\ streams' = Restrict(streams, DOMAIN streams \ {id})
  /\ stops' = stops \ {id}
  /\ tasks' = Append(tasks, [id |-> id, do |-> "done", ok |-> ok])

(* WriteThunk: begin is posted with the first chunk.                       *)
WriteThunk(id) ==
  /\ ~Aborts(id)
  /\ streams[id].chunks > 0 /\ streams[id].end # "status"
  /\ streams' = [streams EXCEPT ![id].chunks = @ - 1, ![id].began = TRUE]
  /\ tasks' = tasks \o (IF streams[id].began THEN <<>> ELSE <<[id |-> id, do |-> "begin"]>>)
                    \o <<[id |-> id, do |-> "chunk"]>>
  /\ UNCHANGED stops

(* The transfer is over, or stopped by WriteThunk or XferThunk; a stop     *)
(* after its end still counts.                                             *)
Ends(id) ==
  /\ Aborts(id) \/ streams[id].chunks = 0 \/ streams[id].end = "status"
  /\ Done(id, streams[id].end = "eof" /\ streams[id].began /\ ~Aborts(id))

Run ==
  /\ \E id \in DOMAIN streams : WriteThunk(id) \/ Ends(id)
  /\ UNCHANGED <<alive, sink, changes, next, downloads, running, heard>>

(* What a worker does whatever its server does: XferThunk sees the stop.   *)
RunStopped ==
  /\ \E id \in stops : Ends(id)
  /\ UNCHANGED <<alive, sink, changes, next, downloads, running, heard>>

------------------------------------------------------------------------------
(* The main thread.                                                        *)
Task(do) == running = NoTask /\ tasks # <<>> /\ Head(tasks).do = do

RunBegin ==
  /\ Task("begin")
  /\ tasks' = Tail(tasks)
  /\ OnDownloadStreamBegin(Head(tasks).id)
  /\ UNCHANGED <<alive, sink, changes, next, downloads, stops, streams, running>>

RunChunk ==
  /\ Task("chunk")
  /\ tasks' = Tail(tasks)
  /\ OnDownloadStreamChunk(Head(tasks).id)
  /\ UNCHANGED <<alive, sink, changes, next, stops, streams, running>>

RunDone ==
  /\ Task("done")
  /\ tasks' = Tail(tasks)
  /\ OnDownloadStreamDone(Head(tasks).id, Head(tasks).ok)
  /\ UNCHANGED <<alive, sink, changes, next, stops, streams, running>>

(* The task of PostSynthesizedDownload, up to and from each callback.      *)
BodyBegins ==
  /\ Task("body")
  /\ tasks' = Tail(tasks)
  /\ IF alive THEN /\ running' = [id |-> Head(tasks).id, at |-> "begun"]
                   /\ OnDownloadStreamBegin(Head(tasks).id)
              ELSE UNCHANGED <<running, heard>>
  /\ UNCHANGED <<alive, sink, changes, next, downloads, stops, streams>>

BodyDelivered ==
  /\ running.at = "begun"
  /\ running' = IF running.id \in Running THEN [running EXCEPT !.at = "delivered"]
                                          ELSE NoTask
  /\ OnDownloadStreamChunk(running.id)
  /\ UNCHANGED <<alive, sink, changes, next, stops, streams, tasks>>

BodyDone ==
  /\ running.at = "delivered"
  /\ running' = NoTask
  /\ OnDownloadStreamDone(running.id, TRUE)
  /\ UNCHANGED <<alive, sink, changes, next, stops, streams, tasks>>

MainThread == RunBegin \/ RunChunk \/ RunDone \/ BodyBegins \/ BodyDelivered \/ BodyDone

Next ==
  \/ StartDownloadStream \/ PostSynthesizedDownload \/ StartFails
  \/ CancelDownload \/ SetDownloadStreamCallbacks \/ DestroyView
  \/ Run \/ MainThread

Spec == Init /\ [][Next]_vars

(* The main thread runs its tasks (mbUpdate) and a transfer that was       *)
(* stopped ends; a server may keep any other open, which has no timeout.   *)
Fairness == WF_vars(MainThread) /\ WF_vars(RunStopped)

FairSpec == Spec /\ Fairness

------------------------------------------------------------------------------
(* "begin -> data... -> finish(id, success) exactly once": nothing is      *)
(* heard of a download after its finish, no data before its begin, and of  *)
(* one that was canceled no more than its failure.  A host that had no     *)
(* sink for a while has missed what came then.                             *)
DownloadsAreOrderly ==
  \A id \in Ids : LET h == heard[id] IN
    /\ ~alive => h = Unheard
    /\ h.begins <= 1 /\ h.finishes <= 1 /\ ~h.late
    /\ h.chunks > 0 /\ ~h.lapsed => h.begins = 1
    /\ h.ok => ~h.canceled
    /\ h.finishes > 0 => id \notin Running
    /\ id \in Running /\ ~h.lapsed => h.chunks = downloads[id].received

(* The server of a stream has not ended it, nor has anybody stopped it.    *)
Streaming(id) == id \in DOMAIN streams \ stops

(* Every download that ran or was heard of comes to its finish, once its   *)
(* server ended it or it was canceled, unless the view goes or the host    *)
(* had no sink to hear of it.                                              *)
Finished ==
  \A id \in Ids : LET h == heard[id] IN
    (id \in Running \/ h.canceled \/ h.begins > 0) /\ ~Streaming(id)
      => h.finishes = 1 \/ h.lapsed \/ ~sink \/ ~alive

DownloadsFinish == []<>Finished

(* "success=0 on HTTP >= 400, transport failure, or mbCancelDownload": but *)
(* an empty body never begins.                                             *)
FailsForAReason ==
  [][\A id \in DOMAIN streams :
       id \notin DOMAIN streams' /\ streams[id].end = "eof" /\ id \notin stops
         => tasks'[Len(tasks')].ok]_vars
=============================================================================
