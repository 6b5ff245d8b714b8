--------------------------------- MODULE Fetch ---------------------------------
(***************************************************************************)
(* One load over the network, hop by hop (loader/mb_url_loader.cc).  Five  *)
(* drivers follow redirects, each in its own way: FetchHttp blocks its     *)
(* caller ("sync"), NavOnHop and NavStartHop run a navigation ("nav"),     *)
(* OnHopComplete a resource of a page ("sub"), and the threads of          *)
(* MbSseStream and MbDownloadStream a stream ("sse", "download").          *)
(*                                                                         *)
(* A URL stands for its origin.  Of the headers only the credentials that  *)
(* the caller supplied are modelled, of a body only whether it is there.   *)
(* The callbacks of the host answer what they like at every hop.           *)
(***************************************************************************)
EXTENDS Integers, FiniteSets

CONSTANTS
  Web,          \* URLs of http and https
  Local,        \* URLs of other schemes
  Rewrites,     \* the rewrite table: a function on URLs
  Blocked,      \* URLs the block list matches
  HookTargets,  \* URLs a hook may move a request to
  Drivers,      \* of the five
  MaxHops       \* 20

MaxAttempts == 3      \* kMaxAttempts of FetchHttp
Urls  == Web \cup Local
NoUrl == "none"       \* an answer has no Location
BadUrl == "invalid"   \* a Location that does not parse
Here  == "relative"   \* a relative Location

ASSUME UrlsAssumption ==
  /\ Web \cap Local = {} /\ {NoUrl, BadUrl, Here} \cap Urls = {}
  /\ Rewrites \in [Urls -> Urls] /\ HookTargets \subseteq Urls
  /\ MaxHops \in Nat

Streams == {"sse", "download"}
Failed  == 0          \* the status when there was no answer
Answers ==
  [status : {200, 204, 404, 503}, empty : BOOLEAN, transient : {FALSE},
   location : {NoUrl}]
  \cup [status : {Failed}, empty : {TRUE}, transient : BOOLEAN, location : {NoUrl}]
  \cup [status : {301, 303, 307}, empty : {TRUE}, transient : {FALSE},
        location : Urls \cup {NoUrl, BadUrl, Here}]

VARIABLES
  driver,     \* which of them
  follow,     \* MbFollowRedirects()
  pc,         \* "start", "transfer", "answer", "wait", "local", "finish" or "done"
  method,     \* "GET" or "POST"
  cur,        \* URL of the hop for the transport
  visible,    \* its URL for the page
  listed,     \* the last URL the client of a resource was told of
  carried,    \* the headers that go on to the next hop hold credentials
  sending,    \* and those of this hop
  local_ok,   \* allow_local_resolution
  hop, attempt,
  answer,     \* what the transfer of the hop brought
  stop,       \* the token of MbCancelNavigation or stop_ of a stream
  decision,   \* StreamHopDecision
  result,     \* what the caller is told, and of which URL
  (* History. *)
  home,       \* where the first hop went
  moved,      \* the table or a hook moved this hop
  requests    \* what went to the network

hopVars  == <<method, cur, visible, listed, carried, sending, local_ok, hop>>
history  == <<home, moved, requests>>
vars == <<driver, follow, pc, hopVars, attempt, answer, stop, decision, result,
          history>>

Undecided == [action |-> "none", url |-> NoUrl]
NoAnswer  == [status |-> Failed, empty |-> TRUE, transient |-> FALSE,
              location |-> NoUrl]
Untold    == [outcome |-> "none", url |-> NoUrl]

------------------------------------------------------------------------------
(* Redirect targets and the policy of a hop.                               *)
MbSameOrigin(u, v) == u = v

(* ResolveRedirectTargets: where a Location leads the transport and the    *)
(* page.  An absolute URL of the backend itself is hidden from the page.   *)
ResolveRedirectTargets(location) ==
  LET to == IF location = Here THEN cur ELSE location
      hides == visible \in Web /\ cur \in Web /\ to = cur
  IN [fetch |-> to, visible |-> IF location = Here \/ hides THEN visible ELSE to]

RedirectFetchCandidate(page_url, backend) ==
  IF Rewrites[page_url] = page_url THEN backend ELSE Rewrites[page_url]

(* MbStripCredentialHeaders when a hop goes from one origin to another.    *)
Strip(has, from, to) == has /\ MbSameOrigin(from, to)

(* EvaluateRequestPolicy: rewrite, block list, the two callbacks, mocks.   *)
Block == [action |-> "block", url |-> NoUrl]

EvaluateRequestPolicy(page_url, backend) ==
  LET candidate == RedirectFetchCandidate(page_url, backend) IN
    IF candidate \in Blocked THEN {Block}
    ELSE {Block} \cup [action : {"fetch", "mock"}, url : {candidate} \cup HookTargets]

(* Mutant: a write is tried again when there was no answer.                *)
RetriedAlways(a) ==
  /\ attempt < MaxAttempts
  /\ a.transient \/ a.status = 503 \/ (a.status = 200 /\ a.empty)

(* MbShouldRetryFetch. *)
Retried(a) ==
  /\ attempt < MaxAttempts
  /\ method = "GET"
  /\ \/ a.transient \/ a.status = 503
     \/ a.status = 200 /\ a.empty

(* "303 (and POST on 301/302) becomes a bodyless GET".                     *)
NextMethod ==
  IF answer.status = 303 \/ (answer.status = 301 /\ method = "POST") THEN "GET"
  ELSE method

------------------------------------------------------------------------------
Init ==
  /\ driver \in Drivers /\ follow \in BOOLEAN
  /\ pc = "start"
  /\ method \in IF driver \in Streams THEN {"GET"} ELSE {"GET", "POST"}
  /\ visible \in IF driver \in Streams THEN Web ELSE Urls
  /\ cur = visible /\ listed = visible
  /\ carried = TRUE /\ sending = TRUE
  /\ local_ok = TRUE
  /\ hop = 0 /\ attempt = 1 /\ answer = NoAnswer
  /\ stop = FALSE /\ decision = Undecided /\ result = Untold
  /\ home = NoUrl /\ moved = FALSE /\ requests = {}

Tell(outcome, url) == result' = [outcome |-> outcome, url |-> url]

Finish(outcome, url) == pc' = "done" /\ Tell(outcome, url)

(* A navigation posts its result; a stop that comes after it is too late.  *)
Post(outcome, url) ==
  pc' = (IF driver = "nav" THEN "finish" ELSE "done") /\ Tell(outcome, url)

(* A file or data URL; a navigation has it read on another thread.         *)
ResolveLocally(url) ==
  \/ driver = "nav" /\ pc' = "local" /\ UNCHANGED result
  \/ \E outcome \in {"ok", "failed"} :
       (driver = "nav" => outcome = "failed") /\ Post(outcome, url)

(* The host moved a hop: by its rewrite table, or a hook from there.       *)
Moved(url, page_url, backend) ==
  url # backend \/ RedirectFetchCandidate(page_url, backend) # backend

(* The transport is given a hop: to a URL, with credentials or without.    *)
Transmit(url, m, creds, h) ==
  /\ pc' = "transfer" /\ attempt' = 1
  /\ cur' = url /\ sending' = creds
  /\ home' = IF home = NoUrl THEN url ELSE home
  /\ moved' = m
  /\ requests' = requests \cup
       {[url |-> url, moved |-> m, method |-> method', creds |-> creds,
         hop |-> h, attempt |-> 1]}

(* MbFetchUrl, the first NavStartHop, Deliver, and what a caller of a      *)
(* stream does before it starts one.                                       *)
StartHop ==
  /\ pc = "start" /\ ~stop
  /\ \E p \in EvaluateRequestPolicy(visible, visible) :
       \/ /\ p.action = "block"
          /\ Post("blocked", visible)
          /\ UNCHANGED <<cur, sending, attempt, history>>
       \/ /\ p.action = "mock"
          /\ Post("ok", visible)
          /\ UNCHANGED <<cur, sending, attempt, history>>
       \/ /\ p.action = "fetch" /\ p.url \in Web
          /\ method' = method
          /\ Transmit(p.url, Moved(p.url, visible, visible), carried, 0)
          /\ UNCHANGED result
       \/ /\ p.action = "fetch" /\ p.url \in Local
          /\ ResolveLocally(visible)
          /\ UNCHANGED <<cur, sending, attempt, history>>
  /\ UNCHANGED <<driver, follow, method, visible, listed, carried, local_ok, hop,
                 answer, stop, decision>>

(* One attempt of curl; a progress callback ends that of a stopped load.   *)
Perform ==
  /\ pc = "transfer"
  /\ \E a \in Answers :
       /\ answer' = a
       /\ IF driver = "sync" /\ Retried(a)
            THEN /\ attempt' = attempt + 1
                 /\ requests' = requests \cup
                      {[url |-> cur, moved |-> moved, method |-> method,
                        creds |-> sending, hop |-> hop, attempt |-> attempt + 1]}
                 /\ UNCHANGED pc
            ELSE pc' = "answer" /\ UNCHANGED <<attempt, requests>>
  /\ UNCHANGED <<driver, follow, hopVars, stop, decision, result, home, moved>>

------------------------------------------------------------------------------
(* What an answer means to a driver.                                       *)
IsRedirect ==
  /\ answer.status \in 300 .. 399 /\ answer.location # NoUrl
  /\ driver # "sub" => follow

Targets == ResolveRedirectTargets(answer.location)
Valid   == answer.location # BadUrl /\ hop < MaxHops
Follows == IsRedirect /\ Valid

(* A navigation that was cancelled ends as such whatever the answer.       *)
Cancelled ==
  /\ driver = "nav" /\ stop /\ pc \in {"start", "answer"}
  /\ Finish("cancelled", visible)
  /\ UNCHANGED <<driver, follow, hopVars, attempt, answer, stop, decision, history>>

(* The answer of the last hop.  A resource fails on a Location it cannot   *)
(* follow, a download on any answer that is not its data, and an event     *)
(* stream ends in one way only.                                            *)
Outcome ==
  IF \/ driver # "sse" /\ answer.status = Failed
     \/ driver = "sub" /\ IsRedirect
     \/ /\ driver = "download"
        /\ answer.status \notin 200 .. 299 \/ answer.empty \/ stop
  THEN "failed" ELSE "ok"

(* Mutant: the URL of the answer is the one the transport used.            *)
DeliverOfBackend ==
  /\ pc = "answer" /\ ~Follows /\ ~(driver = "nav" /\ stop)
  /\ Finish(Outcome, cur)
  /\ UNCHANGED <<driver, follow, hopVars, attempt, answer, stop, decision, history>>

Deliver ==
  /\ pc = "answer" /\ ~Follows /\ ~(driver = "nav" /\ stop)
  /\ Finish(Outcome, visible)
  /\ UNCHANGED <<driver, follow, hopVars, attempt, answer, stop, decision, history>>

Redirected(to) == visible' = to.visible /\ hop' = hop + 1

(* FetchHttp: an answer that leads out of the web is itself the result.    *)
FetchHttp ==
  /\ pc = "answer" /\ driver = "sync" /\ Follows
  /\ method' = NextMethod
  /\ LET to   == Targets
         kept == Strip(carried, cur, RedirectFetchCandidate(to.visible, to.fetch))
     IN \E p \in EvaluateRequestPolicy(to.visible, to.fetch) :
       \/ /\ p.action = "block" /\ Finish("blocked", to.visible)
          /\ UNCHANGED <<cur, visible, carried, sending, hop, attempt, history>>
       \/ /\ p.action = "mock" /\ Finish("ok", to.visible)
          /\ visible' = to.visible
          /\ UNCHANGED <<cur, carried, sending, hop, attempt, history>>
       \/ /\ p.action = "fetch" /\ p.url \in Local /\ Finish("ok", visible)
          /\ UNCHANGED <<cur, visible, carried, sending, hop, attempt, history>>
       \/ /\ p.action = "fetch" /\ p.url \in Web
          /\ Redirected(to)
          /\ carried' = Strip(kept, cur, p.url)
          /\ Transmit(p.url, Moved(p.url, to.visible, to.fetch), kept, hop + 1)
          /\ UNCHANGED result
  /\ UNCHANGED <<driver, follow, listed, local_ok, answer, stop, decision>>

(* NavOnHop and the NavStartHop it calls.                                  *)
NavOnHop ==
  /\ pc = "answer" /\ driver = "nav" /\ ~stop /\ Follows
  /\ method' = NextMethod
  /\ LET to   == Targets
         candidate == RedirectFetchCandidate(to.visible, to.fetch)
     IN /\ Redirected(to)
        /\ carried' = Strip(carried, cur, candidate)
        /\ local_ok' = (to.fetch \in Web)
        /\ \E p \in EvaluateRequestPolicy(to.visible, to.fetch) :
             \/ /\ p.action \in {"block", "mock"}
                /\ Post(IF p.action = "mock" THEN "ok" ELSE "blocked", to.visible)
                /\ cur' = to.fetch
                /\ UNCHANGED <<sending, attempt, history>>
             \/ /\ p.action = "fetch" /\ p.url \in Local
                /\ IF local_ok' THEN ResolveLocally(to.visible)
                                ELSE Post("failed", to.visible)
                /\ cur' = to.fetch
                /\ UNCHANGED <<sending, attempt, history>>
             \/ /\ p.action = "fetch" /\ p.url \in Web
                /\ Transmit(p.url, Moved(p.url, to.visible, to.fetch), carried', hop + 1)
                /\ UNCHANGED result
  /\ UNCHANGED <<driver, follow, listed, answer, stop, decision>>

NavOnLocalResolved ==
  /\ pc = "local"
  /\ \E outcome \in IF stop THEN {"cancelled"} ELSE {"ok", "failed"} :
       Finish(outcome, visible)
  /\ UNCHANGED <<driver, follow, hopVars, attempt, answer, stop, decision, history>>

NavFinish ==
  /\ pc = "finish"
  /\ pc' = "done"
  /\ UNCHANGED <<driver, follow, hopVars, attempt, answer, stop, decision, result,
                 history>>

(* OnHopComplete: the client accepts the redirect, declines or cancels.    *)
Declined ==
  /\ pc = "answer" /\ driver = "sub" /\ Follows
  /\ \E outcome \in {"failed", "cancelled"} : Finish(outcome, visible)
  /\ listed' = Targets.visible
  /\ UNCHANGED <<driver, follow, method, cur, visible, carried, sending, local_ok,
                 hop, attempt, answer, stop, decision, history>>

OnHopComplete ==
  /\ pc = "answer" /\ driver = "sub" /\ Follows
  /\ method' = NextMethod
  /\ LET to   == Targets
         kept == Strip(carried, cur, to.fetch)
     IN /\ listed' = to.visible
        /\ \E p \in EvaluateRequestPolicy(to.visible, to.fetch) :
             \/ /\ \/ p.action = "block" /\ Finish("failed", visible)
                   \/ p.action = "mock" /\ Finish("ok", to.visible)
                   \/ p.action = "fetch" /\ p.url \in Local /\ Finish("failed", visible)
                /\ UNCHANGED <<cur, visible, carried, sending, hop, attempt, history>>
             \/ /\ p.action = "fetch" /\ p.url \in Web
                /\ Redirected(to)
                /\ carried' = Strip(kept, cur, p.url)
                /\ Transmit(p.url, Moved(p.url, to.visible, to.fetch), kept, hop + 1)
                /\ UNCHANGED result
  /\ UNCHANGED <<driver, follow, local_ok, answer, stop, decision>>

------------------------------------------------------------------------------
(* The thread of a stream asks the engine thread for the policy of the     *)
(* next hop and waits, looking at stop_ every 50 ms.                       *)
WaitForStreamRedirectPolicy ==
  /\ pc = "answer" /\ driver \in Streams /\ Follows /\ ~stop
  /\ pc' = "wait" /\ decision' = Undecided
  /\ UNCHANGED <<driver, follow, hopVars, attempt, answer, stop, result, history>>

EvaluateStreamRedirectTargetOnMain ==
  /\ pc = "wait" /\ decision = Undecided
  /\ \E p \in EvaluateRequestPolicy(Targets.visible, Targets.fetch) :
       decision' = IF stop \/ p.action = "block" \/ (p.action = "fetch" /\ p.url \in Local)
                     THEN [action |-> "stop", url |-> NoUrl] ELSE p
  /\ UNCHANGED <<driver, follow, pc, hopVars, attempt, answer, stop, result, history>>

(* A decision to go on, and no stop since.                                 *)
NextHop ==
  /\ pc = "wait" /\ decision.action = "fetch" /\ ~stop
  /\ method' = method
  /\ LET to   == Targets
         kept == Strip(carried, cur, to.fetch)
     IN /\ Redirected(to)
        /\ carried' = Strip(kept, cur, decision.url)
        /\ Transmit(decision.url, Moved(decision.url, to.visible, to.fetch), kept, hop + 1)
  /\ UNCHANGED <<driver, follow, listed, local_ok, answer, stop, decision, result>>

(* Mutant: the thread keeps waiting after a target that was refused.       *)
EndStreamUnlessRefused ==
  /\ driver \in Streams
  /\ \/ pc = "wait" /\ (stop \/ decision.action = "mock")
     \/ pc = "answer" /\ Follows /\ stop
  /\ \E outcome \in {"ok", "failed"} :
       /\ outcome = "ok" => \/ driver = "sse"
                            \/ pc = "wait" /\ decision.action = "mock" /\ ~stop
       /\ outcome = "failed" => driver = "download"
       /\ Finish(outcome, IF decision.action = "mock" THEN Targets.visible ELSE visible)
  /\ UNCHANGED <<driver, follow, hopVars, attempt, answer, stop, decision, history>>

(* Anything else ends the stream; an answer of a mock is its data.         *)
EndStream ==
  /\ driver \in Streams
  /\ \/ pc = "wait" /\ (stop \/ decision.action \in {"stop", "mock"})
     \/ pc = "answer" /\ Follows /\ stop
  /\ \E outcome \in {"ok", "failed"} :
       /\ outcome = "ok" => \/ driver = "sse"
                            \/ pc = "wait" /\ decision.action = "mock" /\ ~stop
       /\ outcome = "failed" => driver = "download"
       /\ Finish(outcome, IF decision.action = "mock" THEN Targets.visible ELSE visible)
  /\ UNCHANGED <<driver, follow, hopVars, attempt, answer, stop, decision, history>>

(* MbCancelNavigation, and Stop of a stream.                               *)
Stop ==
  /\ driver \in Streams \cup {"nav"} /\ ~stop /\ pc # "done"
  /\ driver \in Streams => pc # "start"
  /\ stop' = TRUE
  /\ UNCHANGED <<driver, follow, pc, hopVars, attempt, answer, decision, result,
                 history>>

Next ==
  \/ StartHop \/ Perform \/ Cancelled \/ Deliver
  \/ FetchHttp \/ NavOnHop \/ NavOnLocalResolved \/ NavFinish \/ Declined \/ OnHopComplete
  \/ WaitForStreamRedirectPolicy \/ EvaluateStreamRedirectTargetOnMain
  \/ NextHop \/ EndStream
  \/ Stop

Spec == Init /\ [][Next]_vars

(* curl's timeouts end every transfer but that of a stream, for which only *)
(* the connection has one; its progress callback ends that once stopped.   *)
Progress ==
  \/ StartHop \/ Cancelled \/ Deliver
  \/ FetchHttp \/ NavOnHop \/ NavOnLocalResolved \/ NavFinish \/ Declined \/ OnHopComplete
  \/ WaitForStreamRedirectPolicy \/ EvaluateStreamRedirectTargetOnMain
  \/ NextHop \/ EndStream
  \/ (driver \in Streams => stop) /\ Perform

FairSpec == Spec /\ WF_vars(Progress)

------------------------------------------------------------------------------
TypeOK ==
  /\ driver \in Drivers /\ follow \in BOOLEAN
  /\ pc \in {"start", "transfer", "answer", "wait", "local", "finish", "done"}
  /\ method \in {"GET", "POST"}
  /\ {cur, visible, listed} \subseteq Urls
  /\ {carried, sending, local_ok, stop, moved} \subseteq BOOLEAN
  /\ hop \in 0 .. MaxHops /\ attempt \in 1 .. MaxAttempts
  /\ answer \in Answers
  /\ decision \in [action : {"none", "stop", "fetch", "mock"}, url : Urls \cup {NoUrl}]
  /\ result \in [outcome : {"none", "ok", "failed", "blocked", "cancelled"},
                 url : Urls \cup {NoUrl}]
  /\ home \in Urls \cup {NoUrl}
  /\ requests \subseteq
       [url : Urls, moved : BOOLEAN, method : {"GET", "POST"}, creds : BOOLEAN,
        hop : 0 .. MaxHops, attempt : 1 .. MaxAttempts]

(* Credentials that the caller gave reach, past the first hop, the origin  *)
(* of that hop and those to which the host itself moved a hop, by its      *)
(* rewrite table or a hook, and no origin that a server chose.             *)
CredentialsStayPut ==
  \A r \in requests :
    r.creds => \/ r.url = home
               \/ \E q \in requests : q.url = r.url /\ q.moved

(* A write is sent once to each place of the chain, and repeated there     *)
(* under no answer: only GETs are tried again.                             *)
WritesOnce ==
  \A r, q \in requests :
    r.hop = q.hop /\ r # q => r.method = "GET" /\ q.method = "GET"

(* No hop of any driver evades the block list, which is not asked again    *)
(* about the place that a hook moves a hop to.                             *)
BlockedIsLeftAlone == \A r \in requests : r.url \notin Blocked \ HookTargets

(* Types, and what goes to the network is what the policy of each hop      *)
(* allows.                                                                 *)
RequestsAreAllowed ==
  TypeOK /\ CredentialsStayPut /\ WritesOnce /\ BlockedIsLeftAlone

(* The URL of the answer a resource gets is the last one its client was    *)
(* told of; the client adds up the list of URLs and would refuse another.  *)
AnswerIsOfTheLastHop ==
  driver = "sub" /\ pc = "done" /\ result.outcome = "ok" => result.url = listed
=============================================================================
