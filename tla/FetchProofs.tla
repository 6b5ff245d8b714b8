------------------------------ MODULE FetchProofs ------------------------------
(***************************************************************************)
(* What holds of Fetch for any URLs, rewrite table, block list, hooks and  *)
(* number of hops; of the tables of the host for any views, registrations  *)
(* and URLs; and of a save of IndexedDB for any records and Blobs.         *)
(***************************************************************************)
EXTENDS MCFetch, TLAPS

------------------------------------------------------------------------------
(* The inductive invariant.                                                *)
Flying == pc \in {"transfer", "answer", "wait"}

(* Where credentials may go: to the first hop's place, and where the host  *)
(* has moved a hop.                                                        *)
Known(u) == u = home \/ \E q \in requests : q.url = u /\ q.moved

StartInv == pc = "start" => requests = {} /\ home = NoUrl /\ hop = 0

(* The hop on its way is the last one, and the headers it has and those    *)
(* that go on from it hold credentials only if they may be where it is.    *)
HopInv ==
  Flying =>
    /\ home # NoUrl
    /\ carried \/ sending => Known(cur)
    /\ cur \notin Blocked \ HookTargets
    /\ \A r \in requests : r.hop <= hop /\ (r.hop = hop => r.method = method)

(* The answer for which a thread awaits a decision is still that of the    *)
(* hop, and the decision sends it to the web, where the policy allows.     *)
WaitInv ==
  pc = "wait" =>
    /\ Follows /\ driver \in Streams
    /\ decision.action = "fetch" => decision.url \in Web \ (Blocked \ HookTargets)

ListedInv ==
  driver = "sub" =>
    /\ pc # "done" => listed = visible
    /\ pc # "finish"

Allowed == CredentialsStayPut /\ WritesOnce /\ BlockedIsLeftAlone

Inv ==
  TypeOK /\ StartInv /\ HopInv /\ WaitInv /\ ListedInv /\ Allowed /\ AnswerIsOfTheLastHop

------------------------------------------------------------------------------
(* The helpers.                                                            *)

(* The policy sends a hop to a URL that the block list lets pass, or to    *)
(* where a hook moves it.                                                  *)
LEMMA PolicyAllows ==
  ASSUME NEW v \in Urls, NEW b \in Urls, NEW p \in EvaluateRequestPolicy(v, b)
  PROVE  /\ p.action \in {"block", "fetch", "mock"} /\ p.url \in Urls \cup {NoUrl}
         /\ p.action # "block" => p.url \in Urls /\ p.url \notin Blocked \ HookTargets
<1> DEFINE c == RedirectFetchCandidate(v, b)
<1>1. c \in Urls
  BY UrlsAssumption DEF RedirectFetchCandidate
<1> HIDE DEF c
<1>2. \/ p = Block
      \/ c \notin Blocked /\ p \in [action : {"fetch", "mock"}, url : {c} \cup HookTargets]
  BY DEF EvaluateRequestPolicy, c
<1>3. CASE p = Block
  BY <1>3 DEF Block
<1>4. CASE c \notin Blocked /\ p \in [action : {"fetch", "mock"}, url : {c} \cup HookTargets]
  BY <1>1, <1>4, UrlsAssumption
<1> QED
  BY <1>2, <1>3, <1>4

LEMMA CandidateTyped ==
  ASSUME NEW v \in Urls, NEW b \in Urls
  PROVE  RedirectFetchCandidate(v, b) \in Urls
BY UrlsAssumption DEF RedirectFetchCandidate

(* A redirect that is followed leads to URLs and leaves room for its hop.  *)
LEMMA FollowsTyped ==
  ASSUME TypeOK, Follows
  PROVE  /\ Targets.fetch \in Urls /\ Targets.visible \in Urls
         /\ hop \in Nat /\ hop + 1 \in 0 .. MaxHops /\ hop < hop + 1
         /\ NextMethod \in {"GET", "POST"}
<1>1. answer.location \in Urls \cup {Here}
  <2>1. answer \in Answers /\ answer.location # NoUrl /\ answer.location # BadUrl
    BY DEF TypeOK, Follows, IsRedirect, Valid
  <2> QED
    BY <2>1 DEF Answers
<1>2. Targets.fetch \in Urls /\ Targets.visible \in Urls
  BY <1>1 DEF Targets, ResolveRedirectTargets, TypeOK
<1>3. hop \in 0 .. MaxHops /\ hop < MaxHops /\ MaxHops \in Nat
  BY UrlsAssumption DEF TypeOK, Follows, Valid
<1>4. hop \in Nat /\ hop + 1 \in 0 .. MaxHops /\ hop < hop + 1
  BY <1>3
<1>5. NextMethod \in {"GET", "POST"}
  BY DEF NextMethod, TypeOK
<1> QED
  BY <1>2, <1>4, <1>5

------------------------------------------------------------------------------
(* A hop that is given to the transport by any of the drivers.             *)
LEMMA Sent ==
  ASSUME TypeOK, Allowed,
         NEW u \in Urls, NEW m \in BOOLEAN, NEW c \in BOOLEAN, NEW h \in 0 .. MaxHops,
         Transmit(u, m, c, h),
         method' \in {"GET", "POST"}, carried' \in BOOLEAN, hop' = h,
         home = NoUrl => requests = {},
         \A r \in requests : r.hop < h,
         u \notin Blocked \ HookTargets,
         c \/ carried' => m \/ home = NoUrl \/ Known(u)
  PROVE  /\ pc' = "transfer" /\ attempt' = 1 /\ cur' = u /\ sending' = c /\ moved' = m
         /\ home' \in Urls /\ attempt' \in 1 .. MaxAttempts
         /\ requests' \subseteq
              [url : Urls, moved : BOOLEAN, method : {"GET", "POST"}, creds : BOOLEAN,
               hop : 0 .. MaxHops, attempt : 1 .. MaxAttempts]
         /\ HopInv' /\ Allowed'
<1> DEFINE n == [url |-> u, moved |-> m, method |-> method', creds |-> c, hop |-> h,
                 attempt |-> 1]
<1>1. /\ pc' = "transfer" /\ attempt' = 1 /\ cur' = u /\ sending' = c /\ moved' = m
      /\ home' = (IF home = NoUrl THEN u ELSE home)
      /\ requests' = requests \cup {n}
  BY DEF Transmit
<1>2. /\ n.url = u /\ n.moved = m /\ n.method = method' /\ n.creds = c /\ n.hop = h
      /\ n \in [url : Urls, moved : BOOLEAN, method : {"GET", "POST"}, creds : BOOLEAN,
                hop : 0 .. MaxHops, attempt : 1 .. MaxAttempts]
  BY DEF MaxAttempts
<1> HIDE DEF n
<1>3. requests' \subseteq
        [url : Urls, moved : BOOLEAN, method : {"GET", "POST"}, creds : BOOLEAN,
         hop : 0 .. MaxHops, attempt : 1 .. MaxAttempts]
  BY <1>1, <1>2 DEF TypeOK
<1>4. home' \in Urls /\ home' # NoUrl /\ attempt' \in 1 .. MaxAttempts
  BY <1>1, UrlsAssumption DEF TypeOK, MaxAttempts
<1>5. c \/ carried' => Known(u)'
  <2> SUFFICES ASSUME c \/ carried' PROVE Known(u)'
    OBVIOUS
  <2>1. CASE m
    BY <1>1, <1>2, <2>1 DEF Known
  <2>2. CASE home = NoUrl
    BY <1>1, <2>2 DEF Known
  <2>3. CASE home # NoUrl /\ Known(u)
    BY <1>1, <2>3 DEF Known
  <2> QED
    BY <2>1, <2>2, <2>3
<1>6. \A r \in requests : r.hop \in Nat /\ r.hop <= h /\ r.hop # h
  BY DEF TypeOK
<1>7. h <= h
  OBVIOUS
<1>8. HopInv'
  <2>1. \A r \in requests' : r.hop <= h /\ (r.hop = h => r.method = method')
    BY <1>1, <1>2, <1>6, <1>7
  <2> QED
    BY <1>1, <1>4, <1>5, <2>1 DEF HopInv
<1>9. CredentialsStayPut'
  <2> SUFFICES ASSUME NEW r \in requests', r.creds PROVE Known(r.url)'
    BY DEF CredentialsStayPut, Known
  <2>1. CASE r = n
    BY <1>2, <1>5, <2>1
  <2>2. CASE r \in requests
    <3>1. Known(r.url)
      BY <2>2 DEF Allowed, CredentialsStayPut, Known
    <3> QED
      BY <1>1, <2>2, <3>1 DEF Known
  <2> QED
    BY <1>1, <2>1, <2>2
<1>10. WritesOnce'
  BY <1>1, <1>2, <1>6 DEF Allowed, WritesOnce
<1>11. BlockedIsLeftAlone'
  BY <1>1, <1>2 DEF Allowed, BlockedIsLeftAlone
<1> QED
  BY <1>1, <1>3, <1>4, <1>8, <1>9, <1>10, <1>11 DEF Allowed

(* Nothing goes out.                                                       *)
LEMMA Quiet ==
  ASSUME Allowed, UNCHANGED history
  PROVE  Allowed'
BY DEF Allowed, CredentialsStayPut, WritesOnce, BlockedIsLeftAlone, history

(* A load that ends here, or is handed on without the transport.           *)
LEMMA Landed ==
  ASSUME Inv, pc' \in {"local", "finish", "done"}, UNCHANGED history
  PROVE  StartInv' /\ HopInv' /\ WaitInv' /\ Allowed'
BY Quiet DEF Inv, StartInv, HopInv, WaitInv, Flying

(* What Post and ResolveLocally leave of a load.                           *)
LEMMA PostTyped ==
  ASSUME TypeOK, NEW url \in Urls, NEW o \in {"ok", "failed", "blocked", "cancelled"},
         Post(o, url)
  PROVE  /\ pc' \in {"finish", "done"} /\ (driver # "nav" => pc' = "done")
         /\ result' \in [outcome : {"none", "ok", "failed", "blocked", "cancelled"},
                         url : Urls \cup {NoUrl}]
         /\ result'.url = url
BY DEF Post, Tell

LEMMA LocalTyped ==
  ASSUME TypeOK, NEW url \in Urls, ResolveLocally(url)
  PROVE  /\ pc' \in {"local", "finish", "done"} /\ (driver # "nav" => pc' = "done")
         /\ result' \in [outcome : {"none", "ok", "failed", "blocked", "cancelled"},
                         url : Urls \cup {NoUrl}]
         /\ driver # "nav" => result'.url = url
<1>1. CASE driver = "nav" /\ pc' = "local" /\ UNCHANGED result
  BY <1>1 DEF TypeOK
<1>2. ASSUME NEW o \in {"ok", "failed"}, Post(o, url)
      PROVE  /\ pc' \in {"finish", "done"} /\ (driver # "nav" => pc' = "done")
             /\ result' \in [outcome : {"none", "ok", "failed", "blocked", "cancelled"},
                             url : Urls \cup {NoUrl}]
             /\ result'.url = url
  BY <1>2, PostTyped
<1> QED
  BY <1>1, <1>2 DEF ResolveLocally

LEMMA FinishTyped ==
  ASSUME NEW url \in Urls, NEW o \in {"ok", "failed", "blocked", "cancelled"},
         Finish(o, url)
  PROVE  /\ pc' = "done"
         /\ result' \in [outcome : {"none", "ok", "failed", "blocked", "cancelled"},
                         url : Urls \cup {NoUrl}]
         /\ result'.url = url /\ result'.outcome = o
BY DEF Finish, Tell

------------------------------------------------------------------------------
LEMMA InitInv == Init => Inv
<1> SUFFICES ASSUME Init PROVE Inv
  OBVIOUS
<1>1. visible \in Urls /\ cur = visible /\ listed = visible
  BY DEF Init, Urls
<1>2. NoAnswer \in Answers
  BY DEF NoAnswer, Answers
<1>3. TypeOK
  <2>1. method \in {"GET", "POST"}
    BY DEF Init
  <2>2. hop \in 0 .. MaxHops /\ attempt \in 1 .. MaxAttempts
    BY UrlsAssumption DEF Init, MaxAttempts
  <2>3. /\ decision \in [action : {"none", "stop", "fetch", "mock"}, url : Urls \cup {NoUrl}]
        /\ result \in [outcome : {"none", "ok", "failed", "blocked", "cancelled"},
                       url : Urls \cup {NoUrl}]
    BY DEF Init, Undecided, Untold
  <2>4. {cur, visible, listed} \subseteq Urls
    BY <1>1
  <2>5. /\ driver \in Drivers /\ follow \in BOOLEAN /\ pc = "start"
        /\ {carried, sending, local_ok, stop, moved} \subseteq BOOLEAN
        /\ answer = NoAnswer /\ home = NoUrl /\ requests = {}
    BY DEF Init
  <2> QED
    BY <1>2, <2>1, <2>2, <2>3, <2>4, <2>5 DEF TypeOK
<1> QED
  BY <1>1, <1>3 DEF Init, Inv, StartInv, HopInv, WaitInv, ListedInv, Flying, Allowed,
     CredentialsStayPut, WritesOnce, BlockedIsLeftAlone, AnswerIsOfTheLastHop

LEMMA StartHopInv == ASSUME Inv, StartHop PROVE Inv'
<1>1. PICK p \in EvaluateRequestPolicy(visible, visible) :
       \/ /\ p.action = "block"
          /\ Post("blocked", visible)
          /\ UNCHANGED <<cur, sending, attempt, history>>
       \/ /\ p.action = "mock"
          /\ Post("ok", visible)
          /\ UNCHANGED <<cur, sending, attempt, history>>
       \/ /\ p.action = "fetch" /\ p.url \in Web
          /\ method' = method
          /\ Transmit(p.url, Moved(p.url, visible, visible), carried, 0)
          /\ UNCHANGED result
       \/ /\ p.action = "fetch" /\ p.url \in Local
          /\ ResolveLocally(visible)
          /\ UNCHANGED <<cur, sending, attempt, history>>
  BY DEF StartHop
<1>2. /\ pc = "start" /\ hop = hop'
      /\ UNCHANGED <<driver, follow, method, visible, listed, carried, local_ok, hop,
                     answer, stop, decision>>
  BY DEF StartHop
<1>3. TypeOK /\ Allowed /\ requests = {} /\ home = NoUrl /\ visible \in Urls
  BY <1>2 DEF Inv, StartInv, TypeOK
<1>4. p.action # "block" => p.url \in Urls /\ p.url \notin Blocked \ HookTargets
  BY <1>3, PolicyAllows
<1>5. ASSUME /\ pc' \in {"local", "finish", "done"} /\ (driver # "nav" => pc' = "done")
             /\ result' \in [outcome : {"none", "ok", "failed", "blocked", "cancelled"},
                             url : Urls \cup {NoUrl}]
             /\ driver # "nav" => result'.url = visible
             /\ UNCHANGED <<cur, sending, attempt, history>>
      PROVE  Inv'
  <2>1. StartInv' /\ HopInv' /\ WaitInv' /\ Allowed'
    BY <1>5, Landed DEF history
  <2>2. TypeOK'
    BY <1>2, <1>3, <1>5 DEF TypeOK, history
  <2>3. ListedInv' /\ AnswerIsOfTheLastHop'
    BY <1>2, <1>5 DEF Inv, ListedInv, AnswerIsOfTheLastHop
  <2> QED
    BY <2>1, <2>2, <2>3 DEF Inv
<1>6. CASE p.action = "fetch" /\ p.url \in Web /\ method' = method
           /\ Transmit(p.url, Moved(p.url, visible, visible), carried, 0) /\ UNCHANGED result
  <2>1. /\ method' \in {"GET", "POST"} /\ carried' \in BOOLEAN /\ carried \in BOOLEAN
        /\ hop \in 0 .. MaxHops /\ 0 \in 0 .. MaxHops
    BY <1>2, <1>6, <1>3, UrlsAssumption DEF TypeOK
  <2>2. hop' = 0
    BY <1>2 DEF Inv, StartInv
  <2> DEFINE m == Moved(p.url, visible, visible)
  <2>3. m \in BOOLEAN
    BY DEF Moved
  <2>4. carried' = carried => (carried \/ carried' => m \/ home = NoUrl \/ Known(p.url))
    BY <1>3
  <2>5. p.url \in Urls /\ p.url \notin Blocked \ HookTargets
    BY <1>4, <1>6
  <2>6. Transmit(p.url, m, carried, 0)
    BY <1>6
  <2> HIDE DEF m
  <2>7. /\ pc' = "transfer" /\ cur' = p.url /\ sending' = carried /\ moved' = m
        /\ home' \in Urls /\ attempt' \in 1 .. MaxAttempts
        /\ requests' \subseteq
             [url : Urls, moved : BOOLEAN, method : {"GET", "POST"}, creds : BOOLEAN,
              hop : 0 .. MaxHops, attempt : 1 .. MaxAttempts]
        /\ HopInv' /\ Allowed'
    BY ONLY <1>2, <1>3, <2>1, <2>2, <2>3, <2>4, <2>5, <2>6, Sent, Zenon
  <2>8. TypeOK'
    BY <1>2, <1>3, <1>6, <2>1, <2>3, <2>5, <2>7 DEF TypeOK
  <2>9. StartInv' /\ WaitInv' /\ ListedInv' /\ AnswerIsOfTheLastHop'
    BY <1>2, <2>7 DEF Inv, StartInv, WaitInv, ListedInv, AnswerIsOfTheLastHop
  <2> QED
    BY <2>7, <2>8, <2>9 DEF Inv
<1> QED
  BY <1>1, <1>3, <1>5, <1>6, PostTyped, LocalTyped

(* A redirect that goes on by the transport.  What each driver has to see  *)
(* to is that credentials go along only to where they may be.              *)
LEMMA OnwardInv ==
  ASSUME Inv, Flying, Follows,
         UNCHANGED <<driver, follow, answer, stop, decision, result>>,
         visible' = Targets.visible, hop' = hop + 1,
         method' \in {"GET", "POST"}, carried' \in BOOLEAN, local_ok' \in BOOLEAN,
         listed' \in Urls, driver = "sub" => listed' = Targets.visible,
         NEW u \in Urls, u \notin Blocked \ HookTargets,
         NEW m \in BOOLEAN, NEW c \in BOOLEAN, Transmit(u, m, c, hop + 1),
         c \/ carried' => m \/ Known(u)
  PROVE  Inv'
<1>1. TypeOK /\ Allowed /\ home # NoUrl /\ \A r \in requests : r.hop <= hop
  BY DEF Inv, HopInv
<1>2. /\ Targets.visible \in Urls /\ hop \in Nat /\ hop + 1 \in 0 .. MaxHops /\ hop < hop + 1
  BY <1>1, FollowsTyped
<1>3. \A r \in requests : r.hop < hop + 1
  BY <1>1, <1>2 DEF TypeOK
<1> DEFINE h == hop + 1
<1>4. Transmit(u, m, c, h) /\ h \in 0 .. MaxHops /\ hop' = h /\ \A r \in requests : r.hop < h
  BY <1>2, <1>3
<1> HIDE DEF h
<1>5. /\ pc' = "transfer" /\ cur' = u /\ sending' = c /\ moved' = m
      /\ home' \in Urls /\ attempt' \in 1 .. MaxAttempts
      /\ requests' \subseteq
           [url : Urls, moved : BOOLEAN, method : {"GET", "POST"}, creds : BOOLEAN,
            hop : 0 .. MaxHops, attempt : 1 .. MaxAttempts]
      /\ HopInv' /\ Allowed'
  BY <1>1, <1>4, Sent, Zenon
<1>6. TypeOK'
  BY <1>1, <1>2, <1>4, <1>5 DEF TypeOK
<1>7. driver = "sub" => pc # "done" /\ result' = result
  BY DEF Flying
<1>8. StartInv' /\ WaitInv' /\ ListedInv' /\ AnswerIsOfTheLastHop'
  BY <1>5, <1>7 DEF StartInv, WaitInv, ListedInv, AnswerIsOfTheLastHop
<1> QED
  BY <1>5, <1>6, <1>8 DEF Inv

(* A load that ends or leaves the transport: what it leaves is typed, and  *)
(* what a resource is told is what its client heard last.                  *)
LEMMA LandedInv ==
  ASSUME Inv, pc' \in {"local", "finish", "done"}, UNCHANGED history,
         UNCHANGED <<driver, follow, sending, attempt, answer, stop, decision>>,
         method' \in {"GET", "POST"}, carried' \in BOOLEAN, local_ok' \in BOOLEAN,
         {cur', visible', listed'} \subseteq Urls, hop' \in 0 .. MaxHops,
         result' \in [outcome : {"none", "ok", "failed", "blocked", "cancelled"},
                      url : Urls \cup {NoUrl}],
         driver = "sub" => pc' = "done" /\ (result'.outcome = "ok" => result'.url = listed')
  PROVE  Inv'
<1>1. StartInv' /\ HopInv' /\ WaitInv' /\ Allowed'
  BY Landed
<1>2. TypeOK'
  BY DEF Inv, TypeOK, history
<1>3. ListedInv' /\ AnswerIsOfTheLastHop'
  BY DEF ListedInv, AnswerIsOfTheLastHop
<1> QED
  BY <1>1, <1>2, <1>3 DEF Inv

------------------------------------------------------------------------------
LEMMA PerformInv == ASSUME Inv, Perform PROVE Inv'
<1>1. PICK a \in Answers :
       /\ answer' = a
       /\ IF driver = "sync" /\ Retried(a)
            THEN /\ attempt' = attempt + 1
                 /\ requests' = requests \cup
                      {[url |-> cur, moved |-> moved, method |-> method,
                        creds |-> sending, hop |-> hop, attempt |-> attempt + 1]}
                 /\ UNCHANGED pc
            ELSE pc' = "answer" /\ UNCHANGED <<attempt, requests>>
  BY DEF Perform
<1>2. /\ pc = "transfer"
      /\ UNCHANGED <<driver, follow, hopVars, stop, decision, result, home, moved>>
  BY DEF Perform
<1>3. TypeOK /\ Allowed
  BY DEF Inv
<1>4. CASE driver = "sync" /\ Retried(a)
  <2> DEFINE n == [url |-> cur, moved |-> moved, method |-> method,
                   creds |-> sending, hop |-> hop, attempt |-> attempt + 1]
  <2>1. requests' = requests \cup {n} /\ pc' = pc /\ attempt' = attempt + 1
    BY <1>1, <1>4
  <2>2. attempt + 1 \in 1 .. MaxAttempts /\ method = "GET"
    BY <1>3, <1>4 DEF Retried, TypeOK, MaxAttempts
  <2>3. /\ n.url = cur /\ n.method = method /\ n.creds = sending /\ n.hop = hop
        /\ n \in [url : Urls, moved : BOOLEAN, method : {"GET", "POST"}, creds : BOOLEAN,
                  hop : 0 .. MaxHops, attempt : 1 .. MaxAttempts]
    BY <1>3, <2>2 DEF TypeOK
  <2> HIDE DEF n
  <2>4. TypeOK'
    BY <1>1, <1>2, <1>3, <2>1, <2>2, <2>3 DEF TypeOK, hopVars
  <2>5. /\ sending => Known(cur)
        /\ carried \/ sending => Known(cur)
        /\ cur \notin Blocked \ HookTargets /\ home # NoUrl
        /\ \A r \in requests : r.hop <= hop /\ (r.hop = hop => r.method = method)
        /\ hop <= hop
    BY <1>2, <1>3, UrlsAssumption DEF Inv, HopInv, Flying, TypeOK
  <2>6. \A u : Known(u) => Known(u)'
    BY <1>2, <2>1 DEF Known
  <2>7. HopInv'
    BY <1>2, <2>1, <2>3, <2>5, <2>6 DEF HopInv, hopVars
  <2>8. CredentialsStayPut'
    <3> SUFFICES ASSUME NEW r \in requests', r.creds PROVE Known(r.url)'
      BY DEF CredentialsStayPut, Known
    <3>1. Known(r.url)
      BY <1>3, <2>1, <2>3, <2>5 DEF Allowed, CredentialsStayPut, Known
    <3> QED
      BY <2>6, <3>1
  <2>9. WritesOnce'
    BY <1>3, <2>1, <2>2, <2>3, <2>5 DEF Allowed, WritesOnce
  <2>10. BlockedIsLeftAlone'
    BY <1>3, <2>1, <2>3, <2>5 DEF Allowed, BlockedIsLeftAlone
  <2>11. StartInv' /\ WaitInv' /\ ListedInv' /\ AnswerIsOfTheLastHop'
    BY <1>2, <2>1 DEF Inv, StartInv, WaitInv, ListedInv, AnswerIsOfTheLastHop, hopVars
  <2> QED
    BY <2>4, <2>7, <2>8, <2>9, <2>10, <2>11 DEF Inv, Allowed
<1>5. CASE ~(driver = "sync" /\ Retried(a))
  <2>1. pc' = "answer" /\ UNCHANGED <<attempt, requests>> /\ answer' \in Answers
    BY <1>1, <1>5
  <2>2. TypeOK'
    BY <1>2, <1>3, <2>1 DEF TypeOK, hopVars
  <2>3. Allowed'
    BY <1>2, <1>3, <2>1, Quiet DEF history
  <2>4. HopInv'
    BY <1>2, <2>1 DEF Inv, HopInv, Flying, Known, hopVars
  <2>5. StartInv' /\ WaitInv' /\ ListedInv' /\ AnswerIsOfTheLastHop'
    BY <1>2, <2>1 DEF Inv, StartInv, WaitInv, ListedInv, AnswerIsOfTheLastHop, hopVars
  <2> QED
    BY <2>2, <2>3, <2>4, <2>5 DEF Inv
<1> QED
  BY <1>4, <1>5

LEMMA DeliverInv ==
  ASSUME Inv, Cancelled \/ Deliver \/ NavOnLocalResolved \/ NavFinish \/ Declined \/ EndStream
  PROVE  Inv'
<1>1. TypeOK /\ {cur, visible, listed} \subseteq Urls /\ hop \in 0 .. MaxHops
  BY DEF Inv, TypeOK
<1> DEFINE Results == [outcome : {"none", "ok", "failed", "blocked", "cancelled"},
                       url : Urls \cup {NoUrl}]
           Ends == /\ pc' = "done" /\ UNCHANGED history
                   /\ UNCHANGED <<driver, follow, sending, attempt, answer, stop, decision>>
                   /\ UNCHANGED <<method, carried, local_ok, cur, visible, hop>>
                   /\ listed' \in Urls /\ result' \in Results
<1>2. ASSUME Ends, driver = "sub" => (result'.outcome = "ok" => result'.url = listed')
      PROVE  Inv'
  <2>1. /\ method' \in {"GET", "POST"} /\ carried' \in BOOLEAN /\ local_ok' \in BOOLEAN
        /\ {cur', visible', listed'} \subseteq Urls /\ hop' \in 0 .. MaxHops
    BY <1>1, <1>2 DEF TypeOK
  <2> QED
    BY <1>2, <2>1, LandedInv
<1>3. CASE Cancelled
  <2>1. Ends /\ driver = "nav"
    BY <1>1, <1>3, FinishTyped DEF Cancelled, hopVars, history
  <2> QED
    BY <1>2, <2>1
<1>4. CASE Deliver
  <2>1. Outcome \in {"ok", "failed"}
    BY DEF Outcome
  <2>2. Finish(Outcome, visible) /\ pc = "answer" /\ listed' = listed
    BY <1>4 DEF Deliver, hopVars
  <2>3. pc' = "done" /\ result' \in Results /\ result'.url = visible
    BY <1>1, <2>1, <2>2, FinishTyped
  <2>4. Ends
    BY <1>1, <1>4, <2>3 DEF Deliver, hopVars, history
  <2>5. driver = "sub" => listed = visible
    BY <2>2 DEF Inv, ListedInv
  <2> QED
    BY <1>2, <2>2, <2>3, <2>4, <2>5
<1>5. CASE NavOnLocalResolved
  <2>1. PICK o \in {"cancelled", "ok", "failed"} : Finish(o, visible)
    BY <1>5 DEF NavOnLocalResolved
  <2>2. pc' = "done" /\ result' \in Results /\ result'.url = visible
    BY <1>1, <2>1, FinishTyped
  <2>3. Ends /\ pc = "local" /\ listed' = listed
    BY <1>1, <1>5, <2>2 DEF NavOnLocalResolved, hopVars, history
  <2>4. driver = "sub" => listed = visible
    BY <2>3 DEF Inv, ListedInv
  <2> QED
    BY <1>2, <2>2, <2>3, <2>4
<1>6. CASE NavFinish
  <2>1. Ends
    BY <1>1, <1>6 DEF NavFinish, hopVars, history, TypeOK
  <2>2. driver # "sub"
    BY <1>6 DEF NavFinish, Inv, ListedInv
  <2> QED
    BY <1>2, <2>1, <2>2
<1>7. CASE Declined
  <2>1. PICK o \in {"failed", "cancelled"} : Finish(o, visible)
    BY <1>7 DEF Declined
  <2>2. pc' = "done" /\ result' \in Results /\ result'.outcome # "ok"
    BY <1>1, <2>1, FinishTyped
  <2>3. Targets.visible \in Urls
    BY <1>1, <1>7, FollowsTyped DEF Declined
  <2>4. Ends
    BY <1>1, <1>7, <2>2, <2>3 DEF Declined, history
  <2> QED
    BY <1>2, <2>2, <2>4
<1>8. CASE EndStream
  <2>1. Follows
    BY <1>8 DEF EndStream, Inv, WaitInv
  <2> DEFINE url == IF decision.action = "mock" THEN Targets.visible ELSE visible
  <2>2. url \in Urls
    BY <1>1, <2>1, FollowsTyped
  <2>3. PICK o \in {"ok", "failed"} : Finish(o, url)
    BY <1>8 DEF EndStream
  <2> HIDE DEF url
  <2>4. pc' = "done" /\ result' \in Results
    BY <2>2, <2>3, FinishTyped
  <2>5. Ends /\ driver # "sub"
    BY <1>1, <1>8, <2>4 DEF EndStream, Streams, hopVars, history
  <2> QED
    BY <1>2, <2>5
<1> QED
  BY <1>3, <1>4, <1>5, <1>6, <1>7, <1>8

(* Credentials that survive the stripping of a redirect go to where the    *)
(* last hop was, unless the host moves the hop.                            *)
LEMMA StripKeeps ==
  ASSUME Inv, Flying, NEW v, NEW f, NEW u, NEW x \in {f, RedirectFetchCandidate(v, f)},
         Strip(carried, cur, x)
  PROVE  Moved(u, v, f) \/ Known(u)
<1>1. carried /\ cur = x /\ Known(cur)
  BY DEF Strip, MbSameOrigin, Inv, HopInv
<1> QED
  BY <1>1 DEF Moved

LEMMA StripTyped ==
  ASSUME NEW has \in BOOLEAN, NEW u, NEW v
  PROVE  Strip(has, u, v) \in BOOLEAN /\ (Strip(has, u, v) => has)
BY DEF Strip, MbSameOrigin

LEMMA FetchHttpInv == ASSUME Inv, FetchHttp PROVE Inv'
<1> DEFINE to == Targets
           cand == RedirectFetchCandidate(to.visible, to.fetch)
           kept == Strip(carried, cur, cand)
<1>1. PICK p \in EvaluateRequestPolicy(to.visible, to.fetch) :
       \/ /\ p.action = "block" /\ Finish("blocked", to.visible)
          /\ UNCHANGED <<cur, visible, carried, sending, hop, attempt, history>>
       \/ /\ p.action = "mock" /\ Finish("ok", to.visible)
          /\ visible' = to.visible
          /\ UNCHANGED <<cur, carried, sending, hop, attempt, history>>
       \/ /\ p.action = "fetch" /\ p.url \in Local /\ Finish("ok", visible)
          /\ UNCHANGED <<cur, visible, carried, sending, hop, attempt, history>>
       \/ /\ p.action = "fetch" /\ p.url \in Web
          /\ Redirected(to)
          /\ carried' = Strip(kept, cur, p.url)
          /\ Transmit(p.url, Moved(p.url, to.visible, to.fetch), kept, hop + 1)
          /\ UNCHANGED result
  BY DEF FetchHttp
<1>2. /\ pc = "answer" /\ driver = "sync" /\ Follows /\ method' = NextMethod
      /\ UNCHANGED <<driver, follow, listed, local_ok, answer, stop, decision>>
  BY DEF FetchHttp
<1>3. TypeOK /\ Flying
  BY <1>2 DEF Inv, Flying
<1>4. to.visible \in Urls /\ to.fetch \in Urls /\ NextMethod \in {"GET", "POST"}
  BY <1>2, <1>3, FollowsTyped
<1>5. p.action # "block" => p.url \in Urls /\ p.url \notin Blocked \ HookTargets
  BY <1>4, PolicyAllows
<1>6. /\ {cur, visible, listed} \subseteq Urls /\ carried \in BOOLEAN /\ local_ok \in BOOLEAN
      /\ hop \in 0 .. MaxHops
  BY <1>3 DEF TypeOK
<1>7. ASSUME NEW url \in Urls, NEW o \in {"ok", "blocked"}, Finish(o, url),
             visible' \in Urls, UNCHANGED <<cur, carried, sending, hop, attempt, history>>
      PROVE  Inv'
  <2>1. /\ pc' = "done"
        /\ result' \in [outcome : {"none", "ok", "failed", "blocked", "cancelled"},
                        url : Urls \cup {NoUrl}]
    BY <1>7, FinishTyped
  <2> QED
    BY <1>2, <1>4, <1>6, <1>7, <2>1, LandedInv
<1>8. CASE /\ p.action = "fetch" /\ p.url \in Web /\ Redirected(to)
           /\ carried' = Strip(kept, cur, p.url)
           /\ Transmit(p.url, Moved(p.url, to.visible, to.fetch), kept, hop + 1)
           /\ UNCHANGED result
  <2> DEFINE u == p.url
             m == Moved(u, to.visible, to.fetch)
  <2>1. m \in BOOLEAN
    BY DEF Moved
  <2>2. kept \in BOOLEAN /\ (kept => m \/ Known(u))
    BY <1>3, <1>6, StripKeeps, StripTyped
  <2>3. carried' \in BOOLEAN /\ (carried' => kept)
    BY <1>8, <2>2, StripTyped
  <2>4. u \in Urls /\ u \notin Blocked \ HookTargets
    BY <1>5, <1>8
  <2>5. Transmit(u, m, kept, hop + 1) /\ visible' = Targets.visible /\ hop' = hop + 1
    BY <1>8 DEF Redirected
  <2> HIDE DEF u, m, kept
  <2> QED
    BY <1>2, <1>3, <1>4, <1>6, <1>8, <2>1, <2>2, <2>3, <2>4, <2>5, OnwardInv
<1> QED
  BY <1>1, <1>4, <1>6, <1>7, <1>8

LEMMA NavOnHopInv == ASSUME Inv, NavOnHop PROVE Inv'
<1> DEFINE to == Targets
           cand == RedirectFetchCandidate(to.visible, to.fetch)
<1>1. PICK p \in EvaluateRequestPolicy(to.visible, to.fetch) :
        \/ /\ p.action \in {"block", "mock"}
           /\ Post(IF p.action = "mock" THEN "ok" ELSE "blocked", to.visible)
           /\ cur' = to.fetch
           /\ UNCHANGED <<sending, attempt, history>>
        \/ /\ p.action = "fetch" /\ p.url \in Local
           /\ IF local_ok' THEN ResolveLocally(to.visible)
                           ELSE Post("failed", to.visible)
           /\ cur' = to.fetch
           /\ UNCHANGED <<sending, attempt, history>>
        \/ /\ p.action = "fetch" /\ p.url \in Web
           /\ Transmit(p.url, Moved(p.url, to.visible, to.fetch), carried', hop + 1)
           /\ UNCHANGED result
  BY DEF NavOnHop
<1>2. /\ pc = "answer" /\ driver = "nav" /\ Follows /\ method' = NextMethod
      /\ visible' = to.visible /\ hop' = hop + 1
      /\ carried' = Strip(carried, cur, cand) /\ local_ok' = (to.fetch \in Web)
      /\ UNCHANGED <<driver, follow, listed, answer, stop, decision>>
  BY DEF NavOnHop, Redirected
<1>3. TypeOK /\ Flying
  BY <1>2 DEF Inv, Flying
<1>4. /\ to.visible \in Urls /\ to.fetch \in Urls /\ NextMethod \in {"GET", "POST"}
      /\ hop + 1 \in 0 .. MaxHops
  BY <1>2, <1>3, FollowsTyped
<1>5. p.action # "block" => p.url \in Urls /\ p.url \notin Blocked \ HookTargets
  BY <1>4, PolicyAllows
<1>6. listed \in Urls /\ carried \in BOOLEAN /\ local_ok' \in BOOLEAN
  BY <1>2, <1>3 DEF TypeOK
<1>7. carried' \in BOOLEAN
  BY <1>2, <1>6, StripTyped
<1>8. ASSUME /\ pc' \in {"local", "finish", "done"}
             /\ result' \in [outcome : {"none", "ok", "failed", "blocked", "cancelled"},
                             url : Urls \cup {NoUrl}]
             /\ cur' = to.fetch /\ UNCHANGED <<sending, attempt, history>>
      PROVE  Inv'
  BY <1>2, <1>4, <1>6, <1>7, <1>8, LandedInv
<1>9. CASE /\ p.action = "fetch" /\ p.url \in Web
           /\ Transmit(p.url, Moved(p.url, to.visible, to.fetch), carried', hop + 1)
           /\ UNCHANGED result
  <2> DEFINE u == p.url
             m == Moved(u, to.visible, to.fetch)
             c == Strip(carried, cur, cand)
  <2>1. m \in BOOLEAN
    BY DEF Moved
  <2>2. c \in BOOLEAN /\ (c => m \/ Known(u))
    BY <1>3, <1>6, StripKeeps, StripTyped
  <2>3. u \in Urls /\ u \notin Blocked \ HookTargets
    BY <1>5, <1>9
  <2>4. Transmit(u, m, c, hop + 1) /\ carried' = c /\ visible' = Targets.visible
    BY <1>2, <1>9
  <2> HIDE DEF u, m, c
  <2> QED
    BY <1>2, <1>3, <1>4, <1>6, <1>7, <1>9, <2>1, <2>2, <2>3, <2>4, OnwardInv
<1> QED
  BY <1>1, <1>3, <1>4, <1>8, <1>9, PostTyped, LocalTyped

LEMMA OnHopCompleteInv == ASSUME Inv, OnHopComplete PROVE Inv'
<1> DEFINE to == Targets
           kept == Strip(carried, cur, to.fetch)
<1>1. PICK p \in EvaluateRequestPolicy(to.visible, to.fetch) :
       \/ /\ \/ p.action = "block" /\ Finish("failed", visible)
             \/ p.action = "mock" /\ Finish("ok", to.visible)
             \/ p.action = "fetch" /\ p.url \in Local /\ Finish("failed", visible)
          /\ UNCHANGED <<cur, visible, carried, sending, hop, attempt, history>>
       \/ /\ p.action = "fetch" /\ p.url \in Web
          /\ Redirected(to)
          /\ carried' = Strip(kept, cur, p.url)
          /\ Transmit(p.url, Moved(p.url, to.visible, to.fetch), kept, hop + 1)
          /\ UNCHANGED result
  BY DEF OnHopComplete
<1>2. /\ pc = "answer" /\ driver = "sub" /\ Follows /\ method' = NextMethod
      /\ listed' = to.visible
      /\ UNCHANGED <<driver, follow, local_ok, answer, stop, decision>>
  BY DEF OnHopComplete
<1>3. TypeOK /\ Flying
  BY <1>2 DEF Inv, Flying
<1>4. to.visible \in Urls /\ to.fetch \in Urls /\ NextMethod \in {"GET", "POST"}
  BY <1>2, <1>3, FollowsTyped
<1>5. p.action # "block" => p.url \in Urls /\ p.url \notin Blocked \ HookTargets
  BY <1>4, PolicyAllows
<1>6. /\ {cur, visible, listed} \subseteq Urls /\ carried \in BOOLEAN /\ local_ok \in BOOLEAN
      /\ hop \in 0 .. MaxHops
  BY <1>3 DEF TypeOK
<1>7. ASSUME NEW url \in Urls, NEW o \in {"ok", "failed"}, Finish(o, url),
             o = "ok" => url = to.visible,
             UNCHANGED <<cur, visible, carried, sending, hop, attempt, history>>
      PROVE  Inv'
  <2>1. /\ pc' = "done" /\ result'.url = url /\ result'.outcome = o
        /\ result' \in [outcome : {"none", "ok", "failed", "blocked", "cancelled"},
                        url : Urls \cup {NoUrl}]
    BY <1>7, FinishTyped
  <2>2. listed' = to.visible /\ listed' \in Urls
    BY <1>2, <1>4
  <2> HIDE DEF to
  <2> QED
    BY <1>2, <1>4, <1>6, <1>7, <2>1, <2>2, LandedInv
<1>8. CASE /\ p.action = "fetch" /\ p.url \in Web /\ Redirected(to)
           /\ carried' = Strip(kept, cur, p.url)
           /\ Transmit(p.url, Moved(p.url, to.visible, to.fetch), kept, hop + 1)
           /\ UNCHANGED result
  <2> DEFINE u == p.url
             m == Moved(u, to.visible, to.fetch)
  <2>1. m \in BOOLEAN
    BY DEF Moved
  <2>2. kept \in BOOLEAN /\ (kept => m \/ Known(u))
    BY <1>3, <1>6, StripKeeps, StripTyped
  <2>3. carried' \in BOOLEAN /\ (carried' => kept)
    BY <1>8, <2>2, StripTyped
  <2>4. u \in Urls /\ u \notin Blocked \ HookTargets
    BY <1>5, <1>8
  <2>5. /\ Transmit(u, m, kept, hop + 1) /\ visible' = Targets.visible /\ hop' = hop + 1
        /\ listed' = Targets.visible /\ listed' \in Urls
    BY <1>2, <1>4, <1>8 DEF Redirected
  <2> HIDE DEF u, m, kept
  <2> QED
    BY <1>2, <1>3, <1>4, <1>6, <1>8, <2>1, <2>2, <2>3, <2>4, <2>5, OnwardInv
<1> QED
  BY <1>1, <1>4, <1>6, <1>7, <1>8

LEMMA NextHopInv == ASSUME Inv, NextHop PROVE Inv'
<1> DEFINE to == Targets
           kept == Strip(carried, cur, to.fetch)
           u == decision.url
           m == Moved(u, to.visible, to.fetch)
<1>1. /\ pc = "wait" /\ decision.action = "fetch" /\ method' = method
      /\ visible' = Targets.visible /\ hop' = hop + 1
      /\ carried' = Strip(kept, cur, u)
      /\ Transmit(u, m, kept, hop + 1)
      /\ UNCHANGED <<driver, follow, listed, local_ok, answer, stop, decision, result>>
  BY DEF NextHop, Redirected
<1>2. TypeOK /\ Flying /\ Follows /\ driver # "sub"
  BY <1>1 DEF Inv, Flying, WaitInv, NextHop, Streams
<1>3. /\ carried \in BOOLEAN /\ local_ok' \in BOOLEAN /\ method' \in {"GET", "POST"}
      /\ listed' \in Urls
  BY <1>1, <1>2 DEF TypeOK
<1>4. m \in BOOLEAN
  BY DEF Moved
<1>5. kept \in BOOLEAN /\ (kept => m \/ Known(u))
  BY <1>2, <1>3, StripKeeps, StripTyped
<1>6. carried' \in BOOLEAN /\ (carried' => kept)
  BY <1>1, <1>5, StripTyped
<1>7. u \in Urls /\ u \notin Blocked \ HookTargets
  BY <1>1 DEF Inv, WaitInv, Urls
<1> HIDE DEF u, m, kept
<1> QED
  BY <1>1, <1>2, <1>3, <1>4, <1>5, <1>6, <1>7, OnwardInv

(* The steps of a stream's wait and a stop send nothing.                   *)
LEMMA WaitingInv ==
  ASSUME Inv,
         WaitForStreamRedirectPolicy \/ EvaluateStreamRedirectTargetOnMain \/ Stop
  PROVE  Inv'
<1>1. CASE WaitForStreamRedirectPolicy
  <2>1. /\ pc = "answer" /\ pc' = "wait" /\ decision' = Undecided /\ Follows
        /\ driver \in Streams
        /\ UNCHANGED <<driver, follow, hopVars, attempt, answer, stop, result, history>>
    BY <1>1 DEF WaitForStreamRedirectPolicy
  <2>2. TypeOK'
    BY <2>1 DEF Inv, TypeOK, Undecided, hopVars, history
  <2>3. HopInv' /\ Allowed'
    BY <2>1, Quiet DEF Inv, HopInv, Flying, Known, hopVars, history
  <2>4. WaitInv'
    BY <2>1 DEF WaitInv, Follows, IsRedirect, Valid, Undecided, hopVars
  <2>5. StartInv' /\ ListedInv' /\ AnswerIsOfTheLastHop'
    BY <2>1 DEF Inv, StartInv, ListedInv, AnswerIsOfTheLastHop, hopVars
  <2> QED
    BY <2>2, <2>3, <2>4, <2>5 DEF Inv
<1>2. CASE EvaluateStreamRedirectTargetOnMain
  <2>1. /\ pc = "wait" /\ Follows /\ driver \in Streams
        /\ UNCHANGED <<driver, follow, pc, hopVars, attempt, answer, stop, result, history>>
    BY <1>2 DEF EvaluateStreamRedirectTargetOnMain, Inv, WaitInv
  <2>2. PICK p \in EvaluateRequestPolicy(Targets.visible, Targets.fetch) :
          decision' = IF stop \/ p.action = "block" \/ (p.action = "fetch" /\ p.url \in Local)
                        THEN [action |-> "stop", url |-> NoUrl] ELSE p
    BY <1>2 DEF EvaluateStreamRedirectTargetOnMain
  <2>3. Targets.visible \in Urls /\ Targets.fetch \in Urls
    BY <2>1, FollowsTyped DEF Inv
  <2>4. /\ p.action \in {"block", "fetch", "mock"}
        /\ p.action # "block" => p.url \in Urls /\ p.url \notin Blocked \ HookTargets
    BY <2>2, <2>3, PolicyAllows
  <2>5. p.action # "block" => p \in [action : {"none", "stop", "fetch", "mock"},
                                     url : Urls \cup {NoUrl}]
    <3>1. p = Block \/ p \in [action : {"fetch", "mock"},
                              url : {RedirectFetchCandidate(Targets.visible, Targets.fetch)}
                                      \cup HookTargets]
      BY DEF EvaluateRequestPolicy
    <3>2. RedirectFetchCandidate(Targets.visible, Targets.fetch) \in Urls
      BY <2>3, CandidateTyped
    <3> QED
      BY <3>1, <3>2, UrlsAssumption DEF Block
  <2>6. /\ decision' \in [action : {"none", "stop", "fetch", "mock"}, url : Urls \cup {NoUrl}]
        /\ decision'.action = "fetch" => decision'.url \in Web \ (Blocked \ HookTargets)
    BY <2>2, <2>4, <2>5 DEF Urls
  <2>7. TypeOK'
    BY <2>1, <2>6 DEF Inv, TypeOK, hopVars, history
  <2>8. HopInv' /\ Allowed'
    BY <2>1, Quiet DEF Inv, HopInv, Flying, Known, hopVars, history
  <2>9. WaitInv'
    BY <2>1, <2>6 DEF WaitInv, Follows, IsRedirect, Valid, hopVars
  <2>10. StartInv' /\ ListedInv' /\ AnswerIsOfTheLastHop'
    BY <2>1 DEF Inv, StartInv, ListedInv, AnswerIsOfTheLastHop, hopVars
  <2> QED
    BY <2>7, <2>8, <2>9, <2>10 DEF Inv
<1>3. CASE Stop
  <2>1. /\ stop' = TRUE
        /\ UNCHANGED <<driver, follow, pc, hopVars, attempt, answer, decision, result, history>>
    BY <1>3 DEF Stop
  <2>2. TypeOK'
    BY <2>1 DEF Inv, TypeOK, hopVars, history
  <2>3. HopInv' /\ Allowed'
    BY <2>1, Quiet DEF Inv, HopInv, Flying, Known, hopVars, history
  <2>4. StartInv' /\ WaitInv' /\ ListedInv' /\ AnswerIsOfTheLastHop'
    BY <2>1 DEF Inv, StartInv, WaitInv, Follows, IsRedirect, Valid, ListedInv,
       AnswerIsOfTheLastHop, hopVars, history
  <2> QED
    BY <2>2, <2>3, <2>4 DEF Inv
<1> QED
  BY <1>1, <1>2, <1>3

LEMMA StutterInv == ASSUME Inv, UNCHANGED vars PROVE Inv'
<1>1. TypeOK' /\ StartInv' /\ HopInv'
  BY DEF Inv, TypeOK, StartInv, HopInv, Flying, Known, vars, hopVars, history
<1>2. WaitInv' /\ ListedInv' /\ AnswerIsOfTheLastHop' /\ Allowed'
  BY Quiet DEF Inv, WaitInv, Follows, IsRedirect, Valid, ListedInv, AnswerIsOfTheLastHop,
     vars, hopVars, history
<1> QED
  BY <1>1, <1>2 DEF Inv

LEMMA InductiveInvariant == Spec => []Inv
<1>1. Inv /\ [Next]_vars => Inv'
  BY StartHopInv, PerformInv, DeliverInv, FetchHttpInv, NavOnHopInv, OnHopCompleteInv,
     NextHopInv, WaitingInv, StutterInv DEF Next
<1> QED
  BY InitInv, <1>1, PTL DEF Spec

------------------------------------------------------------------------------
(* For any URLs, rewrites, block list, answers of servers and hooks, and   *)
(* any of the five drivers: types; the credentials that a caller gave go   *)
(* past the first hop only to its place and to where the host itself moved *)
(* a hop; a write is sent once at each hop; and no hop reaches a URL of    *)
(* the block list, unless a hook moves it there.                           *)
THEOREM HopsAreAllowed == Spec => []RequestsAreAllowed
<1>1. Inv => RequestsAreAllowed
  BY DEF Inv, Allowed, RequestsAreAllowed
<1> QED
  BY <1>1, InductiveInvariant, PTL

(* A resource is answered from the URL that its client heard of last,      *)
(* however its redirects and their rewrites went.                          *)
THEOREM AnswersAreOfTheLastHop == Spec => []AnswerIsOfTheLastHop
<1>1. Inv => AnswerIsOfTheLastHop
  BY DEF Inv
<1> QED
  BY <1>1, InductiveInvariant, PTL

------------------------------------------------------------------------------
(* HostRules: the hooks.                                                   *)

(* A hook is that of the view at its address, or there is none.            *)
HooksOK ==
  /\ hook = [a \in Addresses |-> hook[a]] /\ view = [a \in Addresses |-> view[a]]
  /\ \A a \in Addresses : hook[a] \in {Tables!NoView, view[a]}

(* A request that has an address comes from a view, which a stream that    *)
(* runs still has; what a hook has answered it was of that view.           *)
RequestFields == {"pc", "view", "address", "stream", "answer"}

OfAView(r) ==
  /\ r.stream \in {"no", "runs", "stopped"}
  /\ r.address # None => r.address \in Addresses /\ r.view # Tables!NoView
  /\ r.stream = "runs" => r.address # None /\ r.view = view[r.address]

RequestOK ==
  request.pc # "none" =>
    /\ RequestFields \subseteq DOMAIN request
    /\ request = [f \in DOMAIN request |-> request[f]]
    /\ OfAView(request)
    /\ Tables!HooksAnswerForTheirView

HooksInv == HooksOK /\ RequestOK

LEMMA HooksInit == ASSUME Tables!Init PROVE HooksInv
<1>1. request.pc = "none"
  BY DEF Tables!Init, Tables!NoRequest
<1>2. HooksOK
  BY DEF Tables!Init, HooksOK
<1> QED
  BY <1>1, <1>2 DEF HooksInv, RequestOK

(* No step but a policy's decision puts an answer into a request.          *)
LEMMA TablesKeepHooks ==
  ASSUME HooksInv, UNCHANGED <<hook, view, request>>
  PROVE  HooksInv'
  BY DEF HooksInv, HooksOK, RequestOK, OfAView, Tables!HooksAnswerForTheirView

(* Nor does the end of a stream.                                           *)
LEMMA EndKeepsHooks ==
  ASSUME HooksInv, HooksOK', request.pc # "none", request.stream = "runs",
         request' = [request EXCEPT !.stream = "stopped"]
  PROVE  HooksInv'
<1>1. /\ RequestFields \subseteq DOMAIN request
      /\ request = [f \in DOMAIN request |-> request[f]]
      /\ OfAView(request) /\ Tables!HooksAnswerForTheirView
  BY DEF HooksInv, RequestOK
<1>2. /\ DOMAIN request' = DOMAIN request /\ request' = [f \in DOMAIN request |-> request'[f]]
      /\ request'.pc = request.pc /\ request'.address = request.address
      /\ request'.view = request.view /\ request'.stream = "stopped"
      /\ request'.answer = request.answer
  BY <1>1 DEF RequestFields
<1>3. OfAView(request)'
  BY <1>1, <1>2 DEF OfAView
<1> QED
  BY <1>1, <1>2, <1>3 DEF HooksInv, RequestOK, Tables!HooksAnswerForTheirView

LEMMA ViewsKeepHooks ==
  ASSUME HooksInv, NEW a \in Addresses,
         Tables!CreateView(a) \/ Tables!SetRequestMockHookForContext(a) \/ Tables!DestroyView(a)
  PROVE  HooksInv'
<1>1. CASE Tables!CreateView(a)
  <2>1. HooksOK'
    BY <1>1 DEF HooksInv, HooksOK, Tables!CreateView
  <2>2. ASSUME request.pc # "none" PROVE OfAView(request)'
    BY <1>1, <2>2 DEF HooksInv, HooksOK, RequestOK, OfAView, Tables!CreateView
  <2> QED
    BY <1>1, <2>1, <2>2
       DEF HooksInv, RequestOK, Tables!HooksAnswerForTheirView, Tables!CreateView
<1>2. CASE Tables!SetRequestMockHookForContext(a)
  BY <1>2 DEF HooksInv, HooksOK, RequestOK, OfAView, Tables!HooksAnswerForTheirView,
              Tables!SetRequestMockHookForContext
<1>3. CASE Tables!DestroyView(a)
  <2>1. HooksOK'
    BY <1>3 DEF HooksInv, HooksOK, Tables!DestroyView
  <2>2. CASE request.pc # "none" /\ request.stream = "runs" /\ request.view = view[a]
    <3>1. request' = [request EXCEPT !.stream = "stopped"]
      BY <1>3, <2>2 DEF Tables!DestroyView, Tables!Stopped
    <3> QED
      BY <2>1, <2>2, <3>1, EndKeepsHooks
  <2>3. CASE ~(request.pc # "none" /\ request.stream = "runs" /\ request.view = view[a])
    <3>1. request' = request /\ view' = [view EXCEPT ![a] = Tables!NoView]
      BY <1>3, <2>3 DEF Tables!DestroyView, Tables!Stopped
    <3>2. ASSUME request.pc # "none" PROVE OfAView(request)'
      BY <2>3, <3>1, <3>2 DEF HooksInv, HooksOK, RequestOK, OfAView
    <3> QED
      BY <2>1, <3>1, <3>2 DEF HooksInv, RequestOK, Tables!HooksAnswerForTheirView
  <2> QED
    BY <2>2, <2>3
<1> QED
  BY <1>1, <1>2, <1>3

LEMMA RequestKeepsHooks ==
  ASSUME HooksInv, NEW u, NEW lines, NEW a \in Addresses \cup {None},
         NEW stream \in {"no", "runs"}, Tables!Request(u, lines, a, stream)
  PROVE  HooksInv'
<1>1. HooksOK'
  BY DEF HooksInv, HooksOK, Tables!Request, Tables!viewVars
<1>2. /\ RequestFields \subseteq DOMAIN request'
      /\ request' = [f \in DOMAIN request' |-> request'[f]]
      /\ request'.pc = "posted" /\ request'.address = a /\ request'.stream = stream
      /\ a # None => request'.view = view[a] /\ view[a] # Tables!NoView
      /\ a = None => stream = "no"
      /\ view' = view
  BY DEF Tables!Request, Tables!viewVars, RequestFields
<1>3. OfAView(request)'
  BY <1>2 DEF OfAView
<1> QED
  BY <1>1, <1>2, <1>3 DEF HooksInv, RequestOK, Tables!HooksAnswerForTheirView

(* The decision asks the hook of the view's address, while the view lives. *)
LEMMA PolicyKeepsHooks == ASSUME HooksInv, Tables!Policy PROVE HooksInv'
<1>1. PICK added \in Tables!HookLines :
        request' = Tables!EvaluateRequestPolicy(request, request.visible, request.backend,
                                                request.carried, added)
  BY DEF Tables!Policy
<1>2. HooksOK'
  BY DEF HooksInv, HooksOK, Tables!Policy, Tables!viewVars
<1> DEFINE url == Tables!RedirectFetchCandidate(request.visible, request.backend)
           found == Tables!FindMock(url, request.address)
           lines == Tables!Merge(Tables!Apply(url, request.carried), added)
           blocked == Tables!Refused(request) \/ Tables!IsUrlBlocked(url)
<1>3. request' = IF blocked
                 THEN [request EXCEPT !.pc = "blocked", !.visible = request.visible]
                 ELSE [request EXCEPT !.pc = IF found.by = "network" THEN "sent" ELSE "mocked",
                         !.visible = request.visible, !.url = url, !.carried = request.carried,
                         !.lines = lines, !.added = added, !.answer = found]
  BY <1>1 DEF Tables!EvaluateRequestPolicy
<1>4. /\ request.pc = "posted" /\ request = [f \in DOMAIN request |-> request[f]]
      /\ RequestFields \subseteq DOMAIN request
      /\ OfAView(request)
  BY DEF Tables!Policy, HooksInv, RequestOK
<1>5. found.by = "hook" => /\ request.address # None
                            /\ hook[request.address] # Tables!NoView
                            /\ found.is = hook[request.address]
  BY DEF Tables!FindMock
<1> HIDE DEF url, found, lines
<1>6. DOMAIN request' = DOMAIN request /\ request' = [f \in DOMAIN request |-> request'[f]]
  BY <1>3, <1>4
<1>7. /\ request'.address = request.address /\ request'.view = request.view
      /\ request'.stream = request.stream
  BY <1>3, <1>4 DEF RequestFields
<1>8. OfAView(request)'
  BY <1>4, <1>7 DEF OfAView, Tables!Policy, Tables!viewVars
<1>9. CASE blocked
  <2>1. request'.pc = "blocked"
    BY <1>3, <1>4, <1>9 DEF RequestFields
  <2> QED
    BY <1>2, <1>4, <1>6, <1>8, <2>1 DEF HooksInv, RequestOK, Tables!HooksAnswerForTheirView
<1>10. CASE ~blocked
  <2>1. request'.answer = found
    BY <1>3, <1>4, <1>10 DEF RequestFields
  <2>2. found.by = "hook" => found.is = request.view
    <3>1. found.by = "hook" => request.view = view[request.address]
      BY <1>4, <1>5, <1>10 DEF Tables!Refused, OfAView, Tables!IsAlive
    <3> QED
      BY <1>4, <1>5, <3>1 DEF HooksInv, HooksOK, OfAView
  <2> QED
    BY <1>2, <1>4, <1>6, <1>7, <1>8, <2>1, <2>2
       DEF HooksInv, RequestOK, Tables!HooksAnswerForTheirView
<1> QED
  BY <1>9, <1>10

LEMMA RedirectKeepsHooks ==
  ASSUME HooksInv, NEW u, Tables!Redirect(u)
  PROVE  HooksInv'
<1>1. PICK hop_, crossed, carried_on :
        request' = [request EXCEPT !.pc = "posted", !.visible = u, !.backend = u,
                     !.hop = hop_, !.crossed = crossed, !.carried = carried_on]
  <2> DEFINE stays == Tables!MbSameOrigin(request.url, Tables!RedirectFetchCandidate(u, u))
  <2>1. request' = [request EXCEPT !.pc = "posted", !.visible = u, !.backend = u,
                     !.hop = request.hop + 1, !.crossed = request.crossed \/ ~stays,
                     !.carried = IF stays THEN Tables!Carried ELSE Tables!Strip(Tables!Carried)]
    BY Zenon DEF Tables!Redirect
  <2> QED
    BY <2>1, Zenon
<1>2. HooksOK'
  BY DEF HooksInv, HooksOK, Tables!Redirect, Tables!viewVars
<1>3. /\ request.pc # "none" /\ request = [f \in DOMAIN request |-> request[f]]
      /\ RequestFields \subseteq DOMAIN request
      /\ OfAView(request)
  BY DEF Tables!Redirect, HooksInv, RequestOK
<1>4. /\ DOMAIN request' = DOMAIN request /\ request' = [f \in DOMAIN request |-> request'[f]]
      /\ request'.pc = "posted" /\ request'.address = request.address
      /\ request'.view = request.view /\ request'.stream = request.stream
  BY <1>1, <1>3 DEF RequestFields
<1>5. OfAView(request)'
  BY <1>3, <1>4 DEF OfAView, Tables!Redirect, Tables!viewVars
<1> QED
  BY <1>2, <1>3, <1>4, <1>5 DEF HooksInv, RequestOK, Tables!HooksAnswerForTheirView

LEMMA TablesNext == ASSUME HooksInv, Tables!Next PROVE HooksInv'
<1>1. ASSUME \/ \E n \in {} : Tables!AddRequestHeader(n)
             \/ Tables!ClearRequestHeaders \/ Tables!ClearUrlRewrites
             \/ \E m \in Moves : Tables!AddUrlRewrite(m)
             \/ \E f \in UrlSets : Tables!BlockUrl(f) \/ Tables!AddMock(f)
             \/ Tables!ClearUrlBlocks \/ Tables!ClearMocks
      PROVE  HooksInv'
  <2>1. UNCHANGED <<hook, view, request>>
    BY <1>1 DEF Tables!AddRequestHeader, Tables!ClearRequestHeaders, Tables!ClearUrlRewrites,
         Tables!AddUrlRewrite, Tables!BlockUrl, Tables!AddMock, Tables!ClearUrlBlocks,
         Tables!ClearMocks, Tables!viewVars
  <2> QED
    BY <2>1, TablesKeepHooks
<1>2. ASSUME Tables!Done PROVE HooksInv'
  BY <1>2 DEF Tables!Done, Tables!NoRequest, Tables!viewVars, HooksInv, HooksOK, RequestOK
<1>3. ASSUME Tables!StopStream PROVE HooksInv'
  <2>1. HooksOK'
    BY <1>3 DEF HooksInv, HooksOK, Tables!StopStream, Tables!viewVars
  <2> QED
    BY <1>3, <2>1, EndKeepsHooks DEF Tables!StopStream
<1> QED
  BY <1>1, <1>2, <1>3, ViewsKeepHooks, RequestKeepsHooks, PolicyKeepsHooks, RedirectKeepsHooks
     DEF Tables!Next

(* A mock hook answers requests of its own view alone, though views come   *)
(* and go at one address while requests wait for the engine thread.        *)
THEOREM HooksAnswer == SumSpec => []HooksAnswerForTheirView
<1> DEFINE TablesInv == which = "tables" => HooksInv
<1>1. SumInit => TablesInv
  BY HooksInit DEF SumInit
<1>2. TablesInv /\ [SumNext]_SumVars => TablesInv'
  <2> SUFFICES ASSUME TablesInv, [SumNext]_SumVars, which' = "tables" PROVE HooksInv'
    OBVIOUS
  <2>1. which = "tables" /\ HooksInv
    BY DEF SumNext, SumVars
  <2>2. CASE Tables!Next
    BY <2>1, <2>2, TablesNext
  <2>3. CASE UNCHANGED ruleVars
    BY <2>1, <2>3, TablesKeepHooks DEF ruleVars
  <2> QED
    BY <2>1, <2>2, <2>3 DEF SumNext, SumVars
<1>3. TablesInv => HooksAnswerForTheirView
  BY DEF HooksAnswerForTheirView, HooksInv, RequestOK, Tables!HooksAnswerForTheirView
<1> QED
  BY <1>1, <1>2, <1>3, PTL DEF SumSpec

------------------------------------------------------------------------------
(* IDBSave.                                                                *)

(* While the main thread waits and nobody has operated, every record's     *)
(* Blob has still to answer, or has, at the address that is the record's.  *)
Gathered ==
  gathering /\ ~disturbed =>
    /\ \A x \in asked : \E r \in Records : addr[r] = x[1] /\ record_blob[r] = x[2]
    /\ \A r \in Records : SaveDB!Exists(r) =>
         <<addr[r], record_blob[r]>> \in asked \/ answered[addr[r]] = record_blob[r]

SaveInv == SaveDB!TypeOK /\ Gathered

LEMMA SaveInit == ASSUME SaveDB!Init PROVE SaveInv
  BY DEF SaveDB!Init, SaveInv, SaveDB!TypeOK, Gathered, SaveDB!NoBytes, SaveDB!Exists

LEMMA SaveOperates ==
  ASSUME SaveInv, NEW r \in Records,
         (\E b \in SavedBlobs : SaveDB!Put(r, b)) \/ SaveDB!Delete(r)
  PROVE  SaveInv'
<1>1. /\ UNCHANGED <<main, gathering, asked, answered, out>>
      /\ disturbed' = (disturbed \/ main = "waits")
  BY DEF SaveDB!Put, SaveDB!Delete, SaveDB!Operates
<1>2. \/ \E a \in Addrs \ SaveDB!Used, b \in SavedBlobs :
           addr' = [addr EXCEPT ![r] = a] /\ record_blob' = [record_blob EXCEPT ![r] = b]
      \/ addr' = [addr EXCEPT ![r] = None] /\ record_blob' = [record_blob EXCEPT ![r] = None]
  BY DEF SaveDB!Put, SaveDB!Delete
<1>3. SaveDB!TypeOK'
  BY <1>1, <1>2, SaveAssumption DEF SaveInv, SaveDB!TypeOK, SaveDB!Exists, SaveDB!Used
<1>4. Gathered'
  BY <1>1 DEF SaveInv, SaveDB!TypeOK, Gathered
<1> QED
  BY <1>3, <1>4 DEF SaveInv

(* What is written out, once nothing is left to be answered.               *)
LEMMA WrittenOut ==
  ASSUME SaveInv, NEW map, map \in [Addrs -> SavedBlobs \cup {Empty}]
  PROVE  /\ SaveDB!SerializeRegistry(map) \in [Records -> SavedBlobs \cup {Empty, None}]
         /\ (\A r \in Records : SaveDB!Exists(r) => map[addr[r]] = record_blob[r])
              => SaveDB!SerializeRegistry(map) = record_blob
<1>1. ASSUME NEW r \in Records PROVE /\ SaveDB!Exists(r) => addr[r] \in Addrs
                                     /\ ~SaveDB!Exists(r) => record_blob[r] = None
  BY DEF SaveInv, SaveDB!TypeOK, SaveDB!Exists
<1>2. record_blob = [r \in Records |-> record_blob[r]]
  BY DEF SaveInv, SaveDB!TypeOK
<1> QED
  BY <1>1, <1>2 DEF SaveDB!SerializeRegistry

LEMMA SaveGathers ==
  ASSUME SaveInv, SaveDB!Gather
  PROVE  SaveInv' /\ SaveDB!WritesTheirBytes
<1> DEFINE X == {<<addr[r], record_blob[r]>> : r \in {q \in Records : SaveDB!Exists(q)}}
<1>1. /\ main = "waits" /\ ~gathering /\ asked' = X /\ answered' = SaveDB!NoBytes
      /\ SaveDB!Await(X, SaveDB!NoBytes) /\ UNCHANGED <<addr, record_blob, disturbed>>
  BY DEF SaveDB!Gather
<1>2. X \subseteq Addrs \X SavedBlobs
  BY DEF SaveInv, SaveDB!TypeOK, SaveDB!Exists
<1>3. SaveDB!NoBytes \in [Addrs -> SavedBlobs \cup {Empty}]
  BY DEF SaveDB!NoBytes
<1>4. CASE X = {}
  <2>1. \A r \in Records : ~SaveDB!Exists(r)
    BY <1>4
  <2>2. /\ out' = SaveDB!SerializeRegistry(SaveDB!NoBytes)
        /\ gathering' = FALSE /\ main' = "writes"
    BY <1>1, <1>4 DEF SaveDB!Await
  <2>3. out' = record_blob
    BY <1>3, <2>1, <2>2, WrittenOut
  <2>4. SaveDB!TypeOK'
    <3>1. asked' = {} /\ answered' \in [Addrs -> SavedBlobs \cup {Empty}]
      BY <1>1, <1>3, <1>4
    <3>2. out' \in [Records -> SavedBlobs \cup {Empty, None}]
      BY <2>3 DEF SaveInv, SaveDB!TypeOK
    <3> HIDE DEF X
    <3> QED
      BY <1>1, <2>2, <3>1, <3>2 DEF SaveInv, SaveDB!TypeOK, SaveDB!Exists
  <2>5. Gathered'
    BY <2>2 DEF Gathered
  <2>6. SaveDB!WritesTheirBytes
    BY <1>1, <2>3 DEF SaveDB!WritesTheirBytes
  <2> QED
    BY <2>4, <2>5, <2>6 DEF SaveInv
<1>5. CASE X # {}
  <2>1. gathering' = TRUE /\ UNCHANGED <<out, main>>
    BY <1>1, <1>5 DEF SaveDB!Await
  <2>2. SaveDB!TypeOK'
    BY <1>1, <1>2, <1>3, <2>1 DEF SaveInv, SaveDB!TypeOK, SaveDB!Exists
  <2>3. Gathered'
    BY <1>1 DEF Gathered, SaveDB!Exists
  <2> QED
    BY <1>1, <2>1, <2>2, <2>3 DEF SaveInv, SaveDB!WritesTheirBytes
<1> QED
  BY <1>4, <1>5

(* An answer is noted at the address of a record, the only one there.      *)
LEMMA SaveAnswers ==
  ASSUME SaveInv, NEW x \in Addrs \X SavedBlobs, SaveDB!Answer(x)
  PROVE  SaveInv' /\ SaveDB!WritesTheirBytes
<1> DEFINE map == [answered EXCEPT ![x[1]] = x[2]]
<1>1. /\ x \in asked /\ answered' = map /\ asked' = asked \ {x}
      /\ SaveDB!Await(asked \ {x}, map) /\ UNCHANGED <<addr, record_blob, disturbed>>
  BY DEF SaveDB!Answer, SaveDB!Answered
<1>2. gathering /\ main = "waits" /\ x[1] \in Addrs /\ x[2] \in SavedBlobs
  BY <1>1 DEF SaveInv, SaveDB!TypeOK
<1>3. map \in [Addrs -> SavedBlobs \cup {Empty}] /\ map[x[1]] = x[2]
      /\ \A a \in Addrs \ {x[1]} : map[a] = answered[a]
  BY <1>2 DEF SaveInv, SaveDB!TypeOK
<1> HIDE DEF map
<1>4. ~disturbed =>
        \A r \in Records : SaveDB!Exists(r) =>
          <<addr[r], record_blob[r]>> \in asked \ {x} \/ map[addr[r]] = record_blob[r]
  <2> SUFFICES ASSUME ~disturbed, NEW r \in Records, SaveDB!Exists(r),
                      <<addr[r], record_blob[r]>> \notin asked \ {x}
               PROVE  map[addr[r]] = record_blob[r]
    OBVIOUS
  <2>1. addr[r] \in Addrs
    BY DEF SaveInv, SaveDB!TypeOK, SaveDB!Exists
  <2>2. <<addr[r], record_blob[r]>> \in asked \/ answered[addr[r]] = record_blob[r]
    BY <1>2 DEF SaveInv, Gathered
  <2>3. CASE addr[r] = x[1]
    <3>1. PICK q \in Records : addr[q] = x[1] /\ record_blob[q] = x[2]
      BY <1>1, <1>2 DEF SaveInv, Gathered
    <3>2. q = r
      BY <2>3, <3>1 DEF SaveInv, SaveDB!TypeOK
    <3> QED
      BY <1>3, <2>3, <3>1, <3>2
  <2>4. CASE addr[r] # x[1]
    <3>1. <<addr[r], record_blob[r]>> # x
      BY <2>4
    <3> QED
      BY <1>3, <2>1, <2>2, <2>4, <3>1
  <2> QED
    BY <2>3, <2>4
<1>5. ~disturbed => \A y \in asked \ {x} : \E r \in Records : addr[r] = y[1] /\ record_blob[r] = y[2]
  BY <1>2 DEF SaveInv, Gathered
<1>6. CASE asked \ {x} = {}
  <2>1. out' = SaveDB!SerializeRegistry(map) /\ gathering' = FALSE /\ main' = "writes"
    BY <1>1, <1>6 DEF SaveDB!Await
  <2>2. ~disturbed => out' = record_blob
    BY <1>3, <1>4, <1>6, <2>1, WrittenOut
  <2>3. out' \in [Records -> SavedBlobs \cup {Empty, None}]
    BY <1>3, <2>1, WrittenOut
  <2>4. SaveDB!TypeOK'
    BY <1>1, <1>3, <1>6, <2>1, <2>3 DEF SaveInv, SaveDB!TypeOK, SaveDB!Exists
  <2> QED
    BY <1>1, <2>1, <2>2, <2>4 DEF SaveInv, Gathered, SaveDB!WritesTheirBytes
<1>7. CASE asked \ {x} # {}
  <2>1. gathering' = TRUE /\ UNCHANGED <<out, main>>
    BY <1>1, <1>7 DEF SaveDB!Await
  <2>2. SaveDB!TypeOK'
    BY <1>1, <1>2, <1>3, <2>1 DEF SaveInv, SaveDB!TypeOK, SaveDB!Exists
  <2>3. Gathered'
    BY <1>1, <1>4, <1>5 DEF Gathered, SaveDB!Exists
  <2> QED
    BY <1>2, <2>1, <2>2, <2>3 DEF SaveInv, SaveDB!WritesTheirBytes
<1> QED
  BY <1>6, <1>7

LEMMA SaveNext == ASSUME SaveInv, SaveDB!Next PROVE SaveInv' /\ SaveDB!WritesTheirBytes
<1>1. ASSUME NEW r \in Records, (\E b \in SavedBlobs : SaveDB!Put(r, b)) \/ SaveDB!Delete(r)
      PROVE  SaveInv' /\ SaveDB!WritesTheirBytes
  <2>1. main' = main
    BY <1>1 DEF SaveDB!Put, SaveDB!Delete
  <2> QED
    BY <1>1, <2>1, SaveOperates DEF SaveDB!WritesTheirBytes
<1>2. ASSUME SaveDB!Save PROVE SaveInv' /\ SaveDB!WritesTheirBytes
  BY <1>2 DEF SaveDB!Save, SaveDB!WritesTheirBytes, SaveInv, SaveDB!TypeOK, SaveDB!Exists, Gathered
<1>3. ASSUME SaveDB!WriteFile PROVE SaveInv' /\ SaveDB!WritesTheirBytes
  BY <1>3 DEF SaveDB!WriteFile, SaveDB!WritesTheirBytes, SaveInv, SaveDB!TypeOK, SaveDB!Exists,
              Gathered
<1> QED
  BY <1>1, <1>2, <1>3, SaveGathers, SaveAnswers DEF SaveDB!Next

LEMMA SaveStutter == ASSUME SaveInv, UNCHANGED saveVars PROVE SaveInv'
  BY DEF saveVars, SaveInv, SaveDB!TypeOK, SaveDB!Exists, Gathered

(* "Records are immutable for the duration": as long as nobody operates    *)
(* while the main thread waits, each record is written out with the bytes  *)
(* of its own Blob, in whatever order the Blobs answer.                    *)
THEOREM RecordsGetTheirBytes == SumSpec => EveryRecordGetsItsBytes
<1>1. SumInit => SaveInv
  BY SaveInit DEF SumInit
<1>2. SaveInv /\ [SumNext]_SumVars => SaveInv'
  BY SaveNext, SaveStutter DEF SumNext, SumVars
<1>3. SaveInv /\ [SumNext]_SumVars => [SaveDB!WritesTheirBytes]_saveVars
  BY SaveNext DEF SumNext, SumVars
<1> QED
  BY <1>1, <1>2, <1>3, PTL DEF SumSpec, EveryRecordGetsItsBytes
=============================================================================
