------------------------------- MODULE HostRules -------------------------------
(***************************************************************************)
(* The tables by which a host steers requests (loader/mb_url_loader.cc):   *)
(* header registrations of three kinds, URL rewrites, block lists, mocks   *)
(* and hooks, and EvaluateRequestPolicy, which consults them at each hop   *)
(* of a request.  Where a hop leads otherwise is modelled in Fetch.        *)
(*                                                                         *)
(* A view is known to the tables by its address, which a later view may    *)
(* get; a worker's request waits for the engine thread to consult them.    *)
(***************************************************************************)
EXTENDS Integers, SequencesExt

CONSTANTS
  Urls,         \* [scheme, host, port, path], a host and a path as sequences of labels
  Substrings,   \* sets of URLs: those that contain a string
  HostFilters,  \* [host, match_subdomains, path_prefix]
  OriginFilters,\* [scheme, host, effective_port, path_prefix]
  Names,        \* names of headers
  Credentials,  \* those of Names that MbStripCredentialHeaders removes
  Moves,        \* [from, to]: rewrites of one host to another
  Addresses,    \* of views
  None,
  MaxRules,     \* bound: registrations of headers
  MaxTable,     \* bound: entries of each other table
  MaxViews,     \* bound: views ever created
  MaxHops       \* 20

VARIABLES
  substrings,   \* SubstringHeaderList(): [filter, name, sequence]
  hosts,        \* HostHeaderList()
  origins,      \* OriginHeaderList()
  sequence,     \* HeaderRegistrationSequence(); the value of a header too
  rewrites,     \* RewriteList()
  blocks,       \* BlockList()
  mocks,        \* MockList(): [filter, answer]
  hook,         \* address -> the view whose mock hook ContextMockHooks() has
  view,         \* address -> the view that is there
  views,        \* views created so far
  request       \* the request under way

headerVars == <<substrings, hosts, origins, sequence>>
tableVars  == <<rewrites, blocks, mocks>>
viewVars   == <<hook, view, views>>
vars == <<headerVars, tableVars, viewVars, request>>

NoView == 0
NoRequest == [pc |-> "none"]

Init ==
  /\ substrings = <<>> /\ hosts = <<>> /\ origins = <<>> /\ sequence = 0
  /\ rewrites = <<>> /\ blocks = {} /\ mocks = <<>>
  /\ hook = [a \in Addresses |-> NoView] /\ view = hook /\ views = 0
  /\ request = NoRequest

------------------------------------------------------------------------------
(* Filters.                                                                *)
MbSameOrigin(u, v) == u.scheme = v.scheme /\ u.host = v.host /\ u.port = v.port

(* A true subdomain: the boundary is a dot.                                *)
Subdomain(h, of) == Len(h) > Len(of) /\ IsSuffix(of, h)

HostFilterMatches(f, u) ==
  /\ u.host = f.host \/ (f.match_subdomains /\ Subdomain(u.host, f.host))
  /\ IsPrefix(f.path_prefix, u.path)

OriginFilterMatches(f, u) ==
  /\ u.scheme = f.scheme /\ u.host = f.host /\ u.port = f.effective_port
  /\ IsPrefix(f.path_prefix, u.path)

------------------------------------------------------------------------------
(* Header lines, <<name, value>>.                                          *)
NameOf(line) == line[1]

(* MergeHeaderLines: what is added replaces every line of its name.        *)
Merge(lines, add) ==
  SelectSeq(lines, LAMBDA l : \A i \in DOMAIN add : NameOf(add[i]) # NameOf(l)) \o add

(* MbStripCredentialHeaders. *)
Strip(lines) == SelectSeq(lines, LAMBDA l : NameOf(l) \notin Credentials)

Matches(u) ==
  SelectSeq(substrings, LAMBDA e : u \in e.filter)
    \o SelectSeq(hosts, LAMBDA e : HostFilterMatches(e.filter, u))
    \o SelectSeq(origins, LAMBDA e : OriginFilterMatches(e.filter, u))

MergeAll(lines, matches) ==
  FoldLeft(LAMBDA acc, e : Merge(acc, <<<<e.name, e.sequence>>>>), lines, matches)

(* Mutant: the registries one after the other.                             *)
ApplyByRegistry(u, lines) == MergeAll(lines, Matches(u))

(* MbApplyRequestHeaders: in the order of registration.                    *)
Apply(u, lines) ==
  MergeAll(lines, SortSeq(Matches(u), LAMBDA e, f : e.sequence < f.sequence))

(* MbAddRequestHeader, ForHost and ForOrigin; MbClearRequestHeaders keeps  *)
(* the sequence.                                                           *)
Entry(filter, name) == [filter |-> filter, name |-> name, sequence |-> sequence + 1]

AddRequestHeader(name) ==
  /\ sequence < MaxRules
  /\ sequence' = sequence + 1
  /\ \/ /\ \E f \in Substrings : substrings' = Append(substrings, Entry(f, name))
        /\ UNCHANGED <<hosts, origins>>
     \/ /\ \E f \in HostFilters : hosts' = Append(hosts, Entry(f, name))
        /\ UNCHANGED <<substrings, origins>>
     \/ /\ \E f \in OriginFilters : origins' = Append(origins, Entry(f, name))
        /\ UNCHANGED <<substrings, hosts>>
  /\ UNCHANGED <<tableVars, viewVars, request>>

ClearRequestHeaders ==
  /\ sequence > 0
  /\ substrings' = <<>> /\ hosts' = <<>> /\ origins' = <<>>
  /\ UNCHANGED <<sequence, tableVars, viewVars, request>>

------------------------------------------------------------------------------
(* The other tables.                                                       *)
AddUrlRewrite(m) ==
  /\ Len(rewrites) < MaxTable /\ rewrites' = Append(rewrites, m)
  /\ UNCHANGED <<headerVars, blocks, mocks, viewVars, request>>
ClearUrlRewrites ==
  /\ rewrites # <<>> /\ rewrites' = <<>>
  /\ UNCHANGED <<headerVars, blocks, mocks, viewVars, request>>
BlockUrl(f) ==
  /\ MaxTable > 0 /\ blocks' = blocks \cup {f}
  /\ UNCHANGED <<headerVars, rewrites, mocks, viewVars, request>>
ClearUrlBlocks ==
  /\ blocks # {} /\ blocks' = {}
  /\ UNCHANGED <<headerVars, rewrites, mocks, viewVars, request>>
AddMock(f) ==
  /\ Len(mocks) < MaxTable
  /\ mocks' = Append(mocks, [filter |-> f, answer |-> Len(mocks) + 1])
  /\ UNCHANGED <<headerVars, rewrites, blocks, viewVars, request>>
ClearMocks ==
  /\ mocks # <<>> /\ mocks' = <<>>
  /\ UNCHANGED <<headerVars, rewrites, blocks, viewVars, request>>

(* MbApplyUrlRewrites: each sees what the ones before it made of the URL.  *)
Rewritten(u) ==
  FoldLeft(LAMBDA v, m : IF v.host = m.from THEN [v EXCEPT !.host = m.to] ELSE v, u, rewrites)

RedirectFetchCandidate(visible, backend) ==
  IF Rewritten(visible) = visible THEN backend ELSE Rewritten(visible)

IsUrlBlocked(u) == \E f \in blocks : u \in f

(* MbFindMock, after image sources: the latest mock that matches, then the *)
(* hook of the view.                                                       *)
FindMock(u, a) ==
  LET i == SelectLastInSeq(mocks, LAMBDA e : u \in e.filter) IN
    IF i > 0 THEN [by |-> "mock", is |-> mocks[i].answer]
    ELSE IF a # None /\ hook[a] # NoView THEN [by |-> "hook", is |-> hook[a]]
    ELSE [by |-> "network", is |-> NoView]

------------------------------------------------------------------------------
(* Views: a hook is registered for one and goes with it.                   *)
CreateView(a) ==
  /\ view[a] = NoView /\ views < MaxViews
  /\ views' = views + 1
  /\ view' = [view EXCEPT ![a] = views + 1]
  /\ UNCHANGED <<headerVars, tableVars, hook, request>>

SetRequestMockHookForContext(a) ==
  /\ view[a] # NoView /\ hook[a] # view[a]
  /\ hook' = [hook EXCEPT ![a] = view[a]]
  /\ UNCHANGED <<headerVars, tableVars, view, views, request>>

(* Mutant: its streams go on.                                              *)
LeftRunning(a) == request

(* A view's streams are stopped with it, those of its pages and downloads. *)
Stopped(a) ==
  IF request.pc # "none" /\ request.stream = "runs" /\ request.view = view[a]
  THEN [request EXCEPT !.stream = "stopped"] ELSE request

DestroyView(a) ==
  /\ view[a] # NoView
  /\ view' = [view EXCEPT ![a] = NoView]
  /\ hook' = [hook EXCEPT ![a] = NoView]
  /\ request' = Stopped(a)
  /\ UNCHANGED <<headerVars, tableVars, views>>

------------------------------------------------------------------------------
(* Requests.  A caller of its own headers, one of a view's page, or a      *)
(* worker's, which has posted a PolicyCall.                                *)
CallerLines == {<<>>} \cup {<<<<n, 0>>>> : n \in Names}
HookLines   == {<<>>} \cup {<<<<n, MaxRules + 1>>>> : n \in Names}

(* Mutant: whoever is at the address now answers for the view.             *)
SomebodyIsThere(v, a) == v # NoView => view[a] # NoView

(* is_alive() of the context of view v, made at address a.                 *)
IsAlive(v, a) == v # NoView => view[a] = v

(* Where a redirect leads a stream is decided without the context: its     *)
(* stop flag stands for it.                                                *)
Refused(r) ==
  \/ r.stream = "stopped"
  \/ (r.stream = "no" \/ r.hop = 0) /\ ~IsAlive(r.view, r.address)

(* EvaluateRequestPolicy for the next hop; a stream's redirects have       *)
(* EvaluateStreamRedirectTargetOnMain, which asks the same in that order.  *)
EvaluateRequestPolicy(r, visible, backend, baseline, added) ==
  LET url == RedirectFetchCandidate(visible, backend)
      lines == Merge(Apply(url, baseline), added)
      answer == FindMock(url, r.address)
  IN IF Refused(r) \/ IsUrlBlocked(url)
     THEN [r EXCEPT !.pc = "blocked", !.visible = visible]
     ELSE [r EXCEPT !.pc = IF answer.by = "network" THEN "sent" ELSE "mocked",
                    !.visible = visible, !.url = url, !.carried = baseline,
                    !.lines = lines, !.added = added, !.answer = answer]

(* The request is made; `left' is history: the names of the caller's       *)
(* headers that have seen the request go to another origin.                *)
Request(u, lines, a, stream) ==
  /\ request.pc = "none"
  /\ IF a = None THEN stream = "no" ELSE view[a] # NoView
  /\ request' = [pc |-> "posted", view |-> IF a = None THEN NoView ELSE view[a],
                 address |-> a, stream |-> stream, visible |-> u, backend |-> u, url |-> u, carried |-> lines,
                 lines |-> <<>>, added |-> <<>>, hop |-> 0, caller |-> lines, crossed |-> FALSE,
                 answer |-> [by |-> "network", is |-> NoView]]
  /\ UNCHANGED <<headerVars, tableVars, viewVars>>

(* The engine thread consults the tables and the hooks, one of which adds  *)
(* headers.                                                                *)
Policy ==
  /\ request.pc = "posted"
  /\ \E added \in HookLines :
       request' = EvaluateRequestPolicy(request, request.visible, request.backend,
                                        request.carried, added)
  /\ UNCHANGED <<headerVars, tableVars, viewVars>>

(* Mutant: what was sent goes on to the next hop.                          *)
SentBefore == request.lines

(* What goes on to the next hop: the caller's own headers.                 *)
Carried == request.carried

(* The server sends the request on: FetchHttp, NavOnHop, OnHopComplete.    *)
Redirect(to) ==
  /\ request.pc = "sent" /\ request.hop < MaxHops /\ request.stream # "stopped"
  /\ LET stays == MbSameOrigin(request.url, RedirectFetchCandidate(to, to)) IN
       request' = [request EXCEPT !.pc = "posted", !.visible = to, !.backend = to,
                     !.hop = @ + 1, !.crossed = @ \/ ~stays,
                     !.carried = IF stays THEN Carried ELSE Strip(Carried)]
  /\ UNCHANGED <<headerVars, tableVars, viewVars>>

(* A stream is stopped, on the engine thread: its load is deleted, or the  *)
(* download cancelled.                                                     *)
StopStream ==
  /\ request.pc # "none" /\ request.stream = "runs"
  /\ request' = [request EXCEPT !.stream = "stopped"]
  /\ UNCHANGED <<headerVars, tableVars, viewVars>>

Done ==
  /\ request.pc \in {"sent", "mocked", "blocked"}
  /\ request' = NoRequest
  /\ UNCHANGED <<headerVars, tableVars, viewVars>>

Next ==
  \/ \E n \in Names : AddRequestHeader(n)
  \/ ClearRequestHeaders
  \/ \E m \in Moves : AddUrlRewrite(m)
  \/ ClearUrlRewrites
  \/ \E f \in Substrings : BlockUrl(f) \/ AddMock(f)
  \/ ClearUrlBlocks \/ ClearMocks
  \/ \E a \in Addresses : CreateView(a) \/ SetRequestMockHookForContext(a) \/ DestroyView(a)
  \/ \E u \in Urls :
       \/ \E lines \in CallerLines, a \in Addresses \cup {None}, stream \in {"no", "runs"} :
            Request(u, lines, a, stream)
       \/ Redirect(u)
  \/ Policy \/ StopStream \/ Done

Spec == Init /\ [][Next]_vars

------------------------------------------------------------------------------
TypeOK ==
  /\ \A a \in Addresses : hook[a] \in {NoView, view[a]}
  /\ \A l \in {substrings, hosts, origins} : \A i, j \in DOMAIN l :
       i < j => l[i].sequence < l[j].sequence
  /\ request.pc \in {"none", "posted", "sent", "mocked", "blocked"}

(* What registrations a header has for a URL, whatever their kind.         *)
Registered(u, n) ==
  {e.sequence : e \in {f \in ToSet(Matches(u)) : f.name = n}}

(* The value a name has to have at this hop: the hook's, that of the       *)
(* latest registration that matches, or the caller's, of which credentials *)
(* do not leave the origin they were given for.                            *)
Expected(n) ==
  IF \E i \in DOMAIN request.added : NameOf(request.added[i]) = n THEN {MaxRules + 1}
  ELSE IF Registered(request.url, n) # {}
  THEN {CHOOSE s \in Registered(request.url, n) : \A t \in Registered(request.url, n) : t <= s}
  ELSE IF /\ \E i \in DOMAIN request.caller : NameOf(request.caller[i]) = n
          /\ ~(request.crossed /\ n \in Credentials)
  THEN {0} ELSE {}

(* As the policy decides it, in one line each.                             *)
LinesAreExpected ==
  \A n \in Names :
    LET has == SelectSeq(request.lines, LAMBDA l : NameOf(l) = n)
    IN Len(has) <= 1 /\ {l[2] : l \in ToSet(has)} = Expected(n)

(* "matching registrations are applied in true process-wide call order     *)
(* across substring/host/origin categories" (webview.h), and none rides a  *)
(* redirect to a URL it does not match.                                    *)
LatestRegistrationWins ==
  [][request'.pc \in {"sent", "mocked"} /\ request.pc = "posted" => LinesAreExpected']_request

(* A mock hook answers requests of its own view alone, while that lives.   *)
HooksAnswerForTheirView ==
  request.pc = "mocked" /\ request.answer.by = "hook" => request.answer.is = request.view
=============================================================================
