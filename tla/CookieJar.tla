------------------------------- MODULE CookieJar -------------------------------
(***************************************************************************)
(* Cookies: curl's jar of each session (loader/mb_url_loader.cc), which    *)
(* requests use, the mirror of it that document.cookie and cookieStore     *)
(* write (MbCookieManager, frame/mb_frame_broker.cc), its observers, and   *)
(* the file a jar is kept in.                                              *)
(*                                                                         *)
(* Calls of pages reach the service thread in their frame's order; so do   *)
(* the tasks the host posts there.  Curl and the host use a jar from any   *)
(* thread, under its lock.  All cookies have the path "/".                 *)
(***************************************************************************)
EXTENDS Integers, SequencesExt, FiniteSetsExt

CONSTANTS
  Sessions, Default,   \* ids of sessions, and that of the default one
  Frames,
  Schemes, Host, Subdomain,  \* origins: schemes, a host and one within it
  Names,
  Keepers,             \* keys of the sessions whose jar is saved and loaded
  None,
  MaxWrites,           \* bound: cookies ever written
  MaxCalls             \* bound: calls of a frame that are under way

Origins == [scheme : Schemes, host : {Host, Subdomain}]

(* Where a cookie is kept: the host that set it, or a domain it named.     *)
Places == [host : {Host, Subdomain}, tail : {FALSE}] \cup {[host |-> Host, tail |-> TRUE]}

VARIABLES
  page,        \* frame -> [session, origin] of its documents
  by_frame,    \* frame -> the session of its scope, None when it has none
  calls,       \* frame -> calls of its page that are under way
  clears,      \* sessions whose mirror is to be cleared, in their order
  jar,         \* session -> <<place, name>> -> cookie or None
  store,       \* CookieStore(): <<session, origin>> -> name -> value or None
  listeners,   \* CookieListeners(): frame -> what its observer was told, or None
  file,        \* the saved jar, as lines
  author,      \* of each value, the session of the page that wrote it, or None
  foreign,     \* names that others wrote after an origin: <<session, origin, name>>
  kept,        \* the jar that file was made of
  intact       \* sessions whose jar should be like it

vars == <<page, by_frame, calls, clears, jar, store, listeners, file,
          author, foreign, kept, intact>>
history == <<author, foreign, kept, intact>>

Empty == [k \in Places \X Names |-> None]
NotTold == [n \in Names |-> None]

Init ==
  /\ page \in [Frames -> [session : Sessions, origin : Origins]]
  /\ by_frame = [f \in Frames |-> None]
  /\ calls = [f \in Frames |-> <<>>]
  /\ clears = <<>>
  /\ jar = [s \in Sessions |-> Empty]
  /\ store = [k \in Sessions \X Origins |-> [n \in Names |-> None]]
  /\ listeners = [f \in Frames |-> None]
  /\ file = {} /\ author = <<>> /\ foreign = {} /\ kept = Empty /\ intact = {}

(* CookieShareForKey: the empty key stands for the default session.        *)
CookieShareForKey(k) == IF k = "" THEN Default ELSE k

(* The place in the jar for a cookie of a URL at host h.                   *)
PlaceOf(h, domain) ==
  IF domain = None THEN [host |-> h, tail |-> FALSE] ELSE [host |-> domain, tail |-> TRUE]

(* Whether MbGetCookiesForUrl shows a cookie of place p to host h.         *)
Match(p, h) == h = p.host \/ (h = Subdomain /\ p.host = Host)

Cookie(v, http_only) == [value |-> v, http_only |-> http_only]

(* A new cookie replaces that of its name and place; one that has expired  *)
(* removes it.                                                             *)
AddCookie(j, p, n, c) == [j EXCEPT ![<<p, n>>] = c]

Next_value == Len(author) + 1
CanWrite == Len(author) < MaxWrites
Writes(s) == author' = Append(author, s)

(* Somebody else than pages of o wrote n in session s.                     *)
WrittenBeside(s, O, N) == {<<s, o, n>> : o \in O, n \in N}

------------------------------------------------------------------------------
(* Pages.  DidCommitNavigation publishes the scope of a frame and          *)
(* ~MbFrameClient clears it, at once.                                      *)
Commit(f) ==
  /\ by_frame[f] = None /\ calls[f] = <<>>
  /\ by_frame' = [by_frame EXCEPT ![f] = page[f].session]
  /\ UNCHANGED <<page, calls, clears, jar, store, listeners, file, history>>

DestroyFrame(f) ==
  /\ by_frame[f] # None
  /\ by_frame' = [by_frame EXCEPT ![f] = None]
  /\ listeners' = [listeners EXCEPT ![f] = None]
  /\ UNCHANGED <<page, calls, clears, jar, store, file, history>>

(* document.cookie = ..., cookieStore.set() and cookieStore.delete(), of   *)
(* which only the first can name a domain.                                 *)
Assign(f, n, domain, deletes) ==
  /\ by_frame[f] # None /\ Len(calls[f]) < MaxCalls /\ CanWrite
  /\ Writes(page[f].session)
  /\ calls' = [calls EXCEPT ![f] = Append(@,
       [do |-> "set", name |-> n, domain |-> domain, value |-> IF deletes THEN None ELSE Next_value])]
  /\ UNCHANGED <<page, by_frame, clears, jar, store, listeners, file, foreign, kept, intact>>

(* cookieStore.addEventListener.                                           *)
Listen(f) ==
  /\ by_frame[f] # None /\ Len(calls[f]) < MaxCalls /\ listeners[f] = None
  /\ \A c \in Range(calls[f]) : c.do # "listen"
  /\ calls' = [calls EXCEPT ![f] = Append(@, [do |-> "listen"])]
  /\ UNCHANGED <<page, by_frame, clears, jar, store, listeners, file, history>>

------------------------------------------------------------------------------
(* The service thread.                                                     *)
CookieSessionKey(f) == IF by_frame[f] = None THEN Default ELSE by_frame[f]

(* Mutant: the URL alone.                                                  *)
ScopeByURL(f) == <<Default, page[f].origin>>

CookieScopeKey(f) == <<CookieSessionKey(f), page[f].origin>>

Takes(f, what) ==
  /\ calls[f] # <<>> /\ Head(calls[f]).do = what
  /\ calls' = [calls EXCEPT ![f] = Tail(@)]

(* Observers of the scope that are still there learn of a change (told     *)
(* keeps the place as well, which they do not learn).                      *)
NotifyCookieChange(scope, p, n, v) ==
  listeners' = [f \in Frames |->
    IF listeners[f] # None /\ listeners[f].scope = scope
    THEN [listeners[f] EXCEPT !.told[n] = [place |-> p, value |-> v]] ELSE listeners[f]]

(* Mutant: deletions stay in the mirror.                                   *)
BridgeSets(s, p, n, v) ==
  IF v = None THEN jar ELSE [jar EXCEPT ![s] = AddCookie(@, p, n, Cookie(v, FALSE))]

(* MbAddCookieToJar, as the mirror and the host call it.                   *)
MbAddCookieToJar(s, p, n, v) ==
  [jar EXCEPT ![s] = AddCookie(@, p, n, IF v = None THEN None ELSE Cookie(v, FALSE))]

SetCookieFromString(f) ==
  /\ Takes(f, "set")
  /\ LET c == Head(calls[f])
         s == CookieSessionKey(f)
         o == page[f].origin
     IN /\ store' = [store EXCEPT ![CookieScopeKey(f)][c.name] = c.value]
        /\ jar' = MbAddCookieToJar(s, PlaceOf(o.host, c.domain), c.name, c.value)
        /\ NotifyCookieChange(CookieScopeKey(f), PlaceOf(o.host, c.domain), c.name, c.value)
        /\ foreign' = (foreign \ {<<s, o, c.name>>})
                      \cup WrittenBeside(s, Origins \ {o}, {c.name})
        /\ intact' = intact \ {s}
  /\ UNCHANGED <<page, by_frame, clears, file, author, kept>>

AddChangeListener(f) ==
  /\ Takes(f, "listen")
  /\ listeners' = [listeners EXCEPT ![f] =
       IF by_frame[f] = None THEN None ELSE [scope |-> CookieScopeKey(f), told |-> NotTold]]
  /\ UNCHANGED <<page, by_frame, clears, jar, store, file, history>>

(* The task of MbClearPageCookieStoreForSession; no observer is told.      *)
ClearPageCookieStore ==
  /\ clears # <<>>
  /\ clears' = Tail(clears)
  /\ store' = [k \in DOMAIN store |->
       IF k[1] = Head(clears) THEN [n \in Names |-> None] ELSE store[k]]
  /\ listeners' = [f \in Frames |->
       IF listeners[f] # None /\ listeners[f].scope[1] = Head(clears)
       THEN [listeners[f] EXCEPT !.told = NotTold] ELSE listeners[f]]
  /\ UNCHANGED <<page, by_frame, calls, jar, file, history>>

(* GetCookiesString and GetAllForUrl: the names in the mirror, and those   *)
(* of the jar that scripts may see.                                        *)
GetCookiesForUrl(s, h) ==
  {[name |-> k[2], value |-> jar[s][k].value] : k \in
    {k \in Places \X Names : Match(k[1], h) /\ jar[s][k] # None /\ ~jar[s][k].http_only}}

Mirrored(s, o) ==
  {[name |-> n, value |-> store[s, o][n]] : n \in {n \in Names : store[s, o][n] # None}}

GetCookiesString(s, o) ==
  Mirrored(s, o) \cup {c \in GetCookiesForUrl(s, o.host) : store[s, o][c.name] = None}

------------------------------------------------------------------------------
(* The host, and servers.  Curl files what a server sets, whoever asked,   *)
(* and drops what has expired.                                             *)
OthersWrite(s, N) ==
  /\ foreign' = foreign \cup WrittenBeside(s, Origins, N)
  /\ intact' = intact \ {s}

SetCookie(s, h, n) ==
  /\ CanWrite /\ Writes(None)
  /\ jar' = MbAddCookieToJar(s, PlaceOf(h, None), n, Next_value)
  /\ OthersWrite(s, {n})
  /\ UNCHANGED <<page, by_frame, calls, clears, store, listeners, file, kept>>

SetCookieHeader(s, p, n, http_only) ==
  /\ CanWrite /\ Writes(None)
  /\ jar' = [jar EXCEPT ![s] = AddCookie(@, p, n, Cookie(Next_value, http_only))]
  /\ OthersWrite(s, {n})
  /\ UNCHANGED <<page, by_frame, calls, clears, store, listeners, file, kept>>

CookieExpires(s, p, n) ==
  /\ jar[s][<<p, n>>] # None
  /\ jar' = [jar EXCEPT ![s] = AddCookie(@, p, n, None)]
  /\ OthersWrite(s, {n})
  /\ UNCHANGED <<page, by_frame, calls, clears, store, listeners, file, author, kept>>

(* MbWebView::ClearCookies and MbSession::ClearStorage: the jar at once,   *)
(* the mirror when the service thread comes to it.                         *)
ClearCookies(s) ==
  /\ Len(clears) < MaxCalls
  /\ jar' = [jar EXCEPT ![s] = Empty]
  /\ clears' = Append(clears, s)
  /\ intact' = intact \ {s}
  /\ UNCHANGED <<page, by_frame, calls, store, listeners, file, author, foreign, kept>>

(* A line of the file: the place has a mark in front of it when scripts    *)
(* may not see the cookie, which makes it look like a comment.             *)
Line(k, c) == [key |-> k, value |-> c.value, marked |-> c.http_only]

GetAllCookies(s) == {Line(k, jar[s][k]) : k \in {k \in Places \X Names : jar[s][k] # None}}

(* Mutant: every line with the mark of a comment is skipped.               *)
Uncommented(lines) == {l \in lines : ~l.marked}

(* MbLoadCookies takes the lines that are no comments.                     *)
CookieLines(lines) == lines

SaveCookies(key) ==
  LET s == CookieShareForKey(key) IN
  /\ file # GetAllCookies(s) \/ kept # jar[s]
  /\ file' = GetAllCookies(s)
  /\ kept' = jar[s]
  /\ intact' = {s}
  /\ UNCHANGED <<page, by_frame, calls, clears, jar, store, listeners, author, foreign>>

LoadCookies(key) ==
  LET s == CookieShareForKey(key)
      Lines(k) == {l \in CookieLines(file) : l.key = k}
      loaded == [k \in Places \X Names |->
        IF Lines(k) = {} THEN jar[s][k]
        ELSE LET l == CHOOSE l \in Lines(k) : TRUE IN Cookie(l.value, l.marked)]
  IN /\ file # {}
     /\ jar' = [jar EXCEPT ![s] = loaded]
     /\ foreign' = foreign \cup WrittenBeside(s, Origins, Names)
     /\ intact' = IF jar[s] = Empty THEN intact \cup {s} ELSE intact \ {s}
     /\ UNCHANGED <<page, by_frame, calls, clears, store, listeners, file, author, kept>>

------------------------------------------------------------------------------
Next ==
  \/ \E f \in Frames :
       \/ Commit(f) \/ DestroyFrame(f)
       \/ Listen(f) \/ AddChangeListener(f)
       \/ SetCookieFromString(f)
       \/ \E n \in Names, d \in {None, Host}, deletes \in BOOLEAN : Assign(f, n, d, deletes)
  \/ ClearPageCookieStore
  \/ \E s \in Sessions, n \in Names :
       \/ \E h \in {Host, Subdomain} : SetCookie(s, h, n)
       \/ \E p \in Places : \/ \E http_only \in BOOLEAN : SetCookieHeader(s, p, n, http_only)
                            \/ CookieExpires(s, p, n)
  \/ \E s \in Sessions : ClearCookies(s)
  \/ \E k \in Keepers : SaveCookies(k) \/ LoadCookies(k)

Spec == Init /\ [][Next]_vars

------------------------------------------------------------------------------
(* PROPERTIES                                                              *)

TypeOK ==
  /\ by_frame \in [Frames -> Sessions \cup {None}]
  /\ \A s \in Sessions, k \in Places \X Names :
       jar[s][k] = None \/ jar[s][k] \in [value : 1 .. MaxWrites, http_only : BOOLEAN]
  /\ \A k \in Sessions \X Origins, n \in Names : store[k][n] \in 1 .. MaxWrites \cup {None}

(* What the pages of an origin read under a name is in the jar, from which *)
(* requests are served, unless others have written it since or the mirror  *)
(* is about to be cleared.                                                 *)
MirrorIsTrue ==
  \A s \in Sessions, o \in Origins :
    \A c \in GetCookiesString(s, o) :
      \/ <<s, o, c.name>> \in foreign \/ s \in Range(clears)
      \/ \E p \in Places : jar[s][<<p, c.name>>] # None /\ jar[s][<<p, c.name>>].value = c.value

(* An observer knows what the pages of its session and origin last wrote,  *)
(* and what it was told was deleted is not in the jar either.              *)
ObserversKeepUp ==
  \A f \in Frames, n \in Names :
    LET l == listeners[f] IN
    l # None /\ l.told[n] # None
      => LET t == l.told[n]  s == l.scope[1] IN
         /\ l.scope = <<page[f].session, page[f].origin>>
         /\ t.value = store[l.scope][n]
         /\ t.value = None /\ <<s, l.scope[2], n>> \notin foreign => jar[s][<<t.place, n>>] = None

(* A jar that is saved and loaded into a new session comes back whole,     *)
(* with what scripts may see of it.                                        *)
SnapshotsAreWhole == \A s \in intact : jar[s] = kept

CookiesAreSound == TypeOK /\ MirrorIsTrue /\ ObserversKeepUp /\ SnapshotsAreWhole

(* No cookie that a page wrote is in the jar of another session than its   *)
(* own, which would send it (webview.h: a session isolates cookies).       *)
SessionsAreApart ==
  \A s \in Sessions, k \in Places \X Names :
    LET c == jar[s][k] IN c # None => author[c.value] \in {s, None}
=============================================================================
