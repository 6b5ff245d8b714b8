------------------------------- MODULE MCOrigins -------------------------------
(***************************************************************************)
(* Instances of LockManager, CacheStorage, DOMStorage, BroadcastChannel,   *)
(* CookieJar and Geolocation for TLC: what the pages of one origin share.  *)
(* They keep different state and are explored side by side: `which' says   *)
(* whose behaviours these are.  CacheStorage is there twice: one cache     *)
(* with entries, and empty caches of origins and buckets; and so is        *)
(* CookieJar: pages and their observers, and jars that are saved and       *)
(* loaded.                                                                 *)
(***************************************************************************)
EXTENDS LockManager, FiniteSets

CONSTANTS
  None, c1, c2, item,
  Frames, Starters, Workers, Scopes, Unknown, Null, Ids, MaxPosts, MaxCalls, \* of BroadcastChannel
  Watchers, Observers, MaxChanges                                            \* of Geolocation

(* Where a worker runs only the frames that start workers do anything.     *)
ASSUME ChannelsAssumption ==
  /\ Starters \subseteq Frames /\ Frames \cap Workers = {} /\ Ids \subseteq Nat /\ IsFiniteSet(Ids)
  /\ \A s \in Scopes : [s EXCEPT !.top = s.origin] \in Scopes
  /\ MaxPosts \in Nat /\ MaxChanges \in Nat

VARIABLES which,
  names, host, key, caches, entries, data_, error, opened,
  place, published, kind, bound, items, observers, calls, events, cache, pending,
  by_frame, creator, channel, registry, told, posts, inbox,
  of, session, writes, clears, jar, store, listeners, file, author, foreign, kept, intact,
  set, version, main, watch, first_done, held_at, reply, seen, runner, permission_observers,
  notices, permission, known, since, gone

cacheVars == <<names, host, key, caches, entries, data_, error, opened>>
domVars == <<place, published, kind, bound, items, observers, calls, events, cache, pending>>
bcVars == <<by_frame, creator, channel, registry, told, posts, inbox>>
cookieVars == <<of, session, writes, clears, jar, store, listeners, file, author, foreign,
                kept, intact>>
geoVars == <<set, version, main, watch, first_done, held_at, reply, seen, runner,
             permission_observers, notices, permission, known, since, gone>>

Entries == INSTANCE CacheStorage WITH
  Origins <- {"o"}, Buckets <- {}, Names <- {"n"}, Paths <- {"p"}, Queries <- {1, 2},
  Headers <- {1, 2}, Varies <- {"none", "header", "any"}, Hosts <- {}, Handles <- {"h"},
  MaxCaches <- 1, MaxEntries <- 3, registry <- caches

Caches == INSTANCE CacheStorage WITH
  Origins <- {"o", "p"}, Buckets <- {"b"}, Names <- {"n"}, Paths <- {}, Queries <- {},
  Headers <- {}, Varies <- {}, Hosts <- {"h1", "h2"}, Handles <- {"h"},
  MaxCaches <- 2, MaxEntries <- 0, registry <- caches

At(s, v, o, t, x) == [session |-> s, view |-> v, origin |-> o, top |-> t, cross_site |-> x]

(* Two views of a session and one of another, a third party, and an opaque *)
(* origin.                                                                 *)
DOM == INSTANCE DOMStorage WITH
  Contexts <- {c1, c2}, Default <- "d", Opaque <- "opaque", Keys <- {item}, MaxCalls <- 2,
  Places <- {At("d", "v", "a", "a", FALSE), At("d", "w", "a", "a", FALSE),
             At("s", "u", "a", "a", FALSE), At("d", "v", "a", "b", TRUE),
             At("d", "v", "opaque", "a", FALSE)},
  entries <- items

(* One origin, on its own and embedded in another.                         *)
ChannelScopes == {[session |-> "d", origin |-> "a", top |-> t] : t \in {"a", "b"}}

Channels == INSTANCE BroadcastChannel WITH calls <- told

(* Frames that start no worker; a frame and its worker.                    *)
FramesAlone == creator' = creator
OneFrame ==
  \A f \in Frames \ Starters : by_frame'[f] = by_frame[f] /\ told'[f] = told[f]

(* Two sessions, a host and a domain within it.                            *)
Pages == INSTANCE CookieJar WITH
  Sessions <- {"d", "s"}, Default <- "d", Frames <- {"f", "g"}, Schemes <- {"https"},
  Host <- "a", Subdomain <- "b.a", Names <- {"n"}, Keepers <- {}, MaxWrites <- 2, MaxCalls <- 1,
  page <- of, by_frame <- session, calls <- writes

Jars == INSTANCE CookieJar WITH
  Sessions <- {"d", "s"}, Default <- "d", Frames <- {}, Schemes <- {"https"},
  Host <- "a", Subdomain <- "b.a", Names <- {"n"}, Keepers <- {"", "s"}, MaxWrites <- 3,
  MaxCalls <- 1, page <- of, by_frame <- session, calls <- writes

PageOf(s, h) == [session |-> s, origin |-> [scheme |-> "https", host |-> h]]

(* A page that watches the position, and two that observe whether they may.*)
Position == INSTANCE Geolocation WITH told <- seen, observers <- permission_observers

(* The others' initial states are one each.                                *)
SumInit ==
  /\ which \in {"locks", "entries", "caches", "dom", "frames", "workers", "pages", "jars",
               "position"}
  /\ Init /\ DOM!Init /\ Channels!Init /\ Position!Init
  /\ IF which = "entries" THEN Entries!Init ELSE Caches!Init
  /\ IF which = "pages"
     THEN /\ Pages!Init
          /\ of["f"] = PageOf("s", "a")
          /\ of["g"] \in {PageOf("s", "a"), PageOf("d", "a"), PageOf("s", "b.a")}
     ELSE Jars!Init
  /\ place[c1] = At("d", "v", "a", "a", FALSE)
  /\ which # "dom" => place[c2] = place[c1] /\ \A c \in {c1, c2} : kind[c] = "ls"

Rest == <<cacheVars, domVars, bcVars, cookieVars, geoVars, which>>
SumVars == <<vars, Rest>>

SumNext ==
  /\ UNCHANGED which
  /\ \/ which = "locks" /\ Next /\ UNCHANGED Rest
     \/ /\ which = "entries" /\ Entries!Next
        /\ UNCHANGED <<vars, domVars, bcVars, cookieVars, geoVars>>
     \/ which = "caches" /\ Caches!Next /\ UNCHANGED <<vars, domVars, bcVars, cookieVars, geoVars>>
     \/ which = "dom" /\ DOM!Next /\ UNCHANGED <<vars, cacheVars, bcVars, cookieVars, geoVars>>
     \/ /\ which = "frames" /\ Channels!Next /\ FramesAlone
        /\ UNCHANGED <<vars, cacheVars, domVars, cookieVars, geoVars>>
     \/ /\ which = "workers" /\ Channels!Next /\ OneFrame
        /\ UNCHANGED <<vars, cacheVars, domVars, cookieVars, geoVars>>
     \/ which = "pages" /\ Pages!Next /\ UNCHANGED <<vars, cacheVars, domVars, bcVars, geoVars>>
     \/ which = "jars" /\ Jars!Next /\ UNCHANGED <<vars, cacheVars, domVars, bcVars, geoVars>>
     \/ /\ which = "position" /\ Position!Next
        /\ UNCHANGED <<vars, cacheVars, domVars, bcVars, cookieVars>>

SumSpec ==
  /\ SumInit /\ [][SumNext]_SumVars
  /\ WF_vars(which = "locks" /\ RunTask)
  /\ WF_vars(which = "locks" /\ \E r \in Requests : Disconnected(r))
  /\ WF_vars(which = "locks" /\ \E r \in held : Close(r))

(* A cache hides no entry, and is found where it was put; areas of DOM     *)
(* storage converge, and are those of one place; messages come in their    *)
(* order, not to their sender; what scripts read of their cookies is what  *)
(* requests send, observers know it, and a jar that was saved comes back   *)
(* whole; and pages hear of every change of the position.                  *)
SharedAsIntended ==
  /\ which = "entries" => Entries!CachesAreSound
  /\ which = "caches" => Caches!CachesAreSound
  /\ which = "dom" => DOM!StorageIsSound
  /\ Channels!ChannelsAreOrderly
  /\ which = "pages" => Pages!CookiesAreSound
  /\ which = "jars" => Jars!CookiesAreSound
  /\ Position!GeolocationIsSound

(* Messages are withheld from other scopes.                                *)
MessagesStayInTheirScope == [][Channels!WithheldAcrossScopes]_bcVars
=============================================================================
