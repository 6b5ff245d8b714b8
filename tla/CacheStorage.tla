----------------------------- MODULE CacheStorage -----------------------------
(***************************************************************************)
(* Cache storage and storage buckets (frame/mb_cache_storage.cc,           *)
(* frame/mb_storage_buckets.cc): the process-wide CacheRegistry, the       *)
(* entries of a cache in the order they were put, the handles of the pages *)
(* on caches, and the buckets of an origin with caches of their own.       *)
(*                                                                         *)
(* A registry key is a string of segments that \x01 separates: the origin, *)
(* the bucket if any, the name of the cache.  A request is a path, a query *)
(* and the value of the one header that a Vary may name.                   *)
(***************************************************************************)
EXTENDS Integers, SequencesExt

CONSTANTS
  Origins,     \* what a frame's key is mapped to
  Buckets,     \* names of buckets
  Names,       \* names of caches
  Paths, Queries, Headers,
  Varies,      \* of a response: "none", "header" or "any" (*)
  Hosts,       \* MbBucketHost objects
  Handles,     \* MbCacheStorageCache objects
  MaxCaches,   \* bound: MbCacheData ever allocated
  MaxEntries   \* bound: entries of a cache

Fetches == [path : Paths, query : Queries, header : Headers]
Caches   == 1 .. MaxCaches
NoCache  == 0

VARIABLES
  names,       \* BucketNames()
  host,        \* the bucket a host serves and whether its pipe is open
  key,         \* host -> its ScopeKey() is in the map of frame origins
  registry,    \* CacheRegistry(): key -> cache
  entries,     \* cache -> its entries
  data_,       \* handle -> the cache it shares
  error,       \* what the last Batch was answered
  opened       \* history: cache -> the scope it was opened in, <<>> once that
               \*   bucket was deleted

vars == <<names, host, key, registry, entries, data_, error, opened>>

------------------------------------------------------------------------------
(* Requests and what they match.                                           *)
KeyMatches(e, r, ignore_search) ==
  e.path = r.path /\ (ignore_search \/ e.query = r.query)

VaryMatches(e, r) ==
  e.vary = "none" \/ (e.vary = "header" /\ e.header = r.header)

EntryMatches(e, r, ignore_search, ignore_vary) ==
  KeyMatches(e, r, ignore_search) /\ (ignore_vary \/ VaryMatches(e, r))

(* Match returns the first of these, MatchAll and Keys all.                *)
Matching(s, r, ignore_search, ignore_vary) ==
  SelectSeq(s, LAMBDA e : EntryMatches(e, r, ignore_search, ignore_vary))

Without(s, r, ignore_search, ignore_vary) ==
  SelectSeq(s, LAMBDA e : ~EntryMatches(e, r, ignore_search, ignore_vary))

(* Mutant: what the new entry replaces depends on its own Vary.            *)
PutByOwnVary(s, r, vary) ==
  LET e == [path |-> r.path, query |-> r.query, header |-> r.header, vary |-> vary] IN
    Append(SelectSeq(s, LAMBDA f : ~(KeyMatches(f, r, FALSE) /\ VaryMatches(e, f))), e)

(* One operation of a Batch.                                               *)
PutOne(s, r, vary) ==
  Append(Without(s, r, FALSE, FALSE),
         [path |-> r.path, query |-> r.query, header |-> r.header, vary |-> vary])

Operations ==
  [do : {"put"}, request : Fetches, vary : Varies]
    \cup [do : {"delete"}, request : Fetches, search : BOOLEAN, any : BOOLEAN]

Apply(s, op) ==
  IF op.do = "put" THEN PutOne(s, op.request, op.vary)
  ELSE Without(s, op.request, op.search, op.any)

------------------------------------------------------------------------------
(* Scopes.  A CacheStorage is of a frame or of a bucket's host, and asks   *)
(* the map of frame origins at every call.                                 *)
Storages == {[of |-> "frame", origin |-> o] : o \in Origins}
              \cup {[of |-> "host", host |-> h] : h \in {g \in Hosts : key[g] # NoCache}}

ScopeOf(h) == <<host[h].origin, host[h].bucket>>

Scope(s) ==
  CASE s.of = "frame"                      -> <<s.origin>>
    [] s.of = "host" /\ host[s.host].open  -> ScopeOf(s.host)
    [] OTHER                               -> <<"">>

Key(s, n) == Append(Scope(s), n)

(* The caches whose key begins with a scope: rfind(scope, 0) == 0.         *)
Found(scope) == {registry[k] : k \in {l \in DOMAIN registry : IsPrefix(scope, l)}}

Bound(s) == s.of = "frame" \/ host[s.host].open
Drop(keys) == registry' = [k \in DOMAIN registry \ keys |-> registry[k]]

NoHost == [origin |-> "", bucket |-> "", open |-> FALSE]

Init ==
  /\ names = [o \in Origins |-> {}]
  /\ host = [h \in Hosts |-> NoHost]
  /\ key = [h \in Hosts |-> NoCache]
  /\ registry = <<>>
  /\ entries = [c \in Caches |-> <<>>]
  /\ data_ = [h \in Handles |-> NoCache]
  /\ error = "kSuccess"
  /\ opened = [c \in Caches |-> <<>>]

------------------------------------------------------------------------------
(* Buckets.                                                                *)
OpenBucket(h, o, b) ==
  /\ host[h] = NoHost /\ key[h] = NoCache
  /\ names' = [names EXCEPT ![o] = @ \cup {b}]
  /\ host' = [host EXCEPT ![h] = [origin |-> o, bucket |-> b, open |-> TRUE]]
  /\ UNCHANGED <<key, registry, entries, data_, error, opened>>

(* GetCaches allocates the key of the bucket, through ScopeKey.            *)
GetCaches(h) ==
  /\ host[h].open /\ key[h] = NoCache
  /\ key' = [key EXCEPT ![h] = 1]
  /\ UNCHANGED <<names, host, registry, entries, data_, error, opened>>

(* ~MbBucketHost forgets the origin of its key; a CacheStorage may stay.   *)
CloseBucket(h) ==
  /\ host[h].open
  /\ host' = [host EXCEPT ![h].open = FALSE]
  /\ UNCHANGED <<names, key, registry, entries, data_, error, opened>>

Release(h) ==
  /\ host[h] # NoHost /\ ~host[h].open
  /\ host' = [host EXCEPT ![h] = NoHost]
  /\ key' = [key EXCEPT ![h] = NoCache]
  /\ UNCHANGED <<names, registry, entries, data_, error, opened>>

(* MbClearCacheStorageForScope.                                            *)
Clears(o, b) == Drop({k \in DOMAIN registry : IsPrefix(<<o, b>>, k)})

DeleteBucket(o, b) ==
  /\ names' = [names EXCEPT ![o] = @ \ {b}]
  /\ Clears(o, b)
  /\ opened' = [c \in Caches |-> IF opened[c] = <<o, b>> THEN <<>> ELSE opened[c]]
  /\ UNCHANGED <<host, key, entries, data_, error>>

------------------------------------------------------------------------------
(* Caches.                                                                 *)
Unused == {c \in Caches : opened[c] = <<>> /\ entries[c] = <<>>
                            /\ c \notin {registry[k] : k \in DOMAIN registry}
                            /\ \A h \in Handles : data_[h] # c}

Open(s, n, h) ==
  /\ data_[h] = NoCache
  /\ IF Key(s, n) \in DOMAIN registry
       THEN /\ data_' = [data_ EXCEPT ![h] = registry[Key(s, n)]]
            /\ UNCHANGED <<registry, opened>>
       ELSE \E c \in {d \in Unused : \A e \in Unused : d <= e} :
              /\ registry' = [k \in DOMAIN registry \cup {Key(s, n)} |->
                                IF k = Key(s, n) THEN c ELSE registry[k]]
              /\ data_' = [data_ EXCEPT ![h] = c]
              /\ opened' = [opened EXCEPT ![c] = Scope(s)]
  /\ UNCHANGED <<names, host, key, entries, error>>

(* A cache that nobody shares any more is freed.                           *)
Freed(c, reg, handles) ==
  c \notin {reg[k] : k \in DOMAIN reg} /\ \A h \in Handles : handles[h] # c

Frees(reg, handles) ==
  /\ entries' = [c \in Caches |-> IF Freed(c, reg, handles) THEN <<>> ELSE entries[c]]
  /\ opened' = [c \in Caches |-> IF Freed(c, reg, handles) THEN <<>> ELSE opened[c]]

Delete(s, n) ==
  /\ Key(s, n) \in DOMAIN registry
  /\ Drop({Key(s, n)})
  /\ Frees(registry', data_)
  /\ UNCHANGED <<names, host, key, data_, error>>

CloseHandle(h) ==
  /\ data_[h] # NoCache
  /\ data_' = [data_ EXCEPT ![h] = NoCache]
  /\ Frees(registry, data_')
  /\ UNCHANGED <<names, host, key, registry, error>>

(* A delete that matched nothing is told so.                               *)
BatchAnswer(s, op) ==
  IF op.do = "delete" /\ Apply(s, op) = s THEN "kErrorNotFound" ELSE "kSuccess"

Batch(h, op) ==
  /\ data_[h] # NoCache
  /\ error' = BatchAnswer(entries[data_[h]], op)
  /\ entries' = [entries EXCEPT ![data_[h]] = Apply(@, op)]
  /\ Len(entries'[data_[h]]) <= MaxEntries
  /\ UNCHANGED <<names, host, key, registry, data_, opened>>

Next ==
  \/ \E h \in Hosts :
       \/ \E o \in Origins, b \in Buckets : OpenBucket(h, o, b)
       \/ GetCaches(h) \/ CloseBucket(h) \/ Release(h)
  \/ \E o \in Origins, b \in Buckets : DeleteBucket(o, b)
  \/ \E s \in Storages, n \in Names : Delete(s, n) \/ \E h \in Handles : Open(s, n, h)
  \/ \E h \in Handles : CloseHandle(h) \/ \E op \in Operations : Batch(h, op)

Spec == Init /\ [][Next]_vars

------------------------------------------------------------------------------
(* "multiple entries may share a URL when they differ on the request       *)
(* headers named by the response's Vary": the request an entry was put     *)
(* with finds that entry, and not another.                                 *)
NothingIsHidden ==
  \A c \in Caches : \A i \in 1 .. Len(entries[c]) :
    entries[c][i].vary # "any" =>
      Head(Matching(entries[c], entries[c][i], FALSE, FALSE)) = entries[c][i]

(* What is found in the caches of an origin or of a bucket was put there   *)
(* by it, but for the frames of an origin, which find its buckets' too; in *)
(* a bucket, since it was last deleted.                                    *)
CachesAreApart ==
  \A s \in Storages : Bound(s) =>
    \A c \in Found(Scope(s)) :
      \/ opened[c] = Scope(s)
      \/ s.of = "frame" /\ \E b \in Buckets : opened[c] = <<s.origin, b>>

(* Types; an entry of the registry and a handle have a cache of their own. *)
TypeOK ==
  /\ names \in [Origins -> SUBSET Buckets]
  /\ host \in [Hosts -> {NoHost} \cup [origin : Origins, bucket : Buckets, open : BOOLEAN]]
  /\ \A k \in DOMAIN registry : registry[k] \in Caches
  /\ IsInjective(registry)
  /\ \A c \in Caches, i \in 1 .. MaxEntries :
       i \in DOMAIN entries[c] => [path |-> entries[c][i].path, query |-> entries[c][i].query,
                                  header |-> entries[c][i].header] \in Fetches
  /\ data_ \in [Handles -> Caches \cup {NoCache}]
  /\ error \in {"kSuccess", "kErrorNotFound"}

CachesAreSound == TypeOK /\ NothingIsHidden /\ CachesAreApart

(* "isolated cross-origin AND kept separate from the default partition":   *)
(* but caches.keys() and caches.match() of a frame go by the prefix.       *)
BucketsAreApart ==
  \A s \in Storages : Bound(s) => \A c \in Found(Scope(s)) : opened[c] = Scope(s)
=============================================================================
