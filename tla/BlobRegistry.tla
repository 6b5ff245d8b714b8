----------------------------- MODULE BlobRegistry -----------------------------
(***************************************************************************)
(* Blobs (blob/mb_blob_registry.cc).  Every object lives on the service    *)
(* thread behind a message pipe.  A registered blob assembles its bytes    *)
(* part by part: bytes that came inline, bytes that it asks a              *)
(* BytesProvider for, and slices that it reads of other blobs.  What is    *)
(* asked of it meanwhile waits.  A clone that is asked of a blob which is  *)
(* not ready is an open pipe with nothing behind it yet: messages pile up  *)
(* in it until the blob is ready and binds it.                             *)
(*                                                                         *)
(* A blob is known by its pipe.  ReadAll, ReadRange, Load and the reads of *)
(* a DataPipeGetter differ in the range and the form of what they deliver; *)
(* here they are reads of a range.                                         *)
(***************************************************************************)
EXTENDS Integers, SequencesExt

CONSTANTS
  NumHandles,     \* bound: pipes to blobs that are ever made
  NumReads,       \* bound: reads that are ever made
  Shapes,         \* bound: the kinds of the parts of a blob, in order
  InlineTexts,    \* what an inline part may hold, sequences of bytes
  ProviderTexts,  \* what a provider may be asked for
  MaxUint,        \* the largest offset or length, more than any blob has
  Ranges,         \* <<offset, length>> that are read, of numbers to MaxUint
  Urls,           \* blob: URLs
  None

Handles == 1 .. NumHandles
Reads   == 1 .. NumReads
Whole   == <<0, MaxUint>>

VARIABLES
  life,          \* handle -> "unused", "unbound", "live" or "gone"
  held,          \* handles that pages hold
  urls,          \* BlobUrlMap: url -> handle or None
  mail,          \* handle -> messages on their way to its blob
  parts,         \* handle -> parts that its blob still has to append
  data,          \* handle -> bytes it has so far
  asking,        \* handle -> the part it has asked for, or None
  pending,       \* handle -> requests that wait until it is ready
  disconnected,  \* handle -> its blob knows that the other end is closed
  got,           \* read -> the bytes delivered, or None
  (* History. *)
  content,       \* handle -> what the page made the blob of
  wanted         \* read -> what it asks for, or None

vars == <<life, held, urls, mail, parts, data, asking, pending, disconnected,
          got, content, wanted>>

Init ==
  /\ life = [h \in Handles |-> "unused"]
  /\ held = {}
  /\ urls = [u \in Urls |-> None]
  /\ mail = [h \in Handles |-> <<>>]
  /\ parts = [h \in Handles |-> <<>>]
  /\ data = [h \in Handles |-> <<>>]
  /\ asking = [h \in Handles |-> None]
  /\ pending = [h \in Handles |-> <<>>]
  /\ disconnected = [h \in Handles |-> FALSE]
  /\ got = [r \in Reads |-> None]
  /\ content = [h \in Handles |-> <<>>]
  /\ wanted = [r \in Reads |-> None]

------------------------------------------------------------------------------
(* Mutant: the end is offset + length, as it comes out.                    *)
SliceWrapping(s, range) ==
  LET end == (range[1] + range[2]) % (MaxUint + 1) IN
    SubSeq(s, range[1] + 1, IF end > Len(s) THEN Len(s) ELSE end)

(* "Overflow-safe end" of BlobRefReader::Finish and StartRange.            *)
Slice(s, range) ==
  IF range[1] >= Len(s) THEN <<>>
  ELSE SubSeq(s, range[1] + 1,
              IF range[2] > Len(s) - range[1] THEN Len(s)
              ELSE (range[1] + range[2]) % (MaxUint + 1))

(* What a range of s means.                                                *)
Section(s, range) ==
  SubSeq(s, range[1] + 1, IF range[1] + range[2] > Len(s) THEN Len(s)
                          ELSE range[1] + range[2])

IsInline(p) == p.kind = "inline"
Inline(s)   == [kind |-> "inline", bytes |-> s]

Ready(h) == life[h] = "live" /\ asking[h] = None

(* The other end of its pipe is in a page, in BlobUrlMap, or in a blob     *)
(* that is yet to read it or is reading it.                                *)
OpenEnds ==
  held \cup {urls[u] : u \in Urls}
    \cup {p.of : p \in {q \in UNION {ToSet(parts[h]) \cup {asking[h]} : h \in Handles} :
                          q # None /\ q.kind = "blob"}}

NextHandle(h) == life[h] = "unused" /\ \A g \in 1 .. (h - 1) : life[g] # "unused"
NextRead(r)   == wanted[r] = None /\ \A q \in 1 .. (r - 1) : wanted[q] # None

ReadOf(r, range) == [op |-> "read", by |-> r, range |-> range]
CloneOf(c)       == [op |-> "clone", to |-> c]
PartRead(h, p)   == [op |-> "part", by |-> h, range |-> p.range]

------------------------------------------------------------------------------
(* Materialize: append inline parts, ask for the next other one.           *)
FirstAsync(ps) == SelectInSeq(ps, LAMBDA p : ~IsInline(p))

Materialized(ps, d) ==
  LET n == FirstAsync(ps)
      inline == IF n = 0 THEN ps ELSE SubSeq(ps, 1, n - 1)
  IN [data   |-> d \o FlattenSeq([i \in 1 .. Len(inline) |-> inline[i].bytes]),
      asking |-> IF n = 0 THEN None ELSE ps[n],
      parts  |-> IF n = 0 THEN <<>> ELSE SubSeq(ps, n + 1, Len(ps))]

(* A part that is a blob is read with ReadAll, and sliced when it comes.   *)
Asks(h, m) == m.asking # None /\ m.asking.kind = "blob"

Bytes(piece) == IF piece.kind = "blob" THEN Section(content[piece.of], piece.range)
                ELSE piece.bytes

Pieces ==
  [kind : {"inline"}, bytes : InlineTexts]
    \cup [kind : {"provider"}, bytes : ProviderTexts]
    \cup [kind : {"blob"}, of : held, range : Ranges]

(* The pages' side.  A new Blob's parts; a part that is a blob hands its   *)
(* pipe over.  BlobRegistry.Register is synchronous.                       *)
Register(h, ps) ==
  LET m    == Materialized(ps, <<>>)
      used == {ps[i].of : i \in {j \in DOMAIN ps : ps[j].kind = "blob"}}
  IN /\ NextHandle(h)
     /\ \A i, j \in DOMAIN ps :
          i # j /\ ps[i].kind = "blob" /\ ps[j].kind = "blob" => ps[i].of # ps[j].of
     /\ life' = [life EXCEPT ![h] = "live"]
     /\ held' = (held \ used) \cup {h}
     /\ parts' = [parts EXCEPT ![h] = m.parts]
     /\ data' = [data EXCEPT ![h] = m.data]
     /\ asking' = [asking EXCEPT ![h] = m.asking]
     /\ mail' = IF Asks(h, m)
                  THEN [mail EXCEPT ![m.asking.of] = Append(@, PartRead(h, m.asking))]
                  ELSE mail
     /\ content' = [content EXCEPT
          ![h] = FlattenSeq([i \in DOMAIN ps |-> Bytes(ps[i])])]
     /\ UNCHANGED <<urls, pending, disconnected, got, wanted>>

Clone(b, c) ==
  /\ NextHandle(c)
  /\ life' = [life EXCEPT ![c] = "unbound"]
  /\ held' = held \cup {c}
  /\ mail' = [mail EXCEPT ![b] = Append(@, CloneOf(c))]
  /\ content' = [content EXCEPT ![c] = content[b]]
  /\ UNCHANGED <<urls, parts, data, asking, pending, disconnected, got, wanted>>

Read(h, r, range) ==
  /\ h \in held /\ NextRead(r)
  /\ mail' = [mail EXCEPT ![h] = Append(@, ReadOf(r, range))]
  /\ wanted' = [wanted EXCEPT ![r] = Section(content[h], range)]
  /\ UNCHANGED <<life, held, urls, parts, data, asking, pending, disconnected,
                 got, content>>

Drop(h) ==
  /\ h \in held
  /\ held' = held \ {h}
  /\ UNCHANGED <<life, urls, mail, parts, data, asking, pending, disconnected,
                 got, content, wanted>>

(* BlobURLStore; a factory that it resolves a URL to holds a clone.        *)
RegisterUrl(u, h) ==
  /\ h \in held
  /\ held' = held \ {h}
  /\ urls' = [urls EXCEPT ![u] = h]
  /\ UNCHANGED <<life, mail, parts, data, asking, pending, disconnected, got,
                 content, wanted>>

Revoke(u) ==
  /\ urls[u] # None
  /\ urls' = [urls EXCEPT ![u] = None]
  /\ UNCHANGED <<life, held, mail, parts, data, asking, pending, disconnected,
                 got, content, wanted>>

Resolve(u, c) == urls[u] # None /\ Clone(urls[u], c)

------------------------------------------------------------------------------
(* The service thread serves the requests ms with the bytes d: readers get *)
(* them, clones are bound and have them all, and the reader of a part has  *)
(* them for the blob that asked for it.                                    *)
Bound(ms)  == {ms[i].to : i \in {j \in DOMAIN ms : ms[j].op = "clone"}}
Told(ms)   == {ms[i] : i \in {j \in DOMAIN ms : ms[j].op = "read"}}
Parted(ms) == {ms[i] : i \in {j \in DOMAIN ms : ms[j].op = "part"}}

(* Mutant: a blob serves what it has so far.                               *)
ReadyForAnything(h) == life[h] = "live"

(* Blob methods run, or wait when the bytes are not all there.             *)
MayServe(h) == Ready(h)

Deliveries(ms, d) ==
  [r \in Reads |-> IF \E m \in Told(ms) : m.by = r
                     THEN Slice(d, (CHOOSE m \in Told(ms) : m.by = r).range)
                     ELSE got[r]]

(* The part that h asked for, once the other blob has streamed it.         *)
Arrived(h, s) == [kind |-> "arrived", bytes |-> s]

WithArrivals(ask, ms, d) ==
  [h \in Handles |-> IF \E m \in Parted(ms) : m.by = h
                       THEN Arrived(h, Slice(d, (CHOOSE m \in Parted(ms) : m.by = h).range))
                       ELSE ask[h]]

WithClones(f, ms, v) == [h \in Handles |-> IF h \in Bound(ms) THEN v ELSE f[h]]

(* A message arrives.                                                      *)
Deliver(h) ==
  /\ life[h] = "live" /\ mail[h] # <<>>
  /\ mail' = [mail EXCEPT ![h] = Tail(@)]
  /\ LET ms == <<Head(mail[h])>> IN
       IF MayServe(h)
         THEN /\ got' = Deliveries(ms, data[h])
              /\ asking' = WithArrivals(asking, ms, data[h])
              /\ life' = WithClones(life, ms, "live")
              /\ data' = WithClones(data, ms, data[h])
              /\ UNCHANGED pending
         ELSE /\ pending' = [pending EXCEPT ![h] = @ \o ms]
              /\ UNCHANGED <<got, asking, life, data>>
  /\ UNCHANGED <<held, urls, parts, disconnected, content, wanted>>

(* OnProviderBytes and OnBlobRefBytes; when no part is left the requests   *)
(* that waited are served, and the blob goes if nobody is connected to it. *)
Received(h, s) ==
  \E m \in {Materialized(parts[h], data[h] \o s)} :
    LET done == m.asking = None
        ms   == IF done THEN pending[h] ELSE <<>>
    IN /\ parts' = [parts EXCEPT ![h] = m.parts]
       /\ data' = WithClones([data EXCEPT ![h] = m.data], ms, m.data)
       /\ asking' = WithArrivals([asking EXCEPT ![h] = m.asking], ms, m.data)
       /\ life' = WithClones([life EXCEPT ![h] = IF done /\ disconnected[h] THEN "gone" ELSE @],
                             ms, "live")
       /\ got' = Deliveries(ms, m.data)
       /\ pending' = IF done THEN [pending EXCEPT ![h] = <<>>] ELSE pending
       /\ mail' = IF Asks(h, m)
                    THEN [mail EXCEPT ![m.asking.of] = Append(@, PartRead(h, m.asking))]
                    ELSE mail
       /\ UNCHANGED <<held, urls, disconnected, content, wanted>>

OnProviderBytes(h) ==
  /\ life[h] = "live" /\ asking[h] # None /\ asking[h].kind = "provider"
  /\ Received(h, asking[h].bytes)

OnBlobRefBytes(h) ==
  /\ life[h] = "live" /\ asking[h] # None /\ asking[h].kind = "arrived"
  /\ Received(h, asking[h].bytes)

(* Mutants: a blob goes with its pipe, as it did when the pipe owned it;   *)
(* it is left to its last request.                                         *)
DeletableAtOnce(h) == TRUE
NeverDeletable(h)  == FALSE

(* MaybeDelete.                                                            *)
Deletable(h) == Ready(h)

(* The pipe has nothing left and its other end is closed.  A clone is      *)
(* always ready: its pipe owns it.                                         *)
OnPipeDisconnected(h) ==
  /\ life[h] = "live" /\ ~disconnected[h] /\ mail[h] = <<>> /\ h \notin OpenEnds
  /\ disconnected' = [disconnected EXCEPT ![h] = TRUE]
  /\ life' = IF Deletable(h) THEN [life EXCEPT ![h] = "gone"] ELSE life
  /\ UNCHANGED <<held, urls, mail, parts, data, asking, pending, got, content, wanted>>

------------------------------------------------------------------------------
PieceLists ==
  UNION {{ps \in [DOMAIN shape -> Pieces] : \A i \in DOMAIN ps : ps[i].kind = shape[i]} :
           shape \in Shapes}

Next ==
  \/ \E h \in Handles :
       \/ \E ps \in PieceLists : Register(h, ps)
       \/ \E r \in Reads, range \in Ranges : Read(h, r, range)
       \/ Drop(h)
       \/ Deliver(h) \/ OnProviderBytes(h) \/ OnBlobRefBytes(h) \/ OnPipeDisconnected(h)
  \/ \E b \in held, c \in Handles : Clone(b, c)
  \/ \E u \in Urls :
       \/ \E h \in Handles : RegisterUrl(u, h) \/ Resolve(u, h)
       \/ Revoke(u)

Spec == Init /\ [][Next]_vars

(* The service thread runs its tasks, and a provider, which lives in this  *)
(* process, answers.                                                       *)
Serves ==
  \E h \in Handles : Deliver(h) \/ OnPipeDisconnected(h) \/ OnProviderBytes(h)
                     \/ OnBlobRefBytes(h)

FairSpec == Spec /\ WF_vars(Serves)

------------------------------------------------------------------------------
Texts == Seq(Nat)

(* Types; a blob is deleted with nothing waiting in it, and an unbound     *)
(* clone is on its way to somebody.                                        *)
TypeOK ==
  /\ life \in [Handles -> {"unused", "unbound", "live", "gone"}]
  /\ held \subseteq Handles
  /\ urls \in [Urls -> Handles \cup {None}]
  /\ disconnected \in [Handles -> BOOLEAN]
  /\ \A h \in Handles :
       /\ data[h] \in Texts /\ content[h] \in Texts
       /\ life[h] # "live" => pending[h] = <<>>
       /\ life[h] = "gone" => mail[h] = <<>> /\ h \notin OpenEnds
       /\ life[h] = "unbound" =>
            \E b \in Handles : CloneOf(h) \in ToSet(mail[b]) \cup ToSet(pending[b])
  /\ \A r \in Reads : got[r] = None \/ got[r] \in Texts

(* "the clone must serve the FULLY materialized bytes", and so must reads, *)
(* loads and slices: whatever order handles are dropped and bytes arrive   *)
(* in, a reader gets all of the range it asked for, in order.              *)
ReadsAreWhole == \A r \in Reads : got[r] # None => got[r] = wanted[r]

(* Types, and what was read.                                               *)
BlobsAreSound == TypeOK /\ ReadsAreWhole

(* "the blob must outlive its own pipe until they're served": every read   *)
(* is answered, though the page has dropped its handle or revoked the URL, *)
(* and no blob that nobody is connected to is left behind.  (This is of    *)
(* the form "again and again nobody waits", which says it of each as long  *)
(* as there are finitely many.)                                            *)
ReadsAreServed == \A r \in Reads : wanted[r] # None => got[r] # None
DroppedBlobsGo == \A h \in Handles : life[h] = "live" => h \in OpenEnds

NoBlobIsForgotten == []<>(ReadsAreServed /\ DroppedBlobsGo)
=============================================================================
