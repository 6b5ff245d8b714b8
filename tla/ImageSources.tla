----------------------------- MODULE ImageSources -----------------------------
(***************************************************************************)
(* Images that the host registers under an id and pages fetch from a       *)
(* reserved host (loader/mb_url_loader.cc).  The host lends the pixels of  *)
(* a registration of the zero-copy kind; they are encoded when they are    *)
(* first fetched, and given back when the id is replaced or removed.       *)
(*                                                                         *)
(* The callback that gives pixels back is the host's and may register and  *)
(* remove images itself, in the middle of the call that gave them back:    *)
(* calls is the stack of calls that wait for their callback.               *)
(***************************************************************************)
EXTENDS Integers, SequencesExt

CONSTANTS
  Ids,
  Buffers,     \* pixels of the host
  None,
  Reenters,    \* callbacks touch the id they are called for
  MaxCalls,    \* bound: calls within each other
  MaxLends     \* bound: times a buffer is lent

VARIABLES
  sources,     \* ImageSources(): id -> entry or None
  calls,       \* calls under way, innermost first
  lent,        \* buffer -> times it was registered
  returned     \* buffer -> times its release was called

vars == <<sources, calls, lent, returned>>

(* An entry: whether it is encoded, and the pixels it borrows.             *)
Eager == [png |-> TRUE, borrowed |-> None]
Borrowed(b) == [png |-> FALSE, borrowed |-> b]

Init ==
  /\ sources = [i \in Ids |-> None]
  /\ calls = <<>>
  /\ lent = [b \in Buffers |-> 0] /\ returned = lent

(* The host's turn: its own, or a callback's.                              *)
HostRuns(i) == Len(calls) < MaxCalls
               /\ (Reenters \/ \A n \in DOMAIN calls : calls[n].id # i)

Lends(e) == IF e.borrowed = None THEN lent ELSE [lent EXCEPT ![e.borrowed] = @ + 1]

(* Mutant: the entry is erased when its callback has returned.             *)
ErasedAfterwards(i) == sources

(* ReleaseImageSourceEntry takes the entry out before it calls the host.   *)
Erased(i) == [sources EXCEPT ![i] = None]

(* MbSetImageSource, MbSetImageSourceBuffer and MbRemoveImageSource store  *)
(* entry e, or None, once the one before it has been given back.           *)
Replace(i, e) ==
  /\ HostRuns(i)
  /\ lent' = IF e = None THEN lent ELSE Lends(e)
  /\ LET old == sources[i] IN
       IF old # None /\ old.borrowed # None
       THEN /\ sources' = Erased(i)
            /\ returned' = [returned EXCEPT ![old.borrowed] = @ + 1]
            /\ calls' = <<[id |-> i, entry |-> e]>> \o calls
       ELSE /\ sources' = [sources EXCEPT ![i] = e]
            /\ UNCHANGED <<returned, calls>>

SetImageSource(i) == Replace(i, Eager)
SetImageSourceBuffer(i, b) == lent[b] < MaxLends /\ Replace(i, Borrowed(b))
RemoveImageSource(i) == Replace(i, None)

(* The callback returns, and the call stores its entry.                    *)
Returns ==
  /\ calls # <<>>
  /\ sources' = IF Head(calls).entry = None THEN sources
                ELSE [sources EXCEPT ![Head(calls).id] = Head(calls).entry]
  /\ calls' = Tail(calls)
  /\ UNCHANGED <<lent, returned>>

(* MbFindImageSource, by a page: the pixels are encoded the first time.    *)
FindImageSource(i) ==
  /\ calls = <<>>
  /\ sources[i] # None /\ ~sources[i].png
  /\ sources' = [sources EXCEPT ![i].png = TRUE]
  /\ UNCHANGED <<calls, lent, returned>>

Next ==
  \/ \E i \in Ids : \/ SetImageSource(i) \/ RemoveImageSource(i) \/ FindImageSource(i)
                    \/ \E b \in Buffers : SetImageSourceBuffer(i, b)
  \/ Returns

Spec == Init /\ [][Next]_vars

------------------------------------------------------------------------------
TypeOK ==
  /\ \A i \in Ids : sources[i] = None \/ sources[i].borrowed \in Buffers \cup {None}
  /\ \A n \in DOMAIN calls : calls[n].id \in Ids

Holding(b) ==
  Cardinality({i \in Ids : sources[i] # None /\ sources[i].borrowed = b})
    + Cardinality({n \in DOMAIN calls : calls[n].entry # None /\ calls[n].entry.borrowed = b})

(* Every loan of pixels is held by an image, or by a call that will store  *)
(* it, until it is given back, once: "the buffer must stay valid and       *)
(* unchanged until release fires: when the id is replaced or unregistered" *)
(* (webview.h).  A callback that registers its own id again breaks it: the *)
(* call it interrupts stores its entry over that.                          *)
LoansAreReturned == \A b \in Buffers : lent[b] - returned[b] = Holding(b)

ImagesAreSound == TypeOK /\ LoansAreReturned
=============================================================================
