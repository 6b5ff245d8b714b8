-------------------------------- MODULE MCFetch --------------------------------
(***************************************************************************)
(* Instances of Fetch, HostRules, BlobRegistry and IDBSave for TLC: a      *)
(* request, what the host has registered about it, and blobs, which are    *)
(* read without a request or saved.  They keep different state and are     *)
(* explored side by side: `which' says whose behaviours these are.         *)
(*                                                                         *)
(* Fetch loads with every driver from a site whose backend the host has    *)
(* put elsewhere, among an origin of somebody else, one that is blocked,   *)
(* one that a hook may send any hop to, and a local file.                  *)
(***************************************************************************)
EXTENDS Fetch

CONSTANTS
  None, Empty,
  RuleUrls, UrlSets, Moves, Addresses, MaxTable, MaxViews, MaxRedirects,  \* of HostRules
  Records, Addrs, SavedBlobs                                              \* of IDBSave

ASSUME SaveAssumption == None \notin Addrs \cup SavedBlobs

VARIABLES which,
  substrings, hosts, origins, sequence, rewrites, blocks, mocks, hook, view, views, request,
  life, held, urls, mail, parts, data, asking, pending, disconnected, got, content, wanted,
  addr, record_blob, main, gathering, asked, answered, out, disturbed

blobVars == <<life, held, urls, mail, parts, data, asking, pending, disconnected, got, content,
              wanted>>
saveVars == <<addr, record_blob, main, gathering, asked, answered, out, disturbed>>
ruleVars == <<substrings, hosts, origins, sequence, rewrites, blocks, mocks, hook, view, views,
              request>>

MCWeb      == {"site", "backend", "other", "blocked"}
MCLocal    == {"file"}
MCRewrites == [u \in MCWeb \cup MCLocal |-> IF u = "site" THEN "backend" ELSE u]
MCBlocked  == {"blocked"}
MCHookTargets == {"other", "file"}
MCDrivers  == {"sync", "nav", "sub", "sse", "download"}

(* Two origins, and a page below a path of a subdomain of one.             *)
URL(scheme, host, path) == [scheme |-> scheme, host |-> host, port |-> 443, path |-> path]
HostA == <<"a">>
HostB == <<"b", "a">>
MCRuleUrls == {URL("s", HostA, <<>>), URL("s", HostB, <<"p">>), URL("t", HostA, <<>>)}
MCUrlSets  == {{URL("s", HostA, <<>>), URL("s", HostB, <<"p">>)}}
MCMoves    == {[from |-> HostA, to |-> HostB], [from |-> HostB, to |-> HostA]}

(* Registrations of headers in each of the three registries; and hooks and *)
(* the other tables.                                                       *)
Headers == INSTANCE HostRules WITH
  Urls <- RuleUrls, Substrings <- UrlSets,
  HostFilters <- {[host |-> HostA, match_subdomains |-> TRUE, path_prefix |-> <<>>]},
  OriginFilters <- {[scheme |-> "s", host |-> HostA, effective_port |-> 443,
                     path_prefix |-> <<>>]},
  Names <- {"auth", "x"}, Credentials <- {"auth"}, Moves <- {}, Addresses <- {},
  MaxRules <- 3, MaxTable <- 0, MaxViews <- 0, MaxHops <- 1

Tables == INSTANCE HostRules WITH
  Urls <- RuleUrls, Substrings <- UrlSets,
  HostFilters <- {}, OriginFilters <- {}, Names <- {}, Credentials <- {}, MaxRules <- 0,
  MaxHops <- MaxRedirects

(* Inline bytes before and after a part that has to be waited for, and two *)
(* of those; the rest from an offset on, whose end overflows when it is    *)
(* added up.                                                               *)
Blob == INSTANCE BlobRegistry WITH
  NumHandles <- 3, NumReads <- 2, MaxUint <- 15, Ranges <- {<<1, 15>>}, Urls <- {"u"},
  Shapes <- {<<"provider", "inline">>, <<"inline", "blob">>, <<"blob", "provider">>},
  InlineTexts <- {<<1>>}, ProviderTexts <- {<<2, 3>>}

SaveDB == INSTANCE IDBSave WITH
  Blobs <- SavedBlobs, blob <- record_blob, bytes <- answered

(* The others' initial states are one each.                                *)
SumInit ==
  /\ which \in {"fetch", "headers", "tables", "blobs", "save"}
  /\ Init /\ Blob!Init /\ SaveDB!Init
  /\ IF which = "tables" THEN Tables!Init ELSE Headers!Init
  /\ which # "fetch" => driver = "sync" /\ follow /\ method = "GET" /\ visible = "site"

SumNext ==
  /\ UNCHANGED which
  /\ \/ which = "fetch" /\ Next /\ UNCHANGED <<ruleVars, blobVars, saveVars>>
     \/ which = "headers" /\ Headers!Next /\ UNCHANGED <<vars, blobVars, saveVars>>
     \/ which = "tables" /\ Tables!Next /\ UNCHANGED <<vars, blobVars, saveVars>>
     \/ which = "blobs" /\ Blob!Next /\ UNCHANGED <<vars, ruleVars, saveVars>>
     \/ which = "save" /\ SaveDB!Next /\ UNCHANGED <<vars, ruleVars, blobVars>>

SumVars == <<vars, ruleVars, blobVars, saveVars, which>>

SumSpec ==
  /\ SumInit /\ [][SumNext]_SumVars
  /\ WF_vars(which = "fetch" /\ Progress)
  /\ WF_blobVars(which = "blobs" /\ Blob!Serves)
  /\ WF_saveVars(which = "save" /\ SaveDB!Proceeds)

(* Every load ends, however its servers redirect it and fail it; only a    *)
(* stream that nobody stops stays as long as its server keeps it open,     *)
(* while nothing but that transfer is awaited.  No read of a blob, no blob *)
(* that nobody holds and no save is left for ever.                         *)
LoadsEnd ==
  []<>(/\ which = "fetch" => 
           pc = "done" \/ (driver \in Streams /\ ~stop /\ pc = "transfer")
       /\ Blob!ReadsAreServed /\ Blob!DroppedBlobsGo
       /\ main = "runs")

(* Reads of blobs are whole, whatever is dropped meanwhile; a save writes  *)
(* out every record with the bytes of its own Blob.                        *)
BlobsAreSound           == Blob!BlobsAreSound
EveryRecordGetsItsBytes == [][SaveDB!WritesTheirBytes]_saveVars

(* A mock hook answers for the view it was set for, not for a later one at *)
(* its address.                                                            *)
HooksAnswerForTheirView == which = "tables" => Tables!HooksAnswerForTheirView

(* "true process-wide call order": of the headers registered for a URL the *)
(* latest goes with each hop, and none rides a redirect to another.        *)
LatestRegistrationWins ==
  [][which = "headers" /\ request'.pc \in {"sent", "mocked"} /\ request.pc = "posted"
       => Headers!LinesAreExpected']_SumVars
=============================================================================
