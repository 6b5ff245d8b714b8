--------------------------- MODULE BroadcastChannel ---------------------------
(***************************************************************************)
(* Broadcast channels (frame/mb_broadcast_channel.cc) between the pages of *)
(* frames and workers, and the map from their keys to storage scopes by    *)
(* which cross-origin messages are withheld (frame/mb_frame_origin.cc,     *)
(* written at a frame's commit and by worker/mb_dedicated_worker_host.cc). *)
(*                                                                         *)
(* Pages run on the engine thread, or their own; what they do with their   *)
(* channels reaches the service thread in its order.  There is one name of *)
(* channels: others have their own entry of the registry.                  *)
(***************************************************************************)
EXTENDS Integers, SequencesExt

CONSTANTS
  Frames,     \* frames that are committed to one document after another
  Workers,    \* dedicated workers
  Scopes,     \* concrete scopes: [session, origin, top]
  Unknown,    \* the scope of a frame that is not in the map
  Null,       \* the scope of a worker of a data: or blob: script
  Ids,        \* channels ever opened, in their order
  MaxPosts,   \* bound: messages ever posted
  MaxCalls    \* bound: calls of an agent that are under way

Agents == Frames \cup Workers

VARIABLES
  by_frame,   \* the map: agent -> scope
  creator,    \* worker -> the frame that started it, Unknown while not running
  channel,    \* id -> the channel: where it is from, and how far it has come
  registry,   \* channels of the name, in their order
  calls,      \* agent -> what it did with its channels, under way
  posts,      \* messages posted so far
  inbox       \* id -> messages its client was sent

vars == <<by_frame, creator, channel, registry, calls, posts, inbox>>

Concrete(s) == s \notin {Unknown, Null}

NoChannel == [of |-> Unknown, scope |-> Unknown, state |-> "none"]

Init ==
  /\ by_frame = [a \in Agents |-> Unknown]
  /\ creator = [w \in Workers |-> Unknown]
  /\ channel = [i \in Ids |-> NoChannel]
  /\ registry = <<>>
  /\ calls = [a \in Agents |-> <<>>]
  /\ posts = 0
  /\ inbox = [i \in Ids |-> <<>>]

------------------------------------------------------------------------------
(* Pages.  A channel remembers the scope of the document that opened it.   *)
Open(a) == {i \in Ids : channel[i].of = a /\ channel[i].state = "open"}

Runs(a) ==
  /\ a \in Workers => creator[a] # Unknown
  /\ Len(calls[a]) < MaxCalls

NewChannel(a, i) ==
  /\ Runs(a)
  /\ channel[i] = NoChannel /\ \A j \in Ids : j < i => channel[j] # NoChannel
  /\ channel' = [channel EXCEPT ![i] = [of |-> a, scope |-> by_frame[a], state |-> "open"]]
  /\ calls' = [calls EXCEPT ![a] = Append(@, [do |-> "connect", channel |-> i])]
  /\ UNCHANGED <<by_frame, creator, registry, posts, inbox>>

Post(i) ==
  /\ channel[i].state = "open" /\ posts < MaxPosts /\ Runs(channel[i].of)
  /\ posts' = posts + 1
  /\ calls' = [calls EXCEPT ![channel[i].of] =
       Append(@, [do |-> "post", channel |-> i, message |-> posts + 1])]
  /\ UNCHANGED <<by_frame, creator, channel, registry, inbox>>

(* Closing channels is the last that is heard of them.                     *)
Closes(a, closed) ==
  /\ channel' = [i \in Ids |->
       IF i \in closed THEN [channel[i] EXCEPT !.state = "closed"] ELSE channel[i]]
  /\ calls' = [calls EXCEPT ![a] =
       @ \o SetToSeq({[do |-> "disconnect", channel |-> i] : i \in closed})]

CloseChannel(i) ==
  /\ channel[i].state = "open" /\ Runs(channel[i].of)
  /\ Closes(channel[i].of, {i})
  /\ UNCHANGED <<by_frame, creator, registry, posts, inbox>>

(* DidCommitNavigation: the channels of the document before are gone, and  *)
(* the scope is the new one's at once.                                     *)
Commit(f, s) ==
  /\ by_frame[f] # s
  /\ Closes(f, Open(f))
  /\ by_frame' = [by_frame EXCEPT ![f] = s]
  /\ UNCHANGED <<creator, registry, posts, inbox>>

(* ~MbFrameClient.                                                         *)
DestroyFrame(f) ==
  /\ by_frame[f] # Unknown
  /\ Closes(f, Open(f))
  /\ by_frame' = [by_frame EXCEPT ![f] = Unknown]
  /\ UNCHANGED <<creator, registry, posts, inbox>>

(* CreateWorkerHost: the session of the view, and the origin of the        *)
(* script's URL, whatever the frame is embedded in.                        *)
WorkerScope(s) == [s EXCEPT !.top = s.origin]

CreateWorkerHost(w, f) ==
  /\ creator[w] = Unknown /\ calls[w] = <<>>
  /\ Concrete(by_frame[f])
  /\ creator' = [creator EXCEPT ![w] = f]
  /\ \E s \in {Null, WorkerScope(by_frame[f])} : by_frame' = [by_frame EXCEPT ![w] = s]
  /\ UNCHANGED <<channel, registry, calls, posts, inbox>>

(* ~MbWorkerHostFactoryClient.                                             *)
DestroyWorker(w) ==
  /\ creator[w] # Unknown
  /\ Closes(w, Open(w))
  /\ creator' = [creator EXCEPT ![w] = Unknown]
  /\ by_frame' = [by_frame EXCEPT ![w] = Unknown]
  /\ UNCHANGED <<registry, posts, inbox>>

------------------------------------------------------------------------------
(* The service thread.                                                     *)
Takes(a, what) ==
  /\ calls[a] # <<>> /\ Head(calls[a]).do = what
  /\ calls' = [calls EXCEPT ![a] = Tail(@)]

ConnectToChannel(a) ==
  /\ Takes(a, "connect")
  /\ registry' = Append(registry, Head(calls[a]).channel)
  /\ UNCHANGED <<by_frame, creator, channel, posts, inbox>>

Scope(i) == by_frame[channel[i].of]

(* Mutant: the sender is sent what it said.                                *)
Echoes(i) == {registry[n] : n \in DOMAIN registry}

(* Mutant: nothing is withheld.                                            *)
AllOthers(i) == {registry[n] : n \in DOMAIN registry} \ {i}

(* Whom a message of channel i is sent.                                    *)
Receivers(i) ==
  {j \in {registry[n] : n \in DOMAIN registry} :
     j # i /\ ~(Concrete(Scope(i)) /\ Concrete(Scope(j)) /\ Scope(i) # Scope(j))}

(* A message of a channel that its page has closed is lost in its client.  *)
OnMessage(a) ==
  /\ Takes(a, "post")
  /\ LET m == Head(calls[a]) IN
       inbox' = [j \in Ids |->
         IF j \in Receivers(m.channel) /\ channel[j].state = "open"
         THEN Append(inbox[j], [from |-> m.channel, message |-> m.message])
         ELSE inbox[j]]
  /\ UNCHANGED <<by_frame, creator, channel, registry, posts>>

OnDisconnect(a) ==
  /\ Takes(a, "disconnect")
  /\ channel' = [channel EXCEPT ![Head(calls[a]).channel].state = "posted"]
  /\ UNCHANGED <<by_frame, creator, registry, posts, inbox>>

Destroy(i) ==
  /\ channel[i].state = "posted"
  /\ \E n \in DOMAIN registry : registry[n] = i /\ registry' = RemoveAt(registry, n)
  /\ channel' = [channel EXCEPT ![i].state = "gone"]
  /\ UNCHANGED <<by_frame, creator, calls, posts, inbox>>

Next ==
  \/ \E i \in Ids :
       Post(i) \/ CloseChannel(i) \/ Destroy(i) \/ \E a \in Agents : NewChannel(a, i)
  \/ \E f \in Frames :
       \/ DestroyFrame(f)
       \/ \E s \in Scopes : Commit(f, s)
       \/ \E w \in Workers : CreateWorkerHost(w, f)
  \/ \E w \in Workers : DestroyWorker(w)
  \/ \E a \in Agents : ConnectToChannel(a) \/ OnMessage(a) \/ OnDisconnect(a)

Spec == Init /\ [][Next]_vars

------------------------------------------------------------------------------
(* A client is never sent what it posted itself, and what one page posted, *)
(* on whichever of its channels, in the order it was posted and once.      *)
MessagesKeepTheirOrder ==
  \A j \in Ids : \A m, n \in DOMAIN inbox[j] :
    /\ inbox[j][m].from # j
    /\ m < n /\ channel[inbox[j][m].from].of = channel[inbox[j][n].from].of
         => inbox[j][m].message < inbox[j][n].message

(* Types; the registry has every channel once, and none that is destroyed. *)
TypeOK ==
  /\ by_frame \in [Agents -> Scopes \cup {Unknown, Null}]
  /\ creator \in [Workers -> Frames \cup {Unknown}]
  /\ \A n \in DOMAIN registry : channel[registry[n]].state \in {"open", "closed", "posted"}
  /\ IsInjective(registry)

ChannelsAreOrderly == TypeOK /\ MessagesKeepTheirOrder

(* The document a channel is of is not that of its agent's scope any more. *)
Moved(i) == by_frame[channel[i].of] # channel[i].scope

(* "withhold ONLY when both origins are known and differ": unless the      *)
(* scope of one has changed since the channel was opened, a message goes   *)
(* from one known scope to the same.                                       *)
WithheldAcrossScopes ==
  \A j \in Ids : inbox'[j] # inbox[j] =>
    LET i == Last(inbox'[j]).from IN
      \/ Moved(i) \/ Moved(j)
      \/ ~Concrete(channel[i].scope) \/ ~Concrete(channel[j].scope)
      \/ channel[i].scope = channel[j].scope

(* "Fan it out to every OTHER same-name channel of the SAME ORIGIN": but   *)
(* the origins are looked up when the message is handled, and the frame    *)
(* may be committed to the next document by then.                          *)
SameOriginOnly ==
  [][\A j \in Ids : inbox'[j] # inbox[j] =>
       LET i == Last(inbox'[j]).from IN
         \/ ~Concrete(channel[i].scope) \/ ~Concrete(channel[j].scope)
         \/ channel[i].scope = channel[j].scope]_vars

(* "a same-origin worker SHARES its window's IDB": but not if the window   *)
(* is embedded in another site.                                            *)
WorkersShareTheirWindowsScope ==
  [][\A w \in Workers, f \in Frames :
       CreateWorkerHost(w, f) /\ Concrete(by_frame'[w]) => by_frame'[w] = by_frame[f]]_vars
=============================================================================
