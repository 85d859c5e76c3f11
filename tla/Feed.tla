-------------------------------- MODULE Feed --------------------------------
(***************************************************************************)
(* How a change of a companion reaches the open copies of the manager page.*)
(*                                                                         *)
(* A thread that changed the store publishes the companion's node on the   *)
(* event bus after it released the store mutex, unless the change came of  *)
(* a silent refresh or could not be saved.  The bus copies each event      *)
(* to every subscriber's channel; the subscribers of interest here are the *)
(* event streams, whose number is limited by a shared counter.  A page     *)
(* fills its copy with a snapshot when it loads, and from then on patches  *)
(* it from its stream and from the answers to its own requests.  One       *)
(* companion is modelled; its node is a version number.                    *)
(***************************************************************************)
EXTENDS Integers, FiniteSets, Sequences

CONSTANTS
  Writer,        \* threads that run an operation on the companion
  Page,          \* copies of the manager page open in browsers
  Stream,        \* connection threads that serve an event stream
  Nobody,        \* no page: the operation came from elsewhere, the peer left
  SseLimit,      \* SSE_CLIENT_LIMIT
  MaxChanges,    \* bound: changes of the companion
  MaxBreaks,     \* bound: connections the pages lose
  MaxLoads       \* bound: snapshots the pages ask for

ASSUME FeedAssumption ==
  /\ SseLimit \in Nat
  /\ MaxChanges \in Nat /\ MaxBreaks \in Nat /\ MaxLoads \in Nat
  /\ IsFiniteSet(Stream)
  /\ Nobody \notin Page

VARIABLES
  node,         \* the companion's node in the store; Gone once removed
  writer,       \* what each writer is doing
  subscribers,  \* streams whose sender is in EventBus.subscribers
  channel,      \* what each stream's channel holds
  stream,       \* what each connection thread is doing
  slots,        \* sse_clients
  feed,         \* the EventSource of each page
  breaks,       \* connections lost so far
  copy,         \* graph.companions of each page: the node it shows
  load,         \* the snapshot a page waits for
  loads,        \* snapshots asked for so far
  excused,      \* history: pages whose copy may be stale (see CopyConverges)
  untold        \* history: pages that the store's last change was kept from

streamVars == <<stream, slots, feed, breaks>>
busVars == <<subscribers, channel>>
pageVars == <<copy, load, loads, excused, untold>>
vars == <<node, writer, busVars, streamVars, pageVars>>

-----------------------------------------------------------------------------
(* Versions count the changes, so an older node is a smaller one.  Gone is  *)
(* the absent node, and final: local ids are never reused.  Blank is the    *)
(* empty graph of a page that has shown nothing yet.                        *)
Blank == -1
Gone == 0
Version == 1..(MaxChanges + 1)
Node == Version \cup {Gone}

(* Whether node n has been replaced by node m in the store.                 *)
Older(n, m) == n # Gone /\ (m = Gone \/ n < m)

(* What an operation is doing: its step, whether it changes or removes, the *)
(* node it holds, and the page that asked for it.                           *)
Does(pc, op, n, p) == [pc |-> pc, op |-> op, node |-> n, page |-> p]

IdleWriter == Does("idle", "change", Gone, Nobody)
FreeStream == [pc |-> "free", page |-> Nobody]
NoLoad == [pc |-> "none", node |-> Gone]
Asked == [pc |-> "asked", node |-> Gone]

(* The receiver exists from the subscription to the end of the stream.      *)
Receiving(s) == stream[s].pc \in {"subscribed", "open"}

(* The stream that serves page p.                                           *)
Serves(s, p) == Receiving(s) /\ stream[s].page = p

-----------------------------------------------------------------------------
(* The bus.                                                                 *)

(* Subscribers that an event still reaches.                                 *)
Live == {s \in subscribers : Receiving(s)}

(* Nothing of an event published now will reach page p: it has its snapshot *)
(* and neither has, nor is being given, a stream.                           *)
Misses(p) ==
  load[p].pc # "asked" /\ feed[p] # "live" /\ ~\E s \in Live : Serves(s, p)

(* Every live subscriber gets the event; a closed one is dropped.           *)
Publish(event) ==
  /\ subscribers' = Live
  /\ channel' = [s \in Stream |-> IF s \in Live THEN Append(channel[s], event)
                                                ELSE channel[s]]
  /\ excused' = [p \in Page |-> excused[p] \/ Misses(p)]

-----------------------------------------------------------------------------
(* Operations on the companion: update, bind, disconnect, grants, forget    *)
(* and enroll change the store and publish the node; the answer to a page's *)
(* request carries the node read once more.                                 *)

Change(t, p) ==
  /\ writer[t].pc = "idle"
  /\ node \in 1..MaxChanges
  /\ node' = node + 1
  /\ writer' = [writer EXCEPT ![t] = Does("changed", "change", Gone, p)]
  /\ untold' = {}
  /\ UNCHANGED <<busVars, streamVars, copy, load, loads, excused>>

(* The store moves on to node n and nothing is published; only a snapshot   *)
(* that is still to be read has it.                                         *)
Unannounced(n) ==
  /\ node' = n
  /\ untold' = {p \in Page : load[p].pc # "asked"}
  /\ UNCHANGED <<writer, busVars, streamVars, copy, load, loads, excused>>

(* The silent refresh stores the renewed session and never publishes; an    *)
(* operation whose save fails has changed the store in memory, and answers  *)
(* the error before it comes to publish.                                    *)
ChangeUnannounced == node \in 1..MaxChanges /\ Unannounced(node + 1)

(* A deletion whose save fails: gone from memory, and no event.             *)
RemoveUnannounced == node # Gone /\ Unannounced(Gone)

(* Mutant: the event carries the node as it was before the last change.     *)
NodeBefore(t) == IF node > 1 THEN node - 1 ELSE node

(* companion_node: the projection, under a store guard of its own.          *)
NodeNow(t) == node

(* publish_node reads the node; a companion removed meanwhile has none, and *)
(* nothing is published.                                                    *)
ReadNode(t) ==
  /\ writer[t].pc = "changed"
  /\ writer' = [writer EXCEPT ![t] =
       Does(IF node = Gone THEN "answering" ELSE "holding", @.op, NodeNow(t), @.page)]
  /\ UNCHANGED <<node, busVars, streamVars, pageVars>>

(* delete_companion: what it will publish needs no reading.                 *)
Remove(t, p) ==
  /\ writer[t].pc = "idle"
  /\ node # Gone
  /\ node' = Gone
  /\ writer' = [writer EXCEPT ![t] = Does("holding", "remove", Gone, p)]
  /\ untold' = {}
  /\ UNCHANGED <<busVars, streamVars, copy, load, loads, excused>>

(* CompanionChanged with the node it holds, or CompanionRemoved.            *)
PublishNode(t) ==
  /\ writer[t].pc = "holding"
  /\ Publish(writer[t].node)
  /\ writer' = [writer EXCEPT ![t] = Does("answering", @.op, @.node, @.page)]
  /\ UNCHANGED <<node, streamVars, copy, load, loads, untold>>

BuildAnswer(t) ==
  /\ writer[t].pc = "answering"
  /\ writer' = [writer EXCEPT ![t] =
                  IF @.page = Nobody THEN IdleWriter
                  ELSE Does("answered", @.op, NodeNow(t), @.page)]
  /\ UNCHANGED <<node, busVars, streamVars, pageVars>>

(* What a page shows is replaced; an older node over a newer excuses it.    *)
Show(p, n) ==
  /\ copy' = [copy EXCEPT ![p] = n]
  /\ excused' = [excused EXCEPT ![p] = @ \/ Older(n, copy[p])]

(* patchNode ignores a missing node; the answer to a removal removes.       *)
AnswerArrives(t) ==
  /\ writer[t].pc = "answered"
  /\ IF writer[t].op = "change" /\ writer[t].node = Gone
       THEN UNCHANGED <<copy, excused>>
       ELSE Show(writer[t].page, writer[t].node)
  /\ writer' = [writer EXCEPT ![t] = IdleWriter]
  /\ UNCHANGED <<node, busVars, streamVars, load, loads, untold>>

-----------------------------------------------------------------------------
(* The page's snapshot (loadAll): once at the start, then on Refresh.       *)

AskSnapshot(p) ==
  /\ load[p].pc = "none"
  /\ loads < MaxLoads
  /\ loads' = loads + 1
  /\ load' = [load EXCEPT ![p] = Asked]
  /\ UNCHANGED <<node, writer, busVars, streamVars, copy, excused, untold>>

(* companion_nodes; what the page missed before is in it.                   *)
ReadSnapshot(p) ==
  /\ load[p].pc = "asked"
  /\ load' = [load EXCEPT ![p] = [pc |-> "read", node |-> node]]
  /\ excused' = [excused EXCEPT ![p] = FALSE]
  /\ untold' = untold \ {p}
  /\ UNCHANGED <<node, writer, busVars, streamVars, copy, loads>>

(* The whole graph is replaced, whatever the stream patched meanwhile.      *)
SnapshotArrives(p) ==
  /\ load[p].pc = "read"
  /\ Show(p, load[p].node)
  /\ load' = [load EXCEPT ![p] = NoLoad]
  /\ UNCHANGED <<node, writer, busVars, streamVars, loads, untold>>

(* The request fails; the graph stays as it is, with a notice.              *)
LoadFails(p) ==
  /\ load[p].pc # "none"
  /\ load' = [load EXCEPT ![p] = NoLoad]
  /\ excused' = [excused EXCEPT ![p] = TRUE]
  /\ UNCHANGED <<node, writer, busVars, streamVars, copy, loads, untold>>

-----------------------------------------------------------------------------
(* The event streams.                                                       *)

(* Mutant: one client too many is let in.                                   *)
SlotFreeLate == slots <= SseLimit

(* fetch_add gives the count before the increment.                          *)
SlotFree == slots < SseLimit

(* A page connects, at first and again after its stream broke.              *)
Accept(s, p) ==
  /\ stream[s].pc = "free"
  /\ feed[p] = "connecting"
  /\ slots' = slots + 1
  /\ stream' = [stream EXCEPT ![s] =
                  [pc |-> IF SlotFree THEN "counted" ELSE "refusing", page |-> p]]
  /\ feed' = [feed EXCEPT ![p] = "waiting"]
  /\ UNCHANGED <<node, writer, busVars, breaks, pageVars>>

(* Mutant: the refusal returns the slot, and so does a guard.               *)
SlotReturnedTwice == slots - 2

SlotReturned == slots - 1

(* 503: the increment is taken back.  An EventSource gives up for good on   *)
(* an answer that is no event stream.                                       *)
Refuse(s) ==
  /\ stream[s].pc = "refusing"
  /\ slots' = SlotReturned
  /\ stream' = [stream EXCEPT ![s] = FreeStream]
  /\ feed' = [p \in Page |-> IF p = stream[s].page THEN "failed" ELSE feed[p]]
  /\ UNCHANGED <<node, writer, busVars, breaks, pageVars>>

(* The subscription comes before the head.                                  *)
Subscribe(s) ==
  /\ stream[s].pc = "counted"
  /\ stream' = [stream EXCEPT ![s].pc = "subscribed"]
  /\ subscribers' = subscribers \cup {s}
  /\ channel' = [channel EXCEPT ![s] = <<>>]
  /\ UNCHANGED <<node, writer, slots, feed, breaks, pageVars>>

SendHead(s) ==
  /\ stream[s].pc = "subscribed"
  /\ stream[s].page # Nobody
  /\ stream' = [stream EXCEPT ![s].pc = "open"]
  /\ feed' = [feed EXCEPT ![stream[s].page] = "live"]
  /\ UNCHANGED <<node, writer, busVars, slots, breaks, pageVars>>

(* Mutant: frames are held back until the page has its snapshot.            *)
DeliverLoaded(s) ==
  /\ stream[s].pc = "open"
  /\ stream[s].page # Nobody
  /\ copy[stream[s].page] # Blank
  /\ channel[s] # <<>>
  /\ channel' = [channel EXCEPT ![s] = Tail(@)]
  /\ Show(stream[s].page, Head(channel[s]))
  /\ UNCHANGED <<node, writer, subscribers, streamVars, load, loads, untold>>

(* One frame from the channel to the page's graph.                          *)
Deliver(s) ==
  /\ stream[s].pc = "open"
  /\ stream[s].page # Nobody
  /\ channel[s] # <<>>
  /\ channel' = [channel EXCEPT ![s] = Tail(@)]
  /\ Show(stream[s].page, Head(channel[s]))
  /\ UNCHANGED <<node, writer, subscribers, streamVars, load, loads, untold>>

(* Mutant: without the keepalive only a frame finds out that the peer left. *)
PeerGone(s) == stream[s].page = Nobody /\ channel[s] # <<>>

PeerLeft(s) == stream[s].page = Nobody

(* A write to a peer that has left fails: the head, a frame, or at the      *)
(* latest a keepalive.  The guard returns the slot; the bus finds the       *)
(* receiver closed when it publishes next.                                  *)
WriteFails(s) ==
  /\ Receiving(s)
  /\ PeerLeft(s)
  /\ stream' = [stream EXCEPT ![s] = FreeStream]
  /\ slots' = slots - 1
  /\ channel' = [channel EXCEPT ![s] = <<>>]
  /\ UNCHANGED <<node, writer, subscribers, feed, breaks, pageVars>>

(* A page's connection breaks; what was under way is lost, the thread does  *)
(* not know yet, and the page connects anew without another snapshot.       *)
Break(p) ==
  /\ feed[p] \in {"waiting", "live"}
  /\ breaks < MaxBreaks
  /\ breaks' = breaks + 1
  /\ feed' = [feed EXCEPT ![p] = "connecting"]
  /\ stream' = [s \in Stream |-> IF stream[s].page = p
                                   THEN [pc |-> stream[s].pc, page |-> Nobody]
                                   ELSE stream[s]]
  /\ excused' = [excused EXCEPT ![p] =
                   @ \/ \E s \in Stream : Serves(s, p) /\ channel[s] # <<>>]
  /\ UNCHANGED <<node, writer, busVars, slots, copy, load, loads, untold>>

-----------------------------------------------------------------------------
Init ==
  /\ node = 1
  /\ writer = [t \in Writer |-> IdleWriter]
  /\ subscribers = {}
  /\ channel = [s \in Stream |-> <<>>]
  /\ stream = [s \in Stream |-> FreeStream]
  /\ slots = 0
  /\ feed = [p \in Page |-> "connecting"]
  /\ breaks = 0
  /\ copy = [p \in Page |-> Blank]
  /\ load = [p \in Page |-> Asked]
  /\ loads = 0
  /\ excused = [p \in Page |-> FALSE]
  /\ untold = {}

(* The steps an operation takes once it has started.                        *)
Finish(t) ==
  ReadNode(t) \/ PublishNode(t) \/ BuildAnswer(t) \/ AnswerArrives(t)

StreamStep(s) ==
  Refuse(s) \/ Subscribe(s) \/ SendHead(s) \/ Deliver(s) \/ WriteFails(s)

PageStep(p) ==
  \/ AskSnapshot(p) \/ ReadSnapshot(p) \/ SnapshotArrives(p) \/ LoadFails(p)
  \/ Break(p)
  \/ \E s \in Stream : Accept(s, p)

Next ==
  \/ \E t \in Writer, p \in Page \cup {Nobody} : Change(t, p) \/ Remove(t, p)
  \/ \E t \in Writer : Finish(t)
  \/ ChangeUnannounced
  \/ RemoveUnannounced
  \/ \E s \in Stream : StreamStep(s)
  \/ \E p \in Page : PageStep(p)

Spec == Init /\ [][Next]_vars

(* The threads run: a connection thread writes frames, or a keepalive after *)
(* SSE_KEEPALIVE, to a browser that reads them.                             *)
Fairness == \A s \in Stream : WF_vars(StreamStep(s))

FairSpec == Spec /\ Fairness

-----------------------------------------------------------------------------
(* Properties.                                                              *)

WriterState ==
  [pc: {"idle", "changed", "holding", "answering", "answered"},
   op: {"change", "remove"}, node: Node, page: Page \cup {Nobody}]

StreamState ==
  [pc: {"free", "counted", "refusing", "subscribed", "open"},
   page: Page \cup {Nobody}]

(* Every variable has the shape the code's structures give it.              *)
TypeOK ==
  /\ node \in Node
  /\ writer \in [Writer -> WriterState]
  /\ subscribers \subseteq Stream
  /\ channel \in [Stream -> Seq(Node)]
  /\ stream \in [Stream -> StreamState]
  /\ slots \in Nat
  /\ feed \in [Page -> {"connecting", "waiting", "live", "failed"}]
  /\ breaks \in 0..MaxBreaks
  /\ copy \in [Page -> Node \cup {Blank}]
  /\ load \in [Page -> [pc: {"none", "asked", "read"}, node: Node]]
  /\ loads \in 0..MaxLoads
  /\ excused \in [Page -> BOOLEAN]
  /\ untold \subseteq Page

(* Streams that count, and those that were let in.                          *)
Counted == {s \in Stream : stream[s].pc # "free"}
Served == {s \in Stream : stream[s].pc \in {"counted", "subscribed", "open"}}

(* "Past SSE_CLIENT_LIMIT concurrent clients the refusal is an honest 503": *)
(* however streams connect, break and end, no more of them are served than  *)
(* the limit, and the counter neither leaks a slot nor frees one twice.     *)
SlotsBounded ==
  /\ Cardinality(Served) <= SseLimit
  /\ slots = Cardinality(Counted)

(* A page at rest: its snapshot is there, its stream is live and drained.   *)
AtRest(p) ==
  /\ load[p].pc = "none"
  /\ feed[p] = "live"
  /\ \A s \in Stream : Serves(s, p) => channel[s] = <<>>

(* "The node-change event every open manager copy converges on"             *)
(* (publish_node): once no operation is under way, a page at rest shows the *)
(* companion as the store has it.  Three things void it for a page until    *)
(* its next snapshot, and excused marks them: it took an older node over a  *)
(* newer one (a snapshot, an answer or an event that was overtaken), it     *)
(* lost an event with its connection, or it had no stream when one was      *)
(* published.  And it does not hold where the store's last change was one   *)
(* that publishes nothing (a silent refresh, a save that failed): untold    *)
(* marks those pages until the next change that does.                       *)
CopyConverges ==
  \A p \in Page :
    /\ AtRest(p)
    /\ ~excused[p]
    /\ p \notin untold
    /\ \A t \in Writer : writer[t].pc = "idle"
    => copy[p] = node

(* "A keepalive comment ... surfaces a vanished peer as a write error": the *)
(* thread and the slot of a page that left are given back, even when        *)
(* nothing is ever published again.                                         *)
StreamsEnd ==
  \A s \in Stream :
    Receiving(s) /\ stream[s].page = Nobody ~> stream[s].pc = "free"

(* "A client that has seen the head can then never miss a later event": a   *)
(* channel is drained to its page, or ends with its stream.                 *)
FramesDelivered ==
  \A s \in Stream : channel[s] # <<>> ~> channel[s] = <<>>

=============================================================================
