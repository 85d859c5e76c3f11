----------------------------- MODULE Feed_proofs -----------------------------
(***************************************************************************)
(* The counter of event streams and the copies of the pages, for any number*)
(* of pages, connection threads and operations: the counter counts the     *)
(* threads that count themselves in, and no more are served than the       *)
(* limit; and what the store has last published is on its way to each page.*)
(***************************************************************************)
EXTENDS Feed, FiniteSetTheorems, TLAPS

StreamsShaped == stream \in [Stream -> StreamState]

SlotsInv == StreamsShaped /\ SlotsBounded

LEMMA StreamsFinite ==
  ASSUME NEW S \in SUBSET Stream
  PROVE  IsFiniteSet(S) /\ Cardinality(S) \in Nat
  BY FeedAssumption, FS_Subset, FS_CardinalityType

LEMMA ServedCounted ==
  /\ Counted \subseteq Stream /\ Served \subseteq Counted
  /\ Counted' \subseteq Stream /\ Served' \subseteq Counted'
  BY DEF Counted, Served

LEMMA SlotsInit == Init => SlotsInv
  <1> SUFFICES ASSUME Init PROVE SlotsInv
    OBVIOUS
  <1>1. Counted = {} /\ Served = {}
    BY DEF Init, Counted, Served, FreeStream
  <1>2. SlotsBounded
    BY <1>1, FS_EmptySet, FeedAssumption DEF Init, SlotsBounded
  <1>3. StreamsShaped
    BY DEF Init, StreamsShaped, StreamState, FreeStream
  <1>4. QED
    BY <1>2, <1>3 DEF SlotsInv

(* A thread's place is replaced.                                            *)
LEMMA StreamSet ==
  ASSUME StreamsShaped, NEW s \in Stream, NEW job \in StreamState,
         stream' = [stream EXCEPT ![s] = job]
  PROVE  /\ StreamsShaped'
         /\ \A r \in Stream : stream'[r] = IF r = s THEN job ELSE stream[r]
  BY DEF StreamsShaped

(* Threads move or lose their peers, and none starts or stops counting.     *)
LEMMA SlotsKept ==
  ASSUME SlotsInv, StreamsShaped', UNCHANGED slots, Counted' = Counted,
         Served' = Served
  PROVE  SlotsInv'
  BY DEF SlotsInv, SlotsBounded

LEMMA SlotTaken ==
  ASSUME SlotsInv, NEW s \in Stream, NEW p \in Page, Accept(s, p)
  PROVE  SlotsInv'
  <1> DEFINE job == [pc |-> IF SlotFree THEN "counted" ELSE "refusing", page |-> p]
  <1>1. /\ job \in StreamState /\ job.pc # "free"
        /\ job.pc = IF SlotFree THEN "counted" ELSE "refusing"
    BY DEF StreamState
  <1>2. stream' = [stream EXCEPT ![s] = job] /\ stream[s].pc = "free"
        /\ slots' = slots + 1
    BY DEF Accept
  <1> HIDE DEF job
  <1>3. /\ StreamsShaped'
        /\ \A r \in Stream : stream'[r] = IF r = s THEN job ELSE stream[r]
    BY <1>1, <1>2, StreamSet DEF SlotsInv
  <1>4. Counted' = Counted \cup {s} /\ s \notin Counted
    BY <1>1, <1>2, <1>3 DEF Counted
  <1>5. Served' \subseteq IF SlotFree THEN Served \cup {s} ELSE Served
    BY <1>1, <1>3 DEF Served
  <1>6. Cardinality(Counted') = Cardinality(Counted) + 1
    BY <1>4, ServedCounted, StreamsFinite, FS_AddElement
  <1>7. Cardinality(Served') <= SseLimit
    <2>1. /\ Cardinality(Served) \in Nat /\ Cardinality(Served') \in Nat
          /\ Cardinality(Counted) \in Nat /\ Cardinality(Served) <= Cardinality(Counted)
      BY ServedCounted, StreamsFinite, FS_Subset
    <2>2. CASE SlotFree
      <3>1. Served' \subseteq Counted'
        BY ServedCounted
      <3>2. Cardinality(Served') <= Cardinality(Counted')
        BY <3>1, ServedCounted, StreamsFinite, FS_Subset
      <3>3. QED
        BY <1>6, <2>1, <2>2, <3>2, FeedAssumption DEF SlotFree, SlotsInv, SlotsBounded
    <2>3. CASE ~SlotFree
      <3>1. Served' \subseteq Served
        BY <1>5, <2>3
      <3>2. Cardinality(Served') <= Cardinality(Served)
        BY <3>1, ServedCounted, StreamsFinite, FS_Subset
      <3>3. QED
        BY <2>1, <3>2, FeedAssumption DEF SlotsInv, SlotsBounded
    <2>4. QED
      BY <2>2, <2>3
  <1>8. QED
    BY <1>2, <1>3, <1>6, <1>7 DEF SlotsInv, SlotsBounded

(* A refusal, or a write error on a stream that was let in.                 *)
LEMMA SlotGivenBack ==
  ASSUME SlotsInv, NEW s \in Stream, stream[s].pc # "free", slots' = slots - 1,
         stream' = [stream EXCEPT ![s] = FreeStream]
  PROVE  SlotsInv'
  <1>1. FreeStream \in StreamState /\ FreeStream.pc = "free"
    BY DEF FreeStream, StreamState
  <1>2. /\ StreamsShaped'
        /\ \A r \in Stream : stream'[r] = IF r = s THEN FreeStream ELSE stream[r]
    BY <1>1, StreamSet DEF SlotsInv
  <1>3. /\ Counted' = Counted \ {s} /\ s \in Counted /\ Served' \subseteq Served
    BY <1>1, <1>2 DEF Counted, Served
  <1>4. Cardinality(Counted') = Cardinality(Counted) - 1
    BY <1>3, ServedCounted, StreamsFinite, FS_RemoveElement
  <1>5. Cardinality(Served') <= Cardinality(Served)
    BY <1>3, ServedCounted, StreamsFinite, FS_Subset
  <1>6. Cardinality(Served) \in Nat /\ Cardinality(Served') \in Nat
    BY ServedCounted, StreamsFinite
  <1>7. QED
    BY <1>2, <1>4, <1>5, <1>6, FeedAssumption DEF SlotsInv, SlotsBounded

(* A thread that was let in goes on, or its peer leaves.                    *)
LEMMA SlotCarried ==
  ASSUME SlotsInv, NEW s \in Stream, NEW pc \in {"subscribed", "open"},
         stream[s].pc \in {"counted", "subscribed"}, UNCHANGED slots,
         stream' = [stream EXCEPT ![s].pc = pc]
  PROVE  SlotsInv'
  <1>1. StreamsShaped'
    BY DEF SlotsInv, StreamsShaped, StreamState
  <1>2. \A r \in Stream : stream'[r].pc = IF r = s THEN pc ELSE stream[r].pc
    BY DEF SlotsInv, StreamsShaped, StreamState
  <1>3. Counted' = Counted /\ Served' = Served
    BY <1>2 DEF Counted, Served
  <1>4. QED
    BY <1>1, <1>3, SlotsKept

LEMMA SlotsBreak ==
  ASSUME SlotsInv, NEW p \in Page, Break(p)
  PROVE  SlotsInv'
  <1>1. \A r \in Stream :
          /\ stream'[r] \in StreamState
          /\ stream'[r].pc = stream[r].pc
    BY DEF SlotsInv, StreamsShaped, StreamState, Break
  <1>2. StreamsShaped'
    BY <1>1 DEF Break, StreamsShaped
  <1>3. Counted' = Counted /\ Served' = Served
    BY <1>1 DEF Counted, Served
  <1>4. QED
    BY <1>2, <1>3, SlotsKept DEF Break

LEMMA SlotsStep ==
  ASSUME SlotsInv, [Next]_vars PROVE SlotsInv'
  <1>1. ASSUME UNCHANGED <<stream, slots>> PROVE SlotsInv'
    BY <1>1 DEF SlotsInv, StreamsShaped, SlotsBounded, Counted, Served
  <1>2. ASSUME NEW s \in Stream, StreamStep(s) PROVE SlotsInv'
    <2>1. CASE Refuse(s) \/ WriteFails(s)
      BY <2>1, SlotGivenBack DEF Refuse, SlotReturned, WriteFails, Receiving
    <2>2. CASE Subscribe(s) \/ SendHead(s)
      BY <2>2, SlotCarried DEF Subscribe, SendHead
    <2>3. CASE Deliver(s)
      BY <1>1, <2>3 DEF Deliver, streamVars
    <2>4. QED
      BY <1>2, <2>1, <2>2, <2>3 DEF StreamStep
  <1>3. ASSUME NEW p \in Page, PageStep(p) PROVE SlotsInv'
    <2>1. CASE AskSnapshot(p) \/ ReadSnapshot(p) \/ SnapshotArrives(p) \/ LoadFails(p)
      BY <1>1, <2>1
      DEF AskSnapshot, ReadSnapshot, SnapshotArrives, LoadFails, streamVars
    <2>2. QED
      BY <1>3, <2>1, SlotsBreak, SlotTaken DEF PageStep
  <1>4. ASSUME NEW t \in Writer, NEW p \in Page \cup {Nobody},
               Change(t, p) \/ Remove(t, p) \/ Finish(t)
        PROVE  SlotsInv'
    BY <1>1, <1>4 DEF Change, Remove, Finish, ReadNode, PublishNode, BuildAnswer,
                      AnswerArrives, streamVars
  <1>5. CASE ChangeUnannounced \/ RemoveUnannounced
    BY <1>1, <1>5 DEF ChangeUnannounced, RemoveUnannounced, Unannounced, streamVars
  <1>6. CASE UNCHANGED vars
    BY <1>1, <1>6 DEF vars, streamVars
  <1>7. QED
    BY <1>2, <1>3, <1>4, <1>5, <1>6 DEF Next

(* However many streams connect, are refused, break and end, no more of     *)
(* them are served than the limit, and the counter is their number.         *)
THEOREM SlotsCorrect == Spec => []SlotsBounded
  <1>1. SlotsInv => SlotsBounded
    BY DEF SlotsInv
  <1>2. QED
    BY <1>1, SlotsInit, SlotsStep, PTL DEF Spec

-----------------------------------------------------------------------------
(* Types.                                                                   *)

TypeInv == TypeOK /\ SlotsInv

LEMMA SlotsTyped == (SlotsInv => slots \in Nat) /\ (SlotsInv' => slots' \in Nat)
  BY StreamsFinite, ServedCounted DEF SlotsInv, SlotsBounded

LEMMA Shapes ==
  /\ FreeStream \in StreamState /\ IdleWriter \in WriterState
  /\ \A p \in {NoLoad, Asked} : p \in [pc: {"none", "asked", "read"}, node: Node]
  BY DEF FreeStream, IdleWriter, Does, NoLoad, Asked, StreamState, WriterState, Node

LEMMA DoesTyped ==
  \A pc \in {"idle", "changed", "holding", "answering", "answered"},
     op \in {"change", "remove"}, n \in Node, p \in Page \cup {Nobody} :
    Does(pc, op, n, p) \in WriterState
  BY DEF Does, WriterState

LEMMA WriterFields ==
  ASSUME TypeOK, NEW t \in Writer
  PROVE  /\ writer[t].op \in {"change", "remove"} /\ writer[t].node \in Node
         /\ writer[t].page \in Page \cup {Nobody}
  BY DEF TypeOK, WriterState

(* An operation's own steps, which touch nothing a page shows or a stream.  *)
LEMMA TypeWriter ==
  ASSUME TypeOK, NEW t \in Writer, node' \in Node, NEW w \in WriterState,
         writer' = [writer EXCEPT ![t] = w], untold' \subseteq Page,
         UNCHANGED <<busVars, streamVars, copy, load, loads, excused>>
  PROVE  TypeOK'
  BY DEF TypeOK, busVars, streamVars

(* A change that nothing tells the pages of.                                *)
LEMMA TypeUnannounced ==
  ASSUME TypeOK, ChangeUnannounced \/ RemoveUnannounced
  PROVE  TypeOK'
  <1>1. /\ untold' \subseteq Page
        /\ UNCHANGED <<writer, busVars, streamVars, copy, load, loads, excused>>
    BY DEF ChangeUnannounced, RemoveUnannounced, Unannounced
  <1>2. node' \in Node
    BY FeedAssumption DEF ChangeUnannounced, RemoveUnannounced, Unannounced, Node, Version
  <1>3. QED
    BY <1>1, <1>2 DEF TypeOK, busVars, streamVars

LEMMA PublishTyped ==
  ASSUME TypeOK, NEW event \in Node, Publish(event)
  PROVE  /\ subscribers' \subseteq Stream /\ channel' \in [Stream -> Seq(Node)]
         /\ excused' \in [Page -> BOOLEAN]
  <1>1. \A s \in Stream : channel[s] \in Seq(Node) /\ Append(channel[s], event) \in Seq(Node)
    BY DEF TypeOK
  <1>2. channel' \in [Stream -> Seq(Node)]
    BY <1>1 DEF Publish
  <1>3. subscribers' \subseteq Stream
    BY DEF Publish, Live, TypeOK
  <1>4. ASSUME NEW p \in Page PROVE (excused[p] \/ Misses(p)) \in BOOLEAN
    BY DEF TypeOK, Misses
  <1>5. excused' \in [Page -> BOOLEAN]
    BY <1>4, Zenon DEF Publish
  <1>6. QED
    BY <1>2, <1>3, <1>5

LEMMA ShowTyped ==
  ASSUME TypeOK, NEW p, NEW n \in Node, Show(p, n)
  PROVE  copy' \in [Page -> Node \cup {Blank}] /\ excused' \in [Page -> BOOLEAN]
  <1>1. copy' \in [Page -> Node \cup {Blank}]
    BY DEF TypeOK, Show
  <1>2. (excused[p] \/ Older(n, copy[p])) \in BOOLEAN
    BY DEF Older
  <1>3. excused' = [excused EXCEPT ![p] = excused[p] \/ Older(n, copy[p])]
    BY DEF Show
  <1>4. excused' \in [Page -> BOOLEAN]
    <2> DEFINE b == excused[p] \/ Older(n, copy[p])
    <2>1. b \in BOOLEAN /\ excused' = [excused EXCEPT ![p] = b]
      BY <1>2, <1>3
    <2>2. excused \in [Page -> BOOLEAN]
      BY DEF TypeOK
    <2> HIDE DEF b
    <2>3. QED
      BY <2>1, <2>2
  <1>5. QED
    BY <1>1, <1>4

LEMMA TypeOperations ==
  ASSUME TypeInv, SlotsInv', NEW t \in Writer, NEW p \in Page \cup {Nobody},
         Change(t, p) \/ Remove(t, p) \/ Finish(t)
  PROVE  TypeOK'
  <1> TypeOK /\ node \in Node
    BY DEF TypeInv, TypeOK
  <1>1. CASE Change(t, p)
    <2>1. node + 1 \in Node
      BY <1>1, FeedAssumption DEF Change, Node, Version
    <2>2. Does("changed", "change", Gone, p) \in WriterState
      BY DoesTyped DEF Node
    <2>3. QED
      BY <1>1, <2>1, <2>2, TypeWriter DEF Change
  <1>2. CASE Remove(t, p)
    <2>1. Gone \in Node /\ Does("holding", "remove", Gone, p) \in WriterState
      BY DoesTyped DEF Node
    <2>2. QED
      BY <1>2, <2>1, TypeWriter DEF Remove
  <1>3. CASE ReadNode(t)
    <2>1. PICK pc \in {"answering", "holding"} :
            writer' = [writer EXCEPT ![t] = Does(pc, writer[t].op, NodeNow(t), writer[t].page)]
      BY <1>3 DEF ReadNode
    <2>2. Does(pc, writer[t].op, NodeNow(t), writer[t].page) \in WriterState
      BY DoesTyped, WriterFields DEF NodeNow
    <2>3. QED
      BY <1>3, <2>1, <2>2, TypeWriter DEF ReadNode, pageVars, TypeOK
  <1>4. CASE BuildAnswer(t)
    <2>1. Does("answered", writer[t].op, NodeNow(t), writer[t].page) \in WriterState
      BY DoesTyped, WriterFields DEF NodeNow
    <2>2. PICK w \in WriterState : writer' = [writer EXCEPT ![t] = w]
      BY <1>4, <2>1, Shapes DEF BuildAnswer
    <2>3. QED
      BY <1>4, <2>2, TypeWriter DEF BuildAnswer, pageVars, TypeOK
  <1>5. CASE PublishNode(t)
    <2>1. Does("answering", writer[t].op, writer[t].node, writer[t].page) \in WriterState
      BY DoesTyped, WriterFields
    <2>2. writer' \in [Writer -> WriterState]
      <3>1. writer' = [writer EXCEPT ![t] =
                        Does("answering", writer[t].op, writer[t].node, writer[t].page)]
        BY <1>5 DEF PublishNode
      <3>2. QED
        BY <2>1, <3>1 DEF TypeOK
    <2>3. /\ subscribers' \subseteq Stream /\ channel' \in [Stream -> Seq(Node)]
          /\ excused' \in [Page -> BOOLEAN]
      BY <1>5, WriterFields, PublishTyped DEF PublishNode
    <2>4. QED
      BY <1>5, <2>2, <2>3 DEF PublishNode, TypeOK, streamVars
  <1>6. CASE AnswerArrives(t)
    <2>1. writer' \in [Writer -> WriterState]
      BY <1>6, Shapes DEF AnswerArrives, TypeOK
    <2>2. copy' \in [Page -> Node \cup {Blank}] /\ excused' \in [Page -> BOOLEAN]
      <3>1. CASE UNCHANGED <<copy, excused>>
        BY <3>1 DEF TypeOK
      <3>2. CASE Show(writer[t].page, writer[t].node)
        BY <3>2, WriterFields, ShowTyped
      <3>3. QED
        BY <1>6, <3>1, <3>2 DEF AnswerArrives
    <2>3. QED
      BY <1>6, <2>1, <2>2 DEF AnswerArrives, TypeOK, busVars, streamVars
  <1>7. QED
    BY <1>1, <1>2, <1>3, <1>4, <1>5, <1>6 DEF Finish

LEMMA TypePages ==
  ASSUME TypeInv, SlotsInv', NEW p \in Page, PageStep(p)
  PROVE  TypeOK'
  <1> TypeOK /\ node \in Node /\ StreamsShaped' /\ slots' \in Nat
    BY SlotsTyped DEF TypeInv, TypeOK, SlotsInv
  <1>1. CASE AskSnapshot(p)
    BY <1>1, Shapes, FeedAssumption DEF AskSnapshot, TypeOK, busVars, streamVars
  <1>2. CASE ReadSnapshot(p)
    BY <1>2 DEF ReadSnapshot, TypeOK, busVars, streamVars
  <1>3. CASE SnapshotArrives(p)
    <2>1. load[p].node \in Node
      BY DEF TypeOK
    <2>2. copy' \in [Page -> Node \cup {Blank}] /\ excused' \in [Page -> BOOLEAN]
      BY <1>3, <2>1, ShowTyped DEF SnapshotArrives
    <2>3. QED
      BY <1>3, <2>2, Shapes DEF SnapshotArrives, TypeOK, busVars, streamVars
  <1>4. CASE LoadFails(p)
    BY <1>4, Shapes DEF LoadFails, TypeOK, busVars, streamVars
  <1>5. CASE Break(p)
    <2>1. breaks' \in 0..MaxBreaks
      BY <1>5, FeedAssumption DEF Break, TypeOK
    <2>2. excused' \in [Page -> BOOLEAN]
      <3> DEFINE b == excused[p] \/ \E s \in Stream : Serves(s, p) /\ channel[s] # <<>>
      <3>1. excused' = [excused EXCEPT ![p] = b]
        BY <1>5 DEF Break
      <3>2. b \in BOOLEAN
        OBVIOUS
      <3> HIDE DEF b
      <3>3. QED
        BY <3>1, <3>2 DEF TypeOK
    <2>3. feed' \in [Page -> {"connecting", "waiting", "live", "failed"}]
      BY <1>5 DEF Break, TypeOK
    <2>4. QED
      BY <1>5, <2>1, <2>2, <2>3 DEF Break, TypeOK, StreamsShaped, busVars
  <1>6. CASE \E s \in Stream : Accept(s, p)
    <2>1. feed' \in [Page -> {"connecting", "waiting", "live", "failed"}]
      BY <1>6 DEF Accept, TypeOK
    <2>2. /\ UNCHANGED <<node, writer, busVars, breaks, pageVars>>
      BY <1>6 DEF Accept
    <2>3. QED
      BY <2>1, <2>2 DEF TypeOK, StreamsShaped, busVars, pageVars
  <1>7. QED
    BY <1>1, <1>2, <1>3, <1>4, <1>5, <1>6 DEF PageStep

LEMMA TypeStreams ==
  ASSUME TypeInv, SlotsInv', NEW s \in Stream, StreamStep(s)
  PROVE  TypeOK'
  <1> TypeOK /\ node \in Node /\ StreamsShaped' /\ slots' \in Nat
    BY SlotsTyped DEF TypeInv, TypeOK, SlotsInv
  <1> <<>> \in Seq(Node)
    OBVIOUS
  <1>1. CASE Refuse(s)
    BY <1>1 DEF Refuse, TypeOK, StreamsShaped, busVars, pageVars
  <1>2. CASE Subscribe(s)
    BY <1>2 DEF Subscribe, TypeOK, StreamsShaped, pageVars
  <1>3. CASE SendHead(s)
    BY <1>3 DEF SendHead, TypeOK, StreamsShaped, busVars, pageVars
  <1>4. CASE Deliver(s)
    <2>1. channel[s] \in Seq(Node) /\ channel[s] # <<>>
      BY <1>4 DEF Deliver, TypeOK
    <2>2. Head(channel[s]) \in Node /\ Tail(channel[s]) \in Seq(Node)
      BY <2>1
    <2>3. copy' \in [Page -> Node \cup {Blank}] /\ excused' \in [Page -> BOOLEAN]
      BY <1>4, <2>2, ShowTyped DEF Deliver
    <2>4. channel' \in [Stream -> Seq(Node)]
      BY <1>4, <2>2 DEF Deliver, TypeOK
    <2>5. QED
      BY <1>4, <2>3, <2>4 DEF Deliver, TypeOK, StreamsShaped, streamVars
  <1>5. CASE WriteFails(s)
    BY <1>5 DEF WriteFails, TypeOK, StreamsShaped, pageVars
  <1>6. QED
    BY <1>1, <1>2, <1>3, <1>4, <1>5 DEF StreamStep

LEMMA TypeInit == Init => TypeInv
  <1> SUFFICES ASSUME Init PROVE TypeInv
    OBVIOUS
  <1>1. SlotsInv
    BY SlotsInit
  <1>2. <<>> \in Seq(Node)
    OBVIOUS
  <1>3. TypeOK
    BY <1>1, <1>2, Shapes, FeedAssumption DEF Init, TypeOK, Node, Version
  <1>4. QED
    BY <1>1, <1>3 DEF TypeInv

LEMMA TypeStep ==
  ASSUME TypeInv, [Next]_vars PROVE TypeInv'
  <1>1. SlotsInv'
    BY SlotsStep DEF TypeInv
  <1>2. CASE UNCHANGED vars
    BY <1>1, <1>2 DEF vars, TypeInv, TypeOK, busVars, streamVars, pageVars
  <1>3. CASE Next
    <2>1. TypeOK'
      BY <1>1, <1>3, Nobody \in Page \cup {Nobody}, TypeOperations, TypeUnannounced,
         TypePages, TypeStreams DEF Next, TypeInv
    <2>2. QED
      BY <1>1, <2>1 DEF TypeInv
  <1>4. QED
    BY <1>2, <1>3

(* Every variable of the feed keeps its shape.                              *)
THEOREM TypeCorrect == Spec => []TypeOK
  <1>1. TypeInv => TypeOK
    BY DEF TypeInv
  <1>2. QED
    BY <1>1, TypeInit, TypeStep, PTL DEF Spec

-----------------------------------------------------------------------------
(* What pages show.  Nothing under way is newer than the store.             *)

NotNewer(v, n) == v = n \/ Older(v, n)

NothingNewer ==
  /\ \A t \in Writer :
       writer[t].pc \in {"holding", "answered"} => NotNewer(writer[t].node, node)
  /\ \A s \in Stream : \A i \in DOMAIN channel[s] : NotNewer(channel[s][i], node)
  /\ \A p \in Page : load[p].pc = "read" => NotNewer(load[p].node, node)

(* The store moves on.                                                      *)
NodeMoves ==
  \/ UNCHANGED node
  \/ node \in 1..MaxChanges /\ node' = node + 1
  \/ node # Gone /\ node' = Gone

LEMMA NewerKept ==
  ASSUME node \in Node, NodeMoves
  PROVE  \A v \in Node : NotNewer(v, node) => NotNewer(v, node')
  BY FeedAssumption DEF NodeMoves, NotNewer, Older, Node, Version, Gone

LEMMA StoreMoves ==
  ASSUME TypeOK, [Next]_vars PROVE NodeMoves
  BY DEF Next, vars, NodeMoves, Change, Remove, ChangeUnannounced, RemoveUnannounced,
         Unannounced, Finish, ReadNode, PublishNode,
         BuildAnswer, AnswerArrives, StreamStep, Refuse, Subscribe, SendHead, Deliver,
         WriteFails, PageStep, AskSnapshot, ReadSnapshot, SnapshotArrives, LoadFails,
         Break, Accept

LEMMA DoesFields ==
  \A pc, op, n, p :
    /\ Does(pc, op, n, p).pc = pc /\ Does(pc, op, n, p).op = op
    /\ Does(pc, op, n, p).node = n /\ Does(pc, op, n, p).page = p
  BY DEF Does

(* A writer's place is replaced.                                            *)
LEMMA WriterSet ==
  ASSUME TypeOK, NEW t \in Writer, NEW w, writer' = [writer EXCEPT ![t] = w]
  PROVE  \A u \in Writer : writer'[u] = IF u = t THEN w ELSE writer[u]
  BY DEF TypeOK

LEMMA NewerWriters ==
  ASSUME TypeOK, NothingNewer, [Next]_vars
  PROVE  \A t \in Writer :
           writer'[t].pc \in {"holding", "answered"} => NotNewer(writer'[t].node, node')
  <1>1. NodeMoves /\ node \in Node
    BY StoreMoves DEF TypeOK
  <1>2. \A u \in Writer : writer[u].pc \in {"holding", "answered"} =>
          NotNewer(writer[u].node, node')
    BY <1>1, NewerKept, WriterFields DEF NothingNewer
  <1>3. CASE UNCHANGED writer
    BY <1>2, <1>3
  <1>4. ASSUME NEW t \in Writer, NEW w, writer' = [writer EXCEPT ![t] = w],
               w.pc \in {"holding", "answered"} => NotNewer(w.node, node')
        PROVE  \A u \in Writer :
                 writer'[u].pc \in {"holding", "answered"} => NotNewer(writer'[u].node, node')
    BY <1>2, <1>4, WriterSet
  <1>5. ASSUME NEW t \in Writer, NEW p \in Page \cup {Nobody}, Change(t, p)
        PROVE  \A u \in Writer :
                 writer'[u].pc \in {"holding", "answered"} => NotNewer(writer'[u].node, node')
    <2>1. Does("changed", "change", Gone, p).pc = "changed"
      BY DoesFields
    <2>2. QED
      BY <1>4, <1>5, <2>1 DEF Change
  <1>6. ASSUME NEW t \in Writer, NEW p \in Page \cup {Nobody}, Remove(t, p)
        PROVE  \A u \in Writer :
                 writer'[u].pc \in {"holding", "answered"} => NotNewer(writer'[u].node, node')
    <2>1. Does("holding", "remove", Gone, p).node = Gone /\ node' = Gone
      BY <1>6, DoesFields DEF Remove
    <2>2. NotNewer(Does("holding", "remove", Gone, p).node, node')
      BY <2>1 DEF NotNewer
    <2>3. QED
      BY <1>4, <1>6, <2>2 DEF Remove
  <1>7. ASSUME NEW t \in Writer, ReadNode(t)
        PROVE  \A u \in Writer :
                 writer'[u].pc \in {"holding", "answered"} => NotNewer(writer'[u].node, node')
    <2> DEFINE w == Does(IF node = Gone THEN "answering" ELSE "holding",
                         writer[t].op, NodeNow(t), writer[t].page)
    <2>1. w.node = node /\ node' = node
      BY <1>7, DoesFields DEF ReadNode, NodeNow
    <2>2. NotNewer(w.node, node')
      BY <2>1 DEF NotNewer
    <2>3. writer' = [writer EXCEPT ![t] = w]
      BY <1>7 DEF ReadNode
    <2> HIDE DEF w
    <2>4. QED
      BY <1>4, <2>2, <2>3
  <1>8. ASSUME NEW t \in Writer, PublishNode(t)
        PROVE  \A u \in Writer :
                 writer'[u].pc \in {"holding", "answered"} => NotNewer(writer'[u].node, node')
    <2> DEFINE w == Does("answering", writer[t].op, writer[t].node, writer[t].page)
    <2>1. w.pc = "answering" /\ writer' = [writer EXCEPT ![t] = w]
      BY <1>8, DoesFields DEF PublishNode
    <2> HIDE DEF w
    <2>2. QED
      BY <1>4, <2>1
  <1>9. ASSUME NEW t \in Writer, BuildAnswer(t)
        PROVE  \A u \in Writer :
                 writer'[u].pc \in {"holding", "answered"} => NotNewer(writer'[u].node, node')
    <2> DEFINE w == IF writer[t].page = Nobody THEN IdleWriter
                      ELSE Does("answered", writer[t].op, NodeNow(t), writer[t].page)
    <2>1. writer' = [writer EXCEPT ![t] = w] /\ node' = node
      BY <1>9 DEF BuildAnswer
    <2>2. w.pc = "idle" \/ w.node = node
      BY DoesFields DEF IdleWriter, NodeNow
    <2>3. w.pc \in {"holding", "answered"} => NotNewer(w.node, node')
      BY <2>1, <2>2 DEF NotNewer
    <2> HIDE DEF w
    <2>4. QED
      BY <1>4, <2>1, <2>3
  <1>10. ASSUME NEW t \in Writer, AnswerArrives(t)
         PROVE  \A u \in Writer :
                  writer'[u].pc \in {"holding", "answered"} => NotNewer(writer'[u].node, node')
    <2>1. IdleWriter.pc = "idle" /\ writer' = [writer EXCEPT ![t] = IdleWriter]
      BY <1>10, DoesFields DEF AnswerArrives, IdleWriter
    <2>2. QED
      BY <1>4, <2>1
  <1>11. CASE \/ UNCHANGED vars
              \/ ChangeUnannounced \/ RemoveUnannounced
              \/ \E s \in Stream : StreamStep(s)
              \/ \E p \in Page : PageStep(p)
    <2>1. UNCHANGED writer
      BY <1>11 DEF vars, ChangeUnannounced, RemoveUnannounced, Unannounced, StreamStep, Refuse, Subscribe, SendHead, Deliver, WriteFails,
            PageStep, AskSnapshot, ReadSnapshot, SnapshotArrives, LoadFails, Break, Accept
    <2>2. QED
      BY <1>3, <2>1
  <1>12. QED
    BY <1>5, <1>6, <1>7, <1>8, <1>9, <1>10, <1>11 DEF Next, Finish

LEMMA NewerChannels ==
  ASSUME TypeOK, TypeOK', NothingNewer, [Next]_vars
  PROVE  \A s \in Stream : \A i \in DOMAIN channel'[s] : NotNewer(channel'[s][i], node')
  <1>1. NodeMoves /\ node \in Node
    BY StoreMoves DEF TypeOK
  <1>2. \A s \in Stream : \A i \in DOMAIN channel[s] :
          channel[s][i] \in Node /\ NotNewer(channel[s][i], node')
    <2> SUFFICES ASSUME NEW s \in Stream, NEW i \in DOMAIN channel[s]
                 PROVE  channel[s][i] \in Node /\ NotNewer(channel[s][i], node')
      OBVIOUS
    <2>1. channel[s] \in Seq(Node)
      BY DEF TypeOK
    <2>2. channel[s][i] \in Node
      BY <2>1
    <2>3. QED
      BY <1>1, <2>2, NewerKept DEF NothingNewer
  <1>3. ASSUME UNCHANGED channel
        PROVE  \A s \in Stream : \A i \in DOMAIN channel'[s] : NotNewer(channel'[s][i], node')
    BY <1>2, <1>3
  <1>4. ASSUME NEW t \in Writer, PublishNode(t)
        PROVE  \A s \in Stream : \A i \in DOMAIN channel'[s] : NotNewer(channel'[s][i], node')
    <2>1. NotNewer(writer[t].node, node')
      BY <1>1, <1>4, NewerKept, WriterFields DEF PublishNode, NothingNewer
    <2>2. ASSUME NEW s \in Stream, NEW i \in DOMAIN channel'[s]
          PROVE  NotNewer(channel'[s][i], node')
      <3>1. channel'[s] = channel[s] \/ channel'[s] = Append(channel[s], writer[t].node)
        BY <1>4 DEF PublishNode, Publish
      <3>2. channel[s] \in Seq(Node)
        BY DEF TypeOK
      <3>3. CASE channel'[s] = channel[s]
        BY <1>2, <3>3
      <3>4. CASE channel'[s] = Append(channel[s], writer[t].node)
        <4>1. \/ i \in DOMAIN channel[s] /\ channel'[s][i] = channel[s][i]
              \/ channel'[s][i] = writer[t].node
          BY <3>2, <3>4
        <4>2. QED
          BY <1>2, <2>1, <4>1
      <3>5. QED
        BY <3>1, <3>3, <3>4
    <2>3. QED
      BY <2>2
  <1>5. ASSUME NEW s \in Stream, Subscribe(s) \/ WriteFails(s)
        PROVE  \A r \in Stream : \A i \in DOMAIN channel'[r] : NotNewer(channel'[r][i], node')
    <2>1. \A r \in Stream : channel'[r] = IF r = s THEN <<>> ELSE channel[r]
      BY <1>5 DEF Subscribe, WriteFails, TypeOK
    <2>2. QED
      BY <1>2, <2>1
  <1>6. ASSUME NEW s \in Stream, Deliver(s)
        PROVE  \A r \in Stream : \A i \in DOMAIN channel'[r] : NotNewer(channel'[r][i], node')
    <2>1. channel[s] \in Seq(Node) /\ channel[s] # <<>>
      BY <1>6 DEF Deliver, TypeOK
    <2>2. \A r \in Stream : channel'[r] = IF r = s THEN Tail(channel[s]) ELSE channel[r]
      BY <1>6 DEF Deliver, TypeOK
    <2>3. \A i \in DOMAIN Tail(channel[s]) :
            i + 1 \in DOMAIN channel[s] /\ Tail(channel[s])[i] = channel[s][i + 1]
      BY <2>1
    <2>4. QED
      BY <1>2, <2>2, <2>3
  <1>7. CASE UNCHANGED vars
    BY <1>3, <1>7 DEF vars, busVars
  <1>8. ASSUME NEW p \in Page, PageStep(p) PROVE UNCHANGED channel
    BY <1>8 DEF PageStep, AskSnapshot, ReadSnapshot, SnapshotArrives, LoadFails, Break,
                Accept, busVars
  <1>9. ASSUME NEW t \in Writer, NEW p \in Page \cup {Nobody},
               \/ Change(t, p) \/ Remove(t, p) \/ ReadNode(t) \/ BuildAnswer(t)
               \/ AnswerArrives(t)
        PROVE  UNCHANGED channel
    BY <1>9 DEF Change, Remove, ReadNode, BuildAnswer, AnswerArrives, busVars
  <1>10. ASSUME NEW s \in Stream, Refuse(s) \/ SendHead(s) PROVE UNCHANGED channel
    BY <1>10 DEF Refuse, SendHead, busVars
  <1>11. ASSUME ChangeUnannounced \/ RemoveUnannounced PROVE UNCHANGED channel
    BY <1>11 DEF ChangeUnannounced, RemoveUnannounced, Unannounced, busVars
  <1>12. QED
    BY <1>3, <1>4, <1>5, <1>6, <1>7, <1>8, <1>9, <1>10, <1>11, Nobody \in Page \cup {Nobody}
    DEF Next, Finish, StreamStep

LEMMA NewerLoads ==
  ASSUME TypeOK, NothingNewer, [Next]_vars
  PROVE  \A p \in Page : load'[p].pc = "read" => NotNewer(load'[p].node, node')
  <1>1. NodeMoves /\ node \in Node
    BY StoreMoves DEF TypeOK
  <1>2. \A p \in Page : load[p].pc = "read" => NotNewer(load[p].node, node')
    <2>1. \A p \in Page : load[p].node \in Node
      BY DEF TypeOK
    <2>2. QED
      BY <1>1, <2>1, NewerKept DEF NothingNewer
  <1>3. ASSUME NEW p \in Page, ReadSnapshot(p)
        PROVE  \A q \in Page : load'[q].pc = "read" => NotNewer(load'[q].node, node')
    <2>1. \A q \in Page : load'[q] = IF q = p THEN [pc |-> "read", node |-> node] ELSE load[q]
      BY <1>3 DEF ReadSnapshot, TypeOK
    <2>2. node' = node
      BY <1>3 DEF ReadSnapshot
    <2>3. QED
      BY <1>2, <2>1, <2>2 DEF NotNewer
  <1>4. ASSUME NEW p \in Page, AskSnapshot(p) \/ SnapshotArrives(p) \/ LoadFails(p)
        PROVE  \A q \in Page : load'[q].pc = "read" => NotNewer(load'[q].node, node')
    <2>1. \A q \in Page : load'[q] = load[q] \/ load'[q].pc \in {"none", "asked"}
      BY <1>4 DEF AskSnapshot, SnapshotArrives, LoadFails, NoLoad, Asked, TypeOK
    <2>2. QED
      BY <1>2, <2>1
  <1>5. CASE UNCHANGED load
    BY <1>2, <1>5
  <1>6. ASSUME NEW p \in Page, Break(p) \/ \E s \in Stream : Accept(s, p)
        PROVE  UNCHANGED load
    BY <1>6 DEF Break, Accept, pageVars
  <1>7. CASE \/ UNCHANGED vars
             \/ \E t \in Writer, p \in Page \cup {Nobody} : Change(t, p) \/ Remove(t, p)
             \/ \E t \in Writer : Finish(t)
             \/ ChangeUnannounced \/ RemoveUnannounced
             \/ \E s \in Stream : StreamStep(s)
    BY <1>5, <1>7 DEF vars, pageVars, Change, Remove, ChangeUnannounced,
       RemoveUnannounced, Unannounced, Finish, ReadNode, PublishNode,
       BuildAnswer, AnswerArrives, StreamStep, Refuse, Subscribe, SendHead, Deliver, WriteFails
  <1>8. QED
    BY <1>3, <1>4, <1>5, <1>6, <1>7 DEF Next, PageStep

LEMMA NewerStep ==
  ASSUME TypeOK, TypeOK', NothingNewer, [Next]_vars PROVE NothingNewer'
  BY NewerWriters, NewerChannels, NewerLoads DEF NothingNewer

-----------------------------------------------------------------------------
(* A stream that receives is on the bus, and a live page has one.           *)

Attached ==
  /\ \A s \in Stream : Receiving(s) => s \in subscribers
  /\ \A p \in Page : feed[p] = "live" => \E s \in Stream : Serves(s, p)

(* What a step does to one stream is all it does to the streams.            *)
LEMMA AttachedStream ==
  ASSUME TypeOK, Attached, NEW s \in Stream, StreamStep(s)
  PROVE  Attached'
  <1>1. CASE Refuse(s)
    <2>1. \A r \in Stream : stream'[r] = IF r = s THEN FreeStream ELSE stream[r]
      BY <1>1 DEF Refuse, TypeOK
    <2>2. /\ stream[s].pc = "refusing" /\ UNCHANGED subscribers
          /\ \A p \in Page : feed'[p] = "live" => feed[p] = "live"
      BY <1>1 DEF Refuse, TypeOK, busVars
    <2>3. QED
      BY <2>1, <2>2 DEF Attached, Receiving, Serves, FreeStream
  <1>2. CASE Subscribe(s)
    <2>1. \A r \in Stream : /\ stream'[r].page = stream[r].page
                            /\ stream'[r].pc = IF r = s THEN "subscribed" ELSE stream[r].pc
      BY <1>2 DEF Subscribe, TypeOK, StreamState
    <2>2. subscribers' = subscribers \cup {s} /\ UNCHANGED feed /\ stream[s].pc = "counted"
      BY <1>2 DEF Subscribe
    <2>3. QED
      BY <2>1, <2>2 DEF Attached, Receiving, Serves
  <1>3. CASE SendHead(s)
    <2>1. \A r \in Stream : /\ stream'[r].page = stream[r].page
                            /\ stream'[r].pc = IF r = s THEN "open" ELSE stream[r].pc
      BY <1>3 DEF SendHead, TypeOK, StreamState
    <2>2. /\ stream[s].pc = "subscribed" /\ UNCHANGED subscribers
          /\ \A p \in Page : feed'[p] = "live" => feed[p] = "live" \/ p = stream[s].page
      BY <1>3 DEF SendHead, TypeOK, busVars
    <2>3. QED
      BY <2>1, <2>2 DEF Attached, Receiving, Serves
  <1>4. CASE Deliver(s)
    BY <1>4 DEF Deliver, Attached, Receiving, Serves, streamVars
  <1>5. CASE WriteFails(s)
    <2>1. \A r \in Stream : stream'[r] = IF r = s THEN FreeStream ELSE stream[r]
      BY <1>5 DEF WriteFails, TypeOK
    <2>2. stream[s].page \notin Page /\ UNCHANGED <<subscribers, feed>>
      BY <1>5, FeedAssumption DEF WriteFails, PeerLeft
    <2>3. QED
      BY <2>1, <2>2 DEF Attached, Receiving, Serves, FreeStream
  <1>6. QED
    BY <1>1, <1>2, <1>3, <1>4, <1>5 DEF StreamStep

LEMMA AttachedPage ==
  ASSUME TypeOK, Attached, NEW p \in Page, PageStep(p)
  PROVE  Attached'
  <1>1. CASE AskSnapshot(p) \/ ReadSnapshot(p) \/ SnapshotArrives(p) \/ LoadFails(p)
    BY <1>1 DEF AskSnapshot, ReadSnapshot, SnapshotArrives, LoadFails, Attached,
       Receiving, Serves, streamVars, busVars
  <1>2. CASE Break(p)
    <2>1. \A r \in Stream : /\ stream'[r].pc = stream[r].pc
                            /\ stream[r].page # p => stream'[r].page = stream[r].page
      BY <1>2 DEF Break
    <2>2. /\ UNCHANGED subscribers
          /\ \A q \in Page : feed'[q] = "live" => q # p /\ feed[q] = "live"
      BY <1>2 DEF Break, TypeOK, busVars
    <2>3. \A r \in Stream : Receiving(r)' => r \in subscribers'
      BY <2>1, <2>2 DEF Attached, Receiving
    <2>4. ASSUME NEW q \in Page, feed'[q] = "live"
          PROVE  \E r \in Stream : Serves(r, q)'
      <3>1. PICK r \in Stream : Serves(r, q)
        BY <2>2, <2>4 DEF Attached
      <3>2. Serves(r, q)'
        BY <2>1, <2>2, <2>4, <3>1 DEF Serves, Receiving
      <3>3. QED
        BY <3>2
    <2>5. QED
      BY <2>3, <2>4 DEF Attached
  <1>3. ASSUME NEW s \in Stream, Accept(s, p) PROVE Attached'
    <2>1. /\ stream[s].pc = "free" /\ UNCHANGED subscribers
          /\ \A q \in Page : feed'[q] = "live" => feed[q] = "live"
      BY <1>3 DEF Accept, TypeOK, busVars
    <2>2. \A r \in Stream : IF r = s THEN stream'[r].pc \in {"counted", "refusing"}
                                    ELSE stream'[r] = stream[r]
      BY <1>3 DEF Accept, TypeOK
    <2>3. QED
      BY <2>1, <2>2 DEF Attached, Receiving, Serves
  <1>4. QED
    BY <1>1, <1>2, <1>3 DEF PageStep

LEMMA AttachedStep ==
  ASSUME TypeOK, Attached, [Next]_vars PROVE Attached'
  <1>1. ASSUME NEW t \in Writer, PublishNode(t) PROVE Attached'
    BY <1>1 DEF PublishNode, Publish, Live, Attached, Receiving, Serves, streamVars
  <1>2. CASE UNCHANGED <<stream, feed, subscribers>>
    BY <1>2 DEF Attached, Receiving, Serves
  <1>3. ASSUME NEW t \in Writer, NEW p \in Page \cup {Nobody},
               \/ Change(t, p) \/ Remove(t, p) \/ ReadNode(t) \/ BuildAnswer(t)
               \/ AnswerArrives(t)
        PROVE  UNCHANGED <<stream, feed, subscribers>>
    BY <1>3 DEF Change, Remove, ReadNode, BuildAnswer, AnswerArrives, busVars, streamVars
  <1>4. CASE UNCHANGED vars \/ ChangeUnannounced \/ RemoveUnannounced
    BY <1>2, <1>4 DEF vars, ChangeUnannounced, RemoveUnannounced, Unannounced, busVars,
                      streamVars
  <1>5. QED
    BY <1>1, <1>2, <1>3, <1>4, AttachedStream, AttachedPage,
       Nobody \in Page \cup {Nobody} DEF Next, Finish

-----------------------------------------------------------------------------
(* Unless the store's node was kept from a page, it is shown by it, or is   *)
(* on its way to it: in the channel of its stream, held by an operation or  *)
(* about to be read by one, or in the page's snapshot.                      *)

InChannel(p) ==
  \E s \in Stream : Serves(s, p) /\ \E i \in DOMAIN channel[s] : channel[s][i] = node

HeldByWriter ==
  \/ \E t \in Writer : writer[t].pc = "holding" /\ writer[t].node = node
  \/ node # Gone /\ \E t \in Writer : writer[t].pc = "changed"

InSnapshot(p) ==
  load[p].pc = "asked" \/ (load[p].pc = "read" /\ load[p].node = node)

OnItsWay(p) == copy[p] = node \/ InChannel(p) \/ HeldByWriter \/ InSnapshot(p)

CopyInv == \A p \in Page : excused[p] \/ p \in untold \/ OnItsWay(p)

LEMMA CopyHolds == TypeOK /\ CopyInv => CopyConverges
  <1> SUFFICES ASSUME TypeOK, CopyInv, NEW p \in Page, AtRest(p), ~excused[p],
                      p \notin untold,
                      \A t \in Writer : writer[t].pc = "idle"
               PROVE  copy[p] = node
    BY DEF CopyConverges
  <1>1. ~InChannel(p)
    BY DEF AtRest, InChannel
  <1>2. ~HeldByWriter /\ ~InSnapshot(p)
    BY DEF AtRest, HeldByWriter, InSnapshot
  <1>3. QED
    BY <1>1, <1>2 DEF CopyInv, OnItsWay

(* A page that shows what came, and was not excused, has lost nothing.      *)
LEMMA ShowKeeps ==
  ASSUME TypeOK, NEW p, NEW n, Show(p, n), NotNewer(n, node), NEW q \in Page
  PROVE  /\ excused[q] => excused'[q]
         /\ q # p => copy'[q] = copy[q] /\ excused'[q] = excused[q]
         /\ ~excused'[q] /\ copy[q] = node => copy'[q] = node
         /\ q = p => copy'[q] = n
  <1>1. excused \in [Page -> BOOLEAN] /\ copy \in [Page -> Node \cup {Blank}]
    BY DEF TypeOK
  <1>2. q # p => copy'[q] = copy[q] /\ excused'[q] = excused[q]
    BY <1>1 DEF Show
  <1>3. q = p => copy'[q] = n /\ excused'[q] = (excused[q] \/ Older(n, copy[q]))
    BY <1>1, Zenon DEF Show
  <1>4. QED
    BY <1>2, <1>3 DEF NotNewer

LEMMA CopyChange ==
  ASSUME TypeOK, CopyInv, NEW t \in Writer, NEW p \in Page \cup {Nobody},
         Change(t, p) \/ Remove(t, p)
  PROVE  CopyInv'
  <1>1. CASE Change(t, p)
    <2> DEFINE w == Does("changed", "change", Gone, p)
    <2>1. w.pc = "changed" /\ writer' = [writer EXCEPT ![t] = w]
      BY <1>1, DoesFields DEF Change
    <2> HIDE DEF w
    <2>2. writer'[t].pc = "changed"
      <3>1. \A u \in Writer : writer'[u] = IF u = t THEN w ELSE writer[u]
        BY <2>1, WriterSet
      <3>2. QED
        BY <2>1, <3>1
    <2>3. node' # Gone
      BY <1>1, FeedAssumption DEF Change, Gone
    <2>4. QED
      BY <2>2, <2>3 DEF CopyInv, OnItsWay, HeldByWriter
  <1>2. CASE Remove(t, p)
    <2> DEFINE w == Does("holding", "remove", Gone, p)
    <2>1. /\ w.pc = "holding" /\ w.node = Gone /\ node' = Gone
          /\ writer' = [writer EXCEPT ![t] = w]
      BY <1>2, DoesFields DEF Remove
    <2> HIDE DEF w
    <2>2. writer'[t].pc = "holding" /\ writer'[t].node = node'
      <3>1. \A u \in Writer : writer'[u] = IF u = t THEN w ELSE writer[u]
        BY <2>1, WriterSet
      <3>2. QED
        BY <2>1, <3>1
    <2>3. QED
      BY <2>2 DEF CopyInv, OnItsWay, HeldByWriter
  <1>3. QED
    BY <1>1, <1>2

(* A change that nothing tells of is kept from every page but those whose   *)
(* snapshot is still to be read.                                            *)
LEMMA CopyUnannounced ==
  ASSUME ChangeUnannounced \/ RemoveUnannounced
  PROVE  CopyInv'
  <1>1. untold' = {p \in Page : load[p].pc # "asked"} /\ UNCHANGED load
    BY DEF ChangeUnannounced, RemoveUnannounced, Unannounced
  <1>2. QED
    BY <1>1 DEF CopyInv, OnItsWay, InSnapshot

LEMMA CopyReads ==
  ASSUME TypeOK, CopyInv, NEW t \in Writer, ReadNode(t) \/ BuildAnswer(t)
  PROVE  CopyInv'
  <1>1. UNCHANGED <<node, busVars, streamVars, pageVars>>
    BY DEF ReadNode, BuildAnswer
  <1>2. HeldByWriter => HeldByWriter'
    <2>1. CASE ReadNode(t)
      <3> DEFINE w == Does(IF node = Gone THEN "answering" ELSE "holding",
                           writer[t].op, NodeNow(t), writer[t].page)
      <3>1. /\ writer[t].pc = "changed" /\ w.node = node
            /\ node # Gone => w.pc = "holding"
        BY <2>1, DoesFields DEF ReadNode, NodeNow
      <3>2. writer' = [writer EXCEPT ![t] = w]
        BY <2>1 DEF ReadNode
      <3> HIDE DEF w
      <3>3. \A u \in Writer : writer'[u] = IF u = t THEN w ELSE writer[u]
        BY <3>2, WriterSet
      <3>4. QED
        BY <1>1, <3>1, <3>3 DEF HeldByWriter
    <2>2. CASE BuildAnswer(t)
      <3>1. writer[t].pc = "answering"
            /\ \A u \in Writer : u # t => writer'[u] = writer[u]
        BY <2>2 DEF BuildAnswer, TypeOK
      <3>2. QED
        BY <1>1, <3>1 DEF HeldByWriter
    <2>3. QED
      BY <2>1, <2>2
  <1>3. QED
    BY <1>1, <1>2 DEF CopyInv, OnItsWay, InChannel, InSnapshot, Serves, Receiving,
                      busVars, streamVars, pageVars

LEMMA CopyPublish ==
  ASSUME TypeOK, CopyInv, Attached, NEW t \in Writer, PublishNode(t)
  PROVE  CopyInv'
  <1> DEFINE w == Does("answering", writer[t].op, writer[t].node, writer[t].page)
  <1>1. w.pc = "answering" /\ writer' = [writer EXCEPT ![t] = w] /\ writer[t].pc = "holding"
    BY DoesFields DEF PublishNode
  <1> HIDE DEF w
  <1>2. \A u \in Writer : writer'[u] = IF u = t THEN w ELSE writer[u]
    BY <1>1, WriterSet
  <1>3. /\ UNCHANGED <<node, streamVars, copy, load, untold>>
        /\ \A p \in Page : excused'[p] = (excused[p] \/ Misses(p))
        /\ \A s \in Stream : channel'[s] = IF s \in Live
                                            THEN Append(channel[s], writer[t].node)
                                            ELSE channel[s]
    BY DEF PublishNode, Publish
  <1>4. SUFFICES ASSUME NEW p \in Page, ~excused'[p], p \notin untold'
                   PROVE  OnItsWay(p)'
    BY DEF CopyInv
  <1>5. ~excused[p] /\ ~Misses(p)
    BY <1>3, <1>4, Zenon
  <1>6. \A s \in Stream : Serves(s, p) => Serves(s, p)' /\ s \in Live
    BY <1>3 DEF Serves, Receiving, Live, Attached, streamVars
  <1>7. CASE copy[p] = node \/ InSnapshot(p)
    BY <1>3, <1>7 DEF OnItsWay, InSnapshot
  <1>8. CASE InChannel(p)
    <2>1. PICK s \in Stream : Serves(s, p) /\ \E i \in DOMAIN channel[s] : channel[s][i] = node
      BY <1>8 DEF InChannel
    <2>2. channel[s] \in Seq(Node)
      BY DEF TypeOK
    <2>3. \A i \in DOMAIN channel[s] : /\ i \in DOMAIN Append(channel[s], writer[t].node)
                                       /\ Append(channel[s], writer[t].node)[i] = channel[s][i]
      BY <2>2
    <2>4. \E i \in DOMAIN channel'[s] : channel'[s][i] = node'
      BY <1>3, <2>1, <2>3
    <2>5. QED
      BY <1>6, <2>1, <2>4 DEF OnItsWay, InChannel
  <1>9. CASE HeldByWriter /\ writer[t].node # node
    BY <1>1, <1>2, <1>3, <1>9 DEF OnItsWay, HeldByWriter
  <1>10. CASE writer[t].node = node
    <2>1. CASE load[p].pc = "asked"
      BY <1>3, <2>1 DEF OnItsWay, InSnapshot
    <2>2. CASE load[p].pc # "asked"
      <3>1. PICK s \in Stream : Serves(s, p)
        <4>1. feed[p] = "live" \/ \E s \in Live : Serves(s, p)
          BY <1>5, <2>2 DEF Misses
        <4>2. Live \subseteq Stream
          BY DEF Live, TypeOK
        <4>3. QED
          BY <4>1, <4>2 DEF Attached
      <3>2. channel[s] \in Seq(Node) /\ channel'[s] = Append(channel[s], writer[t].node)
        BY <1>3, <1>6, <3>1 DEF TypeOK
      <3>3. \E i \in DOMAIN channel'[s] : channel'[s][i] = writer[t].node
        <4>1. /\ Len(channel[s]) + 1 \in DOMAIN Append(channel[s], writer[t].node)
              /\ Append(channel[s], writer[t].node)[Len(channel[s]) + 1] = writer[t].node
          BY <3>2
        <4>2. QED
          BY <3>2, <4>1
      <3>4. QED
        BY <1>3, <1>6, <1>10, <3>1, <3>3 DEF OnItsWay, InChannel
    <2>3. QED
      BY <2>1, <2>2
  <1>11. QED
    BY <1>3, <1>4, <1>5, <1>7, <1>8, <1>9, <1>10 DEF CopyInv, OnItsWay

LEMMA CopyAnswer ==
  ASSUME TypeOK, CopyInv, NothingNewer, NEW t \in Writer, AnswerArrives(t)
  PROVE  CopyInv'
  <1>1. /\ writer[t].pc = "answered" /\ UNCHANGED <<node, busVars, streamVars, load, loads, untold>>
        /\ UNCHANGED <<copy, excused>> \/ Show(writer[t].page, writer[t].node)
    BY DEF AnswerArrives
  <1>2. NotNewer(writer[t].node, node)
    BY <1>1 DEF NothingNewer
  <1>3. HeldByWriter => HeldByWriter'
    BY <1>1 DEF HeldByWriter, AnswerArrives, TypeOK
  <1>4. \A p \in Page : /\ excused[p] => excused'[p]
                        /\ ~excused'[p] /\ copy[p] = node => copy'[p] = node
    BY <1>1, <1>2, ShowKeeps
  <1>5. QED
    BY <1>1, <1>3, <1>4 DEF CopyInv, OnItsWay, InChannel, InSnapshot, Serves, Receiving,
                            busVars, streamVars

LEMMA CopyPage ==
  ASSUME TypeOK, CopyInv, NothingNewer, NEW p \in Page, PageStep(p)
  PROVE  CopyInv'
  <1>1. UNCHANGED <<node, writer, channel>>
    BY DEF PageStep, AskSnapshot, ReadSnapshot, SnapshotArrives, LoadFails, Break, Accept,
           busVars
  <1>2. HeldByWriter' <=> HeldByWriter
    BY <1>1 DEF HeldByWriter
  <1>3. CASE AskSnapshot(p)
    <2>1. \A q \in Page : load'[q] = IF q = p THEN Asked ELSE load[q]
      BY <1>3 DEF AskSnapshot, TypeOK
    <2>2. \A q \in Page : InSnapshot(q) => InSnapshot(q)'
      BY <1>1, <2>1 DEF InSnapshot, Asked
    <2>3. UNCHANGED <<stream, copy, excused, untold>>
      BY <1>3 DEF AskSnapshot, streamVars
    <2>4. QED
      BY <1>1, <1>2, <2>2, <2>3 DEF CopyInv, OnItsWay, InChannel, Serves, Receiving
  <1>4. CASE ReadSnapshot(p)
    <2>1. \A q \in Page : load'[q] = IF q = p THEN [pc |-> "read", node |-> node] ELSE load[q]
      BY <1>4 DEF ReadSnapshot, TypeOK
    <2>2. \A q \in Page : q # p => /\ excused'[q] = excused[q]
                                   /\ q \in untold => q \in untold'
      BY <1>4 DEF ReadSnapshot, TypeOK
    <2>3. InSnapshot(p)' /\ \A q \in Page : q # p => InSnapshot(q)' = InSnapshot(q)
      BY <1>1, <2>1 DEF InSnapshot
    <2>4. UNCHANGED <<stream, copy>>
      BY <1>4 DEF ReadSnapshot, streamVars
    <2>5. QED
      BY <1>1, <1>2, <2>2, <2>3, <2>4 DEF CopyInv, OnItsWay, InChannel, Serves, Receiving
  <1>5. CASE SnapshotArrives(p)
    <2>1. \A q \in Page : load'[q] = IF q = p THEN NoLoad ELSE load[q]
      BY <1>5 DEF SnapshotArrives, TypeOK
    <2>2. /\ Show(p, load[p].node) /\ load[p].pc = "read" /\ UNCHANGED <<stream, untold>>
          /\ NotNewer(load[p].node, node)
      BY <1>5 DEF SnapshotArrives, streamVars, NothingNewer
    <2>3. \A q \in Page : /\ excused[q] => excused'[q]
                          /\ ~excused'[q] /\ copy[q] = node => copy'[q] = node
                          /\ q = p => copy'[q] = load[p].node
      BY <2>2, ShowKeeps
    <2>4. \A q \in Page : InSnapshot(q) => InSnapshot(q)' \/ copy'[q] = node
      BY <1>1, <2>1, <2>2, <2>3 DEF InSnapshot
    <2>5. QED
      BY <1>1, <1>2, <2>2, <2>3, <2>4 DEF CopyInv, OnItsWay, InChannel, Serves, Receiving
  <1>6. CASE LoadFails(p)
    <2>1. \A q \in Page : IF q = p THEN excused'[q]
                          ELSE load'[q] = load[q] /\ excused'[q] = excused[q]
      BY <1>6 DEF LoadFails, TypeOK
    <2>2. UNCHANGED <<stream, copy, untold>>
      BY <1>6 DEF LoadFails, streamVars
    <2>3. QED
      BY <1>1, <1>2, <2>1, <2>2 DEF CopyInv, OnItsWay, InChannel, InSnapshot, Serves, Receiving
  <1>7. CASE Break(p)
    <2> DEFINE lost == \E s \in Stream : Serves(s, p) /\ channel[s] # <<>>
    <2>1. excused' = [excused EXCEPT ![p] = excused[p] \/ lost]
      BY <1>7 DEF Break
    <2>2. \A q \in Page : excused'[q] = IF q = p THEN excused[p] \/ lost ELSE excused[q]
      BY <2>1, Zenon DEF TypeOK
    <2>3. InChannel(p) => lost
      BY DEF InChannel
    <2> HIDE DEF lost
    <2>4. \A r \in Stream : /\ stream'[r].pc = stream[r].pc
                            /\ stream[r].page # p => stream'[r].page = stream[r].page
      BY <1>7 DEF Break
    <2>5. ASSUME NEW q \in Page, q # p, InChannel(q) PROVE InChannel(q)'
      <3>1. PICK r \in Stream :
              Serves(r, q) /\ \E i \in DOMAIN channel[r] : channel[r][i] = node
        BY <2>5 DEF InChannel
      <3>2. Serves(r, q)'
        BY <2>4, <2>5, <3>1 DEF Serves, Receiving
      <3>3. QED
        BY <1>1, <3>1, <3>2 DEF InChannel
    <2>6. UNCHANGED <<copy, load, untold>>
      BY <1>7 DEF Break
    <2>7. QED
      BY <1>1, <1>2, <2>2, <2>3, <2>5, <2>6 DEF CopyInv, OnItsWay, InSnapshot
  <1>8. ASSUME NEW s \in Stream, Accept(s, p) PROVE CopyInv'
    <2>1. stream[s].pc = "free" /\ UNCHANGED <<copy, load, excused, untold>>
          /\ \A r \in Stream : r # s => stream'[r] = stream[r]
      BY <1>8 DEF Accept, TypeOK, pageVars
    <2>2. \A q \in Page : InChannel(q) => InChannel(q)'
      BY <1>1, <2>1 DEF InChannel, Serves, Receiving
    <2>3. QED
      BY <1>1, <1>2, <2>1, <2>2 DEF CopyInv, OnItsWay, InSnapshot
  <1>9. QED
    BY <1>3, <1>4, <1>5, <1>6, <1>7, <1>8 DEF PageStep

LEMMA CopyStream ==
  ASSUME TypeOK, CopyInv, NothingNewer, NEW s \in Stream, StreamStep(s)
  PROVE  CopyInv'
  <1>1. UNCHANGED <<node, writer, load, untold>>
    BY DEF StreamStep, Refuse, Subscribe, SendHead, Deliver, WriteFails, pageVars
  <1>2. ASSUME \A r \in Stream : r # s => stream'[r] = stream[r] /\ channel'[r] = channel[r],
               \A p \in Page : Serves(s, p) => Serves(s, p)' /\ channel'[s] = channel[s],
               UNCHANGED <<copy, excused>>
        PROVE  CopyInv'
    <2>1. \A p \in Page : InChannel(p) => InChannel(p)'
      BY <1>1, <1>2 DEF InChannel, Serves, Receiving
    <2>2. QED
      BY <1>1, <1>2, <2>1 DEF CopyInv, OnItsWay, HeldByWriter, InSnapshot
  <1>3. CASE Refuse(s) \/ WriteFails(s)
    <2>1. \A p \in Page : ~Serves(s, p)
      BY <1>3, FeedAssumption DEF Refuse, WriteFails, PeerLeft, Serves, Receiving
    <2>2. \A r \in Stream : r # s => stream'[r] = stream[r] /\ channel'[r] = channel[r]
      BY <1>3 DEF Refuse, WriteFails, TypeOK, busVars
    <2>3. UNCHANGED <<copy, excused>>
      BY <1>3 DEF Refuse, WriteFails, pageVars
    <2>4. QED
      BY <1>2, <2>1, <2>2, <2>3
  <1>4. CASE Subscribe(s)
    <2>1. \A p \in Page : ~Serves(s, p)
      BY <1>4 DEF Subscribe, Serves, Receiving
    <2>2. \A r \in Stream : r # s => stream'[r] = stream[r] /\ channel'[r] = channel[r]
      BY <1>4 DEF Subscribe, TypeOK
    <2>3. QED
      BY <1>2, <1>4, <2>1, <2>2 DEF Subscribe, pageVars
  <1>5. CASE SendHead(s)
    <2>1. \A r \in Stream : /\ stream'[r].page = stream[r].page
                            /\ stream'[r].pc = IF r = s THEN "open" ELSE stream[r].pc
      BY <1>5 DEF SendHead, TypeOK, StreamState
    <2>2. \A p \in Page : Serves(s, p) => Serves(s, p)'
      BY <2>1 DEF Serves, Receiving
    <2>3. \A r \in Stream : r # s => stream'[r] = stream[r]
      BY <1>5 DEF SendHead, TypeOK
    <2>4. QED
      BY <1>2, <1>5, <2>2, <2>3 DEF SendHead, busVars, pageVars
  <1>6. CASE Deliver(s)
    <2>1. channel[s] \in Seq(Node) /\ channel[s] # <<>>
      BY <1>6 DEF Deliver, TypeOK
    <2>2. \A r \in Stream : channel'[r] = IF r = s THEN Tail(channel[s]) ELSE channel[r]
      BY <1>6 DEF Deliver, TypeOK
    <2>3. /\ UNCHANGED stream /\ Show(stream[s].page, Head(channel[s]))
          /\ Receiving(s)
      BY <1>6 DEF Deliver, streamVars, Receiving
    <2>4. NotNewer(Head(channel[s]), node)
      BY <2>1 DEF NothingNewer
    <2>5. \A q \in Page :
            /\ excused[q] => excused'[q]
            /\ ~excused'[q] /\ copy[q] = node => copy'[q] = node
            /\ q = stream[s].page => copy'[q] = Head(channel[s])
      BY <2>3, <2>4, ShowKeeps
    <2>6. ASSUME NEW i \in DOMAIN channel[s], channel[s][i] = node
          PROVE  \/ Head(channel[s]) = node
                 \/ \E j \in DOMAIN Tail(channel[s]) : Tail(channel[s])[j] = node
      <3>1. CASE i = 1
        BY <2>1, <2>6, <3>1
      <3>2. CASE i # 1
        <4>1. i - 1 \in DOMAIN Tail(channel[s]) /\ Tail(channel[s])[i - 1] = channel[s][i]
          BY <2>1, <3>2
        <4>2. QED
          BY <2>6, <4>1
      <3>3. QED
        BY <3>1, <3>2
    <2>7. \A q \in Page : InChannel(q) => InChannel(q)' \/ copy'[q] = node
      <3> SUFFICES ASSUME NEW q \in Page, InChannel(q)
                   PROVE  InChannel(q)' \/ copy'[q] = node
        OBVIOUS
      <3>1. PICK r \in Stream : Serves(r, q) /\ \E i \in DOMAIN channel[r] : channel[r][i] = node
        BY DEF InChannel
      <3>2. Serves(r, q)'
        BY <2>3, <3>1 DEF Serves, Receiving
      <3>3. CASE r = s
        <4>1. CASE Head(channel[s]) = node
          <5>1. q = stream[s].page
            BY <3>1, <3>3 DEF Serves
          <5>2. QED
            BY <2>5, <4>1, <5>1
        <4>2. CASE \E j \in DOMAIN Tail(channel[s]) : Tail(channel[s])[j] = node
          <5>1. \E j \in DOMAIN channel'[s] : channel'[s][j] = node'
            BY <1>1, <2>2, <4>2
          <5>2. QED
            BY <3>2, <3>3, <5>1 DEF InChannel
        <4>3. QED
          BY <2>6, <3>1, <3>3, <4>1, <4>2
      <3>4. CASE r # s
        BY <1>1, <2>2, <3>1, <3>2, <3>4 DEF InChannel
      <3>5. QED
        BY <3>3, <3>4
    <2>8. QED
      BY <1>1, <2>5, <2>7 DEF CopyInv, OnItsWay, HeldByWriter, InSnapshot
  <1>7. QED
    BY <1>3, <1>4, <1>5, <1>6 DEF StreamStep

ConvergeInv == TypeInv /\ NothingNewer /\ Attached /\ CopyInv

LEMMA ConvergeInit == Init => ConvergeInv
  <1> SUFFICES ASSUME Init PROVE ConvergeInv
    OBVIOUS
  <1>1. TypeInv
    BY TypeInit
  <1>2. NothingNewer
    BY DoesFields DEF Init, NothingNewer, IdleWriter, Asked
  <1>3. Attached
    BY DEF Init, Attached, Receiving, FreeStream
  <1>4. CopyInv
    BY DEF Init, CopyInv, OnItsWay, InSnapshot, Asked
  <1>5. QED
    BY <1>1, <1>2, <1>3, <1>4 DEF ConvergeInv

LEMMA ConvergeStep ==
  ASSUME ConvergeInv, [Next]_vars PROVE ConvergeInv'
  <1> TypeOK /\ NothingNewer /\ Attached /\ CopyInv
    BY DEF ConvergeInv, TypeInv
  <1>1. TypeInv' /\ TypeOK'
    BY TypeStep DEF ConvergeInv, TypeInv
  <1>2. NothingNewer' /\ Attached'
    BY <1>1, NewerStep, AttachedStep
  <1>3. CopyInv'
    <2>1. CASE UNCHANGED vars
      BY <2>1 DEF vars, busVars, streamVars, pageVars, CopyInv, OnItsWay, InChannel,
                  HeldByWriter, InSnapshot, Serves, Receiving
    <2>2. QED
      BY <2>1, CopyChange, CopyUnannounced, CopyReads, CopyPublish, CopyAnswer, CopyPage, CopyStream
      DEF Next, Finish
  <1>4. QED
    BY <1>1, <1>2, <1>3 DEF ConvergeInv

(* Once no operation is under way, a page at rest shows the companion as    *)
(* the store has it, unless it took an older node over a newer one, lost an *)
(* event with its connection, had no stream, or the store's last change was *)
(* one that publishes nothing: for any number of pages, streams and         *)
(* operations.                                                              *)
THEOREM CopiesConverge == Spec => []CopyConverges
  <1>1. ConvergeInv => CopyConverges
    BY CopyHolds DEF ConvergeInv, TypeInv
  <1>2. QED
    BY <1>1, ConvergeInit, ConvergeStep, PTL DEF Spec

=============================================================================
