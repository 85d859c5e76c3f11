------------------------------- MODULE Inbox -------------------------------
(***************************************************************************)
(* The attention an enrollment's server reports, and what the connector    *)
(* keeps of it: records with a delivery state, the activity checkpoint and *)
(* the caller's context.  Every answer of the server carries a digest; a   *)
(* reader (the MCP thread, a thread resuming a connect, a background       *)
(* checker) fetches it outside the store's mutex, stores it under the      *)
(* mutex, and a reader with an answer to give renders and marks deliveries *)
(* under the mutex once more.  Answers may thus be stored in another order *)
(* than the server gave them, and after the operator forgot the enrollment.*)
(***************************************************************************)
EXTENDS Naturals, FiniteSets, Sequences, FiniteSetsExt

CONSTANTS
  Enrollment,     \* enrollment ids
  Item,           \* attention items, by the server's stable reference
  Directed,       \* those addressed to or replying to the participant
  Caller,         \* threads that give an answer: the MCP thread, resumers
  Checker,        \* background checkers
  RecordLimit,    \* ATTENTION_RECORD_LIMIT
  PageLimit,      \* bound: items on one page of a digest
  PreviewLimit,   \* undelivered records one answer delivers (take(5))
  MaxRevisions,   \* bound: changes of one server's listing
  MaxSyncs,       \* bound: digests stored in a behaviour
  None            \* the absent value: no enrollment, an unknown count

ASSUME LimitAssumption ==
  /\ RecordLimit \in Nat \ {0}
  /\ PageLimit \in Nat \ {0}
  /\ PreviewLimit \in Nat \ {0}
  /\ MaxRevisions \in Nat \ {0}
  /\ MaxSyncs \in Nat

ASSUME ItemAssumption ==
  /\ IsFiniteSet(Item)
  /\ Directed \subseteq Item
  /\ None \notin Enrollment

VARIABLES
  listings,     \* at each server: the items it listed, revision by revision
  enrolled,     \* enrollments in the store
  contexts,     \* enrollments the caller has a context for
  records,      \* attention: the records of an enrollment
  checkpoint,   \* the activity checkpoint of an enrollment, 0 when none
  syncs,        \* digests stored so far: the connector's clock
  reader,       \* what each reader is doing
  handed,       \* history: how often an item was marked delivered
  newest,       \* history: the newest revision stored, by enrollment
  disturbed     \* history: enrollments whose digests were stored out of the
                \* server's order, or whose records passed the limit

serverVars == <<listings>>
storeVars == <<enrolled, contexts, records, checkpoint>>
historyVars == <<handed, newest, disturbed>>
vars == <<serverVars, storeVars, syncs, reader, historyVars>>

-----------------------------------------------------------------------------
Reader == Caller \cup Checker

(* connect: arrive; call: with_context; updates, page: catch_up without and *)
(* with a cursor; check: background_check.                                  *)
Kind == {"connect", "call", "updates", "page", "check"}

(* The operations that need the caller's context, and those that keep the   *)
(* server's activity checkpoint.                                            *)
InContext == {"call", "updates", "page"}
Checkpointed == {"updates", "check"}

Digest ==
  [revision: Nat, items: SUBSET Item, more: BOOLEAN, waiting: Nat \cup {None}]

NoDigest == [revision |-> 0, items |-> {}, more |-> FALSE, waiting |-> None]

Record == [item: Item, delivered: BOOLEAN, seen: Nat]

IdleReader ==
  [pc |-> "idle", enrollment |-> None, kind |-> "call", digest |-> NoDigest]

RevisionOf(e) == Len(listings[e])
Listed(e) == listings[e][RevisionOf(e)]

-----------------------------------------------------------------------------
(* The server: external.  Its listing changes, and an answer describes the  *)
(* listing of one moment: all of it, or a page and that there is more.      *)

ListingChanges(e) ==
  /\ RevisionOf(e) < MaxRevisions
  /\ \E i \in Item :
       listings' = [listings EXCEPT ![e] = Append(@,
         IF i \in Listed(e) THEN Listed(e) \ {i} ELSE Listed(e) \cup {i})]
  /\ UNCHANGED <<storeVars, syncs, reader, historyVars>>

Answers(e) ==
  LET listed == Listed(e)
      Pages == {page \in SUBSET listed :
                  Cardinality(page) <= PageLimit /\ (page = {} => listed = {})}
  IN  {[revision |-> RevisionOf(e), items |-> page, more |-> page # listed,
        waiting |-> count] :
         page \in Pages, count \in {Cardinality(listed \cap Directed), None}}

-----------------------------------------------------------------------------
(* A reader's operation.                                                    *)

(* The binding, the enrollment and its session are read, and the request    *)
(* leaves without the mutex.                                                *)
Request(t, e, kind) ==
  /\ reader[t].pc = "idle"
  /\ e \in enrolled
  /\ kind \in InContext => e \in contexts
  /\ reader' = [reader EXCEPT ![t] =
                  [pc |-> "fetching", enrollment |-> e, kind |-> kind,
                   digest |-> NoDigest]]
  /\ UNCHANGED <<serverVars, storeVars, syncs, historyVars>>

Answered(t) ==
  /\ reader[t].pc = "fetching"
  /\ \E digest \in Answers(reader[t].enrollment) :
       reader' = [reader EXCEPT ![t] =
                    [pc |-> "syncing", enrollment |-> reader[t].enrollment,
                     kind |-> reader[t].kind, digest |-> digest]]
  /\ UNCHANGED <<serverVars, storeVars, syncs, historyVars>>

(* Transport trouble or an unreadable answer ends the operation.            *)
RequestFails(t) ==
  /\ reader[t].pc = "fetching"
  /\ reader' = [reader EXCEPT ![t] = IdleReader]
  /\ UNCHANGED <<serverVars, storeVars, syncs, historyVars>>

(* Mutant: a known item that is reported again waits to be delivered again. *)
Requeued(record, now) == [item |-> record.item, delivered |-> FALSE, seen |-> now]

(* AttentionRecord.refresh, "without regressing delivery state".            *)
Refreshed(record, now) == [item |-> record.item, delivered |-> record.delivered, seen |-> now]

(* Mutant: an item is recorded anew each time it is reported.               *)
AlwaysFresh(kept, item) == TRUE

(* Items coalesce by their stable reference.                                *)
IsFresh(kept, item) == \A r \in kept : r.item # item

Upserted(kept, items, now) ==
  {IF r.item \in items THEN Refreshed(r, now) ELSE r : r \in kept}
    \cup {[item |-> i, delivered |-> FALSE, seen |-> now] :
            i \in {j \in items : IsFresh(kept, j)}}

(* The sort key of upsert_attention: undelivered before delivered, older    *)
(* before newer; the front of the list is what goes.  (Its comment says the *)
(* oldest delivered go first: see DeliveredGoFirst.)                        *)
GoesBefore(r, s) ==
  \/ ~r.delivered /\ s.delivered
  \/ r.delivered = s.delivered /\ r.seen < s.seen

(* Bounded retention; records that compare equal go in any order.           *)
Retained(all) ==
  IF Cardinality(all) <= RecordLimit
    THEN {all}
    ELSE {kept \in kSubset(RecordLimit, all) :
            \A r \in kept, s \in all \ kept : ~GoesBefore(r, s)}

(* Mutant: any page counts as the whole listing.                            *)
AnyPage(digest) == TRUE

(* A digest is complete when it has no more pages and lists as many directed*)
(* items as wait.                                                           *)
Complete(digest) ==
  ~digest.more /\ digest.waiting = Cardinality(digest.items \cap Directed)

(* resync_attention: directed records a complete digest no longer lists go. *)
Resynced(kept, digest) ==
  IF Complete(digest)
    THEN {r \in kept : r.item \in Directed => r.item \in digest.items}
    ELSE kept

(* Mutant: the waiting count is kept for the checkpoint.                    *)
WaitingOf(digest) == digest.waiting

CheckpointOf(digest) == digest.revision

(* sync_attention and what else the operation keeps, under the mutex.       *)
Sync(t) ==
  LET job == reader[t]
      e == job.enrollment
      now == syncs + 1
      all == Upserted(records[e], job.digest.items, now)
  IN
  /\ job.pc = "syncing"
  /\ now <= MaxSyncs
  /\ syncs' = now
  /\ \E kept \in Retained(all) :
       records' = [records EXCEPT ![e] = Resynced(kept, job.digest)]
  /\ newest' = [newest EXCEPT ![e] = Max({@, job.digest.revision})]
  /\ disturbed' = IF job.digest.revision < newest[e] \/ Cardinality(all) > RecordLimit
                    THEN disturbed \cup {e}
                    ELSE disturbed
  /\ contexts' = IF job.kind = "connect" THEN contexts \cup {e} ELSE contexts
  /\ checkpoint' = IF job.kind \in Checkpointed
                     THEN [checkpoint EXCEPT ![e] = CheckpointOf(job.digest)]
                     ELSE checkpoint
  /\ reader' = [reader EXCEPT ![t] =
                  IF job.kind = "check" THEN IdleReader ELSE [job EXCEPT !.pc = "finishing"]]
  /\ UNCHANGED <<serverVars, enrolled, handed>>

(* Mutant: deliveries are counted but not recorded.                         *)
NotMarked(kept, items) == kept

Marked(kept, items) ==
  {IF r.item \in items THEN [r EXCEPT !.delivered = TRUE] ELSE r : r \in kept}

Previews(kept) ==
  LET waiting == {r.item : r \in {s \in kept : ~s.delivered}}
  IN  IF Cardinality(waiting) <= PreviewLimit
        THEN {waiting} ELSE kSubset(PreviewLimit, waiting)

(* finish: the answer is rendered from the records that are not delivered   *)
(* yet, and the first few are marked, also when the answer is discarded (a  *)
(* resumed connect) or shows only their count (a compact view).             *)
Finish(t) ==
  LET job == reader[t]
      e == job.enrollment
  IN
  /\ job.pc = "finishing"
  /\ \E previews \in Previews(records[e]) :
       /\ records' = [records EXCEPT ![e] = Marked(@, previews)]
       /\ handed' = [handed EXCEPT ![e] =
                       [i \in Item |-> IF i \in previews THEN @[i] + 1 ELSE @[i]]]
  /\ reader' = [reader EXCEPT ![t] = IdleReader]
  /\ UNCHANGED <<serverVars, enrolled, contexts, checkpoint, syncs, newest, disturbed>>

(* forget_enrollment: the enrollment's state cascades.                      *)
Forget(e) ==
  /\ e \in enrolled
  /\ enrolled' = enrolled \ {e}
  /\ contexts' = contexts \ {e}
  /\ records' = [records EXCEPT ![e] = {}]
  /\ checkpoint' = [checkpoint EXCEPT ![e] = 0]
  /\ UNCHANGED <<serverVars, syncs, reader, historyVars>>

-----------------------------------------------------------------------------
Init ==
  /\ listings = [e \in Enrollment |-> <<{}>>]
  /\ enrolled = Enrollment
  /\ contexts = {}
  /\ records = [e \in Enrollment |-> {}]
  /\ checkpoint = [e \in Enrollment |-> 0]
  /\ syncs = 0
  /\ reader = [t \in Reader |-> IdleReader]
  /\ handed = [e \in Enrollment |-> [i \in Item |-> 0]]
  /\ newest = [e \in Enrollment |-> 0]
  /\ disturbed = {}

Start(t, e) ==
  \/ t \in Caller /\ \E kind \in {"connect"} \cup InContext : Request(t, e, kind)
  \/ t \in Checker /\ Request(t, e, "check")

ReaderStep(t) ==
  \/ \E e \in Enrollment : Start(t, e)
  \/ Answered(t)
  \/ RequestFails(t)
  \/ Sync(t)
  \/ Finish(t)

Next ==
  \/ \E t \in Reader : ReaderStep(t)
  \/ \E e \in Enrollment : ListingChanges(e) \/ Forget(e)

Spec == Init /\ [][Next]_vars

-----------------------------------------------------------------------------
(* Properties.                                                              *)

ReaderState ==
  [pc: {"idle", "fetching", "syncing", "finishing"},
   enrollment: Enrollment \cup {None}, kind: Kind, digest: Digest]

(* Every variable has the shape the code's structures give it.              *)
TypeOK ==
  /\ \A e \in Enrollment :
       /\ RevisionOf(e) \in 1..MaxRevisions
       /\ Listed(e) \subseteq Item
       /\ records[e] \subseteq Record
  /\ enrolled \subseteq Enrollment
  /\ contexts \subseteq Enrollment
  /\ checkpoint \in [Enrollment -> 0..MaxRevisions]
  /\ syncs \in 0..MaxSyncs
  /\ reader \in [Reader -> ReaderState]

(* Items coalesce: no order of digests, evictions and withdrawals leaves    *)
(* two records of one item, nor more records than the bound.                *)
RecordsCoalesce ==
  \A e \in Enrollment :
    /\ Cardinality(records[e]) <= RecordLimit
    /\ \A r, s \in records[e] : r.item = s.item => r = s

(* "without regressing delivery state": a record that stays and was         *)
(* delivered stays delivered, whichever reader's digest reports it again.   *)
DeliveryKept ==
  [][\A e \in Enrollment : \A r \in records[e], s \in records'[e] :
       r.item = s.item /\ r.delivered => s.delivered]_vars

ListedWithoutBreak(e, i) ==
  \A r, s \in DOMAIN listings[e] :
    r < s /\ i \in listings[e][r] => i \in listings[e][s]

(* "unchanged digests never mint new records", "repeated mention delivery   *)
(* coalesces": an item the server lists without a break once it does is     *)
(* delivered once, by however many readers and pages it is reported.  Two   *)
(* things void it, and nothing else does: digests stored out of the order   *)
(* of their revisions, and records past the limit.                          *)
DeliveredOnce ==
  \A e \in enrolled \ disturbed, i \in Item :
    ListedWithoutBreak(e, i) => handed[e][i] <= 1

(* "records the server no longer lists are withdrawn" (resync_attention),   *)
(* and no others: short of the same two things, a record of an item the     *)
(* server goes on listing stays, whatever pages and counts it answers.      *)
KeptWhileListed ==
  [][\A e \in enrolled \ disturbed' : \A r \in records[e] :
       e \in enrolled' /\ ListedWithoutBreak(e, r.item)
         => \E s \in records'[e] : s.item = r.item]_vars

(* "Bounded retention: evict the oldest delivered records first"            *)
(* (upsert_attention), "oldest delivered items are evicted"                 *)
(* (ATTENTION_RECORD_LIMIT): an item that was not delivered yet never goes  *)
(* while a delivered one stays, short of a withdrawal, which concerns only  *)
(* directed items.  The code drops what waits first.                        *)
DeliveredGoFirst ==
  [][\A e \in enrolled \cap enrolled' : \A r \in records[e] \ records'[e] :
       /\ ~r.delivered
       /\ r.item \notin Directed
       /\ \A s \in records'[e] : s.item # r.item
       => \A s \in records'[e] : ~s.delivered]_vars

Waiting(kept) == {r.item : r \in {s \in kept : ~s.delivered}}
Delivered(kept) == {r.item : r \in {s \in kept : s.delivered}}

(* The records of each enrollment as a mailbox.                             *)
M == INSTANCE Mailbox WITH
       waiting <- [e \in Enrollment |-> Waiting(records[e])],
       delivered <- [e \in Enrollment |-> Delivered(records[e])],
       disordered <- disturbed

(* "without regressing delivery state", "records the server no longer lists *)
(* are withdrawn", "items ... past the retention limit are dropped": the    *)
(* digests, answers and deliveries of any number of readers, in any order,  *)
(* add up to one mailbox, in which an item goes one way, and goes missing   *)
(* only when the server missed it, the enrollment was forgotten, or digests *)
(* came out of order or past the limit.                                     *)
ItemsGoOneWay == M!Spec

=============================================================================
