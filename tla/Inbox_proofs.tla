---------------------------- MODULE Inbox_proofs ----------------------------
(***************************************************************************)
(* Theorems about Inbox, for any enrollments, items, readers and limits:   *)
(* the types, that items coalesce within the bound, that a delivery is     *)
(* never taken back, whatever order the digests are stored in; and, while  *)
(* they are stored in the server's order and the records are within the    *)
(* limit, that an item is delivered once and kept while it is listed.      *)
(***************************************************************************)
EXTENDS Inbox, FiniteSetTheorems, SequenceTheorems, TLAPS

(* One record per item.                                                     *)
OneEach(S) == \A r, s \in S : r.item = s.item => r = s

(* What one digest makes of one record that was there.                      *)
Reported(r, items, now) == IF r.item \in items THEN Refreshed(r, now) ELSE r

(* The record a digest adds.                                                *)
Minted(i, now) == [item |-> i, delivered |-> FALSE, seen |-> now]

(* What a rendering makes of one record.                                    *)
Handed(r, items) == IF r.item \in items THEN [r EXCEPT !.delivered = TRUE] ELSE r

-----------------------------------------------------------------------------
(* The operators on the records of one enrollment.                          *)

LEMMA OneEachFinite ==
  ASSUME NEW S \in SUBSET Record, OneEach(S)
  PROVE  IsFiniteSet(S)
  <1> DEFINE f == [r \in S |-> r.item]
  <1>1. f \in [S -> Item]
    BY DEF Record
  <1>2. \A r, s \in S : f[r] = f[s] => r = s
    BY DEF OneEach
  <1>3. f \in Injection(S, Item)
    BY <1>1, <1>2 DEF Injection, IsInjective
  <1>4. QED
    BY <1>3, FS_Injection, ItemAssumption

LEMMA ReportedKeeps ==
  ASSUME NEW r \in Record, NEW items, NEW now \in Nat
  PROVE  /\ Reported(r, items, now) \in Record
         /\ Reported(r, items, now).item = r.item
         /\ Reported(r, items, now).delivered = r.delivered
  BY DEF Reported, Refreshed, Record

LEMMA MintedIs ==
  ASSUME NEW i \in Item, NEW now \in Nat
  PROVE  /\ Minted(i, now) \in Record
         /\ Minted(i, now).item = i /\ Minted(i, now).delivered = FALSE
  BY DEF Minted, Record

LEMMA HandedKeeps ==
  ASSUME NEW r \in Record, NEW items
  PROVE  /\ Handed(r, items) \in Record
         /\ Handed(r, items).item = r.item
         /\ r.delivered => Handed(r, items).delivered
  BY DEF Handed, Record

(* A digest adds a record for an item it finds none for, and keeps the      *)
(* others and what was delivered of them.                                   *)
LEMMA UpsertedKeeps ==
  ASSUME NEW kept \in SUBSET Record, OneEach(kept), NEW items \in SUBSET Item,
         NEW now \in Nat
  PROVE  /\ Upserted(kept, items, now) \subseteq Record
         /\ OneEach(Upserted(kept, items, now))
         /\ \A r \in kept, s \in Upserted(kept, items, now) :
              r.item = s.item => s.delivered = r.delivered
  <1> DEFINE fresh == {Minted(i, now) : i \in {j \in items : IsFresh(kept, j)}}
  <1> DEFINE known == {Reported(r, items, now) : r \in kept}
  <1>1. Upserted(kept, items, now) = known \cup fresh
    BY DEF Upserted, Reported, Minted
  <1>2. \A s \in fresh : /\ s \in Record /\ s.delivered = FALSE
                         /\ s = Minted(s.item, now)
                         /\ \A r \in kept : r.item # s.item
    <2> TAKE s \in fresh
    <2>1. PICK i \in items : IsFresh(kept, i) /\ s = Minted(i, now)
      OBVIOUS
    <2>2. s \in Record /\ s.delivered = FALSE /\ s.item = i
      BY <2>1, MintedIs
    <2>3. QED
      BY <2>1, <2>2 DEF IsFresh
  <1>3. \A s, r \in fresh : s.item = r.item => s = r
    BY <1>2
  <1>4. \A s \in known : \E r \in kept :
          /\ s = Reported(r, items, now) /\ s \in Record
          /\ s.item = r.item /\ s.delivered = r.delivered
    BY ReportedKeeps
  <1> HIDE DEF fresh, known
  <1>5. OneEach(known \cup fresh)
    BY <1>2, <1>3, <1>4 DEF OneEach
  <1>6. \A r \in kept, s \in known \cup fresh :
          r.item = s.item => s.delivered = r.delivered
    BY <1>2, <1>4 DEF OneEach
  <1>7. QED
    BY <1>1, <1>2, <1>4, <1>5, <1>6

LEMMA RetainedBounded ==
  ASSUME NEW all, IsFiniteSet(all), NEW kept \in Retained(all)
  PROVE  kept \subseteq all /\ IsFiniteSet(kept) /\ Cardinality(kept) <= RecordLimit
  <1>1. kept \subseteq all
    BY DEF Retained, kSubset
  <1>2. IsFiniteSet(kept)
    BY <1>1, FS_Subset
  <1>3. Cardinality(kept) <= RecordLimit
    BY LimitAssumption DEF Retained, kSubset
  <1>4. QED
    BY <1>1, <1>2, <1>3

LEMMA ResyncedLess ==
  ASSUME NEW kept, NEW digest PROVE Resynced(kept, digest) \subseteq kept
  BY DEF Resynced

LEMMA MarkedKeeps ==
  ASSUME NEW kept \in SUBSET Record, OneEach(kept), NEW items
  PROVE  /\ Marked(kept, items) \subseteq Record
         /\ OneEach(Marked(kept, items))
         /\ Cardinality(Marked(kept, items)) <= Cardinality(kept)
         /\ \A r \in kept, s \in Marked(kept, items) :
              r.item = s.item /\ r.delivered => s.delivered
  <1> DEFINE marked == {Handed(r, items) : r \in kept}
  <1> DEFINE f == [r \in kept |-> Handed(r, items)]
  <1>1. Marked(kept, items) = marked
    BY DEF Marked, Handed
  <1>2. f \in Surjection(kept, marked)
    BY DEF Surjection
  <1>3. \A s \in marked : \E r \in kept :
          /\ s = Handed(r, items) /\ s \in Record
          /\ s.item = r.item /\ (r.delivered => s.delivered)
    BY HandedKeeps
  <1> HIDE DEF marked, f
  <1>4. Cardinality(marked) <= Cardinality(kept)
    BY <1>2, OneEachFinite, FS_Surjection
  <1>5. OneEach(marked)
    BY <1>3 DEF OneEach
  <1>6. \A r \in kept, s \in marked : r.item = s.item /\ r.delivered => s.delivered
    BY <1>3 DEF OneEach
  <1>7. QED
    BY <1>1, <1>3, <1>4, <1>5, <1>6

-----------------------------------------------------------------------------
(* The inductive invariant.  Answers name revisions the server has had, and *)
(* a reader at work has an enrollment.                                      *)

ListingsOK ==
  /\ listings \in [Enrollment -> Seq(SUBSET Item)]
  /\ \A e \in Enrollment : Len(listings[e]) \in 1..MaxRevisions

ReadersOK ==
  /\ reader \in [Reader -> ReaderState]
  /\ \A t \in Reader : /\ reader[t].digest.revision <= MaxRevisions
                       /\ reader[t].pc # "idle" => reader[t].enrollment \in Enrollment

StoreOK ==
  /\ enrolled \subseteq Enrollment
  /\ contexts \subseteq Enrollment
  /\ checkpoint \in [Enrollment -> 0..MaxRevisions]
  /\ syncs \in 0..MaxSyncs

Coalesced(S) ==
  /\ S \subseteq Record
  /\ OneEach(S)
  /\ Cardinality(S) <= RecordLimit

RecordsOK ==
  /\ DOMAIN records = Enrollment
  /\ records = [e \in Enrollment |-> records[e]]
  /\ \A e \in Enrollment : Coalesced(records[e])

InboxInv == ListingsOK /\ ReadersOK /\ StoreOK /\ RecordsOK

LEMMA InboxHolds == InboxInv => TypeOK /\ RecordsCoalesce
  <1> SUFFICES ASSUME InboxInv PROVE TypeOK /\ RecordsCoalesce
    OBVIOUS
  <1>1. \A e \in Enrollment : RevisionOf(e) \in 1..MaxRevisions /\ Listed(e) \subseteq Item
    BY LimitAssumption DEF InboxInv, ListingsOK, RevisionOf, Listed
  <1>2. QED
    BY <1>1 DEF InboxInv, ReadersOK, StoreOK, RecordsOK, Coalesced, OneEach, TypeOK,
                RecordsCoalesce

LEMMA NoDigestType == NoDigest \in Digest /\ NoDigest.revision <= MaxRevisions
  BY LimitAssumption DEF NoDigest, Digest

LEMMA IdleType ==
  /\ IdleReader \in ReaderState /\ IdleReader.pc = "idle"
  /\ IdleReader.digest.revision <= MaxRevisions
  BY NoDigestType DEF IdleReader, ReaderState, Kind

LEMMA InboxInit == Init => InboxInv
  <1> SUFFICES ASSUME Init PROVE InboxInv
    OBVIOUS
  <1>1. ListingsOK
    <2>1. <<{}>> \in Seq(SUBSET Item) /\ Len(<<{}>>) = 1
      OBVIOUS
    <2>2. QED
      BY <2>1, LimitAssumption DEF Init, ListingsOK
  <1>2. ReadersOK
    BY IdleType DEF Init, ReadersOK
  <1>3. StoreOK
    BY LimitAssumption DEF Init, StoreOK
  <1>4. RecordsOK
    BY FS_EmptySet, LimitAssumption DEF Init, RecordsOK, Coalesced, OneEach
  <1>5. QED
    BY <1>1, <1>2, <1>3, <1>4 DEF InboxInv

-----------------------------------------------------------------------------
(* The steps.                                                               *)

LEMMA ReaderSet ==
  ASSUME ReadersOK, NEW t \in Reader, NEW job \in ReaderState,
         job.digest.revision <= MaxRevisions,
         job.pc # "idle" => job.enrollment \in Enrollment,
         reader' = [reader EXCEPT ![t] = job]
  PROVE  ReadersOK'
  BY DEF ReadersOK

LEMMA RecordsSet ==
  ASSUME RecordsOK, NEW e \in Enrollment, NEW S, Coalesced(S),
         records' = [records EXCEPT ![e] = S]
  PROVE  /\ RecordsOK'
         /\ \A d \in Enrollment : records'[d] = IF d = e THEN S ELSE records[d]
  BY DEF RecordsOK

LEMMA ListingStep ==
  ASSUME InboxInv, NEW e \in Enrollment, ListingChanges(e)
  PROVE  InboxInv' /\ UNCHANGED records
  <1>1. PICK i \in Item :
          listings' = [listings EXCEPT ![e] = Append(@,
            IF i \in Listed(e) THEN Listed(e) \ {i} ELSE Listed(e) \cup {i})]
    BY DEF ListingChanges
  <1> DEFINE now == IF i \in Listed(e) THEN Listed(e) \ {i} ELSE Listed(e) \cup {i}
  <1>2. /\ listings[e] \in Seq(SUBSET Item) /\ Len(listings[e]) \in 1..MaxRevisions
        /\ Len(listings[e]) < MaxRevisions
    BY DEF InboxInv, ListingsOK, ListingChanges, RevisionOf
  <1>3. now \in SUBSET Item
    BY <1>2 DEF Listed, RevisionOf
  <1>4. listings' = [listings EXCEPT ![e] = Append(listings[e], now)]
    BY <1>1 DEF InboxInv, ListingsOK
  <1> HIDE DEF now
  <1>5. /\ Append(listings[e], now) \in Seq(SUBSET Item)
        /\ Len(Append(listings[e], now)) = Len(listings[e]) + 1
    BY <1>2, <1>3, AppendProperties
  <1>6. ListingsOK'
    BY <1>2, <1>4, <1>5, LimitAssumption DEF InboxInv, ListingsOK
  <1>7. QED
    BY <1>6 DEF InboxInv, ReadersOK, StoreOK, RecordsOK, ListingChanges, storeVars

LEMMA RequestStep ==
  ASSUME InboxInv, NEW t \in Reader, NEW e \in Enrollment, NEW kind \in Kind,
         Request(t, e, kind)
  PROVE  InboxInv' /\ UNCHANGED records
  <1> DEFINE job == [pc |-> "fetching", enrollment |-> e, kind |-> kind,
                     digest |-> NoDigest]
  <1>1. /\ job \in ReaderState /\ job.enrollment = e
        /\ job.digest.revision <= MaxRevisions
    BY NoDigestType DEF ReaderState
  <1>2. reader' = [reader EXCEPT ![t] = job]
    BY DEF Request
  <1> HIDE DEF job
  <1>3. ReadersOK'
    BY <1>1, <1>2, ReaderSet DEF InboxInv
  <1>4. QED
    BY <1>3 DEF InboxInv, ListingsOK, StoreOK, RecordsOK, Request, storeVars, serverVars

LEMMA AnswersType ==
  ASSUME InboxInv, NEW e \in Enrollment, NEW digest \in Answers(e)
  PROVE  digest \in Digest /\ digest.revision <= MaxRevisions
  <1>1. RevisionOf(e) \in 1..MaxRevisions /\ Listed(e) \subseteq Item
    BY InboxHolds DEF TypeOK
  <1>2. Cardinality(Listed(e) \cap Directed) \in Nat
    BY <1>1, ItemAssumption, FS_Subset, FS_CardinalityType
  <1>3. PICK page \in SUBSET Listed(e),
             count \in {Cardinality(Listed(e) \cap Directed), None} :
          digest = [revision |-> RevisionOf(e), items |-> page,
                    more |-> page # Listed(e), waiting |-> count]
    BY DEF Answers
  <1>4. count \in Nat \cup {None} /\ page \in SUBSET Item /\ RevisionOf(e) \in Nat
    BY <1>1, <1>2
  <1>5. QED
    BY <1>1, <1>3, <1>4, LimitAssumption DEF Digest

LEMMA AnsweredStep ==
  ASSUME InboxInv, NEW t \in Reader, Answered(t)
  PROVE  InboxInv' /\ UNCHANGED records
  <1>1. reader[t] \in ReaderState /\ reader[t].enrollment \in Enrollment
    BY DEF InboxInv, ReadersOK, Answered
  <1>2. PICK digest \in Answers(reader[t].enrollment) :
          reader' = [reader EXCEPT ![t] =
            [pc |-> "syncing", enrollment |-> reader[t].enrollment,
             kind |-> reader[t].kind, digest |-> digest]]
    BY DEF Answered
  <1> DEFINE job == [pc |-> "syncing", enrollment |-> reader[t].enrollment,
                     kind |-> reader[t].kind, digest |-> digest]
  <1>3. digest \in Digest /\ digest.revision <= MaxRevisions
    BY <1>1, AnswersType
  <1>4. /\ job \in ReaderState /\ job.enrollment \in Enrollment
        /\ job.digest.revision <= MaxRevisions
    BY <1>1, <1>3 DEF ReaderState
  <1>5. reader' = [reader EXCEPT ![t] = job]
    BY <1>2
  <1> HIDE DEF job
  <1>6. ReadersOK'
    BY <1>4, <1>5, ReaderSet DEF InboxInv
  <1>7. QED
    BY <1>6 DEF InboxInv, ListingsOK, StoreOK, RecordsOK, Answered, storeVars, serverVars

LEMMA FailsStep ==
  ASSUME InboxInv, NEW t \in Reader, RequestFails(t)
  PROVE  InboxInv' /\ UNCHANGED records
  <1>1. ReadersOK'
    BY IdleType, ReaderSet DEF InboxInv, RequestFails
  <1>2. QED
    BY <1>1 DEF InboxInv, ListingsOK, StoreOK, RecordsOK, RequestFails, storeVars,
                serverVars

(* Storing a digest: what stays of the records, whichever of them go.       *)
LEMMA Stored ==
  ASSUME NEW S, Coalesced(S), NEW digest \in Digest, NEW now \in Nat,
         NEW kept \in Retained(Upserted(S, digest.items, now))
  PROVE  /\ Coalesced(Resynced(kept, digest))
         /\ \A r \in S, s \in Resynced(kept, digest) :
              r.item = s.item => s.delivered = r.delivered
  <1> DEFINE all == Upserted(S, digest.items, now)
  <1>1. /\ all \subseteq Record /\ OneEach(all)
        /\ \A r \in S, s \in all : r.item = s.item => s.delivered = r.delivered
    BY UpsertedKeeps DEF Coalesced, Digest
  <1> HIDE DEF all
  <1>2. IsFiniteSet(all)
    BY <1>1, OneEachFinite
  <1>3. kept \subseteq all /\ IsFiniteSet(kept) /\ Cardinality(kept) <= RecordLimit
    BY <1>2, RetainedBounded DEF all
  <1>4. Resynced(kept, digest) \subseteq kept
    BY ResyncedLess
  <1>5. Cardinality(Resynced(kept, digest)) <= RecordLimit
    <2>1. /\ Cardinality(Resynced(kept, digest)) <= Cardinality(kept)
          /\ IsFiniteSet(Resynced(kept, digest))
      BY <1>3, <1>4, FS_Subset
    <2>2. /\ Cardinality(Resynced(kept, digest)) \in Nat
          /\ Cardinality(kept) \in Nat
      BY <1>3, <2>1, FS_CardinalityType
    <2>3. QED
      BY <1>3, <2>1, <2>2, LimitAssumption
  <1>6. QED
    BY <1>1, <1>3, <1>4, <1>5 DEF Coalesced, OneEach

DeliveriesStay ==
  \A e \in Enrollment : \A r \in records[e], s \in records'[e] :
    r.item = s.item /\ r.delivered => s.delivered

LEMMA SyncStep ==
  ASSUME InboxInv, NEW t \in Reader, Sync(t)
  PROVE  InboxInv' /\ DeliveriesStay
  <1> DEFINE job == reader[t]
  <1> DEFINE e == job.enrollment
  <1> DEFINE now == syncs + 1
  <1>1. /\ job \in ReaderState /\ e \in Enrollment /\ job.digest \in Digest
        /\ job.digest.revision <= MaxRevisions /\ job.digest.revision \in Nat
    BY DEF InboxInv, ReadersOK, Sync, ReaderState, Digest
  <1>2. now \in 0..MaxSyncs /\ now \in Nat /\ syncs' = now
    BY LimitAssumption DEF InboxInv, StoreOK, Sync
  <1>3. PICK kept \in Retained(Upserted(records[e], job.digest.items, now)) :
          records' = [records EXCEPT ![e] = Resynced(kept, job.digest)]
    BY DEF Sync
  <1>4. Coalesced(records[e])
    BY <1>1 DEF InboxInv, RecordsOK
  <1> DEFINE S == Resynced(kept, job.digest)
  <1>5. /\ Coalesced(S)
        /\ \A r \in records[e], s \in S : r.item = s.item => s.delivered = r.delivered
    BY <1>1, <1>2, <1>3, <1>4, Stored
  <1> HIDE DEF S
  <1>6. /\ RecordsOK'
        /\ \A d \in Enrollment : records'[d] = IF d = e THEN S ELSE records[d]
    BY <1>1, <1>3, <1>5, RecordsSet DEF InboxInv, S
  <1>7. DeliveriesStay
    BY <1>5, <1>6 DEF DeliveriesStay, InboxInv, RecordsOK, Coalesced, OneEach
  <1>8. ReadersOK'
    <2>1. CASE job.kind = "check"
      BY <2>1, IdleType, ReaderSet DEF InboxInv, Sync
    <2>2. CASE job.kind # "check"
      <3> DEFINE next == [job EXCEPT !.pc = "finishing"]
      <3>1. /\ next \in ReaderState /\ next.enrollment = e
            /\ next.digest = job.digest
        BY <1>1 DEF ReaderState
      <3>2. reader' = [reader EXCEPT ![t] = next]
        BY <2>2 DEF Sync
      <3> HIDE DEF next
      <3>3. QED
        BY <1>1, <3>1, <3>2, ReaderSet DEF InboxInv
    <2>3. QED
      BY <2>1, <2>2
  <1>9. StoreOK'
    <2>1. checkpoint' \in [Enrollment -> 0..MaxRevisions]
      BY <1>1, LimitAssumption DEF InboxInv, StoreOK, Sync, CheckpointOf
    <2>2. contexts' \subseteq Enrollment
      BY <1>1 DEF InboxInv, StoreOK, Sync
    <2>3. QED
      BY <1>2, <2>1, <2>2 DEF InboxInv, StoreOK, Sync
  <1>10. ListingsOK'
    BY DEF InboxInv, ListingsOK, Sync, serverVars
  <1>11. QED
    BY <1>6, <1>7, <1>8, <1>9, <1>10 DEF InboxInv

LEMMA FinishStep ==
  ASSUME InboxInv, NEW t \in Reader, Finish(t)
  PROVE  InboxInv' /\ DeliveriesStay
  <1> DEFINE e == reader[t].enrollment
  <1>1. e \in Enrollment /\ Coalesced(records[e])
    BY DEF InboxInv, ReadersOK, RecordsOK, Finish
  <1>2. PICK previews : records' = [records EXCEPT ![e] = Marked(@, previews)]
    BY DEF Finish
  <1> DEFINE S == Marked(records[e], previews)
  <1>3. /\ S \subseteq Record /\ OneEach(S)
        /\ Cardinality(S) <= Cardinality(records[e])
        /\ \A r \in records[e], s \in S : r.item = s.item /\ r.delivered => s.delivered
    BY <1>1, MarkedKeeps DEF Coalesced
  <1>4. records' = [records EXCEPT ![e] = S]
    BY <1>1, <1>2 DEF InboxInv, RecordsOK
  <1> HIDE DEF S
  <1>5. Coalesced(S)
    <2>1. Cardinality(S) \in Nat /\ Cardinality(records[e]) \in Nat
      BY <1>1, <1>3, OneEachFinite, FS_CardinalityType DEF Coalesced
    <2>2. QED
      BY <1>1, <1>3, <2>1, LimitAssumption DEF Coalesced
  <1>6. /\ RecordsOK'
        /\ \A d \in Enrollment : records'[d] = IF d = e THEN S ELSE records[d]
    BY <1>1, <1>4, <1>5, RecordsSet DEF InboxInv
  <1>7. DeliveriesStay
    BY <1>3, <1>6 DEF DeliveriesStay, InboxInv, RecordsOK, Coalesced, OneEach
  <1>8. ReadersOK'
    BY IdleType, ReaderSet DEF InboxInv, Finish
  <1>9. QED
    BY <1>6, <1>7, <1>8 DEF InboxInv, ListingsOK, StoreOK, Finish, serverVars

LEMMA ForgetStep ==
  ASSUME InboxInv, NEW e \in Enrollment, Forget(e)
  PROVE  InboxInv' /\ DeliveriesStay
  <1>1. Coalesced({})
    BY FS_EmptySet, LimitAssumption DEF Coalesced, OneEach
  <1>2. /\ RecordsOK'
        /\ \A d \in Enrollment : records'[d] = IF d = e THEN {} ELSE records[d]
    BY <1>1, RecordsSet DEF InboxInv, Forget
  <1>3. DeliveriesStay
    BY <1>2 DEF DeliveriesStay, InboxInv, RecordsOK, Coalesced, OneEach
  <1>4. StoreOK'
    BY LimitAssumption DEF InboxInv, StoreOK, Forget
  <1>5. QED
    BY <1>2, <1>3, <1>4 DEF InboxInv, ListingsOK, ReadersOK, Forget, serverVars

LEMMA RecordsSame ==
  ASSUME InboxInv, UNCHANGED records PROVE DeliveriesStay
  BY DEF InboxInv, RecordsOK, Coalesced, OneEach, DeliveriesStay

LEMMA InboxStep ==
  ASSUME InboxInv, [Next]_vars PROVE InboxInv' /\ DeliveriesStay
  <1>1. CASE UNCHANGED vars
    BY <1>1, RecordsSame
    DEF vars, serverVars, storeVars, InboxInv, ListingsOK, ReadersOK, StoreOK, RecordsOK
  <1>2. ASSUME NEW t \in Reader, ReaderStep(t) PROVE InboxInv' /\ DeliveriesStay
    <2>1. ASSUME NEW e \in Enrollment, Start(t, e) PROVE InboxInv' /\ DeliveriesStay
      <3>1. \E kind \in Kind : Request(t, e, kind)
        BY <2>1 DEF Start, Kind, InContext
      <3>2. QED
        BY <3>1, RequestStep, RecordsSame
    <2>2. QED
      BY <1>2, <2>1, AnsweredStep, FailsStep, SyncStep, FinishStep, RecordsSame
      DEF ReaderStep
  <1>3. QED
    BY <1>1, <1>2, ListingStep, ForgetStep, RecordsSame DEF Next

-----------------------------------------------------------------------------
(* Every reachable state has the type TypeOK states.                        *)
THEOREM TypeCorrect == Spec => []TypeOK
  <1>1. InboxInv /\ [Next]_vars => InboxInv'
    BY InboxStep
  <1>2. QED
    BY <1>1, InboxInit, InboxHolds, PTL DEF Spec

(* However many readers store however many digests, in whatever order, no   *)
(* item has two records and an enrollment has no more than the limit.       *)
THEOREM ItemsCoalesce == Spec => []RecordsCoalesce
  <1>1. InboxInv /\ [Next]_vars => InboxInv'
    BY InboxStep
  <1>2. QED
    BY <1>1, InboxInit, InboxHolds, PTL DEF Spec

(* No digest takes back a delivery: a delivered record that stays is        *)
(* delivered.                                                               *)
THEOREM DeliveriesKept == Spec => DeliveryKept
  <1>1. InboxInv /\ [Next]_vars => InboxInv'
    BY InboxStep
  <1>2. InboxInv /\ [Next]_vars =>
          [\A e \in Enrollment : \A r \in records[e], s \in records'[e] :
             r.item = s.item /\ r.delivered => s.delivered]_vars
    BY InboxStep DEF DeliveriesStay
  <1>3. QED
    BY <1>1, <1>2, InboxInit, PTL DEF Spec, DeliveryKept

-----------------------------------------------------------------------------
(* Deliveries and the server's listing.  What a digest in hand says is what *)
(* the server listed at its revision; what is recorded was listed by the    *)
(* newest revision stored; and what was handed out has its delivered record.*)

Follows(digest, e) ==
  /\ digest.revision \in 1..Len(listings[e])
  /\ digest.items \subseteq listings[e][digest.revision]
  /\ ~digest.more => digest.items = listings[e][digest.revision]

JobsListed ==
  \A t \in Reader : reader[t].pc = "syncing" => Follows(reader[t].digest, reader[t].enrollment)

RecordsListed ==
  \A e \in Enrollment \ disturbed : \A r \in records[e] :
    \E s \in 1..newest[e] : r.item \in listings[e][s]

HandedOnce ==
  \A e \in enrolled \ disturbed, i \in Item :
    ListedWithoutBreak(e, i) =>
      /\ handed[e][i] <= 1
      /\ handed[e][i] = 1 => \E r \in records[e] : r.item = i /\ r.delivered

HistoryOK ==
  /\ handed \in [Enrollment -> [Item -> Nat]]
  /\ newest \in [Enrollment -> Nat]
  /\ \A e \in Enrollment : newest[e] <= Len(listings[e])
  /\ disturbed \subseteq Enrollment

OnceInv == InboxInv /\ HistoryOK /\ JobsListed /\ RecordsListed /\ HandedOnce

LEMMA OnceInit == Init => OnceInv
  <1> SUFFICES ASSUME Init PROVE OnceInv
    OBVIOUS
  <1>1. HistoryOK
    BY LimitAssumption, InboxInit DEF Init, HistoryOK, InboxInv, ListingsOK
  <1>2. JobsListed
    BY IdleType DEF Init, JobsListed
  <1>3. RecordsListed /\ HandedOnce
    BY DEF Init, RecordsListed, HandedOnce
  <1>4. QED
    BY <1>1, <1>2, <1>3, InboxInit DEF OnceInv

(* A digest is added to the records, record by record.                      *)
LEMMA UpsertedItems ==
  ASSUME NEW kept \in SUBSET Record, NEW items \in SUBSET Item, NEW now \in Nat
  PROVE  /\ \A r \in kept : \E s \in Upserted(kept, items, now) : s.item = r.item
         /\ \A s \in Upserted(kept, items, now) :
              s.item \in items \/ \E r \in kept : r.item = s.item
  <1> DEFINE fresh == {Minted(i, now) : i \in {j \in items : IsFresh(kept, j)}}
  <1> DEFINE known == {Reported(r, items, now) : r \in kept}
  <1>1. Upserted(kept, items, now) = known \cup fresh
    BY DEF Upserted, Reported, Minted
  <1>2. \A s \in fresh : s.item \in items
    BY MintedIs
  <1>3. \A s \in known : \E r \in kept : r.item = s.item
    BY ReportedKeeps
  <1>4. \A r \in kept : \E s \in known : s.item = r.item
    BY ReportedKeeps
  <1>5. QED
    BY <1>1, <1>2, <1>3, <1>4

LEMMA MarkedItems ==
  ASSUME NEW kept \in SUBSET Record, NEW items
  PROVE  \A r \in kept : \E s \in Marked(kept, items) :
           s.item = r.item /\ (r.item \in items \/ r.delivered => s.delivered)
  <1>1. \A r \in kept : Handed(r, items) \in Marked(kept, items)
    BY DEF Marked, Handed
  <1>2. \A r \in kept :
          /\ Handed(r, items).item = r.item
          /\ r.item \in items \/ r.delivered => Handed(r, items).delivered
    BY DEF Handed, Record
  <1>3. QED
    BY <1>1, <1>2

LEMMA PreviewsWait ==
  ASSUME NEW kept, NEW previews \in Previews(kept), NEW i \in previews
  PROVE  \E r \in kept : r.item = i /\ ~r.delivered
  <1>1. previews \subseteq {r.item : r \in {s \in kept : ~s.delivered}}
    BY DEF Previews, kSubset
  <1>2. QED
    BY <1>1

LEMMA MaxOfTwo ==
  ASSUME NEW a \in Nat, NEW b \in Nat, a <= b
  PROVE  Max({a, b}) = b
  <1>1. \A y \in {a, b} : b >= y
    OBVIOUS
  <1>2. \A x \in {a, b} : (\A y \in {a, b} : x >= y) => x = b
    OBVIOUS
  <1>3. QED
    BY <1>1, <1>2 DEF Max

LEMMA MaxOfTwoIs ==
  ASSUME NEW a \in Nat, NEW b \in Nat
  PROVE  Max({a, b}) \in {a, b}
  <1>1. a <= b \/ b <= a
    OBVIOUS
  <1>2. {a, b} = {b, a}
    OBVIOUS
  <1>3. QED
    BY <1>1, <1>2, MaxOfTwo

-----------------------------------------------------------------------------
(* The listings only grow.                                                  *)

LEMMA ListingsGrow ==
  ASSUME InboxInv, NEW e \in Enrollment, ListingChanges(e)
  PROVE  \A d \in Enrollment :
           /\ Len(listings[d]) \in Nat /\ Len(listings'[d]) \in Nat
           /\ Len(listings[d]) <= Len(listings'[d])
           /\ \A s \in 1..Len(listings[d]) : listings'[d][s] = listings[d][s]
           /\ \A i \in Item : ListedWithoutBreak(d, i)' => ListedWithoutBreak(d, i)
  <1>1. PICK i \in Item :
          listings' = [listings EXCEPT ![e] = Append(@,
            IF i \in Listed(e) THEN Listed(e) \ {i} ELSE Listed(e) \cup {i})]
    BY DEF ListingChanges
  <1> DEFINE now == IF i \in Listed(e) THEN Listed(e) \ {i} ELSE Listed(e) \cup {i}
  <1>2. /\ listings \in [Enrollment -> Seq(SUBSET Item)]
        /\ listings' \in [Enrollment -> Seq(SUBSET Item)]
    BY ListingStep DEF InboxInv, ListingsOK
  <1>3. listings' = [listings EXCEPT ![e] = Append(listings[e], now)]
    BY <1>1, <1>2
  <1>4. now \in SUBSET Item
    BY InboxHolds DEF TypeOK
  <1> HIDE DEF now
  <1> SUFFICES ASSUME NEW d \in Enrollment
               PROVE  /\ Len(listings[d]) \in Nat /\ Len(listings'[d]) \in Nat
                      /\ Len(listings[d]) <= Len(listings'[d])
                      /\ \A s \in 1..Len(listings[d]) : listings'[d][s] = listings[d][s]
                      /\ \A k \in Item : ListedWithoutBreak(d, k)' => ListedWithoutBreak(d, k)
    OBVIOUS
  <1>5. /\ Len(listings[d]) \in Nat /\ Len(listings'[d]) \in Nat
        /\ Len(listings[d]) <= Len(listings'[d])
        /\ \A s \in 1..Len(listings[d]) : listings'[d][s] = listings[d][s]
    BY <1>2, <1>3, <1>4, AppendProperties
  <1>6. DOMAIN listings[d] = 1..Len(listings[d]) /\ DOMAIN listings'[d] = 1..Len(listings'[d])
    BY <1>2
  <1>7. \A k \in Item : ListedWithoutBreak(d, k)' => ListedWithoutBreak(d, k)
    BY <1>5, <1>6 DEF ListedWithoutBreak
  <1>8. QED
    BY <1>5, <1>7

LEMMA ListingOnce ==
  ASSUME OnceInv, NEW e \in Enrollment, ListingChanges(e)
  PROVE  OnceInv'
  <1>1. UNCHANGED <<storeVars, syncs, reader, historyVars>>
    BY DEF ListingChanges
  <1>2. \A d \in Enrollment :
          /\ Len(listings[d]) \in Nat /\ Len(listings'[d]) \in Nat
          /\ Len(listings[d]) <= Len(listings'[d])
          /\ \A s \in 1..Len(listings[d]) : listings'[d][s] = listings[d][s]
          /\ \A i \in Item : ListedWithoutBreak(d, i)' => ListedWithoutBreak(d, i)
    BY ListingsGrow DEF OnceInv
  <1>3. HistoryOK'
    BY <1>1, <1>2 DEF OnceInv, HistoryOK, historyVars
  <1>4. JobsListed'
    BY <1>1, <1>2 DEF OnceInv, JobsListed, Follows, InboxInv, ReadersOK
  <1>5. RecordsListed'
    BY <1>1, <1>2 DEF OnceInv, RecordsListed, HistoryOK, historyVars, storeVars
  <1>6. HandedOnce'
    BY <1>1, <1>2 DEF OnceInv, HandedOnce, InboxInv, StoreOK, historyVars, storeVars
  <1>7. QED
    BY <1>3, <1>4, <1>5, <1>6, ListingStep DEF OnceInv

(* A reader goes on without storing anything.                               *)
LEMMA ReaderOnce ==
  ASSUME OnceInv, InboxInv', UNCHANGED <<listings, enrolled, records, historyVars>>, JobsListed'
  PROVE  OnceInv'
  <1>1. HistoryOK' /\ RecordsListed' /\ HandedOnce'
    BY DEF OnceInv, HistoryOK, RecordsListed, HandedOnce, ListedWithoutBreak, historyVars
  <1>2. QED
    BY <1>1 DEF OnceInv

LEMMA AnswersFollow ==
  ASSUME InboxInv, NEW e \in Enrollment, NEW digest \in Answers(e)
  PROVE  Follows(digest, e)
  <1>1. PICK page \in SUBSET Listed(e),
             count \in {Cardinality(Listed(e) \cap Directed), None} :
          digest = [revision |-> RevisionOf(e), items |-> page,
                    more |-> page # Listed(e), waiting |-> count]
    BY DEF Answers
  <1>2. RevisionOf(e) \in 1..Len(listings[e])
    BY LimitAssumption DEF InboxInv, ListingsOK, RevisionOf
  <1>3. QED
    BY <1>1, <1>2 DEF Follows, Listed, RevisionOf

LEMMA FetchOnce ==
  ASSUME OnceInv, NEW t \in Reader,
         \/ \E e \in Enrollment, kind \in Kind : Request(t, e, kind)
         \/ Answered(t)
         \/ RequestFails(t)
  PROVE  OnceInv'
  <1>1. InboxInv' /\ UNCHANGED <<listings, enrolled, records, historyVars>>
    BY RequestStep, AnsweredStep, FailsStep
    DEF OnceInv, Request, Answered, RequestFails, serverVars, storeVars
  <1>2. reader \in [Reader -> ReaderState]
    BY DEF OnceInv, InboxInv, ReadersOK
  <1>3. \A u \in Reader : u # t => reader'[u] = reader[u]
    BY <1>2 DEF Request, Answered, RequestFails
  <1>4. reader'[t].pc = "syncing" => Follows(reader'[t].digest, reader'[t].enrollment)
    <2>1. CASE Answered(t)
      <3>1. reader[t].enrollment \in Enrollment
        BY <2>1 DEF OnceInv, InboxInv, ReadersOK, Answered
      <3>2. PICK digest \in Answers(reader[t].enrollment) :
              reader' = [reader EXCEPT ![t] =
                [pc |-> "syncing", enrollment |-> reader[t].enrollment,
                 kind |-> reader[t].kind, digest |-> digest]]
        BY <2>1 DEF Answered
      <3>3. QED
        BY <1>2, <3>1, <3>2, AnswersFollow DEF OnceInv
    <2>2. CASE ~Answered(t)
      BY <1>2, <2>2, IdleType DEF Request, RequestFails
    <2>3. QED
      BY <2>1, <2>2
  <1>5. JobsListed'
    BY <1>1, <1>3, <1>4 DEF OnceInv, JobsListed, Follows
  <1>6. QED
    BY <1>1, <1>5, ReaderOnce

-----------------------------------------------------------------------------
(* Storing a digest that is not older than the newest, with room for it.    *)

LEMMA StoredInOrder ==
  ASSUME OnceInv, NEW t \in Reader, Sync(t), reader[t].enrollment \notin disturbed'
  PROVE  LET e == reader[t].enrollment
             digest == reader[t].digest
             all == Upserted(records[e], digest.items, syncs + 1)
         IN  /\ e \in Enrollment \ disturbed
             /\ newest[e] <= digest.revision /\ newest'[e] = digest.revision
             /\ records'[e] = Resynced(all, digest)
             /\ \A r \in records[e] : \E s \in all : s.item = r.item
             /\ \A s \in all : s.item \in digest.items \/ \E r \in records[e] : r.item = s.item
  <1> DEFINE e == reader[t].enrollment
             digest == reader[t].digest
             all == Upserted(records[e], digest.items, syncs + 1)
  <1>1. /\ e \in Enrollment /\ digest \in Digest /\ digest.revision \in Nat
        /\ digest.items \in SUBSET Item
    BY DEF OnceInv, InboxInv, ReadersOK, Sync, ReaderState, Digest
  <1>2. /\ syncs + 1 \in Nat /\ newest \in [Enrollment -> Nat] /\ newest[e] \in Nat
        /\ Coalesced(records[e]) /\ DOMAIN records = Enrollment
        /\ records = [d \in Enrollment |-> records[d]]
    BY <1>1, LimitAssumption DEF OnceInv, InboxInv, StoreOK, RecordsOK, HistoryOK
  <1>3. all \subseteq Record /\ OneEach(all)
    BY <1>1, <1>2, UpsertedKeeps DEF Coalesced
  <1>4. IsFiniteSet(all) /\ Cardinality(all) \in Nat
    BY <1>3, OneEachFinite, FS_CardinalityType
  <1>5. e \notin disturbed /\ ~(digest.revision < newest[e]) /\ ~(Cardinality(all) > RecordLimit)
    BY DEF Sync
  <1>6. newest[e] <= digest.revision /\ Cardinality(all) <= RecordLimit
    BY <1>1, <1>2, <1>4, <1>5, LimitAssumption
  <1>7. newest'[e] = digest.revision
    <2>1. newest' = [newest EXCEPT ![e] = Max({newest[e], digest.revision})]
      BY <1>2 DEF Sync
    <2>2. QED
      BY <1>1, <1>2, <1>6, <2>1, MaxOfTwo
  <1>8. records'[e] = Resynced(all, digest)
    <2>1. Retained(all) = {all}
      BY <1>6 DEF Retained
    <2>2. records' = [records EXCEPT ![e] = Resynced(all, digest)]
      BY <2>1 DEF Sync
    <2>3. QED
      BY <1>1, <1>2, <2>2
  <1>9. /\ \A r \in records[e] : \E s \in all : s.item = r.item
        /\ \A s \in all : s.item \in digest.items \/ \E r \in records[e] : r.item = s.item
    BY <1>1, <1>2, UpsertedItems DEF Coalesced
  <1>10. QED
    BY <1>1, <1>5, <1>6, <1>7, <1>8, <1>9

(* Then no record goes whose item the server went on listing.               *)
LEMMA ListedStays ==
  ASSUME OnceInv, NEW t \in Reader, Sync(t), reader[t].enrollment \notin disturbed',
         NEW r \in records[reader[t].enrollment],
         ListedWithoutBreak(reader[t].enrollment, r.item)
  PROVE  \E s \in records'[reader[t].enrollment] : s.item = r.item
  <1> DEFINE e == reader[t].enrollment
             digest == reader[t].digest
             all == Upserted(records[e], digest.items, syncs + 1)
  <1>1. /\ e \in Enrollment \ disturbed /\ newest[e] <= digest.revision
        /\ records'[e] = Resynced(all, digest)
        /\ \E s \in all : s.item = r.item
    BY StoredInOrder
  <1>2. Follows(digest, e)
    BY DEF OnceInv, JobsListed, Sync
  <1>3. PICK k \in 1..newest[e] : r.item \in listings[e][k]
    BY <1>1 DEF OnceInv, RecordsListed
  <1>4. /\ newest[e] \in Nat /\ digest.revision \in 1..Len(listings[e])
        /\ Len(listings[e]) \in Nat /\ DOMAIN listings[e] = 1..Len(listings[e])
    BY <1>1, <1>2 DEF OnceInv, HistoryOK, Follows, InboxInv, ListingsOK
  <1>5. r.item \in listings[e][digest.revision]
    BY <1>1, <1>3, <1>4 DEF ListedWithoutBreak
  <1>6. Complete(digest) => r.item \in digest.items
    BY <1>2, <1>5 DEF Complete, Follows
  <1> HIDE DEF all
  <1>7. QED
    BY <1>1, <1>6 DEF Resynced

LEMMA SyncOnce ==
  ASSUME OnceInv, NEW t \in Reader, Sync(t)
  PROVE  OnceInv'
  <1> DEFINE e == reader[t].enrollment
             digest == reader[t].digest
             all == Upserted(records[e], digest.items, syncs + 1)
  <1>1. InboxInv' /\ DeliveriesStay
    BY SyncStep DEF OnceInv
  <1>2. /\ e \in Enrollment /\ digest.revision \in Nat /\ UNCHANGED <<listings, enrolled, handed>>
        /\ newest \in [Enrollment -> Nat] /\ disturbed \subseteq disturbed'
        /\ disturbed' \subseteq Enrollment
    BY DEF OnceInv, InboxInv, ReadersOK, ReaderState, Digest, HistoryOK, Sync, serverVars
  <1>3. Follows(digest, e)
    BY DEF OnceInv, JobsListed, Sync
  <1>4. \A d \in Enrollment : d # e => newest'[d] = newest[d] /\ records'[d] = records[d]
    BY <1>2 DEF Sync, OnceInv, InboxInv, RecordsOK
  <1>5. HistoryOK'
    <2>1. newest' = [newest EXCEPT ![e] = Max({newest[e], digest.revision})]
      BY <1>2 DEF Sync
    <2>2. Max({newest[e], digest.revision}) \in {newest[e], digest.revision}
      BY <1>2, MaxOfTwoIs
    <2>3. digest.revision <= Len(listings[e])
      BY <1>2, <1>3 DEF Follows, OnceInv, InboxInv, ListingsOK
    <2> DEFINE m == Max({newest[e], digest.revision})
    <2>4. m \in Nat /\ m <= Len(listings[e])
      BY <1>2, <2>2, <2>3 DEF OnceInv, HistoryOK
    <2> HIDE DEF m
    <2>5. newest' = [newest EXCEPT ![e] = m]
      BY <2>1 DEF m
    <2>6. QED
      BY <1>2, <2>4, <2>5 DEF OnceInv, HistoryOK
  <1>6. JobsListed'
    <2>1. \A u \in Reader : reader'[u].pc = "syncing" => reader'[u] = reader[u]
      <3>1. reader \in [Reader -> ReaderState]
        BY DEF OnceInv, InboxInv, ReadersOK
      <3>2. reader'[t].pc # "syncing"
        BY <3>1, IdleType DEF Sync, ReaderState
      <3>3. \A u \in Reader : u # t => reader'[u] = reader[u]
        BY <3>1 DEF Sync
      <3>4. QED
        BY <3>2, <3>3
    <2>2. QED
      BY <1>2, <2>1 DEF OnceInv, JobsListed, Follows
  <1>7. RecordsListed'
    <2>1. ASSUME NEW d \in Enrollment \ disturbed', d # e, NEW r \in records'[d]
          PROVE  \E s \in 1..newest'[d] : r.item \in listings'[d][s]
      BY <1>2, <1>4, <2>1 DEF OnceInv, RecordsListed
    <2>2. ASSUME e \notin disturbed', NEW s \in records'[e]
          PROVE  \E k \in 1..newest'[e] : s.item \in listings'[e][k]
      <3>1. /\ e \in Enrollment \ disturbed
            /\ newest[e] <= digest.revision /\ newest'[e] = digest.revision
            /\ records'[e] = Resynced(all, digest)
            /\ \A o \in all : o.item \in digest.items \/ \E r \in records[e] : r.item = o.item
        BY <2>2, StoredInOrder
      <3>2. s \in all
        BY <2>2, <3>1, ResyncedLess
      <3>3. CASE s.item \in digest.items
        BY <1>2, <1>3, <3>1, <3>3 DEF Follows
      <3>4. CASE \E r \in records[e] : r.item = s.item
        <4>1. PICK k \in 1..newest[e] : s.item \in listings[e][k]
          BY <3>1, <3>4 DEF OnceInv, RecordsListed
        <4>2. k \in 1..digest.revision
          BY <1>2, <3>1, <4>1
        <4>3. QED
          BY <1>2, <3>1, <4>1, <4>2
      <3>5. QED
        BY <3>1, <3>2, <3>3, <3>4
    <2>3. QED
      BY <2>1, <2>2 DEF RecordsListed
  <1>8. HandedOnce'
    <2> SUFFICES ASSUME NEW d \in enrolled' \ disturbed', NEW i \in Item,
                        ListedWithoutBreak(d, i)'
                 PROVE  /\ handed'[d][i] <= 1
                        /\ handed'[d][i] = 1 => \E r \in records'[d] : r.item = i /\ r.delivered
      BY DEF HandedOnce
    <2>1. /\ d \in Enrollment /\ d \in enrolled \ disturbed /\ ListedWithoutBreak(d, i)
          /\ handed'[d][i] = handed[d][i]
      BY <1>2 DEF OnceInv, InboxInv, StoreOK, ListedWithoutBreak
    <2>2. /\ handed[d][i] <= 1
          /\ handed[d][i] = 1 => \E r \in records[d] : r.item = i /\ r.delivered
      BY <2>1 DEF OnceInv, HandedOnce
    <2>3. CASE d # e
      BY <1>4, <2>1, <2>2, <2>3
    <2>4. CASE d = e
      <3>1. ASSUME handed[d][i] = 1
            PROVE  \E s \in records'[d] : s.item = i /\ s.delivered
        <4>1. PICK r \in records[d] : r.item = i /\ r.delivered
          BY <2>2, <3>1
        <4>2. PICK s \in records'[d] : s.item = i
          BY <2>1, <2>4, <4>1, ListedStays
        <4>3. QED
          BY <1>1, <2>1, <4>1, <4>2 DEF DeliveriesStay
      <3>2. QED
        BY <2>1, <2>2, <3>1
    <2>5. QED
      BY <2>3, <2>4
  <1>9. QED
    BY <1>1, <1>5, <1>6, <1>7, <1>8 DEF OnceInv

-----------------------------------------------------------------------------
(* An answer is rendered: what it hands out was waiting, so was never       *)
(* handed out before.                                                       *)
LEMMA FinishOnce ==
  ASSUME OnceInv, NEW t \in Reader, Finish(t)
  PROVE  /\ OnceInv'
         /\ \A d \in Enrollment : \A r \in records[d] : \E s \in records'[d] : s.item = r.item
  <1> DEFINE e == reader[t].enrollment
  <1>1. InboxInv' /\ UNCHANGED <<listings, enrolled, newest, disturbed>>
    BY FinishStep DEF OnceInv, Finish, serverVars
  <1>2. e \in Enrollment /\ Coalesced(records[e])
    BY DEF OnceInv, InboxInv, ReadersOK, RecordsOK, Finish
  <1>3. PICK previews \in Previews(records[e]) :
          /\ records' = [records EXCEPT ![e] = Marked(@, previews)]
          /\ handed' = [handed EXCEPT ![e] =
               [i \in Item |-> IF i \in previews THEN @[i] + 1 ELSE @[i]]]
    BY DEF Finish
  <1>4. /\ records'[e] = Marked(records[e], previews)
        /\ \A d \in Enrollment : d # e => records'[d] = records[d]
    BY <1>2, <1>3 DEF OnceInv, InboxInv, RecordsOK
  <1>5. /\ handed' \in [Enrollment -> [Item -> Nat]]
        /\ \A d \in Enrollment : d # e => handed'[d] = handed[d]
        /\ \A i \in Item : handed'[e][i] = IF i \in previews THEN handed[e][i] + 1
                                           ELSE handed[e][i]
    BY <1>2, <1>3 DEF OnceInv, HistoryOK
  <1>6. \A r \in records[e] : \E s \in records'[e] :
          s.item = r.item /\ (r.item \in previews \/ r.delivered => s.delivered)
    BY <1>2, <1>4, MarkedItems DEF Coalesced
  <1>7. \A i \in previews : \E r \in records[e] : r.item = i /\ ~r.delivered
    BY PreviewsWait
  <1>8. HistoryOK'
    BY <1>1, <1>5 DEF OnceInv, HistoryOK
  <1>9. JobsListed'
    <2>1. reader \in [Reader -> ReaderState]
      BY DEF OnceInv, InboxInv, ReadersOK
    <2>2. \A u \in Reader : reader'[u].pc = "syncing" => reader'[u] = reader[u]
      BY <2>1, IdleType DEF Finish
    <2>3. QED
      BY <1>1, <2>2 DEF OnceInv, JobsListed, Follows
  <1>10. RecordsListed'
    <2>1. \A s \in records'[e] : \E r \in records[e] : r.item = s.item
      <3>1. \A s \in records'[e] : \E r \in records[e] : s = Handed(r, previews)
        BY <1>4 DEF Marked, Handed
      <3>2. QED
        BY <1>2, <3>1, HandedKeeps DEF Coalesced
    <2>2. QED
      BY <1>1, <1>4, <2>1 DEF OnceInv, RecordsListed
  <1>11. HandedOnce'
    <2> SUFFICES ASSUME NEW d \in enrolled' \ disturbed', NEW i \in Item,
                        ListedWithoutBreak(d, i)'
                 PROVE  /\ handed'[d][i] <= 1
                        /\ handed'[d][i] = 1 => \E r \in records'[d] : r.item = i /\ r.delivered
      BY DEF HandedOnce
    <2>1. d \in Enrollment /\ d \in enrolled \ disturbed /\ ListedWithoutBreak(d, i)
      BY <1>1 DEF OnceInv, InboxInv, StoreOK, ListedWithoutBreak
    <2>2. /\ handed[d][i] \in Nat /\ handed[d][i] <= 1
          /\ handed[d][i] = 1 => \E r \in records[d] : r.item = i /\ r.delivered
      BY <2>1 DEF OnceInv, HandedOnce, HistoryOK
    <2>3. CASE d # e
      BY <1>4, <1>5, <2>1, <2>2, <2>3
    <2>4. CASE d = e /\ i \notin previews
      BY <1>5, <1>6, <2>2, <2>4
    <2>5. CASE d = e /\ i \in previews
      <3>1. PICK r \in records[e] : r.item = i /\ ~r.delivered
        BY <1>7, <2>5
      <3>2. handed[d][i] # 1
        BY <1>2, <2>2, <2>5, <3>1 DEF Coalesced, OneEach
      <3>3. handed'[d][i] = 1
        BY <1>5, <2>2, <2>5, <3>2
      <3>4. QED
        BY <1>6, <2>5, <3>1, <3>3
    <2>6. QED
      BY <2>3, <2>4, <2>5
  <1>12. \A d \in Enrollment : \A r \in records[d] : \E s \in records'[d] : s.item = r.item
    BY <1>4, <1>6
  <1>13. QED
    BY <1>1, <1>8, <1>9, <1>10, <1>11, <1>12 DEF OnceInv

LEMMA ForgetOnce ==
  ASSUME OnceInv, NEW e \in Enrollment, Forget(e)
  PROVE  OnceInv'
  <1>1. /\ InboxInv' /\ UNCHANGED <<listings, reader, handed, newest, disturbed>>
        /\ enrolled' = enrolled \ {e}
        /\ \A d \in Enrollment : records'[d] = IF d = e THEN {} ELSE records[d]
    BY ForgetStep DEF OnceInv, Forget, serverVars, historyVars, InboxInv, RecordsOK
  <1>2. HistoryOK' /\ JobsListed'
    BY <1>1 DEF OnceInv, HistoryOK, JobsListed, Follows
  <1>3. RecordsListed'
    BY <1>1 DEF OnceInv, RecordsListed
  <1>4. HandedOnce'
    BY <1>1 DEF OnceInv, HandedOnce, ListedWithoutBreak, InboxInv, StoreOK
  <1>5. QED
    BY <1>1, <1>2, <1>3, <1>4 DEF OnceInv

RecordsStay ==
  \A e \in enrolled \ disturbed' : \A r \in records[e] :
    e \in enrolled' /\ ListedWithoutBreak(e, r.item)
      => \E s \in records'[e] : s.item = r.item

LEMMA OnceStep ==
  ASSUME OnceInv, [Next]_vars PROVE OnceInv' /\ RecordsStay
  <1>1. UNCHANGED records => RecordsStay
    BY DEF RecordsStay
  <1>2. CASE UNCHANGED vars
    <2>1. UNCHANGED <<listings, enrolled, records, historyVars, reader>>
      BY <1>2 DEF vars, serverVars, storeVars
    <2>2. JobsListed'
      BY <2>1 DEF OnceInv, JobsListed, Follows
    <2>3. QED
      BY <1>1, <1>2, <2>1, <2>2, InboxStep, ReaderOnce DEF OnceInv
  <1>3. ASSUME NEW t \in Reader, ReaderStep(t) PROVE OnceInv' /\ RecordsStay
    <2>1. CASE \E e \in Enrollment : Start(t, e)
      <3>1. \E e \in Enrollment, kind \in Kind : Request(t, e, kind)
        BY <2>1 DEF Start, Kind, InContext
      <3>2. UNCHANGED records
        BY <3>1 DEF Request, storeVars
      <3>3. QED
        BY <1>1, <3>1, <3>2, FetchOnce
    <2>2. CASE Answered(t) \/ RequestFails(t)
      <3>1. UNCHANGED records
        BY <2>2 DEF Answered, RequestFails, storeVars
      <3>2. QED
        BY <1>1, <2>2, <3>1, FetchOnce
    <2>3. CASE Sync(t)
      <3>1. \A d \in Enrollment : d # reader[t].enrollment => records'[d] = records[d]
        BY <2>3 DEF Sync, OnceInv, InboxInv, RecordsOK
      <3>2. RecordsStay
        BY <2>3, <3>1, ListedStays DEF RecordsStay, OnceInv, InboxInv, StoreOK
      <3>3. QED
        BY <2>3, <3>2, SyncOnce
    <2>4. CASE Finish(t)
      BY <2>4, FinishOnce DEF RecordsStay, OnceInv, InboxInv, StoreOK
    <2>5. QED
      BY <1>3, <2>1, <2>2, <2>3, <2>4 DEF ReaderStep
  <1>4. ASSUME NEW e \in Enrollment, ListingChanges(e) PROVE OnceInv' /\ RecordsStay
    BY <1>1, <1>4, ListingOnce, ListingStep DEF OnceInv
  <1>5. ASSUME NEW e \in Enrollment, Forget(e) PROVE OnceInv' /\ RecordsStay
    <2>1. RecordsStay
      BY <1>5 DEF Forget, RecordsStay, OnceInv, InboxInv, RecordsOK, StoreOK
    <2>2. QED
      BY <1>5, <2>1, ForgetOnce
  <1>6. QED
    BY <1>2, <1>3, <1>4, <1>5 DEF Next

(* "repeated mention delivery coalesces": an item the server lists without  *)
(* a break is delivered once, by however many readers it is reported, short *)
(* of digests stored out of order and of records past the limit.            *)
THEOREM DeliveriesOnce == Spec => []DeliveredOnce
  <1>1. OnceInv /\ [Next]_vars => OnceInv'
    BY OnceStep
  <1>2. OnceInv => DeliveredOnce
    BY DEF OnceInv, HandedOnce, DeliveredOnce
  <1>3. QED
    BY <1>1, <1>2, OnceInit, PTL DEF Spec

(* Short of the same two things, no digest withdraws the record of an item  *)
(* the server goes on listing.                                              *)
THEOREM ListedKept == Spec => KeptWhileListed
  <1>1. OnceInv /\ [Next]_vars => OnceInv'
    BY OnceStep
  <1>2. OnceInv /\ [Next]_vars =>
          [\A e \in enrolled \ disturbed' : \A r \in records[e] :
             e \in enrolled' /\ ListedWithoutBreak(e, r.item)
               => \E s \in records'[e] : s.item = r.item]_vars
    BY OnceStep DEF RecordsStay
  <1>3. QED
    BY <1>1, <1>2, OnceInit, PTL DEF Spec, KeptWhileListed

-----------------------------------------------------------------------------
(* The mailbox.                                                             *)

AllItems(S) == {r.item : r \in S}

LEMMA BothStates ==
  ASSUME NEW S \in SUBSET Record
  PROVE  Waiting(S) \cup Delivered(S) = AllItems(S)
  BY DEF Waiting, Delivered, AllItems, Record

(* One enrollment's records change.                                         *)
WaitingBox == [e \in Enrollment |-> Waiting(records[e])]
DeliveredBox == [e \in Enrollment |-> Delivered(records[e])]

LEMMA BoxSet ==
  ASSUME NEW e \in Enrollment, NEW S,
         \A d \in Enrollment : records'[d] = IF d = e THEN S ELSE records[d]
  PROVE  /\ WaitingBox[e] = Waiting(records[e]) /\ DeliveredBox[e] = Delivered(records[e])
         /\ WaitingBox'[e] = Waiting(S) /\ DeliveredBox'[e] = Delivered(S)
         /\ WaitingBox' = [WaitingBox EXCEPT ![e] = Waiting(S)]
         /\ DeliveredBox' = [DeliveredBox EXCEPT ![e] = Delivered(S)]
  BY DEF WaitingBox, DeliveredBox, Waiting, Delivered

LEMMA ItemsBounded ==
  ASSUME NEW S, Coalesced(S)
  PROVE  Cardinality(AllItems(S)) <= RecordLimit
  <1> DEFINE f == [r \in S |-> r.item]
  <1>1. f \in Surjection(S, AllItems(S))
    BY DEF Surjection, AllItems
  <1> HIDE DEF f
  <1>2. IsFiniteSet(S) /\ Cardinality(S) <= RecordLimit
    BY OneEachFinite DEF Coalesced
  <1>3. IsFiniteSet(AllItems(S)) /\ Cardinality(AllItems(S)) <= Cardinality(S)
    BY <1>1, <1>2, FS_Surjection
  <1>4. Cardinality(AllItems(S)) \in Nat /\ Cardinality(S) \in Nat
    BY <1>2, <1>3, FS_CardinalityType
  <1>5. QED
    BY <1>2, <1>3, <1>4, LimitAssumption

(* What a digest adds waits.                                                *)
LEMMA UpsertedWaits ==
  ASSUME NEW kept \in SUBSET Record, NEW items \in SUBSET Item, NEW now \in Nat,
         NEW s \in Upserted(kept, items, now), s.item \notin AllItems(kept)
  PROVE  s.item \in items /\ s.delivered = FALSE
  <1>1. \/ \E r \in kept : s = Reported(r, items, now)
        \/ \E i \in items : s = Minted(i, now)
    BY DEF Upserted, Reported, Minted
  <1>2. CASE \E r \in kept : s = Reported(r, items, now)
    BY <1>2, ReportedKeeps DEF AllItems
  <1>3. CASE \E i \in items : s = Minted(i, now)
    <2>1. PICK i \in items : s = Minted(i, now)
      BY <1>3
    <2>2. s.item = i /\ s.delivered = FALSE
      BY <2>1, MintedIs
    <2>3. QED
      BY <2>2
  <1>4. QED
    BY <1>1, <1>2, <1>3

(* Records that were there keep their state, those that came wait: the      *)
(* items of each state follow from which came and which went.               *)
LEMMA ItemsMove ==
  ASSUME NEW S \in SUBSET Record, NEW T \in SUBSET Record,
         \A r \in S, s \in T : r.item = s.item => s.delivered = r.delivered,
         \A s \in T : s.item \notin AllItems(S) => s.delivered = FALSE
  PROVE  LET new == AllItems(T) \ AllItems(S)
             gone == AllItems(S) \ AllItems(T)
         IN  /\ Waiting(T) = (Waiting(S) \cup new) \ gone
             /\ Delivered(T) = Delivered(S) \ gone
  <1> DEFINE new == AllItems(T) \ AllItems(S)
             gone == AllItems(S) \ AllItems(T)
  <1>1. /\ Waiting(S) \cup Delivered(S) = AllItems(S)
        /\ Waiting(T) \cup Delivered(T) = AllItems(T)
    BY BothStates
  <1>2. ASSUME NEW i \in Waiting(T) PROVE i \in Waiting(S) \cup new
    <2>1. PICK s \in T : s.item = i /\ ~s.delivered
      BY <1>2 DEF Waiting
    <2>2. \A r \in S : r.item = i => ~r.delivered
      BY <2>1
    <2>3. QED
      BY <1>1, <1>2, <2>2 DEF AllItems, Waiting
  <1>3. ASSUME NEW i \in Delivered(T) PROVE i \in Delivered(S)
    <2>1. PICK s \in T : s.item = i /\ s.delivered
      BY <1>3 DEF Delivered
    <2>2. PICK r \in S : r.item = i
      BY <2>1 DEF AllItems
    <2>3. r.delivered
      BY <2>1, <2>2
    <2>4. QED
      BY <2>2, <2>3 DEF Delivered
  <1>4. ASSUME NEW i \in Waiting(S), i \notin gone PROVE i \in Waiting(T)
    <2>1. PICK r \in S : r.item = i /\ ~r.delivered
      BY <1>4 DEF Waiting
    <2>2. PICK s \in T : s.item = i
      BY <1>1, <1>4 DEF AllItems
    <2>3. ~s.delivered
      BY <2>1, <2>2
    <2>4. QED
      BY <2>2, <2>3 DEF Waiting
  <1>5. ASSUME NEW i \in Delivered(S), i \notin gone PROVE i \in Delivered(T)
    <2>1. PICK r \in S : r.item = i /\ r.delivered
      BY <1>5 DEF Delivered
    <2>2. PICK s \in T : s.item = i
      BY <1>1, <1>5 DEF AllItems
    <2>3. s.delivered
      BY <2>1, <2>2
    <2>4. QED
      BY <2>2, <2>3 DEF Delivered
  <1>6. ASSUME NEW i \in new PROVE i \in Waiting(T)
    <2>1. PICK s \in T : s.item = i /\ i \notin AllItems(S)
      BY <1>6 DEF AllItems
    <2>2. QED
      BY <2>1 DEF Waiting
  <1>7. QED
    BY <1>1, <1>2, <1>3, <1>4, <1>5, <1>6

(* The mailbox counts with the same Cardinality.                            *)
LEMMA SameCount == \A S : M!Cardinality(S) = Cardinality(S)
  BY DEF M!Cardinality, Cardinality

LEMMA SyncBox ==
  ASSUME OnceInv, NEW t \in Reader, Sync(t)
  PROVE  M!Next
  <1>0. PICK e : e = reader[t].enrollment
    OBVIOUS
  <1> DEFINE digest == reader[t].digest
             now == syncs + 1
             all == Upserted(records[e], digest.items, now)
             old == records[e]
  <1>1. /\ e \in Enrollment /\ digest \in Digest /\ digest.items \in SUBSET Item
        /\ now \in Nat /\ Coalesced(old) /\ old \in SUBSET Record
        /\ UNCHANGED <<listings, enrolled, handed>>
        /\ disturbed' \in {disturbed, disturbed \cup {e}}
    BY <1>0, LimitAssumption
    DEF OnceInv, InboxInv, ReadersOK, StoreOK, RecordsOK, Coalesced, Sync, ReaderState, Digest, serverVars
  <1>2. PICK kept \in Retained(all) :
          records' = [records EXCEPT ![e] = Resynced(kept, digest)]
    BY <1>0 DEF Sync
  <1> DEFINE stay == Resynced(kept, digest)
             new == AllItems(stay) \ AllItems(old)
             gone == AllItems(old) \ AllItems(stay)
  <1>3. \A d \in Enrollment : records'[d] = IF d = e THEN stay ELSE records[d]
    BY <1>2 DEF OnceInv, InboxInv, RecordsOK
  <1>4. /\ Coalesced(stay) /\ stay \in SUBSET Record
        /\ \A r \in old, s \in stay : r.item = s.item => s.delivered = r.delivered
    BY <1>1, <1>2, Stored DEF Coalesced
  <1>5. /\ all \subseteq Record /\ OneEach(all)
        /\ \A r \in old, s \in all : r.item = s.item => s.delivered = r.delivered
        /\ \A r \in old : \E s \in all : s.item = r.item
    BY <1>1, UpsertedKeeps, UpsertedItems DEF Coalesced
  <1>6. kept \subseteq all /\ stay \subseteq kept
    BY <1>2, <1>5, OneEachFinite, RetainedBounded, ResyncedLess
  <1>7. \A s \in stay : s.item \notin AllItems(old) =>
          s.item \in digest.items /\ s.delivered = FALSE
    BY <1>1, <1>6, UpsertedWaits
  <1>8. /\ Waiting(stay) = (Waiting(old) \cup new) \ gone
        /\ Delivered(stay) = Delivered(old) \ gone
    <2> HIDE DEF stay, old, all
    <2>1. QED
      BY <1>1, <1>4, <1>7, ItemsMove
  <1>9. new \subseteq M!Known(e)
    <2>1. Follows(digest, e)
      BY <1>0 DEF OnceInv, JobsListed, Sync
    <2>2. digest.items \subseteq listings[e][digest.revision]
          /\ digest.revision \in DOMAIN listings[e]
      BY <1>1, <2>1 DEF Follows, OnceInv, InboxInv, ListingsOK
    <2>3. new \subseteq digest.items
      <3> HIDE DEF stay, old
      <3>1. QED
        BY <1>7 DEF AllItems
    <2>4. QED
      BY <2>2, <2>3 DEF M!Known
  <1>10. e \notin disturbed' => gone \subseteq Directed \cap M!Missed(e)
    <2> SUFFICES ASSUME e \notin disturbed', NEW i \in gone
                 PROVE  i \in Directed /\ i \in M!Missed(e)
      OBVIOUS
    <2>1. PICK r \in old : r.item = i
      BY DEF AllItems
    <2>2. ~\E s \in stay : s.item = i
      BY DEF AllItems
    <2>3. stay = Resynced(all, digest)
      BY <1>0, <1>1, <1>3, StoredInOrder
    <2>4. PICK s \in all : s.item = i
      BY <1>5, <2>1
    <2>5. i \in Directed
      <3> HIDE DEF all
      <3>1. QED
        BY <2>2, <2>3, <2>4 DEF Resynced
    <2>6. ~ListedWithoutBreak(e, i)
      BY <1>0, <1>1, <1>3, <2>1, <2>2, ListedStays
    <2>7. PICK k, l \in DOMAIN listings[e] :
            k < l /\ i \in listings[e][k] /\ i \notin listings[e][l]
      BY <2>6 DEF ListedWithoutBreak
    <2>8. QED
      BY <2>5, <2>7 DEF M!Missed, M!Known
  <1>11. /\ Waiting(old) \cup Delivered(old) = AllItems(old)
         /\ Waiting(stay) \cup Delivered(stay) = AllItems(stay)
         /\ Cardinality(AllItems(stay)) <= RecordLimit
    BY <1>1, <1>4, BothStates, ItemsBounded
  <1>12. AllItems(stay) \subseteq Item
    BY <1>4 DEF AllItems, Record
  <1> HIDE DEF stay, old, all, new, gone
  <1>13. /\ WaitingBox[e] = Waiting(old)
         /\ DeliveredBox[e] = Delivered(old)
         /\ WaitingBox'[e] = Waiting(stay)
         /\ DeliveredBox'[e] = Delivered(stay)
         /\ WaitingBox' = [WaitingBox EXCEPT ![e] = Waiting(stay)]
         /\ DeliveredBox' = [DeliveredBox EXCEPT ![e] = Delivered(stay)]
    BY <1>1, <1>3, BoxSet DEF old
  <1>14. M!Recorded(e) = AllItems(old) /\ M!Recorded(e)' = AllItems(stay)
    BY <1>11, <1>13 DEF M!Recorded, WaitingBox, DeliveredBox
  <1>15. M!Take(e, new, gone)
    <2>1. /\ WaitingBox' = [WaitingBox EXCEPT ![e] = (@ \cup new) \ gone]
          /\ DeliveredBox' = [DeliveredBox EXCEPT ![e] = @ \ gone]
      BY <1>8, <1>13
    <2>2. Cardinality(M!Recorded(e)') <= RecordLimit
      BY <1>11, <1>14
    <2>3. QED
      BY <1>1, <1>9, <1>10, <2>1, <2>2, SameCount DEF M!Take, WaitingBox, DeliveredBox
  <1>16. new \in SUBSET (Item \ M!Recorded(e)) /\ gone \in SUBSET M!Recorded(e)
    BY <1>12, <1>14 DEF new, gone
  <1>17. QED
    BY <1>1, <1>15, <1>16 DEF M!Next

LEMMA FinishBox ==
  ASSUME OnceInv, NEW t \in Reader, Finish(t)
  PROVE  M!Next
  <1>0. PICK e : e = reader[t].enrollment
    OBVIOUS
  <1> DEFINE old == records[e]
  <1>1. /\ e \in Enrollment /\ old \in SUBSET Record
        /\ UNCHANGED <<listings, enrolled, disturbed>>
    BY <1>0 DEF OnceInv, InboxInv, ReadersOK, RecordsOK, Coalesced, Finish, serverVars
  <1>2. PICK previews \in Previews(old) :
          /\ records' = [records EXCEPT ![e] = Marked(old, previews)]
          /\ handed' = [handed EXCEPT ![e] =
               [i \in Item |-> IF i \in previews THEN @[i] + 1 ELSE @[i]]]
    BY <1>0, <1>1 DEF Finish, OnceInv, InboxInv, RecordsOK
  <1> DEFINE waits == Waiting(old)
  <1>3. waits = {r.item : r \in {s \in old : ~s.delivered}}
    BY <1>1 DEF Waiting, Record
  <1>4. /\ previews \subseteq waits
        /\ previews = waits \/ Cardinality(previews) = PreviewLimit
        /\ Cardinality(previews) <= PreviewLimit
    <2>1. CASE Cardinality(waits) <= PreviewLimit
      BY <1>2, <1>3, <2>1 DEF Previews
    <2>2. CASE ~(Cardinality(waits) <= PreviewLimit)
      BY <1>2, <1>3, <2>2, LimitAssumption DEF Previews, kSubset
    <2>3. QED
      BY <2>1, <2>2
  <1> DEFINE stay == Marked(old, previews)
  <1>5. stay = {Handed(r, previews) : r \in old}
    BY DEF Marked, Handed
  <1>6. \A r \in old : /\ Handed(r, previews).item = r.item
                      /\ Handed(r, previews).delivered = (r.delivered \/ r.item \in previews)
    BY <1>1 DEF Handed, Record
  <1>7. \A d \in Enrollment : records'[d] = IF d = e THEN stay ELSE records[d]
    BY <1>2 DEF OnceInv, InboxInv, RecordsOK
  <1> HIDE DEF stay, old
  <1>8. Waiting(stay) = Waiting(old) \ previews
    <2>1. ASSUME NEW i \in Waiting(stay) PROVE i \in Waiting(old) \ previews
      <3>1. PICK s \in stay : s.item = i /\ ~s.delivered
        BY <2>1 DEF Waiting
      <3>2. PICK r \in old : s = Handed(r, previews)
        BY <1>5
      <3>3. r.item = i /\ ~r.delivered /\ i \notin previews
        BY <1>6, <3>1, <3>2
      <3>4. QED
        BY <3>3 DEF Waiting
    <2>2. ASSUME NEW i \in Waiting(old) \ previews PROVE i \in Waiting(stay)
      <3>1. PICK r \in old : r.item = i /\ ~r.delivered
        BY <2>2 DEF Waiting
      <3>2. Handed(r, previews).item = i /\ ~Handed(r, previews).delivered
        BY <1>6, <2>2, <3>1
      <3>3. QED
        BY <1>5, <3>2 DEF Waiting
    <2>3. QED
      BY <2>1, <2>2
  <1>9. Delivered(stay) = Delivered(old) \cup previews
    <2>1. ASSUME NEW i \in Delivered(stay) PROVE i \in Delivered(old) \cup previews
      <3>1. PICK s \in stay : s.item = i /\ s.delivered
        BY <2>1 DEF Delivered
      <3>2. PICK r \in old : s = Handed(r, previews)
        BY <1>5
      <3>3. r.item = i /\ (r.delivered \/ i \in previews)
        BY <1>6, <3>1, <3>2
      <3>4. QED
        BY <3>3 DEF Delivered
    <2>2. ASSUME NEW i \in Delivered(old) \cup previews PROVE i \in Delivered(stay)
      <3>1. PICK r \in old : r.item = i /\ (r.delivered \/ i \in previews)
        BY <1>4, <2>2 DEF Delivered, Waiting
      <3>2. Handed(r, previews).item = i /\ Handed(r, previews).delivered
        BY <1>6, <3>1
      <3>3. QED
        BY <1>5, <3>2 DEF Delivered
    <2>3. QED
      BY <2>1, <2>2
  <1>10. /\ WaitingBox[e] = Waiting(old)
         /\ DeliveredBox[e] = Delivered(old)
         /\ WaitingBox' = [WaitingBox EXCEPT ![e] = Waiting(stay)]
         /\ DeliveredBox' = [DeliveredBox EXCEPT ![e] = Delivered(stay)]
    BY <1>1, <1>7, BoxSet DEF old
  <1>11. M!Deliver(e, previews)
    <2>1. /\ WaitingBox' = [WaitingBox EXCEPT ![e] = @ \ previews]
          /\ DeliveredBox' = [DeliveredBox EXCEPT ![e] = @ \cup previews]
      BY <1>8, <1>9, <1>10
    <2>2. previews = WaitingBox[e] \/ Cardinality(previews) = PreviewLimit
      BY <1>4, <1>10
    <2>3. QED
      BY <1>1, <1>2, <1>4, <2>1, <2>2, SameCount DEF M!Deliver, WaitingBox, DeliveredBox
  <1>12. QED
    BY <1>1, <1>4, <1>10, <1>11 DEF M!Next, WaitingBox, DeliveredBox

LEMMA ForgetBox ==
  ASSUME OnceInv, NEW e \in Enrollment, Forget(e)
  PROVE  M!Next
  <1>1. \A d \in Enrollment : records'[d] = IF d = e THEN {} ELSE records[d]
    BY DEF Forget, OnceInv, InboxInv, RecordsOK
  <1>2. Waiting({}) = {} /\ Delivered({}) = {}
    BY DEF Waiting, Delivered
  <1>3. /\ WaitingBox' = [WaitingBox EXCEPT ![e] = {}]
        /\ DeliveredBox' = [DeliveredBox EXCEPT ![e] = {}]
    BY <1>1, <1>2, BoxSet
  <1>4. M!Forget(e)
    BY <1>3 DEF Forget, M!Forget, WaitingBox, DeliveredBox, serverVars, historyVars
  <1>5. QED
    BY <1>4 DEF M!Next

LEMMA ListingBox ==
  ASSUME OnceInv, NEW e \in Enrollment, ListingChanges(e)
  PROVE  M!Next
  <1> DEFINE now(i) == IF i \in Listed(e) THEN Listed(e) \ {i} ELSE Listed(e) \cup {i}
  <1>1. PICK i \in Item : listings' = [listings EXCEPT ![e] = Append(@, now(i))]
    BY DEF ListingChanges
  <1>2. now(i) \in SUBSET Item
    BY InboxHolds DEF OnceInv, TypeOK
  <1> HIDE DEF now
  <1>3. UNCHANGED <<enrolled, WaitingBox, DeliveredBox, handed, disturbed>>
    BY DEF ListingChanges, storeVars, historyVars, WaitingBox, DeliveredBox
  <1>4. M!List(e, now(i))
    BY <1>1, <1>3 DEF M!List, WaitingBox, DeliveredBox
  <1>5. QED
    BY <1>2, <1>4 DEF M!Next

LEMMA BoxStep ==
  ASSUME OnceInv, [Next]_vars PROVE [M!Next]_(M!vars)
  <1>1. UNCHANGED <<listings, enrolled, records, handed, disturbed>> => UNCHANGED M!vars
    BY DEF M!vars
  <1>2. CASE UNCHANGED vars
    BY <1>1, <1>2 DEF vars, serverVars, storeVars, historyVars
  <1>3. ASSUME NEW t \in Reader, ReaderStep(t) PROVE [M!Next]_(M!vars)
    <2>1. CASE (\E e \in Enrollment : Start(t, e)) \/ Answered(t) \/ RequestFails(t)
      BY <1>1, <2>1
      DEF Start, Request, Answered, RequestFails, serverVars, storeVars, historyVars
    <2>2. QED
      BY <1>3, <2>1, SyncBox, FinishBox DEF ReaderStep
  <1>4. QED
    BY <1>2, <1>3, ForgetBox, ListingBox DEF Next

LEMMA BoxInit == Init => M!Init
  BY DEF Init, M!Init, Waiting, Delivered

(* Any number of readers, storing answers in any order, keep one mailbox:   *)
(* no delivery is taken back, none is counted that did not happen, and an   *)
(* item goes only as the mailbox lets it.                                   *)
THEOREM MailboxKept == Spec => ItemsGoOneWay
  <1>1. OnceInv /\ [Next]_vars => OnceInv' /\ [M!Next]_(M!vars)
    BY OnceStep, BoxStep
  <1>2. QED
    BY <1>1, OnceInit, BoxInit, PTL DEF Spec, ItemsGoOneWay, M!Spec

=============================================================================
