------------------------ MODULE TableCompactionProofs ------------------------
(***************************************************************************)
(* Proofs about the table compaction pipeline of TableCompaction: the     *)
(* type invariant and the absence of data loss under any overlap, crash,  *)
(* timeout or failure of pipeline runs, for every value of the constants. *)
(***************************************************************************)
EXTENDS TableCompaction, TLAPS

(* The newest index object that references an unmarked chunk is always in *)
(* storage: a run deletes an object only after uploading a newer one that *)
(* holds all of its unmarked chunks.                                      *)
NewestHolderStored ==
    \A u \in ingested \ marked :
        \E o \in store :
            /\ u \in content[o]
            /\ \A o2 \in 1..nextId : o2 > o => u \notin content[o2]

(* A busy run listed only existing objects, and its merged index holds     *)
(* every chunk of the objects it listed except those it marked.           *)
RunsCoverSnapshot ==
    \A w \in Workers : wst[w].phase # "idle" =>
        /\ wst[w].snap \subseteq 1..nextId
        /\ wst[w].todel \subseteq wst[w].snap
        /\ Referenced(wst[w].snap) \subseteq wst[w].merged \cup marked

(* A run that deletes has uploaded an object newer than all it listed,    *)
(* holding its merged index.                                              *)
UploadCoversOriginals ==
    \A w \in Workers : wst[w].phase = "deleting" =>
        /\ wst[w].upl \in 1..nextId
        /\ \A o \in wst[w].snap : o < wst[w].upl
        /\ wst[w].merged \subseteq content[wst[w].upl]

(* The inductive strengthening of NoDataLoss. *)
IInv ==
    /\ TypeOK
    /\ store \subseteq 1..nextId
    /\ NewestHolderStored
    /\ RunsCoverSnapshot
    /\ UploadCoversOriginals

-----------------------------------------------------------------------------
(* IInv holds initially. *)
LEMMA InitIInv == Init => IInv
<1> SUFFICES ASSUME Init PROVE IInv
  OBVIOUS
<1>1. IdleWorker \in WorkerState
  BY ObjectsAssumption DEF IdleWorker, WorkerState, Phases
<1>2. TypeOK
  BY <1>1, ObjectsAssumption DEF Init, TypeOK, ObjectIds
<1>3. QED
  BY <1>2 DEF Init, IInv, IdleWorker, NewestHolderStored, RunsCoverSnapshot,
              UploadCoversOriginals

(* What a Publish step does to the object ids, storage and contents. *)
LEMMA PublishFacts ==
    ASSUME TypeOK, NEW c, Publish(c)
    PROVE  /\ nextId' = nextId + 1
           /\ nextId + 1 \in ObjectIds
           /\ nextId' \in 0..MaxObjects
           /\ store' = store \cup {nextId + 1}
           /\ content'[nextId + 1] = c
           /\ \A o \in 1..nextId : content'[o] = content[o]
           /\ c \subseteq Units => content' \in [ObjectIds -> SUBSET Units]
BY ObjectsAssumption DEF Publish, TypeOK, ObjectIds

(* The chunks referenced by a set of objects depend only on their contents. *)
LEMMA ReferencedFrame ==
    ASSUME NEW S, \A o \in S : content'[o] = content[o]
    PROVE  Referenced(S)' = Referenced(S)
BY DEF Referenced

(* A run going back to idle, all else unchanged, preserves IInv. *)
LEMMA IdleIInv ==
    ASSUME IInv, NEW w \in Workers,
           wst' = [wst EXCEPT ![w] = IdleWorker],
           UNCHANGED <<store, content, nextId, ingested, expired, marked, ripe, swept>>
    PROVE  IInv'
<1>1. IdleWorker \in WorkerState
  BY ObjectsAssumption DEF IdleWorker, WorkerState, Phases
<1>2. TypeOK'
  BY <1>1 DEF IInv, TypeOK
<1>3. \A x \in Workers : x # w => wst'[x] = wst[x]
  BY DEF IInv, TypeOK
<1>4. wst'[w].phase = "idle"
  BY DEF IInv, TypeOK, IdleWorker
<1>5. RunsCoverSnapshot' /\ UploadCoversOriginals'
  BY <1>3, <1>4 DEF IInv, RunsCoverSnapshot, UploadCoversOriginals, Referenced
<1>6. QED
  BY <1>2, <1>5 DEF IInv, NewestHolderStored

(* The environment steps preserve IInv. *)
LEMMA IngestIInv ==
    ASSUME IInv, NEW u \in Units, Ingest(u)
    PROVE  IInv'
<1> USE DEF IInv
<1>0. /\ nextId' = nextId + 1
      /\ nextId + 1 \in ObjectIds
      /\ nextId' \in 0..MaxObjects
      /\ store' = store \cup {nextId + 1}
      /\ content'[nextId + 1] = {u}
      /\ \A o \in 1..nextId : content'[o] = content[o]
      /\ content' \in [ObjectIds -> SUBSET Units]
  BY PublishFacts DEF Ingest
<1>9. nextId \in Nat
  BY DEF TypeOK
<1>1. TypeOK'
  BY <1>0 DEF Ingest, TypeOK, ObjectIds
<1>2. (store \subseteq 1..nextId)'
  BY <1>0 DEF TypeOK
<1>3. NewestHolderStored'
  <2> SUFFICES ASSUME NEW v \in ingested' \ marked'
               PROVE  \E o \in store' : /\ v \in content'[o]
                                        /\ \A o2 \in 1..nextId' : o2 > o => v \notin content'[o2]
    BY DEF NewestHolderStored
  <2>1. CASE v = u
    <3>1. /\ nextId + 1 \in store'
          /\ v \in content'[nextId + 1]
          /\ \A o2 \in 1..nextId' : o2 > nextId + 1 => v \notin content'[o2]
      BY <1>0, <2>1 DEF TypeOK
    <3>2. QED
      BY <3>1
  <2>2. CASE v # u
    <3>1. v \in ingested \ marked
      BY <2>2 DEF Ingest
    <3>2. PICK o \in store : /\ v \in content[o]
                             /\ \A o2 \in 1..nextId : o2 > o => v \notin content[o2]
      BY <3>1 DEF NewestHolderStored
    <3>3. o \in 1..nextId
      OBVIOUS
    <3>4. /\ o \in store'
          /\ v \in content'[o]
          /\ \A o2 \in 1..nextId' : o2 > o => v \notin content'[o2]
      <4>1. content'[nextId + 1] = {u} /\ v \notin {u}
        BY <1>0, <2>2
      <4>2. QED
        BY <3>2, <3>3, <4>1, <1>0 DEF TypeOK
    <3>5. QED
      BY <3>4
  <2>3. QED
    BY <2>1, <2>2
<1>4. RunsCoverSnapshot'
  <2> SUFFICES ASSUME NEW w \in Workers, wst'[w].phase # "idle"
               PROVE  /\ wst'[w].snap \subseteq 1..nextId'
                      /\ wst'[w].todel \subseteq wst'[w].snap
                      /\ Referenced(wst[w].snap)' \subseteq wst'[w].merged \cup marked'
    BY DEF RunsCoverSnapshot
  <2>1. wst[w].snap \subseteq 1..nextId
    BY DEF Ingest, RunsCoverSnapshot
  <2>2. Referenced(wst[w].snap)' = Referenced(wst[w].snap)
    <3>1. \A o \in wst[w].snap : content'[o] = content[o]
      BY <2>1, <1>0
    <3>2. QED
      BY <3>1, ReferencedFrame DEF Ingest
  <2>3. QED
    BY <2>1, <2>2, <1>0, <1>9 DEF RunsCoverSnapshot, Ingest
<1>5. UploadCoversOriginals'
  <2> SUFFICES ASSUME NEW w \in Workers, wst'[w].phase = "deleting"
               PROVE  /\ wst'[w].upl \in 1..nextId'
                      /\ \A o \in wst'[w].snap : o < wst'[w].upl
                      /\ wst'[w].merged \subseteq content'[wst'[w].upl]
    BY DEF UploadCoversOriginals
  <2>1. /\ wst[w].upl \in 1..nextId
        /\ \A o \in wst[w].snap : o < wst[w].upl
        /\ wst[w].merged \subseteq content[wst[w].upl]
    BY DEF Ingest, UploadCoversOriginals
  <2>2. QED
    BY <2>1, <1>0, <1>9 DEF Ingest
<1>6. QED
  BY <1>1, <1>2, <1>3, <1>4, <1>5

(* Expiry, ripening of markers and sweeping leave the index untouched. *)
LEMMA EnvIInv ==
    ASSUME IInv, NEW u \in Units, Expire(u) \/ Ripen(u) \/ Sweep(u)
    PROVE  IInv'
<1>1. UNCHANGED <<store, content, nextId, ingested, marked, wst>>
  BY DEF Expire, Ripen, Sweep
<1>2. TypeOK'
  BY DEF IInv, TypeOK, Expire, Ripen, Sweep
<1>3. QED
  BY <1>1, <1>2 DEF IInv, NewestHolderStored, RunsCoverSnapshot,
                    UploadCoversOriginals, Referenced

-----------------------------------------------------------------------------
(* The steps of a pipeline run preserve IInv. *)
LEMMA BeginIInv ==
    ASSUME IInv, NEW w \in Workers, NEW r \in BOOLEAN, Begin(w, r)
    PROVE  IInv'
<1> DEFINE rec == [phase |-> IF r THEN "compacted" ELSE "toUpload",
                  snap |-> store, merged |-> Referenced(store),
                  retention |-> r, upl |-> 0, todel |-> store]
<1>1. wst' = [wst EXCEPT ![w] = rec]
  BY DEF Begin
<1>2. /\ rec.phase \in {"compacted", "toUpload"}
      /\ rec.snap = store /\ rec.todel = store
      /\ rec.merged = Referenced(store)
      /\ rec.upl = 0
  OBVIOUS
<1>3. Referenced(store) \subseteq Units
  BY DEF IInv, TypeOK, Referenced
<1>4. rec \in WorkerState
  BY <1>3, ObjectsAssumption DEF IInv, TypeOK, WorkerState, Phases
<1>5. UNCHANGED <<store, content, nextId, ingested, expired, marked, ripe, swept>>
  BY DEF Begin
<1>6. TypeOK'
  BY <1>1, <1>4, <1>5 DEF IInv, TypeOK
<1>7. \A x \in Workers : x # w => wst'[x] = wst[x]
  BY <1>1
<1>8. wst'[w] = rec
  BY <1>1 DEF IInv, TypeOK
<1>9. RunsCoverSnapshot'
  <2> SUFFICES ASSUME NEW x \in Workers, wst'[x].phase # "idle"
               PROVE  /\ wst'[x].snap \subseteq 1..nextId'
                      /\ wst'[x].todel \subseteq wst'[x].snap
                      /\ Referenced(wst[x].snap)' \subseteq wst'[x].merged \cup marked'
    BY DEF RunsCoverSnapshot
  <2>1. CASE x = w
    BY <1>2, <1>5, <1>8, <2>1 DEF IInv, Referenced
  <2>2. CASE x # w
    BY <1>5, <1>7, <2>2 DEF IInv, RunsCoverSnapshot, Referenced
  <2>3. QED
    BY <2>1, <2>2
<1>10. UploadCoversOriginals'
  BY <1>2, <1>5, <1>7, <1>8 DEF IInv, UploadCoversOriginals
<1>11. QED
  BY <1>5, <1>6, <1>9, <1>10 DEF IInv, NewestHolderStored

LEMMA MarkIInv ==
    ASSUME IInv, NEW w \in Workers, Mark(w)
    PROVE  IInv'
<1>1. UNCHANGED <<store, content, nextId, ingested>>
  BY DEF Mark
<1>2. marked \subseteq marked'
  BY DEF Mark
<1>3. \A x \in Workers : x # w => wst'[x] = wst[x]
  BY DEF Mark, IInv, TypeOK
<1>4. /\ wst'[w].phase = "toUpload"
      /\ wst'[w].snap = wst[w].snap
      /\ wst'[w].todel = wst[w].todel
      /\ wst'[w].merged \cup marked' = wst[w].merged \cup marked
      /\ wst[w].phase = "compacted"
  BY DEF Mark, IInv, TypeOK
<1>5. TypeOK'
  BY DEF Mark, IInv, TypeOK, WorkerState, Phases
<1>6. NewestHolderStored'
  BY <1>1, <1>2 DEF IInv, NewestHolderStored
<1>7. RunsCoverSnapshot'
  <2> SUFFICES ASSUME NEW x \in Workers, wst'[x].phase # "idle"
               PROVE  /\ wst'[x].snap \subseteq 1..nextId'
                      /\ wst'[x].todel \subseteq wst'[x].snap
                      /\ Referenced(wst[x].snap)' \subseteq wst'[x].merged \cup marked'
    BY DEF RunsCoverSnapshot
  <2>1. CASE x = w
    BY <1>1, <1>4, <2>1 DEF IInv, RunsCoverSnapshot, Referenced
  <2>2. CASE x # w
    BY <1>1, <1>2, <1>3, <2>2 DEF IInv, RunsCoverSnapshot, Referenced
  <2>3. QED
    BY <2>1, <2>2
<1>8. UploadCoversOriginals'
  BY <1>1, <1>3, <1>4 DEF IInv, UploadCoversOriginals
<1>9. QED
  BY <1>1, <1>5, <1>6, <1>7, <1>8 DEF IInv

(* Publishing the merged index of run w as a new object, all other state   *)
(* but w's own unchanged, keeps the newest holder of every chunk stored.  *)
LEMMA PublishMergedNewest ==
    ASSUME IInv, NEW w \in Workers, Publish(wst[w].merged),
           UNCHANGED <<ingested, marked>>
    PROVE  /\ NewestHolderStored'
           /\ (store \subseteq 1..nextId)'
           /\ \A o \in 1..nextId : content'[o] = content[o]
           /\ nextId' = nextId + 1
           /\ content'[nextId + 1] = wst[w].merged
           /\ content' \in [ObjectIds -> SUBSET Units]
           /\ nextId' \in 0..MaxObjects
           /\ store' \subseteq ObjectIds
<1>1. /\ nextId' = nextId + 1
      /\ nextId + 1 \in ObjectIds
      /\ nextId' \in 0..MaxObjects
      /\ store' = store \cup {nextId + 1}
      /\ content'[nextId + 1] = wst[w].merged
      /\ \A o \in 1..nextId : content'[o] = content[o]
      /\ content' \in [ObjectIds -> SUBSET Units]
  <2>1. wst[w].merged \subseteq Units
    BY DEF IInv, TypeOK, WorkerState
  <2>2. QED
    BY <2>1, PublishFacts DEF IInv
<1>2. nextId \in Nat
  BY DEF IInv, TypeOK
<1>3. NewestHolderStored'
  <2> SUFFICES ASSUME NEW v \in ingested \ marked
               PROVE  \E o \in store' : /\ v \in content'[o]
                                        /\ \A o2 \in 1..nextId' : o2 > o => v \notin content'[o2]
    BY DEF NewestHolderStored
  <2>1. CASE v \in wst[w].merged
    <3>1. /\ nextId + 1 \in store'
          /\ v \in content'[nextId + 1]
          /\ \A o2 \in 1..nextId' : o2 > nextId + 1 => v \notin content'[o2]
      BY <1>1, <1>2, <2>1
    <3>2. QED
      BY <3>1
  <2>2. CASE v \notin wst[w].merged
    <3>1. PICK o \in store : /\ v \in content[o]
                             /\ \A o2 \in 1..nextId : o2 > o => v \notin content[o2]
      BY DEF IInv, NewestHolderStored
    <3>2. o \in 1..nextId
      BY DEF IInv
    <3>3. /\ o \in store'
          /\ v \in content'[o]
          /\ \A o2 \in 1..nextId' : o2 > o => v \notin content'[o2]
      BY <3>1, <3>2, <2>2, <1>1, <1>2
    <3>4. QED
      BY <3>3
  <2>3. QED
    BY <2>1, <2>2
<1>4. QED
  BY <1>1, <1>2, <1>3 DEF IInv, TypeOK, ObjectIds

LEMMA UploadIInv ==
    ASSUME IInv, NEW w \in Workers, Upload(w)
    PROVE  IInv'
<1>1. /\ NewestHolderStored'
      /\ (store \subseteq 1..nextId)'
      /\ \A o \in 1..nextId : content'[o] = content[o]
      /\ nextId' = nextId + 1
      /\ content'[nextId + 1] = wst[w].merged
      /\ content' \in [ObjectIds -> SUBSET Units]
      /\ nextId' \in 0..MaxObjects
      /\ store' \subseteq ObjectIds
  BY PublishMergedNewest DEF Upload
<1>2. nextId \in Nat /\ nextId < MaxObjects
  BY DEF IInv, TypeOK, Upload, Publish
<1>3. \A x \in Workers : x # w => wst'[x] = wst[x]
  BY DEF Upload, IInv, TypeOK
<1>4. /\ wst'[w].phase = "deleting"
      /\ wst'[w].upl = nextId + 1
      /\ wst'[w].snap = wst[w].snap
      /\ wst'[w].todel = wst[w].todel
      /\ wst'[w].merged = wst[w].merged
      /\ wst[w].phase = "toUpload"
  BY DEF Upload, IInv, TypeOK
<1>5. TypeOK'
  <2>1. wst'[w] \in WorkerState
    BY <1>2, <1>4 DEF Upload, IInv, TypeOK, WorkerState, Phases
  <2>2. wst' \in [Workers -> WorkerState]
    BY <2>1, <1>3 DEF Upload, IInv, TypeOK
  <2>3. QED
    BY <2>2, <1>1 DEF Upload, IInv, TypeOK
<1>6. UNCHANGED marked
  BY DEF Upload
<1>7. RunsCoverSnapshot'
  <2> SUFFICES ASSUME NEW x \in Workers, wst'[x].phase # "idle"
               PROVE  /\ wst'[x].snap \subseteq 1..nextId'
                      /\ wst'[x].todel \subseteq wst'[x].snap
                      /\ Referenced(wst[x].snap)' \subseteq wst'[x].merged \cup marked'
    BY DEF RunsCoverSnapshot
  <2>1. wst'[x] = wst[x] \/ x = w
    BY <1>3
  <2>2. /\ wst'[x].snap = wst[x].snap
        /\ wst'[x].todel = wst[x].todel
        /\ wst'[x].merged = wst[x].merged
        /\ wst[x].phase # "idle"
    BY <2>1, <1>4
  <2>3. /\ wst[x].snap \subseteq 1..nextId
        /\ wst[x].todel \subseteq wst[x].snap
        /\ Referenced(wst[x].snap) \subseteq wst[x].merged \cup marked
    BY <2>2 DEF IInv, RunsCoverSnapshot
  <2>4. Referenced(wst[x].snap)' = Referenced(wst[x].snap)
    BY <2>2, <2>3, <1>1, ReferencedFrame
  <2>5. QED
    BY <1>1, <1>2, <1>6, <2>2, <2>3, <2>4
<1>8. UploadCoversOriginals'
  <2> SUFFICES ASSUME NEW x \in Workers, wst'[x].phase = "deleting"
               PROVE  /\ wst'[x].upl \in 1..nextId'
                      /\ \A o \in wst'[x].snap : o < wst'[x].upl
                      /\ wst'[x].merged \subseteq content'[wst'[x].upl]
    BY DEF UploadCoversOriginals
  <2>1. CASE x = w
    <3>1. wst[w].snap \subseteq 1..nextId
      BY <1>4 DEF IInv, RunsCoverSnapshot
    <3>2. QED
      BY <2>1, <3>1, <1>1, <1>2, <1>4
  <2>2. CASE x # w
    <3>1. /\ wst[x].upl \in 1..nextId
          /\ \A o \in wst[x].snap : o < wst[x].upl
          /\ wst[x].merged \subseteq content[wst[x].upl]
      BY <2>2, <1>3 DEF IInv, UploadCoversOriginals
    <3>2. QED
      BY <2>2, <3>1, <1>1, <1>2, <1>3
  <2>3. QED
    BY <2>1, <2>2
<1>9. QED
  BY <1>1, <1>5, <1>7, <1>8 DEF IInv

LEMMA UploadFailIInv ==
    ASSUME IInv, NEW w \in Workers, UploadFail(w)
    PROVE  IInv'
<1>1. CASE UNCHANGED <<store, content, nextId>>
  BY <1>1, IdleIInv DEF UploadFail
<1>2. CASE Publish(wst[w].merged)
  <2>1. /\ NewestHolderStored'
        /\ (store \subseteq 1..nextId)'
        /\ \A o \in 1..nextId : content'[o] = content[o]
        /\ nextId' = nextId + 1
        /\ content' \in [ObjectIds -> SUBSET Units]
        /\ nextId' \in 0..MaxObjects
        /\ store' \subseteq ObjectIds
    BY <1>2, PublishMergedNewest DEF UploadFail
  <2>2. nextId \in Nat
    BY DEF IInv, TypeOK
  <2>3. /\ \A x \in Workers : x # w => wst'[x] = wst[x]
        /\ wst'[w] = IdleWorker
    BY DEF UploadFail, IInv, TypeOK
  <2>4. IdleWorker \in WorkerState
    BY ObjectsAssumption DEF IdleWorker, WorkerState, Phases
  <2>5. TypeOK'
    BY <2>1, <2>3, <2>4 DEF UploadFail, IInv, TypeOK
  <2>6. RunsCoverSnapshot'
    <3> SUFFICES ASSUME NEW x \in Workers, wst'[x].phase # "idle"
                 PROVE  /\ wst'[x].snap \subseteq 1..nextId'
                        /\ wst'[x].todel \subseteq wst'[x].snap
                        /\ Referenced(wst[x].snap)' \subseteq wst'[x].merged \cup marked'
      BY DEF RunsCoverSnapshot
    <3>1. x # w /\ wst'[x] = wst[x]
      BY <2>3 DEF IdleWorker
    <3>2. /\ wst[x].snap \subseteq 1..nextId
          /\ wst[x].todel \subseteq wst[x].snap
          /\ Referenced(wst[x].snap) \subseteq wst[x].merged \cup marked
      BY <3>1 DEF IInv, RunsCoverSnapshot
    <3>3. Referenced(wst[x].snap)' = Referenced(wst[x].snap)
      BY <3>1, <3>2, <2>1, ReferencedFrame
    <3>4. QED
      BY <2>1, <2>2, <3>1, <3>2, <3>3 DEF UploadFail
  <2>7. UploadCoversOriginals'
    <3> SUFFICES ASSUME NEW x \in Workers, wst'[x].phase = "deleting"
                 PROVE  /\ wst'[x].upl \in 1..nextId'
                        /\ \A o \in wst'[x].snap : o < wst'[x].upl
                        /\ wst'[x].merged \subseteq content'[wst'[x].upl]
      BY DEF UploadCoversOriginals
    <3>1. x # w /\ wst'[x] = wst[x]
      BY <2>3 DEF IdleWorker
    <3>2. /\ wst[x].upl \in 1..nextId
          /\ \A o \in wst[x].snap : o < wst[x].upl
          /\ wst[x].merged \subseteq content[wst[x].upl]
      BY <3>1 DEF IInv, UploadCoversOriginals
    <3>3. QED
      BY <2>1, <2>2, <3>1, <3>2
  <2>8. QED
    BY <2>1, <2>5, <2>6, <2>7 DEF IInv
<1>3. QED
  BY <1>1, <1>2 DEF UploadFail

(* The key step: deleting an original never removes the newest holder of   *)
(* an unmarked chunk, because the deleting run's upload is newer and       *)
(* holds every unmarked chunk of its originals.                            *)
LEMMA DeleteOneIInv ==
    ASSUME IInv, NEW w \in Workers, NEW o \in ObjectIds, DeleteOne(w, o)
    PROVE  IInv'
<1>1. UNCHANGED <<content, nextId, ingested, marked>>
  BY DEF DeleteOne
<1>2. /\ store' = store \ {o}
      /\ wst[w].phase = "deleting"
      /\ o \in wst[w].todel
  BY DEF DeleteOne
<1>3. /\ \A x \in Workers : x # w => wst'[x] = wst[x]
      /\ wst'[w] = [wst[w] EXCEPT !.todel = @ \ {o}]
  BY DEF DeleteOne, IInv, TypeOK
<1>10. /\ wst'[w].snap = wst[w].snap
       /\ wst'[w].todel = wst[w].todel \ {o}
       /\ wst'[w].merged = wst[w].merged
       /\ wst'[w].upl = wst[w].upl
       /\ wst'[w].phase = wst[w].phase
  BY <1>3 DEF IInv, TypeOK, WorkerState
<1>4. /\ wst[w].upl \in 1..nextId
      /\ \A o2 \in wst[w].snap : o2 < wst[w].upl
      /\ wst[w].merged \subseteq content[wst[w].upl]
      /\ wst[w].snap \subseteq 1..nextId
      /\ wst[w].todel \subseteq wst[w].snap
      /\ Referenced(wst[w].snap) \subseteq wst[w].merged \cup marked
  BY <1>2 DEF IInv, UploadCoversOriginals, RunsCoverSnapshot
<1>5. TypeOK'
  BY <1>1, <1>2, <1>3 DEF DeleteOne, IInv, TypeOK, WorkerState
<1>6. NewestHolderStored'
  <2> SUFFICES ASSUME NEW v \in ingested \ marked
               PROVE  \E h \in store' : /\ v \in content[h]
                                        /\ \A o2 \in 1..nextId : o2 > h => v \notin content[o2]
    BY <1>1 DEF NewestHolderStored
  <2>1. PICK h \in store : /\ v \in content[h]
                           /\ \A o2 \in 1..nextId : o2 > h => v \notin content[o2]
    BY DEF IInv, NewestHolderStored
  <2>2. h # o
    <3> SUFFICES ASSUME h = o PROVE FALSE
      OBVIOUS
    <3>1. v \in Referenced(wst[w].snap)
      BY <1>2, <1>4, <2>1 DEF Referenced
    <3>2. v \in content[wst[w].upl]
      BY <1>4, <3>1
    <3>3. wst[w].upl > h
      BY <1>2, <1>4
    <3>4. QED
      BY <2>1, <1>4, <3>2, <3>3
  <2>3. h \in store'
    BY <1>2, <2>1, <2>2
  <2>4. QED
    BY <2>1, <2>3
<1>7. RunsCoverSnapshot'
  <2> SUFFICES ASSUME NEW x \in Workers, wst'[x].phase # "idle"
               PROVE  /\ wst'[x].snap \subseteq 1..nextId'
                      /\ wst'[x].todel \subseteq wst'[x].snap
                      /\ Referenced(wst[x].snap)' \subseteq wst'[x].merged \cup marked'
    BY DEF RunsCoverSnapshot
  <2>1. CASE x = w
    BY <1>1, <1>10, <1>4, <2>1 DEF Referenced
  <2>2. CASE x # w
    BY <1>1, <1>3, <2>2 DEF IInv, RunsCoverSnapshot, Referenced
  <2>3. QED
    BY <2>1, <2>2
<1>8. UploadCoversOriginals'
  <2> SUFFICES ASSUME NEW x \in Workers, wst'[x].phase = "deleting"
               PROVE  /\ wst'[x].upl \in 1..nextId'
                      /\ \A o2 \in wst'[x].snap : o2 < wst'[x].upl
                      /\ wst'[x].merged \subseteq content'[wst'[x].upl]
    BY DEF UploadCoversOriginals
  <2>1. CASE x = w
    BY <1>1, <1>10, <1>4, <2>1
  <2>2. CASE x # w
    BY <1>1, <1>3, <2>2 DEF IInv, UploadCoversOriginals
  <2>3. QED
    BY <2>1, <2>2
<1>9. QED
  BY <1>1, <1>2, <1>5, <1>6, <1>7, <1>8 DEF IInv, TypeOK

-----------------------------------------------------------------------------
(* IInv is inductive. *)
LEMMA NextIInv == IInv /\ [Next]_vars => IInv'
<1> SUFFICES ASSUME IInv, [Next]_vars PROVE IInv'
  OBVIOUS
<1>1. CASE \E u \in Units : Ingest(u)
  BY <1>1, IngestIInv
<1>2. CASE \E u \in Units : Expire(u) \/ Ripen(u) \/ Sweep(u)
  BY <1>2, EnvIInv
<1>3. CASE \E w \in Workers : \E r \in BOOLEAN : Begin(w, r)
  BY <1>3, BeginIInv
<1>4. CASE \E w \in Workers : Mark(w)
  BY <1>4, MarkIInv
<1>5. CASE \E w \in Workers : Upload(w)
  BY <1>5, UploadIInv
<1>6. CASE \E w \in Workers : UploadFail(w)
  BY <1>6, UploadFailIInv
<1>7. CASE \E w \in Workers : \E o \in ObjectIds : DeleteOne(w, o)
  BY <1>7, DeleteOneIInv
<1>8. CASE \E w \in Workers : MarkTimeout(w) \/ DeleteFail(w) \/ Finish(w) \/ Abort(w)
  BY <1>8, IdleIInv DEF MarkTimeout, DeleteFail, Finish, Abort
<1>9. CASE UNCHANGED vars
  BY <1>9 DEF vars, IInv, TypeOK, NewestHolderStored, RunsCoverSnapshot,
              UploadCoversOriginals, Referenced
<1>10. QED
  BY <1>1, <1>2, <1>3, <1>4, <1>5, <1>6, <1>7, <1>8, <1>9 DEF Next

(* Type correctness: every reachable state satisfies TypeOK. *)
THEOREM TypeCorrect == Spec => []TypeOK
<1>1. IInv => TypeOK
  BY DEF IInv
<1>2. QED
  BY <1>1, InitIInv, NextIInv, PTL DEF Spec

(* No data loss: in every reachable state, every ingested chunk that is   *)
(* not marked for deletion is referenced by an index object in storage,   *)
(* for any number of overlapping runs, chunks and objects.                *)
THEOREM NoDataLossTheorem == Spec => []NoDataLoss
<1>1. IInv => NoDataLoss
  BY DEF IInv, NoDataLoss, NewestHolderStored
<1>2. QED
  BY <1>1, InitIInv, NextIInv, PTL DEF Spec

(* Every step that removes index objects from storage removes only objects *)
(* whose unmarked chunks a newer object already holds.                    *)
LEMMA StepPublishBeforeDelete ==
    IInv /\ [Next]_vars =>
        [\A o \in store \ store' :
            \E n \in 1..nextId' : n > o /\ content[o] \ marked' \subseteq content'[n]]_vars
<1> SUFFICES ASSUME IInv, [Next]_vars
             PROVE  \A o \in store \ store' :
                       \E n \in 1..nextId' : n > o /\ content[o] \ marked' \subseteq content'[n]
  OBVIOUS
<1>1. CASE \E w \in Workers : \E o \in ObjectIds : DeleteOne(w, o)
  <2>1. PICK w \in Workers, o0 \in ObjectIds : DeleteOne(w, o0)
    BY <1>1
  <2>2. /\ store \ store' \subseteq {o0}
        /\ UNCHANGED <<content, nextId, marked>>
        /\ wst[w].phase = "deleting"
        /\ o0 \in wst[w].todel
    BY <2>1 DEF DeleteOne
  <2>3. /\ wst[w].upl \in 1..nextId
        /\ \A o2 \in wst[w].snap : o2 < wst[w].upl
        /\ wst[w].merged \subseteq content[wst[w].upl]
        /\ wst[w].todel \subseteq wst[w].snap
        /\ Referenced(wst[w].snap) \subseteq wst[w].merged \cup marked
    BY <2>2 DEF IInv, UploadCoversOriginals, RunsCoverSnapshot
  <2>4. content[o0] \ marked \subseteq content[wst[w].upl]
    BY <2>2, <2>3 DEF Referenced
  <2>5. QED
    BY <2>2, <2>3, <2>4
<1>2. CASE ~\E w \in Workers : \E o \in ObjectIds : DeleteOne(w, o)
  <2>1. store \subseteq store'
    BY <1>2 DEF Next, vars, Ingest, Expire, Ripen, Sweep, Begin, Mark, MarkTimeout,
                Upload, UploadFail, DeleteFail, Finish, Abort, Publish
  <2>2. QED
    BY <2>1
<1>3. QED
  BY <1>1, <1>2

(* The action property PublishBeforeDelete holds of every behaviour. *)
THEOREM PublishBeforeDeleteTheorem == Spec => PublishBeforeDelete
<1>1. IInv /\ [][Next]_vars => []IInv
  BY NextIInv, PTL
<1>2. QED
  BY <1>1, InitIInv, StepPublishBeforeDelete, PTL DEF Spec, PublishBeforeDelete
=============================================================================
