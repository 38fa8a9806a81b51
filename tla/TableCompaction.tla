--------------------------- MODULE TableCompaction ---------------------------
(***************************************************************************)
(* The per-table compaction pipeline of the compactor, with retention      *)
(* marking and the sweeper, for one table in object storage.               *)
(*                                                                         *)
(* The pipeline code (tables manager, table compactor, marker, sweeper) is *)
(* not part of the sources at hand; it is modelled from spec.md sections   *)
(* 4.2, 4.4, 4.5 and 7 and the outline in compactor.go lines 39-46:        *)
(*   list + download -> merge -> mark expired chunks (retention cycles)    *)
(*   -> upload the compacted index -> delete the original files.           *)
(*                                                                         *)
(* Several runs on the same table may overlap: during a leadership         *)
(* handover two replicas may both run the tables manager (spec 4.1), and a *)
(* run that was cancelled or crashed leaves its partial work behind.  The  *)
(* model therefore lets every member of Workers run the pipeline at any    *)
(* time, independently of leader election: the design claims that the     *)
(* pipeline is safe under any such overlap.                                *)
(*                                                                         *)
(* Data is abstracted to Units: a unit is one chunk, referenced by index   *)
(* entries.  An index object is a number in 1..MaxObjects; content[o] is   *)
(* the set of chunks its entries reference.  Objects are immutable and     *)
(* every upload writes a new object (spec 4.2 step 6).                     *)
(***************************************************************************)
EXTENDS Naturals, FiniteSets

CONSTANTS
    Workers,     \* concurrent runs of the pipeline on this table
    Units,       \* chunks written by ingesters
    MaxObjects   \* bound on the number of index objects ever created

ASSUME ObjectsAssumption == MaxObjects \in Nat

VARIABLES
    store,     \* ids of the index objects currently in object storage
    content,   \* content[o]: the chunks referenced by index object o
    nextId,    \* number of index objects created so far (ids 1..nextId)
    ingested,  \* chunks whose index entries ingesters have written
    expired,   \* chunks past their retention at the current time
    marked,    \* chunks listed in a committed marker file
    ripe,      \* marked chunks whose marker file is older than the delete delay
    swept,     \* chunks the sweeper has deleted from object storage
    wst        \* wst[w]: the state of run w of the table pipeline

vars == <<store, content, nextId, ingested, expired, marked, ripe, swept, wst>>

ObjectIds == 1..MaxObjects

Phases == {"idle", "compacted", "toUpload", "deleting"}

(* The state a run keeps: its phase, the index objects it listed and       *)
(* downloaded, the chunks of its merged index, whether this is a          *)
(* retention cycle, the object it uploaded and the originals left to      *)
(* delete.                                                                 *)
WorkerState ==
    [phase: Phases, snap: SUBSET ObjectIds, merged: SUBSET Units,
     retention: BOOLEAN, upl: 0..MaxObjects, todel: SUBSET ObjectIds]

IdleWorker ==
    [phase |-> "idle", snap |-> {}, merged |-> {}, retention |-> FALSE,
     upl |-> 0, todel |-> {}]

(* The chunks referenced by the index objects of a set. *)
Referenced(S) == UNION {content[o] : o \in S}

TypeOK ==
    /\ store \subseteq ObjectIds
    /\ content \in [ObjectIds -> SUBSET Units]
    /\ nextId \in 0..MaxObjects
    /\ ingested \subseteq Units
    /\ expired \subseteq Units
    /\ marked \subseteq Units
    /\ ripe \subseteq Units
    /\ swept \subseteq Units
    /\ wst \in [Workers -> WorkerState]

Init ==
    /\ store = {}
    /\ content = [o \in ObjectIds |-> {}]
    /\ nextId = 0
    /\ ingested = {}
    /\ expired = {}
    /\ marked = {}
    /\ ripe = {}
    /\ swept = {}
    /\ wst = [w \in Workers |-> IdleWorker]

(* Writing a new object with the given chunks into object storage. *)
Publish(c) ==
    /\ nextId < MaxObjects
    /\ nextId' = nextId + 1
    /\ content' = [content EXCEPT ![nextId + 1] = c]
    /\ store' = store \cup {nextId + 1}

-----------------------------------------------------------------------------
(***************************************************************************)
(* Environment: ingesters, the passing of time and the sweeper.            *)
(***************************************************************************)

(* An ingester uploads a new index fragment for chunk u into the table. *)
Ingest(u) ==
    /\ u \notin ingested
    /\ Publish({u})
    /\ ingested' = ingested \cup {u}
    /\ UNCHANGED <<expired, marked, ripe, swept, wst>>

(* Time passes beyond the retention period of chunk u. *)
Expire(u) ==
    /\ u \in ingested \ expired
    /\ expired' = expired \cup {u}
    /\ UNCHANGED <<store, content, nextId, ingested, marked, ripe, swept, wst>>

(* The marker file holding u becomes older than RetentionDeleteDelay. *)
Ripen(u) ==
    /\ u \in marked \ ripe
    /\ ripe' = ripe \cup {u}
    /\ UNCHANGED <<store, content, nextId, ingested, expired, marked, swept, wst>>

(* A sweeper worker deletes the chunk object of an eligible marker entry   *)
(* (spec 4.5; NotFound counts as success, so a repeat is harmless).        *)
Sweep(u) ==
    /\ u \in ripe \ swept
    /\ swept' = swept \cup {u}
    /\ UNCHANGED <<store, content, nextId, ingested, expired, marked, ripe, wst>>

-----------------------------------------------------------------------------
(***************************************************************************)
(* One run of the table pipeline (spec 4.2, steps 3-8).                    *)
(***************************************************************************)

(* Steps 3-4: list the table's index objects, download them and merge them *)
(* with the index plug-in.  On a retention cycle the run then applies      *)
(* retention; otherwise it goes straight to the upload.                    *)
Begin(w, applyRetention) ==
    /\ wst[w].phase = "idle"
    /\ store # {}
    /\ wst' = [wst EXCEPT ![w] =
                 [phase |-> IF applyRetention THEN "compacted" ELSE "toUpload",
                  snap |-> store, merged |-> Referenced(store),
                  retention |-> applyRetention, upl |-> 0, todel |-> store]]
    /\ UNCHANGED <<store, content, nextId, ingested, expired, marked, ripe, swept>>

(* Mutant: the expired chunks are dropped from the index but the marker   *)
(* file is never written.                                                  *)
MarkWithoutMarkers(w) ==
    /\ wst[w].phase = "compacted"
    /\ wst' = [wst EXCEPT ![w].merged = @ \ expired, ![w].phase = "toUpload"]
    /\ UNCHANGED <<store, content, nextId, ingested, expired, marked, ripe, swept>>

(* Step 5: the expiration checker runs over the merged index; every expired *)
(* chunk is written to the marker file, which is committed, and removed    *)
(* from the index.  Marker write happens-before the upload (spec 5).       *)
Mark(w) ==
    /\ wst[w].phase = "compacted"
    /\ marked' = marked \cup (wst[w].merged \cap expired)
    /\ wst' = [wst EXCEPT ![w].merged = @ \ expired, ![w].phase = "toUpload"]
    /\ UNCHANGED <<store, content, nextId, ingested, expired, ripe, swept>>

(* RetentionTableTimeout fires while marking: the markers of this table are *)
(* discarded and the run is abandoned.                                     *)
MarkTimeout(w) ==
    /\ wst[w].phase = "compacted"
    /\ wst' = [wst EXCEPT ![w] = IdleWorker]
    /\ UNCHANGED <<store, content, nextId, ingested, expired, marked, ripe, swept>>

(* Step 6: the compacted index is uploaded as a new object. *)
Upload(w) ==
    /\ wst[w].phase = "toUpload"
    /\ Publish(wst[w].merged)
    /\ wst' = [wst EXCEPT ![w].upl = nextId + 1, ![w].phase = "deleting"]
    /\ UNCHANGED <<ingested, expired, marked, ripe, swept>>

(* The upload fails; the originals are kept.  When the object was written  *)
(* but the answer was lost, the stale compacted object stays in place and  *)
(* is absorbed by the next merge (spec 7).                                 *)
UploadFail(w) ==
    /\ wst[w].phase = "toUpload"
    /\ \/ UNCHANGED <<store, content, nextId>>
       \/ Publish(wst[w].merged)
    /\ wst' = [wst EXCEPT ![w] = IdleWorker]
    /\ UNCHANGED <<ingested, expired, marked, ripe, swept>>

(* Mutant: originals may be deleted while the upload is still pending. *)
DeleteOneBeforeUpload(w, o) ==
    /\ wst[w].phase \in {"toUpload", "deleting"}
    /\ o \in wst[w].todel
    /\ store' = store \ {o}
    /\ wst' = [wst EXCEPT ![w].todel = @ \ {o}]
    /\ UNCHANGED <<content, nextId, ingested, expired, marked, ripe, swept>>

(* Step 7: only after the upload succeeded, one original is deleted        *)
(* (NotFound is success, so it may already be gone).                      *)
DeleteOne(w, o) ==
    /\ wst[w].phase = "deleting"
    /\ o \in wst[w].todel
    /\ store' = store \ {o}
    /\ wst' = [wst EXCEPT ![w].todel = @ \ {o}]
    /\ UNCHANGED <<content, nextId, ingested, expired, marked, ripe, swept>>

(* A delete of an original fails: the run errors out, the rest stay. *)
DeleteFail(w) ==
    /\ wst[w].phase = "deleting"
    /\ wst[w].todel # {}
    /\ wst' = [wst EXCEPT ![w] = IdleWorker]
    /\ UNCHANGED <<store, content, nextId, ingested, expired, marked, ripe, swept>>

(* Step 8: all originals are deleted; the working directory is removed. *)
Finish(w) ==
    /\ wst[w].phase = "deleting"
    /\ wst[w].todel = {}
    /\ wst' = [wst EXCEPT ![w] = IdleWorker]
    /\ UNCHANGED <<store, content, nextId, ingested, expired, marked, ripe, swept>>

(* The run is cancelled (leadership lost) or its process crashes: partial *)
(* per-table state is abandoned, nothing is rolled back.                  *)
Abort(w) ==
    /\ wst[w].phase # "idle"
    /\ wst' = [wst EXCEPT ![w] = IdleWorker]
    /\ UNCHANGED <<store, content, nextId, ingested, expired, marked, ripe, swept>>

Next ==
    \/ \E u \in Units : Ingest(u) \/ Expire(u) \/ Ripen(u) \/ Sweep(u)
    \/ \E w \in Workers :
          \/ \E r \in BOOLEAN : Begin(w, r)
          \/ Mark(w) \/ MarkTimeout(w)
          \/ Upload(w) \/ UploadFail(w)
          \/ \E o \in ObjectIds : DeleteOne(w, o)
          \/ DeleteFail(w) \/ Finish(w) \/ Abort(w)

Spec == Init /\ [][Next]_vars

-----------------------------------------------------------------------------
(***************************************************************************)
(* Properties.                                                             *)
(***************************************************************************)

(* No data loss (spec 8, invariant 1, publish-before-delete): every chunk  *)
(* an ingester wrote and that retention has not marked for deletion is     *)
(* still referenced by an index object in storage, whatever runs overlap, *)
(* crash, time out or fail between upload and delete.                      *)
NoDataLoss ==
    \A u \in ingested \ marked : \E o \in store : u \in content[o]

(* Publish before delete, as a property of each step: an index object is   *)
(* removed from storage only when a newer object already holds every one   *)
(* of its chunks that is not marked for deletion.                          *)
PublishBeforeDelete ==
    [][\A o \in store \ store' :
          \E n \in 1..nextId' : n > o /\ content[o] \ marked' \subseteq content'[n]
      ]_vars
=============================================================================
