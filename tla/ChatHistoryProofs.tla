------------------------- MODULE ChatHistoryProofs -------------------------
(***************************************************************************)
(* What holds of ChatHistory for every set of entries, requests and        *)
(* limits, whichever writes fail and wherever the process stops: the       *)
(* types, and the three properties of the store.                           *)
(***************************************************************************)
EXTENDS ChatHistory, TLAPS

MemType == [details : Files, dirty : SUBSET Ids, deleted : SUBSET Ids, limit : Limits]

SaveType == [on : BOOLEAN, removing : SUBSET Ids, writing : SUBSET Ids, erasing : SUBSET Ids]

(***************************************************************************)
(* A memory that a save can start from, given the detail files: what is    *)
(* dirty exists, what is deleted does not, and what is not dirty has its   *)
(* file.                                                                   *)
(***************************************************************************)
Savable(m, files) ==
  /\ m \in MemType
  /\ m.dirty \subseteq Present(m.details)
  /\ m.deleted \cap Present(m.details) = {}
  /\ Present(m.details) \subseteq m.dirty \cup Present(files)

(***************************************************************************)
(* A save in progress works on the memory it began with: it removes only   *)
(* what the memory has deleted, and a present entry has its file or will   *)
(* get it.                                                                 *)
(***************************************************************************)
SaveFollowsMemory ==
  /\ Savable(mem, disk.detail)
  /\ ~save.on => save = NoSave
  /\ save.removing \subseteq mem.deleted
  /\ save.writing \subseteq mem.dirty
  /\ save.on => /\ mem.dirty \subseteq save.writing \cup Present(disk.detail)
                /\ kept \subseteq Present(mem.details)
                /\ save.erasing \cap Present(mem.details) = {}

(* Identifiers are given out once, also those that are gone *)
OnlyUsed ==
  Present(mem.details) \cup disk.index \cup erased \cup save.erasing \subseteq used

(***************************************************************************)
(* The entries of a request: while it runs its entry is the only one, none *)
(* while it looks for a new one, and the index on disk has one at most.    *)
(***************************************************************************)
EntriesHaveOwners ==
  /\ \A i \in Present(mem.details) \cup disk.index :
       owner[i] \in Sessions /\ session[owner[i]].pc # "new"
  /\ \A i \in Present(mem.details) :
       /\ session[owner[i]].pc # "missing"
       /\ session[owner[i]].pc \in {"live", "retry"} => i = session[owner[i]].id
  /\ \A i, j \in Present(mem.details) : owner[i] = owner[j] => i = j
  /\ \A i, j \in disk.index : owner[i] = owner[j] => i = j

(* A request that runs has an identifier; none runs unless the store is up *)
RunningHasId ==
  \A s \in Sessions :
    /\ session[s].pc \in {"live", "retry"} => session[s].id \in Ids
    /\ process # "up" => session[s].pc \in {"new", "ended"}

(* The tokens of a request are not counted before its end *)
CountedAtEnd ==
  \A s \in Sessions : usage[s] <= 1 /\ (session[s].pc # "ended" => usage[s] = 0)

HistoryInv ==
  /\ TypeOK /\ SaveFollowsMemory /\ OnlyUsed
  /\ EntriesSurvive /\ ErasedForGood
  /\ EntriesHaveOwners /\ RunningHasId /\ CountedAtEnd

----------------------------------------------------------------------------
(* The operations on the memory *)

(* Dropping entries removes them, and leaves the others as they are. *)
LEMMA DroppedProperties ==
  ASSUME NEW m \in MemType, NEW E \in SUBSET Ids
  PROVE  /\ Dropped(m, E) \in MemType
         /\ Dropped(m, E).limit = m.limit
         /\ Present(Dropped(m, E).details) = Present(m.details) \ E
         /\ Dropped(m, E).dirty = m.dirty \ E
         /\ Dropped(m, E).deleted = m.deleted \cup E
<1> DEFINE d == [i \in Ids |-> IF i \in E THEN Absent ELSE m.details[i]]
<1>1. d \in Files
  BY DEF MemType, Files
<1>2. m.dirty \ E \in SUBSET Ids /\ m.deleted \cup E \in SUBSET Ids
  BY DEF MemType
<1>3. Dropped(m, E) = [m EXCEPT !.details = d, !.dirty = m.dirty \ E,
                                !.deleted = m.deleted \cup E]
  BY DEF Dropped
<1>4. Present(d) = Present(m.details) \ E
  BY DEF Present
<1> DEFINE dirty == m.dirty \ E
           deleted == m.deleted \cup E
<1>5. [m EXCEPT !.details = d, !.dirty = dirty, !.deleted = deleted] \in MemType
  BY <1>1, <1>2 DEF MemType
<1> HIDE DEF d, dirty, deleted
<1>6. Dropped(m, E) = [m EXCEPT !.details = d, !.dirty = dirty, !.deleted = deleted]
  BY <1>3 DEF dirty, deleted
<1>7. Dropped(m, E).limit = m.limit /\ Dropped(m, E).details = d
      /\ Dropped(m, E).dirty = dirty /\ Dropped(m, E).deleted = deleted
  BY <1>6 DEF MemType
<1>8. QED BY <1>4, <1>5, <1>6, <1>7 DEF dirty, deleted

(* A memory that can be saved still can when entries are dropped. *)
LEMMA DroppedSavable ==
  ASSUME NEW m, NEW files, Savable(m, files), NEW E \in SUBSET Present(m.details)
  PROVE  Savable(Dropped(m, E), files)
<1>1. m \in MemType /\ E \in SUBSET Ids
  BY DEF Savable, Present
<1>2. QED BY <1>1, DroppedProperties DEF Savable

(* Trimming only drops entries. *)
LEMMA TrimmedProperties ==
  ASSUME NEW m, NEW files, Savable(m, files), NEW t \in Trimmed(m)
  PROVE  /\ Savable(t, files)
         /\ Present(t.details) \subseteq Present(m.details)
<1>1. PICK E \in SUBSET Present(m.details) : t = Dropped(m, E)
  BY DEF Trimmed
<1>2. m \in MemType /\ E \in SUBSET Ids
  BY <1>1 DEF Savable, Present
<1>3. QED BY <1>1, <1>2, DroppedSavable, DroppedProperties

(* An entry that is put is present and dirty, the others are as before. *)
LEMMA PutProperties ==
  ASSUME NEW m, NEW files, Savable(m, files), NEW i \in Ids, NEW status \in Status
  PROVE  /\ Savable(Put(m, i, status), files)
         /\ Present(Put(m, i, status).details) = Present(m.details) \cup {i}
<1> DEFINE d == [m.details EXCEPT ![i] = status]
<1>1. m \in MemType
  BY DEF Savable
<1>2. d \in Files
  BY <1>1 DEF MemType, Files
<1>3. m.dirty \cup {i} \in SUBSET Ids /\ m.deleted \ {i} \in SUBSET Ids
  BY <1>1 DEF MemType
<1>4. Put(m, i, status) = [m EXCEPT !.details = d, !.dirty = m.dirty \cup {i},
                                    !.deleted = m.deleted \ {i}]
  BY DEF Put
<1>5. status # Absent
  BY DEF Status, Finals, Absent
<1>6. Present(d) = Present(m.details) \cup {i}
  BY <1>1, <1>5 DEF Present, MemType, Files
<1> DEFINE dirty == m.dirty \cup {i}
           deleted == m.deleted \ {i}
<1>7. [m EXCEPT !.details = d, !.dirty = dirty, !.deleted = deleted] \in MemType
  BY <1>1, <1>2, <1>3 DEF MemType
<1> HIDE DEF d, dirty, deleted
<1>8. Put(m, i, status) = [m EXCEPT !.details = d, !.dirty = dirty, !.deleted = deleted]
  BY <1>4 DEF dirty, deleted
<1>9. /\ Put(m, i, status).details = d
      /\ Put(m, i, status).dirty = dirty /\ Put(m, i, status).deleted = deleted
  BY <1>1, <1>8 DEF MemType
<1>10. QED BY <1>6, <1>7, <1>8, <1>9 DEF dirty, deleted, Savable

(***************************************************************************)
(* Where a save begins, it follows the memory it was given: what it keeps  *)
(* is what was kept before and is still present.                           *)
(***************************************************************************)
LEMMA SavingProperties ==
  ASSUME NEW m, Savable(m, disk.detail), disk' = disk,
         NEW erasing \in SUBSET Ids, erasing \cap Present(m.details) = {},
         Saving(m, erasing)
  PROVE  /\ SaveFollowsMemory'
         /\ save' \in SaveType
         /\ save'.on
         /\ save'.erasing = erasing
         /\ Present(mem'.details) \subseteq Present(m.details)
         /\ kept' \subseteq kept
<1>1. PICK t \in Trimmed(m) :
        /\ mem' = t
        /\ save' = [on |-> TRUE, removing |-> t.deleted, writing |-> t.dirty,
                    erasing |-> erasing]
        /\ kept' = kept \cap Present(t.details)
  BY DEF Saving
<1>2. Savable(t, disk.detail) /\ Present(t.details) \subseteq Present(m.details)
  BY TrimmedProperties
<1>3. t.deleted \subseteq Ids /\ t.dirty \subseteq Ids
  BY <1>2 DEF Savable, MemType
<1>4. QED BY <1>1, <1>2, <1>3 DEF SaveFollowsMemory, SaveType

----------------------------------------------------------------------------
(* The initial state and the steps of a save *)

(* A new store has nothing, neither in memory nor on disk. *)
LEMMA InitInv == Init => HistoryInv
<1> SUFFICES ASSUME Init PROVE HistoryInv
  OBVIOUS
<1>1. Present([i \in Ids |-> Absent]) = {} /\ [i \in Ids |-> Absent] \in Files
  BY DEF Present, Files
<1>2. Empty \in MemType /\ Present(Empty.details) = {} /\ Savable(Empty, disk.detail)
  BY <1>1, LimitsAssumption DEF Empty, MemType, Savable
<1>3. TypeOK
  BY <1>1, <1>2, LimitsAssumption DEF Init, TypeOK, Savable, MemType, NoSave, Status
<1>4. QED
  BY <1>1, <1>2, <1>3 DEF Init, HistoryInv, SaveFollowsMemory, OnlyUsed, EntriesSurvive,
     ErasedForGood, EntriesHaveOwners, RunningHasId, CountedAtEnd, NoSave

(* A save removes the file of an entry that the memory no longer has. *)
LEMMA RemoveDetailInv ==
  ASSUME HistoryInv, RemoveDetail
  PROVE  HistoryInv'
<1> USE DEF HistoryInv
<1>1. PICK i \in save.removing :
        /\ disk' = [disk EXCEPT !.detail[i] = Absent]
        /\ save' = [save EXCEPT !.removing = @ \ {i}]
        /\ UNCHANGED <<mem, process, session, used, owner, kept, erased, usage>>
  BY DEF RemoveDetail
<1>2. /\ disk \in [index : SUBSET Ids, limit : Limits, detail : Files]
      /\ save \in SaveType /\ i \in Ids /\ save.on
  BY <1>1 DEF TypeOK, SaveType, SaveFollowsMemory, NoSave
<1>3. i \notin Present(mem.details)
  BY <1>1 DEF SaveFollowsMemory, Savable
<1>4. /\ disk' \in [index : SUBSET Ids, limit : Limits, detail : Files]
      /\ disk'.index = disk.index
      /\ Present(disk'.detail) = Present(disk.detail) \ {i}
  BY <1>1, <1>2 DEF Files, Present
<1>5. /\ save' \in SaveType /\ save'.on = save.on
      /\ save'.removing = save.removing \ {i}
      /\ save'.writing = save.writing /\ save'.erasing = save.erasing
  BY <1>1, <1>2 DEF SaveType
<1>6. TypeOK'
  BY <1>1, <1>4, <1>5 DEF TypeOK, SaveType
<1>7. SaveFollowsMemory'
  BY <1>1, <1>2, <1>3, <1>4, <1>5 DEF SaveFollowsMemory, Savable
<1>8. EntriesSurvive'
  BY <1>1, <1>2, <1>3, <1>4 DEF EntriesSurvive, SaveFollowsMemory
<1>9. QED
  BY <1>1, <1>4, <1>5, <1>6, <1>7, <1>8 DEF OnlyUsed, ErasedForGood, EntriesHaveOwners,
     RunningHasId, CountedAtEnd

(* A save writes the file of an entry that the memory has. *)
LEMMA WriteDetailInv ==
  ASSUME HistoryInv, WriteDetail
  PROVE  HistoryInv'
<1> USE DEF HistoryInv
<1>1. PICK i \in save.writing :
        /\ disk' = [disk EXCEPT !.detail[i] = mem.details[i]]
        /\ save' = [save EXCEPT !.writing = @ \ {i}]
        /\ UNCHANGED <<mem, process, session, used, owner, kept, erased, usage>>
  BY DEF WriteDetail
<1>2. /\ disk \in [index : SUBSET Ids, limit : Limits, detail : Files]
      /\ save \in SaveType /\ i \in Ids /\ mem.details \in Files
  BY <1>1 DEF TypeOK, SaveType
<1>3. mem.details[i] \in Status \cup {Absent} /\ mem.details[i] # Absent
  BY <1>1, <1>2 DEF SaveFollowsMemory, Savable, Present, Files
<1>4. /\ disk' \in [index : SUBSET Ids, limit : Limits, detail : Files]
      /\ disk'.index = disk.index
      /\ Present(disk'.detail) = Present(disk.detail) \cup {i}
  BY <1>1, <1>2, <1>3 DEF Files, Present
<1>5. /\ save' \in SaveType /\ save'.on = save.on
      /\ save'.writing = save.writing \ {i}
      /\ save'.removing = save.removing /\ save'.erasing = save.erasing
  BY <1>1, <1>2 DEF SaveType
<1>6. TypeOK'
  BY <1>1, <1>4, <1>5 DEF TypeOK, SaveType
<1>7. SaveFollowsMemory'
  <2>1. save.on
    BY <1>1 DEF SaveFollowsMemory, NoSave
  <2>2. QED BY <1>1, <1>2, <1>4, <1>5, <2>1 DEF SaveFollowsMemory, Savable
<1>8. QED
  BY <1>1, <1>4, <1>5, <1>6, <1>7 DEF OnlyUsed, EntriesSurvive, ErasedForGood,
     EntriesHaveOwners, RunningHasId, CountedAtEnd

(***************************************************************************)
(* The index is written last: by then every present entry has its file,    *)
(* so what the index names is kept.                                        *)
(***************************************************************************)
LEMMA WriteIndexInv ==
  ASSUME HistoryInv, WriteIndex
  PROVE  HistoryInv'
<1> USE DEF HistoryInv
<1>1. /\ save.on /\ save.writing = {}
      /\ disk' = [disk EXCEPT !.index = Present(mem.details), !.limit = mem.limit]
      /\ mem' = [mem EXCEPT !.dirty = {}, !.deleted = {}]
      /\ save' = NoSave
      /\ kept' = Present(mem.details)
      /\ erased' = erased \cup save.erasing
      /\ UNCHANGED <<process, session, used, owner, usage>>
  BY DEF WriteIndex, IndexWritten
<1>2. /\ disk \in [index : SUBSET Ids, limit : Limits, detail : Files]
      /\ mem \in MemType /\ mem.limit \in Limits /\ Present(mem.details) \subseteq Ids
      /\ save.erasing \subseteq Ids
  BY DEF TypeOK, MemType, Present
<1>3. /\ disk' \in [index : SUBSET Ids, limit : Limits, detail : Files]
      /\ disk'.index = Present(mem.details) /\ disk'.detail = disk.detail
  BY <1>1, <1>2
<1>4. /\ mem' \in MemType /\ mem'.details = mem.details
      /\ mem'.dirty = {} /\ mem'.deleted = {}
  BY <1>1, <1>2 DEF MemType
<1>5. Present(mem.details) \subseteq Present(disk.detail)
  BY <1>1 DEF SaveFollowsMemory, Savable
<1>6. TypeOK'
  BY <1>1, <1>2, <1>3, <1>4 DEF TypeOK, MemType, NoSave
<1>7. SaveFollowsMemory'
  BY <1>1, <1>3, <1>4, <1>5 DEF SaveFollowsMemory, Savable, NoSave
<1>8. OnlyUsed'
  BY <1>1, <1>3, <1>4 DEF OnlyUsed, NoSave
<1>9. EntriesSurvive' /\ ErasedForGood'
  BY <1>1, <1>3, <1>4, <1>5 DEF EntriesSurvive, ErasedForGood, SaveFollowsMemory
<1>10. EntriesHaveOwners'
  BY <1>1, <1>3, <1>4 DEF EntriesHaveOwners
<1>11. QED
  BY <1>1, <1>6, <1>7, <1>8, <1>9, <1>10 DEF RunningHasId, CountedAtEnd

(* A file operation fails: the memory still knows what is pending. *)
LEMMA SaveFailsInv ==
  ASSUME HistoryInv, SaveFails
  PROVE  HistoryInv'
<1> USE DEF HistoryInv, SaveFails
<1>1. TypeOK' /\ SaveFollowsMemory'
  BY DEF TypeOK, SaveFollowsMemory, Savable, NoSave
<1>2. QED
  BY <1>1 DEF OnlyUsed, EntriesSurvive, ErasedForGood, EntriesHaveOwners, RunningHasId,
     CountedAtEnd, NoSave

----------------------------------------------------------------------------
(* The steps that begin a save, and those that only change a request *)

SessionType ==
  [pc : {"new", "live", "missing", "retry", "ended"}, id : Ids \cup {None}, want : Status]

(***************************************************************************)
(* A save that begins with a memory from which nothing confirmed as        *)
(* deleted can come back.                                                  *)
(***************************************************************************)
LEMMA SavingStep ==
  ASSUME HistoryInv,
         NEW m, Savable(m, disk.detail), erased \cap Present(m.details) = {},
         NEW erasing \in SUBSET Ids, erasing \cap Present(m.details) = {},
         Saving(m, erasing), UNCHANGED <<disk, erased>>
  PROVE  /\ mem' \in MemType /\ save' \in SaveType /\ kept' \in SUBSET Ids
         /\ save'.erasing = erasing
         /\ Present(mem'.details) \subseteq Present(m.details)
         /\ SaveFollowsMemory' /\ EntriesSurvive' /\ ErasedForGood'
<1>1. disk' = disk /\ erased' = erased
  OBVIOUS
<1>2. /\ SaveFollowsMemory' /\ save' \in SaveType /\ save'.erasing = erasing
      /\ Present(mem'.details) \subseteq Present(m.details)
      /\ kept' \subseteq kept
  BY <1>1, SavingProperties
<1>3. mem' \in MemType
  BY <1>2 DEF SaveFollowsMemory, Savable
<1>4. kept' \in SUBSET Ids /\ EntriesSurvive'
  BY <1>1, <1>2 DEF HistoryInv, TypeOK, EntriesSurvive
<1>5. ErasedForGood'
  BY <1>1, <1>2 DEF HistoryInv, ErasedForGood
<1>6. QED BY <1>2, <1>3, <1>4, <1>5

(* The process stops: the memory is gone, and with it every request. *)
LEMMA CrashInv ==
  ASSUME HistoryInv, Crash
  PROVE  HistoryInv'
<1> USE DEF HistoryInv
<1> DEFINE gone(s) == IF session[s].pc = "new" THEN session[s]
                      ELSE [session[s] EXCEPT !.pc = "ended"]
<1>1. /\ process' = "down" /\ mem' = Empty /\ save' = NoSave
      /\ session' = [s \in Sessions |-> gone(s)]
      /\ UNCHANGED <<disk, used, owner, kept, erased, usage>>
  BY DEF Crash
<1>2. \A s \in Sessions : session[s] \in SessionType
  BY DEF TypeOK, SessionType
<1>3. \A s \in Sessions :
        /\ gone(s) \in SessionType
        /\ gone(s).pc = IF session[s].pc = "new" THEN "new" ELSE "ended"
  BY <1>2 DEF SessionType
<1> HIDE DEF gone
<1>4. /\ session' \in [Sessions -> SessionType]
      /\ \A s \in Sessions :
           session'[s].pc = IF session[s].pc = "new" THEN "new" ELSE "ended"
  BY <1>1, <1>3
<1>5. Present(Empty.details) = {} /\ Empty \in MemType /\ Savable(Empty, disk.detail)
  BY LimitsAssumption DEF Empty, MemType, Savable, Present, Files
<1>6. TypeOK'
  BY <1>1, <1>4, <1>5 DEF TypeOK, SessionType, NoSave, Savable, MemType
<1>7. SaveFollowsMemory' /\ OnlyUsed'
  BY <1>1, <1>5 DEF SaveFollowsMemory, OnlyUsed, NoSave
<1>8. EntriesSurvive' /\ ErasedForGood'
  BY <1>1, <1>5 DEF EntriesSurvive, ErasedForGood
<1>9. EntriesHaveOwners'
  BY <1>1, <1>4, <1>5 DEF EntriesHaveOwners
<1>10. RunningHasId' /\ CountedAtEnd'
  <2>1. \A s \in Sessions : session[s].pc = "ended" => session'[s].pc = "ended"
    BY <1>4
  <2>2. QED BY <1>1, <1>4, <2>1 DEF RunningHasId, CountedAtEnd
<1>11. QED BY <1>6, <1>7, <1>8, <1>9, <1>10

(* The process starts with what the index names, or not at all. *)
LEMMA BootInv ==
  ASSUME HistoryInv, Boot
  PROVE  HistoryInv'
<1> USE DEF HistoryInv
<1>1. process = "down" /\ UNCHANGED <<disk, session, used, owner, erased, usage>>
  BY DEF Boot
<1>2. CASE ~(disk.index \subseteq Present(disk.detail))
  <2>1. process' = "failed" /\ UNCHANGED <<mem, save, kept>>
    BY <1>2 DEF Boot
  <2>2. TypeOK'
    BY <1>1, <2>1 DEF TypeOK
  <2>3. SaveFollowsMemory' /\ OnlyUsed' /\ EntriesSurvive' /\ ErasedForGood'
    BY <1>1, <2>1 DEF SaveFollowsMemory, OnlyUsed, EntriesSurvive, ErasedForGood
  <2>4. QED
    BY <1>1, <2>1, <2>2, <2>3 DEF EntriesHaveOwners, RunningHasId, CountedAtEnd
<1>3. CASE disk.index \subseteq Present(disk.detail)
  <2> DEFINE d == [i \in Ids |-> IF i \in disk.index THEN disk.detail[i] ELSE Absent]
             m == [details |-> d, dirty |-> {}, deleted |-> {}, limit |-> disk.limit]
  <2>1. process' = "up" /\ Saving(m, {})
    BY <1>3 DEF Boot
  <2>2. disk.index \in SUBSET Ids /\ disk.limit \in Limits /\ disk.detail \in Files
    BY DEF TypeOK
  <2>3. d \in Files /\ Present(d) = disk.index
    BY <1>3, <2>2 DEF Files, Present
  <2>4. m \in MemType /\ m.details = d /\ Savable(m, disk.detail)
    <3> HIDE DEF d
    <3>1. QED BY <1>3, <2>2, <2>3 DEF MemType, Savable
  <2>5. erased \cap Present(m.details) = {}
    BY <2>3, <2>4 DEF ErasedForGood
  <2> HIDE DEF d, m
  <2>6. /\ mem' \in MemType /\ save' \in SaveType /\ kept' \in SUBSET Ids
        /\ save'.erasing = {}
        /\ Present(mem'.details) \subseteq Present(m.details)
        /\ SaveFollowsMemory' /\ EntriesSurvive' /\ ErasedForGood'
    BY <1>1, <2>1, <2>4, <2>5, SavingStep
  <2>7. Present(mem'.details) \subseteq disk.index
    BY <2>3, <2>4, <2>6
  <2>8. TypeOK'
    BY <1>1, <2>1, <2>6 DEF TypeOK, SaveFollowsMemory, Savable, MemType, SaveType
  <2>9. OnlyUsed'
    BY <1>1, <2>6, <2>7 DEF OnlyUsed
  <2>10. EntriesHaveOwners'
    BY <1>1, <2>7 DEF EntriesHaveOwners, RunningHasId
  <2>11. RunningHasId' /\ CountedAtEnd'
    BY <1>1, <2>1 DEF RunningHasId, CountedAtEnd
  <2>12. QED BY <2>6, <2>8, <2>9, <2>10, <2>11
<1>4. QED BY <1>2, <1>3

(* Deleting, clearing and setting the limit drop entries, they make none. *)
LEMMA AdminInv ==
  ASSUME HistoryInv, Delete \/ Clear \/ SetLimit
  PROVE  HistoryInv'
<1> USE DEF HistoryInv
<1>1. \E m : \E erasing \in SUBSET used :
        /\ Savable(m, disk.detail)
        /\ Present(m.details) \subseteq Present(mem.details)
        /\ erasing \cap Present(m.details) = {}
        /\ Admin(m, erasing)
  <2>1. Savable(mem, disk.detail) /\ mem \in MemType
    BY DEF SaveFollowsMemory, Savable
  <2>2. Present(mem.details) \subseteq used /\ Present(mem.details) \subseteq Ids
    BY DEF OnlyUsed, Present
  <2>3. CASE Delete
    <3>1. PICK i \in Present(mem.details) : Admin(Dropped(mem, {i}), {i})
      BY <2>3 DEF Delete
    <3>2. {i} \in SUBSET Present(mem.details) /\ {i} \in SUBSET Ids /\ {i} \in SUBSET used
      BY <2>2
    <3>3. /\ Savable(Dropped(mem, {i}), disk.detail)
          /\ Present(Dropped(mem, {i}).details) = Present(mem.details) \ {i}
      BY <2>1, <3>2, DroppedSavable, DroppedProperties
    <3>4. QED BY <3>1, <3>2, <3>3
  <2>4. CASE Clear
    <3> DEFINE all == Present(mem.details)
    <3>1. all \in SUBSET Present(mem.details) /\ all \in SUBSET Ids /\ all \in SUBSET used
      BY <2>2
    <3>2. /\ Savable(Dropped(mem, all), disk.detail)
          /\ Present(Dropped(mem, all).details) = {}
      BY <2>1, <3>1, DroppedSavable, DroppedProperties
    <3>3. QED BY <2>4, <3>1, <3>2 DEF Clear
  <2>5. CASE SetLimit
    <3>1. PICK l \in Limits : Admin([mem EXCEPT !.limit = l], {})
      BY <2>5 DEF SetLimit
    <3>2. /\ Savable([mem EXCEPT !.limit = l], disk.detail)
          /\ [mem EXCEPT !.limit = l].details = mem.details
      BY <2>1 DEF Savable, MemType
    <3>3. QED BY <3>1, <3>2
  <2>6. QED BY <2>3, <2>4, <2>5
<1> DEFINE Edits(m, erasing) == /\ Savable(m, disk.detail)
                               /\ Present(m.details) \subseteq Present(mem.details)
                               /\ erasing \cap Present(m.details) = {}
                               /\ Admin(m, erasing)
<1>11. PICK m : \E erasing \in SUBSET used : Edits(m, erasing)
  BY <1>1
<1>2. PICK erasing \in SUBSET used : Edits(m, erasing)
  BY <1>11
<1>3. Saving(m, erasing) /\ UNCHANGED <<process, disk, session, used, owner, erased, usage>>
  BY <1>2 DEF Admin
<1>4. erasing \in SUBSET Ids /\ erased \cap Present(m.details) = {}
  BY <1>2 DEF TypeOK, ErasedForGood
<1>5. /\ mem' \in MemType /\ save' \in SaveType /\ kept' \in SUBSET Ids
      /\ save'.erasing = erasing
      /\ Present(mem'.details) \subseteq Present(m.details)
      /\ SaveFollowsMemory' /\ EntriesSurvive' /\ ErasedForGood'
  BY <1>2, <1>3, <1>4, SavingStep
<1>6. TypeOK'
  BY <1>3, <1>5 DEF TypeOK, SaveFollowsMemory, Savable, MemType, SaveType
<1>7. Present(mem'.details) \subseteq Present(mem.details)
  BY <1>2, <1>5
<1>8. OnlyUsed'
  BY <1>3, <1>5, <1>7 DEF OnlyUsed
<1>9. EntriesHaveOwners'
  BY <1>3, <1>7 DEF EntriesHaveOwners
<1>10. QED
  BY <1>3, <1>5, <1>6, <1>8, <1>9 DEF RunningHasId, CountedAtEnd

(* A request ends, or finds its entry missing, and nothing else changes. *)
LEMMA SessionStep ==
  ASSUME HistoryInv, NEW s \in Sessions, session' \in [Sessions -> SessionType],
         \A t \in Sessions \ {s} : session'[t] = session[t],
         \/ session'[s].pc = "ended"
         \/ /\ session'[s].pc = "missing" /\ session[s].pc = "live" /\ process = "up"
            /\ mem.details[session[s].id] = Absent,
         UNCHANGED <<mem, process, save, disk, used, owner, kept, erased, usage>>
  PROVE  HistoryInv'
<1> USE DEF HistoryInv
<1>1. TypeOK'
  BY DEF TypeOK, SessionType
<1>2. SaveFollowsMemory' /\ OnlyUsed' /\ EntriesSurvive' /\ ErasedForGood'
  BY DEF SaveFollowsMemory, OnlyUsed, EntriesSurvive, ErasedForGood
<1>3. EntriesHaveOwners'
  <2>1. \A i \in Present(mem.details) : owner[i] = s => session'[s].pc = "ended"
    BY DEF EntriesHaveOwners, Present
  <2>2. QED BY <2>1 DEF EntriesHaveOwners
<1>4. RunningHasId'
  BY DEF RunningHasId
<1>5. CountedAtEnd'
  <2>1. session'[s].pc # "ended" => session[s].pc # "ended"
    OBVIOUS
  <2>2. QED BY <2>1 DEF CountedAtEnd
<1>6. QED BY <1>1, <1>2, <1>3, <1>4, <1>5

(* A request that has no entry in memory gets one. *)
LEMMA StartEntryInv ==
  ASSUME HistoryInv, NEW s \in Sessions, process = "up",
         session[s].pc \in {"new", "missing"},
         NEW pc \in {"live", "retry"}, StartEntry(s, pc)
  PROVE  HistoryInv'
<1> USE DEF HistoryInv
<1>1. PICK i \in Ids \ used :
        /\ used' = used \cup {i}
        /\ owner' = [owner EXCEPT ![i] = s]
        /\ session' = [session EXCEPT ![s].pc = pc, ![s].id = i]
        /\ Saving(Put(mem, i, "streaming"), {})
        /\ UNCHANGED <<process, disk, erased, usage>>
  BY DEF StartEntry
<1> DEFINE m == Put(mem, i, "streaming")
<1>2. Savable(m, disk.detail) /\ Present(m.details) = Present(mem.details) \cup {i}
  BY PutProperties DEF SaveFollowsMemory, Status
<1> HIDE DEF m
<1>3. i \notin Present(mem.details) \cup disk.index \cup erased
  BY DEF OnlyUsed
<1>4. erased \cap Present(m.details) = {}
  BY <1>2, <1>3 DEF ErasedForGood
<1>5. /\ mem' \in MemType /\ save' \in SaveType /\ kept' \in SUBSET Ids
      /\ save'.erasing = {}
      /\ Present(mem'.details) \subseteq Present(m.details)
      /\ SaveFollowsMemory' /\ EntriesSurvive' /\ ErasedForGood'
  BY <1>1, <1>2, <1>4, SavingStep DEF m
<1>6. session \in [Sessions -> SessionType]
  BY DEF TypeOK, SessionType
<1>7. /\ session' \in [Sessions -> SessionType]
      /\ session'[s].pc = pc /\ session'[s].id = i
      /\ \A t \in Sessions \ {s} : session'[t] = session[t]
  BY <1>1, <1>6 DEF SessionType
<1>8. /\ owner' \in [Ids -> Sessions \cup {None}]
      /\ owner'[i] = s
      /\ \A j \in Ids \ {i} : owner'[j] = owner[j]
  BY <1>1 DEF TypeOK
<1>9. Present(mem'.details) \subseteq Present(mem.details) \cup {i}
  BY <1>2, <1>5
<1>10. TypeOK'
  BY <1>1, <1>5, <1>7, <1>8 DEF TypeOK, SaveFollowsMemory, Savable, MemType, SaveType,
     SessionType
<1>11. OnlyUsed'
  BY <1>1, <1>5, <1>9 DEF OnlyUsed
<1>12. EntriesHaveOwners'
  <2>1. disk' = disk /\ disk.index \subseteq Ids \ {i} /\ Present(mem.details) \subseteq Ids \ {i}
    BY <1>1, <1>3 DEF TypeOK, Present
  <2>2. \A j \in Present(mem.details) : owner[j] # s
    BY DEF EntriesHaveOwners
  <2>3. \A j \in Present(mem'.details) \cup disk.index :
          owner'[j] \in Sessions /\ session'[owner'[j]].pc # "new"
    BY <1>7, <1>8, <1>9, <2>1 DEF EntriesHaveOwners
  <2>4. \A j \in Present(mem'.details) :
          /\ session'[owner'[j]].pc # "missing"
          /\ session'[owner'[j]].pc \in {"live", "retry"} => j = session'[owner'[j]].id
    BY <1>7, <1>8, <1>9, <2>1, <2>2 DEF EntriesHaveOwners
  <2>5. \A j, k \in Present(mem'.details) : owner'[j] = owner'[k] => j = k
    BY <1>8, <1>9, <2>1, <2>2 DEF EntriesHaveOwners
  <2>6. \A j, k \in disk.index : owner'[j] = owner'[k] => j = k
    BY <1>8, <2>1 DEF EntriesHaveOwners
  <2>7. QED BY <2>1, <2>3, <2>4, <2>5, <2>6 DEF EntriesHaveOwners
<1>13. RunningHasId' /\ CountedAtEnd'
  BY <1>1, <1>7 DEF RunningHasId, CountedAtEnd
<1>14. QED BY <1>5, <1>10, <1>11, <1>12, <1>13

(* A request writes its entry, and its token record with a final status. *)
LEMMA UpdateEntryInv ==
  ASSUME HistoryInv, NEW s \in Sessions, process = "up",
         session[s].pc \in {"live", "retry"}, NEW status \in Status, UpdateEntry(s, status)
  PROVE  HistoryInv'
<1> USE DEF HistoryInv
<1> DEFINE i == session[s].id
           m == Put(mem, i, status)
           pc == IF status \in Finals THEN "ended" ELSE "live"
<1>1. /\ mem.details[i] # Absent
      /\ Saving(m, {})
      /\ usage' = Recorded(s, status)
      /\ session' = [session EXCEPT ![s].pc = pc]
      /\ UNCHANGED <<process, disk, used, owner, erased>>
  BY DEF UpdateEntry
<1>2. i \in Present(mem.details)
  BY <1>1 DEF RunningHasId, Present
<1>3. Savable(m, disk.detail) /\ Present(m.details) = Present(mem.details) \cup {i}
  BY <1>2, PutProperties DEF SaveFollowsMemory, Present
<1>4. Present(m.details) = Present(mem.details)
  BY <1>2, <1>3
<1>5. session \in [Sessions -> SessionType]
  BY DEF TypeOK, SessionType
<1>6. pc \in {"ended", "live"}
  OBVIOUS
<1>7. /\ usage' \in [Sessions -> Nat] /\ usage'[s] <= 1
      /\ pc = "live" => usage'[s] = 0
      /\ \A t \in Sessions \ {s} : usage'[t] = usage[t]
  <2>1. usage \in [Sessions -> Nat] /\ usage[s] = 0
    BY DEF TypeOK, CountedAtEnd
  <2>2. CASE status \in {"success", "stopped"}
    BY <1>1, <2>1, <2>2 DEF Recorded, Finals
  <2>3. CASE status \notin {"success", "stopped"}
    BY <1>1, <2>1, <2>3 DEF Recorded
  <2>4. QED BY <2>2, <2>3
<1> HIDE DEF m, pc
<1>8. /\ session' \in [Sessions -> SessionType]
      /\ session'[s].pc = pc /\ session'[s].id = i
      /\ \A t \in Sessions \ {s} : session'[t] = session[t]
  BY <1>1, <1>5, <1>6 DEF SessionType
<1>9. erased \cap Present(m.details) = {}
  BY <1>4 DEF ErasedForGood
<1>10. /\ mem' \in MemType /\ save' \in SaveType /\ kept' \in SUBSET Ids
       /\ save'.erasing = {}
       /\ Present(mem'.details) \subseteq Present(m.details)
       /\ SaveFollowsMemory' /\ EntriesSurvive' /\ ErasedForGood'
  BY <1>1, <1>3, <1>9, SavingStep
<1>11. TypeOK'
  BY <1>1, <1>7, <1>8, <1>10 DEF TypeOK, SaveFollowsMemory, Savable, MemType, SaveType,
     SessionType
<1>12. Present(mem'.details) \subseteq Present(mem.details)
  BY <1>4, <1>10
<1>13. OnlyUsed'
  BY <1>1, <1>10, <1>12 DEF OnlyUsed
<1>14. EntriesHaveOwners'
  <2>1. \A j \in Present(mem.details) : owner[j] = s => j = i
    BY DEF EntriesHaveOwners
  <2>2. QED BY <1>1, <1>6, <1>8, <1>12, <2>1 DEF EntriesHaveOwners
<1>15. RunningHasId'
  BY <1>1, <1>2, <1>8 DEF RunningHasId, Present
<1>16. CountedAtEnd'
  BY <1>6, <1>7, <1>8 DEF CountedAtEnd
<1>17. QED BY <1>10, <1>11, <1>13, <1>14, <1>15, <1>16

(* Every step of a request. *)
LEMMA RequestInv ==
  ASSUME HistoryInv, NEW s \in Sessions,
         \/ Begin(s) \/ BeginUnrecorded(s) \/ Report(s) \/ ReportMissing(s)
         \/ Recreate(s) \/ Retry(s) \/ LeaveUnfinished(s)
  PROVE  HistoryInv'
<1>1. session \in [Sessions -> SessionType]
  BY DEF HistoryInv, TypeOK, SessionType
<1>2. ASSUME Disabled(s) PROVE HistoryInv'
  <2>1. /\ session' \in [Sessions -> SessionType]
        /\ session'[s].pc = "ended"
        /\ \A t \in Sessions \ {s} : session'[t] = session[t]
    BY <1>1, <1>2 DEF Disabled, SessionType
  <2>2. QED BY <1>2, <2>1, SessionStep DEF Disabled
<1>3. CASE Begin(s)
  BY <1>3, StartEntryInv DEF Begin, Free
<1>4. CASE BeginUnrecorded(s)
  BY <1>2, <1>4 DEF BeginUnrecorded, Disabled
<1>5. CASE Report(s)
  BY <1>5, UpdateEntryInv DEF Report, Free
<1>6. CASE ReportMissing(s)
  <2>1. PICK status \in Status :
          session' = [session EXCEPT ![s].pc = "missing", ![s].want = status]
    BY <1>6 DEF ReportMissing, Missed
  <2>2. /\ session' \in [Sessions -> SessionType]
        /\ session'[s].pc = "missing"
        /\ \A t \in Sessions \ {s} : session'[t] = session[t]
    BY <1>1, <2>1 DEF SessionType
  <2>3. QED BY <1>6, <2>2, SessionStep DEF ReportMissing, Free
<1>7. CASE Recreate(s)
  BY <1>2, <1>7, StartEntryInv DEF Recreate, Free
<1>8. CASE Retry(s)
  <2>1. session[s].want \in Status
    BY <1>1 DEF SessionType
  <2>2. QED BY <1>2, <1>8, <2>1, UpdateEntryInv DEF Retry, Free
<1>9. CASE LeaveUnfinished(s)
  BY <1>2, <1>9 DEF LeaveUnfinished, Disabled
<1>10. QED BY <1>3, <1>4, <1>5, <1>6, <1>7, <1>8, <1>9

----------------------------------------------------------------------------
(* The theorems *)

(* Every step keeps what the four theorems below need. *)
LEMMA HistoryInvStep == HistoryInv /\ [Next]_vars => HistoryInv'
<1> SUFFICES ASSUME HistoryInv, [Next]_vars PROVE HistoryInv'
  OBVIOUS
<1>1. CASE UNCHANGED vars
  BY <1>1 DEF vars, HistoryInv, TypeOK, SaveFollowsMemory, Savable, OnlyUsed,
     EntriesSurvive, ErasedForGood, EntriesHaveOwners, RunningHasId, CountedAtEnd
<1>2. CASE Next
  <2>1. CASE \E s \in Sessions :
               \/ Begin(s) \/ BeginUnrecorded(s) \/ Report(s) \/ ReportMissing(s)
               \/ Recreate(s) \/ Retry(s) \/ LeaveUnfinished(s)
    BY <2>1, RequestInv
  <2>2. QED
    BY <1>2, <2>1, RemoveDetailInv, WriteDetailInv, WriteIndexInv, SaveFailsInv, CrashInv,
       BootInv, AdminInv DEF Next
<1>3. QED BY <1>1, <1>2

(* The store is as a save needs it in every reachable state. *)
LEMMA HistoryInvariant == Spec => []HistoryInv
BY InitInv, HistoryInvStep, PTL DEF Spec

(***************************************************************************)
(* Every reachable state of the store and of the requests is well typed,   *)
(* whichever file operations fail and wherever the process stops.          *)
(***************************************************************************)
THEOREM TypeCorrect == Spec => []TypeOK
<1>1. HistoryInv => TypeOK
  BY DEF HistoryInv
<1>2. QED BY <1>1, HistoryInvariant, PTL

(***************************************************************************)
(* What saveLocked has completely written stays on disk, in the index and  *)
(* as a file, until somebody deletes or evicts it: no later failure and no *)
(* crash loses it.                                                         *)
(***************************************************************************)
THEOREM SavedEntriesSurvive == Spec => []EntriesSurvive
<1>1. HistoryInv => EntriesSurvive
  BY DEF HistoryInv
<1>2. QED BY <1>1, HistoryInvariant, PTL

(***************************************************************************)
(* An entry whose deletion Store.Delete or Store.Clear has confirmed comes *)
(* back neither in memory nor in the index.                                *)
(***************************************************************************)
THEOREM DeletedStayDeleted == Spec => []ErasedForGood
<1>1. HistoryInv => ErasedForGood
  BY DEF HistoryInv
<1>2. QED BY <1>1, HistoryInvariant, PTL

(***************************************************************************)
(* retryMissingEntry never gives a request a second entry beside its       *)
(* first, and the request's tokens are recorded once.                      *)
(***************************************************************************)
THEOREM OneEntryOneRecord == Spec => []RecordedOncePerRequest
<1>1. HistoryInv => RecordedOncePerRequest
  BY DEF HistoryInv, EntriesHaveOwners, CountedAtEnd, RecordedOncePerRequest
<1>2. QED BY <1>1, HistoryInvariant, PTL
=============================================================================
