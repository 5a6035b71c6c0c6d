---------------------------- MODULE ChatHistory ----------------------------
(***************************************************************************)
(* The chat history of internal/chathistory: an index file and one detail  *)
(* file per entry, written under Store.mu, together with the chat requests *)
(* that report to it (chatHistorySession) and the admin handlers.          *)
(*                                                                         *)
(* A save is a sequence of file operations, each of which may fail, and    *)
(* the process may stop before any of them.  A file is replaced by a       *)
(* rename, so one file is written in one step.                             *)
(*                                                                         *)
(* An entry is its status, the other columns are left out.  Which entries  *)
(* are the oldest is left open: the order is that of wall-clock            *)
(* milliseconds, which may repeat or step back.  A missing index file is   *)
(* an empty one with the default limit, which is what loading it gives.    *)
(*                                                                         *)
(* used, owner, kept, erased and usage are history variables.              *)
(***************************************************************************)
EXTENDS Naturals, FiniteSets

CONSTANTS
  Ids,          \* entry identifiers, a bound on the entries ever created
  Sessions,     \* chat requests
  Limits,       \* the retention limits SetLimit accepts (code: 0, 10, 20, 50)
  DefaultLimit, \* the limit of a new store
  None          \* no session

ASSUME LimitsAssumption ==
  Limits \subseteq Nat /\ 0 \in Limits /\ DefaultLimit \in Limits \ {0}

VARIABLES
  mem,      \* Store: details, dirty, deleted and the limit
  process,  \* "up", "failed" (the store latched an error at load), "down"
  save,     \* the save in progress
  disk,     \* the index file and the detail files
  session,  \* the chatHistorySession of each request
  used,     \* the identifiers given out so far
  owner,    \* the session an entry was created for
  kept,     \* entries of the last complete save that nobody has removed since
  erased,   \* entries whose deletion the store has confirmed
  usage     \* token records written for each session

vars == <<mem, process, save, disk, session, used, owner, kept, erased, usage>>

Finals == {"success", "error", "stopped"}

Status == Finals \cup {"streaming"}

Absent == "absent"

Files == [Ids -> Status \cup {Absent}]

Present(files) == {i \in Ids : files[i] # Absent}

NoSave == [on |-> FALSE, removing |-> {}, writing |-> {}, erasing |-> {}]

Empty == [details |-> [i \in Ids |-> Absent], dirty |-> {}, deleted |-> {},
          limit |-> DefaultLimit]

Init ==
  /\ mem = Empty
  /\ process = "up"
  /\ save = NoSave
  /\ disk = [index |-> {}, limit |-> DefaultLimit, detail |-> [i \in Ids |-> Absent]]
  /\ session = [s \in Sessions |-> [pc |-> "new", id |-> None, want |-> "streaming"]]
  /\ used = {}
  /\ owner = [i \in Ids |-> None]
  /\ kept = {}
  /\ erased = {}
  /\ usage = [s \in Sessions |-> 0]

----------------------------------------------------------------------------
(* Changes in memory *)

(* Without the entries E: markDetailDeletedLocked and delete *)
Dropped(m, E) ==
  [m EXCEPT !.details = [i \in Ids |-> IF i \in E THEN Absent ELSE @[i]],
            !.dirty   = @ \ E,
            !.deleted = @ \cup E]

Put(m, i, status) ==
  [m EXCEPT !.details[i] = status,
            !.dirty      = @ \cup {i},
            !.deleted    = @ \ {i}]

(* rebuildIndexLocked: the limit, unless it is 0, evicts what is too many *)
Trimmed(m) ==
  LET live == Present(m.details)
      over == IF m.limit = 0 \/ Cardinality(live) <= m.limit THEN 0
              ELSE Cardinality(live) - m.limit
  IN  {Dropped(m, E) : E \in {F \in SUBSET live : Cardinality(F) = over}}

(* The store's lock is free and it has not latched an error *)
Free == process = "up" /\ ~save.on

(* The end of every mutating operation: trim, then start to save *)
Saving(m, erasing) ==
  \E t \in Trimmed(m) :
    /\ mem' = t
    /\ save' = [on |-> TRUE, removing |-> t.deleted, writing |-> t.dirty,
                erasing |-> erasing]
    /\ kept' = kept \cap Present(t.details)

----------------------------------------------------------------------------
(* saveLocked *)

RemoveDetail ==
  \E i \in save.removing :
    /\ disk' = [disk EXCEPT !.detail[i] = Absent]
    /\ save' = [save EXCEPT !.removing = @ \ {i}]
    /\ UNCHANGED <<mem, process, session, used, owner, kept, erased, usage>>

WriteDetail ==
  /\ save.removing = {}
  /\ \E i \in save.writing :
       /\ disk' = [disk EXCEPT !.detail[i] = mem.details[i]]
       /\ save' = [save EXCEPT !.writing = @ \ {i}]
  /\ UNCHANGED <<mem, process, session, used, owner, kept, erased, usage>>

IndexWritten(index) ==
  /\ disk' = [disk EXCEPT !.index = index, !.limit = mem.limit]
  /\ mem' = [mem EXCEPT !.dirty = {}, !.deleted = {}]
  /\ save' = NoSave
  /\ kept' = Present(mem.details)
  /\ erased' = erased \cup save.erasing
  /\ UNCHANGED <<process, session, used, owner, usage>>

WriteIndex_First ==
  /\ save.on
  /\ save.removing = {}
  /\ IndexWritten(Present(mem.details))

WriteIndex_AddOnly ==
  /\ save.on
  /\ save.removing = {} /\ save.writing = {}
  /\ IndexWritten(disk.index \cup Present(mem.details))

WriteIndex ==
  /\ save.on
  /\ save.removing = {} /\ save.writing = {}
  /\ IndexWritten(Present(mem.details))

(* A file operation fails: what is pending stays pending *)
SaveFails ==
  /\ save.on
  /\ save' = NoSave
  /\ UNCHANGED <<mem, process, disk, session, used, owner, kept, erased, usage>>

----------------------------------------------------------------------------
(* Stopping and starting the process *)

Crash ==
  /\ process # "down"
  /\ process' = "down"
  /\ mem' = Empty
  /\ save' = NoSave
  /\ session' = [s \in Sessions |->
       IF session[s].pc = "new" THEN session[s] ELSE [session[s] EXCEPT !.pc = "ended"]]
  /\ UNCHANGED <<disk, used, owner, kept, erased, usage>>

(* loadLocked: one missing detail file fails the load, for good *)
Boot ==
  /\ process = "down"
  /\ IF disk.index \subseteq Present(disk.detail)
     THEN /\ process' = "up"
          /\ Saving([details |-> [i \in Ids |-> IF i \in disk.index
                                                THEN disk.detail[i] ELSE Absent],
                     dirty |-> {}, deleted |-> {}, limit |-> disk.limit], {})
     ELSE /\ process' = "failed"
          /\ UNCHANGED <<mem, save, kept>>
  /\ UNCHANGED <<disk, session, used, owner, erased, usage>>

----------------------------------------------------------------------------
(* A chat request *)

(* Store.Start for session s, which goes on at pc *)
StartEntry(s, pc) ==
  \E i \in Ids \ used :
    /\ used' = used \cup {i}
    /\ owner' = [owner EXCEPT ![i] = s]
    /\ session' = [session EXCEPT ![s].pc = pc, ![s].id = i]
    /\ Saving(Put(mem, i, "streaming"), {})
    /\ UNCHANGED <<process, disk, erased, usage>>

Begin(s) ==
  /\ session[s].pc = "new"
  /\ Free
  /\ mem.limit # 0
  /\ StartEntry(s, "live")

(* The history is disabled or unusable: the request runs without one *)
BeginUnrecorded(s) ==
  /\ session[s].pc = "new"
  /\ process = "failed" \/ (Free /\ mem.limit = 0)
  /\ session' = [session EXCEPT ![s].pc = "ended"]
  /\ UNCHANGED <<mem, process, save, disk, used, owner, kept, erased, usage>>

Recorded(s, status) ==
  IF status \in {"success", "stopped"}
  THEN [usage EXCEPT ![s] = @ + 1] ELSE usage

(***************************************************************************)
(* Store.Update for the session's entry; a final status ends the session.  *)
(* The token record is written whether or not the save then succeeds.      *)
(***************************************************************************)
UpdateEntry(s, status) ==
  /\ mem.details[session[s].id] # Absent
  /\ Saving(Put(mem, session[s].id, status), {})
  /\ usage' = Recorded(s, status)
  /\ session' = [session EXCEPT ![s].pc = IF status \in Finals THEN "ended" ELSE "live"]
  /\ UNCHANGED <<process, disk, used, owner, erased>>

(* progress, updateHistoryText, success, error and stopped *)
Report(s) ==
  /\ session[s].pc = "live"
  /\ Free
  /\ \E status \in Status : UpdateEntry(s, status)

Missed(s) ==
  \E status \in Status :
    session' = [session EXCEPT ![s].pc = "missing", ![s].want = status]

ReportMissing_Counts(s) ==
  /\ session[s].pc = "live"
  /\ Free
  /\ mem.details[session[s].id] = Absent
  /\ Missed(s)
  /\ usage' = Recorded(s, session'[s].want)
  /\ UNCHANGED <<mem, process, save, disk, used, owner, kept, erased>>

(* The entry has been deleted or evicted meanwhile *)
ReportMissing(s) ==
  /\ session[s].pc = "live"
  /\ Free
  /\ mem.details[session[s].id] = Absent
  /\ Missed(s)
  /\ UNCHANGED <<mem, process, save, disk, used, owner, kept, erased, usage>>

Disabled(s) ==
  /\ session' = [session EXCEPT ![s].pc = "ended"]
  /\ UNCHANGED <<mem, process, save, disk, used, owner, kept, erased, usage>>

(* retryMissingEntry: a new entry in place of the missing one *)
Recreate(s) ==
  /\ session[s].pc = "missing"
  /\ Free
  /\ IF mem.limit = 0 THEN Disabled(s) ELSE StartEntry(s, "retry")

(* handlePersistError repeats the update once *)
Retry(s) ==
  /\ session[s].pc = "retry"
  /\ Free
  /\ \/ UpdateEntry(s, session[s].want)
     \/ mem.details[session[s].id] = Absent /\ Disabled(s)

(* A split fails after the entry was started: the handler returns *)
LeaveUnfinished(s) ==
  /\ session[s].pc = "live"
  /\ session' = [session EXCEPT ![s].pc = "ended"]
  /\ UNCHANGED <<mem, process, save, disk, used, owner, kept, erased, usage>>

----------------------------------------------------------------------------
(* The admin handlers *)

Admin(m, erasing) ==
  /\ Free
  /\ Saving(m, erasing)
  /\ UNCHANGED <<process, disk, session, used, owner, erased, usage>>

Delete == \E i \in Present(mem.details) : Admin(Dropped(mem, {i}), {i})

Clear == Admin(Dropped(mem, Present(mem.details)), Present(mem.details))

SetLimit == \E l \in Limits : Admin([mem EXCEPT !.limit = l], {})

----------------------------------------------------------------------------

Next ==
  \/ RemoveDetail \/ WriteDetail \/ WriteIndex \/ SaveFails
  \/ Crash \/ Boot
  \/ Delete \/ Clear \/ SetLimit
  \/ \E s \in Sessions :
       \/ Begin(s) \/ BeginUnrecorded(s) \/ Report(s) \/ ReportMissing(s)
       \/ Recreate(s) \/ Retry(s) \/ LeaveUnfinished(s)

Spec == Init /\ [][Next]_vars

----------------------------------------------------------------------------
(* Properties *)

(***************************************************************************)
(* The variables have their types, and what is pending is what a save may  *)
(* handle: dirty entries exist, deleted ones do not.                       *)
(***************************************************************************)
TypeOK ==
  /\ mem \in [details : Files, dirty : SUBSET Ids, deleted : SUBSET Ids, limit : Limits]
  /\ mem.dirty \subseteq Present(mem.details)
  /\ mem.deleted \cap Present(mem.details) = {}
  /\ process \in {"up", "failed", "down"}
  /\ save \in [on : BOOLEAN, removing : SUBSET Ids, writing : SUBSET Ids,
               erasing : SUBSET Ids]
  /\ disk \in [index : SUBSET Ids, limit : Limits, detail : Files]
  /\ session \in [Sessions -> [pc   : {"new", "live", "missing", "retry", "ended"},
                               id   : Ids \cup {None},
                               want : Status]]
  /\ used \subseteq Ids /\ kept \subseteq Ids /\ erased \subseteq Ids
  /\ owner \in [Ids -> Sessions \cup {None}]
  /\ usage \in [Sessions -> Nat]

(***************************************************************************)
(* What a complete save has written stays on disk, in the index and as a   *)
(* detail file, until somebody deletes or evicts it, whenever a later save *)
(* fails or the process stops.                                             *)
(***************************************************************************)
EntriesSurvive == kept \subseteq disk.index \cap Present(disk.detail)

(***************************************************************************)
(* An entry whose deletion was confirmed is gone for good: a restart does  *)
(* not bring it back.                                                      *)
(***************************************************************************)
ErasedForGood == erased \cap (Present(mem.details) \cup disk.index) = {}

(***************************************************************************)
(* Although a request makes a new entry when its own is deleted or evicted *)
(* while it runs, it never has two, and its tokens are counted once.       *)
(***************************************************************************)
RecordedOncePerRequest ==
  /\ \A i, j \in Present(mem.details) : owner[i] = owner[j] => i = j
  /\ \A s \in Sessions : usage[s] <= 1

(***************************************************************************)
(* A failed write is transient (TestStoreTransientPersistenceFailureDoes-  *)
(* NotLatch): the store never latches an error.  Fails: a save removes     *)
(* detail files before it rewrites the index, and the process may stop in  *)
(* between.                                                                *)
(***************************************************************************)
StoreNeverLatches == process # "failed"
=============================================================================
