------------------------------- MODULE TokenStats -------------------------------
(***************************************************************************)
(* internal/chathistory/store_tokenstats.go and the statistics page of the *)
(* admin interface: a record per finished request, in a file that is read, *)
(* extended and rewritten in place, and totals and a time line made of it. *)
(*                                                                         *)
(* The writers hold the mutex of the chat history; the page reads without  *)
(* it, and a stop may leave the file cut off.  A record is its time.       *)
(***************************************************************************)
EXTENDS Integers, Sequences, FiniteSets, Subsequences

CONSTANTS Ranges,       \* [points, interval] of the time ranges
          Retention,    \* tokenStatsRetentionDays
          MaxTime, MaxRecords,
          Torn

VARIABLES file,         \* the records on disk, or Torn
          writing,      \* what a running append is about to write, or <<>>
          now,
          log,          \* the finished requests
          lost          \* a write was cut off

vars == <<file, writing, now, log, lost>>

Init == file = <<>> /\ writing = <<>> /\ now = 0 /\ log = <<>> /\ lost = FALSE

Readable == IF file = Torn THEN <<>> ELSE file

Kept_Less(records) == Where(records, LAMBDA r : r > now - Retention)
Kept(records) == Where(records, LAMBDA r : r >= now - Retention)

(* WriteFile has cut the file off and not yet written *)
appendTokenRecord ==
  /\ writing = <<>> /\ Len(log) < MaxRecords
  /\ writing' = Kept(Append(Readable, now))
  /\ file' = Torn
  /\ log' = Append(log, now)
  /\ UNCHANGED <<now, lost>>

Written == /\ writing # <<>> /\ file' = writing /\ writing' = <<>>
           /\ UNCHANGED <<now, log, lost>>

Stop == /\ writing # <<>> /\ writing' = <<>> /\ lost' = TRUE
        /\ UNCHANGED <<file, now, log>>

Tick == /\ writing = <<>> /\ now < MaxTime /\ now' = now + 1
        /\ UNCHANGED <<file, writing, log, lost>>

Next == appendTokenRecord \/ Written \/ Stop \/ Tick

Spec == Init /\ [][Next]_vars

QueryTokenRecords(from, to) == Where(Readable, LAMBDA r : from <= r /\ r <= to)

(* The page: all records of the range, and how many fall into each of its points *)
GetTokenStats(range) ==
  LET start == now - range.points * range.interval
      records == QueryTokenRecords(start, now)
      Point(r) == (r - start) \div range.interval
  IN [total |-> Len(records),
      points |-> [i \in 0 .. range.points - 1 |->
                    Cardinality({k \in DOMAIN records : Point(records[k]) = i})]]

-------------------------------------------------------------------------------
(* While no write was cut off and none is under way, the page counts each     *)
(* request of its range once, in the totals and at the point of the time line *)
(* whose interval it finished in: what the retention drops is in no range.  A *)
(* request that finished in the millisecond of the query is in the totals     *)
(* only.                                                                      *)
EachCountedOnce ==
  writing = <<>> /\ ~lost =>
    \A range \in Ranges :
      LET stats == GetTokenStats(range)
          Start(i) == now - (range.points - i) * range.interval
      IN /\ stats.total = Cardinality({k \in DOMAIN log : log[k] >= Start(0)})
         /\ \A i \in 0 .. range.points - 1 :
              stats.points[i] = Cardinality({k \in DOMAIN log : log[k] \in Start(i) .. Start(i + 1) - 1})
===============================================================================
