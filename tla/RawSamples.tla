------------------------------- MODULE RawSamples -------------------------------
(***************************************************************************)
(* internal/rawsample/rawsample.go, Persist: a sample's two files are      *)
(* written into a temporary directory, which then gets the sample's name.  *)
(* The admin pages run it at the same time, and the process may stop.      *)
(***************************************************************************)
EXTENDS Integers, Sequences, FiniteSets

CONSTANTS Pages,        \* the requests for a sample, all with the same sample id
          MaxPersists,
          None

VARIABLES dirs,         \* promoted directories: name -> [of, upstream, meta]
          temps,        \* temporary directories left on the disk
          pc, name,     \* of each page; name 1 is the id, 2 is id-2, ...
          dir,          \* the directory a page writes
          answered      \* what the pages were answered: [of, name]

vars == <<dirs, temps, pc, name, dir, answered>>

Empty == [of |-> None, upstream |-> FALSE, meta |-> FALSE]

Init == /\ dirs = <<>> /\ temps = 0 /\ answered = {}
        /\ pc = [p \in Pages |-> "idle"] /\ name = [p \in Pages |-> 0]
        /\ dir = [p \in Pages |-> Empty]

uniqueSampleID == CHOOSE n \in 1 .. Cardinality(DOMAIN dirs) + 1 :
                    n \notin DOMAIN dirs /\ \A i \in 1 .. n - 1 : i \in DOMAIN dirs

Goto(p, at) == pc' = [pc EXCEPT ![p] = at]

(* The name is looked for and a directory of its own is made *)
Choose(p) ==
  /\ pc[p] = "idle" /\ Cardinality(answered) + temps < MaxPersists
  /\ name' = [name EXCEPT ![p] = uniqueSampleID]
  /\ dir' = [dir EXCEPT ![p] = [Empty EXCEPT !.of = p]]
  /\ Goto(p, "upstream")
  /\ UNCHANGED <<dirs, temps, answered>>

WriteFile(p, file, at) ==
  /\ pc[p] = file /\ Goto(p, at)
  /\ dir' = [dir EXCEPT ![p][file] = TRUE]
  /\ UNCHANGED <<dirs, temps, name, answered>>

(* Rename fails when the name was taken since: the temporary directory is removed *)
Promote_Over(p) ==
  /\ pc[p] = "promote" /\ Goto(p, "idle")
  /\ dirs' = [n \in DOMAIN dirs \cup {name[p]} |-> IF n = name[p] THEN dir[p] ELSE dirs[n]]
  /\ answered' = answered \cup {[of |-> p, name |-> name[p]]}
  /\ UNCHANGED <<temps, name, dir>>
Promote(p) ==
  /\ pc[p] = "promote" /\ Goto(p, "idle")
  /\ IF name[p] \in DOMAIN dirs THEN UNCHANGED <<dirs, answered>>
     ELSE /\ dirs' = [n \in DOMAIN dirs \cup {name[p]} |-> IF n = name[p] THEN dir[p] ELSE dirs[n]]
          /\ answered' = answered \cup {[of |-> p, name |-> name[p]]}
  /\ UNCHANGED <<temps, name, dir>>

(* A write fails: cleanup *)
Fails(p) == /\ pc[p] \in {"upstream", "meta"} /\ Goto(p, "idle")
            /\ UNCHANGED <<dirs, temps, name, dir, answered>>

(* The process stops: temporary directories are left behind, for good *)
Stop == /\ \E p \in Pages : pc[p] # "idle"
        /\ temps' = temps + Cardinality({p \in Pages : pc[p] # "idle"})
        /\ pc' = [p \in Pages |-> "idle"]
        /\ UNCHANGED <<dirs, name, dir, answered>>

Next == \/ \E p \in Pages : \/ Choose(p) \/ Promote(p) \/ Fails(p)
                            \/ WriteFile(p, "upstream", "meta") \/ WriteFile(p, "meta", "promote")
        \/ Stop

Spec == Init /\ [][Next]_vars

-------------------------------------------------------------------------------
(* A page that is told its sample is saved under a name finds it there, its  *)
(* own and with both files, for good: neither another page that found the    *)
(* same name free nor a stop makes it less.                                  *)
AnsweredOnDisk ==
  \A a \in answered :
    a.name \in DOMAIN dirs /\ dirs[a.name] = [of |-> a.of, upstream |-> TRUE, meta |-> TRUE]
===============================================================================
