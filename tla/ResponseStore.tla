----------------------------- MODULE ResponseStore -----------------------------
(***************************************************************************)
(* internal/httpapi/openai/responses/response_store.go: finished responses *)
(* are kept in memory for GET /v1/responses/{id}, by owner, for a time.    *)
(* The store is made by the first request that needs it.                   *)
(***************************************************************************)
EXTENDS Integers, Sequences, FiniteSets

CONSTANTS Owners,      \* callers; "" is a request without one
          TTLs,        \* responses.store_ttl_seconds; 0 is not set
          Default,     \* 900 seconds
          MaxTime, MaxResponses

VARIABLES ttl,         \* of the store; 0: not made yet
          setting,     \* what the configuration says now
          items,       \* [owner, id] -> [owner, expires]
          now,
          log          \* the finished responses: owner, time and the setting then

vars == <<ttl, setting, items, now, log>>

Init == ttl = 0 /\ setting \in TTLs /\ items = <<>> /\ now = 0 /\ log = <<>>

ResponsesStoreTTLSeconds == IF setting > 0 THEN setting ELSE Default

getResponseStore == IF ttl = 0 THEN ResponsesStoreTTLSeconds ELSE ttl

responseStoreKey(owner, id) == <<owner, id>>

sweep_Boundary == [k \in {k \in DOMAIN items : now < items[k].expires} |-> items[k]]
sweep == [k \in {k \in DOMAIN items : now <= items[k].expires} |-> items[k]]

(* A response is finished; its id is new *)
put(owner) ==
  /\ owner # "" /\ Len(log) < MaxResponses
  /\ LET key == responseStoreKey(owner, Len(log) + 1)
     IN items' = [k \in DOMAIN sweep \cup {key} |->
                    IF k = key THEN [owner |-> owner, expires |-> now + getResponseStore]
                    ELSE sweep[k]]
  /\ ttl' = getResponseStore
  /\ log' = Append(log, [owner |-> owner, time |-> now, asked |-> ResponsesStoreTTLSeconds])
  /\ UNCHANGED <<setting, now>>

(* What get answers *)
Found(owner, id) ==
  LET key == responseStoreKey(owner, id)
  IN owner # "" /\ key \in DOMAIN sweep /\ sweep[key].owner = owner

get == items' = sweep /\ ttl' = getResponseStore /\ UNCHANGED <<setting, now, log>>

Configure(t) == setting' = t /\ UNCHANGED <<ttl, items, now, log>>

Tick == now < MaxTime /\ now' = now + 1 /\ UNCHANGED <<ttl, setting, items, log>>

Next == \/ \E owner \in Owners : put(owner)
        \/ get \/ Tick \/ \E t \in TTLs : Configure(t)

Spec == Init /\ [][Next]_vars

-------------------------------------------------------------------------------
(* A finished response is found by its owner until its time is over, however  *)
(* many sweeps come between and whatever becomes of the setting, and by nobody *)
(* else, at no time.                                                           *)
FoundByItsOwner ==
  \A id \in DOMAIN log, owner \in Owners :
    Found(owner, id) <=> owner = log[id].owner /\ now <= log[id].time + ttl

(* PUT /admin/settings hot-updates responses.store_ttl_seconds, says           *)
(* API.en.md:726: the store keeps the time it was made with (no run: it does   *)
(* not hold).                                                                  *)
SettingTakesEffect ==
  \A id \in DOMAIN log : Found(log[id].owner, id) <=> now <= log[id].time + log[id].asked
===============================================================================
