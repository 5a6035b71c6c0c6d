-------------------------------- MODULE MCStores --------------------------------
(***************************************************************************)
(* The stores on small instances: conversations that differ in what a      *)
(* fingerprint keeps and in what it leaves out, two owners, two requests.  *)
(***************************************************************************)
EXTENDS Stores

CONSTANTS r1, r2

User(value)  == [role |-> "user", content |-> <<[type |-> "text", value |-> value]>>]
System       == [role |-> "system", content |-> <<[type |-> "text", value |-> 1]>>]
Picture(v)   == [role |-> "user", content |-> <<[type |-> "image_url", value |-> v]>>]
Answer(with) == [role |-> "assistant",
                 content |-> with \o <<[type |-> "text", value |-> 3]>>]
Thought      == <<[type |-> "thinking", value |-> 4]>>

MCConversations ==
  {<<User(1)>>, <<System, User(1)>>, <<Picture(1)>>, <<Picture(2)>>,
   <<User(1), Answer(<<>>), User(2)>>, <<User(1), Answer(Thought), User(2)>>}

MCOwners == {"", "a", "b"}
MCTTLs   == {0, 1, 3}
MCRanges == {[points |-> 2, interval |-> 2], [points |-> 2, interval |-> 1]}
===============================================================================
