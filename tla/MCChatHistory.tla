--------------------------- MODULE MCChatHistory ---------------------------
(* Small instances of ChatHistory *)
EXTENDS ChatHistory, TLC

SmallLimits == {0, 1, 2}

Interchangeable == Permutations(Ids) \cup Permutations(Sessions)
=============================================================================
