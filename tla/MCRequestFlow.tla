--------------------------- MODULE MCRequestFlow ---------------------------
(* Instances of RequestFlow for TLC. *)
EXTENDS RequestFlow, TLC

CONSTANTS a1, a2, c1, c2, c3

Plain == [id |-> FALSE, image |-> None, payload |-> None, file |-> FALSE, nested |-> None]

Image(x) == [Plain EXCEPT !.image = x]
File(x)  == [Plain EXCEPT !.payload = x, !.file = TRUE]

(* The same picture twice, bare and as a nested file *)
TwoParts == <<Image("x"), [Plain EXCEPT !.nested = File("x")]>>

MCBodies == c1 :> {TwoParts} @@ c2 :> {<<>>} @@ c3 :> {<<>>}

MCApis == c1 :> {"chat", "files"} @@ c2 :> {"prepare"} @@ c3 :> {"giveback"}


AccountSymmetry == Permutations(Accounts)
============================================================================
