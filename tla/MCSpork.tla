------------------------------- MODULE MCSpork ------------------------------
(* Instances of Spork: a signer s and followers a, b. *)
EXTENDS Spork, TLC

CONSTANTS s, a, b, i8, i15

Pair == {{a, b}}
SignerPair == {{s, a}}

One == <<i8>>
Two == <<i8, i15>>

Old(i, v, t) == [id |-> i, value |-> v, time |-> t, key |-> "old"]
New(i, v, t) == [id |-> i, value |-> v, time |-> t, key |-> "new"]

V == CHOOSE v \in Value : TRUE

\* Only the signer has a spork, of the old key.
DbSigner == [n \in Node |-> [i \in Id |-> IF n = s THEN Old(i, V, 0) ELSE NoMsg]]

\* The followers have a spork that the signer lost.
DbFollowers == [n \in Node |-> [i \in Id |-> IF n = s THEN NoMsg ELSE New(i, V, 0)]]

\* A node comes from the previous protocol version.
DbStale == [n \in Node |-> [i \in Id |-> New(i, V, IF i = i15 THEN 0 ELSE 1)]]

NoSkew == [n \in Node |-> 0]
SignerAhead == [n \in Node |-> IF n = s THEN 1 ELSE 0]
=============================================================================
