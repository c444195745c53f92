------------------------------ MODULE Selection ------------------------------
(* Sequences by parts: the elements of a sequence that belong to a set, the *)
(* images of its elements, and the pieces of a sequence of sequences put    *)
(* together.  The recursive ones are functions over the prefixes of the     *)
(* sequence, so that they can be reasoned about as well as evaluated.       *)
EXTENDS Naturals, Sequences

(* The elements of s in the set K, in order. *)
KeptUpto(s, K) ==
    LET kept[n \in 0..Len(s)] ==
            IF n = 0 THEN <<>>
            ELSE IF s[n] \in K THEN Append(kept[n - 1], s[n]) ELSE kept[n - 1]
    IN  kept

Keep(s, K) == KeptUpto(s, K)[Len(s)]

(* The image under the function f of every element of s. *)
Each(s, f) == [i \in 1..Len(s) |-> f[s[i]]]

(* All the pieces of a sequence of sequences, in order. *)
JoinedUpto(ss) ==
    LET upto[n \in 0..Len(ss)] == IF n = 0 THEN <<>> ELSE upto[n - 1] \o ss[n]
    IN  upto

Joined(ss) == JoinedUpto(ss)[Len(ss)]

=============================================================================
