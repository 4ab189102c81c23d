------------------------------ MODULE Orderings ------------------------------
(***************************************************************************)
(* What sort.Slice and loops over a slice make of their input.  An order   *)
(* is the set of pairs whose first comes before their second.              *)
(***************************************************************************)
EXTENDS Integers, Sequences, FiniteSets, Functions

IsList(s) == s \in Seq(Range(s))

IsOrder(R, S) ==
    /\ \A x \in S : <<x, x>> \notin R
    /\ \A x, y, z \in S : <<x, y>> \in R /\ <<y, z>> \in R => <<x, z>> \in R
    /\ \A x, y \in S : x # y => <<x, y>> \in R \/ <<y, x>> \in R

(* A sequence of the n elements of S in which each has its place.          *)
Lists(s, n, S, R) ==
    /\ s \in [1..n -> S] /\ \A x \in S : \E i \in 1..n : s[i] = x
    /\ \A i, j \in 1..n : i < j => <<s[i], s[j]>> \in R

(* The elements of S one after the other: the one at n comes after n - 1.  *)
InOrder(S, R) ==
    [n \in 1..Cardinality(S) |-> CHOOSE x \in S : Cardinality({y \in S : <<y, x>> \in R}) = n - 1]

(* What a sequence has at the indices I, in its own order.                 *)
Upwards(I) == {p \in I \X I : p[1] < p[2]}
Picked(s, I) == [n \in 1..Cardinality(I) |-> s[InOrder(I, Upwards(I))[n]]]

(* The first of each key, the key of s[i] being key[i].                    *)
Firsts(key) == {i \in DOMAIN key : \A j \in DOMAIN key : j < i => key[j] # key[i]}

ThoseWith(s, keep) == Picked(s, {i \in DOMAIN s : keep[i]})
FirstOfEach(s, key) == Picked(s, Firsts(key))

(* s[:n], when s is that long.                                             *)
Cap(s, n) == [i \in {k \in DOMAIN s : k <= n} |-> s[i]]

(* Periods [from, to] by the time they begin.                              *)
Sooner(P) ==
    {p \in P \X P : p[1].from < p[2].from \/ (p[1].from = p[2].from /\ p[1].to < p[2].to)}

(* How long the periods P last, those that meet merged into one.  The loop *)
(* is written three times, over dates that are not in their period (c = 0) *)
(* and over months that are (c = 1).                                       *)
Merged(P, c) ==
    LET n == Cardinality(P)
        s == InOrder(P, Sooner(P))
        at[k \in 1..n] ==
            IF k = 1 THEN [total |-> 0, from |-> s[1].from, to |-> s[1].to]
            ELSE IF s[k].from > at[k - 1].to + c
            THEN [total |-> at[k - 1].total + at[k - 1].to - at[k - 1].from + c,
                  from |-> s[k].from, to |-> s[k].to]
            ELSE IF s[k].to > at[k - 1].to THEN [at[k - 1] EXCEPT !.to = s[k].to]
            ELSE at[k - 1]
    IN  IF n = 0 THEN 0 ELSE at[n].total + at[n].to - at[n].from + c
=============================================================================
