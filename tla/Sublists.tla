------------------------------ MODULE Sublists ------------------------------
(***************************************************************************)
(* VecDeque::retain, without recursion, so that it can be reasoned about.  *)
(***************************************************************************)
EXTENDS Integers, Sequences, FiniteSets

(* s without the elements of gone, in the order of s: the n-th element is the one at
   the n-th place that stays. *)
Dropping(s, gone) ==
  LET kept == {i \in DOMAIN s : s[i] \notin gone}
      place(n) == CHOOSE i \in kept : Cardinality({k \in kept : k <= i}) = n
  IN [n \in 1..Cardinality(kept) |-> s[place(n)]]
=============================================================================
