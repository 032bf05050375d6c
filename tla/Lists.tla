------------------------------- MODULE Lists --------------------------------
(* Filters of lists, as the code writes them with retain and filter. *)
EXTENDS Integers, Sequences, SequencesExt

\* The list  l  with the element  e  at its end, if it is one of  T.
AddIf(l, e, T) == IF e \in T THEN Append(l, e) ELSE l

\* The elements of  s  that are in  T,  in their order.
Keep(s, T) == FoldLeft(LAMBDA l, e : AddIf(l, e, T), <<>>, s)
=============================================================================
