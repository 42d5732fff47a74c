----------------------------- MODULE HandleTable -----------------------------
(***************************************************************************)
(* What LiteBridge promises to the holders of context handles, without the  *)
(* mechanism: a handle is issued for one package and stands for it for      *)
(* life; at most MaxEntries handles can be used at any time; and a handle   *)
(* that was forgotten is never found again.                                 *)
(***************************************************************************)
EXTENDS Naturals, Sequences, FiniteSets

CONSTANT MaxEntries

VARIABLES
  bound,   \* handle -> the package it was issued for
  usable   \* the handles that can be used, and the package each of them gives

vars == <<bound, usable>>

Init == bound = <<>> /\ usable = <<>>

\* Of the handles `known' some can be used, and each gives what it was issued for.
Keeps(known, packages) ==
  \E live \in SUBSET known :
    /\ Cardinality(live) <= MaxEntries
    /\ usable' = [h \in live |-> packages[h]]

\* Some package gets the next handle; handles may have to be forgotten for it.
Issue ==
  /\ Len(bound') = Len(bound) + 1
  /\ bound' = Append(bound, bound'[Len(bound) + 1])
  /\ Keeps(DOMAIN usable \cup {Len(bound) + 1}, bound')

\* Handles are forgotten: they are too old, or the store that knew them is gone.
Forget ==
  /\ UNCHANGED bound
  /\ Keeps(DOMAIN usable, bound)

Next == Issue \/ Forget

Spec == Init /\ [][Next]_vars
=============================================================================
