------------------------------ MODULE FreeList ------------------------------
(***************************************************************************)
(* What the ring of data chunks promises the pipeline: a list of free      *)
(* chunks, each taken from the front and given back at the end in one      *)
(* step, never a chunk that is already there.                              *)
(***************************************************************************)
EXTENDS Naturals, Sequences, Functions

CONSTANT Chunks

VARIABLE free

Init ==
  /\ free \in [1..Len(free) -> Chunks]
  /\ IsInjective(free)
  /\ Range(free) = Chunks

Take == free # <<>> /\ free' = Tail(free)

Give(c) == c \notin Range(free) /\ free' = Append(free, c)

Next == Take \/ \E c \in Chunks : Give(c)

Spec == Init /\ [][Next]_free
=============================================================================
