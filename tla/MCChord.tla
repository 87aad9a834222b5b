------------------------------- MODULE MCChord -------------------------------
(* Four nodes, each joining through the one before it in the order 1, 3, 2, 4. *)
EXTENDS Chord

Chain == {<<3, 1>>, <<2, 3>>, <<4, 2>>}

=============================================================================
