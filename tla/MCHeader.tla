------------------------------ MODULE MCHeader ------------------------------
(* An instance of MessageHeader for TLC: a type field of three bytes.       *)
EXTENDS MessageHeader

CONSTANTS a, b

MCTypes == {<<>>, <<a>>, <<b, a>>, <<a, NUL>>, <<a, b, a>>}
MCLengths == {0, 16909060}     \* all four bytes differ
MCVersions == {1, 515}

\* Zeroes; a type without an end, behind other numbers.
MCGarbage ==
  {[length |-> <<0, 0, 0, 0>>, version |-> <<0, 1>>, type |-> <<NUL, NUL, NUL>>],
   [length |-> <<1, 2, 3, 4>>, version |-> <<2, 3>>, type |-> <<a, b, a>>]}
=============================================================================
