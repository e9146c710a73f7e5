---------------------------- MODULE MCOperation ----------------------------
(***************************************************************************)
(* Instances of TeecOperation for TLC, in a world of 4-bit sizes: UINT32_MAX *)
(* is 15, a header takes 2 bytes and an operation at most 12.              *)
(***************************************************************************)
EXTENDS TeecOperation

CONSTANT WholeOffsets   \* what TEEC_MEMREF_WHOLE references have in their offset field

TempParams ==
  {[NoParam EXCEPT !.type = t, !.size = n] : t \in {"temp_input", "temp_output"}, n \in {0, 3}}
    \cup {[NoParam EXCEPT !.type = "temp_inout", !.size = n] : n \in {5, Max}}

\* In range up to the last byte, one byte too far, and far enough for the sum to wrap around.
PartialParams ==
  {[type |-> t, size |-> n, off |-> o, psize |-> 3, flags |-> {"in", "out"}, mem |-> "registered"] :
     t \in {"partial_input", "partial_output"}, n \in {2}, o \in {1, 2, Max}}
    \cup {[type |-> "partial_inout", size |-> 2, off |-> 0, psize |-> 3, flags |-> {"in", "out"}, mem |-> m] :
            m \in {"allocated", "released"}}

WholeParams ==
  {[type |-> "whole", size |-> 0, off |-> o, psize |-> n, flags |-> f, mem |-> "registered"] :
     o \in WholeOffsets, n \in {0, 3}, f \in {{"in"}, {"out"}}}

MCParams == {NoParam} \cup TempParams \cup PartialParams \cup WholeParams
=============================================================================
