-------------------------------- MODULE Ring --------------------------------
(***************************************************************************)
(* The view of a circular array as a sequence, for the refinement mappings *)
(* of the bounded buffers of exercises/02 and 03.                          *)
(***************************************************************************)
EXTENDS Integers, Sequences

\* The count elements of an array of size slots from position first on;
\* positions grow without bound, slots are positions modulo size.
Window(array, size, first, count) ==
    [i \in 1 .. count |-> array[(first + i - 1) % size]]
=============================================================================
