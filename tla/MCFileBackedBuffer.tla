------------------------- MODULE MCFileBackedBuffer -------------------------
(* Small instances of FileBackedBuffer, BufferIteration and TornOperations. *)
EXTENDS TornOperations

\* A word of text, outside any file of the instances.
Text == 99
TextOrZero == {0, Text}
=============================================================================
