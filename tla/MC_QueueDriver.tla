------------------------------ MODULE MC_QueueDriver ---------------------------
(* A book and a note, the book first, or the note alone, and a driver with a successor. *)
EXTENDS QueueDriver
CONSTANTS d1, d2, book, note
MCLists == {<<book, note>>, <<note>>}
================================================================================
