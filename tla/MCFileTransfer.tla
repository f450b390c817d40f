--------------------------- MODULE MCFileTransfer ---------------------------
(***************************************************************************)
(* Model checking of FileTransfer: three requests, so that one can wait,   *)
(* one find it busy and one come later, over two connections; a file of    *)
(* each kind of size; frames that end on either side of each of parse()'s  *)
(* bounds.                                                                 *)
(***************************************************************************)
EXTENDS FileTransfer

FileSizes == {0, 1, MAX_SIZE + 1}

SomeFrames ==
    {[length |-> l, high |-> 0, low |-> 1, isFile |-> TRUE] : l \in {1, 2, 3, MAX_SIZE + 3, MAX_SIZE + 4}}
        \cup {[length |-> 257, high |-> 1, low |-> 0, isFile |-> FALSE]}
=============================================================================
