--------------------------- MODULE MCFileTransfer ---------------------------
(* Instances of FileTransfer for TLC.                                      *)
EXTENDS FileTransfer

\* Blocks that fit in one write, that do not, and a firmware block that does not.
SomeBuffers ==
  {[block |-> 2, max |-> 3], [block |-> 3, max |-> 2], [block |-> 2, max |-> 1]}

=============================================================================
