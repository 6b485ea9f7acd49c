--------------------------- MODULE MCFileTransfer ---------------------------
(* Small instances of FileTransfer for TLC. *)
EXTENDS FileTransfer, TLC

\* One rule for the last block, and two for another that ask for more drops
\* than there are copies, as in a param.dat with a repeated line.
MCRules == <<[seq |-> 1, count |-> 2], [seq |-> 2, count |-> 1],
             [seq |-> 1, count |-> 2]>>
=============================================================================
