------------------------ MODULE MCTransferScheduler ------------------------
(* Instances of TransferScheduler for TLC: the files and the settings.     *)
EXTENDS TransferScheduler

CONSTANTS u, d

\* One file of two chunks, or an upload and a download of one chunk each.
OneUpload    == {u}
TwoItems     == {u, d}
TwoChunks    == [i \in Item |-> 2]
SingleChunks == [i \in Item |-> 1]

\* Settings: fixed; both limits lowered below what may be in use; the channel
\* limit lowered to a single stream.
OneTry    == {[conn |-> 2, tries |-> 1]}
Tightened == {[conn |-> 2, tries |-> 2], [conn |-> 1, tries |-> 1]}
OneStream == {[conn |-> 2, tries |-> 1], [conn |-> 1, tries |-> 1]}
=============================================================================
