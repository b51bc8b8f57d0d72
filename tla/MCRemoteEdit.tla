---------------------------- MODULE MCRemoteEdit ----------------------------
(* Small instances of RemoteEdit.                                              *)
EXTENDS RemoteEdit, TLC

CONSTANTS tab1, tab2, home, other

\* One plain file.
FilePaths == {"file"}
FileTargets == "file" :> {"file"}
=============================================================================
