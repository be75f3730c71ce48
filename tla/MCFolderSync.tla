---------------------------- MODULE MCFolderSync ----------------------------
(* Small instances of FolderSync: which faults a run allows.                *)
EXTENDS FolderSync

NoFaults == {}
AllButStatus == {"partial", "changedsince", "zombie", "abort", "crash"}
ZombieOnly == {"zombie"}

Everything == WantKinds
ReadAndDelete == {"read", "delete"}
=============================================================================
