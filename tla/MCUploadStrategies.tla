-------------------------- MODULE MCUploadStrategies ---------------------------
(* Interchangeable permanent directories for checking UploadStrategies.    *)
EXTENDS UploadStrategies, TLC

DirSymmetry == Permutations(Dirs)
================================================================================
