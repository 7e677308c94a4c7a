-------------------------- MODULE MC_VirtualFiles --------------------------
(* Small instances of VirtualFiles for TLC.  Uploaders are alike, and so   *)
(* are the bodies of objects.                                              *)
EXTENDS VirtualFiles, TLC

UploadSymmetry == Permutations(Uploaders) \cup Permutations(Bodies)
=============================================================================
