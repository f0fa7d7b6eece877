--------------------------- MODULE MCInstallation ---------------------------
(* An update dialog and a command line, a setup and a removal in one       *)
(* folder.  Five inodes are all that can exist at a time: the program, its *)
(* backup, its successor and a file each installer still has open.         *)
EXTENDS Installation, TLC

(* Nothing tells one installer from another.                               *)
MCSymmetry == Permutations(Installers)
=============================================================================
