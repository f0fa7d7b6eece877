----------------------------- MODULE MCUpdater -----------------------------
(* Two installers on one installation.  Everything is given in the configs;*)
(* five inodes are all that can exist at a time: the program as it runs,   *)
(* its backup, its successor and a half-written download of each.          *)
EXTENDS Updater
=============================================================================
