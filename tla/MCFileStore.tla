---------------------------- MODULE MCFileStore ----------------------------
(***************************************************************************)
(* Bounds for FileStore: one path, since paths and their backups do not    *)
(* meet; a server and a command line that contend for it, one outside      *)
(* change and one death; two contents tell "unchanged" from "changed".     *)
(***************************************************************************)
EXTENDS FileStore

=============================================================================
