------------------------ MODULE MCFileSystemWatcher ------------------------
(***************************************************************************)
(* FileSystemWatcher for TLC: the names of files that the code page can    *)
(* express are interchangeable.                                            *)
(***************************************************************************)
EXTENDS FileSystemWatcher, TLC

Symmetry == Permutations(Names \ Foreign)
=============================================================================
