------------------------------- MODULE MCUhfs -------------------------------
(* Small sets of paths for the file system: a directory "a" with a         *)
(* directory "b" and files "c" and "d", one of which may become "e": they  *)
(* take two blocks of entries and more blocks than the disk has.           *)
EXTENDS Uhfs

MCDirNewPaths == {<<"a">>, <<"a", "b">>}
MCFileNewPaths == {<<"a">>, <<"a", "c">>, <<"a", "d">>}
MCDirPaths == {<<".">>, <<"a", ".">>, <<"a", "b", ".">>}
MCOpenPaths == {<<"a", ".">>}
MCFilePaths == {<<"a", "c">>, <<"a", "d">>}
MCRenames == {<<<<"a", "d">>, "c">>, <<<<"a", "d">>, "e">>}
MCModes == {{}}

(* A directory "c" whose first block is in the second region. *)
MCRegionDirs == {<<"a">>, <<"a", "c">>}
MCRegionFiles == {<<"a", "b">>, <<"a", "c", "b">>, <<"a", "c", "c">>, <<"a", "c", "d">>}
=============================================================================
