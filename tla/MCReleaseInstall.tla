--------------------------- MODULE MCReleaseInstall ---------------------------
(***************************************************************************)
(* Small instances of ReleaseInstall: two packages so that there is a      *)
(* release to go back to, a third where the order of three installations   *)
(* matters.                                                                *)
(***************************************************************************)
EXTENDS ReleaseInstallInv

CONSTANTS i1, i2, pkgA, pkgB, pkgC, url1, url2, tok1
===============================================================================
