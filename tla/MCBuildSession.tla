---------------------------- MODULE MCBuildSession ----------------------------
(***************************************************************************)
(* Two tasks through the build session.                                    *)
(***************************************************************************)
EXTENDS BuildSession

CONSTANTS t1, t2
===============================================================================
