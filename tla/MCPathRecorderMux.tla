-------------------------- MODULE MCPathRecorderMux --------------------------
(***************************************************************************)
(* PathRecorderMux for TLC: three paths, one of them the empty pattern,    *)
(* two call sites, and one or two registering goroutines beside a reader.  *)
(***************************************************************************)
EXTENDS PathRecorderMux

CONSTANTS g1, g2, r1, s1, s2

MCPaths == {0, 1, 2}
MCBadPaths == {0}
OneRegistrar == {g1}
TwoRegistrars == {g1, g2}
MCReaders == {r1}
MCSites == {s1, s2}
=============================================================================
