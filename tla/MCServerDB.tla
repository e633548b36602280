----------------------------- MODULE MCServerDB -----------------------------
(***************************************************************************)
(* ServerDB for TLC: two names, up to three databases in a Config, so that *)
(* a name can be configured twice beside another one and an Open can fail  *)
(* after two have succeeded, and two goroutines that call GetDB and Close. *)
(***************************************************************************)
EXTENDS ServerDB

CONSTANTS g1, g2

MCNames == {"__default__", "aux"}
MCGoroutines == {g1, g2}

Plain == [f \in Fields |-> 0]

\* For each name an entry NewDB opens and one without a dsn; one entry
\* without a driver; one with a lifetime and an idle time for its
\* connections.
MCEntries ==
    [name : MCNames, dsn : BOOLEAN, driver : {TRUE}, set : {Plain}]
    \cup { [name |-> "aux", dsn |-> TRUE, driver |-> FALSE, set |-> Plain],
           [name |-> "aux", dsn |-> TRUE, driver |-> TRUE,
            set |-> [Plain EXCEPT !["ConnMaxLifetime"] = 1, !["MaxRows"] = 3]] }

\* The entries with every combination of the two durations.
MCTimedEntries ==
    { [name |-> "__default__", dsn |-> TRUE, driver |-> TRUE,
       set |-> [Plain EXCEPT !["ConnMaxLifetime"] = life, !["ConnMaxIdletime"] = idle]] :
      life \in {0, 1}, idle \in {0, 2} }

Symmetry == Permutations(MCGoroutines)
=============================================================================
