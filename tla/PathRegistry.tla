---------------------------- MODULE PathRegistry ----------------------------
(***************************************************************************)
(* What the path recorder of modules/apiserver/mux/pathrecorder.go         *)
(* promises its callers, with a registration as one step: a path gets its  *)
(* handler and, unless it is registered unlisted, its place at the end of  *)
(* the list, or the registration is refused and the process panics.        *)
(* Nothing else changes which paths are served and which are listed.       *)
(***************************************************************************)
EXTENDS Integers, Sequences

CONSTANTS
    Paths,     \* the paths
    BadPaths,  \* the patterns http.ServeMux refuses
    Sites,     \* who registers: the call sites of Handle and UnlistedHandle
    NIL

VARIABLES
    served,    \* served[p]: who registered the handler of path p, NIL for none
    listed,    \* the paths to show at /, in the order they were registered
    panicked   \* a registration was refused

vars == <<served, listed, panicked>>

Init ==
    /\ served = [p \in Paths |-> NIL]
    /\ listed = <<>>
    /\ panicked = FALSE

Refused(path) == path \in BadPaths \/ served[path] # NIL

\* Handle and HandleFunc (show) and UnlistedHandle and UnlistedHandleFunc
\* (~show) of a path that can be registered.
Register(path, site, show) ==
    /\ ~panicked /\ ~Refused(path)
    /\ served' = [served EXCEPT ![path] = site]
    /\ listed' = IF show THEN Append(listed, path) ELSE listed
    /\ UNCHANGED panicked

\* "If a handler already exists for pattern, Handle panics": the handlers
\* and the list stay as they are.
Refuse(path) ==
    /\ ~panicked /\ Refused(path)
    /\ panicked' = TRUE
    /\ UNCHANGED <<served, listed>>

Next ==
    \E path \in Paths :
        \/ \E site \in Sites, show \in BOOLEAN : Register(path, site, show)
        \/ Refuse(path)

Spec == Init /\ [][Next]_vars
=============================================================================
