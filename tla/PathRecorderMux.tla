--------------------------- MODULE PathRecorderMux ---------------------------
(***************************************************************************)
(* The path recorder of modules/apiserver/mux/pathrecorder.go: a wrapper   *)
(* of http.ServeMux that remembers which paths to list and the stack of    *)
(* the caller that registered each path.                                   *)
(*                                                                         *)
(* The recorder has no lock.  A registration is modelled by its accesses   *)
(* to the recorder's fields, one step each, so that registrations of       *)
(* several goroutines interleave the way unsynchronised Go code does:      *)
(* trackCallers, mux.Handle, and the read and the write of                 *)
(* m.exposedPaths = append(m.exposedPaths, path).                          *)
(*                                                                         *)
(* A path is its rank in the order of sort.Strings.  A stack is the call   *)
(* site it was taken at.                                                   *)
(***************************************************************************)
EXTENDS Integers, Sequences, FiniteSets, SequencesExt, TLC

CONSTANTS
    Registrars,  \* the goroutines that register handlers
    Readers,     \* the goroutines that call ListedPaths
    Paths,       \* the paths, as ranks
    BadPaths,    \* the patterns http.ServeMux refuses: the empty pattern
    Sites,       \* call sites of Handle and UnlistedHandle
    MaxListed,   \* bound: length of exposedPaths
    NIL

ASSUME /\ Paths \subseteq Nat /\ BadPaths \subseteq Paths
       /\ MaxListed \in Nat

VARIABLES
    mux,           \* mux[p]: the handler the http.ServeMux has for pattern p,
                   \* as the call site that registered it, NIL for none
    exposedPaths,  \* m.exposedPaths
    pathStacks,    \* m.pathStacks, NIL for a path the map does not have
    pc,            \* pc[g]: where registrar g is in its call
    call,          \* call[g]: the call g is in: path, site, listed
    read,          \* read[g]: the m.exposedPaths that g's append was given
    reported,      \* the errors given to utilruntime.HandleError
    seen,          \* seen[r]: what ListedPaths returned to reader r last
    panicked       \* a registration panicked: the process is gone

vars == <<mux, exposedPaths, pathStacks, pc, call, read, reported, seen, panicked>>

Call == [path : Paths, site : Sites, listed : BOOLEAN]

TypeOK ==
    /\ mux \in [Paths -> Sites \cup {NIL}]
    /\ exposedPaths \in BoundedSeq(Paths, MaxListed)
    /\ pathStacks \in [Paths -> Sites \cup {NIL}]
    /\ pc \in [Registrars -> {"idle", "tracked", "handled", "appending"}]
    /\ call \in [Registrars -> Call \cup {NIL}]
    /\ read \in [Registrars -> BoundedSeq(Paths, MaxListed)]
    /\ reported \subseteq [path : Paths, stack : Sites]
    /\ seen \in [Readers -> BoundedSeq(Paths, MaxListed) \cup {NIL}]
    /\ panicked \in BOOLEAN

\* NewPathRecorderMux.
Init ==
    /\ mux = [p \in Paths |-> NIL]
    /\ exposedPaths = <<>>
    /\ pathStacks = [p \in Paths |-> NIL]
    /\ pc = [g \in Registrars |-> "idle"]
    /\ call = [g \in Registrars |-> NIL]
    /\ read = [g \in Registrars |-> <<>>]
    /\ reported = {}
    /\ seen = [r \in Readers |-> NIL]
    /\ panicked = FALSE

\* A ListedPaths that sorts the recorder's own slice.
SortedInPlace(paths) ==
    [result |-> SortSeq(paths, <), exposed |-> SortSeq(paths, <)]

\* ListedPaths: a copy of exposedPaths, sorted; the recorder's slice is
\* left as it is.
Sorted(paths) ==
    [result |-> SortSeq(paths, <), exposed |-> paths]

ListedPaths(r) ==
    /\ ~panicked
    /\ seen' = [seen EXCEPT ![r] = Sorted(exposedPaths).result]
    /\ exposedPaths' = Sorted(exposedPaths).exposed
    /\ UNCHANGED <<mux, pathStacks, pc, call, read, reported, panicked>>

\* The listed registrations that have not appended their path yet.
Appending == {g \in Registrars : pc[g] # "idle" /\ call[g].listed}

\* The caller's own stack, reported as the earlier one.
EarlierStackOfCaller(path, site) == site

\* existingStack, ok := m.pathStacks[path]
EarlierStack(path, site) == pathStacks[path]

\* The path stored under the stack.
RecordedSwapped(path, site) == (site :> path) @@ pathStacks

\* m.pathStacks[path] = string(debug.Stack())
Recorded(path, site) == [pathStacks EXCEPT ![path] = site]

\* A Handle that lists the path without handing it to the mux.
AfterTrackListOnly(c) == IF c.listed THEN "handled" ELSE "tracked"

\* After trackCallers comes m.mux.Handle.
AfterTrack(c) == "tracked"

\* trackCallers, the first thing Handle (listed) and UnlistedHandle do:
\* an earlier registration of the path is reported with its stack, and the
\* stack of this caller takes its place.
TrackCallers(g, path, site, listed) ==
    LET c == [path |-> path, site |-> site, listed |-> listed] IN
    /\ ~panicked
    /\ pc[g] = "idle"
    /\ listed => Len(exposedPaths) + Cardinality(Appending) < MaxListed
    /\ reported' = IF pathStacks[path] # NIL
                   THEN reported \cup {[path |-> path, stack |-> EarlierStack(path, site)]}
                   ELSE reported
    /\ pathStacks' = Recorded(path, site)
    /\ call' = [call EXCEPT ![g] = c]
    /\ pc' = [pc EXCEPT ![g] = AfterTrack(c)]
    /\ UNCHANGED <<mux, exposedPaths, read, seen, panicked>>

\* A Handle that returns after mux.Handle, as UnlistedHandle does.
AfterHandleUnlisted(c) == "idle"

\* Where a registration goes after mux.Handle: Handle goes on to append
\* the path, UnlistedHandle returns.
AfterHandle(c) == IF c.listed THEN "handled" ELSE "idle"

\* m.mux.Handle(path, handler): http.ServeMux panics on a pattern it has
\* and on the empty pattern, and registers any other.
MuxHandle(g) ==
    LET c == call[g] IN
    /\ ~panicked
    /\ pc[g] = "tracked"
    /\ IF mux[c.path] # NIL \/ c.path \in BadPaths
       THEN /\ panicked' = TRUE
            /\ UNCHANGED <<mux, pc>>
       ELSE /\ mux' = [mux EXCEPT ![c.path] = c.site]
            /\ pc' = [pc EXCEPT ![g] = AfterHandle(c)]
            /\ UNCHANGED panicked
    /\ UNCHANGED <<exposedPaths, pathStacks, call, read, reported, seen>>

\* append(m.exposedPaths, path) is given the slice as it is now ...
AppendRead(g) ==
    /\ ~panicked
    /\ pc[g] = "handled"
    /\ read' = [read EXCEPT ![g] = exposedPaths]
    /\ pc' = [pc EXCEPT ![g] = "appending"]
    /\ UNCHANGED <<mux, exposedPaths, pathStacks, call, reported, seen, panicked>>

\* An append that stores the path over the last one.
AppendedOverLast(paths, path) ==
    IF paths = <<>> THEN <<path>> ELSE [paths EXCEPT ![Len(paths)] = path]

\* append(paths, path)
Appended(paths, path) == Append(paths, path)

\* ... and its result is stored in m.exposedPaths; Handle returns.
AppendWrite(g) ==
    /\ ~panicked
    /\ pc[g] = "appending"
    /\ exposedPaths' = Appended(read[g], call[g].path)
    /\ read' = [read EXCEPT ![g] = <<>>]
    /\ pc' = [pc EXCEPT ![g] = "idle"]
    /\ UNCHANGED <<mux, pathStacks, call, reported, seen, panicked>>

\* Handle and HandleFunc start a listed registration, UnlistedHandle and
\* UnlistedHandleFunc an unlisted one.
Handle(g, path, site) == TrackCallers(g, path, site, TRUE)
UnlistedHandle(g, path, site) == TrackCallers(g, path, site, FALSE)

Next ==
    \/ \E g \in Registrars, path \in Paths, site \in Sites :
          Handle(g, path, site) \/ UnlistedHandle(g, path, site)
    \/ \E g \in Registrars : MuxHandle(g) \/ AppendRead(g) \/ AppendWrite(g)
    \/ \E r \in Readers : ListedPaths(r)

Spec == Init /\ [][Next]_vars

-----------------------------------------------------------------------------
(* Properties.                                                             *)

Listed == ToSet(exposedPaths)

\* A path is listed once and only when the mux serves it: mux.Handle runs
\* before the append in Handle, and panics on a path that is registered,
\* so neither a refused pattern nor a second registration is listed.
ListedPathsAreServedOnce ==
    /\ \A p \in Listed : mux[p] # NIL
    /\ Cardinality(Listed) = Len(exposedPaths)

\* ListedPaths never reorders what the recorder holds ("handledPaths :=
\* append([]string{}, m.exposedPaths...)" sorts a copy), and what it
\* returns is the listed paths in sorted order.
ListedPathsSortsACopy ==
    [][\A r \in Readers :
          ListedPaths(r) => /\ exposedPaths' = exposedPaths
                            /\ IsSorted(seen'[r], <)
                            /\ ToSet(seen'[r]) = Listed]_vars

\* The stack reported for a second registration of a path ("registered %q
\* from %v") is the stack of the registration whose handler the mux has:
\* trackCallers reports what pathStacks holds before it stores the stack
\* of the caller that is about to panic.
ReportedStackIsTheHolder ==
    \A e \in reported : mux[e.path] = e.stack

\* No registration is lost: every path whose Handle has returned is
\* listed ("ListedPaths returns the registered handler exposedPaths").
NoListedRegistrationIsLost ==
    \A g \in Registrars :
        pc[g] = "idle" /\ call[g] # NIL /\ ~panicked
        => (call[g].listed => call[g].path \in Listed)

-----------------------------------------------------------------------------
(* The recorder implements PathRegistry.                                   *)

\* The paths of the listed registrations between mux.Handle and the append.
Unreturned == {call[g].path : g \in {h \in Registrars : pc[h] \in {"handled", "appending"}}}

\* A listed registration takes effect when its path is appended; an
\* unlisted one when the mux has its handler.
Registry ==
    INSTANCE PathRegistry
    WITH served <- [p \in Paths |-> IF p \in Unreturned THEN NIL ELSE mux[p]],
         listed <- exposedPaths

\* Registrations of one goroutine are atomic: every step of Handle and of
\* UnlistedHandle (trackCallers, mux.Handle, the read and the write of the
\* append) and every ListedPaths either leaves the served and the listed
\* paths alone or is one whole registration or refusal of PathRegistry.
ImplementsPathRegistry == Registry!Spec
=============================================================================
