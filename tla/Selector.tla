------------------------------ MODULE Selector ------------------------------
(***************************************************************************)
(* Label selectors of staging/labels/selector.go.                          *)
(*                                                                         *)
(* A selector is a Go slice of Requirement structs, and a Requirement      *)
(* holds a slice of arguments.  A slice is a pointer into a backing array  *)
(* and a length, so two selectors, or a selector and a slice its caller    *)
(* kept, can name the same array: a write through one is seen through the  *)
(* other.  The module models the two kinds of backing array as two heaps   *)
(* of cells and every operation of the package by the cells it allocates,  *)
(* copies and shares.  Callers are the Owners: goroutines that build       *)
(* selectors, hand deep copies to one another and write through the slices *)
(* they kept.                                                              *)
(*                                                                         *)
(* A string is the sequence of its tokens: a query, an argument, or the    *)
(* "," that strings.Join puts between two requirements.                    *)
(***************************************************************************)
EXTENDS Integers, Sequences, FiniteSets, SequencesExt, TLC

CONSTANTS
    Owners,    \* the goroutines that hold selectors
    Slots,     \* the selector variables of the program
    OwnerOf,   \* OwnerOf[x]: the goroutine that variable x belongs to
    Keys,      \* label keys, as their rank in lexical order
    Values,    \* label values and query arguments
    ArgLists,  \* the args slices a caller passes to NewRequirement
    ReqCells,  \* bound: addresses of backing arrays of []Requirement
    ArgCells,  \* bound: addresses of backing arrays of []interface{}
    MaxLen,    \* bound: requirements of one selector
    ZeroBase,  \* where every zero-length, non-nil slice points
    NIL        \* the nil slice, and the unset requirement variable

ASSUME /\ Keys \subseteq Nat
       /\ OwnerOf \in [Slots -> Owners]
       /\ ArgLists \subseteq {NIL} \cup BoundedSeq(Values, 1)
       /\ MaxLen \in Nat \ {0}
       /\ {ZeroBase, NIL} \cap (ReqCells \cup ArgCells) = {}

VARIABLES
    reqHeap,  \* reqHeap[c]: the backing array of []Requirement at cell c
    argHeap,  \* argHeap[a]: the backing array of []interface{} at cell a
    sel,      \* sel[x]: the Selector in variable x
    req       \* req[o]: the Requirement owner o built last, with the args
              \* slice it passed to NewRequirement and still holds

vars == <<reqHeap, argHeap, sel, req>>

\* label + "=?", the query SelectorFromValidatedSet writes for a label.
EqualsQuery(label) == <<label, "=?">>
Queries == {EqualsQuery(k) : k \in Keys}

Requirement == [query : Queries, args : ArgCells \cup {ZeroBase, NIL}]

NothingSel    == [kind |-> "nothing",  arr |-> NIL,      len |-> 0]
NilSel        == [kind |-> "internal", arr |-> NIL,      len |-> 0]
EverythingSel == [kind |-> "internal", arr |-> ZeroBase, len |-> 0]
Slice(c, n)   == [kind |-> "internal", arr |-> c,        len |-> n]

SelectorValue ==
    {NothingSel, NilSel, EverythingSel} \cup
    [kind : {"internal"}, arr : ReqCells, len : 1..MaxLen]

\* The label sets (type Set, a map) a caller can pass to SelectorFromSet.
LabelSets == UNION {[ks -> Values] : ks \in SUBSET Keys}

TypeOK ==
    /\ reqHeap \in [ReqCells -> BoundedSeq(Requirement, MaxLen)]
    /\ argHeap \in [ArgCells -> BoundedSeq(Values, 1)]
    /\ sel \in [Slots -> SelectorValue]
    /\ req \in [Owners -> Requirement \cup {NIL}]

-----------------------------------------------------------------------------
(* Reading a selector.  The heaps are parameters so that a property can    *)
(* read a selector in the state after a step as well as before it.         *)

\* s[0:len(s)], the requirements a slice denotes.
Elems(rh, s) == IF s.len = 0 THEN <<>> ELSE SubSeq(rh[s.arr], 1, s.len)

\* []interface{} behind a requirement.
Args(ah, r) == IF r.args \in ArgCells THEN ah[r.args] ELSE <<>>

\* (*Requirement).String: the query, then fmt.Fprint of the arguments.
RequirementString(ah, r) == <<r.query>> \o Args(ah, r)

\* strings.Join(reqs, ",").
Join(strs) ==
    IF strs = <<>> THEN <<>>
    ELSE FoldLeft(LAMBDA acc, str : acc \o <<",">> \o str, Head(strs), Tail(strs))

\* Selector.String, of nothingSelector ("") and of internalSelector.
String(rh, ah, s) ==
    IF s.kind = "nothing" THEN <<>>
    ELSE Join([i \in 1..s.len |-> RequirementString(ah, Elems(rh, s)[i])])

\* Selector.Empty.
Empty(s) == s.kind = "internal" /\ (s.arr = NIL \/ s.len = 0)

\* Selector.Requirements: the selector's own backing array, and selectable.
Requirements(s) == [requirements |-> s, selectable |-> s.kind # "nothing"]

StringAt(x) == String(reqHeap, argHeap, sel[x])

-----------------------------------------------------------------------------
(* Allocation.  A cell is live while a selector variable, a requirement    *)
(* variable or a live array points to it; the Go collector reclaims the    *)
(* others, and the model empties them so that equal heaps are equal states.*)

LiveReqCells(s) == {s[x].arr : x \in Slots} \cap ReqCells

LiveArgCells(s, r, rh) ==
    ( {r[o].args : o \in {p \in Owners : r[p] # NIL}}
      \cup UNION {{rh[c][i].args : i \in DOMAIN rh[c]} : c \in LiveReqCells(s)} )
    \cap ArgCells

FreeReqCells == ReqCells \ LiveReqCells(sel)
FreeArgCells == ArgCells \ LiveArgCells(sel, req, reqHeap)

\* n free cells.  Free cells are interchangeable, so which ones the
\* allocator picks makes no difference to anything the model observes.
Fresh(free, n) == CHOOSE cells \in [1..n -> free] : IsInjective(cells)

\* Make s, r, rh, ah the next state, less the cells nobody points to.
Commit(s, r, rh, ah) ==
    /\ sel' = s
    /\ req' = r
    /\ reqHeap' = [c \in ReqCells |->
                     IF c \in LiveReqCells(s) THEN rh[c] ELSE <<>>]
    /\ argHeap' = [a \in ArgCells |->
                     IF a \in LiveArgCells(s, r, rh) THEN ah[a] ELSE <<>>]

Assign(x, s) == [sel EXCEPT ![x] = s]

-----------------------------------------------------------------------------
Init ==
    /\ reqHeap = [c \in ReqCells |-> <<>>]
    /\ argHeap = [a \in ArgCells |-> <<>>]
    /\ sel = [x \in Slots |-> NilSel]
    /\ req = [o \in Owners |-> NIL]

\* x = labels.Everything()
Everything(x) == Commit(Assign(x, EverythingSel), req, reqHeap, argHeap)

\* x = labels.Nothing()
Nothing(x) == Commit(Assign(x, NothingSel), req, reqHeap, argHeap)

\* x = labels.NewSelector()
NewSelector(x) == Commit(Assign(x, NilSel), req, reqHeap, argHeap)

\* args := []interface{}{...}; r = labels.NewRequirement(q, args).  The
\* requirement keeps the caller's slice: no copy is made.
NewRequirement(o, q, args) ==
    LET a == IF args = NIL THEN NIL
             ELSE IF args = <<>> THEN ZeroBase
             ELSE Fresh(FreeArgCells, 1)[1]
    IN /\ args \notin {NIL, <<>>} => FreeArgCells # {}
       /\ Commit(sel, [req EXCEPT ![o] = [query |-> q, args |-> a]], reqHeap,
                 IF a \in ArgCells THEN [argHeap EXCEPT ![a] = args] ELSE argHeap)

\* What a buggy Add does that appends to the receiver: with spare capacity
\* append writes behind the receiver's length, into the array an earlier
\* result of Add already uses.
InternalAddInPlace(s, reqs, c) ==
    LET ret == Elems(reqHeap, s) \o reqs
    IN IF s.arr \in ReqCells
       THEN [out  |-> Slice(s.arr, Len(ret)),
             heap |-> [reqHeap EXCEPT ![s.arr] = ret \o SubSeq(@, Len(ret) + 1, Len(@))]]
       ELSE IF ret = <<>> THEN [out |-> NilSel, heap |-> reqHeap]
       ELSE [out |-> Slice(c, Len(ret)), heap |-> [reqHeap EXCEPT ![c] = ret]]

\* An Add that makes room for its result before it knows there is one:
\* the result of adding nothing to an empty selector is then an empty slice
\* with an array of its own, neither nil nor the zero-length slice.
InternalAddPreallocating(s, reqs, c) ==
    LET ret == Elems(reqHeap, s) \o reqs
    IN [out |-> Slice(c, Len(ret)), heap |-> [reqHeap EXCEPT ![c] = ret]]

\* (internalSelector).Add: ret starts nil and is appended to, so it is nil
\* when there is nothing to append and a new array at c otherwise.  The
\* Requirement structs are copied, the args slices inside them are shared.
InternalAdd(s, reqs, c) ==
    LET ret == Elems(reqHeap, s) \o reqs
    IN IF ret = <<>> THEN [out |-> NilSel, heap |-> reqHeap]
       ELSE [out |-> Slice(c, Len(ret)), heap |-> [reqHeap EXCEPT ![c] = ret]]

\* y = x.Add(reqs...), of nothingSelector (itself) and of internalSelector.
Add(x, y, reqs) ==
    LET s == sel[x]
    IN \/ /\ s.kind = "nothing"
          /\ Commit(Assign(y, s), req, reqHeap, argHeap)
       \/ /\ s.kind = "internal"
          /\ s.len + Len(reqs) <= MaxLen
          /\ FreeReqCells # {}
          /\ LET ret == InternalAdd(s, reqs, Fresh(FreeReqCells, 1)[1])
             IN Commit(Assign(y, ret.out), req, ret.heap, argHeap)

\* A DeepCopyInto that stops after *out = *in.
DeepCopyIntoShallow(in, a) == [out |-> in, args |-> <<>>]

\* A DeepCopyInto that copies the query and forgets the arguments.
DeepCopyIntoQueryOnly(in, a) == [out |-> [in EXCEPT !.args = NIL], args |-> <<>>]

\* (*Requirement).DeepCopyInto: *out = *in, then a copy of the arguments
\* at the new cell a unless in.args is nil (a copy of no arguments is a
\* zero-length slice again).
DeepCopyInto(in, a) ==
    IF in.args \in {NIL, ZeroBase} THEN [out |-> in, args |-> <<>>]
    ELSE [out |-> [in EXCEPT !.args = a], args |-> argHeap[in.args]]

\* (internalSelector).DeepCopy: nil for nil, else an array at c of deep
\* copies, whose arguments go to the cells as.
DeepCopy(s, c, as) ==
    LET copy == [i \in 1..s.len |-> DeepCopyInto(Elems(reqHeap, s)[i], as[i])]
        used == {i \in 1..s.len : copy[i].args # <<>>}
    IN [out  |-> IF s.arr = NIL THEN NilSel
                 ELSE IF s.len = 0 THEN EverythingSel ELSE Slice(c, s.len),
        reqs |-> [i \in 1..s.len |-> copy[i].out],
        args |-> [a \in {as[i] : i \in used} |->
                    copy[CHOOSE i \in used : as[i] = a].args]]

\* y = x.DeepCopySelector(), y a variable of any owner: how one goroutine
\* gives another a selector of its own.  nothingSelector returns itself.
DeepCopySelector(x, y) ==
    LET s == sel[x]
        n == Cardinality(FreeArgCells)
    IN \/ /\ s.kind = "nothing"
          /\ Commit(Assign(y, s), req, reqHeap, argHeap)
       \/ /\ s.kind = "internal"
          /\ s.len > 0 => FreeReqCells # {} /\ n >= s.len
          /\ LET c  == IF s.len > 0 THEN Fresh(FreeReqCells, 1)[1] ELSE ZeroBase
                 cp == DeepCopy(s, c, Fresh(FreeArgCells, s.len))
             IN Commit(Assign(y, cp.out), req,
                       IF c \in ReqCells THEN [reqHeap EXCEPT ![c] = cp.reqs] ELSE reqHeap,
                       [a \in ArgCells |-> IF a \in DOMAIN cp.args THEN cp.args[a] ELSE argHeap[a]])

\* The orders in which `for label, value := range ls` can visit a map.
FromSetOrders(ls) == SetToSeqs(DOMAIN ls)

\* SelectorFromSet = SelectorFromValidatedSet: internalSelector{} for an
\* empty map, else one requirement label+"=?" with the value as its only
\* argument for each entry, in the order the map is visited.  What
\* ValidatedSelectorFromSet does differs in nothing but its nil error.
SelectorFromSet(x, ls) ==
    \/ /\ ls = <<>>
       /\ Commit(Assign(x, EverythingSel), req, reqHeap, argHeap)
    \/ /\ ls # <<>>
       /\ FreeReqCells # {}
       /\ Cardinality(FreeArgCells) >= Cardinality(DOMAIN ls)
       /\ \E order \in FromSetOrders(ls) :
            LET c  == Fresh(FreeReqCells, 1)[1]
                as == Fresh(FreeArgCells, Len(order))
                rs == [i \in 1..Len(order) |->
                         [query |-> EqualsQuery(order[i]), args |-> as[i]]]
            IN Commit(Assign(x, Slice(c, Len(order))), req,
                      [reqHeap EXCEPT ![c] = rs],
                      [a \in ArgCells |->
                         IF \E i \in 1..Len(order) : as[i] = a
                         THEN <<ls[order[CHOOSE i \in 1..Len(order) : as[i] = a]]>>
                         ELSE argHeap[a]])

\* args[i] = v, by the caller that passed args to NewRequirement.
WriteArg(o, i, v) ==
    /\ req[o] # NIL
    /\ req[o].args \in ArgCells
    /\ i \in DOMAIN argHeap[req[o].args]
    /\ argHeap[req[o].args][i] # v
    /\ Commit(sel, req, reqHeap, [argHeap EXCEPT ![req[o].args][i] = v])

\* reqs, ok := x.Requirements(); if ok { reqs[i] = r }: the slice that
\* Requirements returns is the selector's own array.
WriteRequirement(o, x, i) ==
    LET got == Requirements(sel[x])
    IN /\ OwnerOf[x] = o
       /\ got.selectable
       /\ req[o] # NIL
       /\ i \in 1..got.requirements.len
       /\ reqHeap[got.requirements.arr][i] # req[o]
       /\ Commit(sel, req, [reqHeap EXCEPT ![got.requirements.arr][i] = req[o]], argHeap)

Write(o) ==
    \/ \E v \in Values : WriteArg(o, 1, v)
    \/ \E x \in Slots, i \in 1..MaxLen : WriteRequirement(o, x, i)

\* y = x.Add() and y = x.Add(r), x and y variables of one owner and r the
\* requirement that owner built.
AddStep(x, y) ==
    /\ OwnerOf[x] = OwnerOf[y]
    /\ \/ Add(x, y, <<>>)
       \/ req[OwnerOf[x]] # NIL /\ Add(x, y, <<req[OwnerOf[x]]>>)

Next ==
    \/ \E x \in Slots : Everything(x) \/ Nothing(x) \/ NewSelector(x)
    \/ \E o \in Owners, q \in Queries, args \in ArgLists : NewRequirement(o, q, args)
    \/ \E x, y \in Slots : AddStep(x, y)
    \/ \E x, y \in Slots : DeepCopySelector(x, y)
    \/ \E x \in Slots, ls \in LabelSets : SelectorFromSet(x, ls)
    \/ \E o \in Owners : Write(o)

Spec == Init /\ [][Next]_vars

-----------------------------------------------------------------------------
(* Properties.                                                             *)

\* Add never changes what an existing selector says: after y = x.Add(...),
\* every selector variable other than y, of every owner, has the String it
\* had before (internalSelector.Add builds its result in a new array).
AddIsNonMutating ==
    [][\A x, y \in Slots :
          AddStep(x, y) => \A z \in Slots \ {y} : StringAt(z)' = StringAt(z)]_vars

\* A selector received through DeepCopySelector is the receiver's alone:
\* no write of another owner, through the args it passed to NewRequirement
\* or through the slice Requirements returned, changes the String of a
\* selector this owner holds (DeepCopy and DeepCopyInto copy both levels).
CopiesAreIndependent ==
    [][\A o \in Owners :
          Write(o) => \A z \in Slots : OwnerOf[z] # o => StringAt(z)' = StringAt(z)]_vars

\* DeepCopySelector returns a selector equal to its receiver: the same
\* String, the same Empty and the same selectable, and it is nil exactly
\* when the receiver is (DeepCopy's `if s == nil` and DeepCopyInto's
\* `if in.args != nil`).
CopyEqualsOriginal ==
    [][\A x, y \in Slots :
          DeepCopySelector(x, y)
          => /\ StringAt(y)' = StringAt(x)
             /\ Empty(sel'[y]) = Empty(sel[x])
             /\ Requirements(sel'[y]).selectable = Requirements(sel[x]).selectable
             /\ (sel'[y].arr = NIL) = (sel[x].arr = NIL)]_vars

\* The String of SelectorFromSet(ls) lists the labels in sorted order, as
\* the comment "sort to have deterministic string representation" at the
\* end of SelectorFromValidatedSet says.
SortedString(ls) ==
    LET order == SetToSortSeq(DOMAIN ls, <)
    IN Join([i \in 1..Len(order) |-> <<EqualsQuery(order[i]), ls[order[i]]>>])

FromSetStringIsSorted ==
    [][\A x \in Slots, ls \in LabelSets :
          SelectorFromSet(x, ls) => StringAt(x)' = SortedString(ls)]_vars
=============================================================================
