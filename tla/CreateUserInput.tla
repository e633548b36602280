--------------------------- MODULE CreateUserInput ---------------------------
(***************************************************************************)
(* The model type of examples/gen-sdk/client/openapi: MainCreateUserInput, *)
(* a struct of three strings that callers share by pointer, and            *)
(* NullableMainCreateUserInput, which holds such a pointer and whether it  *)
(* was set.  A holder is marshalled to a JSON document, and a document is  *)
(* unmarshalled into a holder: into the object the holder has, when it has *)
(* one.                                                                    *)
(*                                                                         *)
(* encoding/json is outside the repository; it is modelled by what it does *)
(* to a pointer to a struct.  A document is null, malformed, or an object  *)
(* with some of the three members, each a string or a value of another     *)
(* type; members the struct does not have are ignored by the decoder and   *)
(* left out.                                                               *)
(***************************************************************************)
EXTENDS Integers, FiniteSets, TLC

CONSTANTS
    Strings,    \* the values of a field
    Cells,      \* bound: the objects the process allocates
    Holders,    \* the NullableMainCreateUserInput variables of the callers
    Documents,  \* the documents a peer sends
    NIL

ASSUME "" \in Strings

Fields == {"name", "nickName", "phone"}

\* MainCreateUserInput
Object == [Fields -> Strings]

\* The zero value of the struct.
Zero == [f \in Fields |-> ""]

\* A member that is no string.
NotAString == "0"

Null      == [kind |-> "null"]
Malformed == [kind |-> "malformed"]
ObjectDocument ==
    [kind : {"object"},
     members : UNION {[keys -> Strings \cup {NotAString}] : keys \in SUBSET Fields}]
Document == {Null, Malformed} \cup ObjectDocument

ASSUME NotAString \notin Strings /\ Documents \subseteq Document

\* NullableMainCreateUserInput
Nullable == [value : Cells \cup {NIL}, isSet : BOOLEAN]

VARIABLES
    heap,      \* heap[c]: the object at c, NIL while c is not allocated
    nullable,  \* nullable[h]: the holder h
    wire,      \* the document written or received last, NIL for none
    sent,      \* history: whether the document on the wire was written by
               \* MarshalJSON, and the value it was written from
    err,       \* whether the last UnmarshalJSON returned an error
    panicked   \* a nil pointer was written through

vars == <<heap, nullable, wire, sent, err, panicked>>

TypeOK ==
    /\ heap \in [Cells -> Object \cup {NIL}]
    /\ nullable \in [Holders -> Nullable]
    /\ wire \in Document \cup {NIL}
    /\ sent \in [marshalled : BOOLEAN, value : Object \cup {NIL}]
    /\ err \in BOOLEAN /\ panicked \in BOOLEAN

Init ==
    /\ heap = [c \in Cells |-> NIL]
    /\ nullable = [h \in Holders |-> [value |-> NIL, isSet |-> FALSE]]
    /\ wire = NIL
    /\ sent = [marshalled |-> FALSE, value |-> NIL]
    /\ err = FALSE /\ panicked = FALSE

Allocated == {c \in Cells : heap[c] # NIL}

\* The pointers a caller can pass: to an object that exists, or nil.
Pointers == Allocated \cup {NIL}

\* The cell of the next allocation.
Fresh == CHOOSE c \in Cells : c \notin Allocated

\* &this of a new object.
Allocate(object) ==
    /\ ~panicked
    /\ Allocated # Cells
    /\ heap' = [heap EXCEPT ![Fresh] = object]
    /\ UNCHANGED <<nullable, wire, sent, err, panicked>>

-----------------------------------------------------------------------------
(* MainCreateUserInput.                                                    *)

\* A constructor that leaves out the phone.
NewMainCreateUserInputWithoutPhone(name, nickName, phone) ==
    Allocate([name |-> name, nickName |-> nickName])

NewMainCreateUserInput(name, nickName, phone) ==
    Allocate([name |-> name, nickName |-> nickName, phone |-> phone])

NewMainCreateUserInputWithDefaults == Allocate(Zero)

\* The getters: the zero value for a nil receiver.
Get(o, f) == IF o = NIL THEN "" ELSE heap[o][f]

GetName(o)     == Get(o, "name")
GetNickName(o) == Get(o, "nickName")
GetPhone(o)    == Get(o, "phone")

\* The Ok getters: a pointer to the field, and whether there is one.
GetOk(o, f) == IF o = NIL THEN <<NIL, FALSE>> ELSE <<<<o, f>>, TRUE>>

GetNameOk(o)     == GetOk(o, "name")
GetNickNameOk(o) == GetOk(o, "nickName")
GetPhoneOk(o)    == GetOk(o, "phone")

\* The setters: o.Field = v, a nil pointer dereference when o is nil.
Set(o, f, v) ==
    /\ ~panicked
    /\ IF o = NIL
       THEN panicked' = TRUE /\ UNCHANGED heap
       ELSE heap' = [heap EXCEPT ![o][f] = v] /\ UNCHANGED panicked
    /\ UNCHANGED <<nullable, wire, sent, err>>

SetName(o, v)     == Set(o, "name", v)
SetNickName(o, v) == Set(o, "nickName", v)
SetPhone(o, v)    == Set(o, "phone", v)

\* A caller writes through the pointer an Ok getter returned.
WriteThrough(got, v) ==
    /\ ~panicked
    /\ got[2]
    /\ heap' = [heap EXCEPT ![got[1][1]][got[1][2]] = v]
    /\ UNCHANGED <<nullable, wire, sent, err, panicked>>

\* A MarshalJSON that leaves out the members that have the zero value.
MarshalJSONOmitEmpty(o) ==
    [kind |-> "object", members |-> [f \in {g \in Fields : o[g] # ""} |-> o[f]]]

\* MarshalJSON: each of the three members, whatever its value.
MarshalJSON(o) == [kind |-> "object", members |-> [f \in Fields |-> o[f]]]

-----------------------------------------------------------------------------
(* encoding/json, for a *MainCreateUserInput.                              *)

\* json.Marshal: null for a nil pointer.
Marshal(p) == IF p = NIL THEN Null ELSE MarshalJSON(heap[p])

\* The members of a document that the struct can take.
Storable(document) ==
    LET members == document.members
    IN [f \in {g \in DOMAIN members : members[g] \in Strings} |-> members[f]]

\* json.Unmarshal(src, &p): a malformed document changes nothing; null
\* makes p nil; an object is decoded into the object p points to, a new
\* one when p is nil, member by member, the members that are no strings
\* skipped and reported when the others are stored.
Unmarshal(document, p) ==
    CASE document = Malformed -> [value |-> p, heap |-> heap, err |-> TRUE]
      [] document = Null      -> [value |-> NIL, heap |-> heap, err |-> FALSE]
      [] OTHER ->
           LET at   == IF p = NIL THEN Fresh ELSE p
               into == IF p = NIL THEN Zero ELSE heap[p]
           IN [value |-> at,
               heap  |-> [heap EXCEPT ![at] = Storable(document) @@ into],
               err   |-> DOMAIN Storable(document) # DOMAIN document.members]

-----------------------------------------------------------------------------
(* NullableMainCreateUserInput.                                            *)

NullableGet(h) == nullable[h].value

IsSet(h) == nullable[h].isSet

NullableSet(h, val) ==
    /\ ~panicked
    /\ nullable' = [nullable EXCEPT ![h] = [value |-> val, isSet |-> TRUE]]
    /\ UNCHANGED <<heap, wire, sent, err, panicked>>

\* An Unset that keeps the pointer.
UnsetKeepsValue(h) ==
    /\ ~panicked
    /\ nullable' = [nullable EXCEPT ![h].isSet = FALSE]
    /\ UNCHANGED <<heap, wire, sent, err, panicked>>

Unset(h) ==
    /\ ~panicked
    /\ nullable' = [nullable EXCEPT ![h] = [value |-> NIL, isSet |-> FALSE]]
    /\ UNCHANGED <<heap, wire, sent, err, panicked>>

\* h = *NewNullableMainCreateUserInput(val)
NewNullableMainCreateUserInput(h, val) ==
    /\ ~panicked
    /\ nullable' = [nullable EXCEPT ![h] = [value |-> val, isSet |-> TRUE]]
    /\ UNCHANGED <<heap, wire, sent, err, panicked>>

\* MarshalJSON of a holder: json.Marshal(v.value).
NullableMarshalJSON(h) ==
    LET p == NullableGet(h) IN
    /\ ~panicked
    /\ wire' = Marshal(p)
    /\ sent' = [marshalled |-> TRUE, value |-> IF p = NIL THEN NIL ELSE heap[p]]
    /\ UNCHANGED <<heap, nullable, err, panicked>>

\* A document of a peer arrives.
Receive(document) ==
    /\ ~panicked
    /\ wire' = document
    /\ sent' = [marshalled |-> FALSE, value |-> NIL]
    /\ UNCHANGED <<heap, nullable, err, panicked>>

\* UnmarshalJSON: isSet is set, then the document is decoded into v.value.
\* Bound: an object is decoded into a nil pointer while a cell is free.
UnmarshalJSON(h) ==
    LET p       == NullableGet(h)
        decoded == Unmarshal(wire, p)
    IN /\ ~panicked
       /\ wire # NIL
       /\ wire.kind = "object" /\ p = NIL => Allocated # Cells
       /\ nullable' = [nullable EXCEPT ![h] = [value |-> decoded.value, isSet |-> TRUE]]
       /\ heap' = decoded.heap
       /\ err' = decoded.err
       /\ UNCHANGED <<wire, sent, panicked>>

-----------------------------------------------------------------------------
Next ==
    \/ \E name, nickName, phone \in Strings : NewMainCreateUserInput(name, nickName, phone)
    \/ NewMainCreateUserInputWithDefaults
    \/ \E o \in Pointers, v \in Strings :
          \/ SetName(o, v) \/ SetNickName(o, v) \/ SetPhone(o, v)
          \/ \E got \in {GetNameOk(o), GetNickNameOk(o), GetPhoneOk(o)} : WriteThrough(got, v)
    \/ \E h \in Holders :
          \/ \E val \in Pointers :
                NullableSet(h, val) \/ NewNullableMainCreateUserInput(h, val)
          \/ Unset(h) \/ NullableMarshalJSON(h) \/ UnmarshalJSON(h)
    \/ \E document \in Documents : Receive(document)

Spec == Init /\ [][Next]_vars

-----------------------------------------------------------------------------
(* Properties.                                                             *)

\* What a holder wrote, a holder reads: after UnmarshalJSON of a document
\* that MarshalJSON wrote, the getters return what the written object had,
\* and the holder has nil when nil was written, whatever object the holder
\* had before.  json.Unmarshal decodes into the object the holder has and
\* leaves the members the document lacks as they were; the round trip
\* holds because MarshalJSON writes every member ("if true").
RoundTripRestoresTheValue ==
    [][\A h \in Holders :
          UnmarshalJSON(h) /\ sent.marshalled =>
              /\ ~err'
              /\ IF sent.value = NIL
                 THEN NullableGet(h)' = NIL
                 ELSE /\ NullableGet(h)' # NIL
                      /\ GetName(NullableGet(h))' = sent.value.name
                      /\ GetNickName(NullableGet(h))' = sent.value.nickName
                      /\ GetPhone(NullableGet(h))' = sent.value.phone]_vars

\* A holder that is not set shares nothing: UnmarshalJSON into it changes
\* no object that exists, whatever the document.  Set and
\* NewNullableMainCreateUserInput keep the caller's pointer, so a decode
\* into a holder writes the object the caller and every other holder of
\* that pointer have; Unset drops the pointer with the flag.
DecodeIntoUnsetIsFresh ==
    [][\A h \in Holders :
          UnmarshalJSON(h) /\ ~IsSet(h) =>
              \A c \in Allocated : heap'[c] = heap[c]]_vars
=============================================================================
