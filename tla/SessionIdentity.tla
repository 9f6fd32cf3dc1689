---------------------------- MODULE SessionIdentity ----------------------------
(***************************************************************************)
(* explicitSessionKey of session.go: which conversation a request belongs  *)
(* to, if its evidence says so.  Evidence are headers, which Go's map      *)
(* yields in any order, an execution session id of the host, and fields of *)
(* the body, which are read in a fixed order; any of them may be invalid,  *)
(* and the walk ends at the first evidence that is invalid or disagrees.   *)
(*                                                                         *)
(* The fields of the body and of its two containers are numbered in the    *)
(* order in which they are read; a container that is no object, or has a   *)
(* key twice, is Broken evidence at its place.                             *)
(***************************************************************************)
EXTENDS Integers, FiniteSets

CONSTANTS Spellings,  \* header names as they are written
          Fold,       \* spelling -> the identity header it is in lower case, or Other
          Other,      \* a header that is no evidence
          Values,     \* values of evidence
          Valid,      \* those that validSessionValue accepts
          Listed,     \* those that contain a comma
          Several,    \* a header with no value, or several
          LastField,  \* number of fields
          Broken,     \* evidence that cannot be read
          Absent,     \* no evidence
          Requests,   \* requests
          NoKey

Names  == {Fold[h] : h \in Spellings} \ {Other}
Fields == 1 .. LastField
Bodies == {Absent, Broken} \cup [Fields -> Values \cup {Absent, Broken}]

Request == [caller : Values, auth : Values,
            headers : [Spellings -> Values \cup {Absent, Several}],
            execution : Values \cup {Absent},
            original : Bodies, payload : Bodies]

ASSUME FieldsAssumption == LastField \in Nat
ASSUME ValuesAssumption == Valid \subseteq Values
ASSUME RequestsAssumption == Requests \subseteq Request
ASSUME MarksAssumption ==
    /\ {Absent, Broken, Several} \cap Values = {}
    /\ Absent # Broken /\ Absent # Several
    /\ Absent \notin [Fields -> Values \cup {Absent, Broken}]
    /\ Broken \notin [Fields -> Values \cup {Absent, Broken}]

VARIABLES request,     \* the request
          at,          \* what is read
          unread,      \* headers not yet yielded
          seenHeaders, \* identity headers found
          next,        \* the next field
          identity,    \* the value found, or Absent
          key          \* the result

identityVars == <<request, at, unread, seenHeaders, next, identity, key>>

sessionKey(r, v) == [caller |-> r.caller, auth |-> r.auth, id |-> v]

(* OriginalRequest, or Payload when it is empty.                            *)
Raw(r) == IF r.original # Absent THEN r.original ELSE r.payload

--------------------------------------------------------------------------------

Refuse == at' = "done" /\ key' = NoKey /\ UNCHANGED <<unread, seenHeaders, next, identity>>

AgreesLast(v) == v \in Valid

(* add.                                                                     *)
Agrees(v) == v \in Valid /\ identity \in {Absent, v}

CheckCaller == /\ at = "caller"
               /\ \/ /\ request.caller \in Valid /\ request.auth \in Valid
                     /\ at' = "headers"
                     /\ UNCHANGED <<unread, seenHeaders, next, identity, key>>
                  \/ /\ ~(request.caller \in Valid /\ request.auth \in Valid)
                     /\ Refuse
               /\ UNCHANGED request

SkipHeader(h) == /\ at = "headers" /\ h \in unread /\ Fold[h] = Other
                 /\ unread' = unread \ {h}
                 /\ UNCHANGED <<request, at, seenHeaders, next, identity, key>>

Usable(h) == /\ Fold[h] \notin seenHeaders
             /\ request.headers[h] \notin Listed \cup {Several}
             /\ Agrees(request.headers[h])

ReadHeader(h) == /\ at = "headers" /\ h \in unread /\ Fold[h] # Other
                 /\ \/ /\ Usable(h)
                       /\ identity' = request.headers[h]
                       /\ seenHeaders' = seenHeaders \cup {Fold[h]}
                       /\ unread' = unread \ {h}
                       /\ UNCHANGED <<at, next, key>>
                    \/ ~Usable(h) /\ Refuse
                 /\ UNCHANGED request

ReadExecution == /\ at = "headers" /\ unread = {}
                 /\ \/ /\ request.execution = Absent \/ Agrees(request.execution)
                       /\ identity' = IF request.execution = Absent THEN identity ELSE request.execution
                       /\ at' = "body"
                       /\ UNCHANGED <<unread, seenHeaders, next, key>>
                    \/ /\ ~(request.execution = Absent \/ Agrees(request.execution))
                       /\ Refuse
                 /\ UNCHANGED request

ReadBody == /\ at = "body"
            /\ \/ Raw(request) = Absent /\ at' = "found" /\ UNCHANGED <<unread, seenHeaders, next, identity, key>>
               \/ Raw(request) = Broken /\ Refuse
               \/ /\ Raw(request) \notin {Absent, Broken}
                  /\ at' = "fields" /\ UNCHANGED <<unread, seenHeaders, next, identity, key>>
            /\ UNCHANGED request

ReadField == /\ at = "fields" /\ next \in Fields
             /\ LET v == Raw(request)[next]
                IN  \/ /\ v = Absent \/ Agrees(v)
                       /\ identity' = IF v = Absent THEN identity ELSE v
                       /\ next' = next + 1
                       /\ UNCHANGED <<at, unread, seenHeaders, key>>
                    \/ ~(v = Absent \/ Agrees(v)) /\ Refuse
             /\ UNCHANGED request

Decide == /\ at = "found" \/ (at = "fields" /\ next > LastField)
          /\ at' = "done"
          /\ key' = IF identity = Absent THEN NoKey ELSE sessionKey(request, identity)
          /\ UNCHANGED <<request, unread, seenHeaders, next, identity>>

IdentityStart == /\ at = "caller"
                 /\ unread = {h \in Spellings : request.headers[h] # Absent}
                 /\ seenHeaders = {} /\ next = 1 /\ identity = Absent /\ key = NoKey

IdentityInit == request \in Requests /\ IdentityStart

IdentityNext == \/ CheckCaller
                \/ \E h \in Spellings : SkipHeader(h) \/ ReadHeader(h)
                \/ ReadExecution \/ ReadBody \/ ReadField \/ Decide

IdentitySpec == IdentityInit /\ [][IdentityNext]_identityVars

--------------------------------------------------------------------------------
(* Properties                                                               *)

(* Types.                                                                   *)
IdentityTypeOK ==
    /\ request \in Requests
    /\ at \in {"caller", "headers", "body", "fields", "found", "done"}
    /\ unread \subseteq Spellings /\ seenHeaders \subseteq Names
    /\ next \in 1 .. LastField + 1
    /\ identity \in Valid \cup {Absent}
    /\ key \in [caller : Values, auth : Values, id : Values] \cup {NoKey}

(* The headers of a request that are evidence, the values of all evidence,  *)
(* and whether each piece is sound in itself.                               *)
IdentityHeaders(r) == {h \in Spellings : r.headers[h] # Absent /\ Fold[h] # Other}

FieldsOf(r) == {i \in Fields : Raw(r) \notin {Absent, Broken} /\ Raw(r)[i] # Absent}

Evidence(r) == {r.headers[h] : h \in IdentityHeaders(r)}
          \cup ({r.execution} \ {Absent})
          \cup {Raw(r)[i] : i \in FieldsOf(r)}

Sound(r) == /\ r.caller \in Valid /\ r.auth \in Valid
            /\ \A h \in IdentityHeaders(r) : r.headers[h] \notin Listed \cup {Several}
            /\ \A h, i \in IdentityHeaders(r) : Fold[h] = Fold[i] => h = i
            /\ Raw(r) # Broken

(* A request has a key exactly when all of its evidence is sound and names  *)
(* one valid identity, in whatever order Go walks the headers.              *)
VerdictIsOrderFree ==
    at = "done" =>
        /\ \A v \in Valid : Sound(request) /\ Evidence(request) = {v} => key = sessionKey(request, v)
        /\ key # NoKey => Sound(request) /\ \E v \in Valid : Evidence(request) = {v}
================================================================================
