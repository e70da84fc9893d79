----------------------------- MODULE KeaResponse -----------------------------
(***************************************************************************)
(* keaClient.parseResponse of pkg/clients/keaclient/keaclient.go: which    *)
(* verdict is read out of the body of an HTTP answer.  A body is JSON or   *)
(* not; of a JSON value only the shape and the fields "result" and         *)
(* "arguments" of its items matter.                                        *)
(***************************************************************************)
EXTENDS Sequences

\* The result codes the callers tell apart.  The zero value of the field is 0,
\* success.
Result == {"success", "error", "empty"}

\* One { "result": ..., "arguments": ... }.  Its result may also be left out,
\* or be no number; its arguments may be an object, as keamodels.Response
\* wants them, or a list.
Item == [result : Result \cup {"missing", "mistyped"}, args : {"none", "object", "list"}]

\* A whole body: [items], {"responses": [items]}, or self as the object.  A
\* JSON null decodes like the object without fields, as an item and as a body.
Blank == [result |-> "missing", args |-> "none"]
Array(items) == [shape |-> "array", items |-> items, self |-> Blank]
Wrapped(items) == [shape |-> "wrapped", items |-> items, self |-> Blank]
Single(item) == [shape |-> "object", items |-> <<>>, self |-> item]
Other == [shape |-> "other", items |-> <<>>, self |-> Blank]

\* The items that json.Unmarshal decodes into keamodels.Response and into
\* laxResponse.
Strict == {item \in Item : item.result # "mistyped" /\ item.args # "list"}
Lax == {item \in Item : item.result # "mistyped"}

\* A decoded item: a missing result is 0, arguments that are no object are dropped.
ResponseOf(item) ==
    [result |-> IF item.result = "missing" THEN "success" ELSE item.result,
     args |-> item.args = "object"]

Unrecognized == [result |-> "unrecognized", args |-> FALSE]

\* The body decodes as a list of this shape that has a first item.
First(b, shape, decodable) ==
    /\ b.shape = shape
    /\ b.items # <<>>
    /\ \A k \in DOMAIN b.items : b.items[k] \in decodable

\* The body decodes as one object, whatever else it holds.
Whole(b, decodable) == b.shape \in {"object", "wrapped"} /\ b.self \in decodable

\* The single object tried before the list of responses.
SingleFirst(b) ==
    IF First(b, "array", Strict) \/ First(b, "array", Lax) THEN ResponseOf(Head(b.items))
    ELSE IF Whole(b, Strict) \/ Whole(b, Lax) THEN ResponseOf(b.self)
    ELSE IF First(b, "wrapped", Strict) \/ First(b, "wrapped", Lax)
         THEN ResponseOf(Head(b.items))
    ELSE Unrecognized

parseResponse(b) ==
    IF \/ First(b, "array", Strict) \/ First(b, "array", Lax)
       \/ First(b, "wrapped", Strict) \/ First(b, "wrapped", Lax)
    THEN ResponseOf(Head(b.items))
    ELSE IF Whole(b, Strict) \/ Whole(b, Lax) THEN ResponseOf(b.self)
    ELSE Unrecognized

-----------------------------------------------------------------------------
\* What a Kea server means by its answer, and the bodies by which it says so:
\* a Control Agent lists the answer of each service, a server answers with one.
\* No answer is a body that is not JSON, a JSON scalar, or an empty list.
Answer == [result : Result, args : {"none", "object", "list"}]
NoAnswer == [result |-> "none", args |-> "none"]

Bodies(a) ==
    IF a = NoAnswer THEN {Other, Array(<<>>)}
    ELSE {Single(a), Array(<<a>>), Wrapped(<<a>>)}
         \cup {Array(<<a, b>>) : b \in Answer} \cup {Wrapped(<<a, b>>) : b \in Answer}

=============================================================================
