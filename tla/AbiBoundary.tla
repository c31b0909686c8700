---------------------------- MODULE AbiBoundary ----------------------------
(***************************************************************************)
(* The C ABI (ffi/): one client that builds a request, in a buffer of the  *)
(* library or in none, calls an entry point, reads the envelope and gives  *)
(* back what it was given; and the three stages of `dispatch`, each in its *)
(* own panic boundary. What the core makes of a well-formed request is a    *)
(* choice here (the other modules say what it is), except for              *)
(* colander_next_version, whose answers the client publishes and sends     *)
(* with its next request.                                                  *)
(*                                                                         *)
(* A request is the state of each key it may carry: absent, of the right    *)
(* JSON type, or present with another one (null included). A key of an      *)
(* object within the request is named by its path. `choice` is the value of *)
(* the key an entry point branches on: kind, mode or bump.                  *)
(***************************************************************************)
EXTENDS Versions, FiniteSets

CONSTANTS
  MayPanic,     \* whether decoding, the core and encoding may panic
  Calls,        \* the calls a client may make: [entry, choice, keys], ...
  VersionCalls, \* ... those of colander_next_version among them apart
  OwnVersions,  \* versions the client publishes of its own accord
  MaxPublished  \* bound on the number of versions published

VARIABLES
  stage,      \* where the call is
  buffer,     \* "none", "null" or "held": what the request was written to
  input,      \* what the request pointer leads to
  call,       \* the call being made
  published,  \* the version texts the client has published
  outcome,    \* what each stage of the call came to
  envelope,   \* what the client was handed
  blocks      \* blocks of the library's heap the client has to release

vars == <<stage, buffer, input, call, published, outcome, envelope, blocks>>

Inputs == {"null", "too large", "not UTF-8", "not JSON", "not an object", "object"}
NotRun == [decode |-> "not run", body |-> "not run", encode |-> "not run"]
NoCall == [entry |-> "none", choice |-> "none", keys |-> << >>]
NoEnvelope == [ok |-> FALSE, kind |-> "none", next |-> << >>]

-----------------------------------------------------------------------------
(* The requests a client may make: an entry point, what its branch key says,  *)
(* and the state of each key the request tables of docs/entry-points.md and    *)
(* docs/entry-points-payload.md list. A key within an object is there only     *)
(* when the object is.                                                         *)

Choices ==
  [compile |-> {"none"}, describe_form |-> {"none"}, content_hash |-> {"none"},
   evaluate_rules |-> {"none"},
   validate_response |-> {"Draft", "Complete", "unknown"},
   next_version |-> {"default", "patch", "minor", "major", "unknown"},
   validate_schema |-> {"form", "component", "workflow", "instance", "unknown"}]

Triple == {"formSchemaJson", "uiSchemaJson", "rulesSchemaJson"}

DocumentedKeys(entry, choice) ==
  CASE entry \in {"compile", "describe_form"} ->
         Triple \cup {"components", "components[].code", "components[].contentHash"}
    [] entry = "content_hash" -> Triple
    [] entry = "evaluate_rules" -> Triple \cup {"values"}
    [] entry = "validate_response" -> Triple \cup {"answersJson", "pageId", "mode"}
    [] entry = "next_version" -> {"published", "bump"}
    [] entry = "validate_schema" /\ choice = "form" ->
         Triple \cup {"kind", "schemas", "schemas.formSchema", "schemas.uiSchema", "schemas.rulesSchema"}
    [] entry = "validate_schema" /\ choice = "component" ->
         {"formSchemaJson", "uiSchemaJson", "kind", "schemas", "schemas.formSchema", "schemas.uiSchema"}
    [] entry = "validate_schema" /\ choice = "workflow" ->
         {"kind", "workflowSchemaJson", "published", "schemas", "schemas.workflowSchema"}
    [] entry = "validate_schema" /\ choice = "instance" ->
         {"kind", "schemaJson", "instanceJson", "label", "schemas"}
    [] entry = "validate_schema" /\ choice = "unknown" -> {"kind", "published"}

Holder(name) ==
  CASE name \in {"components[].code", "components[].contentHash"} -> "components"
    [] name \in {"schemas.formSchema", "schemas.uiSchema", "schemas.rulesSchema",
                 "schemas.workflowSchema"} -> "schemas"
    [] OTHER -> name

IsRequest(request) ==
  /\ request.entry \in DOMAIN Choices /\ request.choice \in Choices[request.entry]
  /\ request.keys \in [DocumentedKeys(request.entry, request.choice) -> {"absent", "right", "wrong"}]
  /\ \A name \in DOMAIN request.keys :
       \/ request.keys[name] = "absent" \/ name = Holder(name)
       \/ request.keys[Holder(name)] = "right"

ASSUME RequestsAssumption ==
  /\ \A request \in Calls \cup VersionCalls : IsRequest(request)
  /\ OwnVersions \subseteq Texts

-----------------------------------------------------------------------------
(* The keys an entry point reads of a request.                              *)

Key(name, required) == [name |-> name, required |-> required]

Present(request, name) == request.keys[name] # "absent"

(* component_from_json, of the entries of `components`: one of the three     *)
(* required keys and one of the two optional ones stand for the others, and a *)
(* value that is no array of objects is of the wrong type.                     *)
ComponentKeys(request) ==
  {Key("components", FALSE)}
  \cup IF Present(request, "components")
       THEN {Key("components[].code", TRUE), Key("components[].contentHash", FALSE)}
       ELSE {}

(* read_schemas: the entries of `schemas` that the documents given call for *)
SchemaKeys(needed) ==
  {Key("schemas", TRUE)} \cup {Key(name, TRUE) : name \in needed}

FormKeys == {Key("formSchemaJson", TRUE), Key("uiSchemaJson", FALSE)}

KeysRead(request) ==
  LET given(name, schema) == IF Present(request, name) THEN {schema} ELSE {}
  IN  CASE request.entry \in {"compile", "describe_form"} ->
             FormKeys \cup {Key("rulesSchemaJson", FALSE)} \cup ComponentKeys(request)
        [] request.entry = "content_hash" ->
             FormKeys \cup {Key("rulesSchemaJson", FALSE)}
        [] request.entry = "evaluate_rules" ->
             FormKeys \cup {Key("rulesSchemaJson", TRUE), Key("values", FALSE)}
        [] request.entry = "validate_response" ->
             FormKeys \cup {Key("rulesSchemaJson", FALSE), Key("answersJson", TRUE),
                            Key("pageId", FALSE), Key("mode", FALSE)}
        [] request.entry = "next_version" ->
             {Key("published", FALSE), Key("bump", FALSE)}
        [] request.entry = "validate_schema" /\ request.choice = "form" ->
             {Key("kind", FALSE)} \cup FormKeys \cup {Key("rulesSchemaJson", FALSE)}
             \cup SchemaKeys({"schemas.formSchema"} \cup given("uiSchemaJson", "schemas.uiSchema")
                                            \cup given("rulesSchemaJson", "schemas.rulesSchema"))
        [] request.entry = "validate_schema" /\ request.choice = "component" ->
             {Key("kind", FALSE)} \cup FormKeys
             \cup SchemaKeys({"schemas.formSchema"} \cup given("uiSchemaJson", "schemas.uiSchema"))
        [] request.entry = "validate_schema" /\ request.choice = "workflow" ->
             {Key("kind", FALSE), Key("workflowSchemaJson", TRUE)} \cup SchemaKeys({"schemas.workflowSchema"})
        [] request.entry = "validate_schema" /\ request.choice = "instance" ->
             {Key("kind", FALSE), Key("schemaJson", TRUE), Key("instanceJson", TRUE),
              Key("label", FALSE), Key("schemas", FALSE)}

(* Mutated: an optional key of the wrong type is taken for an absent one. *)
IsReadableWhenWrong(request, key) ==
  request.keys[key.name] = "right" \/ ~key.required

(* require_string, optional_string, optional_array, optional_object *)
IsReadable(request, key) ==
  request.keys[key.name] = "right"
  \/ (~key.required /\ request.keys[key.name] = "absent")

(* The values an entry point refuses of keys of the right type. *)
IsRefused(request) ==
  \/ request.choice = "unknown"
  \/ /\ request.entry = "validate_response"
     /\ Present(request, "pageId")
     /\ request.choice # "Complete"
  \/ /\ request.entry = "validate_schema"
     /\ request.choice = "workflow"
     /\ Present(request, "published")

Accepts(request) ==
  /\ request.choice # "unknown" => \A key \in KeysRead(request) : IsReadable(request, key)
  /\ ~IsRefused(request)

-----------------------------------------------------------------------------
Init ==
  /\ stage = "idle"
  /\ buffer = "none"
  /\ input = "null"
  /\ call = NoCall
  /\ published = << >>
  /\ outcome = NotRun
  /\ envelope = NoEnvelope
  /\ blocks = 0

(* colander_alloc, of a length that may be zero or have no layout *)
AllocBuffer(length) ==
  /\ stage = "idle" /\ buffer = "none"
  /\ LET null == length \in {"zero", "no layout"}
     IN  /\ buffer' = IF null THEN "null" ELSE "held"
         /\ blocks' = IF null THEN blocks ELSE blocks + 1
  /\ UNCHANGED <<stage, input, call, published, outcome, envelope>>

(* A client with a buffer writes its request to it; one that was given null *)
(* passes it on, and one that asked for no buffer has memory of its own.    *)
Enter(request, given) ==
  /\ stage = "idle"
  /\ buffer = "null" => given = "null"
  /\ buffer = "held" => given # "null"
  /\ stage' = "decoding"
  /\ input' = given
  /\ call' = request
  /\ outcome' = NotRun
  /\ UNCHANGED <<buffer, published, envelope, blocks>>

(* the first boundary: read_request and request_object *)
Decode(panics) ==
  /\ stage = "decoding"
  /\ panics => MayPanic /\ input \notin {"null", "too large"}
  /\ LET result == CASE panics -> "panic"
                     [] ~panics /\ input = "object" -> "ok"
                     [] OTHER -> "rejected"
     IN  /\ outcome' = [outcome EXCEPT !.decode = result]
         /\ stage' = IF result = "ok" THEN "body" ELSE "encoding"
  /\ UNCHANGED <<buffer, input, call, published, envelope, blocks>>

BumpOf(request) == IF request.choice = "default" THEN "patch" ELSE request.choice

(* The body of an entry point; what the core says where it is not modelled. *)
BodyResult(request, core, build) ==
  CASE ~Accepts(request) -> Outcome("rejected", << >>)
    [] Accepts(request) /\ request.entry = "next_version" ->
         NextVersion(IF Present(request, "published") THEN published ELSE << >>,
                     BumpOf(request), build)
    [] OTHER -> Outcome(core, << >>)

(* Mutated: a panic of the core unwinds into the client. *)
BodyWithoutBoundary(core, build) ==
  /\ stage = "body"
  /\ core = "panic" => MayPanic
  /\ LET result == BodyResult(call, core, build)
     IN  /\ outcome' = [outcome EXCEPT !.body = result.status]
         /\ envelope' = [NoEnvelope EXCEPT !.next = result.next]
         /\ stage' = IF result.status = "panic" THEN "idle" ELSE "encoding"
  /\ UNCHANGED <<buffer, input, call, published, blocks>>

(* the second boundary *)
Body(core, build) ==
  /\ stage = "body"
  /\ core = "panic" => MayPanic
  /\ LET result == BodyResult(call, core, build)
     IN  /\ outcome' = [outcome EXCEPT !.body = result.status]
         /\ envelope' = [NoEnvelope EXCEPT !.next = result.next]
  /\ stage' = "encoding"
  /\ UNCHANGED <<buffer, input, call, published, blocks>>

(* Mutated: a panic of the core is reported as a rejected payload. *)
KindOfError(stages) ==
  CASE stages.decode = "rejected" -> "invalid_request"
    [] stages.decode = "panic" -> "panic"
    [] stages.body = "ok" -> "none"
    [] OTHER -> "validation"

Kind(stages) ==
  CASE stages.decode = "rejected" -> "invalid_request"
    [] "panic" \in {stages.decode, stages.body} -> "panic"
    [] stages.body = "rejected" -> "validation"
    [] OTHER -> "none"

(* The third boundary: into_envelope_with_kind. The JSON writer escapes     *)
(* every control character, so its text holds no NUL.                         *)
Encode(panics) ==
  /\ stage = "encoding"
  /\ panics => MayPanic
  /\ outcome' = [outcome EXCEPT !.encode = IF panics THEN "panic" ELSE "ok"]
  /\ envelope' = IF panics
                 THEN [NoEnvelope EXCEPT !.kind = "panic"]
                 ELSE [ok |-> Kind(outcome) = "none", kind |-> Kind(outcome),
                       next |-> IF Kind(outcome) = "none" THEN envelope.next ELSE << >>]
  /\ blocks' = blocks + 1
  /\ stage' = "returned"
  /\ UNCHANGED <<buffer, input, call, published>>

(* colander_free_buffer, which a null pointer or a zero length makes a      *)
(* no-op. The request may be released as soon as the call has returned, or  *)
(* after the string.                                                          *)
FreeBuffer ==
  /\ stage \in {"returned", "freeing"} /\ buffer # "none"
  /\ blocks' = IF buffer = "held" THEN blocks - 1 ELSE blocks
  /\ buffer' = "none"
  /\ stage' = IF stage = "freeing" THEN "idle" ELSE stage
  /\ UNCHANGED <<input, call, published, outcome, envelope>>

(* colander_free_string, of an envelope whose version the client may have   *)
(* published                                                                  *)
FreeString(publishes) ==
  /\ stage = "returned"
  /\ publishes => envelope.ok /\ envelope.next # << >> /\ Len(published) < MaxPublished
  /\ published' = IF publishes THEN Append(published, envelope.next) ELSE published
  /\ blocks' = blocks - 1
  /\ stage' = IF buffer = "none" THEN "idle" ELSE "freeing"
  /\ input' = "null"
  /\ call' = NoCall
  /\ outcome' = NotRun
  /\ envelope' = NoEnvelope
  /\ UNCHANGED buffer

PublishOwn(version) ==
  /\ stage = "idle"
  /\ Len(published) < MaxPublished
  /\ published' = Append(published, version)
  /\ UNCHANGED <<stage, buffer, input, call, outcome, envelope, blocks>>

Lengths == {"zero", "no layout", "fits"}

Library ==
  \/ \E panics \in BOOLEAN : Decode(panics) \/ Encode(panics)
  \/ \E core \in {"ok", "rejected", "panic"}, build \in Builds : Body(core, build)

(* Two bounds: the calls that do not read the versions are made before any  *)
(* is published, and without a buffer; and a pointer that leads to no object *)
(* is sent to one entry point, the stage it fails being the same for all.     *)
Client ==
  \/ \E length \in Lengths : AllocBuffer(length)
  \/ stage = "idle" /\ published = << >> /\ buffer = "none"
     /\ \E request \in Calls : Enter(request, "object")
  \/ \E request \in VersionCalls, given \in Inputs : Enter(request, given)
  \/ FreeBuffer
  \/ \E publishes \in BOOLEAN : FreeString(publishes)
  \/ \E version \in OwnVersions : PublishOwn(version)

Next == Library \/ Client

(* An entry point runs to its end in the thread that calls it. *)
Spec == Init /\ [][Next]_vars /\ WF_vars(Library)

-----------------------------------------------------------------------------
Stages == {outcome[s] : s \in DOMAIN outcome}

(* `ok` only when all three stages came to an end, `invalid_request` only    *)
(* when the core never ran, `panic` whenever a stage panicked and only then.  *)
EnvelopeMatchesStages ==
  stage = "returned" =>
    /\ envelope.ok <=> Stages = {"ok"}
    /\ envelope.kind = "panic" <=> "panic" \in Stages
    /\ envelope.kind = "invalid_request" =>
         outcome.decode = "rejected" /\ outcome.body = "not run"
    /\ envelope.kind = "validation" => outcome.decode = "ok" /\ outcome.body = "rejected"
    /\ envelope.kind = "none" => envelope.ok

(* The entries of `schemas` that no document of the request calls for are    *)
(* not looked at.                                                              *)
Ignored(request) ==
  {"schemas.uiSchema", "schemas.rulesSchema"} \ {key.name : key \in KeysRead(request)}

(* SPEC C-6, C-8, C-9: on no branch of any entry point is a key of the wrong *)
(* type taken for an absent one, but for the exception named above.           *)
WrongTypeRejected ==
  stage = "returned" /\ envelope.ok =>
    \A name \in DOMAIN call.keys : call.keys[name] = "wrong" => name \in Ignored(call)

(* Whatever happened, the client holds one string more than it did, and when *)
(* it has released that and its buffer nothing of the library's heap is left. *)
NothingLeaks ==
  blocks = (IF buffer = "held" THEN 1 ELSE 0) + (IF stage = "returned" THEN 1 ELSE 0)

(* What the envelope says happened is what happened (docs/abi.md), and what  *)
(* the client was given is what it has to give back.                           *)
EnvelopeIsTruthful == EnvelopeMatchesStages /\ WrongTypeRejected /\ NothingLeaks

LowerSegments(bump) == {i \in 1..3 : i > BumpedSegment(bump)}

(* SPEC P-4 and P-6: the next version is the least one of the bump asked for *)
(* that comes after everything published, in whatever order it was published, *)
(* the versions colander gave out itself included. Only beyond the largest    *)
(* number is there none: then a build that checks overflow panics, and one     *)
(* that wraps gives out a text that is no version.                              *)
NextIsLeastNewer ==
  (stage = "returned" /\ call.entry = "next_version" /\ Present(call, "published")
   /\ outcome.body # "not run" /\ Accepts(call) /\ published # << >>) =>
    LET given == {published[i] : i \in DOMAIN published}
        newer == {v \in [1..3 -> 0..IntMax] : \A text \in given : Precedes(Parse(text), v)}
        bumped == {v \in newer : \A i \in LowerSegments(BumpOf(call)) : v[i] = 0}
        full == \E text \in given : Parse(text)[BumpedSegment(BumpOf(call))] = IntMax
    IN  /\ outcome.body = "rejected" <=> \E text \in given : ~IsVersion(text)
        /\ outcome.body = "panic" => full
        /\ envelope.ok /\ ~IsVersion(envelope.next) => full
        /\ envelope.ok /\ IsVersion(envelope.next) =>
             /\ Parse(envelope.next) \in bumped
             /\ \A v \in bumped : ~Precedes(v, Parse(envelope.next))

(* The three stages and the two releases implement the contract of the      *)
(* calls (SPEC C-3 and C-7): whatever panics and wherever, each call is        *)
(* answered, once, and with one of the four answers.                            *)
Contract ==
  INSTANCE CallContract WITH
    pending <- stage \in {"decoding", "body", "encoding"},
    answer <- IF stage # "returned" THEN "none"
              ELSE IF envelope.ok THEN "ok" ELSE envelope.kind

ImplementsCallContract == Contract!Spec

=============================================================================
