----------------------------- MODULE SchemaCheck -----------------------------
(***************************************************************************)
(* schema/check.rs, schema/keywords.rs, schema/keywords/combinators.rs and     *)
(* the error sink of schema.rs: a classified document is evaluated against an  *)
(* instance under a step budget and a depth bound that every probe shares, and *)
(* what was collected is rendered.                                             *)
(*                                                                         *)
(* An instance is an object of members "p" and "q", an array or a scalar; an   *)
(* "assert" keyword stands for all keywords that look at one value only and    *)
(* accepts the labels it lists. "properties" describes the member "p".         *)
(***************************************************************************)
EXTENDS SchemaClassify

CONSTANTS
  Instances,           \* the instances considered, with all they hold
  BaseSteps,           \* 10_000
  StepsPerNode,        \* 20
  MaxCollectedErrors,  \* MAX_COLLECTED_ERRORS
  MaxReportedErrors    \* MAX_REPORTED_ERRORS

(* instance_node_count *)
NodeCount[i \in Instances] ==
  LET sum[k \in 0..Len(i.parts)] == IF k = 0 THEN 1 ELSE sum[k - 1] + NodeCount[i.parts[k].value]
  IN  sum[Len(i.parts)]

ASSUME CheckAssumption ==
  /\ BaseSteps \in Nat /\ StepsPerNode \in Nat
  /\ MaxReportedErrors \in Nat \ {0} /\ MaxCollectedErrors \in Nat \ {0}

(* Instances are JSON values: trees of finitely many nodes.                    *)
ASSUME InstancesAssumption ==
  \A i \in Instances :
    /\ i.parts \in Seq([name : {"p", "q", "item"}, value : Instances])
    /\ NodeCount[i] \in Nat

VARIABLES
  instance,  \* the instance, once evaluation has begun
  report     \* what `check` returned and what is rendered of it

vars == <<walkVars, instance, report>>

Nothing == [kind |-> "none"]

-----------------------------------------------------------------------------
(* A run: the budget, the errors of one sink, and why evaluation stopped.      *)

Stops == {"steps", "depth"}
Failures == {"false", "$ref", "assert", "anyOf", "oneOf", "not", "additional"}
Runs == [remaining : Nat, depth : Int, errors : Seq(Failures \cup Stops), stop : {"none"} \cup Stops]

NewRun(i) == [remaining |-> BaseSteps + StepsPerNode * NodeCount[i], depth |-> 0,
              errors |-> << >>, stop |-> "none"]

Push(run, error) ==
  IF Len(run.errors) < MaxCollectedErrors THEN [run EXCEPT !.errors = Append(@, error)] ELSE run

(* The last slot is the stop's. *)
PushStop(run) ==
  [run EXCEPT !.errors = Append(SubSeq(@, 1, IF Len(@) < MaxCollectedErrors
                                             THEN Len(@) ELSE MaxCollectedErrors - 1),
                                run.stop)]

Stopped(run) == run.stop # "none"

(* A loop: what each step in turn makes of the value before it.                *)
Through(steps, start) ==
  LET after[k \in 0..Len(steps)] == IF k = 0 THEN start ELSE steps[k][after[k - 1]]
  IN  after[Len(steps)]

UntilStopped(steps, run) ==
  Through([k \in DOMAIN steps |-> [r \in Runs |-> IF Stopped(r) THEN r ELSE steps[k][r]]], run)

(* The subschemas a keyword holds: one entry each, and one only of most.       *)
Positions(d, n, name) == {k \in DOMAIN d[n].keywords : d[n].keywords[k].name = name}
Has(d, n, name) == Positions(d, n, name) # {}
Subschema(d, n, name) == d[n].keywords[CHOOSE k \in Positions(d, n, name) : TRUE].to

-----------------------------------------------------------------------------
(* Evaluation of the document d, where `below` is `check_into` one level down. *)

CheckEach(d, below, name, n, i, run) ==
  UntilStopped([k \in DOMAIN d[n].keywords |-> [r \in Runs |->
                  IF k \in Positions(d, n, name) THEN below[d[n].keywords[k].to][i][r] ELSE r]], run)

CheckParts(below, n, i, names, run) ==
  UntilStopped([k \in DOMAIN i.parts |-> [r \in Runs |->
                  IF i.parts[k].name \in names THEN below[n][i.parts[k].value][r] ELSE r]], run)

(* Mutated: the branch's errors are dropped with the stop among them. *)
BranchSilent(below, n, i, run) ==
  LET r == below[n][i][[run EXCEPT !.errors = << >>]]
  IN  [passes |-> r.errors = << >>, run |-> [r EXCEPT !.errors = run.errors]]

(* evaluate_branch: a sink of its own, the budget shared; a stop is passed on. *)
Branch(below, n, i, run) ==
  LET r == below[n][i][[run EXCEPT !.errors = << >>]]
      after == [r EXCEPT !.errors = run.errors]
  IN  [passes |-> r.errors = << >>, run |-> IF Stopped(r) THEN PushStop(after) ELSE after]

(* How many of the branches pass, up to `enough` of them. *)
Passing(d, below, name, n, i, run, enough) ==
  Through([k \in DOMAIN d[n].keywords |-> [s \in [run : Runs, count : Nat] |->
             IF Stopped(s.run) \/ s.count = enough \/ k \notin Positions(d, n, name) THEN s
             ELSE LET b == Branch(below, d[n].keywords[k].to, i, s.run)
                  IN  [run |-> b.run, count |-> s.count + IF b.passes THEN 1 ELSE 0]]],
          [run |-> run, count |-> 0])

(* Mutated: the first branch that matches decides. *)
CheckOneOfFirst(d, below, n, i, run) ==
  LET s == Passing(d, below, "oneOf", n, i, run, 1)
  IN  IF Stopped(s.run) \/ s.count = 1 THEN s.run ELSE Push(s.run, "oneOf")

CheckOneOf(d, below, n, i, run) ==
  LET s == Passing(d, below, "oneOf", n, i, run, 1 + Len(d[n].keywords))
  IN  IF Stopped(s.run) \/ s.count = 1 THEN s.run ELSE Push(s.run, "oneOf")

CheckAnyOf(d, below, n, i, run) ==
  LET s == Passing(d, below, "anyOf", n, i, run, 1)
  IN  IF Stopped(s.run) \/ s.count = 1 THEN s.run ELSE Push(s.run, "anyOf")

CheckNot(d, below, n, i, run) ==
  LET b == Branch(below, Subschema(d, n, "not"), i, run)
  IN  IF Stopped(b.run) \/ ~b.passes THEN b.run ELSE Push(b.run, "not")

CheckIf(d, below, n, i, run) ==
  LET b == Branch(below, Subschema(d, n, "if"), i, run)
  IN  IF Stopped(b.run) THEN b.run
      ELSE CheckEach(d, below, IF b.passes THEN "then" ELSE "else", n, i, b.run)

(* Members that "properties" does not describe *)
Additional(d, n) == IF Has(d, n, "properties") THEN {"q"} ELSE {"p", "q"}

(* additionalProperties: false looks at names only. *)
CheckAdditional(d, below, n, i, run) ==
  LET other == Subschema(d, n, "additionalProperties")
  IN  CASE d[other].kind = "false" ->
             UntilStopped([k \in DOMAIN i.parts |-> [r \in Runs |->
                IF i.parts[k].name \in Additional(d, n) THEN Push(r, "additional") ELSE r]], run)
        [] d[other].kind = "object" -> CheckParts(below, other, i, Additional(d, n), run)
        [] OTHER -> run

CheckReference(d, below, n, i, run) ==
  LET target == Subschema(d, n, "$ref")
  IN  IF target = Unresolved THEN Push(run, "$ref") ELSE below[target][i][run]

CheckAssertions(d, n, i, run) ==
  UntilStopped([k \in DOMAIN d[n].keywords |-> [r \in Runs |->
                  IF k \in Positions(d, n, "assert") /\ i.label \notin d[n].keywords[k].accepts
                  THEN Push(r, "assert") ELSE r]], run)

(* check_node, in the order of its calls *)
KeywordOrder == <<"$ref", "assert", "allOf", "anyOf", "oneOf", "not", "if",
                  "properties", "additionalProperties", "items">>
CheckKeyword(d, below, name, n, i, run) ==
  CASE name = "$ref" -> CheckReference(d, below, n, i, run)
    [] name = "assert" -> CheckAssertions(d, n, i, run)
    [] name = "allOf" -> CheckEach(d, below, name, n, i, run)
    [] name = "anyOf" -> CheckAnyOf(d, below, n, i, run)
    [] name = "oneOf" -> CheckOneOf(d, below, n, i, run)
    [] name = "not" -> CheckNot(d, below, n, i, run)
    [] name = "if" -> CheckIf(d, below, n, i, run)
    [] name = "properties" -> CheckParts(below, Subschema(d, n, name), i, {"p"}, run)
    [] name = "additionalProperties" -> CheckAdditional(d, below, n, i, run)
    [] name = "items" -> CheckParts(below, Subschema(d, n, name), i, {"item"}, run)

CheckNode(d, below, n, i, run) ==
  CASE d[n].kind = "false" -> Push(run, "false")
    [] d[n].kind = "object" ->
         UntilStopped([k \in DOMAIN KeywordOrder |-> [r \in Runs |->
                         IF Has(d, n, KeywordOrder[k])
                         THEN CheckKeyword(d, below, KeywordOrder[k], n, i, r) ELSE r]], run)
    [] OTHER -> run

(* EvalBudget::consume and leave around check_node *)
CheckInto(d, below, n, i, run) ==
  CASE run.depth >= MaxSchemaDepth -> PushStop([run EXCEPT !.stop = "depth"])
    [] run.depth < MaxSchemaDepth /\ run.remaining = 0 -> PushStop([run EXCEPT !.stop = "steps"])
    [] OTHER ->
         LET r == CheckNode(d, below, n, i, [run EXCEPT !.remaining = @ - 1, !.depth = @ + 1])
         IN  [r EXCEPT !.depth = @ - 1]

(* check_into as deep as it may go: the depth bound stops it above level 0.    *)
Level(d, below) ==
  [n \in Nodes |-> [i \in Instances |-> [run \in Runs |-> CheckInto(d, below, n, i, run)]]]
Evaluation(d) ==
  LET at[levels \in 0..MaxSchemaDepth + 1] ==
        IF levels = 0 THEN [n \in Nodes |-> [i \in Instances |-> [run \in Runs |-> run]]]
        ELSE Level(d, at[levels - 1])
  IN  at[MaxSchemaDepth + 1]

(* format_errors: the step limit goes first, whatever came before it, and the  *)
(* others follow while there is room.                                          *)
FormatErrors(list) ==
  Through([k \in DOMAIN list |-> [s \in Seq(Failures \cup Stops) |->
             IF list[k] = "steps" \/ Len(s) = MaxReportedErrors THEN s ELSE Append(s, list[k])]],
          IF \E k \in DOMAIN list : list[k] = "steps" THEN <<"steps">> ELSE << >>)

-----------------------------------------------------------------------------
Walk == Next /\ UNCHANGED <<instance, report>>

Refused ==
  /\ phase = "classified" /\ report = Nothing /\ errors # {}
  /\ report' = [kind |-> "unusable schema"]
  /\ UNCHANGED <<walkVars, instance>>

Evaluate ==
  /\ phase = "classified" /\ report = Nothing /\ errors = {}
  /\ \E i \in Instances :
       LET run == Evaluation(schema)[Root][i][NewRun(i)]
       IN  /\ instance' = i
           /\ report' = [kind |-> "evaluated", run |-> run, rendered |-> FormatErrors(run.errors)]
  /\ UNCHANGED walkVars

CheckInit == Init /\ instance = Nothing /\ report = Nothing
CheckNext == Walk \/ Refused \/ Evaluate
CheckSpec == CheckInit /\ [][CheckNext]_vars

(* The walk runs until it returns. *)
FairCheckSpec == CheckSpec /\ WF_vars(Walk)

-----------------------------------------------------------------------------
(* What the node n says of i, with no budget and no sink, if `valid` is what   *)
(* its subschemas say.                                                         *)
Says(d, valid, n, i) ==
  LET holds(k) == valid[d[n].keywords[k].to][i]
      every(name, names) == \A k \in DOMAIN i.parts :
        i.parts[k].name \in names => valid[Subschema(d, n, name)][i.parts[k].value]
      single(name) == valid[Subschema(d, n, name)][i]
  IN  /\ d[n].kind # "false"
      /\ Has(d, n, "$ref") => Subschema(d, n, "$ref") # Unresolved /\ single("$ref")
      /\ \A k \in Positions(d, n, "assert") : i.label \in d[n].keywords[k].accepts
      /\ \A k \in Positions(d, n, "allOf") : holds(k)
      /\ Has(d, n, "anyOf") => \E k \in Positions(d, n, "anyOf") : holds(k)
      /\ Has(d, n, "oneOf") => \E k \in Positions(d, n, "oneOf") :
           holds(k) /\ \A j \in Positions(d, n, "oneOf") : holds(j) => j = k
      /\ Has(d, n, "not") => ~single("not")
      /\ Has(d, n, "if") => \A k \in Positions(d, n, IF single("if") THEN "then" ELSE "else") : holds(k)
      /\ Has(d, n, "properties") => every("properties", {"p"})
      /\ Has(d, n, "additionalProperties") => every("additionalProperties", Additional(d, n))
      /\ Has(d, n, "items") => every("items", {"item"})

(* What a schema means, one level beyond those evaluation may enter, as it      *)
(* looks at boolean schemas from above; `deeper` is the rest.                   *)
Meaning(d, deeper) ==
  LET at[levels \in 0..MaxSchemaDepth + 1] ==
        IF levels = 0 THEN [n \in Nodes |-> [i \in Instances |-> deeper]]
        ELSE [n \in Nodes |-> [i \in Instances |-> Says(d, at[levels - 1], n, i)]]
  IN  at[MaxSchemaDepth + 1]

Evaluated == report.kind = "evaluated"

(* S-1, S-11: an evaluation that was not stopped accepts exactly what the      *)
(* schema means, though branches share one budget and are cut short; what  *)
(* it means deeper than evaluation may go has no say.                           *)
VerdictIsMeaning ==
  Evaluated /\ report.run.stop = "none" =>
    \A deeper \in BOOLEAN :
      (report.run.errors = << >>) <=> Meaning(schema, deeper)[Root][instance]

(* S-11, S-12: a stop inside any probe ends the whole evaluation as a failure   *)
(* that names its cause, within the collection cap; every level entered was     *)
(* left again, and the step limit is among what is rendered.                    *)
StopIsReported ==
  Evaluated =>
    /\ report.run.depth = 0
    /\ Len(report.run.errors) <= MaxCollectedErrors
    /\ Len(report.rendered) <= MaxReportedErrors
    /\ Stopped(report.run) => \E k \in DOMAIN report.run.errors : report.run.errors[k] = report.run.stop
    /\ report.run.stop = "steps" => \E k \in DOMAIN report.rendered : report.rendered[k] = "steps"

(* S-10: the walk ends on every document, recursive or not.                     *)
WalkEnds == <>(phase = "classified")
=============================================================================
