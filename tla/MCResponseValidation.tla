------------------------ MODULE MCResponseValidation ------------------------
(* A form of a plain field, a field the others' predicates read, a calculated *)
(* field and a repeater with a plain and a calculated child, in two pages.     *)
EXTENDS ResponseValidation

TheFields == <<"lead", "plain", "total", "rows">>
TheChildren == <<"cell", "sum">>
ThePages == [first |-> {"lead", "plain"}, second |-> {"total", "rows"}]
TheScript == <<[mode |-> "Draft", page |-> "all"], [mode |-> "Complete", page |-> "first"],
               [mode |-> "Complete", page |-> "second"], [mode |-> "Complete", page |-> "elsewhere"],
               [mode |-> "Complete", page |-> "all"]>>

All == {"lead", "plain", "total", "rows", "cell", "sum"}
Copy == [v \in Values |-> v]
Successor == [Copy EXCEPT !["blank"] = "null", !["one"] = "two", !["two"] = "over",
                          !["over"] = "infinite", !["wrong"] = "failed"]
(* Division tells a double from an integer: what it makes of `7.0` it does   *)
(* not make of `7`.                                                           *)
Halved == [Copy EXCEPT !["float"] = "two", !["exact"] = "rough", !["rough"] = "float"]

BaseForm ==
  [lead |-> "lead", assert |-> "unset", minItems |-> 0, maxItems |-> 2,
   type |-> [c \in All |-> "number"],
   hidden |-> [c \in All |-> FALSE], readOnly |-> [c \in All |-> FALSE],
   required |-> [c \in All |-> FALSE],
   visibleWhen |-> [c \in All |-> "unset"], enabledWhen |-> [c \in All |-> "unset"],
   requiredWhen |-> [c \in All |-> "unset"],
   calculate |-> [total |-> [of |-> "lead", apply |-> Copy], sum |-> [of |-> "cell", apply |-> Successor]]]

(* Every way the flags of one plain field come about *)
FlagForms ==
  {[BaseForm EXCEPT !.readOnly["plain"] = ro, !.required["plain"] = rq, !.hidden["plain"] = h,
                    !.visibleWhen["plain"] = v, !.enabledWhen["plain"] = e, !.requiredWhen["plain"] = r] :
     ro \in BOOLEAN, rq \in BOOLEAN, h \in BOOLEAN,
     v \in {"unset", "filled"}, e \in {"unset", "always", "empty"}, r \in {"unset", "never", "empty"}}
(* Calculated fields and assertions *)
TotalForms ==
  {[BaseForm EXCEPT !.calculate["total"].apply = f, !.type["total"] = t, !.required["total"] = rq,
                    !.hidden["total"] = h, !.assert = a, !.required["plain"] = TRUE] :
     f \in {Copy, Successor}, t \in {"number", "integer"}, rq \in BOOLEAN, h \in BOOLEAN,
     a \in {"unset", "filled"}}
(* The repeater and its children *)
RowForms ==
  {[BaseForm EXCEPT !.visibleWhen["rows"] = access[1], !.enabledWhen["rows"] = access[2],
                    !.minItems = items[1], !.maxItems = items[2],
                    !.readOnly["cell"] = cell[1], !.enabledWhen["cell"] = cell[2],
                    !.required["cell"] = rq, !.required["sum"] = rq] :
     access \in {<<"unset", "unset">>, <<"filled", "unset">>, <<"unset", "never">>},
     items \in {<<0, 2>>, <<1, 1>>},
     cell \in {<<FALSE, "unset">>, <<TRUE, "unset">>, <<TRUE, "filled">>}, rq \in BOOLEAN}

(* Types of what the rules read, and calculations of it *)
SpellingForms ==
  {[BaseForm EXCEPT !.type["lead"] = read, !.type["cell"] = read, !.type["plain"] = read,
                    !.type["total"] = t, !.type["sum"] = t,
                    !.calculate["total"].apply = f, !.calculate["sum"].apply = f, !.visibleWhen["plain"] = "filled"] :
     read \in {"number", "integer", "date"}, t \in {"number", "integer"}, f \in {Copy, Halved}}

NoRows == [kind |-> "absent", elements |-> <<>>]
Array(elements) == [kind |-> "array", elements |-> elements]
Submission(l, p, t, rows, stray) ==
  [fields |-> [c \in {"lead", "plain", "total"} |-> CASE c = "lead" -> l [] c = "plain" -> p [] c = "total" -> t],
   rows |-> rows, stray |-> stray]
Element(cell, sum, stray) ==
  [kind |-> "row", stray |-> stray, cells |-> [c \in {"cell", "sum"} |-> IF c = "cell" THEN cell ELSE sum]]
NotRow == [kind |-> "no row", stray |-> FALSE, cells |-> [c \in {"cell", "sum"} |-> "absent"]]

FlagSubmissions ==
  {Submission(l, p, "absent", NoRows, FALSE) : l \in {"absent", "one"}, p \in Answers}
TotalSubmissions ==
  {Submission(l, "one", t, NoRows, s) :
     l \in {"absent", "blank", "one", "two", "over", "wrong"}, t \in Answers \ Respelled, s \in BOOLEAN}
Elements ==
  {NotRow, Element("one", "two", TRUE)}
  \cup {Element(c, d, FALSE) : c \in {"absent", "null", "one", "wrong", "over"}, d \in {"absent", "two"}}
RowSubmissions ==
  {Submission(l, "absent", "absent", rows, FALSE) :
     l \in {"absent", "one"},
     rows \in {NoRows, [kind |-> "blank", elements |-> <<>>], [kind |-> "wrong", elements |-> <<>>], Array(<<>>)}
              \cup {Array(<<e>>) : e \in Elements} \cup {Array(<<e, f>>) : e \in Elements, f \in {NotRow, Element("one", "two", FALSE), Element("null", "absent", FALSE)}}}

SpellingSubmissions ==
  LET some == {"one"} \cup Respelled
  IN  {Submission(l, p, t, NoRows, FALSE) :
         l \in some \cup {"absent"}, p \in {"absent", "variant"}, t \in some \cup {"absent", "two"}}
      \cup {Submission("one", "float", "absent", Array(<<Element(c, d, FALSE), Element("two", "absent", FALSE)>>), FALSE) :
             c \in some, d \in some \cup {"absent", "two"}}

TheSuites == {[forms |-> FlagForms, submissions |-> FlagSubmissions],
              [forms |-> TotalForms, submissions |-> TotalSubmissions],
              [forms |-> RowForms, submissions |-> RowSubmissions],
              [forms |-> SpellingForms, submissions |-> SpellingSubmissions]}
=============================================================================
