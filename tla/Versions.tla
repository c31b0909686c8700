------------------------------ MODULE Versions ------------------------------
(***************************************************************************)
(* semver.rs: versions, their order and the next one. A version text is    *)
(* the sequence of its segments; of a segment only its number matters and  *)
(* whether it is a plain integer, which a number with a sign is not.       *)
(***************************************************************************)
EXTENDS Integers, Sequences

CONSTANTS
  IntMax,   \* i32::MAX, scaled
  Builds    \* "checks" panics where an addition overflows, "wraps" wraps

ASSUME IntAssumption == IntMax \in Nat /\ Builds \subseteq {"checks", "wraps"}

(* what to_string makes of a number *)
Segment(n) == [plain |-> n >= 0, n |-> n]
Display(parts) == [i \in 1..3 |-> Segment(parts[i])]

DefaultVersion == Display(<<1, 0, 0>>)

Texts == {text \in Seq([plain : BOOLEAN, n : Int]) : \A i \in DOMAIN text : text[i].plain => text[i].n >= 0}

IsVersion(text) ==
  Len(text) = 3 /\ \A i \in 1..3 : text[i].plain /\ text[i].n <= IntMax

Parse(text) == [i \in 1..3 |-> text[i].n]

(* Ord for VersionParts: left comes before right *)
Precedes(left, right) ==
  \E i \in 1..3 : left[i] < right[i] /\ \A j \in 1..(i - 1) : left[j] = right[j]

Bumps == {"patch", "minor", "major"}

(* n + 1 on an i32 of a build that lets it wrap *)
Successor(n) == IF n = IntMax THEN -IntMax - 1 ELSE n + 1

BumpedSegment(bump) == [patch |-> 3, minor |-> 2, major |-> 1][bump]

(* Mutated: the segments after the bumped one are kept. *)
ApplyKeepingLower(bump, parts) == [parts EXCEPT ![BumpedSegment(bump)] = Successor(@)]

Apply(bump, parts) ==
  LET at == BumpedSegment(bump)
  IN  [i \in 1..3 |-> IF i < at THEN parts[i] ELSE IF i = at THEN Successor(parts[i]) ELSE 0]

(* the last of the highest *)
Latest(published) ==
  LET latest[i \in DOMAIN published] ==
        IF i = 1 \/ ~Precedes(Parse(published[i]), latest[i - 1])
        THEN Parse(published[i])
        ELSE latest[i - 1]
  IN  latest[Len(published)]

Outcome(status, next) == [status |-> status, next |-> next]

(* next_version, of a library built one way or the other *)
NextVersion(published, bump, build) ==
  IF \E i \in DOMAIN published : ~IsVersion(published[i]) THEN Outcome("rejected", << >>)
  ELSE IF published = << >> THEN Outcome("ok", DefaultVersion)
  ELSE IF Latest(published)[BumpedSegment(bump)] = IntMax /\ build = "checks" THEN Outcome("panic", << >>)
  ELSE Outcome("ok", Display(Apply(bump, Latest(published))))

=============================================================================
